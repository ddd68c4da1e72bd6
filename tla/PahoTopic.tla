------------------------------ MODULE PahoTopic ------------------------------
(***************************************************************************)
(* Which handler a message is for: isTopicMatched() and deliverMessage()   *)
(* of the two clients of ext/pahomqtt, MQTTClient/src/MQTTClient.h and     *)
(* MQTTClient-C/src/MQTTClient.c.  A topic is a sequence of characters.    *)
(***************************************************************************)
EXTENDS Integers, Sequences, SequencesExt, FiniteSetsExt

CONSTANT MaxTopic   \* bound: the length of filters and names

TopicAssumption == MaxTopic \in Nat

VARIABLES filter, name, matched, matching   \* matching: idle or done

topicVars == <<filter, name, matched, matching>>

Sep == "/"
Strings(chars) == UNION {[1 .. n -> chars] : n \in 1 .. MaxTopic}

(* "assume topic filter and name is in correct format: # can only be at    *)
(* end, + and # can only be next to separator"                             *)
Filters ==
    {f \in Strings({"a", Sep, "+", "#"}) :
        \A k \in DOMAIN f : f[k] \in {"+", "#"} =>
            /\ k > 1 => f[k - 1] = Sep
            /\ k < Len(f) => f[k] = "+" /\ f[k + 1] = Sep}
Names == Strings({"a", "b", Sep})

-----------------------------------------------------------------------------
(* isTopicMatched(): + takes the characters up to the next separator, of   *)
(* which there is at least one, and # what is left, which is not nothing.  *)

LevelEnd(n, j) == Min({k \in j .. Len(n) + 1 : k = Len(n) + 1 \/ n[k] = Sep})

(* Mutant of After: + takes one character.                                 *)
AfterOne(f, i, n, j) == IF f[i] = "#" THEN Len(n) + 1 ELSE j + 1

After(f, i, n, j) ==
    CASE f[i] = "+" -> LevelEnd(n, j)
      [] f[i] = "#" -> Len(n) + 1
      [] OTHER -> j + 1

isTopicMatched(f, n) ==
    LET from[i \in 1 .. Len(f) + 1, j \in 1 .. Len(n) + 1] ==
            IF i > Len(f) \/ j > Len(n) THEN i > Len(f) /\ j > Len(n)
            ELSE /\ n[j] = Sep => f[i] = Sep
                 /\ f[i] \in {"+", "#", n[j]}
                 /\ from[i + 1, After(f, i, n, j)]
    IN  from[1, 1]

(* deliverMessage() asks for every handler's filter.                       *)
HandlerMatches(f, n) == f = n \/ isTopicMatched(f, n)

Init == filter = <<>> /\ name = <<>> /\ matched = FALSE /\ matching = "idle"

Match ==
    /\ matching = "idle" /\ matching' = "done"
    /\ \E f \in Filters, n \in Names :
        filter' = f /\ name' = n /\ matched' = HandlerMatches(f, n)

Next == Match
Spec == Init /\ [][Next]_topicVars

-----------------------------------------------------------------------------
(* The rule of MQTT, by levels: + stands for one level, # for any number   *)
(* of levels at the end.                                                   *)
Levels(t) ==
    LET seps == {0, Len(t) + 1} \cup {k \in DOMAIN t : t[k] = Sep}
        cuts == SetToSortSeq(seps, <)
    IN  [k \in 1 .. Len(cuts) - 1 |-> SubSeq(t, cuts[k] + 1, cuts[k + 1] - 1)]

OneLevel(f, n) == f = <<"+">> \/ f = n
ByLevels(f, n) ==
    LET whole == IF Last(f) = <<"#">> THEN Len(f) - 1 ELSE Len(f)
    IN  /\ IF Last(f) = <<"#">> THEN Len(n) >= whole ELSE Len(n) = whole
        /\ \A k \in 1 .. whole : OneLevel(f[k], n[k])

(* A handler gets the messages MQTT has for its filter and no others,      *)
(* except that + and # do not take an empty level, nor # no level at all   *)
(* (MQTTClient.h 437-500; MQTTClient.c 131-191).                  *)
MatchesByLevels ==
    matching = "done" =>
        LET f == Levels(filter)
            n == Levels(name)
        IN  /\ matched => ByLevels(f, n)
            /\ (<<>> \notin Range(n) /\ (Last(f) = <<"#">> => Len(n) >= Len(f)))
               => (matched <=> ByLevels(f, n))
=============================================================================
