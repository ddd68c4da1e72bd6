---------------------------- MODULE SrDevicePush ----------------------------
(***************************************************************************)
(* SrDevicePush (src/srdevicepush.cc, include/srdevicepush.h): the thread  *)
(* that keeps a long poll to the server open and puts the operations it    *)
(* receives in the ingress queue of the agent, while another thread calls  *)
(* sleep(), resume(), subscribe() and unsubscribe().  Both write           *)
(* bayeuxState and xids without a lock.                                    *)
(*                                                                         *)
(* The server is external.  It numbers the operations, answers a connect   *)
(* with all that were not acknowledged and with the number of the last of  *)
(* them ("88,n"), and takes an n in a connect as an acknowledgement.  A    *)
(* text is a sequence of characters: <<kind, value, k>> is the kth         *)
(* character of a line.                                                    *)
(***************************************************************************)
EXTENDS Integers, Sequences, SequencesExt

CONSTANTS
    Xids,         \* the templates that may be subscribed to
    Orders,       \* the orders in which the server puts the lines of an answer
    MaxOps,       \* bound: the operations
    MaxCalls,     \* bound: the calls of the other thread
    MaxFailures   \* bound: the lost requests and answers, and bad answers

PushAssumption ==
    /\ Orders \subseteq {"batch first", "advice last", "advice first"}
    /\ MaxOps \in Nat /\ MaxCalls \in Nat /\ MaxFailures \in Nat

VARIABLES
    bayeuxState, xids, bnum,   \* as in the code
    canceled,    \* whether the progress meter was reset by cancel()
    pc,          \* top (of the loop), handshake, subscribe, connect, or put
    post,        \* the post in flight: what it asks for and whether it is served
    text,        \* the batch process() has left for the queue
    seen,        \* the bayeuxState read by a subscribe() not yet done, or none
    calls,       \* how many calls were made
    asleep,      \* history: whether the last of sleep() and resume() was sleep()
    topics,      \* server: what the session is subscribed to
    made,        \* server: the number of operations there were
    acked,       \* server: the number of operations acknowledged
    received,    \* history: the operations that were put whole in the queue
    garbled,     \* history: whether anything else was put in it with them
    failures

client == <<bayeuxState, xids, bnum>>
server == <<topics, made, acked>>
outcome == <<received, garbled>>
pushVars == <<client, canceled, pc, post, text, seen, calls, asleep, server,
              outcome, failures>>

States == {"idle", "handshake", "subscribe", "connect"}
Channel == "channel"
NoPost == [served |-> FALSE, xids |-> {}, bnum |-> -1]

Init ==
    /\ bayeuxState = "handshake" /\ xids = {} /\ bnum = 0
    /\ canceled = FALSE /\ pc = "top" /\ post = NoPost /\ text = <<>>
    /\ seen = "none" /\ calls = 0 /\ asleep = FALSE
    /\ topics = {} /\ made = 0 /\ acked = 0
    /\ received = {} /\ garbled = FALSE /\ failures = 0

-----------------------------------------------------------------------------
(* process() *)

Width == [batch |-> 2, advice |-> 3, op |-> 2]

Text(lines) ==
    FlattenSeq([i \in DOMAIN lines |->
        [k \in 1 .. Width[lines[i].kind] |-> <<lines[i].kind, lines[i].value, k>>]])

(* The 0-based position of the line of a kind, or -1. *)
Position(lines, kind) ==
    LET at == {i \in DOMAIN lines : lines[i].kind = kind}
    IN  IF at = {} THEN -1 ELSE Len(Text(SubSeq(lines, 1, Min(at) - 1)))

(* std::string::erase, and nothing at npos. *)
Erase(s, pos, n) ==
    IF pos = -1 THEN s ELSE SubSeq(s, 1, pos) \o SubSeq(s, pos + n + 1, Len(s))

(* Mutant of Process: the first of the two lines is erased first.          *)
ProcessBatchFirst(lines) ==
    Erase(Erase(Text(lines), Position(lines, "batch"), Width.batch),
          Position(lines, "advice"), Width.advice)

(* The advice is erased first, and then the batch number at the position   *)
(* it had before.                                                          *)
Process(lines) ==
    Erase(Erase(Text(lines), Position(lines, "advice"), Width.advice),
          Position(lines, "batch"), Width.batch)

(* The operations that are whole in a text, and whether it is made of them.*)
OpText(o) == Text(<<[kind |-> "op", value |-> o]>>)
WholeOps(s) ==
    {o \in 1 .. MaxOps : \E i \in 1 .. Len(s) - 1 : SubSeq(s, i, i + 1) = OpText(o)}
IsWhole(s) ==
    \A i \in DOMAIN s : \E o \in WholeOps(s) :
       s[i] = OpText(o)[1] \/ (s[i] = OpText(o)[2] /\ s[i - 1] = OpText(o)[1])

-----------------------------------------------------------------------------
(* The server *)

NewOperation ==
    /\ made < MaxOps
    /\ made' = made + 1
    /\ UNCHANGED <<client, canceled, pc, post, text, seen, calls, asleep,
                   topics, acked, outcome, failures>>

Serve ==
    /\ post # NoPost
    /\ ~post.served
    /\ post' = [post EXCEPT !.served = TRUE]
    /\ \/ /\ pc = "handshake"
          /\ topics' = {}
          /\ UNCHANGED acked
       \/ /\ pc = "subscribe"
          /\ topics' = {Channel} \cup post.xids
          /\ UNCHANGED acked
       \/ /\ pc = "connect"
          /\ acked' = Max({acked, post.bnum})
          /\ UNCHANGED topics
    /\ UNCHANGED <<client, canceled, pc, text, seen, calls, asleep, made,
                   outcome, failures>>

(* The lines of the answer to a connect. *)
Batch == IF made = acked THEN <<>> ELSE <<[kind |-> "batch", value |-> made]>>
Ops == [k \in 1 .. made - acked |-> [kind |-> "op", value |-> acked + k]]
Advice(policy) ==
    IF policy = "none" THEN <<>> ELSE <<[kind |-> "advice", value |-> 0]>>

Answer(policy) ==
    {Batch \o Advice(policy) \o Ops : o \in Orders \cap {"batch first"}}
    \cup {Batch \o Ops \o Advice(policy) : o \in Orders \cap {"advice last"}}
    \cup {Advice(policy) \o Batch \o Ops : o \in Orders \cap {"advice first"}}

-----------------------------------------------------------------------------
(* The push thread *)

(* The switch of func(). *)
Dispatch ==
    /\ pc = "top"
    /\ bayeuxState # "idle"
    /\ pc' = bayeuxState
    /\ UNCHANGED <<client, canceled, post, text, seen, calls, asleep, server,
                   outcome, failures>>

(* The beginning of a post resets the progress meter.  connect() without a *)
(* batch number sets the state.                                            *)
Post ==
    /\ pc \in {"handshake", "subscribe", "connect"}
    /\ post = NoPost
    /\ post' = [served |-> FALSE, xids |-> xids, bnum |-> bnum]
    /\ canceled' = FALSE
    /\ bayeuxState' = IF pc = "connect" /\ bnum = 0 THEN "connect" ELSE bayeuxState
    /\ UNCHANGED <<xids, bnum, pc, text, seen, calls, asleep, server, outcome,
                   failures>>

Answered(kind) ==
    /\ pc = kind
    /\ post.served
    /\ post' = NoPost
    /\ UNCHANGED <<xids, canceled, seen, calls, asleep, server, outcome>>

Handshaken ==
    /\ Answered("handshake")
    /\ bnum' = 0
    /\ pc' = "subscribe"
    /\ UNCHANGED <<bayeuxState, text, failures>>

Subscribed ==
    /\ Answered("subscribe")
    /\ pc' = "connect"
    /\ UNCHANGED <<bayeuxState, bnum, text, failures>>

(* An answer to a connect is processed. *)
Connected ==
    /\ Answered("connect")
    /\ \E policy \in {"none", "retry", "handshake"} :
       \E lines \in Answer(policy) :
          /\ bayeuxState' = CASE policy = "none" -> bayeuxState
                              [] policy = "retry" -> "connect"
                              [] policy = "handshake" -> "handshake"
          /\ bnum' = IF Batch = <<>> THEN bnum ELSE Batch[1].value
          /\ text' = Process(lines)
    /\ pc' = "put"
    /\ UNCHANGED failures

(* The batch is put in the queue unless the device push sleeps.            *)
Put ==
    /\ pc = "put"
    /\ \/ /\ bayeuxState # "idle"
          /\ received' = received \cup WholeOps(text)
          /\ garbled' = (garbled \/ ~IsWhole(text))
       \/ /\ bayeuxState = "idle"
          /\ UNCHANGED outcome
    /\ text' = <<>>
    /\ pc' = "top"
    /\ UNCHANGED <<client, canceled, post, seen, calls, asleep, server, failures>>

AfterFailure == "top"

(* A post fails: the request or its answer is lost.  An error is put in    *)
(* the queue and the thread waits.                                         *)
Fail ==
    /\ post # NoPost
    /\ failures < MaxFailures
    /\ failures' = failures + 1
    /\ post' = NoPost
    /\ pc' = AfterFailure
    /\ UNCHANGED <<client, canceled, text, seen, calls, asleep, server, outcome>>

(* A handshake or subscribe is answered, but not as it should: handshake() *)
(* resets bnum all the same.                                               *)
BadAnswer ==
    /\ post.served
    /\ pc \in {"handshake", "subscribe"}
    /\ failures < MaxFailures
    /\ failures' = failures + 1
    /\ bnum' = IF pc = "handshake" THEN 0 ELSE bnum
    /\ post' = NoPost
    /\ pc' = AfterFailure
    /\ UNCHANGED <<bayeuxState, xids, canceled, text, seen, calls, asleep,
                   server, outcome>>

(* The progress function aborts a post that was canceled. *)
Abort ==
    /\ post # NoPost
    /\ canceled
    /\ post' = NoPost
    /\ pc' = AfterFailure
    /\ UNCHANGED <<client, canceled, text, seen, calls, asleep, server, outcome,
                   failures>>

-----------------------------------------------------------------------------
(* The other thread *)

Call ==
    /\ seen = "none"
    /\ calls < MaxCalls
    /\ calls' = calls + 1
    /\ UNCHANGED <<bnum, pc, post, text, server, outcome, failures>>

Sleep ==
    /\ Call
    /\ bayeuxState' = "idle"
    /\ asleep' = TRUE
    /\ UNCHANGED <<xids, canceled, seen>>

(* Mutant of Resume: only a device push that is awake resumes.             *)
ResumeAwake ==
    /\ Call
    /\ bayeuxState' = IF bayeuxState = "idle" THEN "idle" ELSE "handshake"
    /\ asleep' = FALSE
    /\ UNCHANGED <<xids, canceled, seen>>

Resume ==
    /\ Call
    /\ bayeuxState' = "handshake"
    /\ asleep' = FALSE
    /\ UNCHANGED <<xids, canceled, seen>>

(* subscribe() or unsubscribe() up to its read of bayeuxState.             *)
ChangeTopics ==
    /\ Call
    /\ \E x \in Xids : xids' = IF x \in xids THEN xids \ {x} ELSE xids \cup {x}
    /\ seen' = bayeuxState
    /\ UNCHANGED <<bayeuxState, canceled, asleep>>

(* And from its write on.  A build may leave out the write of what was     *)
(* read.                                                                   *)
CancelPost ==
    /\ seen # "none"
    /\ bayeuxState' \in IF seen = "connect" THEN {"subscribe"} ELSE {seen, bayeuxState}
    /\ canceled' = TRUE
    /\ seen' = "none"
    /\ UNCHANGED <<xids, bnum, pc, post, text, calls, asleep, server, outcome,
                   failures>>

-----------------------------------------------------------------------------
Next ==
    \/ NewOperation \/ Serve
    \/ Dispatch \/ Post \/ Handshaken \/ Subscribed \/ Connected \/ Put
    \/ Fail \/ BadAnswer \/ Abort
    \/ Sleep \/ Resume \/ ChangeTopics \/ CancelPost

Spec == Init /\ [][Next]_pushVars

(* The server serves every request and answers it, a connect at the latest *)
(* when there is an operation to deliver; a canceled post is aborted; the  *)
(* threads go on.                                                          *)
FairSpec ==
    /\ Spec
    /\ WF_pushVars(Serve)
    /\ WF_pushVars(Dispatch) /\ WF_pushVars(Post) /\ WF_pushVars(Put)
    /\ WF_pushVars(Handshaken) /\ WF_pushVars(Subscribed)
    /\ WF_pushVars(made > acked /\ Connected)
    /\ WF_pushVars(Abort) /\ WF_pushVars(CancelPost)

-----------------------------------------------------------------------------
(* Properties *)

(* Every variable has its type, and no number is acknowledged that the     *)
(* server has not given.                                                   *)
TypeOK ==
    /\ bayeuxState \in States /\ xids \subseteq Xids /\ bnum \in 0 .. made
    /\ pc \in (States \ {"idle"}) \cup {"top", "put"}
    /\ post = NoPost \/ pc \in States
    /\ seen \in States \cup {"none"}
    /\ topics \subseteq {Channel} \cup Xids
    /\ made \in 0 .. MaxOps /\ acked \in 0 .. made
    /\ received \subseteq 1 .. MaxOps

(* Reliable push: an operation the server may forget has been put in the   *)
(* queue, although answers are discarded while the device push sleeps and  *)
(* batch numbers are taken from them all the same                          *)
(* (src/srdevicepush.cc 157-166, 213-248; include/srdevicepush.h 39-41).   *)
AckedWasQueued == 1 .. acked \subseteq received

(* A connect is never posted in a session that was not subscribed to the   *)
(* channel of the device, whatever failed before it                        *)
(* (src/srdevicepush.cc 69-142).                                           *)
ConnectsSubscribed == pc = "connect" => Channel \in topics

(* What is put in the queue is the operations, each of them whole: the     *)
(* advice and the batch number, and nothing else, are removed              *)
(* (src/srdevicepush.cc 233-264; include/srdevicepush.h 173-182).          *)
BatchesAreWhole == ~garbled

(* A device push that stays awake puts every operation in the queue.       *)
(* (src/srdevicepush.cc 63-171).                                           *)
OpsArrive ==
    <>[]~asleep => \A o \in 1 .. MaxOps : (made >= o) ~> (o \in received)

(* The session is in the end subscribed to the templates asked for.  It is *)
(* not so: a subscribe() during a handshake changes nothing but xids       *)
(* (include/srdevicepush.h 116-117, 127-138, src/srdevicepush.cc 222).     *)
TopicsConverge ==
    <>[]~asleep => []<>(topics = {Channel} \cup xids)
=============================================================================
