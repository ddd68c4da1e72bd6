----------------------------- MODULE SrReporter -----------------------------
(***************************************************************************)
(* The reporter thread (src/srreporter.cc) over HTTP with the memory pager.*)
(* Each round it prefetches the first chunk of the buffer, aggregates what *)
(* the agent has queued, buffering the SR_PRIO_BUF messages on the way,    *)
(* and posts the result up to Retries times.  The agent sends messages,    *)
(* puts the reporter to sleep and sets the capacity at any moment; the     *)
(* network may lose a request, or the answer to one.                       *)
(*                                                                         *)
(* The egress queue is the channel SrChannel: the messages are numbered in *)
(* the order of put(), and the queue holds those after the last taken.     *)
(***************************************************************************)
EXTENDS SrMemPager

CONSTANTS
    Xids,         \* the templates: the default one and the alternatives
    NoXid,        \* the template of a line no header precedes
    Prios,        \* the values of SR_PRIO_BUF the agent uses
    Capacities,   \* the capacities the application sets
    Batch,        \* SR_REPORTER_NUM
    Retries,      \* SR_REPORTER_RETRIES
    MaxSend       \* bound: how many messages the agent sends

ASSUME ReporterAssumption ==
    /\ NoXid \notin Xids
    /\ Prios \subseteq BOOLEAN
    /\ Capacities \subseteq Nat \ {0, 1}
    /\ Batch \in Nat \ {0}
    /\ Retries \in Nat \ {0}
    /\ MaxSend \in Nat

VARIABLES
    sent,        \* the messages put into the egress queue, in order
    taken,       \* how many of them the reporter has taken
    mcb,         \* the lines of the pager
    cap,         \* its capacity
    sleeping,
    booting,     \* the round before the loop of func()
    pc,          \* prefetch, aggregate, send, or undefined
    bsize,       \* pager->bsize() as prefetched
    data,        \* what is to be posted: the prefetched chunk
    aggre,       \* the lines aggregated in this round
    count,       \* the messages aggregated in this round
    current,     \* currentXid of aggregate()
    attempts,    \* the failed attempts of this round
    delivered,   \* the server: the pairs <<message, template>> it has read
    evicted,     \* history: the messages emplace_back() pushed out
    acked        \* history: the messages whose post was answered

agentVars == <<sent, cap, sleeping>>
vars == <<sent, taken, mcb, cap, sleeping, booting, pc, bsize, data, aggre,
          count, current, attempts, delivered, evicted, acked>>

Lines == {Header(x) : x \in Xids}
            \cup {Line(x, i) : x \in Xids, i \in 1 .. MaxSend}

Init ==
    /\ sent = <<>> /\ taken = 0
    /\ mcb = <<>> /\ cap \in Capacities
    /\ sleeping = FALSE
    /\ booting = TRUE /\ pc = "prefetch"
    /\ bsize = 0 /\ data = <<>> /\ aggre = <<>> /\ count = 0
    /\ current = NoXid /\ attempts = 0
    /\ delivered = {} /\ evicted = {} /\ acked = {}

-----------------------------------------------------------------------------
(* The agent's threads *)

Send(x, buf) ==
    /\ Len(sent) < MaxSend
    /\ sent' = Append(sent, [xid |-> x, buf |-> buf])
    /\ UNCHANGED <<taken, mcb, cap, sleeping, booting, pc, bsize, data, aggre,
                   count, current, attempts, delivered, evicted, acked>>

SetSleeping(s) ==
    /\ sleeping # s
    /\ sleeping' = s
    /\ UNCHANGED <<sent, taken, mcb, cap, booting, pc, bsize, data, aggre,
                   count, current, attempts, delivered, evicted, acked>>

SetCapacity(c) ==
    /\ cap # c
    /\ cap' = c
    /\ UNCHANGED <<sent, taken, mcb, sleeping, booting, pc, bsize, data, aggre,
                   count, current, attempts, delivered, evicted, acked>>

-----------------------------------------------------------------------------
(* The reporter thread *)

Prefetch ==
    /\ pc = "prefetch"
    /\ bsize' = BSize(mcb)
    /\ data' = Front(mcb)
    /\ aggre' = <<>> /\ count' = 0 /\ current' = NoXid
    /\ pc' = "aggregate"
    /\ UNCHANGED <<agentVars, taken, mcb, booting, attempts, delivered,
                   evicted, acked>>

(* What a SR_PRIO_BUF message adds to the pager.                           *)
Buffered(m, c, header, line) ==
    EmplaceBack(IF header = <<>> THEN m ELSE EmplaceBack(m, c, header[1]),
                c, line)

(* One iteration of aggregate().  The header is buffered with the message  *)
(* that makes it necessary, and only when that message is buffered.        *)
TakeNews ==
    /\ pc = "aggregate"
    /\ taken < Len(sent)
    /\ count < Batch
    /\ LET i == taken + 1
           news == sent[i]
           line == Line(news.xid, i)
           header == IF news.xid = current THEN <<>> ELSE <<Header(news.xid)>>
           m == IF news.buf THEN Buffered(mcb, cap, header, line) ELSE mcb
       IN  /\ taken' = i
           /\ current' = news.xid
           /\ aggre' = aggre \o header \o <<line>>
           /\ mcb' = m
           /\ evicted' = evicted \cup (Ids(mcb) \ Ids(m))
    /\ count' = count + 1
    /\ UNCHANGED <<agentVars, booting, pc, bsize, data, attempts, delivered,
                   acked>>

(* Mutant of Request: what is aggregated is always sent.                   *)
RequestAlways == data \o aggre

Request == IF bsize <= 1 THEN data \o aggre ELSE data

(* aggregate() ends when the queue is empty, after Batch messages, when    *)
(* the payload is large, or when get(0) fails because a sender holds the   *)
(* mutex of the queue: at any moment.  The loop, unlike the round before   *)
(* it, then looks at sleeping.                                             *)
EndAggregate ==
    /\ pc = "aggregate"
    /\ booting' = FALSE
    /\ \/ /\ Request = <<>> \/ (sleeping /\ ~booting)
          /\ pc' = "prefetch"
       \/ /\ Request # <<>> /\ (sleeping => booting)
          /\ pc' = "send"
    /\ data' = Request
    /\ attempts' = 0
    /\ UNCHANGED <<agentVars, taken, mcb, bsize, aggre, count, current,
                   delivered, evicted, acked>>

(* The server reads the lines in order, each with the template of the last *)
(* header before it.                                                       *)
Template(lines, k) ==
    LET headers == {j \in 1 .. k : IsHeader(lines[j])}
    IN  IF headers = {} THEN NoXid ELSE lines[Max(headers)].xid

Read(lines) ==
    {<<lines[k].id, Template(lines, k)>> :
        k \in {j \in DOMAIN lines : ~IsHeader(lines[j])}}

(* Mutant of Success: the buffer is wiped although it was not all sent.    *)
SuccessClears ==
    /\ mcb' = <<>>
    /\ pc' = "prefetch"

(* Mutant of Success: the buffer is left as it is.                         *)
SuccessKeeps ==
    /\ mcb' = mcb
    /\ pc' = "prefetch"

(* What func() does when the post succeeded.                               *)
Success ==
    \/ bsize <= 1 /\ mcb' = <<>> /\ pc' = "prefetch"
    \/ bsize > 1 /\ PopFrontDefined(mcb) /\ mcb' = PopFront(mcb) /\ pc' = "prefetch"
    \/ bsize > 1 /\ ~PopFrontDefined(mcb) /\ mcb' = mcb /\ pc' = "undefined"

PostOk ==
    /\ pc = "send"
    /\ delivered' = delivered \cup Read(data)
    /\ acked' = acked \cup Ids(data)
    /\ Success
    /\ UNCHANGED <<agentVars, taken, booting, bsize, data, aggre, count,
                   current, attempts, evicted>>

(* post() fails; the request may have reached the server all the same.     *)
PostFails ==
    /\ pc = "send"
    /\ attempts' = attempts + 1
    /\ pc' = IF attempts + 1 = Retries THEN "prefetch" ELSE "send"
    /\ delivered' \in {delivered, delivered \cup Read(data)}
    /\ UNCHANGED <<agentVars, taken, mcb, booting, bsize, data, aggre, count,
                   current, evicted, acked>>

-----------------------------------------------------------------------------
Agent ==
    \/ \E x \in Xids, buf \in Prios : Send(x, buf)
    \/ \E s \in BOOLEAN : SetSleeping(s)
    \/ \E c \in Capacities : SetCapacity(c)

Reporter == Prefetch \/ TakeNews \/ EndAggregate \/ PostOk \/ PostFails

Next == Agent \/ Reporter

Spec == Init /\ [][Next]_vars

(* The thread keeps running; get(0) does not fail for ever, since a sender *)
(* holds the mutex of the queue only for the time of a push; the network   *)
(* does not fail for ever.                                                 *)
Fairness == WF_vars(Reporter) /\ SF_vars(TakeNews) /\ SF_vars(PostOk)

FairSpec == Spec /\ Fairness

-----------------------------------------------------------------------------
(* The messages the server has read. *)
DeliveredIds == {d[1] : d \in delivered}

(* Every variable has its type. *)
TypeOK ==
    /\ sent \in Seq([xid : Xids, buf : Prios])
    /\ taken \in 0 .. Len(sent)
    /\ mcb \in Seq(Lines)
    /\ cap \in Capacities
    /\ sleeping \in BOOLEAN
    /\ booting \in BOOLEAN
    /\ pc \in {"prefetch", "aggregate", "send", "undefined"}
    /\ bsize \in Nat
    /\ data \in Seq(Lines) /\ aggre \in Seq(Lines)
    /\ count \in 0 .. Batch
    /\ current \in Xids \cup {NoXid}
    /\ attempts \in 0 .. Retries
    /\ delivered \subseteq (1 .. MaxSend) \X (Xids \cup {NoXid})
    /\ evicted \subseteq 1 .. MaxSend
    /\ acked \subseteq 1 .. MaxSend

(* A buffered message is lost only because the buffer was full: until the  *)
(* server has read it, it stays in the buffer or was pushed out by a newer *)
(* one (SR_PRIO_BUF, include/srtypes.h 70-73).                             *)
LostOnlyByEviction ==
    \A i \in 1 .. taken :
        sent[i].buf => i \in Ids(mcb) \cup DeliveredIds \cup evicted

(* A buffer of any number of chunks that never had to push a message out   *)
(* has lost none, whatever the network did (src/srreporter.cc 760-801).    *)
LosesNothingUntilFull == evicted = {} => LostOnlyByEviction

(* The server reads every message with the template it was written for,    *)
(* also after evictions, chunk by chunk, and when it is retried.           *)
RightTemplate == \A d \in delivered : d[2] = sent[d[1]].xid

(* The backward search of pop_front() always finds a header in the chunk it *)
(* removes; without one it dereferences rend() (src/srreporter.cc 418-420).*)
HeaderFound == pc # "undefined"

(* A message whose post was answered is not in the buffer when the next    *)
(* round begins: it will not be sent again.                                *)
NoResendAfterAck == pc = "prefetch" => acked \cap Ids(mcb) = {}

(* The server reads the messages for the first time in the order they were *)
(* sent, although buffered ones wait and others do not.                    *)
FirstReadInOrder ==
    [][\A i \in {d[1] : d \in delivered'} \ DeliveredIds :
          \A j \in DeliveredIds : j < i]_vars

(* The buffer never grows beyond its capacity, also after setCapacity()    *)
(* has made it smaller than what it holds.                                 *)
GrowsWithinCapacity == [][Len(mcb') > Len(mcb) => Len(mcb') <= cap]_vars

(* When the reporter is not put to sleep for good, the queue and the       *)
(* buffer are always eventually drained.                                   *)
Drained ==
    <>[]~sleeping => []<>(taken = Len(sent) /\ mcb = <<>>)
=============================================================================
