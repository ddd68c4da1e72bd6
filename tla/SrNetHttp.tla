------------------------------ MODULE SrNetHttp ------------------------------
(***************************************************************************)
(* SrNetHttp (src/srnethttp.cc, include/srnethttp.h): a blocking post      *)
(* whose progress meter aborts a transfer that has gone silent, and        *)
(* cancel(), by which another thread asks for that.  libcurl calls the     *)
(* meter about once a second.  The meter's two times are shared between    *)
(* the threads without a lock.                                             *)
(***************************************************************************)
EXTENDS Integers

CONSTANTS
    Period,       \* 660 seconds
    MaxClock,     \* bound: seconds since the device was switched on
    MaxBytes      \* bound: the bytes of an answer

HttpAssumption == Period \in Nat \ {0} /\ MaxClock \in Nat /\ MaxBytes \in Nat

VARIABLES
    clock,
    first, last,      \* meter
    dlnow,            \* libcurl: the bytes received in this transfer
    resp,             \* the bytes in the response buffer
    transfer,         \* idle, running, done, failed, aborted
    cancelling,       \* cancel() between its two assignments
    silent, silence,  \* history: seconds without a byte now, and at most
    began, cancelled  \* history: when post() began and cancel() ended, or -1

httpVars == <<clock, first, last, dlnow, resp, transfer, cancelling, silent,
              silence, began, cancelled>>

Init ==
    /\ clock = 0 /\ first = 0 /\ last = 0
    /\ dlnow = 0 /\ resp = 0 /\ transfer = "idle" /\ cancelling = FALSE
    /\ silent = 0 /\ silence = 0 /\ began = 0 /\ cancelled = -1

Running == transfer = "running"

HttpPost ==
    /\ ~Running
    /\ first' = clock /\ last' = clock
    /\ dlnow' = 0 /\ transfer' = "running"
    /\ silent' = 0 /\ silence' = 0 /\ began' = clock /\ cancelled' = -1
    /\ UNCHANGED <<clock, resp, cancelling>>

(* writeFunc() *)
Receive ==
    /\ Running
    /\ dlnow < MaxBytes /\ resp < MaxBytes
    /\ dlnow' = dlnow + 1 /\ resp' = resp + 1
    /\ silent' = 0
    /\ UNCHANGED <<clock, first, last, transfer, cancelling, silence, began, cancelled>>

(* The size of the response is returned, which may hold earlier ones.      *)
HttpEnds(result) ==
    /\ Running
    /\ transfer' = result
    /\ UNCHANGED <<clock, first, last, dlnow, resp, cancelling, silent, silence,
                   began, cancelled>>

ClearResponse ==
    /\ ~Running
    /\ resp' = 0
    /\ UNCHANGED <<clock, first, last, dlnow, transfer, cancelling, silent,
                   silence, began, cancelled>>

(* Mutant of Silent: a byte too many is asked for.                         *)
SilentSoon(now) == (now - first) \div Period >= dlnow
(* Fewer bytes than periods since the post.                                *)
Silent(now) == (now - first) \div Period > dlnow

(* A second passes and libcurl calls xferinfo().                           *)
Xferinfo ==
    /\ clock < MaxClock
    /\ clock' = clock + 1
    /\ silent' = IF Running THEN silent + 1 ELSE silent
    /\ silence' = IF Running /\ silent' > silence THEN silent' ELSE silence
    /\ IF Running /\ clock' - last >= Period
       THEN /\ last' = clock'
            /\ transfer' = IF Silent(clock') THEN "aborted" ELSE "running"
       ELSE UNCHANGED <<last, transfer>>
    /\ UNCHANGED <<first, dlnow, resp, cancelling, began, cancelled>>

(* cancel() sets last and then first.                                      *)
CancelLast ==
    /\ ~cancelling
    /\ last' = 0 /\ cancelling' = TRUE
    /\ UNCHANGED <<clock, first, dlnow, resp, transfer, silent, silence, began, cancelled>>

CancelFirst ==
    /\ cancelling
    /\ first' = 0 /\ cancelling' = FALSE
    /\ cancelled' = IF Running /\ cancelled = -1 THEN clock ELSE cancelled
    /\ UNCHANGED <<clock, last, dlnow, resp, transfer, silent, silence, began>>

Next ==
    \/ HttpPost \/ Receive \/ ClearResponse \/ Xferinfo
    \/ \E result \in {"done", "failed"} : HttpEnds(result)
    \/ CancelLast \/ CancelFirst

Spec == Init /\ [][Next]_httpVars

-----------------------------------------------------------------------------
TypeOK ==
    /\ {clock, first, last, began} \subseteq 0 .. MaxClock
    /\ dlnow \in 0 .. MaxBytes /\ resp \in 0 .. MaxBytes
    /\ transfer \in {"idle", "running", "done", "failed", "aborted"}
    /\ cancelling \in BOOLEAN
    /\ silent \in 0 .. silence /\ silence \in 0 .. MaxClock
    /\ cancelled \in -1 .. MaxClock

Untouched == cancelled = -1 /\ ~cancelling /\ first = began

(* A transfer over which a byte comes in every period, the heartbeat of    *)
(* the push connection, is not aborted, unless it is cancelled; and one    *)
(* over which none comes does not outlast the periods its bytes stand for. *)
SilenceEnds ==
    /\ Untouched /\ silence < Period => transfer # "aborted"
    /\ Untouched /\ Running => clock - began < (dlnow + 1) * Period

(* include/srnethttp.h: cancel() "guarantees that the HTTP transaction is  *)
(* eventually canceled (normally less than a second)": no cancelled        *)
(* transfer goes on for a whole period of the meter.                       *)
CancelAborts ==
    cancelled # -1 /\ Running => clock - cancelled <= Period
=============================================================================
