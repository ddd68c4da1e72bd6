------------------------------- MODULE SrAgent -------------------------------
(***************************************************************************)
(* The loop of SrAgent (src/sragent.cc, include/sragent.h): every turn     *)
(* sleeps, runs the timers that are due, and takes one batch of messages   *)
(* from the ingress queue, whose lines it hands to their handlers.  The    *)
(* callbacks are code of the application, on the same thread: they take    *)
(* time and may start, stop and change any timer and register handlers.    *)
(*                                                                         *)
(* Fire times are only compared with the clock, so their seconds are       *)
(* counted from the current second of the clock.                           *)
(*                                                                         *)
(* A line "87,n,xid" says which template the lines after it are for.  A    *)
(* batch begins with the agent's own, Own.                                 *)
(***************************************************************************)
EXTENDS SrTimer, Sequences, SequencesExt, FiniteSetsExt

CONSTANTS
    Timers,       \* the timers of the application
    Vals,         \* the periods it gives them
    MaxTimers,    \* bound: the length of the agent's list of timers
    Xids,         \* the templates
    Own,          \* the template of SrAgent.XID()
    MsgIDs,       \* the kinds of messages
    Handled,      \* the templates with handlers
    Nap,          \* SR_AGENT_VAL
    MaxTurn,      \* the longest turn of the loop, its callbacks included
    MaxRecords,   \* bound: the messages of every batch
    MaxBatches    \* bound: the batches

ASSUME AgentAssumption ==
    /\ Vals \subseteq Nat
    /\ Own \in Xids /\ Handled \subseteq Xids
    /\ MsgIDs \subseteq Nat /\ 87 \notin MsgIDs
    /\ Nap \in Nat /\ MaxTurn \in Nat /\ Nap <= MaxTurn
    /\ MaxTimers \in Nat /\ MaxRecords \in Nat /\ MaxBatches \in Nat

VARIABLES
    timers,            \* the agent's list of timers
    active, val, end,  \* of every timer
    nsec,              \* the nanoseconds of the clock
    handlers,          \* the keys <<xid, id>> of handlers and sh that are not NULL
    ingress,           \* the batches in the queue
    pc,                \* setup (before loop()), nap, scan, run, dispatch, handle
    k,                 \* the place in the list of timers
    sr,                \* the lines of the batch not yet read
    c,                 \* the template of the next line
    turn,              \* history: how long this turn has lasted
    due,               \* history: how long until a timer is to fire
    want,              \* history: what was written in the batches and not read
    batches            \* how many batches there were

timerVars == <<active, val, end, due>>
messageVars == <<handlers, ingress, sr, c, want, batches>>
vars == <<timers, timerVars, nsec, messageVars, pc, k, turn>>

Now == [sec |-> 0, nsec |-> nsec]
Zero == [sec |-> 0, nsec |-> 0]
Listed == {timers[n] : n \in DOMAIN timers}

Init ==
    /\ timers = <<>>
    /\ active = [t \in Timers |-> FALSE]
    /\ val \in [Timers -> Vals]
    /\ end = [t \in Timers |-> Zero]
    /\ due = [t \in Timers |-> 0]
    /\ nsec \in 0 .. Sec - 1
    /\ handlers = {} /\ ingress = <<>>
    /\ pc = "setup" /\ k = 1 /\ sr = <<>> /\ turn = 0
    /\ c \in Xids
    /\ want = <<>> /\ batches = 0

-----------------------------------------------------------------------------
(* The application: before loop(), in a timer's callback or a handler.  No *)
(* time passes before loop(), and a timer is started once it is in the     *)
(* list: any other is no business of the agent's.                          *)

Application == pc \in {"setup", "run", "handle"}

(* push_back() while the loop iterates over the list is undefined: a       *)
(* timer's callback must not add one.                                      *)
AddTimer(t) ==
    /\ pc \in {"setup", "handle"}
    /\ Len(timers) < MaxTimers
    /\ timers' = Append(timers, t)
    /\ UNCHANGED <<timerVars, nsec, messageVars, pc, k, turn>>

(* What start() changes of a timer. *)
Started(t) ==
    /\ active' = [active EXCEPT ![t] = TRUE]
    /\ end' = [end EXCEPT ![t] = FireTime(Now, val[t])]
    /\ due' = [due EXCEPT ![t] = val[t]]

Start(t) ==
    /\ Application
    /\ t \in Listed
    /\ Started(t)
    /\ UNCHANGED <<timers, val, nsec, messageVars, pc, k, turn>>

(* The fire time of an inactive timer is not read. *)
Stop(t) ==
    /\ Application
    /\ active[t]
    /\ active' = [active EXCEPT ![t] = FALSE]
    /\ end' = [end EXCEPT ![t] = Zero]
    /\ due' = [due EXCEPT ![t] = 0]
    /\ UNCHANGED <<timers, val, nsec, messageVars, pc, k, turn>>

SetInterval(t, v) ==
    /\ Application
    /\ v # val[t]
    /\ val' = [val EXCEPT ![t] = v]
    /\ UNCHANGED <<timers, active, end, due, nsec, messageVars, pc, k, turn>>

(* addMsgHandler() for Own, addXMsgHandler() for the others, with a        *)
(* handler or NULL.                                                        *)
AddHandler(key) ==
    /\ Application
    /\ handlers' = IF key \in handlers THEN handlers \ {key} ELSE handlers \cup {key}
    /\ UNCHANGED <<timers, timerVars, nsec, ingress, sr, c, want, batches, pc, k, turn>>

-----------------------------------------------------------------------------
(* Other threads put batches in the ingress queue *)

Switch(x) == [id |-> 87, xid |-> x]
Message(j) == [id |-> j, xid |-> Own]

(* The lines of records <<xid, id>>: the server announces a template that  *)
(* is not the one of the line before.                                      *)
Lines(records) ==
    FlattenSeq([n \in DOMAIN records |->
        IF records[n][1] = (IF n = 1 THEN Own ELSE records[n - 1][1])
        THEN <<Message(records[n][2])>>
        ELSE <<Switch(records[n][1]), Message(records[n][2])>>])

PutBatch(records) ==
    /\ batches < MaxBatches
    /\ batches' = batches + 1
    /\ ingress' = Append(ingress, Lines(records))
    /\ want' = want \o records
    /\ UNCHANGED <<timers, timerVars, nsec, handlers, sr, c, pc, k, turn>>

-----------------------------------------------------------------------------
(* The loop *)

Enter ==
    /\ pc = "setup"
    /\ pc' = "nap"
    /\ UNCHANGED <<timers, timerVars, nsec, messageVars, k, turn>>

Wake ==
    /\ pc = "nap"
    /\ turn >= Nap
    /\ pc' = "scan" /\ k' = 1
    /\ UNCHANGED <<timers, timerVars, nsec, messageVars, turn>>

Due(t) == active[t] /\ AtMost(end[t], Now)

(* One timer of the list. *)
Scan ==
    /\ pc = "scan"
    /\ k <= Len(timers)
    /\ IF Due(timers[k]) THEN pc' = "run" /\ k' = k ELSE pc' = "scan" /\ k' = k + 1
    /\ UNCHANGED <<timers, timerVars, nsec, messageVars, turn>>

(* Mutant of RunEnd: the timer after it is not looked at.                  *)
RunEndSkips ==
    /\ pc = "run"
    /\ LET t == timers[k]
       IN  IF active[t] THEN Started(t) ELSE UNCHANGED <<active, end, due>>
    /\ pc' = "scan" /\ k' = k + 2
    /\ UNCHANGED <<timers, val, nsec, messageVars, turn>>

(* The callback returns. *)
RunEnd ==
    /\ pc = "run"
    /\ LET t == timers[k]
       IN  IF active[t] THEN Started(t) ELSE UNCHANGED <<active, end, due>>
    /\ pc' = "scan" /\ k' = k + 1
    /\ UNCHANGED <<timers, val, nsec, messageVars, turn>>

Scanned == pc = "scan" /\ k > Len(timers)

(* The next turn. *)
Again == pc' = "nap" /\ turn' = 0

(* Mutant of TakeBatch: the template of the batch before is kept.          *)
TakeBatchKeeps ==
    /\ Scanned
    /\ ingress # <<>>
    /\ ingress' = Tail(ingress)
    /\ sr' = Head(ingress) /\ c' = c
    /\ pc' = "dispatch"
    /\ UNCHANGED <<timers, timerVars, nsec, handlers, want, batches, k, turn>>

(* ingress.get(0) gives a batch. *)
TakeBatch ==
    /\ Scanned
    /\ ingress # <<>>
    /\ ingress' = Tail(ingress)
    /\ sr' = Head(ingress) /\ c' = Own
    /\ pc' = "dispatch"
    /\ UNCHANGED <<timers, timerVars, nsec, handlers, want, batches, k, turn>>

(* It gives none: the queue is empty, or a thread holds its mutex.         *)
NoBatch ==
    /\ Scanned
    /\ Again
    /\ UNCHANGED <<timers, timerVars, nsec, messageVars, k>>

(* A line 87 is read. *)
ReadSwitch ==
    /\ pc = "dispatch"
    /\ sr # <<>> /\ Head(sr).id = 87
    /\ sr' = Tail(sr) /\ c' = Head(sr).xid
    /\ UNCHANGED <<timers, timerVars, nsec, handlers, ingress, want, batches, pc, k, turn>>

(* A message is read and handed to its handler, if it has one.             *)
ReadMessage ==
    /\ pc = "dispatch"
    /\ sr # <<>> /\ Head(sr).id # 87
    /\ sr' = Tail(sr)
    /\ want' = Tail(want)
    /\ pc' = IF <<c, Head(sr).id>> \in handlers THEN "handle" ELSE "dispatch"
    /\ UNCHANGED <<timers, timerVars, nsec, handlers, ingress, c, batches, k, turn>>

HandleEnd ==
    /\ pc = "handle"
    /\ pc' = "dispatch"
    /\ UNCHANGED <<timers, timerVars, nsec, messageVars, k, turn>>

DispatchEnd ==
    /\ pc = "dispatch"
    /\ sr = <<>>
    /\ Again
    /\ UNCHANGED <<timers, timerVars, nsec, messageVars, k>>

-----------------------------------------------------------------------------
(* A millisecond passes.  A turn lasts at most MaxTurn. *)
Tick ==
    /\ pc # "setup"
    /\ turn < MaxTurn
    /\ turn' = turn + 1
    /\ nsec' = (nsec + 1) % Sec
    /\ end' = [t \in Timers |->
                  IF active[t] /\ nsec' = 0 THEN [end[t] EXCEPT !.sec = @ - 1] ELSE end[t]]
    /\ due' = [t \in Timers |-> IF active[t] THEN due[t] - 1 ELSE due[t]]
    /\ UNCHANGED <<timers, active, val, messageVars, pc, k>>

App ==
    \/ \E t \in Timers : AddTimer(t) \/ Start(t) \/ Stop(t)
    \/ \E t \in Timers, v \in Vals : SetInterval(t, v)
    \/ \E key \in Handled \X MsgIDs : AddHandler(key)

Batches == [1 .. MaxRecords -> Xids \X MsgIDs]

Loop ==
    \/ Wake \/ Scan \/ RunEnd \/ TakeBatch \/ NoBatch
    \/ ReadSwitch \/ ReadMessage \/ HandleEnd \/ DispatchEnd

Next ==
    \/ App
    \/ \E records \in Batches : PutBatch(records)
    \/ Enter \/ Loop
    \/ Tick

Spec == Init /\ [][Next]_vars

-----------------------------------------------------------------------------
(* Properties *)

Line == [id : MsgIDs \cup {87}, xid : Xids]

(* Every variable has its type. *)
TypeOK ==
    /\ timers \in Seq(Timers)
    /\ active \in [Timers -> BOOLEAN]
    /\ val \in [Timers -> Vals]
    /\ end \in [Timers -> Timespec]
    /\ due \in [Timers -> Int]
    /\ nsec \in 0 .. Sec - 1
    /\ handlers \subseteq Handled \X MsgIDs
    /\ ingress \in Seq(Seq(Line)) /\ sr \in Seq(Line)
    /\ want \in Seq(Xids \X MsgIDs)
    /\ pc \in {"setup", "nap", "scan", "run", "dispatch", "handle"}
    /\ k \in Nat \ {0}
    /\ pc = "run" => k \in DOMAIN timers
    /\ c \in Xids
    /\ turn \in 0 .. MaxTurn
    /\ batches \in 0 .. MaxBatches

(* The callback of a timer runs only when its whole period has passed      *)
(* since it was last started, by whoever, and never while it is stopped    *)
(* (src/sragent.cc 168-187, include/srtimer.h 164-185).                    *)
NeverEarly ==
    [][pc = "scan" /\ pc' = "run" => active[timers[k]] /\ due[timers[k]] <= 0]_vars

(* An active timer of the list is never late by more than two turns but    *)
(* for a nap, whatever the callbacks before it do (src/sragent.cc 160-192).*)
NeverLate ==
    \A t \in Listed : active[t] => due[t] >= Nap - 2 * MaxTurn

(* The template of what comes after the first n of these lines, which      *)
(* begin under x; and the records of the lines.                            *)
Template(lines, n, x) ==
    LET before == {j \in 1 .. n : lines[j].id = 87}
    IN  IF before = {} THEN x ELSE lines[Max(before)].xid

Records(lines, x) ==
    FlattenSeq([n \in DOMAIN lines |->
        IF lines[n].id = 87 THEN <<>>
        ELSE <<<<Template(lines, n - 1, x), lines[n].id>>>>])

(* What the agent has still to read is what was written and not read: a    *)
(* message is looked up under the template it was written for, in order,   *)
(* although templates are announced once and the batches come from several *)
(* threads (src/sragent.cc 98-158).                                        *)
ReadsAsWritten ==
    want = Records(sr, c) \o FlattenSeq([b \in DOMAIN ingress |-> Records(ingress[b], Own)])
=============================================================================
