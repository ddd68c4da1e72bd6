------------------------------- MODULE SrQueue -------------------------------
(***************************************************************************)
(* SrQueue<T> (include/srqueue.h): a std::queue guarded by a pthread mutex *)
(* and counted by a POSIX semaphore.  Three kinds of thread use it:        *)
(*   - producers call put(): lock, push, unlock, and only then sem_post;   *)
(*   - getters call get(): sem_wait, lock, pop, unlock;                    *)
(*   - pollers call get(millisec): sem_timedwait, an UNLOCKED q.empty()    *)
(*     test when it timed out, trylock, pop, unlock.                       *)
(* One action is one call of the pthread library.  Push and pop are a read *)
(* of the container followed by a write, so that they are atomic only if   *)
(* the mutex makes them so.                                                *)
(***************************************************************************)
EXTENDS Integers, Sequences, FiniteSets

CONSTANTS
    Producers,   \* threads that call put()
    Getters,     \* threads that call get()
    Pollers,     \* threads that call get(millisec)
    NoThread,    \* the owner of a mutex nobody holds
    MaxPuts      \* bound: how many elements each producer puts

Threads == Producers \cup Getters \cup Pollers

ASSUME ThreadsAssumption ==
    /\ Producers \cap Getters = {}
    /\ Producers \cap Pollers = {}
    /\ Getters \cap Pollers = {}
    /\ NoThread \notin Threads
ASSUME FiniteThreadsAssumption ==
    IsFiniteSet(Producers) /\ IsFiniteSet(Getters)
ASSUME MaxPutsAssumption == MaxPuts \in Nat

VARIABLES
    q,        \* the container: the elements queued, oldest first
    sem,      \* the value of the semaphore
    mutex,    \* the thread that holds the mutex, or NoThread
    pc,       \* where each thread is
    view,     \* the container as the thread holding the mutex read it
    ret,      \* the error code of each reader's last call
    puts,     \* how many elements each producer has put
    pushed,   \* history: every element, in the order of the pushes
    taken     \* history: every element, in the order of the pops

vars == <<q, sem, mutex, pc, view, ret, puts, pushed, taken>>

Items == Producers \X (1 .. MaxPuts)

Init ==
    /\ q = <<>>
    /\ sem = 0
    /\ mutex = NoThread
    /\ pc = [t \in Threads |-> "idle"]
    /\ view = [t \in Threads |-> <<>>]
    /\ ret = [t \in Getters \cup Pollers |-> "Q_OK"]
    /\ puts = [p \in Producers |-> 0]
    /\ pushed = <<>>
    /\ taken = <<>>

Goto(t, label) == pc' = [pc EXCEPT ![t] = label]

Free == mutex = NoThread

(* Taking the mutex, and reading the container under it. *)
Lock(t) ==
    /\ Free
    /\ mutex' = t
    /\ view' = [view EXCEPT ![t] = q]
    /\ Goto(t, "locked")

Unlock(t, label) ==
    /\ mutex' = NoThread
    /\ view' = [view EXCEPT ![t] = <<>>]
    /\ Goto(t, label)
    /\ UNCHANGED <<q, sem, ret, puts, pushed, taken>>

(* Mutant of Pop: the youngest element is taken.                           *)
PopYoungest(t) ==
    /\ pc[t] = "locked"
    /\ view[t] # <<>>
    /\ q' = SubSeq(view[t], 1, Len(view[t]) - 1)
    /\ taken' = Append(taken, view[t][Len(view[t])])
    /\ Goto(t, "popped")
    /\ UNCHANGED <<sem, mutex, view, ret, puts, pushed>>

(* q.front() and q.pop(), or Q_EMPTY. *)
Pop(t) ==
    /\ pc[t] = "locked"
    /\ Goto(t, "popped")
    /\ \/ /\ view[t] = <<>>
          /\ ret' = [ret EXCEPT ![t] = "Q_EMPTY"]
          /\ UNCHANGED <<q, taken>>
       \/ /\ view[t] # <<>>
          /\ ret' = [ret EXCEPT ![t] = "Q_OK"]
          /\ q' = Tail(view[t])
          /\ taken' = Append(taken, Head(view[t]))
    /\ UNCHANGED <<sem, mutex, view, puts, pushed>>

Return(t, code) ==
    /\ Goto(t, "idle")
    /\ ret' = [ret EXCEPT ![t] = code]
    /\ UNCHANGED <<q, sem, mutex, view, puts, pushed, taken>>

(***************************************************************************)
(* put(item)                                                               *)
(***************************************************************************)
PutLock(p) ==
    /\ pc[p] = "idle"
    /\ puts[p] < MaxPuts
    /\ Lock(p)
    /\ UNCHANGED <<q, sem, ret, puts, pushed, taken>>

PutPush(p) ==
    /\ pc[p] = "locked"
    /\ LET item == <<p, puts[p] + 1>>
       IN  /\ q' = Append(view[p], item)
           /\ pushed' = Append(pushed, item)
    /\ puts' = [puts EXCEPT ![p] = @ + 1]
    /\ Goto(p, "pushed")
    /\ UNCHANGED <<sem, mutex, view, ret, taken>>

PutUnlock(p) == pc[p] = "pushed" /\ Unlock(p, "post")

(* Mutants of PutPost: no sem_post, or one too many.                       *)
PutPostForgotten(p) ==
    /\ pc[p] = "post"
    /\ Goto(p, "idle")
    /\ UNCHANGED <<q, sem, mutex, view, ret, puts, pushed, taken>>

PutPostTwice(p) ==
    /\ pc[p] = "post"
    /\ sem' = sem + 2
    /\ Goto(p, "idle")
    /\ UNCHANGED <<q, mutex, view, ret, puts, pushed, taken>>

PutPost(p) ==
    /\ pc[p] = "post"
    /\ sem' = sem + 1
    /\ Goto(p, "idle")
    /\ UNCHANGED <<q, mutex, view, ret, puts, pushed, taken>>

Producer(p) == PutLock(p) \/ PutPush(p) \/ PutUnlock(p) \/ PutPost(p)

(***************************************************************************)
(* get()                                                                   *)
(***************************************************************************)
GetWait(g) ==
    /\ pc[g] = "idle"
    /\ sem > 0
    /\ sem' = sem - 1
    /\ Goto(g, "woken")
    /\ UNCHANGED <<q, mutex, view, ret, puts, pushed, taken>>

GetLock(g) ==
    /\ pc[g] = "woken"
    /\ Lock(g)
    /\ UNCHANGED <<q, sem, ret, puts, pushed, taken>>

GetUnlock(t) == pc[t] = "popped" /\ Unlock(t, "idle")

Getter(g) == GetWait(g) \/ GetLock(g) \/ Pop(g) \/ GetUnlock(g)

(***************************************************************************)
(* get(millisec).  The comment in the code says that sem_timedwait may     *)
(* time out although the semaphore is positive: a timeout has no guard.    *)
(***************************************************************************)
PollWait(t) ==
    /\ pc[t] = "idle"
    /\ sem > 0
    /\ sem' = sem - 1
    /\ Goto(t, "try")
    /\ UNCHANGED <<q, mutex, view, ret, puts, pushed, taken>>

PollTimeout(t) ==
    /\ pc[t] = "idle"
    /\ Goto(t, "timedout")
    /\ UNCHANGED <<q, sem, mutex, view, ret, puts, pushed, taken>>

(* What q.empty() may answer to a thread that does not hold the mutex:     *)
(* anything while another thread may be writing the container.             *)
EmptyAnswers == IF Free THEN {q = <<>>} ELSE BOOLEAN

(* Mutant of PollTestEmpty: without the q.empty() test of line 128.        *)
PollTestForgotten(t) == pc[t] = "timedout" /\ Return(t, "Q_TIMEOUT")

PollTestEmpty(t) ==
    /\ pc[t] = "timedout"
    /\ \E empty \in EmptyAnswers :
          \/ empty /\ Return(t, "Q_TIMEOUT")
          \/ /\ ~empty
             /\ Goto(t, "try")
             /\ UNCHANGED <<q, sem, mutex, view, ret, puts, pushed, taken>>

(* Mutant of PollTryLock: the answer of trylock is ignored.                *)
PollTryLockIgnored(t) ==
    /\ pc[t] = "try"
    /\ view' = [view EXCEPT ![t] = q]
    /\ Goto(t, "locked")
    /\ UNCHANGED <<q, sem, mutex, ret, puts, pushed, taken>>

PollTryLock(t) ==
    /\ pc[t] = "try"
    /\ \/ Lock(t) /\ UNCHANGED <<q, sem, ret, puts, pushed, taken>>
       \/ ~Free /\ Return(t, "Q_BUSY")

Poller(t) ==
    PollWait(t) \/ PollTimeout(t) \/ PollTestEmpty(t) \/ PollTryLock(t)
        \/ Pop(t) \/ GetUnlock(t)

-----------------------------------------------------------------------------
Next ==
    \/ \E p \in Producers : Producer(p)
    \/ \E g \in Getters : Getter(g)
    \/ \E t \in Pollers : Poller(t)

Spec == Init /\ [][Next]_vars

(* Every thread inside a call keeps running, and a reader keeps calling.   *)
(* Nothing obliges a program to call put().                                *)
Fairness ==
    /\ \A p \in Producers : WF_vars(pc[p] # "idle" /\ Producer(p))
    /\ \A g \in Getters : WF_vars(Getter(g))
    /\ \A t \in Pollers : WF_vars(Poller(t))

FairSpec == Spec /\ Fairness

-----------------------------------------------------------------------------
(* The type of every variable, the codes a call may return included.       *)
TypeOK ==
    /\ q \in Seq(Items)
    /\ sem \in Nat
    /\ mutex \in Threads \cup {NoThread}
    /\ pc \in [Threads -> {"idle", "locked", "pushed", "post", "woken",
                           "popped", "timedout", "try"}]
    /\ view \in [Threads -> Seq(Items)]
    /\ ret \in [Getters \cup Pollers ->
                  {"Q_OK", "Q_TIMEOUT", "Q_BUSY", "Q_EMPTY"}]
    /\ puts \in [Producers -> 0 .. MaxPuts]
    /\ pushed \in Seq(Items)
    /\ taken \in Seq(Items)

(* No element is lost, duplicated or reordered: what was taken followed by *)
(* what is queued is exactly what was pushed.  It needs the mutex around   *)
(* every read and write of the container, the trylock of get(millisec)     *)
(* included.                                                               *)
Fifo == pushed = taken \o q

(* get() never answers Q_EMPTY when only get() reads the queue: a token of *)
(* the semaphore is worth an element.                                      *)
GetReturnsAnElement == \A g \in Getters : ret[g] # "Q_EMPTY"

(* An element in a queue where every thread is at rest is announced by the *)
(* semaphore, so that the next get() does not block beside it.             *)
NoStrandedElement ==
    (q # <<>> /\ \A t \in Threads : pc[t] = "idle") => sem > 0

(* The queue is always eventually empty: no element stays in it for ever,  *)
(* although get(millisec) gives its token away when trylock fails.         *)
Drained == []<>(q = <<>>)

(* The queue implements the channel SrChannel: its clients may take put()  *)
(* and get() for atomic.                                                   *)
Channel == INSTANCE SrChannel WITH Data <- Items, chan <- q, got <- taken

ChannelSpec == Channel!Spec
=============================================================================
