---------------------------- MODULE SrQueueProof ----------------------------
(***************************************************************************)
(* Proofs about SrQueue, for any number of threads and of puts.            *)
(* The inductive invariant says that a thread between lock and unlock owns *)
(* the mutex (Exclusion), so that what it read of the container is still   *)
(* what the container holds (FreshView).                                   *)
(***************************************************************************)
EXTENDS SrQueue, SequenceTheorems, FiniteSetTheorems, TLAPS

(* The control points between the lock and the unlock. *)
Inside(t) == pc[t] \in {"locked", "pushed", "popped"}

(* A thread between lock and unlock owns the mutex.                        *)
Exclusion == \A t \in Threads : Inside(t) => mutex = t

(* What the owner read of the container is what the container holds.       *)
FreshView == \A t \in Threads : pc[t] = "locked" => view[t] = q

(* A producer that holds the mutex has an element left to push.            *)
PutsLeft == \A p \in Producers : pc[p] = "locked" => puts[p] < MaxPuts

(* What the mutex is there for. *)
LockInv == TypeOK /\ Exclusion /\ FreshView /\ PutsLeft /\ Fifo

-----------------------------------------------------------------------------
(* Moving the head of t to the end of s does not change their              *)
(* concatenation: what Pop does to taken and q.                            *)
LEMMA MoveHead ==
    ASSUME NEW S, NEW s \in Seq(S), NEW t \in Seq(S), t # <<>>
    PROVE  Append(s, Head(t)) \o Tail(t) = s \o t
<1> DEFINE a == Append(s, Head(t))
           b == Tail(t)
<1>1. Head(t) \in S /\ b \in Seq(S) /\ Len(b) = Len(t) - 1
      /\ \A i \in 1 .. Len(b) : b[i] = t[i + 1]
  BY HeadTailProperties
<1>2. a \in Seq(S) /\ Len(a) = Len(s) + 1 /\ a[Len(s) + 1] = Head(t)
      /\ \A i \in 1 .. Len(s) : a[i] = s[i]
  BY <1>1, AppendProperties
<1>3. Head(t) = t[1] /\ Len(t) \in Nat /\ Len(t) >= 1 /\ Len(s) \in Nat
  BY EmptySeq, LenProperties
<1> HIDE DEF a, b
<1>4. a \o b \in Seq(S) /\ s \o t \in Seq(S)
      /\ Len(a \o b) = Len(a) + Len(b) /\ Len(s \o t) = Len(s) + Len(t)
  BY <1>1, <1>2, ConcatProperties
<1>5. \A i \in 1 .. Len(a) + Len(b) :
         (a \o b)[i] = IF i <= Len(a) THEN a[i] ELSE b[i - Len(a)]
  BY <1>1, <1>2, ConcatProperties
<1>6. \A i \in 1 .. Len(s) + Len(t) :
         (s \o t)[i] = IF i <= Len(s) THEN s[i] ELSE t[i - Len(s)]
  BY ConcatProperties
<1>7. ASSUME NEW i \in 1 .. Len(a \o b)
      PROVE  (a \o b)[i] = (s \o t)[i]
  <2>1. CASE i <= Len(s)
    BY <2>1, <1>1, <1>2, <1>3, <1>4, <1>5, <1>6
  <2>2. CASE i = Len(s) + 1
    BY <2>2, <1>1, <1>2, <1>3, <1>4, <1>5, <1>6
  <2>3. CASE i > Len(s) + 1
    <3>1. i - Len(a) \in 1 .. Len(b)
      BY <2>3, <1>1, <1>2, <1>3, <1>4
    <3>2. (a \o b)[i] = b[i - Len(a)]
      BY <2>3, <1>1, <1>2, <1>3, <1>4, <1>5
    <3>3. (s \o t)[i] = t[i - Len(s)]
      BY <2>3, <1>1, <1>2, <1>3, <1>4, <1>6
    <3>4. b[i - Len(a)] = t[(i - Len(a)) + 1]
      BY <3>1, <1>1
    <3>5. (i - Len(a)) + 1 = i - Len(s)
      BY <1>2, <1>3, <1>4
    <3> QED
      BY <3>2, <3>3, <3>4, <3>5
  <2> QED
    BY <2>1, <2>2, <2>3, <1>1, <1>2, <1>3, <1>4
<1>8. Len(a \o b) = Len(s \o t)
  BY <1>1, <1>2, <1>3, <1>4
<1>9. a \o b = s \o t
  BY <1>4, <1>7, <1>8, SeqEqual
<1> QED
  BY <1>9 DEF a, b

(* Appending to t appends to s \o t: what PutPush does to q and pushed.    *)
LEMMA ConcatAppend ==
    ASSUME NEW S, NEW s \in Seq(S), NEW t \in Seq(S), NEW e \in S
    PROVE  s \o Append(t, e) = Append(s \o t, e)
<1>1. <<e>> \in Seq(S)
  OBVIOUS
<1>2. Append(t, e) = t \o <<e>> /\ s \o t \in Seq(S)
  BY AppendIsConcat, ConcatProperties
<1>3. Append(s \o t, e) = (s \o t) \o <<e>>
  BY <1>2, AppendIsConcat
<1> QED
  BY <1>1, <1>2, <1>3, ConcatAssociative

-----------------------------------------------------------------------------
(* The invariant holds at the start. *)
LEMMA LockInvInit == Init => LockInv
<1> SUFFICES ASSUME Init PROVE LockInv
  OBVIOUS
<1> USE MaxPutsAssumption DEF Init
<1>1. TypeOK
  BY EmptySeq DEF TypeOK, Threads, Items
<1>2. Exclusion /\ FreshView /\ PutsLeft
  BY DEF Exclusion, FreshView, PutsLeft, Inside, Threads
<1>3. Fifo
  BY EmptySeq, ConcatEmptySeq DEF Fifo
<1> QED
  BY <1>1, <1>2, <1>3 DEF LockInv

(* The steps that touch neither the container nor the mutex and do not     *)
(* bring a thread inside the critical section.                             *)
LEMMA OutsideStep ==
    ASSUME LockInv, NEW t \in Threads, NEW label, Goto(t, label),
           label \in {"idle", "post", "woken", "timedout", "try"},
           UNCHANGED <<q, mutex, view, puts, pushed, taken>>
    PROVE  Exclusion' /\ FreshView' /\ PutsLeft' /\ Fifo'
BY DEF LockInv, TypeOK, Exclusion, FreshView, PutsLeft, Fifo, Inside, Goto,
       Threads

(* Taking the free mutex keeps the invariant. *)
LEMMA LockStep ==
    ASSUME LockInv, NEW t \in Threads, Lock(t),
           t \in Producers => puts[t] < MaxPuts,
           UNCHANGED <<q, sem, ret, puts, pushed, taken>>
    PROVE  LockInv'
<1> USE DEF LockInv, Lock, Free, Goto
<1>1. \A u \in Threads : ~Inside(u)
  BY ThreadsAssumption DEF Exclusion
<1>2. TypeOK'
  BY DEF TypeOK
<1>3. Exclusion'
  BY <1>1 DEF Exclusion, Inside, TypeOK
<1>4. FreshView'
  BY <1>1 DEF FreshView, Inside, TypeOK
<1>5. PutsLeft'
  BY DEF PutsLeft, TypeOK, Threads
<1>6. Fifo'
  BY DEF Fifo
<1> QED
  BY <1>2, <1>3, <1>4, <1>5, <1>6

(* So does releasing it. *)
LEMMA UnlockStep ==
    ASSUME LockInv, NEW t \in Threads, Inside(t), NEW label,
           label \in {"idle", "post"}, Unlock(t, label)
    PROVE  LockInv'
<1> USE DEF LockInv, Unlock, Goto
<1>1. \A u \in Threads \ {t} : ~Inside(u)
  BY DEF Exclusion
<1>2. TypeOK'
  BY EmptySeq DEF TypeOK
<1>3. Exclusion'
  BY <1>1 DEF Exclusion, Inside, TypeOK
<1>4. FreshView'
  BY <1>1 DEF FreshView, Inside, TypeOK
<1>5. PutsLeft'
  BY DEF PutsLeft, TypeOK, Threads
<1>6. Fifo'
  BY DEF Fifo
<1> QED
  BY <1>2, <1>3, <1>4, <1>5, <1>6

(* The push appends the next element to what was read under the lock. *)
LEMMA PushStep ==
    ASSUME LockInv, NEW p \in Producers, PutPush(p)
    PROVE  /\ LockInv'
           /\ Channel!Put(<<p, puts[p] + 1>>)
           /\ <<p, puts[p] + 1>> \in Items
<1> DEFINE item == <<p, puts[p] + 1>>
<1> USE DEF LockInv, PutPush, Goto
<1>1. p \in Threads /\ view[p] = q
  BY DEF Threads, FreshView
<1>2. item \in Items
  BY MaxPutsAssumption DEF TypeOK, PutsLeft, Items
<1>3. q' = Append(q, item) /\ pushed' = Append(pushed, item)
  BY <1>1
<1>4. \A u \in Threads \ {p} : ~Inside(u)
  BY <1>1 DEF Exclusion, Inside
<1>4a. q \in Seq(Items) /\ pushed \in Seq(Items) /\ taken \in Seq(Items)
      /\ pushed = taken \o q /\ taken' = taken
  BY DEF TypeOK, Fifo
<1> HIDE DEF item
<1>5. TypeOK'
  <2>1. q' \in Seq(Items) /\ pushed' \in Seq(Items)
    BY ONLY <1>2, <1>3, <1>4a, AppendProperties
  <2>2. puts' \in [Producers -> 0 .. MaxPuts]
    BY MaxPutsAssumption DEF TypeOK, PutsLeft
  <2> QED
    BY <2>1, <2>2 DEF TypeOK
<1>6. Exclusion'
  BY <1>1, <1>4 DEF Exclusion, Inside, TypeOK
<1>7. FreshView'
  BY <1>4 DEF FreshView, Inside, TypeOK
<1>8. PutsLeft'
  BY <1>4 DEF PutsLeft, TypeOK, Inside, Threads
<1>9. Fifo'
  <2>1. taken \o Append(q, item) = Append(taken \o q, item)
    BY ONLY <1>2, <1>4a, ConcatAppend
  <2> QED
    BY ONLY <1>3, <1>4a, <2>1 DEF Fifo
<1>10. Channel!Put(item)
  BY <1>3 DEF Channel!Put
<1> QED
  BY <1>2, <1>5, <1>6, <1>7, <1>8, <1>9, <1>10 DEF item

(* The pop takes the oldest element, and nothing when there is none. *)
LEMMA PopStep ==
    ASSUME LockInv, NEW t \in Getters \cup Pollers, Pop(t)
    PROVE  LockInv' /\ (Channel!Take \/ UNCHANGED <<q, taken>>)
<1> USE DEF LockInv, Pop, Goto
<1>1. t \in Threads /\ t \notin Producers /\ view[t] = q
  BY ThreadsAssumption DEF Threads, FreshView
<1>2. \A u \in Threads \ {t} : ~Inside(u)
  BY <1>1 DEF Exclusion, Inside
<1>3. Exclusion' /\ PutsLeft'
  BY <1>1, <1>2 DEF Exclusion, PutsLeft, Inside, TypeOK, Threads
<1>4. FreshView'
  BY <1>2 DEF FreshView, Inside, TypeOK
<1>5. CASE q = <<>>
  <2>1. UNCHANGED <<q, taken>>
    BY <1>1, <1>5
  <2>2. TypeOK' /\ Fifo'
    BY <2>1 DEF TypeOK, Fifo
  <2> QED
    BY <1>3, <1>4, <2>1, <2>2
<1>6. CASE q # <<>>
  <2>1. q' = Tail(q) /\ taken' = Append(taken, Head(q))
    BY <1>1, <1>6
  <2>2. Head(q) \in Items /\ Tail(q) \in Seq(Items)
    BY <1>6, HeadTailProperties DEF TypeOK
  <2>3. taken' \in Seq(Items)
    BY <2>1, <2>2, AppendProperties DEF TypeOK
  <2>4. TypeOK'
    BY <2>1, <2>2, <2>3 DEF TypeOK
  <2>5. Fifo'
    BY <1>6, <2>1, MoveHead DEF Fifo, TypeOK
  <2>6. Channel!Take
    BY <1>6, <2>1 DEF Channel!Take
  <2> QED
    BY <1>3, <1>4, <2>4, <2>5, <2>6
<1> QED
  BY <1>5, <1>6

(* Every step keeps the invariant and is a step of the channel or leaves   *)
(* the channel alone.                                                      *)
LEMMA LockInvNext ==
    ASSUME LockInv, [Next]_vars
    PROVE  LockInv' /\ [Channel!Next]_<<q, taken>>
<1> USE DEF Threads
<1>1. CASE UNCHANGED vars
  BY <1>1 DEF vars, LockInv, TypeOK, Exclusion, FreshView, PutsLeft, Fifo,
              Inside
<1>2. ASSUME NEW p \in Producers, PutLock(p) PROVE LockInv' /\ UNCHANGED <<q, taken>>
  BY <1>2, LockStep DEF PutLock
<1>3. ASSUME NEW p \in Producers, PutPush(p) PROVE LockInv' /\ Channel!Next
  BY <1>3, PushStep DEF Channel!Next
<1>4. ASSUME NEW p \in Producers, PutUnlock(p) PROVE LockInv' /\ UNCHANGED <<q, taken>>
  BY <1>4, UnlockStep DEF PutUnlock, Inside, Unlock
<1>5. ASSUME NEW p \in Producers, PutPost(p) PROVE LockInv' /\ UNCHANGED <<q, taken>>
  <2>1. TypeOK'
    BY <1>5 DEF PutPost, Goto, LockInv, TypeOK
  <2> QED
    BY <1>5, <2>1, OutsideStep DEF PutPost, LockInv
<1>6. ASSUME NEW g \in Getters, GetWait(g) PROVE LockInv' /\ UNCHANGED <<q, taken>>
  <2>1. TypeOK'
    BY <1>6 DEF GetWait, Goto, LockInv, TypeOK
  <2> QED
    BY <1>6, <2>1, OutsideStep DEF GetWait, LockInv
<1>7. ASSUME NEW g \in Getters, GetLock(g) PROVE LockInv' /\ UNCHANGED <<q, taken>>
  BY <1>7, ThreadsAssumption, LockStep DEF GetLock
<1>8. ASSUME NEW t \in Getters \cup Pollers, Pop(t)
      PROVE LockInv' /\ [Channel!Next]_<<q, taken>>
  BY <1>8, PopStep DEF Channel!Next
<1>9. ASSUME NEW t \in Getters \cup Pollers, GetUnlock(t)
      PROVE LockInv' /\ UNCHANGED <<q, taken>>
  BY <1>9, UnlockStep DEF GetUnlock, Inside, Unlock
<1>10. ASSUME NEW t \in Pollers, PollWait(t) PROVE LockInv' /\ UNCHANGED <<q, taken>>
  <2>1. TypeOK'
    BY <1>10 DEF PollWait, Goto, LockInv, TypeOK
  <2> QED
    BY <1>10, <2>1, OutsideStep DEF PollWait, LockInv
<1>11. ASSUME NEW t \in Pollers, PollTimeout(t) PROVE LockInv' /\ UNCHANGED <<q, taken>>
  <2>1. TypeOK'
    BY <1>11 DEF PollTimeout, Goto, LockInv, TypeOK
  <2> QED
    BY <1>11, <2>1, OutsideStep DEF PollTimeout, LockInv
<1>12. ASSUME NEW t \in Pollers, NEW code \in {"Q_TIMEOUT", "Q_BUSY"}, Return(t, code)
       PROVE LockInv' /\ UNCHANGED <<q, taken>>
  <2>1. TypeOK'
    BY <1>12 DEF Return, Goto, LockInv, TypeOK
  <2> QED
    BY <1>12, <2>1, OutsideStep DEF Return, LockInv
<1>13. ASSUME NEW t \in Pollers, PollTestEmpty(t) PROVE LockInv' /\ UNCHANGED <<q, taken>>
  <2>1. CASE Return(t, "Q_TIMEOUT")
    BY <2>1, <1>12
  <2>2. CASE Goto(t, "try") /\ UNCHANGED <<q, sem, mutex, view, ret, puts, pushed, taken>>
    <3>1. TypeOK'
      BY <2>2 DEF Goto, LockInv, TypeOK
    <3> QED
      BY <2>2, <3>1, OutsideStep DEF LockInv
  <2> QED
    BY <1>13, <2>1, <2>2 DEF PollTestEmpty
<1>14. ASSUME NEW t \in Pollers, PollTryLock(t) PROVE LockInv' /\ UNCHANGED <<q, taken>>
  BY <1>12, <1>14, ThreadsAssumption, LockStep DEF PollTryLock
<1>15. CASE Next
  BY <1>2, <1>3, <1>4, <1>5, <1>6, <1>7, <1>8, <1>9, <1>10, <1>11, <1>13,
     <1>14, <1>15 DEF Next, Producer, Getter, Poller
<1> QED
  BY <1>1, <1>15

(* Every variable of SrQueue keeps its type.                               *)
THEOREM QueueTypeCorrect == Spec => []TypeOK
<1>1. LockInv /\ [Next]_vars => LockInv'
  BY LockInvNext
<1>2. LockInv => TypeOK
  BY DEF LockInv
<1> QED
  BY LockInvInit, <1>1, <1>2, PTL DEF Spec

(* No element is lost, duplicated or reordered, whatever the threads.      *)
THEOREM QueueIsFifo == Spec => []Fifo
<1>1. LockInv /\ [Next]_vars => LockInv'
  BY LockInvNext
<1>2. LockInv => Fifo
  BY DEF LockInv
<1> QED
  BY LockInvInit, <1>1, <1>2, PTL DEF Spec

(* put() and get() may be taken for atomic: SrQueue implements SrChannel.  *)
THEOREM QueueImplementsChannel == Spec => ChannelSpec
<1>1. Init => Channel!Init
  BY DEF Init, Channel!Init
<1>2. LockInv /\ [Next]_vars => LockInv' /\ [Channel!Next]_<<q, taken>>
  BY LockInvNext
<1> QED
  BY LockInvInit, <1>1, <1>2, PTL DEF Spec, ChannelSpec, Channel!Spec
-----------------------------------------------------------------------------
(* The semaphore counts the elements when nobody uses get(millisec): an    *)
(* element is either announced by it, or about to be (its producer has not *)
(* reached sem_post), or promised to a getter that took a token.           *)
Announcing == {p \in Producers : pc[p] \in {"pushed", "post"}}
(* The getters that took a token for an element. *)
Promised == {g \in Getters : pc[g] \in {"woken", "locked"}}

(* Tokens, threads about to post one, and elements balance: every element  *)
(* has a token, an announcement or a getter coming for it.                 *)
TokenInv ==
    /\ Len(q) = sem + Cardinality(Announcing) + Cardinality(Promised)
    /\ GetReturnsAnElement

(* The threads are finitely many, so that they can be counted. *)
LEMMA Finiteness ==
    /\ IsFiniteSet(Announcing) /\ IsFiniteSet(Promised)
    /\ Cardinality(Announcing) \in Nat /\ Cardinality(Promised) \in Nat
BY FiniteThreadsAssumption, FS_Subset, FS_CardinalityType DEF Announcing, Promised

(* An empty queue without tokens is in balance. *)
LEMMA TokenInvInit == Init => TokenInv
<1> SUFFICES ASSUME Init PROVE TokenInv
  OBVIOUS
<1>1. Announcing = {} /\ Promised = {}
  BY DEF Init, Announcing, Promised, Threads
<1>2. Len(q) = 0
  BY EmptySeq DEF Init
<1>3. GetReturnsAnElement
  BY DEF Init, GetReturnsAnElement
<1> QED
  BY <1>1, <1>2, <1>3, FS_EmptySet DEF TokenInv, Init

(* The thread that moves is in one of the two sets, and it alone enters or *)
(* leaves it.                                                              *)
LEMMA TokenInvNext ==
    ASSUME Pollers = {}, LockInv, TokenInv, Next
    PROVE  TokenInv'
<1> USE DEF Threads, Goto
<1>1. /\ pc \in [Threads -> {"idle", "locked", "pushed", "post", "woken",
                             "popped", "timedout", "try"}]
      /\ q \in Seq(Items) /\ Len(q) \in Nat /\ sem \in Nat
      /\ ret \in [Getters \cup Pollers ->
                     {"Q_OK", "Q_TIMEOUT", "Q_BUSY", "Q_EMPTY"}]
  BY LenProperties DEF LockInv, TypeOK
<1>2. ASSUME NEW p \in Producers, PutLock(p) PROVE TokenInv'
  <2>1. Announcing' = Announcing /\ Promised' = Promised
    BY <1>1, <1>2, ThreadsAssumption DEF PutLock, Lock, Announcing, Promised
  <2> QED
    BY <1>2, <2>1 DEF PutLock, TokenInv, GetReturnsAnElement
<1>3. ASSUME NEW p \in Producers, PutPush(p) PROVE TokenInv'
  <2>1. Announcing' = Announcing \cup {p} /\ p \notin Announcing /\ Promised' = Promised
    BY <1>1, <1>3, ThreadsAssumption DEF PutPush, Announcing, Promised
  <2>2. Cardinality(Announcing') = Cardinality(Announcing) + 1
    BY <2>1, Finiteness, FS_AddElement
  <2>3. Len(q') = Len(q) + 1
    <3>1. \E d \in Items : q' = Append(q, d)
      BY <1>3, PushStep DEF Channel!Put
    <3> QED
      BY <1>1, <3>1, AppendProperties
  <2>4. sem' = sem /\ ret' = ret
    BY <1>3 DEF PutPush
  <2> QED
    BY <1>1, <2>1, <2>2, <2>3, <2>4, Finiteness DEF TokenInv, GetReturnsAnElement
<1>4. ASSUME NEW p \in Producers, PutUnlock(p) PROVE TokenInv'
  <2>1. Announcing' = Announcing /\ Promised' = Promised
    BY <1>1, <1>4, ThreadsAssumption DEF PutUnlock, Unlock, Announcing, Promised
  <2> QED
    BY <1>4, <2>1 DEF PutUnlock, Unlock, TokenInv, GetReturnsAnElement
<1>5. ASSUME NEW p \in Producers, PutPost(p) PROVE TokenInv'
  <2>1. Announcing' = Announcing \ {p} /\ p \in Announcing /\ Promised' = Promised
    BY <1>1, <1>5, ThreadsAssumption DEF PutPost, Announcing, Promised
  <2>2. Cardinality(Announcing') = Cardinality(Announcing) - 1
    BY <2>1, Finiteness, FS_RemoveElement
  <2>3. sem' = sem + 1 /\ q' = q /\ ret' = ret
    BY <1>5 DEF PutPost
  <2> QED
    BY <1>1, <2>1, <2>2, <2>3, Finiteness DEF TokenInv, GetReturnsAnElement
<1>6. ASSUME NEW g \in Getters, GetWait(g) PROVE TokenInv'
  <2>1. Promised' = Promised \cup {g} /\ g \notin Promised /\ Announcing' = Announcing
    BY <1>1, <1>6, ThreadsAssumption DEF GetWait, Announcing, Promised
  <2>2. Cardinality(Promised') = Cardinality(Promised) + 1
    BY <2>1, Finiteness, FS_AddElement
  <2>3. sem' = sem - 1 /\ q' = q /\ ret' = ret
    BY <1>6 DEF GetWait
  <2> QED
    BY <1>1, <2>1, <2>2, <2>3, Finiteness DEF TokenInv, GetReturnsAnElement
<1>7. ASSUME NEW g \in Getters, GetLock(g) PROVE TokenInv'
  <2>1. Announcing' = Announcing /\ Promised' = Promised
    BY <1>1, <1>7, ThreadsAssumption DEF GetLock, Lock, Announcing, Promised
  <2> QED
    BY <1>7, <2>1 DEF GetLock, TokenInv, GetReturnsAnElement
<1>8. ASSUME NEW g \in Getters, Pop(g) PROVE TokenInv'
  <2>1. Promised' = Promised \ {g} /\ g \in Promised /\ Announcing' = Announcing
    BY <1>1, <1>8, ThreadsAssumption DEF Pop, Announcing, Promised
  <2>2. Cardinality(Promised') = Cardinality(Promised) - 1
    BY <2>1, Finiteness, FS_RemoveElement
  <2>3. Cardinality(Promised) # 0
    BY <2>1, Finiteness, FS_EmptySet
  <2>4. view[g] = q /\ q # <<>>
    <3>1. Len(q) # 0
      BY <1>1, <2>3, Finiteness DEF TokenInv
    <3> QED
      BY <1>8, <3>1, EmptySeq DEF LockInv, FreshView, Pop
  <2>5. q' = Tail(q) /\ ret' = [ret EXCEPT ![g] = "Q_OK"] /\ sem' = sem
    BY <1>8, <2>4 DEF Pop
  <2>6. Len(q') = Len(q) - 1
    BY <1>1, <2>4, <2>5, HeadTailProperties
  <2>7. GetReturnsAnElement'
    BY <1>1, <2>5 DEF GetReturnsAnElement, TokenInv
  <2> QED
    BY <1>1, <2>1, <2>2, <2>5, <2>6, <2>7, Finiteness DEF TokenInv
<1>9. ASSUME NEW g \in Getters, GetUnlock(g) PROVE TokenInv'
  <2>1. Announcing' = Announcing /\ Promised' = Promised
    BY <1>1, <1>9, ThreadsAssumption DEF GetUnlock, Unlock, Announcing, Promised
  <2> QED
    BY <1>9, <2>1 DEF GetUnlock, Unlock, TokenInv, GetReturnsAnElement
<1> QED
  BY <1>2, <1>3, <1>4, <1>5, <1>6, <1>7, <1>8, <1>9
     DEF Next, Producer, Getter, Poller

LEMMA TokenInvStep ==
    ASSUME Pollers = {}, LockInv, TokenInv, [Next]_vars
    PROVE  TokenInv'
<1>1. CASE UNCHANGED vars
  BY <1>1 DEF vars, TokenInv, Announcing, Promised, GetReturnsAnElement
<1> QED
  BY <1>1, TokenInvNext

(* What the balance says of a call of get() and of a queue at rest. *)
LEMMA TokensTell ==
    ASSUME LockInv, TokenInv
    PROVE  GetReturnsAnElement /\ NoStrandedElement
<1>1. GetReturnsAnElement
  BY DEF TokenInv
<1>2. NoStrandedElement
  <2> SUFFICES ASSUME q # <<>>, \A t \in Threads : pc[t] = "idle" PROVE sem > 0
    BY DEF NoStrandedElement
  <2>1. Announcing = {} /\ Promised = {}
    BY DEF Announcing, Promised, Threads
  <2>2. Len(q) \in Nat \ {0} /\ sem \in Nat
    BY EmptySeq DEF LockInv, TypeOK
  <2> QED
    BY <2>1, <2>2, FS_EmptySet DEF TokenInv
<1> QED
  BY <1>1, <1>2

(* Both invariants hold wherever get(millisec), which gives tokens away,   *)
(* is not used.                                                            *)
LEMMA TokenSpec == Pollers = {} => (Spec => [](LockInv /\ TokenInv))
<1> SUFFICES ASSUME Pollers = {} PROVE Spec => [](LockInv /\ TokenInv)
  OBVIOUS
<1>1. Init => LockInv /\ TokenInv
  BY LockInvInit, TokenInvInit
<1>2. (LockInv /\ TokenInv) /\ [Next]_vars => (LockInv /\ TokenInv)'
  BY LockInvNext, TokenInvStep
<1> QED
  BY <1>1, <1>2, PTL DEF Spec

(* Where only get() reads the queue, get() always returns an element.      *)
THEOREM GetNeverEmpty == Pollers = {} => (Spec => []GetReturnsAnElement)
<1>1. LockInv /\ TokenInv => GetReturnsAnElement
  BY TokensTell
<1> QED
  BY <1>1, TokenSpec, PTL

(* Where only get() reads the queue, a resting queue with an element has a *)
(* token for it.                                                           *)
THEOREM NothingStranded == Pollers = {} => (Spec => []NoStrandedElement)
<1>1. LockInv /\ TokenInv => NoStrandedElement
  BY TokensTell
<1> QED
  BY <1>1, TokenSpec, PTL
=============================================================================
