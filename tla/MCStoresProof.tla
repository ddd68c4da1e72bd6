---------------------------- MODULE MCStoresProof ----------------------------
(***************************************************************************)
(* Proofs about the stores of MCStores, side by side: the two queues, by   *)
(* what SrQueueProof proves of a queue, and the file backed buffer.        *)
(***************************************************************************)
EXTENDS MCStores, SrQueueProof, SeqInduction

PolledProof == INSTANCE SrQueueProof WITH
    Getters <- {}, Pollers <- TimedPollers,
    q <- chars, sem <- tokens, mutex <- lock, pc <- at, view <- read, ret <- code,
    puts <- count, pushed <- putIn, taken <- gotOut

(* A step of the three stores. *)
AllNext == GetStep \/ PollStep \/ PageStep

-----------------------------------------------------------------------------
(* PolledProof speaks of the queue Polled. *)

LEMMA PolledAssumed ==
    /\ PolledProof!ThreadsAssumption
    /\ PolledProof!FiniteThreadsAssumption
    /\ PolledProof!MaxPutsAssumption
<1>1. PolledProof!ThreadsAssumption
  BY PolledAssumption DEF Polled!ThreadsAssumption, Polled!Threads,
     PolledProof!ThreadsAssumption, PolledProof!Threads
<1>2. PolledProof!FiniteThreadsAssumption
  <2>1. IsFiniteSet(Producers) /\ IsFiniteSet({})
    BY FiniteThreadsAssumption, FS_EmptySet
  <2>2. PolledProof!IsFiniteSet(Producers) /\ PolledProof!IsFiniteSet({})
    BY <2>1 DEF IsFiniteSet, PolledProof!IsFiniteSet
  <2> QED
    BY <2>2 DEF PolledProof!FiniteThreadsAssumption
<1>3. PolledProof!MaxPutsAssumption
  BY MaxPutsAssumption DEF PolledProof!MaxPutsAssumption, MaxPutsAssumption
<1> QED
  BY <1>1, <1>2, <1>3

LEMMA PolledInitIs == Polled!Init => PolledProof!Init
BY DEF Polled!Init, PolledProof!Init, Polled!Threads, PolledProof!Threads

LEMMA PolledPopIs == ASSUME NEW t PROVE Polled!Pop(t) => PolledProof!Pop(t)
BY DEF Polled!Pop, PolledProof!Pop, Polled!Goto, PolledProof!Goto

LEMMA PolledUnlockIs == ASSUME NEW t PROVE Polled!GetUnlock(t) => PolledProof!GetUnlock(t)
BY DEF Polled!GetUnlock, PolledProof!GetUnlock, Polled!Unlock, PolledProof!Unlock,
   Polled!Goto, PolledProof!Goto

LEMMA PolledProducerIs ==
    ASSUME NEW p
    PROVE  Polled!Producer(p) => PolledProof!Producer(p)
BY DEF Polled!Producer, PolledProof!Producer, Polled!PutLock, PolledProof!PutLock,
   Polled!PutPush, PolledProof!PutPush, Polled!PutUnlock, PolledProof!PutUnlock,
   Polled!PutPost, PolledProof!PutPost, Polled!Lock, PolledProof!Lock,
   Polled!Unlock, PolledProof!Unlock, Polled!Goto, PolledProof!Goto,
   Polled!Free, PolledProof!Free

LEMMA PolledPollerIs ==
    ASSUME NEW t
    PROVE  Polled!Poller(t) => PolledProof!Poller(t)
<1>1. Polled!PollWait(t) \/ Polled!PollTimeout(t)
        => PolledProof!PollWait(t) \/ PolledProof!PollTimeout(t)
  BY DEF Polled!PollWait, PolledProof!PollWait, Polled!PollTimeout, PolledProof!PollTimeout,
     Polled!Goto, PolledProof!Goto
<1>2. Polled!PollTestEmpty(t) => PolledProof!PollTestEmpty(t)
  BY DEF Polled!PollTestEmpty, PolledProof!PollTestEmpty,
     Polled!EmptyAnswers, PolledProof!EmptyAnswers, Polled!Return, PolledProof!Return,
     Polled!Goto, PolledProof!Goto, Polled!Free, PolledProof!Free
<1>3. Polled!PollTryLock(t) => PolledProof!PollTryLock(t)
  BY DEF Polled!PollTryLock, PolledProof!PollTryLock, Polled!Lock, PolledProof!Lock,
     Polled!Return, PolledProof!Return,
     Polled!Goto, PolledProof!Goto, Polled!Free, PolledProof!Free
<1> QED
  BY <1>1, <1>2, <1>3, PolledPopIs, PolledUnlockIs DEF Polled!Poller, PolledProof!Poller

LEMMA PolledStepIs ==
    ASSUME [AllNext]_allVars
    PROVE  [PolledProof!Next]_(PolledProof!vars)
<1>1. CASE PollStep
  BY <1>1, PolledProducerIs, PolledPollerIs DEF PollStep, Polled!Next, PolledProof!Next
<1>2. CASE UNCHANGED polledVars
  BY <1>2 DEF polledVars, PolledProof!vars
<1> QED
  BY <1>1, <1>2 DEF AllNext, GetStep, PageStep, allVars

(* Whatever the stores do, the first queue steps or rests. *)
LEMMA QueueStepIs ==
    ASSUME [AllNext]_allVars
    PROVE  [Next]_vars
BY DEF AllNext, GetStep, PollStep, PageStep, allVars

LEMMA StoresInit == AllInit => Init /\ PolledProof!Init
BY PolledInitIs DEF AllInit

-----------------------------------------------------------------------------
(* With get(millisec), too, the queue is the channel that its clients take *)
(* it for, although a timeout tests q.empty() without the lock             *)
(* (include/srqueue.h 115-151).                                            *)
THEOREM PolledImplementsChannel == AllSpec => PolledChannelSpec
<1>1. AllInit => PolledProof!LockInv /\ Polled!Channel!Init
  <2>1. AllInit => PolledProof!LockInv
    BY StoresInit, PolledAssumed, PolledProof!LockInvInit
  <2>2. AllInit => Polled!Channel!Init
    BY DEF AllInit, Polled!Init, Polled!Channel!Init
  <2> QED
    BY <2>1, <2>2
<1>2. PolledProof!LockInv /\ [AllNext]_allVars
        => PolledProof!LockInv' /\ [Polled!Channel!Next]_<<chars, gotOut>>
  <2> SUFFICES ASSUME PolledProof!LockInv, [AllNext]_allVars
               PROVE  PolledProof!LockInv' /\ [Polled!Channel!Next]_<<chars, gotOut>>
    OBVIOUS
  <2>1. PolledProof!LockInv' /\ [PolledProof!Channel!Next]_<<chars, gotOut>>
    BY PolledStepIs, PolledAssumed, PolledProof!LockInvNext
  <2> QED
    BY <2>1 DEF PolledProof!Channel!Next, Polled!Channel!Next,
       PolledProof!Channel!Take, Polled!Channel!Take,
       PolledProof!Channel!Put, Polled!Channel!Put, Polled!Items, PolledProof!Items
<1> QED
  BY <1>1, <1>2, PTL DEF AllSpec, AllNext, PolledChannelSpec, Polled!ChannelSpec,
     Polled!Channel!Spec

(* With get(), the same, whatever the other stores do.                     *)
THEOREM StoresQueueImplementsChannel == AllSpec => ChannelSpec
<1>1. AllInit => LockInv /\ Channel!Init
  BY StoresInit, LockInvInit DEF Init, Channel!Init
<1>2. LockInv /\ [AllNext]_allVars => LockInv' /\ [Channel!Next]_<<q, taken>>
  BY QueueStepIs, LockInvNext
<1> QED
  BY <1>1, <1>2, PTL DEF AllSpec, AllNext, ChannelSpec, Channel!Spec

(* Where only get() reads the queue, get() always returns an element, and  *)
(* a resting queue with an element has a token for it, whatever the other  *)
(* stores do (include/srqueue.h 83-113).                                   *)
THEOREM StoresGetReturnsAnElement ==
    Pollers = {} => (AllSpec => [](GetReturnsAnElement /\ NoStrandedElement))
<1> SUFFICES ASSUME Pollers = {}
             PROVE  AllSpec => [](GetReturnsAnElement /\ NoStrandedElement)
  OBVIOUS
<1>1. AllInit => LockInv /\ TokenInv
  BY StoresInit, LockInvInit, TokenInvInit
<1>2. LockInv /\ TokenInv /\ [AllNext]_allVars => (LockInv /\ TokenInv)'
  BY QueueStepIs, LockInvNext, TokenInvStep
<1>3. LockInv /\ TokenInv => GetReturnsAnElement /\ NoStrandedElement
  BY TokensTell
<1> QED
  BY <1>1, <1>2, <1>3, PTL DEF AllSpec, AllNext

-----------------------------------------------------------------------------
(***************************************************************************)
(* The file backed buffer (SrFilePager).  Of a list of pages c says where  *)
(* its n runs begin and, at last, where the next would: run r is the pages *)
(* c[r] .. c[r + 1] - 1.  Every operation changes the list at an end only. *)
(***************************************************************************)
Pages == Seq(Pager!Page)

Begins(p, k) == k = 1 \/ p[k].flag # p[k - 1].flag

Cuts(n, c, p) ==
    /\ n \in Nat /\ c \in [1 .. n + 1 -> Nat]
    /\ c[1] = 1 /\ c[n + 1] = Len(p) + 1
    /\ \A j, k \in 1 .. n + 1 : j < k => c[j] < c[k]
    /\ \A k \in 1 .. Len(p) : Begins(p, k) <=> \E r \in 1 .. n : c[r] = k

LEMMA RunStartsAre ==
    ASSUME NEW p \in Pages
    PROVE  Pager!RunStarts(p) = {k \in 1 .. Len(p) : Begins(p, k)}
  BY DEF Pages, Pager!RunStarts, Begins

LEMMA CutBounds ==
    ASSUME NEW n, NEW c, NEW p \in Pages, Cuts(n, c, p)
    PROVE  /\ n \in Nat /\ Len(p) \in Nat
           /\ \A r \in 1 .. n + 1 : c[r] \in 1 .. Len(p) + 1
           /\ \A r \in 1 .. n : /\ c[r] \in 1 .. Len(p) /\ c[r] < c[r + 1]
                                /\ r \in 1 .. n + 1 /\ r + 1 \in 1 .. n + 1
<1>1. /\ n \in Nat /\ c \in [1 .. n + 1 -> Nat] /\ c[1] = 1 /\ c[n + 1] = Len(p) + 1
      /\ \A j, k \in 1 .. n + 1 : j < k => c[j] < c[k]
  BY Zenon DEF Cuts
<1>2. Len(p) \in Nat
  BY DEF Pages
<1>3. ASSUME NEW r \in 1 .. n + 1 PROVE c[r] \in 1 .. Len(p) + 1
  <2>1. r \in Nat /\ 1 \in 1 .. n + 1 /\ n + 1 \in 1 .. n + 1 /\ c[r] \in Nat
    BY <1>1
  <2>2. r = 1 \/ c[1] < c[r]
    BY <1>1, <2>1
  <2>3. r = n + 1 \/ c[r] < c[n + 1]
    BY <1>1, <2>1
  <2> QED
    BY <1>1, <1>2, <2>1, <2>2, <2>3
<1>4. ASSUME NEW r \in 1 .. n
      PROVE  c[r] \in 1 .. Len(p) /\ c[r] < c[r + 1] /\ r \in 1 .. n + 1 /\ r + 1 \in 1 .. n + 1
  <2>1. r \in 1 .. n + 1 /\ r + 1 \in 1 .. n + 1 /\ r < r + 1
    BY <1>1
  <2>2. c[r] < c[r + 1]
    BY <1>1, <2>1
  <2>3. c[r] \in 1 .. Len(p) + 1 /\ c[r + 1] \in 1 .. Len(p) + 1
    BY <1>3, <2>1
  <2> QED
    BY <1>2, <2>1, <2>2, <2>3
<1> QED
  BY <1>1, <1>2, <1>3, <1>4

LEMMA CutsEmpty ==
    /\ Cuts(0, [k \in 1 .. 1 |-> 1], <<>>)
    /\ \A n, c : Cuts(n, c, <<>>) => n = 0
<1>1. Cuts(0, [k \in 1 .. 1 |-> 1], <<>>)
  BY DEF Cuts
<1>2. ASSUME NEW n, NEW c, Cuts(n, c, <<>>) PROVE n = 0
  <2>1. <<>> \in Pages /\ Len(<<>>) = 0
    BY DEF Pages
  <2>2. n \in Nat /\ \A r \in 1 .. n : c[r] \in 1 .. 0
    BY <1>2, <2>1, CutBounds
  <2>3. n # 0 => 1 \in 1 .. n
    BY <2>2
  <2> QED
    BY <2>2, <2>3
<1> QED
  BY <1>1, <1>2

(* A list with a page has a run, and runs have pages. *)
LEMMA CutsSome ==
    ASSUME NEW n, NEW c, NEW p \in Pages, Cuts(n, c, p)
    PROVE  n = 0 <=> p = <<>>
<1>1. n \in Nat /\ c[1] = 1 /\ c[n + 1] = Len(p) + 1
  BY DEF Cuts
<1>2. Len(p) \in Nat /\ (p = <<>> <=> Len(p) = 0)
  BY DEF Pages
<1>3. n = 0 => Len(p) = 0
  BY <1>1, <1>2
<1>4. n # 0 => Len(p) # 0
  <2>1. \A r \in 1 .. n : c[r] \in 1 .. Len(p)
    BY CutBounds
  <2>2. n # 0 => 1 \in 1 .. n
    BY <1>1
  <2> QED
    BY <1>2, <2>1, <2>2
<1> QED
  BY <1>2, <1>3, <1>4

(* The number of the runs, and where they begin. *)
LEMMA CountDistinct ==
    ASSUME NEW m \in Nat, NEW c, \A j, k \in 1 .. m : c[j] = c[k] => j = k
    PROVE  /\ Pager!Cardinality({c[j] : j \in 1 .. m}) = m
           /\ Cardinality({c[j] : j \in 1 .. m}) = m
           /\ IsFiniteSet({c[j] : j \in 1 .. m})
<1> DEFINE T == {c[j] : j \in 1 .. m}
           f == [j \in 1 .. m |-> c[j]]
<1>1. f \in [1 .. m -> T] /\ \A j \in 1 .. m : f[j] = c[j]
  OBVIOUS
<1>2. f \in Bijection(1 .. m, T)
  <2>1. \A x \in T : \E j \in 1 .. m : f[j] = x
    BY <1>1
  <2>2. \A j, k \in 1 .. m : f[j] = f[k] => j = k
    BY <1>1
  <2> HIDE DEF f, T
  <2>3. f \in [1 .. m -> T]
    BY <1>1
  <2>4. f \in Injection(1 .. m, T)
    BY ONLY <2>2, <2>3 DEF Injection, IsInjective
  <2>5. f \in Surjection(1 .. m, T)
    BY ONLY <2>1, <2>3 DEF Surjection
  <2> QED
    BY ONLY <2>4, <2>5 DEF Bijection
<1> HIDE DEF f, T
<1>3. ExistsBijection(1 .. m, T)
  BY <1>2 DEF ExistsBijection
<1>4. Cardinality(T) = m /\ IsFiniteSet(T)
  BY <1>3, FS_CountingElements, FS_NatBijection
<1>5. Pager!Cardinality(T) = Cardinality(T)
  BY DEF Pager!Cardinality, Cardinality
<1> QED
  BY <1>4, <1>5 DEF T

LEMMA CountRising ==
    ASSUME NEW m \in Nat, NEW c, \A j, k \in 1 .. m : j < k => c[j] < c[k],
           \A j \in 1 .. m : c[j] \in Nat
    PROVE  Pager!Cardinality({c[j] : j \in 1 .. m}) = m
<1>1. ASSUME NEW j \in 1 .. m, NEW k \in 1 .. m, c[j] = c[k] PROVE j = k
  <2>1. (j < k => c[j] < c[k]) /\ (k < j => c[k] < c[j]) /\ c[j] \in Nat /\ c[k] \in Nat
    OBVIOUS
  <2>2. ~(j < k) /\ ~(k < j)
    BY <1>1, <2>1
  <2>3. j \in Nat /\ k \in Nat
    OBVIOUS
  <2> QED
    BY ONLY <2>2, <2>3
<1>2. \A j, k \in 1 .. m : c[j] = c[k] => j = k
  BY <1>1
<1> QED
  BY ONLY <1>2, m \in Nat, CountDistinct

LEMMA CutsCount ==
    ASSUME NEW n, NEW c, NEW p \in Pages, Cuts(n, c, p)
    PROVE  /\ Pager!Cardinality(Pager!RunStarts(p)) = n
           /\ \A r \in 1 .. n : Pager!RunStart(p, r) = c[r]
<1>1. /\ n \in Nat /\ \A j, k \in 1 .. n + 1 : j < k => c[j] < c[k]
      /\ \A k \in 1 .. Len(p) : Begins(p, k) <=> \E r \in 1 .. n : c[r] = k
  BY Zenon DEF Cuts
<1>2. \A r \in 1 .. n : c[r] \in 1 .. Len(p) /\ r \in 1 .. n + 1
  BY CutBounds
<1>3. Pager!RunStarts(p) = {c[j] : j \in 1 .. n}
  BY <1>1, <1>2, RunStartsAre
<1>4. \A j \in 1 .. n : c[j] \in Nat /\ j \in 1 .. n + 1
  BY <1>2
<1>5. Pager!Cardinality(Pager!RunStarts(p)) = n
  BY <1>1, <1>3, <1>4, CountRising
<1>6. ASSUME NEW r \in 1 .. n
      PROVE  Pager!Cardinality({t \in Pager!RunStarts(p) : t <= c[r]}) = r
  <2>1. \A j \in 1 .. n : c[j] <= c[r] <=> j \in 1 .. r
    <3> SUFFICES ASSUME NEW j \in 1 .. n PROVE c[j] <= c[r] <=> j \in 1 .. r
      OBVIOUS
    <3>1. (j < r => c[j] < c[r]) /\ (r < j => c[r] < c[j]) /\ c[j] \in Nat /\ c[r] \in Nat
      BY <1>1, <1>4
    <3>2. j \in 1 .. r <=> j < r \/ j = r
      OBVIOUS
    <3>3. j < r \/ j = r \/ r < j
      OBVIOUS
    <3> QED
      BY ONLY <3>1, <3>2, <3>3
  <2>2. r \in Nat /\ \A j \in 1 .. r : j \in 1 .. n
    BY <1>1
  <2>3. {t \in Pager!RunStarts(p) : t <= c[r]} = {c[j] : j \in 1 .. r}
    BY <1>3, <2>1, <2>2
  <2>4. Pager!Cardinality({c[j] : j \in 1 .. r}) = r
    BY <1>1, <1>4, <2>2, CountRising
  <2> QED
    BY <2>3, <2>4
<1>7. ASSUME NEW r \in 1 .. n PROVE Pager!RunStart(p, r) = c[r]
  <2>1. c[r] \in Pager!RunStarts(p)
    BY <1>3
  <2>2. ASSUME NEW s \in Pager!RunStarts(p),
               Pager!Cardinality({t \in Pager!RunStarts(p) : t <= s}) = r
        PROVE  s = c[r]
    <3>1. PICK j \in 1 .. n : s = c[j]
      BY <1>3
    <3>2. j = r
      BY <1>6, <2>2, <3>1
    <3> QED
      BY <3>1, <3>2
  <2>3. Pager!RunStart(p, r) \in Pager!RunStarts(p)
          /\ Pager!Cardinality({t \in Pager!RunStarts(p) : t <= Pager!RunStart(p, r)}) = r
    BY <1>6, <2>1, Zenon DEF Pager!RunStart
  <2> QED
    BY <2>2, <2>3
<1> QED
  BY <1>5, <1>7

LEMMA MinIs ==
    ASSUME NEW S \in SUBSET Nat, NEW m \in S, \A x \in S : m <= x
    PROVE  Pager!Min(S) = m
<1>1. Pager!Min(S) \in S /\ \A x \in S : Pager!Min(S) <= x
  BY Zenon DEF Pager!Min
<1>2. Pager!Min(S) <= m /\ m <= Pager!Min(S) /\ Pager!Min(S) \in Nat /\ m \in Nat
  BY <1>1
<1> QED
  BY ONLY <1>2

LEMMA FrontLenIs ==
    ASSUME NEW n, NEW c, NEW p \in Pages, Cuts(n, c, p), n # 0
    PROVE  Pager!FrontLen(p) = c[2] - 1 /\ c[2] \in 2 .. Len(p) + 1
<1>1. /\ n \in Nat /\ \A j, k \in 1 .. n + 1 : j < k => c[j] < c[k]
      /\ \A k \in 1 .. Len(p) : Begins(p, k) <=> \E r \in 1 .. n : c[r] = k
      /\ c[1] = 1 /\ c[n + 1] = Len(p) + 1
  BY Zenon DEF Cuts
<1>2. /\ Len(p) \in Nat
      /\ \A r \in 1 .. n + 1 : c[r] \in 1 .. Len(p) + 1
      /\ \A r \in 1 .. n : c[r] \in 1 .. Len(p) /\ r \in 1 .. n + 1
  BY CutBounds
<1>3. 1 \in 1 .. n + 1 /\ 2 \in 1 .. n + 1
  BY <1>1
<1>4. c[2] \in 1 .. Len(p) + 1 /\ c[1] < c[2]
  BY <1>1, <1>2, <1>3
<1>5. c[2] \in 2 .. Len(p) + 1
  BY <1>1, <1>2, <1>4
<1> DEFINE S == (Pager!RunStarts(p) \ {1}) \cup {Len(p) + 1}
<1>6. c[2] \in S
  <2>1. CASE n = 1
    BY <1>1, <2>1
  <2>2. CASE n # 1
    <3>1. 2 \in 1 .. n
      BY <1>1, <2>2
    <3>2. c[2] \in 1 .. Len(p) /\ Begins(p, c[2])
      BY <1>1, <1>2, <3>1
    <3> QED
      BY <1>5, <3>2, RunStartsAre
  <2> QED
    BY <2>1, <2>2
<1>7. ASSUME NEW x \in S PROVE c[2] <= x /\ x \in Nat
  <2>1. CASE x = Len(p) + 1
    BY <1>2, <1>5, <2>1
  <2>2. CASE x \in Pager!RunStarts(p) \ {1}
    <3>1. x \in 1 .. Len(p) /\ Begins(p, x) /\ x # 1
      BY <2>2, RunStartsAre
    <3>2. PICK r \in 1 .. n : c[r] = x
      BY <1>1, <3>1
    <3>3. r # 1 /\ r \in 1 .. n + 1
      BY <1>1, <1>2, <3>1, <3>2
    <3>4. r = 2 \/ 2 < r
      BY <3>3
    <3>5. r = 2 \/ c[2] < c[r]
      BY <1>1, <1>3, <3>3, <3>4
    <3> QED
      BY <1>5, <3>1, <3>2, <3>5
  <2> QED
    BY <2>1, <2>2
<1>8. Pager!Min(S) = c[2]
  <2> HIDE DEF S
  <2>1. S \in SUBSET Nat
    BY <1>7
  <2> QED
    BY <1>6, <1>7, <2>1, MinIs
<1>9. Pager!FrontLen(p) = Pager!Min(S) - 1
  BY DEF Pager!FrontLen
<1> QED
  BY <1>5, <1>8, <1>9

-----------------------------------------------------------------------------
(* What the pages of a list hold: t[k] is the text of its kth page, w[r]   *)
(* that of its rth run.                                                    *)
Cell == (Nat \X Nat) \cup {Hole}
Words == Seq(Seq(Cell))

HoldsBy(n, c, p, t, w) ==
    /\ Cuts(n, c, p)
    /\ t \in Words /\ Len(t) = Len(p)
    /\ w \in Words /\ Len(w) = n
    /\ \A r \in 1 .. n : w[r] = FlattenSeq(SubSeq(t, c[r], c[r + 1] - 1))

Holds(p, t, w) == \E n, c : HoldsBy(n, c, p, t, w)

(* Parts of sequences. *)
LEMMA PartIs ==
    ASSUME NEW S, NEW t \in Seq(S), NEW a \in Nat \ {0}, NEW b \in Nat, a <= b + 1, b <= Len(t)
    PROVE  /\ SubSeq(t, a, b) \in Seq(S) /\ Len(SubSeq(t, a, b)) = b - a + 1
           /\ \A i \in 1 .. b - a + 1 : SubSeq(t, a, b)[i] = t[a + i - 1] /\ a + i - 1 \in a .. b
<1>1. Len(t) \in Nat /\ DOMAIN t = 1 .. Len(t)
  OBVIOUS
<1>2. \A i \in 1 .. b - a + 1 : a + i - 1 \in a .. b /\ a + i - 1 \in 1 .. Len(t)
  BY <1>1
<1>3. SubSeq(t, a, b) = [i \in 1 .. b - a + 1 |-> t[a + i - 1]]
  BY <1>1
<1>4. b - a + 1 \in Nat
  OBVIOUS
<1>5. \A i \in 1 .. b - a + 1 : t[a + i - 1] \in S
  BY <1>2
<1>6. SubSeq(t, a, b) \in Seq(S)
  BY <1>3, <1>4, <1>5
<1> QED
  BY <1>2, <1>3, <1>4, <1>6

LEMMA PartSame ==
    ASSUME NEW S, NEW t \in Seq(S), NEW u \in Seq(S), NEW a \in Nat \ {0}, NEW b \in Nat,
           a <= b + 1, b <= Len(t), b <= Len(u), \A i \in a .. b : t[i] = u[i]
    PROVE  SubSeq(t, a, b) = SubSeq(u, a, b)
<1>1. /\ SubSeq(t, a, b) \in Seq(S) /\ Len(SubSeq(t, a, b)) = b - a + 1
      /\ SubSeq(u, a, b) \in Seq(S) /\ Len(SubSeq(u, a, b)) = b - a + 1
  BY PartIs
<1>2. \A i \in 1 .. b - a + 1 : SubSeq(t, a, b)[i] = t[a + i - 1] /\ a + i - 1 \in a .. b
  BY PartIs
<1>3. \A i \in 1 .. b - a + 1 : SubSeq(u, a, b)[i] = u[a + i - 1] /\ a + i - 1 \in a .. b
  BY PartIs
<1>4. \A i \in 1 .. b - a + 1 : SubSeq(t, a, b)[i] = SubSeq(u, a, b)[i]
  BY <1>2, <1>3
<1> QED
  BY ONLY <1>1, <1>4, SeqEqual

LEMMA PartOfPart ==
    ASSUME NEW S, NEW t \in Seq(S), NEW m \in Nat, m <= Len(t),
           NEW a \in Nat \ {0}, NEW b \in Nat, a <= b + 1, m + b <= Len(t)
    PROVE  SubSeq(SubSeq(t, m + 1, Len(t)), a, b) = SubSeq(t, m + a, m + b)
<1> DEFINE u == SubSeq(t, m + 1, Len(t))
           x == SubSeq(u, a, b)
           y == SubSeq(t, m + a, m + b)
<1>1. Len(t) \in Nat /\ m + 1 \in Nat \ {0} /\ m + 1 <= Len(t) + 1 /\ m + a \in Nat \ {0}
        /\ m + b \in Nat /\ m + a <= m + b + 1
  OBVIOUS
<1>2. /\ u \in Seq(S) /\ Len(u) = Len(t) - (m + 1) + 1
      /\ \A i \in 1 .. Len(t) - (m + 1) + 1 : u[i] = t[m + 1 + i - 1]
  BY <1>1, PartIs
<1>3. /\ y \in Seq(S) /\ Len(y) = m + b - (m + a) + 1
      /\ \A i \in 1 .. m + b - (m + a) + 1 : y[i] = t[m + a + i - 1]
  BY <1>1, PartIs
<1> HIDE DEF u
<1>4. b <= Len(u)
  BY <1>1, <1>2
<1>5. /\ x \in Seq(S) /\ Len(x) = b - a + 1
      /\ \A i \in 1 .. b - a + 1 : x[i] = u[a + i - 1]
  BY <1>2, <1>4, PartIs
<1> HIDE DEF x, y
<1>6. \A i \in 1 .. b - a + 1 : x[i] = y[i]
  <2> SUFFICES ASSUME NEW i \in 1 .. b - a + 1 PROVE x[i] = y[i]
    OBVIOUS
  <2>1. i \in 1 .. m + b - (m + a) + 1 /\ a + i - 1 \in 1 .. Len(t) - (m + 1) + 1
    BY <1>1
  <2>2. m + 1 + (a + i - 1) - 1 = m + a + i - 1
    OBVIOUS
  <2> QED
    BY <1>2, <1>3, <1>5, <2>1, <2>2
<1>7. Len(x) = Len(y)
  BY <1>3, <1>5
<1>8. x = y
  BY ONLY <1>3, <1>5, <1>6, <1>7, SeqEqual
<1> QED
  BY <1>8 DEF x, y, u

LEMMA WordsPart ==
    ASSUME NEW t \in Words, NEW a \in Nat \ {0}, NEW b \in Nat, a <= b + 1, b <= Len(t)
    PROVE  /\ SubSeq(t, a, b) \in Words /\ Len(SubSeq(t, a, b)) = b - a + 1
           /\ \A i \in 1 .. b - a + 1 : SubSeq(t, a, b)[i] = t[a + i - 1] /\ a + i - 1 \in a .. b
  BY PartIs DEF Words

LEMMA WordsSame ==
    ASSUME NEW t \in Words, NEW u \in Words, NEW a \in Nat \ {0}, NEW b \in Nat,
           a <= b + 1, b <= Len(t), b <= Len(u), \A i \in a .. b : t[i] = u[i]
    PROVE  SubSeq(t, a, b) = SubSeq(u, a, b)
  BY PartSame DEF Words

LEMMA PagesPart ==
    ASSUME NEW t \in Pages, NEW a \in Nat \ {0}, NEW b \in Nat, a <= b + 1, b <= Len(t)
    PROVE  /\ SubSeq(t, a, b) \in Pages /\ Len(SubSeq(t, a, b)) = b - a + 1
           /\ \A i \in 1 .. b - a + 1 : SubSeq(t, a, b)[i] = t[a + i - 1] /\ a + i - 1 \in a .. b
  BY PartIs DEF Pages

LEMMA PagesSame ==
    ASSUME NEW t \in Pages, NEW u \in Pages, NEW a \in Nat \ {0}, NEW b \in Nat,
           a <= b + 1, b <= Len(t), b <= Len(u), \A i \in a .. b : t[i] = u[i]
    PROVE  SubSeq(t, a, b) = SubSeq(u, a, b)
  BY PartSame DEF Pages

LEMMA FlattenPartOne ==
    ASSUME NEW t \in Words, NEW a \in 1 .. Len(t)
    PROVE  FlattenSeq(SubSeq(t, a, a)) = t[a]
<1>1. /\ SubSeq(t, a, a) \in Words /\ Len(SubSeq(t, a, a)) = a - a + 1
      /\ \A i \in 1 .. a - a + 1 : SubSeq(t, a, a)[i] = t[a + i - 1]
  BY WordsPart
<1>2. Len(SubSeq(t, a, a)) = 1 /\ SubSeq(t, a, a)[1] = t[a]
  BY <1>1
<1> QED
  BY <1>1, <1>2, FlattenOne DEF Words

LEMMA FlattenPartMore ==
    ASSUME NEW t \in Words, NEW a \in 1 .. Len(t), NEW b \in a .. Len(t) - 1
    PROVE  FlattenSeq(SubSeq(t, a, b + 1)) = FlattenSeq(SubSeq(t, a, b)) \o t[b + 1]
<1> DEFINE u == SubSeq(t, a, b)
           x == SubSeq(t, a, b + 1)
<1>0. /\ Len(t) \in Nat /\ a \in Nat \ {0} /\ b \in Nat /\ b + 1 \in Nat /\ a <= b + 1
      /\ a <= (b + 1) + 1 /\ b <= Len(t) /\ b + 1 <= Len(t)
  BY DEF Words
<1>1. /\ u \in Words /\ Len(u) = b - a + 1
      /\ \A i \in 1 .. b - a + 1 : u[i] = t[a + i - 1]
  BY <1>0, WordsPart
<1>2. /\ x \in Words /\ Len(x) = (b + 1) - a + 1
      /\ \A i \in 1 .. (b + 1) - a + 1 : x[i] = t[a + i - 1]
  BY <1>0, WordsPart
<1> HIDE DEF u, x
<1>3. Len(u) > 0 /\ Len(x) = Len(u) + 1 /\ a + (Len(u) + 1) - 1 = b + 1
  BY <1>1, <1>2
<1>4. \A i \in 1 .. Len(u) : x[i] = u[i]
  BY <1>1, <1>2
<1>5. x[Len(u) + 1] = t[b + 1]
  BY <1>1, <1>2, <1>3
<1>6. FlattenSeq(x) = FlattenSeq(u) \o x[Len(u) + 1]
  BY ONLY <1>1, <1>2, <1>3, <1>4, FlattenLonger DEF Words
<1> QED
  BY <1>5, <1>6 DEF u, x

LEMMA FlattenPartType ==
    ASSUME NEW t \in Words, NEW a \in Nat \ {0}, NEW b \in Nat, a <= b + 1, b <= Len(t)
    PROVE  FlattenSeq(SubSeq(t, a, b)) \in Seq(Cell)
<1>1. SubSeq(t, a, b) \in Words
  BY WordsPart
<1> QED
  BY <1>1, FlattenType DEF Words

(* What the cuts say, and what a run holds. *)
LEMMA CutsSay ==
    ASSUME NEW n, NEW c, NEW p, Cuts(n, c, p)
    PROVE  /\ n \in Nat /\ c \in [1 .. n + 1 -> Nat]
           /\ c[1] = 1 /\ c[n + 1] = Len(p) + 1
           /\ \A j, k \in 1 .. n + 1 : j < k => c[j] < c[k]
           /\ \A k \in 1 .. Len(p) : Begins(p, k) <=> \E r \in 1 .. n : c[r] = k
  BY Zenon DEF Cuts

LEMMA HoldsSay ==
    ASSUME NEW n, NEW c, NEW p, NEW t, NEW w, HoldsBy(n, c, p, t, w)
    PROVE  /\ Cuts(n, c, p) /\ t \in Words /\ Len(t) = Len(p)
           /\ w \in Words /\ Len(w) = n
           /\ \A r \in 1 .. n : w[r] = FlattenSeq(SubSeq(t, c[r], c[r + 1] - 1))
  BY Zenon DEF HoldsBy

(* Only the flags of the pages matter. *)
LEMMA HoldsFlags ==
    ASSUME NEW p \in Pages, NEW s \in Pages, Len(s) = Len(p),
           \A k \in 1 .. Len(p) : s[k].flag = p[k].flag, NEW t, NEW w, Holds(p, t, w)
    PROVE  Holds(s, t, w)
<1>1. PICK n, c : HoldsBy(n, c, p, t, w)
  BY DEF Holds
<1>2. Len(p) \in Nat
  BY DEF Pages
<1>3. ASSUME NEW k \in 1 .. Len(p) PROVE Begins(p, k) <=> Begins(s, k)
  <2>1. k = 1 \/ k - 1 \in 1 .. Len(p)
    BY <1>2
  <2> QED
    BY <2>1 DEF Begins
<1>4. Cuts(n, c, s)
  <2>1. Cuts(n, c, p)
    BY <1>1, HoldsSay
  <2> QED
    BY <1>3, <2>1, CutsSay DEF Cuts
<1>5. HoldsBy(n, c, s, t, w)
  BY <1>1, <1>4, HoldsSay DEF HoldsBy
<1> QED
  BY <1>5 DEF Holds

(* A page with another flag begins a run. *)
LEMMA HoldsNew ==
    ASSUME NEW p \in Pages, NEW t, NEW w, Holds(p, t, w), NEW e \in Pager!Page,
           p = <<>> \/ p[Len(p)].flag # e.flag, NEW s \in Seq(Cell)
    PROVE  Holds(Append(p, e), Append(t, s), Append(w, s))
<1>1. PICK n, c : HoldsBy(n, c, p, t, w)
  BY DEF Holds
<1>2. /\ Cuts(n, c, p) /\ t \in Words /\ Len(t) = Len(p) /\ w \in Words /\ Len(w) = n
      /\ \A r \in 1 .. n : w[r] = FlattenSeq(SubSeq(t, c[r], c[r + 1] - 1))
  BY <1>1, HoldsSay
<1>3. /\ n \in Nat /\ c \in [1 .. n + 1 -> Nat] /\ c[1] = 1 /\ c[n + 1] = Len(p) + 1
      /\ \A j, k \in 1 .. n + 1 : j < k => c[j] < c[k]
      /\ \A k \in 1 .. Len(p) : Begins(p, k) <=> \E r \in 1 .. n : c[r] = k
  BY <1>2, CutsSay
<1>4. /\ Len(p) \in Nat /\ \A r \in 1 .. n + 1 : c[r] \in 1 .. Len(p) + 1
      /\ \A r \in 1 .. n : c[r] \in 1 .. Len(p) /\ c[r] < c[r + 1]
                             /\ r \in 1 .. n + 1 /\ r + 1 \in 1 .. n + 1
  BY <1>2, CutBounds
<1> DEFINE d == [k \in 1 .. n + 2 |-> IF k = n + 2 THEN Len(p) + 2 ELSE c[k]]
           pp == Append(p, e)
           tt == Append(t, s)
           ww == Append(w, s)
<1>5. /\ pp \in Pages /\ Len(pp) = Len(p) + 1 /\ pp[Len(p) + 1] = e
      /\ \A k \in 1 .. Len(p) : pp[k] = p[k]
  BY DEF Pages
<1>6. /\ tt \in Words /\ Len(tt) = Len(p) + 1 /\ tt[Len(p) + 1] = s
      /\ \A k \in 1 .. Len(p) : tt[k] = t[k]
  BY <1>2 DEF Words
<1>7. /\ ww \in Words /\ Len(ww) = n + 1 /\ ww[n + 1] = s
      /\ \A k \in 1 .. n : ww[k] = w[k]
  BY <1>2 DEF Words
<1>8. /\ d[n + 2] = Len(p) + 2 /\ \A k \in 1 .. n + 1 : d[k] = c[k]
  BY <1>3
<1>9. d \in [1 .. (n + 1) + 1 -> Nat]
  BY <1>3, <1>4
<1> HIDE DEF d, pp, tt, ww
<1>10. Cuts(n + 1, d, pp)
  <2>1. n + 1 \in Nat /\ d[1] = 1 /\ d[(n + 1) + 1] = Len(pp) + 1
    BY <1>3, <1>4, <1>5, <1>8
  <2>2. ASSUME NEW j \in 1 .. (n + 1) + 1, NEW k \in 1 .. (n + 1) + 1, j < k
        PROVE  d[j] < d[k]
    <3>1. j \in 1 .. n + 1
      BY <1>3, <2>2
    <3>2. CASE k = n + 2
      BY <1>4, <1>8, <3>1, <3>2
    <3>3. CASE k # n + 2
      <4>1. k \in 1 .. n + 1
        BY <1>3, <3>3
      <4> QED
        BY <1>3, <1>8, <2>2, <3>1, <4>1
    <3> QED
      BY <3>2, <3>3
  <2>3. ASSUME NEW k \in 1 .. Len(pp)
        PROVE  Begins(pp, k) <=> \E r \in 1 .. n + 1 : d[r] = k
    <3>1. CASE k = Len(p) + 1
      <4>1. Begins(pp, k)
        <5>1. p = <<>> => k = 1
          BY <3>1
        <5>2. p # <<>> => Len(p) \in 1 .. Len(p)
          BY DEF Pages
        <5> QED
          BY <1>4, <1>5, <3>1, <5>1, <5>2 DEF Begins
      <4>2. n + 1 \in 1 .. n + 1 /\ d[n + 1] = k
        BY <1>3, <1>8, <3>1
      <4> QED
        BY <4>1, <4>2
    <3>2. CASE k # Len(p) + 1
      <4>1. k \in 1 .. Len(p) /\ (k = 1 \/ k - 1 \in 1 .. Len(p))
        BY <1>4, <1>5, <3>2
      <4>2. Begins(pp, k) <=> Begins(p, k)
        BY <1>5, <4>1 DEF Begins
      <4>3. (\E r \in 1 .. n + 1 : d[r] = k) <=> \E r \in 1 .. n : c[r] = k
        <5>1. d[n + 1] # k
          BY <1>3, <1>8, <3>2
        <5>2. \A r \in 1 .. n + 1 : r = n + 1 \/ r \in 1 .. n
          BY <1>3
        <5> QED
          BY <1>4, <1>8, <5>1, <5>2
      <4> QED
        BY <1>3, <4>1, <4>2, <4>3
    <3> QED
      BY <3>1, <3>2
  <2> QED
    BY <1>9, <2>1, <2>2, <2>3 DEF Cuts
<1>11. ASSUME NEW r \in 1 .. n + 1 PROVE ww[r] = FlattenSeq(SubSeq(tt, d[r], d[r + 1] - 1))
  <2>1. CASE r = n + 1
    <3>1. d[r] = Len(p) + 1 /\ d[r + 1] - 1 = Len(p) + 1
      <4>1. r + 1 = n + 2 /\ n + 1 \in 1 .. n + 1
        BY <1>3, <2>1
      <4> QED
        BY <1>3, <1>4, <1>8, <2>1, <4>1
    <3>2. Len(p) + 1 \in 1 .. Len(tt)
      BY <1>4, <1>6
    <3> QED
      BY <1>6, <1>7, <2>1, <3>1, <3>2, FlattenPartOne
  <2>2. CASE r # n + 1
    <3>1. r \in 1 .. n
      BY <1>3, <2>2
    <3>2. /\ d[r] = c[r] /\ d[r + 1] = c[r + 1]
          /\ c[r] \in Nat \ {0} /\ c[r + 1] - 1 \in Nat
          /\ c[r] <= (c[r + 1] - 1) + 1 /\ c[r + 1] - 1 <= Len(p)
      BY <1>4, <1>8, <3>1
    <3>3. \A i \in c[r] .. c[r + 1] - 1 : tt[i] = t[i]
      BY <1>4, <1>6, <3>2
    <3>4. SubSeq(tt, c[r], c[r + 1] - 1) = SubSeq(t, c[r], c[r + 1] - 1)
      <4> DEFINE b == c[r + 1] - 1
      <4>1. b <= Len(t) /\ b <= Len(tt)
        BY <1>2, <1>4, <1>6, <3>2
      <4>2. \A i \in c[r] .. b : tt[i] = t[i]
        BY <3>3
      <4>3. b \in Nat /\ c[r] <= b + 1 /\ c[r] \in Nat \ {0}
        BY <3>2
      <4> HIDE DEF b
      <4>4. SubSeq(tt, c[r], b) = SubSeq(t, c[r], b)
        BY ONLY <1>2, <1>6, <4>1, <4>2, <4>3, WordsSame
      <4> QED
        BY <4>4 DEF b
    <3> QED
      BY <1>2, <1>7, <3>1, <3>2, <3>4
  <2> QED
    BY <2>1, <2>2
<1>12. HoldsBy(n + 1, d, pp, tt, ww)
  BY <1>5, <1>6, <1>7, <1>10, <1>11 DEF HoldsBy
<1> QED
  BY <1>12 DEF Holds, pp, tt, ww

(* A page with the same flag extends the last run. *)
LEMMA HoldsMore ==
    ASSUME NEW p \in Pages, NEW t, NEW w, Holds(p, t, w), NEW e \in Pager!Page,
           p # <<>>, p[Len(p)].flag = e.flag, NEW s \in Seq(Cell)
    PROVE  Holds(Append(p, e), Append(t, s), [w EXCEPT ![Len(w)] = @ \o s])
<1>1. PICK n, c : HoldsBy(n, c, p, t, w)
  BY DEF Holds
<1>2. /\ Cuts(n, c, p) /\ t \in Words /\ Len(t) = Len(p) /\ w \in Words /\ Len(w) = n
      /\ \A r \in 1 .. n : w[r] = FlattenSeq(SubSeq(t, c[r], c[r + 1] - 1))
  BY <1>1, HoldsSay
<1>3. /\ n \in Nat /\ c \in [1 .. n + 1 -> Nat] /\ c[1] = 1 /\ c[n + 1] = Len(p) + 1
      /\ \A j, k \in 1 .. n + 1 : j < k => c[j] < c[k]
      /\ \A k \in 1 .. Len(p) : Begins(p, k) <=> \E r \in 1 .. n : c[r] = k
  BY <1>2, CutsSay
<1>4. /\ Len(p) \in Nat /\ \A r \in 1 .. n + 1 : c[r] \in 1 .. Len(p) + 1
      /\ \A r \in 1 .. n : c[r] \in 1 .. Len(p) /\ c[r] < c[r + 1]
                             /\ r \in 1 .. n + 1 /\ r + 1 \in 1 .. n + 1
  BY <1>2, CutBounds
<1>5. n # 0 /\ n \in 1 .. n /\ Len(p) \in 1 .. Len(p)
  <2>1. n # 0
    BY <1>2, CutsSome
  <2>2. Len(p) # 0
    BY DEF Pages
  <2> QED
    BY <1>3, <1>4, <2>1, <2>2
<1> DEFINE d == [c EXCEPT ![n + 1] = Len(p) + 2]
           pp == Append(p, e)
           tt == Append(t, s)
           ww == [w EXCEPT ![Len(w)] = @ \o s]
<1>6. /\ pp \in Pages /\ Len(pp) = Len(p) + 1 /\ pp[Len(p) + 1] = e
      /\ \A k \in 1 .. Len(p) : pp[k] = p[k]
  BY DEF Pages
<1>7. /\ tt \in Words /\ Len(tt) = Len(p) + 1 /\ tt[Len(p) + 1] = s
      /\ \A k \in 1 .. Len(p) : tt[k] = t[k]
  BY <1>2 DEF Words
<1>8. w[n] \in Seq(Cell) /\ w[n] \o s \in Seq(Cell)
  BY <1>2, <1>5 DEF Words
<1>9. /\ ww \in Words /\ Len(ww) = n /\ ww[n] = w[n] \o s
      /\ \A k \in 1 .. n : k # n => ww[k] = w[k]
  <2> DEFINE x == w[n] \o s
  <2>1. x \in Seq(Cell) /\ ww = [w EXCEPT ![n] = x]
    BY <1>2, <1>8
  <2> HIDE DEF x
  <2>2. /\ [w EXCEPT ![n] = x] \in Words /\ Len([w EXCEPT ![n] = x]) = n
        /\ [w EXCEPT ![n] = x][n] = x
        /\ \A k \in 1 .. n : k # n => [w EXCEPT ![n] = x][k] = w[k]
    BY <1>2, <1>5, <2>1 DEF Words
  <2>3. x = w[n] \o s
    BY DEF x
  <2> QED
    BY <2>1, <2>2, <2>3
<1>10. d[n + 1] = Len(p) + 2 /\ \A k \in 1 .. n : d[k] = c[k]
  BY <1>3, <1>4
<1>11. d \in [1 .. n + 1 -> Nat]
  BY <1>3, <1>4
<1> HIDE DEF d, pp, tt, ww
<1>12. Cuts(n, d, pp)
  <2>1. n \in Nat /\ d[1] = 1 /\ d[n + 1] = Len(pp) + 1
    BY <1>3, <1>4, <1>5, <1>6, <1>10
  <2>2. ASSUME NEW j \in 1 .. n + 1, NEW k \in 1 .. n + 1, j < k
        PROVE  d[j] < d[k]
    <3>1. j \in 1 .. n /\ j \in 1 .. n + 1
      BY <1>3, <2>2
    <3>2. CASE k = n + 1
      BY <1>4, <1>10, <3>1, <3>2
    <3>3. CASE k # n + 1
      <4>1. k \in 1 .. n
        BY <1>3, <3>3
      <4> QED
        BY <1>3, <1>10, <2>2, <3>1, <4>1
    <3> QED
      BY <3>2, <3>3
  <2>3. ASSUME NEW k \in 1 .. Len(pp)
        PROVE  Begins(pp, k) <=> \E r \in 1 .. n : d[r] = k
    <3>1. CASE k = Len(p) + 1
      <4>1. ~Begins(pp, k)
        BY <1>4, <1>5, <1>6, <3>1 DEF Begins
      <4>2. \A r \in 1 .. n : d[r] # k
        BY <1>4, <1>10, <3>1
      <4> QED
        BY <4>1, <4>2
    <3>2. CASE k # Len(p) + 1
      <4>1. k \in 1 .. Len(p) /\ (k = 1 \/ k - 1 \in 1 .. Len(p))
        BY <1>4, <1>6, <3>2
      <4>2. Begins(pp, k) <=> Begins(p, k)
        BY <1>6, <4>1 DEF Begins
      <4>3. (\E r \in 1 .. n : d[r] = k) <=> \E r \in 1 .. n : c[r] = k
        BY <1>10
      <4> QED
        BY <1>3, <4>1, <4>2, <4>3
    <3> QED
      BY <3>1, <3>2
  <2> QED
    BY <1>11, <2>1, <2>2, <2>3 DEF Cuts
<1>13. ASSUME NEW r \in 1 .. n PROVE ww[r] = FlattenSeq(SubSeq(tt, d[r], d[r + 1] - 1))
  <2> DEFINE b == c[r + 1] - 1
  <2>1. /\ c[r] \in 1 .. Len(p) /\ b \in Nat /\ c[r] <= b /\ b <= Len(p) /\ d[r] = c[r]
        /\ c[r] \in Nat \ {0} /\ c[r] <= b + 1
    BY <1>4, <1>10
  <2>2. b <= Len(t) /\ b <= Len(tt) /\ \A i \in c[r] .. b : tt[i] = t[i]
    <3>1. b <= Len(t) /\ b <= Len(tt)
      BY <1>2, <1>4, <1>7, <2>1
    <3>2. \A i \in c[r] .. b : i \in 1 .. Len(p)
      BY <1>4, <2>1, SMTT(30)
    <3> QED
      BY <1>7, <3>1, <3>2
  <2>3. w[r] = FlattenSeq(SubSeq(t, c[r], b))
    BY <1>2
  <2> HIDE DEF b
  <2>4. SubSeq(tt, c[r], b) = SubSeq(t, c[r], b)
    BY ONLY <1>2, <1>7, <2>1, <2>2, WordsSame
  <2>5. CASE r = n
    <3>1. b = Len(p) /\ d[r + 1] - 1 = b + 1
      BY <1>3, <1>4, <1>10, <2>5 DEF b
    <3>2. c[r] \in 1 .. Len(tt) /\ b \in c[r] .. Len(tt) - 1
      BY <1>4, <1>7, <2>1, <3>1
    <3>3. FlattenSeq(SubSeq(tt, c[r], b + 1)) = FlattenSeq(SubSeq(tt, c[r], b)) \o tt[b + 1]
      BY ONLY <1>7, <3>2, FlattenPartMore
    <3>4. FlattenSeq(SubSeq(tt, c[r], b + 1)) = w[n] \o s
      BY <1>7, <2>3, <2>4, <2>5, <3>1, <3>3
    <3> QED
      BY <1>9, <2>1, <2>5, <3>1, <3>4
  <2>6. CASE r # n
    <3>1. r + 1 \in 1 .. n
      BY <1>3, <2>6
    <3>2. d[r + 1] - 1 = b
      BY <1>10, <3>1 DEF b
    <3> QED
      BY <1>9, <2>1, <2>3, <2>4, <2>6, <3>2
  <2> QED
    BY <2>5, <2>6
<1>14. HoldsBy(n, d, pp, tt, ww)
  BY <1>6, <1>7, <1>9, <1>12, <1>13 DEF HoldsBy
<1> QED
  BY <1>14 DEF Holds, pp, tt, ww

(* The last page grows. *)
LEMMA HoldsGrown ==
    ASSUME NEW p \in Pages, NEW t, NEW w, Holds(p, t, w), p # <<>>, NEW s \in Seq(Cell)
    PROVE  Holds(p, [t EXCEPT ![Len(p)] = @ \o s], [w EXCEPT ![Len(w)] = @ \o s])
<1>1. PICK n, c : HoldsBy(n, c, p, t, w)
  BY DEF Holds
<1>2. /\ Cuts(n, c, p) /\ t \in Words /\ Len(t) = Len(p) /\ w \in Words /\ Len(w) = n
      /\ \A r \in 1 .. n : w[r] = FlattenSeq(SubSeq(t, c[r], c[r + 1] - 1))
  BY <1>1, HoldsSay
<1>3. /\ n \in Nat /\ c[n + 1] = Len(p) + 1
      /\ \A j, k \in 1 .. n + 1 : j < k => c[j] < c[k]
  BY <1>2, CutsSay
<1>4. /\ Len(p) \in Nat /\ \A r \in 1 .. n + 1 : c[r] \in 1 .. Len(p) + 1
      /\ \A r \in 1 .. n : c[r] \in 1 .. Len(p) /\ c[r] < c[r + 1]
                             /\ r \in 1 .. n + 1 /\ r + 1 \in 1 .. n + 1
  BY <1>2, CutBounds
<1>5. n # 0 /\ n \in 1 .. n /\ Len(p) \in 1 .. Len(p)
  <2>1. n # 0
    BY <1>2, CutsSome
  <2>2. Len(p) # 0
    BY DEF Pages
  <2> QED
    BY <1>3, <1>4, <2>1, <2>2
<1> DEFINE N == Len(p)
           tt == [t EXCEPT ![N] = @ \o s]
           ww == [w EXCEPT ![Len(w)] = @ \o s]
<1>6. /\ tt \in Words /\ Len(tt) = Len(p) /\ tt[N] = t[N] \o s
      /\ \A k \in 1 .. Len(p) : k # N => tt[k] = t[k]
  <2> DEFINE x == t[N] \o s
  <2>1. x \in Seq(Cell) /\ tt = [t EXCEPT ![N] = x]
    BY <1>2, <1>5 DEF Words
  <2>2. N \in 1 .. Len(t)
    BY <1>2, <1>5
  <2> HIDE DEF x, N
  <2>3. /\ [t EXCEPT ![N] = x] \in Words /\ Len([t EXCEPT ![N] = x]) = Len(t)
        /\ [t EXCEPT ![N] = x][N] = x
        /\ \A k \in 1 .. Len(t) : k # N => [t EXCEPT ![N] = x][k] = t[k]
    BY <1>2, <2>1, <2>2 DEF Words
  <2>4. x = t[N] \o s
    BY DEF x
  <2> QED
    BY <1>2, <2>1, <2>3, <2>4
<1>7. w[n] \in Seq(Cell)
  BY <1>2, <1>5 DEF Words
<1>8. /\ ww \in Words /\ Len(ww) = n /\ ww[n] = w[n] \o s
      /\ \A k \in 1 .. n : k # n => ww[k] = w[k]
  <2> DEFINE x == w[n] \o s
  <2>1. x \in Seq(Cell) /\ ww = [w EXCEPT ![n] = x]
    BY <1>2, <1>7
  <2> HIDE DEF x
  <2>2. /\ [w EXCEPT ![n] = x] \in Words /\ Len([w EXCEPT ![n] = x]) = n
        /\ [w EXCEPT ![n] = x][n] = x
        /\ \A k \in 1 .. n : k # n => [w EXCEPT ![n] = x][k] = w[k]
    BY <1>2, <1>5, <2>1 DEF Words
  <2>3. x = w[n] \o s
    BY DEF x
  <2> QED
    BY <2>1, <2>2, <2>3
<1>9. N = Len(p)
  OBVIOUS
<1> HIDE DEF tt, ww, N
<1>10. ASSUME NEW r \in 1 .. n PROVE ww[r] = FlattenSeq(SubSeq(tt, c[r], c[r + 1] - 1))
  <2> DEFINE b == c[r + 1] - 1
  <2>1. /\ c[r] \in 1 .. Len(p) /\ b \in Nat /\ c[r] <= b /\ b <= Len(p)
        /\ c[r] \in Nat \ {0} /\ c[r] <= b + 1
    <3>1. c[r] \in 1 .. Len(p) /\ c[r] < c[r + 1] /\ r + 1 \in 1 .. n + 1 /\ Len(p) \in Nat
      BY <1>4
    <3>2. c[r + 1] \in 1 .. Len(p) + 1
      BY <1>4, <3>1
    <3> QED
      BY ONLY <3>1, <3>2
  <2>2. w[r] = FlattenSeq(SubSeq(t, c[r], b))
    BY <1>2
  <2>3. b = N <=> r = n
    <3>1. r = n => b = N
      BY <1>3, <1>4, <1>9
    <3>2. r # n => r + 1 \in 1 .. n
      BY <1>3
    <3> QED
      BY <1>4, <1>9, <3>1, <3>2
  <2> HIDE DEF b
  <2>4. CASE r = n
    <3>1. b = N /\ b \in Nat /\ c[r] \in 1 .. b /\ b \in 1 .. Len(t) /\ b \in 1 .. Len(tt)
      BY <1>2, <1>4, <1>5, <1>6, <1>9, <2>1, <2>3, <2>4
    <3>2. CASE c[r] = b
      <4>1. FlattenSeq(SubSeq(t, b, b)) = t[b] /\ FlattenSeq(SubSeq(tt, b, b)) = tt[b]
        BY ONLY <1>2, <1>6, <3>1, FlattenPartOne
      <4>2. FlattenSeq(SubSeq(tt, b, b)) = w[n] \o s
        BY <1>6, <2>2, <2>4, <3>1, <3>2, <4>1
      <4> QED
        BY <1>8, <2>4, <3>2, <4>2 DEF b
    <3>3. CASE c[r] # b
      <4> DEFINE a == b - 1
      <4>1. /\ a \in Nat /\ a + 1 = b /\ c[r] <= a + 1 /\ a <= Len(t) /\ a <= Len(tt)
            /\ c[r] \in 1 .. Len(t) /\ c[r] \in 1 .. Len(tt)
            /\ a \in c[r] .. Len(t) - 1 /\ a \in c[r] .. Len(tt) - 1
            /\ \A i \in c[r] .. a : i \in 1 .. Len(p) /\ i # N
        BY <1>2, <1>4, <1>6, <1>9, <3>1, <3>3, SMTT(30)
      <4>2. \A i \in c[r] .. a : tt[i] = t[i]
        BY <1>6, <4>1
      <4> HIDE DEF a
      <4>3. SubSeq(tt, c[r], a) = SubSeq(t, c[r], a)
        BY ONLY <1>2, <1>6, <2>1, <4>1, <4>2, WordsSame, ZenonT(40)
      <4>4. FlattenSeq(SubSeq(t, c[r], a + 1)) = FlattenSeq(SubSeq(t, c[r], a)) \o t[a + 1]
        BY ONLY <1>2, <4>1, FlattenPartMore
      <4>5. FlattenSeq(SubSeq(tt, c[r], a + 1)) = FlattenSeq(SubSeq(tt, c[r], a)) \o tt[a + 1]
        BY ONLY <1>6, <4>1, FlattenPartMore
      <4> DEFINE x == FlattenSeq(SubSeq(t, c[r], a))
      <4>6. x \in Seq(Cell) /\ t[b] \in Seq(Cell)
        <5>1. x \in Seq(Cell)
          BY ONLY <1>2, <2>1, <4>1, FlattenPartType
        <5> QED
          BY <1>2, <3>1, <5>1 DEF Words
      <4>7. w[n] = x \o t[b] /\ FlattenSeq(SubSeq(tt, c[r], b)) = x \o (t[b] \o s)
        BY <1>6, <2>2, <2>4, <3>1, <4>1, <4>3, <4>4, <4>5
      <4> HIDE DEF x
      <4> DEFINE y == t[b]
      <4>8. y \in Seq(Cell) /\ w[n] = x \o y
              /\ FlattenSeq(SubSeq(tt, c[r], b)) = x \o (y \o s)
        BY <4>6, <4>7
      <4> HIDE DEF y
      <4>9. (x \o y) \o s = x \o (y \o s)
        BY ONLY <4>6, <4>8, s \in Seq(Cell), ConcatAssociative, SMTT(30)
      <4>10. FlattenSeq(SubSeq(tt, c[r], b)) = ww[r]
        BY <1>8, <2>4, <4>8, <4>9
      <4> QED
        BY <4>10 DEF b
    <3> QED
      BY <3>2, <3>3
  <2>5. CASE r # n
    <3>1. b # N /\ \A i \in c[r] .. b : i \in 1 .. Len(p) /\ i # N
      BY <1>4, <1>9, <2>1, <2>3, <2>5
    <3>2. \A i \in c[r] .. b : tt[i] = t[i]
      BY <1>6, <3>1
    <3>3. b <= Len(t) /\ b <= Len(tt)
      BY <1>2, <1>6, <2>1
    <3>4. SubSeq(tt, c[r], b) = SubSeq(t, c[r], b)
      BY ONLY <1>2, <1>6, <2>1, <3>2, <3>3, WordsSame
    <3>5. ww[r] = FlattenSeq(SubSeq(tt, c[r], b))
      BY <1>8, <2>2, <2>5, <3>4
    <3> QED
      BY <3>5 DEF b
  <2> QED
    BY <2>4, <2>5
<1>11. HoldsBy(n, c, p, tt, ww)
  BY <1>2, <1>6, <1>8, <1>10 DEF HoldsBy
<1> QED
  BY <1>9, <1>11 DEF Holds, tt, ww, N

(* The list from the rth run on. *)
LEMMA CutsFrom ==
    ASSUME NEW n, NEW c, NEW p \in Pages, Cuts(n, c, p), NEW r \in 1 .. n + 1
    PROVE  Cuts(n - r + 1, [k \in 1 .. n - r + 2 |-> c[k + r - 1] - c[r] + 1],
                SubSeq(p, c[r], Len(p)))
<1>1. /\ n \in Nat /\ c \in [1 .. n + 1 -> Nat] /\ c[1] = 1 /\ c[n + 1] = Len(p) + 1
      /\ \A j, k \in 1 .. n + 1 : j < k => c[j] < c[k]
      /\ \A k \in 1 .. Len(p) : Begins(p, k) <=> \E j \in 1 .. n : c[j] = k
  BY CutsSay
<1>2. /\ Len(p) \in Nat /\ \A j \in 1 .. n + 1 : c[j] \in 1 .. Len(p) + 1
      /\ \A j \in 1 .. n : c[j] \in 1 .. Len(p) /\ c[j] < c[j + 1]
  BY CutBounds
<1> DEFINE a == c[r]
           s == SubSeq(p, a, Len(p))
           d == [k \in 1 .. n - r + 2 |-> c[k + r - 1] - c[r] + 1]
<1>3. a \in 1 .. Len(p) + 1 /\ r \in Nat /\ a = c[r] /\ n - r + 1 \in Nat
  BY <1>1, <1>2
<1>4. \A k \in 1 .. n - r + 2 : k + r - 1 \in 1 .. n + 1 /\ d[k] = c[k + r - 1] - a + 1
  BY <1>1
<1>5. \A k \in 1 .. n - r + 2 : a <= c[k + r - 1]
  <2> SUFFICES ASSUME NEW k \in 1 .. n - r + 2 PROVE a <= c[k + r - 1]
    OBVIOUS
  <2>1. k = 1 \/ r < k + r - 1
    BY <1>1
  <2>2. k = 1 => k + r - 1 = r
    BY <1>1
  <2> QED
    BY <1>1, <1>2, <1>3, <1>4, <2>1, <2>2
<1>6. d \in [1 .. (n - r + 1) + 1 -> Nat]
  <2>1. \A k \in 1 .. n - r + 2 : c[k + r - 1] - a + 1 \in Nat
    BY <1>2, <1>3, <1>4, <1>5
  <2>2. \A k \in 1 .. n - r + 2 : d[k] \in Nat
    BY <1>4, <2>1
  <2>3. (n - r + 1) + 1 = n - r + 2
    BY <1>1
  <2>4. d = [k \in 1 .. n - r + 2 |-> d[k]]
    OBVIOUS
  <2> HIDE DEF d
  <2> QED
    BY ONLY <2>2, <2>3, <2>4
<1>7. /\ s \in Pages /\ Len(s) = Len(p) - a + 1
      /\ \A i \in 1 .. Len(p) - a + 1 : s[i] = p[a + i - 1] /\ a + i - 1 \in a .. Len(p)
  <2> HIDE DEF a
  <2>1. a \in Nat \ {0} /\ a <= Len(p) + 1 /\ Len(p) <= Len(p) /\ Len(p) \in Nat
    BY <1>2, <1>3
  <2> QED
    BY <2>1, PagesPart
<1> HIDE DEF a, s, d
<1>8. d[1] = 1 /\ d[(n - r + 1) + 1] = Len(s) + 1
  <2>1. /\ 1 \in 1 .. n - r + 2 /\ 1 + r - 1 = r
        /\ n - r + 2 \in 1 .. n - r + 2 /\ n - r + 2 + r - 1 = n + 1
        /\ (n - r + 1) + 1 = n - r + 2
    BY <1>1
  <2>2. d[1] = c[r] - a + 1 /\ d[n - r + 2] = c[n + 1] - a + 1
    BY <1>4, <2>1
  <2> QED
    BY <1>1, <1>2, <1>3, <1>7, <2>1, <2>2
<1>9. ASSUME NEW j \in 1 .. n - r + 2, NEW k \in 1 .. n - r + 2, j < k PROVE d[j] < d[k]
  <2>1. j + r - 1 < k + r - 1 /\ j + r - 1 \in 1 .. n + 1 /\ k + r - 1 \in 1 .. n + 1
    BY <1>3, <1>4, <1>9
  <2>2. c[j + r - 1] < c[k + r - 1] /\ c[j + r - 1] \in Nat /\ c[k + r - 1] \in Nat
    BY <1>1, <2>1
  <2> QED
    BY <1>3, <1>4, <2>2, SMTT(30)
<1>10. ASSUME NEW k \in 1 .. Len(s)
       PROVE  Begins(s, k) <=> \E j \in 1 .. n - r + 1 : d[j] = k
  <2>1. CASE k = 1
    <3>1. 1 \in 1 .. n - r + 1
      <4>1. r # n + 1
        <5>1. r = n + 1 => a = Len(p) + 1
          BY <1>1, <1>3
        <5>2. Len(s) \in Nat \ {0}
          BY <1>7 DEF Pages
        <5> QED
          BY <1>2, <1>3, <1>7, <5>1, <5>2
      <4> QED
        BY <1>1, <4>1
    <3> QED
      BY <1>8, <2>1, <3>1 DEF Begins
  <2>2. CASE k # 1
    <3> DEFINE b == a + k - 1
    <3>1. /\ b \in 1 .. Len(p) /\ b # 1 /\ b - 1 = a + (k - 1) - 1 /\ b > a
          /\ k - 1 \in 1 .. Len(p) - a + 1 /\ k \in 1 .. Len(p) - a + 1
      BY <1>2, <1>3, <1>7, <2>2, SMTT(30)
    <3>2. s[k] = p[b] /\ s[k - 1] = p[b - 1]
      BY <1>7, <3>1
    <3>3. Begins(s, k) <=> Begins(p, b)
      BY <2>2, <3>1, <3>2 DEF Begins
    <3>4. b = a + k - 1
      OBVIOUS
    <3> HIDE DEF b
    <3>5. ASSUME NEW j \in 1 .. n, c[j] = b PROVE \E i \in 1 .. n - r + 1 : d[i] = k
      <4>1. r < j
        <5>1. j \in 1 .. n + 1 /\ (j < r => c[j] < c[r]) /\ (j = r => c[j] = c[r])
          BY <1>1
        <5>2. ~(j < r) /\ j # r
          BY <1>2, <1>3, <3>1, <3>5, <5>1
        <5> QED
          BY <1>3, <5>2
      <4>2. j - r + 1 \in 1 .. n - r + 1 /\ j - r + 1 \in 1 .. n - r + 2
              /\ (j - r + 1) + r - 1 = j
        BY <1>1, <1>3, <4>1
      <4>3. d[j - r + 1] = k
        BY <1>3, <1>4, <3>4, <3>5, <4>2
      <4> QED
        BY <4>2, <4>3
    <3>6. ASSUME NEW i \in 1 .. n - r + 1, d[i] = k PROVE \E j \in 1 .. n : c[j] = b
      <4>1. i \in 1 .. n - r + 2 /\ i + r - 1 \in 1 .. n
        BY <1>1, <1>3
      <4>2. d[i] = c[i + r - 1] - a + 1 /\ c[i + r - 1] \in Nat
        BY <1>2, <1>4, <4>1
      <4>3. c[i + r - 1] = b
        BY <1>3, <3>4, <3>6, <4>2, SMTT(30)
      <4> QED
        BY <4>1, <4>3
    <3> QED
      BY <1>1, <3>1, <3>3, <3>5, <3>6
  <2> QED
    BY <2>1, <2>2
<1>11. Cuts(n - r + 1, d, s)
  <2>1. (n - r + 1) + 1 = n - r + 2
    BY <1>1
  <2> QED
    BY <1>3, <1>6, <1>8, <1>9, <1>10, <2>1 DEF Cuts
<1> QED
  BY <1>11 DEF d, s, a

(* Without the first run. *)
LEMMA HoldsPopped ==
    ASSUME NEW p \in Pages, NEW t, NEW w, Holds(p, t, w), p # <<>>
    PROVE  /\ Pager!FrontLen(p) \in 1 .. Len(p)
           /\ Holds(SubSeq(p, Pager!FrontLen(p) + 1, Len(p)),
                    SubSeq(t, Pager!FrontLen(p) + 1, Len(p)), Tail(w))
           /\ w # <<>>
<1>1. PICK n, c : HoldsBy(n, c, p, t, w)
  BY DEF Holds
<1>2. /\ Cuts(n, c, p) /\ t \in Words /\ Len(t) = Len(p) /\ w \in Words /\ Len(w) = n
      /\ \A r \in 1 .. n : w[r] = FlattenSeq(SubSeq(t, c[r], c[r + 1] - 1))
  BY <1>1, HoldsSay
<1>3. n \in Nat /\ n # 0
  BY <1>2, CutsSay, CutsSome
<1>4. Pager!FrontLen(p) = c[2] - 1 /\ c[2] \in 2 .. Len(p) + 1
  BY <1>2, <1>3, FrontLenIs
<1> DEFINE a == c[2]
           d == [k \in 1 .. n - 2 + 2 |-> c[k + 2 - 1] - a + 1]
           s == SubSeq(p, a, Len(p))
           u == SubSeq(t, a, Len(p))
           x == Tail(w)
<1>5. Cuts(n - 2 + 1, d, s)
  <2>1. 2 \in 1 .. n + 1
    BY <1>3
  <2> QED
    BY <1>2, <2>1, CutsFrom
<1>6. /\ Len(p) \in Nat /\ \A j \in 1 .. n + 1 : c[j] \in 1 .. Len(p) + 1
      /\ \A j \in 1 .. n : c[j] \in 1 .. Len(p) /\ c[j] < c[j + 1]
  BY <1>2, CutBounds
<1>7. a \in Nat \ {0} /\ a <= Len(p) + 1 /\ a = c[2] /\ a - 1 \in Nat /\ a - 1 <= Len(p)
  BY <1>4, <1>6
<1>8. u \in Words /\ Len(u) = Len(p) - a + 1
  <2> HIDE DEF a
  <2> QED
    BY <1>2, <1>6, <1>7, WordsPart
<1>9. Len(s) = Len(p) - a + 1
  <2> HIDE DEF a
  <2> QED
    BY <1>6, <1>7, PagesPart
<1>10. /\ x \in Words /\ Len(x) = n - 2 + 1 /\ w # <<>>
       /\ \A k \in 1 .. n - 2 + 1 : x[k] = w[k + 1]
  BY <1>2, <1>3 DEF Words
<1>11. \A k \in 1 .. n : d[k] = c[k + 1] - a + 1
  <2> SUFFICES ASSUME NEW k \in 1 .. n PROVE d[k] = c[k + 1] - a + 1
    OBVIOUS
  <2>1. k \in 1 .. n - 2 + 2 /\ k + 2 - 1 = k + 1
    BY <1>3
  <2> QED
    BY <2>1
<1> HIDE DEF d, s, u, x, a
<1>12. ASSUME NEW k \in 1 .. n - 2 + 1
       PROVE  x[k] = FlattenSeq(SubSeq(u, d[k], d[k + 1] - 1))
  <2> DEFINE i == c[k + 1] - a + 1
             j == c[k + 2] - a
             m == a - 1
  <2>1. k \in 1 .. n /\ k + 1 \in 1 .. n /\ k + 2 \in 1 .. n + 1 /\ (k + 1) + 1 = k + 2
    BY <1>3
  <2>2. c[k + 1] >= a
    <3>1. k + 1 \in 1 .. n + 1 /\ 2 \in 1 .. n + 1 /\ (k + 1 = 2 \/ 2 < k + 1)
      BY <1>3
    <3>2. c[k + 1] = c[2] \/ c[2] < c[k + 1]
      BY <1>2, <3>1, CutsSay
    <3> QED
      BY <1>6, <1>7, <3>1, <3>2
  <2>3. /\ i \in Nat \ {0} /\ j \in Nat /\ i <= j + 1 /\ m \in Nat /\ m + j <= Len(t)
        /\ m <= Len(t) /\ m + i = c[k + 1] /\ m + j = c[k + 2] - 1 /\ m + 1 = a
    <3>1. /\ c[k + 1] \in Nat /\ c[k + 2] \in Nat /\ c[k + 1] < c[k + 2] /\ c[k + 2] <= Len(p) + 1
          /\ Len(p) \in Nat /\ Len(t) = Len(p)
      BY <1>2, <1>6, <2>1, SMTT(30)
    <3> DEFINE y == c[k + 1]
               z == c[k + 2]
    <3>2. /\ y \in Nat /\ z \in Nat /\ y < z /\ z <= Len(p) + 1 /\ y >= a
          /\ i = y - a + 1 /\ j = z - a /\ m = a - 1
      BY <2>2, <3>1
    <3> HIDE DEF y, z, i, j, m
    <3>3. /\ i \in Nat \ {0} /\ j \in Nat /\ i <= j + 1 /\ m \in Nat /\ m + j <= Len(t)
          /\ m <= Len(t) /\ m + i = y /\ m + j = z - 1 /\ m + 1 = a
      <4>1. a \in Nat \ {0} /\ Len(p) \in Nat /\ Len(t) = Len(p)
        BY <1>7, <3>1
      <4>2. i \in Nat \ {0} /\ j \in Nat /\ i <= j + 1 /\ m \in Nat
        BY ONLY <3>2, <4>1
      <4>3. m + i = y /\ m + j = z - 1 /\ m + 1 = a
        BY ONLY <3>2, <4>1
      <4>4. m + j <= Len(t) /\ m <= Len(t)
        BY ONLY <3>2, <4>1, <4>2, <4>3
      <4> QED
        BY ONLY <4>2, <4>3, <4>4
    <3> QED
      BY <3>3 DEF y, z
  <2>4. d[k] = i /\ d[k + 1] - 1 = j
    <3>1. d[k] = i
      BY <1>11, <2>1
    <3>2. d[k + 1] = c[k + 2] - a + 1
      BY <1>11, <2>1
    <3> QED
      BY <1>6, <1>7, <2>1, <3>1, <3>2, SMTT(30)
  <2> HIDE DEF i, j, m
  <2>5. SubSeq(SubSeq(t, m + 1, Len(t)), i, j) = SubSeq(t, m + i, m + j)
    BY ONLY <1>2, <2>3, PartOfPart DEF Words
  <2>6. SubSeq(u, d[k], d[k + 1] - 1) = SubSeq(t, c[k + 1], c[k + 2] - 1)
    BY <1>2, <2>3, <2>4, <2>5 DEF u
  <2> QED
    BY <1>2, <1>10, <2>1, <2>6
<1>13. HoldsBy(n - 2 + 1, d, s, u, x)
  BY <1>5, <1>8, <1>9, <1>10, <1>12 DEF HoldsBy
<1>14. Holds(s, u, x)
  BY <1>13 DEF Holds
<1>15. Pager!FrontLen(p) + 1 = a /\ Pager!FrontLen(p) \in 1 .. Len(p)
  BY <1>4, <1>6, <1>7
<1> QED
  BY <1>10, <1>14, <1>15 DEF s, u, x

(* Without the last page. *)
Found(v, w, k) ==
    /\ v \in Words /\ w \in Words
    /\ Len(v) <= Len(w) /\ Len(w) <= Len(v) + k
    /\ \A r \in 1 .. Len(v) :
         \/ r < Len(v) /\ v[r] = w[r]
         \/ r = Len(v) /\ \E s \in Seq(Cell) : w[r] = v[r] \o s

LEMMA HoldsFront ==
    ASSUME NEW p \in Pages, NEW t, NEW w, Holds(p, t, w), p # <<>>
    PROVE  \E v : /\ Holds(SubSeq(p, 1, Len(p) - 1), SubSeq(t, 1, Len(p) - 1), v)
                  /\ Found(v, w, 1)
<1>1. PICK n, c : HoldsBy(n, c, p, t, w)
  BY DEF Holds
<1>2. /\ Cuts(n, c, p) /\ t \in Words /\ Len(t) = Len(p) /\ w \in Words /\ Len(w) = n
      /\ \A r \in 1 .. n : w[r] = FlattenSeq(SubSeq(t, c[r], c[r + 1] - 1))
  BY <1>1, HoldsSay
<1>3. /\ n \in Nat /\ c \in [1 .. n + 1 -> Nat] /\ c[1] = 1 /\ c[n + 1] = Len(p) + 1
      /\ \A j, k \in 1 .. n + 1 : j < k => c[j] < c[k]
      /\ \A k \in 1 .. Len(p) : Begins(p, k) <=> \E r \in 1 .. n : c[r] = k
  BY <1>2, CutsSay
<1>4. /\ Len(p) \in Nat /\ \A r \in 1 .. n + 1 : c[r] \in 1 .. Len(p) + 1
      /\ \A r \in 1 .. n : c[r] \in 1 .. Len(p) /\ c[r] < c[r + 1]
                             /\ r \in 1 .. n + 1 /\ r + 1 \in 1 .. n + 1
  BY <1>2, CutBounds
<1>5. n # 0 /\ n \in 1 .. n /\ Len(p) \in 1 .. Len(p) /\ Len(p) # 0
  <2>1. n # 0
    BY <1>2, CutsSome
  <2>2. Len(p) # 0
    BY DEF Pages
  <2> QED
    BY <1>3, <1>4, <2>1, <2>2
<1> DEFINE N == Len(p)
           m == N - 1
           s == SubSeq(p, 1, m)
           u == SubSeq(t, 1, m)
<1>6. m \in Nat /\ N = m + 1 /\ N = Len(p) /\ m <= Len(p) /\ m <= Len(t) /\ 1 <= m + 1
        /\ m - 1 + 1 = m
  BY <1>2, <1>4, <1>5
<1> HIDE DEF m, N
<1>7. s \in Pages /\ Len(s) = m /\ \A k \in 1 .. m : s[k] = p[k]
  <2>1. /\ s \in Pages /\ Len(s) = m - 1 + 1
        /\ \A i \in 1 .. m - 1 + 1 : s[i] = p[1 + i - 1]
    BY <1>6, PagesPart
  <2>2. \A i \in 1 .. m : 1 + i - 1 = i
    BY <1>6
  <2> QED
    BY <1>6, <2>1, <2>2
<1>8. u \in Words /\ Len(u) = m /\ \A k \in 1 .. m : u[k] = t[k]
  <2>1. /\ u \in Words /\ Len(u) = m - 1 + 1
        /\ \A i \in 1 .. m - 1 + 1 : u[i] = t[1 + i - 1]
    BY <1>2, <1>6, WordsPart
  <2>2. \A i \in 1 .. m : 1 + i - 1 = i
    BY <1>6
  <2> QED
    BY <1>6, <2>1, <2>2
<1> HIDE DEF s, u
<1>9. \A k \in 1 .. m : k \in 1 .. Len(p) /\ (Begins(s, k) <=> Begins(p, k))
  <2> SUFFICES ASSUME NEW k \in 1 .. m
               PROVE  k \in 1 .. Len(p) /\ (Begins(s, k) <=> Begins(p, k))
    OBVIOUS
  <2>1. k \in 1 .. Len(p) /\ (k = 1 \/ k - 1 \in 1 .. m)
    BY <1>6
  <2> QED
    BY <1>7, <2>1 DEF Begins
<1>10. ASSUME NEW r \in 1 .. n - 1
       PROVE  w[r] = FlattenSeq(SubSeq(u, c[r], c[r + 1] - 1)) /\ r \in 1 .. n /\ r + 1 \in 1 .. n
  <2> DEFINE b == c[r + 1] - 1
  <2>1. r \in 1 .. n /\ r + 1 \in 1 .. n
    BY <1>3
  <2>2. /\ b \in Nat /\ c[r] \in Nat \ {0} /\ c[r] <= b + 1 /\ b <= m
        /\ \A i \in c[r] .. b : i \in 1 .. m
    BY <1>4, <1>6, <2>1, SMTT(30)
  <2>3. w[r] = FlattenSeq(SubSeq(t, c[r], b))
    BY <1>2, <2>1
  <2> HIDE DEF b
  <2>4. \A i \in c[r] .. b : u[i] = t[i]
    BY <1>8, <2>2
  <2>5. b <= Len(t) /\ b <= Len(u)
    BY <1>6, <1>8, <2>2
  <2>6. SubSeq(u, c[r], b) = SubSeq(t, c[r], b)
    BY ONLY <1>2, <1>8, <2>2, <2>4, <2>5, WordsSame
  <2> QED
    BY <2>1, <2>3, <2>6 DEF b
<1>11. CASE c[n] = N
  <2> DEFINE d == [k \in 1 .. n |-> c[k]]
             v == SubSeq(w, 1, n - 1)
  <2>1. v \in Words /\ Len(v) = n - 1 /\ \A k \in 1 .. n - 1 : v[k] = w[k]
    <3>1. n - 1 \in Nat /\ 1 <= (n - 1) + 1 /\ n - 1 <= Len(w) /\ 1 \in Nat \ {0}
      BY <1>2, <1>3, <1>5
    <3>2. /\ v \in Words /\ Len(v) = (n - 1) - 1 + 1
          /\ \A i \in 1 .. (n - 1) - 1 + 1 : v[i] = w[1 + i - 1]
      BY <1>2, <3>1, WordsPart, ZenonT(40)
    <3>3. (n - 1) - 1 + 1 = n - 1 /\ \A i \in 1 .. n - 1 : 1 + i - 1 = i
      BY <1>3
    <3> QED
      BY <3>2, <3>3
  <2>2. d \in [1 .. (n - 1) + 1 -> Nat] /\ \A k \in 1 .. n : d[k] = c[k]
    BY <1>3, <1>4, <1>5
  <2> HIDE DEF d, v
  <2>3. Cuts(n - 1, d, s)
    <3>1. n - 1 \in Nat /\ d[1] = 1 /\ d[(n - 1) + 1] = Len(s) + 1
      BY <1>3, <1>5, <1>6, <1>7, <1>11, <2>2
    <3>2. \A j, k \in 1 .. (n - 1) + 1 : j < k => d[j] < d[k]
      BY <1>3, <1>4, <2>2
    <3>3. ASSUME NEW k \in 1 .. Len(s)
          PROVE  Begins(s, k) <=> \E r \in 1 .. n - 1 : d[r] = k
      <4>1. k \in 1 .. m /\ k # N
        BY <1>6, <1>7
      <4>2. \A r \in 1 .. n : r = n \/ r \in 1 .. n - 1
        BY <1>3
      <4>3. \A r \in 1 .. n - 1 : r \in 1 .. n
        BY <1>3
      <4>4. (\E r \in 1 .. n - 1 : d[r] = k) <=> \E r \in 1 .. n : c[r] = k
        BY <1>11, <2>2, <4>1, <4>2, <4>3
      <4> QED
        BY <1>3, <1>9, <4>1, <4>4
    <3> QED
      BY <2>2, <3>1, <3>2, <3>3 DEF Cuts
  <2>4. ASSUME NEW r \in 1 .. n - 1 PROVE v[r] = FlattenSeq(SubSeq(u, d[r], d[r + 1] - 1))
    BY <1>10, <2>1, <2>2
  <2>5. HoldsBy(n - 1, d, s, u, v)
    BY <1>7, <1>8, <2>1, <2>3, <2>4 DEF HoldsBy
  <2>6. Found(v, w, 1)
    <3>1. <<>> \in Seq(Cell)
      OBVIOUS
    <3>2. \A r \in 1 .. n - 1 : w[r] = v[r] \o <<>>
      <4> SUFFICES ASSUME NEW r \in 1 .. n - 1 PROVE w[r] = v[r] \o <<>>
        OBVIOUS
      <4>1. w[r] = v[r] /\ v[r] \in Seq(Cell)
        BY <2>1 DEF Words
      <4> QED
        BY <4>1
    <3>3. \A r \in 1 .. n - 1 : r < n - 1 \/ r = n - 1
      BY <1>3
    <3>4. n - 1 <= n /\ n <= (n - 1) + 1
      BY <1>3
    <3> QED
      BY <1>2, <2>1, <3>1, <3>2, <3>3, <3>4 DEF Found
  <2> QED
    BY <1>6, <2>5, <2>6 DEF Holds, s, u, m, N
<1>12. CASE c[n] # N
  <2> DEFINE a == c[n]
             x == FlattenSeq(SubSeq(t, a, m))
             d == [c EXCEPT ![n + 1] = N]
             v == [w EXCEPT ![n] = x]
  <2>1. /\ a \in 1 .. m /\ a \in Nat \ {0} /\ a = c[n] /\ a <= m + 1
        /\ a \in 1 .. Len(t) /\ m \in a .. Len(t) - 1
    BY <1>2, <1>4, <1>5, <1>6, <1>12
  <2>2. x \in Seq(Cell)
    <3> HIDE DEF a
    <3> QED
      BY <1>2, <1>6, <2>1, FlattenPartType
  <2>3. w[n] = x \o t[N]
    <3>1. w[n] = FlattenSeq(SubSeq(t, a, m + 1))
      <4>1. c[n + 1] - 1 = m + 1
        BY <1>3, <1>4, <1>6
      <4> QED
        BY <1>2, <1>5, <4>1
    <3> HIDE DEF a
    <3>2. FlattenSeq(SubSeq(t, a, m + 1)) = FlattenSeq(SubSeq(t, a, m)) \o t[m + 1]
      BY <1>2, <2>1, FlattenPartMore
    <3> QED
      BY <1>6, <3>1, <3>2
  <2>4. d[n + 1] = N /\ \A k \in 1 .. n : d[k] = c[k]
    BY <1>3, <1>4
  <2>5. d \in [1 .. n + 1 -> Nat]
    BY <1>3, <1>4, <1>6
  <2> HIDE DEF x
  <2>6. /\ v \in Words /\ Len(v) = n /\ v[n] = x
        /\ \A k \in 1 .. n : k # n => v[k] = w[k]
    BY <1>2, <1>5, <2>2 DEF Words
  <2>7. x = FlattenSeq(SubSeq(t, a, m))
    BY DEF x
  <2> HIDE DEF d, v, a
  <2>8. Cuts(n, d, s)
    <3>1. d[1] = 1 /\ d[n + 1] = Len(s) + 1
      BY <1>3, <1>5, <1>6, <1>7, <2>4
    <3>2. ASSUME NEW j \in 1 .. n + 1, NEW k \in 1 .. n + 1, j < k
          PROVE  d[j] < d[k]
      <4>1. j \in 1 .. n
        BY <1>3, <3>2
      <4>2. CASE k = n + 1
        <5>1. j = n \/ c[j] < c[n]
          BY <1>3, <1>4, <1>5, <4>1
        <5>2. c[j] < N
          BY <1>4, <1>6, <2>1, <4>1, <5>1
        <5> QED
          BY <2>4, <4>1, <4>2, <5>2
      <4>3. CASE k # n + 1
        <5>1. k \in 1 .. n
          BY <1>3, <4>3
        <5> QED
          BY <1>3, <2>4, <3>2, <4>1, <5>1
      <4> QED
        BY <4>2, <4>3
    <3>3. ASSUME NEW k \in 1 .. Len(s)
          PROVE  Begins(s, k) <=> \E r \in 1 .. n : d[r] = k
      BY <1>3, <1>7, <1>9, <2>4
    <3> QED
      BY <1>3, <2>5, <3>1, <3>2, <3>3 DEF Cuts
  <2>9. ASSUME NEW r \in 1 .. n PROVE v[r] = FlattenSeq(SubSeq(u, d[r], d[r + 1] - 1))
    <3>1. CASE r = n
      <4>1. SubSeq(u, a, m) = SubSeq(t, a, m)
        <5>1. \A i \in a .. m : u[i] = t[i]
          BY <1>8, <2>1
        <5>2. m <= Len(u)
          BY <1>6, <1>8
        <5> QED
          <6>1. /\ u \in Words /\ t \in Words /\ a \in Nat \ {0} /\ m \in Nat
                /\ a <= m + 1 /\ m <= Len(t)
            BY <1>2, <1>6, <1>8, <2>1
          <6> HIDE DEF u, m
          <6> QED
            BY ONLY <5>1, <5>2, <6>1, WordsSame
      <4>2. d[r] = a /\ d[r + 1] - 1 = m
        BY <1>5, <1>6, <2>1, <2>4, <3>1
      <4> QED
        BY <2>6, <2>7, <3>1, <4>1, <4>2
    <3>2. CASE r # n
      <4>1. r \in 1 .. n - 1
        BY <1>3, <3>2
      <4> QED
        BY <1>10, <2>4, <2>6, <3>2, <4>1
    <3> QED
      BY <3>1, <3>2
  <2>10. HoldsBy(n, d, s, u, v)
    BY <1>7, <1>8, <2>6, <2>8, <2>9 DEF HoldsBy
  <2>11. Found(v, w, 1)
    <3>1. t[N] \in Seq(Cell)
      BY <1>2, <1>5, <1>6 DEF Words
    <3>2. \A r \in 1 .. n : (r < n /\ v[r] = w[r]) \/ r = n
      BY <1>3, <2>6
    <3>3. w[n] = v[n] \o t[N]
      BY <2>3, <2>6
    <3>4. n <= n /\ n <= n + 1
      BY <1>3
    <3> QED
      BY <1>2, <2>6, <3>1, <3>2, <3>3, <3>4 DEF Found
  <2> QED
    BY <1>6, <2>10, <2>11 DEF Holds, s, u, m, N
<1> QED
  BY <1>11, <1>12

LEMMA FoundSame ==
    ASSUME NEW w \in Words
    PROVE  Found(w, w, 0)
<1>1. Len(w) \in Nat /\ <<>> \in Seq(Cell)
  BY DEF Words
<1>2. ASSUME NEW r \in 1 .. Len(w) PROVE w[r] = w[r] \o <<>>
  <2>1. w[r] \in Seq(Cell)
    BY DEF Words
  <2> QED
    BY <2>1
<1>3. \A r \in 1 .. Len(w) : r < Len(w) \/ r = Len(w)
  BY <1>1
<1>4. Len(w) <= Len(w) /\ Len(w) <= Len(w) + 0
  BY <1>1
<1> QED
  BY <1>1, <1>2, <1>3, <1>4 DEF Found

LEMMA FoundFurther ==
    ASSUME NEW u, NEW v, NEW w, NEW k \in Nat, Found(u, v, 1), Found(v, w, k)
    PROVE  Found(u, w, k + 1)
<1>1. /\ u \in Words /\ v \in Words /\ w \in Words
      /\ Len(u) <= Len(v) /\ Len(v) <= Len(u) + 1 /\ Len(v) <= Len(w) /\ Len(w) <= Len(v) + k
  BY Zenon DEF Found
<1>2. Len(u) \in Nat /\ Len(v) \in Nat /\ Len(w) \in Nat
  BY <1>1 DEF Words
<1>3. ASSUME NEW r \in 1 .. Len(u), r < Len(u)
      PROVE  u[r] = w[r]
  <2>1. r \in 1 .. Len(v) /\ r < Len(v) /\ r # Len(u) /\ r # Len(v)
    BY <1>1, <1>2, <1>3
  <2>2. u[r] = v[r]
    BY <2>1, Zenon DEF Found
  <2>3. v[r] = w[r]
    BY <2>1, Zenon DEF Found
  <2> QED
    BY <2>2, <2>3
<1>4. ASSUME NEW r \in 1 .. Len(u), r = Len(u)
      PROVE  \E s \in Seq(Cell) : w[r] = u[r] \o s
  <2>1. r \in 1 .. Len(v) /\ ~(r < Len(u))
    BY <1>1, <1>2, <1>4
  <2>2. PICK s \in Seq(Cell) : v[r] = u[r] \o s
    BY <2>1, Zenon DEF Found
  <2>3. CASE v[r] = w[r]
    BY <2>2, <2>3
  <2>4. CASE v[r] # w[r]
    <3>1. PICK x \in Seq(Cell) : w[r] = v[r] \o x
      BY <2>1, <2>4, Zenon DEF Found
    <3> DEFINE y == u[r]
    <3>2. y \in Seq(Cell) /\ w[r] = (y \o s) \o x
      BY <1>1, <2>2, <3>1 DEF Words
    <3> HIDE DEF y
    <3>3. (y \o s) \o x = y \o (s \o x)
      BY <3>2, ConcatAssociative, SMTT(30)
    <3>4. s \o x \in Seq(Cell)
      OBVIOUS
    <3> QED
      BY <3>2, <3>3, <3>4 DEF y
  <2> QED
    BY <2>3, <2>4
<1>5. \A r \in 1 .. Len(u) : r < Len(u) \/ r = Len(u)
  BY <1>2
<1>6. Len(u) <= Len(w) /\ Len(w) <= Len(u) + (k + 1)
  BY <1>1, <1>2
<1> QED
  BY <1>1, <1>3, <1>4, <1>5, <1>6 DEF Found

(* Without its last k pages a list has lost at most k of its runs, and     *)
(* those it has are the first ones, the last perhaps cut short.            *)
LEMMA HoldsPrefix ==
    ASSUME NEW p \in Pages, NEW t, NEW w, Holds(p, t, w), NEW k \in 0 .. Len(p)
    PROVE  \E v : /\ Holds(SubSeq(p, 1, Len(p) - k), SubSeq(t, 1, Len(p) - k), v)
                  /\ Found(v, w, k) /\ (k = 0 => v = w)
<1>1. t \in Words /\ Len(t) = Len(p) /\ w \in Words
  BY HoldsSay DEF Holds
<1>2. Len(p) \in Nat
  BY DEF Pages
<1> DEFINE I(j, v) == /\ Holds(SubSeq(p, 1, Len(p) - j), SubSeq(t, 1, Len(p) - j), v)
                      /\ Found(v, w, j) /\ (j = 0 => v = w)
           T == {j \in Nat : j <= Len(p) => \E v : I(j, v)}
<1>3. 0 \in T
  <2>1. SubSeq(p, 1, Len(p) - 0) = p /\ SubSeq(t, 1, Len(p) - 0) = t
    <3>1. Len(p) - 0 = Len(p) /\ Len(p) - 0 = Len(t)
      BY <1>1, <1>2
    <3>2. SubSeq(p, 1, Len(p)) = p
      BY DEF Pages
    <3>3. SubSeq(t, 1, Len(t)) = t
      BY <1>1 DEF Words
    <3> QED
      BY <3>1, <3>2, <3>3
  <2>2. Found(w, w, 0)
    BY <1>1, FoundSame
  <2>3. I(0, w)
    BY <2>1, <2>2
  <2> QED
    BY <2>3
<1>4. ASSUME NEW j \in Nat, j \in T PROVE j + 1 \in T
  <2> SUFFICES ASSUME j + 1 <= Len(p) PROVE \E v : I(j + 1, v)
    OBVIOUS
  <2> DEFINE m == Len(p) - j
             s == SubSeq(p, 1, m)
             u == SubSeq(t, 1, m)
  <2>1. /\ m \in Nat \ {0} /\ m <= Len(p) /\ m <= Len(t) /\ 1 <= m + 1 /\ j <= Len(p)
        /\ m - 1 = Len(p) - (j + 1) /\ m - 1 \in Nat /\ m - 1 + 1 = m
    BY <1>1, <1>2, SMTT(30)
  <2>2. PICK v : Holds(s, u, v) /\ Found(v, w, j)
    BY <1>4, <2>1
  <2>3. m = Len(p) - j
    OBVIOUS
  <2> HIDE DEF m
  <2>4. s \in Pages /\ Len(s) = m /\ s # <<>>
    <3>1. s \in Pages /\ Len(s) = m - 1 + 1
      BY <2>1, PagesPart
    <3> QED
      BY <2>1, <3>1
  <2>5. PICK x : /\ Holds(SubSeq(s, 1, Len(s) - 1), SubSeq(u, 1, Len(s) - 1), x)
                 /\ Found(x, v, 1)
    BY <2>2, <2>4, HoldsFront
  <2>6. SubSeq(s, 1, m - 1) = SubSeq(p, 1, m - 1)
    <3>1. \A i \in 1 .. m - 1 : s[i] = p[i]
      <4>1. \A i \in 1 .. m - 1 + 1 : s[i] = p[1 + i - 1]
        BY <2>1, PagesPart
      <4>2. \A i \in 1 .. m - 1 : i \in 1 .. m - 1 + 1 /\ 1 + i - 1 = i
        BY <2>1
      <4> QED
        BY <4>1, <4>2
    <3>2. m - 1 <= Len(s) /\ m - 1 <= Len(p) /\ 1 <= (m - 1) + 1 /\ 1 \in Nat \ {0}
      BY <2>1, <2>4
    <3> HIDE DEF s
    <3> QED
      BY ONLY <2>1, <2>4, <3>1, <3>2, p \in Pages, PagesSame
  <2>7. SubSeq(u, 1, m - 1) = SubSeq(t, 1, m - 1)
    <3>1. u \in Words /\ Len(u) = m - 1 + 1
      BY <1>1, <2>1, WordsPart
    <3>2. \A i \in 1 .. m - 1 : u[i] = t[i]
      <4>1. \A i \in 1 .. m - 1 + 1 : u[i] = t[1 + i - 1]
        BY <1>1, <2>1, WordsPart
      <4>2. \A i \in 1 .. m - 1 : i \in 1 .. m - 1 + 1 /\ 1 + i - 1 = i
        BY <2>1
      <4> QED
        BY <4>1, <4>2
    <3>3. m - 1 <= Len(u) /\ m - 1 <= Len(t) /\ 1 <= (m - 1) + 1 /\ 1 \in Nat \ {0}
      BY <2>1, <3>1
    <3> HIDE DEF u
    <3> QED
      BY ONLY <1>1, <2>1, <3>1, <3>2, <3>3, WordsSame
  <2>8. Found(x, w, j + 1)
    BY <2>2, <2>5, FoundFurther
  <2>9. j + 1 # 0
    OBVIOUS
  <2>10. I(j + 1, x)
    BY <2>1, <2>4, <2>5, <2>6, <2>7, <2>8, <2>9
  <2> QED
    BY <2>10
<1> HIDE DEF I
<1>5. Nat \subseteq T
  <2> HIDE DEF T
  <2> QED
    BY <1>3, <1>4, SetInduction
<1>6. k \in T /\ k <= Len(p)
  BY <1>2, <1>5
<1> QED
  BY <1>6 DEF I

-----------------------------------------------------------------------------
(* front() of one run after the other finds what the pages hold. *)
LEMMA ReadFrontIs ==
    ASSUME NEW p \in Pages, NEW m \in 1 .. Len(p), Pager!FrontLen(p) = m,
           \A i \in 1 .. m : Pager!Readable(p[i])
    PROVE  Pager!ReadFront(p) = FlattenSeq([i \in 1 .. m |-> Pager!Bytes(p[i])])
<1> DEFINE run == SubSeq(p, 1, Pager!FrontLen(p))
           bad == {i \in DOMAIN run : ~Pager!Readable(run[i])}
           good == SubSeq(run, 1, Pager!Min(bad \cup {Len(run) + 1}) - 1)
<1>1. Pager!ReadFront(p) = Pager!FlattenSeq([i \in DOMAIN good |-> Pager!Bytes(good[i])])
  BY DEF Pager!ReadFront
<1>2. Len(p) \in Nat /\ m \in Nat /\ m <= Len(p) /\ 1 <= m + 1 /\ 1 \in Nat \ {0} /\ m - 1 + 1 = m
  BY DEF Pages
<1>3. run \in Pages /\ Len(run) = m /\ \A i \in 1 .. m : run[i] = p[i]
  <2>1. /\ SubSeq(p, 1, m) \in Pages /\ Len(SubSeq(p, 1, m)) = m - 1 + 1
        /\ \A i \in 1 .. m - 1 + 1 : SubSeq(p, 1, m)[i] = p[1 + i - 1]
    BY <1>2, PagesPart
  <2>2. \A i \in 1 .. m : 1 + i - 1 = i
    BY <1>2
  <2> QED
    BY <1>2, <2>1, <2>2
<1> HIDE DEF run
<1>4. bad = {}
  BY <1>3 DEF Pages
<1>5. Pager!Min(bad \cup {Len(run) + 1}) = m + 1
  <2>1. bad \cup {Len(run) + 1} = {m + 1}
    BY <1>3, <1>4
  <2>2. {m + 1} \in SUBSET Nat /\ m + 1 \in {m + 1} /\ \A x \in {m + 1} : m + 1 <= x
    BY <1>2
  <2>3. Pager!Min({m + 1}) = m + 1
    BY ONLY <2>2, MinIs
  <2> QED
    BY <2>1, <2>3
<1>6. good = run
  <2>1. (m + 1) - 1 = Len(run)
    BY <1>2, <1>3
  <2>2. SubSeq(run, 1, Len(run)) = run
    BY <1>3 DEF Pages
  <2> QED
    BY <1>5, <2>1, <2>2
<1>7. [i \in DOMAIN good |-> Pager!Bytes(good[i])] = [i \in 1 .. m |-> Pager!Bytes(p[i])]
  <2>1. DOMAIN good = 1 .. m
    <3>1. DOMAIN run = 1 .. Len(run)
      BY <1>3 DEF Pages
    <3> HIDE DEF good
    <3> QED
      BY <1>3, <1>6, <3>1
  <2> QED
    BY <1>3, <1>6, <2>1
<1>8. \A x : Pager!FlattenSeq(x) = FlattenSeq(x)
  BY DEF Pager!FlattenSeq, FlattenSeq
<1> QED
  BY <1>1, <1>7, <1>8

LEMMA ContentsIs ==
    ASSUME NEW p \in Pages, NEW t, NEW w, Holds(p, t, w),
           \A i \in 1 .. Len(p) : Pager!Readable(p[i]) /\ Pager!Bytes(p[i]) = t[i]
    PROVE  Pager!Contents(p) = w
<1>1. PICK n, c : HoldsBy(n, c, p, t, w)
  BY DEF Holds
<1>2. /\ Cuts(n, c, p) /\ t \in Words /\ Len(t) = Len(p) /\ w \in Words /\ Len(w) = n
      /\ \A r \in 1 .. n : w[r] = FlattenSeq(SubSeq(t, c[r], c[r + 1] - 1))
  BY <1>1, HoldsSay
<1>3. /\ Pager!Cardinality(Pager!RunStarts(p)) = n
      /\ \A r \in 1 .. n : Pager!RunStart(p, r) = c[r]
  BY <1>2, CutsCount
<1>4. n \in Nat
  BY <1>2, CutsSay
<1>5. /\ Len(p) \in Nat /\ \A r \in 1 .. n + 1 : c[r] \in 1 .. Len(p) + 1
      /\ \A r \in 1 .. n : c[r] \in 1 .. Len(p) /\ c[r] < c[r + 1]
                             /\ r \in 1 .. n + 1 /\ r + 1 \in 1 .. n + 1
  BY <1>2, CutBounds
<1>6. ASSUME NEW r \in 1 .. n
      PROVE  Pager!ReadFront(SubSeq(p, c[r], Len(p))) = w[r]
  <2> DEFINE a == c[r]
             b == c[r + 1] - 1
             s == SubSeq(p, a, Len(p))
             m == b - a + 1
             d == [k \in 1 .. n - r + 2 |-> c[k + r - 1] - c[r] + 1]
  <2>1. /\ a \in Nat \ {0} /\ a <= Len(p) + 1 /\ b \in Nat /\ a <= b + 1 /\ b <= Len(p)
        /\ m \in 1 .. Len(p) - a + 1 /\ \A i \in 1 .. m : i \in 1 .. Len(p) - a + 1
        /\ \A i \in 1 .. m : a + i - 1 \in 1 .. Len(p)
    <3>1. /\ c[r] \in 1 .. Len(p) /\ c[r] < c[r + 1] /\ r + 1 \in 1 .. n + 1 /\ Len(p) \in Nat
      BY <1>5
    <3>2. c[r + 1] \in 1 .. Len(p) + 1
      BY <1>5, <3>1
    <3> DEFINE y == c[r]
               z == c[r + 1]
    <3>3. y \in 1 .. Len(p) /\ y < z /\ z \in 1 .. Len(p) + 1
      BY <3>1, <3>2
    <3>4. a = y /\ b = z - 1 /\ m = z - 1 - y + 1
      OBVIOUS
    <3> HIDE DEF a, b, m, y, z
    <3>5. b \in Nat /\ a \in Nat \ {0} /\ b <= Len(p) /\ a <= b /\ m = b - a + 1
      BY ONLY <3>1, <3>3, <3>4
    <3> QED
      BY ONLY <3>1, <3>5
  <2>2. Cuts(n - r + 1, d, s)
    BY <1>2, <1>5, CutsFrom
  <2>3. d[2] - 1 = m
    <3>1. 2 \in 1 .. n - r + 2 /\ 2 + r - 1 = r + 1
      BY <1>4
    <3>2. d[2] = c[r + 1] - c[r] + 1
      BY <3>1
    <3> QED
      BY <1>5, <3>2, SMTT(30)
  <2>4. n - r + 1 # 0
    BY <1>4
  <2>5. a = c[r] /\ b = c[r + 1] - 1
    OBVIOUS
  <2>6. m = b - a + 1
    OBVIOUS
  <2> HIDE DEF d, b, a
  <2>7. /\ s \in Pages /\ Len(s) = Len(p) - a + 1
        /\ \A i \in 1 .. Len(p) - a + 1 : s[i] = p[a + i - 1]
    BY <1>5, <2>1, PagesPart
  <2> HIDE DEF s, m
  <2>8. Pager!FrontLen(s) = m
    BY <2>2, <2>3, <2>4, <2>7, FrontLenIs
  <2>9. \A i \in 1 .. m : Pager!Readable(s[i]) /\ Pager!Bytes(s[i]) = t[a + i - 1]
    BY <2>1, <2>7
  <2>10. Pager!ReadFront(s) = FlattenSeq([i \in 1 .. m |-> Pager!Bytes(s[i])])
    BY <2>1, <2>7, <2>8, <2>9, ReadFrontIs
  <2>11. [i \in 1 .. m |-> Pager!Bytes(s[i])] = SubSeq(t, a, b)
    <3>1. /\ SubSeq(t, a, b) \in Words /\ Len(SubSeq(t, a, b)) = b - a + 1
          /\ \A i \in 1 .. b - a + 1 : SubSeq(t, a, b)[i] = t[a + i - 1]
      BY <1>2, <2>1, WordsPart
    <3>2. SubSeq(t, a, b) = [i \in 1 .. m |-> SubSeq(t, a, b)[i]]
      BY <2>6, <3>1 DEF Words
    <3>3. \A i \in 1 .. m : SubSeq(t, a, b)[i] = Pager!Bytes(s[i])
      BY <2>6, <2>9, <3>1
    <3> QED
      BY <3>2, <3>3
  <2>12. Pager!ReadFront(s) = w[r]
    BY <1>2, <2>5, <2>10, <2>11
  <2> QED
    BY <2>12 DEF s, a
<1>7. Pager!Contents(p) = [r \in 1 .. n |-> w[r]]
  BY <1>3, <1>6 DEF Pager!Contents
<1>8. w = [r \in 1 .. n |-> w[r]]
  BY <1>2 DEF Words
<1> QED
  BY <1>7, <1>8

-----------------------------------------------------------------------------
(* Pages in the file.  Where a restart gives the first capacity back while *)
(* pages of a larger one are in use, uflag is too short for them           *)
(* (src/srreporter.cc 105), and a block that is one byte longer than the   *)
(* rest of the last page is written behind its end (254).  Capacities that *)
(* were not raised, and lengths that have a common divisor with the pages, *)
(* have neither.                                                           *)
Divides(d, m) == \E e \in Nat : m = e * d

Restrained ==
    /\ \A c \in NewCaps : c <= InitCap
    /\ \E d \in Nat \ {0, 1} : \A m \in Lengths \cup {PageSize} : Divides(d, m)

Unit == CHOOSE d \in Nat \ {0, 1} : \A m \in Lengths \cup {PageSize} : Divides(d, m)

LEMMA UnitIs ==
    ASSUME Restrained
    PROVE  /\ Unit \in Nat \ {0, 1}
           /\ \A m \in Lengths \cup {PageSize} : Divides(Unit, m)
<1>1. \E d \in Nat \ {0, 1} : \A m \in Lengths \cup {PageSize} : Divides(d, m)
  BY DEF Restrained
<1> QED
  BY <1>1, Zenon DEF Unit

LEMMA Sizes ==
    /\ PageSize \in Nat \ {0} /\ Lengths \subseteq Nat \ {0}
    /\ InitCap \in Nat \ {0} /\ InitCap <= 65535 /\ Pager!Capacities \subseteq Nat \ {0}
    /\ \A m \in Lengths, c \in Pager!Capacities : m <= c * PageSize
<1>1. /\ PageSize \in Nat \ {0} /\ Lengths \subseteq Nat \ {0}
      /\ Pager!Capacities \subseteq Nat \ {0} /\ \A c \in Pager!Capacities : c <= 65535
      /\ \A m \in Lengths, c \in Pager!Capacities : m <= c * PageSize
  BY PagerAssumption DEF Pager!FilePagerAssumption
<1>2. InitCap \in Pager!Capacities
  BY Zenon DEF Pager!Capacities
<1> QED
  BY ONLY <1>1, <1>2

LEMMA MaxIs ==
    ASSUME Restrained
    PROVE  /\ Pager!Max(Pager!Capacities) = InitCap
           /\ Pager!Capacities \subseteq 1 .. InitCap
           /\ Pager!Places = 0 .. InitCap * PageSize
<1>1. Pager!Capacities \subseteq 1 .. InitCap /\ InitCap \in Pager!Capacities
  <2>1. \A c \in Pager!Capacities : c <= InitCap
    BY Sizes DEF Restrained, Pager!Capacities
  <2>2. InitCap \in Pager!Capacities
    BY Zenon DEF Pager!Capacities
  <2> QED
    BY Sizes, <2>1, <2>2
<1> DEFINE S == Pager!Capacities
           m == Pager!Max(S)
<1>2. InitCap \in S /\ \A y \in S : InitCap >= y
  BY <1>1
<1>3. m \in S /\ \A y \in S : m >= y
  <2> HIDE DEF S
  <2> QED
    BY <1>2, Zenon DEF Pager!Max
<1>4. m >= InitCap /\ m \in 1 .. InitCap
  BY <1>1, <1>3
<1>5. m = InitCap
  BY <1>4, Sizes
<1> QED
  BY <1>1, <1>5 DEF Pager!Places

(* Products. *)
LEMMA ProductIn ==
    ASSUME NEW a \in Nat, NEW b \in Nat
    PROVE  a * b \in Nat
  OBVIOUS

LEMMA ProductRises ==
    ASSUME NEW a \in Nat, NEW b \in Nat, NEW m \in Nat, a < b
    PROVE  a * m + m <= b * m /\ a * m \in Nat /\ b * m \in Nat
<1>1. PICK x \in Nat : b = a + 1 + x
  <2>1. b - a - 1 \in Nat /\ b = a + 1 + (b - a - 1)
    OBVIOUS
  <2> QED
    BY <2>1
<1>2. (a + 1 + x) * m = a * m + m + x * m
  OBVIOUS
<1>3. x * m \in Nat /\ a * m \in Nat /\ b * m \in Nat
  BY ProductIn
<1>4. b * m = a * m + m + x * m
  BY <1>1, <1>2
<1> QED
  BY ONLY <1>3, <1>4, m \in Nat

(* Lengths that are multiples do not exceed a multiple by one. *)
LEMMA NoSpill ==
    ASSUME NEW d \in Nat \ {0, 1}, NEW m, NEW n, Divides(d, m), Divides(d, n), m <= n + 1
    PROVE  m <= n /\ m \in Nat /\ n \in Nat
<1>1. PICK a \in Nat : m = a * d
  BY DEF Divides
<1>2. PICK b \in Nat : n = b * d
  BY DEF Divides
<1>3. m \in Nat /\ n \in Nat
  BY <1>1, <1>2, ProductIn
<1>4. CASE b < a
  <2>1. b * d + d <= a * d
    BY <1>4, ProductRises
  <2>2. n + d <= m
    BY <1>1, <1>2, <2>1
  <2> QED
    BY <1>3, <2>2
<1>5. CASE a = b
  BY <1>1, <1>2, <1>3, <1>5
<1>6. CASE a < b
  <2>1. a * d + d <= b * d
    BY <1>6, ProductRises
  <2>2. m + d <= n
    BY <1>1, <1>2, <2>1
  <2> QED
    BY <1>3, <2>2
<1> QED
  BY <1>4, <1>5, <1>6

LEMMA DividesSum ==
    ASSUME NEW d \in Nat \ {0, 1}, NEW m, NEW n, Divides(d, m), Divides(d, n)
    PROVE  /\ Divides(d, m + n) /\ m \in Nat /\ n \in Nat
           /\ n <= m => Divides(d, m - n)
<1>1. PICK a \in Nat : m = a * d
  BY DEF Divides
<1>2. PICK b \in Nat : n = b * d
  BY DEF Divides
<1>3. m \in Nat /\ n \in Nat
  BY <1>1, <1>2, ProductIn
<1>4. (a + b) * d = a * d + b * d /\ a + b \in Nat
  OBVIOUS
<1>5. n <= m => a - b \in Nat
  <2>1. SUFFICES ASSUME a < b PROVE m < n
    BY <1>3
  <2>2. a * d + d <= b * d
    BY <2>1, ProductRises
  <2> QED
    BY <1>1, <1>2, <1>3, <2>2
<1>6. (a - b) * d = a * d - b * d
  OBVIOUS
<1> QED
  BY <1>1, <1>2, <1>3, <1>4, <1>5, <1>6 DEF Divides

(* A byte is in one page. *)
LEMMA PagesApart ==
    ASSUME NEW j \in Nat, NEW k \in Nat, j # k, NEW x \in 0 .. PageSize - 1,
           NEW y \in 0 .. PageSize - 1
    PROVE  j * PageSize + x # k * PageSize + y
<1>1. PageSize \in Nat
  BY Sizes
<1>2. CASE j < k
  <2>1. j * PageSize + PageSize <= k * PageSize /\ j * PageSize \in Nat /\ k * PageSize \in Nat
    BY <1>1, <1>2, ProductRises
  <2> QED
    BY <1>1, <2>1
<1>3. CASE k < j
  <2>1. k * PageSize + PageSize <= j * PageSize /\ j * PageSize \in Nat /\ k * PageSize \in Nat
    BY <1>1, <1>3, ProductRises
  <2> QED
    BY <1>1, <2>1
<1> QED
  BY <1>2, <1>3

LEMMA InPlaces ==
    ASSUME Restrained, NEW j \in 0 .. InitCap - 1, NEW x \in 0 .. PageSize
    PROVE  j * PageSize + x \in Pager!Places /\ j * PageSize \in Nat
<1>1. PageSize \in Nat /\ InitCap \in Nat
  BY Sizes
<1>2. j * PageSize + PageSize <= InitCap * PageSize /\ j * PageSize \in Nat
        /\ InitCap * PageSize \in Nat
  BY <1>1, ProductRises
<1>3. j * PageSize + x \in 0 .. InitCap * PageSize
  BY <1>1, <1>2
<1> QED
  BY <1>2, <1>3, MaxIs

-----------------------------------------------------------------------------
(* A list of pages in a file. *)
TextOf(g, x) == [k \in 1 .. x.offset + 1 |-> g.byte[x.index * PageSize + k - 1]]
Texts(g, p) == [k \in 1 .. Len(p) |-> TextOf(g, p[k])]

PageIn(x, g) ==
    /\ x \in Pager!Page /\ x.index \in 0 .. InitCap - 1
    /\ x.offset + 1 \in 1 .. PageSize /\ Divides(Unit, x.offset + 1)
    /\ x.index * PageSize + x.offset + 1 <= g.len

Sound(p, g) ==
    /\ p \in Pages
    /\ \A k \in 1 .. Len(p) : PageIn(p[k], g)
    /\ \A j, k \in 1 .. Len(p) : p[j].index = p[k].index => j = k

FileOK(g) == g.byte \in [Pager!Places -> Cell] /\ g.len \in Nat

LEMMA TextType ==
    ASSUME Restrained, NEW g, FileOK(g), NEW x, PageIn(x, g)
    PROVE  TextOf(g, x) \in Seq(Cell) /\ Len(TextOf(g, x)) = x.offset + 1
<1>1. /\ x.index \in 0 .. InitCap - 1 /\ x.offset + 1 \in 1 .. PageSize
      /\ g.byte \in [Pager!Places -> Cell] /\ PageSize \in Nat
  BY Sizes DEF PageIn, FileOK
<1>2. \A k \in 1 .. x.offset + 1 : x.index * PageSize + k - 1 \in Pager!Places
  <2> SUFFICES ASSUME NEW k \in 1 .. x.offset + 1
               PROVE  x.index * PageSize + k - 1 \in Pager!Places
    OBVIOUS
  <2>1. k - 1 \in 0 .. PageSize
    BY <1>1
  <2>2. x.index * PageSize + (k - 1) \in Pager!Places /\ x.index * PageSize \in Nat
    BY <1>1, <2>1, InPlaces
  <2>3. x.index * PageSize + (k - 1) = x.index * PageSize + k - 1
    BY <2>1, <2>2
  <2> QED
    BY <2>2, <2>3
<1>3. \A k \in 1 .. x.offset + 1 : g.byte[x.index * PageSize + k - 1] \in Cell
  BY <1>1, <1>2
<1>4. x.offset + 1 \in Nat
  BY <1>1
<1> QED
  BY <1>3, <1>4 DEF TextOf

LEMMA TextsType ==
    ASSUME Restrained, NEW g, FileOK(g), NEW p, Sound(p, g)
    PROVE  Texts(g, p) \in Words /\ Len(Texts(g, p)) = Len(p)
             /\ \A k \in 1 .. Len(p) : Texts(g, p)[k] = TextOf(g, p[k])
<1>1. p \in Pages /\ \A k \in 1 .. Len(p) : TextOf(g, p[k]) \in Seq(Cell)
  BY TextType DEF Sound
<1>2. Len(p) \in Nat
  BY <1>1 DEF Pages
<1> QED
  BY <1>1, <1>2 DEF Texts, Words

(* A part of the list. *)
LEMMA SoundPart ==
    ASSUME Restrained, NEW g, FileOK(g), NEW p, Sound(p, g), NEW a \in Nat \ {0},
           NEW b \in Nat, a <= b + 1, b <= Len(p)
    PROVE  /\ Sound(SubSeq(p, a, b), g)
           /\ Texts(g, SubSeq(p, a, b)) = SubSeq(Texts(g, p), a, b)
<1> DEFINE s == SubSeq(p, a, b)
           t == Texts(g, p)
<1>1. /\ p \in Pages /\ \A k \in 1 .. Len(p) : PageIn(p[k], g)
      /\ \A j, k \in 1 .. Len(p) : p[j].index = p[k].index => j = k
  BY DEF Sound
<1>2. /\ s \in Pages /\ Len(s) = b - a + 1
      /\ \A k \in 1 .. b - a + 1 : s[k] = p[a + k - 1]
  <2>1. b <= Len(p) /\ a <= b + 1
    OBVIOUS
  <2> QED
    BY <1>1, <2>1, PagesPart
<1>3. \A k \in 1 .. b - a + 1 : a + k - 1 \in 1 .. Len(p)
  BY <1>1 DEF Pages
<1>4. Sound(s, g)
  <2>1. \A k \in 1 .. Len(s) : PageIn(s[k], g)
    BY <1>1, <1>2, <1>3
  <2>2. ASSUME NEW j \in 1 .. Len(s), NEW k \in 1 .. Len(s), s[j].index = s[k].index
        PROVE  j = k
    <3>1. a + j - 1 = a + k - 1
      BY <1>1, <1>2, <1>3, <2>2
    <3>2. j \in Nat /\ k \in Nat
      BY <1>2
    <3> QED
      BY <3>1, <3>2
  <2> QED
    BY <1>2, <2>1, <2>2 DEF Sound
<1>5. t \in Words /\ Len(t) = Len(p) /\ \A k \in 1 .. Len(p) : t[k] = TextOf(g, p[k])
  BY TextsType
<1>6. /\ Texts(g, s) \in Words /\ Len(Texts(g, s)) = b - a + 1
      /\ \A k \in 1 .. b - a + 1 : Texts(g, s)[k] = TextOf(g, s[k])
  BY <1>2, <1>4, TextsType, ZenonT(40)
<1> HIDE DEF t, s
<1>7. /\ SubSeq(t, a, b) \in Words /\ Len(SubSeq(t, a, b)) = b - a + 1
      /\ \A k \in 1 .. b - a + 1 : SubSeq(t, a, b)[k] = t[a + k - 1]
  BY <1>5, WordsPart
<1> DEFINE u == Texts(g, s)
           v == SubSeq(t, a, b)
<1>8. \A k \in 1 .. b - a + 1 : u[k] = v[k]
  BY <1>2, <1>3, <1>5, <1>6, <1>7
<1>9. u \in Words /\ v \in Words /\ Len(u) = b - a + 1 /\ Len(v) = b - a + 1
  BY <1>6, <1>7
<1> HIDE DEF u, v
<1>10. u = v
  BY ONLY <1>8, <1>9, SeqEqual DEF Words
<1> QED
  BY <1>4, <1>10 DEF u, v, t, s

(* What the write of a page changes. *)
Overwritten(h, g, b, s) ==
    \A x \in Pager!Places :
        h.byte[x] = IF x \in b .. b + Len(s) - 1 THEN s[x - b + 1] ELSE g.byte[x]

LEMMA WrittenIs ==
    ASSUME Restrained, NEW g, FileOK(g), NEW b \in Nat, NEW s \in Seq(Cell),
           NEW h, h = Pager!Written(g, b, s)
    PROVE  FileOK(h) /\ g.len <= h.len /\ b + Len(s) <= h.len /\ Overwritten(h, g, b, s)
<1>1. /\ h.byte = [x \in Pager!Places |-> IF x \in b .. b + Len(s) - 1
                                          THEN s[x - b + 1] ELSE g.byte[x]]
      /\ h.len = Pager!Max({g.len, b + Len(s)})
  BY Zenon DEF Pager!Written
<1>2. g.len \in Nat /\ Len(s) \in Nat /\ g.byte \in [Pager!Places -> Cell]
  BY DEF FileOK
<1>3. h.len \in Nat /\ g.len <= h.len /\ b + Len(s) <= h.len
  <2> DEFINE S == {g.len, b + Len(s)}
  <2>1. \E m \in S : \A y \in S : m >= y
    <3>1. CASE g.len >= b + Len(s)
      BY <1>2, <3>1
    <3>2. CASE b + Len(s) >= g.len
      BY <1>2, <3>2
    <3> QED
      BY <1>2, <3>1, <3>2
  <2>2. Pager!Max(S) \in S /\ \A y \in S : Pager!Max(S) >= y
    <3> HIDE DEF S
    <3> QED
      BY <2>1, Zenon DEF Pager!Max
  <2> QED
    BY <1>1, <1>2, <2>2
<1>4. \A x \in Pager!Places : x \in b .. b + Len(s) - 1 => s[x - b + 1] \in Cell
  <2> SUFFICES ASSUME NEW x \in b .. b + Len(s) - 1 PROVE s[x - b + 1] \in Cell
    OBVIOUS
  <2>1. x - b + 1 \in 1 .. Len(s)
    BY <1>2
  <2> QED
    BY <2>1
<1>5. \A x \in Pager!Places : g.byte[x] \in Cell
  BY <1>2
<1>6. \A x \in Pager!Places :
        (IF x \in b .. b + Len(s) - 1 THEN s[x - b + 1] ELSE g.byte[x]) \in Cell
  BY <1>4, <1>5, Zenon
<1>7. h.byte \in [Pager!Places -> Cell]
  BY <1>1, <1>6, Zenon
<1>8. \A x \in Pager!Places :
        h.byte[x] = IF x \in b .. b + Len(s) - 1 THEN s[x - b + 1] ELSE g.byte[x]
  BY <1>1, Zenon
<1>9. Overwritten(h, g, b, s)
  BY <1>8, Zenon DEF Overwritten
<1> QED
  BY <1>3, <1>7, <1>9 DEF FileOK

(* A write in another page leaves a page alone. *)
LEMMA WrittenElsewhere ==
    ASSUME Restrained, NEW g, FileOK(g), NEW j \in 0 .. InitCap - 1, NEW o \in 0 .. PageSize,
           NEW s \in Seq(Cell), o + Len(s) <= PageSize,
           NEW h, h = Pager!Written(g, j * PageSize + o, s),
           NEW x, PageIn(x, g), x.index # j
    PROVE  PageIn(x, h) /\ TextOf(h, x) = TextOf(g, x)
<1> DEFINE b == j * PageSize + o
           i == x.index
           m == x.offset + 1
<1>1. j * PageSize \in Nat /\ PageSize \in Nat /\ o \in Nat /\ j \in Nat /\ i \in Nat
        /\ i \in 0 .. InitCap - 1 /\ m \in 1 .. PageSize /\ i # j /\ Len(s) \in Nat
        /\ i * PageSize \in Nat
  BY Sizes, ProductIn DEF PageIn
<1>2. b \in Nat /\ b = j * PageSize + o
  BY <1>1
<1> HIDE DEF b, i, m
<1>3. FileOK(h) /\ g.len <= h.len /\ Overwritten(h, g, b, s)
  <2>1. h = Pager!Written(g, b, s)
    BY <1>2
  <2> QED
    BY ONLY Restrained, FileOK(g), s \in Seq(Cell), <1>2, <2>1, WrittenIs
<1>4. ASSUME NEW k \in 1 .. m
      PROVE  h.byte[i * PageSize + k - 1] = g.byte[i * PageSize + k - 1]
  <2> DEFINE y == i * PageSize + k - 1
  <2>1. k - 1 \in 0 .. PageSize - 1 /\ k - 1 \in 0 .. PageSize /\ y = i * PageSize + (k - 1)
    BY <1>1
  <2>2. y \in Pager!Places
    BY <1>1, <2>1, InPlaces
  <2>3. y \notin b .. b + Len(s) - 1
    <3> SUFFICES ASSUME y \in b .. b + Len(s) - 1 PROVE FALSE
      OBVIOUS
    <3>1. y - j * PageSize \in 0 .. PageSize - 1
      BY <1>1, <1>2, <2>1
    <3>2. i * PageSize + (k - 1) = j * PageSize + (y - j * PageSize)
      BY <1>1, <2>1
    <3> QED
      BY <1>1, <2>1, <3>1, <3>2, PagesApart
  <2> HIDE DEF y
  <2>4. h.byte[y] = g.byte[y]
    BY <1>3, <2>2, <2>3, Zenon DEF Overwritten
  <2> QED
    BY <2>4 DEF y
<1>5. TextOf(h, x) = TextOf(g, x)
  BY <1>4 DEF TextOf, i, m
<1>6. PageIn(x, h)
  <2>1. i * PageSize + x.offset + 1 <= h.len
    <3>1. g.len \in Nat /\ h.len \in Nat /\ x.offset \in Nat
            /\ i * PageSize + x.offset + 1 <= g.len
      BY <1>3 DEF FileOK, PageIn, Pager!Page, i
    <3> QED
      BY <1>1, <1>3, <3>1
  <2> QED
    BY <2>1 DEF PageIn, i
<1> QED
  BY <1>5, <1>6

(* Another page of the list. *)
LEMMA SoundAppend ==
    ASSUME Restrained, NEW g, FileOK(g), NEW p, Sound(p, g),
           NEW j \in 0 .. InitCap - 1, \A k \in 1 .. Len(p) : p[k].index # j,
           NEW s \in Seq(Cell), Len(s) \in 1 .. PageSize, Divides(Unit, Len(s)),
           NEW f \in {0, 1}, NEW h, h = Pager!Written(g, j * PageSize, s),
           NEW e, e = [index |-> j, offset |-> Len(s) - 1, flag |-> f]
    PROVE  /\ FileOK(h) /\ Sound(Append(p, e), h) /\ e \in Pager!Page
           /\ Texts(h, Append(p, e)) = Append(Texts(g, p), s)
<1> DEFINE q1 == Append(p, e)
           b == j * PageSize
<1>1. /\ p \in Pages /\ \A k \in 1 .. Len(p) : PageIn(p[k], g)
      /\ \A i, k \in 1 .. Len(p) : p[i].index = p[k].index => i = k
  BY DEF Sound
<1>2. /\ b \in Nat /\ b + 0 = b /\ 0 \in 0 .. PageSize /\ 0 + Len(s) <= PageSize
      /\ Len(p) \in Nat /\ PageSize \in Nat /\ Len(s) \in Nat /\ j \in Nat
  BY <1>1, Sizes, ProductIn DEF Pages
<1>3. h = Pager!Written(g, b, s) /\ h = Pager!Written(g, b + 0, s) /\ b = j * PageSize
  BY <1>2
<1> HIDE DEF b
<1>4. FileOK(h) /\ g.len <= h.len /\ b + Len(s) <= h.len /\ Overwritten(h, g, b, s)
  <2>1. h = Pager!Written(g, b, s) /\ b \in Nat
    BY <1>2, <1>3
  <2> QED
    BY ONLY Restrained, FileOK(g), s \in Seq(Cell), <2>1, WrittenIs
<1>5. e \in Pager!Page /\ e.index = j /\ e.offset = Len(s) - 1 /\ e.offset + 1 = Len(s) /\ e.flag = f
  BY <1>2 DEF Pager!Page
<1>6. PageIn(e, h)
  <2>1. e.index * PageSize + e.offset + 1 <= h.len
    <3>1. e.index * PageSize = b
      BY <1>3, <1>5
    <3>2. b + e.offset + 1 = b + Len(s)
      BY <1>2, <1>5
    <3> QED
      BY <1>4, <3>1, <3>2
  <2> QED
    BY <1>5, <2>1 DEF PageIn
<1>7. TextOf(h, e) = s
  <2>1. ASSUME NEW k \in 1 .. Len(s) PROVE h.byte[e.index * PageSize + k - 1] = s[k]
    <3> DEFINE y == e.index * PageSize + k - 1
    <3>1. y = b + k - 1
      BY <1>3, <1>5
    <3>2. k - 1 \in 0 .. PageSize /\ b + k - 1 = b + (k - 1)
      BY <1>2
    <3>3. y \in Pager!Places
      BY <1>3, <3>1, <3>2, InPlaces
    <3>4. y \in b .. b + Len(s) - 1 /\ y - b + 1 = k
      BY <1>2, <3>1, SMTT(30)
    <3> HIDE DEF y
    <3>5. h.byte[y] = s[y - b + 1]
      BY <1>4, <3>3, <3>4, Zenon DEF Overwritten
    <3>6. h.byte[y] = s[k]
      BY <3>4, <3>5
    <3> QED
      BY <3>6 DEF y
  <2>2. TextOf(h, e) = [k \in 1 .. Len(s) |-> s[k]]
    BY <1>5, <2>1 DEF TextOf
  <2> QED
    BY <2>2
<1>8. ASSUME NEW k \in 1 .. Len(p)
      PROVE  PageIn(p[k], h) /\ TextOf(h, p[k]) = TextOf(g, p[k])
  <2>1. PageIn(p[k], g) /\ p[k].index # j
    BY <1>1
  <2> DEFINE x == p[k]
  <2>2. PageIn(x, g) /\ x.index # j
    BY <2>1
  <2> HIDE DEF x
  <2>3. PageIn(x, h) /\ TextOf(h, x) = TextOf(g, x)
    BY <1>2, <1>3, <2>2, WrittenElsewhere
  <2> QED
    BY <2>3 DEF x
<1>9. /\ q1 \in Pages /\ Len(q1) = Len(p) + 1 /\ q1[Len(p) + 1] = e
      /\ \A k \in 1 .. Len(p) : q1[k] = p[k]
  BY <1>1, <1>5 DEF Pages
<1> HIDE DEF q1
<1>10. \A k \in 1 .. Len(q1) : k \in 1 .. Len(p) \/ k = Len(p) + 1
  BY <1>2, <1>9
<1>11. Sound(q1, h)
  <2>1. \A k \in 1 .. Len(q1) : PageIn(q1[k], h)
    BY <1>6, <1>8, <1>9, <1>10
  <2>2. ASSUME NEW i \in 1 .. Len(q1), NEW k \in 1 .. Len(q1), q1[i].index = q1[k].index
        PROVE  i = k
    BY <1>1, <1>5, <1>9, <1>10, <2>2, SMTT(30)
  <2> QED
    BY <1>9, <2>1, <2>2 DEF Sound
<1>12. Texts(h, q1) = Append(Texts(g, p), s)
  <2> DEFINE u == Texts(h, q1)
             t == Texts(g, p)
             v == Append(t, s)
  <2>1. /\ u \in Words /\ Len(u) = Len(q1)
        /\ \A k \in 1 .. Len(q1) : u[k] = TextOf(h, q1[k])
    BY <1>4, <1>11, TextsType
  <2>2. t \in Words /\ Len(t) = Len(p) /\ \A k \in 1 .. Len(p) : t[k] = TextOf(g, p[k])
    BY TextsType
  <2> HIDE DEF u, t
  <2>3. /\ v \in Words /\ Len(v) = Len(p) + 1 /\ v[Len(p) + 1] = s
        /\ \A k \in 1 .. Len(p) : v[k] = t[k]
    BY <2>2 DEF Words
  <2> HIDE DEF v
  <2>4. \A k \in 1 .. Len(u) : u[k] = v[k]
    BY <1>7, <1>8, <1>9, <1>10, <2>1, <2>2, <2>3
  <2>5. Len(u) = Len(v)
    BY <1>9, <2>1, <2>3
  <2>6. u = v
    BY ONLY <2>1, <2>3, <2>4, <2>5, SeqEqual DEF Words
  <2> QED
    BY <2>6 DEF u, v, t
<1> QED
  BY <1>4, <1>5, <1>11, <1>12 DEF q1

(* More in the last page. *)
Grown(p, m) == [p EXCEPT ![Len(p)].offset = @ + m]
Longer(w, s) == [w EXCEPT ![Len(w)] = @ \o s]

LEMMA SoundGrown ==
    ASSUME Restrained, NEW g, FileOK(g), NEW p, Sound(p, g), p # <<>>,
           NEW s \in Seq(Cell), Divides(Unit, p[Len(p)].offset + 1 + Len(s)),
           p[Len(p)].offset + 1 + Len(s) <= PageSize,
           NEW h, h = Pager!Written(g, Pager!Behind(p[Len(p)]), s),
           NEW u, u = Grown(p, Len(s))
    PROVE  /\ FileOK(h) /\ Sound(u, h) /\ Len(u) = Len(p)
           /\ \A k \in 1 .. Len(p) : u[k].flag = p[k].flag /\ u[k].index = p[k].index
           /\ \A k \in 1 .. Len(p) - 1 : u[k] = p[k]
           /\ Texts(h, u) = Longer(Texts(g, p), s)
<1>1. /\ p \in Pages /\ \A k \in 1 .. Len(p) : PageIn(p[k], g)
      /\ \A i, k \in 1 .. Len(p) : p[i].index = p[k].index => i = k
  BY DEF Sound
<1>2. Len(p) \in 1 .. Len(p) /\ Len(p) \in Nat
  BY <1>1 DEF Pages
<1> DEFINE N == Len(p)
           e == p[N]
           o == e.offset + 1
           x == [e EXCEPT !.offset = @ + Len(s)]
           b == e.index * PageSize + o
<1>3. e \in Pager!Page /\ PageIn(e, g) /\ e = p[N]
  BY <1>1, <1>2 DEF Pages
<1>4. N \in 1 .. Len(p) /\ N = Len(p) /\ N \in Nat
  BY <1>2
<1> HIDE DEF e, N
<1>5. /\ e.index \in 0 .. InitCap - 1 /\ o \in 1 .. PageSize /\ e.flag \in {0, 1}
      /\ o + Len(s) <= PageSize /\ Len(s) \in Nat /\ e.index * PageSize \in Nat
      /\ e.index \in Nat /\ PageSize \in Nat /\ e.offset \in Nat /\ o = e.offset + 1
      /\ Divides(Unit, o + Len(s)) /\ o \in 0 .. PageSize
  <2>1. /\ e.index \in 0 .. InitCap - 1 /\ o \in 1 .. PageSize /\ e.flag \in {0, 1}
        /\ e.offset \in Nat /\ o = e.offset + 1
    BY <1>3 DEF PageIn, Pager!Page
  <2>2. o + Len(s) <= PageSize /\ Divides(Unit, o + Len(s))
    BY DEF e, N
  <2> QED
    BY <2>1, <2>2, Sizes, ProductIn, SMTT(30)
<1> HIDE DEF o
<1>6. x \in Pager!Page /\ x.index = e.index /\ x.offset = e.offset + Len(s) /\ x.flag = e.flag
        /\ x.offset + 1 = o + Len(s)
  <2>1. e \in Pager!Page /\ e.offset \in Nat /\ Len(s) \in Nat /\ e.offset + Len(s) \in Nat
    BY <1>3, <1>5, SMTT(30)
  <2>2. x \in Pager!Page /\ x.index = e.index /\ x.offset = e.offset + Len(s) /\ x.flag = e.flag
    BY ONLY <2>1 DEF Pager!Page
  <2> HIDE DEF x
  <2> QED
    BY <1>5, <2>2
<1>8. u = [p EXCEPT ![N] = x]
  BY <1>4 DEF x, e, Grown
<1> HIDE DEF x
<1>7. /\ u \in Pages /\ Len(u) = Len(p) /\ u[N] = x
      /\ \A k \in 1 .. Len(p) : k # N => u[k] = p[k]
  BY <1>1, <1>4, <1>6, <1>8 DEF Pages
<1>9. b \in Nat /\ b = e.index * PageSize + o
  BY <1>5, SMTT(30)
<1>10. h = Pager!Written(g, b, s)
  <2>1. Pager!Behind(p[Len(p)]) = b
    <3>1. Pager!Behind(e) = e.index * PageSize + e.offset + 1
      BY DEF Pager!Behind, Pager!Start
    <3> DEFINE z0 == e.index * PageSize
    <3>2. z0 + e.offset + 1 = b
      <4>1. b = z0 + o /\ z0 \in Nat
        BY <1>5
      <4> HIDE DEF z0, b
      <4> QED
        BY <1>5, <4>1
    <3> QED
      BY <1>3, <1>4, <3>1, <3>2
  <2> QED
    BY <2>1
<1> HIDE DEF b
<1>11. FileOK(h) /\ g.len <= h.len /\ b + Len(s) <= h.len /\ Overwritten(h, g, b, s)
  BY ONLY Restrained, FileOK(g), s \in Seq(Cell), <1>9, <1>10, WrittenIs
<1>12. PageIn(x, h)
  <2>1. x.index * PageSize + x.offset + 1 <= h.len
    <3>1. x.index * PageSize + x.offset + 1 = b + Len(s)
      <4> DEFINE a == e.index * PageSize
      <4>1. x.index * PageSize = a /\ x.offset = e.offset + Len(s) /\ b = a + o
        BY <1>6, <1>9
      <4>2. a \in Nat /\ o = e.offset + 1 /\ e.offset \in Nat /\ Len(s) \in Nat
        BY <1>5
      <4> HIDE DEF a
      <4> QED
        BY ONLY <4>1, <4>2, SMTT(30)
    <3> QED
      BY <1>11, <3>1
  <2>2. x.offset + 1 \in 1 .. PageSize
    BY <1>5, <1>6, SMTT(30)
  <2> QED
    BY <1>5, <1>6, <2>1, <2>2 DEF PageIn
<1>13. TextOf(h, x) = TextOf(g, e) \o s
  <2> DEFINE y == TextOf(g, e)
             z == y \o s
  <2>1. y \in Seq(Cell) /\ Len(y) = o /\ y = [k \in 1 .. o |-> g.byte[e.index * PageSize + k - 1]]
    <3>1. y \in Seq(Cell) /\ Len(y) = e.offset + 1
      BY <1>3, TextType
    <3>2. y = [k \in 1 .. e.offset + 1 |-> g.byte[e.index * PageSize + k - 1]]
      BY DEF TextOf
    <3> QED
      BY <1>5, <3>1, <3>2
  <2> HIDE DEF y
  <2>2. z \in Seq(Cell) /\ Len(z) = o + Len(s)
    BY <1>5, <2>1
  <2>3. \A k \in 1 .. o : z[k] = y[k]
    BY <1>5, <2>1
  <2>4. \A k \in 1 .. Len(s) : z[o + k] = s[k]
    <3>1. y \in Seq(Cell) /\ Len(y) = o /\ o \in Nat
      BY <1>5, <2>1
    <3> QED
      BY ONLY <3>1, s \in Seq(Cell)
  <2>5. TextOf(h, x) \in Seq(Cell) /\ Len(TextOf(h, x)) = o + Len(s)
    BY <1>6, <1>11, <1>12, TextType
  <2>6. ASSUME NEW k \in 1 .. o + Len(s) PROVE TextOf(h, x)[k] = z[k]
    <3> DEFINE a == e.index * PageSize + k - 1
    <3>1. TextOf(h, x)[k] = h.byte[a]
      BY <1>6 DEF TextOf
    <3>2. k - 1 \in 0 .. PageSize /\ a = e.index * PageSize + (k - 1) /\ k \in Nat
      BY <1>5
    <3>3. a \in Pager!Places
      BY <1>5, <3>2, InPlaces
    <3>4. a = e.index * PageSize + k - 1
      OBVIOUS
    <3> HIDE DEF a
    <3>5. CASE k \in 1 .. o
      <4> DEFINE z0 == e.index * PageSize
      <4>1. a \notin b .. b + Len(s) - 1
        <5>1. z0 \in Nat /\ b = z0 + o /\ a = z0 + (k - 1) /\ k \in 1 .. o /\ o \in Nat
          BY <1>5, <1>9, <3>2, <3>5
        <5> HIDE DEF z0
        <5> QED
          BY ONLY <5>1
      <4>2. h.byte[a] = g.byte[a]
        BY <1>11, <3>3, <4>1, Zenon DEF Overwritten
      <4>3. y[k] = g.byte[a]
        BY <2>1, <3>4, <3>5
      <4> QED
        BY <2>3, <3>1, <3>5, <4>2, <4>3
    <3>6. CASE k \notin 1 .. o
      <4> DEFINE z0 == e.index * PageSize
      <4>1. a \in b .. b + Len(s) - 1 /\ a - b + 1 = k - o /\ k - o \in 1 .. Len(s)
              /\ o + (k - o) = k
        <5>1. /\ z0 \in Nat /\ b = z0 + o /\ a = z0 + (k - 1) /\ k \notin 1 .. o /\ o \in Nat
              /\ k \in 1 .. o + Len(s) /\ Len(s) \in Nat
          BY <1>5, <1>9, <3>2, <3>6
        <5> HIDE DEF z0, o
        <5> QED
          BY ONLY <5>1
      <4>2. h.byte[a] = s[k - o]
        <5>1. h.byte[a] = s[a - b + 1]
          BY <1>11, <3>3, <4>1, Zenon DEF Overwritten
        <5> QED
          BY <4>1, <5>1
      <4>3. z[k] = s[k - o]
        BY <2>4, <4>1
      <4> QED
        BY <3>1, <4>2, <4>3
    <3> QED
      BY <3>5, <3>6
  <2> HIDE DEF z
  <2>7. TextOf(h, x) = z
    BY <2>2, <2>5, <2>6, SeqEqual
  <2> QED
    BY <2>7 DEF z, y
<1>14. ASSUME NEW k \in 1 .. Len(p), k # N
       PROVE  PageIn(p[k], h) /\ TextOf(h, p[k]) = TextOf(g, p[k])
  <2> DEFINE y == p[k]
  <2>1. PageIn(y, g) /\ y.index # e.index
    BY <1>1, <1>3, <1>4, <1>14
  <2> HIDE DEF y
  <2>2. PageIn(y, h) /\ TextOf(h, y) = TextOf(g, y)
    BY <1>5, <1>9, <1>10, <2>1, WrittenElsewhere
  <2> QED
    BY <2>2 DEF y
<1>15. \A k \in 1 .. Len(p) : u[k].flag = p[k].flag /\ u[k].index = p[k].index
  BY <1>3, <1>6, <1>7
<1>16. Sound(u, h)
  <2>1. \A k \in 1 .. Len(u) : PageIn(u[k], h)
    BY <1>7, <1>12, <1>14
  <2>2. \A i, k \in 1 .. Len(u) : u[i].index = u[k].index => i = k
    BY <1>1, <1>7, <1>15
  <2> QED
    BY <1>7, <2>1, <2>2 DEF Sound
<1>17. Texts(h, u) = Longer(Texts(g, p), s)
  <2> DEFINE a == Texts(h, u)
             t == Texts(g, p)
             z == t[N] \o s
             v == [t EXCEPT ![N] = z]
  <2>1. /\ a \in Words /\ Len(a) = Len(u)
        /\ \A k \in 1 .. Len(u) : a[k] = TextOf(h, u[k])
    <3>1. FileOK(h) /\ Sound(u, h)
      BY <1>11, <1>16
    <3> QED
      BY ONLY Restrained, <3>1, TextsType
  <2>2. t \in Words /\ Len(t) = Len(p) /\ \A k \in 1 .. Len(p) : t[k] = TextOf(g, p[k])
    BY TextsType
  <2>3. v = Longer(t, s)
    <3>1. N = Len(t)
      BY <1>4, <2>2
    <3> QED
      BY <3>1 DEF Longer
  <2> HIDE DEF a, t
  <2>4. z \in Seq(Cell) /\ z = TextOf(g, e) \o s
    <3>1. t[N] \in Seq(Cell) /\ t[N] = TextOf(g, e)
      BY <1>3, <1>4, <2>2 DEF Words
    <3> QED
      BY <3>1
  <2> HIDE DEF z
  <2>5. /\ v \in Words /\ Len(v) = Len(p) /\ v[N] = z
        /\ \A k \in 1 .. Len(p) : k # N => v[k] = t[k]
    BY <1>4, <2>2, <2>4 DEF Words
  <2> HIDE DEF v
  <2>6. \A k \in 1 .. Len(a) : a[k] = v[k]
    <3> SUFFICES ASSUME NEW k \in 1 .. Len(a) PROVE a[k] = v[k]
      OBVIOUS
    <3>1. k \in 1 .. Len(p) /\ a[k] = TextOf(h, u[k])
      BY <1>7, <2>1
    <3>2. CASE k = N
      BY <1>7, <1>13, <2>4, <2>5, <3>1, <3>2
    <3>3. CASE k # N
      <4>1. TextOf(h, p[k]) = TextOf(g, p[k])
        BY <1>14, <3>1, <3>3
      <4> QED
        BY <1>7, <2>2, <2>5, <3>1, <3>3, <4>1
    <3> QED
      BY <3>2, <3>3
  <2>7. Len(a) = Len(v)
    BY <1>7, <2>1, <2>5
  <2>8. a = v
    BY ONLY <2>1, <2>5, <2>6, <2>7, SeqEqual DEF Words
  <2> QED
    BY <2>3, <2>8 DEF a, t
<1>18. \A k \in 1 .. Len(p) - 1 : u[k] = p[k]
  BY <1>4, <1>7
<1> QED
  BY <1>7, <1>8, <1>11, <1>15, <1>16, <1>17, <1>18

-----------------------------------------------------------------------------
(* What the file operations of a call come to: from the files f and x they *)
(* lead to g and y.                                                        *)
Heads == [size : Nat, cnt : Nat]
IndexFile == [head : Heads, pcb : Pages]
Op == [kind : {"page"}, at : Nat, bytes : Seq(Cell)]
        \cup [kind : {"truncate"}, len : Nat] \cup [kind : {"index"}, pcb : IndexFile]

OpStep(e, f, x, g, y) ==
    \/ e.kind = "page" /\ g = Pager!Written(f, e.at, e.bytes) /\ y = x
    \/ e.kind = "truncate" /\ g = Pager!Cut(f, e.len) /\ y = x
    \/ e.kind = "index" /\ g = f /\ y = e.pcb

LeadsBy(ops, fs, xs) ==
    \A k \in 1 .. Len(ops) : OpStep(ops[k], fs[k - 1], xs[k - 1], fs[k], xs[k])

Leads(ops, f, x, g, y) ==
    \E fs, xs : /\ fs[0] = f /\ xs[0] = x /\ fs[Len(ops)] = g /\ xs[Len(ops)] = y
                /\ LeadsBy(ops, fs, xs)

LEMMA OpStepOnce ==
    ASSUME NEW e, NEW f, NEW x, NEW g, NEW y, NEW h, NEW z,
           OpStep(e, f, x, g, y), OpStep(e, f, x, h, z)
    PROVE  g = h /\ y = z
<1>1. "page" # "truncate" /\ "page" # "index" /\ "truncate" # "index"
  OBVIOUS
<1> QED
  BY <1>1, Zenon DEF OpStep

LEMMA LeadsNone ==
    ASSUME NEW f, NEW x, NEW g, NEW y
    PROVE  Leads(<<>>, f, x, g, y) <=> g = f /\ y = x
<1>1. Len(<<>>) = 0
  OBVIOUS
<1>2. Leads(<<>>, f, x, g, y) => g = f /\ y = x
  BY <1>1 DEF Leads
<1>3. Leads(<<>>, f, x, f, x)
  <2> DEFINE fs == [k \in {0} |-> f]
             xs == [k \in {0} |-> x]
  <2>1. fs[0] = f /\ xs[0] = x
    OBVIOUS
  <2>2. LeadsBy(<<>>, fs, xs)
    BY <1>1 DEF LeadsBy
  <2> HIDE DEF fs, xs
  <2> QED
    BY <1>1, <2>1, <2>2 DEF Leads
<1> QED
  BY <1>2, <1>3

LEMMA LeadsOne ==
    ASSUME NEW e, NEW f, NEW x, NEW g, NEW y, OpStep(e, f, x, g, y)
    PROVE  Leads(<< e >>, f, x, g, y)
<1> DEFINE fs == [k \in {0, 1} |-> IF k = 0 THEN f ELSE g]
           xs == [k \in {0, 1} |-> IF k = 0 THEN x ELSE y]
<1>1. Len(<< e >>) = 1 /\ << e >>[1] = e
  OBVIOUS
<1>2. fs[0] = f /\ xs[0] = x /\ fs[1] = g /\ xs[1] = y
  OBVIOUS
<1> HIDE DEF fs, xs
<1>3. \A k \in 1 .. 1 : k = 1 /\ k - 1 = 0
  OBVIOUS
<1>4. LeadsBy(<< e >>, fs, xs)
  BY <1>1, <1>2, <1>3 DEF LeadsBy
<1> QED
  BY <1>1, <1>2, <1>4 DEF Leads

LEMMA LeadsThen ==
    ASSUME NEW S, NEW a \in Seq(S), NEW b \in Seq(S), NEW f, NEW x, NEW g, NEW y, NEW h, NEW z,
           Leads(a, f, x, g, y), Leads(b, g, y, h, z)
    PROVE  Leads(a \o b, f, x, h, z)
<1>1. PICK fs, xs : /\ fs[0] = f /\ xs[0] = x /\ fs[Len(a)] = g /\ xs[Len(a)] = y
                    /\ LeadsBy(a, fs, xs)
  BY DEF Leads
<1>2. PICK gs, ys : /\ gs[0] = g /\ ys[0] = y /\ gs[Len(b)] = h /\ ys[Len(b)] = z
                    /\ LeadsBy(b, gs, ys)
  BY DEF Leads
<1> DEFINE m == Len(a)
           n == Len(b)
           c == a \o b
           us == [k \in 0 .. m + n |-> IF k <= m THEN fs[k] ELSE gs[k - m]]
           vs == [k \in 0 .. m + n |-> IF k <= m THEN xs[k] ELSE ys[k - m]]
<1>3. m \in Nat /\ n \in Nat /\ Len(c) = m + n
  OBVIOUS
<1>4. /\ \A k \in 1 .. m : c[k] = a[k]
      /\ \A k \in 1 .. n : c[m + k] = b[k]
  OBVIOUS
<1>5. m = Len(a) /\ n = Len(b)
  OBVIOUS
<1> HIDE DEF m, n, c
<1>6. \A k \in 0 .. m : us[k] = fs[k] /\ vs[k] = xs[k]
  BY <1>3
<1>7. \A k \in 0 .. n : us[m + k] = gs[k] /\ vs[m + k] = ys[k]
  <2> SUFFICES ASSUME NEW k \in 0 .. n PROVE us[m + k] = gs[k] /\ vs[m + k] = ys[k]
    OBVIOUS
  <2>1. CASE k = 0
    <3>1. m + k = m /\ m \in 0 .. m
      BY <1>3, <2>1
    <3> HIDE DEF us, vs
    <3> QED
      BY <1>1, <1>2, <1>5, <1>6, <2>1, <3>1
  <2>2. CASE k # 0
    <3>1. m + k \in 0 .. m + n /\ ~(m + k <= m) /\ (m + k) - m = k
      BY <1>3, <2>2
    <3> QED
      BY <3>1
  <2> QED
    BY <2>1, <2>2
<1> HIDE DEF us, vs
<1>8. ASSUME NEW k \in 1 .. m + n
      PROVE  OpStep(c[k], us[k - 1], vs[k - 1], us[k], vs[k])
  <2>1. CASE k \in 1 .. m
    <3>1. k \in 0 .. m /\ k - 1 \in 0 .. m
      BY <1>3, <2>1
    <3>2. OpStep(a[k], fs[k - 1], xs[k - 1], fs[k], xs[k])
      BY <1>1, <1>5, <2>1 DEF LeadsBy
    <3> QED
      BY <1>4, <1>6, <2>1, <3>1, <3>2
  <2>2. CASE k \notin 1 .. m
    <3> DEFINE i == k - m
    <3>1. i \in 1 .. n /\ i \in 0 .. n /\ i - 1 \in 0 .. n /\ m + i = k /\ m + (i - 1) = k - 1
      BY <1>3, <2>2
    <3> HIDE DEF i
    <3>2. OpStep(b[i], gs[i - 1], ys[i - 1], gs[i], ys[i])
      BY <1>2, <1>5, <3>1 DEF LeadsBy
    <3>3. /\ us[k] = gs[i] /\ vs[k] = ys[i] /\ us[k - 1] = gs[i - 1] /\ vs[k - 1] = ys[i - 1]
          /\ c[k] = b[i]
      BY <1>4, <1>7, <3>1
    <3> QED
      BY <3>2, <3>3
  <2> QED
    BY <2>1, <2>2
<1>9. LeadsBy(c, us, vs)
  BY <1>3, <1>8 DEF LeadsBy
<1>10. us[0] = f /\ vs[0] = x /\ us[Len(c)] = h /\ vs[Len(c)] = z
  <2>1. 0 \in 0 .. m /\ n \in 0 .. n
    BY <1>3
  <2> QED
    BY <1>1, <1>2, <1>3, <1>5, <1>6, <1>7, <2>1
<1>11. Leads(c, f, x, h, z)
  BY <1>9, <1>10 DEF Leads
<1> QED
  BY <1>11 DEF c

LEMMA LeadsFirst ==
    ASSUME NEW S, NEW ops \in Seq(S), ops # <<>>, NEW f, NEW x, NEW g, NEW y, NEW h, NEW z,
           Leads(ops, f, x, g, y), OpStep(Head(ops), f, x, h, z)
    PROVE  Leads(Tail(ops), h, z, g, y) /\ Tail(ops) \in Seq(S)
<1>1. PICK fs, xs : /\ fs[0] = f /\ xs[0] = x /\ fs[Len(ops)] = g /\ xs[Len(ops)] = y
                    /\ LeadsBy(ops, fs, xs)
  BY DEF Leads
<1> DEFINE m == Len(ops) - 1
           s == Tail(ops)
           us == [k \in 0 .. m |-> fs[k + 1]]
           vs == [k \in 0 .. m |-> xs[k + 1]]
<1>2. m \in Nat /\ Len(ops) = m + 1 /\ Head(ops) = ops[1]
  OBVIOUS
<1>3. s \in Seq(S) /\ Len(s) = m /\ \A k \in 1 .. m : s[k] = ops[k + 1]
  OBVIOUS
<1> HIDE DEF m, s
<1>4. \A k \in 0 .. m : us[k] = fs[k + 1] /\ vs[k] = xs[k + 1]
  OBVIOUS
<1> HIDE DEF us, vs
<1>5. \A k \in 1 .. m + 1 : OpStep(ops[k], fs[k - 1], xs[k - 1], fs[k], xs[k])
  BY <1>1, <1>2 DEF LeadsBy
<1>6. fs[1] = h /\ xs[1] = z
  <2>1. 1 \in 1 .. m + 1 /\ 1 - 1 = 0
    BY <1>2
  <2>2. OpStep(ops[1], fs[0], xs[0], fs[1], xs[1])
    BY <1>5, <2>1
  <2>3. OpStep(ops[1], f, x, fs[1], xs[1])
    BY <1>1, <2>2
  <2> QED
    BY <1>2, <2>3, OpStepOnce
<1>7. ASSUME NEW k \in 1 .. m PROVE OpStep(s[k], us[k - 1], vs[k - 1], us[k], vs[k])
  <2>1. k + 1 \in 1 .. m + 1 /\ (k + 1) - 1 = k /\ k - 1 \in 0 .. m /\ (k - 1) + 1 = k
          /\ k \in 0 .. m
    BY <1>2
  <2>2. OpStep(ops[k + 1], fs[k], xs[k], fs[k + 1], xs[k + 1])
    BY <1>5, <2>1
  <2>3. us[k - 1] = fs[k] /\ vs[k - 1] = xs[k] /\ us[k] = fs[k + 1] /\ vs[k] = xs[k + 1]
    BY <1>4, <2>1
  <2> QED
    BY <1>3, <2>2, <2>3
<1>8. LeadsBy(s, us, vs)
  BY <1>3, <1>7 DEF LeadsBy
<1>9. us[0] = h /\ vs[0] = z /\ us[Len(s)] = g /\ vs[Len(s)] = y
  <2>1. 0 \in 0 .. m /\ m \in 0 .. m /\ 0 + 1 = 1
    BY <1>2
  <2> QED
    BY <1>1, <1>2, <1>3, <1>4, <1>6, <2>1
<1>10. Leads(s, h, z, g, y)
  BY <1>8, <1>9 DEF Leads
<1> QED
  BY <1>3, <1>10 DEF s

LEMMA WritePCBLeads ==
    ASSUME NEW h \in Heads, NEW p \in Pages, NEW f, NEW x
    PROVE  /\ Pager!WritePCB(h, p) \in Seq(Op)
           /\ Leads(Pager!WritePCB(h, p), f, x, f, [head |-> h, pcb |-> p])
<1> DEFINE new == [head |-> h, pcb |-> p]
           a == [kind |-> "index", pcb |-> Pager!Empty]
           b == [kind |-> "index", pcb |-> new]
<1>1. new \in IndexFile /\ Pager!Empty \in IndexFile
  <2>1. <<>> \in Pages
    BY DEF Pages
  <2> QED
    BY <2>1 DEF IndexFile, Heads, Pager!Empty
<1> HIDE DEF new
<1>2. a \in Op /\ b \in Op
  BY <1>1 DEF Op
<1>3. OpStep(a, f, x, f, Pager!Empty) /\ OpStep(b, f, Pager!Empty, f, new)
  BY DEF OpStep
<1>4. Pager!WritePCB(h, p) = << a, b >>
  BY DEF Pager!WritePCB, new
<1> HIDE DEF a, b
<1>5. << a >> \in Seq(Op) /\ << b >> \in Seq(Op) /\ << a, b >> = << a >> \o << b >>
        /\ << a, b >> \in Seq(Op)
  <2>1. << a >> \in Seq(Op) /\ << b >> \in Seq(Op)
    BY <1>2
  <2>2. << a, b >> \in Seq(Op)
    BY <1>2
  <2>3. << a, b >> = << a >> \o << b >>
    <3> DEFINE u == << a >> \o << b >>
               v == << a, b >>
    <3>1. u \in Seq(Op) /\ Len(u) = 2 /\ u[1] = a /\ u[2] = b
      BY <1>2
    <3>2. v \in Seq(Op) /\ Len(v) = 2 /\ v[1] = a /\ v[2] = b
      BY <1>2
    <3> HIDE DEF u, v
    <3>3. \A i \in 1 .. Len(u) : u[i] = v[i]
      BY <3>1, <3>2
    <3>4. u = v
      BY ONLY <3>1, <3>2, <3>3, SeqEqual
    <3> QED
      BY <3>4 DEF u, v
  <2> QED
    BY <2>1, <2>2, <2>3
<1>6. Leads(<< a >>, f, x, f, Pager!Empty) /\ Leads(<< b >>, f, Pager!Empty, f, new)
  BY <1>3, LeadsOne
<1>7. Leads(<< a >> \o << b >>, f, x, f, new)
  BY <1>5, <1>6, LeadsThen
<1> QED
  BY <1>4, <1>5, <1>7 DEF new

LEMMA WritePageLeads ==
    ASSUME NEW b \in Nat, NEW s \in Seq(Cell), NEW f, NEW x
    PROVE  /\ << Pager!WritePage(b, s) >> \in Seq(Op)
           /\ Leads(<< Pager!WritePage(b, s) >>, f, x, Pager!Written(f, b, s), x)
<1> DEFINE e == Pager!WritePage(b, s)
<1>1. e \in Op /\ e.kind = "page" /\ e.at = b /\ e.bytes = s
  BY DEF Op, Pager!WritePage
<1> HIDE DEF e
<1>2. OpStep(e, f, x, Pager!Written(f, b, s), x)
  BY <1>1 DEF OpStep
<1>3. << e >> \in Seq(Op)
  BY <1>1
<1> QED
  BY <1>2, <1>3, LeadsOne DEF e

LEMMA PageThenIndexLeads ==
    ASSUME NEW b \in Nat, NEW s \in Seq(Cell), NEW late \in BOOLEAN,
           NEW h \in Heads, NEW p \in Pages, NEW f, NEW x
    PROVE  LET ops == Pager!PageThenIndex(Pager!WritePage(b, s), late, h, p)
           IN  /\ ops \in Seq(Op)
               /\ Leads(ops, f, x, Pager!Written(f, b, s), [head |-> h, pcb |-> p])
<1> DEFINE w == << Pager!WritePage(b, s) >>
           i == Pager!WritePCB(h, p)
           g == Pager!Written(f, b, s)
           y == [head |-> h, pcb |-> p]
<1>1. /\ w \in Seq(Op) /\ Leads(w, f, x, g, x) /\ Leads(w, f, y, g, y)
      /\ i \in Seq(Op) /\ Leads(i, f, x, f, y) /\ Leads(i, g, x, g, y)
  BY WritePageLeads, WritePCBLeads
<1>2. Append(i, Pager!WritePage(b, s)) = i \o w
  <2>1. Pager!WritePage(b, s) \in Op
    BY DEF Op, Pager!WritePage
  <2> DEFINE e == Pager!WritePage(b, s)
  <2> HIDE DEF e, i
  <2> QED
    BY <1>1, <2>1 DEF e
<1>3. Pager!PageThenIndex(Pager!WritePage(b, s), late, h, p) = IF late THEN i \o w ELSE w \o i
  BY <1>2 DEF Pager!PageThenIndex
<1> HIDE DEF w, i, g, y
<1>4. Leads(i \o w, f, x, g, y) /\ Leads(w \o i, f, x, g, y)
  BY <1>1, LeadsThen
<1>5. i \o w \in Seq(Op) /\ w \o i \in Seq(Op)
  BY <1>1
<1> QED
  BY <1>3, <1>4, <1>5 DEF g, y

-----------------------------------------------------------------------------
(* The pages p of the file g keep the runs w. *)
Keeps(g, p, w) == FileOK(g) /\ Sound(p, g) /\ Holds(p, Texts(g, p), w)

LEMMA KeepsSay ==
    ASSUME NEW g, NEW p, NEW w, Keeps(g, p, w)
    PROVE  /\ FileOK(g) /\ Sound(p, g) /\ p \in Pages /\ Len(p) \in Nat /\ w \in Words
           /\ Len(w) \in Nat /\ Holds(p, Texts(g, p), w)
           /\ \A k \in 1 .. Len(p) : PageIn(p[k], g) /\ p[k] \in Pager!Page
           /\ \A j, k \in 1 .. Len(p) : p[j].index = p[k].index => j = k
<1>1. FileOK(g) /\ Sound(p, g) /\ Holds(p, Texts(g, p), w)
  BY DEF Keeps
<1>2. p \in Pages /\ Len(p) \in Nat
  BY <1>1 DEF Sound, Pages
<1>3. w \in Words /\ Len(w) \in Nat
  <2>1. PICK n, c : HoldsBy(n, c, p, Texts(g, p), w)
    BY <1>1 DEF Holds
  <2>2. w \in Words
    BY <2>1, HoldsSay
  <2> QED
    BY <2>2 DEF Words
<1> QED
  BY <1>1, <1>2, <1>3 DEF Sound, PageIn

LEMMA KeepsNone ==
    ASSUME NEW g, FileOK(g)
    PROVE  Keeps(g, <<>>, <<>>)
<1>1. Sound(<<>>, g)
  BY DEF Sound, Pages
<1>2. Texts(g, <<>>) = <<>>
  BY DEF Texts
<1>3. HoldsBy(0, [k \in 1 .. 1 |-> 1], <<>>, <<>>, <<>>)
  BY CutsEmpty DEF HoldsBy, Words
<1> QED
  BY <1>1, <1>2, <1>3 DEF Keeps, Holds

LEMMA KeepsPopped ==
    ASSUME Restrained, NEW g, NEW p, NEW w, Keeps(g, p, w), p # <<>>
    PROVE  /\ Pager!FrontLen(p) \in 1 .. Len(p)
           /\ Keeps(g, SubSeq(p, Pager!FrontLen(p) + 1, Len(p)), Tail(w))
           /\ w # <<>>
<1> DEFINE m == Pager!FrontLen(p)
           s == SubSeq(p, m + 1, Len(p))
<1>1. /\ FileOK(g) /\ Sound(p, g) /\ p \in Pages /\ Len(p) \in Nat /\ w \in Words
      /\ Holds(p, Texts(g, p), w)
  BY KeepsSay
<1>2. /\ m \in 1 .. Len(p) /\ w # <<>>
      /\ Holds(s, SubSeq(Texts(g, p), m + 1, Len(p)), Tail(w))
  BY <1>1, HoldsPopped
<1>3. m + 1 \in Nat \ {0} /\ m + 1 <= Len(p) + 1
  BY <1>1, <1>2
<1> DEFINE a == m + 1
<1> HIDE DEF m
<1>4. Sound(s, g) /\ Texts(g, s) = SubSeq(Texts(g, p), a, Len(p))
  <2> DEFINE b == Len(p)
  <2>1. a \in Nat \ {0} /\ b \in Nat /\ a <= b + 1 /\ b <= Len(p)
    BY <1>1, <1>3
  <2>2. FileOK(g) /\ Sound(p, g)
    BY <1>1
  <2> HIDE DEF a, b
  <2>3. Sound(SubSeq(p, a, b), g) /\ Texts(g, SubSeq(p, a, b)) = SubSeq(Texts(g, p), a, b)
    BY ONLY <2>1, <2>2, Restrained, SoundPart
  <2> QED
    BY <2>3 DEF a, b
<1>5. Keeps(g, s, Tail(w))
  BY <1>1, <1>2, <1>4 DEF Keeps
<1> QED
  BY <1>2, <1>5 DEF m

LEMMA KeepsPrefix ==
    ASSUME Restrained, NEW g, NEW p, NEW w, Keeps(g, p, w), NEW k \in 0 .. Len(p)
    PROVE  \E v : /\ Keeps(g, SubSeq(p, 1, Len(p) - k), v)
                  /\ Found(v, w, k) /\ (k = 0 => v = w)
<1> DEFINE b == Len(p) - k
<1>1. /\ FileOK(g) /\ Sound(p, g) /\ p \in Pages /\ Len(p) \in Nat /\ w \in Words
      /\ Holds(p, Texts(g, p), w)
  BY KeepsSay
<1>2. PICK v : /\ Holds(SubSeq(p, 1, b), SubSeq(Texts(g, p), 1, b), v)
               /\ Found(v, w, k) /\ (k = 0 => v = w)
  BY <1>1, HoldsPrefix
<1>3. b \in Nat /\ 1 <= b + 1 /\ b <= Len(p) /\ 1 \in Nat \ {0}
  BY <1>1
<1> HIDE DEF b
<1>4. Sound(SubSeq(p, 1, b), g) /\ Texts(g, SubSeq(p, 1, b)) = SubSeq(Texts(g, p), 1, b)
  BY <1>1, <1>3, SoundPart
<1>5. Keeps(g, SubSeq(p, 1, b), v)
  BY <1>1, <1>2, <1>4 DEF Keeps
<1> QED
  BY <1>2, <1>5 DEF b

LEMMA KeepsNew ==
    ASSUME Restrained, NEW g, NEW p, NEW w, Keeps(g, p, w),
           NEW j \in 0 .. InitCap - 1, \A k \in 1 .. Len(p) : p[k].index # j,
           NEW s \in Seq(Cell), Len(s) \in 1 .. PageSize, Divides(Unit, Len(s)),
           NEW f \in {0, 1}, p = <<>> \/ p[Len(p)].flag # f
    PROVE  LET e == [index |-> j, offset |-> Len(s) - 1, flag |-> f]
           IN  Keeps(Pager!Written(g, j * PageSize, s), Append(p, e), Append(w, s))
<1> DEFINE e == [index |-> j, offset |-> Len(s) - 1, flag |-> f]
           h == Pager!Written(g, j * PageSize, s)
<1>1. /\ FileOK(g) /\ Sound(p, g) /\ p \in Pages /\ Holds(p, Texts(g, p), w)
  BY KeepsSay
<1>2. /\ FileOK(h) /\ Sound(Append(p, e), h) /\ e \in Pager!Page
      /\ Texts(h, Append(p, e)) = Append(Texts(g, p), s)
  <2>1. h = Pager!Written(g, j * PageSize, s) /\ e = [index |-> j, offset |-> Len(s) - 1, flag |-> f]
    OBVIOUS
  <2> HIDE DEF h, e
  <2> QED
    BY ONLY Restrained, <1>1, <2>1, j \in 0 .. InitCap - 1, f \in {0, 1}, s \in Seq(Cell),
            \A k \in 1 .. Len(p) : p[k].index # j, Len(s) \in 1 .. PageSize,
            Divides(Unit, Len(s)), SoundAppend
<1>3. e.flag = f
  OBVIOUS
<1> HIDE DEF e, h
<1>4. Holds(Append(p, e), Append(Texts(g, p), s), Append(w, s))
  <2>1. p = <<>> \/ p[Len(p)].flag # e.flag
    BY <1>3
  <2> QED
    BY <1>1, <1>2, <2>1, HoldsNew
<1>5. Keeps(h, Append(p, e), Append(w, s))
  BY <1>2, <1>4 DEF Keeps
<1> QED
  BY <1>5 DEF e, h

LEMMA KeepsMore ==
    ASSUME Restrained, NEW g, NEW p, NEW w, Keeps(g, p, w),
           NEW j \in 0 .. InitCap - 1, \A k \in 1 .. Len(p) : p[k].index # j,
           NEW s \in Seq(Cell), Len(s) \in 1 .. PageSize, Divides(Unit, Len(s)),
           NEW f \in {0, 1}, p # <<>>, p[Len(p)].flag = f
    PROVE  LET e == [index |-> j, offset |-> Len(s) - 1, flag |-> f]
           IN  Keeps(Pager!Written(g, j * PageSize, s), Append(p, e), Longer(w, s))
<1> DEFINE e == [index |-> j, offset |-> Len(s) - 1, flag |-> f]
           h == Pager!Written(g, j * PageSize, s)
<1>1. /\ FileOK(g) /\ Sound(p, g) /\ p \in Pages /\ Holds(p, Texts(g, p), w)
  BY KeepsSay
<1>2. /\ FileOK(h) /\ Sound(Append(p, e), h) /\ e \in Pager!Page
      /\ Texts(h, Append(p, e)) = Append(Texts(g, p), s)
  <2>1. h = Pager!Written(g, j * PageSize, s) /\ e = [index |-> j, offset |-> Len(s) - 1, flag |-> f]
    OBVIOUS
  <2> HIDE DEF h, e
  <2> QED
    BY ONLY Restrained, <1>1, <2>1, j \in 0 .. InitCap - 1, f \in {0, 1}, s \in Seq(Cell),
            \A k \in 1 .. Len(p) : p[k].index # j, Len(s) \in 1 .. PageSize,
            Divides(Unit, Len(s)), SoundAppend
<1>3. e.flag = f
  OBVIOUS
<1> HIDE DEF e, h
<1>4. Holds(Append(p, e), Append(Texts(g, p), s), Longer(w, s))
  <2>1. p # <<>> /\ p[Len(p)].flag = e.flag
    BY <1>3
  <2> QED
    BY <1>1, <1>2, <2>1, HoldsMore DEF Longer
<1>5. Keeps(h, Append(p, e), Longer(w, s))
  BY <1>2, <1>4 DEF Keeps
<1> QED
  BY <1>5 DEF e, h

LEMMA KeepsGrown ==
    ASSUME Restrained, NEW g, NEW p, NEW w, Keeps(g, p, w), p # <<>>,
           NEW s \in Seq(Cell), Divides(Unit, p[Len(p)].offset + 1 + Len(s)),
           p[Len(p)].offset + 1 + Len(s) <= PageSize
    PROVE  LET u == Grown(p, Len(s))
           IN  /\ Keeps(Pager!Written(g, Pager!Behind(p[Len(p)]), s), u, Longer(w, s))
               /\ Len(u) = Len(p)
               /\ \A k \in 1 .. Len(p) : u[k].flag = p[k].flag /\ u[k].index = p[k].index
               /\ \A k \in 1 .. Len(p) - 1 : u[k] = p[k]
<1> DEFINE u == Grown(p, Len(s))
           h == Pager!Written(g, Pager!Behind(p[Len(p)]), s)
<1>1. /\ FileOK(g) /\ Sound(p, g) /\ p \in Pages /\ Holds(p, Texts(g, p), w)
  BY KeepsSay
<1>2. /\ FileOK(h) /\ Sound(u, h) /\ Len(u) = Len(p)
      /\ \A k \in 1 .. Len(p) : u[k].flag = p[k].flag /\ u[k].index = p[k].index
      /\ \A k \in 1 .. Len(p) - 1 : u[k] = p[k]
      /\ Texts(h, u) = Longer(Texts(g, p), s)
  <2>1. h = Pager!Written(g, Pager!Behind(p[Len(p)]), s)
          /\ u = Grown(p, Len(s))
    OBVIOUS
  <2> HIDE DEF h, u
  <2> QED
    BY ONLY Restrained, <1>1, <2>1, p # <<>>, s \in Seq(Cell),
            Divides(Unit, p[Len(p)].offset + 1 + Len(s)),
            p[Len(p)].offset + 1 + Len(s) <= PageSize, SoundGrown
<1> HIDE DEF u, h
<1>3. Holds(p, Longer(Texts(g, p), s), Longer(w, s))
  <2>1. Len(Texts(g, p)) = Len(p)
    BY <1>1 DEF Texts, Pages
  <2> QED
    BY <1>1, <2>1, HoldsGrown DEF Longer
<1> DEFINE t == Longer(Texts(g, p), s)
           v == Longer(w, s)
<1>4. Holds(u, t, v)
  <2>1. Holds(p, t, v) /\ u \in Pages /\ Len(u) = Len(p)
          /\ \A k \in 1 .. Len(p) : u[k].flag = p[k].flag
    BY <1>2, <1>3 DEF Sound
  <2> HIDE DEF t, v
  <2> QED
    BY <1>1, <2>1, HoldsFlags
<1>5. Keeps(h, u, v)
  <2>1. Texts(h, u) = t
    BY <1>2
  <2> QED
    BY <1>2, <1>4, <2>1 DEF Keeps
<1> QED
  BY <1>2, <1>5 DEF u, h

LEMMA KeepsContents ==
    ASSUME Restrained, NEW p, NEW w, Keeps(file, p, w)
    PROVE  Pager!Contents(p) = w
<1>1. /\ p \in Pages /\ Len(p) \in Nat /\ w \in Words /\ Holds(p, Texts(file, p), w)
      /\ \A k \in 1 .. Len(p) : PageIn(p[k], file) /\ p[k] \in Pager!Page
  BY KeepsSay
<1>2. \A k \in 1 .. Len(p) : Texts(file, p)[k] = TextOf(file, p[k])
  BY <1>1 DEF Texts
<1>3. ASSUME NEW k \in 1 .. Len(p)
      PROVE  Pager!Readable(p[k]) /\ Pager!Bytes(p[k]) = Texts(file, p)[k]
  <2>1. PageIn(p[k], file)
    BY <1>1
  <2>2. Pager!Readable(p[k])
    BY <2>1 DEF PageIn, Pager!Readable, Pager!Start
  <2>3. Pager!Bytes(p[k]) = TextOf(file, p[k])
    BY DEF Pager!Bytes, Pager!Start, TextOf
  <2> QED
    BY <1>2, <2>2, <2>3
<1> QED
  BY <1>1, <1>3, ContentsIs

-----------------------------------------------------------------------------
(* The count of the head has 16 bits: with the runs it misses it is the    *)
(* number of the runs, but for a multiple of 65536.                        *)
Two16 == 65536

Counts(c, m, n) == \E z \in Int : c + m - n = Two16 * z

LEMMA Wrapped ==
    ASSUME NEW x \in Int
    PROVE  /\ (x % 65536) \in Nat /\ (x % 65536) < 65536
           /\ \E z \in Int : x = 65536 * z + (x % 65536)
<1>1. (x % 65536) \in Nat /\ (x % 65536) < 65536
  OBVIOUS
<1>2. x = 65536 * (x \div 65536) + (x % 65536) /\ x \div 65536 \in Int
  OBVIOUS
<1> DEFINE d == x \div 65536
<1>3. d \in Int /\ x = 65536 * d + (x % 65536)
  BY <1>2
<1> HIDE DEF d
<1> QED
  BY <1>1, <1>3

LEMMA CountsNone ==
    ASSUME NEW x \in Nat
    PROVE  Counts(x % 65536, 0, x)
<1> DEFINE y == x % 65536
<1>1. PICK z \in Int : x = 65536 * z + y
  BY Wrapped
<1>2. y \in Nat
  BY Wrapped
<1> HIDE DEF y
<1>3. y + 0 - x = Two16 * (-z) /\ -z \in Int
  BY <1>1, <1>2 DEF Two16
<1>4. Counts(y, 0, x)
  BY <1>3, Zenon DEF Counts
<1> QED
  BY <1>4 DEF y

LEMMA CountsBy ==
    ASSUME NEW c \in Int, NEW m \in Int, NEW n \in Int, Counts(c, m, n), NEW d \in Int
    PROVE  Counts((c + d) % 65536, m, n + d) /\ ((c + d) % 65536) \in Nat
<1> DEFINE y == (c + d) % 65536
           k == n + d
<1>1. c + d \in Int
  OBVIOUS
<1>2. PICK z \in Int : c + d = 65536 * z + y
  BY <1>1, Wrapped
<1>3. y \in Nat
  BY <1>1, Wrapped
<1>4. PICK x \in Int : c + m - n = Two16 * x
  BY Zenon DEF Counts
<1>5. k = n + d
  OBVIOUS
<1> HIDE DEF y, k
<1>6. y + m - k = Two16 * (x - z) /\ x - z \in Int
  BY <1>2, <1>3, <1>4, <1>5 DEF Two16
<1>7. Counts(y, m, k)
  BY <1>6, Zenon DEF Counts
<1> QED
  BY <1>3, <1>7 DEF y, k

LEMMA CountsDown ==
    ASSUME NEW c \in Int, NEW m \in Int, NEW n \in Int, Counts(c, m, n)
    PROVE  Counts((c - 1) % 65536, m, n - 1) /\ ((c - 1) % 65536) \in Nat
<1>1. c + (-1) = c - 1 /\ n + (-1) = n - 1 /\ -1 \in Int
  OBVIOUS
<1>2. Counts((c + (-1)) % 65536, m, n + (-1)) /\ ((c + (-1)) % 65536) \in Nat
  BY <1>1, CountsBy
<1> QED
  BY <1>1, <1>2

LEMMA CountsUp ==
    ASSUME NEW c \in Int, NEW m \in Int, NEW n \in Int, Counts(c, m, n)
    PROVE  Counts((c + 1) % 65536, m, n + 1) /\ ((c + 1) % 65536) \in Nat
<1>1. 1 \in Int
  OBVIOUS
<1> QED
  BY ONLY <1>1, c \in Int, m \in Int, n \in Int, Counts(c, m, n), CountsBy

LEMMA CountsLeft ==
    ASSUME NEW c \in Int, NEW m \in Int, NEW n \in Int, Counts(c, m, n), NEW d \in Int
    PROVE  Counts(c, m + d, n + d)
<1> DEFINE j == m + d
           k == n + d
<1>1. j = m + d /\ k = n + d
  OBVIOUS
<1>2. PICK x \in Int : c + m - n = Two16 * x
  BY Zenon DEF Counts
<1> HIDE DEF j, k
<1>3. c + j - k = Two16 * x
  BY <1>1, <1>2
<1>4. Counts(c, j, k)
  BY <1>3, Zenon DEF Counts
<1> QED
  BY <1>4 DEF j, k

LEMMA CountsIs ==
    ASSUME NEW c \in Int, NEW m \in Int, NEW n \in Nat, Counts(c, m, n), n < 65536
    PROVE  (c + m) % 65536 = n
<1> DEFINE s == c + m
           y == s % 65536
<1>1. s \in Int /\ s = c + m
  OBVIOUS
<1> HIDE DEF s
<1>2. PICK z \in Int : s = 65536 * z + y
  BY <1>1, Wrapped
<1>3. y \in Nat /\ y < 65536
  BY <1>1, Wrapped
<1>4. PICK x \in Int : c + m - n = Two16 * x
  BY ONLY Counts(c, m, n), Zenon DEF Counts
<1> HIDE DEF y
<1>5. y = n
  BY ONLY <1>1, <1>2, <1>3, <1>4, n \in Nat, n < 65536, x \in Int, z \in Int, c \in Int, m \in Int
       DEF Two16
<1> QED
  BY <1>5 DEF s, y

(* A list has no more runs than pages, and no more pages than the file. *)
LEMMA KeepsCount ==
    ASSUME Restrained, NEW g, NEW p, NEW w, Keeps(g, p, w)
    PROVE  /\ Pager!Cardinality(Pager!RunStarts(p)) = Len(w)
           /\ Pager!Cardinality(Pager!Indexes(p)) = Len(p)
           /\ Len(w) <= Len(p) /\ Len(p) <= InitCap /\ Len(p) < 65536
           /\ Pager!Indexes(p) \subseteq 0 .. InitCap - 1
<1>1. /\ p \in Pages /\ Len(p) \in Nat /\ w \in Words /\ Holds(p, Texts(g, p), w)
      /\ \A k \in 1 .. Len(p) : PageIn(p[k], g)
      /\ \A j, k \in 1 .. Len(p) : p[j].index = p[k].index => j = k
  BY KeepsSay
<1>2. PICK n, c : HoldsBy(n, c, p, Texts(g, p), w)
  BY <1>1 DEF Holds
<1>3. Cuts(n, c, p) /\ Len(w) = n
  BY <1>2, HoldsSay
<1>4. Pager!Cardinality(Pager!RunStarts(p)) = n
  BY <1>1, <1>3, CutsCount
<1> DEFINE d == [k \in 1 .. Len(p) |-> p[k].index]
           I == Pager!Indexes(p)
<1>5. /\ I = {d[k] : k \in 1 .. Len(p)}
      /\ \A j, k \in 1 .. Len(p) : d[j] = d[k] => j = k
  <2>1. DOMAIN p = 1 .. Len(p)
    BY <1>1 DEF Pages
  <2> QED
    BY <1>1, <2>1 DEF Pager!Indexes
<1> HIDE DEF d, I
<1>6. Pager!Cardinality(I) = Len(p) /\ Cardinality(I) = Len(p) /\ IsFiniteSet(I)
  <2> DEFINE m == Len(p)
  <2>1. m \in Nat /\ m = Len(p)
    BY <1>1
  <2> HIDE DEF m
  <2>2. \A j, k \in 1 .. m : d[j] = d[k] => j = k
    BY <1>5, <2>1
  <2>3. /\ Pager!Cardinality({d[j] : j \in 1 .. m}) = m
        /\ Cardinality({d[j] : j \in 1 .. m}) = m
        /\ IsFiniteSet({d[j] : j \in 1 .. m})
    <3>1. m \in Nat
      BY <2>1
    <3> QED
      BY ONLY <2>2, <3>1, CountDistinct, Zenon
  <2>4. I = {d[j] : j \in 1 .. m}
    BY ONLY <1>5, <2>1
  <2> QED
    BY ONLY <2>1, <2>3, <2>4
<1>7. I \subseteq 0 .. InitCap - 1
  BY <1>1, <1>5 DEF PageIn, I, Pager!Indexes
<1>8. Len(p) <= InitCap
  <2>1. InitCap \in Nat /\ 0 <= InitCap
    BY Sizes
  <2>2. IsFiniteSet(0 .. InitCap - 1) /\ Cardinality(0 .. InitCap - 1) = InitCap
    BY ONLY <2>1, FS_Interval
  <2>3. Cardinality(I) <= Cardinality(0 .. InitCap - 1)
    BY ONLY <1>7, <2>2, FS_Subset
  <2> QED
    BY <1>6, <2>2, <2>3
<1>9. n <= Len(p)
  <2> DEFINE R == {c[k] : k \in 1 .. n}
  <2>1. n \in Nat /\ (\A k \in 1 .. n : c[k] \in 1 .. Len(p))
    BY <1>1, <1>3, CutBounds
  <2>2. \A j, k \in 1 .. n : j < k => c[j] < c[k]
    <3> SUFFICES ASSUME NEW j \in 1 .. n, NEW k \in 1 .. n, j < k PROVE c[j] < c[k]
      OBVIOUS
    <3>1. j \in 1 .. n + 1 /\ k \in 1 .. n + 1
      BY <2>1
    <3>2. \A i, l \in 1 .. n + 1 : i < l => c[i] < c[l]
      BY <1>3 DEF Cuts
    <3> QED
      BY <3>1, <3>2
  <2>3. \A j, k \in 1 .. n : c[j] = c[k] => j = k
    BY <1>1, <2>1, <2>2
  <2>4. Cardinality(R) = n /\ R \subseteq 1 .. Len(p)
    <3>1. Cardinality({c[j] : j \in 1 .. n}) = n
      <4>1. n \in Nat
        BY <2>1
      <4>2. /\ Pager!Cardinality({c[j] : j \in 1 .. n}) = n
            /\ Cardinality({c[j] : j \in 1 .. n}) = n
            /\ IsFiniteSet({c[j] : j \in 1 .. n})
        BY ONLY <2>3, <4>1, CountDistinct, Zenon
      <4> QED
        BY <4>2
    <3> QED
      BY <2>1, <3>1
  <2> HIDE DEF R
  <2>5. IsFiniteSet(1 .. Len(p)) /\ Cardinality(1 .. Len(p)) = Len(p)
    <3> DEFINE m == Len(p)
    <3>1. m \in Nat
      BY <1>1
    <3> HIDE DEF m
    <3>2. IsFiniteSet(1 .. m) /\ Cardinality(1 .. m) = IF 1 > m THEN 0 ELSE m - 1 + 1
      BY ONLY <3>1, FS_Interval
    <3>3. IsFiniteSet(1 .. m) /\ Cardinality(1 .. m) = m
      BY ONLY <3>1, <3>2
    <3> QED
      BY ONLY <3>3 DEF m
  <2>6. Cardinality(R) <= Cardinality(1 .. Len(p))
    BY ONLY <2>4, <2>5, FS_Subset
  <2> QED
    BY <2>4, <2>5, <2>6
<1>10. InitCap \in Nat /\ InitCap <= 65535
  BY Sizes
<1> QED
  BY <1>1, <1>3, <1>4, <1>6, <1>7, <1>8, <1>9, <1>10 DEF I

(* A file cut short keeps its places. *)
LEMMA CutIs ==
    ASSUME NEW g, FileOK(g), NEW m \in Nat
    PROVE  FileOK(Pager!Cut(g, m))
<1> DEFINE h == Pager!Cut(g, m)
<1>1. /\ h.byte = [b \in Pager!Places |-> IF b < m THEN g.byte[b] ELSE Hole]
      /\ h.len = m
  BY Zenon DEF Pager!Cut
<1>2. \A b \in Pager!Places : (IF b < m THEN g.byte[b] ELSE Hole) \in Cell
  <2>1. \A b \in Pager!Places : g.byte[b] \in Cell
    BY DEF FileOK
  <2>2. Hole \in Cell
    BY DEF Cell
  <2> QED
    BY <2>1, <2>2, Zenon
<1>3. h.byte \in [Pager!Places -> Cell]
  BY <1>1, <1>2, Zenon
<1> HIDE DEF h
<1> QED
  BY <1>1, <1>3 DEF FileOK, h

-----------------------------------------------------------------------------
(***************************************************************************)
(* The invariant of the file backed buffer.  What the file will hold when  *)
(* the pending operations are done is what counts: the pages in memory     *)
(* keep there the runs that are wanted, and the index tells of the first   *)
(* head.size of them.  Inside push_back() the pages that are placed are a  *)
(* run that is not wanted yet.                                             *)
(***************************************************************************)
Runs == IF doing = "push" /\ placed > 0 THEN Append(want, SubSeq(block, 1, placed)) ELSE want

(* The last k pages, and no more, have the flag of the block. *)
OwnRun(p, k) ==
    /\ \A i \in Len(p) - k + 1 .. Len(p) : p[i].flag = flag
    /\ k < Len(p) => p[Len(p) - k].flag # flag

IndexOK(y, h, p) ==
    /\ y \in IndexFile /\ y.head.size = h.size /\ h.size <= Len(y.pcb) /\ h.size <= Len(p)
    /\ \A i \in 1 .. h.size : y.pcb[i] = p[i]

Files(ops, f, x, p, w, h) ==
    \E g, y : Leads(ops, f, x, g, y) /\ Keeps(g, p, w) /\ IndexOK(y, h, p)

MemoryInv ==
    /\ cap \in Pager!Capacities /\ uflen \in Nat /\ used = Pager!Indexes(pcb)
    /\ \A k \in 1 .. Len(pcb) : pcb[k].index < uflen
    /\ head \in Heads /\ todo \in Seq(Op) /\ blocks \in Nat
    /\ doing \in {"idle", "push", "restarted"}

TornInv ==
    /\ torn \in Nat /\ failures \in Nat /\ (failures = 0 => torn = 0)
    /\ doing = "idle" => head.size + torn = Len(pcb)
    /\ doing = "restarted" => head.size = Len(pcb) /\ todo = <<>>

CountInv ==
    /\ missing \in Int /\ want \in Words
    /\ doing # "restarted" => Counts(head.cnt, missing, Len(want))
    /\ doing = "restarted" =>
         head.cnt = Pager!Cardinality(Pager!RunStarts(pcb)) % 65536 /\ missing = 0

PushInv ==
    doing = "push" =>
       /\ block \in Seq(Cell) /\ Len(block) \in Lengths
       /\ placed \in Nat /\ placed < Len(block)
       /\ cap <= uflen /\ flag \in {0, 1}
       /\ \E k \in 0 .. Len(pcb) : placed = k * PageSize /\ OwnRun(pcb, k)

FilesInv ==
    \E v : /\ Files(todo, file, index, pcb, v, head)
           /\ doing # "restarted" => v = Runs
           /\ doing = "restarted" => Found(v, want, torn) /\ (torn = 0 => v = want)

PagerInv == MemoryInv /\ TornInv /\ CountInv /\ PushInv /\ FilesInv

(* With no pending operation the files are as they are. *)
LEMMA FilesNow ==
    ASSUME NEW f, NEW x, NEW p, NEW w, NEW h
    PROVE  Files(<<>>, f, x, p, w, h) <=> Keeps(f, p, w) /\ IndexOK(x, h, p)
  BY LeadsNone DEF Files

LEMMA FilesSay ==
    ASSUME NEW ops, NEW f, NEW x, NEW p, NEW w, NEW h, Files(ops, f, x, p, w, h)
    PROVE  p \in Pages /\ w \in Words /\ Len(p) \in Nat /\ Len(w) \in Nat /\ h.size <= Len(p)
<1>1. PICK g, y : Keeps(g, p, w) /\ IndexOK(y, h, p)
  BY DEF Files
<1> QED
  BY <1>1, KeepsSay DEF IndexOK

(* What the invariant says. *)
LEMMA PagerHolds ==
    ASSUME Restrained, PagerInv
    PROVE  RunsAreWhole
<1>1. PICK v : /\ Files(todo, file, index, pcb, v, head)
               /\ doing # "restarted" => v = Runs
               /\ doing = "restarted" => Found(v, want, torn)
  BY DEF PagerInv, FilesInv
<1>2. PICK g, y : Keeps(g, pcb, v) /\ IndexOK(y, head, pcb)
  BY <1>1 DEF Files
<1>3. /\ Pager!Cardinality(Pager!RunStarts(pcb)) = Len(v)
      /\ Pager!Cardinality(Pager!Indexes(pcb)) = Len(pcb)
      /\ Len(v) <= Len(pcb) /\ Len(pcb) < 65536
  BY <1>2, KeepsCount
<1>4. pcb \in Pages /\ Len(pcb) \in Nat /\ v \in Words /\ Len(v) \in Nat
  BY <1>2, KeepsSay
<1>5. Pager!RunsAreWhole
  <2> SUFFICES ASSUME doing = "idle", todo = <<>> PROVE Pager!Contents(pcb) = want
    BY DEF Pager!RunsAreWhole, Pager!Idle
  <2>1. Keeps(file, pcb, v)
    BY <1>1, FilesNow
  <2>2. v = want
    BY <1>1 DEF Runs
  <2> QED
    BY <2>1, <2>2, KeepsContents
<1>6. Pager!PagesOwnedOnce
  <2>1. used = Pager!Indexes(pcb) /\ \A k \in 1 .. Len(pcb) : pcb[k].index < uflen
    BY DEF PagerInv, MemoryInv
  <2>2. DOMAIN pcb = 1 .. Len(pcb)
    BY <1>4 DEF Pages
  <2>3. \A i \in used : i < uflen
    BY <2>1, <2>2 DEF Pager!Indexes
  <2> QED
    BY <1>3, <2>1, <2>3 DEF Pager!PagesOwnedOnce
<1>7. Pager!CountsRuns
  <2>1. doing # "restarted" => (head.cnt + missing) % 65536 = Len(want)
    <3> SUFFICES ASSUME doing # "restarted" PROVE (head.cnt + missing) % 65536 = Len(want)
      OBVIOUS
    <3>1. /\ missing \in Int /\ want \in Words /\ head \in Heads
          /\ Counts(head.cnt, missing, Len(want))
      BY DEF PagerInv, CountInv, MemoryInv
    <3>2. head.cnt \in Int /\ Len(want) \in Nat
      BY <3>1 DEF Heads, Words
    <3>3. Len(want) <= Len(v)
      <4>1. CASE v = want
        BY <3>2, <4>1
      <4>2. CASE v = Append(want, SubSeq(block, 1, placed))
        BY <3>1, <4>2 DEF Words
      <4> QED
        BY <1>1, <4>1, <4>2 DEF Runs
    <3>4. Len(want) < 65536
      BY <1>3, <1>4, <3>2, <3>3
    <3> QED
      BY <3>1, <3>2, <3>4, CountsIs
  <2>2. Pager!Idle => head.size + torn = Len(pcb)
    BY SMTT(30) DEF PagerInv, TornInv, Pager!Idle
  <2> QED
    BY <2>1, <2>2 DEF Pager!CountsRuns
<1> QED
  BY <1>5, <1>6, <1>7 DEF RunsAreWhole

LEMMA PagerRestarts ==
    ASSUME Restrained, PagerInv
    PROVE  RestartsWhereItStopped
<1> DEFINE found == Pager!Contents(pcb)
<1> SUFFICES ASSUME doing = "restarted"
             PROVE  /\ failures = 0 => found = want
                    /\ Len(found) <= Len(want) /\ Len(want) - Len(found) <= torn
                    /\ torn = 0 => found = want
                    /\ \A r \in DOMAIN found :
                          IF r < Len(found) THEN found[r] = want[r]
                                            ELSE Pager!IsPrefix(found[r], want[r])
  BY Zenon DEF RestartsWhereItStopped, Pager!RestartsWhereItStopped
<1>1. todo = <<>> /\ torn \in Nat /\ (failures = 0 => torn = 0)
  BY DEF PagerInv, TornInv
<1>2. PICK v : /\ Files(todo, file, index, pcb, v, head)
               /\ Found(v, want, torn) /\ (torn = 0 => v = want)
  BY DEF PagerInv, FilesInv
<1>3. found = v
  <2>1. Keeps(file, pcb, v)
    BY <1>1, <1>2, FilesNow
  <2> QED
    BY <2>1, KeepsContents
<1>4. /\ v \in Words /\ want \in Words /\ Len(v) \in Nat /\ Len(want) \in Nat
      /\ Len(v) <= Len(want) /\ Len(want) <= Len(v) + torn
      /\ \A r \in 1 .. Len(v) :
           \/ r < Len(v) /\ v[r] = want[r]
           \/ r = Len(v) /\ \E s \in Seq(Cell) : want[r] = v[r] \o s
  <2>1. /\ v \in Words /\ want \in Words
        /\ Len(v) <= Len(want) /\ Len(want) <= Len(v) + torn
        /\ \A r \in 1 .. Len(v) :
             \/ r < Len(v) /\ v[r] = want[r]
             \/ r = Len(v) /\ \E s \in Seq(Cell) : want[r] = v[r] \o s
    BY <1>2, Zenon DEF Found
  <2>2. Len(v) \in Nat /\ Len(want) \in Nat
    BY <2>1 DEF Words
  <2> QED
    BY <2>1, <2>2, Zenon
<1>5. ASSUME NEW r \in 1 .. Len(v)
      PROVE  IF r < Len(v) THEN v[r] = want[r] ELSE Pager!IsPrefix(v[r], want[r])
  <2>1. CASE r < Len(v)
    BY <1>4, <2>1
  <2>2. CASE r = Len(v)
    <3>1. PICK s \in Seq(Cell) : want[r] = v[r] \o s
      <4>1. ~(r < Len(v))
        BY <1>4, <2>2
      <4> QED
        BY <1>4, <4>1, Zenon
    <3> DEFINE a == v[r]
               b == want[r]
    <3>2. a \in Seq(Cell) /\ b = a \o s
      BY <1>4, <3>1 DEF Words
    <3> HIDE DEF a, b
    <3>3. /\ Len(a) \in Nat /\ Len(a) <= Len(b) /\ b \in Seq(Cell)
          /\ \A i \in 1 .. Len(a) : a[i] = b[i]
      BY <3>2
    <3>4. SubSeq(a, 1, Len(a)) = SubSeq(b, 1, Len(a))
      <4> DEFINE m == Len(a)
      <4>1. /\ m \in Nat /\ 1 \in Nat \ {0} /\ 1 <= m + 1 /\ m <= Len(a) /\ m <= Len(b)
            /\ \A i \in 1 .. m : a[i] = b[i]
        BY <3>3
      <4> HIDE DEF m
      <4>2. SubSeq(a, 1, m) = SubSeq(b, 1, m)
        BY ONLY <3>2, <3>3, <4>1, PartSame
      <4> QED
        BY <4>2 DEF m
    <3>5. Pager!IsPrefix(a, b)
      BY <3>3, <3>4 DEF Pager!IsPrefix
    <3> QED
      BY <2>2, <3>5 DEF a, b
  <2> QED
    BY <1>4, <2>1, <2>2
<1>6. DOMAIN v = 1 .. Len(v)
  BY <1>4 DEF Words
<1>7. Len(want) - Len(v) <= torn
  BY <1>1, <1>4
<1> HIDE DEF found
<1> QED
  BY <1>1, <1>2, <1>3, <1>4, <1>5, <1>6, <1>7

-----------------------------------------------------------------------------
(* What the operations do to the list and to the index. *)
LEMMA IndexNew ==
    ASSUME NEW h \in Heads, NEW p \in Pages, h.size <= Len(p)
    PROVE  IndexOK([head |-> h, pcb |-> p], h, p)
  BY DEF IndexOK, IndexFile, Heads

LEMMA MaxOfTwo ==
    ASSUME NEW a \in Nat, NEW b \in Nat
    PROVE  /\ Pager!Max({a, b}) \in Nat
           /\ a <= Pager!Max({a, b}) /\ b <= Pager!Max({a, b})
<1> DEFINE S == {a, b}
<1>1. \E m \in S : \A y \in S : m >= y
  <2>1. CASE a >= b
    BY <2>1
  <2>2. CASE b >= a
    BY <2>2
  <2> QED
    BY <2>1, <2>2
<1>2. Pager!Max(S) \in S /\ \A y \in S : Pager!Max(S) >= y
  <2> HIDE DEF S
  <2> QED
    BY <1>1, Zenon DEF Pager!Max
<1> QED
  BY <1>2

LEMMA MinOfTwo ==
    ASSUME NEW a \in Nat, NEW b \in Nat
    PROVE  /\ a <= b => Pager!Min({a, b}) = a
           /\ b <= a => Pager!Min({a, b}) = b
<1>1. ASSUME a <= b PROVE Pager!Min({a, b}) = a
  <2>1. {a, b} \in SUBSET Nat /\ a \in {a, b} /\ \A x \in {a, b} : a <= x
    BY <1>1
  <2> QED
    BY ONLY <2>1, MinIs
<1>2. ASSUME b <= a PROVE Pager!Min({a, b}) = b
  <2>1. {a, b} \in SUBSET Nat /\ b \in {a, b} /\ \A x \in {a, b} : b <= x
    BY <1>2
  <2> QED
    BY ONLY <2>1, MinIs
<1> QED
  BY <1>1, <1>2

LEMMA IndexesAre ==
    ASSUME NEW p \in Pages
    PROVE  /\ Pager!Indexes(p) = {p[k].index : k \in 1 .. Len(p)}
           /\ \A e \in Pager!Page : Pager!Indexes(Append(p, e)) = Pager!Indexes(p) \cup {e.index}
<1>1. Len(p) \in Nat /\ DOMAIN p = 1 .. Len(p)
  BY DEF Pages
<1>2. ASSUME NEW e \in Pager!Page
      PROVE  Pager!Indexes(Append(p, e)) = Pager!Indexes(p) \cup {e.index}
  <2> DEFINE s == Append(p, e)
  <2>1. /\ DOMAIN s = 1 .. Len(p) + 1 /\ s[Len(p) + 1] = e
        /\ \A k \in 1 .. Len(p) : s[k] = p[k]
    BY DEF Pages
  <2>2. \A k \in 1 .. Len(p) + 1 : k \in 1 .. Len(p) \/ k = Len(p) + 1
    BY <1>1
  <2>3. Len(p) + 1 \in 1 .. Len(p) + 1 /\ \A k \in 1 .. Len(p) : k \in 1 .. Len(p) + 1
    BY <1>1
  <2> HIDE DEF s
  <2>4. \A x : x \in Pager!Indexes(s) <=> x \in Pager!Indexes(p) \/ x = e.index
    BY <1>1, <2>1, <2>2, <2>3 DEF Pager!Indexes
  <2> QED
    BY <2>4 DEF s
<1> QED
  BY <1>1, <1>2 DEF Pager!Indexes

(* The pages without the first m. *)
LEMMA IndexesPart ==
    ASSUME NEW p \in Pages, \A j, k \in 1 .. Len(p) : p[j].index = p[k].index => j = k,
           NEW m \in 1 .. Len(p)
    PROVE  LET s == SubSeq(p, m + 1, Len(p))
           IN  /\ Pager!Indexes(s) = Pager!Indexes(p) \ Pager!Indexes(SubSeq(p, 1, m))
               /\ p[1].index \in Pager!Indexes(p) /\ p[1].index \notin Pager!Indexes(s)
<1> DEFINE s == SubSeq(p, m + 1, Len(p))
           t == SubSeq(p, 1, m)
           L == Len(p)
<1>1. L \in Nat /\ m \in Nat /\ 1 <= m /\ m <= L /\ L = Len(p) /\ m \in 1 .. L
  BY SMTT(30) DEF Pages
<1>2. /\ s \in Pages /\ Len(s) = L - m /\ \A i \in 1 .. L - m : s[i] = p[m + i]
  <2> DEFINE a == m + 1
  <2>1. a \in Nat \ {0} /\ L \in Nat /\ a <= L + 1 /\ L <= Len(p) /\ L - a + 1 = L - m
    BY <1>1
  <2>2. a = m + 1
    OBVIOUS
  <2> HIDE DEF a
  <2>3. /\ SubSeq(p, a, L) \in Pages /\ Len(SubSeq(p, a, L)) = L - a + 1
        /\ \A i \in 1 .. L - a + 1 : SubSeq(p, a, L)[i] = p[a + i - 1]
    BY ONLY <2>1, p \in Pages, PagesPart
  <2>4. \A i \in 1 .. L - m : a + i - 1 = m + i
    BY <1>1, <2>2
  <2> QED
    BY <2>1, <2>2, <2>3, <2>4, ZenonT(40)
<1>3. /\ t \in Pages /\ Len(t) = m /\ \A i \in 1 .. m : t[i] = p[i]
  <2>1. 1 \in Nat \ {0} /\ m \in Nat /\ 1 <= m + 1 /\ m <= Len(p)
    BY <1>1
  <2>2. /\ t \in Pages /\ Len(t) = m - 1 + 1 /\ \A i \in 1 .. m - 1 + 1 : t[i] = p[1 + i - 1]
    BY ONLY <2>1, p \in Pages, PagesPart
  <2>3. m - 1 + 1 = m /\ \A i \in 1 .. m : 1 + i - 1 = i
    BY <1>1
  <2> QED
    BY <2>2, <2>3
<1> HIDE DEF s, t, L
<1>4. /\ Pager!Indexes(p) = {p[k].index : k \in 1 .. L}
      /\ Pager!Indexes(s) = {s[k].index : k \in 1 .. L - m}
      /\ Pager!Indexes(t) = {t[k].index : k \in 1 .. m}
  BY <1>1, <1>2, <1>3, IndexesAre
<1>5. \A k \in 1 .. L : k \in 1 .. m \/ (k - m \in 1 .. L - m /\ m + (k - m) = k)
  BY <1>1
<1>6. \A k \in 1 .. L - m : m + k \in 1 .. L /\ ~(m + k \in 1 .. m)
  BY <1>1
<1>7. \A k \in 1 .. m : k \in 1 .. L
  BY <1>1
<1>8. \A j, k \in 1 .. L : p[j].index = p[k].index => j = k
  BY <1>1
<1>9. ASSUME NEW x
      PROVE  x \in Pager!Indexes(s) <=> x \in Pager!Indexes(p) /\ x \notin Pager!Indexes(t)
  <2>1. ASSUME x \in Pager!Indexes(s)
        PROVE  x \in Pager!Indexes(p) /\ x \notin Pager!Indexes(t)
    <3>1. PICK k \in 1 .. L - m : x = s[k].index
      BY <1>4, <2>1
    <3>2. x = p[m + k].index /\ m + k \in 1 .. L
      BY <1>2, <1>6, <3>1
    <3>3. ASSUME NEW i \in 1 .. m, x = t[i].index PROVE FALSE
      <4>1. x = p[i].index /\ i \in 1 .. L
        BY <1>3, <1>7, <3>3
      <4>2. i = m + k
        BY <1>8, <3>2, <4>1
      <4> QED
        BY <1>6, <4>2
    <3> QED
      BY <1>4, <3>2, <3>3
  <2>2. ASSUME x \in Pager!Indexes(p), x \notin Pager!Indexes(t)
        PROVE  x \in Pager!Indexes(s)
    <3>1. PICK k \in 1 .. L : x = p[k].index
      BY <1>4, <2>2
    <3>2. k \notin 1 .. m
      BY <1>3, <1>4, <2>2, <3>1
    <3>3. k - m \in 1 .. L - m /\ m + (k - m) = k
      BY <1>5, <3>2
    <3>4. x = s[k - m].index
      BY <1>2, <3>1, <3>3
    <3> QED
      BY <1>4, <3>3, <3>4
  <2> QED
    BY <2>1, <2>2
<1>10. Pager!Indexes(s) = Pager!Indexes(p) \ Pager!Indexes(t)
  BY <1>9
<1>11. p[1].index \in Pager!Indexes(p) /\ p[1].index \in Pager!Indexes(t)
  <2>1. 1 \in 1 .. m /\ 1 \in 1 .. L
    BY <1>1
  <2> QED
    BY <1>3, <1>4, <2>1
<1> QED
  BY <1>10, <1>11 DEF s, t, L

(* pop_front() in memory. *)
LEMMA PoppedIs ==
    ASSUME NEW m, NEW r, r = Pager!Popped(m), NEW n, n = Pager!FrontLen(m.pcb)
    PROVE  /\ r.pcb = SubSeq(m.pcb, n + 1, Len(m.pcb))
           /\ r.used = m.used \ Pager!Indexes(SubSeq(m.pcb, 1, n))
           /\ r.head = [size |-> Len(r.pcb), cnt |-> (m.head.cnt - 1) % 65536]
<1> DEFINE p == SubSeq(m.pcb, n + 1, Len(m.pcb))
           u == m.used \ Pager!Indexes(SubSeq(m.pcb, 1, n))
           c == (m.head.cnt - 1) % 65536
<1>1. r = [pcb |-> p, used |-> u, head |-> [size |-> Len(p), cnt |-> c]]
  BY DEF Pager!Popped
<1> HIDE DEF p, u, c
<1>2. r.pcb = p /\ r.used = u /\ r.head = [size |-> Len(p), cnt |-> c]
  BY ONLY <1>1
<1> QED
  BY <1>2 DEF p, u, c

LEMMA MemoryIs ==
    Pager!Memory.pcb = pcb /\ Pager!Memory.used = used /\ Pager!Memory.head = head
  BY DEF Pager!Memory

LEMMA AfterPop ==
    ASSUME Restrained, NEW g, NEW w, Keeps(g, pcb, w), pcb # <<>>,
           used = Pager!Indexes(pcb), head \in Heads, missing \in Int,
           NEW v \in Words, v # <<>>, Counts(head.cnt, missing, Len(v)),
           NEW r, r = Pager!Popped(Pager!Memory)
    PROVE  /\ Keeps(g, r.pcb, Tail(w)) /\ w # <<>>
           /\ Pager!FrontLen(pcb) \in 1 .. Len(pcb)
           /\ r.pcb = SubSeq(pcb, Pager!FrontLen(pcb) + 1, Len(pcb))
           /\ r.used = Pager!Indexes(r.pcb)
           /\ r.head \in Heads /\ r.head.size = Len(r.pcb)
           /\ Counts(r.head.cnt, missing, Len(Tail(v)))
           /\ r.used \subseteq used
           /\ pcb[1].index \in used /\ pcb[1].index \notin r.used
<1> DEFINE n == Pager!FrontLen(pcb)
           s == SubSeq(pcb, n + 1, Len(pcb))
<1>1. /\ pcb \in Pages /\ Len(pcb) \in Nat
      /\ \A j, k \in 1 .. Len(pcb) : pcb[j].index = pcb[k].index => j = k
  BY KeepsSay
<1>2. n \in 1 .. Len(pcb) /\ Keeps(g, s, Tail(w)) /\ w # <<>>
  BY KeepsPopped
<1>3. /\ r.pcb = s /\ r.used = used \ Pager!Indexes(SubSeq(pcb, 1, n))
      /\ r.head = [size |-> Len(s), cnt |-> (head.cnt - 1) % 65536]
  <2> DEFINE m == Pager!Memory
  <2>1. m.pcb = pcb /\ m.used = used /\ m.head = head
    BY MemoryIs
  <2>2. r = Pager!Popped(m) /\ n = Pager!FrontLen(m.pcb)
    BY <2>1
  <2> HIDE DEF m, n
  <2>3. /\ r.pcb = SubSeq(m.pcb, n + 1, Len(m.pcb))
        /\ r.used = m.used \ Pager!Indexes(SubSeq(m.pcb, 1, n))
        /\ r.head = [size |-> Len(r.pcb), cnt |-> (m.head.cnt - 1) % 65536]
    BY ONLY <2>2, PoppedIs
  <2> QED
    BY ONLY <2>1, <2>3
<1> HIDE DEF n
<1>4. /\ Pager!Indexes(s) = Pager!Indexes(pcb) \ Pager!Indexes(SubSeq(pcb, 1, n))
      /\ pcb[1].index \in Pager!Indexes(pcb) /\ pcb[1].index \notin Pager!Indexes(s)
  BY ONLY <1>1, <1>2, IndexesPart
<1>5. Len(s) \in Nat
  <2>1. s \in Pages
    BY <1>2, KeepsSay
  <2> QED
    BY <2>1 DEF Pages
<1> DEFINE c == (head.cnt - 1) % 65536
<1>6. Counts(c, missing, Len(Tail(v))) /\ c \in Nat
  <2>1. head.cnt \in Int /\ Len(v) \in Int /\ Len(Tail(v)) = Len(v) - 1
    BY DEF Heads, Words
  <2> DEFINE x == head.cnt
             l == Len(v)
             j == missing
  <2>2. x \in Int /\ j \in Int /\ l \in Int /\ Counts(x, j, l)
    BY <2>1
  <2> HIDE DEF x, l, j
  <2>3. Counts((x - 1) % 65536, j, l - 1) /\ ((x - 1) % 65536) \in Nat
    BY ONLY <2>2, CountsDown
  <2>4. Counts(c, missing, Len(v) - 1) /\ c \in Nat
    BY ONLY <2>3 DEF x, l, j
  <2> HIDE DEF c
  <2> QED
    BY ONLY <2>1, <2>4
<1>7. r.head = [size |-> Len(s), cnt |-> c]
  BY <1>3
<1> HIDE DEF c, s
<1>8. r.head.cnt = c /\ r.head.size = Len(s) /\ r.head \in Heads
  BY ONLY <1>5, <1>6, <1>7 DEF Heads
<1> QED
  BY <1>2, <1>3, <1>4, <1>6, <1>8, SMTT(30) DEF n, s

-----------------------------------------------------------------------------
(* The invariant holds at first, and what does not touch it keeps it. *)
LEMMA PagerInitInv ==
    ASSUME Restrained, Pager!Init
    PROVE  PagerInv
<1>1. /\ cap = InitCap /\ pcb = <<>> /\ used = {} /\ uflen = InitCap
      /\ head = Pager!Empty.head /\ index = Pager!Empty
      /\ todo = <<>> /\ doing = "idle" /\ placed = 0
      /\ blocks = 0 /\ want = <<>> /\ torn = 0 /\ missing = 0 /\ failures = 0
  BY DEF Pager!Init
<1>2. head = [size |-> 0, cnt |-> 0] /\ index = [head |-> head, pcb |-> pcb]
  BY <1>1 DEF Pager!Empty
<1>3. head \in Heads /\ head.size = 0 /\ head.cnt = 0 /\ pcb \in Pages /\ Len(pcb) = 0
  BY <1>1, <1>2 DEF Heads, Pages
<1>4. FileOK(file)
  <2>1. file.byte = [b \in Pager!Places |-> Hole] /\ file.len = 0
    BY DEF Pager!Init
  <2>2. Hole \in Cell
    BY DEF Cell
  <2> QED
    BY <2>1, <2>2 DEF FileOK
<1>5. FilesInv
  <2>1. Keeps(file, pcb, want)
    BY <1>1, <1>4, KeepsNone
  <2>2. IndexOK(index, head, pcb)
    BY <1>2, <1>3, IndexNew
  <2>3. Files(todo, file, index, pcb, want, head)
    BY <1>1, <2>1, <2>2, FilesNow
  <2>4. Runs = want
    BY <1>1 DEF Runs
  <2> QED
    BY <1>1, <2>3, <2>4 DEF FilesInv
<1>6. MemoryInv
  <2>1. cap \in Pager!Capacities /\ uflen \in Nat
    <3>1. cap \in Pager!Capacities
      BY <1>1, Zenon DEF Pager!Capacities
    <3>2. uflen \in Nat
      BY <1>1, Sizes
    <3> QED
      BY <3>1, <3>2
  <2>2. used = Pager!Indexes(pcb)
    BY <1>1 DEF Pager!Indexes
  <2> QED
    BY <1>1, <1>3, <2>1, <2>2 DEF MemoryInv
<1>7. TornInv /\ PushInv
  BY <1>1, <1>3 DEF TornInv, PushInv
<1>8. CountInv
  <2>1. Counts(0, 0, 0)
    <3>1. 0 + 0 - 0 = Two16 * 0
      BY DEF Two16
    <3> QED
      BY <3>1 DEF Counts
  <2> QED
    BY <1>1, <1>3, <2>1 DEF CountInv, Words
<1> QED
  BY <1>5, <1>6, <1>7, <1>8 DEF PagerInv

LEMMA KeptInv ==
    ASSUME PagerInv, blocks' \in Nat, failures' \in Nat, failures' = 0 => failures = 0,
           UNCHANGED <<cap, pcb, used, uflen, head, file, index, todo, doing, block, placed, flag,
                       want, torn, missing>>
    PROVE  PagerInv'
<1>1. MemoryInv' /\ TornInv' /\ PushInv'
  BY DEF PagerInv, MemoryInv, TornInv, PushInv, OwnRun
<1>2. CountInv'
  BY DEF PagerInv, CountInv
<1>3. FilesInv'
  BY DEF PagerInv, FilesInv, Runs
<1> QED
  BY <1>1, <1>2, <1>3 DEF PagerInv

LEMMA ExtendFailsInv ==
    ASSUME PagerInv, NEW m \in Lengths, Pager!ExtendFails(m)
    PROVE  PagerInv'
<1>1. /\ UNCHANGED <<cap, pcb, used, uflen, head, file, index, todo, doing, block, placed, flag,
                     want, torn, missing>>
      /\ blocks' = blocks + 1 /\ failures' = failures + 1
  BY DEF Pager!ExtendFails, Pager!Call, Pager!Fails, Pager!memory
<1>2. blocks \in Nat /\ failures \in Nat
  BY DEF PagerInv, MemoryInv, TornInv
<1> QED
  BY <1>1, <1>2, KeptInv

LEMMA SetCapacityInv ==
    ASSUME Restrained, PagerInv, Pager!SetCapacity
    PROVE  PagerInv'
<1>1. /\ cap' \in Pager!Capacities
      /\ cap' > cap => doing = "idle"
      /\ UNCHANGED <<pcb, used, uflen, head, block, placed, flag, file, index,
                     todo, doing, want, torn, missing, failures, blocks>>
  BY DEF Pager!SetCapacity, Pager!Idle, Pager!history, Pager!faults
<1>2. MemoryInv'
  BY <1>1 DEF PagerInv, MemoryInv
<1>3. TornInv'
  BY <1>1 DEF PagerInv, TornInv
<1>4. CountInv'
  BY <1>1 DEF PagerInv, CountInv
<1>5. FilesInv'
  BY <1>1 DEF PagerInv, FilesInv, Runs
<1>6. PushInv'
  <2> SUFFICES ASSUME doing = "push" PROVE PushInv'
    BY <1>1 DEF PushInv
  <2>1. cap' <= uflen'
    <3>1. cap \in Nat /\ cap' \in Nat /\ uflen \in Nat /\ cap <= uflen
      BY <1>1, Sizes DEF PagerInv, MemoryInv, PushInv
    <3> QED
      BY <1>1, <3>1
  <2> QED
    BY <1>1, <2>1 DEF PagerInv, PushInv, OwnRun
<1> QED
  BY <1>2, <1>3, <1>4, <1>5, <1>6 DEF PagerInv

(* A pending operation leads the files on. *)
LEMMA FileStepInv ==
    ASSUME PagerInv, Pager!FileStep
    PROVE  PagerInv'
<1>1. /\ todo # <<>> /\ todo' = Tail(todo)
      /\ UNCHANGED <<cap, pcb, used, uflen, head, block, placed, flag, doing, want, torn, missing,
                     failures, blocks>>
  BY DEF Pager!FileStep, Pager!memory, Pager!history, Pager!faults
<1>2. OpStep(Head(todo), file, index, file', index')
  BY DEF Pager!FileStep, OpStep
<1>3. todo \in Seq(Op)
  BY DEF PagerInv, MemoryInv
<1>4. PICK v : /\ Files(todo, file, index, pcb, v, head)
               /\ doing # "restarted" => v = Runs
               /\ doing = "restarted" => Found(v, want, torn) /\ (torn = 0 => v = want)
  BY DEF PagerInv, FilesInv
<1>5. PICK g, y : /\ Leads(todo, file, index, g, y) /\ Keeps(g, pcb, v) /\ IndexOK(y, head, pcb)
  BY <1>4 DEF Files
<1>6. Leads(Tail(todo), file', index', g, y) /\ Tail(todo) \in Seq(Op)
  BY <1>1, <1>2, <1>3, <1>5, LeadsFirst
<1>7. Files(todo', file', index', pcb', v, head')
  BY <1>1, <1>5, <1>6 DEF Files
<1>8. Runs' = Runs
  BY <1>1 DEF Runs
<1>9. FilesInv'
  BY <1>1, <1>4, <1>7, <1>8 DEF FilesInv
<1>10. MemoryInv'
  BY <1>1, <1>6 DEF PagerInv, MemoryInv
<1>11. doing # "restarted"
  BY <1>1 DEF PagerInv, TornInv
<1>12. TornInv' /\ PushInv'
  BY <1>1, <1>11 DEF PagerInv, TornInv, PushInv, OwnRun
<1>13. CountInv'
  BY <1>1, <1>11 DEF PagerInv, CountInv
<1> QED
  BY <1>9, <1>10, <1>12, <1>13 DEF PagerInv

(* With no operation pending, the files are as the memory says. *)
LEMMA Quiet ==
    ASSUME Restrained, PagerInv, todo = <<>>
    PROVE  /\ pcb \in Pages /\ Len(pcb) \in Nat /\ head \in Heads /\ head.size <= Len(pcb)
           /\ want \in Words /\ IndexOK(index, head, pcb)
           /\ used = Pager!Indexes(pcb) /\ missing \in Int
           /\ \E v : /\ Keeps(file, pcb, v) /\ v \in Words
                     /\ doing # "restarted" => v = Runs /\ Counts(head.cnt, missing, Len(want))
                     /\ doing = "idle" => v = want
                     /\ doing = "restarted" => Found(v, want, torn)
<1>1. PICK v : /\ Files(todo, file, index, pcb, v, head)
               /\ doing # "restarted" => v = Runs
               /\ doing = "restarted" => Found(v, want, torn)
  BY DEF PagerInv, FilesInv
<1>2. Keeps(file, pcb, v) /\ IndexOK(index, head, pcb)
  BY <1>1, FilesNow
<1>3. pcb \in Pages /\ Len(pcb) \in Nat /\ v \in Words
  BY <1>2, KeepsSay
<1>4. head.size <= Len(pcb)
  BY <1>2 DEF IndexOK
<1>5. /\ head \in Heads /\ used = Pager!Indexes(pcb) /\ missing \in Int /\ want \in Words
      /\ doing # "restarted" => Counts(head.cnt, missing, Len(want))
  BY DEF PagerInv, MemoryInv, CountInv
<1>6. doing = "idle" => v = want
  BY <1>1 DEF Runs
<1> QED
  BY <1>1, <1>2, <1>3, <1>4, <1>5, <1>6

LEMMA PushBackInv ==
    ASSUME Restrained, PagerInv, NEW m \in Lengths, Pager!PushBack(m)
    PROVE  PagerInv'
<1>1. /\ doing = "idle" /\ todo = <<>> /\ want' = want
      /\ uflen' = Pager!Resized /\ used' = used \ (uflen .. uflen' - 1)
      /\ block' = Pager!Block(m) /\ placed' = 0 /\ flag' = Pager!NewFlag
      /\ blocks' = blocks + 1 /\ doing' = "push"
      /\ UNCHANGED <<cap, pcb, head, file, index, todo, torn, missing, failures>>
  BY DEF Pager!PushBack, Pager!Call, Pager!Idle, Pager!faults
<1>2. /\ pcb \in Pages /\ Len(pcb) \in Nat /\ head \in Heads /\ want \in Words
      /\ used = Pager!Indexes(pcb) /\ missing \in Int /\ IndexOK(index, head, pcb)
  BY <1>1, Quiet
<1>3. Keeps(file, pcb, want) /\ Counts(head.cnt, missing, Len(want))
  BY <1>1, Quiet
<1>4. cap \in Nat /\ uflen \in Nat /\ cap \in Pager!Capacities /\ blocks \in Nat
        /\ \A k \in 1 .. Len(pcb) : pcb[k].index < uflen
  BY Sizes DEF PagerInv, MemoryInv
<1>5. uflen' \in Nat /\ uflen <= uflen' /\ cap <= uflen'
  BY <1>1, <1>4, MaxOfTwo DEF Pager!Resized
<1>6. used' = used
  <2>1. \A i \in used : i < uflen
    BY <1>2, <1>4, IndexesAre
  <2>2. \A i \in used : i \notin uflen .. uflen' - 1
    BY <1>4, <2>1
  <2> QED
    BY <1>1, <2>2
<1>7. MemoryInv'
  <2>1. \A k \in 1 .. Len(pcb) : pcb[k].index < uflen'
    <3> SUFFICES ASSUME NEW k \in 1 .. Len(pcb) PROVE pcb[k].index < uflen'
      OBVIOUS
    <3>1. pcb[k].index \in Nat /\ pcb[k].index < uflen
      <4>1. pcb[k] \in Pager!Page
        BY <1>2 DEF Pages
      <4> QED
        BY <1>4, <4>1 DEF Pager!Page
    <3> QED
      BY <1>4, <1>5, <3>1
  <2> QED
    BY <1>1, <1>2, <1>4, <1>5, <1>6, <2>1 DEF PagerInv, MemoryInv
<1>8. TornInv'
  BY <1>1 DEF PagerInv, TornInv
<1>9. CountInv'
  BY <1>1, <1>2, <1>3 DEF CountInv
<1>10. FilesInv'
  <2>1. Files(todo', file', index', pcb', want', head')
    BY <1>1, <1>2, <1>3, FilesNow
  <2>2. Runs' = want'
    BY <1>1 DEF Runs
  <2> QED
    BY <1>1, <2>1, <2>2 DEF FilesInv
<1>11. PushInv'
  <2>1. m \in Nat \ {0}
    BY Sizes
  <2>2. block' \in Seq(Cell) /\ Len(block') = m
    <3>1. block' = [k \in 1 .. m |-> <<blocks + 1, k>>]
      BY <1>1 DEF Pager!Block
    <3>2. \A k \in 1 .. m : <<blocks + 1, k>> \in Cell
      BY <1>4, <2>1 DEF Cell
    <3> QED
      BY <2>1, <3>1, <3>2
  <2>3. flag' \in {0, 1} /\ (Len(pcb) > 0 => pcb[Len(pcb)].flag # flag')
    <3>1. flag' = IF pcb = <<>> \/ Pager!Last(pcb).flag = 1 THEN 0 ELSE 1
      BY <1>1, Zenon DEF Pager!NewFlag
    <3>2. Pager!Last(pcb) = pcb[Len(pcb)]
      BY Zenon DEF Pager!Last
    <3>3. Len(pcb) > 0 => pcb # <<>> /\ pcb[Len(pcb)].flag \in {0, 1}
      <4> SUFFICES ASSUME Len(pcb) > 0 PROVE pcb # <<>> /\ pcb[Len(pcb)].flag \in {0, 1}
        OBVIOUS
      <4>1. pcb # <<>> /\ Len(pcb) \in 1 .. Len(pcb)
        BY <1>2
      <4>2. pcb[Len(pcb)] \in Pager!Page
        BY <1>2, <4>1 DEF Pages
      <4> QED
        BY <4>1, <4>2 DEF Pager!Page
    <3> QED
      BY <3>1, <3>2, <3>3
  <2>4. 0 \in 0 .. Len(pcb') /\ placed' = 0 * PageSize
    <3>1. 0 = 0 * PageSize
      BY Sizes
    <3> QED
      BY <1>1, <1>2, <3>1
  <2>5. OwnRun(pcb, 0)'
    <3>1. \A i \in Len(pcb) - 0 + 1 .. Len(pcb) : FALSE
      BY <1>2
    <3>2. Len(pcb) - 0 = Len(pcb)
      BY <1>2
    <3> QED
      BY <1>1, <2>3, <3>1, <3>2 DEF OwnRun
  <2>6. \E k \in 0 .. Len(pcb') : placed' = k * PageSize /\ OwnRun(pcb, k)'
    BY <2>4, <2>5
  <2> QED
    BY <1>1, <1>5, <2>1, <2>2, <2>3, <2>6 DEF PushInv, OwnRun
<1> QED
  BY <1>7, <1>8, <1>9, <1>10, <1>11 DEF PagerInv

LEMMA PopFrontInv ==
    ASSUME Restrained, PagerInv, Pager!PopFront
    PROVE  PagerInv'
<1> DEFINE r == Pager!Popped(Pager!Memory)
<1>1. /\ doing = "idle" /\ todo = <<>> /\ pcb # <<>> /\ want' = Tail(want)
      /\ pcb' = r.pcb /\ used' = r.used /\ head' = r.head
      /\ todo' = Pager!WritePCB(r.head, r.pcb)
      /\ torn' = 0
      /\ UNCHANGED <<cap, uflen, block, placed, flag, file, index, doing, blocks, missing, failures>>
  BY DEF Pager!PopFront, Pager!Call, Pager!Idle
<1>2. /\ pcb \in Pages /\ Len(pcb) \in Nat /\ head \in Heads /\ want \in Words
      /\ used = Pager!Indexes(pcb) /\ missing \in Int
  BY <1>1, Quiet
<1>3. Keeps(file, pcb, want) /\ Counts(head.cnt, missing, Len(want))
  BY <1>1, Quiet
<1>4. r = Pager!Popped(Pager!Memory)
  OBVIOUS
<1> HIDE DEF r
<1>5. want # <<>>
  BY <1>1, <1>3, KeepsPopped
<1>6. /\ Keeps(file, r.pcb, Tail(want)) /\ r.used = Pager!Indexes(r.pcb)
      /\ r.head \in Heads /\ r.head.size = Len(r.pcb)
      /\ Counts(r.head.cnt, missing, Len(Tail(want))) /\ r.used \subseteq used
  BY ONLY Restrained, <1>1, <1>2, <1>3, <1>4, <1>5, AfterPop
<1>7. r.pcb \in Pages /\ Len(r.pcb) \in Nat /\ Tail(want) \in Words
  BY <1>6, KeepsSay
<1>8. FilesInv'
  <2>1. /\ Pager!WritePCB(r.head, r.pcb) \in Seq(Op)
        /\ Leads(Pager!WritePCB(r.head, r.pcb), file, index, file, [head |-> r.head, pcb |-> r.pcb])
    BY <1>6, <1>7, WritePCBLeads
  <2>2. IndexOK([head |-> r.head, pcb |-> r.pcb], r.head, r.pcb)
    BY <1>6, <1>7, IndexNew
  <2>3. Files(todo', file', index', pcb', want', head')
    BY <1>1, <1>6, <2>1, <2>2 DEF Files
  <2>4. Runs' = want'
    BY <1>1 DEF Runs
  <2> QED
    BY <1>1, <2>3, <2>4 DEF FilesInv
<1>9. MemoryInv'
  <2>1. Pager!WritePCB(r.head, r.pcb) \in Seq(Op)
    BY <1>6, <1>7, WritePCBLeads
  <2>2. \A k \in 1 .. Len(r.pcb) : r.pcb[k].index < uflen
    <3>1. \A i \in used : i < uflen
      BY <1>2, IndexesAre DEF PagerInv, MemoryInv
    <3>2. \A k \in 1 .. Len(r.pcb) : r.pcb[k].index \in r.used
      BY <1>6, <1>7, IndexesAre
    <3> QED
      BY <1>6, <3>1, <3>2
  <2> QED
    BY <1>1, <1>6, <2>1, <2>2 DEF PagerInv, MemoryInv
<1>10. TornInv'
  BY <1>1, <1>6, <1>7 DEF PagerInv, TornInv
<1>11. CountInv' /\ PushInv'
  BY <1>1, <1>2, <1>6, <1>7 DEF CountInv, PushInv
<1> QED
  BY <1>8, <1>9, <1>10, <1>11 DEF PagerInv

LEMMA ClearInv ==
    ASSUME Restrained, PagerInv, Pager!Clear
    PROVE  PagerInv'
<1>1. /\ doing = "idle" /\ todo = <<>> /\ want' = <<>>
      /\ pcb' = <<>> /\ used' = {} /\ head' = Pager!Empty.head
      /\ torn' = 0 /\ missing' = 0
      /\ UNCHANGED <<cap, block, placed, flag, file, index, doing, blocks, failures>>
  BY DEF Pager!Clear, Pager!Call, Pager!Idle
<1>2. \/ /\ uflen' = cap
         /\ todo' = Append(Pager!WritePCB(head', pcb'), [kind |-> "truncate", len |-> cap * PageSize])
      \/ uflen' = uflen /\ todo' = Pager!WritePCB(head', pcb')
  BY DEF Pager!Clear
<1>3. head' = [size |-> 0, cnt |-> 0]
  BY <1>1 DEF Pager!Empty
<1>4. /\ head' \in Heads /\ head'.size = 0 /\ head'.cnt = 0
      /\ pcb' \in Pages /\ Len(pcb') = 0
  BY <1>1, <1>3 DEF Heads, Pages
<1>5. /\ cap \in Nat /\ uflen \in Nat /\ cap \in Pager!Capacities /\ blocks \in Nat
      /\ torn \in Nat /\ failures \in Nat
  BY Sizes DEF PagerInv, MemoryInv, TornInv
<1>6. FileOK(file)
  <2>1. PICK v : Keeps(file, pcb, v)
    BY <1>1, Quiet
  <2> QED
    BY <2>1, KeepsSay
<1> DEFINE y == [head |-> head', pcb |-> pcb']
           w == Pager!WritePCB(head', pcb')
           e == [kind |-> "truncate", len |-> cap * PageSize]
<1>7. w \in Seq(Op) /\ Leads(w, file, index, file, y)
  <2> DEFINE h == head'
             p == pcb'
  <2>1. h \in Heads /\ p \in Pages
    BY <1>4
  <2> HIDE DEF h, p
  <2>2. /\ Pager!WritePCB(h, p) \in Seq(Op)
        /\ Leads(Pager!WritePCB(h, p), file, index, file, [head |-> h, pcb |-> p])
    BY <2>1, WritePCBLeads
  <2> QED
    BY <2>2 DEF h, p
<1>8. IndexOK(y, head', pcb')
  <2> DEFINE h == head'
             p == pcb'
  <2>1. h \in Heads /\ p \in Pages /\ h.size <= Len(p)
    BY <1>4
  <2> HIDE DEF h, p
  <2>2. IndexOK([head |-> h, pcb |-> p], h, p)
    BY <2>1, IndexNew
  <2> QED
    BY <2>2 DEF h, p
<1>9. /\ todo' \in Seq(Op)
      /\ \E g : FileOK(g) /\ Leads(todo', file, index, g, y)
  <2>1. CASE todo' = w
    BY <1>6, <1>7, <2>1
  <2>2. CASE todo' = Append(w, e)
    <3>1. cap * PageSize \in Nat
      BY <1>5, Sizes, ProductIn
    <3> DEFINE a == cap * PageSize
               g == Pager!Cut(file, a)
    <3>2. e \in Op /\ e.kind = "truncate" /\ e.len = a
      BY <3>1 DEF Op
    <3>3. FileOK(g)
      BY <1>6, <3>1, CutIs
    <3> HIDE DEF a
    <3>4. OpStep(e, file, y, g, y)
      BY <3>2 DEF OpStep
    <3> HIDE DEF w, y, e, g
    <3>5. Leads(<< e >>, file, y, g, y)
      BY <3>4, LeadsOne
    <3>6. << e >> \in Seq(Op) /\ w \o << e >> = Append(w, e) /\ Append(w, e) \in Seq(Op)
      BY <1>7, <3>2
    <3>7. Leads(w \o << e >>, file, index, g, y)
      BY <1>7, <3>5, <3>6, LeadsThen
    <3> QED
      BY <2>2, <3>3, <3>6, <3>7
  <2> QED
    BY <1>2, <2>1, <2>2
<1> HIDE DEF y, w, e
<1>10. FilesInv'
  <2>1. PICK g : FileOK(g) /\ Leads(todo', file, index, g, y)
    BY <1>9
  <2>2. Keeps(g, pcb', <<>>)
    BY <1>1, <2>1, KeepsNone
  <2>3. Files(todo', file', index', pcb', <<>>, head')
    BY <1>1, <1>8, <2>1, <2>2 DEF Files
  <2>4. Runs' = <<>>
    BY <1>1 DEF Runs
  <2> QED
    BY <1>1, <2>3, <2>4 DEF FilesInv
<1>11. MemoryInv'
  <2>1. used' = Pager!Indexes(pcb')
    BY <1>1 DEF Pager!Indexes
  <2>2. uflen' \in Nat
    BY <1>2, <1>5
  <2> QED
    BY <1>1, <1>4, <1>5, <1>9, <2>1, <2>2 DEF MemoryInv
<1>12. TornInv' /\ PushInv'
  BY <1>1, <1>4, <1>5 DEF TornInv, PushInv
<1>13. CountInv'
  <2>1. Counts(0, 0, 0)
    <3>1. 0 + 0 - 0 = Two16 * 0
      BY DEF Two16
    <3> QED
      BY <3>1 DEF Counts
  <2>2. <<>> \in Words /\ Len(<<>>) = 0
    BY DEF Words
  <2> QED
    BY <1>1, <1>4, <2>1, <2>2 DEF CountInv
<1> QED
  BY <1>10, <1>11, <1>12, <1>13 DEF PagerInv

(* The restart takes the memory from the index, which tells of all pages   *)
(* but for those of failed calls.                                          *)
LEMMA RestartInv ==
    ASSUME Restrained, PagerInv, Pager!Restart
    PROVE  PagerInv'
<1> DEFINE h == index.head
           p == SubSeq(index.pcb, 1, Pager!Min({h.size, Len(index.pcb)}))
<1>1. /\ doing = "idle" /\ todo = <<>>
      /\ pcb' = p /\ used' = Pager!Indexes(p)
      /\ uflen' = Pager!Max({InitCap, h.size})
      /\ head' = [size |-> Len(p), cnt |-> Pager!Cardinality(Pager!RunStarts(p)) % 65536]
      /\ cap' = InitCap /\ todo' = <<>> /\ doing' = "restarted" /\ missing' = 0
      /\ UNCHANGED <<file, index, blocks, want, torn, failures>>
  BY DEF Pager!Restart, Pager!Idle
<1>2. /\ pcb \in Pages /\ Len(pcb) \in Nat /\ head \in Heads /\ want \in Words
      /\ IndexOK(index, head, pcb) /\ Keeps(file, pcb, want)
  BY <1>1, Quiet
<1>3. /\ h.size = head.size /\ index.pcb \in Pages /\ Len(index.pcb) \in Nat /\ h.size \in Nat
      /\ h.size <= Len(index.pcb) /\ h.size <= Len(pcb)
      /\ \A i \in 1 .. h.size : index.pcb[i] = pcb[i]
  <2>1. /\ index \in IndexFile /\ h.size = head.size /\ head.size <= Len(index.pcb)
        /\ head.size <= Len(pcb) /\ \A i \in 1 .. head.size : index.pcb[i] = pcb[i]
    BY <1>2 DEF IndexOK
  <2>2. index.pcb \in Pages /\ h \in Heads
    BY <2>1 DEF IndexFile
  <2> QED
    BY <2>1, <2>2 DEF Pages, Heads
<1>4. Pager!Min({h.size, Len(index.pcb)}) = h.size
  BY <1>3, MinOfTwo
<1>5. torn \in Nat /\ head.size + torn = Len(pcb) /\ failures \in Nat /\ (failures = 0 => torn = 0)
  BY <1>1 DEF PagerInv, TornInv
<1> DEFINE m == h.size
<1>6. /\ m \in Nat /\ 1 \in Nat \ {0} /\ 1 <= m + 1 /\ m <= Len(index.pcb) /\ m <= Len(pcb)
      /\ m = Len(pcb) - torn /\ torn \in 0 .. Len(pcb)
      /\ \A i \in 1 .. m : index.pcb[i] = pcb[i]
  BY <1>2, <1>3, <1>5
<1>7. p = SubSeq(pcb, 1, m)
  <2>1. p = SubSeq(index.pcb, 1, m)
    BY <1>4
  <2> HIDE DEF m
  <2>2. SubSeq(index.pcb, 1, m) = SubSeq(pcb, 1, m)
    BY ONLY <1>2, <1>3, <1>6, PagesSame
  <2> QED
    BY <2>1, <2>2
<1>8. PICK v : /\ Keeps(file, SubSeq(pcb, 1, Len(pcb) - torn), v)
               /\ Found(v, want, torn) /\ (torn = 0 => v = want)
  BY <1>2, <1>6, KeepsPrefix
<1>9. Keeps(file, p, v)
  BY <1>6, <1>7, <1>8
<1>10. p \in Pages /\ Len(p) \in Nat /\ Len(p) = m /\ v \in Words /\ Len(v) \in Nat
  <2>1. p \in Pages /\ Len(p) \in Nat /\ v \in Words /\ Len(v) \in Nat
    BY <1>9, KeepsSay
  <2> HIDE DEF m
  <2>2. Len(SubSeq(pcb, 1, m)) = m - 1 + 1
    BY ONLY <1>2, <1>6, PagesPart
  <2>3. m - 1 + 1 = m
    BY <1>6
  <2>4. Len(p) = m
    BY <1>7, <2>2, <2>3
  <2> QED
    BY <2>1, <2>4
<1>11. Pager!Cardinality(Pager!RunStarts(p)) = Len(v)
  BY <1>9, KeepsCount
<1> DEFINE n == Pager!Cardinality(Pager!RunStarts(p)) % 65536
<1> HIDE DEF p, m, h
<1>12. n \in Nat
  BY <1>10, <1>11, Wrapped
<1>13. head' \in Heads /\ head'.size = Len(pcb') /\ head'.cnt = n /\ n \in Nat
  <2>1. head' = [size |-> Len(p), cnt |-> n]
    BY <1>1
  <2> HIDE DEF n
  <2> QED
    BY <1>1, <1>10, <1>12, <2>1 DEF Heads
<1>14. IndexOK(index, head', p)
  <2>1. index \in IndexFile /\ index.head.size = head'.size /\ head'.size = Len(p) /\ head'.size = m
    BY <1>1, <1>2, <1>10, <1>13 DEF IndexOK, h, m
  <2>2. \A i \in 1 .. m : index.pcb[i] = p[i]
    <3>1. \A i \in 1 .. m - 1 + 1 : SubSeq(pcb, 1, m)[i] = pcb[1 + i - 1]
      BY ONLY <1>2, <1>6, PagesPart
    <3>2. m - 1 + 1 = m /\ \A i \in 1 .. m : 1 + i - 1 = i
      BY <1>6
    <3> QED
      BY <1>6, <1>7, <3>1, <3>2
  <2> QED
    BY <1>6, <1>10, <2>1, <2>2 DEF IndexOK
<1>15. FilesInv'
  <2>1. Files(todo', file', index', pcb', v, head')
    BY <1>1, <1>9, <1>14, FilesNow
  <2> QED
    BY <1>1, <1>8, <2>1 DEF FilesInv
<1>16. MemoryInv'
  <2>1. uflen' \in Nat /\ InitCap <= uflen'
    BY <1>1, <1>6, Sizes, MaxOfTwo DEF m
  <2>2. \A k \in 1 .. Len(p) : p[k].index < uflen'
    <3> SUFFICES ASSUME NEW k \in 1 .. Len(p) PROVE p[k].index < uflen'
      OBVIOUS
    <3>1. PageIn(p[k], file)
      BY <1>9, KeepsSay
    <3>2. p[k].index \in 0 .. InitCap - 1 /\ InitCap \in Nat
      BY <3>1, Sizes DEF PageIn
    <3> QED
      BY <2>1, <3>2
  <2>3. cap' \in Pager!Capacities
    <3>1. cap' = InitCap
      BY <1>1
    <3> QED
      BY ONLY <3>1, Zenon DEF Pager!Capacities
  <2>4. todo' \in Seq(Op) /\ blocks' \in Nat
    BY <1>1 DEF PagerInv, MemoryInv
  <2>5. /\ used' = Pager!Indexes(pcb') /\ doing' = "restarted"
        /\ \A k \in 1 .. Len(pcb') : pcb'[k].index < uflen'
    <3>1. used' = Pager!Indexes(p) /\ pcb' = p /\ doing' = "restarted"
      BY <1>1
    <3> QED
      BY ONLY <2>2, <3>1
  <2> QED
    BY ONLY <1>13, <2>1, <2>3, <2>4, <2>5 DEF MemoryInv
<1>17. TornInv' /\ PushInv'
  BY <1>1, <1>5, <1>13 DEF TornInv, PushInv
<1>18. CountInv'
  <2>1. head'.cnt = Pager!Cardinality(Pager!RunStarts(pcb')) % 65536
    BY <1>1, <1>13 DEF n
  <2> QED
    BY <1>1, <1>2, <2>1 DEF CountInv
<1> QED
  BY <1>15, <1>16, <1>17, <1>18 DEF PagerInv

LEMMA OpenInv ==
    ASSUME Restrained, PagerInv, Pager!Open
    PROVE  PagerInv'
<1>1. /\ doing = "restarted" /\ doing' = "idle" /\ want' = Pager!Contents(pcb) /\ torn' = 0
      /\ UNCHANGED <<cap, pcb, used, uflen, head, block, placed, flag, file, index, todo, blocks,
                     missing, failures>>
  BY DEF Pager!Open, Pager!memory
<1>2. todo = <<>> /\ head.size = Len(pcb) /\ failures \in Nat
  BY <1>1 DEF PagerInv, TornInv
<1>3. PICK v : Keeps(file, pcb, v)
  BY <1>2, Quiet
<1>4. /\ pcb \in Pages /\ Len(pcb) \in Nat /\ head \in Heads /\ IndexOK(index, head, pcb)
  BY <1>2, Quiet
<1>5. want' = v /\ v \in Words /\ Len(v) \in Nat
  BY <1>1, <1>3, KeepsContents, KeepsSay
<1>6. Pager!Cardinality(Pager!RunStarts(pcb)) = Len(v)
  BY <1>3, KeepsCount
<1>7. head.cnt = Pager!Cardinality(Pager!RunStarts(pcb)) % 65536 /\ missing = 0
  BY <1>1 DEF PagerInv, CountInv
<1>8. Counts(head.cnt, missing, Len(v))
  <2> DEFINE n == Len(v)
             c == head.cnt
  <2>1. n \in Nat /\ c = n % 65536
    BY <1>5, <1>6, <1>7
  <2> HIDE DEF n, c
  <2>2. Counts(n % 65536, 0, n)
    BY ONLY <2>1, CountsNone
  <2>3. Counts(c, 0, n)
    BY ONLY <2>1, <2>2
  <2> QED
    BY <1>7, <2>3 DEF n, c
<1>9. FilesInv'
  <2>1. Files(todo', file', index', pcb', want', head')
    BY <1>1, <1>2, <1>3, <1>4, <1>5, FilesNow
  <2>2. Runs' = want'
    BY <1>1 DEF Runs
  <2> QED
    BY <1>1, <2>1, <2>2 DEF FilesInv
<1>10. MemoryInv'
  BY <1>1 DEF PagerInv, MemoryInv
<1>11. TornInv' /\ PushInv'
  BY <1>1, <1>2, <1>4 DEF TornInv, PushInv
<1>12. CountInv'
  BY <1>1, <1>5, <1>7, <1>8 DEF CountInv
<1> QED
  BY <1>9, <1>10, <1>11, <1>12 DEF PagerInv

LEMMA BlockIs ==
    ASSUME PagerInv, NEW m \in Lengths
    PROVE  /\ Pager!Block(m) \in Seq(Cell) /\ Len(Pager!Block(m)) = m /\ m \in Nat \ {0}
<1>1. m \in Nat \ {0} /\ blocks \in Nat
  BY Sizes DEF PagerInv, MemoryInv
<1>2. Pager!Block(m) = [k \in 1 .. m |-> <<blocks + 1, k>>]
  BY DEF Pager!Block
<1>3. \A k \in 1 .. m : <<blocks + 1, k>> \in Cell
  BY <1>1 DEF Cell
<1> QED
  BY <1>1, <1>2, <1>3

LEMMA ExtendInv ==
    ASSUME Restrained, PagerInv, NEW m \in Lengths, Pager!Extend(m)
    PROVE  PagerInv'
<1> DEFINE n == Len(pcb)
           s == Pager!Block(m)
           b == Pager!Behind(pcb[n])
           u == Grown(pcb, Len(s))
           v == Longer(want, s)
<1>1. s \in Seq(Cell) /\ Len(s) = m /\ m \in Nat \ {0}
  BY BlockIs
<1>2. /\ doing = "idle" /\ todo = <<>> /\ Pager!FitsLastPage(m)
      /\ want' = [want EXCEPT ![Len(want)] = @ \o s]
      /\ pcb' = [pcb EXCEPT ![n].offset = @ + m]
      /\ \E late \in BOOLEAN :
            todo' = Pager!PageThenIndex(Pager!WritePage(b, s), late, head, pcb')
      /\ blocks' = blocks + 1
      /\ UNCHANGED <<cap, used, uflen, head, doing, block, placed, flag, file, index, torn,
                     missing, failures>>
  BY DEF Pager!Extend, Pager!Call, Pager!Idle, Pager!faults
<1>3. pcb' = u /\ want' = v
  BY <1>1, <1>2 DEF Grown, Longer
<1>4. /\ pcb \in Pages /\ Len(pcb) \in Nat /\ head \in Heads /\ want \in Words
      /\ used = Pager!Indexes(pcb) /\ missing \in Int /\ head.size <= Len(pcb)
  BY <1>2, Quiet
<1>5. Keeps(file, pcb, want) /\ Counts(head.cnt, missing, Len(want))
  BY <1>2, Quiet
<1>6. pcb # <<>> /\ n \in 1 .. Len(pcb) /\ m + pcb[n].offset <= PageSize
  <2>1. pcb # <<>> /\ m + Pager!Last(pcb).offset <= PageSize
    BY <1>2 DEF Pager!FitsLastPage
  <2>2. Pager!Last(pcb) = pcb[n]
    BY Zenon DEF Pager!Last
  <2> QED
    BY <1>4, <2>1, <2>2 DEF Pages
<1>7. /\ PageIn(pcb[n], file) /\ pcb[n] \in Pager!Page
  BY <1>5, <1>6, KeepsSay
<1> DEFINE o == pcb[n].offset
<1>8. /\ o \in Nat /\ Divides(Unit, o + 1) /\ o + 1 \in Nat /\ PageSize \in Nat
      /\ pcb[n].index \in Nat
  BY <1>7, Sizes DEF PageIn, Pager!Page
<1> HIDE DEF o
<1>9. Divides(Unit, o + 1 + m) /\ o + 1 + m <= PageSize
  <2> DEFINE a == o + 1
             t == a + m
  <2>1. Unit \in Nat \ {0, 1} /\ Divides(Unit, m) /\ Divides(Unit, PageSize) /\ Divides(Unit, a)
    BY <1>8, UnitIs
  <2> HIDE DEF a
  <2>2. Divides(Unit, t)
    BY <2>1, DividesSum
  <2>3. t <= PageSize + 1
    BY <1>1, <1>6, <1>8 DEF a, o
  <2> HIDE DEF t
  <2>4. t <= PageSize
    BY ONLY <2>1, <2>2, <2>3, NoSpill
  <2> QED
    BY <2>2, <2>4 DEF t, a
<1>10. b \in Nat
  <2>1. b = pcb[n].index * PageSize + o + 1
    BY DEF Pager!Behind, Pager!Start, o
  <2>2. pcb[n].index * PageSize \in Nat
    BY <1>8, ProductIn
  <2> QED
    BY <1>8, <2>1, <2>2, SMTT(30)
<1>11. /\ Keeps(Pager!Written(file, b, s), u, v) /\ Len(u) = Len(pcb)
       /\ \A k \in 1 .. Len(pcb) : u[k].flag = pcb[k].flag /\ u[k].index = pcb[k].index
       /\ \A k \in 1 .. Len(pcb) - 1 : u[k] = pcb[k]
  <2>1. Divides(Unit, pcb[Len(pcb)].offset + 1 + Len(s))
          /\ pcb[Len(pcb)].offset + 1 + Len(s) <= PageSize
    BY <1>1, <1>9 DEF o
  <2>2. s \in Seq(Cell) /\ b = Pager!Behind(pcb[Len(pcb)])
    BY <1>1
  <2> HIDE DEF s
  <2> QED
    BY ONLY Restrained, <1>5, <1>6, <2>1, <2>2, KeepsGrown
<1> DEFINE g == Pager!Written(file, b, s)
<1> HIDE DEF b, s, u, v, g
<1>12. u \in Pages /\ Len(u) \in Nat /\ v \in Words
  BY <1>11, KeepsSay DEF g
<1>13. FilesInv'
  <2>1. PICK late \in BOOLEAN :
          todo' = Pager!PageThenIndex(Pager!WritePage(b, s), late, head, u)
    BY <1>2, <1>3
  <2> DEFINE ops == Pager!PageThenIndex(Pager!WritePage(b, s), late, head, u)
             y == [head |-> head, pcb |-> u]
  <2>2. ops \in Seq(Op) /\ Leads(ops, file, index, g, y)
    BY <1>1, <1>4, <1>10, <1>12, PageThenIndexLeads DEF g
  <2>3. IndexOK(y, head, u)
    <3>1. head.size <= Len(u)
      BY <1>4, <1>11
    <3> QED
      BY <1>4, <1>12, <3>1, IndexNew
  <2> HIDE DEF ops, y
  <2>4. Files(ops, file, index, u, v, head)
    BY <1>11, <2>2, <2>3 DEF Files, g
  <2>5. Files(todo', file', index', pcb', want', head')
    BY <1>2, <1>3, <2>1, <2>4 DEF ops
  <2>6. Runs' = want'
    BY <1>2 DEF Runs
  <2> QED
    BY <1>2, <2>5, <2>6 DEF FilesInv
<1>14. MemoryInv'
  <2>1. todo' \in Seq(Op)
    <3>1. PICK late \in BOOLEAN :
            todo' = Pager!PageThenIndex(Pager!WritePage(b, s), late, head, u)
      BY <1>2, <1>3
    <3> QED
      BY <1>1, <1>4, <1>10, <1>12, <3>1, PageThenIndexLeads
  <2>2. Pager!Indexes(u) = Pager!Indexes(pcb)
    <3>1. /\ Pager!Indexes(u) = {u[k].index : k \in 1 .. Len(u)}
          /\ Pager!Indexes(pcb) = {pcb[k].index : k \in 1 .. Len(pcb)}
      BY <1>4, <1>12, IndexesAre
    <3> QED
      BY <1>11, <3>1
  <2>3. \A k \in 1 .. Len(u) : u[k].index < uflen
    BY <1>11 DEF PagerInv, MemoryInv
  <2>4. /\ cap \in Pager!Capacities /\ uflen \in Nat /\ blocks \in Nat
    BY DEF PagerInv, MemoryInv
  <2>5. /\ cap' = cap /\ uflen' = uflen /\ used' = used /\ pcb' = u /\ head' = head
        /\ blocks' = blocks + 1 /\ doing' = "idle"
    BY <1>2, <1>3
  <2> QED
    BY ONLY <1>4, <2>1, <2>2, <2>3, <2>4, <2>5 DEF MemoryInv
<1>15. TornInv' /\ PushInv'
  <2>1. Len(pcb') = Len(pcb)
    BY <1>3, <1>11
  <2> QED
    BY <1>2, <2>1 DEF PagerInv, TornInv, PushInv
<1>16. CountInv'
  <2>1. Len(v) = Len(want)
    BY <1>4 DEF v, Longer, Words
  <2>2. missing' = missing /\ want' = v /\ doing' = "idle" /\ head' = head
    BY <1>2, <1>3
  <2>3. missing \in Int /\ Counts(head.cnt, missing, Len(v))
    BY <1>4, <1>5, <2>1
  <2> QED
    BY ONLY <1>12, <2>2, <2>3 DEF CountInv
<1> QED
  BY <1>13, <1>14, <1>15, <1>16 DEF PagerInv

-----------------------------------------------------------------------------
(* get_free_page().  The pages a call has placed are not in the first run, *)
(* if there are others.                                                    *)
LEMMA OwnRunLater ==
    ASSUME NEW g, NEW p, NEW w, Keeps(g, p, w), NEW k \in Nat, k < Len(p), OwnRun(p, k)
    PROVE  Pager!FrontLen(p) <= Len(p) - k /\ (k > 0 => Len(w) > 1)
<1>1. p \in Pages /\ Len(p) \in Nat /\ Holds(p, Texts(g, p), w) /\ p # <<>>
  BY KeepsSay
<1>2. PICK n, c : HoldsBy(n, c, p, Texts(g, p), w)
  BY <1>1 DEF Holds
<1>3. Cuts(n, c, p) /\ Len(w) = n
  BY <1>2, HoldsSay
<1>4. n # 0
  BY <1>1, <1>3, CutsSome
<1>5. Pager!FrontLen(p) = c[2] - 1 /\ c[2] \in 2 .. Len(p) + 1
  BY <1>1, <1>3, <1>4, FrontLenIs
<1>6. CASE k = 0
  BY <1>1, <1>5, <1>6
<1>7. CASE k > 0
  <2> DEFINE i == Len(p) - k + 1
  <2>1. i \in 2 .. Len(p) /\ i - 1 = Len(p) - k /\ i \in Len(p) - k + 1 .. Len(p)
    BY <1>1, <1>7
  <2>2. Begins(p, i)
    <3>1. p[i].flag = flag /\ p[i - 1].flag # flag
      BY <2>1 DEF OwnRun
    <3> QED
      BY <3>1 DEF Begins
  <2>3. i \in 1 .. Len(p)
    BY <2>1
  <2> HIDE DEF i
  <2>4. PICK r \in 1 .. n : c[r] = i
    BY <1>3, <2>2, <2>3, CutsSay
  <2>5. /\ n \in Nat /\ c[1] = 1 /\ \A j, l \in 1 .. n + 1 : j < l => c[j] < c[l]
        /\ \A l \in 1 .. n + 1 : c[l] \in 1 .. Len(p) + 1
    BY <1>1, <1>3, CutsSay, CutBounds
  <2>6. r # 1
    BY <2>1, <2>4, <2>5
  <2>7. r \in 2 .. n /\ 2 \in 1 .. n + 1 /\ r \in 1 .. n + 1
    BY <2>5, <2>6
  <2>8. c[2] <= i
    <3>1. CASE r = 2
      BY <2>4, <2>1, <3>1
    <3>2. CASE r # 2
      <4>1. c[2] < c[r]
        BY <2>5, <2>7, <3>2
      <4> QED
        BY <1>5, <2>1, <2>4, <4>1
    <3> QED
      BY <3>1, <3>2
  <2>9. n > 1
    BY <2>5, <2>7
  <2>10. c[2] - 1 <= Len(p) - k
    BY <1>1, <1>5, <2>1, <2>8
  <2> QED
    BY <1>3, <1>5, <2>9, <2>10
<1> QED
  BY <1>6, <1>7

LEMMA FreeLowest ==
    ASSUME NEW S \in SUBSET Nat, S # {}
    PROVE  Pager!Min(S) \in S
<1>1. PICK m \in S : \A x \in S : m <= x
  BY ONLY S \in SUBSET Nat, S # {}, LeastNatural
<1>2. Pager!Min(S) = m
  BY <1>1, MinIs
<1> QED
  BY <1>2

(* Inside push_back(): what the call found, or what the removal of the     *)
(* oldest run leaves, with a page that is not in use.                      *)
Placing(left, k) ==
    IF k > 0 THEN Append(left, SubSeq(block, 1, placed)) ELSE left

FreePageOK(page, m, left, evict, k) ==
    /\ page \in 0 .. InitCap - 1 /\ page < uflen /\ page \notin m.used
    /\ m.pcb \in Pages /\ m.used = Pager!Indexes(m.pcb) /\ \A i \in m.used : i < uflen
    /\ m.head \in Heads /\ m.head.size <= Len(m.pcb)
    /\ left \in Words /\ Counts(m.head.cnt, missing, Len(left))
    /\ k \in 0 .. Len(m.pcb) /\ OwnRun(m.pcb, k)
    /\ Keeps(file, m.pcb, Placing(left, k))
    /\ evict \in Seq(Op)
    /\ \E y : Leads(evict, file, index, file, y) /\ IndexOK(y, m.head, m.pcb)

(* The block that is being placed. *)
LEMMA PushSays ==
    ASSUME Restrained, PagerInv, doing = "push"
    PROVE  /\ block \in Seq(Cell) /\ Len(block) \in Lengths /\ Len(block) \in Nat \ {0}
           /\ placed \in Nat /\ placed < Len(block) /\ cap <= uflen /\ flag \in {0, 1}
           /\ cap \in Nat /\ cap <= InitCap /\ uflen \in Nat /\ InitCap \in Nat
           /\ \E k \in 0 .. Len(pcb) : placed = k * PageSize /\ OwnRun(pcb, k)
           /\ Len(block) <= cap * PageSize
<1>1. /\ block \in Seq(Cell) /\ Len(block) \in Lengths
      /\ placed \in Nat /\ placed < Len(block) /\ cap <= uflen /\ flag \in {0, 1}
      /\ \E k \in 0 .. Len(pcb) : placed = k * PageSize /\ OwnRun(pcb, k)
  BY DEF PagerInv, PushInv
<1>2. cap \in Pager!Capacities /\ uflen \in Nat
  BY DEF PagerInv, MemoryInv
<1>3. cap \in Nat /\ cap <= InitCap /\ InitCap \in Nat
  BY <1>2, MaxIs, Sizes
<1>4. Len(block) \in Nat \ {0} /\ Len(block) <= cap * PageSize
  BY <1>1, <1>2, Sizes
<1> QED
  BY <1>1, <1>2, <1>3, <1>4

LEMMA PlacingIs ==
    ASSUME Restrained, PagerInv, doing = "push", NEW k \in Nat, placed = k * PageSize
    PROVE  /\ Runs = Placing(want, k)
           /\ \A left : Placing(left, k) = IF placed > 0 THEN Append(left, SubSeq(block, 1, placed))
                                                         ELSE left
<1>1. placed > 0 <=> k > 0
  <2>1. PageSize \in Nat \ {0}
    BY Sizes
  <2>2. CASE k = 0
    <3>1. 0 * PageSize = 0
      BY <2>1
    <3> QED
      BY <2>2, <3>1
  <2>3. CASE k > 0
    <3>1. 0 * PageSize + PageSize <= k * PageSize /\ 0 * PageSize \in Nat /\ k * PageSize \in Nat
      <4>1. 0 \in Nat /\ PageSize \in Nat /\ 0 < k
        BY <2>1, <2>3
      <4> QED
        BY ONLY <4>1, k \in Nat, ProductRises
    <3> QED
      BY <2>1, <2>3, <3>1
  <2> QED
    BY <2>2, <2>3
<1> QED
  BY <1>1, Zenon DEF Runs, Placing

(* A page that is free. *)
LEMMA FreePageFound ==
    ASSUME Restrained, PagerInv, doing = "push", todo = <<>>,
           NEW k \in 0 .. Len(pcb), placed = k * PageSize, OwnRun(pcb, k),
           NEW page \in 0 .. cap - 1, page \notin used
    PROVE  FreePageOK(page, Pager!Memory, want, <<>>, k)
<1> DEFINE m == Pager!Memory
<1>1. m.pcb = pcb /\ m.used = used /\ m.head = head
  BY MemoryIs
<1> HIDE DEF m
<1>2. /\ pcb \in Pages /\ Len(pcb) \in Nat /\ head \in Heads /\ head.size <= Len(pcb)
      /\ want \in Words /\ IndexOK(index, head, pcb)
      /\ used = Pager!Indexes(pcb)
      /\ Keeps(file, pcb, Runs) /\ Counts(head.cnt, missing, Len(want))
  BY Quiet
<1>3. cap \in Nat /\ cap <= InitCap /\ uflen \in Nat /\ cap <= uflen /\ InitCap \in Nat
  BY PushSays
<1>4. page \in 0 .. InitCap - 1 /\ page < uflen
  BY <1>3
<1>5. Runs = Placing(want, k)
  <2>1. k \in Nat
    BY <1>2
  <2> QED
    BY <2>1, PlacingIs
<1>6. \A i \in used : i < uflen
  BY <1>2, IndexesAre DEF PagerInv, MemoryInv
<1>7. <<>> \in Seq(Op) /\ Leads(<<>>, file, index, file, index)
  BY LeadsNone
<1>8. FreePageOK(page, m, want, <<>>, k)
  BY <1>1, <1>2, <1>4, <1>5, <1>6, <1>7 DEF FreePageOK
<1> QED
  BY <1>8 DEF m

(* No page is free: then those the call has placed are not all there are. *)
LEMMA FullList ==
    ASSUME Restrained, PagerInv, doing = "push", todo = <<>>,
           NEW k \in 0 .. Len(pcb), placed = k * PageSize, \A i \in 0 .. cap - 1 : i \in used
    PROVE  k < Len(pcb)
<1>1. /\ pcb \in Pages /\ Len(pcb) \in Nat /\ used = Pager!Indexes(pcb)
      /\ Keeps(file, pcb, Runs)
  BY Quiet
<1>2. /\ cap \in Nat /\ placed < Len(block) /\ Len(block) <= cap * PageSize
      /\ Len(block) \in Nat /\ placed \in Nat
  BY PushSays
<1>3. PageSize \in Nat
  BY Sizes
<1>4. k < cap
  <2> SUFFICES ASSUME cap <= k PROVE FALSE
    BY <1>1, <1>2
  <2>1. cap * PageSize <= k * PageSize
    <3>1. CASE cap = k
      BY <1>2, <1>3, <3>1, ProductIn
    <3>2. CASE cap < k
      <4>1. /\ cap * PageSize + PageSize <= k * PageSize
            /\ cap * PageSize \in Nat /\ k * PageSize \in Nat
        BY <1>1, <1>2, <1>3, <3>2, ProductRises
      <4> QED
        BY <1>3, <4>1
    <3> QED
      BY <1>1, <1>2, <3>1, <3>2
  <2>2. cap * PageSize \in Nat
    BY <1>2, <1>3, ProductIn
  <2> QED
    BY <1>2, <2>1, <2>2
<1>5. cap <= Len(pcb)
  <2>1. Pager!Cardinality(used) = Len(pcb) /\ used \subseteq 0 .. InitCap - 1
    BY <1>1, KeepsCount
  <2>2. InitCap \in Nat /\ IsFiniteSet(0 .. InitCap - 1)
    <3>1. InitCap \in Nat /\ 0 \in Int /\ InitCap - 1 \in Int
      BY Sizes
    <3> QED
      BY ONLY <3>1, FS_Interval
  <2>3. IsFiniteSet(used)
    BY ONLY <2>1, <2>2, FS_Subset
  <2>4. Cardinality(used) = Len(pcb)
    <3>1. Cardinality(used) = Pager!Cardinality(used)
      BY DEF Cardinality, Pager!Cardinality
    <3> QED
      BY <2>1, <3>1
  <2>5. IsFiniteSet(0 .. cap - 1) /\ Cardinality(0 .. cap - 1) = cap
    <3>1. 0 \in Int /\ cap - 1 \in Int
      BY <1>2
    <3>2. /\ IsFiniteSet(0 .. cap - 1)
          /\ Cardinality(0 .. cap - 1) = IF 0 > cap - 1 THEN 0 ELSE cap - 1 - 0 + 1
      BY ONLY <3>1, FS_Interval
    <3> QED
      BY <1>2, <3>2
  <2>6. 0 .. cap - 1 \subseteq used
    OBVIOUS
  <2>7. Cardinality(0 .. cap - 1) <= Cardinality(used)
    BY ONLY <2>3, <2>6, FS_Subset
  <2> QED
    BY <2>4, <2>5, <2>7
<1> QED
  BY <1>1, <1>2, <1>4, <1>5

(* No page is free: the oldest run goes. *)
LEMMA OwnRunKept ==
    ASSUME NEW p \in Pages, NEW m \in 1 .. Len(p), NEW k \in Nat, OwnRun(p, k), m <= Len(p) - k
    PROVE  LET u == SubSeq(p, m + 1, Len(p))
           IN  k \in 0 .. Len(u) /\ OwnRun(u, k)
<1> DEFINE u == SubSeq(p, m + 1, Len(p))
           n == Len(p)
<1>1. n \in Nat /\ m \in Nat /\ m <= n /\ m <= n - k
  BY DEF Pages
<1>2. m + 1 \in Nat \ {0} /\ m + 1 <= n + 1 /\ n <= Len(p)
  BY <1>1
<1>3. /\ u \in Pages /\ Len(u) = n - (m + 1) + 1
      /\ \A i \in 1 .. n - (m + 1) + 1 : u[i] = p[m + 1 + i - 1]
  BY <1>1, <1>2, PagesPart
<1>4. /\ Len(u) = n - m
      /\ \A i \in 1 .. n - m : u[i] = p[m + i]
  BY ONLY <1>1, <1>3
<1>5. /\ \A i \in n - k + 1 .. n : p[i].flag = flag
      /\ k < n => p[n - k].flag # flag
  BY DEF OwnRun
<1> HIDE DEF u, n
<1>6. k \in 0 .. Len(u)
  BY ONLY <1>1, <1>4, k \in Nat
<1>7. ASSUME NEW i \in Len(u) - k + 1 .. Len(u) PROVE u[i].flag = flag
  <2>1. i \in 1 .. n - m /\ m + i \in n - k + 1 .. n
    BY ONLY <1>1, <1>4, <1>6, <1>7, k \in Nat
  <2> QED
    BY ONLY <1>4, <1>5, <2>1
<1>8. ASSUME k < Len(u) PROVE u[Len(u) - k].flag # flag
  <2>1. n - m - k \in 1 .. n - m /\ m + (n - m - k) = n - k /\ k < n
    BY ONLY <1>1, <1>4, <1>8, k \in Nat
  <2>2. u[n - m - k] = p[m + (n - m - k)]
    BY ONLY <1>4, <2>1
  <2> QED
    BY ONLY <1>4, <1>5, <2>1, <2>2
<1> QED
  BY <1>6, <1>7, <1>8 DEF u, OwnRun

LEMMA TailAppend ==
    ASSUME NEW v \in Words, v # <<>>, NEW s
    PROVE  /\ Tail(Append(v, s)) = Append(Tail(v), s) /\ Tail(v) \in Words
           /\ Tail(v) = SubSeq(v, 2, Len(v))
  BY DEF Words

LEMMA FreePageEvicted ==
    ASSUME Restrained, PagerInv, doing = "push", todo = <<>>,
           NEW k \in 0 .. Len(pcb), placed = k * PageSize, OwnRun(pcb, k),
           \A i \in 0 .. cap - 1 : i \in used
    PROVE  LET r == Pager!Popped(Pager!Memory)
           IN  FreePageOK(pcb[1].index, r, Tail(want), Pager!WritePCB(r.head, r.pcb), k)
<1> DEFINE r == Pager!Popped(Pager!Memory)
           n == Pager!FrontLen(pcb)
<1>1. /\ pcb \in Pages /\ Len(pcb) \in Nat /\ head \in Heads /\ head.size <= Len(pcb)
      /\ want \in Words /\ used = Pager!Indexes(pcb) /\ missing \in Int
      /\ Keeps(file, pcb, Runs) /\ Counts(head.cnt, missing, Len(want))
  BY Quiet
<1>2. k \in Nat /\ k < Len(pcb)
  BY <1>1, FullList
<1>3. Runs = Placing(want, k)
  BY <1>2, PlacingIs
<1>4. pcb # <<>>
  BY <1>1, <1>2
<1>5. n <= Len(pcb) - k /\ (k > 0 => Len(Runs) > 1)
  BY <1>1, <1>2, OwnRunLater
<1>6. want # <<>>
  <2>1. CASE k > 0
    <3>1. Runs = Append(want, SubSeq(block, 1, placed)) /\ Len(Runs) > 1
      BY <1>3, <1>5, <2>1 DEF Placing
    <3> QED
      BY <1>1, <3>1 DEF Words
  <2>2. CASE ~(k > 0)
    <3>1. Runs = want
      BY <1>3, <2>2 DEF Placing
    <3>2. Runs # <<>>
      BY <1>1, <1>4, KeepsPopped
    <3> QED
      BY <3>1, <3>2
  <2> QED
    BY <2>1, <2>2
<1>7. /\ Keeps(file, r.pcb, Tail(Runs))
      /\ n \in 1 .. Len(pcb) /\ r.pcb = SubSeq(pcb, n + 1, Len(pcb))
      /\ r.used = Pager!Indexes(r.pcb)
      /\ r.head \in Heads /\ r.head.size = Len(r.pcb)
      /\ Counts(r.head.cnt, missing, Len(Tail(want)))
      /\ r.used \subseteq used
      /\ pcb[1].index \in used /\ pcb[1].index \notin r.used
  BY <1>1, <1>4, <1>6, AfterPop
<1> HIDE DEF r, n
<1>8. k \in 0 .. Len(r.pcb) /\ OwnRun(r.pcb, k)
  BY <1>1, <1>2, <1>5, <1>7, OwnRunKept
<1>9. Tail(want) \in Words /\ Tail(Runs) = Placing(Tail(want), k)
  BY <1>1, <1>3, <1>6, TailAppend DEF Placing
<1>10. \A i \in used : i < uflen
  BY <1>1, IndexesAre DEF PagerInv, MemoryInv
<1>11. pcb[1].index \in 0 .. InitCap - 1
  <2>1. PageIn(pcb[1], file)
    <3>1. 1 \in 1 .. Len(pcb)
      BY <1>1, <1>2
    <3> QED
      BY <1>1, <3>1, KeepsSay
  <2> QED
    BY <2>1 DEF PageIn
<1>12. r.pcb \in Pages /\ Len(r.pcb) \in Nat
  BY <1>7, KeepsSay
<1> DEFINE evict == Pager!WritePCB(r.head, r.pcb)
           y == [head |-> r.head, pcb |-> r.pcb]
<1>13. evict \in Seq(Op) /\ Leads(evict, file, index, file, y)
  BY ONLY <1>7, <1>12, WritePCBLeads
<1>14. IndexOK(y, r.head, r.pcb) /\ r.head.size <= Len(r.pcb)
  <2>1. r.head.size <= Len(r.pcb)
    BY <1>7, <1>12
  <2> QED
    BY ONLY <1>7, <1>12, <2>1, IndexNew
<1> HIDE DEF evict, y
<1>15. FreePageOK(pcb[1].index, r, Tail(want), evict, k)
  BY <1>1, <1>7, <1>8, <1>9, <1>10, <1>11, <1>12, <1>13, <1>14, Zenon DEF FreePageOK
<1> QED
  BY <1>15 DEF r, evict

(* Whichever page the call is given. *)
LEMMA GetFreePageOK ==
    ASSUME Restrained, PagerInv, doing = "push", todo = <<>>,
           NEW k \in 0 .. Len(pcb), placed = k * PageSize, OwnRun(pcb, k),
           NEW page, NEW m, NEW x \in {0, 1}, Pager!GetFreePage(page, m, x),
           NEW left, left = SubSeq(want, x + 1, Len(want)),
           NEW evict, evict = IF x = 1 THEN Pager!WritePCB(m.head, m.pcb) ELSE <<>>
    PROVE  FreePageOK(page, m, left, evict, k)
<1>1. cap \in Nat /\ cap <= uflen /\ uflen \in Nat
  BY PushSays
<1>2. uflen .. cap - 1 = {}
  BY <1>1
<1>3. \E junk \in SUBSET {} :
       \/ /\ Pager!FreePages(junk) # {}
          /\ page = Pager!Min(Pager!FreePages(junk)) /\ m = Pager!Memory /\ x = 0
       \/ /\ Pager!FreePages(junk) = {}
          /\ page = pcb[1].index /\ m = Pager!Popped(Pager!Memory) /\ x = 1
  BY <1>2 DEF Pager!GetFreePage
<1>4. Pager!FreePages({}) = {i \in 0 .. cap - 1 : i \notin used}
  BY DEF Pager!FreePages
<1> DEFINE S == {i \in 0 .. cap - 1 : i \notin used}
<1>5. \/ S # {} /\ page = Pager!Min(S) /\ m = Pager!Memory /\ x = 0
      \/ S = {} /\ page = pcb[1].index /\ m = Pager!Popped(Pager!Memory) /\ x = 1
  <2>1. PICK junk \in SUBSET {} :
       \/ /\ Pager!FreePages(junk) # {}
          /\ page = Pager!Min(Pager!FreePages(junk)) /\ m = Pager!Memory /\ x = 0
       \/ /\ Pager!FreePages(junk) = {}
          /\ page = pcb[1].index /\ m = Pager!Popped(Pager!Memory) /\ x = 1
    BY <1>3
  <2>2. junk = {}
    OBVIOUS
  <2> QED
    BY <1>4, <2>1, <2>2, Zenon
<1>6. want \in Words
  BY Quiet
<1>7. CASE S # {} /\ page = Pager!Min(S) /\ m = Pager!Memory /\ x = 0
  <2>1. S \in SUBSET Nat
    BY <1>1
  <2>2. page \in S
    BY <1>7, <2>1, FreeLowest
  <2>3. page \in 0 .. cap - 1 /\ page \notin used
    BY <2>2
  <2>4. FreePageOK(page, Pager!Memory, want, <<>>, k)
    BY <2>3, FreePageFound
  <2>5. left = want
    BY <1>6, <1>7 DEF Words
  <2>6. evict = <<>>
    BY <1>7
  <2> QED
    BY <1>7, <2>4, <2>5, <2>6
<1>8. CASE S = {} /\ page = pcb[1].index /\ m = Pager!Popped(Pager!Memory) /\ x = 1
  <2>1. \A i \in 0 .. cap - 1 : i \in used
    BY <1>8
  <2>2. FreePageOK(pcb[1].index, Pager!Popped(Pager!Memory), Tail(want),
                   Pager!WritePCB(Pager!Popped(Pager!Memory).head,
                                  Pager!Popped(Pager!Memory).pcb), k)
    BY <2>1, FreePageEvicted
  <2>3. left = Tail(want)
    BY <1>6, <1>8 DEF Words
  <2>4. evict = Pager!WritePCB(m.head, m.pcb)
    BY <1>8
  <2> QED
    BY <1>8, <2>2, <2>3, <2>4
<1> QED
  BY <1>5, <1>7, <1>8

-----------------------------------------------------------------------------
(* The piece of the block that goes into the next page. *)
LEMMA DividesTimes ==
    ASSUME NEW d \in Nat, NEW m, Divides(d, m), NEW k \in Nat
    PROVE  Divides(d, k * m)
<1>1. PICK e \in Nat : m = e * d
  BY DEF Divides
<1>2. k * e \in Nat
  BY <1>1, ProductIn
<1>3. k * m = (k * e) * d
  BY <1>1
<1> QED
  BY <1>2, <1>3 DEF Divides

LEMMA PieceIs ==
    ASSUME Restrained, PagerInv, doing = "push", NEW k \in Nat, placed = k * PageSize,
           NEW n, n = Pager!Min({PageSize, Len(block) - placed}),
           NEW s, s = SubSeq(block, placed + 1, placed + n)
    PROVE  /\ n \in 1 .. PageSize /\ placed + n <= Len(block) /\ placed + n \in Nat
           /\ s \in Seq(Cell) /\ Len(s) = n /\ Divides(Unit, Len(s))
           /\ placed + n < Len(block) => n = PageSize
           /\ placed = 0 => s = SubSeq(block, 1, placed + n)
           /\ SubSeq(block, 1, placed) \o s = SubSeq(block, 1, placed + n)
           /\ SubSeq(block, 1, placed) \in Seq(Cell) /\ SubSeq(block, 1, placed + n) \in Seq(Cell)
<1>1. /\ block \in Seq(Cell) /\ Len(block) \in Lengths /\ Len(block) \in Nat
      /\ placed \in Nat /\ placed < Len(block)
  BY PushSays
<1>2. PageSize \in Nat \ {0}
  BY Sizes
<1> DEFINE l == Len(block)
           d == Unit
           z == PageSize
           c == placed
<1>3. d \in Nat \ {0, 1} /\ Divides(d, l) /\ Divides(d, z)
  BY <1>1, UnitIs
<1>4. Divides(d, c)
  BY <1>3, DividesTimes
<1>5. l \in Nat /\ c \in Nat /\ c < l /\ z \in Nat \ {0} /\ l - c \in Nat /\ c <= l
  BY <1>1, <1>2
<1>6. n = Pager!Min({z, l - c})
  OBVIOUS
<1> HIDE DEF d, z, l, c
<1>7. Divides(d, l - c)
  BY ONLY <1>3, <1>4, <1>5, DividesSum
<1>8. /\ z <= l - c => n = z
      /\ l - c <= z => n = l - c
  BY ONLY <1>5, <1>6, MinOfTwo
<1>9. /\ n \in 1 .. z /\ c + n <= l /\ c + n \in Nat /\ n \in Nat
      /\ c + n < l => n = z
  BY ONLY <1>5, <1>8
<1>10. Divides(d, n)
  BY ONLY <1>3, <1>5, <1>7, <1>8
<1>11. s \in Seq(Cell) /\ Len(s) = n
  <2>1. c + 1 \in Nat \ {0} /\ c + 1 <= c + n + 1 /\ c + n <= Len(block) /\ c + n \in Nat
    BY ONLY <1>5, <1>9 DEF l
  <2>2. s = SubSeq(block, c + 1, c + n) /\ block \in Seq(Cell)
    BY <1>1 DEF c
  <2>3. s \in Seq(Cell) /\ Len(s) = n
    <3> DEFINE i == c + 1
               j == c + n
    <3>1. /\ i \in Nat \ {0} /\ j \in Nat /\ i <= j + 1 /\ j <= Len(block)
          /\ block \in Seq(Cell)
      BY ONLY <2>1, <2>2
    <3> HIDE DEF i, j
    <3>2. SubSeq(block, i, j) \in Seq(Cell) /\ Len(SubSeq(block, i, j)) = j - i + 1
      BY ONLY <3>1, PartIs
    <3>3. s = SubSeq(block, i, j)
      BY ONLY <2>2 DEF i, j
    <3>4. s \in Seq(Cell) /\ Len(s) = j - i + 1
      BY ONLY <3>2, <3>3
    <3>5. j - i + 1 = n
      BY ONLY <1>5, <1>9 DEF i, j
    <3> QED
      BY ONLY <3>4, <3>5
  <2> QED
    BY ONLY <2>3
<1>12. /\ SubSeq(block, 1, c) \in Seq(Cell) /\ SubSeq(block, 1, c + n) \in Seq(Cell)
       /\ SubSeq(block, 1, c) \o SubSeq(block, c + 1, c + n) = SubSeq(block, 1, c + n)
  <2>1. block \in Seq(Cell) /\ c \in Nat /\ n \in Nat /\ c + n <= Len(block)
    BY ONLY <1>1, <1>5, <1>9 DEF l
  <2> QED
    BY ONLY <2>1
<1>13. c = 0 => s = SubSeq(block, 1, c + n)
  BY ONLY s = SubSeq(block, placed + 1, placed + n) DEF c
<1>14. Divides(d, Len(s))
  BY ONLY <1>10, <1>11
<1> QED
  BY <1>9, <1>11, <1>12, <1>13, <1>14 DEF c, d, l, z

LEMMA PlacedKeeps ==
    ASSUME Restrained, PagerInv, doing = "push", NEW k \in Nat, placed = k * PageSize,
           NEW page, NEW m, NEW left, NEW evict, FreePageOK(page, m, left, evict, k),
           NEW n, n = Pager!Min({PageSize, Len(block) - placed}),
           NEW s, s = SubSeq(block, placed + 1, placed + n),
           NEW e, e = [index |-> page, offset |-> n - 1, flag |-> flag],
           NEW h, h = Pager!Written(file, page * PageSize, s)
    PROVE  /\ Keeps(h, Append(m.pcb, e), Append(left, SubSeq(block, 1, placed + n)))
           /\ e \in Pager!Page
<1> DEFINE p == m.pcb
           a == SubSeq(block, 1, placed)
           b == SubSeq(block, 1, placed + n)
<1>1. /\ n \in 1 .. PageSize /\ s \in Seq(Cell) /\ Len(s) = n /\ Divides(Unit, Len(s))
      /\ placed = 0 => s = b
      /\ a \o s = b /\ a \in Seq(Cell) /\ b \in Seq(Cell)
  BY PieceIs
<1>2. /\ page \in 0 .. InitCap - 1 /\ page \notin m.used
      /\ p \in Pages /\ m.used = Pager!Indexes(p)
      /\ left \in Words
      /\ k \in 0 .. Len(p) /\ OwnRun(p, k)
      /\ Keeps(file, p, Placing(left, k))
  BY Zenon DEF FreePageOK
<1>3. flag \in {0, 1} /\ PageSize \in Nat \ {0} /\ InitCap \in Nat
  BY PushSays, Sizes
<1>4. \A i \in 1 .. Len(p) : p[i].index # page
  BY <1>2, IndexesAre
<1>5. Len(p) \in Nat
  BY <1>2 DEF Pages
<1>6. e = [index |-> page, offset |-> Len(s) - 1, flag |-> flag]
  BY <1>1
<1>7. e \in Pager!Page
  <2>1. page \in Nat /\ Len(s) - 1 \in Nat
    <3> DEFINE l == Len(s)
    <3>1. l \in 1 .. PageSize
      BY <1>1
    <3> HIDE DEF l
    <3>2. page \in Nat /\ l - 1 \in Nat
      BY ONLY <1>2, <1>3, <3>1
    <3> QED
      BY ONLY <3>2 DEF l
  <2> QED
    BY ONLY <1>3, <1>6, <2>1 DEF Pager!Page
<1>8. Placing(left, k) = IF k > 0 THEN Append(left, a) ELSE left
  BY DEF Placing
<1>9. k = 0 => placed = 0
  BY <1>3
<1> HIDE DEF p, a, b
<1>10. CASE k = 0
  <2>1. p = <<>> \/ p[Len(p)].flag # flag
    <3>1. 0 < Len(p) => p[Len(p) - 0].flag # flag
      BY <1>2, <1>10 DEF OwnRun
    <3>2. CASE Len(p) = 0
      BY <1>2, <3>2 DEF Pages
    <3>3. CASE 0 < Len(p)
      <4>1. Len(p) - 0 = Len(p)
        BY <1>5
      <4> QED
        BY <3>1, <3>3, <4>1
    <3> QED
      BY <1>5, <3>2, <3>3
  <2>2. Keeps(file, p, left)
    BY <1>2, <1>8, <1>10
  <2>3. s = b
    BY <1>1, <1>9, <1>10
  <2>4. Keeps(h, Append(p, e), Append(left, s))
    BY ONLY Restrained, <1>1, <1>2, <1>3, <1>4, <1>6, <2>1, <2>2, KeepsNew,
            h = Pager!Written(file, page * PageSize, s)
  <2> QED
    BY <1>7, <2>3, <2>4 DEF p, b
<1>11. CASE k > 0
  <2>1. p # <<>> /\ p[Len(p)].flag = flag
    <3>1. Len(p) > 0 /\ Len(p) \in Len(p) - k + 1 .. Len(p)
      BY <1>2, <1>5, <1>11
    <3> QED
      BY <1>2, <3>1 DEF OwnRun
  <2>2. Keeps(file, p, Append(left, a))
    BY <1>2, <1>8, <1>11
  <2>3. Keeps(h, Append(p, e), Longer(Append(left, a), s))
    BY ONLY Restrained, <1>1, <1>2, <1>3, <1>4, <1>6, <2>1, <2>2, KeepsMore,
            h = Pager!Written(file, page * PageSize, s)
  <2>4. Longer(Append(left, a), s) = Append(left, b)
    <3>1. Longer(Append(left, a), s) = Append(left, a \o s)
      <4> DEFINE c == a \o s
                 S == Seq(Cell)
      <4>1. left \in Seq(S) /\ a \in S /\ c \in S
        BY ONLY <1>1, <1>2 DEF Words
      <4>2. Longer(Append(left, a), s)
              = [Append(left, a) EXCEPT ![Len(Append(left, a))]
                                          = Append(left, a)[Len(Append(left, a))] \o s]
        BY ONLY DEF Longer
      <4>3. Append(left, a)[Len(Append(left, a))] \o s = c
        <5>1. Append(left, a)[Len(Append(left, a))] = a
          BY ONLY <4>1
        <5> QED
          BY ONLY <5>1
      <4> HIDE DEF c, S
      <4>4. [Append(left, a) EXCEPT ![Len(Append(left, a))] = c] = Append(left, c)
        <5> DEFINE u == Append(left, a)
                   v == [u EXCEPT ![Len(u)] = c]
                   w == Append(left, c)
                   l == Len(left)
        <5>1. /\ l \in Nat /\ u \in [1 .. l + 1 -> S] /\ Len(u) = l + 1
              /\ \A i \in 1 .. l : u[i] = left[i]
          <6>1. l \in Nat /\ u \in Seq(S) /\ Len(u) = l + 1
            BY ONLY <4>1
          <6>2. \A i \in 1 .. l : u[i] = left[i]
            BY ONLY <4>1
          <6> HIDE DEF u, l
          <6>3. u \in [1 .. Len(u) -> S]
            BY ONLY <6>1
          <6> QED
            BY ONLY <6>1, <6>2, <6>3
        <5>2. /\ w \in [1 .. l + 1 -> S] /\ w[l + 1] = c
              /\ \A i \in 1 .. l : w[i] = left[i]
          <6>1. l \in Nat /\ w \in Seq(S) /\ Len(w) = l + 1
            BY ONLY <4>1
          <6>2. w[l + 1] = c /\ \A i \in 1 .. l : w[i] = left[i]
            BY ONLY <4>1
          <6> HIDE DEF w, l
          <6>3. w \in [1 .. Len(w) -> S]
            BY ONLY <6>1
          <6> QED
            BY ONLY <6>1, <6>2, <6>3
        <5> HIDE DEF u, w, l
        <5>3. v = [u EXCEPT ![l + 1] = c]
          BY ONLY <5>1
        <5>4. [u EXCEPT ![l + 1] = c] = w
          <6>1. ASSUME NEW i \in 1 .. l + 1 PROVE [u EXCEPT ![l + 1] = c][i] = w[i]
            <7>1. CASE i = l + 1
              BY ONLY <4>1, <5>1, <5>2, <6>1, <7>1
            <7>2. CASE i # l + 1
              <8>1. i \in 1 .. l
                BY ONLY <5>1, <6>1, <7>2
              <8> QED
                BY ONLY <4>1, <5>1, <5>2, <6>1, <7>2, <8>1
            <7> QED
              BY <7>1, <7>2
          <6> QED
            BY ONLY <4>1, <5>1, <5>2, <6>1
        <5> QED
          BY ONLY <5>3, <5>4 DEF u, w
      <4>5. Longer(Append(left, a), s) = Append(left, c)
        BY ONLY <4>2, <4>3, <4>4
      <4> QED
        BY ONLY <4>5 DEF c
    <3> QED
      BY <1>1, <3>1
  <2> QED
    BY <1>7, <2>3, <2>4 DEF p, b
<1> QED
  BY <1>10, <1>11

(* One more page in the list. *)
LEMMA PagesAppend ==
    ASSUME NEW p \in Pages, NEW e \in Pager!Page, NEW u, u = Append(p, e)
    PROVE  /\ u \in Pages /\ Len(u) = Len(p) + 1 /\ Len(p) \in Nat
           /\ u[Len(p) + 1] = e /\ \A i \in 1 .. Len(p) : u[i] = p[i]
           /\ Pager!Indexes(u) = Pager!Indexes(p) \cup {e.index}
<1>1. Pager!Indexes(u) = Pager!Indexes(p) \cup {e.index}
  BY IndexesAre
<1>2. /\ u \in Pages /\ Len(u) = Len(p) + 1 /\ Len(p) \in Nat
      /\ u[Len(p) + 1] = e /\ \A i \in 1 .. Len(p) : u[i] = p[i]
  BY DEF Pages
<1> QED
  BY <1>1, <1>2

LEMMA OwnRunNext ==
    ASSUME NEW p \in Pages, NEW e \in Pager!Page, NEW u, u = Append(p, e), e.flag = flag,
           NEW k \in 0 .. Len(p), OwnRun(p, k)
    PROVE  k + 1 \in 0 .. Len(u) /\ OwnRun(u, k + 1)
<1> DEFINE n == Len(p)
<1>1. /\ n \in Nat /\ Len(u) = n + 1 /\ u[n + 1] = e /\ \A i \in 1 .. n : u[i] = p[i]
  BY PagesAppend
<1>2. /\ \A i \in n - k + 1 .. n : p[i].flag = flag
      /\ k < n => p[n - k].flag # flag
  BY DEF OwnRun
<1>3. k \in 0 .. n
  OBVIOUS
<1> HIDE DEF n
<1>4. ASSUME NEW i \in n + 1 - (k + 1) + 1 .. n + 1 PROVE u[i].flag = flag
  <2>1. CASE i = n + 1
    BY <1>1, <2>1
  <2>2. CASE i # n + 1
    <3>1. i \in n - k + 1 .. n /\ i \in 1 .. n
      BY ONLY <1>1, <1>3, <1>4, <2>2
    <3> QED
      BY ONLY <1>1, <1>2, <3>1
  <2> QED
    BY <2>1, <2>2
<1>5. ASSUME k + 1 < n + 1 PROVE u[n + 1 - (k + 1)].flag # flag
  <2>1. n + 1 - (k + 1) = n - k /\ n - k \in 1 .. n /\ k < n
    BY ONLY <1>1, <1>3, <1>5
  <2> QED
    BY ONLY <1>1, <1>2, <2>1
<1>6. k + 1 \in 0 .. Len(u)
  BY ONLY <1>1, <1>3
<1> QED
  BY ONLY <1>1, <1>4, <1>5, <1>6 DEF OwnRun

LEMMA IndexAppend ==
    ASSUME NEW y, NEW h \in Heads, NEW p \in Pages, IndexOK(y, h, p), NEW e \in Pager!Page
    PROVE  IndexOK(y, h, Append(p, e))
<1> DEFINE u == Append(p, e)
           z == h.size
<1>1. /\ Len(u) = Len(p) + 1 /\ Len(p) \in Nat /\ \A i \in 1 .. Len(p) : u[i] = p[i]
  BY PagesAppend
<1>2. z \in Nat
  BY DEF Heads
<1>3. /\ y \in IndexFile /\ y.head.size = z /\ z <= Len(y.pcb) /\ z <= Len(p)
      /\ \A i \in 1 .. z : y.pcb[i] = p[i]
  BY DEF IndexOK
<1> HIDE DEF u, z
<1>4. \A i \in 1 .. z : y.pcb[i] = u[i]
  BY ONLY <1>1, <1>2, <1>3
<1>5. z <= Len(u)
  BY ONLY <1>1, <1>2, <1>3
<1> QED
  BY <1>3, <1>4, <1>5 DEF IndexOK, u, z

(* Another page of the block. *)
LEMMA PushPageInv ==
    ASSUME Restrained, PagerInv, Pager!PushPage
    PROVE  PagerInv'
<1>1. /\ doing = "push" /\ todo = <<>>
      /\ UNCHANGED <<cap, uflen, block, flag, file, index, blocks, missing, failures>>
  BY DEF Pager!PushPage
<1>2. PICK page \in 0 .. Pager!Max(Pager!Capacities) - 1,
           m \in {Pager!Memory, Pager!Popped(Pager!Memory)}, x \in {0, 1} :
        LET n == Pager!Min({PageSize, Len(block) - placed})
            write == Pager!WritePage(page * PageSize, SubSeq(block, placed + 1, placed + n))
            evict == IF x = 1 THEN Pager!WritePCB(m.head, m.pcb) ELSE <<>>
            left == SubSeq(want, x + 1, Len(want))
        IN  /\ Pager!GetFreePage(page, m, x)
            /\ pcb' = Append(m.pcb, [index |-> page, offset |-> n - 1, flag |-> flag])
            /\ used' = m.used \cup {page}
            /\ placed' = placed + n
            /\ gone' = gone + x
            /\ \/ /\ placed' < Len(block)
                  /\ head' = m.head
                  /\ torn' = IF x = 1 THEN 0 ELSE torn
                  /\ todo' = Append(evict, write)
                  /\ want' = left
                  /\ UNCHANGED doing
               \/ /\ placed' = Len(block)
                  /\ head' = Pager!Counted(m.head, pcb')
                  /\ \E late \in IF n < PageSize THEN BOOLEAN ELSE {FALSE} :
                        todo' = evict \o Pager!PageThenIndex(write, late, head', pcb')
                  /\ want' = Append(left, block)
                  /\ torn' = 0
                  /\ doing' = "idle"
  BY Zenon DEF Pager!PushPage
<1> DEFINE n == Pager!Min({PageSize, Len(block) - placed})
           s == SubSeq(block, placed + 1, placed + n)
           write == Pager!WritePage(page * PageSize, s)
           evict == IF x = 1 THEN Pager!WritePCB(m.head, m.pcb) ELSE <<>>
           left == SubSeq(want, x + 1, Len(want))
           e == [index |-> page, offset |-> n - 1, flag |-> flag]
           h == Pager!Written(file, page * PageSize, s)
           p == m.pcb
           u == Append(p, e)
           part == SubSeq(block, 1, placed + n)
<1>3. /\ Pager!GetFreePage(page, m, x)
      /\ pcb' = u /\ used' = m.used \cup {page} /\ placed' = placed + n
  BY <1>2
<1>4. \/ /\ placed' < Len(block) /\ head' = m.head
         /\ torn' = IF x = 1 THEN 0 ELSE torn
         /\ todo' = Append(evict, write) /\ want' = left /\ doing' = doing
      \/ /\ placed' = Len(block)
         /\ head' = Pager!Counted(m.head, u)
         /\ \E late \in BOOLEAN :
               todo' = evict \o Pager!PageThenIndex(write, late, head', u)
         /\ want' = Append(left, block) /\ torn' = 0 /\ doing' = "idle"
  <2> DEFINE lates == IF n < PageSize THEN BOOLEAN ELSE {FALSE}
  <2>1. lates \subseteq BOOLEAN
    OBVIOUS
  <2>2. \/ /\ placed' < Len(block) /\ head' = m.head
           /\ torn' = IF x = 1 THEN 0 ELSE torn
           /\ todo' = Append(evict, write) /\ want' = left /\ UNCHANGED doing
        \/ /\ placed' = Len(block)
           /\ head' = Pager!Counted(m.head, pcb')
           /\ \E late \in lates :
                 todo' = evict \o Pager!PageThenIndex(write, late, head', pcb')
           /\ want' = Append(left, block) /\ torn' = 0 /\ doing' = "idle"
    BY ONLY <1>2
  <2>3. pcb' = u
    BY <1>3
  <2> HIDE DEF lates, evict, write, left, u
  <2> QED
    BY ONLY <2>1, <2>2, <2>3, Zenon
<1>5. PICK k \in 0 .. Len(pcb) : placed = k * PageSize /\ OwnRun(pcb, k)
  BY <1>1, PushSays
<1>6. FreePageOK(page, m, left, evict, k)
  BY <1>1, <1>3, <1>5, GetFreePageOK
<1>7. k \in Nat /\ PageSize \in Nat \ {0} /\ InitCap \in Nat
  BY Sizes
<1>8. /\ n \in 1 .. PageSize /\ placed + n <= Len(block) /\ placed + n \in Nat
      /\ s \in Seq(Cell)
      /\ placed + n < Len(block) => n = PageSize
      /\ part \in Seq(Cell)
  BY <1>1, <1>5, <1>7, PieceIs
<1>9. Keeps(h, u, Append(left, part)) /\ e \in Pager!Page
  BY <1>1, <1>5, <1>6, <1>7, PlacedKeeps
<1>10. /\ page \in 0 .. InitCap - 1 /\ page < uflen /\ page \notin m.used
       /\ p \in Pages /\ m.used = Pager!Indexes(p) /\ \A i \in m.used : i < uflen
       /\ m.head \in Heads /\ m.head.size <= Len(p)
       /\ left \in Words /\ Counts(m.head.cnt, missing, Len(left))
       /\ k \in 0 .. Len(p) /\ OwnRun(p, k)
       /\ evict \in Seq(Op)
       /\ \E y : Leads(evict, file, index, file, y) /\ IndexOK(y, m.head, p)
  BY <1>6, Zenon DEF FreePageOK
<1>11. /\ block \in Seq(Cell) /\ Len(block) \in Nat \ {0} /\ placed \in Nat
       /\ placed < Len(block) /\ flag \in {0, 1} /\ cap <= uflen /\ Len(block) \in Lengths
  BY <1>1, PushSays
<1>12. /\ cap \in Pager!Capacities /\ uflen \in Nat /\ blocks \in Nat /\ missing \in Int
       /\ torn \in Nat /\ failures \in Nat /\ (failures = 0 => torn = 0)
  BY DEF PagerInv, MemoryInv, TornInv, CountInv
<1>13. page \in Nat /\ page * PageSize \in Nat
  <2>1. page \in Nat
    BY <1>7, <1>10
  <2> QED
    BY <1>7, <2>1, ProductIn
<1>14. e.index = page /\ e.flag = flag
  OBVIOUS
<1> HIDE DEF n, s, write, evict, left, e, h, p, part
<1>15. /\ u \in Pages /\ Len(u) = Len(p) + 1 /\ Len(p) \in Nat
       /\ Pager!Indexes(u) = m.used \cup {page}
  <2>1. p \in Pages /\ e \in Pager!Page /\ m.used = Pager!Indexes(p)
    BY <1>9, <1>10
  <2>2. /\ u \in Pages /\ Len(u) = Len(p) + 1 /\ Len(p) \in Nat
        /\ Pager!Indexes(u) = Pager!Indexes(p) \cup {e.index}
    <3>1. u \in Pages /\ Len(u) = Len(p) + 1 /\ Len(p) \in Nat
      BY ONLY <2>1, PagesAppend
    <3>2. Pager!Indexes(u) = Pager!Indexes(p) \cup {e.index}
      BY ONLY <2>1, IndexesAre
    <3> QED
      BY ONLY <3>1, <3>2
  <2> QED
    BY ONLY <1>14, <2>1, <2>2
<1>16. used' = Pager!Indexes(u) /\ \A i \in 1 .. Len(u) : u[i].index < uflen
  <2>1. used' = Pager!Indexes(u)
    BY <1>3, <1>15
  <2>2. Pager!Indexes(u) = {u[i].index : i \in 1 .. Len(u)}
    BY <1>15, IndexesAre
  <2> QED
    BY <1>10, <1>15, <2>1, <2>2
<1>17. write = Pager!WritePage(page * PageSize, s) /\ h = Pager!Written(file, page * PageSize, s)
  BY DEF write, h
<1>18. PICK y : Leads(evict, file, index, file, y) /\ IndexOK(y, m.head, p)
  BY <1>10
<1>19. k + 1 \in 0 .. Len(u) /\ OwnRun(u, k + 1)
  BY <1>9, <1>10, <1>14, OwnRunNext
<1> DEFINE z == placed + n
<1>20. z \in Nat /\ z > 0 /\ placed' = z /\ part = SubSeq(block, 1, z)
  <2>1. z > 0
    BY <1>7, <1>8, <1>11
  <2> QED
    BY <1>3, <1>8, <2>1 DEF part
<1> HIDE DEF u, z
<1>21. CASE /\ placed' < Len(block) /\ head' = m.head
            /\ torn' = IF x = 1 THEN 0 ELSE torn
            /\ todo' = Append(evict, write) /\ want' = left /\ doing' = doing
  <2>1. << write >> \in Seq(Op) /\ Leads(<< write >>, file, y, h, y)
    BY <1>8, <1>13, <1>17, WritePageLeads
  <2>2. todo' = evict \o << write >> /\ evict \o << write >> \in Seq(Op)
    <3>1. write \in Op
      BY <2>1
    <3>2. Append(evict, write) = evict \o << write >>
      BY ONLY <1>10, <3>1
    <3>3. Append(evict, write) \in Seq(Op)
      BY ONLY <1>10, <3>1
    <3> QED
      BY <1>21, <3>2, <3>3
  <2>3. Leads(evict \o << write >>, file, index, h, y)
    BY ONLY <1>10, <1>18, <2>1, LeadsThen
  <2>4. IndexOK(y, m.head, u)
    BY <1>9, <1>10, <1>18, IndexAppend DEF u
  <2>5. Files(todo', file', index', pcb', Append(left, part), head')
    <3>1. Files(evict \o << write >>, file, index, u, Append(left, part), m.head)
      BY <1>9, <2>3, <2>4, Zenon DEF Files
    <3> QED
      BY <1>1, <1>3, <1>21, <2>2, <3>1
  <2>6. Runs' = Append(left, part)
    BY <1>1, <1>20, <1>21 DEF Runs
  <2>7. FilesInv'
    <3>1. doing' = "push"
      BY <1>1, <1>21
    <3> QED
      BY <2>5, <2>6, <3>1, Zenon DEF FilesInv
  <2>8. MemoryInv'
    <3>1. /\ cap' = cap /\ uflen' = uflen /\ blocks' = blocks /\ doing' = "push" /\ pcb' = u
          /\ head' = m.head /\ todo' \in Seq(Op)
      BY <1>1, <1>3, <1>21, <2>2
    <3> QED
      BY ONLY <1>10, <1>12, <1>16, <3>1 DEF MemoryInv
  <2>9. TornInv'
    <3>1. doing' = "push" /\ failures' = failures /\ torn' \in {0, torn}
      BY <1>1, <1>21
    <3> QED
      BY ONLY <1>12, <3>1 DEF TornInv
  <2>10. CountInv'
    <3>1. doing' = "push" /\ missing' = missing /\ want' = left /\ head' = m.head
      BY <1>1, <1>21
    <3> QED
      BY ONLY <1>10, <1>12, <3>1 DEF CountInv
  <2>11. PushInv'
    <3>1. z = (k + 1) * PageSize
      <4>1. n = PageSize
        BY <1>8, <1>20, <1>21 DEF z
      <4>2. z = k * PageSize + PageSize
        BY <1>5, <4>1 DEF z
      <4> QED
        BY ONLY <1>7, <4>2
    <3>2. OwnRun(pcb, k + 1)'
      <4>1. flag' = flag /\ pcb' = u
        BY <1>1, <1>3
      <4> QED
        BY ONLY <1>19, <4>1 DEF OwnRun
    <3>3. /\ block' = block /\ placed' = z /\ z < Len(block) /\ cap' = cap /\ uflen' = uflen
          /\ flag' = flag /\ pcb' = u
      BY <1>1, <1>3, <1>20, <1>21
    <3>4. \E i \in 0 .. Len(pcb') : placed' = i * PageSize /\ OwnRun(pcb, i)'
      BY <1>19, <3>1, <3>2, <3>3
    <3> QED
      BY ONLY <1>11, <1>20, <3>3, <3>4 DEF PushInv
  <2> QED
    BY <2>7, <2>8, <2>9, <2>10, <2>11 DEF PagerInv
<1>22. CASE /\ placed' = Len(block)
            /\ head' = Pager!Counted(m.head, u)
            /\ \E late \in BOOLEAN :
                  todo' = evict \o Pager!PageThenIndex(write, late, head', u)
            /\ want' = Append(left, block) /\ torn' = 0 /\ doing' = "idle"
  <2>1. z = Len(block) /\ part = block
    <3>1. z = Len(block)
      BY <1>20, <1>22
    <3>2. SubSeq(block, 1, Len(block)) = block
      BY ONLY <1>11
    <3> QED
      BY <1>20, <3>1, <3>2
  <2> DEFINE c == (m.head.cnt + 1) % 65536
  <2>2. Counts(c, missing, Len(left) + 1) /\ c \in Nat
    <3> DEFINE a == m.head.cnt
               b == missing
               l == Len(left)
    <3>1. a \in Int /\ b \in Int /\ l \in Int /\ Counts(a, b, l)
      BY <1>10, <1>12 DEF Heads, Words
    <3> HIDE DEF a, b, l
    <3>2. Counts((a + 1) % 65536, b, l + 1) /\ ((a + 1) % 65536) \in Nat
      BY ONLY <3>1, CountsUp
    <3> QED
      BY ONLY <3>2 DEF a, b, l, c
  <2> DEFINE v == Append(left, block)
             g == Pager!Counted(m.head, u)
  <2>3. v \in Words /\ Len(v) = Len(left) + 1
    BY <1>10, <1>11 DEF Words
  <2>4. Len(u) \in Nat
    BY ONLY <1>15
  <2>5. g \in Heads /\ g.size = Len(u) /\ g.cnt = c
    <3>1. g = [size |-> Len(u), cnt |-> c]
      BY DEF Pager!Counted
    <3> HIDE DEF g, c
    <3> QED
      BY ONLY <2>2, <2>4, <3>1 DEF Heads
  <2> DEFINE w == [head |-> g, pcb |-> u]
  <2>6. IndexOK(w, g, u)
    <3>1. g.size <= Len(u)
      BY ONLY <2>4, <2>5
    <3> QED
      BY ONLY <1>15, <2>5, <3>1, IndexNew
  <2>7. PICK late \in BOOLEAN : todo' = evict \o Pager!PageThenIndex(write, late, g, u)
    BY <1>22
  <2> DEFINE ops == Pager!PageThenIndex(write, late, g, u)
  <2>8. ops \in Seq(Op) /\ Leads(ops, file, y, h, w)
    BY <1>8, <1>13, <1>15, <1>17, <2>5, PageThenIndexLeads
  <2> HIDE DEF g, w, ops, v, c
  <2>9. todo' = evict \o ops /\ evict \o ops \in Seq(Op)
    <3>1. evict \o ops \in Seq(Op)
      BY ONLY <1>10, <2>8
    <3> QED
      BY <2>7, <3>1 DEF ops
  <2>10. Leads(evict \o ops, file, index, h, w)
    BY ONLY <1>10, <1>18, <2>8, LeadsThen
  <2>11. Keeps(h, u, v)
    BY <1>9, <2>1 DEF v, u
  <2>12. /\ pcb' = u /\ head' = g /\ want' = v /\ doing' = "idle" /\ torn' = 0
         /\ UNCHANGED <<cap, uflen, file, index, blocks, missing, failures>>
    BY <1>1, <1>3, <1>22 DEF g, v, u
  <2>13. FilesInv'
    <3>1. Files(evict \o ops, file, index, u, v, g)
      BY <2>6, <2>10, <2>11, Zenon DEF Files
    <3>2. Files(todo', file', index', pcb', want', head')
      BY <2>9, <2>12, <3>1
    <3>3. Runs' = want'
      BY <2>12 DEF Runs
    <3> QED
      BY <2>12, <3>2, <3>3, Zenon DEF FilesInv
  <2>14. MemoryInv'
    <3>1. todo' \in Seq(Op)
      BY <2>9
    <3> QED
      BY ONLY <1>12, <1>16, <2>5, <2>12, <3>1 DEF MemoryInv
  <2>15. TornInv' /\ PushInv'
    BY ONLY <1>12, <2>4, <2>5, <2>12 DEF TornInv, PushInv
  <2>16. CountInv'
    BY ONLY <1>12, <2>2, <2>3, <2>5, <2>12 DEF CountInv
  <2> QED
    BY <2>13, <2>14, <2>15, <2>16 DEF PagerInv
<1> QED
  BY <1>4, <1>21, <1>22 DEF u

(* The write of a page fails: what is placed of the block is left behind. *)
LEMMA PushPageFailsInv ==
    ASSUME Restrained, PagerInv, Pager!PushPageFails
    PROVE  PagerInv'
<1>1. /\ doing = "push" /\ todo = <<>> /\ doing' = "idle" /\ failures' = failures + 1
      /\ UNCHANGED <<cap, uflen, block, placed, flag, file, index, blocks>>
  BY DEF Pager!PushPageFails, Pager!Fails
<1>2. PICK page \in 0 .. Pager!Max(Pager!Capacities) - 1,
           m \in {Pager!Memory, Pager!Popped(Pager!Memory)}, x \in {0, 1} :
        LET full == Len(block) - placed >= PageSize
            evict == IF x = 1 THEN Pager!WritePCB(m.head, m.pcb) ELSE <<>>
            left == SubSeq(want, x + 1, Len(want))
            part == IF placed > 0 THEN << SubSeq(block, 1, placed) >> ELSE <<>>
        IN  /\ Pager!GetFreePage(page, m, x)
            /\ pcb' = m.pcb /\ used' = m.used
            /\ gone' = gone + x
            /\ want' = left \o part
            /\ \/ /\ full
                  /\ head' = m.head /\ todo' = evict
                  /\ torn' = Len(m.pcb) - m.head.size
                  /\ missing' = missing + Len(part)
               \/ /\ ~full
                  /\ head' = Pager!Counted(m.head, m.pcb)
                  /\ todo' = evict \o Pager!WritePCB(head', pcb')
                  /\ torn' = 0
                  /\ missing' = missing + Len(part) - 1
  BY Zenon DEF Pager!PushPageFails
<1> DEFINE evict == IF x = 1 THEN Pager!WritePCB(m.head, m.pcb) ELSE <<>>
           left == SubSeq(want, x + 1, Len(want))
           part == IF placed > 0 THEN << SubSeq(block, 1, placed) >> ELSE <<>>
           p == m.pcb
<1>3. /\ Pager!GetFreePage(page, m, x)
      /\ pcb' = p /\ used' = m.used /\ want' = left \o part
      /\ \/ /\ head' = m.head /\ todo' = evict
            /\ torn' = Len(p) - m.head.size
            /\ missing' = missing + Len(part)
         \/ /\ head' = Pager!Counted(m.head, p)
            /\ todo' = evict \o Pager!WritePCB(head', p)
            /\ torn' = 0
            /\ missing' = missing + Len(part) - 1
  BY ONLY <1>2
<1>4. PICK k \in 0 .. Len(pcb) : placed = k * PageSize /\ OwnRun(pcb, k)
  BY <1>1, PushSays
<1>5. FreePageOK(page, m, left, evict, k)
  BY <1>1, <1>3, <1>4, GetFreePageOK
<1>6. /\ p \in Pages /\ m.used = Pager!Indexes(p) /\ \A i \in m.used : i < uflen
      /\ m.head \in Heads /\ m.head.size <= Len(p)
      /\ left \in Words /\ Counts(m.head.cnt, missing, Len(left))
      /\ Keeps(file, p, Placing(left, k))
      /\ evict \in Seq(Op)
      /\ \E y : Leads(evict, file, index, file, y) /\ IndexOK(y, m.head, p)
  BY <1>5, Zenon DEF FreePageOK
<1>7. Placing(left, k) = left \o part
  <2>1. k \in Nat
    BY Sizes
  <2>2. Placing(left, k) = IF placed > 0 THEN Append(left, SubSeq(block, 1, placed)) ELSE left
    BY <1>1, <1>4, <2>1, PlacingIs
  <2>3. SubSeq(block, 1, placed) \in Seq(Cell)
    BY <1>1, <1>4, <2>1, PieceIs
  <2> DEFINE w == left
             a == SubSeq(block, 1, placed)
  <2>4. w \in Seq(Seq(Cell)) /\ a \in Seq(Cell)
    BY <1>6, <2>3 DEF Words
  <2> HIDE DEF w, a
  <2>5. w \o << a >> = Append(w, a) /\ w \o <<>> = w
    BY ONLY <2>4
  <2>6. Placing(left, k) = IF placed > 0 THEN Append(w, a) ELSE w
    BY ONLY <2>2 DEF w, a
  <2>7. part = IF placed > 0 THEN << a >> ELSE <<>>
    BY ONLY DEF a
  <2>8. CASE placed > 0
    BY ONLY <2>5, <2>6, <2>7, <2>8 DEF w
  <2>9. CASE ~(placed > 0)
    BY ONLY <2>5, <2>6, <2>7, <2>9 DEF w
  <2> QED
    BY ONLY <2>8, <2>9
<1>8. /\ cap \in Pager!Capacities /\ uflen \in Nat /\ blocks \in Nat /\ missing \in Int
      /\ torn \in Nat /\ failures \in Nat
  BY DEF PagerInv, MemoryInv, TornInv, CountInv
<1>9. Len(part) \in {0, 1}
  OBVIOUS
<1> HIDE DEF evict, left, part, p
<1>10. \A i \in 1 .. Len(p) : p[i].index < uflen
  BY <1>6, IndexesAre
<1> DEFINE v == left \o part
<1>11. v \in Words /\ Len(p) \in Nat /\ Len(left) \in Nat
  <2>1. Placing(left, k) \in Words /\ Len(p) \in Nat
    BY ONLY <1>6, KeepsSay
  <2>2. Len(left) \in Nat
    BY ONLY <1>6 DEF Words
  <2> QED
    BY ONLY <1>7, <2>1, <2>2
<1>12. Len(v) = Len(left) + Len(part)
  <2>1. part \in Words
    <3>1. k \in Nat
      BY Sizes
    <3>2. SubSeq(block, 1, placed) \in Seq(Cell)
      BY <1>1, <1>4, <3>1, PieceIs
    <3> QED
      BY <3>2 DEF part, Words
  <2> QED
    BY <1>6, <2>1 DEF Words
<1> HIDE DEF v
<1> DEFINE a == m.head.cnt
           b == missing
           l == Len(left)
           j == Len(part)
<1>13. a \in Int /\ b \in Int /\ l \in Int /\ j \in Int /\ j \in {0, 1} /\ Counts(a, b, l)
       /\ Len(v) = l + j
  BY <1>6, <1>8, <1>9, <1>11, <1>12 DEF Heads
<1>14. PICK y : Leads(evict, file, index, file, y) /\ IndexOK(y, m.head, p)
  BY <1>6
<1>15. Keeps(file, p, v)
  BY <1>6, <1>7 DEF v
<1>16. pcb' = p /\ used' = m.used /\ want' = v
  BY <1>3 DEF v
<1>17. failures' \in Nat /\ failures' # 0
  BY <1>1, <1>8
<1>18. CASE /\ head' = m.head /\ todo' = evict
            /\ torn' = Len(p) - m.head.size
            /\ missing' = missing + Len(part)
  <2>1. FilesInv'
    <3>1. Files(evict, file, index, p, v, m.head)
      BY <1>14, <1>15, Zenon DEF Files
    <3>2. Files(todo', file', index', pcb', want', head')
      BY <1>1, <1>16, <1>18, <3>1
    <3>3. Runs' = want'
      BY <1>1 DEF Runs
    <3> QED
      BY <1>1, <3>2, <3>3, Zenon DEF FilesInv
  <2>2. MemoryInv'
    BY ONLY <1>1, <1>6, <1>8, <1>10, <1>16, <1>18 DEF MemoryInv
  <2>3. TornInv' /\ PushInv'
    <3> DEFINE i == m.head.size
               f == Len(p)
    <3>1. i \in Nat /\ f \in Nat /\ i <= f
      BY <1>6, <1>11 DEF Heads
    <3>2. head'.size = i /\ torn' = f - i /\ Len(pcb') = f
      BY <1>16, <1>18
    <3> HIDE DEF i, f
    <3>3. torn' \in Nat /\ head'.size + torn' = Len(pcb')
      BY ONLY <3>1, <3>2
    <3> QED
      BY ONLY <1>1, <1>17, <3>3 DEF TornInv, PushInv
  <2>4. CountInv'
    <3> HIDE DEF a, b, l, j
    <3>1. Counts(a, b + j, l + j)
      BY ONLY <1>13, CountsLeft
    <3>2. Counts(a, missing', Len(v)) /\ missing' \in Int
      <4>1. missing' = b + j
        BY <1>18 DEF b, j
      <4> QED
        BY ONLY <1>13, <3>1, <4>1
    <3>3. head'.cnt = a
      BY <1>18 DEF a
    <3> QED
      BY ONLY <1>1, <1>11, <1>16, <3>2, <3>3 DEF CountInv
  <2> QED
    BY <2>1, <2>2, <2>3, <2>4 DEF PagerInv
<1>19. CASE /\ head' = Pager!Counted(m.head, p)
            /\ todo' = evict \o Pager!WritePCB(head', p)
            /\ torn' = 0
            /\ missing' = missing + Len(part) - 1
  <2> DEFINE c == (a + 1) % 65536
             g == Pager!Counted(m.head, p)
  <2>1. g = [size |-> Len(p), cnt |-> c]
    BY DEF Pager!Counted
  <2> HIDE DEF a, b, l, j
  <2>2. Counts(c, b, l + 1) /\ c \in Nat
    BY ONLY <1>13, CountsUp
  <2> HIDE DEF c, g
  <2>3. g \in Heads /\ g.size = Len(p) /\ g.cnt = c
    BY ONLY <1>11, <2>1, <2>2 DEF Heads
  <2>4. Counts(c, missing', Len(v)) /\ missing' \in Int
    <3> DEFINE i == j - 1
               f == l + 1
    <3>1. c \in Int /\ b \in Int /\ f \in Int /\ i \in Int /\ Counts(c, b, f)
      BY ONLY <1>13, <2>2
    <3>2. b + i = b + j - 1 /\ f + i = l + j /\ b + i \in Int
      BY ONLY <1>13
    <3> HIDE DEF i, f
    <3>3. Counts(c, b + i, f + i)
      BY ONLY <3>1, CountsLeft
    <3>4. missing' = b + i /\ Len(v) = f + i
      <4>1. missing' = b + j - 1
        BY <1>19 DEF b, j
      <4> QED
        BY ONLY <1>13, <3>2, <4>1
    <3> QED
      BY ONLY <3>2, <3>3, <3>4
  <2> DEFINE w == [head |-> g, pcb |-> p]
             ops == Pager!WritePCB(g, p)
  <2>5. IndexOK(w, g, p)
    <3>1. g.size <= Len(p)
      BY ONLY <1>11, <2>3
    <3> QED
      BY ONLY <1>6, <2>3, <3>1, IndexNew
  <2>6. ops \in Seq(Op) /\ Leads(ops, file, y, file, w)
    BY ONLY <1>6, <2>3, WritePCBLeads
  <2> HIDE DEF w, ops
  <2>7. todo' = evict \o ops /\ evict \o ops \in Seq(Op)
    <3>1. evict \o ops \in Seq(Op)
      BY ONLY <1>6, <2>6
    <3> QED
      BY <1>19, <3>1 DEF ops, g
  <2>8. Leads(evict \o ops, file, index, file, w)
    BY ONLY <1>6, <1>14, <2>6, LeadsThen
  <2>9. head' = g /\ torn' = 0
    BY <1>19 DEF g
  <2>10. FilesInv'
    <3>1. Files(evict \o ops, file, index, p, v, g)
      BY <1>15, <2>5, <2>8, Zenon DEF Files
    <3>2. Files(todo', file', index', pcb', want', head')
      BY <1>1, <1>16, <2>7, <2>9, <3>1
    <3>3. Runs' = want'
      BY <1>1 DEF Runs
    <3> QED
      BY <1>1, <3>2, <3>3, Zenon DEF FilesInv
  <2>11. MemoryInv'
    <3>1. todo' \in Seq(Op)
      BY <2>7
    <3> QED
      BY ONLY <1>1, <1>6, <1>8, <1>10, <1>16, <2>3, <2>9, <3>1 DEF MemoryInv
  <2>12. TornInv' /\ PushInv'
    BY ONLY <1>1, <1>11, <1>16, <1>17, <2>3, <2>9 DEF TornInv, PushInv
  <2>13. CountInv'
    BY ONLY <1>1, <1>11, <1>16, <2>3, <2>4, <2>9 DEF CountInv
  <2> QED
    BY <2>10, <2>11, <2>12, <2>13 DEF PagerInv
<1> QED
  BY <1>3, <1>18, <1>19

-----------------------------------------------------------------------------
(* The steps of the file backed buffer keep the invariant. *)
LEMMA PagerStepInv ==
    ASSUME Restrained, PagerInv, Pager!Next
    PROVE  PagerInv'
<1>1. \/ \E m \in Lengths : Pager!Extend(m) \/ Pager!ExtendFails(m) \/ Pager!PushBack(m)
      \/ Pager!PushPage \/ Pager!PushPageFails \/ Pager!PopFront \/ Pager!Clear
      \/ Pager!SetCapacity \/ Pager!FileStep \/ Pager!Restart \/ Pager!Open
  BY Zenon DEF Pager!Next
<1>2. CASE \E m \in Lengths : Pager!Extend(m) \/ Pager!ExtendFails(m) \/ Pager!PushBack(m)
  BY <1>2, ExtendInv, ExtendFailsInv, PushBackInv
<1> QED
  BY <1>1, <1>2, PushPageInv, PushPageFailsInv, PopFrontInv, ClearInv, SetCapacityInv,
     FileStepInv, RestartInv, OpenInv

LEMMA PagerNextInv ==
    ASSUME Restrained, PagerInv, [AllNext]_allVars
    PROVE  PagerInv'
<1>1. PagerInv' \/ UNCHANGED pagerVars
  BY PagerStepInv DEF AllNext, GetStep, PollStep, PageStep, allVars
<1>2. CASE UNCHANGED pagerVars
  <2>1. /\ UNCHANGED <<cap, pcb, used, uflen, head, file, index, todo, doing, block, placed,
                       flag, want, torn, missing>>
        /\ blocks' = blocks /\ failures' = failures
    BY <1>2 DEF pagerVars
  <2>2. blocks \in Nat /\ failures \in Nat
    BY DEF PagerInv, MemoryInv, TornInv
  <2> QED
    BY <2>1, <2>2, KeptInv
<1> QED
  BY <1>1, <1>2

(* srreporter.cc: for capacities that are not raised above the first, and  *)
(* lengths that share a divisor greater than one with the pages, the pages *)
(* hold between two calls the runs that were put in them, whatever was     *)
(* removed, evicted, failed or reread; the 16 bit counts of runs and pages *)
(* are wrong by exactly what failed writes left behind; no page is given   *)
(* out twice and none leaks.  Raised capacities and blocks one byte longer *)
(* than what is left of a page break this in the code (lines 105 and 254). *)
THEOREM FileRunsAreWhole == Restrained => (AllSpec => []RunsAreWhole)
<1> SUFFICES ASSUME Restrained PROVE AllSpec => []RunsAreWhole
  OBVIOUS
<1>1. AllInit => PagerInv
  BY PagerInitInv DEF AllInit
<1>2. PagerInv /\ [AllNext]_allVars => PagerInv'
  BY PagerNextInv
<1>3. PagerInv => RunsAreWhole
  BY PagerHolds
<1> QED
  BY <1>1, <1>2, <1>3, PTL DEF AllSpec, AllNext

(* srreporter.cc: on the same conditions a process that is killed between  *)
(* two calls finds all that was buffered, or, if writes failed before, all *)
(* but for the pages of the calls that failed (lines 78-130, 182-188).     *)
THEOREM FileRestartsWhereItStopped == Restrained => (AllSpec => []RestartsWhereItStopped)
<1> SUFFICES ASSUME Restrained PROVE AllSpec => []RestartsWhereItStopped
  OBVIOUS
<1>1. AllInit => PagerInv
  BY PagerInitInv DEF AllInit
<1>2. PagerInv /\ [AllNext]_allVars => PagerInv'
  BY PagerNextInv
<1>3. PagerInv => RestartsWhereItStopped
  BY PagerRestarts
<1> QED
  BY <1>1, <1>2, <1>3, PTL DEF AllSpec, AllNext
=============================================================================
