----------------------------- MODULE MCLuaProof -----------------------------
(***************************************************************************)
(* The proofs about the parts that MCLua puts side by side: the plugin     *)
(* manager, and LuaBridge's counted pointers, references to Lua values,    *)
(* chains of registrations and registered classes.                         *)
(* The invariants of the parts are inductive in their own steps, and the   *)
(* steps of the other parts leave their variables alone.                   *)
(***************************************************************************)
EXTENDS MCLua, SeqInduction, Sequences, FiniteSetTheorems, SequenceTheorems, TLAPS

-----------------------------------------------------------------------------
(* The plugin manager: its inductive invariant. *)

Maps ==
    /\ DOMAIN handlers = Messages /\ DOMAIN wanted = Messages
    /\ agentHandlers \subseteq Messages
    /\ \A m \in Messages : handlers[m] = wanted[m]

(* Code runs in a state that is open, so that what it registers leads to   *)
(* one; nothing is closed or deleted before the manager goes.              *)
Reached ==
    alive =>
        /\ running # NoPlugin => running \in open
        /\ freed = {}
        /\ \A m \in agentHandlers : wanted[m] \in open
        /\ \A t \in agentTimers : timersOf[t] \in open

(* A message or a timer that the agent knows has an entry in its map.      *)
Known == agentTimers \subseteq DOMAIN timersOf

PluginInv == Maps /\ Known /\ Reached

-----------------------------------------------------------------------------
(* The initial states satisfy the invariant. *)
LEMMA InitPlugins == Init => PluginInv
  BY DEF Init, PluginInv, Maps, Known, Reached

(* Every step keeps it. *)
LEMMA StepPlugins == PluginInv /\ [Next]_luaVars => PluginInv'
<1> SUFFICES ASSUME PluginInv, [Next]_luaVars PROVE PluginInv'
  OBVIOUS
<1> USE DEF PluginInv, Maps, Known, Reached
<1>1. CASE \E p \in Plugins : Load(p)
  BY <1>1 DEF Load
<1>2. ASSUME NEW m \in Messages, AddMsgHandler(m) PROVE PluginInv'
  <2> USE <1>2 DEF AddMsgHandler
  <2>1. Maps'
    OBVIOUS
  <2>2. Known'
    OBVIOUS
  <2>3. Reached'
    <3>1. \A n \in agentHandlers' : wanted'[n] = (IF n = m THEN running ELSE wanted[n])
      OBVIOUS
    <3> QED
      BY <3>1
  <2> QED
    BY <2>1, <2>2, <2>3
<1>3. ASSUME NEW m \in Messages, OnMessage(m) PROVE PluginInv'
  BY <1>3 DEF OnMessage, Calls
<1>4. ASSUME NEW t \in 1 .. MaxTimersOf, OnTimer(t) PROVE PluginInv'
  BY <1>4 DEF OnTimer, Calls
<1>5. CASE LoadFails
  BY <1>5 DEF LoadFails
<1>6. CASE Return
  BY <1>6 DEF Return
<1>7. CASE AddTimer
  <2> DEFINE t == Cardinality(DOMAIN timersOf) + 1
  <2>1. /\ running # NoPlugin
        /\ timersOf' = [u \in DOMAIN timersOf \cup {t} |->
                           IF u = t THEN running ELSE timersOf[u]]
        /\ agentTimers' = agentTimers \cup {t}
        /\ UNCHANGED <<open, running, handlers, freed, agentHandlers, alive, wanted>>
    BY <1>7 DEF AddTimer
  <2> HIDE DEF t
  <2>2. \A u \in agentTimers' : timersOf'[u] = (IF u = t THEN running ELSE timersOf[u])
    BY <2>1
  <2> QED
    BY <2>1, <2>2
<1>8. CASE Destroy
  BY <1>8 DEF Destroy
<1>9. CASE UNCHANGED luaVars
  BY <1>9 DEF luaVars
<1> QED
  BY <1>1, <1>2, <1>3, <1>4, <1>5, <1>6, <1>7, <1>8, <1>9 DEF Next

-----------------------------------------------------------------------------
(* The invariant holds in every state. *)
THEOREM Invariance == Spec => []PluginInv
  BY InitPlugins, StepPlugins, PTL DEF Spec

(* A message or a timer that the agent hands the manager leads to the Lua  *)
(* state of the plugin that registered last, which is open, and to a timer *)
(* that exists, plugins whose load failed included                         *)
(* (srluapluginmanager.cc 53-96, 153-220).                                 *)
THEOREM CallbacksReachOpenPlugins == Spec => []CallbacksReachTheirPlugin
<1>1. PluginInv => CallbacksReachTheirPlugin
  BY DEF PluginInv, Maps, Known, Reached, CallbacksReachTheirPlugin
<1> QED
  BY <1>1, Invariance, PTL

(* And whichever part moves.                                               *)
THEOREM PartsReachOpenPlugins == AllSpec => []CallbacksReachTheirPlugin
<1>1. AllInit => PluginInv
  BY InitPlugins DEF AllInit
<1>2. PluginInv /\ [AllNext]_allVars => PluginInv'
  <2>1. PluginStep => Next
    BY DEF PluginStep
  <2>2. ClassStep \/ CountedStep \/ ReferenceStep \/ UNCHANGED allVars => UNCHANGED luaVars
    BY Zenon DEF ClassStep, CountedStep, ReferenceStep, allVars
  <2> QED
    BY ONLY <2>1, <2>2, StepPlugins, Zenon DEF AllNext
<1>3. PluginInv => CallbacksReachTheirPlugin
  BY DEF PluginInv, Maps, Known, Reached, CallbacksReachTheirPlugin
<1> QED
  BY <1>1, <1>2, <1>3, PTL DEF AllSpec

-----------------------------------------------------------------------------
(* The counted pointers: the invariant.                                    *)

(* The pointers with a target in t, and 1 for the same thing. *)
Pointed(t, n) == {p \in Counted!Pointers : t[p] = n}
Same(a, b) == IF a = b THEN 1 ELSE 0

(* The object that is about to lose a pointer. *)
Pending == IF todo = <<>> THEN 0 ELSE todo[1]
Living == (1 .. nodes) \ deleted

Shapes ==
    /\ nodes \in Nat /\ nodes <= MaxNodes /\ deleted \subseteq 1 .. nodes /\ ~twice
    /\ count \in [Counted!Nodes -> Int]
    /\ target \in [Counted!Pointers -> -1 .. nodes]
    /\ todo = <<>> \/ \E n \in Living : todo = <<n>>

(* The count of an object is the number of its pointers, the one included  *)
(* that it is about to lose. *)
Counts ==
    \A n \in Counted!Nodes :
       count[n] = Cardinality(Pointed(target, n)) + Same(Pending, n)

(* It is positive while the object lives; one that does not has no member. *)
Lives ==
    \A n \in Counted!Nodes :
       IF n \in Living THEN count[n] >= 1 ELSE count[n] = 0 /\ target[n] = -1

CountedInv == Shapes /\ Counts /\ Lives

-----------------------------------------------------------------------------
LEMMA SameFinite ==
    \A S : /\ Counted!IsFiniteSet(S) = IsFiniteSet(S)
           /\ Counted!Cardinality(S) = Cardinality(S)
  BY DEF Counted!IsFiniteSet, IsFiniteSet, Counted!Cardinality, Cardinality

LEMMA PointersAre ==
    /\ IsFiniteSet(Counted!Pointers) /\ MaxNodes \in Nat
    /\ Counted!Nodes = 1 .. MaxNodes /\ Counted!Nodes \subseteq Counted!Pointers
    /\ Vars \cup Userdata \subseteq Counted!Pointers
    /\ \A p \in Vars \cup Userdata : p \notin Counted!Nodes
<1>1. /\ MaxNodes \in Nat /\ IsFiniteSet(Vars) /\ IsFiniteSet(Userdata)
      /\ \A p \in Vars \cup Userdata : p \notin 1 .. MaxNodes
  <2>1. Counted!CountedAssumption
    BY BridgeAssumption DEF BridgeAssumption
  <2> QED
    BY <2>1, SameFinite DEF Counted!CountedAssumption
<1>2. IsFiniteSet(1 .. MaxNodes)
  BY <1>1, FS_Interval
<1>3. IsFiniteSet(Vars \cup Userdata)
  BY <1>1, FS_Union
<1>4. IsFiniteSet((Vars \cup Userdata) \cup (1 .. MaxNodes))
  BY <1>2, <1>3, FS_Union
<1> QED
  BY <1>1, <1>4 DEF Counted!Nodes, Counted!Pointers

LEMMA PointedFinite ==
    ASSUME NEW t, NEW n
    PROVE  /\ IsFiniteSet(Pointed(t, n)) /\ Cardinality(Pointed(t, n)) \in Nat
           /\ Cardinality(Pointed(t, n)) = 0 <=> Pointed(t, n) = {}
<1>1. IsFiniteSet(Pointed(t, n))
  BY PointersAre, FS_Subset DEF Pointed
<1> QED
  BY <1>1, FS_CardinalityType, FS_EmptySet

(* A pointer that is set to v. *)
SetTo(u, t, p, v) == \A x \in Counted!Pointers : u[x] = IF x = p THEN v ELSE t[x]

LEMMA OneMoves ==
    ASSUME NEW t, NEW u, NEW p \in Counted!Pointers, NEW v, NEW n, SetTo(u, t, p, v)
    PROVE  Cardinality(Pointed(u, n))
              = Cardinality(Pointed(t, n)) + Same(v, n) - Same(t[p], n)
<1> DEFINE P == Pointed(t, n)
<1> SUFFICES Cardinality(Pointed(u, n)) = Cardinality(P) + Same(v, n) - Same(t[p], n)
  OBVIOUS
<1>1. \A x \in Counted!Pointers : u[x] = IF x = p THEN v ELSE t[x]
  BY DEF SetTo
<1>2. IsFiniteSet(P) /\ Cardinality(P) \in Nat
  BY PointedFinite
<1>3. p \in P <=> t[p] = n
  BY DEF Pointed
<1>4. CASE v = n
  <2>1. Pointed(u, n) = P \cup {p}
    BY <1>1, <1>4 DEF Pointed
  <2>2. Cardinality(P \cup {p}) = IF p \in P THEN Cardinality(P) ELSE Cardinality(P) + 1
    BY <1>2, FS_AddElement
  <2> HIDE DEF P
  <2> QED
    BY ONLY <1>2, <1>3, <1>4, <2>1, <2>2 DEF Same
<1>5. CASE v # n
  <2>1. Pointed(u, n) = P \ {p}
    BY <1>1, <1>5 DEF Pointed
  <2>2. Cardinality(P \ {p}) = IF p \in P THEN Cardinality(P) - 1 ELSE Cardinality(P)
    BY <1>2, FS_RemoveElement
  <2> HIDE DEF P
  <2> QED
    BY ONLY <1>2, <1>3, <1>5, <2>1, <2>2 DEF Same
<1> QED
  BY <1>4, <1>5

LEMMA SameType == \A a, b : Same(a, b) \in {0, 1} /\ (Same(a, b) = 1 <=> a = b)
  BY DEF Same

LEMMA LivingAre ==
    ASSUME CountedInv PROVE Living \subseteq 1 .. nodes /\ Living \subseteq Counted!Nodes
<1>1. nodes \in Nat /\ nodes <= MaxNodes /\ Counted!Nodes = 1 .. MaxNodes /\ MaxNodes \in Nat
  BY PointersAre DEF CountedInv, Shapes
<1>2. 1 .. nodes \subseteq 1 .. MaxNodes
  BY ONLY <1>1
<1> QED
  BY <1>1, <1>2 DEF Living

(* What a pointer points to lives. *)
LEMMA TargetsLive ==
    ASSUME CountedInv, NEW p \in Counted!Pointers, target[p] > 0
    PROVE  target[p] \in Living
<1>1. target[p] \in 1 .. nodes /\ target[p] \in Counted!Nodes
  BY PointersAre DEF CountedInv, Shapes
<1>2. Pointed(target, target[p]) # {}
  BY DEF Pointed
<1>3. Cardinality(Pointed(target, target[p])) >= 1
  BY <1>2, PointedFinite
<1>4. count[target[p]] >= 1
  BY <1>1, <1>3, SameType, PointedFinite DEF CountedInv, Counts
<1>5. count[target[p]] # 0
  BY <1>4
<1> QED
  BY ONLY <1>1, <1>5, CountedInv, Zenon DEF CountedInv, Lives

(* And a member that is a pointer is that of an object that lives. *)
LEMMA MembersLive ==
    ASSUME CountedInv, NEW p \in Counted!Nodes, target[p] # -1
    PROVE  p \in Living
  BY Zenon DEF CountedInv, Lives

LEMMA InitCounted == Counted!Init => CountedInv
<1> SUFFICES ASSUME Counted!Init PROVE CountedInv
  OBVIOUS
<1> USE PointersAre DEF Counted!Init, Counted!Gone
<1>1. Shapes
  BY DEF Shapes, Living
<1>2. Counts
  <2>1. \A n \in Counted!Nodes : Pointed(target, n) = {}
    BY DEF Pointed
  <2>2. \A n \in Counted!Nodes : Same(Pending, n) = 0
    BY DEF Same, Pending
  <2>3. \A n \in Counted!Nodes : count[n] = 0
    OBVIOUS
  <2>4. Cardinality({}) = 0
    BY FS_EmptySet
  <2> QED
    BY ONLY <2>1, <2>2, <2>3, <2>4 DEF Counts
<1>3. Lives
  BY DEF Lives, Living
<1> QED
  BY <1>1, <1>2, <1>3 DEF CountedInv

-----------------------------------------------------------------------------
LEMMA AcquireAdds ==
    ASSUME Shapes, NEW n \in 0 .. nodes', nodes' \in Nat, nodes' <= MaxNodes,
           Counted!Acquire(n)
    PROVE  /\ count' \in [Counted!Nodes -> Int]
           /\ \A m \in Counted!Nodes : count'[m] = count[m] + Same(n, m)
  BY PointersAre DEF Shapes, Same, Counted!Acquire, Counted!Null

LEMMA ReleaseLeaves ==
    ASSUME NEW n \in Int, Counted!Release(n)
    PROVE  /\ Pending' = n
           /\ n = 0 => todo' = <<>>
           /\ n # 0 => todo' = <<n>>
  BY DEF Pending, Counted!Release, Counted!Null

(* One pointer is set to v, an object c is acquired and r is to be         *)
(* released: the counts stay right when these are balanced.                *)
LEMMA OnePointerKeeps ==
    ASSUME CountedInv, todo = <<>>, UNCHANGED <<nodes, deleted, twice>>,
           NEW p \in Counted!Pointers, p \in Counted!Nodes => p \in Living,
           NEW v \in Living \cup {0, -1}, target' = [target EXCEPT ![p] = v],
           NEW b \in Living \cup {0},
           count' \in [Counted!Nodes -> Int],
           \A n \in Counted!Nodes : count'[n] = count[n] + Same(b, n),
           NEW r \in Living \cup {0}, Pending' = r,
           r = 0 => todo' = <<>>, r # 0 => todo' = <<r>>,
           \A n \in Counted!Nodes : Same(v, n) - Same(target[p], n) + Same(r, n) = Same(b, n)
    PROVE  CountedInv'
<1>1. Living' = Living /\ Living \subseteq 1 .. nodes /\ Living \subseteq Counted!Nodes
  BY LivingAre DEF Living
<1>0. target \in [Counted!Pointers -> -1 .. nodes]
  BY DEF CountedInv, Shapes
<1>2. Shapes'
  BY <1>1 DEF CountedInv, Shapes
<1>3. Counts'
  <2> SUFFICES ASSUME NEW n \in Counted!Nodes
               PROVE  count'[n] = Cardinality(Pointed(target', n)) + Same(Pending', n)
    BY DEF Counts, Pointed, Same, Pending
  <2>1. Cardinality(Pointed(target', n))
           = Cardinality(Pointed(target, n)) + Same(v, n) - Same(target[p], n)
    <3>1. SetTo(target', target, p, v)
      BY <1>0 DEF SetTo
    <3> QED
      BY ONLY <3>1, OneMoves, p \in Counted!Pointers
  <2>2. count[n] = Cardinality(Pointed(target, n)) + Same(Pending, n)
    BY DEF CountedInv, Counts
  <2>3. Same(Pending, n) = 0
    BY PointersAre DEF Same, Pending
  <2>4. /\ Cardinality(Pointed(target, n)) \in Nat
        /\ Same(v, n) \in Int /\ Same(target[p], n) \in Int /\ Same(r, n) \in Int
    BY PointedFinite, SameType
  <2>5. /\ count'[n] = count[n] + Same(b, n) /\ Pending' = r
        /\ Same(v, n) - Same(target[p], n) + Same(r, n) = Same(b, n)
    OBVIOUS
  <2> QED
    BY ONLY <2>1, <2>2, <2>3, <2>4, <2>5
<1>4. Lives'
  <2> SUFFICES ASSUME NEW n \in Counted!Nodes
               PROVE  IF n \in Living THEN count'[n] >= 1
                      ELSE count'[n] = 0 /\ target'[n] = -1
    BY <1>1, Zenon DEF Lives
  <2>1. CASE n \in Living
    <3>1. count[n] >= 1 /\ count[n] \in Int
      BY <2>1 DEF CountedInv, Lives, Shapes
    <3>2. count'[n] = count[n] + Same(b, n) /\ Same(b, n) \in {0, 1}
      BY SameType
    <3> QED
      BY ONLY <2>1, <3>1, <3>2
  <2>2. CASE n \notin Living
    <3>1. n # p /\ n # b /\ count[n] = 0 /\ target[n] = -1 /\ n \in Counted!Pointers
      BY <2>2, PointersAre DEF CountedInv, Lives
    <3> QED
      BY <2>2, <3>1 DEF Same, CountedInv, Shapes
  <2> QED
    BY <2>1, <2>2
<1> QED
  BY <1>2, <1>3, <1>4 DEF CountedInv

-----------------------------------------------------------------------------
(* The operations *)

LEMMA AliveTargets ==
    ASSUME CountedInv, NEW p \in Counted!Pointers, Counted!Alive(p)
    PROVE  /\ target[p] \in Living \cup {0} /\ target[p] \in 0 .. nodes
           /\ p \in Counted!Nodes => p \in Living
<1>1. target[p] \in -1 .. nodes /\ target[p] # -1 /\ nodes \in Nat
  BY DEF CountedInv, Shapes, Counted!Alive, Counted!Gone
<1>2. target[p] = 0 \/ target[p] > 0
  BY <1>1
<1> QED
  BY <1>1, <1>2, TargetsLive, MembersLive

LEMMA NoNode == \A n \in Counted!Nodes : Same(0, n) = 0 /\ Same(-1, n) = 0
  BY PointersAre DEF Same

LEMMA NumbersOfNodes ==
    ASSUME CountedInv
    PROVE  /\ nodes \in Nat /\ nodes <= MaxNodes /\ Living \subseteq Int
           /\ target \in [Counted!Pointers -> -1 .. nodes] /\ Shapes
           /\ count \in [Counted!Nodes -> Int]
  BY DEF CountedInv, Shapes, Living

LEMMA ConstructKeeps ==
    ASSUME CountedInv, NEW p \in Vars \cup Userdata, NEW q \in Counted!Pointers,
           Counted!Construct(p, q)
    PROVE  CountedInv'
<1> DEFINE b == target[q]
<1>1. /\ todo = <<>> /\ UNCHANGED <<nodes, deleted, twice>>
      /\ target' = [target EXCEPT ![p] = b] /\ Counted!Acquire(b) /\ Counted!Alive(q)
  BY DEF Counted!Construct, Counted!AtRest
<1>0. target[p] = -1 /\ todo' = <<>>
  BY DEF Counted!Construct, Counted!AtRest, Counted!Alive, Counted!Gone
<1>2. b \in Living \cup {0} /\ b \in 0 .. nodes'
  BY <1>1, AliveTargets
<1>3. p \notin Counted!Nodes
  BY PointersAre
<1>10. p \in Counted!Pointers
  BY PointersAre
<1> HIDE DEF b
<1>4. /\ count' \in [Counted!Nodes -> Int]
      /\ \A n \in Counted!Nodes : count'[n] = count[n] + Same(b, n)
  BY ONLY <1>1, <1>2, NumbersOfNodes, CountedInv, AcquireAdds
<1> DEFINE r == 0
<1>5. r \in Living \cup {0}
  OBVIOUS
<1>9. r = 0
  OBVIOUS
<1> HIDE DEF r
<1>6. b \in Living \cup {0, -1} /\ Pending' = r
  BY <1>0, <1>1, <1>2, <1>9 DEF Pending
<1>7. \A n \in Counted!Nodes : Same(b, n) - Same(target[p], n) + Same(r, n) = Same(b, n)
  BY <1>0, <1>9, NoNode, SameType
<1>8. /\ p \in Counted!Nodes => p \in Living
      /\ r = 0 => todo' = <<>>
      /\ r # 0 => todo' = <<r>>
  BY <1>0, <1>3, <1>9
<1> QED
  BY ONLY <1>1, <1>2, <1>4, <1>5, <1>6, <1>7, <1>8, <1>10, CountedInv,
          OnePointerKeeps

LEMMA ReassignKeeps ==
    ASSUME CountedInv, NEW p \in Counted!Pointers, NEW q \in Counted!Pointers,
           Counted!MayAssign(p, q), Counted!Reassign(p, q)
    PROVE  CountedInv'
<1> DEFINE b == target[q]
           r == target[p]
<1>1. /\ todo = <<>> /\ UNCHANGED <<nodes, deleted, twice>>
      /\ target' = [target EXCEPT ![p] = b] /\ Counted!Acquire(b) /\ Counted!Release(r)
      /\ Counted!Alive(p) /\ Counted!Alive(q)
  BY DEF Counted!MayAssign, Counted!Reassign, Counted!AtRest
<1>2. /\ b \in Living \cup {0} /\ b \in 0 .. nodes'
      /\ r \in Living \cup {0} /\ r \in Int
      /\ p \in Counted!Nodes => p \in Living
  BY <1>1, AliveTargets, NumbersOfNodes
<1>3. r = target[p]
  OBVIOUS
<1> HIDE DEF b, r
<1>4. /\ count' \in [Counted!Nodes -> Int]
      /\ \A n \in Counted!Nodes : count'[n] = count[n] + Same(b, n)
  BY ONLY <1>1, <1>2, NumbersOfNodes, CountedInv, AcquireAdds
<1>5. Pending' = r /\ (r = 0 => todo' = <<>>) /\ (r # 0 => todo' = <<r>>)
  BY <1>1, <1>2, ReleaseLeaves
<1>6. b \in Living \cup {0, -1}
  BY <1>2
<1>7. \A n \in Counted!Nodes : Same(b, n) - Same(target[p], n) + Same(r, n) = Same(b, n)
  BY <1>3, SameType
<1> QED
  BY ONLY <1>1, <1>2, <1>4, <1>5, <1>6, <1>7, CountedInv, OnePointerKeeps,
          p \in Counted!Pointers

LEMMA LeaveKeeps ==
    ASSUME CountedInv, NEW p \in Counted!Pointers,
           Counted!Reset(p) \/ (Counted!Destroy(p) /\ p \notin Counted!Nodes)
    PROVE  CountedInv'
<1> DEFINE r == target[p]
<1>1. PICK v \in {0, -1} :
         /\ todo = <<>> /\ UNCHANGED <<nodes, deleted, twice, count>>
         /\ target' = [target EXCEPT ![p] = v] /\ Counted!Release(r) /\ Counted!Alive(p)
  <2>1. CASE Counted!Reset(p)
    BY <2>1 DEF Counted!Reset, Counted!AtRest, Counted!Null
  <2>2. CASE Counted!Destroy(p)
    BY <2>2 DEF Counted!Destroy, Counted!AtRest, Counted!Gone
  <2> QED
    BY <2>1, <2>2
<1>2. /\ r \in Living \cup {0} /\ r \in Int
      /\ p \in Counted!Nodes => p \in Living
  BY <1>1, AliveTargets, NumbersOfNodes
<1>3. r = target[p] /\ v \in Living \cup {0, -1} /\ 0 \in Living \cup {0}
  OBVIOUS
<1> HIDE DEF r
<1>4. \A n \in Counted!Nodes : count'[n] = count[n] + Same(0, n)
  BY <1>1, NoNode, NumbersOfNodes
<1>5. Pending' = r /\ (r = 0 => todo' = <<>>) /\ (r # 0 => todo' = <<r>>)
  BY <1>1, <1>2, ReleaseLeaves
<1>6. count' \in [Counted!Nodes -> Int]
  BY <1>1, NumbersOfNodes
<1>7. \A n \in Counted!Nodes : Same(v, n) - Same(target[p], n) + Same(r, n) = Same(0, n)
  BY <1>3, SameType, NoNode
<1> QED
  BY ONLY <1>1, <1>2, <1>3, <1>4, <1>5, <1>6, <1>7, CountedInv, OnePointerKeeps,
          p \in Counted!Pointers

(* Two pointers trade what they point to, or one leaves it to the other.   *)
LEMMA MovesKeep ==
    ASSUME CountedInv, NEW p \in Counted!Pointers, NEW q \in Counted!Pointers,
           \/ Counted!AssignMoved(p, q)
           \/ Counted!ConstructMoved(p, q) /\ p \notin Counted!Nodes
    PROVE  CountedInv'
<1> DEFINE v == target[q]
           w == IF Counted!AssignMoved(p, q) THEN target[p] ELSE 0
<1>5. /\ UNCHANGED <<nodes, deleted, twice, count, todo>>
      /\ target' = [target EXCEPT ![p] = v, ![q] = w] /\ Counted!Alive(q)
      /\ target[p] = -1 \/ Counted!AssignMoved(p, q)
  BY DEF Counted!AssignMoved, Counted!ConstructMoved, Counted!Alive,
     Counted!Gone, Counted!Null
<1>6. p # q /\ (Counted!Alive(p) \/ p \notin Counted!Nodes)
  BY DEF Counted!AssignMoved, Counted!ConstructMoved, Counted!Alive
<1>7. /\ v \in Living \cup {0, -1}
      /\ p \in Counted!Nodes => p \in Living
      /\ q \in Counted!Nodes => q \in Living
  BY <1>5, <1>6, AliveTargets
<1>8. w \in Living \cup {0, -1}
  BY AliveTargets DEF Counted!AssignMoved
<1>9. \A n \in Counted!Nodes :
         Same(v, n) + Same(w, n) = Same(target[p], n) + Same(target[q], n)
  BY <1>5, SameType, NoNode
<1> HIDE DEF v, w
<1>1. Living' = Living /\ Living \subseteq 1 .. nodes /\ Living \subseteq Counted!Nodes
  BY <1>5, LivingAre DEF Living
<1>0. target \in [Counted!Pointers -> -1 .. nodes]
  BY DEF CountedInv, Shapes
<1>2. Shapes'
  BY <1>1, <1>5, <1>7, <1>8 DEF CountedInv, Shapes
<1> DEFINE t == [target EXCEPT ![p] = v]
<1>3. Counts'
  <2> SUFFICES ASSUME NEW n \in Counted!Nodes
               PROVE  count[n] = Cardinality(Pointed(target', n)) + Same(Pending, n)
    BY <1>5 DEF Counts, Pointed, Same, Pending
  <2>1. Cardinality(Pointed(t, n))
           = Cardinality(Pointed(target, n)) + Same(v, n) - Same(target[p], n)
    <3>1. SetTo(t, target, p, v)
      BY <1>0 DEF SetTo
    <3> HIDE DEF t
    <3> QED
      BY ONLY <3>1, OneMoves, p \in Counted!Pointers
  <2>2. Cardinality(Pointed(target', n))
           = Cardinality(Pointed(t, n)) + Same(w, n) - Same(target[q], n)
    <3>1. SetTo(target', t, q, w)
      BY <1>0, <1>5 DEF SetTo
    <3>2. t[q] = target[q]
      BY <1>0, <1>6
    <3> HIDE DEF t
    <3>3. Cardinality(Pointed(target', n))
             = Cardinality(Pointed(t, n)) + Same(w, n) - Same(t[q], n)
      BY ONLY <3>1, OneMoves, q \in Counted!Pointers
    <3> QED
      BY ONLY <3>2, <3>3
  <2>3. count[n] = Cardinality(Pointed(target, n)) + Same(Pending, n)
    BY DEF CountedInv, Counts
  <2>4. /\ Cardinality(Pointed(target, n)) \in Nat
        /\ Same(v, n) \in Int /\ Same(target[p], n) \in Int
        /\ Same(w, n) \in Int /\ Same(target[q], n) \in Int /\ Same(Pending, n) \in Int
    BY PointedFinite, SameType
  <2>5. Same(v, n) + Same(w, n) = Same(target[p], n) + Same(target[q], n)
    BY <1>9
  <2> QED
    BY ONLY <2>1, <2>2, <2>3, <2>4, <2>5
<1>4. Lives'
  <2> SUFFICES ASSUME NEW n \in Counted!Nodes
               PROVE  IF n \in Living THEN count[n] >= 1
                      ELSE count[n] = 0 /\ target'[n] = -1
    BY <1>1, <1>5, Zenon DEF Lives
  <2>1. CASE n \in Living
    BY <1>5, <2>1 DEF CountedInv, Lives
  <2>2. CASE n \notin Living
    <3>1. n # p /\ n # q /\ count[n] = 0 /\ target[n] = -1 /\ n \in Counted!Pointers
      BY <1>7, <2>2, PointersAre DEF CountedInv, Lives
    <3> QED
      BY <1>5, <2>2, <3>1 DEF CountedInv, Shapes
  <2> QED
    BY <2>1, <2>2
<1> QED
  BY <1>2, <1>3, <1>4 DEF CountedInv

(* A new object.                                                           *)
LEMMA NewKeeps ==
    ASSUME CountedInv, NEW p \in Vars \cup Userdata, Counted!New(p)
    PROVE  CountedInv'
<1> DEFINE m == nodes + 1
           t == [target EXCEPT ![p] = m]
<1>1. /\ todo = <<>> /\ todo' = <<>> /\ nodes' = m /\ nodes < MaxNodes
      /\ UNCHANGED <<deleted, twice>> /\ target[p] = -1
      /\ target' = [target EXCEPT ![p] = m, ![m] = 0] /\ Counted!Acquire(m)
  BY DEF Counted!New, Counted!AtRest, Counted!Alive, Counted!Gone, Counted!Null
<1>2. nodes \in Nat /\ m \in Nat /\ m <= MaxNodes /\ MaxNodes \in Nat
  BY <1>1, NumbersOfNodes, PointersAre
<1>3. /\ m \in Counted!Nodes /\ p \notin Counted!Nodes
      /\ p \in Counted!Pointers /\ m \in Counted!Pointers
  BY <1>2, PointersAre
<1>4. deleted \subseteq 1 .. nodes /\ target \in [Counted!Pointers -> -1 .. nodes] /\ ~twice
  BY DEF CountedInv, Shapes
<1>5. Living' = Living \cup {m} /\ m \notin Living
  BY <1>1, <1>2, <1>4 DEF Living
<1>6. count[m] = 0 /\ target[m] = -1
  BY <1>3, <1>5 DEF CountedInv, Lives
<1>7. /\ count' \in [Counted!Nodes -> Int]
      /\ \A n \in Counted!Nodes : count'[n] = count[n] + Same(m, n)
  <2>1. m \in 0 .. nodes' /\ nodes' \in Nat /\ nodes' <= MaxNodes
    BY <1>1, <1>2
  <2> HIDE DEF m
  <2> QED
    BY ONLY <1>1, <2>1, NumbersOfNodes, CountedInv, AcquireAdds
<1>8. Shapes'
  <2>1. nodes' \in Nat /\ nodes' <= MaxNodes /\ deleted' \subseteq 1 .. nodes'
    BY <1>1, <1>2, <1>4
  <2>2. target' \in [Counted!Pointers -> -1 .. nodes']
    BY <1>1, <1>2, <1>3, <1>4
  <2> QED
    BY <1>1, <1>4, <1>7, <2>1, <2>2 DEF Shapes
<1> HIDE DEF m
<1>9. Counts'
  <2> SUFFICES ASSUME NEW n \in Counted!Nodes
               PROVE  count'[n] = Cardinality(Pointed(target', n)) + 0
    <3>1. \A n \in Counted!Nodes : Same(Pending', n) = 0
      BY <1>1, NoNode DEF Pending
    <3> QED
      BY <3>1, Zenon DEF Counts, Pointed
  <2>1. Cardinality(Pointed(t, n))
           = Cardinality(Pointed(target, n)) + Same(m, n) - Same(target[p], n)
    <3>1. SetTo(t, target, p, m)
      BY <1>4 DEF SetTo
    <3> HIDE DEF t
    <3> QED
      BY ONLY <3>1, <1>3, OneMoves
  <2>2. Cardinality(Pointed(target', n))
           = Cardinality(Pointed(t, n)) + Same(0, n) - Same(target[m], n)
    <3>0. PICK w \in {0} : w = 0
      OBVIOUS
    <3>1. SetTo(target', t, m, w)
      BY <1>1, <1>4, <3>0 DEF SetTo
    <3>2. t[m] = target[m]
      BY <1>3, <1>4
    <3> HIDE DEF t
    <3>3. Cardinality(Pointed(target', n))
             = Cardinality(Pointed(t, n)) + Same(w, n) - Same(t[m], n)
      BY ONLY <3>1, <1>3, OneMoves
    <3> QED
      BY ONLY <3>0, <3>2, <3>3
  <2>3. count[n] = Cardinality(Pointed(target, n)) + Same(Pending, n) /\ Same(Pending, n) = 0
    BY <1>1, NoNode DEF CountedInv, Counts, Pending
  <2>4. Cardinality(Pointed(target, n)) \in Nat /\ Same(m, n) \in Int
    BY PointedFinite, SameType
  <2>5. /\ Same(target[p], n) = 0 /\ Same(target[m], n) = 0 /\ Same(0, n) = 0
        /\ count'[n] = count[n] + Same(m, n)
    BY <1>1, <1>6, <1>7, NoNode
  <2> QED
    BY ONLY <2>1, <2>2, <2>3, <2>4, <2>5
<1>10. Lives'
  <2> SUFFICES ASSUME NEW n \in Counted!Nodes
               PROVE  IF n \in Living' THEN count'[n] >= 1
                      ELSE count'[n] = 0 /\ target'[n] = -1
    BY Zenon DEF Lives
  <2>1. count'[n] = count[n] + Same(m, n) /\ count[n] \in Int
    BY <1>7, NumbersOfNodes
  <2>2. CASE n = m
    BY <1>5, <1>6, <2>1, <2>2 DEF Same
  <2>3. CASE n # m
    <3>1. target'[n] = target[n] /\ (n \in Living' <=> n \in Living) /\ count'[n] = count[n]
      BY <1>1, <1>3, <1>4, <1>5, <2>1, <2>3, PointersAre DEF Same
    <3>2. IF n \in Living THEN count[n] >= 1 ELSE count[n] = 0 /\ target[n] = -1
      BY DEF CountedInv, Lives
    <3> QED
      BY ONLY <3>1, <3>2
  <2> QED
    BY <2>2, <2>3
<1> QED
  BY <1>8, <1>9, <1>10 DEF CountedInv

(* An object loses a pointer; the last one takes its member with it.       *)
LEMMA DecrementKeeps ==
    ASSUME CountedInv, Counted!Decrement
    PROVE  CountedInv'
<1>1. PICK m \in Living : todo = <<m>>
  BY DEF CountedInv, Shapes, Counted!Decrement
<1>2. /\ nodes' = nodes /\ nodes \in Nat /\ nodes <= MaxNodes
      /\ Living \subseteq 1 .. nodes /\ Living \subseteq Counted!Nodes
      /\ m \in Counted!Pointers /\ m \in Counted!Nodes
      /\ target \in [Counted!Pointers -> -1 .. nodes]
      /\ count \in [Counted!Nodes -> Int] /\ deleted \subseteq 1 .. nodes /\ ~twice
  BY LivingAre, NumbersOfNodes, PointersAre
     DEF Counted!Decrement, CountedInv, Shapes
<1>3. Head(todo) = m /\ Tail(todo) = <<>> /\ Pending = m
  BY <1>1 DEF Pending
<1>4. /\ count' = [count EXCEPT ![m] = @ - 1]
      /\ count' \in [Counted!Nodes -> Int]
      /\ \A n \in Counted!Nodes : count'[n] = count[n] - Same(m, n)
  <2>1. count' = [count EXCEPT ![Head(todo)] = @ - 1]
    BY Zenon DEF Counted!Decrement
  <2>2. count' = [count EXCEPT ![m] = count[m] - 1]
    BY ONLY <1>3, <2>1, Zenon
  <2> QED
    BY ONLY <1>2, <2>2 DEF Same
<1>5. count[m] >= 1 /\ count'[m] = count[m] - 1
  BY <1>2, <1>4 DEF CountedInv, Lives
<1>6. ASSUME NEW n \in Counted!Nodes
      PROVE  /\ count[n] = Cardinality(Pointed(target, n)) + Same(m, n)
             /\ Cardinality(Pointed(target, n)) \in Nat /\ Same(m, n) \in Int
  BY <1>3, PointedFinite, SameType DEF CountedInv, Counts
<1>7. CASE count'[m] > 0
  <2>1. todo' = <<>> /\ UNCHANGED <<deleted, target, twice>>
    BY <1>3, <1>7 DEF Counted!Decrement
  <2>2. Shapes'
    BY <1>2, <1>4, <2>1 DEF Shapes
  <2>3. Counts'
    <3> SUFFICES ASSUME NEW n \in Counted!Nodes
                 PROVE  count'[n] = Cardinality(Pointed(target', n)) + Same(Pending', n)
      BY DEF Counts, Pointed, Same, Pending
    <3>1. Same(Pending', n) = 0
      BY <2>1, NoNode DEF Pending
    <3> QED
      BY <1>4, <1>6, <2>1, <3>1
  <2>4. Lives'
    <3> SUFFICES ASSUME NEW n \in Counted!Nodes
                 PROVE  IF n \in Living THEN count'[n] >= 1
                        ELSE count'[n] = 0 /\ target[n] = -1
      BY <1>2, <2>1 DEF Lives, Living
    <3>1. n = m => count'[n] >= 1
      BY <1>2, <1>4, <1>7
    <3>2. n # m => count'[n] = count[n]
      BY <1>2, <1>4
    <3> QED
      BY <3>1, <3>2 DEF CountedInv, Lives
  <2> QED
    BY <2>2, <2>3, <2>4 DEF CountedInv
<1>8. CASE ~(count'[m] > 0)
  <2> DEFINE k == target[m]
             r == IF k > 0 THEN k ELSE 0
  <2>1. /\ deleted' = deleted \cup {m} /\ ~twice' /\ target' = [target EXCEPT ![m] = -1]
        /\ todo' = (IF k > 0 THEN <<k>> ELSE <<>>) \o <<>>
    BY <1>1, <1>2, <1>3, <1>8 DEF Counted!Decrement, Counted!Gone, Living
  <2>2. count[m] = 1 /\ count'[m] = 0 /\ Pointed(target, m) = {}
    <3>1. count[m] = 1 /\ count'[m] = 0
      BY <1>2, <1>4, <1>5, <1>8
    <3>2. Same(m, m) = 1
      BY DEF Same
    <3>3. Cardinality(Pointed(target, m)) = 0
      BY <1>2, <1>6, <3>1, <3>2
    <3> QED
      BY <3>1, <3>3, PointedFinite
  <2>3. k # m /\ k \in -1 .. nodes
    BY <1>2, <2>2 DEF Pointed
  <2>4. Living' = Living \ {m}
    BY <1>2, <2>1 DEF Living
  <2>5. r \in Living' \cup {0} /\ r # -1
    BY <1>2, <2>3, <2>4, TargetsLive
  <2>6. (r = 0 => todo' = <<>>) /\ (r # 0 => todo' = <<r>>) /\ Pending' = r
    <3>1. CASE k > 0
      BY <2>1, <2>3, <3>1 DEF Pending
    <3>2. CASE ~(k > 0)
      BY <2>1, <2>3, <3>2 DEF Pending
    <3> QED
      BY <3>1, <3>2
  <2>7. Shapes'
    <3>1. target' \in [Counted!Pointers -> -1 .. nodes]
      BY <1>2, <2>1
    <3>2. todo' = <<>> \/ \E n \in Living' : todo' = <<n>>
      BY <2>5, <2>6
    <3>3. deleted' \subseteq 1 .. nodes
      BY <1>2, <2>1
    <3> QED
      BY <1>2, <1>4, <2>1, <3>1, <3>2, <3>3 DEF Shapes
  <2>8. Counts'
    <3> SUFFICES ASSUME NEW n \in Counted!Nodes
                 PROVE  count'[n] = Cardinality(Pointed(target', n)) + Same(Pending', n)
      BY Zenon DEF Counts
    <3>1. Cardinality(Pointed(target', n))
             = Cardinality(Pointed(target, n)) + Same(-1, n) - Same(k, n)
      <4>1. SetTo(target', target, m, -1)
        BY <1>2, <2>1 DEF SetTo
      <4> QED
        BY ONLY <4>1, <1>2, OneMoves
    <3>2. Same(r, n) = Same(k, n) /\ Same(k, n) \in Int /\ Same(-1, n) = 0
      BY <2>3, NoNode, SameType
    <3>3. count'[n] = count[n] - Same(m, n)
      BY <1>4
    <3> HIDE DEF k, r
    <3> QED
      BY ONLY <1>6, <2>6, <3>1, <3>2, <3>3, n \in Counted!Nodes
  <2>9. Lives'
    <3> SUFFICES ASSUME NEW n \in Counted!Nodes
                 PROVE  IF n \in Living' THEN count'[n] >= 1
                        ELSE count'[n] = 0 /\ target'[n] = -1
      BY Zenon DEF Lives
    <3>1. n = m => count'[n] = 0 /\ target'[n] = -1 /\ n \notin Living'
      BY <1>2, <2>1, <2>2, <2>4
    <3>2. n # m => /\ count'[n] = count[n] /\ target'[n] = target[n]
                   /\ (n \in Living' <=> n \in Living)
      BY <1>2, <1>4, <2>1, <2>4, PointersAre
    <3>3. IF n \in Living THEN count[n] >= 1 ELSE count[n] = 0 /\ target[n] = -1
      BY DEF CountedInv, Lives
    <3> QED
      BY ONLY <3>1, <3>2, <3>3
  <2> QED
    BY <2>7, <2>8, <2>9 DEF CountedInv
<1> QED
  BY <1>7, <1>8

LEMMA StepCounted == CountedInv /\ [Counted!Next]_counted => CountedInv'
<1> SUFFICES ASSUME CountedInv, Counted!Next \/ UNCHANGED counted PROVE CountedInv'
  BY Zenon
<1>1. CASE Counted!Decrement
  BY <1>1, DecrementKeeps
<1>2. ASSUME NEW p \in Vars \cup Userdata, Counted!New(p) PROVE CountedInv'
  BY <1>2, NewKeeps
<1>3. ASSUME NEW p \in Vars \cup Userdata, Counted!Destroy(p) PROVE CountedInv'
  BY <1>3, LeaveKeeps, PointersAre
<1>4. ASSUME NEW p \in Vars \cup Counted!Nodes, Counted!Reset(p) PROVE CountedInv'
  <2>1. p \in Counted!Pointers
    BY PointersAre
  <2>2. Counted!Reset(p) \/ (Counted!Destroy(p) /\ p \notin Counted!Nodes)
    BY <1>4
  <2> QED
    BY ONLY <2>1, <2>2, CountedInv, LeaveKeeps
<1>5. ASSUME NEW p \in Vars \cup Userdata, NEW q \in Counted!Pointers,
             Counted!Construct(p, q)
      PROVE  CountedInv'
  BY <1>5, ConstructKeeps
<1>6. ASSUME NEW p \in Vars, NEW q \in Vars, Counted!ConstructMoved(p, q)
      PROVE  CountedInv'
  BY <1>6, MovesKeep, PointersAre
<1>7. ASSUME NEW p \in Vars \cup Counted!Nodes, NEW q \in Counted!Pointers,
             \/ Counted!Assign(p, q) \/ Counted!AssignCounted(p, q)
             \/ Counted!AssignConverted(p, q)
      PROVE  CountedInv'
  <2>1. Counted!MayAssign(p, q) /\ Counted!Reassign(p, q)
    BY <1>7 DEF Counted!Assign, Counted!AssignCounted, Counted!AssignConverted
  <2> QED
    BY <2>1, ReassignKeeps, PointersAre
<1>8. ASSUME NEW p \in Vars \cup Counted!Nodes, NEW q \in Vars \cup Counted!Nodes,
             Counted!AssignMoved(p, q)
      PROVE  CountedInv'
  BY <1>8, MovesKeep, PointersAre
<1>9. CASE UNCHANGED counted
  BY <1>9
     DEF counted, CountedInv, Shapes, Counts, Lives, Living, Pending, Pointed,
         Same
<1> QED
  BY <1>1, <1>2, <1>3, <1>4, <1>5, <1>6, <1>7, <1>8, <1>9 DEF Counted!Next

LEMMA LivesAsPointedTo == CountedInv => Counted!LivesWhilePointedTo
<1> SUFFICES ASSUME CountedInv PROVE Counted!LivesWhilePointedTo
  OBVIOUS
<1>1. ~twice /\ deleted \subseteq 1 .. nodes /\ 1 .. nodes \subseteq Counted!Nodes
  <2>1. ~twice /\ deleted \subseteq 1 .. nodes /\ nodes \in Nat /\ nodes <= MaxNodes
    BY DEF CountedInv, Shapes
  <2> QED
    BY <2>1, PointersAre
<1>2. ASSUME NEW n \in deleted PROVE Pointed(target, n) = {}
  <2>1. n \in Counted!Nodes /\ n \notin Living
    BY <1>1 DEF Living
  <2>2. count[n] = 0 /\ count[n] = Cardinality(Pointed(target, n)) + Same(Pending, n)
    BY <2>1 DEF CountedInv, Counts, Lives
  <2> QED
    BY <2>2, PointedFinite, SameType
<1>3. ASSUME todo = <<>>, NEW n \in 1 .. nodes
      PROVE  /\ Cardinality(Pointed(target, n)) = count[n]
             /\ Pointed(target, n) = {} => n \in deleted
  <2>1. n \in Counted!Nodes
    BY <1>1
  <2>2. count[n] = Cardinality(Pointed(target, n)) + Same(Pending, n) /\ Same(Pending, n) = 0
    BY <1>3, <2>1, NoNode DEF CountedInv, Counts, Pending
  <2>3. Cardinality(Pointed(target, n)) = count[n]
    BY <2>2, PointedFinite
  <2>4. n \notin deleted => count[n] >= 1
    BY <2>1 DEF CountedInv, Lives, Living
  <2> QED
    BY <2>3, <2>4, PointedFinite
<1> QED
  BY <1>1, <1>2, <1>3, SameFinite, Zenon
     DEF Counted!LivesWhilePointedTo, Counted!AtRest, Pointed

(* An object lives as long as a variable, a userdata or a member of an     *)
(* object that lives points to it, and is deleted once, when the last of   *)
(* them is gone, with as many pointers and objects as there may be         *)
(* (RefCountedObject.h, RefCountedPtr.h, Userdata.h).                      *)
THEOREM ObjectsLiveWhilePointedTo == AllSpec => []LivesWhilePointedTo
<1>1. AllInit => CountedInv
  BY InitCounted DEF AllInit
<1>2. CountedInv /\ [AllNext]_allVars => CountedInv'
  <2>1. CountedStep => Counted!Next
    BY DEF CountedStep
  <2>2. PluginStep \/ ClassStep \/ ReferenceStep \/ UNCHANGED allVars => UNCHANGED counted
    BY Zenon DEF PluginStep, ClassStep, ReferenceStep, allVars
  <2> QED
    BY ONLY <2>1, <2>2, StepCounted, Zenon DEF AllNext
<1>3. CountedInv => LivesWhilePointedTo
  BY LivesAsPointedTo DEF LivesWhilePointedTo
<1> QED
  BY <1>1, <1>2, <1>3, PTL DEF AllSpec

-----------------------------------------------------------------------------
(* The references to Lua values: the invariant.                            *)

R == Reference!Values

(* What lua_rawgeti() pushes for a slot, and a set of slots without the    *)
(* number that stands for nil.                                             *)
InSlot(m, s) == IF s = Reference!REFNIL THEN Reference!Nil ELSE m.slots[s]
Slots(S) == S \ {Reference!REFNIL}

States ==
    [slots : Seq(R), free : Seq(Nat), stack : Seq(R),
     element : [Reference!Tables -> R], failed : BOOLEAN, got : Nat]

(* The free slots differ, and those of U are the others.                   *)
Registry(m, U) ==
    /\ \A i \in 1 .. Len(m.free) : m.free[i] \in 1 .. Len(m.slots)
    /\ \A i, j \in 1 .. Len(m.free) : m.free[i] = m.free[j] => i = j
    /\ U = {s \in 1 .. Len(m.slots) : \A i \in 1 .. Len(m.free) : m.free[i] # s}

(* Lua's state m in the middle of an expression: the slots of U are in     *)
(* use, on the stack is st, and no error was raised.                       *)
LuaAt(m, U, st) == m \in States /\ Registry(m, U) /\ m.stack = st /\ ~m.failed

(* The slots of U still hold what they held, and so do the tables.         *)
KeepsSlots(m, n, U) ==
    n.element = m.element /\ \A s \in U \cup {Reference!REFNIL} : InSlot(n, s) = InSlot(m, s)

InUse == {ref[r] : r \in Refs} \ {Reference!REFNIL, Reference!NoRef}

(* Until one of the five kinds of expressions occurs: the slots in use are *)
(* those of the variables, no two of which share one.                      *)
RefInv ==
    slip = "none" =>
        /\ LuaAt(Reference!Lua, InUse, Reference!Callers)
        /\ tables \in Reference!Tables /\ is \in [Refs -> R]
        /\ ref \in [Refs -> Nat \cup {Reference!NoRef}]
        /\ \A r \in Refs : ref[r] # Reference!NoRef => is[r] = InSlot(Reference!Lua, ref[r])
        /\ \A r, q \in Refs : ref[r] = ref[q] /\ ref[r] \in InUse => r = q

-----------------------------------------------------------------------------
(* A stack with values on it.                                              *)

LEMMA Stacked ==
    ASSUME NEW S, NEW st \in Seq(S), NEW v \in S
    PROVE  /\ Append(st, v) \in Seq(S) /\ Len(Append(st, v)) = Len(st) + 1
           /\ Len(st) \in Nat /\ Append(st, v)[Len(st) + 1] = v
           /\ Reference!Last(Append(st, v)) = v
           /\ \A i \in 1 .. Len(st) : Append(st, v)[i] = st[i]
           /\ SubSeq(Append(st, v), 1, Len(st)) = st
<1> DEFINE u == Append(st, v)
<1>1. /\ u \in Seq(S) /\ Len(u) = Len(st) + 1 /\ u[Len(st) + 1] = v
      /\ \A i \in 1 .. Len(st) : u[i] = st[i]
  BY AppendProperties
<1>2. Len(st) \in Nat
  BY LenProperties
<1> HIDE DEF u
<1>3. Reference!Last(u) = v
  BY <1>1 DEF Reference!Last
<1>4. SubSeq(u, 1, Len(st)) = st
  <2>1. \A i \in 1 .. Len(st) : u[i] \in S
    BY <1>1, ElementOfSeq
  <2>2. /\ SubSeq(u, 1, Len(st)) \in Seq(S) /\ Len(SubSeq(u, 1, Len(st))) = Len(st)
        /\ \A i \in 1 .. Len(st) : SubSeq(u, 1, Len(st))[i] = u[i]
    <3> DEFINE n == Len(st)
    <3>1. n \in Int /\ 1 \in Int /\ (IF 1 <= n THEN n - 1 + 1 ELSE 0) = n
      BY <1>2
    <3>2. \A i \in 1 .. n - 1 + 1 : i \in 1 .. n /\ 1 + i - 1 = i
      BY <1>2
    <3>3. n - 1 + 1 = n
      BY <1>2
    <3>4. \A i \in 1 .. n : u[i] \in S
      BY <2>1
    <3> HIDE DEF n
    <3>5. /\ SubSeq(u, 1, n) \in Seq(S)
          /\ Len(SubSeq(u, 1, n)) = (IF 1 <= n THEN n - 1 + 1 ELSE 0)
          /\ \A i \in 1 .. n - 1 + 1 : SubSeq(u, 1, n)[i] = u[1 + i - 1]
      BY ONLY <3>1, <3>4, SubSeqProperties
    <3>6. \A i \in 1 .. n : 1 + i - 1 = i
      BY <3>2, <3>3
    <3> QED
      BY <3>1, <3>3, <3>5, <3>6 DEF n
  <2> HIDE DEF u
  <2>3. \A i \in 1 .. Len(st) : SubSeq(u, 1, Len(st))[i] = st[i]
    BY <1>1, <2>2
  <2> QED
    BY <2>2, <2>3, SeqEqual
<1> QED
  BY <1>1, <1>2, <1>3, <1>4 DEF u

LEMMA StackedTwice ==
    ASSUME NEW S, NEW st \in Seq(S), NEW v \in S, NEW w \in S
    PROVE  LET u == Append(Append(st, v), w)
           IN  /\ u \in Seq(S) /\ Len(u) = Len(st) + 2 /\ Len(st) \in Nat
               /\ u[Len(u) - 1] = v /\ Reference!Last(u) = w
               /\ SubSeq(u, 1, Len(u) - 1) = Append(st, v)
               /\ SubSeq(u, 1, Len(u) - 2) = st
               /\ Reference!RemoveAt(u, Len(u) - 1) = Append(st, w)
<1> DEFINE t == Append(st, v)
           u == Append(t, w)
<1>1. /\ t \in Seq(S) /\ Len(t) = Len(st) + 1 /\ Len(st) \in Nat
      /\ t[Len(st) + 1] = v /\ \A i \in 1 .. Len(st) : t[i] = st[i]
  BY Stacked
<1> HIDE DEF t
<1>2. /\ u \in Seq(S) /\ Len(u) = Len(t) + 1 /\ u[Len(t) + 1] = w
      /\ \A i \in 1 .. Len(t) : u[i] = t[i]
      /\ Reference!Last(u) = w /\ SubSeq(u, 1, Len(t)) = t
  BY <1>1, Stacked
<1> HIDE DEF u
<1>3. Len(u) = Len(st) + 2 /\ Len(u) - 1 = Len(st) + 1 /\ Len(u) - 1 = Len(t) /\ Len(u) - 2 = Len(st)
  BY <1>1, <1>2
<1>4. \A i \in 1 .. Len(st) : i \in 1 .. Len(t) /\ u[i] = st[i]
  BY <1>1, <1>2
<1>5. SubSeq(u, 1, Len(st)) = st
  <2> DEFINE n == Len(st)
             x == SubSeq(u, 1, n)
  <2>1. n \in Int /\ 1 \in Int /\ n - 1 + 1 = n /\ (IF 1 <= n THEN n - 1 + 1 ELSE 0) = n
        /\ \A i \in 1 .. n : 1 + i - 1 = i
    BY <1>1
  <2>2. \A i \in 1 .. n : u[i] \in S
    BY <1>4, ElementOfSeq
  <2>3. n = Len(st)
    OBVIOUS
  <2> HIDE DEF n
  <2>4. /\ x \in Seq(S) /\ Len(x) = (IF 1 <= n THEN n - 1 + 1 ELSE 0)
        /\ \A i \in 1 .. n - 1 + 1 : x[i] = u[1 + i - 1]
    BY ONLY <2>1, <2>2, SubSeqProperties
  <2> HIDE DEF x
  <2>5. x \in Seq(S) /\ Len(x) = Len(st) /\ \A i \in 1 .. Len(st) : x[i] = st[i]
    BY <1>4, <2>1, <2>3, <2>4
  <2>6. x = st
    BY <2>5, SeqEqual
  <2> QED
    BY <2>3, <2>6 DEF x
<1>6. Reference!RemoveAt(u, Len(u) - 1) = Append(st, w)
  <2> DEFINE n == Len(st) + 2
             x == SubSeq(u, n, n)
  <2>1. n \in Int /\ n <= n /\ n - n + 1 = 1 /\ n + 1 - 1 = n /\ n = Len(u) /\ n = Len(t) + 1
    BY <1>1, <1>3
  <2>2. \A i \in n .. n : i = n
    BY <2>1
  <2> HIDE DEF n
  <2>3. \A i \in n .. n : u[i] \in S
    BY <1>2, <2>1, <2>2
  <2>4. /\ x \in Seq(S) /\ Len(x) = (IF n <= n THEN n - n + 1 ELSE 0)
        /\ \A i \in 1 .. n - n + 1 : x[i] = u[n + i - 1]
    BY ONLY <2>1, <2>3, SubSeqProperties
  <2> HIDE DEF x
  <2>5. x \in Seq(S) /\ Len(x) = 1 /\ x[1] = w
    BY <1>2, <2>1, <2>4
  <2>6. x = <<w>>
    <3>1. <<w>> \in Seq(S) /\ Len(<<w>>) = 1 /\ <<w>>[1] = w
      OBVIOUS
    <3>2. \A i \in 1 .. 1 : x[i] = <<w>>[i]
      BY <2>5, <3>1
    <3> DEFINE y == <<w>>
    <3>3. y \in Seq(S) /\ Len(x) = Len(y) /\ \A i \in 1 .. Len(x) : x[i] = y[i]
      BY <2>5, <3>1, <3>2
    <3> HIDE DEF y
    <3>4. x = y
      BY <2>5, <3>3, SeqEqual
    <3> QED
      BY <3>4 DEF y
  <2>7. Append(st, w) = st \o <<w>>
    BY AppendIsConcat
  <2>8. Len(u) - 1 - 1 = Len(st) /\ Len(u) - 1 + 1 = n /\ Len(u) = n
    BY <1>1, <1>3, <2>1
  <2>9. SubSeq(u, Len(u) - 1 + 1, Len(u)) = <<w>>
    BY <2>6, <2>8 DEF x
  <2>10. SubSeq(u, 1, Len(u) - 1 - 1) = st
    BY <1>5, <2>8
  <2> QED
    BY ONLY <2>7, <2>9, <2>10, Zenon DEF Reference!RemoveAt
<1> QED
  BY <1>1, <1>2, <1>3, <1>5, <1>6 DEF t, u

-----------------------------------------------------------------------------
(* Lua's functions on a state in the middle of an expression.              *)

LEMMA LuaTypes ==
    /\ Reference!Tables \subseteq R /\ Reference!Nil \in R /\ Reference!Key \in R
    /\ Reference!Number \in R /\ Reference!Function \in R
    /\ 1 \in Reference!Tables /\ R \subseteq Int
    /\ Reference!Key # Reference!Nil /\ Reference!REFNIL = 0 /\ Reference!NoRef = -1
    /\ Reference!Nil \notin Reference!Tables
  BY BridgeAssumption
     DEF R, Reference!Values, Reference!Tables, Reference!Scalars, Reference!Nil,
         Reference!Key, Reference!Number, Reference!Function, Reference!REFNIL,
         Reference!NoRef, Reference!RefAssumption

LEMMA KeepsTwice ==
    ASSUME NEW m, NEW n, NEW o, NEW U, NEW V, KeepsSlots(m, n, U), KeepsSlots(n, o, V), V \subseteq U
    PROVE  KeepsSlots(m, o, V)
  BY DEF KeepsSlots

LEMMA Holds ==
    ASSUME NEW m, NEW U, NEW st, LuaAt(m, U, st)
    PROVE  /\ Reference!REFNIL \notin U /\ U \subseteq 1 .. Len(m.slots) /\ Len(m.slots) \in Nat
           /\ \A s \in U \cup {Reference!REFNIL} : InSlot(m, s) \in R
  BY LuaTypes DEF LuaAt, States, Registry, InSlot

LEMMA Pushes ==
    ASSUME NEW m, NEW U, NEW st, LuaAt(m, U, st), NEW v \in R
    PROVE  LET n == Reference!PushValue(m, v)
           IN  /\ LuaAt(n, U, Append(st, v)) /\ KeepsSlots(m, n, U) /\ n.got = m.got
<1> DEFINE n == Reference!PushValue(m, v)
<1>1. m \in States /\ m.stack = st /\ st \in Seq(R) /\ m.failed = FALSE
  BY DEF LuaAt, States
<1>2. Append(st, v) \in Seq(R)
  BY <1>1, Stacked
<1>3. /\ n \in States /\ n.stack = Append(st, v) /\ n.slots = m.slots /\ n.free = m.free
      /\ n.element = m.element /\ n.failed = m.failed /\ n.got = m.got
  BY <1>1, <1>2 DEF States, Reference!PushValue
<1> HIDE DEF n
<1>4. LuaAt(n, U, Append(st, v))
  BY <1>1, <1>3 DEF LuaAt, Registry
<1>5. KeepsSlots(m, n, U)
  BY <1>3 DEF KeepsSlots, InSlot
<1> QED
  BY <1>3, <1>4, <1>5 DEF n

LEMMA PushesSlot ==
    ASSUME NEW m, NEW U, NEW st, LuaAt(m, U, st), NEW s \in U \cup {Reference!REFNIL}
    PROVE  LET n == Reference!PushSlot(m, s)
           IN  /\ LuaAt(n, U, Append(st, InSlot(m, s))) /\ KeepsSlots(m, n, U) /\ n.got = m.got
<1>1. InSlot(m, s) \in R
  BY Holds
<1>2. Reference!PushSlot(m, s) = Reference!PushValue(m, InSlot(m, s))
  BY DEF Reference!PushSlot, InSlot
<1> QED
  BY <1>1, <1>2, Pushes

LEMMA PopsOne ==
    ASSUME NEW m, NEW U, NEW st \in Seq(R), NEW v \in R, LuaAt(m, U, Append(st, v))
    PROVE  LET n == Reference!Pop(m, 1)
           IN  LuaAt(n, U, st) /\ KeepsSlots(m, n, U) /\ n.got = m.got
<1> DEFINE n == Reference!Pop(m, 1)
<1>1. m \in States /\ m.stack = Append(st, v) /\ m.failed = FALSE
  BY DEF LuaAt
<1>2. SubSeq(m.stack, 1, Len(m.stack) - 1) = st
  <2>1. Len(Append(st, v)) - 1 = Len(st) /\ SubSeq(Append(st, v), 1, Len(st)) = st
    BY Stacked
  <2> QED
    BY <1>1, <2>1
<1>3. /\ n \in States /\ n.stack = st /\ n.slots = m.slots /\ n.free = m.free
      /\ n.element = m.element /\ n.failed = m.failed /\ n.got = m.got
  BY <1>1, <1>2 DEF States, Reference!Pop
<1> HIDE DEF n
<1>4. LuaAt(n, U, st)
  BY <1>1, <1>3 DEF LuaAt, Registry
<1>5. KeepsSlots(m, n, U)
  BY <1>3 DEF KeepsSlots, InSlot
<1> QED
  BY <1>3, <1>4, <1>5 DEF n

LEMMA PopsTwo ==
    ASSUME NEW m, NEW U, NEW st \in Seq(R), NEW v \in R, NEW w \in R,
           LuaAt(m, U, Append(Append(st, v), w))
    PROVE  LET n == Reference!Pop(m, 2)
           IN  LuaAt(n, U, st) /\ KeepsSlots(m, n, U) /\ n.got = m.got
<1> DEFINE n == Reference!Pop(m, 2)
<1>1. m \in States /\ m.stack = Append(Append(st, v), w) /\ m.failed = FALSE
  BY DEF LuaAt
<1>2. SubSeq(m.stack, 1, Len(m.stack) - 2) = st
  BY <1>1, StackedTwice
<1>3. /\ n \in States /\ n.stack = st /\ n.slots = m.slots /\ n.free = m.free
      /\ n.element = m.element /\ n.failed = m.failed /\ n.got = m.got
  BY <1>1, <1>2 DEF States, Reference!Pop
<1> HIDE DEF n
<1>4. LuaAt(n, U, st)
  BY <1>1, <1>3 DEF LuaAt, Registry
<1>5. KeepsSlots(m, n, U)
  BY <1>3 DEF KeepsSlots, InSlot
<1> QED
  BY <1>3, <1>4, <1>5 DEF n

(* luaL_ref() takes the value from the stack to a slot that was not in use. *)
LEMMA Takes ==
    ASSUME NEW m, NEW U, NEW st \in Seq(R), NEW v \in R, LuaAt(m, U, Append(st, v))
    PROVE  LET n == Reference!LuaL_ref(m)
           IN  /\ LuaAt(n, Slots(U \cup {n.got}), st) /\ KeepsSlots(m, n, U)
               /\ n.got \in Nat /\ n.got \notin U /\ InSlot(n, n.got) = v
               /\ n.got = Reference!REFNIL <=> v = Reference!Nil
<1> DEFINE n == Reference!LuaL_ref(m)
           o == Reference!Pop(m, 1)
           L == Len(m.slots)
<1>1. /\ m \in States /\ Registry(m, U) /\ Reference!Top(m) = v
      /\ Reference!REFNIL = 0 /\ Reference!REFNIL \notin U /\ L \in Nat
  BY Stacked, Holds, LuaTypes DEF LuaAt, Reference!Top
<1>2. /\ o \in States /\ o.stack = st /\ o.failed = FALSE /\ o.slots = m.slots
      /\ o.free = m.free /\ o.element = m.element
  <2>1. LuaAt(o, U, st)
    BY PopsOne
  <2>2. o = [m EXCEPT !.stack = SubSeq(m.stack, 1, Len(m.stack) - 1)]
    BY DEF Reference!Pop
  <2> QED
    BY <1>1, <2>1, <2>2 DEF LuaAt, States
<1> HIDE DEF o
<1>3. n = IF v = Reference!Nil THEN [o EXCEPT !.got = Reference!REFNIL]
          ELSE IF m.free # <<>>
          THEN [o EXCEPT !.got = Head(m.free), !.free = Tail(@), !.slots[Head(m.free)] = v]
          ELSE [o EXCEPT !.got = Len(m.slots) + 1, !.slots = Append(@, v)]
  BY <1>1 DEF Reference!LuaL_ref, o
<1> HIDE DEF n
<1>4. CASE v = Reference!Nil
  <2>1. /\ n \in States /\ n.stack = st /\ n.failed = FALSE /\ n.slots = m.slots
        /\ n.free = m.free /\ n.element = m.element /\ n.got = 0
    BY <1>1, <1>2, <1>3, <1>4 DEF States
  <2>2. Slots(U \cup {n.got}) = U
    BY <1>1, <2>1 DEF Slots
  <2>3. LuaAt(n, U, st)
    BY <1>1, <2>1 DEF LuaAt, Registry
  <2> QED
    BY <1>1, <1>4, <2>1, <2>2, <2>3 DEF KeepsSlots, InSlot, n
<1>5. CASE v # Reference!Nil /\ m.free # <<>>
  <2> DEFINE h == m.free[1]
             F == Len(m.free)
  <2>1. m.free \in Seq(Nat) /\ F \in Nat \ {0} /\ m.slots \in Seq(R)
    BY <1>1, <1>5 DEF States
  <2>2. /\ Head(m.free) = h /\ h \in 1 .. L /\ Tail(m.free) \in Seq(Nat)
        /\ Len(Tail(m.free)) = F - 1 /\ \A i \in 1 .. F - 1 : Tail(m.free)[i] = m.free[i + 1]
    BY <1>1, <2>1 DEF Registry
  <2>3. \A i \in 1 .. F : m.free[i] = h => i = 1
    BY <1>1, <2>1 DEF Registry
  <2> HIDE DEF h, F
  <2>4. /\ [m.slots EXCEPT ![h] = v] \in Seq(R) /\ Len([m.slots EXCEPT ![h] = v]) = L
        /\ [m.slots EXCEPT ![h] = v][h] = v
        /\ \A s \in 1 .. L : s # h => [m.slots EXCEPT ![h] = v][s] = m.slots[s]
    BY <2>1, <2>2
  <2>5. /\ n \in States /\ n.stack = st /\ n.failed = FALSE /\ n.slots = [m.slots EXCEPT ![h] = v]
        /\ n.free = Tail(m.free) /\ n.element = m.element /\ n.got = h
    <3>1. h \in Nat
      BY <1>1, <2>2
    <3>2. n = [o EXCEPT !.got = h, !.free = Tail(m.free), !.slots = [m.slots EXCEPT ![h] = v]]
      BY <1>2, <1>3, <1>5, <2>2 DEF States
    <3> QED
      BY <1>2, <2>2, <2>4, <3>1, <3>2 DEF States
  <2>6. h \notin U /\ h # 0
    BY <1>1, <2>1, <2>2 DEF Registry, h, F
  <2>7. Registry(n, U \cup {h})
    <3>1. /\ Len(n.free) = F - 1 /\ Len(n.slots) = L
          /\ \A i \in 1 .. F - 1 : n.free[i] = m.free[i + 1] /\ i + 1 \in 1 .. F /\ i + 1 # 1
      BY <2>1, <2>2, <2>4, <2>5
    <3>2. \A i \in 1 .. F - 1 : n.free[i] \in 1 .. L
      BY <1>1, <3>1 DEF Registry, F
    <3>3. ASSUME NEW i \in 1 .. F - 1, NEW j \in 1 .. F - 1, n.free[i] = n.free[j] PROVE i = j
      <4>1. i + 1 = j + 1
        BY <1>1, <3>1, <3>3 DEF Registry, F
      <4> QED
        BY <2>1, <4>1
    <3>4. ASSUME NEW s \in 1 .. L
          PROVE  (\A i \in 1 .. F - 1 : n.free[i] # s) <=> (s \in U \/ s = h)
      <4>1. s \in U <=> \A i \in 1 .. F : m.free[i] # s
        BY <1>1 DEF Registry, F
      <4>2. s = h \/ s \in U => \A i \in 1 .. F - 1 : n.free[i] # s
        BY <2>3, <3>1, <4>1
      <4>3. \A i \in 1 .. F : i = 1 \/ (i - 1 \in 1 .. F - 1 /\ n.free[i - 1] = m.free[i])
        BY <2>1, <3>1
      <4>4. s # h /\ (\A i \in 1 .. F - 1 : n.free[i] # s) => \A i \in 1 .. F : m.free[i] # s
        BY <4>3 DEF h
      <4> QED
        BY <4>1, <4>2, <4>4
    <3>5. U \cup {h} \subseteq 1 .. L
      BY <1>1, <2>2 DEF Registry
    <3>6. U \cup {h} = {s \in 1 .. L : \A i \in 1 .. F - 1 : n.free[i] # s}
      BY <3>4, <3>5
    <3> QED
      BY <3>1, <3>2, <3>3, <3>6 DEF Registry
  <2>8. Slots(U \cup {n.got}) = U \cup {h}
    BY <1>1, <2>5, <2>6 DEF Slots
  <2>9. LuaAt(n, U \cup {h}, st)
    BY <2>5, <2>7 DEF LuaAt
  <2>10. \A s \in U \cup {0} : InSlot(n, s) = InSlot(m, s)
    BY <1>1, <2>4, <2>5, <2>6 DEF InSlot, Registry
  <2>11. InSlot(n, n.got) = v /\ n.got \in Nat /\ n.got # 0 /\ n.got \notin U
    BY <1>1, <2>2, <2>4, <2>5, <2>6 DEF InSlot
  <2> QED
    BY <1>1, <1>5, <2>5, <2>8, <2>9, <2>10, <2>11 DEF KeepsSlots, n
<1>6. CASE v # Reference!Nil /\ m.free = <<>>
  <2> DEFINE h == L + 1
  <2>1. m.slots \in Seq(R) /\ h \in Nat \ {0} /\ h \notin 1 .. L /\ 1 .. h = (1 .. L) \cup {h}
    BY <1>1 DEF States
  <2>2. /\ Append(m.slots, v) \in Seq(R) /\ Len(Append(m.slots, v)) = h
        /\ Append(m.slots, v)[h] = v
        /\ \A s \in 1 .. L : Append(m.slots, v)[s] = m.slots[s]
    BY <2>1, Stacked
  <2>3. /\ n \in States /\ n.stack = st /\ n.failed = FALSE /\ n.slots = Append(m.slots, v)
        /\ n.free = <<>> /\ n.element = m.element /\ n.got = h
    <3>1. n = [o EXCEPT !.got = h, !.slots = Append(m.slots, v)]
      BY <1>2, <1>3, <1>6 DEF States
    <3> HIDE DEF h
    <3> QED
      BY <1>2, <1>6, <2>1, <2>2, <3>1 DEF States
  <2> HIDE DEF h
  <2>4. U = 1 .. L
    BY <1>1, <1>6 DEF Registry
  <2>5. Registry(n, U \cup {h})
    BY <2>1, <2>2, <2>3, <2>4 DEF Registry
  <2>6. Slots(U \cup {n.got}) = U \cup {h}
    BY <1>1, <2>1, <2>3 DEF Slots
  <2>7. LuaAt(n, U \cup {h}, st)
    BY <2>3, <2>5 DEF LuaAt
  <2>8. \A s \in U \cup {0} : InSlot(n, s) = InSlot(m, s)
    BY <1>1, <2>2, <2>3, <2>4 DEF InSlot
  <2>9. InSlot(n, n.got) = v /\ n.got \in Nat /\ n.got # 0 /\ n.got \notin U
    BY <1>1, <2>1, <2>2, <2>3, <2>4 DEF InSlot
  <2> QED
    BY <1>1, <1>6, <2>3, <2>6, <2>7, <2>8, <2>9 DEF KeepsSlots, n
<1> QED
  BY <1>4, <1>5, <1>6

(* luaL_unref() makes the slot free, and leaves the others.                *)
LEMMA GivesBack ==
    ASSUME NEW m, NEW U, NEW st, LuaAt(m, U, st), NEW s \in U \cup {Reference!REFNIL}
    PROVE  LET n == Reference!LuaL_unref(m, s)
           IN  LuaAt(n, U \ {s}, st) /\ KeepsSlots(m, n, U \ {s}) /\ n.got = m.got
<1> DEFINE n == Reference!LuaL_unref(m, s)
           L == Len(m.slots)
           F == Len(m.free)
<1>1. /\ m \in States /\ Registry(m, U) /\ m.stack = st /\ m.failed = FALSE
      /\ Reference!REFNIL = 0 /\ Reference!REFNIL \notin U /\ L \in Nat
  BY Holds, LuaTypes DEF LuaAt
<1>2. CASE s = Reference!REFNIL
  <2>1. n = m /\ U \ {s} = U
    BY <1>1, <1>2 DEF Reference!LuaL_unref
  <2> QED
    BY <2>1 DEF KeepsSlots
<1>3. CASE s # Reference!REFNIL
  <2>1. /\ s \in U /\ s \in 1 .. L /\ \A i \in 1 .. F : m.free[i] # s
    BY <1>1, <1>3 DEF Registry
  <2>2. m.free \in Seq(Nat) /\ F \in Nat /\ m.slots \in Seq(R) /\ s \in Nat
    BY <1>1, <2>1 DEF States
  <2> DEFINE f == <<s>> \o m.free
             x == [m.slots EXCEPT ![s] = Reference!Number]
  <2>3. /\ f \in Seq(Nat) /\ Len(f) = F + 1 /\ f[1] = s /\ \A i \in 1 .. F : f[i + 1] = m.free[i]
    BY <2>2
  <2>4. /\ x \in Seq(R) /\ Len(x) = L /\ \A i \in 1 .. L : i # s => x[i] = m.slots[i]
    BY <1>1, <2>1, <2>2, LuaTypes
  <2>5. /\ n \in States /\ n.stack = st /\ n.failed = FALSE /\ n.slots = x /\ n.free = f
        /\ n.element = m.element /\ n.got = m.got
    <3>1. n = [m EXCEPT !.free = f, !.slots = x]
      BY <1>1, <1>3 DEF Reference!LuaL_unref, States
    <3> HIDE DEF f, x
    <3> QED
      BY <1>1, <2>3, <2>4, <3>1 DEF States
  <2> HIDE DEF f, x, n
  <2>6. \A i \in 1 .. F + 1 : i = 1 \/ (i - 1 \in 1 .. F /\ i = (i - 1) + 1 /\ f[i] = m.free[i - 1])
    BY <2>2, <2>3
  <2>7. Registry(n, U \ {s})
    <3>1. /\ \A i \in 1 .. F : m.free[i] \in 1 .. L
          /\ \A i, j \in 1 .. F : m.free[i] = m.free[j] => i = j
      BY <1>1 DEF Registry
    <3> HIDE DEF F, L
    <3>2. \A i \in 1 .. F + 1 : f[i] \in 1 .. L
      BY <2>1, <2>3, <2>6, <3>1
    <3>3. ASSUME NEW i \in 1 .. F + 1, NEW j \in 1 .. F + 1, f[i] = f[j] PROVE i = j
      <4>1. CASE i = 1 \/ j = 1
        BY <2>1, <2>3, <2>6, <3>3, <4>1
      <4>2. CASE i # 1 /\ j # 1
        <5>1. i - 1 = j - 1
          BY <2>6, <3>1, <3>3, <4>2
        <5> QED
          BY <2>2, <5>1
      <4> QED
        BY <4>1, <4>2
    <3>4. ASSUME NEW y \in 1 .. L
          PROVE  y \in U \ {s} <=> \A i \in 1 .. F + 1 : f[i] # y
      <4>1. y \in U <=> \A i \in 1 .. F : m.free[i] # y
        BY <1>1 DEF Registry, F, L
      <4>2. (\A i \in 1 .. F + 1 : f[i] # y) <=> y # s /\ \A i \in 1 .. F : m.free[i] # y
        <5>1. ASSUME \A i \in 1 .. F + 1 : f[i] # y
              PROVE  y # s /\ \A i \in 1 .. F : m.free[i] # y
          <6>1. 1 \in 1 .. F + 1 /\ \A i \in 1 .. F : i + 1 \in 1 .. F + 1 /\ (i + 1) - 1 = i
            BY <2>2
          <6>2. y # s
            BY <2>3, <2>6, <5>1, <6>1
          <6>3. ASSUME NEW i \in 1 .. F PROVE m.free[i] # y
            <7>1. f[i + 1] = m.free[i]
              BY <2>3, <2>6, <6>1
            <7> QED
              BY <5>1, <6>1, <7>1
          <6> QED
            BY <6>2, <6>3
        <5>2. ASSUME y # s, \A i \in 1 .. F : m.free[i] # y
              PROVE  \A i \in 1 .. F + 1 : f[i] # y
          BY <2>3, <2>6, <5>2
        <5> QED
          BY <5>1, <5>2
      <4> QED
        BY <4>1, <4>2
    <3>5. U \ {s} = {y \in 1 .. L : \A i \in 1 .. F + 1 : f[i] # y}
      BY <1>1, <3>4 DEF Registry, L
    <3> QED
      BY <2>3, <2>4, <2>5, <3>2, <3>3, <3>5 DEF Registry
  <2>8. LuaAt(n, U \ {s}, st)
    BY <2>5, <2>7 DEF LuaAt
  <2>9. KeepsSlots(m, n, U \ {s})
    <3>1. \A y \in U \ {s} : y \in 1 .. L /\ y # s
      BY <1>1 DEF Registry
    <3> QED
      BY <2>4, <2>5, <3>1 DEF KeepsSlots, InSlot
  <2> QED
    BY <2>5, <2>8, <2>9 DEF n
<1> QED
  BY <1>2, <1>3

LEMMA StackIs ==
    ASSUME NEW m, NEW U, NEW st, LuaAt(m, U, st)
    PROVE  st \in Seq(R)
  BY DEF LuaAt, States

LEMMA MakesProxy ==
    ASSUME NEW m, NEW U, NEW st, LuaAt(m, U, st)
    PROVE  LET n == Reference!MakeProxy(m)
           IN  /\ LuaAt(n, U \cup {n.got}, st) /\ KeepsSlots(m, n, U)
               /\ n.got \in Nat /\ n.got \notin U \cup {Reference!REFNIL}
<1> DEFINE o == Reference!PushValue(m, Reference!Key)
           n == Reference!LuaL_ref(o)
<1>1. LuaAt(o, U, Append(st, Reference!Key)) /\ KeepsSlots(m, o, U)
  BY LuaTypes, Pushes
<1> HIDE DEF o
<1>2. /\ LuaAt(n, Slots(U \cup {n.got}), st) /\ KeepsSlots(o, n, U)
      /\ n.got \in Nat /\ n.got \notin U /\ n.got # Reference!REFNIL
  BY <1>1, LuaTypes, StackIs, Takes
<1>3. n = Reference!MakeProxy(m)
  BY DEF Reference!MakeProxy, o
<1> HIDE DEF n
<1>4. Slots(U \cup {n.got}) = U \cup {n.got}
  BY <1>2, Holds DEF Slots
<1>5. KeepsSlots(m, n, U)
  BY <1>1, <1>2, KeepsTwice
<1> QED
  BY <1>2, <1>3, <1>4, <1>5

LEMMA GetsFromTable ==
    ASSUME NEW m, NEW U, NEW st \in Seq(R), NEW t \in Reference!Tables, NEW k \in R,
           LuaAt(m, U, Append(Append(st, t), k))
    PROVE  LET n == Reference!GetTable(m)
           IN  /\ LuaAt(n, U, Append(Append(st, t), m.element[t]))
               /\ KeepsSlots(m, n, U) /\ n.got = m.got /\ m.element[t] \in R
<1> DEFINE o == Reference!Pop(m, 1)
           v == m.element[t]
<1>1. t \in R /\ m.stack = Append(Append(st, t), k) /\ v \in R
  BY LuaTypes DEF LuaAt, States
<1>2. m.stack[Len(m.stack) - 1] = t /\ Append(st, t) \in Seq(R)
  BY <1>1, StackedTwice, Stacked
<1>3. LuaAt(o, U, Append(st, t)) /\ KeepsSlots(m, o, U) /\ o.got = m.got
  BY <1>2, PopsOne
<1>4. Reference!GetTable(m) = Reference!PushValue(o, v)
  BY <1>2 DEF Reference!GetTable
<1> HIDE DEF o, v
<1> DEFINE n == Reference!PushValue(o, v)
<1>5. LuaAt(n, U, Append(Append(st, t), v)) /\ KeepsSlots(o, n, U) /\ n.got = o.got
  BY <1>1, <1>3, Pushes
<1> HIDE DEF n
<1>6. KeepsSlots(m, n, U)
  BY <1>3, <1>5, KeepsTwice
<1> QED
  BY <1>1, <1>3, <1>4, <1>5, <1>6 DEF n, v

(* Proxy::push() leaves the element, and no table below it.                *)
LEMMA PushesProxy ==
    ASSUME NEW m, NEW U, NEW st, LuaAt(m, U, st), NEW s \in U \cup {Reference!REFNIL},
           NEW k \in U \cup {Reference!REFNIL}, InSlot(m, s) \in Reference!Tables
    PROVE  LET n == Reference!PushProxy(m, s, k)
               v == m.element[InSlot(m, s)]
           IN  /\ LuaAt(n, U, Append(st, v)) /\ KeepsSlots(m, n, U) /\ n.got = m.got
               /\ v \in R
<1> DEFINE t == InSlot(m, s)
           v == m.element[t]
           o == Reference!PushSlot(m, s)
           x == Reference!PushSlot(o, k)
           g == Reference!GetTable(x)
<1>1. st \in Seq(R) /\ t \in R /\ t \in Reference!Tables
  BY LuaTypes, StackIs
<1>2. LuaAt(o, U, Append(st, t)) /\ KeepsSlots(m, o, U) /\ o.got = m.got
  BY PushesSlot
<1> HIDE DEF t, o
<1>3. /\ LuaAt(x, U, Append(Append(st, t), InSlot(o, k))) /\ KeepsSlots(o, x, U) /\ x.got = o.got
      /\ InSlot(o, k) \in R
  BY <1>2, PushesSlot, Holds
<1> HIDE DEF x
<1>4. /\ LuaAt(g, U, Append(Append(st, t), x.element[t])) /\ KeepsSlots(x, g, U) /\ g.got = x.got
      /\ x.element[t] \in R
  BY <1>1, <1>3, GetsFromTable
<1>5. x.element[t] = v
  BY <1>2, <1>3 DEF KeepsSlots
<1>6. LuaAt(g, U, Append(Append(st, t), v)) /\ v \in R
  BY <1>4, <1>5
<1> HIDE DEF g, v
<1> DEFINE n == Reference!RemoveBelow(g)
<1>7. /\ g \in States /\ Registry(g, U) /\ g.failed = FALSE
      /\ g.stack = Append(Append(st, t), v)
  BY <1>6 DEF LuaAt
<1>8. Reference!RemoveAt(g.stack, Len(g.stack) - 1) = Append(st, v) /\ Append(st, v) \in Seq(R)
  BY <1>1, <1>6, <1>7, StackedTwice, Stacked
<1>9. /\ n \in States /\ n.stack = Append(st, v) /\ n.slots = g.slots /\ n.free = g.free
      /\ n.element = g.element /\ n.failed = g.failed /\ n.got = g.got
  BY <1>7, <1>8 DEF States, Reference!RemoveBelow
<1> HIDE DEF n
<1>10. LuaAt(n, U, Append(st, v)) /\ KeepsSlots(g, n, U)
  BY <1>7, <1>9 DEF LuaAt, Registry, KeepsSlots, InSlot
<1>11. KeepsSlots(m, n, U)
  BY <1>2, <1>3, <1>4, <1>10, KeepsTwice
<1>12. n = Reference!PushProxy(m, s, k)
  BY <1>7 DEF Reference!PushProxy, n, g, x, o
<1> QED
  BY <1>2, <1>3, <1>4, <1>6, <1>9, <1>10, <1>11, <1>12 DEF v, t

LEMMA SetsInTable ==
    ASSUME NEW m, NEW U, NEW st \in Seq(R), NEW t \in Reference!Tables, NEW k \in R, NEW v \in R,
           LuaAt(m, U, Append(Append(Append(st, t), k), v))
    PROVE  LET n == Reference!SetTable(m)
           IN  /\ LuaAt(n, U, Append(st, t))
               /\ \A s \in U \cup {Reference!REFNIL} : InSlot(n, s) = InSlot(m, s)
<1> DEFINE o == Reference!Pop(m, 2)
           u == Append(st, t)
<1>1. /\ t \in R /\ m.stack = Append(Append(u, k), v) /\ u \in Seq(R)
      /\ u[Len(u)] = t /\ Len(u) \in Nat \ {0}
  BY LuaTypes, Stacked DEF LuaAt
<1> HIDE DEF u
<1>2. /\ LuaAt(o, U, u) /\ KeepsSlots(m, o, U)
  BY <1>1, PopsTwo DEF u
<1>3. Reference!Top(m) = v /\ m.stack[Len(m.stack) - 2] = t
  <2> DEFINE w == Append(u, k)
  <2>1. /\ w \in Seq(R) /\ Len(w) = Len(u) + 1 /\ \A i \in 1 .. Len(u) : w[i] = u[i]
    BY <1>1, Stacked
  <2> HIDE DEF w
  <2>2. /\ Len(Append(w, v)) = Len(w) + 1 /\ \A i \in 1 .. Len(w) : Append(w, v)[i] = w[i]
        /\ Reference!Last(Append(w, v)) = v
    BY <2>1, Stacked
  <2>3. m.stack = Append(w, v)
    BY <1>1 DEF w
  <2>4. /\ Len(m.stack) - 2 = Len(u) /\ Len(u) \in 1 .. Len(w) /\ Len(u) \in 1 .. Len(u)
    BY <1>1, <2>1, <2>2, <2>3
  <2> QED
    BY <1>1, <2>1, <2>2, <2>3, <2>4 DEF Reference!Top
<1> DEFINE n == [o EXCEPT !.element[t] = v]
<1>4. Reference!SetTable(m) = n
  BY <1>3, Zenon DEF Reference!SetTable
<1> HIDE DEF o
<1>5. /\ n \in States /\ n.stack = u /\ n.slots = o.slots /\ n.free = o.free /\ n.failed = FALSE
  BY <1>2 DEF States, LuaAt
<1> HIDE DEF n
<1>6. LuaAt(n, U, u) /\ \A s \in U \cup {Reference!REFNIL} : InSlot(n, s) = InSlot(o, s)
  BY <1>2, <1>5 DEF LuaAt, Registry, InSlot
<1> QED
  BY <1>2, <1>4, <1>6 DEF KeepsSlots, u

-----------------------------------------------------------------------------
(* What an expression leaves when it ends.                                 *)

M0 == Reference!Lua

LEMMA LuaIs ==
    /\ M0.slots = slots /\ M0.free = free /\ M0.stack = stack /\ M0.element = element
    /\ M0.failed = failed /\ M0.got = 0
    /\ M0'.slots = slots' /\ M0'.free = free' /\ M0'.stack = stack' /\ M0'.element = element'
    /\ M0'.failed = failed' /\ M0'.got = 0
    /\ \A s : InSlot(M0, s) = IF s = 0 THEN Reference!Nil ELSE slots[s]
    /\ \A s : InSlot(M0, s)' = IF s = 0 THEN Reference!Nil ELSE slots'[s]
  BY LuaTypes DEF M0, Reference!Lua, InSlot

LEMMA StateAfter ==
    ASSUME NEW m, NEW U, LuaAt(m, U, Reference!Callers), Reference!Becomes(m)
    PROVE  /\ M0' \in States /\ Registry(M0', U) /\ stack' = Reference!Callers /\ failed' = FALSE
           /\ \A s : InSlot(M0, s)' = InSlot(m, s)
<1>1. /\ m \in States /\ Registry(m, U) /\ m.stack = Reference!Callers /\ m.failed = FALSE
  BY DEF LuaAt
<1>2. /\ slots' = m.slots /\ free' = m.free /\ stack' = m.stack /\ element' = m.element
      /\ failed' = m.failed
  BY DEF Reference!Becomes
<1>3. M0' = [slots |-> slots', free |-> free', stack |-> stack', element |-> element',
             failed |-> failed', got |-> 0]
  BY LuaTypes DEF M0, Reference!Lua
<1>4. M0' \in States
  BY <1>1, <1>2, <1>3 DEF States
<1>5. Registry(M0', U)
  BY <1>1, <1>2, LuaIs DEF Registry
<1>6. \A s : InSlot(M0, s)' = InSlot(m, s)
  BY <1>2, LuaIs, LuaTypes DEF InSlot
<1> QED
  BY <1>1, <1>2, <1>4, <1>5, <1>6

(* The invariant after an expression, from its parts.                      *)
LEMMA InvAfter ==
    ASSUME NEW m, NEW U, LuaAt(m, U, Reference!Callers), Reference!Becomes(m), U = InUse',
           tables' \in Reference!Tables, is' \in [Refs -> R],
           ref' \in [Refs -> Nat \cup {Reference!NoRef}],
           \A r \in Refs : ref'[r] # Reference!NoRef => is'[r] = InSlot(m, ref'[r]),
           \A r, q \in Refs : ref'[r] = ref'[q] /\ ref'[r] \in InUse' => r = q
    PROVE  RefInv'
<1>1. /\ M0' \in States /\ Registry(M0', U) /\ stack' = Reference!Callers /\ failed' = FALSE
      /\ \A s : InSlot(M0, s)' = InSlot(m, s)
  BY StateAfter
<1>2. Reference!Callers' = Reference!Callers
  BY DEF Reference!Callers, Reference!Number
<1>3. LuaAt(M0', InUse', Reference!Callers)
  BY <1>1, LuaIs DEF LuaAt
<1>4. LuaAt(M0, InUse, Reference!Callers)'
  BY <1>2, <1>3 DEF LuaAt, States, R, Registry, Reference!Tables, Reference!Values,
        Reference!Scalars, Reference!Nil, Reference!Number, Reference!Function
<1>5. \A r \in Refs : ref'[r] # Reference!NoRef => is'[r] = InSlot(M0, ref[r])'
  <2>1. \A r : InSlot(M0, ref[r])' = InSlot(M0', ref'[r])
    BY DEF InSlot
  <2>2. \A s : InSlot(M0, s)' = InSlot(M0', s)
    BY DEF InSlot
  <2> QED
    BY <1>1, <2>1, <2>2
<1> QED
  BY <1>4, <1>5
     DEF RefInv, M0, R, Reference!Tables, Reference!Values,
         Reference!Scalars, Reference!Nil, Reference!Number, Reference!Function,
         Reference!NoRef

LEMMA InvSays ==
    ASSUME RefInv, slip = "none"
    PROVE  /\ LuaAt(M0, InUse, Reference!Callers) /\ Reference!Callers \in Seq(R)
           /\ tables \in Reference!Tables /\ is \in [Refs -> R]
           /\ ref \in [Refs -> Nat \cup {Reference!NoRef}]
           /\ \A r \in Refs : ref[r] # Reference!NoRef =>
                 is[r] = InSlot(M0, ref[r]) /\ ref[r] \in InUse \cup {Reference!REFNIL}
           /\ \A r, q \in Refs : ref[r] = ref[q] /\ ref[r] \in InUse => r = q
           /\ Reference!REFNIL \notin InUse /\ Reference!NoRef \notin InUse
<1>1. LuaAt(M0, InUse, Reference!Callers)
  BY DEF RefInv, M0
<1>2. Reference!Callers \in Seq(R)
  BY <1>1, StackIs
<1>3. \A r \in Refs : ref[r] # Reference!NoRef => ref[r] \in InUse \cup {Reference!REFNIL}
  BY DEF InUse
<1>4. Reference!REFNIL \notin InUse /\ Reference!NoRef \notin InUse
  BY DEF InUse
<1> QED
  BY <1>1, <1>2, <1>3, <1>4 DEF RefInv, M0

(* A variable gets a reference: its former slot is no longer in use, and   *)
(* what the others hold is kept.                                           *)
LEMMA Given ==
    ASSUME RefInv, slip = "none", NEW r \in Refs, NEW m, NEW v \in R,
           LuaAt(m, Slots((InUse \ {ref[r]}) \cup {m.got}), Reference!Callers),
           \A s \in (InUse \ {ref[r]}) \cup {Reference!REFNIL} : InSlot(m, s) = InSlot(M0, s),
           m.got \in Nat, m.got \notin InUse \ {ref[r]}, InSlot(m, m.got) = v,
           Reference!Gives(r, m, v), tables' \in Reference!Tables
    PROVE  RefInv'
<1> DEFINE g == m.got
           V == InUse \ {ref[r]}
<1>1. /\ Reference!Becomes(m) /\ ref' = [ref EXCEPT ![r] = g] /\ is' = [is EXCEPT ![r] = v]
  BY DEF Reference!Gives
<1>2. /\ is \in [Refs -> R] /\ ref \in [Refs -> Nat \cup {Reference!NoRef}]
      /\ \A q \in Refs : ref[q] # Reference!NoRef =>
            is[q] = InSlot(M0, ref[q]) /\ ref[q] \in InUse \cup {Reference!REFNIL}
      /\ \A p, q \in Refs : ref[p] = ref[q] /\ ref[p] \in InUse => p = q
      /\ Reference!REFNIL \notin InUse /\ Reference!NoRef \notin InUse
  BY InvSays
<1>3. g \in Nat /\ g \notin V /\ g # Reference!NoRef /\ InSlot(m, g) = v
  BY LuaTypes
<1> HIDE DEF g
<1>4. /\ ref' \in [Refs -> Nat \cup {Reference!NoRef}] /\ is' \in [Refs -> R]
      /\ ref'[r] = g /\ is'[r] = v
      /\ \A q \in Refs : q # r => ref'[q] = ref[q] /\ is'[q] = is[q]
  BY <1>1, <1>2, <1>3
<1>5. \A q \in Refs : q # r /\ ref[q] # Reference!NoRef => ref[q] \in V \cup {Reference!REFNIL}
  BY <1>2
<1>6. InUse' = Slots(V \cup {g})
  <2>1. InUse' = {ref'[q] : q \in Refs} \ {Reference!REFNIL, Reference!NoRef}
    BY DEF InUse, Reference!REFNIL, Reference!NoRef
  <2>2. ASSUME NEW x \in InUse' PROVE x \in Slots(V \cup {g})
    <3>1. PICK q \in Refs : x = ref'[q]
      BY <2>1, <2>2
    <3>2. x # Reference!REFNIL /\ x # Reference!NoRef
      BY <2>1, <2>2
    <3> QED
      BY <1>4, <1>5, <3>1, <3>2 DEF Slots
  <2>3. ASSUME NEW x \in Slots(V \cup {g}) PROVE x \in InUse'
    <3>1. x # Reference!REFNIL /\ (x \in V \/ x = g)
      BY <2>3 DEF Slots
    <3>2. CASE x = g
      BY <1>3, <1>4, <2>1, <3>1, <3>2
    <3>3. CASE x \in V
      <4>1. PICK q \in Refs : x = ref[q]
        BY <3>3 DEF InUse
      <4>2. q # r /\ x # Reference!NoRef
        BY <1>2, <3>3, <4>1
      <4> QED
        BY <1>4, <2>1, <3>1, <4>1, <4>2
    <3> QED
      BY <3>1, <3>2, <3>3
  <2> QED
    BY <2>2, <2>3
<1>7. ASSUME NEW q \in Refs, ref'[q] # Reference!NoRef PROVE is'[q] = InSlot(m, ref'[q])
  <2>1. CASE q = r
    BY <1>3, <1>4, <2>1
  <2>2. CASE q # r
    BY <1>2, <1>4, <1>5, <1>7, <2>2
  <2> QED
    BY <2>1, <2>2
<1>8. ASSUME NEW p \in Refs, NEW q \in Refs, ref'[p] = ref'[q], ref'[p] \in InUse'
      PROVE  p = q
  <2>1. ref'[p] # Reference!REFNIL /\ ref'[p] # Reference!NoRef
    BY <1>8 DEF InUse, Reference!REFNIL, Reference!NoRef
  <2>2. \A y \in Refs : y # r /\ ref'[y] = ref'[p] => ref'[y] = ref[y] /\ ref[y] \in V
    BY <1>4, <1>5, <2>1
  <2> QED
    BY <1>2, <1>3, <1>4, <1>8, <2>2
<1>9. LuaAt(m, InUse', Reference!Callers)
  BY <1>6 DEF g
<1> QED
  BY ONLY <1>1, <1>4, <1>7, <1>8, <1>9, tables' \in Reference!Tables, InvAfter

(* An expression that gives nothing to a variable.                         *)
LEMMA Left ==
    ASSUME RefInv, slip = "none", NEW m, LuaAt(m, InUse, Reference!Callers),
           \A s \in InUse \cup {Reference!REFNIL} : InSlot(m, s) = InSlot(M0, s),
           Reference!Becomes(m), UNCHANGED <<tables, ref, is>>
    PROVE  RefInv'
<1>1. /\ is \in [Refs -> R] /\ ref \in [Refs -> Nat \cup {Reference!NoRef}]
      /\ tables \in Reference!Tables
      /\ \A q \in Refs : ref[q] # Reference!NoRef =>
            is[q] = InSlot(M0, ref[q]) /\ ref[q] \in InUse \cup {Reference!REFNIL}
      /\ \A p, q \in Refs : ref[p] = ref[q] /\ ref[p] \in InUse => p = q
  BY InvSays
<1>2. InUse' = InUse
  BY DEF InUse, Reference!REFNIL, Reference!NoRef
<1>3. LuaAt(m, InUse', Reference!Callers)
  BY <1>2
<1>4. \A q \in Refs : ref'[q] # Reference!NoRef => is'[q] = InSlot(m, ref'[q])
  BY <1>1
<1>5. \A p, q \in Refs : ref'[p] = ref'[q] /\ ref'[p] \in InUse' => p = q
  BY <1>1, <1>2
<1>6. tables' \in Reference!Tables /\ is' \in [Refs -> R] /\ ref' \in [Refs -> Nat \cup {Reference!NoRef}]
  BY <1>1
<1> QED
  BY ONLY <1>3, <1>4, <1>5, <1>6, Reference!Becomes(m), InvAfter

-----------------------------------------------------------------------------
(* Values on their way to a slot, and the end of a proxy.                  *)

LEMMA TakesPushed ==
    ASSUME NEW m, NEW U, NEW st, LuaAt(m, U, st), NEW v \in R
    PROVE  LET n == Reference!LuaL_ref(Reference!PushValue(m, v))
           IN  /\ LuaAt(n, Slots(U \cup {n.got}), st) /\ KeepsSlots(m, n, U)
               /\ n.got \in Nat /\ n.got \notin U /\ InSlot(n, n.got) = v
<1> DEFINE o == Reference!PushValue(m, v)
           n == Reference!LuaL_ref(o)
<1>1. LuaAt(o, U, Append(st, v)) /\ KeepsSlots(m, o, U)
  BY Pushes
<1> HIDE DEF o
<1>2. /\ LuaAt(n, Slots(U \cup {n.got}), st) /\ KeepsSlots(o, n, U)
      /\ n.got \in Nat /\ n.got \notin U /\ InSlot(n, n.got) = v
  BY <1>1, StackIs, Takes
<1> HIDE DEF n
<1>3. KeepsSlots(m, n, U)
  BY <1>1, <1>2, KeepsTwice
<1> QED
  BY <1>2, <1>3 DEF n, o

LEMMA TakesSlot ==
    ASSUME NEW m, NEW U, NEW st, LuaAt(m, U, st), NEW s \in U \cup {Reference!REFNIL}
    PROVE  LET n == Reference!LuaL_ref(Reference!PushSlot(m, s))
           IN  /\ LuaAt(n, Slots(U \cup {n.got}), st) /\ KeepsSlots(m, n, U)
               /\ n.got \in Nat /\ n.got \notin U /\ InSlot(n, n.got) = InSlot(m, s)
<1>1. InSlot(m, s) \in R
  BY Holds
<1>2. Reference!PushSlot(m, s) = Reference!PushValue(m, InSlot(m, s))
  BY DEF Reference!PushSlot, InSlot
<1> QED
  BY <1>1, <1>2, TakesPushed

LEMMA TakesElement ==
    ASSUME NEW m, NEW U, NEW st, LuaAt(m, U, st), NEW s \in U \cup {Reference!REFNIL},
           NEW k \in U \cup {Reference!REFNIL}, InSlot(m, s) \in Reference!Tables
    PROVE  LET n == Reference!LuaL_ref(Reference!PushProxy(m, s, k))
           IN  /\ LuaAt(n, Slots(U \cup {n.got}), st) /\ KeepsSlots(m, n, U)
               /\ n.got \in Nat /\ n.got \notin U /\ InSlot(n, n.got) = m.element[InSlot(m, s)]
<1> DEFINE o == Reference!PushProxy(m, s, k)
           n == Reference!LuaL_ref(o)
           v == m.element[InSlot(m, s)]
<1>1. LuaAt(o, U, Append(st, v)) /\ KeepsSlots(m, o, U) /\ v \in R
  BY PushesProxy
<1> HIDE DEF o, v
<1>2. /\ LuaAt(n, Slots(U \cup {n.got}), st) /\ KeepsSlots(o, n, U)
      /\ n.got \in Nat /\ n.got \notin U /\ InSlot(n, n.got) = v
  BY <1>1, StackIs, Takes
<1> HIDE DEF n
<1>3. KeepsSlots(m, n, U)
  BY <1>1, <1>2, KeepsTwice
<1> QED
  BY <1>2, <1>3 DEF n, o, v

(* A proxy of slot k ends, after the value in slot g was taken.            *)
LEMMA EndsProxy ==
    ASSUME NEW m, NEW V, NEW k, LuaAt(m, Slots((V \cup {k}) \cup {m.got}), Reference!Callers),
           k \notin V \cup {Reference!REFNIL}, m.got \notin V \cup {k}, Reference!REFNIL \notin V,
           m.got \in Nat
    PROVE  LET n == [Reference!EndProxy(m, k) EXCEPT !.got = m.got]
           IN  /\ LuaAt(n, Slots(V \cup {n.got}), Reference!Callers)
               /\ n.got = m.got
               /\ \A s \in V \cup {Reference!REFNIL, m.got} : InSlot(n, s) = InSlot(m, s)
<1> DEFINE U == Slots((V \cup {k}) \cup {m.got})
           o == Reference!LuaL_unref(m, k)
           n == [o EXCEPT !.got = m.got]
<1>1. k \in U \cup {Reference!REFNIL} /\ U \ {k} = Slots(V \cup {m.got})
  BY DEF Slots
<1>2. LuaAt(o, U \ {k}, Reference!Callers) /\ KeepsSlots(m, o, U \ {k})
  <2>1. LuaAt(m, U, Reference!Callers)
    OBVIOUS
  <2> HIDE DEF U
  <2> QED
    BY <1>1, <2>1, GivesBack
<1> HIDE DEF o, U
<1>3. /\ n \in States /\ n.slots = o.slots /\ n.free = o.free /\ n.stack = o.stack
      /\ n.failed = o.failed /\ n.got = m.got
  BY <1>2 DEF LuaAt, States
<1>4. n = [Reference!EndProxy(m, k) EXCEPT !.got = m.got]
  BY DEF Reference!EndProxy, o
<1> HIDE DEF n
<1>5. LuaAt(n, U \ {k}, Reference!Callers)
  BY <1>2, <1>3 DEF LuaAt, Registry
<1>6. \A s \in V \cup {Reference!REFNIL, m.got} : s \in (U \ {k}) \cup {Reference!REFNIL}
  BY <1>1 DEF Slots
<1>7. \A s \in V \cup {Reference!REFNIL, m.got} : InSlot(n, s) = InSlot(m, s)
  BY <1>2, <1>3, <1>6 DEF KeepsSlots, InSlot
<1> QED
  BY <1>1, <1>3, <1>4, <1>5, <1>7

-----------------------------------------------------------------------------
(* Every expression keeps the invariant.                                   *)

LEMMA StepMakeOf ==
    ASSUME RefInv, slip = "none", NEW r \in Refs, ref[r] = Reference!NoRef, NEW v \in R,
           Reference!Gives(r, Reference!LuaL_ref(Reference!PushValue(M0, v)), v),
           tables' \in Reference!Tables
    PROVE  RefInv'
<1> DEFINE m == Reference!LuaL_ref(Reference!PushValue(M0, v))
<1>1. LuaAt(M0, InUse, Reference!Callers) /\ InUse \ {ref[r]} = InUse
  BY InvSays
<1>2. /\ LuaAt(m, Slots(InUse \cup {m.got}), Reference!Callers) /\ KeepsSlots(M0, m, InUse)
      /\ m.got \in Nat /\ m.got \notin InUse /\ InSlot(m, m.got) = v
  BY <1>1, TakesPushed
<1>3. Reference!Gives(r, m, v)
  OBVIOUS
<1> HIDE DEF m
<1>4. \A s \in InUse \cup {Reference!REFNIL} : InSlot(m, s) = InSlot(M0, s)
  BY <1>2 DEF KeepsSlots
<1> QED
  BY <1>1, <1>2, <1>3, <1>4, Given

LEMMA StepMakeCopy ==
    ASSUME RefInv, slip = "none", NEW r \in Refs, NEW q \in Refs, Reference!MakeCopy(r, q)
    PROVE  RefInv'
<1> DEFINE v == is[q]
           m == Reference!LuaL_ref(Reference!PushSlot(M0, ref[q]))
<1>1. /\ ref[r] = Reference!NoRef /\ ref[q] # Reference!NoRef
      /\ Reference!Gives(r, m, v) /\ tables' = tables
  BY DEF Reference!MakeCopy, Reference!Fresh, Reference!Alive, M0
<1>2. /\ LuaAt(M0, InUse, Reference!Callers) /\ InUse \ {ref[r]} = InUse
      /\ ref[q] \in InUse \cup {Reference!REFNIL} /\ v = InSlot(M0, ref[q])
      /\ v \in R /\ tables \in Reference!Tables
  BY <1>1, InvSays
<1>3. /\ LuaAt(m, Slots(InUse \cup {m.got}), Reference!Callers) /\ KeepsSlots(M0, m, InUse)
      /\ m.got \in Nat /\ m.got \notin InUse /\ InSlot(m, m.got) = v
  BY <1>2, TakesSlot
<1> HIDE DEF m, v
<1>4. \A s \in InUse \cup {Reference!REFNIL} : InSlot(m, s) = InSlot(M0, s)
  BY <1>3 DEF KeepsSlots
<1> QED
  BY <1>1, <1>2, <1>3, <1>4, Given

LEMMA StepNewTable ==
    ASSUME RefInv, NEW r \in Refs, Reference!NewTable(r)
    PROVE  RefInv'
<1>1. /\ slip = "none" /\ ref[r] = Reference!NoRef /\ tables < MaxTables /\ tables' = tables + 1
      /\ Reference!Gives(r, Reference!LuaL_ref(Reference!PushValue(M0, tables')), tables')
  BY DEF Reference!NewTable, Reference!Fresh, M0
<1>2. tables \in Reference!Tables
  BY <1>1, InvSays
<1>3. tables' \in Reference!Tables
  BY <1>1, <1>2, BridgeAssumption DEF Reference!Tables, Reference!RefAssumption
<1>4. tables' \in R
  BY <1>3, LuaTypes
<1> QED
  BY <1>1, <1>3, <1>4, StepMakeOf

LEMMA StepDestroy ==
    ASSUME RefInv, slip = "none", NEW r \in Refs, Reference!Destroy(r)
    PROVE  RefInv'
<1> DEFINE s == ref[r]
           m == Reference!LuaL_unref(M0, s)
<1>1. /\ s # Reference!NoRef /\ Reference!Becomes(m) /\ tables' = tables
      /\ ref' = [ref EXCEPT ![r] = Reference!NoRef] /\ is' = [is EXCEPT ![r] = Reference!Nil]
  BY DEF Reference!Destroy, Reference!Alive, M0
<1>2. /\ LuaAt(M0, InUse, Reference!Callers) /\ s \in InUse \cup {Reference!REFNIL}
      /\ tables \in Reference!Tables /\ is \in [Refs -> R]
      /\ ref \in [Refs -> Nat \cup {Reference!NoRef}]
      /\ \A q \in Refs : ref[q] # Reference!NoRef =>
            is[q] = InSlot(M0, ref[q]) /\ ref[q] \in InUse \cup {Reference!REFNIL}
      /\ \A p, q \in Refs : ref[p] = ref[q] /\ ref[p] \in InUse => p = q
      /\ Reference!REFNIL \notin InUse /\ Reference!NoRef \notin InUse
  BY <1>1, InvSays
<1>3. LuaAt(m, InUse \ {s}, Reference!Callers) /\ KeepsSlots(M0, m, InUse \ {s})
  BY <1>2, GivesBack
<1>4. s = ref[r]
  OBVIOUS
<1> HIDE DEF m, s
<1>5. /\ ref' \in [Refs -> Nat \cup {Reference!NoRef}] /\ is' \in [Refs -> R]
      /\ ref'[r] = Reference!NoRef /\ \A q \in Refs : q # r => ref'[q] = ref[q] /\ is'[q] = is[q]
  BY <1>1, <1>2, LuaTypes
<1>6. \A q \in Refs : q # r /\ ref[q] \in InUse => ref[q] # s
  BY <1>2, <1>4
<1>7. InUse' = InUse \ {s}
  <2>1. InUse' = {ref'[q] : q \in Refs} \ {Reference!REFNIL, Reference!NoRef}
    BY DEF InUse, Reference!REFNIL, Reference!NoRef
  <2>2. ASSUME NEW x \in InUse' PROVE x \in InUse \ {s}
    <3>1. PICK q \in Refs : x = ref'[q]
      BY <2>1, <2>2
    <3>2. x # Reference!REFNIL /\ x # Reference!NoRef
      BY <2>1, <2>2
    <3>3. q # r /\ x = ref[q]
      BY <1>5, <3>1, <3>2
    <3> QED
      BY <1>6, <3>2, <3>3 DEF InUse
  <2>3. ASSUME NEW x \in InUse \ {s} PROVE x \in InUse'
    <3>1. PICK q \in Refs : x = ref[q]
      BY <2>3 DEF InUse
    <3>2. x # Reference!REFNIL /\ x # Reference!NoRef /\ x # s
      BY <1>2, <2>3
    <3> QED
      BY <1>4, <1>5, <2>1, <3>1, <3>2
  <2> QED
    BY <2>2, <2>3
<1>8. LuaAt(m, InUse', Reference!Callers)
  BY <1>3, <1>7
<1>9. \A q \in Refs : ref'[q] # Reference!NoRef => is'[q] = InSlot(m, ref'[q])
  <2> SUFFICES ASSUME NEW q \in Refs, ref'[q] # Reference!NoRef PROVE is'[q] = InSlot(m, ref'[q])
    OBVIOUS
  <2>1. q # r /\ ref'[q] = ref[q] /\ is'[q] = is[q]
    BY <1>5
  <2>2. is[q] = InSlot(M0, ref[q]) /\ ref[q] \in (InUse \ {s}) \cup {Reference!REFNIL}
    BY <1>2, <1>6, <2>1
  <2> QED
    BY <1>3, <2>1, <2>2 DEF KeepsSlots
<1>10. \A p, q \in Refs : ref'[p] = ref'[q] /\ ref'[p] \in InUse' => p = q
  <2>1. \A p \in Refs : ref'[p] \in InUse' => p # r /\ ref'[p] = ref[p] /\ ref[p] \in InUse
    BY <1>2, <1>5, <1>7
  <2> QED
    BY <1>2, <2>1
<1>11. tables' \in Reference!Tables
  BY <1>1, <1>2
<1> QED
  BY ONLY <1>1, <1>5, <1>8, <1>9, <1>10, <1>11, InvAfter

LEMMA StepAssignValue ==
    ASSUME RefInv, slip = "none", NEW r \in Refs, NEW v \in R, Reference!AssignValue(r, v)
    PROVE  RefInv'
<1> DEFINE V == InUse \ {ref[r]}
           o == Reference!LuaL_unref(M0, ref[r])
           m == Reference!LuaL_ref(Reference!PushValue(o, v))
<1>1. ref[r] # Reference!NoRef /\ Reference!Gives(r, m, v) /\ tables' = tables
  BY DEF Reference!AssignValue, Reference!Alive, M0
<1>2. /\ LuaAt(M0, InUse, Reference!Callers) /\ ref[r] \in InUse \cup {Reference!REFNIL}
      /\ tables \in Reference!Tables
  BY <1>1, InvSays
<1>3. LuaAt(o, V, Reference!Callers) /\ KeepsSlots(M0, o, V)
  BY <1>2, GivesBack
<1> HIDE DEF o
<1>4. /\ LuaAt(m, Slots(V \cup {m.got}), Reference!Callers) /\ KeepsSlots(o, m, V)
      /\ m.got \in Nat /\ m.got \notin V /\ InSlot(m, m.got) = v
  BY <1>3, TakesPushed
<1> HIDE DEF m
<1>5. \A s \in V \cup {Reference!REFNIL} : InSlot(m, s) = InSlot(M0, s)
  BY <1>3, <1>4 DEF KeepsSlots
<1> QED
  BY <1>1, <1>2, <1>4, <1>5, Given

LEMMA StepAssignRef ==
    ASSUME RefInv, slip = "none", slip' = "none", NEW r \in Refs, NEW q \in Refs,
           Reference!AssignRef(r, q)
    PROVE  RefInv'
<1> DEFINE V == InUse \ {ref[r]}
           v == is[q]
           o == Reference!LuaL_unref(M0, ref[r])
           m == Reference!LuaL_ref(Reference!PushSlot(o, ref[q]))
<1>1. /\ ref[r] # Reference!NoRef /\ ref[q] # Reference!NoRef /\ r # q
      /\ Reference!Gives(r, m, v) /\ tables' = tables
  BY DEF Reference!AssignRef, Reference!Alive, M0
<1>2. /\ LuaAt(M0, InUse, Reference!Callers) /\ ref[r] \in InUse \cup {Reference!REFNIL}
      /\ tables \in Reference!Tables /\ v \in R /\ v = InSlot(M0, ref[q])
      /\ ref[q] \in V \cup {Reference!REFNIL}
  BY <1>1, InvSays
<1>3. LuaAt(o, V, Reference!Callers) /\ KeepsSlots(M0, o, V)
  BY <1>2, GivesBack
<1> HIDE DEF o
<1>4. /\ LuaAt(m, Slots(V \cup {m.got}), Reference!Callers) /\ KeepsSlots(o, m, V)
      /\ m.got \in Nat /\ m.got \notin V /\ InSlot(m, m.got) = InSlot(o, ref[q])
  BY <1>2, <1>3, TakesSlot
<1> HIDE DEF m
<1>5. \A s \in V \cup {Reference!REFNIL} : InSlot(m, s) = InSlot(M0, s)
  BY <1>3, <1>4 DEF KeepsSlots
<1>6. InSlot(m, m.got) = v
  BY <1>2, <1>3, <1>4 DEF KeepsSlots
<1> HIDE DEF v
<1> QED
  BY <1>1, <1>2, <1>4, <1>5, <1>6, Given

(* A variable that holds a table, and a proxy for an element of it.        *)
LEMMA TableProxy ==
    ASSUME RefInv, slip = "none", NEW q \in Refs, Reference!HoldsTable(q)
    PROVE  LET p == Reference!MakeProxy(M0)
               U == InUse \cup {p.got}
           IN  /\ LuaAt(p, U, Reference!Callers) /\ KeepsSlots(M0, p, InUse)
               /\ p.got \in Nat /\ p.got \notin InUse \cup {Reference!REFNIL}
               /\ ref[q] \in InUse /\ is[q] \in Reference!Tables /\ element[is[q]] \in R
               /\ InSlot(p, ref[q]) = is[q] /\ p.element = element
               /\ LuaAt(M0, InUse, Reference!Callers) /\ Reference!REFNIL \notin InUse
               /\ Reference!NoRef \notin InUse /\ tables \in Reference!Tables
<1> DEFINE p == Reference!MakeProxy(M0)
<1>1. ref[q] # Reference!NoRef /\ is[q] \in Reference!Tables
  BY DEF Reference!HoldsTable, Reference!Alive
<1>2. /\ LuaAt(M0, InUse, Reference!Callers) /\ is[q] = InSlot(M0, ref[q])
      /\ ref[q] \in InUse \cup {Reference!REFNIL} /\ Reference!REFNIL \notin InUse
      /\ Reference!NoRef \notin InUse /\ tables \in Reference!Tables
  BY <1>1, InvSays
<1>3. ref[q] \in InUse
  BY <1>1, <1>2, LuaTypes DEF InSlot
<1>4. element[is[q]] \in R
  BY <1>1, <1>2, LuaIs DEF LuaAt, States
<1>5. /\ LuaAt(p, InUse \cup {p.got}, Reference!Callers) /\ KeepsSlots(M0, p, InUse)
      /\ p.got \in Nat /\ p.got \notin InUse \cup {Reference!REFNIL}
  BY <1>2, MakesProxy
<1> HIDE DEF p
<1>6. InSlot(p, ref[q]) = is[q] /\ p.element = element
  BY <1>2, <1>3, <1>5, LuaIs DEF KeepsSlots
<1> QED
  BY <1>1, <1>2, <1>3, <1>4, <1>5, <1>6 DEF p

LEMMA StepMakeFromElement ==
    ASSUME RefInv, slip = "none", NEW r \in Refs, NEW q \in Refs, Reference!MakeFromElement(r, q)
    PROVE  RefInv'
<1> DEFINE v == element[is[q]]
           p == Reference!MakeProxy(M0)
           m == Reference!LuaL_ref(Reference!PushProxy(p, ref[q], p.got))
           n == [Reference!EndProxy(m, p.got) EXCEPT !.got = m.got]
           U == InUse \cup {p.got}
<1>1. /\ ref[r] = Reference!NoRef /\ Reference!HoldsTable(q)
      /\ Reference!Gives(r, n, v) /\ tables' = tables
  BY DEF Reference!MakeFromElement, Reference!Fresh, M0
<1>2. /\ LuaAt(p, U, Reference!Callers) /\ KeepsSlots(M0, p, InUse)
      /\ p.got \in Nat /\ p.got \notin InUse \cup {Reference!REFNIL}
      /\ ref[q] \in InUse /\ is[q] \in Reference!Tables /\ v \in R
      /\ InSlot(p, ref[q]) = is[q] /\ p.element = element
      /\ Reference!REFNIL \notin InUse /\ Reference!NoRef \notin InUse
      /\ tables \in Reference!Tables
  BY <1>1, TableProxy
<1> HIDE DEF p
<1>3. /\ LuaAt(m, Slots(U \cup {m.got}), Reference!Callers) /\ KeepsSlots(p, m, U)
      /\ m.got \in Nat /\ m.got \notin U /\ InSlot(m, m.got) = v
  BY <1>2, TakesElement
<1> HIDE DEF m, v
<1>4. /\ LuaAt(n, Slots(InUse \cup {n.got}), Reference!Callers) /\ n.got = m.got
      /\ \A s \in InUse \cup {Reference!REFNIL, m.got} : InSlot(n, s) = InSlot(m, s)
  BY <1>2, <1>3, EndsProxy
<1> HIDE DEF n
<1>5. \A s \in InUse \cup {Reference!REFNIL} : InSlot(n, s) = InSlot(M0, s)
  BY <1>2, <1>3, <1>4 DEF KeepsSlots
<1>6. InSlot(n, n.got) = v /\ n.got \in Nat /\ n.got \notin InUse /\ InUse \ {ref[r]} = InUse
  BY <1>1, <1>2, <1>3, <1>4
<1> QED
  BY <1>1, <1>2, <1>4, <1>5, <1>6, Given

LEMMA StepAssignElement ==
    ASSUME RefInv, slip = "none", slip' = "none", NEW r \in Refs, NEW q \in Refs,
           Reference!AssignElement(r, q)
    PROVE  RefInv'
<1> DEFINE v == element[is[q]]
           p == Reference!MakeProxy(M0)
           o == Reference!LuaL_unref(p, ref[r])
           m == Reference!LuaL_ref(Reference!PushProxy(o, ref[q], p.got))
           n == [Reference!EndProxy(m, p.got) EXCEPT !.got = m.got]
           U == InUse \cup {p.got}
           V == InUse \ {ref[r]}
<1>1. /\ ref[r] # Reference!NoRef /\ r # q /\ Reference!HoldsTable(q)
      /\ Reference!Gives(r, n, v) /\ tables' = tables
  BY DEF Reference!AssignElement, Reference!Alive, M0
<1>2. /\ LuaAt(p, U, Reference!Callers) /\ KeepsSlots(M0, p, InUse)
      /\ p.got \in Nat /\ p.got \notin InUse \cup {Reference!REFNIL}
      /\ ref[q] \in InUse /\ is[q] \in Reference!Tables /\ v \in R
      /\ InSlot(p, ref[q]) = is[q] /\ p.element = element
      /\ Reference!REFNIL \notin InUse /\ tables \in Reference!Tables
  BY <1>1, TableProxy
<1>3. ref[r] \in InUse \cup {Reference!REFNIL} /\ ref[q] \in V
  BY <1>1, <1>2, InvSays
<1> HIDE DEF p
<1>4. U \ {ref[r]} = V \cup {p.got} /\ ref[r] \in U \cup {Reference!REFNIL}
  BY <1>2, <1>3
<1>5. LuaAt(o, V \cup {p.got}, Reference!Callers) /\ KeepsSlots(p, o, V \cup {p.got})
  BY <1>2, <1>4, GivesBack
<1> HIDE DEF o
<1>6. InSlot(o, ref[q]) = is[q] /\ o.element = element
  BY <1>2, <1>3, <1>5 DEF KeepsSlots
<1>7. V \subseteq InUse
  OBVIOUS
<1> HIDE DEF V
<1> DEFINE X == V \cup {p.got}
<1>8. ref[q] \in X /\ p.got \in X /\ LuaAt(o, X, Reference!Callers)
  BY <1>3, <1>5
<1> HIDE DEF X
<1>9. /\ LuaAt(m, Slots(X \cup {m.got}), Reference!Callers) /\ KeepsSlots(o, m, X)
       /\ m.got \in Nat /\ m.got \notin X /\ InSlot(m, m.got) = v
  <2>1. /\ ref[q] \in X \cup {Reference!REFNIL} /\ p.got \in X \cup {Reference!REFNIL}
        /\ InSlot(o, ref[q]) \in Reference!Tables
    BY <1>2, <1>6, <1>8
  <2>2. /\ LuaAt(m, Slots(X \cup {m.got}), Reference!Callers) /\ KeepsSlots(o, m, X)
        /\ m.got \in Nat /\ m.got \notin X /\ InSlot(m, m.got) = o.element[InSlot(o, ref[q])]
    BY ONLY <1>8, <2>1, TakesElement
  <2> QED
    BY <1>6, <2>2
<1> HIDE DEF m, v
<1>10. /\ LuaAt(m, Slots((V \cup {p.got}) \cup {m.got}), Reference!Callers)
      /\ KeepsSlots(o, m, V \cup {p.got})
      /\ m.got \in Nat /\ m.got \notin V \cup {p.got} /\ InSlot(m, m.got) = v
  BY <1>9 DEF X
<1>11. p.got \notin V \cup {Reference!REFNIL} /\ Reference!REFNIL \notin V
  BY <1>2, <1>7
<1>12. /\ LuaAt(n, Slots(V \cup {n.got}), Reference!Callers) /\ n.got = m.got
      /\ \A s \in V \cup {Reference!REFNIL, m.got} : InSlot(n, s) = InSlot(m, s)
  BY <1>10, <1>11, EndsProxy
<1> HIDE DEF n
<1>13. \A s \in V \cup {Reference!REFNIL} : InSlot(n, s) = InSlot(M0, s)
  BY <1>2, <1>5, <1>10, <1>12, <1>7 DEF KeepsSlots
<1>14. InSlot(n, n.got) = v /\ n.got \in Nat /\ n.got \notin V
  BY <1>10, <1>12
<1> QED
  BY <1>1, <1>2, <1>12, <1>13, <1>14, Given DEF V

(* The copy of what is assigned, and the proxy, give their slots back.     *)
LEMMA StepSetElement ==
    ASSUME RefInv, slip = "none", NEW q \in Refs, NEW x \in InUse \cup {Reference!REFNIL},
           Reference!SetElement(q, x)
    PROVE  RefInv'
<1> DEFINE p == Reference!MakeProxy(M0)
           c == Reference!LuaL_ref(Reference!PushSlot(p, x))
           o1 == Reference!PushSlot(c, ref[q])
           o2 == Reference!PushSlot(o1, p.got)
           o3 == Reference!PushSlot(o2, c.got)
           m == Reference!SetTable(o3)
           n == Reference!Pop(m, 1)
           d == Reference!LuaL_unref(n, c.got)
           z == Reference!LuaL_unref(d, p.got)
           U == InUse \cup {p.got}
           W == Slots(U \cup {c.got})
           S0 == Reference!Callers
<1>1. Reference!HoldsTable(q) /\ Reference!Becomes(z) /\ UNCHANGED <<tables, ref, is>>
  BY DEF Reference!SetElement, Reference!EndProxy, M0
<1>2. /\ LuaAt(p, U, S0) /\ KeepsSlots(M0, p, InUse)
      /\ p.got \in Nat /\ p.got \notin InUse \cup {Reference!REFNIL}
      /\ ref[q] \in InUse /\ is[q] \in Reference!Tables
      /\ InSlot(p, ref[q]) = is[q] /\ Reference!REFNIL \notin InUse
  BY <1>1, TableProxy
<1> HIDE DEF p
<1>3. /\ LuaAt(c, W, S0) /\ KeepsSlots(p, c, U) /\ c.got \in Nat /\ c.got \notin U
  BY <1>2, TakesSlot
<1> HIDE DEF c
<1>4. ref[q] \in W /\ p.got \in W /\ c.got \in W \cup {Reference!REFNIL} /\ S0 \in Seq(R)
  BY <1>2, <1>3, StackIs DEF Slots
<1>5. (W \ {c.got}) \ {p.got} = InUse /\ U \subseteq W /\ W \ {c.got} = U
  BY <1>2, <1>3 DEF Slots
<1> HIDE DEF W
<1> DEFINE t == is[q]
           k == InSlot(o1, p.got)
           v == InSlot(o2, c.got)
<1>6. LuaAt(o1, W, Append(S0, t)) /\ KeepsSlots(c, o1, W)
  <2>1. InSlot(c, ref[q]) = t
    BY <1>2, <1>3 DEF KeepsSlots
  <2> QED
    BY <1>3, <1>4, <2>1, PushesSlot
<1> HIDE DEF o1
<1>7. LuaAt(o2, W, Append(Append(S0, t), k)) /\ KeepsSlots(o1, o2, W) /\ k \in R
  BY <1>4, <1>6, PushesSlot, Holds
<1> HIDE DEF o2
<1>8. LuaAt(o3, W, Append(Append(Append(S0, t), k), v)) /\ KeepsSlots(o2, o3, W) /\ v \in R
  <2> DEFINE u == Append(Append(S0, t), k)
             g == c.got
  <2>1. LuaAt(o2, W, u) /\ g \in W \cup {Reference!REFNIL}
    BY <1>4, <1>7
  <2> HIDE DEF u, g
  <2>2. v \in R
    BY ONLY <2>1, Holds DEF g
  <2>3. LuaAt(o3, W, Append(u, v)) /\ KeepsSlots(o2, o3, W)
    BY ONLY <2>1, PushesSlot DEF g
  <2> QED
    BY <2>2, <2>3 DEF u
<1> HIDE DEF o3, k, v, S0, t
<1>9. /\ LuaAt(m, W, Append(S0, t))
      /\ \A s \in W \cup {Reference!REFNIL} : InSlot(m, s) = InSlot(o3, s)
  <2>1. t \in Reference!Tables
    BY <1>2 DEF t
  <2> QED
    BY <1>4, <1>7, <1>8, <2>1, SetsInTable
<1> HIDE DEF m
<1>10. LuaAt(n, W, S0) /\ KeepsSlots(m, n, W)
  <2>1. t \in R
    BY <1>2, LuaTypes DEF t
  <2> QED
    BY <1>4, <1>9, <2>1, PopsOne
<1> HIDE DEF n
<1>11. LuaAt(d, U, S0) /\ KeepsSlots(n, d, U)
  <2>1. LuaAt(d, W \ {c.got}, S0) /\ KeepsSlots(n, d, W \ {c.got})
    BY <1>4, <1>10, GivesBack
  <2> QED
    BY <1>5, <2>1
<1> HIDE DEF d
<1>12. LuaAt(z, InUse, S0) /\ KeepsSlots(d, z, InUse)
  <2>1. LuaAt(z, U \ {p.got}, S0) /\ KeepsSlots(d, z, U \ {p.got}) /\ U \ {p.got} = InUse
    BY <1>2, <1>11, GivesBack
  <2> QED
    BY <2>1
<1> HIDE DEF z
<1>13. ASSUME NEW s \in InUse \cup {Reference!REFNIL} PROVE InSlot(z, s) = InSlot(M0, s)
  <2>1. s \in U \cup {Reference!REFNIL} /\ s \in W \cup {Reference!REFNIL}
    BY <1>5
  <2>2. InSlot(c, s) = InSlot(M0, s)
    BY <1>2, <1>3, <2>1 DEF KeepsSlots
  <2>3. InSlot(o3, s) = InSlot(c, s)
    BY <1>6, <1>7, <1>8, <2>1 DEF KeepsSlots
  <2>4. InSlot(z, s) = InSlot(m, s)
    BY <1>10, <1>11, <1>12, <2>1 DEF KeepsSlots
  <2> QED
    BY <1>9, <2>1, <2>2, <2>3, <2>4
<1> QED
  BY <1>1, <1>12, <1>13, Left DEF S0

LEMMA StepInspect ==
    ASSUME RefInv, slip = "none", NEW r \in Refs, Reference!Inspect(r)
    PROVE  RefInv'
<1> DEFINE o == Reference!PushSlot(M0, ref[r])
           m == Reference!PushValue(o, Reference!Number)
           n == Reference!Pop(m, 2)
           v == InSlot(M0, ref[r])
<1>1. ref[r] # Reference!NoRef /\ Reference!Becomes(n) /\ UNCHANGED <<tables, ref, is>>
  BY DEF Reference!Inspect, Reference!Alive, M0
<1>2. /\ LuaAt(M0, InUse, Reference!Callers) /\ ref[r] \in InUse \cup {Reference!REFNIL}
      /\ Reference!Callers \in Seq(R) /\ v \in R /\ Reference!Number \in R
  BY <1>1, InvSays, Holds, LuaTypes
<1>3. LuaAt(o, InUse, Append(Reference!Callers, v)) /\ KeepsSlots(M0, o, InUse)
  BY <1>2, PushesSlot
<1> HIDE DEF o, v
<1>4. /\ LuaAt(m, InUse, Append(Append(Reference!Callers, v), Reference!Number))
      /\ KeepsSlots(o, m, InUse)
  BY <1>2, <1>3, Pushes
<1> HIDE DEF m
<1>5. LuaAt(n, InUse, Reference!Callers) /\ KeepsSlots(m, n, InUse)
  BY <1>2, <1>4, PopsTwo
<1> HIDE DEF n
<1>6. \A s \in InUse \cup {Reference!REFNIL} : InSlot(n, s) = InSlot(M0, s)
  BY <1>3, <1>4, <1>5 DEF KeepsSlots
<1> QED
  BY <1>1, <1>5, <1>6, Left

LEMMA StepInspectElement ==
    ASSUME RefInv, slip = "none", NEW q \in Refs, Reference!InspectElement(q)
    PROVE  RefInv'
<1> DEFINE p == Reference!MakeProxy(M0)
           o == Reference!PushProxy(p, ref[q], p.got)
           x == Reference!PushValue(o, Reference!Number)
           m == Reference!Pop(x, 2)
           z == Reference!LuaL_unref(m, p.got)
           U == InUse \cup {p.got}
           v == p.element[InSlot(p, ref[q])]
<1>1. Reference!HoldsTable(q) /\ Reference!Becomes(z) /\ UNCHANGED <<tables, ref, is>>
  BY DEF Reference!InspectElement, Reference!EndProxy, M0
<1>2. /\ LuaAt(p, U, Reference!Callers) /\ KeepsSlots(M0, p, InUse)
      /\ p.got \in Nat /\ p.got \notin InUse \cup {Reference!REFNIL}
      /\ ref[q] \in InUse /\ is[q] \in Reference!Tables /\ InSlot(p, ref[q]) = is[q]
  BY <1>1, TableProxy
<1> HIDE DEF p
<1>3. LuaAt(o, U, Append(Reference!Callers, v)) /\ KeepsSlots(p, o, U) /\ v \in R
  <2>1. /\ ref[q] \in U \cup {Reference!REFNIL} /\ p.got \in U \cup {Reference!REFNIL}
        /\ InSlot(p, ref[q]) \in Reference!Tables
    BY <1>2
  <2> QED
    BY ONLY <1>2, <2>1, PushesProxy
<1> HIDE DEF o, v
<1>4. /\ LuaAt(x, U, Append(Append(Reference!Callers, v), Reference!Number)) /\ KeepsSlots(o, x, U)
      /\ Reference!Number \in R /\ Reference!Callers \in Seq(R)
  BY <1>2, <1>3, LuaTypes, Pushes, StackIs
<1> HIDE DEF x
<1>5. LuaAt(m, U, Reference!Callers) /\ KeepsSlots(x, m, U)
  BY <1>3, <1>4, PopsTwo
<1> HIDE DEF m
<1>6. LuaAt(z, InUse, Reference!Callers) /\ KeepsSlots(m, z, InUse)
  <2>1. U \ {p.got} = InUse /\ p.got \in U \cup {Reference!REFNIL}
    BY <1>2
  <2>2. LuaAt(z, U \ {p.got}, Reference!Callers) /\ KeepsSlots(m, z, U \ {p.got})
    BY <1>5, <2>1, GivesBack
  <2> QED
    BY <2>1, <2>2
<1> HIDE DEF z
<1>7. \A s \in InUse \cup {Reference!REFNIL} : InSlot(z, s) = InSlot(M0, s)
  BY <1>2, <1>3, <1>4, <1>5, <1>6 DEF KeepsSlots
<1> QED
  BY <1>1, <1>6, <1>7, Left

LEMMA StepLength ==
    ASSUME RefInv, slip = "none", slip' = "none", NEW q \in Refs, NEW lua52 \in BOOLEAN,
           Reference!Length(q, lua52)
    PROVE  RefInv'
<1>1. ~lua52 /\ UNCHANGED <<tables, ref, is>>
  BY DEF Reference!Length
<1>2. Reference!Becomes(M0)
  BY <1>1 DEF Reference!Length, M0
<1>3. LuaAt(M0, InUse, Reference!Callers)
  BY InvSays
<1> QED
  BY <1>1, <1>2, <1>3, Left

LEMMA StepCall ==
    ASSUME RefInv, slip = "none", NEW r \in Refs, NEW q \in Refs, NEW a \in Refs, NEW v \in R,
           Reference!Call(r, q, a, v)
    PROVE  RefInv'
<1> DEFINE o == Reference!PushSlot(M0, ref[q])
           x == Reference!PushSlot(o, ref[a])
           m == Reference!Pop(x, 2)
           n == Reference!LuaL_ref(Reference!PushValue(m, v))
           f == InSlot(M0, ref[q])
           b == InSlot(o, ref[a])
<1>1. /\ ref[r] = Reference!NoRef /\ ref[q] # Reference!NoRef /\ ref[a] # Reference!NoRef
      /\ Reference!Gives(r, n, v) /\ tables' = tables
  BY DEF Reference!Call, Reference!Fresh, Reference!Alive, M0
<1>2. /\ LuaAt(M0, InUse, Reference!Callers) /\ InUse \ {ref[r]} = InUse
      /\ ref[q] \in InUse \cup {Reference!REFNIL} /\ ref[a] \in InUse \cup {Reference!REFNIL}
      /\ Reference!Callers \in Seq(R) /\ f \in R /\ tables \in Reference!Tables
  BY <1>1, InvSays, Holds
<1>3. LuaAt(o, InUse, Append(Reference!Callers, f)) /\ KeepsSlots(M0, o, InUse)
  BY <1>2, PushesSlot
<1> HIDE DEF o, f
<1>4. LuaAt(x, InUse, Append(Append(Reference!Callers, f), b)) /\ KeepsSlots(o, x, InUse) /\ b \in R
  BY <1>2, <1>3, PushesSlot, Holds
<1> HIDE DEF x, b
<1>5. LuaAt(m, InUse, Reference!Callers) /\ KeepsSlots(x, m, InUse)
  BY <1>2, <1>4, PopsTwo
<1> HIDE DEF m
<1>6. /\ LuaAt(n, Slots(InUse \cup {n.got}), Reference!Callers) /\ KeepsSlots(m, n, InUse)
      /\ n.got \in Nat /\ n.got \notin InUse /\ InSlot(n, n.got) = v
  BY <1>5, TakesPushed
<1> HIDE DEF n
<1>7. \A s \in InUse \cup {Reference!REFNIL} : InSlot(n, s) = InSlot(M0, s)
  BY <1>3, <1>4, <1>5, <1>6 DEF KeepsSlots
<1> QED
  BY <1>1, <1>2, <1>6, <1>7, Given

LEMMA StepCallElement ==
    ASSUME RefInv, slip = "none", NEW r \in Refs, NEW q \in Refs, NEW a \in Refs, NEW v \in R,
           Reference!CallElement(r, q, a, v)
    PROVE  RefInv'
<1> DEFINE p == Reference!MakeProxy(M0)
           o == Reference!PushProxy(p, ref[q], p.got)
           x == Reference!PushSlot(o, ref[a])
           y == Reference!Pop(x, 2)
           m == Reference!LuaL_ref(Reference!PushValue(y, v))
           n == [Reference!EndProxy(m, p.got) EXCEPT !.got = m.got]
           U == InUse \cup {p.got}
           f == p.element[InSlot(p, ref[q])]
           b == InSlot(o, ref[a])
<1>1. /\ ref[r] = Reference!NoRef /\ Reference!HoldsTable(q) /\ ref[a] # Reference!NoRef
      /\ Reference!Gives(r, n, v) /\ tables' = tables
  BY DEF Reference!CallElement, Reference!Fresh, Reference!Alive, M0
<1>2. /\ LuaAt(p, U, Reference!Callers) /\ KeepsSlots(M0, p, InUse)
      /\ p.got \in Nat /\ p.got \notin InUse \cup {Reference!REFNIL}
      /\ ref[q] \in InUse /\ is[q] \in Reference!Tables /\ InSlot(p, ref[q]) = is[q]
      /\ Reference!REFNIL \notin InUse /\ Reference!NoRef \notin InUse
      /\ tables \in Reference!Tables
  BY <1>1, TableProxy
<1> HIDE DEF p
<1>3. LuaAt(o, U, Append(Reference!Callers, f)) /\ KeepsSlots(p, o, U) /\ f \in R
  <2>1. /\ ref[q] \in U \cup {Reference!REFNIL} /\ p.got \in U \cup {Reference!REFNIL}
        /\ InSlot(p, ref[q]) \in Reference!Tables
    BY <1>2
  <2> QED
    BY ONLY <1>2, <2>1, PushesProxy
<1> HIDE DEF o, f
<1>4. /\ LuaAt(x, U, Append(Append(Reference!Callers, f), b)) /\ KeepsSlots(o, x, U) /\ b \in R
      /\ Reference!Callers \in Seq(R)
  <2>1. ref[a] \in U \cup {Reference!REFNIL}
    BY <1>1, InvSays
  <2> QED
    BY <1>2, <1>3, <2>1, PushesSlot, Holds, StackIs
<1> HIDE DEF x, b
<1>5. LuaAt(y, U, Reference!Callers) /\ KeepsSlots(x, y, U)
  BY <1>3, <1>4, PopsTwo
<1> HIDE DEF y
<1>6. /\ LuaAt(m, Slots(U \cup {m.got}), Reference!Callers) /\ KeepsSlots(y, m, U)
      /\ m.got \in Nat /\ m.got \notin U /\ InSlot(m, m.got) = v
  BY <1>5, TakesPushed
<1> HIDE DEF m
<1>7. /\ LuaAt(n, Slots(InUse \cup {n.got}), Reference!Callers) /\ n.got = m.got
      /\ \A s \in InUse \cup {Reference!REFNIL, m.got} : InSlot(n, s) = InSlot(m, s)
  BY <1>2, <1>6, EndsProxy
<1> HIDE DEF n
<1>8. \A s \in InUse \cup {Reference!REFNIL} : InSlot(n, s) = InSlot(M0, s)
  BY <1>2, <1>3, <1>4, <1>5, <1>6, <1>7 DEF KeepsSlots
<1>9. InSlot(n, n.got) = v /\ n.got \in Nat /\ n.got \notin InUse /\ InUse \ {ref[r]} = InUse
  BY <1>1, <1>2, <1>6, <1>7
<1> QED
  BY <1>1, <1>2, <1>7, <1>8, <1>9, Given

-----------------------------------------------------------------------------
LEMMA InitReferences == Reference!Init => RefInv
<1> SUFFICES ASSUME Reference!Init PROVE RefInv
  OBVIOUS
<1> USE DEF Reference!Init
<1>1. M0 = [slots |-> <<>>, free |-> <<>>, stack |-> Reference!Callers,
            element |-> [t \in Reference!Tables |-> Reference!Nil], failed |-> FALSE, got |-> 0]
  BY LuaTypes DEF M0, Reference!Lua
<1>2. Reference!Callers \in Seq(R)
  BY LuaTypes DEF Reference!Callers
<1>3. M0 \in States
  BY <1>1, <1>2, LuaTypes DEF States
<1>4. InUse = {}
  BY DEF InUse
<1>5. Registry(M0, {})
  BY <1>1 DEF Registry
<1>6. LuaAt(M0, InUse, Reference!Callers)
  BY <1>1, <1>3, <1>4, <1>5 DEF LuaAt
<1>7. is \in [Refs -> R] /\ ref \in [Refs -> Nat \cup {Reference!NoRef}] /\ tables \in Reference!Tables
  BY LuaTypes
<1>8. \A r \in Refs : ref[r] = Reference!NoRef
  OBVIOUS
<1> QED
  BY <1>4, <1>6, <1>7, <1>8 DEF RefInv, M0

LEMMA StepReferences == RefInv /\ [Reference!Next]_(Reference!refVars) => RefInv'
<1> SUFFICES ASSUME RefInv, [Reference!Next]_(Reference!refVars), slip' = "none" PROVE RefInv'
  BY DEF RefInv
<1>1. \A v \in Reference!Scalars \cup {1} : v \in R
  BY LuaTypes DEF R, Reference!Values
<1>2. ASSUME NEW r \in Refs, Reference!NewTable(r) PROVE RefInv'
  BY <1>2, StepNewTable
<1>3. ASSUME NEW r \in Refs, Reference!Destroy(r) PROVE RefInv'
  BY <1>3, StepDestroy DEF Reference!Destroy, Reference!Alive
<1>4. ASSUME NEW r \in Refs, Reference!CallFails(r) PROVE RefInv'
  BY <1>4 DEF Reference!CallFails
<1>5. ASSUME NEW r \in Refs, Reference!Inspect(r) PROVE RefInv'
  BY <1>5, StepInspect DEF Reference!Inspect, Reference!Alive
<1>6. ASSUME NEW r \in Refs, Reference!InspectElement(r) PROVE RefInv'
  BY <1>6, StepInspectElement DEF Reference!InspectElement, Reference!HoldsTable, Reference!Alive
<1>7. ASSUME NEW r \in Refs, NEW lua52 \in BOOLEAN, Reference!Length(r, lua52) PROVE RefInv'
  BY <1>7, StepLength DEF Reference!Length, Reference!HoldsTable, Reference!Alive
<1>8. ASSUME NEW r \in Refs, NEW v \in Reference!Scalars \cup {1}, Reference!MakeOf(r, v)
      PROVE RefInv'
  <2>1. /\ slip = "none" /\ ref[r] = Reference!NoRef /\ tables' = tables
        /\ Reference!Gives(r, Reference!LuaL_ref(Reference!PushValue(M0, v)), v)
    BY <1>8 DEF Reference!MakeOf, Reference!Fresh, M0
  <2>2. tables' \in Reference!Tables
    BY <2>1, InvSays
  <2> QED
    BY <1>1, <2>1, <2>2, StepMakeOf
<1>9. ASSUME NEW r \in Refs, NEW v \in Reference!Scalars \cup {1}, Reference!AssignValue(r, v)
      PROVE RefInv'
  BY <1>1, <1>9, StepAssignValue DEF Reference!AssignValue, Reference!Alive
<1>10. ASSUME NEW r \in Refs, NEW q \in Refs, Reference!MakeCopy(r, q) PROVE RefInv'
  BY <1>10, StepMakeCopy DEF Reference!MakeCopy, Reference!Fresh
<1>11. ASSUME NEW r \in Refs, NEW q \in Refs, Reference!MakeFromElement(r, q) PROVE RefInv'
  BY <1>11, StepMakeFromElement DEF Reference!MakeFromElement, Reference!Fresh
<1>12. ASSUME NEW r \in Refs, NEW q \in Refs, Reference!AssignRef(r, q) PROVE RefInv'
  BY <1>12, StepAssignRef DEF Reference!AssignRef, Reference!Alive
<1>13. ASSUME NEW r \in Refs, NEW q \in Refs, Reference!AssignElement(r, q) PROVE RefInv'
  BY <1>13, StepAssignElement DEF Reference!AssignElement, Reference!Alive
<1>14. ASSUME NEW r \in Refs, NEW q \in Refs, Reference!RawGet(r, q) \/ Reference!Nested(r, q)
       PROVE RefInv'
  BY <1>14 DEF Reference!RawGet, Reference!Nested
<1>15. ASSUME NEW q \in Refs,
              NEW s \in {Reference!REFNIL} \cup {ref[r] : r \in {a \in Refs : Reference!Alive(a)}},
              Reference!SetElement(q, s)
       PROVE RefInv'
  <2>1. slip = "none"
    BY <1>15 DEF Reference!SetElement, Reference!HoldsTable, Reference!Alive
  <2>2. s \in InUse \cup {Reference!REFNIL}
    <3>1. CASE s # Reference!REFNIL
      <4>1. PICK r \in Refs : s = ref[r] /\ ref[r] # Reference!NoRef
        BY <1>15, <3>1 DEF Reference!Alive
      <4> QED
        BY <2>1, <4>1, InvSays
    <3> QED
      BY <3>1
  <2> QED
    BY <1>15, <2>1, <2>2, StepSetElement
<1>16. ASSUME NEW r \in Refs, NEW q \in Refs, NEW a \in Refs, NEW v \in Reference!Scalars,
              Reference!Call(r, q, a, v)
       PROVE RefInv'
  BY <1>1, <1>16, StepCall DEF Reference!Call, Reference!Fresh
<1>17. ASSUME NEW r \in Refs, NEW q \in Refs, NEW a \in Refs, NEW v \in Reference!Scalars,
              Reference!CallElement(r, q, a, v)
       PROVE RefInv'
  BY <1>1, <1>17, StepCallElement DEF Reference!CallElement, Reference!Fresh
<1>18. CASE UNCHANGED Reference!refVars
  <2>1. UNCHANGED <<tables, ref, is, slip>> /\ Reference!Becomes(M0) /\ slip = "none"
    BY <1>18, LuaIs DEF Reference!refVars, Reference!Becomes
  <2>2. LuaAt(M0, InUse, Reference!Callers)
    BY <2>1, InvSays
  <2> QED
    BY <2>1, <2>2, Left
<1> QED
  BY ONLY [Reference!Next]_(Reference!refVars), <1>2, <1>3, <1>4, <1>5, <1>6, <1>7, <1>8, <1>9,
     <1>10, <1>11, <1>12, <1>13, <1>14, <1>15, <1>16, <1>17, <1>18, Zenon DEF Reference!Next

LEMMA SameCardinality ==
    ASSUME NEW S
    PROVE  Reference!Cardinality(S) = Cardinality(S)
  BY DEF Reference!Cardinality, Cardinality, Reference!IsFiniteSet, IsFiniteSet

(* A set and its image by a function that is one to one.                   *)
LEMMA AsManySlots ==
    ASSUME NEW H, NEW U, IsFiniteSet(U), NEW f \in [H -> U],
           \A x, y \in H : f[x] = f[y] => x = y, \A u \in U : \E x \in H : f[x] = u
    PROVE  Cardinality(U) = Cardinality(H)
<1>1. f \in Injection(H, U) /\ f \in Surjection(H, U)
  BY DEF Injection, Surjection, IsInjective
<1> QED
  BY <1>1, FS_Injection

LEMMA ReferencesAsGiven == RefInv => Reference!ReferencesHold
<1> SUFFICES ASSUME RefInv, slip = "none" PROVE Reference!ReferencesHold
  BY DEF Reference!ReferencesHold
<1> DEFINE alive0 == {r \in Refs : ref[r] # Reference!NoRef}
           held == {r \in alive0 : ref[r] # Reference!REFNIL}
<1>1. /\ LuaAt(M0, InUse, Reference!Callers)
      /\ ref \in [Refs -> Nat \cup {Reference!NoRef}]
      /\ \A r \in Refs : ref[r] # Reference!NoRef => is[r] = InSlot(M0, ref[r])
      /\ \A r, q \in Refs : ref[r] = ref[q] /\ ref[r] \in InUse => r = q
  BY InvSays
<1>2. M0 \in States /\ Registry(M0, InUse) /\ failed = FALSE /\ stack = Reference!Callers
  BY <1>1, LuaIs DEF LuaAt
<1>3. \A r \in held : r \in Refs /\ ref[r] \in InUse
  BY DEF InUse
<1>4. {ref[r] : r \in held} = InUse
  BY DEF InUse
<1>5. slots \in Seq(R) /\ free \in Seq(Nat) /\ Len(slots) \in Nat
  BY <1>2, LuaIs DEF States
<1>6. InUse = DOMAIN slots \ Reference!Range(free)
  BY <1>2, <1>5, LuaIs DEF Registry, Reference!Range
<1>7. IsFiniteSet(InUse)
  <2>1. InUse \subseteq 1 .. Len(slots)
    BY <1>5, <1>6
  <2>2. IsFiniteSet(1 .. Len(slots))
    BY <1>5, FS_Interval
  <2> QED
    BY <2>1, <2>2, FS_Subset
<1>8. Cardinality(InUse) = Cardinality(held)
  <2> DEFINE f == [r \in held |-> ref[r]]
  <2>1. f \in [held -> InUse] /\ \A r \in held : f[r] = ref[r]
    BY <1>3
  <2>2. \A x, y \in held : f[x] = f[y] => x = y
    BY <1>1, <1>3
  <2>3. \A u \in InUse : \E x \in held : f[x] = u
    BY <1>4
  <2> HIDE DEF f, held
  <2> QED
    BY <1>7, <2>1, <2>2, <2>3, AsManySlots
<1>9. Reference!Cardinality({ref[r] : r \in held}) = Reference!Cardinality(held)
  BY <1>4, <1>8, SameCardinality, Zenon
<1>10. \A r \in alive0 : is[r] = (IF r \in held THEN slots[ref[r]] ELSE Reference!Nil)
  BY <1>1, LuaIs, LuaTypes
<1>11. {ref[r] : r \in held} = DOMAIN slots \ Reference!Range(free)
  BY <1>4, <1>6
<1> QED
  BY ONLY <1>2, <1>9, <1>10, <1>11, Zenon DEF Reference!ReferencesHold

(* As long as no expression of the five kinds that do not work occurs, a   *)
(* variable stands for the value it was given last, whatever became of the *)
(* others and of the proxies; every slot of the registry is free or of one *)
(* variable, no expression fails and the stack is the caller's, with as    *)
(* many variables and tables as there may be (LuaRef.h 75-1121,            *)
(* LuaException.h).                                                        *)
THEOREM ReferencesStandForTheirValues == AllSpec => []ReferencesHold
<1>1. AllInit => RefInv
  BY InitReferences DEF AllInit
<1>2. RefInv /\ [AllNext]_allVars => RefInv'
  <2>1. ReferenceStep => Reference!Next
    BY DEF ReferenceStep
  <2>2. PluginStep \/ ClassStep \/ CountedStep \/ UNCHANGED allVars => UNCHANGED reference
    BY Zenon DEF PluginStep, ClassStep, CountedStep, allVars
  <2>3. UNCHANGED reference => UNCHANGED Reference!refVars
    BY Zenon DEF reference, Reference!refVars
  <2> QED
    BY ONLY <2>1, <2>2, <2>3, StepReferences, Zenon DEF AllNext
<1>3. RefInv => ReferencesHold
  BY ReferencesAsGiven DEF ReferencesHold
<1> QED
  BY <1>1, <1>2, <1>3, PTL DEF AllSpec

-----------------------------------------------------------------------------
(* A chain of calls and the Lua stack: what the temporaries own.           *)

(* What FoldSeq computes by: of every set of positions the sum.            *)
Picked(s) == CHOOSE x \in s : TRUE
Sums(f, w) ==
    f = [s \in SUBSET DOMAIN w |-> IF s = {} THEN 0 ELSE w[Picked(s)] + f[s \ {Picked(s)}]]

LEMMA SumIs ==
    ASSUME NEW w
    PROVE  Class!FoldSeq(LAMBDA n, sum : n + sum, 0, w) = (CHOOSE f : Sums(f, w))[DOMAIN w]
  BY Zenon DEF Class!FoldSeq, Class!FoldFunction, Class!FoldFunctionOnSet, Class!MapThenFoldSet,
               Sums, Picked

(* The sum of a sequence whose last number is the only one that is not 0.  *)
LEMMA SumOfLast ==
    ASSUME NEW w \in Seq(Nat), \A i \in 1 .. Len(w) - 1 : w[i] = 0
    PROVE  Class!FoldSeq(LAMBDA n, sum : n + sum, 0, w) = IF w = <<>> THEN 0 ELSE w[Len(w)]
<1> DEFINE N == Len(w)
           D == DOMAIN w
           g == [s \in SUBSET D |-> IF N \in s THEN w[N] ELSE 0]
           h == CHOOSE f : Sums(f, w)
<1>1. /\ N \in Nat /\ D = 1 .. N /\ w[N] = w[Len(w)] /\ \A i \in D : w[i] \in Nat
      /\ \A i \in D : i # N => w[i] = 0
  OBVIOUS
<1>2. \A s \in SUBSET D : s # {} => Picked(s) \in s
  BY DEF Picked
<1>3. \A s \in SUBSET D : g[s] = IF N \in s THEN w[N] ELSE 0
  OBVIOUS
<1> HIDE DEF N, g
<1>4. ASSUME NEW s \in SUBSET D
      PROVE  g[s] = IF s = {} THEN 0 ELSE w[Picked(s)] + g[s \ {Picked(s)}]
  <2>1. CASE s = {}
    BY <1>3, <2>1
  <2>2. CASE s # {}
    <3> DEFINE x == Picked(s)
    <3>1. x \in s /\ x \in D /\ s \ {x} \in SUBSET D
      BY <1>2, <2>2
    <3> HIDE DEF x
    <3>2. CASE x = N
      <4>1. g[s \ {x}] = 0 /\ g[s] = w[N] /\ w[N] \in Nat
        BY <1>1, <1>3, <3>1, <3>2
      <4> QED
        BY <2>2, <3>2, <4>1 DEF x
    <3>3. CASE x # N
      <4>1. g[s \ {x}] = g[s] /\ w[x] = 0
        BY <1>1, <1>3, <3>1, <3>3
      <4>2. g[s] \in Int
        BY <1>1, <1>3
      <4> QED
        BY <2>2, <4>1, <4>2 DEF x
    <3> QED
      BY <3>2, <3>3
  <2> QED
    BY <2>1, <2>2
<1>5. Sums(g, w)
  <2>1. g = [s \in SUBSET D |-> g[s]]
    BY DEF g
  <2> QED
    BY <1>4, <2>1, Zenon DEF Sums
<1>6. Sums(h, w)
  BY <1>5, Zenon
<1> HIDE DEF h
<1>7. \A s \in SUBSET D : h[s] = IF s = {} THEN 0 ELSE w[Picked(s)] + h[s \ {Picked(s)}]
  <2> DEFINE F == [s \in SUBSET D |-> IF s = {} THEN 0 ELSE w[Picked(s)] + h[s \ {Picked(s)}]]
  <2>1. h = F
    BY <1>6, Zenon DEF Sums
  <2>2. \A s \in SUBSET D : F[s] = IF s = {} THEN 0 ELSE w[Picked(s)] + h[s \ {Picked(s)}]
    OBVIOUS
  <2> HIDE DEF F
  <2> QED
    BY <2>1, <2>2, Zenon
<1>8. \A s \in SUBSET D : IsFiniteSet(s) /\ Cardinality(s) \in Nat
  <2>1. IsFiniteSet(1 .. N)
    BY <1>1, FS_Interval
  <2>2. IsFiniteSet(D)
    BY <1>1, <2>1
  <2> QED
    BY <2>2, FS_Subset, FS_CardinalityType
<1> DEFINE T == {n \in Nat : \A s \in SUBSET D : Cardinality(s) = n => h[s] = g[s]}
<1>9. 0 \in T
  <2> SUFFICES ASSUME NEW s \in SUBSET D, Cardinality(s) = 0 PROVE h[s] = g[s]
    OBVIOUS
  <2>1. s = {}
    BY <1>8, FS_EmptySet
  <2> QED
    BY <1>4, <1>7, <2>1
<1>10. ASSUME NEW n \in Nat, n \in T PROVE n + 1 \in T
  <2> SUFFICES ASSUME NEW s \in SUBSET D, Cardinality(s) = n + 1 PROVE h[s] = g[s]
    OBVIOUS
  <2> DEFINE x == Picked(s)
             t == s \ {x}
  <2>1. s # {}
    <3>1. Cardinality({}) = 0
      BY FS_EmptySet
    <3>2. n + 1 # 0 /\ Cardinality(s) = n + 1
      OBVIOUS
    <3> QED
      BY ONLY <3>1, <3>2, Zenon
  <2>2. x \in s /\ t \in SUBSET D
    BY <1>2, <2>1
  <2>3. Cardinality(t) = n
    BY <1>8, <2>2, FS_RemoveElement
  <2>4. h[t] = g[t]
    BY <1>10, <2>2, <2>3
  <2> HIDE DEF t
  <2>5. h[s] = w[x] + h[t] /\ g[s] = w[x] + g[t]
    BY <1>4, <1>7, <2>1 DEF t
  <2> QED
    BY <2>4, <2>5
<1>11. Nat \subseteq T
  <2> HIDE DEF T
  <2> QED
    BY <1>9, <1>10, SetInduction
<1>12. D \in SUBSET D /\ h[D] = g[D]
  BY <1>8, <1>11
<1>13. g[D] = IF w = <<>> THEN 0 ELSE w[N]
  <2>1. w = <<>> <=> N = 0
    BY DEF N
  <2> QED
    BY <1>1, <1>3, <1>12, <2>1
<1> QED
  BY <1>12, <1>13, SumIs DEF h, N

Tbl == (Classes \cup Namespaces \cup {Class!Global}) \X {"class", "const", "static", "namespace"}

(* The last temporary owns what is on the stack, and the others nothing; a *)
(* class that is open lies on the stack with its three tables.             *)
ChainInv ==
    /\ tablesOpen \in Seq(Tbl) /\ temps \in Seq(Nat)
    /\ \A i \in 1 .. Len(temps) - 1 : temps[i] = 0
    /\ Len(tablesOpen) = IF temps = <<>> THEN 0 ELSE temps[Len(temps)]
    /\ \A i \in 1 .. Len(tablesOpen) : tablesOpen[i][2] = "static" => i > 2

LEMMA ChainOwns == ChainInv => Class!StackIsOwned
<1> SUFFICES ASSUME ChainInv PROVE Class!StackIsOwned
  OBVIOUS
<1>1. Class!FoldSeq(LAMBDA n, sum : n + sum, 0, temps) = Len(tablesOpen)
  BY SumOfLast DEF ChainInv
<1>2. \A i \in DOMAIN temps : temps[i] >= 0
  BY DEF ChainInv
<1> QED
  BY <1>1, <1>2, Zenon DEF Class!StackIsOwned

LEMMA TablesAre ==
    /\ \A c \in Classes : /\ Class!ObjectTable(c) \in Tbl /\ Class!ConstTable(c) \in Tbl
                          /\ Class!StaticTable(c) \in Tbl
                          /\ Class!ObjectTable(c)[2] # "static" /\ Class!ConstTable(c)[2] # "static"
    /\ \A n \in Namespaces \cup {Class!Global} : Class!Space(n) \in Tbl /\ Class!Space(n)[2] # "static"
  BY DEF Tbl, Class!ObjectTable, Class!ConstTable, Class!StaticTable, Class!Space

LEMMA AppendedTo ==
    ASSUME NEW S, NEW p \in Seq(S), NEW e \in S, NEW q, q = Append(p, e)
    PROVE  /\ q \in Seq(S) /\ q # <<>> /\ Len(q) = Len(p) + 1
           /\ \A i \in 1 .. Len(p) : q[i] = p[i]
           /\ q[Len(p) + 1] = e
<1>1. /\ Append(p, e) \in Seq(S) /\ Append(p, e) # <<>> /\ Len(Append(p, e)) = Len(p) + 1
      /\ \A i \in 1 .. Len(p) : Append(p, e)[i] = p[i]
      /\ Append(p, e)[Len(p) + 1] = e
  BY AppendProperties
<1> QED
  BY <1>1, Zenon

(* The last temporary hands what it owns to a new one, and n entries more. *)
LEMMA TakesOverKeeps ==
    ASSUME ChainInv, temps # <<>>, NEW n \in Int, temps[Len(temps)] + n \in Nat, Class!TakesOver(n)
    PROVE  /\ temps' \in Seq(Nat) /\ temps' # <<>>
           /\ \A i \in 1 .. Len(temps') - 1 : temps'[i] = 0
           /\ temps'[Len(temps')] = Len(tablesOpen) + n
<1> DEFINE N == Len(temps)
           x == temps[N] + n
           u == [temps EXCEPT ![N] = 0]
<1>1. temps \in Seq(Nat) /\ N \in 1 .. Len(temps) /\ N \in Nat \ {0} /\ x \in Nat
  BY DEF ChainInv
<1>2. u \in Seq(Nat) /\ Len(u) = N /\ \A i \in 1 .. N : u[i] = IF i = N THEN 0 ELSE temps[i]
  BY <1>1
<1>3. \A i \in 1 .. N - 1 : temps[i] = 0
  BY DEF ChainInv
<1>4. temps' = Append(u, x)
  BY DEF Class!TakesOver
<1>5. x = Len(tablesOpen) + n
  BY DEF ChainInv
<1> HIDE DEF N, x, u
<1>6. /\ temps' \in Seq(Nat) /\ Len(temps') = N + 1 /\ temps'[N + 1] = x /\ temps' # <<>>
      /\ \A i \in 1 .. N : temps'[i] = u[i]
  <2>1. u \in Seq(Nat) /\ x \in Nat
    BY <1>1, <1>2
  <2>2. /\ temps' \in Seq(Nat) /\ temps' # <<>> /\ Len(temps') = Len(u) + 1
        /\ \A i \in 1 .. Len(u) : temps'[i] = u[i]
        /\ temps'[Len(u) + 1] = x
    BY ONLY <1>4, <2>1, AppendedTo
  <2> QED
    BY <1>2, <2>2
<1>7. \A i \in 1 .. N : u[i] = 0
  BY <1>1, <1>2, <1>3
<1>8. Len(temps') - 1 = N
  BY <1>1, <1>6
<1>9. \A i \in 1 .. Len(temps') - 1 : temps'[i] = 0
  BY <1>6, <1>7, <1>8
<1>10. temps'[Len(temps')] = Len(tablesOpen) + n
  BY <1>5, <1>6
<1> QED
  BY <1>6, <1>9, <1>10

LEMMA PartOfStack ==
    ASSUME ChainInv, NEW n \in 0 .. Len(tablesOpen)
    PROVE  LET s == SubSeq(tablesOpen, 1, n)
           IN  /\ s \in Seq(Tbl) /\ Len(s) = n
               /\ \A i \in 1 .. n : s[i][2] = "static" => i > 2
<1>1. tablesOpen \in Seq(Tbl) /\ \A i \in 1 .. Len(tablesOpen) : tablesOpen[i][2] = "static" => i > 2
  BY DEF ChainInv
<1>2. /\ SubSeq(tablesOpen, 1, n) \in Seq(Tbl) /\ Len(SubSeq(tablesOpen, 1, n)) = n
      /\ \A i \in 1 .. n : SubSeq(tablesOpen, 1, n)[i] = tablesOpen[i]
  BY <1>1
<1> QED
  BY <1>1, <1>2

LEMMA LongerStack ==
    ASSUME ChainInv, NEW t \in Tbl, t[2] # "static"
    PROVE  LET s == Append(tablesOpen, t)
           IN  /\ s \in Seq(Tbl) /\ Len(s) = Len(tablesOpen) + 1
               /\ \A i \in 1 .. Len(s) : s[i][2] = "static" => i > 2
<1> DEFINE N == Len(tablesOpen)
           s == Append(tablesOpen, t)
<1>1. /\ tablesOpen \in Seq(Tbl) /\ N \in Nat
      /\ \A i \in 1 .. N : tablesOpen[i][2] = "static" => i > 2
  BY DEF ChainInv
<1>2. /\ s \in Seq(Tbl) /\ Len(s) = N + 1 /\ s[N + 1] = t
      /\ \A i \in 1 .. N : s[i] = tablesOpen[i]
  BY <1>1, AppendProperties
<1> HIDE DEF N, s
<1>3. \A i \in 1 .. N + 1 : i \in 1 .. N \/ i = N + 1
  BY <1>1
<1>4. \A i \in 1 .. N + 1 : s[i][2] = "static" => i > 2
  BY <1>1, <1>2, <1>3
<1> QED
  BY <1>2, <1>4 DEF N, s

LEMMA OpensClass ==
    ASSUME ChainInv, NEW c \in Classes
    PROVE  LET s == tablesOpen \o <<Class!ConstTable(c), Class!ObjectTable(c), Class!StaticTable(c)>>
           IN  /\ s \in Seq(Tbl) /\ Len(s) = Len(tablesOpen) + 3
               /\ \A i \in 1 .. Len(s) : s[i][2] = "static" => i > 2
<1> DEFINE N == Len(tablesOpen)
           w == <<Class!ConstTable(c), Class!ObjectTable(c), Class!StaticTable(c)>>
           s == tablesOpen \o w
<1>1. /\ tablesOpen \in Seq(Tbl) /\ N \in Nat
      /\ \A i \in 1 .. N : tablesOpen[i][2] = "static" => i > 2
  BY DEF ChainInv
<1>2. w \in Seq(Tbl) /\ Len(w) = 3 /\ w[1][2] # "static" /\ w[2][2] # "static"
  BY TablesAre
<1> HIDE DEF w
<1>3. /\ s \in Seq(Tbl) /\ Len(s) = N + 3
      /\ \A i \in 1 .. N + 3 : s[i] = IF i <= N THEN tablesOpen[i] ELSE w[i - N]
  <2>1. /\ s \in Seq(Tbl) /\ Len(s) = Len(tablesOpen) + Len(w)
        /\ \A i \in 1 .. Len(tablesOpen) + Len(w) :
              s[i] = IF i <= Len(tablesOpen) THEN tablesOpen[i] ELSE w[i - Len(tablesOpen)]
    BY <1>1, <1>2, ConcatProperties, Zenon
  <2> HIDE DEF s
  <2> QED
    BY <1>2, <2>1
<1> HIDE DEF N, s
<1>4. ASSUME NEW i \in 1 .. N + 3, s[i][2] = "static" PROVE i > 2
  <2>1. CASE i <= N
    <3>1. i \in 1 .. N /\ s[i] = tablesOpen[i]
      BY <1>3, <2>1
    <3> QED
      BY <1>1, <1>4, <3>1
  <2>2. CASE ~(i <= N)
    <3>1. s[i] = w[i - N] /\ i - N \in 1 .. 3
      BY <1>1, <1>3, <2>2
    <3>2. i - N # 1 /\ i - N # 2
      BY <1>2, <1>4, <3>1
    <3> QED
      BY <1>1, <3>1, <3>2
  <2> QED
    BY <2>1, <2>2
<1> QED
  BY <1>3, <1>4 DEF N, s, w

LEMMA InitChain == Class!Init => ChainInv
  BY DEF Class!Init, ChainInv

chainVars == <<tablesOpen, temps>>

LEMMA StepChain == ChainInv /\ [Class!Next]_class => ChainInv'
<1> SUFFICES ASSUME ChainInv, [Class!Next]_class PROVE ChainInv'
  OBVIOUS
<1>0. Tbl' = Tbl
  BY DEF Tbl, Class!Global
<1>1. /\ tablesOpen \in Seq(Tbl) /\ temps \in Seq(Nat) /\ Len(tablesOpen) \in Nat
      /\ temps # <<>> => temps[Len(temps)] = Len(tablesOpen)
  BY DEF ChainInv
<1>2. CASE UNCHANGED chainVars
  BY <1>2 DEF ChainInv, chainVars, Tbl
<1>3. CASE Class!GetGlobalNamespace
  <2>1. tablesOpen' = <<Class!Space(Class!Global)>> /\ temps' = <<1>>
    BY <1>3 DEF Class!GetGlobalNamespace
  <2>2. Class!Space(Class!Global) \in Tbl /\ Class!Space(Class!Global)[2] # "static"
    BY TablesAre
  <2> QED
    BY <1>0, <2>1, <2>2 DEF ChainInv
(* What is on the stack in the next state, and what the last one owns. *)
<1>4. ASSUME NEW n \in Int, Class!MayChain, Class!TakesOver(n), Len(tablesOpen) + n \in Nat,
             tablesOpen' \in Seq(Tbl), Len(tablesOpen') = Len(tablesOpen) + n,
             \A i \in 1 .. Len(tablesOpen') : tablesOpen'[i][2] = "static" => i > 2
      PROVE  ChainInv'
  <2>1. temps # <<>>
    BY <1>4 DEF Class!MayChain
  <2>2. /\ temps' \in Seq(Nat) /\ temps' # <<>>
        /\ \A i \in 1 .. Len(temps') - 1 : temps'[i] = 0
        /\ temps'[Len(temps')] = Len(tablesOpen) + n
    BY <1>1, <1>4, <2>1, TakesOverKeeps
  <2> QED
    BY <1>0, <1>4, <2>2 DEF ChainInv
<1>5. ASSUME NEW n \in Namespaces, Class!BeginNamespace(n) PROVE ChainInv'
  <2>1. /\ Class!MayChain /\ Class!TakesOver(1) /\ tablesOpen' = Append(tablesOpen, Class!Space(n))
    BY <1>5 DEF Class!BeginNamespace
  <2>2. Class!Space(n) \in Tbl /\ Class!Space(n)[2] # "static"
    BY TablesAre
  <2>3. /\ tablesOpen' \in Seq(Tbl) /\ Len(tablesOpen') = Len(tablesOpen) + 1
        /\ \A i \in 1 .. Len(tablesOpen') : tablesOpen'[i][2] = "static" => i > 2
    BY <2>1, <2>2, LongerStack
  <2> QED
    BY <1>1, <1>4, <2>1, <2>3
<1>6. CASE Class!EndNamespace
  <2>1. /\ Class!MayChain /\ Class!TakesOver(-1) /\ Len(tablesOpen) > 1
        /\ tablesOpen' = SubSeq(tablesOpen, 1, Len(tablesOpen) - 1)
    BY <1>6 DEF Class!EndNamespace, Class!Front
  <2> DEFINE n == Len(tablesOpen) - 1
  <2>2. n \in 0 .. Len(tablesOpen) /\ Len(tablesOpen) + (-1) = n /\ n \in Nat
    BY <1>1, <2>1
  <2> HIDE DEF n
  <2>3. /\ tablesOpen' \in Seq(Tbl) /\ Len(tablesOpen') = n
        /\ \A i \in 1 .. n : tablesOpen'[i][2] = "static" => i > 2
    BY <2>1, <2>2, PartOfStack DEF n
  <2> QED
    BY <1>4, <2>1, <2>2, <2>3
<1>7. CASE Class!Copy
  <2>1. Class!MayChain /\ Class!TakesOver(0) /\ tablesOpen' = tablesOpen
    BY <1>7 DEF Class!Copy
  <2> QED
    BY <1>1, <1>4, <2>1 DEF ChainInv
<1>8. CASE Class!EndClass
  <2>1. /\ Class!MayChain /\ Class!TakesOver(-3) /\ tablesOpen # <<>>
        /\ tablesOpen[Len(tablesOpen)][2] = "static"
        /\ tablesOpen' = SubSeq(tablesOpen, 1, Len(tablesOpen) - 3)
    BY <1>8 DEF Class!EndClass, Class!InClass, Class!Last
  <2> DEFINE n == Len(tablesOpen) - 3
  <2>2. Len(tablesOpen) \in 1 .. Len(tablesOpen)
    BY <1>1, <2>1
  <2>3. Len(tablesOpen) > 2
    BY <2>1, <2>2 DEF ChainInv
  <2>4. n \in 0 .. Len(tablesOpen) /\ Len(tablesOpen) + (-3) = n /\ n \in Nat
    BY <1>1, <2>3
  <2> HIDE DEF n
  <2>5. /\ tablesOpen' \in Seq(Tbl) /\ Len(tablesOpen') = n
        /\ \A i \in 1 .. n : tablesOpen'[i][2] = "static" => i > 2
    BY <2>1, <2>4, PartOfStack DEF n
  <2> QED
    BY <1>4, <2>1, <2>4, <2>5
<1>9. CASE Class!Destruct
  <2>1. /\ temps # <<>> /\ temps' = SubSeq(temps, 1, Len(temps) - 1)
        /\ tablesOpen' = SubSeq(tablesOpen, 1, Len(tablesOpen) - temps[Len(temps)])
    BY <1>9 DEF Class!Destruct, Class!Front
  <2>2. tablesOpen' = SubSeq(tablesOpen, 1, 0)
    <3> DEFINE L == Len(tablesOpen)
    <3>1. temps[Len(temps)] = L /\ L \in Nat
      BY <1>1, <2>1
    <3>2. tablesOpen' = SubSeq(tablesOpen, 1, L - L)
      BY ONLY <2>1, <3>1, Zenon
    <3> HIDE DEF L
    <3>3. L - L = 0
      BY <3>1
    <3> QED
      BY ONLY <3>2, <3>3, Zenon
  <2>3. tablesOpen' = <<>>
    BY <2>2, SubSeqEmpty
  <2>4. /\ temps' \in Seq(Nat) /\ Len(temps') = Len(temps) - 1
        /\ \A i \in 1 .. Len(temps) - 1 : temps'[i] = temps[i]
    <3> DEFINE n == Len(temps) - 1
    <3>1. n \in Nat /\ n <= Len(temps) /\ temps' = SubSeq(temps, 1, n)
      <4>1. Len(temps) \in Nat /\ Len(temps) # 0
        BY <1>1, <2>1
      <4>2. n \in Nat /\ n <= Len(temps)
        BY <4>1
      <4> QED
        BY <2>1, <4>2
    <3> HIDE DEF n
    <3>2. /\ SubSeq(temps, 1, n) \in Seq(Nat) /\ Len(SubSeq(temps, 1, n)) = n
          /\ \A i \in 1 .. n : SubSeq(temps, 1, n)[i] = temps[i]
      BY ONLY <1>1, <3>1
    <3> QED
      BY <3>1, <3>2 DEF n
  <2>5. \A i \in 1 .. Len(temps') : temps'[i] = 0
    BY <2>4 DEF ChainInv
  <2>6. Len(temps') \in Nat /\ (temps' # <<>> => Len(temps') \in 1 .. Len(temps'))
    BY <2>4
  <2> QED
    BY <1>0, <2>3, <2>4, <2>5, <2>6 DEF ChainInv
<1>10. ASSUME NEW c \in Classes, Class!MayChain, Class!TakesOver(3),
              tablesOpen' = tablesOpen \o <<Class!ConstTable(c), Class!ObjectTable(c), Class!StaticTable(c)>>
       PROVE  ChainInv'
  <2>1. /\ tablesOpen' \in Seq(Tbl) /\ Len(tablesOpen') = Len(tablesOpen) + 3
        /\ \A i \in 1 .. Len(tablesOpen') : tablesOpen'[i][2] = "static" => i > 2
    BY <1>10, OpensClass
  <2>2. 3 \in Int /\ Len(tablesOpen) + 3 \in Nat
    BY <1>1
  <2> QED
    BY <1>4, <1>10, <2>1, <2>2
<1>11. ASSUME NEW c \in Classes, Class!BeginClass(c) \/ Class!BeginClassAgain(c) PROVE ChainInv'
  <2>1. CASE Class!BeginClass(c)
    BY <1>10, <2>1 DEF Class!BeginClass, Class!OpenClass
  <2>2. CASE Class!BeginClassAgain(c)
    BY <1>2, <2>2 DEF Class!BeginClassAgain, chainVars
  <2> QED
    BY <1>11, <2>1, <2>2
<1>12. ASSUME NEW c \in Classes, NEW u \in Classes, Class!DeriveClass(c, u) PROVE ChainInv'
  BY <1>10, <1>12 DEF Class!DeriveClass, Class!OpenClass
<1>13. ASSUME NEW key \in Keys, NEW b \in BOOLEAN,
              \/ Class!AddFunction(key, b) \/ Class!AddData(key, b)
              \/ Class!AddStaticData(key, b) \/ Class!AddVariable(key, b)
              \/ Class!AddStaticFunction(key) \/ Class!AddFreeFunction(key)
       PROVE  ChainInv'
  <2>1. Class!Adds
    BY <1>13, Zenon DEF Class!AddFunction, Class!AddData, Class!AddStaticData, Class!AddVariable,
          Class!AddStaticFunction, Class!AddFreeFunction
  <2> QED
    BY <1>2, <2>1 DEF Class!Adds, chainVars
<1>14. CASE Class!AddGlobalVariable
  BY <1>2, <1>14 DEF Class!AddGlobalVariable, chainVars
<1>15. ASSUME NEW c \in Classes, NEW b \in BOOLEAN, Class!Push(c, b) PROVE ChainInv'
  BY <1>2, <1>15 DEF Class!Push, chainVars
<1>16. ASSUME NEW i \in DOMAIN objects, Class!Collect(i) PROVE ChainInv'
  BY <1>2, <1>16 DEF Class!Collect, chainVars
<1>17. CASE UNCHANGED class
  BY <1>2, <1>17 DEF class, chainVars
<1> QED
  BY ONLY [Class!Next]_class, <1>3, <1>5, <1>6, <1>7, <1>8, <1>9, <1>11, <1>12, <1>13, <1>14,
     <1>15, <1>16, <1>17, Zenon DEF Class!Next

(* The temporaries of a chain of calls own the whole Lua stack between     *)
(* them, wherever the chain breaks off, for any classes, namespaces and    *)
(* lengths of the chain (Namespace.h 392-542, 889-1019).                            *)
THEOREM ChainsOwnTheirStack == AllSpec => []StackIsOwned
<1>1. AllInit => ChainInv
  BY InitChain DEF AllInit
<1>2. ChainInv /\ [AllNext]_allVars => ChainInv'
  <2>1. ClassStep => Class!Next
    BY DEF ClassStep
  <2>2. PluginStep \/ CountedStep \/ ReferenceStep \/ UNCHANGED allVars => UNCHANGED class
    BY Zenon DEF PluginStep, CountedStep, ReferenceStep, allVars
  <2> QED
    BY ONLY <2>1, <2>2, StepChain, Zenon DEF AllNext
<1>3. ChainInv => StackIsOwned
  BY ChainOwns DEF StackIsOwned
<1> QED
  BY <1>1, <1>2, <1>3, PTL DEF AllSpec

-----------------------------------------------------------------------------
(* Registered classes: their tables, and what is found in them.            *)

Kinds == {"class", "const", "static"}
Places == (Classes \X Kinds) \cup ((Namespaces \cup {Class!Global}) \X {"namespace"})
Functions == {"none", "const", "mutable", "static"}
Tables ==
    [made : {TRUE}, parent : Places \cup {Class!NoTable}, fns : [Keys -> Functions],
     get : SUBSET Keys, set : [Keys -> {"none", "set", "readonly"}]]

(* A const table has const functions and nothing to write with; what is    *)
(* written in a class itself is read there.                                *)
TableOf(t, r) ==
    /\ r \in Tables
    /\ t[2] = "const" => \A key \in Keys : r.fns[key] \in {"none", "const"} /\ r.set[key] = "none"
    /\ t[2] = "static" => \A key \in Keys : key \in r.get <=> r.set[key] # "none"

TablesInv(f) ==
    /\ DOMAIN f = Places
    /\ \A t \in Places : f[t] = Class!Absent \/ TableOf(t, f[t])

(* The three tables of a class are made together, and their parents are    *)
(* those of its base or none has one.                                      *)
Descends(f, c) ==
    \/ \A k \in Kinds : f[<<c, k>>].parent = Class!NoTable
    \/ /\ Base[c] \in Classes /\ f[<<Base[c], "class">>].made
       /\ \A k \in Kinds : f[<<c, k>>].parent = <<Base[c], k>>

MadeTogether(f) ==
    \A c \in Classes :
        /\ \A k, l \in Kinds : f[<<c, k>>].made => f[<<c, l>>].made
        /\ f[<<c, "class">>].made => Descends(f, c)

(* On the stack are tables that were made, under the static table of a     *)
(* class its other two.                                                    *)
Opened(s, f) ==
    /\ s \in Seq(Places)
    /\ \A i \in 1 .. Len(s) :
          /\ f[s[i]].made
          /\ s[i][2] = "static" => /\ i > 2 /\ s[i - 1] = <<s[i][1], "class">>
                                   /\ s[i - 2] = <<s[i][1], "const">>

Objects ==
    {o \in [class : Classes, metatable : Places] :
        o.metatable \in {<<o.class, "class">>, <<o.class, "const">>}}

ObjectsInv ==
    /\ objects \in Seq(Objects)
    /\ \A i \in 1 .. Len(objects) : table[<<objects[i].class, "class">>].made

ClassInv ==
    /\ TablesInv(table) /\ table[Class!Space(Class!Global)].made /\ MadeTogether(table)
    /\ Opened(tablesOpen, table)
    /\ ObjectsInv

LEMMA Distinct ==
    /\ \A c, d \in Classes : \A k, l \in Kinds : <<c, k>> = <<d, l>> <=> c = d /\ k = l
    /\ \A c \in Classes : \A k \in Kinds : <<c, k>> \in Places /\ <<c, k>> # Class!NoTable
    /\ \A n \in Namespaces \cup {Class!Global} :
          /\ Class!Space(n) \in Places
          /\ \A c \in Classes : \A k \in Kinds : Class!Space(n) # <<c, k>>
    /\ \A t \in Places : t # Class!NoTable
  BY DEF Places, Kinds, Class!Space, Class!NoTable

LEMMA NewTable ==
    ASSUME NEW t, NEW p \in Places \cup {Class!NoTable}
    PROVE  TableOf(t, Class!Table(p)) /\ Class!Table(p).made /\ Class!Table(p).parent = p
<1> DEFINE r == Class!Table(p)
<1>1. r = [made |-> TRUE, parent |-> p, fns |-> [key \in Keys |-> "none"], get |-> {},
           set |-> [key \in Keys |-> "none"]]
  BY DEF Class!Table
<1>2. /\ r.made = TRUE /\ r.parent = p /\ r.get = {}
      /\ \A key \in Keys : r.fns[key] = "none" /\ r.set[key] = "none"
  BY <1>1
<1>3. r \in Tables
  <2>1. [key \in Keys |-> "none"] \in [Keys -> Functions]
    BY DEF Functions
  <2>2. [key \in Keys |-> "none"] \in [Keys -> {"none", "set", "readonly"}]
    OBVIOUS
  <2> QED
    BY <1>1, <2>1, <2>2 DEF Tables
<1> HIDE DEF r
<1>4. TableOf(t, r)
  BY <1>2, <1>3 DEF TableOf
<1> QED
  BY <1>2, <1>4 DEF r

(* What changes in a table that was made leaves the rest as it was.        *)
SameShape(f, g) ==
    \A t \in Places : f[t].made => g[t].made /\ g[t].parent = f[t].parent

LEMMA MadeStays ==
    ASSUME NEW f, NEW g, MadeTogether(f), SameShape(f, g),
           \A t \in Places : g[t].made => f[t].made
    PROVE  MadeTogether(g)
<1> SUFFICES ASSUME NEW c \in Classes
             PROVE  /\ \A k, l \in Kinds : g[<<c, k>>].made => g[<<c, l>>].made
                    /\ g[<<c, "class">>].made => Descends(g, c)
  BY DEF MadeTogether
<1>1. \A d \in Classes : \A k \in Kinds :
         /\ f[<<d, k>>].made => g[<<d, k>>].made /\ g[<<d, k>>].parent = f[<<d, k>>].parent
         /\ g[<<d, k>>].made => f[<<d, k>>].made
  BY Distinct DEF SameShape
<1>2. "class" \in Kinds
  BY DEF Kinds
<1>3. \A k, l \in Kinds : g[<<c, k>>].made => g[<<c, l>>].made
  BY <1>1, Zenon DEF MadeTogether
<1>4. ASSUME g[<<c, "class">>].made PROVE Descends(g, c)
  <2>1. Descends(f, c) /\ f[<<c, "class">>].made
    BY <1>1, <1>2, <1>4, Zenon DEF MadeTogether
  <2>2. \A k \in Kinds : g[<<c, k>>].parent = f[<<c, k>>].parent
    BY <1>1, <1>2, <2>1, Zenon DEF MadeTogether
  <2>3. Base[c] \in Classes /\ f[<<Base[c], "class">>].made => g[<<Base[c], "class">>].made
    BY <1>1, <1>2, Zenon
  <2> QED
    BY <2>1, <2>2, <2>3, Zenon DEF Descends
<1> QED
  BY <1>3, <1>4

LEMMA OpenedStays ==
    ASSUME NEW s, NEW f, NEW g, Opened(s, f), SameShape(f, g)
    PROVE  Opened(s, g)
<1>1. \A i \in 1 .. Len(s) : s[i] \in Places
  BY DEF Opened
<1> QED
  BY <1>1 DEF Opened, SameShape

LEMMA Rewritten ==
    ASSUME NEW f, TablesInv(f), NEW t \in Places, f[t].made, NEW r, TableOf(t, r), r.parent = f[t].parent
    PROVE  LET g == [f EXCEPT ![t] = r]
           IN  /\ TablesInv(g) /\ SameShape(f, g) /\ g[t] = r
               /\ \A u \in Places : u # t => g[u] = f[u]
               /\ \A u \in Places : g[u].made => f[u].made
<1> DEFINE g == [f EXCEPT ![t] = r]
<1>1. DOMAIN g = Places /\ g[t] = r /\ \A u \in Places : u # t => g[u] = f[u]
  BY DEF TablesInv
<1>2. r.made
  BY DEF TableOf, Tables
<1> HIDE DEF g
<1>3. TablesInv(g)
  BY <1>1 DEF TablesInv
<1>4. SameShape(f, g)
  BY <1>1, <1>2 DEF SameShape
<1>5. \A u \in Places : g[u].made => f[u].made
  BY <1>1
<1> QED
  BY <1>1, <1>3, <1>4, <1>5 DEF g

LEMMA RecordOf ==
    ASSUME NEW f, TablesInv(f), NEW t \in Places, f[t].made
    PROVE  TableOf(t, f[t]) /\ f[t] \in Tables
  BY DEF TablesInv, TableOf, Class!Absent

LEMMA WithFns ==
    ASSUME NEW t, NEW r, TableOf(t, r), NEW key \in Keys, NEW v \in Functions,
           t[2] = "const" => v = "const"
    PROVE  LET q == [r EXCEPT !.fns[key] = v]
           IN  TableOf(t, q) /\ q.parent = r.parent
<1> DEFINE q == [r EXCEPT !.fns[key] = v]
<1>1. r \in Tables
  BY DEF TableOf
<1>2. q = [r EXCEPT !.fns = [r.fns EXCEPT ![key] = v]]
  BY <1>1 DEF Tables
<1>3. [r.fns EXCEPT ![key] = v] \in [Keys -> Functions]
  BY <1>1 DEF Tables
<1>4. /\ q \in Tables /\ q.get = r.get /\ q.set = r.set /\ q.parent = r.parent
      /\ q.fns = [r.fns EXCEPT ![key] = v]
  BY <1>1, <1>2, <1>3 DEF Tables
<1> HIDE DEF q
<1>5. \A l \in Keys : q.fns[l] = IF l = key THEN v ELSE r.fns[l]
  BY <1>1, <1>4 DEF Tables
<1> QED
  BY <1>4, <1>5 DEF TableOf, q

LEMMA WithGet ==
    ASSUME NEW t, NEW r, TableOf(t, r), NEW key \in Keys, t[2] # "static"
    PROVE  LET q == [r EXCEPT !.get = @ \cup {key}]
           IN  TableOf(t, q) /\ q.parent = r.parent
<1> DEFINE q == [r EXCEPT !.get = @ \cup {key}]
<1>1. r \in Tables
  BY DEF TableOf
<1>2. /\ q \in Tables /\ q.fns = r.fns /\ q.set = r.set /\ q.parent = r.parent
  BY <1>1 DEF Tables
<1> HIDE DEF q
<1> QED
  BY <1>2 DEF TableOf, q

LEMMA WithSet ==
    ASSUME NEW t, NEW r, TableOf(t, r), NEW key \in Keys, t[2] = "class",
           NEW v, v \in {"set", r.set[key]}, NEW q, q = [r EXCEPT !.set[key] = v]
    PROVE  TableOf(t, q) /\ q.parent = r.parent
<1>1. r \in Tables
  BY DEF TableOf
<1>2. q = [r EXCEPT !.set = [r.set EXCEPT ![key] = v]]
  BY <1>1 DEF Tables
<1>3. [r.set EXCEPT ![key] = v] \in [Keys -> {"none", "set", "readonly"}]
  BY <1>1 DEF Tables
<1>4. q \in Tables /\ q.parent = r.parent
  BY <1>1, <1>2, <1>3 DEF Tables
<1>5. t[2] # "const" /\ t[2] # "static"
  OBVIOUS
<1> QED
  BY <1>4, <1>5 DEF TableOf

LEMMA WithBoth ==
    ASSUME NEW t, NEW r, TableOf(t, r), NEW key \in Keys, t[2] # "const",
           NEW v, v \in {"set", "readonly"}, NEW q, q \in Tables,
           q.get = r.get \cup {key}, q.set = [r.set EXCEPT ![key] = v]
    PROVE  TableOf(t, q)
<1>1. r \in Tables
  BY DEF TableOf
<1>2. \A l \in Keys : q.set[l] = IF l = key THEN v ELSE r.set[l]
  BY <1>1 DEF Tables
<1> QED
  BY <1>2 DEF TableOf

(* The tables of a class that is registered.                               *)
LEMMA OpensTables ==
    ASSUME NEW f, TablesInv(f), MadeTogether(f), NEW c \in Classes, ~f[<<c, "class">>].made,
           NEW p \in [Kinds -> Places \cup {Class!NoTable}],
           \/ \A k \in Kinds : p[k] = Class!NoTable
           \/ /\ Base[c] \in Classes /\ f[<<Base[c], "class">>].made
              /\ \A k \in Kinds : p[k] = <<Base[c], k>>,
           NEW g,
           DOMAIN g = Places,
           \A k \in Kinds : g[<<c, k>>] = Class!Table(p[k]),
           \A t \in Places : (\A k \in Kinds : t # <<c, k>>) => g[t] = f[t]
    PROVE  /\ TablesInv(g) /\ SameShape(f, g) /\ MadeTogether(g)
           /\ \A k \in Kinds : g[<<c, k>>].made
<1>1. \A k \in Kinds : p[k] \in Places \cup {Class!NoTable}
  OBVIOUS
<1>2. \A k \in Kinds : /\ TableOf(<<c, k>>, g[<<c, k>>]) /\ g[<<c, k>>].made
                       /\ g[<<c, k>>].parent = p[k]
  BY <1>1, NewTable
<1>3. \A t \in Places : (\E k \in Kinds : t = <<c, k>>) \/ g[t] = f[t]
  OBVIOUS
<1>4. TablesInv(g)
  BY <1>2, <1>3 DEF TablesInv
<1>5. "class" \in Kinds
  BY DEF Kinds
<1>6. \A k \in Kinds : ~f[<<c, k>>].made
  BY <1>5, Zenon DEF MadeTogether
<1>7. SameShape(f, g)
  BY <1>3, <1>6 DEF SameShape
<1>8. ASSUME NEW d \in Classes
      PROVE  /\ \A k, l \in Kinds : g[<<d, k>>].made => g[<<d, l>>].made
             /\ g[<<d, "class">>].made => Descends(g, d)
  <2>1. CASE d = c
    <3>1. Base[c] \in Classes /\ f[<<Base[c], "class">>].made => g[<<Base[c], "class">>].made
      BY <1>5, <1>7, Distinct DEF SameShape
    <3>2. Descends(g, c)
      BY <1>2, <3>1, Zenon DEF Descends
    <3> QED
      BY <1>2, <2>1, <3>2, Zenon
  <2>2. CASE d # c
    <3>1. \A k \in Kinds : g[<<d, k>>] = f[<<d, k>>]
      BY <1>3, <2>2, Distinct
    <3>2. Base[d] \in Classes /\ f[<<Base[d], "class">>].made => g[<<Base[d], "class">>].made
      BY <1>5, <1>7, Distinct DEF SameShape
    <3>3. \A k, l \in Kinds : g[<<d, k>>].made => g[<<d, l>>].made
      BY <3>1, Zenon DEF MadeTogether
    <3>4. g[<<d, "class">>].made => Descends(f, d)
      BY <1>5, <3>1, Zenon DEF MadeTogether
    <3>5. g[<<d, "class">>].made => Descends(g, d)
      BY <3>1, <3>2, <3>4, Zenon DEF Descends
    <3> QED
      BY <3>3, <3>5
  <2> QED
    BY <2>1, <2>2
<1>9. MadeTogether(g)
  BY <1>8, Zenon DEF MadeTogether
<1> QED
  BY <1>2, <1>4, <1>7, <1>9

(* The stack.                                                              *)
LEMMA OpenedPart ==
    ASSUME NEW s, NEW f, Opened(s, f), NEW n \in 0 .. Len(s)
    PROVE  Opened(SubSeq(s, 1, n), f)
<1> DEFINE u == SubSeq(s, 1, n)
<1>1. s \in Seq(Places)
  BY DEF Opened
<1>2. u \in Seq(Places) /\ Len(u) = n /\ \A i \in 1 .. n : u[i] = s[i]
  BY <1>1
<1> HIDE DEF u
<1>3. ASSUME NEW i \in 1 .. n
      PROVE  /\ f[u[i]].made
             /\ u[i][2] = "static" => /\ i > 2 /\ u[i - 1] = <<u[i][1], "class">>
                                      /\ u[i - 2] = <<u[i][1], "const">>
  <2>1. i \in 1 .. Len(s) /\ u[i] = s[i]
    BY <1>1, <1>2
  <2>2. i > 2 => u[i - 1] = s[i - 1] /\ u[i - 2] = s[i - 2]
    BY <1>2
  <2> QED
    BY <2>1, <2>2 DEF Opened
<1> QED
  BY <1>2, <1>3 DEF Opened, u

LEMMA OpenedLonger ==
    ASSUME NEW s, NEW f, Opened(s, f), NEW t \in Places, f[t].made, t[2] # "static"
    PROVE  Opened(Append(s, t), f)
<1> DEFINE u == Append(s, t)
           n == Len(s)
<1>1. s \in Seq(Places)
  BY DEF Opened
<1>2. n \in Nat /\ u \in Seq(Places) /\ Len(u) = n + 1 /\ u[n + 1] = t /\ \A i \in 1 .. n : u[i] = s[i]
  BY <1>1, AppendProperties
<1> HIDE DEF u, n
<1>3. ASSUME NEW i \in 1 .. n + 1
      PROVE  /\ f[u[i]].made
             /\ u[i][2] = "static" => /\ i > 2 /\ u[i - 1] = <<u[i][1], "class">>
                                      /\ u[i - 2] = <<u[i][1], "const">>
  <2>1. CASE i = n + 1
    BY <1>2, <2>1
  <2>2. CASE i # n + 1
    <3>1. i \in 1 .. Len(s) /\ u[i] = s[i]
      BY <1>2, <2>2 DEF n
    <3>2. i > 2 => u[i - 1] = s[i - 1] /\ u[i - 2] = s[i - 2]
      BY <1>2, <2>2
    <3> QED
      BY <3>1, <3>2 DEF Opened
  <2> QED
    BY <2>1, <2>2
<1> QED
  BY <1>2, <1>3 DEF Opened, u

LEMMA Concatenated ==
    ASSUME NEW S, NEW p \in Seq(S), NEW w \in Seq(S), NEW q, q = p \o w
    PROVE  /\ q \in Seq(S) /\ Len(q) = Len(p) + Len(w)
           /\ \A i \in 1 .. Len(p) + Len(w) : q[i] = IF i <= Len(p) THEN p[i] ELSE w[i - Len(p)]
<1>1. /\ p \o w \in Seq(S) /\ Len(p \o w) = Len(p) + Len(w)
      /\ \A i \in 1 .. Len(p) + Len(w) :
            (p \o w)[i] = IF i <= Len(p) THEN p[i] ELSE w[i - Len(p)]
  BY ConcatProperties
<1> QED
  BY <1>1

LEMMA OpenedClass ==
    ASSUME NEW s, NEW f, Opened(s, f), NEW c \in Classes, \A k \in Kinds : f[<<c, k>>].made
    PROVE  Opened(s \o <<<<c, "const">>, <<c, "class">>, <<c, "static">>>>, f)
<1> DEFINE w == <<<<c, "const">>, <<c, "class">>, <<c, "static">>>>
           u == s \o w
           n == Len(s)
<1>1. s \in Seq(Places) /\ n \in Nat
  BY DEF Opened
<1>2. /\ w \in Seq(Places) /\ Len(w) = 3 /\ \A i \in 1 .. 3 : f[w[i]].made
      /\ w[1] = <<c, "const">> /\ w[2] = <<c, "class">> /\ w[3] = <<c, "static">>
  <2>1. "const" \in Kinds /\ "class" \in Kinds /\ "static" \in Kinds
    BY DEF Kinds
  <2>2. /\ <<c, "const">> \in Places /\ <<c, "class">> \in Places /\ <<c, "static">> \in Places
        /\ f[<<c, "const">>].made /\ f[<<c, "class">>].made /\ f[<<c, "static">>].made
    BY <2>1, Distinct
  <2> QED
    BY <2>2
<1> HIDE DEF w
<1>3. /\ u \in Seq(Places) /\ Len(u) = n + 3 /\ \A i \in 1 .. n : u[i] = s[i]
      /\ \A i \in 1 .. 3 : u[n + i] = w[i]
  <2>0. s \in Seq(Places) /\ w \in Seq(Places) /\ u = s \o w
    BY <1>1, <1>2
  <2> HIDE DEF u
  <2>1. /\ u \in Seq(Places) /\ Len(u) = Len(s) + Len(w)
        /\ \A i \in 1 .. Len(s) + Len(w) : u[i] = IF i <= Len(s) THEN s[i] ELSE w[i - Len(s)]
    BY ONLY <2>0, Concatenated
  <2>2. \A i \in 1 .. 3 : n + i \in 1 .. n + 3 /\ ~(n + i <= n) /\ (n + i) - n = i
    BY <1>1
  <2>3. \A i \in 1 .. n : i \in 1 .. n + 3 /\ i <= n
    BY <1>1
  <2> HIDE DEF u, n
  <2>4. /\ u \in Seq(Places) /\ Len(u) = n + 3
        /\ \A i \in 1 .. n + 3 : u[i] = IF i <= n THEN s[i] ELSE w[i - n]
    BY <1>2, <2>1 DEF n
  <2> QED
    BY <2>2, <2>3, <2>4
<1> HIDE DEF u, n
<1>4. ASSUME NEW i \in 1 .. n + 3
      PROVE  /\ f[u[i]].made
             /\ u[i][2] = "static" => /\ i > 2 /\ u[i - 1] = <<u[i][1], "class">>
                                      /\ u[i - 2] = <<u[i][1], "const">>
  <2>1. CASE i \in 1 .. n
    <3>1. i \in 1 .. Len(s) /\ u[i] = s[i]
      BY <1>3, <2>1 DEF n
    <3>2. i > 2 => u[i - 1] = s[i - 1] /\ u[i - 2] = s[i - 2]
      BY <1>1, <1>3, <2>1
    <3> QED
      BY <3>1, <3>2 DEF Opened
  <2>2. CASE i \notin 1 .. n
    <3>1. PICK j \in 1 .. 3 : i = n + j
      <4>1. i - n \in 1 .. 3 /\ i = n + (i - n)
        BY <1>1, <2>2
      <4> QED
        BY <4>1
    <3>2. u[i] = w[j] /\ f[u[i]].made
      BY <1>2, <1>3, <3>1
    <3>3. ASSUME u[i][2] = "static"
          PROVE  i > 2 /\ u[i - 1] = <<c, "class">> /\ u[i - 2] = <<c, "const">> /\ u[i][1] = c
      <4>1. j = 3
        BY <1>2, <3>1, <3>2, <3>3
      <4>2. i - 1 = n + 2 /\ i - 2 = n + 1 /\ i > 2 /\ 1 \in 1 .. 3 /\ 2 \in 1 .. 3
        BY <1>1, <3>1, <4>1
      <4> QED
        BY <1>2, <1>3, <3>2, <4>1, <4>2
    <3> QED
      BY <3>2, <3>3
  <2> QED
    BY <2>1, <2>2
<1> QED
  BY <1>3, <1>4 DEF Opened, u, w

(* What a step of a class that is open, or of a namespace, writes.         *)
Keeps(f, g) ==
    TablesInv(g) /\ SameShape(f, g) /\ \A t \in Places : g[t].made => f[t].made

LEMMA KeepsSelf == ASSUME NEW f, TablesInv(f) PROVE Keeps(f, f)
  BY DEF Keeps, SameShape

LEMMA KeepsBoth ==
    ASSUME NEW f, NEW g, NEW h, Keeps(f, g), Keeps(g, h)
    PROVE  Keeps(f, h)
  BY DEF Keeps, SameShape

LEMMA KeepsFns ==
    ASSUME NEW f, TablesInv(f), NEW t \in Places, f[t].made, NEW key \in Keys, NEW v \in Functions,
           t[2] = "const" => v = "const"
    PROVE  Keeps(f, [f EXCEPT ![t].fns[key] = v])
<1> DEFINE q == [f[t] EXCEPT !.fns[key] = v]
<1>1. TableOf(t, q) /\ q.parent = f[t].parent
  BY RecordOf, WithFns
<1>2. [f EXCEPT ![t].fns[key] = v] = [f EXCEPT ![t] = q]
  OBVIOUS
<1> HIDE DEF q
<1>3. Keeps(f, [f EXCEPT ![t] = q])
  BY <1>1, Rewritten DEF Keeps
<1> QED
  BY <1>2, <1>3

LEMMA KeepsGet ==
    ASSUME NEW f, TablesInv(f), NEW t \in Places, f[t].made, NEW key \in Keys, t[2] # "static"
    PROVE  Keeps(f, [f EXCEPT ![t].get = @ \cup {key}])
<1> DEFINE q == [f[t] EXCEPT !.get = @ \cup {key}]
<1>1. TableOf(t, q) /\ q.parent = f[t].parent
  BY RecordOf, WithGet
<1>2. [f EXCEPT ![t].get = @ \cup {key}] = [f EXCEPT ![t] = q]
  OBVIOUS
<1> HIDE DEF q
<1>3. Keeps(f, [f EXCEPT ![t] = q])
  BY <1>1, Rewritten DEF Keeps
<1> QED
  BY <1>2, <1>3

LEMMA KeepsSet ==
    ASSUME NEW f, TablesInv(f), NEW t \in Places, f[t].made, NEW key \in Keys, t[2] = "class",
           NEW v \in {"set", f[t].set[key]}
    PROVE  Keeps(f, [f EXCEPT ![t].set[key] = v])
<1> DEFINE q == [f[t] EXCEPT !.set[key] = v]
<1>1. TableOf(t, q) /\ q.parent = f[t].parent
  <2>1. TableOf(t, f[t])
    BY RecordOf
  <2> QED
    BY <2>1, WithSet
<1>2. [f EXCEPT ![t].set[key] = v] = [f EXCEPT ![t] = q]
  OBVIOUS
<1> HIDE DEF q
<1>3. Keeps(f, [f EXCEPT ![t] = q])
  BY <1>1, Rewritten DEF Keeps
<1> QED
  BY <1>2, <1>3

LEMMA KeepsVariable ==
    ASSUME NEW f, TablesInv(f), NEW t \in Places, f[t].made, NEW key \in Keys, t[2] # "const",
           NEW v, v \in {"set", "readonly"},
           NEW x, x = [f[t].set EXCEPT ![key] = v],
           NEW q, q = [f[t] EXCEPT !.get = f[t].get \cup {key}, !.set = x]
    PROVE  Keeps(f, [f EXCEPT ![t] = q])
<1> DEFINE r == f[t]
<1>1. TableOf(t, r) /\ r \in Tables
  BY RecordOf
<1> HIDE DEF r
<1>2. x \in [Keys -> {"none", "set", "readonly"}]
  BY <1>1 DEF Tables, r
<1>3. q \in Tables /\ q.parent = r.parent /\ q.get = r.get \cup {key} /\ q.set = x
  BY <1>1, <1>2 DEF Tables, r
<1>4. /\ x = [r.set EXCEPT ![key] = v] /\ t[2] # "const" /\ v \in {"set", "readonly"}
      /\ TablesInv(f) /\ t \in Places /\ f[t].made /\ key \in Keys /\ r.parent = f[t].parent
  BY DEF r
<1>5. TableOf(t, q)
  BY ONLY <1>1, <1>3, <1>4, WithBoth
<1> QED
  BY ONLY <1>3, <1>4, <1>5, Rewritten DEF Keeps

LEMMA InOpenClass ==
    ASSUME ClassInv, Class!InClass
    PROVE  \E c \in Classes :
              /\ Class!AtTop(1) = <<c, "static">> /\ table[<<c, "static">>].made
              /\ Class!AtTop(2) = <<c, "class">> /\ table[<<c, "class">>].made
              /\ Class!AtTop(3) = <<c, "const">> /\ table[<<c, "const">>].made
              /\ Len(tablesOpen) > 2
<1> DEFINE n == Len(tablesOpen)
           t == tablesOpen[n]
<1>1. Opened(tablesOpen, table) /\ tablesOpen \in Seq(Places)
  BY DEF ClassInv, Opened
<1>2. tablesOpen # <<>> /\ t[2] = "static"
  BY DEF Class!InClass, Class!Last
<1>3. n \in Nat /\ n \in 1 .. n /\ t \in Places
  BY <1>1, <1>2
<1>4. \E c \in Classes : t = <<c, "static">>
  BY <1>2, <1>3 DEF Places, Kinds
<1>5. PICK c \in Classes : t = <<c, "static">>
  BY <1>4
<1>6. t[1] = c
  BY <1>5
<1> HIDE DEF n
<1>7. table[t].made /\ n > 2 /\ tablesOpen[n - 1] = <<c, "class">> /\ tablesOpen[n - 2] = <<c, "const">>
  BY <1>1, <1>2, <1>3, <1>6 DEF Opened, n
<1>8. n + 1 - 1 = n /\ n + 1 - 2 = n - 1 /\ n + 1 - 3 = n - 2
  BY <1>3
<1>9. Class!AtTop(1) = t /\ Class!AtTop(2) = <<c, "class">> /\ Class!AtTop(3) = <<c, "const">>
  BY <1>7, <1>8 DEF Class!AtTop, n
<1>10. table[<<c, "class">>].made /\ table[<<c, "const">>].made
  <2>1. table[<<c, "static">>].made
    BY <1>5, <1>7
  <2>2. {"class", "const", "static"} \subseteq Kinds
    BY DEF Kinds
  <2> QED
    BY <2>1, <2>2, Zenon DEF ClassInv, MadeTogether
<1> QED
  BY <1>5, <1>7, <1>9, <1>10 DEF n

LEMMA InOpenSpace ==
    ASSUME ClassInv, Class!InSpace
    PROVE  \E n \in Namespaces \cup {Class!Global} :
              Class!AtTop(1) = Class!Space(n) /\ table[Class!Space(n)].made
<1> DEFINE n == Len(tablesOpen)
           t == tablesOpen[n]
<1>1. Opened(tablesOpen, table) /\ tablesOpen \in Seq(Places)
  BY DEF ClassInv, Opened
<1>2. tablesOpen # <<>> /\ t[2] = "namespace"
  BY DEF Class!InSpace, Class!Last
<1>3. n \in Nat /\ n \in 1 .. n /\ t \in Places
  BY <1>1, <1>2
<1>4. \E m \in Namespaces \cup {Class!Global} : t = Class!Space(m)
  BY <1>2, <1>3 DEF Places, Kinds, Class!Space
<1> HIDE DEF n
<1>5. table[t].made /\ n + 1 - 1 = n
  BY <1>1, <1>3 DEF Opened, n
<1>6. Class!AtTop(1) = t
  BY <1>5 DEF Class!AtTop, n
<1> QED
  BY <1>4, <1>5, <1>6

LEMMA InitClasses == Class!Init => ClassInv
<1> SUFFICES ASSUME Class!Init PROVE ClassInv
  OBVIOUS
<1> DEFINE G == Class!Space(Class!Global)
<1>1. /\ DOMAIN table = Places
      /\ \A t \in Places : table[t] = IF t = G THEN Class!Table(Class!NoTable) ELSE Class!Absent
      /\ tablesOpen = <<>> /\ objects = <<>>
  BY DEF Class!Init, Places, Kinds
<1>2. TableOf(G, Class!Table(Class!NoTable)) /\ Class!Table(Class!NoTable).made
  BY NewTable
<1>3. G \in Places /\ \A c \in Classes : \A k \in Kinds : <<c, k>> \in Places /\ <<c, k>> # G
  BY Distinct
<1> HIDE DEF G
<1>4. TablesInv(table) /\ table[G].made
  BY <1>1, <1>2, <1>3 DEF TablesInv
<1>5. \A c \in Classes : \A k \in Kinds : ~table[<<c, k>>].made
  <2>1. \A c \in Classes : \A k \in Kinds : table[<<c, k>>] = Class!Absent
    BY <1>1, <1>3
  <2>2. ~Class!Absent.made
    BY DEF Class!Absent
  <2> QED
    BY <2>1, <2>2, Zenon
<1>6. MadeTogether(table)
  <2>1. "class" \in Kinds
    BY DEF Kinds
  <2> QED
    BY <1>5, <2>1, Zenon DEF MadeTogether
<1>7. Opened(tablesOpen, table)
  BY <1>1 DEF Opened
<1> QED
  BY <1>1, <1>4, <1>6, <1>7 DEF ClassInv, ObjectsInv, G

(* What becomes of the classes when the tables keep their shape.           *)
LEMMA ClassesKept ==
    ASSUME ClassInv, SameShape(table, table'), TablesInv(table'), MadeTogether(table'),
           Opened(tablesOpen', table'), objects' = objects
    PROVE  ClassInv'
<1>1. Places' = Places /\ Class!Space(Class!Global) \in Places
  BY Distinct DEF Places, Kinds
<1>2. table'[Class!Space(Class!Global)].made
  BY <1>1 DEF ClassInv, SameShape
<1>3. ObjectsInv'
  <2>1. "class" \in Kinds
    BY DEF Kinds
  <2>2. \A c \in Classes : table[<<c, "class">>].made => table'[<<c, "class">>].made
    BY <2>1, Distinct DEF SameShape
  <2>3. \A i \in 1 .. Len(objects) : objects[i] \in Objects /\ objects[i].class \in Classes
    BY DEF ClassInv, ObjectsInv, Objects
  <2>4. Objects' = Objects
    BY <1>1 DEF Objects
  <2> QED
    BY <2>2, <2>3, <2>4 DEF ClassInv, ObjectsInv
<1>4. TablesInv(table)' /\ MadeTogether(table)' /\ Opened(tablesOpen, table)'
  BY DEF TablesInv, MadeTogether, Opened, TableOf, Descends
<1> QED
  BY <1>2, <1>3, <1>4 DEF ClassInv

LEMMA AddsKeep ==
    ASSUME ClassInv, Keeps(table, table'), tablesOpen' = tablesOpen, objects' = objects
    PROVE  ClassInv'
<1>1. SameShape(table, table') /\ TablesInv(table') /\ MadeTogether(table')
  BY MadeStays DEF Keeps, ClassInv
<1>2. Opened(tablesOpen', table')
  BY <1>1, OpenedStays DEF ClassInv
<1> QED
  BY <1>1, <1>2, ClassesKept

(* A step that leaves the tables alone.                                    *)
LEMMA StackMoves ==
    ASSUME ClassInv, UNCHANGED <<table, objects>>, Opened(tablesOpen', table)
    PROVE  ClassInv'
<1>1. SameShape(table, table')
  BY DEF SameShape
<1> QED
  BY <1>1, ClassesKept DEF ClassInv

LEMMA StepAdds ==
    ASSUME ClassInv, NEW key \in Keys, NEW b \in BOOLEAN,
           \/ Class!AddFunction(key, b) \/ Class!AddData(key, b)
           \/ Class!AddStaticData(key, b) \/ Class!AddVariable(key, b)
           \/ Class!AddStaticFunction(key) \/ Class!AddFreeFunction(key)
    PROVE  ClassInv'
<1>1. tablesOpen' = tablesOpen /\ objects' = objects
  BY DEF Class!AddFunction, Class!AddData, Class!AddStaticData, Class!AddVariable,
         Class!AddStaticFunction, Class!AddFreeFunction, Class!Adds
<1>2. TablesInv(table)
  BY DEF ClassInv
<1>3. ASSUME NEW t \in Places, table[t].made, t[2] # "const", Class!AtTop(1) = t,
             table' = Class!WithFunction(key)
      PROVE  ClassInv'
  <2>1. Keeps(table, table')
    BY <1>2, <1>3, KeepsFns DEF Class!WithFunction, Functions
  <2> QED
    BY <1>1, <2>1, AddsKeep
<1>4. ASSUME NEW t \in Places, table[t].made, t[2] # "const", Class!AtTop(1) = t,
             table' = Class!WithVariable(key, b)
      PROVE  ClassInv'
  <2> DEFINE v == IF b THEN "set" ELSE "readonly"
  <2>1. v \in {"set", "readonly"}
    OBVIOUS
  <2> DEFINE x == [table[t].set EXCEPT ![key] = v]
             q == [table[t] EXCEPT !.get = table[t].get \cup {key}, !.set = x]
  <2>2. table' = [table EXCEPT ![t] = q]
    <3>1. table[t] \in Tables
      BY <1>2, <1>4, RecordOf
    <3> QED
      BY <1>2, <1>4, <3>1 DEF Class!WithVariable, TablesInv, Tables
  <2> HIDE DEF v, x, q
  <2>4. x = [table[t].set EXCEPT ![key] = v]
    BY DEF x
  <2>5. q = [table[t] EXCEPT !.get = table[t].get \cup {key}, !.set = x]
    BY DEF q
  <2>3. Keeps(table, table')
    <3>1. Keeps(table, [table EXCEPT ![t] = q])
      BY ONLY <1>2, <1>4, <2>1, <2>4, <2>5, key \in Keys, KeepsVariable, Zenon
    <3> QED
      BY <2>2, <3>1
  <2> QED
    BY <1>1, <2>3, AddsKeep
<1>5. ASSUME Class!InClass,
             \/ Class!AddFunction(key, b) \/ Class!AddData(key, b)
             \/ Class!AddStaticData(key, b) \/ Class!AddStaticFunction(key)
      PROVE  ClassInv'
  <2>1. PICK c \in Classes : /\ Class!AtTop(1) = <<c, "static">> /\ table[<<c, "static">>].made
                             /\ Class!AtTop(2) = <<c, "class">> /\ table[<<c, "class">>].made
                             /\ Class!AtTop(3) = <<c, "const">> /\ table[<<c, "const">>].made
    BY <1>5, InOpenClass, Zenon
  <2> DEFINE s == <<c, "static">>
             o == <<c, "class">>
             k == <<c, "const">>
  <2>2. /\ s \in Places /\ s[2] = "static" /\ o \in Places /\ o[2] = "class"
        /\ k \in Places /\ k[2] = "const" /\ o # k
    BY Distinct DEF Kinds
  <2>3. /\ Class!AtTop(1) = s /\ table[s].made /\ Class!AtTop(2) = o /\ table[o].made
        /\ Class!AtTop(3) = k /\ table[k].made
    BY <2>1
  <2> HIDE DEF s, o, k
  <2>4. CASE Class!AddFunction(key, b)
    <3>1. CASE b
      <4> DEFINE f == [table EXCEPT ![o].fns[key] = "const"]
      <4>1. table' = [f EXCEPT ![k].fns[key] = "const"]
        BY <2>3, <2>4, <3>1 DEF Class!AddFunction
      <4>2. Keeps(table, f)
        BY <1>2, <2>2, <2>3, KeepsFns DEF Functions
      <4> HIDE DEF f
      <4>3. TablesInv(f) /\ f[k].made
        BY <2>2, <2>3, <4>2 DEF Keeps, SameShape
      <4>4. Keeps(f, table')
        BY <2>2, <4>1, <4>3, KeepsFns DEF Functions
      <4>5. Keeps(table, table')
        BY <4>2, <4>4, KeepsBoth
      <4> QED
        BY <1>1, <4>5, AddsKeep
    <3>2. CASE ~b
      <4>1. table' = [table EXCEPT ![o].fns[key] = "mutable"]
        BY <2>3, <2>4, <3>2 DEF Class!AddFunction
      <4>2. Keeps(table, table')
        BY <1>2, <2>2, <2>3, <4>1, KeepsFns DEF Functions
      <4> QED
        BY <1>1, <4>2, AddsKeep
    <3> QED
      BY <3>1, <3>2
  <2>5. CASE Class!AddData(key, b)
    <3> DEFINE f == [table EXCEPT ![o].get = @ \cup {key}]
               g == [f EXCEPT ![k].get = @ \cup {key}]
               v == IF b THEN "set" ELSE g[o].set[key]
    <3>1. table' = [g EXCEPT ![o].set[key] = v]
      <4>1. table' = [table EXCEPT ![o].get = @ \cup {key}, ![k].get = @ \cup {key},
                                   ![o].set[key] = IF b THEN "set" ELSE @]
        BY <2>3, <2>5, Zenon DEF Class!AddData
      <4> QED
        BY <4>1
    <3>2. Keeps(table, f)
      BY <1>2, <2>2, <2>3, KeepsGet
    <3> HIDE DEF f
    <3>3. TablesInv(f) /\ f[k].made
      BY <2>2, <2>3, <3>2 DEF Keeps, SameShape
    <3>4. Keeps(f, g)
      BY <2>2, <3>3, KeepsGet
    <3> HIDE DEF g
    <3>5. Keeps(table, g)
      BY <3>2, <3>4, KeepsBoth
    <3>6. TablesInv(g) /\ g[o].made
      BY <2>2, <2>3, <3>5 DEF Keeps, SameShape
    <3>7. v \in {"set", g[o].set[key]}
      OBVIOUS
    <3> HIDE DEF v
    <3>8. Keeps(g, table')
      BY <2>2, <3>1, <3>6, <3>7, KeepsSet
    <3>9. Keeps(table, table')
      BY <3>5, <3>8, KeepsBoth
    <3> QED
      BY <1>1, <3>9, AddsKeep
  <2>6. CASE Class!AddStaticData(key, b)
    BY <1>4, <2>2, <2>3, <2>6 DEF Class!AddStaticData
  <2>7. CASE Class!AddStaticFunction(key)
    BY <1>3, <2>2, <2>3, <2>7 DEF Class!AddStaticFunction
  <2> QED
    BY <1>5, <2>4, <2>5, <2>6, <2>7
<1>6. ASSUME Class!InSpace, Class!AddVariable(key, b) \/ Class!AddFreeFunction(key)
      PROVE  ClassInv'
  <2>1. PICK n \in Namespaces \cup {Class!Global} :
           Class!AtTop(1) = Class!Space(n) /\ table[Class!Space(n)].made
    BY <1>6, InOpenSpace
  <2>2. Class!Space(n) \in Places /\ Class!Space(n)[2] # "const"
    BY Distinct DEF Class!Space
  <2>3. CASE Class!AddVariable(key, b)
    BY <1>4, <2>1, <2>2, <2>3 DEF Class!AddVariable
  <2>4. CASE Class!AddFreeFunction(key)
    BY <1>3, <2>1, <2>2, <2>4 DEF Class!AddFreeFunction
  <2> QED
    BY <1>6, <2>3, <2>4
<1> QED
  BY <1>5, <1>6 DEF Class!AddFunction, Class!AddData, Class!AddStaticData, Class!AddVariable,
     Class!AddStaticFunction, Class!AddFreeFunction

LEMMA StepOpens ==
    ASSUME ClassInv, NEW c \in Classes, ~Class!Registered(c),
           NEW p \in [Kinds -> Places \cup {Class!NoTable}],
           \/ \A k \in Kinds : p[k] = Class!NoTable
           \/ /\ Base[c] \in Classes /\ table[<<Base[c], "class">>].made
              /\ \A k \in Kinds : p[k] = <<Base[c], k>>,
           tablesOpen' = tablesOpen \o <<Class!ConstTable(c), Class!ObjectTable(c), Class!StaticTable(c)>>,
           table' = [t \in DOMAIN table |->
                        IF t \in {Class!ConstTable(c), Class!ObjectTable(c), Class!StaticTable(c)}
                        THEN Class!Table(p[t[2]]) ELSE table[t]],
           objects' = objects
    PROVE  ClassInv'
<1> DEFINE g == table'
<1>1. /\ Class!ConstTable(c) = <<c, "const">> /\ Class!ObjectTable(c) = <<c, "class">>
      /\ Class!StaticTable(c) = <<c, "static">>
  BY DEF Class!ConstTable, Class!ObjectTable, Class!StaticTable
<1>2. TablesInv(table) /\ MadeTogether(table) /\ ~table[<<c, "class">>].made
  BY <1>1 DEF ClassInv, Class!Registered
<1>3. DOMAIN table = Places /\ \A k \in Kinds : <<c, k>> \in Places
  BY <1>2, Distinct DEF TablesInv
<1>4. \A t \in Places : t \in {<<c, "const">>, <<c, "class">>, <<c, "static">>}
                          <=> \E k \in Kinds : t = <<c, k>>
  BY DEF Kinds
<1>5. /\ DOMAIN g = Places
      /\ \A t \in Places : g[t] = IF \E k \in Kinds : t = <<c, k>>
                                  THEN Class!Table(p[t[2]]) ELSE table[t]
  BY <1>1, <1>3, <1>4
<1>6. \A k \in Kinds : g[<<c, k>>] = Class!Table(p[k])
  BY <1>3, <1>5
<1>7. \A t \in Places : (\A k \in Kinds : t # <<c, k>>) => g[t] = table[t]
  BY <1>5
<1> HIDE DEF g
<1>8. /\ TablesInv(g) /\ SameShape(table, g) /\ MadeTogether(g)
      /\ \A k \in Kinds : g[<<c, k>>].made
  <2>1. \/ \A k \in Kinds : p[k] = Class!NoTable
        \/ /\ Base[c] \in Classes /\ table[<<Base[c], "class">>].made
           /\ \A k \in Kinds : p[k] = <<Base[c], k>>
    OBVIOUS
  <2>2. DOMAIN g = Places /\ c \in Classes /\ p \in [Kinds -> Places \cup {Class!NoTable}]
    BY <1>5
  <2> QED
    BY ONLY <1>2, <1>6, <1>7, <2>1, <2>2, OpensTables
<1>9. Opened(tablesOpen, g)
  BY <1>8, OpenedStays DEF ClassInv
<1>10. Opened(tablesOpen', g)
  BY <1>1, <1>8, <1>9, OpenedClass
<1> QED
  BY <1>8, <1>10, ClassesKept DEF g

LEMMA StepClasses == ChainInv /\ ClassInv /\ [Class!Next]_class => ClassInv'
<1> SUFFICES ASSUME ChainInv, ClassInv, [Class!Next]_class PROVE ClassInv'
  OBVIOUS
<1> DEFINE n == Len(tablesOpen)
<1>1. /\ Opened(tablesOpen, table) /\ TablesInv(table) /\ MadeTogether(table)
      /\ n \in Nat /\ tablesOpen \in Seq(Places)
  BY DEF ClassInv, Opened
<1> HIDE DEF n
<1>2. CASE UNCHANGED <<table, tablesOpen, objects>>
  BY <1>1, <1>2, StackMoves
(* The stack becomes shorter.                                              *)
<1>3. ASSUME NEW k \in 0 .. n, tablesOpen' = SubSeq(tablesOpen, 1, k), UNCHANGED <<table, objects>>
      PROVE  ClassInv'
  <2>1. Opened(tablesOpen', table)
    BY <1>1, <1>3, OpenedPart DEF n
  <2> QED
    BY <1>3, <2>1, StackMoves
<1>4. CASE Class!GetGlobalNamespace
  <2>1. tablesOpen' = Append(<<>>, Class!Space(Class!Global)) /\ UNCHANGED <<table, objects>>
    BY <1>4 DEF Class!GetGlobalNamespace
  <2>2. Opened(<<>>, table)
    BY DEF Opened
  <2>3. /\ Class!Space(Class!Global) \in Places /\ Class!Space(Class!Global)[2] # "static"
        /\ table[Class!Space(Class!Global)].made
    BY Distinct DEF ClassInv, Class!Space
  <2>4. Opened(tablesOpen', table)
    BY <2>1, <2>2, <2>3, OpenedLonger
  <2> QED
    BY <2>1, <2>4, StackMoves
<1>5. ASSUME NEW m \in Namespaces, Class!BeginNamespace(m) PROVE ClassInv'
  <2> DEFINE t == Class!Space(m)
             g == table'
  <2>1. t \in Places /\ t[2] # "static" /\ \A c \in Classes : \A k \in Kinds : t # <<c, k>>
    BY Distinct DEF Class!Space
  <2>2. /\ tablesOpen' = Append(tablesOpen, t) /\ objects' = objects
        /\ g = IF table[t].made THEN table ELSE [table EXCEPT ![t] = Class!Table(Class!NoTable)]
    BY <1>5 DEF Class!BeginNamespace
  <2> HIDE DEF t, g
  <2>3. TablesInv(g) /\ SameShape(table, g) /\ g[t].made /\ \A u \in Places : u # t => g[u] = table[u]
    <3>1. CASE table[t].made
      BY <1>1, <2>2, <3>1 DEF SameShape
    <3>2. CASE ~table[t].made
      <4>1. DOMAIN g = Places /\ g[t] = Class!Table(Class!NoTable) /\ \A u \in Places : u # t => g[u] = table[u]
        BY <1>1, <2>1, <2>2, <3>2 DEF TablesInv
      <4>2. TableOf(t, g[t]) /\ g[t].made
        BY <4>1, NewTable
      <4>3. TablesInv(g)
        BY <1>1, <4>1, <4>2 DEF TablesInv
      <4>4. SameShape(table, g)
        BY <3>2, <4>1 DEF SameShape
      <4> QED
        BY <4>1, <4>2, <4>3, <4>4
    <3> QED
      BY <3>1, <3>2
  <2>4. ASSUME NEW c \in Classes, NEW k \in Kinds PROVE g[<<c, k>>] = table[<<c, k>>]
    <3>1. <<c, k>> \in Places /\ <<c, k>> # t
      BY <2>1, Distinct, Zenon
    <3> QED
      BY <2>3, <3>1, Zenon
  <2>5. MadeTogether(g)
    <3>1. ASSUME NEW c \in Classes
          PROVE  /\ \A k, l \in Kinds : g[<<c, k>>].made => g[<<c, l>>].made
                 /\ g[<<c, "class">>].made => Descends(g, c)
      <4>1. "class" \in Kinds
        BY DEF Kinds
      <4>2. \A k, l \in Kinds : g[<<c, k>>].made => g[<<c, l>>].made
        BY <1>1, <2>4, Zenon DEF MadeTogether
      <4>3. g[<<c, "class">>].made => Descends(table, c)
        BY <1>1, <2>4, <4>1, Zenon DEF MadeTogether
      <4>4. Descends(table, c) => Descends(g, c)
        BY <2>4, <4>1, Zenon DEF Descends
      <4> QED
        BY <4>2, <4>3, <4>4
    <3> QED
      BY <3>1, Zenon DEF MadeTogether
  <2>6. Opened(tablesOpen', g)
    <3>1. Opened(tablesOpen, g)
      BY <1>1, <2>3, OpenedStays
    <3> QED
      BY <2>1, <2>2, <2>3, <3>1, OpenedLonger
  <2> QED
    BY <2>2, <2>3, <2>5, <2>6, ClassesKept DEF g
<1>6. CASE Class!EndNamespace
  <2>1. /\ n > 1 /\ tablesOpen' = SubSeq(tablesOpen, 1, n - 1) /\ UNCHANGED <<table, objects>>
    BY <1>6 DEF Class!EndNamespace, Class!Front, n
  <2>2. n - 1 \in 0 .. n
    BY <1>1, <2>1
  <2> QED
    BY <1>3, <2>1, <2>2
<1>7. CASE Class!EndClass
  <2>1. /\ Class!InClass /\ tablesOpen' = SubSeq(tablesOpen, 1, n - 3) /\ UNCHANGED <<table, objects>>
    BY <1>7 DEF Class!EndClass, n
  <2>2. n - 3 \in 0 .. n
    <3>1. n > 2
      BY <2>1, InOpenClass, Zenon DEF n
    <3> QED
      BY <1>1, <3>1
  <2> QED
    BY <1>3, <2>1, <2>2
<1>8. CASE Class!Destruct
  <2>1. /\ temps # <<>> /\ tablesOpen' = SubSeq(tablesOpen, 1, n - temps[Len(temps)])
        /\ UNCHANGED <<table, objects>>
    BY <1>8 DEF Class!Destruct, n
  <2>2. temps[Len(temps)] = n
    BY <2>1 DEF ChainInv, n
  <2>3. n - temps[Len(temps)] \in 0 .. n
    BY <1>1, <2>2
  <2> QED
    BY <1>3, <2>1, <2>3
<1>9. ASSUME NEW c \in Classes, Class!BeginClass(c) PROVE ClassInv'
  <2> DEFINE p == [k \in Kinds |-> Class!NoTable]
  <2>1. p \in [Kinds -> Places \cup {Class!NoTable}] /\ \A k \in Kinds : p[k] = Class!NoTable
    OBVIOUS
  <2>2. /\ ~Class!Registered(c) /\ objects' = objects
        /\ tablesOpen' = tablesOpen \o <<Class!ConstTable(c), Class!ObjectTable(c), Class!StaticTable(c)>>
        /\ table' = [t \in DOMAIN table |->
                        IF t \in {Class!ConstTable(c), Class!ObjectTable(c), Class!StaticTable(c)}
                        THEN Class!Table(Class!NoTable) ELSE table[t]]
    BY <1>9 DEF Class!BeginClass, Class!OpenClass
  <2>3. \A t \in {Class!ConstTable(c), Class!ObjectTable(c), Class!StaticTable(c)} : t[2] \in Kinds
    BY DEF Kinds, Class!ConstTable, Class!ObjectTable, Class!StaticTable
  <2> HIDE DEF p
  <2>4. table' = [t \in DOMAIN table |->
                     IF t \in {Class!ConstTable(c), Class!ObjectTable(c), Class!StaticTable(c)}
                     THEN Class!Table(p[t[2]]) ELSE table[t]]
    BY <2>1, <2>2, <2>3
  <2> QED
    BY ONLY ClassInv, <2>1, <2>2, <2>4, StepOpens
<1>10. ASSUME NEW c \in Classes, NEW u \in Classes, Class!DeriveClass(c, u) PROVE ClassInv'
  <2> DEFINE p == [k \in Kinds |-> <<u, k>>]
  <2>1. p \in [Kinds -> Places \cup {Class!NoTable}] /\ \A k \in Kinds : p[k] = <<u, k>>
    BY Distinct
  <2>2. /\ ~Class!Registered(c) /\ objects' = objects /\ u = Base[c] /\ Class!Registered(u)
        /\ tablesOpen' = tablesOpen \o <<Class!ConstTable(c), Class!ObjectTable(c), Class!StaticTable(c)>>
        /\ table' = [t \in DOMAIN table |->
                        IF t \in {Class!ConstTable(c), Class!ObjectTable(c), Class!StaticTable(c)}
                        THEN Class!Table(<<u, t[2]>>) ELSE table[t]]
    BY <1>10 DEF Class!DeriveClass, Class!OpenClass, Class!ParentOf
  <2>3. \A t \in {Class!ConstTable(c), Class!ObjectTable(c), Class!StaticTable(c)} : t[2] \in Kinds
    BY DEF Kinds, Class!ConstTable, Class!ObjectTable, Class!StaticTable
  <2> HIDE DEF p
  <2>4. table' = [t \in DOMAIN table |->
                     IF t \in {Class!ConstTable(c), Class!ObjectTable(c), Class!StaticTable(c)}
                     THEN Class!Table(p[t[2]]) ELSE table[t]]
    BY <2>1, <2>2, <2>3
  <2>5. /\ Base[c] \in Classes /\ table[<<Base[c], "class">>].made
        /\ \A k \in Kinds : p[k] = <<Base[c], k>>
    BY <2>1, <2>2 DEF Class!Registered, Class!ObjectTable
  <2> QED
    BY ONLY ClassInv, <2>1, <2>2, <2>4, <2>5, StepOpens
<1>17. ASSUME UNCHANGED <<table, tablesOpen>>, objects' \in Seq(Objects),
              \A i \in 1 .. Len(objects') : table[<<objects'[i].class, "class">>].made
       PROVE  ClassInv'
  <2>1. ObjectsInv'
    <3>1. Objects' = Objects
      BY DEF Objects, Places
    <3> QED
      BY <1>17, <3>1 DEF ObjectsInv
  <2> QED
    BY <1>17, <2>1 DEF ClassInv, TablesInv, MadeTogether, Opened, TableOf, Descends
<1>11. ASSUME NEW c \in Classes, NEW b \in BOOLEAN, Class!Push(c, b) PROVE ClassInv'
  <2> DEFINE o == [class |-> c, metatable |-> Class!MetatableOf(c, b)]
  <2>1. /\ Class!Registered(c) /\ objects' = Append(objects, o) /\ UNCHANGED <<table, tablesOpen>>
    BY <1>11 DEF Class!Push
  <2>2. o \in Objects /\ o.class = c
    <3>1. Class!MetatableOf(c, b) \in {<<c, "class">>, <<c, "const">>}
      BY DEF Class!MetatableOf, Class!ConstTable, Class!ObjectTable
    <3>2. <<c, "class">> \in Places /\ <<c, "const">> \in Places
      BY Distinct DEF Kinds
    <3> QED
      BY <3>1, <3>2 DEF Objects
  <2>3. objects \in Seq(Objects) /\ \A i \in 1 .. Len(objects) : table[<<objects[i].class, "class">>].made
    BY DEF ClassInv, ObjectsInv
  <2> HIDE DEF o
  <2>4. /\ objects' \in Seq(Objects) /\ Len(objects') = Len(objects) + 1
        /\ \A i \in 1 .. Len(objects) : objects'[i] = objects[i]
        /\ objects'[Len(objects) + 1] = o
    BY <2>1, <2>2, <2>3, AppendedTo
  <2>5. ASSUME NEW i \in 1 .. Len(objects') PROVE table[<<objects'[i].class, "class">>].made
    <3>1. CASE i = Len(objects) + 1
      BY <2>1, <2>2, <2>4, <3>1 DEF Class!Registered, Class!ObjectTable
    <3>2. CASE i # Len(objects) + 1
      <4>1. i \in 1 .. Len(objects)
        BY <2>3, <2>4, <3>2
      <4> QED
        BY <2>3, <2>4, <4>1
    <3> QED
      BY <3>1, <3>2
  <2> QED
    BY <1>17, <2>1, <2>4, <2>5
<1>12. ASSUME NEW j \in DOMAIN objects, Class!Collect(j) PROVE ClassInv'
  <2> DEFINE m == Len(objects)
             p == SubSeq(objects, 1, j - 1)
             q == SubSeq(objects, j + 1, m)
  <2>1. objects' = p \o q /\ UNCHANGED <<table, tablesOpen>>
    BY <1>12 DEF Class!Collect, Class!RemoveAt
  <2>2. /\ objects \in Seq(Objects) /\ m \in Nat /\ j \in 1 .. m
        /\ \A i \in 1 .. m : table[<<objects[i].class, "class">>].made
    BY DEF ClassInv, ObjectsInv
  <2>3. p \in Seq(Objects) /\ Len(p) = j - 1 /\ \A i \in 1 .. j - 1 : p[i] = objects[i]
    BY <2>2
  <2>4. q \in Seq(Objects) /\ Len(q) = m - j /\ \A i \in 1 .. m - j : q[i] = objects[j + i]
    BY <2>2
  <2> HIDE DEF p, q, m
  <2>5. /\ objects' \in Seq(Objects) /\ Len(objects') = Len(p) + Len(q)
        /\ \A i \in 1 .. Len(p) + Len(q) : objects'[i] = IF i <= Len(p) THEN p[i] ELSE q[i - Len(p)]
    <3> DEFINE u == objects'
    <3>1. p \in Seq(Objects) /\ q \in Seq(Objects) /\ u = p \o q
      BY <2>1, <2>3, <2>4
    <3> HIDE DEF u
    <3>2. /\ u \in Seq(Objects) /\ Len(u) = Len(p) + Len(q)
          /\ \A i \in 1 .. Len(p) + Len(q) : u[i] = IF i <= Len(p) THEN p[i] ELSE q[i - Len(p)]
      BY ONLY <3>1, Concatenated
    <3> QED
      BY <3>2 DEF u
  <2>6. ASSUME NEW i \in 1 .. Len(objects') PROVE \E l \in 1 .. m : objects'[i] = objects[l]
    <3>1. CASE i <= j - 1
      <4>1. i \in 1 .. m /\ i \in 1 .. j - 1 /\ i \in 1 .. Len(p) + Len(q)
        BY <2>2, <2>3, <2>4, <2>5, <3>1
      <4> QED
        BY <2>3, <2>5, <3>1, <4>1
    <3>2. CASE ~(i <= j - 1)
      <4> DEFINE l == i - (j - 1)
      <4>0. Len(objects') = (j - 1) + (m - j) /\ Len(p) + Len(q) = Len(objects')
        BY <2>3, <2>4, <2>5
      <4>1. l \in 1 .. m - j /\ j + l \in 1 .. m /\ i \in 1 .. Len(p) + Len(q)
        BY <2>2, <3>2, <4>0
      <4>2. objects'[i] = q[l]
        BY <2>3, <2>5, <3>2, <4>1
      <4> HIDE DEF l
      <4> QED
        BY <2>4, <4>1, <4>2
    <3> QED
      BY <3>1, <3>2
  <2> QED
    BY <1>17, <2>1, <2>2, <2>5, <2>6 DEF m
<1>13. ASSUME NEW key \in Keys, NEW b \in BOOLEAN,
              \/ Class!AddFunction(key, b) \/ Class!AddData(key, b)
              \/ Class!AddStaticData(key, b) \/ Class!AddVariable(key, b)
              \/ Class!AddStaticFunction(key) \/ Class!AddFreeFunction(key)
       PROVE  ClassInv'
  BY <1>13, StepAdds
<1>14. ASSUME NEW key \in Keys, Class!AddStaticFunction(key) \/ Class!AddFreeFunction(key)
       PROVE  ClassInv'
  BY <1>13, <1>14, TRUE \in BOOLEAN
<1>15. CASE Class!Copy \/ Class!AddGlobalVariable \/ UNCHANGED class
  BY <1>2, <1>15 DEF Class!Copy, Class!AddGlobalVariable, class
<1>16. ASSUME NEW c \in Classes, Class!BeginClassAgain(c) PROVE ClassInv'
  BY <1>2, <1>16 DEF Class!BeginClassAgain
<1> QED
  BY ONLY [Class!Next]_class, <1>4, <1>5, <1>6, <1>7, <1>8, <1>9, <1>10, <1>11, <1>12, <1>13, <1>14,
     <1>15, <1>16, Zenon DEF Class!Next

-----------------------------------------------------------------------------
(* The way from a class up to what it was derived from.                    *)

Height == Class!Cardinality(Classes)

LEMMA HeightIs == Class!ClassAssumption => Height \in Nat
<1>1. Class!IsFiniteSet(Classes) = IsFiniteSet(Classes) /\ Height = Cardinality(Classes)
  BY DEF Height, Class!IsFiniteSet, IsFiniteSet, Class!Cardinality, Cardinality
<1> QED
  BY <1>1, FS_CardinalityType DEF Class!ClassAssumption

Climbs(f, t) ==
    f = [n \in Nat |->
            IF n = 0 THEN <<t>>
            ELSE IF table[Class!Last(f[n - 1])].parent = Class!NoTable THEN f[n - 1]
                 ELSE Append(f[n - 1], table[Class!Last(f[n - 1])].parent)]

LEMMA LineageIs ==
    ASSUME NEW t
    PROVE  Class!Lineage(t) = (CHOOSE f : Climbs(f, t))[Height]
  BY Zenon DEF Class!Lineage, Climbs, Height

Rises(f, c) ==
    f = [n \in Nat |-> IF n = 0 THEN {c}
                       ELSE f[n - 1] \cup {Base[d] : d \in f[n - 1] \cap Classes}]

LEMMA AncestorsAre ==
    ASSUME NEW c
    PROVE  Class!Ancestors(c) = (CHOOSE f : Rises(f, c))[Height] \cap Classes
  BY Zenon DEF Class!Ancestors, Rises, Height

(* Whatever climbs from t climbs the same way.                             *)
LEMMA ClimbsAreOne ==
    ASSUME NEW t, NEW f, NEW g, Climbs(f, t), Climbs(g, t)
    PROVE  \A n \in Nat : f[n] = g[n]
<1> DEFINE T == {n \in Nat : f[n] = g[n]}
<1>1. 0 \in T
  BY DEF Climbs
<1>2. ASSUME NEW n \in Nat, n \in T PROVE n + 1 \in T
  <2>1. f[n] = g[n]
    BY <1>2, Zenon
  <2> DEFINE m == n + 1
  <2> HIDE DEF T
  <2>2. m \in Nat /\ m # 0 /\ m - 1 = n
    BY ONLY n \in Nat
  <2> USE DEF T
  <2> HIDE DEF m
  <2>3. f[m] = IF table[Class!Last(f[n])].parent = Class!NoTable THEN f[n]
               ELSE Append(f[n], table[Class!Last(f[n])].parent)
    BY <2>2 DEF Climbs
  <2>4. g[m] = IF table[Class!Last(g[n])].parent = Class!NoTable THEN g[n]
               ELSE Append(g[n], table[Class!Last(g[n])].parent)
    BY <2>2 DEF Climbs
  <2>5. f[m] = g[m]
    BY ONLY <2>1, <2>3, <2>4, Zenon
  <2> QED
    BY <2>2, <2>5 DEF m
<1>3. Nat \subseteq T
  <2> HIDE DEF T
  <2> QED
    BY <1>1, <1>2, SetInduction
<1> QED
  BY <1>3

(* The classes on the way.                                                 *)
Ways ==
    {s \in Seq(Classes) : Len(s) > 0 /\ \A i \in 1 .. Len(s) : table[<<s[i], "class">>].made}
Farther(s) ==
    IF table[<<s[Len(s)], "class">>].parent = Class!NoTable THEN s ELSE Append(s, Base[s[Len(s)]])
Lifted(s, k) == [i \in 1 .. Len(s) |-> <<s[i], k>>]

LEMMA LiftedIs ==
    ASSUME NEW s \in Seq(Classes), NEW k \in Kinds
    PROVE  /\ Lifted(s, k) \in Seq(Classes \X Kinds) /\ Len(Lifted(s, k)) = Len(s)
           /\ \A i \in 1 .. Len(s) : Lifted(s, k)[i] = <<s[i], k>>
  BY DEF Lifted

LEMMA FartherIsAWay ==
    ASSUME ClassInv, NEW s \in Ways
    PROVE  Farther(s) \in Ways
<1> DEFINE N == Len(s)
           c == s[N]
<1>1. s \in Seq(Classes) /\ N \in Nat /\ N > 0 /\ N \in 1 .. N /\ \A i \in 1 .. N : table[<<s[i], "class">>].made
  BY DEF Ways
<1>2. c \in Classes /\ table[<<c, "class">>].made
  BY <1>1
<1>3. CASE table[<<c, "class">>].parent = Class!NoTable
  BY <1>3 DEF Farther
<1>4. CASE table[<<c, "class">>].parent # Class!NoTable
  <2>1. Descends(table, c) /\ "class" \in Kinds
    BY <1>2 DEF ClassInv, MadeTogether, Kinds
  <2>2. Base[c] \in Classes /\ table[<<Base[c], "class">>].made
    BY <1>4, <2>1 DEF Descends
  <2> DEFINE b == Base[c]
             u == Append(s, b)
  <2>3. Farther(s) = u
    BY <1>4 DEF Farther
  <2> HIDE DEF b, N
  <2>4. /\ u \in Seq(Classes) /\ Len(u) = N + 1 /\ \A i \in 1 .. N : u[i] = s[i]
        /\ u[N + 1] = b
    BY <1>1, <2>2 DEF b, N
  <2> HIDE DEF u
  <2>5. ASSUME NEW i \in 1 .. N + 1 PROVE table[<<u[i], "class">>].made
    <3>1. CASE i = N + 1
      BY <2>2, <2>4, <3>1 DEF b
    <3>2. CASE i # N + 1
      <4>1. i \in 1 .. N
        BY <1>1, <3>2
      <4> QED
        BY <1>1, <2>4, <4>1
    <3> QED
      BY <3>1, <3>2
  <2>6. u \in Ways
    BY <1>1, <2>4, <2>5 DEF Ways
  <2> QED
    BY <2>3, <2>6
<1> QED
  BY <1>3, <1>4

(* The tables of one kind on the way.                                      *)
LEMMA LiftedWay ==
    ASSUME ClassInv, NEW s \in Ways, NEW k \in Kinds
    PROVE  /\ Class!Last(Lifted(s, k)) = <<s[Len(s)], k>>
           /\ table[<<s[Len(s)], "class">>].parent = Class!NoTable
                 => table[<<s[Len(s)], k>>].parent = Class!NoTable
           /\ table[<<s[Len(s)], "class">>].parent # Class!NoTable
                 => /\ table[<<s[Len(s)], k>>].parent = <<Base[s[Len(s)]], k>>
                    /\ table[<<s[Len(s)], k>>].parent # Class!NoTable
                    /\ Lifted(Farther(s), k) = Append(Lifted(s, k), <<Base[s[Len(s)]], k>>)
<1> DEFINE N == Len(s)
           c == s[N]
           p == Lifted(s, k)
<1>1. s \in Seq(Classes) /\ N \in Nat /\ N > 0 /\ N \in 1 .. N /\ table[<<s[N], "class">>].made
  BY DEF Ways
<1>2. c \in Classes /\ table[<<c, "class">>].made
  BY <1>1
<1>3. Len(p) = N /\ p[N] = <<c, k>>
  BY <1>1 DEF Lifted
<1>4. Class!Last(p) = <<c, k>>
  BY <1>3 DEF Class!Last
<1>5. Descends(table, c) /\ "class" \in Kinds
  BY <1>2 DEF ClassInv, MadeTogether, Kinds
<1>6. \A d \in Classes : <<d, "class">> # Class!NoTable /\ <<d, k>> # Class!NoTable
  BY <1>5, Distinct
<1>7. table[<<c, "class">>].parent = Class!NoTable => table[<<c, k>>].parent = Class!NoTable
  BY <1>5, <1>6 DEF Descends
<1>8. ASSUME table[<<c, "class">>].parent # Class!NoTable
      PROVE  /\ table[<<c, k>>].parent = <<Base[c], k>> /\ table[<<c, k>>].parent # Class!NoTable
             /\ Lifted(Farther(s), k) = Append(p, <<Base[c], k>>)
  <2>1. table[<<c, k>>].parent = <<Base[c], k>> /\ Base[c] \in Classes
    BY <1>5, <1>8 DEF Descends
  <2>2. Farther(s) = Append(s, Base[c])
    BY <1>8 DEF Farther
  <2> DEFINE b == Base[c]
  <2> HIDE DEF b, N
  <2>3. Lifted(Append(s, b), k) = Append(Lifted(s, k), <<b, k>>)
    <3>1. b \in Classes /\ s \in Seq(Classes)
      BY <1>1, <2>1 DEF b
    <3> DEFINE S == Classes \X Kinds
               u == Append(s, b)
               q == Append(p, <<b, k>>)
               z == Lifted(u, k)
    <3>2. /\ u \in Seq(Classes) /\ Len(u) = Len(s) + 1 /\ \A i \in 1 .. Len(s) : u[i] = s[i]
          /\ u[Len(s) + 1] = b
      BY <3>1, AppendProperties
    <3>3. p \in Seq(S) /\ Len(p) = Len(s) /\ \A i \in 1 .. Len(s) : p[i] = <<s[i], k>>
      BY <3>1, LiftedIs
    <3> HIDE DEF p, u
    <3>4. /\ q \in Seq(S) /\ Len(q) = Len(s) + 1 /\ \A i \in 1 .. Len(s) : q[i] = p[i]
          /\ q[Len(s) + 1] = <<b, k>>
      <4>1. <<b, k>> \in S
        BY <3>1
      <4> QED
        BY <3>3, <4>1, AppendProperties
    <3>5. z \in Seq(S) /\ Len(z) = Len(s) + 1 /\ \A i \in 1 .. Len(s) + 1 : z[i] = <<u[i], k>>
      BY <3>2, LiftedIs
    <3> HIDE DEF q, z, S
    <3>6. ASSUME NEW i \in 1 .. Len(s) + 1 PROVE z[i] = q[i]
      <4>1. CASE i = Len(s) + 1
        BY <3>2, <3>4, <3>5, <4>1
      <4>2. CASE i # Len(s) + 1
        <5>1. i \in 1 .. Len(s)
          BY <1>1, <4>2
        <5> QED
          BY <3>2, <3>3, <3>4, <3>5, <5>1
      <4> QED
        BY <4>1, <4>2
    <3>7. z = q
      BY <3>4, <3>5, <3>6, SeqEqual
    <3> QED
      BY <3>7 DEF z, q, u, p
  <2> QED
    BY <1>6, <2>1, <2>2, <2>3 DEF b, N
<1> QED
  BY <1>4, <1>7, <1>8

LEMMA LineagesRunTogether ==
    ASSUME ClassInv, Class!ClassAssumption, NEW c \in Classes, table[<<c, "class">>].made
    PROVE  \E w \in Ways : /\ \A k \in Kinds : Class!Lineage(<<c, k>>) = Lifted(w, k)
                           /\ w[1] = c
                           /\ \A i \in 1 .. Len(w) : w[i] \in Class!Ancestors(c)
<1> DEFINE X == Ways
           F == [s \in X |-> Farther(s)]
           x == <<c>>
<1>1. x \in X
  BY DEF Ways
<1>2. F \in [X -> X] /\ \A s \in X : F[s] = Farther(s)
  <2>1. \A s \in X : Farther(s) \in X
    BY FartherIsAWay
  <2> HIDE DEF X
  <2> QED
    BY <2>1
<1> HIDE DEF F
<1>3. PICK h \in [Nat -> X] : h[0] = x /\ \A n \in Nat : h[n + 1] = F[h[n]]
  <2> HIDE DEF X, x
  <2> QED
    <3>1. x \in X /\ F \in [X -> X]
      BY <1>1, <1>2
    <3>2. Iterates(F, x, X)
      BY ONLY <3>1, Iteration, Zenon
    <3> QED
      BY <3>2, Zenon DEF Iterates
<1>4. \A n \in Nat : h[n] \in Ways /\ h[n + 1] = Farther(h[n])
  BY <1>2, <1>3
<1>5. Height \in Nat
  BY HeightIs
<1>6. ASSUME NEW k \in Kinds PROVE Class!Lineage(<<c, k>>) = Lifted(h[Height], k)
  <2> DEFINE g == [n \in Nat |-> Lifted(h[n], k)]
             t == <<c, k>>
             body(n) == IF n = 0 THEN <<t>>
                        ELSE IF table[Class!Last(g[n - 1])].parent = Class!NoTable THEN g[n - 1]
                             ELSE Append(g[n - 1], table[Class!Last(g[n - 1])].parent)
  <2>1. \A n \in Nat : g[n] = Lifted(h[n], k)
    OBVIOUS
  <2>2. g[0] = <<t>>
    <3>1. g[0] = Lifted(x, k)
      BY <1>3, <2>1
    <3>2. x \in Seq(Classes) /\ Len(x) = 1 /\ x[1] = c
      OBVIOUS
    <3> HIDE DEF x
    <3>3. /\ Lifted(x, k) \in Seq(Classes \X Kinds) /\ Len(Lifted(x, k)) = 1
          /\ Lifted(x, k)[1] = t
      BY <3>2, LiftedIs
    <3> HIDE DEF t
    <3> QED
      BY <3>1, <3>3
  <2> HIDE DEF g
  <2>3. ASSUME NEW n \in Nat
        PROVE  g[n + 1] = IF table[Class!Last(g[n])].parent = Class!NoTable THEN g[n]
                          ELSE Append(g[n], table[Class!Last(g[n])].parent)
    <3> DEFINE s == h[n]
               d == s[Len(s)]
    <3>1. s \in Ways /\ g[n] = Lifted(s, k) /\ g[n + 1] = Lifted(Farther(s), k)
      BY <1>4, <2>1
    <3> HIDE DEF s
    <3>2. Class!Last(g[n]) = <<d, k>>
      BY <3>1, LiftedWay
    <3> HIDE DEF d
    <3>3. CASE table[<<d, "class">>].parent = Class!NoTable
      <4>1. Farther(s) = s /\ table[<<d, k>>].parent = Class!NoTable
        BY <3>1, <3>3, LiftedWay DEF Farther, d
      <4> QED
        BY <3>1, <3>2, <4>1
    <3>4. CASE table[<<d, "class">>].parent # Class!NoTable
      <4>1. /\ table[<<d, k>>].parent # Class!NoTable
            /\ Lifted(Farther(s), k) = Append(Lifted(s, k), table[<<d, k>>].parent)
        BY <3>1, <3>4, LiftedWay DEF d
      <4> QED
        BY <3>1, <3>2, <4>1
    <3> QED
      BY <3>3, <3>4
  <2>4. ASSUME NEW n \in Nat PROVE g[n] = body(n)
    <3>1. CASE n = 0
      BY <2>2, <3>1
    <3>2. CASE n # 0
      <4>1. n - 1 \in Nat /\ (n - 1) + 1 = n
        BY <3>2
      <4> QED
        BY <2>3, <3>2, <4>1
    <3> QED
      BY <3>1, <3>2
  <2>5. g = [n \in Nat |-> g[n]]
    BY DEF g
  <2>6. Climbs(g, t)
    BY <2>4, <2>5, Zenon DEF Climbs
  <2> DEFINE f == CHOOSE f : Climbs(f, t)
  <2>7. Climbs(f, t)
    BY <2>6, Zenon
  <2> HIDE DEF f
  <2>8. f[Height] = g[Height]
    BY <1>5, <2>6, <2>7, ClimbsAreOne, Zenon
  <2> QED
    BY <1>5, <2>1, <2>8, LineageIs DEF f
<1>7. \A n \in Nat : h[n][1] = c
  <2> DEFINE T == {n \in Nat : h[n][1] = c}
  <2>1. 0 \in T
    BY <1>3
  <2>2. ASSUME NEW n \in Nat, n \in T PROVE n + 1 \in T
    <3> DEFINE s == h[n]
    <3>1. s \in Ways /\ h[n + 1] = Farther(s) /\ s[1] = c
      BY <1>4, <2>2
    <3> HIDE DEF s
    <3>2. s \in Seq(Classes) /\ Len(s) > 0
      BY <3>1 DEF Ways
    <3>3. Farther(s)[1] = s[1]
      BY <3>2 DEF Farther
    <3> QED
      BY <3>1, <3>3
  <2>3. Nat \subseteq T
    <3> HIDE DEF T
    <3> QED
      BY <2>1, <2>2, SetInduction
  <2> QED
    BY <2>3
<1>8. \A i \in 1 .. Len(h[Height]) : h[Height][i] \in Class!Ancestors(c)
  <2> DEFINE Y == SUBSET (Classes \cup {Class!NoClass})
             G == [s \in Y |-> s \cup {Base[d] : d \in s \cap Classes}]
  <2>1. {c} \in Y
    OBVIOUS
  <2>2. G \in [Y -> Y] /\ \A s \in Y : G[s] = s \cup {Base[d] : d \in s \cap Classes}
    <3>1. \A d \in Classes : Base[d] \in Classes \cup {Class!NoClass}
      BY DEF Class!ClassAssumption
    <3> QED
      BY <3>1
  <2> HIDE DEF Y, G
  <2>3. PICK r \in [Nat -> Y] : r[0] = {c} /\ \A n \in Nat : r[n + 1] = G[r[n]]
    <3>1. {c} \in Y /\ G \in [Y -> Y]
      BY <2>1, <2>2
    <3>2. Iterates(G, {c}, Y)
      BY ONLY <3>1, Iteration, Zenon
    <3> QED
      BY <3>2, Zenon DEF Iterates
  <2>4. ASSUME NEW n \in Nat
        PROVE  r[n] = IF n = 0 THEN {c} ELSE r[n - 1] \cup {Base[d] : d \in r[n - 1] \cap Classes}
    <3>1. CASE n = 0
      BY <2>3, <3>1
    <3>2. CASE n # 0
      <4>1. n - 1 \in Nat /\ (n - 1) + 1 = n
        BY <3>2
      <4>2. r[n] = G[r[n - 1]] /\ r[n - 1] \in Y
        BY <2>3, <4>1
      <4> QED
        BY <2>2, <3>2, <4>2
    <3> QED
      BY <3>1, <3>2
  <2>5. Rises(r, c)
    <3>1. r = [n \in Nat |-> r[n]]
      OBVIOUS
    <3> QED
      BY <2>4, <3>1, Zenon DEF Rises
  <2> DEFINE f == CHOOSE f : Rises(f, c)
  <2>6. Rises(f, c)
    BY <2>5, Zenon
  <2> HIDE DEF f
  <2>7. /\ f[0] = {c}
        /\ \A n \in Nat : f[n + 1] = f[n] \cup {Base[d] : d \in f[n] \cap Classes}
    <3>1. \A n \in Nat : n + 1 \in Nat /\ n + 1 # 0 /\ (n + 1) - 1 = n
      OBVIOUS
    <3> QED
      BY <2>6, <3>1 DEF Rises
  <2> DEFINE T == {n \in Nat : \A i \in 1 .. Len(h[n]) : h[n][i] \in f[n]}
  <2>8. 0 \in T
    <3>1. Len(x) = 1 /\ x[1] = c
      OBVIOUS
    <3>2. \A i \in 1 .. Len(x) : x[i] \in {c}
      BY <3>1
    <3> QED
      BY <1>3, <2>7, <3>2
  <2>9. ASSUME NEW n \in Nat, n \in T PROVE n + 1 \in T
    <3> DEFINE s == h[n]
               N == Len(s)
               u == h[n + 1]
    <3>1. s \in Ways /\ u = Farther(s) /\ \A i \in 1 .. N : s[i] \in f[n]
      BY <1>4, <2>9
    <3> HIDE DEF s
    <3>2. s \in Seq(Classes) /\ N > 0 /\ N \in 1 .. N /\ s[N] \in Classes
      <4>1. s \in Ways
        BY <3>1
      <4>2. s \in Seq(Classes) /\ Len(s) > 0
        BY ONLY <4>1, Zenon DEF Ways
      <4>3. N \in Nat /\ N > 0 /\ N \in 1 .. N
        BY ONLY <4>2
      <4> QED
        BY ONLY <4>2, <4>3
    <3>3. u = s \/ u = Append(s, Base[s[N]])
      BY <3>1 DEF Farther
    <3> HIDE DEF u, N
    <3>4. CASE u = s
      BY <2>7, <3>1, <3>4 DEF u, N
    <3>5. CASE u = Append(s, Base[s[N]])
      <4> DEFINE b == Base[s[N]]
      <4>1. b \in f[n + 1]
        <5>1. s[N] \in f[n] \cap Classes
          BY <3>1, <3>2
        <5>2. f[n + 1] = f[n] \cup {Base[d] : d \in f[n] \cap Classes}
          BY <2>7
        <5> QED
          BY ONLY <5>1, <5>2
      <4>2. \A i \in 1 .. N : s[i] \in f[n + 1]
        BY <2>7, <3>1
      <4> HIDE DEF b
      <4>3. Len(u) = N + 1 /\ u[N + 1] = b /\ \A i \in 1 .. N : u[i] = s[i]
        BY <3>2, <3>5 DEF b, N
      <4>4. \A i \in 1 .. Len(u) : u[i] \in f[n + 1]
        <5>1. \A i \in 1 .. N + 1 : i \in 1 .. N \/ i = N + 1
          BY <3>2
        <5> QED
          BY <4>1, <4>2, <4>3, <5>1
      <4> QED
        BY <4>4 DEF u
    <3> QED
      BY <3>3, <3>4, <3>5
  <2>10. Nat \subseteq T
    <3> HIDE DEF T
    <3> QED
      BY <2>8, <2>9, SetInduction
  <2>11. \A i \in 1 .. Len(h[Height]) : h[Height][i] \in f[Height]
    BY <1>5, <2>10
  <2>12. \A i \in 1 .. Len(h[Height]) : h[Height][i] \in Classes
    <3> DEFINE w == h[Height]
    <3>1. w \in Ways
      BY <1>4, <1>5
    <3> HIDE DEF w
    <3>2. \A i \in 1 .. Len(w) : w[i] \in Classes
      BY <3>1 DEF Ways
    <3> QED
      BY <3>2 DEF w
  <2> QED
    BY <2>11, <2>12, AncestorsAre DEF f
<1> QED
  BY <1>4, <1>5, <1>6, <1>7, <1>8

-----------------------------------------------------------------------------
(* What is found on the way up: the first table that has it.               *)

First(I) == IF I # {} THEN Class!Min(I) ELSE 0
ReadAt(s, key) ==
    {i \in 1 .. Len(s) : table[s[i]].fns[key] # "none" \/ key \in table[s[i]].get}
WrittenAt(s, key) == {i \in 1 .. Len(s) : table[s[i]].set[key] # "none"}
ReadFrom(u, key) ==
    [kind |-> IF table[u].fns[key] # "none" THEN table[u].fns[key] ELSE "get", of |-> u]
WrittenTo(u, key) == [kind |-> table[u].set[key], of |-> u]

LEMMA IndexIs ==
    ASSUME NEW t, NEW key
    PROVE  Class!Index(t, key) =
              IF First(ReadAt(Class!Lineage(t), key)) = 0 THEN Class!Nothing
              ELSE ReadFrom(Class!Lineage(t)[First(ReadAt(Class!Lineage(t), key))], key)
  BY Zenon DEF Class!Index, Class!FirstOf, Class!SelectInSeq, First, ReadAt, ReadFrom

LEMMA NewIndexIs ==
    ASSUME NEW t, NEW key
    PROVE  Class!NewIndex(t, key) =
              IF First(WrittenAt(Class!Lineage(t), key)) = 0 THEN Class!Nothing
              ELSE WrittenTo(Class!Lineage(t)[First(WrittenAt(Class!Lineage(t), key))], key)
  BY Zenon DEF Class!NewIndex, Class!FirstOf, Class!SelectInSeq, First, WrittenAt, WrittenTo

LEMMA FirstIs ==
    ASSUME NEW n \in Nat, NEW I \in SUBSET (1 .. n)
    PROVE  /\ First(I) = 0 <=> I = {}
           /\ I # {} => First(I) \in I /\ \A i \in I : First(I) <= i
<1>1. CASE I = {}
  BY <1>1 DEF First
<1>2. CASE I # {}
  <2>1. I \subseteq Nat
    OBVIOUS
  <2>2. \E m \in I : \A i \in I : m <= i
    BY <1>2, <2>1, LeastNatural
  <2>3. Class!Min(I) \in I /\ \A i \in I : Class!Min(I) <= i
    BY <2>2, Zenon DEF Class!Min
  <2>4. First(I) = Class!Min(I)
    BY <1>2 DEF First
  <2>5. First(I) \in I /\ \A i \in I : First(I) <= i
    BY <2>3, <2>4, Zenon
  <2> HIDE DEF First
  <2>6. First(I) # 0
    BY <2>5
  <2> QED
    BY <1>2, <2>5, <2>6, Zenon
<1> QED
  BY <1>1, <1>2

(* A way and the tables of its classes.                                    *)
LEMMA TablesOnTheWay ==
    ASSUME ClassInv, NEW w \in Ways, NEW k \in Kinds, NEW i \in 1 .. Len(w)
    PROVE  TableOf(<<w[i], k>>, table[<<w[i], k>>]) /\ w[i] \in Classes /\ Lifted(w, k)[i] = <<w[i], k>>
<1>1. w[i] \in Classes /\ table[<<w[i], "class">>].made
  BY DEF Ways
<1>2. "class" \in Kinds
  BY DEF Kinds
<1>3. <<w[i], k>> \in Places /\ table[<<w[i], k>>].made
  BY <1>1, <1>2, Distinct, Zenon DEF ClassInv, MadeTogether
<1>4. TableOf(<<w[i], k>>, table[<<w[i], k>>])
  BY <1>3, RecordOf DEF ClassInv
<1>5. Lifted(w, k)[i] = <<w[i], k>>
  BY DEF Lifted
<1> QED
  BY <1>1, <1>4, <1>5

LEMMA CastsSafe ==
    ASSUME ClassInv, Class!ClassAssumption
    PROVE  Class!CastsAreSafe
<1> SUFFICES ASSUME NEW i \in DOMAIN objects, NEW c \in Classes, NEW parameter \in Class!Parameters
             PROVE  LET o == objects[i]
                        changes == parameter \in {"T*", "T&"}
                        takes == Class!StackGet(o, c, parameter)
                    IN  /\ takes => c \in Class!Ancestors(o.class) /\ ~(Class!IsConst(o) /\ changes)
                        /\ c \in Class!Derived(o.class) /\ ~(Class!IsConst(o) /\ changes) => takes
                        /\ takes <=> Class!CheckClass(o, c, ~changes) = "yes"
                        /\ Class!GetExactClass(o, c) <=> c = o.class
  BY Zenon DEF Class!CastsAreSafe
<1> DEFINE o == objects[i]
           b == o.class
           k == o.metatable[2]
           changes == parameter \in {"T*", "T&"}
           takes == Class!StackGet(o, c, parameter)
<1>1. o \in Objects /\ table[<<b, "class">>].made
  BY DEF ClassInv, ObjectsInv
<1>2. b \in Classes /\ k \in {"class", "const"} /\ o.metatable = <<b, k>> /\ k \in Kinds /\ "static" \in Kinds
  BY <1>1 DEF Objects, Kinds
<1>3. PICK w \in Ways : /\ \A l \in Kinds : Class!Lineage(<<b, l>>) = Lifted(w, l)
                        /\ \A n \in 1 .. Len(w) : w[n] \in Class!Ancestors(b)
  BY <1>1, <1>2, LineagesRunTogether, Zenon
<1> HIDE DEF o, b, k
<1> DEFINE on == \E n \in 1 .. Len(w) : w[n] = c
<1>4. w \in Seq(Classes) /\ Len(w) \in Nat
  BY <1>3 DEF Ways
<1>5. \A l \in Kinds : /\ Len(Lifted(w, l)) = Len(w) /\ DOMAIN Lifted(w, l) = 1 .. Len(w)
                       /\ \A n \in 1 .. Len(w) : Lifted(w, l)[n] = <<w[n], l>>
  BY <1>4 DEF Lifted
<1>6. Class!IsConst(o) <=> k = "const"
  BY DEF Class!IsConst, k
<1>7. Class!MetatableOf(c, Class!IsConst(o)) = <<c, k>>
  BY <1>2, <1>6 DEF Class!MetatableOf, Class!ConstTable, Class!ObjectTable
<1>8. Class!Lineage(o.metatable) = Lifted(w, k)
  BY <1>2, <1>3
<1>9. Class!Contains(Class!Lineage(o.metatable), <<c, k>>) <=> on
  BY <1>2, <1>5, <1>8 DEF Class!Contains
<1>10. takes <=> on /\ ~(Class!IsConst(o) /\ changes)
  <2>1. parameter \notin {"T*", "T&"} <=> ~changes
    OBVIOUS
  <2> HIDE DEF changes
  <2> QED
    BY <1>7, <1>9, <2>1, Zenon DEF Class!StackGet, Class!GetClass
<1>11. takes => c \in Class!Ancestors(b) /\ ~(Class!IsConst(o) /\ changes)
  BY <1>3, <1>10, Zenon
<1>12. c \in Class!Derived(b) => on
  <2> SUFFICES ASSUME c \in Class!Derived(b) PROVE on
    OBVIOUS
  <2>1. Class!StaticTable(b) = <<b, "static">> /\ Class!StaticTable(c) = <<c, "static">>
    BY DEF Class!StaticTable
  <2>2. Class!Lineage(<<b, "static">>) = Lifted(w, "static")
    BY <1>2, <1>3
  <2>3. PICK n \in DOMAIN Lifted(w, "static") : Lifted(w, "static")[n] = <<c, "static">>
    BY <2>1, <2>2, Zenon DEF Class!Derived
  <2>4. n \in 1 .. Len(w) /\ <<w[n], "static">> = <<c, "static">>
    BY <1>2, <1>5, <2>3
  <2> QED
    BY <2>4
<1>13. Class!CheckClass(o, c, ~changes) = "yes" <=> on /\ ~(Class!IsConst(o) /\ changes)
  <2>1. (\E n \in DOMAIN Class!Lineage(o.metatable) :
            Class!Lineage(o.metatable)[n] = Class!MetatableOf(c, Class!IsConst(o))) <=> on
    BY <1>2, <1>5, <1>7, <1>8
  <2> HIDE DEF changes, on
  <2>2. Class!CheckClass(o, c, ~changes) =
           IF ~on THEN "no" ELSE IF Class!IsConst(o) /\ ~~changes THEN "error" ELSE "yes"
    BY <2>1, Zenon DEF Class!CheckClass
  <2> QED
    BY <2>2
<1>14. Class!GetExactClass(o, c) <=> c = b
  BY <1>2 DEF Class!GetExactClass, Class!ConstTable, Class!ObjectTable
<1> HIDE DEF changes, takes, on
<1>15. takes <=> Class!CheckClass(o, c, ~changes) = "yes"
  BY <1>10, <1>13
<1>16. c \in Class!Derived(b) /\ ~(Class!IsConst(o) /\ changes) => takes
  BY <1>10, <1>12
<1> QED
  BY <1>11, <1>14, <1>15, <1>16, Zenon DEF o, b, changes, takes

LEMMA FoundIsAccepted ==
    ASSUME ClassInv, Class!ClassAssumption
    PROVE  Class!FoundAccepts
<1> SUFFICES ASSUME NEW i \in DOMAIN objects, NEW key \in Keys,
                    NEW found \in {Class!Index(objects[i].metatable, key), Class!NewIndex(objects[i].metatable, key)},
                    found # Class!Nothing
             PROVE  Class!Accepts(objects[i], found)
  BY Zenon DEF Class!FoundAccepts
<1> DEFINE o == objects[i]
           b == o.class
           t == o.metatable
           k == t[2]
<1>1. o \in Objects /\ table[<<b, "class">>].made
  BY DEF ClassInv, ObjectsInv
<1>2. b \in Classes /\ k \in {"class", "const"} /\ t = <<b, k>> /\ k \in Kinds
  BY <1>1 DEF Objects, Kinds
<1>3. PICK w \in Ways : \A l \in Kinds : Class!Lineage(<<b, l>>) = Lifted(w, l)
  BY <1>1, <1>2, LineagesRunTogether, Zenon
<1>0. found \in {Class!Index(t, key), Class!NewIndex(t, key)}
  OBVIOUS
<1> HIDE DEF o, b, k, t
<1> DEFINE s == Lifted(w, k)
<1>4. w \in Seq(Classes) /\ Len(w) \in Nat
  BY <1>3 DEF Ways
<1>5. Class!Lineage(t) = s /\ Len(s) = Len(w)
  BY <1>2, <1>3, <1>4 DEF Lifted
<1>6. \A n \in 1 .. Len(w) : s[n] = <<w[n], k>> /\ w[n] \in Classes /\ TableOf(s[n], table[s[n]])
  BY <1>2, <1>3, TablesOnTheWay
<1> HIDE DEF s
(* A member found n classes up.                                            *)
<1>7. ASSUME NEW n \in 1 .. Len(w), found.of = s[n], k = "const" => found.kind \in {"const", "get"}
      PROVE  Class!Accepts(o, found)
  <2>1. found.of = <<w[n], k>> /\ found.of[1] = w[n]
    BY <1>6, <1>7
  <2>2. Class!IsConst(o) <=> k = "const"
    BY DEF Class!IsConst, k, t
  <2>3. Class!MetatableOf(w[n], Class!IsConst(o)) = s[n]
    BY <1>2, <1>6, <2>2 DEF Class!MetatableOf, Class!ConstTable, Class!ObjectTable
  <2>4. Class!Contains(Class!Lineage(t), s[n])
    BY <1>5 DEF Class!Contains
  <2> QED
    BY <1>7, <2>1, <2>2, <2>3, <2>4, Zenon DEF Class!Accepts, Class!GetClass, t
<1>8. CASE found = Class!Index(t, key)
  <2> DEFINE I == ReadAt(s, key)
             n == First(I)
  <2>1. I \in SUBSET (1 .. Len(w))
    BY <1>5 DEF ReadAt
  <2>2. found = IF n = 0 THEN Class!Nothing ELSE ReadFrom(s[n], key)
    BY <1>5, <1>8, IndexIs
  <2>3. (n = 0 <=> I = {}) /\ (I # {} => n \in I)
    BY <1>4, <2>1, FirstIs, Zenon
  <2>4. n \in I /\ n \in 1 .. Len(w) /\ found = ReadFrom(s[n], key)
    BY <2>1, <2>2, <2>3
  <2> HIDE DEF n, I
  <2>5. /\ found.of = s[n]
        /\ found.kind = IF table[s[n]].fns[key] # "none" THEN table[s[n]].fns[key] ELSE "get"
    BY <2>4 DEF ReadFrom
  <2>6. k = "const" => table[s[n]].fns[key] \in {"none", "const"}
    BY <1>6, <2>4 DEF TableOf
  <2>7. k = "const" => found.kind \in {"const", "get"}
    BY <2>5, <2>6
  <2> QED
    BY <1>7, <2>4, <2>5, <2>7 DEF o
<1>9. CASE found = Class!NewIndex(t, key)
  <2> DEFINE I == WrittenAt(s, key)
             n == First(I)
  <2>1. I \in SUBSET (1 .. Len(w))
    BY <1>5 DEF WrittenAt
  <2>2. found = IF n = 0 THEN Class!Nothing ELSE WrittenTo(s[n], key)
    BY <1>5, <1>9, NewIndexIs
  <2>3. (n = 0 <=> I = {}) /\ (I # {} => n \in I)
    BY <1>4, <2>1, FirstIs, Zenon
  <2>4. n \in I /\ n \in 1 .. Len(w) /\ found = WrittenTo(s[n], key)
    BY <2>1, <2>2, <2>3
  <2>5. table[s[n]].set[key] # "none"
    BY <2>4 DEF WrittenAt
  <2> HIDE DEF n, I
  <2>6. found.of = s[n]
    BY <2>4 DEF WrittenTo
  <2>7. k # "const"
    BY <1>6, <2>4, <2>5 DEF TableOf
  <2> QED
    BY <1>7, <2>4, <2>6, <2>7 DEF o
<1> QED
  BY <1>0, <1>8, <1>9 DEF o

LEMMA WrittenWhereRead ==
    ASSUME ClassInv, Class!ClassAssumption
    PROVE  Class!WritesWhatItReads
<1> SUFFICES ASSUME NEW c \in Classes, NEW key \in Keys, Class!Registered(c),
                    Class!StaticIndex(c, key).kind = "get"
             PROVE  Class!StaticNewIndex(c, key).of = Class!StaticIndex(c, key).of
  BY Zenon DEF Class!WritesWhatItReads
<1> DEFINE t == Class!StaticTable(c)
           k == "static"
<1>1. t = <<c, k>> /\ table[<<c, "class">>].made /\ k \in Kinds
  BY DEF Class!StaticTable, Class!Registered, Class!ObjectTable, Kinds
<1>2. PICK w \in Ways : \A l \in Kinds : Class!Lineage(<<c, l>>) = Lifted(w, l)
  BY <1>1, LineagesRunTogether, Zenon
<1> DEFINE s == Lifted(w, k)
           I == ReadAt(s, key)
           J == WrittenAt(s, key)
           n == First(I)
           m == First(J)
<1>3. w \in Seq(Classes) /\ Len(w) \in Nat
  BY <1>2 DEF Ways
<1>4. Class!Lineage(t) = s /\ Len(s) = Len(w)
  BY <1>1, <1>2, <1>3 DEF Lifted
<1>5. \A j \in 1 .. Len(w) : s[j] = <<w[j], k>> /\ TableOf(s[j], table[s[j]])
  BY <1>1, <1>2, TablesOnTheWay
<1> HIDE DEF s
<1>6. \A j \in 1 .. Len(w) : /\ key \in table[s[j]].get <=> table[s[j]].set[key] # "none"
                             /\ table[s[j]].fns[key] \in Functions
  <2> SUFFICES ASSUME NEW j \in 1 .. Len(w)
               PROVE  /\ key \in table[s[j]].get <=> table[s[j]].set[key] # "none"
                      /\ table[s[j]].fns[key] \in Functions
    BY Zenon
  <2> DEFINE r == table[s[j]]
  <2>1. TableOf(s[j], r) /\ s[j][2] = "static"
    BY <1>5
  <2> HIDE DEF r
  <2>2. r \in Tables
    BY <2>1 DEF TableOf
  <2>3. \A p \in Keys : p \in r.get <=> r.set[p] # "none"
    BY <2>1 DEF TableOf
  <2>4. r.fns[key] \in Functions
    BY <2>2 DEF Tables
  <2> QED
    BY <2>3, <2>4 DEF r
<1>7. I \in SUBSET (1 .. Len(w)) /\ J \in SUBSET (1 .. Len(w)) /\ J \subseteq I
  BY <1>4, <1>6 DEF ReadAt, WrittenAt
<1>8. /\ Class!StaticIndex(c, key) = IF n = 0 THEN Class!Nothing ELSE ReadFrom(s[n], key)
      /\ Class!StaticNewIndex(c, key) = IF m = 0 THEN Class!Nothing ELSE WrittenTo(s[m], key)
  BY <1>4, IndexIs, NewIndexIs DEF Class!StaticIndex, Class!StaticNewIndex
<1>9. /\ n = 0 <=> I = {}
      /\ I # {} => n \in I /\ \A j \in I : n <= j
      /\ m = 0 <=> J = {}
      /\ J # {} => m \in J /\ \A j \in J : m <= j
  BY <1>3, <1>7, FirstIs, Zenon
<1>10. n # 0
  BY <1>8 DEF Class!Nothing
<1>11. /\ n \in I /\ n \in 1 .. Len(w) /\ \A j \in I : n <= j
       /\ Class!StaticIndex(c, key) = ReadFrom(s[n], key)
  BY <1>7, <1>8, <1>9, <1>10
<1>12. key \in table[s[n]].get
  <2>1. (IF table[s[n]].fns[key] # "none" THEN table[s[n]].fns[key] ELSE "get") = "get"
    BY <1>11 DEF ReadFrom
  <2>2. table[s[n]].fns[key] = "none"
    BY <1>6, <1>11, <2>1 DEF Functions
  <2> QED
    BY <1>11, <2>2 DEF ReadAt
<1>13. n \in J
  BY <1>4, <1>6, <1>11, <1>12 DEF WrittenAt
<1>14. m = n
  <2>1. m \in J /\ m <= n
    BY <1>9, <1>13
  <2>2. m \in I /\ n <= m
    BY <1>7, <1>11, <2>1
  <2> QED
    BY <1>3, <1>7, <1>11, <2>1, <2>2
<1>15. Class!StaticNewIndex(c, key) = WrittenTo(s[n], key)
  BY <1>8, <1>10, <1>14
<1> QED
  BY <1>11, <1>15 DEF ReadFrom, WrittenTo

(* C++ takes an object for what it is or was derived from, as const when   *)
(* it is, and a script finds in it only what accepts it and writes the     *)
(* variable of a class that it reads, for any classes and derivations,     *)
(* whatever the chains registered and whenever they broke off              *)
(* (Namespace.h 123-1142, Userdata.h 85-905, CFunctions.h 42-409).         *)
THEOREM ClassesAreAsRegistered == AllSpec => []ClassesAsRegistered
<1>1. AllInit => ChainInv /\ ClassInv
  BY InitChain, InitClasses DEF AllInit
<1>2. ChainInv /\ ClassInv /\ [AllNext]_allVars => (ChainInv /\ ClassInv)'
  <2>1. ClassStep => Class!Next
    BY DEF ClassStep
  <2>2. PluginStep \/ CountedStep \/ ReferenceStep \/ UNCHANGED allVars => UNCHANGED class
    BY Zenon DEF PluginStep, CountedStep, ReferenceStep, allVars
  <2> QED
    BY ONLY <2>1, <2>2, StepChain, StepClasses, Zenon DEF AllNext
<1>3. ClassInv => ClassesAsRegistered
  BY BridgeAssumption, CastsSafe, FoundIsAccepted, WrittenWhereRead, Zenon
     DEF ClassesAsRegistered, Class!ClassesAsRegistered, BridgeAssumption
<1> QED
  BY <1>1, <1>2, <1>3, PTL DEF AllSpec

=============================================================================
