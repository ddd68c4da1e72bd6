---------------------------- MODULE LuaRefCounted ----------------------------
(***************************************************************************)
(* LuaBridge's counted pointers (ext/LuaBridge: RefCountedObject.h with    *)
(* the count in the object, RefCountedPtr.h with the counts in a table of  *)
(* the process), and the userdata that hold one (UserdataShared).  An      *)
(* object has a pointer as a member, so that its deletion releases         *)
(* another; what is still to be released is todo.                          *)
(*                                                                         *)
(* RefCountedPtr releases its object before it reads the pointer it is     *)
(* given: p = p->next, with the last pointer to *p, reads a deleted        *)
(* object.  The model asks that the right-hand side lives on.  Neither     *)
(* kind of pointer breaks a cycle; the model's objects point to younger    *)
(* ones only.                                                              *)
(***************************************************************************)
EXTENDS Integers, Sequences, FiniteSets

CONSTANTS
    Vars,        \* pointers in variables
    Userdata,    \* pointers in userdata
    MaxNodes     \* bound: objects

CountedAssumption ==
    /\ MaxNodes \in Nat
    /\ IsFiniteSet(Vars) /\ IsFiniteSet(Userdata)
    /\ \A p \in Vars \cup Userdata : p \notin 1 .. MaxNodes   \* a node is no variable

VARIABLES
    intrusive,   \* whether the count is in the object
    nodes,       \* the objects made so far
    count,       \* the counts
    deleted,     \* the objects that were deleted
    target,      \* the object each pointer points to; Null, or Gone when it is no pointer
    todo,        \* objects that lose a pointer, before anything else happens
    twice        \* history: whether an object was deleted that was gone

countedVars == <<intrusive, nodes, count, deleted, target, todo, twice>>

Nodes == 1 .. MaxNodes
Null == 0
Gone == -1
Pointers == Vars \cup Userdata \cup Nodes   \* a node's pointer has its name

Init ==
    /\ intrusive \in BOOLEAN
    /\ nodes = 0 /\ count = [n \in Nodes |-> 0] /\ deleted = {}
    /\ target = [p \in Pointers |-> Gone] /\ todo = <<>> /\ twice = FALSE

Alive(p) == target[p] # Gone
AtRest == todo = <<>>

(* Incremented for one pointer, and the old object released.               *)
Acquire(n) == count' = IF n = Null THEN count ELSE [count EXCEPT ![n] = @ + 1]
Release(n) == todo' = IF n = Null THEN <<>> ELSE <<n>>

(* Mutant of Decrement: an object is deleted while one pointer is left.    *)
DecrementEarly ==
    LET n == Head(todo) IN
    /\ todo # <<>>
    /\ count' = [count EXCEPT ![n] = @ - 1]
    /\ IF count'[n] > 1
       THEN todo' = Tail(todo) /\ UNCHANGED <<deleted, target, twice>>
       ELSE /\ deleted' = deleted \cup {n} /\ twice' = (twice \/ n \in deleted)
            /\ todo' = (IF target[n] > 0 THEN <<target[n]>> ELSE <<>>) \o Tail(todo)
            /\ target' = [target EXCEPT ![n] = Gone]
    /\ UNCHANGED <<intrusive, nodes>>

(* --count; at zero the object goes, and then its member.                  *)
Decrement ==
    LET n == Head(todo) IN
    /\ todo # <<>>
    /\ count' = [count EXCEPT ![n] = @ - 1]
    /\ IF count'[n] > 0
       THEN todo' = Tail(todo) /\ UNCHANGED <<deleted, target, twice>>
       ELSE /\ deleted' = deleted \cup {n} /\ twice' = (twice \/ n \in deleted)
            /\ todo' = (IF target[n] > 0 THEN <<target[n]>> ELSE <<>>) \o Tail(todo)
            /\ target' = [target EXCEPT ![n] = Gone]
    /\ UNCHANGED <<intrusive, nodes>>

(* A pointer is made from a new object, whose member is null.              *)
New(p) ==
    /\ AtRest /\ ~Alive(p) /\ nodes < MaxNodes
    /\ nodes' = nodes + 1
    /\ target' = [target EXCEPT ![p] = nodes', ![nodes'] = Null]
    /\ Acquire(nodes')
    /\ UNCHANGED <<intrusive, deleted, todo, twice>>

(* From another pointer, or from the bare pointer of an object that a      *)
(* script hands back (constructContainer()).                               *)
Construct(p, q) ==
    /\ AtRest /\ ~Alive(p) /\ Alive(q)
    /\ target' = [target EXCEPT ![p] = target[q]] /\ Acquire(target[q])
    /\ UNCHANGED <<intrusive, nodes, deleted, todo, twice>>

ConstructMoved(p, q) ==
    /\ AtRest /\ intrusive /\ ~Alive(p) /\ Alive(q)
    /\ target' = [target EXCEPT ![p] = target[q], ![q] = Null]
    /\ UNCHANGED <<intrusive, nodes, count, deleted, todo, twice>>

(* The objects that go with n when it loses a pointer.                     *)
GoWith(n) ==
    LET next[k \in Nat] ==
          IF k = 0 THEN IF n > 0 /\ count[n] = 1 THEN {n} ELSE {}
          ELSE next[k - 1] \cup
               {m \in Nodes : count[m] = 1 /\ \E o \in next[k - 1] : target[o] = m}
    IN  next[MaxNodes]

(* operator=(), also of a pointer to null and of one that is a member.     *)
MayAssign(p, q) ==
    /\ AtRest /\ Alive(p) /\ Alive(q)
    /\ p \in Nodes => target[q] = Null \/ target[q] > p

Reassign(p, q) ==
    /\ target' = [target EXCEPT ![p] = target[q]]
    /\ Acquire(target[q]) /\ Release(target[p])
    /\ UNCHANGED <<intrusive, nodes, deleted, twice>>

Assign(p, q) ==
    /\ intrusive /\ MayAssign(p, q) /\ target[p] # target[q]
    /\ Reassign(p, q)

AssignCounted(p, q) ==
    /\ ~intrusive /\ MayAssign(p, q) /\ target[p] # target[q]
    /\ q \notin GoWith(target[p])
    /\ Reassign(p, q)

(* From a pointer of another type, which does not compare the two.         *)
AssignConverted(p, q) ==
    /\ ~intrusive /\ MayAssign(p, q) /\ p # q
    /\ q \notin GoWith(target[p])
    /\ Reassign(p, q)

(* The move assignment swaps.                                              *)
AssignMoved(p, q) ==
    /\ AtRest /\ intrusive /\ p # q /\ Alive(p) /\ Alive(q)
    /\ p \in Nodes => target[q] = Null \/ target[q] > p
    /\ q \in Nodes => target[p] = Null \/ target[p] > q
    /\ target' = [target EXCEPT ![p] = target[q], ![q] = target[p]]
    /\ UNCHANGED <<intrusive, nodes, count, deleted, todo, twice>>

Reset(p) ==
    /\ AtRest /\ Alive(p)
    /\ target' = [target EXCEPT ![p] = Null] /\ Release(target[p])
    /\ UNCHANGED <<intrusive, nodes, count, deleted, twice>>

(* The destructor; of a userdata, by __gc.                                 *)
Destroy(p) ==
    /\ AtRest /\ Alive(p)
    /\ target' = [target EXCEPT ![p] = Gone] /\ Release(target[p])
    /\ UNCHANGED <<intrusive, nodes, count, deleted, twice>>

Next ==
    \/ Decrement
    \/ \E p \in Vars \cup Userdata : New(p) \/ Destroy(p)
    \/ \E p \in Vars \cup Nodes : Reset(p)
    \/ \E p \in Vars \cup Userdata : \E q \in Pointers : Construct(p, q)
    \/ \E p \in Vars : \E q \in Vars : ConstructMoved(p, q)
    \/ \E p \in Vars \cup Nodes : \E q \in Pointers :
          Assign(p, q) \/ AssignCounted(p, q) \/ AssignConverted(p, q)
    \/ \E p \in Vars \cup Nodes : \E q \in Vars \cup Nodes : AssignMoved(p, q)

Spec == Init /\ [][Next]_countedVars

-----------------------------------------------------------------------------
TypeOK ==
    /\ intrusive \in BOOLEAN /\ nodes \in 0 .. MaxNodes
    /\ count \in [Nodes -> Nat] /\ deleted \subseteq Nodes
    /\ target \in [Pointers -> Nodes \cup {Null, Gone}]
    /\ todo \in Seq(Nodes) /\ twice \in BOOLEAN

(* An object lives as long as a variable, a userdata or a member of an     *)
(* object that lives points to it, and is deleted once, when the last of   *)
(* them is gone.                                                           *)
LivesWhilePointedTo ==
    LET to(n) == {p \in Pointers : target[p] = n} IN
    /\ ~twice
    /\ \A n \in deleted : to(n) = {}
    /\ AtRest => \A n \in 1 .. nodes :
          Cardinality(to(n)) = count[n] /\ (to(n) = {} => n \in deleted)
=============================================================================
