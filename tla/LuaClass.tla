------------------------------ MODULE LuaClass ------------------------------
(***************************************************************************)
(* LuaBridge's classes (ext/LuaBridge: Namespace.h, Userdata.h,            *)
(* CFunctions.h), which SrLuaPluginManager::init() registers its own with. *)
(* A chain of calls opens namespaces and classes, whose tables lie on the  *)
(* Lua stack while they are open; each temporary of the chain owns some of *)
(* the stack and gives it to the next.  A class has three metatables: of   *)
(* its objects, of its objects seen as const, and of the class itself.     *)
(* What a script does with an object goes through the first two, and what  *)
(* C++ takes back from it is checked against them.                         *)
(*                                                                         *)
(* Each C++ class is registered once and each name names one thing, as the *)
(* registry has one entry for a class.                                     *)
(***************************************************************************)
EXTENDS Integers, Sequences, SequencesExt, FiniteSets

CONSTANTS
    Classes, Base,   \* the C++ classes, and the base of each or NoClass
    Namespaces,      \* names of namespaces, beside the global one
    Keys,            \* names of members
    MaxAdds,         \* bound: members added
    MaxTemps,        \* bound: temporaries of one chain of calls
    MaxObjects       \* bound: objects given to Lua

NoClass == "no class"
Global == "_G"

ClassAssumption ==
    /\ IsFiniteSet(Classes) /\ Base \in [Classes -> Classes \cup {NoClass}]
    /\ MaxAdds \in Nat /\ MaxTemps \in Nat /\ MaxObjects \in Nat

VARIABLES
    table,      \* the tables LuaBridge made, by what they are for
    stack,      \* the Lua stack: the tables that are open
    temps,      \* m_stackSize of the temporaries, in the order of their making
    ending,     \* whether the temporaries are being destroyed
    aborted,    \* whether an assertion has stopped the program
    objects,    \* userdata given to Lua
    adds

classVars == <<table, stack, temps, ending, aborted, objects, adds>>

ObjectTable(c) == <<c, "class">>
ConstTable(c) == <<c, "const">>
StaticTable(c) == <<c, "static">>
Space(n) == <<n, "namespace">>

Absent == [made |-> FALSE]

(* A table: its functions, of its __propget the keys, its __propset, which *)
(* the const table lacks, and its __parent.                                *)
Table(parent) ==
    [made |-> TRUE, parent |-> parent, fns |-> [k \in Keys |-> "none"],
     get |-> {}, set |-> [k \in Keys |-> "none"]]
NoTable == <<NoClass, "none">>

Registered(c) == table[ObjectTable(c)].made

Init ==
    /\ table = [t \in (Classes \X {"class", "const", "static"})
                      \cup ((Namespaces \cup {Global}) \X {"namespace"}) |->
                   IF t = Space(Global) THEN Table(NoTable) ELSE Absent]
    /\ stack = <<>> /\ temps = <<>> /\ ending = FALSE /\ aborted = FALSE
    /\ objects = <<>> /\ adds = 0

-----------------------------------------------------------------------------
(* The chain of calls.                                                     *)
Open == ~ending /\ ~aborted
MayChain == Open /\ temps # <<>> /\ Len(temps) < MaxTemps
InSpace == stack # <<>> /\ Last(stack)[2] = "namespace"
InClass == stack # <<>> /\ Last(stack)[2] = "static"
Current == Last(stack)[1]

(* A temporary takes over what the last one owns, and n entries more.      *)
TakesOver(n) ==
    temps' = Append([temps EXCEPT ![Len(temps)] = 0], temps[Len(temps)] + n)

GetGlobalNamespace ==
    /\ Open /\ temps = <<>>
    /\ stack' = <<Space(Global)>> /\ temps' = <<1>>
    /\ UNCHANGED <<table, ending, aborted, objects, adds>>

BeginNamespace(n) ==
    /\ MayChain /\ InSpace
    /\ stack' = Append(stack, Space(n)) /\ TakesOver(1)
    /\ table' = IF table[Space(n)].made THEN table
                ELSE [table EXCEPT ![Space(n)] = Table(NoTable)]
    /\ UNCHANGED <<ending, aborted, objects, adds>>

EndNamespace ==
    /\ MayChain /\ InSpace /\ Len(stack) > 1
    /\ stack' = Front(stack) /\ TakesOver(-1)
    /\ UNCHANGED <<table, ending, aborted, objects, adds>>

(* The copy constructors.                                                  *)
Copy ==
    /\ MayChain
    /\ TakesOver(0)
    /\ UNCHANGED <<table, stack, ending, aborted, objects, adds>>

(* createConstTable(), createClassTable() and createStaticTable().         *)
OpenClass(c, parent(_)) ==
    /\ stack' = stack \o <<ConstTable(c), ObjectTable(c), StaticTable(c)>>
    /\ TakesOver(3)
    /\ table' = [t \in DOMAIN table |->
                    IF t \in {ConstTable(c), ObjectTable(c), StaticTable(c)}
                    THEN Table(parent(t)) ELSE table[t]]
    /\ UNCHANGED <<ending, aborted, objects, adds>>

BeginClass(c) ==
    /\ MayChain /\ InSpace /\ ~Registered(c)
    /\ OpenClass(c, LAMBDA t : NoTable)

(* Mutant of ParentOf: the const table is derived from the class table.    *)
ParentOfObjects(t, u) == IF t[2] = "static" THEN <<u, "static">> ELSE ObjectTable(u)

ParentOf(t, u) == <<u, t[2]>>

DeriveClass(c, u) ==
    /\ MayChain /\ InSpace /\ ~Registered(c)
    /\ u = Base[c] /\ Registered(u)
    /\ OpenClass(c, LAMBDA t : ParentOf(t, u))

(* A second beginClass(), to add to a registration, looks for __class in   *)
(* the table of the name and not in its metatable: the assertion of        *)
(* rawgetfield() fails.                                                    *)
BeginClassAgain(c) ==
    /\ MayChain /\ InSpace /\ Registered(c)
    /\ aborted' = TRUE
    /\ UNCHANGED <<table, stack, temps, ending, objects, adds>>

(* Mutant of EndClass: two of the three tables are taken from the stack.   *)
EndClassKeepsOne ==
    /\ MayChain /\ InClass
    /\ stack' = SubSeq(stack, 1, Len(stack) - 2) /\ TakesOver(-3)
    /\ UNCHANGED <<table, ending, aborted, objects, adds>>

EndClass ==
    /\ MayChain /\ InClass
    /\ stack' = SubSeq(stack, 1, Len(stack) - 3) /\ TakesOver(-3)
    /\ UNCHANGED <<table, ending, aborted, objects, adds>>

(* The end of the expression: the temporaries go, the youngest first, and  *)
(* each takes from the stack what it owns.                                 *)
Destruct ==
    /\ ~aborted /\ temps # <<>>
    /\ stack' = SubSeq(stack, 1, Len(stack) - temps[Len(temps)])
    /\ temps' = Front(temps)
    /\ ending' = (Len(temps) > 1)
    /\ UNCHANGED <<table, aborted, objects, adds>>

-----------------------------------------------------------------------------
(* The members; the tables are found by their places on the stack.         *)
Adds == /\ Open /\ adds < MaxAdds /\ adds' = adds + 1
        /\ UNCHANGED <<stack, temps, ending, aborted, objects>>
AtTop(k) == stack[Len(stack) + 1 - k]

AddFunction(key, isConst) ==
    /\ InClass /\ Adds
    /\ table' = IF isConst
                THEN [table EXCEPT ![AtTop(2)].fns[key] = "const",
                                   ![AtTop(3)].fns[key] = "const"]
                ELSE [table EXCEPT ![AtTop(2)].fns[key] = "mutable"]

(* addData() and the addProperty()s.                                       *)
AddData(key, isWritable) ==
    /\ InClass /\ Adds
    /\ table' = [table EXCEPT ![AtTop(2)].get = @ \cup {key},
                              ![AtTop(3)].get = @ \cup {key},
                              ![AtTop(2)].set[key] = IF isWritable THEN "set" ELSE @]

(* What a class has itself, and what a namespace has.                      *)
WithFunction(key) == [table EXCEPT ![AtTop(1)].fns[key] = "static"]
WithVariable(key, isWritable) ==
    [table EXCEPT ![AtTop(1)].get = @ \cup {key},
                  ![AtTop(1)].set[key] = IF isWritable THEN "set" ELSE "readonly"]

AddStaticFunction(key) == InClass /\ Adds /\ table' = WithFunction(key)

AddStaticData(key, isWritable) ==
    InClass /\ Adds /\ table' = WithVariable(key, isWritable)

AddFreeFunction(key) == InSpace /\ Adds /\ table' = WithFunction(key)

AddVariable(key, isWritable) ==
    /\ InSpace /\ Current # Global
    /\ Adds /\ table' = WithVariable(key, isWritable)

(* The global namespace has no __propget, and an assertion fails.          *)
AddGlobalVariable ==
    /\ InSpace /\ Current = Global /\ Open
    /\ aborted' = TRUE
    /\ UNCHANGED <<table, stack, temps, ending, objects, adds>>

-----------------------------------------------------------------------------
(* Objects: a value, a pointer or a container, as userdata.  Where C++     *)
(* gave a pointer to const, or a container of one, they get the const      *)
(* table.                                                                  *)
MetatableOf(c, isConst) == IF isConst THEN ConstTable(c) ELSE ObjectTable(c)

Push(c, isConst) ==
    /\ temps = <<>> /\ ~aborted /\ Registered(c) /\ Len(objects) < MaxObjects
    /\ objects' = Append(objects, [class |-> c, metatable |-> MetatableOf(c, isConst)])
    /\ UNCHANGED <<table, stack, temps, ending, aborted, adds>>

IsConst(o) == o.metatable[2] = "const"

(* The metatable is one of the two that the registry leads to.             *)
GetExactClass(o, c) == o.metatable \in {ObjectTable(c), ConstTable(c)}

(* __gc, which the metatable has from the class it was made for.           *)
Collect(i) ==
    /\ temps = <<>> /\ ~aborted
    /\ GetExactClass(objects[i], objects[i].metatable[1])
    /\ objects' = RemoveAt(objects, i)
    /\ UNCHANGED <<table, stack, temps, ending, aborted, adds>>

Next ==
    \/ GetGlobalNamespace \/ EndNamespace \/ Copy \/ EndClass \/ Destruct
    \/ \E n \in Namespaces : BeginNamespace(n)
    \/ \E c \in Classes : BeginClass(c) \/ BeginClassAgain(c)
    \/ \E c \in Classes : \E u \in Classes : DeriveClass(c, u)
    \/ \E key \in Keys : \E b \in BOOLEAN :
          \/ AddFunction(key, b) \/ AddData(key, b)
          \/ AddStaticData(key, b) \/ AddVariable(key, b)
    \/ \E key \in Keys : AddStaticFunction(key) \/ AddFreeFunction(key)
    \/ AddGlobalVariable
    \/ \E c \in Classes : \E b \in BOOLEAN : Push(c, b)
    \/ \E i \in DOMAIN objects : Collect(i)

Spec == Init /\ [][Next]_classVars

-----------------------------------------------------------------------------
(* What is looked up in the tables: from a table up its parents, in the    *)
(* first that has it.                                                      *)
Lineage(t) ==
    LET up[n \in Nat] ==
          IF n = 0 THEN <<t>>
          ELSE LET below == up[n - 1]
                   parent == table[Last(below)].parent
               IN  IF parent = NoTable THEN below ELSE Append(below, parent)
    IN  up[Cardinality(Classes)]

Nothing == [kind |-> "nothing", of |-> NoTable]
FirstOf(t, Holds(_)) == SelectInSeq(Lineage(t), Holds)

(* The __index metamethods: a function before a property.                  *)
Index(t, key) ==
    LET n == FirstOf(t, LAMBDA u : table[u].fns[key] # "none" \/ key \in table[u].get)
        u == Lineage(t)[n]
    IN  IF n = 0 THEN Nothing
        ELSE [kind |-> IF table[u].fns[key] # "none" THEN table[u].fns[key] ELSE "get",
              of |-> u]

(* The __newindex metamethods.                                             *)
NewIndex(t, key) ==
    LET n == FirstOf(t, LAMBDA u : table[u].set[key] # "none")
        u == Lineage(t)[n]
    IN  IF n = 0 THEN Nothing ELSE [kind |-> table[u].set[key], of |-> u]

(* The same of a class itself, whose functions and variables its static    *)
(* table has; __parent is then that of the base.                           *)
StaticIndex(c, key) == Index(StaticTable(c), key)
StaticNewIndex(c, key) == NewIndex(StaticTable(c), key)

(* Userdata::getClass(): whether C++ gets a pointer to a c from the        *)
(* object; the const table stands for the class table when it is const.    *)
GetClass(o, c, canBeConst) ==
    /\ Contains(Lineage(o.metatable), MetatableOf(c, IsConst(o)))
    /\ IsConst(o) => canBeConst

(* Userdata::checkClass(), the same walk for is<T>(): an object that is    *)
(* const where it must not be is an error, and not "no".                   *)
CheckClass(o, c, canBeConst) ==
    LET walk(n) == Lineage(o.metatable)[n] = MetatableOf(c, IsConst(o))
    IN  IF ~\E n \in DOMAIN Lineage(o.metatable) : walk(n) THEN "no"
        ELSE IF IsConst(o) /\ ~canBeConst THEN "error" ELSE "yes"

(* The types a C++ function may have for a parameter, and whether it takes *)
(* the object (Stack<>::get()).                                            *)
Parameters == {"T", "T*", "T const*", "T&", "T const&"}
StackGet(o, c, parameter) == GetClass(o, c, parameter \notin {"T*", "T&"})

(* What the C functions behind a member ask of the object.                 *)
Accepts(o, found) ==
    GetClass(o, found.of[1], found.kind \in {"const", "get"})

-----------------------------------------------------------------------------
TypeOK ==
    /\ \A t \in DOMAIN table : table[t].made => table[t].parent \in DOMAIN table \cup {NoTable}
    /\ ending \in BOOLEAN /\ aborted \in BOOLEAN /\ adds \in 0 .. MaxAdds
    /\ Len(objects) <= MaxObjects /\ Len(temps) <= MaxTemps

(* The temporaries of a chain own the whole stack between them, so that it *)
(* is as before when the last is gone, wherever the chain breaks off.      *)
StackIsOwned ==
    /\ FoldSeq(LAMBDA n, sum : n + sum, 0, temps) = Len(stack)
    /\ \A i \in DOMAIN temps : temps[i] >= 0

(* An object is taken for a class of C++ only if it is of it or of one     *)
(* derived from it, as C++ casts without a check, and is not changed when  *)
(* it is const; if derivations say so it is taken; and is<T>() says yes of *)
(* those that are taken.                                                   *)
Derived(c) == \* c and the classes it was derived from
    {d \in Classes : \E n \in DOMAIN Lineage(StaticTable(c)) :
                         Lineage(StaticTable(c))[n] = StaticTable(d)}
Ancestors(c) ==
    LET up[n \in Nat] == IF n = 0 THEN {c} ELSE up[n - 1] \cup {Base[d] : d \in up[n - 1] \cap Classes}
    IN  up[Cardinality(Classes)] \cap Classes

CastsAreSafe ==
    \A i \in DOMAIN objects : \A c \in Classes : \A parameter \in Parameters :
        LET o == objects[i]
            changes == parameter \in {"T*", "T&"}
            takes == StackGet(o, c, parameter)
        IN  /\ takes => c \in Ancestors(o.class) /\ ~(IsConst(o) /\ changes)
            /\ c \in Derived(o.class) /\ ~(IsConst(o) /\ changes) => takes
            /\ takes <=> CheckClass(o, c, ~changes) = "yes"
            /\ GetExactClass(o, c) <=> c = o.class

(* What a script finds in an object, a function or a property to read or   *)
(* write, accepts this object: none that changes it is found in a const    *)
(* one, nor one of a class it is not of.                                   *)
FoundAccepts ==
    \A i \in DOMAIN objects : \A key \in Keys :
        \A found \in {Index(objects[i].metatable, key), NewIndex(objects[i].metatable, key)} :
            found # Nothing => Accepts(objects[i], found)

(* A script that writes a variable of a class writes the one it reads, or  *)
(* none when that is read-only.                                            *)
WritesWhatItReads ==
    \A c \in Classes : \A key \in Keys : Registered(c) =>
        LET read == StaticIndex(c, key)
        IN  read.kind = "get" => StaticNewIndex(c, key).of = read.of

(* Scripts run between the chains of calls.                                *)
ClassesAsRegistered ==
    temps = <<>> => CastsAreSafe /\ FoundAccepts /\ WritesWhatItReads
=============================================================================
