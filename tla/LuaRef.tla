-------------------------------- MODULE LuaRef --------------------------------
(***************************************************************************)
(* LuaBridge's references to Lua values (ext/LuaBridge: LuaRef.h,          *)
(* LuaException.h).  A LuaRef owns a slot of the registry, which luaL_ref() *)
(* and luaL_unref() hand out and take back; a Proxy, a temporary for an    *)
(* element of a table, owns the slot of its key and borrows that of the    *)
(* table.  Values go to and from the slots over the Lua stack, of which    *)
(* every member leaves what was there.  An action is one expression of     *)
(* C++, with its temporaries.                                              *)
(*                                                                         *)
(* Five kinds of expressions do not work; slip is the first that occurs,   *)
(* and ends the model's behaviour:                                         *)
(*   "walk"     a = a[k], and a = a: the slot is given back before the     *)
(*              value in it is read;                                       *)
(*   "nested"   a[k][k]: Proxy::operator[] makes a reference to the inner  *)
(*              table, whose slot is given back when it returns;           *)
(*   "rawget"   Proxy::rawget() names no StackPop: it takes a value of its *)
(*              caller and leaves the table;                               *)
(*   "length"   of Lua 5.2: lua_len() leaves the length on the stack;      *)
(*   "failing"  a call that fails leaves the message there.                *)
(***************************************************************************)
EXTENDS Integers, Sequences, SequencesExt, FiniteSets

CONSTANTS
    Refs,        \* variables of type LuaRef
    MaxTables    \* bound: the tables

RefAssumption == MaxTables \in Nat \ {0}

(* Values: tables, the first of them a global, a number, a function, nil.  *)
(* A table has one key here.                                               *)
Nil == 0
Number == -1
Function == -2
Tables == 1 .. MaxTables
Scalars == {Nil, Number, Function}
Values == Tables \cup Scalars
Key == Number

REFNIL == 0      \* LUA_REFNIL; slots count from 1
NoRef == -1      \* of a variable that is not alive

VARIABLES
    slots,    \* the registry: what luaL_ref() put in each slot
    free,     \* the slots given back, the last first
    stack,    \* the Lua stack
    element,  \* of every table what is at Key
    tables,   \* how many tables there are
    ref,      \* m_ref of every variable, or NoRef
    failed,   \* whether Lua raised an error outside of a protected call
    is,       \* history: the value each variable was given last
    slip      \* history: the kind of expression above that occurred, or none

refVars == <<slots, free, stack, element, tables, ref, failed, is, slip>>

(* What the code that calls has on the stack.                              *)
Callers == <<Number>>

Init ==
    /\ slots = <<>> /\ free = <<>> /\ stack = Callers
    /\ element = [t \in Tables |-> Nil] /\ tables = 1
    /\ ref = [r \in Refs |-> NoRef] /\ failed = FALSE
    /\ is = [r \in Refs |-> Nil] /\ slip = "none"

-----------------------------------------------------------------------------
(* Lua's functions on its state m, where an expression does several.       *)
Lua == [slots |-> slots, free |-> free, stack |-> stack, element |-> element,
        failed |-> failed, got |-> REFNIL]

PushValue(m, v) == [m EXCEPT !.stack = Append(@, v)]
Pop(m, n) == [m EXCEPT !.stack = SubSeq(@, 1, Len(@) - n)]
Top(m) == Last(m.stack)

(* lua_rawgeti() on the registry.                                          *)
PushSlot(m, s) == PushValue(m, IF s = REFNIL THEN Nil ELSE m.slots[s])

(* The slot is in got.                                                     *)
LuaL_ref(m) ==
    LET v == Top(m)
        n == Pop(m, 1)
    IN  IF v = Nil THEN [n EXCEPT !.got = REFNIL]
        ELSE IF m.free # <<>>
        THEN [n EXCEPT !.got = Head(m.free), !.free = Tail(@), !.slots[Head(m.free)] = v]
        ELSE [n EXCEPT !.got = Len(m.slots) + 1, !.slots = Append(@, v)]

(* A free slot holds the number of the next free slot.                     *)
LuaL_unref(m, s) ==
    IF s = REFNIL THEN m
    ELSE [m EXCEPT !.free = <<s>> \o @, !.slots[s] = Number]

(* lua_gettable() and lua_settable(), with the key on top of the table.    *)
GetTable(m) ==
    LET t == m.stack[Len(m.stack) - 1]
    IN  IF t \in Tables THEN PushValue(Pop(m, 1), m.element[t])
        ELSE [m EXCEPT !.failed = TRUE]
SetTable(m) ==
    LET t == m.stack[Len(m.stack) - 2]
    IN  IF t \in Tables THEN [Pop(m, 2) EXCEPT !.element[t] = Top(m)]
        ELSE [m EXCEPT !.failed = TRUE]

(* lua_remove(L, -2).                                                      *)
RemoveBelow(m) == [m EXCEPT !.stack = RemoveAt(@, Len(@) - 1)]

(* The state after an expression; an error jumps out of it.                *)
Becomes(m) ==
    /\ slots' = m.slots /\ free' = m.free /\ stack' = m.stack
    /\ element' = m.element /\ failed' = m.failed

-----------------------------------------------------------------------------
(* A proxy for element k of the table in slot s is the slot of its key.    *)
MakeProxy(m) == LuaL_ref(PushValue(m, Key))

(* Mutant of EndProxy: the proxy's key keeps its slot.                     *)
EndProxyForgets(m, keyRef) == m

EndProxy(m, keyRef) == LuaL_unref(m, keyRef)

(* Proxy::push().                                                          *)
PushProxy(m, s, keyRef) ==
    LET n == GetTable(PushSlot(PushSlot(m, s), keyRef))
    IN  IF n.failed THEN n ELSE RemoveBelow(n)

Alive(r) == slip = "none" /\ ref[r] # NoRef
Fresh(r) == slip = "none" /\ ref[r] = NoRef
HoldsTable(r) == Alive(r) /\ is[r] \in Tables

Gives(r, m, v) ==
    /\ Becomes(m)
    /\ ref' = [ref EXCEPT ![r] = m.got]
    /\ is' = [is EXCEPT ![r] = v]

(* LuaRef(L), LuaRef(L, v) and getGlobal(): of a value, which is pushed.   *)
MakeOf(r, v) ==
    /\ Fresh(r)
    /\ Gives(r, LuaL_ref(PushValue(Lua, v)), v)
    /\ UNCHANGED <<tables, slip>>

(* newTable(); like fromStack() it refers to what lies on the stack.       *)
NewTable(r) ==
    /\ Fresh(r) /\ tables < MaxTables
    /\ tables' = tables + 1
    /\ Gives(r, LuaL_ref(PushValue(Lua, tables')), tables')
    /\ UNCHANGED slip

(* The copy constructor: createRef() of the other.                         *)
MakeCopy(r, q) ==
    /\ Fresh(r) /\ Alive(q)
    /\ Gives(r, LuaL_ref(PushSlot(Lua, ref[q])), is[q])
    /\ UNCHANGED <<tables, slip>>

(* LuaRef r = q[Key].                                                      *)
MakeFromElement(r, q) ==
    /\ Fresh(r) /\ HoldsTable(q)
    /\ LET p == MakeProxy(Lua)
           m == LuaL_ref(PushProxy(p, ref[q], p.got))
       IN  Gives(r, [EndProxy(m, p.got) EXCEPT !.got = m.got], element[is[q]])
    /\ UNCHANGED <<tables, slip>>

Destroy(r) ==
    /\ Alive(r)
    /\ Becomes(LuaL_unref(Lua, ref[r]))
    /\ ref' = [ref EXCEPT ![r] = NoRef] /\ is' = [is EXCEPT ![r] = Nil]
    /\ UNCHANGED <<tables, slip>>

(* r = v.                                                                  *)
AssignValue(r, v) ==
    /\ Alive(r)
    /\ Gives(r, LuaL_ref(PushValue(LuaL_unref(Lua, ref[r]), v)), v)
    /\ UNCHANGED <<tables, slip>>

(* r = q.                                                                  *)
AssignRef(r, q) ==
    /\ Alive(r) /\ Alive(q) /\ slip' = (IF r = q THEN "walk" ELSE "none")
    /\ Gives(r, LuaL_ref(PushSlot(LuaL_unref(Lua, ref[r]), ref[q])), is[q])
    /\ UNCHANGED tables

(* r = q[Key]: the operator for values, with a Proxy as its value.         *)
AssignElement(r, q) ==
    /\ Alive(r) /\ HoldsTable(q) /\ slip' = (IF r = q THEN "walk" ELSE "none")
    /\ LET p == MakeProxy(Lua)
           m == LuaL_ref(PushProxy(LuaL_unref(p, ref[r]), ref[q], p.got))
       IN  Gives(r, [EndProxy(m, p.got) EXCEPT !.got = m.got], element[is[q]])
    /\ UNCHANGED tables

(* q[Key] = r, whose copy is pushed, and q[Key] = Nil(), by the slot that  *)
(* is pushed: the assignment of Proxy and its rawset().                    *)
SetElement(q, s) ==
    /\ HoldsTable(q)
    /\ LET p == MakeProxy(Lua)
           c == LuaL_ref(PushSlot(p, s))
           m == SetTable(PushSlot(PushSlot(PushSlot(c, ref[q]), p.got), c.got))
       IN  Becomes(EndProxy(LuaL_unref(Pop(m, 1), c.got), p.got))
    /\ UNCHANGED <<tables, ref, is, slip>>

(* type(), cast(), is() and the comparisons with a number, of r.           *)
Inspect(r) ==
    /\ Alive(r)
    /\ Becomes(Pop(PushValue(PushSlot(Lua, ref[r]), Number), 2))
    /\ UNCHANGED <<tables, ref, is, slip>>

(* Those of q[Key].                                                        *)
InspectElement(q) ==
    /\ HoldsTable(q)
    /\ LET p == MakeProxy(Lua)
           m == Pop(PushValue(PushProxy(p, ref[q], p.got), Number), 2)
       IN  Becomes(EndProxy(m, p.got))
    /\ UNCHANGED <<tables, ref, is, slip>>

(* LuaRef r = q[Key].rawget(Key), for a table of tables.                   *)
RawGet(r, q) ==
    /\ Fresh(r) /\ HoldsTable(q) /\ element[is[q]] \in Tables /\ slip' = "rawget"
    /\ LET p == MakeProxy(Lua)
           m == LuaL_ref(GetTable(PushValue(PushProxy(Pop(p, 1), ref[q], p.got), Key)))
       IN  Gives(r, [EndProxy(m, p.got) EXCEPT !.got = m.got], element[element[is[q]]])
    /\ UNCHANGED tables

(* LuaRef r = q[Key][Key].                                                 *)
Nested(r, q) ==
    /\ Fresh(r) /\ HoldsTable(q) /\ element[is[q]] \in Tables /\ slip' = "nested"
    /\ LET p == MakeProxy(Lua)
           inner == LuaL_ref(PushProxy(p, ref[q], p.got))
           p2 == MakeProxy(inner)
           m == LuaL_ref(PushProxy(LuaL_unref(p2, inner.got), inner.got, p2.got))
       IN  Gives(r, [EndProxy(EndProxy(m, p2.got), p.got) EXCEPT !.got = m.got],
                 element[element[is[q]]])
    /\ UNCHANGED tables

(* lua_objlen() of Lua 5.1 returns the length, lua_len() pushes it.        *)
Length(q, lua52) ==
    /\ HoldsTable(q) /\ slip' = (IF lua52 THEN "length" ELSE "none")
    /\ Becomes(IF lua52 THEN PushSlot(Lua, ref[q]) ELSE Lua)
    /\ UNCHANGED <<tables, ref, is>>

(* LuaRef r = q(a), of a function q.                                       *)
Call(r, q, a, result) ==
    /\ Fresh(r) /\ Alive(q) /\ is[q] = Function /\ Alive(a)
    /\ LET m == Pop(PushSlot(PushSlot(Lua, ref[q]), ref[a]), 2)
       IN  Gives(r, LuaL_ref(PushValue(m, result)), result)
    /\ UNCHANGED <<tables, slip>>

(* LuaRef r = q[Key](a), of a function in a table.                         *)
CallElement(r, q, a, result) ==
    /\ Fresh(r) /\ HoldsTable(q) /\ element[is[q]] = Function /\ Alive(a)
    /\ LET p == MakeProxy(Lua)
           called == Pop(PushSlot(PushProxy(p, ref[q], p.got), ref[a]), 2)
           m == LuaL_ref(PushValue(called, result))
       IN  Gives(r, [EndProxy(m, p.got) EXCEPT !.got = m.got], result)
    /\ UNCHANGED <<tables, slip>>

(* LuaException::pcall() throws, and leaves the message.                   *)
CallFails(q) ==
    /\ Alive(q) /\ is[q] = Function /\ slip' = "failing"
    /\ Becomes(PushValue(Lua, Number))
    /\ UNCHANGED <<tables, ref, is>>

Next ==
    \/ \E r \in Refs : NewTable(r) \/ Destroy(r) \/ CallFails(r)
                      \/ Inspect(r) \/ InspectElement(r)
    \/ \E r \in Refs : \E lua52 \in BOOLEAN : Length(r, lua52)
    \/ \E r \in Refs : \E v \in Scalars \cup {1} : MakeOf(r, v) \/ AssignValue(r, v)
    \/ \E r \in Refs : \E q \in Refs :
          \/ MakeCopy(r, q) \/ MakeFromElement(r, q)
          \/ AssignRef(r, q) \/ AssignElement(r, q)
          \/ RawGet(r, q) \/ Nested(r, q)
    \/ \E q \in Refs : \E s \in {REFNIL} \cup {ref[r] : r \in {a \in Refs : Alive(a)}} : SetElement(q, s)
    \/ \E r \in Refs : \E q \in Refs : \E a \in Refs : \E v \in Scalars :
          Call(r, q, a, v) \/ CallElement(r, q, a, v)

Spec == Init /\ [][Next]_refVars

-----------------------------------------------------------------------------
TypeOK ==
    /\ slots \in Seq(Values) /\ free \in Seq(DOMAIN slots) /\ stack \in Seq(Values)
    /\ element \in [Tables -> Values] /\ tables \in Tables /\ failed \in BOOLEAN
    /\ ref \in [Refs -> DOMAIN slots \cup {REFNIL, NoRef}] /\ is \in [Refs -> Values]

(* As long as none of the five occurs every reference stands for the value *)
(* it was given last, whatever became of the others; the slots in use are  *)
(* those of the references, one for each that is not nil; no expression    *)
(* fails, and the stack is that of the caller.                             *)
ReferencesHold ==
    LET alive == {r \in Refs : ref[r] # NoRef}
        held == {r \in alive : ref[r] # REFNIL}
    IN  slip = "none" =>
        /\ ~failed /\ stack = Callers
        /\ \A r \in alive : is[r] = (IF r \in held THEN slots[ref[r]] ELSE Nil)
        /\ Cardinality({ref[r] : r \in held}) = Cardinality(held)
        /\ {ref[r] : r \in held} = DOMAIN slots \ Range(free)
=============================================================================
