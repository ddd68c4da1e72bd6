-------------------------------- MODULE MCLua --------------------------------
(***************************************************************************)
(* What plugins in Lua stand on, checked side by side: the plugin manager, *)
(* and of LuaBridge the registration of classes with what scripts do to    *)
(* their objects, the counted pointers and the references to Lua values.   *)
(* part names the one that moves in a behaviour, and the others stay as    *)
(* they begin.  Each property is that of the part's own module, under the  *)
(* same name.                                                              *)
(***************************************************************************)
EXTENDS SrLuaPluginManager

CONSTANTS
    Classes, Base, Namespaces, Keys, MaxAdds, MaxTemps, MaxObjects,
    Vars, Userdata, MaxNodes,
    Refs, MaxTables

VARIABLES
    part,   \* the part that moves
    table, tablesOpen, temps, ending, aborted, objects, adds,
    intrusive, nodes, count, deleted, target, todo, twice,
    slots, free, stack, element, tables, ref, failed, is, slip

Class == INSTANCE LuaClass WITH stack <- tablesOpen
Counted == INSTANCE LuaRefCounted
Reference == INSTANCE LuaRef

ASSUME BridgeAssumption ==
    LuaAssumption /\ Class!ClassAssumption /\ Counted!CountedAssumption
    /\ Reference!RefAssumption

class == <<table, tablesOpen, temps, ending, aborted, objects, adds>>
counted == <<intrusive, nodes, count, deleted, target, todo, twice>>
reference == <<slots, free, stack, element, tables, ref, failed, is, slip>>
allVars == <<part, luaVars, class, counted, reference>>

(* The classes of the run, each derived from the one before it.            *)
BaseOfThree == [A |-> "no class", B |-> "A", C |-> "B"]

AllInit ==
    /\ part \in {"plugins", "classes", "counted", "refs"}
    /\ Init /\ Class!Init /\ Counted!Init /\ Reference!Init
    /\ intrusive \/ part = "counted"

PluginStep == part = "plugins" /\ Next /\ UNCHANGED <<part, class, counted, reference>>
ClassStep == part = "classes" /\ Class!Next /\ UNCHANGED <<part, luaVars, counted, reference>>
CountedStep == part = "counted" /\ Counted!Next /\ UNCHANGED <<part, luaVars, class, reference>>
ReferenceStep ==
    part = "refs" /\ Reference!Next /\ UNCHANGED <<part, luaVars, class, counted>>

AllNext == PluginStep \/ ClassStep \/ CountedStep \/ ReferenceStep

AllSpec == AllInit /\ [][AllNext]_allVars

-----------------------------------------------------------------------------
(* Properties; the manager's is CallbacksReachTheirPlugin.                 *)

(* Namespace.h: a chain of calls leaves the Lua stack as it was.           *)
StackIsOwned == part = "classes" => Class!StackIsOwned
(* Namespace.h, Userdata.h, CFunctions.h: C++ gets objects for what they   *)
(* are, and scripts what the classes were registered with.                 *)
ClassesAsRegistered == part = "classes" => Class!ClassesAsRegistered
(* RefCountedObject.h, RefCountedPtr.h: an object lives while a pointer    *)
(* points to it, and no longer.                                            *)
LivesWhilePointedTo == part = "counted" => Counted!LivesWhilePointedTo
(* LuaRef.h: a reference stands for the value it was given.                *)
ReferencesHold == part = "refs" => Reference!ReferencesHold
=============================================================================
