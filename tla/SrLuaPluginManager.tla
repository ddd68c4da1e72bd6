------------------------- MODULE SrLuaPluginManager -------------------------
(***************************************************************************)
(* SrLuaPluginManager (src/srluapluginmanager.cc): every plugin is loaded  *)
(* into a Lua state of its own, and registers with the agent's maps the    *)
(* names of its callbacks.  A plugin's code, at its load and in its        *)
(* callbacks, calls what init() makes known to it.  Lua, the agent's loop  *)
(* and its maps are what the manager uses of them.                         *)
(***************************************************************************)
EXTENDS Integers, FiniteSets

CONSTANTS
    Plugins,       \* the plugins' files, each loaded once
    Messages,      \* the kinds of messages
    MaxTimersOf    \* bound: the timers plugins add

LuaAssumption == MaxTimersOf \in Nat

VARIABLES
    open,          \* the Lua states that are open, by their plugins
    loaded,        \* the plugins load() was called for
    running,       \* the plugin whose Lua code runs, or NoPlugin
    loading,       \* whether it runs within load()
    handlers,      \* the plugin of every kind of message, or NoPlugin
    timersOf,      \* of every timer: its plugin
    freed,         \* the timers that were deleted
    agentHandlers, \* agent: the messages it gives to the manager
    agentTimers,   \* agent: the timers in its list
    alive,         \* whether the manager exists
    wanted         \* history: who registered last for a message

luaVars == <<open, loaded, running, loading, handlers, timersOf, freed,
             agentHandlers, agentTimers, alive, wanted>>

NoPlugin == "none"

Init ==
    /\ open = {} /\ loaded = {} /\ running = NoPlugin /\ loading = FALSE
    /\ handlers = [m \in Messages |-> NoPlugin]
    /\ timersOf = <<>> /\ freed = {}
    /\ agentHandlers = {} /\ agentTimers = {}
    /\ alive = TRUE /\ wanted = [m \in Messages |-> NoPlugin]

Load(p) ==
    /\ alive /\ running = NoPlugin /\ p \notin loaded
    /\ open' = open \cup {p} /\ loaded' = loaded \cup {p}
    /\ running' = p /\ loading' = TRUE
    /\ UNCHANGED <<handlers, timersOf, freed, agentHandlers, agentTimers, alive, wanted>>

(* Mutant of LoadFails: the state that failed is closed.                   *)
LoadFailsAndCloses ==
    /\ loading
    /\ open' = open \ {running}
    /\ running' = NoPlugin /\ loading' = FALSE
    /\ UNCHANGED <<loaded, handlers, timersOf, freed, agentHandlers, agentTimers, alive, wanted>>

(* luaL_dofile() fails, perhaps after the file has registered callbacks.   *)
LoadFails ==
    /\ loading
    /\ running' = NoPlugin /\ loading' = FALSE
    /\ UNCHANGED <<open, loaded, handlers, timersOf, freed, agentHandlers,
                   agentTimers, alive, wanted>>

(* init(), or a callback, returns.                                         *)
Return ==
    /\ running # NoPlugin
    /\ running' = NoPlugin /\ loading' = FALSE
    /\ UNCHANGED <<open, loaded, handlers, timersOf, freed, agentHandlers,
                   agentTimers, alive, wanted>>

AddMsgHandler(m) ==
    /\ running # NoPlugin
    /\ handlers' = [handlers EXCEPT ![m] = running]
    /\ agentHandlers' = agentHandlers \cup {m}
    /\ wanted' = [wanted EXCEPT ![m] = running]
    /\ UNCHANGED <<open, loaded, running, loading, timersOf, freed, agentTimers, alive>>

(* A timer's callback must not add one: see SrAgent.                       *)
AddTimer ==
    /\ running # NoPlugin
    /\ Cardinality(DOMAIN timersOf) < MaxTimersOf
    /\ LET t == Cardinality(DOMAIN timersOf) + 1 IN
       /\ timersOf' = [u \in DOMAIN timersOf \cup {t} |->
                          IF u = t THEN running ELSE timersOf[u]]
       /\ agentTimers' = agentTimers \cup {t}
    /\ UNCHANGED <<open, loaded, running, loading, handlers, freed, agentHandlers, alive, wanted>>

(* operator(): the agent hands the manager a message, or a timer is due.   *)
Calls(p) ==
    /\ running' = p
    /\ UNCHANGED <<open, loaded, loading, handlers, timersOf, freed,
                   agentHandlers, agentTimers, alive, wanted>>

OnMessage(m) ==
    /\ alive /\ running = NoPlugin
    /\ m \in agentHandlers
    /\ Calls(handlers[m])

OnTimer(t) ==
    /\ alive /\ running = NoPlugin
    /\ t \in agentTimers
    /\ Calls(timersOf[t])

(* The destructor closes the states that have timers, each once, and       *)
(* deletes the timers.  The agent, whose loop does not end, keeps both.    *)
Destroy ==
    /\ alive /\ running = NoPlugin
    /\ alive' = FALSE
    /\ open' = open \ {timersOf[t] : t \in DOMAIN timersOf}
    /\ freed' = DOMAIN timersOf
    /\ UNCHANGED <<loaded, running, loading, handlers, timersOf, agentHandlers,
                   agentTimers, wanted>>

Next ==
    \/ \E p \in Plugins : Load(p)
    \/ \E m \in Messages : AddMsgHandler(m) \/ OnMessage(m)
    \/ \E t \in 1 .. MaxTimersOf : OnTimer(t)
    \/ LoadFails \/ Return \/ AddTimer \/ Destroy

Spec == Init /\ [][Next]_luaVars

-----------------------------------------------------------------------------
TypeOK ==
    /\ open \subseteq Plugins /\ loaded \subseteq Plugins
    /\ running \in Plugins \cup {NoPlugin} /\ loading \in BOOLEAN
    /\ handlers \in [Messages -> Plugins \cup {NoPlugin}]
    /\ DOMAIN timersOf \subseteq 1 .. MaxTimersOf
    /\ freed \subseteq DOMAIN timersOf /\ agentTimers \subseteq DOMAIN timersOf
    /\ agentHandlers \subseteq Messages /\ alive \in BOOLEAN

(* While the manager exists every message and timer that the agent hands   *)
(* it leads to a Lua state that is open, to that of the plugin which       *)
(* registered last, and to a timer that was not deleted: plugins whose     *)
(* load failed after they had registered a callback included.              *)
CallbacksReachTheirPlugin ==
    alive =>
        /\ \A m \in agentHandlers : handlers[m] = wanted[m] /\ wanted[m] \in open
        /\ \A t \in agentTimers : timersOf[t] \in open /\ t \notin freed
=============================================================================
