SPECIFICATION AllSpec
CONSTANTS
    Plugins = {p1, p2}
    Messages = {m1, m2}
    MaxTimersOf = 2
    Classes = {"A", "B", "C"}
    Base <- BaseOfThree
    Namespaces = {n}
    Keys = {k}
    MaxAdds = 2
    MaxTemps = 4
    MaxObjects = 1
    Vars = {v1, v2}
    Userdata = {u}
    MaxNodes = 3
    Refs = {a, b}
    MaxTables = 2
INVARIANTS
    CallbacksReachTheirPlugin
    StackIsOwned
    
    LivesWhilePointedTo
    
\* Every part may stop: calls, objects and tables are bounded.
CHECK_DEADLOCK FALSE
