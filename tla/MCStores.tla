------------------------------ MODULE MCStores ------------------------------
(***************************************************************************)
(* Three stores that share nothing, checked side by side: SrQueue with the *)
(* threads in get(), Polled with threads in get(millisec), and Pager, the  *)
(* file backed buffer, with the process killed only between two calls.     *)
(* store names the one that moves in a behaviour.                          *)
(***************************************************************************)
EXTENDS SrQueue

CONSTANTS
    TimedPollers,   \* threads that call get(millisec) of the second queue
    PageSize, Lengths, InitCap, NewCaps, MaxBlocks, MaxCrashes, MaxFailures,
    Hole

VARIABLES
    store,
    chars, tokens, lock, at, read, code, count, putIn, gotOut,
    cap, pcb, used, uflen, head, file, index, todo, doing, block, placed, flag,
    blocks, want, before, gone, torn, missing, failures, crashes

polledVars == <<chars, tokens, lock, at, read, code, count, putIn, gotOut>>
pagerVars == <<cap, pcb, used, uflen, head, file, index, todo, doing, block,
               placed, flag, blocks, want, before, gone, torn, missing,
               failures, crashes>>
allVars == <<store, vars, polledVars, pagerVars>>

Polled == INSTANCE SrQueue WITH
    Getters <- {}, Pollers <- TimedPollers,
    q <- chars, sem <- tokens, mutex <- lock, pc <- at, view <- read, ret <- code,
    puts <- count, pushed <- putIn, taken <- gotOut
Pager == INSTANCE SrFilePager WITH
    GrowInside <- FALSE, CrashInside <- FALSE, pc <- doing

ASSUME PolledAssumption == Polled!ThreadsAssumption
ASSUME PagerAssumption == Pager!FilePagerAssumption

AllInit ==
    /\ store \in {"queue", "polled", "pager"}
    /\ Init /\ Polled!Init /\ Pager!Init

GetStep == store = "queue" /\ Next /\ UNCHANGED <<store, polledVars, pagerVars>>
PollStep == store = "polled" /\ Polled!Next /\ UNCHANGED <<store, vars, pagerVars>>
PageStep == store = "pager" /\ Pager!Next /\ UNCHANGED <<store, vars, polledVars>>

(* The fairness of each queue, in the behaviours in which it moves.        *)
AllFairness ==
    /\ \A p \in Producers : WF_vars(store = "queue" /\ pc[p] # "idle" /\ Producer(p))
    /\ \A g \in Getters : WF_vars(store = "queue" /\ Getter(g))
    /\ \A p \in Producers :
        WF_polledVars(store = "polled" /\ at[p] # "idle" /\ Polled!Producer(p))
    /\ \A t \in TimedPollers : WF_polledVars(store = "polled" /\ Polled!Poller(t))

AllSpec == AllInit /\ [][GetStep \/ PollStep \/ PageStep]_allVars /\ AllFairness

-----------------------------------------------------------------------------
(* With get(millisec), too, the queue is the channel that its clients take *)
(* it for, although a timeout tests q.empty() without the lock             *)
(* (include/srqueue.h 115-151).                                            *)
PolledChannelSpec == Polled!ChannelSpec

(* With either get() no element stays in the queue for ever, although a    *)
(* reader whose trylock fails has given its token away                     *)
(* (include/srqueue.h 97-148).                                             *)
AllDrained == Drained /\ Polled!Drained

(* srreporter.cc: the pages hold the runs that were put in them, the       *)
(* counts of runs and pages are right, no page is given out twice and none *)
(* leaks.                                                                  *)
RunsAreWhole == Pager!RunsAreWhole /\ Pager!CountsRuns /\ Pager!PagesOwnedOnce
(* srreporter.cc: a restart between two calls finds the runs there were.   *)
RestartsWhereItStopped == Pager!RestartsWhereItStopped
=============================================================================
