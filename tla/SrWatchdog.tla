----------------------------- MODULE SrWatchdog -----------------------------
(***************************************************************************)
(* The watchdog: the daemon (src/watchdog/srwatchdogd.cc) that runs a      *)
(* program and kills and restarts it when it hangs, and the timer          *)
(* (include/srwatchdogtimer.h) the program kicks.  They share two bytes of *)
(* memory: shm[0], how many timers there are, and shm[1], what the timer   *)
(* wrote last.                                                             *)
(*                                                                         *)
(* Time passes in seconds of tv_sec, only while the daemon sleeps: its own *)
(* work takes none.  sleep(2) lasts at least two seconds and, on a busy    *)
(* machine, at most MaxNap.                                                *)
(***************************************************************************)
EXTENDS Integers

CONSTANTS
    Val,         \* the seconds of silence allowed, argv[2]; 0 is for ever
    Wrap,        \* the values of a char
    MaxNap,      \* the longest sleep(2)
    Gap,         \* a healthy program kicks at least every Gap seconds
    MaxKicks     \* and at most so often between two looks of the daemon

(* Val leaves room for what the daemon does not notice: see the README.    *)
ASSUME WatchdogAssumption ==
    /\ Val \in Nat \ {0} /\ MaxNap \in Nat /\ MaxNap >= 2
    /\ Gap \in Nat \ {0}
    /\ Val >= 2 * Gap + 2 * MaxNap
    /\ Wrap \in Nat /\ MaxKicks \in Nat /\ MaxKicks < Wrap

VARIABLES
    pc,        \* the daemon: fork, look, copy, sleep, or done
    quit,      \* _quit
    age,       \* t.tv_sec - t0.tv_sec
    nap,       \* how long sleep(2) has lasted
    shadow,    \* shadow[1]
    timers,    \* shm[0]
    mark,      \* shm[1]
    child,     \* none, loading, running, hung, crashed or exited
    c,         \* the counter of the timer
    since,     \* the seconds since the last kick, or since the timer was made
    kicks,     \* the kicks since the daemon last looked
    killed     \* history: what the child was when it was last killed

daemon == <<pc, quit, age, nap, shadow, killed>>
program == <<timers, mark, child, c, since, kicks>>
vars == <<daemon, program>>

Init ==
    /\ pc = "fork" /\ quit = FALSE /\ age = 0 /\ nap = 0 /\ shadow = 0
    /\ timers = 0 /\ mark = 0
    /\ child = "none" /\ c = 0 /\ since = 0 /\ kicks = 0
    /\ killed = "none"

-----------------------------------------------------------------------------
(* The daemon *)

(* shm[1] and shadow[1] keep what the program before left there.           *)
Fork ==
    /\ pc = "fork" /\ ~quit
    /\ age' = 0 /\ nap' = 0
    /\ timers' = 0
    /\ child' = "loading" /\ since' = 0 /\ kicks' = 0
    /\ pc' = "look"
    /\ UNCHANGED <<quit, shadow, mark, c, killed>>

(* The loops end; the daemon also gives up when fork() fails.              *)
Leave ==
    /\ \/ pc = "fork"
       \/ pc = "sleep" /\ quit /\ nap >= 2
    /\ pc' = "done"
    /\ UNCHANGED <<quit, age, nap, shadow, killed, program>>

Wake ==
    /\ pc = "sleep" /\ ~quit /\ nap >= 2
    /\ pc' = "look"
    /\ UNCHANGED <<quit, age, nap, shadow, killed, program>>

(* Mutant of Reap: a program ended by a signal is collected and forgotten. *)
ReapForgets ==
    /\ pc = "look" /\ child = "crashed"
    /\ child' = "none"
    /\ nap' = 0
    /\ pc' = "sleep"
    /\ UNCHANGED <<quit, age, shadow, timers, mark, c, since, kicks, killed>>

(* waitpid() finds a program ended by a signal. *)
Reap ==
    /\ pc = "look" /\ child = "crashed"
    /\ child' = "none"
    /\ pc' = "fork"
    /\ UNCHANGED <<quit, age, nap, shadow, timers, mark, c, since, kicks, killed>>

(* With no timers there is nothing to compare, and all is well.            *)
Noticed == timers = 0 \/ mark # shadow

(* waitpid() finds a program that exited: the daemon ends after this turn. *)
Collect ==
    /\ child' = IF child = "exited" THEN "none" ELSE child
    /\ quit' = (quit \/ child = "exited")

(* The turn of the loop up to the copy.  A program that exited is gone, but *)
(* if it was silent before, the turn goes on and its pid is killed.        *)
Look ==
    /\ pc = "look" /\ child # "crashed"
    /\ kicks' = 0
    /\ \/ /\ Noticed
          /\ Collect
          /\ age' = 0 /\ pc' = "copy"
          /\ UNCHANGED <<nap, killed>>
       \/ /\ ~Noticed /\ age <= Val
          /\ Collect
          /\ nap' = 0 /\ pc' = "sleep"
          /\ UNCHANGED <<age, killed>>
       \/ /\ ~Noticed /\ age > Val
          /\ quit' = (quit \/ child = "exited")
          /\ killed' = child /\ child' = "none"
          /\ pc' = "fork"
          /\ UNCHANGED <<age, nap>>
    /\ UNCHANGED <<shadow, timers, mark, c, since>>

(* Mutant of Copy: shadow is left as it is.                                *)
CopyForgotten ==
    /\ pc = "copy"
    /\ nap' = 0 /\ kicks' = 0
    /\ pc' = "sleep"
    /\ UNCHANGED <<quit, age, shadow, killed, timers, mark, child, c, since>>

(* The second loop reads the memory again. *)
Copy ==
    /\ pc = "copy"
    /\ shadow' = IF timers = 0 THEN shadow ELSE mark
    /\ nap' = 0 /\ kicks' = 0
    /\ pc' = "sleep"
    /\ UNCHANGED <<quit, age, killed, timers, mark, child, c, since>>

(* SIGINT or SIGTERM; a sleep ends. *)
Signal ==
    /\ pc \in {"look", "copy", "sleep"} /\ ~quit
    /\ quit' = TRUE
    /\ nap' = IF pc = "sleep" /\ nap < 2 THEN 2 ELSE nap
    /\ UNCHANGED <<pc, age, shadow, killed, program>>

-----------------------------------------------------------------------------
(* The program, as long as the daemon watches it *)

Step == pc # "done" /\ UNCHANGED daemon

(* The constructor of SrWatchdogTimer. *)
Register ==
    /\ Step
    /\ child = "loading"
    /\ child' = "running"
    /\ timers' = 1
    /\ c' = 0 /\ since' = 0
    /\ UNCHANGED <<mark, kicks>>

(* Mutant of Kick: the counter is written and not incremented.             *)
KickSame ==
    /\ Step
    /\ child = "running" /\ kicks < MaxKicks
    /\ mark' = c
    /\ c' = c
    /\ since' = 0 /\ kicks' = kicks + 1
    /\ UNCHANGED <<timers, child>>

(* The first kick writes 0. *)
Kick ==
    /\ Step
    /\ child = "running" /\ kicks < MaxKicks
    /\ mark' = c
    /\ c' = (c + 1) % Wrap
    /\ since' = 0 /\ kicks' = kicks + 1
    /\ UNCHANGED <<timers, child>>

Hang ==
    /\ Step
    /\ child = "running"
    /\ child' = "hung"
    /\ UNCHANGED <<timers, mark, c, since, kicks>>

Crash ==
    /\ Step
    /\ child \in {"loading", "running", "hung"}
    /\ child' = "crashed"
    /\ UNCHANGED <<timers, mark, c, since, kicks>>

Exit ==
    /\ Step
    /\ child \in {"loading", "running", "hung"}
    /\ child' = "exited"
    /\ UNCHANGED <<timers, mark, c, since, kicks>>

-----------------------------------------------------------------------------
(* A second passes; a healthy program has kicked in time. *)
Tick ==
    /\ pc = "sleep" /\ nap < MaxNap
    /\ child = "running" => since < Gap
    /\ age' = age + 1 /\ nap' = nap + 1
    /\ since' = IF child \in {"running", "hung"} THEN since + 1 ELSE since
    /\ UNCHANGED <<pc, quit, shadow, killed, timers, mark, child, c, kicks>>

Daemon == Fork \/ Leave \/ Wake \/ Reap \/ Look \/ Copy

Next ==
    \/ Fork \/ Leave \/ Wake \/ Reap \/ Look \/ Copy \/ Signal
    \/ Register \/ Kick \/ Hang \/ Crash \/ Exit
    \/ Tick

Spec == Init /\ [][Next]_vars

(* Time passes and the daemon is scheduled.  A healthy program must kick   *)
(* for time to pass, and a bound on kicks must not stop it.                *)
FairSpec == Spec /\ WF_vars(Daemon) /\ WF_vars(Tick) /\ WF_vars(Kick)

-----------------------------------------------------------------------------
(* Properties *)

Children == {"none", "loading", "running", "hung", "crashed", "exited"}

(* Every variable has its type. *)
TypeOK ==
    /\ pc \in {"fork", "look", "copy", "sleep", "done"}
    /\ quit \in BOOLEAN
    /\ age \in Nat /\ nap \in 0 .. MaxNap
    /\ shadow \in 0 .. Wrap - 1 /\ mark \in 0 .. Wrap - 1 /\ c \in 0 .. Wrap - 1
    /\ timers \in {0, 1}
    /\ child \in Children /\ killed \in Children
    /\ since \in Nat /\ kicks \in 0 .. MaxKicks

(* A program that kicks in time is never killed, although its first kick   *)
(* may go unnoticed and a program before it left its marks                 *)
(* (srwatchdogd.cc 100-157, srwatchdogtimer.h 41-76).                      *)
HealthyNeverKilled == killed # "running"

(* A program that hangs once its timer is made does not live longer than   *)
(* Val seconds and two turns of the daemon (srwatchdogd.cc 132-159).       *)
KilledInTime == child = "hung" => since <= Val + 2 * MaxNap

(* A program that crashed is started again, unless the daemon is told to   *)
(* end or cannot fork (srwatchdogd.cc 98-125).                             *)
CrashIsRestarted == child = "crashed" ~> child = "loading" \/ pc = "done"

(* A program that exited by itself stays down, even when its silence gets  *)
(* its pid killed (srwatchdogd.cc 116-129, 150-157).                       *)
ExitIsFinal == [](child = "exited" => [](child # "loading"))
=============================================================================
