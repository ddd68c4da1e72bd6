------------------------------ MODULE SrLogger ------------------------------
(***************************************************************************)
(* The logger (src/srlogger.cc): lines go to a file that is rotated, with  *)
(* two back-ups, when it exceeds the quota.  log() holds a mutex to its    *)
(* end, so that lines come one after the other; the steps of rotate() are  *)
(* apart because the process may be killed between them.  A line is its    *)
(* number, and sizes are counted in lines.                                 *)
(***************************************************************************)
EXTENDS Integers, Sequences, SequencesExt

CONSTANTS
    Quota,        \* of the first start; a quota is at least one line here
    Quotas,       \* what setQuota() sets later
    MaxLines,     \* bound: the lines logged
    MaxKills      \* bound: the kills

LoggerAssumption ==
    /\ Quota \in Nat \ {0} /\ Quotas \subseteq Nat \ {0}
    /\ MaxLines \in Nat /\ MaxKills \in Nat

VARIABLES
    disk,         \* the files fn, fn.1 and fn.2: their lines, Absent
    out,          \* the stream: terminal, open, failed
    quota, level, \* of the logger; level 1 lets all lines pass, 2 none
    logging,      \* where log() is: idle, first, second, reopen
    lines,        \* history: how many lines were written to the file
    kills

loggerVars == <<disk, out, quota, level, logging, lines, kills>>

Absent == <<0>>
Files == {"fn", "fn.1", "fn.2"}
Lines(f) == IF disk[f] = Absent THEN <<>> ELSE disk[f]

Init ==
    /\ disk = [f \in Files |-> Absent]
    /\ out = "terminal" /\ quota = Quota /\ level = 1
    /\ logging = "idle" /\ lines = 0 /\ kills = 0

(* Mutant of SetDest: the file is opened anew.                             *)
SetDestTruncates(opens) ==
    /\ out = "terminal" /\ logging = "idle"
    /\ IF opens
       THEN out' = "open" /\ disk' = [disk EXCEPT !["fn"] = <<>>]
       ELSE UNCHANGED <<out, disk>>
    /\ UNCHANGED <<quota, level, logging, lines, kills>>

(* Once, at the beginning of the program.  A file that cannot be opened    *)
(* leaves the terminal.                                                    *)
SetDest(opens) ==
    /\ out = "terminal" /\ logging = "idle"
    /\ IF opens
       THEN out' = "open" /\ disk' = [disk EXCEPT !["fn"] = Lines("fn")]
       ELSE UNCHANGED <<out, disk>>
    /\ UNCHANGED <<quota, level, logging, lines, kills>>

(* These two do not take the mutex.                                        *)
SetQuota(q) ==
    /\ quota' = q
    /\ UNCHANGED <<disk, out, level, logging, lines, kills>>

SetLevel(l) ==
    /\ level' = l
    /\ UNCHANGED <<disk, out, quota, logging, lines, kills>>

(* A line for the terminal, below the level or for a stream that has       *)
(* failed reaches no file.                                                 *)
Log ==
    /\ logging = "idle"
    /\ level = 1 /\ out = "open" /\ lines < MaxLines
    /\ lines' = lines + 1
    /\ disk' = [disk EXCEPT !["fn"] = Append(disk["fn"], lines')]
    /\ logging' = IF Len(disk'["fn"]) > quota THEN "first" ELSE "idle"
    /\ UNCHANGED <<out, quota, level, kills>>

Renamed(from, to) ==
    disk' = IF disk[from] = Absent THEN disk
            ELSE [disk EXCEPT ![to] = disk[from], ![from] = Absent]

RotateFirst ==
    /\ logging = "first"
    /\ Renamed("fn.1", "fn.2")
    /\ logging' = "second"
    /\ UNCHANGED <<out, quota, level, lines, kills>>

RotateSecond ==
    /\ logging = "second"
    /\ Renamed("fn", "fn.1")
    /\ logging' = "reopen"
    /\ UNCHANGED <<out, quota, level, lines, kills>>

Reopen(opens) ==
    /\ logging = "reopen"
    /\ IF opens THEN disk' = [disk EXCEPT !["fn"] = <<>>] /\ UNCHANGED out
       ELSE out' = "failed" /\ UNCHANGED disk
    /\ logging' = "idle"
    /\ UNCHANGED <<quota, level, lines, kills>>

(* What log() wrote was flushed.                                           *)
Kill ==
    /\ kills < MaxKills /\ kills' = kills + 1
    /\ out' = "terminal" /\ quota' = Quota /\ level' = 1 /\ logging' = "idle"
    /\ UNCHANGED <<disk, lines>>

Next ==
    \/ \E opens \in BOOLEAN : SetDest(opens) \/ Reopen(opens)
    \/ \E q \in Quotas : SetQuota(q)
    \/ \E l \in {1, 2} : SetLevel(l)
    \/ Log \/ RotateFirst \/ RotateSecond \/ Kill

Spec == Init /\ [][Next]_loggerVars

-----------------------------------------------------------------------------
TypeOK ==
    /\ disk \in [Files -> Seq(0 .. MaxLines)]
    /\ out \in {"terminal", "open", "failed"} /\ quota \in Quotas \cup {Quota}
    /\ level \in {1, 2} /\ logging \in {"idle", "first", "second", "reopen"}
    /\ lines \in 0 .. MaxLines /\ kills \in 0 .. MaxKills

(* The back-ups and the file hold, in that order, the last lines logged,   *)
(* without a gap: rotation gives up the oldest back-up and no other line,  *)
(* wherever a process was killed in it.                                    *)
LastLinesKept ==
    LET kept == Lines("fn.2") \o Lines("fn.1") \o Lines("fn")
    IN  kept = [k \in 1 .. Len(kept) |-> lines - Len(kept) + k]
=============================================================================
