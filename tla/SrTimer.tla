------------------------------- MODULE SrTimer -------------------------------
(***************************************************************************)
(* The arithmetic of SrTimer (include/srtimer.h, src/srtimer.cc): a fire   *)
(* time is a timespec, computed from the time of the start and the period  *)
(* in milliseconds, and compared with the clock.  The nanoseconds of a     *)
(* timespec are counted in milliseconds, of which a second has Sec.        *)
(***************************************************************************)
EXTENDS Integers

CONSTANT Sec

ASSUME SecAssumption == Sec \in Nat \ {0}

Timespec == [sec : Int, nsec : 0 .. Sec - 1]

(* Mutant of AtMost: only the seconds are compared.                        *)
AtMostSeconds(l, r) == l.sec <= r.sec

(* operator<= *)
AtMost(l, r) == IF l.sec = r.sec THEN l.nsec <= r.nsec ELSE l.sec <= r.sec

FireTime(beg, val) ==
    LET sec == beg.sec + (val \div Sec)
        nsec == beg.nsec + (val % Sec)
    IN  IF nsec >= Sec THEN [sec |-> sec + 1, nsec |-> nsec - Sec]
        ELSE [sec |-> sec, nsec |-> nsec]
=============================================================================
