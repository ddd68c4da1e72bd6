------------------------------ MODULE SrChannel ------------------------------
(***************************************************************************)
(* What SrQueue promises its users: an unbounded first-in first-out        *)
(* channel.  An element is put in one indivisible step and taken by        *)
(* exactly one reader, in the order of the puts.                           *)
(***************************************************************************)
EXTENDS Sequences

CONSTANT Data

VARIABLES
    chan,    \* the elements put and not yet taken
    got      \* every element taken so far, in the order of the takes

Init == chan = <<>> /\ got = <<>>

Put(d) == chan' = Append(chan, d) /\ UNCHANGED got

Take ==
    /\ chan # <<>>
    /\ chan' = Tail(chan)
    /\ got' = Append(got, Head(chan))

Next == Take \/ \E d \in Data : Put(d)

Spec == Init /\ [][Next]_<<chan, got>>
==============================================================================
