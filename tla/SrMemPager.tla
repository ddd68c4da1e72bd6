----------------------------- MODULE SrMemPager -----------------------------
(***************************************************************************)
(* _MemPager (src/srreporter.cc): the memory backed request buffer of the  *)
(* reporter, a deque of lines sent Chunk lines at a time.  A line is a     *)
(* record: xid is the template it has to be read with and id the number of *)
(* the message, or 0 for a header line "15,xid", which selects the         *)
(* template for the lines after it.                                        *)
(***************************************************************************)
EXTENDS Integers, Sequences, FiniteSetsExt

CONSTANT Chunk    \* SR_MEMBUF_NUM

ASSUME ChunkAssumption == Chunk \in Nat \ {0}

Header(x) == [xid |-> x, id |-> 0]
Line(x, i) == [xid |-> x, id |-> i]
IsHeader(line) == line.id = 0

(* The numbers of the messages among the lines of m.                       *)
Ids(m) == {m[k].id : k \in DOMAIN m} \ {0}

(* The number of chunks. *)
BSize(m) == Len(m) \div Chunk + (IF Len(m) % Chunk = 0 THEN 0 ELSE 1)

(* The first chunk. *)
Front(m) == IF Len(m) <= Chunk THEN m ELSE SubSeq(m, 1, Chunk)

(* pop_front() searches the first chunk backwards for a header when the    *)
(* second does not begin with one.  Without one it dereferences rend().    *)
HeadersIn(m) == {k \in 1 .. Chunk : IsHeader(m[k])}

PopFrontDefined(m) ==
    Len(m) > Chunk => IsHeader(m[Chunk + 1]) \/ HeadersIn(m) # {}

PopFront(m) ==
    IF Len(m) <= Chunk THEN <<>>
    ELSE LET rest == SubSeq(m, Chunk + 1, Len(m))
         IN  IF IsHeader(m[Chunk + 1]) THEN rest
             ELSE <<m[Max(HeadersIn(m))]>> \o rest

(* Mutant of MakeRoom: the header goes with the first message under it.    *)
MakeRoomPlain(m, cap) == IF Len(m) < cap THEN m ELSE Tail(m)

(* Mutant of MakeRoom: off by one.                                         *)
MakeRoomLate(m, cap) == IF Len(m) <= cap THEN m ELSE Tail(m)

(* Eviction in emplace_back(): the oldest line goes; a header stays unless *)
(* the only message under it goes.  With cap = 1 and a header in front the *)
(* code erases past the end.                                               *)
MakeRoom(m, cap) ==
    IF Len(m) < cap THEN m
    ELSE IF ~IsHeader(Head(m)) THEN Tail(m)
    ELSE LET rest == Tail(Tail(m))
         IN  IF rest # <<>> /\ ~IsHeader(Head(rest))
             THEN <<Head(m)>> \o rest
             ELSE rest

(* Mutant of EmplaceBack: a full buffer keeps the old messages.            *)
EmplaceBackIfRoom(m, cap, line) ==
    IF Len(m) < cap THEN Append(m, line) ELSE m

EmplaceBack(m, cap, line) == Append(MakeRoom(m, cap), line)
=============================================================================
