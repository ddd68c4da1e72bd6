--------------------------- MODULE SrReporterProof ---------------------------
(***************************************************************************)
(* Proofs about SrReporter, for any chunk size, capacities, templates,     *)
(* priorities, batch size, retries and number of messages.                 *)
(***************************************************************************)
EXTENDS SrReporter, SequenceTheorems, WellFoundedInduction, TLAPS

(***************************************************************************)
(* Lemmas about the pager                                                  *)
(***************************************************************************)

(* A non-empty set of indices has a greatest element: the backward search  *)
(* of pop_front() finds the last header of the chunk.                      *)
LEMMA MaxOfIndices ==
    ASSUME NEW n \in Nat, NEW S \in SUBSET (1 .. n), S # {}
    PROVE  Max(S) \in S /\ \A j \in S : Max(S) >= j
<1> DEFINE T == {n - k : k \in S}
           R == OpToRel(<, Nat)
<1>1. T \subseteq Nat /\ T # {}
  <2>1. \A k \in S : k \in 1 .. n /\ n - k \in Nat
    OBVIOUS
  <2>2. PICK k \in S : TRUE
    OBVIOUS
  <2>3. n - k \in T
    BY <2>2
  <2>4. \A x \in T : \E j \in S : x = n - j
    OBVIOUS
  <2> QED
    BY <2>1, <2>3, <2>4
<1>2. PICK x \in T : \A y \in T : <<y, x>> \notin R
  <2>1. IsWellFoundedOn(R, Nat)
    BY NatLessThanWellFounded
  <2> HIDE DEF R, T
  <2> QED
    BY <1>1, <2>1, WFMin
<1>3. \A y \in T : ~(y < x)
  BY <1>1, <1>2 DEF OpToRel
<1>4. PICK k \in S : x = n - k
  OBVIOUS
<1>5. ASSUME NEW j \in S PROVE k >= j
  <2>1. ~(n - j < n - k)
    BY <1>3, <1>4
  <2>2. j \in 1 .. n /\ k \in 1 .. n
    OBVIOUS
  <2> QED
    BY <2>1, <2>2
<1> QED
  BY <1>5 DEF Max

(* A line adds its message to those of the buffer. *)
LEMMA IdsAppend ==
    ASSUME NEW m \in Seq(Lines), NEW line \in Lines
    PROVE  Ids(Append(m, line)) = Ids(m) \cup ({line.id} \ {0})
<1> DEFINE a == Append(m, line)
<1>1. /\ DOMAIN a = 1 .. Len(m) + 1 /\ DOMAIN m = 1 .. Len(m)
      /\ Len(m) \in Nat
      /\ \A k \in 1 .. Len(m) : a[k] = m[k]
      /\ a[Len(m) + 1] = line
  BY AppendProperties, LenProperties
<1> HIDE DEF a
<1>2. DOMAIN a = DOMAIN m \cup {Len(m) + 1}
  BY <1>1
<1> QED
  BY <1>1, <1>2 DEF Ids, a

(* The messages of a concatenation are those of its parts. *)
LEMMA IdsConcat ==
    ASSUME NEW s \in Seq(Lines), NEW t \in Seq(Lines)
    PROVE  Ids(s \o t) = Ids(s) \cup Ids(t)
<1> DEFINE c == s \o t
<1>1. /\ DOMAIN c = 1 .. Len(s) + Len(t)
      /\ DOMAIN s = 1 .. Len(s) /\ DOMAIN t = 1 .. Len(t)
      /\ Len(s) \in Nat /\ Len(t) \in Nat
      /\ \A k \in 1 .. Len(s) + Len(t) :
            c[k] = IF k <= Len(s) THEN s[k] ELSE t[k - Len(s)]
  BY ConcatProperties, LenProperties
<1> HIDE DEF c
<1>2. ASSUME NEW k \in DOMAIN c PROVE c[k].id \in Ids(s) \cup Ids(t) \cup {0}
  <2>1. CASE k <= Len(s)
    BY <1>1, <2>1 DEF Ids
  <2>2. CASE k > Len(s)
    <3>1. k - Len(s) \in 1 .. Len(t) /\ c[k] = t[k - Len(s)]
      BY <1>1, <2>2
    <3> QED
      BY <1>1, <3>1 DEF Ids
  <2> QED
    BY <1>1, <2>1, <2>2
<1>3. ASSUME NEW k \in DOMAIN s PROVE s[k].id \in Ids(c) \cup {0}
  <2>1. k \in DOMAIN c /\ c[k] = s[k]
    BY <1>1
  <2> QED
    BY <2>1 DEF Ids
<1>4. ASSUME NEW k \in DOMAIN t PROVE t[k].id \in Ids(c) \cup {0}
  <2>1. k + Len(s) \in DOMAIN c /\ c[k + Len(s)] = t[k]
    BY <1>1
  <2> QED
    BY <2>1 DEF Ids
<1> QED
  BY <1>2, <1>3, <1>4 DEF Ids, c

(* The messages of the lines are numbered 1 to MaxSend. *)
LEMMA IdsOfLines ==
    ASSUME MaxSend \in Nat, NEW m \in Seq(Lines)
    PROVE  Ids(m) \subseteq 1 .. MaxSend
<1>1. \A line \in Lines : line.id \in 0 .. MaxSend
  BY DEF Lines, Header, Line
<1> QED
  BY <1>1, LenProperties, ElementOfSeq DEF Ids

(* Eviction frees a place, or there is one.                                *)
LEMMA MakeRoomFrees ==
    ASSUME NEW m \in Seq(Lines), NEW c \in Nat \ {0, 1}
    PROVE  /\ MakeRoom(m, c) \in Seq(Lines)
           /\ Len(MakeRoom(m, c)) <= Len(m)
           /\ Len(m) >= c => Len(MakeRoom(m, c)) < Len(m)
<1>1. CASE Len(m) < c
  BY <1>1, LenProperties DEF MakeRoom
<1>2. CASE Len(m) >= c
  <2>1. m # <<>> /\ Len(m) \in Nat /\ Len(m) >= 2
    BY <1>2, LenProperties, EmptySeq
  <2>2. Head(m) \in Lines /\ Tail(m) \in Seq(Lines) /\ Len(Tail(m)) = Len(m) - 1
    BY <2>1, HeadTailProperties
  <2>3. Tail(m) # <<>>
    <3>1. Len(Tail(m)) # 0
      BY <2>1, <2>2
    <3> QED
      BY <3>1, EmptySeq
  <2> DEFINE rest == Tail(Tail(m))
  <2>4. rest \in Seq(Lines) /\ Len(rest) = Len(m) - 2
    BY <2>1, <2>2, <2>3, HeadTailProperties
  <2>5. <<Head(m)>> \o rest \in Seq(Lines) /\ Len(<<Head(m)>> \o rest) = Len(m) - 1
    <3>1. <<Head(m)>> \in Seq(Lines) /\ Len(<<Head(m)>>) = 1
      BY <2>2
    <3> QED
      BY <2>1, <2>4, <3>1, ConcatProperties
  <2> DEFINE kept == <<Head(m)>> \o rest
             r == MakeRoom(m, c)
  <2>0. ~(Len(m) < c)
    BY <1>2, <2>1
  <2>6. r = Tail(m) \/ r = rest \/ r = kept
    BY ONLY <2>0, Zenon DEF MakeRoom
  <2> HIDE DEF rest, kept, r
  <2>7. r \in Seq(Lines) /\ Len(r) < Len(m)
    <3>1. kept \in Seq(Lines) /\ Len(kept) = Len(m) - 1
      BY <2>5 DEF kept
    <3>2. CASE r = Tail(m)
      BY <2>1, <2>2, <3>2
    <3>3. CASE r = rest
      BY <2>1, <2>4, <3>3
    <3>4. CASE r = kept
      BY <2>1, <3>1, <3>4
    <3> QED
      BY <2>6, <3>2, <3>3, <3>4
  <2>8. Len(r) \in Nat
    BY <2>7, LenProperties
  <2> QED
    BY <2>1, <2>7, <2>8 DEF r
<1> QED
  BY <1>1, <1>2, LenProperties

(* emplace_back() never grows a buffer beyond its capacity.                *)
LEMMA EmplaceBackGrowth ==
    ASSUME NEW m \in Seq(Lines), NEW c \in Nat \ {0, 1}, NEW line \in Lines
    PROVE  /\ EmplaceBack(m, c, line) \in Seq(Lines)
           /\ Len(EmplaceBack(m, c, line)) <= Len(m) + 1
           /\ Len(m) >= c => Len(EmplaceBack(m, c, line)) <= Len(m)
           /\ line.id # 0 => line.id \in Ids(EmplaceBack(m, c, line))
<1>1. /\ MakeRoom(m, c) \in Seq(Lines) /\ Len(MakeRoom(m, c)) <= Len(m)
      /\ Len(m) >= c => Len(MakeRoom(m, c)) < Len(m)
      /\ Len(MakeRoom(m, c)) \in Nat /\ Len(m) \in Nat
  BY MakeRoomFrees, LenProperties
<1>2. /\ EmplaceBack(m, c, line) \in Seq(Lines)
      /\ Len(EmplaceBack(m, c, line)) = Len(MakeRoom(m, c)) + 1
  BY <1>1, AppendProperties DEF EmplaceBack
<1>3. Ids(EmplaceBack(m, c, line)) = Ids(MakeRoom(m, c)) \cup ({line.id} \ {0})
  BY <1>1, IdsAppend DEF EmplaceBack
<1> QED
  BY <1>1, <1>2, <1>3

(* The same of a message with the header it may need.                      *)
LEMMA BufferedGrowth ==
    ASSUME NEW m \in Seq(Lines), NEW c \in Nat \ {0, 1}, NEW line \in Lines,
           NEW header, header = <<>> \/ \E h \in Lines : header = <<h>>
    PROVE  LET b == Buffered(m, c, header, line)
           IN  /\ b \in Seq(Lines)
               /\ Len(b) > Len(m) => Len(b) <= c
               /\ line.id # 0 => line.id \in Ids(b)
<1> DEFINE a == IF header = <<>> THEN m ELSE EmplaceBack(m, c, header[1])
<1>1. a \in Seq(Lines) /\ (Len(m) >= c => Len(a) <= Len(m))
      /\ (Len(m) < c => Len(a) <= c)
  <2>1. CASE header = <<>>
    BY <2>1, LenProperties
  <2>2. CASE \E h \in Lines : header = <<h>>
    <3>1. PICK h \in Lines : header = <<h>>
      BY <2>2
    <3>2. a = EmplaceBack(m, c, h)
      BY <3>1
    <3> QED
      BY <3>2, EmplaceBackGrowth, LenProperties
  <2> QED
    BY <2>1, <2>2
<1> HIDE DEF a
<1>2. Buffered(m, c, header, line) = EmplaceBack(a, c, line)
  BY DEF Buffered, a
<1>3. /\ EmplaceBack(a, c, line) \in Seq(Lines)
      /\ Len(EmplaceBack(a, c, line)) <= Len(a) + 1
      /\ Len(a) >= c => Len(EmplaceBack(a, c, line)) <= Len(a)
      /\ line.id # 0 => line.id \in Ids(EmplaceBack(a, c, line))
  BY <1>1, EmplaceBackGrowth
<1> QED
  BY <1>1, <1>2, <1>3, LenProperties

(* Neither eviction nor a new line puts another message into the buffer.   *)
LEMMA MakeRoomIds ==
    ASSUME NEW m \in Seq(Lines), NEW c \in Nat \ {0, 1}
    PROVE  Ids(MakeRoom(m, c)) \subseteq Ids(m)
<1>1. CASE Len(m) < c
  BY <1>1 DEF MakeRoom
<1>2. CASE ~(Len(m) < c)
  <2>1. Len(m) \in Nat /\ Len(m) >= 2 /\ m # <<>>
    BY <1>2, LenProperties, EmptySeq
  <2>2. /\ Tail(m) \in Seq(Lines) /\ Len(Tail(m)) = Len(m) - 1
        /\ \A k \in 1 .. Len(Tail(m)) : Tail(m)[k] = m[k + 1]
        /\ Head(m) \in Lines /\ Head(m) = m[1]
    BY <2>1, HeadTailProperties
  <2>3. Tail(m) # <<>>
    <3>1. Len(Tail(m)) # 0
      BY <2>1, <2>2
    <3> QED
      BY <3>1, EmptySeq
  <2>4. Ids(Tail(m)) \subseteq Ids(m)
    <3>1. \A k \in DOMAIN Tail(m) : k + 1 \in DOMAIN m /\ Tail(m)[k] = m[k + 1]
      BY <2>1, <2>2, LenProperties
    <3> QED
      BY <3>1 DEF Ids
  <2> DEFINE rest == Tail(Tail(m))
             kept == <<Head(m)>> \o rest
  <2>5. rest \in Seq(Lines) /\ Len(rest) = Len(Tail(m)) - 1
        /\ \A k \in 1 .. Len(rest) : rest[k] = Tail(m)[k + 1]
    BY <2>2, <2>3, HeadTailProperties
  <2>6. Ids(rest) \subseteq Ids(Tail(m))
    <3>1. \A k \in DOMAIN rest : k + 1 \in DOMAIN Tail(m) /\ rest[k] = Tail(m)[k + 1]
      BY <2>1, <2>2, <2>5, LenProperties
    <3> HIDE DEF rest
    <3> QED
      BY <3>1 DEF Ids
  <2>7. Ids(kept) \subseteq Ids(m)
    <3> DEFINE one == <<Head(m)>>
    <3>1. one \in Seq(Lines) /\ DOMAIN one = {1} /\ one[1] = m[1]
      BY <2>2
    <3> HIDE DEF one
    <3>2. 1 \in DOMAIN m
      BY <2>1, LenProperties
    <3>3. Ids(one) \subseteq Ids(m)
      BY <3>1, <3>2 DEF Ids
    <3>4. Ids(kept) = Ids(one) \cup Ids(rest)
      BY <2>5, <3>1, IdsConcat DEF one
    <3> QED
      BY <2>4, <2>6, <3>3, <3>4
  <2>8. MakeRoom(m, c) = Tail(m) \/ MakeRoom(m, c) = rest \/ MakeRoom(m, c) = kept
    BY ONLY <1>2, Zenon DEF MakeRoom
  <2> QED
    BY <2>4, <2>6, <2>7, <2>8
<1> QED
  BY <1>1, <1>2

(* A SR_PRIO_BUF message is in the buffer after aggregate() has put it     *)
(* there, and no other message is new there.                               *)
LEMMA BufferedIds ==
    ASSUME NEW m \in Seq(Lines), NEW c \in Nat \ {0, 1}, NEW line \in Lines,
           NEW header, header = <<>> \/ \E h \in Lines : IsHeader(h) /\ header = <<h>>
    PROVE  Ids(Buffered(m, c, header, line)) \subseteq Ids(m) \cup {line.id}
<1>1. ASSUME NEW b \in Seq(Lines), NEW e \in Lines
      PROVE  /\ EmplaceBack(b, c, e) \in Seq(Lines)
             /\ Ids(EmplaceBack(b, c, e)) \subseteq Ids(b) \cup ({e.id} \ {0})
  <2>1. Ids(EmplaceBack(b, c, e)) = Ids(MakeRoom(b, c)) \cup ({e.id} \ {0})
    BY MakeRoomFrees, IdsAppend DEF EmplaceBack
  <2> QED
    BY <2>1, MakeRoomIds, EmplaceBackGrowth
<1>2. CASE header = <<>>
  BY <1>1, <1>2 DEF Buffered
<1>3. ASSUME NEW h \in Lines, IsHeader(h), header = <<h>>
      PROVE  Ids(Buffered(m, c, header, line)) \subseteq Ids(m) \cup {line.id}
  <2>1. Buffered(m, c, header, line) = EmplaceBack(EmplaceBack(m, c, h), c, line)
    BY <1>3 DEF Buffered
  <2>2. Ids(EmplaceBack(m, c, h)) \subseteq Ids(m)
    BY <1>1, <1>3 DEF IsHeader
  <2> QED
    BY <1>1, <2>1, <2>2
<1> QED
  BY <1>2, <1>3

(* pop_front() leaves lines, where the code defines it. *)
LEMMA PopFrontType ==
    ASSUME ChunkAssumption, NEW m \in Seq(Lines), PopFrontDefined(m)
    PROVE  PopFront(m) \in Seq(Lines) /\ Len(PopFront(m)) <= Len(m)
<1> USE ChunkAssumption
<1>1. CASE Len(m) <= Chunk
  BY <1>1, EmptySeq DEF PopFront
<1>2. CASE Len(m) > Chunk
  <2> DEFINE rest == SubSeq(m, Chunk + 1, Len(m))
  <2>1. Len(m) \in Nat /\ \A k \in 1 .. Len(m) : m[k] \in Lines
    BY LenProperties, ElementOfSeq
  <2>2. rest \in Seq(Lines) /\ Len(rest) = Len(m) - Chunk
    BY <1>2, <2>1, SubSeqProperties
  <2> HIDE DEF rest
  <2>3. CASE IsHeader(m[Chunk + 1])
    BY <1>2, <2>1, <2>2, <2>3 DEF PopFront, rest
  <2>4. CASE ~IsHeader(m[Chunk + 1])
    <3> DEFINE h == Max(HeadersIn(m))
    <3>1. HeadersIn(m) # {} /\ HeadersIn(m) \subseteq 1 .. Chunk
      BY <1>2, <2>1, <2>4 DEF PopFrontDefined, HeadersIn
    <3>2. h \in 1 .. Chunk
      BY <3>1, MaxOfIndices
    <3>3. <<m[h]>> \in Seq(Lines) /\ Len(<<m[h]>>) = 1
      BY <1>2, <2>1, <3>2
    <3>4. <<m[h]>> \o rest \in Seq(Lines) /\ Len(<<m[h]>> \o rest) <= Len(m)
      BY <1>2, <2>1, <2>2, <3>3, ConcatProperties
    <3> QED
      BY <1>2, <2>1, <2>4, <3>4 DEF PopFront, rest
  <2> QED
    BY <2>3, <2>4
<1> QED
  BY <1>1, <1>2, LenProperties

(* front() is made of lines of the buffer. *)
LEMMA FrontType ==
    ASSUME ChunkAssumption, NEW m \in Seq(Lines)
    PROVE  Front(m) \in Seq(Lines) /\ BSize(m) \in Nat
           /\ (Len(m) <= Chunk => Front(m) = m /\ BSize(m) <= 1)
<1> USE ChunkAssumption
<1>1. Len(m) \in Nat /\ \A k \in 1 .. Len(m) : m[k] \in Lines
  BY LenProperties, ElementOfSeq
<1>2. Front(m) \in Seq(Lines)
  BY <1>1, SubSeqProperties DEF Front
<1>3. BSize(m) \in Nat
  BY <1>1 DEF BSize
<1>4. Len(m) <= Chunk => BSize(m) <= 1
  BY <1>1 DEF BSize
<1> QED
  BY <1>2, <1>3, <1>4 DEF Front

-----------------------------------------------------------------------------
(***************************************************************************)
(* Type correctness                                                        *)
(***************************************************************************)
IInv ==
    /\ TypeOK
    /\ Len(sent) <= MaxSend
    /\ pc = "send" => attempts < Retries

(* The invariant holds at the start. *)
LEMMA IInvInit == Init => IInv
<1> SUFFICES ASSUME Init PROVE IInv
  OBVIOUS
<1>1. <<>> \in Seq(Lines) /\ <<>> \in Seq([xid : Xids, buf : Prios]) /\ Len(<<>>) = 0
  BY EmptySeq
<1>2. sent \in Seq([xid : Xids, buf : Prios]) /\ Len(sent) = 0 /\ taken \in 0 .. Len(sent)
  BY <1>1 DEF Init
<1>3. mcb \in Seq(Lines) /\ data \in Seq(Lines) /\ aggre \in Seq(Lines)
  BY <1>1 DEF Init
<1>4. bsize \in Nat /\ count \in 0 .. Batch /\ attempts \in 0 .. Retries /\ 0 <= MaxSend
  BY ReporterAssumption DEF Init
<1>5. TypeOK
  BY <1>2, <1>3, <1>4 DEF Init, TypeOK
<1> QED
  BY <1>2, <1>4, <1>5 DEF Init, IInv

(* What the server reads is typed: Max finds the header above a line.      *)
LEMMA ReadType ==
    ASSUME NEW lines \in Seq(Lines)
    PROVE  /\ Read(lines) \subseteq (1 .. MaxSend) \X (Xids \cup {NoXid})
           /\ {d[1] : d \in Read(lines)} = Ids(lines)
<1> DEFINE K == {j \in DOMAIN lines : ~IsHeader(lines[j])}
<1>1. /\ DOMAIN lines = 1 .. Len(lines) /\ Len(lines) \in Nat
      /\ \A k \in DOMAIN lines : lines[k] \in Lines
  BY LenProperties, ElementOfSeq
<1>2. \A line \in Lines : line.xid \in Xids /\ line.id \in 0 .. MaxSend
  BY ReporterAssumption DEF Lines, Header, Line
<1>3. ASSUME NEW k \in DOMAIN lines
      PROVE  Template(lines, k) \in Xids \cup {NoXid}
  <2> DEFINE H == {j \in 1 .. k : IsHeader(lines[j])}
  <2>1. CASE H = {}
    BY <2>1 DEF Template
  <2>2. CASE H # {}
    <3>1. k \in Nat /\ H \subseteq 1 .. k
      BY <1>1
    <3>2. Max(H) \in 1 .. k
      <4> HIDE DEF H
      <4> QED
        BY <2>2, <3>1, MaxOfIndices
    <3>3. Max(H) \in DOMAIN lines
      BY <1>1, <3>2
    <3>4. Template(lines, k) = lines[Max(H)].xid
      BY <2>2 DEF Template
    <3> HIDE DEF H
    <3> QED
      BY <1>1, <1>2, <3>3, <3>4
  <2> QED
    BY <2>1, <2>2
<1>4. \A k \in K : lines[k].id \in 1 .. MaxSend
  BY <1>1, <1>2 DEF IsHeader
<1>5. Read(lines) \subseteq (1 .. MaxSend) \X (Xids \cup {NoXid})
  BY <1>3, <1>4 DEF Read
<1>6. {d[1] : d \in Read(lines)} = {lines[k].id : k \in K}
  <2>1. ASSUME NEW d \in Read(lines) PROVE \E k \in K : d[1] = lines[k].id
    BY DEF Read
  <2>2. ASSUME NEW k \in K PROVE \E d \in Read(lines) : d[1] = lines[k].id
    <3>1. <<lines[k].id, Template(lines, k)>> \in Read(lines)
      BY DEF Read
    <3> QED
      BY <3>1
  <2> HIDE DEF K
  <2> QED
    BY <2>1, <2>2
<1>7. {lines[k].id : k \in K} = Ids(lines)
  BY DEF Ids, IsHeader
<1> QED
  BY <1>5, <1>6, <1>7

(* The facts of TakeNews in one place.                                     *)
LEMMA TakeNewsFacts ==
    ASSUME IInv, TakeNews
    PROVE  /\ taken' = taken + 1 /\ taken' \in 1 .. Len(sent)
           /\ current' \in Xids
           /\ aggre' \in Seq(Lines) /\ Ids(aggre') = Ids(aggre) \cup {taken'}
           /\ mcb' \in Seq(Lines)
           /\ Len(mcb') > Len(mcb) => Len(mcb') <= cap
           /\ Ids(mcb') \subseteq Ids(mcb) \cup {taken'}
           /\ sent[taken'].buf => taken' \in Ids(mcb')
           /\ evicted' = evicted \cup (Ids(mcb) \ Ids(mcb'))
<1> DEFINE i == taken + 1
           news == sent[i]
           line == Line(news.xid, i)
           header == IF news.xid = current THEN <<>> ELSE <<Header(news.xid)>>
           m == IF news.buf THEN Buffered(mcb, cap, header, line) ELSE mcb
<1>1. /\ i \in 1 .. Len(sent) /\ i \in 1 .. MaxSend
      /\ news.xid \in Xids /\ news.buf \in BOOLEAN
      /\ cap \in Nat \ {0, 1} /\ mcb \in Seq(Lines) /\ aggre \in Seq(Lines)
  <2>1. Len(sent) \in Nat /\ i \in 1 .. Len(sent)
    BY LenProperties DEF IInv, TypeOK, TakeNews
  <2>2. news \in [xid : Xids, buf : Prios]
    BY <2>1, ElementOfSeq DEF IInv, TypeOK
  <2> QED
    BY <2>1, <2>2, ReporterAssumption DEF IInv, TypeOK
<1>2. taken' = i /\ current' = news.xid /\ mcb' = m
      /\ aggre' = (aggre \o header) \o <<line>>
      /\ evicted' = evicted \cup (Ids(mcb) \ Ids(m))
  BY DEF TakeNews
<1>3. line \in Lines /\ line.id = i
  BY <1>1 DEF Lines, Line
<1>4. Header(news.xid) \in Lines /\ IsHeader(Header(news.xid))
  BY <1>1 DEF Lines, Header, IsHeader
<1>5. header = <<>> \/ \E h \in Lines : IsHeader(h) /\ header = <<h>>
  BY <1>4
<1> HIDE DEF line, header
<1>6. /\ m \in Seq(Lines)
      /\ Len(m) > Len(mcb) => Len(m) <= cap
      /\ Ids(m) \subseteq Ids(mcb) \cup {i}
      /\ news.buf => i \in Ids(m)
  <2>1. CASE news.buf
    <3> DEFINE b == Buffered(mcb, cap, header, line)
    <3>1. /\ b \in Seq(Lines) /\ (Len(b) > Len(mcb) => Len(b) <= cap)
          /\ (line.id # 0 => line.id \in Ids(b))
      BY <1>1, <1>3, <1>5, BufferedGrowth
    <3>2. Ids(b) \subseteq Ids(mcb) \cup {line.id}
      BY <1>1, <1>3, <1>5, BufferedIds
    <3>3. m = b
      BY <2>1
    <3> HIDE DEF b, m
    <3> QED
      BY <1>1, <1>3, <3>1, <3>2, <3>3
  <2>2. CASE ~news.buf
    BY <1>1, <2>2, LenProperties
  <2> QED
    BY <1>1, <2>1, <2>2
<1>7. aggre' \in Seq(Lines) /\ Ids(aggre') = Ids(aggre) \cup {i}
  <2>1. header \in Seq(Lines) /\ Ids(header) = {}
    <3>1. CASE header = <<>>
      BY <3>1, EmptySeq DEF Ids
    <3>2. ASSUME NEW h \in Lines, IsHeader(h), header = <<h>>
          PROVE  header \in Seq(Lines) /\ Ids(header) = {}
      BY <3>2 DEF Ids, IsHeader
    <3> QED
      BY <1>5, <3>1, <3>2
  <2>2. aggre \o header \in Seq(Lines) /\ Ids(aggre \o header) = Ids(aggre)
    <3>1. aggre \o header \in Seq(Lines)
      BY <1>1, <2>1, ConcatProperties
    <3>2. Ids(aggre \o header) = Ids(aggre) \cup Ids(header)
      BY <1>1, <2>1, IdsConcat
    <3> QED
      BY <2>1, <3>1, <3>2
  <2>3. Append(aggre \o header, line) = (aggre \o header) \o <<line>>
    BY <1>3, <2>2, AppendIsConcat
  <2>4. /\ Append(aggre \o header, line) \in Seq(Lines)
        /\ Ids(Append(aggre \o header, line)) = Ids(aggre) \cup ({line.id} \ {0})
    BY <1>3, <2>2, AppendProperties, IdsAppend
  <2>5. {line.id} \ {0} = {i}
    BY <1>1, <1>3
  <2> QED
    BY <1>2, <2>3, <2>4, <2>5
<1> HIDE DEF m
<1> QED
  BY <1>1, <1>2, <1>6, <1>7

(* The messages in the buffer and in the post have been sent. *)
LEMMA IdsTyped == IInv => Ids(mcb) \subseteq 1 .. MaxSend /\ Ids(data) \subseteq 1 .. MaxSend
BY IdsOfLines, ReporterAssumption DEF IInv, TypeOK

(* What a successful post leaves of the buffer. *)
LEMMA SuccessFacts ==
    ASSUME IInv, Success
    PROVE  /\ mcb' \in Seq(Lines) /\ Len(mcb') <= Len(mcb)
           /\ pc' \in {"prefetch", "undefined"}
           /\ bsize <= 1 => mcb' = <<>>
<1>1. mcb \in Seq(Lines) /\ Len(mcb) \in Nat /\ bsize \in Nat
  BY LenProperties DEF IInv, TypeOK
<1>2. <<>> \in Seq(Lines) /\ Len(<<>>) = 0
  BY EmptySeq
<1>3. CASE bsize <= 1 /\ mcb' = <<>> /\ pc' = "prefetch"
  BY <1>1, <1>2, <1>3
<1>4. CASE bsize > 1 /\ PopFrontDefined(mcb) /\ mcb' = PopFront(mcb) /\ pc' = "prefetch"
  BY <1>1, <1>4, PopFrontType, ChunkAssumption
<1>5. CASE bsize > 1 /\ ~PopFrontDefined(mcb) /\ mcb' = mcb /\ pc' = "undefined"
  BY <1>1, <1>5
<1> QED
  BY <1>3, <1>4, <1>5 DEF Success

(* Every step keeps the invariant. *)
LEMMA IInvNext ==
    ASSUME IInv, [Next]_vars
    PROVE  IInv'
<1> USE DEF IInv
<1>1. CASE UNCHANGED vars
  BY <1>1 DEF vars, TypeOK
<1>2. ASSUME NEW x \in Xids, NEW buf \in Prios, Send(x, buf) PROVE IInv'
  <2> DEFINE news == [xid |-> x, buf |-> buf]
  <2>1. sent' = Append(sent, news) /\ news \in [xid : Xids, buf : Prios]
    BY <1>2 DEF Send
  <2> HIDE DEF news
  <2>2. sent' \in Seq([xid : Xids, buf : Prios]) /\ Len(sent') = Len(sent) + 1
    BY <2>1, AppendProperties DEF TypeOK
  <2>3. taken' \in 0 .. Len(sent') /\ Len(sent') <= MaxSend
    BY <1>2, <2>2, LenProperties, ReporterAssumption DEF Send, TypeOK
  <2>4. TypeOK'
    BY <1>2, <2>2, <2>3 DEF Send, TypeOK
  <2> QED
    BY <1>2, <2>3, <2>4 DEF Send
<1>3. ASSUME NEW b \in BOOLEAN, SetSleeping(b) PROVE IInv'
  BY <1>3 DEF SetSleeping, TypeOK
<1>4. ASSUME NEW c \in Capacities, SetCapacity(c) PROVE IInv'
  BY <1>4 DEF SetCapacity, TypeOK
<1>5. CASE Prefetch
  <2>1. bsize' \in Nat /\ data' \in Seq(Lines) /\ aggre' \in Seq(Lines)
    BY <1>5, FrontType, ChunkAssumption, EmptySeq DEF Prefetch, TypeOK
  <2>2. count' \in 0 .. Batch
    BY <1>5, ReporterAssumption DEF Prefetch
  <2>3. TypeOK'
    BY <1>5, <2>1, <2>2 DEF Prefetch, TypeOK, agentVars
  <2> QED
    BY <1>5, <2>3 DEF Prefetch, agentVars
<1>6. CASE TakeNews
  <2>1. /\ taken' \in 0 .. Len(sent) /\ current' \in Xids
        /\ aggre' \in Seq(Lines) /\ mcb' \in Seq(Lines)
    BY <1>6, TakeNewsFacts
  <2>2. evicted' \subseteq 1 .. MaxSend
    BY <1>6, TakeNewsFacts, IdsTyped DEF TypeOK
  <2>3. count' \in 0 .. Batch
    BY <1>6, ReporterAssumption DEF TakeNews, TypeOK
  <2>4. /\ UNCHANGED <<sent, cap, sleeping, booting, pc, bsize, data,
                       attempts, delivered, acked>>
        /\ pc = "aggregate"
    BY <1>6 DEF TakeNews, agentVars
  <2>5. TypeOK'
    BY <2>1, <2>2, <2>3, <2>4 DEF TypeOK
  <2> QED
    BY <2>4, <2>5
<1>7. CASE EndAggregate
  <2>1. data' \in Seq(Lines)
    BY <1>7, ConcatProperties DEF EndAggregate, Request, TypeOK
  <2>2. attempts' = 0 /\ attempts' < Retries /\ attempts' \in 0 .. Retries
    BY <1>7, ReporterAssumption DEF EndAggregate
  <2>3. TypeOK'
    BY <1>7, <2>1, <2>2 DEF EndAggregate, TypeOK, agentVars
  <2> QED
    BY <1>7, <2>2, <2>3 DEF EndAggregate, agentVars
<1>8. CASE PostOk
  <2>1. mcb' \in Seq(Lines) /\ pc' \in {"prefetch", "undefined"}
    BY <1>8, SuccessFacts DEF PostOk
  <2>2. delivered' \subseteq (1 .. MaxSend) \X (Xids \cup {NoXid})
    BY <1>8, ReadType DEF PostOk, TypeOK
  <2>3. acked' \subseteq 1 .. MaxSend
    BY <1>8, IdsTyped DEF PostOk, TypeOK
  <2>4. TypeOK'
    BY <1>8, <2>1, <2>2, <2>3 DEF PostOk, TypeOK, agentVars
  <2> QED
    BY <1>8, <2>1, <2>4 DEF PostOk, agentVars
<1>9. CASE PostFails
  <2>1. delivered' \subseteq (1 .. MaxSend) \X (Xids \cup {NoXid})
    BY <1>9, ReadType DEF PostFails, TypeOK
  <2>2. attempts' \in 0 .. Retries /\ (pc' = "send" => attempts' < Retries)
    BY <1>9, ReporterAssumption DEF PostFails, TypeOK
  <2>3. TypeOK'
    BY <1>9, <2>1, <2>2 DEF PostFails, TypeOK, agentVars
  <2> QED
    BY <1>9, <2>2, <2>3 DEF PostFails, agentVars
<1> QED
  BY <1>1, <1>2, <1>3, <1>4, <1>5, <1>6, <1>7, <1>8, <1>9 DEF Next, Agent, Reporter

(* Every variable of the reporter keeps its type.                          *)
THEOREM ReporterTypeCorrect == Spec => []TypeOK
<1>1. IInv /\ [Next]_vars => IInv'
  BY IInvNext
<1>2. IInv => TypeOK
  BY DEF IInv
<1> QED
  BY IInvInit, <1>1, <1>2, PTL DEF Spec

-----------------------------------------------------------------------------
(***************************************************************************)
(* The capacity                                                            *)
(***************************************************************************)

(* No step grows the buffer beyond its capacity. *)
Growth == Len(mcb') > Len(mcb) => Len(mcb') <= cap

LEMMA GrowthStep == ASSUME IInv, [Next]_vars PROVE [Growth]_vars
<1> USE DEF Growth
<1>1. Len(mcb) \in Nat
  BY LenProperties DEF IInv, TypeOK
<1>2. CASE TakeNews
  BY <1>2, TakeNewsFacts
<1>3. CASE PostOk
  <2>1. Len(mcb') <= Len(mcb) /\ mcb' \in Seq(Lines)
    BY <1>3, SuccessFacts DEF PostOk
  <2>2. Len(mcb') \in Nat
    BY <2>1, LenProperties
  <2> QED
    BY <1>1, <2>1, <2>2
<1>4. CASE mcb' = mcb
  BY <1>1, <1>4
<1>5. TakeNews \/ PostOk \/ mcb' = mcb
  BY DEF Next, Agent, Reporter, Send, SetSleeping, SetCapacity, Prefetch,
         EndAggregate, PostFails, vars
<1> QED
  BY <1>2, <1>3, <1>4, <1>5

(* The buffer grows only within the capacity, whatever setCapacity() does. *)
THEOREM CapacityRespected == Spec => GrowsWithinCapacity
<1>1. IInv /\ [Next]_vars => [Growth]_vars
  BY GrowthStep
<1>2. IInv /\ [Next]_vars => IInv'
  BY IInvNext
<1> QED
  BY IInvInit, <1>1, <1>2, PTL DEF Spec, GrowsWithinCapacity, Growth

-----------------------------------------------------------------------------
(***************************************************************************)
(* A buffer of one chunk loses only what it evicts                         *)
(***************************************************************************)
OneChunk == \A c \in Capacities : c <= Chunk

(* Between the prefetch and the answer, what is buffered is in what is     *)
(* sent; this is what fails when the buffer holds more than one chunk.     *)
OneChunkInv ==
    /\ IInv
    /\ Len(mcb) <= Chunk
    /\ pc \in {"aggregate", "send"} => bsize <= 1
    /\ pc = "aggregate" => Ids(mcb) \subseteq Ids(data) \cup Ids(aggre)
    /\ pc = "send" => Ids(mcb) \subseteq Ids(data)
    /\ LostOnlyByEviction

(* Every step keeps what one chunk needs. *)
LEMMA OneChunkInit == Init => OneChunkInv
<1> SUFFICES ASSUME Init PROVE OneChunkInv
  OBVIOUS
<1>1. Len(mcb) = 0 /\ 0 <= Chunk
  BY EmptySeq, ChunkAssumption DEF Init
<1>2. pc = "prefetch" /\ taken = 0
  BY DEF Init
<1> QED
  BY <1>1, <1>2, IInvInit DEF OneChunkInv, LostOnlyByEviction

LEMMA OneChunkNext ==
    ASSUME OneChunk, OneChunkInv, [Next]_vars
    PROVE  OneChunkInv'
<1>1. IInv' /\ IInv
  BY IInvNext DEF OneChunkInv
<1>2. /\ mcb \in Seq(Lines) /\ Len(mcb) \in Nat /\ Len(sent) \in Nat
      /\ sent \in Seq([xid : Xids, buf : Prios]) /\ taken \in 0 .. Len(sent)
      /\ data \in Seq(Lines) /\ aggre \in Seq(Lines)
      /\ cap \in Capacities /\ cap \in Nat /\ Chunk \in Nat
  BY <1>1, LenProperties, ReporterAssumption, ChunkAssumption DEF IInv, TypeOK
<1>3. CASE UNCHANGED <<taken, sent, mcb, pc, bsize, data, aggre, delivered, evicted>>
  BY <1>1, <1>3 DEF OneChunkInv, LostOnlyByEviction, DeliveredIds
<1>4. ASSUME NEW x \in Xids, NEW buf \in Prios, Send(x, buf) PROVE OneChunkInv'
  <2> DEFINE news == [xid |-> x, buf |-> buf]
  <2>1. sent' = Append(sent, news) /\ news \in [xid : Xids, buf : Prios]
    BY <1>4 DEF Send
  <2> HIDE DEF news
  <2>2. \A i \in 1 .. taken : sent'[i] = sent[i]
    BY <1>2, <2>1, AppendProperties
  <2> QED
    BY <1>1, <1>4, <2>2 DEF Send, OneChunkInv, LostOnlyByEviction, DeliveredIds
<1>5. CASE Prefetch
  <2>1. data' = mcb /\ bsize' <= 1 /\ pc' = "aggregate"
    BY <1>2, <1>5, FrontType, ChunkAssumption DEF Prefetch, OneChunkInv
  <2> QED
    BY <1>1, <1>5, <2>1 DEF Prefetch, agentVars, OneChunkInv,
                           LostOnlyByEviction, DeliveredIds
<1>6. CASE TakeNews
  <2>1. /\ taken' = taken + 1 /\ taken' \in 1 .. Len(sent)
        /\ mcb' \in Seq(Lines) /\ (Len(mcb') > Len(mcb) => Len(mcb') <= cap)
        /\ Ids(aggre') = Ids(aggre) \cup {taken'}
        /\ Ids(mcb') \subseteq Ids(mcb) \cup {taken'}
        /\ (sent[taken'].buf => taken' \in Ids(mcb'))
        /\ evicted' = evicted \cup (Ids(mcb) \ Ids(mcb'))
    BY <1>1, <1>6, TakeNewsFacts
  <2>2. UNCHANGED <<sent, pc, bsize, data, delivered>> /\ pc = "aggregate"
    BY <1>6 DEF TakeNews, agentVars
  <2>3. Len(mcb') \in Nat
    BY <2>1, LenProperties
  <2>4. Len(mcb') <= Chunk
    BY <1>2, <2>1, <2>3 DEF OneChunk, OneChunkInv
  <2>5. Ids(mcb') \subseteq Ids(data') \cup Ids(aggre')
    BY <2>1, <2>2 DEF OneChunkInv
  <2>6. LostOnlyByEviction'
    <3> SUFFICES ASSUME NEW i \in 1 .. taken', sent[i].buf
                 PROVE  i \in Ids(mcb') \cup DeliveredIds \cup evicted'
      BY <2>2 DEF LostOnlyByEviction, DeliveredIds
    <3>1. CASE i = taken'
      BY <2>1, <3>1
    <3>2. CASE i \in 1 .. taken
      BY <2>1, <3>2 DEF OneChunkInv, LostOnlyByEviction
    <3> QED
      BY <1>2, <2>1, <3>1, <3>2
  <2> QED
    BY <1>1, <2>2, <2>4, <2>5, <2>6 DEF OneChunkInv
<1>7. CASE EndAggregate
  <2>1. data' = data \o aggre
    BY <1>7 DEF EndAggregate, Request, OneChunkInv
  <2>2. Ids(data') = Ids(data) \cup Ids(aggre)
    BY <1>2, <2>1, IdsConcat
  <2> QED
    BY <1>1, <1>7, <2>2 DEF EndAggregate, agentVars, OneChunkInv,
                            LostOnlyByEviction, DeliveredIds
<1>8. CASE PostOk
  <2>1. mcb' = <<>> /\ pc' \in {"prefetch", "undefined"} /\ pc = "send"
    BY <1>1, <1>8, SuccessFacts DEF PostOk, OneChunkInv
  <2>2. Len(mcb') <= Chunk
    BY <1>2, <2>1, EmptySeq
  <2>3. DeliveredIds' = DeliveredIds \cup Ids(data)
    <3>1. delivered' = delivered \cup Read(data)
      BY <1>8 DEF PostOk
    <3>2. {d[1] : d \in Read(data)} = Ids(data)
      BY <1>2, ReadType
    <3> QED
      BY <3>1, <3>2 DEF DeliveredIds
  <2>4. UNCHANGED <<sent, taken, evicted>>
    BY <1>8 DEF PostOk, agentVars
  <2>5. LostOnlyByEviction'
    BY <2>1, <2>3, <2>4 DEF OneChunkInv, LostOnlyByEviction
  <2> QED
    BY <1>1, <2>1, <2>2, <2>5 DEF OneChunkInv
<1>9. CASE PostFails
  <2>1. DeliveredIds \subseteq DeliveredIds'
    BY <1>9 DEF PostFails, DeliveredIds
  <2>2. UNCHANGED <<sent, taken, mcb, bsize, data, aggre, evicted>>
        /\ pc = "send" /\ pc' \in {"prefetch", "send"}
    BY <1>9 DEF PostFails, agentVars
  <2> QED
    BY <1>1, <2>1, <2>2 DEF OneChunkInv, LostOnlyByEviction
<1> QED
  BY <1>3, <1>4, <1>5, <1>6, <1>7, <1>8, <1>9
     DEF Next, Agent, Reporter, SetSleeping, SetCapacity, vars

(* Where every capacity the application sets is at most a chunk, a message *)
(* with SR_PRIO_BUF is lost only because newer ones pushed it out.         *)
THEOREM OneChunkLosesOnlyByEviction == OneChunk => (Spec => []LostOnlyByEviction)
<1> SUFFICES ASSUME OneChunk PROVE Spec => []LostOnlyByEviction
  OBVIOUS
<1>2. OneChunkInv /\ [Next]_vars => OneChunkInv'
  BY OneChunkNext
<1>3. OneChunkInv => LostOnlyByEviction
  BY DEF OneChunkInv
<1> QED
  BY OneChunkInit, <1>2, <1>3, PTL DEF Spec
-----------------------------------------------------------------------------
(***************************************************************************)
(* The lines of a buffer                                                   *)
(***************************************************************************)

LEMMA LineTypes ==
    ASSUME NEW m \in Seq(Lines)
    PROVE  /\ DOMAIN m = 1 .. Len(m) /\ Len(m) \in Nat
           /\ \A k \in 1 .. Len(m) :
                 m[k] \in Lines /\ m[k].xid \in Xids /\ m[k].id \in 0 .. MaxSend
<1>1. \A line \in Lines : line.xid \in Xids /\ line.id \in 0 .. MaxSend
  BY ReporterAssumption DEF Lines, Header, Line
<1> QED
  BY <1>1, LenProperties, ElementOfSeq

(* The first line goes, or the second one and the first one stays, or both *)
(* of them go.                                                             *)
Without1(m, r) == Len(r) = Len(m) - 1 /\ \A k \in 1 .. Len(r) : r[k] = m[k + 1]
Without2(m, r) ==
    Len(r) = Len(m) - 1 /\ \A k \in 1 .. Len(r) : r[k] = m[IF k = 1 THEN 1 ELSE k + 1]
WithoutBoth(m, r) == Len(r) = Len(m) - 2 /\ \A k \in 1 .. Len(r) : r[k] = m[k + 2]

LEMMA MakeRoomLines ==
    ASSUME NEW m \in Seq(Lines), NEW c \in Nat \ {0, 1}, Len(m) >= c
    PROVE  /\ MakeRoom(m, c) \in Seq(Lines)
           /\ \/ ~IsHeader(m[1]) /\ Without1(m, MakeRoom(m, c))
              \/ /\ IsHeader(m[1]) /\ Len(m) >= 3 /\ ~IsHeader(m[3])
                 /\ Without2(m, MakeRoom(m, c))
              \/ /\ IsHeader(m[1]) /\ (Len(m) >= 3 => IsHeader(m[3]))
                 /\ WithoutBoth(m, MakeRoom(m, c))
<1> DEFINE t == Tail(m)
           rest == Tail(t)
           kept == <<Head(m)>> \o rest
<1>1. Len(m) \in Nat /\ Len(m) >= 2 /\ m # <<>> /\ Head(m) = m[1] /\ Head(m) \in Lines
  BY LenProperties, EmptySeq, HeadTailProperties
<1>2. t \in Seq(Lines) /\ Len(t) = Len(m) - 1 /\ \A k \in 1 .. Len(t) : t[k] = m[k + 1]
  BY <1>1, HeadTailProperties
<1>3. t # <<>>
  <2>1. Len(t) # 0
    BY <1>1, <1>2
  <2> QED
    BY <2>1, EmptySeq
<1> HIDE DEF t
<1>4. /\ rest \in Seq(Lines) /\ Len(rest) = Len(m) - 2
      /\ \A k \in 1 .. Len(rest) : rest[k] = m[k + 2]
  <2>1. rest \in Seq(Lines) /\ Len(rest) = Len(t) - 1 /\ \A k \in 1 .. Len(rest) : rest[k] = t[k + 1]
    BY <1>2, <1>3, HeadTailProperties
  <2> HIDE DEF rest
  <2> QED
    BY <1>1, <1>2, <2>1
<1> HIDE DEF rest
<1>5. /\ kept \in Seq(Lines) /\ Len(kept) = Len(m) - 1
      /\ \A k \in 1 .. Len(kept) : kept[k] = m[IF k = 1 THEN 1 ELSE k + 1]
  <2>1. <<Head(m)>> \in Seq(Lines) /\ Len(<<Head(m)>>) = 1 /\ <<Head(m)>>[1] = m[1]
    BY <1>1
  <2>2. /\ kept \in Seq(Lines) /\ Len(kept) = 1 + Len(rest)
        /\ \A k \in 1 .. 1 + Len(rest) :
              kept[k] = IF k <= 1 THEN <<Head(m)>>[k] ELSE rest[k - 1]
    BY <1>4, <2>1, ConcatProperties
  <2> HIDE DEF kept
  <2> QED
    BY <1>1, <1>4, <2>1, <2>2
<1> DEFINE more == rest # <<>> /\ ~IsHeader(Head(rest))
<1>6. /\ (Len(m) >= 3) = (rest # <<>>)
      /\ Len(m) >= 3 => Head(rest) = m[3]
  <2>1. (rest # <<>>) = (Len(rest) # 0)
    BY <1>4, EmptySeq
  <2>2. rest # <<>> => Head(rest) = rest[1]
    BY <1>4, HeadTailProperties
  <2> QED
    BY <1>1, <1>4, <2>1, <2>2
<1> HIDE DEF kept
<1>7. MakeRoom(m, c) = IF ~IsHeader(m[1]) THEN t ELSE IF more THEN kept ELSE rest
  <2>1. ~(Len(m) < c)
    BY <1>1
  <2> QED
    BY ONLY <1>1, <2>1, Zenon DEF MakeRoom, t, rest, kept
<1>8. CASE ~IsHeader(m[1])
  BY <1>2, <1>7, <1>8 DEF Without1
<1>9. CASE IsHeader(m[1]) /\ more
  BY <1>1, <1>5, <1>6, <1>7, <1>9 DEF Without2
<1>10. CASE IsHeader(m[1]) /\ ~more
  BY <1>1, <1>4, <1>6, <1>7, <1>10 DEF WithoutBoth
<1> QED
  BY <1>8, <1>9, <1>10

(* No header is followed by another, nor the last line; and no message is  *)
(* there twice.                                                            *)
Paired(m) == \A k \in 1 .. Len(m) - 1 : IsHeader(m[k]) => ~IsHeader(m[k + 1])
Closed(m) == Len(m) > 0 => ~IsHeader(m[Len(m)])
Distinct(m) ==
    \A j, k \in 1 .. Len(m) : j # k /\ m[j].id = m[k].id => m[j].id = 0
InOrder(m) == Paired(m) /\ Closed(m) /\ Distinct(m)

(* Lines move to the front only. *)
Advanced(m, r) == \A k \in 1 .. Len(r) : \E j \in 1 .. Len(m) : j >= k /\ r[k] = m[j]

(* Eviction keeps the order, and takes a message when it takes a line.     *)
LEMMA MakeRoomKeeps ==
    ASSUME NEW m \in Seq(Lines), NEW c \in Nat \ {0, 1}, Paired(m), Distinct(m),
           NEW r, r = MakeRoom(m, c)
    PROVE  /\ r \in Seq(Lines) /\ Paired(r) /\ Distinct(r) /\ Advanced(m, r)
           /\ Closed(m) => Closed(r)
           /\ r = m \/ \E i \in Ids(m) : i \notin Ids(r)
<1>1. /\ Len(m) \in Nat /\ DOMAIN m = 1 .. Len(m)
      /\ \A k \in 1 .. Len(m) : IsHeader(m[k]) \/ m[k].id \in Ids(m)
  BY LineTypes DEF Ids, IsHeader
<1>2. CASE Len(m) < c
  BY <1>1, <1>2 DEF MakeRoom, Advanced
<1>3. CASE Len(m) >= c
  <2>1. /\ r \in Seq(Lines) /\ Len(m) >= 2
        /\ \/ ~IsHeader(m[1]) /\ Without1(m, r)
           \/ IsHeader(m[1]) /\ Len(m) >= 3 /\ ~IsHeader(m[3]) /\ Without2(m, r)
           \/ IsHeader(m[1]) /\ WithoutBoth(m, r)
    BY <1>1, <1>3, MakeRoomLines
  <2>2. Len(r) \in Nat /\ DOMAIN r = 1 .. Len(r)
    BY <2>1, LenProperties
  <2>3. ASSUME NEW n \in 1 .. Len(m), ~IsHeader(m[n]), \A k \in 1 .. Len(r) :
                  \E j \in 1 .. Len(m) : j # n /\ r[k] = m[j]
        PROVE  \E i \in Ids(m) : i \notin Ids(r)
    <3>1. m[n].id \in Ids(m) /\ m[n].id # 0
      BY <1>1, <2>3 DEF IsHeader
    <3>2. \A k \in 1 .. Len(r) : r[k].id # m[n].id
      BY <1>1, <2>3, <3>1 DEF Distinct
    <3>3. m[n].id \notin Ids(r)
      BY <2>2, <3>2 DEF Ids
    <3> QED
      BY <3>1, <3>3
  <2>4. CASE ~IsHeader(m[1]) /\ Without1(m, r)
    <3>0. Len(r) = Len(m) - 1 /\ \A k \in 1 .. Len(r) : k + 1 \in 1 .. Len(m) /\ r[k] = m[k + 1]
      BY <1>1, <2>1, <2>2, <2>4 DEF Without1
    <3>1. Paired(r) /\ Distinct(r) /\ Advanced(m, r) /\ (Closed(m) => Closed(r))
      <4>1. ASSUME NEW k \in 1 .. Len(r) - 1, IsHeader(r[k]) PROVE ~IsHeader(r[k + 1])
        <5>1. /\ k \in 1 .. Len(r) /\ k + 1 \in 1 .. Len(r) /\ (k + 1) + 1 = (k + 1) + 1
              /\ k + 1 \in 1 .. Len(m) - 1
          BY <1>1, <2>2, <3>0
        <5>2. r[k] = m[k + 1] /\ r[k + 1] = m[(k + 1) + 1]
          BY <3>0, <5>1
        <5> QED
          BY ONLY <4>1, <5>1, <5>2, Paired(m) DEF Paired
      <4>2. Paired(r)
        BY ONLY <4>1 DEF Paired
      <4>3. Distinct(r)
        BY <1>1, <2>2, <3>0 DEF Distinct
      <4>4. Advanced(m, r)
        BY <1>1, <2>2, <3>0 DEF Advanced
      <4>5. Closed(m) => Closed(r)
        BY <1>1, <2>2, <3>0 DEF Closed
      <4> QED
        BY <4>2, <4>3, <4>4, <4>5
    <3>2. \A k \in 1 .. Len(r) : k + 1 \in 1 .. Len(m) /\ k + 1 # 1 /\ r[k] = m[k + 1]
      BY <1>1, <2>1, <2>2, <2>4 DEF Without1
    <3>3. \E i \in Ids(m) : i \notin Ids(r)
      <4>1. 1 \in 1 .. Len(m)
        BY <1>1, <2>1
      <4> QED
        BY ONLY <2>3, <2>4, <3>2, <4>1
    <3> QED
      BY <2>1, <3>1, <3>3
  <2>5. CASE IsHeader(m[1]) /\ Len(m) >= 3 /\ ~IsHeader(m[3]) /\ Without2(m, r)
    <3>1. Len(r) = Len(m) - 1 /\ r[1] = m[1] /\ \A k \in 2 .. Len(r) : r[k] = m[k + 1]
      BY <1>1, <2>2, <2>5 DEF Without2
    <3>2. Paired(r)
      <4> SUFFICES ASSUME NEW k \in 1 .. Len(r) - 1, IsHeader(r[k])
                   PROVE  ~IsHeader(r[k + 1])
        BY DEF Paired
      <4>1. CASE k = 1
        BY <1>1, <2>5, <3>1, <4>1
      <4>2. CASE k # 1
        BY <1>1, <2>2, <3>1, <4>2 DEF Paired
      <4> QED
        BY <4>1, <4>2
    <3>3. Distinct(r)
      BY <1>1, <2>2, <3>1 DEF Distinct
    <3>4. \A k \in 1 .. Len(r) : \E j \in 1 .. Len(m) : j >= k /\ j # 2 /\ r[k] = m[j]
      <4> SUFFICES ASSUME NEW k \in 1 .. Len(r)
                   PROVE  \E j \in 1 .. Len(m) : j >= k /\ j # 2 /\ r[k] = m[j]
        OBVIOUS
      <4>1. CASE k = 1
        BY <1>1, <2>5, <3>1, <4>1
      <4>2. CASE k # 1
        BY <1>1, <2>2, <3>1, <4>2
      <4> QED
        BY <4>1, <4>2
    <3>5. 2 \in 1 .. Len(m) /\ ~IsHeader(m[2])
      BY <1>1, <2>5 DEF Paired
    <3>6. \E i \in Ids(m) : i \notin Ids(r)
      BY ONLY <2>3, <3>4, <3>5
    <3>7. Advanced(m, r)
      BY <3>4 DEF Advanced
    <3>8. Closed(m) => Closed(r)
      BY <1>1, <2>2, <2>5, <3>1 DEF Closed
    <3> QED
      BY <2>1, <3>2, <3>3, <3>6, <3>7, <3>8
  <2>6. CASE IsHeader(m[1]) /\ WithoutBoth(m, r)
    <3>0. Len(r) = Len(m) - 2 /\ \A k \in 1 .. Len(r) : k + 2 \in 1 .. Len(m) /\ r[k] = m[k + 2]
      BY <1>1, <2>1, <2>2, <2>6 DEF WithoutBoth
    <3>1. Paired(r) /\ Distinct(r) /\ Advanced(m, r) /\ (Closed(m) => Closed(r))
      <4>1. ASSUME NEW k \in 1 .. Len(r) - 1, IsHeader(r[k]) PROVE ~IsHeader(r[k + 1])
        <5>1. /\ k \in 1 .. Len(r) /\ k + 1 \in 1 .. Len(r) /\ (k + 1) + 2 = (k + 2) + 1
              /\ k + 2 \in 1 .. Len(m) - 1
          BY <1>1, <2>2, <3>0
        <5>2. r[k] = m[k + 2] /\ r[k + 1] = m[(k + 2) + 1]
          BY <3>0, <5>1
        <5> QED
          BY ONLY <4>1, <5>1, <5>2, Paired(m) DEF Paired
      <4>2. Paired(r)
        BY ONLY <4>1 DEF Paired
      <4>3. Distinct(r)
        BY <1>1, <2>2, <3>0 DEF Distinct
      <4>4. Advanced(m, r)
        BY <1>1, <2>2, <3>0 DEF Advanced
      <4>5. Closed(m) => Closed(r)
        BY <1>1, <2>2, <3>0 DEF Closed
      <4> QED
        BY <4>2, <4>3, <4>4, <4>5
    <3>2. \A k \in 1 .. Len(r) : k + 2 \in 1 .. Len(m) /\ k + 2 # 2 /\ r[k] = m[k + 2]
      BY <1>1, <2>1, <2>2, <2>6 DEF WithoutBoth
    <3>3. \E i \in Ids(m) : i \notin Ids(r)
      <4>1. 2 \in 1 .. Len(m) /\ ~IsHeader(m[2])
        BY <1>1, <2>1, <2>6 DEF Paired
      <4> QED
        BY ONLY <2>3, <3>2, <4>1
    <3> QED
      BY <2>1, <3>1, <3>3
  <2> QED
    BY <2>1, <2>4, <2>5, <2>6
<1> QED
  BY <1>1, <1>2, <1>3

(* A line more at the end. *)
LEMMA AppendedLine ==
    ASSUME NEW m \in Seq(Lines), NEW e \in Lines
    PROVE  /\ Append(m, e) \in Seq(Lines) /\ Len(Append(m, e)) = Len(m) + 1
           /\ Append(m, e)[Len(m) + 1] = e
           /\ \A k \in 1 .. Len(m) : Append(m, e)[k] = m[k]
           /\ Ids(Append(m, e)) = Ids(m) \cup ({e.id} \ {0})
BY AppendProperties, LenProperties, IdsAppend

(* What aggregate() makes of the buffer when it adds a message: lines move *)
(* to the front only, a header and the message come behind them, and       *)
(* unless a message is evicted no line moves.                              *)
LEMMA BufferedKeeps ==
    ASSUME NEW m \in Seq(Lines), NEW c \in Nat \ {0, 1}, InOrder(m),
           NEW line \in Lines, line.id # 0, line.id \notin Ids(m),
           NEW header, header = <<>> \/ \E h \in Lines : IsHeader(h) /\ header = <<h>>,
           NEW b, b = Buffered(m, c, header, line)
    PROVE  /\ b \in Seq(Lines) /\ InOrder(b)
           /\ \A k \in 1 .. Len(b) :
                 \/ b[k] = line \/ IsHeader(b[k])
                 \/ \E j \in 1 .. Len(m) : j >= k /\ b[k] = m[j]
           /\ Ids(m) \subseteq Ids(b) =>
                 Len(b) >= Len(m) /\ \A k \in 1 .. Len(m) : b[k] = m[k]
<1> DEFINE a == IF header = <<>> THEN m ELSE EmplaceBack(m, c, header[1])
           r == MakeRoom(a, c)
<1>1. Len(m) \in Nat /\ DOMAIN m = 1 .. Len(m) /\ Paired(m) /\ Closed(m) /\ Distinct(m)
  BY LenProperties DEF InOrder
<1>2. /\ a \in Seq(Lines) /\ Paired(a) /\ Distinct(a) /\ Ids(a) \subseteq Ids(m)
      /\ \A k \in 1 .. Len(a) :
            IsHeader(a[k]) \/ \E j \in 1 .. Len(m) : j >= k /\ a[k] = m[j]
      /\ \/ Len(a) >= Len(m) /\ \A k \in 1 .. Len(m) : a[k] = m[k]
         \/ \E i \in Ids(m) : i \notin Ids(a)
  <2>1. CASE header = <<>>
    BY <1>1, <2>1
  <2>2. CASE \E h \in Lines : IsHeader(h) /\ header = <<h>>
    <3>1. PICK h \in Lines : IsHeader(h) /\ header = <<h>>
      BY <2>2
    <3> DEFINE s == MakeRoom(m, c)
    <3>2. a = Append(s, h)
      BY <3>1 DEF EmplaceBack
    <3>3. /\ s \in Seq(Lines) /\ Paired(s) /\ Distinct(s) /\ Advanced(m, s) /\ Closed(s)
          /\ s = m \/ \E i \in Ids(m) : i \notin Ids(s)
      BY <1>1, MakeRoomKeeps
    <3>4. Ids(s) \subseteq Ids(m)
      BY MakeRoomIds
    <3> HIDE DEF s, a
    <3>5. /\ a \in Seq(Lines) /\ Len(a) = Len(s) + 1 /\ a[Len(s) + 1] = h
          /\ \A k \in 1 .. Len(s) : a[k] = s[k]
          /\ Ids(a) = Ids(s) /\ Len(s) \in Nat
      <4>1. /\ a \in Seq(Lines) /\ Len(a) = Len(s) + 1 /\ a[Len(s) + 1] = h
            /\ \A k \in 1 .. Len(s) : a[k] = s[k]
            /\ Ids(a) = Ids(s) \cup ({h.id} \ {0})
        <5>1. s \in Seq(Lines)
          BY <3>3
        <5>2. /\ Append(s, h) \in Seq(Lines) /\ Len(Append(s, h)) = Len(s) + 1
              /\ Append(s, h)[Len(s) + 1] = h
              /\ \A k \in 1 .. Len(s) : Append(s, h)[k] = s[k]
              /\ Ids(Append(s, h)) = Ids(s) \cup ({h.id} \ {0})
          BY ONLY <5>1, h \in Lines, AppendedLine, Zenon
        <5> QED
          BY ONLY <3>2, <5>2, Zenon
      <4>2. {h.id} \ {0} = {}
        BY <3>1 DEF IsHeader
      <4> QED
        BY <3>3, <4>1, <4>2, LenProperties
    <3>6. Paired(a)
      BY <3>1, <3>3, <3>5 DEF Paired, Closed
    <3>7. Distinct(a)
      BY <3>1, <3>3, <3>5 DEF Distinct, IsHeader
    <3>8. ASSUME NEW k \in 1 .. Len(a)
          PROVE  IsHeader(a[k]) \/ \E j \in 1 .. Len(m) : j >= k /\ a[k] = m[j]
      <4>1. k = Len(s) + 1 \/ k \in 1 .. Len(s)
        BY <3>5
      <4> QED
        BY <3>1, <3>3, <3>5, <4>1 DEF Advanced
    <3>9. s = m => Len(a) >= Len(m) /\ \A k \in 1 .. Len(m) : a[k] = m[k]
      BY <3>5
    <3> QED
      BY <3>3, <3>4, <3>5, <3>6, <3>7, <3>8, <3>9
  <2> QED
    BY <2>1, <2>2
<1>3. b = Append(r, line)
  BY DEF Buffered, EmplaceBack
<1> HIDE DEF a
<1>4. /\ r \in Seq(Lines) /\ Paired(r) /\ Distinct(r) /\ Advanced(a, r)
      /\ r = a \/ \E i \in Ids(a) : i \notin Ids(r)
  BY <1>2, MakeRoomKeeps
<1>5. Ids(r) \subseteq Ids(a)
  BY <1>2, MakeRoomIds
<1> HIDE DEF r
<1>6. /\ b \in Seq(Lines) /\ Len(b) = Len(r) + 1 /\ b[Len(r) + 1] = line
      /\ \A k \in 1 .. Len(r) : b[k] = r[k]
      /\ Ids(b) = Ids(r) \cup {line.id} /\ Len(r) \in Nat /\ Len(a) \in Nat
      /\ DOMAIN r = 1 .. Len(r)
  <2>1. {line.id} \ {0} = {line.id}
    OBVIOUS
  <2> QED
    <3>1. /\ b \in Seq(Lines) /\ Len(b) = Len(r) + 1 /\ b[Len(r) + 1] = line
          /\ \A k \in 1 .. Len(r) : b[k] = r[k]
          /\ Ids(b) = Ids(r) \cup ({line.id} \ {0})
      <4>1. r \in Seq(Lines)
        BY <1>4
      <4>2. /\ Append(r, line) \in Seq(Lines) /\ Len(Append(r, line)) = Len(r) + 1
            /\ Append(r, line)[Len(r) + 1] = line
            /\ \A k \in 1 .. Len(r) : Append(r, line)[k] = r[k]
            /\ Ids(Append(r, line)) = Ids(r) \cup ({line.id} \ {0})
        BY ONLY <4>1, line \in Lines, AppendedLine, Zenon
      <4> QED
        BY ONLY <1>3, <4>2, Zenon
    <3> QED
      BY <1>2, <1>4, <2>1, <3>1, LenProperties
<1>7. ~IsHeader(line) /\ \A k \in 1 .. Len(r) : r[k].id # line.id
  <2>1. line.id \notin Ids(r)
    BY <1>2, <1>5
  <2> QED
    BY <1>6, <2>1 DEF Ids, IsHeader
<1>8. InOrder(b)
  <2>1. Paired(b)
    <3> SUFFICES ASSUME NEW k \in 1 .. Len(b) - 1, IsHeader(b[k]) PROVE ~IsHeader(b[k + 1])
      BY DEF Paired
    <3>1. k = Len(r) \/ (k \in 1 .. Len(r) - 1 /\ k + 1 \in 1 .. Len(r))
      <4>1. Len(b) - 1 = Len(r) /\ Len(r) \in Nat
        BY <1>6
      <4> QED
        BY ONLY <4>1, k \in 1 .. Len(b) - 1
    <3>2. CASE k = Len(r)
      BY ONLY <1>6, <1>7, <3>2, Zenon
    <3>3. CASE k \in 1 .. Len(r) - 1 /\ k + 1 \in 1 .. Len(r)
      <4>1. k \in 1 .. Len(r)
        BY <1>6, <3>3
      <4> QED
        BY ONLY <1>4, <1>6, <3>3, <4>1, IsHeader(b[k]), Zenon DEF Paired
    <3> QED
      BY ONLY <3>1, <3>2, <3>3
  <2>2. Closed(b)
    BY <1>6, <1>7 DEF Closed
  <2>3. Distinct(b)
    <3> SUFFICES ASSUME NEW j \in 1 .. Len(b), NEW k \in 1 .. Len(b), j # k, b[j].id = b[k].id
                 PROVE  b[j].id = 0
      BY DEF Distinct
    <3>1. (j = Len(r) + 1 \/ j \in 1 .. Len(r)) /\ (k = Len(r) + 1 \/ k \in 1 .. Len(r))
      BY <1>6
    <3> QED
      BY <1>4, <1>6, <1>7, <3>1 DEF Distinct
  <2> QED
    BY <2>1, <2>2, <2>3 DEF InOrder
<1>9. ASSUME NEW k \in 1 .. Len(b)
      PROVE  \/ b[k] = line \/ IsHeader(b[k])
             \/ \E j \in 1 .. Len(m) : j >= k /\ b[k] = m[j]
  <2>1. k = Len(r) + 1 \/ k \in 1 .. Len(r)
    BY <1>6
  <2>2. CASE k \in 1 .. Len(r)
    <3>1. PICK n \in 1 .. Len(a) : n >= k /\ r[k] = a[n]
      BY <1>4, <2>2 DEF Advanced
    <3>2. CASE IsHeader(a[n])
      BY <1>6, <2>2, <3>1, <3>2
    <3>3. ASSUME NEW j \in 1 .. Len(m), j >= n, a[n] = m[j]
          PROVE  j >= k /\ b[k] = m[j]
      BY <1>1, <1>6, <2>2, <3>1, <3>3
    <3> QED
      BY <1>2, <3>2, <3>3
  <2> QED
    BY <1>6, <2>1, <2>2
<1>10. ASSUME Ids(m) \subseteq Ids(b)
       PROVE  Len(b) >= Len(m) /\ \A k \in 1 .. Len(m) : b[k] = m[k]
  <2>1. Ids(m) \subseteq Ids(r)
    BY <1>6, <1>10
  <2>2. r = a
    BY <1>2, <1>4, <2>1
  <2>3. Len(a) >= Len(m) /\ \A k \in 1 .. Len(m) : a[k] = m[k]
    BY <1>2, <1>5, <2>1
  <2> QED
    BY <1>1, <1>6, <2>2, <2>3
<1> QED
  BY <1>6, <1>8, <1>9, <1>10

(* What pop_front() leaves: the lines behind the chunk, under a header.    *)
LEMMA PopFrontLines ==
    ASSUME NEW m \in Seq(Lines), PopFrontDefined(m), Len(m) > Chunk
    PROVE  /\ PopFront(m) \in Seq(Lines)
           /\ \/ /\ Len(PopFront(m)) = Len(m) - Chunk
                 /\ \A k \in 1 .. Len(m) - Chunk : PopFront(m)[k] = m[k + Chunk]
                 /\ IsHeader(m[Chunk + 1])
              \/ /\ Len(PopFront(m)) = Len(m) - Chunk + 1
                 /\ Max(HeadersIn(m)) \in HeadersIn(m)
                 /\ PopFront(m)[1] = m[Max(HeadersIn(m))]
                 /\ \A k \in 1 .. Len(m) - Chunk : PopFront(m)[k + 1] = m[k + Chunk]
                 /\ ~IsHeader(m[Chunk + 1])
<1> DEFINE rest == SubSeq(m, Chunk + 1, Len(m))
           p == PopFront(m)
           h == Max(HeadersIn(m))
<1>1. Chunk \in Nat \ {0} /\ Len(m) \in Nat /\ \A k \in 1 .. Len(m) : m[k] \in Lines
  BY ChunkAssumption, LineTypes
<1>2. /\ rest \in Seq(Lines) /\ Len(rest) = Len(m) - Chunk
      /\ \A k \in 1 .. Len(m) - Chunk : rest[k] = m[k + Chunk]
  <2>1. \A k \in (Chunk + 1) .. Len(m) : m[k] \in Lines
    BY <1>1
  <2>2. /\ rest \in Seq(Lines)
        /\ Len(rest) = IF Chunk + 1 <= Len(m) THEN Len(m) - (Chunk + 1) + 1 ELSE 0
        /\ \A k \in 1 .. Len(m) - (Chunk + 1) + 1 : rest[k] = m[(Chunk + 1) + k - 1]
    BY <1>1, <2>1, SubSeqProperties
  <2> HIDE DEF rest
  <2>3. Len(m) - (Chunk + 1) + 1 = Len(m) - Chunk /\ Chunk + 1 <= Len(m)
        /\ \A k \in 1 .. Len(m) - Chunk : (Chunk + 1) + k - 1 = k + Chunk
    BY <1>1
  <2> QED
    BY <2>2, <2>3
<1>3. p = IF IsHeader(m[Chunk + 1]) THEN rest ELSE <<m[h]>> \o rest
  <2>1. ~(Len(m) <= Chunk)
    BY <1>1
  <2> QED
    BY ONLY <2>1, Zenon DEF PopFront
<1> HIDE DEF rest, p
<1>4. CASE IsHeader(m[Chunk + 1])
  BY <1>2, <1>3, <1>4 DEF p
<1>5. CASE ~IsHeader(m[Chunk + 1])
  <2>1. HeadersIn(m) # {} /\ HeadersIn(m) \subseteq 1 .. Chunk
    BY <1>5 DEF PopFrontDefined, HeadersIn
  <2>2. h \in HeadersIn(m)
    BY <1>1, <2>1, MaxOfIndices
  <2> HIDE DEF h
  <2>3. h \in 1 .. Len(m) /\ m[h] \in Lines
    BY <1>1, <2>1, <2>2
  <2> DEFINE one == <<m[h]>>
  <2>4. one \in Seq(Lines) /\ Len(one) = 1 /\ one[1] = m[h]
    BY <2>3
  <2> HIDE DEF one
  <2>5. /\ one \o rest \in Seq(Lines) /\ Len(one \o rest) = 1 + Len(rest)
        /\ \A k \in 1 .. 1 + Len(rest) :
              (one \o rest)[k] = IF k <= 1 THEN one[k] ELSE rest[k - 1]
    <3>1. rest \in Seq(Lines)
      BY <1>2
    <3>2. /\ one \o rest \in Seq(Lines) /\ Len(one \o rest) = Len(one) + Len(rest)
          /\ \A k \in 1 .. Len(one) + Len(rest) :
                (one \o rest)[k] = IF k <= Len(one) THEN one[k] ELSE rest[k - Len(one)]
      BY ONLY <2>4, <3>1, ConcatProperties, Zenon
    <3> QED
      BY ONLY <2>4, <3>2, Zenon
  <2>6. p = one \o rest
    BY <1>3, <1>5 DEF one
  <2>7. /\ p \in Seq(Lines) /\ Len(p) = 1 + Len(rest)
        /\ \A k \in 1 .. 1 + Len(rest) : p[k] = IF k <= 1 THEN one[k] ELSE rest[k - 1]
    BY ONLY <2>5, <2>6, Zenon
  <2>8. Len(p) = Len(m) - Chunk + 1 /\ p[1] = m[h]
        /\ \A k \in 1 .. Len(m) - Chunk : p[k + 1] = m[k + Chunk]
    <3>1. 1 \in 1 .. 1 + Len(rest) /\ Len(p) = Len(m) - Chunk + 1
      BY <1>1, <1>2, <2>7
    <3>2. p[1] = m[h]
      BY <2>4, <2>7, <3>1
    <3>3. ASSUME NEW k \in 1 .. Len(m) - Chunk PROVE p[k + 1] = m[k + Chunk]
      <4>1. k + 1 \in 1 .. 1 + Len(rest) /\ ~(k + 1 <= 1) /\ (k + 1) - 1 = k
        BY <1>1, <1>2
      <4>2. p[k + 1] = rest[(k + 1) - 1]
        BY ONLY <2>7, <4>1, Zenon
      <4> QED
        BY ONLY <1>2, <4>1, <4>2, k \in 1 .. Len(m) - Chunk
    <3> QED
      BY <3>1, <3>2, <3>3
  <2> QED
    BY <1>5, <2>2, <2>7, <2>8 DEF p, h
<1> QED
  BY <1>4, <1>5

LEMMA PopFrontKeeps ==
    ASSUME NEW m \in Seq(Lines), PopFrontDefined(m), InOrder(m), NEW p, p = PopFront(m)
    PROVE  /\ p \in Seq(Lines) /\ InOrder(p)
           /\ \A k \in 1 .. Len(p) :
                 IsHeader(p[k]) \/ \E j \in 1 .. Len(m) : j > Chunk /\ p[k] = m[j]
           /\ \A j \in 1 .. Len(m) : j > Chunk => \E k \in 1 .. Len(p) : p[k] = m[j]
<1>1. Len(m) \in Nat /\ Chunk \in Nat \ {0} /\ Paired(m) /\ Closed(m) /\ Distinct(m)
  BY LenProperties, ChunkAssumption DEF InOrder
<1>2. CASE Len(m) <= Chunk
  <2>1. p = <<>> /\ Len(p) = 0
    BY <1>2, EmptySeq DEF PopFront
  <2> QED
    BY <1>1, <1>2, <2>1, EmptySeq DEF InOrder, Paired, Closed, Distinct
<1>3. ASSUME Len(m) > Chunk, p \in Seq(Lines), Len(p) = Len(m) - Chunk,
             \A k \in 1 .. Len(m) - Chunk : p[k] = m[k + Chunk]
      PROVE  /\ InOrder(p)
             /\ \A k \in 1 .. Len(p) : \E j \in 1 .. Len(m) : j > Chunk /\ p[k] = m[j]
             /\ \A j \in 1 .. Len(m) : j > Chunk => \E k \in 1 .. Len(p) : p[k] = m[j]
  <2>0. \A k \in 1 .. Len(p) : k + Chunk \in 1 .. Len(m) /\ p[k] = m[k + Chunk]
    BY <1>1, <1>3
  <2>1. Paired(p)
    <3> SUFFICES ASSUME NEW k \in 1 .. Len(p) - 1, IsHeader(p[k]) PROVE ~IsHeader(p[k + 1])
      BY DEF Paired
    <3>1. /\ k \in 1 .. Len(p) /\ k + 1 \in 1 .. Len(p) /\ (k + 1) + Chunk = (k + Chunk) + 1
          /\ k + Chunk \in 1 .. Len(m) - 1
      BY <1>1, <1>3
    <3>2. p[k] = m[k + Chunk] /\ p[k + 1] = m[(k + Chunk) + 1]
      BY <2>0, <3>1
    <3> QED
      BY ONLY <1>1, <3>1, <3>2, IsHeader(p[k]) DEF Paired
  <2>2. Closed(p)
    BY <1>1, <1>3 DEF Closed
  <2>3. Distinct(p)
    <3> SUFFICES ASSUME NEW j \in 1 .. Len(p), NEW k \in 1 .. Len(p), j # k, p[j].id = p[k].id
                 PROVE  p[j].id = 0
      BY DEF Distinct
    <3>1. j + Chunk # k + Chunk
      BY <1>1
    <3> QED
      BY <1>1, <2>0, <3>1 DEF Distinct
  <2>4. ASSUME NEW j \in 1 .. Len(m), j > Chunk PROVE \E k \in 1 .. Len(p) : p[k] = m[j]
    <3>1. j - Chunk \in 1 .. Len(p) /\ (j - Chunk) + Chunk = j
      BY <1>1, <1>3, <2>4
    <3> QED
      BY <2>0, <3>1
  <2>5. \A k \in 1 .. Len(p) : k + Chunk > Chunk
    BY <1>1, <1>3
  <2> QED
    BY <2>0, <2>1, <2>2, <2>3, <2>4, <2>5 DEF InOrder
<1>4. ASSUME Len(m) > Chunk, p \in Seq(Lines), Len(p) = Len(m) - Chunk + 1, IsHeader(p[1]),
             \A k \in 1 .. Len(m) - Chunk : p[k + 1] = m[k + Chunk], ~IsHeader(m[Chunk + 1])
      PROVE  /\ InOrder(p)
             /\ \A k \in 1 .. Len(p) :
                   IsHeader(p[k]) \/ \E j \in 1 .. Len(m) : j > Chunk /\ p[k] = m[j]
             /\ \A j \in 1 .. Len(m) : j > Chunk => \E k \in 1 .. Len(p) : p[k] = m[j]
  <2>0. \A k \in 2 .. Len(p) : k + Chunk - 1 \in 1 .. Len(m) /\ k + Chunk - 1 > Chunk
                               /\ p[k] = m[k + Chunk - 1]
    <3> SUFFICES ASSUME NEW k \in 2 .. Len(p)
                 PROVE  k + Chunk - 1 \in 1 .. Len(m) /\ k + Chunk - 1 > Chunk
                        /\ p[k] = m[k + Chunk - 1]
      OBVIOUS
    <3>1. k - 1 \in 1 .. Len(m) - Chunk /\ (k - 1) + 1 = k /\ (k - 1) + Chunk = k + Chunk - 1
          /\ k + Chunk - 1 \in 1 .. Len(m) /\ k + Chunk - 1 > Chunk
      BY <1>1, <1>4
    <3>2. p[(k - 1) + 1] = m[(k - 1) + Chunk]
      BY <1>4, <3>1
    <3> QED
      BY <3>1, <3>2
  <2>1. Paired(p)
    <3> SUFFICES ASSUME NEW k \in 1 .. Len(p) - 1, IsHeader(p[k]) PROVE ~IsHeader(p[k + 1])
      BY DEF Paired
    <3>1. CASE k = 1
      <4>1. 1 \in 1 .. Len(m) - Chunk /\ 1 + Chunk = Chunk + 1
        BY <1>1, <1>4
      <4> QED
        BY <1>4, <3>1, <4>1
    <3>2. CASE k # 1
      <4>1. /\ k \in 2 .. Len(p) /\ k + 1 \in 2 .. Len(p)
            /\ (k + 1) + Chunk - 1 = (k + Chunk - 1) + 1
            /\ k + Chunk - 1 \in 1 .. Len(m) - 1
        BY <1>1, <1>4, <3>2
      <4>2. p[k] = m[k + Chunk - 1] /\ p[k + 1] = m[(k + Chunk - 1) + 1]
        BY <2>0, <4>1
      <4> QED
        BY ONLY <1>1, <4>1, <4>2, IsHeader(p[k]) DEF Paired
    <3> QED
      BY <3>1, <3>2
  <2>2. Closed(p)
    <3>1. /\ Len(m) - Chunk \in 1 .. Len(m) - Chunk /\ (Len(m) - Chunk) + 1 = Len(p)
          /\ (Len(m) - Chunk) + Chunk = Len(m)
      BY <1>1, <1>4
    <3>2. p[(Len(m) - Chunk) + 1] = m[(Len(m) - Chunk) + Chunk]
      BY <1>4, <3>1
    <3> QED
      BY <1>1, <1>4, <3>1, <3>2 DEF Closed
  <2>3. Distinct(p)
    <3> SUFFICES ASSUME NEW j \in 1 .. Len(p), NEW k \in 1 .. Len(p), j # k, p[j].id = p[k].id
                 PROVE  p[j].id = 0
      BY DEF Distinct
    <3>1. CASE j = 1 \/ k = 1
      BY <1>4, <3>1 DEF IsHeader
    <3>2. CASE j # 1 /\ k # 1
      <4>1. /\ j \in 2 .. Len(p) /\ k \in 2 .. Len(p)
            /\ j + Chunk - 1 # k + Chunk - 1
        BY <1>1, <1>4, <3>2
      <4> QED
        BY <1>1, <2>0, <4>1 DEF Distinct
    <3> QED
      BY <3>1, <3>2
  <2>4. ASSUME NEW j \in 1 .. Len(m), j > Chunk PROVE \E k \in 1 .. Len(p) : p[k] = m[j]
    <3>1. /\ j - Chunk \in 1 .. Len(m) - Chunk /\ (j - Chunk) + Chunk = j
          /\ (j - Chunk) + 1 \in 1 .. Len(p)
      BY <1>1, <1>4, <2>4
    <3> QED
      BY <1>4, <3>1
  <2>5. \A k \in 1 .. Len(p) : k = 1 \/ k \in 2 .. Len(p)
    BY <1>1, <1>4
  <2> QED
    BY <1>4, <2>0, <2>1, <2>2, <2>3, <2>4, <2>5 DEF InOrder
<1>5. CASE Len(m) > Chunk
  <2>1. /\ p \in Seq(Lines)
        /\ \/ /\ Len(p) = Len(m) - Chunk
              /\ \A k \in 1 .. Len(m) - Chunk : p[k] = m[k + Chunk]
           \/ /\ Len(p) = Len(m) - Chunk + 1 /\ IsHeader(p[1])
              /\ \A k \in 1 .. Len(m) - Chunk : p[k + 1] = m[k + Chunk]
              /\ ~IsHeader(m[Chunk + 1])
    BY <1>5, PopFrontLines DEF HeadersIn
  <2> QED
    BY <1>3, <1>4, <1>5, <2>1
<1> QED
  BY <1>1, <1>2, <1>5

LEMMA Division ==
    ASSUME NEW v \in Nat, NEW K \in Nat \ {0}
    PROVE  /\ v \div K \in Nat /\ v % K \in 0 .. K - 1
           /\ v = K * (v \div K) + (v % K)
OBVIOUS

(* What front() is of the buffer, and what bsize() tells of it. *)
LEMMA FrontLines ==
    ASSUME NEW m \in Seq(Lines)
    PROVE  /\ Front(m) \in Seq(Lines) /\ Ids(Front(m)) \subseteq Ids(m)
           /\ Len(m) <= Chunk => Front(m) = m
           /\ Len(m) > Chunk =>
                 Len(Front(m)) = Chunk /\ \A k \in 1 .. Chunk : Front(m)[k] = m[k]
           /\ (BSize(m) <= 1) = (Len(m) <= Chunk)
<1> DEFINE f == SubSeq(m, 1, Chunk)
<1>1. /\ Len(m) \in Nat /\ Chunk \in Nat \ {0} /\ DOMAIN m = 1 .. Len(m)
      /\ \A k \in 1 .. Len(m) : m[k] \in Lines
  BY ChunkAssumption, LineTypes
<1>2. ASSUME Len(m) > Chunk
      PROVE  /\ Front(m) \in Seq(Lines) /\ Len(Front(m)) = Chunk
             /\ \A k \in 1 .. Chunk : Front(m)[k] = m[k]
  <2>1. \A k \in 1 .. Chunk : m[k] \in Lines
    BY <1>1, <1>2
  <2>2. /\ f \in Seq(Lines) /\ Len(f) = Chunk /\ \A k \in 1 .. Chunk : f[k] = m[k]
    BY <1>1, <2>1
  <2>3. Front(m) = f
    BY <1>1, <1>2 DEF Front
  <2> QED
    BY ONLY <2>2, <2>3, Zenon
<1>3. Len(m) <= Chunk => Front(m) = m
  BY DEF Front
<1>4. Ids(Front(m)) \subseteq Ids(m)
  <2>1. ASSUME Len(m) > Chunk PROVE Ids(Front(m)) \subseteq Ids(m)
    <3>1. DOMAIN Front(m) = 1 .. Chunk
      BY <1>1, <1>2, <2>1, LenProperties
    <3>2. \A k \in DOMAIN Front(m) : k \in DOMAIN m /\ Front(m)[k] = m[k]
      BY <1>1, <1>2, <2>1, <3>1
    <3> QED
      BY <3>2 DEF Ids
  <2> QED
    BY <1>1, <1>3, <2>1
<1>5. (BSize(m) <= 1) = (Len(m) <= Chunk)
  <2> DEFINE d == Len(m) \div Chunk
             e == Len(m) % Chunk
  <2>1. d \in Nat /\ e \in 0 .. Chunk - 1 /\ Len(m) = Chunk * d + e
    BY ONLY <1>1, Division
  <2>2. BSize(m) = d + (IF e = 0 THEN 0 ELSE 1)
    BY DEF BSize
  <2> HIDE DEF d, e
  <2>3. CASE d = 0
    BY <1>1, <2>1, <2>2, <2>3
  <2>4. CASE d = 1
    BY <1>1, <2>1, <2>2, <2>4
  <2>5. CASE d > 1
    <3>1. PICK n \in Nat : d = n + 2
      <4>1. d - 2 \in Nat /\ d = (d - 2) + 2
        BY <2>1, <2>5
      <4> QED
        BY <4>1
    <3>2. Chunk * d = Chunk * n + 2 * Chunk /\ Chunk * n \in Nat
      BY <1>1, <3>1
    <3> QED
      BY <1>1, <2>1, <2>2, <2>5, <3>2
  <2> QED
    BY <2>1, <2>3, <2>4, <2>5
<1> QED
  BY <1>1, <1>2, <1>3, <1>4, <1>5

LEMMA IdsAre ==
    ASSUME NEW m \in Seq(Lines), NEW i
    PROVE  i \in Ids(m) <=> i # 0 /\ \E k \in 1 .. Len(m) : m[k].id = i
BY LenProperties DEF Ids

(* The numbers of the messages: those that were taken from the queue. *)
BufferInv ==
    /\ IInv
    /\ InOrder(mcb)
    /\ Ids(mcb) \subseteq 1 .. taken /\ Ids(data) \subseteq 1 .. taken
    /\ Ids(aggre) \subseteq 1 .. taken /\ acked \subseteq 1 .. taken

(* The buffer after a message was taken from the queue. *)
LEMMA TakeNewsBuffer ==
    ASSUME BufferInv, TakeNews
    PROVE  /\ InOrder(mcb')
           /\ \A k \in 1 .. Len(mcb') :
                 \/ mcb'[k].id = taken' \/ IsHeader(mcb'[k])
                 \/ \E j \in 1 .. Len(mcb) : j >= k /\ mcb'[k] = mcb[j]
           /\ Ids(mcb) \subseteq Ids(mcb') =>
                 Len(mcb') >= Len(mcb) /\ \A k \in 1 .. Len(mcb) : mcb'[k] = mcb[k]
<1> DEFINE i == taken + 1
           news == sent[i]
           line == Line(news.xid, i)
           header == IF news.xid = current THEN <<>> ELSE <<Header(news.xid)>>
<1>1. /\ i \in 1 .. Len(sent) /\ i \in 1 .. MaxSend
      /\ news.xid \in Xids /\ news.buf \in BOOLEAN
      /\ cap \in Nat \ {0, 1} /\ mcb \in Seq(Lines) /\ taken \in Nat
  <2>1. Len(sent) \in Nat /\ i \in 1 .. Len(sent) /\ IInv
    BY LenProperties DEF BufferInv, IInv, TypeOK, TakeNews
  <2>2. news \in [xid : Xids, buf : Prios]
    BY <2>1, ElementOfSeq DEF IInv, TypeOK
  <2> QED
    BY <2>1, <2>2, ReporterAssumption DEF IInv, TypeOK
<1>2. taken' = i /\ mcb' = IF news.buf THEN Buffered(mcb, cap, header, line) ELSE mcb
  BY DEF TakeNews
<1>3. line \in Lines /\ line.id = i /\ i # 0 /\ i \notin 1 .. taken
  BY <1>1 DEF Lines, Line
<1>4. Header(news.xid) \in Lines /\ IsHeader(Header(news.xid))
  BY <1>1 DEF Lines, Header, IsHeader
<1>5. header = <<>> \/ \E h \in Lines : IsHeader(h) /\ header = <<h>>
  BY <1>4
<1>6. Len(mcb) \in Nat
  BY <1>1, LenProperties
<1> HIDE DEF line, header, i
<1>7. CASE ~news.buf
  BY <1>2, <1>6, <1>7 DEF BufferInv
<1>8. CASE news.buf
  <2>1. mcb' = Buffered(mcb, cap, header, line)
    BY <1>2, <1>8
  <2>2. line.id # 0 /\ line.id \notin Ids(mcb) /\ InOrder(mcb)
    BY <1>3 DEF BufferInv
  <2>3. /\ InOrder(mcb')
        /\ \A k \in 1 .. Len(mcb') :
              \/ mcb'[k] = line \/ IsHeader(mcb'[k])
              \/ \E j \in 1 .. Len(mcb) : j >= k /\ mcb'[k] = mcb[j]
        /\ Ids(mcb) \subseteq Ids(mcb') =>
              Len(mcb') >= Len(mcb) /\ \A k \in 1 .. Len(mcb) : mcb'[k] = mcb[k]
    BY <1>1, <1>3, <1>5, <2>1, <2>2, BufferedKeeps
  <2> QED
    BY <1>2, <1>3, <2>3
<1> QED
  BY <1>1, <1>7, <1>8

LEMMA BufferInit == Init => BufferInv
<1> SUFFICES ASSUME Init PROVE BufferInv
  OBVIOUS
<1>1. mcb = <<>> /\ data = <<>> /\ aggre = <<>> /\ acked = {} /\ Len(<<>>) = 0
      /\ DOMAIN <<>> = {}
  BY EmptySeq DEF Init
<1>2. InOrder(mcb)
  BY <1>1 DEF InOrder, Paired, Closed, Distinct
<1>3. Ids(<<>>) = {}
  BY DEF Ids
<1> QED
  BY <1>1, <1>2, <1>3, IInvInit DEF BufferInv

LEMMA BufferNext == ASSUME BufferInv, [Next]_vars PROVE BufferInv'
<1>1. IInv /\ IInv'
  BY IInvNext DEF BufferInv
<1>2. /\ mcb \in Seq(Lines) /\ data \in Seq(Lines) /\ aggre \in Seq(Lines)
      /\ taken \in Nat
  BY <1>1, LenProperties DEF IInv, TypeOK
<1>3. CASE UNCHANGED <<taken, mcb, data, aggre, acked>>
  BY <1>1, <1>3 DEF BufferInv
<1>4. CASE Prefetch
  <2>1. /\ data' = Front(mcb) /\ aggre' = <<>> /\ UNCHANGED <<taken, mcb, acked>>
    BY <1>4 DEF Prefetch
  <2>2. Ids(<<>>) = {}
    BY DEF Ids
  <2> QED
    BY <1>1, <1>2, <2>1, <2>2, FrontLines DEF BufferInv
<1>5. CASE TakeNews
  <2>1. taken' = taken + 1 /\ UNCHANGED <<data, acked>>
    BY <1>5 DEF TakeNews
  <2>2. Ids(aggre') = Ids(aggre) \cup {taken'} /\ Ids(mcb') \subseteq Ids(mcb) \cup {taken'}
    BY <1>1, <1>5, TakeNewsFacts
  <2>3. 1 .. taken \subseteq 1 .. taken' /\ taken' \in 1 .. taken'
    BY <1>2, <2>1
  <2> QED
    BY <1>1, <1>5, <2>1, <2>2, <2>3, TakeNewsBuffer DEF BufferInv
<1>6. CASE EndAggregate
  <2>1. data' = Request /\ UNCHANGED <<taken, mcb, aggre, acked>>
    BY <1>6 DEF EndAggregate
  <2>2. Ids(Request) \subseteq Ids(data) \cup Ids(aggre)
    BY <1>2, IdsConcat DEF Request
  <2> QED
    BY <1>1, <2>1, <2>2 DEF BufferInv
<1>7. CASE PostOk
  <2>1. acked' = acked \cup Ids(data) /\ UNCHANGED <<taken, data, aggre>> /\ Success
    BY <1>7 DEF PostOk
  <2>2. CASE mcb' = <<>>
    <3>1. Ids(<<>>) = {} /\ Len(<<>>) = 0
      BY DEF Ids
    <3>2. InOrder(<<>>)
      BY <3>1 DEF InOrder, Paired, Closed, Distinct
    <3> QED
      BY <1>1, <2>1, <2>2, <3>1, <3>2 DEF BufferInv
  <2>3. CASE PopFrontDefined(mcb) /\ mcb' = PopFront(mcb)
    <3>1. /\ mcb' \in Seq(Lines) /\ InOrder(mcb')
          /\ \A k \in 1 .. Len(mcb') :
                IsHeader(mcb'[k]) \/ \E j \in 1 .. Len(mcb) : j > Chunk /\ mcb'[k] = mcb[j]
      BY <1>2, <2>3, PopFrontKeeps DEF BufferInv
    <3>2. Ids(mcb') \subseteq Ids(mcb)
      <4> SUFFICES ASSUME NEW i \in Ids(mcb') PROVE i \in Ids(mcb)
        OBVIOUS
      <4>1. PICK k \in 1 .. Len(mcb') : mcb'[k].id = i
        BY <3>1, IdsAre
      <4>2. i # 0
        BY <3>1, IdsAre
      <4>3. PICK j \in 1 .. Len(mcb) : mcb'[k] = mcb[j]
        BY <3>1, <4>1, <4>2 DEF IsHeader
      <4> QED
        BY <1>2, <4>1, <4>2, <4>3, IdsAre
    <3> QED
      BY <1>1, <2>1, <3>1, <3>2 DEF BufferInv
  <2>4. CASE mcb' = mcb
    BY <1>1, <2>1, <2>4 DEF BufferInv
  <2> QED
    BY <2>1, <2>2, <2>3, <2>4 DEF Success
<1> QED
  BY <1>3, <1>4, <1>5, <1>6, <1>7
     DEF Next, Agent, Reporter, Send, SetSleeping, SetCapacity, PostFails, vars

-----------------------------------------------------------------------------
(***************************************************************************)
(* What was answered is not sent again                                     *)
(***************************************************************************)

(* While a chunk is being sent, what it holds is in the first Chunk lines  *)
(* of the buffer or was evicted: eviction moves lines to the front, and    *)
(* what is new comes behind.                                               *)
ResendInv ==
    /\ BufferInv
    /\ pc # "undefined" => acked \cap Ids(mcb) = {}
    /\ pc \in {"aggregate", "send"} /\ bsize > 1 =>
          \A k \in 1 .. Len(mcb) : k > Chunk => IsHeader(mcb[k]) \/ mcb[k].id \notin Ids(data)

LEMMA ResendInit == Init => ResendInv
<1> SUFFICES ASSUME Init PROVE ResendInv
  OBVIOUS
<1>1. acked = {} /\ pc = "prefetch"
  BY DEF Init
<1> QED
  BY <1>1, BufferInit DEF ResendInv

LEMMA ResendNext == ASSUME ResendInv, [Next]_vars PROVE ResendInv'
<1>1. BufferInv /\ BufferInv' /\ IInv
  BY BufferNext DEF ResendInv, BufferInv
<1>2. /\ mcb \in Seq(Lines) /\ data \in Seq(Lines) /\ aggre \in Seq(Lines)
      /\ taken \in Nat /\ Len(mcb) \in Nat /\ Chunk \in Nat /\ bsize \in Nat
      /\ pc \in {"prefetch", "aggregate", "send", "undefined"}
  BY <1>1, LenProperties, ChunkAssumption DEF IInv, TypeOK
<1>3. CASE UNCHANGED <<mcb, data, acked, bsize>> /\ (pc' = pc \/ pc' = "prefetch") /\ pc # "undefined"
  BY <1>1, <1>3 DEF ResendInv
<1>4. CASE UNCHANGED <<mcb, data, acked, bsize, pc>>
  BY <1>1, <1>4 DEF ResendInv
<1>5. CASE Prefetch
  <2>1. /\ bsize' = BSize(mcb) /\ data' = Front(mcb) /\ UNCHANGED <<mcb, acked>>
        /\ pc = "prefetch" /\ pc' = "aggregate"
    BY <1>5 DEF Prefetch
  <2>2. ASSUME bsize' > 1, NEW k \in 1 .. Len(mcb), k > Chunk, ~IsHeader(mcb[k])
        PROVE  mcb[k].id \notin Ids(data')
    <3>1. BSize(mcb) \in Nat /\ ~(BSize(mcb) <= 1)
      BY <1>2, <2>1, <2>2, FrontType, ChunkAssumption
    <3>2. Len(mcb) > Chunk
      BY <1>2, <3>1, FrontLines
    <3>3. /\ data' \in Seq(Lines) /\ Len(data') = Chunk
          /\ \A j \in 1 .. Chunk : data'[j] = mcb[j]
      BY <1>2, <2>1, <3>2, FrontLines
    <3>4. Distinct(mcb)
      BY <1>1 DEF BufferInv, InOrder
    <3>5. \A j \in 1 .. Chunk : data'[j].id # mcb[k].id
      BY <1>2, <2>2, <3>2, <3>3, <3>4 DEF Distinct, IsHeader
    <3> QED
      BY <3>3, <3>5, IdsAre
  <2> QED
    BY <1>1, <2>1, <2>2 DEF ResendInv
<1>6. CASE TakeNews
  <2>1. /\ taken' = taken + 1 /\ UNCHANGED <<data, acked, bsize, pc>> /\ pc = "aggregate"
    BY <1>6 DEF TakeNews
  <2>2. Ids(mcb') \subseteq Ids(mcb) \cup {taken'} /\ mcb' \in Seq(Lines)
    BY <1>1, <1>6, TakeNewsFacts
  <2>3. taken' \notin acked /\ taken' \notin Ids(data)
    BY <1>1, <1>2, <2>1 DEF BufferInv
  <2>4. acked' \cap Ids(mcb') = {}
    BY <2>1, <2>2, <2>3 DEF ResendInv
  <2>5. ASSUME bsize > 1, NEW k \in 1 .. Len(mcb'), k > Chunk, ~IsHeader(mcb'[k])
        PROVE  mcb'[k].id \notin Ids(data)
    <3>1. CASE mcb'[k].id = taken'
      BY <2>3, <3>1
    <3>2. ASSUME NEW j \in 1 .. Len(mcb), j >= k, mcb'[k] = mcb[j]
          PROVE  mcb'[k].id \notin Ids(data)
      <4>1. j > Chunk
        <5>1. k \in Nat
          BY <2>2, LenProperties
        <5> QED
          BY <1>2, <2>5, <3>2, <5>1
      <4> QED
        BY <2>1, <2>5, <3>2, <4>1 DEF ResendInv
    <3> QED
      BY <1>1, <1>6, <2>5, <3>1, <3>2, TakeNewsBuffer
  <2> QED
    BY <1>1, <2>1, <2>4, <2>5 DEF ResendInv
<1>7. CASE EndAggregate
  <2>1. /\ data' = Request /\ UNCHANGED <<mcb, acked, bsize>> /\ pc = "aggregate"
        /\ pc' \in {"prefetch", "send"}
    BY <1>7 DEF EndAggregate
  <2>2. bsize > 1 => data' = data
    BY <1>2, <2>1 DEF Request
  <2> QED
    BY <1>1, <2>1, <2>2 DEF ResendInv
<1>8. CASE PostOk
  <2>1. acked' = acked \cup Ids(data) /\ Success /\ pc = "send"
    BY <1>8 DEF PostOk
  <2>2. CASE mcb' = <<>> /\ pc' = "prefetch"
    <3>1. Ids(<<>>) = {}
      BY DEF Ids
    <3> QED
      BY <1>1, <2>2, <3>1 DEF ResendInv
  <2>3. CASE bsize > 1 /\ PopFrontDefined(mcb) /\ mcb' = PopFront(mcb) /\ pc' = "prefetch"
    <3>1. /\ mcb' \in Seq(Lines)
          /\ \A k \in 1 .. Len(mcb') :
                IsHeader(mcb'[k]) \/ \E j \in 1 .. Len(mcb) : j > Chunk /\ mcb'[k] = mcb[j]
      BY <1>1, <1>2, <2>3, PopFrontKeeps DEF BufferInv
    <3>2. \A k \in 1 .. Len(mcb') : ~IsHeader(mcb'[k]) =>
              mcb'[k].id \in Ids(mcb) /\ mcb'[k].id \notin Ids(data)
      <4> SUFFICES ASSUME NEW k \in 1 .. Len(mcb'), ~IsHeader(mcb'[k])
                   PROVE  mcb'[k].id \in Ids(mcb) /\ mcb'[k].id \notin Ids(data)
        OBVIOUS
      <4>1. PICK j \in 1 .. Len(mcb) : j > Chunk /\ mcb'[k] = mcb[j]
        BY <3>1
      <4>2. mcb[j].id # 0
        BY <4>1 DEF IsHeader
      <4> QED
        BY <1>2, <2>1, <2>3, <4>1, <4>2, IdsAre DEF ResendInv
    <3>3. \A i \in Ids(mcb') : i \in Ids(mcb) /\ i \notin Ids(data)
      BY <3>1, <3>2, IdsAre DEF IsHeader
    <3> QED
      BY <1>1, <2>1, <2>3, <3>3 DEF ResendInv
  <2>4. CASE pc' = "undefined"
    BY <1>1, <2>4 DEF ResendInv
  <2> QED
    BY <2>1, <2>2, <2>3, <2>4 DEF Success
<1> QED
  BY <1>3, <1>4, <1>5, <1>6, <1>7, <1>8
     DEF Next, Agent, Reporter, Send, SetSleeping, SetCapacity, PostFails, vars

(* A message whose post was answered is not sent again, for any buffer and *)
(* whatever is evicted while its chunk is sent (src/srreporter.cc 756-801).*)
THEOREM NothingIsSentAgain == Spec => []NoResendAfterAck
<1>2. ResendInv /\ [Next]_vars => ResendInv'
  BY ResendNext
<1>3. ResendInv => NoResendAfterAck
  BY DEF ResendInv, NoResendAfterAck
<1> QED
  BY ResendInit, <1>2, <1>3, PTL DEF Spec

-----------------------------------------------------------------------------
(***************************************************************************)
(* Nothing is lost before something is evicted                             *)
(***************************************************************************)

(* While a chunk is being sent, all of the buffer is in the request, or    *)
(* the first Chunk lines are, unless one was evicted: eviction takes a     *)
(* message whenever it takes a line.                                       *)
LossInv ==
    /\ BufferInv
    /\ LosesNothingUntilFull
    /\ pc = "aggregate" /\ bsize <= 1 => Ids(mcb) \subseteq Ids(data) \cup Ids(aggre)
    /\ pc = "send" /\ bsize <= 1 => Ids(mcb) \subseteq Ids(data)
    /\ pc \in {"aggregate", "send"} /\ bsize > 1 /\ evicted = {} =>
          /\ Len(mcb) > Chunk
          /\ \A k \in 1 .. Chunk : IsHeader(mcb[k]) \/ mcb[k].id \in Ids(data)

LEMMA LossInit == Init => LossInv
<1> SUFFICES ASSUME Init PROVE LossInv
  OBVIOUS
<1>1. taken = 0 /\ pc = "prefetch"
  BY DEF Init
<1> QED
  BY <1>1, BufferInit DEF LossInv, LosesNothingUntilFull, LostOnlyByEviction

LEMMA LossNext == ASSUME LossInv, [Next]_vars PROVE LossInv'
<1>1. BufferInv /\ BufferInv' /\ IInv
  BY BufferNext DEF LossInv, BufferInv
<1>2. /\ mcb \in Seq(Lines) /\ data \in Seq(Lines) /\ aggre \in Seq(Lines)
      /\ taken \in 0 .. Len(sent) /\ Len(mcb) \in Nat /\ Chunk \in Nat \ {0} /\ bsize \in Nat
      /\ Len(sent) \in Nat /\ sent \in Seq([xid : Xids, buf : Prios])
  BY <1>1, LenProperties, ChunkAssumption DEF IInv, TypeOK
<1> USE DEF LossInv, LosesNothingUntilFull, LostOnlyByEviction, DeliveredIds
<1>3. CASE UNCHANGED <<sent, taken, mcb, data, aggre, delivered, evicted, bsize, pc>>
  BY <1>1, <1>3
<1>4. ASSUME NEW x \in Xids, NEW buf \in Prios, Send(x, buf) PROVE LossInv'
  <2> DEFINE news == [xid |-> x, buf |-> buf]
  <2>1. sent' = Append(sent, news) /\ news \in [xid : Xids, buf : Prios]
    BY <1>4 DEF Send
  <2> HIDE DEF news
  <2>2. \A i \in 1 .. taken : sent'[i] = sent[i]
    BY <1>2, <2>1, AppendProperties
  <2> QED
    BY <1>1, <1>4, <2>2 DEF Send
<1>5. CASE Prefetch
  <2>1. /\ bsize' = BSize(mcb) /\ data' = Front(mcb)
        /\ UNCHANGED <<sent, taken, mcb, delivered, evicted>>
        /\ pc = "prefetch" /\ pc' = "aggregate"
    BY <1>5 DEF Prefetch, agentVars
  <2>2. /\ BSize(mcb) \in Nat /\ (BSize(mcb) <= 1) = (Len(mcb) <= Chunk)
        /\ Len(mcb) <= Chunk => Front(mcb) = mcb
        /\ Front(mcb) \in Seq(Lines)
        /\ Len(mcb) > Chunk =>
              Len(Front(mcb)) = Chunk /\ \A k \in 1 .. Chunk : Front(mcb)[k] = mcb[k]
    BY <1>2, FrontLines, FrontType, ChunkAssumption
  <2>3. CASE BSize(mcb) <= 1
    BY <1>1, <2>1, <2>2, <2>3
  <2>4. CASE BSize(mcb) > 1
    <3>1. Len(mcb) > Chunk
      BY <1>2, <2>2, <2>4
    <3>2. ASSUME NEW k \in 1 .. Chunk, ~IsHeader(mcb[k]) PROVE mcb[k].id \in Ids(data')
      BY <2>1, <2>2, <3>1, <3>2, IdsAre DEF IsHeader
    <3> QED
      BY <1>1, <2>1, <2>2, <2>4, <3>1, <3>2
  <2> QED
    BY <2>2, <2>3, <2>4
<1>6. CASE TakeNews
  <2>1. /\ taken' = taken + 1 /\ UNCHANGED <<sent, data, bsize, pc, delivered>>
        /\ pc = "aggregate"
    BY <1>6 DEF TakeNews, agentVars
  <2>2. /\ Ids(mcb') \subseteq Ids(mcb) \cup {taken'} /\ mcb' \in Seq(Lines)
        /\ Ids(aggre') = Ids(aggre) \cup {taken'}
        /\ sent[taken'].buf => taken' \in Ids(mcb')
        /\ evicted' = evicted \cup (Ids(mcb) \ Ids(mcb'))
    BY <1>1, <1>6, TakeNewsFacts
  <2>3. LosesNothingUntilFull'
    <3> SUFFICES ASSUME evicted' = {}, NEW i \in 1 .. taken', sent[i].buf
                 PROVE  i \in Ids(mcb') \cup DeliveredIds
      BY <2>1
    <3>1. evicted = {} /\ Ids(mcb) \subseteq Ids(mcb')
      BY <2>2
    <3>2. i = taken' \/ i \in 1 .. taken
      BY <1>2, <2>1
    <3> QED
      BY <2>2, <3>1, <3>2
  <2>4. ASSUME bsize > 1, evicted' = {}
        PROVE  /\ Len(mcb') > Chunk
               /\ \A k \in 1 .. Chunk : IsHeader(mcb'[k]) \/ mcb'[k].id \in Ids(data)
    <3>1. evicted = {} /\ Ids(mcb) \subseteq Ids(mcb')
      BY <2>2, <2>4
    <3>2. Len(mcb') >= Len(mcb) /\ \A k \in 1 .. Len(mcb) : mcb'[k] = mcb[k]
      BY <1>1, <1>6, <3>1, TakeNewsBuffer
    <3>3. /\ Len(mcb) > Chunk
          /\ \A k \in 1 .. Chunk : IsHeader(mcb[k]) \/ mcb[k].id \in Ids(data)
      BY <2>1, <2>4, <3>1
    <3>4. Len(mcb') \in Nat /\ \A k \in 1 .. Chunk : k \in 1 .. Len(mcb)
      BY <1>2, <2>2, <3>3, LenProperties
    <3>5. Len(mcb') > Chunk
      BY <1>2, <3>2, <3>3, <3>4
    <3>6. \A k \in 1 .. Chunk : mcb'[k] = mcb[k]
      BY ONLY <3>2, <3>4
    <3> QED
      BY ONLY <3>3, <3>5, <3>6
  <2> QED
    BY <1>1, <2>1, <2>2, <2>3, <2>4
<1>7. CASE EndAggregate
  <2>1. /\ data' = Request /\ UNCHANGED <<sent, taken, mcb, bsize, delivered, evicted>>
        /\ pc = "aggregate" /\ pc' \in {"prefetch", "send"}
    BY <1>7 DEF EndAggregate, agentVars
  <2>2. CASE bsize <= 1
    <3>1. Ids(data') = Ids(data) \cup Ids(aggre)
      BY <1>2, <2>1, <2>2, IdsConcat DEF Request
    <3> QED
      BY <1>1, <1>2, <2>1, <2>2, <3>1
  <2>3. CASE bsize > 1
    <3>1. data' = data
      BY <1>2, <2>1, <2>3 DEF Request
    <3> QED
      BY <1>1, <1>2, <2>1, <2>3, <3>1
  <2> QED
    BY <1>2, <2>2, <2>3
<1>8. CASE PostOk
  <2>1. Success /\ pc = "send" /\ UNCHANGED <<sent, taken, evicted, bsize>>
        /\ pc' \in {"prefetch", "undefined"}
    BY <1>8 DEF PostOk, agentVars, Success
  <2>2. DeliveredIds' = DeliveredIds \cup Ids(data)
    <3>1. delivered' = delivered \cup Read(data)
      BY <1>8 DEF PostOk
    <3>2. {d[1] : d \in Read(data)} = Ids(data)
      BY <1>2, ReadType
    <3> QED
      BY <3>1, <3>2
  <2>3. evicted = {} => Ids(mcb) \subseteq Ids(mcb') \cup Ids(data)
    <3>1. CASE bsize <= 1
      BY <2>1, <3>1
    <3>2. CASE mcb' = mcb
      BY <3>2
    <3>3. CASE bsize > 1 /\ PopFrontDefined(mcb) /\ mcb' = PopFront(mcb)
      <4> SUFFICES ASSUME evicted = {}, NEW i \in Ids(mcb), i \notin Ids(data)
                   PROVE  i \in Ids(mcb')
        OBVIOUS
      <4>1. PICK j \in 1 .. Len(mcb) : mcb[j].id = i
        BY <1>2, IdsAre
      <4>2. i # 0
        BY <1>2, IdsAre
      <4>3. j > Chunk
        <5>1. \A k \in 1 .. Chunk : IsHeader(mcb[k]) \/ mcb[k].id \in Ids(data)
          BY <2>1, <3>3
        <5>2. j \notin 1 .. Chunk
          BY <4>1, <4>2, <5>1 DEF IsHeader
        <5> QED
          BY <1>2, <5>2
      <4>4. mcb' \in Seq(Lines) /\ \E k \in 1 .. Len(mcb') : mcb'[k] = mcb[j]
        BY <1>1, <1>2, <3>3, <4>3, PopFrontKeeps DEF BufferInv
      <4> QED
        BY <4>1, <4>2, <4>4, IdsAre
    <3> QED
      BY <1>2, <2>1, <3>1, <3>2, <3>3 DEF Success
  <2>4. LosesNothingUntilFull'
    <3> SUFFICES ASSUME evicted = {}, NEW i \in 1 .. taken, sent[i].buf
                 PROVE  i \in Ids(mcb') \cup DeliveredIds'
      BY <2>1
    <3>1. i \in Ids(mcb) \cup DeliveredIds
      OBVIOUS
    <3> QED
      BY ONLY <2>2, <2>3, <3>1, evicted = {}
  <2> QED
    BY <1>1, <2>1, <2>4
<1>9. CASE PostFails
  <2>1. DeliveredIds \subseteq DeliveredIds'
    BY <1>9 DEF PostFails
  <2>2. UNCHANGED <<sent, taken, mcb, bsize, data, aggre, evicted>>
        /\ pc = "send" /\ pc' \in {"prefetch", "send"}
    BY <1>9 DEF PostFails, agentVars
  <2> QED
    BY <1>1, <2>1, <2>2
<1> QED
  BY <1>3, <1>4, <1>5, <1>6, <1>7, <1>8, <1>9
     DEF Next, Agent, Reporter, SetSleeping, SetCapacity, vars

(* A buffer of any number of chunks that never had to push a message out   *)
(* has lost none, whatever the network did and however its capacity        *)
(* changed (src/srreporter.cc 756-801).                                    *)
THEOREM NothingIsLostUntilFull == Spec => []LosesNothingUntilFull
<1>2. LossInv /\ [Next]_vars => LossInv'
  BY LossNext
<1>3. LossInv => LosesNothingUntilFull
  BY DEF LossInv
<1> QED
  BY LossInit, <1>2, <1>3, PTL DEF Spec

-----------------------------------------------------------------------------
(***************************************************************************)
(* Templates: the lines are read with the header before them               *)
(***************************************************************************)

Induction == INSTANCE SeqInduction

(* The lines begin with a header, and a message has the template of the    *)
(* line before it.                                                         *)
Good(s) ==
    /\ Len(s) > 0 => IsHeader(s[1])
    /\ \A k \in 2 .. Len(s) : IsHeader(s[k]) \/ s[k].xid = s[k - 1].xid

LEMMA GoodEmpty == Good(<<>>)
<1>1. Len(<<>>) = 0
  BY EmptySeq
<1> QED
  BY <1>1 DEF Good

(* What follows a header has its template up to the next header.           *)
LEMMA SameSinceHeader ==
    ASSUME NEW m \in Seq(Lines), Good(m), NEW h \in 1 .. Len(m), NEW n \in h .. Len(m),
           \A k \in h + 1 .. n : ~IsHeader(m[k])
    PROVE  m[n].xid = m[h].xid
<1> DEFINE T == {d \in Nat : h + d <= n => m[h + d].xid = m[h].xid}
<1>1. Len(m) \in Nat /\ h \in Nat /\ n \in Nat /\ h <= n
  BY LenProperties
<1>2. 0 \in T
  BY <1>1
<1>3. ASSUME NEW d \in Nat, d \in T PROVE d + 1 \in T
  <2> SUFFICES ASSUME h + (d + 1) <= n PROVE m[h + (d + 1)].xid = m[h].xid
    OBVIOUS
  <2>1. /\ h + (d + 1) \in 2 .. Len(m) /\ h + (d + 1) \in h + 1 .. n
        /\ (h + (d + 1)) - 1 = h + d /\ h + d <= n
    BY <1>1
  <2>2. m[h + (d + 1)].xid = m[(h + (d + 1)) - 1].xid
    BY ONLY <2>1, Good(m), \A k \in h + 1 .. n : ~IsHeader(m[k]) DEF Good
  <2>3. m[h + d].xid = m[h].xid
    BY <1>3, <2>1
  <2> QED
    BY ONLY <2>1, <2>2, <2>3
<1> HIDE DEF T
<1>4. Nat \subseteq T
  BY <1>2, <1>3, Induction!SetInduction
<1>5. n - h \in T /\ h + (n - h) = n
  BY <1>1, <1>4
<1> QED
  BY <1>5 DEF T

(* The server reads a line with the template it has.                       *)
LEMMA TemplateOfLine ==
    ASSUME NEW m \in Seq(Lines), Good(m), NEW k \in 1 .. Len(m)
    PROVE  Template(m, k) = m[k].xid
<1> DEFINE H == {j \in 1 .. k : IsHeader(m[j])}
<1>1. Len(m) \in Nat /\ k \in Nat
  BY LenProperties
<1>2. 1 \in H
  BY <1>1 DEF Good
<1>3. Max(H) \in H /\ \A j \in H : Max(H) >= j
  BY <1>1, <1>2, MaxOfIndices
<1>4. Template(m, k) = m[Max(H)].xid
  BY <1>2, Zenon DEF Template
<1> DEFINE h == Max(H)
<1>5. h \in 1 .. Len(m) /\ k \in h .. Len(m)
  BY <1>1, <1>3
<1>6. \A j \in h + 1 .. k : ~IsHeader(m[j])
  <2> SUFFICES ASSUME NEW j \in h + 1 .. k, IsHeader(m[j]) PROVE FALSE
    OBVIOUS
  <2>1. h \in Nat
    BY <1>5
  <2> HIDE DEF h
  <2>2. j \in 1 .. k /\ ~(h >= j)
    BY ONLY <1>1, <1>5, <2>1, j \in h + 1 .. k
  <2>3. j \in H
    BY <2>2
  <2>4. h >= j
    BY <1>3, <2>3 DEF h
  <2> QED
    BY <2>2, <2>4
<1> HIDE DEF h
<1>7. m[k].xid = m[h].xid
  BY ONLY <1>5, <1>6, SameSinceHeader, Good(m), m \in Seq(Lines)
<1> QED
  BY <1>4, <1>7 DEF h

LEMMA GoodAppend ==
    ASSUME NEW m \in Seq(Lines), Good(m), NEW e \in Lines,
           IsHeader(e) \/ (Len(m) > 0 /\ m[Len(m)].xid = e.xid)
    PROVE  Good(Append(m, e))
<1> DEFINE a == Append(m, e)
<1>1. /\ Len(a) = Len(m) + 1 /\ a[Len(m) + 1] = e /\ Len(m) \in Nat
      /\ \A k \in 1 .. Len(m) : a[k] = m[k]
  BY AppendedLine, LenProperties
<1> HIDE DEF a
<1>2. IsHeader(a[1])
  <2>1. CASE Len(m) = 0
    BY <1>1, <2>1
  <2>2. CASE Len(m) > 0
    BY <1>1, <2>2 DEF Good
  <2> QED
    BY <1>1, <2>1, <2>2
<1>3. ASSUME NEW k \in 2 .. Len(a) PROVE IsHeader(a[k]) \/ a[k].xid = a[k - 1].xid
  <2>1. k \in 2 .. Len(m) \/ k = Len(m) + 1
    BY <1>1
  <2>2. CASE k \in 2 .. Len(m)
    <3>1. a[k] = m[k] /\ a[k - 1] = m[k - 1]
      BY <1>1, <2>2
    <3> QED
      BY <2>2, <3>1 DEF Good
  <2>3. CASE k = Len(m) + 1
    <3>1. a[k] = e /\ k - 1 = Len(m) /\ (Len(m) > 0 => a[k - 1] = m[Len(m)])
      BY <1>1, <2>3
    <3> QED
      BY <3>1
  <2> QED
    BY <2>1, <2>2, <2>3
<1>4. Good(a)
  BY <1>2, <1>3 DEF Good
<1> QED
  BY <1>4 DEF a

LEMMA GoodConcat ==
    ASSUME NEW s \in Seq(Lines), NEW t \in Seq(Lines), Good(s), Good(t)
    PROVE  Good(s \o t)
<1> DEFINE c == s \o t
<1>1. /\ Len(c) = Len(s) + Len(t) /\ Len(s) \in Nat /\ Len(t) \in Nat
      /\ \A k \in 1 .. Len(s) + Len(t) :
            c[k] = IF k <= Len(s) THEN s[k] ELSE t[k - Len(s)]
  BY ConcatProperties, LenProperties
<1> HIDE DEF c
<1>2. \A k \in 1 .. Len(s) : c[k] = s[k]
  BY <1>1
<1>3. \A k \in 1 .. Len(t) : c[Len(s) + k] = t[k]
  <2> SUFFICES ASSUME NEW k \in 1 .. Len(t) PROVE c[Len(s) + k] = t[k]
    OBVIOUS
  <2>1. /\ Len(s) + k \in 1 .. Len(s) + Len(t) /\ ~(Len(s) + k <= Len(s))
        /\ (Len(s) + k) - Len(s) = k
    BY <1>1
  <2> QED
    BY ONLY <1>1, <2>1, Zenon
<1>4. Len(c) > 0 => IsHeader(c[1])
  <2>1. CASE Len(s) > 0
    BY <1>1, <1>2, <2>1 DEF Good
  <2>2. CASE Len(s) = 0 /\ Len(t) > 0
    <3>1. 1 \in 1 .. Len(t) /\ Len(s) + 1 = 1
      BY <1>1, <2>2
    <3>2. c[Len(s) + 1] = t[1]
      BY ONLY <1>3, <3>1
    <3>3. c[1] = t[1]
      BY ONLY <3>1, <3>2
    <3> QED
      BY <2>2, <3>3 DEF Good
  <2> QED
    BY <1>1, <2>1, <2>2
<1>5. ASSUME NEW k \in 2 .. Len(c) PROVE IsHeader(c[k]) \/ c[k].xid = c[k - 1].xid
  <2>1. CASE k <= Len(s)
    <3>1. k \in 2 .. Len(s) /\ k \in 1 .. Len(s) /\ k - 1 \in 1 .. Len(s)
      BY <1>1, <2>1
    <3> QED
      BY <1>2, <3>1 DEF Good
  <2>2. CASE k = Len(s) + 1
    <3>1. 1 \in 1 .. Len(t) /\ Len(t) > 0
      BY <1>1, <2>2
    <3>2. c[k] = t[1]
      BY <1>3, <2>2, <3>1
    <3> QED
      BY <3>1, <3>2 DEF Good
  <2>3. CASE k > Len(s) + 1
    <3> DEFINE j == k - Len(s)
    <3>1. /\ j \in 2 .. Len(t) /\ j \in 1 .. Len(t) /\ j - 1 \in 1 .. Len(t)
          /\ Len(s) + j = k /\ Len(s) + (j - 1) = k - 1
      BY <1>1, <2>3
    <3> HIDE DEF j
    <3>2. c[Len(s) + j] = t[j] /\ c[Len(s) + (j - 1)] = t[j - 1]
      BY ONLY <1>3, <3>1
    <3>3. IsHeader(t[j]) \/ t[j].xid = t[j - 1].xid
      BY ONLY <3>1, Good(t) DEF Good
    <3> QED
      BY ONLY <3>1, <3>2, <3>3
  <2> QED
    BY <1>1, <2>1, <2>2, <2>3
<1>6. Good(c)
  BY <1>4, <1>5 DEF Good
<1> QED
  BY <1>6 DEF c

LEMMA GoodFront ==
    ASSUME NEW m \in Seq(Lines), Good(m)
    PROVE  Good(Front(m))
<1>1. Len(m) \in Nat /\ Chunk \in Nat \ {0}
  BY LenProperties, ChunkAssumption
<1>2. CASE Len(m) <= Chunk
  BY <1>2, FrontLines
<1>3. CASE Len(m) > Chunk
  <2>1. Len(Front(m)) = Chunk /\ \A k \in 1 .. Chunk : Front(m)[k] = m[k]
    BY <1>3, FrontLines
  <2>2. Front(m)[1] = m[1] /\ Len(m) > 0
    BY <1>1, <1>3, <2>1
  <2>3. ASSUME NEW k \in 2 .. Chunk
        PROVE  IsHeader(Front(m)[k]) \/ Front(m)[k].xid = Front(m)[k - 1].xid
    <3>1. k \in 1 .. Chunk /\ k - 1 \in 1 .. Chunk /\ k \in 2 .. Len(m)
      BY <1>1, <1>3
    <3> QED
      BY ONLY <2>1, <3>1, Good(m) DEF Good
  <2> QED
    BY <2>1, <2>2, <2>3 DEF Good
<1> QED
  BY <1>1, <1>2, <1>3

(* The backward search of pop_front() finds the header of the line that    *)
(* comes first in the next chunk (src/srreporter.cc 411-424).              *)
LEMMA GoodPopFront ==
    ASSUME NEW m \in Seq(Lines), Good(m)
    PROVE  /\ PopFrontDefined(m) /\ PopFront(m) \in Seq(Lines) /\ Good(PopFront(m))
           /\ \A k \in 1 .. Len(PopFront(m)) : \E j \in 1 .. Len(m) : PopFront(m)[k] = m[j]
<1> DEFINE p == PopFront(m)
           h == Max(HeadersIn(m))
<1>1. Len(m) \in Nat /\ Chunk \in Nat \ {0}
  BY LenProperties, ChunkAssumption
<1>2. CASE Len(m) <= Chunk
  <2>1. p = <<>> /\ PopFrontDefined(m) /\ Len(<<>>) = 0 /\ <<>> \in Seq(Lines)
    BY <1>1, <1>2, EmptySeq DEF PopFront, PopFrontDefined
  <2> QED
    BY <2>1, GoodEmpty
<1>3. CASE Len(m) > Chunk
  <2>1. 1 \in HeadersIn(m) /\ HeadersIn(m) \subseteq 1 .. Chunk
    BY <1>1, <1>3 DEF Good, HeadersIn
  <2>2. PopFrontDefined(m)
    BY <2>1 DEF PopFrontDefined
  <2>3. h \in HeadersIn(m) /\ \A j \in HeadersIn(m) : h >= j
    BY <1>1, <2>1, MaxOfIndices
  <2>4. h \in 1 .. Chunk /\ IsHeader(m[h])
    BY <2>1, <2>3 DEF HeadersIn
  <2> DEFINE n == Len(m) - Chunk
  <2>5. n \in Nat /\ n > 0
    BY <1>1, <1>3
  <2>6. /\ p \in Seq(Lines)
        /\ \/ /\ Len(p) = n /\ \A k \in 1 .. n : p[k] = m[k + Chunk]
              /\ IsHeader(m[Chunk + 1])
           \/ /\ Len(p) = n + 1 /\ p[1] = m[h]
              /\ \A k \in 1 .. n : p[k + 1] = m[k + Chunk]
              /\ ~IsHeader(m[Chunk + 1])
    BY <1>3, <2>2, PopFrontLines
  <2> HIDE DEF p
  <2>7. ASSUME NEW k \in 2 .. n
        PROVE  IsHeader(m[k + Chunk]) \/ m[k + Chunk].xid = m[(k - 1) + Chunk].xid
    <3>1. k + Chunk \in 2 .. Len(m) /\ (k + Chunk) - 1 = (k - 1) + Chunk
      BY <1>1, <2>5
    <3>2. IsHeader(m[k + Chunk]) \/ m[k + Chunk].xid = m[(k + Chunk) - 1].xid
      BY ONLY <3>1, Good(m) DEF Good
    <3> QED
      BY ONLY <3>1, <3>2
  <2>8. \A k \in 1 .. n : k + Chunk \in 1 .. Len(m)
    BY <1>1, <2>5
  <2>9. CASE /\ Len(p) = n /\ \A k \in 1 .. n : p[k] = m[k + Chunk]
             /\ IsHeader(m[Chunk + 1])
    <3>1. IsHeader(p[1])
      <4>1. 1 \in 1 .. n /\ 1 + Chunk = Chunk + 1
        BY <1>1, <2>5
      <4>2. p[1] = m[1 + Chunk]
        BY ONLY <2>9, <4>1
      <4> QED
        BY <2>9, <4>1, <4>2
    <3>2. ASSUME NEW k \in 2 .. n PROVE IsHeader(p[k]) \/ p[k].xid = p[k - 1].xid
      <4>1. k \in 1 .. n /\ k - 1 \in 1 .. n
        BY <2>5
      <4>2. p[k] = m[k + Chunk] /\ p[k - 1] = m[(k - 1) + Chunk]
        BY ONLY <2>9, <4>1
      <4> QED
        BY <2>7, <4>2
    <3>3. Good(p)
      BY <2>9, <3>1, <3>2 DEF Good
    <3>4. \A k \in 1 .. Len(p) : \E j \in 1 .. Len(m) : p[k] = m[j]
      BY ONLY <2>8, <2>9
    <3> QED
      BY <2>2, <2>6, <3>3, <3>4 DEF p
  <2>10. CASE /\ Len(p) = n + 1 /\ p[1] = m[h]
              /\ \A k \in 1 .. n : p[k + 1] = m[k + Chunk]
              /\ ~IsHeader(m[Chunk + 1])
    <3>1. m[Chunk + 1].xid = m[h].xid
      <4>1. h \in 1 .. Len(m) /\ Chunk + 1 \in h .. Len(m)
        BY <1>1, <1>3, <2>4
      <4>2. ASSUME NEW k \in h + 1 .. Chunk + 1, IsHeader(m[k]) PROVE FALSE
        <5>1. h \in Nat
          BY <2>4
        <5>2. k = Chunk + 1 \/ (k \in 1 .. Chunk /\ ~(h >= k))
          <6> HIDE DEF h
          <6> QED
            BY ONLY <1>1, <5>1, k \in h + 1 .. Chunk + 1
        <5>3. k \in HeadersIn(m)
          BY <2>10, <4>2, <5>2 DEF HeadersIn
        <5>4. h >= k
          BY <2>3, <5>3
        <5> QED
          BY <2>10, <4>2, <5>2, <5>4
      <4> HIDE DEF h
      <4> QED
        BY ONLY <4>1, <4>2, SameSinceHeader, Good(m), m \in Seq(Lines)
    <3>2. ASSUME NEW k \in 2 .. n + 1 PROVE IsHeader(p[k]) \/ p[k].xid = p[k - 1].xid
      <4> DEFINE j == k - 1
      <4>1. j \in 1 .. n /\ j + 1 = k
        BY <2>5
      <4>2. p[k] = m[j + Chunk]
        BY ONLY <2>10, <4>1
      <4>3. CASE j = 1
        <5>1. 1 + Chunk = Chunk + 1
          BY <1>1
        <5> QED
          BY ONLY <2>10, <3>1, <4>1, <4>2, <4>3, <5>1
      <4>4. CASE j # 1
        <5>1. j \in 2 .. n /\ j - 1 \in 1 .. n /\ (j - 1) + 1 = j
          BY <2>5, <4>1, <4>4
        <5>2. p[j] = m[(j - 1) + Chunk]
          BY ONLY <2>10, <5>1
        <5> QED
          BY <2>7, <4>2, <5>1, <5>2
      <4> QED
        BY <4>3, <4>4
    <3>3. Good(p)
      BY <2>4, <2>10, <3>2 DEF Good
    <3>4. ASSUME NEW k \in 1 .. Len(p) PROVE \E j \in 1 .. Len(m) : p[k] = m[j]
      <4>1. CASE k = 1
        <5>1. h \in 1 .. Len(m)
          BY <1>1, <1>3, <2>4
        <5> QED
          BY <2>10, <4>1, <5>1
      <4>2. CASE k # 1
        <5>1. k - 1 \in 1 .. n /\ (k - 1) + 1 = k
          BY <2>5, <2>10, <4>2
        <5>2. p[k] = m[(k - 1) + Chunk]
          BY ONLY <2>10, <5>1
        <5> QED
          BY ONLY <2>8, <5>1, <5>2
      <4> QED
        BY <4>1, <4>2
    <3> QED
      BY <2>2, <2>6, <3>3, <3>4 DEF p
  <2> QED
    BY <2>6, <2>9, <2>10
<1> QED
  BY <1>1, <1>2, <1>3

(* Eviction leaves a header in front, unless the capacity is 2.            *)
LEMMA GoodMakeRoom ==
    ASSUME NEW m \in Seq(Lines), NEW c \in Nat, c >= 3, Good(m), Paired(m)
    PROVE  /\ MakeRoom(m, c) \in Seq(Lines) /\ Good(MakeRoom(m, c))
           /\ Len(m) > 0 =>
                 /\ Len(MakeRoom(m, c)) > 0
                 /\ MakeRoom(m, c)[Len(MakeRoom(m, c))] = m[Len(m)]
<1> DEFINE r == MakeRoom(m, c)
<1>1. Len(m) \in Nat /\ c \in Nat \ {0, 1}
  BY LenProperties
<1>2. CASE Len(m) < c
  BY <1>2, Zenon DEF MakeRoom
<1>3. CASE Len(m) >= c
  <2>1. Len(m) >= 3 /\ IsHeader(m[1])
    BY <1>1, <1>3 DEF Good
  <2>2. /\ r \in Seq(Lines)
        /\ \/ ~IsHeader(m[3]) /\ Without2(m, r)
           \/ IsHeader(m[3]) /\ WithoutBoth(m, r)
    BY <1>1, <1>3, <2>1, MakeRoomLines
  <2> HIDE DEF r
  <2>3. CASE ~IsHeader(m[3]) /\ Without2(m, r)
    <3>1. Len(r) = Len(m) - 1 /\ r[1] = m[1] /\ \A k \in 2 .. Len(r) : r[k] = m[k + 1]
      <4>1. Len(r) = Len(m) - 1 /\ \A k \in 1 .. Len(r) : r[k] = m[IF k = 1 THEN 1 ELSE k + 1]
        BY <2>3 DEF Without2
      <4> QED
        BY <1>1, <2>1, <4>1
    <3>2. r[2] = m[3] /\ m[3].xid = m[1].xid
      <4>1. 1 \in 1 .. Len(m) /\ 3 \in 1 .. Len(m) /\ 1 \in 1 .. Len(m) - 1
        BY <1>1, <2>1
      <4>2. ~IsHeader(m[2])
        BY <2>1, <4>1 DEF Paired
      <4>3. \A k \in 1 + 1 .. 3 : ~IsHeader(m[k])
        BY <2>3, <4>2
      <4>4. m[3].xid = m[1].xid
        <5>1. 3 \in 1 .. Len(m)
          BY <4>1
        <5> QED
          BY ONLY <4>1, <4>3, <5>1, SameSinceHeader, Good(m), m \in Seq(Lines)
      <4>5. 2 \in 2 .. Len(r)
        BY <1>1, <2>1, <3>1
      <4> QED
        BY <3>1, <4>4, <4>5
    <3>3. ASSUME NEW k \in 3 .. Len(r) PROVE IsHeader(r[k]) \/ r[k].xid = r[k - 1].xid
      <4>1. /\ k \in 2 .. Len(r) /\ k - 1 \in 2 .. Len(r)
            /\ k + 1 \in 2 .. Len(m) /\ (k + 1) - 1 = (k - 1) + 1
        BY <1>1, <3>1
      <4>2. r[k] = m[k + 1] /\ r[k - 1] = m[(k - 1) + 1]
        BY ONLY <3>1, <4>1
      <4>3. IsHeader(m[k + 1]) \/ m[k + 1].xid = m[(k + 1) - 1].xid
        BY ONLY <4>1, Good(m) DEF Good
      <4> QED
        BY ONLY <4>1, <4>2, <4>3
    <3>4. \A k \in 2 .. Len(r) : k = 2 \/ k \in 3 .. Len(r)
      BY <1>1, <3>1
    <3>5. \A k \in 2 .. Len(r) : IsHeader(r[k]) \/ r[k].xid = r[k - 1].xid
      <4> SUFFICES ASSUME NEW k \in 2 .. Len(r)
                   PROVE  IsHeader(r[k]) \/ r[k].xid = r[k - 1].xid
        OBVIOUS
      <4>1. CASE k = 2
        BY <3>1, <3>2, <4>1
      <4> QED
        BY <3>3, <3>4, <4>1
    <3>6. Len(r) > 0 /\ r[Len(r)] = m[Len(m)]
      <4>1. Len(r) \in 2 .. Len(r) /\ Len(r) + 1 = Len(m) /\ Len(r) > 0
        BY <1>1, <2>1, <3>1
      <4>2. r[Len(r)] = m[Len(r) + 1]
        BY ONLY <3>1, <4>1
      <4> QED
        BY <4>1, <4>2
    <3>7. Good(r)
      BY <2>1, <3>1, <3>5 DEF Good
    <3> QED
      BY <2>2, <3>6, <3>7 DEF r
  <2>4. CASE IsHeader(m[3]) /\ WithoutBoth(m, r)
    <3>1. Len(r) = Len(m) - 2 /\ \A k \in 1 .. Len(r) : r[k] = m[k + 2]
      BY <2>4 DEF WithoutBoth
    <3>2. r[1] = m[3]
      BY <1>1, <2>1, <3>1
    <3>3. ASSUME NEW k \in 2 .. Len(r) PROVE IsHeader(r[k]) \/ r[k].xid = r[k - 1].xid
      <4>1. /\ k \in 1 .. Len(r) /\ k - 1 \in 1 .. Len(r)
            /\ k + 2 \in 2 .. Len(m) /\ (k + 2) - 1 = (k - 1) + 2
        BY <1>1, <3>1
      <4>2. r[k] = m[k + 2] /\ r[k - 1] = m[(k - 1) + 2]
        BY ONLY <3>1, <4>1
      <4>3. IsHeader(m[k + 2]) \/ m[k + 2].xid = m[(k + 2) - 1].xid
        BY ONLY <4>1, Good(m) DEF Good
      <4> QED
        BY ONLY <4>1, <4>2, <4>3
    <3>4. Good(r)
      BY <2>4, <3>2, <3>3 DEF Good
    <3>5. Len(r) > 0 /\ r[Len(r)] = m[Len(m)]
      <4>1. Len(r) \in 1 .. Len(r) /\ Len(r) + 2 = Len(m) /\ Len(r) > 0
        BY <1>1, <2>1, <3>1
      <4>2. r[Len(r)] = m[Len(r) + 2]
        BY ONLY <3>1, <4>1
      <4> QED
        BY <4>1, <4>2
    <3> QED
      BY <2>2, <3>4, <3>5 DEF r
  <2> QED
    BY <2>2, <2>3, <2>4
<1> QED
  BY <1>1, <1>2, <1>3

(* A message added with the header it needs leaves the buffer good.        *)
LEMMA GoodEmplace ==
    ASSUME NEW m \in Seq(Lines), NEW c \in Nat, c >= 3, Good(m), Paired(m), NEW e \in Lines,
           IsHeader(e) \/ (Len(m) > 0 /\ m[Len(m)].xid = e.xid)
    PROVE  /\ EmplaceBack(m, c, e) \in Seq(Lines) /\ Good(EmplaceBack(m, c, e))
           /\ Len(EmplaceBack(m, c, e)) > 0
           /\ EmplaceBack(m, c, e)[Len(EmplaceBack(m, c, e))] = e
<1> DEFINE r == MakeRoom(m, c)
<1>1. /\ r \in Seq(Lines) /\ Good(r)
      /\ Len(m) > 0 => Len(r) > 0 /\ r[Len(r)] = m[Len(m)]
  BY GoodMakeRoom
<1> HIDE DEF r
<1>2. IsHeader(e) \/ (Len(r) > 0 /\ r[Len(r)].xid = e.xid)
  BY <1>1
<1>3. Good(Append(r, e))
  BY <1>1, <1>2, GoodAppend
<1>4. /\ Append(r, e) \in Seq(Lines) /\ Len(Append(r, e)) = Len(r) + 1
      /\ Append(r, e)[Len(r) + 1] = e /\ Len(r) \in Nat
  BY <1>1, AppendedLine, LenProperties
<1>5. EmplaceBack(m, c, e) = Append(r, e)
  BY DEF EmplaceBack, r
<1>6. Len(Append(r, e)) > 0 /\ Append(r, e)[Len(Append(r, e))] = e
  BY <1>4
<1> QED
  BY ONLY <1>3, <1>4, <1>5, <1>6, Zenon

LEMMA GoodBuffered ==
    ASSUME NEW m \in Seq(Lines), NEW c \in Nat, c >= 3, Good(m), InOrder(m),
           NEW x \in Xids, NEW line \in Lines, line.xid = x,
           NEW header, NEW b, b = Buffered(m, c, header, line),
           \/ header = <<Header(x)>> /\ Header(x) \in Lines
           \/ header = <<>> /\ Len(m) > 0 /\ m[Len(m)].xid = x
    PROVE  b \in Seq(Lines) /\ Good(b) /\ Len(b) > 0 /\ b[Len(b)] = line
<1> DEFINE h == Header(x)
           a == EmplaceBack(m, c, h)
<1>1. CASE header = <<>> /\ Len(m) > 0 /\ m[Len(m)].xid = x
  <2>1. b = EmplaceBack(m, c, line)
    BY <1>1 DEF Buffered
  <2> QED
    BY <1>1, <2>1, GoodEmplace DEF InOrder
<1>2. CASE header = <<h>> /\ h \in Lines
  <2>1. b = EmplaceBack(a, c, line)
    BY <1>2 DEF Buffered
  <2>2. IsHeader(h) /\ h.xid = x
    BY DEF IsHeader, Header
  <2> HIDE DEF h
  <2>3. a \in Seq(Lines) /\ Good(a) /\ Len(a) > 0 /\ a[Len(a)] = h
    BY <1>2, <2>2, GoodEmplace DEF InOrder
  <2>4. Paired(a)
    <3> DEFINE r == MakeRoom(m, c)
    <3>1. r \in Seq(Lines) /\ Paired(r) /\ Closed(r)
      BY MakeRoomKeeps DEF InOrder
    <3> HIDE DEF r
    <3>2. /\ Len(Append(r, h)) = Len(r) + 1 /\ Len(r) \in Nat
          /\ \A k \in 1 .. Len(r) : Append(r, h)[k] = r[k]
      BY <1>2, <3>1, AppendedLine, LenProperties
    <3>3. ASSUME NEW k \in 1 .. Len(r), IsHeader(r[k])
          PROVE  k + 1 \in 1 .. Len(r) /\ ~IsHeader(r[k + 1])
      <4>1. k # Len(r)
        BY <3>1, <3>2, <3>3 DEF Closed
      <4>2. k \in 1 .. Len(r) - 1 /\ k + 1 \in 1 .. Len(r)
        BY <3>2, <4>1
      <4> QED
        BY <3>1, <3>3, <4>2 DEF Paired
    <3>4. \A k \in 1 .. Len(r) + 1 - 1 : k \in 1 .. Len(r)
      BY <3>2
    <3>5. Paired(Append(r, h))
      BY ONLY <3>2, <3>3, <3>4 DEF Paired
    <3>6. a = Append(r, h)
      BY DEF EmplaceBack, r
    <3> QED
      BY ONLY <3>5, <3>6, Zenon
  <2> HIDE DEF a
  <2>5. a[Len(a)].xid = line.xid
    BY <2>2, <2>3
  <2> QED
    BY <2>1, <2>3, <2>4, <2>5, GoodEmplace
<1> QED
  BY <1>1, <1>2

(* The lines with the template their message was written for. *)
RightLines ==
    {l \in Lines : IsHeader(l) \/ (l.id \in 1 .. taken /\ l.xid = sent[l.id].xid)}

Right(s) == \A k \in 1 .. Len(s) : s[k] \in RightLines

(* The hypothesis: every message is buffered, and the buffer holds two     *)
(* messages under a header.  A message that is not buffered takes its      *)
(* header with it, so that the next one, which is, has none in the buffer; *)
(* and the eviction of the only message under a header takes the header.   *)
AllBuffered == Prios \subseteq {TRUE} /\ \A c \in Capacities : c >= 3

TemplateInv ==
    /\ BufferInv
    /\ Good(mcb) /\ Good(data) /\ Good(aggre)
    /\ Right(mcb) /\ Right(data) /\ Right(aggre)
    /\ IF Len(aggre) = 0 THEN current = NoXid ELSE aggre[Len(aggre)].xid = current
    /\ pc = "aggregate" /\ current # NoXid => Len(mcb) > 0 /\ mcb[Len(mcb)].xid = current
    /\ RightTemplate /\ HeaderFound
    /\ DeliveredIds \subseteq 1 .. taken

(* Right lines are read right. *)
LEMMA ReadRight ==
    ASSUME NEW m \in Seq(Lines), Good(m), Right(m)
    PROVE  \A d \in Read(m) : d[1] \in 1 .. taken /\ d[2] = sent[d[1]].xid
<1>1. DOMAIN m = 1 .. Len(m)
  BY LenProperties
<1> SUFFICES ASSUME NEW d \in Read(m)
             PROVE  d[1] \in 1 .. taken /\ d[2] = sent[d[1]].xid
  OBVIOUS
<1>2. PICK k \in 1 .. Len(m) : ~IsHeader(m[k]) /\ d = <<m[k].id, Template(m, k)>>
  BY <1>1 DEF Read
<1>3. Template(m, k) = m[k].xid
  BY TemplateOfLine
<1>4. m[k].id \in 1 .. taken /\ m[k].xid = sent[m[k].id].xid
  BY <1>2 DEF Right, RightLines
<1>5. d[1] = m[k].id /\ d[2] = m[k].xid
  BY <1>2, <1>3
<1> QED
  BY <1>4, <1>5

(* Whatever happens, right lines stay right. *)
LEMMA RightLinesStay ==
    ASSUME BufferInv, Next
    PROVE  /\ RightLines \subseteq RightLines'
           /\ \A i \in 1 .. taken : i \in 1 .. taken' /\ sent'[i] = sent[i]
<1>1. /\ sent \in Seq([xid : Xids, buf : Prios]) /\ Len(sent) \in Nat
      /\ taken \in 0 .. Len(sent)
  BY LenProperties DEF BufferInv, IInv, TypeOK
<1>2. \A i \in 1 .. taken : i \in 1 .. taken' /\ sent'[i] = sent[i]
  <2>1. ASSUME NEW x \in Xids, NEW buf \in Prios, Send(x, buf)
        PROVE  \A i \in 1 .. taken : i \in 1 .. taken' /\ sent'[i] = sent[i]
    <3> DEFINE news == [xid |-> x, buf |-> buf]
    <3>1. sent' = Append(sent, news) /\ news \in [xid : Xids, buf : Prios] /\ taken' = taken
      BY <2>1 DEF Send
    <3> HIDE DEF news
    <3> QED
      BY <1>1, <3>1, AppendProperties
  <2>2. CASE TakeNews
    <3>1. taken' = taken + 1 /\ sent' = sent
      BY <2>2 DEF TakeNews, agentVars
    <3> QED
      BY <1>1, <3>1
  <2>3. CASE UNCHANGED <<sent, taken>>
    BY <2>3
  <2> QED
    BY <2>1, <2>2, <2>3 DEF Next, Agent, Reporter, SetSleeping, SetCapacity,
       Prefetch, EndAggregate, PostOk, PostFails, agentVars
<1> QED
  BY <1>2 DEF RightLines

LEMMA TemplateInit == Init => TemplateInv
<1> SUFFICES ASSUME Init PROVE TemplateInv
  OBVIOUS
<1>1. /\ mcb = <<>> /\ data = <<>> /\ aggre = <<>> /\ current = NoXid
      /\ delivered = {} /\ pc = "prefetch" /\ Len(<<>>) = 0
  BY EmptySeq DEF Init
<1>2. Right(<<>>) /\ Good(<<>>)
  BY <1>1, GoodEmpty DEF Right
<1> QED
  BY <1>1, <1>2, BufferInit DEF TemplateInv, RightTemplate, HeaderFound, DeliveredIds

(* What the reporter takes from the queue. *)
LEMMA TakeNewsTemplate ==
    ASSUME AllBuffered, TemplateInv, TakeNews, RightLines \subseteq RightLines'
    PROVE  /\ Good(mcb)' /\ Right(mcb)'
           /\ Good(aggre)' /\ Right(aggre)'
           /\ Len(aggre') > 0 /\ aggre'[Len(aggre')].xid = current'
           /\ Len(mcb') > 0 /\ mcb'[Len(mcb')].xid = current'
<1> DEFINE i == taken + 1
           news == sent[i]
           line == Line(news.xid, i)
           head == Header(news.xid)
           header == IF news.xid = current THEN <<>> ELSE <<head>>
<1>1. /\ i \in 1 .. Len(sent) /\ i \in 1 .. MaxSend
      /\ news.xid \in Xids /\ news.buf = TRUE
      /\ cap \in Nat /\ cap >= 3
      /\ mcb \in Seq(Lines) /\ aggre \in Seq(Lines) /\ taken \in Nat
  <2>1. Len(sent) \in Nat /\ i \in 1 .. Len(sent) /\ IInv
    BY LenProperties DEF TemplateInv, BufferInv, IInv, TypeOK, TakeNews
  <2>2. news \in [xid : Xids, buf : Prios]
    BY <2>1, ElementOfSeq DEF IInv, TypeOK
  <2>3. news.xid \in Xids /\ news.buf \in Prios
    BY <2>2
  <2>4. news.buf = TRUE
    BY <2>3, Zenon DEF AllBuffered
  <2>5. cap \in Nat /\ cap >= 3
    BY <2>1, ReporterAssumption DEF IInv, TypeOK, AllBuffered
  <2>6. /\ mcb \in Seq(Lines) /\ aggre \in Seq(Lines) /\ taken \in Nat
        /\ i \in 1 .. MaxSend
    BY <2>1, ReporterAssumption DEF IInv, TypeOK
  <2> QED
    BY <2>1, <2>3, <2>4, <2>5, <2>6
<1>2. /\ taken' = i /\ sent' = sent /\ current' = news.xid
      /\ mcb' = Buffered(mcb, cap, header, line)
      /\ aggre' = aggre \o header \o <<line>> /\ pc = "aggregate"
  <2>1. /\ taken' = i /\ sent' = sent /\ current' = news.xid
        /\ mcb' = IF news.buf THEN Buffered(mcb, cap, header, line) ELSE mcb
        /\ aggre' = aggre \o header \o <<line>> /\ pc = "aggregate"
    BY DEF TakeNews, agentVars
  <2>2. news.buf
    BY <1>1, Zenon
  <2> QED
    BY <2>1, <2>2
<1>3. line \in Lines /\ line.id = i /\ line.xid = news.xid /\ ~IsHeader(line)
  BY <1>1 DEF Lines, Line, IsHeader
<1>4. head \in Lines /\ IsHeader(head) /\ head.xid = news.xid
  BY <1>1 DEF Lines, Header, IsHeader
<1>5. line \in RightLines' /\ head \in RightLines'
  <2>1. line.id \in 1 .. taken' /\ line.xid = sent'[line.id].xid
    BY <1>1, <1>2, <1>3
  <2> QED
    BY <1>3, <1>4, <2>1 DEF RightLines
<1>6. IF news.xid = current
      THEN /\ header = <<>> /\ Len(mcb) > 0 /\ mcb[Len(mcb)].xid = news.xid
           /\ Len(aggre) > 0 /\ aggre[Len(aggre)].xid = news.xid
      ELSE header = <<head>>
  <2>1. news.xid # NoXid
    BY <1>1, ReporterAssumption
  <2>2. aggre \in Seq(Lines) /\ Len(aggre) \in Nat
    BY <1>1, LenProperties
  <2> QED
    BY <1>2, <2>1, <2>2 DEF TemplateInv
<1>7. Good(mcb) /\ InOrder(mcb) /\ Good(aggre) /\ Right(mcb) /\ Right(aggre)
  BY DEF TemplateInv, BufferInv
<1> HIDE DEF line, header, i
<1>8. mcb' \in Seq(Lines) /\ Good(mcb)' /\ Len(mcb') > 0 /\ mcb'[Len(mcb')] = line
  BY ONLY <1>1, <1>2, <1>3, <1>4, <1>6, <1>7, GoodBuffered
<1>9. Right(mcb)'
  <2> HIDE DEF head
  <2>1. line \in Lines /\ line.id # 0 /\ line.id \notin Ids(mcb)
    BY <1>1, <1>3 DEF TemplateInv, BufferInv, i
  <2>2. header = <<>> \/ \E h \in Lines : IsHeader(h) /\ header = <<h>>
    BY <1>4, <1>6
  <2>3. cap \in Nat \ {0, 1} /\ mcb \in Seq(Lines)
    BY <1>1
  <2>4. \A k \in 1 .. Len(mcb') :
           \/ mcb'[k] = line \/ IsHeader(mcb'[k])
           \/ \E j \in 1 .. Len(mcb) : j >= k /\ mcb'[k] = mcb[j]
    <3>1. InOrder(mcb)
      BY <1>7
    <3>2. mcb' = Buffered(mcb, cap, header, line)
      BY <1>2
    <3>3. /\ mcb' \in Seq(Lines) /\ InOrder(mcb')
          /\ \A k \in 1 .. Len(mcb') :
                \/ mcb'[k] = line \/ IsHeader(mcb'[k])
                \/ \E j \in 1 .. Len(mcb) : j >= k /\ mcb'[k] = mcb[j]
          /\ Ids(mcb) \subseteq Ids(mcb') =>
                Len(mcb') >= Len(mcb) /\ \A k \in 1 .. Len(mcb) : mcb'[k] = mcb[k]
      BY ONLY <2>1, <2>2, <2>3, <3>1, <3>2, BufferedKeeps
    <3> QED
      BY ONLY <3>3, Zenon
  <2> SUFFICES ASSUME NEW k \in 1 .. Len(mcb') PROVE mcb'[k] \in RightLines'
    BY DEF Right
  <2>5. CASE mcb'[k] = line
    BY <1>5, <2>5
  <2>6. CASE IsHeader(mcb'[k])
    <3>1. mcb'[k] \in Lines
      BY <1>8, LineTypes
    <3> QED
      BY <2>6, <3>1 DEF RightLines
  <2>7. CASE \E j \in 1 .. Len(mcb) : j >= k /\ mcb'[k] = mcb[j]
    BY <1>7, <2>7 DEF Right
  <2> QED
    BY <2>4, <2>5, <2>6, <2>7
<1> DEFINE g == aggre \o header
<1>10. /\ g \in Seq(Lines) /\ Good(g) /\ Len(g) > 0 /\ g[Len(g)].xid = news.xid
       /\ \A k \in 1 .. Len(g) : g[k] \in RightLines'
  <2>1. CASE header = <<>> /\ Len(aggre) > 0 /\ aggre[Len(aggre)].xid = news.xid
    <3>1. g = aggre
      BY <1>1, <2>1, ConcatEmptySeq
    <3> HIDE DEF g
    <3> QED
      BY <1>1, <1>7, <2>1, <3>1 DEF Right
  <2>2. CASE header = <<head>>
    <3> HIDE DEF head
    <3>1. aggre \o <<head>> = Append(aggre, head)
      BY <1>1, <1>4
    <3>2. g = Append(aggre, head)
      BY <2>2, <3>1
    <3> HIDE DEF g
    <3>3. /\ Append(aggre, head) \in Seq(Lines)
          /\ Len(Append(aggre, head)) = Len(aggre) + 1
          /\ Append(aggre, head)[Len(aggre) + 1] = head
          /\ \A k \in 1 .. Len(aggre) : Append(aggre, head)[k] = aggre[k]
          /\ Len(aggre) \in Nat
      BY <1>1, <1>4, AppendedLine, LenProperties
    <3>4. Good(Append(aggre, head))
      BY <1>1, <1>4, <1>7, GoodAppend
    <3>5. \A k \in 1 .. Len(aggre) + 1 : k \in 1 .. Len(aggre) \/ k = Len(aggre) + 1
      BY <3>3
    <3>6. \A k \in 1 .. Len(g) : g[k] \in RightLines'
      BY ONLY <1>5, <1>7, <3>2, <3>3, <3>5, RightLines \subseteq RightLines' DEF Right
    <3>7. Len(g) > 0 /\ g[Len(g)] = head
      BY <3>2, <3>3
    <3> QED
      BY <1>4, <3>2, <3>3, <3>4, <3>6, <3>7
  <2> QED
    BY <1>6, <2>1, <2>2
<1>11. aggre' = Append(g, line)
  <2>1. aggre' = g \o <<line>>
    BY <1>2
  <2> HIDE DEF g
  <2>2. g \o <<line>> = Append(g, line)
    BY <1>3, <1>10
  <2> QED
    BY <2>1, <2>2
<1> HIDE DEF g
<1>12. Good(aggre)'
  <2>1. Good(Append(g, line))
    BY <1>3, <1>10, GoodAppend
  <2> QED
    BY <1>11, <2>1
<1>13. /\ Len(aggre') = Len(g) + 1 /\ aggre'[Len(g) + 1] = line /\ Len(g) \in Nat
       /\ \A k \in 1 .. Len(g) : aggre'[k] = g[k]
  BY <1>3, <1>10, <1>11, AppendedLine, LenProperties
<1>14. Right(aggre)'
  <2>1. \A k \in 1 .. Len(g) + 1 : k \in 1 .. Len(g) \/ k = Len(g) + 1
    BY <1>13
  <2> QED
    BY ONLY <1>5, <1>10, <1>13, <2>1 DEF Right
<1>15. Len(aggre') > 0 /\ aggre'[Len(aggre')].xid = current'
  BY <1>2, <1>3, <1>13
<1> QED
  BY <1>2, <1>3, <1>8, <1>9, <1>12, <1>14, <1>15

LEMMA TemplateNext == ASSUME AllBuffered, TemplateInv, [Next]_vars PROVE TemplateInv'
<1>1. CASE UNCHANGED vars
  <2>1. BufferInv'
    BY BufferNext DEF TemplateInv
  <2> QED
    BY <1>1, <2>1 DEF TemplateInv, Right, RightLines, RightTemplate, HeaderFound,
                      DeliveredIds, vars
<1>2. CASE Next
  <2>1. /\ BufferInv' /\ BufferInv /\ RightLines \subseteq RightLines'
        /\ \A i \in 1 .. taken : i \in 1 .. taken' /\ sent'[i] = sent[i]
    BY <1>2, BufferNext, RightLinesStay DEF TemplateInv
  <2>2. /\ mcb \in Seq(Lines) /\ data \in Seq(Lines) /\ aggre \in Seq(Lines)
        /\ mcb' \in Seq(Lines) /\ data' \in Seq(Lines) /\ aggre' \in Seq(Lines)
    BY <2>1 DEF BufferInv, IInv, TypeOK
  <2> DEFINE Same(s) == Good(s) /\ Right(s)
  <2>3. ASSUME delivered' = delivered PROVE RightTemplate' /\ (DeliveredIds \subseteq 1 .. taken)'
    BY <2>1, <2>3 DEF TemplateInv, RightTemplate, DeliveredIds
  <2>4. ASSUME \/ delivered' = delivered
               \/ /\ delivered' = delivered \cup Read(data)
                  /\ UNCHANGED <<sent, taken>>
        PROVE  RightTemplate' /\ (DeliveredIds \subseteq 1 .. taken)'
    <3>1. CASE delivered' = delivered \cup Read(data) /\ UNCHANGED <<sent, taken>>
      <4>1. \A d \in Read(data) : d[1] \in 1 .. taken /\ d[2] = sent[d[1]].xid
        BY <2>2, ReadRight DEF TemplateInv
      <4> QED
        BY <3>1, <4>1 DEF TemplateInv, RightTemplate, DeliveredIds
    <3> QED
      BY <2>3, <2>4, <3>1
  <2>5. (UNCHANGED mcb => (Good(mcb) /\ Right(mcb))')
        /\ (UNCHANGED data => (Good(data) /\ Right(data))')
        /\ (UNCHANGED aggre => (Good(aggre) /\ Right(aggre))')
    BY <2>1 DEF TemplateInv, Right
  <2>6. CASE UNCHANGED <<mcb, data, aggre, current, pc, delivered>>
    BY <2>1, <2>3, <2>5, <2>6 DEF TemplateInv, HeaderFound
  <2>7. CASE Prefetch
    <3>1. /\ data' = Front(mcb) /\ aggre' = <<>> /\ current' = NoXid /\ pc' = "aggregate"
          /\ UNCHANGED <<mcb, delivered>>
      BY <2>7 DEF Prefetch
    <3>2. Good(data)' /\ Good(aggre)' /\ Len(aggre') = 0
      BY <2>2, <3>1, GoodFront, GoodEmpty, EmptySeq DEF TemplateInv
    <3>3. Right(aggre)'
      BY <3>2 DEF Right
    <3>4. Right(data)'
      <4>1. Len(mcb) \in Nat /\ Chunk \in Nat
        BY <2>2, LenProperties, ChunkAssumption
      <4>2. CASE Len(mcb) <= Chunk
        <5>1. data' = mcb
          BY <2>2, <3>1, <4>2, FrontLines
        <5> QED
          BY <2>1, <5>1 DEF TemplateInv, Right
      <4>3. CASE Len(mcb) > Chunk
        <5>1. Len(data') = Chunk /\ \A k \in 1 .. Chunk : data'[k] = mcb[k]
          BY <2>2, <3>1, <4>3, FrontLines
        <5>2. \A k \in 1 .. Chunk : k \in 1 .. Len(mcb)
          BY <4>1, <4>3
        <5> QED
          BY <2>1, <5>1, <5>2 DEF TemplateInv, Right
      <4> QED
        BY <4>1, <4>2, <4>3
    <3> QED
      BY <2>1, <2>3, <2>5, <3>1, <3>2, <3>3, <3>4 DEF TemplateInv, HeaderFound
  <2>8. CASE TakeNews
    <3>1. UNCHANGED <<data, delivered, pc>>
      BY <2>8 DEF TakeNews
    <3>2. pc = "aggregate"
      BY <2>8 DEF TakeNews
    <3>3. /\ Good(mcb)' /\ Right(mcb)'
          /\ Good(aggre)' /\ Right(aggre)'
          /\ Len(aggre') > 0 /\ aggre'[Len(aggre')].xid = current'
          /\ Len(mcb') > 0 /\ mcb'[Len(mcb')].xid = current'
      BY <2>1, <2>8, TakeNewsTemplate
    <3> QED
      BY <2>1, <2>3, <2>5, <3>1, <3>2, <3>3 DEF TemplateInv, HeaderFound
  <2>9. CASE EndAggregate
    <3>1. /\ data' = Request /\ UNCHANGED <<mcb, aggre, current, delivered, sent, taken>>
          /\ pc' \in {"prefetch", "send"}
      BY <2>9 DEF EndAggregate, agentVars
    <3>2. (Good(data) /\ Right(data))'
      <4>1. CASE data' = data
        BY <2>5, <4>1
      <4>2. CASE data' = data \o aggre
        <5>1. Good(data \o aggre)
          BY <2>2, GoodConcat DEF TemplateInv
        <5>2. /\ Len(data') = Len(data) + Len(aggre) /\ Len(data) \in Nat /\ Len(aggre) \in Nat
              /\ \A k \in 1 .. Len(data) + Len(aggre) :
                    data'[k] = IF k <= Len(data) THEN data[k] ELSE aggre[k - Len(data)]
          BY <2>2, <4>2, ConcatProperties, LenProperties
        <5>3. ASSUME NEW k \in 1 .. Len(data') PROVE data'[k] \in RightLines'
          <6>1. CASE k <= Len(data)
            <7>1. k \in 1 .. Len(data) /\ data'[k] = data[k]
              BY <5>2, <6>1
            <7> QED
              BY <2>1, <7>1 DEF TemplateInv, Right
          <6>2. CASE k > Len(data)
            <7>1. k - Len(data) \in 1 .. Len(aggre) /\ data'[k] = aggre[k - Len(data)]
              BY <5>2, <6>2
            <7> QED
              BY <2>1, <7>1 DEF TemplateInv, Right
          <6> QED
            BY <5>2, <6>1, <6>2
        <5>4. Right(data)'
          BY <5>3 DEF Right
        <5> QED
          BY <4>2, <5>1, <5>4
      <4> QED
        BY <3>1, <4>1, <4>2 DEF Request
    <3> QED
      BY <2>1, <2>3, <2>5, <3>1, <3>2 DEF TemplateInv, HeaderFound
  <2>10. CASE PostOk
    <3>1. /\ delivered' = delivered \cup Read(data) /\ Success /\ pc = "send"
          /\ UNCHANGED <<sent, taken, data, aggre, current>>
      BY <2>10 DEF PostOk, agentVars
    <3>2. /\ PopFrontDefined(mcb) /\ Good(PopFront(mcb))
          /\ \A k \in 1 .. Len(PopFront(mcb)) :
                \E j \in 1 .. Len(mcb) : PopFront(mcb)[k] = mcb[j]
      BY <2>2, GoodPopFront DEF TemplateInv
    <3>3. pc' = "prefetch" /\ (mcb' = <<>> \/ mcb' = PopFront(mcb))
      BY <3>1, <3>2 DEF Success
    <3>4. (Good(mcb) /\ Right(mcb))'
      <4>1. CASE mcb' = <<>>
        <5>1. Len(mcb') = 0
          BY <4>1, EmptySeq
        <5> QED
          BY <4>1, <5>1, GoodEmpty DEF Right
      <4>2. CASE mcb' = PopFront(mcb)
        BY <2>1, <3>2, <4>2 DEF TemplateInv, Right
      <4> QED
        BY <3>3, <4>1, <4>2
    <3> QED
      BY <2>1, <2>4, <2>5, <3>1, <3>3, <3>4 DEF TemplateInv, HeaderFound
  <2>11. CASE PostFails
    <3>1. /\ delivered' \in {delivered, delivered \cup Read(data)} /\ pc' \in {"prefetch", "send"}
          /\ UNCHANGED <<sent, taken, mcb, data, aggre, current>>
      BY <2>11 DEF PostFails, agentVars
    <3> QED
      BY <2>1, <2>4, <2>5, <3>1 DEF TemplateInv, HeaderFound
  <2> QED
    BY <1>2, <2>6, <2>7, <2>8, <2>9, <2>10, <2>11
       DEF Next, Agent, Reporter, Send, SetSleeping, SetCapacity
<1> QED
  BY <1>1, <1>2

(* The server reads every message with the template it was written for,    *)
(* and pop_front() finds the header it looks for, through evictions, chunk *)
(* by chunk and when a post is repeated, as long as all messages are       *)
(* buffered and no capacity is below 3 (src/srreporter.cc 403-452,         *)
(* 547-606).                                                               *)
THEOREM TemplatesAreRight == AllBuffered => (Spec => [](RightTemplate /\ HeaderFound))
<1> SUFFICES ASSUME AllBuffered PROVE Spec => [](RightTemplate /\ HeaderFound)
  OBVIOUS
<1>1. TemplateInv /\ [Next]_vars => TemplateInv'
  BY TemplateNext
<1>2. TemplateInv => RightTemplate /\ HeaderFound
  BY DEF TemplateInv
<1> QED
  BY TemplateInit, <1>1, <1>2, PTL DEF Spec

-----------------------------------------------------------------------------
(***************************************************************************)
(* The order of first reading                                              *)
(***************************************************************************)

Sorted(m) ==
    \A j, k \in 1 .. Len(m) : j < k => IsHeader(m[j]) \/ IsHeader(m[k]) \/ m[j].id < m[k].id

LEMMA SortedMakeRoom ==
    ASSUME NEW m \in Seq(Lines), NEW c \in Nat \ {0, 1}, Sorted(m)
    PROVE  Sorted(MakeRoom(m, c))
<1> DEFINE r == MakeRoom(m, c)
<1>1. Len(m) \in Nat
  BY LenProperties
<1>2. CASE Len(m) < c
  BY <1>2, Zenon DEF MakeRoom
<1>3. CASE Len(m) >= c
  <2>1. /\ r \in Seq(Lines)
        /\ Without1(m, r) \/ (IsHeader(m[1]) /\ Without2(m, r)) \/ WithoutBoth(m, r)
    BY <1>3, MakeRoomLines
  <2>2. Len(r) \in Nat
    BY <2>1, LenProperties
  <2> HIDE DEF r
  <2> SUFFICES ASSUME NEW j \in 1 .. Len(r), NEW k \in 1 .. Len(r), j < k
               PROVE  IsHeader(r[j]) \/ IsHeader(r[k]) \/ r[j].id < r[k].id
    BY DEF Sorted, r
  <2>3. CASE Without1(m, r)
    <3>1. /\ j + 1 \in 1 .. Len(m) /\ k + 1 \in 1 .. Len(m) /\ j + 1 < k + 1
          /\ r[j] = m[j + 1] /\ r[k] = m[k + 1]
      BY <1>1, <2>2, <2>3 DEF Without1
    <3> QED
      BY ONLY <3>1, Sorted(m) DEF Sorted
  <2>4. CASE IsHeader(m[1]) /\ Without2(m, r)
    <3>1. /\ Len(r) = Len(m) - 1
          /\ r[j] = m[IF j = 1 THEN 1 ELSE j + 1] /\ r[k] = m[IF k = 1 THEN 1 ELSE k + 1]
      BY <2>4 DEF Without2
    <3>2. CASE j = 1
      BY <2>4, <3>1, <3>2
    <3>3. CASE j # 1
      <4>1. /\ j + 1 \in 1 .. Len(m) /\ k + 1 \in 1 .. Len(m) /\ j + 1 < k + 1
            /\ r[j] = m[j + 1] /\ r[k] = m[k + 1]
        BY <1>1, <2>2, <3>1, <3>3
      <4> QED
        BY ONLY <4>1, Sorted(m) DEF Sorted
    <3> QED
      BY <3>2, <3>3
  <2>5. CASE WithoutBoth(m, r)
    <3>1. /\ j + 2 \in 1 .. Len(m) /\ k + 2 \in 1 .. Len(m) /\ j + 2 < k + 2
          /\ r[j] = m[j + 2] /\ r[k] = m[k + 2]
      BY <1>1, <2>2, <2>5 DEF WithoutBoth
    <3> QED
      BY ONLY <3>1, Sorted(m) DEF Sorted
  <2> QED
    BY <2>1, <2>3, <2>4, <2>5
<1> QED
  BY <1>1, <1>2, <1>3

(* A header, or a message later than all of the buffer, comes last.        *)
LEMMA SortedAppend ==
    ASSUME NEW m \in Seq(Lines), NEW e \in Lines, Sorted(m),
           IsHeader(e) \/ \A i \in Ids(m) : i < e.id
    PROVE  Sorted(Append(m, e))
<1> DEFINE a == Append(m, e)
<1>1. /\ Len(a) = Len(m) + 1 /\ a[Len(m) + 1] = e /\ Len(m) \in Nat
      /\ \A k \in 1 .. Len(m) : a[k] = m[k]
  BY AppendedLine, LenProperties
<1> HIDE DEF a
<1> SUFFICES ASSUME NEW j \in 1 .. Len(a), NEW k \in 1 .. Len(a), j < k
             PROVE  IsHeader(a[j]) \/ IsHeader(a[k]) \/ a[j].id < a[k].id
  BY DEF Sorted, a
<1>2. j \in 1 .. Len(m) /\ a[j] = m[j] /\ (k = Len(m) + 1 \/ k \in 1 .. Len(m))
  BY <1>1
<1>3. CASE k \in 1 .. Len(m)
  <2>1. a[k] = m[k]
    BY <1>1, <1>3
  <2> QED
    BY ONLY <1>2, <1>3, <2>1, j < k, Sorted(m) DEF Sorted
<1>4. CASE k = Len(m) + 1
  <2>1. IsHeader(m[j]) \/ m[j].id \in Ids(m)
    BY <1>2, IdsAre DEF IsHeader
  <2> QED
    BY <1>1, <1>2, <1>4, <2>1
<1> QED
  BY <1>2, <1>3, <1>4

LEMMA SortedBuffered ==
    ASSUME NEW m \in Seq(Lines), NEW c \in Nat \ {0, 1}, Sorted(m),
           NEW line \in Lines, \A i \in Ids(m) : i < line.id,
           NEW header, header = <<>> \/ \E h \in Lines : IsHeader(h) /\ header = <<h>>
    PROVE  Sorted(Buffered(m, c, header, line))
<1> DEFINE a == IF header = <<>> THEN m ELSE EmplaceBack(m, c, header[1])
           EmplaceBackSorted(b) == b \in Seq(Lines) /\ Sorted(b) /\ Ids(b) \subseteq Ids(m)
<1>1. ASSUME NEW b \in Seq(Lines), Sorted(b), NEW e \in Lines,
             IsHeader(e) \/ \A i \in Ids(b) : i < e.id
      PROVE  Sorted(EmplaceBack(b, c, e))
  <2>1. MakeRoom(b, c) \in Seq(Lines) /\ Sorted(MakeRoom(b, c)) /\ Ids(MakeRoom(b, c)) \subseteq Ids(b)
    BY <1>1, MakeRoomFrees, SortedMakeRoom, MakeRoomIds
  <2>2. Sorted(Append(MakeRoom(b, c), e))
    BY <1>1, <2>1, SortedAppend
  <2> QED
    BY <2>2 DEF EmplaceBack
<1>2. a \in Seq(Lines) /\ Sorted(a) /\ Ids(a) \subseteq Ids(m)
  <2>1. CASE header = <<>>
    BY <2>1
  <2>2. CASE \E h \in Lines : IsHeader(h) /\ header = <<h>>
    <3>1. PICK h \in Lines : IsHeader(h) /\ header = <<h>>
      BY <2>2
    <3>2. a = EmplaceBack(m, c, h)
      BY <3>1
    <3> HIDE DEF a
    <3>3. EmplaceBack(m, c, h) \in Seq(Lines)
      BY EmplaceBackGrowth
    <3>4. Sorted(EmplaceBack(m, c, h))
      BY <1>1, <3>1
    <3>5. Ids(EmplaceBack(m, c, h)) \subseteq Ids(m)
      <4>1. MakeRoom(m, c) \in Seq(Lines) /\ Ids(MakeRoom(m, c)) \subseteq Ids(m)
        BY MakeRoomFrees, MakeRoomIds
      <4>2. Ids(EmplaceBack(m, c, h)) = Ids(MakeRoom(m, c)) \cup ({h.id} \ {0})
        BY <4>1, IdsAppend DEF EmplaceBack
      <4> QED
        BY <3>1, <4>1, <4>2 DEF IsHeader
    <3> QED
      BY ONLY <3>2, <3>3, <3>4, <3>5, Zenon
  <2> QED
    BY <2>1, <2>2
<1>3. Buffered(m, c, header, line) = EmplaceBack(a, c, line)
  BY DEF Buffered
<1> HIDE DEF a
<1>4. \A i \in Ids(a) : i < line.id
  BY <1>2
<1>5. Sorted(EmplaceBack(a, c, line))
  BY <1>1, <1>2, <1>4
<1> QED
  BY ONLY <1>3, <1>5, Zenon

LEMMA SortedPopFront ==
    ASSUME NEW m \in Seq(Lines), PopFrontDefined(m), Sorted(m)
    PROVE  Sorted(PopFront(m))
<1> DEFINE p == PopFront(m)
<1>1. Len(m) \in Nat /\ Chunk \in Nat \ {0}
  BY LenProperties, ChunkAssumption
<1>2. CASE Len(m) <= Chunk
  <2>1. p = <<>> /\ Len(<<>>) = 0
    BY <1>2, EmptySeq DEF PopFront
  <2>2. Sorted(<<>>)
    BY <2>1 DEF Sorted
  <2> QED
    BY <2>1, <2>2
<1>3. CASE Len(m) > Chunk
  <2> DEFINE n == Len(m) - Chunk
             h == Max(HeadersIn(m))
  <2>1. \/ Len(p) = n /\ \A k \in 1 .. n : p[k] = m[k + Chunk]
        \/ /\ Len(p) = n + 1 /\ h \in HeadersIn(m) /\ p[1] = m[h]
           /\ \A k \in 1 .. n : p[k + 1] = m[k + Chunk]
    BY <1>3, PopFrontLines
  <2> HIDE DEF p
  <2>2. n \in Nat /\ \A k \in 1 .. n : k + Chunk \in 1 .. Len(m)
    BY <1>1, <1>3
  <2> SUFFICES ASSUME NEW j \in 1 .. Len(p), NEW k \in 1 .. Len(p), j < k
               PROVE  IsHeader(p[j]) \/ IsHeader(p[k]) \/ p[j].id < p[k].id
    BY DEF Sorted, p
  <2>3. CASE Len(p) = n /\ \A i \in 1 .. n : p[i] = m[i + Chunk]
    <3>1. /\ j + Chunk \in 1 .. Len(m) /\ k + Chunk \in 1 .. Len(m) /\ j + Chunk < k + Chunk
          /\ p[j] = m[j + Chunk] /\ p[k] = m[k + Chunk]
      BY <1>1, <2>2, <2>3
    <3> QED
      BY ONLY <3>1, Sorted(m) DEF Sorted
  <2>4. CASE /\ Len(p) = n + 1 /\ h \in HeadersIn(m) /\ p[1] = m[h]
             /\ \A i \in 1 .. n : p[i + 1] = m[i + Chunk]
    <3>1. CASE j = 1
      BY <2>4, <3>1 DEF HeadersIn
    <3>2. CASE j # 1
      <4> DEFINE a == j - 1
                 b == k - 1
      <4>1. a \in 1 .. n /\ b \in 1 .. n /\ a < b /\ a + 1 = j /\ b + 1 = k
        BY <2>2, <2>4, <3>2
      <4> HIDE DEF a, b, h
      <4>2. p[a + 1] = m[a + Chunk] /\ p[b + 1] = m[b + Chunk]
        BY ONLY <2>4, <4>1
      <4>3. a + Chunk \in 1 .. Len(m) /\ b + Chunk \in 1 .. Len(m) /\ a + Chunk < b + Chunk
        BY <1>1, <2>2, <4>1
      <4> QED
        BY ONLY <4>1, <4>2, <4>3, Sorted(m) DEF Sorted
    <3> QED
      BY <3>1, <3>2
  <2> QED
    BY <2>1, <2>3, <2>4
<1> QED
  BY <1>1, <1>2, <1>3

(* The chunk in front has the oldest messages. *)
LEMMA FrontIsOldest ==
    ASSUME NEW m \in Seq(Lines), Sorted(m)
    PROVE  \A i \in Ids(m) \ Ids(Front(m)) : \A j \in Ids(Front(m)) : j < i
<1>1. Len(m) \in Nat /\ Chunk \in Nat \ {0}
  BY LenProperties, ChunkAssumption
<1>2. CASE Len(m) <= Chunk
  BY <1>2, FrontLines
<1>3. CASE Len(m) > Chunk
  <2> SUFFICES ASSUME NEW i \in Ids(m), i \notin Ids(Front(m)), NEW j \in Ids(Front(m))
               PROVE  j < i
    OBVIOUS
  <2>1. /\ Front(m) \in Seq(Lines) /\ Len(Front(m)) = Chunk
        /\ \A k \in 1 .. Chunk : Front(m)[k] = m[k]
    BY <1>3, FrontLines
  <2>2. PICK a \in 1 .. Len(m) : m[a].id = i
    BY IdsAre
  <2>3. PICK b \in 1 .. Len(Front(m)) : Front(m)[b].id = j
    BY <2>1, IdsAre
  <2>4. i # 0 /\ j # 0
    BY <2>1, IdsAre
  <2>5. b \in 1 .. Chunk /\ m[b].id = j
    BY <2>1, <2>3
  <2>6. a \notin 1 .. Chunk
    BY <2>1, <2>2, <2>4, IdsAre
  <2>7. b < a /\ b \in 1 .. Len(m)
    BY <1>1, <1>3, <2>2, <2>5, <2>6
  <2> QED
    BY ONLY <2>2, <2>4, <2>5, <2>7, Sorted(m) DEF Sorted, IsHeader
<1> QED
  BY <1>1, <1>2, <1>3

(* All numbers of S are greater than those of T. *)
After(S, T) == \A i \in S : \A j \in T : j < i

(* What was not read yet comes after all that was; what is aggregated,     *)
(* after the chunk in front; and while one chunk of several is being sent, *)
(* what is not in the request comes after it.                              *)
OrderInv ==
    /\ BufferInv
    /\ DeliveredIds \subseteq 1 .. taken
    /\ Sorted(mcb)
    /\ After(Ids(mcb) \ DeliveredIds, DeliveredIds)
    /\ pc \in {"aggregate", "send"} => After(Ids(data) \ DeliveredIds, DeliveredIds)
    /\ pc = "aggregate" => After(Ids(aggre), DeliveredIds)
    /\ pc \in {"aggregate", "send"} /\ bsize > 1 => After(Ids(mcb) \ Ids(data), Ids(data))
    /\ pc = "aggregate" /\ bsize <= 1 => Ids(mcb) \subseteq Ids(data) \cup Ids(aggre)
    /\ pc = "send" /\ bsize <= 1 => Ids(mcb) \subseteq Ids(data)

LEMMA OrderInit == Init => OrderInv
<1> SUFFICES ASSUME Init PROVE OrderInv
  OBVIOUS
<1>1. /\ mcb = <<>> /\ delivered = {} /\ pc = "prefetch" /\ Len(<<>>) = 0
  BY EmptySeq DEF Init
<1>2. Sorted(<<>>) /\ Ids(<<>>) = {} /\ DeliveredIds = {}
  BY <1>1 DEF Sorted, Ids, DeliveredIds
<1> QED
  BY <1>1, <1>2, BufferInit DEF OrderInv, After

LEMMA OrderNext == ASSUME OrderInv, [Next]_vars PROVE OrderInv'
<1>1. BufferInv /\ BufferInv' /\ IInv /\ IInv'
  BY BufferNext DEF OrderInv, BufferInv
<1>2. /\ mcb \in Seq(Lines) /\ data \in Seq(Lines) /\ aggre \in Seq(Lines)
      /\ taken \in Nat /\ bsize \in Nat /\ mcb' \in Seq(Lines)
  BY <1>1, LenProperties DEF IInv, TypeOK
<1> USE DEF OrderInv
<1>3. CASE UNCHANGED <<taken, mcb, data, aggre, delivered, bsize, pc>>
  BY <1>1, <1>3 DEF DeliveredIds
<1>4. CASE Prefetch
  <2>1. /\ bsize' = BSize(mcb) /\ data' = Front(mcb) /\ aggre' = <<>>
        /\ UNCHANGED <<taken, mcb, delivered>> /\ pc' = "aggregate"
    BY <1>4 DEF Prefetch
  <2>2. /\ BSize(mcb) \in Nat /\ (BSize(mcb) <= 1) = (Len(mcb) <= Chunk)
        /\ Len(mcb) <= Chunk => Front(mcb) = mcb
        /\ Ids(Front(mcb)) \subseteq Ids(mcb)
    BY <1>2, FrontLines, FrontType, ChunkAssumption
  <2>3. After(Ids(mcb) \ Ids(Front(mcb)), Ids(Front(mcb)))
    BY <1>2, FrontIsOldest DEF After
  <2>4. Ids(<<>>) = {}
    BY DEF Ids
  <2> QED
    BY <1>1, <2>1, <2>2, <2>3, <2>4 DEF After, DeliveredIds
<1>5. CASE TakeNews
  <2>1. /\ taken' = taken + 1 /\ UNCHANGED <<data, bsize, pc, delivered>> /\ pc = "aggregate"
    BY <1>5 DEF TakeNews
  <2>2. /\ Ids(mcb') \subseteq Ids(mcb) \cup {taken'}
        /\ Ids(aggre') = Ids(aggre) \cup {taken'}
    BY <1>1, <1>5, TakeNewsFacts
  <2>3. Sorted(mcb')
    <3> DEFINE i == taken + 1
               news == sent[i]
               line == Line(news.xid, i)
               header == IF news.xid = current THEN <<>> ELSE <<Header(news.xid)>>
    <3>1. /\ i \in 1 .. MaxSend /\ news.xid \in Xids /\ cap \in Nat \ {0, 1}
      <4>1. Len(sent) \in Nat /\ i \in 1 .. Len(sent)
        BY <1>1, <1>5, LenProperties DEF IInv, TypeOK, TakeNews
      <4>2. news \in [xid : Xids, buf : Prios]
        BY <1>1, <4>1, ElementOfSeq DEF IInv, TypeOK
      <4>3. Len(sent) <= MaxSend /\ MaxSend \in Nat
        BY <1>1, ReporterAssumption DEF IInv
      <4>4. cap \in Nat \ {0, 1}
        BY <1>1, ReporterAssumption DEF IInv, TypeOK
      <4>5. i \in 1 .. MaxSend
        BY <4>1, <4>3
      <4> QED
        BY <4>2, <4>4, <4>5
    <3>2. mcb' = IF news.buf THEN Buffered(mcb, cap, header, line) ELSE mcb
      BY <1>5 DEF TakeNews
    <3>3. line \in Lines /\ line.id = i
      BY <3>1 DEF Lines, Line
    <3>4. header = <<>> \/ \E h \in Lines : IsHeader(h) /\ header = <<h>>
      BY <3>1 DEF Lines, Header, IsHeader
    <3> HIDE DEF line, header
    <3>5. \A k \in Ids(mcb) : k < line.id
      BY <1>1, <1>2, <3>3 DEF BufferInv
    <3>6. Sorted(Buffered(mcb, cap, header, line))
      BY <1>2, <3>1, <3>3, <3>4, <3>5, SortedBuffered
    <3> QED
      BY <3>2, <3>6
  <2>4. After({taken'}, DeliveredIds \cup Ids(data))
    BY <1>1, <1>2, <2>1 DEF After, BufferInv
  <2>5. DeliveredIds' = DeliveredIds /\ DeliveredIds \subseteq 1 .. taken'
    BY <1>2, <2>1 DEF DeliveredIds
  <2> QED
    BY <1>1, <2>1, <2>2, <2>3, <2>4, <2>5 DEF After
<1>6. CASE EndAggregate
  <2>1. /\ data' = Request /\ UNCHANGED <<taken, mcb, aggre, bsize, delivered>>
        /\ pc = "aggregate" /\ pc' \in {"prefetch", "send"}
    BY <1>6 DEF EndAggregate
  <2>2. IF bsize <= 1 THEN Ids(data') = Ids(data) \cup Ids(aggre) ELSE data' = data
    BY <1>2, <2>1, IdsConcat DEF Request
  <2> QED
    BY <1>1, <1>2, <2>1, <2>2 DEF After, DeliveredIds
<1>7. ASSUME delivered' = delivered \cup Read(data)
      PROVE  DeliveredIds' = DeliveredIds \cup Ids(data)
  <2>1. {d[1] : d \in Read(data)} = Ids(data)
    BY <1>2, ReadType
  <2> QED
    BY <1>7, <2>1 DEF DeliveredIds
<1>8. CASE PostOk
  <2>1. /\ delivered' = delivered \cup Read(data) /\ Success /\ pc = "send"
        /\ UNCHANGED <<taken, data, aggre, bsize>>
        /\ pc' \in {"prefetch", "undefined"}
    BY <1>8 DEF PostOk, Success
  <2>2. Ids(data) \subseteq 1 .. taken /\ InOrder(mcb)
    BY <1>1 DEF BufferInv
  <2>3. DeliveredIds' = DeliveredIds \cup Ids(data)
    BY <1>7, <2>1
  <2>4. CASE mcb' = <<>>
    <3>1. Sorted(<<>>) /\ Ids(<<>>) = {}
      BY EmptySeq DEF Sorted, Ids
    <3> QED
      BY <1>1, <2>1, <2>2, <2>3, <2>4, <3>1 DEF After
  <2>5. CASE bsize > 1 /\ Ids(mcb') \subseteq Ids(mcb) /\ Sorted(mcb')
    BY <1>1, <2>1, <2>2, <2>3, <2>5 DEF After
  <2>6. CASE bsize > 1 /\ PopFrontDefined(mcb) /\ mcb' = PopFront(mcb)
    <3>1. Sorted(mcb')
      BY <1>2, <2>6, SortedPopFront
    <3>2. \A k \in 1 .. Len(mcb') :
             IsHeader(mcb'[k]) \/ \E j \in 1 .. Len(mcb) : j > Chunk /\ mcb'[k] = mcb[j]
      BY <1>2, <2>2, <2>6, PopFrontKeeps
    <3>3. Ids(mcb') \subseteq Ids(mcb)
      <4> SUFFICES ASSUME NEW i \in Ids(mcb') PROVE i \in Ids(mcb)
        OBVIOUS
      <4>1. PICK k \in 1 .. Len(mcb') : mcb'[k].id = i
        BY <1>2, IdsAre
      <4>2. i # 0
        BY <1>2, IdsAre
      <4> QED
        BY <1>2, <3>2, <4>1, <4>2, IdsAre DEF IsHeader
    <3> QED
      BY <2>5, <2>6, <3>1, <3>3
  <2> QED
    BY <2>1, <2>4, <2>5, <2>6 DEF Success
<1>9. CASE PostFails
  <2>1. /\ delivered' = delivered \/ delivered' = delivered \cup Read(data)
        /\ UNCHANGED <<taken, mcb, data, aggre, bsize>>
        /\ pc = "send" /\ pc' \in {"prefetch", "send"}
    BY <1>9 DEF PostFails
  <2>2. CASE delivered' = delivered
    BY <1>1, <2>1, <2>2 DEF DeliveredIds
  <2>3. CASE delivered' = delivered \cup Read(data)
    <3>1. DeliveredIds' = DeliveredIds \cup Ids(data)
      BY <1>7, <2>3
    <3>2. Ids(data) \subseteq 1 .. taken
      BY <1>1 DEF BufferInv
    <3>3. After(Ids(mcb) \ DeliveredIds', DeliveredIds')
      BY <1>2, <2>1, <3>1 DEF After
    <3> QED
      BY <1>1, <2>1, <3>1, <3>2, <3>3 DEF After
  <2> QED
    BY <2>1, <2>2, <2>3
<1> QED
  BY <1>3, <1>4, <1>5, <1>6, <1>8, <1>9
     DEF Next, Agent, Reporter, Send, SetSleeping, SetCapacity, vars

(* A step reads, for the first time, later messages only. *)
Ordered ==
    \A i \in {d[1] : d \in delivered'} \ DeliveredIds : \A j \in DeliveredIds : j < i

LEMMA OrderedStep == ASSUME OrderInv, [Next]_vars PROVE [Ordered]_vars
<1>1. CASE delivered' = delivered
  BY <1>1 DEF DeliveredIds, Ordered
<1>2. CASE delivered' = delivered \cup Read(data) /\ pc = "send"
  <2>1. data \in Seq(Lines)
    BY DEF OrderInv, BufferInv, IInv, TypeOK
  <2>2. {d[1] : d \in Read(data)} = Ids(data)
    BY <2>1, ReadType
  <2>3. {d[1] : d \in delivered'} = DeliveredIds \cup Ids(data)
    BY <1>2, <2>2 DEF DeliveredIds
  <2> QED
    BY <1>2, <2>3 DEF OrderInv, After, Ordered
<1> QED
  BY <1>1, <1>2 DEF Next, Agent, Reporter, Send, SetSleeping, SetCapacity, Prefetch,
     TakeNews, EndAggregate, PostOk, PostFails, vars

(* The server reads the messages for the first time in the order they were *)
(* sent, whatever is buffered, evicted, lost or repeated                   *)
(* (src/srreporter.cc 756-785).                                            *)
THEOREM FirstReadsAreInOrder == Spec => FirstReadInOrder
<1>1. OrderInv /\ [Next]_vars => OrderInv'
  BY OrderNext
<1>2. OrderInv /\ [Next]_vars => [Ordered]_vars
  BY OrderedStep
<1> QED
  BY OrderInit, <1>1, <1>2, PTL DEF Spec, FirstReadInOrder, Ordered
=============================================================================
