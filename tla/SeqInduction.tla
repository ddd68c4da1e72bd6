---------------------------- MODULE SeqInduction ----------------------------
(***************************************************************************)
(* Induction over numbers and sequences in the form the proofs use it: a   *)
(* set with 0 and the successor of each of its numbers has every number,   *)
(* one with <<>> and what its sequences are extended to has every          *)
(* sequence.  From it, what the folds of the models compute.               *)
(***************************************************************************)
EXTENDS Integers, SequencesExt, SequenceTheorems, WellFoundedInduction, TLAPS

-----------------------------------------------------------------------------
(* Numbers *)

Below == {ss \in Nat \X Nat : ss[1] < ss[2]}

LEMMA InBelow ==
    ASSUME NEW k \in Nat, NEW m \in Nat, k < m
    PROVE  <<k, m>> \in Below
<1>1. <<k, m>> \in Nat \X Nat
  OBVIOUS
<1>2. <<k, m>>[1] = k /\ <<k, m>>[2] = m
  OBVIOUS
<1> QED
  BY <1>1, <1>2 DEF Below

(* A set of naturals has a least element. *)
LEMMA LeastNatural ==
    ASSUME NEW T, T \subseteq Nat, T # {}
    PROVE  \E m \in T : \A k \in T : m <= k
<1>1. IsWellFoundedOn(Below, Nat)
  BY NatLessThanWellFounded DEF OpToRel, Below
<1>2. PICK m \in T : \A k \in T : ~(<<k, m>> \in Below)
  BY ONLY <1>1, WFMin, T \subseteq Nat, T # {}
<1>3. ASSUME NEW k \in T PROVE m <= k
  <2>1. ~(k < m)
    BY <1>2, InBelow
  <2> QED
    BY <2>1
<1> QED
  BY <1>3

(* Induction over the naturals. *)
THEOREM SetInduction ==
    ASSUME NEW T, 0 \in T, \A n \in Nat : n \in T => n + 1 \in T
    PROVE  Nat \subseteq T
<1> SUFFICES ASSUME Nat \ T # {} PROVE FALSE
  OBVIOUS
<1>1. PICK m \in Nat \ T : \A k \in Nat \ T : m <= k
  BY LeastNatural
<1>2. m - 1 \in Nat /\ m - 1 \notin T
  BY <1>1
<1> QED
  BY <1>1, <1>2

(* What a step leads to, again and again: for every start there is a       *)
(* function of the naturals that a recursive definition can mean.          *)
Steps(F, x, n, h) ==
    /\ DOMAIN h = 0 .. n /\ h[0] = x
    /\ \A m \in 0 .. n - 1 : h[m + 1] = F[h[m]]

LEMMA StepsAreOne ==
    ASSUME NEW F, NEW x, NEW n \in Nat, NEW p, NEW h, NEW g, Steps(F, x, n, h), Steps(F, x, p, g),
           p \in Nat, n <= p
    PROVE  \A m \in 0 .. n : h[m] = g[m]
<1> DEFINE T == {m \in Nat : m <= n => h[m] = g[m]}
<1>1. 0 \in T
  BY DEF Steps
<1>2. ASSUME NEW m \in Nat, m \in T PROVE m + 1 \in T
  <2> SUFFICES ASSUME m + 1 <= n PROVE h[m + 1] = g[m + 1]
    OBVIOUS
  <2>1. m \in 0 .. n - 1 /\ m \in 0 .. p - 1 /\ m <= n
    OBVIOUS
  <2> QED
    BY <1>2, <2>1 DEF Steps
<1>3. Nat \subseteq T
  <2> HIDE DEF T
  <2> QED
    BY <1>1, <1>2, SetInduction
<1> QED
  BY <1>3

LEMMA StepsExist ==
    ASSUME NEW X, NEW F \in [X -> X], NEW x \in X
    PROVE  \A n \in Nat : \E h \in [0 .. n -> X] : Steps(F, x, n, h)
<1> DEFINE T == {n \in Nat : \E h \in [0 .. n -> X] : Steps(F, x, n, h)}
<1>1. 0 \in T
  <2> DEFINE h == [m \in 0 .. 0 |-> x]
  <2>1. h \in [0 .. 0 -> X] /\ Steps(F, x, 0, h)
    BY DEF Steps
  <2> QED
    BY <2>1
<1>2. ASSUME NEW n \in Nat, n \in T PROVE n + 1 \in T
  <2>1. PICK g \in [0 .. n -> X] : Steps(F, x, n, g)
    BY <1>2
  <2> DEFINE h == [m \in 0 .. n + 1 |-> IF m = n + 1 THEN F[g[n]] ELSE g[m]]
  <2>2. \A m \in 0 .. n : h[m] = g[m] /\ g[m] \in X
    OBVIOUS
  <2>3. h[n + 1] = F[g[n]] /\ F[g[n]] \in X
    BY <2>2
  <2>4. h \in [0 .. n + 1 -> X] /\ DOMAIN h = 0 .. n + 1
    BY <2>2, <2>3
  <2> HIDE DEF h
  <2>5. h[0] = x
    BY <2>1, <2>2 DEF Steps
  <2>6. ASSUME NEW m \in 0 .. (n + 1) - 1 PROVE h[m + 1] = F[h[m]]
    <3>1. CASE m = n
      BY <2>2, <2>3, <3>1
    <3>2. CASE m # n
      <4>1. m \in 0 .. n - 1 /\ m \in 0 .. n /\ m + 1 \in 0 .. n
        BY <3>2
      <4> QED
        BY <2>1, <2>2, <4>1 DEF Steps
    <3> QED
      BY <3>1, <3>2
  <2>7. Steps(F, x, n + 1, h)
    BY <2>4, <2>5, <2>6 DEF Steps
  <2> QED
    BY <2>4, <2>7
<1>3. Nat \subseteq T
  <2> HIDE DEF T
  <2> QED
    BY <1>1, <1>2, SetInduction
<1> QED
  BY <1>3

Iterates(F, x, X) ==
    \E g \in [Nat -> X] : g[0] = x /\ \A n \in Nat : g[n + 1] = F[g[n]]

LEMMA Iteration ==
    ASSUME NEW X, NEW F \in [X -> X], NEW x \in X
    PROVE  Iterates(F, x, X)
<1> DEFINE h(n) == CHOOSE h \in [0 .. n -> X] : Steps(F, x, n, h)
           g == [n \in Nat |-> h(n)[n]]
<1>1. ASSUME NEW n \in Nat PROVE h(n) \in [0 .. n -> X] /\ Steps(F, x, n, h(n))
  BY StepsExist, Zenon
<1> HIDE DEF h
<1>2. \A n \in Nat : n \in 0 .. n
  OBVIOUS
<1>3. ASSUME NEW n \in Nat PROVE h(n)[n] \in X
  BY <1>1, <1>2
<1>4. g \in [Nat -> X] /\ \A n \in Nat : g[n] = h(n)[n]
  BY <1>3
<1> HIDE DEF g
<1>5. g[0] = x
  BY <1>1, <1>4 DEF Steps
<1>6. ASSUME NEW n \in Nat PROVE g[n + 1] = F[g[n]]
  <2>1. n + 1 \in Nat /\ n <= n + 1 /\ n \in 0 .. n /\ n \in 0 .. (n + 1) - 1
    OBVIOUS
  <2>2. h(n)[n] = h(n + 1)[n]
    BY <1>1, <2>1, StepsAreOne
  <2>3. h(n + 1)[n + 1] = F[h(n + 1)[n]]
    BY <1>1, <2>1 DEF Steps
  <2> QED
    BY <1>4, <2>1, <2>2, <2>3
<1> QED
  BY <1>4, <1>5, <1>6 DEF Iterates

-----------------------------------------------------------------------------
(* Sequences *)

(* Induction over the sequences of a set, from the left. *)
THEOREM SequenceInduction ==
    ASSUME NEW S, NEW T, <<>> \in T,
           \A s \in Seq(S) : s \in T => \A e \in S : Append(s, e) \in T
    PROVE  Seq(S) \subseteq T
<1> DEFINE N == {n \in Nat : \A s \in Seq(S) : Len(s) = n => s \in T}
<1>1. 0 \in N
  BY EmptySeq
<1>2. ASSUME NEW n \in Nat, n \in N PROVE n + 1 \in N
  <2> SUFFICES ASSUME NEW s \in Seq(S), Len(s) = n + 1 PROVE s \in T
    OBVIOUS
  <2> DEFINE front == SubSeq(s, 1, n)
  <2>1. front \in Seq(S) /\ Len(front) = n /\ s[n + 1] \in S
    OBVIOUS
  <2>2. s = Append(front, s[n + 1])
    OBVIOUS
  <2>3. front \in T
    BY <1>2, <2>1
  <2> HIDE DEF front
  <2> QED
    BY <2>1, <2>2, <2>3
<1>3. Nat \subseteq N
  <2> HIDE DEF N
  <2> QED
    BY <1>1, <1>2, SetInduction
<1> QED
  BY <1>3, LenProperties

-----------------------------------------------------------------------------
(* FlattenSeq: the concatenation of the first i of seqs is f[i].           *)

Flattens(f, seqs) ==
    f = [i \in 1 .. Len(seqs) |-> IF i = 1 THEN seqs[i] ELSE f[i - 1] \o seqs[i]]

LEMMA FlattensIs ==
    ASSUME NEW S, NEW seqs \in Seq(S), NEW f, Flattens(f, seqs)
    PROVE  /\ DOMAIN f = 1 .. Len(seqs)
           /\ Len(seqs) > 0 => f[1] = seqs[1]
           /\ \A i \in 2 .. Len(seqs) : f[i] = f[i - 1] \o seqs[i]
<1> DEFINE F == [i \in 1 .. Len(seqs) |-> IF i = 1 THEN seqs[i] ELSE f[i - 1] \o seqs[i]]
<1>1. f = F
  BY Zenon DEF Flattens
<1>2. DOMAIN F = 1 .. Len(seqs)
  OBVIOUS
<1>3. Len(seqs) \in Nat
  OBVIOUS
<1>4. ASSUME NEW i \in 1 .. Len(seqs)
      PROVE  F[i] = IF i = 1 THEN seqs[i] ELSE f[i - 1] \o seqs[i]
  OBVIOUS
<1> HIDE DEF F
<1>5. Len(seqs) > 0 => f[1] = seqs[1]
  BY ONLY <1>1, <1>3, <1>4
<1>6. ASSUME NEW i \in 2 .. Len(seqs) PROVE f[i] = f[i - 1] \o seqs[i]
  <2>1. i \in 1 .. Len(seqs) /\ i # 1
    BY <1>3
  <2> QED
    BY ONLY <1>1, <1>4, <2>1, Zenon
<1> QED
  BY <1>1, <1>2, <1>5, <1>6

(* And whatever is so is it. *)
LEMMA FlattensIf ==
    ASSUME NEW S, NEW seqs \in Seq(S), NEW f,
           f = [i \in 1 .. Len(seqs) |-> f[i]],
           Len(seqs) > 0 => f[1] = seqs[1],
           \A i \in 2 .. Len(seqs) : f[i] = f[i - 1] \o seqs[i]
    PROVE  Flattens(f, seqs)
<1>1. ASSUME NEW i \in 1 .. Len(seqs)
      PROVE  f[i] = IF i = 1 THEN seqs[i] ELSE f[i - 1] \o seqs[i]
  <2>1. Len(seqs) > 0 /\ (i = 1 \/ i \in 2 .. Len(seqs))
    OBVIOUS
  <2> QED
    BY <2>1, Zenon
<1>2. [i \in 1 .. Len(seqs) |-> f[i]]
        = [i \in 1 .. Len(seqs) |-> IF i = 1 THEN seqs[i] ELSE f[i - 1] \o seqs[i]]
  BY <1>1, Zenon
<1> QED
  BY <1>2 DEF Flattens

LEMMA FlattensExtended ==
    ASSUME NEW S, NEW s \in Seq(S), NEW e \in S, NEW f, Flattens(f, s)
    PROVE  LET h == [i \in 1 .. Len(s) + 1 |->
                        IF i = Len(s) + 1 THEN IF i = 1 THEN e ELSE f[i - 1] \o e ELSE f[i]]
           IN  Flattens(h, Append(s, e))
<1> DEFINE h == [i \in 1 .. Len(s) + 1 |->
                    IF i = Len(s) + 1 THEN IF i = 1 THEN e ELSE f[i - 1] \o e ELSE f[i]]
           t == Append(s, e)
<1>1. /\ t \in Seq(S) /\ Len(t) = Len(s) + 1 /\ t[Len(s) + 1] = e
      /\ \A i \in 1 .. Len(s) : t[i] = s[i]
  OBVIOUS
<1>2. Len(s) \in Nat
  OBVIOUS
<1>3. /\ Len(s) > 0 => f[1] = s[1]
      /\ \A i \in 2 .. Len(s) : f[i] = f[i - 1] \o s[i]
  BY FlattensIs
<1>4. \A i \in 1 .. Len(s) : h[i] = f[i]
  BY <1>2
<1>5. h[Len(s) + 1] = IF Len(s) + 1 = 1 THEN e ELSE f[Len(s)] \o e
  BY <1>2
<1>6. h = [i \in 1 .. Len(t) |-> h[i]]
  BY <1>1
<1> HIDE DEF h, t
<1>7. Len(t) > 0 => h[1] = t[1]
  BY ONLY <1>1, <1>2, <1>3, <1>4, <1>5
<1>8. ASSUME NEW i \in 2 .. Len(t) PROVE h[i] = h[i - 1] \o t[i]
  <2>1. CASE i \in 2 .. Len(s)
    <3>1. i \in 1 .. Len(s) /\ i - 1 \in 1 .. Len(s)
      BY <2>1, <1>2
    <3> QED
      BY ONLY <2>1, <3>1, <1>1, <1>3, <1>4, Zenon
  <2>2. CASE i = Len(s) + 1 /\ Len(s) > 0
    <3>1. i - 1 = Len(s) /\ Len(s) \in 1 .. Len(s) /\ Len(s) + 1 # 1
      BY <2>2, <1>2
    <3> QED
      BY ONLY <2>2, <3>1, <1>1, <1>4, <1>5, Zenon
  <2>3. i \in 2 .. Len(s) \/ (i = Len(s) + 1 /\ Len(s) > 0)
    BY ONLY <1>1, <1>2, i \in 2 .. Len(t)
  <2> QED
    BY <2>1, <2>2, <2>3
<1>9. Flattens(h, t)
  BY ONLY <1>1, <1>6, <1>7, <1>8, FlattensIf
<1> QED
  BY <1>9 DEF h, t

LEMMA FlattensExists ==
    ASSUME NEW S, NEW seqs \in Seq(S)
    PROVE  \E f : Flattens(f, seqs)
<1> DEFINE T == {s \in Seq(S) : \E f : Flattens(f, s)}
<1>1. <<>> \in T
  <2>1. <<>> \in Seq(S) /\ Len(<<>>) = 0
    OBVIOUS
  <2>2. Flattens(<<>>, <<>>)
    BY DEF Flattens
  <2> QED
    BY <2>1, <2>2
<1>2. ASSUME NEW s \in Seq(S), s \in T, NEW e \in S
      PROVE  Append(s, e) \in T
  <2>1. PICK f : Flattens(f, s)
    BY <1>2
  <2>2. \E h : Flattens(h, Append(s, e))
    BY <2>1, FlattensExtended
  <2>3. Append(s, e) \in Seq(S)
    OBVIOUS
  <2> QED
    BY <2>2, <2>3
<1> HIDE DEF T
<1>3. Seq(S) \subseteq T
  BY <1>1, <1>2, SequenceInduction
<1> QED
  BY <1>3 DEF T

(* f is determined: two of them agree as far as the sequences do. *)
LEMMA FlattensAgree ==
    ASSUME NEW S, NEW s \in Seq(S), NEW t \in Seq(S), Len(s) <= Len(t),
           \A i \in 1 .. Len(s) : t[i] = s[i],
           NEW f, Flattens(f, s), NEW h, Flattens(h, t)
    PROVE  \A i \in 1 .. Len(s) : h[i] = f[i]
<1> DEFINE N == {i \in Nat : i \in 1 .. Len(s) => h[i] = f[i]}
<1>1. Len(s) \in Nat /\ Len(t) \in Nat
  OBVIOUS
<1>2. /\ Len(s) > 0 => f[1] = s[1]
      /\ \A i \in 2 .. Len(s) : f[i] = f[i - 1] \o s[i]
  BY FlattensIs
<1>3. /\ Len(t) > 0 => h[1] = t[1]
      /\ \A i \in 2 .. Len(t) : h[i] = h[i - 1] \o t[i]
  BY FlattensIs
<1>4. 0 \in N
  OBVIOUS
<1>5. ASSUME NEW n \in Nat, n \in N PROVE n + 1 \in N
  <2> SUFFICES ASSUME n + 1 \in 1 .. Len(s) PROVE h[n + 1] = f[n + 1]
    OBVIOUS
  <2>1. CASE n = 0
    BY <2>1, <1>1, <1>2, <1>3
  <2>2. CASE n # 0
    <3>1. /\ n \in 1 .. Len(s) /\ n + 1 \in 2 .. Len(s) /\ n + 1 \in 2 .. Len(t)
          /\ (n + 1) - 1 = n
      BY <2>2, <1>1
    <3>2. h[n] = f[n]
      BY <3>1, <1>5
    <3> QED
      BY ONLY <3>1, <3>2, <1>2, <1>3, \A i \in 1 .. Len(s) : t[i] = s[i],
              n + 1 \in 1 .. Len(s), Zenon
  <2> QED
    BY <2>1, <2>2
<1> HIDE DEF N
<1>6. Nat \subseteq N
  BY <1>4, <1>5, SetInduction
<1> QED
  BY <1>1, <1>6 DEF N

LEMMA FlattenSeqIs ==
    ASSUME NEW S, NEW seqs \in Seq(S), Len(seqs) > 0, NEW f, Flattens(f, seqs)
    PROVE  FlattenSeq(seqs) = f[Len(seqs)]
<1> DEFINE g == CHOOSE g : g = [i \in 1 .. Len(seqs) |->
                                   IF i = 1 THEN seqs[i] ELSE g[i - 1] \o seqs[i]]
<1>1. FlattenSeq(seqs) = g[Len(seqs)]
  BY DEF FlattenSeq
<1>2. Flattens(g, seqs)
  BY Zenon DEF Flattens
<1> HIDE DEF g
<1>3. \A i \in 1 .. Len(seqs) : g[i] = f[i]
  BY <1>2, FlattensAgree
<1> QED
  BY <1>1, <1>3

(* FlattenSeq of a sequence that is extended. *)
THEOREM FlattenEmpty == FlattenSeq(<<>>) = <<>>
  BY DEF FlattenSeq

LEMMA FlattenOne ==
    ASSUME NEW S, NEW t \in Seq(S), Len(t) = 1
    PROVE  FlattenSeq(t) = t[1]
<1>1. PICK h : Flattens(h, t)
  BY FlattensExists
<1>2. Len(t) > 0
  OBVIOUS
<1>3. h[1] = t[1]
  BY <1>1, <1>2, FlattensIs
<1>4. FlattenSeq(t) = h[Len(t)]
  BY <1>1, <1>2, FlattenSeqIs
<1> QED
  BY <1>3, <1>4

LEMMA FlattenLonger ==
    ASSUME NEW S, NEW s \in Seq(S), NEW t \in Seq(S), Len(s) > 0, Len(t) = Len(s) + 1,
           \A i \in 1 .. Len(s) : t[i] = s[i]
    PROVE  FlattenSeq(t) = FlattenSeq(s) \o t[Len(s) + 1]
<1>1. PICK f : Flattens(f, s)
  BY FlattensExists
<1>2. PICK h : Flattens(h, t)
  BY FlattensExists
<1>3. FlattenSeq(s) = f[Len(s)]
  BY <1>1, FlattenSeqIs
<1>4. Len(s) \in Nat /\ Len(s) <= Len(t) /\ Len(t) > 0
  OBVIOUS
<1>5. FlattenSeq(t) = h[Len(s) + 1]
  BY <1>2, <1>4, FlattenSeqIs
<1>6. \A i \in 1 .. Len(s) : h[i] = f[i]
  BY <1>1, <1>2, <1>4, FlattensAgree
<1>7. \A i \in 2 .. Len(t) : h[i] = h[i - 1] \o t[i]
  BY <1>2, FlattensIs
<1>8. Len(s) + 1 \in 2 .. Len(t) /\ (Len(s) + 1) - 1 = Len(s) /\ Len(s) \in 1 .. Len(s)
  BY <1>4
<1> QED
  BY ONLY <1>3, <1>5, <1>6, <1>7, <1>8, Zenon

THEOREM FlattenAppend ==
    ASSUME NEW A, NEW s \in Seq(Seq(A)), NEW e \in Seq(A)
    PROVE  FlattenSeq(Append(s, e)) = FlattenSeq(s) \o e
<1>1. /\ Append(s, e) \in Seq(Seq(A)) /\ Len(Append(s, e)) = Len(s) + 1
      /\ Append(s, e)[Len(s) + 1] = e /\ Len(s) \in Nat
      /\ \A i \in 1 .. Len(s) : Append(s, e)[i] = s[i]
  BY AppendProperties
<1>2. CASE Len(s) = 0
  <2>1. s = <<>>
    BY <1>2, EmptySeq
  <2>2. FlattenSeq(s) \o e = e
    BY <2>1, FlattenEmpty, ConcatEmptySeq
  <2>3. FlattenSeq(Append(s, e)) = Append(s, e)[1]
    <3>1. Append(s, e) \in Seq(Seq(A)) /\ Len(Append(s, e)) = 1
      BY <1>1, <1>2
    <3> QED
      BY ONLY <3>1, FlattenOne
  <2>4. Append(s, e)[1] = e
    BY <1>1, <1>2
  <2> QED
    BY <2>2, <2>3, <2>4
<1>3. CASE Len(s) > 0
  <2>1. FlattenSeq(Append(s, e)) = FlattenSeq(s) \o Append(s, e)[Len(s) + 1]
    BY <1>1, <1>3, FlattenLonger
  <2> QED
    BY ONLY <1>1, <2>1, Zenon
<1> QED
  BY <1>1, <1>2, <1>3

THEOREM FlattenType ==
    ASSUME NEW A, NEW seqs \in Seq(Seq(A))
    PROVE  FlattenSeq(seqs) \in Seq(A)
<1> DEFINE T == {s \in Seq(Seq(A)) : FlattenSeq(s) \in Seq(A)}
<1>1. <<>> \in T
  <2>1. <<>> \in Seq(Seq(A)) /\ <<>> \in Seq(A)
    OBVIOUS
  <2> QED
    BY <2>1, FlattenEmpty
<1>2. ASSUME NEW s \in Seq(Seq(A)), s \in T, NEW e \in Seq(A)
      PROVE  Append(s, e) \in T
  <2>1. FlattenSeq(Append(s, e)) = FlattenSeq(s) \o e
    BY FlattenAppend
  <2>2. FlattenSeq(s) \o e \in Seq(A) /\ Append(s, e) \in Seq(Seq(A))
    BY <1>2
  <2> QED
    BY <2>1, <2>2
<1> HIDE DEF T
<1>3. Seq(Seq(A)) \subseteq T
  BY <1>1, <1>2, SequenceInduction
<1> QED
  BY <1>3 DEF T
=============================================================================
