------------------------------ MODULE SrBase64 ------------------------------
(***************************************************************************)
(* b64Encode() and b64Decode() (src/srutils.cc): the credentials go to the *)
(* server in this form.  Bytes and characters are numbers, characters by   *)
(* their ASCII codes.  A 24 bit group is x, and the code's x <<= 6 between *)
(* two characters is which of its sextets is taken.                        *)
(***************************************************************************)
EXTENDS Integers, Sequences, SequencesExt

CONSTANTS
    SomeBytes,   \* the bytes of the texts
    MaxBytes     \* bound: the length of the texts

Base64Assumption == SomeBytes \subseteq 0 .. 255 /\ MaxBytes \in Nat

Equals == 61

(* The alphabet, and base64(), its inverse.                                *)
Char(i) ==
    CASE i < 26 -> 65 + i
      [] i \in 26 .. 51 -> 97 + i - 26
      [] i \in 52 .. 61 -> 48 + i - 52
      [] i = 62 -> 43
      [] i = 63 -> 47

(* Mutant of Sextet: the digits begin at 53.                               *)
SextetOff(c) ==
    CASE c \in 65 .. 90 -> c - 65
      [] c \in 97 .. 122 -> c - 97 + 26
      [] c \in 48 .. 57 -> c - 48 + 53
      [] c = 43 -> 62
      [] c = 47 -> 63
      [] OTHER -> 0

Sextet(c) ==
    CASE c \in 65 .. 90 -> c - 65
      [] c \in 97 .. 122 -> c - 97 + 26
      [] c \in 48 .. 57 -> c - 48 + 52
      [] c = 43 -> 62
      [] c = 47 -> 63
      [] OTHER -> 0

(* index(x) and _chr(x) after j shifts.                                    *)
IndexAt(x, j) == (x \div 2 ^ (18 - 6 * j)) % 64
ByteAt(x, j) == (x \div 2 ^ (16 - 8 * j)) % 256

(* The first n characters of a group of bytes, the first n bytes of a      *)
(* group of characters; what is missing of the group is zero.              *)
Item(g, k) == IF k \in DOMAIN g THEN g[k] ELSE 0
Chars(g, n) ==
    LET x == Item(g, 1) * 65536 + Item(g, 2) * 256 + Item(g, 3)
    IN  [j \in 1 .. n |-> Char(IndexAt(x, j - 1))]
Bytes(g, n) ==
    LET v == [k \in DOMAIN g |-> Sextet(g[k])]
        x == Item(v, 1) * 262144 + Item(v, 2) * 4096 + Item(v, 3) * 64 + Item(v, 4)
    IN  [j \in 1 .. n |-> ByteAt(x, j - 1)]

(* The whole groups of n of s, and what is left of it.                     *)
Groups(s, n) == [k \in 1 .. Len(s) \div n |-> SubSeq(s, n * (k - 1) + 1, n * k)]
Rest(s, n) == SubSeq(s, n * (Len(s) \div n) + 1, Len(s))

Encode(s) ==
    LET rest == Rest(s, 3)
        groups == Groups(s, 3)
    IN  FlattenSeq([k \in DOMAIN groups |-> Chars(groups[k], 4)]) \o
       (CASE Len(rest) = 0 -> <<>>
          [] Len(rest) = 1 -> Chars(rest, 2) \o <<Equals, Equals>>
          [] Len(rest) = 2 -> Chars(rest, 3) \o <<Equals>>)

(* Of the last characters before the padding as many are taken as the      *)
(* padding leaves of a group, wherever the group begins.                   *)
Decode(s) ==
    LET text == SelectSeq(s, LAMBDA c : c # Equals)   \* padding is at the end
        m == Len(text)
        groups == Groups(text, 4)
    IN  FlattenSeq([k \in DOMAIN groups |-> Bytes(groups[k], 3)]) \o
       (CASE m + 1 = Len(s) -> Bytes(SubSeq(text, m - 2, m), 2)
          [] m + 2 = Len(s) -> Bytes(SubSeq(text, m - 1, m), 1)
          [] OTHER -> <<>>)

-----------------------------------------------------------------------------
VARIABLES
    plain, code, decoded,  \* a text, what became of it and of that
    coding                 \* idle, encoded, decoded

base64Vars == <<plain, code, decoded, coding>>

Init == plain = <<>> /\ code = <<>> /\ decoded = <<>> /\ coding = "idle"

B64Encode ==
    /\ coding = "idle"
    /\ \E n \in 0 .. MaxBytes : plain' \in [1 .. n -> SomeBytes]
    /\ code' = Encode(plain')
    /\ coding' = "encoded"
    /\ UNCHANGED decoded

B64Decode ==
    /\ coding = "encoded"
    /\ decoded' = Decode(code)
    /\ coding' = "decoded"
    /\ UNCHANGED <<plain, code>>

Next == B64Encode \/ B64Decode
Spec == Init /\ [][Next]_base64Vars

(* RFC 4648: the bits of the text, six by six, each six a character.       *)
Bit(s, n) == IF n \div 8 < Len(s) THEN (s[n \div 8 + 1] \div 2 ^ (7 - (n % 8))) % 2 ELSE 0
Reference(s) ==
    [k \in 1 .. 4 * ((Len(s) + 2) \div 3) |->
        IF 6 * (k - 1) >= 8 * Len(s) THEN Equals
        ELSE LET b(i) == Bit(s, 6 * (k - 1) + i) * 2 ^ (5 - i)
             IN  Char(b(0) + b(1) + b(2) + b(3) + b(4) + b(5))]

(* Every text is coded as RFC 4648 says, whatever its length leaves of a   *)
(* last group, and decoding gives it back.                                 *)
CodesAndBack ==
    /\ coding # "idle" => code = Reference(plain)
    /\ coding = "decoded" => decoded = plain
=============================================================================
