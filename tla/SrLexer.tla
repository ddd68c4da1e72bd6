------------------------------- MODULE SrLexer -------------------------------
(***************************************************************************)
(* SrLexer and SrParser (src/smartrest.cc, include/smartrest.h): a text is *)
(* scanned value by value, and the values up to the end of a line make a   *)
(* record.  A character is one of Characters, which stand for the classes  *)
(* the lexer tells apart; positions count from 0, as in the code.          *)
(*                                                                         *)
(* A value that opens a quote and never closes it makes the lexer read     *)
(* past the end of the text, which is undefined: the model stops there.    *)
(***************************************************************************)
EXTENDS Integers, Sequences, SequencesExt, FiniteSetsExt

CONSTANTS
    MaxText,    \* bound: the length of the texts that nobody wrote
    MaxValue,   \* bound: the length of the values of the records written
    MaxRecord   \* bound: the values of the record written

LexerAssumption ==
    MaxText \in Nat /\ MaxValue \in Nat /\ MaxRecord \in Nat

Comma == ","
Quote == "'"       \* stands for the double quote
Newline == "nl"
Space == " "
Control == "ctl"   \* not printable, and no newline: \r, \t
Digit == "0"
Dot == "."
Sign == "-"
Letter == "a"

Characters ==
    {Comma, Quote, Newline, Space, Control, Digit, Dot, Sign, Letter}
Printable == Characters \ {Newline, Control}
Graphic == Printable \ {Space}

(* The texts and values of at most n characters.                           *)
TextsUpTo(n) == UNION {[1 .. k -> Characters] : k \in 0 .. n}

(* s[i] of the code; the position of the end holds NUL.                    *)
At(s, i) == IF i < Len(s) THEN s[i + 1] ELSE "NUL"

(* Positions from i up to the end where P holds of the character.          *)
First(s, i, P(_)) == Min({k \in i .. Len(s) : k = Len(s) \/ P(At(s, k))})

(* What lies before a value: the separator that ended the last one, and    *)
(* garbage.                                                                *)
SeparatorAt(s, i) == First(s, i, LAMBDA x : x \in {Comma, Newline})
ValueAt(s, i) == First(s, i, LAMBDA x : x \in Graphic \cup {Newline})

(* In a quoted value that begins at b two quotes stand for one: the second *)
(* of a pair is kept, and a quote that is not in a pair closes the value.  *)
RunOfQuotes(s, b, i) == i - Max({b - 1} \cup {k \in b .. i : At(s, k) # Quote})
IsClosing(s, b, i) ==
    At(s, i) = Quote /\ At(s, i + 1) # Quote /\ RunOfQuotes(s, b, i) % 2 = 1

Kept(s, b, i) == At(s, i) # Quote \/ RunOfQuotes(s, b, i) % 2 = 0

(* The characters of the text from b up to e for which P holds of the      *)
(* place.                                                                  *)
Cut(s, b, e, P(_)) ==
    LET places == SelectSeq([k \in 1 .. e - b |-> b + k - 1], P)
    IN  [k \in DOMAIN places |-> At(s, places[k])]

(* The type of a value; the sign in front of it has been set aside.        *)
TypeOf(sign, body) ==
    LET digits == Len(SelectSeq(body, LAMBDA x : x = Digit))
        dots == Len(SelectSeq(body, LAMBDA x : x = Dot))
    IN  CASE digits + dots < Len(body) \/ dots > 1 -> "STRING"
          [] dots = 1 -> IF digits > 0 THEN "FLOAT" ELSE "STRING"
          [] digits > 0 /\ dots = 0 -> "INT"
          [] OTHER -> IF sign = <<>> THEN "NONE" ELSE "STRING"

(* next(), for a text and where the last value ended: the token and its    *)
(* places.  A token of type Undefined stands for a read past the end.      *)
Token(type, value, pre, start, end) ==
    [type |-> type, value |-> value, pre |-> pre, start |-> start, end |-> end]

QuotedToken(s, pre, start) ==
    LET b == start + 1
        closing == {i \in b .. Len(s) - 1 : IsClosing(s, b, i)}
        e == Min(closing)
        body == Cut(s, b, e, LAMBDA i : Kept(s, b, i))
    IN  IF closing = {} THEN Token("Undefined", <<>>, pre, start, Len(s))
        ELSE Token(TypeOf(<<>>, body), body, pre, start, e + 1)

PlainToken(s, pre, start) ==
    LET sign == IF At(s, start) = Sign THEN <<Sign>> ELSE <<>>
        b == start + Len(sign)
        e == First(s, b, LAMBDA x : x \notin Printable \ {Quote, Comma})
        body == Cut(s, b, e, LAMBDA i : TRUE)
    IN  Token(TypeOf(sign, body), sign \o body, pre, start, e)

Scan(s, end, delimit) ==
    LET sep == SeparatorAt(s, end)
        pre == IF ~delimit THEN end ELSE IF At(s, sep) = Comma THEN sep + 1 ELSE sep
        start == ValueAt(s, pre)
    IN  IF end = Len(s) THEN Token("EOB", <<>>, end, end, end)
        ELSE IF delimit /\ At(s, sep) = Newline
        THEN Token("NEWLINE", <<Newline>>, end, sep, sep + 1)
        ELSE IF At(s, start) = Quote THEN QuotedToken(s, pre, start)
        ELSE PlainToken(s, pre, start)

IsDelimiter(tok) == tok.type \in {"NEWLINE", "EOB"}

-----------------------------------------------------------------------------
(* A writer of records, which the code leaves to the server: it may put    *)
(* any value in quotes, and must unless the value is plain.  A field is a  *)
(* value, whether it is quoted, and the separator behind it.               *)
Plain(v) ==
    /\ \A k \in DOMAIN v : v[k] \in Printable \ {Quote, Comma}
    /\ v # <<>> => v[1] # Space

Fields ==
    {f \in [value : TextsUpTo(MaxValue), quoted : BOOLEAN, sep : {Comma, Newline}] :
        f.quoted \/ Plain(f.value)}

Write(f) ==
    (IF f.quoted
     THEN <<Quote>> \o FlattenSeq([k \in DOMAIN f.value |->
             IF f.value[k] = Quote THEN <<Quote, Quote>> ELSE <<f.value[k]>>])
          \o <<Quote>>
     ELSE f.value) \o <<f.sep>>

(* The records that fields stand for: a line's end ends a record.          *)
Add(rs, f) ==
    LET open == Append(Last(rs), f.value)
    IN  Append(Front(rs), open) \o (IF f.sep = Newline THEN << <<>> >> ELSE <<>>)
RecordsOf(fs) == FoldLeft(Add, << <<>> >>, fs)

-----------------------------------------------------------------------------
VARIABLES
    text, end, delimit,  \* s, end and delimit of the lexer
    lexing,              \* idle, record (in SrParser::next), done, undefined
    record, pre, start,  \* the values of the record and where it begins
    records,             \* history: what next() returned for this text
    wrote                \* history: the fields that were written, if any

lexerVars == <<text, end, delimit, lexing, record, pre, start, records, wrote>>

None == [value |-> <<>>, quoted |-> FALSE, sep |-> "none"]

Init ==
    /\ text = <<>> /\ end = 0 /\ delimit = FALSE
    /\ lexing = "done" /\ record = <<>> /\ pre = 0 /\ start = 0
    /\ records = <<>> /\ wrote = <<None>>

Reset(s, fields) ==
    /\ text' = s /\ end' = 0 /\ delimit' = FALSE
    /\ lexing' = "idle" /\ record' = <<>> /\ pre' = 0 /\ start' = 0
    /\ records' = <<>> /\ wrote' = fields

(* Mutant of Lex: the end of a line is taken for a value.                  *)
LexDelimitsAll(tok) ==
    /\ end' = tok.end
    /\ delimit' = IF tok.type = "EOB" THEN delimit ELSE TRUE
    /\ pre' = IF lexing = "idle" THEN tok.pre ELSE pre
    /\ start' = IF lexing = "idle" THEN tok.start ELSE start
    /\ UNCHANGED <<text, wrote>>

(* SrParser::next(): the first token says where the record begins.         *)
Lex(tok) ==
    /\ end' = tok.end
    /\ delimit' = IF tok.type = "EOB" THEN delimit ELSE tok.type # "NEWLINE"
    /\ pre' = IF lexing = "idle" THEN tok.pre ELSE pre
    /\ start' = IF lexing = "idle" THEN tok.start ELSE start
    /\ UNCHANGED <<text, wrote>>

NextValue ==
    LET tok == Scan(text, end, delimit) IN
    /\ lexing \in {"idle", "record"}
    /\ ~IsDelimiter(tok) /\ tok.type # "Undefined"
    /\ Lex(tok)
    /\ record' = Append(record, tok.value)
    /\ lexing' = "record"
    /\ UNCHANGED records

(* The callers stop at the first record without values.                    *)
EndOfRecord ==
    LET tok == Scan(text, end, delimit) IN
    /\ lexing \in {"idle", "record"}
    /\ IsDelimiter(tok)
    /\ Lex(tok)
    /\ records' = Append(records, [values |-> record, pre |-> pre', end |-> tok.end])
    /\ record' = <<>>
    /\ lexing' = IF record = <<>> THEN "done" ELSE "idle"

Overrun ==
    /\ lexing \in {"idle", "record"}
    /\ Scan(text, end, delimit).type = "Undefined"
    /\ lexing' = "undefined"
    /\ UNCHANGED <<text, end, delimit, record, pre, start, records, wrote>>

ResetToAny ==
    /\ text = <<>>
    /\ \E s \in TextsUpTo(MaxText) : Reset(s, <<None>>)

ResetToWritten ==
    /\ text = <<>>
    /\ \E n \in 1 .. MaxRecord : \E fields \in [1 .. n -> Fields] :
         /\ fields[n].sep = Newline
         /\ Reset(FlattenSeq([k \in 1 .. n |-> Write(fields[k])]), fields)

Next ==
    \/ ResetToAny \/ ResetToWritten
    \/ NextValue \/ EndOfRecord \/ Overrun

Spec == Init /\ [][Next]_lexerVars

-----------------------------------------------------------------------------
TypeOK ==
    /\ text \in Seq(Characters) /\ end \in 0 .. Len(text) /\ delimit \in BOOLEAN
    /\ lexing \in {"idle", "record", "done", "undefined"}
    /\ pre \in 0 .. end /\ start \in 0 .. Len(text)

(* What a writer wrote is read back, value by value and record by record,  *)
(* whatever it put in quotes: commas, quotes, line ends and spaces         *)
(* included (include/smartrest.h: "The value can contain white spaces, and *)
(* escaped commas, double quote, control characters").                     *)
ReadsBack ==
    wrote # <<None>> =>
        /\ lexing # "undefined"
        /\ lexing = "done" =>
              [k \in DOMAIN records |-> records[k].values] = RecordsOf(wrote)

(* The places of the records cover the text without a gap or an overlap,   *)
(* and the record without values that makes callers stop comes at its end  *)
(* only: SrDevicePush cuts the text between these places, and SrAgent      *)
(* hands on all its lines.                                                 *)
RecordsCoverTheText ==
    /\ \A k \in DOMAIN records :
          /\ records[k].pre = (IF k = 1 THEN 0 ELSE records[k - 1].end)
          /\ records[k].values = <<>> => records[k].pre = Len(text)
    /\ lexing = "done" /\ records # <<>> => Last(records).end = Len(text)
=============================================================================
