---------------------------- MODULE SrNetBinHttp ----------------------------
(***************************************************************************)
(* SrNetBinHttp (src/srnetbinhttp.cc): four kinds of transfers over one    *)
(* libcurl handle, which remembers every option it is given and does not   *)
(* copy what the options point to: the form that post() and postf() free   *)
(* after the transfer, the stream that getf() destroys when it returns,    *)
(* and the response buffer, which lives as long as the handle.  Forms and  *)
(* streams are numbered.                                                   *)
(***************************************************************************)
EXTENDS Integers

CONSTANTS
    MaxTransfers,   \* bound: the transfers
    MaxBody         \* bound: the bytes of an answer

BinHttpAssumption == MaxTransfers \in Nat /\ MaxBody \in Nat

VARIABLES
    options,     \* of the handle: method, url, the form and the sink
    live,        \* the forms and streams that exist
    op,          \* the transfer that is on, or none
    transfers,   \* the number of transfers begun, and the name of what is theirs
    body,        \* the bytes of this answer so far
    response,    \* the bytes in the response buffer
    returned     \* what the last transfer returned, or none

binVars == <<options, live, op, transfers, body, response, returned>>

Buffer == 0   \* the response buffer as a sink
NoForm == 0

Init ==
    /\ options = [method |-> "GET", url |-> "server", form |-> NoForm, sink |-> Buffer]
    /\ live = {Buffer} /\ op = "none" /\ transfers = 0
    /\ body = 0 /\ response = 0 /\ returned = -1

Uploads == {"post", "postf"}

(* Mutant of SinkOf: the option is left as it was.                         *)
SinkLeft(o) == IF o = "getf" THEN transfers' ELSE options.sink
(* Where the answer to a transfer goes, and by which method it is asked.   *)
SinkOf(o) == IF o = "getf" THEN transfers' ELSE Buffer
MethodOf(o) == IF o \in Uploads THEN "POST" ELSE "GET"

Begin(o) ==
    /\ op = "none" /\ transfers < MaxTransfers
    /\ op' = o
    /\ transfers' = transfers + 1
    /\ live' = IF o = "get" THEN live ELSE live \cup {transfers'}
    /\ options' = [method |-> MethodOf(o),
                   url |-> IF o \in Uploads THEN "server" ELSE "object",
                   form |-> IF o \in Uploads THEN transfers' ELSE options.form,
                   sink |-> SinkOf(o)]
    /\ body' = 0
    /\ UNCHANGED <<response, returned>>

(* dumpFunc() and writeFunc() *)
Receive ==
    /\ op # "none" /\ body < MaxBody /\ response < MaxBody
    /\ body' = body + 1
    /\ response' = IF options.sink = Buffer THEN response + 1 ELSE response
    /\ UNCHANGED <<options, live, op, transfers, returned>>

(* The form is freed before the result is looked at, the stream after.     *)
End(succeeds) ==
    /\ op # "none"
    /\ returned' = IF ~succeeds THEN -1 ELSE IF op = "getf" THEN body ELSE response
    /\ live' = live \ {transfers}
    /\ op' = "none"
    /\ UNCHANGED <<options, transfers, body, response>>

Clear ==
    /\ op = "none"
    /\ response' = 0
    /\ UNCHANGED <<options, live, op, transfers, body, returned>>

Next ==
    \/ \E o \in Uploads \cup {"get", "getf"} : Begin(o)
    \/ \E succeeds \in BOOLEAN : End(succeeds)
    \/ Receive \/ Clear

Spec == Init /\ [][Next]_binVars

-----------------------------------------------------------------------------
TypeOK ==
    /\ options \in [method : {"GET", "POST"}, url : {"server", "object"},
                    form : 0 .. MaxTransfers, sink : 0 .. MaxTransfers]
    /\ live \subseteq 0 .. MaxTransfers /\ op \in {"none", "get", "getf"} \cup Uploads
    /\ transfers \in 0 .. MaxTransfers
    /\ {body, response} \subseteq 0 .. MaxBody /\ returned \in -1 .. MaxBody

(* Whatever transfers came before, libcurl uses during a transfer only     *)
(* what exists: it reads a form only to upload it, and that one is of this *)
(* transfer; what it receives goes to the buffer, or to the stream of this *)
(* getf().                                                                 *)
OptionsAreTheTransfers ==
    op # "none" =>
        /\ options.sink \in live
        /\ (options.sink = Buffer) = (op # "getf")
        /\ (options.method = "POST") = (op \in Uploads)
        /\ options.method = "POST" => options.form = transfers /\ transfers \in live
=============================================================================
