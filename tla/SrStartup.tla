------------------------------ MODULE SrStartup ------------------------------
(***************************************************************************)
(* How a device comes to talk to the server: SrBootstrap gets credentials  *)
(* from their file or from the server (src/srbootstrap.cc), SrAgent takes  *)
(* them (src/sragent.cc), and Integrate registers the template and the     *)
(* device (src/srutils.cc, examples/ex-05-template).  main() gives up at   *)
(* the first failure; whoever started the program starts it again.         *)
(*                                                                         *)
(* A credential is the number of the server's answer it is from, 0 for an  *)
(* empty string, and negative where only its beginning reached the file.   *)
(***************************************************************************)
EXTENDS Integers, Sequences

CONSTANTS
    MaxRequests,   \* MAX_CREDENTIAL_REQUESTS
    MaxFaults      \* bound: lost messages, refusals, kills, failing writes

StartupAssumption == MaxRequests \in Nat /\ MaxFaults \in Nat

VARIABLES
    file,          \* the credentials' file: the words in it, NoFile if none
    stage,         \* what main() is at
    cred,          \* _tenant, _username, _password
    requests,      \* the requests of this requestCredential()
    xid, id,       \* of Integrate
    agent,         \* history: what SrAgent took over: <<credentials, xid, id>>
    answers,       \* server: the credentials it gave out so far
    template,      \* server: whether it knows the template
    identity,      \* server: the object registered for the device, 0 if none
    objects,       \* server: the objects created
    faults

startupServer == <<answers, template, identity, objects>>
startupVars == <<file, stage, cred, requests, xid, id, agent, startupServer, faults>>

NoFile == <<0>>
NoCredentials == <<0, 0, 0>>

Init ==
    /\ file = NoFile
    /\ stage = "load" /\ cred = NoCredentials /\ requests = 0
    /\ xid = "" /\ id = 0 /\ agent = <<NoCredentials, "", 0>>
    /\ answers = 0 /\ template = FALSE /\ identity = 0 /\ objects = 0
    /\ faults = 0

Fault == faults < MaxFaults /\ faults' = faults + 1
Exit == stage' = "exit"

(* bootstrap() hands its fields over, also when it fails.                  *)
Booted == agent' = [agent EXCEPT ![1] = cred']

-----------------------------------------------------------------------------
(* SrBootstrap *)

(* The stream that read all three words is good.                           *)
AllRead(words) == words # NoFile /\ Len(words) = 3

(* Mutant of LoadCredential: a file that is cut short ends the program.    *)
LoadCredentialGivesUp ==
    /\ stage = "load"
    /\ cred' = IF file = NoFile THEN cred
               ELSE [k \in 1 .. 3 |-> IF k <= Len(file) THEN file[k] ELSE cred[k]]
    /\ IF AllRead(file) THEN stage' = "read" /\ Booted
       ELSE IF file = NoFile THEN stage' = "request" /\ UNCHANGED agent
       ELSE Exit /\ Booted
    /\ requests' = 0
    /\ UNCHANGED <<file, xid, id, startupServer, faults>>

(* The words that are missing in the file leave the fields as they are.    *)
LoadCredential ==
    /\ stage = "load"
    /\ cred' = IF file = NoFile THEN cred
               ELSE [k \in 1 .. 3 |-> IF k <= Len(file) THEN file[k] ELSE cred[k]]
    /\ IF AllRead(file)
       THEN stage' = "read" /\ Booted
       ELSE stage' = "request" /\ UNCHANGED agent
    /\ requests' = 0
    /\ UNCHANGED <<file, xid, id, startupServer, faults>>

(* No answer, or one that is not 70: the next request, if one is left.     *)
RequestAgain ==
    /\ stage = "request"
    /\ Fault
    /\ requests' = requests + 1
    /\ UNCHANGED <<file, cred, xid, id, startupServer>>
    /\ IF requests' = MaxRequests THEN Exit /\ Booted ELSE UNCHANGED <<stage, agent>>

(* The answer 70 with the first n of the three fields.                     *)
RequestCredential(n) ==
    /\ stage = "request"
    /\ IF n < 3 THEN Fault ELSE UNCHANGED faults
    /\ answers' = answers + 1
    /\ cred' = [k \in 1 .. 3 |-> IF k <= n THEN answers' ELSE cred[k]]
    /\ IF n = 3 THEN stage' = "open" /\ UNCHANGED agent ELSE Exit /\ Booted
    /\ UNCHANGED <<file, requests, xid, id, template, identity, objects>>

(* saveCredential() truncates the file, or cannot open it.  What it writes *)
(* reaches the file when the stream is destroyed, after it has succeeded:  *)
(* on a full disk a part of it.                                            *)
SaveOpen(opens) ==
    /\ stage = "open"
    /\ UNCHANGED <<cred, requests, xid, id, startupServer>>
    /\ IF opens THEN file' = <<>> /\ stage' = "flush" /\ UNCHANGED <<agent, faults>>
       ELSE Fault /\ Exit /\ Booted /\ UNCHANGED file

Written == {<<>>, <<cred[1]>>, <<cred[1], cred[2]>>, <<cred[1], cred[2], - cred[3]>>}

SaveFlush(words) ==
    /\ stage = "flush"
    /\ IF words = cred THEN UNCHANGED faults ELSE Fault
    /\ file' = words
    /\ UNCHANGED <<cred, requests, xid, id, startupServer>>
    /\ stage' = "read" /\ Booted

-----------------------------------------------------------------------------
(* readSrTemplate(), Integrate::integrate() and registerSrTemplate().  The *)
(* stage is the request that is posted next; the server acts on a request  *)
(* that reaches it, and its answer may be lost.                            *)

ReadSrTemplate(succeeds) ==
    /\ stage = "read"
    /\ IF succeeds THEN stage' = "empty" /\ UNCHANGED faults ELSE Fault /\ Exit
    /\ UNCHANGED <<file, cred, requests, xid, id, agent, startupServer>>

(* What the server makes of a request.                                     *)
Effect ==
    /\ template' = (template \/ stage = "template")
    /\ objects' = IF stage = "101" THEN objects + 1 ELSE objects
    /\ identity' = IF stage = "102" THEN id ELSE identity
    /\ UNCHANGED answers

Posts == {"empty", "template", "100", "101", "102"}

(* post() <= 0 is a failure of integrate().                                *)
PostFails(arrives) ==
    /\ stage \in Posts
    /\ Fault
    /\ IF arrives THEN Effect ELSE UNCHANGED startupServer
    /\ Exit
    /\ UNCHANGED <<file, cred, requests, xid, id, agent>>

Integrated == stage' = "up" /\ agent' = [agent EXCEPT ![2] = xid, ![3] = id']

(* Mutants of the two: every device is new, no template is.                *)
DeviceAlwaysUnknown == TRUE
TemplateNeverUnknown == FALSE

(* The answers 50 and 40.                                                  *)
DeviceUnknown == identity = 0
TemplateUnknown == ~template

(* What the program makes of the answer.                                   *)
Answered ==
    \/ /\ stage = "empty" /\ TemplateUnknown
       /\ stage' = "template" /\ UNCHANGED <<xid, id, agent>>
    \/ /\ stage = "template" \/ (stage = "empty" /\ ~TemplateUnknown)
       /\ xid' = "xid" /\ stage' = "100" /\ UNCHANGED <<id, agent>>
    \/ /\ stage = "100" /\ DeviceUnknown
       /\ stage' = "101" /\ UNCHANGED <<xid, id, agent>>
    \/ /\ stage = "100" /\ ~DeviceUnknown
       /\ id' = identity /\ Integrated /\ UNCHANGED xid
    \/ /\ stage = "101"
       /\ id' = objects' /\ stage' = "102" /\ UNCHANGED <<xid, agent>>
    \/ /\ stage = "102"
       /\ UNCHANGED <<xid, id>> /\ Integrated

Post ==
    /\ stage \in Posts
    /\ Effect
    /\ Answered
    /\ UNCHANGED <<file, cred, requests, faults>>

-----------------------------------------------------------------------------
Restarted ==
    /\ stage' = "load" /\ cred' = NoCredentials /\ requests' = 0
    /\ xid' = "" /\ id' = 0 /\ agent' = <<NoCredentials, "", 0>>
    /\ UNCHANGED <<file, startupServer>>

Restart == stage = "exit" /\ Restarted /\ UNCHANGED faults
Kill == stage # "exit" /\ Fault /\ Restarted

Goes ==
    \/ LoadCredential \/ RequestCredential(3)
    \/ SaveOpen(TRUE) \/ SaveFlush(cred)
    \/ ReadSrTemplate(TRUE) \/ Post \/ Restart

Fails ==
    \/ RequestAgain
    \/ \E n \in 0 .. 2 : RequestCredential(n)
    \/ SaveOpen(FALSE)
    \/ \E words \in Written : SaveFlush(words)
    \/ ReadSrTemplate(FALSE)
    \/ \E arrives \in BOOLEAN : PostFails(arrives)
    \/ Kill

Next == Goes \/ Fails

(* The program goes on, and is started again; the server gives credentials *)
(* to a device that keeps asking.                                          *)
Fairness == WF_startupVars(Goes)

Spec == Init /\ [][Next]_startupVars /\ Fairness

-----------------------------------------------------------------------------
TypeOK ==
    /\ file \in Seq(Int) /\ Len(file) <= 3
    /\ stage \in {"load", "request", "open", "flush", "read", "up", "exit"} \cup Posts
    /\ cred \in [1 .. 3 -> Int] /\ requests \in 0 .. MaxRequests
    /\ xid \in {"", "xid"} /\ id \in 0 .. objects
    /\ identity \in 0 .. objects /\ objects \in Nat /\ answers \in Nat
    /\ template \in BOOLEAN /\ faults \in 0 .. MaxFaults

(* The credentials a device goes on with are of one answer of the server,  *)
(* although a file that was cut short leaves some of its words in them; of *)
(* the password it may be the beginning.                                   *)
CredentialsOfOneAnswer ==
    stage \notin {"load", "request", "open", "flush", "exit"} =>
        /\ agent[1][1] \in 1 .. answers
        /\ agent[1][2] = agent[1][1]
        /\ agent[1][3] \in {agent[1][1], - agent[1][1]}

(* A device that is up uses the object it is registered with and a         *)
(* template that the server knows, whatever was lost, and however often    *)
(* the program was stopped and started, before.                            *)
UpAsRegistered ==
    stage = "up" => /\ identity # 0 /\ agent[3] = identity
                    /\ template /\ agent[2] = "xid"

(* The device keeps the object it is registered with.                      *)
RegisteredOnce == [][identity # 0 => identity' = identity]_startupVars

(* Once the faults end the device comes up.                                *)
ComesUp == <>[](stage = "up")
=============================================================================
