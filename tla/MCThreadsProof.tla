--------------------------- MODULE MCThreadsProof ---------------------------
(***************************************************************************)
(* The proofs about the parts that MCThreads puts side by side: the        *)
(* watchdog and its program, the start of a device, the push thread and    *)
(* the reporter's thread over MQTT.                                        *)
(* The invariants of the parts are inductive in their own steps, and the   *)
(* steps of the other parts leave their variables alone.                   *)
(***************************************************************************)
EXTENDS MCThreads, SeqInduction

-----------------------------------------------------------------------------
(***************************************************************************)
(* The watchdog (SrWatchdog).                                              *)
(***************************************************************************)
(* The inductive invariant *)

Live == child \in {"running", "hung"}

(* The next kick writes the value after mark. *)
InStep ==
    \/ mark + 1 < Wrap /\ c = mark + 1
    \/ mark + 1 = Wrap /\ c = 0

(* kicks is how far mark is ahead of shadow. *)
Ahead == shadow + kicks = mark \/ shadow + kicks = mark + Wrap

(* The timer belongs to the program. *)
Timers ==
    /\ Live => timers = 1
    /\ child = "loading" => timers = 0 /\ kicks = 0

(* The daemon does not wait longer than it should. *)
Ages ==
    /\ age <= Val + nap
    /\ timers = 0 => age <= nap
    /\ pc = "copy" => age = 0

(* A kick is at most a turn older than the time the daemon knows, and one  *)
(* it has not noticed is younger than its sleep.                           *)
Silence ==
    /\ Live => since <= age + MaxNap
    /\ Live /\ mark # shadow => since <= nap
    /\ child = "running" => since <= Gap

(* How old the daemon believes a healthy program's last kick to be.        *)
NotKicked == kicks = 0 /\ age <= since + MaxNap
FirstKicks == kicks > 0 /\ InStep /\ age <= Gap + MaxNap + nap
Quiet ==
    kicks = 0 /\ InStep /\ mark = shadow /\ age <= since + Gap + 2 * MaxNap
Kicked == kicks > 0 /\ InStep /\ Ahead

Healthy == child = "running" => NotKicked \/ FirstKicks \/ Quiet \/ Kicked

WatchdogInv == TypeOK /\ Timers /\ Ages /\ Silence /\ Healthy /\ HealthyNeverKilled

-----------------------------------------------------------------------------
(* Counting modulo Wrap. *)
LEMMA NextMark ==
    ASSUME NEW x \in 0 .. Wrap - 1
    PROVE  (x + 1) % Wrap = IF x + 1 = Wrap THEN 0 ELSE x + 1
  BY WatchdogAssumption

(* The initial states satisfy the invariant. *)
LEMMA InitWatchdog == Init => WatchdogInv
<1> SUFFICES ASSUME Init PROVE WatchdogInv
  OBVIOUS
<1>1. TypeOK
  <2>1. 0 \in 0 .. MaxNap /\ 0 \in 0 .. Wrap - 1 /\ 0 \in 0 .. MaxKicks
    BY WatchdogAssumption
  <2>2. quit \in BOOLEAN
    BY Zenon DEF Init
  <2> QED
    BY <2>1, <2>2 DEF Init, TypeOK, Children
<1>2. Timers /\ Ages /\ Silence /\ Healthy /\ HealthyNeverKilled
  BY WatchdogAssumption
     DEF Init, Live, Timers, Ages, Silence, Healthy, HealthyNeverKilled
<1> QED
  BY <1>1, <1>2 DEF WatchdogInv

-----------------------------------------------------------------------------
(* Every step keeps it. *)
LEMMA StepWatchdog == WatchdogInv /\ [Next]_vars => WatchdogInv'
<1> SUFFICES ASSUME WatchdogInv, [Next]_vars PROVE WatchdogInv'
  OBVIOUS
<1> USE WatchdogAssumption DEF WatchdogInv, TypeOK, Children, Live, InStep,
        Ahead, Timers, Ages,
           Silence, NotKicked, FirstKicks, Quiet, Kicked, Healthy,
           HealthyNeverKilled
<1>1. CASE Fork
  BY <1>1 DEF Fork, daemon, program
<1>2. CASE Leave
  BY <1>2 DEF Leave, daemon, program
<1>3. CASE Wake
  BY <1>3 DEF Wake, daemon, program
<1>4. CASE Reap
  BY <1>4 DEF Reap, daemon, program
<1>5. CASE Look
  <2> USE <1>5 DEF Look, program
  <2>1. CASE Noticed /\ Collect /\ age' = 0 /\ pc' = "copy" /\ UNCHANGED <<nap, killed>>
    <3>1. quit' \in BOOLEAN
      BY <2>1 DEF Collect
    <3> QED
      BY <2>1, <3>1 DEF Noticed, Collect
  <2>2. CASE /\ ~Noticed /\ age <= Val /\ Collect /\ nap' = 0 /\ pc' = "sleep"
             /\ UNCHANGED <<age, killed>>
    <3>1. quit' \in BOOLEAN
      BY <2>2 DEF Collect
    <3> QED
      BY <2>2, <3>1 DEF Noticed, Collect
  <2>3. CASE /\ ~Noticed /\ age > Val /\ quit' = (quit \/ child = "exited")
             /\ killed' = child /\ child' = "none" /\ pc' = "fork"
             /\ UNCHANGED <<age, nap>>
    <3>1. quit' \in BOOLEAN
      BY <2>3
    <3>2. child # "running"
      BY <2>3 DEF Noticed
    <3> QED
      BY <2>3, <3>1, <3>2 DEF Noticed
  <2> QED
    BY <2>1, <2>2, <2>3
<1>6. CASE Copy
  BY <1>6 DEF Copy, daemon, program
<1>7. CASE Signal
  BY <1>7 DEF Signal, daemon, program
<1>8. CASE Register
  BY <1>8 DEF Register, Step, daemon, program
<1>9. CASE Kick
  BY <1>9, NextMark DEF Kick, Step, daemon, program
<1>10. CASE Hang
  BY <1>10 DEF Hang, Step, daemon, program
<1>11. CASE Crash
  BY <1>11 DEF Crash, Step, daemon, program
<1>12. CASE Exit
  BY <1>12 DEF Exit, Step, daemon, program
<1>13. CASE Tick
  BY <1>13 DEF Tick, daemon, program
<1>14. CASE UNCHANGED vars
  BY <1>14 DEF vars, daemon, program
<1> QED
  BY <1>1, <1>2, <1>3, <1>4, <1>5, <1>6, <1>7, <1>8, <1>9, <1>10, <1>11, <1>12,
     <1>13, <1>14 DEF Next

-----------------------------------------------------------------------------
(* The invariant holds in every state. *)
THEOREM WatchdogInvariance == Spec => []WatchdogInv
  BY InitWatchdog, StepWatchdog, PTL DEF Spec

(* Every variable keeps its type. *)
THEOREM WatchdogTypeCorrect == Spec => []TypeOK
<1>1. WatchdogInv => TypeOK
  BY DEF WatchdogInv
<1> QED
  BY <1>1, WatchdogInvariance, PTL

(* A program that kicks at least every Gap seconds is never killed, when   *)
(* Val is at least 2 * Gap + 2 * MaxNap (srwatchdogd.cc 100-157).          *)
THEOREM HealthyIsNeverKilled == Spec => []HealthyNeverKilled
<1>1. WatchdogInv => HealthyNeverKilled
  BY DEF WatchdogInv
<1> QED
  BY <1>1, WatchdogInvariance, PTL

(* A program that hangs does not outlive its last kick by more than Val    *)
(* seconds and two turns of the daemon (srwatchdogd.cc 132-159).           *)
THEOREM HungIsKilledInTime == Spec => []KilledInTime
<1>1. WatchdogInv => KilledInTime
  BY WatchdogAssumption
     DEF WatchdogInv, TypeOK, Ages, Silence, Live, KilledInTime
<1> QED
  BY <1>1, WatchdogInvariance, PTL

-----------------------------------------------------------------------------
(***************************************************************************)
(* The start of a device (SrStartup).                                      *)
(***************************************************************************)
(* The inductive invariant *)

(* Three words of one answer; the last may be its beginning. *)
OneAnswer(words) ==
    /\ words[1] \in 1 .. answers
    /\ words[2] = words[1]
    /\ words[3] \in {words[1], - words[1]}

Numbers ==
    /\ answers \in Nat /\ objects \in Nat /\ identity \in 0 .. objects
    /\ id \in 0 .. objects
    /\ DOMAIN agent = 1 .. 3

(* A file that has all three words is whole, and what is about to be       *)
(* written is whole; from then on the agent has it.                        *)
Credentials ==
    /\ Startup!AllRead(file) => OneAnswer(file)
    /\ stage \in {"open", "flush"} =>
          /\ cred[1] \in 1 .. answers
          /\ cred = [k \in 1 .. 3 |-> cred[1]]
    /\ stage \in {"read", "up"} \cup Startup!Posts => OneAnswer(agent[1])

(* What the posts so far have achieved: only a device that the server does *)
(* not know gets to the posts that create it.                              *)
Registration ==
    /\ stage \in {"load", "request", "open", "flush", "read", "up", "exit"} \cup Startup!Posts
    /\ stage \in {"100", "101", "102", "up"} => template /\ xid = "xid"
    /\ stage \in {"101", "102"} => identity = 0
    /\ stage = "102" => id # 0
    /\ stage = "up" => identity # 0 /\ agent[3] = identity /\ agent[2] = "xid"

StartupInv == Numbers /\ Credentials /\ Registration

-----------------------------------------------------------------------------
(* A triple as a function. *)
LEMMA TripleDomain == ASSUME NEW a, NEW b, NEW x PROVE DOMAIN <<a, b, x>> = 1 .. 3
  OBVIOUS

LEMMA FewerAreNotAll ==
    ASSUME NEW a, NEW b
    PROVE  ~Startup!AllRead(<<>>) /\ ~Startup!AllRead(<<a>>) /\ ~Startup!AllRead(<<a, b>>)
<1>1. Len(<<>>) # 3 /\ Len(<<a>>) # 3 /\ Len(<<a, b>>) # 3
  OBVIOUS
<1> QED
  BY <1>1, Zenon DEF Startup!AllRead

(* The agent's first field is what bootstrap() hands over. *)
LEMMA BootedGives ==
    ASSUME DOMAIN agent = 1 .. 3, Startup!Booted
    PROVE  DOMAIN agent' = 1 .. 3 /\ agent'[1] = cred'
  BY DEF Startup!Booted

-----------------------------------------------------------------------------
(* The initial states satisfy the invariant. *)
LEMMA InitStartup == Startup!Init => StartupInv
<1> SUFFICES ASSUME Startup!Init PROVE StartupInv
  OBVIOUS
<1>1. Numbers
  <2>1. DOMAIN agent = 1 .. 3
    BY TripleDomain, Zenon DEF Startup!Init
  <2>2. answers = 0 /\ objects = 0 /\ identity = 0 /\ id = 0
    BY Zenon DEF Startup!Init
  <2> QED
    BY ONLY <2>1, <2>2 DEF Numbers
<1>2. Credentials
  BY DEF Startup!Init, Credentials, Startup!AllRead, Startup!Posts
<1>3. Registration
  BY DEF Startup!Init, Registration, Startup!Posts
<1> QED
  BY <1>1, <1>2, <1>3 DEF StartupInv

-----------------------------------------------------------------------------
(* A start of the program keeps it. *)
LEMMA RestartedKeeps == StartupInv /\ Startup!Restarted => StartupInv'
<1> SUFFICES ASSUME StartupInv, Startup!Restarted PROVE StartupInv'
  OBVIOUS
<1>1. Numbers'
  <2>1. DOMAIN agent' = 1 .. 3
    BY TripleDomain, Zenon DEF Startup!Restarted
  <2>2. id' = 0 /\ UNCHANGED <<answers, objects, identity>>
    BY Zenon DEF Startup!Restarted, Startup!startupServer
  <2> QED
    BY ONLY <2>1, <2>2, StartupInv DEF StartupInv, Numbers
<1>2. Credentials'
  BY DEF StartupInv, Credentials, Startup!Restarted, Startup!startupServer,
     Startup!AllRead, OneAnswer, Startup!Posts
<1>3. Registration'
  BY DEF Registration, Startup!Restarted, Startup!Posts
<1> QED
  BY <1>1, <1>2, <1>3 DEF StartupInv

(* bootstrap(): the words of the file, or of an answer, reach the agent.   *)
LEMMA LoadCredentialKeeps == StartupInv /\ Startup!LoadCredential => StartupInv'
<1> SUFFICES ASSUME StartupInv, Startup!LoadCredential PROVE StartupInv'
  OBVIOUS
<1> USE DEF Startup!LoadCredential, Startup!startupServer
<1>1. Registration'
  BY DEF Registration, Startup!Posts
<1>2. Numbers'
  BY BootedGives DEF StartupInv, Numbers
<1>3. Credentials'
  <2>1. CASE Startup!AllRead(file)
    <3>1. cred' = [k \in 1 .. 3 |-> file[k]] /\ stage' = "read" /\ Startup!Booted
      BY <2>1 DEF Startup!AllRead
    <3>2. OneAnswer(agent[1])'
      BY <2>1, <3>1, BootedGives DEF StartupInv, Numbers, Credentials, OneAnswer
    <3> QED
      BY <2>1, <3>1, <3>2
         DEF StartupInv, Credentials, Startup!AllRead, OneAnswer
  <2>2. CASE ~Startup!AllRead(file)
    BY <2>2 DEF Credentials, Startup!AllRead, Startup!Posts
  <2> QED
    BY <2>1, <2>2
<1> QED
  BY <1>1, <1>2, <1>3 DEF StartupInv

LEMMA RequestAgainKeeps == StartupInv /\ Startup!RequestAgain => StartupInv'
<1> SUFFICES ASSUME StartupInv, Startup!RequestAgain PROVE StartupInv'
  OBVIOUS
<1>1. stage' \in {"request", "exit"} /\ UNCHANGED <<file, id, Startup!startupServer>>
  BY DEF Startup!RequestAgain, Startup!Exit
<1>2. DOMAIN agent' = 1 .. 3
  BY BootedGives DEF Startup!RequestAgain, StartupInv, Numbers
<1> QED
  BY <1>1, <1>2
     DEF StartupInv, Numbers, Credentials, Registration, Startup!startupServer,
         Startup!AllRead, OneAnswer, Startup!Posts

LEMMA RequestCredentialKeeps ==
    ASSUME StartupInv, NEW n \in 0 .. 3, Startup!RequestCredential(n)
    PROVE  StartupInv'
<1> USE DEF Startup!RequestCredential
<1>1. /\ answers' = answers + 1 /\ UNCHANGED <<file, id, identity, objects>>
      /\ stage' = (IF n = 3 THEN "open" ELSE "exit")
  BY DEF Startup!Exit
<1>2. Numbers'
  BY <1>1, BootedGives DEF StartupInv, Numbers
<1>3. Registration'
  BY <1>1 DEF Registration, Startup!Posts
<1>4. Startup!AllRead(file)' => OneAnswer(file)'
  BY <1>1 DEF StartupInv, Numbers, Credentials, Startup!AllRead, OneAnswer
<1>5. n = 3 => cred' = [k \in 1 .. 3 |-> answers']
  OBVIOUS
<1>6. n = 3 => cred'[1] \in 1 .. answers' /\ cred' = [k \in 1 .. 3 |-> cred'[1]]
  <2> SUFFICES ASSUME n = 3
               PROVE  cred'[1] \in 1 .. answers' /\ cred' = [k \in 1 .. 3 |-> cred'[1]]
    OBVIOUS
  <2>1. answers' \in 1 .. answers'
    BY <1>1 DEF StartupInv, Numbers
  <2>2. cred'[1] = answers'
    BY <1>5
  <2> QED
    BY <1>5, <2>1, <2>2
<1>7. Credentials'
  BY <1>1, <1>4, <1>6 DEF Credentials, Startup!Posts
<1> QED
  BY <1>2, <1>3, <1>7 DEF StartupInv

LEMMA SaveOpenKeeps ==
    ASSUME StartupInv, NEW opens \in BOOLEAN, Startup!SaveOpen(opens)
    PROVE  StartupInv'
<1> USE DEF Startup!SaveOpen
<1>1. /\ stage = "open" /\ UNCHANGED <<cred, id, Startup!startupServer>>
      /\ \/ file' = <<>> /\ stage' = "flush"
         \/ UNCHANGED file /\ stage' = "exit"
  BY DEF Startup!Exit
<1>2. Numbers'
  BY <1>1, BootedGives DEF StartupInv, Numbers, Startup!startupServer
<1>3. Credentials' /\ Registration'
  BY <1>1, FewerAreNotAll
     DEF StartupInv, Credentials, Registration, Startup!startupServer,
         Startup!AllRead, OneAnswer, Startup!Posts
<1> QED
  BY <1>2, <1>3 DEF StartupInv

LEMMA SaveFlushKeeps ==
    ASSUME StartupInv, NEW words \in Startup!Written \cup {cred}, Startup!SaveFlush(words)
    PROVE  StartupInv'
<1> USE DEF Startup!SaveFlush
<1>1. /\ stage = "flush" /\ stage' = "read" /\ file' = words /\ Startup!Booted
      /\ UNCHANGED <<cred, id, Startup!startupServer>>
  OBVIOUS
<1>2. Numbers'
  BY <1>1, BootedGives DEF StartupInv, Numbers, Startup!startupServer
<1>3. OneAnswer(cred)
  BY <1>1 DEF StartupInv, Credentials, OneAnswer
<1>4. OneAnswer(agent[1])'
  BY <1>1, <1>3, BootedGives
     DEF StartupInv, Numbers, OneAnswer, Startup!startupServer
<1>5. Startup!AllRead(file)' => OneAnswer(file)'
  <2>1. CASE words = cred
    BY <1>1, <1>3, <2>1 DEF OneAnswer, Startup!startupServer
  <2>2. CASE words \in Startup!Written
    <3>1. Startup!AllRead(words) => words = <<cred[1], cred[2], - cred[3]>>
      BY <2>2, FewerAreNotAll DEF Startup!Written
    <3> QED
      BY <1>1, <1>3, <3>1 DEF Startup!AllRead, OneAnswer, Startup!startupServer
  <2> QED
    BY <2>1, <2>2
<1>6. Credentials'
  BY <1>1, <1>4, <1>5 DEF Credentials
<1>7. Registration'
  BY <1>1 DEF Registration, Startup!Posts
<1> QED
  BY <1>2, <1>6, <1>7 DEF StartupInv

(* integrate(): what a post achieves before its answer is seen. *)
LEMMA PostFailsKeeps ==
    ASSUME StartupInv, NEW arrives \in BOOLEAN, Startup!PostFails(arrives)
    PROVE  StartupInv'
<1>1. /\ stage' = "exit" /\ UNCHANGED <<file, cred, id, agent, answers>>
      /\ objects' \in {objects, objects + 1} /\ identity' \in {identity, id}
  BY DEF Startup!PostFails, Startup!Exit, Startup!Effect, Startup!startupServer
<1> QED
  BY <1>1
     DEF StartupInv, Numbers, Credentials, Registration, Startup!AllRead,
         OneAnswer, Startup!Posts

LEMMA PostKeeps == StartupInv /\ Startup!Post => StartupInv'
<1> SUFFICES ASSUME StartupInv, Startup!Post PROVE StartupInv'
  OBVIOUS
<1> USE DEF Startup!Post, Startup!Effect, Startup!TemplateUnknown,
            Startup!DeviceUnknown
<1>1. /\ UNCHANGED <<file, cred, answers>>
      /\ stage \in Startup!Posts /\ stage' \in Startup!Posts \cup {"up"}
  BY DEF Startup!Answered, Startup!Integrated, Startup!Posts
<1>2. DOMAIN agent' = 1 .. 3 /\ agent'[1] = agent[1]
  BY DEF Startup!Answered, Startup!Integrated, StartupInv, Numbers
<1>3. Credentials'
  BY <1>1, <1>2
     DEF StartupInv, Credentials, Startup!AllRead, OneAnswer, Startup!Posts
<1>4. Numbers'
  BY <1>1, <1>2
     DEF Startup!Answered, Startup!Integrated, StartupInv, Numbers,
         Startup!Posts
<1>5. Registration'
  <2>1. template' = (template \/ stage = "template")
        /\ identity' = (IF stage = "102" THEN id ELSE identity)
    OBVIOUS
  <2>2. Startup!Integrated => agent'[2] = xid /\ agent'[3] = id'
    BY DEF Startup!Integrated, StartupInv, Numbers
  <2>3. CASE stage \in {"empty", "template"}
    BY <2>1, <2>3 DEF Startup!Answered, StartupInv, Registration, Startup!Posts
  <2>4. CASE stage = "100"
    BY <2>1, <2>2, <2>4
       DEF Startup!Answered, Startup!Integrated, StartupInv, Registration,
           Startup!Posts
  <2>5. CASE stage = "101"
    <3>1. id' # 0
      BY <2>5 DEF Startup!Answered, StartupInv, Numbers
    <3> QED
      BY <2>1, <2>5, <3>1
         DEF Startup!Answered, StartupInv, Registration, Startup!Posts
  <2>6. CASE stage = "102"
    BY <2>1, <2>2, <2>6
       DEF Startup!Answered, Startup!Integrated, StartupInv, Registration,
           Startup!Posts
  <2> QED
    BY <1>1, <2>3, <2>4, <2>5, <2>6 DEF Startup!Posts
<1> QED
  BY <1>3, <1>4, <1>5 DEF StartupInv

-----------------------------------------------------------------------------
(* Every step keeps it. *)
LEMMA StepStartup == StartupInv /\ [Startup!Next]_(Startup!startupVars) => StartupInv'
<1> SUFFICES ASSUME StartupInv, [Startup!Next]_(Startup!startupVars) PROVE StartupInv'
  OBVIOUS
<1>1. ASSUME NEW succeeds \in BOOLEAN, Startup!ReadSrTemplate(succeeds) PROVE StartupInv'
  BY <1>1
     DEF Startup!ReadSrTemplate, Startup!Exit, StartupInv, Numbers,
         Credentials, Registration,
              Startup!startupServer, Startup!AllRead, OneAnswer, Startup!Posts
<1>2. CASE Startup!Goes
  <2>1. 3 \in 0 .. 3 /\ cred \in Startup!Written \cup {cred} /\ TRUE \in BOOLEAN
    OBVIOUS
  <2> QED
    BY ONLY <1>1, <1>2, <2>1, StartupInv, LoadCredentialKeeps,
            RequestCredentialKeeps, SaveOpenKeeps,
       SaveFlushKeeps, PostKeeps, RestartedKeeps, Zenon DEF Startup!Goes,
       Startup!Restart
<1>3. CASE Startup!Fails
  <2>1. \A n \in 0 .. 2 : n \in 0 .. 3
    OBVIOUS
  <2>2. FALSE \in BOOLEAN /\ \A words \in Startup!Written : words \in Startup!Written \cup {cred}
    OBVIOUS
  <2> QED
    BY ONLY <1>1, <1>3, <2>1, <2>2, StartupInv, RequestAgainKeeps,
            RequestCredentialKeeps,
       SaveOpenKeeps, SaveFlushKeeps, PostFailsKeeps, RestartedKeeps,
       Zenon DEF Startup!Fails, Startup!Kill
<1>4. CASE UNCHANGED Startup!startupVars
  BY <1>4
     DEF Startup!startupVars, Startup!startupServer, StartupInv, Numbers,
         Credentials, Registration,
              Startup!AllRead, OneAnswer, Startup!Posts
<1> QED
  BY <1>2, <1>3, <1>4 DEF Startup!Next

-----------------------------------------------------------------------------
(* The invariant holds in every state. *)
THEOREM StartupInvariance == Startup!Spec => []StartupInv
  BY InitStartup, StepStartup, PTL DEF Startup!Spec

(* A device that goes on has the tenant, the user and the password of one  *)
(* answer, of the password perhaps the beginning, although a file may have *)
(* been cut short at any word (srbootstrap.cc 35-80, 126-146).             *)
THEOREM CredentialsAreOfOneAnswer == Startup!Spec => []Startup!CredentialsOfOneAnswer
<1>1. StartupInv => Startup!CredentialsOfOneAnswer
  BY DEF StartupInv, Credentials, Registration, OneAnswer,
     Startup!CredentialsOfOneAnswer, Startup!Posts
<1> QED
  BY <1>1, StartupInvariance, PTL

(* A device that is up uses the object that it is registered with and a    *)
(* template that the server knows (integrate.cc 24-65, srutils.cc).        *)
THEOREM UpIsRegistered == Startup!Spec => []Startup!UpAsRegistered
<1>1. StartupInv => Startup!UpAsRegistered
  BY DEF StartupInv, Registration, Startup!UpAsRegistered
<1> QED
  BY <1>1, StartupInvariance, PTL

(* Nobody registers the device a second time. *)
LEMMA KeepsItsObject ==
    StartupInv /\ [Startup!Next]_(Startup!startupVars)
        => [identity # 0 => identity' = identity]_(Startup!startupVars)
<1> SUFFICES ASSUME StartupInv, [Startup!Next]_(Startup!startupVars), identity # 0
             PROVE  identity' = identity
  OBVIOUS
<1>1. stage # "102"
  BY DEF StartupInv, Registration
<1>2. Startup!Effect => identity' = identity
  BY <1>1 DEF Startup!Effect
<1> QED
  BY <1>2 DEF Startup!Next, Startup!Goes, Startup!Fails, Startup!LoadCredential,
        Startup!RequestCredential, Startup!SaveOpen, Startup!SaveFlush,
        Startup!ReadSrTemplate, Startup!Post, Startup!Restart,
        Startup!RequestAgain,
        Startup!PostFails, Startup!Kill, Startup!Restarted,
        Startup!startupServer,
        Startup!startupVars

(* The device keeps the object that it is registered with, whatever is     *)
(* lost between the posts that create it (integrate.cc 24-65).             *)
THEOREM DeviceIsRegisteredOnce == Startup!Spec => Startup!RegisteredOnce
  BY KeepsItsObject, StartupInvariance, PTL
     DEF Startup!Spec, Startup!RegisteredOnce

-----------------------------------------------------------------------------
(* The parts side by side: a step of one leaves the others as they are.    *)

LEMMA StepWatchdogPart == WatchdogInv /\ [AllNext]_allVars => WatchdogInv'
<1>1. WatchdogInv /\ UNCHANGED vars => WatchdogInv'
  BY StepWatchdog
<1>2. WatchdogStep => Next
  BY DEF WatchdogStep
<1>3. StartupStep \/ PushStep \/ MqttStep \/ UNCHANGED allVars => UNCHANGED vars
  BY Zenon DEF StartupStep, PushStep, MqttStep, allVars
<1> QED
  BY ONLY <1>1, <1>2, <1>3, StepWatchdog, Zenon DEF AllNext

LEMMA StepStartupPart == StartupInv /\ [AllNext]_allVars => StartupInv'
<1>1. StartupInv /\ UNCHANGED startup => StartupInv'
  BY StepStartup, Zenon DEF startup, Startup!startupVars, Startup!startupServer
<1>2. StartupStep => Startup!Next
  BY DEF StartupStep
<1>3. WatchdogStep \/ PushStep \/ MqttStep \/ UNCHANGED allVars => UNCHANGED startup
  BY Zenon DEF WatchdogStep, PushStep, MqttStep, allVars
<1> QED
  BY ONLY <1>1, <1>2, <1>3, StepStartup, Zenon DEF AllNext

LEMMA InitParts == AllInit => WatchdogInv /\ StartupInv
  BY InitWatchdog, InitStartup DEF AllInit

(* The invariants of the parts hold in every state. *)
THEOREM PartsInvariance == AllSpec => [](WatchdogInv /\ StartupInv)
  BY InitParts, StepWatchdogPart, StepStartupPart, PTL DEF AllSpec

(* An agent that is up has the ids of its own device, and its tenant, user *)
(* and password come from one answer, whichever part moves                 *)
(* (srbootstrap.cc 35-146, integrate.cc 24-65).                            *)
THEOREM PartsUpAsRegistered == AllSpec => []UpAsRegistered
<1>1. StartupInv => UpAsRegistered
  BY DEF StartupInv, Credentials, Registration, OneAnswer, UpAsRegistered,
         Startup!CredentialsOfOneAnswer, Startup!UpAsRegistered, Startup!Posts
<1> QED
  BY <1>1, PartsInvariance, PTL

(* A device keeps the object it is registered with (integrate.cc 24-65).   *)
THEOREM PartsRegisteredOnce == AllSpec => RegisteredOnce
<1>1. StartupInv /\ [AllNext]_allVars
         => [identity # 0 => identity' = identity]_(Startup!startupVars)
  <2>1. StartupStep => Startup!Next
    BY DEF StartupStep
  <2>2. WatchdogStep \/ PushStep \/ MqttStep \/ UNCHANGED allVars => UNCHANGED Startup!startupVars
    BY Zenon
       DEF WatchdogStep, PushStep, MqttStep, allVars, startup,
           Startup!startupVars,
                 Startup!startupServer
  <2> QED
    BY ONLY <2>1, <2>2, KeepsItsObject, Zenon DEF AllNext
<1> QED
  BY <1>1, PartsInvariance, PTL
     DEF AllSpec, RegisteredOnce, Startup!RegisteredOnce

(* A program that exited by itself is not started again: the daemon forks  *)
(* only when it has no child, and has seen the exit when it has none       *)
(* (srwatchdogd.cc 98-129, 150-157).                                       *)
ForkAlone == pc = "fork" => child = "none"
Down == child = "exited" \/ (quit /\ child = "none")

THEOREM ExitStaysDown == Spec => ExitIsFinal
<1>1. Init => ForkAlone
  BY DEF Init, ForkAlone
<1>2. ForkAlone /\ [Next]_vars => ForkAlone'
  BY DEF ForkAlone, Next, vars, daemon, program, Fork, Leave, Wake, Reap, Look,
     Collect, Copy,
         Signal, Register, Kick, Hang, Crash, Exit, Tick, Step
<1>3. ForkAlone /\ Down /\ [Next]_vars => Down'
  BY DEF ForkAlone, Down, Next, vars, daemon, program, Fork, Leave, Wake, Reap,
     Look, Collect,
         Copy, Signal, Register, Kick, Hang, Crash, Exit, Tick, Step
<1>4. child = "exited" => Down
  BY DEF Down
<1>5. Down => child # "loading"
  BY DEF Down
<1> QED
  BY <1>1, <1>2, <1>3, <1>4, <1>5, PTL DEF Spec, ExitIsFinal

-----------------------------------------------------------------------------
(***************************************************************************)
(* The push thread (SrDevicePush): what a text is made of.                 *)
(***************************************************************************)
Kinds == {"batch", "advice", "op"}
Lines == [kind : Kinds, value : Nat]
Chars == Kinds \X Nat \X Nat

LEMMA SameFlatten == \A s : Push!FlattenSeq(s) = FlattenSeq(s)
  BY DEF Push!FlattenSeq, FlattenSeq

LEMMA Widths ==
    /\ Push!Width["batch"] = 2 /\ Push!Width["advice"] = 3 /\ Push!Width["op"] = 2
    /\ Push!Width.batch = 2 /\ Push!Width.advice = 3
  BY DEF Push!Width

(* The characters of one line. *)
Characters(l) == [k \in 1 .. Push!Width[l.kind] |-> <<l.kind, l.value, k>>]

LEMMA CharactersType ==
    ASSUME NEW l \in Lines
    PROVE  Characters(l) \in Seq(Chars) /\ Len(Characters(l)) = Push!Width[l.kind]
<1>1. Push!Width[l.kind] \in Nat
  BY Widths DEF Lines, Kinds
<1>2. l.kind \in Kinds /\ l.value \in Nat
  BY DEF Lines
<1>3. ASSUME NEW k \in 1 .. Push!Width[l.kind] PROVE <<l.kind, l.value, k>> \in Chars
  BY <1>1, <1>2 DEF Chars
<1> QED
  BY <1>1, <1>3 DEF Characters

(* The lines as the texts that FlattenSeq concatenates. *)
Spelled(s) == [j \in DOMAIN s |-> Characters(s[j])]

LEMMA TextIs == \A s : Push!Text(s) = FlattenSeq(Spelled(s))
  BY SameFlatten, Zenon DEF Push!Text, Characters, Spelled

LEMMA SpelledType ==
    ASSUME NEW s \in Seq(Lines)
    PROVE  Spelled(s) \in Seq(Seq(Chars))
<1>1. \A j \in 1 .. Len(s) : Characters(s[j]) \in Seq(Chars)
  BY CharactersType
<1>2. DOMAIN s = 1 .. Len(s) /\ Len(s) \in Nat
  OBVIOUS
<1> QED
  BY <1>1, <1>2 DEF Spelled

LEMMA TextType ==
    ASSUME NEW s \in Seq(Lines)
    PROVE  Push!Text(s) \in Seq(Chars)
  BY TextIs, SpelledType, FlattenType

LEMMA TextEmpty == Push!Text(<<>>) = <<>>
<1>1. Spelled(<<>>) = <<>>
  BY DEF Spelled
<1> QED
  BY <1>1, TextIs, FlattenEmpty

LEMMA TextAppend ==
    ASSUME NEW s \in Seq(Lines), NEW l \in Lines
    PROVE  Push!Text(Append(s, l)) = Push!Text(s) \o Characters(l)
<1>1. Spelled(Append(s, l)) = Append(Spelled(s), Characters(l))
  BY DEF Spelled
<1> QED
  BY <1>1, TextIs, SpelledType, CharactersType, FlattenAppend

LEMMA TextConcat ==
    ASSUME NEW a \in Seq(Lines), NEW b \in Seq(Lines)
    PROVE  Push!Text(a \o b) = Push!Text(a) \o Push!Text(b)
<1> DEFINE T == {s \in Seq(Lines) : Push!Text(a \o s) = Push!Text(a) \o Push!Text(s)}
<1>1. <<>> \in T
  <2>1. a \o <<>> = a /\ Push!Text(a) \o <<>> = Push!Text(a) /\ <<>> \in Seq(Lines)
    BY ConcatEmptySeq, TextType
  <2> QED
    BY <2>1, TextEmpty
<1>2. ASSUME NEW s \in Seq(Lines), s \in T, NEW l \in Lines
      PROVE  Append(s, l) \in T
  <2>1. /\ a \o Append(s, l) = Append(a \o s, l)
        /\ Append(s, l) \in Seq(Lines) /\ a \o s \in Seq(Lines)
    OBVIOUS
  <2>2. Push!Text(Append(a \o s, l)) = Push!Text(a \o s) \o Characters(l)
    BY <2>1, TextAppend
  <2>3. Push!Text(Append(s, l)) = Push!Text(s) \o Characters(l)
    BY TextAppend
  <2>4. (Push!Text(a) \o Push!Text(s)) \o Characters(l)
           = Push!Text(a) \o (Push!Text(s) \o Characters(l))
    <3>1. /\ Push!Text(a) \in Seq(Chars) /\ Push!Text(s) \in Seq(Chars)
          /\ Characters(l) \in Seq(Chars)
      BY TextType, CharactersType
    <3> DEFINE x == Push!Text(a)
               y == Push!Text(s)
               z == Characters(l)
    <3>2. x \in Seq(Chars) /\ y \in Seq(Chars) /\ z \in Seq(Chars)
      BY <3>1
    <3> HIDE DEF x, y, z
    <3>3. (x \o y) \o z = x \o (y \o z)
      BY ONLY <3>2, ConcatAssociative
    <3> QED
      BY <3>3 DEF x, y, z
  <2>5. Push!Text(a \o s) = Push!Text(a) \o Push!Text(s)
    BY <1>2
  <2>6. Push!Text(a \o Append(s, l)) = Push!Text(a) \o Push!Text(Append(s, l))
    BY ONLY <2>1, <2>2, <2>3, <2>4, <2>5, Zenon
  <2> QED
    BY <2>1, <2>6
<1> HIDE DEF T
<1>3. Seq(Lines) \subseteq T
  BY <1>1, <1>2, SequenceInduction
<1> QED
  BY <1>3 DEF T

(* The text of the operations a + 1 .. a + m: two characters each. *)
OpLines(a, m) == [k \in 1 .. m |-> [kind |-> "op", value |-> a + k]]

SpelledOps(s, a, m) ==
    /\ s \in Seq(Chars) /\ Len(s) = 2 * m
    /\ \A k \in 1 .. m : s[2 * k - 1] = <<"op", a + k, 1>> /\ s[2 * k] = <<"op", a + k, 2>>

LEMMA CharactersOfOp ==
    ASSUME NEW v \in Nat
    PROVE  LET l == [kind |-> "op", value |-> v]
           IN  /\ l \in Lines /\ Len(Characters(l)) = 2
               /\ Characters(l)[1] = <<"op", v, 1>> /\ Characters(l)[2] = <<"op", v, 2>>
  BY Widths DEF Characters, Lines, Kinds

LEMMA TextOfOps ==
    ASSUME NEW a \in Nat, NEW m \in Nat
    PROVE  OpLines(a, m) \in Seq(Lines) /\ SpelledOps(Push!Text(OpLines(a, m)), a, m)
<1> DEFINE N == {n \in Nat : /\ OpLines(a, n) \in Seq(Lines)
                             /\ SpelledOps(Push!Text(OpLines(a, n)), a, n)}
<1>1. 0 \in N
  <2>1. OpLines(a, 0) = <<>> /\ <<>> \in Seq(Lines) /\ <<>> \in Seq(Chars)
    BY DEF OpLines
  <2>2. Len(<<>>) = 2 * 0
    OBVIOUS
  <2>3. SpelledOps(<<>>, a, 0)
    BY <2>1, <2>2 DEF SpelledOps
  <2> QED
    BY <2>1, <2>3, TextEmpty
<1>2. ASSUME NEW n \in Nat, n \in N PROVE n + 1 \in N
  <2> DEFINE l == [kind |-> "op", value |-> a + (n + 1)]
             s == Push!Text(OpLines(a, n))
             c2 == Characters(l)
  <2>1. /\ l \in Lines /\ c2 \in Seq(Chars) /\ Len(c2) = 2
        /\ c2[1] = <<"op", a + (n + 1), 1>> /\ c2[2] = <<"op", a + (n + 1), 2>>
    BY CharactersOfOp, CharactersType
  <2>2. OpLines(a, n) \in Seq(Lines) /\ SpelledOps(s, a, n)
    BY <1>2
  <2>3. OpLines(a, n + 1) = Append(OpLines(a, n), l)
    BY DEF OpLines
  <2>5. Push!Text(OpLines(a, n + 1)) = s \o c2
    BY <2>1, <2>2, <2>3, TextAppend
  <2> HIDE DEF s, c2, l
  <2>4. OpLines(a, n + 1) \in Seq(Lines)
    <3>1. \A t \in Seq(Lines), x \in Lines : Append(t, x) \in Seq(Lines)
      OBVIOUS
    <3> QED
      BY ONLY <2>1, <2>2, <2>3, <3>1, Zenon
  <2>6. SpelledOps(s \o c2, a, n + 1)
    <3>1. s \in Seq(Chars) /\ Len(s) = 2 * n
      BY <2>2 DEF SpelledOps
    <3>2. s \o c2 \in Seq(Chars) /\ Len(s \o c2) = 2 * (n + 1)
          /\ \A k \in 1 .. 2 * (n + 1) : (s \o c2)[k] = IF k <= 2 * n THEN s[k] ELSE c2[k - 2 * n]
      <4>1. /\ s \o c2 \in Seq(Chars) /\ Len(s \o c2) = Len(s) + Len(c2)
            /\ \A k \in 1 .. Len(s) + Len(c2) :
                  (s \o c2)[k] = IF k <= Len(s) THEN s[k] ELSE c2[k - Len(s)]
        BY ONLY <2>1, <3>1, ConcatProperties
      <4>2. Len(s) = 2 * n /\ Len(s) + Len(c2) = 2 * (n + 1)
        BY ONLY <2>1, <3>1, n \in Nat
      <4> QED
        BY ONLY <4>1, <4>2, Zenon
    <3>3. ASSUME NEW k \in 1 .. n + 1
          PROVE  /\ (s \o c2)[2 * k - 1] = <<"op", a + k, 1>>
                 /\ (s \o c2)[2 * k] = <<"op", a + k, 2>>
      <4>1. CASE k \in 1 .. n
        <5>1. /\ 2 * k - 1 \in 1 .. 2 * (n + 1) /\ 2 * k \in 1 .. 2 * (n + 1)
              /\ 2 * k - 1 <= 2 * n /\ 2 * k <= 2 * n
          BY <4>1
        <5>2. s[2 * k - 1] = <<"op", a + k, 1>> /\ s[2 * k] = <<"op", a + k, 2>>
          BY <4>1, <2>2 DEF SpelledOps
        <5> QED
          BY ONLY <5>1, <5>2, <3>2, Zenon
      <4>2. CASE k = n + 1
        <5>1. /\ 2 * k - 1 \in 1 .. 2 * (n + 1) /\ 2 * k \in 1 .. 2 * (n + 1)
              /\ ~(2 * k - 1 <= 2 * n) /\ ~(2 * k <= 2 * n)
              /\ (2 * k - 1) - 2 * n = 1 /\ 2 * k - 2 * n = 2
          BY <4>2
        <5> QED
          BY ONLY <5>1, <4>2, <2>1, <3>2, Zenon
      <4>3. k \in 1 .. n \/ k = n + 1
        OBVIOUS
      <4> QED
        BY ONLY <4>1, <4>2, <4>3
    <3> QED
      BY ONLY <3>2, <3>3 DEF SpelledOps
  <2> QED
    BY ONLY <2>4, <2>5, <2>6, n + 1 \in Nat, Zenon DEF N
<1> HIDE DEF N
<1>3. Nat \subseteq N
  BY <1>1, <1>2, SetInduction
<1> QED
  BY <1>3 DEF N

(* All that is put in the queue for them is them, each of them whole. *)
LEMMA OpsAreWhole ==
    ASSUME NEW a \in Nat, NEW m \in Nat, a + m <= MaxOps, MaxOps \in Nat,
           NEW s, SpelledOps(s, a, m)
    PROVE  Push!IsWhole(s) /\ \A o \in a + 1 .. a + m : o \in Push!WholeOps(s)
<1>1. ASSUME NEW v \in Nat
      PROVE  /\ Push!OpText(v) \in Seq(Chars) /\ Len(Push!OpText(v)) = 2
             /\ Push!OpText(v)[1] = <<"op", v, 1>> /\ Push!OpText(v)[2] = <<"op", v, 2>>
  <2>1. <<[kind |-> "op", value |-> v]>> = OpLines(v - 1, 1)
    BY DEF OpLines
  <2> DEFINE l == [kind |-> "op", value |-> v]
  <2>2. l \in Lines /\ Append(<<>>, l) = <<l>> /\ <<>> \in Seq(Lines)
    BY CharactersOfOp
  <2>3. Characters(l) \in Seq(Chars) /\ <<>> \o Characters(l) = Characters(l)
    BY <2>2, CharactersType, ConcatEmptySeq
  <2>4. Push!Text(<<l>>) = Characters(l)
    <3> HIDE DEF l
    <3> QED
      BY <2>2, <2>3, TextAppend, TextEmpty
  <2> QED
    BY <2>3, <2>4, CharactersOfOp DEF Push!OpText
<1>2. s \in Seq(Chars) /\ Len(s) = 2 * m
  BY DEF SpelledOps
<1>3. ASSUME NEW k \in 1 .. m
      PROVE  a + k \in Push!WholeOps(s)
  <2>1. a + k \in 1 .. MaxOps
    OBVIOUS
  <2>2. 2 * k - 1 \in 1 .. Len(s) - 1 /\ (2 * k - 1) + 1 = 2 * k
    BY <1>2
  <2>3. s[2 * k - 1] = <<"op", a + k, 1>> /\ s[2 * k] = <<"op", a + k, 2>>
    BY DEF SpelledOps
  <2>4. SubSeq(s, 2 * k - 1, 2 * k) = Push!OpText(a + k)
    <3> DEFINE u == SubSeq(s, 2 * k - 1, 2 * k)
               w == Push!OpText(a + k)
    <3>1. u \in Seq(Chars) /\ Len(u) = 2 /\ u[1] = s[2 * k - 1] /\ u[2] = s[2 * k]
      BY <1>2, <2>2
    <3>2. w \in Seq(Chars) /\ Len(w) = 2 /\ w[1] = s[2 * k - 1] /\ w[2] = s[2 * k]
      BY <1>1, <2>1, <2>3
    <3> HIDE DEF u, w
    <3>3. \A j \in 1 .. 2 : u[j] = w[j]
      BY <3>1, <3>2
    <3>4. u = w
      BY ONLY <3>1, <3>2, <3>3, SeqEqual
    <3> QED
      BY <3>4 DEF u, w
  <2> QED
    BY ONLY <2>1, <2>2, <2>4, Zenon DEF Push!WholeOps
<1>4. Push!IsWhole(s)
  <2> SUFFICES ASSUME NEW j \in DOMAIN s
               PROVE  \E o \in Push!WholeOps(s) :
                         \/ s[j] = Push!OpText(o)[1]
                         \/ (s[j] = Push!OpText(o)[2] /\ s[j - 1] = Push!OpText(o)[1])
    BY Zenon DEF Push!IsWhole
  <2>1. j \in 1 .. 2 * m
    BY <1>2
  <2>2. PICK k \in 1 .. m : j = 2 * k - 1 \/ j = 2 * k
    <3> DEFINE h == (j + 1) \div 2
    <3>1. h \in Int /\ (j + 1 = 2 * h \/ j + 1 = 2 * h + 1)
      BY <2>1
    <3> HIDE DEF h
    <3> QED
      BY ONLY <2>1, <3>1, m \in Nat
  <2>3. a + k \in Push!WholeOps(s)
    BY <1>3
  <2>4. s[2 * k - 1] = <<"op", a + k, 1>> /\ s[2 * k] = <<"op", a + k, 2>>
    BY DEF SpelledOps
  <2>5. Push!OpText(a + k)[1] = <<"op", a + k, 1>> /\ Push!OpText(a + k)[2] = <<"op", a + k, 2>>
    BY <1>1
  <2> QED
    BY ONLY <2>2, <2>3, <2>4, <2>5, Zenon
<1>5. ASSUME NEW o \in a + 1 .. a + m PROVE o \in Push!WholeOps(s)
  <2>1. o - a \in 1 .. m /\ a + (o - a) = o
    OBVIOUS
  <2> QED
    BY <1>3, <2>1
<1> QED
  BY <1>4, <1>5

-----------------------------------------------------------------------------
(* process(): the advice and the batch number are erased, and the          *)
(* operations are left.                                                    *)

LEMMA EraseMiddle ==
    ASSUME NEW S, NEW x \in Seq(S), NEW y \in Seq(S), NEW z \in Seq(S)
    PROVE  Push!Erase((x \o y) \o z, Len(x), Len(y)) = x \o z
<1>1. /\ x \o y \in Seq(S) /\ (x \o y) \o z \in Seq(S)
      /\ Len((x \o y) \o z) = Len(x \o y) + Len(z) /\ Len(x \o y) = Len(x) + Len(y)
  BY ConcatProperties
<1>2. Len(x) \in Nat /\ Len(y) \in Nat /\ Len(z) \in Nat
  OBVIOUS
<1>3. SubSeq((x \o y) \o z, 1, Len(x)) = x
  <2>1. SubSeq((x \o y) \o z, 1, Len(x)) = SubSeq(x \o y, 1, Len(x))
    BY <1>1, <1>2, SubSeqOfConcat1
  <2>2. SubSeq(x \o y, 1, Len(x)) = SubSeq(x, 1, Len(x))
    BY <1>1, <1>2, SubSeqOfConcat1
  <2>3. SubSeq(x, 1, Len(x)) = x
    OBVIOUS
  <2> QED
    BY <2>1, <2>2, <2>3
<1>4. SubSeq((x \o y) \o z, Len(x) + Len(y) + 1, Len((x \o y) \o z)) = z
  <2>1. SubSeq((x \o y) \o z, Len(x \o y) + 1, Len(x \o y) + Len(z)) = SubSeq(z, 1, Len(z))
    BY ONLY <1>1, <1>2, SubSeqOfConcat2, z \in Seq(S)
  <2>2. SubSeq(z, 1, Len(z)) = z
    OBVIOUS
  <2> QED
    BY ONLY <1>1, <2>1, <2>2
<1>5. Len(x) # -1
  BY <1>2
<1> QED
  BY ONLY <1>3, <1>4, <1>5, Zenon DEF Push!Erase

(* No line of s is of the kind. *)
Without(s, kind) == \A j \in 1 .. Len(s) : s[j].kind # kind

LEMMA WithoutConcat ==
    ASSUME NEW s \in Seq(Lines), NEW t \in Seq(Lines), NEW kind,
           Without(s, kind), Without(t, kind)
    PROVE  Without(s \o t, kind)
<1>1. /\ Len(s \o t) = Len(s) + Len(t)
      /\ \A j \in 1 .. Len(s) + Len(t) :
            (s \o t)[j] = IF j <= Len(s) THEN s[j] ELSE t[j - Len(s)]
  BY ConcatProperties
<1>2. Len(s) \in Nat /\ Len(t) \in Nat
  OBVIOUS
<1>3. ASSUME NEW j \in 1 .. Len(s) + Len(t) PROVE (s \o t)[j].kind # kind
  <2>1. CASE j <= Len(s)
    <3>1. (s \o t)[j] = s[j]
      BY ONLY <1>1, <2>1, j \in 1 .. Len(s) + Len(t), Zenon
    <3>2. j \in 1 .. Len(s)
      BY ONLY <1>2, <2>1, j \in 1 .. Len(s) + Len(t)
    <3> QED
      BY <3>1, <3>2, Zenon DEF Without
  <2>2. CASE ~(j <= Len(s))
    <3>1. (s \o t)[j] = t[j - Len(s)]
      BY ONLY <1>1, <2>2, j \in 1 .. Len(s) + Len(t), Zenon
    <3>2. j - Len(s) \in 1 .. Len(t)
      BY ONLY <1>2, <2>2, j \in 1 .. Len(s) + Len(t)
    <3> QED
      BY <3>1, <3>2, Zenon DEF Without
  <2> QED
    BY <2>1, <2>2
<1> QED
  BY <1>1, <1>3, Zenon DEF Without

LEMMA FewLines ==
    ASSUME NEW l \in Lines, NEW kind, l.kind # kind
    PROVE  /\ <<>> \in Seq(Lines) /\ Without(<<>>, kind)
           /\ <<l>> \in Seq(Lines) /\ Without(<<l>>, kind)
           /\ <<>> \o <<l>> = <<l>>
<1>1. Without(<<>>, kind)
  BY DEF Without
<1>2. Len(<<l>>) = 1 /\ <<l>>[1] = l
  OBVIOUS
<1>3. Without(<<l>>, kind)
  BY <1>2 DEF Without
<1>4. <<>> \in Seq(Lines) /\ <<l>> \in Seq(Lines) /\ <<>> \o <<l>> = <<l>>
  OBVIOUS
<1> QED
  BY <1>1, <1>3, <1>4

LEMMA NoPosition ==
    ASSUME NEW s \in Seq(Lines), NEW kind, Without(s, kind)
    PROVE  Push!Position(s, kind) = -1
<1>1. DOMAIN s = 1 .. Len(s)
  OBVIOUS
<1>2. {j \in DOMAIN s : s[j].kind = kind} = {}
  BY <1>1 DEF Without
<1> QED
  BY <1>2, Zenon DEF Push!Position

LEMMA PositionOf ==
    ASSUME NEW p \in Seq(Lines), NEW l \in Lines, NEW z \in Seq(Lines),
           Without(p, l.kind), Without(z, l.kind)
    PROVE  Push!Position((p \o <<l>>) \o z, l.kind) = Len(Push!Text(p))
<1> DEFINE s == (p \o <<l>>) \o z
           m == Len(p) + 1
<1>1. /\ s \in Seq(Lines) /\ Len(s) = m + Len(z) /\ Len(p) \in Nat /\ Len(z) \in Nat
      /\ \A j \in 1 .. Len(p) : s[j] = p[j]
      /\ s[m] = l
      /\ \A j \in m + 1 .. m + Len(z) : s[j] = z[j - m]
  OBVIOUS
<1>2. SubSeq(s, 1, Len(p)) = p
  <2>1. SubSeq(s, 1, Len(p)) = SubSeq(p \o <<l>>, 1, Len(p))
    BY SubSeqOfConcat1
  <2>2. SubSeq(p \o <<l>>, 1, Len(p)) = p
    BY SubSeqOfConcat1, SubSeqFull
  <2> QED
    BY ONLY <2>1, <2>2
<1> HIDE DEF s
<1>3. {j \in DOMAIN s : s[j].kind = l.kind} = {m}
  <2>1. DOMAIN s = 1 .. m + Len(z)
    BY <1>1
  <2>2. \A j \in 1 .. m + Len(z) : s[j].kind = l.kind => j = m
    <3> TAKE j \in 1 .. m + Len(z)
    <3>1. CASE j \in 1 .. Len(p)
      BY <1>1, <3>1 DEF Without
    <3>2. CASE j \in m + 1 .. m + Len(z)
      <4>1. j - m \in 1 .. Len(z)
        BY <1>1, <3>2
      <4> QED
        BY <1>1, <3>2, <4>1 DEF Without
    <3> QED
      BY <1>1, <3>1, <3>2
  <2>3. m \in 1 .. m + Len(z) /\ s[m].kind = l.kind
    BY <1>1
  <2> QED
    BY ONLY <2>1, <2>2, <2>3
<1>4. Push!Min({m}) = m
  BY <1>1 DEF Push!Min
<1>5. Push!Position(s, l.kind) = Len(Push!Text(SubSeq(s, 1, m - 1)))
  <2> DEFINE found == {j \in DOMAIN s : s[j].kind = l.kind}
  <2>1. Push!Position(s, l.kind)
          = IF found = {} THEN -1 ELSE Len(Push!Text(SubSeq(s, 1, Push!Min(found) - 1)))
    BY Zenon DEF Push!Position
  <2>2. found = {m}
    BY <1>3
  <2>3. {m} # {}
    OBVIOUS
  <2> HIDE DEF found
  <2> QED
    BY ONLY <1>4, <2>1, <2>2, <2>3, Zenon
<1>6. m - 1 = Len(p)
  BY <1>1
<1> QED
  BY ONLY <1>2, <1>5, <1>6, Zenon DEF s

LEMMA TextOfOne ==
    ASSUME NEW l \in Lines
    PROVE  /\ <<l>> \in Seq(Lines) /\ Push!Text(<<l>>) \in Seq(Chars)
           /\ Len(Push!Text(<<l>>)) = Push!Width[l.kind]
<1>1. Append(<<>>, l) = <<l>> /\ <<>> \in Seq(Lines) /\ <<l>> \in Seq(Lines)
  OBVIOUS
<1>2. Characters(l) \in Seq(Chars) /\ <<>> \o Characters(l) = Characters(l)
  BY CharactersType, ConcatEmptySeq
<1>3. Push!Text(<<l>>) = Characters(l)
  BY ONLY <1>1, <1>2, TextAppend, TextEmpty, l \in Lines
<1> QED
  BY <1>1, <1>3, CharactersType

(* The text of a line is cut out of the text of three parts. *)
LEMMA EraseLine ==
    ASSUME NEW p \in Seq(Lines), NEW l \in Lines, NEW z \in Seq(Lines)
    PROVE  Push!Erase(Push!Text((p \o <<l>>) \o z), Len(Push!Text(p)), Push!Width[l.kind])
              = Push!Text(p \o z)
<1>1. p \o <<l>> \in Seq(Lines) /\ <<l>> \in Seq(Lines)
  OBVIOUS
<1>2. Push!Text((p \o <<l>>) \o z) = (Push!Text(p) \o Push!Text(<<l>>)) \o Push!Text(z)
  BY <1>1, TextConcat
<1>3. Push!Text(p \o z) = Push!Text(p) \o Push!Text(z)
  BY TextConcat
<1>4. Push!Text(p) \in Seq(Chars) /\ Push!Text(z) \in Seq(Chars)
  BY TextType
<1>5. Push!Text(<<l>>) \in Seq(Chars) /\ Len(Push!Text(<<l>>)) = Push!Width[l.kind]
  BY TextOfOne
<1>6. Push!Erase((Push!Text(p) \o Push!Text(<<l>>)) \o Push!Text(z), Len(Push!Text(p)),
                 Len(Push!Text(<<l>>)))
        = Push!Text(p) \o Push!Text(z)
  BY ONLY <1>4, <1>5, EraseMiddle
<1> QED
  BY ONLY <1>2, <1>3, <1>5, <1>6, Zenon

(* A line of which there is none leaves the text as it is. *)
LEMMA EraseNothing ==
    ASSUME NEW s, NEW n
    PROVE  Push!Erase(s, -1, n) = s
  BY Zenon DEF Push!Erase

LEMMA OpLinesWithout ==
    ASSUME NEW n \in Nat, NEW m \in Nat
    PROVE  Without(OpLines(n, m), "batch") /\ Without(OpLines(n, m), "advice")
<1>1. \A j \in 1 .. m : OpLines(n, m)[j].kind = "op"
  BY DEF OpLines
<1>2. Len(OpLines(n, m)) = m
  BY DEF OpLines
<1> QED
  BY <1>1, <1>2 DEF Without

(* process() leaves the operations, wherever the advice is behind the      *)
(* batch number.                                                           *)
LEMMA ProcessLeavesOps ==
    ASSUME "advice first" \notin Orders, NEW policy, NEW lines \in Push!Answer(policy),
           acked \in Nat, made \in Nat, acked <= made
    PROVE  Push!Process(lines) = Push!Text(Push!Ops)
<1> DEFINE B == Push!Batch
           A == Push!Advice(policy)
           O == Push!Ops
           b == [kind |-> "batch", value |-> made]
           a == [kind |-> "advice", value |-> 0]
<1>1. /\ O \in Seq(Lines) /\ Without(O, "batch") /\ Without(O, "advice")
  <2>1. O = OpLines(acked, made - acked)
    BY Zenon DEF Push!Ops, OpLines
  <2>2. made - acked \in Nat
    BY ONLY acked \in Nat, made \in Nat, acked <= made
  <2> QED
    BY ONLY <2>1, <2>2, acked \in Nat, TextOfOps, OpLinesWithout
<1>2. b \in Lines /\ a \in Lines /\ b.kind = "batch" /\ a.kind = "advice"
  BY DEF Lines, Kinds
<1>3. B \in {<<>>, <<b>>} /\ A \in {<<>>, <<a>>}
  BY Zenon DEF Push!Batch, Push!Advice
<1>4. /\ B \in Seq(Lines) /\ Without(B, "advice") /\ <<>> \in Seq(Lines)
      /\ A \in Seq(Lines) /\ Without(A, "batch") /\ <<a>> \in Seq(Lines)
      /\ \A kind \in Kinds : Without(<<>>, kind)
  <2> HIDE DEF a, b, A, B
  <2>1. "batch" # "advice" /\ \A kind \in Kinds : a.kind # kind \/ b.kind # kind
    BY <1>2
  <2> QED
    BY ONLY <1>2, <1>3, <2>1, FewLines
<1>5. lines = (B \o A) \o O \/ lines = (B \o O) \o A
  BY Zenon DEF Push!Answer
<1> HIDE DEF A, B, O, b, a
<1>6. \/ A = <<>> /\ lines = B \o O
      \/ \E p, z \in Seq(Lines) :
            /\ lines = (p \o <<a>>) \o z /\ p \o z = B \o O
            /\ Without(p, "advice") /\ Without(z, "advice")
  <2>1. CASE A = <<>>
    <3>1. B \o <<>> = B /\ (B \o O) \o <<>> = B \o O
      BY <1>1, <1>4, ConcatEmptySeq, ConcatProperties
    <3> QED
      BY ONLY <1>5, <2>1, <3>1, Zenon
  <2>2. CASE A = <<a>> /\ lines = (B \o A) \o O
    BY ONLY <1>1, <1>4, <2>2, Zenon
  <2>3. CASE A = <<a>> /\ lines = (B \o O) \o A
    <3>1. B \o O \in Seq(Lines) /\ <<>> \in Seq(Lines)
      BY ONLY <1>1, <1>4, ConcatProperties
    <3>2. (B \o O) \o <<>> = B \o O /\ ((B \o O) \o <<a>>) \o <<>> = (B \o O) \o <<a>>
      <4>1. (B \o O) \o <<a>> \in Seq(Lines)
        BY ONLY <1>4, <3>1, ConcatProperties
      <4> QED
        BY ONLY <3>1, <4>1, ConcatEmptySeq
    <3>3. Without(B \o O, "advice") /\ Without(<<>>, "advice")
      <4>1. "advice" \in Kinds
        BY DEF Kinds
      <4> QED
        BY ONLY <1>1, <1>4, <4>1, WithoutConcat
    <3> QED
      BY ONLY <2>3, <3>1, <3>2, <3>3, Zenon
  <2> QED
    BY ONLY <1>3, <1>5, <2>1, <2>2, <2>3
<1>7. Push!Erase(Push!Text(lines), Push!Position(lines, "advice"), Push!Width.advice)
        = Push!Text(B \o O)
  <2>1. CASE A = <<>> /\ lines = B \o O
    <3>1. Without(lines, "advice") /\ lines \in Seq(Lines)
      BY ONLY <1>1, <1>4, <2>1, WithoutConcat, ConcatProperties
    <3> QED
      BY ONLY <2>1, <3>1, NoPosition, EraseNothing
  <2>2. ASSUME NEW p \in Seq(Lines), NEW z \in Seq(Lines),
               lines = (p \o <<a>>) \o z, p \o z = B \o O,
               Without(p, "advice"), Without(z, "advice")
        PROVE  Push!Erase(Push!Text(lines), Push!Position(lines, "advice"), Push!Width.advice)
                 = Push!Text(B \o O)
    <3>1. Push!Position((p \o <<a>>) \o z, a.kind) = Len(Push!Text(p))
      BY ONLY <1>2, <2>2, PositionOf
    <3>2. Push!Erase(Push!Text((p \o <<a>>) \o z), Len(Push!Text(p)), Push!Width[a.kind])
            = Push!Text(p \o z)
      BY ONLY <1>2, <2>2, EraseLine
    <3>3. Push!Width[a.kind] = Push!Width.advice
      BY <1>2
    <3> QED
      BY ONLY <1>2, <2>2, <3>1, <3>2, <3>3, Zenon
  <2> QED
    BY ONLY <1>6, <2>1, <2>2
<1>8. Push!Erase(Push!Text(B \o O), Push!Position(lines, "batch"), Push!Width.batch)
        = Push!Text(O)
  <2>1. CASE B = <<>>
    <3>1. "batch" \in Kinds
      BY DEF Kinds
    <3>2. Without(A, "batch") /\ Without(B, "batch") /\ B \o O = O
      BY ONLY <1>1, <1>4, <2>1, <3>1, ConcatEmptySeq
    <3>3. B \o A \in Seq(Lines) /\ B \o O \in Seq(Lines)
      BY <1>1, <1>4, ConcatProperties
    <3>4. Without(lines, "batch") /\ lines \in Seq(Lines)
      <4>1. Without(B \o A, "batch") /\ Without(B \o O, "batch")
        BY ONLY <1>1, <1>4, <3>2, WithoutConcat
      <4>2. /\ Without((B \o A) \o O, "batch") /\ (B \o A) \o O \in Seq(Lines)
            /\ Without((B \o O) \o A, "batch") /\ (B \o O) \o A \in Seq(Lines)
        BY ONLY <1>1, <1>4, <3>2, <3>3, <4>1, WithoutConcat, ConcatProperties
      <4> QED
        BY ONLY <1>5, <4>2, Zenon
    <3> QED
      BY ONLY <3>2, <3>4, NoPosition, EraseNothing
  <2>2. CASE B = <<b>>
    <3>1. "batch" \in Kinds
      BY DEF Kinds
    <3>2. Without(A, "batch") /\ <<>> \in Seq(Lines) /\ Without(<<>>, "batch")
      BY ONLY <1>4, <3>1
    <3>3. PICK z \in Seq(Lines) : lines = (<<>> \o <<b>>) \o z /\ Without(z, "batch")
      <4>1. <<>> \o <<b>> = B
        BY ONLY <1>4, <2>2, ConcatEmptySeq
      <4>2. A \o O \in Seq(Lines) /\ O \o A \in Seq(Lines)
        BY <1>1, <1>4, ConcatProperties
      <4>3. (B \o A) \o O = B \o (A \o O) /\ (B \o O) \o A = B \o (O \o A)
        BY ONLY <1>1, <1>4, ConcatAssociative
      <4>4. Without(A \o O, "batch") /\ Without(O \o A, "batch")
        BY ONLY <1>1, <1>4, <3>2, WithoutConcat
      <4> QED
        BY ONLY <1>5, <4>1, <4>2, <4>3, <4>4, Zenon
    <3>4. Push!Position(lines, "batch") = Len(Push!Text(<<>>))
      BY ONLY <1>2, <3>2, <3>3, PositionOf
    <3>5. Push!Erase(Push!Text((<<>> \o <<b>>) \o O), Len(Push!Text(<<>>)), Push!Width[b.kind])
            = Push!Text(<<>> \o O)
      BY ONLY <1>1, <1>2, <3>2, EraseLine
    <3>6. <<>> \o <<b>> = B /\ <<>> \o O = O
      BY ONLY <1>1, <1>4, <2>2, ConcatEmptySeq
    <3>7. Push!Width[b.kind] = Push!Width.batch
      BY <1>2
    <3> QED
      BY ONLY <3>4, <3>5, <3>6, <3>7, Zenon
  <2> QED
    BY ONLY <1>3, <2>1, <2>2
<1> QED
  BY ONLY <1>7, <1>8, Zenon DEF Push!Process, B, O

-----------------------------------------------------------------------------
(* The inductive invariant of the push thread, the thread that calls it    *)
(* and the server.                                                         *)

PushNumbers ==
    /\ MaxOps \in Nat /\ made \in Nat /\ acked \in Nat /\ bnum \in Nat
    /\ made <= MaxOps /\ acked <= made /\ bnum <= made

PushControl ==
    /\ bayeuxState \in {"idle", "handshake", "subscribe", "connect"}
    /\ label \in {"top", "handshake", "subscribe", "connect", "put"}
    /\ seen \in {"none", "idle", "handshake", "subscribe", "connect"}
    /\ post # Push!NoPost => label \in {"handshake", "subscribe", "connect"}
    /\ bayeuxState = "idle" => seen \in {"none", "idle"}

PostType == post \in [served : BOOLEAN, xids : SUBSET Xids, bnum : Int]

PushMembers ==
    /\ xids \subseteq Xids /\ topics \subseteq {Push!Channel} \cup Xids
    /\ received \subseteq 1 .. MaxOps

(* A session that is or will be connected has its subscription: only the   *)
(* answer to a handshake ends it, and nobody goes on to connect from there.*)
Session ==
    /\ label = "connect" \/ bayeuxState = "connect" => Push!Channel \in topics
    /\ label = "subscribe" /\ post.served => Push!Channel \in topics
    /\ bayeuxState = "connect" => label # "handshake"

(* The batch number that the next connect acknowledges.  When the push     *)
(* sleeps the operations it stands for are dropped, but then the number is *)
(* dropped too: the push comes back by a handshake.                        *)
Queued(n) == \A o \in 1 .. n : o \in received

QueuedOrPut ==
    /\ Queued(acked)
    /\ label = "connect" => Queued(bnum)
    /\ label = "connect" /\ post # Push!NoPost => Queued(post.bnum)
    /\ label = "put" => \A o \in 1 .. bnum : o \in received \/ o \in Push!WholeOps(text)
    /\ label # "put" /\ ~Queued(bnum) =>
          /\ label \in {"top", "handshake"} /\ bayeuxState \in {"idle", "handshake"}
          /\ seen \in {"none", "idle", "handshake"}

PostedNumber ==
    label = "connect" /\ post # Push!NoPost => post.bnum \in Nat /\ post.bnum <= made

Whole == ~garbled /\ (label = "put" => Push!IsWhole(text))

PushInv ==
    /\ PushNumbers /\ PushControl /\ PostType /\ PushMembers
    /\ Session /\ QueuedOrPut /\ PostedNumber /\ Whole

-----------------------------------------------------------------------------
LEMMA NoneQueued == Queued(0)
<1>1. 1 .. 0 = {}
  OBVIOUS
<1> QED
  BY <1>1 DEF Queued

LEMMA NoPostType ==
    /\ Push!NoPost \in [served : BOOLEAN, xids : SUBSET Xids, bnum : Int]
    /\ ~Push!NoPost.served
  BY DEF Push!NoPost

LEMMA InitPush == ASSUME Push!PushAssumption, Push!Init PROVE PushInv
<1> USE DEF Push!Init
<1>1. PushNumbers
  <2>1. MaxOps \in Nat
    BY DEF Push!PushAssumption
  <2>2. made = 0 /\ acked = 0 /\ bnum = 0
    OBVIOUS
  <2> QED
    BY ONLY <2>1, <2>2 DEF PushNumbers
<1>2. PushControl
  BY DEF PushControl
<1>3. PostType
  BY NoPostType DEF PostType
<1>4. PushMembers
  BY DEF PushMembers
<1>5. Session
  BY DEF Session
<1>6. QueuedOrPut
  BY NoneQueued DEF QueuedOrPut
<1>7. PostedNumber /\ Whole
  BY DEF PostedNumber, Whole
<1> QED
  BY <1>1, <1>2, <1>3, <1>4, <1>5, <1>6, <1>7 DEF PushInv

LEMMA NewOperationKeeps == ASSUME PushInv, Push!NewOperation PROVE PushInv'
<1> USE DEF Push!NewOperation, Push!client, Push!outcome, PushInv
<1>1. PushNumbers'
  BY DEF PushNumbers
<1>2. PushControl'
  BY DEF PushControl
<1>3. PostType'
  BY DEF PostType
<1>4. PushMembers'
  BY DEF PushMembers
<1>5. Session'
  BY DEF Session
<1>6. QueuedOrPut'
  BY DEF QueuedOrPut, Queued
<1>7. PostedNumber' /\ Whole'
  BY DEF PostedNumber, Whole, PushNumbers
<1> QED
  BY <1>1, <1>2, <1>3, <1>4, <1>5, <1>6, <1>7

LEMMA ServeKeeps == ASSUME PushInv, Push!Serve PROVE PushInv'
<1> USE DEF Push!Serve, Push!client, Push!outcome, PushInv
<1>0. /\ post' \in [served : BOOLEAN, xids : SUBSET Xids, bnum : Int]
      /\ post'.bnum = post.bnum /\ post.xids \subseteq Xids
  BY DEF PostType
<1>1. acked' \in Nat /\ acked' <= made /\ (Queued(acked))'
  <2>1. CASE label # "connect"
    BY <2>1 DEF PushNumbers, QueuedOrPut, Queued
  <2>2. CASE label = "connect"
    <3>1. post.bnum \in Nat /\ post.bnum <= made /\ acked \in Nat /\ acked <= made
      BY <2>2 DEF PostedNumber, PushNumbers
    <3>2. Queued(post.bnum) /\ Queued(acked)
      BY <2>2 DEF QueuedOrPut
    <3>3. acked' = acked \/ acked' = post.bnum
      <4>1. acked' = Push!Max({acked, post.bnum})
        BY <2>2
      <4>2. \A p, q \in Int : Push!Max({p, q}) \in {p, q}
        BY DEF Push!Max
      <4> QED
        BY ONLY <3>1, <4>1, <4>2
    <3>4. received' = received
      OBVIOUS
    <3> QED
      BY ONLY <3>1, <3>2, <3>3, <3>4 DEF Queued
  <2> QED
    BY <2>1, <2>2
<1>2. PushNumbers'
  BY <1>1 DEF PushNumbers
<1>3. PushControl'
  BY DEF PushControl
<1>4. PostType'
  BY <1>0 DEF PostType
<1>5. PushMembers'
  BY <1>0 DEF PushMembers
<1>6. Session'
  BY DEF Session, PushControl
<1>7. QueuedOrPut'
  BY <1>0, <1>1 DEF QueuedOrPut, Queued
<1>8. PostedNumber' /\ Whole'
  BY <1>0 DEF PostedNumber, Whole
<1> QED
  BY <1>2, <1>3, <1>4, <1>5, <1>6, <1>7, <1>8

LEMMA DispatchKeeps == ASSUME PushInv, Push!Dispatch PROVE PushInv'
<1> USE DEF Push!Dispatch, Push!client, Push!server, Push!outcome, PushInv
<1>0. post = Push!NoPost
  BY DEF PushControl
<1>1. PushNumbers' /\ PostType' /\ PushMembers'
  BY DEF PushNumbers, PostType, PushMembers
<1>2. PushControl'
  BY <1>0 DEF PushControl, Push!NoPost
<1>3. Session'
  BY <1>0, NoPostType DEF PushControl, Session
<1>4. QueuedOrPut'
  BY <1>0 DEF QueuedOrPut, Queued, PushControl, Push!NoPost
<1>5. PostedNumber' /\ Whole'
  BY <1>0 DEF PostedNumber, Whole, PushControl, Push!NoPost
<1> QED
  BY <1>1, <1>2, <1>3, <1>4, <1>5

LEMMA PostBegunKeeps == ASSUME PushInv, Push!Post PROVE PushInv'
<1> USE DEF Push!Post, Push!server, Push!outcome, PushInv
<1>1. PushNumbers' /\ PushMembers'
  BY DEF PushNumbers, PushMembers
<1>2. PushControl'
  BY DEF PushControl
<1>3. /\ post' \in [served : BOOLEAN, xids : SUBSET Xids, bnum : Int]
      /\ post'.bnum = bnum /\ ~post'.served
  BY DEF PushNumbers, PushMembers
<1>4. PostType'
  BY <1>3 DEF PostType
<1>5. Session'
  BY <1>3 DEF PushControl, Session
<1>6. QueuedOrPut'
  BY <1>3, NoneQueued DEF QueuedOrPut, Queued
<1>7. PostedNumber' /\ Whole'
  BY <1>3 DEF PostedNumber, Whole, PushNumbers
<1> QED
  BY <1>1, <1>2, <1>4, <1>5, <1>6, <1>7

LEMMA HandshakenKeeps == ASSUME PushInv, Push!Handshaken PROVE PushInv'
<1> USE DEF Push!Handshaken, Push!Answered, Push!server, Push!outcome, PushInv
<1>1. PushNumbers' /\ PushMembers'
  BY DEF PushNumbers, PushMembers
<1>2. PushControl'
  BY DEF PushControl
<1>3. PostType' /\ ~post'.served
  BY NoPostType DEF PostType
<1>4. Session'
  BY <1>3 DEF Session
<1>5. QueuedOrPut'
  BY NoneQueued DEF QueuedOrPut, Queued
<1>6. PostedNumber' /\ Whole'
  BY DEF PostedNumber, Whole
<1> QED
  BY <1>1, <1>2, <1>3, <1>4, <1>5, <1>6

LEMMA SubscribedKeeps == ASSUME PushInv, Push!Subscribed PROVE PushInv'
<1> USE DEF Push!Subscribed, Push!Answered, Push!server, Push!outcome, PushInv
<1>1. PushNumbers' /\ PushMembers'
  BY DEF PushNumbers, PushMembers
<1>2. PushControl'
  BY DEF PushControl
<1>3. PostType' /\ ~post'.served
  BY NoPostType DEF PostType
<1>4. Session'
  BY <1>3 DEF Session
<1>5. QueuedOrPut'
  BY DEF QueuedOrPut, Queued
<1>6. PostedNumber' /\ Whole'
  BY DEF PostedNumber, Whole
<1> QED
  BY <1>1, <1>2, <1>3, <1>4, <1>5, <1>6

LEMMA PutKeeps == ASSUME PushInv, Push!Put PROVE PushInv'
<1> USE DEF Push!Put, Push!client, Push!server, PushInv
<1>0. post = Push!NoPost
  BY DEF PushControl
<1>1. PushNumbers' /\ PostType'
  BY DEF PushNumbers, PostType
<1>2. PushMembers'
  <2>1. Push!WholeOps(text) \subseteq 1 .. MaxOps
    BY DEF Push!WholeOps
  <2> QED
    BY <2>1 DEF PushMembers, Push!outcome
<1>3. PushControl'
  BY <1>0 DEF PushControl, Push!NoPost
<1>4. Session'
  BY <1>0, NoPostType DEF Session
<1>5. QueuedOrPut'
  <2>1. Queued(acked)'
    BY DEF QueuedOrPut, Queued, Push!outcome
  <2>2. bayeuxState # "idle" => Queued(bnum)'
    BY DEF QueuedOrPut, Queued
  <2>3. bayeuxState = "idle" => seen \in {"none", "idle"}
    BY DEF PushControl
  <2> QED
    BY <2>1, <2>2, <2>3 DEF QueuedOrPut, Queued
<1>6. PostedNumber'
  BY DEF PostedNumber
<1>7. Whole'
  <2>1. ~garbled /\ Push!IsWhole(text)
    BY DEF Whole
  <2>2. garbled' = (garbled \/ ~Push!IsWhole(text)) \/ garbled' = garbled
    BY DEF Push!outcome
  <2>3. label' = "top"
    OBVIOUS
  <2>4. ~garbled'
    BY ONLY <2>1, <2>2, Zenon
  <2> QED
    BY ONLY <2>3, <2>4 DEF Whole
<1> QED
  BY <1>1, <1>2, <1>3, <1>4, <1>5, <1>6, <1>7

(* A post that fails, whatever the cause: the thread begins anew.          *)
LEMMA FailureKeeps ==
    ASSUME PushInv, post # Push!NoPost, post' = Push!NoPost, label' = "top",
           bnum' = bnum \/ bnum' = 0,
           UNCHANGED <<bayeuxState, xids, text, seen, topics, made, acked,
                       received, garbled>>
    PROVE  PushInv'
<1> USE DEF PushInv
<1>1. PushNumbers' /\ PushMembers'
  BY DEF PushNumbers, PushMembers
<1>2. PushControl'
  BY DEF PushControl
<1>3. PostType' /\ ~post'.served
  BY NoPostType DEF PostType
<1>4. Session'
  BY <1>3 DEF Session
<1>5. QueuedOrPut'
  <2>1. Queued(acked)'
    BY DEF QueuedOrPut, Queued
  <2>2. Queued(0)'
    BY NoneQueued DEF Queued
  <2> QED
    BY <2>1, <2>2 DEF QueuedOrPut, Queued, PushControl
<1>6. PostedNumber' /\ Whole'
  BY DEF PostedNumber, Whole
<1> QED
  BY <1>1, <1>2, <1>3, <1>4, <1>5, <1>6

LEMMA FailuresKeep ==
    ASSUME PushInv, Push!Fail \/ Push!BadAnswer \/ Push!Abort
    PROVE  PushInv'
<1>1. CASE Push!Fail
  BY <1>1, FailureKeeps
     DEF Push!Fail, Push!AfterFailure, Push!client, Push!server, Push!outcome
<1>2. CASE Push!BadAnswer
  BY <1>2, NoPostType, FailureKeeps
     DEF Push!BadAnswer, Push!AfterFailure, Push!server, Push!outcome
<1>3. CASE Push!Abort
  BY <1>3, FailureKeeps
     DEF Push!Abort, Push!AfterFailure, Push!client, Push!server, Push!outcome
<1> QED
  BY <1>1, <1>2, <1>3

(* The calls of the other thread leave the numbers and the batch alone.    *)
LEMMA CallsKeep ==
    ASSUME PushInv, Push!Sleep \/ Push!Resume \/ Push!ChangeTopics \/ Push!CancelPost
    PROVE  PushInv'
<1> USE DEF Push!Sleep, Push!Resume, Push!ChangeTopics, Push!CancelPost,
            Push!Call,
            Push!server, Push!outcome, PushInv
<1>1. PushNumbers' /\ PostType' /\ PostedNumber' /\ Whole'
  BY DEF PushNumbers, PostType, PostedNumber, Whole, Queued
<1>2. PushMembers'
  BY DEF PushMembers
<1>3. PushControl'
  BY DEF PushControl
<1>4. Session'
  BY DEF Session
<1>5. QueuedOrPut'
  BY DEF QueuedOrPut, Queued, PushControl
<1> QED
  BY <1>1, <1>2, <1>3, <1>4, <1>5

LEMMA StillKeeps ==
    ASSUME PushInv, UNCHANGED Push!pushVars
    PROVE  PushInv'
<1>1. UNCHANGED <<bayeuxState, xids, bnum, label, post, text, seen, topics, made,
                  acked, received, garbled>>
  BY DEF Push!pushVars, Push!client, Push!server, Push!outcome
<1> USE <1>1 DEF PushInv
<1>2. PushNumbers' /\ PostType' /\ PushMembers' /\ PushControl'
  BY DEF PushNumbers, PostType, PushMembers, PushControl
<1>3. Session' /\ QueuedOrPut' /\ PostedNumber' /\ Whole'
  BY DEF Session, QueuedOrPut, Queued, PostedNumber, Whole
<1> QED
  BY <1>2, <1>3

(* What a connect answers is put in the queue or was there.                *)
LEMMA ConnectedKeeps ==
    ASSUME PushInv, "advice first" \notin Orders, Push!Connected
    PROVE  PushInv'
<1> USE DEF Push!Answered, Push!server, Push!outcome, PushInv
<1>1. /\ label = "connect" /\ label' = "put" /\ post' = Push!NoPost
      /\ UNCHANGED <<xids, seen, topics, made, acked, received, garbled>>
      /\ bnum' = IF Push!Batch = <<>> THEN bnum ELSE Push!Batch[1].value
  BY DEF Push!Connected
<1>2. bayeuxState' \in {bayeuxState, "connect", "handshake"}
  BY DEF Push!Connected
<1>3. text' = Push!Text(Push!Ops)
  <2>1. PICK policy : \E lines \in Push!Answer(policy) : text' = Push!Process(lines)
    BY DEF Push!Connected
  <2> QED
    BY <2>1, ProcessLeavesOps DEF PushNumbers
<1>4. /\ MaxOps \in Nat /\ made \in Nat /\ acked \in Nat /\ bnum \in Nat
      /\ made <= MaxOps /\ acked <= made /\ bnum <= made
  BY DEF PushNumbers
<1>5. /\ made - acked \in Nat /\ acked + (made - acked) = made
      /\ acked + (made - acked) <= MaxOps
  BY ONLY <1>4
<1>6. Push!Ops = OpLines(acked, made - acked)
  BY Zenon DEF Push!Ops, OpLines
<1>7. Push!IsWhole(text') /\ \A o \in acked + 1 .. made : o \in Push!WholeOps(text')
  <2>1. SpelledOps(text', acked, made - acked)
    BY ONLY <1>3, <1>4, <1>5, <1>6, TextOfOps
  <2> HIDE DEF PushInv
  <2> QED
    BY ONLY <2>1, <1>4, <1>5, OpsAreWhole
<1>8. bnum' = bnum \/ bnum' = made
  <2>1. CASE made = acked
    BY <1>1, <2>1 DEF Push!Batch
  <2>2. CASE made # acked
    <3>1. Push!Batch = <<[kind |-> "batch", value |-> made]>>
      BY <2>2 DEF Push!Batch
    <3> QED
      BY ONLY <1>1, <3>1
  <2> QED
    BY <2>1, <2>2
<1>9. PushNumbers' /\ PushMembers'
  <2>1. PushNumbers'
    BY ONLY <1>1, <1>4, <1>8 DEF PushNumbers
  <2>2. PushMembers'
    BY <1>1 DEF PushMembers
  <2> QED
    BY <2>1, <2>2
<1>10. PushControl' /\ PostType'
  BY <1>1, <1>2, NoPostType DEF PushControl, PostType
<1>11. Session'
  BY <1>1, <1>2, NoPostType DEF Session
<1>12. \A o \in 1 .. bnum' : o \in received \/ o \in Push!WholeOps(text')
  <2>1. Queued(acked) /\ Queued(bnum)
    BY <1>1 DEF QueuedOrPut
  <2>2. \A o \in 1 .. made : o \in 1 .. acked \/ o \in acked + 1 .. made
    BY ONLY <1>4
  <2> QED
    BY <1>7, <1>8, <2>1, <2>2 DEF Queued
<1>13. QueuedOrPut'
  BY <1>1, <1>12 DEF QueuedOrPut, Queued
<1>14. PostedNumber' /\ Whole'
  BY <1>1, <1>7 DEF PostedNumber, Whole
<1> QED
  BY <1>9, <1>10, <1>11, <1>13, <1>14

LEMMA StepPush ==
    "advice first" \notin Orders /\ PushInv /\ [Push!Next]_(Push!pushVars) => PushInv'
<1> SUFFICES ASSUME PushInv, "advice first" \notin Orders,
                    Push!Next \/ UNCHANGED Push!pushVars
             PROVE  PushInv'
  BY Zenon
<1>1. CASE Push!NewOperation \/ Push!Serve \/ Push!Dispatch \/ Push!Post
  BY <1>1, NewOperationKeeps, ServeKeeps, DispatchKeeps, PostBegunKeeps
<1>2. CASE Push!Handshaken \/ Push!Subscribed \/ Push!Connected \/ Push!Put
  BY <1>2, HandshakenKeeps, SubscribedKeeps, ConnectedKeeps, PutKeeps
<1>3. CASE Push!Fail \/ Push!BadAnswer \/ Push!Abort
  BY <1>3, FailuresKeep
<1>4. CASE Push!Sleep \/ Push!Resume \/ Push!ChangeTopics \/ Push!CancelPost
  BY <1>4, CallsKeep
<1>5. CASE UNCHANGED Push!pushVars
  BY <1>5, StillKeeps
<1> QED
  BY <1>1, <1>2, <1>3, <1>4, <1>5, Zenon DEF Push!Next

LEMMA PushInvImplies ==
    ASSUME PushInv PROVE ConnectsInOrder /\ Push!TypeOK
<1> USE DEF PushInv
<1>1. Push!AckedWasQueued
  BY DEF QueuedOrPut, Queued, Push!AckedWasQueued
<1>2. Push!ConnectsSubscribed
  BY DEF Session, Push!ConnectsSubscribed
<1>3. Push!BatchesAreWhole
  BY DEF Whole, Push!BatchesAreWhole
<1>4. Push!TypeOK
  <2>1. /\ bayeuxState \in Push!States /\ seen \in Push!States \cup {"none"}
        /\ label \in (Push!States \ {"idle"}) \cup {"top", "put"}
        /\ post = Push!NoPost \/ label \in Push!States
    BY DEF PushControl, Push!States
  <2>2. bnum \in 0 .. made /\ made \in 0 .. MaxOps /\ acked \in 0 .. made
    BY DEF PushNumbers
  <2> QED
    BY <2>1, <2>2 DEF PushMembers, Push!TypeOK
<1> QED
  BY <1>1, <1>2, <1>3, <1>4 DEF ConnectsInOrder

LEMMA StepPushPart ==
    "advice first" \notin Orders /\ PushInv /\ [AllNext]_allVars => PushInv'
<1>1. UNCHANGED push => UNCHANGED Push!pushVars
  BY Zenon DEF push, Push!pushVars, Push!client, Push!server, Push!outcome
<1>2. PushStep => Push!Next
  BY DEF PushStep
<1>3. WatchdogStep \/ StartupStep \/ MqttStep \/ UNCHANGED allVars => UNCHANGED push
  BY Zenon DEF WatchdogStep, StartupStep, MqttStep, allVars
<1> QED
  BY ONLY <1>1, <1>2, <1>3, StepPush, Zenon DEF AllNext

(* Reliable push: a connect follows a subscription, an operation the       *)
(* server may forget has been put in the queue, and what is put there is   *)
(* the operations and nothing else, provided that the server does not put  *)
(* the advice before the batch number: process() erases them by positions  *)
(* it took before it erased anything (srdevicepush.cc 63-171, 213-264).    *)
THEOREM ConnectsAreInOrder ==
    ASSUME "advice first" \notin Orders
    PROVE  AllSpec => []ConnectsInOrder
<1>1. AllInit => PushInv
  BY InitPush, ThreadsAssumption DEF AllInit, ThreadsAssumption
<1>2. PushInv /\ [AllNext]_allVars => PushInv'
  BY StepPushPart
<1>3. PushInv => ConnectsInOrder
  BY PushInvImplies
<1> QED
  BY <1>1, <1>2, <1>3, PTL DEF AllSpec

(* The types of the push thread's variables, and that no number is         *)
(* acknowledged that the server has not given (srdevicepush.cc).           *)
THEOREM PushTypeCorrect ==
    ASSUME "advice first" \notin Orders
    PROVE  Push!Spec => []Push!TypeOK
<1>1. Push!Init => PushInv
  BY InitPush, ThreadsAssumption DEF ThreadsAssumption
<1>2. PushInv /\ [Push!Next]_(Push!pushVars) => PushInv'
  BY StepPush
<1>3. PushInv => Push!TypeOK
  BY PushInvImplies
<1> QED
  BY <1>1, <1>2, <1>3, PTL DEF Push!Spec

-----------------------------------------------------------------------------
(***************************************************************************)
(* The messages of the broker (SrNetMqtt). The invariant looks at all that *)
(* is on its way to yield(), the rest of the buffer and the wire, as one   *)
(* stream, which recv() only cuts elsewhere: every PUBLISH in it is whole, *)
(* their numbers rise and are greater than those handed over, and they and *)
(* those handed over are all that did not go down with a connection.  Two  *)
(* rising sequences of the same numbers are one.                           *)
(***************************************************************************)
Numbered(s) == {s[k] : k \in DOMAIN s}
Rising(s) == \A j, k \in DOMAIN s : j < k => s[j] < s[k]

LEMMA RisingAppend ==
    ASSUME NEW s \in Seq(Nat), NEW e \in Nat
    PROVE  /\ Numbered(Append(s, e)) = Numbered(s) \cup {e}
           /\ Rising(Append(s, e)) <=> Rising(s) /\ \A m \in Numbered(s) : m < e
<1> DEFINE a == Append(s, e)
           l == Len(s)
<1>1. /\ l \in Nat /\ DOMAIN s = 1 .. l /\ DOMAIN a = 1 .. l + 1
      /\ \A j \in 1 .. l : a[j] = s[j] /\ s[j] \in Nat
      /\ a[l + 1] = e
  OBVIOUS
<1> HIDE DEF a, l
<1>2. Numbered(a) = Numbered(s) \cup {e}
  <2>1. ASSUME NEW j \in 1 .. l + 1 PROVE a[j] \in Numbered(s) \cup {e}
    <3>1. j \in 1 .. l \/ j = l + 1
      BY <1>1
    <3> QED
      BY <1>1, <3>1 DEF Numbered
  <2>2. ASSUME NEW j \in 1 .. l PROVE s[j] \in Numbered(a)
    <3>1. j \in 1 .. l + 1 /\ a[j] = s[j]
      BY <1>1
    <3> QED
      BY <1>1, <3>1 DEF Numbered
  <2>3. e \in Numbered(a)
    <3>1. l + 1 \in 1 .. l + 1
      BY <1>1
    <3> QED
      BY <1>1, <3>1 DEF Numbered
  <2> QED
    BY <1>1, <2>1, <2>2, <2>3 DEF Numbered
<1>3. ASSUME Rising(a) PROVE Rising(s) /\ \A m \in Numbered(s) : m < e
  <2>1. ASSUME NEW j \in 1 .. l PROVE s[j] < e
    <3>1. j \in 1 .. l + 1 /\ l + 1 \in 1 .. l + 1 /\ j < l + 1
      BY <1>1
    <3> QED
      BY <1>1, <1>3, <3>1 DEF Rising
  <2>2. ASSUME NEW j \in 1 .. l, NEW k \in 1 .. l, j < k PROVE s[j] < s[k]
    <3>1. j \in 1 .. l + 1 /\ k \in 1 .. l + 1
      BY <1>1
    <3> QED
      BY <1>1, <1>3, <2>2, <3>1 DEF Rising
  <2> QED
    BY <1>1, <2>1, <2>2 DEF Rising, Numbered
<1>4. ASSUME Rising(s), \A m \in Numbered(s) : m < e PROVE Rising(a)
  <2>1. ASSUME NEW j \in 1 .. l + 1, NEW k \in 1 .. l + 1, j < k PROVE a[j] < a[k]
    <3>1. j \in 1 .. l
      BY <1>1, <2>1
    <3>2. CASE k \in 1 .. l
      BY <1>1, <1>4, <2>1, <3>1, <3>2 DEF Rising
    <3>3. CASE k = l + 1
      <4>1. s[j] \in Numbered(s)
        BY <1>1, <3>1 DEF Numbered
      <4> QED
        BY <1>1, <1>4, <3>1, <3>3, <4>1
    <3> QED
      BY <1>1, <3>2, <3>3
  <2> QED
    BY <1>1, <2>1 DEF Rising
<1> QED
  BY <1>2, <1>3, <1>4 DEF a

(* A greatest number and what is below it. *)
LEMMA SameTop ==
    ASSUME NEW A \in SUBSET Nat, NEW B \in SUBSET Nat, NEW e \in Nat, NEW f \in Nat,
           A \cup {e} = B \cup {f}, \A m \in A : m < e, \A m \in B : m < f
    PROVE  e = f /\ A = B
<1>1. e \in B \cup {f} /\ f \in A \cup {e}
  OBVIOUS
<1>2. (e = f \/ e < f) /\ (f = e \/ f < e)
  BY <1>1
<1>3. e = f
  BY <1>2
<1>4. e \notin A /\ e \notin B
  BY <1>3
<1>5. ASSUME NEW m PROVE m \in A <=> m \in B
  <2>1. m \in A \cup {e} <=> m \in B \cup {f}
    OBVIOUS
  <2> QED
    BY ONLY <1>3, <1>4, <2>1
<1> QED
  BY <1>3, <1>5

LEMMA RisingAreOne ==
    ASSUME NEW s \in Seq(Nat), NEW t \in Seq(Nat), Rising(s), Rising(t),
           Numbered(s) = Numbered(t)
    PROVE  s = t
<1> DEFINE T == {u \in Seq(Nat) : Rising(u) =>
                   \A v \in Seq(Nat) : Rising(v) /\ Numbered(u) = Numbered(v) => u = v}
<1>1. <<>> \in T
  <2>1. <<>> \in Seq(Nat) /\ Numbered(<<>>) = {}
    BY DEF Numbered
  <2>2. ASSUME NEW v \in Seq(Nat), Numbered(v) = {} PROVE <<>> = v
    <3>1. CASE v # <<>>
      <4>1. 1 \in DOMAIN v
        BY <3>1, EmptySeq
      <4> QED
        BY <2>2, <4>1 DEF Numbered
    <3> QED
      BY <3>1
  <2> QED
    BY <2>1, <2>2
<1>2. ASSUME NEW u \in Seq(Nat), u \in T, NEW e \in Nat PROVE Append(u, e) \in T
  <2>1. Append(u, e) \in Seq(Nat)
    OBVIOUS
  <2>2. ASSUME Rising(Append(u, e)), NEW v \in Seq(Nat), Rising(v),
               Numbered(Append(u, e)) = Numbered(v)
        PROVE  Append(u, e) = v
    <3>1. Numbered(v) = Numbered(u) \cup {e} /\ Rising(u) /\ \A m \in Numbered(u) : m < e
      BY <2>2, RisingAppend
    <3>2. v # <<>>
      <4>1. Numbered(<<>>) = {}
        BY DEF Numbered
      <4> QED
        BY <3>1, <4>1, Zenon
    <3>3. PICK w \in Seq(Nat), f \in Nat : v = Append(w, f)
      BY <3>2, SequenceEmptyOrAppend
    <3>4. Numbered(v) = Numbered(w) \cup {f} /\ Rising(w) /\ \A m \in Numbered(w) : m < f
      BY <2>2, <3>3, RisingAppend
    <3>5. Numbered(u) \subseteq Nat /\ Numbered(w) \subseteq Nat
      BY DEF Numbered
    <3>6. Numbered(u) \cup {e} = Numbered(w) \cup {f}
      BY ONLY <3>1, <3>4, Zenon
    <3>7. e = f /\ Numbered(u) = Numbered(w)
      BY <3>1, <3>4, <3>5, <3>6, SameTop
    <3>8. u = w
      BY <1>2, <3>1, <3>4, <3>7
    <3> QED
      BY <3>3, <3>7, <3>8
  <2> QED
    BY <2>1, <2>2
<1> HIDE DEF T
<1>3. Seq(Nat) \subseteq T
  BY <1>1, <1>2, SequenceInduction
<1> QED
  BY <1>3 DEF T

-----------------------------------------------------------------------------
(* What Bodies and the property's sequence hold. *)

LEMMA MqttFlatten == \A s : Mqtt!FlattenSeq(s) = FlattenSeq(s)
  BY DEF Mqtt!FlattenSeq, FlattenSeq

(* The units of a stream, whatever their numbers. *)
UnitKinds == {"head", "body", "connack", "suback", "pingresp", "puback"}
Streams == Seq(UnitKinds \X Nat)

BodyOf(u) == IF u[1] = "body" THEN <<u[2]>> ELSE <<>>
BodiesOf(s) == [k \in DOMAIN s |-> BodyOf(s[k])]

LEMMA BodiesIs == \A s : Mqtt!Bodies(s) = FlattenSeq(BodiesOf(s))
  BY MqttFlatten, Zenon DEF Mqtt!Bodies, BodiesOf, BodyOf

LEMMA BodyType == ASSUME NEW u \in UnitKinds \X Nat PROVE BodyOf(u) \in Seq(Nat)
  BY DEF BodyOf

LEMMA BodiesOfType == ASSUME NEW s \in Streams PROVE BodiesOf(s) \in Seq(Seq(Nat))
<1>1. \A k \in 1 .. Len(s) : BodyOf(s[k]) \in Seq(Nat)
  BY BodyType DEF Streams
<1>2. DOMAIN s = 1 .. Len(s) /\ Len(s) \in Nat
  BY DEF Streams
<1> QED
  BY <1>1, <1>2 DEF BodiesOf

LEMMA BodiesEmpty == Mqtt!Bodies(<<>>) = <<>>
<1>1. BodiesOf(<<>>) = <<>>
  BY DEF BodiesOf
<1> QED
  BY <1>1, BodiesIs, FlattenEmpty

LEMMA BodiesAppend ==
    ASSUME NEW s \in Streams, NEW u \in UnitKinds \X Nat
    PROVE  Mqtt!Bodies(Append(s, u)) = Mqtt!Bodies(s) \o BodyOf(u)
<1>1. BodiesOf(Append(s, u)) = Append(BodiesOf(s), BodyOf(u))
  BY DEF BodiesOf, Streams
<1> QED
  BY <1>1, BodiesIs, BodiesOfType, BodyType, FlattenAppend

LEMMA BodiesType == ASSUME NEW s \in Streams PROVE Mqtt!Bodies(s) \in Seq(Nat)
  BY BodiesIs, BodiesOfType, FlattenType

(* The numbers of the bodies in a stream rise. *)
Ordered(s) ==
    \A j, k \in DOMAIN s : j < k /\ s[j][1] = "body" /\ s[k][1] = "body" => s[j][2] < s[k][2]

LEMMA MessagesAppend ==
    ASSUME NEW s \in Streams, NEW u \in UnitKinds \X Nat
    PROVE  /\ Mqtt!Messages(Append(s, u))
                = Mqtt!Messages(s) \cup (IF u[1] = "body" THEN {u[2]} ELSE {})
           /\ Ordered(Append(s, u)) <=>
                 Ordered(s) /\ (u[1] = "body" => \A m \in Mqtt!Messages(s) : m < u[2])
<1> DEFINE a == Append(s, u)
           l == Len(s)
<1>1. /\ l \in Nat /\ DOMAIN s = 1 .. l /\ DOMAIN a = 1 .. l + 1
      /\ \A j \in 1 .. l : a[j] = s[j] /\ s[j][2] \in Nat
      /\ a[l + 1] = u /\ u[2] \in Nat
  BY DEF Streams
<1>2. /\ \A j \in 1 .. l : j \in 1 .. l + 1 /\ j < l + 1
      /\ l + 1 \in 1 .. l + 1
      /\ \A j \in 1 .. l + 1 : j \in 1 .. l \/ j = l + 1
      /\ \A j, k \in 1 .. l + 1 : j < k => j \in 1 .. l
  BY <1>1
<1> HIDE DEF a, l
<1>3. ASSUME NEW m PROVE m \in Mqtt!Messages(a) <=>
                 m \in Mqtt!Messages(s) \cup (IF u[1] = "body" THEN {u[2]} ELSE {})
  <2>1. m \in Mqtt!Messages(a) <=> \E j \in 1 .. l + 1 : a[j][1] = "body" /\ m = a[j][2]
    BY <1>1 DEF Mqtt!Messages
  <2>2. m \in Mqtt!Messages(s) <=> \E j \in 1 .. l : s[j][1] = "body" /\ m = s[j][2]
    BY <1>1 DEF Mqtt!Messages
  <2>3. (\E j \in 1 .. l + 1 : a[j][1] = "body" /\ m = a[j][2])
          <=> \/ \E j \in 1 .. l : s[j][1] = "body" /\ m = s[j][2]
              \/ u[1] = "body" /\ m = u[2]
    BY ONLY <1>1, <1>2, Zenon
  <2> QED
    BY ONLY <2>1, <2>2, <2>3
<1>4. ASSUME Ordered(a)
      PROVE  Ordered(s) /\ (u[1] = "body" => \A m \in Mqtt!Messages(s) : m < u[2])
  <2>1. ASSUME NEW j \in 1 .. l, NEW k \in 1 .. l,
               j < k, s[j][1] = "body", s[k][1] = "body"
        PROVE  s[j][2] < s[k][2]
    BY <1>1, <1>2, <1>4, <2>1 DEF Ordered
  <2>2. ASSUME u[1] = "body", NEW j \in 1 .. l, s[j][1] = "body" PROVE s[j][2] < u[2]
    BY <1>1, <1>2, <1>4, <2>2 DEF Ordered
  <2> QED
    BY <1>1, <2>1, <2>2 DEF Ordered, Mqtt!Messages
<1>5. ASSUME Ordered(s), u[1] = "body" => \A m \in Mqtt!Messages(s) : m < u[2]
      PROVE  Ordered(a)
  <2>1. ASSUME NEW j \in 1 .. l + 1, NEW k \in 1 .. l + 1,
               j < k, a[j][1] = "body", a[k][1] = "body"
        PROVE  a[j][2] < a[k][2]
    <3>1. j \in 1 .. l /\ s[j][1] = "body" /\ a[j] = s[j]
      BY <1>1, <1>2, <2>1
    <3>2. CASE k \in 1 .. l
      BY <1>1, <1>5, <2>1, <3>1, <3>2 DEF Ordered
    <3>3. CASE k = l + 1
      <4>1. s[j][2] \in Mqtt!Messages(s)
        BY <1>1, <3>1 DEF Mqtt!Messages
      <4> QED
        BY <1>1, <1>5, <2>1, <3>1, <3>3, <4>1
    <3> QED
      BY <1>2, <3>2, <3>3
  <2> QED
    BY <1>1, <2>1 DEF Ordered
<1> QED
  BY <1>3, <1>4, <1>5 DEF a

LEMMA BodiesAre ==
    ASSUME NEW s \in Streams
    PROVE  /\ Numbered(Mqtt!Bodies(s)) = Mqtt!Messages(s)
           /\ Ordered(s) => Rising(Mqtt!Bodies(s))
<1> DEFINE T == {r \in Streams : /\ Numbered(Mqtt!Bodies(r)) = Mqtt!Messages(r)
                                 /\ Ordered(r) => Rising(Mqtt!Bodies(r))}
<1>1. <<>> \in T
  <2>1. <<>> \in Streams /\ Mqtt!Messages(<<>>) = {}
    BY DEF Streams, Mqtt!Messages
  <2>2. Numbered(<<>>) = {} /\ Rising(<<>>)
    BY DEF Numbered, Rising
  <2> QED
    BY <2>1, <2>2, BodiesEmpty
<1>2. ASSUME NEW r \in Streams, r \in T, NEW u \in UnitKinds \X Nat PROVE Append(r, u) \in T
  <2>1. Append(r, u) \in Streams /\ Mqtt!Bodies(r) \in Seq(Nat) /\ u[2] \in Nat
    BY BodiesType DEF Streams
  <2>2. CASE u[1] = "body"
    <3>1. Mqtt!Bodies(Append(r, u)) = Append(Mqtt!Bodies(r), u[2])
      <4>1. BodyOf(u) = <<u[2]>>
        BY <2>2 DEF BodyOf
      <4>2. Mqtt!Bodies(r) \o <<u[2]>> = Append(Mqtt!Bodies(r), u[2])
        BY <2>1
      <4> QED
        BY <4>1, <4>2, BodiesAppend
    <3>2. /\ Mqtt!Messages(Append(r, u)) = Mqtt!Messages(r) \cup {u[2]}
          /\ Ordered(Append(r, u)) => Ordered(r) /\ \A m \in Mqtt!Messages(r) : m < u[2]
      BY <2>2, MessagesAppend
    <3>3. /\ Numbered(Append(Mqtt!Bodies(r), u[2])) = Numbered(Mqtt!Bodies(r)) \cup {u[2]}
          /\ Rising(Append(Mqtt!Bodies(r), u[2]))
               <=> Rising(Mqtt!Bodies(r)) /\ \A m \in Numbered(Mqtt!Bodies(r)) : m < u[2]
      BY <2>1, RisingAppend
    <3>4. /\ Numbered(Mqtt!Bodies(r)) = Mqtt!Messages(r)
          /\ Ordered(r) => Rising(Mqtt!Bodies(r))
      BY <1>2
    <3>5. Numbered(Mqtt!Bodies(Append(r, u))) = Mqtt!Messages(Append(r, u))
      BY ONLY <3>1, <3>2, <3>3, <3>4, Zenon
    <3>6. Ordered(Append(r, u)) => Rising(Mqtt!Bodies(Append(r, u)))
      BY ONLY <3>1, <3>2, <3>3, <3>4, Zenon
    <3> QED
      BY <2>1, <3>5, <3>6
  <2>3. CASE u[1] # "body"
    <3>1. Mqtt!Bodies(Append(r, u)) = Mqtt!Bodies(r)
      <4>1. BodyOf(u) = <<>>
        BY <2>3 DEF BodyOf
      <4>2. Mqtt!Bodies(r) \o <<>> = Mqtt!Bodies(r)
        BY <2>1, ConcatEmptySeq
      <4> QED
        BY <4>1, <4>2, BodiesAppend
    <3> QED
      BY <1>2, <2>1, <2>3, <3>1, MessagesAppend
  <2> QED
    BY <2>2, <2>3
<1> HIDE DEF T
<1>3. Streams \subseteq T
  BY <1>1, <1>2, SequenceInduction DEF Streams
<1> QED
  BY <1>3 DEF T

(* The numbers up to m but for those of L. *)
Kept(m, L) == FlattenSeq([k \in 1 .. m |-> IF k \in L THEN <<>> ELSE <<k>>])

LEMMA KeptAre ==
    ASSUME NEW m \in Nat, NEW L
    PROVE  /\ Kept(m, L) \in Seq(Nat) /\ Rising(Kept(m, L))
           /\ Numbered(Kept(m, L)) = {k \in 1 .. m : k \notin L}
<1> DEFINE F(n) == [k \in 1 .. n |-> IF k \in L THEN <<>> ELSE <<k>>]
           T == {n \in Nat : /\ Kept(n, L) \in Seq(Nat) /\ Rising(Kept(n, L))
                             /\ Numbered(Kept(n, L)) = {k \in 1 .. n : k \notin L}}
<1>1. 0 \in T
  <2>1. F(0) = <<>>
    OBVIOUS
  <2>2. Kept(0, L) = <<>>
    BY <2>1, FlattenEmpty DEF Kept
  <2>3. <<>> \in Seq(Nat) /\ Numbered(<<>>) = {} /\ Rising(<<>>)
    BY DEF Numbered, Rising
  <2>4. 1 .. 0 = {}
    OBVIOUS
  <2> QED
    BY <2>2, <2>3, <2>4
<1>2. ASSUME NEW n \in Nat, n \in T PROVE n + 1 \in T
  <2> DEFINE e == IF n + 1 \in L THEN <<>> ELSE <<n + 1>>
  <2>1. F(n) \in Seq(Seq(Nat)) /\ e \in Seq(Nat) /\ F(n + 1) = Append(F(n), e)
    <3>1. \A k \in 1 .. n : (IF k \in L THEN <<>> ELSE <<k>>) \in Seq(Nat)
      OBVIOUS
    <3>2. F(n) \in Seq(Seq(Nat)) /\ e \in Seq(Nat) /\ Len(F(n)) = n
      BY <3>1
    <3>3. F(n + 1) = Append(F(n), e)
      BY <3>2
    <3> QED
      BY <3>2, <3>3
  <2>2. Kept(n + 1, L) = Kept(n, L) \o e
    <3> HIDE DEF F, e
    <3>1. FlattenSeq(F(n + 1)) = FlattenSeq(F(n)) \o e
      BY <2>1, FlattenAppend
    <3> QED
      BY <3>1 DEF Kept, F
  <2>3. CASE n + 1 \in L
    <3>1. Kept(n + 1, L) = Kept(n, L)
      BY <1>2, <2>2, <2>3, ConcatEmptySeq
    <3>2. {k \in 1 .. n + 1 : k \notin L} = {k \in 1 .. n : k \notin L}
      BY <2>3
    <3> QED
      BY <1>2, <3>1, <3>2
  <2>4. CASE n + 1 \notin L
    <3>1. Kept(n + 1, L) = Append(Kept(n, L), n + 1)
      BY <1>2, <2>2, <2>4
    <3>2. {k \in 1 .. n + 1 : k \notin L} = {k \in 1 .. n : k \notin L} \cup {n + 1}
      BY <2>4
    <3>3. \A k \in {k \in 1 .. n : k \notin L} : k < n + 1
      OBVIOUS
    <3>4. Kept(n, L) \in Seq(Nat) /\ n + 1 \in Nat
      BY <1>2
    <3>5. /\ Numbered(Append(Kept(n, L), n + 1)) = Numbered(Kept(n, L)) \cup {n + 1}
          /\ Rising(Append(Kept(n, L), n + 1))
               <=> Rising(Kept(n, L)) /\ \A k \in Numbered(Kept(n, L)) : k < n + 1
      BY <3>4, RisingAppend
    <3>6. Append(Kept(n, L), n + 1) \in Seq(Nat)
      BY <3>4
    <3> QED
      <4>1. Rising(Append(Kept(n, L), n + 1))
        <5>1. Rising(Kept(n, L)) /\ Numbered(Kept(n, L)) = {k \in 1 .. n : k \notin L}
          BY <1>2
        <5> QED
          BY ONLY <3>3, <3>5, <5>1, Zenon
      <4>2. Numbered(Append(Kept(n, L), n + 1)) = {k \in 1 .. n + 1 : k \notin L}
        <5>1. Numbered(Kept(n, L)) = {k \in 1 .. n : k \notin L}
          BY <1>2
        <5> QED
          BY ONLY <3>2, <3>5, <5>1, Zenon
      <4>3. n + 1 \in Nat
        OBVIOUS
      <4> QED
        BY ONLY <3>1, <3>6, <4>1, <4>2, <4>3, Zenon
  <2> QED
    BY <2>3, <2>4
<1> HIDE DEF T
<1>3. Nat \subseteq T
  BY <1>1, <1>2, SetInduction
<1> QED
  BY <1>3 DEF T

-----------------------------------------------------------------------------
(* Streams: cut and joined. *)

Units == UnitKinds \X Nat

(* Every head is followed by its body, and every body comes after its head. *)
Paired(s) ==
    \A k \in DOMAIN s :
        /\ s[k][1] = "head" => k + 1 \in DOMAIN s /\ s[k + 1] = <<"body", s[k][2]>>
        /\ s[k][1] = "body" => k > 1 /\ s[k - 1][1] = "head"

LEMMA CutRight ==
    ASSUME NEW s \in Streams, NEW d \in 0 .. Len(s)
    PROVE  /\ Mqtt!Prefix(s, d) \in Streams /\ DOMAIN Mqtt!Prefix(s, d) = 1 .. d
           /\ \A k \in 1 .. d : Mqtt!Prefix(s, d)[k] = s[k]
           /\ Mqtt!Rest(s, d) \in Streams /\ DOMAIN Mqtt!Rest(s, d) = 1 .. Len(s) - d
           /\ Len(Mqtt!Prefix(s, d)) = d /\ Len(Mqtt!Rest(s, d)) = Len(s) - d
           /\ \A k \in 1 .. Len(s) - d : Mqtt!Rest(s, d)[k] = s[k + d]
<1>1. Len(s) \in Nat /\ DOMAIN s = 1 .. Len(s) /\ \A k \in 1 .. Len(s) : s[k] \in Units
  BY DEF Streams, Units
<1>2. \A k \in 1 .. d : s[k] \in Units
  BY <1>1
<1>3. \A k \in d + 1 .. Len(s) : s[k] \in Units
  BY <1>1
<1>4. /\ SubSeq(s, 1, d) \in Seq(Units)
      /\ Len(SubSeq(s, 1, d)) = IF 1 <= d THEN d - 1 + 1 ELSE 0
      /\ \A k \in 1 .. d - 1 + 1 : SubSeq(s, 1, d)[k] = s[1 + k - 1]
  BY <1>1, <1>2, SubSeqProperties
<1>5. /\ SubSeq(s, d + 1, Len(s)) \in Seq(Units)
      /\ Len(SubSeq(s, d + 1, Len(s))) = IF d + 1 <= Len(s) THEN Len(s) - (d + 1) + 1 ELSE 0
      /\ \A k \in 1 .. Len(s) - (d + 1) + 1 : SubSeq(s, d + 1, Len(s))[k] = s[d + 1 + k - 1]
  BY <1>1, <1>3, SubSeqProperties
<1> DEFINE p == SubSeq(s, 1, d)
           r == SubSeq(s, d + 1, Len(s))
<1>6. /\ p \in Seq(Units) /\ Len(p) = d /\ \A k \in 1 .. d : p[k] = s[k]
      /\ r \in Seq(Units) /\ Len(r) = Len(s) - d /\ \A k \in 1 .. Len(s) - d : r[k] = s[k + d]
  <2> HIDE DEF p, r
  <2>1. /\ p \in Seq(Units) /\ Len(p) = IF 1 <= d THEN d - 1 + 1 ELSE 0
        /\ \A k \in 1 .. d - 1 + 1 : p[k] = s[1 + k - 1]
    BY <1>4 DEF p
  <2>2. /\ r \in Seq(Units) /\ Len(r) = IF d + 1 <= Len(s) THEN Len(s) - (d + 1) + 1 ELSE 0
        /\ \A k \in 1 .. Len(s) - (d + 1) + 1 : r[k] = s[d + 1 + k - 1]
    BY <1>5 DEF r
  <2>3. d - 1 + 1 = d /\ Len(s) - (d + 1) + 1 = Len(s) - d
    BY <1>1
  <2>4. \A k \in 1 .. d : 1 + k - 1 = k
    OBVIOUS
  <2>5. \A k \in 1 .. Len(s) - d : d + 1 + k - 1 = k + d
    OBVIOUS
  <2>6. Len(p) = d /\ Len(r) = Len(s) - d
    <3>1. Len(s) \in Nat /\ d \in 0 .. Len(s)
      BY <1>1
    <3>2. /\ Len(p) = IF 1 <= d THEN d - 1 + 1 ELSE 0
          /\ Len(r) = IF d + 1 <= Len(s) THEN Len(s) - (d + 1) + 1 ELSE 0
      BY ONLY <2>1, <2>2
    <3> QED
      BY ONLY <3>1, <3>2
  <2> QED
    BY <2>1, <2>2, <2>3, <2>4, <2>5, <2>6
<1>7. DOMAIN p = 1 .. d /\ DOMAIN r = 1 .. Len(s) - d
  <2> HIDE DEF p, r
  <2> QED
    BY <1>6
<1> QED
  BY <1>6, <1>7 DEF Mqtt!Prefix, Mqtt!Rest, Streams, Units

LEMMA JoinRight ==
    ASSUME NEW s \in Streams, NEW t \in Streams
    PROVE  /\ s \o t \in Streams /\ Len(s \o t) = Len(s) + Len(t)
           /\ DOMAIN (s \o t) = 1 .. Len(s) + Len(t)
           /\ \A k \in 1 .. Len(s) : (s \o t)[k] = s[k]
           /\ \A k \in 1 .. Len(t) : (s \o t)[Len(s) + k] = t[k]
<1>1. s \in Seq(Units) /\ t \in Seq(Units)
  BY DEF Streams, Units
<1> QED
  BY <1>1 DEF Streams, Units

LEMMA SameStreams ==
    ASSUME NEW s \in Streams, NEW t \in Streams, Len(s) = Len(t),
           \A k \in 1 .. Len(s) : s[k] = t[k]
    PROVE  s = t
  BY SeqEqual DEF Streams

(* What recv() appends, and yield() reads, does not change the stream. *)
LEMMA RecvSame ==
    ASSUME NEW r \in Streams, NEW w \in Streams, NEW j \in 0 .. Len(r), NEW n \in 0 .. Len(w)
    PROVE  /\ r \o Mqtt!Prefix(w, n) \in Streams /\ Mqtt!Rest(w, n) \in Streams
           /\ Len(r \o Mqtt!Prefix(w, n)) = Len(r) + n
           /\ Mqtt!Rest(r \o Mqtt!Prefix(w, n), j) \o Mqtt!Rest(w, n) = Mqtt!Rest(r, j) \o w
<1> DEFINE x == Mqtt!Prefix(w, n)
           y == Mqtt!Rest(w, n)
           rx == r \o x
           z == Mqtt!Rest(rx, j)
           q == Mqtt!Rest(r, j)
<1>0. Len(r) \in Nat /\ Len(w) \in Nat
  BY DEF Streams
<1>1. /\ x \in Streams /\ Len(x) = n /\ \A k \in 1 .. n : x[k] = w[k]
      /\ y \in Streams /\ Len(y) = Len(w) - n /\ \A k \in 1 .. Len(w) - n : y[k] = w[k + n]
  BY CutRight
<1>2. /\ rx \in Streams /\ Len(rx) = Len(r) + n
      /\ \A k \in 1 .. Len(r) : rx[k] = r[k]
      /\ \A k \in 1 .. n : rx[Len(r) + k] = x[k]
  <2> HIDE DEF x
  <2>1. /\ rx \in Streams /\ Len(rx) = Len(r) + Len(x)
        /\ \A k \in 1 .. Len(r) : rx[k] = r[k]
        /\ \A k \in 1 .. Len(x) : rx[Len(r) + k] = x[k]
    BY <1>1, JoinRight
  <2>2. Len(x) = n
    BY <1>1
  <2> HIDE DEF rx
  <2> QED
    BY ONLY <2>1, <2>2, Zenon
<1> HIDE DEF x, y, rx
<1>3. j \in 0 .. Len(rx)
  BY <1>0, <1>2
<1>4. /\ z \in Streams /\ Len(z) = Len(r) + n - j
      /\ \A k \in 1 .. Len(r) + n - j : z[k] = rx[k + j]
  <2>1. /\ z \in Streams /\ Len(z) = Len(rx) - j
        /\ \A k \in 1 .. Len(rx) - j : z[k] = rx[k + j]
    BY <1>2, <1>3, CutRight
  <2>2. Len(rx) = Len(r) + n
    BY <1>2
  <2>3. Len(rx) - j = Len(r) + n - j
    BY ONLY <2>2
  <2> HIDE DEF z
  <2> QED
    BY ONLY <2>1, <2>3
<1>5. q \in Streams /\ Len(q) = Len(r) - j /\ \A k \in 1 .. Len(r) - j : q[k] = r[k + j]
  BY CutRight
<1> HIDE DEF z, q
<1>6. /\ z \o y \in Streams /\ Len(z \o y) = Len(z) + Len(y)
      /\ \A k \in 1 .. Len(z) : (z \o y)[k] = z[k]
      /\ \A k \in 1 .. Len(y) : (z \o y)[Len(z) + k] = y[k]
  BY <1>1, <1>4, JoinRight
<1>7. /\ q \o w \in Streams /\ Len(q \o w) = Len(q) + Len(w)
      /\ \A k \in 1 .. Len(q) : (q \o w)[k] = q[k]
      /\ \A k \in 1 .. Len(w) : (q \o w)[Len(q) + k] = w[k]
  BY <1>5, JoinRight
<1>8. Len(z \o y) = Len(q \o w) /\ Len(z \o y) = Len(r) - j + Len(w)
  BY <1>0, <1>1, <1>4, <1>5, <1>6, <1>7
<1>9. ASSUME NEW k \in 1 .. Len(r) - j + Len(w) PROVE (z \o y)[k] = (q \o w)[k]
  <2>1. CASE k <= Len(r) - j
    <3>1. k \in 1 .. Len(z) /\ k \in 1 .. Len(q) /\ k + j \in 1 .. Len(r)
      BY <1>0, <1>4, <1>5, <2>1
    <3>2. k \in 1 .. Len(r) + n - j /\ k \in 1 .. Len(r) - j
      BY <1>0, <2>1
    <3>3. (z \o y)[k] = rx[k + j] /\ (q \o w)[k] = r[k + j]
      BY ONLY <1>4, <1>5, <1>6, <1>7, <3>1, <3>2
    <3> QED
      BY ONLY <1>2, <3>1, <3>3
  <2>2. CASE k > Len(r) - j /\ k <= Len(r) - j + n
    <3> DEFINE a == k - (Len(r) - j)
    <3>1. a \in 1 .. n /\ a \in 1 .. Len(w) /\ k = Len(q) + a /\ k + j = Len(r) + a
      BY <1>0, <1>5, <2>2
    <3>2. k \in 1 .. Len(z) /\ k \in 1 .. Len(r) + n - j
      BY <1>0, <1>4, <2>2
    <3> HIDE DEF a
    <3>3. (z \o y)[k] = z[k] /\ z[k] = rx[k + j] /\ rx[Len(r) + a] = x[a] /\ x[a] = w[a]
      BY ONLY <1>1, <1>2, <1>4, <1>6, <3>1, <3>2
    <3>4. (q \o w)[Len(q) + a] = w[a]
      BY ONLY <1>7, <3>1
    <3> QED
      BY ONLY <3>1, <3>3, <3>4
  <2>3. CASE k > Len(r) - j + n
    <3> DEFINE a == k - (Len(r) - j + n)
    <3>1. /\ a \in 1 .. Len(y) /\ a \in 1 .. Len(w) - n /\ a + n \in 1 .. Len(w)
          /\ k = Len(z) + a /\ k = Len(q) + (a + n)
      <4>1. /\ Len(r) \in Nat /\ Len(w) \in Nat /\ j \in 0 .. Len(r) /\ n \in 0 .. Len(w)
            /\ k \in 1 .. Len(r) - j + Len(w) /\ k > Len(r) - j + n
            /\ Len(y) = Len(w) - n /\ Len(z) = Len(r) + n - j /\ Len(q) = Len(r) - j
        BY <1>0, <1>1, <1>4, <1>5, <2>3
      <4> QED
        BY ONLY <4>1
    <3> HIDE DEF a
    <3>2. (z \o y)[Len(z) + a] = y[a] /\ y[a] = w[a + n]
      BY ONLY <1>1, <1>6, <3>1
    <3>3. (q \o w)[Len(q) + (a + n)] = w[a + n]
      BY ONLY <1>7, <3>1
    <3> QED
      BY ONLY <3>1, <3>2, <3>3
  <2>4. k <= Len(r) - j \/ (k > Len(r) - j /\ k <= Len(r) - j + n) \/ k > Len(r) - j + n
    BY <1>0
  <2> QED
    BY ONLY <2>1, <2>2, <2>3, <2>4
<1>10. z \o y = q \o w
  BY ONLY <1>6, <1>7, <1>8, <1>9, SameStreams
<1> QED
  BY <1>1, <1>2, <1>10 DEF x, y, rx, z, q

(* To drop units of q, or to cut w, is to drop or cut units of both. *)
LEMMA DropSame ==
    ASSUME NEW q \in Streams, NEW w \in Streams, NEW d \in 0 .. Len(q)
    PROVE  d \in 0 .. Len(q \o w) /\ Mqtt!Rest(q, d) \o w = Mqtt!Rest(q \o w, d)
<1> DEFINE x == Mqtt!Rest(q, d)
           s == q \o w
           y == Mqtt!Rest(s, d)
           z == x \o w
<1>1. x \in Streams /\ Len(x) = Len(q) - d /\ \A k \in 1 .. Len(q) - d : x[k] = q[k + d]
  BY CutRight
<1>2. /\ s \in Streams /\ Len(s) = Len(q) + Len(w)
      /\ \A k \in 1 .. Len(q) : s[k] = q[k]
      /\ \A k \in 1 .. Len(w) : s[Len(q) + k] = w[k]
  BY JoinRight
<1>3. Len(q) \in Nat /\ Len(w) \in Nat
  BY DEF Streams
<1>4. d \in 0 .. Len(s)
  BY <1>2, <1>3
<1> HIDE DEF x, s
<1>5. y \in Streams /\ Len(y) = Len(s) - d /\ \A k \in 1 .. Len(s) - d : y[k] = s[k + d]
  BY <1>2, <1>4, CutRight
<1>6. /\ z \in Streams /\ Len(z) = Len(x) + Len(w)
      /\ \A k \in 1 .. Len(x) : z[k] = x[k]
      /\ \A k \in 1 .. Len(w) : z[Len(x) + k] = w[k]
  BY <1>1, JoinRight
<1> HIDE DEF y, z
<1>7. Len(z) = Len(y)
  BY <1>1, <1>2, <1>3, <1>5, <1>6
<1>8. ASSUME NEW k \in 1 .. Len(z) PROVE z[k] = y[k]
  <2>0. k \in 1 .. Len(q) - d + Len(w) /\ Len(z) = Len(q) - d + Len(w)
    BY <1>1, <1>3, <1>6
  <2>1. k \in 1 .. Len(s) - d
    BY <1>2, <1>3, <2>0
  <2>2. CASE k <= Len(q) - d
    <3>1. k \in 1 .. Len(x) /\ k \in 1 .. Len(q) - d /\ k + d \in 1 .. Len(q)
      BY <1>1, <1>3, <2>0, <2>2
    <3> QED
      BY ONLY <1>1, <1>2, <1>5, <1>6, <2>1, <3>1
  <2>3. CASE k > Len(q) - d
    <3> DEFINE a == k - (Len(q) - d)
    <3>1. a \in 1 .. Len(w) /\ k = Len(x) + a /\ k + d = Len(q) + a
      BY <1>1, <1>3, <2>0, <2>3
    <3> HIDE DEF a
    <3>2. z[Len(x) + a] = w[a] /\ s[Len(q) + a] = w[a] /\ y[k] = s[k + d]
      BY ONLY <1>2, <1>5, <1>6, <2>1, <3>1
    <3> QED
      BY ONLY <3>1, <3>2
  <2> QED
    BY <1>3, <2>0, <2>2, <2>3
<1>9. z = y
  BY ONLY <1>5, <1>6, <1>7, <1>8, SameStreams
<1> QED
  BY <1>4, <1>9 DEF x, s, y, z

LEMMA CutSame ==
    ASSUME NEW q \in Streams, NEW w \in Streams, NEW n \in 0 .. Len(w)
    PROVE  /\ Len(q) + n \in 0 .. Len(q \o w)
           /\ q \o Mqtt!Prefix(w, n) = Mqtt!Prefix(q \o w, Len(q) + n)
           /\ Mqtt!Rest(w, n) = Mqtt!Rest(q \o w, Len(q) + n)
<1> DEFINE x == Mqtt!Prefix(w, n)
           v == Mqtt!Rest(w, n)
           s == q \o w
           e == Len(q) + n
           y == Mqtt!Prefix(s, e)
           u == Mqtt!Rest(s, e)
           z == q \o x
<1>1. /\ x \in Streams /\ Len(x) = n /\ \A k \in 1 .. n : x[k] = w[k]
      /\ v \in Streams /\ Len(v) = Len(w) - n /\ \A k \in 1 .. Len(w) - n : v[k] = w[k + n]
  BY CutRight
<1>2. /\ s \in Streams /\ Len(s) = Len(q) + Len(w)
      /\ \A k \in 1 .. Len(q) : s[k] = q[k]
      /\ \A k \in 1 .. Len(w) : s[Len(q) + k] = w[k]
  BY JoinRight
<1>3. Len(q) \in Nat /\ Len(w) \in Nat
  BY DEF Streams
<1>4. e \in 0 .. Len(s)
  BY <1>2, <1>3
<1> HIDE DEF x, v, s
<1>5. /\ y \in Streams /\ Len(y) = e /\ \A k \in 1 .. e : y[k] = s[k]
      /\ u \in Streams /\ Len(u) = Len(s) - e /\ \A k \in 1 .. Len(s) - e : u[k] = s[k + e]
  <2> HIDE DEF e
  <2> QED
    BY <1>2, <1>4, CutRight
<1>6. /\ z \in Streams /\ Len(z) = Len(q) + Len(x)
      /\ \A k \in 1 .. Len(q) : z[k] = q[k]
      /\ \A k \in 1 .. Len(x) : z[Len(q) + k] = x[k]
  BY <1>1, JoinRight
<1>7. e = Len(q) + n
  OBVIOUS
<1> HIDE DEF y, z, u, e
<1>8. Len(z) = e /\ Len(y) = e /\ Len(u) = Len(v)
  BY <1>1, <1>2, <1>3, <1>5, <1>6, <1>7
<1>9. ASSUME NEW k \in 1 .. Len(z) PROVE z[k] = y[k]
  <2>1. k \in 1 .. e
    BY <1>8
  <2>2. CASE k <= Len(q)
    <3>1. k \in 1 .. Len(q)
      BY <1>3, <1>7, <2>1, <2>2
    <3> QED
      BY ONLY <1>2, <1>5, <1>6, <2>1, <3>1
  <2>3. CASE k > Len(q)
    <3> DEFINE a == k - Len(q)
    <3>1. a \in 1 .. n /\ a \in 1 .. Len(w) /\ k = Len(q) + a
      BY <1>3, <1>7, <2>1, <2>3
    <3>2. Len(x) = n
      BY <1>1
    <3> HIDE DEF a
    <3>3. z[Len(q) + a] = x[a] /\ x[a] = w[a] /\ s[Len(q) + a] = w[a] /\ y[k] = s[k]
      BY ONLY <1>1, <1>2, <1>5, <1>6, <2>1, <3>1, <3>2
    <3> QED
      BY ONLY <3>1, <3>3
  <2> QED
    BY <1>3, <1>7, <2>1, <2>2, <2>3
<1>10. ASSUME NEW k \in 1 .. Len(v) PROVE v[k] = u[k]
  <2>1. /\ k \in 1 .. Len(w) - n /\ k \in 1 .. Len(s) - e /\ k + n \in 1 .. Len(w)
        /\ k + e = Len(q) + (k + n)
    BY <1>1, <1>2, <1>3, <1>7
  <2> QED
    BY ONLY <1>1, <1>2, <1>5, <2>1
<1>11. z = y
  <2>1. Len(z) = Len(y)
    BY <1>8
  <2> QED
    BY ONLY <1>5, <1>6, <1>9, <2>1, SameStreams
<1>12. v = u
  <2>1. Len(v) = Len(u)
    BY <1>8
  <2> QED
    BY ONLY <1>1, <1>5, <1>10, <2>1, SameStreams
<1> QED
  BY <1>4, <1>11, <1>12 DEF x, v, s, y, z, u, e

LEMMA RestOfRest ==
    ASSUME NEW r \in Streams, NEW j \in 0 .. Len(r), NEW d \in 0 .. Len(r) - j
    PROVE  Mqtt!Rest(Mqtt!Rest(r, j), d) = Mqtt!Rest(r, j + d)
<1> DEFINE q == Mqtt!Rest(r, j)
           x == Mqtt!Rest(q, d)
           y == Mqtt!Rest(r, j + d)
<1>0. Len(r) \in Nat /\ j + d \in 0 .. Len(r)
  BY DEF Streams
<1>1. q \in Streams /\ Len(q) = Len(r) - j /\ \A k \in 1 .. Len(r) - j : q[k] = r[k + j]
  BY CutRight
<1> HIDE DEF q
<1>2. d \in 0 .. Len(q)
  BY <1>1
<1>3. x \in Streams /\ Len(x) = Len(q) - d /\ \A k \in 1 .. Len(q) - d : x[k] = q[k + d]
  BY <1>1, <1>2, CutRight
<1>4. /\ y \in Streams /\ Len(y) = Len(r) - (j + d)
      /\ \A k \in 1 .. Len(r) - (j + d) : y[k] = r[k + (j + d)]
  BY <1>0, CutRight
<1> HIDE DEF x, y
<1>5. Len(x) = Len(y)
  BY <1>0, <1>1, <1>3, <1>4
<1>6. ASSUME NEW k \in 1 .. Len(x) PROVE x[k] = y[k]
  <2>1. /\ k \in 1 .. Len(q) - d /\ k + d \in 1 .. Len(r) - j /\ k \in 1 .. Len(r) - (j + d)
        /\ k + d + j = k + (j + d)
    BY <1>0, <1>1, <1>3
  <2> QED
    BY ONLY <1>1, <1>3, <1>4, <2>1
<1>7. x = y
  BY ONLY <1>3, <1>4, <1>5, <1>6, SameStreams
<1> QED
  BY <1>7 DEF x, y, q

-----------------------------------------------------------------------------
(* What is on its way, h what was handed over, o how many messages the     *)
(* broker has published, l those that went down.                           *)
RightStream(s, h, o, l) ==
    /\ s \in Streams /\ h \in Seq(Nat) /\ o \in Nat /\ l \subseteq 1 .. o
    /\ Paired(s) /\ Ordered(s) /\ Rising(h)
    /\ \A a \in Numbered(h) : \A m \in Mqtt!Messages(s) : a < m
    /\ Numbered(h) \cup Mqtt!Messages(s) = {k \in 1 .. o : k \notin l}

(* A stream may be cut anywhere but between a head and its body. *)
LEMMA SplitRight ==
    ASSUME NEW s \in Streams, Paired(s), Ordered(s), NEW d \in 0 .. Len(s),
           d = 0 \/ s[d][1] # "head"
    PROVE  LET p == Mqtt!Prefix(s, d)
               r == Mqtt!Rest(s, d)
           IN  /\ p \in Streams /\ Paired(p) /\ Ordered(p)
               /\ r \in Streams /\ Paired(r) /\ Ordered(r)
               /\ Mqtt!Messages(s) = Mqtt!Messages(p) \cup Mqtt!Messages(r)
               /\ \A a \in Mqtt!Messages(p) : \A b \in Mqtt!Messages(r) : a < b
<1> DEFINE p == Mqtt!Prefix(s, d)
           r == Mqtt!Rest(s, d)
           l == Len(s)
<1>1. /\ p \in Streams /\ DOMAIN p = 1 .. d /\ \A k \in 1 .. d : p[k] = s[k]
      /\ r \in Streams /\ DOMAIN r = 1 .. l - d /\ \A k \in 1 .. l - d : r[k] = s[k + d]
  BY CutRight
<1>2. l \in Nat /\ DOMAIN s = 1 .. l
  BY DEF Streams
<1>3. d \in 0 .. l
  OBVIOUS
<1> HIDE DEF p, r, l
<1>4. ASSUME NEW k \in 1 .. d PROVE k \in 1 .. l
  BY <1>2, <1>3
<1>5. ASSUME NEW k \in 1 .. l - d PROVE k + d \in 1 .. l
  BY <1>2, <1>3
<1>6. Paired(p)
  <2> SUFFICES ASSUME NEW k \in 1 .. d
               PROVE  /\ p[k][1] = "head" => k + 1 \in 1 .. d /\ p[k + 1] = <<"body", p[k][2]>>
                      /\ p[k][1] = "body" => k > 1 /\ p[k - 1][1] = "head"
    BY <1>1 DEF Paired
  <2>1. p[k] = s[k] /\ k \in 1 .. l
    BY <1>1, <1>4
  <2>2. /\ s[k][1] = "head" => k + 1 \in 1 .. l /\ s[k + 1] = <<"body", s[k][2]>>
        /\ s[k][1] = "body" => k > 1 /\ s[k - 1][1] = "head"
    BY <1>2, <2>1 DEF Paired
  <2>3. ASSUME s[k][1] = "head" PROVE k + 1 \in 1 .. d /\ p[k + 1] = <<"body", p[k][2]>>
    <3>1. k # d
      BY <2>3
    <3>2. k + 1 \in 1 .. d
      BY <3>1
    <3> QED
      BY <1>1, <2>1, <2>2, <2>3, <3>2
  <2>4. ASSUME s[k][1] = "body" PROVE k > 1 /\ p[k - 1][1] = "head"
    <3>1. k > 1 /\ s[k - 1][1] = "head"
      BY <2>2, <2>4
    <3>2. k - 1 \in 1 .. d
      BY <3>1
    <3> QED
      BY <1>1, <3>1, <3>2
  <2> QED
    BY <2>1, <2>3, <2>4
<1>7. Paired(r)
  <2> SUFFICES ASSUME NEW k \in 1 .. l - d
               PROVE  /\ r[k][1] = "head" => k + 1 \in 1 .. l - d /\ r[k + 1] = <<"body", r[k][2]>>
                      /\ r[k][1] = "body" => k > 1 /\ r[k - 1][1] = "head"
    BY <1>1 DEF Paired
  <2>1. r[k] = s[k + d] /\ k + d \in 1 .. l
    BY <1>1, <1>5
  <2>2. /\ s[k + d][1] = "head" =>
             k + d + 1 \in 1 .. l /\ s[k + d + 1] = <<"body", s[k + d][2]>>
        /\ s[k + d][1] = "body" => k + d > 1 /\ s[k + d - 1][1] = "head"
    BY <1>2, <2>1 DEF Paired
  <2>3. ASSUME s[k + d][1] = "head"
        PROVE  k + 1 \in 1 .. l - d /\ r[k + 1] = <<"body", r[k][2]>>
    <3>1. k + 1 \in 1 .. l - d /\ k + d + 1 = k + 1 + d
      BY <1>2, <1>3, <2>2, <2>3
    <3>2. r[k + 1] = s[k + 1 + d]
      BY <1>1, <3>1
    <3> QED
      BY <2>1, <2>2, <2>3, <3>1, <3>2
  <2>4. ASSUME s[k + d][1] = "body" PROVE k > 1 /\ r[k - 1][1] = "head"
    <3>1. s[k + d - 1][1] = "head"
      BY <2>2, <2>4
    <3>2. k # 1
      <4>1. ASSUME k = 1 PROVE FALSE
        <5>1. k + d - 1 = d
          BY <4>1
        <5>2. k + d > 1
          BY <2>2, <2>4
        <5>3. d # 0
          BY <4>1, <5>2
        <5> QED
          BY <3>1, <5>1, <5>3
      <4> QED
        BY <4>1
    <3>3. k - 1 \in 1 .. l - d /\ k - 1 + d = k + d - 1 /\ k > 1
      BY <1>2, <1>3, <3>2
    <3>4. r[k - 1] = s[k - 1 + d]
      BY <1>1, <3>3
    <3> QED
      BY <3>1, <3>3, <3>4
  <2> QED
    BY <2>1, <2>3, <2>4
<1>8. Ordered(p)
  BY <1>1, <1>2, <1>4 DEF Ordered
<1>9. Ordered(r)
  <2> SUFFICES ASSUME NEW j \in 1 .. l - d, NEW k \in 1 .. l - d,
                      j < k, r[j][1] = "body", r[k][1] = "body"
               PROVE  r[j][2] < r[k][2]
    BY <1>1 DEF Ordered
  <2>1. /\ r[j] = s[j + d] /\ r[k] = s[k + d] /\ j + d \in 1 .. l /\ k + d \in 1 .. l
        /\ j + d < k + d
    BY <1>1, <1>5
  <2> QED
    BY <1>2, <2>1 DEF Ordered
<1>10. ASSUME NEW m PROVE m \in Mqtt!Messages(s) <=> m \in Mqtt!Messages(p) \cup Mqtt!Messages(r)
  <2>1. m \in Mqtt!Messages(s) <=> \E k \in 1 .. l : s[k][1] = "body" /\ m = s[k][2]
    BY <1>2 DEF Mqtt!Messages
  <2>2. m \in Mqtt!Messages(p) <=> \E k \in 1 .. d : p[k][1] = "body" /\ m = p[k][2]
    BY <1>1 DEF Mqtt!Messages
  <2>3. m \in Mqtt!Messages(r) <=> \E k \in 1 .. l - d : r[k][1] = "body" /\ m = r[k][2]
    BY <1>1 DEF Mqtt!Messages
  <2>4. ASSUME NEW k \in 1 .. l, s[k][1] = "body", m = s[k][2]
        PROVE  m \in Mqtt!Messages(p) \cup Mqtt!Messages(r)
    <3>1. CASE k <= d
      <4>1. k \in 1 .. d
        BY <3>1
      <4> QED
        BY <1>1, <2>2, <2>4, <4>1
    <3>2. CASE k > d
      <4>1. k - d \in 1 .. l - d /\ k - d + d = k
        BY <1>2, <1>3, <3>2
      <4>2. r[k - d] = s[k - d + d]
        BY <1>1, <4>1
      <4>3. r[k - d][1] = "body" /\ m = r[k - d][2]
        BY ONLY <2>4, <4>1, <4>2
      <4> QED
        BY ONLY <2>3, <4>1, <4>3
    <3> QED
      BY <1>2, <3>1, <3>2
  <2>5. ASSUME NEW k \in 1 .. d, p[k][1] = "body", m = p[k][2] PROVE m \in Mqtt!Messages(s)
    BY <1>1, <1>4, <2>1, <2>5
  <2>6. ASSUME NEW k \in 1 .. l - d, r[k][1] = "body", m = r[k][2] PROVE m \in Mqtt!Messages(s)
    BY <1>1, <1>5, <2>1, <2>6
  <2> QED
    BY <2>1, <2>2, <2>3, <2>4, <2>5, <2>6
<1>11. ASSUME NEW a \in Mqtt!Messages(p), NEW b \in Mqtt!Messages(r) PROVE a < b
  <2>1. PICK j \in 1 .. d : p[j][1] = "body" /\ a = p[j][2]
    BY <1>1 DEF Mqtt!Messages
  <2>2. PICK k \in 1 .. l - d : r[k][1] = "body" /\ b = r[k][2]
    BY <1>1 DEF Mqtt!Messages
  <2>3. j \in 1 .. l /\ k + d \in 1 .. l /\ j < k + d /\ p[j] = s[j] /\ r[k] = s[k + d]
    BY <1>1, <1>4, <1>5
  <2> QED
    BY <1>2, <2>1, <2>2, <2>3 DEF Ordered
<1> QED
  BY <1>1, <1>6, <1>7, <1>8, <1>9, <1>10, <1>11 DEF p, r

(* An answer comes. *)
LEMMA AnswerRight ==
    ASSUME NEW s, NEW h, NEW o, NEW l, RightStream(s, h, o, l),
           NEW u \in UnitKinds \X Nat, u[1] \notin {"head", "body"}
    PROVE  RightStream(Append(s, u), h, o, l)
<1> DEFINE a == Append(s, u)
           n == Len(s)
<1>1. s \in Streams /\ Paired(s) /\ Ordered(s)
  BY DEF RightStream
<1>2. /\ n \in Nat /\ DOMAIN s = 1 .. n /\ DOMAIN a = 1 .. n + 1 /\ a \in Streams
      /\ \A k \in 1 .. n : a[k] = s[k]
      /\ a[n + 1] = u
  BY <1>1 DEF Streams
<1>3. Mqtt!Messages(a) = Mqtt!Messages(s) /\ Ordered(a)
  BY <1>1, MessagesAppend
<1> HIDE DEF a, n
<1>4. Paired(a)
  <2> SUFFICES ASSUME NEW k \in 1 .. n + 1
               PROVE  /\ a[k][1] = "head" => k + 1 \in 1 .. n + 1 /\ a[k + 1] = <<"body", a[k][2]>>
                      /\ a[k][1] = "body" => k > 1 /\ a[k - 1][1] = "head"
    BY <1>2 DEF Paired
  <2>1. CASE k = n + 1
    BY <1>2, <2>1
  <2>2. CASE k \in 1 .. n
    <3>1. /\ s[k][1] = "head" => k + 1 \in 1 .. n /\ s[k + 1] = <<"body", s[k][2]>>
          /\ s[k][1] = "body" => k > 1 /\ s[k - 1][1] = "head"
      BY <1>1, <1>2, <2>2 DEF Paired
    <3>2. k + 1 \in 1 .. n => k + 1 \in 1 .. n + 1
      BY <1>2
    <3>3. k > 1 => k - 1 \in 1 .. n
      BY <1>2, <2>2
    <3> QED
      BY ONLY <1>2, <2>2, <3>1, <3>2, <3>3
  <2> QED
    BY <1>2, <2>1, <2>2
<1> QED
  BY <1>2, <1>3, <1>4 DEF RightStream, a

(* The broker publishes a message. *)
LEMMA PublishRight ==
    ASSUME NEW s, NEW h, NEW o, NEW l, RightStream(s, h, o, l)
    PROVE  RightStream(Append(Append(s, <<"head", o + 1>>), <<"body", o + 1>>), h, o + 1, l)
<1> DEFINE u == <<"head", o + 1>>
           v == <<"body", o + 1>>
           a == Append(s, u)
           b == Append(a, v)
           n == Len(s)
<1>1. s \in Streams /\ Paired(s) /\ Ordered(s) /\ o \in Nat
  BY DEF RightStream
<1>2. /\ u \in UnitKinds \X Nat /\ u[1] = "head" /\ u[2] = o + 1
      /\ v \in UnitKinds \X Nat /\ v[1] = "body" /\ v[2] = o + 1
  <2>0. "head" \in UnitKinds /\ "body" \in UnitKinds
    BY DEF UnitKinds
  <2>1. o + 1 \in Nat
    BY <1>1
  <2>2. u \in UnitKinds \X Nat /\ v \in UnitKinds \X Nat
    BY ONLY <2>0, <2>1
  <2>3. u[1] = "head" /\ u[2] = o + 1 /\ v[1] = "body" /\ v[2] = o + 1
    OBVIOUS
  <2> QED
    BY ONLY <2>2, <2>3
<1> HIDE DEF u, v
<1>3. /\ n \in Nat /\ DOMAIN s = 1 .. n /\ a \in Streams /\ Len(a) = n + 1
      /\ \A k \in 1 .. n : a[k] = s[k]
      /\ a[n + 1] = u
  BY <1>1, <1>2 DEF Streams
<1>4. /\ b \in Streams /\ DOMAIN b = 1 .. n + 2
      /\ \A k \in 1 .. n + 1 : b[k] = a[k]
      /\ b[n + 2] = v
  <2> HIDE DEF a
  <2>1. /\ b \in Streams /\ DOMAIN b = 1 .. Len(a) + 1
        /\ \A k \in 1 .. Len(a) : b[k] = a[k]
        /\ b[Len(a) + 1] = v
    BY <1>2, <1>3 DEF Streams
  <2>2. Len(a) + 1 = n + 2
    BY <1>3
  <2> HIDE DEF b
  <2> QED
    BY ONLY <1>3, <2>1, <2>2
<1>5. Mqtt!Messages(a) = Mqtt!Messages(s) /\ Ordered(a)
  BY <1>1, <1>2, MessagesAppend
<1>6. \A m \in Mqtt!Messages(s) : m \in 1 .. o
  BY DEF RightStream
<1>7. Mqtt!Messages(b) = Mqtt!Messages(s) \cup {o + 1} /\ Ordered(b)
  <2> HIDE DEF a
  <2>1. /\ Mqtt!Messages(b) = Mqtt!Messages(a) \cup {v[2]}
        /\ Ordered(b) <=> Ordered(a) /\ \A m \in Mqtt!Messages(a) : m < v[2]
    BY <1>2, <1>3, MessagesAppend
  <2>2. \A m \in Mqtt!Messages(a) : m < v[2]
    BY <1>1, <1>2, <1>5, <1>6
  <2> HIDE DEF b
  <2> QED
    BY <1>2, <1>5, <2>1, <2>2
<1> HIDE DEF a, b, n
<1>8. /\ \A k \in 1 .. n : b[k] = s[k]
      /\ b[n + 1] = u
  <2>1. n + 1 \in 1 .. n + 1 /\ \A k \in 1 .. n : k \in 1 .. n + 1
    BY <1>3
  <2> QED
    BY ONLY <1>3, <1>4, <2>1
<1>9. Paired(b)
  <2> SUFFICES ASSUME NEW k \in 1 .. n + 2
               PROVE  /\ b[k][1] = "head" => k + 1 \in 1 .. n + 2 /\ b[k + 1] = <<"body", b[k][2]>>
                      /\ b[k][1] = "body" => k > 1 /\ b[k - 1][1] = "head"
    BY <1>4 DEF Paired
  <2>1. CASE k = n + 2
    <3>1. k - 1 = n + 1 /\ k > 1
      BY <1>3, <2>1
    <3> QED
      BY <1>2, <1>4, <1>8, <2>1, <3>1
  <2>2. CASE k = n + 1
    <3>1. k + 1 = n + 2 /\ k + 1 \in 1 .. n + 2
      BY <1>3, <2>2
    <3>2. b[k] = u /\ b[k + 1] = v
      BY <1>4, <1>8, <2>2, <3>1
    <3>3. v = <<"body", u[2]>>
      BY <1>2 DEF v
    <3> QED
      BY <1>2, <3>1, <3>2, <3>3
  <2>3. CASE k \in 1 .. n
    <3>1. /\ s[k][1] = "head" => k + 1 \in 1 .. n /\ s[k + 1] = <<"body", s[k][2]>>
          /\ s[k][1] = "body" => k > 1 /\ s[k - 1][1] = "head"
      BY <1>1, <1>3, <2>3 DEF Paired
    <3>2. k + 1 \in 1 .. n => k + 1 \in 1 .. n + 2
      BY <1>3
    <3>3. k > 1 => k - 1 \in 1 .. n
      BY <1>3, <2>3
    <3> QED
      BY ONLY <1>8, <2>3, <3>1, <3>2, <3>3
  <2> QED
    BY <1>3, <2>1, <2>2, <2>3
<1>10. {k \in 1 .. o + 1 : k \notin l} = {k \in 1 .. o : k \notin l} \cup {o + 1}
  BY <1>1 DEF RightStream
<1>11. \A x \in Numbered(h) : x < o + 1
  BY <1>1 DEF RightStream
<1>12. /\ h \in Seq(Nat) /\ o + 1 \in Nat /\ l \subseteq 1 .. o + 1 /\ Rising(h)
       /\ \A x \in Numbered(h) : \A m \in Mqtt!Messages(s) : x < m
       /\ Numbered(h) \cup Mqtt!Messages(s) = {k \in 1 .. o : k \notin l}
  <2>1. l \subseteq 1 .. o /\ 1 .. o \subseteq 1 .. o + 1
    BY <1>1 DEF RightStream
  <2> QED
    BY <1>1, <2>1 DEF RightStream
<1>13. \A x \in Numbered(h) : \A m \in Mqtt!Messages(b) : x < m
  BY <1>7, <1>11, <1>12
<1>14. Numbered(h) \cup Mqtt!Messages(b) = {k \in 1 .. o + 1 : k \notin l}
  BY ONLY <1>7, <1>10, <1>12
<1> QED
  BY <1>4, <1>7, <1>9, <1>12, <1>13, <1>14 DEF RightStream, a, b, u, v

(* yield() passes an answer. *)
LEMMA SkipRight ==
    ASSUME NEW s, NEW h, NEW o, NEW l, RightStream(s, h, o, l), s # <<>>, s[1][1] # "head"
    PROVE  RightStream(Mqtt!Rest(s, 1), h, o, l)
<1>1. s \in Streams /\ Paired(s) /\ Ordered(s)
  BY DEF RightStream
<1>2. Len(s) \in Nat \ {0} /\ DOMAIN s = 1 .. Len(s)
  BY <1>1 DEF Streams
<1>3. 1 \in 0 .. Len(s) /\ 1 \in DOMAIN s
  BY <1>2
<1> DEFINE p == Mqtt!Prefix(s, 1)
           r == Mqtt!Rest(s, 1)
<1>4. /\ r \in Streams /\ Paired(r) /\ Ordered(r)
      /\ Mqtt!Messages(s) = Mqtt!Messages(p) \cup Mqtt!Messages(r)
  BY <1>1, <1>3, SplitRight
<1>5. DOMAIN p = 1 .. 1 /\ \A k \in 1 .. 1 : p[k] = s[k]
  BY <1>1, <1>3, CutRight
<1>6. s[1][1] # "body"
  BY <1>1, <1>3 DEF Paired
<1> HIDE DEF p, r
<1>7. Mqtt!Messages(p) = {}
  BY <1>5, <1>6 DEF Mqtt!Messages
<1>8. Mqtt!Messages(r) = Mqtt!Messages(s)
  BY <1>4, <1>7
<1>9. RightStream(r, h, o, l)
  BY <1>4, <1>8 DEF RightStream
<1> QED
  BY <1>9 DEF r

(* yield() hands a message over: the first two units are its own. *)
LEMMA DeliverRight ==
    ASSUME NEW s, NEW h, NEW o, NEW l, RightStream(s, h, o, l), s # <<>>, s[1][1] = "head"
    PROVE  /\ 2 \in 0 .. Len(s) /\ s[2] = <<"body", s[1][2]>>
           /\ RightStream(Mqtt!Rest(s, 2), Append(h, s[1][2]), o, l)
<1>1. s \in Streams /\ Paired(s) /\ Ordered(s) /\ h \in Seq(Nat) /\ Rising(h)
  BY DEF RightStream
<1>2. Len(s) \in Nat \ {0} /\ DOMAIN s = 1 .. Len(s)
  BY <1>1 DEF Streams
<1>3. 1 \in DOMAIN s
  BY <1>2
<1>4. 2 \in DOMAIN s /\ s[2] = <<"body", s[1][2]>>
  <2>1. 1 + 1 \in DOMAIN s /\ s[1 + 1] = <<"body", s[1][2]>>
    BY <1>1, <1>3 DEF Paired
  <2>2. 1 + 1 = 2
    OBVIOUS
  <2> QED
    BY ONLY <2>1, <2>2
<1>5. 2 \in 0 .. Len(s) /\ s[2][1] # "head" /\ s[1][2] \in Nat
  BY <1>1, <1>2, <1>3, <1>4 DEF Streams
<1> DEFINE p == Mqtt!Prefix(s, 2)
           r == Mqtt!Rest(s, 2)
           n == s[1][2]
<1>6. /\ r \in Streams /\ Paired(r) /\ Ordered(r)
      /\ Mqtt!Messages(s) = Mqtt!Messages(p) \cup Mqtt!Messages(r)
      /\ \A a \in Mqtt!Messages(p) : \A b \in Mqtt!Messages(r) : a < b
  BY <1>1, <1>5, SplitRight
<1>7. DOMAIN p = 1 .. 2 /\ \A k \in 1 .. 2 : p[k] = s[k]
  BY <1>1, <1>5, CutRight
<1>8. s[2][1] = "body" /\ s[2][2] = n
  BY <1>4
<1> HIDE DEF p, r, n
<1>9. Mqtt!Messages(p) = {n}
  <2>1. p[1][1] # "body" /\ p[2][1] = "body" /\ p[2][2] = n
    BY <1>7, <1>8
  <2>2. \A k \in 1 .. 2 : k = 1 \/ k = 2
    OBVIOUS
  <2>3. 2 \in 1 .. 2
    OBVIOUS
  <2> QED
    BY <1>7, <2>1, <2>2, <2>3 DEF Mqtt!Messages
<1>10. n \in Nat
  BY <1>5 DEF n
<1>11. /\ Numbered(Append(h, n)) = Numbered(h) \cup {n}
       /\ Rising(Append(h, n)) <=> Rising(h) /\ \A m \in Numbered(h) : m < n
       /\ Append(h, n) \in Seq(Nat)
  BY <1>1, <1>10, RisingAppend
<1>12. /\ \A a \in Numbered(h) : \A m \in Mqtt!Messages(s) : a < m
       /\ Numbered(h) \cup Mqtt!Messages(s) = {k \in 1 .. o : k \notin l}
       /\ o \in Nat /\ l \subseteq 1 .. o
  BY DEF RightStream
<1>13. Mqtt!Messages(s) = {n} \cup Mqtt!Messages(r)
  BY <1>6, <1>9
<1>14. Rising(Append(h, n))
  BY <1>1, <1>11, <1>12, <1>13
<1>15. \A a \in Numbered(Append(h, n)) : \A m \in Mqtt!Messages(r) : a < m
  BY <1>6, <1>9, <1>11, <1>12, <1>13
<1>16. Numbered(Append(h, n)) \cup Mqtt!Messages(r) = {k \in 1 .. o : k \notin l}
  BY ONLY <1>11, <1>12, <1>13
<1>17. RightStream(r, Append(h, n), o, l)
  BY ONLY <1>6, <1>11, <1>12, <1>14, <1>15, <1>16 DEF RightStream
<1> QED
  BY <1>4, <1>5, <1>17 DEF r, n

(* A connection ends: what is behind the cut goes down with it. *)
LEMMA LoseRight ==
    ASSUME NEW s, NEW h, NEW o, NEW l, RightStream(s, h, o, l),
           NEW d \in 0 .. Len(s), d = 0 \/ s[d][1] # "head"
    PROVE  RightStream(Mqtt!Prefix(s, d), h, o, l \cup Mqtt!Messages(Mqtt!Rest(s, d)))
<1>1. s \in Streams /\ Paired(s) /\ Ordered(s)
  BY DEF RightStream
<1> DEFINE p == Mqtt!Prefix(s, d)
           r == Mqtt!Rest(s, d)
<1>2. /\ p \in Streams /\ Paired(p) /\ Ordered(p)
      /\ Mqtt!Messages(s) = Mqtt!Messages(p) \cup Mqtt!Messages(r)
      /\ \A a \in Mqtt!Messages(p) : \A b \in Mqtt!Messages(r) : a < b
  BY <1>1, SplitRight
<1> HIDE DEF p, r
<1>3. /\ \A a \in Numbered(h) : \A m \in Mqtt!Messages(s) : a < m
      /\ Numbered(h) \cup Mqtt!Messages(s) = {k \in 1 .. o : k \notin l}
      /\ o \in Nat /\ l \subseteq 1 .. o /\ h \in Seq(Nat) /\ Rising(h)
  BY DEF RightStream
<1>4. Mqtt!Messages(r) \subseteq 1 .. o
  BY <1>2, <1>3
<1>5. ASSUME NEW m \in Mqtt!Messages(r) PROVE m \notin Numbered(h) \cup Mqtt!Messages(p)
  <2>1. m \in Nat /\ ~(m < m)
    BY <1>3, <1>4
  <2> QED
    BY <1>2, <1>3, <2>1
<1>6. Numbered(h) \cup Mqtt!Messages(p) = {k \in 1 .. o : k \notin l \cup Mqtt!Messages(r)}
  <2>1. ASSUME NEW k
        PROVE  k \in Numbered(h) \cup Mqtt!Messages(p)
                 <=> k \in 1 .. o /\ k \notin l \cup Mqtt!Messages(r)
    <3>1. k \in Numbered(h) \cup Mqtt!Messages(p) \cup Mqtt!Messages(r)
            <=> k \in 1 .. o /\ k \notin l
      BY ONLY <1>2, <1>3
    <3> QED
      BY ONLY <1>5, <3>1
  <2> QED
    BY <2>1
<1>7. l \cup Mqtt!Messages(r) \subseteq 1 .. o
  BY <1>3, <1>4
<1>8. RightStream(p, h, o, l \cup Mqtt!Messages(r))
  BY <1>2, <1>3, <1>6, <1>7 DEF RightStream
<1> QED
  BY <1>8 DEF p, r

(* What is handed over and on its way is what did not go down, in order. *)
LEMMA RightTells ==
    ASSUME NEW s, NEW h, NEW o, NEW l, RightStream(s, h, o, l)
    PROVE  h \o Mqtt!Bodies(s) = Kept(o, l)
<1> DEFINE b == Mqtt!Bodies(s)
           a == h \o b
<1>1. s \in Streams /\ h \in Seq(Nat) /\ o \in Nat /\ Ordered(s) /\ Rising(h)
  BY DEF RightStream
<1>2. b \in Seq(Nat) /\ Rising(b) /\ Numbered(b) = Mqtt!Messages(s)
  BY <1>1, BodiesType, BodiesAre
<1>3. /\ \A x \in Numbered(h) : \A m \in Numbered(b) : x < m
      /\ Numbered(h) \cup Numbered(b) = {k \in 1 .. o : k \notin l}
  <2> HIDE DEF b
  <2> QED
    BY <1>2 DEF RightStream
<1> HIDE DEF b
<1>4. /\ Len(h) \in Nat /\ Len(b) \in Nat /\ a \in Seq(Nat)
      /\ DOMAIN h = 1 .. Len(h) /\ DOMAIN b = 1 .. Len(b) /\ DOMAIN a = 1 .. Len(h) + Len(b)
      /\ \A k \in 1 .. Len(h) : a[k] = h[k]
      /\ \A k \in 1 .. Len(b) : a[Len(h) + k] = b[k]
  BY <1>1, <1>2
<1> HIDE DEF a
<1>5. \A k \in 1 .. Len(h) + Len(b) :
          k \in 1 .. Len(h) \/ (k - Len(h) \in 1 .. Len(b) /\ Len(h) + (k - Len(h)) = k)
  BY <1>4
<1>6. Numbered(a) = Numbered(h) \cup Numbered(b)
  <2>1. ASSUME NEW k \in 1 .. Len(h) + Len(b) PROVE a[k] \in Numbered(h) \cup Numbered(b)
    <3>1. CASE k \in 1 .. Len(h)
      BY <1>4, <3>1 DEF Numbered
    <3>2. CASE k - Len(h) \in 1 .. Len(b) /\ Len(h) + (k - Len(h)) = k
      <4>1. a[Len(h) + (k - Len(h))] = b[k - Len(h)]
        BY ONLY <1>4, <3>2
      <4>2. a[k] = b[k - Len(h)]
        BY ONLY <3>2, <4>1
      <4> QED
        BY <1>4, <3>2, <4>2 DEF Numbered
    <3> QED
      BY <1>5, <3>1, <3>2
  <2>2. ASSUME NEW k \in 1 .. Len(h) PROVE h[k] \in Numbered(a)
    <3>1. k \in 1 .. Len(h) + Len(b)
      BY <1>4
    <3> QED
      BY <1>4, <3>1 DEF Numbered
  <2>3. ASSUME NEW k \in 1 .. Len(b) PROVE b[k] \in Numbered(a)
    <3>1. Len(h) + k \in 1 .. Len(h) + Len(b)
      BY <1>4
    <3> QED
      BY <1>4, <3>1 DEF Numbered
  <2> QED
    BY <1>4, <2>1, <2>2, <2>3 DEF Numbered
<1>7. Rising(a)
  <2> SUFFICES ASSUME NEW j \in 1 .. Len(h) + Len(b), NEW k \in 1 .. Len(h) + Len(b), j < k
               PROVE  a[j] < a[k]
    BY <1>4 DEF Rising
  <2>1. CASE k \in 1 .. Len(h)
    <3>1. j \in 1 .. Len(h)
      BY <1>4, <2>1
    <3> QED
      BY <1>1, <1>4, <2>1, <3>1 DEF Rising
  <2>2. CASE j \in 1 .. Len(h) /\ k - Len(h) \in 1 .. Len(b) /\ Len(h) + (k - Len(h)) = k
    <3>1. a[j] = h[j] /\ h[j] \in Numbered(h)
      BY <1>4, <2>2 DEF Numbered
    <3>2. a[Len(h) + (k - Len(h))] = b[k - Len(h)] /\ b[k - Len(h)] \in Numbered(b)
      BY <1>4, <2>2 DEF Numbered
    <3>3. a[k] \in Numbered(b)
      BY ONLY <2>2, <3>2
    <3> QED
      BY <1>3, <3>1, <3>3
  <2>3. CASE /\ j - Len(h) \in 1 .. Len(b) /\ Len(h) + (j - Len(h)) = j
             /\ k - Len(h) \in 1 .. Len(b) /\ Len(h) + (k - Len(h)) = k
    <3>1. /\ a[Len(h) + (j - Len(h))] = b[j - Len(h)]
          /\ a[Len(h) + (k - Len(h))] = b[k - Len(h)]
      BY ONLY <1>4, <2>3
    <3>2. a[j] = b[j - Len(h)] /\ a[k] = b[k - Len(h)]
      BY ONLY <2>3, <3>1
    <3>3. j - Len(h) < k - Len(h)
      BY <1>4
    <3> QED
      BY <1>2, <1>4, <2>3, <3>2, <3>3 DEF Rising
  <2> QED
    BY <1>5, <2>1, <2>2, <2>3
<1>8. Kept(o, l) \in Seq(Nat) /\ Rising(Kept(o, l)) /\ Numbered(a) = Numbered(Kept(o, l))
  BY <1>1, <1>3, <1>6, KeptAre
<1>9. a = Kept(o, l)
  BY <1>4, <1>7, <1>8, RisingAreOne
<1> QED
  BY <1>9 DEF a, b

-----------------------------------------------------------------------------
(* The inductive invariant of the client, the wire and the broker. *)

OnItsWay == Mqtt!Rest(resp, i) \o wire

MqttShapes ==
    /\ resp \in Streams /\ wire \in Streams /\ i \in 0 .. Len(resp)
    /\ back \in {"yield", "round", "retry"}

(* The connection is given up only when all that was read of it is whole.  *)
MqttInv ==
    /\ MqttShapes
    /\ at = "connect" => Mqtt!Whole(resp)
    /\ RightStream(OnItsWay, handed, ops, lost)

LEMMA InitMqtt == Mqtt!Init => MqttInv
<1> SUFFICES ASSUME Mqtt!Init PROVE MqttInv
  OBVIOUS
<1>1. resp = <<>> /\ wire = <<>> /\ i = 0 /\ handed = <<>> /\ ops = 0 /\ lost = {}
  BY DEF Mqtt!Init
<1>2. <<>> \in Streams /\ Len(<<>>) = 0 /\ DOMAIN <<>> = {} /\ <<>> \in Seq(Nat)
  BY DEF Streams
<1>3. MqttShapes
  BY <1>1, <1>2 DEF Mqtt!Init, MqttShapes
<1>4. OnItsWay = <<>>
  <2>1. Mqtt!Rest(<<>>, 0) = <<>>
    BY <1>2, SubSeqEmpty DEF Mqtt!Rest
  <2> QED
    BY <1>1, <2>1 DEF OnItsWay
<1>5. /\ Paired(<<>>) /\ Ordered(<<>>) /\ Rising(<<>>) /\ Numbered(<<>>) = {}
      /\ Mqtt!Messages(<<>>) = {}
  BY <1>2 DEF Paired, Ordered, Rising, Numbered, Mqtt!Messages
<1>6. {k \in 1 .. 0 : k \notin {}} = {}
  OBVIOUS
<1>7. RightStream(<<>>, <<>>, 0, {})
  BY <1>2, <1>5, <1>6 DEF RightStream
<1>8. RightStream(OnItsWay, handed, ops, lost)
  BY <1>1, <1>4, <1>7
<1>9. Mqtt!Whole(resp)
  BY <1>1 DEF Mqtt!Whole
<1> QED
  BY <1>3, <1>8, <1>9 DEF MqttInv

(* A stream is whole when its last unit is no head. *)
LEMMA WholeIs ==
    ASSUME NEW s \in Streams
    PROVE  Mqtt!Whole(s) <=> Len(s) = 0 \/ s[Len(s)][1] # "head"
<1>1. s = <<>> <=> Len(s) = 0
  BY DEF Streams
<1>2. Mqtt!Last(s) = s[Len(s)]
  BY DEF Mqtt!Last
<1> QED
  BY <1>1, <1>2 DEF Mqtt!Whole

LEMMA RecvKeeps ==
    ASSUME MqttInv, NEW n \in 1 .. Len(wire), Mqtt!Recv(n),
           UNCHANGED <<i, handed, ops, lost>>, back' \in {"yield", "round", "retry"},
           at' # "connect"
    PROVE  MqttInv'
<1>1. /\ resp \in Streams /\ wire \in Streams /\ i \in 0 .. Len(resp)
      /\ n \in 0 .. Len(wire) /\ Len(resp) \in Nat
  BY DEF MqttInv, MqttShapes, Streams
<1>2. resp' = resp \o Mqtt!Prefix(wire, n) /\ wire' = Mqtt!Rest(wire, n) /\ i' = i
  BY DEF Mqtt!Recv
<1>3. /\ resp' \in Streams /\ wire' \in Streams /\ Len(resp') = Len(resp) + n
      /\ Mqtt!Rest(resp', i) \o wire' = Mqtt!Rest(resp, i) \o wire
  BY <1>1, <1>2, RecvSame
<1>4. MqttShapes'
  BY <1>1, <1>2, <1>3 DEF MqttShapes
<1>5. OnItsWay' = OnItsWay
  BY <1>2, <1>3 DEF OnItsWay
<1>6. RightStream(OnItsWay', handed', ops', lost')
  BY <1>5 DEF MqttInv
<1> QED
  BY <1>4, <1>6 DEF MqttInv

(* Nothing of the stream changes. *)
LEMMA QuietKeeps ==
    ASSUME MqttInv, UNCHANGED <<wire, resp, i, handed, ops, lost>>,
           back' \in {"yield", "round", "retry"}, at' = "connect" => Mqtt!Whole(resp)
    PROVE  MqttInv'
<1>1. MqttShapes'
  BY DEF MqttInv, MqttShapes
<1>2. OnItsWay' = OnItsWay /\ Mqtt!Whole(resp)' = Mqtt!Whole(resp)
  BY DEF OnItsWay, Mqtt!Whole
<1> QED
  BY <1>1, <1>2 DEF MqttInv

(* The old connection is given up, and what is on its wire with it. *)
LEMMA GivenUpKeeps ==
    ASSUME MqttInv, at = "connect", wire' = <<>>, lost' = lost \cup Mqtt!Messages(wire),
           UNCHANGED <<resp, i, handed, ops, back>>, at' # "connect"
    PROVE  MqttInv'
<1>1. resp \in Streams /\ wire \in Streams /\ i \in 0 .. Len(resp) /\ Len(resp) \in Nat
  BY DEF MqttInv, MqttShapes, Streams
<1> DEFINE q == Mqtt!Rest(resp, i)
           d == Len(q) + 0
<1>2. q \in Streams /\ Len(q) = Len(resp) - i /\ \A k \in 1 .. Len(resp) - i : q[k] = resp[k + i]
  BY <1>1, CutRight
<1>3. Mqtt!Whole(resp)
  BY DEF MqttInv
<1> HIDE DEF q
<1>4. /\ d \in 0 .. Len(q \o wire)
      /\ q \o Mqtt!Prefix(wire, 0) = Mqtt!Prefix(q \o wire, d)
      /\ Mqtt!Rest(wire, 0) = Mqtt!Rest(q \o wire, d)
  <2>1. 0 \in 0 .. Len(wire)
    BY <1>1 DEF Streams
  <2> QED
    BY <1>1, <1>2, <2>1, CutSame
<1>5. d = 0 \/ (q \o wire)[d][1] # "head"
  <2>1. d = Len(q) /\ Len(q) \in Nat
    BY <1>1, <1>2
  <2>2. CASE Len(q) = 0
    BY <2>1, <2>2
  <2>3. CASE Len(q) # 0
    <3>1. Len(q) \in 1 .. Len(q) /\ Len(q) \in 1 .. Len(resp) - i /\ Len(q) + i = Len(resp)
      BY <1>1, <1>2, <2>1, <2>3
    <3>2. (q \o wire)[Len(q)] = q[Len(q)]
      BY <1>1, <1>2, <3>1, JoinRight
    <3>3. q[Len(q)] = resp[Len(resp)]
      BY <1>2, <3>1
    <3>4. Len(resp) # 0
      BY <1>1, <3>1
    <3>5. resp[Len(resp)][1] # "head"
      BY <1>1, <1>3, <3>4, WholeIs
    <3> QED
      BY <2>1, <3>2, <3>3, <3>5
  <2> QED
    BY <2>2, <2>3
<1>6. RightStream(q \o wire, handed, ops, lost)
  BY DEF MqttInv, OnItsWay, q
<1>7. RightStream(Mqtt!Prefix(q \o wire, d), handed, ops,
                  lost \cup Mqtt!Messages(Mqtt!Rest(q \o wire, d)))
  <2> HIDE DEF d
  <2> QED
    BY <1>4, <1>5, <1>6, LoseRight
<1>8. Mqtt!Prefix(wire, 0) = <<>> /\ Mqtt!Rest(wire, 0) = wire
  <2>1. Mqtt!Prefix(wire, 0) = <<>>
    BY SubSeqEmpty DEF Mqtt!Prefix
  <2>2. Mqtt!Rest(wire, 0) = SubSeq(wire, 1, Len(wire))
    BY DEF Mqtt!Rest
  <2>3. SubSeq(wire, 1, Len(wire)) = wire
    BY <1>1, SubSeqFull DEF Streams
  <2> QED
    BY <2>1, <2>2, <2>3
<1>9. OnItsWay' = Mqtt!Prefix(q \o wire, d) /\ lost' = lost \cup Mqtt!Messages(Mqtt!Rest(q \o wire, d))
  <2> HIDE DEF d
  <2>1. OnItsWay' = q \o <<>>
    BY DEF OnItsWay, q
  <2> QED
    BY <1>4, <1>8, <2>1
<1>10. RightStream(OnItsWay', handed', ops', lost')
  BY <1>7, <1>9
<1>11. MqttShapes'
  <2>1. <<>> \in Streams
    BY DEF Streams
  <2> QED
    BY <2>1 DEF MqttInv, MqttShapes
<1> QED
  BY <1>10, <1>11 DEF MqttInv

(* The connection breaks. *)
LEMMA BreakKeeps ==
    ASSUME MqttInv, BreakInside = FALSE, NEW n \in 0 .. Len(wire), Mqtt!Break(n)
    PROVE  MqttInv'
<1>1. resp \in Streams /\ wire \in Streams /\ i \in 0 .. Len(resp) /\ Len(resp) \in Nat
  BY DEF MqttInv, MqttShapes, Streams
<1> DEFINE q == Mqtt!Rest(resp, i)
           x == Mqtt!Prefix(wire, n)
           d == Len(q) + n
<1>2. q \in Streams /\ x \in Streams
  BY <1>1, CutRight
<1>3. /\ wire' = x /\ lost' = lost \cup Mqtt!Messages(Mqtt!Rest(wire, n))
      /\ Mqtt!Whole(q \o x)
      /\ UNCHANGED <<resp, i, at, back, handed, ops>>
  BY <1>1, Zenon DEF Mqtt!Break, Mqtt!Messages
<1> HIDE DEF q, x
<1>4. /\ d \in 0 .. Len(q \o wire)
      /\ q \o x = Mqtt!Prefix(q \o wire, d)
      /\ Mqtt!Rest(wire, n) = Mqtt!Rest(q \o wire, d)
  BY <1>1, <1>2, CutSame DEF x
<1> HIDE DEF d
<1>5. q \o wire \in Streams
  BY <1>1, <1>2, JoinRight
<1>6. d = 0 \/ (q \o wire)[d][1] # "head"
  <2> DEFINE s == q \o wire
             p == Mqtt!Prefix(s, d)
  <2>1. p \in Streams /\ Len(p) = d /\ \A k \in 1 .. d : p[k] = s[k]
    <3> HIDE DEF s
    <3>1. s \in Streams /\ d \in 0 .. Len(s)
      BY <1>4, <1>5 DEF s
    <3> QED
      BY <3>1, CutRight
  <2>2. Mqtt!Whole(p)
    BY <1>3, <1>4
  <2> HIDE DEF s, p
  <2>3. d = 0 \/ p[d][1] # "head"
    BY <2>1, <2>2, WholeIs
  <2>4. d \in Nat
    BY <1>4
  <2>5. d # 0 => p[d] = s[d]
    BY <2>1, <2>4
  <2> QED
    BY <2>3, <2>5 DEF s
<1>7. RightStream(q \o wire, handed, ops, lost)
  BY DEF MqttInv, OnItsWay, q
<1>8. RightStream(Mqtt!Prefix(q \o wire, d), handed, ops,
                  lost \cup Mqtt!Messages(Mqtt!Rest(q \o wire, d)))
  BY <1>4, <1>6, <1>7, LoseRight
<1>9. OnItsWay' = q \o x
  BY <1>3 DEF OnItsWay, q
<1>10. RightStream(OnItsWay', handed', ops', lost')
  BY <1>3, <1>4, <1>8, <1>9
<1>11. MqttShapes'
  BY <1>2, <1>3 DEF MqttInv, MqttShapes
<1>12. at' = "connect" => Mqtt!Whole(resp)'
  BY <1>3 DEF MqttInv, Mqtt!Whole
<1> QED
  BY <1>10, <1>11, <1>12 DEF MqttInv

(* yield() reads a message, or passes an answer. *)
LEMMA DeliverKeeps == ASSUME MqttInv, Mqtt!Deliver PROVE MqttInv'
<1>1. resp \in Streams /\ wire \in Streams /\ i \in 0 .. Len(resp) /\ Len(resp) \in Nat
  BY DEF MqttInv, MqttShapes, Streams
<1> DEFINE q == Mqtt!Rest(resp, i)
           s == q \o wire
<1>2. q \in Streams /\ Len(q) = Len(resp) - i /\ \A k \in 1 .. Len(resp) - i : q[k] = resp[k + i]
  BY <1>1, CutRight
<1>3. /\ i + 1 < Len(resp) /\ resp[i + 1][1] = "head" /\ i' = i + 2
      /\ handed' = Append(handed, IF resp[i + 2] = <<"body", resp[i + 1][2]>>
                                    THEN resp[i + 1][2] ELSE 0)
      /\ UNCHANGED <<wire, resp, at, back, ops, lost>>
  BY DEF Mqtt!Deliver, Mqtt!network, Mqtt!history
<1> HIDE DEF q
<1>4. /\ s \in Streams /\ Len(s) = Len(q) + Len(wire)
      /\ \A k \in 1 .. Len(q) : s[k] = q[k]
  BY <1>1, <1>2, JoinRight
<1>5. /\ 1 \in 1 .. Len(q) /\ 2 \in 1 .. Len(q) /\ 2 \in 0 .. Len(q)
      /\ 1 \in 1 .. Len(resp) - i /\ 2 \in 1 .. Len(resp) - i
      /\ 1 + i = i + 1 /\ 2 + i = i + 2
  BY <1>1, <1>2, <1>3
<1>6. s[1] = resp[i + 1] /\ s[2] = resp[i + 2]
  BY ONLY <1>2, <1>4, <1>5
<1>7. Len(s) # 0
  BY <1>1, <1>4, <1>5 DEF Streams
<1> HIDE DEF s
<1>8. s # <<>> /\ s[1][1] = "head"
  BY <1>3, <1>4, <1>6, <1>7 DEF Streams
<1>9. RightStream(s, handed, ops, lost)
  BY DEF MqttInv, OnItsWay, q, s
<1>10. s[2] = <<"body", s[1][2]>> /\ RightStream(Mqtt!Rest(s, 2), Append(handed, s[1][2]), ops, lost)
  BY <1>8, <1>9, DeliverRight
<1>11. handed' = Append(handed, s[1][2])
  BY <1>3, <1>6, <1>10
<1>12. OnItsWay' = Mqtt!Rest(s, 2)
  <2>1. Mqtt!Rest(q, 2) \o wire = Mqtt!Rest(s, 2)
    BY <1>1, <1>2, <1>5, DropSame DEF s
  <2>2. Mqtt!Rest(q, 2) = Mqtt!Rest(resp, i + 2)
    BY <1>1, <1>2, <1>5, RestOfRest DEF q
  <2>3. OnItsWay' = Mqtt!Rest(resp, i + 2) \o wire
    BY <1>3 DEF OnItsWay
  <2> QED
    BY <2>1, <2>2, <2>3
<1>13. RightStream(OnItsWay', handed', ops', lost')
  BY <1>3, <1>10, <1>11, <1>12
<1>14. MqttShapes'
  <2>1. i + 2 \in 0 .. Len(resp)
    BY <1>1, <1>3
  <2> QED
    BY <1>1, <1>3, <2>1 DEF MqttInv, MqttShapes
<1>15. at' # "connect"
  BY <1>3 DEF Mqtt!Deliver
<1> QED
  BY <1>13, <1>14, <1>15 DEF MqttInv

LEMMA SkipKeeps == ASSUME MqttInv, Mqtt!SkipAnswer PROVE MqttInv'
<1>1. resp \in Streams /\ wire \in Streams /\ i \in 0 .. Len(resp) /\ Len(resp) \in Nat
  BY DEF MqttInv, MqttShapes, Streams
<1> DEFINE q == Mqtt!Rest(resp, i)
           s == q \o wire
<1>2. q \in Streams /\ Len(q) = Len(resp) - i /\ \A k \in 1 .. Len(resp) - i : q[k] = resp[k + i]
  BY <1>1, CutRight
<1>3. /\ i < Len(resp) /\ resp[i + 1][1] # "head" /\ i' = i + 1
      /\ UNCHANGED <<wire, resp, at, back, handed, ops, lost>>
  BY DEF Mqtt!SkipAnswer, Mqtt!network, Mqtt!history
<1> HIDE DEF q
<1>4. /\ s \in Streams /\ Len(s) = Len(q) + Len(wire)
      /\ \A k \in 1 .. Len(q) : s[k] = q[k]
  BY <1>1, <1>2, JoinRight
<1>5. 1 \in 1 .. Len(q) /\ 1 \in 0 .. Len(q) /\ 1 \in 1 .. Len(resp) - i /\ 1 + i = i + 1
  BY <1>1, <1>2, <1>3
<1>6. s[1] = resp[i + 1]
  BY ONLY <1>2, <1>4, <1>5
<1>7. Len(s) # 0
  BY <1>1, <1>4, <1>5 DEF Streams
<1> HIDE DEF s
<1>8. s # <<>> /\ s[1][1] # "head"
  BY <1>3, <1>4, <1>6, <1>7 DEF Streams
<1>9. RightStream(s, handed, ops, lost)
  BY DEF MqttInv, OnItsWay, q, s
<1>10. RightStream(Mqtt!Rest(s, 1), handed, ops, lost)
  BY <1>8, <1>9, SkipRight
<1>11. OnItsWay' = Mqtt!Rest(s, 1)
  <2>1. Mqtt!Rest(q, 1) \o wire = Mqtt!Rest(s, 1)
    BY <1>1, <1>2, <1>5, DropSame DEF s
  <2>2. Mqtt!Rest(q, 1) = Mqtt!Rest(resp, i + 1)
    BY <1>1, <1>2, <1>5, RestOfRest DEF q
  <2>3. OnItsWay' = Mqtt!Rest(resp, i + 1) \o wire
    BY <1>3 DEF OnItsWay
  <2> QED
    BY <2>1, <2>2, <2>3
<1>12. RightStream(OnItsWay', handed', ops', lost')
  BY <1>3, <1>10, <1>11
<1>13. MqttShapes'
  <2>1. i + 1 \in 0 .. Len(resp)
    BY <1>1, <1>3
  <2> QED
    BY <1>1, <1>3, <2>1 DEF MqttInv, MqttShapes
<1>14. at' # "connect"
  BY <1>3 DEF Mqtt!SkipAnswer
<1> QED
  BY <1>12, <1>13, <1>14 DEF MqttInv

(* What is read leaves the buffer. *)
LEMMA ParsedKeeps == ASSUME MqttInv, Mqtt!Parsed PROVE MqttInv'
<1>1. resp \in Streams /\ wire \in Streams /\ i \in 0 .. Len(resp) /\ Len(resp) \in Nat
  BY DEF MqttInv, MqttShapes, Streams
<1>2. /\ resp' = Mqtt!Rest(resp, i) /\ i' = 0 /\ at' = "round"
      /\ UNCHANGED <<wire, back, handed, ops, lost>>
  BY DEF Mqtt!Parsed, Mqtt!network, Mqtt!history
<1>3. resp' \in Streams /\ 0 \in 0 .. Len(resp')
  <2>1. resp' \in Streams
    BY <1>1, <1>2, CutRight
  <2> QED
    BY <2>1 DEF Streams
<1>4. OnItsWay' = OnItsWay
  <2>1. Mqtt!Rest(Mqtt!Rest(resp, i), 0) = Mqtt!Rest(resp, i + 0)
    <3>1. 0 \in 0 .. Len(resp) - i
      BY <1>1
    <3> QED
      BY <1>1, <3>1, RestOfRest
  <2>2. i + 0 = i
    BY <1>1
  <2>3. OnItsWay' = Mqtt!Rest(Mqtt!Rest(resp, i), 0) \o wire
    BY <1>2 DEF OnItsWay
  <2>4. Mqtt!Rest(Mqtt!Rest(resp, i), 0) = Mqtt!Rest(resp, i)
    BY ONLY <2>1, <2>2
  <2> QED
    BY <2>3, <2>4 DEF OnItsWay
<1>5. RightStream(OnItsWay', handed', ops', lost')
  BY <1>2, <1>4 DEF MqttInv
<1>6. MqttShapes'
  BY <1>1, <1>2, <1>3 DEF MqttInv, MqttShapes
<1> QED
  BY <1>2, <1>5, <1>6 DEF MqttInv

(* The broker answers what it was asked, and publishes. *)
Asked == {"connect", "subscribe", "ping", "publish"} \X Nat
MqttAsked == toBroker \in Seq(Asked) /\ pub \in Nat

LEMMA AskedAppend ==
    ASSUME NEW s \in Seq(Asked), NEW u \in Asked
    PROVE  Append(s, u) \in Seq(Asked)
  OBVIOUS

LEMMA PacketsAsked ==
    /\ Mqtt!Packet("connect") \in Asked /\ Mqtt!Packet("subscribe") \in Asked
    /\ Mqtt!Packet("ping") \in Asked
    /\ \A n \in Nat : <<"publish", n + 1>> \in Asked
  BY DEF Mqtt!Packet, Asked

LEMMA SentAsks ==
    ASSUME MqttAsked, NEW u \in Asked, Mqtt!Sent(u), pub' \in Nat
    PROVE  MqttAsked'
  BY AskedAppend DEF MqttAsked, Mqtt!Sent

LEMMA InitAsked == Mqtt!Init => MqttAsked
  BY DEF Mqtt!Init, MqttAsked

LEMMA StepAsked == MqttAsked /\ [Mqtt!Next]_mqtt => MqttAsked'
<1> SUFFICES ASSUME MqttAsked, [Mqtt!Next]_mqtt PROVE MqttAsked'
  OBVIOUS
<1>0. toBroker \in Seq(Asked) /\ pub \in Nat
  BY DEF MqttAsked
<1>1. CASE UNCHANGED <<toBroker, pub>>
  BY <1>1 DEF MqttAsked
<1>2. CASE UNCHANGED mqtt
  BY <1>1, <1>2 DEF mqtt
<1>3. CASE Mqtt!ConnectFails
  <2>1. toBroker' = <<>> /\ pub' = pub
    BY <1>3 DEF Mqtt!ConnectFails
  <2> QED
    BY <1>0, <2>1 DEF MqttAsked
<1>4. CASE Mqtt!ConnectOk
  <2>1. toBroker' = <<Mqtt!Packet("connect")>> /\ pub' = pub
    BY <1>4 DEF Mqtt!ConnectOk
  <2>2. Append(<<>>, Mqtt!Packet("connect")) \in Seq(Asked)
    <3>1. <<>> \in Seq(Asked)
      OBVIOUS
    <3> QED
      BY <3>1, PacketsAsked, AskedAppend
  <2> QED
    BY <1>0, <2>1, <2>2 DEF MqttAsked
<1>5. CASE \E n \in 1 .. Len(wire) : Mqtt!ConnackRecv(n)
  <2>1. pub' = pub /\ (Mqtt!Sent(Mqtt!Packet("subscribe")) \/ UNCHANGED toBroker)
    BY <1>5 DEF Mqtt!ConnackRecv
  <2> QED
    BY <1>0, <1>1, <2>1, PacketsAsked, SentAsks
<1>6. CASE Mqtt!Ping
  <2>1. pub' = pub /\ Mqtt!Sent(Mqtt!Packet("ping"))
    BY <1>6 DEF Mqtt!Ping
  <2> QED
    BY <1>0, <2>1, PacketsAsked, SentAsks
<1>7. CASE Mqtt!Publish
  <2>1. pub' = pub /\ Mqtt!Sent(<<"publish", pub + 1>>)
    BY <1>7 DEF Mqtt!Publish
  <2>2. <<"publish", pub + 1>> \in Asked
    BY <1>0, PacketsAsked
  <2> QED
    BY <1>0, <2>1, <2>2, SentAsks
<1>8. CASE \E n \in 1 .. Len(wire) : Mqtt!PublishRecv(n)
  <2>1. pub' = pub + 1 /\ UNCHANGED toBroker
    BY <1>8 DEF Mqtt!PublishRecv
  <2> QED
    BY <1>0, <2>1 DEF MqttAsked
<1>9. CASE Mqtt!Serve
  <2>1. toBroker' = Tail(toBroker) /\ toBroker # <<>> /\ pub' = pub
    BY <1>9 DEF Mqtt!Serve
  <2> QED
    BY <1>0, <2>1 DEF MqttAsked
<1>10. CASE \E n \in 0 .. Len(wire) : Mqtt!Break(n)
  <2>1. toBroker' = <<>> /\ pub' = pub
    BY <1>10 DEF Mqtt!Break
  <2> QED
    BY <1>0, <2>1 DEF MqttAsked
<1>11. CASE \/ Mqtt!ConnackFails \/ Mqtt!SubackFails \/ Mqtt!PingNotSent \/ Mqtt!PingFails
            \/ Mqtt!YieldQuiet \/ Mqtt!Deliver \/ Mqtt!SkipAnswer \/ Mqtt!Parsed
            \/ Mqtt!NothingToSend \/ Mqtt!ExpSend \/ Mqtt!PublishNotSent
            \/ Mqtt!PublishFails \/ Mqtt!Retry
  <2>1. UNCHANGED <<toBroker, pub>>
    BY <1>11 DEF Mqtt!ConnackFails, Mqtt!SubackFails, Mqtt!PingNotSent, Mqtt!PingFails,
       Mqtt!YieldQuiet, Mqtt!Deliver, Mqtt!SkipAnswer, Mqtt!Parsed, Mqtt!NothingToSend,
       Mqtt!ExpSend, Mqtt!PublishNotSent, Mqtt!PublishFails, Mqtt!Retry, Mqtt!network
  <2> QED
    BY <1>1, <2>1
<1>12. CASE Mqtt!Send \/ Mqtt!Expire \/ Mqtt!PublishOp
  <2>1. UNCHANGED <<toBroker, pub>>
    BY <1>12 DEF Mqtt!Send, Mqtt!Expire, Mqtt!PublishOp, Mqtt!network
  <2> QED
    BY <1>1, <2>1
<1>13. CASE \E n \in 1 .. Len(wire) : Mqtt!SubackRecv(n) \/ Mqtt!PingRecv(n) \/ Mqtt!YieldRecv(n)
  <2>1. UNCHANGED <<toBroker, pub>>
    BY <1>13 DEF Mqtt!SubackRecv, Mqtt!PingRecv, Mqtt!YieldRecv
  <2> QED
    BY <1>1, <2>1
<1> QED
  BY <1>2, <1>3, <1>4, <1>5, <1>6, <1>7, <1>8, <1>9, <1>10, <1>11, <1>12, <1>13
     DEF Mqtt!Next, Mqtt!Client

LEMMA AnswersType ==
    ASSUME NEW k \in {"connect", "subscribe", "ping", "publish"}
    PROVE  /\ Mqtt!Answer(Mqtt!Reply[k]) \in UnitKinds \X Nat
           /\ Mqtt!Answer(Mqtt!Reply[k])[1] \notin {"head", "body"}
<1>1. Mqtt!Reply[k] \in {"connack", "suback", "pingresp", "puback"}
  BY DEF Mqtt!Reply
<1> DEFINE a == Mqtt!Reply[k]
<1>2. Mqtt!Answer(Mqtt!Reply[k]) = << a, 0 >> /\ a \in UnitKinds /\ a \notin {"head", "body"}
  BY <1>1 DEF Mqtt!Answer, UnitKinds
<1> HIDE DEF a
<1> QED
  BY <1>2

LEMMA JoinAppend ==
    ASSUME NEW q \in Streams, NEW w \in Streams, NEW u \in UnitKinds \X Nat
    PROVE  Append(w, u) \in Streams /\ q \o Append(w, u) = Append(q \o w, u)
  BY DEF Streams

LEMMA MqttServeKeeps == ASSUME MqttInv, MqttAsked, Mqtt!Serve PROVE MqttInv'
<1> DEFINE k == Head(toBroker)[1]
           u == Mqtt!Answer(Mqtt!Reply[k])
           q == Mqtt!Rest(resp, i)
<1>1. resp \in Streams /\ wire \in Streams /\ i \in 0 .. Len(resp)
  BY DEF MqttInv, MqttShapes
<1>2. wire' = Append(wire, u) /\ UNCHANGED <<resp, i, at, back, handed, ops, lost>>
  BY DEF Mqtt!Serve
<1>3. k \in {"connect", "subscribe", "ping", "publish"}
  <2>1. toBroker # <<>> /\ toBroker \in Seq(Asked)
    BY DEF Mqtt!Serve, MqttAsked
  <2>2. Head(toBroker) \in Asked
    BY <2>1
  <2> QED
    BY <2>2 DEF Asked
<1> HIDE DEF k
<1>4. u \in UnitKinds \X Nat /\ u[1] \notin {"head", "body"}
  BY <1>3, AnswersType
<1>5. q \in Streams
  BY <1>1, CutRight
<1> HIDE DEF u
<1>6. wire' \in Streams /\ OnItsWay' = Append(OnItsWay, u)
  <2> HIDE DEF q
  <2>1. Append(wire, u) \in Streams /\ q \o Append(wire, u) = Append(q \o wire, u)
    BY <1>1, <1>4, <1>5, JoinAppend
  <2> QED
    BY <1>2, <2>1 DEF OnItsWay, q
<1>7. RightStream(OnItsWay, handed, ops, lost)
  BY DEF MqttInv
<1>8. RightStream(Append(OnItsWay, u), handed, ops, lost)
  BY <1>4, <1>7, AnswerRight
<1>9. RightStream(OnItsWay', handed', ops', lost')
  BY <1>2, <1>6, <1>8
<1>10. MqttShapes'
  BY <1>1, <1>2, <1>6 DEF MqttInv, MqttShapes
<1>11. at' = "connect" => Mqtt!Whole(resp)'
  BY <1>2 DEF MqttInv, Mqtt!Whole
<1> QED
  BY <1>9, <1>10, <1>11 DEF MqttInv

LEMMA TwoMore ==
    ASSUME NEW w \in Streams, NEW u \in UnitKinds \X Nat, NEW v \in UnitKinds \X Nat
    PROVE  w \o << u, v >> = Append(Append(w, u), v)
  BY DEF Streams

LEMMA PublishOpKeeps == ASSUME MqttInv, Mqtt!PublishOp PROVE MqttInv'
<1> DEFINE u == << "head", ops + 1 >>
           v == << "body", ops + 1 >>
           q == Mqtt!Rest(resp, i)
<1>1. resp \in Streams /\ wire \in Streams /\ i \in 0 .. Len(resp)
  BY DEF MqttInv, MqttShapes
<1>2. /\ wire' = wire \o << u, v >> /\ ops' = ops + 1
      /\ UNCHANGED <<resp, i, at, back, handed, lost>>
  BY DEF Mqtt!PublishOp
<1>3. RightStream(OnItsWay, handed, ops, lost)
  BY DEF MqttInv
<1>4. RightStream(Append(Append(OnItsWay, u), v), handed, ops + 1, lost)
  BY <1>3, PublishRight
<1>5. u \in UnitKinds \X Nat /\ v \in UnitKinds \X Nat
  <2>1. "head" \in UnitKinds /\ "body" \in UnitKinds
    BY DEF UnitKinds
  <2>2. ops + 1 \in Nat
    BY <1>3 DEF RightStream
  <2> QED
    BY ONLY <2>1, <2>2
<1>6. q \in Streams
  BY <1>1, CutRight
<1> HIDE DEF u, v, q
<1>7. wire' = Append(Append(wire, u), v)
  BY <1>1, <1>2, <1>5, TwoMore
<1>8. Append(wire, u) \in Streams /\ q \o Append(wire, u) = Append(q \o wire, u)
  BY <1>1, <1>5, <1>6, JoinAppend
<1>9. wire' \in Streams /\ q \o wire' = Append(q \o Append(wire, u), v)
  BY <1>5, <1>6, <1>7, <1>8, JoinAppend
<1>10. OnItsWay' = Append(Append(OnItsWay, u), v)
  BY <1>2, <1>8, <1>9 DEF OnItsWay, q
<1>11. RightStream(OnItsWay', handed', ops', lost')
  BY <1>2, <1>4, <1>10
<1>12. MqttShapes'
  BY <1>1, <1>2, <1>9 DEF MqttInv, MqttShapes
<1>13. at' = "connect" => Mqtt!Whole(resp)'
  BY <1>2 DEF MqttInv, Mqtt!Whole
<1> QED
  BY <1>11, <1>12, <1>13 DEF MqttInv

LEMMA StepMqtt ==
    ASSUME BreakInside = FALSE
    PROVE  MqttInv /\ MqttAsked /\ [Mqtt!Next]_mqtt => MqttInv' /\ MqttAsked'
<1> SUFFICES ASSUME MqttInv, MqttAsked, [Mqtt!Next]_mqtt PROVE MqttInv'
  BY StepAsked
<1>0. back \in {"yield", "round", "retry"} /\ "round" \in {"yield", "round", "retry"}
      /\ "retry" \in {"yield", "round", "retry"}
  BY DEF MqttInv, MqttShapes
<1>1. CASE UNCHANGED mqtt
  <2>1. UNCHANGED <<wire, resp, i, handed, ops, lost, back, at>>
    BY <1>1 DEF mqtt
  <2>2. at = "connect" => Mqtt!Whole(resp)
    BY DEF MqttInv
  <2> QED
    BY <1>0, <2>1, <2>2, QuietKeeps
<1>2. CASE Mqtt!ConnectFails
  <2>1. /\ at = "connect" /\ wire' = <<>> /\ lost' = lost \cup Mqtt!Messages(wire)
        /\ UNCHANGED <<resp, i, handed, ops, back>> /\ at' = back
    BY <1>2, Zenon DEF Mqtt!ConnectFails, Mqtt!Messages
  <2>2. at' # "connect"
    BY <1>0, <2>1
  <2> QED
    BY <2>1, <2>2, GivenUpKeeps
<1>3. CASE Mqtt!ConnectOk
  <2>1. /\ at = "connect" /\ wire' = <<>> /\ lost' = lost \cup Mqtt!Messages(wire)
        /\ UNCHANGED <<resp, i, handed, ops, back>> /\ at' = "connack"
    BY <1>3, Zenon DEF Mqtt!ConnectOk, Mqtt!Messages
  <2> QED
    BY <2>1, GivenUpKeeps
<1>4. ASSUME NEW n \in 1 .. Len(wire),
             \/ Mqtt!ConnackRecv(n) \/ Mqtt!SubackRecv(n) \/ Mqtt!PingRecv(n)
             \/ Mqtt!YieldRecv(n) \/ Mqtt!PublishRecv(n)
      PROVE  MqttInv'
  <2>1. /\ Mqtt!Recv(n)
        /\ UNCHANGED <<i, handed, ops, lost, back>>
        /\ at' \in {back, "suback", "parse", "yield"}
    BY <1>4 DEF Mqtt!ConnackRecv, Mqtt!SubackRecv, Mqtt!PingRecv, Mqtt!YieldRecv,
       Mqtt!PublishRecv, Mqtt!history
  <2>2. at' # "connect" /\ back' \in {"yield", "round", "retry"}
    BY <1>0, <2>1
  <2> QED
    BY <2>1, <2>2, RecvKeeps
<1>5. CASE \/ Mqtt!ConnackFails \/ Mqtt!SubackFails \/ Mqtt!Ping \/ Mqtt!YieldQuiet
           \/ Mqtt!NothingToSend \/ Mqtt!ExpSend \/ Mqtt!Publish \/ Mqtt!Retry
  <2>1. /\ UNCHANGED <<wire, resp, i, handed, ops, lost, back>>
        /\ at' \in {back, "ping", "round", "parse", "yield", "send", "publish"}
    BY <1>5 DEF Mqtt!ConnackFails, Mqtt!SubackFails, Mqtt!Ping, Mqtt!YieldQuiet,
       Mqtt!NothingToSend, Mqtt!ExpSend, Mqtt!Publish, Mqtt!Retry, Mqtt!network, Mqtt!history
  <2>2. at' # "connect"
    BY <1>0, <2>1
  <2> QED
    BY <1>0, <2>1, <2>2, QuietKeeps
<1>6. CASE Mqtt!PingNotSent \/ Mqtt!PingFails \/ Mqtt!PublishNotSent \/ Mqtt!PublishFails
  <2>1. UNCHANGED <<wire, resp, i, handed, ops, lost>> /\ back' \in {"round", "retry"}
    BY <1>6 DEF Mqtt!PingNotSent, Mqtt!PingFails, Mqtt!PublishNotSent, Mqtt!PublishFails,
       Mqtt!Connect, Mqtt!network, Mqtt!history
  <2>2. Mqtt!Whole(resp)
    BY <1>6 DEF Mqtt!PingNotSent, Mqtt!PingFails, Mqtt!PublishNotSent, Mqtt!PublishFails,
       Mqtt!NotSent, Mqtt!NoRecv
  <2>3. back' \in {"yield", "round", "retry"}
    BY <2>1
  <2> QED
    BY <2>1, <2>2, <2>3, QuietKeeps
<1>7. CASE Mqtt!Send \/ Mqtt!Expire
  <2>1. UNCHANGED <<wire, resp, i, handed, ops, lost, back, at>>
    BY <1>7 DEF Mqtt!Send, Mqtt!Expire, Mqtt!network, Mqtt!history
  <2>2. at = "connect" => Mqtt!Whole(resp)
    BY DEF MqttInv
  <2> QED
    BY <1>0, <2>1, <2>2, QuietKeeps
<1>8. CASE Mqtt!Deliver \/ Mqtt!SkipAnswer \/ Mqtt!Parsed
  BY <1>8, DeliverKeeps, SkipKeeps, ParsedKeeps
<1>9. CASE Mqtt!Serve \/ Mqtt!PublishOp
  BY <1>9, MqttServeKeeps, PublishOpKeeps
<1>10. ASSUME NEW n \in 0 .. Len(wire), Mqtt!Break(n) PROVE MqttInv'
  BY <1>10, BreakKeeps
<1> QED
  BY <1>1, <1>2, <1>3, <1>4, <1>5, <1>6, <1>7, <1>8, <1>9, <1>10
     DEF Mqtt!Next, Mqtt!Client

(* The steps of the other parts. *)
LEMMA StepMqttPart ==
    ASSUME BreakInside = FALSE
    PROVE  MqttInv /\ MqttAsked /\ [AllNext]_allVars => MqttInv' /\ MqttAsked'
<1> SUFFICES ASSUME MqttInv, MqttAsked, [AllNext]_allVars PROVE MqttInv' /\ MqttAsked'
  OBVIOUS
<1>1. [Mqtt!Next]_mqtt
  BY Zenon DEF AllNext, WatchdogStep, StartupStep, PushStep, MqttStep, allVars
<1> QED
  BY <1>1, StepMqtt

LEMMA MqttInvImplies == MqttInv => HandedAsPublished
<1> SUFFICES ASSUME MqttInv PROVE HandedAsPublished
  OBVIOUS
<1>1. handed \o Mqtt!Bodies(OnItsWay) = Kept(ops, lost)
  BY RightTells DEF MqttInv
<1> QED
  BY <1>1, MqttFlatten, Zenon DEF HandedAsPublished, Mqtt!HandedAsPublished, Kept, OnItsWay

(* The handler gets every message of the broker that did not go down with  *)
(* its connection, once, whole and in order, however recv() cuts what      *)
(* arrives and whichever call takes it, and however often the connection   *)
(* breaks (SrNetMqtt::yield() and recv(), srnetmqtt.cc 389-531), as long   *)
(* as no connection ends inside a PUBLISH, for resp is not cleared by a    *)
(* new one.                                                                *)
THEOREM MessagesAreHandedAsPublished ==
    ASSUME BreakInside = FALSE
    PROVE  AllSpec => []HandedAsPublished
<1>1. AllInit => MqttInv /\ MqttAsked
  BY InitMqtt, InitAsked DEF AllInit
<1>2. MqttInv /\ MqttAsked /\ [AllNext]_allVars => MqttInv' /\ MqttAsked'
  BY StepMqttPart
<1>3. MqttInv => HandedAsPublished
  BY MqttInvImplies
<1> QED
  BY <1>1, <1>2, <1>3, PTL DEF AllSpec
=============================================================================
