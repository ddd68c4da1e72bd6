------------------------------ MODULE SrNetMqtt ------------------------------
(***************************************************************************)
(* The MQTT client of the reporter's thread: SrNetMqtt (src/srnetmqtt.cc)  *)
(* over the socket of SrNetSocket, as func() and exp_send() of             *)
(* src/srreporter.cc drive it, with its broker.                            *)
(*                                                                         *)
(* The broker's bytes arrive in units: the head of a PUBLISH (its fixed    *)
(* header and the length of the topic), its body, and the short answers,   *)
(* of which the code skips a part as it skips the whole.  recv() appends   *)
(* what has arrived to resp, any prefix of what the broker wrote, and      *)
(* yield() reads resp from i and leaves a PUBLISH that is not complete.    *)
(***************************************************************************)
EXTENDS Integers, Sequences, SequencesExt, FiniteSets

CONSTANTS
    KeepAlive,     \* whether SR_MQTTOPT_KEEPALIVE was set (pval)
    LateAnswers,   \* whether an answer may come after MQTT_CONNECTION_TIMEOUT
    BreakInside,   \* whether a connection may end inside a PUBLISH
    Retries,       \* SR_REPORTER_RETRIES
    MaxOps,        \* bound: what the broker publishes to the device
    MaxNews,       \* bound: what the device publishes
    MaxBreaks      \* bound: connections that break

MqttAssumption ==
    /\ {KeepAlive, LateAnswers, BreakInside} \subseteq BOOLEAN
    /\ Retries \in Nat \ {0}
    /\ {MaxOps, MaxNews, MaxBreaks} \subseteq Nat

VARIABLES
    link,        \* the connection: none yet, up, or dead (unknown to the client)
    subscribed,  \* whether the broker has the subscription, on this connection
    toBroker,    \* the packets on their way to the broker
    wire,        \* the units on their way to the client
    resp, i,     \* the receive buffer, and how much of it yield() has read
    t0,          \* when the broker was last heard: recent, expired, or never
    pc,          \* where the thread is
    back,        \* where it goes on after _mqtt_connect()
    try,         \* the counter of exp_send()
    news,        \* history: how many messages the device has had to publish
    pub,         \* how many of them publish() has reported to be published
    received,    \* history: those that the broker has received
    ops,         \* history: how many messages the broker has published
    handed,      \* history: those that were handed to the handler, 0 if garbled
    lost,        \* history: those that went down with a connection
    breaks       \* how many connections broke

network == <<link, subscribed, toBroker, wire>>
history == <<news, received, ops, lost, breaks>>
vars == <<network, resp, i, t0, pc, back, try, pub, handed, history>>

Answers == {"connack", "suback", "pingresp", "puback"}
Units == ({"head", "body"} \X (1 .. MaxOps)) \cup (Answers \X {0})
Packets == ({"connect", "subscribe", "ping"} \X {0}) \cup ({"publish"} \X (1 .. MaxNews))

Answer(kind) == <<kind, 0>>
Packet(kind) == <<kind, 0>>

Prefix(s, n) == SubSeq(s, 1, n)
Rest(s, n) == SubSeq(s, n + 1, Len(s))

(* No PUBLISH is cut at the end of s. *)
Whole(s) == s # <<>> => Last(s)[1] # "head"

(* The messages whose bodies are in s, in order and as a set. *)
Bodies(s) ==
    FlattenSeq([n \in DOMAIN s |-> IF s[n][1] = "body" THEN <<s[n][2]>> ELSE <<>>])

Messages(s) == {s[n][2] : n \in {m \in DOMAIN s : s[m][1] = "body"}}

(* t0 is not initialised: until a first connect() it may be any time, one  *)
(* that is long past or one that does not come.                            *)
Init ==
    /\ link = "none" /\ subscribed = FALSE
    /\ toBroker = <<>> /\ wire = <<>>
    /\ resp = <<>> /\ i = 0
    /\ t0 \in {"expired", "never"}
    /\ pc = "connect" /\ back = "yield" /\ try = 0
    /\ news = 0 /\ pub = 0 /\ received = {}
    /\ ops = 0 /\ handed = <<>> /\ lost = {} /\ breaks = 0

-----------------------------------------------------------------------------
(* The socket *)

(* sendBuf(): on a dead connection the bytes may still be taken. *)
Sent(packet) ==
    /\ link # "none"
    /\ toBroker' = IF link = "up" THEN Append(toBroker, packet) ELSE toBroker

NotSent ==
    /\ link # "up"
    /\ BreakInside \/ Whole(resp)

(* recv() appends n units to resp. *)
Recv(n) ==
    /\ n \in 1 .. Len(wire)
    /\ resp' = resp \o Prefix(wire, n)
    /\ wire' = Rest(wire, n)

(* recv() fails, or gives nothing before the timeout. *)
NoRecv ==
    /\ wire = <<>>
    /\ link # "up" \/ LateAnswers
    /\ BreakInside \/ Whole(resp)

-----------------------------------------------------------------------------
(* _mqtt_connect(): connect() and subscribe() *)

Connect(from) == pc' = "connect" /\ back' = from

ConnectFails ==
    /\ pc = "connect"
    /\ link' = "dead" /\ subscribed' = FALSE
    /\ lost' = lost \cup Messages(wire)
    /\ wire' = <<>> /\ toBroker' = <<>>
    /\ pc' = back
    /\ UNCHANGED <<resp, i, t0, back, try, pub, handed, news, received, ops, breaks>>

(* A fresh connection; CONNECT is sent on it. *)
ConnectOk ==
    /\ pc = "connect"
    /\ link' = "up" /\ subscribed' = FALSE
    /\ lost' = lost \cup Messages(wire)
    /\ wire' = <<>> /\ toBroker' = <<Packet("connect")>>
    /\ pc' = "connack"
    /\ UNCHANGED <<resp, i, t0, back, try, pub, handed, news, received, ops, breaks>>

(* The first that the broker writes is CONNACK; SUBSCRIBE follows. *)
ConnackRecv(n) ==
    /\ pc = "connack"
    /\ Recv(n)
    /\ t0' = "recent"
    /\ \/ Sent(Packet("subscribe")) /\ pc' = "suback"
       \/ NotSent /\ pc' = back /\ UNCHANGED toBroker
    /\ UNCHANGED <<link, subscribed, i, back, try, pub, handed, history>>

ConnackFails ==
    /\ pc = "connack"
    /\ NoRecv
    /\ pc' = back
    /\ UNCHANGED <<network, resp, i, t0, back, try, pub, handed, history>>

(* Nobody looks at what subscribe() returns. *)
SubackRecv(n) ==
    /\ pc = "suback"
    /\ Recv(n)
    /\ pc' = back
    /\ UNCHANGED <<link, subscribed, toBroker, i, t0, back, try, pub, handed, history>>

SubackFails ==
    /\ pc = "suback"
    /\ NoRecv
    /\ pc' = back
    /\ UNCHANGED <<network, resp, i, t0, back, try, pub, handed, history>>

-----------------------------------------------------------------------------
(* yield() and ping() *)

PingIsDue == KeepAlive /\ t0 = "expired"

Ping ==
    /\ pc = "yield"
    /\ PingIsDue
    /\ Sent(Packet("ping"))
    /\ pc' = "ping"
    /\ UNCHANGED <<link, subscribed, wire, resp, i, t0, back, try, pub, handed, history>>

PingNotSent ==
    /\ pc = "yield"
    /\ PingIsDue
    /\ NotSent
    /\ Connect("round")
    /\ UNCHANGED <<network, resp, i, t0, try, pub, handed, history>>

(* Whatever arrives is taken for the answer. *)
PingRecv(n) ==
    /\ pc = "ping"
    /\ Recv(n)
    /\ t0' = "recent" /\ pc' = "parse"
    /\ UNCHANGED <<link, subscribed, toBroker, i, back, try, pub, handed, history>>

(* Mutant of PingFails: the caller does not connect again.                 *)
PingFailsUnnoticed ==
    /\ pc = "ping"
    /\ NoRecv
    /\ pc' = "round"
    /\ UNCHANGED <<network, resp, i, t0, back, try, pub, handed, history>>

PingFails ==
    /\ pc = "ping"
    /\ NoRecv
    /\ Connect("round")
    /\ UNCHANGED <<network, resp, i, t0, try, pub, handed, history>>

YieldRecv(n) ==
    /\ pc = "yield"
    /\ ~PingIsDue
    /\ Recv(n)
    /\ pc' = "parse"
    /\ UNCHANGED <<link, subscribed, toBroker, i, t0, back, try, pub, handed, history>>

(* A timeout and a broken connection are the same to yield(). *)
YieldQuiet ==
    /\ pc = "yield"
    /\ ~PingIsDue
    /\ wire = <<>>
    /\ pc' = IF resp = <<>> THEN "round" ELSE "parse"
    /\ UNCHANGED <<network, resp, i, t0, back, try, pub, handed, history>>

(* A PUBLISH is complete when as much follows as its head announces,       *)
(* whatever it is, and goes to the handler.                                *)
Deliver ==
    /\ pc = "parse"
    /\ i + 1 < Len(resp) /\ resp[i + 1][1] = "head"
    /\ handed' = Append(handed,
                        IF resp[i + 2] = <<"body", resp[i + 1][2]>> THEN resp[i + 1][2] ELSE 0)
    /\ i' = i + 2
    /\ UNCHANGED <<network, resp, t0, pc, back, try, pub, history>>

(* Mutant of SkipAnswer: the length of an answer is not known.             *)
SkipNothing ==
    /\ pc = "parse"
    /\ i < Len(resp) /\ resp[i + 1][1] # "head"
    /\ i' = i
    /\ UNCHANGED <<network, resp, t0, pc, back, try, pub, handed, history>>

SkipAnswer ==
    /\ pc = "parse"
    /\ i < Len(resp) /\ resp[i + 1][1] # "head"
    /\ i' = i + 1
    /\ UNCHANGED <<network, resp, t0, pc, back, try, pub, handed, history>>

(* Mutant of Parsed: the buffer is cleared.                                *)
ParsedClears ==
    /\ pc = "parse"
    /\ i >= Len(resp) \/ (i = Len(resp) - 1 /\ resp[i + 1][1] = "head")
    /\ resp' = <<>> /\ i' = 0
    /\ pc' = "round"
    /\ UNCHANGED <<network, t0, back, try, pub, handed, history>>

(* All is read but for a PUBLISH that is not complete. *)
Parsed ==
    /\ pc = "parse"
    /\ i >= Len(resp) \/ (i = Len(resp) - 1 /\ resp[i + 1][1] = "head")
    /\ resp' = Rest(resp, i) /\ i' = 0
    /\ pc' = "round"
    /\ UNCHANGED <<network, t0, back, try, pub, handed, history>>

-----------------------------------------------------------------------------
(* The rest of the round: exp_send() and publish(), QoS 1 *)

NothingToSend ==
    /\ pc = "round"
    /\ pub = news
    /\ pc' = "yield"
    /\ UNCHANGED <<network, resp, i, t0, back, try, pub, handed, history>>

ExpSend ==
    /\ pc = "round"
    /\ pub < news
    /\ try' = 0 /\ pc' = "send"
    /\ UNCHANGED <<network, resp, i, t0, back, pub, handed, history>>

Publish ==
    /\ pc = "send"
    /\ Sent(<<"publish", pub + 1>>)
    /\ pc' = "publish"
    /\ UNCHANGED <<link, subscribed, wire, resp, i, t0, back, try, pub, handed, history>>

PublishNotSent ==
    /\ pc = "send"
    /\ NotSent
    /\ Connect("retry")
    /\ UNCHANGED <<network, resp, i, t0, try, pub, handed, history>>

(* Whatever arrives is taken for PUBACK. *)
PublishRecv(n) ==
    /\ pc = "publish"
    /\ Recv(n)
    /\ pub' = pub + 1 /\ pc' = "yield"
    /\ UNCHANGED <<link, subscribed, toBroker, i, t0, back, try, handed, history>>

PublishFails ==
    /\ pc = "publish"
    /\ NoRecv
    /\ Connect("retry")
    /\ UNCHANGED <<network, resp, i, t0, try, pub, handed, history>>

(* After SR_REPORTER_RETRIES the data waits for another round. *)
Retry ==
    /\ pc = "retry"
    /\ IF try + 1 < Retries THEN try' = try + 1 /\ pc' = "send"
                            ELSE try' = 0 /\ pc' = "yield"
    /\ UNCHANGED <<network, resp, i, t0, back, pub, handed, history>>

-----------------------------------------------------------------------------
(* The application, the clock, the broker and the network *)

Send ==
    /\ news < MaxNews
    /\ news' = news + 1
    /\ UNCHANGED <<network, resp, i, t0, pc, back, try, pub, handed, received, ops, lost, breaks>>

Expire ==
    /\ t0 = "recent"
    /\ t0' = "expired"
    /\ UNCHANGED <<network, resp, i, pc, back, try, pub, handed, history>>

Reply == [connect |-> "connack", subscribe |-> "suback", ping |-> "pingresp", publish |-> "puback"]

Serve ==
    /\ link = "up"
    /\ toBroker # <<>>
    /\ LET packet == Head(toBroker)
       IN  /\ wire' = Append(wire, Answer(Reply[packet[1]]))
           /\ subscribed' = (subscribed \/ packet[1] = "subscribe")
           /\ received' = received \cup (IF packet[1] = "publish" THEN {packet[2]} ELSE {})
    /\ toBroker' = Tail(toBroker)
    /\ UNCHANGED <<link, resp, i, t0, pc, back, try, pub, handed, news, ops, lost, breaks>>

PublishOp ==
    /\ subscribed
    /\ ops < MaxOps
    /\ ops' = ops + 1
    /\ wire' = wire \o <<<<"head", ops + 1>>, <<"body", ops + 1>>>>
    /\ UNCHANGED <<link, subscribed, toBroker, resp, i, t0, pc, back, try, pub, handed,
                   news, received, lost, breaks>>

(* The connection breaks; what has reached the client can still be read.   *)
Break(n) ==
    /\ link = "up"
    /\ breaks < MaxBreaks
    /\ BreakInside \/ Whole(Rest(resp, i) \o Prefix(wire, n))
    /\ breaks' = breaks + 1
    /\ link' = "dead" /\ subscribed' = FALSE
    /\ toBroker' = <<>>
    /\ wire' = Prefix(wire, n)
    /\ lost' = lost \cup Messages(Rest(wire, n))
    /\ UNCHANGED <<resp, i, t0, pc, back, try, pub, handed, news, received, ops>>

-----------------------------------------------------------------------------

Client ==
    \/ ConnectFails \/ ConnectOk \/ ConnackFails \/ SubackFails
    \/ Ping \/ PingNotSent \/ PingFails \/ YieldQuiet
    \/ Deliver \/ SkipAnswer \/ Parsed
    \/ NothingToSend \/ ExpSend \/ Publish \/ PublishNotSent \/ PublishFails \/ Retry
    \/ \E n \in 1 .. Len(wire) :
          ConnackRecv(n) \/ SubackRecv(n) \/ PingRecv(n) \/ YieldRecv(n) \/ PublishRecv(n)

Next ==
    \/ Client
    \/ Send \/ Expire \/ Serve \/ PublishOp
    \/ \E n \in 0 .. Len(wire) : Break(n)

Spec == Init /\ [][Next]_vars

(* The thread runs, time passes, the broker answers on a connection that   *)
(* is up, and a connection is established in the end.                      *)
FairSpec ==
    /\ Spec
    /\ WF_vars(Client) /\ WF_vars(Expire) /\ WF_vars(Serve) /\ SF_vars(ConnectOk)

-----------------------------------------------------------------------------
(* Properties *)

(* Every variable has its type. *)
TypeOK ==
    /\ link \in {"none", "up", "dead"} /\ subscribed \in BOOLEAN
    /\ subscribed => link = "up"
    /\ toBroker \in Seq(Packets) /\ wire \in Seq(Units) /\ resp \in Seq(Units)
    /\ i \in 0 .. Len(resp)
    /\ t0 \in {"recent", "expired", "never"}
    /\ pc \in {"connect", "connack", "suback", "yield", "ping", "parse", "round",
               "send", "publish", "retry"}
    /\ back \in {"yield", "round", "retry"}
    /\ try \in 0 .. Retries - 1
    /\ news \in 0 .. MaxNews /\ pub \in 0 .. news /\ received \subseteq 1 .. news
    /\ ops \in 0 .. MaxOps /\ handed \in Seq(0 .. MaxOps) /\ lost \subseteq 1 .. ops
    /\ breaks \in 0 .. MaxBreaks

(* The messages of the broker that did not go down with a connection are   *)
(* those that were handed over, in the order in which they were published, *)
(* and then those that are still to be read: none is lost, doubled,        *)
(* garbled or overtaken, although recv() of connect(), subscribe(), ping() *)
(* and publish() takes them too, and cuts them anywhere                    *)
(* (src/srnetmqtt.cc 389-531, src/srnetsocket.cc 123-156).                 *)
HandedAsPublished ==
    handed \o Bodies(Rest(resp, i) \o wire)
        = FlattenSeq([m \in 1 .. ops |-> IF m \in lost THEN <<>> ELSE <<m>>])

(* Every message of the broker is handed over in the end, or went down     *)
(* with its connection: none stays in the buffer                           *)
(* (src/srnetmqtt.cc 410-531).                                             *)
Delivered == []<>(1 .. ops = ToSet(handed) \cup lost)

(* A client with a keep-alive interval that has been connected once comes  *)
(* back to a subscription, whatever broke, although the return values of   *)
(* _mqtt_connect() and of the recv() of yield() are ignored                *)
(* (src/srreporter.cc 643-692, 769-772, src/srnetmqtt.cc 410-440).         *)
Resubscribed == []<>(subscribed \/ t0 = "never")

(* What publish() reports to be published with QoS 1 has reached the       *)
(* broker, or still can.  It is not so: the bytes of any message count for *)
(* the answer, and the connection may break before the broker has read     *)
(* what was sent (src/srnetmqtt.cc 173-182).                               *)
PublishedIsNotLost == \A m \in 1 .. pub : m \in received \/ Contains(toBroker, <<"publish", m>>)
=============================================================================
