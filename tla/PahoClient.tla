------------------------------ MODULE PahoClient ------------------------------
(***************************************************************************)
(* The two blocking clients of ext/pahomqtt: Client in                     *)
(* MQTTClient/src/MQTTClient.h (Cpp) and MQTTClient-C/src/MQTTClient.c     *)
(* (~Cpp), as they are built by default.  A call writes its packet and     *)
(* then runs cycle(), which reads one packet and does what it asks for,    *)
(* until the answer has come or its timer has expired.                     *)
(*                                                                         *)
(* The network and the server are external: packets arrive in order until  *)
(* the connection breaks, and then those on their way are lost.  The       *)
(* server answers a packet at any time and breaks a connection on which    *)
(* CONNECT does not come first, or comes twice.                            *)
(***************************************************************************)
EXTENDS Integers, Sequences, SequencesExt, FiniteSetsExt

CONSTANTS
    Cpp,           \* whether it is the client in C++
    MAX_MESSAGE_HANDLERS,
    Topics,        \* the topics subscribed to
    MaxCommands,   \* bound: the calls
    MaxBreaks,     \* bound: the connections that break
    MaxIncoming    \* bound: the messages of the server

ClientAssumption ==
    /\ Cpp \in BOOLEAN /\ MAX_MESSAGE_HANDLERS \in Nat
    /\ {MaxCommands, MaxBreaks, MaxIncoming} \subseteq Nat

VARIABLES
    isconnected, cleansession, packetid, inflightMsgid, ping_outstanding,
    messageHandlers,  \* the topic of every handler, or NoTopic
    command,          \* the call that waits, the packet it waits for and its message
    network,          \* whether the connection is up
    up, down,         \* the packets on their way to the server and from it
    known,            \* server: whether this connection has had its CONNECT
    topicsOf,         \* server: the subscriptions
    arrived,          \* server: the messages it has taken
    commands, breaks, incoming,
    reported          \* history: the messages publish() reported as sent, QoS 1

session == <<isconnected, cleansession, packetid, inflightMsgid, ping_outstanding,
             messageHandlers>>
broker == <<known, topicsOf, arrived>>
mqttVars == <<session, command, network, up, down, broker, commands, breaks,
              incoming, reported>>

NoTopic == "none"
Idle == [name |-> "none", want |-> "none", what |-> 0]
Packet(type, id, what) == [type |-> type, id |-> id, what |-> what]
Slots == 1 .. MAX_MESSAGE_HANDLERS

Init ==
    /\ isconnected = FALSE /\ cleansession = FALSE /\ inflightMsgid = 0
    /\ packetid = (IF Cpp THEN 0 ELSE 1) /\ ping_outstanding = FALSE
    /\ messageHandlers = [k \in Slots |-> NoTopic]
    /\ command = Idle /\ network = TRUE /\ up = <<>> /\ down = <<>>
    /\ known = FALSE /\ topicsOf = {} /\ arrived = {}
    /\ commands = 0 /\ breaks = 0 /\ incoming = 0 /\ reported = {}

-----------------------------------------------------------------------------
(* What the calls share.                                                   *)

Ready == command = Idle /\ commands < MaxCommands
Counted == commands' = commands + 1

(* Mutant of cleanSession: the client stays connected.                     *)
cleanSessionOnly ==
    /\ ping_outstanding' = FALSE /\ inflightMsgid' = 0
    /\ messageHandlers' = [k \in Slots |-> NoTopic]
    /\ UNCHANGED isconnected

cleanSession ==
    /\ isconnected' = FALSE /\ ping_outstanding' = FALSE /\ inflightMsgid' = 0
    /\ messageHandlers' = [k \in Slots |-> NoTopic]

(* A command but connect() that fails: the client in C++ forgets its       *)
(* session.                                                                *)
Failed(name) ==
    IF Cpp /\ name # "connect" THEN cleanSession
    ELSE UNCHANGED <<isconnected, ping_outstanding, inflightMsgid, messageHandlers>>

(* The bound on the calls is far below 65535, where the ids start again.   *)
NextId == packetid + 1

(* The packet is written, the command waits for its answer; or it is not,  *)
(* since it is too long for the buffer or the network is down.             *)
Send(packet, name, want, what) ==
    /\ network
    /\ up' = Append(up, packet)
    /\ command' = IF want = "none" THEN Idle
                  ELSE [name |-> name, want |-> want, what |-> what]
    /\ UNCHANGED <<network, down, broker, breaks, incoming, reported>>

NotSent(name) ==
    /\ Failed(name)
    /\ UNCHANGED <<command, network, up, down, broker, breaks, incoming, reported>>

-----------------------------------------------------------------------------
TooLong ==
    UNCHANGED <<isconnected, ping_outstanding, inflightMsgid, messageHandlers, command,
                network, up, down, broker, breaks, incoming, reported>>

Connect ==
    /\ Ready /\ ~isconnected /\ Counted
    /\ \E clean \in BOOLEAN : cleansession' = (Cpp /\ clean)
    /\ UNCHANGED packetid
    /\ \/ /\ Send(Packet("CONNECT", 0, 0), "connect", "CONNACK", 0)
          /\ UNCHANGED <<isconnected, inflightMsgid, ping_outstanding, messageHandlers>>
       \/ NotSent("connect")

(* The message is the number of the call.  One too long for the buffer     *)
(* does not end the session.                                               *)
Publish(qos) ==
    /\ Ready /\ isconnected /\ Counted
    /\ packetid' = IF qos = 1 THEN NextId ELSE packetid
    /\ UNCHANGED cleansession
    /\ \/ /\ inflightMsgid' = IF Cpp /\ ~cleansession THEN (IF qos = 1 THEN NextId ELSE 0)
                              ELSE inflightMsgid
          /\ Send(Packet("PUBLISH", IF qos = 1 THEN NextId ELSE 0, commands'), "publish",
                  IF qos = 1 THEN "PUBACK" ELSE "none", commands')
          /\ UNCHANGED <<isconnected, ping_outstanding, messageHandlers>>
       \/ TooLong
       \/ ~network /\ NotSent("publish")

Ask(name, type, answer, t) ==
    /\ Ready /\ isconnected /\ Counted
    /\ packetid' = NextId
    /\ UNCHANGED cleansession
    /\ \/ /\ Send(Packet(type, NextId, t), name, answer, t)
          /\ UNCHANGED <<isconnected, inflightMsgid, ping_outstanding, messageHandlers>>
       \/ NotSent(name)

Subscribe == \E t \in Topics : Ask("subscribe", "SUBSCRIBE", "SUBACK", t)
Unsubscribe == \E t \in Topics : Ask("unsubscribe", "UNSUBSCRIBE", "UNSUBACK", t)

(* A client in C++ forgets its session on these, too, when it is not       *)
(* connected.                                                              *)
Unconnected ==
    /\ Cpp /\ Ready /\ ~isconnected /\ Counted
    /\ cleanSession
    /\ UNCHANGED <<cleansession, packetid, command, network, up, down, broker, breaks, incoming, reported>>

Yield ==
    /\ Ready /\ Counted
    /\ command' = [name |-> "yield", want |-> "none", what |-> 0]
    /\ UNCHANGED <<session, network, up, down, broker, breaks, incoming, reported>>

Disconnect ==
    /\ Ready /\ isconnected /\ Counted
    /\ IF Cpp /\ cleansession THEN cleanSession
       ELSE isconnected' = FALSE /\ UNCHANGED <<inflightMsgid, ping_outstanding, messageHandlers>>
    /\ up' = IF network THEN Append(up, Packet("DISCONNECT", 0, 0)) ELSE up
    /\ UNCHANGED <<cleansession, packetid, command, network, down, broker, breaks,
                   incoming, reported>>

-----------------------------------------------------------------------------
(* cycle(): keepalive() writes a ping when its time has come and none is   *)
(* outstanding; with packets in `sent' already.                            *)

keepalive(sent) ==
    \/ up' = up \o sent /\ ping_outstanding' = ping_outstanding
    \/ /\ ~ping_outstanding /\ network
       /\ up' = up \o Append(sent, Packet("PINGREQ", 0, 0)) /\ ping_outstanding' = TRUE

FirstSlot(P(_)) == Min({k \in Slots : P(messageHandlers[k])} \cup {MAX_MESSAGE_HANDLERS + 1})

(* A packet that no command waits for.                                     *)
Cycle ==
    /\ command # Idle /\ network /\ down # <<>> /\ Head(down).type # command.want
    /\ down' = Tail(down)
    /\ LET p == Head(down) IN
       IF p.type = "PINGRESP"
       THEN /\ up' = up /\ ping_outstanding' = FALSE
       ELSE keepalive(IF p.type = "PUBLISH" /\ p.id # 0
                      THEN <<Packet("PUBACK", p.id, 0)>> ELSE <<>>)
    /\ UNCHANGED <<isconnected, cleansession, packetid, inflightMsgid, messageHandlers,
                   command, network, broker, commands, breaks, incoming, reported>>

(* No packet has come when the read times out.                             *)
CycleOfNothing ==
    /\ command # Idle /\ network /\ down = <<>>
    /\ ~ping_outstanding /\ ping_outstanding' = TRUE
    /\ up' = Append(up, Packet("PINGREQ", 0, 0))
    /\ UNCHANGED <<isconnected, cleansession, packetid, inflightMsgid, messageHandlers,
                   command, network, down, broker, commands, breaks, incoming, reported>>

(* The answer has come.  Its id is not looked at, but publish() in C++     *)
(* does so to forget its message.                                          *)
Answered ==
    /\ command # Idle /\ network /\ down # <<>> /\ Head(down).type = command.want
    /\ down' = Tail(down) /\ command' = Idle
    /\ UNCHANGED <<packetid, cleansession, network, broker, commands, breaks, incoming>>

ConnectAnswered ==
    /\ command.name = "connect" /\ Answered
    /\ isconnected' = (Head(down).what = 0)
    /\ keepalive(<<>>)
    /\ UNCHANGED <<inflightMsgid, messageHandlers, reported>>

PublishAnswered ==
    /\ command.name = "publish" /\ Answered
    /\ reported' = reported \cup {command.what}
    /\ inflightMsgid' = IF Cpp /\ inflightMsgid = Head(down).id THEN 0 ELSE inflightMsgid
    /\ keepalive(<<>>)
    /\ UNCHANGED <<isconnected, messageHandlers>>

(* The granted quality is that of the id asked for; 128 refuses.  The      *)
(* quality stays the return code when there is no slot for the handler,    *)
(* and any but 0 is an error to the client in C++.                         *)
SubscribeAnswered ==
    /\ command.name = "subscribe" /\ Answered
    /\ LET granted == Head(down).what
           slot == FirstSlot(LAMBDA t : t = NoTopic)
       IN  IF granted # 128 /\ slot \in Slots
           THEN /\ messageHandlers' = [messageHandlers EXCEPT ![slot] = command.what]
                /\ UNCHANGED <<isconnected, inflightMsgid>>
                /\ keepalive(<<>>)
           ELSE IF Cpp /\ granted # 0
           THEN /\ isconnected' = FALSE /\ inflightMsgid' = 0 /\ ping_outstanding' = FALSE
                /\ messageHandlers' = [k \in Slots |-> NoTopic]
                /\ \E sent \in {<<>>, <<Packet("PINGREQ", 0, 0)>>} :
                     (sent # <<>> => ~ping_outstanding) /\ up' = up \o sent
           ELSE /\ UNCHANGED <<isconnected, inflightMsgid, messageHandlers>>
                /\ keepalive(<<>>)
    /\ UNCHANGED reported

UnsubscribeAnswered ==
    /\ command.name = "unsubscribe" /\ Answered
    /\ LET slot == FirstSlot(LAMBDA t : t = command.what)
       IN  messageHandlers' = IF Cpp /\ slot \in Slots
                              THEN [messageHandlers EXCEPT ![slot] = NoTopic]
                              ELSE messageHandlers
    /\ keepalive(<<>>)
    /\ UNCHANGED <<isconnected, inflightMsgid, reported>>

(* The timer expires: the command has failed.  yield() ends so as well.    *)
Expired ==
    /\ command # Idle
    /\ command' = Idle
    /\ Failed(IF command.name = "yield" THEN "connect" ELSE command.name)
    /\ UNCHANGED <<cleansession, packetid, network, up, down, broker, commands, breaks, incoming, reported>>

-----------------------------------------------------------------------------
(* External: the server, and the network.  The application opens a new     *)
(* connection when the client is not connected or the old one has broken.  *)

Serve ==
    /\ network /\ up # <<>> /\ up' = Tail(up)
    /\ (Head(up).type = "CONNECT") = ~known
    /\ LET p == Head(up)
           answer(type, what) == down' = Append(down, Packet(type, p.id, what))
       IN  CASE p.type = "CONNECT" ->
                    /\ \E refused \in {0, 5} :
                         answer("CONNACK", refused) /\ known' = (refused = 0)
                    /\ UNCHANGED <<topicsOf, arrived>>
             [] p.type = "PUBLISH" ->
                    /\ arrived' = arrived \cup {p.what}
                    /\ IF p.id = 0 THEN UNCHANGED down ELSE answer("PUBACK", 0)
                    /\ UNCHANGED <<known, topicsOf>>
             [] p.type = "SUBSCRIBE" ->
                    /\ \E granted \in {0, 1, 128} :
                        /\ answer("SUBACK", granted)
                        /\ topicsOf' = IF granted = 128 THEN topicsOf ELSE topicsOf \cup {p.what}
                    /\ UNCHANGED <<known, arrived>>
             [] p.type = "UNSUBSCRIBE" ->
                    /\ topicsOf' = topicsOf \ {p.what} /\ answer("UNSUBACK", 0)
                    /\ UNCHANGED <<known, arrived>>
             [] p.type = "PINGREQ" -> answer("PINGRESP", 0) /\ UNCHANGED broker
             [] p.type = "PUBACK" -> UNCHANGED <<down, broker>>
             [] OTHER -> FALSE
    /\ UNCHANGED <<session, command, network, commands, breaks, incoming, reported>>

SendMessage ==
    /\ network /\ known /\ incoming < MaxIncoming /\ incoming' = incoming + 1
    /\ \E t \in topicsOf, id \in {0, incoming'} : down' = Append(down, Packet("PUBLISH", id, t))
    /\ UNCHANGED <<session, command, network, up, broker, commands, breaks, reported>>

Broken ==
    /\ network' = FALSE /\ up' = <<>> /\ down' = <<>> /\ known' = FALSE
    /\ UNCHANGED <<session, command, topicsOf, arrived, commands, incoming, reported>>

Break == network /\ breaks < MaxBreaks /\ breaks' = breaks + 1 /\ Broken

(* A DISCONNECT ends the connection, and so does a CONNECT too many or too *)
(* late.                                                                   *)
CloseConnection ==
    /\ network /\ up # <<>>
    /\ Head(up).type = "DISCONNECT" \/ ((Head(up).type = "CONNECT") = known)
    /\ Broken /\ UNCHANGED breaks

Reopen ==
    /\ command = Idle
    /\ ~network \/ (~isconnected /\ up \o down # <<>>)
    /\ network' = TRUE /\ up' = <<>> /\ down' = <<>> /\ known' = FALSE
    /\ UNCHANGED <<session, command, topicsOf, arrived, commands, breaks, incoming, reported>>

-----------------------------------------------------------------------------
Next ==
    \/ Connect \/ (\E qos \in {0, 1} : Publish(qos)) \/ Subscribe \/ Unsubscribe
    \/ Unconnected \/ Yield \/ Disconnect
    \/ Cycle \/ CycleOfNothing \/ ConnectAnswered \/ PublishAnswered
    \/ SubscribeAnswered \/ UnsubscribeAnswered \/ Expired
    \/ Serve \/ SendMessage \/ Break \/ CloseConnection \/ Reopen

Spec == Init /\ [][Next]_mqttVars

-----------------------------------------------------------------------------
(* "send an MQTT publish packet and wait for all acks to complete for all  *)
(* QoSs": a message of QoS 1 that publish() reports as sent has reached    *)
(* the server, although the id of an acknowledgement is not compared.      *)
(* What keeps a late one from being taken for the next in C++ is that a    *)
(* command that fails ends the session; in C it does not                   *)
(* (MQTTClient.h 645-657, 818-861; MQTTClient.c 340-352, 524-557).         *)
PublishedHasArrived == reported \subseteq arrived

(* "store the last publish for sending on reconnect": unless the session   *)
(* is clean, a message whose publish() fails after it was written is the   *)
(* one connect() sends again.  It is not so: the failure forgets it        *)
(* (MQTTClient.h 235, 703-709, 857-860).                                   *)
KeptForReconnect ==
    [][command.name = "publish" /\ command' = Idle /\ command.what \notin reported'
           /\ ~cleansession
       => inflightMsgid' # 0]_mqttVars
=============================================================================
