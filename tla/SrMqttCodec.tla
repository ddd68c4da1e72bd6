----------------------------- MODULE SrMqttCodec -----------------------------
(***************************************************************************)
(* Packets on a stream: SrNetMqtt (src/srnetmqtt.cc) and the functions of  *)
(* ext/pahomqtt/MQTTPacket write them, the stream brings them in pieces,   *)
(* and MQTTPacket_read() or MQTTPacket_readnb() cuts it into packets that  *)
(* are read again.                                                         *)
(***************************************************************************)
EXTENDS MqttPacket

CONSTANTS
    StringLengths,   \* the lengths of the strings
    PayloadLengths,  \* and of the payloads
    ReaderLen,       \* buflen of the readers
    MaxSaid,         \* bound: the packets on the stream
    MaxAgain         \* bound: calls that find no byte of the remaining length

CodecAssumption ==
    /\ StringLengths \subseteq 0 .. 65535 /\ PayloadLengths \subseteq Nat
    /\ ReaderLen \in Nat /\ MaxSaid \in Nat /\ MaxAgain \in Nat

VARIABLES
    settings,  \* what the application set: pval, user, pass, and the will
    said,      \* history: the packets written, with buflen and their length
    stream,    \* the bytes not yet read
    trp,       \* the MQTTTransport of the reader: state, len, rem_len
    buf,       \* the reader's buffer
    again,     \* history: calls for this packet's length without a byte
    got,       \* what the packets read say
    broken     \* whether the reader has given up

codecVars == <<settings, said, stream, trp, buf, again, got, broken>>

Bytes(n) == [k \in 1 .. n |-> 65]
Strings == {Bytes(n) : n \in StringLengths}
Credentials == {Absent} \cup {s \in Strings : s # <<>>}
Ids == {1, 65535}
Bit == {0, 1}

-----------------------------------------------------------------------------
(* CONNECT as SrNetMqtt makes it of what was set.  It fills in the will's  *)
(* fields and leaves willFlag as the initializer has it.                   *)

ConnectData(clean) ==
    [version |-> 4, clean |-> clean, keepAlive |-> settings.keepAlive, client |-> <<65>>,
     willFlag |-> 0, willQos |-> settings.will.qos, willRetain |-> settings.will.retain,
     topic |-> settings.will.topic, message |-> settings.will.message,
     username |-> settings.user, password |-> settings.pass]

NoWill == [topic |-> Absent, message |-> Absent, qos |-> 0, retain |-> 0]
Wills == {NoWill} \cup [topic : Strings \ {<<>>}, message : Strings, qos : 0 .. 2, retain : Bit]

Untouched == [keepAlive |-> 0, user |-> Absent, pass |-> Absent, will |-> NoWill]

SetKeepalive == \E n \in {0, 300} : settings' = [settings EXCEPT !.keepAlive = n]
SetUsername == \E s \in Credentials : settings' = [settings EXCEPT !.user = s]
SetPassword == \E s \in Credentials : settings' = [settings EXCEPT !.pass = s]
SetWill == \E w \in Wills : settings' = [settings EXCEPT !.will = w]

Configure ==
    /\ said = <<>>
    /\ SetKeepalive \/ SetUsername \/ SetPassword \/ SetWill
    /\ UNCHANGED <<said, stream, trp, buf, again, got, broken>>

(* SrNetMqtt::publish() writes header, topic and id on its own.  Flags are *)
(* the bits of nflag.                                                      *)
NetPublish(p) ==
    Packet(Header(PUBLISH, p.dup, p.qos, p.retain),
        Str(p.topic) \o (IF p.qos > 0 THEN TwoBytes(p.id) ELSE <<>>) \o p.payload)

-----------------------------------------------------------------------------
(* Every packet there is, the bytes made of it in a buffer of buflen, and  *)
(* what the functions that read it find in them.                           *)

Publishes(kind, ids) ==
    [kind : {kind}, dup : Bit, qos : 0 .. 2, retain : Bit, id : ids,
     topic : Strings, payload : {Bytes(n) : n \in PayloadLengths}]

(* Long payloads are bounded to one packet of each QoS.                    *)
Bounded(p) ==
    Len(p.payload) <= 200 \/ (p.dup = 0 /\ p.retain = 0 /\ p.id = 1 /\ Len(p.topic) = 1)

ConnectOptions ==
    {o \in [version : {3, 4}, clean : Bit, keepAlive : {0, 300}, client : Strings,
            willFlag : Bit, willQos : {0, 2}, willRetain : Bit,
            topic : Credentials, message : Strings \cup {Absent},
            username : Credentials, password : Credentials] :
        /\ o.willFlag = 1 <=> o.topic # Absent
        /\ o.topic = Absent <=> o.message = Absent
        /\ o.willFlag = 0 => o.willQos = 0 /\ o.willRetain = 0
        /\ o.username = Absent => o.password = Absent
        /\ o.keepAlive = 300 <=> o.clean = 0
        /\ o.willRetain = 1 <=> o.willQos = 2}

Acks ==
    [kind : {"ack"}, type : {PUBACK, PUBREC, PUBREL, PUBCOMP}, dup : Bit, id : Ids]
Zeros == [kind : {"zero"}, type : {PINGREQ, PINGRESP, DISCONNECT}]
Packets ==
    [kind : {"connect"}, data : ConnectOptions]
    \cup [kind : {"connack"}, sessionPresent : Bit, code : 0 .. 5]
    \cup {p \in Publishes("publish", Ids) \cup Publishes("net publish", {1}) : Bounded(p)}
    \cup Acks
    \cup [kind : {"subscribe"}, dup : Bit, id : Ids, n : 1 .. 2, filter : Strings, qos : 0 .. 2]
    \cup [kind : {"unsubscribe"}, dup : Bit, id : Ids, n : 1 .. 2, filter : Strings]
    \cup [kind : {"suback"}, id : Ids, n : 1 .. 3, qos : {0, 1, 2, 128}]
    \cup [kind : {"unsuback"}, id : Ids]
    \cup Zeros

Copies(p, x) == [k \in 1 .. p.n |-> x]

Write(p, buflen) ==
    CASE p.kind = "connect" -> MQTTSerialize_connect(buflen, p.data)
      [] p.kind = "connack" -> MQTTSerialize_connack(buflen, p.code, p.sessionPresent)
      [] p.kind = "publish" -> MQTTSerialize_publish(buflen, p.dup, p.qos, p.retain, p.id,
                                                     p.topic, p.payload)
      [] p.kind = "net publish" -> NetPublish(p)
      [] p.kind = "ack" /\ p.type = PUBACK -> MQTTSerialize_puback(buflen, p.id)
      [] p.kind = "ack" /\ p.type = PUBREC -> MQTTSerialize_ack(buflen, PUBREC, p.dup, p.id)
      [] p.kind = "ack" /\ p.type = PUBREL -> MQTTSerialize_pubrel(buflen, p.dup, p.id)
      [] p.kind = "ack" /\ p.type = PUBCOMP -> MQTTSerialize_pubcomp(buflen, p.id)
      [] p.kind = "subscribe" -> MQTTSerialize_subscribe(buflen, p.dup, p.id,
                                     Copies(p, p.filter), Copies(p, p.qos))
      [] p.kind = "unsubscribe" -> MQTTSerialize_unsubscribe(buflen, p.dup, p.id,
                                       Copies(p, p.filter))
      [] p.kind = "suback" -> MQTTSerialize_suback(buflen, p.id, Copies(p, p.qos))
      [] p.kind = "unsuback" -> MQTTSerialize_unsuback(buflen, p.id)
      [] p.kind = "zero" -> MQTTSerialize_zero(buflen, p.type)

Read(b) ==
    CASE TypeOf(b) = CONNECT -> MQTTDeserialize_connect(b)
      [] TypeOf(b) = CONNACK -> MQTTDeserialize_connack(b)
      [] TypeOf(b) = PUBLISH -> MQTTDeserialize_publish(b)
      [] TypeOf(b) \in {PUBACK, PUBREC, PUBREL, PUBCOMP} -> MQTTDeserialize_ack(b)
      [] TypeOf(b) = SUBSCRIBE -> MQTTDeserialize_subscribe(b)
      [] TypeOf(b) = UNSUBSCRIBE -> MQTTDeserialize_unsubscribe(b)
      [] TypeOf(b) = SUBACK -> MQTTDeserialize_suback(b, 2)
      [] TypeOf(b) = UNSUBACK -> MQTTDeserialize_unsuback(b)
      [] TypeOf(b) \in {PINGREQ, PINGRESP, DISCONNECT} -> [rc |-> 1, type |-> TypeOf(b)]

(* What p should be read as: its own fields, where its type carries them.  *)
(* A password without a user name is refused.                              *)
Refused(o) == o.username = Absent /\ o.password # Absent

Meaning(p) ==
    CASE p.kind = "connect" /\ Refused(p.data) -> [rc |-> 0]
      [] p.kind = "connect" /\ ~Refused(p.data) -> [rc |-> 1] @@
            IF p.data.willFlag = 1 THEN p.data
            ELSE [p.data EXCEPT !.topic = Absent, !.message = Absent, !.willQos = 0,
                                !.willRetain = 0]
      [] p.kind = "connack" -> [rc |-> 1, sessionPresent |-> p.sessionPresent, code |-> p.code]
      [] p.kind \in {"publish", "net publish"} ->
            [rc |-> 1, dup |-> p.dup, qos |-> p.qos, retain |-> p.retain,
             id |-> IF p.qos = 0 THEN 0 ELSE p.id, topic |-> p.topic, payload |-> p.payload]
      [] p.kind = "ack" -> [rc |-> 1, type |-> p.type, id |-> p.id,
            dup |-> IF p.type \in {PUBREC, PUBREL} THEN p.dup ELSE 0]
      [] p.kind = "subscribe" -> [rc |-> 1, dup |-> p.dup, id |-> p.id,
            filters |-> Copies(p, p.filter), qoss |-> Copies(p, p.qos)]
      [] p.kind = "unsubscribe" -> [rc |-> 1, dup |-> p.dup, id |-> p.id,
            filters |-> Copies(p, p.filter)]
      [] p.kind = "suback" -> [rc |-> 1, id |-> p.id, qoss |-> Copies(p, p.qos)]
      [] p.kind = "unsuback" -> [rc |-> 1, id |-> p.id]
      [] p.kind = "zero" -> [rc |-> 1, type |-> p.type]

-----------------------------------------------------------------------------
(* A packet is written into a buffer with a byte to spare, or one that is  *)
(* a byte short.  SrNetMqtt's CONNECT has a buffer of 200.                 *)

Room(p) == Len(Write(p, 10000000))

Say(p, buflen) ==
    LET bytes == Write(p, buflen) IN
    /\ bytes # <<>>
    /\ said' = Append(said, [packet |-> p, buflen |-> buflen, len |-> Len(bytes)])
    /\ stream' = stream \o bytes
    /\ UNCHANGED <<settings, trp, buf, again, got, broken>>

SayAny ==
    /\ said = <<>> /\ settings = Untouched
    /\ \E p \in Packets : \E buflen \in {Room(p) - 1, Room(p) + 1} : Say(p, buflen)

(* What follows is short: where one packet ends is the question.           *)
Followers ==
    {[kind |-> "ack", type |-> PUBACK, dup |-> 0, id |-> 1], [kind |-> "zero", type |-> PINGRESP]}

SayNext ==
    /\ said # <<>> /\ Len(said) < MaxSaid /\ said[1].packet.kind # "connect"
    /\ \E p \in Followers : Say(p, Room(p))

SayConnect ==
    /\ said = <<>>
    /\ \E clean \in Bit : Say([kind |-> "connect", data |-> ConnectData(clean)], 200)

-----------------------------------------------------------------------------
(* MQTTPacket_readnb(), a step for each call of getfn that matters.  A     *)
(* packet without a body is never finished: getfn is asked for nothing,    *)
(* and nothing means "call again".                                         *)

Start == [state |-> 0, len |-> 0, digits |-> 0, rem_len |-> 0]

ReadHeader ==
    /\ trp.state = 0 /\ ~broken /\ stream # <<>>
    /\ buf' = <<Head(stream)>> /\ stream' = Tail(stream)
    /\ trp' = [Start EXCEPT !.state = 1]
    /\ again' = 0
    /\ UNCHANGED <<settings, said, got, broken>>

GiveUp ==
    /\ broken' = TRUE /\ trp' = Start
    /\ UNCHANGED <<settings, said, stream, buf, again, got>>

(* len counts the digits of the length and the calls without a byte alike: *)
(* the fifth is an error whatever it would have found.                     *)
MayRead == trp.state = 1 /\ trp.len < 4
LengthWith(c) == trp.rem_len + (c % 128) * 128 ^ trp.digits

NoByte ==
    /\ MayRead /\ again < MaxAgain
    /\ trp' = [trp EXCEPT !.len = @ + 1]
    /\ again' = again + 1
    /\ UNCHANGED <<settings, said, stream, buf, got, broken>>

ReadDigit ==
    /\ MayRead /\ stream # <<>> /\ Head(stream) >= 128
    /\ trp' = [trp EXCEPT !.len = @ + 1, !.digits = @ + 1,
                          !.rem_len = LengthWith(Head(stream))]
    /\ stream' = Tail(stream)
    /\ UNCHANGED <<settings, said, buf, again, got, broken>>

ReadLastDigit ==
    /\ MayRead /\ stream # <<>> /\ Head(stream) < 128
    /\ LET rem == LengthWith(Head(stream))
           len == 1 + Len(MQTTPacket_encode(rem))
       IN  IF rem + len > ReaderLen THEN GiveUp
           ELSE /\ trp' = [trp EXCEPT !.state = 2, !.len = len, !.rem_len = rem]
                /\ buf' = buf \o MQTTPacket_encode(rem)
                /\ stream' = Tail(stream)
                /\ UNCHANGED <<settings, said, again, got, broken>>

TooManyCalls == trp.state = 1 /\ trp.len = 4 /\ GiveUp

(* The body comes in one piece or two, the bound on the pieces.            *)
Pieces ==
    IF Len(buf) = 1 + Len(MQTTPacket_encode(trp.rem_len)) THEN {1, trp.rem_len - 1, trp.rem_len}
    ELSE {trp.rem_len}

ReadRest ==
    /\ trp.state = 2
    /\ \E n \in Pieces \cap 1 .. Len(stream) :
        /\ buf' = buf \o SubSeq(stream, 1, n)
        /\ stream' = SubSeq(stream, n + 1, Len(stream))
        /\ IF n = trp.rem_len
           THEN trp' = Start /\ got' = Append(got, Read(buf'))
           ELSE /\ trp' = [trp EXCEPT !.len = @ + n, !.rem_len = @ - n]
                /\ UNCHANGED got
    /\ UNCHANGED <<settings, said, again, broken>>

(* MQTTPacket_read(), whose getfn waits for the bytes it is asked for.     *)
ReadBlocking ==
    /\ trp.state = 0 /\ ~broken /\ stream # <<>>
    /\ IF End(stream) > ReaderLen THEN GiveUp
       ELSE /\ buf' = SubSeq(stream, 1, End(stream))
            /\ got' = Append(got, Read(buf'))
            /\ stream' = SubSeq(stream, End(stream) + 1, Len(stream))
            /\ UNCHANGED <<settings, said, trp, again, broken>>

-----------------------------------------------------------------------------
Init ==
    /\ settings = Untouched /\ said = <<>> /\ stream = <<>>
    /\ trp = Start /\ buf = <<>> /\ again = 0 /\ got = <<>> /\ broken = FALSE

Next ==
    \/ Configure \/ SayAny \/ SayConnect \/ SayNext
    \/ ReadHeader \/ NoByte \/ ReadDigit \/ ReadLastDigit \/ TooManyCalls
    \/ ReadRest \/ ReadBlocking

Spec == Init /\ [][Next]_codecVars

-----------------------------------------------------------------------------
(* Properties.                                                             *)

(* The packets read say what the packets written said, in their order,     *)
(* however the stream is cut, and nothing is left over.  The reader gives  *)
(* up only on a packet that is too long for its buffer or, as no length    *)
(* here has more than three digits, after two calls without a byte.        *)
ReadAsSaid ==
    /\ Len(got) <= Len(said)
    /\ \A k \in DOMAIN got : got[k] = Meaning(said[k].packet)
    /\ stream = <<>> /\ trp = Start /\ ~broken => Len(got) = Len(said)
    /\ broken => again >= 2 \/ said[Len(got) + 1].len > ReaderLen

(* No function with which a client writes a packet writes more bytes than  *)
(* the buffer it was given has, though the length of the remaining length  *)
(* is worked out in one place and written in another.                      *)
FitsItsBuffer ==
    \A k \in DOMAIN said :
        said[k].packet.kind \in {"connect", "publish", "ack", "subscribe", "unsubscribe", "zero"}
        => said[k].len <= said[k].buflen

(* setWill(): "Set Will Message for MQTT CONNECT packet."  Where a will is *)
(* set, the CONNECT that is read asks for it.                              *)
WillIsSent ==
    \A k \in DOMAIN got :
        said[k].packet.kind = "connect" /\ said[k].packet.data.topic # Absent /\ got[k].rc = 1
        => got[k].willFlag = 1
=============================================================================
