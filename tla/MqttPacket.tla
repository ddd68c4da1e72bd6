------------------------------ MODULE MqttPacket ------------------------------
(***************************************************************************)
(* The packets of MQTT (ext/pahomqtt/MQTTPacket/src): how they are written *)
(* into a buffer and read.  A packet on the wire is the sequence of its    *)
(* bytes; what it says is a record with the fields of its type.  A string  *)
(* is the sequence of its bytes, a flag is 0 or 1.  A reader returns [rc]  *)
(* alone when it fails, and 1 in rc when it succeeds.                      *)
(***************************************************************************)
EXTENDS Integers, Sequences, SequencesExt, FiniteSetsExt

CONNECT == 1       CONNACK == 2       PUBLISH == 3       PUBACK == 4
PUBREC == 5        PUBREL == 6        PUBCOMP == 7       SUBSCRIBE == 8
SUBACK == 9        UNSUBSCRIBE == 10  UNSUBACK == 11     PINGREQ == 12
PINGRESP == 13     DISCONNECT == 14

Absent == <<-1>>   \* a string that is not given

-----------------------------------------------------------------------------
(* The remaining length: seven bits a byte, the lowest first; the top bit  *)
(* of a byte says that another follows.                                    *)

Digits(n) == IF n < 128 THEN 1 ELSE IF n < 16384 THEN 2 ELSE IF n < 2097152 THEN 3 ELSE 4

MQTTPacket_encode(n) ==
    [k \in 1 .. Digits(n) |->
        ((n \div 128 ^ (k - 1)) % 128) + (IF k < Digits(n) THEN 128 ELSE 0)]

(* From place i: how many bytes were read, of at most four, and the value. *)
MQTTPacket_decode(b, i) ==
    LET n == Min({k \in 1 .. 5 : k = 5 \/ i + k > Len(b) \/ b[i + k - 1] < 128})
        read == [k \in 1 .. (IF n = 5 THEN 4 ELSE n) |-> b[i + k - 1] % 128]
    IN  [len |-> n, value |-> FoldLeftDomain(LAMBDA v, k : v + read[k] * 128 ^ (k - 1), 0, read)]

(* What a writer asks of its buffer: never too little, and a byte too much *)
(* where the header byte carries into the next length of the length.       *)
MQTTPacket_len(rem) ==
    1 + rem + (IF rem + 1 < 128 THEN 1 ELSE IF rem + 1 < 16384 THEN 2
               ELSE IF rem + 1 < 2097151 THEN 3 ELSE 4)

-----------------------------------------------------------------------------
(* writeInt(), writeMQTTString() and the readers of the two.               *)

TwoBytes(n) == <<n \div 256, n % 256>>
Str(s) == IF s = Absent THEN TwoBytes(0) ELSE TwoBytes(Len(s)) \o s
StrLen(s) == IF s = Absent THEN 0 ELSE Len(s)

IntAt(b, i) == 256 * b[i] + b[i + 1]

(* readMQTTLenString(): the string at place i, where the packet's last     *)
(* byte is at place e.                                                     *)
StrAt(b, i, e) ==
    IF e + 1 - i > 1 /\ i + 2 + IntAt(b, i) <= e + 1
    THEN [ok |-> TRUE, value |-> SubSeq(b, i + 2, i + 1 + IntAt(b, i)),
          next |-> i + 2 + IntAt(b, i)]
    ELSE [ok |-> FALSE, value |-> <<>>, next |-> i + 2]

Header(type, dup, qos, retain) == type * 16 + dup * 8 + qos * 2 + retain
TypeOf(b) == b[1] \div 16
DupOf(b) == (b[1] \div 8) % 2
QosOf(b) == (b[1] \div 2) % 4
RetainOf(b) == b[1] % 2

(* Where the body of a packet begins and where it ends.                    *)
Body(b) == 2 + MQTTPacket_decode(b, 2).len
End(b) == Body(b) + MQTTPacket_decode(b, 2).value - 1

(* A writer that has checked for the room `needed': the bytes, or nothing. *)
Packet(header, body) == <<header>> \o MQTTPacket_encode(Len(body)) \o body
Serialized(buflen, needed, packet) == IF needed > buflen THEN <<>> ELSE packet
Failed(code) == [rc |-> code]

-----------------------------------------------------------------------------
(* CONNECT.  The will, the username and the password are options.          *)

MQTTSerialize_connectLength(o) ==
    (IF o.version = 3 THEN 12 ELSE 10) + StrLen(o.client) + 2
    + (IF o.willFlag = 1 THEN StrLen(o.topic) + 2 + StrLen(o.message) + 2 ELSE 0)
    + (IF o.username # Absent THEN StrLen(o.username) + 2 ELSE 0)
    + (IF o.password # Absent THEN StrLen(o.password) + 2 ELSE 0)

Protocol(version) == IF version = 4 THEN <<77, 81, 84, 84>> ELSE <<77, 81, 73, 115, 100, 112>>

Given(s) == IF s = Absent THEN 0 ELSE 1

MQTTSerialize_connect(buflen, o) ==
    LET flags == o.clean * 2 + o.willFlag * (4 + o.willQos * 8 + o.willRetain * 32)
                 + Given(o.password) * 64 + Given(o.username) * 128
    IN  Serialized(buflen, MQTTPacket_len(MQTTSerialize_connectLength(o)),
            Packet(Header(CONNECT, 0, 0, 0),
                Str(Protocol(o.version)) \o <<o.version, flags>> \o TwoBytes(o.keepAlive)
                \o Str(o.client)
                \o (IF o.willFlag = 1 THEN Str(o.topic) \o Str(o.message) ELSE <<>>)
                \o (IF o.username # Absent THEN Str(o.username) ELSE <<>>)
                \o (IF o.password # Absent THEN Str(o.password) ELSE <<>>)))

(* Only as much of the name is compared as there is of it.                 *)
MQTTPacket_checkVersion(name, version) ==
    /\ version \in {3, 4}
    /\ \A k \in DOMAIN name \cap DOMAIN Protocol(version) : name[k] = Protocol(version)[k]

(* The fields of an option with strings at place i; a credential of no     *)
(* bytes at the very end is refused, as three bytes are asked for.         *)
OptionAt(b, given, i, e) ==
    IF ~given THEN [ok |-> TRUE, value |-> Absent, next |-> i]
    ELSE StrAt(b, i, e)
CredentialAt(b, given, i, e) ==
    IF given /\ e + 1 - i < 3 THEN [ok |-> FALSE, value |-> Absent, next |-> i]
    ELSE OptionAt(b, given, i, e)

MQTTDeserialize_connect(b) ==
    LET e == Len(b)
        name == StrAt(b, Body(b), e)
        version == b[name.next]
        flags == b[name.next + 1]
        has(bit) == (flags \div bit) % 2 = 1
        client == StrAt(b, name.next + 4, e)
        topic == OptionAt(b, has(4), client.next, e)
        message == OptionAt(b, has(4), topic.next, e)
        username == CredentialAt(b, has(128), message.next, e)
        password == CredentialAt(b, has(64), username.next, e)
    IN  IF /\ TypeOf(b) = CONNECT
           /\ name.ok /\ MQTTPacket_checkVersion(name.value, version)
           /\ client.ok /\ topic.ok /\ message.ok /\ username.ok /\ password.ok
           /\ has(64) => has(128)
        THEN [rc |-> 1, version |-> version, clean |-> (flags \div 2) % 2,
              keepAlive |-> IntAt(b, name.next + 2), client |-> client.value,
              willFlag |-> (flags \div 4) % 2,
              topic |-> topic.value, message |-> message.value,
              willQos |-> IF has(4) THEN (flags \div 8) % 4 ELSE 0,
              willRetain |-> IF has(4) THEN (flags \div 32) % 2 ELSE 0,
              username |-> username.value, password |-> password.value]
        ELSE Failed(0)

-----------------------------------------------------------------------------
(* CONNACK.  The session's flag is where the bit fields of the struct put  *)
(* it, the top bit, with both.  Failing readers return the bytes of the    *)
(* remaining length where they have read it: 1 for a body that is short.   *)

MQTTSerialize_connack(buflen, rc, sessionPresent) ==
    Serialized(buflen, 2, Packet(Header(CONNACK, 0, 0, 0), <<sessionPresent * 128, rc>>))

MQTTDeserialize_connack(b) ==
    IF TypeOf(b) # CONNACK THEN Failed(0)
    ELSE IF End(b) + 1 - Body(b) < 2 THEN Failed(MQTTPacket_decode(b, 2).len)
    ELSE [rc |-> 1, sessionPresent |-> b[Body(b)] \div 128, code |-> b[Body(b) + 1]]

-----------------------------------------------------------------------------
(* PUBLISH and the acknowledgements of two bytes.                          *)

MQTTSerialize_publishLength(qos, topic, payload) ==
    2 + StrLen(topic) + Len(payload) + (IF qos > 0 THEN 2 ELSE 0)

(* Mutant of MQTTSerialize_publish: a packet of QoS 0 has a packet id, too. *)
SerializePublishAlwaysId(buflen, dup, qos, retain, id, topic, payload) ==
    Serialized(buflen, MQTTPacket_len(MQTTSerialize_publishLength(qos, topic, payload)),
        Packet(Header(PUBLISH, dup, qos, retain), Str(topic) \o TwoBytes(id) \o payload))

MQTTSerialize_publish(buflen, dup, qos, retain, id, topic, payload) ==
    Serialized(buflen, MQTTPacket_len(MQTTSerialize_publishLength(qos, topic, payload)),
        Packet(Header(PUBLISH, dup, qos, retain),
            Str(topic) \o (IF qos > 0 THEN TwoBytes(id) ELSE <<>>) \o payload))

MQTTDeserialize_publish(b) ==
    LET topic == StrAt(b, Body(b), End(b))
        start == topic.next + (IF QosOf(b) > 0 THEN 2 ELSE 0)
    IN  IF TypeOf(b) # PUBLISH THEN Failed(0)
        ELSE IF ~topic.ok THEN Failed(MQTTPacket_decode(b, 2).len)
        ELSE [rc |-> 1, dup |-> DupOf(b), qos |-> QosOf(b), retain |-> RetainOf(b),
              id |-> IF QosOf(b) > 0 THEN IntAt(b, topic.next) ELSE 0,
              topic |-> topic.value, payload |-> SubSeq(b, start, End(b))]

MQTTSerialize_ack(buflen, type, dup, id) ==
    Serialized(buflen, 4,
        Packet(Header(type, dup, IF type = PUBREL THEN 1 ELSE 0, 0), TwoBytes(id)))
MQTTSerialize_puback(buflen, id) == MQTTSerialize_ack(buflen, PUBACK, 0, id)
MQTTSerialize_pubrel(buflen, dup, id) == MQTTSerialize_ack(buflen, PUBREL, dup, id)
MQTTSerialize_pubcomp(buflen, id) == MQTTSerialize_ack(buflen, PUBCOMP, 0, id)

MQTTDeserialize_ack(b) ==
    IF End(b) + 1 - Body(b) < 2 THEN Failed(MQTTPacket_decode(b, 2).len)
    ELSE [rc |-> 1, type |-> TypeOf(b), dup |-> DupOf(b), id |-> IntAt(b, Body(b))]

(* Any acknowledgement of two bytes passes.                                *)
MQTTDeserialize_unsuback(b) ==
    LET ack == MQTTDeserialize_ack(b)
    IN  IF "id" \in DOMAIN ack THEN [rc |-> 1, id |-> ack.id]
        ELSE Failed(IF TypeOf(b) = UNSUBACK THEN 1 ELSE ack.rc)

MQTTSerialize_unsuback(buflen, id) ==
    Serialized(buflen, 2, Packet(Header(UNSUBACK, 0, 0, 0), TwoBytes(id)))

-----------------------------------------------------------------------------
(* SUBSCRIBE, UNSUBSCRIBE and SUBACK.  The filters are strings, and qoss   *)
(* the quality asked for, or granted, for each.                            *)

MQTTSerialize_subscribeLength(filters) ==
    2 + FoldLeft(LAMBDA n, s : n + 2 + StrLen(s) + 1, 0, filters)
MQTTSerialize_unsubscribeLength(filters) ==
    2 + FoldLeft(LAMBDA n, s : n + 2 + StrLen(s), 0, filters)

MQTTSerialize_subscribe(buflen, dup, id, filters, qoss) ==
    Serialized(buflen, MQTTPacket_len(MQTTSerialize_subscribeLength(filters)),
        Packet(Header(SUBSCRIBE, dup, 1, 0),
            TwoBytes(id) \o FlattenSeq([k \in DOMAIN filters |->
                                            Append(Str(filters[k]), qoss[k])])))

MQTTSerialize_unsubscribe(buflen, dup, id, filters) ==
    Serialized(buflen, MQTTPacket_len(MQTTSerialize_unsubscribeLength(filters)),
        Packet(Header(UNSUBSCRIBE, dup, 1, 0),
            TwoBytes(id) \o FlattenSeq([k \in DOMAIN filters |-> Str(filters[k])])))

(* The filters from place i on; behind each there are `extra' bytes, which *)
(* have to be there.                                                       *)
FiltersFrom(b, start, extra) ==
    LET e == End(b)
        from[i \in start .. e + 1] ==
            IF i > e THEN [ok |-> TRUE, filters |-> <<>>, qoss |-> <<>>]
            ELSE LET s == StrAt(b, i, e) IN
                 IF ~s.ok \/ s.next + extra > e + 1
                 THEN [ok |-> FALSE, filters |-> <<>>, qoss |-> <<>>]
                 ELSE LET rest == from[s.next + extra]
                      IN  [ok |-> rest.ok, filters |-> <<s.value>> \o rest.filters,
                           qoss |-> SubSeq(b, s.next, s.next + extra - 1) \o rest.qoss]
    IN  from[start]

MQTTDeserialize_subscribe(b) ==
    LET all == FiltersFrom(b, Body(b) + 2, 1)
    IN  IF TypeOf(b) # SUBSCRIBE THEN Failed(-1)
        ELSE IF ~all.ok THEN Failed(MQTTPacket_decode(b, 2).len)
        ELSE [rc |-> 1, dup |-> DupOf(b), id |-> IntAt(b, Body(b)),
              filters |-> all.filters, qoss |-> all.qoss]

MQTTDeserialize_unsubscribe(b) ==
    LET all == FiltersFrom(b, Body(b) + 2, 0)
    IN  IF TypeOf(b) # UNSUBSCRIBE THEN Failed(0)
        ELSE IF ~all.ok THEN Failed(MQTTPacket_decode(b, 2).len)
        ELSE [rc |-> 1, dup |-> DupOf(b), id |-> IntAt(b, Body(b)), filters |-> all.filters]

MQTTSerialize_suback(buflen, id, qoss) ==
    Serialized(buflen, 2 + Len(qoss), Packet(Header(SUBACK, 0, 0, 0), TwoBytes(id) \o qoss))

(* One more than maxcount is let in.                                       *)
MQTTDeserialize_suback(b, maxcount) ==
    LET qoss == SubSeq(b, Body(b) + 2, End(b))
    IN  IF TypeOf(b) # SUBACK THEN Failed(0)
        ELSE IF End(b) + 1 - Body(b) < 2 THEN Failed(MQTTPacket_decode(b, 2).len)
        ELSE IF Len(qoss) > maxcount + 1 THEN Failed(-1)
        ELSE [rc |-> 1, id |-> IntAt(b, Body(b)), qoss |-> qoss]

(* PINGREQ, PINGRESP and DISCONNECT have no body.                          *)
MQTTSerialize_zero(buflen, type) == Serialized(buflen, 2, Packet(Header(type, 0, 0, 0), <<>>))
=============================================================================
