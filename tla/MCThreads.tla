------------------------------ MODULE MCThreads ------------------------------
(***************************************************************************)
(* The parts with a fairness of their own, checked side by side: the       *)
(* watchdog and its program, the start of a device, the thread that        *)
(* fetches the operations, and the reporter's thread over MQTT.  They      *)
(* share no state; part names the one that moves in a behaviour, and the   *)
(* others stay as they begin.  The properties are those of the parts' own  *)
(* modules, under the same names.                                          *)
(***************************************************************************)
EXTENDS SrWatchdog, Sequences

CONSTANTS
    MaxRequests, MaxFaults,
    Xids, Orders, MaxOps, MaxCalls, MaxFailures,
    KeepAlive, LateAnswers, BreakInside, Retries, MaxNews, MaxBreaks

VARIABLES
    part,   \* the part that moves
    file, stage, cred, requests, xid, id, agent, answers, template, identity,
    objects, faults,
    bayeuxState, xids, bnum, canceled, label, post, text, seen, calls, asleep,
    topics, made, acked, received, garbled, failures,
    link, subscribed, toBroker, wire, resp, i, t0, at, back, try, news, pub,
    reached, ops, handed, lost, breaks

Startup == INSTANCE SrStartup
Push == INSTANCE SrDevicePush WITH pc <- label
Mqtt == INSTANCE SrNetMqtt WITH pc <- at, received <- reached

ASSUME ThreadsAssumption ==
    Startup!StartupAssumption /\ Push!PushAssumption /\ Mqtt!MqttAssumption

startup == <<file, stage, cred, requests, xid, id, agent, answers, template,
             identity, objects, faults>>
push == <<bayeuxState, xids, bnum, canceled, label, post, text, seen, calls,
          asleep, topics, made, acked, received, garbled, failures>>
mqtt == <<link, subscribed, toBroker, wire, resp, i, t0, at, back, try, news,
          pub, reached, ops, handed, lost, breaks>>
allVars == <<part, vars, startup, push, mqtt>>

AllInit ==
    /\ part \in {"watchdog", "startup", "push", "mqtt"}
    /\ Init /\ Startup!Init /\ Push!Init /\ Mqtt!Init
    /\ part = "mqtt" \/ t0 = "never"

WatchdogStep == part = "watchdog" /\ Next /\ UNCHANGED <<part, startup, push, mqtt>>
StartupStep == part = "startup" /\ Startup!Next /\ UNCHANGED <<part, vars, push, mqtt>>
PushStep == part = "push" /\ Push!Next /\ UNCHANGED <<part, vars, startup, mqtt>>
MqttStep == part = "mqtt" /\ Mqtt!Next /\ UNCHANGED <<part, vars, startup, push>>

(* The fairness of a part is asked for in the behaviours in which it moves. *)
Fair(p, A) == part = p /\ A

Fairness ==
    /\ WF_vars(Fair("watchdog", Daemon)) /\ WF_vars(Fair("watchdog", Tick))
    /\ WF_vars(Fair("watchdog", Kick))
    /\ WF_startup(Fair("startup", Startup!Goes))
    /\ WF_push(Fair("push", Push!Serve)) /\ WF_push(Fair("push", Push!Dispatch))
    /\ WF_push(Fair("push", Push!Post)) /\ WF_push(Fair("push", Push!Put))
    /\ WF_push(Fair("push", Push!Handshaken))
    /\ WF_push(Fair("push", Push!Subscribed))
    /\ WF_push(Fair("push", made > acked /\ Push!Connected))
    /\ WF_push(Fair("push", Push!Abort)) /\ WF_push(Fair("push", Push!CancelPost))
    /\ WF_mqtt(Fair("mqtt", Mqtt!Client)) /\ WF_mqtt(Fair("mqtt", Mqtt!Expire))
    /\ WF_mqtt(Fair("mqtt", Mqtt!Serve)) /\ SF_mqtt(Fair("mqtt", Mqtt!ConnectOk))

AllNext == WatchdogStep \/ StartupStep \/ PushStep \/ MqttStep

AllSpec == AllInit /\ [][AllNext]_allVars /\ Fairness

-----------------------------------------------------------------------------
(* Properties.                                                             *)

(* srwatchdogd.cc: a crash is followed by a restart, an exit is not.       *)
EndsAsItShould == CrashIsRestarted /\ ExitIsFinal
(* srbootstrap.cc, integrate.cc: an agent that is up has the ids of its    *)
(* own device, and its tenant, user and password come from one answer of   *)
(* the server, kills and failing writes or not.                            *)
UpAsRegistered == Startup!UpAsRegistered /\ Startup!CredentialsOfOneAnswer
(* integrate.cc: a device is not registered anew.                          *)
RegisteredOnce == Startup!RegisteredOnce
(* srbootstrap.cc, integrate.cc: a device comes up.                        *)
ComesUp == <>[](part = "startup" => stage = "up")
(* srdevicepush.cc: a connect follows a subscription, the operations it    *)
(* acknowledges are in the ingress queue, and what is put there is whole.  *)
ConnectsInOrder == Push!AckedWasQueued /\ Push!ConnectsSubscribed /\ Push!BatchesAreWhole
(* srdevicepush.cc: every operation arrives while the push is awake.       *)
OpsArrive == Push!OpsArrive
(* srnetmqtt.cc: the handler gets every message of the broker that did not *)
(* go down with its connection, once and in order.                         *)
HandedAsPublished == Mqtt!HandedAsPublished
(* srnetmqtt.cc: no message stays in the buffer.                           *)
Delivered == Mqtt!Delivered
(* srnetmqtt.cc, srreporter.cc: a client comes back to its subscription.   *)
Resubscribed == Mqtt!Resubscribed
=============================================================================
