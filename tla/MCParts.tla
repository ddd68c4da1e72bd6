------------------------------- MODULE MCParts -------------------------------
(***************************************************************************)
(* The loop of the agent and the parts of the library that share no state  *)
(* with it or with each other, checked side by side: part names the one    *)
(* that moves in a behaviour, and the others stay as they begin.  Each     *)
(* property is that of the part's own module, under the same name.         *)
(***************************************************************************)
EXTENDS SrAgent

CONSTANTS
    MaxText, MaxValue, MaxRecord,
    SomeBytes, MaxPlain,
    Quota, Quotas, MaxLines, MaxKills,
    Period, MaxClock, MaxBytes,
    MaxTransfers, MaxBody,
    StringLengths, PayloadLengths, ReaderLen, MaxSaid, MaxAgain,
    MaxTopic,
    MAX_MESSAGE_HANDLERS, Topics, MaxCommands, MaxBreaks, MaxIncoming

VARIABLES
    part,   \* the part that moves
    text, stop, delimit, lexing, record, pre, start, records, wrote,
    plain, code, decoded, coding,
    disk, out, quota, level, logging, lines, kills,
    clock, first, last, dlnow, resp, transfer, cancelling, silent, silence,
    began, cancelled,
    options, live, op, transfers, body, response, returned,
    settings, said, stream, trp, buf, again, got, broken,
    filter, name, matched, matching,
    isconnected, cleansession, packetid, inflightMsgid, ping_outstanding,
    messageHandlers, command, network, up, down, known, topicsOf, arrived,
    commands, breaks, incoming, reported

Lexer == INSTANCE SrLexer WITH end <- stop
Base64 == INSTANCE SrBase64 WITH MaxBytes <- MaxPlain
Logger == INSTANCE SrLogger
Http == INSTANCE SrNetHttp
BinHttp == INSTANCE SrNetBinHttp
Codec == INSTANCE SrMqttCodec
Topic == INSTANCE PahoTopic
Paho == INSTANCE PahoClient WITH Cpp <- TRUE

ASSUME PartsAssumption ==
    /\ Lexer!LexerAssumption /\ Base64!Base64Assumption /\ Logger!LoggerAssumption
    /\ Http!HttpAssumption /\ BinHttp!BinHttpAssumption
    /\ Codec!CodecAssumption /\ Topic!TopicAssumption /\ Paho!ClientAssumption

lexer == <<text, stop, delimit, lexing, record, pre, start, records, wrote>>
base64 == <<plain, code, decoded, coding>>
logger == <<disk, out, quota, level, logging, lines, kills>>
http == <<clock, first, last, dlnow, resp, transfer, cancelling, silent,
          silence, began, cancelled>>
bin == <<options, live, op, transfers, body, response, returned>>
codec == <<settings, said, stream, trp, buf, again, got, broken>>
topic == <<filter, name, matched, matching>>
paho == <<isconnected, cleansession, packetid, inflightMsgid, ping_outstanding,
          messageHandlers, command, network, up, down, known, topicsOf, arrived,
          commands, breaks, incoming, reported>>

library == <<lexer, base64, logger, http, bin, codec, topic, paho>>
allVars == <<part, vars, library>>

(* The agent has many initial states; the others begin with one of them.   *)
AllInit ==
    /\ part \in {"agent", "lexer", "base64", "logger", "http", "bin", "codec", "topic",
               "paho"}
    /\ Init /\ (part = "agent" \/ (c = Own /\ nsec = 0 /\ val = [t \in Timers |-> Max(Vals)]))
    /\ Lexer!Init /\ Base64!Init /\ Logger!Init /\ Http!Init
    /\ BinHttp!Init /\ Codec!Init /\ Topic!Init /\ Paho!Init

-----------------------------------------------------------------------------
AgentStep == part = "agent" /\ Next /\ UNCHANGED <<part, library>>
LexerStep ==
    /\ part = "lexer" /\ Lexer!Next
    /\ UNCHANGED <<part, vars, base64, logger, http, bin, codec, topic, paho>>
Base64Step ==
    /\ part = "base64" /\ Base64!Next
    /\ UNCHANGED <<part, vars, lexer, logger, http, bin, codec, topic, paho>>
LoggerStep ==
    /\ part = "logger" /\ Logger!Next
    /\ UNCHANGED <<part, vars, lexer, base64, http, bin, codec, topic, paho>>
HttpStep ==
    /\ part = "http" /\ Http!Next
    /\ UNCHANGED <<part, vars, lexer, base64, logger, bin, codec, topic, paho>>
BinHttpStep ==
    /\ part = "bin" /\ BinHttp!Next
    /\ UNCHANGED <<part, vars, lexer, base64, logger, http, codec, topic, paho>>
CodecStep ==
    /\ part = "codec" /\ Codec!Next
    /\ UNCHANGED <<part, vars, lexer, base64, logger, http, bin, topic, paho>>
TopicStep ==
    /\ part = "topic" /\ Topic!Next
    /\ UNCHANGED <<part, vars, lexer, base64, logger, http, bin, codec, paho>>
PahoStep ==
    /\ part = "paho" /\ Paho!Next
    /\ UNCHANGED <<part, vars, lexer, base64, logger, http, bin, codec, topic>>

AllNext ==
    \/ AgentStep \/ LexerStep \/ Base64Step \/ LoggerStep \/ HttpStep
    \/ BinHttpStep \/ CodecStep \/ TopicStep \/ PahoStep

AllSpec == AllInit /\ [][AllNext]_allVars

-----------------------------------------------------------------------------
(* Properties; the agent's are NeverLate, ReadsAsWritten and NeverEarly.   *)

(* smartrest.cc: what was written in records is read back from them, and   *)
(* the records lie one behind the other and leave nothing of the text.     *)
ReadsBack == part = "lexer" => Lexer!ReadsBack /\ Lexer!RecordsCoverTheText
(* srutils.cc: b64Decode() undoes b64Encode().                             *)
CodesAndBack == part = "base64" => Base64!CodesAndBack
(* srlogger.cc: the last lines are in one of the files.                    *)
LastLinesKept == part = "logger" => Logger!LastLinesKept
(* srnethttp.cc: a transfer ends some time after the last byte.            *)
SilenceEnds == part = "http" => Http!SilenceEnds
(* srnetbinhttp.cc: the handle's options are those of the transfer.        *)
OptionsAreTheTransfers == part = "bin" => BinHttp!OptionsAreTheTransfers
(* MQTTPacket: the packets read say what the packets written said, and a   *)
(* client's fit the buffers they are written to.                           *)
ReadAsSaid == part = "codec" => Codec!ReadAsSaid /\ Codec!FitsItsBuffer
(* pahomqtt: a handler gets the messages its filter is for.                *)
MatchesByLevels == part = "topic" => Topic!MatchesByLevels
(* MQTTClient.h: what publish() reports as sent has reached the server.    *)
PublishedHasArrived == part = "paho" => Paho!PublishedHasArrived
=============================================================================
