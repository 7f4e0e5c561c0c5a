------------------------------ MODULE TagTraffic ------------------------------
(***************************************************************************)
(* The tags of the store at work: a command from the message that carries  *)
(* it to the request on the modbus, found by its checksum and converted    *)
(* on the way, and the temperature of the CPU, read and published by the   *)
(* clock.  The threads interleave by whole callbacks and passes: what may  *)
(* happen inside them is the subject of WriteQueue.                        *)
(***************************************************************************)
EXTENDS Startup, TagValue

CONSTANTS
  Payloads,       \* the payloads considered, a subset of Payload
  MaxMessages,    \* how many messages the broker sends
  MaxClock        \* how long time is followed

ASSUME TrafficAssumption ==
  /\ Topics \subseteq Seq(Char)
  /\ \A c \in Configs : IsConfig(c)
  /\ Payloads \subseteq Payload
  /\ MaxTagNum \in Nat /\ MaxMessages \in Nat /\ MaxClock \in Nat

VARIABLES
  connected,      \* MQTT::_connected
  messages,       \* messages received so far
  tagSource,      \* tagSource[t]: who assigned the value of tagStore[t] last
  rawValue,       \* rawValue[e]: mbWriteTags[e]._rawValue
  writePending,   \* the entries of mbWriteTags with a write pending
  clock,          \* time(NULL)
  readAt,         \* when the temperature was read last
  nextReadTime, nextPublishTime,      \* of the tag of the CPU
  cpuTopic,       \* what was published under its topic last
  (* History, never read by the code: *)
  command,        \* command[e]: the topic and the value behind rawValue[e]
  line            \* the last request on the modbus, and the command behind it

trafficVars ==
  <<connected, messages, tagSource, rawValue, writePending, clock, readAt,
    nextReadTime, nextPublishTime, cpuTopic, command, line>>

vars == <<startVars, trafficVars>>

Never == MaxClock + 1

Nothing == << >>        \* no message, no request, no command

EmptyTopic == << >>     \* cpu_temp_topic, if there is no section cputemp

Stored  == DOMAIN tagStore
Entries == DOMAIN mbWriteTags

Cpu == ValueOf(cfg.cputemp)

(* The tag var_process takes for that of the CPU. *)
CpuTag ==
  GetTag(tagStore, IF Given(cfg.cputemp) THEN Cpu.topic ELSE EmptyTopic)

-----------------------------------------------------------------------------
Init ==
  /\ StartInit
  /\ connected = FALSE /\ messages = 0
  /\ tagSource = << >> /\ rawValue = << >> /\ writePending = {} /\ command = << >>
  /\ clock = 0 /\ readAt = 0 /\ nextReadTime = Never /\ nextPublishTime = Never
  /\ cpuTopic = Nothing /\ line = Nothing

FirstPublishAtOnce == clock      \* faulty: before there is a value
FirstPublish == clock + ValueOf(Cpu.publishinterval)

(* The schedule init_hwtags gives the tag of the CPU.  Without an interval *)
(* of publication the time of the next one holds what the memory held.     *)
Schedule ==
  IF Given(cfg.cputemp) /\ Given(Cpu.readinterval) /\ Given(Cpu.publishinterval)
  THEN /\ nextReadTime' = clock + ValueOf(Cpu.readinterval)
       /\ IF ValueOf(Cpu.publishinterval) > 0
          THEN nextPublishTime' = FirstPublish
          ELSE nextPublishTime' \in {0, Never}
  ELSE UNCHANGED <<nextReadTime, nextPublishTime>>

StartHwtags ==
  /\ InitHwtags
  /\ Schedule
  /\ UNCHANGED <<connected, messages, tagSource, rawValue, writePending, clock, readAt,
                 cpuTopic, command, line>>

StartTags ==
  /\ InitTags
  /\ tagSource' = [t \in DOMAIN tagStore' |-> "nobody"]
  /\ rawValue' = [e \in DOMAIN mbWriteTags' |-> 0]
  /\ command' = [e \in DOMAIN mbWriteTags' |-> Nothing]
  /\ UNCHANGED <<connected, messages, writePending, clock, readAt, nextReadTime,
                 nextPublishTime, cpuTopic, line>>

StartRest ==
  /\ MqttInit \/ NoDevice \/ ModbusFails \/ InitModbus
  /\ UNCHANGED trafficVars

-----------------------------------------------------------------------------
(* The mosquitto thread *)

Listening == pc \in {"modbus"} \cup LoopPc

LinkChange ==
  /\ Listening
  /\ connected' = ~connected
  /\ UNCHANGED <<startVars, messages, tagSource, rawValue, writePending, clock, readAt,
                 nextReadTime, nextPublishTime, cpuTopic, command, line>>

(* Every tag is subscribed that is not published (mqtt_subscribe_tags). *)
Subscriptions == {tagStore[t].topic : t \in {u \in Stored : ~tagStore[u].publish}}

(* mb_write_request for entry e: the command n came under a topic. *)
WriteRequest(e, n, topic) ==
  /\ rawValue' = [rawValue EXCEPT ![e] = RawValue(mbWriteTags[e].datatype, n)]
  /\ writePending' = writePending \cup {e}
  /\ command' = [command EXCEPT ![e] = [topic |-> topic, value |-> n]]

NoWriteRequest == UNCHANGED <<rawValue, writePending, command>>

(* The rest of mqtt_topic_update once Tag::setValue has its number. *)
SetTagValue(t, source, n, topic, retained) ==
  LET e == tagStore[t].entry
  IN  /\ tagSource' = [tagSource EXCEPT ![t] = source]
      /\ IF e = NoEntry \/ (retained /\ mbWriteTags[e].ignoreRetained)
         THEN NoWriteRequest
         ELSE WriteRequest(e, n, topic)

(* mqtt_topic_update.  A payload that does not convert changes nothing.    *)
Message(topic, payload, retained) ==
  /\ Listening /\ connected
  /\ messages < MaxMessages
  /\ messages' = messages + 1
  /\ IF Converts(payload)
     THEN \E n \in IntValues(payload) :
            SetTagValue(GetTag(tagStore, topic), "broker", n, topic, retained)
     ELSE UNCHANGED tagSource /\ NoWriteRequest
  /\ UNCHANGED <<startVars, connected, clock, readAt, nextReadTime, nextPublishTime,
                 cpuTopic, line>>

Mosquitto ==
  \/ LinkChange
  \/ \E topic \in Subscriptions, payload \in Payloads, retained \in BOOLEAN :
       Message(topic, payload, retained)

-----------------------------------------------------------------------------
(* The main thread *)

(* The entries before the first without a valid slave id. *)
InScan(e) == \A u \in 1 .. e : mbWriteTags[u].slave \in 1 .. SlaveEnd - 1

Request(e) ==
  LET t == mbWriteTags[e]
  IN  [slave |-> t.slave, fc |-> FunctionCode(t.datatype),
       place |-> ModbusAddress(t.address), value |-> LineValue(t.datatype, rawValue[e]),
       entry |-> e, command |-> command[e]]

(* One pass of modbus_write_process: some writes are given up, and at most *)
(* one is done.                                                            *)
WritePass ==
  \E ended \in SUBSET {e \in writePending : InScan(e)} :
    /\ writePending' = writePending \ ended
    /\ \/ UNCHANGED line
       \/ \E e \in ended :
            /\ RegisterType(mbWriteTags[e].address) >= 0
            /\ line' = Request(e)

(* The modbus half of process(): what it uses without asking may be        *)
(* missing.                                                                *)
ProcessModbus ==
  /\ pc = "loop"
  /\ IF ~connected
     THEN pc' = "var" /\ UNCHANGED <<writePending, line>>
     ELSE IF updateCycles = Missing \/ mbWriteTags = Missing
     THEN pc' = "crashed" /\ UNCHANGED <<writePending, line>>
     ELSE pc' = "var" /\ WritePass
  /\ UNCHANGED <<cfg, tagStore, mbWriteTags, mbReadTags, updateCycles, connected, messages,
                 tagSource, rawValue, clock, readAt, nextReadTime, nextPublishTime,
                 cpuTopic, command>>

CpuTemp == 45      \* any reading

(* The times of a tag that is not meant for it were never set.             *)
Due(time) == IF Given(cfg.cputemp) THEN {time <= clock} ELSE BOOLEAN

ReadCpu ==
  /\ \E retained \in BOOLEAN : SetTagValue(CpuTag, "cpu", CpuTemp, EmptyTopic, retained)
  /\ readAt' = clock
  /\ nextReadTime' = IF Given(cfg.cputemp) THEN clock + ValueOf(Cpu.readinterval) ELSE nextReadTime

NextPublish ==
  IF Given(cfg.cputemp) THEN clock + ValueOf(Cpu.publishinterval) ELSE nextPublishTime

(* A publication that is due while the broker is away is passed over.      *)
PublishCpu ==
  /\ cpuTopic' = IF connected THEN [source |-> tagSource'[CpuTag], age |-> clock - readAt']
                 ELSE cpuTopic
  /\ nextPublishTime' = NextPublish

VarProcess ==
  /\ pc = "var" /\ pc' = "loop"
  /\ IF CpuTag = NoTag
     THEN UNCHANGED <<tagSource, rawValue, writePending, command, readAt, nextReadTime,
                      nextPublishTime, cpuTopic>>
     ELSE /\ \E due \in Due(nextReadTime) :
               IF due THEN ReadCpu
               ELSE UNCHANGED <<tagSource, rawValue, writePending, command, readAt, nextReadTime>>
          /\ \E due \in Due(nextPublishTime) :
               IF due THEN PublishCpu ELSE UNCHANGED <<nextPublishTime, cpuTopic>>
  /\ UNCHANGED <<cfg, tagStore, mbWriteTags, mbReadTags, updateCycles, connected, messages,
                 clock, line>>

Main == StartHwtags \/ StartTags \/ StartRest \/ ProcessModbus \/ VarProcess

Tick ==
  /\ clock < MaxClock /\ pc \notin EndPc
  /\ clock' = clock + 1
  /\ UNCHANGED <<startVars, connected, messages, tagSource, rawValue, writePending, readAt,
                 nextReadTime, nextPublishTime, cpuTopic, command, line>>

Next == Main \/ Mosquitto \/ Tick

Spec == Init /\ [][Next]_vars

-----------------------------------------------------------------------------
(* Properties *)

TypeOK ==
  /\ pc \in StartPc \cup LoopPc \cup EndPc
  /\ DOMAIN tagSource \subseteq Stored
  /\ DOMAIN rawValue = Entries /\ DOMAIN command = Entries
  /\ writePending \subseteq Entries
  /\ \A e \in Entries : rawValue[e] \in 0 .. Word - 1
  /\ clock \in 0 .. MaxClock /\ readAt \in 0 .. clock

(* No two topics share a checksum, nor, without a section cputemp, one     *)
(* with the empty topic var_process then looks for.                        *)
ToldApart ==
  /\ \A t, u \in Stored : tagStore[t].crc = tagStore[u].crc => t = u
  /\ Given(cfg.cputemp) \/ \A t \in Stored : tagStore[t].crc # TopicCrc[EmptyTopic]

(* A topic that is looked up is never taken for another one that differs   *)
(* from it in a character or two next to each other, as numbered topics    *)
(* do: the store compares checksums only (datatag.cpp:40-90, 269-283).     *)
NeighboursToldApart ==
  \A topic \in Topics : LET t == GetTag(tagStore, topic) IN
    t # NoTag /\ Neighbours(tagStore[t].topic, topic) => tagStore[t].topic = topic

(* A command is written for the entry its topic is listed in, and nothing  *)
(* else is ever taken for a command, as long as the topics are told apart: *)
(* the lookup compares checksums only (datatag.cpp:277), and the index it  *)
(* leads to was fixed while entries without topics were passed over.       *)
CommandReachesItsEntry ==
  ToldApart => \A e \in Entries :
    command[e] # Nothing => ValueOf(cfg.mqtt_tags)[e].topic = {command[e].topic}

(* The type of an entry fits the register it names. *)
WellTyped(e) ==
  RegisterType(mbWriteTags[e].address) =
    IF mbWriteTags[e].datatype = "r" THEN HoldingRegister ELSE Coil

(* A request writes the register the file names, of the slave it names,    *)
(* with the value that was commanded -- if the slave id fits its byte, the *)
(* type the register, and the value the 16 bits it is cut to.              *)
RequestMeansCommand ==
  line # Nothing => LET e == ValueOf(cfg.mqtt_tags)[line.entry]
                        v == line.command.value
    IN  /\ Or(e.slaveid, 0) \in 0 .. SlaveEnd => line.slave = Or(e.slaveid, 0)
        /\ WellTyped(line.entry) /\ Or(e.address, 0) \in 0 .. MaxAddress =>
             Written(line.fc, line.place) = Or(e.address, 0)
        /\ v \in 0 .. Word - 1 =>
             line.value = IF line.fc = 6 THEN v ELSE IF v # 0 THEN 1 ELSE 0

(* A temperature that is published was read from the CPU, no longer ago    *)
(* than the interval of reading, if the interval of publication is not the *)
(* shorter one: whatever breaks of the connection and delays of the loop   *)
(* do to the two schedules (mbbridge.cpp:244-257).                         *)
CpuFresh ==
  cpuTopic # Nothing /\ ToldApart /\ Given(cfg.cputemp) =>
    LET read    == ValueOf(Cpu.readinterval)
        publish == ValueOf(Cpu.publishinterval)
    IN  publish > 0 /\ publish >= read =>
          cpuTopic.source = "cpu" /\ (cpuTopic.age < read \/ cpuTopic.age = 0)
=============================================================================
