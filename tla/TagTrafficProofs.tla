-------------------------- MODULE TagTrafficProofs --------------------------
(* The tags at work, for any configuration files, payloads and times: what *)
(* TagTraffic and Startup state.                                           *)
EXTENDS TagTraffic, Crc16Proofs, FiniteSetTheorems

(* The place GetTag returns is one with the checksum of the topic. *)
LEMMA MinIsLeast ==
  ASSUME NEW S \in SUBSET Nat, S # {}
  PROVE  Min(S) \in S /\ \A x \in S : Min(S) <= x
BY FirstOf DEF Min

-----------------------------------------------------------------------------
(* The inductive invariant, by subject *)

List == ValueOf(cfg.mqtt_tags)

(* The store holds the tag of the CPU and those of the entries with a      *)
(* topic.                                                                  *)
StoreInv ==
  /\ cfg \in Configs
  /\ pc = "hwtags" => Stored = {}
  /\ pc \in {"hwtags", "tags"} => Stored \subseteq {CpuPlace}
  /\ pc # "hwtags" /\ Given(cfg.cputemp) => CpuPlace \in Stored
  /\ pc \in {"tags", "mqtt", "modbus"} \cup LoopPc /\ Given(cfg.cputemp) =>
       Given(Cpu.readinterval) /\ Given(Cpu.publishinterval)
  /\ CpuPlace \in Stored => Given(cfg.cputemp) /\ tagStore[CpuPlace] = HwTag(Cpu)
  /\ \A t \in Stored \ {CpuPlace} :
       /\ Given(cfg.mqtt_tags) /\ mbWriteTags # Missing
       /\ t \in WithTopic(List) /\ tagStore[t] = SubscribedTags(List)[t]

(* The arrays are those of the file, and there when they are needed. *)
ArrayInv ==
  /\ mbWriteTags # Missing => Given(cfg.mqtt_tags) /\ mbWriteTags = WriteArray(List)
  /\ pc \in {"hwtags", "tags"} => mbWriteTags = Missing /\ line = Nothing
  /\ pc \in {"mqtt", "modbus"} \cup LoopPc /\ Given(cfg.mqtt_tags) => mbWriteTags # Missing
  /\ pc \in LoopPc /\ cfg.device => updateCycles # Missing

(* What is pending is a command for an entry with a topic. *)
PendingInv ==
  \A e \in writePending :
    /\ e \in WithTopic(List)
    /\ command[e].value \in Int
    /\ rawValue[e] = RawValue(mbWriteTags[e].datatype, command[e].value)

(* The temperature is published for the first time after it was read, and  *)
(* from then on it is read in time.                                        *)
Publishing ==
  /\ Given(cfg.cputemp) /\ Given(Cpu.readinterval) /\ Given(Cpu.publishinterval)
  /\ ValueOf(Cpu.publishinterval) > 0
  /\ ValueOf(Cpu.publishinterval) >= ValueOf(Cpu.readinterval)

ScheduleInv ==
  /\ nextReadTime \in Int /\ nextPublishTime \in Int
  /\ pc \in {"hwtags", "tags"} => cpuTopic = Nothing
  /\ pc \in {"mqtt", "modbus"} \cup LoopPc => DOMAIN tagSource = Stored
  /\ pc = "tags" /\ Publishing => nextReadTime <= nextPublishTime
  /\ pc \in {"mqtt", "modbus"} \cup LoopPc /\ Publishing /\ ToldApart =>
       \/ tagSource[CpuPlace] = "nobody" /\ nextReadTime <= nextPublishTime
       \/ /\ tagSource[CpuPlace] = "cpu"
          /\ nextReadTime = readAt + ValueOf(Cpu.readinterval)

TrafficInv ==
  /\ TypeOK /\ StoreInv /\ ArrayInv /\ PendingInv /\ ScheduleInv
  /\ CompleteNeverCrashes /\ CommandReachesItsEntry /\ RequestMeansCommand /\ CpuFresh

-----------------------------------------------------------------------------
(* Settings, arrays and the store *)

LEMMA ValueIn ==
  ASSUME NEW x, Given(x)
  PROVE  ValueOf(x) \in x
BY DEF Given, ValueOf

LEMMA ListTyped ==
  ASSUME cfg \in Configs, Given(cfg.mqtt_tags)
  PROVE  /\ List \in Seq(TagEntry)
         /\ \A i \in DOMAIN List : IsSetting(List[i].topic, Topics)
<1>1. IsConfig(cfg)
  BY TrafficAssumption
<1>2. List \in cfg.mqtt_tags
  BY ValueIn DEF List
<1> QED
  BY <1>1, <1>2 DEF IsConfig, IsSetting

LEMMA CpuTyped ==
  ASSUME cfg \in Configs, Given(cfg.cputemp)
  PROVE  /\ Given(Cpu.readinterval) => ValueOf(Cpu.readinterval) \in Int
         /\ Given(Cpu.publishinterval) => ValueOf(Cpu.publishinterval) \in Int
<1>1. IsConfig(cfg)
  BY TrafficAssumption
<1>2. Cpu \in CpuSection
  BY <1>1, ValueIn DEF Cpu, IsConfig, IsSetting
<1>3. Cpu.readinterval \in SUBSET Int /\ Cpu.publishinterval \in SUBSET Int
  BY <1>2 DEF CpuSection
<1> QED
  BY <1>3, ValueIn

(* The entries of mbWriteTags are those of the list, and the end mark.     *)
LEMMA WriteArrayForm ==
  ASSUME NEW list \in Seq(TagEntry)
  PROVE  /\ DOMAIN list = 1 .. Len(list) /\ Len(list) \in Nat
         /\ DOMAIN WriteArray(list) = 1 .. Len(list) + 1
         /\ \A e \in DOMAIN list : WriteArray(list)[e] = WriteTag(list[e])
         /\ WriteArray(list) # << >>
<1> DEFINE tags == [i \in DOMAIN list |-> WriteTag(list[i])]
           last == [slave |-> SlaveEnd, address |-> 0, datatype |-> "r",
                    ignoreRetained |-> FALSE]
<1>1. DOMAIN list = 1 .. Len(list) /\ Len(list) \in Nat
  OBVIOUS
<1>2. tags \in Seq({WriteTag(list[i]) : i \in DOMAIN list} \cup {last}) /\ Len(tags) = Len(list)
  BY <1>1
<1>3. WriteArray(list) = tags \o << last >>
  BY DEF WriteArray
<1>4. << last >> \in Seq({WriteTag(list[i]) : i \in DOMAIN list} \cup {last})
  OBVIOUS
<1> HIDE DEF last
<1>5. /\ DOMAIN (tags \o << last >>) = 1 .. Len(list) + 1
      /\ \A e \in DOMAIN list : (tags \o << last >>)[e] = tags[e]
      /\ Len(tags \o << last >>) = Len(list) + 1
  BY <1>1, <1>2, <1>4
<1>6. tags \o << last >> # << >>
  BY <1>1, <1>5
<1> QED
  BY <1>1, <1>3, <1>5, <1>6

(* The cycles, by their places. *)
LEMMA CycleArrayForm ==
  ASSUME NEW cycles \in Seq(CycleEntry)
  PROVE  CycleArray(cycles) # << >> /\ DOMAIN CycleArray(cycles) \subseteq Nat \ {0}
<1> DEFINE entry(i) == [ident |-> ValueOf(cycles[i].id), interval |-> ValueOf(cycles[i].interval)]
           last == [ident |-> -1, interval |-> -1]
           array == [i \in DOMAIN cycles |-> entry(i)]
<1>1. CycleArray(cycles) = array \o << last >>
  BY DEF CycleArray
<1> HIDE DEF entry, last
<1>2. array \in Seq({entry(i) : i \in DOMAIN cycles} \cup {last}) /\ Len(array) \in Nat
  OBVIOUS
<1>3. << last >> \in Seq({entry(i) : i \in DOMAIN cycles} \cup {last}) /\ Len(<< last >>) = 1
  OBVIOUS
<1> HIDE DEF array
<1>4. Len(array \o << last >>) = Len(array) + 1 /\ DOMAIN (array \o << last >>) \subseteq Nat \ {0}
  BY <1>2, <1>3
<1> QED
  BY <1>1, <1>2, <1>4

(* An entry that has a tag is one of mbWriteTags.                          *)
LEMMA StoredEntry ==
  ASSUME StoreInv, ArrayInv, NEW t \in Stored
  PROVE  /\ t \in Nat
         /\ tagStore[t].crc = TopicCrc[tagStore[t].topic]
         /\ t = CpuPlace => tagStore[t].entry = NoEntry
         /\ t # CpuPlace =>
              /\ tagStore[t].entry = t /\ t # NoEntry
              /\ t \in WithTopic(List) /\ t \in Entries
              /\ tagStore[t].topic = ValueOf(List[t].topic)
              /\ mbWriteTags[t] = WriteTag(List[t])
<1>1. CASE t = CpuPlace
  BY <1>1 DEF StoreInv, HwTag, NewTag, CpuPlace
<1>2. CASE t # CpuPlace
  <2>1. /\ Given(cfg.mqtt_tags) /\ mbWriteTags = WriteArray(List) /\ cfg \in Configs
        /\ t \in WithTopic(List) /\ tagStore[t] = SubscribedTags(List)[t]
    BY <1>2 DEF StoreInv, ArrayInv
  <2>2. t \in DOMAIN List
    BY <2>1 DEF WithTopic
  <2>3. t \in 1 .. Len(List) /\ t \in Entries /\ mbWriteTags[t] = WriteTag(List[t])
    BY <2>1, <2>2, ListTyped, WriteArrayForm DEF Entries
  <2>4. /\ tagStore[t].entry = t /\ tagStore[t].topic = ValueOf(List[t].topic)
        /\ tagStore[t].crc = TopicCrc[ValueOf(List[t].topic)]
    BY <2>1 DEF SubscribedTags, NewTag
  <2> QED
    BY <1>2, <2>1, <2>3, <2>4 DEF CpuPlace, NoEntry
<1> QED
  BY <1>1, <1>2

(* What a lookup finds, is the first tag with the checksum.                *)
LEMMA Found ==
  ASSUME StoreInv, ArrayInv, NEW topic
  PROVE  LET t == GetTag(tagStore, topic)
         IN  \/ t = NoTag /\ \A u \in Stored : tagStore[u].crc # TopicCrc[topic]
             \/ /\ t \in Stored /\ tagStore[t].crc = TopicCrc[topic]
                /\ \A u \in Stored : tagStore[u].crc = TopicCrc[topic] => t <= u
<1> DEFINE places == {t \in DOMAIN tagStore : tagStore[t].crc = TopicCrc[topic]}
<1>1. places \in SUBSET Nat
  BY StoredEntry DEF Stored
<1>2. GetTag(tagStore, topic) = IF places = {} THEN NoTag ELSE Min(places)
  BY DEF GetTag
<1>3. CASE places = {}
  BY <1>2, <1>3 DEF Stored
<1>4. CASE places # {}
  <2>1. Min(places) \in places /\ \A u \in places : Min(places) <= u
    BY <1>1, <1>4, MinIsLeast
  <2> QED
    BY <1>2, <1>4, <2>1 DEF Stored
<1> QED
  BY <1>3, <1>4

(* The tag of the CPU, if the file has one, is found as such; and with     *)
(* topics told apart nothing else is.                                      *)
LEMMA CpuFound ==
  ASSUME StoreInv, ArrayInv, pc # "hwtags"
  PROVE  /\ CpuTag # NoTag => CpuTag \in Stored
         /\ Given(cfg.cputemp) => CpuTag = CpuPlace
         /\ ToldApart /\ ~Given(cfg.cputemp) => CpuTag = NoTag
<1>1. CASE Given(cfg.cputemp)
  <2>1. CpuPlace \in Stored /\ tagStore[CpuPlace].crc = TopicCrc[Cpu.topic]
    BY <1>1 DEF StoreInv, HwTag, NewTag
  <2>2. CpuTag = GetTag(tagStore, Cpu.topic)
    BY <1>1 DEF CpuTag
  <2>3. CpuTag \in Stored /\ CpuTag <= CpuPlace
    BY <2>1, <2>2, Found
  <2>4. CpuTag \in Nat
    BY <2>3, StoredEntry
  <2> QED
    BY <1>1, <2>3, <2>4 DEF CpuPlace
<1>2. CASE ~Given(cfg.cputemp)
  <2>1. CpuTag = GetTag(tagStore, EmptyTopic)
    BY <1>2 DEF CpuTag
  <2> QED
    BY <1>2, <2>1, Found DEF ToldApart
<1> QED
  BY <1>1, <1>2

(* A subscribed topic is looked up with success, and told apart from the   *)
(* others it leads to its own tag, which is not that of a CPU that is      *)
(* published.                                                              *)
LEMMA TopicFound ==
  ASSUME StoreInv, ArrayInv, NEW topic \in Subscriptions
  PROVE  LET t == GetTag(tagStore, topic)
         IN  /\ t \in Stored
             /\ ToldApart => tagStore[t].topic = topic /\ ~tagStore[t].publish
<1>1. PICK u \in Stored : ~tagStore[u].publish /\ tagStore[u].topic = topic
  BY DEF Subscriptions
<1>2. tagStore[u].crc = TopicCrc[topic]
  BY <1>1, StoredEntry
<1> QED
  BY <1>1, <1>2, Found DEF ToldApart

(* Neighbouring topics have different checksums, and with them different   *)
(* tags.                                                                   *)
LEMMA NeighboursFound == StoreInv /\ ArrayInv => NeighboursToldApart
<1> SUFFICES ASSUME StoreInv, ArrayInv, NEW topic \in Topics,
                    GetTag(tagStore, topic) # NoTag,
                    Neighbours(tagStore[GetTag(tagStore, topic)].topic, topic)
             PROVE  tagStore[GetTag(tagStore, topic)].topic = topic
  BY DEF NeighboursToldApart
<1> DEFINE t == GetTag(tagStore, topic)
<1>1. t \in Stored /\ tagStore[t].crc = TopicCrc[topic]
  BY Found
<1> HIDE DEF t
<1>2. tagStore[t].topic \in Topics /\ tagStore[t].crc = TopicCrc[tagStore[t].topic]
  <2>1. CASE t = CpuPlace
    <3>1. Given(cfg.cputemp) /\ tagStore[t].topic = Cpu.topic
      BY <1>1, <2>1 DEF StoreInv, HwTag, NewTag
    <3>2. IsConfig(cfg)
      BY TrafficAssumption DEF StoreInv
    <3>3. Cpu \in CpuSection
      BY <3>1, <3>2, ValueIn DEF Cpu, IsConfig, IsSetting
    <3>4. Cpu.topic \in Topics
      BY <3>3 DEF CpuSection
    <3> QED
      BY <1>1, <3>1, <3>4, StoredEntry
  <2>2. CASE t # CpuPlace
    <3>1. /\ t \in WithTopic(List) /\ tagStore[t].topic = ValueOf(List[t].topic)
          /\ Given(cfg.mqtt_tags) /\ cfg \in Configs
      BY <1>1, <2>2, StoredEntry DEF StoreInv
    <3>2. Given(List[t].topic) /\ IsSetting(List[t].topic, Topics)
      BY <3>1, ListTyped DEF WithTopic
    <3> QED
      BY <1>1, <3>1, <3>2, StoredEntry, ValueIn DEF IsSetting
  <2> QED
    BY <2>1, <2>2
<1>3. Crc(tagStore[t].topic) = Crc(topic)
  BY <1>1, <1>2 DEF TopicCrc
<1>4. tagStore[t].topic \in Seq(Char) /\ topic \in Seq(Char)
  BY <1>2, TrafficAssumption
<1> QED
  BY <1>3, <1>4, NeighboursDiffer DEF t

-----------------------------------------------------------------------------
(* Values *)

LEMMA RawTyped ==
  ASSUME NEW d, NEW n \in Int
  PROVE  RawValue(d, n) \in 0 .. Word - 1
BY DEF RawValue, Truncated, Word

LEMMA IntBounds == IntMin \in Int /\ IntMax \in Int
BY SMT DEF IntMin, IntMax

LEMMA IntTyped ==
  ASSUME NEW p \in Payloads, NEW n \in IntValues(p)
  PROVE  n \in Int
<1>1. p \in Payload
  BY TrafficAssumption
<1>2. p.whole \in Int
  BY <1>1, IntBounds DEF Payload
<1> QED
  BY <1>2, IntBounds DEF IntValues

(* A value reaches the line as it was commanded, but for the 16 bits, and  *)
(* the place and function code name the register of the file.              *)
LEMMA WordKept ==
  ASSUME NEW v \in 0 .. Word - 1
  PROVE  v % Word = v
<1>1. v \in Nat /\ v < 65536
  BY DEF Word
<1>2. v % 65536 = v
  BY <1>1, SMT
<1> QED
  BY <1>2 DEF Word

LEMMA LineMeans ==
  ASSUME NEW d, NEW v \in 0 .. Word - 1
  PROVE  LineValue(d, RawValue(d, v)) =
           IF FunctionCode(d) = 6 THEN v ELSE IF v # 0 THEN 1 ELSE 0
<1>1. Truncated(v) = v
  BY WordKept DEF Truncated
<1>2. CASE d = "r"
  BY <1>1, <1>2 DEF LineValue, RawValue, FunctionCode
<1>3. CASE d # "r"
  <2>1. v \in Nat
    BY DEF Word
  <2>2. CASE v = 0
    BY <1>1, <1>3, <2>2 DEF LineValue, RawValue, FunctionCode
  <2>3. CASE v > 0
    BY <1>1, <1>3, <2>3 DEF LineValue, RawValue, FunctionCode
  <2> QED
    BY <2>1, <2>2, <2>3
<1> QED
  BY <1>2, <1>3

(* The register map: the place and the function code of a type give back   *)
(* every address that can be written (modbustag.cpp:107-128).              *)
THEOREM MapInverted ==
  ASSUME NEW a \in Nat
  PROVE  /\ RegisterType(a) = HoldingRegister => Written(6, ModbusAddress(a)) = a
         /\ RegisterType(a) = Coil => Written(5, ModbusAddress(a)) = a
BY SMT DEF ModbusAddress, Written, HoldingRegister, Coil

(* The type of a register says which ten thousand it belongs to. *)
LEMMA TypeOfAddress ==
  ASSUME NEW a \in Nat, RegisterType(a) # -1
  PROVE  \E k \in {0, 1, 3, 4} :
           RegisterType(a) = k /\ 10000 * k <= a /\ a <= 10000 * k + 9999
BY SMT DEF RegisterType, Coil, DiscreteInput, InputRegister, HoldingRegister

(* No two registers of one kind share a place on the modbus, and a place   *)
(* is one of ten thousand (modbustag.cpp:107-128).                         *)
THEOREM MapInjective ==
  ASSUME NEW a \in Nat, NEW b \in Nat,
         RegisterType(a) = RegisterType(b), RegisterType(a) # -1
  PROVE  /\ ModbusAddress(a) = ModbusAddress(b) => a = b
         /\ 0 <= ModbusAddress(a) /\ ModbusAddress(a) <= 9999
<1>1. PICK k \in {0, 1, 3, 4} :
        RegisterType(a) = k /\ 10000 * k <= a /\ a <= 10000 * k + 9999
  BY TypeOfAddress
<1>2. ModbusAddress(a) = a - 10000 * k /\ ModbusAddress(b) = b - 10000 * k
  BY <1>1 DEF ModbusAddress
<1> QED
  BY <1>1, <1>2, SMT

-----------------------------------------------------------------------------
(* Steps.  An assignment to a tag makes a command for its entry, or none.  *)

LEMMA ValueSet ==
  ASSUME TrafficInv, NEW t \in Stored, NEW n \in Int, NEW source, NEW topic,
         NEW retained \in BOOLEAN, SetTagValue(t, source, n, topic, retained),
         UNCHANGED <<cfg, tagStore, mbWriteTags>>
  PROVE  /\ tagSource' = [tagSource EXCEPT ![t] = source]
         /\ DOMAIN rawValue' = Entries /\ DOMAIN command' = Entries
         /\ writePending' \subseteq Entries
         /\ \A e \in Entries : rawValue'[e] \in 0 .. Word - 1
         /\ PendingInv'
         /\ \A e \in Entries :
              \/ command'[e] = command[e]
              \/ /\ e = t /\ t # CpuPlace
                 /\ command'[e] = [topic |-> topic, value |-> n]
<1> DEFINE e == tagStore[t].entry
<1>1. tagSource' = [tagSource EXCEPT ![t] = source]
  BY DEF SetTagValue
<1>2. /\ DOMAIN rawValue = Entries /\ DOMAIN command = Entries
      /\ writePending \subseteq Entries
      /\ \A x \in Entries : rawValue[x] \in 0 .. Word - 1
      /\ StoreInv /\ ArrayInv /\ PendingInv
  BY DEF TrafficInv, TypeOK
<1>3. List' = List
  BY DEF List
<1>4. CASE NoWriteRequest
  <2>1. PendingInv'
    BY <1>2, <1>3, <1>4 DEF PendingInv, NoWriteRequest
  <2> QED
    BY <1>1, <1>2, <1>4, <2>1 DEF NoWriteRequest
<1>5. CASE e # NoEntry /\ WriteRequest(e, n, topic)
  <2>1. /\ t # CpuPlace /\ e = t /\ e \in Entries /\ e \in WithTopic(List)
    BY <1>2, <1>5, StoredEntry
  <2>2. /\ rawValue' = [rawValue EXCEPT ![e] = RawValue(mbWriteTags[e].datatype, n)]
        /\ writePending' = writePending \cup {e}
        /\ command' = [command EXCEPT ![e] = [topic |-> topic, value |-> n]]
    BY <1>5 DEF WriteRequest
  <2>3. \A x \in Entries : rawValue'[x] \in 0 .. Word - 1
    BY <1>2, <2>2, RawTyped
  <2>4. \A x \in writePending' :
          /\ x \in WithTopic(List)
          /\ command'[x].value \in Int
          /\ rawValue'[x] = RawValue(mbWriteTags[x].datatype, command'[x].value)
    <3> TAKE x \in writePending'
    <3>1. CASE x = e
      <4>1. command'[x] = [topic |-> topic, value |-> n]
        BY <1>2, <2>1, <2>2, <3>1
      <4>2. rawValue'[x] = RawValue(mbWriteTags[x].datatype, n)
        BY <1>2, <2>1, <2>2, <3>1
      <4> QED
        BY <2>1, <3>1, <4>1, <4>2
    <3>2. CASE x # e
      BY <1>2, <2>2, <3>2 DEF PendingInv
    <3> QED
      BY <3>1, <3>2
  <2>5. PendingInv'
    BY <1>3, <2>4 DEF PendingInv
  <2> QED
    BY <1>1, <1>2, <2>1, <2>2, <2>3, <2>5
<1> QED
  BY <1>4, <1>5 DEF SetTagValue

(* Once there, the store and the arrays stay as they are. *)
LEMMA ArraysKept ==
  ASSUME StoreInv, ArrayInv,
         UNCHANGED <<cfg, tagStore, mbWriteTags, mbReadTags, updateCycles>>,
         pc # "hwtags", pc' \notin {"hwtags", "tags"},
         pc' \in {"mqtt", "modbus"} \cup LoopPc => pc \in {"mqtt", "modbus"} \cup LoopPc,
         pc' \in LoopPc => pc \in LoopPc \/ ~cfg.device
  PROVE  StoreInv' /\ ArrayInv'
<1>1. List' = List /\ Cpu' = Cpu /\ Stored' = Stored
  BY DEF List, Cpu, Stored
<1>2. StoreInv'
  BY <1>1 DEF StoreInv, LoopPc
<1>3. ArrayInv'
  BY <1>1 DEF ArrayInv
<1> QED
  BY <1>2, <1>3

LEMMA BaseUnchanged ==
  ASSUME StoreInv, ArrayInv, UNCHANGED startVars, UNCHANGED line
  PROVE  StoreInv' /\ ArrayInv'
<1>1. List' = List /\ Cpu' = Cpu /\ Stored' = Stored
  BY DEF List, Cpu, Stored, startVars
<1> QED
  BY <1>1 DEF StoreInv, ArrayInv, startVars

(* What is said of commands and requests depends on the arrays, commands   *)
(* and requests only.                                                      *)
LEMMA CommandsKept ==
  ASSUME PendingInv, CommandReachesItsEntry, RequestMeansCommand,
         UNCHANGED <<cfg, tagStore, mbWriteTags, rawValue, writePending, command, line>>
  PROVE  PendingInv' /\ CommandReachesItsEntry' /\ RequestMeansCommand'
<1>1. List' = List /\ Stored' = Stored /\ Entries' = Entries
  BY DEF List, Stored, Entries
<1>2. ToldApart' = ToldApart
  BY <1>1 DEF ToldApart
<1>3. PendingInv'
  BY <1>1 DEF PendingInv
<1>4. CommandReachesItsEntry'
  BY <1>1, <1>2 DEF CommandReachesItsEntry
<1>5. RequestMeansCommand'
  BY DEF RequestMeansCommand, WellTyped
<1> QED
  BY <1>3, <1>4, <1>5

(* ... and what is said of the temperature on its schedule and topic.      *)
LEMMA CpuKept ==
  ASSUME ScheduleInv, CpuFresh,
         UNCHANGED <<cfg, tagStore, tagSource, readAt, nextReadTime, nextPublishTime, cpuTopic>>,
         pc # "hwtags", pc' # "hwtags",
         pc' \in {"mqtt", "modbus"} \cup LoopPc => pc \in {"mqtt", "modbus"} \cup LoopPc,
         pc' \in {"hwtags", "tags"} => pc' = pc
  PROVE  ScheduleInv' /\ CpuFresh'
<1>1. Cpu' = Cpu /\ Stored' = Stored
  BY DEF Cpu, Stored
<1>2. ToldApart' = ToldApart /\ Publishing' = Publishing
  BY <1>1 DEF ToldApart, Publishing
<1>3. ScheduleInv'
  BY <1>1, <1>2 DEF ScheduleInv
<1>4. CpuFresh'
  BY <1>1, <1>2 DEF CpuFresh
<1> QED
  BY <1>3, <1>4

LEMMA TrafficInit == Init => TrafficInv
<1> SUFFICES ASSUME Init
             PROVE  TrafficInv
  OBVIOUS
<1> USE DEF Init, StartInit, Missing, Nothing
<1>1. Stored = {} /\ Entries = {} /\ DOMAIN tagSource = {} /\ DOMAIN rawValue = {}
      /\ DOMAIN command = {}
  BY DEF Stored, Entries
<1>2. TypeOK
  BY <1>1, TrafficAssumption DEF TypeOK, StartPc
<1>3. StoreInv /\ ArrayInv /\ PendingInv
  BY <1>1 DEF StoreInv, ArrayInv, PendingInv, LoopPc, CpuPlace
<1>4. ScheduleInv
  BY TrafficAssumption DEF ScheduleInv, Never, LoopPc
<1>5. CompleteNeverCrashes /\ CommandReachesItsEntry /\ RequestMeansCommand /\ CpuFresh
  BY <1>1 DEF CompleteNeverCrashes, CommandReachesItsEntry, RequestMeansCommand, CpuFresh
<1> QED
  BY <1>2, <1>3, <1>4, <1>5 DEF TrafficInv

LEMMA HwtagsStep ==
  ASSUME TrafficInv, StartHwtags
  PROVE  TrafficInv'
<1>1. /\ pc = "hwtags" /\ Stored = {} /\ cfg \in Configs /\ mbWriteTags = Missing
      /\ line = Nothing /\ cpuTopic = Nothing /\ Entries = {}
  BY DEF TrafficInv, StoreInv, ArrayInv, ScheduleInv, StartHwtags, InitHwtags, Entries, Missing
<1>2. UNCHANGED <<cfg, mbWriteTags, mbReadTags, updateCycles, connected, messages, tagSource,
                  rawValue, writePending, clock, readAt, cpuTopic, command, line>>
  BY DEF StartHwtags, InitHwtags
<1>3. /\ Entries' = Entries /\ Cpu' = Cpu
      /\ writePending = {} /\ DOMAIN tagSource = {}
  BY <1>1, <1>2 DEF Entries, Cpu, TrafficInv, TypeOK
<1>4. TypeOK'
  BY <1>2, <1>3 DEF TrafficInv, TypeOK, StartHwtags, InitHwtags, StartPc, EndPc
<1>5. /\ pc' \in {"tags", "failed"}
      /\ Given(cfg.cputemp) => Stored' = {CpuPlace} /\ tagStore'[CpuPlace] = HwTag(Cpu)
      /\ ~Given(cfg.cputemp) => Stored' = {}
      /\ pc' = "tags" /\ Given(cfg.cputemp) =>
           Given(Cpu.readinterval) /\ Given(Cpu.publishinterval)
  BY <1>1 DEF StartHwtags, InitHwtags, Cpu, Stored
<1>6. StoreInv'
  BY <1>1, <1>2, <1>3, <1>5 DEF StoreInv, LoopPc
<1>7. ArrayInv'
  BY <1>1, <1>2, <1>5 DEF ArrayInv, LoopPc
<1>8. PendingInv' /\ CommandReachesItsEntry' /\ RequestMeansCommand' /\ CpuFresh'
  BY <1>1, <1>2, <1>3 DEF PendingInv, CommandReachesItsEntry, RequestMeansCommand, CpuFresh
<1>9. CompleteNeverCrashes'
  BY <1>5 DEF CompleteNeverCrashes
<1>10. nextReadTime' \in Int /\ nextPublishTime' \in Int
       /\ (Publishing => nextReadTime' <= nextPublishTime')
  <2>1. clock \in Int /\ nextReadTime \in Int /\ nextPublishTime \in Int /\ Never \in Int
    BY TrafficAssumption DEF TrafficInv, TypeOK, ScheduleInv, Never
  <2>2. CASE Given(cfg.cputemp) /\ Given(Cpu.readinterval) /\ Given(Cpu.publishinterval)
    <3>1. ValueOf(Cpu.readinterval) \in Int /\ ValueOf(Cpu.publishinterval) \in Int
      BY <1>1, <2>2, CpuTyped
    <3>2. /\ nextReadTime' = clock + ValueOf(Cpu.readinterval)
          /\ IF ValueOf(Cpu.publishinterval) > 0
             THEN nextPublishTime' = clock + ValueOf(Cpu.publishinterval)
             ELSE nextPublishTime' \in {0, Never}
      BY <2>2 DEF StartHwtags, Schedule, FirstPublish
    <3> QED
      BY <2>1, <3>1, <3>2 DEF Publishing
  <2>3. CASE ~(Given(cfg.cputemp) /\ Given(Cpu.readinterval) /\ Given(Cpu.publishinterval))
    BY <2>1, <2>3 DEF StartHwtags, Schedule, Publishing
  <2> QED
    BY <2>2, <2>3
<1>11. Publishing' = Publishing
  BY <1>2, <1>3 DEF Publishing
<1>12. ScheduleInv'
  BY <1>1, <1>2, <1>5, <1>10, <1>11 DEF ScheduleInv, LoopPc
<1> QED
  BY <1>4, <1>6, <1>7, <1>8, <1>9, <1>12 DEF TrafficInv

(* A complete file fits the store, whether or not the CPU has a tag.       *)
LEMMA StoreSuffices ==
  ASSUME StoreInv, pc = "tags", Complete
  PROVE  Cardinality(DOMAIN Added(tagStore, SubscribedTags(List))) <= MaxTagNum
<1> DEFINE topics == WithTopic(List)
<1>1. List \in Seq(TagEntry)
  BY ListTyped DEF StoreInv, Complete
<1>2. IsFiniteSet(DOMAIN List)
  BY <1>1, FS_Interval
<1>3. IsFiniteSet(topics)
  BY <1>2, FS_Subset DEF WithTopic
<1>4. DOMAIN Added(tagStore, SubscribedTags(List)) \subseteq topics \cup {CpuPlace}
  BY DEF Added, SubscribedTags, StoreInv, Stored
<1>5. /\ IsFiniteSet(topics \cup {CpuPlace})
      /\ Cardinality(topics \cup {CpuPlace}) <= Cardinality(topics) + 1
  <2> HIDE DEF topics
  <2>1. /\ IsFiniteSet(topics \cup {CpuPlace}) /\ Cardinality(topics) \in Nat
        /\ \/ CpuPlace \in topics /\ Cardinality(topics \cup {CpuPlace}) = Cardinality(topics)
           \/ Cardinality(topics \cup {CpuPlace}) = Cardinality(topics) + 1
    BY <1>3, FS_AddElement, FS_CardinalityType
  <2> QED
    BY <2>1
<1>6. Cardinality(DOMAIN Added(tagStore, SubscribedTags(List)))
        <= Cardinality(topics \cup {CpuPlace})
  BY <1>4, <1>5, FS_Subset
<1>7. Cardinality(topics) < MaxTagNum
  BY DEF Complete, List
<1>8. /\ Cardinality(topics) \in Nat /\ Cardinality(topics \cup {CpuPlace}) \in Nat
      /\ Cardinality(DOMAIN Added(tagStore, SubscribedTags(List))) \in Nat
      /\ MaxTagNum \in Nat
  BY <1>3, <1>4, <1>5, FS_Subset, FS_CardinalityType, TrafficAssumption
<1> QED
  BY <1>5, <1>6, <1>7, <1>8

LEMMA TagsStep ==
  ASSUME TrafficInv, StartTags
  PROVE  TrafficInv'
<1>1. /\ pc = "tags" /\ Stored \subseteq {CpuPlace} /\ cfg \in Configs
      /\ mbWriteTags = Missing /\ line = Nothing /\ cpuTopic = Nothing /\ writePending = {}
      /\ StoreInv
  <2>1. pc = "tags"
    BY DEF StartTags, InitTags
  <2> QED
    BY <2>1 DEF TrafficInv, StoreInv, ArrayInv, ScheduleInv, TypeOK, Entries, Missing
<1>2. /\ UNCHANGED <<cfg, mbReadTags, updateCycles, connected, messages, writePending, clock,
                     readAt, nextReadTime, nextPublishTime, cpuTopic, line>>
      /\ pc' \in {"mqtt", "crashed"}
      /\ tagSource' = [t \in Stored' |-> "nobody"]
      /\ rawValue' = [e \in Entries' |-> 0] /\ command' = [e \in Entries' |-> Nothing]
  BY DEF StartTags, InitTags, Stored, Entries
<1>3. Cpu' = Cpu /\ List' = List /\ (Publishing' = Publishing)
  BY <1>2 DEF Cpu, List, Publishing
<1>4. TypeOK'
  <2>1. 0 \in 0 .. Word - 1
    BY DEF Word
  <2> QED
    BY <1>1, <1>2, <2>1 DEF TrafficInv, TypeOK, StartPc, EndPc
<1>5. PendingInv' /\ CommandReachesItsEntry' /\ RequestMeansCommand' /\ CpuFresh'
  BY <1>1, <1>2 DEF PendingInv, CommandReachesItsEntry, RequestMeansCommand, CpuFresh
<1>6. CompleteNeverCrashes'
  <2>1. Complete' = Complete
    BY <1>2 DEF Complete
  <2>2. Complete => pc' # "crashed"
    <3> SUFFICES ASSUME Complete PROVE pc' # "crashed"
      OBVIOUS
    <3>1. Cardinality(DOMAIN Added(tagStore, SubscribedTags(List))) <= MaxTagNum
      BY <1>1, StoreSuffices
    <3>2. /\ Cardinality(DOMAIN Added(tagStore, SubscribedTags(List))) > MaxTagNum
             => pc' = "crashed"
          /\ ~(Cardinality(DOMAIN Added(tagStore, SubscribedTags(List))) > MaxTagNum)
             => pc' = "mqtt"
      BY DEF StartTags, InitTags, Complete, List
    <3>3. Cardinality(DOMAIN Added(tagStore, SubscribedTags(List))) \in Int /\ MaxTagNum \in Int
      <4>1. List \in Seq(TagEntry)
        BY <1>1, ListTyped DEF Complete
      <4>2. IsFiniteSet(WithTopic(List))
        BY <4>1, FS_Interval, FS_Subset DEF WithTopic
      <4>3. IsFiniteSet(DOMAIN Added(tagStore, SubscribedTags(List)))
        BY <1>1, <4>2, FS_AddElement, FS_Subset DEF Added, SubscribedTags, Stored
      <4> QED
        BY <4>3, FS_CardinalityType, TrafficAssumption
    <3> QED
      BY <3>1, <3>2, <3>3
  <2> QED
    BY <2>1, <2>2 DEF CompleteNeverCrashes
<1>7. CASE UNCHANGED <<tagStore, mbWriteTags>>
  <2>1. Stored' = Stored
    BY <1>7 DEF Stored
  <2>2. pc' = "mqtt" => ~Given(cfg.mqtt_tags)
    <3>1. pc' = "mqtt" /\ Given(cfg.mqtt_tags) => mbWriteTags' = WriteArray(List)
      BY DEF StartTags, InitTags, List
    <3>2. Given(cfg.mqtt_tags) => WriteArray(List) # << >>
      BY <1>1, ListTyped, WriteArrayForm
    <3> QED
      BY <1>1, <1>7, <3>1, <3>2 DEF Missing
  <2>3. StoreInv' /\ ArrayInv'
    BY <1>1, <1>2, <1>3, <1>7, <2>1, <2>2 DEF StoreInv, ArrayInv, LoopPc
  <2>4. ScheduleInv'
    BY <1>1, <1>2, <1>3, <2>1 DEF TrafficInv, ScheduleInv, StoreInv, Publishing, LoopPc
  <2> QED
    BY <1>4, <1>5, <1>6, <2>3, <2>4 DEF TrafficInv
<1>8. CASE /\ Given(cfg.mqtt_tags)
           /\ tagStore' = Added(tagStore, SubscribedTags(List))
           /\ mbWriteTags' = WriteArray(List)
  <2>1. List \in Seq(TagEntry) /\ WithTopic(List) \subseteq Nat \ {CpuPlace}
    BY <1>1, <1>8, ListTyped DEF WithTopic, CpuPlace
  <2>2. /\ Stored' = Stored \cup WithTopic(List)
        /\ \A t \in Stored : tagStore'[t] = tagStore[t]
        /\ \A t \in WithTopic(List) : tagStore'[t] = SubscribedTags(List)[t]
    BY <1>1, <1>8, <2>1 DEF Stored, Added, SubscribedTags
  <2>3. mbWriteTags' # Missing
    BY <1>8, <2>1, WriteArrayForm DEF Missing
  <2>4. StoreInv'
    BY <1>1, <1>2, <1>3, <1>8, <2>1, <2>2, <2>3 DEF StoreInv, LoopPc
  <2>5. ArrayInv'
    BY <1>2, <1>3, <1>8, <2>3 DEF ArrayInv, LoopPc
  <2>6. Publishing => CpuPlace \in Stored'
    BY <1>1, <2>2 DEF StoreInv, Publishing
  <2>7. ScheduleInv'
    BY <1>1, <1>2, <1>3, <2>6 DEF TrafficInv, ScheduleInv, LoopPc
  <2> QED
    BY <1>4, <1>5, <1>6, <2>4, <2>5, <2>7 DEF TrafficInv
<1> QED
  BY <1>7, <1>8 DEF StartTags, InitTags, List

LEMMA RestStep ==
  ASSUME TrafficInv, StartRest
  PROVE  TrafficInv'
<1>1. /\ pc \in {"mqtt", "modbus"} /\ pc' \in {"modbus", "loop", "failed"}
      /\ UNCHANGED <<cfg, tagStore, mbWriteTags>> /\ UNCHANGED trafficVars
  BY DEF StartRest, MqttInit, NoDevice, ModbusFails, InitModbus
<1>2. Entries' = Entries /\ Stored' = Stored /\ List' = List /\ Cpu' = Cpu
  BY <1>1 DEF Entries, Stored, List, Cpu
<1>3. TypeOK'
  BY <1>1, <1>2 DEF TrafficInv, TypeOK, trafficVars, StartPc, LoopPc, EndPc
<1>4. StoreInv'
  BY <1>1, <1>2 DEF TrafficInv, StoreInv, LoopPc
<1>5. pc' = "loop" /\ cfg.device => updateCycles' # Missing
  <2>1. SUFFICES ASSUME pc' = "loop", cfg.device PROVE updateCycles' # Missing
    OBVIOUS
  <2>2. /\ Given(cfg.updatecycles)
        /\ updateCycles' = CycleArray(ValueOf(cfg.updatecycles))
    BY <2>1 DEF StartRest, MqttInit, NoDevice, ModbusFails, InitModbus, CyclesConfigured
  <2>3. IsConfig(cfg)
    BY TrafficAssumption DEF TrafficInv, StoreInv
  <2>4. ValueOf(cfg.updatecycles) \in Seq(CycleEntry)
    BY <2>2, <2>3, ValueIn DEF IsConfig, IsSetting
  <2>5. CycleArray(ValueOf(cfg.updatecycles)) # << >>
    BY <2>4, CycleArrayForm
  <2> QED
    BY <2>2, <2>5 DEF Missing
<1>6. ArrayInv'
  BY <1>1, <1>2, <1>5 DEF TrafficInv, ArrayInv, LoopPc, trafficVars
<1>7. PendingInv' /\ CommandReachesItsEntry' /\ RequestMeansCommand'
  BY <1>1, CommandsKept DEF TrafficInv, trafficVars
<1>8. ScheduleInv' /\ CpuFresh'
  BY <1>1, CpuKept DEF TrafficInv, trafficVars, LoopPc
<1>9. CompleteNeverCrashes'
  BY <1>1 DEF CompleteNeverCrashes
<1> QED
  BY <1>3, <1>4, <1>6, <1>7, <1>8, <1>9 DEF TrafficInv

(* The connection, time, and steps of the rest of the system. *)
LEMMA QuietStep ==
  ASSUME TrafficInv, LinkChange \/ Tick \/ UNCHANGED vars
  PROVE  TrafficInv'
<1>1. /\ UNCHANGED <<startVars, tagSource, rawValue, writePending, readAt, nextReadTime,
                     nextPublishTime, cpuTopic, command, line>>
      /\ (UNCHANGED clock \/ (clock < MaxClock /\ clock' = clock + 1))
  BY DEF LinkChange, Tick, vars, trafficVars
<1>2. UNCHANGED <<cfg, pc, tagStore, mbWriteTags, mbReadTags, updateCycles>>
  BY <1>1 DEF startVars
<1>3. Entries' = Entries /\ Stored' = Stored /\ List' = List /\ Cpu' = Cpu
  BY <1>2 DEF Entries, Stored, List, Cpu
<1>4. TypeOK'
  <2>1. clock' \in 0 .. MaxClock /\ readAt' \in 0 .. clock'
    BY <1>1, TrafficAssumption DEF TrafficInv, TypeOK
  <2> QED
    BY <1>1, <1>2, <1>3, <2>1 DEF TrafficInv, TypeOK
<1>5. StoreInv' /\ ArrayInv'
  BY <1>1, BaseUnchanged DEF TrafficInv
<1>6. PendingInv' /\ CommandReachesItsEntry' /\ RequestMeansCommand'
  BY <1>1, <1>2, CommandsKept DEF TrafficInv
<1>7. ToldApart' = ToldApart /\ Publishing' = Publishing
  BY <1>2, <1>3 DEF ToldApart, Publishing
<1>8. ScheduleInv' /\ CpuFresh'
  BY <1>1, <1>2, <1>3, <1>7 DEF TrafficInv, ScheduleInv, CpuFresh
<1>9. CompleteNeverCrashes'
  BY <1>2 DEF TrafficInv, CompleteNeverCrashes, Complete
<1> QED
  BY <1>4, <1>5, <1>6, <1>8, <1>9 DEF TrafficInv

(* A message: the command it makes is for the entry of its topic, and the  *)
(* temperature it would not touch unless topics are taken for one another. *)
LEMMA MessageStep ==
  ASSUME TrafficInv,
         NEW topic \in Subscriptions, NEW payload \in Payloads, NEW retained \in BOOLEAN,
         Message(topic, payload, retained)
  PROVE  TrafficInv'
<1>1. /\ StoreInv /\ ArrayInv /\ DOMAIN tagSource = Stored
      /\ pc \in {"mqtt", "modbus"} \cup LoopPc /\ pc # "hwtags"
  BY DEF TrafficInv, ScheduleInv, Message, Listening, LoopPc
<1>2. /\ UNCHANGED <<cfg, pc, tagStore, mbWriteTags, mbReadTags, updateCycles>>
      /\ UNCHANGED <<clock, readAt, nextReadTime, nextPublishTime, cpuTopic, line>>
  BY DEF Message, startVars
<1>3. Entries' = Entries /\ Stored' = Stored /\ List' = List /\ Cpu' = Cpu
  BY <1>2 DEF Entries, Stored, List, Cpu
<1>4. ToldApart' = ToldApart /\ Publishing' = Publishing
  BY <1>2, <1>3 DEF ToldApart, Publishing
<1>5. StoreInv' /\ ArrayInv'
  BY <1>1, <1>2, BaseUnchanged DEF startVars
<1>6. CompleteNeverCrashes'
  BY <1>2 DEF TrafficInv, CompleteNeverCrashes, Complete
<1>7. RequestMeansCommand'
  BY <1>2 DEF TrafficInv, RequestMeansCommand, WellTyped
<1>8. CpuFresh'
  BY <1>2, <1>3, <1>4 DEF TrafficInv, CpuFresh
<1>9. CASE Converts(payload)
  <2>1. PICK n \in IntValues(payload) :
          SetTagValue(GetTag(tagStore, topic), "broker", n, topic, retained)
    BY <1>9 DEF Message
  <2>2. n \in Int
    BY IntTyped
  <2>3. PICK t \in Stored : /\ t = GetTag(tagStore, topic)
                            /\ ToldApart => tagStore[t].topic = topic /\ ~tagStore[t].publish
    BY <1>1, TopicFound
  <2>10. SetTagValue(t, "broker", n, topic, retained)
    BY <2>1, <2>3 DEF SetTagValue
  <2>11. UNCHANGED <<cfg, tagStore, mbWriteTags>>
    BY <1>2
  <2>12. t \in Stored
    OBVIOUS
  <2>4. /\ tagSource' = [tagSource EXCEPT ![t] = "broker"]
        /\ DOMAIN rawValue' = Entries /\ DOMAIN command' = Entries
        /\ writePending' \subseteq Entries
        /\ \A e \in Entries : rawValue'[e] \in 0 .. Word - 1
        /\ PendingInv'
        /\ \A e \in Entries :
             \/ command'[e] = command[e]
             \/ /\ e = t /\ t # CpuPlace
                /\ command'[e] = [topic |-> topic, value |-> n]
    BY <2>2, <2>10, <2>11, <2>12, ValueSet DEF SetTagValue, WriteRequest, NoWriteRequest
  <2>5. TypeOK'
    BY <1>1, <1>2, <1>3, <2>4 DEF TrafficInv, TypeOK
  <2>6. CommandReachesItsEntry'
    <3> SUFFICES ASSUME ToldApart, NEW e \in Entries, command'[e] # Nothing
                 PROVE  List[e].topic = {command'[e].topic}
      BY <1>2, <1>3, <1>4 DEF CommandReachesItsEntry, List
    <3>1. CASE command'[e] = command[e]
      BY <3>1 DEF TrafficInv, CommandReachesItsEntry, List
    <3>2. CASE e = t /\ t # CpuPlace /\ command'[e] = [topic |-> topic, value |-> n]
      <4>1. t \in WithTopic(List) /\ tagStore[t].topic = ValueOf(List[t].topic)
        BY <1>1, <2>3, <3>2, StoredEntry
      <4>2. topic = ValueOf(List[t].topic) /\ Given(List[t].topic) /\ t \in DOMAIN List
        BY <2>3, <4>1 DEF WithTopic
      <4>3. IsSetting(List[t].topic, Topics)
        BY <1>1, <2>3, <3>2, <4>2, ListTyped DEF StoreInv
      <4>4. ValueOf(List[t].topic) \in List[t].topic
        BY <4>2, ValueIn
      <4>5. List[t].topic = {topic}
        BY <4>2, <4>3, <4>4 DEF IsSetting
      <4> QED
        BY <3>2, <4>5
    <3> QED
      BY <2>4, <3>1, <3>2
  <2>7. ToldApart /\ Publishing => tagSource'[CpuPlace] = tagSource[CpuPlace]
    <3> SUFFICES ASSUME ToldApart, Publishing
                 PROVE  tagSource'[CpuPlace] = tagSource[CpuPlace]
      OBVIOUS
    <3>1. CpuPlace \in Stored /\ tagStore[CpuPlace] = HwTag(Cpu)
      BY <1>1 DEF StoreInv, Publishing
    <3>2. tagStore[CpuPlace].publish
      <4>1. tagStore[CpuPlace].publish
              = (Given(Cpu.readinterval) /\ Or(Cpu.publishinterval, 0) > 0)
        BY <3>1 DEF HwTag, NewTag
      <4>2. Or(Cpu.publishinterval, 0) = ValueOf(Cpu.publishinterval)
        BY DEF Publishing, Or
      <4> QED
        BY <4>1, <4>2 DEF Publishing
    <3>3. t # CpuPlace
      BY <2>3, <3>2
    <3> QED
      BY <1>1, <2>4, <3>1, <3>3
  <2>8. ScheduleInv'
    BY <1>1, <1>2, <1>3, <1>4, <2>4, <2>7 DEF TrafficInv, ScheduleInv, LoopPc
  <2> QED
    BY <1>5, <1>6, <1>7, <1>8, <2>4, <2>5, <2>6, <2>8 DEF TrafficInv
<1>10. CASE ~Converts(payload)
  <2>1. UNCHANGED <<tagSource, rawValue, writePending, command>>
    BY <1>10 DEF Message, NoWriteRequest
  <2>2. TypeOK'
    BY <1>2, <1>3, <2>1 DEF TrafficInv, TypeOK
  <2>3. PendingInv' /\ CommandReachesItsEntry'
    BY <1>2, <2>1, CommandsKept DEF TrafficInv
  <2>4. ScheduleInv'
    BY <1>1, <1>2, <2>1, CpuKept DEF TrafficInv, LoopPc
  <2> QED
    BY <1>5, <1>6, <1>7, <1>8, <2>2, <2>3, <2>4 DEF TrafficInv
<1> QED
  BY <1>9, <1>10

LEMMA AddressWidth == MaxAddress + 1 = 65536 /\ MaxAddress \in Int
BY SMT DEF MaxAddress

(* A write: what was pending is the command, and so is what is sent. *)
LEMMA RequestMeans ==
  ASSUME TrafficInv, NEW e \in writePending, line' = Request(e),
         UNCHANGED <<cfg, mbWriteTags>>
  PROVE  RequestMeansCommand'
<1> DEFINE entry == List[e]
           v == command[e].value
<1>1. e \in Entries /\ StoreInv /\ ArrayInv
  BY DEF TrafficInv, TypeOK
<1>2. mbWriteTags # Missing
  BY <1>1 DEF Entries, Missing
<1>3. Given(cfg.mqtt_tags) /\ mbWriteTags = WriteArray(List) /\ cfg \in Configs
  BY <1>1, <1>2 DEF ArrayInv, StoreInv
<1>4. /\ e \in WithTopic(List) /\ v \in Int
      /\ rawValue[e] = RawValue(mbWriteTags[e].datatype, v)
  BY DEF TrafficInv, PendingInv
<1>5. e \in DOMAIN List /\ Given(entry.topic)
  BY <1>4 DEF WithTopic
<1>6. mbWriteTags[e] = WriteTag(entry)
  BY <1>3, <1>5, ListTyped, WriteArrayForm
<1>7. /\ mbWriteTags[e].slave = SlaveId(Or(entry.slaveid, 0))
      /\ mbWriteTags[e].address = Or(entry.address, 0) % (MaxAddress + 1)
  BY <1>5, <1>6 DEF WriteTag
<1> DEFINE d == mbWriteTags[e].datatype
           a == mbWriteTags[e].address
<1>8. /\ line'.entry = e /\ line'.command = command[e]
      /\ line'.slave = mbWriteTags[e].slave /\ line'.fc = FunctionCode(d)
      /\ line'.place = ModbusAddress(a) /\ line'.value = LineValue(d, rawValue[e])
  BY DEF Request
<1> HIDE DEF d, a, v, entry
<1>9. Or(entry.slaveid, 0) \in 0 .. SlaveEnd => line'.slave = Or(entry.slaveid, 0)
  BY <1>7, <1>8, SMT DEF SlaveId, SlaveEnd
<1>10. WellTyped(e) /\ Or(entry.address, 0) \in 0 .. MaxAddress =>
         Written(line'.fc, line'.place) = Or(entry.address, 0)
  <2> SUFFICES ASSUME WellTyped(e), Or(entry.address, 0) \in 0 .. MaxAddress
               PROVE  Written(line'.fc, line'.place) = Or(entry.address, 0)
    OBVIOUS
  <2>1. a = Or(entry.address, 0) % (MaxAddress + 1)
    BY <1>7 DEF a
  <2>2. a = Or(entry.address, 0) /\ a \in Nat
    <3>3. MaxAddress + 1 = 65536 /\ MaxAddress \in Int
      BY AddressWidth
    <3>1. Or(entry.address, 0) \in Nat /\ Or(entry.address, 0) < 65536
      BY <3>3
    <3>2. a = Or(entry.address, 0) % 65536
      BY <2>1, <3>3
    <3> QED
      BY <3>1, <3>2, SMT
  <2>3. RegisterType(a) = IF d = "r" THEN HoldingRegister ELSE Coil
    BY DEF WellTyped, a, d
  <2>4. CASE d = "r"
    BY <1>8, <2>2, <2>3, <2>4, MapInverted DEF FunctionCode
  <2>5. CASE d # "r"
    BY <1>8, <2>2, <2>3, <2>5, MapInverted DEF FunctionCode
  <2> QED
    BY <2>4, <2>5
<1>11. v \in 0 .. Word - 1 =>
         line'.value = IF line'.fc = 6 THEN v ELSE IF v # 0 THEN 1 ELSE 0
  <2>1. rawValue[e] = RawValue(d, v)
    BY <1>4 DEF d
  <2> QED
    BY <1>8, <2>1, LineMeans
<1>12. WellTyped(e)' = WellTyped(e)
  BY DEF WellTyped
<1> QED
  BY <1>8, <1>9, <1>10, <1>11, <1>12 DEF RequestMeansCommand, List, v, entry, WellTyped

LEMMA ModbusStep ==
  ASSUME TrafficInv, ProcessModbus
  PROVE  TrafficInv'
<1>1. /\ pc = "loop" /\ pc' \in {"var", "crashed"} /\ StoreInv /\ ArrayInv
      /\ UNCHANGED <<cfg, tagStore, mbWriteTags, mbReadTags, updateCycles>>
      /\ UNCHANGED <<connected, messages, tagSource, rawValue, clock, readAt, nextReadTime,
                     nextPublishTime, cpuTopic, command>>
  BY DEF TrafficInv, ProcessModbus
<1>2. Entries' = Entries /\ Stored' = Stored /\ List' = List
  BY <1>1 DEF Entries, Stored, List
<1>3. /\ writePending' \subseteq writePending
      /\ \/ UNCHANGED line
         \/ \E e \in writePending : line' = Request(e)
  BY DEF ProcessModbus, WritePass
<1>4. TypeOK'
  BY <1>1, <1>2, <1>3 DEF TrafficInv, TypeOK, StartPc, LoopPc, EndPc
<1>5. StoreInv' /\ ArrayInv'
  BY <1>1, ArraysKept DEF LoopPc
<1>6. PendingInv' /\ CommandReachesItsEntry'
  <2>1. ToldApart' = ToldApart
    BY <1>1, <1>2 DEF ToldApart
  <2> QED
    BY <1>1, <1>2, <1>3, <2>1 DEF TrafficInv, PendingInv, CommandReachesItsEntry
<1>7. RequestMeansCommand'
  <2>1. CASE UNCHANGED line
    BY <1>1, <2>1 DEF TrafficInv, RequestMeansCommand, WellTyped
  <2>2. CASE \E e \in writePending : line' = Request(e)
    BY <1>1, <2>2, RequestMeans
  <2> QED
    BY <1>3, <2>1, <2>2
<1>8. ScheduleInv' /\ CpuFresh'
  BY <1>1, CpuKept DEF TrafficInv, LoopPc
<1>9. CompleteNeverCrashes'
  <2>1. Complete => updateCycles # Missing /\ mbWriteTags # Missing
    BY <1>1 DEF Complete, ArrayInv, LoopPc
  <2>2. Complete' = Complete
    BY <1>1 DEF Complete
  <2> QED
    BY <2>1, <2>2 DEF ProcessModbus, CompleteNeverCrashes
<1> QED
  BY <1>4, <1>5, <1>6, <1>7, <1>8, <1>9 DEF TrafficInv

LEMMA AgeBounded ==
  ASSUME NEW now \in Int, NEW read \in Int, NEW interval \in Int, now < read + interval
  PROVE  now - read < interval
OBVIOUS

(* The temperature: it is read before it is published, and if it was not   *)
(* due to be read, its last reading is recent.                             *)
LEMMA VarStep ==
  ASSUME TrafficInv, VarProcess
  PROVE  TrafficInv'
<1>1. /\ pc = "var" /\ pc' = "loop" /\ StoreInv /\ ArrayInv
      /\ DOMAIN tagSource = Stored /\ cfg \in Configs
      /\ UNCHANGED <<cfg, tagStore, mbWriteTags, mbReadTags, updateCycles>>
      /\ UNCHANGED <<connected, messages, clock, line>>
  BY DEF TrafficInv, StoreInv, ScheduleInv, VarProcess, LoopPc
<1>2. Entries' = Entries /\ Stored' = Stored /\ List' = List /\ Cpu' = Cpu
  BY <1>1 DEF Entries, Stored, List, Cpu
<1>3. ToldApart' = ToldApart /\ Publishing' = Publishing
  BY <1>1, <1>2 DEF ToldApart, Publishing
<1>4. StoreInv' /\ ArrayInv'
  BY <1>1, ArraysKept DEF LoopPc
<1>5. CompleteNeverCrashes'
  BY <1>1 DEF CompleteNeverCrashes
<1>6. RequestMeansCommand'
  BY <1>1 DEF TrafficInv, RequestMeansCommand, WellTyped
<1>7. /\ CpuTag # NoTag => CpuTag \in Stored
      /\ Given(cfg.cputemp) => CpuTag = CpuPlace
      /\ ToldApart /\ ~Given(cfg.cputemp) => CpuTag = NoTag
  BY <1>1, CpuFound
<1>8. Given(cfg.cputemp) =>
        /\ CpuPlace \in Stored
        /\ Given(Cpu.readinterval) /\ Given(Cpu.publishinterval)
        /\ ValueOf(Cpu.readinterval) \in Int /\ ValueOf(Cpu.publishinterval) \in Int
  BY <1>1, CpuTyped DEF StoreInv, LoopPc
<1>9. /\ clock \in Int /\ readAt \in Int /\ 0 <= readAt /\ readAt <= clock /\ 0 <= clock
      /\ nextReadTime \in Int /\ nextPublishTime \in Int
  BY TrafficAssumption DEF TrafficInv, TypeOK, ScheduleInv
<1>10. CASE CpuTag = NoTag
  <2>1. UNCHANGED <<tagSource, rawValue, writePending, command, readAt, nextReadTime,
                    nextPublishTime, cpuTopic>>
    BY <1>10 DEF VarProcess
  <2>2. TypeOK'
    BY <1>1, <1>2, <2>1 DEF TrafficInv, TypeOK, LoopPc
  <2>3. PendingInv' /\ CommandReachesItsEntry'
    BY <1>1, <2>1, CommandsKept DEF TrafficInv
  <2>4. ScheduleInv' /\ CpuFresh'
    BY <1>1, <2>1, CpuKept DEF TrafficInv, LoopPc
  <2> QED
    BY <1>4, <1>5, <1>6, <2>2, <2>3, <2>4 DEF TrafficInv
<1>11. CASE CpuTag # NoTag
  <2>1. PICK readDue \in Due(nextReadTime) :
          IF readDue THEN ReadCpu
          ELSE UNCHANGED <<tagSource, rawValue, writePending, command, readAt, nextReadTime>>
    BY <1>11 DEF VarProcess
  <2>2. PICK publishDue \in Due(nextPublishTime) :
          IF publishDue THEN PublishCpu ELSE UNCHANGED <<nextPublishTime, cpuTopic>>
    BY <1>11 DEF VarProcess
  <2>3. Given(cfg.cputemp) =>
          readDue = (nextReadTime <= clock) /\ publishDue = (nextPublishTime <= clock)
    BY DEF Due
  (* Of commands: *)
  <2>4. /\ DOMAIN rawValue' = Entries /\ DOMAIN command' = Entries
        /\ writePending' \subseteq Entries
        /\ \A e \in Entries : rawValue'[e] \in 0 .. Word - 1
        /\ PendingInv' /\ CommandReachesItsEntry'
        /\ DOMAIN tagSource' = Stored
    <3>1. CASE readDue
      <4>1. PICK retained \in BOOLEAN : SetTagValue(CpuTag, "cpu", CpuTemp, EmptyTopic, retained)
        BY <2>1, <3>1 DEF ReadCpu
      <4>2. CpuTemp \in Int
        BY DEF CpuTemp
      <4>7. PICK t \in Stored : t = CpuTag
        BY <1>7, <1>11
      <4>8. SetTagValue(t, "cpu", CpuTemp, EmptyTopic, retained)
        BY <4>1, <4>7 DEF SetTagValue
      <4>3. /\ tagSource' = [tagSource EXCEPT ![t] = "cpu"]
            /\ DOMAIN rawValue' = Entries /\ DOMAIN command' = Entries
            /\ writePending' \subseteq Entries
            /\ \A e \in Entries : rawValue'[e] \in 0 .. Word - 1
            /\ PendingInv'
            /\ \A e \in Entries :
                 \/ command'[e] = command[e]
                 \/ /\ e = t /\ t # CpuPlace
                    /\ command'[e] = [topic |-> EmptyTopic, value |-> CpuTemp]
        BY <1>1, <4>2, <4>8, ValueSet DEF SetTagValue, WriteRequest, NoWriteRequest
      <4>4. ToldApart => CpuTag = CpuPlace
        BY <1>7, <1>11
      <4>5. ToldApart => \A e \in Entries : command'[e] = command[e]
        BY <4>3, <4>4, <4>7
      <4>6. CommandReachesItsEntry'
        BY <1>1, <1>2, <1>3, <4>5 DEF TrafficInv, CommandReachesItsEntry
      <4> QED
        BY <1>1, <4>3, <4>6
    <3>2. CASE ~readDue
      <4>1. UNCHANGED <<tagSource, rawValue, writePending, command>>
        BY <2>1, <3>2
      <4>2. PendingInv' /\ CommandReachesItsEntry'
        BY <1>1, <4>1, CommandsKept DEF TrafficInv
      <4> QED
        BY <1>1, <4>1, <4>2 DEF TrafficInv, TypeOK
    <3> QED
      BY <3>1, <3>2
  <2>5. /\ readDue => readAt' = clock
        /\ ~readDue => readAt' = readAt
    BY <2>1 DEF ReadCpu
  <2>6. TypeOK'
    BY <1>1, <1>2, <1>9, <2>4, <2>5 DEF TrafficInv, TypeOK, LoopPc
  (* Of the schedule: *)
  <2>7. nextReadTime' \in Int /\ nextPublishTime' \in Int
    <3>1. nextReadTime' \in Int
      BY <1>8, <1>9, <2>1 DEF ReadCpu
    <3>2. nextPublishTime' \in Int
      BY <1>8, <1>9, <2>2 DEF PublishCpu, NextPublish
    <3> QED
      BY <3>1, <3>2
  <2>8. ASSUME ToldApart, Publishing
        PROVE  \/ /\ tagSource'[CpuPlace] = "nobody" /\ nextReadTime' <= nextPublishTime'
                  /\ ~publishDue
               \/ /\ tagSource'[CpuPlace] = "cpu"
                  /\ nextReadTime' = readAt' + ValueOf(Cpu.readinterval)
                  /\ readAt' = clock \/ clock < readAt' + ValueOf(Cpu.readinterval)
    <3>1. Given(cfg.cputemp) /\ CpuTag = CpuPlace /\ CpuPlace \in Stored
      BY <1>7, <1>8, <2>8 DEF Publishing
    <3>2. \/ tagSource[CpuPlace] = "nobody" /\ nextReadTime <= nextPublishTime
          \/ /\ tagSource[CpuPlace] = "cpu"
             /\ nextReadTime = readAt + ValueOf(Cpu.readinterval)
      BY <1>1, <2>8 DEF TrafficInv, ScheduleInv, LoopPc
    <3>3. CASE readDue
      <4>1. tagSource' = [tagSource EXCEPT ![CpuPlace] = "cpu"]
        BY <2>1, <3>1, <3>3 DEF ReadCpu, SetTagValue
      <4>2. readAt' = clock /\ nextReadTime' = clock + ValueOf(Cpu.readinterval)
        BY <2>1, <3>1, <3>3 DEF ReadCpu
      <4> QED
        BY <1>1, <3>1, <4>1, <4>2
    <3>4. CASE ~readDue
      <4>1. UNCHANGED <<tagSource, readAt, nextReadTime>>
        BY <2>1, <3>4
      <4>2. ~(nextReadTime <= clock)
        BY <2>3, <3>1, <3>4
      <4>3. CASE tagSource[CpuPlace] = "nobody" /\ nextReadTime <= nextPublishTime
        <5>1. ~(nextPublishTime <= clock)
          BY <1>9, <4>2, <4>3
        <5>2. ~publishDue
          BY <2>3, <3>1, <5>1
        <5>3. nextPublishTime' = nextPublishTime
          BY <2>2, <5>2
        <5> QED
          BY <4>1, <4>3, <5>2, <5>3
      <4>4. CASE /\ tagSource[CpuPlace] = "cpu"
                 /\ nextReadTime = readAt + ValueOf(Cpu.readinterval)
        BY <1>9, <4>1, <4>2, <4>4
      <4> QED
        BY <3>2, <4>3, <4>4
    <3> QED
      BY <3>3, <3>4
  <2>9. ScheduleInv'
    BY <1>1, <1>2, <1>3, <2>4, <2>7, <2>8 DEF ScheduleInv, LoopPc
  <2>10. CpuFresh'
    <3>1. CASE cpuTopic' = cpuTopic
      BY <1>1, <1>2, <1>3, <3>1 DEF TrafficInv, CpuFresh
    <3>2. CASE publishDue /\ connected
      <4> DEFINE read == ValueOf(Cpu.readinterval)
      <4>1. cpuTopic' = [source |-> tagSource'[CpuTag], age |-> clock - readAt']
        BY <2>2, <3>2 DEF PublishCpu
      <4>2. cpuTopic'.source = tagSource'[CpuTag] /\ cpuTopic'.age = clock - readAt'
        BY <4>1
      <4> SUFFICES ASSUME ToldApart, Given(cfg.cputemp),
                          ValueOf(Cpu.publishinterval) > 0, ValueOf(Cpu.publishinterval) >= read
                   PROVE  /\ cpuTopic'.source = "cpu"
                          /\ cpuTopic'.age < read \/ cpuTopic'.age = 0
        BY <1>1, <1>2, <1>3 DEF CpuFresh
      <4>3. Publishing /\ CpuTag = CpuPlace
        BY <1>7, <1>8 DEF Publishing
      <4>4. /\ tagSource'[CpuPlace] = "cpu"
            /\ readAt' = clock \/ clock < readAt' + read
        BY <2>8, <3>2, <4>3
      <4>5. readAt' \in Int /\ read \in Int
        BY <1>8, <1>9, <2>5
      <4>6. clock - readAt' < read \/ clock - readAt' = 0
        <5>1. clock \in Int
          BY <1>9
        <5>2. CASE readAt' = clock
          BY <5>1, <5>2
        <5>3. CASE clock < readAt' + read
          BY <4>5, <5>1, <5>3, AgeBounded
        <5> QED
          BY <4>4, <5>2, <5>3
      <4> QED
        BY <4>2, <4>3, <4>4, <4>6
    <3> QED
      BY <2>2, <3>1, <3>2 DEF PublishCpu
  <2> QED
    BY <1>4, <1>5, <1>6, <2>4, <2>6, <2>9, <2>10 DEF TrafficInv
<1> QED
  BY <1>10, <1>11

-----------------------------------------------------------------------------
(* The read tags *)

(* The arrays of the modbus side are those of the file: whatever the       *)
(* memory held that was never assigned.                                    *)
ReadInv ==
  /\ cfg \in Configs
  /\ mbReadTags # Missing =>
       /\ Given(cfg.updatecycles) /\ Given(cfg.mbslaves)
       /\ updateCycles = CycleArray(ValueOf(cfg.updatecycles))
       /\ \E memory : mbReadTags = ReadArray(Slaves, memory)

LEMMA SlavesTyped ==
  ASSUME cfg \in Configs, Given(cfg.mbslaves)
  PROVE  /\ Slaves \in Seq(SlaveEntry)
         /\ \A p \in Listed(Slaves) :
              IsSetting(ReadEntryAt(Slaves, p).update_cycle, Int)
<1>1. IsConfig(cfg)
  BY TrafficAssumption
<1>2. Slaves \in cfg.mbslaves
  BY ValueIn DEF Slaves
<1> QED
  BY <1>1, <1>2 DEF IsConfig, IsSetting

(* The place of a tag: a slave of the list, and an entry of its tags.      *)
LEMMA ListedPlace ==
  ASSUME NEW slaves \in Seq(SlaveEntry), NEW p \in Listed(slaves)
  PROVE  /\ p[1] \in 1 .. Len(slaves) /\ Len(slaves) \in Nat
         /\ ReadEntryAt(slaves, p) \in ReadEntry
<1>1. PICK s \in DOMAIN slaves :
        Given(slaves[s].tags) /\ p \in {s} \X DOMAIN ValueOf(slaves[s].tags)
  BY DEF Listed
<1>2. p[1] = s /\ p[2] \in DOMAIN ValueOf(slaves[s].tags)
  BY <1>1
<1>3. slaves[s] \in SlaveEntry /\ s \in 1 .. Len(slaves) /\ Len(slaves) \in Nat
  OBVIOUS
<1>4. ValueOf(slaves[s].tags) \in Seq(ReadEntry)
  BY <1>1, <1>3, ValueIn DEF SlaveEntry
<1> QED
  BY <1>2, <1>3, <1>4 DEF ReadEntryAt

(* The sum of the first loop, slave by slave.                              *)
IsSum(slaves, f, m) ==
  /\ f \in [0 .. m -> Nat]
  /\ f[0] = 0
  /\ \A s \in 1 .. m : f[s] = f[s - 1] + CountedTags(slaves[s])

LEMMA CountedNat ==
  ASSUME NEW slaves \in Seq(SlaveEntry), NEW s \in 1 .. Len(slaves)
  PROVE  CountedTags(slaves[s]) \in Nat
<1>1. slaves[s] \in SlaveEntry
  OBVIOUS
<1>2. ASSUME Given(slaves[s].tags)
      PROVE  ValueOf(slaves[s].tags) \in Seq(ReadEntry)
  BY <1>1, <1>2, ValueIn DEF SlaveEntry
<1>3. ASSUME Given(slaves[s].tags)
      PROVE  Len(ValueOf(slaves[s].tags)) \in Nat
  BY <1>2, <1>3
<1> QED
  BY <1>3 DEF CountedTags

LEMMA SumExists ==
  ASSUME NEW slaves \in Seq(SlaveEntry), NEW m \in 0 .. Len(slaves)
  PROVE  \E f : IsSum(slaves, f, m)
<1> DEFINE Bad == {n \in 0 .. Len(slaves) : ~ \E f : IsSum(slaves, f, n)}
<1>1. Bad \in SUBSET Nat
  OBVIOUS
<1>2. CASE Bad = {}
  BY <1>2
<1>3. CASE Bad # {}
  <2>1. PICK n \in Bad : \A k \in Bad : n <= k
    BY <1>1, <1>3, FirstOf
  <2>2. CASE n = 0
    <3>1. IsSum(slaves, [k \in 0 .. 0 |-> 0], 0)
      BY DEF IsSum
    <3> QED
      BY <2>1, <2>2, <3>1
  <2>3. CASE n # 0
    <3>1. n \in 1 .. Len(slaves) /\ n - 1 \in 0 .. Len(slaves) /\ n - 1 \notin Bad
      BY <2>1, <2>3
    <3>2. PICK f : IsSum(slaves, f, n - 1)
      BY <3>1
    <3>3. CountedTags(slaves[n]) \in Nat
      BY <3>1, CountedNat
    <3> DEFINE g == [k \in 0 .. n |-> IF k = n THEN f[n - 1] + CountedTags(slaves[n]) ELSE f[k]]
    <3>4. \A k \in 0 .. n - 1 : f[k] \in Nat
      BY <3>2 DEF IsSum
    <3>5. g \in [0 .. n -> Nat] /\ g[0] = 0
      BY <3>1, <3>2, <3>3, <3>4 DEF IsSum
    <3>6. ASSUME NEW k \in 1 .. n
          PROVE  g[k] = g[k - 1] + CountedTags(slaves[k])
      <4>1. g[k - 1] = f[k - 1]
        BY <3>1
      <4>2. CASE k = n
        BY <3>1, <4>1, <4>2
      <4>3. CASE k # n
        <5>1. k \in 1 .. n - 1 /\ g[k] = f[k]
          BY <3>1, <4>3
        <5> QED
          BY <3>2, <4>1, <5>1 DEF IsSum
      <4> QED
        BY <4>2, <4>3
    <3> HIDE DEF g
    <3>7. IsSum(slaves, g, n)
      BY <3>5, <3>6 DEF IsSum
    <3> QED
      BY <2>1, <3>7
  <2> QED
    BY <2>2, <2>3
<1> QED
  BY <1>2, <1>3

LEMMA NumTagsIsSum ==
  ASSUME NEW slaves \in Seq(SlaveEntry)
  PROVE  \E f : IsSum(slaves, f, Len(slaves)) /\ NumTags(slaves) = f[Len(slaves)]
<1> DEFINE L == Len(slaves)
           next(f) == [s \in 0 .. L |-> IF s = 0 THEN 0 ELSE f[s - 1] + CountedTags(slaves[s])]
           sum == CHOOSE f : f = next(f)
<1>1. L \in Nat
  OBVIOUS
<1>2. NumTags(slaves) = sum[L]
  BY DEF NumTags
<1>3. PICK f : IsSum(slaves, f, L)
  BY <1>1, SumExists
<1> HIDE DEF L
<1>4. f = next(f)
  <2>1. \A s \in 0 .. L : s # 0 => s \in 1 .. L
    BY <1>1
  <2> QED
    BY <1>3, <2>1 DEF IsSum
<1>5. sum = next(sum)
  BY <1>4
<1> HIDE DEF sum
<1>6. /\ sum[0] = 0 /\ DOMAIN sum = 0 .. L /\ sum = [s \in 0 .. L |-> sum[s]]
      /\ \A s \in 1 .. L : sum[s] = sum[s - 1] + CountedTags(slaves[s])
  BY <1>1, <1>5
<1> DEFINE Bad == {s \in 0 .. L : sum[s] \notin Nat}
<1>7. ASSUME Bad # {}
      PROVE  FALSE
  <2>1. Bad \in SUBSET Nat
    BY <1>1
  <2>2. PICK s \in Bad : \A k \in Bad : s <= k
    BY <1>7, <2>1, FirstOf
  <2>3. s # 0
    BY <1>6, <2>2
  <2>4. s - 1 \in 0 .. L /\ s - 1 \notin Bad /\ s \in 1 .. L
    BY <1>1, <2>2, <2>3
  <2>5. CountedTags(slaves[s]) \in Nat
    BY <2>4, CountedNat DEF L
  <2>6. sum[s - 1] \in Nat
    BY <2>4
  <2>7. sum[s] = sum[s - 1] + CountedTags(slaves[s])
    BY <1>6, <2>4
  <2>8. sum[s] \in Nat
    BY <2>5, <2>6, <2>7
  <2> QED
    BY <2>2, <2>8
<1>8. \A s \in 0 .. L : sum[s] \in Nat
  BY <1>7
<1>9. IsSum(slaves, sum, L)
  BY <1>6, <1>8 DEF IsSum
<1> QED
  BY <1>2, <1>9 DEF L

(* What the second loop fills for one slave is no more than the first      *)
(* counted for it.                                                         *)
FilledOf(slaves, s) == {p \in FilledPlaces(slaves) : p[1] = s}

LEMMA SlaveFits ==
  ASSUME NEW slaves \in Seq(SlaveEntry), NEW s \in 1 .. Len(slaves)
  PROVE  /\ IsFiniteSet(FilledOf(slaves, s))
         /\ Cardinality(FilledOf(slaves, s)) <= CountedTags(slaves[s])
<1>1. slaves[s] \in SlaveEntry /\ s \in DOMAIN slaves
  OBVIOUS
<1>2. CASE Fills(slaves[s])
  <2> DEFINE list == ValueOf(slaves[s].tags)
  <2>1. list \in Seq(ReadEntry)
    BY <1>1, <1>2, ValueIn DEF Fills, SlaveEntry
  <2>2. DOMAIN list = 1 .. Len(list) /\ Len(list) \in Nat /\ 1 \in Int
    BY <2>1
  <2>3. IsFiniteSet(1 .. Len(list)) /\ Cardinality(1 .. Len(list)) = Len(list)
    <3>1. IsFiniteSet(1 .. Len(list))
      BY <2>2, FS_Interval
    <3> DEFINE len == Len(list)
    <3>a. len \in Int
      BY <2>2
    <3> HIDE DEF len
    <3>2. Cardinality(1 .. len) = IF 1 > len THEN 0 ELSE len - 1 + 1
      BY <2>2, <3>a, FS_Interval
    <3> QED
      BY <2>2, <3>1, <3>2 DEF len
  <2>4. IsFiniteSet({s}) /\ Cardinality({s}) = 1
    BY FS_Singleton
  <2>5. /\ IsFiniteSet({s} \X DOMAIN list)
        /\ Cardinality({s} \X DOMAIN list) = 1 * Len(list)
    BY <2>2, <2>3, <2>4, FS_Product
  <2>6. FilledOf(slaves, s) \subseteq {s} \X DOMAIN list
    <3> SUFFICES ASSUME NEW p \in FilledOf(slaves, s) PROVE p \in {s} \X DOMAIN list
      OBVIOUS
    <3>1. p \in Listed(slaves) /\ p[1] = s
      BY DEF FilledOf, FilledPlaces
    <3>2. PICK u \in DOMAIN slaves : p \in {u} \X DOMAIN ValueOf(slaves[u].tags)
      BY <3>1 DEF Listed
    <3>3. p[1] = u
      BY <3>2
    <3> QED
      BY <3>1, <3>2, <3>3
  <2>7. /\ IsFiniteSet(FilledOf(slaves, s))
        /\ Cardinality(FilledOf(slaves, s)) <= Cardinality({s} \X DOMAIN list)
    BY <2>5, <2>6, FS_Subset
  <2>8. CountedTags(slaves[s]) = Len(list)
    BY <1>2 DEF CountedTags, Fills
  <2> QED
    BY <2>2, <2>5, <2>7, <2>8
<1>3. CASE ~ Fills(slaves[s])
  <2>1. FilledOf(slaves, s) = {}
    BY <1>3 DEF FilledOf, FilledPlaces
  <2>2. IsFiniteSet({}) /\ Cardinality({}) = 0
    BY FS_EmptySet
  <2>3. CountedTags(slaves[s]) \in Nat
    BY CountedNat
  <2> QED
    BY <2>1, <2>2, <2>3
<1> QED
  BY <1>2, <1>3

(* So after every slave: the index has not passed the sum.                 *)
FilledTo(slaves, s) == {p \in FilledPlaces(slaves) : p[1] <= s}

LEMMA FilledFit ==
  ASSUME NEW slaves \in Seq(SlaveEntry)
  PROVE  Cardinality(FilledPlaces(slaves) \cup {EndPlace(slaves)}) <= Allocated(slaves)
<1> DEFINE L == Len(slaves)
<1>1. L \in Nat
  OBVIOUS
<1>2. PICK f : IsSum(slaves, f, L) /\ NumTags(slaves) = f[L]
  BY NumTagsIsSum
<1> DEFINE Fit(s) == IsFiniteSet(FilledTo(slaves, s)) /\ Cardinality(FilledTo(slaves, s)) <= f[s]
           Bad == {s \in 0 .. L : ~ Fit(s)}
<1>3. \A p \in FilledPlaces(slaves) : p[1] \in 1 .. L
  BY ListedPlace DEF FilledPlaces
<1> HIDE DEF L
<1>4. ASSUME Bad # {}
      PROVE  FALSE
  <2>1. Bad \in SUBSET Nat
    BY <1>1
  <2>2. PICK s \in Bad : \A k \in Bad : s <= k
    BY <1>4, <2>1, FirstOf
  <2>3. s # 0
    <3>1. FilledTo(slaves, 0) = {}
      BY <1>3 DEF FilledTo
    <3>2. IsFiniteSet({}) /\ Cardinality({}) = 0
      BY FS_EmptySet
    <3>3. f[0] = 0
      BY <1>2 DEF IsSum
    <3>4. Fit(0)
      <4>1. Cardinality(FilledTo(slaves, 0)) = 0 /\ IsFiniteSet(FilledTo(slaves, 0))
        BY <3>1, <3>2
      <4> QED
        BY <3>3, <4>1
    <3> QED
      BY <2>2, <3>4
  <2>4. s \in 1 .. L /\ s - 1 \in 0 .. L /\ s - 1 \notin Bad
    BY <1>1, <2>2, <2>3
  <2>5. IsFiniteSet(FilledTo(slaves, s - 1)) /\ Cardinality(FilledTo(slaves, s - 1)) <= f[s - 1]
    BY <2>4
  <2>6. /\ IsFiniteSet(FilledOf(slaves, s))
        /\ Cardinality(FilledOf(slaves, s)) <= CountedTags(slaves[s])
    BY <2>4, SlaveFits DEF L
  <2>7. FilledTo(slaves, s) = FilledTo(slaves, s - 1) \cup FilledOf(slaves, s)
    BY <1>1, <1>3, <2>4 DEF FilledTo, FilledOf
  <2>8. FilledTo(slaves, s - 1) \cap FilledOf(slaves, s) = {}
    BY <1>1, <1>3, <2>4 DEF FilledTo, FilledOf
  <2>9. /\ IsFiniteSet(FilledTo(slaves, s))
        /\ Cardinality(FilledTo(slaves, s))
             = Cardinality(FilledTo(slaves, s - 1)) + Cardinality(FilledOf(slaves, s))
    <3>1. IsFiniteSet({}) /\ Cardinality({}) = 0
      BY FS_EmptySet
    <3>2. /\ IsFiniteSet(FilledTo(slaves, s - 1) \cup FilledOf(slaves, s))
          /\ Cardinality(FilledTo(slaves, s - 1) \cup FilledOf(slaves, s))
               = Cardinality(FilledTo(slaves, s - 1)) + Cardinality(FilledOf(slaves, s))
                 - Cardinality(FilledTo(slaves, s - 1) \cap FilledOf(slaves, s))
      BY <2>5, <2>6, FS_Union
    <3>3. Cardinality(FilledTo(slaves, s - 1)) \in Nat /\ Cardinality(FilledOf(slaves, s)) \in Nat
      BY <2>5, <2>6, FS_CardinalityType
    <3>4. Cardinality(FilledTo(slaves, s - 1) \cap FilledOf(slaves, s)) = 0
      BY <2>8, <3>1
    <3> QED
      BY <2>7, <3>2, <3>3, <3>4
  <2>10. f[s] = f[s - 1] + CountedTags(slaves[s]) /\ f[s - 1] \in Nat
    BY <1>2, <2>4 DEF IsSum
  <2>11. CountedTags(slaves[s]) \in Nat
    BY <2>4, CountedNat DEF L
  <2>12. Cardinality(FilledTo(slaves, s - 1)) \in Nat /\ Cardinality(FilledOf(slaves, s)) \in Nat
    BY <2>5, <2>6, FS_CardinalityType
  <2>13. Fit(s)
    BY <2>5, <2>6, <2>9, <2>10, <2>11, <2>12
  <2> QED
    BY <2>2, <2>13
<1>5. Fit(L)
  BY <1>1, <1>4
<1>6. FilledTo(slaves, L) = FilledPlaces(slaves)
  BY <1>1, <1>3 DEF FilledTo
<1>7. IsFiniteSet(FilledPlaces(slaves)) /\ Cardinality(FilledPlaces(slaves)) <= NumTags(slaves)
  BY <1>2, <1>5, <1>6
<1>8. Cardinality(FilledPlaces(slaves)) \in Nat /\ NumTags(slaves) \in Nat
  <2>1. Cardinality(FilledPlaces(slaves)) \in Nat
    BY <1>7, FS_CardinalityType
  <2>2. f[L] \in Nat
    BY <1>1, <1>2 DEF IsSum
  <2> QED
    BY <1>2, <2>1, <2>2
<1>9. Cardinality(FilledPlaces(slaves) \cup {EndPlace(slaves)})
        \in {Cardinality(FilledPlaces(slaves)), Cardinality(FilledPlaces(slaves)) + 1}
  BY <1>7, FS_AddElement
<1> QED
  BY <1>7, <1>8, <1>9 DEF Allocated

LEMMA Fits == ReadInv => ReadTagsFit
<1> SUFFICES ASSUME ReadInv, mbReadTags # Missing
             PROVE  Cardinality(DOMAIN mbReadTags) <= Allocated(Slaves)
  BY DEF ReadTagsFit, Slaves
<1>1. Slaves \in Seq(SlaveEntry)
  BY SlavesTyped DEF ReadInv
<1>2. PICK memory : mbReadTags = ReadArray(Slaves, memory)
  BY DEF ReadInv
<1>3. DOMAIN mbReadTags = FilledPlaces(Slaves) \cup {EndPlace(Slaves)}
  BY <1>2 DEF ReadArray
<1> QED
  BY <1>1, <1>3, FilledFit

(* A cycle in use has a number that is not negative. *)
LEMMA InUse ==
  ASSUME ReadInv, mbReadTags # Missing, NEW c \in CyclesInUse(updateCycles)
  PROVE  updateCycles[c].ident >= 0
<1>1. IsConfig(cfg)
  BY TrafficAssumption DEF ReadInv
<1>2. ValueOf(cfg.updatecycles) \in Seq(CycleEntry)
  BY <1>1, ValueIn DEF ReadInv, IsConfig, IsSetting
<1>3. c \in Nat \ {0}
  BY <1>2, CycleArrayForm DEF ReadInv, CyclesInUse
<1>4. c \in 1 .. c
  BY <1>3
<1> QED
  BY <1>4 DEF CyclesInUse

LEMMA AddressKept ==
  ASSUME NEW a \in 0 .. MaxAddress
  PROVE  a % (MaxAddress + 1) = a
<1>1. a \in Nat /\ a < 65536 /\ MaxAddress + 1 = 65536
  BY AddressWidth
<1> QED
  BY <1>1

(* The tag at a place that is filled, if it names a cycle.                 *)
LEMMA NamedTag ==
  ASSUME ReadInv, mbReadTags # Missing, EveryTagNamesACycle, NEW p \in FilledPlaces(Slaves)
  PROVE  /\ p \in Enabled /\ p # EndPlace(Slaves) /\ ~ Before(EndPlace(Slaves), p)
         /\ p \in DOMAIN mbReadTags
         /\ mbReadTags[p].slave = SlaveId(ValueOf(Slaves[p[1]].id))
         /\ mbReadTags[p].address = ValueOf(ReadEntryAt(Slaves, p).address)
         /\ mbReadTags[p].cycle >= 0
         /\ ReadEntryAt(Slaves, p).update_cycle = {mbReadTags[p].cycle}
<1> DEFINE t == ReadEntryAt(Slaves, p)
<1>1. p \in Listed(Slaves) /\ p \in Enabled /\ Given(t.address)
  BY DEF FilledPlaces, Fills, Enabled
<1>2. /\ Slaves \in Seq(SlaveEntry) /\ IsSetting(t.update_cycle, Int)
  BY <1>1, SlavesTyped DEF ReadInv
<1>3. p[1] \in 1 .. Len(Slaves) /\ Len(Slaves) \in Nat
  BY <1>1, <1>2, ListedPlace
<1>4. p # EndPlace(Slaves) /\ ~ Before(EndPlace(Slaves), p)
  <2>1. EndPlace(Slaves)[1] = Len(Slaves) + 1
    BY DEF EndPlace
  <2>2. ~ (Len(Slaves) + 1 <= p[1])
    BY <1>3
  <2> QED
    BY <1>3, <2>1, <2>2 DEF Before
<1>5. PICK memory : mbReadTags = ReadArray(Slaves, memory)
  BY DEF ReadInv
<1>6. /\ p \in DOMAIN mbReadTags
      /\ mbReadTags[p] = ReadTagOf(Slaves[p[1]], t, memory[p])
  BY <1>4, <1>5 DEF ReadArray
<1>7. /\ Given(t.update_cycle) /\ ValueOf(t.update_cycle) >= 0
      /\ ValueOf(t.address) \in 0 .. MaxAddress
  BY <1>1 DEF EveryTagNamesACycle, Enabled
<1>8. /\ mbReadTags[p].slave = SlaveId(ValueOf(Slaves[p[1]].id))
      /\ mbReadTags[p].address = ValueOf(t.address) % (MaxAddress + 1)
      /\ mbReadTags[p].cycle = ValueOf(t.update_cycle)
  BY <1>1, <1>6, <1>7 DEF ReadTagOf, Or
<1>9. t.update_cycle = {ValueOf(t.update_cycle)}
  BY <1>2, <1>7, ValueIn DEF IsSetting
<1> QED
  BY <1>1, <1>4, <1>6, <1>7, <1>8, <1>9, AddressKept

(* The entries of slaves that are not disabled are those that are filled   *)
(* in, if they have an address.                                            *)
LEMMA EnabledFilled ==
  ASSUME NEW p \in Enabled, Given(ReadEntryAt(Slaves, p).address)
  PROVE  p \in FilledPlaces(Slaves)
<1>1. p \in Listed(Slaves) /\ Or(Slaves[p[1]].enabled, TRUE)
  BY DEF Enabled
<1>2. PICK s \in DOMAIN Slaves :
        Given(Slaves[s].tags) /\ p \in {s} \X DOMAIN ValueOf(Slaves[s].tags)
  BY <1>1 DEF Listed
<1>3. p[1] = s
  BY <1>2
<1> QED
  BY <1>1, <1>2, <1>3 DEF FilledPlaces, Fills

LEMMA Reads == ReadInv => CyclesReadWhatTheyShould
<1> SUFFICES ASSUME ReadInv, mbReadTags # Missing, EveryTagNamesACycle,
                    NEW c \in CyclesInUse(updateCycles)
             PROVE  {<<mbReadTags[p].slave, mbReadTags[p].address>> :
                       p \in TagArray(mbReadTags, updateCycles[c].ident)}
                      = Assigned(updateCycles[c].ident)
  BY DEF CyclesReadWhatTheyShould
<1> DEFINE ident == updateCycles[c].ident
           assigned == {q \in Enabled :
                          /\ Given(ReadEntryAt(Slaves, q).address)
                          /\ ReadEntryAt(Slaves, q).update_cycle = {ident}}
<1>1. ident >= 0
  BY InUse
<1>2. PICK memory : mbReadTags = ReadArray(Slaves, memory)
  BY DEF ReadInv
<1>3. /\ DOMAIN mbReadTags = FilledPlaces(Slaves) \cup {EndPlace(Slaves)}
      /\ mbReadTags[EndPlace(Slaves)].cycle = -1
  BY <1>2 DEF ReadArray
<1> HIDE DEF ident
<1>4. ~ (-1 >= 0)
  OBVIOUS
<1>5. TagArray(mbReadTags, ident) = assigned
  <2>1. ASSUME NEW p \in TagArray(mbReadTags, ident)
        PROVE  p \in assigned
    <3>1. p \in DOMAIN mbReadTags /\ mbReadTags[p].cycle = ident
      BY DEF TagArray
    <3>2. p \in FilledPlaces(Slaves)
      BY <1>1, <1>3, <1>4, <3>1
    <3> QED
      BY <3>1, <3>2, NamedTag DEF FilledPlaces
  <2>2. ASSUME NEW p \in assigned
        PROVE  p \in TagArray(mbReadTags, ident)
    <3>1. p \in FilledPlaces(Slaves)
      BY EnabledFilled
    <3>2. p \in DOMAIN mbReadTags /\ mbReadTags[p].cycle = ident
      BY <3>1, NamedTag
    <3>3. \A q \in DOMAIN mbReadTags : Before(q, p) => mbReadTags[q].cycle >= 0
      BY <1>3, <3>1, NamedTag
    <3> QED
      BY <3>2, <3>3 DEF TagArray
  <2> QED
    BY <2>1, <2>2
<1>6. \A p \in assigned :
        /\ mbReadTags[p].slave = SlaveId(ValueOf(Slaves[p[1]].id))
        /\ mbReadTags[p].address = ValueOf(ReadEntryAt(Slaves, p).address)
  BY NamedTag, EnabledFilled
<1>7. Assigned(ident) =
        {<<SlaveId(ValueOf(Slaves[p[1]].id)), ValueOf(ReadEntryAt(Slaves, p).address)>> :
           p \in assigned}
  BY DEF Assigned
<1> HIDE DEF assigned
<1> QED
  BY <1>5, <1>6, <1>7 DEF ident

LEMMA ReadInvInit == Init => ReadInv
BY DEF Init, StartInit, ReadInv

LEMMA ReadInvNext == ReadInv /\ [Next]_vars => ReadInv'
<1> SUFFICES ASSUME ReadInv, [Next]_vars
             PROVE  ReadInv'
  OBVIOUS
<1>1. CASE InitModbus
  <2>1. /\ UNCHANGED cfg /\ Slaves' = Slaves
        /\ Given(cfg.updatecycles) /\ Given(cfg.mbslaves)
        /\ updateCycles' = CycleArray(ValueOf(cfg.updatecycles))
    BY <1>1 DEF InitModbus, CyclesConfigured, SlavesConfigured, Slaves
  <2>2. \E memory : mbReadTags' = ReadArray(Slaves, memory)
    BY <1>1 DEF InitModbus, Slaves
  <2> QED
    BY <2>1, <2>2 DEF ReadInv
<1>2. CASE UNCHANGED <<cfg, updateCycles, mbReadTags>>
  BY <1>2 DEF ReadInv, Slaves
<1>3. InitModbus \/ UNCHANGED <<cfg, updateCycles, mbReadTags>>
  BY DEF Next, Main, Mosquitto, StartHwtags, StartTags, StartRest, InitHwtags, InitTags,
         MqttInit, NoDevice, ModbusFails, ProcessModbus, VarProcess, LinkChange, Message, Tick,
         vars, startVars
<1> QED
  BY <1>1, <1>2, <1>3

-----------------------------------------------------------------------------
(* Results *)

LEMMA TrafficNext == TrafficInv /\ [Next]_vars => TrafficInv'
<1> SUFFICES ASSUME TrafficInv, [Next]_vars
             PROVE  TrafficInv'
  OBVIOUS
<1>1. CASE StartHwtags
  BY <1>1, HwtagsStep
<1>2. CASE StartTags
  BY <1>2, TagsStep
<1>3. CASE StartRest
  BY <1>3, RestStep
<1>4. CASE ProcessModbus
  BY <1>4, ModbusStep
<1>5. CASE VarProcess
  BY <1>5, VarStep
<1>6. CASE Mosquitto
  <2>1. CASE LinkChange
    BY <2>1, QuietStep
  <2>2. CASE \E topic \in Subscriptions, payload \in Payloads, retained \in BOOLEAN :
               Message(topic, payload, retained)
    BY <2>2, MessageStep
  <2> QED
    BY <1>6, <2>1, <2>2 DEF Mosquitto
<1>7. CASE Tick \/ UNCHANGED vars
  BY <1>7, QuietStep
<1> QED
  BY <1>1, <1>2, <1>3, <1>4, <1>5, <1>6, <1>7 DEF Next, Main

LEMMA TrafficInvariant == Spec => []TrafficInv
<1> QED
  BY TrafficInit, TrafficNext, PTL DEF Spec

(* The types of the variables, above all that a raw value keeps to its 16  *)
(* bits whatever number a message carries (modbustag.cpp:176).             *)
THEOREM Typing == Spec => []TypeOK
<1>1. TrafficInv => TypeOK
  BY DEF TrafficInv
<1> QED
  BY <1>1, TrafficInvariant, PTL

(* For every complete file, every order of messages and every state of the *)
(* connection, no array is used before it is allocated                     *)
(* (mbbridge.cpp:1579-1584).                                               *)
THEOREM CompleteRuns == Spec => []CompleteNeverCrashes
<1>1. TrafficInv => CompleteNeverCrashes
  BY DEF TrafficInv
<1> QED
  BY <1>1, TrafficInvariant, PTL

(* Whatever topics the file has, of whatever length, a lookup finds no     *)
(* neighbour of the topic (datatag.cpp:40-90, 269-283).                    *)
THEOREM NeighboursApart == Spec => []NeighboursToldApart
<1>1. TrafficInv => NeighboursToldApart
  BY NeighboursFound DEF TrafficInv
<1> QED
  BY <1>1, TrafficInvariant, PTL

(* For any list of entries, with and without topics, and any checksums     *)
(* that tell the topics apart, a command reaches the entry of its topic    *)
(* (datatag.cpp:269-283, mbbridge.cpp:563-580).                            *)
THEOREM CommandsReach == Spec => []CommandReachesItsEntry
<1>1. TrafficInv => CommandReachesItsEntry
  BY DEF TrafficInv
<1> QED
  BY <1>1, TrafficInvariant, PTL

(* A request writes what was commanded to the register and the slave of    *)
(* the file, for every address, type and number within their widths        *)
(* (modbustag.cpp:107-190).                                                *)
THEOREM RequestsMean == Spec => []RequestMeansCommand
<1>1. TrafficInv => RequestMeansCommand
  BY DEF TrafficInv
<1> QED
  BY <1>1, TrafficInvariant, PTL

(* The published temperature is fresh, for any two intervals of which that *)
(* of publication is not the shorter one (mbbridge.cpp:244-257).           *)
THEOREM TemperatureFresh == Spec => []CpuFresh
<1>1. TrafficInv => CpuFresh
  BY DEF TrafficInv
<1> QED
  BY <1>1, TrafficInvariant, PTL

LEMMA ReadInvariant == Spec => []ReadInv
<1> QED
  BY ReadInvInit, ReadInvNext, PTL DEF Spec

(* For any slaves, disabled ones, without tags or with tags that have no   *)
(* address among them, the elements allocated for mbReadTags hold what is  *)
(* filled in, and the end mark (mbbridge.cpp:1114-1165).                   *)
THEOREM ReadArrayFits == Spec => []ReadTagsFit
<1> QED
  BY ReadInvariant, Fits, PTL

(* For any cycles, slaves and tags, and whatever the memory held before,   *)
(* every cycle reads the registers the file assigns to it, if every tag    *)
(* names a cycle (mbbridge.cpp:986-1037).                                  *)
THEOREM CyclesRead == Spec => []CyclesReadWhatTheyShould
<1> QED
  BY ReadInvariant, Reads, PTL
=============================================================================
