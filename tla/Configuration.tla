---------------------------- MODULE Configuration ----------------------------
(***************************************************************************)
(* The arrays and the tag store that init_tags and mb_config make of the   *)
(* configuration file.  A setting of the file that may be left out is a    *)
(* set of at most one value.  Arrays are sequences, counted from 1; an     *)
(* array that was not allocated is the empty sequence, since those that    *)
(* were have at least their end mark.                                      *)
(***************************************************************************)
EXTENDS RegisterMap, Crc16, FiniteSets

CONSTANT Topics      \* the topics considered, a subset of Seq(Char)

(* The checksum of a topic. *)
TopicCrc == [t \in Topics |-> Crc(t)]

Given(setting) == setting # {}
ValueOf(setting) == CHOOSE v \in setting : TRUE
Or(setting, default) == IF Given(setting) THEN ValueOf(setting) ELSE default

(* A setting of the file: a value of the set, or none. *)
IsSetting(setting, S) == setting \subseteq S /\ \A u, v \in setting : u = v

CpuSection == [topic : Topics, readinterval : SUBSET Int, publishinterval : SUBSET Int]

TagEntry ==
  [topic : SUBSET Topics, slaveid : SUBSET Int, address : SUBSET Int,
   datatype : SUBSET STRING, ignoreretained : SUBSET BOOLEAN]

CycleEntry == [id : SUBSET Int, interval : SUBSET Int]

ReadEntry == [address : SUBSET Int, update_cycle : SUBSET Int]

SlaveEntry == [id : SUBSET Int, enabled : SUBSET BOOLEAN, tags : SUBSET Seq(ReadEntry)]

(* The places of the read tags: <<s, k>> is that of the k-th entry in the  *)
(* list of the s-th slave.                                                 *)

Before(p, q) == p[1] < q[1] \/ (p[1] = q[1] /\ p[2] < q[2])

Listed(slaves) ==
  UNION { {s} \X DOMAIN ValueOf(slaves[s].tags) : s \in {u \in DOMAIN slaves : Given(slaves[u].tags)} }

ReadEntryAt(slaves, p) == ValueOf(slaves[p[1]].tags)[p[2]]

(* The files libconfig can return, as far as the proofs rely on their form. *)
IsConfig(c) ==
  /\ c.device \in BOOLEAN
  /\ IsSetting(c.cputemp, CpuSection)
  /\ IsSetting(c.mqtt_tags, Seq(TagEntry))
  /\ \A list \in c.mqtt_tags : \A i \in DOMAIN list :
       IsSetting(list[i].topic, Topics)
  /\ IsSetting(c.updatecycles, Seq(CycleEntry))
  /\ IsSetting(c.mbslaves, Seq(SlaveEntry))
  /\ \A slaves \in c.mbslaves : \A p \in Listed(slaves) :
       IsSetting(ReadEntryAt(slaves, p).update_cycle, Int)

SlaveEnd == 255         \* MODBUS_SLAVE_MAX + 1

SlaveId(n) == n % 256   \* uint8_t

-----------------------------------------------------------------------------
(* The tag store: a function of the places of the tags, in the order in    *)
(* which they are added.  That of the CPU comes first, at 0; the tag of an *)
(* entry of mqtt_tags has the place of the entry, so that entries without  *)
(* a tag leave gaps the code has not: only the order of places matters.    *)

CpuPlace == 0
NoTag    == -1

NoEntry == 0        \* the tag has no callback

NewTag(topic, publish, entry) ==
  [topic |-> topic, crc |-> TopicCrc[topic], publish |-> publish, entry |-> entry]

(* The tag of the CPU, which is published if both intervals are there. *)
HwTag(c) ==
  NewTag(c.topic, Given(c.readinterval) /\ Or(c.publishinterval, 0) > 0, NoEntry)

(* Entries without a topic are passed over. *)
WithTopic(list) == {i \in DOMAIN list : Given(list[i].topic)}

SubscribedTagsCounted(list) ==      \* faulty: the index counts the topics
  [i \in WithTopic(list) |->
     NewTag(ValueOf(list[i].topic), FALSE, Cardinality({j \in WithTopic(list) : j <= i}))]

(* The tags of mqtt_tags: a message for one of them calls mb_write_request *)
(* with the index of its entry in the list.  Topics are not compared.      *)
SubscribedTags(list) ==
  [i \in WithTopic(list) |-> NewTag(ValueOf(list[i].topic), FALSE, i)]

(* TagStore::addTag, for tags behind those there are. *)
Added(store, tags) ==
  [t \in DOMAIN store \cup DOMAIN tags |->
     IF t \in DOMAIN store THEN store[t] ELSE tags[t]]

(* TagStore::getTag: the first place with the checksum of the topic. *)
GetTag(store, topic) ==
  LET places == {t \in DOMAIN store : store[t].crc = TopicCrc[topic]}
  IN  IF places = {} THEN NoTag ELSE Min(places)

-----------------------------------------------------------------------------
(* mbWriteTags[] *)

(* ModbusTag::setDataType, for the first letter of the setting: three      *)
(* types, and the r of the constructor for any other letter.               *)
DataType(letter) ==
  CASE letter \in {"i", "I"} -> "i"
    [] letter \in {"q", "Q"} -> "q"
    [] OTHER                 -> "r"

(* An entry without a topic remains as the constructor of ModbusTag left it. *)
WriteTag(e) ==
  IF Given(e.topic)
  THEN [slave |-> SlaveId(Or(e.slaveid, 0)), address |-> Or(e.address, 0) % (MaxAddress + 1),
        datatype |-> DataType(Or(e.datatype, "r")), ignoreRetained |-> Or(e.ignoreretained, FALSE)]
  ELSE [slave |-> 0, address |-> 0, datatype |-> "r", ignoreRetained |-> FALSE]

WriteArray(list) ==
  [i \in DOMAIN list |-> WriteTag(list[i])]
    \o << [slave |-> SlaveEnd, address |-> 0, datatype |-> "r", ignoreRetained |-> FALSE] >>

-----------------------------------------------------------------------------
(* mbReadTags[] *)

(* The first loop of mb_config_slaves adds up the lengths of the lists.    *)
CountedTags(slave) ==
  IF Given(slave.tags) /\ Or(slave.enabled, TRUE) THEN Len(ValueOf(slave.tags)) ELSE 0

NumTags(slaves) ==
  LET sum[s \in 0 .. Len(slaves)] ==
        IF s = 0 THEN 0 ELSE sum[s - 1] + CountedTags(slaves[s])
  IN  sum[Len(slaves)]

(* How many elements are allocated. *)
Allocated(slaves) == NumTags(slaves) + 1

(* The second loop goes over the slaves again, with a test of its own.     *)
FillsDisabled(slave) == Given(slave.tags)      \* faulty: disabled slaves are not left out
Fills(slave) == Given(slave.tags) /\ Or(slave.enabled, TRUE)

(* Faulty: a tag without an address is filled in all the same. *)
FilledPlacesAll(slaves) == {p \in Listed(slaves) : Fills(slaves[p[1]])}
(* mb_config_tags passes over a tag without an address. *)
FilledPlaces(slaves) ==
  {p \in Listed(slaves) : Fills(slaves[p[1]]) /\ Given(ReadEntryAt(slaves, p).address)}

EndPlace(slaves) == <<Len(slaves) + 1, 1>>

(* The cycle of a tag that names none is what the memory held before.      *)
ReadTagOf(slave, entry, garbage) ==
  [slave |-> SlaveId(ValueOf(slave.id)), address |-> Or(entry.address, 0) % (MaxAddress + 1),
   cycle |-> Or(entry.update_cycle, garbage)]

ReadArray(slaves, garbage) ==
  [p \in FilledPlaces(slaves) \cup {EndPlace(slaves)} |->
     IF p = EndPlace(slaves) THEN [slave |-> SlaveEnd, address |-> 0, cycle |-> -1]
     ELSE ReadTagOf(slaves[p[1]], ReadEntryAt(slaves, p), garbage[p])]

-----------------------------------------------------------------------------
(* updateCycles[] *)

CycleArray(cycles) ==
  [i \in DOMAIN cycles |-> [ident |-> ValueOf(cycles[i].id), interval |-> ValueOf(cycles[i].interval)]]
    \o << [ident |-> -1, interval |-> -1] >>

(* mb_assign_updatecycles: the tags that name the cycle, before the first  *)
(* negative cycle in the list.                                             *)
TagArray(tags, ident) ==
  {p \in DOMAIN tags :
     tags[p].cycle = ident /\ \A q \in DOMAIN tags : Before(q, p) => tags[q].cycle >= 0}

CyclesInUse(cycles) == {c \in DOMAIN cycles : \A d \in 1 .. c : cycles[d].ident >= 0}

(* What mb_config insists on. *)
CyclesConfigured(section) ==
  /\ Given(section) /\ Len(ValueOf(section)) > 0
  /\ \A i \in DOMAIN ValueOf(section) :
       Given(ValueOf(section)[i].id) /\ Given(ValueOf(section)[i].interval)

SlavesConfigured(section) ==
  /\ Given(section) /\ Len(ValueOf(section)) > 0
  /\ \A s \in DOMAIN ValueOf(section) : Given(ValueOf(section)[s].id)
=============================================================================
