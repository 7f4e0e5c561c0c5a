------------------------------- MODULE Startup -------------------------------
(***************************************************************************)
(* The start of the process: main() as far as main_loop, from a            *)
(* configuration file to the tag store and the arrays.  The mosquitto      *)
(* thread is at work as soon as mqtt_init has begun to connect, while      *)
(* the modbus side is still being set up.                                  *)
(***************************************************************************)
EXTENDS Configuration

CONSTANTS
  Configs,      \* the configuration files considered
  MaxTagNum,    \* MAX_TAG_NUM
  Garbage       \* what an int that was never assigned may hold

VARIABLES
  cfg,            \* the configuration file
  pc,             \* where the main thread is
  tagStore,       \* TagStore::_tagList
  mbWriteTags,
  mbReadTags,
  updateCycles

startVars == <<cfg, pc, tagStore, mbWriteTags, mbReadTags, updateCycles>>

Missing == << >>        \* an array that was never allocated

StartPc == {"hwtags", "tags", "mqtt", "modbus"}
LoopPc  == {"loop", "var"}
EndPc   == {"failed", "crashed"}      \* by exit_fail or an exception; by a null pointer

StartInit ==
  /\ cfg \in Configs
  /\ pc = "hwtags"
  /\ tagStore = << >>
  /\ mbWriteTags = Missing /\ mbReadTags = Missing /\ updateCycles = Missing

-----------------------------------------------------------------------------
(* init_hwtags.  When the interval of publication is missing the tag is in *)
(* the store already, but the process ends.                                *)
InitHwtags ==
  /\ pc = "hwtags"
  /\ IF Given(cfg.cputemp)
     THEN LET c == ValueOf(cfg.cputemp)
          IN  /\ tagStore' = [t \in {CpuPlace} |-> HwTag(c)]
              /\ pc' = IF Given(c.readinterval) /\ Given(c.publishinterval)
                       THEN "tags" ELSE "failed"
     ELSE pc' = "tags" /\ UNCHANGED tagStore
  /\ UNCHANGED <<cfg, mbWriteTags, mbReadTags, updateCycles>>

(* Without the section mqtt_tags init_tags is content, and leaves          *)
(* mbWriteTags unallocated.  The tag the full store refuses is used        *)
(* nevertheless.                                                           *)
InitTags ==
  /\ pc = "tags"
  /\ IF ~Given(cfg.mqtt_tags)
     THEN pc' = "mqtt" /\ UNCHANGED <<tagStore, mbWriteTags>>
     ELSE LET list  == ValueOf(cfg.mqtt_tags)
              store == Added(tagStore, SubscribedTags(list))
          IN  IF Cardinality(DOMAIN store) > MaxTagNum
              THEN pc' = "crashed" /\ UNCHANGED <<tagStore, mbWriteTags>>
              ELSE /\ tagStore' = store
                   /\ mbWriteTags' = WriteArray(list)
                   /\ pc' = "mqtt"
  /\ UNCHANGED <<cfg, mbReadTags, updateCycles>>

(* mqtt_init: the first attempt to connect begins, or MQTT::connect throws *)
(* and nothing catches it.                                                 *)
MqttInit ==
  /\ pc = "mqtt"
  /\ pc' \in {"modbus", "failed"}
  /\ UNCHANGED <<cfg, tagStore, mbWriteTags, mbReadTags, updateCycles>>

(* init_modbus without a device is content, and leaves the rest undone. *)
NoDevice ==
  /\ pc = "modbus" /\ ~cfg.device
  /\ pc' = "loop"
  /\ UNCHANGED <<cfg, tagStore, mbWriteTags, mbReadTags, updateCycles>>

(* Faulty: main does not ask whether init_modbus failed. *)
ModbusFailsUnseen ==
  /\ pc = "modbus" /\ cfg.device
  /\ pc' = "loop"
  /\ UNCHANGED <<cfg, tagStore, mbWriteTags, mbReadTags, updateCycles>>

(* The parameters of the line, the context and the device itself may each  *)
(* fail, and so may mb_config.                                             *)
ModbusFails ==
  /\ pc = "modbus" /\ cfg.device
  /\ pc' = "failed"
  /\ UNCHANGED <<cfg, tagStore, mbWriteTags, mbReadTags, updateCycles>>

(* mb_config and mb_assign_updatecycles. *)
InitModbus ==
  /\ pc = "modbus" /\ cfg.device
  /\ CyclesConfigured(cfg.updatecycles) /\ SlavesConfigured(cfg.mbslaves)
  /\ pc' = "loop"
  /\ updateCycles' = CycleArray(ValueOf(cfg.updatecycles))
  /\ LET slaves == ValueOf(cfg.mbslaves)
     IN  \E memory \in [FilledPlaces(slaves) -> Garbage] : mbReadTags' = ReadArray(slaves, memory)
  /\ UNCHANGED <<cfg, tagStore, mbWriteTags>>

Start ==
  InitHwtags \/ InitTags \/ MqttInit \/ NoDevice \/ ModbusFails \/ InitModbus

-----------------------------------------------------------------------------
(* Properties *)

(* The sections main_loop cannot do without, the store large enough. *)
Complete ==
  /\ cfg.device /\ Given(cfg.mqtt_tags)
  /\ Cardinality(WithTopic(ValueOf(cfg.mqtt_tags))) < MaxTagNum

(* With a complete configuration no array is used before it is there,      *)
(* whatever the broker sends while the process starts: the order of main   *)
(* is right (mbbridge.cpp:1579-1584).                                      *)
CompleteNeverCrashes == Complete => pc # "crashed"

(* The elements allocated for mbReadTags hold every tag that is filled in  *)
(* and the end mark, with disabled slaves, slaves without tags and tags    *)
(* without an address in the file: the loop that adds up the lengths of    *)
(* the lists and the one that fills the array are two, each with its own   *)
(* tests (mbbridge.cpp:1113-1128 and 1131-1166).                           *)
ReadTagsFit ==
  mbReadTags # Missing => Cardinality(DOMAIN mbReadTags) <= Allocated(ValueOf(cfg.mbslaves))

Slaves == ValueOf(cfg.mbslaves)

(* The entries of slaves that are not disabled. *)
Enabled == {p \in Listed(Slaves) : Or(Slaves[p[1]].enabled, TRUE)}

(* The registers the file assigns to a cycle. *)
Assigned(ident) ==
  {<<SlaveId(ValueOf(Slaves[p[1]].id)), ValueOf(ReadEntryAt(Slaves, p).address)>> :
     p \in {q \in Enabled :
              /\ Given(ReadEntryAt(Slaves, q).address)
              /\ ReadEntryAt(Slaves, q).update_cycle = {ident}}}

EveryTagNamesACycle ==
  \A p \in Enabled : LET t == ReadEntryAt(Slaves, p) IN
    Given(t.address) =>
      /\ Given(t.update_cycle) /\ ValueOf(t.update_cycle) >= 0
      /\ ValueOf(t.address) \in 0 .. MaxAddress

(* Every cycle reads exactly the registers the file assigns to it, if      *)
(* every tag names a cycle: one that does not may hide all that follow it. *)
CyclesReadWhatTheyShould ==
  mbReadTags # Missing /\ EveryTagNamesACycle =>
    \A c \in CyclesInUse(updateCycles) : LET ident == updateCycles[c].ident IN
      {<<mbReadTags[p].slave, mbReadTags[p].address>> : p \in TagArray(mbReadTags, ident)}
        = Assigned(ident)

(* What a comment and the code of init_tags say, and the rest does not     *)
(* keep: the section mqtt_tags is optional (mbbridge.cpp:554).             *)
MqttTagsOptional == cfg.device => (pc = "crashed" => Given(cfg.mqtt_tags))
=============================================================================
