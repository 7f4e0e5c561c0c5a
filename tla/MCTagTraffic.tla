---------------------------- MODULE MCTagTraffic ----------------------------
(* Small configuration files for TLC, each with another thing left out,    *)
(* doubled or out of range.  Topics are sequences of characters' codes.    *)
EXTENDS TagTraffic

Temp  == <<116>>                   \* t
Lamp  == <<97, 47, 99>>            \* a/c
Pump  == <<97, 47, 98>>            \* a/b
Clash == <<98, 111, 98>>           \* bob, with the checksum of a/c
Null  == <<97, 103, 104, 122>>     \* aghz, with that of the empty topic

Near  == <<98, 111, 99>>           \* boc: like a/c, but for two neighbours

SomeTopics == {EmptyTopic, Temp, Lamp, Pump, Clash, Null, Near}

CpuOf(read, publish) ==
  {[topic |-> Temp, readinterval |-> read, publishinterval |-> publish]}

Entry(topic, slaveid, address, datatype) ==
  [topic |-> topic, slaveid |-> slaveid, address |-> address, datatype |-> datatype,
   ignoreretained |-> {}]

LampEntry == [Entry({Lamp}, {10}, {3}, {"Q"}) EXCEPT !.ignoreretained = {TRUE}]
PumpEntry == Entry({Pump}, {20}, {40007}, {})
BadTypes  == Entry({Pump}, {266}, {10005}, {"i"})
NoTopic   == Entry({}, {10}, {5}, {"q"})

Tag(address, cycle) == [address |-> address, update_cycle |-> cycle]

SlaveOf(id, enabled, tags) == [id |-> id, enabled |-> enabled, tags |-> tags]

Cycles(id1, id2) == {<< [id |-> id1, interval |-> {1}], [id |-> id2, interval |-> {5}] >>}

TwoSlaves ==
  {<< SlaveOf({10}, {}, {<< Tag({3}, {2}), Tag({}, {2}), Tag({40001}, {4}) >>}),
      SlaveOf({20}, {TRUE}, {<< Tag({40001}, {2}) >>}) >>}

OddSlaves ==
  {<< SlaveOf({10}, {FALSE}, {<< Tag({3}, {2}) >>}), SlaveOf({11}, {}, {}),
      SlaveOf({276}, {}, {<< Tag({30000}, {4}), Tag({7}, {9}), Tag({8}, {4}) >>}) >>}

NamelessCycle ==
  {<< SlaveOf({10}, {}, {<< Tag({3}, {2}), Tag({4}, {}), Tag({5}, {2}) >>}) >>}

Base ==
  [cputemp |-> CpuOf({1}, {2}), mqtt_tags |-> {<< LampEntry, PumpEntry >>},
   device |-> TRUE, updatecycles |-> Cycles({2}, {4}), mbslaves |-> TwoSlaves]

WithTags(list) == [Base EXCEPT !.mqtt_tags = {list}]
WithCpu(cpu)   == [Base EXCEPT !.cputemp = cpu]

TrafficConfigs ==
  { Base,
    WithCpu({}), WithCpu(CpuOf({2}, {1})), WithCpu(CpuOf({0}, {0})),
    WithCpu(CpuOf({1}, {})), WithCpu(CpuOf({2}, {2})),
    WithTags(<< NoTopic >>), WithTags(<< LampEntry, PumpEntry, Entry({Null}, {}, {}, {}) >>),
    WithTags(<< LampEntry, Entry({Clash}, {20}, {40007}, {"r"}) >>),
    [WithTags(<< LampEntry, BadTypes >>) EXCEPT !.mbslaves = OddSlaves],
    [WithTags(<< Entry({Null}, {10}, {1}, {"q"}) >>) EXCEPT !.cputemp = {}],
    [WithTags(<< LampEntry, NoTopic, PumpEntry >>) EXCEPT !.mbslaves = NamelessCycle],
    [Base EXCEPT !.mqtt_tags = {}], [Base EXCEPT !.device = FALSE],
    [Base EXCEPT !.updatecycles = Cycles({2}, {})],
    [Base EXCEPT !.updatecycles = Cycles({-3}, {2})],
    [Base EXCEPT !.mbslaves = {<< SlaveOf({}, {}, {}) >>}] }

(* Files without the section mqtt_tags. *)
Untagged == { [Base EXCEPT !.mqtt_tags = {}], [WithCpu({}) EXCEPT !.mqtt_tags = {}] }

Heap == {-1, 2, 7}

Number(n) == [kind |-> "number", whole |-> n]
Word_(kind) == [kind |-> kind, whole |-> 0]

TrafficPayloads ==
  {Number(0), Number(7), Number(65535), Number(65536), Word_("huge"), Word_("true"),
   Word_("false"), Word_("other")}
=============================================================================
