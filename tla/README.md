# mbbridge in TLA+

mbbridge connects slaves on a Modbus RTU line to an MQTT broker.  It reads
registers in cycles and publishes them, and it writes to a slave what is
published under the topics of its `mqtt_tags` list.  One process runs two
threads: the **main loop** (`main_loop`, `process`), which owns the Modbus line
and blocks in every transaction, and the **mosquitto thread**, started by the
`MQTT` constructor, which runs every callback (connected, disconnected, message
received).  They share plain variables; the program has no lock and no atomic.

This directory models the program in TLA+, checks the models with TLC on small
instances, and proves the main results with TLAPS for all instances.

## Inventory

| part | state it keeps | operations | how it interacts |
|---|---|---|---|
| write path (`mbbridge.cpp:266-325, 802-854`, `modbustag.cpp`) | `mbWriteTags[]`: value, pending flag, failure count; `pendingWrites` | `mb_write_request`, `modbus_write_process`, `mb_write_tag` | the request runs on the mosquitto thread, the rest on the main loop; both touch flag, value and counter |
| read cycle (`:337-478, 867-1037`) | `mbReadTags[]`: value, noread count, reference time; `updateCycles[]` | `mb_read_process`, `mb_read_multi_tags`, `mb_read_tag`, `mb_read_registers`, `mb_assign_updatecycles` | main loop; gives way when `pendingWrites > 0`; publishes each tag |
| slave status (`:775-793, 1345`) | `mbSlaveOnline[]`, one status topic per slave | `mb_slave_set_online_status` | called at the end of every transaction, and from `exit_loop` |
| broker connection (`:589-668, 1486`, `mqtt.cpp`) | `_connected`, `mqtt_connection_in_progress`, `mqtt_connection_active`, `mqtt_next_connect_time` | `mqtt_connect`, `mqtt_connection_status`, `MQTT::publish` | callbacks on the mosquitto thread, (re)connects on the main loop |
| tag store (`datatag.cpp`) | up to 100 `Tag`s, one shared iterator index | `addTag`, `getTag` (by CRC16), `getFirstTag`/`getNextTag` | message callback, subscription, clearing at exit |
| value conversion (`datatag.cpp:150-203`, `modbustag.cpp:176-206`) | the last value of a tag | payload text to number, number to 16-bit register or bit, register to scaled value | between the store and both paths |
| register map (`modbustag.cpp:107-133`) | none | `getRegisterType`, `getModbusAddress`, `isSingleBit` | both paths |
| process (`:481-501, 1455-1500`) | none of its own | `process`, `main_loop` | runs a read pass and then a write pass, over one line, one counter, one status per slave, one connection |
| shutdown (`:725-767, 1375-1439`) | the life of every array, the index of the tag store | `exit_loop`, `mqtt_clear_tags` | main loop, while callbacks may still arrive and use the same index |
| configuration (`:545-587, 993-1350`) | fills the arrays and their end marks | `init_tags`, `mb_config*`, `mb_assign_updatecycles` | decides which arrays exist, how long they are, what they index |
| start-up (`:1519-1593`) | the order of all that | `main`, `init_hwtags`, `mqtt_init`, `init_modbus` | before the main loop, but the connection is begun before the modbus side is configured |
| CPU temperature (`:195-262`) | a schedule of reading, one of publication | `init_hwtags`, `var_process` | main loop, through the tag store |
| hardware, logging, command line, build | none that matters later | | |

Hard behaviours, and what correctness means for each part:

* **Write path.**  A message may arrive between any two steps of the pass that
  writes its tag, while the pass blocks on the line for seconds, and while the
  counter is being updated.  A command must reach its slave or be given up after
  the configured attempts, a newer value must never be followed by an older one,
  the reader must give way to every pending write, and no tag may wait for ever.
* **Read cycle.**  A slave that is silent, a pass that is cut off by a write, a
  group of which only some tags are ever visited again, a clock with a resolution
  of a second.  What is published as a value must have been read in this cycle,
  and a tag that cannot be read must have its noread action taken.
* **Slave status.**  The status topic is retained by the broker, so a report that
  is dropped, or a process that dies, leaves a wrong status behind.
* **Broker connection.**  `mqtt_connect` and the callback it causes set the same
  flags on different threads.  A lost connection must always be made again.
* **Process.**  Each path takes the other for its surroundings.  Reads must give way to
  writes and to nothing else, and must resume when the writes are done.
* **Tag store.**  Two topics with one CRC16 are one tag; the list is bounded; its
  iterator is shared by the two threads.  A command must reach the entry its topic is
  listed in, although entries without a topic have no tag.
* **Values and registers.**  A command is a text, a double, an int, 16 bits, a bit or a
  word in turn.  What is written must be what was commanded, in the register the file
  names.
* **Configuration and start-up.**  Sections and settings may be left out; counting and
  filling an array are two loops; messages may arrive before the arrays are there.
* **CPU temperature.**  Two schedules drift apart; a publication that is due while the
  broker is away is passed over.
* **Shutdown.**  No callback may use an array after it is freed; the topics must be cleared,
  or get the noread value, as the configuration asks, although the iterator is shared.

## Modules

`SlaveStatus` — `mbSlaveOnline[]`, the status topics, and
`mb_slave_set_online_status`.  A report is dropped while `MQTT::_connected` is
false, as `MQTT::publish` does.  Both paths and `Shutdown` use it.

`WriteQueue` — the write path.  One action per access to memory the other thread
uses; `pendingWrites++` and `pendingWrites--` are a load and a store.

| code | model |
|---|---|
| `mbWriteTags[i]._rawValue / _writePending / _writefailedcount` | `rawValue[i]`, `writePending[i]`, `writeFailedCount[i]` |
| `mqtt_topic_update`, `mb_write_request` | `LiveMessage`, `RetainedMessage`, `IgnoredMessage`, then `SetRawValue`, `SetWritePending`, `IncLoad`, `IncStore`; `mosqPc` is the position |
| connection and disconnection callbacks | `LinkUp`, `LinkDown` (with the redelivery of retained messages) |
| `process` | `EnterProcess` looks at the connection; `ReadHalf` stands for what the read cycles do to the slaves' status |
| `modbus_write_process` | `StartPass`, `ScanTag`, `EndPass`; `mainPc` is the position, `mainIdx` is `idx` |
| `mb_write_tag` | `SendRequest` / `InvalidAddress`, then `WriteDone`, `WriteTimeout` or `WriteError` |
| success and abandoning branches | `ClearPending`, `DecLoad`, `DecStore` |

A command is its number: the k-th accepted for a tag is k.  `slaveReg[t]` is what
the slave holds; a transaction that fails may have been applied all the same.
`accepted`, `owed`, `attempts`, `abandoned` and `torn` are history variables: they
are read by properties only.

`WriteQueueInv` — the inductive invariant.  `CommandDelivery` — what the write
path promises, without threads, queue or counter.  `WriteDelivery` — the
refinement mapping from `WriteQueue` to it.  `WriteQueueProofs`,
`WriteDeliveryProofs` — the proofs.  `MCWriteQueue` — instances for TLC.

`ReadCycle` — the read path.  It runs on the main thread alone; the rest of the
program is its environment.

| code | model |
|---|---|
| `mbReadTags[t]._rawValue` | `rawAt[t]`: the second in which the value was read, 0 for the constructor's 0 |
| `_noreadcount`, `_referenceTime` | `noreadCount[t]`, `referenceTime[t]` |
| `updateCycles[c].nextUpdateTime`, `.tagArray` | `nextUpdate[c]`, `TagsOf(c)` |
| locals of `mb_read_process` | `readPc`, `cycle` (`index`), `tag`, `now`, `refTime`; `retries` is `retrycount` |
| the loop over cycles and tags | `StartReads`, `SkipCycle`, `BeginCycle`, `VisitNext`, `EndCycle`, `EndReads`; `Cut` is the return at `:469` |
| `mb_read_multi_tags`, `mb_read_tag` | `Republish`, `RefuseGroup`, `InvalidRead`, `SendRead`; `HandOut` gives the result to the tags it is about |
| outcomes in `mb_read_registers` | `Retry`, `ReadAnswered`, `ReadTimeout`, `ReadError` |
| `mqtt_publish_tag` | `PublishTag`; `topic[t]` is what the broker was last sent |
| the other thread, time | `Link`, `Tick` |
| the write path | `Writes`: the counter changes at any moment; `WriteHalf`: a write pass changes a slave's status between two read passes |

`asked`, `misses` and `told` are history variables.  `ReadCycleInv` is the inductive
invariant, `ReadCycleProofs` the proofs, `MCReadCycle` the instances.

`RegisterFeed` — what the read path promises of its topics, without cycles, groups,
retries or cuts: registers are read or cannot be read, a topic is shown the last reading
of the round under way or, after more failures in a row than the tag has patience for, a
mark.  `ReadFeed` — the refinement mapping from `ReadCycle` to it: a round is the run of a
cycle, a reading the second of the read, the failures are `_noreadcount`.

`MqttLink` — the broker connection and the end of the program, on both threads, one
action per access to a variable both use.

| code | model |
|---|---|
| `MQTT::_connected`, `mqtt_connection_in_progress`, `mqtt_connection_active` | `connected`, `inProgress`, `active` |
| `mqtt_next_connect_time` | `untilConnect`: the seconds left, or `Unscheduled` for 0, which compares as a time that has come, like the code's 0 |
| `mqtt_connect` | `Connect` / `ConnectThrows`, `SetInProgress`, `ClearSchedule` |
| `main_loop` (`:1455, 1486-1490`) | `EnterBody`, `LeaveLoop`, `Scheduled`, `NotScheduled`, `NowConnect`, `NotYet` |
| connect and disconnect callbacks with `mqtt_connection_status` | `UpFlag` ... `UpActive`, `DownFlag` ... `DownSchedule`; `cbPc` is the position |
| `mqtt_topic_update` on the arrays | `Received`, `MessageDone` |
| `exit_loop` (`:1411-1439`), end of `main` | `Disconnect`, `FreeArrays`, `GiveUpWaiting`, `Exit` |
| the mosquitto client (external) | `lib`; `Answered`, `Refused`, `Dropped`, `Broken`, `Closed`, `Retried` |

`raced` and `orderly` are history variables.  `MqttLinkInv` is the inductive
invariant, `MqttLinkProofs` the proofs.

`Bridge` — `process` and `main_loop`: `WriteQueue` and `ReadCycle` over one
`pendingWrites`, one `SlaveStatus`, one connection.  It has no definition of a step of
its own: `EnterProcess` is the first step of both, `ReadStep` a step of the read path,
`WriteStep` one of the write path once the reads are done, `RequestStep`, `LinkStep` and
`Callback` are the mosquitto thread's.  What either part takes for its environment is
here the other, and it implements both specifications (`WritesRefine`, `ReadsRefine`)
and by them what each of the two promises.  `doubled` is a history variable: a request was counted for a tag that
was pending already.  `BridgeProofs`, `MCBridge`.

`Shutdown` — what the broker is left with: `exit_loop` with `mqtt_clear_tags`, the
retained status topics over crashes and restarts, and the one iterator of the tag store.

| code | model |
|---|---|
| `mb_slave_set_online_status` anywhere while running | `Transaction`, which uses `SlaveStatus` |
| publication of read tags, of the CPU's tag | `PublishRead`, `PublishCpu` |
| `exit_loop` (`:1375-1420`) | `BeginExit`, `ReportNext`, `AllReported`, `Disconnect`, `Stop`; `pc` is the position, `slave` is `i` |
| `mqtt_clear_tags` (`:725-767`) | `PublishNoread`, `ClearTag`, `BeginLocal` |
| `TagStore::getFirstTag`, `getNextTag` (`datatag.cpp:288-311`) | `FirstTag`, `TestIndex`, `LoadIndex`, `NextTag`, one per access to `_iterateIndex`, on either thread |
| `connect_callback` → `mqtt_subscribe_tags` | `LinkUp`, then `Iterate("mosq")` |
| the process dies, is started again | `Crash`, `Restart` |

`missed`, `wasOnline` and `held` are history variables.  `ShutdownProofs`, `MCShutdown`.

`RegisterMap` — `ModbusTag::getRegisterType` and `getModbusAddress` for all 16-bit
addresses, and `Written`, what the function codes write at a place.

`TagValue` — the way of a value: `IntValues` (payload to int, `datatag.cpp:150-203`),
`RawValue` (int to 16 bits, to a bit for the types i and q, `modbustag.cpp:176`),
`FunctionCode` and `LineValue` (`mb_write_tag`).

`Crc16` — the checksum of `datatag.cpp:43-87`, bit by bit; a register of 16 bits is the
set of the places of the bits that are set.  `Crc16Proofs`.

`Configuration` — `init_tags`, `mb_config_slaves`, `mb_config_tags`,
`mb_config_updatecycles` and `mb_assign_updatecycles` as functions from a file to the
tag store, `WriteArray`, `ReadArray` (with `Allocated`, what is allocated for it),
`CycleArray` and `TagArray`.  The store is a function of the places of its tags, 0 for
the CPU's and the place of its entry for any other; `Added` is `TagStore::addTag`,
`GetTag` the first place with the checksum of a topic (`TopicCrc`, from `Crc16`).  A read
tag is its place in the file, that of its slave and its own in the slave's list, so that
an array is the places that are filled, in order.  The two loops of `mb_config_slaves` are
kept apart: the first adds up lengths (`CountedTags`, `NumTags`, `Allocated`), the second
goes by its own tests of a slave and of a tag (`Fills`, `FilledPlaces`).  A setting that may be left out is
a set of at most one value (`IsConfig` says which); an `int` that is never assigned may
hold any value of `Garbage`.

`Startup` — `main` up to `main_loop`: `InitHwtags`, `InitTags`, `MqttInit`, `NoDevice`,
`ModbusFails`, `InitModbus`, with the early returns and the exception nothing catches.

`TagTraffic` — extends `Startup`: what the tags do from then on, while the process is
still starting (`Listening`) and after.

| code | model |
|---|---|
| `mqtt_topic_update` → `TagStore::getTag`, `Tag::setValue`, `mb_write_request` | `Message`, with `GetTag` by checksum, `SetTagValue`, `WriteRequest` |
| the modbus half of `process` | `ProcessModbus`: crashes on an array that is not there, or `WritePass`, of which only the last request (`line`) and the entries that end are kept |
| `init_hwtags`, `var_process` (`:195-262`) | `Schedule`, `VarProcess` with `ReadCpu` and `PublishCpu` |
| `time(NULL)` | `clock`, `Tick` |

`command` and `line` are history variables.  `TagTrafficProofs` holds the inductive
invariant and the proofs, `MCTagTraffic` the configuration files, with topics whose
checksums (those of `Crc16`) are equal, are that of the empty topic, or could be thought
equal because the topics differ in two neighbouring characters only.

Definitions marked "faulty" are the mistakes each property is tested against
(PROJECT.json, "mutants"); no specification uses them.

### Assumptions of the model

* Accesses to shared memory are sequentially consistent.  The C++ program gives no
  such guarantee (its shared variables are neither atomic nor locked); on the
  machines it is built for a `bool` or an `int` is loaded and stored whole, and the
  accesses of one handler are separated by library calls.
* A message whose payload does not convert changes nothing and is left out.
* Each write tag addresses a register of its own.
* The Modbus library sends a request once, and the slave may or may not apply a
  request that ends in an error.
* The broker may deliver, after each connection, one retained message per topic.
* Of a register value only the second it was read in matters; truncation, scaling
  and format are left to the value conversion.
* The system clock does not go back, and `noreadignore` is not negative.
* The tags of one group have one register type; the code uses the type of the tag
  that causes the read.
* `errno` is read again after logging (`:906-931`); the model lets every request end
  in every outcome that some value of `errno` allows.
* The mosquitto client runs its callbacks one after the other; it reports the end of
  an attempt the program began; it may, but need not, retry by itself; a connect while
  it is connected drops the connection without a callback; after a disconnect it ends,
  but still hands out what it had received.
* `Shutdown`: what is published is at the broker at once (the program publishes with
  QoS 0); the broker may keep or lose the subscriptions when a connection ends.
* `TagTraffic` interleaves whole callbacks and whole passes; what can happen inside them
  is the subject of `WriteQueue`.  A double out of the range of an int converts to an
  end of the range.  A reading of the CPU is some number; it matters only whose it is
  and how old.  A `datatype` is the first letter of a string; one that is no string, for
  which the code takes the first letter of the topic (`:575-578`), is left out.

## Runs

| run | shows | expects |
|---|---|---|
| `write_queue` | three tags of a slave, the second ignoring retained messages and with an address that has no register type, the third without a slave id; 2 commands, 2 attempts, 1 broken connection: type correctness, `CounterCoversPending`, `FreshCommandHonoured`, `NeverOlder`, the refinement `DeliversSafely`, and with its fairness `Delivers` | pass |
| `pending_count` | `PendingCountExact`: the counter is the number of pending writes | violation |
| `last_command` | `LastCommandHonoured`: the last command published is written or given up | violation |
| `read_cycle` | a group of two registers with a gap and a single tag of the same slave in a cycle of its own, 4 seconds, 1 broken connection, a counter that changes and write passes that change the slave's status: type correctness, `FreshPublished`, `OneReadPerGroup`, `StaleBound`, and the refinement `FeedsTopics` | pass |
| `read_cycle_live` | a group too wide for one request, an address without register type, readable tags in two cycles, 1 retry: `DueTagsVisited` | pass |
| `group_noread` | `NoreadTaken`: every tag's noread action is taken | violation |
| `bridge` | two write tags and two read tags in one cycle, a second cycle without tags: both specifications as refinements (`WritesRefine`, `ReadsRefine`), `CountExact` (the counter goes wrong in two ways only), `GivesWay` and `CutForWrites` (reads give way to writes, and to nothing else), `ProcessEnds`, `WritesResolved`, `ReadsResume` | pass |
| `mqtt_link` | three failures, an exit at any moment: type correctness, `RetryUnlessRaced`, `OrderlyExit`, and `ConnectedAgain` without fairness for the client's own retries | pass |
| `late_message` | `ClosedBeforeFree`: no message is handled on freed arrays | violation |
| `traffic` | seventeen configuration files through start-up, two messages and three seconds: `ReadTagsFit` and `CyclesReadWhatTheyShould` (the arrays), `CompleteNeverCrashes`, `NeighboursToldApart` (the lookup), `CommandReachesItsEntry`, `RequestMeansCommand`, `CpuFresh` | pass |
| `optional_section` | `MqttTagsOptional`: the program does without the section `mqtt_tags` | violation |
| `shutdown` | the last slave id, two read tags, a store of three tags, two connections, one restart: `StatusTold`, `OfflineAfterExit`, `ExitTopics`, `AllSubscribed`, `ExitNearsEnd` and `ExitEnds` | pass |

Bounds.  In `write_queue` the first tag is one that is written, the second one that
every pass tries and gives up, the third one that hides itself from the scan.  Two
commands let a tag receive one before, during and after the write of another, or of
another tag; two attempts have a first and a last failure; one broken connection gives
redelivery of retained messages in the middle of a write.  In the read runs four seconds and cycles of one
second let each tag be visited three times (a read, an ignored failure, one that counts),
in the same second as the reference time and after it; one break of the connection can
fall before, in or after a pass; the retry has its run in `read_cycle_live`.  Two tags
make a group and its second member, the third is read by itself.  In `bridge` one attempt
makes a write that fails be given up at once, so that a pass ends with a success, a
failure or nothing, and two commands make a tag be requested twice; with two seconds
every cycle comes due again.  In the connection
runs three failures are a first attempt that fails, a refusal and a lost connection;
an interval of two seconds has a moment at which it has not passed.  The two threads'
positions are finite, so these runs are exhaustive but for `MaxBreaks`.  In `traffic`
each file has another thing missing, doubled or out of range: no CPU tag, intervals in
either order, an entry without topic, two topics with one checksum, a topic with the
checksum of the empty one, a topic two neighbouring characters away from another, types that do not fit, slave ids beyond a byte, disabled and
empty slaves, a tag without cycle, a section, the device, an id missing; the payloads are
the ends of 16 bits, a number no int holds, and the words.  The limit of the store is 3
instead of 100; some files fill it, and one has a tag more.  In `shutdown` two connections allow one to be
made during the exit; three tags leave room for one thread to overtake the other in the
store; one restart shows what the next process believes.  Deadlock is not checked in
`mqtt_link`, `traffic` and `shutdown`, where the process ends.  The proofs have none of
these bounds.

Fairness (`FairSpec`).  `WF(WriteProcess)`: the main loop never stops and every
transaction ends, at the latest by the response timeout.  `WF(WriteRequest)`: a
callback once entered runs to its end.  `WF(LinkUp)`: the broker is reached again
after every break; the number of breaks is finite (`MaxDrops`).  In
`Delivers` and `WritesResolved` the bound `MaxMessages` is an assumption of
substance: a pass ends at its first success and the next begins at the first tag,
so an endless stream of commands for an earlier tag does starve a later one.

For the read path, `WF(ReadProcess)` has the same ground as `WF(WriteProcess)`, and
`WF(Link /\ connected')` the same as `WF(LinkUp)`.  Nothing is assumed of writes:
`DueTagsVisited` excuses a tag as soon as one becomes pending, because the pass is then
cut and the tags after the cut wait for the cycle's next time (set before the reads,
`:452`).  While writes are pending all the time, which the overcount of
`pending_count` can bring about, a cycle that is due again by the next pass keeps its
own later tags and all later cycles waiting.

For the connection, `WF(Main)` and `WF(Callbacks)` say that neither thread stops,
`WF(Tick)` that time passes, and the fourth that an attempt under way ends somehow;
that it does not fail for ever is `MaxBreaks`.

For the composition, `WF(MainThread)`, `WF(RequestStep)` and `WF(LinkStep)` are the same
three assumptions, made once for the one main loop.  Nothing is assumed of time: a read
pass ends whether or not the clock moves.  For the exit, `WF(ExitStep)` says that the
main thread goes on until it stops and `WF(Iterate("mosq"))` that the callback's
iteration does.  The two can set each other's index back, yet not for ever: the
callback's iteration begins once per connection, and `MaxLinks` bounds those.

What the violations say of the code:

* `pending_count` — a second message for a pending tag increments `pendingWrites`
  again (`:809`) but the tag is written, and the counter decremented, once.  From
  then on the counter is above zero with nothing pending, and every read pass is
  cut off after its first tag (`:469`).
* `last_command` — the flag is cleared after the blocking write (`:292`), together
  with a request that arrived meanwhile.
* `group_noread` — a failed group read puts every tag of the group in noread state
  and stamps it with the reference time; when its turn comes, `:347-354` returns
  without publishing, so only the first tag of a group ever takes its noread action.
* `late_message` — `exit_loop` takes an inactive connection for a closed one.  While a
  connection is being made (`main_loop` may begin one after the signal) it is neither
  active nor closed, and its messages arrive after the arrays are gone.
* `optional_section` — `init_tags` returns true without the section it calls optional
  (`:555`) and leaves `mbWriteTags` null; the first `modbus_write_process` over a
  connection dereferences it (`:276`).

What else the models show, with no run of its own.  The exit disagrees with the
configuration file: `mqtt_clear_tags` looks at its two parameters for the tags of the
update cycles, but its loop over the tags of the store (`:757-764`) clears every published
one and gives it no noread value.  With `noreadonexit` alone the retained temperature is
deleted, although clearing is what `clearonexit` (`clear_retain`) is for
(`mbbridge.cfg:11-12`, `mbbridge.cpp:724`, `:1397`).  The model does as the code does
(`Visit`), and `ExitTopics` demands a cleared store topic only with `clearonexit`.
`mqtt_connect` clears the schedule (`:595`) after the attempt has begun, so a callback
that reports a failure before that has its schedule erased, and the program then depends on the client's own retries: it is
the exception (`raced`) in `RetryUnlessRaced`.  A newer command inherits the failures of
the one it replaces: `FreshCommandHonoured` is about commands that begin their own count.
A status that changes while the broker is away, or before a crash, is never corrected
until it changes again: `missed` in `StatusTold`.  A command whose topic has the checksum
of another goes to the other's register, and without a section `cputemp` one with the
checksum 0 of the empty topic has a temperature written to its slave: `ToldApart`.
A tag that names no cycle has whatever the memory held, and a negative value hides all
tags after it: `EveryTagNamesACycle`.  And, of an unusual configuration: a write tag without `slaveid` has id 0, which ends the scan (`:280`)
before the tags after it (`Reachable` in `PendingResolved` and `Delivers`); and of two tags with one
address in a group only the first is ever updated (the `break` at `:415`), so the
second publishes the 0 of its constructor (`Primary` in `FreshPublished`).

## Proofs

From `WriteQueueAssumption` (tags and attempts are naturals, the end mark is in
place, ids in use are in `Slave`) and nothing else:

* `Typing`: `Spec => []TypeOK`.
* `Invariance`: `Spec => [](TypeOK /\ QueueInv)`.  The properties are not inductive.
  `QueueInv` adds what each thread may rely on between its steps: the flag the main
  thread acts on stays set (`ScanInv`), the array holds the last command except
  inside a callback (`RawInv`), what is owed is not newer than the array and the
  slave is not newer either (`OwedInv`, `LateInv`, `FlightInv`), the failure counter
  agrees with the position (`FailedInv`), and, for a command that is still the last
  one, attempts and failures agree (`HonourInv`).
* `CounterCovers`, `FreshHonoured`, `InOrder`: `CounterCoversPending`,
  `FreshCommandHonoured` and `NeverOlder` follow from it.
* `WritesEnd`: `Spec => WritePassEnds`.  Every step of a pass lowers `StepsLeft`, a
  natural number made of the tags still to be scanned and of the main thread's position.
* `WritePathDelivers`: `Spec => DeliversSafely`.  Initial states map to initial
  states; every step of either thread is a `Command`, `Success`, `Failure` or
  `Finish` of the abstract delivery, or leaves it unchanged.

From the assumptions of `ReadCycle` (the configuration functions have the tags and
cycles as domain, addresses are 16-bit, the end mark of the cycles is in place,
intervals and `noreadignore` are naturals):

* `Typing`: `Spec => []TypeOK`.
* `Invariance`: `Spec => [](TypeOK /\ ReadCycleInvariant)`.  Its parts: no reference
  time is later than the run of the cycle it belongs to (`TimeInv`); a tag not in
  noread state was read since its reference time (`ReadInv`), and in this run if it is
  about to be published (`ResultInv`); what a finished request of this run was about
  carries its reference time (`AskedInv`), which is why no member asks again; for a tag
  no group read reaches, the noread counter is the number of misses (`MissInv`); and a
  request is not repeated more often than `MaxRetries` allows (`RetryInv`).
* `GroupAskedOnce`, `StaleBounded`, `PublishedIsFresh`: `OneReadPerGroup`, `StaleBound`
  and `FreshPublished` follow from it.
* `ReadPathFeeds`: `Spec => FeedsTopics`.  Sending the requests, repeating them and being
  cut off are invisible in `RegisterFeed`; an outcome is an `Answer` or a `Silence` of the
  tags it is handed to, and `PublishTag` a `ShowReading` or a `ShowMark`, which is where
  `ReadInv` and `ResultInv` are needed.
* `ReadsEnd`: `Spec => ReadPassEnds`, for any number of cycles, tags and retries, by a
  number of steps that is a product of the three; `RetryInv` keeps it from going below
  zero.

`FreshPublished` allows a value read in the second in which the run of the cycle began,
because the code compares whole seconds, and speaks only of tags a group read can
update: the first of each slave and address.  `StaleBound` is about tags that no group
read reaches; `group_noread` shows why it must be.

From `LinkAssumption` (the constants are naturals), in `MqttLinkProofs`: `Typing`;
`Invariance`, whose parts say what the client can be while a callback runs
(`CallbackInv`), that a failure reported during `mqtt_connect` counts as a race
(`AttemptInv`), and that a closing client only closes (`CloseInv`); and from it
`RetryKept` and `ExitIsOrderly` for `RetryUnlessRaced` and `OrderlyExit`.

From `BridgeAssumption` (the assumptions of both parts), in `BridgeProofs`: `Typing`,
which includes that the two halves of `process` never overlap (`OneHalf`); from it
`WritesKeepTheirSpec` and `ReadsKeepTheirSpec`: a step of one part is a step of the
other's environment, or leaves it alone.  The theorems about the parts then hold of the
composition, those about the abstract specifications included (`BridgeHonoursCommands`,
`BridgePublishesFresh`, `BridgeDelivers`, `BridgeFeeds`).  `ProcessesEnd`: one run of
`process` ends, the steps left of the two passes added up, whatever the callbacks do
between them.  `CountIsExact`,
inductive together with typing and `QueueInv` (`BridgeInv`): counter, requests being counted and writes being discounted add up to
the pending writes, with what either thread has loaded of the counter while neither has
overwritten the other's store; `ReadsGiveWay` and `CutsAreForWrites` follow.

From `ShutdownAssumption` (slave ids in range, the tag of the CPU, if there is one, the
first of the store), in `ShutdownProofs`: `Typing`, for which the shared index must stay
in the store although a thread may store an index that is no longer the next;
`StatusIsTold`, from `Reported`: the loop of `exit_loop` has passed no slave that is still
on-line, and a crash leaves the broker untold; `ExitReportsOffline`, from what has been
reported so far (every slave below `slave` that was on-line has its topic off-line, while
the connection holds); `ExitClearsTopics`, from how far the main thread has come with the
read tags and from the fact that its iteration begins with the first tag, the only local
one, whatever the other thread does to the index (`LocalCleared`, which clears it in
either case); `ConnectionsSubscribe`,
from the fact that the callback alone moves the index until the exit comes to it
(`Subscribing`).  `ExitsAdvance`: every step of an exit, on either thread, lowers the
first that changes of a row of naturals (`ExitLeft`).  No single count would do: a thread
that stores an index it loaded before the other one went on sets the other back, by as
many places as it has lain behind.  But it has itself done with the place it stores, and
what it sends the other over again lies above it, so the counts are kept by place and
compared from the lowest.

`ReadPassEnds`, `WritePassEnds`, `ProcessEnds` and `ExitNearsEnd` are the part of "it
ends" that is a matter of single steps: no interleaving goes on for ever.  That there is
a next step, and that it is taken, is fairness, and checked by TLC.

In `Crc16Proofs`, of the checksum itself, for topics of any length: `NeighboursDiffer`,
topics that differ in one character or in two neighbouring ones have different checksums.
Two runs of the register agree before the window of sixteen bits in which the topics
differ (`SameBefore`); in it, a difference moves up a place with every turn, and none is
pushed out (`Window`); behind it, equal results come from equal registers, because a turn
can be undone (`SameAfter`, which needs the constant term of the polynomial).  So equal
checksums leave no difference in the window.

From `TrafficAssumption` (the files have the form `IsConfig` gives them, topics are
sequences of characters, the bounds are naturals), in `TagTrafficProofs`: the invariant
`TrafficInv` says that the store holds the CPU's tag and one tag per entry with a topic
(`StoreInv`), that the arrays are those of the file and there when they are needed
(`ArrayInv`), that what is pending is the converted value of a command (`PendingInv`), and
that the temperature is read before it is first published and then in time
(`ScheduleInv`).  A lookup finds the least place with a checksum (`Found`, by
well-foundedness of the naturals); if checksums tell topics apart it is the tag of the
topic, and if they do not it is at least not a neighbour's (`NeighboursApart`, from
`NeighboursDiffer`).  `Typing`, `CompleteRuns`, `CommandsReach`, `RequestsMean` and
`TemperatureFresh` follow; `RequestsMean` rests on `MapInverted` (type and place give back
the address) and `LineMeans` (a value of 16 bits survives its conversions).
`ReadArrayFits`: what the second loop of `mb_config_slaves` puts into `mbReadTags`, end mark
included, is never more than the first has counted and allocated.  `NumTagsIsSum` gives the
recursion of the count; a slave adds to the array no more elements than its list has, and
none if its list was not counted (`SlaveFits`), so that the index of the next element is
never above the count, slave after slave (`FilledTo`, `FilledFit`); `CyclesRead`: each cycle's list holds the tags of the file
that name it, in their order, and no index beyond the array.  `MapInjective`: registers of
one kind do not share a place.

What would take an induction over the length of a list or a topic is proved by the least
counterexample: `NatLessThanWellFounded` gives a least place at which the claim fails, and
the place before it refutes that.

Only model-checked: `Delivers`, `WritesResolved`, `ReadsResume`, `DueTagsVisited`,
`ConnectedAgain` and `ExitEnds` (liveness under fairness, for which `ENABLED` would be
needed, is beyond the prover), and the five violations.

## Plan

Done: the write path with its abstract delivery, the read path, their composition, the
broker connection, shutdown and restart with the shared iterator, configuration,
start-up, the way of a command through store, checksum and conversion, the CPU's tag, and
the theorems about each of them.

What is left: for the broker connection, the part of `ConnectedAgain` that is a matter of
single steps, as the paths and the exit have it; and for the write path, that the writes
owed are themselves used up, which is that part of `Delivers`.  The steps from there to
liveness are out of the prover's reach; scaling, formats and the rounding of payloads
would need a model of the arithmetic of floats.

## Not modelled

* The scaling and format of published values (`ModbusTag::getScaledValue`, the printf
  formats): arithmetic on floats without state; a value that is read is abstracted to
  the second of its reading.
* `readConfig` and the parameters of the serial line: they are read once, and fail or
  do not (`ModbusFails`).
* Command line, logging, hardware queries: input and output without state that matters
  later.  Of the hardware only the temperature is used, as any reading.
* Build files, deployment and helper scripts: no behaviour of their own but the restart
  by systemd, which is `Restart`.
* Code nobody calls: `TagStore::deleteAll` before the end of `main`, `isSingleBit`,
  `testCallback`, `setType`.
