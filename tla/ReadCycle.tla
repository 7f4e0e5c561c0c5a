------------------------------ MODULE ReadCycle ------------------------------
(***************************************************************************)
(* The read path of mbbridge: update cycles whose tags are read from their *)
(* slaves, one by one or a group at a time, and published.                 *)
(*                                                                         *)
(* All of it runs on the main thread.  The rest of the program shows in    *)
(* four places: the broker connection comes and goes, writes become        *)
(* pending and cut a pass short, a write between two passes changes the    *)
(* status of its slave, and time passes while a transaction blocks.  A     *)
(* register's value is abstracted to the second it was read.               *)
(***************************************************************************)
EXTENDS SlaveStatus, FiniteSets

CONSTANTS
  NumReadTags,      \* entries of mbReadTags[] before its end mark
  TagSlave, Address, Group, CycleId,            \* the configuration of a tag:
  HasTopic, NoreadAction, NoreadIgnore,         \* functions of its index
  NumCycles,        \* entries of updateCycles[] before its end mark
  Ident, Interval,  \* the configuration of a cycle
  MaxRetries,       \* mbMaxRetries
  PendingCount,     \* the values pendingWrites may take
  MaxClock,         \* bound: the last second of a behaviour
  MaxDrops          \* bound: broken broker connections in a behaviour

VARIABLES
  clock, drops,     \* time(NULL), and the breaks of the connection
  nextUpdate,       \* updatecycle::nextUpdateTime
  rawAt,            \* _rawValue of a read tag: when it was read, 0 for never
  noreadCount,      \* ModbusTag::_noreadcount
  referenceTime,    \* ModbusTag::_referenceTime
  topic,            \* what the broker was last sent for a tag (external)
  pendingWrites,    \* the global pendingWrites, written by the write path
  readPc, cycle, tag, now, refTime, retries,    \* the locals of the pass
  (* History, never read by the code: *)
  asked,            \* the tags that caused a request in this run of a cycle
  misses,           \* consecutive visits that found the tag in noread state
  told              \* the broker was connected at the last visit of the tag

tagVars   == <<rawAt, noreadCount, referenceTime>>
passVars  == <<readPc, cycle, tag, now, refTime, retries>>
pubVars   == <<topic, misses, told>>
lineVars  == <<mbSlaveOnline, slaveTopic>>
readVars  == <<nextUpdate, tagVars, passVars, pubVars, asked>>
vars      == <<readVars, lineVars, clock, drops, connected, pendingWrites>>

ReadTag    == 0 .. NumReadTags - 1
Cycle      == 0 .. NumCycles - 1
CycleEntry == 0 .. NumCycles      \* with the end mark

MaxAddress == 65535      \* uint16_t

ReadConfig ==
  /\ Slave \subseteq SlaveMin .. SlaveMax
  /\ NumReadTags \in Nat
  /\ TagSlave \in [ReadTag -> Slave]
  /\ Address \in [ReadTag -> 0 .. MaxAddress]
  /\ Group \in [ReadTag -> Int]
  /\ CycleId \in [ReadTag -> Int]
  /\ HasTopic \subseteq ReadTag
  /\ NoreadAction \in [ReadTag -> Int]
  /\ NoreadIgnore \in [ReadTag -> Nat]
  /\ NumCycles \in Nat
  /\ Ident \in [CycleEntry -> Int]
  /\ Ident[NumCycles] = -1
  /\ Interval \in [Cycle -> Nat]
  /\ MaxRetries \in Nat
  /\ MaxClock \in Nat
  /\ MaxDrops \in Nat

ASSUME ReadCycleAssumption == ReadConfig

ASSUME CountAssumption == PendingCount \subseteq Int /\ 0 \in PendingCount

-----------------------------------------------------------------------------
(* The arrays the configuration is turned into. *)

(* mb_assign_updatecycles: the tags of cycle c in the order of mbReadTags, *)
(* as far as the first negative cycle id, which is taken for the end mark. *)
Listed(t) == \A u \in 0 .. t : CycleId[u] >= 0

TagsOf(c) == {t \in ReadTag : Listed(t) /\ CycleId[t] = Ident[c]}

InCyclesBeyond(c) == Ident[c] >= -1      \* faulty: goes past the end mark
InCycles(c) == Ident[c] >= 0

RegisterType(addr) ==
  IF addr \in 0 .. 9999 THEN 0
  ELSE IF addr \in 10000 .. 19999 THEN 1
  ELSE IF addr \in 30000 .. 39999 THEN 3
  ELSE IF addr \in 40000 .. 49999 THEN 4
  ELSE -1

Grouped(t) == Group[t] >= 1

Members(c, t) == {u \in TagsOf(c) : TagSlave[u] = TagSlave[t] /\ Group[u] = Group[t]}

(* More registers than one request can read. *)
TooWide(c, t) == \E u, v \in Members(c, t) : Address[v] - Address[u] + 1 > 125

(* The first tag of cycle c with its slave and address: the one a group    *)
(* read that covers this address updates.                                  *)
Primary(c, t) ==
  \A u \in TagsOf(c) : TagSlave[u] = TagSlave[t] /\ Address[u] = Address[t] => t <= u

(* The tags a read caused by t updates.  A group read updates every tag of *)
(* the slave between the group's lowest and highest address, also one that *)
(* is not in the group.                                                    *)
Updated(c, t) ==
  IF Grouped(t)
  THEN {u \in TagsOf(c) :
          /\ TagSlave[u] = TagSlave[t] /\ Primary(c, u)
          /\ \E v, w \in Members(c, t) : Address[v] <= Address[u] /\ Address[u] <= Address[w]}
  ELSE {t}

-----------------------------------------------------------------------------
ReadPc == {"idle", "cycles", "visit", "io", "publish", "check"}

Nothing     == -1     \* no message, or a null message, under the topic
NoreadValue == -2     \* the noread value of the tag

PassTypeOK ==
  /\ readPc \in ReadPc
  /\ cycle \in CycleEntry
  /\ now \in Nat /\ refTime \in Nat /\ retries \in Nat
  /\ readPc \in {"visit", "io", "publish", "check"} =>
       cycle \in Cycle /\ tag \in TagsOf(cycle)

TypeOK ==
  /\ StatusTypeOK /\ PassTypeOK
  /\ connected \in BOOLEAN
  /\ clock \in Nat /\ drops \in Nat
  /\ nextUpdate \in [Cycle -> Nat]
  /\ rawAt \in [ReadTag -> Nat]
  /\ noreadCount \in [ReadTag -> Nat]
  /\ referenceTime \in [ReadTag -> Nat]
  /\ topic \in [ReadTag -> Int]
  /\ pendingWrites \in Int
  /\ asked \subseteq ReadTag
  /\ misses \in [ReadTag -> Nat]
  /\ told \in [ReadTag -> BOOLEAN]

(* mb_config_updatecycles sets the first times, one interval from now. *)
ReadInit ==
  /\ nextUpdate = [c \in Cycle |-> clock + Interval[c]]
  /\ rawAt = [t \in ReadTag |-> 0]
  /\ noreadCount = [t \in ReadTag |-> 0]
  /\ referenceTime = [t \in ReadTag |-> 0]
  /\ topic = [t \in ReadTag |-> Nothing]
  /\ readPc = "idle" /\ cycle = 0 /\ tag = 0 /\ now = 0 /\ refTime = 0 /\ retries = 0
  /\ asked = {}
  /\ misses = [t \in ReadTag |-> 0]
  /\ told = [t \in ReadTag |-> FALSE]

Init ==
  /\ clock = 1 /\ drops = 0 /\ connected = FALSE /\ pendingWrites = 0
  /\ StatusInit /\ ReadInit

-----------------------------------------------------------------------------
(* mb_read_process: the pass over the cycles. *)

OutsideFrame == UNCHANGED <<clock, drops, connected, pendingWrites>>

(* process() begins a pass only while connected. *)
StartReads ==
  /\ readPc = "idle" /\ connected
  /\ readPc' = "cycles"
  /\ cycle' = 0
  /\ now' = clock
  /\ OutsideFrame
  /\ UNCHANGED <<tag, refTime, retries, nextUpdate, tagVars, pubVars, lineVars, asked>>

Due(c) == now >= nextUpdate[c]

NextCycleStuck == IF TagsOf(cycle) = {} THEN cycle ELSE cycle + 1    \* faulty: no index++
NextCycle == cycle + 1

SkipCycle ==
  /\ readPc = "cycles" /\ InCycles(cycle)
  /\ TagsOf(cycle) = {} \/ ~Due(cycle)
  /\ cycle' = NextCycle
  /\ OutsideFrame
  /\ UNCHANGED <<readPc, tag, now, refTime, retries, nextUpdate, tagVars, pubVars,
                 lineVars, asked>>

NextTime(c) == now + Interval[c]

BeginCycle ==
  /\ readPc = "cycles" /\ InCycles(cycle) /\ Due(cycle)
  /\ \E t \in TagsOf(cycle) : (\A u \in TagsOf(cycle) : t <= u) /\ tag' = t
  /\ readPc' = "visit"
  /\ refTime' = clock
  /\ nextUpdate' = [nextUpdate EXCEPT ![cycle] = NextTime(cycle)]
  /\ asked' = {}
  /\ OutsideFrame
  /\ UNCHANGED <<cycle, now, retries, tagVars, pubVars, lineVars>>

EndReads ==
  /\ readPc = "cycles" /\ ~InCycles(cycle)
  /\ readPc' = "idle"
  /\ OutsideFrame
  /\ UNCHANGED <<cycle, tag, now, refTime, retries, nextUpdate, tagVars, pubVars,
                 lineVars, asked>>

NoneWaitsNever == pendingWrites < 0        \* faulty: >= 0 for > 0
NoneWaitsLoose == pendingWrites <= 1       \* faulty: > 1 for > 0
NoneWaits == pendingWrites <= 0

(* After each tag the pass is given up if a write waits. *)
Cut ==
  /\ readPc = "check" /\ ~NoneWaits
  /\ readPc' = "idle"
  /\ OutsideFrame
  /\ UNCHANGED <<cycle, tag, now, refTime, retries, nextUpdate, tagVars, pubVars,
                 lineVars, asked>>

LaterOrSame == {t \in TagsOf(cycle) : t >= tag}    \* faulty: tagIndex++ is missed
Later == {t \in TagsOf(cycle) : t > tag}

VisitNext ==
  /\ readPc = "check" /\ NoneWaits
  /\ \E t \in Later : (\A u \in Later : t <= u) /\ tag' = t
  /\ readPc' = "visit"
  /\ OutsideFrame
  /\ UNCHANGED <<cycle, now, refTime, retries, nextUpdate, tagVars, pubVars,
                 lineVars, asked>>

EndCycle ==
  /\ readPc = "check" /\ NoneWaits
  /\ Later = {}
  /\ cycle' = cycle + 1
  /\ readPc' = "cycles"
  /\ OutsideFrame
  /\ UNCHANGED <<tag, now, refTime, retries, nextUpdate, tagVars, pubVars,
                 lineVars, asked>>

-----------------------------------------------------------------------------
(* mqtt_publish_tag. *)

IsNoread(t) == noreadCount[t] > 0
NoReadIgnoreReached(t) == noreadCount[t] >= NoreadIgnore[t]      \* faulty: >= for >
NoReadIgnoreExceeded(t) == noreadCount[t] > NoreadIgnore[t]

TopicAfter(t) ==
  IF ~connected \/ t \notin HasTopic THEN topic[t]
  ELSE IF ~IsNoread(t) THEN rawAt[t]
  ELSE IF NoReadIgnoreExceeded(t) /\ NoreadAction[t] = 0 THEN Nothing
  ELSE IF NoReadIgnoreExceeded(t) /\ NoreadAction[t] = 1 THEN NoreadValue
  ELSE topic[t]

(* The visit of a tag ends: it is counted as a miss or not. *)
EndVisit ==
  /\ readPc' = "check"
  /\ misses' = [misses EXCEPT ![tag] = IF ~IsNoread(tag) THEN 0
                                       ELSE IF @ <= NoreadIgnore[tag] THEN @ + 1 ELSE @]
  /\ told' = [told EXCEPT ![tag] = connected]
  /\ OutsideFrame
  /\ UNCHANGED <<cycle, tag, now, refTime, retries, nextUpdate, tagVars, lineVars, asked>>

PublishTag ==
  /\ readPc = "publish"
  /\ topic' = [topic EXCEPT ![tag] = TopicAfter(tag)]
  /\ EndVisit

-----------------------------------------------------------------------------
(* mb_read_multi_tags and mb_read_tag. *)

AlreadyRead == Grouped(tag) /\ referenceTime[tag] = refTime

(* Read with its group in this cycle: published unless that read failed.   *)
Republish ==
  /\ readPc = "visit" /\ AlreadyRead
  /\ topic' = IF IsNoread(tag) THEN topic ELSE [topic EXCEPT ![tag] = TopicAfter(tag)]
  /\ EndVisit

RefuseGroup ==
  /\ readPc = "visit" /\ ~AlreadyRead
  /\ Grouped(tag) /\ TooWide(cycle, tag)
  /\ UNCHANGED topic
  /\ EndVisit

NoreadNotifySilent(t) == noreadCount[t]     \* faulty: the failure is not noted
NoreadNotifyShort(t) ==                     \* faulty: < for <=
  IF noreadCount[t] < NoreadIgnore[t] THEN noreadCount[t] + 1 ELSE noreadCount[t]
NoreadNotify(t) ==
  IF noreadCount[t] <= NoreadIgnore[t] THEN noreadCount[t] + 1 ELSE noreadCount[t]

(* Faulty: a tag counts as read only when the read succeeded. *)
StampedIfRead(S, ok) == IF ok /\ Grouped(tag) THEN S ELSE {}
Stamped(S, ok) == IF Grouped(tag) THEN S ELSE {}

(* The result of a read is handed to the tags it is about. *)
HandOut(ok) ==
  LET S == Updated(cycle, tag) IN
  /\ rawAt' = [t \in ReadTag |-> IF ok /\ t \in S THEN clock ELSE rawAt[t]]
  /\ noreadCount' = [t \in ReadTag |->
       IF t \notin S THEN noreadCount[t] ELSE IF ok THEN 0 ELSE NoreadNotify(t)]
  /\ referenceTime' = [t \in ReadTag |->
       IF t \in Stamped(S, ok) THEN refTime ELSE referenceTime[t]]
  /\ readPc' = "publish"
  /\ OutsideFrame
  /\ UNCHANGED <<cycle, tag, now, refTime, nextUpdate, pubVars>>

Reads == ~AlreadyRead /\ ~(Grouped(tag) /\ TooWide(cycle, tag))

InvalidRead ==
  /\ readPc = "visit" /\ Reads
  /\ RegisterType(Address[tag]) < 0
  /\ HandOut(FALSE)
  /\ UNCHANGED <<retries, lineVars, asked>>

SendRead ==
  /\ readPc = "visit" /\ Reads
  /\ RegisterType(Address[tag]) >= 0
  /\ readPc' = "io"
  /\ retries' = 0
  /\ asked' = asked \cup {tag}
  /\ OutsideFrame
  /\ UNCHANGED <<cycle, tag, now, refTime, nextUpdate, tagVars, pubVars, lineVars>>

-----------------------------------------------------------------------------
(* mb_read_registers: the outcomes of a request.  A timeout is tried again *)
(* only if the slave was on-line, an illegal address never.                *)

Retry ==
  /\ readPc = "io" /\ retries < MaxRetries
  /\ retries' = retries + 1
  /\ OutsideFrame
  /\ UNCHANGED <<readPc, cycle, tag, now, refTime, nextUpdate, tagVars, pubVars,
                 lineVars, asked>>

ReadAnswered ==
  /\ readPc = "io"
  /\ SetOnlineStatus(TagSlave[tag], TRUE)
  /\ HandOut(TRUE)
  /\ UNCHANGED <<retries, asked>>

ReadTimeout ==
  /\ readPc = "io"
  /\ retries >= MaxRetries \/ ~mbSlaveOnline[TagSlave[tag]]
  /\ SetOnlineStatus(TagSlave[tag], FALSE)
  /\ HandOut(FALSE)
  /\ UNCHANGED <<retries, asked>>

(* A damaged answer for the last time, or an illegal data address. *)
ReadError ==
  /\ readPc = "io"
  /\ HandOut(FALSE)
  /\ UNCHANGED <<retries, lineVars, asked>>

Pass ==
  \/ SkipCycle \/ BeginCycle \/ EndReads \/ Cut \/ VisitNext \/ EndCycle
  \/ Republish \/ RefuseGroup \/ InvalidRead \/ SendRead
  \/ Retry \/ ReadAnswered \/ ReadTimeout \/ ReadError \/ PublishTag

ReadProcess == StartReads \/ Pass

-----------------------------------------------------------------------------
(* The rest of the program, and time. *)

LinkUp   == ~connected /\ connected' = TRUE /\ UNCHANGED drops
LinkDown == connected /\ drops < MaxDrops /\ connected' = FALSE /\ drops' = drops + 1

Link == (LinkUp \/ LinkDown) /\ UNCHANGED <<readVars, lineVars, clock, pendingWrites>>

(* A write becomes pending, or is done. *)
Writes ==
  /\ pendingWrites' \in PendingCount
  /\ UNCHANGED <<readVars, lineVars, clock, drops, connected>>

(* Between two passes modbus_write_process tries its slaves. *)
WriteHalf ==
  /\ readPc = "idle"
  /\ \E s \in Slave, online \in BOOLEAN : SetOnlineStatus(s, online)
  /\ UNCHANGED <<readVars, clock, drops, connected, pendingWrites>>

Tick ==
  /\ clock < MaxClock
  /\ clock' = clock + 1
  /\ UNCHANGED <<readVars, lineVars, drops, connected, pendingWrites>>

Next == ReadProcess \/ Link \/ Writes \/ WriteHalf \/ Tick

(* The main loop never stops, and every request ends in an answer, an      *)
(* error or a timeout; the broker is reached again after every break.      *)
Fairness == WF_vars(ReadProcess) /\ WF_vars(Link /\ connected')

Spec == Init /\ [][Next]_vars
FairSpec == Spec /\ Fairness

-----------------------------------------------------------------------------
(* Properties *)

(* What is published as the value of a tag was read from the slave in this *)
(* run of the cycle or in the second it began in, and the slave did not    *)
(* fail since -- for every tag that a group read can update.               *)
FreshPublished ==
  [][\A t \in ReadTag :
       topic'[t] # topic[t] /\ topic'[t] >= 0 /\ (Grouped(t) => Primary(cycle, t))
         => topic'[t] >= refTime]_vars

(* In one run of a cycle a slave is asked once for a group, whatever       *)
(* becomes of the request.                                                 *)
OneReadPerGroup ==
  readPc \notin {"idle", "cycles"} =>
    \A t, u \in {v \in asked : Grouped(v) /\ Primary(cycle, v)} :
      u \in Members(cycle, t) => u = t

(* No group read reaches into the registers of t. *)
Alone(t) ==
  /\ ~Grouped(t)
  /\ \A c \in Cycle : \A u \in TagsOf(c) : Grouped(u) => t \notin Updated(c, u)

(* More visits in a row than noreadignore allows found t unreadable, and   *)
(* the last of them could reach the broker.                                *)
Silenced(t) ==
  /\ misses[t] > NoreadIgnore[t]
  /\ told[t]
  /\ NoreadAction[t] \in {0, 1}

(* A topic does not keep a value the bridge can no longer read for longer  *)
(* than noreadignore says, broken connections and cut passes included.     *)
StaleBound == \A t \in HasTopic : Alone(t) /\ Silenced(t) => topic[t] < 0

(* A pass comes to an end, whatever the slaves answer and however often    *)
(* the connection or the clock changes meanwhile: each of its steps brings *)
(* it nearer.  A tag is visited once in a run of a cycle, and a request is *)
(* sent mbMaxRetries + 1 times at most.                                    *)
VisitSteps == MaxRetries + 4
CycleSteps == NumReadTags * VisitSteps + 1

PhaseLeft ==
  CASE readPc = "visit"   -> VisitSteps
    [] readPc = "io"      -> VisitSteps - 1 - retries
    [] readPc = "publish" -> 2
    [] OTHER              -> 1

CyclesLeft(c) == (NumCycles - c) * CycleSteps + 1
TagsLeft(t)   == (NumReadTags - t - 1) * VisitSteps

StepsLeft ==
  CASE readPc = "idle"   -> 0
    [] readPc = "cycles" -> CyclesLeft(cycle)
    [] OTHER             -> CyclesLeft(cycle + 1) + TagsLeft(tag) + PhaseLeft

ReadPassEnds ==
  [][readPc # "idle" =>
       UNCHANGED passVars \/ StepsLeft' \in 0 .. StepsLeft - 1]_vars

(* Every tag of a cycle that has become due is visited, unless a write     *)
(* becomes pending -- broken connections, refused groups and slaves that   *)
(* do not answer notwithstanding.  (A write may cut the pass, and the tags *)
(* after the cut wait for the cycle's next time.)                          *)
Reached(c) == \A d \in 0 .. c : InCycles(d)
Visited(c, t) == readPc = "visit" /\ cycle = c /\ tag = t
DueTagsVisited ==
  \A c \in {d \in Cycle : Reached(d)} : \A t \in TagsOf(c) :
    clock >= nextUpdate[c] ~> Visited(c, t) \/ pendingWrites > 0

(* What the documentation says of reads, and the code does not keep:       *)
(* noreadaction is taken for every tag that has one (mbbridge.cfg:203).    *)
NoreadTaken == \A t \in HasTopic : Silenced(t) => topic[t] < 0
=============================================================================
