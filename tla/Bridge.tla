------------------------------- MODULE Bridge -------------------------------
(***************************************************************************)
(* process() of mbbridge.cpp: the read cycles and the write path together, *)
(* over one modbus line, one counter of pending writes, one status of the  *)
(* slaves and one connection to the broker.                                *)
(*                                                                         *)
(* The main loop runs a read pass and then a write pass, while callbacks   *)
(* of the mosquitto thread come in between any two steps.  What either     *)
(* part takes for the behaviour of its surroundings is here the other.     *)
(* The instances take the proofs of the parts along, so that a theorem     *)
(* about a part is one about the composition.                              *)
(***************************************************************************)
EXTENDS Integers, FiniteSets

CONSTANTS
  Slave, MaxDrops,
  NumTags, SlaveOf, IgnoreRetained, ValidAddress, MaxAttempts, MaxMessages,
  NumReadTags, TagSlave, Address, Group, CycleId, HasTopic, NoreadAction,
  NoreadIgnore, NumCycles, Ident, Interval, MaxRetries, MaxClock

VARIABLES
  mbSlaveOnline, slaveTopic, connected, drops, pendingWrites,    \* of both parts
  (* Of the write path: *)
  rawValue, writePending, writeFailedCount, mosqPc, mosqTag, mosqReg,
  mainPc, mainIdx, mainVal, mainOk, mainReg, redeliver, slaveReg, messages,
  accepted, owed, attempts, abandoned, torn,
  (* Of the read path: *)
  clock, nextUpdate, rawAt, noreadCount, referenceTime, topic,
  readPc, cycle, tag, now, refTime, retries, asked, misses, told,
  (* History, never read by the code: *)
  doubled           \* a request was counted for a tag that was already pending

W == INSTANCE WriteDeliveryProofs
R == INSTANCE ReadCycleProofs WITH PendingCount <- Int

statusVars == <<mbSlaveOnline, slaveTopic>>

queueVars ==
  <<rawValue, writePending, writeFailedCount, mosqPc, mosqTag, mosqReg, mainPc, mainIdx,
    mainVal, mainOk, mainReg, connected, redeliver, messages, drops, accepted, owed,
    attempts, abandoned, pendingWrites, torn, slaveReg>>

readVars ==
  <<nextUpdate, rawAt, noreadCount, referenceTime, readPc, cycle, tag, now, refTime,
    retries, topic, misses, told, asked>>

vars == <<statusVars, queueVars, readVars, clock, doubled>>

ASSUME BridgeAssumption == W!QueueConfig /\ R!ReadConfig

Init == W!Init /\ R!Init /\ doubled = FALSE

-----------------------------------------------------------------------------
(* The main thread *)

(* process() looks at the connection once, and reads first. *)
EnterProcess == R!StartReads /\ W!EnterProcess /\ UNCHANGED doubled

ReadStep == R!Pass /\ UNCHANGED <<queueVars, doubled>>

ReadsDoneEarly == readPc \in {"idle", "check"}    \* faulty: writes inside a read pass
ReadsDone == readPc = "idle"

WriteStep == ReadsDone /\ W!WritePass /\ UNCHANGED <<readVars, clock, doubled>>

MainThread == EnterProcess \/ ReadStep \/ WriteStep

-----------------------------------------------------------------------------
(* The mosquitto thread, and time *)

Doubling == mosqPc = "setPending" /\ mosqPc' = "incLoad" /\ writePending[mosqTag]

BesideReads == UNCHANGED <<readVars, clock>> /\ doubled' = (doubled \/ Doubling)

RequestStep == W!WriteRequest /\ BesideReads
LinkStep    == W!LinkUp /\ BesideReads
Callback    == W!Mosquitto /\ BesideReads

Tick == R!Tick /\ UNCHANGED <<queueVars, doubled>>

Next == MainThread \/ Callback \/ Tick

(* The fairness of the two parts: one main loop, callbacks that run to     *)
(* their end, a broker that is reached again after every break.            *)
Fairness == WF_vars(MainThread) /\ WF_vars(RequestStep) /\ WF_vars(LinkStep)

Spec == Init /\ [][Next]_vars
FairSpec == Spec /\ Fairness

-----------------------------------------------------------------------------
(* Properties *)

(* The two halves of process() do not overlap. *)
OneHalf == readPc # "idle" => mainPc = "read"

TypeOK ==
  /\ W!TypeOK /\ R!TypeOK
  /\ doubled \in BOOLEAN
  /\ OneHalf

(* The composition keeps the promises each part was verified with: all the *)
(* other half of process() and the other thread do to a part is what its   *)
(* environment may do there (mbbridge.cpp:485-494).                        *)
WritesRefine == W!Spec
ReadsRefine  == R!Spec

(* pendingWrites is exactly the number of pending writes, but for the      *)
(* request a thread is about to count or discount, unless a request came   *)
(* for a tag that was pending already or a store to the counter was        *)
(* overwritten: those two are all that can go wrong with it.               *)
CountExact ==
  ~torn /\ ~doubled =>
    pendingWrites + W!Uncounted - W!Undiscarded = Cardinality(W!Pending)

(* No read goes on past a tag while a write waits, unless the request is   *)
(* just being counted or a store to the counter was overwritten: a write   *)
(* waits for the read under way and no further one.                        *)
GivesWay ==
  [][readPc = "check" /\ readPc' \in {"visit", "cycles"} /\ ~torn /\ W!Uncounted = 0
       => W!Pending = {}]_vars

(* A read pass is cut off only for the sake of a write that waits, unless  *)
(* the counter has gone wrong in one of the two ways.                      *)
CutForWrites ==
  [][readPc = "check" /\ readPc' = "idle" /\ ~torn /\ ~doubled
       => W!Pending # {}]_vars

(* One run of process() comes to an end: every step of the main thread     *)
(* brings it nearer, and no callback can prolong it (mbbridge.cpp:485-494).*)
StepsLeft == R!StepsLeft + W!StepsLeft

ProcessEnds ==
  [][mainPc # "loop" =>
       UNCHANGED <<R!passVars, W!mainVars>> \/ StepsLeft' \in 0 .. StepsLeft - 1]_vars

(* Pending writes are resolved although each pass reads first.             *)
WritesResolved == W!PendingResolved

(* When the commands stop coming, the counter returns to zero and no pass  *)
(* is cut any more, silent slaves and writes that are given up             *)
(* notwithstanding -- but not after the counter went wrong.                *)
ReadsResume == <>(torn \/ doubled) \/ <>[](pendingWrites = 0)
=============================================================================
