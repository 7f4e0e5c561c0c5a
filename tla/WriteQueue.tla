----------------------------- MODULE WriteQueue -----------------------------
(***************************************************************************)
(* The write path of mbbridge: MQTT commands that become modbus writes.    *)
(*                                                                         *)
(* Two threads share mbWriteTags[] and pendingWrites without a lock.  The  *)
(* mosquitto thread runs mb_write_request for each message; the main loop  *)
(* runs modbus_write_process.  Each action below makes at most one access  *)
(* to a variable the other thread also uses, and pendingWrites++ and       *)
(* pendingWrites-- are a load and a store, as the compiled code has them.  *)
(*                                                                         *)
(* A command is abstracted to its number: the k-th command accepted for a  *)
(* tag is k, and 0 is the content before the first.                        *)
(***************************************************************************)
EXTENDS SlaveStatus, FiniteSets

CONSTANTS
  NumTags,          \* number of entries of mqtt_tags in the configuration
  SlaveOf,          \* SlaveOf[i]: slave id of mbWriteTags[i], end mark included
  IgnoreRetained,   \* the tags configured with ignoreretained = true
  ValidAddress,     \* the tags whose address has a register type
  MaxAttempts,      \* modbusWriteMaxAttempts
  MaxMessages,      \* bound: messages accepted in a behaviour
  MaxDrops          \* bound: broken broker connections in a behaviour

VARIABLES
  rawValue,         \* ModbusTag::_rawValue of each write tag
  writePending,     \* ModbusTag::_writePending
  writeFailedCount, \* ModbusTag::_writefailedcount
  pendingWrites,    \* the global pendingWrites
  mosqPc, mosqTag, mosqReg,           \* mosquitto thread: mb_write_request
  mainPc, mainIdx, mainVal, mainOk, mainReg,  \* main: modbus_write_process
  redeliver,        \* retained messages the broker still owes (external)
  slaveReg,         \* the register each tag addresses in its slave (external)
  messages, drops,  \* the two bounds' counters
  (* History of each tag, never read by the code: *)
  accepted,         \* commands accepted so far
  owed,             \* the command whose arrival began the present write
  attempts,         \* attempts since the last command was accepted
  abandoned,        \* the last write ended in giving up
  torn              \* a store to pendingWrites overwrote the other thread's

tagVars    == <<rawValue, writePending, writeFailedCount>>
statusVars == <<mbSlaveOnline, slaveTopic>>
mosqVars   == <<mosqPc, mosqTag, mosqReg>>
mainVars   == <<mainPc, mainIdx, mainVal, mainOk, mainReg>>
linkVars   == <<connected, redeliver, messages, drops>>
histVars   == <<accepted, owed, attempts, abandoned>>

queueVars  == <<tagVars, mosqVars, mainVars, linkVars, histVars,
                pendingWrites, torn, slaveReg>>

vars == <<queueVars, statusVars>>

WriteTag == 0 .. NumTags - 1    \* the configured entries of mbWriteTags[]
Entry    == 0 .. NumTags        \* with the end mark

QueueConfig ==
  /\ NumTags \in Nat
  /\ Slave \subseteq SlaveMin .. SlaveMax
  /\ SlaveOf \in [Entry -> 0 .. 255]
  /\ SlaveOf[NumTags] = SlaveMax + 1
  /\ \A t \in WriteTag : SlaveOf[t] \in SlaveMin .. SlaveMax => SlaveOf[t] \in Slave
  /\ IgnoreRetained \subseteq WriteTag
  /\ ValidAddress \subseteq WriteTag
  /\ MaxAttempts \in Nat \ {0}
  /\ MaxMessages \in Nat
  /\ MaxDrops \in Nat

ASSUME WriteQueueAssumption == QueueConfig

MosqPc == {"idle", "setRaw", "setPending", "incLoad", "incStore"}
MainPc == {"loop", "read", "scan", "send", "io", "clear", "decLoad", "decStore"}

QueueTypeOK ==
  /\ rawValue \in [WriteTag -> Nat]
  /\ writePending \in [WriteTag -> BOOLEAN]
  /\ writeFailedCount \in [WriteTag -> Nat]
  /\ pendingWrites \in Int
  /\ slaveReg \in [WriteTag -> Nat]

LinkTypeOK ==
  /\ redeliver \subseteq WriteTag
  /\ messages \in Nat
  /\ drops \in Nat

MosqTypeOK ==
  /\ mosqPc \in MosqPc
  /\ mosqReg \in Int
  /\ mosqPc # "idle" => mosqTag \in WriteTag

MainTypeOK ==
  /\ mainPc \in MainPc
  /\ mainIdx \in Entry
  /\ mainVal \in Nat
  /\ mainReg \in Int
  /\ mainPc \notin {"loop", "read", "scan"} =>
       mainIdx \in WriteTag /\ SlaveOf[mainIdx] \in Slave

HistTypeOK ==
  /\ accepted \in [WriteTag -> Nat]
  /\ owed \in [WriteTag -> Nat]
  /\ attempts \in [WriteTag -> Nat]
  /\ abandoned \in [WriteTag -> BOOLEAN]

FlagTypeOK == connected \in BOOLEAN /\ mainOk \in BOOLEAN /\ torn \in BOOLEAN

TypeOK ==
  /\ StatusTypeOK /\ QueueTypeOK /\ LinkTypeOK
  /\ MosqTypeOK /\ MainTypeOK /\ HistTypeOK /\ FlagTypeOK

(* init_tags: a new ModbusTag has nothing pending.  The bridge starts with *)
(* its first connection to the broker still to come.                       *)
QueueInit ==
  /\ rawValue = [t \in WriteTag |-> 0]
  /\ writePending = [t \in WriteTag |-> FALSE]
  /\ writeFailedCount = [t \in WriteTag |-> 0]
  /\ pendingWrites = 0
  /\ slaveReg = [t \in WriteTag |-> 0]

LinkInit == connected = FALSE /\ redeliver = {} /\ messages = 0 /\ drops = 0

MosqInit == mosqPc = "idle" /\ mosqTag = 0 /\ mosqReg = 0

MainInit == mainPc = "loop" /\ mainIdx = 0 /\ mainVal = 0 /\ mainOk = FALSE /\ mainReg = 0

HistInit ==
  /\ accepted = [t \in WriteTag |-> 0]
  /\ owed = [t \in WriteTag |-> 0]
  /\ attempts = [t \in WriteTag |-> 0]
  /\ abandoned = [t \in WriteTag |-> FALSE]
  /\ torn = FALSE

Init == StatusInit /\ QueueInit /\ LinkInit /\ MosqInit /\ MainInit /\ HistInit

-----------------------------------------------------------------------------
(* The mosquitto thread.  It runs one callback at a time, and touches      *)
(* nothing the main thread keeps to itself.                                *)

MosqFrame == UNCHANGED <<statusVars, mainVars, writeFailedCount, slaveReg>>

(* Every subscribed topic may have a message the broker retained: it is    *)
(* delivered anew on each connection (mqtt_subscribe_tags).                *)
LinkUp ==
  /\ mosqPc = "idle" /\ ~connected
  /\ connected' = TRUE
  /\ redeliver' \in SUBSET WriteTag
  /\ MosqFrame
  /\ UNCHANGED <<mosqVars, rawValue, writePending, pendingWrites, torn,
                 messages, drops, histVars>>

LinkDown ==
  /\ mosqPc = "idle" /\ connected
  /\ drops < MaxDrops
  /\ connected' = FALSE
  /\ redeliver' = {}
  /\ drops' = drops + 1
  /\ MosqFrame
  /\ UNCHANGED <<mosqVars, rawValue, writePending, pendingWrites, torn,
                 messages, histVars>>

(* mqtt_topic_update for tag t, up to the first store of mb_write_request. *)
(* The payload converts to a number: one that does not changes nothing.    *)
AcceptCommand(t) ==
  /\ mosqPc = "idle" /\ connected
  /\ messages < MaxMessages
  /\ messages' = messages + 1
  /\ mosqPc' = "setRaw"
  /\ mosqTag' = t
  /\ accepted' = [accepted EXCEPT ![t] = @ + 1]
  /\ owed' = IF writePending[t] THEN owed ELSE [owed EXCEPT ![t] = accepted[t] + 1]
  /\ attempts' = [attempts EXCEPT ![t] = 0]
  /\ abandoned' = [abandoned EXCEPT ![t] = FALSE]
  /\ MosqFrame
  /\ UNCHANGED <<mosqReg, rawValue, writePending, pendingWrites, torn,
                 connected, drops>>

LiveMessage(t) == AcceptCommand(t) /\ UNCHANGED redeliver

RetainedMessage(t) ==
  /\ t \in redeliver \ IgnoreRetained
  /\ AcceptCommand(t)
  /\ redeliver' = redeliver \ {t}

IgnoredMessage(t) ==
  /\ mosqPc = "idle" /\ connected
  /\ t \in redeliver \cap IgnoreRetained
  /\ redeliver' = redeliver \ {t}
  /\ MosqFrame
  /\ UNCHANGED <<mosqVars, rawValue, writePending, pendingWrites, torn,
                 connected, messages, drops, histVars>>

SetRawValue ==
  /\ mosqPc = "setRaw"
  /\ mosqPc' = "setPending"
  /\ rawValue' = [rawValue EXCEPT ![mosqTag] = accepted[mosqTag]]
  /\ MosqFrame
  /\ UNCHANGED <<mosqTag, mosqReg, writePending, pendingWrites, torn,
                 linkVars, histVars>>

SetWritePending ==
  /\ mosqPc = "setPending"
  /\ mosqPc' = "incLoad"
  /\ writePending' = [writePending EXCEPT ![mosqTag] = TRUE]
  /\ MosqFrame
  /\ UNCHANGED <<mosqTag, mosqReg, rawValue, pendingWrites, torn, linkVars, histVars>>

IncLoad ==
  /\ mosqPc = "incLoad"
  /\ mosqPc' = "incStore"
  /\ mosqReg' = pendingWrites
  /\ MosqFrame
  /\ UNCHANGED <<mosqTag, rawValue, writePending, pendingWrites, torn,
                 linkVars, histVars>>

(* Faulty: a request for a tag that others wait behind is not counted. *)
IncStoreShort ==
  /\ mosqPc = "incStore"
  /\ mosqPc' = "idle"
  /\ pendingWrites' = IF mosqReg > 0 THEN mosqReg ELSE 1
  /\ torn' = (torn \/ mosqReg # pendingWrites)
  /\ MosqFrame
  /\ UNCHANGED <<mosqTag, mosqReg, rawValue, writePending, linkVars, histVars>>

IncStore ==
  /\ mosqPc = "incStore"
  /\ mosqPc' = "idle"
  /\ pendingWrites' = mosqReg + 1
  /\ torn' = (torn \/ mosqReg # pendingWrites)
  /\ MosqFrame
  /\ UNCHANGED <<mosqTag, mosqReg, rawValue, writePending, linkVars, histVars>>

WriteRequest == SetRawValue \/ SetWritePending \/ IncLoad \/ IncStore

Mosquitto ==
  \/ LinkUp \/ LinkDown
  \/ \E t \in WriteTag : LiveMessage(t) \/ RetainedMessage(t) \/ IgnoredMessage(t)
  \/ WriteRequest

-----------------------------------------------------------------------------
(* The main thread: one pass of modbus_write_process over mbWriteTags[].   *)

MainFrame == UNCHANGED <<mosqVars, linkVars, rawValue, accepted>>

(* A command the mosquitto thread has not yet made visible to the scan. *)
Arriving(t) == mosqTag = t /\ mosqPc \in {"setRaw", "setPending"}

InList(i) == SlaveOf[i] \in SlaveMin .. SlaveMax

NextTagTwice == mainIdx' = mainIdx + 2     \* faulty: idx++ in the loop head as well
NextTagAgain == UNCHANGED mainIdx          \* faulty: no idx++
NextTag == mainIdx' = mainIdx + 1

(* process() begins only while connected.  It reads first: whatever the     *)
(* read cycles do to the slaves' status, they leave the queue alone.       *)
EnterProcess ==
  /\ mainPc = "loop" /\ connected
  /\ mainPc' = "read"
  /\ MainFrame
  /\ UNCHANGED <<mainIdx, mainVal, mainOk, mainReg, writePending, writeFailedCount,
                 statusVars, pendingWrites, torn, slaveReg, histVars>>

ReadHalf ==
  /\ mainPc = "read"
  /\ \E s \in Slave, online \in BOOLEAN : SetOnlineStatus(s, online)
  /\ UNCHANGED queueVars

(* The connection is not asked for again before the writes. *)
StartPass ==
  /\ mainPc = "read"
  /\ mainPc' = "scan"
  /\ mainIdx' = 0
  /\ MainFrame
  /\ UNCHANGED <<mainVal, mainOk, mainReg, writePending, writeFailedCount,
                 statusVars, pendingWrites, torn, slaveReg, histVars>>

EndPass ==
  /\ mainPc = "scan" /\ ~InList(mainIdx)
  /\ mainPc' = "loop"
  /\ MainFrame
  /\ UNCHANGED <<mainIdx, mainVal, mainOk, mainReg, writePending, writeFailedCount,
                 statusVars, pendingWrites, torn, slaveReg, histVars>>

(* Faulty: the index moves on before the write (a post-increment). *)
ScanTagEarly ==
  /\ mainPc = "scan" /\ InList(mainIdx)
  /\ IF writePending[mainIdx] THEN mainPc' = "send" ELSE UNCHANGED mainPc
  /\ NextTag
  /\ MainFrame
  /\ UNCHANGED <<mainVal, mainOk, mainReg, writePending, writeFailedCount,
                 statusVars, pendingWrites, torn, slaveReg, histVars>>

ScanTag ==
  /\ mainPc = "scan" /\ InList(mainIdx)
  /\ IF writePending[mainIdx]
     THEN mainPc' = "send" /\ UNCHANGED mainIdx
     ELSE NextTag /\ UNCHANGED mainPc
  /\ MainFrame
  /\ UNCHANGED <<mainVal, mainOk, mainReg, writePending, writeFailedCount,
                 statusVars, pendingWrites, torn, slaveReg, histVars>>

CountAttempt ==
  /\ attempts' = [attempts EXCEPT ![mainIdx] = @ + 1]
  /\ UNCHANGED <<owed, abandoned>>

CountFailure == writeFailedCount' = [writeFailedCount EXCEPT ![mainIdx] = @ + 1]

LastAttemptLate == writeFailedCount[mainIdx] + 1 > MaxAttempts    \* faulty: > for >=
LastAttempt == writeFailedCount[mainIdx] + 1 >= MaxAttempts

(* The failure branch of modbus_write_process: the failed attempt is       *)
(* counted, and the last one the code allows abandons the request.         *)
WriteFailed ==
  /\ CountFailure
  /\ mainOk' = FALSE
  /\ IF LastAttempt
     THEN mainPc' = "clear" /\ UNCHANGED mainIdx
     ELSE mainPc' = "scan" /\ NextTag
  /\ MainFrame
  /\ UNCHANGED <<mainVal, mainReg, writePending, pendingWrites, torn>>

(* Faulty: the first attempt uses the value up, and a retry sends 0. *)
RequestValueUsedUp == IF writeFailedCount[mainIdx] > 0 THEN 0 ELSE rawValue[mainIdx]
RequestValue == rawValue[mainIdx]

(* mb_write_tag reads the value and sends the request. *)
SendRequest ==
  /\ mainPc = "send" /\ mainIdx \in ValidAddress
  /\ mainVal' = RequestValue
  /\ mainPc' = "io"
  /\ CountAttempt
  /\ MainFrame
  /\ UNCHANGED <<mainIdx, mainOk, mainReg, writePending, writeFailedCount,
                 statusVars, pendingWrites, torn, slaveReg>>

(* An address without a register type fails before any transaction. *)
InvalidAddress ==
  /\ mainPc = "send" /\ mainIdx \notin ValidAddress
  /\ WriteFailed
  /\ CountAttempt
  /\ UNCHANGED <<statusVars, slaveReg>>

SlaveApplies == slaveReg' = [slaveReg EXCEPT ![mainIdx] = mainVal]

WriteDone ==
  /\ mainPc = "io"
  /\ SlaveApplies
  /\ SetOnlineStatus(SlaveOf[mainIdx], TRUE)
  /\ mainOk' = TRUE
  /\ mainPc' = "clear"
  /\ MainFrame
  /\ UNCHANGED <<mainIdx, mainVal, mainReg, writePending, writeFailedCount,
                 pendingWrites, torn, histVars>>

(* No answer: the request or the answer was lost on the line. *)
WriteTimeout ==
  /\ mainPc = "io"
  /\ SlaveApplies \/ UNCHANGED slaveReg
  /\ SetOnlineStatus(SlaveOf[mainIdx], FALSE)
  /\ WriteFailed
  /\ UNCHANGED histVars

(* A damaged answer, or an exception reported by the slave. *)
WriteError ==
  /\ mainPc = "io"
  /\ SlaveApplies \/ UNCHANGED slaveReg
  /\ WriteFailed
  /\ UNCHANGED <<statusVars, histVars>>

(* A command of this tag that is arriving now begins its next write. *)
ClearPending ==
  /\ mainPc = "clear"
  /\ mainPc' = "decLoad"
  /\ writePending' = [writePending EXCEPT ![mainIdx] = FALSE]
  /\ LET overtaken == Arriving(mainIdx) IN
     /\ abandoned' = [abandoned EXCEPT ![mainIdx] = ~mainOk /\ ~overtaken]
     /\ owed' = [owed EXCEPT ![mainIdx] = IF overtaken THEN accepted[mainIdx] ELSE @]
     /\ attempts' = [attempts EXCEPT ![mainIdx] = IF overtaken THEN 0 ELSE @]
  /\ MainFrame
  /\ UNCHANGED <<mainIdx, mainVal, mainOk, mainReg, writeFailedCount, statusVars,
                 pendingWrites, torn, slaveReg>>

DecLoad ==
  /\ mainPc = "decLoad"
  /\ mainPc' = "decStore"
  /\ mainReg' = pendingWrites
  /\ MainFrame
  /\ UNCHANGED <<mainIdx, mainVal, mainOk, writePending, writeFailedCount,
                 statusVars, pendingWrites, torn, slaveReg, histVars>>

DiscountWritten == IF mainOk THEN mainReg - 1 ELSE mainReg    \* faulty: not on giving up
Discount == mainReg - 1

(* The rest of the branch touches only what this thread alone uses.  After *)
(* a success the pass ends, after an abandoned request it goes on.         *)
DecStore ==
  /\ mainPc = "decStore"
  /\ pendingWrites' = Discount
  /\ torn' = (torn \/ mainReg # pendingWrites)
  /\ writeFailedCount' = [writeFailedCount EXCEPT ![mainIdx] = 0]
  /\ IF mainOk
     THEN /\ mbSlaveOnline' = [mbSlaveOnline EXCEPT ![SlaveOf[mainIdx]] = TRUE]
          /\ mainPc' = "loop" /\ UNCHANGED mainIdx
     ELSE /\ mainPc' = "scan" /\ NextTag
          /\ UNCHANGED mbSlaveOnline
  /\ MainFrame
  /\ UNCHANGED <<mainVal, mainOk, mainReg, writePending, slaveTopic, slaveReg, histVars>>

WritePass ==
  \/ StartPass \/ EndPass \/ ScanTag
  \/ SendRequest \/ InvalidAddress \/ WriteDone \/ WriteTimeout \/ WriteError
  \/ ClearPending \/ DecLoad \/ DecStore

WriteProcess == EnterProcess \/ WritePass

-----------------------------------------------------------------------------
Next == Mosquitto \/ ReadHalf \/ WriteProcess

(* The main loop never stops and every transaction ends, at the latest by  *)
(* its timeout; a callback once entered runs to its end; the broker is     *)
(* reached again after every break.                                        *)
Fairness ==
  /\ WF_vars(WriteProcess)
  /\ WF_vars(WriteRequest)
  /\ WF_vars(LinkUp)

Spec == Init /\ [][Next]_vars
FairSpec == Spec /\ Fairness

-----------------------------------------------------------------------------
(* Properties *)

Pending == {t \in WriteTag : writePending[t]}

Settled(t) == ~writePending[t] /\ ~Arriving(t)

(* Between a flag and the counter's store for it the two differ by one. *)
Uncounted   == IF mosqPc \in {"incLoad", "incStore"} THEN 1 ELSE 0
Undiscarded == IF mainPc \in {"decLoad", "decStore"} THEN 1 ELSE 0

(* The write of t has ended, what it leaves behind is being reset. *)
Discarding(t) == mainIdx = t /\ mainPc \in {"decLoad", "decStore"}

(* pendingWrites never falls below the number of tags that wait for a      *)
(* write, so mb_read_process gives way to every one of them -- as long as  *)
(* no store to the counter overwrote one of the other thread.              *)
CounterCoversPending ==
  ~torn => pendingWrites + Uncounted - Undiscarded >= Cardinality(Pending)

(* A command that arrives while no write is pending for its tag, and is    *)
(* not followed by another, is never lost: when the tag is settled the     *)
(* slave has it, or it was given up after exactly modbusWriteMaxAttempts   *)
(* attempts.                                                               *)
FreshCommandHonoured ==
  \A t \in WriteTag : Settled(t) /\ owed[t] = accepted[t] =>
    \/ slaveReg[t] = accepted[t]
    \/ abandoned[t] /\ attempts[t] = MaxAttempts

(* However commands, retries and lost answers interleave, a slave never    *)
(* receives an older command after a newer one.                            *)
NeverOlder == [][\A t \in WriteTag : slaveReg'[t] >= slaveReg[t]]_vars

(* A pass over mbWriteTags[] comes to an end, whatever the mosquitto       *)
(* thread makes of the array meanwhile: each step of the main thread       *)
(* brings it nearer.  A tag is attempted once in a pass.                   *)
TagSteps == 6

PhaseLeft ==
  CASE mainPc = "scan"    -> TagSteps
    [] mainPc = "send"    -> 5
    [] mainPc = "io"      -> 4
    [] mainPc = "clear"   -> 3
    [] mainPc = "decLoad" -> 2
    [] OTHER              -> 1

StepsLeft ==
  CASE mainPc = "loop" -> 0
    [] mainPc = "read" -> (NumTags + 1) * TagSteps + 1
    [] OTHER           -> (NumTags - mainIdx) * TagSteps + PhaseLeft

WritePassEnds ==
  [][mainPc # "loop" =>
       UNCHANGED mainVars \/ StepsLeft' \in 0 .. StepsLeft - 1]_vars

(* When the commands stop coming, every pending write the scan can reach   *)
(* is written or given up, broken connections and silent slaves            *)
(* notwithstanding.  (An endless stream of commands for an earlier tag     *)
(* keeps a later one waiting, since a pass ends at its first success:      *)
(* MaxMessages is an assumption here, not only a bound.)                   *)
Reachable == {t \in WriteTag : \A u \in 0 .. t : InList(u)}
PendingResolved == \A t \in Reachable : writePending[t] ~> ~writePending[t]

(* What comments and the configuration's documentation say of the queue,   *)
(* and the code does not keep:                                             *)

(* pendingWrites is the number of pending writes whenever neither thread   *)
(* is between a flag and the counter (mbbridge.cpp:82, :809).              *)
PendingCountExact ==
  mosqPc = "idle" /\ mainPc \notin {"decLoad", "decStore"} =>
    pendingWrites = Cardinality(Pending)

(* A topic is written to the slave whenever the broker publishes it: once  *)
(* settled, the slave has the last command or it was given up              *)
(* (mbbridge.cfg:16).                                                      *)
LastCommandHonoured ==
  \A t \in WriteTag : Settled(t) => slaveReg[t] = accepted[t] \/ abandoned[t]
=============================================================================
