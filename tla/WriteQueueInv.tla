---------------------------- MODULE WriteQueueInv ----------------------------
(***************************************************************************)
(* The inductive invariant of the write path: what the two threads may     *)
(* rely on of one another between any two accesses to the shared fields.   *)
(***************************************************************************)
EXTENDS WriteQueue

(* Only the main thread clears a flag, so the one it acts on stays set.    *)
ScanInv == mainPc \in {"send", "io", "clear"} => writePending[mainIdx]

(* The value in the array is the last command but during the callback.     *)
RawInv ==
  \A t \in WriteTag :
    rawValue[t] = IF mosqTag = t /\ mosqPc = "setRaw" THEN accepted[t] - 1
                                                       ELSE accepted[t]

(* A pending write carries the command it owes or a later one, and the     *)
(* slave has no later one than the array.                                  *)
OwedInv ==
  \A t \in WriteTag :
    /\ owed[t] <= accepted[t]
    /\ writePending[t] => owed[t] <= rawValue[t]
    /\ slaveReg[t] <= rawValue[t]

(* A command that arrives while a write is pending is not the one owed.    *)
LateInv ==
  \A t \in WriteTag : writePending[t] /\ Arriving(t) => owed[t] < accepted[t]

FlightInv ==
  mainPc = "io" =>
    /\ slaveReg[mainIdx] <= mainVal /\ mainVal <= rawValue[mainIdx]
    /\ owed[mainIdx] <= mainVal

(* The failures counted for a tag: the maximum while the request is being  *)
(* abandoned, fewer before, none when no write is under way.               *)
GivingUp(t) == mainIdx = t /\ mainPc \in {"clear", "decLoad", "decStore"} /\ ~mainOk

FailedInv ==
  \A t \in WriteTag :
    /\ GivingUp(t) => writeFailedCount[t] = MaxAttempts
    /\ ~GivingUp(t) => writeFailedCount[t] < MaxAttempts
    /\ ~writePending[t] /\ ~Discarding(t) => writeFailedCount[t] = 0

(* What is known of the last command of t while it is the one owed.        *)
InFlight(t)  == mainIdx = t /\ mainPc = "io"
Delivered(t) == mainIdx = t /\ mainPc = "clear" /\ mainOk

Underway(t) ==
  /\ Discarding(t) => attempts[t] = 0
  /\ InFlight(t)   => attempts[t] = writeFailedCount[t] + 1
  /\ Delivered(t)  => slaveReg[t] = accepted[t]
  /\ Discarding(t) \/ InFlight(t) \/ Delivered(t) \/ attempts[t] = writeFailedCount[t]

Ended(t) == slaveReg[t] = accepted[t] \/ (abandoned[t] /\ attempts[t] = MaxAttempts)

Honour(t) == owed[t] = accepted[t] => IF Settled(t) THEN Ended(t) ELSE Underway(t)

HonourInv == \A t \in WriteTag : Honour(t)

(* A slave that has just answered is on-line, so that noting it again      *)
(* (mbbridge.cpp:296) changes nothing.                                     *)
AnsweredInv ==
  mainOk /\ mainPc \in {"clear", "decLoad", "decStore"} => mbSlaveOnline[SlaveOf[mainIdx]]

(* The parts together are inductive, and imply CounterCoversPending,       *)
(* FreshCommandHonoured and NeverOlder.                                    *)
QueueInv ==
  /\ ScanInv /\ RawInv /\ OwedInv /\ LateInv /\ FlightInv
  /\ FailedInv /\ HonourInv /\ AnsweredInv /\ CounterCoversPending
=============================================================================
