------------------------- MODULE WriteDeliveryProofs -------------------------
(***************************************************************************)
(* The write path implements CommandDelivery: the proof of its safety      *)
(* part, for every configuration.  Each step of the two threads is shown   *)
(* to be the step of the delivery it stands for, or to be invisible there. *)
(***************************************************************************)
EXTENDS WriteDelivery, WriteQueueProofs

USE DEF NextTag, CountFailure, LastAttempt, RequestValue, Discount

(* The values the refinement mapping gives to the delivery's variables.    *)
Open     == [t \in WriteTag |-> writePending[t] \/ Arriving(t)]
Failures == [t \in WriteTag |-> IF Discarding(t) THEN 0 ELSE writeFailedCount[t]]
Done     == [t \in WriteTag |-> Delivered(t)]

LEMMA DeliveryInit == Init => Delivery!Init
BY DEF Init, QueueInit, HistInit, MosqInit, MainInit, Delivery!Init, Arriving, Discarding,
       Delivered

LEMMA CommandStep ==
  ASSUME TypeOK, QueueInv, NEW t \in WriteTag, AcceptCommand(t)
  PROVE  Delivery!Command(t)
<1> USE DEF TypeOK, QueueTypeOK, HistTypeOK
<1>1. UNCHANGED <<mainPc, mainIdx, mainOk, writeFailedCount, slaveReg, writePending>>
  BY DEF AcceptCommand, MosqFrame, mainVars
<1>2. Open' = [Open EXCEPT ![t] = TRUE]
  BY <1>1 DEF AcceptCommand, Open, Arriving
<1>3. Failures' = Failures /\ Done' = Done
  BY <1>1 DEF Failures, Done, Discarding, Delivered
<1>4. owed' = [owed EXCEPT ![t] = IF Open[t] THEN @ ELSE accepted[t] + 1]
  BY DEF AcceptCommand, Open, Arriving
<1>5. accepted' = [accepted EXCEPT ![t] = @ + 1]
  BY DEF AcceptCommand
<1> QED
  BY <1>1, <1>2, <1>3, <1>4, <1>5 DEF Delivery!Command, Open, Failures, Done

(* While a request is on its way the slave may be given what it carries.   *)
LEMMA DeliverableValue ==
  ASSUME TypeOK, QueueInv, mainPc = "io"
  PROVE  /\ mainIdx \in WriteTag
         /\ mainVal \in Delivery!Deliverable(mainIdx)
         /\ Delivery!Underway(mainIdx)
<1>1. mainIdx \in WriteTag /\ writePending[mainIdx]
  BY DEF TypeOK, MainTypeOK, QueueInv, ScanInv
<1>2. owed[mainIdx] <= mainVal /\ slaveReg[mainIdx] <= mainVal /\ mainVal <= rawValue[mainIdx]
  BY DEF QueueInv, FlightInv
<1>3. rawValue[mainIdx] <= accepted[mainIdx]
  BY <1>1 DEF QueueInv, RawInv, TypeOK, HistTypeOK
<1>4. mainVal \in Delivery!Deliverable(mainIdx)
  BY <1>1, <1>2, <1>3
  DEF Delivery!Deliverable, TypeOK, QueueTypeOK, HistTypeOK, MainTypeOK
<1>5. writeFailedCount[mainIdx] < MaxAttempts
  BY <1>1 DEF QueueInv, FailedInv, GivingUp
<1>6. Delivery!Underway(mainIdx)
  BY <1>1, <1>5 DEF Delivery!Underway, Delivered, Discarding
<1> QED
  BY <1>1, <1>4, <1>6

LEMMA SuccessStep ==
  ASSUME TypeOK, QueueInv, WriteDone
  PROVE  Delivery!Success(mainIdx)
<1>1. mainPc = "io" /\ mainPc' = "clear" /\ mainIdx' = mainIdx /\ mainOk'
  BY DEF WriteDone
<1>2. UNCHANGED <<accepted, owed, writePending, writeFailedCount, mosqPc, mosqTag>>
  BY DEF WriteDone, MainFrame, histVars, mosqVars
<1>3. Open' = Open /\ Failures' = Failures
  BY <1>1, <1>2 DEF Open, Failures, Arriving, Discarding
<1>4. Done' = [Done EXCEPT ![mainIdx] = TRUE]
  BY <1>1 DEF Done, Delivered
<1> QED
  BY <1>1, <1>2, <1>3, <1>4, DeliverableValue
  DEF Delivery!Success, WriteDone, SlaveApplies, Open, Failures, Done

LEMMA FailureStep ==
  ASSUME TypeOK, QueueInv, InvalidAddress \/ WriteTimeout \/ WriteError,
         NEW t \in WriteTag, t = mainIdx
  PROVE  Delivery!Failure(t)
<1>1. WriteFailed /\ mainPc \in {"send", "io"} /\ UNCHANGED <<accepted, owed>>
  BY DEF InvalidAddress, WriteTimeout, WriteError, WriteFailed, CountAttempt, MainFrame, histVars
<1>2. UNCHANGED <<writePending, mosqPc, mosqTag>>
      /\ writeFailedCount' = [writeFailedCount EXCEPT ![mainIdx] = @ + 1]
      /\ mainPc' \in {"scan", "clear"} /\ ~mainOk'
  BY <1>1 DEF WriteFailed, MainFrame, mosqVars
<1>3. mainIdx \in WriteTag /\ writePending[mainIdx] /\ writeFailedCount[mainIdx] < MaxAttempts
  BY <1>1 DEF TypeOK, MainTypeOK, QueueInv, ScanInv, FailedInv, GivingUp
<1>4. Delivery!Underway(t)
  BY <1>1, <1>3 DEF Delivery!Underway, Delivered, Discarding
<1>5. Open' = Open
  BY <1>2 DEF Open, Arriving
<1>6. Failures' = [Failures EXCEPT ![t] = @ + 1]
  BY <1>1, <1>2, <1>3 DEF Failures, Discarding, TypeOK, QueueTypeOK
<1>7. Done' = Done
  BY <1>1, <1>2 DEF Done, Delivered
<1>8. \E c \in Delivery!Deliverable(t) \cup {slaveReg[t]} :
        slaveReg' = [slaveReg EXCEPT ![t] = c]
  <2>1. CASE UNCHANGED slaveReg
    BY <2>1, <1>3 DEF TypeOK, QueueTypeOK
  <2>2. CASE mainPc = "io" /\ SlaveApplies
    <3>1. mainVal \in Delivery!Deliverable(t)
      BY <2>2, DeliverableValue DEF Delivery!Deliverable
    <3> QED
      BY <2>2, <3>1 DEF SlaveApplies
  <2> QED
    BY <2>1, <2>2 DEF InvalidAddress, WriteTimeout, WriteError
<1> QED
  BY <1>1, <1>4, <1>5, <1>6, <1>7, <1>8 DEF Delivery!Failure, Open, Failures, Done

LEMMA FinishStep ==
  ASSUME TypeOK, QueueInv, ClearPending, NEW t \in WriteTag, t = mainIdx
  PROVE  Delivery!Finish(t)
<1> USE DEF TypeOK, QueueTypeOK, HistTypeOK
<1>1. /\ mainPc = "clear" /\ mainPc' = "decLoad"
      /\ UNCHANGED <<mainIdx, mainOk, slaveReg, writeFailedCount, accepted, mosqPc, mosqTag>>
  BY DEF ClearPending, MainFrame, mosqVars
<1>2. mainIdx \in WriteTag /\ writePending[mainIdx]
  BY <1>1 DEF MainTypeOK, QueueInv, ScanInv
<1>3. Done[t] \/ Failures[t] = MaxAttempts
  BY <1>1, <1>2 DEF Done, Failures, Delivered, Discarding, QueueInv, FailedInv, GivingUp
<1>4. Done' = [Done EXCEPT ![t] = FALSE]
  BY <1>1 DEF Done, Delivered
<1>5. Failures' = [Failures EXCEPT ![t] = 0]
  BY <1>1 DEF Failures, Discarding
<1>6. CASE ~Arriving(mainIdx)
  <2>1. Open' = [Open EXCEPT ![t] = FALSE]
    BY <1>1, <1>2, <1>6 DEF ClearPending, Open, Arriving
  <2>2. owed' = owed
    BY <1>1, <1>2, <1>6 DEF ClearPending
  <2> QED
    BY <1>1, <1>2, <1>3, <1>4, <1>5, <2>1, <2>2 DEF Delivery!Finish, Open, Failures, Done
<1>7. CASE Arriving(mainIdx)
  <2>1. Open' = Open
    BY <1>1, <1>2, <1>7 DEF ClearPending, Open, Arriving
  <2>2. owed' = [owed EXCEPT ![t] = accepted[t]]
    BY <1>1, <1>2, <1>7 DEF ClearPending
  <2>3. owed[mainIdx] < accepted[mainIdx]
    BY <1>2, <1>7 DEF QueueInv, LateInv
  <2> QED
    BY <1>1, <1>2, <1>3, <1>4, <1>5, <2>1, <2>2, <2>3
    DEF Delivery!Finish, Open, Failures, Done
<1> QED
  BY <1>6, <1>7

(* The other steps the delivery does not see. *)
LEMMA HiddenStep ==
  ASSUME TypeOK, QueueInv,
         UNCHANGED <<accepted, slaveReg, owed>>, Open' = Open, Failures' = Failures, Done' = Done
  PROVE  UNCHANGED Delivery!vars
BY DEF Delivery!vars, Open, Failures, Done

LEMMA MosqHidden ==
  ASSUME TypeOK, QueueInv,
         \/ LinkUp \/ LinkDown \/ WriteRequest
         \/ \E t \in WriteTag : IgnoredMessage(t)
  PROVE  UNCHANGED Delivery!vars
<1>1. MosqFrame
  BY MosqIsFramed DEF Mosquitto
<1>2. UNCHANGED <<mainPc, mainIdx, mainOk, writeFailedCount, slaveReg>>
  BY <1>1 DEF MosqFrame, mainVars
<1>3. UNCHANGED <<accepted, owed>>
  BY DEF LinkUp, LinkDown, WriteRequest, IgnoredMessage, SetRawValue, SetWritePending,
         IncLoad, IncStore, histVars
<1>4. Failures' = Failures /\ Done' = Done
  BY <1>2 DEF Failures, Done, Discarding, Delivered
<1>5. \A t \in WriteTag : (writePending[t] \/ Arriving(t))' <=> (writePending[t] \/ Arriving(t))
  BY DEF LinkUp, LinkDown, WriteRequest, IgnoredMessage, SetRawValue, SetWritePending,
         IncLoad, IncStore, mosqVars, Arriving, TypeOK, QueueTypeOK, MosqTypeOK
<1>6. Open' = Open
  BY <1>5 DEF Open
<1> QED
  BY <1>2, <1>3, <1>4, <1>6, HiddenStep

LEMMA MainHidden ==
  ASSUME TypeOK, QueueInv,
         EnterProcess \/ StartPass \/ EndPass \/ ScanTag \/ SendRequest \/ DecLoad \/ DecStore
  PROVE  UNCHANGED Delivery!vars
<1>1. UNCHANGED <<mosqPc, mosqTag, accepted>>
  BY MainIsFramed DEF WriteProcess, WritePass, MainFrame, mosqVars
<1>2. UNCHANGED <<slaveReg, owed, writePending>>
  BY DEF EnterProcess, StartPass, EndPass, ScanTag, SendRequest, DecLoad, DecStore, CountAttempt, histVars
<1>3. Open' = Open
  BY <1>1, <1>2 DEF Open, Arriving
<1>4. Done' = Done
  BY DEF EnterProcess, StartPass, EndPass, ScanTag, SendRequest, DecLoad, DecStore, Done, Delivered
<1>5. Failures' = Failures
  <2>1. CASE DecStore
    <3>1. \A t \in WriteTag : t # mainIdx => ~Discarding(t)
      BY DEF Discarding
    <3>2. \A t \in WriteTag : ~Discarding(t)'
      BY <2>1 DEF DecStore, Discarding
    <3>3. Discarding(mainIdx) /\ writeFailedCount' = [writeFailedCount EXCEPT ![mainIdx] = 0]
      BY <2>1 DEF DecStore, Discarding
    <3> QED
      BY <3>1, <3>2, <3>3 DEF Failures, TypeOK, QueueTypeOK
  <2>2. CASE ~DecStore
    BY <2>2 DEF EnterProcess, StartPass, EndPass, ScanTag, SendRequest, DecLoad, Failures, Discarding
  <2> QED
    BY <2>1, <2>2
<1> QED
  BY <1>1, <1>2, <1>3, <1>4, <1>5, HiddenStep

LEMMA DeliveryNext ==
  TypeOK /\ QueueInv /\ [Next]_vars => [Delivery!Next]_(Delivery!vars)
<1> SUFFICES ASSUME TypeOK, QueueInv, [Next]_vars
             PROVE  Delivery!Next \/ UNCHANGED Delivery!vars
  OBVIOUS
<1>1. CASE \E t \in WriteTag : LiveMessage(t) \/ RetainedMessage(t)
  BY <1>1, CommandStep DEF LiveMessage, RetainedMessage, Delivery!Next
<1>2. CASE LinkUp \/ LinkDown \/ WriteRequest \/ \E t \in WriteTag : IgnoredMessage(t)
  BY <1>2, MosqHidden
<1>3. CASE WriteDone
  BY <1>3, SuccessStep, DeliverableValue DEF WriteDone, Delivery!Next
<1>4. CASE InvalidAddress \/ WriteTimeout \/ WriteError
  <2>1. mainIdx \in WriteTag
    BY <1>4 DEF InvalidAddress, WriteTimeout, WriteError, TypeOK, MainTypeOK
  <2>2. PICK t \in WriteTag : t = mainIdx
    BY <2>1
  <2>3. Delivery!Failure(t)
    BY <1>4, <2>2, FailureStep
  <2> QED
    BY <2>3 DEF Delivery!Next
<1>5. CASE ClearPending
  <2>1. mainIdx \in WriteTag
    BY <1>5 DEF ClearPending, TypeOK, MainTypeOK
  <2>2. PICK t \in WriteTag : t = mainIdx
    BY <2>1
  <2>3. Delivery!Finish(t)
    BY <1>5, <2>2, FinishStep
  <2> QED
    BY <2>3 DEF Delivery!Next
<1>6. CASE EnterProcess \/ StartPass \/ EndPass \/ ScanTag \/ SendRequest \/ DecLoad \/ DecStore
  BY <1>6, MainHidden
<1>7. CASE ReadHalf \/ UNCHANGED vars
  BY <1>7, ReadIsFramed
          DEF queueVars, tagVars, mosqVars, mainVars, histVars, Delivery!vars, Arriving,
              Discarding, Delivered
<1> QED
  BY <1>1, <1>2, <1>3, <1>4, <1>5, <1>6, <1>7 DEF Next, Mosquitto, WriteProcess, WritePass

(* Whatever the interleaving of its two threads, the write path sends a    *)
(* slave only what is owed or newer, in order, and ends a write only by    *)
(* success or after modbusWriteMaxAttempts failures (mbbridge.cpp:266-325, *)
(* :802-811).                                                              *)
THEOREM WritePathDelivers == Spec => DeliversSafely
BY DeliveryInit, DeliveryNext, Invariance, PTL DEF Spec, DeliversSafely, Delivery!SafeSpec
=============================================================================
