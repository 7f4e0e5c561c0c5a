-------------------------- MODULE WriteQueueProofs --------------------------
(***************************************************************************)
(* Machine-checked proofs about the write path, for every number of tags   *)
(* and slaves, every configuration and any number of messages.             *)
(***************************************************************************)
EXTENDS WriteQueueInv, TLAPS, FiniteSetTheorems

(* The main thread's small steps are used expanded throughout. *)
USE DEF NextTag, CountFailure, LastAttempt, RequestValue, Discount

-----------------------------------------------------------------------------
(* What each thread leaves alone, and the other may therefore keep.        *)

LEMMA MosqIsFramed == Mosquitto => MosqFrame
BY DEF Mosquitto, WriteRequest, LinkUp, LinkDown, LiveMessage, RetainedMessage,
       AcceptCommand, IgnoredMessage, SetRawValue, SetWritePending, IncLoad, IncStore

LEMMA MainIsFramed == WriteProcess => MainFrame
BY DEF WriteProcess, WritePass, EnterProcess, StartPass, EndPass, ScanTag,
       SendRequest, InvalidAddress, WriteDone,
       WriteTimeout, WriteError, WriteFailed, ClearPending, DecLoad, DecStore

(* The reads leave the queue alone. *)
LEMMA ReadIsFramed == ReadHalf \/ UNCHANGED vars => UNCHANGED queueVars
BY DEF ReadHalf, vars

-----------------------------------------------------------------------------
(* Types *)

LEMMA NumTagsNat == NumTags \in Nat
BY WriteQueueAssumption DEF QueueConfig

(* The end mark is not in the list, so a scan that may go on stays within  *)
(* mbWriteTags[].                                                          *)
LEMMA ScanStaysInside ==
  ASSUME NEW i \in Entry, InList(i)
  PROVE  i \in WriteTag /\ i + 1 \in Entry /\ SlaveOf[i] \in Slave
<1>1. SlaveOf[NumTags] = SlaveMax + 1
  BY WriteQueueAssumption DEF QueueConfig
<1>2. i # NumTags
  BY <1>1 DEF InList, SlaveMin, SlaveMax
<1>3. i \in WriteTag /\ i + 1 \in Entry
  BY <1>2, NumTagsNat DEF WriteTag, Entry
<1>4. SlaveOf[i] \in Slave
  BY <1>3, WriteQueueAssumption DEF QueueConfig, InList
<1> QED
  BY <1>3, <1>4

LEMMA NextEntry == \A i \in WriteTag : i \in Entry /\ i + 1 \in Entry
BY NumTagsNat DEF WriteTag, Entry

LEMMA StatusType ==
  ASSUME StatusTypeOK, NEW s \in Slave, NEW online \in BOOLEAN, SetOnlineStatus(s, online)
  PROVE  StatusTypeOK'
BY DEF StatusTypeOK, SetOnlineStatus, StatusText, Status

LEMMA TypeInit == Init => TypeOK
<1> SUFFICES ASSUME Init PROVE TypeOK
  OBVIOUS
<1> USE DEF Init
<1>1. StatusTypeOK
  BY DEF StatusInit, StatusTypeOK, Status
<1>2. QueueTypeOK
  BY DEF QueueInit, QueueTypeOK
<1>3. LinkTypeOK
  BY DEF LinkInit, LinkTypeOK
<1>4. MosqTypeOK
  BY DEF MosqInit, MosqTypeOK, MosqPc
<1>5. MainTypeOK
  BY NumTagsNat DEF MainInit, MainTypeOK, MainPc, Entry
<1>6. HistTypeOK
  BY DEF HistInit, HistTypeOK
<1>7. FlagTypeOK
  BY DEF LinkInit, MainInit, HistInit, FlagTypeOK
<1> QED
  BY <1>1, <1>2, <1>3, <1>4, <1>5, <1>6, <1>7 DEF TypeOK

(* A step of the mosquitto thread keeps the types. *)
LEMMA TypeMosq == TypeOK /\ Mosquitto => TypeOK'
<1> SUFFICES ASSUME TypeOK, Mosquitto PROVE TypeOK'
  OBVIOUS
<1> USE DEF TypeOK
<1>1. MosqFrame
  BY MosqIsFramed
<1>2. StatusTypeOK' /\ MainTypeOK'
  BY <1>1 DEF MosqFrame, statusVars, mainVars, StatusTypeOK, MainTypeOK
<1>3. FlagTypeOK'
  BY <1>1 DEF FlagTypeOK, Mosquitto, WriteRequest, MosqFrame, mainVars, linkVars,
         LinkUp, LinkDown, LiveMessage, RetainedMessage, AcceptCommand, IgnoredMessage,
         SetRawValue, SetWritePending, IncLoad, IncStore
<1> USE <1>1, <1>2, <1>3 DEF MosqFrame, mosqVars, histVars, linkVars,
        QueueTypeOK, LinkTypeOK, MosqTypeOK, HistTypeOK, MosqPc
<1>4. CASE LinkUp
  BY <1>4 DEF LinkUp
<1>5. CASE LinkDown
  BY <1>5 DEF LinkDown
<1>6. CASE \E t \in WriteTag : LiveMessage(t) \/ RetainedMessage(t)
  <2>1. PICK t \in WriteTag : AcceptCommand(t) /\ redeliver' \subseteq WriteTag
    BY <1>6 DEF LiveMessage, RetainedMessage
  <2> QED
    BY <2>1 DEF AcceptCommand
<1>7. CASE \E t \in WriteTag : IgnoredMessage(t)
  BY <1>7 DEF IgnoredMessage
<1>8. CASE SetRawValue
  BY <1>8 DEF SetRawValue
<1>9. CASE SetWritePending
  BY <1>9 DEF SetWritePending
<1>10. CASE IncLoad
  BY <1>10 DEF IncLoad
<1>11. CASE IncStore
  BY <1>11 DEF IncStore
<1> QED
  BY <1>4, <1>5, <1>6, <1>7, <1>8, <1>9, <1>10, <1>11 DEF Mosquitto, WriteRequest

(* A step of the main thread keeps the types. *)
LEMMA TypeMain == TypeOK /\ WriteProcess => TypeOK'
<1> SUFFICES ASSUME TypeOK, WriteProcess PROVE TypeOK'
  OBVIOUS
<1> USE DEF TypeOK
<1>1. MainFrame
  BY MainIsFramed
<1>2. LinkTypeOK' /\ MosqTypeOK'
  BY <1>1 DEF MainFrame, linkVars, mosqVars, LinkTypeOK, MosqTypeOK
<1>3. FlagTypeOK'
  BY <1>1 DEF FlagTypeOK, WriteProcess, WritePass, MainFrame, linkVars,
         EnterProcess, StartPass, EndPass, ScanTag, SendRequest, InvalidAddress, WriteDone,
         WriteTimeout, WriteError, WriteFailed, ClearPending, DecLoad, DecStore
<1>4. ASSUME MainTypeOK, mainPc \notin {"loop", "read", "scan"}
      PROVE  mainIdx + 1 \in Entry
  BY <1>4, NextEntry DEF MainTypeOK
<1> USE <1>1, <1>2, <1>3 DEF MainFrame, statusVars, histVars, StatusTypeOK,
        QueueTypeOK, MainTypeOK, HistTypeOK, MainPc
<1>5. CASE StartPass
  BY <1>5, NumTagsNat DEF StartPass, Entry
<1>16. CASE EnterProcess
  BY <1>16 DEF EnterProcess
<1>6. CASE EndPass
  BY <1>6 DEF EndPass
<1>7. CASE ScanTag
  BY <1>7, ScanStaysInside DEF ScanTag
<1>8. CASE SendRequest
  BY <1>8 DEF SendRequest, CountAttempt
<1>9. CASE InvalidAddress
  BY <1>9, <1>4 DEF InvalidAddress, CountAttempt, WriteFailed
<1>10. CASE WriteDone
  <2>1. StatusTypeOK'
    BY <1>10, StatusType DEF WriteDone
  <2> QED
    BY <1>10, <2>1 DEF WriteDone, SlaveApplies
<1>11. CASE WriteTimeout
  <2>1. StatusTypeOK'
    BY <1>11, StatusType DEF WriteTimeout
  <2> QED
    BY <1>11, <1>4, <2>1 DEF WriteTimeout, SlaveApplies, WriteFailed
<1>12. CASE WriteError
  BY <1>12, <1>4 DEF WriteError, SlaveApplies, WriteFailed
<1>13. CASE ClearPending
  BY <1>13 DEF ClearPending
<1>14. CASE DecLoad
  BY <1>14 DEF DecLoad
<1>15. CASE DecStore
  <2>1. StatusTypeOK'
    BY <1>15 DEF DecStore
  <2>2. MainTypeOK'
    BY <1>15, <1>4 DEF DecStore
  <2> QED
    BY <1>15, <2>1, <2>2 DEF DecStore
<1> QED
  BY <1>5, <1>6, <1>7, <1>8, <1>9, <1>10, <1>11, <1>12, <1>13, <1>14, <1>15, <1>16 DEF WriteProcess, WritePass

LEMMA TypeRead == TypeOK /\ (ReadHalf \/ UNCHANGED vars) => TypeOK'
<1> SUFFICES ASSUME TypeOK, ReadHalf \/ UNCHANGED vars PROVE TypeOK'
  OBVIOUS
<1>1. StatusTypeOK'
  <2>1. CASE ReadHalf
    BY <2>1, StatusType DEF ReadHalf, TypeOK
  <2>2. CASE UNCHANGED vars
    BY <2>2 DEF vars, statusVars, TypeOK, StatusTypeOK
  <2> QED
    BY <2>1, <2>2
<1> QED
  BY <1>1, ReadIsFramed
  DEF queueVars, tagVars, mosqVars, mainVars, linkVars, histVars, TypeOK,
      QueueTypeOK, LinkTypeOK, MosqTypeOK, MainTypeOK, HistTypeOK, FlagTypeOK

LEMMA TypeNext == TypeOK /\ [Next]_vars => TypeOK'
BY TypeMosq, TypeMain, TypeRead DEF Next

(* Every variable keeps its type: in particular the scan never leaves      *)
(* mbWriteTags[], whatever slave ids the configuration gives.              *)
THEOREM Typing == Spec => []TypeOK
BY TypeInit, TypeNext, PTL DEF Spec

-----------------------------------------------------------------------------
(* The inductive invariant, part by part *)

LEMMA ScanStep == TypeOK /\ ScanInv /\ [Next]_vars => ScanInv'
<1> SUFFICES ASSUME TypeOK, ScanInv, [Next]_vars PROVE ScanInv'
  OBVIOUS
<1> USE DEF ScanInv
<1>1. CASE Mosquitto
  <2>1. UNCHANGED mainVars
    BY <1>1, MosqIsFramed DEF MosqFrame
  <2>2. \A t \in WriteTag : writePending[t] => writePending'[t]
    BY <1>1 DEF Mosquitto, WriteRequest, LinkUp, LinkDown, LiveMessage, RetainedMessage,
         AcceptCommand, IgnoredMessage, SetRawValue, SetWritePending, IncLoad, IncStore,
         TypeOK, QueueTypeOK, MosqTypeOK
  <2> QED
    BY <2>1, <2>2 DEF mainVars, TypeOK, MainTypeOK
<1>2. CASE WriteProcess
  BY <1>2 DEF WriteProcess, WritePass, EnterProcess, StartPass, EndPass, ScanTag,
         SendRequest, InvalidAddress, WriteDone,
       WriteTimeout, WriteError, WriteFailed, ClearPending, DecLoad, DecStore
<1>3. CASE ReadHalf \/ UNCHANGED vars
  BY <1>3, ReadIsFramed DEF queueVars, mainVars, tagVars
<1> QED
  BY <1>1, <1>2, <1>3 DEF Next

LEMMA RawStep == TypeOK /\ RawInv /\ [Next]_vars => RawInv'
<1> SUFFICES ASSUME TypeOK, RawInv, [Next]_vars,
                    NEW t \in WriteTag
             PROVE  rawValue'[t] = IF mosqTag' = t /\ mosqPc' = "setRaw"
                                   THEN accepted'[t] - 1 ELSE accepted'[t]
  BY DEF RawInv
<1> USE DEF RawInv, TypeOK, QueueTypeOK, HistTypeOK, MosqTypeOK
<1>1. CASE \E u \in WriteTag : LiveMessage(u) \/ RetainedMessage(u)
  <2>1. PICK u \in WriteTag : AcceptCommand(u)
    BY <1>1 DEF LiveMessage, RetainedMessage
  <2> QED
    BY <2>1 DEF AcceptCommand
<1>2. CASE SetRawValue
  BY <1>2 DEF SetRawValue, histVars
<1>3. CASE \/ LinkUp \/ LinkDown \/ SetWritePending \/ IncLoad \/ IncStore
           \/ \E u \in WriteTag : IgnoredMessage(u)
  BY <1>3 DEF LinkUp, LinkDown, SetWritePending, IncLoad, IncStore, IgnoredMessage,
              mosqVars, histVars
<1>4. CASE WriteProcess
  BY <1>4, MainIsFramed DEF MainFrame, mosqVars
<1>5. CASE ReadHalf \/ UNCHANGED vars
  BY <1>5, ReadIsFramed DEF queueVars, tagVars, mosqVars, histVars
<1> QED
  BY <1>1, <1>2, <1>3, <1>4, <1>5 DEF Next, Mosquitto, WriteRequest

LEMMA OwedStep == TypeOK /\ ScanInv /\ RawInv /\ OwedInv /\ FlightInv /\ [Next]_vars => OwedInv'
<1> SUFFICES ASSUME TypeOK, ScanInv, RawInv, OwedInv, FlightInv, [Next]_vars,
                    NEW t \in WriteTag
             PROVE  /\ owed'[t] <= accepted'[t]
                    /\ writePending'[t] => owed'[t] <= rawValue'[t]
                    /\ slaveReg'[t] <= rawValue'[t]
  BY DEF OwedInv
<1> USE DEF RawInv, OwedInv, TypeOK, QueueTypeOK, HistTypeOK, MosqTypeOK
<1>1. CASE \E u \in WriteTag : LiveMessage(u) \/ RetainedMessage(u)
  <2>1. PICK u \in WriteTag : AcceptCommand(u)
    BY <1>1 DEF LiveMessage, RetainedMessage
  <2> QED
    BY <2>1 DEF AcceptCommand, MosqFrame
<1>2. CASE SetRawValue
  BY <1>2 DEF SetRawValue, MosqFrame, histVars
<1>3. CASE SetWritePending
  BY <1>3 DEF SetWritePending, MosqFrame, histVars
<1>4. CASE \/ LinkUp \/ LinkDown \/ IncLoad \/ IncStore
           \/ \E u \in WriteTag : IgnoredMessage(u)
  BY <1>4 DEF LinkUp, LinkDown, IncLoad, IncStore, IgnoredMessage, MosqFrame,
              mosqVars, histVars
<1>5. CASE WriteDone \/ WriteTimeout \/ WriteError
  <2>1. mainPc = "io" /\ mainIdx \in WriteTag
    BY <1>5 DEF WriteDone, WriteTimeout, WriteError, MainTypeOK
  <2>2. SlaveApplies \/ UNCHANGED slaveReg
    BY <1>5 DEF WriteDone, WriteTimeout, WriteError
  <2>3. UNCHANGED <<writePending, histVars>>
    BY <1>5 DEF WriteDone, WriteTimeout, WriteError, WriteFailed
  <2> QED
    BY <1>5, <2>1, <2>2, <2>3, MainIsFramed
    DEF WriteProcess, WritePass, SlaveApplies, MainFrame, histVars, FlightInv, MainTypeOK
<1>6. CASE ClearPending
  <2>1. mainIdx \in WriteTag
    BY <1>6 DEF ClearPending, MainTypeOK
  <2> QED
    BY <1>6, <2>1 DEF ClearPending, MainFrame, Arriving
<1>7. CASE EnterProcess \/ StartPass \/ EndPass \/ ScanTag \/ SendRequest \/ InvalidAddress
           \/ DecLoad \/ DecStore
  BY <1>7 DEF EnterProcess, StartPass, EndPass, ScanTag, SendRequest, InvalidAddress, DecLoad,
              DecStore, CountAttempt, WriteFailed, MainFrame, histVars
<1>8. CASE ReadHalf \/ UNCHANGED vars
  BY <1>8, ReadIsFramed DEF queueVars, tagVars, histVars
<1> QED
  BY <1>1, <1>2, <1>3, <1>4, <1>5, <1>6, <1>7, <1>8
  DEF Next, Mosquitto, WriteRequest, WriteProcess, WritePass

LEMMA LateStep == TypeOK /\ OwedInv /\ LateInv /\ [Next]_vars => LateInv'
<1> SUFFICES ASSUME TypeOK, OwedInv, LateInv, [Next]_vars,
                    NEW t \in WriteTag, writePending'[t], Arriving(t)'
             PROVE  owed'[t] < accepted'[t]
  BY DEF LateInv
<1> USE DEF LateInv, Arriving, TypeOK, QueueTypeOK, HistTypeOK, MosqTypeOK
<1>1. CASE \E u \in WriteTag : LiveMessage(u) \/ RetainedMessage(u)
  <2>1. AcceptCommand(t)
    BY <1>1 DEF LiveMessage, RetainedMessage, AcceptCommand
  <2>2. owed'[t] = owed[t] /\ accepted'[t] = accepted[t] + 1
    BY <2>1 DEF AcceptCommand
  <2>3. owed[t] <= accepted[t]
    BY DEF OwedInv
  <2> QED
    BY <2>2, <2>3
<1>2. CASE LinkUp \/ LinkDown \/ WriteRequest \/ \E u \in WriteTag : IgnoredMessage(u)
  BY <1>2 DEF LinkUp, LinkDown, IgnoredMessage, WriteRequest, SetRawValue, SetWritePending,
              IncLoad, IncStore, mosqVars, histVars
<1>3. CASE WriteProcess
  <2>1. UNCHANGED <<mosqPc, mosqTag, accepted>>
    BY <1>3, MainIsFramed DEF MainFrame, mosqVars
  <2>2. owed'[t] = owed[t] /\ writePending[t]
    BY <1>3, <2>1
    DEF WriteProcess, WritePass, EnterProcess, StartPass, EndPass, ScanTag,
        SendRequest, InvalidAddress, WriteDone,
        WriteTimeout, WriteError, WriteFailed, CountAttempt, ClearPending, DecLoad, DecStore,
        histVars, MainTypeOK
  <2> QED
    BY <2>1, <2>2
<1>4. CASE ReadHalf \/ UNCHANGED vars
  BY <1>4, ReadIsFramed DEF queueVars, tagVars, mosqVars, histVars
<1> QED
  BY <1>1, <1>2, <1>3, <1>4 DEF Next, Mosquitto

LEMMA FlightStep ==
  TypeOK /\ ScanInv /\ RawInv /\ OwedInv /\ FlightInv /\ [Next]_vars => FlightInv'
<1> SUFFICES ASSUME TypeOK, ScanInv, RawInv, OwedInv, FlightInv, [Next]_vars,
                    mainPc' = "io"
             PROVE  /\ slaveReg'[mainIdx'] <= mainVal' /\ mainVal' <= rawValue'[mainIdx']
                    /\ owed'[mainIdx'] <= mainVal'
  BY DEF FlightInv
<1> USE DEF TypeOK, QueueTypeOK, HistTypeOK, MosqTypeOK, MainTypeOK
<1>1. CASE Mosquitto
  <2>1. UNCHANGED <<mainVars, slaveReg>> /\ mainPc = "io" /\ mainIdx \in WriteTag
    BY <1>1, MosqIsFramed DEF MosqFrame, mainVars
  <2>2. rawValue'[mainIdx] >= rawValue[mainIdx]
    <3>1. CASE SetRawValue
      BY <3>1, <2>1 DEF SetRawValue, RawInv
    <3>2. CASE UNCHANGED rawValue
      BY <3>2, <2>1
    <3> QED
      BY <1>1, <3>1, <3>2 DEF Mosquitto, WriteRequest, LinkUp, LinkDown, LiveMessage,
         RetainedMessage, AcceptCommand, IgnoredMessage, SetWritePending, IncLoad, IncStore
  <2>3. owed'[mainIdx] = owed[mainIdx]
    <3>1. CASE \E u \in WriteTag : AcceptCommand(u)
      BY <3>1, <2>1 DEF AcceptCommand, ScanInv
    <3>2. CASE UNCHANGED owed
      BY <3>2
    <3> QED
      BY <1>1, <3>1, <3>2 DEF Mosquitto, WriteRequest, LinkUp, LinkDown, LiveMessage, histVars,
         RetainedMessage, IgnoredMessage, SetRawValue, SetWritePending, IncLoad, IncStore
  <2>4. mainIdx' = mainIdx /\ mainVal' = mainVal /\ slaveReg' = slaveReg
    BY <2>1 DEF mainVars
  <2>5. rawValue'[mainIdx] \in Nat
    BY <2>1, TypeNext
  <2> QED
    BY <2>1, <2>2, <2>3, <2>4, <2>5 DEF FlightInv
<1>2. CASE SendRequest
  <2>1. mainIdx \in WriteTag /\ writePending[mainIdx]
    BY <1>2 DEF SendRequest, ScanInv
  <2>2. UNCHANGED <<mainIdx, slaveReg, rawValue, owed>> /\ mainVal' = rawValue[mainIdx]
    BY <1>2 DEF SendRequest, MainFrame, CountAttempt
  <2> QED
    BY <2>1, <2>2 DEF OwedInv
<1>3. CASE WriteProcess /\ ~SendRequest
  BY <1>3 DEF WriteProcess, WritePass, EnterProcess, StartPass, EndPass, ScanTag, InvalidAddress, WriteDone,
       WriteTimeout, WriteError, WriteFailed, ClearPending, DecLoad, DecStore
<1>4. CASE ReadHalf \/ UNCHANGED vars
  BY <1>4, ReadIsFramed DEF queueVars, mainVars, tagVars, histVars, FlightInv
<1> QED
  BY <1>1, <1>2, <1>3, <1>4 DEF Next

LEMMA TagSetsFinite ==
  ASSUME NEW S \in SUBSET WriteTag
  PROVE  IsFiniteSet(S) /\ Cardinality(S) \in Nat
<1>1. IsFiniteSet(WriteTag)
  BY NumTagsNat, FS_Interval DEF WriteTag
<1> QED
  BY <1>1, FS_Subset, FS_CardinalityType

LEMMA CounterStep ==
  TypeOK /\ ScanInv /\ CounterCoversPending /\ [Next]_vars => CounterCoversPending'
<1> SUFFICES ASSUME TypeOK, ScanInv, CounterCoversPending, [Next]_vars, ~torn'
             PROVE  pendingWrites' + Uncounted' - Undiscarded' >= Cardinality(Pending')
  BY DEF CounterCoversPending
<1>1. Cardinality(Pending) \in Nat /\ IsFiniteSet(Pending) /\ pendingWrites \in Int
  BY TagSetsFinite DEF Pending, TypeOK, QueueTypeOK
<1>2. CASE SetWritePending
  <2>1. Pending' = Pending \cup {mosqTag}
    BY <1>2 DEF SetWritePending, Pending, TypeOK, MosqTypeOK, QueueTypeOK
  <2>2. Cardinality(Pending') <= Cardinality(Pending) + 1
    BY <1>1, <2>1, FS_AddElement
  <2>3. Cardinality(Pending') \in Nat
    BY <1>1, <2>1, FS_AddElement
  <2>4. ~torn /\ pendingWrites' = pendingWrites
    BY <1>2 DEF SetWritePending
  <2>5. Uncounted = 0 /\ Uncounted' = 1 /\ Undiscarded' = Undiscarded
    BY <1>2 DEF SetWritePending, Uncounted, Undiscarded, MosqFrame, mainVars
  <2> QED
    BY <1>1, <2>2, <2>3, <2>4, <2>5 DEF CounterCoversPending, Undiscarded
<1>3. CASE ClearPending
  <2>1. mainIdx \in Pending /\ Pending' = Pending \ {mainIdx}
    BY <1>3 DEF ClearPending, Pending, ScanInv, TypeOK, MainTypeOK, QueueTypeOK
  <2>2. Cardinality(Pending') = Cardinality(Pending) - 1
    BY <1>1, <2>1, FS_RemoveElement
  <2>3. ~torn /\ pendingWrites' = pendingWrites
    BY <1>3 DEF ClearPending
  <2>4. Undiscarded = 0 /\ Undiscarded' = 1 /\ Uncounted' = Uncounted
    BY <1>3 DEF ClearPending, Uncounted, Undiscarded, MainFrame, mosqVars
  <2> QED
    BY <1>1, <2>2, <2>3, <2>4 DEF CounterCoversPending, Uncounted
<1>4. CASE IncStore
  <2>1. ~torn /\ pendingWrites' = pendingWrites + 1
    BY <1>4 DEF IncStore
  <2>2. Pending' = Pending
    BY <1>4 DEF IncStore, Pending
  <2>3. Uncounted = 1 /\ Uncounted' = 0 /\ Undiscarded' = Undiscarded
    BY <1>4 DEF IncStore, Uncounted, Undiscarded, MosqFrame, mainVars
  <2> QED
    BY <1>1, <2>1, <2>2, <2>3 DEF CounterCoversPending, Undiscarded
<1>5. CASE DecStore
  <2>1. ~torn /\ pendingWrites' = pendingWrites - 1
    BY <1>5 DEF DecStore
  <2>2. Pending' = Pending
    BY <1>5 DEF DecStore, Pending
  <2>3. Undiscarded = 1 /\ Undiscarded' = 0 /\ Uncounted' = Uncounted
    BY <1>5 DEF DecStore, Uncounted, Undiscarded, MainFrame, mosqVars
  <2> QED
    BY <1>1, <2>1, <2>2, <2>3 DEF CounterCoversPending, Uncounted
<1>6. ASSUME UNCHANGED <<writePending, pendingWrites, torn>>,
             Uncounted' = Uncounted, Undiscarded' = Undiscarded
      PROVE  pendingWrites' + Uncounted' - Undiscarded' >= Cardinality(Pending')
  <2>1. Pending' = Pending
    BY <1>6 DEF Pending
  <2> QED
    BY <1>6, <2>1 DEF CounterCoversPending
<1>7. CASE Mosquitto /\ ~SetWritePending /\ ~IncStore
  <2>1. UNCHANGED <<writePending, pendingWrites, torn>>
    BY <1>7 DEF Mosquitto, WriteRequest, LinkUp, LinkDown, LiveMessage, RetainedMessage,
           AcceptCommand, IgnoredMessage, SetRawValue, IncLoad
  <2>2. Uncounted' = Uncounted
    BY <1>7 DEF Mosquitto, WriteRequest, LinkUp, LinkDown, LiveMessage, RetainedMessage,
           AcceptCommand, IgnoredMessage, SetRawValue, IncLoad, Uncounted, mosqVars
  <2>3. Undiscarded' = Undiscarded
    BY <1>7, MosqIsFramed DEF MosqFrame, mainVars, Undiscarded
  <2> QED
    BY <2>1, <2>2, <2>3, <1>6
<1>8. CASE WriteProcess /\ ~ClearPending /\ ~DecStore
  <2>1. UNCHANGED <<writePending, pendingWrites, torn>>
    BY <1>8 DEF WriteProcess, WritePass, EnterProcess, StartPass, EndPass, ScanTag, SendRequest, InvalidAddress,
           WriteDone, WriteTimeout, WriteError, WriteFailed, DecLoad
  <2>2. Undiscarded' = Undiscarded
    BY <1>8 DEF WriteProcess, WritePass, EnterProcess, StartPass, EndPass, ScanTag, SendRequest, InvalidAddress,
           WriteDone, WriteTimeout, WriteError, WriteFailed, DecLoad, Undiscarded
  <2>3. Uncounted' = Uncounted
    BY <1>8, MainIsFramed DEF MainFrame, mosqVars, Uncounted
  <2> QED
    BY <2>1, <2>2, <2>3, <1>6
<1>9. CASE ReadHalf \/ UNCHANGED vars
  BY <1>9, ReadIsFramed, <1>6 DEF queueVars, tagVars, mosqVars, mainVars, Uncounted, Undiscarded
<1> QED
  BY <1>2, <1>3, <1>4, <1>5, <1>7, <1>8, <1>9 DEF Next

LEMMA MaxAttemptsNat == MaxAttempts \in Nat /\ MaxAttempts > 0
BY WriteQueueAssumption DEF QueueConfig

LEMMA PendingGrows ==
  TypeOK /\ Mosquitto => \A t \in WriteTag : writePending[t] => writePending'[t]
BY DEF Mosquitto, WriteRequest, LinkUp, LinkDown, LiveMessage, RetainedMessage,
       AcceptCommand, IgnoredMessage, SetRawValue, SetWritePending, IncLoad, IncStore,
       TypeOK, QueueTypeOK, MosqTypeOK

LEMMA FailedStep == TypeOK /\ ScanInv /\ FailedInv /\ [Next]_vars => FailedInv'
<1> SUFFICES ASSUME TypeOK, ScanInv, FailedInv, [Next]_vars, NEW t \in WriteTag
             PROVE  /\ GivingUp(t)' => writeFailedCount'[t] = MaxAttempts
                    /\ ~GivingUp(t)' => writeFailedCount'[t] < MaxAttempts
                    /\ ~writePending'[t] /\ ~Discarding(t)' => writeFailedCount'[t] = 0
  BY DEF FailedInv
<1> USE MaxAttemptsNat DEF FailedInv, TypeOK, QueueTypeOK, MainTypeOK
<1>1. CASE Mosquitto
  <2>1. UNCHANGED <<mainPc, mainIdx, mainOk, writeFailedCount>>
    BY <1>1, MosqIsFramed DEF MosqFrame, mainVars
  <2>2. writePending[t] => writePending'[t]
    BY <1>1, PendingGrows
  <2> QED
    BY <2>1, <2>2 DEF GivingUp, Discarding
<1>2. CASE EnterProcess \/ StartPass \/ EndPass \/ ScanTag \/ SendRequest \/ WriteDone
  <2>1. ~GivingUp(t) /\ ~Discarding(t) /\ ~GivingUp(t)' /\ ~Discarding(t)'
    BY <1>2 DEF EnterProcess, StartPass, EndPass, ScanTag, SendRequest, WriteDone, GivingUp, Discarding
  <2>2. UNCHANGED <<writeFailedCount, writePending>>
    BY <1>2 DEF EnterProcess, StartPass, EndPass, ScanTag, SendRequest, WriteDone
  <2> QED
    BY <2>1, <2>2
<1>3. CASE InvalidAddress \/ WriteTimeout \/ WriteError
  <2>1. WriteFailed /\ mainPc \in {"send", "io"}
    BY <1>3 DEF InvalidAddress, WriteTimeout, WriteError
  <2>2. ~GivingUp(t) /\ mainIdx \in WriteTag /\ writePending[mainIdx]
    BY <2>1 DEF GivingUp, ScanInv
  <2>3. writeFailedCount' = [writeFailedCount EXCEPT ![mainIdx] = @ + 1]
        /\ writePending' = writePending
    BY <2>1 DEF WriteFailed
  <2>4. GivingUp(t)' <=> t = mainIdx /\ writeFailedCount[mainIdx] + 1 >= MaxAttempts
    BY <2>1 DEF WriteFailed, GivingUp
  <2>5. writeFailedCount[t] \in Nat /\ writeFailedCount[t] < MaxAttempts
    BY <2>2
  <2>6. CASE t = mainIdx
    BY <2>2, <2>3, <2>4, <2>5, <2>6
  <2>7. CASE t # mainIdx
    <3>1. writeFailedCount'[t] = writeFailedCount[t] /\ ~GivingUp(t)'
      BY <2>3, <2>4, <2>7
    <3>2. ~Discarding(t)
      BY <2>7 DEF Discarding
    <3> QED
      BY <2>3, <2>5, <3>1, <3>2
  <2> QED
    BY <2>6, <2>7
<1>4. CASE ClearPending \/ DecLoad
  <2>1. GivingUp(t)' <=> GivingUp(t)
    BY <1>4 DEF ClearPending, DecLoad, GivingUp
  <2>2. UNCHANGED writeFailedCount
    BY <1>4 DEF ClearPending, DecLoad
  <2>3. ~writePending'[t] /\ ~Discarding(t)' => ~writePending[t] /\ ~Discarding(t)
    BY <1>4 DEF ClearPending, DecLoad, Discarding
  <2> QED
    BY <2>1, <2>2, <2>3
<1>5. CASE DecStore
  <2>1. writeFailedCount' = [writeFailedCount EXCEPT ![mainIdx] = 0] /\ writePending' = writePending
    BY <1>5 DEF DecStore
  <2>2. ~GivingUp(t)'
    BY <1>5 DEF DecStore, GivingUp
  <2>3. CASE t = mainIdx
    BY <2>1, <2>2, <2>3
  <2>4. CASE t # mainIdx
    BY <2>1, <2>2, <2>4 DEF GivingUp, Discarding
  <2> QED
    BY <2>3, <2>4
<1>6. CASE ReadHalf \/ UNCHANGED vars
  BY <1>6, ReadIsFramed DEF queueVars, tagVars, mainVars, GivingUp, Discarding
<1> QED
  BY <1>1, <1>2, <1>3, <1>4, <1>5, <1>6 DEF Next, WriteProcess, WritePass

LEMMA HonourStep ==
  TypeOK /\ QueueInv /\ [Next]_vars => HonourInv'
<1> SUFFICES ASSUME TypeOK, QueueInv, [Next]_vars, NEW t \in WriteTag
             PROVE  Honour(t)'
  BY DEF HonourInv
<1> DEFINE Same ==
      /\ owed'[t] = owed[t] /\ accepted'[t] = accepted[t] /\ attempts'[t] = attempts[t]
      /\ abandoned'[t] = abandoned[t] /\ slaveReg'[t] = slaveReg[t]
      /\ writeFailedCount'[t] = writeFailedCount[t]
<1> DEFINE SameMode ==
      /\ Discarding(t)' <=> Discarding(t)
      /\ InFlight(t)' <=> InFlight(t)
      /\ Delivered(t)' <=> Delivered(t)
<1>1. ASSUME Same, SameMode, Settled(t)' <=> Settled(t)
      PROVE  Honour(t)'
  BY <1>1 DEF QueueInv, HonourInv, Honour, Ended, Underway
<1> HIDE DEF Same, SameMode
<1>2. CASE Mosquitto
  <2>1. SameMode /\ UNCHANGED <<mainPc, mainIdx, slaveReg, writeFailedCount>>
    BY <1>2, MosqIsFramed
    DEF SameMode, MosqFrame, mainVars, Discarding, InFlight, Delivered
  <2>2. CASE \E u \in WriteTag : LiveMessage(u) \/ RetainedMessage(u)
    <3>1. PICK u \in WriteTag : AcceptCommand(u)
      BY <2>2 DEF LiveMessage, RetainedMessage
    <3>2. CASE u # t
      <4>1. Same
        BY <2>1, <3>1, <3>2 DEF Same, AcceptCommand, TypeOK, HistTypeOK
      <4>2. Settled(t)' <=> Settled(t)
        BY <3>1, <3>2 DEF AcceptCommand, Settled, Arriving
      <4> QED
        BY <1>1, <2>1, <4>1, <4>2
    <3>3. CASE u = t /\ writePending[t]
      <4>1. owed'[t] = owed[t] /\ accepted'[t] = accepted[t] + 1 /\ owed[t] <= accepted[t]
        BY <3>1, <3>3 DEF AcceptCommand, TypeOK, HistTypeOK, QueueInv, OwedInv
      <4> QED
        BY <4>1 DEF Honour, TypeOK, HistTypeOK
    <3>4. CASE u = t /\ ~writePending[t]
      <4>1. attempts'[t] = 0 /\ ~Settled(t)'
        BY <3>1, <3>4 DEF AcceptCommand, TypeOK, HistTypeOK, Settled, Arriving
      <4>2. ~InFlight(t)' /\ ~Delivered(t)'
        BY <2>1, <3>4 DEF SameMode, InFlight, Delivered, QueueInv, ScanInv
      <4>3. ~Discarding(t)' => writeFailedCount'[t] = 0
        BY <2>1, <3>4 DEF SameMode, QueueInv, FailedInv
      <4> QED
        BY <4>1, <4>2, <4>3 DEF Honour, Underway
    <3> QED
      BY <3>2, <3>3, <3>4
  <2>3. CASE SetWritePending
    <3>1. Same
      BY <2>1, <2>3 DEF Same, SetWritePending, histVars
    <3>2. Settled(t)' <=> Settled(t)
      BY <2>3 DEF SetWritePending, Settled, Arriving, TypeOK, QueueTypeOK, MosqTypeOK
    <3> QED
      BY <1>1, <2>1, <3>1, <3>2
  <2>4. CASE \/ LinkUp \/ LinkDown \/ SetRawValue \/ IncLoad \/ IncStore
             \/ \E u \in WriteTag : IgnoredMessage(u)
    <3>1. Same
      BY <2>1, <2>4 DEF Same, LinkUp, LinkDown, SetRawValue, IncLoad, IncStore,
                        IgnoredMessage, histVars
    <3>2. Settled(t)' <=> Settled(t)
      BY <2>4 DEF LinkUp, LinkDown, SetRawValue, IncLoad, IncStore, IgnoredMessage,
                  mosqVars, Settled, Arriving
    <3> QED
      BY <1>1, <2>1, <3>1, <3>2
  <2> QED
    BY <1>2, <2>2, <2>3, <2>4 DEF Mosquitto, WriteRequest
<1>3. CASE WriteProcess
  <2>1. UNCHANGED <<mosqPc, mosqTag, accepted, rawValue>>
    BY <1>3, MainIsFramed DEF MainFrame, mosqVars
  <2>2. CASE EnterProcess \/ StartPass \/ EndPass \/ ScanTag \/ DecLoad
    <3>1. Same
      BY <2>2 DEF Same, EnterProcess, StartPass, EndPass, ScanTag, DecLoad, histVars
    <3>2. SameMode
      BY <2>2 DEF SameMode, EnterProcess, StartPass, EndPass, ScanTag, DecLoad,
                  Discarding, InFlight, Delivered
    <3>3. Settled(t)' <=> Settled(t)
      BY <2>1, <2>2 DEF EnterProcess, StartPass, EndPass, ScanTag, DecLoad, Settled, Arriving
    <3> QED
      BY <1>1, <3>1, <3>2, <3>3
  <2>3. CASE SendRequest \/ InvalidAddress \/ WriteDone \/ WriteTimeout \/ WriteError
    <3>1. mainPc \in {"send", "io"} /\ mainIdx \in WriteTag /\ writePending[mainIdx]
      BY <2>3 DEF SendRequest, InvalidAddress, WriteDone, WriteTimeout, WriteError,
                  QueueInv, ScanInv, TypeOK, MainTypeOK
    <3>2. UNCHANGED <<owed, abandoned, writePending>>
      BY <2>3 DEF SendRequest, InvalidAddress, WriteDone, WriteTimeout, WriteError,
                  CountAttempt, WriteFailed, histVars
    <3>3. Settled(t)' <=> Settled(t)
      BY <2>1, <3>2 DEF Settled, Arriving
    <3>4. CASE t # mainIdx
      <4>1. Same
        BY <2>1, <2>3, <3>2, <3>4
        DEF Same, SendRequest, InvalidAddress, WriteDone, WriteTimeout, WriteError,
            CountAttempt, WriteFailed, SlaveApplies, histVars, TypeOK, QueueTypeOK, HistTypeOK
      <4>2. SameMode
        BY <2>3, <3>1, <3>4
        DEF SameMode, SendRequest, InvalidAddress, WriteDone, WriteTimeout, WriteError,
            WriteFailed, Discarding, InFlight, Delivered
      <4> QED
        BY <1>1, <3>3, <4>1, <4>2
    <3>5. CASE t = mainIdx /\ owed[t] = accepted[t]
      <4>1. ~Settled(t) /\ ~Settled(t)' /\ Underway(t)
        BY <3>1, <3>3, <3>5 DEF Settled, QueueInv, HonourInv, Honour
      <4>2. CASE SendRequest
        <5>1. attempts[t] = writeFailedCount[t]
          BY <3>5, <4>1, <4>2 DEF Underway, SendRequest, Discarding, InFlight, Delivered
        <5>2. InFlight(t)' /\ ~Discarding(t)' /\ ~Delivered(t)'
          BY <3>5, <4>2 DEF SendRequest, InFlight, Discarding, Delivered
        <5>3. attempts'[t] = attempts[t] + 1 /\ writeFailedCount'[t] = writeFailedCount[t]
          BY <3>1, <3>5, <4>2 DEF SendRequest, CountAttempt, TypeOK, HistTypeOK
        <5> QED
          BY <4>1, <5>1, <5>2, <5>3 DEF Honour, Underway
      <4>3. CASE InvalidAddress
        <5>1. attempts[t] = writeFailedCount[t]
          BY <3>5, <4>1, <4>3 DEF Underway, InvalidAddress, Discarding, InFlight, Delivered
        <5>2. ~InFlight(t)' /\ ~Discarding(t)' /\ ~Delivered(t)'
          BY <4>3 DEF InvalidAddress, WriteFailed, InFlight, Discarding, Delivered
        <5>3. attempts'[t] = attempts[t] + 1 /\ writeFailedCount'[t] = writeFailedCount[t] + 1
          BY <3>1, <3>5, <4>3
          DEF InvalidAddress, WriteFailed, CountAttempt, TypeOK, HistTypeOK, QueueTypeOK
        <5> QED
          BY <4>1, <5>1, <5>2, <5>3 DEF Honour, Underway
      <4>4. CASE WriteDone
        <5>1. Delivered(t)' /\ ~Discarding(t)' /\ ~InFlight(t)'
          BY <3>5, <4>4 DEF WriteDone, Delivered, InFlight, Discarding
        <5>2. slaveReg'[t] = mainVal /\ owed[t] <= mainVal /\ mainVal <= rawValue[t]
          BY <3>1, <3>5, <4>4
          DEF WriteDone, SlaveApplies, TypeOK, QueueTypeOK, QueueInv, FlightInv
        <5>3. rawValue[t] <= accepted[t] /\ mainVal \in Nat /\ owed[t] \in Nat
          BY DEF QueueInv, RawInv, TypeOK, HistTypeOK, MainTypeOK
        <5>4. slaveReg'[t] = accepted'[t]
          BY <2>1, <3>5, <5>2, <5>3 DEF TypeOK, HistTypeOK, QueueTypeOK
        <5> QED
          BY <4>1, <5>1, <5>4 DEF Honour, Underway
      <4>5. CASE WriteTimeout \/ WriteError
        <5>1. mainPc = "io" /\ WriteFailed /\ UNCHANGED histVars
          BY <4>5 DEF WriteTimeout, WriteError
        <5>2. attempts[t] = writeFailedCount[t] + 1
          BY <3>5, <4>1, <5>1 DEF Underway, Discarding, InFlight
        <5>3. ~InFlight(t)' /\ ~Discarding(t)' /\ ~Delivered(t)'
          BY <5>1 DEF WriteFailed, InFlight, Discarding, Delivered
        <5>4. attempts'[t] = attempts[t] /\ writeFailedCount'[t] = writeFailedCount[t] + 1
          BY <3>1, <3>5, <5>1 DEF WriteFailed, histVars, TypeOK, QueueTypeOK
        <5> QED
          BY <4>1, <5>2, <5>3, <5>4 DEF Honour, Underway
      <4> QED
        BY <2>3, <4>2, <4>3, <4>4, <4>5
    <3>6. CASE owed[t] # accepted[t]
      BY <2>1, <3>2, <3>6 DEF Honour
    <3> QED
      BY <3>4, <3>5, <3>6
  <2>4. CASE ClearPending
    <3>1. mainIdx \in WriteTag
      BY <2>4 DEF ClearPending, TypeOK, MainTypeOK
    <3>2. CASE t # mainIdx
      <4>1. Same
        BY <2>1, <2>4, <3>2 DEF Same, ClearPending, TypeOK, HistTypeOK
      <4>2. SameMode
        BY <2>4, <3>2 DEF SameMode, ClearPending, Discarding, InFlight, Delivered
      <4>3. Settled(t)' <=> Settled(t)
        BY <2>1, <2>4, <3>2 DEF ClearPending, Settled, Arriving, TypeOK, QueueTypeOK
      <4> QED
        BY <1>1, <4>1, <4>2, <4>3
    <3>3. CASE t = mainIdx /\ Arriving(t)
      <4>1. ~Settled(t)' /\ Discarding(t)' /\ ~InFlight(t)' /\ ~Delivered(t)'
        BY <2>1, <2>4, <3>3
        DEF ClearPending, Settled, Arriving, Discarding, InFlight, Delivered
      <4>2. attempts'[t] = 0
        BY <2>4, <3>3 DEF ClearPending, TypeOK, HistTypeOK
      <4> QED
        BY <4>1, <4>2 DEF Honour, Underway
    <3>4. CASE t = mainIdx /\ ~Arriving(t) /\ owed[t] = accepted[t]
      <4>1. Underway(t)
        BY <2>4, <3>4 DEF ClearPending, QueueInv, ScanInv, HonourInv, Honour, Settled
      <4>2. Settled(t)' /\ attempts'[t] = attempts[t] /\ abandoned'[t] = ~mainOk
            /\ slaveReg'[t] = slaveReg[t]
        BY <2>1, <2>4, <3>4
        DEF ClearPending, TypeOK, HistTypeOK, QueueTypeOK, Settled, Arriving
      <4>3. CASE mainOk
        BY <2>1, <2>4, <3>4, <4>1, <4>2, <4>3
        DEF ClearPending, Underway, Discarding, InFlight, Delivered, Honour, Ended
      <4>4. CASE ~mainOk
        <5>1. attempts[t] = writeFailedCount[t] /\ writeFailedCount[t] = MaxAttempts
          BY <2>4, <3>4, <4>1, <4>4
          DEF ClearPending, Underway, Discarding, InFlight, Delivered,
              QueueInv, FailedInv, GivingUp
        <5> QED
          BY <4>2, <4>4, <5>1 DEF Honour, Ended
      <4> QED
        BY <4>3, <4>4
    <3>5. CASE t = mainIdx /\ ~Arriving(t) /\ owed[t] # accepted[t]
      BY <2>1, <2>4, <3>5 DEF ClearPending, Honour, TypeOK, HistTypeOK
    <3> QED
      BY <3>2, <3>3, <3>4, <3>5
  <2>5. CASE DecStore
    <3>1. mainIdx \in WriteTag
      BY <2>5 DEF DecStore, TypeOK, MainTypeOK
    <3>2. Settled(t)' <=> Settled(t)
      BY <2>1, <2>5 DEF DecStore, Settled, Arriving
    <3>3. UNCHANGED <<owed, accepted, attempts, abandoned, slaveReg>>
      BY <2>1, <2>5 DEF DecStore, histVars
    <3>4. ~Discarding(t)' /\ ~InFlight(t)' /\ ~Delivered(t)'
      BY <2>5 DEF DecStore, Discarding, InFlight, Delivered
    <3>5. CASE Settled(t)
      BY <3>2, <3>3, <3>5 DEF QueueInv, HonourInv, Honour, Ended
    <3>6. CASE ~Settled(t) /\ owed[t] = accepted[t]
      <4>1. Underway(t)
        BY <3>6 DEF QueueInv, HonourInv, Honour
      <4>2. CASE t = mainIdx
        <5>1. attempts[t] = 0 /\ writeFailedCount'[t] = 0
          BY <2>5, <3>1, <4>1, <4>2 DEF DecStore, Underway, Discarding, TypeOK, QueueTypeOK
        <5> QED
          BY <3>2, <3>3, <3>4, <3>6, <5>1 DEF Honour, Underway
      <4>3. CASE t # mainIdx
        <5>1. attempts[t] = writeFailedCount[t] /\ writeFailedCount'[t] = writeFailedCount[t]
          BY <2>5, <4>1, <4>3
          DEF DecStore, Underway, Discarding, InFlight, Delivered, TypeOK, QueueTypeOK
        <5> QED
          BY <3>2, <3>3, <3>4, <3>6, <5>1 DEF Honour, Underway
      <4> QED
        BY <4>2, <4>3
    <3>7. CASE owed[t] # accepted[t]
      BY <3>3, <3>7 DEF Honour
    <3> QED
      BY <3>5, <3>6, <3>7
  <2> QED
    BY <1>3, <2>2, <2>3, <2>4, <2>5 DEF WriteProcess, WritePass
<1>4. CASE ReadHalf \/ UNCHANGED vars
  BY <1>4, ReadIsFramed, <1>1
  DEF queueVars, tagVars, mosqVars, mainVars, histVars, Same, SameMode, Settled, Arriving,
      Discarding, InFlight, Delivered
<1> QED
  BY <1>2, <1>3, <1>4 DEF Next

LEMMA AnsweredStep == TypeOK /\ AnsweredInv /\ [Next]_vars => AnsweredInv'
<1> SUFFICES ASSUME TypeOK, AnsweredInv, [Next]_vars,
                    mainOk', mainPc' \in {"clear", "decLoad", "decStore"}
             PROVE  mbSlaveOnline'[SlaveOf'[mainIdx']]
  BY DEF AnsweredInv
<1> USE DEF AnsweredInv
<1>1. CASE Mosquitto
  BY <1>1, MosqIsFramed DEF MosqFrame, statusVars, mainVars
<1>2. CASE ReadHalf
  BY <1>2 DEF ReadHalf, queueVars, mainVars
<1>3. CASE WriteDone
  <2>1. SlaveOf[mainIdx] \in Slave /\ mainIdx' = mainIdx
    BY <1>3 DEF WriteDone, TypeOK, MainTypeOK
  <2>2. SetOnlineStatus(SlaveOf[mainIdx], TRUE)
    BY <1>3 DEF WriteDone
  <2>3. mbSlaveOnline'[SlaveOf[mainIdx]]
    BY <2>1, <2>2 DEF SetOnlineStatus, TypeOK, StatusTypeOK
  <2> QED
    BY <2>1, <2>3
<1>4. CASE WriteProcess /\ ~WriteDone
  BY <1>4 DEF WriteProcess, WritePass, EnterProcess, StartPass, EndPass, ScanTag, SendRequest,
       InvalidAddress, WriteTimeout, WriteError, WriteFailed, ClearPending, DecLoad, DecStore,
       statusVars
<1>5. CASE UNCHANGED vars
  BY <1>5 DEF vars, queueVars, mainVars, statusVars
<1> QED
  BY <1>1, <1>2, <1>3, <1>4, <1>5 DEF Next

-----------------------------------------------------------------------------
(* Safety *)

LEMMA QueueInvInit == Init => QueueInv
<1> SUFFICES ASSUME Init PROVE QueueInv
  OBVIOUS
<1> USE DEF Init
<1>1. ScanInv /\ FlightInv /\ AnsweredInv
  BY DEF MainInit, ScanInv, FlightInv, AnsweredInv
<1>2. RawInv /\ OwedInv /\ LateInv
  BY DEF QueueInit, HistInit, MosqInit, RawInv, OwedInv, LateInv
<1>3. FailedInv
  BY MaxAttemptsNat DEF QueueInit, MainInit, FailedInv, GivingUp
<1>4. HonourInv
  BY DEF QueueInit, HistInit, MosqInit, HonourInv, Honour, Settled, Arriving, Ended
<1>5. CounterCoversPending
  <2>1. Pending = {}
    BY DEF QueueInit, Pending
  <2>2. Uncounted = 0 /\ Undiscarded = 0
    BY DEF MosqInit, MainInit, Uncounted, Undiscarded
  <2> QED
    BY <2>1, <2>2, FS_EmptySet DEF QueueInit, CounterCoversPending
<1> QED
  BY <1>1, <1>2, <1>3, <1>4, <1>5 DEF QueueInv

LEMMA QueueInvNext == TypeOK /\ QueueInv /\ [Next]_vars => QueueInv'
BY ScanStep, RawStep, OwedStep, LateStep, FlightStep, FailedStep, HonourStep, AnsweredStep,
   CounterStep
   DEF QueueInv

THEOREM Invariance == Spec => [](TypeOK /\ QueueInv)
BY TypeInit, TypeNext, QueueInvInit, QueueInvNext, PTL DEF Spec

(* Reading gives way to every pending write unless a store to              *)
(* pendingWrites was overwritten (mbbridge.cpp:293, :314, :469, :809).     *)
THEOREM CounterCovers == Spec => []CounterCoversPending
<1>1. QueueInv => CounterCoversPending
  BY DEF QueueInv
<1> QED
  BY <1>1, Invariance, PTL

(* A command that finds no write pending is delivered, or given up after   *)
(* exactly modbusWriteMaxAttempts attempts, in every interleaving of the   *)
(* two threads (mbbridge.cpp:281-319, :802-811).                           *)
THEOREM FreshHonoured == Spec => []FreshCommandHonoured
<1>1. QueueInv => FreshCommandHonoured
  BY DEF QueueInv, HonourInv, Honour, Ended, FreshCommandHonoured
<1> QED
  BY <1>1, Invariance, PTL

(* No slave receives an older command after a newer one.                   *)
THEOREM InOrder == Spec => NeverOlder
<1>1. TypeOK /\ QueueInv /\ [Next]_vars => \A t \in WriteTag : slaveReg'[t] >= slaveReg[t]
  <2> SUFFICES ASSUME TypeOK, QueueInv, [Next]_vars, NEW t \in WriteTag
               PROVE  slaveReg'[t] >= slaveReg[t]
    OBVIOUS
  <2>1. slaveReg[t] \in Nat
    BY DEF TypeOK, QueueTypeOK
  <2>2. CASE UNCHANGED slaveReg
    BY <2>1, <2>2
  <2>3. CASE mainPc = "io" /\ SlaveApplies
    <3>1. mainIdx \in WriteTag /\ slaveReg[mainIdx] <= mainVal
      BY <2>3 DEF TypeOK, MainTypeOK, QueueInv, FlightInv
    <3> QED
      BY <2>1, <2>3, <3>1 DEF SlaveApplies, TypeOK, QueueTypeOK, MainTypeOK
  <2>4. CASE Mosquitto
    BY <2>2, <2>4, MosqIsFramed DEF MosqFrame
  <2>5. CASE WriteProcess
    BY <2>2, <2>3, <2>5
    DEF WriteProcess, WritePass, EnterProcess, StartPass, EndPass, ScanTag,
        SendRequest, InvalidAddress, WriteDone,
        WriteTimeout, WriteError, ClearPending, DecLoad, DecStore
  <2>6. CASE ReadHalf \/ UNCHANGED vars
    BY <2>2, <2>6, ReadIsFramed DEF queueVars
  <2> QED
    BY <2>4, <2>5, <2>6 DEF Next
<1> QED
  BY <1>1, Invariance, PTL DEF Spec, NeverOlder

(* How far a pass is from its end. *)
LEMMA StepsTyped == ASSUME TypeOK PROVE StepsLeft \in Nat
<1>1. NumTags - mainIdx \in Nat /\ NumTags \in Nat
  BY NumTagsNat DEF TypeOK, MainTypeOK, Entry
<1> QED  BY <1>1 DEF StepsLeft, PhaseLeft, TagSteps

LEMMA PassStep ==
  ASSUME TypeOK, [Next]_vars, mainPc # "loop"
  PROVE  UNCHANGED mainVars \/ StepsLeft' \in 0 .. StepsLeft - 1
<1>1. mainIdx \in Int /\ mainIdx <= NumTags /\ mainIdx >= 0 /\ NumTags \in Nat /\ mainPc \in MainPc
  BY NumTagsNat DEF TypeOK, MainTypeOK, Entry
<1>2. CASE Mosquitto
  BY <1>2, MosqIsFramed DEF MosqFrame
<1>3. CASE ReadHalf \/ UNCHANGED vars
  BY <1>3, ReadIsFramed DEF queueVars
<1>4. CASE StartPass \/ EndPass
  BY <1>1, <1>4 DEF StartPass, EndPass, StepsLeft, PhaseLeft, TagSteps
<1>5. CASE ScanTag
  <2>1. mainIdx < NumTags
    BY <1>5, ScanStaysInside, NumTagsNat DEF ScanTag, TypeOK, MainTypeOK, WriteTag
  <2> QED  BY <1>1, <1>5, <2>1 DEF ScanTag, StepsLeft, PhaseLeft, TagSteps
<1>6. CASE SendRequest \/ InvalidAddress \/ WriteDone \/ WriteTimeout \/ WriteError
           \/ ClearPending \/ DecLoad \/ DecStore
  <2>1. mainPc \in {"send", "io", "clear", "decLoad", "decStore"}
    BY <1>6 DEF SendRequest, InvalidAddress, WriteDone, WriteTimeout, WriteError, ClearPending,
      DecLoad, DecStore
  <2>2. mainIdx < NumTags
    BY <2>1, NumTagsNat DEF TypeOK, MainTypeOK, WriteTag
  <2>3. CASE SendRequest \/ WriteDone \/ ClearPending \/ DecLoad
    <3>1. \/ mainPc = "send" /\ mainPc' = "io"
          \/ mainPc = "io" /\ mainPc' = "clear"
          \/ mainPc = "clear" /\ mainPc' = "decLoad"
          \/ mainPc = "decLoad" /\ mainPc' = "decStore"
      BY <2>3 DEF SendRequest, WriteDone, ClearPending, DecLoad
    <3>2. mainIdx' = mainIdx
      BY <2>3 DEF SendRequest, WriteDone, ClearPending, DecLoad
    <3> QED  BY <1>1, <2>2, <3>1, <3>2 DEF StepsLeft, PhaseLeft, TagSteps
  <2>4. CASE InvalidAddress \/ WriteTimeout \/ WriteError
    <3>1. mainPc \in {"send", "io"}
      BY <2>4 DEF InvalidAddress, WriteTimeout, WriteError
    <3>2. \/ mainPc' = "clear" /\ mainIdx' = mainIdx
          \/ mainPc' = "scan" /\ mainIdx' = mainIdx + 1
      BY <2>4 DEF InvalidAddress, WriteTimeout, WriteError, WriteFailed
    <3> QED  BY <1>1, <2>2, <3>1, <3>2 DEF StepsLeft, PhaseLeft, TagSteps
  <2>5. CASE DecStore
    BY <1>1, <2>2, <2>5 DEF DecStore, StepsLeft, PhaseLeft, TagSteps
  <2> QED  BY <1>6, <2>3, <2>4, <2>5
<1>7. CASE EnterProcess
  BY <1>7 DEF EnterProcess
<1> QED
  BY <1>2, <1>3, <1>4, <1>5, <1>6, <1>7 DEF Next, WriteProcess, WritePass

(* A pass of modbus_write_process comes to an end: each of its steps       *)
(* lowers the number of steps that may still follow, whatever the          *)
(* mosquitto thread stores meanwhile (mbbridge.cpp:281-319).               *)
THEOREM WritesEnd == Spec => WritePassEnds
<1>1. TypeOK /\ [Next]_vars =>
        [mainPc # "loop" => UNCHANGED mainVars \/ StepsLeft' \in 0 .. StepsLeft - 1]_vars
  BY PassStep
<1> QED
  BY <1>1, Typing, PTL DEF Spec, WritePassEnds
=============================================================================
