---------------------------- MODULE BridgeProofs ----------------------------
(***************************************************************************)
(* Proofs about the composition: the two halves of process() and the       *)
(* callbacks keep, together, what each part was verified with, so that the *)
(* theorems about the parts hold of the bridge; and pendingWrites does     *)
(* what it is for.                                                         *)
(***************************************************************************)
EXTENDS Bridge, TLAPS, FiniteSetTheorems

(* The instances' assumptions on their constants. *)
LEMMA PartsConfigured ==
  /\ W!QueueConfig /\ R!ReadConfig
  /\ Int \subseteq Int /\ 0 \in Int
BY BridgeAssumption

(* What holds between any two steps. *)
BridgeInv == TypeOK /\ W!QueueInv

LEMMA Parts ==
  TypeOK <=> W!TypeOK /\ R!TypeOK /\ doubled \in BOOLEAN /\ OneHalf
BY DEF TypeOK

LEMMA BridgeInvInit == Init => BridgeInv
<1> SUFFICES ASSUME Init PROVE BridgeInv
  OBVIOUS
<1>1. W!TypeOK /\ W!QueueInv
  BY PartsConfigured, W!TypeInit, W!QueueInvInit DEF Init
<1>2. R!TypeOK
  BY PartsConfigured, R!TypeInit DEF Init
<1>3. doubled \in BOOLEAN /\ OneHalf
  BY DEF Init, R!Init, R!ReadInit, OneHalf
<1> QED
  BY <1>1, <1>2, <1>3 DEF BridgeInv, TypeOK

-----------------------------------------------------------------------------
(* Seen from the write path *)

LEMMA PassFrame == R!Pass => R!OutsideFrame
BY PartsConfigured, R!ReadIsFramed DEF R!ReadProcess

(* The status of a slave changes in a read pass only by the end of a read. *)
LEMMA PassStatus ==
  ASSUME R!TypeOK, R!Pass
  PROVE  \/ UNCHANGED statusVars
         \/ \E s \in Slave, online \in BOOLEAN : W!SetOnlineStatus(s, online)
<1>1. CASE R!ReadAnswered \/ R!ReadTimeout
  <2>1. tag \in R!ReadTag
    BY <1>1 DEF R!ReadAnswered, R!ReadTimeout, R!TypeOK, R!PassTypeOK, R!TagsOf
  <2>2. TagSlave[tag] \in Slave
    BY <2>1, PartsConfigured DEF R!ReadConfig
  <2>3. \E online \in BOOLEAN : R!SetOnlineStatus(TagSlave[tag], online)
    BY <1>1 DEF R!ReadAnswered, R!ReadTimeout
  <2> QED
    BY <2>2, <2>3 DEF R!SetOnlineStatus, W!SetOnlineStatus, R!StatusText, W!StatusText
<1>2. CASE R!Pass /\ ~(R!ReadAnswered \/ R!ReadTimeout)
  BY <1>2 DEF R!Pass, R!SkipCycle, R!BeginCycle, R!EndReads, R!Cut, R!VisitNext, R!EndCycle,
     R!Republish, R!RefuseGroup, R!InvalidRead, R!SendRead, R!Retry, R!ReadError, R!PublishTag,
     R!EndVisit, R!lineVars, statusVars
<1> QED
  BY <1>1, <1>2

LEMMA QueueKept == UNCHANGED queueVars => UNCHANGED W!queueVars
BY DEF queueVars, W!queueVars, W!tagVars, W!mosqVars, W!mainVars, W!linkVars, W!histVars

LEMMA BusyReading == R!Pass /\ OneHalf => mainPc = "read"
BY DEF OneHalf, R!Pass, R!SkipCycle, R!BeginCycle, R!EndReads, R!Cut, R!VisitNext, R!EndCycle,
   R!Republish, R!RefuseGroup, R!InvalidRead, R!SendRead, R!Retry, R!ReadAnswered,
   R!ReadTimeout, R!ReadError, R!PublishTag

LEMMA WriteSide == BridgeInv /\ [Next]_vars => [W!Next]_(W!vars)
<1> SUFFICES ASSUME BridgeInv, [Next]_vars PROVE W!Next \/ UNCHANGED W!vars
  OBVIOUS
<1>1. CASE EnterProcess \/ WriteStep
  BY <1>1 DEF EnterProcess, WriteStep, W!Next, W!WriteProcess
<1>2. CASE ReadStep
  <2>1. UNCHANGED W!queueVars
    BY <1>2, QueueKept DEF ReadStep, queueVars
  <2>2. CASE UNCHANGED statusVars
    BY <2>1, <2>2 DEF W!vars, W!statusVars, statusVars
  <2>3. CASE \E s \in Slave, online \in BOOLEAN : W!SetOnlineStatus(s, online)
    <3>1. mainPc = "read"
      BY <1>2, BusyReading DEF ReadStep, BridgeInv, TypeOK
    <3> QED
      BY <2>1, <2>3, <3>1 DEF W!ReadHalf, W!Next
  <2> QED
    BY <1>2, <2>2, <2>3, PassStatus DEF ReadStep, BridgeInv, TypeOK
<1>3. CASE Callback
  BY <1>3 DEF Callback, W!Next
<1>4. CASE Tick \/ UNCHANGED vars
  <2>1. UNCHANGED queueVars /\ UNCHANGED statusVars
    BY <1>4 DEF Tick, vars, queueVars, R!Tick, R!lineVars, statusVars
  <2> QED
    BY <2>1, QueueKept DEF W!vars, W!statusVars, statusVars
<1> QED
  BY <1>1, <1>2, <1>3, <1>4 DEF Next, MainThread

-----------------------------------------------------------------------------
(* Seen from the read path *)

LEMMA ReadsKept == UNCHANGED readVars => UNCHANGED R!readVars
BY DEF readVars, R!readVars, R!tagVars, R!passVars, R!pubVars

LEMMA ReadSideWrites == BridgeInv /\ WriteStep => [R!Next]_(R!vars)
<1> SUFFICES ASSUME BridgeInv, WriteStep PROVE R!Next \/ UNCHANGED R!vars
  OBVIOUS
<1>1. UNCHANGED R!readVars /\ UNCHANGED clock /\ readPc = "idle" /\ W!WritePass
  BY ReadsKept DEF WriteStep, readVars, ReadsDone
<1>2. UNCHANGED <<connected, drops>>
  BY <1>1, PartsConfigured, W!MainIsFramed DEF W!WriteProcess, W!MainFrame, W!linkVars
<1>3. CASE W!WriteDone \/ W!WriteTimeout
  <2>1. SlaveOf[mainIdx] \in Slave
    BY <1>3 DEF BridgeInv, TypeOK, W!TypeOK, W!MainTypeOK, W!WriteDone, W!WriteTimeout
  <2>2. \E online \in BOOLEAN : W!SetOnlineStatus(SlaveOf[mainIdx], online)
    BY <1>3 DEF W!WriteDone, W!WriteTimeout
  <2>3. UNCHANGED pendingWrites
    BY <1>3 DEF W!WriteDone, W!WriteTimeout, W!WriteFailed
  <2>4. \E s \in Slave, online \in BOOLEAN : R!SetOnlineStatus(s, online)
    BY <2>1, <2>2 DEF R!SetOnlineStatus, W!SetOnlineStatus, R!StatusText, W!StatusText
  <2> QED
    BY <1>1, <1>2, <2>3, <2>4 DEF R!WriteHalf, R!Next
<1>4. CASE W!DecStore
  <2>1. UNCHANGED <<mbSlaveOnline, slaveTopic>>
    <3>1. CASE mainOk
      <4>1. mbSlaveOnline[SlaveOf[mainIdx]]
        BY <1>4, <3>1 DEF W!DecStore, BridgeInv, W!QueueInv, W!AnsweredInv
      <4>2. mbSlaveOnline \in [Slave -> BOOLEAN]
        BY DEF BridgeInv, TypeOK, W!TypeOK, W!StatusTypeOK
      <4>3. mbSlaveOnline' = [mbSlaveOnline EXCEPT ![SlaveOf[mainIdx]] = TRUE]
            /\ slaveTopic' = slaveTopic
        BY <1>4, <3>1 DEF W!DecStore
      <4>4. \A s \in Slave : mbSlaveOnline'[s] = mbSlaveOnline[s]
        BY <4>1, <4>2, <4>3, Zenon
      <4> QED
        BY <4>2, <4>3, <4>4
    <3>2. CASE ~mainOk
      BY <1>4, <3>2 DEF W!DecStore
    <3> QED
      BY <3>1, <3>2
  <2>2. pendingWrites' \in Int
    BY <1>4 DEF W!DecStore, W!Discount, BridgeInv, TypeOK, W!TypeOK, W!MainTypeOK
  <2> QED
    BY <1>1, <1>2, <2>1, <2>2 DEF R!Writes, R!Next, R!lineVars
<1>5. CASE W!WritePass /\ ~W!WriteDone /\ ~W!WriteTimeout /\ ~W!DecStore
  <2>1. UNCHANGED statusVars /\ UNCHANGED pendingWrites
    BY <1>5 DEF W!WritePass, W!StartPass, W!EndPass, W!ScanTag, W!SendRequest,
       W!InvalidAddress, W!WriteError, W!WriteFailed, W!ClearPending, W!DecLoad,
       W!statusVars, statusVars
  <2> QED
    BY <1>1, <1>2, <2>1 DEF R!vars, R!lineVars, statusVars
<1> QED
  BY <1>1, <1>3, <1>4, <1>5

LEMMA ReadSideCallback == BridgeInv /\ Callback => [R!Next]_(R!vars)
<1> SUFFICES ASSUME BridgeInv, Callback PROVE R!Next \/ UNCHANGED R!vars
  OBVIOUS
<1>1. UNCHANGED R!readVars /\ UNCHANGED clock /\ W!Mosquitto
  BY ReadsKept DEF Callback, BesideReads, readVars
<1>2. UNCHANGED R!lineVars
  BY <1>1, PartsConfigured, W!MosqIsFramed DEF W!MosqFrame, W!statusVars, R!lineVars
<1>3. CASE W!LinkUp \/ W!LinkDown
  BY <1>1, <1>2, <1>3 DEF W!LinkUp, W!LinkDown, R!LinkUp, R!LinkDown, R!Link, R!Next
<1>4. CASE W!IncStore
  <2>1. UNCHANGED <<connected, drops>>
    BY <1>4 DEF W!IncStore, W!linkVars
  <2>2. pendingWrites' \in Int
    BY <1>4 DEF W!IncStore, BridgeInv, TypeOK, W!TypeOK, W!MosqTypeOK
  <2> QED
    BY <1>1, <1>2, <2>1, <2>2 DEF R!Writes, R!Next
<1>5. CASE W!Mosquitto /\ ~W!LinkUp /\ ~W!LinkDown /\ ~W!IncStore
  <2>1. UNCHANGED <<connected, drops, pendingWrites>>
    BY <1>5 DEF W!Mosquitto, W!WriteRequest, W!LiveMessage, W!RetainedMessage,
       W!AcceptCommand, W!IgnoredMessage, W!SetRawValue, W!SetWritePending, W!IncLoad,
       W!linkVars
  <2> QED
    BY <1>1, <1>2, <2>1 DEF R!vars
<1> QED
  BY <1>1, <1>3, <1>4, <1>5

LEMMA ReadSide == BridgeInv /\ [Next]_vars => [R!Next]_(R!vars)
<1> SUFFICES ASSUME BridgeInv, [Next]_vars PROVE [R!Next]_(R!vars)
  OBVIOUS
<1>1. CASE EnterProcess \/ ReadStep \/ Tick
  BY <1>1 DEF EnterProcess, ReadStep, Tick, R!Next, R!ReadProcess
<1>2. CASE WriteStep
  BY <1>2, ReadSideWrites
<1>3. CASE Callback
  BY <1>3, ReadSideCallback
<1>4. CASE UNCHANGED vars
  BY <1>4, ReadsKept DEF vars, R!vars, R!lineVars, statusVars, queueVars, readVars
<1> QED
  BY <1>1, <1>2, <1>3, <1>4 DEF Next, MainThread

-----------------------------------------------------------------------------
(* The two together *)

LEMMA OneHalfStep == BridgeInv /\ [Next]_vars => OneHalf'
<1> SUFFICES ASSUME BridgeInv, [Next]_vars PROVE OneHalf'
  OBVIOUS
<1>1. OneHalf
  BY DEF BridgeInv, TypeOK
<1>2. CASE EnterProcess
  BY <1>2 DEF EnterProcess, W!EnterProcess, OneHalf
<1>3. CASE ReadStep
  BY <1>1, <1>3, BusyReading DEF ReadStep, queueVars, OneHalf
<1>4. CASE WriteStep
  BY <1>4 DEF WriteStep, ReadsDone, readVars, OneHalf
<1>5. CASE Callback
  BY <1>1, <1>5, PartsConfigured, W!MosqIsFramed
  DEF Callback, BesideReads, readVars, W!MosqFrame, W!mainVars, OneHalf
<1>6. CASE Tick \/ UNCHANGED vars
  BY <1>1, <1>6 DEF Tick, R!Tick, R!readVars, R!passVars, vars, readVars, queueVars, OneHalf
<1> QED
  BY <1>2, <1>3, <1>4, <1>5, <1>6 DEF Next, MainThread

LEMMA DoubledStep == BridgeInv /\ [Next]_vars => doubled' \in BOOLEAN
<1> SUFFICES ASSUME BridgeInv, [Next]_vars PROVE doubled' \in BOOLEAN
  OBVIOUS
<1>1. CASE Callback
  BY <1>1, Zenon DEF Callback, BesideReads
<1>2. CASE UNCHANGED doubled
  BY <1>2 DEF BridgeInv, TypeOK
<1> QED
  BY <1>1, <1>2 DEF Next, MainThread, EnterProcess, ReadStep, WriteStep, Tick, vars

LEMMA BridgeInvNext == BridgeInv /\ [Next]_vars => BridgeInv'
<1> SUFFICES ASSUME BridgeInv, [Next]_vars PROVE BridgeInv'
  OBVIOUS
<1>1. W!TypeOK' /\ W!QueueInv'
  BY WriteSide, PartsConfigured, W!TypeNext, W!QueueInvNext DEF BridgeInv, TypeOK
<1>2. R!TypeOK'
  BY ReadSide, PartsConfigured, R!TypeNext DEF BridgeInv, TypeOK
<1> QED
  BY <1>1, <1>2, OneHalfStep, DoubledStep DEF BridgeInv, TypeOK

(* Every state of the composition is well typed, and the two halves of     *)
(* process() never overlap.                                                *)
THEOREM Typing == Spec => []TypeOK
<1>1. BridgeInv => TypeOK
  BY DEF BridgeInv
<1> QED
  BY <1>1, BridgeInvInit, BridgeInvNext, PTL DEF Spec

(* In the bridge the write path behaves as it was verified to: the read    *)
(* passes only change the status of slaves, and never during a write pass. *)
THEOREM WritesKeepTheirSpec == Spec => WritesRefine
<1>1. Init => W!Init
  BY DEF Init
<1> QED
  BY <1>1, BridgeInvInit, BridgeInvNext, WriteSide, PTL DEF Spec, WritesRefine, W!Spec

(* In the bridge the read path behaves as it was verified to: callbacks    *)
(* and write passes only change the connection, the counter and, between   *)
(* two read passes, the status of slaves.                                  *)
THEOREM ReadsKeepTheirSpec == Spec => ReadsRefine
<1>1. Init => R!Init
  BY DEF Init
<1> QED
  BY <1>1, BridgeInvInit, BridgeInvNext, ReadSide, PTL DEF Spec, ReadsRefine, R!Spec

(* So what was proved of the parts holds of the bridge.  Whatever is read  *)
(* and published between the writes, commands are honoured and in order    *)
(* (mbbridge.cpp:281-319, :802-811).                                       *)
THEOREM BridgeHonoursCommands == Spec => []W!FreshCommandHonoured /\ W!NeverOlder
BY WritesKeepTheirSpec, PartsConfigured, W!FreshHonoured, W!InOrder, PTL DEF WritesRefine

(* In the bridge, too, the write path implements CommandDelivery, with the *)
(* read passes between its scans (mbbridge.cpp:266-325, :485-494).         *)
THEOREM BridgeDelivers == Spec => W!DeliversSafely
BY WritesKeepTheirSpec, PartsConfigured, W!WritePathDelivers, PTL DEF WritesRefine

(* And the read path implements RegisterFeed, with the write passes and    *)
(* the counter they keep between its reads (mbbridge.cpp:434-494).         *)
THEOREM BridgeFeeds == Spec => R!FeedsTopics
BY ReadsKeepTheirSpec, PartsConfigured, R!ReadPathFeeds, PTL DEF ReadsRefine

(* Whatever is written between the reads, what is published is fresh, and  *)
(* no value outlives noreadignore (mbbridge.cpp:690-723).                  *)
THEOREM BridgePublishesFresh == Spec => []R!StaleBound /\ R!FreshPublished
BY ReadsKeepTheirSpec, PartsConfigured, R!StaleBounded, R!PublishedIsFresh, PTL
DEF ReadsRefine

-----------------------------------------------------------------------------
(* The counter of pending writes *)

LEMMA SameCounting ==
  ASSUME NEW S
  PROVE  (W!IsFiniteSet(S) <=> IsFiniteSet(S)) /\ W!Cardinality(S) = Cardinality(S)
BY DEF W!IsFiniteSet, IsFiniteSet, W!Cardinality, Cardinality

LEMMA PendingFinite ==
  BridgeInv => /\ IsFiniteSet(W!Pending)
               /\ Cardinality(W!Pending) \in Nat
               /\ pendingWrites \in Int
<1> SUFFICES ASSUME BridgeInv
             PROVE  /\ IsFiniteSet(W!Pending)
                    /\ Cardinality(W!Pending) \in Nat
                    /\ pendingWrites \in Int
  OBVIOUS
<1>1. W!Pending \in SUBSET W!WriteTag
  BY DEF W!Pending
<1>2. pendingWrites \in Int
  BY DEF BridgeInv, TypeOK, W!TypeOK, W!QueueTypeOK
<1>3. \A S \in SUBSET W!WriteTag : IsFiniteSet(S) /\ Cardinality(S) \in Nat
  BY PartsConfigured, W!TagSetsFinite, SameCounting
<1> QED
  BY <1>1, <1>2, <1>3

(* The steps that leave the counter and the flags alone. *)
LEMMA CountKept ==
  ASSUME CountExact, UNCHANGED <<writePending, pendingWrites, torn>>, doubled => doubled',
         W!Uncounted' = W!Uncounted, W!Undiscarded' = W!Undiscarded
  PROVE  CountExact'
<1>1. W!Pending' = W!Pending
  BY DEF W!Pending
<1> QED
  BY <1>1 DEF CountExact

LEMMA CountMosq ==
  ASSUME BridgeInv, CountExact, Callback, ~torn', ~doubled'
  PROVE  pendingWrites' + W!Uncounted' - W!Undiscarded' = Cardinality(W!Pending')
<1>1. IsFiniteSet(W!Pending) /\ Cardinality(W!Pending) \in Nat /\ pendingWrites \in Int
  BY PendingFinite
<1>2. W!Mosquitto /\ ~doubled /\ ~Doubling
  BY DEF Callback, BesideReads
<1>3. W!Undiscarded' = W!Undiscarded /\ W!Undiscarded \in 0 .. 1
  BY <1>2, PartsConfigured, W!MosqIsFramed DEF W!MosqFrame, W!mainVars, W!Undiscarded
<1>4. CASE W!SetWritePending
  <2>1. mosqTag \notin W!Pending /\ W!Pending' = W!Pending \cup {mosqTag}
    BY <1>2, <1>4
    DEF W!SetWritePending, W!Pending, Doubling, BridgeInv, TypeOK, W!TypeOK, W!MosqTypeOK,
        W!QueueTypeOK
  <2>2. Cardinality(W!Pending') = Cardinality(W!Pending) + 1
    BY <1>1, <2>1, FS_AddElement
  <2>3. ~torn /\ pendingWrites' = pendingWrites
    BY <1>4 DEF W!SetWritePending
  <2>4. W!Uncounted = 0 /\ W!Uncounted' = 1
    BY <1>4 DEF W!SetWritePending, W!Uncounted
  <2> QED
    BY <1>1, <1>2, <1>3, <2>2, <2>3, <2>4 DEF CountExact
<1>5. CASE W!IncStore
  <2>1. ~torn /\ pendingWrites' = pendingWrites + 1
    BY <1>5 DEF W!IncStore
  <2>2. W!Pending' = W!Pending
    BY <1>5 DEF W!IncStore, W!Pending
  <2>3. W!Uncounted = 1 /\ W!Uncounted' = 0
    BY <1>5 DEF W!IncStore, W!Uncounted
  <2> QED
    BY <1>1, <1>2, <1>3, <2>1, <2>2, <2>3 DEF CountExact
<1>6. CASE W!Mosquitto /\ ~W!SetWritePending /\ ~W!IncStore
  <2>1. UNCHANGED <<writePending, pendingWrites, torn>>
    BY <1>6 DEF W!Mosquitto, W!WriteRequest, W!LinkUp, W!LinkDown, W!LiveMessage,
       W!RetainedMessage, W!AcceptCommand, W!IgnoredMessage, W!SetRawValue, W!IncLoad
  <2>2. W!Uncounted' = W!Uncounted
    BY <1>6 DEF W!Mosquitto, W!WriteRequest, W!LinkUp, W!LinkDown, W!LiveMessage,
       W!RetainedMessage, W!AcceptCommand, W!IgnoredMessage, W!SetRawValue, W!IncLoad,
       W!Uncounted, W!mosqVars
  <2> QED
    BY <1>2, <1>3, <2>1, <2>2, CountKept DEF CountExact
<1> QED
  BY <1>2, <1>4, <1>5, <1>6

LEMMA CountMain ==
  ASSUME BridgeInv, CountExact, WriteStep, ~torn', ~doubled'
  PROVE  pendingWrites' + W!Uncounted' - W!Undiscarded' = Cardinality(W!Pending')
<1>1. IsFiniteSet(W!Pending) /\ Cardinality(W!Pending) \in Nat /\ pendingWrites \in Int
  BY PendingFinite
<1>2. W!WritePass /\ ~doubled
  BY DEF WriteStep
<1>3. W!Uncounted' = W!Uncounted /\ W!Uncounted \in 0 .. 1
  BY <1>2, PartsConfigured, W!MainIsFramed
  DEF W!WriteProcess, W!MainFrame, W!mosqVars, W!Uncounted
<1>4. CASE W!ClearPending
  <2>1. mainIdx \in W!Pending /\ W!Pending' = W!Pending \ {mainIdx}
    BY <1>4 DEF W!ClearPending, W!Pending, BridgeInv, W!QueueInv, W!ScanInv, TypeOK,
       W!TypeOK, W!MainTypeOK, W!QueueTypeOK
  <2>2. Cardinality(W!Pending') = Cardinality(W!Pending) - 1
    BY <1>1, <2>1, FS_RemoveElement
  <2>3. ~torn /\ pendingWrites' = pendingWrites
    BY <1>4 DEF W!ClearPending
  <2>4. W!Undiscarded = 0 /\ W!Undiscarded' = 1
    BY <1>4 DEF W!ClearPending, W!Undiscarded
  <2> QED
    BY <1>1, <1>2, <1>3, <2>2, <2>3, <2>4 DEF CountExact
<1>5. CASE W!DecStore
  <2>1. ~torn /\ pendingWrites' = pendingWrites - 1
    BY <1>5 DEF W!DecStore, W!Discount
  <2>2. W!Pending' = W!Pending
    BY <1>5 DEF W!DecStore, W!Pending
  <2>3. W!Undiscarded = 1 /\ W!Undiscarded' = 0
    BY <1>5 DEF W!DecStore, W!Undiscarded, W!NextTag
  <2> QED
    BY <1>1, <1>2, <1>3, <2>1, <2>2, <2>3 DEF CountExact
<1>6. CASE W!WritePass /\ ~W!ClearPending /\ ~W!DecStore
  <2>1. UNCHANGED <<writePending, pendingWrites, torn>>
    BY <1>6 DEF W!WritePass, W!StartPass, W!EndPass, W!ScanTag, W!SendRequest,
       W!InvalidAddress, W!WriteDone, W!WriteTimeout, W!WriteError, W!WriteFailed, W!DecLoad
  <2>2. W!Undiscarded' = W!Undiscarded
    BY <1>6 DEF W!WritePass, W!StartPass, W!EndPass, W!ScanTag, W!SendRequest,
       W!InvalidAddress, W!WriteDone, W!WriteTimeout, W!WriteError, W!WriteFailed, W!DecLoad,
       W!Undiscarded
  <2> QED
    BY <1>2, <1>3, <2>1, <2>2, CountKept DEF CountExact
<1> QED
  BY <1>2, <1>4, <1>5, <1>6

LEMMA CountStep == BridgeInv /\ CountExact /\ [Next]_vars => CountExact'
<1> SUFFICES ASSUME BridgeInv, CountExact, [Next]_vars, ~torn', ~doubled'
             PROVE  pendingWrites' + W!Uncounted' - W!Undiscarded' = Cardinality(W!Pending')
  BY DEF CountExact
<1>1. CASE Callback
  BY <1>1, CountMosq
<1>2. CASE WriteStep
  BY <1>2, CountMain
<1>3. CASE EnterProcess
  <2>1. UNCHANGED <<writePending, pendingWrites, torn, doubled>>
    BY <1>3 DEF EnterProcess, W!EnterProcess
  <2>2. W!Uncounted' = W!Uncounted /\ W!Undiscarded' = W!Undiscarded
    BY <1>3 DEF EnterProcess, W!EnterProcess, W!MainFrame, W!mosqVars, W!Uncounted,
       W!Undiscarded
  <2> QED
    BY <2>1, <2>2, CountKept DEF CountExact
<1>4. CASE ReadStep \/ Tick \/ UNCHANGED vars
  <2>1. UNCHANGED queueVars /\ UNCHANGED doubled
    BY <1>4 DEF ReadStep, Tick, vars, queueVars
  <2>2. W!Uncounted' = W!Uncounted /\ W!Undiscarded' = W!Undiscarded
    BY <2>1 DEF queueVars, W!Uncounted, W!Undiscarded
  <2>3. UNCHANGED <<writePending, pendingWrites, torn>>
    BY <2>1 DEF queueVars
  <2> QED
    BY <2>1, <2>2, <2>3, CountKept DEF CountExact
<1> QED
  BY <1>1, <1>2, <1>3, <1>4 DEF Next, MainThread

LEMMA CountInit == Init => CountExact
<1> SUFFICES ASSUME Init PROVE CountExact
  OBVIOUS
<1>1. W!Pending = {} /\ pendingWrites = 0
  BY DEF Init, W!Init, W!QueueInit, W!Pending
<1>2. W!Uncounted = 0 /\ W!Undiscarded = 0
  BY DEF Init, W!Init, W!MosqInit, W!MainInit, W!Uncounted, W!Undiscarded
<1> QED
  BY <1>1, <1>2, FS_EmptySet DEF CountExact

(* Nothing but a request for a tag already pending, or an overwritten      *)
(* store, takes pendingWrites off the number of pending writes             *)
(* (mbbridge.cpp:293, :314, :809).                                         *)
THEOREM CountIsExact == Spec => []CountExact
BY BridgeInvInit, BridgeInvNext, CountInit, CountStep, PTL DEF Spec

-----------------------------------------------------------------------------
(* What the counter is for *)

LEMMA CheckStep ==
  ASSUME BridgeInv, [Next]_vars, readPc = "check", readPc' # "check"
  PROVE  /\ W!Undiscarded = 0
         /\ readPc' \in {"visit", "cycles"} => pendingWrites <= 0
         /\ readPc' = "idle" => pendingWrites > 0
<1>1. mainPc = "read"
  BY DEF BridgeInv, TypeOK, OneHalf
<1>2. ReadStep
  <2>1. ~EnterProcess
    BY DEF EnterProcess, R!StartReads
  <2>2. ~WriteStep /\ ~Callback /\ ~(UNCHANGED vars)
    BY DEF WriteStep, Callback, BesideReads, vars, readVars
  <2>3. ~Tick
    BY DEF Tick, R!Tick, R!readVars, R!passVars
  <2> QED
    BY <2>1, <2>2, <2>3 DEF Next, MainThread
<1>3. R!Cut \/ R!VisitNext \/ R!EndCycle
  BY <1>2 DEF ReadStep, R!Pass, R!SkipCycle, R!BeginCycle, R!EndReads,
     R!Republish, R!RefuseGroup, R!InvalidRead, R!SendRead, R!Retry, R!ReadAnswered,
     R!ReadTimeout, R!ReadError, R!PublishTag
<1>4. pendingWrites \in Int
  BY PendingFinite
<1> QED
  BY <1>1, <1>3, <1>4 DEF W!Undiscarded, R!Cut, R!VisitNext, R!EndCycle, R!NoneWaits

(* Reading gives way to every write that waits (mbbridge.cpp:469).         *)
THEOREM ReadsGiveWay == Spec => GivesWay
<1>1. ASSUME BridgeInv, [Next]_vars, readPc = "check", readPc' \in {"visit", "cycles"},
             ~torn, W!Uncounted = 0
      PROVE  W!Pending = {}
  <2>1. pendingWrites <= 0 /\ W!Undiscarded = 0
    BY <1>1, CheckStep
  <2>2. pendingWrites + W!Uncounted - W!Undiscarded >= Cardinality(W!Pending)
    <3>1. W!CounterCoversPending
      BY <1>1 DEF BridgeInv, W!QueueInv
    <3> QED
      BY <1>1, <3>1, SameCounting DEF W!CounterCoversPending
  <2>3. Cardinality(W!Pending) = 0
    BY <1>1, <2>1, <2>2, PendingFinite
  <2> QED
    BY <1>1, <2>3, PendingFinite, FS_EmptySet
<1> QED
  BY <1>1, BridgeInvInit, BridgeInvNext, PTL DEF Spec, GivesWay

(* And to nothing else, while the counter is right.                        *)
THEOREM CutsAreForWrites == Spec => CutForWrites
<1>1. ASSUME BridgeInv, CountExact, [Next]_vars, readPc = "check", readPc' = "idle",
             ~torn, ~doubled
      PROVE  W!Pending # {}
  <2>1. pendingWrites > 0 /\ W!Undiscarded = 0
    BY <1>1, CheckStep
  <2>2. W!Uncounted \in 0 .. 1 /\ pendingWrites \in Int
    BY <1>1, PendingFinite DEF W!Uncounted
  <2>3. Cardinality(W!Pending) # 0
    BY <1>1, <2>1, <2>2 DEF CountExact
  <2> QED
    BY <2>3, FS_EmptySet
<1> QED
  BY <1>1, BridgeInvInit, BridgeInvNext, CountInit, CountStep, PTL DEF Spec, CutForWrites

-----------------------------------------------------------------------------
(* How far a run of process() is from its end *)

LEMMA ProcessStep ==
  ASSUME BridgeInv, R!RetryInv, [Next]_vars, mainPc # "loop"
  PROVE  \/ UNCHANGED <<R!passVars, W!mainVars>>
         \/ StepsLeft' \in 0 .. StepsLeft - 1
<1>1. R!StepsLeft \in Nat /\ W!StepsLeft \in Nat
  BY PartsConfigured, R!StepsTyped, W!StepsTyped DEF BridgeInv, TypeOK
<1>2. CASE ReadStep
  <2>1. R!StepsLeft' \in 0 .. R!StepsLeft - 1
    BY <1>2, PartsConfigured, R!VisitStep, R!BetweenStep DEF ReadStep, R!Pass, BridgeInv, TypeOK
  <2>2. W!StepsLeft' = W!StepsLeft
    BY <1>2 DEF ReadStep, queueVars, W!StepsLeft, W!PhaseLeft
  <2>3. StepsLeft' \in 0 .. StepsLeft - 1
    <3>1. StepsLeft' = R!StepsLeft' + W!StepsLeft
      BY <2>2 DEF StepsLeft
    <3>2. \A n \in 0 .. R!StepsLeft - 1 : n + W!StepsLeft \in 0 .. StepsLeft - 1
      BY <1>1 DEF StepsLeft
    <3>3. R!StepsLeft' + W!StepsLeft \in 0 .. StepsLeft - 1
      BY <2>1, <3>2, Zenon
    <3> QED
      BY <3>1, <3>3, Zenon
  <2> QED
    BY <2>3
<1>3. CASE WriteStep
  <2>1. UNCHANGED R!passVars /\ R!StepsLeft' = R!StepsLeft
    BY <1>3 DEF WriteStep, readVars, R!passVars, R!StepsLeft, R!PhaseLeft, R!CyclesLeft, R!TagsLeft
  <2>2. W!Next
    BY <1>3 DEF WriteStep, W!Next, W!WriteProcess
  <2>3. UNCHANGED W!mainVars \/ W!StepsLeft' \in 0 .. W!StepsLeft - 1
    BY <2>2, PartsConfigured, W!PassStep DEF BridgeInv, TypeOK
  <2> QED
    BY <1>1, <2>1, <2>3 DEF StepsLeft
<1>4. CASE Callback
  <2>1. UNCHANGED readVars /\ W!Mosquitto
    BY <1>4 DEF Callback, BesideReads
  <2>2. UNCHANGED W!mainVars
    BY <2>1, PartsConfigured, W!MosqIsFramed DEF W!MosqFrame
  <2> QED
    BY <2>1, <2>2 DEF readVars, R!passVars
<1>5. CASE Tick \/ UNCHANGED vars
  BY <1>5 DEF Tick, R!Tick, R!readVars, vars, readVars, queueVars, R!passVars, W!mainVars
<1>6. ~EnterProcess
  BY DEF EnterProcess, W!EnterProcess
<1> QED
  BY <1>2, <1>3, <1>4, <1>5, <1>6 DEF Next, MainThread

(* One run of process() comes to an end, whatever the slaves answer and    *)
(* whatever the callbacks do meanwhile (mbbridge.cpp:485-494).             *)
THEOREM ProcessesEnd == Spec => ProcessEnds
<1>1. Spec => []R!RetryInv
  <2>1. R!ReadCycleInvariant => R!RetryInv
    BY DEF R!ReadCycleInvariant
  <2> QED
    BY <2>1, ReadsKeepTheirSpec, PartsConfigured, R!Invariance, PTL DEF ReadsRefine
<1>2. BridgeInv /\ R!RetryInv /\ [Next]_vars =>
        [mainPc # "loop" =>
           UNCHANGED <<R!passVars, W!mainVars>> \/ StepsLeft' \in 0 .. StepsLeft - 1]_vars
  BY ProcessStep
<1> QED
  BY <1>1, <1>2, BridgeInvInit, BridgeInvNext, PTL DEF Spec, ProcessEnds
=============================================================================
