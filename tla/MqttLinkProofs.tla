---------------------------- MODULE MqttLinkProofs ----------------------------
(***************************************************************************)
(* Proofs about the broker connection: type correctness, the schedule of   *)
(* the next attempt, and the end of the program.                           *)
(***************************************************************************)
EXTENDS MqttLinkInv, TLAPS

USE DEF WaitOver, NextTime, OneLess

LEMMA NeverUnscheduled == \A n \in Nat : n # Unscheduled
BY DEF Unscheduled

LEMMA IntervalIsNat == ReconnectInterval \in Nat /\ DisconnectWait \in Nat /\ MaxBreaks \in Nat
BY LinkAssumption DEF LinkAssumption

-----------------------------------------------------------------------------
(* Type correctness *)

FlagType ==
  /\ connected \in BOOLEAN /\ inProgress \in BOOLEAN /\ active \in BOOLEAN
  /\ exitSignal \in BOOLEAN /\ raced \in BOOLEAN /\ orderly \in BOOLEAN

PlaceType == lib \in Lib /\ mainPc \in MainPc /\ cbPc \in CbPc

NumberType ==
  /\ untilConnect \in Nat \cup {Unscheduled}
  /\ breaks \in 0 .. MaxBreaks /\ waitLeft \in Nat

LEMMA TypeParts == TypeOK <=> FlagType /\ PlaceType /\ NumberType
BY DEF TypeOK, FlagType, PlaceType, NumberType

LEMMA FlagStep == FlagType /\ [Next]_vars => FlagType'
<1> SUFFICES ASSUME FlagType, [Next]_vars PROVE FlagType'
  OBVIOUS
<1>1. CASE Main \/ ConnectThrows
  BY <1>1, Zenon DEF Main, ConnectThrows, Connect, SetInProgress, ClearSchedule, EnterBody, LeaveLoop,
    Scheduled, NotScheduled, NowConnect, NotYet, Disconnect, FreeArrays, GiveUpWaiting, Exit,
    MainStep, Turn, flagVars, FlagType
<1>2. CASE Client
  BY <1>2 DEF Client, Answered, Refused, Dropped, Broken, Closed, Retried, Received, LibStep,
    flagVars, mainVars, FlagType
<1>3. CASE Callbacks
  BY <1>3 DEF Callbacks, UpFlag, UpSchedule, UpProgress, UpActive, DownFlag, DownActive,
    DownProgress, DownSchedule, MessageDone, CallbackStep, flagVars, mainVars, FlagType
<1>4. CASE Signal \/ Tick \/ UNCHANGED vars
  BY <1>4 DEF Signal, Tick, vars, flagVars, mainVars, FlagType
<1> QED  BY <1>1, <1>2, <1>3, <1>4 DEF Next

LEMMA PlaceStep == PlaceType /\ [Next]_vars => PlaceType'
<1> SUFFICES ASSUME PlaceType, [Next]_vars PROVE PlaceType'
  OBVIOUS
<1> USE DEF PlaceType, Lib, MainPc, CbPc, UpPc, DownPc
<1>1. CASE Main \/ ConnectThrows
  BY <1>1 DEF Main, ConnectThrows, Connect, SetInProgress, ClearSchedule, EnterBody, LeaveLoop,
    Scheduled, NotScheduled, NowConnect, NotYet, Disconnect, FreeArrays, GiveUpWaiting, Exit,
    MainStep, Turn, libVars
<1>2. CASE Client
  BY <1>2 DEF Client, Answered, Refused, Dropped, Broken, Closed, Retried, Received, LibStep,
    mainVars
<1>3. CASE Callbacks
  BY <1>3 DEF Callbacks, UpFlag, UpSchedule, UpProgress, UpActive, DownFlag, DownActive,
    DownProgress, DownSchedule, MessageDone, CallbackStep, libVars, mainVars
<1>4. CASE Signal \/ Tick \/ UNCHANGED vars
  BY <1>4 DEF Signal, Tick, vars, libVars, mainVars
<1> QED  BY <1>1, <1>2, <1>3, <1>4 DEF Next

LEMMA NumberStep == NumberType /\ [Next]_vars => NumberType'
<1> SUFFICES ASSUME NumberType, [Next]_vars PROVE NumberType'
  OBVIOUS
<1> USE IntervalIsNat DEF NumberType
<1>1. CASE Main \/ ConnectThrows
  BY <1>1 DEF Main, ConnectThrows, Connect, SetInProgress, ClearSchedule, EnterBody, LeaveLoop,
    Scheduled, NotScheduled, NowConnect, NotYet, Disconnect, FreeArrays, GiveUpWaiting, Exit,
    Turn, libVars
<1>2. CASE Client
  BY <1>2 DEF Client, Answered, Refused, Dropped, Broken, Closed, Retried, Received, LibStep,
    Fails, mainVars
<1>3. CASE Callbacks
  BY <1>3 DEF Callbacks, UpFlag, UpSchedule, UpProgress, UpActive, DownFlag, DownActive,
    DownProgress, DownSchedule, MessageDone, CallbackStep, libVars, mainVars
<1>4. CASE Tick
  BY <1>4 DEF Tick, libVars, Unscheduled
<1>5. CASE Signal \/ UNCHANGED vars
  BY <1>5 DEF Signal, vars, libVars, mainVars
<1> QED  BY <1>1, <1>2, <1>3, <1>4, <1>5 DEF Next

LEMMA TypeInit == Init => TypeOK
<1> SUFFICES ASSUME Init PROVE TypeOK
  OBVIOUS
<1>1. FlagType
  BY DEF Init, FlagType
<1>2. PlaceType
  BY DEF Init, PlaceType, Lib, MainPc, CbPc
<1>3. NumberType
  BY IntervalIsNat DEF Init, NumberType
<1> QED  BY <1>1, <1>2, <1>3, TypeParts

LEMMA TypeNext == TypeOK /\ [Next]_vars => TypeOK'
<1>1. (FlagType /\ PlaceType /\ NumberType)' => TypeOK'
  BY DEF TypeOK, FlagType, PlaceType, NumberType
<1> QED  BY <1>1, TypeParts, FlagStep, PlaceStep, NumberStep

(* Every state of the connection is well typed. *)
THEOREM Typing == Spec => []TypeOK
<1> QED  BY TypeInit, TypeNext, PTL DEF Spec

-----------------------------------------------------------------------------
(* The invariant *)

LEMMA CallbackInvStep == CallbackInv /\ [Next]_vars => CallbackInv'
<1> SUFFICES ASSUME CallbackInv, [Next]_vars PROVE CallbackInv'
  OBVIOUS
<1> USE DEF CallbackInv, UpPc, DownPc
<1>1. CASE Main \/ ConnectThrows
  BY <1>1 DEF Main, ConnectThrows, Connect, SetInProgress, ClearSchedule, EnterBody, LeaveLoop,
    Scheduled, NotScheduled, NowConnect, NotYet, Disconnect, FreeArrays, GiveUpWaiting, Exit,
    MainStep, Turn, libVars
<1>2. CASE Client
  BY <1>2 DEF Client, Answered, Refused, Dropped, Broken, Closed, Retried, Received, LibStep
<1>3. CASE Callbacks
  BY <1>3 DEF Callbacks, UpFlag, UpSchedule, UpProgress, UpActive, DownFlag, DownActive,
    DownProgress, DownSchedule, MessageDone, CallbackStep, libVars
<1>4. CASE Signal \/ Tick \/ UNCHANGED vars
  BY <1>4 DEF Signal, Tick, vars, libVars
<1> QED  BY <1>1, <1>2, <1>3, <1>4 DEF Next

LEMMA AttemptInvStep == CallbackInv /\ AttemptInv /\ [Next]_vars => AttemptInv'
<1> SUFFICES ASSUME CallbackInv, AttemptInv, [Next]_vars PROVE AttemptInv'
  OBVIOUS
<1> USE DEF AttemptInv
<1>1. CASE Main \/ ConnectThrows
  BY <1>1 DEF Main, ConnectThrows, Connect, SetInProgress, ClearSchedule, EnterBody, LeaveLoop,
    Scheduled, NotScheduled, NowConnect, NotYet, Disconnect, FreeArrays, GiveUpWaiting, Exit,
    MainStep, Turn, libVars
<1>2. CASE Client
  BY <1>2 DEF Client, Answered, Refused, Dropped, Broken, Closed, Retried, Received, LibStep,
    mainVars
<1>3. CASE Callbacks
  BY <1>3 DEF Callbacks, UpFlag, UpSchedule, UpProgress, UpActive, DownFlag, DownActive,
    DownProgress, DownSchedule, MessageDone, CallbackStep, libVars, mainVars, CallbackInv, UpPc
<1>4. CASE Signal \/ Tick \/ UNCHANGED vars
  BY <1>4 DEF Signal, Tick, vars, libVars, mainVars
<1> QED  BY <1>1, <1>2, <1>3, <1>4 DEF Next

LEMMA RetryStep ==
  CallbackInv /\ AttemptInv /\ RetryUnlessRaced /\ NumberType /\ [Next]_vars => RetryUnlessRaced'
<1> SUFFICES ASSUME CallbackInv, AttemptInv, RetryUnlessRaced, NumberType, [Next]_vars
             PROVE  RetryUnlessRaced'
  OBVIOUS
<1> USE DEF RetryUnlessRaced, LeftDown
<1>1. CASE Main \/ ConnectThrows
  <2>1. CASE SetInProgress \/ ClearSchedule
    BY <2>1 DEF SetInProgress, ClearSchedule, MainStep, libVars, AttemptInv
  <2>2. CASE NowConnect \/ NotYet \/ NotScheduled \/ Scheduled \/ EnterBody
    BY <2>2 DEF NowConnect, NotYet, NotScheduled, Scheduled, EnterBody, Turn, MainStep, libVars
  <2>3. CASE \/ Connect \/ ConnectThrows \/ LeaveLoop \/ Disconnect \/ FreeArrays
             \/ GiveUpWaiting \/ Exit
    BY <2>3 DEF Connect, ConnectThrows, LeaveLoop, Disconnect, FreeArrays, GiveUpWaiting, Exit,
      Turn, MainStep
  <2> QED  BY <1>1, <2>1, <2>2, <2>3 DEF Main
<1>2. CASE Client
  BY <1>2 DEF Client, Answered, Refused, Dropped, Broken, Closed, Retried, Received, LibStep
<1>3. CASE DownSchedule
  BY <1>3, IntervalIsNat, NeverUnscheduled DEF DownSchedule, CallbackStep, mainVars
<1>4. CASE UpFlag \/ UpSchedule \/ UpProgress \/ DownFlag \/ DownActive \/ DownProgress
  BY <1>4 DEF UpFlag, UpSchedule, UpProgress, DownFlag, DownActive, DownProgress, CallbackStep
<1>5. CASE UpActive \/ MessageDone
  <2>1. CASE UpActive
    BY <2>1 DEF UpActive, CallbackStep, libVars, CallbackInv, UpPc
  <2>2. CASE MessageDone
    BY <2>2 DEF MessageDone, CallbackStep, libVars, CallbackInv
  <2> QED  BY <1>5, <2>1, <2>2
<1>6. CASE Tick
  <2>1. untilConnect # Unscheduled => untilConnect' # Unscheduled
    BY <1>6 DEF Tick, NumberType, Unscheduled
  <2> QED  BY <1>6, <2>1 DEF Tick, libVars
<1>7. CASE Signal \/ UNCHANGED vars
  BY <1>7 DEF Signal, vars, libVars, mainVars
<1> QED  BY <1>1, <1>2, <1>3, <1>4, <1>5, <1>6, <1>7 DEF Next, Callbacks

LEMMA CloseInvStep == CallbackInv /\ CloseInv /\ [Next]_vars => CloseInv'
<1> SUFFICES ASSUME CallbackInv, CloseInv, [Next]_vars PROVE CloseInv'
  OBVIOUS
<1> USE DEF CloseInv, UpPc, DownPc
<1>1. CASE Disconnect
  BY <1>1 DEF Disconnect, MainStep, flagVars, CallbackInv
<1>2. CASE FreeArrays \/ GiveUpWaiting
  BY <1>2 DEF FreeArrays, GiveUpWaiting, MainStep, libVars, flagVars
<1>3. CASE \/ Connect \/ ConnectThrows \/ SetInProgress \/ ClearSchedule \/ EnterBody \/ LeaveLoop
           \/ Scheduled \/ NotScheduled \/ NowConnect \/ NotYet \/ Exit
  BY <1>3 DEF Connect, ConnectThrows, SetInProgress, ClearSchedule, EnterBody, LeaveLoop, Scheduled,
    NotScheduled, NowConnect, NotYet, Exit, Turn, MainStep
<1>4. CASE Client
  BY <1>4 DEF Client, Answered, Refused, Dropped, Broken, Closed, Retried, Received, LibStep,
    mainVars, flagVars
<1>5. CASE Callbacks
  BY <1>5 DEF Callbacks, UpFlag, UpSchedule, UpProgress, UpActive, DownFlag, DownActive,
    DownProgress, DownSchedule, MessageDone, CallbackStep, libVars, mainVars, flagVars
<1>6. CASE Signal \/ Tick \/ UNCHANGED vars
  BY <1>6 DEF Signal, Tick, vars, libVars, mainVars, flagVars
<1> QED  BY <1>1, <1>2, <1>3, <1>4, <1>5, <1>6 DEF Next, Main

LEMMA InvInit == Init => MqttLinkInvariant
BY DEF Init, MqttLinkInvariant, CallbackInv, AttemptInv, CloseInv, RetryUnlessRaced, LeftDown, UpPc,
  DownPc

LEMMA InvNext == TypeOK /\ MqttLinkInvariant /\ [Next]_vars => MqttLinkInvariant'
BY TypeParts, CallbackInvStep, AttemptInvStep, RetryStep, CloseInvStep DEF MqttLinkInvariant

-----------------------------------------------------------------------------
(* The theorems *)

(* The two threads keep the connection's variables together.               *)
THEOREM Invariance == Spec => [](TypeOK /\ MqttLinkInvariant)
<1> QED  BY TypeInit, TypeNext, InvInit, InvNext, PTL DEF Spec

(* mqtt_connection_status leaves a lost connection with its next attempt   *)
(* scheduled, unless it has met mqtt_connect half way.                     *)
THEOREM RetryKept == Spec => []RetryUnlessRaced
<1>1. MqttLinkInvariant => RetryUnlessRaced
  BY DEF MqttLinkInvariant
<1> QED  BY <1>1, Invariance, PTL

(* exit_loop frees no array under a callback, if it found the connection   *)
(* established and saw it closed.                                          *)
THEOREM ExitIsOrderly == Spec => []OrderlyExit
<1>1. MqttLinkInvariant => OrderlyExit
  BY DEF MqttLinkInvariant, CloseInv, OrderlyExit
<1> QED  BY <1>1, Invariance, PTL
=============================================================================
