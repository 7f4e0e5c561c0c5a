------------------------------- MODULE MqttLink -------------------------------
(***************************************************************************)
(* The broker connection: mqtt_connect on the main thread, the connection  *)
(* callbacks on the mosquitto thread, the schedule of the next attempt     *)
(* they share, and the end of the program, which closes the connection     *)
(* before it frees the arrays the callbacks use.                           *)
(*                                                                         *)
(* Each access to a variable both threads use is an action.  A scheduled   *)
(* time is represented by the seconds left until it.                       *)
(***************************************************************************)
EXTENDS Integers

CONSTANTS
  ReconnectInterval,    \* MQTT_RECONNECT_INTERVAL
  DisconnectWait,       \* how long exit_loop waits for the disconnect
  MaxBreaks             \* bound: attempts and connections that fail

ASSUME LinkAssumption ==
  ReconnectInterval \in Nat /\ DisconnectWait \in Nat /\ MaxBreaks \in Nat

VARIABLES
  lib,              \* the mosquitto client's connection (external)
  breaks,           \* failures so far (external)
  connected,        \* MQTT::_connected
  inProgress,       \* mqtt_connection_in_progress
  active,           \* mqtt_connection_active
  untilConnect,     \* mqtt_next_connect_time - time(NULL), or Unscheduled
  exitSignal,
  mainPc,           \* position of the main thread
  waitLeft,         \* what is left of the wait in exit_loop
  cbPc,             \* position of the mosquitto thread in a callback
  (* History, never read by the code: *)
  raced,            \* a schedule was made that a running mqtt_connect erases
  orderly           \* exit_loop found the connection up and saw it closed

libVars  == <<lib, breaks>>
flagVars == <<connected, inProgress, active>>
mainVars == <<mainPc, waitLeft, orderly>>
vars     == <<libVars, flagVars, mainVars, untilConnect, exitSignal, cbPc, raced>>

Unscheduled == -1     \* mqtt_next_connect_time = 0, which is before any time

Lib    == {"idle", "trying", "refused", "up", "down", "closing"}
MainPc == {"connect", "flag", "clear", "top", "check", "timed",
           "exit", "wait", "freed", "gone", "dead"}
UpPc   == {"upFlag", "upSchedule", "upProgress", "upActive"}
DownPc == {"downFlag", "downActive", "downProgress", "downSchedule"}
CbPc   == UpPc \cup DownPc \cup {"none", "message"}

TypeOK ==
  /\ lib \in Lib /\ mainPc \in MainPc /\ cbPc \in CbPc
  /\ connected \in BOOLEAN /\ inProgress \in BOOLEAN /\ active \in BOOLEAN
  /\ exitSignal \in BOOLEAN /\ raced \in BOOLEAN /\ orderly \in BOOLEAN
  /\ untilConnect \in Nat \cup {Unscheduled}
  /\ breaks \in 0 .. MaxBreaks /\ waitLeft \in Nat

(* mqtt_init is about to connect for the first time. *)
Init ==
  /\ lib = "idle" /\ breaks = 0
  /\ connected = FALSE /\ inProgress = FALSE /\ active = FALSE
  /\ untilConnect = Unscheduled /\ exitSignal = FALSE
  /\ mainPc = "connect" /\ waitLeft = 0 /\ cbPc = "none"
  /\ raced = FALSE /\ orderly = FALSE

Running == mainPc \notin {"gone", "dead"}     \* the process exists

-----------------------------------------------------------------------------
(* The main thread: mqtt_connect. *)

MainStep(from, to) == mainPc = from /\ mainPc' = to /\ UNCHANGED <<cbPc, exitSignal, raced>>

(* MQTT::connect.  What the client was doing is given up, with no callback. *)
Connect ==
  /\ MainStep("connect", "flag")
  /\ lib' = "trying"
  /\ UNCHANGED <<breaks, flagVars, untilConnect, waitLeft, orderly>>

(* It throws if the client cannot even begin, and nothing catches that. *)
ConnectThrows ==
  /\ MainStep("connect", "dead")
  /\ UNCHANGED <<libVars, flagVars, untilConnect, waitLeft, orderly>>

SetInProgress ==
  /\ MainStep("flag", "clear")
  /\ inProgress' = TRUE
  /\ UNCHANGED <<libVars, connected, active, untilConnect, waitLeft, orderly>>

ClearSchedule ==
  /\ MainStep("clear", "top")
  /\ untilConnect' = Unscheduled
  /\ UNCHANGED <<libVars, flagVars, waitLeft, orderly>>

-----------------------------------------------------------------------------
(* The main thread: main_loop, as far as the connection is concerned. *)

Turn(from, to) ==
  /\ MainStep(from, to)
  /\ UNCHANGED <<libVars, flagVars, untilConnect, waitLeft, orderly>>

EnterBody == ~exitSignal /\ Turn("top", "check")
LeaveLoop == exitSignal /\ Turn("top", "exit")

(* mqtt_next_connect_time is read twice: is it set, and has it come? *)
Scheduled == untilConnect # Unscheduled /\ Turn("check", "timed")
NotScheduled == untilConnect = Unscheduled /\ Turn("check", "top")

TimeHasCome == untilConnect <= 0
NowConnect == TimeHasCome /\ Turn("timed", "connect")
NotYet == ~TimeHasCome /\ Turn("timed", "top")

-----------------------------------------------------------------------------
(* The main thread: exit_loop and the end of the process. *)

(* MQTT::disconnect does nothing unless _connected. *)
Disconnect ==
  /\ MainStep("exit", "wait")
  /\ lib' = IF ~connected THEN lib ELSE IF lib = "up" THEN "closing" ELSE "idle"
  /\ orderly' = (connected /\ active)
  /\ waitLeft' = DisconnectWait
  /\ UNCHANGED <<breaks, flagVars, untilConnect>>

WaitOverAtOnce == TRUE      \* faulty: the wait is left out
WaitOver == ~active

FreeArrays ==
  /\ MainStep("wait", "freed")
  /\ WaitOver
  /\ UNCHANGED <<libVars, flagVars, untilConnect, waitLeft, orderly>>

GiveUpWaiting ==
  /\ MainStep("wait", "freed")
  /\ ~WaitOver /\ waitLeft = 0
  /\ orderly' = FALSE
  /\ UNCHANGED <<libVars, flagVars, untilConnect, waitLeft>>

Exit == Turn("freed", "gone")

Main ==
  \/ Connect \/ SetInProgress \/ ClearSchedule
  \/ EnterBody \/ LeaveLoop \/ Scheduled \/ NotScheduled \/ NowConnect \/ NotYet
  \/ Disconnect \/ FreeArrays \/ GiveUpWaiting \/ Exit

-----------------------------------------------------------------------------
(* The mosquitto client (external): what it does between callbacks.        *)

LibStep(from, to, callback) ==
  /\ Running /\ cbPc = "none"
  /\ lib \in from /\ lib' = to
  /\ cbPc' = callback
  /\ UNCHANGED <<flagVars, mainVars, untilConnect, exitSignal, raced>>

Fails == breaks < MaxBreaks /\ breaks' = breaks + 1

Answered == LibStep({"trying"}, "up", "upFlag") /\ UNCHANGED breaks

(* A refusal is reported by the connect callback, which hands _connected   *)
(* on, and then as a disconnection.                                        *)
Refused ==
  /\ LibStep({"trying"}, "refused", IF connected THEN "upSchedule" ELSE "downActive")
  /\ Fails
Dropped == LibStep({"refused"}, "down", "downFlag") /\ UNCHANGED breaks

Broken == LibStep({"trying", "up"}, "down", "downFlag") /\ Fails
Closed == LibStep({"closing"}, "idle", "downFlag") /\ UNCHANGED breaks

(* The client's own retry, which the program does not rely upon. *)
Retried == LibStep({"down"}, "trying", "none") /\ UNCHANGED breaks

(* A message; its callback uses the arrays of tags. *)
Received == LibStep({"up", "closing"}, lib, "message") /\ UNCHANGED breaks

Client == Answered \/ Refused \/ Dropped \/ Broken \/ Closed \/ Retried \/ Received

-----------------------------------------------------------------------------
(* The callbacks, on the mosquitto thread. *)

CallbackStep(from, to) ==
  /\ Running /\ cbPc = from /\ cbPc' = to
  /\ UNCHANGED <<libVars, mainVars, exitSignal>>

(* MQTT::connect_callback and mqtt_connection_status(true). *)
UpFlag ==
  /\ CallbackStep("upFlag", "upSchedule")
  /\ connected' = TRUE
  /\ UNCHANGED <<inProgress, active, untilConnect, raced>>
UpSchedule ==
  /\ CallbackStep("upSchedule", "upProgress")
  /\ untilConnect' = Unscheduled
  /\ UNCHANGED <<flagVars, raced>>
UpProgress ==
  /\ CallbackStep("upProgress", "upActive")
  /\ inProgress' = FALSE
  /\ UNCHANGED <<connected, active, untilConnect, raced>>
UpActive ==
  /\ CallbackStep("upActive", "none")
  /\ active' = TRUE
  /\ UNCHANGED <<connected, inProgress, untilConnect, raced>>

(* MQTT::disconnect_callback and mqtt_connection_status(false). *)
DownFlag ==
  /\ CallbackStep("downFlag", "downActive")
  /\ connected' = FALSE
  /\ UNCHANGED <<inProgress, active, untilConnect, raced>>
DownActive ==
  /\ CallbackStep("downActive", "downProgress")
  /\ active' = FALSE
  /\ UNCHANGED <<connected, inProgress, untilConnect, raced>>
(* The mqtt.disconnect() here does nothing: _connected is already false.   *)
DownProgress ==
  /\ CallbackStep("downProgress", "downSchedule")
  /\ inProgress' = FALSE
  /\ UNCHANGED <<connected, active, untilConnect, raced>>

NextTimeAtExit == IF exitSignal THEN ReconnectInterval ELSE untilConnect  \* faulty: ! lost
NextTime == IF exitSignal THEN untilConnect ELSE ReconnectInterval

DownSchedule ==
  /\ CallbackStep("downSchedule", "none")
  /\ untilConnect' = NextTime
  /\ raced' = (raced \/ mainPc \in {"flag", "clear"})
  /\ UNCHANGED flagVars

MessageDone == CallbackStep("message", "none") /\ UNCHANGED <<flagVars, untilConnect, raced>>

Callbacks ==
  \/ UpFlag \/ UpSchedule \/ UpProgress \/ UpActive
  \/ DownFlag \/ DownActive \/ DownProgress \/ DownSchedule \/ MessageDone

-----------------------------------------------------------------------------
Signal ==      \* sigHandler
  /\ Running /\ ~exitSignal /\ exitSignal' = TRUE
  /\ UNCHANGED <<libVars, flagVars, mainVars, untilConnect, cbPc, raced>>

OneLessAlways(n) == n - 1      \* faulty: does not stop at zero
OneLess(n) == IF n > 0 THEN n - 1 ELSE n
Tick ==
  /\ untilConnect > 0 \/ waitLeft > 0
  /\ untilConnect' = OneLess(untilConnect) /\ waitLeft' = OneLess(waitLeft)
  /\ UNCHANGED <<libVars, flagVars, mainPc, orderly, exitSignal, cbPc, raced>>

Next == Main \/ ConnectThrows \/ Client \/ Callbacks \/ Signal \/ Tick

(* The main loop and the callbacks never stop, an attempt ends in one way  *)
(* or the other, time passes.  Nothing is assumed of the client's own      *)
(* retries, nor of messages.                                               *)
Fairness ==
  /\ WF_vars(Main) /\ WF_vars(Callbacks) /\ WF_vars(Tick)
  /\ WF_vars(Answered \/ Refused \/ Dropped \/ Broken \/ Closed)

Spec == Init /\ [][Next]_vars
FairSpec == Spec /\ Fairness

-----------------------------------------------------------------------------
(* Properties *)

(* The connection is down, no callback is on its way, and the main loop    *)
(* is not about to connect.                                                *)
LeftDown ==
  /\ lib = "down" /\ cbPc = "none" /\ ~exitSignal
  /\ mainPc \in {"top", "check", "timed"}

(* A connection that is down has its next attempt scheduled, unless a      *)
(* callback has met mqtt_connect half way.                                 *)
RetryUnlessRaced == LeftDown /\ ~raced => untilConnect # Unscheduled

(* exit_loop does not free the arrays under a message callback, if it      *)
(* found the connection established and saw it closed in time.             *)
OrderlyExit == mainPc = "freed" /\ orderly => cbPc # "message"

(* As long as attempts can succeed the broker is reached again and again,  *)
(* from the first attempt on and without the client's own retries.         *)
ConnectedAgain == []<>(connected \/ exitSignal \/ raced \/ ~Running)

(* What the code says of itself, and does not keep:                        *)

(* "Close MQTT connection", "wait up to 5s for MQTT disconnect"            *)
(* (mbbridge.cpp:1411, 1413): no message is handled on freed arrays.       *)
ClosedBeforeFree == mainPc = "freed" => cbPc # "message"
=============================================================================
