----------------------------- MODULE MqttLinkInv -----------------------------
(***************************************************************************)
(* The inductive invariant of the broker connection: what the two threads  *)
(* may rely on while the other one is half way.                            *)
(***************************************************************************)
EXTENDS MqttLink

(* The client's state while a callback runs: only the main thread can      *)
(* change it then.                                                         *)
CallbackInv ==
  /\ cbPc \in UpPc \cup {"message"} => lib # "down"
  /\ cbPc \in DownPc => lib # "up"

(* A failure that was reported during mqtt_connect is known as a race.     *)
AttemptInv == mainPc \in {"flag", "clear"} /\ ~raced => ~(lib = "down" /\ cbPc = "none")

(* After a disconnect of an established connection the client only closes, *)
(* and once the callback has reported it, nothing follows.                 *)
CloseInv ==
  orderly /\ mainPc \in {"wait", "freed"} =>
    /\ lib \in {"closing", "idle"}
    /\ cbPc \in DownPc => lib = "idle"
    /\ active \/ (lib = "idle" /\ cbPc \notin UpPc \cup {"message"})
    /\ mainPc = "freed" => ~active

(* The parts together are inductive, and imply OrderlyExit.                *)
MqttLinkInvariant == CallbackInv /\ AttemptInv /\ CloseInv /\ RetryUnlessRaced
=============================================================================
