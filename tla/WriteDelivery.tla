---------------------------- MODULE WriteDelivery ----------------------------
(***************************************************************************)
(* The write path of mbbridge implements CommandDelivery.  A write is open *)
(* from the first effect of the message that began it to the clearing of   *)
(* the pending flag; the failure counter and the outcome of the last       *)
(* attempt lose their meaning at that moment, a little before the code     *)
(* resets them.                                                            *)
(***************************************************************************)
EXTENDS WriteQueueInv

Delivery == INSTANCE CommandDelivery WITH
  Tag       <- WriteTag,
  Served    <- Reachable,
  commanded <- accepted,
  applied   <- slaveReg,
  open      <- [t \in WriteTag |-> writePending[t] \/ Arriving(t)],
  failures  <- [t \in WriteTag |-> IF Discarding(t) THEN 0 ELSE writeFailedCount[t]],
  done      <- [t \in WriteTag |-> Delivered(t)]

(* Every step of the two threads is a step of the delivery or invisible in *)
(* it: whatever the interleaving, the slave is sent only what is owed or   *)
(* newer, in order, and a write ends only by success or after              *)
(* modbusWriteMaxAttempts failures (mbbridge.cpp:266-325, :802-811).       *)
DeliversSafely == Delivery!SafeSpec

(* Under the scheduling of FairSpec every write the scan can reach also    *)
(* goes on to its end.                                                     *)
Delivers == Delivery!Spec
=============================================================================
