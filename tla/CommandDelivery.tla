--------------------------- MODULE CommandDelivery ---------------------------
(***************************************************************************)
(* What the write path promises, whatever its threads and its queue do.    *)
(*                                                                         *)
(* The commands of a tag are numbered in the order they arrive.  A command *)
(* that finds its tag at rest begins a write, and the write owes the slave *)
(* that command or a later one.  While the write is open the slave is sent *)
(* what was commanded, never anything older than it already has, until an  *)
(* attempt succeeds or MaxAttempts of them have failed.                    *)
(***************************************************************************)
EXTENDS Integers

CONSTANTS
  Tag,
  Served,         \* the tags that are certain to be attended to
  MaxAttempts

VARIABLES
  commanded,      \* commanded[t]: commands that arrived for t
  applied,        \* applied[t]: the command the slave's register holds
  open,           \* open[t]: a write of t is under way
  owed,           \* owed[t]: the command that began the write
  failures,       \* failures[t]: its failed attempts
  done            \* done[t]: an attempt succeeded

vars == <<commanded, applied, open, owed, failures, done>>

Init ==
  /\ commanded = [t \in Tag |-> 0]
  /\ applied = [t \in Tag |-> 0]
  /\ open = [t \in Tag |-> FALSE]
  /\ owed = [t \in Tag |-> 0]
  /\ failures = [t \in Tag |-> 0]
  /\ done = [t \in Tag |-> FALSE]

Command(t) ==
  /\ commanded' = [commanded EXCEPT ![t] = @ + 1]
  /\ open' = [open EXCEPT ![t] = TRUE]
  /\ owed' = [owed EXCEPT ![t] = IF open[t] THEN @ ELSE commanded[t] + 1]
  /\ UNCHANGED <<applied, failures, done>>

(* What an attempt may bring to the slave. *)
Deliverable(t) == {c \in owed[t] .. commanded[t] : c >= applied[t]}

Underway(t) == open[t] /\ ~done[t] /\ failures[t] < MaxAttempts

Success(t) ==
  /\ Underway(t)
  /\ \E c \in Deliverable(t) : applied' = [applied EXCEPT ![t] = c]
  /\ done' = [done EXCEPT ![t] = TRUE]
  /\ UNCHANGED <<commanded, open, owed, failures>>

(* A failed attempt may have reached the slave all the same. *)
Failure(t) ==
  /\ Underway(t)
  /\ \E c \in Deliverable(t) \cup {applied[t]} : applied' = [applied EXCEPT ![t] = c]
  /\ failures' = [failures EXCEPT ![t] = @ + 1]
  /\ UNCHANGED <<commanded, open, owed, done>>

(* The write ends.  A command that arrived meanwhile may be the next to be *)
(* owed, or may be forgotten.                                              *)
Finish(t) ==
  /\ open[t]
  /\ done[t] \/ failures[t] = MaxAttempts
  /\ \/ open' = [open EXCEPT ![t] = FALSE] /\ UNCHANGED owed
     \/ /\ owed[t] < commanded[t]
        /\ owed' = [owed EXCEPT ![t] = commanded[t]]
        /\ UNCHANGED open
  /\ done' = [done EXCEPT ![t] = FALSE]
  /\ failures' = [failures EXCEPT ![t] = 0]
  /\ UNCHANGED <<commanded, applied>>

Next == \E t \in Tag : Command(t) \/ Success(t) \/ Failure(t) \/ Finish(t)

Attend(t) == Success(t) \/ Failure(t) \/ Finish(t)

SafeSpec == Init /\ [][Next]_vars
Spec == SafeSpec /\ \A t \in Served : WF_vars(Attend(t))
=============================================================================
