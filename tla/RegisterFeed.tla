---------------------------- MODULE RegisterFeed ----------------------------
(***************************************************************************)
(* What the read path promises of its topics, whatever its cycles, groups, *)
(* retries and cuts do.                                                    *)
(*                                                                         *)
(* A register is read now and then, or cannot be read.  Its topic is given *)
(* the last reading if that is one of the round under way and no attempt   *)
(* has failed since, and a mark that there is no reading only after more   *)
(* failures in a row than the tag has patience for.                        *)
(***************************************************************************)
EXTENDS Integers

CONSTANTS
  Tag,
  Patience,       \* Patience[t]: failures that are not shown
  Marks,          \* Marks[t]: what may be shown instead of a reading
  Blank           \* what is shown before anything is known

VARIABLES
  time,
  since,          \* when the round under way began
  reading,        \* reading[t]: when the register was last read, 0 for never
  failures,       \* failures[t]: attempts that failed since, as far as they count
  shown           \* shown[t]: a reading or a mark

vars == <<time, since, reading, failures, shown>>

Init ==
  /\ time \in Nat /\ since = 0
  /\ reading = [t \in Tag |-> 0]
  /\ failures = [t \in Tag |-> 0]
  /\ shown = [t \in Tag |-> Blank]

Tick == time' = time + 1 /\ UNCHANGED <<since, reading, failures, shown>>

Round == since' = time /\ UNCHANGED <<time, reading, failures, shown>>

(* One transaction may read several registers. *)
Answer(S) ==
  /\ reading' = [t \in Tag |-> IF t \in S THEN time ELSE reading[t]]
  /\ failures' = [t \in Tag |-> IF t \in S THEN 0 ELSE failures[t]]
  /\ UNCHANGED <<time, since, shown>>

Silence(S) ==
  /\ failures' = [t \in Tag |->
       IF t \in S /\ failures[t] <= Patience[t] THEN failures[t] + 1 ELSE failures[t]]
  /\ UNCHANGED <<time, since, reading, shown>>

Show(t, content) ==
  shown' = [shown EXCEPT ![t] = content] /\ UNCHANGED <<time, since, reading, failures>>

ShowReading(t) == failures[t] = 0 /\ reading[t] >= since /\ Show(t, reading[t])

ShowMark(t) == failures[t] > Patience[t] /\ \E m \in Marks[t] : Show(t, m)

Next ==
  \/ Tick \/ Round
  \/ \E S \in SUBSET Tag : Answer(S) \/ Silence(S)
  \/ \E t \in Tag : ShowReading(t) \/ ShowMark(t)

Spec == Init /\ [][Next]_vars
=============================================================================
