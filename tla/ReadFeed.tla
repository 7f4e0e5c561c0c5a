------------------------------ MODULE ReadFeed ------------------------------
(***************************************************************************)
(* The read path of mbbridge implements RegisterFeed.  Left out are the    *)
(* tags that name a register their group already has: a group read updates *)
(* only the first tag of a register.                                       *)
(***************************************************************************)
EXTENDS ReadCycleInv

Fed == {t \in ReadTag : Grouped(t) => \A c \in Cycle : t \in TagsOf(c) => Primary(c, t)}

Feed == INSTANCE RegisterFeed WITH
  Tag      <- Fed,
  Patience <- NoreadIgnore,
  Marks    <- [t \in Fed |-> IF NoreadAction[t] = 0 THEN {Nothing}
                             ELSE IF NoreadAction[t] = 1 THEN {NoreadValue} ELSE {}],
  Blank    <- Nothing,
  time     <- clock,
  since    <- refTime,
  reading  <- [t \in Fed |-> rawAt[t]],
  failures <- [t \in Fed |-> noreadCount[t]],
  shown    <- [t \in Fed |-> topic[t]]

(* Every step of a pass is a step of the feed or invisible in it: whatever *)
(* the slaves answer, whichever tags a read updates and wherever a write   *)
(* cuts the pass, a topic is given readings of this run of the cycle, and  *)
(* a mark only when noreadignore is exceeded (mbbridge.cpp:330-477,        *)
(* :690-723, modbustag.cpp:57-90).                                         *)
FeedsTopics == Feed!Spec
=============================================================================
