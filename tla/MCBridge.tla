------------------------------ MODULE MCBridge ------------------------------
(* A small instance of the composition for TLC: two tags are read in one   *)
(* cycle, a second cycle has no tags, and two tags of the same slave are   *)
(* written, the second with an address that has no register type.          *)
EXTENDS Bridge

Slaves == {10}

FirstTag    == {0}
WriteSlaves == [i \in 0 .. NumTags |-> IF i < NumTags THEN 10 ELSE 255]

PerTag(seq)   == [t \in 0 .. NumReadTags - 1 |-> seq[t + 1]]
PerEntry(seq) == [c \in 0 .. NumCycles |-> seq[c + 1]]

BothSlave   == PerTag(<<10, 10>>)
TwoSingles  == PerTag(<<40001, 40002>>)
Zeros       == PerTag(<<0, 0>>)
OneCycle    == PerTag(<<4, 4>>)
AllTags     == {0, 1}
Cycles24    == PerEntry(<<2, 4, -1>>)
EachSecond  == [c \in 0 .. NumCycles - 1 |-> 1]
=============================================================================
