----------------------------- MODULE MCReadCycle -----------------------------
(* Small instances of the read path for TLC.  The sequences list the       *)
(* fields of mbReadTags[] and updateCycles[] in order.                     *)
EXTENDS ReadFeed

PerTag(seq)   == [t \in ReadTag |-> seq[t + 1]]
PerCycle(seq) == [c \in Cycle |-> seq[c + 1]]
PerEntry(seq) == [c \in CycleEntry |-> seq[c + 1]]

Slaves == {10}

(* A group of two registers with a gap, and a single tag in the other      *)
(* cycle.                                                                  *)
ThreeOfOne      == PerTag(<<10, 10, 10>>)
GapAddress      == PerTag(<<40001, 40003, 30007>>)
TwoInGroup      == PerTag(<<1, 1, 0>>)
OwnCycle        == PerTag(<<2, 2, 4>>)
NullValueNone   == PerTag(<<0, 1, 0>>)
IgnoreSome      == PerTag(<<0, 1, 1>>)
AllTags         == ReadTag
Cycles24        == PerEntry(<<2, 4, -1>>)
EachSecond      == PerCycle(<<1, 1>>)

NullAll         == PerTag(<<0, 0, 0>>)
IgnoreNone      == PerTag(<<0, 0, 0>>)

(* A group too wide for one request, an address of no register type, and   *)
(* a readable tag in each of the two cycles.                               *)
FiveSlaves      == PerTag(<<10, 10, 10, 10, 10>>)
FiveAddresses   == PerTag(<<0, 200, 30000, 20000, 40000>>)
FiveGroups      == PerTag(<<1, 1, 0, 0, 0>>)
FiveCycles      == PerTag(<<2, 2, 2, 4, 4>>)
FiveNulls       == PerTag(<<0, 0, 0, 0, 0>>)
=============================================================================
