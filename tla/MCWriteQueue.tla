---------------------------- MODULE MCWriteQueue ----------------------------
(* Small instances of the write path for TLC.  The sequences list the      *)
(* slave ids of mbWriteTags[] in order, the end mark last.                 *)
EXTENDS WriteDelivery

AsEntries(ids) == [i \in Entry |-> ids[i + 1]]

Slaves     == {10}
OneTag     == AsEntries(<<10, 255>>)
MissingEnd == AsEntries(<<10, 10, 0, 255>>)   \* the third tag has no slaveid

FirstTag   == {0}
SecondTag  == {1}
=============================================================================
