------------------------------ MODULE MCShutdown ------------------------------
(* The last slave id, two read tags, the tag of the CPU and two tags that  *)
(* are subscribed.                                                         *)
EXTENDS Shutdown

LastOne == {SlaveMax}
CpuTag == {0}
=============================================================================
