----------------------------- MODULE ReadCycleInv -----------------------------
(***************************************************************************)
(* The inductive invariant of the read path: how the reference times, the  *)
(* values and the noread counters of the tags go together.                 *)
(***************************************************************************)
EXTENDS ReadCycle

Visiting == readPc \in {"visit", "io", "publish", "check"}

TimeInv ==
  /\ refTime <= clock
  /\ \A t \in ReadTag : referenceTime[t] <= refTime

(* A tag that is not in noread state was read since its reference time.    *)
ReadInv == \A t \in ReadTag : noreadCount[t] > 0 \/ rawAt[t] >= referenceTime[t]

(* The result about to be published is the one of this read.               *)
ResultInv ==
  readPc = "publish" /\ (Grouped(tag) => Primary(cycle, tag)) =>
    noreadCount[tag] > 0 \/ rawAt[tag] >= refTime

(* The tags a request for the group of u has updated carry the reference   *)
(* time of this run of the cycle.                                          *)
Asked == {u \in asked : Grouped(u) /\ Primary(cycle, u)}

AskedInv ==
  Visiting =>
    \A u \in Asked :
      ~(readPc = "io" /\ u = tag) =>
        \A v \in Members(cycle, u) : Primary(cycle, v) => referenceTime[v] = refTime

(* For a tag no group reaches, the noread counter and the misses agree but *)
(* between the read and its publication.                                   *)
MissInv ==
  \A t \in ReadTag : Alone(t) =>
    IF readPc = "publish" /\ tag = t
    THEN \/ noreadCount[t] = 0
         \/ noreadCount[t] = IF misses[t] <= NoreadIgnore[t] THEN misses[t] + 1 ELSE misses[t]
    ELSE noreadCount[t] = misses[t]

(* A request is sent again mbMaxRetries times at most.                     *)
RetryInv == readPc = "io" => retries <= MaxRetries

(* The parts together are inductive, and imply FreshPublished,             *)
(* OneReadPerGroup, StaleBound and ReadPassEnds.                           *)
ReadCycleInvariant ==
  /\ TimeInv /\ ReadInv /\ ResultInv /\ AskedInv /\ OneReadPerGroup
  /\ MissInv /\ StaleBound /\ RetryInv
=============================================================================
