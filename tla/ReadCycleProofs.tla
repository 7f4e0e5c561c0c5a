--------------------------- MODULE ReadCycleProofs ---------------------------
(***************************************************************************)
(* Proofs about the read path: type correctness, what may be published as  *)
(* a value, how often a slave is asked for a group, and how long a topic   *)
(* can keep a value that is no longer read.                                *)
(***************************************************************************)
EXTENDS ReadFeed, TLAPS

USE DEF InCycles, NextTime, NoreadNotify, Stamped, NoneWaits, NextCycle

(* The configuration, in the form the proofs use it. *)
LEMMA Config ==
  /\ TagSlave \in [ReadTag -> Slave]
  /\ NoreadIgnore \in [ReadTag -> Nat]
  /\ Interval \in [Cycle -> Nat]
  /\ NumCycles \in Nat
BY ReadCycleAssumption DEF ReadConfig

LEMMA EndMark == \A c \in CycleEntry : Ident[c] >= 0 => c \in Cycle /\ c + 1 \in CycleEntry
<1>1. NumCycles \in Nat /\ Ident[NumCycles] = -1
  BY ReadCycleAssumption DEF ReadConfig
<1> QED  BY <1>1 DEF CycleEntry, Cycle

LEMMA TagsAreTags == \A c : TagsOf(c) \subseteq ReadTag
BY DEF TagsOf

LEMMA StatusType ==
  ASSUME NEW s \in Slave, NEW o \in BOOLEAN, StatusTypeOK, SetOnlineStatus(s, o)
  PROVE  StatusTypeOK'
BY DEF StatusTypeOK, SetOnlineStatus, StatusText, Status

(* The steps of the pass leave the rest of the program alone. *)
LEMMA ReadIsFramed == ReadProcess => OutsideFrame
BY DEF ReadProcess, StartReads, Pass, SkipCycle, BeginCycle, EndReads, Cut, VisitNext, EndCycle,
  Republish, RefuseGroup, InvalidRead, SendRead, Retry, ReadAnswered, ReadTimeout, ReadError,
  PublishTag, HandOut, EndVisit

-----------------------------------------------------------------------------
(* Type correctness *)

LEMMA TypeInit == Init => TypeOK
<1> SUFFICES ASSUME Init PROVE TypeOK
  OBVIOUS
<1>1. StatusTypeOK
  BY DEF Init, StatusInit, StatusTypeOK, Status
<1>2. PassTypeOK
  BY Config DEF Init, ReadInit, PassTypeOK, ReadPc, CycleEntry
<1>3. clock \in Nat /\ drops \in Nat /\ pendingWrites \in Int
  BY DEF Init
<1>4. nextUpdate \in [Cycle -> Nat]
  BY <1>3, Config DEF Init, ReadInit
<1>5. /\ rawAt \in [ReadTag -> Nat]
      /\ noreadCount \in [ReadTag -> Nat]
      /\ referenceTime \in [ReadTag -> Nat]
      /\ topic \in [ReadTag -> Int]
      /\ misses \in [ReadTag -> Nat]
  BY DEF Init, ReadInit, Nothing
<1>6. connected \in BOOLEAN /\ told \in [ReadTag -> BOOLEAN] /\ asked \subseteq ReadTag
  BY Zenon DEF Init, ReadInit
<1> QED  BY <1>1, <1>2, <1>3, <1>4, <1>5, <1>6 DEF TypeOK

LEMMA HandOutType ==
  ASSUME NEW ok \in BOOLEAN, TypeOK, Visiting, HandOut(ok)
  PROVE  /\ rawAt' \in [ReadTag -> Nat]
         /\ noreadCount' \in [ReadTag -> Nat]
         /\ referenceTime' \in [ReadTag -> Nat]
<1> DEFINE S == Updated(cycle, tag)
<1>1. rawAt' \in [ReadTag -> Nat]
  BY DEF HandOut, TypeOK
<1>2. \A t \in ReadTag : NoreadNotify(t) \in Nat
  BY DEF TypeOK
<1>3. noreadCount' \in [ReadTag -> Nat]
  BY <1>2 DEF HandOut, TypeOK
<1>4. referenceTime' \in [ReadTag -> Nat]
  BY DEF HandOut, TypeOK, PassTypeOK
<1> QED  BY <1>1, <1>3, <1>4

LEMMA TopicType == ASSUME TypeOK, NEW t \in ReadTag PROVE TopicAfter(t) \in Int
BY DEF TopicAfter, TypeOK, Nothing, NoreadValue

LEMMA EndVisitType ==
  ASSUME TypeOK, Visiting, EndVisit, topic' \in [ReadTag -> Int]
  PROVE  TypeOK'
<1>1. tag \in ReadTag
  BY TagsAreTags DEF TypeOK, PassTypeOK, Visiting
<1>2. misses' \in [ReadTag -> Nat]
  BY <1>1 DEF EndVisit, TypeOK
<1>3. told' \in [ReadTag -> BOOLEAN]
  BY <1>1, Zenon DEF EndVisit, TypeOK
<1>4. UNCHANGED <<mbSlaveOnline, slaveTopic, connected, clock, drops, pendingWrites, asked,
                  nextUpdate, rawAt, noreadCount, referenceTime>>
  BY DEF EndVisit, OutsideFrame, lineVars, tagVars
<1>5. PassTypeOK'
  BY DEF EndVisit, TypeOK, PassTypeOK, Visiting, ReadPc
<1>6. StatusTypeOK'
  BY <1>4 DEF TypeOK, StatusTypeOK
<1> QED  BY <1>2, <1>3, <1>4, <1>5, <1>6 DEF TypeOK

LEMMA PassType ==
  ASSUME TypeOK,
         \/ StartReads \/ SkipCycle \/ EndReads \/ Cut \/ VisitNext \/ EndCycle
         \/ SendRead \/ Retry
  PROVE  TypeOK'
<1>1. UNCHANGED <<mbSlaveOnline, slaveTopic, connected, clock, drops, pendingWrites, topic,
                  misses, told, nextUpdate, rawAt, noreadCount, referenceTime>>
  BY DEF StartReads, SkipCycle, EndReads, Cut, VisitNext, EndCycle, SendRead, Retry,
    OutsideFrame, lineVars, tagVars, pubVars
<1>2. asked' \subseteq ReadTag
  BY TagsAreTags DEF StartReads, SkipCycle, EndReads, Cut, VisitNext, EndCycle, SendRead, Retry,
    TypeOK, PassTypeOK
<1>3. PassTypeOK'
  <2>1. CASE StartReads
    BY <2>1, Config DEF StartReads, TypeOK, PassTypeOK, ReadPc, CycleEntry
  <2>2. CASE SkipCycle
    BY <2>2, EndMark DEF SkipCycle, TypeOK, PassTypeOK, ReadPc
  <2>3. CASE EndReads \/ Cut
    BY <2>3 DEF EndReads, Cut, TypeOK, PassTypeOK, ReadPc
  <2>4. CASE VisitNext
    BY <2>4 DEF VisitNext, Later, TypeOK, PassTypeOK, ReadPc
  <2>5. CASE EndCycle
    <3>1. cycle \in Cycle /\ UNCHANGED <<tag, now, refTime, retries>>
      BY <2>5 DEF EndCycle, TypeOK, PassTypeOK
    <3>2. cycle + 1 \in CycleEntry
      BY <3>1, Config DEF Cycle, CycleEntry
    <3> QED  BY <2>5, <3>1, <3>2 DEF EndCycle, TypeOK, PassTypeOK, ReadPc
  <2>6. CASE SendRead \/ Retry
    BY <2>6 DEF SendRead, Retry, TypeOK, PassTypeOK, ReadPc
  <2> QED  BY <2>1, <2>2, <2>3, <2>4, <2>5, <2>6
<1>4. StatusTypeOK'
  BY <1>1 DEF TypeOK, StatusTypeOK
<1> QED  BY <1>1, <1>2, <1>3, <1>4 DEF TypeOK

LEMMA BeginType == ASSUME TypeOK, BeginCycle PROVE TypeOK'
<1>1. UNCHANGED <<mbSlaveOnline, slaveTopic, connected, clock, drops, pendingWrites, topic,
                  misses, told, rawAt, noreadCount, referenceTime>> /\ asked' = {}
  BY DEF BeginCycle, OutsideFrame, lineVars, tagVars, pubVars
<1>2. cycle \in Cycle
  BY EndMark DEF BeginCycle, TypeOK, PassTypeOK
<1>3. now + Interval[cycle] \in Nat
  BY <1>2, Config DEF TypeOK, PassTypeOK
<1>4. nextUpdate' \in [Cycle -> Nat]
  BY <1>2, <1>3 DEF BeginCycle, TypeOK
<1>5. PassTypeOK'
  BY <1>2 DEF BeginCycle, TypeOK, PassTypeOK, ReadPc
<1>6. StatusTypeOK'
  BY <1>1 DEF TypeOK, StatusTypeOK
<1> QED  BY <1>1, <1>4, <1>5, <1>6 DEF TypeOK

LEMMA ResultType ==
  ASSUME TypeOK, InvalidRead \/ ReadAnswered \/ ReadTimeout \/ ReadError
  PROVE  TypeOK'
<1>1. Visiting
  BY DEF InvalidRead, ReadAnswered, ReadTimeout, ReadError, Visiting
<1>2. PICK ok \in BOOLEAN : HandOut(ok)
  BY DEF InvalidRead, ReadAnswered, ReadTimeout, ReadError
<1>3. TagSlave[tag] \in Slave
  BY <1>1, Config, TagsAreTags DEF TypeOK, PassTypeOK, Visiting
<1>4. StatusTypeOK'
  BY <1>3, StatusType DEF InvalidRead, ReadAnswered, ReadTimeout, ReadError, TypeOK, lineVars,
    StatusTypeOK
<1>5. UNCHANGED <<connected, clock, drops, pendingWrites, topic, misses, told, nextUpdate,
                  retries, asked, cycle, tag, now, refTime>>
  BY <1>2 DEF HandOut, InvalidRead, ReadAnswered, ReadTimeout, ReadError, OutsideFrame, pubVars
<1>6. PassTypeOK'
  BY <1>1, <1>2, <1>5 DEF HandOut, TypeOK, PassTypeOK, Visiting, ReadPc
<1>7. /\ rawAt' \in [ReadTag -> Nat]
      /\ noreadCount' \in [ReadTag -> Nat]
      /\ referenceTime' \in [ReadTag -> Nat]
  BY <1>1, <1>2, HandOutType
<1> QED  BY <1>4, <1>5, <1>6, <1>7 DEF TypeOK

LEMMA VisitType ==
  ASSUME TypeOK, PublishTag \/ Republish \/ RefuseGroup
  PROVE  TypeOK'
<1>1. Visiting /\ EndVisit
  BY DEF PublishTag, Republish, RefuseGroup, Visiting
<1>2. TopicAfter(tag) \in Int
  BY <1>1, TopicType, TagsAreTags DEF TypeOK, PassTypeOK, Visiting
<1>3. topic' \in [ReadTag -> Int]
  BY <1>2 DEF PublishTag, Republish, RefuseGroup, TypeOK
<1> QED  BY <1>1, <1>3, EndVisitType

LEMMA OutsideType == ASSUME TypeOK, Link \/ Writes \/ WriteHalf \/ Tick PROVE TypeOK'
<1>1. UNCHANGED readVars
  BY DEF Link, Writes, WriteHalf, Tick
<1>2. StatusTypeOK'
  <2>1. CASE WriteHalf
    BY <2>1, StatusType DEF WriteHalf, TypeOK
  <2>2. CASE UNCHANGED lineVars
    BY <2>2 DEF lineVars, TypeOK, StatusTypeOK
  <2> QED  BY <2>1, <2>2 DEF Link, Writes, Tick
<1>3. PassTypeOK'
  BY <1>1 DEF TypeOK, PassTypeOK, readVars, passVars
<1>4. clock' \in Nat /\ drops' \in Nat /\ pendingWrites' \in Int
  <2>1. \A n \in PendingCount : n \in Int
    BY CountAssumption
  <2>2. pendingWrites' \in Int
    BY <2>1 DEF Link, Writes, WriteHalf, Tick, TypeOK
  <2> QED  BY <2>2 DEF Link, LinkUp, LinkDown, Writes, WriteHalf, Tick, TypeOK
<1>5. connected' \in BOOLEAN
  BY DEF Link, LinkUp, LinkDown, Writes, WriteHalf, Tick, TypeOK
<1> QED  BY <1>1, <1>2, <1>3, <1>4, <1>5 DEF TypeOK, readVars, tagVars, pubVars

LEMMA TypeNext == TypeOK /\ [Next]_vars => TypeOK'
<1> SUFFICES ASSUME TypeOK, [Next]_vars PROVE TypeOK'
  OBVIOUS
<1>1. CASE ReadProcess
  BY <1>1, PassType, BeginType, ResultType, VisitType DEF ReadProcess, Pass
<1>2. CASE Link \/ Writes \/ WriteHalf \/ Tick
  BY <1>2, OutsideType
<1>3. CASE UNCHANGED vars
  BY <1>3 DEF vars, readVars, tagVars, passVars, pubVars, lineVars, TypeOK, PassTypeOK, StatusTypeOK
<1> QED  BY <1>1, <1>2, <1>3 DEF Next

(* Every state of the read path is well typed. *)
THEOREM Typing == Spec => []TypeOK
<1> QED  BY TypeInit, TypeNext, PTL DEF Spec

-----------------------------------------------------------------------------
(* What a read updates *)

LEMMA AddressIsInt == \A t \in ReadTag : Address[t] \in Int
BY ReadCycleAssumption DEF ReadConfig

(* A tag that no earlier one shadows is updated by its own read.           *)
LEMMA SelfUpdated ==
  ASSUME NEW c, NEW t \in TagsOf(c), TypeOK, Grouped(t) => Primary(c, t)
  PROVE  t \in Updated(c, t)
<1>1. Address[t] \in Int
  BY AddressIsInt, TagsAreTags
<1>2. t \in Members(c, t)
  BY DEF Members
<1> QED  BY <1>1, <1>2 DEF Updated

(* And so are the other tags of its group.                                 *)
LEMMA GroupUpdated ==
  ASSUME NEW c, NEW t \in TagsOf(c), Grouped(t),
         NEW u \in Members(c, t), Primary(c, u)
  PROVE  u \in Updated(c, t)
<1>1. Address[u] \in Int
  BY AddressIsInt, TagsAreTags DEF Members
<1> QED  BY <1>1 DEF Updated, Members

LEMMA NoticedFailure ==
  ASSUME TypeOK, NEW t \in ReadTag
  PROVE  NoreadNotify(t) > 0
BY Config DEF TypeOK

-----------------------------------------------------------------------------
(* Freshness *)

(* The steps that hand out a result, with what they make of the tags.      *)
HandingOut == InvalidRead \/ ReadAnswered \/ ReadTimeout \/ ReadError

LEMMA Result ==
  ASSUME TypeOK, HandingOut
  PROVE  /\ Visiting
         /\ \E ok \in BOOLEAN : HandOut(ok)
         /\ UNCHANGED asked
BY DEF HandingOut, InvalidRead, ReadAnswered, ReadTimeout, ReadError, Visiting

(* Every other step leaves the tags as they are.                           *)
LEMMA TagsKept == [Next]_vars => HandingOut \/ UNCHANGED tagVars
BY DEF Next, ReadProcess, StartReads, Pass, SkipCycle, BeginCycle, EndReads, Cut, VisitNext, EndCycle,
  Republish, RefuseGroup, SendRead, Retry, PublishTag, EndVisit, Link, Writes, WriteHalf, Tick, HandingOut,
  vars, readVars, tagVars

LEMMA TimeStep == TypeOK /\ TimeInv /\ [Next]_vars => TimeInv'
<1> SUFFICES ASSUME TypeOK, TimeInv, [Next]_vars PROVE TimeInv'
  OBVIOUS
<1>1. clock \in Nat /\ refTime \in Nat /\ referenceTime \in [ReadTag -> Nat]
  BY DEF TypeOK, PassTypeOK
<1>2. clock' >= clock
  BY <1>1, ReadIsFramed DEF Next, Link, Writes, WriteHalf, Tick, vars, OutsideFrame
<1>3. refTime' = refTime \/ refTime' = clock
  <2>1. CASE BeginCycle
    BY <2>1 DEF BeginCycle
  <2>2. CASE ~BeginCycle
    BY <2>2 DEF Next, ReadProcess, StartReads, Pass, SkipCycle, EndReads, Cut, VisitNext,
      EndCycle, Republish, RefuseGroup, InvalidRead, SendRead, Retry, ReadAnswered, ReadTimeout,
      ReadError, PublishTag, HandOut, EndVisit, Link, Writes, WriteHalf, Tick, vars, readVars, passVars
  <2> QED  BY <2>1, <2>2
<1>4. refTime' <= clock' /\ refTime <= refTime'
  <2>1. clock' \in Nat
    BY TypeNext DEF TypeOK
  <2> QED  BY <2>1, <1>1, <1>2, <1>3 DEF TimeInv
<1>5. CASE HandingOut
  <2>1. PICK ok \in BOOLEAN : HandOut(ok)
    BY <1>5, Result
  <2>2. \A t \in ReadTag : referenceTime'[t] = refTime \/ referenceTime'[t] = referenceTime[t]
    BY <2>1 DEF HandOut
  <2> QED  BY <2>1, <2>2, <1>1, <1>4 DEF TimeInv, HandOut
<1>6. CASE UNCHANGED tagVars
  BY <1>1, <1>4, <1>6, TypeNext DEF TimeInv, tagVars, TypeOK, PassTypeOK
<1> QED  BY <1>5, <1>6, TagsKept

LEMMA ReadStep == TypeOK /\ TimeInv /\ ReadInv /\ [Next]_vars => ReadInv'
<1> SUFFICES ASSUME TypeOK, TimeInv, ReadInv, [Next]_vars PROVE ReadInv'
  OBVIOUS
<1>1. CASE HandingOut
  <2>1. PICK ok \in BOOLEAN : HandOut(ok)
    BY <1>1, Result
  <2> SUFFICES ASSUME NEW t \in ReadTag
               PROVE  noreadCount'[t] > 0 \/ rawAt'[t] >= referenceTime'[t]
    BY DEF ReadInv
  <2>2. CASE t \in Updated(cycle, tag) /\ ok
    <3>1. rawAt'[t] = clock
      BY <2>1, <2>2 DEF HandOut
    <3>2. referenceTime'[t] = refTime \/ referenceTime'[t] = referenceTime[t]
      BY <2>1 DEF HandOut
    <3> QED  BY <3>1, <3>2 DEF TimeInv, TypeOK, PassTypeOK
  <2>3. CASE t \in Updated(cycle, tag) /\ ~ok
    BY <2>1, <2>3, NoticedFailure DEF HandOut
  <2>4. CASE t \notin Updated(cycle, tag)
    BY <2>1, <2>4 DEF HandOut, ReadInv
  <2> QED  BY <2>2, <2>3, <2>4
<1>2. CASE UNCHANGED tagVars
  BY <1>2 DEF tagVars, ReadInv
<1> QED  BY <1>1, <1>2, TagsKept

LEMMA ResultStep == TypeOK /\ TimeInv /\ ResultInv /\ [Next]_vars => ResultInv'
<1> SUFFICES ASSUME TypeOK, TimeInv, ResultInv, [Next]_vars,
                    readPc' = "publish", Grouped(tag') => Primary(cycle', tag')
             PROVE  noreadCount'[tag'] > 0 \/ rawAt'[tag'] >= refTime'
  BY DEF ResultInv
<1>1. CASE HandingOut
  <2>1. PICK ok \in BOOLEAN : HandOut(ok)
    BY <1>1, Result
  <2>2. tag \in TagsOf(cycle) /\ tag \in ReadTag
    BY <1>1, Result, TagsAreTags DEF Visiting, TypeOK, PassTypeOK
  <2>3. UNCHANGED <<tag, cycle, refTime>>
    BY <2>1 DEF HandOut
  <2>4. tag \in Updated(cycle, tag)
    BY <2>2, <2>3, SelfUpdated
  <2>5. CASE ok
    <3>1. rawAt'[tag] = clock
      BY <2>1, <2>2, <2>4, <2>5 DEF HandOut
    <3> QED  BY <2>3, <3>1 DEF TimeInv, TypeOK, PassTypeOK
  <2>6. CASE ~ok
    BY <2>1, <2>2, <2>3, <2>4, <2>6, NoticedFailure DEF HandOut
  <2> QED  BY <2>5, <2>6
<1>2. CASE ~HandingOut
  <2>1. UNCHANGED tagVars
    BY <1>2, TagsKept
  <2>2. readPc = "publish" /\ UNCHANGED <<tag, cycle, refTime>>
    BY <1>2 DEF Next, ReadProcess, StartReads, Pass, SkipCycle, BeginCycle, EndReads, Cut, VisitNext,
      EndCycle, Republish, RefuseGroup, SendRead, Retry, PublishTag, EndVisit, Link, Writes, WriteHalf, Tick,
      HandingOut, vars, readVars, passVars
  <2> QED  BY <2>1, <2>2 DEF ResultInv, tagVars
<1> QED  BY <1>1, <1>2

LEMMA Publication ==
  ASSUME TypeOK, ReadInv, ResultInv, [Next]_vars, NEW t \in ReadTag,
         topic'[t] # topic[t], topic'[t] >= 0, Grouped(t) => Primary(cycle, t)
  PROVE  topic'[t] >= refTime
<1>1. PublishTag \/ Republish
  BY DEF Next, ReadProcess, StartReads, Pass, SkipCycle, BeginCycle, EndReads, Cut, VisitNext, EndCycle,
    RefuseGroup, InvalidRead, SendRead, Retry, ReadAnswered, ReadTimeout, ReadError, HandOut,
    Link, Writes, WriteHalf, Tick, vars, readVars, pubVars
<1>2. tag = t /\ topic'[t] = TopicAfter(t)
  BY <1>1 DEF PublishTag, Republish, TypeOK
<1>3. ~IsNoread(t) /\ topic'[t] = rawAt[t]
  BY <1>2 DEF TopicAfter, Nothing, NoreadValue
<1>4. rawAt[t] \in Nat /\ noreadCount[t] = 0 /\ referenceTime[t] \in Nat
  BY <1>3 DEF TypeOK, IsNoread
<1>5. CASE PublishTag
  BY <1>2, <1>3, <1>4, <1>5 DEF PublishTag, ResultInv
<1>6. CASE Republish
  BY <1>2, <1>3, <1>4, <1>6 DEF Republish, AlreadyRead, ReadInv
<1> QED  BY <1>1, <1>5, <1>6

-----------------------------------------------------------------------------
(* Requests for a group *)

LEMMA AskedKept ==
  ASSUME AskedInv, Visiting, UNCHANGED <<cycle, asked, refTime, referenceTime>>,
         readPc = "io" => readPc' = "io" /\ tag' = tag
  PROVE  AskedInv'
BY DEF AskedInv, Asked, Visiting

LEMMA AskedStep == TypeOK /\ AskedInv /\ [Next]_vars => AskedInv'
<1> SUFFICES ASSUME TypeOK, AskedInv, [Next]_vars PROVE AskedInv'
  OBVIOUS
<1>1. CASE BeginCycle
  BY <1>1 DEF BeginCycle, AskedInv, Asked
<1>2. CASE StartReads \/ SkipCycle \/ EndReads \/ Cut \/ EndCycle
  <2>1. ~Visiting'
    BY <1>2 DEF StartReads, SkipCycle, EndReads, Cut, EndCycle, Visiting
  <2> QED  BY <2>1 DEF AskedInv
<1>3. CASE VisitNext \/ Republish \/ RefuseGroup \/ Retry \/ PublishTag
  BY <1>3, AskedKept DEF VisitNext, Republish, RefuseGroup, Retry, PublishTag, EndVisit, Visiting,
    tagVars
<1>4. CASE SendRead
  <2>1. UNCHANGED <<cycle, tag, refTime, referenceTime>> /\ asked' = asked \cup {tag}
    BY <1>4 DEF SendRead, tagVars
  <2>2. readPc = "visit" /\ readPc' = "io"
    BY <1>4 DEF SendRead
  <2> QED  BY <2>1, <2>2 DEF AskedInv, Asked, Visiting
<1>5. CASE HandingOut
  <2>1. PICK ok \in BOOLEAN : HandOut(ok)
    BY <1>5, Result
  <2>2. UNCHANGED <<cycle, tag, refTime, asked>> /\ readPc' = "publish" /\ Visiting
    BY <1>5, <2>1, Result DEF HandOut
  <2>3. tag \in TagsOf(cycle)
    BY <2>2 DEF Visiting, TypeOK, PassTypeOK
  <2>4. \A v \in ReadTag : referenceTime[v] = refTime => referenceTime'[v] = refTime
    BY <2>1 DEF HandOut
  <2> SUFFICES ASSUME NEW u \in Asked, NEW v \in Members(cycle, u), Primary(cycle, v)
               PROVE  referenceTime'[v] = refTime
    BY <2>2 DEF AskedInv, Asked
  <2>5. v \in ReadTag
    BY TagsAreTags DEF Members
  <2>6. CASE readPc = "io" /\ u = tag
    <3>1. v \in Updated(cycle, tag) /\ Grouped(tag)
      BY <2>3, <2>6, GroupUpdated DEF Asked
    <3> QED  BY <2>1, <2>5, <3>1 DEF HandOut
  <2>7. CASE ~(readPc = "io" /\ u = tag)
    BY <2>2, <2>4, <2>5, <2>7 DEF AskedInv
  <2> QED  BY <2>6, <2>7
<1>6. CASE Link \/ Writes \/ WriteHalf \/ Tick \/ UNCHANGED vars
  BY <1>6 DEF Link, Writes, WriteHalf, Tick, vars, readVars, tagVars, passVars, AskedInv, Asked, Visiting
<1> QED  BY <1>1, <1>2, <1>3, <1>4, <1>5, <1>6 DEF Next, ReadProcess, Pass, HandingOut

LEMMA OneReadKept ==
  ASSUME OneReadPerGroup, Visiting, UNCHANGED <<cycle, asked>>
  PROVE  OneReadPerGroup'
BY DEF OneReadPerGroup, Visiting

LEMMA OneReadStep == TypeOK /\ AskedInv /\ OneReadPerGroup /\ [Next]_vars => OneReadPerGroup'
<1> SUFFICES ASSUME TypeOK, AskedInv, OneReadPerGroup, [Next]_vars PROVE OneReadPerGroup'
  OBVIOUS
<1>1. CASE BeginCycle
  BY <1>1 DEF BeginCycle, OneReadPerGroup
<1>2. CASE StartReads \/ SkipCycle \/ EndReads \/ Cut \/ EndCycle
  BY <1>2 DEF StartReads, SkipCycle, EndReads, Cut, EndCycle, OneReadPerGroup
<1>3. CASE VisitNext \/ Republish \/ RefuseGroup \/ Retry \/ PublishTag
  BY <1>3, OneReadKept DEF VisitNext, Republish, RefuseGroup, Retry, PublishTag, EndVisit, Visiting
<1>4. CASE SendRead
  <2>1. UNCHANGED cycle /\ asked' = asked \cup {tag} /\ readPc = "visit" /\ Reads
    BY <1>4 DEF SendRead
  <2>2. tag \in TagsOf(cycle)
    BY <2>1 DEF TypeOK, PassTypeOK
  <2>3. ASSUME NEW t \in Asked, tag \in Members(cycle, t), Grouped(tag), Primary(cycle, tag)
        PROVE  FALSE
    BY <2>1, <2>3 DEF AskedInv, Visiting, Reads, AlreadyRead
  <2> SUFFICES ASSUME NEW t \in asked', NEW u \in asked', Grouped(t), Grouped(u),
                      Primary(cycle, t), Primary(cycle, u), u \in Members(cycle, t)
               PROVE  u = t
    BY <2>1 DEF OneReadPerGroup
  <2>4. CASE t \in asked /\ u \in asked
    BY <2>1, <2>4 DEF OneReadPerGroup
  <2>5. CASE t \in asked /\ u = tag
    BY <2>3, <2>5 DEF Asked
  <2>6. CASE t = tag /\ u \in asked
    <3>1. tag \in Members(cycle, u)
      BY <2>2, <2>6 DEF Members
    <3> QED  BY <2>3, <2>6, <3>1 DEF Asked
  <2> QED  BY <2>1, <2>4, <2>5, <2>6
<1>5. CASE HandingOut
  BY <1>5, Result, OneReadKept DEF HandOut
<1>6. CASE Link \/ Writes \/ WriteHalf \/ Tick \/ UNCHANGED vars
  BY <1>6 DEF Link, Writes, WriteHalf, Tick, vars, readVars, passVars, OneReadPerGroup
<1> QED  BY <1>1, <1>2, <1>3, <1>4, <1>5, <1>6 DEF Next, ReadProcess, Pass, HandingOut

-----------------------------------------------------------------------------
(* How long a topic keeps a value *)

LEMMA AloneKept ==
  ASSUME TypeOK, Visiting, NEW t \in ReadTag, Alone(t), t # tag
  PROVE  t \notin Updated(cycle, tag)
<1>1. cycle \in Cycle /\ tag \in TagsOf(cycle)
  BY DEF TypeOK, PassTypeOK, Visiting
<1>2. CASE Grouped(tag)
  BY <1>1, <1>2 DEF Alone
<1>3. CASE ~Grouped(tag)
  BY <1>3 DEF Updated
<1> QED  BY <1>2, <1>3

LEMMA AloneByItself ==
  ASSUME NEW t \in ReadTag, Alone(t), t = tag
  PROVE  ~Grouped(tag) /\ Updated(cycle, tag) = {t}
BY DEF Alone, Updated

(* The steps that neither hand out a result nor end a visit. *)
LEMMA CountsKept ==
  [Next]_vars =>
    \/ HandingOut \/ PublishTag \/ Republish \/ RefuseGroup
    \/ /\ UNCHANGED <<noreadCount, pubVars>>
       /\ \/ readPc # "publish" /\ readPc' # "publish"
          \/ UNCHANGED <<readPc, tag>>
BY DEF Next, ReadProcess, StartReads, Pass, SkipCycle, BeginCycle, EndReads, Cut, VisitNext, EndCycle,
  SendRead, Retry, Link, Writes, WriteHalf, Tick, HandingOut, vars, readVars, tagVars, passVars

LEMMA MissStep == TypeOK /\ MissInv /\ [Next]_vars => MissInv'
<1> SUFFICES ASSUME TypeOK, MissInv, [Next]_vars, NEW t \in ReadTag, Alone(t)
             PROVE  IF readPc' = "publish" /\ tag' = t
                    THEN \/ noreadCount'[t] = 0
                         \/ noreadCount'[t] = IF misses'[t] <= NoreadIgnore[t]
                                              THEN misses'[t] + 1 ELSE misses'[t]
                    ELSE noreadCount'[t] = misses'[t]
  BY DEF MissInv
<1>1. noreadCount[t] \in Nat /\ misses[t] \in Nat /\ NoreadIgnore[t] \in Nat
  BY Config DEF TypeOK
<1>2. CASE HandingOut
  <2>1. PICK ok \in BOOLEAN : HandOut(ok)
    BY <1>2, Result
  <2>2. readPc \in {"visit", "io"} /\ readPc' = "publish" /\ UNCHANGED <<tag, misses>>
    BY <1>2, <2>1 DEF HandingOut, InvalidRead, ReadAnswered, ReadTimeout, ReadError, HandOut, pubVars
  <2>3. noreadCount[t] = misses[t]
    BY <2>2 DEF MissInv
  <2>4. CASE t = tag
    <3>1. noreadCount'[t] = IF ok THEN 0 ELSE NoreadNotify(t)
      BY <2>1, <2>4, AloneByItself DEF HandOut
    <3> QED  BY <1>1, <2>2, <2>3, <2>4, <3>1
  <2>5. CASE t # tag
    <3>1. noreadCount'[t] = noreadCount[t]
      BY <1>2, <2>1, <2>5, Result, AloneKept DEF HandOut
    <3> QED  BY <2>2, <2>3, <2>5, <3>1
  <2> QED  BY <2>4, <2>5
<1>3. CASE PublishTag
  <2>1. readPc = "publish" /\ readPc' = "check" /\ UNCHANGED noreadCount
    BY <1>3 DEF PublishTag, EndVisit, tagVars
  <2>2. CASE t = tag
    <3>1. misses'[t] = IF ~IsNoread(t) THEN 0
                       ELSE IF misses[t] <= NoreadIgnore[t] THEN misses[t] + 1 ELSE misses[t]
      BY <1>3, <2>2 DEF PublishTag, EndVisit, TypeOK
    <3> QED  BY <1>1, <2>1, <2>2, <3>1 DEF MissInv, IsNoread
  <2>3. CASE t # tag
    <3>1. misses'[t] = misses[t]
      BY <1>3, <2>3 DEF PublishTag, EndVisit, TypeOK
    <3> QED  BY <2>1, <2>3, <3>1 DEF MissInv
  <2> QED  BY <2>2, <2>3
<1>4. CASE Republish \/ RefuseGroup
  <2>1. readPc = "visit" /\ readPc' = "check" /\ UNCHANGED noreadCount /\ Grouped(tag)
    BY <1>4 DEF Republish, RefuseGroup, EndVisit, tagVars, AlreadyRead
  <2>2. t # tag
    BY <2>1 DEF Alone
  <2>3. misses'[t] = misses[t]
    BY <1>4, <2>2 DEF Republish, RefuseGroup, EndVisit, TypeOK
  <2> QED  BY <2>1, <2>3 DEF MissInv
<1>5. CASE /\ UNCHANGED <<noreadCount, pubVars>>
           /\ \/ readPc # "publish" /\ readPc' # "publish"
              \/ UNCHANGED <<readPc, tag>>
  BY <1>5 DEF MissInv, pubVars
<1> QED  BY <1>2, <1>3, <1>4, <1>5, CountsKept

LEMMA StaleStep == TypeOK /\ MissInv /\ StaleBound /\ [Next]_vars => StaleBound'
<1> SUFFICES ASSUME TypeOK, MissInv, StaleBound, [Next]_vars,
                    NEW t \in HasTopic, Alone(t), Silenced(t)'
             PROVE  topic'[t] < 0
  BY DEF StaleBound
<1>1. t \in ReadTag
  BY ReadCycleAssumption DEF ReadConfig
<1>2. CASE PublishTag /\ t = tag
  <2>1. misses'[t] = IF ~IsNoread(t) THEN 0
                     ELSE IF misses[t] <= NoreadIgnore[t] THEN misses[t] + 1 ELSE misses[t]
    BY <1>1, <1>2 DEF PublishTag, EndVisit, TypeOK
  <2>2. noreadCount[t] \in Nat /\ misses[t] \in Nat /\ NoreadIgnore[t] \in Nat
    BY <1>1, Config DEF TypeOK
  <2>3. misses'[t] > NoreadIgnore[t] /\ NoreadAction[t] \in {0, 1}
    BY DEF Silenced
  <2>4. told'[t] /\ told' = [told EXCEPT ![tag] = connected]
    BY <1>2 DEF Silenced, PublishTag, EndVisit
  <2>5. connected
    BY <1>1, <1>2, <2>4, Zenon DEF TypeOK
  <2>6. IsNoread(t)
    BY <2>1, <2>2, <2>3
  <2>7. NoReadIgnoreExceeded(t)
    BY <1>1, <1>2, <2>1, <2>2, <2>3, <2>6 DEF MissInv, PublishTag, IsNoread, NoReadIgnoreExceeded
  <2>8. topic'[t] = TopicAfter(t)
    BY <1>1, <1>2 DEF PublishTag, TypeOK
  <2> QED  BY <2>3, <2>5, <2>6, <2>7, <2>8 DEF TopicAfter, Nothing, NoreadValue
<1>3. CASE t # tag /\ (PublishTag \/ Republish \/ RefuseGroup)
  <2>1. topic'[t] = topic[t] /\ misses'[t] = misses[t]
    BY <1>1, <1>3 DEF PublishTag, Republish, RefuseGroup, EndVisit, TypeOK
  <2>2. told'[t] = told[t]
    BY <1>1, <1>3, Zenon DEF PublishTag, Republish, RefuseGroup, EndVisit, TypeOK
  <2> QED  BY <2>1, <2>2 DEF StaleBound, Silenced
<1>4. CASE t = tag /\ (Republish \/ RefuseGroup)
  BY <1>4 DEF Republish, RefuseGroup, AlreadyRead, Alone
<1>5. CASE UNCHANGED pubVars
  BY <1>5 DEF pubVars, StaleBound, Silenced
<1>6. CASE HandingOut
  <2>1. UNCHANGED pubVars
    BY <1>6, Result DEF HandOut
  <2> QED  BY <2>1, <1>5
<1> QED  BY <1>2, <1>3, <1>4, <1>5, <1>6, CountsKept

-----------------------------------------------------------------------------
(* How far a pass is from its end *)

LEMMA RetryStep == TypeOK /\ RetryInv /\ [Next]_vars => RetryInv'
<1> SUFFICES ASSUME TypeOK, RetryInv, [Next]_vars PROVE RetryInv'
  OBVIOUS
<1>1. retries \in Nat /\ MaxRetries \in Nat
  BY ReadCycleAssumption DEF TypeOK, PassTypeOK, ReadConfig
<1>2. CASE SendRead \/ Retry
  BY <1>1, <1>2 DEF SendRead, Retry, RetryInv
<1>3. CASE UNCHANGED <<readPc, retries>>
  BY <1>3 DEF RetryInv
<1>4. CASE readPc' # "io"
  BY <1>4 DEF RetryInv
<1>5. CASE ReadProcess
  BY <1>2, <1>3, <1>4, <1>5
  DEF ReadProcess, StartReads, Pass, SkipCycle, BeginCycle, EndReads, Cut, VisitNext, EndCycle,
    Republish, RefuseGroup, InvalidRead, ReadAnswered, ReadTimeout, ReadError,
    PublishTag, HandOut, EndVisit
<1>6. CASE UNCHANGED readVars
  BY <1>3, <1>6 DEF readVars, passVars
<1> QED  BY <1>5, <1>6 DEF Next, Link, Writes, WriteHalf, Tick, vars

LEMMA Product == ASSUME NEW a \in Nat, NEW b \in Nat PROVE a * b \in Nat
OBVIOUS

LEMMA Stretch ==
  ASSUME NEW k \in Nat, NEW a \in Nat, NEW b \in Nat, a < b
  PROVE  a * k + k <= b * k
<1>1. b = a + 1 + (b - a - 1) /\ b - a - 1 \in Nat
  OBVIOUS
<1>2. (b - a - 1) * k \in Nat
  BY <1>1, Product
<1>3. b * k = a * k + k + (b - a - 1) * k
  BY <1>1
<1> QED  BY <1>2, <1>3, Product

LEMMA StepsNat ==
  /\ NumReadTags \in Nat /\ NumCycles \in Nat /\ MaxRetries \in Nat
  /\ VisitSteps \in Nat /\ VisitSteps >= 4
  /\ NumReadTags * VisitSteps \in Nat
  /\ CycleSteps \in Nat /\ CycleSteps = NumReadTags * VisitSteps + 1
<1>1. NumReadTags \in Nat /\ NumCycles \in Nat /\ MaxRetries \in Nat
  BY ReadCycleAssumption DEF ReadConfig
<1>2. VisitSteps \in Nat /\ VisitSteps >= 4
  BY <1>1 DEF VisitSteps
<1>3. NumReadTags * VisitSteps \in Nat
  BY <1>1, <1>2, Product
<1> QED  BY <1>1, <1>2, <1>3 DEF CycleSteps

(* The tags of a cycle fit into the steps a cycle counts for. *)
LEMMA TagsCount ==
  ASSUME NEW t \in ReadTag
  PROVE  /\ TagsLeft(t) \in Nat
         /\ TagsLeft(t) + VisitSteps <= NumReadTags * VisitSteps
         /\ \A u \in ReadTag : t < u => TagsLeft(u) + VisitSteps <= TagsLeft(t)
<1>1. \A u \in ReadTag : u \in Nat /\ NumReadTags - u - 1 \in Nat
                         /\ NumReadTags - u - 1 < NumReadTags
  BY StepsNat DEF ReadTag
<1>2. TagsLeft(t) \in Nat
  BY <1>1, StepsNat, Product DEF TagsLeft
<1>3. TagsLeft(t) + VisitSteps <= NumReadTags * VisitSteps
  BY <1>1, StepsNat, Stretch DEF TagsLeft
<1>4. ASSUME NEW u \in ReadTag, t < u
      PROVE  TagsLeft(u) + VisitSteps <= TagsLeft(t)
  <2>1. NumReadTags - u - 1 < NumReadTags - t - 1
    BY <1>1, <1>4, StepsNat
  <2> QED  BY <1>1, <2>1, StepsNat, Stretch DEF TagsLeft
<1> QED  BY <1>2, <1>3, <1>4

LEMMA EntriesCount ==
  ASSUME NEW c \in CycleEntry
  PROVE  CyclesLeft(c) \in Nat /\ CyclesLeft(c) >= 1
<1>1. NumCycles - c \in Nat
  BY StepsNat DEF CycleEntry
<1>2. (NumCycles - c) * CycleSteps \in Nat
  BY <1>1, StepsNat, Product
<1> QED  BY <1>2 DEF CyclesLeft

LEMMA CyclesCount ==
  ASSUME NEW c \in Cycle
  PROVE  /\ CyclesLeft(c) \in Nat /\ CyclesLeft(c + 1) \in Nat
         /\ CyclesLeft(c + 1) >= 1
         /\ CyclesLeft(c) = CyclesLeft(c + 1) + NumReadTags * VisitSteps + 1
<1>1. c \in Nat /\ NumCycles - c \in Nat /\ NumCycles - (c + 1) \in Nat
      /\ c \in CycleEntry /\ c + 1 \in CycleEntry
  BY StepsNat DEF Cycle, CycleEntry
<1>2. (NumCycles - c) * CycleSteps = (NumCycles - (c + 1)) * CycleSteps + CycleSteps
  BY <1>1, StepsNat
<1>3. (NumCycles - (c + 1)) * CycleSteps \in Nat
  BY <1>1, StepsNat, Product
<1>4. CyclesLeft(c) = CyclesLeft(c + 1) + CycleSteps
  BY <1>2, <1>3, StepsNat DEF CyclesLeft
<1> QED  BY <1>1, <1>4, StepsNat, EntriesCount

LEMMA StepsTyped == ASSUME TypeOK, RetryInv PROVE StepsLeft \in Nat
<1>1. cycle \in CycleEntry /\ retries \in Nat /\ readPc \in ReadPc
  BY DEF TypeOK, PassTypeOK
<1>2. CyclesLeft(cycle) \in Nat
  BY <1>1, EntriesCount
<1>3. CASE readPc \in {"visit", "io", "publish", "check"}
  <2>1. cycle \in Cycle /\ tag \in ReadTag
    BY <1>3, TagsAreTags DEF TypeOK, PassTypeOK
  <2>2. CyclesLeft(cycle + 1) \in Nat /\ TagsLeft(tag) \in Nat
    BY <2>1, CyclesCount, TagsCount
  <2>3. PhaseLeft \in Nat
    BY <1>1, StepsNat DEF PhaseLeft, VisitSteps, RetryInv
  <2> QED  BY <1>3, <2>2, <2>3 DEF StepsLeft
<1> QED  BY <1>1, <1>2, <1>3 DEF StepsLeft, ReadPc

(* The steps of one visit. *)
LEMMA VisitStep ==
  ASSUME TypeOK, RetryInv,
         \/ Republish \/ RefuseGroup \/ InvalidRead \/ SendRead \/ Retry
         \/ ReadAnswered \/ ReadTimeout \/ ReadError \/ PublishTag
  PROVE  StepsLeft' \in 0 .. StepsLeft - 1
<1>1. cycle \in Cycle /\ tag \in ReadTag
  BY TagsAreTags DEF TypeOK, PassTypeOK, Republish, RefuseGroup, InvalidRead, SendRead, Retry,
    ReadAnswered, ReadTimeout, ReadError, PublishTag
<1>2. UNCHANGED <<cycle, tag>>
  BY DEF Republish, RefuseGroup, InvalidRead, SendRead, Retry, ReadAnswered, ReadTimeout,
    ReadError, PublishTag, HandOut, EndVisit
<1>3. retries \in Nat /\ (readPc = "io" => retries <= MaxRetries)
  BY DEF TypeOK, PassTypeOK, RetryInv
<1>4. PhaseLeft \in 1 .. VisitSteps /\ PhaseLeft' \in 1 .. PhaseLeft - 1
  <2>1. CASE Republish \/ RefuseGroup
    BY <2>1, StepsNat DEF Republish, RefuseGroup, EndVisit, PhaseLeft
  <2>2. CASE SendRead
    BY <2>2, StepsNat DEF SendRead, PhaseLeft, VisitSteps
  <2>3. CASE Retry
    BY <2>3, <1>3, StepsNat DEF Retry, PhaseLeft, VisitSteps
  <2>4. CASE InvalidRead
    BY <2>4, StepsNat DEF InvalidRead, HandOut, PhaseLeft
  <2>5. CASE ReadAnswered \/ ReadTimeout \/ ReadError
    <3>1. readPc = "io" /\ readPc' = "publish"
      BY <2>5 DEF ReadAnswered, ReadTimeout, ReadError, HandOut
    <3>2. PhaseLeft = VisitSteps - 1 - retries /\ PhaseLeft' = 2
      BY <3>1 DEF PhaseLeft
    <3> QED  BY <3>1, <3>2, <1>3, StepsNat DEF VisitSteps
  <2>6. CASE PublishTag
    BY <2>6, StepsNat DEF PublishTag, EndVisit, PhaseLeft
  <2> QED  BY <2>1, <2>2, <2>3, <2>4, <2>5, <2>6
<1>5. readPc \in {"visit", "io", "publish", "check"} /\ readPc' \in {"visit", "io", "publish", "check"}
  BY DEF Republish, RefuseGroup, InvalidRead, SendRead, Retry, ReadAnswered, ReadTimeout,
    ReadError, PublishTag, HandOut, EndVisit
<1>6. /\ StepsLeft = CyclesLeft(cycle + 1) + TagsLeft(tag) + PhaseLeft
      /\ StepsLeft' = CyclesLeft(cycle + 1) + TagsLeft(tag) + PhaseLeft'
  BY <1>2, <1>5 DEF StepsLeft, CyclesLeft, TagsLeft
<1>7. CyclesLeft(cycle + 1) \in Nat /\ TagsLeft(tag) \in Nat
  BY <1>1, CyclesCount, TagsCount
<1> QED  BY <1>4, <1>6, <1>7, StepsNat

(* The steps between two visits. *)
LEMMA BetweenStep ==
  ASSUME TypeOK,
         SkipCycle \/ BeginCycle \/ EndReads \/ Cut \/ VisitNext \/ EndCycle
  PROVE  StepsLeft' \in 0 .. StepsLeft - 1
<1>1. cycle \in CycleEntry /\ CyclesLeft(cycle) \in Nat /\ CyclesLeft(cycle) >= 1
  BY EntriesCount DEF TypeOK, PassTypeOK
<1>2. CASE SkipCycle
  <2>1. cycle \in Cycle
    BY <1>1, <1>2, EndMark DEF SkipCycle
  <2>2. StepsLeft = CyclesLeft(cycle) /\ StepsLeft' = CyclesLeft(cycle + 1)
    BY <1>2 DEF SkipCycle, StepsLeft, CyclesLeft
  <2> QED  BY <2>1, <2>2, CyclesCount, StepsNat
<1>3. CASE BeginCycle
  <2>1. cycle \in Cycle /\ tag' \in ReadTag
    BY <1>1, <1>3, EndMark, TagsAreTags DEF BeginCycle
  <2>2. /\ StepsLeft = CyclesLeft(cycle)
        /\ StepsLeft' = CyclesLeft(cycle + 1) + TagsLeft(tag') + VisitSteps
    BY <1>3 DEF BeginCycle, StepsLeft, CyclesLeft, TagsLeft, PhaseLeft
  <2>3. TagsLeft(tag') \in Nat /\ TagsLeft(tag') + VisitSteps <= NumReadTags * VisitSteps
    BY <2>1, TagsCount
  <2>4. /\ CyclesLeft(cycle + 1) \in Nat
        /\ CyclesLeft(cycle) = CyclesLeft(cycle + 1) + NumReadTags * VisitSteps + 1
    BY <2>1, CyclesCount
  <2> QED  BY <2>2, <2>3, <2>4, StepsNat
<1>4. CASE EndReads
  BY <1>1, <1>4 DEF EndReads, StepsLeft
<1>5. CASE Cut \/ VisitNext \/ EndCycle
  <2>1. readPc = "check" /\ cycle \in Cycle /\ tag \in ReadTag
    BY <1>5, TagsAreTags DEF Cut, VisitNext, EndCycle, TypeOK, PassTypeOK
  <2>2. StepsLeft = CyclesLeft(cycle + 1) + TagsLeft(tag) + 1
    BY <2>1 DEF StepsLeft, PhaseLeft
  <2>3. CyclesLeft(cycle + 1) \in Nat /\ TagsLeft(tag) \in Nat
    BY <2>1, CyclesCount, TagsCount
  <2>4. CASE Cut
    BY <2>2, <2>3, <2>4 DEF Cut, StepsLeft
  <2>5. CASE VisitNext
    <3>1. tag' \in ReadTag /\ tag < tag'
      BY <2>1, <2>5, TagsAreTags DEF VisitNext, Later, ReadTag
    <3>2. StepsLeft' = CyclesLeft(cycle + 1) + TagsLeft(tag') + VisitSteps
      BY <2>5 DEF VisitNext, StepsLeft, CyclesLeft, TagsLeft, PhaseLeft
    <3>3. TagsLeft(tag') \in Nat /\ TagsLeft(tag') + VisitSteps <= TagsLeft(tag)
      BY <2>1, <3>1, TagsCount
    <3> QED  BY <2>2, <2>3, <3>2, <3>3, StepsNat
  <2>6. CASE EndCycle
    <3>1. StepsLeft' = CyclesLeft(cycle + 1)
      BY <2>6 DEF EndCycle, StepsLeft, CyclesLeft
    <3> QED  BY <2>2, <2>3, <3>1
  <2> QED  BY <1>5, <2>4, <2>5, <2>6
<1> QED  BY <1>2, <1>3, <1>4, <1>5

LEMMA PassStep ==
  ASSUME TypeOK, RetryInv, [Next]_vars, readPc # "idle"
  PROVE  UNCHANGED passVars \/ StepsLeft' \in 0 .. StepsLeft - 1
<1>1. CASE ReadProcess
  BY <1>1, VisitStep, BetweenStep DEF ReadProcess, Pass, StartReads
<1>2. CASE UNCHANGED readVars
  BY <1>2 DEF readVars
<1> QED  BY <1>1, <1>2 DEF Next, Link, Writes, WriteHalf, Tick, vars

-----------------------------------------------------------------------------
(* The theorems *)

LEMMA InvInit == Init => ReadCycleInvariant
<1> SUFFICES ASSUME Init PROVE ReadCycleInvariant
  OBVIOUS
<1>1. TimeInv /\ ReadInv /\ ResultInv
  BY DEF Init, ReadInit, TimeInv, ReadInv, ResultInv
<1>2. AskedInv /\ OneReadPerGroup
  BY DEF Init, ReadInit, AskedInv, Asked, OneReadPerGroup
<1>3. MissInv
  BY DEF Init, ReadInit, MissInv
<1>4. StaleBound
  BY ReadCycleAssumption DEF Init, ReadInit, StaleBound, Silenced, ReadConfig, Nothing
<1>5. RetryInv
  BY DEF Init, ReadInit, RetryInv
<1> QED  BY <1>1, <1>2, <1>3, <1>4, <1>5 DEF ReadCycleInvariant

LEMMA InvNext == TypeOK /\ ReadCycleInvariant /\ [Next]_vars => ReadCycleInvariant'
BY TimeStep, ReadStep, ResultStep, AskedStep, OneReadStep, MissStep, StaleStep,
   RetryStep
  DEF ReadCycleInvariant

(* The times, values and counters of the tags go together in every state.  *)
THEOREM Invariance == Spec => [](TypeOK /\ ReadCycleInvariant)
<1> QED  BY TypeInit, TypeNext, InvInit, InvNext, PTL DEF Spec

(* mb_read_multi_tags asks a slave once for a group in a run of the cycle. *)
THEOREM GroupAskedOnce == Spec => []OneReadPerGroup
<1>1. ReadCycleInvariant => OneReadPerGroup
  BY DEF ReadCycleInvariant
<1> QED  BY <1>1, Invariance, PTL

(* mqtt_publish_tag lets no topic keep an unreadable value for longer than *)
(* noreadignore says, for a tag that no group read reaches.                *)
THEOREM StaleBounded == Spec => []StaleBound
<1>1. ReadCycleInvariant => StaleBound
  BY DEF ReadCycleInvariant
<1> QED  BY <1>1, Invariance, PTL

(* What mqtt_publish_tag publishes as a value was read in this run of the  *)
(* cycle or in the second it began in.                                     *)
THEOREM PublishedIsFresh == Spec => FreshPublished
<1>1. TypeOK /\ ReadCycleInvariant /\ [Next]_vars =>
        [\A t \in ReadTag :
           topic'[t] # topic[t] /\ topic'[t] >= 0 /\ (Grouped(t) => Primary(cycle, t))
             => topic'[t] >= refTime]_vars
  BY Publication DEF ReadCycleInvariant
<1> QED  BY <1>1, Invariance, PTL DEF Spec, FreshPublished

-----------------------------------------------------------------------------
(* The feed the read path implements *)

LEMMA FeedInit == Init => Feed!Init
BY DEF Init, ReadInit, Feed!Init, Fed

LEMMA FeedKept ==
  UNCHANGED <<clock, refTime, rawAt, noreadCount, topic>> => UNCHANGED Feed!vars
BY DEF Feed!vars

LEMMA FedTag ==
  ASSUME TypeOK, Visiting
  PROVE  tag \in ReadTag /\ (tag \in Fed /\ Grouped(tag) => Primary(cycle, tag))
BY TagsAreTags DEF TypeOK, PassTypeOK, Visiting, Fed

(* A transaction is an answer or a silence for the tags it updates. *)
LEMMA FeedResult ==
  ASSUME NEW ok \in BOOLEAN, HandOut(ok)
  PROVE  \E S \in SUBSET Fed : Feed!Answer(S) \/ Feed!Silence(S)
<1>0. PICK S \in SUBSET Fed : S = Updated(cycle, tag) \cap Fed
  OBVIOUS
<1>1. UNCHANGED <<clock, refTime, topic>>
  BY DEF HandOut, OutsideFrame, pubVars
<1>2. \A t \in Fed : t \in ReadTag
  BY DEF Fed
<1>3. \A t \in Fed : t \in S <=> t \in Updated(cycle, tag)
  BY <1>0
<1>4. CASE ok
  <2>1. [t \in Fed |-> rawAt'[t]] = [t \in Fed |-> IF t \in S THEN clock ELSE [u \in Fed |-> rawAt[u]][t]]
    BY <1>2, <1>3, <1>4 DEF HandOut
  <2>2. [t \in Fed |-> noreadCount'[t]]
          = [t \in Fed |-> IF t \in S THEN 0 ELSE [u \in Fed |-> noreadCount[u]][t]]
    BY <1>2, <1>3, <1>4 DEF HandOut
  <2>3. Feed!Answer(S)
    BY <1>1, <2>1, <2>2 DEF Feed!Answer
  <2> QED  BY <2>3
<1>5. CASE ~ok
  <2>1. [t \in Fed |-> rawAt'[t]] = [t \in Fed |-> rawAt[t]]
    BY <1>2, <1>5 DEF HandOut
  <2>2. [t \in Fed |-> noreadCount'[t]]
          = [t \in Fed |-> IF t \in S /\ [u \in Fed |-> noreadCount[u]][t] <= NoreadIgnore[t]
                           THEN [u \in Fed |-> noreadCount[u]][t] + 1
                           ELSE [u \in Fed |-> noreadCount[u]][t]]
    BY <1>2, <1>3, <1>5 DEF HandOut
  <2>3. Feed!Silence(S)
    BY <1>1, <2>1, <2>2 DEF Feed!Silence
  <2> QED  BY <2>3
<1> QED  BY <1>4, <1>5

(* A publication shows a reading or a mark, if it shows anything new. *)
LEMMA FeedShown ==
  ASSUME TypeOK, Visiting, tag \in Fed,
         topic' = [topic EXCEPT ![tag] = TopicAfter(tag)],
         UNCHANGED <<clock, refTime, rawAt, noreadCount>>,
         noreadCount[tag] > 0 \/ rawAt[tag] >= refTime
  PROVE  [\E t \in Fed : Feed!ShowReading(t) \/ Feed!ShowMark(t)]_(Feed!vars)
<1>0. PICK u \in Fed : u = tag
  OBVIOUS
<1>1. tag \in ReadTag /\ \A t \in Fed : t \in ReadTag
  BY FedTag DEF Fed
<1> DEFINE shown == [t \in Fed |-> topic[t]]
           marks == [t \in Fed |-> IF NoreadAction[t] = 0 THEN {Nothing}
                                   ELSE IF NoreadAction[t] = 1 THEN {NoreadValue} ELSE {}]
<1>2. [t \in Fed |-> topic'[t]] = [shown EXCEPT ![tag] = TopicAfter(tag)]
  BY <1>1 DEF TypeOK
<1>3. CASE TopicAfter(tag) = topic[tag]
  <2>1. [t \in Fed |-> topic'[t]] = shown
    BY <1>2, <1>3
  <2> QED  BY <2>1 DEF Feed!vars
<1>4. CASE TopicAfter(tag) = rawAt[tag] /\ noreadCount[tag] = 0
  <2>1. rawAt[tag] >= refTime
    BY <1>4
  <2>2. Feed!ShowReading(u)
    BY <1>0, <1>2, <1>4, <2>1 DEF Feed!ShowReading, Feed!Show
  <2> QED  BY <2>2
<1>5. CASE TopicAfter(tag) \in marks[tag] /\ noreadCount[tag] > NoreadIgnore[tag]
  <2>1. Feed!ShowMark(u)
    BY <1>0, <1>2, <1>5 DEF Feed!ShowMark, Feed!Show
  <2> QED  BY <2>1
<1>6. noreadCount[tag] \in Nat
  BY <1>1 DEF TypeOK
<1> QED
  BY <1>3, <1>4, <1>5, <1>6 DEF TopicAfter, IsNoread, NoReadIgnoreExceeded

LEMMA FeedOther ==
  ASSUME tag \notin Fed, tag \in ReadTag, TypeOK,
         topic' = [topic EXCEPT ![tag] = TopicAfter(tag)],
         UNCHANGED <<clock, refTime, rawAt, noreadCount>>
  PROVE  UNCHANGED Feed!vars
<1>1. \A t \in Fed : t \in ReadTag /\ topic'[t] = topic[t]
  BY DEF TypeOK, Fed
<1> QED  BY <1>1 DEF Feed!vars

LEMMA FeedStep == TypeOK /\ ReadCycleInvariant /\ [Next]_vars => [Feed!Next]_(Feed!vars)
<1> SUFFICES ASSUME TypeOK, ReadCycleInvariant, [Next]_vars PROVE [Feed!Next]_(Feed!vars)
  OBVIOUS
<1>1. CASE InvalidRead \/ ReadAnswered \/ ReadTimeout \/ ReadError
  BY <1>1, FeedResult DEF InvalidRead, ReadAnswered, ReadTimeout, ReadError, Feed!Next
<1>2. CASE BeginCycle
  <2>1. refTime' = clock /\ UNCHANGED <<clock, rawAt, noreadCount, topic>>
    BY <1>2 DEF BeginCycle, OutsideFrame, tagVars, pubVars
  <2> QED  BY <2>1 DEF Feed!Next, Feed!Round
<1>3. CASE Tick
  <2>1. clock' = clock + 1 /\ UNCHANGED <<refTime, rawAt, noreadCount, topic>>
    BY <1>3 DEF Tick, readVars, tagVars, passVars, pubVars
  <2> QED  BY <2>1 DEF Feed!Next, Feed!Tick
<1>4. CASE PublishTag \/ Republish
  <2>1. Visiting /\ EndVisit
    BY <1>4 DEF PublishTag, Republish, Visiting
  <2>2. tag \in ReadTag /\ (tag \in Fed /\ Grouped(tag) => Primary(cycle, tag))
    BY <2>1, FedTag
  <2>3. UNCHANGED <<clock, refTime, rawAt, noreadCount>>
    BY <2>1 DEF EndVisit, OutsideFrame, tagVars
  <2>4. CASE topic' = topic
    BY <2>3, <2>4, FeedKept
  <2>5. CASE topic' = [topic EXCEPT ![tag] = TopicAfter(tag)] /\ tag \notin Fed
    BY <2>2, <2>3, <2>5, FeedOther
  <2>6. CASE topic' = [topic EXCEPT ![tag] = TopicAfter(tag)] /\ tag \in Fed
    <3>1. noreadCount[tag] > 0 \/ rawAt[tag] >= refTime
      <4>1. CASE PublishTag
        BY <2>2, <2>6, <4>1 DEF PublishTag, ReadCycleInvariant, ResultInv
      <4>2. CASE Republish
        BY <2>2, <4>2 DEF Republish, AlreadyRead, ReadCycleInvariant, ReadInv
      <4> QED  BY <1>4, <4>1, <4>2
    <3>2. [\E t \in Fed : Feed!ShowReading(t) \/ Feed!ShowMark(t)]_(Feed!vars)
      BY <2>1, <2>3, <2>6, <3>1, FeedShown
    <3> QED  BY <3>2 DEF Feed!Next
  <2> QED  BY <1>4, <2>4, <2>5, <2>6 DEF PublishTag, Republish
<1>5. CASE StartReads \/ SkipCycle \/ EndReads \/ Cut \/ VisitNext \/ EndCycle \/ SendRead \/ Retry
           \/ RefuseGroup
  <2>1. UNCHANGED <<clock, refTime, rawAt, noreadCount, topic>>
    BY <1>5 DEF StartReads, SkipCycle, EndReads, Cut, VisitNext, EndCycle, SendRead, Retry,
      RefuseGroup, EndVisit, OutsideFrame, tagVars, pubVars
  <2> QED  BY <2>1, FeedKept
<1>6. CASE Link \/ Writes \/ WriteHalf \/ UNCHANGED vars
  <2>1. UNCHANGED <<clock, refTime, rawAt, noreadCount, topic>>
    BY <1>6 DEF Link, Writes, WriteHalf, vars, readVars, tagVars, passVars, pubVars
  <2> QED  BY <2>1, FeedKept
<1> QED  BY <1>1, <1>2, <1>3, <1>4, <1>5, <1>6 DEF Next, ReadProcess, Pass

(* The read path implements the abstract feed, for any configuration: what *)
(* a topic is given is a reading of this run of the cycle, or a mark once  *)
(* noreadignore is exceeded (mbbridge.cpp:330-477, :690-723).              *)
THEOREM ReadPathFeeds == Spec => FeedsTopics
<1> QED  BY FeedInit, FeedStep, Invariance, PTL DEF Spec, FeedsTopics, Feed!Spec

(* A pass of mb_read_process comes to an end: each of its steps lowers the *)
(* number of steps that may still follow.                                  *)
THEOREM ReadsEnd == Spec => ReadPassEnds
<1>1. TypeOK /\ ReadCycleInvariant /\ [Next]_vars =>
        [readPc # "idle" => UNCHANGED passVars \/ StepsLeft' \in 0 .. StepsLeft - 1]_vars
  BY PassStep DEF ReadCycleInvariant
<1> QED  BY <1>1, Invariance, PTL DEF Spec, ReadPassEnds
=============================================================================
