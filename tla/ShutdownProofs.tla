--------------------------- MODULE ShutdownProofs ---------------------------
(* The end of the program, for any slaves, read tags and stored tags, any  *)
(* number of connections and of starts.                                    *)
EXTENDS Shutdown, TLAPS

(* The inductive invariant, by subject *)

Early == {"run", "report", "noread", "clear"}
Late  == {"disconnect", "closing", "wait", "stopped"}
AtExit == clearonexit \/ noreadonexit

Final == IF clearonexit THEN "none" ELSE "noread"

(* The main thread iterates in its phase "local", and clears there what    *)
(* the configuration asks for.                                             *)
Phases ==
  /\ pc \notin EndPc => (iter["main"].at # "idle" <=> pc = "local")
  /\ pc \in {"noread", "clear", "local"} => AtExit
  /\ pc \in {"run", "report"} => tag = 1
  /\ pc = "clear" => tag <= ReadCount
  /\ AtExit /\ pc \in {"local"} \cup Late => tag = ReadCount + 1

(* The loop over the slaves has passed none that is on-line, and a crash   *)
(* leaves the broker untold.                                               *)
Reported ==
  /\ pc = "report" => \A s \in Slave : mbSlaveOnline[s] => slave <= s
  /\ pc \in {"noread", "clear", "local"} \cup Late => \A s \in Slave : ~mbSlaveOnline[s]
  /\ pc = "crashed" => \A s \in Slave : mbSlaveOnline[s] => s \in missed

Held ==
  /\ held /\ pc \in {"report", "noread", "clear", "local", "disconnect"} => connected
  /\ held => pc # "wait"

(* A slave that was on-line still is, or its topic says off-line. *)
WereReported ==
  held /\ pc \in ExitPc \cup {"stopped"} =>
    \A s \in wasOnline : mbSlaveOnline[s] \/ slaveTopic[s] = "offline"

ReadCleared ==
  held /\ AtExit /\ pc \in (ExitPc \ {"report"}) \cup {"stopped"} =>
    /\ \A k \in ReadTag : k < tag => readTopic[k] = Final
    /\ pc = "clear" /\ noreadonexit => readTopic[tag] = "noread"

LocalCleared ==
  /\ Local = {} => localTopic = "none"
  /\ held /\ AtExit /\ pc \in Late => localTopic = "none"
  /\ held /\ AtExit /\ pc = "local" /\ iter["main"].at # "first" => localTopic = "none"

(* The mosquitto thread has the iterator for itself until the exit comes   *)
(* to the local tags, and has subscribed what it has passed.               *)
Passed(n) == {t \in Stored : t < n} \ Local \subseteq subscribed

Subscribing ==
  pc \in Early /\ connected =>
    /\ iter["mosq"].at = "idle" => Passed(TagCount)
    /\ iter["mosq"].at \in {"test", "load"} => iterateIndex >= 0 /\ Passed(iterateIndex + 1)
    /\ iter["mosq"].at = "store" => Passed(iter["mosq"].index)

ExitInv ==
  /\ TypeOK /\ StatusTold
  /\ Phases /\ Reported /\ Held /\ WereReported /\ ReadCleared /\ LocalCleared /\ Subscribing

-----------------------------------------------------------------------------
(* While the program runs *)

(* Only a report that is not sent leaves a slave's topic behind.           *)
LEMMA TransactionStep ==
  ASSUME ExitInv, NEW s \in Slave, NEW online \in BOOLEAN, Transaction(s, online)
  PROVE  ExitInv'
<1> USE ShutdownAssumption
<1>1. TypeOK'
  BY DEF ExitInv, TypeOK, StatusTypeOK, Status, EndPc, ExitPc, statusVars, configVars,
         exitVars, topicVars, storeVars, Transaction, Report, SetOnlineStatus,
         StatusText
<1>2. StatusTold'
  BY DEF ExitInv, StatusTold, TypeOK, StatusTypeOK, statusVars, Transaction, Report,
         SetOnlineStatus, StatusText
<1>3. Phases'
  BY DEF ExitInv, Phases, AtExit, EndPc, Late, TypeOK, configVars, exitVars, storeVars,
         Transaction, Report, SetOnlineStatus, StatusText
<1>4. Reported'
  BY DEF ExitInv, Reported, Late, TypeOK, StatusTypeOK, statusVars, exitVars,
         Transaction, Report, SetOnlineStatus, StatusText
<1>5. Held'
  BY DEF ExitInv, Held, statusVars, exitVars, Transaction, Report, SetOnlineStatus,
         StatusText
<1>6. WereReported'
  BY DEF ExitInv, WereReported, ExitPc, TypeOK, StatusTypeOK, statusVars, exitVars,
         Transaction, Report, SetOnlineStatus, StatusText
<1>7. ReadCleared'
  BY DEF ExitInv, ReadCleared, AtExit, Final, ExitPc, configVars, exitVars, topicVars,
         Transaction, Report, SetOnlineStatus, StatusText
<1>8. LocalCleared'
  BY DEF ExitInv, LocalCleared, AtExit, Late, configVars, exitVars, topicVars,
         storeVars, Transaction, Report, SetOnlineStatus, StatusText
<1>9. Subscribing'
  BY DEF ExitInv, Subscribing, Passed, Early, statusVars, exitVars, storeVars,
         Transaction, Report, SetOnlineStatus, StatusText
<1> QED
  BY <1>1, <1>2, <1>3, <1>4, <1>5, <1>6, <1>7, <1>8, <1>9 DEF ExitInv

(* The read topics are the exit's own once it has begun.                   *)
LEMMA PublishReadStep ==
  ASSUME ExitInv, NEW k \in ReadTag, NEW content \in {"none", "value", "noread"}, PublishRead(k, content)
  PROVE  ExitInv'
<1> USE ShutdownAssumption
<1>1. TypeOK'
  BY DEF ExitInv, TypeOK, StatusTypeOK, Status, EndPc, ExitPc, statusVars, configVars,
         exitVars, topicVars, storeVars, PublishRead, Sent
<1>2. StatusTold'
  BY DEF ExitInv, StatusTold, TypeOK, StatusTypeOK, statusVars, PublishRead, Sent
<1>3. Phases'
  BY DEF ExitInv, Phases, AtExit, EndPc, Late, TypeOK, configVars, exitVars, storeVars,
         PublishRead, Sent
<1>4. Reported'
  BY DEF ExitInv, Reported, Late, TypeOK, StatusTypeOK, statusVars, exitVars,
         PublishRead, Sent
<1>5. Held'
  BY DEF ExitInv, Held, statusVars, exitVars, PublishRead, Sent
<1>6. WereReported'
  BY DEF ExitInv, WereReported, ExitPc, TypeOK, StatusTypeOK, statusVars, exitVars,
         PublishRead, Sent
<1>7. ReadCleared'
  BY DEF ExitInv, ReadCleared, AtExit, Final, ExitPc, configVars, exitVars, topicVars,
         PublishRead, Sent
<1>8. LocalCleared'
  BY DEF ExitInv, LocalCleared, AtExit, Late, configVars, exitVars, topicVars,
         storeVars, PublishRead, Sent
<1>9. Subscribing'
  BY DEF ExitInv, Subscribing, Passed, Early, statusVars, exitVars, storeVars,
         PublishRead, Sent
<1> QED
  BY <1>1, <1>2, <1>3, <1>4, <1>5, <1>6, <1>7, <1>8, <1>9 DEF ExitInv

(* And so is the local topic.                                              *)
LEMMA PublishCpuStep ==
  ASSUME ExitInv, PublishCpu
  PROVE  ExitInv'
<1> USE ShutdownAssumption
<1>1. TypeOK'
  BY DEF ExitInv, TypeOK, StatusTypeOK, Status, EndPc, ExitPc, statusVars, configVars,
         exitVars, topicVars, storeVars, PublishCpu, Sent
<1>2. StatusTold'
  BY DEF ExitInv, StatusTold, TypeOK, StatusTypeOK, statusVars, PublishCpu, Sent
<1>3. Phases'
  BY DEF ExitInv, Phases, AtExit, EndPc, Late, TypeOK, configVars, exitVars, storeVars,
         PublishCpu, Sent
<1>4. Reported'
  BY DEF ExitInv, Reported, Late, TypeOK, StatusTypeOK, statusVars, exitVars,
         PublishCpu, Sent
<1>5. Held'
  BY DEF ExitInv, Held, statusVars, exitVars, PublishCpu, Sent
<1>6. WereReported'
  BY DEF ExitInv, WereReported, ExitPc, TypeOK, StatusTypeOK, statusVars, exitVars,
         PublishCpu, Sent
<1>7. ReadCleared'
  BY DEF ExitInv, ReadCleared, AtExit, Final, ExitPc, configVars, exitVars, topicVars,
         PublishCpu, Sent
<1>8. LocalCleared'
  BY DEF ExitInv, LocalCleared, AtExit, Late, configVars, exitVars, topicVars,
         storeVars, PublishCpu, Sent
<1>9. Subscribing'
  BY DEF ExitInv, Subscribing, Passed, Early, statusVars, exitVars, storeVars,
         PublishCpu, Sent
<1> QED
  BY <1>1, <1>2, <1>3, <1>4, <1>5, <1>6, <1>7, <1>8, <1>9 DEF ExitInv

(* The loop over the slaves starts below the first of them.                *)
LEMMA BeginExitStep ==
  ASSUME ExitInv, BeginExit
  PROVE  ExitInv'
<1> USE ShutdownAssumption
<1>1. TypeOK'
  BY DEF ExitInv, TypeOK, StatusTypeOK, Status, EndPc, ExitPc, statusVars, configVars,
         exitVars, topicVars, storeVars, BeginExit, Online, SlaveMin, SlaveMax
<1>2. StatusTold'
  BY DEF ExitInv, StatusTold, TypeOK, StatusTypeOK, statusVars, BeginExit, Online,
         SlaveMin, SlaveMax
<1>3. Phases'
  BY DEF ExitInv, Phases, AtExit, EndPc, Late, TypeOK, configVars, exitVars, storeVars,
         BeginExit, Online, SlaveMin, SlaveMax
<1>4. Reported'
  BY DEF ExitInv, Reported, Late, TypeOK, StatusTypeOK, statusVars, exitVars, BeginExit,
         Online, SlaveMin, SlaveMax
<1>5. Held'
  BY DEF ExitInv, Held, statusVars, exitVars, BeginExit, Online, SlaveMin, SlaveMax
<1>6. WereReported'
  BY DEF ExitInv, WereReported, ExitPc, TypeOK, StatusTypeOK, statusVars, exitVars,
         BeginExit, Online, SlaveMin, SlaveMax
<1>7. ReadCleared'
  BY DEF ExitInv, ReadCleared, AtExit, Final, ExitPc, configVars, exitVars, topicVars,
         BeginExit, Online, SlaveMin, SlaveMax
<1>8. LocalCleared'
  BY DEF ExitInv, LocalCleared, AtExit, Late, configVars, exitVars, topicVars,
         storeVars, BeginExit, Online, SlaveMin, SlaveMax
<1>9. Subscribing'
  BY DEF ExitInv, Subscribing, Passed, Early, statusVars, exitVars, storeVars,
         BeginExit, Online, SlaveMin, SlaveMax
<1> QED
  BY <1>1, <1>2, <1>3, <1>4, <1>5, <1>6, <1>7, <1>8, <1>9 DEF ExitInv

-----------------------------------------------------------------------------
(* exit_loop *)

(* The least slave on-line is reported, and the rest are above it.         *)
LEMMA ReportNextStep ==
  ASSUME ExitInv, ReportNext
  PROVE  ExitInv'
<1> USE ShutdownAssumption
<1>a. PICK s \in ToReport : /\ \A u \in ToReport : s <= u
                            /\ Report(s, FALSE) /\ slave' = s + 1
  BY DEF ReportNext
<1>b. /\ s \in Slave /\ s \in Int /\ 0 <= s /\ s <= SlaveMax /\ mbSlaveOnline[s]
      /\ \A u \in Slave : mbSlaveOnline[u] /\ slave <= u => u \in ToReport /\ u \in Int
  BY <1>a DEF ToReport, Online, SlaveMin, SlaveMax, LastSlave
<1>c. /\ mbSlaveOnline' = [mbSlaveOnline EXCEPT ![s] = FALSE]
      /\ slaveTopic' = IF connected THEN [slaveTopic EXCEPT ![s] = "offline"] ELSE slaveTopic
      /\ missed' = IF connected THEN missed \ {s} ELSE missed \cup {s}
      /\ pc = "report"
      /\ UNCHANGED <<connected, clearonexit, noreadonexit, pc, tag, wasOnline, readTopic,
                     localTopic, iterateIndex, iter, subscribed, links, runs, held>>
  BY <1>a, <1>b DEF ReportNext, Report, SetOnlineStatus, StatusText, configVars, topicVars, storeVars
<1>1. TypeOK'
  BY <1>a, <1>b, <1>c DEF ExitInv, TypeOK, StatusTypeOK, Status, SlaveMax
<1>2. StatusTold'
  BY <1>b, <1>c DEF ExitInv, TypeOK, StatusTypeOK, StatusTold
<1>3. Phases'
  BY DEF ExitInv, Phases, AtExit, EndPc, Late, TypeOK, configVars, exitVars, storeVars,
         ReportNext, Report, SetOnlineStatus, StatusText, ToReport, LastSlave, Online,
         SlaveMin, SlaveMax
<1>4. Reported'
  BY <1>a, <1>b, <1>c DEF ExitInv, Reported, SlaveMin, SlaveMax, TypeOK, StatusTypeOK, Late
<1>5. Held'
  BY DEF ExitInv, Held, statusVars, exitVars, ReportNext, Report, SetOnlineStatus,
         StatusText, ToReport, LastSlave, Online, SlaveMin, SlaveMax
<1>6. WereReported'
  BY <1>b, <1>c DEF ExitInv, TypeOK, StatusTypeOK, WereReported, Held, ExitPc
<1>7. ReadCleared'
  BY DEF ExitInv, ReadCleared, AtExit, Final, ExitPc, configVars, exitVars, topicVars,
         ReportNext, Report, SetOnlineStatus, StatusText, ToReport, LastSlave, Online,
         SlaveMin, SlaveMax
<1>8. LocalCleared'
  BY DEF ExitInv, LocalCleared, AtExit, Late, configVars, exitVars, topicVars,
         storeVars, ReportNext, Report, SetOnlineStatus, StatusText, ToReport,
         LastSlave, Online, SlaveMin, SlaveMax
<1>9. Subscribing'
  BY DEF ExitInv, Subscribing, Passed, Early, statusVars, exitVars, storeVars,
         ReportNext, Report, SetOnlineStatus, StatusText, ToReport, LastSlave, Online,
         SlaveMin, SlaveMax
<1> QED
  BY <1>1, <1>2, <1>3, <1>4, <1>5, <1>6, <1>7, <1>8, <1>9 DEF ExitInv

(* A loop that finds no slave on-line leaves none.                         *)
LEMMA AllReportedStep ==
  ASSUME ExitInv, AllReported
  PROVE  ExitInv'
<1> USE ShutdownAssumption
<1>1. TypeOK'
  BY DEF ExitInv, TypeOK, StatusTypeOK, Status, EndPc, ExitPc, statusVars, configVars,
         exitVars, topicVars, storeVars, AllReported, ToReport, LastSlave, Online,
         SlaveMin, SlaveMax
<1>2. StatusTold'
  BY DEF ExitInv, StatusTold, TypeOK, StatusTypeOK, statusVars, AllReported, ToReport,
         LastSlave, Online, SlaveMin, SlaveMax
<1>3. Phases'
  BY DEF ExitInv, Phases, AtExit, EndPc, Late, TypeOK, configVars, exitVars, storeVars,
         AllReported, ToReport, LastSlave, Online, SlaveMin, SlaveMax
<1>4. Reported'
  BY DEF ExitInv, Reported, Late, TypeOK, StatusTypeOK, statusVars, exitVars,
         AllReported, ToReport, LastSlave, Online, SlaveMin, SlaveMax
<1>5. Held'
  BY DEF ExitInv, Held, statusVars, exitVars, AllReported, ToReport, LastSlave, Online,
         SlaveMin, SlaveMax
<1>6. WereReported'
  BY DEF ExitInv, WereReported, ExitPc, TypeOK, StatusTypeOK, statusVars, exitVars,
         AllReported, ToReport, LastSlave, Online, SlaveMin, SlaveMax
<1>7. ReadCleared'
  BY DEF ExitInv, ReadCleared, AtExit, Final, ExitPc, configVars, exitVars, topicVars,
         Phases, TypeOK, ReadTag, AllReported, ToReport, LastSlave, Online, SlaveMin,
         SlaveMax
<1>8. LocalCleared'
  BY DEF ExitInv, LocalCleared, AtExit, Late, configVars, exitVars, topicVars,
         storeVars, AllReported, ToReport, LastSlave, Online, SlaveMin, SlaveMax
<1>9. Subscribing'
  BY DEF ExitInv, Subscribing, Passed, Early, statusVars, exitVars, storeVars,
         AllReported, ToReport, LastSlave, Online, SlaveMin, SlaveMax
<1> QED
  BY <1>1, <1>2, <1>3, <1>4, <1>5, <1>6, <1>7, <1>8, <1>9 DEF ExitInv

(* The noread value is what the clearing that follows finds.               *)
LEMMA PublishNoreadStep ==
  ASSUME ExitInv, PublishNoread
  PROVE  ExitInv'
<1> USE ShutdownAssumption
<1>1. TypeOK'
  BY DEF ExitInv, TypeOK, StatusTypeOK, Status, EndPc, ExitPc, statusVars, configVars,
         exitVars, topicVars, storeVars, PublishNoread, Sent, ReadTag
<1>2. StatusTold'
  BY DEF ExitInv, StatusTold, TypeOK, StatusTypeOK, statusVars, PublishNoread, Sent,
         ReadTag
<1>3. Phases'
  BY DEF ExitInv, Phases, AtExit, EndPc, Late, TypeOK, configVars, exitVars, storeVars,
         PublishNoread, Sent, ReadTag
<1>4. Reported'
  BY DEF ExitInv, Reported, Late, TypeOK, StatusTypeOK, statusVars, exitVars,
         PublishNoread, Sent, ReadTag
<1>5. Held'
  BY DEF ExitInv, Held, statusVars, exitVars, PublishNoread, Sent, ReadTag
<1>6. WereReported'
  BY DEF ExitInv, WereReported, ExitPc, TypeOK, StatusTypeOK, statusVars, exitVars,
         PublishNoread, Sent, ReadTag
<1>7. ReadCleared'
  <2>1. tag \in ReadTag /\ tag' = tag /\ (held => connected)
    BY DEF ExitInv, TypeOK, Held, ReadTag, PublishNoread
  <2>2. readTopic' = IF noreadonexit THEN [readTopic EXCEPT ![tag] = Sent(@, "noread")]
                     ELSE readTopic
    BY DEF PublishNoread
  <2> QED
    BY <2>1, <2>2 DEF ExitInv, TypeOK, ReadCleared, AtExit, Final, ExitPc, PublishNoread, Sent,
                      ReadTag, configVars
<1>8. LocalCleared'
  BY DEF ExitInv, LocalCleared, AtExit, Late, configVars, exitVars, topicVars,
         storeVars, PublishNoread, Sent, ReadTag
<1>9. Subscribing'
  BY DEF ExitInv, Subscribing, Passed, Early, statusVars, exitVars, storeVars,
         PublishNoread, Sent, ReadTag
<1> QED
  BY <1>1, <1>2, <1>3, <1>4, <1>5, <1>6, <1>7, <1>8, <1>9 DEF ExitInv

(* The tag is as the configuration asks for, and it is the turn of the     *)
(* next.                                                                   *)
LEMMA ClearTagStep ==
  ASSUME ExitInv, ClearTag
  PROVE  ExitInv'
<1> USE ShutdownAssumption
<1>1. TypeOK'
  BY DEF ExitInv, TypeOK, StatusTypeOK, Status, EndPc, ExitPc, statusVars, configVars,
         exitVars, topicVars, storeVars, Phases, ClearTag, Sent, ReadTag
<1>2. StatusTold'
  BY DEF ExitInv, StatusTold, TypeOK, StatusTypeOK, statusVars, ClearTag, Sent, ReadTag
<1>3. Phases'
  BY DEF ExitInv, Phases, AtExit, EndPc, Late, TypeOK, configVars, exitVars, storeVars,
         ClearTag, Sent, ReadTag
<1>4. Reported'
  BY DEF ExitInv, Reported, Late, TypeOK, StatusTypeOK, statusVars, exitVars, ClearTag,
         Sent, ReadTag
<1>5. Held'
  BY DEF ExitInv, Held, statusVars, exitVars, ClearTag, Sent, ReadTag
<1>6. WereReported'
  BY DEF ExitInv, WereReported, ExitPc, TypeOK, StatusTypeOK, statusVars, exitVars,
         ClearTag, Sent, ReadTag
<1>7. ReadCleared'
  <2>1. tag \in ReadTag /\ tag' = tag + 1 /\ (held => connected) /\ held' = held
    BY DEF ExitInv, TypeOK, Phases, Held, ReadTag, ClearTag
  <2>2. readTopic' = IF clearonexit THEN [readTopic EXCEPT ![tag] = Sent(@, "none")]
                     ELSE readTopic
    BY DEF ClearTag
  <2>3. SUFFICES ASSUME held, AtExit, NEW k \in ReadTag, k < tag + 1
                 PROVE  readTopic'[k] = Final
    BY <2>1 DEF ReadCleared, AtExit, Final, ClearTag, configVars
  <2>4. CASE k = tag
    BY <2>1, <2>2, <2>3, <2>4 DEF ExitInv, TypeOK, ReadCleared, AtExit, Final, ExitPc, ClearTag, Sent
  <2>5. CASE k < tag
    BY <2>1, <2>2, <2>3, <2>5 DEF ExitInv, TypeOK, ReadCleared, AtExit, Final, ExitPc, ClearTag, Sent
  <2> QED
    BY <2>1, <2>3, <2>4, <2>5 DEF ReadTag
<1>8. LocalCleared'
  BY DEF ExitInv, LocalCleared, AtExit, Late, configVars, exitVars, topicVars,
         storeVars, ClearTag, Sent, ReadTag
<1>9. Subscribing'
  BY DEF ExitInv, Subscribing, Passed, Early, statusVars, exitVars, storeVars, ClearTag,
         Sent, ReadTag
<1> QED
  BY <1>1, <1>2, <1>3, <1>4, <1>5, <1>6, <1>7, <1>8, <1>9 DEF ExitInv

(* No read tag is left.                                                    *)
LEMMA BeginLocalStep ==
  ASSUME ExitInv, BeginLocal
  PROVE  ExitInv'
<1> USE ShutdownAssumption
<1>1. TypeOK'
  BY DEF ExitInv, TypeOK, StatusTypeOK, Status, EndPc, ExitPc, statusVars, configVars,
         exitVars, topicVars, storeVars, BeginLocal, Thread, IterPc
<1>2. StatusTold'
  BY DEF ExitInv, StatusTold, TypeOK, StatusTypeOK, statusVars, BeginLocal, Thread,
         IterPc
<1>3. Phases'
  BY DEF ExitInv, Phases, AtExit, EndPc, Late, TypeOK, configVars, exitVars, storeVars,
         BeginLocal, Thread, IterPc
<1>4. Reported'
  BY DEF ExitInv, Reported, Late, TypeOK, StatusTypeOK, statusVars, exitVars,
         BeginLocal, Thread, IterPc
<1>5. Held'
  BY DEF ExitInv, Held, statusVars, exitVars, BeginLocal, Thread, IterPc
<1>6. WereReported'
  BY DEF ExitInv, WereReported, ExitPc, TypeOK, StatusTypeOK, statusVars, exitVars,
         BeginLocal, Thread, IterPc
<1>7. ReadCleared'
  BY DEF ExitInv, ReadCleared, AtExit, Final, ExitPc, configVars, exitVars, topicVars,
         BeginLocal, Thread, IterPc
<1>8. LocalCleared'
  BY DEF ExitInv, LocalCleared, AtExit, Late, configVars, exitVars, topicVars,
         storeVars, TypeOK, BeginLocal, Thread, IterPc
<1>9. Subscribing'
  BY DEF ExitInv, Subscribing, Passed, Early, statusVars, exitVars, storeVars,
         BeginLocal, Thread, IterPc
<1> QED
  BY <1>1, <1>2, <1>3, <1>4, <1>5, <1>6, <1>7, <1>8, <1>9 DEF ExitInv

(* An unbroken connection is there to be closed.                           *)
LEMMA DisconnectStep ==
  ASSUME ExitInv, Disconnect
  PROVE  ExitInv'
<1> USE ShutdownAssumption
<1>1. TypeOK'
  BY DEF ExitInv, TypeOK, StatusTypeOK, Status, EndPc, ExitPc, statusVars, configVars,
         exitVars, topicVars, storeVars, Disconnect
<1>2. StatusTold'
  BY DEF ExitInv, StatusTold, TypeOK, StatusTypeOK, statusVars, Disconnect
<1>3. Phases'
  BY DEF ExitInv, Phases, AtExit, EndPc, Late, TypeOK, configVars, exitVars, storeVars,
         Disconnect
<1>4. Reported'
  BY DEF ExitInv, Reported, Late, TypeOK, StatusTypeOK, statusVars, exitVars, Disconnect
<1>5. Held'
  BY DEF ExitInv, Held, statusVars, exitVars, Disconnect
<1>6. WereReported'
  BY DEF ExitInv, WereReported, ExitPc, TypeOK, StatusTypeOK, statusVars, exitVars,
         Disconnect
<1>7. ReadCleared'
  BY DEF ExitInv, ReadCleared, AtExit, Final, ExitPc, configVars, exitVars, topicVars,
         Disconnect
<1>8. LocalCleared'
  BY DEF ExitInv, LocalCleared, AtExit, Late, configVars, exitVars, topicVars,
         storeVars, Disconnect
<1>9. Subscribing'
  BY DEF ExitInv, Subscribing, Passed, Early, statusVars, exitVars, storeVars,
         Disconnect
<1> QED
  BY <1>1, <1>2, <1>3, <1>4, <1>5, <1>6, <1>7, <1>8, <1>9 DEF ExitInv

LEMMA StopStep ==
  ASSUME ExitInv, Stop
  PROVE  ExitInv'
<1> USE ShutdownAssumption
<1>1. TypeOK'
  BY DEF ExitInv, TypeOK, StatusTypeOK, Status, EndPc, ExitPc, statusVars, configVars,
         exitVars, topicVars, storeVars, Stop
<1>2. StatusTold'
  BY DEF ExitInv, StatusTold, TypeOK, StatusTypeOK, statusVars, Stop
<1>3. Phases'
  BY DEF ExitInv, Phases, AtExit, EndPc, Late, TypeOK, configVars, exitVars, storeVars,
         Stop
<1>4. Reported'
  BY DEF ExitInv, Reported, Late, TypeOK, StatusTypeOK, statusVars, exitVars, Stop
<1>5. Held'
  BY DEF ExitInv, Held, statusVars, exitVars, Stop
<1>6. WereReported'
  BY DEF ExitInv, WereReported, ExitPc, TypeOK, StatusTypeOK, statusVars, exitVars, Stop
<1>7. ReadCleared'
  BY DEF ExitInv, ReadCleared, AtExit, Final, ExitPc, configVars, exitVars, topicVars,
         Stop
<1>8. LocalCleared'
  BY DEF ExitInv, LocalCleared, AtExit, Late, configVars, exitVars, topicVars,
         storeVars, Stop
<1>9. Subscribing'
  BY DEF ExitInv, Subscribing, Passed, Early, statusVars, exitVars, storeVars, Stop
<1> QED
  BY <1>1, <1>2, <1>3, <1>4, <1>5, <1>6, <1>7, <1>8, <1>9 DEF ExitInv

-----------------------------------------------------------------------------
(* The iterations *)

(* The first tag the main thread finds is the only one it may have to      *)
(* clear, whatever has become of the iterator since.                       *)
LEMMA MainStep ==
  ASSUME ExitInv, Iterate("main")
  PROVE  ExitInv'
<1> USE ShutdownAssumption
<1>a. pc = "local"
  BY DEF ExitInv, Phases, Iterate, FirstTag, TestIndex, LoadIndex, NextTag
<1>b. /\ pc' \in {"local", "disconnect"}
      /\ UNCHANGED <<mbSlaveOnline, slaveTopic, connected, clearonexit, noreadonexit, slave,
                     tag, wasOnline, readTopic, subscribed, links, runs, missed, held>>
  BY <1>a DEF Iterate, FirstTag, TestIndex, LoadIndex, NextTag, GoOn, Done, Visit, statusVars,
              configVars
<1>c. localTopic' \in {localTopic, Sent(localTopic, "none")}
  BY DEF Iterate, FirstTag, TestIndex, LoadIndex, NextTag, GoOn, Done, Visit
<1>d. iter["main"].at = "first" /\ Local # {} => localTopic' = Sent(localTopic, "none")
  BY DEF Iterate, FirstTag, TestIndex, LoadIndex, NextTag, GoOn, Visit, Clears
<1>e. iter' = [iter EXCEPT !["main"] = iter'["main"]]
  BY DEF ExitInv, TypeOK, Iterate, FirstTag, TestIndex, LoadIndex, NextTag, GoOn, Done, Idle, Thread
<1>1. TypeOK'
  BY DEF ExitInv, TypeOK, StatusTypeOK, Status, EndPc, ExitPc, statusVars, configVars,
         exitVars, topicVars, storeVars, Iterate, FirstTag, TestIndex, LoadIndex,
         NextTag, GoOn, Done, Visit, Clears, Sent, Idle, Thread, IterPc, Stored
<1>2. StatusTold'
  BY DEF ExitInv, StatusTold, TypeOK, StatusTypeOK, statusVars, Iterate, FirstTag,
         TestIndex, LoadIndex, NextTag, GoOn, Done, Visit, Clears, Sent, Idle, Thread,
         IterPc, Stored
<1>3. Phases'
  BY DEF ExitInv, Phases, AtExit, EndPc, Late, TypeOK, configVars, exitVars, storeVars,
         Iterate, FirstTag, TestIndex, LoadIndex, NextTag, GoOn, Done, Visit, Clears,
         Sent, Idle, Thread, IterPc, Stored
<1>4. Reported'
  BY <1>a, <1>b DEF ExitInv, Reported, Late
<1>5. Held'
  BY <1>a, <1>b DEF ExitInv, Held
<1>6. WereReported'
  BY <1>a, <1>b DEF ExitInv, WereReported, ExitPc
<1>7. ReadCleared'
  BY <1>a, <1>b DEF ExitInv, ReadCleared, AtExit, Final, ExitPc
<1>8. LocalCleared'
  BY <1>a, <1>b, <1>c, <1>d DEF ExitInv, LocalCleared, Held, AtExit, Late, Sent
<1>9. Subscribing'
  BY <1>a, <1>b DEF Subscribing, Early
<1> QED
  BY <1>1, <1>2, <1>3, <1>4, <1>5, <1>6, <1>7, <1>8, <1>9 DEF ExitInv

(* What the mosquitto thread has passed is subscribed, as long as the      *)
(* iterator is its own.                                                    *)
LEMMA MosqStep ==
  ASSUME ExitInv, Iterate("mosq")
  PROVE  ExitInv'
<1> USE ShutdownAssumption
<1>a. /\ UNCHANGED <<mbSlaveOnline, slaveTopic, connected, clearonexit, noreadonexit, pc, slave,
                     tag, wasOnline, readTopic, localTopic, links, runs, missed, held>>
      /\ iter'["main"] = iter["main"]
  BY DEF ExitInv, TypeOK, Thread, Iterate, FirstTag, TestIndex, LoadIndex, NextTag, GoOn, Done,
         Visit, statusVars, configVars
<1>1. TypeOK'
  BY DEF ExitInv, TypeOK, StatusTypeOK, Status, EndPc, ExitPc, statusVars, configVars,
         exitVars, topicVars, storeVars, Iterate, FirstTag, TestIndex, LoadIndex,
         NextTag, GoOn, Done, Visit, Idle, Thread, IterPc, Stored
<1>2. StatusTold'
  BY DEF ExitInv, StatusTold, TypeOK, StatusTypeOK, statusVars, Iterate, FirstTag,
         TestIndex, LoadIndex, NextTag, GoOn, Done, Visit, Idle, Thread, IterPc, Stored
<1>3. Phases'
  BY DEF ExitInv, Phases, AtExit, EndPc, Late, TypeOK, configVars, exitVars, storeVars,
         Iterate, FirstTag, TestIndex, LoadIndex, NextTag, GoOn, Done, Visit, Idle,
         Thread, IterPc, Stored
<1>4. Reported'
  BY DEF ExitInv, Reported, Late, TypeOK, StatusTypeOK, statusVars, exitVars, Iterate,
         FirstTag, TestIndex, LoadIndex, NextTag, GoOn, Done, Visit, Idle, Thread,
         IterPc, Stored
<1>5. Held'
  BY DEF ExitInv, Held, statusVars, exitVars, Iterate, FirstTag, TestIndex, LoadIndex,
         NextTag, GoOn, Done, Visit, Idle, Thread, IterPc, Stored
<1>6. WereReported'
  BY DEF ExitInv, WereReported, ExitPc, TypeOK, StatusTypeOK, statusVars, exitVars,
         Iterate, FirstTag, TestIndex, LoadIndex, NextTag, GoOn, Done, Visit, Idle,
         Thread, IterPc, Stored
<1>7. ReadCleared'
  BY DEF ExitInv, ReadCleared, AtExit, Final, ExitPc, configVars, exitVars, topicVars,
         Iterate, FirstTag, TestIndex, LoadIndex, NextTag, GoOn, Done, Visit, Idle,
         Thread, IterPc, Stored
<1>8. LocalCleared'
  BY <1>a DEF ExitInv, LocalCleared, AtExit, Late
<1>9. Subscribing'
  <2> SUFFICES ASSUME pc \in Early, connected
               PROVE  /\ iter'["mosq"].at = "idle" => Passed(TagCount)'
                      /\ iter'["mosq"].at \in {"test", "load"} =>
                           iterateIndex' >= 0 /\ Passed(iterateIndex + 1)'
                      /\ iter'["mosq"].at = "store" => Passed(iter["mosq"].index)'
    BY <1>a DEF Subscribing
  <2>1. CASE FirstTag("mosq")
    BY <2>1 DEF ExitInv, TypeOK, Thread, FirstTag, GoOn, Done, Visit, Idle, Passed, Stored
  <2>2. CASE TestIndex("mosq")
    BY <2>2 DEF ExitInv, TypeOK, Thread, TestIndex, Done, Subscribing, Passed, Stored
  <2>3. CASE LoadIndex("mosq")
    BY <2>3 DEF ExitInv, TypeOK, Thread, LoadIndex, Subscribing, Passed, Stored
  <2>4. CASE NextTag("mosq")
    BY <2>4 DEF ExitInv, TypeOK, Thread, NextTag, GoOn, Done, Visit, Idle, Subscribing, Passed, Stored
  <2> QED
    BY <2>1, <2>2, <2>3, <2>4 DEF Iterate
<1> QED
  BY <1>1, <1>2, <1>3, <1>4, <1>5, <1>6, <1>7, <1>8, <1>9 DEF ExitInv

-----------------------------------------------------------------------------
(* The connection and the process *)

(* A new connection begins with the first tag.                             *)
LEMMA LinkUpStep ==
  ASSUME ExitInv, LinkUp
  PROVE  ExitInv'
<1> USE ShutdownAssumption
<1>1. TypeOK'
  BY DEF ExitInv, TypeOK, StatusTypeOK, Status, EndPc, ExitPc, statusVars, configVars,
         exitVars, topicVars, storeVars, LinkUp, Subscribes, Thread, IterPc
<1>2. StatusTold'
  BY DEF ExitInv, StatusTold, TypeOK, StatusTypeOK, statusVars, LinkUp, Subscribes,
         Thread, IterPc
<1>3. Phases'
  BY DEF ExitInv, Phases, AtExit, EndPc, Late, TypeOK, configVars, exitVars, storeVars,
         LinkUp, Subscribes, Thread, IterPc
<1>4. Reported'
  BY DEF ExitInv, Reported, Late, TypeOK, StatusTypeOK, statusVars, exitVars, LinkUp,
         Subscribes, Thread, IterPc
<1>5. Held'
  BY DEF ExitInv, Held, statusVars, exitVars, LinkUp, Subscribes, Thread, IterPc
<1>6. WereReported'
  BY DEF ExitInv, WereReported, ExitPc, TypeOK, StatusTypeOK, statusVars, exitVars,
         LinkUp, Subscribes, Thread, IterPc
<1>7. ReadCleared'
  BY DEF ExitInv, ReadCleared, AtExit, Final, ExitPc, configVars, exitVars, topicVars,
         LinkUp, Subscribes, Thread, IterPc
<1>8. LocalCleared'
  BY DEF ExitInv, LocalCleared, AtExit, Late, configVars, exitVars, topicVars,
         storeVars, LinkUp, Subscribes, Thread, IterPc
<1>9. Subscribing'
  BY DEF ExitInv, Subscribing, Passed, Early, statusVars, exitVars, storeVars, TypeOK,
         LinkUp, Subscribes, Thread, IterPc
<1> QED
  BY <1>1, <1>2, <1>3, <1>4, <1>5, <1>6, <1>7, <1>8, <1>9 DEF ExitInv

LEMMA LinkDownStep ==
  ASSUME ExitInv, LinkDown
  PROVE  ExitInv'
<1> USE ShutdownAssumption
<1>1. TypeOK'
  BY DEF ExitInv, TypeOK, StatusTypeOK, Status, EndPc, ExitPc, statusVars, configVars,
         exitVars, topicVars, storeVars, LinkDown, Stored
<1>2. StatusTold'
  BY DEF ExitInv, StatusTold, TypeOK, StatusTypeOK, statusVars, LinkDown, Stored
<1>3. Phases'
  BY DEF ExitInv, Phases, AtExit, EndPc, Late, TypeOK, configVars, exitVars, storeVars,
         LinkDown, Stored
<1>4. Reported'
  BY DEF ExitInv, Reported, Late, TypeOK, StatusTypeOK, statusVars, exitVars, LinkDown,
         Stored
<1>5. Held'
  BY DEF ExitInv, Held, statusVars, exitVars, LinkDown, Stored
<1>6. WereReported'
  BY DEF ExitInv, WereReported, ExitPc, TypeOK, StatusTypeOK, statusVars, exitVars,
         LinkDown, Stored
<1>7. ReadCleared'
  BY DEF ExitInv, ReadCleared, AtExit, Final, ExitPc, configVars, exitVars, topicVars,
         LinkDown, Stored
<1>8. LocalCleared'
  BY DEF ExitInv, LocalCleared, AtExit, Late, configVars, exitVars, topicVars,
         storeVars, LinkDown, Stored
<1>9. Subscribing'
  BY DEF ExitInv, Subscribing, Passed, Early, statusVars, exitVars, storeVars, LinkDown,
         Stored
<1> QED
  BY <1>1, <1>2, <1>3, <1>4, <1>5, <1>6, <1>7, <1>8, <1>9 DEF ExitInv

LEMMA CrashStep ==
  ASSUME ExitInv, Crash
  PROVE  ExitInv'
<1> USE ShutdownAssumption
<1>1. TypeOK'
  BY DEF ExitInv, TypeOK, StatusTypeOK, Status, EndPc, ExitPc, statusVars, configVars,
         exitVars, topicVars, storeVars, Crash, Online
<1>2. StatusTold'
  BY DEF ExitInv, StatusTold, TypeOK, StatusTypeOK, statusVars, Crash, Online
<1>3. Phases'
  BY DEF ExitInv, Phases, AtExit, EndPc, Late, TypeOK, configVars, exitVars, storeVars,
         Crash, Online
<1>4. Reported'
  BY DEF ExitInv, Reported, Late, TypeOK, StatusTypeOK, statusVars, exitVars, Crash,
         Online
<1>5. Held'
  BY DEF ExitInv, Held, statusVars, exitVars, Crash, Online
<1>6. WereReported'
  BY DEF ExitInv, WereReported, ExitPc, TypeOK, StatusTypeOK, statusVars, exitVars,
         Crash, Online
<1>7. ReadCleared'
  BY DEF ExitInv, ReadCleared, AtExit, Final, ExitPc, configVars, exitVars, topicVars,
         Crash, Online
<1>8. LocalCleared'
  BY DEF ExitInv, LocalCleared, AtExit, Late, configVars, exitVars, topicVars,
         storeVars, Crash, Online
<1>9. Subscribing'
  BY DEF ExitInv, Subscribing, Passed, Early, statusVars, exitVars, storeVars, Crash,
         Online
<1> QED
  BY <1>1, <1>2, <1>3, <1>4, <1>5, <1>6, <1>7, <1>8, <1>9 DEF ExitInv

(* Every slave starts off-line, which the broker was told or else is known *)
(* to have missed.                                                         *)
LEMMA RestartStep ==
  ASSUME ExitInv, Restart
  PROVE  ExitInv'
<1> USE ShutdownAssumption
<1>1. TypeOK'
  <2>1. iter' \in [Thread -> [at : IterPc, index : 0 .. TagCount]] /\ iterateIndex' = -1
    BY DEF Restart, Started, Idle, IterPc
  <2>2. mbSlaveOnline' \in [Slave -> BOOLEAN] /\ connected' = FALSE /\ held' = FALSE
    BY DEF Restart, Started
  <2>3. pc' = "run" /\ slave' \in 0 .. SlaveMax + 1 /\ tag' \in 1 .. ReadCount + 1 /\ wasOnline' = {}
    BY DEF Restart, Started, SlaveMax
  <2>4. runs' \in 1 .. MaxRuns + 1 /\ subscribed' \subseteq Stored
    BY DEF Restart, ExitInv, TypeOK
  <2> QED
    BY <2>1, <2>2, <2>3, <2>4 DEF Restart, ExitInv, TypeOK, StatusTypeOK, configVars, topicVars
<1>2. StatusTold'
  BY DEF ExitInv, StatusTold, TypeOK, StatusTypeOK, statusVars, Reported, EndPc, Late,
         Restart, Started, Idle, Thread, IterPc, Stored, SlaveMin, SlaveMax
<1>3. Phases'
  BY DEF ExitInv, Phases, AtExit, EndPc, Late, TypeOK, configVars, exitVars, storeVars,
         Restart, Started, Idle, Thread, IterPc, Stored, SlaveMin, SlaveMax
<1>4. Reported'
  BY DEF ExitInv, Reported, Late, TypeOK, StatusTypeOK, statusVars, exitVars, Restart,
         Started, Idle, Thread, IterPc, Stored, SlaveMin, SlaveMax
<1>5. Held'
  BY DEF ExitInv, Held, statusVars, exitVars, Restart, Started, Idle, Thread, IterPc,
         Stored, SlaveMin, SlaveMax
<1>6. WereReported'
  BY DEF ExitInv, WereReported, ExitPc, TypeOK, StatusTypeOK, statusVars, exitVars,
         Restart, Started, Idle, Thread, IterPc, Stored, SlaveMin, SlaveMax
<1>7. ReadCleared'
  BY DEF ExitInv, ReadCleared, AtExit, Final, ExitPc, configVars, exitVars, topicVars,
         Restart, Started, Idle, Thread, IterPc, Stored, SlaveMin, SlaveMax
<1>8. LocalCleared'
  BY DEF ExitInv, LocalCleared, AtExit, Late, configVars, exitVars, topicVars,
         storeVars, Restart, Started, Idle, Thread, IterPc, Stored, SlaveMin, SlaveMax
<1>9. Subscribing'
  BY DEF ExitInv, Subscribing, Passed, Early, statusVars, exitVars, storeVars, Restart,
         Started, Idle, Thread, IterPc, Stored, SlaveMin, SlaveMax
<1> QED
  BY <1>1, <1>2, <1>3, <1>4, <1>5, <1>6, <1>7, <1>8, <1>9 DEF ExitInv

-----------------------------------------------------------------------------
(* The theorems *)

LEMMA ExitInit == Init => ExitInv
<1> SUFFICES ASSUME Init PROVE ExitInv
  OBVIOUS
<1> USE ShutdownAssumption
<1>1. TypeOK
  <2>1. iter \in [Thread -> [at : IterPc, index : 0 .. TagCount]] /\ iterateIndex = -1
    BY DEF Init, Idle, IterPc
  <2>2. StatusTypeOK
    BY DEF Init, StatusInit, StatusTypeOK, Status
  <2>3. /\ slave \in 0 .. SlaveMax + 1 /\ tag \in 1 .. ReadCount + 1
        /\ links \in 0 .. MaxLinks /\ runs \in 1 .. MaxRuns + 1
    BY DEF Init, SlaveMax
  <2>4. connected \in BOOLEAN /\ clearonexit \in BOOLEAN /\ noreadonexit \in BOOLEAN /\ held \in BOOLEAN
    BY DEF Init
  <2>5. readTopic \in [ReadTag -> {"none", "value", "noread"}] /\ localTopic \in {"none", "value"}
    BY DEF Init
  <2> QED
    BY <2>1, <2>2, <2>3, <2>4, <2>5 DEF Init, TypeOK
<1>2. StatusTold /\ Reported /\ Held /\ WereReported
  BY DEF Init, StatusInit, StatusTold, Reported, Held, WereReported, ExitPc, Late
<1>3. Phases /\ ReadCleared /\ LocalCleared
  BY DEF Init, Phases, ReadCleared, LocalCleared, EndPc, ExitPc, Late, Idle, Thread
<1>4. Subscribing
  BY DEF Init, Subscribing
<1> QED
  BY <1>1, <1>2, <1>3, <1>4 DEF ExitInv

LEMMA ExitNext == ExitInv /\ [Next]_vars => ExitInv'
<1> SUFFICES ASSUME ExitInv, [Next]_vars PROVE ExitInv'
  OBVIOUS
<1>1. CASE Next
  BY <1>1, TransactionStep, PublishReadStep, PublishCpuStep, BeginExitStep, ReportNextStep,
     AllReportedStep, PublishNoreadStep, ClearTagStep, BeginLocalStep, DisconnectStep, StopStep,
     MainStep, MosqStep, LinkUpStep, LinkDownStep, CrashStep, RestartStep
     DEF Next, ExitStep
<1>2. CASE UNCHANGED vars
  BY <1>2 DEF vars, statusVars, configVars, exitVars, topicVars, storeVars, ExitInv, TypeOK,
     StatusTypeOK, StatusTold, Phases, Reported, Held, WereReported, ReadCleared, LocalCleared,
     Subscribing, Passed, AtExit, Final
<1> QED
  BY <1>1, <1>2

LEMMA ExitInvariant == Spec => []ExitInv
<1>1. Init => ExitInv
  BY ExitInit
<1>2. ExitInv /\ [Next]_vars => ExitInv'
  BY ExitNext
<1> QED
  BY <1>1, <1>2, PTL DEF Spec

(* Every variable has its type. *)
THEOREM Typing == Spec => []TypeOK
<1>1. ExitInv => TypeOK
  BY DEF ExitInv
<1> QED
  BY <1>1, ExitInvariant, PTL

(* A status topic is wrong only about a slave whose last change the broker *)
(* was not told of, over any number of connections, crashes and starts.    *)
THEOREM StatusIsTold == Spec => []StatusTold
<1>1. ExitInv => StatusTold
  BY DEF ExitInv
<1> QED
  BY <1>1, ExitInvariant, PTL

(* After an exit over an unbroken connection no slave that was on-line is  *)
(* left so.                                                                *)
THEOREM ExitReportsOffline == Spec => []OfflineAfterExit
<1>1. ExitInv => OfflineAfterExit
  <2> SUFFICES ASSUME ExitInv, pc = "stopped", held, NEW s \in wasOnline
               PROVE  slaveTopic[s] = "offline"
    BY DEF OfflineAfterExit
  <2>1. ~mbSlaveOnline[s]
    BY DEF ExitInv, TypeOK, Reported, Late
  <2> QED
    BY <2>1 DEF ExitInv, WereReported
<1> QED
  BY <1>1, ExitInvariant, PTL

(* And the topics of the tags are cleared, or have the noread value, as    *)
(* the configuration asks for, although two threads may share the iterator *)
(* of the store.                                                           *)
THEOREM ExitClearsTopics == Spec => []ExitTopics
<1>1. ExitInv => ExitTopics
  BY ShutdownAssumption
     DEF ExitInv, TypeOK, ExitTopics, Phases, ReadCleared, LocalCleared, AtExit, Final, Late, ReadTag
<1> QED
  BY <1>1, ExitInvariant, PTL

(* Until then every connection ends up with all its subscriptions. *)
THEOREM ConnectionsSubscribe == Spec => []AllSubscribed
<1>1. ExitInv => AllSubscribed
  BY ShutdownAssumption
     DEF ExitInv, TypeOK, AllSubscribed, Subscribing, Passed, Early, Stored
<1> QED
  BY <1>1, ExitInvariant, PTL

-----------------------------------------------------------------------------
(* The way to the end *)

(* What is left, by place: both threads' part in the places of the store.  *)
Left(t) == StepsAt("main", t) + StepsAt("mosq", t)

LEMMA LeftAt ==
  /\ ExitLeft[-4] = MaxLinks - links
  /\ ExitLeft[-3] = ExitPhase
  /\ ExitLeft[-2] = Busy("main") + Busy("mosq")
  /\ \A t \in -1 .. TagCount : ExitLeft[t] = Left(t)
<1> USE ShutdownAssumption
<1>1. ExitLeft[-4] = MaxLinks - links
  BY DEF ExitLeft
<1>2. ExitLeft[-3] = ExitPhase
  BY DEF ExitLeft
<1>3. ExitLeft[-2] = Busy("main") + Busy("mosq")
  BY DEF ExitLeft
<1>4. \A t \in -1 .. TagCount : ExitLeft[t] = Left(t)
  BY DEF ExitLeft, Left
<1> QED
  BY <1>1, <1>2, <1>3, <1>4

LEMMA LeftAtNext ==
  /\ ExitLeft'[-4] = MaxLinks - links'
  /\ ExitLeft'[-3] = ExitPhase'
  /\ ExitLeft'[-2] = Busy("main")' + Busy("mosq")'
  /\ \A t \in -1 .. TagCount : ExitLeft'[t] = Left(t)'
<1> USE ShutdownAssumption
<1>1. ExitLeft'[-4] = MaxLinks - links'
  BY DEF ExitLeft
<1>2. ExitLeft'[-3] = ExitPhase'
  BY DEF ExitLeft
<1>3. ExitLeft'[-2] = Busy("main")' + Busy("mosq")'
  BY DEF ExitLeft
<1>4. \A t \in -1 .. TagCount : ExitLeft'[t] = Left(t)'
  BY DEF ExitLeft, Left
<1> QED
  BY <1>1, <1>2, <1>3, <1>4

(* The first of the counts that differs decides.                           *)
LEMMA LinkCounts ==
  ASSUME links' \in Nat, links \in Nat, links' = links + 1, links' <= MaxLinks
  PROVE  LessLeft
<1> USE ShutdownAssumption
<1>1. ExitLeft'[-4] \in 0 .. ExitLeft[-4] - 1
  BY LeftAt, LeftAtNext
<1>2. \A j \in -4 .. -4 - 1 : ExitLeft'[j] = ExitLeft[j]
  OBVIOUS
<1>3. -4 \in -4 .. TagCount
  OBVIOUS
<1> QED
  BY <1>1, <1>2, <1>3 DEF LessLeft

LEMMA PhaseCounts ==
  ASSUME links' = links, ExitPhase' \in 0 .. ExitPhase - 1
  PROVE  LessLeft
<1> USE ShutdownAssumption
<1>1. ExitLeft'[-3] \in 0 .. ExitLeft[-3] - 1
  BY LeftAt, LeftAtNext
<1>2. \A j \in -4 .. -3 - 1 : ExitLeft'[j] = ExitLeft[j]
  <2>1. \A j \in -4 .. -3 - 1 : j = -4
    OBVIOUS
  <2>2. ExitLeft'[-4] = ExitLeft[-4]
    BY LeftAt, LeftAtNext
  <2> QED
    BY <2>1, <2>2
<1>3. -3 \in -4 .. TagCount
  OBVIOUS
<1> QED
  BY <1>1, <1>2, <1>3 DEF LessLeft

LEMMA BusyCounts ==
  ASSUME links' = links, ExitPhase' = ExitPhase,
         Busy("main")' + Busy("mosq")' < Busy("main") + Busy("mosq")
  PROVE  LessLeft
<1> USE ShutdownAssumption
<1>1. ExitLeft'[-2] \in 0 .. ExitLeft[-2] - 1
  BY LeftAt, LeftAtNext DEF Busy
<1>2. \A j \in -4 .. -2 - 1 : ExitLeft'[j] = ExitLeft[j]
  <2>1. \A j \in -4 .. -2 - 1 : j = -4 \/ j = -3
    OBVIOUS
  <2>2. ExitLeft'[-4] = ExitLeft[-4] /\ ExitLeft'[-3] = ExitLeft[-3]
    BY LeftAt, LeftAtNext
  <2> QED
    BY <2>1, <2>2
<1>3. -2 \in -4 .. TagCount
  OBVIOUS
<1> QED
  BY <1>1, <1>2, <1>3 DEF LessLeft

LEMMA PlaceCounts ==
  ASSUME links' = links, ExitPhase' = ExitPhase,
         Busy("main")' = Busy("main"), Busy("mosq")' = Busy("mosq"),
         NEW k \in -1 .. TagCount, Left(k)' < Left(k),
         \A t \in -1 .. TagCount : t < k => Left(t)' = Left(t)
  PROVE  LessLeft
<1> USE ShutdownAssumption
<1>1. ExitLeft'[k] \in 0 .. ExitLeft[k] - 1
  <2>1. Left(k)' \in Nat /\ Left(k) \in Nat
    BY DEF Left, StepsAt
  <2> QED
    BY <2>1, LeftAt, LeftAtNext
<1>2. \A j \in -4 .. k - 1 : ExitLeft'[j] = ExitLeft[j]
  <2> SUFFICES ASSUME NEW j \in -4 .. k - 1 PROVE ExitLeft'[j] = ExitLeft[j]
    OBVIOUS
  <2>1. j = -4 \/ j = -3 \/ j = -2 \/ (j \in -1 .. TagCount /\ j < k)
    OBVIOUS
  <2>2. ExitLeft'[-4] = ExitLeft[-4] /\ ExitLeft'[-3] = ExitLeft[-3] /\ ExitLeft'[-2] = ExitLeft[-2]
    BY LeftAt, LeftAtNext
  <2>3. ASSUME j \in -1 .. TagCount, j < k PROVE ExitLeft'[j] = ExitLeft[j]
    BY <2>3, LeftAt, LeftAtNext
  <2> QED
    BY <2>1, <2>2, <2>3
<1>3. k \in -4 .. TagCount
  OBVIOUS
<1> QED
  BY <1>1, <1>2, <1>3 DEF LessLeft

(* The exit's own steps, and a crash.                                      *)
LEMMA PhaseAdvances ==
  ASSUME ExitInv, pc \in ExitPc,
         \/ ReportNext \/ AllReported \/ PublishNoread \/ ClearTag \/ BeginLocal
         \/ Disconnect \/ Stop \/ Crash
  PROVE  LessLeft
<1> USE ShutdownAssumption
<1>1. /\ slave \in 0 .. SlaveMax + 1 /\ tag \in 1 .. ReadCount + 1
      /\ pc = "clear" => tag <= ReadCount
      /\ pc = "report" => tag = 1
  BY DEF ExitInv, TypeOK, Phases
<1>2. CASE ReportNext
  <2>1. links' = links /\ pc = "report" /\ pc' = "report"
    BY <1>2 DEF ReportNext
  <2>2. slave' > slave /\ slave' <= SlaveMax + 1 /\ slave' \in Nat
    BY <1>1, <1>2 DEF ReportNext, ToReport, LastSlave, Online, SlaveMax, SlaveMin
  <2>3. ExitPhase' \in 0 .. ExitPhase - 1
    BY <1>1, <2>1, <2>2 DEF ExitPhase, SlaveMax
  <2> QED
    BY <2>1, <2>3, PhaseCounts
<1>3. CASE AllReported
  <2>1. links' = links /\ pc = "report" /\ pc' \in {"noread", "disconnect"} /\ tag' = tag
    BY <1>3 DEF AllReported
  <2>2. ExitPhase' \in 0 .. ExitPhase - 1
    BY <1>1, <2>1 DEF ExitPhase, SlaveMax
  <2> QED
    BY <2>1, <2>2, PhaseCounts
<1>4. CASE PublishNoread
  <2>1. links' = links /\ pc = "noread" /\ pc' = "clear" /\ tag' = tag
    BY <1>4 DEF PublishNoread
  <2>2. ExitPhase' \in 0 .. ExitPhase - 1
    BY <1>1, <2>1 DEF ExitPhase
  <2> QED
    BY <2>1, <2>2, PhaseCounts
<1>5. CASE ClearTag
  <2>1. links' = links /\ pc = "clear" /\ pc' = "noread" /\ tag' = tag + 1
    BY <1>5 DEF ClearTag
  <2>2. ExitPhase' \in 0 .. ExitPhase - 1
    BY <1>1, <2>1 DEF ExitPhase
  <2> QED
    BY <2>1, <2>2, PhaseCounts
<1>6. CASE BeginLocal
  <2>1. links' = links /\ pc = "noread" /\ pc' = "local"
    BY <1>6 DEF BeginLocal
  <2>2. ExitPhase' \in 0 .. ExitPhase - 1
    BY <1>1, <2>1 DEF ExitPhase
  <2> QED
    BY <2>1, <2>2, PhaseCounts
<1>7. CASE Disconnect \/ Stop
  <2>1. /\ links' = links
        /\ \/ pc = "disconnect" /\ pc' \in {"closing", "wait"}
           \/ pc \in {"closing", "wait"} /\ pc' = "stopped"
    BY <1>7 DEF Disconnect, Stop
  <2>2. ExitPhase' \in 0 .. ExitPhase - 1
    BY <2>1 DEF ExitPhase
  <2> QED
    BY <2>1, <2>2, PhaseCounts
<1>8. CASE Crash
  <2>1. links' = links /\ pc' = "crashed"
    BY <1>8 DEF Crash
  <2>2. ExitPhase \in Nat /\ ExitPhase > 0
    BY <1>1 DEF ExitPhase, ExitPc, SlaveMax
  <2>3. ExitPhase' = 0
    BY <2>1 DEF ExitPhase
  <2> QED
    BY <2>1, <2>2, <2>3, PhaseCounts
<1> QED
  BY <1>2, <1>3, <1>4, <1>5, <1>6, <1>7, <1>8

(* An iteration that ends.                                                 *)
LEMMA DoneAdvances ==
  ASSUME ExitInv, pc \in ExitPc, NEW th \in Thread, Iterate(th), Done(th),
         iter[th].at # "idle"
  PROVE  LessLeft
<1>1. UNCHANGED <<slave, tag, links>>
  BY DEF Iterate
<1>2. CASE th = "main"
  <2>1. pc = "local" /\ pc' = "disconnect"
    BY <1>2 DEF ExitInv, Phases, ExitPc, EndPc, Done
  <2>2. ExitPhase' \in 0 .. ExitPhase - 1
    BY <2>1 DEF ExitPhase
  <2> QED
    BY <1>1, <2>2, PhaseCounts
<1>3. CASE th = "mosq"
  <2>1. pc' = pc
    BY <1>3 DEF Done
  <2>2. ExitPhase' = ExitPhase
    BY <1>1, <2>1 DEF ExitPhase
  <2>3. iter'["mosq"].at = "idle" /\ iter'["main"] = iter["main"]
    BY <1>3 DEF ExitInv, TypeOK, Thread, Done, Idle
  <2>4. Busy("main")' + Busy("mosq")' < Busy("main") + Busy("mosq")
    BY <1>3, <2>3 DEF Busy
  <2> QED
    BY <1>1, <2>2, <2>4, BusyCounts
<1> QED
  BY <1>2, <1>3 DEF Thread

(* An iteration that goes on: what is left for the two threads.            *)
LEMMA IterationCounts ==
  ASSUME ExitInv, NEW th \in Thread, NEW o \in Thread \ {th}, Iterate(th),
         pc' = pc, iter[th].at # "idle", iter'[th].at # "idle", iter'[o] = iter[o],
         NEW k \in -1 .. TagCount,
         StepsAt(th, k)' + StepsAt(o, k)' < StepsAt(th, k) + StepsAt(o, k),
         \A t \in -1 .. TagCount : t < k =>
           StepsAt(th, t)' = StepsAt(th, t) /\ StepsAt(o, t)' = StepsAt(o, t)
  PROVE  LessLeft
<1>1. UNCHANGED <<slave, tag, links>>
  BY DEF Iterate
<1>2. ExitPhase' = ExitPhase
  BY <1>1 DEF ExitPhase
<1>3. (th = "main" /\ o = "mosq") \/ (th = "mosq" /\ o = "main")
  BY DEF Thread
<1>4. Busy("main")' = Busy("main") /\ Busy("mosq")' = Busy("mosq")
  BY <1>3 DEF Busy
<1>5. \A a, b, t : StepsAt(a, t) \in Nat /\ StepsAt(b, t)' \in Nat
  BY DEF StepsAt
<1>6. Left(k)' < Left(k)
  BY <1>3, <1>5 DEF Left
<1>7. \A t \in -1 .. TagCount : t < k => Left(t)' = Left(t)
  BY <1>3 DEF Left
<1> QED
  BY <1>1, <1>2, <1>4, <1>6, <1>7, PlaceCounts

(* A thread that sets the index to h, lower than what it was, goes on      *)
(* below the place the other one was at.                                   *)
LEMMA GoOnAdvances ==
  ASSUME ExitInv, pc \in ExitPc, NEW th \in Thread, Iterate(th), NEW h \in 0 .. TagCount - 1,
         GoOn(th, h),
         \/ iter[th].at = "first" /\ h = 0
         \/ iter[th].at = "store" /\ iter[th].index = h
  PROVE  LessLeft
<1> USE ShutdownAssumption
<1>1. PICK o \in Thread : o # th
  BY DEF Thread
<1>2. /\ iter'[th].at = "test" /\ iter'[o] = iter[o] /\ iterateIndex' = h /\ pc' = pc
      /\ iterateIndex \in -1 .. TagCount - 1
  BY <1>1 DEF ExitInv, TypeOK, GoOn, Stored
<1>3. \A t \in -1 .. TagCount : /\ StepsAt(th, t) = IF t = h THEN 5 ELSE 0
                                /\ StepsAt(th, t)' = IF t = h THEN 2 ELSE 0
  BY <1>2 DEF StepsAt
<1>4. ASSUME iter[o].at \notin {"test", "load"}
      PROVE  \A t \in -1 .. TagCount : StepsAt(o, t)' = StepsAt(o, t)
  BY <1>2, <1>4 DEF StepsAt
<1>5. ASSUME iter[o].at \in {"test", "load"}
      PROVE  \A t \in -1 .. TagCount :
               /\ t = iterateIndex => StepsAt(o, t) \in 1 .. 2
               /\ t # iterateIndex => StepsAt(o, t) = 0
               /\ t = h => StepsAt(o, t)' \in 1 .. 2
               /\ t # h => StepsAt(o, t)' = 0
               /\ StepsAt(o, h)' \in 1 .. 2
  BY <1>2, <1>5 DEF StepsAt
<1>6. \A t : StepsAt(o, t) \in Nat
  BY DEF StepsAt
<1>7. h \in -1 .. TagCount /\ iterateIndex \in -1 .. TagCount
  BY <1>2
<1>8. CASE iter[o].at \in {"test", "load"} /\ iterateIndex < h
  <2>1. PICK i \in -1 .. TagCount : i = iterateIndex
    BY <1>7
  <2>2. StepsAt(th, i)' + StepsAt(o, i)' < StepsAt(th, i) + StepsAt(o, i)
    BY <1>3, <1>5, <1>7, <1>8, <2>1
  <2>3. \A t \in -1 .. TagCount : t < i =>
          StepsAt(th, t)' = StepsAt(th, t) /\ StepsAt(o, t)' = StepsAt(o, t)
    BY <1>3, <1>5, <1>7, <1>8, <2>1
  <2> QED
    BY <1>1, <1>2, <2>2, <2>3, IterationCounts
<1>9. CASE ~(iter[o].at \in {"test", "load"} /\ iterateIndex < h)
  <2>1. StepsAt(th, h)' + StepsAt(o, h)' < StepsAt(th, h) + StepsAt(o, h)
    BY <1>3, <1>4, <1>5, <1>6, <1>7, <1>9
  <2>2. \A t \in -1 .. TagCount : t < h =>
          StepsAt(th, t)' = StepsAt(th, t) /\ StepsAt(o, t)' = StepsAt(o, t)
    BY <1>2, <1>3, <1>4, <1>5, <1>7, <1>9
  <2> QED
    BY <1>1, <1>2, <1>7, <2>1, <2>2, IterationCounts
<1> QED
  BY <1>8, <1>9

(* A thread that looks at the index, or loads it, leaves it alone.         *)
LEMMA LookAdvances ==
  ASSUME ExitInv, pc \in ExitPc, NEW th \in Thread, Iterate(th),
         iterateIndex' = iterateIndex, pc' = pc,
         \/ /\ iter[th].at = "test" /\ iter' = [iter EXCEPT ![th].at = "load"]
         \/ /\ iter[th].at = "load"
            /\ iter' = [iter EXCEPT ![th] = [at |-> "store", index |-> iterateIndex + 1]]
  PROVE  LessLeft
<1> USE ShutdownAssumption
<1>1. PICK o \in Thread : o # th
  BY DEF Thread
<1>2. /\ iter'[o] = iter[o] /\ iterateIndex \in -1 .. TagCount
      /\ \/ iter[th].at = "test" /\ iter'[th].at = "load"
         \/ iter[th].at = "load" /\ iter'[th].at = "store" /\ iter'[th].index = iterateIndex + 1
  BY <1>1 DEF ExitInv, TypeOK, Stored
<1>3. \A t \in -1 .. TagCount : StepsAt(o, t)' = StepsAt(o, t) /\ StepsAt(o, t) \in Nat
  BY <1>2 DEF StepsAt
<1>4. PICK i \in -1 .. TagCount : i = iterateIndex
  BY <1>2
<1>5. StepsAt(th, i)' + StepsAt(o, i)' < StepsAt(th, i) + StepsAt(o, i)
  <2>1. CASE iter[th].at = "test"
    BY <1>2, <1>3, <1>4, <2>1 DEF StepsAt
  <2>2. CASE iter[th].at = "load"
    BY <1>2, <1>3, <1>4, <2>2 DEF StepsAt
  <2> QED
    BY <1>2, <2>1, <2>2
<1>6. \A t \in -1 .. TagCount : t < i =>
        StepsAt(th, t)' = StepsAt(th, t) /\ StepsAt(o, t)' = StepsAt(o, t)
  BY <1>2, <1>3, <1>4 DEF StepsAt
<1> QED
  BY <1>1, <1>2, <1>5, <1>6, IterationCounts

LEMMA IterateAdvances ==
  ASSUME ExitInv, pc \in ExitPc, NEW th \in Thread, Iterate(th)
  PROVE  LessLeft
<1> USE ShutdownAssumption
<1>1. CASE FirstTag(th)
  <2>1. CASE TagCount > 0
    BY <1>1, <2>1, GoOnAdvances DEF FirstTag
  <2>2. CASE ~(TagCount > 0)
    BY <1>1, <2>2, DoneAdvances DEF FirstTag
  <2> QED
    BY <2>1, <2>2
<1>2. CASE TestIndex(th)
  <2>1. CASE iterateIndex < 0
    BY <1>2, <2>1, DoneAdvances DEF TestIndex
  <2>2. CASE ~(iterateIndex < 0)
    BY <1>2, <2>2, LookAdvances DEF TestIndex
  <2> QED
    BY <2>1, <2>2
<1>3. CASE LoadIndex(th)
  BY <1>3, LookAdvances DEF LoadIndex
<1>4. CASE NextTag(th)
  <2>1. iter[th].index \in 0 .. TagCount
    BY DEF ExitInv, TypeOK
  <2>2. CASE iter[th].index < TagCount
    <3>1. iter[th].index \in 0 .. TagCount - 1
      BY <2>1, <2>2
    <3> QED
      BY <1>4, <2>2, <3>1, GoOnAdvances DEF NextTag
  <2>3. CASE ~(iter[th].index < TagCount)
    BY <1>4, <2>3, DoneAdvances DEF NextTag
  <2> QED
    BY <2>2, <2>3
<1> QED
  BY <1>1, <1>2, <1>3, <1>4 DEF Iterate

(* Every step taken once the exit has begun brings it nearer its end, for  *)
(* any number of tags: exit_loop cannot be kept from ending by the other   *)
(* thread's use of the iterator (mbbridge.cpp:1375-1420 and 725-767,       *)
(* datatag.cpp:288-311).                                                   *)
THEOREM ExitsAdvance == Spec => ExitNearsEnd
<1>1. ASSUME ExitInv, [Next]_vars
      PROVE  [(pc \in ExitPc) => UNCHANGED <<pc, slave, tag, iter, links>> \/ LessLeft]_vars
  <2> SUFFICES ASSUME pc \in ExitPc PROVE UNCHANGED <<pc, slave, tag, iter, links>> \/ LessLeft
    OBVIOUS
  <2>1. CASE \/ ReportNext \/ AllReported \/ PublishNoread \/ ClearTag \/ BeginLocal
             \/ Disconnect \/ Stop \/ Crash
    BY <1>1, <2>1, PhaseAdvances
  <2>2. CASE Iterate("main") \/ Iterate("mosq")
    BY <1>1, <2>2, IterateAdvances DEF Thread
  <2>3. CASE LinkUp
    <3>1. links \in 0 .. MaxLinks /\ links' = links + 1 /\ links < MaxLinks
      BY <1>1, <2>3 DEF ExitInv, TypeOK, LinkUp
    <3> QED
      BY <3>1, LinkCounts, ShutdownAssumption
  <2>4. CASE LinkDown \/ UNCHANGED vars
    BY <2>4 DEF LinkDown, vars, exitVars, storeVars
  <2>5. CASE \/ \E s \in Slave, online \in BOOLEAN : Transaction(s, online)
             \/ \E k \in ReadTag, content \in {"none", "value", "noread"} : PublishRead(k, content)
             \/ PublishCpu \/ BeginExit \/ Restart
    BY <2>5 DEF Transaction, PublishRead, PublishCpu, BeginExit, Restart, ExitPc, EndPc
  <2> QED
    BY <1>1, <2>1, <2>2, <2>3, <2>4, <2>5 DEF Next, ExitStep
<1> QED
  BY <1>1, ExitInvariant, PTL DEF Spec, ExitNearsEnd
=============================================================================
