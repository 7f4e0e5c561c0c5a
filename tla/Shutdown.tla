------------------------------ MODULE Shutdown ------------------------------
(***************************************************************************)
(* What the broker is left with: the end of the program (exit_loop, with   *)
(* mqtt_clear_tags), the status topics over crashes and restarts, and the  *)
(* one iterator of the tag store, through which the mosquitto thread       *)
(* subscribes the tags while the main thread may be clearing them.         *)
(*                                                                         *)
(* A topic is what was last sent under it; an empty message clears it.     *)
(* Reading and publishing while the program runs is the subject of         *)
(* ReadCycle, and only its effects on the topics are here.                 *)
(***************************************************************************)
EXTENDS SlaveStatus

CONSTANTS
  ReadCount,    \* how many read tags the update cycles have
  TagCount,     \* how many tags there are in the tag store
  Local,        \* the places of those that are published: the CPU's or none
  MaxLinks,     \* bound: connections made
  MaxRuns       \* bound: starts of the program

ASSUME ShutdownAssumption ==
  /\ Slave \subseteq SlaveMin .. SlaveMax
  /\ ReadCount \in Nat /\ TagCount \in Nat /\ MaxLinks \in Nat /\ MaxRuns \in Nat
  /\ Local \subseteq {0} /\ (Local # {} => TagCount > 0)

VARIABLES
  clearonexit, noreadonexit,    \* of the configuration file
  pc,               \* where the main thread is
  slave, tag,       \* how far exit_loop has come with the slaves and read tags
  readTopic,        \* readTopic[k]: the topic of the k-th read tag
  localTopic,       \* the topic of the CPU's temperature
  iterateIndex,     \* TagStore::_iterateIndex
  iter,             \* iter[th]: where thread th is in its iteration of the store
  subscribed,       \* the tags the broker has a subscription for (external)
  links, runs,      \* connections and starts so far
  (* History, never read by the code: *)
  missed,           \* the slaves of whose last change the broker was not told
  wasOnline,        \* the slaves on-line when the program began to end
  held              \* the connection has not broken since

statusVars == <<mbSlaveOnline, slaveTopic, connected>>
configVars == <<clearonexit, noreadonexit>>
exitVars   == <<pc, slave, tag, wasOnline>>
topicVars  == <<readTopic, localTopic>>
storeVars  == <<iterateIndex, iter, subscribed>>
vars == <<statusVars, configVars, exitVars, topicVars, storeVars, links, runs, missed, held>>

Thread == {"main", "mosq"}
Stored == 0 .. TagCount - 1
ReadTag == 1 .. ReadCount

EndPc  == {"stopped", "crashed"}
ExitPc == {"report", "noread", "clear", "local", "disconnect", "closing", "wait"}
IterPc == {"idle", "first", "test", "load", "store"}

Idle == [at |-> "idle", index |-> 0]

TypeOK ==
  /\ StatusTypeOK /\ connected \in BOOLEAN
  /\ clearonexit \in BOOLEAN /\ noreadonexit \in BOOLEAN
  /\ pc \in {"run"} \cup ExitPc \cup EndPc
  /\ slave \in 0 .. SlaveMax + 1 /\ tag \in 1 .. ReadCount + 1
  /\ readTopic \in [ReadTag -> {"none", "value", "noread"}]
  /\ localTopic \in {"none", "value"}
  /\ iterateIndex \in Stored \cup {-1}
  /\ iter \in [Thread -> [at : IterPc, index : 0 .. TagCount]]
  /\ subscribed \subseteq Stored
  /\ links \in 0 .. MaxLinks /\ runs \in 1 .. MaxRuns + 1
  /\ missed \subseteq Slave /\ wasOnline \subseteq Slave /\ held \in BOOLEAN

Online == {s \in Slave : mbSlaveOnline[s]}

(* What the process starts with. *)
Started ==
  /\ pc' = "run" /\ slave' = 0 /\ tag' = 1
  /\ iterateIndex' = -1 /\ iter' = [th \in Thread |-> Idle]
  /\ connected' = FALSE /\ mbSlaveOnline' = [s \in Slave |-> FALSE]
  /\ wasOnline' = {} /\ held' = FALSE

Init ==
  /\ StatusInit /\ connected = FALSE
  /\ clearonexit \in BOOLEAN /\ noreadonexit \in BOOLEAN
  /\ pc = "run" /\ slave = 0 /\ tag = 1
  /\ readTopic = [k \in ReadTag |-> "none"] /\ localTopic = "none"
  /\ iterateIndex = -1 /\ iter = [th \in Thread |-> Idle] /\ subscribed = {}
  /\ links = 0 /\ runs = 1
  /\ missed = {} /\ wasOnline = {} /\ held = FALSE

-----------------------------------------------------------------------------
(* While the program runs *)

(* mb_slave_set_online_status, and whether the broker is told. *)
Report(s, online) ==
  /\ SetOnlineStatus(s, online)
  /\ missed' = IF mbSlaveOnline[s] = online THEN missed
               ELSE IF connected THEN missed \ {s} ELSE missed \cup {s}

(* Any read or write on the modbus. *)
Transaction(s, online) ==
  /\ pc = "run"
  /\ Report(s, online)
  /\ UNCHANGED <<connected, configVars, exitVars, topicVars, storeVars, links, runs, held>>

(* MQTT::publish and MQTT::clear_retained_message. *)
Sent(topic, content) == IF connected THEN content ELSE topic

PublishRead(k, content) ==
  /\ pc = "run"
  /\ readTopic' = [readTopic EXCEPT ![k] = Sent(@, content)]
  /\ UNCHANGED <<statusVars, configVars, exitVars, localTopic, storeVars, links, runs,
                 missed, held>>

PublishCpu ==
  /\ pc = "run" /\ Local # {}
  /\ localTopic' = Sent(localTopic, "value")
  /\ UNCHANGED <<statusVars, configVars, exitVars, readTopic, storeVars, links, runs,
                 missed, held>>

(* exitSignal is seen at the top of main_loop. *)
BeginExit ==
  /\ pc = "run" /\ pc' = "report"
  /\ slave' = 0 /\ tag' = 1
  /\ wasOnline' = Online /\ held' = connected
  /\ UNCHANGED <<statusVars, configVars, topicVars, storeVars, links, runs, missed>>

-----------------------------------------------------------------------------
(* exit_loop *)

LastSlaveShort == SlaveMax - 1    \* faulty: i < MODBUS_SLAVE_MAX
LastSlave == SlaveMax             \* i <= MODBUS_SLAVE_MAX

ToReport == {s \in Online : slave <= s /\ s <= LastSlave}

ReportNext ==
  /\ pc = "report"
  /\ \E s \in ToReport :
       /\ \A u \in ToReport : s <= u
       /\ Report(s, FALSE)
       /\ slave' = s + 1
  /\ UNCHANGED <<connected, configVars, pc, tag, wasOnline, topicVars, storeVars, links, runs,
                 held>>

AllReported ==
  /\ pc = "report" /\ ToReport = {}
  /\ pc' = IF noreadonexit \/ clearonexit THEN "noread" ELSE "disconnect"
  /\ UNCHANGED <<statusVars, configVars, slave, tag, wasOnline, topicVars, storeVars, links,
                 runs, missed, held>>

(* mqtt_clear_tags, the tags of the update cycles. *)
PublishNoread ==
  /\ pc = "noread" /\ tag <= ReadCount
  /\ pc' = "clear"
  /\ readTopic' = IF noreadonexit THEN [readTopic EXCEPT ![tag] = Sent(@, "noread")]
                  ELSE readTopic
  /\ UNCHANGED <<statusVars, configVars, slave, tag, wasOnline, localTopic, storeVars, links,
                 runs, missed, held>>

ClearTag ==
  /\ pc = "clear"
  /\ pc' = "noread" /\ tag' = tag + 1
  /\ readTopic' = IF clearonexit THEN [readTopic EXCEPT ![tag] = Sent(@, "none")]
                  ELSE readTopic
  /\ UNCHANGED <<statusVars, configVars, slave, wasOnline, localTopic, storeVars, links, runs,
                 missed, held>>

(* ... and then the local tags, of the store. *)
BeginLocal ==
  /\ pc = "noread" /\ tag > ReadCount
  /\ pc' = "local"
  /\ iter' = [iter EXCEPT !["main"].at = "first"]
  /\ UNCHANGED <<statusVars, configVars, slave, tag, wasOnline, topicVars, iterateIndex,
                 subscribed, links, runs, missed, held>>

(* mqtt.disconnect() does nothing without a connection. *)
Disconnect ==
  /\ pc = "disconnect"
  /\ pc' = IF connected THEN "closing" ELSE "wait"
  /\ UNCHANGED <<statusVars, configVars, slave, tag, wasOnline, topicVars, storeVars, links,
                 runs, missed, held>>

(* Faulty: without a limit to the wait for the disconnection. *)
StopWhenClosed ==
  /\ pc \in {"closing", "wait"} /\ ~connected
  /\ pc' = "stopped"
  /\ UNCHANGED <<statusVars, configVars, slave, tag, wasOnline, topicVars, storeVars, links,
                 runs, missed, held>>

(* The wait for mqtt_connection_active ends, at the latest after 5 s. *)
Stop ==
  /\ pc \in {"closing", "wait"}
  /\ pc' = "stopped"
  /\ UNCHANGED <<statusVars, configVars, slave, tag, wasOnline, topicVars, storeVars, links,
                 runs, missed, held>>

-----------------------------------------------------------------------------
(* The iteration of the tag store: getFirstTag, then getNextTag until it   *)
(* returns NULL.  Each access to _iterateIndex is a step; what is done     *)
(* with a tag goes with the step that finds it.                            *)

ClearsSubscribed(t) == t \notin Local     \* faulty: isSubscribe for isPublish
Clears(t) == t \in Local

(* What the threads do with a tag: mqtt_clear_tags, mqtt_subscribe_tags. *)
Visit(th, t) ==
  IF th = "main"
  THEN /\ localTopic' = IF Clears(t) THEN Sent(localTopic, "none") ELSE localTopic
       /\ UNCHANGED subscribed
  ELSE /\ subscribed' = IF t \in Local THEN subscribed ELSE subscribed \cup {t}
       /\ UNCHANGED localTopic

(* The thread goes on with tag t, or is done with the store. *)
GoOn(th, t) ==
  /\ iterateIndex' = t
  /\ Visit(th, t)
  /\ iter' = [iter EXCEPT ![th].at = "test"]
  /\ UNCHANGED pc

Done(th) ==
  /\ iter' = [iter EXCEPT ![th] = Idle]
  /\ pc' = IF th = "main" THEN "disconnect" ELSE pc
  /\ UNCHANGED <<localTopic, subscribed>>

FirstTag(th) ==
  /\ iter[th].at = "first"
  /\ IF TagCount > 0 THEN GoOn(th, 0) ELSE Done(th) /\ UNCHANGED iterateIndex

TestIndex(th) ==
  /\ iter[th].at = "test"
  /\ IF iterateIndex < 0 THEN Done(th)
     ELSE iter' = [iter EXCEPT ![th].at = "load"] /\ UNCHANGED <<pc, localTopic, subscribed>>
  /\ UNCHANGED iterateIndex

LoadIndexPost(th) ==    \* faulty: _iterateIndex++ for ++_iterateIndex
  /\ iter[th].at = "load"
  /\ iter' = [iter EXCEPT ![th] = [at |-> "store", index |-> iterateIndex]]
  /\ UNCHANGED <<pc, localTopic, subscribed, iterateIndex>>

LoadIndex(th) ==
  /\ iter[th].at = "load"
  /\ iter' = [iter EXCEPT ![th] = [at |-> "store", index |-> iterateIndex + 1]]
  /\ UNCHANGED <<pc, localTopic, subscribed, iterateIndex>>

NextTagPast(th) ==      \* faulty: index <= MAX_TAG_NUM
  /\ iter[th].at = "store"
  /\ IF iter[th].index <= TagCount THEN GoOn(th, iter[th].index)
     ELSE Done(th) /\ iterateIndex' = -1

NextTag(th) ==
  /\ iter[th].at = "store"
  /\ IF iter[th].index < TagCount THEN GoOn(th, iter[th].index)
     ELSE Done(th) /\ iterateIndex' = -1

Iterate(th) ==
  /\ pc \notin EndPc
  /\ FirstTag(th) \/ TestIndex(th) \/ LoadIndex(th) \/ NextTag(th)
  /\ UNCHANGED <<statusVars, configVars, slave, tag, wasOnline, readTopic, links, runs,
                 missed, held>>

-----------------------------------------------------------------------------
(* The connection, and the process as a whole (both external) *)

(* Faulty: the tags are subscribed once, when the program starts. *)
SubscribesOnce == IF links = 0 THEN [iter EXCEPT !["mosq"].at = "first"] ELSE iter
Subscribes == [iter EXCEPT !["mosq"].at = "first"]

(* connect_callback, up to mqtt_subscribe_tags. *)
LinkUp ==
  /\ pc \notin {"closing"} \cup EndPc
  /\ ~connected /\ iter["mosq"].at = "idle"
  /\ links < MaxLinks
  /\ links' = links + 1
  /\ connected' = TRUE
  /\ iter' = Subscribes
  /\ UNCHANGED <<mbSlaveOnline, slaveTopic, configVars, exitVars, topicVars, iterateIndex,
                 subscribed, runs, missed, held>>

(* disconnect_callback.  The broker may keep the subscriptions, the        *)
(* session not being a clean one, or lose them.                            *)
LinkDown ==
  /\ pc \notin EndPc
  /\ connected /\ iter["mosq"].at = "idle"
  /\ connected' = FALSE
  /\ held' = (held /\ pc = "closing")
  /\ subscribed' \in {subscribed, {}}
  /\ UNCHANGED <<mbSlaveOnline, slaveTopic, configVars, exitVars, topicVars, iterateIndex, iter,
                 links, runs, missed>>

Crash ==
  /\ pc \notin EndPc
  /\ pc' = "crashed"
  /\ missed' = missed \cup Online
  /\ UNCHANGED <<statusVars, configVars, slave, tag, wasOnline, topicVars, storeVars, links,
                 runs, held>>

Restart ==
  /\ pc \in EndPc /\ runs < MaxRuns
  /\ runs' = runs + 1
  /\ Started
  /\ subscribed' \in {subscribed, {}}
  /\ UNCHANGED <<slaveTopic, configVars, topicVars, links, missed>>

ExitStep ==
  \/ ReportNext \/ AllReported \/ PublishNoread \/ ClearTag \/ BeginLocal
  \/ Iterate("main") \/ Disconnect \/ Stop

Next ==
  \/ \E s \in Slave, online \in BOOLEAN : Transaction(s, online)
  \/ \E k \in ReadTag, content \in {"none", "value", "noread"} : PublishRead(k, content)
  \/ PublishCpu \/ BeginExit \/ ExitStep
  \/ Iterate("mosq") \/ LinkUp \/ LinkDown
  \/ Crash \/ Restart

(* The main thread runs until it stops, the mosquitto thread through its   *)
(* callback.                                                               *)
Spec == Init /\ [][Next]_vars /\ WF_vars(ExitStep) /\ WF_vars(Iterate("mosq"))
-----------------------------------------------------------------------------
(* Properties *)

(* The status topic of a slave says what the program believes, unless the  *)
(* broker was not told of the last change: because it was away, or because *)
(* the program crashed and starts with every slave off-line again          *)
(* (mbbridge.cpp:776-793 and 1380-1386).                                   *)
StatusTold ==
  \A s \in Slave : s \notin missed => (slaveTopic[s] = "online") = mbSlaveOnline[s]

(* An exit over an unbroken connection leaves the topic of every slave     *)
(* that was on-line off-line (mbbridge.cpp:1380-1386).                     *)
OfflineAfterExit ==
  pc = "stopped" /\ held => \A s \in wasOnline : slaveTopic[s] = "offline"

(* ... and every read topic cleared, or with the noread value, whichever   *)
(* the configuration asks for; and the topics of the store cleared if that *)
(* is asked for, although the mosquitto thread may be using the iterator   *)
(* of the store at the same time (mbbridge.cpp:725-767, 1396-1407,         *)
(* datatag.cpp:288-311).  Of the store's topics with noreadonexit alone it *)
(* says nothing: the code clears them then too, whatever clear_retain is   *)
(* (:757-764), which is not what the configuration asks for.               *)
ExitTopics ==
  pc = "stopped" /\ held =>
    /\ clearonexit \/ noreadonexit =>
         \A k \in ReadTag : readTopic[k] = IF clearonexit THEN "none" ELSE "noread"
    /\ clearonexit => localTopic = "none"

(* Until the exit comes to the local tags, a connection whose callback has *)
(* ended has a subscription for every tag that is not published            *)
(* (mbbridge.cpp:624-635).                                                 *)
AllSubscribed ==
  pc \in {"run", "report", "noread", "clear"} /\ connected /\ iter["mosq"].at = "idle" =>
    Stored \ Local \subseteq subscribed

(* What is left of the exit, as counts to be compared in this order: how   *)
(* many connections may still be made, each of which begins an iteration;  *)
(* how far exit_loop has come; how many threads iterate; and for each      *)
(* place of the store what the threads still do at it.                     *)
ExitPhase ==
  CASE pc = "report"     -> 2 * ReadCount + 7 + (SlaveMax + 2 - slave)
    [] pc = "noread"     -> 2 * (ReadCount + 1 - tag) + 5
    [] pc = "clear"      -> 2 * (ReadCount + 1 - tag) + 4
    [] pc = "local"      -> 3
    [] pc = "disconnect" -> 2
    [] pc = "closing"    -> 1
    [] pc = "wait"       -> 1
    [] OTHER             -> 0

Busy(th) == IF iter[th].at = "idle" THEN 0 ELSE 1

StepsAt(th, t) ==
  CASE iter[th].at = "first" /\ t = 0              -> 5
    [] iter[th].at = "store" /\ iter[th].index = t -> 5
    [] iter[th].at = "test" /\ iterateIndex = t    -> 2
    [] iter[th].at = "load" /\ iterateIndex = t    -> 1
    [] OTHER                                       -> 0

ExitLeft ==
  [k \in -4 .. TagCount |->
     CASE k = -4 -> MaxLinks - links
       [] k = -3 -> ExitPhase
       [] k = -2 -> Busy("main") + Busy("mosq")
       [] OTHER  -> StepsAt("main", k) + StepsAt("mosq", k)]

LessLeft ==
  \E k \in -4 .. TagCount :
    /\ ExitLeft'[k] \in 0 .. ExitLeft[k] - 1
    /\ \A j \in -4 .. k - 1 : ExitLeft'[j] = ExitLeft[j]

(* The exit comes nearer its end with every step of its own and of the     *)
(* callback, although the threads can set each other's index back: the one *)
(* that does goes on at a place below those that are visited again         *)
(* (mbbridge.cpp:1375-1420 and 725-767, datatag.cpp:288-311).              *)
ExitNearsEnd ==
  [][(pc \in ExitPc) => UNCHANGED <<pc, slave, tag, iter, links>> \/ LessLeft]_vars

(* An exit that has begun comes to an end, although the iterator the main  *)
(* thread waits to see at its end may be set back by the other thread.     *)
ExitEnds == pc = "report" ~> pc \in EndPc
=============================================================================
