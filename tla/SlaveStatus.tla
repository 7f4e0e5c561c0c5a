----------------------------- MODULE SlaveStatus -----------------------------
(***************************************************************************)
(* The on-line/off-line status of the modbus slaves: the array             *)
(* mbSlaveOnline of mbbridge.cpp and the status topic of each slave at the *)
(* MQTT broker.  Every modbus transaction, read or write, ends in          *)
(* mb_slave_set_online_status; this module is that function, and the       *)
(* modules of the read and of the write path instantiate it.               *)
(***************************************************************************)
EXTENDS Integers

CONSTANT Slave      \* the slave ids in use, within SlaveMin .. SlaveMax

VARIABLES
  mbSlaveOnline,    \* mbSlaveOnline[s]: the bridge believes s answers
  slaveTopic,       \* slaveTopic[s]: the last status the broker was sent
  connected         \* MQTT::_connected

SlaveMin == 1       \* MODBUS_SLAVE_MIN
SlaveMax == 254     \* MODBUS_SLAVE_MAX

Status == {"none", "online", "offline"}

StatusText(online) == IF online THEN "online" ELSE "offline"

StatusTypeOK ==
  /\ mbSlaveOnline \in [Slave -> BOOLEAN]
  /\ slaveTopic \in [Slave -> Status]

(* All slaves start off-line, and nothing is published about it. *)
StatusInit ==
  /\ mbSlaveOnline = [s \in Slave |-> FALSE]
  /\ slaveTopic = [s \in Slave |-> "none"]

(* mb_slave_set_online_status(s, online) with forceReport = false: only a  *)
(* change is recorded and reported, and MQTT::publish drops the report     *)
(* while the broker is not connected.                                      *)
SetOnlineStatus(s, online) ==
  IF mbSlaveOnline[s] # online
  THEN /\ mbSlaveOnline' = [mbSlaveOnline EXCEPT ![s] = online]
       /\ slaveTopic' = IF connected
                        THEN [slaveTopic EXCEPT ![s] = StatusText(online)]
                        ELSE slaveTopic
  ELSE UNCHANGED <<mbSlaveOnline, slaveTopic>>

=============================================================================
