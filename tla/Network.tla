------------------------------ MODULE Network -------------------------------
(***************************************************************************)
(* The node's way to the broker: the main task starts the station, waits a *)
(* while, starts the MQTT client whatever came of it (core/runtime.cpp),   *)
(* and then publishes whenever the client's flag says it may.  The event   *)
(* task, the driver, the client's task and the main task interleave.       *)
(***************************************************************************)
EXTENDS WifiManager, MqttService

VARIABLE main  \* where the main task is

vars == <<wifiVars, mqttVars, main>>

Init ==
  /\ WifiInit
  /\ MqttInit
  /\ main = "wifi_init"

-----------------------------------------------------------------------------
(* The main task *)

ConnectFirst ==
  /\ main = "wifi_init"
  /\ main' = "waiting"
  /\ EspWifiConnect
  /\ UNCHANGED <<retry_count, connected, wifi_event_group, loop, dhcp, late, mqttVars>>

(* A bit is set, or the seven seconds are over.  The answer is printed and *)
(* changes nothing.                                                        *)
WaitEnds ==
  /\ main = "waiting"
  /\ main' = "mqtt_init"
  /\ UNCHANGED <<wifiVars, mqttVars>>

(* Mutant: the client is started for a node that is online only. *)
MqttServiceInitIfOnline ==
  /\ main = "mqtt_init"
  /\ main' = "loop"
  /\ IF "CONNECTED" \in wifi_event_group THEN StartClient ELSE UNCHANGED mqttVars
  /\ UNCHANGED wifiVars

MqttServiceInit ==
  /\ main = "mqtt_init"
  /\ main' = "loop"
  /\ StartClient
  /\ UNCHANGED wifiVars

(* A publish call finds the flag set ... *)
TestFlag ==
  /\ main = "loop"
  /\ mqtt_connected
  /\ main' = "publishing"
  /\ UNCHANGED <<wifiVars, mqttVars>>

(* ... and hands its message to the client, whatever has become of the     *)
(* session meanwhile; the client sends it or keeps it in its outbox.       *)
HandOver ==
  /\ main = "publishing"
  /\ main' = "loop"
  /\ UNCHANGED <<wifiVars, mqttVars>>

(* A publish call that finds the flag clear returns at once. *)
SkipPublish ==
  /\ main = "loop"
  /\ ~mqtt_connected
  /\ UNCHANGED vars

MainStep ==
  ConnectFirst \/ WaitEnds \/ MqttServiceInit \/ TestFlag \/ HandOver \/ SkipPublish

-----------------------------------------------------------------------------
DriverStep == Driver /\ UNCHANGED <<mqttVars, main>>
EventTask == EventHandler /\ UNCHANGED <<mqttVars, main>>
Opens == link = "up" /\ OpenSession /\ UNCHANGED <<wifiVars, main>>
Loses == LoseSession /\ UNCHANGED <<wifiVars, main>>
ClientTask == MqttHandler /\ UNCHANGED <<wifiVars, main>>

Next == MainStep \/ DriverStep \/ EventTask \/ Opens \/ Loses \/ ClientTask

Spec == Init /\ [][Next]_vars

(* The tasks run; every attempt to associate ends; the client opens a      *)
(* session when it keeps being able to, and notices in the end, by its     *)
(* keep-alive, that the link has gone.                                     *)
Fairness ==
  /\ WF_vars(MainStep)
  /\ WF_vars(EventTask)
  /\ WF_vars(ClientTask)
  /\ WF_vars(link = "trying" /\ DriverStep)
  /\ WF_vars(Opens)
  /\ WF_vars(link # "up" /\ Loses)

FairSpec == Spec /\ Fairness

-----------------------------------------------------------------------------
(* Every variable has its type. *)
TypeOK ==
  /\ WifiTypeOK
  /\ MqttTypeOK
  /\ main \in {"wifi_init", "waiting", "mqtt_init", "loop", "publishing"}

(* wifi_manager_is_connected: with no event on its way the flag is the     *)
(* link's, whatever drops, retries and leases came in whatever order,      *)
(* unless the last address came for an association that had ended by then. *)
FlagTellsLink ==
  loop = <<>> /\ ~late =>
    /\ link = "up" => connected
    /\ connected => link \in {"associated", "up"}

(* README.md:15 "bounded retry": between two addresses the node never asks *)
(* for more associations than its first and MAX_RETRIES more.              *)
AttemptsAreBounded == attempts <= MAX_RETRIES + 1

(* WIFI_FAIL_BIT, which nothing clears, is set only when nothing is under  *)
(* way any more: it means that the station is idle, and stays so.          *)
FailMeansOffline ==
  "FAIL" \in wifi_event_group =>
    link = "idle" /\ \A i \in 1 .. Len(loop) : loop[i] # "STA_DISCONNECTED"

-----------------------------------------------------------------------------
(* The parts of the inductive invariant behind them.                       *)

Pending(e) == \E i \in 1 .. Len(loop) : loop[i] = e

(* A disconnection leaves the station idle until it has been handled, so   *)
(* there is never a second one behind it.                                  *)
OneDisconnect ==
  /\ Pending("STA_DISCONNECTED") => link = "idle"
  /\ \A i, j \in 1 .. Len(loop) :
       loop[i] = "STA_DISCONNECTED" /\ loop[j] = "STA_DISCONNECTED" => i = j

NotStarted ==
  main = "wifi_init" =>
    /\ link = "idle" /\ ~dhcp /\ loop = <<>> /\ wifi_event_group = {}
    /\ attempts = 0 /\ retry_count = 0 /\ ~connected

(* What is not late was posted last for the link as it is. *)
LastEventTells ==
  loop # <<>> /\ ~late =>
    IF loop[Len(loop)] = "STA_DISCONNECTED" THEN link = "idle" ELSE link \in {"associated", "up"}

(* An address not yet handled will reset retry_count, and one attempt at   *)
(* most has come after it.                                                 *)
AttemptsAreCounted ==
  /\ ~Pending("STA_GOT_IP") => attempts <= retry_count + 1
  /\ Pending("STA_GOT_IP") => attempts <= 1
  /\ \A i, j \in 1 .. Len(loop) :
       i < j /\ loop[i] = "STA_DISCONNECTED" /\ loop[j] = "STA_GOT_IP" => attempts = 0

(* A station that is idle, and has nothing left to handle that would end   *)
(* an attempt, has said that it gave up, unless the driver refused a call: *)
(* no order of drops, late addresses and retries leaves it idle unsaid.    *)
IdleIsReported ==
  main # "wifi_init" /\ link = "idle" /\ ~Pending("STA_DISCONNECTED") =>
    refused \/ "FAIL" \in wifi_event_group

(* mqtt_client_service.cpp:22, 27: between two calls of the handler the    *)
(* flag the publish calls test is the client's session.                    *)
FlagTellsSession ==
  /\ notice = "none" => (mqtt_connected <=> session = "up")
  /\ notice = "MQTT_EVENT_CONNECTED" => session = "up"
  /\ notice = "MQTT_EVENT_DISCONNECTED" => session = "down"

NetworkInv ==
  /\ TypeOK
  /\ OneDisconnect
  /\ NotStarted
  /\ FailMeansOffline
  /\ FlagTellsLink
  /\ LastEventTells
  /\ AttemptsAreCounted
  /\ IdleIsReported
  /\ FlagTellsSession

-----------------------------------------------------------------------------
(* If DHCP does not leave an association without an answer for ever, a     *)
(* node that is not connected connects, or gives up and says so, unless    *)
(* the driver refused a call.                                              *)
Settles ==
  []<>(link # "associated") =>
    (~connected ~> connected \/ "FAIL" \in wifi_event_group \/ refused)

(* A node that has given up falls silent: from some moment on no message   *)
(* is handed to the client, however late the flag fell.                    *)
GivenUpFallsSilent ==
  ("FAIL" \in wifi_event_group) ~> [](main # "publishing")

(* ... and once it is silent no step of any of the four tasks makes it     *)
(* speak again: no session can be opened and no late event of the station  *)
(* or of the client raises the flag.                                       *)
Silent ==
  /\ "FAIL" \in wifi_event_group
  /\ ~mqtt_connected
  /\ notice = "none"
  /\ main # "publishing"

SilenceIsFinal == [][Silent => Silent']_vars

(* A link that comes up after wifi_manager_init has stopped waiting is     *)
(* used all the same: while it lasts, telemetry keeps coming back.         *)
LateLinkIsUsed == <>[](link = "up") => []<>mqtt_connected
=============================================================================
