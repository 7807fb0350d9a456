---------------------------- MODULE MqttService -----------------------------
(***************************************************************************)
(* services/mqtt_client_service.cpp: the flag its handler keeps, over the  *)
(* client of ESP-IDF, which opens its session, and opens it again after a  *)
(* loss, by itself.  The handler runs in the client's own task: the        *)
(* session does not change again until the handler has returned.           *)
(***************************************************************************)
EXTENDS Naturals

VARIABLES
  mqtt_connected,
  session,  \* the client's: off until it is started, then down or up
  notice    \* the event the client's task is about to hand to the handler

mqttVars == <<mqtt_connected, session, notice>>

MqttInit ==
  /\ mqtt_connected = FALSE
  /\ session = "off"
  /\ notice = "none"

(* mqtt_service_init: the client is started, connection or none. *)
StartClient ==
  /\ session = "off"
  /\ session' = "down"
  /\ UNCHANGED <<mqtt_connected, notice>>

-----------------------------------------------------------------------------
(* The client *)

OpenSession ==
  /\ session = "down" /\ notice = "none"
  /\ session' = "up"
  /\ notice' = "MQTT_EVENT_CONNECTED"
  /\ UNCHANGED mqtt_connected

(* The broker or the network ends the session, and the client has seen it. *)
LoseSession ==
  /\ session = "up" /\ notice = "none"
  /\ session' = "down"
  /\ notice' = "MQTT_EVENT_DISCONNECTED"
  /\ UNCHANGED mqtt_connected

-----------------------------------------------------------------------------
(* mqtt_event_handler *)

Connected ==
  /\ notice = "MQTT_EVENT_CONNECTED"
  /\ notice' = "none"
  /\ mqtt_connected' = TRUE
  /\ UNCHANGED session

(* Mutant: the case for a disconnection is missing. *)
DisconnectedUnheard ==
  /\ notice = "MQTT_EVENT_DISCONNECTED"
  /\ notice' = "none"
  /\ UNCHANGED <<mqtt_connected, session>>

Disconnected ==
  /\ notice = "MQTT_EVENT_DISCONNECTED"
  /\ notice' = "none"
  /\ mqtt_connected' = FALSE
  /\ UNCHANGED session

MqttHandler == Connected \/ Disconnected

-----------------------------------------------------------------------------
(* Every variable has its type. *)
MqttTypeOK ==
  /\ mqtt_connected \in BOOLEAN
  /\ session \in {"off", "down", "up"}
  /\ notice \in {"none", "MQTT_EVENT_CONNECTED", "MQTT_EVENT_DISCONNECTED"}
=============================================================================
