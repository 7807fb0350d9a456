---------------------------- MODULE WifiManager -----------------------------
(***************************************************************************)
(* services/wifi_manager.cpp: the handler the event task runs for each     *)
(* event of the station, over the driver that posts them.  The driver, the *)
(* DHCP client and the event loop belong to ESP-IDF and are modelled as    *)
(* the node uses them: the driver never reconnects by itself, and each end *)
(* of an association or an attempt posts one event.                        *)
(***************************************************************************)
EXTENDS Naturals, Sequences

CONSTANTS
  MAX_RETRIES,      \* reconnections tried before the node stays offline
  LOOP_QUEUE_SIZE   \* events the event loop holds for its task

ASSUME WifiAssumption ==
  /\ MAX_RETRIES \in Nat
  /\ LOOP_QUEUE_SIZE \in Nat \ {0}

VARIABLES
  retry_count,
  connected,
  wifi_event_group,  \* the bits set; none is ever cleared
  loop,              \* events posted and not yet handled, oldest first
  link,              \* the driver: idle, trying, associated, or up with an address
  dhcp,              \* the DHCP client is asking for an address
  late,              \* history: the last address came for an association already over
  attempts,          \* history: esp_wifi_connect accepted since the last address
  refused            \* history: esp_wifi_connect has refused a call

wifiVars ==
  <<retry_count, connected, wifi_event_group, loop, link, dhcp, late, attempts, refused>>

StationEvents == {"STA_DISCONNECTED", "STA_GOT_IP"}

(* Attempts beyond the first excess are not counted. *)
MaxAttempts == MAX_RETRIES + 2

WifiInit ==
  /\ retry_count = 0
  /\ connected = FALSE
  /\ wifi_event_group = {}
  /\ loop = <<>>
  /\ link = "idle"
  /\ dhcp = FALSE
  /\ late = FALSE
  /\ attempts = 0
  /\ refused = FALSE

-----------------------------------------------------------------------------
(* The driver and the DHCP client *)

(* esp_wifi_connect starts an attempt, or answers an error nobody reads. *)
EspWifiConnect ==
  \/ /\ link' = "trying"
     /\ attempts' = IF attempts < MaxAttempts THEN attempts + 1 ELSE attempts
     /\ refused' = refused
  \/ /\ refused' = TRUE
     /\ UNCHANGED <<link, attempts>>

PostToLoop(e) ==
  /\ Len(loop) < LOOP_QUEUE_SIZE
  /\ loop' = Append(loop, e)

Associate ==
  /\ link = "trying"
  /\ link' = "associated"
  /\ dhcp' = TRUE
  /\ UNCHANGED <<retry_count, connected, wifi_event_group, loop, late, attempts, refused>>

(* An attempt fails, or an association ends.  The DHCP client goes on      *)
(* asking until the event task has seen the event.                         *)
Disconnect ==
  /\ link # "idle"
  /\ link' = "idle"
  /\ PostToLoop("STA_DISCONNECTED")
  /\ late' = FALSE
  /\ UNCHANGED <<retry_count, connected, wifi_event_group, dhcp, attempts, refused>>

GetAddress ==
  /\ dhcp
  /\ dhcp' = FALSE
  /\ link' = IF link = "associated" THEN "up" ELSE link
  /\ PostToLoop("STA_GOT_IP")
  /\ late' = (link # "associated")
  /\ attempts' = 0
  /\ UNCHANGED <<retry_count, connected, wifi_event_group, refused>>

(* The lease runs out; IP_EVENT_STA_LOST_IP has no handler. *)
LoseLease ==
  /\ link = "up"
  /\ link' = "associated"
  /\ dhcp' = TRUE
  /\ UNCHANGED <<retry_count, connected, wifi_event_group, loop, late, attempts, refused>>

Driver == Associate \/ Disconnect \/ GetAddress \/ LoseLease

-----------------------------------------------------------------------------
(* event_handler *)

(* The event task takes e; the system's own handler of a disconnection,    *)
(* which stops the DHCP client, comes before the node's.                   *)
TakeFromLoop(e) ==
  /\ loop # <<>>
  /\ Head(loop) = e
  /\ loop' = Tail(loop)
  /\ dhcp' = IF e = "STA_DISCONNECTED" THEN FALSE ELSE dhcp

(* Mutant: one retry too many. *)
RetryOnceMore ==
  /\ TakeFromLoop("STA_DISCONNECTED")
  /\ connected' = FALSE
  /\ retry_count <= MAX_RETRIES
  /\ EspWifiConnect
  /\ retry_count' = retry_count + 1
  /\ UNCHANGED <<wifi_event_group, late>>

(* Mutant: the flag falls only when the retries are used up. *)
RetryStillConnected ==
  /\ TakeFromLoop("STA_DISCONNECTED")
  /\ retry_count < MAX_RETRIES
  /\ EspWifiConnect
  /\ retry_count' = retry_count + 1
  /\ UNCHANGED <<connected, wifi_event_group, late>>

(* Mutant: the retries are not counted. *)
RetryUncounted ==
  /\ TakeFromLoop("STA_DISCONNECTED")
  /\ connected' = FALSE
  /\ retry_count < MAX_RETRIES
  /\ EspWifiConnect
  /\ UNCHANGED <<retry_count, wifi_event_group, late>>

(* Mutant: the failure is reported with the last retry, before it ends. *)
RetryAndReport ==
  /\ TakeFromLoop("STA_DISCONNECTED")
  /\ connected' = FALSE
  /\ retry_count < MAX_RETRIES
  /\ EspWifiConnect
  /\ retry_count' = retry_count + 1
  /\ wifi_event_group' =
       IF retry_count + 1 = MAX_RETRIES THEN wifi_event_group \union {"FAIL"} ELSE wifi_event_group
  /\ UNCHANGED late

Retry ==
  /\ TakeFromLoop("STA_DISCONNECTED")
  /\ connected' = FALSE
  /\ retry_count < MAX_RETRIES
  /\ EspWifiConnect
  /\ retry_count' = retry_count + 1
  /\ UNCHANGED <<wifi_event_group, late>>

(* Mutant: the retries end without a word. *)
GiveUpSilently ==
  /\ TakeFromLoop("STA_DISCONNECTED")
  /\ connected' = FALSE
  /\ retry_count >= MAX_RETRIES
  /\ UNCHANGED <<retry_count, wifi_event_group, link, late, attempts, refused>>

GiveUp ==
  /\ TakeFromLoop("STA_DISCONNECTED")
  /\ connected' = FALSE
  /\ retry_count >= MAX_RETRIES
  /\ wifi_event_group' = wifi_event_group \union {"FAIL"}
  /\ UNCHANGED <<retry_count, link, late, attempts, refused>>

GotIp ==
  /\ TakeFromLoop("STA_GOT_IP")
  /\ retry_count' = 0
  /\ connected' = TRUE
  /\ wifi_event_group' = wifi_event_group \union {"CONNECTED"}
  /\ UNCHANGED <<link, late, attempts, refused>>

EventHandler == Retry \/ GiveUp \/ GotIp

-----------------------------------------------------------------------------
(* Every variable has its type. *)
WifiTypeOK ==
  /\ retry_count \in 0 .. MAX_RETRIES
  /\ connected \in BOOLEAN
  /\ wifi_event_group \subseteq {"CONNECTED", "FAIL"}
  /\ loop \in Seq(StationEvents)
  /\ Len(loop) <= LOOP_QUEUE_SIZE
  /\ link \in {"idle", "trying", "associated", "up"}
  /\ dhcp \in BOOLEAN
  /\ late \in BOOLEAN
  /\ attempts \in 0 .. MaxAttempts
  /\ refused \in BOOLEAN
=============================================================================
