--------------------------- MODULE NetworkProofs ----------------------------
(***************************************************************************)
(* Proofs about Network for every number of retries and every size of the  *)
(* event loop's queue.                                                     *)
(***************************************************************************)
EXTENDS Network, TLAPS

-----------------------------------------------------------------------------
(* What a step can do to the station.                                      *)

(* Steps of the main task past the start-up and of the client leave it.    *)
StationIdles == UNCHANGED wifiVars /\ (main' = "wifi_init" <=> main = "wifi_init")

LEMMA StepCases ==
  ASSUME [Next]_vars
  PROVE  \/ StationIdles
         \/ ConnectFirst
         \/ (Associate \/ Disconnect \/ GetAddress \/ LoseLease) /\ main' = main
         \/ (Retry \/ GiveUp \/ GotIp) /\ main' = main
<1>1. CASE MainStep
  BY <1>1
  DEF MainStep, WaitEnds, MqttServiceInit, TestFlag, HandOver, SkipPublish, StationIdles, vars,
      wifiVars
<1>2. CASE DriverStep
  BY <1>2 DEF DriverStep, Driver
<1>3. CASE EventTask
  BY <1>3 DEF EventTask, EventHandler
<1>4. CASE Opens \/ Loses \/ ClientTask
  BY <1>4 DEF Opens, Loses, ClientTask, StationIdles
<1>5. CASE UNCHANGED vars
  BY <1>5 DEF vars, StationIdles
<1>6. QED
  BY <1>1, <1>2, <1>3, <1>4, <1>5 DEF Next

(* A post puts the event last. *)
LEMMA PostIsLast ==
  ASSUME WifiTypeOK, NEW e \in StationEvents, PostToLoop(e)
  PROVE  /\ loop' \in Seq(StationEvents) /\ Len(loop') <= LOOP_QUEUE_SIZE
         /\ Len(loop) \in Nat /\ Len(loop') = Len(loop) + 1
         /\ loop' # <<>> /\ loop'[Len(loop')] = e
         /\ \A i \in 1 .. Len(loop) : loop'[i] = loop[i]
         /\ \A i \in 1 .. Len(loop') : i \in 1 .. Len(loop) \/ i = Len(loop')
<1>1. loop \in Seq(StationEvents) /\ loop' = Append(loop, e)
      /\ Len(loop) < LOOP_QUEUE_SIZE /\ LOOP_QUEUE_SIZE \in Nat /\ Len(loop) \in Nat
  BY WifiAssumption DEF WifiTypeOK, PostToLoop
<1>2. loop' \in Seq(StationEvents) /\ Len(loop') = Len(loop) + 1
      /\ loop'[Len(loop) + 1] = e /\ \A i \in 1 .. Len(loop) : loop'[i] = loop[i]
  BY <1>1
<1>3. loop' # <<>>
  BY <1>1, <1>2
<1>4. QED
  BY <1>1, <1>2, <1>3

(* Handling takes the first event and brings the others one place forward. *)
LEMMA TakeIsFirst ==
  ASSUME WifiTypeOK, NEW e, TakeFromLoop(e)
  PROVE  /\ loop' \in Seq(StationEvents) /\ Len(loop') <= LOOP_QUEUE_SIZE
         /\ Len(loop) \in Nat \ {0} /\ Len(loop') = Len(loop) - 1
         /\ loop[1] = e
         /\ \A i \in 1 .. Len(loop') : loop'[i] = loop[i + 1] /\ i + 1 \in 1 .. Len(loop)
         /\ loop' # <<>> =>
              /\ Len(loop') \in 1 .. Len(loop') /\ Len(loop) # 1
              /\ loop'[Len(loop')] = loop[Len(loop)]
         /\ loop' = <<>> => Len(loop) = 1
<1>1. loop \in Seq(StationEvents) /\ loop # <<>> /\ loop' = Tail(loop) /\ Head(loop) = e
      /\ Len(loop) <= LOOP_QUEUE_SIZE /\ LOOP_QUEUE_SIZE \in Nat
  BY WifiAssumption DEF WifiTypeOK, TakeFromLoop
<1>2. /\ Len(loop) \in Nat \ {0} /\ Len(loop') = Len(loop) - 1
      /\ loop' \in Seq(StationEvents) /\ loop[1] = e
      /\ \A i \in 1 .. Len(loop') : loop'[i] = loop[i + 1]
  BY <1>1
<1>3. loop' # <<>> => Len(loop') # 0
  BY <1>2
<1>4. loop' = <<>> => Len(loop') = 0
  OBVIOUS
<1>5. \A i \in 1 .. Len(loop') : i + 1 \in 1 .. Len(loop)
  BY <1>2
<1>6. loop' # <<>> => Len(loop') \in 1 .. Len(loop') /\ Len(loop) # 1 /\ Len(loop') + 1 = Len(loop)
  BY <1>2, <1>3
<1>7. QED
  BY <1>1, <1>2, <1>4, <1>5, <1>6

-----------------------------------------------------------------------------
(* Type correctness. *)

LEMMA ConnectKeepsTypes ==
  ASSUME WifiTypeOK, EspWifiConnect
  PROVE  /\ link' \in {link, "trying"} /\ attempts' \in 0 .. MaxAttempts /\ refused' \in BOOLEAN
         /\ attempts' \in {attempts, attempts + 1}
<1>1. attempts \in 0 .. MaxAttempts /\ MaxAttempts \in Nat /\ refused \in BOOLEAN
  BY WifiAssumption DEF WifiTypeOK, MaxAttempts
<1>2. attempts' \in 0 .. MaxAttempts /\ attempts' \in {attempts, attempts + 1}
  BY <1>1 DEF EspWifiConnect
<1>3. link' \in {link, "trying"} /\ refused' \in BOOLEAN
  BY <1>1, Zenon DEF EspWifiConnect
<1>4. QED
  BY <1>2, <1>3

LEMMA WifiTypeNext ==
  ASSUME WifiTypeOK, [Next]_vars
  PROVE  WifiTypeOK'
<1>1. MAX_RETRIES \in Nat /\ "STA_DISCONNECTED" \in StationEvents /\ "STA_GOT_IP" \in StationEvents
  BY WifiAssumption DEF StationEvents
<1>2. CASE StationIdles
  BY <1>2 DEF StationIdles, wifiVars, WifiTypeOK
<1>3. CASE ConnectFirst
  BY <1>3, ConnectKeepsTypes DEF ConnectFirst, WifiTypeOK
<1>4. CASE Associate \/ LoseLease
  BY <1>4 DEF Associate, LoseLease, WifiTypeOK
<1>5. CASE Disconnect
  BY <1>1, <1>5, PostIsLast DEF Disconnect, WifiTypeOK
<1>6. CASE GetAddress
  <2>1. late' \in BOOLEAN /\ dhcp' \in BOOLEAN
    BY <1>6, Zenon DEF GetAddress
  <2>2. attempts' \in 0 .. MaxAttempts
    BY <1>1, <1>6 DEF GetAddress, MaxAttempts
  <2>3. QED
    BY <1>1, <1>6, <2>1, <2>2, PostIsLast DEF GetAddress, WifiTypeOK
<1>7. CASE Retry
  <2>1. retry_count' \in 0 .. MAX_RETRIES
    BY <1>1, <1>7 DEF Retry, WifiTypeOK
  <2>2. dhcp' \in BOOLEAN
    BY <1>7 DEF Retry, TakeFromLoop, WifiTypeOK
  <2>3. QED
    BY <1>7, <2>1, <2>2, TakeIsFirst, ConnectKeepsTypes DEF Retry, WifiTypeOK
<1>8. CASE GiveUp \/ GotIp
  <2>1. dhcp' \in BOOLEAN /\ loop' \in Seq(StationEvents) /\ Len(loop') <= LOOP_QUEUE_SIZE
    BY <1>8, TakeIsFirst DEF GiveUp, GotIp, TakeFromLoop, WifiTypeOK
  <2>2. retry_count' \in 0 .. MAX_RETRIES
    BY <1>1, <1>8 DEF GiveUp, GotIp, WifiTypeOK
  <2>3. QED
    BY <1>8, <2>1, <2>2 DEF GiveUp, GotIp, WifiTypeOK
<1>9. QED
  BY <1>2, <1>3, <1>4, <1>5, <1>6, <1>7, <1>8, StepCases

LEMMA OthersTypeNext ==
  ASSUME TypeOK, [Next]_vars
  PROVE  MqttTypeOK' /\ main' \in {"wifi_init", "waiting", "mqtt_init", "loop", "publishing"}
<1> USE DEF TypeOK, MqttTypeOK, mqttVars
<1>1. CASE MainStep
  BY <1>1
  DEF MainStep, ConnectFirst, WaitEnds, MqttServiceInit, StartClient, TestFlag, HandOver,
      SkipPublish, vars
<1>2. CASE DriverStep \/ EventTask
  BY <1>2 DEF DriverStep, EventTask
<1>3. CASE Opens \/ Loses
  BY <1>3 DEF Opens, Loses, OpenSession, LoseSession
<1>4. CASE ClientTask
  BY <1>4 DEF ClientTask, MqttHandler, Connected, Disconnected
<1>5. CASE UNCHANGED vars
  BY <1>5 DEF vars
<1>6. QED
  BY <1>1, <1>2, <1>3, <1>4, <1>5 DEF Next

(* Every variable keeps its type; the event loop's queue keeps within its  *)
(* size and retry_count within MAX_RETRIES.                                *)
THEOREM TypeCorrect == Spec => []TypeOK
<1>1. Init => TypeOK
  <2>1. Init => loop \in Seq(StationEvents) /\ Len(loop) = 0
    BY DEF Init, WifiInit
  <2>2. 0 \in 0 .. MAX_RETRIES /\ 0 \in 0 .. MaxAttempts /\ 0 <= LOOP_QUEUE_SIZE
    BY WifiAssumption DEF MaxAttempts
  <2>3. Init => WifiTypeOK
    BY <2>1, <2>2 DEF Init, WifiInit, WifiTypeOK
  <2>4. QED
    BY <2>3 DEF Init, MqttInit, TypeOK, MqttTypeOK
<1>2. TypeOK /\ [Next]_vars => TypeOK'
  BY WifiTypeNext, OthersTypeNext DEF TypeOK
<1>3. QED
  BY <1>1, <1>2, PTL DEF Spec

-----------------------------------------------------------------------------
(* The station. *)

IInv == OneDisconnect /\ NotStarted /\ FailMeansOffline

(* The disconnection the event task takes is the only one. *)
LEMMA TakenIsTheOnlyOne ==
  ASSUME WifiTypeOK, OneDisconnect, TakeFromLoop("STA_DISCONNECTED")
  PROVE  /\ link = "idle"
         /\ \A i \in 1 .. Len(loop') : loop'[i] # "STA_DISCONNECTED"
         /\ "FAIL" \in wifi_event_group => ~FailMeansOffline
<1>1. /\ Len(loop) \in Nat \ {0} /\ loop[1] = "STA_DISCONNECTED" /\ 1 \in 1 .. Len(loop)
      /\ Len(loop') = Len(loop) - 1
      /\ \A i \in 1 .. Len(loop') : loop'[i] = loop[i + 1] /\ i + 1 \in 1 .. Len(loop)
  BY TakeIsFirst
<1>2. link = "idle"
  BY <1>1 DEF OneDisconnect, Pending
<1>3. ASSUME NEW i \in 1 .. Len(loop'), loop'[i] = "STA_DISCONNECTED" PROVE FALSE
  <2>1. loop[i + 1] = "STA_DISCONNECTED" /\ i + 1 \in 1 .. Len(loop)
    BY <1>1, <1>3
  <2>2. i + 1 = 1
    BY <1>1, <2>1 DEF OneDisconnect
  <2>3. QED
    BY <1>1, <2>2
<1>4. QED
  BY <1>1, <1>2, <1>3 DEF FailMeansOffline

LEMMA StationNext ==
  ASSUME TypeOK, IInv, [Next]_vars
  PROVE  IInv'
<1> USE DEF IInv
<1>1. WifiTypeOK
  BY DEF TypeOK
<1>2. CASE StationIdles
  BY <1>2 DEF StationIdles, wifiVars, OneDisconnect, NotStarted, FailMeansOffline, Pending
<1>3. CASE ConnectFirst
  <2>1. loop' = <<>> /\ wifi_event_group' = {} /\ main' = "waiting" /\ Len(<<>>) = 0
    BY <1>3 DEF ConnectFirst, NotStarted
  <2>2. QED
    BY <2>1 DEF OneDisconnect, NotStarted, FailMeansOffline, Pending
<1>4. CASE (Associate \/ LoseLease) /\ main' = main
  BY <1>4 DEF Associate, LoseLease, OneDisconnect, NotStarted, FailMeansOffline, Pending
<1>5. CASE Disconnect /\ main' = main
  <2>1. /\ link # "idle" /\ link' = "idle" /\ wifi_event_group' = wifi_event_group
        /\ PostToLoop("STA_DISCONNECTED") /\ "STA_DISCONNECTED" \in StationEvents
    BY <1>5 DEF Disconnect, StationEvents
  <2>2. "FAIL" \notin wifi_event_group'
    BY <2>1 DEF FailMeansOffline
  <2>3. \A i \in 1 .. Len(loop') : loop'[i] = "STA_DISCONNECTED" => i = Len(loop')
    BY <1>1, <2>1, PostIsLast DEF OneDisconnect, Pending
  <2>4. main' # "wifi_init"
    BY <1>5, <2>1 DEF NotStarted
  <2>5. QED
    BY <2>1, <2>2, <2>3, <2>4 DEF OneDisconnect, NotStarted, FailMeansOffline
<1>6. CASE GetAddress /\ main' = main
  <2>1. /\ PostToLoop("STA_GOT_IP") /\ "STA_GOT_IP" \in StationEvents
        /\ link = "idle" => link' = "idle" /\ UNCHANGED wifi_event_group
    BY <1>6 DEF GetAddress, StationEvents
  <2>2. \A i \in 1 .. Len(loop') : loop'[i] = "STA_DISCONNECTED"
          => i \in 1 .. Len(loop) /\ loop[i] = "STA_DISCONNECTED"
    BY <1>1, <2>1, PostIsLast
  <2>3. OneDisconnect'
    BY <2>1, <2>2 DEF OneDisconnect, Pending
  <2>4. FailMeansOffline'
    BY <1>6, <2>1, <2>2 DEF FailMeansOffline, GetAddress
  <2>5. QED
    BY <1>6, <2>3, <2>4 DEF NotStarted, GetAddress
<1>7. CASE Retry /\ main' = main
  <2>1. /\ TakeFromLoop("STA_DISCONNECTED") /\ UNCHANGED wifi_event_group
    BY <1>7 DEF Retry
  <2>2. \A i \in 1 .. Len(loop') : loop'[i] # "STA_DISCONNECTED"
    BY <1>1, <2>1, TakenIsTheOnlyOne
  <2>3. "FAIL" \notin wifi_event_group'
    BY <1>1, <2>1, TakenIsTheOnlyOne
  <2>4. main' # "wifi_init"
    BY <1>7, <2>1 DEF NotStarted, TakeFromLoop
  <2>5. QED
    BY <2>2, <2>3, <2>4 DEF OneDisconnect, NotStarted, FailMeansOffline, Pending
<1>8. CASE GiveUp /\ main' = main
  <2>1. TakeFromLoop("STA_DISCONNECTED") /\ link' = link
    BY <1>8 DEF GiveUp
  <2>2. link = "idle" /\ \A i \in 1 .. Len(loop') : loop'[i] # "STA_DISCONNECTED"
    BY <1>1, <2>1, TakenIsTheOnlyOne
  <2>3. main' # "wifi_init"
    BY <1>8, <2>1 DEF NotStarted, TakeFromLoop
  <2>4. QED
    BY <2>1, <2>2, <2>3 DEF OneDisconnect, NotStarted, FailMeansOffline, Pending
<1>9. CASE GotIp /\ main' = main
  <2>1. /\ TakeFromLoop("STA_GOT_IP") /\ link' = link
        /\ wifi_event_group' = wifi_event_group \union {"CONNECTED"}
    BY <1>9 DEF GotIp
  <2>2. /\ \A i \in 1 .. Len(loop') : loop'[i] = loop[i + 1] /\ i + 1 \in 1 .. Len(loop)
        /\ Len(loop') \in Nat
    BY <1>1, <2>1, TakeIsFirst
  <2>3. OneDisconnect'
    <3>1. Pending("STA_DISCONNECTED")' => Pending("STA_DISCONNECTED")
      BY <2>2 DEF Pending
    <3>2. ASSUME NEW i \in 1 .. Len(loop'), NEW j \in 1 .. Len(loop'),
                 loop'[i] = "STA_DISCONNECTED", loop'[j] = "STA_DISCONNECTED"
          PROVE  i = j
      <4>1. i + 1 = j + 1
        BY <2>2, <3>2 DEF OneDisconnect
      <4>2. QED
        BY <2>2, <4>1
    <3>3. QED
      BY <2>1, <3>1, <3>2 DEF OneDisconnect
  <2>4. FailMeansOffline'
    BY <2>1, <2>2 DEF FailMeansOffline
  <2>5. main' # "wifi_init"
    BY <1>9, <2>1 DEF NotStarted, TakeFromLoop
  <2>6. QED
    BY <2>3, <2>4, <2>5 DEF NotStarted
<1>10. QED
  BY <1>2, <1>3, <1>4, <1>5, <1>6, <1>7, <1>8, <1>9, StepCases

LEMMA StationHolds == Spec => [](TypeOK /\ IInv)
<1>1. Init => IInv
  <2>1. Init => loop = <<>> /\ Len(<<>>) = 0
    BY DEF Init, WifiInit
  <2>2. QED
    BY <2>1 DEF Init, WifiInit, IInv, OneDisconnect, NotStarted, FailMeansOffline, Pending
<1>2. TypeOK /\ IInv /\ [Next]_vars => IInv'
  BY StationNext
<1>3. QED
  BY <1>1, <1>2, TypeCorrect, PTL DEF Spec

(* The failure bit is set only when no attempt and no disconnection is     *)
(* under way, and nothing starts one after it: it is final.                *)
THEOREM FailIsFinal == Spec => []FailMeansOffline
<1>1. IInv => FailMeansOffline
  BY DEF IInv
<1>2. QED
  BY <1>1, StationHolds, PTL

-----------------------------------------------------------------------------
(* The flag. *)

LEMMA FlagNext ==
  ASSUME TypeOK, IInv, FlagTellsLink, LastEventTells, [Next]_vars
  PROVE  FlagTellsLink' /\ LastEventTells'
<1>1. WifiTypeOK /\ OneDisconnect /\ NotStarted
  BY DEF TypeOK, IInv
<1> USE DEF FlagTellsLink, LastEventTells
<1>2. CASE StationIdles
  BY <1>2 DEF StationIdles, wifiVars
<1>3. CASE ConnectFirst
  <2>1. loop' = <<>> /\ ~connected' /\ link' # "up"
    BY <1>1, <1>3 DEF ConnectFirst, NotStarted, EspWifiConnect
  <2>2. QED
    BY <2>1
<1>4. CASE Associate \/ LoseLease
  BY <1>4 DEF Associate, LoseLease
<1>5. CASE Disconnect
  <2>1. loop' # <<>> /\ loop'[Len(loop')] = "STA_DISCONNECTED" /\ link' = "idle"
    BY <1>1, <1>5, PostIsLast DEF Disconnect, StationEvents
  <2>2. QED
    BY <2>1
<1>6. CASE GetAddress
  <2>1. loop' # <<>> /\ loop'[Len(loop')] = "STA_GOT_IP"
    BY <1>1, <1>6, PostIsLast DEF GetAddress, StationEvents
  <2>2. ~late' => link' = "up"
    BY <1>6 DEF GetAddress
  <2>3. QED
    BY <2>1, <2>2
<1>7. CASE Retry \/ GiveUp
  <2>1. TakeFromLoop("STA_DISCONNECTED") /\ connected' = FALSE /\ late' = late
    BY <1>7 DEF Retry, GiveUp
  <2>2. link = "idle" /\ \A i \in 1 .. Len(loop') : loop'[i] # "STA_DISCONNECTED"
    BY <1>1, <2>1, TakenIsTheOnlyOne
  <2>3. link' \in {"idle", "trying"}
    BY <1>7, <2>2 DEF Retry, GiveUp, EspWifiConnect
  <2>4. ASSUME loop' # <<>> PROVE late'
    <3>1. Len(loop') \in 1 .. Len(loop') /\ loop'[Len(loop')] = loop[Len(loop)]
      BY <1>1, <2>1, <2>4, TakeIsFirst
    <3>2. loop[Len(loop)] # "STA_DISCONNECTED" /\ loop # <<>>
      BY <2>1, <2>2, <3>1 DEF TakeFromLoop
    <3>3. QED
      BY <2>1, <2>2, <3>2
  <2>5. QED
    BY <2>1, <2>3, <2>4
<1>8. CASE GotIp
  <2>1. /\ TakeFromLoop("STA_GOT_IP") /\ connected' = TRUE /\ late' = late /\ link' = link
        /\ loop # <<>>
    BY <1>8 DEF GotIp, TakeFromLoop
  <2>2. loop' # <<>> => loop'[Len(loop')] = loop[Len(loop)]
    BY <1>1, <2>1, TakeIsFirst
  <2>3. loop' = <<>> => loop[Len(loop)] = "STA_GOT_IP"
    BY <1>1, <2>1, TakeIsFirst
  <2>4. QED
    BY <2>1, <2>2, <2>3
<1>9. QED
  BY <1>2, <1>3, <1>4, <1>5, <1>6, <1>7, <1>8, StepCases

(* With no event on its way the flag is the link's, whatever drops,        *)
(* retries and leases came in whatever order, unless the last address came *)
(* for an association already over.                                        *)
THEOREM FlagIsTheLinks == Spec => []FlagTellsLink
<1>1. Init => FlagTellsLink /\ LastEventTells
  BY DEF Init, WifiInit, FlagTellsLink, LastEventTells
<1>2. TypeOK /\ IInv /\ FlagTellsLink /\ LastEventTells /\ [Next]_vars
        => FlagTellsLink' /\ LastEventTells'
  BY FlagNext
<1>3. QED
  BY <1>1, <1>2, StationHolds, PTL DEF Spec

-----------------------------------------------------------------------------
(* The attempts. *)

LEMMA CountNext ==
  ASSUME TypeOK, IInv, AttemptsAreCounted, [Next]_vars
  PROVE  AttemptsAreCounted'
<1>1. /\ WifiTypeOK /\ OneDisconnect /\ NotStarted
      /\ retry_count \in Nat /\ attempts \in Nat /\ MAX_RETRIES \in Nat
      /\ "STA_GOT_IP" # "STA_DISCONNECTED"
  BY WifiAssumption DEF TypeOK, IInv, WifiTypeOK, MaxAttempts
<1> USE DEF AttemptsAreCounted, Pending
<1>2. CASE StationIdles
  BY <1>2 DEF StationIdles, wifiVars
<1>3. CASE ConnectFirst
  <2>1. /\ loop' = <<>> /\ attempts' \in {attempts, attempts + 1} /\ retry_count' = retry_count
        /\ attempts = 0 /\ retry_count = 0
    BY <1>1, <1>3, ConnectKeepsTypes DEF ConnectFirst, NotStarted
  <2>2. Len(loop') = 0
    BY <2>1
  <2>3. QED
    BY <2>1, <2>2
<1>4. CASE Associate \/ LoseLease
  BY <1>4 DEF Associate, LoseLease
<1>5. CASE Disconnect
  <2>1. /\ PostToLoop("STA_DISCONNECTED") /\ UNCHANGED <<attempts, retry_count>>
        /\ "STA_DISCONNECTED" \in StationEvents
    BY <1>5 DEF Disconnect, StationEvents
  <2>2. /\ Len(loop) \in Nat /\ Len(loop') = Len(loop) + 1
        /\ loop'[Len(loop')] = "STA_DISCONNECTED"
        /\ \A i \in 1 .. Len(loop) : loop'[i] = loop[i]
    BY <1>1, <2>1, PostIsLast
  <2>3. \A i \in 1 .. Len(loop') :
          loop'[i] = "STA_GOT_IP" => i \in 1 .. Len(loop) /\ loop[i] = "STA_GOT_IP"
    BY <1>1, <2>2
  <2>4. \A i \in 1 .. Len(loop) : i \in 1 .. Len(loop')
    BY <2>2
  <2>5. Pending("STA_GOT_IP")' <=> Pending("STA_GOT_IP")
    BY <2>2, <2>3, <2>4
  <2>6. ASSUME NEW i \in 1 .. Len(loop'), NEW j \in 1 .. Len(loop'),
               i < j, loop'[i] = "STA_DISCONNECTED", loop'[j] = "STA_GOT_IP"
        PROVE  attempts' = 0
    <3>1. j \in 1 .. Len(loop) /\ loop[j] = "STA_GOT_IP"
      BY <2>3, <2>6
    <3>2. i \in 1 .. Len(loop)
      BY <2>2, <2>6, <3>1
    <3>3. loop[i] = "STA_DISCONNECTED"
      BY <2>2, <2>6, <3>2
    <3>4. QED
      BY <2>1, <2>6, <3>1, <3>2, <3>3
  <2>7. QED
    BY <2>1, <2>5, <2>6
<1>6. CASE GetAddress
  <2>1. attempts' = 0 /\ retry_count' = retry_count
    BY <1>6 DEF GetAddress
  <2>2. QED
    BY <1>1, <2>1
<1>7. CASE Retry
  <2>1. /\ TakeFromLoop("STA_DISCONNECTED") /\ retry_count' = retry_count + 1
        /\ attempts' \in {attempts, attempts + 1}
    BY <1>1, <1>7, ConnectKeepsTypes DEF Retry
  <2>2. /\ Len(loop) \in Nat \ {0} /\ loop[1] = "STA_DISCONNECTED" /\ 1 \in 1 .. Len(loop)
        /\ \A i \in 1 .. Len(loop') : loop'[i] = loop[i + 1] /\ i + 1 \in 1 .. Len(loop)
        /\ Len(loop') = Len(loop) - 1
    BY <1>1, <2>1, TakeIsFirst
  <2>3. \A i \in 1 .. Len(loop') : loop'[i] # "STA_DISCONNECTED"
    BY <1>1, <2>1, TakenIsTheOnlyOne
  <2>4. ASSUME Pending("STA_GOT_IP")' PROVE attempts = 0
    <3>1. PICK i \in 1 .. Len(loop') : loop'[i] = "STA_GOT_IP"
      BY <2>4
    <3>2. i + 1 \in 1 .. Len(loop) /\ loop[i + 1] = "STA_GOT_IP" /\ 1 < i + 1
      BY <2>2, <3>1
    <3>3. QED
      BY <2>2, <3>2
  <2>5. ASSUME ~Pending("STA_GOT_IP")' PROVE ~Pending("STA_GOT_IP")
    <3>1. ASSUME NEW i \in 1 .. Len(loop), loop[i] = "STA_GOT_IP" PROVE FALSE
      <4>1. i # 1
        BY <1>1, <2>2, <3>1
      <4>2. i - 1 \in 1 .. Len(loop') /\ (i - 1) + 1 = i
        BY <2>2, <3>1, <4>1
      <4>3. loop'[i - 1] = "STA_GOT_IP"
        BY <2>2, <3>1, <4>2
      <4>4. QED
        BY <2>5, <4>2, <4>3
    <3>2. QED
      BY <3>1
  <2>6. Pending("STA_GOT_IP")' => attempts' <= 1
    BY <1>1, <2>1, <2>4
  <2>7. ~Pending("STA_GOT_IP")' => attempts' <= retry_count' + 1
    <3>1. ~Pending("STA_GOT_IP")' => attempts <= retry_count + 1
      BY <2>5
    <3>2. QED
      BY <1>1, <2>1, <3>1
  <2>8. QED
    BY <2>3, <2>6, <2>7
<1>8. CASE GiveUp \/ GotIp
  <2>1. PICK e \in StationEvents :
          /\ TakeFromLoop(e)
          /\ attempts' = attempts
          /\ \/ e = "STA_GOT_IP" /\ retry_count' = 0
             \/ e = "STA_DISCONNECTED" /\ retry_count' = retry_count
    <3>1. "STA_GOT_IP" \in StationEvents /\ "STA_DISCONNECTED" \in StationEvents
      BY DEF StationEvents
    <3>2. GiveUp => /\ TakeFromLoop("STA_DISCONNECTED")
                    /\ attempts' = attempts /\ retry_count' = retry_count
      BY DEF GiveUp
    <3>3. GotIp => TakeFromLoop("STA_GOT_IP") /\ attempts' = attempts /\ retry_count' = 0
      BY DEF GotIp
    <3>4. QED
      BY <1>8, <3>1, <3>2, <3>3, Zenon
  <2>2. /\ Len(loop) \in Nat \ {0} /\ loop[1] = e /\ 1 \in 1 .. Len(loop)
        /\ \A i \in 1 .. Len(loop') : loop'[i] = loop[i + 1] /\ i + 1 \in 1 .. Len(loop)
        /\ Len(loop') = Len(loop) - 1
    BY <1>1, <2>1, TakeIsFirst
  <2>3. Pending("STA_GOT_IP")' => Pending("STA_GOT_IP")
    BY <2>2
  <2>4. ASSUME ~Pending("STA_GOT_IP")' PROVE attempts' <= retry_count' + 1
    <3>1. CASE e = "STA_GOT_IP"
      <4>1. Pending("STA_GOT_IP")
        BY <2>2, <3>1
      <4>2. attempts <= 1 /\ retry_count' = 0
        BY <1>1, <2>1, <3>1, <4>1
      <4>3. QED
        BY <1>1, <2>1, <4>2
    <3>2. CASE e = "STA_DISCONNECTED"
      <4>1. ASSUME NEW i \in 1 .. Len(loop), loop[i] = "STA_GOT_IP" PROVE FALSE
        <5>1. i # 1
          BY <1>1, <2>2, <3>2, <4>1
        <5>2. i - 1 \in 1 .. Len(loop') /\ (i - 1) + 1 = i
          BY <2>2, <4>1, <5>1
        <5>3. loop'[i - 1] = "STA_GOT_IP"
          BY <2>2, <4>1, <5>2
        <5>4. QED
          BY <2>4, <5>2, <5>3
      <4>2. attempts <= retry_count + 1
        BY <4>1
      <4>3. QED
        BY <1>1, <2>1, <3>2, <4>2
    <3>3. QED
      BY <2>1, <3>1, <3>2
  <2>5. ASSUME NEW i \in 1 .. Len(loop'), NEW j \in 1 .. Len(loop'),
               i < j, loop'[i] = "STA_DISCONNECTED", loop'[j] = "STA_GOT_IP"
        PROVE  attempts' = 0
    <3>1. /\ i + 1 \in 1 .. Len(loop) /\ loop[i + 1] = "STA_DISCONNECTED"
          /\ j + 1 \in 1 .. Len(loop) /\ loop[j + 1] = "STA_GOT_IP"
      BY <2>2, <2>5
    <3>2. i + 1 < j + 1
      BY <2>2, <2>5
    <3>3. QED
      BY <2>1, <3>1, <3>2
  <2>6. QED
    BY <2>1, <2>3, <2>4, <2>5
<1>9. QED
  BY <1>2, <1>3, <1>4, <1>5, <1>6, <1>7, <1>8, StepCases

(* Between two addresses the node asks for its first association and at    *)
(* most MAX_RETRIES more.                                                  *)
THEOREM RetriesAreBounded == Spec => []AttemptsAreBounded
<1>1. Init => AttemptsAreCounted
  <2>1. Len(<<>>) = 0
    OBVIOUS
  <2>2. QED
    BY <2>1 DEF Init, WifiInit, AttemptsAreCounted, Pending
<1>2. TypeOK /\ IInv /\ AttemptsAreCounted /\ [Next]_vars => AttemptsAreCounted'
  BY CountNext
<1>3. TypeOK /\ AttemptsAreCounted => AttemptsAreBounded
  <2>1. TypeOK => retry_count \in 0 .. MAX_RETRIES /\ attempts \in Nat /\ MAX_RETRIES \in Nat
    BY WifiAssumption DEF TypeOK, WifiTypeOK, MaxAttempts
  <2>2. AttemptsAreCounted => attempts <= 1 \/ attempts <= retry_count + 1
    BY DEF AttemptsAreCounted
  <2>3. QED
    BY <2>1, <2>2 DEF AttemptsAreBounded
<1>4. QED
  BY <1>1, <1>2, <1>3, StationHolds, PTL DEF Spec
-----------------------------------------------------------------------------
(* What the node says when it is idle. *)

LEMMA ReportNext ==
  ASSUME TypeOK, IInv, IdleIsReported, [Next]_vars
  PROVE  IdleIsReported'
<1>1. WifiTypeOK /\ OneDisconnect /\ NotStarted
  BY DEF TypeOK, IInv
<1> USE DEF IdleIsReported
<1>2. CASE StationIdles
  BY <1>2 DEF StationIdles, wifiVars, Pending
<1>3. CASE ConnectFirst
  BY <1>3 DEF ConnectFirst, EspWifiConnect
<1>4. CASE (Associate \/ LoseLease) /\ main' = main
  BY <1>4 DEF Associate, LoseLease
<1>5. CASE Disconnect /\ main' = main
  <2>1. loop'[Len(loop')] = "STA_DISCONNECTED" /\ Len(loop') \in 1 .. Len(loop')
    BY <1>1, <1>5, PostIsLast DEF Disconnect, StationEvents
  <2>2. QED
    BY <2>1 DEF Pending
<1>6. CASE GetAddress /\ main' = main
  <2>1. /\ UNCHANGED <<wifi_event_group, refused, main>>
        /\ link' = "idle" => link = "idle"
    BY <1>6 DEF GetAddress
  <2>2. Pending("STA_DISCONNECTED") => Pending("STA_DISCONNECTED")'
    <3>1. /\ Len(loop) \in Nat /\ Len(loop') = Len(loop) + 1
          /\ \A i \in 1 .. Len(loop) : loop'[i] = loop[i]
      BY <1>1, <1>6, PostIsLast DEF GetAddress, StationEvents
    <3>2. \A i \in 1 .. Len(loop) : i \in 1 .. Len(loop')
      BY <3>1
    <3>3. QED
      BY <3>1, <3>2 DEF Pending
  <2>3. QED
    BY <2>1, <2>2
<1>7. CASE Retry /\ main' = main
  <2>1. link = "idle"
    BY <1>1, <1>7, TakenIsTheOnlyOne DEF Retry
  <2>2. QED
    BY <1>7 DEF Retry, EspWifiConnect
<1>8. CASE GiveUp /\ main' = main
  BY <1>8 DEF GiveUp
<1>9. CASE GotIp /\ main' = main
  <2>1. /\ TakeFromLoop("STA_GOT_IP") /\ UNCHANGED <<link, refused, main>>
        /\ "FAIL" \in wifi_event_group => "FAIL" \in wifi_event_group'
    BY <1>9 DEF GotIp
  <2>2. /\ Len(loop) \in Nat \ {0} /\ Len(loop') = Len(loop) - 1 /\ loop[1] = "STA_GOT_IP"
        /\ \A i \in 1 .. Len(loop') : loop'[i] = loop[i + 1]
    BY <1>1, <2>1, TakeIsFirst
  <2>3. ASSUME NEW i \in 1 .. Len(loop), loop[i] = "STA_DISCONNECTED"
        PROVE  Pending("STA_DISCONNECTED")'
    <3>1. i # 1
      BY <2>2, <2>3
    <3>2. i - 1 \in 1 .. Len(loop') /\ (i - 1) + 1 = i
      BY <2>2, <2>3, <3>1
    <3>3. loop'[i - 1] = "STA_DISCONNECTED"
      BY <2>2, <2>3, <3>2
    <3>4. QED
      BY <3>2, <3>3 DEF Pending
  <2>4. Pending("STA_DISCONNECTED") => Pending("STA_DISCONNECTED")'
    BY <2>3 DEF Pending
  <2>5. QED
    BY <2>1, <2>4
<1>10. QED
  BY <1>2, <1>3, <1>4, <1>5, <1>6, <1>7, <1>8, <1>9, StepCases

(* No order of drops, late addresses and retries leaves the station idle   *)
(* without a word: unless the driver refused a call, the node is still to  *)
(* handle the disconnection, or has set the failure bit.                   *)
THEOREM NoIdleUnsaid == Spec => []IdleIsReported
<1>1. Init => IdleIsReported
  BY DEF Init, WifiInit, IdleIsReported
<1>2. TypeOK /\ IInv /\ IdleIsReported /\ [Next]_vars => IdleIsReported'
  BY ReportNext
<1>3. QED
  BY <1>1, <1>2, StationHolds, PTL DEF Spec

-----------------------------------------------------------------------------
(* The client's flag, and the silence of a node that has given up. *)

LEMMA SessionNext ==
  ASSUME TypeOK, FlagTellsSession, [Next]_vars
  PROVE  FlagTellsSession'
<1> USE DEF FlagTellsSession, mqttVars
<1>1. CASE MainStep
  <2>1. CASE MqttServiceInit
    BY <2>1 DEF MqttServiceInit, StartClient, TypeOK, MqttTypeOK
  <2>2. CASE MainStep /\ ~MqttServiceInit
    BY <2>2 DEF MainStep, ConnectFirst, WaitEnds, TestFlag, HandOver, SkipPublish, vars
  <2>3. QED
    BY <1>1, <2>1, <2>2
<1>2. CASE DriverStep \/ EventTask
  BY <1>2 DEF DriverStep, EventTask
<1>3. CASE Opens \/ Loses
  BY <1>3 DEF Opens, Loses, OpenSession, LoseSession
<1>4. CASE ClientTask
  BY <1>4 DEF ClientTask, MqttHandler, Connected, Disconnected, TypeOK, MqttTypeOK
<1>5. CASE UNCHANGED vars
  BY <1>5 DEF vars
<1>6. QED
  BY <1>1, <1>2, <1>3, <1>4, <1>5 DEF Next

(* Between two calls of the client's handler the flag the publish calls    *)
(* test is the session's, wherever the main task is in one of them.        *)
THEOREM FlagIsTheSessions == Spec => []FlagTellsSession
<1>1. Init => FlagTellsSession
  BY DEF Init, MqttInit, FlagTellsSession
<1>2. TypeOK /\ FlagTellsSession /\ [Next]_vars => FlagTellsSession'
  BY SessionNext
<1>3. QED
  BY <1>1, <1>2, TypeCorrect, PTL DEF Spec

(* The bits of the event group are never cleared. *)
LEMMA FailStays ==
  ASSUME "FAIL" \in wifi_event_group, [Next]_vars
  PROVE  "FAIL" \in wifi_event_group'
<1>1. CASE StationIdles \/ ConnectFirst
  BY <1>1 DEF StationIdles, wifiVars, ConnectFirst
<1>2. CASE Associate \/ Disconnect \/ GetAddress \/ LoseLease
  BY <1>2 DEF Associate, Disconnect, GetAddress, LoseLease
<1>3. CASE Retry \/ GiveUp \/ GotIp
  BY <1>3 DEF Retry, GiveUp, GotIp
<1>4. QED
  BY <1>1, <1>2, <1>3, StepCases

LEMMA SilentNext ==
  ASSUME FailMeansOffline, FlagTellsSession, Silent, [Next]_vars
  PROVE  Silent'
<1>1. link # "up" /\ session # "up" /\ notice = "none" /\ ~mqtt_connected /\ main # "publishing"
  BY DEF FailMeansOffline, FlagTellsSession, Silent
<1>2. "FAIL" \in wifi_event_group'
  BY FailStays DEF Silent
<1>3. ~mqtt_connected' /\ notice' = "none" /\ main' # "publishing"
  <2>1. CASE MainStep
    BY <1>1, <2>1
    DEF MainStep, ConnectFirst, WaitEnds, MqttServiceInit, StartClient, TestFlag, HandOver,
        SkipPublish, vars, mqttVars
  <2>2. CASE DriverStep \/ EventTask
    BY <1>1, <2>2 DEF DriverStep, EventTask, mqttVars
  <2>3. ~Opens /\ ~Loses /\ ~ClientTask
    BY <1>1 DEF Opens, Loses, LoseSession, ClientTask, MqttHandler, Connected, Disconnected
  <2>4. CASE UNCHANGED vars
    BY <1>1, <2>4 DEF vars, mqttVars
  <2>5. QED
    BY <2>1, <2>2, <2>3, <2>4 DEF Next
<1>4. QED
  BY <1>2, <1>3 DEF Silent

(* A node that has given up and fallen silent stays silent: the idle       *)
(* station lets no session be opened, the flag is down with the session,   *)
(* and without the flag nothing is published.                              *)
THEOREM SilenceLasts == Spec => SilenceIsFinal
<1>1. FailMeansOffline /\ FlagTellsSession /\ [Next]_vars => [Silent => Silent']_vars
  BY SilentNext
<1>2. QED
  BY <1>1, FailIsFinal, FlagIsTheSessions, PTL DEF Spec, SilenceIsFinal
=============================================================================
