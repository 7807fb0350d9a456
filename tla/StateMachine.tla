---------------------------- MODULE StateMachine ----------------------------
(***************************************************************************)
(* app/state_machine.cpp with the queue it is fed from: the machine takes  *)
(* one event at a time off services/event_queue.cpp and, on entering       *)
(* ACTIVE, posts to that queue itself.  A post is one step here and the    *)
(* queue is the channel of EventChannel; EventQueue has the ring itself.   *)
(*                                                                         *)
(* Spec lets the node's events arrive in any order and at any time.        *)
(* Runtime says which task posts which of them, and when.                  *)
(***************************************************************************)
EXTENDS Naturals, Sequences

CONSTANTS
  EVENT_QUEUE_SIZE,  \* slots of the ring, one of which stays unused
  MAX_FAULTS         \* timeouts in a row that end in SAFE_MODE

ASSUME MachineAssumption ==
  /\ EVENT_QUEUE_SIZE \in Nat \ {0, 1}
  /\ MAX_FAULTS \in Nat \ {0, 1}

VARIABLES
  current_state,
  fault_count,
  chan,          \* the events queued, oldest first
  event,         \* what the runtime loop has taken and not yet handled
  lost           \* history: the kinds of events event_post refused when last posted

smVars == <<current_state, fault_count, chan, event, lost>>

SensorEvents == {"SENSOR_READY", "SENSOR_TIMEOUT"}
ButtonEvents == {"BUTTON_SHORT_PRESS", "BUTTON_LONG_PRESS"}
BootEvents == {"EVT_BOOT", "INIT_DONE"}

(* What the node posts; the other values of event_type_t have no poster.   *)
EventTypes == BootEvents \union SensorEvents \union ButtonEvents \union {"PROCESS_DONE"}

States == {"BOOT", "INIT", "IDLE", "ACTIVE", "FAULT", "SAFE_MODE"}

Capacity == EVENT_QUEUE_SIZE - 1

SMInit ==
  /\ current_state = "BOOT"
  /\ fault_count = 0
  /\ chan = <<>>
  /\ event = "none"
  /\ lost = {}

-----------------------------------------------------------------------------
(* The queue *)

(* Mutant: the slot that tells full from empty is used too. *)
EventPostIntoLastSlot(e) ==
  IF Len(chan) <= Capacity
    THEN chan' = Append(chan, e) /\ lost' = lost \ {e}
    ELSE chan' = chan /\ lost' = lost \union {e}

(* event_post; none of its callers looks at the answer. *)
EventPost(e) ==
  \/ /\ Len(chan) < Capacity
     /\ chan' = Append(chan, e)
     /\ lost' = lost \ {e}
  \/ /\ Len(chan) >= Capacity
     /\ chan' = chan
     /\ lost' = lost \union {e}

EventGet ==
  /\ event = "none"
  /\ chan # <<>>
  /\ event' = Head(chan)
  /\ chan' = Tail(chan)
  /\ UNCHANGED <<current_state, fault_count, lost>>

-----------------------------------------------------------------------------
(* state_machine_handle_event, one action per branch with the on_enter of  *)
(* the state it leads to.                                                  *)

On(state, e) == current_state = state /\ event = e

Enter(state) == current_state' = state /\ UNCHANGED <<chan, lost>>

Boot ==
  /\ On("BOOT", "EVT_BOOT")
  /\ Enter("INIT")
  /\ UNCHANGED fault_count

InitDone ==
  /\ On("INIT", "INIT_DONE")
  /\ Enter("IDLE")
  /\ UNCHANGED fault_count

(* Mutant: on_enter(STATE_ACTIVE) posts nothing. *)
StartProcessingSilently ==
  /\ On("IDLE", "SENSOR_READY")
  /\ Enter("ACTIVE")
  /\ UNCHANGED fault_count

StartProcessing ==
  /\ On("IDLE", "SENSOR_READY")
  /\ current_state' = "ACTIVE"
  /\ EventPost("PROCESS_DONE")
  /\ UNCHANGED fault_count

ProcessDone ==
  /\ On("ACTIVE", "PROCESS_DONE")
  /\ Enter("IDLE")
  /\ UNCHANGED fault_count

FirstFault ==
  /\ On("IDLE", "SENSOR_TIMEOUT") \/ On("ACTIVE", "SENSOR_TIMEOUT")
  /\ Enter("FAULT")
  /\ fault_count' = fault_count + 1

(* Mutant: FAULT -> IDLE -> FAULT, the cycle README.md:43 tells of. *)
NextFaultThroughIdle ==
  /\ On("FAULT", "SENSOR_TIMEOUT")
  /\ Enter("IDLE")
  /\ fault_count' = 0

NextFault ==
  /\ On("FAULT", "SENSOR_TIMEOUT")
  /\ fault_count' = fault_count + 1
  /\ Enter(IF fault_count + 1 >= MAX_FAULTS THEN "SAFE_MODE" ELSE "FAULT")

(* Mutant: the count survives the recovery. *)
RecoverWithoutReset ==
  /\ On("FAULT", "SENSOR_READY")
  /\ Enter("IDLE")
  /\ UNCHANGED fault_count

Recover ==
  /\ On("FAULT", "SENSOR_READY")
  /\ Enter("IDLE")
  /\ fault_count' = 0

ForceSafeMode ==
  /\ \E s \in {"IDLE", "ACTIVE", "FAULT"} : On(s, "BUTTON_LONG_PRESS")
  /\ Enter("SAFE_MODE")
  /\ UNCHANGED fault_count

(* Mutant: the count survives the acknowledgement. *)
AcknowledgeWithoutReset ==
  /\ On("SAFE_MODE", "BUTTON_SHORT_PRESS")
  /\ Enter("IDLE")
  /\ UNCHANGED fault_count

Acknowledge ==
  /\ On("SAFE_MODE", "BUTTON_SHORT_PRESS")
  /\ Enter("IDLE")
  /\ fault_count' = 0

(* The events each state reacts to; it drops any other. *)
Expected ==
  CASE current_state = "BOOT" -> {"EVT_BOOT"}
    [] current_state = "INIT" -> {"INIT_DONE"}
    [] current_state = "ACTIVE" -> {"PROCESS_DONE", "SENSOR_TIMEOUT", "BUTTON_LONG_PRESS"}
    [] current_state = "SAFE_MODE" -> {"BUTTON_SHORT_PRESS"}
    [] OTHER -> SensorEvents \union {"BUTTON_LONG_PRESS"}

Ignore ==
  /\ event \notin Expected
  /\ Enter(current_state)
  /\ UNCHANGED fault_count

HandleEvent ==
  /\ event # "none"
  /\ event' = "none"
  /\ \/ Boot
     \/ InitDone
     \/ StartProcessing
     \/ ProcessDone
     \/ FirstFault
     \/ NextFault
     \/ Recover
     \/ ForceSafeMode
     \/ Acknowledge
     \/ Ignore

-----------------------------------------------------------------------------
(* A task posts an event. *)
Arrive(e) ==
  /\ EventPost(e)
  /\ UNCHANGED <<current_state, fault_count, event>>

(* The chip resets and the machine starts over. *)
Restart ==
  /\ current_state' = "BOOT"
  /\ fault_count' = 0
  /\ chan' = <<>>
  /\ event' = "none"
  /\ lost' = {}

SMNext ==
  \/ \E e \in EventTypes \ {"PROCESS_DONE"} : Arrive(e)
  \/ EventGet
  \/ HandleEvent
  \/ Restart

SMSpec == SMInit /\ [][SMNext]_smVars

-----------------------------------------------------------------------------
(* Every variable has its type, and the queue never exceeds its slots. *)
SMTypeOK ==
  /\ current_state \in States
  /\ fault_count \in 0 .. MAX_FAULTS
  /\ chan \in Seq(EventTypes)
  /\ Len(chan) <= Capacity
  /\ event \in EventTypes \union {"none"}
  /\ lost \subseteq EventTypes

(* The fault count belongs to the state, whatever events come in whatever  *)
(* order: it is zero wherever the node claims to be healthy, and FAULT     *)
(* never holds a count that should have become SAFE_MODE.  A reset         *)
(* forgotten on one way out of FAULT or SAFE_MODE shows only the next time *)
(* the node faults.                                                        *)
FaultCountFitsState ==
  /\ current_state \in {"BOOT", "INIT", "IDLE", "ACTIVE"} => fault_count = 0
  /\ current_state = "FAULT" => fault_count \in 1 .. MAX_FAULTS - 1

(* ACTIVE is left by an event it posted to itself: as long as the queue    *)
(* never refused that event, it is still on its way.                       *)
ActiveWillEnd ==
  current_state = "ACTIVE" /\ "PROCESS_DONE" \notin lost =>
    event = "PROCESS_DONE" \/ \E i \in 1 .. Len(chan) : chan[i] = "PROCESS_DONE"
=============================================================================
