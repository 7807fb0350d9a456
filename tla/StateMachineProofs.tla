------------------------- MODULE StateMachineProofs -------------------------
(***************************************************************************)
(* Proofs about StateMachine for every queue size and every MAX_FAULTS:    *)
(* whatever events arrive, in whatever order, refused or not, and whenever *)
(* the chip resets.                                                        *)
(***************************************************************************)
EXTENDS StateMachine, TLAPS

MachineInv == SMTypeOK /\ FaultCountFitsState /\ ActiveWillEnd

-----------------------------------------------------------------------------
(* The queue. *)

LEMMA CapacityIsPositive == Capacity \in Nat \ {0}
  BY MachineAssumption DEF Capacity

(* A post keeps the queue within its slots and every event in it. *)
LEMMA PostKeepsQueue ==
  ASSUME SMTypeOK, NEW e \in EventTypes, EventPost(e)
  PROVE  /\ chan' \in Seq(EventTypes)
         /\ Len(chan') <= Capacity
         /\ lost' \subseteq EventTypes
         /\ lost \ {e} \subseteq lost'
         /\ e \in lost' \/ \E i \in 1 .. Len(chan') : chan'[i] = e
         /\ \A d : (\E i \in 1 .. Len(chan) : chan[i] = d)
                     => \E i \in 1 .. Len(chan') : chan'[i] = d
<1>1. chan \in Seq(EventTypes) /\ Len(chan) \in Nat /\ Len(chan) <= Capacity /\ Capacity \in Nat
  BY CapacityIsPositive DEF SMTypeOK
<1>2. CASE Len(chan) < Capacity /\ chan' = Append(chan, e) /\ lost' = lost \ {e}
  <2>1. /\ chan' \in Seq(EventTypes) /\ Len(chan') = Len(chan) + 1
        /\ chan'[Len(chan) + 1] = e
        /\ \A i \in 1 .. Len(chan) : chan'[i] = chan[i]
    BY <1>1, <1>2
  <2>2. Len(chan) + 1 \in 1 .. Len(chan') /\ \A i \in 1 .. Len(chan) : i \in 1 .. Len(chan')
    BY <1>1, <2>1
  <2>3. QED
    BY <1>1, <1>2, <2>1, <2>2 DEF SMTypeOK
<1>3. CASE Len(chan) >= Capacity /\ chan' = chan /\ lost' = lost \union {e}
  BY <1>1, <1>3 DEF SMTypeOK
<1>4. QED
  BY <1>2, <1>3 DEF EventPost

(* Taking the first event leaves the others. *)
LEMMA GetKeepsQueue ==
  ASSUME SMTypeOK, EventGet
  PROVE  /\ chan' \in Seq(EventTypes)
         /\ Len(chan') <= Capacity
         /\ event' \in EventTypes
         /\ \A d : (\E i \in 1 .. Len(chan) : chan[i] = d)
                     => event' = d \/ \E i \in 1 .. Len(chan') : chan'[i] = d
<1>1. chan \in Seq(EventTypes) /\ chan # <<>> /\ chan' = Tail(chan) /\ event' = Head(chan)
      /\ Len(chan) <= Capacity /\ Capacity \in Nat
  BY CapacityIsPositive DEF SMTypeOK, EventGet
<1>2. /\ Len(chan) \in Nat \ {0} /\ Len(chan') = Len(chan) - 1 /\ event' = chan[1]
      /\ chan' \in Seq(EventTypes) /\ chan[1] \in EventTypes
      /\ \A i \in 1 .. Len(chan') : chan'[i] = chan[i + 1]
  BY <1>1
<1>3. ASSUME NEW i \in 1 .. Len(chan), i # 1
      PROVE  i - 1 \in 1 .. Len(chan') /\ chan'[i - 1] = chan[i]
  <2>1. i - 1 \in 1 .. Len(chan') /\ (i - 1) + 1 = i
    BY <1>2, <1>3
  <2>2. QED
    BY <1>2, <2>1
<1>4. QED
  BY <1>1, <1>2, <1>3

-----------------------------------------------------------------------------
LEMMA MachineInit == SMInit => MachineInv
<1> SUFFICES ASSUME SMInit PROVE MachineInv
  OBVIOUS
<1>1. chan \in Seq(EventTypes) /\ Len(chan) = 0
  BY DEF SMInit
<1>2. QED
  BY <1>1, CapacityIsPositive, MachineAssumption
  DEF SMInit, MachineInv, SMTypeOK, FaultCountFitsState, ActiveWillEnd, States

LEMMA ArriveKeeps ==
  ASSUME MachineInv, NEW e \in EventTypes, Arrive(e)
  PROVE  MachineInv'
<1>1. EventPost(e)
  BY DEF Arrive
<1>2. SMTypeOK'
  BY <1>1, PostKeepsQueue DEF MachineInv, SMTypeOK, Arrive
<1>3. FaultCountFitsState'
  BY DEF MachineInv, FaultCountFitsState, Arrive
<1>4. ActiveWillEnd'
  BY <1>1, PostKeepsQueue DEF MachineInv, ActiveWillEnd, Arrive
<1>5. QED
  BY <1>2, <1>3, <1>4 DEF MachineInv

LEMMA GetKeeps ==
  ASSUME MachineInv, EventGet
  PROVE  MachineInv'
<1>1. SMTypeOK'
  BY GetKeepsQueue DEF MachineInv, SMTypeOK, EventGet
<1>2. FaultCountFitsState'
  BY DEF MachineInv, FaultCountFitsState, EventGet
<1>3. ActiveWillEnd'
  BY GetKeepsQueue DEF MachineInv, ActiveWillEnd, EventGet
<1>4. QED
  BY <1>1, <1>2, <1>3 DEF MachineInv

(* A branch that only changes state and count keeps the invariant if the   *)
(* two still fit.                                                          *)
LEMMA EnterKeeps ==
  ASSUME MachineInv, NEW s \in States \ {"ACTIVE"}, Enter(s), event' = "none",
         fault_count' \in 0 .. MAX_FAULTS,
         s \in {"BOOT", "INIT", "IDLE"} => fault_count' = 0,
         s = "FAULT" => fault_count' \in 1 .. MAX_FAULTS - 1
  PROVE  MachineInv'
BY DEF MachineInv, SMTypeOK, FaultCountFitsState, ActiveWillEnd, Enter

LEMMA HandleKeeps ==
  ASSUME MachineInv, HandleEvent
  PROVE  MachineInv'
<1>1. event' = "none" /\ SMTypeOK /\ FaultCountFitsState /\ ActiveWillEnd
      /\ fault_count \in 0 .. MAX_FAULTS /\ MAX_FAULTS \in Nat \ {0, 1}
  BY MachineAssumption DEF HandleEvent, MachineInv, SMTypeOK
<1>2. CASE Boot
  BY <1>1, <1>2, EnterKeeps DEF Boot, On, FaultCountFitsState, States
<1>3. CASE InitDone
  BY <1>1, <1>3, EnterKeeps DEF InitDone, On, FaultCountFitsState, States
<1>4. CASE StartProcessing
  <2>1. EventPost("PROCESS_DONE") /\ "PROCESS_DONE" \in EventTypes
    BY <1>4 DEF StartProcessing, EventTypes
  <2>2. SMTypeOK'
    BY <1>1, <1>4, <2>1, PostKeepsQueue DEF StartProcessing, SMTypeOK, States
  <2>3. ActiveWillEnd'
    BY <1>1, <2>1, PostKeepsQueue DEF ActiveWillEnd
  <2>4. FaultCountFitsState'
    BY <1>1, <1>4 DEF StartProcessing, On, FaultCountFitsState
  <2>5. QED
    BY <2>2, <2>3, <2>4 DEF MachineInv
<1>5. CASE ProcessDone
  BY <1>1, <1>5, EnterKeeps DEF ProcessDone, On, FaultCountFitsState, States
<1>6. CASE FirstFault
  <2>1. fault_count = 0 /\ fault_count' = 1 /\ Enter("FAULT")
    BY <1>1, <1>6 DEF FirstFault, On, FaultCountFitsState
  <2>2. QED
    BY <1>1, <2>1, EnterKeeps DEF States
<1>7. CASE NextFault
  <2>1. fault_count \in 1 .. MAX_FAULTS - 1 /\ fault_count' = fault_count + 1
    BY <1>1, <1>7 DEF NextFault, On, FaultCountFitsState
  <2>2. CASE fault_count + 1 >= MAX_FAULTS
    <3>1. Enter("SAFE_MODE") /\ fault_count' \in 0 .. MAX_FAULTS
      BY <1>1, <1>7, <2>1, <2>2 DEF NextFault
    <3>2. QED
      BY <1>1, <3>1, EnterKeeps DEF States
  <2>3. CASE ~(fault_count + 1 >= MAX_FAULTS)
    <3>1. Enter("FAULT") /\ fault_count' \in 1 .. MAX_FAULTS - 1
      BY <1>1, <1>7, <2>1, <2>3 DEF NextFault
    <3>2. QED
      BY <1>1, <3>1, EnterKeeps DEF States
  <2>4. QED
    BY <2>2, <2>3
<1>8. CASE Recover
  BY <1>1, <1>8, EnterKeeps DEF Recover, States
<1>9. CASE ForceSafeMode
  BY <1>1, <1>9, EnterKeeps DEF ForceSafeMode, States
<1>10. CASE Acknowledge
  BY <1>1, <1>10, EnterKeeps DEF Acknowledge, States
<1>11. CASE Ignore
  <2>1. UNCHANGED <<current_state, fault_count, chan, lost>> /\ event \notin Expected
    BY <1>11 DEF Ignore, Enter
  <2>2. current_state = "ACTIVE" => event # "PROCESS_DONE"
    BY <2>1 DEF Expected
  <2>3. QED
    BY <1>1, <2>1, <2>2 DEF MachineInv, SMTypeOK, FaultCountFitsState, ActiveWillEnd
<1>12. QED
  BY <1>2, <1>3, <1>4, <1>5, <1>6, <1>7, <1>8, <1>9, <1>10, <1>11 DEF HandleEvent

LEMMA RestartKeeps ==
  ASSUME Restart
  PROVE  MachineInv'
<1>1. chan' \in Seq(EventTypes) /\ Len(chan') = 0
  BY DEF Restart
<1>2. QED
  BY <1>1, CapacityIsPositive, MachineAssumption
  DEF Restart, MachineInv, SMTypeOK, FaultCountFitsState, ActiveWillEnd, States

LEMMA MachineNext == MachineInv /\ [SMNext]_smVars => MachineInv'
<1> SUFFICES ASSUME MachineInv, [SMNext]_smVars PROVE MachineInv'
  OBVIOUS
<1>1. CASE UNCHANGED smVars
  BY <1>1 DEF smVars, MachineInv, SMTypeOK, FaultCountFitsState, ActiveWillEnd
<1>2. QED
  BY <1>1, ArriveKeeps, GetKeeps, HandleKeeps, RestartKeeps DEF SMNext

(* Whatever the machine is fed, its count fits its state, its queue keeps  *)
(* within its slots, and ACTIVE has its end under way.                     *)
THEOREM MachineIsSound == SMSpec => []MachineInv
<1>1. QED
  BY MachineInit, MachineNext, PTL DEF SMSpec

-----------------------------------------------------------------------------
(* Overlapping posts spoil the ring (EventQueue): it may then hand over    *)
(* anything, or nothing.  The count does not rest on what the ring holds.  *)

RingSpoils == UNCHANGED <<current_state, fault_count>>

SpoiledSpec == SMInit /\ [][SMNext \/ RingSpoils]_smVars

EscalationInv ==
  /\ current_state \in States
  /\ fault_count \in 0 .. MAX_FAULTS
  /\ FaultCountFitsState

LEMMA HandleKeepsCount ==
  ASSUME EscalationInv, HandleEvent
  PROVE  EscalationInv'
<1>1. fault_count \in 0 .. MAX_FAULTS /\ MAX_FAULTS \in Nat \ {0, 1}
  BY MachineAssumption DEF EscalationInv
<1> USE <1>1 DEF EscalationInv, FaultCountFitsState, States, On, Enter
<1>2. CASE Boot \/ InitDone \/ StartProcessing \/ ProcessDone
  BY <1>2 DEF Boot, InitDone, StartProcessing, ProcessDone
<1>3. CASE FirstFault
  BY <1>3 DEF FirstFault
<1>4. CASE NextFault
  <2>1. fault_count \in 1 .. MAX_FAULTS - 1 /\ fault_count' = fault_count + 1
    BY <1>4 DEF NextFault
  <2>2. current_state' = IF fault_count + 1 >= MAX_FAULTS THEN "SAFE_MODE" ELSE "FAULT"
    BY <1>4 DEF NextFault
  <2>3. QED
    BY <2>1, <2>2
<1>5. CASE Recover \/ ForceSafeMode \/ Acknowledge \/ Ignore
  BY <1>5 DEF Recover, ForceSafeMode, Acknowledge, Ignore
<1>6. QED
  BY <1>2, <1>3, <1>4, <1>5 DEF HandleEvent

LEMMA EscalationInit == SMInit => EscalationInv
  BY MachineAssumption DEF SMInit, EscalationInv, FaultCountFitsState, States

LEMMA EscalationNext == EscalationInv /\ [SMNext \/ RingSpoils]_smVars => EscalationInv'
<1> SUFFICES ASSUME EscalationInv, [SMNext \/ RingSpoils]_smVars PROVE EscalationInv'
  OBVIOUS
<1>1. CASE UNCHANGED <<current_state, fault_count>>
  BY <1>1 DEF EscalationInv, FaultCountFitsState
<1>2. CASE Restart
  BY <1>2, MachineAssumption DEF Restart, EscalationInv, FaultCountFitsState, States
<1>3. QED
  BY <1>1, <1>2, HandleKeepsCount DEF SMNext, Arrive, EventGet, RingSpoils, smVars

(* The fault count fits the state even when overlapping posts have spoiled *)
(* the ring: whatever events come out of it, lost, repeated or made up.    *)
THEOREM CountOutlivesRing == SpoiledSpec => []FaultCountFitsState
<1>1. EscalationInv => FaultCountFitsState
  BY DEF EscalationInv
<1>2. QED
  BY <1>1, EscalationInit, EscalationNext, PTL DEF SpoiledSpec
=============================================================================
