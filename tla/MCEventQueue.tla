---------------------------- MODULE MCEventQueue ----------------------------
(***************************************************************************)
(* Bounds for checking EventQueue.  Once two posts have overlapped the     *)
(* history of accepted events can outgrow the ring without end, so the     *)
(* model begins no post that could take it beyond MaxBacklog.              *)
(***************************************************************************)
EXTENDS EventQueue, FiniteSets

CONSTANT MaxBacklog

ASSUME BacklogAssumption == MaxBacklog \in Nat /\ MaxBacklog >= EVENT_QUEUE_SIZE

InProgress == Cardinality({t \in Producers : Posting(t)})

MCNext == Next /\ Len(chan') + InProgress' <= MaxBacklog

MCSpec == Init /\ [][MCNext]_vars
=============================================================================
