---------------------------- MODULE EventChannel ----------------------------
(***************************************************************************)
(* What services/event_queue.h promises its callers: a bounded first-in    *)
(* first-out channel of events.  event_post takes an event or answers      *)
(* false because the channel is full; event_get hands over the oldest      *)
(* event or answers false because the channel is empty.  Every call is one *)
(* step here; EventQueue gives the steps the code takes.                   *)
(***************************************************************************)
EXTENDS Naturals, Sequences

CONSTANTS
  Events,     \* what can be posted
  Capacity,   \* how many events fit
  Producers,  \* the tasks that call event_post
  Consumer    \* the task that calls event_get

VARIABLES
  chan,       \* the events accepted and not yet handed over, oldest first
  answer      \* per task, what its last call returned

vars == <<chan, answer>>

Tasks == Producers \union {Consumer}

Init ==
  /\ chan = <<>>
  /\ answer = [t \in Tasks |-> "none"]

(* event_post returned true. *)
Accept(t, e) ==
  /\ Len(chan) < Capacity
  /\ chan' = Append(chan, e)
  /\ answer' = [answer EXCEPT ![t] = "accepted"]

(* event_post returned false. *)
Refuse(t) ==
  /\ Len(chan) = Capacity
  /\ answer' = [answer EXCEPT ![t] = "full"]
  /\ UNCHANGED chan

(* event_get returned true. *)
Deliver ==
  /\ chan # <<>>
  /\ chan' = Tail(chan)
  /\ answer' = [answer EXCEPT ![Consumer] = Head(chan)]

(* event_get returned false. *)
Starve ==
  /\ chan = <<>>
  /\ answer' = [answer EXCEPT ![Consumer] = "empty"]
  /\ UNCHANGED chan

Next ==
  \/ \E t \in Producers, e \in Events : Accept(t, e)
  \/ \E t \in Producers : Refuse(t)
  \/ Deliver
  \/ Starve

Spec == Init /\ [][Next]_vars

(* The runtime loop never stops polling, so what was accepted is           *)
(* eventually handed over.                                                 *)
FairSpec == Spec /\ WF_vars(Deliver)
=============================================================================
