----------------------------- MODULE EventQueue -----------------------------
(***************************************************************************)
(* services/event_queue.cpp, one memory access at a time.                  *)
(*                                                                         *)
(* The ring is shared by two tasks and guarded by nothing: the main task   *)
(* posts and gets (core/runtime.cpp), button_task posts (app/button.cpp).  *)
(* button_task has no core affinity and a higher priority than the main    *)
(* task, so its steps fall anywhere between the main task's.  The build is *)
(* -Og (sdkconfig), which keeps the two stores of event_post in source     *)
(* order but may or may not load head a second time for the slot index:    *)
(* WriteSlot allows both.                                                  *)
(***************************************************************************)
EXTENDS Naturals, Sequences

CONSTANTS
  EVENT_QUEUE_SIZE,  \* slots of the ring, one of which always stays unused
  Events,            \* the events the tasks post
  EVT_NONE,          \* what a slot that was never written holds
  Producers,         \* the tasks that call event_post
  Consumer           \* the task that calls event_get

ASSUME SizeAssumption == EVENT_QUEUE_SIZE \in Nat \ {0, 1}

ASSUME EventsAssumption == {"none", "accepted", "full", "empty"} \intersect (Events \union {EVT_NONE}) = {}

VARIABLES
  queue,       \* the slots
  head,        \* where the next event goes
  tail,        \* where the oldest event is
  pc,          \* per task, the line of event_post or event_get it is at
  at,          \* per task, the value of head its event_post started from
  event,       \* per task, the event it is posting or has just read
  answer,      \* per task, what its last call returned
  chan,        \* history: the events accepted and not yet handed over
  overlapped   \* history: two calls of event_post have been in progress at once

vars == <<queue, head, tail, pc, at, event, answer, chan, overlapped>>

Slots == 0 .. (EVENT_QUEUE_SIZE - 1)
Tasks == Producers \union {Consumer}

(* Mutant: the index runs off the end of the array. *)
AfterWithoutWrap(i) == i + 1

(* (i + 1) % EVENT_QUEUE_SIZE *)
After(i) == (i + 1) % EVENT_QUEUE_SIZE

Posting(t) == t \in Producers /\ pc[t] \in {"check", "write", "publish"}

Goto(t, from, to) ==
  /\ pc[t] = from
  /\ pc' = [pc EXCEPT ![t] = to]

(* Static storage is zeroed and event_queue_init runs before any task that *)
(* posts is created.                                                       *)
Init ==
  /\ queue = [i \in Slots |-> EVT_NONE]
  /\ head = 0
  /\ tail = 0
  /\ pc = [t \in Tasks |-> "idle"]
  /\ at = [t \in Tasks |-> 0]
  /\ event = [t \in Tasks |-> EVT_NONE]
  /\ answer = [t \in Tasks |-> "none"]
  /\ chan = <<>>
  /\ overlapped = FALSE

-----------------------------------------------------------------------------
(* event_post *)

(* Loads head and computes next from it. *)
BeginPost(t, e) ==
  /\ Goto(t, "idle", "check")
  /\ at' = [at EXCEPT ![t] = head]
  /\ event' = [event EXCEPT ![t] = e]
  /\ overlapped' = (overlapped \/ \E u \in Producers \ {t} : Posting(u))
  /\ UNCHANGED <<queue, head, tail, answer, chan>>

(* next == tail: the post is refused. *)
FindFull(t) ==
  /\ Goto(t, "check", "idle")
  /\ After(at[t]) = tail
  /\ answer' = [answer EXCEPT ![t] = "full"]
  /\ UNCHANGED <<queue, head, tail, at, event, chan, overlapped>>

(* Mutant: a full queue is not noticed. *)
FindRoomAlways(t) ==
  /\ Goto(t, "check", "write")
  /\ UNCHANGED <<queue, head, tail, at, event, answer, chan, overlapped>>

(* Mutant: head moves before the slot is written. *)
FindRoomAndPublish(t) ==
  /\ Goto(t, "check", "write")
  /\ After(at[t]) # tail
  /\ head' = After(at[t])
  /\ UNCHANGED <<queue, tail, at, event, answer, chan, overlapped>>

FindRoom(t) ==
  /\ Goto(t, "check", "write")
  /\ After(at[t]) # tail
  /\ UNCHANGED <<queue, head, tail, at, event, answer, chan, overlapped>>

WriteSlot(t) ==
  /\ Goto(t, "write", "publish")
  /\ \E i \in {at[t], head} : queue' = [queue EXCEPT ![i] = event[t]]
  /\ UNCHANGED <<head, tail, at, event, answer, chan, overlapped>>

(* head = next, with the next of BeginPost. *)
Publish(t) ==
  /\ Goto(t, "publish", "idle")
  /\ head' = After(at[t])
  /\ answer' = [answer EXCEPT ![t] = "accepted"]
  /\ chan' = Append(chan, event[t])
  /\ UNCHANGED <<queue, tail, at, event, overlapped>>

-----------------------------------------------------------------------------
(* event_get; tail is written by the consumer alone. *)

FindEmpty(c) ==
  /\ pc[c] = "idle"
  /\ head = tail
  /\ answer' = [answer EXCEPT ![c] = "empty"]
  /\ UNCHANGED <<queue, head, tail, pc, at, event, chan, overlapped>>

FindEvent(c) ==
  /\ Goto(c, "idle", "read")
  /\ head # tail
  /\ UNCHANGED <<queue, head, tail, at, event, answer, chan, overlapped>>

ReadSlot(c) ==
  /\ Goto(c, "read", "advance")
  /\ event' = [event EXCEPT ![c] = queue[tail]]
  /\ UNCHANGED <<queue, head, tail, at, answer, chan, overlapped>>

Advance(c) ==
  /\ Goto(c, "advance", "idle")
  /\ tail' = After(tail)
  /\ answer' = [answer EXCEPT ![c] = event[c]]
  /\ chan' = IF chan = <<>> THEN <<>> ELSE Tail(chan)
  /\ UNCHANGED <<queue, head, at, event, overlapped>>

-----------------------------------------------------------------------------
Post(t) ==
  \/ \E e \in Events : BeginPost(t, e)
  \/ FindFull(t)
  \/ FindRoom(t)
  \/ WriteSlot(t)
  \/ Publish(t)

Get(c) ==
  \/ FindEmpty(c)
  \/ FindEvent(c)
  \/ ReadSlot(c)
  \/ Advance(c)

Next ==
  \/ \E t \in Producers : Post(t)
  \/ Get(Consumer)

Spec == Init /\ [][Next]_vars

(* The runtime loop calls event_get on every iteration, for ever; a task   *)
(* that has begun a call is always scheduled again.                        *)
Fairness == WF_vars(FindEvent(Consumer) \/ ReadSlot(Consumer) \/ Advance(Consumer))

FairSpec == Spec /\ Fairness

-----------------------------------------------------------------------------
(* Every variable has its type: the indices stay inside the ring, whatever *)
(* the two tasks do to each other's calls.                                 *)
TypeOK ==
  /\ queue \in [Slots -> Events \union {EVT_NONE}]
  /\ head \in Slots
  /\ tail \in Slots
  /\ pc \in [Tasks -> {"idle", "check", "write", "publish", "read", "advance"}]
  /\ \A t \in Tasks : pc[t] \in {"check", "write", "publish"} => t \in Producers
  /\ \A t \in Tasks : pc[t] \in {"read", "advance"} => t = Consumer
  /\ at \in [Tasks -> Slots]
  /\ event \in [Tasks -> Events \union {EVT_NONE}]
  /\ \A t \in Tasks : Posting(t) => event[t] \in Events
  /\ answer \in [Tasks -> Events \union {EVT_NONE, "none", "accepted", "full", "empty"}]
  /\ chan \in Seq(Events)
  /\ overlapped \in BOOLEAN

(* How many slots lie between tail and head, and what they hold. *)
Fill == IF tail <= head THEN head - tail ELSE head + EVENT_QUEUE_SIZE - tail
SlotOf(i) == (tail + i) % EVENT_QUEUE_SIZE

RingHolds(s) ==
  /\ Len(s) = Fill
  /\ \A i \in 1 .. Len(s) : s[i] = queue[SlotOf(i - 1)]

(* Where the calls in progress stand while no two posts overlap: the one    *)
(* post works on the slot at head, which stays free and keeps what the     *)
(* post writes; the get works on the slot at tail, which stays filled.     *)
OnePost == \A t, u \in Producers : Posting(t) /\ Posting(u) => t = u

PostInStep(t) ==
  /\ Posting(t) => at[t] = head
  /\ pc[t] \in {"write", "publish"} => After(head) # tail
  /\ pc[t] = "publish" => queue[head] = event[t]

GetInStep(c) ==
  /\ pc[c] \in {"read", "advance"} => head # tail
  /\ pc[c] = "advance" => event[c] = queue[tail]

Orderly ==
  /\ RingHolds(chan)
  /\ OnePost
  /\ \A t \in Producers : PostInStep(t)
  /\ GetInStep(Consumer)

(* The inductive invariant behind FifoUnlessOverlap. *)
IInv == TypeOK /\ (~overlapped => Orderly)

(* event_queue.cpp:37 "queue empty": when event_get would answer that the  *)
(* queue is empty, every event a caller was told was accepted has been     *)
(* handed over.                                                            *)
EmptyMeansEmpty == head = tail => chan = <<>>

(* As long as no two calls of event_post have been in progress at the same *)
(* time, the ring holds exactly the accepted events in the order of        *)
(* acceptance, however posts interleave with gets.                         *)
FifoUnlessOverlap == ~overlapped => RingHolds(chan)

(* A single producer cannot overlap itself, so the ring is then the        *)
(* channel its header promises, and every accepted event is handed over.   *)
Channel == INSTANCE EventChannel WITH Capacity <- EVENT_QUEUE_SIZE - 1

ImplementsChannel == Channel!FairSpec

(* With the two posting tasks of the node, every access up to the first    *)
(* overlap is still a step of the channel or none: a refused post finds    *)
(* the channel full, event_get answers "empty" only when it is, and hands  *)
(* over the oldest event.                                                  *)
ChannelUntilOverlap == [][ ~overlapped' => [Channel!Next]_(Channel!vars) ]_vars
=============================================================================
