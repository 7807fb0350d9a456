-------------------------- MODULE EventQueueProofs --------------------------
(***************************************************************************)
(* Proofs about EventQueue for every size of the ring, every set of events *)
(* and every set of producers: its type invariant, and that the ring is a  *)
(* FIFO as long as no two posts overlap.                                   *)
(***************************************************************************)
EXTENDS EventQueue, TLAPS

-----------------------------------------------------------------------------
(* Arithmetic of the ring. *)

LEMMA Wrap ==
  ASSUME NEW n \in 0 .. 2 * EVENT_QUEUE_SIZE - 1
  PROVE  n % EVENT_QUEUE_SIZE = IF n < EVENT_QUEUE_SIZE THEN n ELSE n - EVENT_QUEUE_SIZE
  BY SizeAssumption

LEMMA AfterWraps ==
  ASSUME NEW i \in Slots
  PROVE  /\ After(i) \in Slots
         /\ After(i) = IF i = EVENT_QUEUE_SIZE - 1 THEN 0 ELSE i + 1
<1>1. i + 1 \in 0 .. 2 * EVENT_QUEUE_SIZE - 1
  BY SizeAssumption DEF Slots
<1>2. QED
  BY <1>1, Wrap, SizeAssumption DEF Slots, After

(* The slots between tail and head, in order. *)
LEMMA SlotWraps ==
  ASSUME TypeOK, NEW i \in Slots
  PROVE  /\ SlotOf(i) \in Slots
         /\ SlotOf(i) = IF tail + i < EVENT_QUEUE_SIZE THEN tail + i
                                                       ELSE tail + i - EVENT_QUEUE_SIZE
<1>1. tail + i \in 0 .. 2 * EVENT_QUEUE_SIZE - 1
  BY SizeAssumption DEF TypeOK, Slots
<1>2. PICK n \in 0 .. 2 * EVENT_QUEUE_SIZE - 1 : n = tail + i
  BY <1>1
<1>3. SlotOf(i) = IF n < EVENT_QUEUE_SIZE THEN n ELSE n - EVENT_QUEUE_SIZE
  BY <1>2, Wrap DEF SlotOf
<1>4. QED
  BY <1>2, <1>3, SizeAssumption DEF TypeOK, Slots

LEMMA FillInRange ==
  ASSUME TypeOK
  PROVE  Fill \in Slots /\ (Fill = 0 <=> head = tail)
  BY SizeAssumption DEF TypeOK, Slots, Fill

(* The slot at head is the first one behind the filled slots. *)
LEMMA HeadIsFree ==
  ASSUME TypeOK
  PROVE  /\ SlotOf(Fill) = head
         /\ \A i \in Slots : i < Fill => SlotOf(i) # head
<1>1. SlotOf(Fill) = head
  BY FillInRange, SlotWraps, SizeAssumption DEF TypeOK, Slots, Fill
<1>2. ASSUME NEW i \in Slots, i < Fill PROVE SlotOf(i) # head
  BY <1>2, SlotWraps, SizeAssumption DEF TypeOK, Slots, Fill
<1>3. QED
  BY <1>1, <1>2

-----------------------------------------------------------------------------
(* Type correctness: every step keeps every variable in its set.           *)

LEMMA TypeInit == Init => TypeOK
<1> SUFFICES ASSUME Init PROVE TypeOK
  OBVIOUS
<1>1. 0 \in Slots /\ queue \in [Slots -> Events \union {EVT_NONE}]
  BY SizeAssumption DEF Init, Slots
<1>2. pc \in [Tasks -> {"idle"}] /\ \A t \in Tasks : pc[t] = "idle"
  BY DEF Init
<1>3. at \in [Tasks -> Slots] /\ event \in [Tasks -> {EVT_NONE}] /\ answer \in [Tasks -> {"none"}]
  BY <1>1 DEF Init
<1>4. chan \in Seq(Events)
  BY DEF Init
<1>5. QED
  BY <1>1, <1>2, <1>3, <1>4 DEF Init, TypeOK, Posting, Tasks

LEMMA TypeNext == TypeOK /\ [Next]_vars => TypeOK'
<1> SUFFICES ASSUME TypeOK, [Next]_vars PROVE TypeOK'
  OBVIOUS
<1> USE DEF TypeOK, Posting, Goto
<1>1. Producers \subseteq Tasks /\ Consumer \in Tasks
  BY DEF Tasks
<1>2. ASSUME NEW t \in Producers, NEW e \in Events, BeginPost(t, e) PROVE TypeOK'
  BY <1>1, <1>2 DEF BeginPost
<1>3. ASSUME NEW t \in Producers, FindFull(t) PROVE TypeOK'
  BY <1>1, <1>3 DEF FindFull
<1>4. ASSUME NEW t \in Producers, FindRoom(t) PROVE TypeOK'
  BY <1>1, <1>4 DEF FindRoom
<1>5. ASSUME NEW t \in Producers, WriteSlot(t) PROVE TypeOK'
  BY <1>1, <1>5 DEF WriteSlot
<1>6. ASSUME NEW t \in Producers, Publish(t) PROVE TypeOK'
  <2>1. After(at[t]) \in Slots
    BY <1>1, AfterWraps
  <2>2. event[t] \in Events
    BY <1>1, <1>6 DEF Publish
  <2>3. QED
    BY <1>1, <1>6, <2>1, <2>2 DEF Publish
<1>7. CASE FindEmpty(Consumer)
  BY <1>1, <1>7 DEF FindEmpty
<1>8. CASE FindEvent(Consumer)
  BY <1>1, <1>8 DEF FindEvent
<1>9. CASE ReadSlot(Consumer)
  BY <1>1, <1>9 DEF ReadSlot
<1>10. CASE Advance(Consumer)
  <2>1. After(tail) \in Slots
    BY AfterWraps
  <2>2. chan' \in Seq(Events)
    BY <1>10 DEF Advance
  <2>3. QED
    BY <1>1, <1>10, <2>1, <2>2 DEF Advance
<1>11. CASE UNCHANGED vars
  BY <1>11 DEF vars
<1>12. QED
  BY <1>2, <1>3, <1>4, <1>5, <1>6, <1>7, <1>8, <1>9, <1>10, <1>11
  DEF Next, Post, Get

(* Whatever the tasks do to each other's calls, the indices stay in the    *)
(* ring and every task stays in the call it makes.                         *)
THEOREM TypeCorrect == Spec => []TypeOK
<1>1. QED
  BY TypeInit, TypeNext, PTL DEF Spec

-----------------------------------------------------------------------------
(* The ring as a queue, while no two posts overlap.                        *)

(* A write to the free slot at head leaves what the ring holds alone. *)
LEMMA WriteKeepsRing ==
  ASSUME TypeOK, RingHolds(chan), NEW e,
         queue' = [queue EXCEPT ![head] = e], UNCHANGED <<head, tail, chan>>
  PROVE  RingHolds(chan)'
<1>1. Fill' = Fill /\ \A i : SlotOf(i)' = SlotOf(i)
  BY DEF Fill, SlotOf
<1>2. Len(chan) = Fill /\ Len(chan) \in Nat /\ Fill \in Slots
  BY FillInRange DEF RingHolds, TypeOK
<1>3. ASSUME NEW i \in 1 .. Len(chan) PROVE chan[i] = queue'[SlotOf(i - 1)]
  <2>1. i - 1 \in Slots /\ i - 1 < Fill
    BY <1>2, SizeAssumption DEF Slots
  <2>2. SlotOf(i - 1) \in Slots /\ SlotOf(i - 1) # head
    BY <2>1, SlotWraps, HeadIsFree
  <2>3. QED
    BY <2>2 DEF RingHolds, TypeOK
<1>4. QED
  BY <1>1, <1>2, <1>3 DEF RingHolds

(* Moving head over a written slot appends the event in it. *)
LEMMA PublishAppends ==
  ASSUME TypeOK, RingHolds(chan), After(head) # tail,
         head' = After(head), chan' = Append(chan, queue[head]), UNCHANGED <<queue, tail>>
  PROVE  RingHolds(chan)'
<1>1. /\ Fill' = Fill + 1
      /\ \A i : SlotOf(i)' = SlotOf(i)
  <2>1. head' = IF head = EVENT_QUEUE_SIZE - 1 THEN 0 ELSE head + 1
    BY AfterWraps DEF TypeOK
  <2>2. Fill' = Fill + 1
    BY <2>1, SizeAssumption DEF Fill, TypeOK, Slots
  <2>3. QED
    BY <2>2 DEF SlotOf
<1>2. Len(chan) = Fill /\ Fill \in Nat /\ Len(chan') = Len(chan) + 1
  BY FillInRange DEF RingHolds, TypeOK, Slots
<1>3. ASSUME NEW i \in 1 .. Len(chan) + 1 PROVE chan'[i] = queue[SlotOf(i - 1)]
  <2>1. CASE i = Len(chan) + 1
    <3>1. i - 1 = Fill /\ chan'[i] = queue[head]
      BY <1>2, <2>1 DEF TypeOK
    <3>2. QED
      BY <3>1, HeadIsFree
  <2>2. CASE i # Len(chan) + 1
    <3>1. i \in 1 .. Len(chan) /\ chan'[i] = chan[i]
      BY <1>2, <2>2 DEF TypeOK
    <3>2. QED
      BY <3>1 DEF RingHolds
  <2>3. QED
    BY <2>1, <2>2
<1>4. QED
  BY <1>1, <1>2, <1>3 DEF RingHolds

(* Moving tail over a filled slot takes the first event. *)
LEMMA AdvanceTakes ==
  ASSUME TypeOK, RingHolds(chan), head # tail,
         tail' = After(tail), chan' = Tail(chan), UNCHANGED <<queue, head>>
  PROVE  RingHolds(chan)'
<1>1. Fill' = Fill - 1 /\ Fill \in Slots /\ Fill # 0
  <2>1. tail' = IF tail = EVENT_QUEUE_SIZE - 1 THEN 0 ELSE tail + 1
    BY AfterWraps DEF TypeOK
  <2>2. Fill' = Fill - 1
    BY <2>1, SizeAssumption DEF Fill, TypeOK, Slots
  <2>3. QED
    BY <2>2, FillInRange
<1>2. Len(chan) = Fill /\ chan # <<>> /\ Len(chan') = Len(chan) - 1
  BY <1>1 DEF RingHolds, TypeOK
<1>3. ASSUME NEW i \in 1 .. Len(chan) - 1 PROVE chan'[i] = queue[SlotOf(i - 1)']
  <2>1. chan'[i] = chan[i + 1] /\ i + 1 \in 1 .. Len(chan)
    BY <1>1, <1>2 DEF TypeOK, Slots
  <2>2. chan[i + 1] = queue[SlotOf((i + 1) - 1)] /\ (i + 1) - 1 = i
    BY <2>1 DEF RingHolds
  <2>3. SlotOf(i - 1)' = SlotOf(i)
    <3>1. i \in Slots /\ i \in Nat \ {0} /\ i < EVENT_QUEUE_SIZE
      BY <1>1, <1>2, SizeAssumption DEF Slots
    <3>2. SlotOf(i) = IF tail + i < EVENT_QUEUE_SIZE THEN tail + i
                                                    ELSE tail + i - EVENT_QUEUE_SIZE
      BY <3>1, SlotWraps
    <3>3. tail' = (IF tail = EVENT_QUEUE_SIZE - 1 THEN 0 ELSE tail + 1) /\ tail' \in Slots
      BY AfterWraps DEF TypeOK
    <3>4. PICK n \in 0 .. 2 * EVENT_QUEUE_SIZE - 1 : n = tail' + (i - 1)
      BY <3>1, <3>3, SizeAssumption DEF Slots
    <3>5. SlotOf(i - 1)' = IF n < EVENT_QUEUE_SIZE THEN n ELSE n - EVENT_QUEUE_SIZE
      BY <3>4, Wrap DEF SlotOf
    <3>6. QED
      BY <3>1, <3>2, <3>3, <3>4, <3>5, SizeAssumption DEF TypeOK, Slots
  <2>4. QED
    BY <2>1, <2>2, <2>3
<1>4. QED
  BY <1>1, <1>2, <1>3 DEF RingHolds

-----------------------------------------------------------------------------
(* The inductive invariant. *)

LEMMA OrderlyInit == Init => Orderly
<1> SUFFICES ASSUME Init PROVE Orderly
  OBVIOUS
<1>1. RingHolds(chan)
  BY DEF Init, RingHolds, Fill
<1>2. \A t \in Tasks : pc[t] = "idle"
  BY DEF Init
<1>3. QED
  BY <1>1, <1>2 DEF Orderly, OnePost, PostInStep, GetInStep, Posting, Tasks

LEMMA OrderlyNext ==
  ASSUME TypeOK, TypeOK', Orderly, ~overlapped', [Next]_vars
  PROVE  Orderly'
<1> USE DEF Orderly, OnePost, PostInStep, GetInStep, Posting, Goto
<1>1. Producers \subseteq Tasks /\ Consumer \in Tasks
  BY DEF Tasks
<1>2. /\ pc \in [Tasks -> {"idle", "check", "write", "publish", "read", "advance"}]
      /\ at \in [Tasks -> Slots]
      /\ event \in [Tasks -> Events \union {EVT_NONE}]
      /\ queue \in [Slots -> Events \union {EVT_NONE}]
      /\ head \in Slots /\ tail \in Slots
  BY DEF TypeOK
<1>3. ASSUME NEW t \in Producers, NEW e \in Events, BeginPost(t, e) PROVE Orderly'
  <2>1. RingHolds(chan)'
    BY <1>3 DEF BeginPost, RingHolds, Fill, SlotOf
  <2>2. \A u \in Producers \ {t} : ~Posting(u)
    BY <1>3 DEF BeginPost
  <2>3. QED
    BY <1>1, <1>2, <1>3, <2>1, <2>2 DEF BeginPost
<1>4. ASSUME NEW t \in Producers, FindFull(t) PROVE Orderly'
  <2>1. RingHolds(chan)'
    BY <1>4 DEF FindFull, RingHolds, Fill, SlotOf
  <2>2. QED
    BY <1>1, <1>2, <1>4, <2>1 DEF FindFull
<1>5. ASSUME NEW t \in Producers, FindRoom(t) PROVE Orderly'
  <2>1. RingHolds(chan)'
    BY <1>5 DEF FindRoom, RingHolds, Fill, SlotOf
  <2>2. QED
    BY <1>1, <1>2, <1>5, <2>1 DEF FindRoom
<1>6. ASSUME NEW t \in Producers, WriteSlot(t) PROVE Orderly'
  <2>1. queue' = [queue EXCEPT ![head] = event[t]]
    BY <1>6 DEF WriteSlot
  <2>2. RingHolds(chan)'
    BY <1>6, <2>1, WriteKeepsRing DEF WriteSlot
  <2>3. GetInStep(Consumer)'
    BY <1>1, <1>2, <1>6, <2>1 DEF WriteSlot
  <2>4. QED
    BY <1>1, <1>2, <1>6, <2>1, <2>2, <2>3 DEF WriteSlot
<1>7. ASSUME NEW t \in Producers, Publish(t) PROVE Orderly'
  <2>1. head' = After(head) /\ After(head) # tail /\ chan' = Append(chan, queue[head])
    BY <1>7 DEF Publish
  <2>2. RingHolds(chan)'
    BY <1>7, <2>1, PublishAppends DEF Publish
  <2>3. GetInStep(Consumer)'
    BY <1>1, <1>2, <1>7, <2>1 DEF Publish
  <2>4. \A u \in Producers : ~Posting(u)'
    BY <1>1, <1>2, <1>7 DEF Publish
  <2>5. QED
    BY <2>2, <2>3, <2>4
<1>8. CASE FindEmpty(Consumer)
  BY <1>8 DEF FindEmpty, RingHolds, Fill, SlotOf
<1>9. CASE FindEvent(Consumer)
  <2>1. RingHolds(chan)'
    BY <1>9 DEF FindEvent, RingHolds, Fill, SlotOf
  <2>2. QED
    BY <1>1, <1>2, <1>9, <2>1 DEF FindEvent
<1>10. CASE ReadSlot(Consumer)
  <2>1. RingHolds(chan)'
    BY <1>10 DEF ReadSlot, RingHolds, Fill, SlotOf
  <2>2. QED
    BY <1>1, <1>2, <1>10, <2>1 DEF ReadSlot
<1>11. CASE Advance(Consumer)
  <2>1. head # tail /\ tail' = After(tail)
    BY <1>11 DEF Advance
  <2>2. chan # <<>>
    BY <2>1, FillInRange DEF RingHolds
  <2>3. RingHolds(chan)'
    BY <1>11, <2>1, <2>2, AdvanceTakes DEF Advance
  <2>4. After(head) # After(tail)
    BY <1>2, <2>1, AfterWraps, SizeAssumption DEF Slots
  <2>5. QED
    BY <1>1, <1>2, <1>11, <2>1, <2>3, <2>4 DEF Advance, After
<1>12. CASE UNCHANGED vars
  BY <1>12 DEF vars, RingHolds, Fill, SlotOf
<1>13. QED
  BY <1>3, <1>4, <1>5, <1>6, <1>7, <1>8, <1>9, <1>10, <1>11, <1>12
  DEF Next, Post, Get

(* A post, once it has overlapped another, is never forgotten. *)
LEMMA OverlapStays == TypeOK /\ [Next]_vars => (~overlapped' => ~overlapped)
  BY DEF TypeOK, Next, Post, Get, BeginPost, FindFull, FindRoom, WriteSlot, Publish,
         FindEmpty, FindEvent, ReadSlot, Advance, vars

LEMMA Inductive == Spec => []IInv
<1>1. Init => IInv
  BY TypeInit, OrderlyInit DEF IInv
<1>2. IInv /\ [Next]_vars => IInv'
  BY TypeNext, OrderlyNext, OverlapStays DEF IInv
<1>3. QED
  BY <1>1, <1>2, PTL DEF Spec

(* Until two posts overlap, the ring holds the accepted events in order,   *)
(* for every size of the ring and any number of producers.                 *)
THEOREM RingIsFifo == Spec => []FifoUnlessOverlap
<1>1. IInv => FifoUnlessOverlap
  BY DEF IInv, FifoUnlessOverlap, Orderly
<1>2. QED
  BY <1>1, Inductive, PTL

-----------------------------------------------------------------------------
(* The ring implements the channel: until the first overlap with any       *)
(* number of producers, and for ever with one.                             *)

(* What head, tail and the first slot say about the channel. *)
LEMMA RingShowsChannel ==
  ASSUME TypeOK, RingHolds(chan)
  PROVE  /\ head = tail <=> chan = <<>>
         /\ After(head) = tail <=> Len(chan) = EVENT_QUEUE_SIZE - 1
         /\ Len(chan) <= EVENT_QUEUE_SIZE - 1
         /\ head # tail => Head(chan) = queue[tail]
<1>1. Len(chan) = Fill /\ Fill \in Slots /\ (Fill = 0 <=> head = tail) /\ chan \in Seq(Events)
  BY FillInRange DEF RingHolds, TypeOK
<1>2. After(head) = tail <=> Fill = EVENT_QUEUE_SIZE - 1
  <2>1. After(head) = IF head = EVENT_QUEUE_SIZE - 1 THEN 0 ELSE head + 1
    BY AfterWraps DEF TypeOK
  <2>2. QED
    BY <2>1, SizeAssumption DEF Fill, TypeOK, Slots
<1>3. ASSUME head # tail PROVE Head(chan) = queue[tail]
  <2>1. 1 \in 1 .. Len(chan)
    BY <1>1, <1>3 DEF Slots
  <2>2. chan[1] = queue[SlotOf(1 - 1)] /\ 1 - 1 = 0
    BY <2>1 DEF RingHolds
  <2>3. SlotOf(0) = tail
    BY SlotWraps, SizeAssumption DEF TypeOK, Slots
  <2>4. QED
    BY <1>1, <2>1, <2>2, <2>3
<1>4. QED
  BY <1>1, <1>2, <1>3, SizeAssumption DEF Slots

(* Every step of the ring is a step of the channel or none. *)
LEMMA StepImplements ==
  ASSUME TypeOK, Orderly, [Next]_vars
  PROVE  [Channel!Next]_(Channel!vars)
<1> USE DEF Orderly, PostInStep, GetInStep, Posting, Goto
<1>1. Producers \subseteq Tasks /\ Consumer \in Tasks
  BY DEF Tasks
<1>2. ASSUME NEW t \in Producers, NEW e \in Events, BeginPost(t, e)
      PROVE  UNCHANGED Channel!vars
  BY <1>2 DEF BeginPost, Channel!vars
<1>3. ASSUME NEW t \in Producers, FindFull(t) PROVE Channel!Refuse(t)
  <2>1. After(head) = tail
    BY <1>3 DEF FindFull
  <2>2. Len(chan) = EVENT_QUEUE_SIZE - 1
    BY <2>1, RingShowsChannel
  <2>3. QED
    BY <1>3, <2>2 DEF FindFull, Channel!Refuse
<1>4. ASSUME NEW t \in Producers, FindRoom(t) PROVE UNCHANGED Channel!vars
  BY <1>4 DEF FindRoom, Channel!vars
<1>5. ASSUME NEW t \in Producers, WriteSlot(t) PROVE UNCHANGED Channel!vars
  BY <1>5 DEF WriteSlot, Channel!vars
<1>6. ASSUME NEW t \in Producers, Publish(t)
      PROVE  event[t] \in Events /\ Channel!Accept(t, event[t])
  <2>1. After(head) # tail
    BY <1>6 DEF Publish
  <2>2. Len(chan) < EVENT_QUEUE_SIZE - 1
    BY <2>1, RingShowsChannel, SizeAssumption DEF TypeOK
  <2>3. event[t] \in Events
    BY <1>1, <1>6 DEF Publish, TypeOK
  <2>4. QED
    BY <1>6, <2>2, <2>3 DEF Publish, Channel!Accept
<1>7. CASE FindEmpty(Consumer)
  <2>1. chan = <<>>
    BY <1>7, RingShowsChannel DEF FindEmpty
  <2>2. Channel!Starve
    BY <1>7, <2>1 DEF FindEmpty, Channel!Starve
  <2>3. QED
    BY <2>2 DEF Channel!Next
<1>8. CASE FindEvent(Consumer)
  BY <1>8 DEF FindEvent, Channel!vars
<1>9. CASE ReadSlot(Consumer)
  BY <1>9 DEF ReadSlot, Channel!vars
<1>10. CASE Advance(Consumer)
  <2>1. head # tail /\ event[Consumer] = queue[tail]
    BY <1>10 DEF Advance
  <2>2. chan # <<>> /\ event[Consumer] = Head(chan)
    BY <2>1, RingShowsChannel
  <2>3. Channel!Deliver
    BY <1>10, <2>2 DEF Advance, Channel!Deliver
  <2>4. QED
    BY <2>3 DEF Channel!Next
<1>11. CASE UNCHANGED vars
  BY <1>11 DEF vars, Channel!vars
<1>12. QED
  BY <1>2, <1>3, <1>4, <1>5, <1>6, <1>7, <1>8, <1>9, <1>10, <1>11
  DEF Next, Post, Get, Channel!Next

(* Any number of tasks may post: as long as no two posts overlap, every    *)
(* access of the ring is a step of the channel of event_queue.h or none.   *)
THEOREM ChannelUntilPostsOverlap == Spec => ChannelUntilOverlap
<1>1. IInv /\ [Next]_vars => [~overlapped' => [Channel!Next]_(Channel!vars)]_vars
  BY StepImplements, OverlapStays DEF IInv
<1>2. QED
  BY <1>1, Inductive, PTL DEF Spec, ChannelUntilOverlap

LEMMA NeverOverlaps ==
  ASSUME NEW p, Producers = {p}
  PROVE  Spec => []~overlapped
<1>1. Init => ~overlapped
  BY DEF Init
<1>2. ~overlapped /\ [Next]_vars => ~overlapped'
  BY DEF Next, Post, Get, BeginPost, FindFull, FindRoom, WriteSlot, Publish,
         FindEmpty, FindEvent, ReadSlot, Advance, vars
<1>3. QED
  BY <1>1, <1>2, PTL DEF Spec

(* With one posting task the ring is the bounded FIFO channel of           *)
(* event_queue.h: every accepted event is handed over once and in order,   *)
(* "full" and "empty" are answered exactly when they are true.             *)
THEOREM OneProducerImplementsChannel ==
  ASSUME NEW p, Producers = {p}
  PROVE  Spec => Channel!Spec
<1>1. Init => Channel!Init
  BY DEF Init, Channel!Init, Tasks, Channel!Tasks
<1>2. IInv /\ ~overlapped /\ [Next]_vars => [Channel!Next]_(Channel!vars)
  BY StepImplements DEF IInv
<1>3. Spec => []~overlapped
  BY NeverOverlaps
<1>4. QED
  BY <1>1, <1>2, <1>3, Inductive, PTL DEF Spec, Channel!Spec
=============================================================================
