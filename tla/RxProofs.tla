------------------------------ MODULE RxProofs ------------------------------
(***************************************************************************)
(* Proofs about the RX pipeline, for any sizes of its buffers and queues.    *)
(***************************************************************************)
EXTENDS RxPipeline, TLAPS

-----------------------------------------------------------------------------
(* The inductive invariant *)

\* A run of bytes that starts behind a place in the device's stream.
Placed(data, at) == \A k \in 1..Len(data) : data[k] = at + k

\* How many bytes of the stream an event stands for.
Amount(event) ==
    IF event.kind = "rx" THEN Len(event.data)
    ELSE IF event.kind = "barrier" THEN 0 ELSE event.dropped

\* What may stand at a place of the queue: bytes of that place, and no barrier of the
\* Trigger that is being armed before what had been read at its request.
Fitting(event, at, floor) ==
    /\ event.kind = "rx" => event.data # <<>> /\ Placed(event.data, at)
    /\ event.kind = "barrier" => floor <= at

\* A queue that covers the stream from one place to another without a hole.
Covers(queue, first, last, floor) ==
    \E start \in [1..Len(queue) + 1 -> Nat] :
        /\ start[1] = first /\ start[Len(queue) + 1] = last
        /\ \A k \in 1..Len(queue) + 1 : start[k] <= last
        /\ \A k \in 1..Len(queue) :
              /\ start[k + 1] = start[k] + Amount(queue[k])
              /\ Fitting(queue[k], start[k], floor)

\* How far the actor has come, and how far the queue reaches.
Handled(s) == s.offset + Len(s.held) + s.lost

\* Where the queue ends: behind it lie the reader's gap and its pending bytes.
Queued == taken - (reader.dropped + Len(reader.pending))

\* What had been read when the barrier that is awaited was requested.
Floor == IF actor = "arming" THEN mark ELSE 0

\* The queue lies between what the actor has handled and what the reader still has.
StreamWhole ==
    /\ reader.dropped + Len(reader.pending) <= taken
    /\ Covers(events, Handled(rx), Queued, Floor)
    /\ Placed(reader.pending, Queued + reader.dropped)

\* The actor's side: only a write in flight holds bytes back, and these follow the
\* published ones; a Trigger starts behind its mark.
RxSound(s) ==
    /\ Handled(s) <= MaxBytes
    /\ Placed(s.held, s.offset)
    /\ ~InFlight(s) => s.held = <<>> /\ s.lost = 0
    /\ \A i \in DOMAIN s.timeline : Placed(s.timeline[i].data, s.timeline[i].offset)
    /\ s.trigger # None => /\ s.trigger.from <= s.offset
                           /\ s.trigger.first # 0 => s.trigger.first > s.trigger.from

\* No marker is in the queue.
NoBarrier == \A k \in 1..Len(events) : events[k].kind # "barrier"

\* At most one barrier is on its way, and only while a Trigger is being armed.
BarrierPlace ==
    /\ actor \in {"idle", "waiting"} => ~asked /\ reader.place \notin {"gap", "marker"} /\ NoBarrier
    /\ asked => reader.place \notin {"gap", "marker"} /\ NoBarrier
    /\ reader.place \in {"gap", "marker"} => NoBarrier
    /\ \A k, l \in 1..Len(events) : events[k].kind = "barrier" /\ events[l].kind = "barrier" => k = l
    /\ reader.place \in {"gap", "marker", "closing"} => reader.pending = <<>>
    /\ reader.place = "marker" => reader.dropped = 0
    /\ actor = "arming" => mark <= taken /\ rx.trigger = None

\* After the tasks are joined nothing is read or queued any more.
SessionEnds ==
    /\ actor \in {"draining", "settling", "offline"} => reader.place = "returned" /\ writer = "returned"
    /\ actor \in {"settling", "offline"} => events = <<>> /\ reader.pending = <<>> /\ reader.dropped = 0
    /\ actor = "offline" => ~InFlight(rx)

\* A command or a reply is the Trigger's whose write is in flight, or that of the client
\* the actor waits for; there is one at a time.
WriteOwner ==
    /\ job = "trigger" \/ (reply # None /\ reply.to = "trigger") => InFlight(rx)
    /\ job = "request" \/ (reply # None /\ reply.to = "request") => actor = "waiting"
    /\ job = None \/ reply = None
    /\ actor = "waiting" => rx.trigger = None

\* Everything together.
Invariant == TypeOK /\ StreamWhole /\ RxSound(rx) /\ BarrierPlace /\ SessionEnds /\ WriteOwner

-----------------------------------------------------------------------------
(* The queue and the stream *)

USE SizesAssumption, AbsentAssumption

\* What a sequence holds is of its set.
LEMMA Members ==
    ASSUME NEW S, NEW q \in Seq(S), NEW i \in DOMAIN q
    PROVE  q[i] \in S
OBVIOUS

\* Every event stands for a number of bytes.
LEMMA AmountType ==
    ASSUME NEW event \in Event
    PROVE  Amount(event) \in Nat
BY DEF Event, Amount, Counts

\* The events the tasks make are events.
LEMMA EventFields ==
    /\ \A n \in Counts : /\ Overflow(n) \in Event /\ Overflow(n).kind = "overflow" /\ Amount(Overflow(n)) = n
                         /\ Closed(n) \in Event /\ Closed(n).kind = "closed" /\ Amount(Closed(n)) = n
    /\ \A data \in Seq(Bytes) : Rx(data) \in Event /\ Rx(data).kind = "rx" /\ Rx(data).data = data
                                /\ Amount(Rx(data)) = Len(data)
    /\ Barrier \in Event /\ Barrier.kind = "barrier" /\ Amount(Barrier) = 0
BY DEF Event, Overflow, Closed, Rx, Barrier, Amount

\* An empty queue reaches nowhere.
LEMMA CoversEmpty ==
    ASSUME NEW first \in Nat, NEW last \in Nat, NEW floor
    PROVE  Covers(<<>>, first, last, floor) <=> first = last
<1>1. ASSUME first = last PROVE Covers(<<>>, first, last, floor)
  <2>1. PICK start : start = [k \in 1..1 |-> first]
    OBVIOUS
  <2>2. start \in [1..Len(<<>>) + 1 -> Nat] /\ start[1] = first
    BY <2>1
  <2> QED BY <1>1, <2>2 DEF Covers
<1>2. ASSUME Covers(<<>>, first, last, floor) PROVE first = last
  BY <1>2 DEF Covers
<1> QED BY <1>1, <1>2

\* An event that fits at the end of the queue extends it.
LEMMA CoversAppend ==
    ASSUME NEW queue \in Seq(Event), NEW first \in Nat, NEW last \in Nat, NEW floor, NEW event \in Event,
           Covers(queue, first, last, floor), Fitting(event, last, floor)
    PROVE  Covers(Append(queue, event), first, last + Amount(event), floor)
<1>1. PICK start \in [1..Len(queue) + 1 -> Nat] :
         /\ start[1] = first /\ start[Len(queue) + 1] = last
         /\ \A k \in 1..Len(queue) + 1 : start[k] <= last
         /\ \A k \in 1..Len(queue) :
               /\ start[k + 1] = start[k] + Amount(queue[k])
               /\ Fitting(queue[k], start[k], floor)
  BY DEF Covers
<1>2. Amount(event) \in Nat /\ Len(queue) \in Nat /\ Len(Append(queue, event)) = Len(queue) + 1
  BY AmountType
<1>3. PICK next : next = [k \in 1..Len(queue) + 2 |-> IF k <= Len(queue) + 1 THEN start[k] ELSE last + Amount(event)]
  OBVIOUS
<1>4. /\ next \in [1..Len(Append(queue, event)) + 1 -> Nat]
      /\ \A k \in 1..Len(queue) + 1 : next[k] = start[k]
      /\ next[Len(queue) + 2] = last + Amount(event)
  BY <1>1, <1>2, <1>3
<1>5. \A k \in 1..Len(queue) + 2 : next[k] <= last + Amount(event)
  <2>1. SUFFICES ASSUME NEW k \in 1..Len(queue) + 2 PROVE next[k] <= last + Amount(event)
    OBVIOUS
  <2>2. CASE k \in 1..Len(queue) + 1
    <3>1. next[k] = start[k] /\ start[k] <= last /\ start[k] \in Nat
      BY <1>1, <1>4, <2>2
    <3> QED BY <1>2, <3>1
  <2>3. CASE k = Len(queue) + 2
    BY <1>2, <1>4, <2>3
  <2> QED BY <1>2, <2>1, <2>2, <2>3
<1>6. ASSUME NEW k \in 1..Len(queue) + 1
      PROVE  /\ next[k + 1] = next[k] + Amount(Append(queue, event)[k])
             /\ Fitting(Append(queue, event)[k], next[k], floor)
  <2>1. CASE k \in 1..Len(queue)
    <3>1. Append(queue, event)[k] = queue[k] /\ next[k] = start[k] /\ next[k + 1] = start[k + 1]
      BY <1>2, <1>4, <2>1
    <3> QED BY <1>1, <2>1, <3>1
  <2>2. CASE k = Len(queue) + 1
    <3>1. Append(queue, event)[k] = event /\ next[k] = last /\ next[k + 1] = last + Amount(event)
      BY <1>1, <1>2, <1>4, <2>2
    <3> QED BY <3>1
  <2> QED BY <1>2, <2>1, <2>2
<1>7. PICK longer : longer = Append(queue, event)
  OBVIOUS
<1>8. Len(longer) = Len(queue) + 1 /\ Len(longer) + 1 = Len(queue) + 2
  BY <1>2, <1>7
<1>9. /\ next \in [1..Len(longer) + 1 -> Nat]
      /\ next[1] = first /\ next[Len(longer) + 1] = last + Amount(event)
      /\ \A k \in 1..Len(longer) + 1 : next[k] <= last + Amount(event)
      /\ \A k \in 1..Len(longer) : /\ next[k + 1] = next[k] + Amount(longer[k])
                                   /\ Fitting(longer[k], next[k], floor)
  BY <1>1, <1>2, <1>4, <1>5, <1>6, <1>7, <1>8
<1> QED BY <1>7, <1>9 DEF Covers

\* The first event of a queue fits where the queue starts, and the rest follows it.
LEMMA CoversTail ==
    ASSUME NEW queue \in Seq(Event), NEW first \in Nat, NEW last \in Nat, NEW floor,
           Covers(queue, first, last, floor), queue # <<>>
    PROVE  /\ Fitting(Head(queue), first, floor)
           /\ first + Amount(Head(queue)) <= last
           /\ Covers(Tail(queue), first + Amount(Head(queue)), last, floor)
<1>1. PICK start \in [1..Len(queue) + 1 -> Nat] :
         /\ start[1] = first /\ start[Len(queue) + 1] = last
         /\ \A k \in 1..Len(queue) + 1 : start[k] <= last
         /\ \A k \in 1..Len(queue) :
               /\ start[k + 1] = start[k] + Amount(queue[k])
               /\ Fitting(queue[k], start[k], floor)
  BY DEF Covers
<1>2. /\ Len(queue) \in Nat /\ Len(queue) > 0 /\ Head(queue) = queue[1]
      /\ Len(Tail(queue)) = Len(queue) - 1
      /\ \A k \in 1..Len(queue) - 1 : Tail(queue)[k] = queue[k + 1]
  OBVIOUS
<1>3. PICK next : next = [k \in 1..Len(queue) |-> start[k + 1]]
  OBVIOUS
<1>4. next \in [1..Len(Tail(queue)) + 1 -> Nat] /\ \A k \in 1..Len(queue) : next[k] = start[k + 1]
  BY <1>2, <1>3
<1>5. start[2] = first + Amount(Head(queue)) /\ Fitting(Head(queue), first, floor) /\ start[2] <= last
  BY <1>1, <1>2
<1>6. /\ next[1] = first + Amount(Head(queue)) /\ next[Len(Tail(queue)) + 1] = last
      /\ \A k \in 1..Len(Tail(queue)) + 1 : next[k] <= last
  BY <1>1, <1>2, <1>4, <1>5
<1>7. ASSUME NEW k \in 1..Len(Tail(queue))
      PROVE  /\ next[k + 1] = next[k] + Amount(Tail(queue)[k])
             /\ Fitting(Tail(queue)[k], next[k], floor)
  <2>1. k + 1 \in 1..Len(queue) /\ k \in 1..Len(queue) /\ Tail(queue)[k] = queue[k + 1]
    BY <1>2
  <2>2. next[k] = start[k + 1] /\ next[k + 1] = start[(k + 1) + 1]
    BY <1>4, <2>1
  <2> QED BY <1>1, <2>1, <2>2
<1> QED BY <1>4, <1>5, <1>6, <1>7 DEF Covers

\* Without a barrier the floor does not matter.
LEMMA CoversFloor ==
    ASSUME NEW queue \in Seq(Event), NEW first, NEW last, NEW floor, NEW other,
           Covers(queue, first, last, floor),
           \/ \A k \in 1..Len(queue) : queue[k].kind # "barrier"
           \/ other = 0
    PROVE  Covers(queue, first, last, other)
<1>1. PICK start \in [1..Len(queue) + 1 -> Nat] :
         /\ start[1] = first /\ start[Len(queue) + 1] = last
         /\ \A k \in 1..Len(queue) + 1 : start[k] <= last
         /\ \A k \in 1..Len(queue) :
               /\ start[k + 1] = start[k] + Amount(queue[k])
               /\ Fitting(queue[k], start[k], floor)
  BY DEF Covers
<1>2. \A k \in 1..Len(queue) : Fitting(queue[k], start[k], other)
  BY <1>1 DEF Fitting
<1> QED BY <1>1, <1>2 DEF Covers

\* A queue reaches at least as far as it starts.
LEMMA CoversOrder ==
    ASSUME NEW queue \in Seq(Event), NEW first \in Nat, NEW last \in Nat, NEW floor,
           Covers(queue, first, last, floor)
    PROVE  first <= last
BY DEF Covers

-----------------------------------------------------------------------------
(* What the reader offers *)

\* The barriers of a queue are those of the events queued now.
SameBarriers(queue) ==
    \A k \in 1..Len(queue) : queue[k].kind = "barrier" =>
        k \in 1..Len(events) /\ events[k].kind = "barrier"

\* An event other than a barrier adds none.
LEMMA BarriersAppend ==
    ASSUME events \in Seq(Event), NEW queue \in Seq(Event), SameBarriers(queue),
           NEW event \in Event, event.kind # "barrier"
    PROVE  SameBarriers(Append(queue, event))
<1>1. PICK longer : longer = Append(queue, event)
  OBVIOUS
<1>2. /\ Len(longer) = Len(queue) + 1 /\ Len(queue) \in Nat
      /\ \A k \in 1..Len(queue) : longer[k] = queue[k]
      /\ longer[Len(queue) + 1] = event
  BY <1>1
<1>3. SameBarriers(longer)
  BY <1>2 DEF SameBarriers
<1> QED BY <1>1, <1>3

\* enqueue_rx extends the queue by what it does not count as dropped, and keeps its
\* bound.
LEMMA EnqueueCovers ==
    ASSUME TypeOK, NEW pending \in Seq(Bytes), NEW dropped \in Counts,
           NEW first \in Nat, NEW last \in Nat, NEW floor,
           Covers(events, first, last, floor),
           Placed(pending, last + dropped), last + dropped + Len(pending) <= MaxBytes
    PROVE  LET result == EnqueueRx(pending, dropped)
           IN  /\ result.events \in Seq(Event) /\ Len(result.events) <= Queue
               /\ result.dropped \in Counts /\ result.dropped <= dropped + Len(pending)
               /\ Covers(result.events, first, last + dropped + Len(pending) - result.dropped, floor)
               /\ SameBarriers(result.events)
<1> DEFINE reported == IF dropped > 0 /\ Room THEN Append(events, Overflow(dropped)) ELSE events
           owed == IF Room THEN 0 ELSE dropped
           published == pending # <<>> /\ owed = 0 /\ Len(reported) < Queue
<1>0. /\ events \in Seq(Event) /\ Len(events) \in Nat /\ Len(events) <= Queue /\ Queue \in Nat
      /\ Len(pending) \in Nat /\ dropped \in Nat /\ last + dropped \in Nat
      /\ SameBarriers(events)
  BY DEF TypeOK, Counts, SameBarriers
<1>1. EnqueueRx(pending, dropped) =
         IF published THEN [events |-> Append(reported, Rx(pending)), dropped |-> 0]
         ELSE [events |-> reported, dropped |-> owed + Len(pending)]
  BY DEF EnqueueRx
<1>2. CASE dropped > 0 /\ ~Room
  <2>1. reported = events /\ owed = dropped /\ ~published
    BY <1>2
  <2>2. /\ EnqueueRx(pending, dropped).events = events
        /\ EnqueueRx(pending, dropped).dropped = dropped + Len(pending)
    BY <1>1, <2>1
  <2>3. last + dropped + Len(pending) - (dropped + Len(pending)) = last
    BY <1>0
  <2>4. dropped + Len(pending) \in Counts
    BY <1>0 DEF Counts
  <2> QED BY <1>0, <2>2, <2>3, <2>4
<1>3. CASE ~(dropped > 0 /\ ~Room)
  <2>1. owed = 0
    BY <1>0, <1>3
  <2>2. /\ reported \in Seq(Event) /\ Len(reported) <= Queue
        /\ Covers(reported, first, last + dropped, floor)
        /\ SameBarriers(reported)
    <3>1. CASE dropped > 0 /\ Room
      <4>1. /\ Overflow(dropped) \in Event /\ Overflow(dropped).kind = "overflow"
            /\ Amount(Overflow(dropped)) = dropped
        BY EventFields
      <4>2. Fitting(Overflow(dropped), last, floor)
        BY <4>1 DEF Fitting
      <4>3. reported = Append(events, Overflow(dropped)) /\ Len(events) < Queue
        BY <3>1 DEF Room
      <4>4. Covers(reported, first, last + dropped, floor)
        BY <1>0, <4>1, <4>2, <4>3, CoversAppend
      <4>5. SameBarriers(reported)
        BY <1>0, <4>1, <4>3, BarriersAppend
      <4> QED BY <1>0, <4>1, <4>3, <4>4, <4>5
    <3>2. CASE ~(dropped > 0 /\ Room)
      <4>1. reported = events /\ dropped = 0
        BY <1>0, <1>3, <3>2
      <4> QED BY <1>0, <4>1
    <3> QED BY <3>1, <3>2
  <2> HIDE DEF reported, owed
  <2>3. CASE published
    <3>1. /\ EnqueueRx(pending, dropped).events = Append(reported, Rx(pending))
          /\ EnqueueRx(pending, dropped).dropped = 0
      BY <1>1, <2>3
    <3>2. /\ Rx(pending) \in Event /\ Rx(pending).kind = "rx" /\ Rx(pending).data = pending
          /\ Amount(Rx(pending)) = Len(pending)
      BY EventFields
    <3>3. Fitting(Rx(pending), last + dropped, floor)
      BY <2>3, <3>2 DEF Fitting
    <3>4. Covers(Append(reported, Rx(pending)), first, last + dropped + Len(pending), floor)
      BY <1>0, <2>2, <3>2, <3>3, CoversAppend
    <3>5. SameBarriers(Append(reported, Rx(pending)))
      BY <1>0, <2>2, <3>2, BarriersAppend
    <3>6. Append(reported, Rx(pending)) \in Seq(Event) /\ Len(Append(reported, Rx(pending))) <= Queue
      BY <1>0, <2>2, <2>3, <3>2
    <3>7. last + dropped + Len(pending) - 0 = last + dropped + Len(pending)
      BY <1>0
    <3> QED BY <1>0, <3>1, <3>4, <3>5, <3>6, <3>7 DEF Counts
  <2>4. CASE ~published
    <3>1. /\ EnqueueRx(pending, dropped).events = reported
          /\ EnqueueRx(pending, dropped).dropped = Len(pending)
      BY <1>0, <1>1, <2>1, <2>4
    <3>2. last + dropped + Len(pending) - Len(pending) = last + dropped
      BY <1>0
    <3>3. Len(pending) \in Counts /\ Len(pending) <= dropped + Len(pending)
      BY <1>0 DEF Counts
    <3> QED BY <2>2, <3>1, <3>2, <3>3
  <2> QED BY <2>3, <2>4
<1> QED BY <1>2, <1>3

-----------------------------------------------------------------------------
(* What the actor makes of an event *)

\* Another Trigger, or none, beside the same bytes.
LEMMA TriggerSet ==
    ASSUME NEW s \in RxState, NEW g \in Trigger \cup {None}, NEW t, t = [s EXCEPT !.trigger = g]
    PROVE  /\ t \in RxState /\ t.trigger = g
           /\ t.offset = s.offset /\ t.timeline = s.timeline /\ t.held = s.held /\ t.lost = s.lost
           /\ Handled(t) = Handled(s)
BY DEF RxState, Handled

\* The Trigger's end is decided.
LEMMA StoppingSound ==
    ASSUME NEW s \in RxState, RxSound(s)
    PROVE  /\ Stopping(s) \in RxState /\ RxSound(Stopping(s))
           /\ Handled(Stopping(s)) = Handled(s)
           /\ Stopping(s).offset = s.offset /\ Stopping(s).held = s.held /\ Stopping(s).lost = s.lost
           /\ InFlight(Stopping(s)) <=> InFlight(s)
           /\ Stopping(s).trigger = None <=> s.trigger = None
<1>1. CASE s.trigger = None
  BY <1>1 DEF Stopping
<1>2. CASE s.trigger # None
  <2>1. s.trigger \in Trigger
    BY <1>2 DEF RxState
  <2>2. PICK g \in Trigger : /\ g = [s.trigger EXCEPT !.ending = TRUE]
                             /\ g.inFlight = s.trigger.inFlight
                             /\ g.from = s.trigger.from /\ g.first = s.trigger.first
    BY <2>1 DEF Trigger
  <2>3. PICK t : t = [s EXCEPT !.trigger = g]
    OBVIOUS
  <2>4. Stopping(s) = t
    BY <1>2, <2>2, <2>3 DEF Stopping
  <2>5. /\ t \in RxState /\ t.trigger = g /\ g # None
        /\ t.offset = s.offset /\ t.timeline = s.timeline /\ t.held = s.held /\ t.lost = s.lost
        /\ Handled(t) = Handled(s)
    BY <2>3, TriggerSet
  <2>6. InFlight(t) <=> InFlight(s)
    BY <1>2, <2>2, <2>5 DEF InFlight
  <2>7. RxSound(t)
    BY <1>2, <2>2, <2>5, <2>6 DEF RxSound
  <2> QED BY <1>2, <2>4, <2>5, <2>6, <2>7
<1> QED BY <1>1, <1>2

\* A Trigger that is ending is gone when no write of it is in flight.
LEMMA IdledSound ==
    ASSUME NEW s \in RxState, RxSound(s)
    PROVE  /\ Idled(s) \in RxState /\ RxSound(Idled(s)) /\ Handled(Idled(s)) = Handled(s)
           /\ InFlight(Idled(s)) <=> InFlight(s)
           /\ s.trigger = None => Idled(s).trigger = None
<1>1. CASE Idled(s) = s
  BY <1>1
<1>2. CASE Idled(s) # s
  <2>1. s.trigger # None /\ ~InFlight(s) /\ Idled(s) = [s EXCEPT !.trigger = None]
    BY <1>2 DEF Idled, InFlight
  <2>2. PICK t : t = [s EXCEPT !.trigger = None]
    OBVIOUS
  <2>3. /\ t \in RxState /\ t.trigger = None
        /\ t.offset = s.offset /\ t.timeline = s.timeline /\ t.held = s.held /\ t.lost = s.lost
        /\ Handled(t) = Handled(s)
    BY <2>2, TriggerSet
  <2>4. ~InFlight(t)
    BY <2>3 DEF InFlight
  <2>5. RxSound(t)
    BY <2>1, <2>3, <2>4 DEF RxSound
  <2> QED BY <2>1, <2>2, <2>3, <2>4, <2>5
<1> QED BY <1>1, <1>2

\* The matcher sees the bytes that come next, which are behind the Trigger's mark.
LEMMA ObservedSound ==
    ASSUME NEW s \in RxState, RxSound(s), NEW data \in Seq(Bytes), data # <<>>,
           Placed(data, Handled(s)), NEW matched \in BOOLEAN
    PROVE  /\ Observed(s, data, matched) \in RxState /\ RxSound(Observed(s, data, matched))
           /\ Handled(Observed(s, data, matched)) = Handled(s)
           /\ InFlight(Observed(s, data, matched)) <=> InFlight(s)
           /\ Observed(s, data, matched).trigger = None <=> s.trigger = None
<1>1. CASE s.trigger = None
  BY <1>1 DEF Observed
<1>2. CASE s.trigger # None
  <2>1. /\ s.trigger \in Trigger /\ s.trigger.first \in Counts /\ s.trigger.from \in Nat
        /\ s.offset \in Nat /\ Handled(s) \in Nat /\ s.offset <= Handled(s)
    BY <1>2 DEF RxState, Trigger, Counts, Handled
  <2>2. Len(data) \in Nat /\ Len(data) > 0 /\ Head(data) = data[1] /\ data[1] \in Bytes
    OBVIOUS
  <2>3. Head(data) = Handled(s) + 1 /\ Head(data) \in Counts
    BY <2>2 DEF Placed, Bytes, Counts
  <2>4. PICK first \in Counts : first = IF s.trigger.first = 0 THEN Head(data) ELSE s.trigger.first
    BY <2>1, <2>3
  <2>5. first # 0 => first > s.trigger.from
    BY <1>2, <2>1, <2>3, <2>4 DEF RxSound
  <2>6. PICK g : g = [s.trigger EXCEPT !.first = first, !.ending = @ \/ matched]
    OBVIOUS
  <2>7. g \in Trigger /\ g.inFlight = s.trigger.inFlight /\ g.from = s.trigger.from /\ g.first = first
    BY <2>1, <2>6 DEF Trigger
  <2>8. PICK t : t = [s EXCEPT !.trigger = g]
    OBVIOUS
  <2>9. Observed(s, data, matched) = t
    BY <1>2, <2>4, <2>6, <2>8 DEF Observed
  <2>10. /\ t \in RxState /\ t.trigger = g /\ g # None
         /\ t.offset = s.offset /\ t.timeline = s.timeline /\ t.held = s.held /\ t.lost = s.lost
         /\ Handled(t) = Handled(s)
    BY <2>7, <2>8, TriggerSet
  <2>11. InFlight(t) <=> InFlight(s)
    BY <1>2, <2>7, <2>10 DEF InFlight
  <2>12. RxSound(t)
    BY <1>2, <2>5, <2>7, <2>10, <2>11 DEF RxSound
  <2> QED BY <1>2, <2>9, <2>10, <2>11, <2>12
<1> QED BY <1>1, <1>2

\* Bytes are published at the offset, which moves behind them.
LEMMA EmitRxSound ==
    ASSUME NEW s \in RxState, RxSound(s), s.held = <<>>, s.lost = 0, NEW data \in Seq(Bytes),
           Placed(data, s.offset), s.offset + Len(data) <= MaxBytes
    PROVE  /\ EmitRx(s, data) \in RxState /\ RxSound(EmitRx(s, data))
           /\ Handled(EmitRx(s, data)) = Handled(s) + Len(data)
           /\ EmitRx(s, data).held = <<>> /\ EmitRx(s, data).lost = 0
           /\ EmitRx(s, data).trigger = s.trigger
<1>1. /\ s.offset \in Counts /\ s.offset \in Nat /\ Len(data) \in Nat
      /\ s.offset + Len(data) \in Counts
      /\ s.timeline \in Seq([offset : Counts, data : Seq(Bytes)])
  BY DEF RxState, Counts
<1>13. PICK entry : entry = [offset |-> s.offset, data |-> data]
  OBVIOUS
<1>2. /\ entry \in [offset : Counts, data : Seq(Bytes)]
      /\ entry.offset = s.offset /\ entry.data = data
  BY <1>1, <1>13
<1>3. PICK timeline : timeline = Append(s.timeline, entry)
  OBVIOUS
<1>4. /\ timeline \in Seq([offset : Counts, data : Seq(Bytes)])
      /\ Len(timeline) = Len(s.timeline) + 1 /\ Len(s.timeline) \in Nat
      /\ DOMAIN timeline = 1..Len(timeline) /\ DOMAIN s.timeline = 1..Len(s.timeline)
      /\ \A i \in 1..Len(s.timeline) : timeline[i] = s.timeline[i]
      /\ timeline[Len(s.timeline) + 1] = entry
  BY <1>1, <1>2, <1>3
<1>5. PICK offset \in Counts : offset = s.offset + Len(data)
  BY <1>1
<1>6. EmitRx(s, data) = [s EXCEPT !.offset = offset, !.timeline = timeline]
  BY <1>3, <1>5, <1>13 DEF EmitRx
<1>7. PICK t : t = [s EXCEPT !.offset = offset, !.timeline = timeline]
  OBVIOUS
<1>8. /\ t \in RxState /\ t.offset = offset /\ t.timeline = timeline
      /\ t.held = s.held /\ t.lost = s.lost /\ t.trigger = s.trigger
  BY <1>4, <1>7 DEF RxState
<1>9. Handled(t) = Handled(s) + Len(data) /\ Handled(t) = offset
  BY <1>1, <1>5, <1>8 DEF Handled
<1>10. \A i \in DOMAIN timeline : Placed(timeline[i].data, timeline[i].offset)
  <2>1. SUFFICES ASSUME NEW i \in 1..Len(s.timeline) + 1
                 PROVE  Placed(timeline[i].data, timeline[i].offset)
    BY <1>4
  <2>2. CASE i \in 1..Len(s.timeline)
    BY <1>4, <2>2 DEF RxSound
  <2>3. CASE i = Len(s.timeline) + 1
    BY <1>2, <1>4, <2>3
  <2> QED BY <1>4, <2>2, <2>3
<1>11. s.trigger # None => s.trigger.from <= t.offset
  <2>1. CASE s.trigger # None
    <3>1. s.trigger.from \in Nat /\ s.trigger.from <= s.offset
      BY <2>1 DEF RxSound, RxState, Trigger, Counts
    <3> QED BY <1>1, <1>5, <1>8, <3>1
  <2> QED BY <2>1
<1>12. RxSound(t)
  BY <1>1, <1>5, <1>8, <1>9, <1>10, <1>11 DEF RxSound, InFlight, Placed, Counts
<1> QED BY <1>6, <1>7, <1>8, <1>9, <1>12

\* A gap moves the offset, and so does one behind the bytes a write held back.
LEMMA EmitGapSound ==
    ASSUME NEW s \in RxState, RxSound(s), s.held = <<>>, s.lost = 0, NEW dropped \in Nat,
           s.offset + dropped <= MaxBytes
    PROVE  /\ EmitGap(s, dropped) \in RxState /\ RxSound(EmitGap(s, dropped))
           /\ Handled(EmitGap(s, dropped)) = Handled(s) + dropped
           /\ EmitGap(s, dropped).trigger = s.trigger
<1>1. s.offset \in Nat /\ s.offset + dropped \in Counts
  BY DEF RxState, Counts
<1>2. PICK offset \in Counts : offset = s.offset + dropped
  BY <1>1
<1>3. PICK t : t = [s EXCEPT !.offset = offset]
  OBVIOUS
<1>4. EmitGap(s, dropped) = t
  BY <1>2, <1>3 DEF EmitGap
<1>5. /\ t \in RxState /\ t.offset = offset /\ t.timeline = s.timeline
      /\ t.held = s.held /\ t.lost = s.lost /\ t.trigger = s.trigger
  BY <1>3 DEF RxState
<1>6. Handled(t) = Handled(s) + dropped /\ Handled(t) = offset
  BY <1>1, <1>2, <1>5 DEF Handled
<1>7. s.trigger # None => s.trigger.from <= offset
  <2>1. CASE s.trigger # None
    <3>1. s.trigger.from \in Nat /\ s.trigger.from <= s.offset
      BY <2>1 DEF RxSound, RxState, Trigger, Counts
    <3> QED BY <1>1, <1>2, <3>1
  <2> QED BY <2>1
<1>8. RxSound(t)
  BY <1>5, <1>6, <1>7 DEF RxSound, InFlight, Placed, Counts
<1> QED BY <1>4, <1>5, <1>6, <1>8

\* What is held back stays contiguous: once something is lost nothing is held any more.
LEMMA PushRxSound ==
    ASSUME NEW s \in RxState, RxSound(s), InFlight(s), NEW data \in Seq(Bytes),
           Placed(data, Handled(s)), Handled(s) + Len(data) <= MaxBytes
    PROVE  /\ PushRx(s, data) \in RxState /\ RxSound(PushRx(s, data))
           /\ Handled(PushRx(s, data)) = Handled(s) + Len(data)
           /\ InFlight(PushRx(s, data))
<1>1. /\ s.offset \in Nat /\ Len(s.held) \in Nat /\ s.lost \in Nat /\ Len(data) \in Nat
      /\ s.held \in Seq(Bytes) /\ s.trigger \in Trigger /\ s.trigger # None
  BY DEF RxState, Counts, InFlight
<1>2. CASE s.lost = 0 /\ Len(s.held) + Len(data) <= Audit
  <2>1. PICK held : held = s.held \o data
    OBVIOUS
  <2>2. /\ held \in Seq(Bytes) /\ Len(held) = Len(s.held) + Len(data)
        /\ \A k \in 1..Len(s.held) : held[k] = s.held[k]
        /\ \A k \in Len(s.held) + 1 .. Len(s.held) + Len(data) : held[k] = data[k - Len(s.held)]
    BY <1>1, <2>1
  <2>3. Placed(held, s.offset)
    <3>1. SUFFICES ASSUME NEW k \in 1..Len(held) PROVE held[k] = s.offset + k
      BY DEF Placed
    <3>2. CASE k \in 1..Len(s.held)
      BY <2>2, <3>2 DEF RxSound, Placed
    <3>3. CASE k \in Len(s.held) + 1 .. Len(s.held) + Len(data)
      <4>1. k - Len(s.held) \in 1..Len(data)
        BY <1>1, <3>3
      <4>2. data[k - Len(s.held)] = Handled(s) + (k - Len(s.held))
        BY <4>1 DEF Placed
      <4> QED BY <1>1, <1>2, <2>2, <3>3, <4>2 DEF Handled
    <3> QED BY <1>1, <2>2, <3>2, <3>3
  <2>4. PICK t : t = [s EXCEPT !.held = held]
    OBVIOUS
  <2>5. PushRx(s, data) = t
    BY <1>2, <2>1, <2>4 DEF PushRx
  <2>6. /\ t \in RxState /\ t.offset = s.offset /\ t.timeline = s.timeline
        /\ t.held = held /\ t.lost = s.lost /\ t.trigger = s.trigger
    BY <2>2, <2>4 DEF RxState
  <2>7. Handled(t) = Handled(s) + Len(data)
    <3>1. Handled(t) = s.offset + Len(held) + s.lost /\ Handled(s) = s.offset + Len(s.held) + s.lost
      BY <2>6 DEF Handled
    <3> QED BY <1>1, <2>2, <3>1
  <2>8. InFlight(t)
    BY <2>6 DEF InFlight
  <2>9. RxSound(t)
    BY <2>3, <2>6, <2>7, <2>8 DEF RxSound
  <2> QED BY <2>5, <2>6, <2>7, <2>8, <2>9
<1>3. CASE ~(s.lost = 0 /\ Len(s.held) + Len(data) <= Audit)
  <2>1. s.lost + Len(data) \in Counts
    BY <1>1 DEF Handled, Counts
  <2>2. PICK lost \in Counts : lost = s.lost + Len(data)
    BY <2>1
  <2>3. PICK g : g = [s.trigger EXCEPT !.ending = TRUE]
    OBVIOUS
  <2>4. g \in Trigger /\ g # None /\ g.inFlight = s.trigger.inFlight /\ g.from = s.trigger.from
        /\ g.first = s.trigger.first
    BY <1>1, <2>3 DEF Trigger
  <2>5. PICK t : t = [s EXCEPT !.lost = lost, !.trigger = g]
    OBVIOUS
  <2>6. PushRx(s, data) = t
    BY <1>3, <2>2, <2>3, <2>5 DEF PushRx
  <2>7. /\ t \in RxState /\ t.offset = s.offset /\ t.timeline = s.timeline
        /\ t.held = s.held /\ t.lost = lost /\ t.trigger = g
    BY <2>4, <2>5 DEF RxState
  <2>8. Handled(t) = Handled(s) + Len(data)
    BY <1>1, <2>2, <2>7 DEF Handled
  <2>9. InFlight(t)
    BY <2>4, <2>7 DEF InFlight
  <2>10. RxSound(t)
    BY <1>1, <2>4, <2>7, <2>8, <2>9 DEF RxSound
  <2> QED BY <2>6, <2>7, <2>8, <2>9, <2>10
<1> QED BY <1>2, <1>3

\* A chunk of bytes is published, or held back while a write is in flight.
LEMMA HandleRxDataSound ==
    ASSUME NEW s \in RxState, RxSound(s), NEW data \in Seq(Bytes), data # <<>>,
           Placed(data, Handled(s)), Handled(s) + Len(data) <= MaxBytes, NEW matched \in BOOLEAN
    PROVE  /\ HandleRxData(s, data, matched) \in RxState /\ RxSound(HandleRxData(s, data, matched))
           /\ Handled(HandleRxData(s, data, matched)) = Handled(s) + Len(data)
           /\ InFlight(HandleRxData(s, data, matched)) <=> InFlight(s)
           /\ s.trigger = None => HandleRxData(s, data, matched).trigger = None
<1>1. PICK seen : seen = Observed(s, data, matched)
  OBVIOUS
<1>2. /\ seen \in RxState /\ RxSound(seen) /\ Handled(seen) = Handled(s)
      /\ (InFlight(seen) <=> InFlight(s)) /\ (seen.trigger = None <=> s.trigger = None)
  BY <1>1, ObservedSound
<1>5. InFlight(s) => s.trigger # None
  BY DEF InFlight
<1>3. CASE InFlight(s)
  BY <1>1, <1>2, <1>3, <1>5, PushRxSound DEF HandleRxData
<1>4. CASE ~InFlight(s)
  <2>1. HandleRxData(s, data, matched) = Idled(EmitRx(seen, data))
    BY <1>1, <1>4 DEF HandleRxData
  <2>2. seen.held = <<>> /\ seen.lost = 0
    BY <1>2, <1>4 DEF RxSound
  <2>3. Handled(seen) = seen.offset
    BY <1>2, <2>2 DEF Handled, RxState, Counts
  <2>4. PICK t : t = EmitRx(seen, data)
    OBVIOUS
  <2>5. t \in RxState /\ RxSound(t) /\ Handled(t) = Handled(seen) + Len(data) /\ t.trigger = seen.trigger
    BY <1>2, <2>2, <2>3, <2>4, EmitRxSound
  <2>6. ~InFlight(t)
    BY <1>2, <1>4, <2>5 DEF InFlight
  <2> QED BY <1>2, <1>4, <2>1, <2>4, <2>5, <2>6, IdledSound
<1> QED BY <1>3, <1>4

\* A gap moves the offset, or the count of what the write lost.
LEMMA HandleRxOverflowSound ==
    ASSUME NEW s \in RxState, RxSound(s), NEW dropped \in Counts, Handled(s) + dropped <= MaxBytes
    PROVE  /\ HandleRxOverflow(s, dropped) \in RxState /\ RxSound(HandleRxOverflow(s, dropped))
           /\ Handled(HandleRxOverflow(s, dropped)) = Handled(s) + dropped
           /\ InFlight(HandleRxOverflow(s, dropped)) <=> InFlight(s)
           /\ s.trigger = None => HandleRxOverflow(s, dropped).trigger = None
<1>0. dropped \in Nat /\ Handled(s) \in Nat /\ s.offset \in Nat /\ s.lost \in Nat /\ Len(s.held) \in Nat
  BY DEF Counts, Handled, RxState
<1>1. CASE dropped = 0
  BY <1>0, <1>1 DEF HandleRxOverflow
<1>2. PICK stopping : stopping = Stopping(s)
  OBVIOUS
<1>3. /\ stopping \in RxState /\ RxSound(stopping) /\ Handled(stopping) = Handled(s)
      /\ stopping.offset = s.offset /\ stopping.held = s.held /\ stopping.lost = s.lost
      /\ InFlight(stopping) <=> InFlight(s)
      /\ stopping.trigger = None <=> s.trigger = None
  BY <1>2, StoppingSound
<1>6. InFlight(s) => s.trigger # None
  BY DEF InFlight
<1>4. CASE dropped # 0 /\ InFlight(s)
  <2>1. PICK lost \in Counts : lost = stopping.lost + dropped
    BY <1>0, <1>3 DEF Counts, Handled
  <2>2. PICK t : t = [stopping EXCEPT !.lost = lost]
    OBVIOUS
  <2>3. HandleRxOverflow(s, dropped) = t
    BY <1>2, <1>4, <2>1, <2>2 DEF HandleRxOverflow
  <2>4. /\ t \in RxState /\ t.offset = stopping.offset /\ t.timeline = stopping.timeline
        /\ t.held = stopping.held /\ t.lost = lost /\ t.trigger = stopping.trigger
    BY <1>3, <2>2 DEF RxState
  <2>5. Handled(t) = Handled(s) + dropped
    BY <1>0, <1>3, <2>1, <2>4 DEF Handled
  <2>6. InFlight(t)
    BY <1>3, <1>4, <2>4 DEF InFlight
  <2>7. RxSound(t)
    BY <1>3, <2>4, <2>5, <2>6 DEF RxSound
  <2> QED BY <1>4, <1>6, <2>3, <2>4, <2>5, <2>6, <2>7
<1>5. CASE dropped # 0 /\ ~InFlight(s)
  <2>1. HandleRxOverflow(s, dropped) = Idled(EmitGap(stopping, dropped))
    BY <1>2, <1>5 DEF HandleRxOverflow
  <2>2. stopping.held = <<>> /\ stopping.lost = 0 /\ stopping.offset = Handled(s)
    BY <1>0, <1>3, <1>5 DEF RxSound, Handled
  <2>3. PICK t : t = EmitGap(stopping, dropped)
    OBVIOUS
  <2>4. t \in RxState /\ RxSound(t) /\ Handled(t) = Handled(s) + dropped /\ t.trigger = stopping.trigger
    BY <1>0, <1>3, <2>2, <2>3, EmitGapSound
  <2>5. ~InFlight(t)
    BY <1>3, <1>5, <2>4 DEF InFlight
  <2> QED BY <1>3, <1>5, <2>1, <2>3, <2>4, <2>5, IdledSound
<1> QED BY <1>1, <1>4, <1>5

\* The write's result publishes what was held back, in its place, and then the gap.
LEMMA HandleTriggerWriteResultSound ==
    ASSUME NEW s \in RxState, RxSound(s), InFlight(s), NEW ends \in BOOLEAN
    PROVE  LET t == HandleTriggerWriteResult(s, ends)
           IN  t \in RxState /\ RxSound(t) /\ Handled(t) = Handled(s) /\ ~InFlight(t)
<1>1. /\ s.offset \in Nat /\ Len(s.held) \in Nat /\ s.lost \in Nat /\ s.held \in Seq(Bytes)
      /\ s.trigger \in Trigger /\ s.trigger # None /\ s.lost \in Counts
  BY DEF RxState, Counts, InFlight
<1>2. PICK g : g = [s.trigger EXCEPT !.inFlight = FALSE, !.ending = @ \/ ends]
  OBVIOUS
<1>3. g \in Trigger /\ g # None /\ ~g.inFlight /\ g.from = s.trigger.from /\ g.first = s.trigger.first
  BY <1>1, <1>2 DEF Trigger
<1>17. PICK held : held = <<>>
  OBVIOUS
<1>15. held \in Seq(Bytes) /\ held = <<>>
  BY <1>17
<1>16. PICK lost \in Counts : lost = 0
  BY <1>1 DEF Counts
<1>4. PICK settled : settled = [s EXCEPT !.trigger = g, !.held = held, !.lost = lost]
  OBVIOUS
<1>5. /\ settled \in RxState /\ settled.offset = s.offset /\ settled.timeline = s.timeline
      /\ settled.held = <<>> /\ settled.lost = 0 /\ settled.trigger = g
  BY <1>3, <1>4, <1>15, <1>16 DEF RxState
<1>6. Handled(settled) = s.offset /\ Handled(s) = s.offset + Len(s.held) + s.lost /\ Handled(s) <= MaxBytes
  BY <1>1, <1>5 DEF Handled, RxSound
<1>7. RxSound(settled) /\ ~InFlight(settled)
  BY <1>1, <1>3, <1>5, <1>6 DEF RxSound, InFlight, Placed
<1>8. PICK published : published = IF s.held = <<>> THEN settled ELSE EmitRx(settled, s.held)
  OBVIOUS
<1>9. HandleTriggerWriteResult(s, ends) = Idled(EmitGap(published, s.lost))
  <2>1. [s EXCEPT !.trigger.inFlight = FALSE, !.trigger.ending = @ \/ ends, !.held = <<>>, !.lost = 0] = settled
    BY <1>1, <1>2, <1>4, <1>15, <1>16 DEF RxState
  <2> QED BY <1>8, <2>1 DEF HandleTriggerWriteResult
<1>10. /\ published \in RxState /\ RxSound(published)
       /\ published.held = <<>> /\ published.lost = 0
       /\ Handled(published) = s.offset + Len(s.held) /\ published.trigger = g
  <2>1. CASE s.held = <<>>
    BY <1>1, <1>5, <1>6, <1>7, <1>8, <2>1
  <2>2. CASE s.held # <<>>
    <3>1. Placed(s.held, settled.offset) /\ settled.offset + Len(s.held) <= MaxBytes
      BY <1>1, <1>5, <1>6 DEF RxSound
    <3> QED BY <1>1, <1>5, <1>6, <1>7, <1>8, <2>2, <3>1, EmitRxSound
  <2> QED BY <2>1, <2>2
<1>11. published.offset + s.lost <= MaxBytes /\ Handled(published) = published.offset
  BY <1>1, <1>6, <1>10 DEF Handled, RxState, Counts
<1>12. PICK t : t = EmitGap(published, s.lost)
  OBVIOUS
<1>13. t \in RxState /\ RxSound(t) /\ Handled(t) = Handled(s) /\ t.trigger = g
  BY <1>1, <1>6, <1>10, <1>11, <1>12, EmitGapSound
<1>14. ~InFlight(t)
  BY <1>3, <1>13 DEF InFlight
<1> QED BY <1>9, <1>12, <1>13, <1>14, IdledSound

-----------------------------------------------------------------------------
(* The steps that move no byte *)

\* What the invariant says of the places in the stream, as numbers.
LEMMA Places ==
    ASSUME Invariant
    PROVE  /\ taken \in Nat /\ taken <= MaxBytes /\ taken \in Counts /\ MaxBytes \in Nat
           /\ reader.dropped \in Nat /\ reader.dropped \in Counts
           /\ reader.pending \in Seq(Bytes) /\ Len(reader.pending) \in Nat
           /\ Queued \in Nat /\ Queued + reader.dropped + Len(reader.pending) = taken
           /\ events \in Seq(Event) /\ Len(events) \in Nat /\ Len(events) <= Queue /\ Queue \in Nat
           /\ rx \in RxState /\ rx.offset \in Nat /\ Len(rx.held) \in Nat /\ rx.lost \in Nat
           /\ Handled(rx) \in Nat /\ Handled(rx) <= Queued
<1>1. /\ taken \in Nat /\ taken <= MaxBytes /\ taken \in Counts /\ MaxBytes \in Nat
      /\ events \in Seq(Event) /\ Len(events) \in Nat /\ Len(events) <= Queue /\ Queue \in Nat
      /\ reader \in Reader /\ rx \in RxState
  BY DEF Invariant, TypeOK, Counts
<1>2. /\ reader.dropped \in Nat /\ reader.dropped \in Counts
      /\ reader.pending \in Seq(Bytes) /\ Len(reader.pending) \in Nat
  BY <1>1 DEF Reader, Counts
<1>3. Queued \in Nat /\ Queued + reader.dropped + Len(reader.pending) = taken
  BY <1>1, <1>2 DEF Invariant, StreamWhole, Queued
<1>4. /\ rx.offset \in Nat /\ Len(rx.held) \in Nat /\ rx.lost \in Nat
      /\ Handled(rx) \in Nat
  BY <1>1 DEF RxState, Counts, Handled
<1>5. Covers(events, Handled(rx), Queued, Floor)
  BY DEF Invariant, StreamWhole
<1>6. Handled(rx) <= Queued
  BY <1>1, <1>3, <1>4, <1>5, CoversOrder
<1> QED BY <1>1, <1>2, <1>3, <1>4, <1>6

\* The queue stays whole when nothing is read, queued or handled.
LEMMA StreamFrame ==
    ASSUME Invariant, UNCHANGED <<taken, events>>,
           reader'.pending = reader.pending, reader'.dropped = reader.dropped,
           Handled(rx') = Handled(rx),
           Floor' = Floor \/ Floor' = 0 \/ NoBarrier
    PROVE  StreamWhole'
<1>1. Covers(events, Handled(rx), Queued, Floor) /\ events \in Seq(Event)
  BY DEF Invariant, StreamWhole, TypeOK
<1>2. PICK floor : floor = Floor'
  OBVIOUS
<1>3. Covers(events, Handled(rx), Queued, floor)
  BY <1>1, <1>2, CoversFloor DEF NoBarrier
<1>4. Queued' = Queued
  BY DEF Queued
<1>5. Covers(events', Handled(rx'), Queued', Floor')
  BY <1>2, <1>3, <1>4
<1> QED BY <1>4, <1>5 DEF Invariant, StreamWhole

\* A step that reads, queues and handles nothing, and whose actor neither starts nor
\* stops waiting for a barrier.
LEMMA QuietStep ==
    ASSUME Invariant,
           \/ Arrive \/ \E ok \in BOOLEAN : AnswerWrite(ok)
           \/ WriterStops \/ WriteAnswered \/ RequestWrite \/ Join \/ Offline
    PROVE  Invariant'
<1>1. /\ UNCHANGED <<taken, reader, asked, events, cancel, mark, rx>>
      /\ actor' # actor => \/ actor \in {"idle", "waiting"} /\ actor' \in {"idle", "waiting"}
                           \/ /\ actor = "joining" /\ actor' = "draining"
                              /\ reader.place = "returned" /\ writer = "returned"
      /\ writer = "returned" => writer' = "returned"
  BY DEF Arrive, AnswerWrite, WriterStops, WriterReturns, WriteAnswered, RequestWrite, Join, Offline,
         tasks, port, vars
<1>2. TypeOK'
  <2>1. /\ taken' \in 0..arrived' /\ arrived' \in Counts
        /\ writer' \in {"ready", "failed", "returned"}
    BY DEF Invariant, TypeOK, Counts, Arrive, AnswerWrite, WriterStops, WriterReturns, WriteAnswered,
           RequestWrite, Join, Offline, tasks, port, vars
  <2>2. job' \in {None, "request", "trigger"}
    BY DEF Invariant, TypeOK, Arrive, AnswerWrite, WriterStops, WriterReturns, WriteAnswered,
           RequestWrite, Join, Offline, tasks, vars
  <2>3. reply' \in {None} \cup [to : {"request", "trigger"}, ok : BOOLEAN]
    <3>1. /\ job \in {None, "request", "trigger"}
          /\ reply \in {None} \cup [to : {"request", "trigger"}, ok : BOOLEAN]
      BY DEF Invariant, TypeOK
    <3>2. ASSUME job # None, NEW ok \in BOOLEAN
          PROVE  [to |-> job, ok |-> ok] \in [to : {"request", "trigger"}, ok : BOOLEAN]
      BY <3>1, <3>2
    <3>3. CASE \E ok \in BOOLEAN : AnswerWrite(ok)
      BY <3>2, <3>3 DEF AnswerWrite
    <3>4. CASE WriterStops
      BY <3>1, <3>2, <3>4 DEF WriterStops, WriterReturns
    <3>5. CASE WriteAnswered
      BY <3>5 DEF WriteAnswered
    <3>6. CASE Arrive \/ RequestWrite \/ Join \/ Offline
      BY <3>1, <3>6 DEF Arrive, RequestWrite, Join, Offline, tasks, vars
    <3> QED BY <3>3, <3>4, <3>5, <3>6
  <2>4. actor' \in {"idle", "waiting", "arming", "joining", "draining", "settling", "offline"}
    BY <1>1 DEF Invariant, TypeOK
  <2> QED BY <1>1, <2>1, <2>2, <2>3, <2>4 DEF Invariant, TypeOK
<1>3. StreamWhole'
  <2>1. Floor' = Floor
    BY <1>1 DEF Floor
  <2> QED BY <1>1, <2>1, StreamFrame
<1>4. RxSound(rx)'
  BY <1>1 DEF Invariant
<1>5. BarrierPlace'
  BY <1>1 DEF Invariant, BarrierPlace, NoBarrier
<1>6. SessionEnds'
  BY <1>1 DEF Invariant, SessionEnds
<1>20. WriteOwner'
  <2>1. WriteOwner /\ rx' = rx /\ None \notin {"request", "trigger"}
    BY <1>1 DEF Invariant
  <2>2. CASE \E ok \in BOOLEAN : AnswerWrite(ok)
    <3>1. PICK ok \in BOOLEAN : AnswerWrite(ok)
      BY <2>2
    <3>2. reply'.to = job /\ job' = None /\ job # None /\ actor' = actor
      BY <3>1 DEF AnswerWrite
    <3> QED BY <2>1, <3>2 DEF WriteOwner, InFlight
  <2>3. CASE WriterStops
    <3>1. reply' # None /\ reply' # reply => reply'.to = job /\ job # None
      BY <2>3 DEF WriterStops, WriterReturns
    <3>2. job' = None /\ actor' = actor
      BY <2>3 DEF WriterStops, WriterReturns
    <3> QED BY <2>1, <3>1, <3>2 DEF WriteOwner, InFlight
  <2>4. CASE WriteAnswered
    BY <2>1, <2>4 DEF WriteOwner, InFlight, WriteAnswered
  <2>5. CASE RequestWrite
    <3>1. /\ job' = "request" /\ reply' = reply /\ actor' = "waiting" /\ actor = "idle" /\ rx.trigger = None
      BY <2>5 DEF RequestWrite
    <3>2. reply = None
      <4>1. reply # None => reply.to \in {"request", "trigger"}
        BY DEF Invariant, TypeOK
      <4> QED BY <2>1, <3>1, <4>1 DEF WriteOwner, InFlight
    <3> QED BY <2>1, <3>1, <3>2 DEF WriteOwner, InFlight
  <2>6. CASE Arrive \/ Join \/ Offline
    BY <2>1, <2>6 DEF WriteOwner, InFlight, Arrive, Join, Offline, tasks, vars
  <2> QED BY <2>2, <2>3, <2>4, <2>5, <2>6
<1> QED BY <1>2, <1>3, <1>4, <1>5, <1>6, <1>20 DEF Invariant

\* The reader returns with what it has.
LEMMA ReaderStopsStep ==
    ASSUME Invariant, ReaderStops
    PROVE  Invariant'
<1>1. /\ UNCHANGED <<port, asked, events, cancel, tasks, actor, mark, rx>>
      /\ reader \in Reader /\ reader.place # "returned"
  BY DEF ReaderStops, Invariant, TypeOK
<1>2. PICK next : next = [reader EXCEPT !.place = "returned"]
  OBVIOUS
<1>3. /\ reader' \in Reader /\ reader'.place = "returned"
      /\ reader'.pending = reader.pending /\ reader'.dropped = reader.dropped
  <2>1. /\ next \in Reader /\ next.place = "returned"
        /\ next.pending = reader.pending /\ next.dropped = reader.dropped
    BY <1>1, <1>2 DEF Reader
  <2> QED BY <1>2, <2>1 DEF ReaderStops
<1>4. TypeOK'
  BY <1>1, <1>3 DEF Invariant, TypeOK, port, tasks
<1>5. StreamWhole'
  <2>1. Floor' = Floor /\ rx' = rx /\ UNCHANGED <<taken, events>>
    BY <1>1 DEF Floor, port
  <2> QED BY <1>3, <2>1, StreamFrame
<1>6. RxSound(rx)'
  BY <1>1 DEF Invariant
<1>7. BarrierPlace'
  BY <1>1, <1>3 DEF Invariant, BarrierPlace, NoBarrier, port
<1>8. SessionEnds'
  BY <1>1, <1>3 DEF Invariant, SessionEnds, tasks
<1>20. WriteOwner'
  BY <1>1 DEF Invariant, WriteOwner, tasks
<1> QED BY <1>4, <1>5, <1>6, <1>7, <1>8, <1>20 DEF Invariant

\* StartTrigger asks for its barrier: nothing in the queue is one.
LEMMA RequestBarrierStep ==
    ASSUME Invariant, RequestBarrier
    PROVE  Invariant'
<1>1. /\ UNCHANGED <<port, reader, events, cancel, tasks, rx>>
      /\ actor = "idle" /\ actor' = "arming" /\ asked' = TRUE /\ mark' = taken /\ rx.trigger = None
  BY DEF RequestBarrier
<1>2. NoBarrier /\ reader.place \notin {"gap", "marker"}
  BY <1>1 DEF Invariant, BarrierPlace
<1>3. TypeOK'
  BY <1>1, Places DEF Invariant, TypeOK, port, tasks
<1>4. StreamWhole'
  BY <1>1, <1>2, StreamFrame DEF port
<1>5. RxSound(rx)'
  BY <1>1 DEF Invariant
<1>6. BarrierPlace'
  BY <1>1, <1>2, Places DEF Invariant, BarrierPlace, NoBarrier, port
<1>7. SessionEnds'
  BY <1>1 DEF Invariant, SessionEnds, tasks
<1>20. WriteOwner'
  BY <1>1 DEF Invariant, WriteOwner, tasks
<1> QED BY <1>3, <1>4, <1>5, <1>6, <1>7, <1>20 DEF Invariant

-----------------------------------------------------------------------------
(* The steps that fill the queue *)

\* A queue with room takes another event, which is a barrier only if there is none.
LEMMA QueueAppend ==
    ASSUME Invariant, Room, NEW event \in Event, Fitting(event, Queued, Floor),
           NEW queue, queue = Append(events, event)
    PROVE  /\ queue \in Seq(Event) /\ Len(queue) <= Queue
           /\ Covers(queue, Handled(rx), Queued + Amount(event), Floor)
           /\ event.kind # "barrier" => SameBarriers(queue)
<1>1. /\ events \in Seq(Event) /\ Len(events) \in Nat /\ Len(events) < Queue
      /\ Handled(rx) \in Nat /\ Queued \in Nat /\ Queue \in Nat
  BY Places DEF Room
<1>2. Covers(events, Handled(rx), Queued, Floor)
  BY DEF Invariant, StreamWhole
<1>3. Covers(Append(events, event), Handled(rx), Queued + Amount(event), Floor)
  BY <1>1, <1>2, CoversAppend
<1>4. SameBarriers(events)
  BY DEF SameBarriers
<1>5. event.kind # "barrier" => SameBarriers(Append(events, event))
  BY <1>1, <1>4, BarriersAppend
<1> QED BY <1>1, <1>3, <1>5

\* Barriers of a queue that has those of the present one.
LEMMA SameBarriersKept ==
    ASSUME SameBarriers(events')
    PROVE  /\ NoBarrier => NoBarrier'
           /\ (\A k, l \in 1..Len(events) : events[k].kind = "barrier" /\ events[l].kind = "barrier" => k = l)
              => (\A k, l \in 1..Len(events') : events'[k].kind = "barrier" /\ events'[l].kind = "barrier" => k = l)
BY DEF SameBarriers, NoBarrier

\* The reader offers what is pending: the stream stays whole.
LEMMA OfferWhole ==
    ASSUME Invariant, NEW pending \in Seq(Bytes),
           NEW place \in {"reading", "gap", "marker", "closing", "returned"},
           Offer(pending, place), UNCHANGED <<actor, mark, rx>>,
           taken' \in Counts, taken' = Queued + reader.dropped + Len(pending),
           Placed(pending, Queued + reader.dropped)
    PROVE  /\ events' \in Seq(Event) /\ Len(events') <= Queue
           /\ reader' \in Reader /\ reader'.place = place
           /\ reader'.pending = <<>> /\ Len(reader'.pending) = 0
           /\ reader'.dropped = EnqueueRx(pending, reader.dropped).dropped
           /\ StreamWhole' /\ SameBarriers(events')
<1>1. PICK result : result = EnqueueRx(pending, reader.dropped)
  OBVIOUS
<1>2. /\ TypeOK /\ reader.dropped \in Counts /\ reader.dropped \in Nat /\ Handled(rx) \in Nat /\ Queued \in Nat
      /\ Len(pending) \in Nat /\ taken' \in Nat /\ taken' <= MaxBytes /\ MaxBytes \in Nat
      /\ Covers(events, Handled(rx), Queued, Floor)
  BY Places DEF Invariant, StreamWhole, Counts
<1>3. /\ result.events \in Seq(Event) /\ Len(result.events) <= Queue
      /\ result.dropped \in Counts /\ result.dropped <= reader.dropped + Len(pending)
      /\ Covers(result.events, Handled(rx), Queued + reader.dropped + Len(pending) - result.dropped, Floor)
      /\ SameBarriers(result.events)
  BY <1>1, <1>2, EnqueueCovers
<1>4. PICK empty : empty = <<>>
  OBVIOUS
<1>5. empty \in Seq(Bytes) /\ Len(empty) = 0
  BY <1>4
<1>6. PICK next : next = [place |-> place, pending |-> empty, dropped |-> result.dropped]
  OBVIOUS
<1>7. next \in Reader /\ next.place = place /\ next.pending = empty /\ next.dropped = result.dropped
  BY <1>3, <1>5, <1>6 DEF Reader
<1>8. events' = result.events /\ reader' = next
  BY <1>1, <1>4, <1>6 DEF Offer
<1>9. result.dropped \in Nat
  BY <1>3 DEF Counts
<1>10. Queued' = taken' - result.dropped /\ reader'.dropped + Len(reader'.pending) = result.dropped
  BY <1>2, <1>5, <1>7, <1>8, <1>9 DEF Queued
<1>11. Floor' = Floor
  BY DEF Floor
<1>12. StreamWhole'
  <2>1. result.dropped <= taken'
    BY <1>2, <1>3, <1>9
  <2>2. Covers(events', Handled(rx'), Queued', Floor')
    <3>1. Queued' = Queued + reader.dropped + Len(pending) - result.dropped
      BY <1>2, <1>9, <1>10
    <3>2. Covers(result.events, Handled(rx), Queued', Floor)
      BY <1>3, <3>1
    <3>3. rx' = rx
      OBVIOUS
    <3> QED BY <1>8, <1>11, <3>2, <3>3
  <2>3. Placed(reader'.pending, Queued' + reader'.dropped)
    BY <1>5, <1>7, <1>8 DEF Placed
  <2> QED BY <1>10, <2>1, <2>2, <2>3 DEF StreamWhole
<1> QED BY <1>1, <1>3, <1>4, <1>5, <1>7, <1>8, <1>12

\* Bytes are read, and offered when the buffer is full.
LEMMA ReadBytesStep ==
    ASSUME Invariant, NEW n \in Bytes, ReadBytes(n)
    PROVE  Invariant'
<1>1. /\ UNCHANGED <<arrived, asked, cancel, tasks, actor, mark, rx>>
      /\ reader.place = "reading" /\ n <= arrived - taken /\ n <= Buffer - Len(reader.pending)
      /\ taken' = taken + n /\ n \in Nat /\ n > 0
  BY DEF ReadBytes, Reading, Bytes
<1>2. /\ arrived \in Nat /\ arrived <= MaxBytes /\ reader \in Reader
      /\ Buffer \in Nat /\ Buffer > 0
  BY DEF Invariant, TypeOK, Counts
<1>11. /\ taken \in Nat /\ MaxBytes \in Nat /\ Queued \in Nat /\ reader.dropped \in Nat
       /\ Len(reader.pending) \in Nat
       /\ Queued + reader.dropped + Len(reader.pending) = taken
  BY Places
<1>12. reader.pending \in Seq(Bytes)
  BY Places
<1>3. taken' \in Counts /\ taken' \in 0..arrived /\ taken' \in Nat /\ taken + n <= MaxBytes
  BY <1>1, <1>2, <1>11 DEF Counts
<1>4. PICK pending : pending = reader.pending \o [i \in 1..n |-> taken + i]
  OBVIOUS
<1>5. /\ [i \in 1..n |-> taken + i] \in Seq(Bytes)
      /\ Len([i \in 1..n |-> taken + i]) = n
  <2>1. \A i \in 1..n : taken + i \in Bytes
    BY <1>1, <1>3, <1>11 DEF Bytes
  <2>2. [i \in 1..n |-> taken + i] \in [1..n -> Bytes]
    BY <2>1
  <2> QED BY <1>1, <2>2
<1>6. /\ pending \in Seq(Bytes) /\ Len(pending) = Len(reader.pending) + n
      /\ \A k \in 1..Len(reader.pending) : pending[k] = reader.pending[k]
      /\ \A k \in Len(reader.pending) + 1 .. Len(reader.pending) + n : pending[k] = taken + (k - Len(reader.pending))
  <2>1. PICK fresh \in Seq(Bytes) : fresh = [i \in 1..n |-> taken + i]
    BY <1>5
  <2>2. Len(fresh) = n /\ \A i \in 1..n : fresh[i] = taken + i
    BY <1>5, <2>1
  <2>3. pending = reader.pending \o fresh
    BY <1>4, <2>1
  <2>4. PICK old \in Seq(Bytes) : old = reader.pending
    BY <1>12
  <2>5. pending = old \o fresh /\ Len(old) \in Nat
    BY <2>3, <2>4
  <2>6. /\ pending \in Seq(Bytes) /\ Len(pending) = Len(old) + Len(fresh)
        /\ \A k \in 1..Len(old) : pending[k] = old[k]
        /\ \A k \in Len(old) + 1 .. Len(old) + Len(fresh) : pending[k] = fresh[k - Len(old)]
    BY <2>5
  <2>7. \A k \in Len(old) + 1 .. Len(old) + n : k - Len(old) \in 1..n
    BY <1>1, <2>5
  <2> QED BY <2>2, <2>4, <2>6, <2>7
<1>7. Placed(pending, Queued + reader.dropped)
  <2>1. SUFFICES ASSUME NEW k \in 1..Len(pending) PROVE pending[k] = Queued + reader.dropped + k
    BY DEF Placed
  <2>2. CASE k \in 1..Len(reader.pending)
    BY <1>6, <2>2 DEF Invariant, StreamWhole, Placed
  <2>3. CASE k \in Len(reader.pending) + 1 .. Len(reader.pending) + n
    <3>1. pending[k] = taken + (k - Len(reader.pending))
      BY <1>6, <2>3
    <3>3. k \in Nat
      BY <1>1, <1>11, <2>3
    <3>2. taken + (k - Len(reader.pending)) = Queued + reader.dropped + k
      <4>1. PICK q \in Nat, d \in Nat, l \in Nat, t \in Nat :
               q = Queued /\ d = reader.dropped /\ l = Len(reader.pending) /\ t = taken
        BY <1>11
      <4>2. q + d + l = t
        BY <1>11, <4>1
      <4>3. t + (k - l) = q + d + k
        BY <3>3, <4>2
      <4> QED BY <4>1, <4>3
    <3> QED BY <3>1, <3>2
  <2> QED BY <1>1, <1>6, <1>11, <2>1, <2>2, <2>3
<1>8. taken' = Queued + reader.dropped + Len(pending)
  <2>1. PICK q \in Nat, d \in Nat, l \in Nat, t \in Nat :
           q = Queued /\ d = reader.dropped /\ l = Len(reader.pending) /\ t = taken
    BY <1>11
  <2>2. q + d + l = t /\ n \in Nat
    BY <1>1, <1>11, <2>1
  <2>3. t + n = q + d + (l + n)
    BY <2>2
  <2>4. taken + n = Queued + reader.dropped + (Len(reader.pending) + n)
    BY <2>1, <2>3
  <2> QED BY <1>1, <1>6, <2>4
<1>9. CASE Len(pending) >= Buffer
  <2>1. Offer(pending, "reading")
    BY <1>4, <1>9 DEF ReadBytes
  <2>2. /\ events' \in Seq(Event) /\ Len(events') <= Queue
        /\ reader' \in Reader /\ reader'.place = "reading"
        /\ reader'.pending = <<>> /\ Len(reader'.pending) = 0
        /\ StreamWhole' /\ SameBarriers(events')
    BY <1>1, <1>3, <1>6, <1>7, <1>8, <2>1, OfferWhole
  <2>3. TypeOK'
    BY <1>1, <1>2, <1>3, <2>2 DEF Invariant, TypeOK, tasks
  <2>4. BarrierPlace'
    <3>1. actor' = "arming" => mark' <= taken'
      BY <1>1, <1>11 DEF Invariant, BarrierPlace, TypeOK, Counts
    <3> QED BY <1>1, <2>2, <3>1, SameBarriersKept DEF Invariant, BarrierPlace
  <2>5. SessionEnds'
    BY <1>1 DEF Invariant, SessionEnds, tasks
  <2>20. WriteOwner'
    BY <1>1 DEF Invariant, WriteOwner, tasks
  <2> QED BY <1>1, <2>2, <2>3, <2>4, <2>5, <2>20 DEF Invariant
<1>10. CASE ~(Len(pending) >= Buffer)
  <2>1. reader' = [reader EXCEPT !.pending = pending] /\ UNCHANGED events
    BY <1>4, <1>10 DEF ReadBytes
  <2>2. PICK next : next = [reader EXCEPT !.pending = pending]
    OBVIOUS
  <2>3. next \in Reader /\ next.place = "reading" /\ next.pending = pending /\ next.dropped = reader.dropped
    BY <1>1, <1>2, <1>6, <2>2 DEF Reader
  <2>4. reader' = next
    BY <2>1, <2>2
  <2>5. Len(pending) < Buffer
    BY <1>2, <1>6, <1>10
  <2>6. TypeOK'
    BY <1>1, <1>3, <2>1, <2>3, <2>4, <2>5 DEF Invariant, TypeOK, tasks
  <2>7. Queued' = Queued
    <3>1. Queued = taken - (reader.dropped + Len(reader.pending))
      BY DEF Queued
    <3>2. Queued' = taken + n - (reader.dropped + (Len(reader.pending) + n))
      <4>1. Queued' = taken' - (reader'.dropped + Len(reader'.pending))
        BY DEF Queued
      <4>2. reader'.dropped = reader.dropped /\ Len(reader'.pending) = Len(reader.pending) + n
        BY <1>6, <2>3, <2>4
      <4>3. taken' = taken + n
        BY <1>1
      <4>4. taken \in Nat /\ n \in Nat /\ reader.dropped \in Nat /\ Len(reader.pending) \in Nat
        BY <1>1, <1>11
      <4> QED BY <4>1, <4>2, <4>3, <4>4
    <3> QED BY <1>1, <1>11, <3>1, <3>2
  <2>8. StreamWhole'
    <3>1. reader'.dropped + Len(reader'.pending) <= taken'
      <4>1. reader.dropped + (Len(reader.pending) + n) <= taken + n
        BY <1>1, <1>11
      <4> QED BY <1>1, <1>6, <2>3, <2>4, <4>1
    <3>2. Floor' = Floor /\ rx' = rx
      BY <1>1 DEF Floor
    <3>3. Covers(events', Handled(rx'), Queued', Floor')
      BY <2>1, <2>7, <3>2 DEF Invariant, StreamWhole
    <3>4. Placed(reader'.pending, Queued' + reader'.dropped)
      BY <1>7, <2>3, <2>4, <2>7
    <3> QED BY <3>1, <3>3, <3>4 DEF StreamWhole
  <2>9. BarrierPlace'
    <3>1. actor' = "arming" => mark' <= taken'
      BY <1>1, <1>11 DEF Invariant, BarrierPlace, TypeOK, Counts
    <3> QED BY <1>1, <2>1, <2>3, <2>4, <3>1 DEF Invariant, BarrierPlace, NoBarrier
  <2>10. SessionEnds'
    BY <1>1 DEF Invariant, SessionEnds, tasks
  <2>20. WriteOwner'
    BY <1>1 DEF Invariant, WriteOwner, tasks
  <2> QED BY <1>1, <2>6, <2>8, <2>9, <2>10, <2>20 DEF Invariant
<1> QED BY <1>9, <1>10

\* What is pending is offered: when its window has passed, before a barrier, or before
\* the reader reports the port's end.
LEMMA OfferStep ==
    ASSUME Invariant, Flush \/ TakeBarrier \/ ReadFails
    PROVE  Invariant'
<1>1. /\ UNCHANGED <<port, cancel, tasks, actor, mark, rx>>
      /\ reader.place = "reading"
      /\ asked' = asked \/ asked' = FALSE
  BY DEF Flush, TakeBarrier, ReadFails, Reading
<1>2. PICK place \in {"reading", "gap", "marker", "closing"} :
         /\ Offer(reader.pending, place)
         /\ place \in {"gap", "marker"} => asked /\ ~asked'
         /\ place = "marker" => ~(EnqueueRx(reader.pending, reader.dropped).dropped > 0)
         /\ place = "closing" => asked' = asked
  BY DEF Flush, TakeBarrier, ReadFails
<1>3. /\ reader.pending \in Seq(Bytes) /\ taken' \in Counts
      /\ taken' = Queued + reader.dropped + Len(reader.pending)
      /\ Placed(reader.pending, Queued + reader.dropped)
  BY <1>1, Places DEF port, Invariant, StreamWhole
<1>4. /\ events' \in Seq(Event) /\ Len(events') <= Queue
      /\ reader' \in Reader /\ reader'.place = place
      /\ reader'.pending = <<>> /\ Len(reader'.pending) = 0
      /\ reader'.dropped = EnqueueRx(reader.pending, reader.dropped).dropped
      /\ StreamWhole' /\ SameBarriers(events')
  BY <1>1, <1>2, <1>3, OfferWhole
<1>5. TypeOK'
  <2>1. Len(reader'.pending) < Buffer
    BY <1>4
  <2> QED BY <1>1, <1>4, <2>1 DEF Invariant, TypeOK, tasks, port
<1>6. place = "marker" => reader'.dropped = 0
  BY <1>2, <1>4 DEF Reader, Counts
<1>7. BarrierPlace'
  <2>1. place \in {"gap", "marker"} => NoBarrier /\ actor \notin {"idle", "waiting"}
    BY <1>2 DEF Invariant, BarrierPlace
  <2>2. NoBarrier => NoBarrier'
    BY <1>4, SameBarriersKept
  <2> QED BY <1>1, <1>2, <1>4, <1>6, <2>1, <2>2, SameBarriersKept DEF Invariant, BarrierPlace, port
<1>8. SessionEnds'
  BY <1>1 DEF Invariant, SessionEnds, tasks
<1>20. WriteOwner'
  BY <1>1 DEF Invariant, WriteOwner, tasks
<1> QED BY <1>1, <1>4, <1>5, <1>7, <1>8, <1>20 DEF Invariant

\* The gap that waited for room goes ahead of the marker, or with the port's end.
LEMMA SendDroppedStep ==
    ASSUME Invariant, SendGap \/ SendClosed
    PROVE  Invariant'
<1>1. /\ UNCHANGED <<port, asked, cancel, tasks, actor, mark, rx>>
      /\ reader.place \in {"gap", "closing"} /\ Room
      /\ reader.place = "gap" => events' = Append(events, Overflow(reader.dropped))
      /\ reader.place = "closing" => events' = Append(events, Closed(reader.dropped))
  BY DEF SendGap, SendClosed
<1>2. /\ reader.dropped \in Counts /\ reader.dropped \in Nat /\ taken \in Nat /\ Queued \in Nat
      /\ Queued + reader.dropped + Len(reader.pending) = taken
  BY Places
<1>3. reader.pending = <<>> /\ Len(reader.pending) = 0
  BY <1>1 DEF Invariant, BarrierPlace
<1>4. Queued + reader.dropped = taken
  BY <1>2, <1>3
<1>5. PICK event \in Event : /\ event.kind \in {"overflow", "closed"} /\ Amount(event) = reader.dropped
                             /\ events' = Append(events, event)
  BY <1>1, <1>2, EventFields
<1>6. Fitting(event, Queued, Floor)
  BY <1>5 DEF Fitting
<1>7. /\ events' \in Seq(Event) /\ Len(events') <= Queue
      /\ Covers(events', Handled(rx), taken, Floor) /\ SameBarriers(events')
  BY <1>1, <1>4, <1>5, <1>6, QueueAppend
<1>8. /\ reader' \in Reader /\ reader'.pending = <<>> /\ Len(reader'.pending) = 0 /\ reader'.dropped = 0
      /\ reader.place = "gap" => reader'.place = "marker"
      /\ reader.place = "closing" => reader'.place = "returned"
  <2>1. reader \in Reader
    BY DEF Invariant, TypeOK
  <2>2. CASE SendGap
    <3>1. PICK none \in Counts : none = 0
      BY DEF Counts
    <3>2. PICK next : next = [reader EXCEPT !.place = "marker", !.dropped = none]
      OBVIOUS
    <3>3. next \in Reader /\ next.place = "marker" /\ next.pending = reader.pending /\ next.dropped = none
      BY <2>1, <3>2 DEF Reader
    <3>4. reader' = next /\ reader.place = "gap"
      BY <2>2, <3>1, <3>2 DEF SendGap
    <3> QED BY <1>3, <3>1, <3>3, <3>4
  <2>3. CASE SendClosed
    <3>1. PICK none \in Counts : none = 0
      BY DEF Counts
    <3>2. PICK next : next = [place |-> "returned", pending |-> reader.pending, dropped |-> none]
      OBVIOUS
    <3>3. next \in Reader /\ next.place = "returned" /\ next.pending = reader.pending /\ next.dropped = none
      BY <2>1, <3>2 DEF Reader
    <3>4. reader' = next /\ reader.place = "closing"
      BY <1>3, <2>3, <3>1, <3>2 DEF SendClosed
    <3> QED BY <1>3, <3>1, <3>3, <3>4
  <2> QED BY <2>2, <2>3
<1>9. TypeOK'
  <2>1. Len(reader'.pending) < Buffer
    BY <1>8
  <2> QED BY <1>1, <1>7, <1>8, <2>1 DEF Invariant, TypeOK, tasks, port
<1>10. StreamWhole'
  <2>1. /\ Queued' = taken /\ Floor' = Floor /\ rx' = rx
        /\ reader'.dropped + Len(reader'.pending) <= taken'
    BY <1>1, <1>2, <1>8 DEF Queued, Floor, port
  <2>2. Covers(events', Handled(rx'), Queued', Floor')
    BY <1>7, <2>1
  <2>3. Placed(reader'.pending, Queued' + reader'.dropped)
    BY <1>8 DEF Placed
  <2> QED BY <2>1, <2>2, <2>3 DEF StreamWhole
<1>11. BarrierPlace'
  BY <1>1, <1>7, <1>8, SameBarriersKept DEF Invariant, BarrierPlace, port
<1>12. SessionEnds'
  BY <1>1 DEF Invariant, SessionEnds, tasks
<1>20. WriteOwner'
  BY <1>1 DEF Invariant, WriteOwner, tasks
<1> QED BY <1>1, <1>9, <1>10, <1>11, <1>12, <1>20 DEF Invariant

\* The marker goes behind everything that had been read when it was requested.
LEMMA SendMarkerStep ==
    ASSUME Invariant, SendMarker
    PROVE  Invariant'
<1>1. /\ UNCHANGED <<port, asked, cancel, tasks, actor, mark, rx>>
      /\ reader.place = "marker" /\ Room /\ events' = Append(events, Barrier)
  BY DEF SendMarker
<1>2. /\ reader.pending = <<>> /\ Len(reader.pending) = 0 /\ reader.dropped = 0 /\ NoBarrier
      /\ ~asked /\ actor \notin {"idle", "waiting"}
  BY <1>1 DEF Invariant, BarrierPlace
<1>3. Queued = taken /\ taken \in Nat /\ events \in Seq(Event) /\ Len(events) \in Nat
  BY <1>2, Places
<1>4. Floor <= taken
  BY <1>3 DEF Floor, Invariant, BarrierPlace
<1>5. Barrier \in Event /\ Barrier.kind = "barrier" /\ Amount(Barrier) = 0
  BY EventFields
<1>6. Fitting(Barrier, Queued, Floor)
  BY <1>3, <1>4, <1>5 DEF Fitting
<1>7. /\ events' \in Seq(Event) /\ Len(events') <= Queue
      /\ Covers(events', Handled(rx), taken, Floor)
  <2>1. Queued + Amount(Barrier) = taken
    BY <1>3, <1>5
  <2> QED BY <1>1, <1>5, <1>6, <2>1, QueueAppend
<1>8. \A k \in 1..Len(events') : events'[k].kind = "barrier" => k = Len(events) + 1
  <2>7. PICK event : event = Barrier
    OBVIOUS
  <2>1. PICK queue \in Seq(Event) : queue = events
    BY <1>3
  <2>2. PICK longer : longer = Append(queue, event)
    OBVIOUS
  <2>3. /\ Len(longer) = Len(queue) + 1 /\ Len(queue) \in Nat
        /\ \A k \in 1..Len(queue) : longer[k] = queue[k]
    BY <2>1, <2>2
  <2>4. \A k \in 1..Len(queue) : queue[k].kind # "barrier"
    BY <1>2, <2>1 DEF NoBarrier
  <2>5. \A k \in 1..Len(longer) : longer[k].kind = "barrier" => k = Len(queue) + 1
    BY <2>3, <2>4
  <2>6. events' = longer
    BY <1>1, <2>1, <2>2, <2>7
  <2> QED BY <2>1, <2>5, <2>6
<1>9. /\ reader' \in Reader /\ reader'.place = "reading"
      /\ reader'.pending = reader.pending /\ reader'.dropped = reader.dropped
  <2>1. PICK next : next = [reader EXCEPT !.place = "reading"]
    OBVIOUS
  <2>2. /\ next \in Reader /\ next.place = "reading"
        /\ next.pending = reader.pending /\ next.dropped = reader.dropped
    BY <2>1 DEF Invariant, TypeOK, Reader
  <2> QED BY <2>1, <2>2 DEF SendMarker
<1>10. TypeOK'
  BY <1>1, <1>7, <1>9 DEF Invariant, TypeOK, tasks, port
<1>11. StreamWhole'
  <2>1. Queued' = Queued /\ Floor' = Floor /\ rx' = rx /\ taken' = taken
    BY <1>1, <1>9 DEF Queued, Floor, port
  <2>2. Covers(events', Handled(rx'), Queued', Floor')
    BY <1>3, <1>7, <2>1
  <2> QED BY <1>9, <2>1, <2>2 DEF Invariant, StreamWhole
<1>12. BarrierPlace'
  BY <1>1, <1>2, <1>8, <1>9 DEF Invariant, BarrierPlace, port
<1>13. SessionEnds'
  BY <1>1 DEF Invariant, SessionEnds, tasks
<1>20. WriteOwner'
  BY <1>1 DEF Invariant, WriteOwner, tasks
<1> QED BY <1>1, <1>10, <1>11, <1>12, <1>13, <1>20 DEF Invariant

\* The writer reports a failure as the port's end, in which no byte is counted.
LEMMA WriterSendsClosedStep ==
    ASSUME Invariant, WriterSendsClosed
    PROVE  Invariant'
<1>1. /\ UNCHANGED <<port, reader, asked, cancel, actor, mark, rx>>
      /\ writer = "failed" /\ writer' = "returned" /\ Room /\ events' = Append(events, Closed(0))
      /\ job' = None /\ (reply' = reply \/ (job # None /\ reply' = [to |-> job, ok |-> FALSE]))
  BY DEF WriterSendsClosed, WriterReturns
<1>2. PICK event \in Event : event.kind = "closed" /\ Amount(event) = 0 /\ events' = Append(events, event)
  <2>1. 0 \in Counts
    BY DEF Counts
  <2> QED BY <1>1, <2>1, EventFields
<1>3. Fitting(event, Queued, Floor)
  BY <1>2 DEF Fitting
<1>4. /\ events' \in Seq(Event) /\ Len(events') <= Queue
      /\ Covers(events', Handled(rx), Queued, Floor) /\ SameBarriers(events')
  <2>1. Queued + Amount(event) = Queued
    BY <1>2, Places
  <2> QED BY <1>1, <1>2, <1>3, <2>1, QueueAppend
<1>5. TypeOK'
  <2>1. reply' \in {None} \cup [to : {"request", "trigger"}, ok : BOOLEAN]
    <3>1. job # None => [to |-> job, ok |-> FALSE] \in [to : {"request", "trigger"}, ok : BOOLEAN]
      BY DEF Invariant, TypeOK
    <3>2. reply \in {None} \cup [to : {"request", "trigger"}, ok : BOOLEAN]
      BY DEF Invariant, TypeOK
    <3> QED BY <1>1, <3>1, <3>2
  <2> QED BY <1>1, <1>4, <2>1 DEF Invariant, TypeOK, port
<1>6. StreamWhole'
  <2>1. Queued' = Queued /\ Floor' = Floor /\ rx' = rx /\ taken' = taken /\ reader' = reader
    BY <1>1 DEF Queued, Floor, port
  <2> QED BY <1>4, <2>1 DEF Invariant, StreamWhole
<1>7. BarrierPlace'
  BY <1>1, <1>4, SameBarriersKept DEF Invariant, BarrierPlace, port
<1>8. SessionEnds'
  BY <1>1 DEF Invariant, SessionEnds
<1>20. WriteOwner'
  <2>1. reply' # None /\ reply' # reply => reply'.to = job /\ job # None
    BY <1>1
  <2>2. job' # "trigger" /\ job' # "request" /\ job' = None
    BY <1>1
  <2> QED BY <1>1, <2>1, <2>2 DEF Invariant, WriteOwner, InFlight
<1> QED BY <1>1, <1>5, <1>6, <1>7, <1>8, <1>20 DEF Invariant

-----------------------------------------------------------------------------
(* The steps that empty the queue *)

\* The first event fits where the actor has come to, and the rest follows it.
LEMMA QueueHead ==
    ASSUME Invariant, events # <<>>, events' = Tail(events)
    PROVE  /\ Head(events) \in Event /\ Amount(Head(events)) \in Nat
           /\ Fitting(Head(events), Handled(rx), Floor)
           /\ Handled(rx) + Amount(Head(events)) <= MaxBytes
           /\ events' \in Seq(Event) /\ Len(events') <= Queue
           /\ Covers(events', Handled(rx) + Amount(Head(events)), Queued, Floor)
           /\ NoBarrier => NoBarrier'
           /\ Head(events).kind = "barrier" => NoBarrier'
           /\ \A k, l \in 1..Len(events') : events'[k].kind = "barrier" /\ events'[l].kind = "barrier" => k = l
<1>1. /\ events \in Seq(Event) /\ Len(events) \in Nat /\ Len(events) <= Queue /\ Queue \in Nat
      /\ Handled(rx) \in Nat /\ Queued \in Nat /\ Queued <= MaxBytes /\ MaxBytes \in Nat
  <2>1. /\ Queued \in Nat /\ reader.dropped \in Nat /\ Len(reader.pending) \in Nat
        /\ Queued + reader.dropped + Len(reader.pending) = taken /\ taken <= MaxBytes /\ MaxBytes \in Nat
    BY Places
  <2>2. Queued <= MaxBytes
    BY <2>1
  <2> QED BY <2>2, Places
<1>2. PICK queue \in Seq(Event) : queue = events
  BY <1>1
<1>3. /\ Len(queue) \in Nat /\ Len(queue) > 0 /\ Head(queue) = queue[1] /\ Head(queue) \in Event
      /\ Tail(queue) \in Seq(Event) /\ Len(Tail(queue)) = Len(queue) - 1
      /\ \A k \in 1..Len(queue) - 1 : Tail(queue)[k] = queue[k + 1]
  BY <1>2
<1>4. Covers(queue, Handled(rx), Queued, Floor)
  BY <1>2 DEF Invariant, StreamWhole
<1>5. /\ Fitting(Head(queue), Handled(rx), Floor)
      /\ Handled(rx) + Amount(Head(queue)) <= Queued
      /\ Covers(Tail(queue), Handled(rx) + Amount(Head(queue)), Queued, Floor)
  BY <1>1, <1>2, <1>4, CoversTail
<1>6. Amount(Head(queue)) \in Nat
  BY <1>3, AmountType
<1>7. Handled(rx) + Amount(Head(queue)) <= MaxBytes
  BY <1>1, <1>5, <1>6
<1>8. \A k, l \in 1..Len(queue) : queue[k].kind = "barrier" /\ queue[l].kind = "barrier" => k = l
  BY <1>2 DEF Invariant, BarrierPlace
<1>9. PICK rest : rest = Tail(queue)
  OBVIOUS
<1>10. \A k \in 1..Len(rest) : rest[k] = queue[k + 1] /\ k + 1 \in 1..Len(queue) /\ k + 1 # 1 /\ k \in Nat
  BY <1>3, <1>9
<1>11. 1 \in 1..Len(queue)
  BY <1>3
<1>12. NoBarrier => \A k \in 1..Len(rest) : rest[k].kind # "barrier"
  BY <1>2, <1>10 DEF NoBarrier
<1>13. Head(queue).kind = "barrier" => \A k \in 1..Len(rest) : rest[k].kind # "barrier"
  BY <1>3, <1>8, <1>10, <1>11
<1>14. \A k, l \in 1..Len(rest) : rest[k].kind = "barrier" /\ rest[l].kind = "barrier" => k = l
  <2>1. SUFFICES ASSUME NEW k \in 1..Len(rest), NEW l \in 1..Len(rest),
                        rest[k].kind = "barrier", rest[l].kind = "barrier"
                 PROVE  k = l
    OBVIOUS
  <2>2. k + 1 = l + 1
    BY <1>8, <1>10, <2>1
  <2> QED BY <1>10, <2>2
<1>15. events' = rest
  BY <1>2, <1>9
<1>16. Len(rest) <= Queue
  BY <1>1, <1>2, <1>3, <1>9
<1>17. NoBarrier' <=> \A k \in 1..Len(rest) : rest[k].kind # "barrier"
  BY <1>15 DEF NoBarrier
<1> QED BY <1>2, <1>3, <1>5, <1>6, <1>7, <1>9, <1>12, <1>13, <1>14, <1>15, <1>16, <1>17

\* The stream stays whole when the actor has come past the first event.
LEMMA ConsumeWhole ==
    ASSUME Invariant, events # <<>>, events' = Tail(events), UNCHANGED <<taken, reader>>,
           Handled(rx') = Handled(rx) + Amount(Head(events)),
           Floor' = Floor \/ Floor' = 0
    PROVE  StreamWhole'
<1>1. Covers(events', Handled(rx'), Queued, Floor)
  BY QueueHead
<1>6. PICK floor : floor = Floor'
  OBVIOUS
<1>2. PICK queue \in Seq(Event) : queue = events'
  BY QueueHead
<1>3. Covers(queue, Handled(rx'), Queued, floor)
  BY <1>1, <1>2, <1>6, CoversFloor
<1>4. Queued' = Queued
  BY DEF Queued
<1>5. Covers(events', Handled(rx'), Queued', Floor')
  BY <1>2, <1>3, <1>4, <1>6
<1> QED BY <1>4, <1>5 DEF Invariant, StreamWhole

\* The actor takes an event, in a turn of its own or when it empties the queue of a
\* port it has closed.
LEMMA ReceiveStep ==
    ASSUME Invariant,
           \/ \E matched \in BOOLEAN : ReceiveRx(matched) \/ DrainEvent(matched)
           \/ ReceiveOverflow \/ ReceiveClosed
    PROVE  Invariant'
<1>1. /\ UNCHANGED <<port, reader, asked, tasks, mark>>
      /\ events # <<>> /\ events' = Tail(events)
      /\ actor \in {"idle", "arming", "draining"}
      /\ actor' = actor \/ (actor \in {"idle", "arming"} /\ actor' = "joining")
      /\ cancel' = cancel \/ cancel' = TRUE
  BY DEF ReceiveRx, DrainEvent, ReceiveOverflow, ReceiveClosed, Listening
<1>2. /\ Head(events) \in Event /\ Amount(Head(events)) \in Nat
      /\ Fitting(Head(events), Handled(rx), Floor)
      /\ Handled(rx) + Amount(Head(events)) <= MaxBytes
      /\ events' \in Seq(Event) /\ Len(events') <= Queue
      /\ NoBarrier => NoBarrier'
      /\ \A k, l \in 1..Len(events') : events'[k].kind = "barrier" /\ events'[l].kind = "barrier" => k = l
  BY <1>1, QueueHead
<1>3. rx \in RxState /\ RxSound(rx) /\ Handled(rx) \in Nat
  BY Places DEF Invariant
<1>4. PICK event \in Event : event = Head(events)
  BY <1>2
<1>5. /\ rx' \in RxState /\ RxSound(rx') /\ Handled(rx') = Handled(rx) + Amount(event)
      /\ InFlight(rx') <=> InFlight(rx)
      /\ rx.trigger = None => rx'.trigger = None
  <2>1. ASSUME event.kind = "rx", NEW matched \in BOOLEAN
        PROVE  LET s == HandleRxData(rx, event.data, matched)
               IN  /\ s \in RxState /\ RxSound(s) /\ Handled(s) = Handled(rx) + Amount(event)
                   /\ InFlight(s) <=> InFlight(rx)
                   /\ rx.trigger = None => s.trigger = None
    <3>1. event.data \in Seq(Bytes) /\ Amount(event) = Len(event.data)
      BY <2>1 DEF Event, Amount
    <3>2. event.data # <<>> /\ Placed(event.data, Handled(rx))
      BY <1>2, <1>4, <2>1 DEF Fitting
    <3>3. Handled(rx) + Len(event.data) <= MaxBytes
      BY <1>2, <1>4, <3>1
    <3> QED BY <1>3, <3>1, <3>2, <3>3, HandleRxDataSound
  <2>2. ASSUME event.kind \in {"overflow", "closed"}
        PROVE  LET s == HandleRxOverflow(rx, event.dropped)
               IN  /\ s \in RxState /\ RxSound(s) /\ Handled(s) = Handled(rx) + Amount(event)
                   /\ InFlight(s) <=> InFlight(rx)
                   /\ rx.trigger = None => s.trigger = None
    <3>1. event.dropped \in Counts /\ Amount(event) = event.dropped
      BY <2>2 DEF Event, Amount
    <3>2. Handled(rx) + event.dropped <= MaxBytes
      BY <1>2, <1>4, <3>1
    <3> QED BY <1>3, <3>1, <3>2, HandleRxOverflowSound
  <2>3. CASE \E matched \in BOOLEAN : ReceiveRx(matched)
    <3>1. PICK matched \in BOOLEAN : ReceiveRx(matched)
      BY <2>3
    <3>2. event.kind = "rx" /\ rx' = HandleRxData(rx, event.data, matched)
      BY <1>4, <3>1 DEF ReceiveRx
    <3> QED BY <2>1, <3>2
  <2>4. CASE ReceiveOverflow
    <3>1. event.kind = "overflow" /\ rx' = HandleRxOverflow(rx, event.dropped)
      BY <1>4, <2>4 DEF ReceiveOverflow
    <3> QED BY <2>2, <3>1
  <2>5. CASE ReceiveClosed
    <3>1. PICK s : s = HandleRxOverflow(rx, event.dropped)
      OBVIOUS
    <3>2. event.kind = "closed" /\ rx' = Stopping(s)
      BY <1>4, <2>5, <3>1 DEF ReceiveClosed
    <3>3. /\ s \in RxState /\ RxSound(s) /\ Handled(s) = Handled(rx) + Amount(event)
          /\ InFlight(s) <=> InFlight(rx)
          /\ rx.trigger = None => s.trigger = None
      BY <2>2, <3>1, <3>2
    <3> QED BY <3>2, <3>3, StoppingSound
  <2>6. CASE \E matched \in BOOLEAN : DrainEvent(matched)
    <3>1. PICK matched \in BOOLEAN : DrainEvent(matched)
      BY <2>6
    <3>2. rx' = Drained(rx, event, matched)
      BY <1>4, <3>1 DEF DrainEvent
    <3>3. CASE event.kind = "rx"
      <4>1. rx' = HandleRxData(rx, event.data, matched)
        BY <3>2, <3>3 DEF Drained
      <4> QED BY <2>1, <3>3, <4>1
    <3>4. CASE event.kind \in {"overflow", "closed"}
      <4>1. rx' = HandleRxOverflow(rx, event.dropped)
        BY <3>2, <3>4 DEF Drained
      <4> QED BY <2>2, <3>4, <4>1
    <3>5. CASE event.kind = "barrier"
      <4>1. rx' = rx /\ Amount(event) = 0
        BY <3>2, <3>5 DEF Drained, Amount
      <4>2. Handled(rx') = Handled(rx) + Amount(event)
        BY <1>3, <4>1
      <4> QED BY <1>3, <4>1, <4>2
    <3>6. event.kind \in {"rx", "overflow", "closed", "barrier"}
      BY DEF Event
    <3> QED BY <3>3, <3>4, <3>5, <3>6
  <2> QED BY <2>3, <2>4, <2>5, <2>6
<1>6. TypeOK'
  BY <1>1, <1>2, <1>5 DEF Invariant, TypeOK, port, tasks
<1>7. StreamWhole'
  <2>1. Floor' = Floor \/ Floor' = 0
    BY <1>1 DEF Floor
  <2> QED BY <1>1, <1>4, <1>5, <2>1, ConsumeWhole DEF port
<1>8. RxSound(rx)'
  BY <1>5
<1>9. BarrierPlace'
  BY <1>1, <1>2, <1>5 DEF Invariant, BarrierPlace, port
<1>10. SessionEnds'
  BY <1>1 DEF Invariant, SessionEnds, tasks
<1>11. WriteOwner'
  BY <1>1, <1>5 DEF Invariant, WriteOwner, tasks
<1> QED BY <1>6, <1>7, <1>8, <1>9, <1>10, <1>11 DEF Invariant

\* The barrier arrives: what is published lies behind what had been read at its request.
LEMMA ArmTriggerStep ==
    ASSUME Invariant, NEW authorized \in BOOLEAN, ArmTrigger(authorized)
    PROVE  Invariant'
<1>1. /\ UNCHANGED <<port, reader, asked, cancel, tasks, mark>>
      /\ actor = "arming" /\ actor' = "idle"
      /\ events # <<>> /\ Head(events) = Barrier /\ events' = Tail(events)
  BY DEF ArmTrigger
<1>2. /\ events' \in Seq(Event) /\ Len(events') <= Queue
      /\ Fitting(Barrier, Handled(rx), Floor) /\ NoBarrier'
      /\ Barrier.kind = "barrier" /\ Amount(Barrier) = 0
  BY <1>1, QueueHead, EventFields
<1>3. rx \in RxState /\ RxSound(rx) /\ Handled(rx) \in Nat /\ mark \in Counts /\ rx.trigger = None
  BY <1>1, Places DEF Invariant, TypeOK, BarrierPlace
<1>4. /\ ~InFlight(rx) /\ rx.held = <<>> /\ Len(rx.held) = 0 /\ rx.lost = 0
  BY <1>3 DEF RxSound, InFlight
<1>5. mark <= rx.offset
  <2>1. Handled(rx) = rx.offset /\ mark <= Handled(rx)
    BY <1>1, <1>2, <1>3, <1>4, Places DEF Handled, Fitting, Floor
  <2> QED BY <2>1
<1>6. PICK zero \in Counts : zero = 0
  BY DEF Counts
<1>7. PICK fresh : fresh = [inFlight |-> FALSE, ending |-> FALSE, from |-> mark, first |-> zero]
  OBVIOUS
<1>8. fresh \in Trigger /\ ~fresh.inFlight /\ fresh.from = mark /\ fresh.first = 0
  BY <1>3, <1>6, <1>7 DEF Trigger
<1>9. PICK g \in Trigger \cup {None} : /\ g = fresh \/ g = None
                                       /\ rx' = [rx EXCEPT !.trigger = g]
  BY <1>6, <1>7, <1>8 DEF ArmTrigger
<1>10. PICK t : t = [rx EXCEPT !.trigger = g]
  OBVIOUS
<1>11. /\ t \in RxState /\ t.trigger = g
       /\ t.offset = rx.offset /\ t.timeline = rx.timeline /\ t.held = rx.held /\ t.lost = rx.lost
       /\ Handled(t) = Handled(rx)
  BY <1>3, <1>10, TriggerSet
<1>12. ~InFlight(t)
  BY <1>8, <1>9, <1>11 DEF InFlight
<1>13. RxSound(t)
  BY <1>3, <1>4, <1>5, <1>8, <1>9, <1>11, <1>12 DEF RxSound
<1>14. rx' = t
  BY <1>9, <1>10
<1>15. TypeOK'
  BY <1>1, <1>2, <1>11, <1>14 DEF Invariant, TypeOK, port, tasks
<1>16. StreamWhole'
  <2>1. Handled(rx') = Handled(rx) + Amount(Head(events))
    BY <1>1, <1>2, <1>3, <1>11, <1>14
  <2>2. Floor' = 0
    BY <1>1 DEF Floor
  <2> QED BY <1>1, <2>1, <2>2, ConsumeWhole DEF port
<1>17. RxSound(rx)'
  BY <1>13, <1>14
<1>18. BarrierPlace'
  <2>1. \A k, l \in 1..Len(events') : events'[k].kind = "barrier" /\ events'[l].kind = "barrier" => k = l
    BY <1>2 DEF NoBarrier
  <2>2. ~asked /\ reader.place \notin {"gap", "marker"}
    <3>1. 1 \in 1..Len(events) /\ events[1].kind = "barrier"
      <4>1. Len(events) > 0 /\ Head(events) = events[1] /\ Len(events) \in Nat
        BY <1>1, Places
      <4> QED BY <1>1, <1>2, <4>1
    <3>2. ~NoBarrier
      BY <3>1 DEF NoBarrier
    <3> QED BY <3>2 DEF Invariant, BarrierPlace
  <2> QED BY <1>1, <1>2, <2>1, <2>2 DEF Invariant, BarrierPlace
<1>19. SessionEnds'
  BY <1>1 DEF Invariant, SessionEnds, tasks
<1>20. WriteOwner'
  BY <1>1, <1>4 DEF Invariant, WriteOwner, tasks
<1> QED BY <1>15, <1>16, <1>17, <1>18, <1>19, <1>20 DEF Invariant

-----------------------------------------------------------------------------
(* The actor's other steps *)

\* The port is to be closed: the Trigger's end is decided, and the bytes stay where
\* they are.
LEMMA StopPortStep ==
    ASSUME Invariant, StopPort
    PROVE  Invariant'
<1>1. /\ UNCHANGED <<port, reader, asked, events, tasks, mark>>
      /\ cancel' = TRUE /\ actor = "idle" /\ actor' = "joining" /\ rx' = Stopping(rx)
  BY DEF StopPort
<1>2. /\ rx' \in RxState /\ RxSound(rx') /\ Handled(rx') = Handled(rx)
      /\ InFlight(rx') <=> InFlight(rx)
  BY <1>1, Places, StoppingSound DEF Invariant
<1>3. TypeOK'
  BY <1>1, <1>2 DEF Invariant, TypeOK, port, tasks
<1>4. StreamWhole'
  <2>1. Floor' = Floor
    BY <1>1 DEF Floor
  <2> QED BY <1>1, <1>2, <2>1, StreamFrame DEF port
<1>5. BarrierPlace'
  BY <1>1 DEF Invariant, BarrierPlace, NoBarrier
<1>6. SessionEnds'
  BY <1>1 DEF Invariant, SessionEnds, tasks
<1>7. WriteOwner'
  BY <1>1, <1>2 DEF Invariant, WriteOwner, tasks
<1> QED BY <1>2, <1>3, <1>4, <1>5, <1>6, <1>7 DEF Invariant

\* A Trigger's write is scheduled, or the Trigger ends because the writer has gone.
LEMMA BeginTriggerWriteStep ==
    ASSUME Invariant, BeginTriggerWrite
    PROVE  Invariant'
<1>1. /\ UNCHANGED <<port, reader, asked, events, cancel, writer, reply, actor, mark>>
      /\ actor = "idle" /\ rx.trigger # None /\ ~InFlight(rx)
  BY DEF BeginTriggerWrite, InFlight
<1>2. rx \in RxState /\ RxSound(rx) /\ Handled(rx) \in Nat /\ rx.trigger \in Trigger
  BY <1>1, Places DEF Invariant, RxState
<1>3. /\ rx' \in RxState /\ RxSound(rx') /\ Handled(rx') = Handled(rx)
      /\ \/ job' = job /\ ~InFlight(rx')
         \/ job' = "trigger" /\ InFlight(rx')
  <2>1. CASE writer = "returned"
    <3>1. PICK s : s = Stopping(rx)
      OBVIOUS
    <3>2. rx' = Idled(s) /\ job' = job
      BY <2>1, <3>1 DEF BeginTriggerWrite
    <3>3. s \in RxState /\ RxSound(s) /\ Handled(s) = Handled(rx) /\ ~InFlight(s)
      BY <1>1, <1>2, <3>1, StoppingSound
    <3> QED BY <3>2, <3>3, IdledSound
  <2>2. CASE writer # "returned"
    <3>1. PICK g : g = [rx.trigger EXCEPT !.inFlight = TRUE]
      OBVIOUS
    <3>2. g \in Trigger /\ g # None /\ g.inFlight /\ g.from = rx.trigger.from /\ g.first = rx.trigger.first
      BY <1>2, <3>1 DEF Trigger
    <3>3. PICK t : t = [rx EXCEPT !.trigger = g]
      OBVIOUS
    <3>4. rx' = t /\ job' = "trigger"
      BY <2>2, <3>1, <3>3 DEF BeginTriggerWrite
    <3>5. /\ t \in RxState /\ t.trigger = g
          /\ t.offset = rx.offset /\ t.timeline = rx.timeline /\ t.held = rx.held /\ t.lost = rx.lost
          /\ Handled(t) = Handled(rx)
      BY <1>2, <3>2, <3>3, TriggerSet
    <3>6. InFlight(t)
      BY <3>2, <3>5 DEF InFlight
    <3>7. RxSound(t)
      BY <1>1, <1>2, <3>2, <3>5, <3>6 DEF RxSound
    <3> QED BY <3>4, <3>5, <3>6, <3>7
  <2> QED BY <2>1, <2>2
<1>4. TypeOK'
  BY <1>1, <1>3 DEF Invariant, TypeOK, port
<1>5. StreamWhole'
  <2>1. Floor' = Floor
    BY <1>1 DEF Floor
  <2> QED BY <1>1, <1>3, <2>1, StreamFrame DEF port
<1>6. BarrierPlace'
  BY <1>1 DEF Invariant, BarrierPlace, NoBarrier
<1>7. SessionEnds'
  BY <1>1 DEF Invariant, SessionEnds
<1>8. WriteOwner'
  <2>1. reply = None
    <3>1. reply # None => reply.to \in {"request", "trigger"}
      BY DEF Invariant, TypeOK
    <3> QED BY <1>1, <3>1 DEF Invariant, WriteOwner
  <2> QED BY <1>1, <1>3, <2>1 DEF Invariant, WriteOwner
<1> QED BY <1>3, <1>4, <1>5, <1>6, <1>7, <1>8 DEF Invariant

\* The write's outcome: what it held back is published.
LEMMA TriggerWriteResultStep ==
    ASSUME Invariant, NEW ends \in BOOLEAN, TriggerWriteResult(ends)
    PROVE  Invariant'
<1>1. /\ UNCHANGED <<port, reader, asked, events, cancel, writer, job, actor, mark>>
      /\ actor \in {"idle", "settling"} /\ reply # None /\ reply.to = "trigger" /\ reply' = None
      /\ rx' = HandleTriggerWriteResult(rx, ends)
  BY DEF TriggerWriteResult
<1>2. InFlight(rx) /\ job = None
  BY <1>1 DEF Invariant, WriteOwner
<1>3. rx' \in RxState /\ RxSound(rx') /\ Handled(rx') = Handled(rx) /\ ~InFlight(rx')
  BY <1>1, <1>2, Places, HandleTriggerWriteResultSound DEF Invariant
<1>4. TypeOK'
  BY <1>1, <1>3 DEF Invariant, TypeOK, port
<1>5. StreamWhole'
  <2>1. Floor' = Floor
    BY <1>1 DEF Floor
  <2> QED BY <1>1, <1>3, <2>1, StreamFrame DEF port
<1>6. BarrierPlace'
  BY <1>1 DEF Invariant, BarrierPlace, NoBarrier
<1>7. SessionEnds'
  BY <1>1 DEF Invariant, SessionEnds
<1>8. WriteOwner'
  BY <1>1, <1>2 DEF Invariant, WriteOwner
<1> QED BY <1>3, <1>4, <1>5, <1>6, <1>7, <1>8 DEF Invariant

\* The reader's tail follows the last event of the queue: its gap, then its bytes.
LEMMA DrainTailStep ==
    ASSUME Invariant, NEW matched \in BOOLEAN, DrainTail(matched)
    PROVE  Invariant'
<1>1. /\ UNCHANGED <<port, asked, events, cancel, tasks, mark>>
      /\ actor = "draining" /\ actor' = "settling" /\ events = <<>>
  BY DEF DrainTail
<1>2. /\ rx \in RxState /\ RxSound(rx) /\ Handled(rx) \in Nat /\ Queued \in Nat
      /\ reader.dropped \in Counts /\ reader.dropped \in Nat
      /\ reader.pending \in Seq(Bytes) /\ Len(reader.pending) \in Nat
      /\ Queued + reader.dropped + Len(reader.pending) = taken
      /\ taken \in Nat /\ taken <= MaxBytes /\ MaxBytes \in Nat
  BY Places DEF Invariant
<1>3. Handled(rx) = Queued
  BY <1>1, <1>2, CoversEmpty DEF Invariant, StreamWhole
<1>4. PICK gap : gap = HandleRxOverflow(rx, reader.dropped)
  OBVIOUS
<1>5. /\ gap \in RxState /\ RxSound(gap) /\ Handled(gap) = Queued + reader.dropped
      /\ InFlight(gap) <=> InFlight(rx)
  <2>1. Handled(rx) + reader.dropped <= MaxBytes
    BY <1>2, <1>3
  <2> QED BY <1>2, <1>3, <1>4, <2>1, HandleRxOverflowSound
<1>6. /\ rx' \in RxState /\ RxSound(rx') /\ Handled(rx') = taken
      /\ InFlight(rx') <=> InFlight(rx)
  <2>1. CASE reader.pending = <<>>
    <3>1. rx' = gap
      BY <1>4, <2>1 DEF DrainTail
    <3>2. Queued + reader.dropped = taken
      BY <1>2, <2>1
    <3> QED BY <1>5, <3>1, <3>2
  <2>2. CASE reader.pending # <<>>
    <3>1. rx' = HandleRxData(gap, reader.pending, matched)
      BY <1>4, <2>2 DEF DrainTail
    <3>2. Placed(reader.pending, Handled(gap)) /\ Handled(gap) + Len(reader.pending) = taken
      BY <1>2, <1>5 DEF Invariant, StreamWhole
    <3> QED BY <1>2, <1>5, <2>2, <3>1, <3>2, HandleRxDataSound
  <2> QED BY <2>1, <2>2
<1>7. PICK empty : empty = <<>>
  OBVIOUS
<1>15. PICK zero \in Counts : zero = 0
  BY DEF Counts
<1>16. empty \in Seq(Bytes)
  BY <1>7
<1>8. /\ reader' \in Reader /\ reader'.place = reader.place /\ reader'.pending = <<>> /\ reader'.dropped = 0
  <2>1. PICK next : next = [reader EXCEPT !.pending = empty, !.dropped = zero]
    OBVIOUS
  <2>2. /\ next \in Reader /\ next.place = reader.place
        /\ next.pending = empty /\ next.dropped = zero
    BY <1>16, <2>1 DEF Invariant, TypeOK, Reader
  <2>3. reader' = next
    BY <1>7, <1>15, <2>1 DEF DrainTail
  <2> QED BY <1>7, <1>15, <2>2, <2>3
<1>9. Len(reader'.pending) = 0
  BY <1>8
<1>10. TypeOK'
  <2>1. Len(reader'.pending) < Buffer
    BY <1>9
  <2> QED BY <1>1, <1>6, <1>8, <2>1 DEF Invariant, TypeOK, port, tasks
<1>11. StreamWhole'
  <2>1. Queued' = taken /\ taken' = taken /\ events' = <<>>
    BY <1>1, <1>2, <1>8, <1>9 DEF Queued, port
  <2>2. Covers(events', Handled(rx'), Queued', Floor')
    <3>1. PICK floor : floor = Floor'
      OBVIOUS
    <3>2. Covers(<<>>, taken, taken, floor)
      BY <1>2, CoversEmpty
    <3> QED BY <1>6, <2>1, <3>1, <3>2
  <2>3. Placed(reader'.pending, Queued' + reader'.dropped)
    BY <1>9 DEF Placed
  <2>4. reader'.dropped + Len(reader'.pending) <= taken'
    BY <1>2, <1>8, <1>9, <2>1
  <2> QED BY <2>2, <2>3, <2>4 DEF StreamWhole
<1>12. BarrierPlace'
  BY <1>1, <1>8 DEF Invariant, BarrierPlace, NoBarrier
<1>13. SessionEnds'
  BY <1>1, <1>8 DEF Invariant, SessionEnds, tasks
<1>14. WriteOwner'
  BY <1>1, <1>6 DEF Invariant, WriteOwner, tasks
<1> QED BY <1>6, <1>10, <1>11, <1>12, <1>13, <1>14 DEF Invariant

\* The Trigger is finished and the session is over.
LEMMA SettleStep ==
    ASSUME Invariant, Settle
    PROVE  Invariant'
<1>1. /\ UNCHANGED <<port, reader, asked, events, cancel, tasks, mark>>
      /\ actor = "settling" /\ actor' = "offline" /\ ~InFlight(rx) /\ rx' = Idled(rx)
  BY DEF Settle
<1>2. rx' \in RxState /\ RxSound(rx') /\ Handled(rx') = Handled(rx) /\ ~InFlight(rx')
  BY <1>1, Places, IdledSound DEF Invariant
<1>3. TypeOK'
  BY <1>1, <1>2 DEF Invariant, TypeOK, port, tasks
<1>4. StreamWhole'
  <2>1. Floor' = Floor
    BY <1>1 DEF Floor
  <2> QED BY <1>1, <1>2, <2>1, StreamFrame DEF port
<1>5. BarrierPlace'
  BY <1>1 DEF Invariant, BarrierPlace, NoBarrier
<1>6. SessionEnds'
  BY <1>1, <1>2 DEF Invariant, SessionEnds, tasks
<1>7. WriteOwner'
  BY <1>1, <1>2 DEF Invariant, WriteOwner, tasks
<1> QED BY <1>2, <1>3, <1>4, <1>5, <1>6, <1>7 DEF Invariant

-----------------------------------------------------------------------------
(* The specification *)

\* A session starts with nothing read.
LEMMA InvariantInit == Init => Invariant
<1> SUFFICES ASSUME Init PROVE Invariant
  OBVIOUS
<1>10. PICK empty : empty = <<>>
  OBVIOUS
<1>11. PICK zero \in Counts : zero = 0
  BY DEF Counts
<1>1. empty = <<>> /\ zero = 0 /\ zero \in Counts
  BY <1>10, <1>11
<1>2. empty \in Seq(Bytes) /\ empty \in Seq(Event) /\ empty \in Seq([offset : Counts, data : Seq(Bytes)])
      /\ Len(empty) = 0
  BY <1>1
<1>3. reader \in Reader /\ reader.place = "reading" /\ reader.pending = empty /\ reader.dropped = zero
  <2>1. reader = [place |-> "reading", pending |-> empty, dropped |-> zero]
    BY <1>1 DEF Init
  <2> QED BY <1>2, <2>1 DEF Reader
<1>4. /\ rx \in RxState /\ rx.offset = zero /\ rx.timeline = empty /\ rx.trigger = None
      /\ rx.held = empty /\ rx.lost = zero
  <2>1. rx = [offset |-> zero, timeline |-> empty, trigger |-> None, held |-> empty, lost |-> zero]
    BY <1>1 DEF Init
  <2> QED BY <1>2, <2>1 DEF RxState
<1>5. TypeOK
  <2>1. Len(reader.pending) < Buffer
    BY <1>2, <1>3
  <2>2. events \in Seq(Event) /\ Len(events) <= Queue
    BY <1>1, <1>2 DEF Init
  <2>3. taken \in 0..arrived /\ arrived \in Counts /\ mark \in Counts
    BY DEF Init, Counts
  <2>4. /\ asked \in BOOLEAN /\ cancel \in BOOLEAN
        /\ writer \in {"ready", "failed", "returned"}
        /\ job \in {None, "request", "trigger"}
        /\ reply \in {None} \cup [to : {"request", "trigger"}, ok : BOOLEAN]
        /\ actor \in {"idle", "waiting", "arming", "joining", "draining", "settling", "offline"}
    BY DEF Init
  <2> QED BY <1>3, <1>4, <2>1, <2>2, <2>3, <2>4 DEF TypeOK
<1>6. Handled(rx) = 0 /\ Queued = 0
  BY <1>1, <1>2, <1>3, <1>4 DEF Init, Handled, Queued
<1>7. StreamWhole
  <2>1. PICK floor : floor = Floor
    OBVIOUS
  <2>2. Covers(events, Handled(rx), Queued, Floor)
    BY <1>6, <2>1, CoversEmpty DEF Init
  <2>3. Placed(reader.pending, Queued + reader.dropped)
    BY <1>2, <1>3 DEF Placed
  <2>4. reader.dropped + Len(reader.pending) <= taken
    BY <1>1, <1>2, <1>3 DEF Init
  <2> QED BY <2>2, <2>3, <2>4 DEF StreamWhole
<1>8. RxSound(rx)
  BY <1>1, <1>2, <1>4, <1>6 DEF RxSound, InFlight, Placed
<1>9. BarrierPlace /\ SessionEnds /\ WriteOwner
  BY <1>3 DEF Init, BarrierPlace, NoBarrier, SessionEnds, WriteOwner
<1> QED BY <1>5, <1>7, <1>8, <1>9 DEF Invariant

\* Every step keeps the invariant.
LEMMA InvariantStep == Invariant /\ [Next]_vars => Invariant'
<1> SUFFICES ASSUME Invariant, [Next]_vars PROVE Invariant'
  OBVIOUS
<1>1. CASE UNCHANGED vars
  BY <1>1, QuietStep DEF Offline, vars, Invariant, TypeOK, StreamWhole, BarrierPlace, SessionEnds, WriteOwner,
     NoBarrier, Queued, Floor
<1>2. CASE ReaderStep
  BY <1>2, OfferStep, SendDroppedStep, SendMarkerStep, ReaderStopsStep DEF ReaderStep
<1>3. CASE WriterStep
  BY <1>3, QuietStep, WriterSendsClosedStep DEF WriterStep
<1>4. CASE ActorStep
  <2>1. CASE WriteAnswered \/ Join
    BY <2>1, QuietStep
  <2>2. CASE \E b \in BOOLEAN : ArmTrigger(b)
    BY <2>2, ArmTriggerStep
  <2>3. CASE (\E b \in BOOLEAN : ReceiveRx(b) \/ DrainEvent(b)) \/ ReceiveOverflow \/ ReceiveClosed
    BY <2>3, ReceiveStep
  <2>4. CASE \E b \in BOOLEAN : DrainTail(b)
    BY <2>4, DrainTailStep
  <2>5. CASE Settle
    BY <2>5, SettleStep
  <2>6. CASE \E ends \in BOOLEAN : TriggerWriteResult(ends)
    BY <2>6, TriggerWriteResultStep
  <2> QED BY <1>4, <2>1, <2>2, <2>3, <2>4, <2>5, <2>6 DEF ActorStep
<1>5. CASE Arrive \/ RequestWrite \/ Offline
  BY <1>5, QuietStep
<1>6. CASE \E n \in Bytes : ReadBytes(n)
  BY <1>6, ReadBytesStep
<1>7. CASE Flush \/ ReadFails
  BY <1>7, OfferStep
<1>8. CASE RequestBarrier
  BY <1>8, RequestBarrierStep
<1>9. CASE StopPort
  BY <1>9, StopPortStep
<1>10. CASE BeginTriggerWrite
  BY <1>10, BeginTriggerWriteStep
<1> QED BY <1>1, <1>2, <1>3, <1>4, <1>5, <1>6, <1>7, <1>8, <1>9, <1>10 DEF Next

\* The invariant is one.
THEOREM RxInvariant == Spec => []Invariant
BY InvariantInit, InvariantStep, PTL DEF Spec

\* The queue of port events and the reader's buffer keep their bounds, and the shape of
\* the session's state is kept.
THEOREM RxTypeCorrect == Spec => []TypeOK
<1>1. Invariant => TypeOK
  BY DEF Invariant
<1> QED BY <1>1, RxInvariant, PTL

\* Every byte the reader took is published at its place in the device's stream or counted
\* in a gap, for any sizes of the buffers, the queue and what a Trigger may hold back.
THEOREM RxBytesAccounted == Spec => []BytesAccounted
<1>1. Invariant => BytesAccounted
  <2> SUFFICES ASSUME Invariant PROVE BytesAccounted
    OBVIOUS
  <2>1. OffsetsExact
    <3>1. SUFFICES ASSUME NEW i \in DOMAIN rx.timeline, NEW k \in DOMAIN rx.timeline[i].data
                   PROVE  rx.timeline[i].data[k] = rx.timeline[i].offset + k
      BY DEF OffsetsExact
    <3>2. rx.timeline \in Seq([offset : Counts, data : Seq(Bytes)])
      BY Places DEF RxState
    <3>3. rx.timeline[i].data \in Seq(Bytes)
      <4>1. rx.timeline[i] \in [offset : Counts, data : Seq(Bytes)]
        BY <3>1, <3>2, Members
      <4> QED BY <4>1
    <3>4. k \in 1..Len(rx.timeline[i].data)
      BY <3>1, <3>3
    <3> QED BY <3>1, <3>4 DEF Invariant, RxSound, Placed
  <2>2. AllAccounted
    <3>1. SUFFICES ASSUME actor = "offline" PROVE rx.offset = taken
      BY DEF AllAccounted
    <3>2. events = <<>> /\ Len(reader.pending) = 0 /\ reader.dropped = 0 /\ ~InFlight(rx)
      BY <3>1 DEF Invariant, SessionEnds
    <3>3. Queued = taken
      BY <3>2, Places
    <3>4. Handled(rx) = Queued
      BY <3>2, CoversEmpty, Places DEF Invariant, StreamWhole
    <3>5. Len(rx.held) = 0 /\ rx.lost = 0
      BY <3>2 DEF Invariant, RxSound
    <3> QED BY <3>3, <3>4, <3>5, Places DEF Handled
  <2> QED BY <2>1, <2>2 DEF BytesAccounted
<1> QED BY <1>1, RxInvariant, PTL

\* A Trigger never matches output that had been read when its barrier was requested.
THEOREM RxTriggerSeesNewOutput == Spec => []TriggerSeesNewOutput
<1>1. Invariant => TriggerSeesNewOutput
  BY DEF Invariant, RxSound, TriggerSeesNewOutput
<1> QED BY <1>1, RxInvariant, PTL

=============================================================================
