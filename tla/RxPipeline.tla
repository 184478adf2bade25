----------------------------- MODULE RxPipeline -----------------------------
(***************************************************************************)
(* One session of an open port: the reader task, the writer task and the    *)
(* part of the Slot actor that turns received bytes into the timeline       *)
(* (the tokio build of slot.rs; the Windows build has threads of its own).  *)
(*                                                                         *)
(* Bytes are numbered as the device sends them, so a byte's number is its   *)
(* place in the stream.  The reader coalesces bytes and offers them to a    *)
(* bounded queue; what does not fit is counted and reported as a gap.  The  *)
(* actor does not empty the queue while it waits for a write, and holds RX  *)
(* back while a Trigger's write is in flight.                               *)
(***************************************************************************)
EXTENDS Naturals, Sequences

CONSTANTS
    None,
    MaxBytes,       \* bound on the bytes the device sends
    Buffer,         \* RX_BUFFER_BYTES
    Queue,          \* PORT_EVENT_QUEUE
    Audit           \* MAX_TRIGGER_BUFFERED_RX_BYTES

ASSUME SizesAssumption ==
    /\ MaxBytes \in Nat /\ Audit \in Nat
    /\ Buffer \in Nat \ {0} /\ Queue \in Nat \ {0}

Bytes == 1..MaxBytes
Counts == 0..MaxBytes

\* PortEvent
Event == [kind : {"rx"}, data : Seq(Bytes)]
    \cup [kind : {"overflow", "closed"}, dropped : Counts]
    \cup [kind : {"barrier"}]

\* The reader's place in its loop, its pending bytes and its count of dropped ones.
Reader == [place : {"reading", "gap", "marker", "closing", "returned"},
           pending : Seq(Bytes), dropped : Counts]

\* An armed Trigger: a write in flight, its end decided, what had been read when its
\* barrier was requested, and the first byte its matcher saw.
Trigger == [inFlight : BOOLEAN, ending : BOOLEAN, from : Counts, first : Counts]

\* The actor's side of RX: rx_offset, the timeline, and the Trigger with the bytes it
\* holds back and the count of those it lost.
RxState == [offset : Counts, timeline : Seq([offset : Counts, data : Seq(Bytes)]),
            trigger : Trigger \cup {None}, held : Seq(Bytes), lost : Counts]

ASSUME AbsentAssumption == None \notin Trigger /\ None \notin {"request", "trigger"}

VARIABLES
    arrived,    \* bytes received by the driver
    taken,      \* of these, bytes read by the reader
    reader,     \* the reader task
    asked,      \* a Barrier is in reader_commands
    events,     \* the queue of PortEvents
    cancel,     \* the watch that stops both tasks
    writer,     \* the writer task
    job,        \* the command in the writer's queue, by the one who waits for its reply
    reply,      \* the reply to a command: who it is for, and if the write succeeded
    actor,      \* what the Slot actor is doing
    mark,       \* how much had been read when the Trigger's barrier was requested
    rx          \* what the actor made of the bytes

vars == <<arrived, taken, reader, asked, events, cancel, writer, job, reply, actor, mark, rx>>
tasks == <<writer, job, reply>>
port == <<arrived, taken>>

-----------------------------------------------------------------------------
(* The reader *)

Room == Len(events) < Queue
Overflow(n) == [kind |-> "overflow", dropped |-> n]
Closed(n) == [kind |-> "closed", dropped |-> n]
Rx(data) == [kind |-> "rx", data |-> data]
Barrier == [kind |-> "barrier"]

\* enqueue_rx: first the gap, then the bytes after it; whatever does not fit
\* joins the count of dropped bytes.  Nothing stays pending.
EnqueueRx(pending, dropped) ==
    LET reported == IF dropped > 0 /\ Room THEN Append(events, Overflow(dropped)) ELSE events
        owed == IF Room THEN 0 ELSE dropped
    IN IF pending # <<>> /\ owed = 0 /\ Len(reported) < Queue
       THEN [events |-> Append(reported, Rx(pending)), dropped |-> 0]
       ELSE [events |-> reported, dropped |-> owed + Len(pending)]

\* The reader offers what it has and goes on in the given place.
Offer(pending, place) ==
    LET result == EnqueueRx(pending, reader.dropped)
    IN /\ events' = result.events
       /\ reader' = [place |-> place, pending |-> <<>>, dropped |-> result.dropped]

Reading == reader.place = "reading"

\* The device sends a byte.
Arrive ==
    /\ arrived < MaxBytes
    /\ arrived' = arrived + 1
    /\ UNCHANGED <<taken, reader, asked, events, cancel, tasks, actor, mark, rx>>

\* reader.read returns n bytes, at most what the buffer has room for.
ReadBytes(n) ==
    /\ Reading
    /\ n <= arrived - taken /\ n <= Buffer - Len(reader.pending)
    /\ taken' = taken + n
    /\ LET pending == reader.pending \o [i \in 1..n |-> taken + i]
       IN IF Len(pending) >= Buffer
          THEN Offer(pending, "reading")
          ELSE reader' = [reader EXCEPT !.pending = pending] /\ UNCHANGED events
    /\ UNCHANGED <<arrived, asked, cancel, tasks, actor, mark, rx>>

\* The coalescing window of the first pending byte, or of a gap, has passed.
Flush ==
    /\ Reading
    /\ reader.pending # <<>> \/ reader.dropped > 0
    /\ Offer(reader.pending, "reading")
    /\ UNCHANGED <<port, asked, cancel, tasks, actor, mark, rx>>

\* Mutant of TakeBarrier: the marker is sent ahead of the pending bytes.
TakeBarrierUnflushed ==
    /\ Reading /\ asked
    /\ asked' = FALSE
    /\ reader' = [reader EXCEPT !.place = "marker"]
    /\ UNCHANGED <<port, events, cancel, tasks, actor, mark, rx>>

\* PortReaderCommand::Barrier: what is pending goes first, then the gap and the
\* marker, for which the reader waits until the queue has room.
TakeBarrier ==
    /\ Reading /\ asked
    /\ asked' = FALSE
    /\ LET lost == EnqueueRx(reader.pending, reader.dropped).dropped > 0
       IN Offer(reader.pending, IF lost THEN "gap" ELSE "marker")
    /\ UNCHANGED <<port, cancel, tasks, actor, mark, rx>>

SendGap ==
    /\ reader.place = "gap" /\ Room
    /\ events' = Append(events, Overflow(reader.dropped))
    /\ reader' = [reader EXCEPT !.place = "marker", !.dropped = 0]
    /\ UNCHANGED <<port, asked, cancel, tasks, actor, mark, rx>>

\* Mutant of SendMarker: the queue has no bound.
SendMarkerUnbounded ==
    /\ reader.place = "marker"
    /\ events' = Append(events, Barrier)
    /\ reader' = [reader EXCEPT !.place = "reading"]
    /\ UNCHANGED <<port, asked, cancel, tasks, actor, mark, rx>>

SendMarker ==
    /\ reader.place = "marker" /\ Room
    /\ events' = Append(events, Barrier)
    /\ reader' = [reader EXCEPT !.place = "reading"]
    /\ UNCHANGED <<port, asked, cancel, tasks, actor, mark, rx>>

\* End of file or an error: the reader offers what it has and reports the end.
ReadFails ==
    /\ Reading
    /\ Offer(reader.pending, "closing")
    /\ UNCHANGED <<port, asked, cancel, tasks, actor, mark, rx>>

\* send_port_closed: the count goes with the event, and the tail is empty.
SendClosed ==
    /\ reader.place = "closing" /\ Room
    /\ events' = Append(events, Closed(reader.dropped))
    /\ reader' = [place |-> "returned", pending |-> <<>>, dropped |-> 0]
    /\ UNCHANGED <<port, asked, cancel, tasks, actor, mark, rx>>

\* The watch has changed: the task returns its ReaderTail from wherever it is.
ReaderStops ==
    /\ cancel /\ reader.place # "returned"
    /\ reader' = [reader EXCEPT !.place = "returned"]
    /\ UNCHANGED <<port, asked, events, cancel, tasks, actor, mark, rx>>

-----------------------------------------------------------------------------
(* The writer *)

\* A command is answered, and then a failure is reported as the port's end.
AnswerWrite(ok) ==
    /\ writer = "ready" /\ job # None
    /\ reply' = [to |-> job, ok |-> ok]
    /\ job' = None
    /\ writer' = IF ok THEN "ready" ELSE "failed"
    /\ UNCHANGED <<port, reader, asked, events, cancel, actor, mark, rx>>

\* The writer returns; a command still in its queue is answered with an error.
WriterReturns ==
    /\ writer' = "returned"
    /\ job' = None
    /\ reply' = IF job # None THEN [to |-> job, ok |-> FALSE] ELSE reply

WriterSendsClosed ==
    /\ writer = "failed" /\ Room
    /\ events' = Append(events, Closed(0))
    /\ WriterReturns
    /\ UNCHANGED <<port, reader, asked, cancel, actor, mark, rx>>

\* Mutant of WriterStops: it does not look at the watch while it reports an end.
WriterStopsIdle ==
    /\ cancel /\ writer = "ready"
    /\ WriterReturns
    /\ UNCHANGED <<port, reader, asked, events, cancel, actor, mark, rx>>

WriterStops ==
    /\ cancel /\ writer # "returned"
    /\ WriterReturns
    /\ UNCHANGED <<port, reader, asked, events, cancel, actor, mark, rx>>

-----------------------------------------------------------------------------
(* The actor: from received bytes to the timeline *)

InFlight(s) == s.trigger # None /\ s.trigger.inFlight

\* finish_stopped_trigger_if_idle
Idled(s) == IF s.trigger # None /\ s.trigger.ending /\ ~s.trigger.inFlight
            THEN [s EXCEPT !.trigger = None] ELSE s

\* mark_trigger_stopping
Stopping(s) == IF s.trigger = None THEN s ELSE [s EXCEPT !.trigger.ending = TRUE]

\* observe_trigger_rx: the matcher sees the bytes, and may find its pattern.
Observed(s, data, matched) ==
    IF s.trigger = None THEN s
    ELSE [s EXCEPT !.trigger.first = IF @ = 0 THEN Head(data) ELSE @,
                   !.trigger.ending = @ \/ matched]

EmitRx(s, data) ==
    [s EXCEPT !.offset = @ + Len(data),
              !.timeline = Append(@, [offset |-> s.offset, data |-> data])]

EmitGap(s, dropped) == [s EXCEPT !.offset = @ + dropped]

\* TriggerRxAuditBuffer.push_rx: once something was lost, so is all that follows.  The
\* held events are joined here, so that their `bytes` is a length.
PushRx(s, data) ==
    IF s.lost = 0 /\ Len(s.held) + Len(data) <= Audit
    THEN [s EXCEPT !.held = @ \o data]
    ELSE [s EXCEPT !.lost = @ + Len(data), !.trigger.ending = TRUE]

HandleRxData(s, data, matched) ==
    LET seen == Observed(s, data, matched)
    IN IF InFlight(s) THEN PushRx(seen, data) ELSE Idled(EmitRx(seen, data))

\* Mutant of HandleRxOverflow: the gap is not held back with the bytes before it.
HandleRxOverflowAtOnce(s, dropped) ==
    IF dropped = 0 THEN s ELSE Idled(EmitGap(Stopping(s), dropped))

HandleRxOverflow(s, dropped) ==
    IF dropped = 0 THEN s
    ELSE IF InFlight(s) THEN [Stopping(s) EXCEPT !.lost = @ + dropped]
    ELSE Idled(EmitGap(Stopping(s), dropped))

\* handle_trigger_write_result: what was held back follows the write's TX event.
HandleTriggerWriteResult(s, ends) ==
    LET settled == [s EXCEPT !.trigger.inFlight = FALSE, !.trigger.ending = @ \/ ends,
                             !.held = <<>>, !.lost = 0]
        published == IF s.held = <<>> THEN settled ELSE EmitRx(settled, s.held)
    IN Idled(EmitGap(published, s.lost))

-----------------------------------------------------------------------------
(* The actor: its turns *)

\* A client's write: the actor waits for the reply before its next turn.
RequestWrite ==
    /\ actor = "idle" /\ rx.trigger = None
    /\ writer # "returned"
    /\ job' = "request"
    /\ actor' = "waiting"
    /\ UNCHANGED <<port, reader, asked, events, cancel, writer, reply, mark, rx>>

WriteAnswered ==
    /\ actor = "waiting" /\ reply # None
    /\ reply' = None
    /\ actor' = "idle"
    /\ UNCHANGED <<port, reader, asked, events, cancel, writer, job, mark, rx>>

\* StartTrigger asks the reader for a barrier (flush_pretrigger_rx).
RequestBarrier ==
    /\ actor = "idle" /\ rx.trigger = None
    /\ reader.place # "returned"
    /\ asked' = TRUE
    /\ mark' = taken
    /\ actor' = "arming"
    /\ UNCHANGED <<port, reader, events, cancel, tasks, rx>>

\* The barrier arrives: the Trigger is armed, or refused by the second check of
\* its authority.
ArmTrigger(authorized) ==
    /\ actor = "arming" /\ events # <<>> /\ Head(events) = Barrier
    /\ events' = Tail(events)
    /\ actor' = "idle"
    /\ rx' = [rx EXCEPT !.trigger = IF authorized
                                    THEN [inFlight |-> FALSE, ending |-> FALSE, from |-> mark, first |-> 0]
                                    ELSE None]
    /\ UNCHANGED <<port, reader, asked, cancel, tasks, mark>>

Listening == actor \in {"idle", "arming"} /\ events # <<>>

ReceiveRx(matched) ==
    /\ Listening /\ Head(events).kind = "rx"
    /\ events' = Tail(events)
    /\ rx' = HandleRxData(rx, Head(events).data, matched)
    /\ UNCHANGED <<port, reader, asked, cancel, tasks, actor, mark>>

ReceiveOverflow ==
    /\ Listening /\ Head(events).kind = "overflow"
    /\ events' = Tail(events)
    /\ rx' = HandleRxOverflow(rx, Head(events).dropped)
    /\ UNCHANGED <<port, reader, asked, cancel, tasks, actor, mark>>

\* handle_port_closed, up to the point where stop_port joins the tasks.
ReceiveClosed ==
    /\ Listening /\ Head(events).kind = "closed"
    /\ events' = Tail(events)
    /\ rx' = Stopping(HandleRxOverflow(rx, Head(events).dropped))
    /\ cancel' = TRUE
    /\ actor' = "joining"
    /\ UNCHANGED <<port, reader, asked, tasks, mark>>

\* prepare_shutdown or pause_for_reconfigure, up to the same point.
StopPort ==
    /\ actor = "idle"
    /\ rx' = Stopping(rx)
    /\ cancel' = TRUE
    /\ actor' = "joining"
    /\ UNCHANGED <<port, reader, asked, events, tasks, mark>>

\* handle_trigger_timer: the queue is emptied before a write is scheduled.
BeginTriggerWrite ==
    /\ actor = "idle" /\ events = <<>>
    /\ rx.trigger # None /\ ~rx.trigger.inFlight /\ ~rx.trigger.ending
    /\ IF writer = "returned"
       THEN rx' = Idled(Stopping(rx)) /\ UNCHANGED job
       ELSE rx' = [rx EXCEPT !.trigger.inFlight = TRUE] /\ job' = "trigger"
    /\ UNCHANGED <<port, reader, asked, events, cancel, writer, reply, actor, mark>>

\* The write's outcome is a turn of its own; a failed write ends the Trigger,
\* and so may the last one.
TriggerWriteResult(ends) ==
    /\ actor = "idle" \/ (actor = "settling" /\ InFlight(rx))
    /\ reply # None /\ reply.to = "trigger"
    /\ ~reply.ok => ends
    /\ reply' = None
    /\ rx' = HandleTriggerWriteResult(rx, ends)
    /\ UNCHANGED <<port, reader, asked, events, cancel, writer, job, actor, mark>>

\* stop_port has joined both tasks.
Join ==
    /\ actor = "joining"
    /\ reader.place = "returned" /\ writer = "returned"
    /\ actor' = "draining"
    /\ UNCHANGED <<port, reader, asked, events, cancel, tasks, mark, rx>>

\* drained_port_event_parts
Drained(s, event, matched) ==
    CASE event.kind = "rx" -> HandleRxData(s, event.data, matched)
      [] event.kind \in {"overflow", "closed"} -> HandleRxOverflow(s, event.dropped)
      [] event.kind = "barrier" -> s

DrainEvent(matched) ==
    /\ actor = "draining" /\ events # <<>>
    /\ events' = Tail(events)
    /\ rx' = Drained(rx, Head(events), matched)
    /\ UNCHANGED <<port, reader, asked, cancel, tasks, actor, mark>>

\* The reader's tail comes last: its gap, then its bytes.
DrainTail(matched) ==
    /\ actor = "draining" /\ events = <<>>
    /\ LET gap == HandleRxOverflow(rx, reader.dropped)
       IN rx' = IF reader.pending = <<>> THEN gap ELSE HandleRxData(gap, reader.pending, matched)
    /\ reader' = [reader EXCEPT !.pending = <<>>, !.dropped = 0]
    /\ actor' = "settling"
    /\ UNCHANGED <<port, asked, events, cancel, tasks, mark>>

\* settle_trigger_write_after_port_stop, then the Trigger is finished.
Settle ==
    /\ actor = "settling" /\ ~InFlight(rx)
    /\ rx' = Idled(rx)
    /\ actor' = "offline"
    /\ UNCHANGED <<port, reader, asked, events, cancel, tasks, mark>>

\* The session is over.
Offline == actor = "offline" /\ UNCHANGED vars

-----------------------------------------------------------------------------

Init ==
    /\ arrived = 0 /\ taken = 0
    /\ reader = [place |-> "reading", pending |-> <<>>, dropped |-> 0]
    /\ asked = FALSE
    /\ events = <<>>
    /\ cancel = FALSE
    /\ writer = "ready" /\ job = None /\ reply = None
    /\ actor = "idle"
    /\ mark = 0
    /\ rx = [offset |-> 0, timeline |-> <<>>, trigger |-> None, held |-> <<>>, lost |-> 0]

ReaderStep == TakeBarrier \/ SendGap \/ SendMarker \/ SendClosed \/ ReaderStops
WriterStep == (\E ok \in BOOLEAN : AnswerWrite(ok)) \/ WriterSendsClosed \/ WriterStops
ActorStep ==
    \/ WriteAnswered
    \/ \E b \in BOOLEAN : ArmTrigger(b) \/ ReceiveRx(b) \/ DrainEvent(b) \/ DrainTail(b)
    \/ ReceiveOverflow \/ ReceiveClosed \/ Join \/ Settle
    \/ \E ends \in BOOLEAN : TriggerWriteResult(ends)

Next ==
    \/ Arrive \/ \E n \in Bytes : ReadBytes(n)
    \/ Flush \/ ReadFails
    \/ ReaderStep \/ WriterStep \/ ActorStep
    \/ RequestWrite \/ RequestBarrier \/ StopPort \/ BeginTriggerWrite
    \/ Offline

Spec == Init /\ [][Next]_vars

\* The tasks run: each takes the next step it can take.
FairSpec == Spec /\ WF_vars(ReaderStep) /\ WF_vars(WriterStep) /\ WF_vars(ActorStep)

-----------------------------------------------------------------------------
(* Properties *)

\* The shape of a session's state; the queue and the reader's buffer keep their
\* bounds.
TypeOK ==
    /\ taken \in 0..arrived /\ arrived \in Counts
    /\ reader \in Reader /\ Len(reader.pending) < Buffer
    /\ asked \in BOOLEAN /\ cancel \in BOOLEAN
    /\ events \in Seq(Event) /\ Len(events) <= Queue
    /\ writer \in {"ready", "failed", "returned"}
    /\ job \in {None, "request", "trigger"}
    /\ reply \in {None} \cup [to : {"request", "trigger"}, ok : BOOLEAN]
    /\ actor \in {"idle", "waiting", "arming", "joining", "draining", "settling", "offline"}
    /\ mark \in Counts
    /\ rx \in RxState

\* rx_stream_offset is exact: a received byte is published at the place it had
\* in the device's stream, whatever was dropped before it, held back by a
\* Trigger's write, or left in the queue and the reader when the port closed.
OffsetsExact ==
    \A i \in DOMAIN rx.timeline : \A k \in DOMAIN rx.timeline[i].data :
        rx.timeline[i].data[k] = rx.timeline[i].offset + k

\* When the session is over, every byte that was read is in the timeline or
\* in a gap.
AllAccounted == actor = "offline" => rx.offset = taken

\* Every byte read is published at its place or counted in a gap.
BytesAccounted == OffsetsExact /\ AllAccounted

\* A Trigger's matcher sees no byte that had been read when its barrier was
\* requested.
TriggerSeesNewOutput ==
    rx.trigger # None /\ rx.trigger.first # 0 => rx.trigger.first > rx.trigger.from

\* Closing a port ends: no task waits for room in a queue nobody empties.  Arming a
\* Trigger ends, with the barrier or with the port.
ActorGoesOn ==
    /\ actor = "joining" ~> actor = "offline"
    /\ actor = "arming" ~> actor # "arming"

\* An accepted write reports "its bounded outcome".
WriteEnds == actor = "waiting" ~> actor # "waiting"

=============================================================================
