------------------------------ MODULE Console ------------------------------
(***************************************************************************)
(* serialctl's terminal console, as far as it talks to the daemon: the       *)
(* network worker with its two channels (ws.rs), and the App's connection,   *)
(* control of the port, typed input and queue of writes (tui.rs).  One port. *)
(*                                                                         *)
(* The App never waits.  What it believes of the port comes from snapshots,  *)
(* events and results that are older than the state they tell of, a result   *)
(* and an event may come in either order, and a request may be in either     *)
(* channel or on the socket when the connection breaks.                      *)
(***************************************************************************)
EXTENDS Naturals, Sequences, SequencesExt

CONSTANTS
    None,
    Typed, Pasted,  \* lines that the user types, or pastes, each once; without any, an
                    \* internal operation queues its writes
    Chunks,         \* physical writes of the one queued operation
    Capacity,       \* of the channel to the worker
    Backlog,        \* of the channel to the App, in answers and events
    MaxConns,       \* bounds: connections,
    MaxRequests,    \* requests of the App,
    MaxFence,       \* leases,
    MaxGeneration   \* and openings of the port

Inputs == Typed \cup Pasted
Agent == 0          \* the owner that is another client; the App's actor is its connection
Lease(owner, fence) == [owner |-> owner, fence |-> fence]
Free == Lease(None, 0)

VARIABLES
    app,            \* the App, and what it told the user
    out,            \* channel to the worker: [conn, request]
    events,         \* channel to the App
    link,           \* the worker's connection, or 0
    conns,          \* connections so far
    inbox,          \* requests on the socket
    replies,        \* answers that the daemon has not sent
    timeline,       \* events that it has not sent
    slot,           \* the port: lease, fences given, whether the App's actor waits, generation,
                    \* and a Trigger of the Agent
    wire            \* what the device got

worker == <<events, link, conns>>
daemon == <<inbox, replies, timeline, slot, wire>>
vars == <<app, out, worker, daemon>>

-----------------------------------------------------------------------------
(* The App.  Its operations are functions of its state a, with a.out for what is *)
(* in the channel to the worker. *)

State == [app EXCEPT !.out = out]
Becomes(a) == app' = [a EXCEPT !.out = <<>>] /\ out' = a.out

Is(a, kinds) == \E r \in a.pending : r.kind \in kinds
Connected(a) == a.conn # None /\ a.hello
Ready(a) == a.phase = "ready"
Owns(a) == Connected(a) /\ a.control.owner = a.conn

\* Mutant of CanSend: the channel has no bound.
CanSendUnbounded(a) == Connected(a) /\ a.requests < MaxRequests

\* send_message: the channel takes it, or nothing happens.
CanSend(a) == Connected(a) /\ Len(a.out) < Capacity /\ a.requests < MaxRequests
Request(a, kind, what, fence) ==
    [kind |-> kind, what |-> what, fence |-> fence, gen |-> a.seen, conn |-> a.conn,
     n |-> a.requests + 1]
Send(a, kind, what, fence) ==
    IF ~CanSend(a) THEN a
    ELSE LET request == Request(a, kind, what, fence)
         IN [a EXCEPT !.out = Append(@, [conn |-> a.conn, request |-> request]),
                      !.pending = @ \cup {request}, !.requests = @ + 1]

\* flush_pending_writes: the next chunk of the operation, unless one is on its way or a
\* Trigger has not ended.  If the channel is full the operation starts again.
Flush(a) ==
    LET next == IF a.inflight = 0 THEN 1 ELSE a.inflight
        held == ~(Owns(a) /\ Ready(a)) \/ a.trigger \/ Is(a, {"write"})
    IN IF held \/ next > Len(a.queue) THEN a
       ELSE IF CanSend(a)
       THEN [Send(a, "write", a.queue[next], a.control.fence) EXCEPT !.inflight = next, !.later = FALSE]
       ELSE [a EXCEPT !.inflight = 0, !.later = TRUE, !.stalled = @ \/ next > 1]

\* acknowledge_inflight_write
Acknowledge(a) ==
    IF a.inflight = 0 THEN a
    ELSE IF a.inflight < Len(a.queue) THEN [a EXCEPT !.inflight = @ + 1]
    ELSE [a EXCEPT !.queue = <<>>, !.inflight = 0]

\* invalidate_slot_pending
Invalidate(a) ==
    [a EXCEPT !.queue = <<>>, !.inflight = 0, !.pending = {}, !.queued = FALSE, !.paste = None,
              !.dropped = @ \cup ({r.what : r \in a.pending} \ {None})]

Asks == {"acquire", "takeover"}
HasQueuedControl(a) == a.queued \/ a.queue # <<>> \/ Is(a, Asks)

\* cancel_queued_control
CancelQueued(a) ==
    IF ~CanSend(a) THEN a
    ELSE LET s == Send(a, "cancel", None, 0)
         IN [s EXCEPT !.queue = <<>>, !.inflight = 0, !.queued = FALSE, !.paste = None,
                      !.pending = {r \in @ : r.kind \notin Asks}]

\* release_slot_control
Release(a) == IF Is(a, {"release"}) THEN a ELSE Send(a, "release", None, a.control.fence)

-----------------------------------------------------------------------------
(* The user *)

\* A key press acts on the state, and shows.
Press(a) == a # State /\ Becomes(a) /\ UNCHANGED <<worker, daemon>>

Type(i) ==
    /\ i \in app.fresh /\ app.draft = None
    /\ Press([State EXCEPT !.draft = i, !.fresh = @ \ {i}])

\* A dangerous paste into RAW mode waits for a confirmation.
Paste(i) ==
    /\ i \in app.fresh /\ app.paste = None
    /\ Press([State EXCEPT !.paste = i, !.fresh = @ \ {i}])

\* request_human_bytes for Enter and for a confirmed paste: what was not sent
\* stays where it was.
Enter ==
    /\ app.draft # None /\ Ready(app) /\ CanSend(State)
    /\ Press([Send(State, "line", app.draft, 0) EXCEPT !.draft = None, !.active = TRUE])

ConfirmPaste ==
    /\ app.paste # None /\ Ready(app) /\ CanSend(State)
    /\ Press([Send(State, "paste", app.paste, 0) EXCEPT !.paste = None, !.active = TRUE])

\* request_write: an operation is queued, and sent or waits for control.  It is
\* kept for internal operations; keys do not reach it.
RequestWrite ==
    /\ ~app.asked /\ Connected(app) /\ Ready(app)
    /\ LET a == [State EXCEPT !.queue = [k \in 1..Chunks |-> k], !.active = TRUE, !.asked = TRUE]
       IN Press(IF Owns(a) THEN Flush(a)
                ELSE IF Is(a, {"acquire"}) THEN a
                ELSE IF CanSend(a) THEN Send(a, "acquire", None, 0)
                ELSE [a EXCEPT !.queue = <<>>])

\* acquire_control, by the user's key; a takeover is an activity.
AcquireControl(kind) ==
    /\ Inputs # {} /\ Ready(app) /\ CanSend(State)
    /\ Press([Send(State, kind, None, 0) EXCEPT !.active = @ \/ kind = "takeover"])

\* release_control
ReleaseControl ==
    /\ Connected(app) /\ Ready(app)
    /\ IF ~Owns(app) /\ HasQueuedControl(app) THEN Press(CancelQueued(State))
       ELSE Owns(app) /\ Press(Release([State EXCEPT !.queue = <<>>, !.inflight = 0]))

\* remove_queued_line_operation: not while a chunk of it is on its way.
RemoveQueued ==
    /\ app.queue # <<>> /\ ~Is(app, {"write"})
    /\ LET a == [State EXCEPT !.queue = <<>>]
       IN Press(IF ~Owns(a) /\ (a.queued \/ Is(a, Asks)) THEN CancelQueued(a) ELSE a)

\* maintain_controls, every ten seconds: a wait is given up, else writes that met a
\* full channel go on, and a lease is renewed, or released when it is idle.
Maintain ==
    /\ Connected(app)
    /\ LET a == Flush(State)
           busy == a.queue # <<>> \/ Is(a, {"write"}) \/ a.active
       IN Press(IF app.queued /\ ~app.active THEN CancelQueued(State)
                ELSE IF ~(Ready(a) /\ Owns(a)) THEN State
                ELSE IF ~busy THEN Release(a)
                ELSE IF Is(a, {"renew"}) THEN a ELSE Send(a, "renew", None, a.control.fence))

GrowsIdle == app.active /\ Press([State EXCEPT !.active = FALSE])

-----------------------------------------------------------------------------
(* What the App makes of the worker's events *)

\* Mutant of Disconnected: the writes on their way are taken for lost.
DisconnectedLost(a) ==
    [a EXCEPT !.conn = None, !.hello = FALSE, !.pending = {}, !.queue = <<>>, !.inflight = 0,
              !.queued = FALSE, !.paste = None, !.active = FALSE,
              !.control = IF a.control.owner = a.conn THEN Free ELSE @,
              !.phase = IF @ = "lagged" THEN @ ELSE "disconnected"]

Disconnected(a) ==
    [a EXCEPT !.conn = None, !.hello = FALSE, !.pending = {}, !.queue = <<>>, !.inflight = 0,
              !.queued = FALSE, !.paste = None, !.active = FALSE,
              !.doubtful = @ \cup ({r.what : r \in a.pending} \ {None}),
              !.control = IF a.control.owner = a.conn THEN Free ELSE @,
              !.phase = IF @ = "lagged" THEN @ ELSE "disconnected"]

\* ServerMessage::Snapshot, Ready, Lagged
OnSnapshot(a, e) ==
    LET b == IF a.seen # e.gen THEN Invalidate(a) ELSE a
    IN [b EXCEPT !.seen = e.gen, !.control = e.lease, !.trigger = e.trigger, !.phase = "attaching"]

\* ServerMessage::Error.  Only a refusal gives the input back.
GiveBack(a, r) ==
    IF r.kind = "line" /\ a.draft = None THEN [a EXCEPT !.draft = r.what]
    ELSE IF r.kind = "paste" /\ a.paste = None THEN [a EXCEPT !.paste = r.what]
    ELSE a

\* Mutant of OnError: an uncertain write is given back like a refused one.
OnErrorAlways(a, r, uncertain) ==
    LET b == [a EXCEPT !.pending = @ \ {r}]
    IN IF r \notin a.pending THEN a
       ELSE IF r.kind \in {"line", "paste"} THEN GiveBack(b, r)
       ELSE IF r.kind \in Asks \cup {"write"} THEN [b EXCEPT !.queued = FALSE, !.queue = <<>>, !.inflight = 0]
       ELSE b

OnError(a, r, uncertain) ==
    LET b == [a EXCEPT !.pending = @ \ {r},
                       !.doubtful = IF uncertain /\ r \in a.pending THEN @ \cup {r.what} ELSE @]
    IN IF r \notin a.pending THEN a
       ELSE IF r.kind \in {"line", "paste"} THEN IF uncertain THEN b ELSE GiveBack(b, r)
       ELSE IF r.kind \in Asks \cup {"write"} THEN [b EXCEPT !.queued = FALSE, !.queue = <<>>, !.inflight = 0]
       ELSE b

\* handle_result
OnResult(a, r, result, l) ==
    LET b == [a EXCEPT !.pending = @ \ {r}]
        installed == [b EXCEPT !.queued = FALSE, !.control = l]
    IN IF r \notin a.pending THEN a
       ELSE CASE result = "granted" -> Flush(installed)
              [] result = "queued" -> [a EXCEPT !.queued = TRUE]
              [] result = "renewed" -> [installed EXCEPT !.later = TRUE]
              [] result = "released" -> [b EXCEPT !.control = Free, !.active = FALSE]
              [] result = "cancelled" ->
                    LET c == [b EXCEPT !.queued = FALSE]
                    IN IF Owns(c) /\ c.queue = <<>> /\ l # Free THEN Release(c) ELSE c
              [] result = "written" ->
                    LET c == [b EXCEPT !.told = @ \cup {r.what}]
                    IN IF r.kind = "write" THEN Flush(Acknowledge(c))
                       ELSE IF l = Free THEN c ELSE [c EXCEPT !.queued = FALSE, !.control = l]

\* apply_event_projection, after what a new session clears.
Projected(a, e) ==
    [a EXCEPT !.seen = e.gen,
              !.control = IF e.kind \in {"granted", "released", "expired", "revoked"} THEN e.lease ELSE @,
              !.trigger = (@ \/ e.kind = "triggered") /\ e.kind # "ended"]

\* push_event, of a live event
OnEvent(a, e) ==
    LET b == IF a.seen # e.gen \/ e.kind = "closed" THEN [Invalidate(a) EXCEPT !.trigger = FALSE] ELSE a
        c == Projected(b, e)
    IN IF Ready(c) /\ Owns(c)
       THEN Flush([c EXCEPT !.queued = FALSE, !.pending = {r \in @ : r.kind \notin Asks}])
       ELSE c

HandleNetwork ==
    /\ events # <<>>
    /\ LET e == Head(events)
           a == State
       IN Becomes(CASE e.kind = "connected" ->
                            [a EXCEPT !.conn = e.conn, !.hello = FALSE, !.phase = "attaching"]
                    [] e.kind = "welcome" -> [a EXCEPT !.hello = TRUE]
                    [] e.kind = "snapshot" -> OnSnapshot(a, e)
                    [] e.kind = "ready" -> Flush([a EXCEPT !.phase = "ready"])
                    [] e.kind = "lagged" -> [a EXCEPT !.phase = "lagged"]
                    [] e.kind = "disconnected" -> Disconnected(a)
                    [] e.kind = "rejected" -> a
                    [] e.kind = "error" -> OnError(a, e.request, e.uncertain)
                    [] e.kind = "result" -> OnResult(a, e.request, e.result, e.lease)
                    [] OTHER -> OnEvent(a, e))
    /\ events' = Tail(events)
    /\ UNCHANGED <<link, conns, daemon>>

-----------------------------------------------------------------------------
(* The network worker *)

Event(kind) == [kind |-> kind]

\* connect: a new connection, with Hello and Attach.
Connect ==
    /\ link = 0 /\ conns < MaxConns /\ Len(events) < Backlog
    /\ link' = conns + 1 /\ conns' = conns + 1
    /\ inbox' = <<[kind |-> "attach"]>>
    /\ events' = Append(events, [kind |-> "connected", conn |-> conns + 1])
    /\ UNCHANGED <<app, out, replies, timeline, slot, wire>>

\* NetworkCommand::Send: only over the connection that the App knew.
Transmit ==
    /\ out # <<>> /\ out' = Tail(out)
    /\ IF Head(out).conn # link THEN events' = Append(events, Event("rejected")) /\ UNCHANGED inbox
       ELSE inbox' = Append(inbox, Head(out).request) /\ UNCHANGED events
    /\ UNCHANGED <<app, link, conns, replies, timeline, slot, wire>>

\* The connection breaks: what is in the channel is rejected, what the daemon has
\* not sent is lost, and the daemon lets go of the actor's lease.  The daemon has
\* or has not taken the requests on the socket: Serve may come first.
Away(s, n) == IF s.lease.owner = n THEN [s EXCEPT !.lease = Free, !.waits = FALSE] ELSE [s EXCEPT !.waits = FALSE]
Break ==
    /\ link # 0
    /\ link' = 0 /\ inbox' = <<>> /\ replies' = {} /\ timeline' = <<>>
    /\ out' = <<>>
    /\ events' = events \o [i \in DOMAIN out |-> Event("rejected")] \o <<Event("disconnected")>>
    /\ slot' = Away(slot, link)
    /\ UNCHANGED <<app, conns, wire>>

\* The daemon drops a subscriber that is too slow; the worker reconnects.
Lag ==
    /\ link # 0 /\ timeline # <<>>
    /\ link' = 0 /\ inbox' = <<>> /\ replies' = {} /\ timeline' = <<>>
    /\ out' = <<>>
    /\ events' = events \o <<Event("lagged")>> \o [i \in DOMAIN out |-> Event("rejected")]
                        \o <<Event("disconnected")>>
    /\ slot' = Away(slot, link)
    /\ UNCHANGED <<app, conns, wire>>

\* The worker reads a result or an event: they come from two tasks of the daemon.
ReadReply(r) ==
    /\ link # 0 /\ r \in replies /\ Len(events) < Backlog
    /\ events' = Append(events, r) /\ replies' = replies \ {r}
    /\ UNCHANGED <<app, out, link, conns, inbox, timeline, slot, wire>>
ReadEvent ==
    /\ link # 0 /\ timeline # <<>> /\ Len(events) < Backlog
    /\ events' = Append(events, Head(timeline)) /\ timeline' = Tail(timeline)
    /\ UNCHANGED <<app, out, link, conns, inbox, replies, slot, wire>>

-----------------------------------------------------------------------------
(* The daemon, as the console uses it *)

Changed(s, kind) == [kind |-> kind, gen |-> s.gen, lease |-> s.lease]
Result(r, result, l) == [kind |-> "result", request |-> r, result |-> result, lease |-> l]
Refusal(r, uncertain) == [kind |-> "error", request |-> r, uncertain |-> uncertain]
Granted(s, owner) == [s EXCEPT !.lease = Lease(owner, s.fences + 1), !.fences = @ + 1]
Mine(r) == slot.lease.owner = link /\ slot.lease.fence = r.fence

Serve(r, s, answers, changes, bytes) ==
    /\ inbox' = Tail(inbox) /\ slot' = s /\ wire' = wire \o bytes
    /\ replies' = replies \cup answers
    /\ timeline' = timeline \o changes

Triggered == slot.trigger = "active"

Attach(r) ==
    /\ r.kind = "attach"
    /\ events' = events \o <<Event("welcome"), [kind |-> "snapshot", gen |-> slot.gen, lease |-> slot.lease,
                                               trigger |-> Triggered],
                             Event("ready")>>
    /\ inbox' = Tail(inbox)
    /\ UNCHANGED <<app, out, link, conns, replies, timeline, slot, wire>>

\* A line goes to the device at once: under the actor's lease, under one that it is
\* given for it, or into the Agent's Run.  A write needs its lease, and no Trigger.
Write(r) ==
    /\ r.kind \in {"line", "paste", "write"}
    /\ LET ok == IF r.kind = "write" THEN Mine(r) /\ ~Triggered ELSE r.gen = slot.gen
           given == r.kind # "write" /\ slot.lease = Free
           s == IF given THEN Granted(slot, link) ELSE slot
           now == IF r.kind # "write" /\ s.lease.owner = link THEN s.lease ELSE Free
       IN \/ Serve(r, slot, {Refusal(r, FALSE)}, <<>>, <<>>)
          \/ ok /\ s.fences <= MaxFence
             /\ Serve(r, s, {Result(r, "written", now)}, IF given THEN <<Changed(s, "granted")>> ELSE <<>>, <<r.what>>)
          \/ ok /\ \E bytes \in {<<>>, <<r.what>>} : Serve(r, slot, {Refusal(r, TRUE)}, <<>>, bytes)
    /\ UNCHANGED <<app, out, events, link, conns>>

\* Control: granted, or the actor waits; the wait ends by an event.
Control(r) ==
    /\ r.kind \in Asks \cup {"cancel", "renew", "release"}
    /\ CASE r.kind \in Asks ->
                IF slot.fences < MaxFence /\ (slot.lease = Free \/ r.kind = "takeover")
                THEN LET s == Granted(slot, link)
                     IN Serve(r, s, {Result(r, "granted", s.lease)}, <<Changed(s, "granted")>>, <<>>)
                ELSE IF slot.lease.owner = Agent
                THEN Serve(r, [slot EXCEPT !.waits = TRUE], {Result(r, "queued", Free)}, <<>>, <<>>)
                ELSE Serve(r, slot, {Refusal(r, FALSE)}, <<>>, <<>>)
         [] r.kind = "cancel" ->
                Serve(r, [slot EXCEPT !.waits = FALSE],
                      {Result(r, "cancelled", IF slot.waits THEN Free ELSE Lease(link, MaxFence + 1))}, <<>>, <<>>)
         [] r.kind = "renew" ->
                Serve(r, slot, {IF Mine(r) THEN Result(r, "renewed", slot.lease) ELSE Refusal(r, FALSE)}, <<>>, <<>>)
         [] r.kind = "release" ->
                IF Mine(r) THEN LET s == [slot EXCEPT !.lease = Free]
                                IN Serve(r, s, {Result(r, "released", Free)}, <<Changed(s, "released")>>, <<>>)
                ELSE Serve(r, slot, {Refusal(r, FALSE)}, <<>>, <<>>)
    /\ UNCHANGED <<app, out, events, link, conns>>

Daemon == inbox # <<>> /\ LET r == Head(inbox) IN Attach(r) \/ Write(r) \/ Control(r)

\* What happens to the port by itself.
Happens(s, changes) ==
    /\ slot' = s
    /\ timeline' = IF link = 0 \/ (inbox # <<>> /\ Head(inbox).kind = "attach") THEN timeline ELSE timeline \o changes
    /\ UNCHANGED <<app, out, worker, inbox, replies, wire>>

AgentAcquires ==
    /\ slot.lease = Free /\ slot.fences < MaxFence
    /\ LET s == Granted(slot, Agent) IN Happens(s, <<Changed(s, "granted")>>)
AgentReleases ==
    /\ slot.lease.owner = Agent
    /\ LET free == [slot EXCEPT !.lease = Free]
           next == [Granted(free, link) EXCEPT !.waits = FALSE]
       IN IF slot.waits /\ slot.fences < MaxFence
          THEN Happens(next, <<Changed(free, "released"), Changed(next, "granted")>>)
          ELSE Happens([free EXCEPT !.waits = FALSE], <<Changed(free, "released")>>)
LeaseExpires ==
    /\ slot.lease.owner \notin {None, Agent}
    /\ LET s == [slot EXCEPT !.lease = Free] IN Happens(s, <<Changed(s, "expired")>>)
PortReopens ==
    /\ slot.gen < MaxGeneration
    /\ LET s == [slot EXCEPT !.lease = Free, !.waits = FALSE, !.trigger = IF Triggered THEN "over" ELSE @]
           t == [s EXCEPT !.gen = @ + 1]
       IN Happens(t, (IF Triggered THEN <<Changed(s, "ended")>> ELSE <<>>)
                     \o <<Changed(s, "revoked"), Changed(s, "closed"), Changed(t, "opened")>>)
\* A Trigger of the Agent.  One whose write is in flight outlives the Agent's lease.
TriggerStarts ==
    /\ Inputs = {} /\ slot.trigger = "none" /\ slot.lease.owner = Agent
    /\ LET s == [slot EXCEPT !.trigger = "active"] IN Happens(s, <<Changed(s, "triggered")>>)
TriggerEnds ==
    /\ Triggered
    /\ LET s == [slot EXCEPT !.trigger = "over"] IN Happens(s, <<Changed(s, "ended")>>)

-----------------------------------------------------------------------------

Init ==
    /\ app = [conn |-> None, hello |-> FALSE, phase |-> "disconnected", control |-> Free, seen |-> 1,
              trigger |-> FALSE, pending |-> {}, queue |-> <<>>, inflight |-> 0, queued |-> FALSE,
              draft |-> None, paste |-> None, active |-> FALSE, requests |-> 0, out |-> <<>>,
              asked |-> Inputs # {}, fresh |-> Inputs, told |-> {}, doubtful |-> {}, dropped |-> {},
              later |-> FALSE, stalled |-> FALSE]
    /\ out = <<>> /\ events = <<>> /\ link = 0 /\ conns = 0
    /\ inbox = <<>> /\ replies = {} /\ timeline = <<>> /\ wire = <<>>
    /\ slot = [lease |-> Free, fences |-> 0, waits |-> FALSE, gen |-> 1, trigger |-> "none"]

User ==
    \/ \E i \in Typed : Type(i)
    \/ \E i \in Pasted : Paste(i)
    \/ Enter \/ ConfirmPaste \/ RequestWrite \/ ReleaseControl \/ RemoveQueued
    \/ \E kind \in Asks : AcquireControl(kind)

Next ==
    \/ User \/ Maintain \/ GrowsIdle
    \/ HandleNetwork
    \/ Connect \/ Transmit \/ Break \/ Lag \/ ReadEvent
    \/ \E r \in replies : ReadReply(r)
    \/ Daemon
    \/ AgentAcquires \/ AgentReleases \/ LeaseExpires \/ PortReopens
    \/ TriggerStarts \/ TriggerEnds

Spec == Init /\ [][Next]_vars

-----------------------------------------------------------------------------
(* Properties *)

TypeOK ==
    /\ app.conn \in {None} \cup 1..MaxConns /\ app.hello \in BOOLEAN /\ app.requests \in 0..MaxRequests
    /\ app.phase \in {"disconnected", "attaching", "ready", "lagged"}
    /\ app.inflight \in 0..Chunks /\ Len(app.queue) \in {0, Chunks}
    /\ app.trigger \in BOOLEAN /\ slot.trigger \in {"none", "active", "over"}
    /\ {app.draft, app.paste} \subseteq Inputs \cup {None}
    /\ Len(out) <= Capacity /\ link \in 0..conns /\ slot.fences \in 0..MaxFence

OnItsWay ==
    {inbox[i].what : i \in {j \in DOMAIN inbox : inbox[j].kind # "attach"}}
    \cup {out[i].request.what : i \in {j \in DOMAIN out : out[j].conn = link}}
Written == Range(wire)

\* A line or a paste that is in the editor, to be edited and sent again, is not on
\* the wire and not on its way to it: the console gives an input back only after a
\* refusal, and never what may have been written.
InEditorIsUnsent == {app.draft, app.paste} \cap (OnItsWay \cup Written) \subseteq {None}

\* The device gets what was typed at most once, and the chunks of a queued
\* operation once each and in order, over connections that break, leases that come
\* and go, and a channel that is full (but for a chunk after the first meeting a
\* full channel, after which flush_pending_writes starts the operation again).
WrittenOnce ==
    ~app.stalled => \A i, j \in DOMAIN wire : i < j => IF wire[i] \in Inputs \/ wire[j] \in Inputs
                                                       THEN wire[i] # wire[j] ELSE wire[i] < wire[j]

\* Nothing typed on one connection goes out on a later one: after a break the user
\* has been told to look before trying again.
NothingStale == \A i \in DOMAIN inbox : inbox[i].kind = "attach" \/ inbox[i].conn = link

\* When the console knows that it controls the port, the queue moves: a write is on its
\* way; or the next tick takes it up, because the channel was full or the lease became
\* known by its renewal; or it waits for a Trigger, whose end is then still to come or on
\* its way to the console, unless the connection it came over is gone.
EndComes(channel) == \E i \in DOMAIN channel : channel[i].kind \in {"ended", "closed"}
QueueMoves ==
    Ready(app) /\ Owns(app) /\ app.queue # <<>> =>
        \/ Is(app, {"write"}) \/ app.later
        \/ app.trigger /\ (Triggered \/ EndComes(timeline) \/ EndComes(events) \/ link # app.conn)

\* Of everything that the device got, the console has said that it was sent, or that
\* this is uncertain, or it still waits to hear of it; or else the session of the
\* port changed while it waited, and it said that the input was discarded.
OutcomeTold ==
    Written \subseteq app.told \cup app.doubtful \cup app.dropped \cup {r.what : r \in app.pending}

=============================================================================
