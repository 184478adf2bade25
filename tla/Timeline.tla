------------------------------ MODULE Timeline ------------------------------
(***************************************************************************)
(* How an event becomes visible: the Slot actor numbers it, offers it to    *)
(* the journal, puts it into the replay ring, publishes the snapshot and    *)
(* broadcasts it (slot.rs, ring.rs), while clients attach, follow and page  *)
(* through the timeline without any lock that covers the whole (api.rs).    *)
(*                                                                         *)
(* The journal's acknowledgement may be waited for, time out and come late, *)
(* or be followed by a tracker task; the health the Slot shows is that of   *)
(* the newest event whose outcome is known, in whatever order they arrive.  *)
(***************************************************************************)
EXTENDS Naturals, Sequences, FiniteSets

CONSTANTS
    None,
    MaxSeq,         \* bound on the sequence numbers of one daemon epoch
    RingEvents,     \* RING_EVENTS
    Broadcast,      \* BROADCAST_QUEUE
    Permits,        \* JOURNAL_ACK_QUEUE
    Page,           \* tail_events of a client, which replay and live_tail make at least 1
    Recent          \* the events that recent_activity returns at most

ASSUME BoundsAssumption ==
    /\ MaxSeq \in Nat /\ Permits \in Nat /\ Recent \in Nat
    /\ RingEvents \in Nat \ {0} /\ Broadcast \in Nat \ {0} /\ Page \in Nat \ {0}

Seqs == 1..MaxSeq
Heads == 0..MaxSeq

\* What the actor holds while it emits an event, a client's place in attach, its
\* receiver of live events, and what an acknowledgement says.
Emitted == [step : {"wait", "push", "publish", "send"}, seq : Seqs, durable : BOOLEAN, announce : BOOLEAN]
Places == [step : {"subscribed", "snapped", "live"}, how : {"follow", "page", "recent"}, at : Heads]
Receivers == [unread : Seq(Seqs), skipped : Nat]
Acks == [seq : Seqs, outcome : {"durable", "failed", "timeout"}]

ASSUME AbsentAssumption ==
    None \notin Emitted /\ None \notin Places /\ None \notin Receivers /\ None \notin Heads

\* The events that recent_activity reports (what was written, or done to control):
\* here all but the first.
Interferes(n) == n # 1

VARIABLES
    epoch,      \* daemon_epoch
    seq,        \* the last sequence number given
    emit,       \* the event in the actor's hands: how far it is, or None
    realtime,   \* a Trigger or a Macro is active: never wait for the journal
    disk,       \* what became of each event offered to the journal
    trackers,   \* track_journal_ack tasks: the event, and if its wait has timed out
    acks,       \* journal_ack_results, in order
    health,     \* logging with journal_health_seq
    known,      \* the last outcome that the actor has seen for each event
    ring,       \* the replay ring: events with their durable flag
    snapshot,   \* the published head_seq and logging
    live,       \* the client's broadcast receiver: unread events and how many were overwritten
    session,    \* the client's place in attach: the head of its snapshot, then the last event passed on
    view        \* what the client has been given or told is missing

journal == <<disk, trackers, acks>>
actor == <<seq, emit, realtime, health, known>>
client == <<live, session, view>>
vars == <<epoch, actor, journal, ring, snapshot, client>>

-----------------------------------------------------------------------------
(* The journal, as the Slot sees it; its own module is Journal *)

\* The writer takes the queued events in order and acknowledges each.
Acknowledge(outcome) ==
    /\ \E n \in Seqs :
        /\ disk[n] = "queued"
        /\ \A m \in 1..(n - 1) : disk[m] # "queued"
        /\ disk' = [disk EXCEPT ![n] = outcome]
    /\ UNCHANGED <<epoch, actor, trackers, acks, ring, snapshot, client>>

\* track_journal_ack: none when every permit is taken.
Tracked(n, late) ==
    IF Cardinality(trackers) < Permits THEN trackers \cup {[seq |-> n, late |-> late]} ELSE trackers

\* A tracker's first wait ends without an answer; it reports that and waits on.
TrackerTimesOut(t) ==
    /\ t \in trackers /\ ~t.late
    /\ trackers' = (trackers \ {t}) \cup {[t EXCEPT !.late = TRUE]}
    /\ acks' = Append(acks, [seq |-> t.seq, outcome |-> "timeout"])
    /\ UNCHANGED <<epoch, actor, disk, ring, snapshot, client>>

TrackerDone(t) ==
    /\ t \in trackers /\ disk[t.seq] \in {"durable", "failed"}
    /\ trackers' = trackers \ {t}
    /\ acks' = Append(acks, [seq |-> t.seq, outcome |-> disk[t.seq]])
    /\ UNCHANGED <<epoch, actor, disk, ring, snapshot, client>>

-----------------------------------------------------------------------------
(* The Slot's view of the journal's health *)

\* mark_logging_degraded_at
MarkDegradedAt(n) == IF n < health.seq THEN health ELSE [logging |-> "degraded", seq |-> n]

\* LoggingDegraded is announced when the state changed to degraded.
Announces(h) == h.logging = "degraded" /\ health.logging # "degraded"

Place(step, n, durable, announce) == [step |-> step, seq |-> n, durable |-> durable, announce |-> announce]

\* handle_journal_ack_result(Durable): an event at least as new as the last known one.
Recover(n) == IF n >= health.seq THEN [logging |-> "healthy", seq |-> n] ELSE health

\* EventRing::mark_durable
MarkDurable(n) == [i \in DOMAIN ring |-> IF ring[i].seq = n THEN [ring[i] EXCEPT !.durable = TRUE] ELSE ring[i]]

PublishRecovery(h) ==
    snapshot' = IF h.logging = "healthy" THEN [snapshot EXCEPT !.logging = "healthy"] ELSE snapshot

HandleAck ==
    /\ emit = None /\ acks # <<>>
    /\ acks' = Tail(acks)
    /\ LET a == Head(acks)
           h == IF a.outcome = "durable" THEN Recover(a.seq) ELSE MarkDegradedAt(a.seq)
       IN /\ health' = h
          /\ known' = [known EXCEPT ![a.seq] = a.outcome]
          /\ ring' = IF a.outcome = "durable" THEN MarkDurable(a.seq) ELSE ring
          /\ PublishRecovery(h)
          /\ IF Announces(h)
             THEN seq < MaxSeq /\ seq' = seq + 1 /\ emit' = Place("push", seq + 1, FALSE, FALSE)
             ELSE UNCHANGED <<seq, emit>>
    /\ UNCHANGED <<epoch, realtime, disk, trackers, client>>

-----------------------------------------------------------------------------
(* emit_inner *)

\* The event is numbered and offered to the journal.  A healthy journal is waited
\* for, unless the Slot is in real time; otherwise a tracker follows the event,
\* and without a tracker the Slot cannot know and counts as degraded.
Emit ==
    /\ emit = None /\ seq + 1 < MaxSeq
    /\ seq' = seq + 1
    /\ disk' = [disk EXCEPT ![seq + 1] = "queued"]
    /\ IF health.logging = "healthy" /\ ~realtime
       THEN /\ emit' = Place("wait", seq + 1, FALSE, FALSE)
            /\ UNCHANGED <<trackers, health, known>>
       ELSE LET saturated == Cardinality(trackers) >= Permits
                h == IF saturated THEN MarkDegradedAt(seq + 1) ELSE health
            IN /\ trackers' = Tracked(seq + 1, FALSE)
               /\ health' = h
               /\ emit' = Place("push", seq + 1, FALSE, Announces(h))
               /\ known' = IF saturated THEN [known EXCEPT ![seq + 1] = "untracked"] ELSE known
    /\ UNCHANGED <<epoch, realtime, acks, ring, snapshot, client>>

\* try_append refuses: the queue is full or the writer has gone.
EmitRefused ==
    /\ emit = None /\ seq + 1 < MaxSeq
    /\ seq' = seq + 1
    /\ disk' = [disk EXCEPT ![seq + 1] = "refused"]
    /\ LET h == [logging |-> "degraded", seq |-> seq + 1]
       IN health' = h /\ emit' = Place("push", seq + 1, FALSE, Announces(h))
    /\ known' = [known EXCEPT ![seq + 1] = "failed"]
    /\ UNCHANGED <<epoch, realtime, trackers, acks, ring, snapshot, client>>

AckInTime ==
    /\ emit # None /\ emit.step = "wait" /\ disk[emit.seq] \in {"durable", "failed"}
    /\ LET h == IF disk[emit.seq] = "durable" THEN [health EXCEPT !.seq = emit.seq]
                ELSE MarkDegradedAt(emit.seq)
       IN /\ health' = h
          /\ emit' = Place("push", emit.seq, disk[emit.seq] = "durable", Announces(h))
    /\ known' = [known EXCEPT ![emit.seq] = disk[emit.seq]]
    /\ UNCHANGED <<epoch, seq, realtime, journal, ring, snapshot, client>>

\* Mutant of AckTimeout: the late acknowledgement is nobody's business.
AckTimeoutForgotten ==
    /\ emit # None /\ emit.step = "wait" /\ disk[emit.seq] = "queued"
    /\ health' = MarkDegradedAt(emit.seq)
    /\ emit' = Place("push", emit.seq, FALSE, Announces(health'))
    /\ known' = [known EXCEPT ![emit.seq] = "timeout"]
    /\ UNCHANGED <<epoch, seq, realtime, journal, ring, snapshot, client>>

AckTimeout ==
    /\ emit # None /\ emit.step = "wait" /\ disk[emit.seq] = "queued"
    /\ trackers' = Tracked(emit.seq, TRUE)
    /\ health' = MarkDegradedAt(emit.seq)
    /\ emit' = Place("push", emit.seq, FALSE, Announces(health'))
    /\ known' = [known EXCEPT ![emit.seq] = IF trackers' = trackers THEN "untracked" ELSE "timeout"]
    /\ UNCHANGED <<epoch, seq, realtime, disk, acks, ring, snapshot, client>>

\* Mutant of PushRing: the bound is passed by one.
PushRingLate(events, n, durable) ==
    LET all == Append(events, [seq |-> n, durable |-> durable])
    IN IF Len(all) > RingEvents + 1 THEN Tail(all) ELSE all

\* EventRing::push, which evicts the oldest beyond its bounds.
PushRing(events, n, durable) ==
    LET all == Append(events, [seq |-> n, durable |-> durable])
    IN IF Len(all) > RingEvents THEN Tail(all) ELSE all

Push ==
    /\ emit # None /\ emit.step = "push"
    /\ ring' = PushRing(ring, emit.seq, emit.durable)
    /\ emit' = [emit EXCEPT !.step = "publish"]
    /\ UNCHANGED <<epoch, seq, realtime, health, known, journal, snapshot, client>>

Publish ==
    /\ emit # None /\ emit.step = "publish"
    /\ snapshot' = [head |-> seq, logging |-> health.logging]
    /\ emit' = [emit EXCEPT !.step = "send"]
    /\ UNCHANGED <<epoch, seq, realtime, health, known, journal, ring, client>>

\* A tokio broadcast channel overwrites what the slowest receiver has not read.
Overwrite(queue, n) ==
    LET all == Append(queue.unread, n)
    IN IF Len(all) > Broadcast
       THEN [unread |-> Tail(all), skipped |-> queue.skipped + 1]
       ELSE [queue EXCEPT !.unread = all]

\* The broadcast, and the announcement of a degraded journal as the next event,
\* which is not offered to the journal.
SendLive ==
    /\ emit # None /\ emit.step = "send"
    /\ live' = IF live = None THEN None ELSE Overwrite(live, emit.seq)
    /\ IF emit.announce
       THEN seq' = seq + 1 /\ emit' = Place("push", seq + 1, FALSE, FALSE)
       ELSE emit' = None /\ UNCHANGED seq
    /\ UNCHANGED <<epoch, realtime, health, known, journal, ring, snapshot, session, view>>

SwitchMode ==
    /\ emit = None
    /\ realtime' = ~realtime
    /\ UNCHANGED <<epoch, seq, emit, health, known, journal, ring, snapshot, client>>

-----------------------------------------------------------------------------
(* A client: it follows the live stream, pages through the ring, or asks what  *)
(* was done to the line lately                                                 *)

\* Of the ring's places: those up to a number, the newest and the oldest few of some.
UpTo(head) == {i \in DOMAIN ring : ring[i].seq <= head}
Newest(places, n) == {i \in places : Cardinality({j \in places : i < j}) < n}
First(places, n) == {i \in places : Cardinality({j \in places : j < i}) < n}

\* The numbers of the events at some places, and their ends.
Numbers(places) == {ring[i].seq : i \in places}
Least(S) == CHOOSE n \in S : \A m \in S : n <= m
Greatest(S) == CHOOSE n \in S : \A m \in S : m <= n

Window(places, gap) == [places |-> places, gap |-> gap]

\* The client comes with a cursor of this epoch; the ring no longer holds what follows it.
Resumes == view.upto # None /\ view.epoch = epoch
Evicted == ring = <<>> \/ view.upto + 1 < ring[1].seq

\* Mutant of Replay: an event one past the cursor is taken for an evicted one only
\* when two are missing.
ReplayOffByOne(head, tail) ==
    CASE ~Resumes -> Window(Newest(UpTo(head), tail), IF view.upto = None THEN "none" ELSE "epoch")
      [] Resumes /\ view.upto = head -> Window({}, "none")
      [] OTHER -> IF ring = <<>> \/ view.upto + 2 < ring[1].seq
                  THEN Window(Newest(UpTo(head), tail), "evicted")
                  ELSE Window({i \in UpTo(head) : ring[i].seq > view.upto}, "none")

\* EventRing::replay
Replay(head, tail) ==
    CASE ~Resumes -> Window(Newest(UpTo(head), tail), IF view.upto = None THEN "none" ELSE "epoch")
      [] Resumes /\ view.upto = head -> Window({}, "none")
      [] OTHER -> IF Evicted THEN Window(Newest(UpTo(head), tail), "evicted")
                  ELSE Window({i \in UpTo(head) : ring[i].seq > view.upto}, "none")

\* What the client knows after being given events up to a point, and told which
\* numbers are missing.  Without a cursor of this epoch its view begins here.
Given(numbers, missing, upto) ==
    LET base == IF Resumes THEN view.upto ELSE IF numbers = {} THEN upto ELSE Least(numbers) - 1
    IN [view EXCEPT
            !.epoch = epoch, !.upto = upto,
            !.holes = (IF Resumes THEN @ ELSE {}) \cup (((base + 1)..upto) \ (numbers \cup missing)),
            !.again = @ \/ (Resumes /\ \E n \in numbers : n <= view.upto)]

\* SlotHandle::attach takes the receiver first: no event can fall between it and the
\* replay, made after the snapshot has been taken.
Subscribe(how) ==
    /\ session = None
    /\ session' = [step |-> "subscribed", how |-> how, at |-> 0]
    /\ live' = [unread |-> <<>>, skipped |-> 0]
    /\ UNCHANGED <<epoch, actor, journal, ring, snapshot, view>>

TakeSnapshot ==
    /\ session # None /\ session.step = "subscribed"
    /\ session' = [step |-> "snapped", how |-> session.how, at |-> snapshot.head]
    /\ UNCHANGED <<epoch, actor, journal, ring, snapshot, live, view>>

\* replay refuses a cursor that is ahead of the head.
Snapped(how) ==
    /\ session # None /\ session.step = "snapped" /\ session.how = how
    /\ Resumes => view.upto <= session.at

\* send_attach: snapshot, gap, replay (which says where it begins) and ready; then
\* a forwarder passes on what is newer than the snapshot.
Follow ==
    /\ Snapped("follow")
    /\ LET window == Replay(session.at, Page)
           numbers == Numbers(window.places)
           begins == IF numbers # {} THEN Least(numbers)
                     ELSE IF ring = <<>> THEN session.at + 1 ELSE ring[1].seq
           missing == IF window.gap = "none" THEN {} ELSE 1..(begins - 1)
       IN view' = Given(numbers, missing, session.at)
    /\ session' = [session EXCEPT !.step = "live"]
    /\ UNCHANGED <<epoch, actor, journal, ring, snapshot, live>>

\* bounded_live_response: one page of the ring after the cursor, or the newest events.
PageThrough ==
    /\ Snapped("page")
    /\ LET window == Replay(session.at, IF view.upto = None THEN Page ELSE RingEvents)
           limited == view.upto # None /\ Cardinality(window.places) > Page
           numbers == Numbers(IF limited THEN First(window.places, Page) ELSE window.places)
           until == IF ring = <<>> THEN session.at ELSE ring[1].seq - 1
           missing == IF window.gap = "none" THEN {}
                      ELSE (view.upto + 1)..(IF until <= view.upto THEN view.upto + 1 ELSE until)
       IN view' = Given(numbers, missing, IF limited THEN Greatest(numbers) ELSE session.at)
    /\ session' = None /\ live' = None
    /\ UNCHANGED <<epoch, actor, journal, ring, snapshot>>

Truncated(window, relevant) == Cardinality(relevant) > Recent \/ window.gap # "none"

\* recent_activity between two operations of a client.
RecentActivity(through) ==
    /\ Snapped("recent")
    /\ view.upto # None /\ view.upto <= through
    /\ LET window == Replay(session.at, Page)
           relevant == {i \in window.places : ring[i].seq <= through /\ Interferes(ring[i].seq)}
           all == {n \in (view.upto + 1)..through : n <= session.at /\ Interferes(n)}
       IN view' = [view EXCEPT !.misled = @ \/ (/\ ~Truncated(window, relevant)
                                                /\ all # Numbers(Newest(relevant, Recent)))]
    /\ session' = None /\ live' = None
    /\ UNCHANGED <<epoch, actor, journal, ring, snapshot>>

Live == session # None /\ session.step = "live"

\* spawn_live_forwarder: what the replay already held is left out.
Forward ==
    /\ Live /\ live.skipped = 0 /\ live.unread # <<>>
    /\ LET n == Head(live.unread)
       IN IF n <= session.at THEN UNCHANGED <<view, session>>
          ELSE view' = Given({n}, {}, n) /\ session' = [session EXCEPT !.at = n]
    /\ live' = [live EXCEPT !.unread = Tail(@)]
    /\ UNCHANGED <<epoch, actor, journal, ring, snapshot>>

\* Events were overwritten: the client is told and this port is detached; it comes
\* back with the cursor of the last event it was given.
Lagged ==
    /\ Live /\ live.skipped > 0
    /\ session' = None /\ live' = None
    /\ UNCHANGED <<epoch, actor, journal, ring, snapshot, view>>

\* The client detaches, or its connection is lost.
Detach ==
    /\ session # None
    /\ session' = None /\ live' = None
    /\ UNCHANGED <<epoch, actor, journal, ring, snapshot, view>>

-----------------------------------------------------------------------------

NoOutcome == [n \in Seqs |-> "none"]
Untroubled == [logging |-> "healthy", seq |-> 0]
Unpublished == [head |-> 0, logging |-> "healthy"]

Init ==
    /\ epoch = 0 /\ seq = 0 /\ emit = None /\ realtime = FALSE
    /\ disk = NoOutcome /\ trackers = {} /\ acks = <<>>
    /\ health = Untroubled /\ known = NoOutcome
    /\ ring = <<>> /\ snapshot = Unpublished
    /\ live = None /\ session = None
    /\ view = [epoch |-> 0, upto |-> None, holes |-> {}, again |-> FALSE, misled |-> FALSE]

\* The daemon is started again: a new epoch, with an empty ring.
Restart ==
    /\ epoch = 0 /\ epoch' = 1
    /\ seq' = 0 /\ emit' = None /\ realtime' = FALSE
    /\ disk' = NoOutcome /\ trackers' = {} /\ acks' = <<>>
    /\ health' = Untroubled /\ known' = NoOutcome
    /\ ring' = <<>> /\ snapshot' = Unpublished
    /\ live' = None /\ session' = None
    /\ UNCHANGED view

Next ==
    \/ \E outcome \in {"durable", "failed"} : Acknowledge(outcome)
    \/ \E t \in trackers : TrackerTimesOut(t) \/ TrackerDone(t)
    \/ HandleAck \/ Emit \/ EmitRefused \/ AckInTime \/ AckTimeout
    \/ Push \/ Publish \/ SendLive \/ SwitchMode
    \/ \E how \in {"follow", "page", "recent"} : Subscribe(how)
    \/ TakeSnapshot \/ Follow \/ PageThrough
    \/ \E through \in Seqs : RecentActivity(through)
    \/ Forward \/ Lagged \/ Detach \/ Restart

Spec == Init /\ [][Next]_vars

-----------------------------------------------------------------------------
(* Properties *)

TypeOK ==
    /\ epoch \in {0, 1} /\ seq \in Heads /\ realtime \in BOOLEAN
    /\ emit \in Emitted \cup {None}
    /\ disk \in [Seqs -> {"none", "queued", "durable", "failed", "refused"}]
    /\ trackers \subseteq [seq : Seqs, late : BOOLEAN] /\ Cardinality(trackers) <= Permits
    /\ acks \in Seq(Acks)
    /\ health \in [logging : {"healthy", "degraded"}, seq : Heads]
    /\ known \in [Seqs -> {"none", "durable", "failed", "timeout", "untracked"}]
    /\ Len(ring) <= RingEvents /\ ring \in Seq([seq : Seqs, durable : BOOLEAN])
    /\ snapshot \in [head : Heads, logging : {"healthy", "degraded"}]
    /\ live \in Receivers \cup {None} /\ (live # None => Len(live.unread) <= Broadcast)
    /\ session \in Places \cup {None}
    /\ view \in [epoch : {0, 1}, upto : Heads \cup {None}, holes : SUBSET Seqs,
                 again : BOOLEAN, misled : BOOLEAN]

\* Whatever the order in which acknowledgements, timeouts and failures arrive, the
\* health of the journal is what became of the newest event whose fate is known.
HealthIsNewest ==
    /\ \A n \in Seqs : n > health.seq => known[n] = "none"
    /\ health.logging = "healthy" <=> (health.seq = 0 \/ known[health.seq] = "durable")

\* An event whose acknowledgement timed out is still followed: a tracker waits for
\* it or its outcome is on the way, so a late write can make the Slot healthy again.
LateAckFollowed ==
    \A n \in Seqs : known[n] = "timeout" =>
        \/ \E t \in trackers : t.seq = n
        \/ \E i \in DOMAIN acks : acks[i].seq = n /\ acks[i].outcome # "timeout"

\* An event that a replay shows as durable is on disk.
DurableTruthful == \A i \in DOMAIN ring : ring[i].durable => disk[ring[i].seq] = "durable"

\* Between two events, clients that ask see the current head and health.
SnapshotCurrent == emit = None => snapshot.head = seq /\ snapshot.logging = health.logging

\* A client that comes back with its cursor has, for every number up to the newest
\* it was given, the event itself or the server's word that it is gone.  After a gap that
\* word is ReplayBegin's from_seq: a replay cut down to a page begins later than the gap's
\* first_available_seq, and the client must take what lies between as told.
NoHoles == view.holes = {}

\* It is never given an event twice, although the replay and the live stream overlap.
NoEventTwice == ~view.again

\* An answer of recent_activity that does not say it is truncated names every
\* write and every loss of control in the range asked for.
RecentIsComplete == ~view.misled

\* The Slot's logging health is what the newest outcome it has seen says, and an event
\* whose acknowledgement timed out is followed until the journal has answered
\* (track_journal_ack and handle_journal_ack_result in slot.rs).
JournalHealth == HealthIsNewest /\ LateAckFollowed

\* A client that attaches, replays and follows receives every event once and in order or
\* is told of the hole; no event is called durable that the journal has not acknowledged,
\* the published snapshot is current between requests, and recent_activity says when it
\* leaves something out (slot.rs, ring.rs and api.rs).
StreamComplete == NoHoles /\ NoEventTwice /\ DurableTruthful /\ SnapshotCurrent /\ RecentIsComplete

=============================================================================
