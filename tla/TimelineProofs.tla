--------------------------- MODULE TimelineProofs ---------------------------
(***************************************************************************)
(* Proofs about the timeline, for any length of an epoch and any sizes of    *)
(* the ring, the broadcast, the pages and the trackers.                     *)
(***************************************************************************)
EXTENDS Timeline, FiniteSetTheorems, WellFoundedInduction, TLAPS

-----------------------------------------------------------------------------
(* The inductive invariant *)

Emitting(steps) == emit # None /\ emit.step \in steps

\* The newest number in the ring, in the snapshot, and among the events sent.
Pushed == IF Emitting({"wait", "push"}) THEN seq - 1 ELSE seq
Published == IF Emitting({"wait", "push", "publish"}) THEN seq - 1 ELSE seq
SentHead == IF emit # None THEN seq - 1 ELSE seq

\* The event in the actor's hands is the last one numbered, a healthy journal is waited
\* for, there is room to announce a degraded one, and what has no number has no outcome.
EmitPlace ==
    /\ emit # None => emit.seq = seq
    /\ emit # None /\ (emit.step = "wait" \/ emit.announce) => seq < MaxSeq
    /\ Emitting({"wait"}) => health.logging = "healthy"
    /\ health.seq <= seq
    /\ \A n \in Seqs : n > seq => disk[n] = "none"

Answered(i) == acks[i].outcome # "timeout"

\* What is said of an event is what became of it.
AcksTrue ==
    /\ \A t \in trackers : t.seq <= seq
    /\ \A i \in DOMAIN acks : acks[i].seq <= seq
    /\ \A i \in DOMAIN acks : Answered(i) => disk[acks[i].seq] = acks[i].outcome
    /\ emit # None /\ emit.durable => disk[emit.seq] = "durable"

\* Behind every timeout that is still to be heard of there is a tracker or the answer.
TimeoutFollowed ==
    \A i \in DOMAIN acks : ~Answered(i) =>
        \/ \E t \in trackers : t.seq = acks[i].seq
        \/ \E j \in DOMAIN acks : i < j /\ acks[j].seq = acks[i].seq /\ Answered(j)

SnapshotPlace ==
    /\ snapshot.head = Published
    /\ ~Emitting({"wait", "push", "publish"}) => snapshot.logging = health.logging

\* The ring holds the newest events, and all of them from its oldest on.
RingRuns ==
    /\ \A i \in DOMAIN ring : ring[i].seq + (Len(ring) - i) = Pushed
    /\ ring = <<>> => Pushed = 0

\* So does the client's receiver, unless something was overwritten.
LiveRuns ==
    live # None /\ live.skipped = 0 =>
        \A i \in DOMAIN live.unread : live.unread[i] + (Len(live.unread) - i) = SentHead

\* What the client was not given by its replay is in its receiver.
SessionPlace ==
    /\ session # None <=> live # None
    /\ session # None /\ session.step # "subscribed" =>
         /\ session.at <= Published
         /\ live.skipped = 0 => SentHead <= session.at + Len(live.unread)
    /\ session # None /\ session.step = "live" => view.upto = session.at /\ view.epoch = epoch

\* The conjuncts of TypeOK, as the steps disturb them.
ActorTyped ==
    /\ epoch \in {0, 1} /\ seq \in Heads /\ realtime \in BOOLEAN
    /\ emit \in Emitted \cup {None}
    /\ health \in [logging : {"healthy", "degraded"}, seq : Heads]
    /\ known \in [Seqs -> {"none", "durable", "failed", "timeout", "untracked"}]
    /\ snapshot \in [head : Heads, logging : {"healthy", "degraded"}]

JournalTyped ==
    /\ disk \in [Seqs -> {"none", "queued", "durable", "failed", "refused"}]
    /\ trackers \subseteq [seq : Seqs, late : BOOLEAN] /\ Cardinality(trackers) <= Permits
    /\ IsFiniteSet(trackers)
    /\ acks \in Seq(Acks)

RingTyped == Len(ring) <= RingEvents /\ ring \in Seq([seq : Seqs, durable : BOOLEAN])

ClientTyped ==
    /\ live \in Receivers \cup {None} /\ (live # None => Len(live.unread) <= Broadcast)
    /\ session \in Places \cup {None}
    /\ view \in [epoch : {0, 1}, upto : Heads \cup {None}, holes : SUBSET Seqs,
                 again : BOOLEAN, misled : BOOLEAN]

\* Everything together.
Invariant ==
    /\ ActorTyped /\ JournalTyped /\ RingTyped /\ ClientTyped
    /\ EmitPlace /\ HealthIsNewest /\ AcksTrue /\ TimeoutFollowed /\ LateAckFollowed
    /\ SnapshotPlace /\ DurableTruthful /\ RingRuns
    /\ LiveRuns /\ SessionPlace /\ NoHoles /\ NoEventTwice /\ RecentIsComplete

-----------------------------------------------------------------------------
(* The operators *)

USE BoundsAssumption, AbsentAssumption

\* What a sequence holds is of its set.
LEMMA Members ==
    ASSUME NEW S, NEW q \in Seq(S), NEW i \in DOMAIN q
    PROVE  q[i] \in S
OBVIOUS

\* What is appended stands behind what was there.
LEMMA Appended ==
    ASSUME NEW S, NEW q \in Seq(S), NEW e \in S, NEW longer, longer = Append(q, e)
    PROVE  /\ longer \in Seq(S) /\ Len(longer) = Len(q) + 1 /\ longer[Len(longer)] = e
           /\ DOMAIN q \subseteq DOMAIN longer /\ Len(longer) \in DOMAIN longer
           /\ \A i \in DOMAIN longer : i = Len(longer) \/ (i \in DOMAIN q /\ longer[i] = q[i])
OBVIOUS

\* What is behind the first stands one place further to the front.
LEMMA Behind ==
    ASSUME NEW S, NEW q \in Seq(S), q # <<>>, NEW shorter, shorter = Tail(q)
    PROVE  /\ shorter \in Seq(S) /\ Len(shorter) = Len(q) - 1 /\ 1 \in DOMAIN q /\ Head(q) = q[1]
           /\ \A i \in DOMAIN shorter : i + 1 \in DOMAIN q /\ shorter[i] = q[i + 1]
           /\ \A i \in DOMAIN q : i = 1 \/ (i - 1 \in DOMAIN shorter /\ shorter[i - 1] = q[i])
OBVIOUS

\* What Place makes of an event: waited for, to be pushed, and with news of the journal.
LEMMA WaitPlace ==
    ASSUME NEW n \in Seqs, NEW e, e = Place("wait", n, FALSE, FALSE)
    PROVE  e \in Emitted /\ e # None /\ e.step = "wait" /\ e.seq = n /\ e.durable = FALSE /\ e.announce = FALSE
<1>1. e \in Emitted
  BY DEF Place, Emitted
<1> QED BY <1>1 DEF Place

\* An event to be pushed that announces nothing.
LEMMA QuietPlace ==
    ASSUME NEW n \in Seqs, NEW e, e = Place("push", n, FALSE, FALSE)
    PROVE  e \in Emitted /\ e # None /\ e.step = "push" /\ e.seq = n /\ e.durable = FALSE /\ e.announce = FALSE
<1>1. e \in Emitted
  BY DEF Place, Emitted
<1> QED BY <1>1 DEF Place

\* An event that the journal has not acknowledged.
LEMMA FreshPlace ==
    ASSUME NEW n \in Seqs, NEW h, NEW e, e = Place("push", n, FALSE, Announces(h))
    PROVE  e \in Emitted /\ e # None /\ e.step = "push" /\ e.seq = n /\ e.durable = FALSE /\ e.announce = Announces(h)
<1>1. Announces(h) \in BOOLEAN
  BY DEF Announces
<1>2. e \in Emitted
  BY <1>1 DEF Place, Emitted
<1> QED BY <1>2 DEF Place

\* An event whose wait for the journal is over.
LEMMA NewsPlace ==
    ASSUME NEW n \in Seqs, NEW durable \in BOOLEAN, NEW h, NEW e, e = Place("push", n, durable, Announces(h))
    PROVE  /\ e \in Emitted /\ e # None /\ e.step = "push" /\ e.seq = n /\ e.durable = durable
           /\ e.announce = Announces(h)
<1>1. Announces(h) \in BOOLEAN
  BY DEF Announces
<1> QED BY <1>1 DEF Place, Emitted

\* The health after bad news, and what it announces.
LEMMA Marked ==
    ASSUME ActorTyped, NEW n \in Seqs, NEW h, h = MarkDegradedAt(n)
    PROVE  /\ h \in [logging : {"healthy", "degraded"}, seq : Heads]
           /\ n < health.seq => h = health
           /\ ~(n < health.seq) => h.logging = "degraded" /\ h.seq = n
BY DEF MarkDegradedAt, ActorTyped, Seqs, Heads

\* The health after good news.
LEMMA Recovered ==
    ASSUME ActorTyped, NEW n \in Seqs, NEW h, h = Recover(n)
    PROVE  /\ h \in [logging : {"healthy", "degraded"}, seq : Heads]
           /\ n < health.seq => h = health
           /\ ~(n < health.seq) => h.logging = "healthy" /\ h.seq = n
BY DEF Recover, ActorTyped, Seqs, Heads

\* What a client does leaves the daemon as it is.
ClientStep ==
    \/ \E how \in {"follow", "page", "recent"} : Subscribe(how)
    \/ TakeSnapshot \/ Follow \/ PageThrough
    \/ \E through \in Seqs : RecentActivity(through)
    \/ Forward \/ Lagged \/ Detach

\* Nothing of the Slot, of the journal or of the ring is a client's to change.
LEMMA ClientKeeps ==
    ASSUME ClientStep
    PROVE  UNCHANGED <<epoch, seq, emit, realtime, health, known, disk, trackers, acks, ring, snapshot>>
BY DEF ClientStep, Subscribe, TakeSnapshot, Follow, PageThrough, RecentActivity, Forward, Lagged,
       Detach, actor, journal

-----------------------------------------------------------------------------
(* The actor *)

\* The parts of HandleAck that are about the actor: what the oldest acknowledgement in
\* the channel says is known, and the health is at least as new.
LEMMA HandleAckParts ==
    ASSUME Invariant, HandleAck
    PROVE  \E a \in Acks, h \in [logging : {"healthy", "degraded"}, seq : Heads] :
             /\ a = acks[1] /\ 1 \in DOMAIN acks /\ a.seq <= seq /\ emit = None
             /\ health' = h /\ known' = [known EXCEPT ![a.seq] = a.outcome]
             /\ a.seq < health.seq => h = health
             /\ ~(a.seq < health.seq) =>
                  h.seq = a.seq /\ h.logging = IF a.outcome = "durable" THEN "healthy" ELSE "degraded"
             /\ snapshot' = IF h.logging = "healthy" THEN [snapshot EXCEPT !.logging = "healthy"] ELSE snapshot
             /\ \/ Announces(h) /\ seq < MaxSeq /\ seq' = seq + 1 /\ emit' = Place("push", seq + 1, FALSE, FALSE)
                \/ ~Announces(h) /\ seq' = seq /\ emit' = emit
             /\ UNCHANGED <<epoch, realtime, disk, trackers, live, session, view>>
<1>1. acks \in Seq(Acks) /\ acks # <<>> /\ ActorTyped
  BY DEF Invariant, JournalTyped, HandleAck
<1>2. PICK a \in Acks : a = Head(acks) /\ a = acks[1] /\ 1 \in DOMAIN acks
  BY <1>1, Behind, Members
<1>3. a.seq <= seq /\ a.seq \in Seqs
  BY <1>2 DEF Invariant, AcksTrue, Acks
<1>4. PICK h : h = IF a.outcome = "durable" THEN Recover(a.seq) ELSE MarkDegradedAt(a.seq)
  OBVIOUS
<1>5. /\ h \in [logging : {"healthy", "degraded"}, seq : Heads]
      /\ a.seq < health.seq => h = health
      /\ ~(a.seq < health.seq) =>
           h.seq = a.seq /\ h.logging = IF a.outcome = "durable" THEN "healthy" ELSE "degraded"
  <2>1. CASE a.outcome = "durable"
    BY <1>1, <1>3, <1>4, <2>1, Recovered
  <2>2. CASE a.outcome # "durable"
    BY <1>1, <1>3, <1>4, <2>2, Marked
  <2> QED BY <2>1, <2>2
<1>6. /\ health' = h /\ known' = [known EXCEPT ![a.seq] = a.outcome] /\ PublishRecovery(h) /\ emit = None
      /\ \/ Announces(h) /\ seq < MaxSeq /\ seq' = seq + 1 /\ emit' = Place("push", seq + 1, FALSE, FALSE)
         \/ ~Announces(h) /\ seq' = seq /\ emit' = emit
      /\ UNCHANGED <<epoch, realtime, disk, trackers, live, session, view>>
  BY <1>2, <1>4 DEF HandleAck, client
<1> QED BY <1>2, <1>3, <1>5, <1>6 DEF PublishRecovery

\* So are those of the steps that number an event, offered to the journal or refused.
LEMMA EmitParts ==
    ASSUME Invariant, Emit \/ EmitRefused
    PROVE  \E n \in Seqs, h \in [logging : {"healthy", "degraded"}, seq : Heads], fate \in {"queued", "refused"} :
             /\ n = seq + 1 /\ n < MaxSeq /\ emit = None /\ seq' = n
             /\ disk' = [disk EXCEPT ![n] = fate]
             /\ health' = h
             /\ \/ /\ h = health /\ health.logging = "healthy" /\ emit' = Place("wait", n, FALSE, FALSE)
                   /\ known' = known /\ trackers' = trackers
                \/ /\ h = health /\ emit' = Place("push", n, FALSE, Announces(h))
                   /\ known' = known /\ trackers' = Tracked(n, FALSE)
                \/ /\ h.logging = "degraded" /\ h.seq = n /\ emit' = Place("push", n, FALSE, Announces(h))
                   /\ \E o \in {"failed", "untracked"} : known' = [known EXCEPT ![n] = o]
                   /\ trackers' = trackers
             /\ UNCHANGED <<epoch, realtime, acks, ring, snapshot, live, session, view>>
<1>1. ActorTyped /\ EmitPlace
  BY DEF Invariant
<1>2. PICK n : n = seq + 1
  OBVIOUS
<1>3. n \in Seqs /\ n < MaxSeq /\ emit = None /\ seq' = n
  <2>1. emit = None /\ n < MaxSeq /\ seq' = n
    BY <1>2 DEF Emit, EmitRefused
  <2>2. seq \in 0..MaxSeq
    BY <1>1 DEF ActorTyped, Heads
  <2> QED BY <1>2, <2>1, <2>2 DEF Seqs
<1>4. ~(n < health.seq) /\ health.seq \in Heads
  BY <1>1, <1>2 DEF EmitPlace, ActorTyped, Heads
<1>5. CASE Emit
  <2>0. /\ disk' = [disk EXCEPT ![n] = "queued"]
        /\ UNCHANGED <<epoch, realtime, acks, ring, snapshot, live, session, view>>
    BY <1>2, <1>5 DEF Emit, client
  <2>1. CASE health.logging = "healthy" /\ ~realtime
    <3>1. emit' = Place("wait", n, FALSE, FALSE) /\ trackers' = trackers /\ health' = health /\ known' = known
      BY <1>2, <1>5, <2>1 DEF Emit
    <3> QED BY <1>1, <1>2, <1>3, <2>0, <2>1, <3>1 DEF ActorTyped
  <2>2. CASE ~(health.logging = "healthy" /\ ~realtime)
    <3>1. CASE Cardinality(trackers) >= Permits
      <4>1. PICK h : h = MarkDegradedAt(n)
        OBVIOUS
      <4>2. /\ trackers' = Tracked(n, FALSE) /\ health' = h
            /\ emit' = Place("push", n, FALSE, Announces(h)) /\ known' = [known EXCEPT ![n] = "untracked"]
        BY <1>2, <1>5, <2>2, <3>1, <4>1 DEF Emit
      <4>3. trackers' = trackers
        BY <3>1, <4>2, FS_CardinalityType DEF Tracked, Invariant, JournalTyped
      <4> QED BY <1>1, <1>2, <1>3, <1>4, <2>0, <4>1, <4>2, <4>3, Marked
    <3>2. CASE ~(Cardinality(trackers) >= Permits)
      <4>1. /\ trackers' = Tracked(n, FALSE) /\ health' = health
            /\ emit' = Place("push", n, FALSE, Announces(health)) /\ known' = known
        BY <1>2, <1>5, <2>2, <3>2 DEF Emit
      <4> QED BY <1>1, <1>2, <1>3, <2>0, <4>1 DEF ActorTyped
    <3> QED BY <3>1, <3>2
  <2> QED BY <2>1, <2>2
<1>6. CASE EmitRefused
  <2>1. PICK h : h = [logging |-> "degraded", seq |-> n]
    OBVIOUS
  <2>2. /\ h \in [logging : {"healthy", "degraded"}, seq : Heads] /\ h.logging = "degraded" /\ h.seq = n
    BY <1>3, <2>1 DEF Heads, Seqs
  <2>3. /\ disk' = [disk EXCEPT ![n] = "refused"] /\ health' = h
        /\ emit' = Place("push", n, FALSE, Announces(h)) /\ known' = [known EXCEPT ![n] = "failed"]
        /\ UNCHANGED <<epoch, realtime, trackers, acks, ring, snapshot, live, session, view>>
    BY <1>2, <1>6, <2>1 DEF EmitRefused, client
  <2> QED BY <1>2, <1>3, <2>2, <2>3
<1> QED BY <1>5, <1>6

\* And of those that end the wait for an acknowledgement.
LEMMA WaitParts ==
    ASSUME Invariant, AckInTime \/ AckTimeout
    PROVE  \E h \in [logging : {"healthy", "degraded"}, seq : Heads], durable \in BOOLEAN,
              o \in {"durable", "failed", "timeout", "untracked"} :
             /\ Emitting({"wait"}) /\ seq \in Seqs /\ seq < MaxSeq
             /\ h.seq = seq /\ h.logging = IF o = "durable" THEN "healthy" ELSE "degraded"
             /\ health' = h /\ emit' = Place("push", seq, durable, Announces(h))
             /\ known' = [known EXCEPT ![seq] = o]
             /\ durable => disk[seq] = "durable"
             /\ trackers' = trackers \/ trackers' = Tracked(seq, TRUE)
             /\ o = "timeout" => trackers' = Tracked(seq, TRUE) /\ trackers' # trackers
             /\ UNCHANGED <<epoch, seq, realtime, disk, acks, ring, snapshot, live, session, view>>
<1>1. ActorTyped /\ EmitPlace
  BY DEF Invariant
<1>2. emit # None /\ emit.step = "wait" /\ emit.seq \in Seqs /\ emit.seq = seq
  BY <1>1 DEF AckInTime, AckTimeout, ActorTyped, Emitted, EmitPlace
<1>3. seq \in Seqs /\ seq < MaxSeq /\ health.logging = "healthy" /\ health.seq \in Heads /\ health.seq <= seq
  BY <1>1, <1>2 DEF EmitPlace, Emitting, ActorTyped
<1>4. ~(seq < health.seq)
  BY <1>3 DEF Heads, Seqs
<1>5. PICK marked : marked = MarkDegradedAt(seq)
  OBVIOUS
<1>6. marked \in [logging : {"healthy", "degraded"}, seq : Heads] /\ marked.logging = "degraded" /\ marked.seq = seq
  BY <1>1, <1>3, <1>4, <1>5, Marked
<1>7. CASE AckInTime /\ disk[seq] = "durable"
  <2>1. PICK h : h = [health EXCEPT !.seq = seq]
    OBVIOUS
  <2>2. h \in [logging : {"healthy", "degraded"}, seq : Heads] /\ h.logging = "healthy" /\ h.seq = seq
    BY <1>1, <1>3, <2>1 DEF ActorTyped, Heads, Seqs
  <2>3. /\ health' = h /\ emit' = Place("push", seq, TRUE, Announces(h)) /\ known' = [known EXCEPT ![seq] = "durable"]
        /\ UNCHANGED <<epoch, seq, realtime, disk, trackers, acks, ring, snapshot, live, session, view>>
    BY <1>2, <1>7, <2>1 DEF AckInTime, journal, client
  <2> QED BY <1>2, <1>3, <1>7, <2>2, <2>3 DEF Emitting
<1>8. CASE AckInTime /\ disk[seq] # "durable"
  <2>1. /\ health' = marked /\ emit' = Place("push", seq, FALSE, Announces(marked))
        /\ disk[seq] = "failed" /\ known' = [known EXCEPT ![seq] = disk[seq]]
        /\ UNCHANGED <<epoch, seq, realtime, disk, trackers, acks, ring, snapshot, live, session, view>>
    BY <1>2, <1>5, <1>8 DEF AckInTime, journal, client
  <2> QED BY <1>2, <1>3, <1>6, <2>1 DEF Emitting
<1>9. CASE AckTimeout
  <2>1. /\ health' = marked /\ emit' = Place("push", seq, FALSE, Announces(marked))
        /\ trackers' = Tracked(seq, TRUE)
        /\ known' = [known EXCEPT ![seq] = IF trackers' = trackers THEN "untracked" ELSE "timeout"]
        /\ UNCHANGED <<epoch, seq, realtime, disk, acks, ring, snapshot, live, session, view>>
    BY <1>2, <1>5, <1>9 DEF AckTimeout, client
  <2>2. CASE trackers' = trackers
    BY <1>2, <1>3, <1>6, <2>1, <2>2 DEF Emitting
  <2>3. CASE trackers' # trackers
    BY <1>2, <1>3, <1>6, <2>1, <2>3 DEF Emitting
  <2> QED BY <2>2, <2>3
<1> QED BY <1>7, <1>8, <1>9

\* The steps that hand on an event leave its number and the health alone.
LEMMA SendParts ==
    ASSUME Invariant, Push \/ Publish \/ SendLive
    PROVE  /\ emit # None /\ emit \in Emitted /\ emit.seq = seq /\ seq \in Seqs
           /\ UNCHANGED <<epoch, realtime, health, known, disk, trackers, acks, session, view>>
           /\ \/ /\ Push /\ emit.step = "push" /\ emit' = [emit EXCEPT !.step = "publish"] /\ seq' = seq
                 /\ ring' = PushRing(ring, seq, emit.durable) /\ UNCHANGED <<snapshot, live>>
              \/ /\ Publish /\ emit.step = "publish" /\ emit' = [emit EXCEPT !.step = "send"] /\ seq' = seq
                 /\ snapshot' = [head |-> seq, logging |-> health.logging] /\ UNCHANGED <<ring, live>>
              \/ /\ SendLive /\ emit.step = "send"
                 /\ live' = IF live = None THEN None ELSE Overwrite(live, seq)
                 /\ \/ emit.announce /\ seq < MaxSeq /\ seq' = seq + 1 /\ emit' = Place("push", seq + 1, FALSE, FALSE)
                    \/ ~emit.announce /\ emit' = None /\ seq' = seq
                 /\ UNCHANGED <<ring, snapshot>>
<1>1. emit # None
  BY DEF Push, Publish, SendLive
<1>2. emit \in Emitted /\ emit.seq = seq
  BY <1>1 DEF Invariant, ActorTyped, EmitPlace
<1>3. seq \in Seqs /\ (emit.announce => seq < MaxSeq)
  BY <1>1, <1>2 DEF Emitted, Invariant, EmitPlace
<1>4. CASE Push
  BY <1>1, <1>2, <1>3, <1>4 DEF Push, journal, client
<1>5. CASE Publish
  BY <1>1, <1>2, <1>3, <1>5 DEF Publish, journal, client
<1>6. CASE SendLive
  BY <1>1, <1>2, <1>3, <1>6 DEF SendLive, journal
<1> QED BY <1>4, <1>5, <1>6

\* Other steps leave the actor alone, or begin a new epoch.
LEMMA OtherParts ==
    ASSUME [Next]_vars
    PROVE  \/ HandleAck \/ Emit \/ EmitRefused \/ AckInTime \/ AckTimeout \/ Push \/ Publish \/ SendLive
           \/ \E outcome \in {"durable", "failed"} : Acknowledge(outcome)
           \/ \E t \in trackers : TrackerTimesOut(t) \/ TrackerDone(t)
           \/ SwitchMode \/ Restart \/ ClientStep \/ UNCHANGED vars
BY DEF Next, ClientStep

\* At the start of an epoch all is as in the beginning.
LEMMA Restarted ==
    ASSUME Restart
    PROVE  /\ epoch' = 1 /\ seq' = 0 /\ emit' = None /\ realtime' = FALSE /\ disk' = NoOutcome /\ known' = NoOutcome
           /\ trackers' = {} /\ acks' = <<>> /\ ring' = <<>> /\ live' = None /\ session' = None /\ view' = view
           /\ health'.logging = "healthy" /\ health'.seq = 0 /\ snapshot'.head = 0 /\ snapshot'.logging = "healthy"
           /\ health' \in [logging : {"healthy", "degraded"}, seq : Heads]
           /\ snapshot' \in [head : Heads, logging : {"healthy", "degraded"}]
BY DEF Restart, Untroubled, Unpublished, Heads

\* No event of a new epoch has an outcome.
LEMMA NothingYet ==
    /\ NoOutcome \in [Seqs -> {"none"}] /\ \A n \in Seqs : NoOutcome[n] = "none"
BY DEF NoOutcome

\* What a step leaves alone when it is not the actor's.
LEMMA QuietParts ==
    ASSUME \/ \E outcome \in {"durable", "failed"} : Acknowledge(outcome)
           \/ \E t \in trackers : TrackerTimesOut(t) \/ TrackerDone(t)
           \/ SwitchMode \/ ClientStep \/ UNCHANGED vars
    PROVE  /\ UNCHANGED <<epoch, seq, emit, health, known, ring, snapshot>>
           /\ realtime' = realtime \/ realtime' = ~realtime
BY ClientKeeps DEF Acknowledge, TrackerTimesOut, TrackerDone, SwitchMode, vars, actor, journal, client

\* The actor's variables keep their types.
LEMMA StepActorTyped ==
    ASSUME Invariant, [Next]_vars
    PROVE  ActorTyped'
<1> USE DEF ActorTyped
<1>0. ActorTyped /\ seq \in Heads
  BY DEF Invariant
<1>1. CASE HandleAck
  <2>1. PICK a \in Acks, h \in [logging : {"healthy", "degraded"}, seq : Heads] :
          /\ health' = h /\ known' = [known EXCEPT ![a.seq] = a.outcome] /\ emit = None
          /\ snapshot' = IF h.logging = "healthy" THEN [snapshot EXCEPT !.logging = "healthy"] ELSE snapshot
          /\ \/ Announces(h) /\ seq < MaxSeq /\ seq' = seq + 1 /\ emit' = Place("push", seq + 1, FALSE, FALSE)
             \/ ~Announces(h) /\ seq' = seq /\ emit' = emit
          /\ UNCHANGED <<epoch, realtime, disk, trackers, live, session, view>>
    BY ONLY <1>1, HandleAckParts, Invariant
  <2>2. a.seq \in Seqs /\ a.outcome \in {"durable", "failed", "timeout"}
    BY DEF Acks
  <2>3. known' \in [Seqs -> {"none", "durable", "failed", "timeout", "untracked"}]
    BY <1>0, <2>1, <2>2
  <2>4. snapshot' \in [head : Heads, logging : {"healthy", "degraded"}]
    BY <1>0, <2>1
  <2>5. seq < MaxSeq => seq + 1 \in Seqs /\ seq + 1 \in Heads
    BY <1>0 DEF Heads, Seqs
  <2>6. seq' \in Heads /\ emit' \in Emitted \cup {None}
    <3>1. CASE Announces(h)
      <4>1. seq + 1 \in Seqs /\ seq + 1 \in Heads /\ seq' = seq + 1 /\ emit' = Place("push", seq + 1, FALSE, FALSE)
        BY ONLY <2>1, <2>5, <3>1
      <4> QED BY <4>1, QuietPlace
    <3>2. CASE ~Announces(h)
      BY ONLY <1>0, <2>1, <3>2
    <3> QED BY <3>1, <3>2
  <2> QED BY <1>0, <2>1, <2>3, <2>4, <2>6
<1>2. CASE Emit \/ EmitRefused
  <2>1. PICK n \in Seqs, h \in [logging : {"healthy", "degraded"}, seq : Heads], fate \in {"queued", "refused"} :
          /\ seq' = n /\ health' = h
          /\ known' = known \/ \E o \in {"failed", "untracked"} : known' = [known EXCEPT ![n] = o]
          /\ emit' = Place("wait", n, FALSE, FALSE) \/ emit' = Place("push", n, FALSE, Announces(h))
          /\ UNCHANGED <<epoch, realtime, acks, ring, snapshot, live, session, view>>
    BY ONLY <1>2, EmitParts, Invariant
  <2>3. seq' \in Heads /\ emit' \in Emitted
    <3>1. seq' \in Heads
      BY ONLY <2>1, BoundsAssumption DEF Heads, Seqs
    <3>2. CASE emit' = Place("wait", n, FALSE, FALSE)
      BY <3>1, <3>2, WaitPlace
    <3>3. CASE emit' = Place("push", n, FALSE, Announces(h))
      BY <3>1, <3>3, FreshPlace
    <3> QED BY ONLY <2>1, <3>1, <3>2, <3>3
  <2>4. known' \in [Seqs -> {"none", "durable", "failed", "timeout", "untracked"}]
    BY <1>0, <2>1
  <2> QED BY <1>0, <2>1, <2>3, <2>4
<1>3. CASE AckInTime \/ AckTimeout
  <2>1. PICK h \in [logging : {"healthy", "degraded"}, seq : Heads], durable \in BOOLEAN,
             o \in {"durable", "failed", "timeout", "untracked"} :
          /\ seq \in Seqs /\ health' = h /\ emit' = Place("push", seq, durable, Announces(h))
          /\ known' = [known EXCEPT ![seq] = o]
          /\ UNCHANGED <<epoch, seq, realtime, disk, acks, ring, snapshot, live, session, view>>
    BY <1>3, WaitParts
  <2>3. emit' \in Emitted
    BY <2>1, NewsPlace
  <2>4. known' \in [Seqs -> {"none", "durable", "failed", "timeout", "untracked"}]
    BY <1>0, <2>1
  <2> QED BY <1>0, <2>1, <2>3, <2>4
<1>4. CASE Push \/ Publish \/ SendLive
  <2>1. /\ emit \in Emitted /\ seq \in Seqs
        /\ \/ (emit' = [emit EXCEPT !.step = "publish"] \/ emit' = [emit EXCEPT !.step = "send"]) /\ seq' = seq
           \/ seq < MaxSeq /\ seq' = seq + 1 /\ emit' = Place("push", seq + 1, FALSE, FALSE)
           \/ emit' = None /\ seq' = seq
        /\ snapshot' = snapshot \/ snapshot' = [head |-> seq, logging |-> health.logging]
        /\ UNCHANGED <<epoch, realtime, health, known>>
    BY <1>4, SendParts
  <2>2. snapshot' \in [head : Heads, logging : {"healthy", "degraded"}]
    BY <1>0, <2>1
  <2>3. seq < MaxSeq => seq + 1 \in Seqs /\ seq + 1 \in Heads
    BY <1>0 DEF Heads, Seqs
  <2>4. emit' \in Emitted \cup {None}
    <3>1. CASE emit' = [emit EXCEPT !.step = "publish"]
      BY ONLY <2>1, <3>1 DEF Emitted
    <3>3. CASE emit' = [emit EXCEPT !.step = "send"]
      BY ONLY <2>1, <3>3 DEF Emitted
    <3>2. CASE seq < MaxSeq /\ emit' = Place("push", seq + 1, FALSE, FALSE)
      BY <2>3, <3>2, QuietPlace
    <3> QED BY <2>1, <3>1, <3>2, <3>3
  <2> QED BY <1>0, <2>1, <2>2, <2>3, <2>4
<1>5. CASE Restart
  BY <1>5, Restarted, NothingYet DEF Heads
<1>6. CASE ~(HandleAck \/ Emit \/ EmitRefused \/ AckInTime \/ AckTimeout \/ Push \/ Publish \/ SendLive \/ Restart)
  BY <1>0, <1>6, OtherParts, QuietParts
<1> QED BY <1>1, <1>2, <1>3, <1>4, <1>5, <1>6

\* The steps that are not the actor's, one by one.
LEMMA QuietSteps ==
    ASSUME \/ \E outcome \in {"durable", "failed"} : Acknowledge(outcome)
           \/ \E t \in trackers : TrackerTimesOut(t) \/ TrackerDone(t)
           \/ SwitchMode \/ ClientStep \/ UNCHANGED vars
    PROVE  /\ UNCHANGED <<epoch, seq, emit, health, known, ring, snapshot>>
           /\ \/ /\ \E n \in Seqs, outcome \in {"durable", "failed"} :
                      disk[n] = "queued" /\ disk' = [disk EXCEPT ![n] = outcome]
                 /\ UNCHANGED <<trackers, acks, live, session, view>>
              \/ /\ \E t \in trackers : TrackerTimesOut(t) \/ TrackerDone(t)
                 /\ UNCHANGED <<disk, live, session, view>>
              \/ UNCHANGED <<disk, trackers, acks>> /\ (ClientStep \/ UNCHANGED <<live, session, view>>)
BY ClientKeeps DEF Acknowledge, TrackerTimesOut, TrackerDone, SwitchMode, vars, actor, journal, client

\* The event in hand stays the last one numbered.
LEMMA StepEmitPlace ==
    ASSUME Invariant, [Next]_vars
    PROVE  EmitPlace'
<1>0. /\ ActorTyped /\ EmitPlace /\ seq \in 0..MaxSeq /\ health.seq \in 0..MaxSeq
      /\ disk \in [Seqs -> {"none", "queued", "durable", "failed", "refused"}]
  BY DEF Invariant, ActorTyped, JournalTyped, Heads
<1>1. CASE HandleAck
  <2>1. PICK a \in Acks, h \in [logging : {"healthy", "degraded"}, seq : Heads] :
          /\ a.seq <= seq /\ health' = h /\ emit = None
          /\ a.seq < health.seq => h = health
          /\ ~(a.seq < health.seq) => h.seq = a.seq
          /\ \/ Announces(h) /\ seq < MaxSeq /\ seq' = seq + 1 /\ emit' = Place("push", seq + 1, FALSE, FALSE)
             \/ ~Announces(h) /\ seq' = seq /\ emit' = emit
          /\ UNCHANGED <<epoch, realtime, disk, trackers, live, session, view>>
    BY ONLY <1>1, HandleAckParts, Invariant
  <2>2. health'.seq <= seq
    BY <1>0, <2>1 DEF EmitPlace
  <2>3. CASE seq < MaxSeq /\ seq' = seq + 1 /\ emit' = Place("push", seq + 1, FALSE, FALSE)
    <3>1. seq + 1 \in Seqs
      BY <1>0, <2>3 DEF Seqs
    <3>2. emit' # None /\ emit'.step = "push" /\ emit'.seq = seq' /\ emit'.announce = FALSE
      BY <2>3, <3>1, QuietPlace
    <3>3. health'.seq <= seq'
      BY <1>0, <2>1, <2>2, <2>3 DEF Heads
    <3>4. \A n \in Seqs : n > seq' => n > seq
      BY <1>0, <2>3 DEF Seqs
    <3> QED BY <1>0, <2>1, <3>2, <3>3, <3>4 DEF EmitPlace, Emitting
  <2>4. CASE seq' = seq /\ emit' = None
    BY <1>0, <2>1, <2>2, <2>4 DEF EmitPlace, Emitting
  <2> QED BY <2>1, <2>3, <2>4
<1>2. CASE Emit \/ EmitRefused
  <2>1. PICK n \in Seqs, h \in [logging : {"healthy", "degraded"}, seq : Heads], fate \in {"queued", "refused"} :
          /\ n = seq + 1 /\ n < MaxSeq /\ seq' = n /\ disk' = [disk EXCEPT ![n] = fate]
          /\ health' = h
          /\ \/ h = health /\ health.logging = "healthy" /\ emit' = Place("wait", n, FALSE, FALSE)
             \/ (h = health \/ h.seq = n) /\ emit' = Place("push", n, FALSE, Announces(h))
    BY ONLY <1>2, EmitParts, Invariant
  <2>2. emit' # None /\ emit'.seq = n /\ (emit'.step = "wait" => health'.logging = "healthy")
    <3>1. CASE h = health /\ health.logging = "healthy" /\ emit' = Place("wait", n, FALSE, FALSE)
      BY <2>1, <3>1, WaitPlace
    <3>2. CASE emit' = Place("push", n, FALSE, Announces(h))
      <4>1. emit' \in Emitted
        BY <3>2, FreshPlace
      <4>2. emit'.seq = n /\ emit'.step = "push"
        BY <3>2 DEF Place
      <4> QED BY <4>1, <4>2
    <3> QED BY ONLY <2>1, <3>1, <3>2
  <2>3. health'.seq <= n
    <3>1. health' = health \/ health'.seq = n
      BY <2>1
    <3>2. health.seq <= n /\ n <= n
      BY <1>0, <2>1 DEF EmitPlace
    <3> QED BY <3>1, <3>2
  <2>4. \A m \in Seqs : m > n => m > seq /\ m # n
    BY <1>0, <2>1 DEF Seqs
  <2>5. \A m \in Seqs : m > n => disk'[m] = "none"
    BY <1>0, <2>1, <2>4 DEF EmitPlace
  <2> QED BY <2>1, <2>2, <2>3, <2>5 DEF EmitPlace, Emitting
<1>3. CASE AckInTime \/ AckTimeout
  <2>1. PICK h \in [logging : {"healthy", "degraded"}, seq : Heads], durable \in BOOLEAN :
          /\ seq \in Seqs /\ seq < MaxSeq /\ h.seq = seq /\ health' = h
          /\ emit' = Place("push", seq, durable, Announces(h)) /\ UNCHANGED <<seq, disk>>
    BY ONLY <1>3, WaitParts, Invariant
  <2>2. emit' # None /\ emit'.step = "push" /\ emit'.seq = seq
    BY <2>1, NewsPlace
  <2> QED BY <1>0, <2>1, <2>2 DEF EmitPlace, Emitting
<1>4. CASE Push \/ Publish \/ SendLive
  <2>1. /\ emit \in Emitted /\ seq \in Seqs /\ emit.seq = seq /\ emit # None
        /\ \/ (emit' = [emit EXCEPT !.step = "publish"] \/ emit' = [emit EXCEPT !.step = "send"]) /\ seq' = seq
           \/ seq < MaxSeq /\ seq' = seq + 1 /\ emit' = Place("push", seq + 1, FALSE, FALSE)
           \/ emit' = None /\ seq' = seq
        /\ UNCHANGED <<health, disk>>
    BY <1>4, SendParts
  <2>2. CASE (emit' = [emit EXCEPT !.step = "publish"] \/ emit' = [emit EXCEPT !.step = "send"]) /\ seq' = seq
    <3>1. emit'.seq = seq /\ emit'.announce = emit.announce /\ emit'.step \in {"publish", "send"}
      BY <2>1, <2>2 DEF Emitted
    <3> QED BY <1>0, <2>1, <2>2, <3>1 DEF EmitPlace, Emitting
  <2>3. CASE seq < MaxSeq /\ seq' = seq + 1 /\ emit' = Place("push", seq + 1, FALSE, FALSE)
    <3>1. seq + 1 \in Seqs
      BY <1>0, <2>3 DEF Seqs
    <3>2. emit' # None /\ emit'.step = "push" /\ emit'.seq = seq' /\ emit'.announce = FALSE
      BY <2>3, <3>1, QuietPlace
    <3>3. health.seq <= seq' /\ \A n \in Seqs : n > seq' => n > seq
      BY <1>0, <2>3 DEF Seqs, EmitPlace
    <3> QED BY <1>0, <2>1, <3>2, <3>3 DEF EmitPlace, Emitting
  <2>4. CASE emit' = None /\ seq' = seq
    BY <1>0, <2>1, <2>4 DEF EmitPlace, Emitting
  <2> QED BY <2>1, <2>2, <2>3, <2>4
<1>5. CASE Restart
  BY <1>5, Restarted, NothingYet DEF EmitPlace, Emitting
<1>6. CASE ~(HandleAck \/ Emit \/ EmitRefused \/ AckInTime \/ AckTimeout \/ Push \/ Publish \/ SendLive \/ Restart)
  <2>1. UNCHANGED <<seq, emit, health>>
    BY <1>6, OtherParts, QuietParts
  <2>2. disk' = disk \/ \E n \in Seqs, o \in {"durable", "failed"} : disk[n] = "queued" /\ disk' = [disk EXCEPT ![n] = o]
    BY <1>6, OtherParts, QuietSteps
  <2>3. \A n \in Seqs : n > seq => disk'[n] = "none"
    BY <1>0, <2>2 DEF EmitPlace
  <2> QED BY <1>0, <2>1, <2>3 DEF EmitPlace, Emitting
<1> QED BY <1>1, <1>2, <1>3, <1>4, <1>5, <1>6

\* What becomes known of the newest event decides the health.
LEMMA NewestDecides ==
    ASSUME Invariant, NEW n \in Seqs, NEW o, health.seq <= n, health'.seq = n,
           health'.logging = IF o = "durable" THEN "healthy" ELSE "degraded", known' = [known EXCEPT ![n] = o]
    PROVE  HealthIsNewest'
<1>1. known \in [Seqs -> {"none", "durable", "failed", "timeout", "untracked"}] /\ health.seq \in 0..MaxSeq
  BY DEF Invariant, ActorTyped, Heads
<1>2. known'[n] = o /\ \A m \in Seqs : m # n => known'[m] = known[m]
  BY <1>1
<1>3. n # 0 /\ \A m \in Seqs : m > n => m # n /\ m > health.seq
  BY <1>1 DEF Seqs
<1>4. HealthIsNewest
  BY DEF Invariant
<1> QED BY <1>2, <1>3, <1>4 DEF HealthIsNewest

\* The health stays that of the newest event whose fate is known.
LEMMA StepHealth ==
    ASSUME Invariant, [Next]_vars
    PROVE  HealthIsNewest'
<1>0. /\ ActorTyped /\ EmitPlace /\ HealthIsNewest /\ seq \in 0..MaxSeq /\ health.seq \in 0..MaxSeq
      /\ known \in [Seqs -> {"none", "durable", "failed", "timeout", "untracked"}]
  BY DEF Invariant, ActorTyped, Heads
<1>1. CASE HandleAck
  <2>1. PICK a \in Acks, h \in [logging : {"healthy", "degraded"}, seq : Heads] :
          /\ health' = h /\ known' = [known EXCEPT ![a.seq] = a.outcome]
          /\ a.seq < health.seq => h = health
          /\ ~(a.seq < health.seq) =>
               h.seq = a.seq /\ h.logging = IF a.outcome = "durable" THEN "healthy" ELSE "degraded"
    BY ONLY <1>1, HandleAckParts, Invariant
  <2>2. a.seq \in Seqs
    BY DEF Acks
  <2>3. CASE a.seq < health.seq
    <3>1. health' = health /\ \A n \in Seqs : n # a.seq => known'[n] = known[n]
      BY <1>0, <2>1, <2>3
    <3>2. health.seq # 0 /\ health.seq \in Seqs /\ health.seq # a.seq /\ \A n \in Seqs : n > health.seq => n # a.seq
      BY <1>0, <2>2, <2>3 DEF Seqs
    <3> QED BY <1>0, <3>1, <3>2 DEF HealthIsNewest
  <2>4. CASE ~(a.seq < health.seq)
    <3>1. health.seq <= a.seq
      BY <1>0, <2>2, <2>4 DEF Seqs
    <3>2. health'.seq = a.seq /\ health'.logging = IF a.outcome = "durable" THEN "healthy" ELSE "degraded"
      BY <2>1, <2>4
    <3> QED BY <2>1, <2>2, <3>1, <3>2, NewestDecides
  <2> QED BY <2>3, <2>4
<1>2. CASE Emit \/ EmitRefused
  <2>1. PICK n \in Seqs, h \in [logging : {"healthy", "degraded"}, seq : Heads], fate \in {"queued", "refused"} :
          /\ n = seq + 1 /\ health' = h
          /\ \/ h = health /\ known' = known
             \/ /\ h.logging = "degraded" /\ h.seq = n
                /\ \E o \in {"failed", "untracked"} : known' = [known EXCEPT ![n] = o]
    BY ONLY <1>2, EmitParts, Invariant
  <2>2. CASE h = health /\ known' = known
    BY <1>0, <2>1, <2>2 DEF HealthIsNewest
  <2>3. CASE h.logging = "degraded" /\ h.seq = n /\ \E o \in {"failed", "untracked"} : known' = [known EXCEPT ![n] = o]
    <3>1. health.seq <= n
      BY <1>0, <2>1 DEF EmitPlace
    <3>2. PICK o \in {"failed", "untracked"} : known' = [known EXCEPT ![n] = o]
      BY <2>3
    <3>3. health'.seq = n /\ health'.logging = IF o = "durable" THEN "healthy" ELSE "degraded"
      BY <2>1, <2>3, <3>2
    <3> QED BY <3>1, <3>2, <3>3, NewestDecides
  <2> QED BY <2>1, <2>2, <2>3
<1>3. CASE AckInTime \/ AckTimeout
  <2>1. PICK h \in [logging : {"healthy", "degraded"}, seq : Heads], durable \in BOOLEAN,
             o \in {"durable", "failed", "timeout", "untracked"} :
          /\ seq \in Seqs /\ health' = h /\ h.seq = seq
          /\ h.logging = IF o = "durable" THEN "healthy" ELSE "degraded"
          /\ known' = [known EXCEPT ![seq] = o]
    BY ONLY <1>3, WaitParts, Invariant
  <2>2. health.seq <= seq
    BY <1>0 DEF EmitPlace
  <2> QED BY <2>1, <2>2, NewestDecides
<1>4. CASE Push \/ Publish \/ SendLive
  BY <1>0, <1>4, SendParts DEF HealthIsNewest
<1>5. CASE Restart
  <2>1. health'.seq = 0 /\ health'.logging = "healthy" /\ \A n \in Seqs : known'[n] = "none"
    BY <1>5, Restarted, NothingYet
  <2> QED BY <2>1 DEF HealthIsNewest
<1>6. CASE ~(HandleAck \/ Emit \/ EmitRefused \/ AckInTime \/ AckTimeout \/ Push \/ Publish \/ SendLive \/ Restart)
  BY <1>0, <1>6, OtherParts, QuietParts DEF HealthIsNewest
<1> QED BY <1>1, <1>2, <1>3, <1>4, <1>5, <1>6

-----------------------------------------------------------------------------
(* The journal's answers *)

\* There are never more trackers than permits.
LEMMA TrackersBounded ==
    ASSUME JournalTyped, NEW n \in Seqs, NEW late \in BOOLEAN, NEW grown, grown = Tracked(n, late)
    PROVE  /\ grown \subseteq [seq : Seqs, late : BOOLEAN] /\ Cardinality(grown) <= Permits /\ IsFiniteSet(grown)
           /\ grown = trackers \/ grown = trackers \cup {[seq |-> n, late |-> late]}
<1>1. IsFiniteSet(trackers) /\ Cardinality(trackers) \in Nat
  BY FS_CardinalityType DEF JournalTyped
<1>2. CASE Cardinality(trackers) < Permits
  <2>1. PICK t : t = [seq |-> n, late |-> late]
    OBVIOUS
  <2>2. grown = trackers \cup {t}
    BY <1>2, <2>1 DEF Tracked
  <2>3. t \in [seq : Seqs, late : BOOLEAN]
    BY <2>1
  <2>4. IsFiniteSet(grown) /\ (Cardinality(grown) = Cardinality(trackers) \/ Cardinality(grown) = Cardinality(trackers) + 1)
    BY <1>1, <2>2, FS_AddElement
  <2>5. grown \subseteq [seq : Seqs, late : BOOLEAN]
    BY <2>2, <2>3 DEF JournalTyped
  <2>6. Cardinality(grown) <= Permits
    BY <1>1, <1>2, <2>4
  <2> QED BY <2>1, <2>2, <2>4, <2>5, <2>6
<1>3. CASE ~(Cardinality(trackers) < Permits)
  BY <1>1, <1>3 DEF Tracked, JournalTyped
<1> QED BY <1>2, <1>3

\* What a tracker does: it answers, and goes on only after a timeout.
LEMMA TrackerParts ==
    ASSUME Invariant, NEW t \in trackers, TrackerTimesOut(t) \/ TrackerDone(t)
    PROVE  \E a \in Acks, late \in [seq : Seqs, late : BOOLEAN] :
             /\ a.seq = t.seq /\ acks' = Append(acks, a) /\ t.seq \in Seqs /\ late.seq = t.seq
             /\ \/ a.outcome = "timeout" /\ trackers' = (trackers \ {t}) \cup {late}
                \/ a.outcome # "timeout" /\ a.outcome = disk[t.seq] /\ trackers' = trackers \ {t}
             /\ UNCHANGED <<epoch, seq, emit, realtime, health, known, disk, ring, snapshot, live, session, view>>
<1>1. t \in [seq : Seqs, late : BOOLEAN]
  BY DEF Invariant, JournalTyped
<1>2. CASE TrackerTimesOut(t)
  <2>1. PICK a : a = [seq |-> t.seq, outcome |-> "timeout"]
    OBVIOUS
  <2>2. PICK late : late = [t EXCEPT !.late = TRUE]
    OBVIOUS
  <2>3. a \in Acks /\ a.seq = t.seq /\ a.outcome = "timeout"
    BY <1>1, <2>1 DEF Acks
  <2>4. late \in [seq : Seqs, late : BOOLEAN] /\ late.seq = t.seq
    BY <1>1, <2>2
  <2>5. /\ acks' = Append(acks, a) /\ trackers' = (trackers \ {t}) \cup {late}
        /\ UNCHANGED <<epoch, seq, emit, realtime, health, known, disk, ring, snapshot, live, session, view>>
    BY <1>2, <2>1, <2>2 DEF TrackerTimesOut, actor, client
  <2> QED BY <1>1, <2>3, <2>4, <2>5
<1>3. CASE TrackerDone(t)
  <2>1. PICK a : a = [seq |-> t.seq, outcome |-> disk[t.seq]]
    OBVIOUS
  <2>2. disk[t.seq] \in {"durable", "failed"}
    BY <1>3 DEF TrackerDone
  <2>3. a \in Acks /\ a.seq = t.seq /\ a.outcome = disk[t.seq] /\ a.outcome # "timeout"
    BY <1>1, <2>1, <2>2 DEF Acks
  <2>4. /\ acks' = Append(acks, a) /\ trackers' = trackers \ {t}
        /\ UNCHANGED <<epoch, seq, emit, realtime, health, known, disk, ring, snapshot, live, session, view>>
    BY <1>3, <2>1 DEF TrackerDone, actor, client
  <2> QED BY <1>1, <2>3, <2>4
<1> QED BY <1>2, <1>3

\* The journal's variables keep their types, and there are never too many trackers.
LEMMA StepJournalTyped ==
    ASSUME Invariant, [Next]_vars
    PROVE  JournalTyped'
<1>0. JournalTyped /\ ActorTyped
  BY DEF Invariant
<1>1. CASE HandleAck
  <2>1. acks' = Tail(acks) /\ acks # <<>> /\ UNCHANGED <<disk, trackers>>
    BY <1>1 DEF HandleAck
  <2>2. acks' \in Seq(Acks)
    BY <1>0, <2>1, Behind DEF JournalTyped
  <2> QED BY <1>0, <2>1, <2>2 DEF JournalTyped
<1>2. CASE Emit \/ EmitRefused
  <2>1. PICK n \in Seqs, h \in [logging : {"healthy", "degraded"}, seq : Heads], fate \in {"queued", "refused"} :
          /\ disk' = [disk EXCEPT ![n] = fate] /\ acks' = acks
          /\ trackers' = trackers \/ trackers' = Tracked(n, FALSE)
    BY ONLY <1>2, EmitParts, Invariant
  <2>2. /\ trackers' \subseteq [seq : Seqs, late : BOOLEAN] /\ Cardinality(trackers') <= Permits
        /\ IsFiniteSet(trackers')
    BY <1>0, <2>1, TrackersBounded DEF JournalTyped
  <2>3. disk' \in [Seqs -> {"none", "queued", "durable", "failed", "refused"}]
    BY <1>0, <2>1 DEF JournalTyped
  <2> QED BY <1>0, <2>1, <2>2, <2>3 DEF JournalTyped
<1>3. CASE AckInTime \/ AckTimeout
  <2>1. seq \in Seqs /\ UNCHANGED <<disk, acks>> /\ (trackers' = trackers \/ trackers' = Tracked(seq, TRUE))
    BY ONLY <1>3, WaitParts, Invariant
  <2>2. /\ trackers' \subseteq [seq : Seqs, late : BOOLEAN] /\ Cardinality(trackers') <= Permits
        /\ IsFiniteSet(trackers')
    BY <1>0, <2>1, TrackersBounded DEF JournalTyped
  <2> QED BY <1>0, <2>1, <2>2 DEF JournalTyped
<1>4. CASE Push \/ Publish \/ SendLive
  BY <1>0, <1>4, SendParts DEF JournalTyped
<1>5. CASE Restart
  <2>1. disk' \in [Seqs -> {"none"}] /\ trackers' = {} /\ acks' = <<>>
    BY <1>5, Restarted, NothingYet
  <2>2. IsFiniteSet({}) /\ Cardinality({}) = 0
    BY FS_EmptySet
  <2>3. disk' \in [Seqs -> {"none", "queued", "durable", "failed", "refused"}]
    BY <2>1
  <2> QED BY <2>1, <2>2, <2>3 DEF JournalTyped
<1>6. CASE \E t \in trackers : TrackerTimesOut(t) \/ TrackerDone(t)
  <2>1. PICK t \in trackers : TrackerTimesOut(t) \/ TrackerDone(t)
    BY <1>6
  <2>2. PICK a \in Acks, late \in [seq : Seqs, late : BOOLEAN] :
          /\ acks' = Append(acks, a) /\ disk' = disk
          /\ trackers' = (trackers \ {t}) \cup {late} \/ trackers' = trackers \ {t}
    BY <2>1, TrackerParts
  <2>3. acks' \in Seq(Acks)
    BY <1>0, <2>2, Appended DEF JournalTyped
  <2>4. PICK rest : rest = trackers \ {t}
    OBVIOUS
  <2>5. /\ IsFiniteSet(rest) /\ Cardinality(rest) = Cardinality(trackers) - 1
        /\ Cardinality(trackers) \in Nat /\ Cardinality(rest) \in Nat
    BY <1>0, <2>1, <2>4, FS_RemoveElement, FS_CardinalityType DEF JournalTyped
  <2>6. /\ IsFiniteSet(rest \cup {late})
        /\ Cardinality(rest \cup {late}) = Cardinality(rest) \/ Cardinality(rest \cup {late}) = Cardinality(rest) + 1
    BY <2>5, FS_AddElement
  <2>7. IsFiniteSet(trackers') /\ Cardinality(trackers') <= Permits
    <3>1. trackers' = rest \cup {late} \/ trackers' = rest
      BY <2>2, <2>4
    <3>2. Cardinality(trackers) <= Permits
      BY <1>0 DEF JournalTyped
    <3>3. Cardinality(rest) <= Permits /\ Cardinality(rest \cup {late}) <= Permits
      <4>1. PICK n \in Nat, r \in Nat : n = Cardinality(trackers) /\ r = Cardinality(rest) /\ r = n - 1 /\ n <= Permits
        BY <2>5, <3>2
      <4>2. r <= Permits /\ r + 1 <= Permits
        BY <4>1
      <4> QED BY <2>6, <4>1, <4>2
    <3>4. CASE trackers' = rest \cup {late}
      BY <2>6, <3>3, <3>4
    <3>5. CASE trackers' = rest
      BY <2>5, <3>3, <3>5
    <3> QED BY <3>1, <3>4, <3>5
  <2>8. trackers' \subseteq [seq : Seqs, late : BOOLEAN]
    BY <1>0, <2>2 DEF JournalTyped
  <2> QED BY <1>0, <2>2, <2>3, <2>7, <2>8 DEF JournalTyped
<1>7. CASE ~(HandleAck \/ Emit \/ EmitRefused \/ AckInTime \/ AckTimeout \/ Push \/ Publish \/ SendLive \/ Restart)
           /\ ~(\E t \in trackers : TrackerTimesOut(t) \/ TrackerDone(t))
  <2>1. \/ \E n \in Seqs, outcome \in {"durable", "failed"} : disk' = [disk EXCEPT ![n] = outcome] /\ UNCHANGED <<trackers, acks>>
        \/ UNCHANGED <<disk, trackers, acks>>
    BY <1>7, OtherParts, QuietSteps
  <2> QED BY <1>0, <2>1 DEF JournalTyped
<1> QED BY <1>1, <1>2, <1>3, <1>4, <1>5, <1>6, <1>7

\* What became of an event does not change while the daemon lives, nor do numbers fall.
LEMMA Settled ==
    ASSUME Invariant, [Next]_vars, ~Restart
    PROVE  seq <= seq' /\ \A n \in Seqs : disk[n] \in {"durable", "failed"} => disk'[n] = disk[n]
<1>0. /\ EmitPlace /\ seq \in 0..MaxSeq
      /\ disk \in [Seqs -> {"none", "queued", "durable", "failed", "refused"}]
  BY DEF Invariant, ActorTyped, JournalTyped, Heads
<1>1. CASE HandleAck
  <2>1. disk' = disk /\ (seq' = seq \/ seq' = seq + 1)
    BY <1>1, HandleAckParts
  <2> QED BY <1>0, <2>1
<1>2. CASE Emit \/ EmitRefused
  <2>1. PICK n \in Seqs, fate \in {"queued", "refused"} : n = seq + 1 /\ seq' = n /\ disk' = [disk EXCEPT ![n] = fate]
    BY <1>2, EmitParts
  <2>2. disk[n] = "none" /\ seq <= seq'
    BY <1>0, <2>1 DEF EmitPlace
  <2>3. \A m \in Seqs : m # n => disk'[m] = disk[m]
    BY <1>0, <2>1
  <2> QED BY <2>2, <2>3
<1>3. CASE AckInTime \/ AckTimeout
  <2>1. disk' = disk /\ seq' = seq
    BY <1>3, WaitParts
  <2> QED BY <1>0, <2>1
<1>4. CASE Push \/ Publish \/ SendLive
  <2>1. UNCHANGED disk /\ (seq' = seq \/ seq' = seq + 1)
    BY <1>4, SendParts
  <2> QED BY <1>0, <2>1
<1>6. CASE ~(HandleAck \/ Emit \/ EmitRefused \/ AckInTime \/ AckTimeout \/ Push \/ Publish \/ SendLive \/ Restart)
  <2>1. seq' = seq
    BY <1>6, OtherParts, QuietParts
  <2>2. disk' = disk \/ \E n \in Seqs, o \in {"durable", "failed"} : disk[n] = "queued" /\ disk' = [disk EXCEPT ![n] = o]
    BY <1>6, OtherParts, QuietSteps
  <2> QED BY <1>0, <2>1, <2>2
<1> QED BY <1>1, <1>2, <1>3, <1>4, <1>6

\* What a step of a living daemon does to the trackers and to their answers.
LEMMA FollowParts ==
    ASSUME Invariant, [Next]_vars, ~Restart
    PROVE  \/ /\ HandleAck /\ acks # <<>> /\ acks' = Tail(acks) /\ trackers' = trackers
           \/ /\ \E t \in trackers : TrackerTimesOut(t) \/ TrackerDone(t)
              /\ known' = known
           \/ /\ acks' = acks /\ trackers \subseteq trackers'
              /\ \A t \in trackers' : t \in trackers \/ t.seq = seq'
              /\ \/ known' = known
                 \/ \E n \in Seqs, o \in {"durable", "failed", "untracked"} : known' = [known EXCEPT ![n] = o]
                 \/ \E n \in Seqs : known' = [known EXCEPT ![n] = "timeout"] /\ \E t \in trackers' : t.seq = n
<1>0. JournalTyped
  BY DEF Invariant
<1>1. CASE HandleAck
  BY <1>1 DEF HandleAck
<1>2. CASE Emit \/ EmitRefused
  <2>1. PICK n \in Seqs :
          /\ seq' = n /\ acks' = acks
          /\ known' = known \/ \E o \in {"failed", "untracked"} : known' = [known EXCEPT ![n] = o]
          /\ trackers' = trackers \/ trackers' = Tracked(n, FALSE)
    BY ONLY <1>2, EmitParts, Invariant
  <2>2. trackers' = trackers \/ trackers' = trackers \cup {[seq |-> n, late |-> FALSE]}
    BY <1>0, <2>1, TrackersBounded
  <2>3. trackers \subseteq trackers' /\ \A t \in trackers' : t \in trackers \/ t.seq = seq'
    BY <2>1, <2>2
  <2> QED BY <2>1, <2>3
<1>3. CASE AckInTime \/ AckTimeout
  <2>1. PICK o \in {"durable", "failed", "timeout", "untracked"} :
          /\ seq \in Seqs /\ seq' = seq /\ acks' = acks /\ known' = [known EXCEPT ![seq] = o]
          /\ trackers' = trackers \/ trackers' = Tracked(seq, TRUE)
          /\ o = "timeout" => trackers' = Tracked(seq, TRUE) /\ trackers' # trackers
    BY ONLY <1>3, WaitParts, Invariant
  <2>2. PICK t : t = [seq |-> seq, late |-> TRUE]
    OBVIOUS
  <2>3. t.seq = seq /\ (trackers' = trackers \/ trackers' = trackers \cup {t})
    BY <1>0, <2>1, <2>2, TrackersBounded
  <2>4. trackers \subseteq trackers' /\ \A x \in trackers' : x \in trackers \/ x.seq = seq'
    BY <2>1, <2>3
  <2>5. CASE o = "timeout"
    <3>1. t \in trackers'
      BY <2>1, <2>3, <2>5
    <3> QED BY <2>1, <2>3, <2>4, <2>5, <3>1
  <2>6. CASE o # "timeout"
    BY <2>1, <2>4, <2>6
  <2> QED BY <2>5, <2>6
<1>4. CASE Push \/ Publish \/ SendLive
  BY <1>4, SendParts
<1>6. CASE ~(HandleAck \/ Emit \/ EmitRefused \/ AckInTime \/ AckTimeout \/ Push \/ Publish \/ SendLive \/ Restart)
  BY <1>6, OtherParts, QuietSteps
<1> QED BY <1>1, <1>2, <1>3, <1>4, <1>6

\* The answers stay true.
LEMMA StepAcksTrue ==
    ASSUME Invariant, [Next]_vars, ~Restart
    PROVE  AcksTrue'
<1>0. /\ JournalTyped /\ AcksTrue /\ EmitPlace /\ seq \in 0..MaxSeq /\ seq' \in 0..MaxSeq /\ seq <= seq'
      /\ \A n \in Seqs : disk[n] \in {"durable", "failed"} => disk'[n] = disk[n]
  BY Settled, StepActorTyped DEF Invariant, ActorTyped, Heads
<1>1. \A n \in Seqs : n <= seq => n <= seq'
  BY <1>0 DEF Seqs
<1>2. ASSUME NEW a \in Acks, a.seq <= seq, a.outcome # "timeout" => disk[a.seq] = a.outcome
      PROVE  a.seq <= seq' /\ (a.outcome # "timeout" => disk'[a.seq] = a.outcome)
  BY <1>0, <1>1, <1>2 DEF Acks
<1>3. ASSUME NEW i \in DOMAIN acks
      PROVE  acks[i] \in Acks /\ acks[i].seq <= seq' /\ (acks[i].outcome # "timeout" => disk'[acks[i].seq] = acks[i].outcome)
  <2>1. acks[i] \in Acks /\ acks[i].seq \in Seqs
    <3>1. acks[i] \in Acks
      BY <1>0, Members DEF JournalTyped
    <3> QED BY <3>1 DEF Acks
  <2>2. acks[i].seq <= seq /\ (acks[i].outcome # "timeout" => disk[acks[i].seq] = acks[i].outcome)
    BY <1>0 DEF AcksTrue, Answered
  <2>3. PICK a \in Acks : a = acks[i]
    BY <2>1
  <2>4. a.seq \in Seqs /\ a.seq <= seq /\ (a.outcome # "timeout" => disk[a.seq] = a.outcome)
    BY <2>1, <2>2, <2>3
  <2>5. a.seq <= seq' /\ (a.outcome # "timeout" => disk'[a.seq] = a.outcome)
    BY <1>2, <2>4
  <2> QED BY <2>3, <2>5
<1>4. \A t \in trackers : t.seq \in Seqs /\ t.seq <= seq /\ t.seq <= seq'
  BY <1>0, <1>1 DEF AcksTrue, JournalTyped
<1>5. \A i \in DOMAIN acks' : acks'[i].seq <= seq' /\ (acks'[i].outcome # "timeout" => disk'[acks'[i].seq] = acks'[i].outcome)
  <2>1. CASE acks # <<>> /\ acks' = Tail(acks)
    BY <1>0, <1>3, <2>1, Behind DEF JournalTyped
  <2>2. CASE \E t \in trackers : TrackerTimesOut(t) \/ TrackerDone(t)
    <3>1. PICK t \in trackers : TrackerTimesOut(t) \/ TrackerDone(t)
      BY <2>2
    <3>2. PICK a \in Acks :
            /\ a.seq = t.seq /\ acks' = Append(acks, a)
            /\ a.outcome # "timeout" => a.outcome = disk[t.seq]
      BY <3>1, TrackerParts
    <3>3. a.seq <= seq' /\ (a.outcome # "timeout" => disk'[a.seq] = a.outcome)
      BY <1>2, <1>4, <3>1, <3>2
    <3>4. \A i \in DOMAIN acks' : acks'[i] = a \/ (i \in DOMAIN acks /\ acks'[i] = acks[i])
      <4>1. acks \in Seq(Acks)
        BY <1>0 DEF JournalTyped
      <4> QED BY <3>2, <4>1, Appended
    <3> QED BY <1>3, <3>3, <3>4
  <2>3. CASE acks' = acks
    BY <1>3, <2>3
  <2> QED BY <2>1, <2>2, <2>3, FollowParts
<1>6. \A t \in trackers' : t.seq <= seq'
  <2>1. CASE \E t \in trackers : TrackerTimesOut(t) \/ TrackerDone(t)
    <3>1. PICK t \in trackers : TrackerTimesOut(t) \/ TrackerDone(t)
      BY <2>1
    <3>2. PICK late : late.seq = t.seq /\ trackers' \subseteq trackers \cup {late}
      BY <3>1, TrackerParts
    <3> QED BY <1>4, <3>1, <3>2
  <2>2. CASE \A t \in trackers' : t \in trackers \/ t.seq = seq'
    BY <1>0, <1>4, <2>2
  <2> QED BY <2>1, <2>2, FollowParts
<1>7. emit' # None /\ emit'.durable => disk'[emit'.seq] = "durable"
  <2>1. CASE HandleAck
    <3>1. emit' = None \/ (seq < MaxSeq /\ emit' = Place("push", seq + 1, FALSE, FALSE))
      BY <2>1, HandleAckParts
    <3>2. seq < MaxSeq => seq + 1 \in Seqs
      BY <1>0 DEF Seqs
    <3> QED BY <3>1, <3>2, QuietPlace
  <2>2. CASE Emit \/ EmitRefused
    <3>1. PICK n \in Seqs, h \in [logging : {"healthy", "degraded"}, seq : Heads] :
            emit' = Place("wait", n, FALSE, FALSE) \/ emit' = Place("push", n, FALSE, Announces(h))
      BY ONLY <2>2, EmitParts, Invariant
    <3>2. emit'.durable = FALSE
      <4>1. CASE emit' = Place("wait", n, FALSE, FALSE)
        BY <4>1 DEF Place
      <4>2. CASE emit' = Place("push", n, FALSE, Announces(h))
        BY <4>2 DEF Place
      <4> QED BY <3>1, <4>1, <4>2
    <3> QED BY <3>2
  <2>3. CASE AckInTime \/ AckTimeout
    <3>1. PICK h \in [logging : {"healthy", "degraded"}, seq : Heads], durable \in BOOLEAN :
            /\ seq \in Seqs /\ emit' = Place("push", seq, durable, Announces(h)) /\ disk' = disk
            /\ durable => disk[seq] = "durable"
      BY ONLY <2>3, WaitParts, Invariant
    <3>2. emit'.durable = durable /\ emit'.seq = seq
      BY <3>1, NewsPlace
    <3> QED BY <3>1, <3>2
  <2>4. CASE Push \/ Publish \/ SendLive
    <3>1. /\ emit \in Emitted /\ emit # None /\ emit.seq = seq /\ disk' = disk
          /\ \/ emit' = [emit EXCEPT !.step = "publish"] \/ emit' = [emit EXCEPT !.step = "send"]
             \/ seq < MaxSeq /\ emit' = Place("push", seq + 1, FALSE, FALSE)
             \/ emit' = None
      BY <2>4, SendParts
    <3>2. CASE emit' = [emit EXCEPT !.step = "publish"] \/ emit' = [emit EXCEPT !.step = "send"]
      <4>1. emit'.seq = emit.seq /\ emit'.durable = emit.durable
        BY <3>1, <3>2 DEF Emitted
      <4> QED BY <1>0, <3>1, <4>1 DEF AcksTrue
    <3>3. CASE seq < MaxSeq /\ emit' = Place("push", seq + 1, FALSE, FALSE)
      <4>1. seq + 1 \in Seqs
        BY <1>0, <3>3 DEF Seqs
      <4> QED BY <3>3, <4>1, QuietPlace
    <3> QED BY <3>1, <3>2, <3>3
  <2>5. CASE ~(HandleAck \/ Emit \/ EmitRefused \/ AckInTime \/ AckTimeout \/ Push \/ Publish \/ SendLive \/ Restart)
    <3>1. emit' = emit
      BY <2>5, OtherParts, QuietParts
    <3>2. emit # None => emit.seq \in Seqs
      BY DEF Invariant, ActorTyped, Emitted
    <3> QED BY <1>0, <3>1, <3>2 DEF AcksTrue
  <2> QED BY <2>1, <2>2, <2>3, <2>4, <2>5
<1> QED BY <1>5, <1>6, <1>7 DEF AcksTrue, Answered

\* An event is followed: a tracker waits for it, or its answer is behind this place.
Followed(n, place) ==
    \/ \E t \in trackers : t.seq = n
    \/ \E j \in DOMAIN acks : place < j /\ acks[j].seq = n /\ Answered(j)

\* A timeout stays followed, whether the actor has heard of it or not.
LEMMA StepFollowed ==
    ASSUME Invariant, [Next]_vars, ~Restart
    PROVE  TimeoutFollowed' /\ LateAckFollowed'
<1>0. /\ JournalTyped /\ acks \in Seq(Acks)
      /\ known \in [Seqs -> {"none", "durable", "failed", "timeout", "untracked"}]
      /\ \A i \in DOMAIN acks : ~Answered(i) => Followed(acks[i].seq, i)
      /\ \A n \in Seqs : known[n] = "timeout" => Followed(n, 0)
  <2>1. \A n \in Seqs : known[n] = "timeout" => Followed(n, 0)
    <3>1. \A i \in DOMAIN acks : 0 < i
      BY DEF Invariant, JournalTyped
    <3>2. LateAckFollowed
      BY DEF Invariant
    <3> QED BY <3>1, <3>2 DEF LateAckFollowed, Answered, Followed
  <2> QED BY <2>1 DEF Invariant, JournalTyped, ActorTyped, TimeoutFollowed, Followed
<1>1. SUFFICES /\ \A i \in DOMAIN acks' : \A n : acks'[i].seq = n /\ acks'[i].outcome = "timeout" => Followed(n, i)'
               /\ \A n \in Seqs : known'[n] = "timeout" => Followed(n, 0)'
  BY DEF TimeoutFollowed, LateAckFollowed, Answered, Followed
<1>2. CASE HandleAck /\ acks # <<>> /\ acks' = Tail(acks) /\ trackers' = trackers
  <2>1. /\ acks' \in Seq(Acks) /\ 1 \in DOMAIN acks
        /\ \A i \in DOMAIN acks' : i + 1 \in DOMAIN acks /\ acks'[i] = acks[i + 1]
        /\ \A i \in DOMAIN acks : i = 1 \/ (i - 1 \in DOMAIN acks' /\ acks'[i - 1] = acks[i])
    BY <1>0, <1>2, Behind
  <2>2. \A i \in DOMAIN acks : i \in Nat /\ 1 <= i
    BY <1>0
  <2>3. ASSUME NEW n, NEW place \in Nat, Followed(n, place + 1)
        PROVE  Followed(n, place)'
    <3>1. CASE \E t \in trackers : t.seq = n
      BY <1>2, <3>1 DEF Followed
    <3>2. CASE \E j \in DOMAIN acks : place + 1 < j /\ acks[j].seq = n /\ Answered(j)
      <4>1. PICK j \in DOMAIN acks : place + 1 < j /\ acks[j].seq = n /\ Answered(j)
        BY <3>2
      <4>2. j \in Nat /\ j # 1 /\ place < j - 1
        BY <2>2, <4>1
      <4>3. j - 1 \in DOMAIN acks' /\ acks'[j - 1] = acks[j]
        BY <2>1, <4>2
      <4> QED BY <4>1, <4>2, <4>3 DEF Followed, Answered
    <3> QED BY <2>3, <3>1, <3>2 DEF Followed
  <2>4. ASSUME NEW i \in DOMAIN acks', NEW n, acks'[i].seq = n, acks'[i].outcome = "timeout"
        PROVE  Followed(n, i)'
    <3>1. i + 1 \in DOMAIN acks /\ acks'[i] = acks[i + 1] /\ i \in Nat
      BY <2>1
    <3>2. ~Answered(i + 1)
      BY <2>4, <3>1 DEF Answered
    <3>3. Followed(n, i + 1)
      BY <1>0, <2>4, <3>1, <3>2
    <3> QED BY <2>3, <3>1, <3>3
  <2>5. ASSUME NEW n \in Seqs, known'[n] = "timeout"
        PROVE  Followed(n, 0)'
    <3>1. PICK a \in Acks : a = acks[1] /\ known' = [known EXCEPT ![a.seq] = a.outcome] /\ a.seq \in Seqs
      BY <1>2, HandleAckParts DEF Acks
    <3>2. Followed(n, 1)
      <4>1. CASE n = a.seq
        <5>1. a.outcome = "timeout"
          BY <1>0, <2>5, <3>1, <4>1
        <5> QED BY <1>0, <2>1, <3>1, <4>1, <5>1 DEF Answered
      <4>2. CASE n # a.seq
        <5>1. Followed(n, 0)
          BY <1>0, <2>5, <3>1, <4>2
        <5>2. \A j \in DOMAIN acks : acks[j].seq = n => 1 < j
          BY <2>2, <3>1, <4>2
        <5> QED BY <5>1, <5>2 DEF Followed
      <4> QED BY <4>1, <4>2
    <3> QED BY <2>3, <3>2
  <2> QED BY <2>4, <2>5
<1>3. CASE (\E t \in trackers : TrackerTimesOut(t) \/ TrackerDone(t)) /\ known' = known
  <2>1. PICK t \in trackers : TrackerTimesOut(t) \/ TrackerDone(t)
    BY <1>3
  <2>2. PICK a \in Acks, late \in [seq : Seqs, late : BOOLEAN] :
          /\ a.seq = t.seq /\ acks' = Append(acks, a) /\ late.seq = t.seq
          /\ \/ a.outcome = "timeout" /\ trackers' = (trackers \ {t}) \cup {late}
             \/ a.outcome # "timeout" /\ trackers' = trackers \ {t}
    BY <2>1, TrackerParts
  <2>3. /\ Len(acks) + 1 \in DOMAIN acks' /\ acks'[Len(acks) + 1] = a
        /\ \A i \in DOMAIN acks : i \in DOMAIN acks' /\ acks'[i] = acks[i]
        /\ \A i \in DOMAIN acks' : i = Len(acks) + 1 \/ (i \in DOMAIN acks /\ acks'[i] = acks[i])
    BY <1>0, <2>2, Appended
  <2>4. ASSUME NEW n, NEW place \in 0..Len(acks), Followed(n, place)
        PROVE  Followed(n, place)'
    <3>1. CASE n = t.seq
      <4>1. CASE a.outcome = "timeout" /\ trackers' = (trackers \ {t}) \cup {late}
        BY <2>2, <3>1, <4>1 DEF Followed
      <4>2. CASE a.outcome # "timeout"
        <5>1. place < Len(acks) + 1
          BY <1>0, <2>4
        <5> QED BY <2>2, <2>3, <3>1, <4>2, <5>1 DEF Followed, Answered
      <4> QED BY <2>2, <4>1, <4>2
    <3>2. CASE n # t.seq /\ \E x \in trackers : x.seq = n
      BY <2>2, <3>2 DEF Followed
    <3>3. CASE \E j \in DOMAIN acks : place < j /\ acks[j].seq = n /\ Answered(j)
      BY <2>3, <3>3 DEF Followed, Answered
    <3> QED BY <2>4, <3>1, <3>2, <3>3 DEF Followed
  <2>5. ASSUME NEW i \in DOMAIN acks', NEW n, acks'[i].seq = n, acks'[i].outcome = "timeout"
        PROVE  Followed(n, i)'
    <3>1. CASE i \in DOMAIN acks /\ acks'[i] = acks[i]
      <4>1. i \in 0..Len(acks)
        BY <1>0, <3>1
      <4>2. ~Answered(i)
        BY <2>5, <3>1 DEF Answered
      <4>3. Followed(n, i)
        BY <1>0, <2>5, <3>1, <4>2
      <4> QED BY <2>4, <4>1, <4>3
    <3>2. CASE i = Len(acks) + 1
      <4>1. acks'[i] = a
        BY ONLY <2>3, <3>2
      <4>2. a.outcome = "timeout" /\ a.seq = n
        BY <2>5, <4>1
      <4>3. late \in trackers' /\ late.seq = n
        BY <2>2, <4>2
      <4> QED BY <4>3 DEF Followed
    <3> QED BY <2>3, <3>1, <3>2
  <2>6. 0 \in 0..Len(acks)
    BY <1>0
  <2> QED BY <1>0, <1>3, <2>4, <2>5, <2>6
<1>4. CASE /\ acks' = acks /\ trackers \subseteq trackers'
           /\ \/ known' = known
              \/ \E n \in Seqs, o \in {"durable", "failed", "untracked"} : known' = [known EXCEPT ![n] = o]
              \/ \E n \in Seqs : known' = [known EXCEPT ![n] = "timeout"] /\ \E t \in trackers' : t.seq = n
  <2>1. ASSUME NEW n, NEW place, Followed(n, place)
        PROVE  Followed(n, place)'
    BY <1>4, <2>1 DEF Followed, Answered
  <2>2. ASSUME NEW n \in Seqs, known'[n] = "timeout"
        PROVE  Followed(n, 0)'
    <3>1. CASE known[n] = "timeout"
      BY <1>0, <2>1, <3>1
    <3>2. CASE \E t \in trackers' : t.seq = n
      BY <3>2 DEF Followed
    <3>3. known[n] = "timeout" \/ \E t \in trackers' : t.seq = n
      <4>1. CASE known' = known
        BY <2>2, <4>1
      <4>2. CASE \E m \in Seqs, o \in {"durable", "failed", "untracked"} : known' = [known EXCEPT ![m] = o]
        BY <1>0, <2>2, <4>2
      <4>3. CASE \E m \in Seqs : known' = [known EXCEPT ![m] = "timeout"] /\ \E t \in trackers' : t.seq = m
        BY <1>0, <2>2, <4>3
      <4> QED BY <1>4, <4>1, <4>2, <4>3
    <3> QED BY <3>1, <3>2, <3>3
  <2>3. ASSUME NEW i \in DOMAIN acks', NEW n, acks'[i].seq = n, acks'[i].outcome = "timeout"
        PROVE  Followed(n, i)'
    <3>1. i \in DOMAIN acks /\ acks[i].seq = n /\ ~Answered(i)
      BY <1>4, <2>3 DEF Answered
    <3>2. Followed(n, i)
      BY <1>0, <3>1
    <3> QED BY <2>1, <3>2
  <2> QED BY <2>2, <2>3
<1> QED BY <1>2, <1>3, <1>4, FollowParts

-----------------------------------------------------------------------------
(* The snapshot and the ring *)

\* How far the numbers have come, by the place of the event in hand.
LEMMA HowFar ==
    /\ emit = None => Pushed = seq /\ Published = seq /\ SentHead = seq
    /\ emit # None => SentHead = seq - 1
    /\ emit # None /\ emit.step \in {"wait", "push"} => Pushed = seq - 1 /\ Published = seq - 1
    /\ emit # None /\ emit.step = "publish" => Pushed = seq /\ Published = seq - 1
    /\ emit # None /\ emit.step = "send" => Pushed = seq /\ Published = seq
BY DEF Pushed, Published, SentHead, Emitting

\* What each step does to how far they have come, and to what it holds.
LEMMA Progress ==
    ASSUME Invariant, [Next]_vars, ~Restart
    PROVE  \/ ~Push /\ ~Publish /\ ~SendLive /\ Pushed' = Pushed /\ Published' = Published /\ SentHead' = SentHead
           \/ Push /\ Pushed' = seq /\ Pushed = seq - 1 /\ Published' = Published /\ SentHead' = SentHead
           \/ Publish /\ Published' = seq /\ Published = seq - 1 /\ Pushed' = Pushed /\ SentHead' = SentHead
           \/ /\ SendLive /\ SentHead' = seq /\ SentHead = seq - 1
              /\ Pushed' = Pushed /\ Published' = Published /\ Published = seq
<1>0. /\ ActorTyped /\ seq \in 0..MaxSeq /\ MaxSeq \in Nat
      /\ emit # None => emit.step \in {"wait", "push", "publish", "send"}
  BY DEF Invariant, ActorTyped, Heads, Emitted
<1>1. CASE HandleAck
  <2>1. /\ emit = None
        /\ \/ seq < MaxSeq /\ seq' = seq + 1 /\ emit' = Place("push", seq + 1, FALSE, FALSE)
           \/ seq' = seq /\ emit' = emit
    BY <1>1, HandleAckParts
  <2>2. CASE seq' = seq /\ emit' = None
    BY <1>1, <2>1, <2>2, HowFar DEF HandleAck, Push, Publish, SendLive, Pushed, Published, SentHead, Emitting
  <2>3. CASE seq < MaxSeq /\ seq' = seq + 1 /\ emit' = Place("push", seq + 1, FALSE, FALSE)
    <3>1. seq + 1 \in Seqs /\ (seq + 1) - 1 = seq
      BY <1>0, <2>3 DEF Seqs
    <3>2. emit' # None /\ emit'.step = "push" /\ seq' - 1 = seq
      BY <2>3, <3>1, QuietPlace
    <3> QED BY <2>1, <3>2, HowFar DEF Push, Publish, SendLive, Pushed, Published, SentHead, Emitting
  <2> QED BY <2>1, <2>2, <2>3
<1>2. CASE Emit \/ EmitRefused
  <2>1. PICK n \in Seqs, h \in [logging : {"healthy", "degraded"}, seq : Heads] :
          /\ n = seq + 1 /\ seq' = n /\ emit = None
          /\ emit' = Place("wait", n, FALSE, FALSE) \/ emit' = Place("push", n, FALSE, Announces(h))
    BY ONLY <1>2, EmitParts, Invariant
  <2>2. emit' # None /\ emit'.step \in {"wait", "push"}
    <3>1. CASE emit' = Place("wait", n, FALSE, FALSE)
      BY <3>1, WaitPlace
    <3>2. CASE emit' = Place("push", n, FALSE, Announces(h))
      <4>1. emit' \in Emitted
        BY <3>2, FreshPlace
      <4>2. emit'.step = "push"
        BY <3>2 DEF Place
      <4> QED BY <4>1, <4>2
    <3> QED BY <2>1, <3>1, <3>2
  <2>3. seq' - 1 = seq
    BY <1>0, <2>1
  <2> QED BY <2>1, <2>2, <2>3, HowFar DEF Push, Publish, SendLive, Pushed, Published, SentHead, Emitting
<1>3. CASE AckInTime \/ AckTimeout
  <2>1. PICK h \in [logging : {"healthy", "degraded"}, seq : Heads], durable \in BOOLEAN :
          Emitting({"wait"}) /\ seq \in Seqs /\ seq' = seq /\ emit' = Place("push", seq, durable, Announces(h))
    BY ONLY <1>3, WaitParts, Invariant
  <2>2. emit' # None /\ emit'.step = "push" /\ emit # None /\ emit.step = "wait"
    BY <2>1, NewsPlace DEF Emitting
  <2> QED BY <2>1, <2>2, HowFar DEF Push, Publish, SendLive, Pushed, Published, SentHead, Emitting
<1>4. CASE Push
  <2>1. emit # None /\ emit \in Emitted /\ emit.step = "push" /\ emit' = [emit EXCEPT !.step = "publish"] /\ seq' = seq
    BY <1>4, SendParts DEF Push, Publish, SendLive
  <2>2. emit' \in Emitted /\ emit'.step = "publish"
    BY <2>1 DEF Emitted
  <2>3. emit' # None
    BY <2>2
  <2> QED BY <1>4, <2>1, <2>2, <2>3, HowFar DEF Pushed, Published, SentHead, Emitting
<1>5. CASE Publish
  <2>1. emit # None /\ emit \in Emitted /\ emit.step = "publish" /\ emit' = [emit EXCEPT !.step = "send"] /\ seq' = seq
    BY <1>5, SendParts DEF Push, Publish, SendLive
  <2>2. emit' \in Emitted /\ emit'.step = "send"
    BY <2>1 DEF Emitted
  <2>3. emit' # None
    BY <2>2
  <2> QED BY <1>5, <2>1, <2>2, <2>3, HowFar DEF Pushed, Published, SentHead, Emitting
<1>6. CASE SendLive
  <2>1. /\ emit # None /\ emit.step = "send"
        /\ \/ seq < MaxSeq /\ seq' = seq + 1 /\ emit' = Place("push", seq + 1, FALSE, FALSE)
           \/ emit' = None /\ seq' = seq
    BY <1>6, SendParts DEF Push, Publish, SendLive
  <2>2. CASE emit' = None /\ seq' = seq
    BY <1>6, <2>1, <2>2, HowFar DEF Pushed, Published, SentHead, Emitting
  <2>3. CASE seq < MaxSeq /\ seq' = seq + 1 /\ emit' = Place("push", seq + 1, FALSE, FALSE)
    <3>1. seq + 1 \in Seqs /\ (seq + 1) - 1 = seq
      BY <1>0, <2>3 DEF Seqs
    <3>2. emit' # None /\ emit'.step = "push" /\ seq' - 1 = seq
      BY <2>3, <3>1, QuietPlace
    <3> QED BY <1>6, <2>1, <3>2, HowFar DEF Pushed, Published, SentHead, Emitting
  <2> QED BY <2>1, <2>2, <2>3
<1>7. CASE ~(HandleAck \/ Emit \/ EmitRefused \/ AckInTime \/ AckTimeout \/ Push \/ Publish \/ SendLive \/ Restart)
  <2>1. UNCHANGED <<seq, emit>>
    BY <1>7, OtherParts, QuietParts
  <2> QED BY <1>7, <2>1 DEF Pushed, Published, SentHead, Emitting
<1> QED BY <1>1, <1>2, <1>3, <1>4, <1>5, <1>6, <1>7

\* The snapshot is the one last published, and between two requests it is current.
LEMMA StepSnapshotPlace ==
    ASSUME Invariant, [Next]_vars, ~Restart
    PROVE  SnapshotPlace'
<1>0. ActorTyped /\ SnapshotPlace
  BY DEF Invariant
<1>1. CASE HandleAck
  <2>1. PICK h \in [logging : {"healthy", "degraded"}, seq : Heads] :
          /\ emit = None /\ health' = h
          /\ snapshot' = IF h.logging = "healthy" THEN [snapshot EXCEPT !.logging = "healthy"] ELSE snapshot
          /\ \/ seq < MaxSeq /\ emit' = Place("push", seq + 1, FALSE, FALSE)
             \/ ~Announces(h) /\ emit' = emit
    BY <1>1, HandleAckParts
  <2>2. Published' = Published
    BY <1>1, Progress DEF HandleAck, Push, Publish, SendLive
  <2>3. snapshot'.head = snapshot.head
    BY <1>0, <2>1 DEF ActorTyped
  <2>4. CASE seq < MaxSeq /\ emit' = Place("push", seq + 1, FALSE, FALSE)
    <3>1. seq + 1 \in Seqs
      BY <1>0, <2>4 DEF ActorTyped, Heads, Seqs
    <3>2. emit' # None /\ emit'.step = "push"
      BY <2>4, <3>1, QuietPlace
    <3> QED BY <1>0, <2>2, <2>3, <3>2 DEF SnapshotPlace, Emitting
  <2>5. CASE ~Announces(h) /\ emit' = None
    <3>1. snapshot.logging = health.logging
      BY <1>0, <2>1 DEF SnapshotPlace, Emitting
    <3>2. snapshot'.logging = h.logging
      <4>1. CASE h.logging = "healthy"
        BY <1>0, <2>1, <4>1 DEF ActorTyped
      <4>2. CASE h.logging = "degraded"
        <5>1. health.logging = "degraded"
          BY <2>5, <4>2, <1>0 DEF Announces
        <5> QED BY <2>1, <3>1, <4>2, <5>1
      <4> QED BY <2>1, <4>1, <4>2
    <3> QED BY <1>0, <2>1, <2>2, <2>3, <3>2 DEF SnapshotPlace
  <2> QED BY <2>1, <2>4, <2>5
<1>2. CASE Emit \/ EmitRefused
  <2>1. PICK n \in Seqs, h \in [logging : {"healthy", "degraded"}, seq : Heads] :
          /\ snapshot' = snapshot
          /\ emit' = Place("wait", n, FALSE, FALSE) \/ emit' = Place("push", n, FALSE, Announces(h))
    BY ONLY <1>2, EmitParts, Invariant
  <2>2. emit' # None /\ emit'.step \in {"wait", "push"}
    <3>1. CASE emit' = Place("wait", n, FALSE, FALSE)
      BY <3>1, WaitPlace
    <3>2. CASE emit' = Place("push", n, FALSE, Announces(h))
      <4>1. emit' \in Emitted
        BY <3>2, FreshPlace
      <4>2. emit'.step = "push"
        BY <3>2 DEF Place
      <4> QED BY <4>1, <4>2
    <3> QED BY <2>1, <3>1, <3>2
  <2>3. Published' = Published
    BY <1>2, Progress DEF Emit, EmitRefused, Push, Publish, SendLive
  <2> QED BY <1>0, <2>1, <2>2, <2>3 DEF SnapshotPlace, Emitting
<1>3. CASE AckInTime \/ AckTimeout
  <2>1. PICK h \in [logging : {"healthy", "degraded"}, seq : Heads], durable \in BOOLEAN :
          Emitting({"wait"}) /\ seq \in Seqs /\ snapshot' = snapshot /\ emit' = Place("push", seq, durable, Announces(h))
    BY ONLY <1>3, WaitParts, Invariant
  <2>2. emit' # None /\ emit'.step = "push"
    BY <2>1, NewsPlace
  <2>3. Published' = Published
    BY <1>3, <2>1, Progress DEF Emitting, Push, Publish, SendLive
  <2> QED BY <1>0, <2>1, <2>2, <2>3 DEF SnapshotPlace, Emitting
<1>4. CASE Push
  <2>1. emit # None /\ emit \in Emitted /\ emit' = [emit EXCEPT !.step = "publish"] /\ snapshot' = snapshot
    BY <1>4, SendParts DEF Push, Publish, SendLive
  <2>2. emit' \in Emitted /\ emit'.step = "publish"
    BY <2>1 DEF Emitted
  <2>3. Published' = Published
    BY <1>4, Progress DEF Push, Publish, SendLive
  <2> QED BY <1>0, <2>1, <2>2, <2>3 DEF SnapshotPlace, Emitting
<1>5. CASE Publish
  <2>1. snapshot' = [head |-> seq, logging |-> health.logging] /\ health' = health
    BY <1>5, SendParts DEF Push, Publish, SendLive
  <2>2. Published' = seq
    BY <1>5, Progress DEF Push, Publish, SendLive
  <2> QED BY <2>1, <2>2 DEF SnapshotPlace
<1>6. CASE SendLive
  <2>1. snapshot' = snapshot /\ health' = health /\ emit # None /\ emit.step = "send"
    BY <1>6, SendParts DEF Push, Publish, SendLive
  <2>2. Published' = Published
    BY <1>6, Progress DEF Push, Publish, SendLive
  <2>3. snapshot.logging = health.logging
    BY <1>0, <2>1 DEF SnapshotPlace, Emitting
  <2> QED BY <1>0, <2>1, <2>2, <2>3 DEF SnapshotPlace
<1>7. CASE ~(HandleAck \/ Emit \/ EmitRefused \/ AckInTime \/ AckTimeout \/ Push \/ Publish \/ SendLive \/ Restart)
  <2>1. UNCHANGED <<seq, emit, health, snapshot>>
    BY <1>7, OtherParts, QuietParts
  <2> QED BY <1>0, <2>1 DEF SnapshotPlace, Published, Emitting
<1> QED BY <1>1, <1>2, <1>3, <1>4, <1>5, <1>6, <1>7

\* Marking an event durable leaves the ring's numbers in their places.
LEMMA RingMarked ==
    ASSUME RingTyped, NEW n, NEW marked, marked = MarkDurable(n)
    PROVE  /\ marked \in Seq([seq : Seqs, durable : BOOLEAN]) /\ Len(marked) = Len(ring)
           /\ DOMAIN marked = DOMAIN ring /\ \A i \in DOMAIN ring : marked[i].seq = ring[i].seq
           /\ \A i \in DOMAIN ring : marked[i].durable => ring[i].durable \/ ring[i].seq = n
<1>1. ring \in Seq([seq : Seqs, durable : BOOLEAN])
  BY DEF RingTyped
<1>2. \A i \in DOMAIN ring : ring[i] \in [seq : Seqs, durable : BOOLEAN]
  BY <1>1, Members
<1>3. DOMAIN marked = DOMAIN ring
  BY DEF MarkDurable
<1>4. ASSUME NEW i \in DOMAIN ring
      PROVE  /\ marked[i] \in [seq : Seqs, durable : BOOLEAN] /\ marked[i].seq = ring[i].seq
             /\ marked[i].durable => ring[i].durable \/ ring[i].seq = n
  <2>1. PICK e \in [seq : Seqs, durable : BOOLEAN] : e = ring[i]
    BY <1>2
  <2>2. PICK d : d = [e EXCEPT !.durable = TRUE]
    OBVIOUS
  <2>3. d \in [seq : Seqs, durable : BOOLEAN] /\ d.seq = e.seq
    BY <2>1, <2>2
  <2>4. marked[i] = IF e.seq = n THEN d ELSE e
    BY <2>1, <2>2 DEF MarkDurable
  <2> QED BY <2>1, <2>3, <2>4
<1>5. marked \in Seq([seq : Seqs, durable : BOOLEAN]) /\ Len(marked) = Len(ring)
  <2>1. DOMAIN ring = 1..Len(ring) /\ Len(ring) \in Nat
    BY <1>1
  <2>2. marked = [i \in 1..Len(ring) |-> marked[i]]
    BY <1>3, <2>1 DEF MarkDurable
  <2>3. \A i \in 1..Len(ring) : marked[i] \in [seq : Seqs, durable : BOOLEAN]
    BY <1>4, <2>1
  <2> QED BY <2>1, <2>2, <2>3
<1> QED BY <1>3, <1>4, <1>5

\* A pushed event stands last, what was there before it keeps its distance to the end,
\* and the ring keeps its bound.
Extends(pushed, n, durable) ==
    /\ pushed \in Seq([seq : Seqs, durable : BOOLEAN]) /\ Len(pushed) <= RingEvents /\ pushed # <<>>
    /\ \A i \in DOMAIN pushed :
         \/ i = Len(pushed) /\ pushed[i].seq = n /\ pushed[i].durable = durable
         \/ \E j \in DOMAIN ring : pushed[i] = ring[j] /\ Len(pushed) - i = (Len(ring) - j) + 1

\* Pushing extends the ring by one event at its end, within its bound.
LEMMA RingPushed ==
    ASSUME RingTyped, NEW n \in Seqs, NEW durable \in BOOLEAN, NEW pushed, pushed = PushRing(ring, n, durable)
    PROVE  Extends(pushed, n, durable)
<1> USE DEF Extends
<1>1. PICK e : e = [seq |-> n, durable |-> durable]
  OBVIOUS
<1>2. e \in [seq : Seqs, durable : BOOLEAN] /\ e.seq = n /\ e.durable = durable
  BY <1>1
<1>3. ring \in Seq([seq : Seqs, durable : BOOLEAN]) /\ Len(ring) \in Nat /\ Len(ring) <= RingEvents
  BY DEF RingTyped
<1>4. PICK all : all = Append(ring, e)
  OBVIOUS
<1>5. /\ all \in Seq([seq : Seqs, durable : BOOLEAN]) /\ Len(all) = Len(ring) + 1 /\ all # <<>>
      /\ \A i \in DOMAIN all : (i = Len(all) /\ all[i] = e) \/ (i \in DOMAIN ring /\ all[i] = ring[i])
  BY <1>2, <1>3, <1>4, Appended
<1>6. \A i \in DOMAIN all :
        \/ i = Len(all) /\ all[i].seq = n /\ all[i].durable = durable
        \/ \E j \in DOMAIN ring : all[i] = ring[j] /\ Len(all) - i = (Len(ring) - j) + 1
  <2>1. \A i \in DOMAIN ring : Len(all) - i = (Len(ring) - i) + 1
    BY <1>3, <1>5
  <2> QED BY <1>2, <1>5, <2>1
<1>7. CASE Len(all) > RingEvents
  <2>1. pushed = Tail(all)
    BY <1>1, <1>4, <1>7 DEF PushRing
  <2>2. /\ pushed \in Seq([seq : Seqs, durable : BOOLEAN]) /\ Len(pushed) = Len(all) - 1
        /\ \A i \in DOMAIN pushed : i + 1 \in DOMAIN all /\ pushed[i] = all[i + 1]
    BY <1>5, <2>1, Behind
  <2>3. Len(pushed) = RingEvents /\ pushed # <<>>
    BY <1>3, <1>5, <1>7, <2>2
  <2>4. ASSUME NEW i \in DOMAIN pushed
        PROVE  \/ i = Len(pushed) /\ pushed[i].seq = n /\ pushed[i].durable = durable
               \/ \E j \in DOMAIN ring : pushed[i] = ring[j] /\ Len(pushed) - i = (Len(ring) - j) + 1
    <3>1. i \in Nat /\ i + 1 \in DOMAIN all /\ pushed[i] = all[i + 1]
      BY <2>2
    <3>2. Len(pushed) - i = Len(all) - (i + 1) /\ (i + 1 = Len(all) => i = Len(pushed))
      BY <1>3, <1>5, <2>2, <3>1
    <3> QED BY <1>6, <3>1, <3>2
  <2> QED BY <2>2, <2>3, <2>4
<1>8. CASE ~(Len(all) > RingEvents)
  <2>1. pushed = all
    BY <1>1, <1>4, <1>8 DEF PushRing
  <2>2. Len(all) <= RingEvents
    BY <1>3, <1>5, <1>8
  <2> QED BY <1>5, <1>6, <2>1, <2>2
<1> QED BY <1>7, <1>8

\* How each step disturbs the ring: an event becomes durable, or one is pushed.
LEMMA RingParts ==
    ASSUME Invariant, [Next]_vars, ~Restart
    PROVE  \/ /\ ~Push /\ disk' = disk
              /\ \E n \in Seqs : ring' = MarkDurable(n) /\ disk[n] = "durable"
           \/ /\ Push /\ seq \in Seqs /\ disk' = disk
              /\ \E durable \in BOOLEAN : ring' = PushRing(ring, seq, durable) /\ (durable => disk[seq] = "durable")
           \/ ~Push /\ ring' = ring
<1>1. CASE HandleAck
  <2>1. PICK a \in Acks : a = acks[1] /\ a = Head(acks) /\ 1 \in DOMAIN acks /\ disk' = disk
    <3>1. acks \in Seq(Acks) /\ acks # <<>>
      BY <1>1 DEF HandleAck, Invariant, JournalTyped
    <3>2. Head(acks) = acks[1]
      BY <3>1, Behind
    <3> QED BY <1>1, <3>2, HandleAckParts
  <2>2. a.seq \in Seqs
    BY DEF Acks
  <2>3. ring' = (IF a.outcome = "durable" THEN MarkDurable(a.seq) ELSE ring) /\ ~Push
    BY <1>1, <2>1 DEF HandleAck, Push
  <2>4. a.outcome = "durable" => disk[a.seq] = "durable"
    BY <2>1 DEF Invariant, AcksTrue, Answered
  <2> QED BY <2>1, <2>2, <2>3, <2>4
<1>2. CASE Emit \/ EmitRefused
  BY <1>2 DEF Emit, EmitRefused, Push
<1>3. CASE AckInTime \/ AckTimeout
  BY <1>3 DEF AckInTime, AckTimeout, Push
<1>4. CASE Push
  <2>1. /\ emit # None /\ emit \in Emitted /\ emit.seq = seq /\ seq \in Seqs /\ disk' = disk
        /\ ring' = PushRing(ring, seq, emit.durable)
    BY <1>4, SendParts DEF Push, Publish, SendLive
  <2>2. emit.durable \in BOOLEAN /\ (emit.durable => disk[seq] = "durable")
    BY <2>1 DEF Emitted, Invariant, AcksTrue
  <2> QED BY <1>4, <2>1, <2>2
<1>5. CASE Publish \/ SendLive
  BY <1>5 DEF Push, Publish, SendLive
<1>6. CASE ~(HandleAck \/ Emit \/ EmitRefused \/ AckInTime \/ AckTimeout \/ Push \/ Publish \/ SendLive \/ Restart)
  BY <1>6, OtherParts, QuietParts
<1> QED BY <1>1, <1>2, <1>3, <1>4, <1>5, <1>6

\* The ring holds the newest events without a hole, and calls durable only what is on disk.
LEMMA StepRing ==
    ASSUME Invariant, [Next]_vars, ~Restart
    PROVE  RingTyped' /\ RingRuns' /\ DurableTruthful'
<1>0. /\ RingTyped /\ RingRuns /\ DurableTruthful /\ seq \in 0..MaxSeq
      /\ ring \in Seq([seq : Seqs, durable : BOOLEAN])
      /\ \A n \in Seqs : disk[n] = "durable" => disk'[n] = "durable"
  BY Settled DEF Invariant, ActorTyped, Heads, RingTyped
<1>1. ASSUME NEW i \in DOMAIN ring
      PROVE  ring[i].seq \in Seqs
  <2>1. ring[i] \in [seq : Seqs, durable : BOOLEAN]
    BY <1>0, Members
  <2> QED BY <2>1
<1>2. CASE ~Push /\ disk' = disk /\ \E n \in Seqs : ring' = MarkDurable(n) /\ disk[n] = "durable"
  <2>1. PICK n \in Seqs : ring' = MarkDurable(n) /\ disk[n] = "durable"
    BY <1>2
  <2>2. /\ ring' \in Seq([seq : Seqs, durable : BOOLEAN]) /\ Len(ring') = Len(ring)
        /\ DOMAIN ring' = DOMAIN ring /\ \A i \in DOMAIN ring : ring'[i].seq = ring[i].seq
        /\ \A i \in DOMAIN ring : ring'[i].durable => ring[i].durable \/ ring[i].seq = n
    BY <1>0, <2>1, RingMarked
  <2>3. Pushed' = Pushed
    BY <1>2, Progress
  <2>4. ring' = <<>> => ring = <<>>
    BY <1>0, <2>2
  <2>5. RingRuns'
    BY <1>0, <2>2, <2>3, <2>4 DEF RingRuns
  <2>6. DurableTruthful'
    BY <1>0, <1>2, <2>1, <2>2 DEF DurableTruthful
  <2> QED BY <1>0, <2>2, <2>5, <2>6 DEF RingTyped
<1>3. CASE Push /\ disk' = disk
  <2>1. PICK durable \in BOOLEAN : ring' = PushRing(ring, seq, durable) /\ (durable => disk[seq] = "durable") /\ seq \in Seqs
    BY <1>3, RingParts
  <2>2. /\ ring' \in Seq([seq : Seqs, durable : BOOLEAN]) /\ Len(ring') <= RingEvents /\ ring' # <<>>
        /\ \A i \in DOMAIN ring' :
             \/ i = Len(ring') /\ ring'[i].seq = seq /\ ring'[i].durable = durable
             \/ \E j \in DOMAIN ring : ring'[i] = ring[j] /\ Len(ring') - i = (Len(ring) - j) + 1
    <3>1. Extends(ring', seq, durable)
      BY <1>0, <2>1, RingPushed
    <3> QED BY <3>1 DEF Extends
  <2>3. Pushed' = seq /\ Pushed = seq - 1
    BY <1>3, Progress DEF Push, Publish, SendLive
  <2>4. ASSUME NEW i \in DOMAIN ring'
        PROVE  ring'[i].seq + (Len(ring') - i) = seq /\ (ring'[i].durable => disk'[ring'[i].seq] = "durable")
    <3>1. CASE i = Len(ring') /\ ring'[i].seq = seq /\ ring'[i].durable = durable
      BY <1>0, <1>3, <2>1, <2>2, <3>1
    <3>2. CASE \E j \in DOMAIN ring : ring'[i] = ring[j] /\ Len(ring') - i = (Len(ring) - j) + 1
      <4>1. PICK j \in DOMAIN ring : ring'[i] = ring[j] /\ Len(ring') - i = (Len(ring) - j) + 1
        BY <3>2
      <4>2. PICK n \in Nat : n = ring[j].seq
        BY <1>1 DEF Seqs
      <4>3. n + (Len(ring) - j) = seq - 1
        <5>1. ring[j].seq + (Len(ring) - j) = Pushed
          BY <1>0, <4>1 DEF RingRuns
        <5> QED BY <2>3, <4>2, <5>1
      <4>4. j \in Nat /\ Len(ring) \in Nat
        <5>1. DOMAIN ring = 1..Len(ring) /\ Len(ring) \in Nat
          BY <1>0
        <5> QED BY <5>1
      <4>5. n + ((Len(ring) - j) + 1) = seq
        <5>1. seq \in Nat
          BY <1>0
        <5>2. PICK k \in Int : k = Len(ring) - j
          BY <4>4
        <5>3. n + (k + 1) = seq
          BY <4>3, <5>1, <5>2
        <5> QED BY <5>2, <5>3
      <4> QED BY <1>0, <1>3, <4>1, <4>2, <4>5 DEF DurableTruthful
    <3> QED BY <2>2, <3>1, <3>2
  <2> QED BY <2>2, <2>3, <2>4 DEF RingTyped, RingRuns, DurableTruthful
<1>4. CASE ~Push /\ ring' = ring
  <2>1. Pushed' = Pushed
    BY <1>4, Progress
  <2> QED BY <1>0, <1>1, <1>4, <2>1 DEF RingTyped, RingRuns, DurableTruthful
<1> QED BY <1>2, <1>3, <1>4, RingParts

-----------------------------------------------------------------------------
(* Sets of places, and what a client is given *)

\* A set of numbers has a least one, and a bounded one a greatest.
LEMMA HasLeast ==
    ASSUME NEW S, S \subseteq Nat, S # {}
    PROVE  Least(S) \in S /\ \A m \in S : Least(S) <= m
<1>1. PICK T : T = {0..n : n \in S}
  OBVIOUS
<1>2. T \subseteq FiniteSubsetsOf(Nat)
  <2>1. ASSUME NEW n \in S
        PROVE  0..n \in FiniteSubsetsOf(Nat)
    <3>1. IsFiniteSet(0..n)
      BY FS_Interval
    <3> QED BY <3>1 DEF FiniteSubsetsOf
  <2> QED BY <1>1, <2>1
<1>3. PICK x \in T : \A y \in T : ~(<<y, x>> \in StrictSubsetOrdering(Nat))
  <2>1. T # {}
    BY <1>1
  <2> QED BY ONLY <1>2, <2>1, WFMin, FS_StrictSubsetOrderingWellFounded
<1>4. PICK n \in S : x = 0..n
  BY <1>1, <1>3
<1>5. ASSUME NEW m \in S, ~(n <= m)
      PROVE  FALSE
  <2>1. 0..m \in T
    BY <1>1
  <2>2. 0..m \subseteq 0..n /\ 0..m # 0..n
    <3>1. m \in Nat /\ n \in Nat /\ n \in 0..n /\ n \notin 0..m /\ m <= n
      BY <1>4, <1>5
    <3>2. 0..m \subseteq 0..n
      BY <3>1
    <3> QED BY ONLY <3>1, <3>2
  <2>3. <<0..m, x>> \in StrictSubsetOrdering(Nat)
    <3>1. 0..m \in SUBSET Nat /\ 0..n \in SUBSET Nat
      OBVIOUS
    <3>2. PICK p : p = <<0..m, x>>
      OBVIOUS
    <3>3. p \in (SUBSET Nat) \X (SUBSET Nat) /\ p[1] = 0..m /\ p[2] = x
      BY <3>1, <3>2, <1>4
    <3> QED BY ONLY <3>2, <3>3, <2>2, <1>4 DEF StrictSubsetOrdering
  <2> QED BY <1>3, <2>1, <2>3
<1> QED BY <1>5 DEF Least

\* And a greatest one, below the bound.
LEMMA HasGreatest ==
    ASSUME NEW S, NEW top \in Nat, S \subseteq 0..top, S # {}
    PROVE  Greatest(S) \in S /\ \A m \in S : m <= Greatest(S)
<1>1. PICK T : T = {top - n : n \in S}
  OBVIOUS
<1>2. T \subseteq Nat /\ T # {}
  <2>1. \A n \in S : top - n \in Nat
    OBVIOUS
  <2> QED BY <1>1, <2>1
<1>3. PICK least \in T : \A m \in T : least <= m
  BY <1>2, HasLeast
<1>4. PICK n \in S : least = top - n
  BY <1>1, <1>3
<1>5. \A m \in S : top - n <= top - m
  BY <1>1, <1>3, <1>4
<1>6. \A m \in S : m <= n
  BY <1>5
<1> QED BY <1>6 DEF Greatest

\* The ring's places are finitely many.
LEMMA PlacesFinite ==
    ASSUME RingTyped, NEW places, places \subseteq DOMAIN ring
    PROVE  /\ IsFiniteSet(places) /\ Cardinality(places) \in Nat /\ Cardinality(places) <= RingEvents
           /\ \A few \in SUBSET places : Cardinality(few) \in Nat /\ Cardinality(few) <= Cardinality(places)
<1>1. Len(ring) \in Nat /\ DOMAIN ring = 1..Len(ring) /\ Len(ring) <= RingEvents
  BY DEF RingTyped
<1>2. IsFiniteSet(1..Len(ring)) /\ Cardinality(1..Len(ring)) = Len(ring)
  <2>1. PICK k \in Nat : k = Len(ring)
    BY <1>1
  <2>2. IsFiniteSet(1..k) /\ Cardinality(1..k) = IF 1 > k THEN 0 ELSE k - 1 + 1
    BY FS_Interval
  <2>3. Cardinality(1..k) = k
    BY <2>2
  <2> QED BY <2>1, <2>2, <2>3
<1>3. IsFiniteSet(places) /\ Cardinality(places) <= Len(ring) /\ Cardinality(places) \in Nat
  BY <1>1, <1>2, FS_Subset, FS_CardinalityType
<1>4. ASSUME NEW few \in SUBSET places
      PROVE  Cardinality(few) \in Nat /\ Cardinality(few) <= Cardinality(places)
  BY <1>3, FS_Subset, FS_CardinalityType
<1> QED BY <1>1, <1>3, <1>4

\* The newest of some places are all from one on.
LEMMA NewestUpward ==
    ASSUME RingTyped, NEW places, places \subseteq DOMAIN ring, NEW n \in Nat,
           NEW i \in Newest(places, n), NEW j \in places, i <= j
    PROVE  j \in Newest(places, n)
<1>1. places \subseteq Nat
  BY DEF RingTyped
<1>2. {k \in places : j < k} \subseteq {k \in places : i < k}
  BY <1>1 DEF Newest
<1>3. {k \in places : i < k} \subseteq DOMAIN ring
  OBVIOUS
<1>4. /\ Cardinality({k \in places : i < k}) < n /\ Cardinality({k \in places : i < k}) \in Nat
      /\ Cardinality({k \in places : j < k}) \in Nat
      /\ Cardinality({k \in places : j < k}) <= Cardinality({k \in places : i < k})
  BY <1>2, <1>3, PlacesFinite DEF Newest
<1>5. Cardinality({k \in places : j < k}) < n
  BY <1>4
<1> QED BY <1>5 DEF Newest

\* The oldest of some places are all up to one.
LEMMA FirstDownward ==
    ASSUME RingTyped, NEW places, places \subseteq DOMAIN ring, NEW n \in Nat,
           NEW i \in First(places, n), NEW j \in places, j <= i
    PROVE  j \in First(places, n)
<1>1. places \subseteq Nat
  BY DEF RingTyped
<1>2. {k \in places : k < j} \subseteq {k \in places : k < i}
  BY <1>1 DEF First
<1>3. {k \in places : k < i} \subseteq DOMAIN ring
  OBVIOUS
<1>4. /\ Cardinality({k \in places : k < i}) < n /\ Cardinality({k \in places : k < i}) \in Nat
      /\ Cardinality({k \in places : k < j}) \in Nat
      /\ Cardinality({k \in places : k < j}) <= Cardinality({k \in places : k < i})
  BY <1>2, <1>3, PlacesFinite DEF First
<1>5. Cardinality({k \in places : k < j}) < n
  BY <1>4
<1> QED BY <1>5 DEF First

\* Of some places there is a newest and an oldest one.
LEMMA NewestSome ==
    ASSUME RingTyped, NEW places, places \subseteq DOMAIN ring, places # {}, NEW n \in Nat \ {0}
    PROVE  Newest(places, n) # {} /\ First(places, n) # {}
<1>1. Len(ring) \in Nat /\ places \subseteq 0..Len(ring) /\ places \subseteq Nat
  BY DEF RingTyped
<1>2. Greatest(places) \in places /\ \A m \in places : m <= Greatest(places)
  BY <1>1, HasGreatest
<1>3. Least(places) \in places /\ \A m \in places : Least(places) <= m
  BY <1>1, HasLeast
<1>4. {k \in places : Greatest(places) < k} = {} /\ {k \in places : k < Least(places)} = {}
  BY <1>1, <1>2, <1>3
<1>5. Cardinality({}) = 0
  BY FS_EmptySet
<1>6. Greatest(places) \in Newest(places, n) /\ Least(places) \in First(places, n)
  BY <1>2, <1>3, <1>4, <1>5 DEF Newest, First
<1> QED BY <1>6

\* All of them are the newest when they are not too many.
LEMMA NewestAll ==
    ASSUME RingTyped, NEW places, places \subseteq DOMAIN ring, NEW n \in Nat, Cardinality(places) <= n
    PROVE  Newest(places, n) = places
<1>1. places \subseteq Nat /\ IsFiniteSet(places)
  BY PlacesFinite DEF RingTyped
<1>2. ASSUME NEW i \in places
      PROVE  Cardinality({k \in places : i < k}) < n
  <2>1. {k \in places : i < k} \subseteq places \ {i}
    BY <1>1
  <2>2. IsFiniteSet(places \ {i}) /\ Cardinality(places \ {i}) = Cardinality(places) - 1
    BY <1>1, FS_RemoveElement
  <2>3. Cardinality({k \in places : i < k}) <= Cardinality(places \ {i})
    BY <2>1, <2>2, FS_Subset
  <2>4. Cardinality({k \in places : i < k}) \in Nat /\ Cardinality(places) \in Nat
    BY <1>1, <2>1, <2>2, FS_Subset, FS_CardinalityType
  <2> QED BY <2>2, <2>3, <2>4
<1> QED BY <1>2 DEF Newest

\* The broadcast is behind the snapshot, and the snapshot behind the ring.
LEMMA Behinds ==
    ASSUME Invariant
    PROVE  /\ Pushed \in Heads /\ Published \in Heads /\ SentHead \in Heads
           /\ SentHead <= Published /\ Published <= Pushed
<1>1. seq \in 0..MaxSeq /\ (emit # None => seq \in 1..MaxSeq /\ emit.step \in {"wait", "push", "publish", "send"})
  BY DEF Invariant, ActorTyped, EmitPlace, Emitted, Heads, Seqs
<1>2. CASE emit = None
  BY <1>1, <1>2, HowFar DEF Heads
<1>3. CASE emit # None
  <2>1. seq - 1 \in 0..MaxSeq /\ seq - 1 <= seq /\ seq - 1 <= seq - 1 /\ seq <= seq
    BY <1>1, <1>3
  <2> QED BY <1>1, <1>3, <2>1, HowFar DEF Heads
<1> QED BY <1>2, <1>3

\* The ring's places and numbers go together, and no number between two of them is absent.
LEMMA RingNumbers ==
    ASSUME Invariant, NEW i \in DOMAIN ring
    PROVE  /\ i \in Nat /\ 1 <= i /\ ring[i].seq \in Seqs /\ ring[i].seq <= Pushed
           /\ \A j \in DOMAIN ring : i <= j <=> ring[i].seq <= ring[j].seq
           /\ \A m \in Nat : ring[i].seq <= m /\ m <= Pushed => \E j \in DOMAIN ring : ring[j].seq = m /\ i <= j
<1>1. /\ ring \in Seq([seq : Seqs, durable : BOOLEAN]) /\ RingRuns
      /\ \A j \in DOMAIN ring : ring[j].seq + (Len(ring) - j) = Pushed
  BY DEF Invariant, RingTyped, RingRuns
<1>2. \A j \in DOMAIN ring : ring[j].seq \in Seqs
  <2>1. \A j \in DOMAIN ring : ring[j] \in [seq : Seqs, durable : BOOLEAN]
    BY <1>1, Members
  <2> QED BY <2>1
<1>3. PICK k \in Nat, p \in Nat : k = Len(ring) /\ p = Pushed /\ DOMAIN ring = 1..k
  <2>1. Len(ring) \in Nat /\ DOMAIN ring = 1..Len(ring)
    BY <1>1
  <2>2. Pushed \in Nat
    BY Behinds DEF Heads
  <2> QED BY <2>1, <2>2
<1>4. \A j \in 1..k : ring[j].seq \in Nat /\ ring[j].seq = p - (k - j)
  <2>1. ASSUME NEW j \in 1..k
        PROVE  ring[j].seq \in Nat /\ ring[j].seq = p - (k - j)
    <3>1. PICK n \in Nat : n = ring[j].seq
      BY <1>2, <1>3 DEF Seqs
    <3>2. n + (k - j) = p
      BY <1>1, <1>3, <3>1
    <3>3. n = p - (k - j)
      BY <1>3, <3>2
    <3> QED BY <3>1, <3>3
  <2> QED BY <2>1
<1>5. i \in 1..k
  BY <1>3
<1>6. ring[i].seq <= p
  BY <1>4, <1>5
<1>7. \A j \in 1..k : i <= j <=> ring[i].seq <= ring[j].seq
  BY <1>4, <1>5
<1>8. ASSUME NEW m \in Nat, ring[i].seq <= m, m <= p
      PROVE  \E j \in 1..k : ring[j].seq = m /\ i <= j
  <2>1. PICK n \in Nat : n = ring[i].seq /\ n = p - (k - i)
    BY <1>4, <1>5
  <2>2. PICK j : j = k - (p - m)
    OBVIOUS
  <2>3. j \in 1..k /\ i <= j /\ m = p - (k - j)
    BY <1>3, <1>5, <1>8, <2>1, <2>2
  <2> QED BY <1>4, <2>3
<1> QED BY <1>2, <1>3, <1>5, <1>6, <1>7, <1>8

\* Given these numbers and told of these missing ones, a client knows of all up to a point,
\* and is given nothing twice.
Covers(numbers, missing, upto) ==
    /\ numbers \subseteq Seqs
    /\ Resumes =>
         /\ \A m \in Nat : view.upto < m /\ m <= upto => m \in numbers \cup missing
         /\ \A m \in numbers : view.upto < m
    /\ ~Resumes /\ numbers # {} => \A m \in Nat : Least(numbers) <= m /\ m <= upto => m \in numbers \cup missing

\* A view without a fault, and one that ends at a number of this epoch.
ViewWhole(given) ==
    /\ given \in [epoch : {0, 1}, upto : Heads \cup {None}, holes : SUBSET Seqs,
                  again : BOOLEAN, misled : BOOLEAN]
    /\ given.holes = {} /\ given.again = FALSE /\ given.misled = FALSE

GivenAs(given, upto) == ViewWhole(given) /\ given.epoch = epoch /\ given.upto = upto

\* What covers the numbers up to a point leaves a client's view whole, and at that point.
LEMMA GivenWhole ==
    ASSUME Invariant, NEW numbers, NEW missing, NEW upto \in Heads, Covers(numbers, missing, upto),
           NEW given, given = Given(numbers, missing, upto)
    PROVE  GivenAs(given, upto)
<1>1. /\ view \in [epoch : {0, 1}, upto : Heads \cup {None}, holes : SUBSET Seqs,
                   again : BOOLEAN, misled : BOOLEAN]
      /\ view.holes = {} /\ view.again = FALSE /\ view.misled = FALSE /\ epoch \in {0, 1}
  BY DEF Invariant, ClientTyped, ActorTyped, NoHoles, NoEventTwice, RecentIsComplete
<1>2. Resumes \in BOOLEAN /\ (Resumes => view.upto \in Heads)
  BY <1>1 DEF Resumes
<1>3. PICK base : base = IF Resumes THEN view.upto ELSE IF numbers = {} THEN upto ELSE Least(numbers) - 1
  OBVIOUS
<1>4. PICK holes : holes = (IF Resumes THEN view.holes ELSE {}) \cup (((base + 1)..upto) \ (numbers \cup missing))
  OBVIOUS
<1>5. PICK again : again = (view.again \/ (Resumes /\ \E n \in numbers : n <= view.upto))
  OBVIOUS
<1>6. base \in Nat /\ upto \in Nat /\ \A m \in Nat : base < m /\ m <= upto => m \in numbers \cup missing
  <2>1. CASE Resumes
    BY <1>2, <1>3, <2>1 DEF Covers, Heads
  <2>2. CASE ~Resumes /\ numbers = {}
    BY <1>3, <2>2 DEF Heads
  <2>3. CASE ~Resumes /\ numbers # {}
    <3>1. numbers \subseteq Nat /\ numbers \subseteq 1..MaxSeq
      BY DEF Covers, Seqs
    <3>2. Least(numbers) \in 1..MaxSeq
      BY <2>3, <3>1, HasLeast
    <3>3. base = Least(numbers) - 1
      BY <1>3, <2>3
    <3>4. base \in Nat /\ \A m \in Nat : base < m => Least(numbers) <= m
      BY <3>2, <3>3
    <3> QED BY <2>3, <3>4 DEF Covers, Heads
  <2> QED BY <2>1, <2>2, <2>3
<1>7. holes = {}
  <2>1. (base + 1)..upto \subseteq numbers \cup missing
    BY <1>6
  <2> QED BY <1>1, <1>4, <2>1
<1>8. again = FALSE
  <2>1. Resumes => \A n \in numbers : ~(n <= view.upto)
    BY <1>2 DEF Covers, Heads, Seqs
  <2> QED BY <1>1, <1>5, <2>1
<1>9. given = [view EXCEPT !.epoch = epoch, !.upto = upto, !.holes = holes, !.again = again]
  BY <1>3, <1>4, <1>5 DEF Given
<1> QED BY <1>1, <1>7, <1>8, <1>9 DEF GivenAs, ViewWhole

\* What a replay returns.
LEMMA WindowParts ==
    ASSUME Invariant, NEW head, NEW tail, NEW window, window = Replay(head, tail)
    PROVE  \/ /\ ~Resumes /\ window.places = Newest(UpTo(head), tail)
              /\ window.gap = IF view.upto = None THEN "none" ELSE "epoch"
           \/ Resumes /\ view.upto = head /\ window.places = {} /\ window.gap = "none"
           \/ /\ Resumes /\ view.upto # head /\ Evicted
              /\ window.places = Newest(UpTo(head), tail) /\ window.gap = "evicted"
           \/ /\ Resumes /\ view.upto # head /\ ~Evicted
              /\ window.places = {i \in UpTo(head) : ring[i].seq > view.upto} /\ window.gap = "none"
<1>1. CASE ~Resumes
  <2>1. window = Window(Newest(UpTo(head), tail), IF view.upto = None THEN "none" ELSE "epoch")
    BY <1>1 DEF Replay
  <2> QED BY <1>1, <2>1 DEF Window
<1>2. CASE Resumes /\ view.upto = head
  <2>1. window = Window({}, "none")
    BY <1>2 DEF Replay
  <2> QED BY <1>2, <2>1 DEF Window
<1>3. CASE Resumes /\ view.upto # head /\ Evicted
  <2>1. window = Window(Newest(UpTo(head), tail), "evicted")
    BY <1>3 DEF Replay
  <2> QED BY <1>3, <2>1 DEF Window
<1>4. CASE Resumes /\ view.upto # head /\ ~Evicted
  <2>1. window = Window({i \in UpTo(head) : ring[i].seq > view.upto}, "none")
    BY <1>4 DEF Replay
  <2> QED BY <1>4, <2>1 DEF Window
<1> QED BY <1>1, <1>2, <1>3, <1>4

\* The numbers at the places up to a head are all there.
LEMMA UpToRuns ==
    ASSUME Invariant, NEW head \in Heads, head <= Pushed
    PROVE  /\ UpTo(head) \subseteq DOMAIN ring
           /\ \A places \in SUBSET DOMAIN ring : Numbers(places) \subseteq Seqs
           /\ \A i \in UpTo(head) : \A m \in Nat :
                ring[i].seq <= m /\ m <= head => \E j \in UpTo(head) : ring[j].seq = m /\ i <= j
<1>1. ASSUME NEW i \in UpTo(head), NEW m \in Nat, ring[i].seq <= m, m <= head
      PROVE  \E j \in UpTo(head) : ring[j].seq = m /\ i <= j
  <2>1. i \in DOMAIN ring
    BY DEF UpTo
  <2>2. m <= Pushed
    BY <1>1, Behinds DEF Heads
  <2>3. PICK j \in DOMAIN ring : ring[j].seq = m /\ i <= j
    BY <1>1, <2>1, <2>2, RingNumbers
  <2> QED BY <1>1, <2>3 DEF UpTo
<1>2. \A places \in SUBSET DOMAIN ring : Numbers(places) \subseteq Seqs
  BY RingNumbers DEF Numbers
<1> QED BY <1>1, <1>2 DEF UpTo

\* So are those of the newest of them, from the oldest one taken on.
LEMMA NewestRuns ==
    ASSUME Invariant, NEW head \in Heads, head <= Pushed, NEW n \in Nat \ {0},
           NEW places, places = Newest(UpTo(head), n)
    PROVE  /\ places \subseteq UpTo(head) /\ (places = {} => UpTo(head) = {})
           /\ \A i \in places : \A m \in Nat :
                ring[i].seq <= m /\ m <= head => \E j \in places : ring[j].seq = m /\ i <= j
<1>1. RingTyped /\ UpTo(head) \subseteq DOMAIN ring /\ places \subseteq UpTo(head)
  BY UpToRuns DEF Invariant, Newest
<1>2. ASSUME NEW i \in places, NEW m \in Nat, ring[i].seq <= m, m <= head
      PROVE  \E j \in places : ring[j].seq = m /\ i <= j
  <2>1. PICK j \in UpTo(head) : ring[j].seq = m /\ i <= j
    BY <1>1, <1>2, UpToRuns
  <2>2. j \in Newest(UpTo(head), n)
    BY <1>1, <2>1, NewestUpward
  <2> QED BY <2>1, <2>2
<1>3. places = {} => UpTo(head) = {}
  BY <1>1, NewestSome
<1> QED BY <1>1, <1>2, <1>3

\* What a client of an older epoch, or a new one, is given begins where its numbers do.
LEMMA FreshCovers ==
    ASSUME Invariant, ~Resumes, NEW head \in Heads, head <= Pushed, NEW n \in Nat \ {0},
           NEW places, places = Newest(UpTo(head), n), NEW missing
    PROVE  Covers(Numbers(places), missing, head)
<1>1. Numbers(places) \subseteq Seqs
  BY NewestRuns, UpToRuns
<1>2. ASSUME Numbers(places) # {}, NEW m \in Nat, Least(Numbers(places)) <= m, m <= head
      PROVE  m \in Numbers(places)
  <2>1. Least(Numbers(places)) \in Numbers(places)
    BY <1>1, <1>2, HasLeast DEF Seqs
  <2>2. PICK i \in places : ring[i].seq = Least(Numbers(places))
    BY <2>1 DEF Numbers
  <2> QED BY <1>2, <2>2, NewestRuns DEF Numbers
<1> QED BY <1>1, <1>2 DEF Covers

\* Where the ring resumes: after a cursor that it still holds, every number is there; after
\* one that it has evicted, every number that is not lies before its oldest.
LEMMA ResumesRuns ==
    ASSUME Invariant, Resumes, NEW head \in Heads, head <= Pushed, NEW m \in Nat, view.upto < m, m <= head
    PROVE  /\ view.upto \in Nat
           /\ \/ /\ ring # <<>> /\ 1 \in DOMAIN ring /\ ring[1].seq \in Seqs /\ ring[1].seq <= m
                 /\ \E j \in UpTo(head) : ring[j].seq = m
              \/ Evicted /\ (ring = <<>> \/ (1 \in DOMAIN ring /\ ring[1].seq \in Seqs /\ m < ring[1].seq))
<1>1. view.upto \in Nat /\ ring \in Seq([seq : Seqs, durable : BOOLEAN])
  BY DEF Invariant, ClientTyped, Resumes, Heads, RingTyped
<1>2. CASE ring = <<>>
  BY <1>1, <1>2 DEF Evicted
<1>3. CASE ring # <<>>
  <2>1. 1 \in DOMAIN ring
    BY <1>1, <1>3
  <2>2. ring[1].seq \in Seqs /\ m <= Pushed
    BY <2>1, RingNumbers, Behinds DEF Heads
  <2>3. CASE ring[1].seq <= m
    <3>1. PICK j \in DOMAIN ring : ring[j].seq = m
      BY <2>1, <2>2, <2>3, RingNumbers
    <3> QED BY <1>1, <1>3, <2>1, <2>2, <2>3, <3>1 DEF UpTo
  <2>4. CASE ~(ring[1].seq <= m)
    <3>1. view.upto + 1 < ring[1].seq /\ m < ring[1].seq
      BY <1>1, <2>2, <2>4 DEF Seqs
    <3> QED BY <1>1, <2>1, <2>2, <3>1 DEF Evicted
  <2> QED BY <2>3, <2>4
<1> QED BY <1>2, <1>3

\* What an evicted cursor has not seen is all newer than it.
LEMMA EvictedNewer ==
    ASSUME Invariant, Resumes, Evicted, NEW i \in DOMAIN ring
    PROVE  view.upto < ring[i].seq /\ view.upto + 1 < ring[1].seq /\ 1 \in DOMAIN ring /\ ring[1].seq <= ring[i].seq
<1>1. view.upto \in Nat /\ ring \in Seq([seq : Seqs, durable : BOOLEAN])
  BY DEF Invariant, ClientTyped, Resumes, Heads, RingTyped
<1>2. ring # <<>> /\ 1 \in DOMAIN ring
  BY <1>1
<1>3. ring[1].seq <= ring[i].seq /\ ring[1].seq \in Seqs /\ ring[i].seq \in Seqs
  BY <1>2, RingNumbers
<1>4. view.upto + 1 < ring[1].seq
  BY <1>2 DEF Evicted
<1> QED BY <1>1, <1>2, <1>3, <1>4 DEF Seqs

\* send_attach covers what the client missed.
LEMMA FollowCovers ==
    ASSUME Invariant, NEW head \in Heads, head <= Pushed, Resumes => view.upto <= head,
           NEW window, window = Replay(head, Page),
           NEW numbers, numbers = Numbers(window.places),
           NEW begins, begins = IF numbers # {} THEN Least(numbers) ELSE IF ring = <<>> THEN head + 1 ELSE ring[1].seq,
           NEW missing, missing = IF window.gap = "none" THEN {} ELSE 1..(begins - 1)
    PROVE  Covers(numbers, missing, head)
<1>0. UpTo(head) \subseteq DOMAIN ring
  BY UpToRuns
<1>1. CASE ~Resumes
  BY <1>1, WindowParts, FreshCovers
<1>2. CASE Resumes /\ view.upto = head /\ window.places = {}
  <2>1. numbers = {} /\ \A m \in Nat : ~(view.upto < m /\ m <= head)
    BY <1>2 DEF Numbers, Heads
  <2> QED BY <1>2, <2>1 DEF Covers
<1>3. CASE Resumes /\ Evicted /\ window.places = Newest(UpTo(head), Page) /\ window.gap = "evicted"
  <2>0. /\ window.places \subseteq UpTo(head) /\ numbers \subseteq Seqs
        /\ \A i \in window.places : \A m \in Nat :
             ring[i].seq <= m /\ m <= head => \E j \in window.places : ring[j].seq = m /\ i <= j
        /\ window.places = {} => UpTo(head) = {}
    BY <1>0, <1>3, NewestRuns, UpToRuns
  <2>1. \A m \in numbers : view.upto < m
    BY <1>0, <1>3, <2>0, EvictedNewer DEF Numbers
  <2>2. ASSUME NEW m \in Nat, view.upto < m, m <= head
        PROVE  m \in numbers \cup missing
    <3>1. CASE numbers # {}
      <4>1. PICK least \in Seqs : least = Least(numbers) /\ least \in numbers
        BY <2>0, <3>1, HasLeast DEF Seqs
      <4>2. PICK i \in window.places : ring[i].seq = least
        BY <4>1 DEF Numbers
      <4>3. CASE least <= m
        BY <2>0, <2>2, <4>2, <4>3 DEF Numbers
      <4>4. CASE ~(least <= m)
        <5>1. missing = 1..(least - 1)
          BY <1>3, <3>1, <4>1
        <5>2. view.upto \in Nat
          BY <1>3, <2>2, ResumesRuns
        <5>3. m \in 1..(least - 1)
          BY <2>2, <4>4, <5>2 DEF Seqs
        <5> QED BY <5>1, <5>3
      <4> QED BY <4>3, <4>4
    <3>2. CASE numbers = {}
      <4>1. UpTo(head) = {}
        <5>1. \A i \in window.places : ring[i].seq \in numbers
          BY DEF Numbers
        <5>2. window.places = {}
          BY <3>2, <5>1
        <5> QED BY <2>0, <5>2
      <4>2. view.upto \in Nat /\ (ring = <<>> \/ (1 \in DOMAIN ring /\ ring[1].seq \in Seqs /\ m < ring[1].seq))
        BY <1>3, <2>2, <4>1, ResumesRuns
      <4>3. CASE ring = <<>>
        <5>1. missing = 1..((head + 1) - 1)
          BY <1>3, <3>2, <4>3
        <5>2. m \in 1..((head + 1) - 1)
          BY <2>2, <4>2 DEF Heads
        <5> QED BY <5>1, <5>2
      <4>4. CASE ring # <<>>
        <5>1. missing = 1..(ring[1].seq - 1)
          BY <1>3, <3>2, <4>4
        <5>2. m \in 1..(ring[1].seq - 1)
          BY <2>2, <4>2, <4>4 DEF Seqs
        <5> QED BY <5>1, <5>2
      <4> QED BY <4>3, <4>4
    <3> QED BY <3>1, <3>2
  <2> QED BY <1>3, <2>0, <2>1, <2>2 DEF Covers
<1>4. CASE Resumes /\ ~Evicted /\ window.places = {i \in UpTo(head) : ring[i].seq > view.upto}
  <2>1. numbers \subseteq Seqs
    BY <1>0, <1>4, UpToRuns
  <2>2. \A m \in numbers : view.upto < m
    <3>1. view.upto \in Nat
      BY <1>4 DEF Invariant, ClientTyped, Resumes, Heads
    <3>2. \A i \in window.places : ring[i].seq > view.upto /\ ring[i].seq \in Seqs
      BY <1>0, <1>4, RingNumbers
    <3>3. \A i \in window.places : view.upto < ring[i].seq
      BY <3>1, <3>2 DEF Seqs
    <3> QED BY <3>3 DEF Numbers
  <2>3. ASSUME NEW m \in Nat, view.upto < m, m <= head
        PROVE  m \in numbers
    <3>1. PICK j \in UpTo(head) : ring[j].seq = m
      BY <1>4, <2>3, ResumesRuns
    <3>2. m > view.upto
      BY <2>3
    <3> QED BY <1>4, <3>1, <3>2 DEF Numbers
  <2> QED BY <1>4, <2>1, <2>2, <2>3 DEF Covers
<1> QED BY <1>1, <1>2, <1>3, <1>4, WindowParts

\* A page of a window is its beginning, up to the number the page goes to.
LEMMA PageOfWindow ==
    ASSUME Invariant, NEW head \in Heads, head <= Pushed, NEW all, all \subseteq UpTo(head), NEW limited,
           limited => Cardinality(all) > Page,
           NEW places, places = IF limited THEN First(all, Page) ELSE all,
           NEW numbers, numbers = Numbers(places),
           NEW upto, upto = IF limited THEN Greatest(numbers) ELSE head
    PROVE  /\ upto \in Heads /\ upto <= head /\ numbers \subseteq Seqs /\ numbers \subseteq Numbers(all)
           /\ \A m \in Numbers(all) : m <= upto => m \in numbers
<1>0. RingTyped /\ UpTo(head) \subseteq DOMAIN ring /\ all \subseteq DOMAIN ring /\ places \subseteq all
  BY UpToRuns DEF Invariant, First
<1>1. numbers \subseteq Seqs
  BY <1>0, UpToRuns
<1>2. numbers \subseteq Numbers(all)
  BY <1>0 DEF Numbers
<1>3. CASE ~limited
  <2>1. upto = head /\ numbers = Numbers(all)
    BY <1>3
  <2> QED BY <1>1, <1>2, <2>1 DEF Heads
<1>4. CASE limited
  <2>1. all # {}
    <3>1. Cardinality({}) = 0
      BY FS_EmptySet
    <3>2. ~(0 > Page)
      OBVIOUS
    <3> QED BY <1>4, <3>1, <3>2
  <2>2. places # {} /\ places = First(all, Page)
    BY <1>0, <1>4, <2>1, NewestSome
  <2>3. numbers # {} /\ numbers \subseteq 0..MaxSeq
    <3>1. \A i \in places : ring[i].seq \in numbers
      BY DEF Numbers
    <3> QED BY <1>1, <2>2, <3>1 DEF Seqs
  <2>4. upto \in numbers
    BY <1>4, <2>3, HasGreatest
  <2>5. PICK g \in places : ring[g].seq = upto
    BY <2>4 DEF Numbers
  <2>6. upto <= head
    BY <1>0, <2>5 DEF UpTo
  <2>7. ASSUME NEW m \in Numbers(all), m <= upto
        PROVE  m \in numbers
    <3>1. PICK j \in all : ring[j].seq = m
      BY DEF Numbers
    <3>2. j <= g
      BY <1>0, <2>5, <2>7, <3>1, RingNumbers
    <3>3. j \in places
      BY <1>0, <2>2, <2>5, <3>1, <3>2, FirstDownward
    <3> QED BY <3>1, <3>3 DEF Numbers
  <2>8. upto \in Heads
    BY <2>3, <2>4 DEF Heads
  <2> QED BY <1>1, <1>2, <2>6, <2>7, <2>8
<1> QED BY <1>3, <1>4

\* bounded_live_response covers what it goes up to.
LEMMA PageCovers ==
    ASSUME Invariant, NEW head \in Heads, head <= Pushed, Resumes => view.upto <= head,
           NEW tail \in Nat \ {0}, view.upto # None => tail = RingEvents,
           NEW window, window = Replay(head, tail),
           NEW limited, limited => Cardinality(window.places) > Page,
           NEW numbers, numbers = Numbers(IF limited THEN First(window.places, Page) ELSE window.places),
           NEW until, until = IF ring = <<>> THEN head ELSE ring[1].seq - 1,
           NEW missing, missing = IF window.gap = "none" THEN {}
                                  ELSE (view.upto + 1)..(IF until <= view.upto THEN view.upto + 1 ELSE until),
           NEW upto, upto = IF limited THEN Greatest(numbers) ELSE head
    PROVE  upto \in Heads /\ Covers(numbers, missing, upto)
<1>0. UpTo(head) \subseteq DOMAIN ring /\ RingTyped
  BY UpToRuns DEF Invariant
<1>1. window.places \subseteq UpTo(head)
  <2>1. Newest(UpTo(head), tail) \subseteq UpTo(head)
    BY DEF Newest
  <2>2. {i \in UpTo(head) : ring[i].seq > view.upto} \subseteq UpTo(head)
    OBVIOUS
  <2>3. \/ window.places = Newest(UpTo(head), tail) \/ window.places = {}
        \/ window.places = {i \in UpTo(head) : ring[i].seq > view.upto}
    BY WindowParts
  <2> QED BY ONLY <2>1, <2>2, <2>3
<1>2. /\ upto \in Heads /\ upto <= head /\ numbers \subseteq Seqs /\ numbers \subseteq Numbers(window.places)
      /\ \A m \in Numbers(window.places) : m <= upto => m \in numbers
  BY <1>1, PageOfWindow
<1>3. CASE ~Resumes /\ window.places = Newest(UpTo(head), tail)
  <2>1. ASSUME numbers # {}, NEW m \in Nat, Least(numbers) <= m, m <= upto
        PROVE  m \in numbers
    <3>1. Least(numbers) \in numbers
      BY <1>2, <2>1, HasLeast DEF Seqs
    <3>2. PICK i \in window.places : ring[i].seq = Least(numbers)
      BY <1>2, <3>1 DEF Numbers
    <3>3. m <= head
      BY <1>2, <2>1 DEF Heads
    <3>4. m \in Numbers(window.places)
      BY <1>3, <2>1, <3>2, <3>3, NewestRuns DEF Numbers
    <3> QED BY <1>2, <2>1, <3>4
  <2> QED BY <1>2, <1>3, <2>1 DEF Covers
<1>4. CASE Resumes
  <2>0. view.upto \in Nat /\ view.upto # None
    BY <1>4 DEF Invariant, ClientTyped, Resumes, Heads
  <2>1. \A m \in Nat : m <= upto => m <= head
    BY <1>2 DEF Heads
  <2>2. CASE view.upto = head /\ window.places = {}
    <3>1. Numbers(window.places) = {} /\ numbers = {}
      BY <1>2, <2>2 DEF Numbers
    <3>2. \A m \in Nat : ~(view.upto < m /\ m <= upto)
      BY <1>2, <2>2 DEF Heads
    <3> QED BY <1>2, <1>4, <3>1, <3>2 DEF Covers
  <2>3. CASE Evicted /\ window.places = Newest(UpTo(head), tail) /\ window.gap = "evicted"
    <3>1. window.places = UpTo(head)
      <4>1. Cardinality(UpTo(head)) <= RingEvents
        BY <1>0, PlacesFinite
      <4> QED BY <1>0, <2>0, <2>3, <4>1, NewestAll
    <3>2. \A m \in numbers : view.upto < m
      BY <1>0, <1>2, <1>4, <2>3, <3>1, EvictedNewer DEF Numbers
    <3>3. ASSUME NEW m \in Nat, view.upto < m, m <= upto
          PROVE  m \in numbers \cup missing
      <4>1. m <= head
        BY <2>1, <3>3
      <4>2. CASE \E j \in UpTo(head) : ring[j].seq = m
        BY <1>2, <3>1, <3>3, <4>2 DEF Numbers
      <4>3. CASE ring = <<>>
        <5>1. until = head /\ ~(until <= view.upto)
          BY <2>0, <3>3, <4>1, <4>3 DEF Heads
        <5>2. missing = (view.upto + 1)..head
          BY <2>3, <5>1
        <5>3. m \in (view.upto + 1)..head
          BY <2>0, <3>3, <4>1 DEF Heads
        <5> QED BY <5>2, <5>3
      <4>4. CASE ring # <<>> /\ 1 \in DOMAIN ring /\ ring[1].seq \in Seqs /\ m < ring[1].seq
        <5>1. until = ring[1].seq - 1
          BY <4>4
        <5>2. ~(until <= view.upto)
          BY <2>0, <3>3, <4>4, <5>1 DEF Seqs
        <5>3. missing = (view.upto + 1)..(ring[1].seq - 1)
          BY <2>3, <5>1, <5>2
        <5>4. m \in (view.upto + 1)..(ring[1].seq - 1)
          BY <2>0, <3>3, <4>4 DEF Seqs
        <5> QED BY <5>3, <5>4
      <4> QED BY <1>4, <3>3, <4>1, <4>2, <4>3, <4>4, ResumesRuns
    <3> QED BY <1>2, <1>4, <3>2, <3>3 DEF Covers
  <2>4. CASE ~Evicted /\ window.places = {i \in UpTo(head) : ring[i].seq > view.upto}
    <3>1. \A m \in numbers : view.upto < m
      <4>1. \A i \in window.places : ring[i].seq > view.upto /\ ring[i].seq \in Seqs
        BY <1>0, <2>4, RingNumbers
      <4>2. \A i \in window.places : view.upto < ring[i].seq
        <5>1. ASSUME NEW i \in window.places
              PROVE  view.upto < ring[i].seq
          <6>1. PICK n \in Seqs : n = ring[i].seq /\ n > view.upto
            BY <4>1
          <6>2. view.upto < n
            BY <2>0, <6>1 DEF Seqs
          <6> QED BY <6>1, <6>2
        <5> QED BY <5>1
      <4>3. \A m \in Numbers(window.places) : view.upto < m
        BY ONLY <4>2 DEF Numbers
      <4> QED BY ONLY <1>2, <4>3
    <3>2. ASSUME NEW m \in Nat, view.upto < m, m <= upto
          PROVE  m \in numbers
      <4>1. m <= head /\ m > view.upto
        BY <2>0, <2>1, <3>2
      <4>2. PICK j \in UpTo(head) : ring[j].seq = m
        BY <1>4, <2>4, <3>2, <4>1, ResumesRuns
      <4>3. m \in Numbers(window.places)
        BY <2>4, <4>1, <4>2 DEF Numbers
      <4> QED BY <1>2, <3>2, <4>3
    <3> QED BY <1>2, <1>4, <3>1, <3>2 DEF Covers
  <2> QED BY <1>4, <2>2, <2>3, <2>4, WindowParts
<1> QED BY <1>2, <1>3, <1>4, WindowParts

\* recent_activity names all that it was asked for, or says that it does not.
LEMMA RecentHolds ==
    ASSUME Invariant, NEW head \in Heads, head <= Pushed, view.upto # None, Resumes => view.upto <= head,
           NEW through \in Seqs, NEW window, window = Replay(head, Page),
           NEW relevant, relevant = {i \in window.places : ring[i].seq <= through /\ Interferes(ring[i].seq)},
           ~Truncated(window, relevant)
    PROVE  {n \in (view.upto + 1)..through : n <= head /\ Interferes(n)} = Numbers(Newest(relevant, Recent))
<1>0. UpTo(head) \subseteq DOMAIN ring /\ RingTyped
  BY UpToRuns DEF Invariant
<1>1. window.gap = "none" /\ ~(Cardinality(relevant) > Recent)
  BY DEF Truncated
<1>2. /\ Resumes /\ view.upto \in Nat
      /\ \/ view.upto = head /\ window.places = {}
         \/ view.upto # head /\ ~Evicted /\ window.places = {i \in UpTo(head) : ring[i].seq > view.upto}
  <2>1. Resumes => view.upto \in Nat
    BY DEF Invariant, ClientTyped, Resumes, Heads
  <2> QED BY <1>1, <2>1, WindowParts
<1>3. window.places \subseteq DOMAIN ring /\ relevant \subseteq DOMAIN ring
  BY <1>0, <1>2
<1>4. Newest(relevant, Recent) = relevant
  <2>1. Cardinality(relevant) \in Nat
    BY <1>0, <1>3, PlacesFinite
  <2>2. Cardinality(relevant) <= Recent
    BY <1>1, <2>1
  <2> QED BY <1>0, <1>3, <2>2, NewestAll
<1>5. ASSUME NEW n \in Numbers(relevant)
      PROVE  n \in (view.upto + 1)..through /\ n <= head /\ Interferes(n)
  <2>1. PICK i \in relevant : ring[i].seq = n
    BY DEF Numbers
  <2>2. i \in window.places /\ n <= through /\ Interferes(n)
    BY <2>1
  <2>3. i \in UpTo(head) /\ n > view.upto /\ n <= head
    BY <1>2, <2>1, <2>2 DEF UpTo
  <2>4. n \in Seqs
    BY <1>0, <2>1, <2>3, RingNumbers
  <2> QED BY <1>2, <2>2, <2>3, <2>4 DEF Seqs
<1>6. ASSUME NEW n \in (view.upto + 1)..through, n <= head, Interferes(n)
      PROVE  n \in Numbers(relevant)
  <2>1. n \in Nat /\ view.upto < n /\ n <= through
    BY <1>2 DEF Seqs
  <2>2. ~(view.upto = head)
    BY <1>2, <1>6, <2>1 DEF Heads
  <2>3. PICK j \in UpTo(head) : ring[j].seq = n
    BY <1>2, <1>6, <2>1, <2>2, ResumesRuns
  <2>4. n > view.upto
    BY <1>2, <2>1
  <2>5. j \in window.places
    BY <1>2, <2>2, <2>3, <2>4
  <2> QED BY <1>6, <2>1, <2>3, <2>5 DEF Numbers
<1> QED BY <1>4, <1>5, <1>6

-----------------------------------------------------------------------------
(* The client *)

ClientPart == ClientTyped /\ LiveRuns /\ SessionPlace /\ NoHoles /\ NoEventTwice /\ RecentIsComplete

\* The client's view is whole before a step.
LEMMA ViewIsWhole ==
    ASSUME Invariant
    PROVE  ViewWhole(view)
BY DEF Invariant, ClientTyped, NoHoles, NoEventTwice, RecentIsComplete, ViewWhole

\* A client that has gone expects nothing.
LEMMA ClientGone ==
    ASSUME session' = None, live' = None, ViewWhole(view)'
    PROVE  ClientPart'
BY DEF ClientPart, ClientTyped, LiveRuns, SessionPlace, NoHoles, NoEventTwice, RecentIsComplete, ViewWhole

\* A client leaves the numbers where they are.
LEMMA ClientStays ==
    ASSUME ClientStep
    PROVE  Pushed' = Pushed /\ Published' = Published /\ SentHead' = SentHead /\ epoch' = epoch
BY ClientKeeps DEF Pushed, Published, SentHead, Emitting

\* What a receiver holds after a broadcast.
LEMMA Overwritten ==
    ASSUME NEW queue \in Receivers, Len(queue.unread) <= Broadcast, NEW n \in Seqs,
           NEW after, after = Overwrite(queue, n)
    PROVE  /\ after \in Receivers /\ Len(after.unread) <= Broadcast
           /\ after.skipped = 0 =>
                /\ queue.skipped = 0 /\ Len(after.unread) = Len(queue.unread) + 1
                /\ \A i \in DOMAIN after.unread :
                     \/ i = Len(after.unread) /\ after.unread[i] = n
                     \/ i \in DOMAIN queue.unread /\ after.unread[i] = queue.unread[i]
<1>1. queue.unread \in Seq(Seqs) /\ queue.skipped \in Nat
  BY DEF Receivers
<1>2. PICK all : all = Append(queue.unread, n)
  OBVIOUS
<1>3. /\ all \in Seq(Seqs) /\ Len(all) = Len(queue.unread) + 1 /\ all # <<>> /\ Len(queue.unread) \in Nat
      /\ \A i \in DOMAIN all : (i = Len(all) /\ all[i] = n) \/ (i \in DOMAIN queue.unread /\ all[i] = queue.unread[i])
  BY <1>1, <1>2, Appended
<1>4. CASE Len(all) > Broadcast
  <2>1. PICK rest : rest = Tail(all)
    OBVIOUS
  <2>2. rest \in Seq(Seqs) /\ Len(rest) = Len(all) - 1
    BY <1>3, <2>1, Behind
  <2>3. after = [unread |-> rest, skipped |-> queue.skipped + 1]
    BY <1>2, <1>4, <2>1 DEF Overwrite
  <2>4. after.unread = rest /\ after.skipped = queue.skipped + 1
    BY <2>3
  <2>5. after \in Receivers
    BY <1>1, <2>2, <2>3 DEF Receivers
  <2>6. after.skipped # 0
    BY <1>1, <2>4
  <2>7. Len(after.unread) <= Broadcast
    BY <1>3, <2>2, <2>4
  <2> QED BY <2>5, <2>6, <2>7
<1>5. CASE ~(Len(all) > Broadcast)
  <2>1. after = [queue EXCEPT !.unread = all]
    BY <1>2, <1>5 DEF Overwrite
  <2>2. after \in Receivers /\ after.unread = all /\ after.skipped = queue.skipped
    BY <1>3, <2>1 DEF Receivers
  <2>3. Len(after.unread) <= Broadcast
    BY <1>3, <1>5, <2>2
  <2> QED BY <1>3, <2>2, <2>3
<1> QED BY <1>4, <1>5

\* A broadcast reaches the client's receiver, or the client can see that it does not.
LEMMA SendClient ==
    ASSUME Invariant, SendLive
    PROVE  ClientPart'
<1>0. /\ ClientTyped /\ LiveRuns /\ SessionPlace /\ ViewWhole(view) /\ seq \in Seqs
      /\ live' = (IF live = None THEN None ELSE Overwrite(live, seq))
      /\ UNCHANGED <<epoch, session, view>>
  BY SendParts, ViewIsWhole DEF Invariant, Push, Publish, SendLive
<1>1. /\ SentHead' = seq /\ SentHead = seq - 1 /\ Published' = Published /\ Published \in 0..MaxSeq
      /\ SentHead \in 0..MaxSeq
  <2>1. [Next]_vars /\ ~Restart
    <3>1. seq' = seq \/ seq' = seq + 1
      BY SendParts DEF Push, Publish, SendLive
    <3>2. seq' # 0
      BY <1>0, <3>1 DEF Seqs
    <3> QED BY <3>2 DEF Next, Restart
  <2> QED BY <2>1, Progress, Behinds DEF Push, Publish, SendLive, Heads
<1>2. ViewWhole(view)'
  BY <1>0 DEF ViewWhole
<1>3. CASE live = None
  <2>1. session' = None /\ live' = None
    BY <1>0, <1>3 DEF SessionPlace
  <2> QED BY <1>2, <2>1, ClientGone
<1>4. CASE live # None
  <2>1. live \in Receivers /\ Len(live.unread) <= Broadcast /\ session # None /\ session \in Places
    BY <1>0, <1>4 DEF ClientTyped, SessionPlace
  <2>2. /\ live' \in Receivers /\ Len(live'.unread) <= Broadcast
        /\ live'.skipped = 0 =>
             /\ live.skipped = 0 /\ Len(live'.unread) = Len(live.unread) + 1
             /\ \A i \in DOMAIN live'.unread :
                  \/ i = Len(live'.unread) /\ live'.unread[i] = seq
                  \/ i \in DOMAIN live.unread /\ live'.unread[i] = live.unread[i]
    <3>1. live' = Overwrite(live, seq)
      BY <1>0, <1>4
    <3> QED BY <1>0, <2>1, <3>1, Overwritten
  <2>3. PICK k \in Nat : k = Len(live.unread) /\ DOMAIN live.unread = 1..k
    BY <2>1 DEF Receivers
  <2>4. LiveRuns'
    <3>1. SUFFICES ASSUME live'.skipped = 0, NEW i \in DOMAIN live'.unread
                   PROVE  live'.unread[i] + (Len(live'.unread) - i) = seq
      BY <1>1 DEF LiveRuns
    <3>2. Len(live'.unread) = k + 1 /\ live'.unread \in Seq(Seqs)
      BY <2>2, <2>3, <3>1 DEF Receivers
    <3>3. CASE i = Len(live'.unread) /\ live'.unread[i] = seq
      <4>1. seq + ((k + 1) - (k + 1)) = seq
        BY <1>0 DEF Seqs
      <4> QED BY <3>2, <3>3, <4>1
    <3>4. CASE i \in DOMAIN live.unread /\ live'.unread[i] = live.unread[i]
      <4>1. live.unread[i] + (k - i) = SentHead
        BY <1>0, <1>4, <2>2, <2>3, <3>1, <3>4 DEF LiveRuns
      <4>2. live.unread[i] \in Nat /\ i \in Nat
        <5>1. live.unread \in Seq(Seqs)
          BY <2>1 DEF Receivers
        <5>2. live.unread[i] \in Seqs
          BY <3>4, <5>1, Members
        <5> QED BY <2>3, <3>4, <5>2 DEF Seqs
      <4>3. PICK n \in Nat : n = live.unread[i]
        BY <4>2
      <4>4. n + ((k + 1) - i) = seq
        <5>1. seq \in Nat /\ k \in Nat /\ i \in Nat /\ n \in Nat
          BY <1>0, <2>3, <4>2 DEF Seqs
        <5>2. SentHead = seq - 1
          BY <1>1
        <5>3. n + (k - i) = seq - 1
          BY ONLY <4>1, <4>3, <5>2
        <5> QED BY ONLY <5>1, <5>3
      <4> QED BY <3>2, <3>4, <4>3, <4>4
    <3> QED BY <2>2, <3>1, <3>3, <3>4
  <2>5. SessionPlace'
    <3>1. live' # None
      BY <2>2
    <3>2. session.step # "subscribed" /\ live'.skipped = 0 => seq <= session.at + Len(live'.unread)
      <4>1. SUFFICES ASSUME session.step # "subscribed", live'.skipped = 0
                     PROVE  seq <= session.at + (k + 1)
        BY <2>2, <2>3
      <4>2. SentHead <= session.at + k
        BY <1>0, <2>1, <2>2, <2>3, <4>1 DEF SessionPlace
      <4>3. session.at \in Nat /\ seq \in Nat
        BY <1>0, <2>1 DEF Places, Heads, Seqs
      <4> QED BY <1>1, <2>3, <4>2, <4>3
    <3> QED BY <1>0, <1>1, <2>1, <3>1, <3>2 DEF SessionPlace
  <2> QED BY <1>0, <1>2, <2>2, <2>4, <2>5 DEF ClientPart, ClientTyped, ViewWhole, NoHoles, NoEventTwice, RecentIsComplete
<1> QED BY <1>3, <1>4

\* A client that attaches begins with an empty receiver.
LEMMA SubscribeClient ==
    ASSUME Invariant, NEW how \in {"follow", "page", "recent"}, Subscribe(how)
    PROVE  ClientPart'
<1>1. ViewWhole(view)'
  BY ViewIsWhole DEF Subscribe, ViewWhole
<1>2. PICK s, q : /\ s = [step |-> "subscribed", how |-> how, at |-> 0] /\ q = [unread |-> <<>>, skipped |-> 0]
                  /\ session' = s /\ live' = q
  BY DEF Subscribe
<1>3. s \in Places /\ s.step = "subscribed"
  BY <1>2 DEF Places, Heads
<1>4. q \in Receivers /\ q.unread = <<>> /\ q.skipped = 0 /\ Len(q.unread) <= Broadcast /\ DOMAIN q.unread = {}
  BY <1>2 DEF Receivers
<1>5. session' # None /\ live' # None
  BY <1>2, <1>3, <1>4
<1> QED BY <1>1, <1>2, <1>3, <1>4, <1>5
    DEF ClientPart, ClientTyped, LiveRuns, SessionPlace, NoHoles, NoEventTwice, RecentIsComplete, ViewWhole

\* The snapshot that it takes is ahead of every event not in its receiver.
LEMMA SnapshotClient ==
    ASSUME Invariant, TakeSnapshot
    PROVE  ClientPart'
<1>0. /\ ClientTyped /\ LiveRuns /\ SessionPlace /\ ViewWhole(view)
      /\ snapshot.head = Published /\ snapshot.head \in 0..MaxSeq
  BY ViewIsWhole DEF Invariant, SnapshotPlace, ActorTyped, Heads
<1>1. session # None /\ live # None /\ session \in Places /\ live \in Receivers
  BY <1>0 DEF TakeSnapshot, SessionPlace, ClientTyped
<1>2. PICK s : s = [step |-> "snapped", how |-> session.how, at |-> snapshot.head] /\ session' = s
  BY DEF TakeSnapshot
<1>3. s \in Places /\ s.step = "snapped" /\ s.at = snapshot.head
  BY <1>0, <1>1, <1>2 DEF Places, Heads
<1>4. UNCHANGED <<live, view>> /\ SentHead' = SentHead /\ Published' = Published
  BY ClientStays DEF ClientStep, TakeSnapshot
<1>5. SentHead <= s.at + Len(live.unread) /\ s.at <= Published
  <2>1. PICK k \in Nat : k = Len(live.unread)
    BY <1>1 DEF Receivers
  <2>2. SentHead <= Published /\ SentHead \in Nat /\ Published \in Nat
    BY Behinds DEF Heads
  <2> QED BY <1>0, <1>3, <2>1, <2>2
<1>6. session' # None
  BY <1>2, <1>3
<1>7. SessionPlace'
  BY <1>1, <1>2, <1>3, <1>4, <1>5, <1>6 DEF SessionPlace
<1> QED BY <1>0, <1>1, <1>2, <1>3, <1>4, <1>7
    DEF ClientPart, ClientTyped, LiveRuns, NoHoles, NoEventTwice, RecentIsComplete, ViewWhole

\* Where a snapshot was taken, its head is in the ring's reach.
LEMMA SnappedHead ==
    ASSUME Invariant, NEW how, Snapped(how)
    PROVE  /\ session \in Places /\ session # None /\ live # None /\ session.step = "snapped"
           /\ session.at \in Heads /\ session.at <= Pushed /\ (Resumes => view.upto <= session.at)
<1>1. session # None /\ session \in Places /\ session.step = "snapped" /\ live # None
  BY DEF Snapped, Invariant, ClientTyped, SessionPlace
<1>2. session.at \in Heads /\ session.at <= Published
  BY <1>1 DEF Places, Invariant, SessionPlace
<1>3. session.at <= Pushed
  BY <1>2, Behinds DEF Heads
<1> QED BY <1>1, <1>2, <1>3 DEF Snapped

\* From the replay on, the client follows what its receiver holds.
LEMMA FollowClient ==
    ASSUME Invariant, Follow
    PROVE  ClientPart'
<1>0. /\ ClientTyped /\ LiveRuns /\ SessionPlace /\ ViewWhole(view)
      /\ session \in Places /\ session # None /\ live # None /\ session.step = "snapped"
      /\ session.at \in Heads /\ session.at <= Pushed /\ (Resumes => view.upto <= session.at)
  BY ViewIsWhole, SnappedHead DEF Invariant, Follow
<1>1. PICK window : window = Replay(session.at, Page)
  OBVIOUS
<1>2. PICK numbers : numbers = Numbers(window.places)
  OBVIOUS
<1>3. PICK begins : begins = IF numbers # {} THEN Least(numbers) ELSE IF ring = <<>> THEN session.at + 1 ELSE ring[1].seq
  OBVIOUS
<1>4. PICK missing : missing = IF window.gap = "none" THEN {} ELSE 1..(begins - 1)
  OBVIOUS
<1>5. view' = Given(numbers, missing, session.at) /\ session' = [session EXCEPT !.step = "live"] /\ live' = live
  BY <1>1, <1>2, <1>3, <1>4 DEF Follow
<1>6. Covers(numbers, missing, session.at)
  <2>1. PICK head : head = session.at
    OBVIOUS
  <2>2. /\ head \in Heads /\ head <= Pushed /\ (Resumes => view.upto <= head) /\ window = Replay(head, Page)
        /\ begins = IF numbers # {} THEN Least(numbers) ELSE IF ring = <<>> THEN head + 1 ELSE ring[1].seq
    BY <1>0, <1>1, <1>3, <2>1
  <2>3. Covers(numbers, missing, head)
    BY ONLY Invariant, <2>2, <1>2, <1>4, FollowCovers
  <2> QED BY <2>1, <2>3
<1>7. ViewWhole(view)' /\ view'.epoch = epoch /\ view'.upto = session.at
  <2>1. PICK head : head = session.at
    OBVIOUS
  <2>2. head \in Heads /\ Covers(numbers, missing, head) /\ view' = Given(numbers, missing, head)
    BY <1>0, <1>5, <1>6, <2>1
  <2>3. PICK given : given = Given(numbers, missing, head)
    OBVIOUS
  <2>4. GivenAs(given, head)
    BY ONLY Invariant, <2>2, <2>3, GivenWhole
  <2>5. view' = given
    BY <2>2, <2>3
  <2> QED BY <2>1, <2>4, <2>5 DEF GivenAs, ViewWhole
<1>8. session' \in Places /\ session'.step = "live" /\ session'.at = session.at
  BY <1>0, <1>5 DEF Places
<1>9. session' # None
  BY <1>8
<1>10. epoch' = epoch /\ SentHead' = SentHead /\ Published' = Published
  BY ClientStays DEF ClientStep
<1>11. SessionPlace'
  BY <1>0, <1>5, <1>7, <1>8, <1>9, <1>10 DEF SessionPlace
<1> QED BY <1>0, <1>5, <1>7, <1>8, <1>10, <1>11
    DEF ClientPart, ClientTyped, LiveRuns, NoHoles, NoEventTwice, RecentIsComplete, ViewWhole

\* A page is all of the ring from the cursor to where the page ends.
LEMMA PageClient ==
    ASSUME Invariant, PageThrough
    PROVE  ClientPart'
<1>0. /\ session.at \in Heads /\ session.at <= Pushed /\ (Resumes => view.upto <= session.at)
  BY SnappedHead DEF PageThrough
<1>1. PICK tail : tail = IF view.upto = None THEN Page ELSE RingEvents
  OBVIOUS
<1>2. PICK window : window = Replay(session.at, tail)
  OBVIOUS
<1>3. PICK limited : limited = (view.upto # None /\ Cardinality(window.places) > Page)
  OBVIOUS
<1>4. PICK numbers : numbers = Numbers(IF limited THEN First(window.places, Page) ELSE window.places)
  OBVIOUS
<1>5. PICK until : until = IF ring = <<>> THEN session.at ELSE ring[1].seq - 1
  OBVIOUS
<1>6. PICK missing : missing = IF window.gap = "none" THEN {}
                               ELSE (view.upto + 1)..(IF until <= view.upto THEN view.upto + 1 ELSE until)
  OBVIOUS
<1>7. PICK upto : upto = IF limited THEN Greatest(numbers) ELSE session.at
  OBVIOUS
<1>8. view' = Given(numbers, missing, upto) /\ session' = None /\ live' = None
  BY <1>1, <1>2, <1>3, <1>4, <1>5, <1>6, <1>7 DEF PageThrough
<1>9. upto \in Heads /\ Covers(numbers, missing, upto)
  <2>1. tail \in Nat \ {0} /\ (view.upto # None => tail = RingEvents) /\ (limited => Cardinality(window.places) > Page)
    BY <1>1, <1>3
  <2>2. PICK head : head = session.at
    OBVIOUS
  <2>3. /\ head \in Heads /\ head <= Pushed /\ (Resumes => view.upto <= head) /\ window = Replay(head, tail)
        /\ until = (IF ring = <<>> THEN head ELSE ring[1].seq - 1)
        /\ upto = (IF limited THEN Greatest(numbers) ELSE head)
    BY <1>0, <1>2, <1>5, <1>7, <2>2
  <2>4. upto \in Heads /\ Covers(numbers, missing, upto)
    BY ONLY Invariant, <1>4, <1>6, <2>1, <2>3, PageCovers
  <2> QED BY <2>4
<1>10. ViewWhole(view)'
  BY <1>8, <1>9, GivenWhole DEF GivenAs, ViewWhole
<1> QED BY <1>8, <1>10, ClientGone

\* An answer that leaves something out says so.
LEMMA RecentClient ==
    ASSUME Invariant, NEW through \in Seqs, RecentActivity(through)
    PROVE  ClientPart'
<1>0. /\ session.at \in Heads /\ session.at <= Pushed /\ (Resumes => view.upto <= session.at)
      /\ view.upto # None /\ ViewWhole(view)
  BY SnappedHead, ViewIsWhole DEF RecentActivity
<1>1. PICK window : window = Replay(session.at, Page)
  OBVIOUS
<1>2. PICK relevant : relevant = {i \in window.places : ring[i].seq <= through /\ Interferes(ring[i].seq)}
  OBVIOUS
<1>3. PICK all : all = {n \in (view.upto + 1)..through : n <= session.at /\ Interferes(n)}
  OBVIOUS
<1>4. PICK misled : misled = (view.misled \/ (~Truncated(window, relevant) /\ all # Numbers(Newest(relevant, Recent))))
  OBVIOUS
<1>5. view' = [view EXCEPT !.misled = misled] /\ session' = None /\ live' = None
  BY <1>1, <1>2, <1>3, <1>4 DEF RecentActivity
<1>6. misled = FALSE
  <2>1. ~Truncated(window, relevant) => all = Numbers(Newest(relevant, Recent))
    BY <1>0, <1>1, <1>2, <1>3, RecentHolds
  <2> QED BY <1>0, <1>4, <2>1 DEF ViewWhole
<1>7. ViewWhole(view)'
  BY <1>0, <1>5, <1>6 DEF ViewWhole
<1> QED BY <1>5, <1>7, ClientGone


\* What the forwarder finds in the receiver is the next event, or one of the replay.
LEMMA ForwardClient ==
    ASSUME Invariant, Forward
    PROVE  ClientPart'
<1>0. /\ ClientTyped /\ LiveRuns /\ SessionPlace /\ ViewWhole(view)
      /\ session # None /\ session.step = "live" /\ live # None /\ live.skipped = 0 /\ live.unread # <<>>
  BY ViewIsWhole DEF Invariant, Forward, Live, SessionPlace
<1>1. /\ session \in Places /\ live \in Receivers /\ live.unread \in Seq(Seqs) /\ Len(live.unread) <= Broadcast
      /\ session.at <= Published /\ SentHead <= session.at + Len(live.unread)
      /\ view.upto = session.at /\ view.epoch = epoch
  BY <1>0 DEF ClientTyped, SessionPlace, Receivers
<1>2. PICK rest : rest = Tail(live.unread)
  OBVIOUS
<1>3. PICK n : n = Head(live.unread)
  OBVIOUS
<1>4. PICK at, k, sent, published : at = session.at /\ k = Len(live.unread) /\ sent = SentHead /\ published = Published
  OBVIOUS
<1>5. /\ rest \in Seq(Seqs) /\ Len(rest) = k - 1 /\ 1 \in DOMAIN live.unread /\ n = live.unread[1]
      /\ \A i \in DOMAIN rest : i + 1 \in DOMAIN live.unread /\ rest[i] = live.unread[i + 1]
  BY <1>0, <1>1, <1>2, <1>3, <1>4, Behind
<1>6. /\ n \in Nat /\ at \in Nat /\ sent \in Nat /\ published \in Nat /\ k \in Nat \ {0} /\ sent <= published
      /\ at <= published /\ sent <= at + k /\ n \in Seqs /\ at \in Heads
  <2>1. n \in Seqs /\ at \in Heads /\ sent \in Heads /\ published \in Heads /\ sent <= published
    BY <1>1, <1>4, <1>5, Behinds, Members DEF Places
  <2>2. k \in Nat /\ k # 0
    BY <1>1, <1>4, <1>5
  <2> QED BY <1>1, <1>4, <2>1, <2>2 DEF Seqs, Heads
<1>7. n + (k - 1) = sent
  BY <1>0, <1>4, <1>5 DEF LiveRuns
<1>8. PICK queue : queue = [live EXCEPT !.unread = rest]
  OBVIOUS
<1>9. queue \in Receivers /\ queue.unread = rest /\ queue.skipped = 0 /\ live' = queue
  <2>1. live' = queue
    BY <1>2, <1>8 DEF Forward
  <2> QED BY <1>0, <1>1, <1>5, <1>8, <2>1 DEF Receivers
<1>10. Len(rest) <= Broadcast
  BY <1>1, <1>4, <1>5, <1>6
<1>11. epoch' = epoch /\ SentHead' = sent /\ Published' = published
  BY <1>4, ClientStays DEF ClientStep
<1>12. LiveRuns'
  <2>1. SUFFICES ASSUME NEW i \in DOMAIN rest
                 PROVE  rest[i] + (Len(rest) - i) = sent
    BY <1>9, <1>11 DEF LiveRuns
  <2>2. live.unread[i + 1] + (k - (i + 1)) = sent
    BY <1>0, <1>4, <1>5 DEF LiveRuns
  <2>3. PICK m : m = rest[i]
    OBVIOUS
  <2>4. m \in Nat /\ i \in Nat
    <3>1. m \in Seqs
      BY <1>5, <2>3, Members
    <3>2. i \in Nat
      BY <1>5
    <3> QED BY <3>1, <3>2 DEF Seqs
  <2>5. m + (k - (i + 1)) = sent
    BY <1>5, <2>2, <2>3
  <2>6. m + ((k - 1) - i) = sent
    BY ONLY <1>6, <2>4, <2>5
  <2> QED BY <1>5, <2>3, <2>6
<1>13. CASE n <= session.at
  <2>1. view' = view /\ session' = session
    BY <1>3, <1>13 DEF Forward
  <2>2. n <= at
    BY <1>4, <1>13
  <2>3. sent <= at + (k - 1)
    BY ONLY <1>6, <1>7, <2>2
  <2>4. session' # None /\ session'.at = at /\ live' # None /\ live'.unread = rest
    BY <1>0, <1>4, <1>9, <2>1
  <2>5. SessionPlace'
    BY <1>1, <1>4, <1>5, <1>6, <1>11, <2>1, <2>3, <2>4 DEF SessionPlace
  <2> QED BY <1>0, <1>1, <1>9, <1>10, <1>12, <2>1, <2>5
      DEF ClientPart, ClientTyped, NoHoles, NoEventTwice, RecentIsComplete, ViewWhole
<1>14. CASE ~(n <= session.at)
  <2>1. view' = Given({n}, {}, n) /\ session' = [session EXCEPT !.at = n]
    BY <1>3, <1>14 DEF Forward
  <2>2. n > at
    BY <1>4, <1>6, <1>14
  <2>3. n = at + 1 /\ n <= published /\ sent <= n + (k - 1)
    BY ONLY <1>6, <1>7, <2>2
  <2>4. n \in Heads
    BY <1>6 DEF Seqs, Heads
  <2>5. Covers({n}, {}, n)
    <3>1. Resumes /\ view.upto = at
      BY <1>1, <1>4, <1>6 DEF Resumes
    <3>2. \A m \in Nat : at < m /\ m <= n => m = n
      BY <1>6, <2>3
    <3>3. at < n
      BY <1>6, <2>3
    <3> QED BY <1>6, <3>1, <3>2, <3>3 DEF Covers
  <2>6. PICK given : given = Given({n}, {}, n)
    OBVIOUS
  <2>7. GivenAs(given, n)
    BY ONLY Invariant, <2>4, <2>5, <2>6, GivenWhole
  <2>8. view' = given
    BY <2>1, <2>6
  <2>9. ViewWhole(view') /\ view'.upto = n /\ view'.epoch = epoch
    BY <2>7, <2>8 DEF GivenAs
  <2>10. session' \in Places /\ session'.step = "live" /\ session'.at = n
    BY <1>0, <1>1, <2>1, <2>4 DEF Places
  <2>11. session' # None /\ live' # None /\ live'.unread = rest
    BY <1>9, <2>10
  <2>12. SessionPlace'
    BY <1>5, <1>11, <2>3, <2>9, <2>10, <2>11 DEF SessionPlace
  <2> QED BY <1>9, <1>10, <1>12, <2>9, <2>10, <2>12
      DEF ClientPart, ClientTyped, NoHoles, NoEventTwice, RecentIsComplete, ViewWhole
<1> QED BY <1>13, <1>14

\* Every step keeps what there is between the client and the Slot.
LEMMA StepClient ==
    ASSUME Invariant, [Next]_vars, ~Restart
    PROVE  ClientPart'
<1>0. /\ ClientTyped /\ LiveRuns /\ SessionPlace /\ ViewWhole(view)
      /\ Published \in 0..MaxSeq /\ SentHead \in 0..MaxSeq
  BY ViewIsWhole, Behinds DEF Invariant, Heads
<1>1. CASE SendLive
  BY <1>1, SendClient
<1>2. CASE ClientStep
  <2>1. CASE \E how \in {"follow", "page", "recent"} : Subscribe(how)
    BY <2>1, SubscribeClient
  <2>2. CASE TakeSnapshot
    BY <2>2, SnapshotClient
  <2>3. CASE Follow
    BY <2>3, FollowClient
  <2>4. CASE PageThrough
    BY <2>4, PageClient
  <2>5. CASE \E through \in Seqs : RecentActivity(through)
    BY <2>5, RecentClient
  <2>6. CASE Forward
    BY <2>6, ForwardClient
  <2>7. CASE Lagged \/ Detach
    <3>1. session' = None /\ live' = None /\ view' = view
      BY <2>7 DEF Lagged, Detach
    <3>2. ViewWhole(view)'
      BY <1>0, <3>1 DEF ViewWhole
    <3> QED BY <3>1, <3>2, ClientGone
  <2> QED BY <1>2, <2>1, <2>2, <2>3, <2>4, <2>5, <2>6, <2>7 DEF ClientStep
<1>3. CASE ~SendLive /\ ~ClientStep
  <2>1. UNCHANGED <<epoch, live, session, view>>
    <3>1. CASE HandleAck
      BY <3>1, HandleAckParts
    <3>2. CASE Emit \/ EmitRefused
      BY <3>2, EmitParts
    <3>3. CASE AckInTime \/ AckTimeout
      BY <3>3, WaitParts
    <3>4. CASE Push \/ Publish
      BY <1>3, <3>4, SendParts
    <3>5. CASE ~(HandleAck \/ Emit \/ EmitRefused \/ AckInTime \/ AckTimeout \/ Push \/ Publish \/ SendLive \/ Restart)
      BY <1>3, <3>5, OtherParts, QuietSteps
    <3> QED BY <1>3, <3>1, <3>2, <3>3, <3>4, <3>5
  <2>2. SentHead' = SentHead /\ Published' \in Nat /\ Published <= Published'
    <3>1. \/ Published' = Published
          \/ Published = seq - 1 /\ Published' = seq
      BY <1>3, Progress
    <3>2. SentHead' = SentHead
      BY <1>3, Progress
    <3>3. seq \in Nat
      BY DEF Invariant, ActorTyped, Heads
    <3> QED BY <1>0, <3>1, <3>2, <3>3
  <2>3. LiveRuns' /\ ClientTyped'
    BY <1>0, <2>1, <2>2 DEF LiveRuns, ClientTyped
  <2>4. SessionPlace'
    <3>1. session # None => session.at \in Nat
      BY <1>0 DEF ClientTyped, Places, Heads
    <3>2. session # None /\ session.at <= Published => session.at <= Published'
      BY <1>0, <2>2, <3>1
    <3> QED BY <1>0, <2>1, <2>2, <3>2 DEF SessionPlace
  <2> QED BY <1>0, <2>1, <2>3, <2>4 DEF ClientPart, NoHoles, NoEventTwice, RecentIsComplete, ViewWhole
<1> QED BY <1>1, <1>2, <1>3

-----------------------------------------------------------------------------
(* The invariant and what follows from it *)

\* Where nothing has happened, nothing is wrong.
LEMMA NothingWrong ==
    ASSUME seq = 0, emit = None, health.seq = 0, health.logging = "healthy", snapshot.head = 0,
           snapshot.logging = "healthy", disk = NoOutcome, known = NoOutcome, trackers = {}, acks = <<>>, ring = <<>>
    PROVE  /\ EmitPlace /\ HealthIsNewest /\ AcksTrue /\ TimeoutFollowed /\ LateAckFollowed
           /\ SnapshotPlace /\ RingTyped /\ RingRuns /\ DurableTruthful /\ JournalTyped
<1>1. \A n \in Seqs : disk[n] = "none" /\ known[n] = "none"
  BY NothingYet
<1>2. JournalTyped
  <2>1. IsFiniteSet(trackers) /\ Cardinality(trackers) = 0
    BY FS_EmptySet
  <2> QED BY <2>1, NothingYet DEF JournalTyped
<1>3. EmitPlace /\ HealthIsNewest /\ AcksTrue /\ TimeoutFollowed /\ LateAckFollowed
  BY <1>1 DEF EmitPlace, HealthIsNewest, AcksTrue, TimeoutFollowed, LateAckFollowed, Emitting
<1>4. SnapshotPlace /\ RingTyped /\ RingRuns /\ DurableTruthful
  BY HowFar DEF SnapshotPlace, RingTyped, RingRuns, DurableTruthful, Emitting
<1> QED BY <1>2, <1>3, <1>4

\* An epoch begins well.
LEMMA InvariantInit ==
    ASSUME Init
    PROVE  Invariant
<1>1. /\ seq = 0 /\ emit = None /\ health.seq = 0 /\ health.logging = "healthy" /\ snapshot.head = 0
      /\ snapshot.logging = "healthy" /\ disk = NoOutcome /\ known = NoOutcome /\ trackers = {} /\ acks = <<>> /\ ring = <<>>
  BY DEF Init, Untroubled, Unpublished
<1>2. ActorTyped
  <2>1. health \in [logging : {"healthy", "degraded"}, seq : Heads]
    BY DEF Init, Untroubled, Heads
  <2>2. snapshot \in [head : Heads, logging : {"healthy", "degraded"}]
    BY DEF Init, Unpublished, Heads
  <2>3. known \in [Seqs -> {"none", "durable", "failed", "timeout", "untracked"}]
    BY <1>1, NothingYet
  <2>4. epoch \in {0, 1} /\ emit \in Emitted \cup {None}
    BY DEF Init
  <2>5. seq \in Heads
    BY DEF Init, Heads
  <2>6. realtime \in BOOLEAN
    BY DEF Init
  <2> QED BY <2>1, <2>2, <2>3, <2>4, <2>5, <2>6 DEF ActorTyped
<1>3. ClientTyped /\ LiveRuns /\ SessionPlace /\ NoHoles /\ NoEventTwice /\ RecentIsComplete
  BY DEF Init, ClientTyped, LiveRuns, SessionPlace, NoHoles, NoEventTwice, RecentIsComplete
<1> QED BY <1>1, <1>2, <1>3, NothingWrong DEF Invariant

\* A restart begins another; the client keeps what it was given.
LEMMA RestartKeeps ==
    ASSUME Invariant, Restart
    PROVE  /\ EmitPlace' /\ HealthIsNewest' /\ AcksTrue' /\ TimeoutFollowed' /\ LateAckFollowed'
           /\ SnapshotPlace' /\ RingTyped' /\ RingRuns' /\ DurableTruthful' /\ JournalTyped' /\ ClientPart'
<1>1. /\ seq' = 0 /\ emit' = None /\ health'.seq = 0 /\ health'.logging = "healthy" /\ snapshot'.head = 0
      /\ snapshot'.logging = "healthy" /\ disk' = NoOutcome /\ known' = NoOutcome /\ trackers' = {} /\ acks' = <<>>
      /\ ring' = <<>> /\ session' = None /\ live' = None /\ view' = view
  BY Restarted
<1>2. JournalTyped'
  BY StepJournalTyped DEF Next
<1>3. EmitPlace' /\ HealthIsNewest'
  BY StepEmitPlace, StepHealth DEF Next
<1>4. \A n \in Seqs : disk'[n] = "none" /\ known'[n] = "none"
  BY <1>1, NothingYet
<1>5. AcksTrue' /\ TimeoutFollowed' /\ LateAckFollowed'
  BY <1>1, <1>4 DEF AcksTrue, TimeoutFollowed, LateAckFollowed
<1>6. Pushed' = 0 /\ Published' = 0
  BY <1>1 DEF Pushed, Published, Emitting
<1>7. SnapshotPlace' /\ RingTyped' /\ RingRuns' /\ DurableTruthful'
  BY <1>1, <1>6 DEF SnapshotPlace, RingTyped, RingRuns, DurableTruthful
<1>8. ViewWhole(view)'
  BY <1>1, ViewIsWhole DEF ViewWhole
<1> QED BY <1>1, <1>2, <1>3, <1>5, <1>7, <1>8, ClientGone

\* No step breaks it.
LEMMA InvariantStep ==
    ASSUME Invariant, [Next]_vars
    PROVE  Invariant'
<1>1. ActorTyped' /\ JournalTyped' /\ EmitPlace' /\ HealthIsNewest'
  BY StepActorTyped, StepJournalTyped, StepEmitPlace, StepHealth
<1>2. CASE Restart
  BY <1>1, <1>2, RestartKeeps DEF Invariant, ClientPart
<1>3. CASE ~Restart
  <2>1. AcksTrue' /\ TimeoutFollowed' /\ LateAckFollowed'
    BY <1>3, StepAcksTrue, StepFollowed
  <2>2. SnapshotPlace' /\ RingTyped' /\ RingRuns' /\ DurableTruthful'
    BY <1>3, StepSnapshotPlace, StepRing
  <2>3. ClientPart'
    BY <1>3, StepClient
  <2> QED BY <1>1, <2>1, <2>2, <2>3 DEF Invariant, ClientPart
<1> QED BY <1>2, <1>3

\* The invariant holds of every behaviour: what is known is of numbered events, the ring
\* and the receiver hold consecutive numbers, and a client misses nothing between them.
THEOREM TimelineInvariant == Spec => []Invariant
<1>1. Init => Invariant
  BY InvariantInit
<1>2. Invariant /\ [Next]_vars => Invariant'
  BY InvariantStep
<1> QED BY <1>1, <1>2, PTL DEF Spec

\* Every variable has its type: ring, receiver and trackers never pass their bounds, and
\* no sequence number passes that of its epoch.
THEOREM TimelineTypeCorrect == Spec => []TypeOK
<1>1. Invariant => TypeOK
  BY DEF Invariant, ActorTyped, JournalTyped, RingTyped, ClientTyped, TypeOK
<1> QED BY <1>1, TimelineInvariant, PTL

\* Acknowledgements, timeouts and failures in any order leave the health of the newest
\* outcome known, and no timed-out event is forgotten (track_journal_ack, slot.rs).
THEOREM TimelineJournalHealth == Spec => []JournalHealth
<1>1. Invariant => JournalHealth
  BY DEF Invariant, JournalHealth
<1> QED BY <1>1, TimelineInvariant, PTL

\* A client that attaches, follows, pages and comes back is given every event once or told
\* that it is gone, and what a replay calls durable is on disk (api.rs, ring.rs, slot.rs).
THEOREM TimelineStreamComplete == Spec => []StreamComplete
<1>1. ASSUME Invariant
      PROVE  StreamComplete
  <2>1. SnapshotCurrent
    BY <1>1, HowFar DEF Invariant, SnapshotPlace, SnapshotCurrent, Emitting
  <2> QED BY <1>1, <2>1 DEF Invariant, StreamComplete
<1> QED BY <1>1, TimelineInvariant, PTL
=============================================================================
