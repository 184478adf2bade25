--------------------------- MODULE MonitorWorker ----------------------------
(***************************************************************************)
(* One Monitor of the daemon (monitor.rs): its record, the file behind it,  *)
(* the worker that follows the port's timeline for it, and the operations   *)
(* that stop, update and resume it.                                        *)
(*                                                                         *)
(* Every change is made in memory under the mutation lock and then written; *)
(* when the write fails, memory is restored.  Workers and operations are    *)
(* separate tasks: the lock covers one change, never a whole operation.     *)
(***************************************************************************)
EXTENDS Integers, Sequences, FiniteSets, FiniteSetsExt

CONSTANTS
    None,
    Operations,     \* concurrent stop and update calls
    Debounce,       \* whether the Monitor collects matches before it reports them
    MaxSeq,         \* bound on the events of one epoch
    MaxActivity,    \* bound on the events and the calls together
    RingEvents,     \* events that an attach can replay
    Broadcast,      \* events that a receiver may be behind
    MaxWorkers,     \* bound on the workers started
    MaxFaults       \* bound on failing writes and closed ports

Seqs == 1..MaxSeq
Epochs == {1, 2}
Tokens == 1..MaxWorkers
Startup == 0
Procs == Operations \cup {Startup} \cup Tokens

VARIABLES
    epoch,      \* daemon_epoch
    events,     \* the timeline of this epoch: what each event is to a Monitor
    past,       \* the matches of the epoch before
    state,      \* PersistedState in memory
    disk,       \* and in the file
    lock,       \* the holder of mutation with the state before its change
    map,        \* workers: the reserved or running worker, or None
    worker,     \* the worker tasks
    spawn,      \* spawn_worker calls: where they are
    op,         \* stop and update calls: where they are
    expired,    \* the Monitor's duration is over
    stopping,   \* shutdown has been asked for
    suppressed, \* matches that fell into a cooldown
    lost,       \* matches that the ring or the old epoch did not keep
    early,      \* a worker has loaded a checkpoint that was still to be written or replaced
    activity,   \* events and calls so far
    faults      \* failing writes and closed ports so far

vars == <<epoch, events, past, state, disk, lock, map, worker, spawn, op, expired, stopping, suppressed, lost, early, activity, faults>>
tasks == <<map, worker, spawn, op>>
stream == <<epoch, events, past, activity>>
marks == <<suppressed, lost, early>>

head == Len(events)
Match(n) == events[n] = "match"
Matches(a, b) == {<<epoch, n>> : n \in {k \in (a + 1)..b : Match(k)}}

\* MonitorCheckpoint
Checkpoint(e, after, cooling, pending) ==
    [epoch |-> e, after |-> after, cooling |-> cooling, pending |-> pending]

Authoritative(rev) == state.status = "running" /\ state.revision = rev

-----------------------------------------------------------------------------
(* Changes of the record *)

Change(kind, evidence, checkpoint) == [kind |-> kind, evidence |-> evidence, checkpoint |-> checkpoint]
Incident(evidence, checkpoint) == Change("incident", evidence, checkpoint)
Save(checkpoint) == Change("checkpoint", {}, checkpoint)
Gap == Change("gap", {}, None)

\* record_incident: the incident and the checkpoint that follows it are one change.
RecordIncident(s, c) ==
    [s EXCEPT !.incidents = Append(@, [revision |-> s.revision, evidence |-> c.evidence]),
              !.checkpoint = c.checkpoint]

\* The changes that a worker makes; none of them touches another revision.
Apply(s, rev, c) ==
    IF s.status # "running" \/ s.revision # rev THEN s
    ELSE CASE c.kind = "incident" -> RecordIncident(s, c)
           [] c.kind = "checkpoint" -> [s EXCEPT !.checkpoint = c.checkpoint]
           [] c.kind = "gap" -> [s EXCEPT !.gaps = TRUE]
           [] c.kind = "complete" -> [s EXCEPT !.status = "completed"]
           [] c.kind = "fail" -> [s EXCEPT !.status = "failed"]

\* mutate_and_persist up to the write: the lock, the copy, the change in memory.
Mutate(who, changed) ==
    /\ lock = None
    /\ lock' = [who |-> who, previous |-> state]
    /\ state' = changed

Written == disk' = state /\ lock' = None /\ UNCHANGED state

\* The write fails before the file is replaced, or after it.
WriteFails ==
    /\ faults < MaxFaults /\ faults' = faults + 1
    /\ disk' \in {disk, state}
    /\ state' = lock.previous
    /\ lock' = None

-----------------------------------------------------------------------------
(* A worker, run_monitor_worker *)

Idle == [pc |-> "none", rev |-> 0, after |-> 0, reach |-> 0, pending |-> {}, cooling |-> FALSE,
         todo |-> <<>>, then |-> "run", cancel |-> FALSE]
Finished == [Idle EXCEPT !.pc = "done"]
Alive(t) == worker[t].pc \notin {"none", "done"}
Runs(t) == worker[t].pc = "run" /\ worker[t].todo = <<>> /\ worker[t].then = "run"
Step(t, w) == worker' = [worker EXCEPT ![t] = w]

\* WorkerRuntime::checkpoint goes back to before the evidence that is still pending.
CheckpointOf(w, after) ==
    Checkpoint(epoch, IF w.pending = {} THEN after ELSE Min({m[2] : m \in w.pending}) - 1,
               w.cooling, w.pending)

\* take_recovered_pending
Recovered(c) == Checkpoint(c.epoch, Max({m[2] : m \in c.pending}), TRUE, {})

\* A cursor of an earlier epoch becomes the beginning of this one.
From(c) == IF c.epoch # epoch THEN 0 ELSE c.after

\* The worker starts from the checkpoint: evidence pending there becomes an incident,
\* and a new epoch is a gap.
Load(t) ==
    /\ worker[t].pc = "load"
    /\ LET c == state.checkpoint
           formed == c.pending # {}
           from == IF formed THEN Recovered(c) ELSE c
           stale == c.epoch # epoch
       IN Step(t, [worker[t] EXCEPT
            !.pc = "attach", !.after = From(from), !.cooling = from.cooling,
            !.todo = (IF formed THEN <<Incident(c.pending, from)>> ELSE <<>>)
                     \o (IF stale THEN <<Gap>> ELSE <<>>)])
    /\ early' = (early \/ (lock # None /\ lock.previous.checkpoint # state.checkpoint)
                       \/ \E u \in Tokens \ {t} : Alive(u) /\ worker[u].rev = worker[t].rev)
    /\ UNCHANGED <<stream, state, disk, lock, map, spawn, op, expired, stopping, suppressed, lost, faults>>

\* The port has no actor any more: the worker ends with an error.
PortGone(t) ==
    /\ worker[t].pc \in {"load", "run"} /\ worker[t].todo = <<>> /\ worker[t].then = "run"
    /\ faults < MaxFaults /\ faults' = faults + 1
    /\ Step(t, IF worker[t].pc = "load" THEN [worker[t] EXCEPT !.pc = "err"]
               ELSE [worker[t] EXCEPT !.todo = <<Save(CheckpointOf(worker[t], worker[t].after))>>, !.then = "err"])
    /\ UNCHANGED <<stream, state, disk, lock, map, spawn, op, expired, stopping, marks>>

\* Attach with the cursor.  If the ring has lost what follows it, that is a gap: what
\* is pending is reported and only the newest event is replayed.
Attach(t) ==
    /\ worker[t].pc = "attach" /\ worker[t].todo = <<>> /\ ~expired
    /\ LET w == worker[t]
           evicted == w.after < head - RingEvents
           flush == IF w.pending = {} THEN <<>>
                    ELSE <<Incident(w.pending, Checkpoint(epoch, w.after, w.cooling, {}))>>
       IN /\ Step(t, IF evicted
                     THEN [w EXCEPT !.pc = "run", !.reach = head, !.after = head - 1, !.pending = {},
                                    !.todo = <<Gap>> \o flush]
                     ELSE [w EXCEPT !.pc = "run", !.reach = head])
          /\ lost' = IF evicted THEN lost \cup Matches(w.after, head - 1) ELSE lost
    /\ UNCHANGED <<stream, state, disk, lock, map, spawn, op, expired, stopping, suppressed, early, faults>>

\* The unread events of the receiver, which begins where the replay ended.
Behind(w) == head - (IF w.after < w.reach THEN w.reach ELSE w.after)

Lagged(t) ==
    /\ Runs(t) /\ worker[t].after >= worker[t].reach /\ Behind(worker[t]) > Broadcast
    /\ Step(t, [worker[t] EXCEPT !.pc = "attach"])
    /\ UNCHANGED <<stream, state, disk, lock, map, spawn, op, expired, stopping, marks, faults>>

\* process_monitor_event on the next event of the replay or of the live stream.
Flush(w, n) == IF w.pending = {} THEN <<>>
               ELSE <<Incident(w.pending, Checkpoint(epoch, n, w.cooling, {}))>>

OnBoundary(w, n) == [w EXCEPT !.after = n, !.pending = {}, !.todo = Flush(w, n)]
OnGap(w, n) == [w EXCEPT !.after = n, !.pending = {}, !.todo = Flush(w, n) \o <<Gap>>]

\* Mutant of OnMatch: the first match of a series waits for the next checkpoint, which
\* stands after it.
OnMatchUnsaved(w, n) ==
    IF w.cooling THEN [w EXCEPT !.after = n]
    ELSE IF ~Debounce
    THEN [w EXCEPT !.after = n, !.cooling = TRUE,
                   !.todo = <<Incident({<<epoch, n>>}, Checkpoint(epoch, n, TRUE, {}))>>]
    ELSE [w EXCEPT !.after = n, !.pending = @ \cup {<<epoch, n>>},
                   !.todo = <<Save(Checkpoint(epoch, n, FALSE, {}))>>]

\* accept_match; the first match of a series is saved at once.
OnMatch(w, n) ==
    IF w.cooling THEN [w EXCEPT !.after = n]
    ELSE IF ~Debounce
    THEN [w EXCEPT !.after = n, !.cooling = TRUE,
                   !.todo = <<Incident({<<epoch, n>>}, Checkpoint(epoch, n, TRUE, {}))>>]
    ELSE LET v == [w EXCEPT !.after = n, !.pending = @ \cup {<<epoch, n>>}]
         IN [v EXCEPT !.todo = IF w.pending = {} THEN <<Save(CheckpointOf(v, n))>> ELSE <<>>]

ProcessEvent(t) ==
    /\ Runs(t) /\ worker[t].after < head
    /\ worker[t].after >= worker[t].reach => Behind(worker[t]) <= Broadcast
    /\ LET w == worker[t]
           n == w.after + 1
       IN /\ Step(t, CASE events[n] = "match" -> OnMatch(w, n)
                       [] events[n] = "boundary" -> OnBoundary(w, n)
                       [] events[n] = "gap" -> OnGap(w, n))
          /\ suppressed' = IF Match(n) /\ w.cooling THEN suppressed \cup {<<epoch, n>>} ELSE suppressed
    /\ UNCHANGED <<stream, state, disk, lock, map, spawn, op, expired, stopping, lost, early, faults>>

\* The tick: debounced evidence is due, or the checkpoint is.
TakeDue(t) ==
    /\ Runs(t) /\ worker[t].after >= worker[t].reach /\ worker[t].pending # {}
    /\ Step(t, [worker[t] EXCEPT !.pending = {}, !.cooling = TRUE,
            !.todo = <<Incident(worker[t].pending, Checkpoint(epoch, worker[t].after, TRUE, {}))>>])
    /\ UNCHANGED <<stream, state, disk, lock, map, spawn, op, expired, stopping, marks, faults>>

CheckpointIfDue(t) ==
    /\ Runs(t) /\ state.checkpoint # CheckpointOf(worker[t], worker[t].after)
    /\ Step(t, [worker[t] EXCEPT !.todo = <<Save(CheckpointOf(worker[t], worker[t].after))>>])
    /\ UNCHANGED <<stream, state, disk, lock, map, spawn, op, expired, stopping, marks, faults>>

CooldownEnds(t) ==
    /\ Runs(t) /\ worker[t].cooling
    /\ Step(t, [worker[t] EXCEPT !.cooling = FALSE])
    /\ UNCHANGED <<stream, state, disk, lock, map, spawn, op, expired, stopping, marks, faults>>

\* is_expired, before an attach and at a tick: what is pending is reported first.
Complete(t) ==
    /\ expired /\ worker[t].todo = <<>> /\ worker[t].then = "run"
    /\ worker[t].pc \in {"attach", "run"}
    /\ worker[t].pc = "run" => worker[t].after >= worker[t].reach
    /\ Step(t, [worker[t] EXCEPT !.pending = {}, !.then = "exit",
            !.todo = Flush(worker[t], worker[t].after) \o <<Change("complete", {}, None)>>])
    /\ UNCHANGED <<stream, state, disk, lock, map, spawn, op, expired, stopping, marks, faults>>

\* Cancelled or shut down between two events: the place is saved.
Leave(t) ==
    /\ Runs(t) /\ worker[t].after >= worker[t].reach
    /\ worker[t].cancel \/ stopping
    /\ Step(t, [worker[t] EXCEPT !.todo = <<Save(CheckpointOf(worker[t], worker[t].after))>>, !.then = "exit"])
    /\ UNCHANGED <<stream, state, disk, lock, map, spawn, op, expired, stopping, marks, faults>>

\* checkpoint_progress writes nothing when nothing would change.
NeedsNoWrite(t) ==
    LET c == Head(worker[t].todo)
    IN c.kind = "checkpoint" /\ (~Authoritative(worker[t].rev) \/ state.checkpoint = c.checkpoint)

Followed(w) == IF Len(w.todo) > 1 \/ w.then = "run" THEN [w EXCEPT !.todo = Tail(@)]
               ELSE IF w.then = "done" THEN Finished ELSE [w EXCEPT !.todo = <<>>, !.pc = w.then]

BeginChange(t) ==
    /\ worker[t].todo # <<>> /\ lock = None
    /\ IF NeedsNoWrite(t)
       THEN Step(t, Followed(worker[t])) /\ UNCHANGED <<state, lock>>
       ELSE Mutate(t, Apply(state, worker[t].rev, Head(worker[t].todo))) /\ UNCHANGED worker
    /\ UNCHANGED <<stream, disk, map, spawn, op, expired, stopping, marks, faults>>

ChangeWritten(t) ==
    /\ lock # None /\ lock.who = t /\ Written
    /\ Step(t, Followed(worker[t]))
    /\ UNCHANGED <<stream, map, spawn, op, expired, stopping, marks, faults>>

Calls(rev) == [pc |-> "check", rev |-> rev, token |-> 0, prev |-> 0]

\* A worker whose write fails gives up; one that could not even record that it failed
\* starts its successor (ensure_current_worker).
ChangeFails(t) ==
    /\ lock # None /\ lock.who = t /\ WriteFails
    /\ Step(t, IF worker[t].pc = "failing" THEN Finished ELSE [worker[t] EXCEPT !.todo = <<>>, !.pc = "err"])
    /\ spawn' = IF worker[t].pc = "failing" /\ state'.status = "running"
                THEN [spawn EXCEPT ![t] = Calls(state'.revision)] ELSE spawn
    /\ UNCHANGED <<stream, map, op, expired, stopping, marks>>

\* The task's epilogue: clear_worker_if_token, then fail_monitor after an error.
End(t) ==
    /\ worker[t].pc \in {"exit", "err"}
    /\ map' = IF map # None /\ map.token = t THEN None ELSE map
    /\ Step(t, IF worker[t].pc = "exit" \/ stopping THEN Finished
               ELSE [Idle EXCEPT !.pc = "failing", !.then = "done", !.rev = worker[t].rev,
                                 !.todo = <<Change("fail", {}, None)>>])
    /\ UNCHANGED <<stream, state, disk, lock, spawn, op, expired, stopping, marks, faults>>

-----------------------------------------------------------------------------
(* spawn_worker *)

Return(p) == spawn' = [spawn EXCEPT ![p] = None]

SpawnCheck(p) ==
    /\ spawn[p] # None /\ spawn[p].pc = "check"
    /\ IF stopping \/ ~Authoritative(spawn[p].rev) THEN Return(p)
       ELSE spawn' = [spawn EXCEPT ![p].pc = "reserve"]
    /\ UNCHANGED <<stream, state, disk, lock, map, worker, op, expired, stopping, marks, faults>>

Unused == {t \in Tokens : worker[t].pc = "none" /\ (map = None \/ map.token # t)
                          /\ \A p \in Procs : spawn[p] # None => spawn[p].token # t}

Cancel(t) == worker' = IF t \in {u \in Tokens : Alive(u)} THEN [worker EXCEPT ![t].cancel = TRUE] ELSE worker

\* The place in the map is taken before the task exists; a newer or equal worker stays.
Reserve(p) ==
    /\ spawn[p] # None /\ spawn[p].pc = "reserve"
    /\ IF map # None /\ map.rev >= spawn[p].rev
       THEN Return(p) /\ UNCHANGED <<map, worker>>
       ELSE LET prev == IF map = None THEN 0 ELSE map.token
            IN \E t \in Unused :
                /\ \A u \in Unused : t <= u
                /\ map' = [token |-> t, rev |-> spawn[p].rev]
                /\ spawn' = [spawn EXCEPT ![p].pc = "recheck", ![p].token = t, ![p].prev = prev]
                /\ Cancel(prev)
    /\ UNCHANGED <<stream, state, disk, lock, op, expired, stopping, marks, faults>>

\* Mutant of Recheck: the state read before the reservation is trusted.
RecheckTrusting(p) ==
    /\ spawn[p] # None /\ spawn[p].pc = "recheck"
    /\ spawn[p].prev # 0 => ~Alive(spawn[p].prev)
    /\ spawn' = [spawn EXCEPT ![p].pc = "start"] /\ UNCHANGED map
    /\ UNCHANGED <<stream, state, disk, lock, worker, op, expired, stopping, marks, faults>>

\* After the predecessor has ended, the state is read once more.
Recheck(p) ==
    /\ spawn[p] # None /\ spawn[p].pc = "recheck"
    /\ spawn[p].prev # 0 => ~Alive(spawn[p].prev)
    /\ IF stopping \/ ~Authoritative(spawn[p].rev)
       THEN /\ map' = IF map # None /\ map.token = spawn[p].token THEN None ELSE map
            /\ Return(p)
       ELSE spawn' = [spawn EXCEPT ![p].pc = "start"] /\ UNCHANGED map
    /\ UNCHANGED <<stream, state, disk, lock, worker, op, expired, stopping, marks, faults>>

\* The task starts only if nobody has taken the reservation away.
StartTask(p) ==
    /\ spawn[p] # None /\ spawn[p].pc = "start"
    /\ worker' = IF map # None /\ map.token = spawn[p].token
                 THEN [worker EXCEPT ![map.token] = [Idle EXCEPT !.pc = "load", !.rev = map.rev]]
                 ELSE worker
    /\ Return(p)
    /\ UNCHANGED <<stream, state, disk, lock, map, op, expired, stopping, marks, faults>>

-----------------------------------------------------------------------------
(* stop and update *)

Free == [kind |-> None, pc |-> "free", rev |-> 0, start |-> 0, wait |-> 0]
At(o, pc) == op[o].pc = pc

\* The caller names the revision it has read; update also reads the port's head, or
\* takes a cursor that the client gives.
Call(o, kind, start) ==
    /\ At(o, "free") /\ ~stopping /\ activity < MaxActivity /\ activity' = activity + 1
    /\ kind = "stop" => start = 0
    /\ op' = [op EXCEPT ![o] = [kind |-> kind, pc |-> "cancel", rev |-> state.revision, start |-> start, wait |-> 0]]
    /\ UNCHANGED <<epoch, events, past, state, disk, lock, map, worker, spawn, expired, stopping, marks, faults>>

\* stop_worker: the worker of the revision leaves the map, is cancelled and waited for.
StopWorker(o) ==
    /\ op[o].pc \in {"cancel", "again"}
    /\ LET mine == map # None /\ map.rev = op[o].rev
       IN /\ map' = IF mine THEN None ELSE map
          /\ Cancel(IF mine THEN map.token ELSE 0)
          /\ op' = [op EXCEPT ![o].wait = IF mine THEN map.token ELSE 0,
                              ![o].pc = IF @ = "cancel" THEN "await" ELSE "last"]
    /\ UNCHANGED <<stream, state, disk, lock, spawn, expired, stopping, marks, faults>>

Ended(o) == op[o].wait # 0 => ~Alive(op[o].wait)

Updated(o) ==
    [state EXCEPT !.status = "running", !.revision = @ + 1, !.since = <<epoch, op[o].start, state.revision + 1>>,
                  !.checkpoint = Checkpoint(epoch, op[o].start, FALSE, {})]

Stopped == IF state.status = "running" THEN [state EXCEPT !.status = "stopped", !.revision = @ + 1] ELSE state

\* The change itself, refused when another call was first.
Commit(o) ==
    /\ At(o, "await") /\ Ended(o) /\ lock = None
    /\ IF state.revision # op[o].rev
       THEN /\ op' = [op EXCEPT ![o] = [Free EXCEPT !.pc = "returned"]]
            /\ spawn' = [spawn EXCEPT ![o] = Calls(op[o].rev)]
            /\ UNCHANGED <<state, lock>>
       ELSE /\ Mutate(o, IF op[o].kind = "stop" THEN Stopped ELSE Updated(o))
            /\ op' = [op EXCEPT ![o].pc = "write"]
            /\ UNCHANGED spawn
    /\ UNCHANGED <<stream, disk, map, worker, expired, stopping, marks, faults>>

\* A stop looks for a worker once more; an update starts the new one.
CommitWritten(o) ==
    /\ lock # None /\ lock.who = o /\ Written
    /\ IF op[o].kind = "stop"
       THEN op' = [op EXCEPT ![o].pc = "again"] /\ UNCHANGED <<spawn, expired>>
       ELSE /\ op' = [op EXCEPT ![o] = [Free EXCEPT !.pc = "returned"]]
            /\ spawn' = [spawn EXCEPT ![o] = Calls(state.revision)]
            /\ expired' = FALSE
    /\ UNCHANGED <<stream, map, worker, stopping, marks, faults>>

\* The old state is back, and so must be its worker.
CommitFails(o) ==
    /\ lock # None /\ lock.who = o /\ WriteFails
    /\ op' = [op EXCEPT ![o] = [Free EXCEPT !.pc = "returned"]]
    /\ spawn' = [spawn EXCEPT ![o] = Calls(op[o].rev)]
    /\ UNCHANGED <<stream, map, worker, expired, stopping, marks>>

StopReturns(o) ==
    /\ At(o, "last") /\ Ended(o)
    /\ op' = [op EXCEPT ![o] = [Free EXCEPT !.pc = "returned"]]
    /\ UNCHANGED <<stream, state, disk, lock, map, worker, spawn, expired, stopping, marks, faults>>

-----------------------------------------------------------------------------
(* The port, time and the process *)

Emit(kind) ==
    /\ head < MaxSeq /\ activity < MaxActivity /\ activity' = activity + 1
    /\ events' = Append(events, kind)
    /\ UNCHANGED <<epoch, past, state, disk, lock, tasks, expired, stopping, marks, faults>>

TimeRunsOut ==
    /\ ~expired /\ expired' = TRUE
    /\ UNCHANGED <<stream, state, disk, lock, tasks, stopping, marks, faults>>

\* shutdown: the flag, the startup task, the workers, and a last write.
Shutdown ==
    /\ ~stopping /\ stopping' = TRUE
    /\ UNCHANGED <<stream, state, disk, lock, tasks, expired, marks, faults>>

ShutdownWorkers ==
    /\ stopping /\ spawn[Startup] = None /\ map # None
    /\ Cancel(map.token)
    /\ map' = None
    /\ UNCHANGED <<stream, state, disk, lock, spawn, op, expired, stopping, marks, faults>>

\* The daemon ends, orderly or not, and the next one loads the file and resumes.  What
\* the ring of the old epoch held beyond the saved checkpoint is gone.
Restart ==
    /\ epoch = 1
    /\ LET last == IF stopping /\ map = None /\ (\A t \in Tokens : ~Alive(t)) THEN {state, disk} ELSE {disk}
       IN \E s \in last :
            /\ state' = s /\ disk' = s
            /\ lost' = lost \cup (Matches(s.checkpoint.after, head) \ s.checkpoint.pending)
            /\ spawn' = [p \in Procs |-> IF p = Startup /\ s.status = "running" THEN Calls(s.revision) ELSE None]
    /\ epoch' = 2 /\ events' = <<>> /\ past' = Matches(0, head)
    /\ lock' = None /\ map' = None
    /\ worker' = [t \in Tokens |-> Idle]
    /\ op' = [o \in Operations |-> Free]
    /\ stopping' = FALSE
    /\ UNCHANGED <<expired, suppressed, early, activity, faults>>

Init ==
    /\ epoch = 1 /\ events = <<>> /\ past = {}
    /\ state = [status |-> "running", revision |-> 1, since |-> <<1, 0, 1>>, incidents |-> <<>>, gaps |-> FALSE,
                checkpoint |-> Checkpoint(1, 0, FALSE, {})]
    /\ disk = state
    /\ lock = None /\ map = None
    /\ worker = [t \in Tokens |-> Idle]
    /\ spawn = [p \in Procs |-> IF p = Startup THEN Calls(1) ELSE None]
    /\ op = [o \in Operations |-> Free]
    /\ expired = FALSE /\ stopping = FALSE
    /\ suppressed = {} /\ lost = {} /\ early = FALSE /\ activity = 0 /\ faults = 0

Next ==
    \/ \E t \in Tokens :
        \/ Load(t) \/ PortGone(t) \/ Attach(t) \/ Lagged(t) \/ ProcessEvent(t) \/ TakeDue(t)
        \/ CheckpointIfDue(t) \/ CooldownEnds(t) \/ Complete(t) \/ Leave(t)
        \/ BeginChange(t) \/ ChangeWritten(t) \/ ChangeFails(t) \/ End(t)
    \/ \E p \in Procs : SpawnCheck(p) \/ Reserve(p) \/ Recheck(p) \/ StartTask(p)
    \/ \E o \in Operations :
        \/ Call(o, "stop", 0)
        \/ \E start \in 0..head : Call(o, "update", start)
        \/ StopWorker(o) \/ Commit(o) \/ CommitWritten(o) \/ CommitFails(o) \/ StopReturns(o)
    \/ \E kind \in {"match", "boundary", "gap"} : Emit(kind)
    \/ TimeRunsOut \/ Shutdown \/ ShutdownWorkers \/ Restart

Spec == Init /\ [][Next]_vars

-----------------------------------------------------------------------------
(* Properties *)

CheckpointType == [epoch : Epochs, after : 0..MaxSeq, cooling : BOOLEAN, pending : SUBSET (Epochs \X Seqs)]

TypeOK ==
    /\ epoch \in Epochs /\ events \in Seq({"match", "boundary", "gap"})
    /\ \A s \in {state, disk} :
        /\ s.status \in {"running", "stopped", "completed", "failed"} /\ s.revision \in Nat \ {0}
        /\ s.checkpoint \in CheckpointType
    /\ lock # None => lock.who \in Operations \cup Tokens
    /\ map # None => map.token \in Tokens
    /\ \A t \in Tokens : worker[t].after \in 0..head /\ worker[t].reach \in 0..head

UpTo(m, e, n) == m[1] < e \/ (m[1] = e /\ m[2] <= n)

\* What was reported since the Monitor was created or last updated.
Recorded == UNION {state.incidents[i].evidence :
                    i \in {j \in DOMAIN state.incidents : state.incidents[j].revision >= state.since[3]}}

\* Wherever the daemon or the worker stops, a match that the checkpoint has passed is
\* in an incident, fell into a cooldown, or is covered by a gap that the Monitor shows.
\* Evidence that was only pending when the daemon died is among what is kept.  It is not
\* claimed once a worker has started from a checkpoint that was still to be written, to be
\* taken back or to be replaced (early): then the code can pass a match over.
EvidenceKept ==
    ~early => \A m \in past \cup Matches(0, head) :
        UpTo(m, state.checkpoint.epoch, state.checkpoint.after) /\ ~UpTo(m, state.since[1], state.since[2])
        => m \in Recorded \cup suppressed \/ (m \in lost /\ state.gaps)

\* Whatever tasks meet, no match is in two incidents of one revision.
NeverReportedTwice ==
    \A i, j \in DOMAIN state.incidents :
        i # j /\ state.incidents[i].revision = state.incidents[j].revision
        => state.incidents[i].evidence \cap state.incidents[j].evidence = {}

\* One match is reported once under one revision, however often its worker is
\* replaced, as long as no worker starts from a checkpoint that another task is still
\* about to write, to take back or to replace.
ReportedOnce == ~early => NeverReportedTwice

Quiet ==
    /\ lock = None
    /\ \A p \in Procs : spawn[p] = None
    /\ \A o \in Operations : op[o].pc \in {"free", "returned"}
    /\ \A t \in Tokens : worker[t].pc \in {"none", "load", "attach", "run", "done"} /\ worker[t].then = "run"

\* When every call has returned, a running Monitor has exactly one worker of its
\* revision, which the map knows, and a Monitor that does not run has none.
Supervised ==
    Quiet /\ ~stopping =>
        /\ state.status = "running" => map # None
        /\ {t \in Tokens : Alive(t) /\ worker[t].rev = state.revision} =
                IF state.status = "running" THEN {map.token} ELSE {}
=============================================================================
