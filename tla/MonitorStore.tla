---------------------------- MODULE MonitorStore ----------------------------
(***************************************************************************)
(* The catalog of Monitors (monitor.rs): creation under a client's request  *)
(* id, the bounds on Monitors and incidents and what is given up at them,   *)
(* acknowledgement, the pages of incidents that a client polls, and the     *)
(* file that the next daemon must accept.  The workers that produce the     *)
(* incidents are modelled in MonitorWorker; here an incident may be formed  *)
(* for any running Monitor.                                                 *)
(***************************************************************************)
EXTENDS Naturals, Sequences, SequencesExt, FiniteSets, FiniteSetsExt

CONSTANTS
    Nothing,        \* no Monitor, no cursor, no change that is being written
    MonitorIds,     \* request ids, which become the ids of the Monitors
    Specs,          \* what a Monitor is asked to look for
    MaxMonitors,    \* MAX_MONITORS
    MaxActive,      \* MAX_ACTIVE_MONITORS
    PerMonitor,     \* MAX_INCIDENTS_PER_MONITOR
    Total,          \* MAX_INCIDENTS_TOTAL
    Limit,          \* a client's page
    MaxTime         \* bound on the wall clock, which every change advances

ASSUME StoreAssumption ==
    /\ MaxMonitors \in Nat /\ MaxActive \in Nat /\ MaxTime \in Nat \ {0}
    /\ PerMonitor \in Nat \ {0} /\ Total \in Nat \ {0} /\ Limit \in Nat \ {0}
    /\ Nothing \notin MonitorIds /\ Nothing \notin Nat

VARIABLES
    state,      \* the Monitors in memory, with their incidents
    disk,       \* and in the file
    lock,       \* the state before the change that is being written, or Nothing
    time,       \* the wall clock
    updating,   \* an update between its reading of the Monitor and its change, or Nothing
    poller      \* a client that follows the incidents of one Monitor

storeVars == <<state, disk, lock, time, updating, poller>>

NoMonitors == [m \in {} |-> Nothing]
NoPoller == [on |-> Nothing, after |-> Nothing, at |-> 0, missed |-> FALSE, fooled |-> FALSE]
Running(s) == {m \in DOMAIN s : s[m].status = "running"}
Unacked(s, m) == Cardinality({i \in DOMAIN s[m].incidents : ~s[m].incidents[i].acked})
Put(s, m, r) == [k \in DOMAIN s \cup {m} |-> IF k = m THEN r ELSE s[k]]
Without(s, m) == [k \in DOMAIN s \ {m} |-> s[k]]
Incidents(s) == UNION {{<<m, i>> : i \in DOMAIN s[m].incidents} : m \in DOMAIN s}

-----------------------------------------------------------------------------
(* Writing *)

\* mutate_and_persist: one change at a time, in memory first.
Mutate(changed) ==
    /\ lock = Nothing /\ time < MaxTime
    /\ lock' = state /\ state' = changed /\ time' = time + 1
    /\ UNCHANGED disk

Persisted ==
    /\ lock # Nothing /\ lock' = Nothing /\ disk' = state
    /\ UNCHANGED <<state, time, updating, poller>>

\* A client that was shown the change holds a cursor beyond the count that is back, which
\* may be a stale one.
PersistFails ==
    /\ lock # Nothing /\ lock' = Nothing
    /\ state' = lock /\ disk' \in {disk, state}
    /\ poller' = [poller EXCEPT !.fooled = @ \/ (/\ poller.on \in DOMAIN lock /\ poller.after # Nothing
                                                 /\ \/ poller.after > lock[poller.on].count
                                                    \/ lock[poller.on].stale)]
    /\ UNCHANGED <<time, updating>>

-----------------------------------------------------------------------------
(* Bounds *)

\* Fully acknowledged Monitors go first, then those stopped longest ago.
Expendable(s) ==
    LET idle == DOMAIN s \ Running(s)
        settled == {m \in idle : Unacked(s, m) = 0}
        pool == IF settled # {} THEN settled ELSE idle
    IN {m \in pool : \A k \in pool : s[m].stopped <= s[k].stopped}

\* prune_monitor_capacity
PruneMonitors(s) ==
    IF Cardinality(DOMAIN s) < MaxMonitors \/ Expendable(s) = {} THEN s
    ELSE Without(s, CHOOSE m \in Expendable(s) : TRUE)

Dropped(s, m, i) == [s EXCEPT ![m].incidents = RemoveAt(@, i), ![m].gaps = @ + 1]

\* prune_one_monitor_incident
PruneOwn(s, m) == IF Len(s[m].incidents) < PerMonitor THEN s ELSE Dropped(s, m, 1)

\* prune_one_global_incident: the oldest of all, whosever it is.
PruneGlobal(s) ==
    IF Cardinality(Incidents(s)) < Total THEN s
    ELSE LET x == CHOOSE x \in Incidents(s) :
                    \A y \in Incidents(s) : s[x[1]].incidents[x[2]].created <= s[y[1]].incidents[y[2]].created
         IN Dropped(s, x[1], x[2])

\* recompute_unacked_counts, of every Monitor.
Recount(s) == [k \in DOMAIN s |-> [s[k] EXCEPT !.unacked = Unacked(s, k)]]

-----------------------------------------------------------------------------
(* The operations *)

\* create: a request id that is known creates nothing, whatever it asks for.  One that was
\* deleted is free again, also under a client that still follows the old Monitor.
Create(m, spec) ==
    /\ m \notin DOMAIN state /\ Cardinality(Running(state)) < MaxActive
    /\ Cardinality(DOMAIN PruneMonitors(state)) < MaxMonitors
    /\ Mutate(Put(PruneMonitors(state), m,
            [spec |-> spec, status |-> "running", revision |-> 1, count |-> 0, unacked |-> 0, gaps |-> 0,
             stopped |-> 0, stale |-> FALSE, incidents |-> <<>>]))
    /\ UNCHANGED updating
    /\ poller' = [poller EXCEPT !.fooled = @ \/ poller.on = m]

\* What a client sees of a Monitor (get_view): the counts, not the incidents.
View(r) == [revision |-> r.revision, count |-> r.count, unacked |-> r.unacked, gaps |-> r.gaps]

\* update copies the Monitor without the mutation lock, and then waits for its worker.
BeginUpdate(m, spec) ==
    /\ updating = Nothing /\ m \in DOMAIN state
    /\ updating' = [on |-> m, spec |-> spec, view |-> View(state[m])]
    /\ UNCHANGED <<state, disk, lock, time, poller>>

\* Its change is refused unless the Monitor has the revision that was read, and room among
\* the active ones if it does not run now.
Welcome(u) ==
    /\ u.on \in DOMAIN state /\ state[u.on].revision = u.view.revision
    /\ state[u.on].status # "running" => Cardinality(Running(state)) < MaxActive

\* The copy, counts and all, takes the place of the Monitor: the incidents, prunings and
\* acknowledgements since it was made change no revision and are counted no more.
\* History: a record is stale once it has been given counts that were no longer its own.
Overwrites(r, view) == r.stale \/ r.count # view.count \/ r.unacked # view.unacked
Replaced(r, u) ==
    [r EXCEPT !.spec = u.spec, !.status = "running", !.revision = u.view.revision + 1, !.stopped = 0,
              !.count = u.view.count, !.unacked = u.view.unacked, !.gaps = u.view.gaps,
              !.stale = Overwrites(r, u.view)]

CommitUpdate ==
    /\ updating # Nothing /\ Welcome(updating) /\ updating' = Nothing
    /\ LET m == updating.on
       IN /\ Mutate([state EXCEPT ![m] = Replaced(@, updating)])
          /\ poller' = [poller EXCEPT !.fooled = @ \/ (poller.on = m /\ Overwrites(state[m], updating.view))]

RefuseUpdate ==
    /\ updating # Nothing /\ lock = Nothing /\ ~Welcome(updating)
    /\ updating' = Nothing
    /\ UNCHANGED <<state, disk, lock, time, poller>>

\* stop by a client, or the worker's own end.
EndMonitor(m, how) ==
    /\ m \in Running(state)
    /\ Mutate([state EXCEPT ![m].status = how, ![m].stopped = time,
                            ![m].revision = IF how = "stopped" THEN @ + 1 ELSE @])
    /\ UNCHANGED <<updating, poller>>

DeleteStopped(m) ==
    /\ m \in DOMAIN state \ Running(state)
    /\ Mutate(Without(state, m))
    /\ UNCHANGED <<updating, poller>>

NextSeq(s, m) == s[m].count + 1

RecordIncident(m) ==
    /\ m \in Running(state)
    /\ LET room == PruneGlobal(PruneOwn(state, m))
           seq == NextSeq(room, m)
       IN Mutate(Recount([room EXCEPT ![m].count = seq,
                            ![m].incidents = Append(@, [seq |-> seq, created |-> time, acked |-> FALSE])]))
    /\ UNCHANGED <<updating, poller>>

\* acknowledge_incident; the second time nothing changes.
Acknowledge(m, i) ==
    /\ Mutate(IF state[m].incidents[i].acked THEN state
              ELSE [state EXCEPT ![m].incidents[i].acked = TRUE,
                                 ![m].unacked = IF @ > 0 THEN @ - 1 ELSE 0])
    /\ UNCHANGED <<updating, poller>>

-----------------------------------------------------------------------------
(* incidents: the pages, read without the mutation lock *)

\* Mutant of RetentionGap: the first incident after the cursor is taken for granted.
RetentionGapLate(after, list, high) ==
    IF list = <<>> THEN after < high ELSE after + 1 < list[1].seq - 1

RetentionGap(after, list, high) ==
    IF list = <<>> THEN after < high ELSE after + 1 < list[1].seq

\* The Limit oldest of those that were asked for.
PageOf(newer) == {n \in newer : Cardinality({k \in newer : k < n}) < Limit}

\* A client begins with the newest incidents, up to a count that an update may have put back.
Follow(m) ==
    /\ m \in DOMAIN state /\ poller.on \in {Nothing, m} /\ poller.after = Nothing
    /\ poller' = [poller EXCEPT !.on = m, !.at = time, !.fooled = @ \/ state[m].stale,
                                !.after = IF state[m].count = 0 THEN Nothing ELSE state[m].count]
    /\ UNCHANGED <<state, disk, lock, time, updating>>

\* It goes on from the cursor that it was given.  It misses what lies before the next one
\* and is neither on the page nor announced as pruned, and what was formed since the last
\* page under a number that the cursor has passed.
Poll(m, acked) ==
    /\ m \in DOMAIN state /\ poller.on = m /\ poller.after # Nothing
    /\ LET all == state[m].incidents
           newer == {all[i].seq : i \in {j \in DOMAIN all : (acked \/ ~all[j].acked) /\ all[j].seq > poller.after}}
           page == PageOf(newer)
           next == IF Cardinality(newer) > Limit THEN Max(page) ELSE Max({state[m].count, poller.after})
           Settled(n) == n \in page \/ \E j \in DOMAIN all : all[j].seq = n /\ all[j].acked
           Late(j) == ~all[j].acked /\ all[j].seq <= poller.after /\ all[j].created >= poller.at
       IN poller' = [poller EXCEPT
            !.after = next, !.at = time,
            !.missed = \/ @
                       \/ /\ ~RetentionGap(poller.after, all, state[m].count)
                          /\ \E n \in (poller.after + 1)..next : ~Settled(n)
                       \/ \E j \in DOMAIN all : Late(j)]
    /\ UNCHANGED <<state, disk, lock, time, updating>>

\* The client polls a Monitor that is gone and gives up.
PollGone ==
    /\ poller.on # Nothing /\ poller.on \notin DOMAIN state
    /\ poller' = NoPoller
    /\ UNCHANGED <<state, disk, lock, time, updating>>

\* load_state in the next daemon.
Restart ==
    /\ state' = disk /\ lock' = Nothing
    /\ updating' = Nothing /\ poller' = NoPoller
    /\ UNCHANGED <<disk, time>>

StoreInit ==
    /\ state = NoMonitors /\ disk = NoMonitors /\ lock = Nothing /\ time = 1
    /\ updating = Nothing /\ poller = NoPoller

StoreNext ==
    \/ Persisted \/ PersistFails
    \/ \E m \in MonitorIds, spec \in Specs : Create(m, spec) \/ BeginUpdate(m, spec)
    \/ CommitUpdate \/ RefuseUpdate
    \/ \E m \in MonitorIds : DeleteStopped(m) \/ RecordIncident(m)
    \/ \E m \in MonitorIds, how \in {"stopped", "completed", "failed"} : EndMonitor(m, how)
    \/ \E m \in DOMAIN state : \E i \in DOMAIN state[m].incidents : Acknowledge(m, i)
    \/ \E m \in MonitorIds : Follow(m) \/ \E acked \in BOOLEAN : Poll(m, acked)
    \/ PollGone \/ Restart

StoreSpec == StoreInit /\ [][StoreNext]_storeVars

-----------------------------------------------------------------------------
(* Properties *)

\* The Monitors in memory and in the file have their shape, and the incidents of each are
\* in the order in which they were formed, as are their numbers unless an update has put
\* an earlier count back.
StoreTypeOK ==
    /\ \A s \in {state, disk} :
        /\ DOMAIN s \subseteq MonitorIds
        /\ \A m \in DOMAIN s :
            /\ s[m].spec \in Specs /\ s[m].revision \in Nat \ {0} /\ s[m].gaps \in Nat
            /\ s[m].status \in {"running", "stopped", "completed", "failed"}
            /\ \A i \in DOMAIN s[m].incidents :
                /\ i > 1 => s[m].incidents[i].created > s[m].incidents[i - 1].created
                /\ ~s[m].stale => /\ s[m].incidents[i].seq \in 1..s[m].count
                                  /\ i > 1 => s[m].incidents[i].seq > s[m].incidents[i - 1].seq
    /\ time \in 1..MaxTime
    /\ updating = Nothing \/ (updating.on \in MonitorIds /\ updating.spec \in Specs)
    /\ poller.on \in MonitorIds \cup {Nothing}

\* Whatever was pruned, deleted, failed to be written or cut off by a crash, the file
\* keeps to the bounds that validate_loaded_state demands of it: a daemon never
\* refuses to start over the file it wrote.
FileIsAccepted ==
    /\ Cardinality(DOMAIN disk) <= MaxMonitors /\ Cardinality(Running(disk)) <= MaxActive
    /\ Cardinality(Incidents(disk)) <= Total
    /\ \A m \in DOMAIN disk : Len(disk[m].incidents) <= PerMonitor

\* The number of unacknowledged incidents that a Monitor shows is the number it has,
\* also after another Monitor's incident pushed one of its own out; only an update that
\* overlapped such a change may have put an earlier number back (`update` in monitor.rs
\* copies the Monitor before it takes the mutation lock).
UnackedExact == \A m \in DOMAIN state : ~state[m].stale => state[m].unacked = Unacked(state, m)

\* A client that polls with the cursors it is given sees every incident that nobody has
\* acknowledged, or is told that some are no longer kept.  Only three things may cost it
\* one: a change that it was shown before its write failed, a Monitor created anew under
\* its id, and an update that put back a count from before the last incidents.
PollerMissesNothing == poller.missed => poller.fooled

\* What the file holds would be accepted at the next start, whatever updates overlapped
\* (validate_loaded_state); and unless an update has put back what was counted before, the
\* count of unacknowledged incidents is exact, and a client that follows a Monitor's incidents
\* page by page receives each one or is told that retention has taken some
\* (incidents in monitor.rs).
StoreSound == StoreTypeOK /\ FileIsAccepted /\ UnackedExact /\ PollerMissesNothing
=============================================================================
