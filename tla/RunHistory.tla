----------------------------- MODULE RunHistory -----------------------------
(***************************************************************************)
(* The Agent's Runs in the console's side panel.  The daemon keeps an index *)
(* of Runs beside the journal (run_history.rs): the journal worker adds to   *)
(* it, a second thread rebuilds it from the retained files after a start     *)
(* (rebuild_run_index in journal.rs), and people hide Runs from it without   *)
(* touching the evidence.  The console joins three streams: live events, the *)
(* index fetched every few seconds, and the commands of one Run read back    *)
(* from the journal (agent_history_io.rs, tui.rs).  One port; the event with *)
(* sequence number i is log[i], and the first OldLen events are those of an  *)
(* earlier epoch, whose last Run ended with the daemon.                     *)
(***************************************************************************)
EXTENDS Naturals, Sequences, SequencesExt, FiniteSets

CONSTANTS
    None,
    Old,            \* the Run of the earlier epoch
    Order,          \* the Runs of this epoch, in the order they start
    PanelRuns,      \* MAX_RUN_HISTORY_PER_SLOT
    PerRun,         \* MAX_COMMANDS_PER_RUN
    OtherIds,       \* what another console clears: Runs, or all
    MaxTx,          \* bound: the TX events of this epoch
    MaxLag,         \* bound: events that the journal worker or the console is behind
    MaxReplies,     \* bound: replies on their way to the application
    MaxJobs,        \* bound: requests to the daemon
    MaxFaults       \* bound: failures

VARIABLES
    log,            \* the port's events
    written,        \* how many of them the journal worker has written and indexed
    index,          \* the records of Runs, one file each
    scan,           \* how far the rebuilding thread has read, None when it is through
    warning,        \* the index is known to be incomplete
    hidden,         \* visibility.json
    jobs,           \* the requests being served: the console's and another console's
    used,           \* how many requests there were
    replies,        \* from the console's history task to the application
    seen,           \* how many events the console has taken from its stream
    lost,           \* those it skipped, for it was too slow
    panel,          \* SlotView: Runs, hidden, archived, limited, loading, selection
    gone,           \* the Runs of which the console said that they are cleared
    faults

vars == <<log, written, index, scan, warning, hidden, jobs, used, replies, seen, lost, panel,
          gone, faults>>

daemon == <<log, written, index, scan, warning, hidden>>

Runs == {Old} \cup Range(Order)
Event(kind, run, op) == [kind |-> kind, run |-> run, op |-> op]
OldLog == <<Event("started", Old, None), Event("tx", Old, 1)>>
OldLen == Len(OldLog)
Epoch(i) == IF i <= OldLen THEN 0 ELSE 1

At(l, kind, r) == {i \in DOMAIN l : l[i].kind = kind /\ l[i].run = r}
Ended(r) == At(log, "ended", r) # {}
ActiveRun ==
    LET open == {r \in Range(Order) : At(log, "started", r) # {} /\ ~Ended(r)} IN
    IF open = {} THEN None ELSE CHOOSE r \in open : TRUE

NoPanel == [runs |-> [r \in Runs |-> None], hidden |-> {}, archived |-> [r \in Runs |-> None],
            limited |-> FALSE, loading |-> {}, selected |-> None, ask |-> None]

\* The index may know the old Run already, and then its file may be checkpointed.
Init ==
    /\ log = OldLog /\ written = OldLen /\ seen = OldLen /\ lost = {}
    /\ \E known, checkpointed \in BOOLEAN :
          /\ checkpointed => known
          /\ index = [r \in Runs |-> IF r = Old /\ known
                                     THEN [epoch |-> 0, through |-> 1, status |-> "active"] ELSE None]
          /\ scan = IF checkpointed THEN OldLen ELSE 0
    /\ warning = FALSE /\ hidden = {}
    /\ jobs = [console |-> None, other |-> None] /\ used = 0 /\ replies = <<>>
    /\ panel = NoPanel /\ gone = {} /\ faults = 0

-----------------------------------------------------------------------------
(* The daemon: the Runs themselves *)

Publish(e) ==
    /\ Len(log) < written + MaxLag /\ Len(log) < seen + MaxLag
    /\ log' = Append(log, e)
    /\ UNCHANGED <<written, index, scan, warning, hidden, jobs, used, replies, seen, lost, panel,
                   gone, faults>>

RunStarts ==
    /\ ActiveRun = None
    /\ \E n \in DOMAIN Order :
          /\ \A m \in DOMAIN Order : m < n <=> At(log, "started", Order[m]) # {}
          /\ Publish(Event("started", Order[n], None))

\* A described command of the Agent: of a new operation, or the next part of the last.
RunWrites ==
    LET txs == {i \in DOMAIN log : log[i].kind = "tx"}
        mine == At(log, "tx", ActiveRun)
        last == CHOOSE i \in txs : \A j \in txs : j <= i
    IN  /\ ActiveRun # None
        /\ Cardinality(txs) < 1 + MaxTx
        /\ \/ Publish(Event("tx", ActiveRun, log[last].op + 1))
           \/ mine # {} /\ Publish(Event("tx", ActiveRun, log[last].op))

RunEnds == ActiveRun # None /\ Publish(Event("ended", ActiveRun, None))

-----------------------------------------------------------------------------
(* The index *)

Status(kind) == IF kind = "started" THEN "active" ELSE "ended"

\* A record that is as new as the event stays.
Stale(old, i) == old # None /\ old.epoch = Epoch(i) /\ old.through >= i

\* RunHistory::record of event i
Record(idx, i) ==
    LET e == log[i]
        old == idx[e.run]
    IN  IF e.kind = "tx" \/ Stale(old, i) THEN idx
        ELSE [idx EXCEPT ![e.run] = [epoch |-> Epoch(i), through |-> i, status |-> Status(e.kind)]]

\* The journal worker writes and indexes the next event; an index that cannot be written
\* leaves a warning.
WriterWrites ==
    /\ written < Len(log)
    /\ written' = written + 1
    /\ \/ index' = Record(index, written + 1) /\ UNCHANGED <<warning, faults>>
       \/ /\ faults < MaxFaults /\ faults' = faults + 1 /\ log[written + 1].kind # "tx"
          /\ warning' = TRUE /\ UNCHANGED index
    /\ UNCHANGED <<log, scan, hidden, jobs, used, replies, seen, lost, panel, gone>>

\* rebuild_run_index: record after record of what is on disk; the file in use is read as
\* far as it goes.  A damaged file ends it with a warning.
RebuildReads ==
    /\ scan # None /\ scan < written
    /\ scan' = scan + 1 /\ index' = Record(index, scan + 1)
    /\ UNCHANGED <<log, written, warning, hidden, jobs, used, replies, seen, lost, panel, gone,
                   faults>>

RebuildEnds ==
    /\ scan # None
    /\ scan' = None
    /\ \/ scan >= OldLen /\ UNCHANGED <<warning, faults>>
       \/ faults < MaxFaults /\ faults' = faults + 1 /\ warning' = TRUE
    /\ UNCHANGED <<log, written, index, hidden, jobs, used, replies, seen, lost, panel, gone>>

\* RunHistory::list: a Run of an earlier epoch is over, whatever its record says.
ListStatus(rec) == IF rec.epoch # 1 THEN "ended" ELSE rec.status
List == [r \in Runs |-> IF index[r] = None THEN None
                        ELSE [index[r] EXCEPT !.status = ListStatus(index[r])]]

-----------------------------------------------------------------------------
(* Requests *)

\* The console's history task serves one command or tick after the other; another
\* console clears what it likes.
RequestFree(who) == jobs[who] = None /\ used < MaxJobs

Begin(who, job) == jobs' = [jobs EXCEPT ![who] = job] /\ used' = used + 1

Tick ==
    /\ RequestFree("console") /\ Begin("console", [kind |-> "snapshot", at |-> "visibility"])
    /\ UNCHANGED <<daemon, replies, seen, lost, panel, gone, faults>>

\* clear_agent_history takes the active Run from the registry's snapshot first.
ClearJob(ids) == [kind |-> "clear", ids |-> ids, active |-> ActiveRun, at |-> "list"]

OtherClears ==
    /\ RequestFree("other")
    /\ \E ids \in OtherIds : Begin("other", ClearJob(ids))
    /\ UNCHANGED <<daemon, replies, seen, lost, panel, gone, faults>>

\* What `hide` would hide; None when it refuses: clearing all while the index is not
\* whole, an active Run, or a Run that is not archived.
Selection(job, list) ==
    IF job.ids = "all"
    THEN IF scan # None \/ warning THEN None
         ELSE {r \in Runs : list[r] # None /\ list[r].status # "active" /\ r # job.active}
    ELSE IF job.ids = job.active \/ list[job.ids] = None THEN None
         ELSE IF list[job.ids].status = "active" THEN None ELSE {job.ids}

Reply(who, event) ==
    replies' = IF who = "console" THEN Append(replies, event) ELSE replies

CanReply(who) == who = "console" => Len(replies) < MaxReplies

HideLists(who) ==
    LET job == jobs[who] IN
    /\ job # None /\ job.kind = "clear" /\ job.at = "list"
    /\ IF Selection(job, List) = None
       THEN /\ CanReply(who) /\ Reply(who, [kind |-> "failed"])
            /\ jobs' = [jobs EXCEPT ![who] = None]
       ELSE /\ jobs' = [jobs EXCEPT ![who] = [kind |-> "clear", at |-> "commit",
                                              runs |-> Selection(job, List)]]
            /\ UNCHANGED replies
    /\ UNCHANGED <<daemon, used, seen, lost, panel, gone, faults>>

\* The commit reads what others have hidden meanwhile and adds to it.
HideCommits(who) ==
    LET job == jobs[who] IN
    /\ job # None /\ job.kind = "clear" /\ job.at = "commit" /\ CanReply(who)
    /\ hidden' = hidden \cup job.runs
    /\ Reply(who, [kind |-> "cleared", hidden |-> hidden'])
    /\ jobs' = [jobs EXCEPT ![who] = None]
    /\ UNCHANGED <<log, written, index, scan, warning, used, seen, lost, panel, gone, faults>>

\* agent_history: what is hidden first, then the list.
SnapshotReads ==
    LET job == jobs.console IN
    /\ job # None /\ job.kind = "snapshot"
    /\ IF job.at = "visibility"
       THEN /\ jobs' = [jobs EXCEPT !.console = [kind |-> "snapshot", at |-> "list",
                                                 hidden |-> hidden]]
            /\ UNCHANGED replies
       ELSE /\ CanReply("console")
            /\ Reply("console",
                     [kind |-> "snapshot", hidden |-> job.hidden, partial |-> scan # None \/ warning,
                      runs |-> [r \in Runs |-> IF r \in job.hidden THEN None ELSE List[r]]])
            /\ jobs' = [jobs EXCEPT !.console = None]
    /\ UNCHANGED <<daemon, used, seen, lost, panel, gone, faults>>

\* load: the TX events of the Run that the journal holds, or fewer when a page was cut or
\* the journal has gaps, or a failure.
LoadReads ==
    LET job == jobs.console
        stored == {i \in At(log, "tx", job.run) : i <= written}
    IN  /\ job # None /\ job.kind = "load" /\ CanReply("console")
        /\ jobs' = [jobs EXCEPT !.console = None]
        /\ \/ /\ Reply("console", [kind |-> "loaded", run |-> job.run, limited |-> FALSE,
                                   events |-> SetToSortSeq(stored, <)])
              /\ UNCHANGED faults
           \/ /\ faults < MaxFaults /\ faults' = faults + 1
              /\ \/ Reply("console", [kind |-> "failed"])
                 \/ Reply("console", [kind |-> "loaded", run |-> job.run, limited |-> TRUE,
                                      events |-> <<>>])
        /\ UNCHANGED <<daemon, used, seen, lost, panel, gone>>

-----------------------------------------------------------------------------
(* The panel *)

Entry(status, start) == [status |-> status, start |-> start, commands |-> <<>>]

\* forget_run_selection
Forget(p, r) ==
    [p EXCEPT !.selected = IF @ = r THEN None ELSE @]

\* sort_and_trim_run_history: the Run that started first goes, those of an earlier epoch
\* before all others.
SortAndTrim(p) ==
    LET shown == {r \in Runs : p.runs[r] # None}
        oldest == CHOOSE r \in shown : \A q \in shown : p.runs[r].start <= p.runs[q].start
    IN  IF Cardinality(shown) <= PanelRuns THEN p
        ELSE Forget([p EXCEPT !.runs[oldest] = None, !.limited = TRUE], oldest)

\* The panel may take this Run.
Allowed(p, r) == r \notin p.hidden

UpsertRun(p, r, status, start) ==
    IF ~Allowed(p, r) THEN p
    ELSE IF p.runs[r] # None THEN SortAndTrim([p EXCEPT !.runs[r].status = status])
    ELSE SortAndTrim([p EXCEPT !.runs[r] = Entry(status, start)])

\* ensure_run_for_event
EnsureRun(p, r, i) ==
    IF ~Allowed(p, r) \/ p.runs[r] # None THEN p
    ELSE SortAndTrim([p EXCEPT !.runs[r] = Entry("active", i)])

\* RunCommandRecord: an operation with the events that its bytes come from.
Command(i) == [op |-> log[i].op, first |-> i, last |-> i, from |-> <<i>>]

\* append_command: to its operation, or as a new command, the first one going when there
\* are too many.
AppendCommand(commands, i, same) ==
    IF same # {}
    THEN LET n == CHOOSE n \in same : TRUE IN
         [commands EXCEPT ![n].first = IF i < @ THEN i ELSE @, ![n].last = IF i > @ THEN i ELSE @,
                          ![n].from = Append(@, i)]
    ELSE Append(IF Len(commands) = PerRun THEN Tail(commands) ELSE commands, Command(i))

SameOp(commands, i) == {n \in DOMAIN commands : commands[n].op = log[i].op}

Observed(p, r, i) ==
    LET commands == p.runs[r].commands
        new == SameOp(commands, i) = {}
        q == [p EXCEPT !.runs[r].commands = AppendCommand(commands, i, SameOp(commands, i)),
                       !.limited = @ \/ (new /\ Len(commands) = PerRun)]
    IN  IF new THEN [q EXCEPT !.selected = r] ELSE q

\* observe_run_history of event i
Observe(p, i) ==
    LET e == log[i] IN
    IF e.kind # "tx"
    THEN UpsertRun(p, e.run, Status(e.kind),
                   CHOOSE j \in At(log, "started", e.run) : TRUE)
    ELSE LET q == EnsureRun(p, e.run, i) IN
         IF q.runs[e.run] = None THEN q ELSE Observed(q, e.run, i)

TakeEvent ==
    /\ seen < Len(log)
    /\ seen' = seen + 1 /\ panel' = Observe(panel, seen + 1)
    /\ UNCHANGED <<daemon, jobs, used, replies, lost, gone, faults>>

\* The console was too slow for its stream: a Gap, and a snapshot that names the active
\* Run.
StreamSkips ==
    /\ seen < Len(log) /\ faults < MaxFaults /\ faults' = faults + 1
    /\ lost' = lost \cup ((seen + 1)..Len(log)) /\ seen' = Len(log)
    /\ LET p == [panel EXCEPT !.limited = TRUE] IN
       panel' = IF ActiveRun = None THEN p
                ELSE UpsertRun(p, ActiveRun, "active", CHOOSE j \in At(log, "started", ActiveRun) : TRUE)
    /\ UNCHANGED <<daemon, jobs, used, replies, gone>>

\* apply_run_visibility
ApplyVisibility(p, hid) ==
    [p EXCEPT !.hidden = hid, !.selected = IF @ \in hid THEN None ELSE @,
              !.runs = [r \in Runs |-> IF r \in hid THEN None ELSE p.runs[r]]]

\* The live stream may be ahead of a snapshot: only a Run that the panel does not have,
\* or has as active although it is over, is taken from it.
Supplies(p, r, rec) ==
    rec # None
    /\ (p.runs[r] = None \/ (rec.status # "active" /\ p.runs[r].status = "active"))

FromArchive(p, list) ==
    LET start(r) == CHOOSE j \in At(log, "started", r) : TRUE
        order == SetToSortSeq({r \in Runs : list[r] # None}, LAMBDA a, b : start(a) < start(b))
        Take(q, r) == IF Supplies(q, r, list[r]) THEN UpsertRun(q, r, list[r].status, start(r)) ELSE q
    IN  FoldLeft(Take, [p EXCEPT !.archived = list], order)

\* Only events that no step covers are added.
Covered(commands, i) == \E n \in DOMAIN commands : commands[n].first <= i /\ i <= commands[n].last

LoadedCommands(commands, events) ==
    FoldLeft(LAMBDA c, i : IF Covered(c, i) THEN c ELSE AppendCommand(c, i, SameOp(c, i)),
             commands, events)

Loaded(p, e) ==
    LET q == [p EXCEPT !.loading = @ \ {e.run}] IN
    IF ~Allowed(q, e.run) THEN q
    ELSE [q EXCEPT !.limited = @ \/ e.limited,
                   !.runs[e.run] = IF @ = None THEN None
                                   ELSE [@ EXCEPT !.commands = LoadedCommands(@, e.events)]]

HandleAgentHistoryEvent ==
    /\ replies # <<>> /\ replies' = Tail(replies)
    /\ LET e == replies[1] IN
       /\ panel' =
             CASE e.kind = "snapshot" ->
                     FromArchive([ApplyVisibility(panel, e.hidden) EXCEPT !.limited = @ \/ e.partial],
                                 e.runs)
               [] e.kind = "cleared" -> ApplyVisibility(panel, e.hidden)
               [] e.kind = "loaded" -> Loaded(panel, e)
               [] OTHER -> [panel EXCEPT !.loading = {}]
       /\ gone' = IF e.kind = "cleared" THEN gone \cup e.hidden ELSE gone
    /\ UNCHANGED <<daemon, jobs, used, seen, lost, faults>>

\* selected_run_id: the Run that was selected, or the last one shown.
Selected(p) ==
    LET shown == {r \in Runs : p.runs[r] # None} IN
    IF p.selected \in shown THEN p.selected
    ELSE IF shown = {} THEN None
    ELSE CHOOSE r \in shown : \A q \in shown : p.runs[q].start <= p.runs[r].start

\* The key that opens the selected Run: its commands are fetched if the panel has none and
\* the archive knows the Run (how the selection moves is in module RunEvidence).
ExpandRun ==
    LET r == Selected(panel)
    IN  /\ r # None
        /\ r \notin panel.loading /\ panel.runs[r].commands = <<>> /\ panel.archived[r] # None
        /\ RequestFree("console") /\ Begin("console", [kind |-> "load", run |-> r])
        /\ panel' = [panel EXCEPT !.ask = None, !.loading = @ \cup {r}]
        /\ UNCHANGED <<daemon, replies, seen, lost, gone, faults>>

\* clear_selected_run: Delete, or Ctrl+Delete for all, asks first; the second one with
\* the same selection sends the request.
ClearSelected(id) ==
    /\ IF id # "all" /\ panel.runs[id].status = "active"
       THEN panel' = [panel EXCEPT !.ask = None] /\ UNCHANGED <<jobs, used>>
       ELSE IF panel.ask = id
       THEN /\ panel' = [panel EXCEPT !.ask = None]
            /\ IF RequestFree("console") THEN Begin("console", ClearJob(id)) ELSE UNCHANGED <<jobs, used>>
       ELSE panel' = [panel EXCEPT !.ask = id] /\ UNCHANGED <<jobs, used>>
    /\ UNCHANGED <<daemon, replies, seen, lost, gone, faults>>

DeleteKey == Selected(panel) # None /\ ClearSelected(Selected(panel))
DeleteAllKey == ClearSelected("all")

Next ==
    \/ RunStarts \/ RunWrites \/ RunEnds \/ WriterWrites \/ RebuildReads \/ RebuildEnds
    \/ Tick \/ OtherClears \/ SnapshotReads \/ LoadReads
    \/ \E who \in DOMAIN jobs : HideLists(who) \/ HideCommits(who)
    \/ TakeEvent \/ StreamSkips \/ HandleAgentHistoryEvent
    \/ ExpandRun \/ DeleteKey \/ DeleteAllKey

Spec == Init /\ [][Next]_vars

-----------------------------------------------------------------------------
(* The properties *)

TypeOK ==
    /\ written \in OldLen..Len(log) /\ seen \in OldLen..Len(log)
    /\ hidden \subseteq Runs /\ panel.hidden \subseteq Runs /\ panel.loading \subseteq Runs
    /\ Len(replies) <= MaxReplies
    /\ Cardinality({r \in Runs : panel.runs[r] # None}) <= PanelRuns

\* While the index gives no warning, a Run whose end is written is over in the index,
\* although the rebuilding thread reads older events of the same Run behind the journal
\* worker (record).
IndexTruthful ==
    ~warning => \A r \in Runs : (\E i \in At(log, "ended", r) : i <= written)
                                   => index[r] # None /\ index[r].status = "ended"

\* Only a Run that is over is ever hidden, although Runs start and end between the steps
\* of a request (hide).
RunningKept == \A r \in hidden : r = Old \/ Ended(r)

\* A Run that the console said is cleared never comes back, from whichever stream
\* (apply_run_visibility, upsert_run, ensure_run_for_event).
ClearedStaysGone ==
    /\ gone \subseteq panel.hidden
    /\ \A r \in panel.hidden : panel.runs[r] = None /\ panel.selected # r

\* The panel shows a Run as over only if it is, and as active only if its end has not
\* come on the stream, in whatever order events and older snapshots of the index arrive
\* (handle_agent_history_event).
StatusTrue ==
    \A r \in Runs : panel.runs[r] # None =>
       /\ panel.runs[r].status = "ended" => r = Old \/ Ended(r)
       /\ panel.runs[r].status = "active" =>
             \A i \in At(log, "ended", r) : i > seen \/ i \in lost

\* A panel that does not say that it is limited shows for a Run with commands as many of
\* its operations as it has room for, each once, however live events, gaps and loads
\* came together (append_command, observe_run_history).
CommandsWhole ==
    \A r \in Runs :
       LET commands == panel.runs[r].commands
           ops == {log[i].op : i \in {j \in At(log, "tx", r) : j <= seen}}
       IN  panel.runs[r] # None /\ commands # <<>> =>
              /\ \A m, n \in DOMAIN commands : m # n => commands[m].op # commands[n].op
              /\ panel.limited \/ Len(commands) >= PerRun \/ Len(commands) >= Cardinality(ops)

=============================================================================
