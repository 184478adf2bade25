---------------------------- MODULE RunEvidence -----------------------------
(***************************************************************************)
(* The console's history pane as a tree that is walked with the keys, and   *)
(* the evidence it jumps to: for a command of an Agent's Run, or one of its  *)
(* steps, the output up to the prompt that completed it or that the daemon   *)
(* captured; for an incident of a Monitor, the range that it names           *)
(* (handle_run_history_key and the jump_* functions of tui.rs).  A command   *)
(* that looks for no prompt has no evidence: the jump shows where it starts. *)
(* Evidence that the output pane still holds is shown at once; other         *)
(* evidence is asked of the journal, page by page, by a worker that drops    *)
(* the request it works on for a newer one (spawn_exact_evidence_io), while  *)
(* the stream goes on.  One port, one Run, one Monitor with one matcher.  An *)
(* event is a write of the Run (tx) or of somebody else (human), received    *)
(* text, with or without a prompt in it, a break of the line, or what the    *)
(* daemon captured of a step (capture).                                     *)
(***************************************************************************)
EXTENDS Naturals, Sequences, SequencesExt, FiniteSets

CONSTANTS
    None,
    Logs,           \* the courses to be considered: events, and what a Monitor finds in them
    PageEvents,     \* the events of a page of the journal
    Retained,       \* how many events the output pane keeps
    Queue,          \* the places in the worker's channel of requests
    Answers,        \* the places in its channel of answers
    MaxQueries,     \* bound: requests
    MaxLag,         \* bound: events that the console is behind
    MaxFaults       \* bound: failures

VARIABLES
    log,            \* what will happen on the port, in order, and the Monitor's incidents
    head,           \* how much of it has happened
    written,        \* how much of it is in the journal
    holes,          \* what the journal has lost
    view,           \* the console: what it has seen, the selection and the screen
    requests,       \* to the worker
    active,         \* the request that it works on
    answers,        \* from the worker
    queries,        \* how many requests there were
    faults

vars == <<log, head, written, holes, view, requests, active, answers, queries, faults>>
port == <<log, head, written, holes>>
worker == <<requests, active, answers, queries>>

Live == None
At(i) == log.events[i]
Incidents == log.incidents
IsTx(i) == At(i).kind \in {"tx", "human"}
IsRx(i) == At(i).kind \in {"prompt", "text"}

\* The whole selection is gone, but not which Run or Monitor was selected last.
Collapsed(v) ==
    [v EXCEPT !.cmd = None, !.exCmd = None, !.step = None,
              !.mat = FALSE, !.inc = None]

Init ==
    /\ log \in Logs
    /\ head = 0 /\ written = 0 /\ holes = {}
    /\ view = [seen |-> 0, held |-> {}, from |-> 1, shown |-> TRUE,
               monitor |-> IF Incidents = <<>> THEN "absent" ELSE "running", known |-> 0,
               focus |-> FALSE, on |-> "run", cmd |-> None, exCmd |-> None, step |-> None,
               mat |-> FALSE, inc |-> None, stopped |-> FALSE, pending |-> None, screen |-> Live]
    /\ requests = <<>> /\ active = None /\ answers = <<>> /\ queries = 0 /\ faults = 0

-----------------------------------------------------------------------------
(* The port, the journal and the stream *)

Happens ==
    /\ head < Len(log.events) /\ head < view.seen + MaxLag /\ head' = head + 1
    /\ UNCHANGED <<log, written, holes, view, worker, faults>>

JournalWrites ==
    /\ written < head /\ written' = written + 1
    /\ \/ UNCHANGED <<holes, faults>>
       \/ faults < MaxFaults /\ faults' = faults + 1 /\ holes' = holes \cup {written'}
    /\ UNCHANGED <<log, head, view, worker>>

\* observe_run_history: a new command of the Agent takes the selection.
Observed(v, i) ==
    LET new == At(i).kind = "tx" /\ v.shown
               /\ \A j \in 1..(i - 1) : At(j).kind = "tx" => At(j).cmd # At(i).cmd
    IN  IF new THEN [Collapsed(v) EXCEPT !.seen = i, !.on = "run"] ELSE [v EXCEPT !.seen = i]

\* The output pane holds the newest events.
Retain(v) ==
    LET held == v.held \cup {v.seen} IN
    [v EXCEPT !.held = {i \in held : Cardinality({j \in held : j > i}) < Retained}]

TakeEvent ==
    /\ view.seen < head /\ view' = Retain(Observed(view, view.seen + 1))
    /\ UNCHANGED <<port, worker, faults>>

\* The console was too slow; what it holds is contiguous only from here on.
StreamSkips ==
    /\ view.seen < head /\ faults < MaxFaults /\ faults' = faults + 1
    /\ view' = [view EXCEPT !.seen = head, !.from = head + 1]
    /\ UNCHANGED <<port, worker>>

\* The Run is cleared from the panel (forget_run_selection).
RunCleared ==
    /\ view.shown
    /\ view' = [view EXCEPT !.shown = FALSE, !.cmd = None, !.exCmd = None,
                            !.step = IF view.exCmd # None THEN None ELSE @]
    /\ UNCHANGED <<port, worker, faults>>

\* refresh_monitor_history and handle_monitor_io_event: the incidents that the Monitor
\* has found in the journal; a Monitor that has stopped leaves the pane unless stopped
\* ones are shown.
Found == Cardinality({n \in DOMAIN Incidents : Incidents[n].last <= written})

MonitorSnapshot ==
    /\ view.monitor # "absent"
    /\ \E status \in {"running", "stopped"} :
          /\ status = "running" => view.monitor = "running"
          /\ status # view.monitor \/ Found # view.known
          /\ LET v == [view EXCEPT !.monitor = status, !.known = Found] IN
             view' = IF v.on = "monitor" /\ status = "stopped" /\ ~v.stopped
                     THEN [v EXCEPT !.on = "run", !.mat = FALSE, !.inc = None] ELSE v
    /\ UNCHANGED <<port, worker, faults>>

-----------------------------------------------------------------------------
(* What a command's evidence is *)

\* The commands and steps that the panel has.
TxOf(seen, cmd, step) ==
    {i \in 1..seen : At(i).kind = "tx" /\ At(i).cmd = cmd /\ step \in {None, At(i).step}}
CommandsOf(v) == IF v.shown THEN {At(i).cmd : i \in {j \in 1..v.seen : At(j).kind = "tx"}} ELSE {}
StepsOf(v, cmd) == {At(i).step : i \in TxOf(v.seen, cmd, None)}

Least(S) == CHOOSE i \in S : \A j \in S : i <= j
Most(S) == CHOOSE i \in S : \A j \in S : j <= i
Larger(a, b) == IF a > b THEN a ELSE b

\* What the daemon said of the steps' output itself, when it has said it of all of them.
Captures(v, cmd, steps) ==
    {i \in 1..v.seen : At(i).kind = "capture" /\ At(i).cmd = cmd /\ At(i).step \in steps}
Authoritative(v, cmd, steps) ==
    LET captures == Captures(v, cmd, steps) IN
    IF {At(i).step : i \in captures} # steps THEN None
    ELSE [from |-> Least({At(i).from : i \in captures}),
          through |-> Most({At(i).through : i \in captures})]

\* command_capture_matchers: whether the step, the last one of a command, looks for a
\* prompt.
Matches(v, cmd, step) ==
    \E i \in TxOf(v.seen, cmd, IF step = None THEN Most(StepsOf(v, cmd)) ELSE step) : At(i).match

\* command_evidence_target: from the first TX on, as far as what the daemon said of its
\* output, or as the next step or command, or as the console has seen.
CommandTarget(v, cmd, step, tx) ==
    LET exact == Authoritative(v, cmd, IF step = None THEN StepsOf(v, cmd) ELSE {step})
        nextStep == IF step = None THEN {} ELSE TxOf(v.seen, cmd, step + 1)
        later == {i \in 1..v.seen : At(i).kind = "tx" /\ At(i).cmd # cmd /\ i > Least(tx)}
        next == IF nextStep # {} THEN Least(nextStep) - 1
                ELSE IF later # {} THEN Least(later) - 1 ELSE v.seen
    IN  [kind |-> "command", cmd |-> cmd, step |-> step, first |-> Least(tx),
         wrote |-> Most(tx), exact |-> exact, match |-> Matches(v, cmd, step),
         end |-> Larger(Most(tx), IF exact = None THEN next ELSE exact.through)]

CommandEvidenceTarget(v, cmd, step) ==
    LET s == IF step \in StepsOf(v, cmd) THEN step ELSE None IN
    IF cmd \notin CommandsOf(v) THEN None
    ELSE CommandTarget(v, cmd, s, TxOf(v.seen, cmd, s))

IncidentTarget(n) ==
    [kind |-> "incident", inc |-> n, first |-> Incidents[n].first, end |-> Incidents[n].last]

\* An event after the command's first that is not part of it: a write of somebody else,
\* or a break of the line.
Blocks(t, i) ==
    /\ i > t.first
    /\ \/ At(i).kind \in {"break", "human"}
       \/ At(i).kind = "tx" /\ ~(At(i).cmd = t.cmd /\ t.step \in {None, At(i).step})

\* The received text among `have` that may be part of the evidence.
RxOf(t, have) ==
    {i \in have : /\ IsRx(i)
                  /\ IF t.kind = "command" /\ t.exact # None
                     THEN t.exact.from <= i /\ i <= t.exact.through
                     ELSE t.first <= i /\ i <= t.end}

\* command_capture_for_target: the last text of what the daemon captured, or the first
\* prompt after the command's last write, unless the line broke before it; None if there
\* is none.  While no text has come since the last write, earlier prompts count.
CompletedAt(t, have) ==
    LET rx == RxOf(t, have)
        since == {i \in rx : i >= t.wrote}
        prompts == {i \in IF since = {} THEN rx ELSE since : At(i).kind = "prompt"}
    IN  IF t.exact # None THEN IF rx = {} THEN None ELSE Most(rx)
        ELSE IF prompts = {} THEN None
        ELSE IF \E i \in have : t.first < i /\ i <= Least(prompts) /\ At(i).kind = "break" THEN None
        ELSE Least(prompts)

\* exact_evidence_is_complete: nothing is missing from the first event to the last.
Contiguous(t, b, have) == t.first..b \subseteq have

\* local_command_evidence_is_complete; local_incident_entry_range, where a write is not
\* among the lines of the output pane and so breaks the range.
LocalEnd(v, t) ==
    IF t.kind = "incident"
    THEN IF Contiguous(t, t.end, {i \in v.held : ~IsTx(i)}) THEN t.end ELSE None
    ELSE LET b == CompletedAt(t, v.held) IN
         IF t.first < v.from \/ b = None THEN None
         ELSE IF b > t.end \/ ~Contiguous(t, b, v.held) \/ \E i \in t.first..b : Blocks(t, i) THEN None
         ELSE b

\* incident_evidence_is_complete, command_evidence_end_seq
JournalEnd(t, have) ==
    LET whole(b) == IF Contiguous(t, b, have) /\ Most(have) = b THEN b ELSE None IN
    IF t.kind = "incident" THEN whole(t.end)
    ELSE IF t.exact # None THEN whole(t.exact.through)
    ELSE CompletedAt(t, {i \in have : ~\E j \in have : j <= i /\ Blocks(t, j)})

\* execute_exact_evidence_query: page after page of what the journal holds, until what
\* was read completes the evidence.
QueryResult(t) ==
    LET have == {i \in t.first..t.end : i <= written /\ i \notin holes}
        read(n) == {i \in have : Cardinality({j \in have : j <= i}) <= n * PageEvents}
        enough == {n \in 1..Cardinality(have) : JournalEnd(t, read(n)) # None}
        end == JournalEnd(t, read(Least(enough)))
    IN  IF enough = {} THEN [ok |-> FALSE, why |-> IF \E i \in holes : i \in t.first..t.end
                                                  THEN "gap" ELSE "incomplete"]
        ELSE IF ~Contiguous(t, end, have) THEN [ok |-> FALSE, why |-> "gap"]
        ELSE [ok |-> TRUE, end |-> end, events |-> {i \in have : i <= end}]

-----------------------------------------------------------------------------
(* Jumps *)

\* What is marked as the evidence on the screen, of the events `have`.
Shown(v, t, b, have) ==
    [v EXCEPT !.pending = None,
              !.screen = [target |-> t, end |-> b, rows |-> {i \in RxOf(t, have) : i <= b}]]

\* The place where a command starts, with nothing marked.
Overlaid(v, t) == [v EXCEPT !.pending = None, !.screen = [overlay |-> t.first]]

NoRequest(v) == view' = v /\ UNCHANGED <<requests, queries>>

\* jump_output_to_run_command, jump_output_to_monitor_incident, query_exact_evidence
Jump(v, t) ==
    IF t = None THEN NoRequest(v)
    ELSE IF t.kind = "command" /\ ~t.match THEN NoRequest(Overlaid(v, t))
    ELSE IF LocalEnd(v, t) # None THEN NoRequest(Shown(v, t, LocalEnd(v, t), v.held))
    ELSE IF Len(requests) = Queue THEN NoRequest([v EXCEPT !.pending = None, !.screen = Live])
    ELSE /\ queries < MaxQueries /\ queries' = queries + 1
         /\ requests' = Append(requests, [id |-> queries', target |-> t])
         /\ view' = [v EXCEPT !.pending = [id |-> queries', target |-> t], !.screen = Live]

Target(v) ==
    IF v.inc # None THEN IncidentTarget(v.inc)
    ELSE IF v.cmd = None THEN None ELSE CommandEvidenceTarget(v, v.cmd, v.step)

\* Up and Down between numbers, at the ends they stay.
Neighbours(n, S) == {Most({i \in S : i < n} \cup {Least(S)}), Least({i \in S : i > n} \cup {Most(S)})}

\* The keys on an incident, on the matcher, on a step, on a command, and at the top.
IncidentKey(v) ==
    \/ \E n \in Neighbours(v.inc, 1..v.known) : Jump([v EXCEPT !.inc = n], IncidentTarget(n))
    \/ Jump(v, IncidentTarget(v.inc))
    \/ NoRequest([v EXCEPT !.inc = None])

MatcherKey(v) ==
    \/ v.known > 0 /\ Jump([v EXCEPT !.inc = v.known], IncidentTarget(v.known))
    \/ NoRequest([v EXCEPT !.mat = FALSE])

StepKey(v) ==
    LET steps == IF v.cmd \in CommandsOf(v) THEN StepsOf(v, v.cmd) ELSE {} IN
    \/ steps # {} /\ \E s \in Neighbours(v.step, steps) :
          LET w == [v EXCEPT !.step = s] IN Jump(w, Target(w))
    \/ Jump(v, Target(v))
    \/ NoRequest([v EXCEPT !.step = None, !.exCmd = None])

CommandKey(v) ==
    \/ \E c \in Neighbours(v.cmd, CommandsOf(v)) :
          LET w == [v EXCEPT !.cmd = c, !.exCmd = None, !.step = None] IN Jump(w, Target(w))
    \/ LET w == [v EXCEPT !.exCmd = v.cmd, !.step = Least(StepsOf(v, v.cmd))] IN Jump(w, Target(w))
    \/ NoRequest([v EXCEPT !.cmd = None, !.exCmd = None, !.step = None])

\* The Run and, while it runs or stopped ones are shown, the Monitor.
Items(v) == (IF v.shown THEN {"run"} ELSE {})
            \cup (IF v.monitor = "running" \/ (v.monitor = "stopped" /\ v.stopped)
                    THEN {"monitor"} ELSE {})
Selected(v) == IF v.on \in Items(v) \/ Items(v) = {} THEN v.on ELSE CHOOSE x \in Items(v) : TRUE

TopKey(v) ==
    /\ Items(v) # {}
    /\ \/ \E x \in Items(v) : NoRequest([Collapsed(v) EXCEPT !.on = x])
       \/ /\ Selected(v) = "run"
          /\ LET w == [v EXCEPT !.on = "run", !.exCmd = None, !.step = None,
                                !.cmd = IF CommandsOf(v) = {} THEN None ELSE Least(CommandsOf(v))]
             IN  Jump(w, Target(w))
       \/ /\ Selected(v) = "monitor"
          /\ NoRequest([v EXCEPT !.on = "monitor", !.mat = TRUE])

HandleRunHistoryKey ==
    /\ view.focus
    /\ CASE view.on = "monitor" /\ view.mat /\ view.inc # None -> IncidentKey(view)
         [] view.on = "monitor" /\ view.mat -> MatcherKey(view)
         [] view.step # None -> StepKey(view)
         [] view.cmd \in CommandsOf(view) -> CommandKey(view)
         [] OTHER -> TopKey(view)
    /\ UNCHANGED <<port, active, answers, faults>>

\* F6 shows or hides Monitors that have stopped.
ToggleStopped ==
    /\ view.focus /\ view.monitor # "absent"
    /\ LET v == [view EXCEPT !.stopped = ~@] IN
       view' = IF ~v.stopped /\ v.on = "monitor" /\ v.monitor # "running"
               THEN [v EXCEPT !.on = "run", !.mat = FALSE, !.inc = None] ELSE v
    /\ UNCHANGED <<port, worker, faults>>

\* toggle_run_history_panel, leave_run_history
FocusPane == ~view.focus /\ view' = [view EXCEPT !.focus = TRUE] /\ UNCHANGED <<port, worker, faults>>
LeaveRunHistory ==
    /\ view.focus /\ view' = [Collapsed(view) EXCEPT !.focus = FALSE, !.pending = None]
    /\ UNCHANGED <<port, worker, faults>>

\* Scrolling by hand gives up the jump, and goes back to the tail in the end.
ManualScroll ==
    /\ view.pending # None \/ view.screen # Live
    /\ view' = [view EXCEPT !.pending = None, !.screen = Live]
    /\ UNCHANGED <<port, worker, faults>>

-----------------------------------------------------------------------------
(* The worker and its answers *)

WorkerTakes ==
    /\ requests # <<>> /\ active' = requests[1] /\ requests' = Tail(requests)
    /\ UNCHANGED <<port, view, answers, queries, faults>>

WorkerAnswers ==
    /\ active # None /\ Len(answers) < Answers /\ active' = None
    /\ \/ answers' = Append(answers, [req |-> active, result |-> QueryResult(active.target)])
          /\ UNCHANGED faults
       \/ /\ faults < MaxFaults /\ faults' = faults + 1
          /\ answers' = Append(answers, [req |-> active, result |-> [ok |-> FALSE, why |-> "failed"]])
    /\ UNCHANGED <<port, view, requests, queries>>

\* A target names the same command with the same bytes as now, apart from its end.
SameSelection(t, u) == u # None /\ [t EXCEPT !.end = 0] = [u EXCEPT !.end = 0]

\* An answer that came too early for a command that goes on: look again at what is held.
AnswerIncomplete(v, now) ==
    IF CompletedAt(now, v.held) # None THEN Jump(v, now) ELSE NoRequest([v EXCEPT !.screen = Live])

\* incident_evidence_snapshot, command_evidence_snapshot: there must be text to be marked.
Snapshot(v, t, result) ==
    LET b == IF t.kind = "incident" THEN result.end ELSE CompletedAt(t, result.events) IN
    IF RxOf(t, result.events) = {} \/ b = None THEN [v EXCEPT !.screen = Live]
    ELSE Shown(v, t, b, result.events)

HandleExactEvidence ==
    /\ answers # <<>> /\ answers' = Tail(answers)
    /\ LET a == answers[1]
           t == a.req.target
           now == IF t.kind = "command" THEN CommandEvidenceTarget(view, t.cmd, t.step) ELSE None
           still == view.focus /\ (IF t.kind = "command" THEN SameSelection(t, now)
                                   ELSE view.inc # None /\ view.inc = t.inc)
           v == [view EXCEPT !.pending = None]
       IN  IF view.pending # a.req THEN NoRequest(view)
           ELSE IF ~still THEN NoRequest(v)
           ELSE IF a.result.ok THEN NoRequest(Snapshot(v, t, a.result))
           ELSE IF a.result.why = "incomplete" /\ now # None /\ now.end > t.end
           THEN AnswerIncomplete(v, now)
           ELSE NoRequest([v EXCEPT !.screen = Live])
    /\ UNCHANGED <<port, active, faults>>

Next ==
    \/ Happens \/ JournalWrites \/ TakeEvent \/ StreamSkips \/ RunCleared \/ MonitorSnapshot
    \/ HandleRunHistoryKey \/ ToggleStopped \/ FocusPane \/ LeaveRunHistory \/ ManualScroll
    \/ WorkerTakes \/ WorkerAnswers \/ HandleExactEvidence

Spec == Init /\ [][Next]_vars

-----------------------------------------------------------------------------
(* The properties *)

TypeOK ==
    /\ 0 <= written /\ written <= head /\ view.seen <= head /\ head <= Len(log.events)
    /\ holes \subseteq 1..written /\ view.held \subseteq 1..view.seen
    /\ Cardinality(view.held) <= Retained
    /\ Len(requests) <= Queue /\ Len(answers) <= Answers
    /\ view.on \in {"run", "monitor"} /\ view.known <= Len(Incidents)

\* Evidence that is marked on the screen is all that the device sent in its range, whatever
\* the console has skipped, evicted or asked for too early, and whatever the journal has
\* lost.  For a command it ends with a prompt, with no other write and no break of the
\* line before it: the first one after the last write that the request knew of or,
\* because of the exception in command_capture_for_target, the first one since the
\* command began (local_command_evidence_is_complete, execute_exact_evidence_query).
EvidenceTrue ==
    view.screen # Live /\ "rows" \in DOMAIN view.screen =>
       LET t == view.screen.target
           b == view.screen.end
           promptless(from) == \A i \in from..(b - 1) : At(i).kind # "prompt"
       IN  /\ view.screen.rows # {} /\ view.screen.rows = {i \in RxOf(t, 1..head) : i <= b}
           /\ t.kind = "incident" => b = t.end
           /\ t.kind = "command" =>
                 IF t.exact # None THEN b = Most(RxOf(t, 1..head))
                 ELSE /\ At(b).kind = "prompt"
                      /\ \A i \in t.first..b : ~Blocks(t, i)
                      /\ promptless(IF b >= t.wrote THEN t.wrote ELSE t.first)

\* A jump that waits has its request with the worker or its answer on the way, so that it
\* ends although newer requests make the worker drop older ones.
PendingAnswered ==
    view.pending # None =>
       \/ \E i \in DOMAIN requests : requests[i] = view.pending
       \/ active = view.pending
       \/ \E i \in DOMAIN answers : answers[i].req = view.pending

\* The tree's selection hangs together: a step belongs to an opened command, an incident
\* to the Monitor's matcher and to those that the pane has, and outside the pane nothing
\* is open (leave_run_history, forget_run_selection, handle_monitor_io_event).
SelectionSound ==
    /\ view.step # None => view.exCmd # None /\ view.exCmd = view.cmd
    /\ view.inc # None => view.on = "monitor" /\ view.mat /\ view.inc <= view.known
    /\ ~view.focus => view.cmd = None /\ view.step = None /\ view.inc = None
                      /\ view.pending = None

=============================================================================
