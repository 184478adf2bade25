# Verification of serial-platform

serial-platform lets several people, scripts and AI agents share physical
serial ports. One daemon (`seriald`) owns the ports; clients (`serialctl`, the
desktop application, the MCP server `serial-mcp`) talk to it over HTTP and
WebSocket. This directory holds TLA+ models of the daemon, of the MCP server
and of the terminal client, the TLC configurations that check them on small
instances, and TLAPS proofs of the core's properties for every value of the
constants. `PROJECT.json` maps the definitions to the source lines they model; a helper,
a set of values or an action of the environment whose lines lie within those of a listed
definition that uses it is not listed again.

## 1. Inventory

| Component | Source | State | Operations | Modelled in |
|---|---|---|---|---|
| Slot actor | `seriald/src/slot.rs` | port session and generation, lease, pending approval, Run, read gate, Trigger, macro, staged change | one request, port event, Trigger result, timer or maintenance tick per turn of `SlotActor::run` | `Slot`, abstractly `WriteAuthority` |
| Control lease | `control.rs` | current lease, next fence, generation | acquire, take over, transfer, renew, release, expire, change generation | `Slot` |
| Trigger job | `slot.rs` | owner, fence, generation, bound Run, write in flight, RX held back, pending end | start, arm, fire, result, stop, deadline, cancel | `Slot`, `RxPipeline` (matching and counting abstracted) |
| Operation cache | `slot.rs`, `api.rs` | results by request id, ids executed, command queue | look up, insert, evict, repeat | `Requests` |
| Ring, attach, acknowledgements | `ring.rs`, `slot.rs`, `api.rs` | recent events, cursors, trackers, logging health | number, push, replay, lag, acknowledge, time out | `Timeline` |
| Macro runtime | `slot/macro_runtime.rs` | the active macro, its waits, watchers, echo filter | start, write, cancel, finish, stop; the driver's effects | `Slot`, `MacroDriver` |
| Slot registry | `registry.rs` | active and retired maps, lifecycle of the mutation gate, actors | staged replacement, catalog replacement, commit, rollback, shutdown | `Configuration` |
| Configuration store, API transactions | `config.rs`, `api.rs` | file, copy in memory, revision | three kinds of transaction, compensation, restart | `Configuration` |
| Port workers | `slot.rs` (from `run_port_reader` on) | bounded queues, dropped-byte counter | read, coalesce, overflow, barrier, write | `RxPipeline` |
| Journal | `journal.rs` | open and sealed segments, gap ledger, usage | append, rotate, retention, recovery, query | `Journal` (writer), `JournalQuery` (readers) |
| Monitors | `monitor.rs` | monitor records, workers, incidents, matcher windows | create, update, match, acknowledge, poll, end, recover | `MonitorStore`, `MonitorWorker`, `MonitorMatcher` |
| Run and human history | `run_history.rs`, `human_history.rs` | bounded indexes | insert, evict, rebuild, hide, page | `RunHistory`, `LineHistory` |
| Macro catalog | `macros.rs` | file and map in memory | load, save under a revision, prepare a Run | `MacroCatalog` |
| Macro language | `serial-macro` | program, VM state | parse, compile, run in slices | `MacroSyntax`, `MacroCompiler`, `MacroVm`, `MacroScripts` |
| MCP server | `serial-mcp` | session, leases, Runs, cursors, captures, active requests | tool calls, renewal, capture, rendering, cancellation | `AgentSession`, `AgentTools`, `AgentCapture`, `AgentRender`, `McpServer` |
| serialctl, terminal UI | `serialctl` | connection, control, editor, queue of writes, panels, histories, screen | input, results and events, searches, paging | `Console`, `MacroPanel`, `RunEvidence`, `SessionSearch`, `TerminalText`, and the client's half of `LineHistory`, `RunHistory`, `JournalQuery` |
| serialctl, command line; desktop; daemon process; protocol types; setup; launcher | `serialctl`, `serial-desktop`, `seriald/src/main.rs`, `serial-protocol`, `serial-setup`, `serial-cli` | none of their own that outlives a request | presentation, validation, process I/O | not modelled (section 6) |

**How the parts interact.** A client's command reaches a Slot actor through a
bounded queue and is answered on a one-shot channel. The actor is a single
task: a turn is atomic, the order of turns is not fixed. It hands bytes to the
port's writer task; for an ordinary write it waits for the result within its
turn, for a Trigger's write it does not, and the result comes back as a later
turn. A macro's driver is a separate task that asks the actor for each write
and learns of lost authority from timeline events. Every event is numbered by
the actor, offered to the journal's writer thread, put into the ring and
broadcast; clients and Monitors follow the broadcast, fall back to the ring and
then to the journal. The registry drives actors through stage, commit and
rollback messages while an API transaction saves the file between the two.
`serial-mcp` and `serialctl` are clients like any other: what they know of a port
comes from snapshots, events and results that cross each other.

**What is hard.** Authority is held by several things at once (lease, Run,
approval, read gate, Trigger, macro, session) and ends in many ways; each way
has to end all of them. Answers get lost and requests are repeated; results and
events of the same fact come in either order; bounded queues, caches and
indexes forget; files are replaced, sealed and deleted under readers that hold
no lock; a daemon can die between any two file operations. Configuration
changes have three views (file, memory, actors) and can fail between any two
steps. The complete list, each at its line, is `hazards` in `PROJECT.json`.

**What makes each part correct.**

- Slot, lease, Trigger, macro: bytes reach the line only under the current
  fence, from one writer at a time, and never from an Agent that has not read
  the last Human command; no Run, approval, Trigger or macro outlives the lease
  it depends on; approvals and Triggers end.
- Requests: repeated requests write once; an answer never says wrongly that
  bytes were or were not written.
- Registry and configuration: after a transaction actors, memory and file
  agree, or the registry is degraded; a revision names one configuration; a
  transaction ends.
- Journal: a crash keeps a valid prefix, what was lost is reported as a gap, and
  a page read beside the writer accounts for every event up to where it says.
- Port workers: every byte read is delivered or counted as dropped, in order,
  and a Trigger sees only bytes that came after it was armed.
- Timeline: a client that follows misses nothing unannounced; the health shown
  is that of the newest known outcome.
- Monitors: a match the checkpoint has passed is in an incident, was in a
  cooldown, or lies in a gap that is shown; a running Monitor has one worker.
- Macro language: a program does what the script says; evidence is output, not
  echo.
- MCP server: an Agent acts only on a port whose last Human command it has read;
  no call is dropped while its effect is open; a Run is owned only with a lease.
- Console: what was typed is written once or its fate is told; what it shows of
  the past happened.

## 2. Modules

### The Slot and its line

`Slot` — one port's actor. The variables are the fields of `SlotActor` and
`ControlState` that decide authority (`lease`, `nextFence`, `pending`, `run`,
`ctx`, `trigger`, `macro`, `online`, `paused`, `staged`, `generation`...), plus
`line`, the last transmission handed to the writer. Every action is one turn.

- Request handlers begin with `expire_control` and `expire_pending_run_start`;
  the guard `Settled` says nothing is due, and dropping what is due is an action
  of its own (the maintenance tick does it too). Macro commands and the Trigger
  timer only call `expire_control`: `LeaseSettled`.
- Time is abstract: a lease is `ample`, too `short` to cover a physical write
  (`ensure_lease_covers_write`), or `due`.
- A request that is refused changes nothing and is not an action. A refusal
  that does change state is one: `RefuseRunStart`, `SendOwnedCommand` with
  `sent = FALSE` (the lease is granted before the write fails).
- A Trigger's fire is `BeginTriggerWrite` and `TriggerWriteResult`; whether it
  continues (fires left, start pattern seen) is a free choice.
- A macro has `halt`: `stop` when the actor itself refuses further writes,
  `evidence` when only the event stream says the lease is gone.
- Uuids of Runs are counters. `MaxFence`, `MaxGeneration`, `MaxRun` and
  `MaxRevision` bound the counters for TLC; they are guards of the actions that
  count, and the proofs hold for any values.

`WriteAuthority` — what a Slot promises about its line, in five variables:
who holds it (with a fence), the next fence, whether a Human command is unread,
whether a write is in flight, and the last transmission. It knows nothing of
Triggers, macros, sessions or configuration. `Slot!ImplementsAuthority` is the
refinement, with the mapping `Holder`, `Gate`, `Busy`.

`Requests` — how a client's request reaches the actor and is answered: the
WebSocket connection, the command queue, and the two caches of the actor, one of
results (`Entries` of them) and one of the bare ids of what was executed
(`History`). Connections are lost at any time and an unanswered request is
repeated under the same id with a new actor id. Who may write is `Slot`'s
business; here the holder of control is one variable that any step may hand over.

`RxPipeline` — one session of an open port, from the device's bytes to the
timeline: the reader task (`reader`), the writer task (`writer`, `job`, `reply`),
the bounded queue between them and the actor (`events`) and the actor's handling
of RX (`rx`: offset, published events, and the Trigger with what it holds back).
A byte is its place in the stream, so that offsets can be compared with it.
What the actor does with one event is an operator on `rx` (`HandleRxData`,
`HandleRxOverflow`, `HandleTriggerWriteResult`), used by the ordinary turn and by
the draining of a closed port. The actor's places are where it waits: for a
write's reply (`waiting`), a barrier (`arming`), the two tasks (`joining`).
Whether bytes match a pattern and when a Trigger fires is a free choice. This is
the tokio build; the Windows build has its own reader and writer threads. There
the barrier also drains the driver's buffer; here a byte that the driver holds
but the reader has not read can follow the marker, and `TriggerSeesNewOutput` is
about bytes that were read. Several events released together become one entry of
the published timeline.

`Timeline` — how an event becomes visible: numbered, offered to the journal, put
into the ring, published in the snapshot, broadcast. An acknowledgement may be
waited for, time out and come late, or be followed by one of a bounded number of
trackers. One client attaches, follows or pages through the ring, lags and resumes.

### Configuration and journal

`Configuration` — the transactions of `api.rs` over the registry, the file and
memory. An actor is reduced to the staging protocol of `Slot` (settings,
paused, pending change, alive). `link` stands for `enabled` and the resolved
transport, whose change reopens the port; `profile` for the resolved model
profile. Port changes and transport-profile changes are the same transaction
(`apply_replacement_with_source`); model-profile changes (`catalog`) stage only
active actors whose profile changes. `known` is the configuration some client
last read, from which it takes `expected_revision`.

`Journal` — the writer thread over one port's segment files. The writer serves
one command at a time; an action is one file operation, so that `Crash` can come
between any two. A segment is its epoch, its first number and the set of its
complete records, with three facts about the file: header complete, partial
record at the end, sealed (renamed). `op` is the command being served and how
far it is: gap ledger, rotation, room (`ensure_capacity` and, if needed,
`enforce_retention` segment by segment), creation, header, record. Sizes are
counted in records. A sequence number is used up by an event even if the queue
refuses it (`DropEvent`) or its write fails; the next append reports it.
`acked` and `pruned` record what was promised and what retention deleted, for
the properties; no action reads them.

`JournalQuery` — reading beside that writer: the query and the catalog of
`journal.rs` and the three readers of `serialctl` that page through them (exact
evidence, output search, replay into the disk index). A query lists names, opens
what they name, loads the ledger and reads file by file, each step an action.

### Monitors and macros

`MonitorStore` — the catalog: creation under a request id, the bounds on
Monitors and incidents and what is given up at them (`PruneMonitors`, `PruneOwn`,
`PruneGlobal`), acknowledgement, and the file that the next daemon must accept. A
change is made in memory, written, and taken back when the write fails
(`Mutate`, `Persisted`, `PersistFails`). An update is two steps: `BeginUpdate` copies
the Monitor without the mutation lock, then waits for the worker to stop, and
`CommitUpdate` puts the copy back, counts and all; what happened to the Monitor in
between is overwritten, and its record is from then on `stale`. Incidents form freely. A client begins with
the newest incidents of a Monitor (`Follow`) and goes on from the cursor that each
answer gives it (`Poll`); it may do so between a change and its write, since reading
takes no mutation lock. It misses an incident that lies before the next cursor and is
neither on the page, nor acknowledged, nor covered by a retention gap, and one that
was formed since under a number that its cursor has passed. It is assumed that the
wall clock does not run backwards; each change advances it, and `MaxTime` ends a
behaviour only so that TLC can.

`MonitorWorker` — one Monitor: its record, the file, the worker that follows the
timeline for it, and the operations that stop, update and resume it. A change is
made in memory under the mutation lock and then written, and undone when the
write fails; the lock covers one change, never a whole operation.

`MonitorMatcher` — the streaming matcher: a window of bytes, and for each
condition the offset from which a further match may begin. What may be skipped is
read off the expression tree; the reference matches every window anew.

`MacroCatalog` — the file, its copy in memory, and saves that name the revision
they replace. `MacroPanel` extends it.

`MacroDriver` — the driver of a running macro: how it answers the machine's
effects and how RX, cut anywhere, with decoration and with the echo of the
command, becomes evidence for a watcher. The device sends what it likes whenever it
likes: output ahead of an echo, an echo late, behind the next command, without its last
byte, or never; commands that verify nothing follow each other without a pause. It says
of each byte what it is, output or echo; the driver never looks at that. Two things are
stated. `EvidenceIsExact`, of every such device: a watcher has matched if and only if its
pattern stands in what counts of the answers, by a definition of what counts that reads
a whole answer at once. `EchoIsNotEvidence`, of a device that answers each command in
order: what counts is its output and not its echo.

`MacroSyntax`, `MacroCompiler`, `MacroVm`, `MacroScripts` — the language: a parser
of tokens (with a printer that uses the fewest parentheses, so that parsing the
print of a tree is the identity), a compiler with its types, scopes and limits,
and the stack machine run in slices under a driver that answers its effects. The
reference is an interpreter of the tree without code, jumps or slots.
`MacroScripts` are the about one thousand scripts that TLC runs.

### The MCP server

`AgentSession` — the task that holds the Agent's connection, leases and Runs and
serves tool calls one after the other. Guards of Runs are dropped over a channel
of their own, callers vanish, Runs are approved, revoked or lost, answers never
come. The daemon is abstract here.

`AgentTools` — tool calls on one port, side by side, with the cursors and the
note that they share and the lock that physical actions take. Between any two
questions to the daemon, Humans and other calls act. What the Agent has read is what a
call has returned to it: the daemon's answer, its acknowledgement of a Human command,
the move of the cursor and the answer to the Agent are steps of their own, and the call
can be cancelled between them.

`AgentCapture` — one capture: the stream attached before the write, the boundary
set by its TX event, the echo found in the output, what completes it.

`AgentRender` — how a capture's events are cut, excerpted around the matches and then
collapsed for the Agent; functions, one rendering per behaviour.

`McpServer` — requests over stdin or HTTP, the map of active ones, cancellation,
the end of the process, and the watcher of the Run timeout.

### The terminal client

`Console` — the network worker with its two channels and the App's connection,
control, typed input and queue of writes. Results, events and snapshots cross. A Trigger
under the user's own lease holds the queue back until its end is seen.

`MacroPanel` — the panel of Macros: its task, whose answers come in order and are
dropped when the panel was opened anew, and the start of a Macro over the
console's connection.

`LineHistory`, `RunHistory` — typed lines and the Agent's Runs, each from the
daemon's index (recording, rebuild, reconciliation, hidden Runs) through the task
that fetches pages to the panel and the line editor.

`RunEvidence` — the history pane as a tree and the evidence it jumps to, from the
output pane or by a worker that drops a request for a newer one and reads the journal page
by page. A course is what happens on the port (writes of commands that look for a prompt
or do not, other writes, output, prompts, breaks, captures by the daemon) and the incidents
that a Monitor finds in it.

`SessionSearch` — the archive behind a bounded queue, the query threads, the task
that reads a match, and the terminal thread that polls and walks.

`TerminalText` — the parser from RX and TX to rows of text, with the device's echo
taken away where TX is shown at once.

### Compositions

`MCDaemon`, `MCServices`, `MCAgent` and `MCClients` put several modules into one
run. They are sums: in each behaviour one service runs, chosen by the initial
state, and the others stay where they are (in `MCClients`, whose parts share one pool of
variables, they have none), because the services either share no
state or see each other through the abstract environment that each module states
(any RX, any journal answer, any holder of control). The bounds of an instance
stand in its `INSTANCE ... WITH`. `MCDaemon` extends `Requests` and `MonitorStore`,
`MCServices` extends `Timeline` and `MCAgent` extends `AgentSession`, so that their assumptions are evaluated
and their properties are checked as they are stated.
Where modules interact tightly, one module holds both sides: `RxPipeline` reader,
writer and actor; `Configuration` registry, file and API; `JournalQuery` writer
and readers; `RunHistory`, `LineHistory` and `MacroPanel` daemon and client.

## 3. Runs

| Run | Instance | Checks |
|---|---|---|
| `slot_control` | 2 Humans, 1 Agent, 4 fences, 2 sessions, 3 Runs, 2 revisions (139 k states) | `TypeOK`, `SessionBound`, `RunHeld`, `WorkAuthorized`, and the refinement `ImplementsAuthority` |
| `slot_reconfigure` | a Human, an Agent, a script, 2 profiles, 2 fences (69 k states) | `StagedPortClosed` beside every kind of staged change; with fairness `WaitsEnd` |
| `configuration` | 2 ports, 2 links, revisions 1..3 (464 k states) | `TypeOK`, `RuntimeMatchesMemory`, `RevisionNamesOneConfig`; with fairness `TransactionEnds` |
| `configuration_parked` | 2 ports, revisions 1..3 | **violated**: `ActiveNotParked` |
| `journal_crash` | 2 epochs, 3 numbers in each, 4 files, 2 records a segment, room for 2 (223 k states) | `TypeOK`, `AckedKept`, `LedgerTruthful`, `SegmentsSound`; with fairness `CommandEnds` |
| `journal_deletion` | room for 3 records, low water 2 | **violated**: `DeletionVisible` |
| `rx_pipeline` | 4 bytes, buffer of 2 bytes, queue of 2 events, 2 bytes held back (123 k states) | `TypeOK`, `BytesAccounted`, `TriggerSeesNewOutput`; with fairness `ActorGoesOn` |
| `rx_write` | the same | **violated**: `WriteEnds` |
| `daemon` | `MCDaemon`: 3 request ids, caches of 1 and 2; room for 2 Monitors and 2 incidents, pages of 1, 5 changes; a driver with 3 effects; 7 sets of patterns over 2 bytes (1.1 M states) | `TypeOK`, `WrittenOnce`, `AnswersTruthful` (`Requests`); `StoreSound` (`MonitorStore`); `EvidenceIsOutput` |
| `services` | `MCServices`: 3 events, ring of 2; one Monitor with up to 3 workers; 1000 scripts of at most 24 instructions (1.3 M states) | `TypeOK`, `JournalHealth`, `StreamComplete` (`Timeline`); `EvidenceKept`, `ReportedAndSupervised` (`MonitorWorker`); `MacroFaithful` |
| `agent` | `MCAgent`: one port over two connections, two ports over one; 2 calls at a time; captures of 3 events (2.0 M states) | `TypesOK`, `RunsAccounted`, `ContextRead`, `EvidenceExact`, `CallsConverge` |
| `clients` | `MCClients`: the console in seven instances, each other part with one or two of everything (1.8 M states) | `TypesOK`, `InputSafe`, `OutcomeTold`, `HistoryTold` |

The properties of the sums are conjunctions of named properties of their parts,
each stated with its comment in the part's module.

*Bounds.* Four fences allow a grant, a takeover, an approved transfer and a
later grant in one behaviour, so a stale fence meets two later holders. Two
generations let a lease of the first session meet the second. Two Humans are
needed for a takeover while an approval waits on the other one; one Agent is
enough because an Agent only ever competes with a Human or with an Agent's
own past lease, and two Agents can never hold Runs at once. The safety
properties of `Slot`, `Configuration`, `Journal`, `RxPipeline`, `Requests`,
`Timeline`, `AgentSession` and `MonitorStore` do not depend on bounds at all: they are proved.
For `Configuration`, two ports let one actor fail while another has already
changed; three revisions let a port be removed and added again. For `Journal`,
two epochs let a daemon recover, retire and report what another one left; three
numbers let a lost event stand between two written ones; the room is small
enough that retention has to run while the current segment is open. For
`RxPipeline`, two events fill the queue, two bytes fill the buffer and the
Trigger's audit buffer, and four bytes leave some to follow a gap. For
`Requests`, three ids overflow both caches, and two connections with three sends
let an id be repeated after it was forgotten. For `MonitorStore`, five changes fill
the two places for incidents and turn them over while a client holds a cursor, and
create a Monitor anew under a deleted one's id, and
let a Monitor change while an update of it waits. In the sums every queue, cache, ring
and page holds one or two, so that each fills and turns over within the two to
four events of a behaviour; each fault happens at most once or twice, at any
step. Captures and expressions are enumerated up to a length at which the echo,
the prompt and a match can each be cut in every place. The driver's device sends two
tokens and runs at most six bytes ahead: enough for output before an echo, and for the
echo of a command behind the next one. What the console has to survive needs several
requests in one behaviour, so each instance has what one hazard takes: `resend`, three
requests and a line (control is asked for, the line goes out, is given back and sent
again); `pair`, two lines; `leases`, two leases and two connections; `reopen`, a pasted
line and two sessions of the port; `writes`, three requests and a queue of two chunks;
`behind`, such a queue, two leases and a Trigger; `rewrites`, such a queue and two
sessions. `RunHistory` is run with its index, still being rebuilt, for a Run of one
command (`runs`), and over a whole index for a Run of two writes, which are one command or
two (`commands`). `RunEvidence` reads pages of two events of a journal while the pane
holds three, in nine courses: a prompt between two writes, with a second request that
overtakes the first, or with a further prompt; a second command that looks for no prompt
beside an incident; incidents alone, over a write, and with a middle that the console has
skipped; a Human's write before the prompt; a break; a step captured with and without
such a write.

*Deadlock* is checked in the runs of `Slot`, `Configuration` and `Journal`: `Slot`
ends in `Stopped` once the actor's task has returned, and a daemon can always be
restarted. It is not checked for `RxPipeline`, where the system really can stop
(section 4), nor for the sums, whose behaviours end when a program, a rendering or
a process has ended or a bound is used up.

*Fairness.* `Slot!FairSpec` has weak fairness of the maintenance tick's expiry
actions and of the Trigger's timer (branches of the actor's `select!` loop,
driven by tokio timers), of the passing of an approval's deadline (a clock), and
of the answer to a Trigger's write (the writer works under the write's own
deadline, and its dropped reply is turned into a failure). No client is
assumed to do anything. `Configuration!FairSpec` has weak fairness of the
transaction's own task: each reply it waits for comes, or is dropped together
with the actor. `Journal!FairSpec` has weak fairness of the writer thread's next
step, which is a synchronous file operation. `RxPipeline!FairSpec` has weak
fairness of each of the three tasks' next step; reading, timers and requests are
not assumed to happen. Nothing is assumed about which step succeeds. In the sums,
that something moves is stated as safety: whoever waits has an answer, a timer or
a task on its way (`QueueMoves`, `BusyEnds`, `PendingAnswered`, `LateAckFollowed`).

## 4. What the violated runs show, and observations

1. `configuration_parked`: removing a port parks its actor in the retired map.
   Adding the same port back with the same `enabled` and transport stages a
   replacement with `reopened = false`; its commit does not resume the actor. The
   port is listed as active and never opens until its transport or `enabled`
   changes, or the daemon restarts.
2. `journal_deletion`: retention removes a segment and then appends its gap to
   the ledger; the comment says a crash in between "is still made visible by
   query's synthetic leading gap". That gap is drawn below a record found in the
   same epoch. When the segment was the last one of an older epoch there is
   none, and a query of that epoch reports neither events nor a loss.
3. `rx_write`: a writer whose write failed answers, and then waits for room in
   the event queue to report the port's end. If the queue is full and the actor's
   next turn is another write, the actor waits for a reply that the writer cannot
   give before the actor empties the queue. Nothing else can end this: cancelling
   the tasks is the actor's own work. It takes a queue of 4096 events, which a
   busy device fills while the actor waits for long paced writes.

*Observations.* What follows was met while modelling, and the models keep it: each
is allowed by the model's actions and excluded, by name, from the property it
touches, or lies outside what the properties say.

- *Configuration.* A model profile staged while the Slot is idle is committed
  without a second look, so a Run started between the two messages sees it
  change (`slot.rs:4592`, `:4705`, against the message at `:274`). When
  `atomic_write` fails after the rename, memory and actors are rolled back while
  the file is new, and the next start applies it (`config.rs:1315`).
- *Journal.* A daemon killed between creating a segment and writing its header
  leaves a file that `recover_open_segment` reports as corrupt, and the journal
  does not open until it is removed (`journal.rs:1300`). An `.open` file sealed
  between a query's listing and its opening is passed over in silence; a search is
  seeded from one file only; where matches may overlap, which of them a regular
  expression finds depends on where the page begins; `Corruption` gaps are not
  clipped to the page; in retained history the deletion of a file goes unnoticed
  while a damaged file behind it is read.
- *Monitors.* A match can be reported twice when a worker starts from a checkpoint
  that another task is about to write (`monitor.rs`, about 1730). `incidents` reads
  without the mutation lock, so a client can be shown an incident whose write then
  fails; the cursor it was given is beyond the count that `mutate_and_persist` brings
  back, and the next incident takes the number that the cursor has passed. A Monitor
  created again under a deleted one's request id counts from one under the cursors
  that clients still hold for the old one. An update puts back the copy that it made
  before it waited for the worker, so that the incidents, prunings and acknowledgements of that
  time are counted no more and numbers are given twice (`monitor.rs:288-332`); the record
  is `stale`, and `UnackedExact` speaks of the others. All three are the `fooled` of
  `PollerMissesNothing`.
- *Macros.* The echo of a `send_only` command after a prompt, behind other output or
  behind the next command may count as evidence. A device that sends the beginning of the
  command's text and then nothing has this held back by the filter, and the next command
  replaces the filter with what it holds: that output is never evidence (`Counts`).
- *MCP server.* The daemon opens the read gate when it takes the acknowledgement, before
  the read has answered: an action beside that read passes the gate although the Agent
  has not seen the Human's command, and so does one after the Agent cancels the read
  (`tools.rs:739`, `mcp.rs:442`); `HumanRead` names both. An excerpt of which no line matches
  visibly is only its marker, without a count of the lines it leaves out
  (`render.rs:334-343`). Any daemon error while `run_start` polls disconnects, and so aborts
  the Agent's Runs on other ports (`session.rs`, about 1385). The cursor of
  `attach_recent_context` moves before an await and the note that context is pending
  is stored after it. Request ids of all HTTP clients share one map;
  `CancelMacroOnDrop` also fires after a normal end; a graceful shutdown drops the
  task of a physical action whose client had left. An echo whose CR and LF come in
  two events leaves the LF as output; stale RX between TX and its echo is discarded
  with the echo.
- *Console.* `invalidate_slot_pending` says that queued input was discarded although
  an event only overtook the result of a command already written
  (`i18n.rs:1540`). A flush into a full channel starts again at its first chunk, so
  that chunks can go out twice; `remove_queued_line_operation` leaves
  `inflight_writes` stale; a late `ControlRenewed` after a revocation installs the
  lease again.
- *Panels.* `Loaded` ignores `evicted` and pushes older commands behind live ones, a
  late `RunStarted` turns a finished Run active, and bytes of a live TX that a load
  overtakes are added twice. A refused line that is restored while Ctrl-R is open is
  lost on cancel. When nothing follows the last write of a command, or when the journal's
  page ends there, a prompt from before that write completes the command's evidence
  (`tui.rs:13556-13559`, the `unwrap_or(0)`). An error of the history's file makes an append fail that was
  written. The session search reads its revision after the snapshot it describes.
  In the Macro panel `record_macro_execution` clears `busy` while a load is
  outstanding, and its late answer replaces the script in an editor opened meanwhile,
  so that a save stores one Macro's script under another's name; closing the panel
  while a save is outstanding has the like effect; an expired queue drops the
  acquisition a start waits for, and the panel stays busy until it is closed.
- *Screen.* A TAB that finds the row exactly full loops (`display.rs:751`, modelled as
  `hung`). A candidate echo of one backspace is complete at once, so `ERASE_ECHO` is
  never reached byte by byte; typing ahead of an echo in the middle of `BS SP BS` or
  of CR LF shows text twice; ESC before a line's end swallows it; a two-byte
  character at a full row is closed early.

## 5. Proofs

Every proof has the same form: an invariant `Invariant` (in `SlotProofs`, `Inv`; for
the Monitors' store, `StoreInvariant`),
`Init => Invariant`, `Invariant /\ [Next]_vars => Invariant'` with one lemma per
conjunct and one step per action that can disturb it, and the theorems for the
properties that the runs check. The conjuncts beside the properties are what makes
them inductive; each was first checked by TLC as an invariant of a small instance.

| Module | Theorems | What the invariant adds |
|---|---|---|
| `SlotProofs` | `TypeOK`, `SessionBound`, `RunHeld`, `WorkAuthorized`, `StagedPortClosed`; `Spec => ImplementsAuthority` | that they hold together |
| `ConfigurationProofs` | `TypeOK`, `RuntimeMatchesMemory`, `RevisionNamesOneConfig` | `RevisionsOrdered`, `MapsPublished`, and one conjunct for each phase: `Idle`, `Staging`, `Committing`, `RollingBack` |
| `JournalProofs` | `TypeOK`, `AckedKept`, `LedgerTruthful`, `SegmentsSound` | `CommandPlace`, `CurrentPlace`, `NumbersUsed`, `ReportedPast`, `RoomKept` |
| `RxProofs` | `TypeOK`, `BytesAccounted`, `TriggerSeesNewOutput` | `StreamWhole`, `RxSound`, `BarrierPlace`, `SessionEnds`, `WriteOwner` |
| `SessionProofs` | `TypeOK`, `RunsAccounted` | `SessionSound`, `ConnectionsKnown`, `RequestsSound`, `InFlight`, `AnswerFits`, `RunsFresh`, `GuardsKnown`, `StartsKnown`, `HoldersKnown`, `AbortedGone`, `WritesSound` |
| `PanelProofs` | `RunsAsShown`, `RevisionNamesOne`, and the types of `MacroPanel` | `CatalogInvariant` (`Covers`), `PanelSound` (`FormFits`), `TaskSound`, `AsksMeant`, `PressesFit`, `StartedMeant`, `Once`, `OutboxSound` |
| `RecordsProofs`, `Requests` | `TypeOK`, `WrittenOnce`, `AnswersTruthful` | `BusyUnrecorded`, `LineRemembered`, `CacheTrue`, `PendingKnown` |
| `RecordsProofs`, `MonitorStore` | `StoreSound`, which is `StoreTypeOK`, `FileIsAccepted`, `UnackedExact` and `PollerMissesNothing` | `Shaped`, `Bounded`, `Counted`, `Ordered` of memory, the file and the state to fall back to; `PollerSound`, `Follows`, `MayFallBack` |
| `TimelineProofs` | `TypeOK`, `JournalHealth`, `StreamComplete` | `EmitPlace`, `AcksTrue`, `TimeoutFollowed`, `SnapshotPlace`, `RingRuns`, `LiveRuns`, `SessionPlace` |

- *Slot.* None of the six safety invariants is inductive alone: that a Trigger's
  owner has read every Human command needs that its Run is the lease holder's
  (`RunHeld`) and that no macro shares the port; that an approval's lease is of this
  generation needs `LeaseOfSession`; that opening a port finds no lease to drop
  needs `StagedPortClosed` and `LeaseOfSession`. The refinement maps each
  action to an action of `WriteAuthority` or a stutter.
- *Configuration.* That actors match memory outside a transaction is a fact about
  its phases: what has been staged so far is the target, what has been saved is the
  target under the next revision, an actor already committed runs the target, one
  already rolled back runs what memory holds. A revision names one configuration
  because every revision in use is at most the newest one made.
- *Journal.* An acknowledged record stays readable because the command being served
  and the current segment are at places of the files that agree (`CommandPlace`,
  `CurrentPlace`) and no number is used twice (`NumbersUsed`). The ledger tells the
  truth because what is or is about to be reported lies behind every file
  (`ReportedPast`). The limit holds because a command that is about to write has
  found room for what it writes (`RoomKept`).
- *RxPipeline.* `StreamWhole` says that the queue covers the stream without a hole,
  from what the actor has handled to what the reader still has; that nothing is
  lost when the port closes is then `SessionEnds`. A Trigger sees only new output
  because at most one barrier is on its way and what stands before it in the queue
  is older (`BarrierPlace`).
- *Requests.* A request is not written twice because what is with the writer is in
  no record yet and fits the history, and what is on the line is remembered as long
  as the actor lives. A cached success is on the line; a cached `pending` is the
  request that waits.
- *Timeline.* The ring and a client's receiver each hold consecutive numbers, up to the
  newest event pushed and the newest one sent (`RingRuns`, `LiveRuns`), and between a
  snapshot and the live stream whatever the replay did not give is in the receiver
  (`SessionPlace`); hence a client is given every number once or told that it is gone.
  The health is that of the newest outcome because outcomes are only known of events
  that have a number, and behind a timeout not yet heard of there is a tracker or the
  journal's answer (`TimeoutFollowed`). The proof uses that a set of numbers has a least
  and, below a bound, a greatest element, from the library's well-foundedness theorems.
- *AgentSession.* The four parts of `RunsAccounted` are not inductive alone. That between
  requests the daemon holds nothing for the connection that the session does not know of
  rests on what it may hold while a request is served: a Run start only while the task is
  at one or comes back to it (`StartsKnown`), a lease only if it is the session's, granted
  and on its way, or named by a release in flight (`HoldersKnown`). Both need that the
  connection carries one message or one answer at a time, of the kind that the stage of
  the request waits for (`InFlight`, `AnswerFits`), and that a Run is handed out once
  (`RunsFresh`), so that the guard of an old Run cannot be taken for one of its successor;
  hence the count of uses is exact. What a caller is told of a write is true because one
  request at a time has it, and its message is over the present connection until the
  outcome is told (`RequestsSound`, `WritesSound`). The counts are cardinalities: a guard
  taken, dropped or counted off changes one of the two sets by one element.
- *MonitorStore.* An update may put an old copy of a Monitor back, so the exact counts
  are stated and proved of the Monitors that no overlapping update has changed, and the
  poller's promise of a Monitor that never was so changed; the bounds, the acceptable
  file and the order in which incidents were formed hold of all. What `CommitUpdate` overwrites is known by comparing
  the copy with the Monitor as it then is. The incidents kept of a Monitor are the last ones it formed, without a
  hole (`Ordered`): retention takes the oldest of all, and that is the first of its
  Monitor because creation times increase along a list. Hence the number of the first
  one tells what is gone, which is all that a retention gap looks at. A page is what is
  oldest of what was asked for, so whatever lies before the next cursor is on it, or
  acknowledged, or gone. What a cursor has passed was there at the last poll (`Follows`),
  also in the state that a failed write brings back (`MayFallBack`). The bounds hold of
  the file because they hold of memory, and of memory because each operation makes room
  before it adds (`Bounded`).
- *Macro panel and catalog.* What the panel shows was handed out by the daemon, and a
  form belongs to a definition that was handed out under its id and revision. The file
  and memory have each such definition or a newer one, the file also when a save failed
  after the rename and memory did not follow (`Covers`); so a revision that a start names
  is, if the daemon still has it, the very definition that the panel showed, and one body
  has one name across restarts. A press of Ctrl-R is in one place: waiting for control,
  on the connection, or run (`Once`); what is asked for it anywhere is what was shown
  (`AsksMeant`, `StartedMeant`). The two properties are parts of `InputSafe`.

*Assumptions* are about constants only: bounds are natural numbers (those of queues
and caches that the code makes at least one are positive, and the journal's segment
and low water lie within its limit), the kinds of client are disjoint, and `None` is
none of the values it stands beside. TLC evaluates each in a run whose module extends
the component's; those of the panel (`PanelAssumption`) in `MCClients`, of the instance:
whatever the editors may hold makes a body. The sets of clients, ports, links, profiles, ids and bodies may be
infinite; only the tool calls that run side by side in `AgentSession` are finitely many,
since their guards are counted.

*Only model-checked.*

- Liveness (`WaitsEnd`, `TransactionEnds`, `CommandEnds`, `ActorGoesOn`): fairness and
  `ENABLED` are outside the prover.
- What recursive definitions compute (`MacroSyntax`, `MacroCompiler`, `MacroVm`,
  `MonitorMatcher`, `AgentCapture`, `TerminalText`): this needs induction over data.
- The other modules of the sums. Nothing in them is out of reach in principle, except
  where they use recursion; the plan says which come next.

## 6. What is not modelled

- The content of bytes in `Slot` and `RxPipeline`; fire counts; BREAK durations;
  the pacing of a write; the Windows reader and writer threads.
- The arithmetic of write deadlines (`write_deadline`), which appears as `ample`
  and `short`.
- A physical write that fails half-way: `line` records what was handed to the
  writer, which is what authority is about.
- Loss of what the operating system has not yet written to the disk: `Journal`
  is about a process that dies, not a machine that loses power. Headers and the
  ledger do not count towards the size limit; wrong clocks in segment names,
  record checksums and the migration of formats are left out.
- In `MonitorMatcher` look-around assertions; in `MonitorWorker` the idle clock.
- In `SessionSearch` the byte budget (one bound with the queue's length), a new
  epoch's reset of the index, the retained loader and the search of the disk index.
- In `TerminalText` the parser's reset and switching echo reconciliation on and off.
- In `MacroPanel` the paging of its list, other clients' executions on the port, the
  focus of fields, and a start refused with `WriteOutcomeUncertain`.
- In the MCP server schemas, argument checks, the Monitor tools and the HTTP client;
  in `serialctl` layout, key maps, settings dialogs, the Monitor panel and the
  command line.
- The daemon's process, the protocol types, the desktop application, the installer
  and the launcher: process and file I/O, presentation, and data types without
  behaviour.

## 7. Plan

The components of the inventory that have behaviour are modelled. What is left is to
prove more:

1. `Console`: that a chunk is written once and nothing shown as pending is stale.
2. `JournalQuery`: that a page accounts for every number up to where it says, using
   what `JournalProofs` shows of the files beneath it.
3. `MacroPanel`: that a panel which takes no keys has something to wait for
   (`BusyEnds`), from the order of the executions that the console is told of.

Each needs its assumptions evaluated by the run of its sum, as `clients` does for the
panel, and its types and parts stated as properties of that module.
