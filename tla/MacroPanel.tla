----------------------------- MODULE MacroPanel -----------------------------
(***************************************************************************)
(* The console's panel of Macros (tui_macros.rs and its hooks in tui.rs)     *)
(* with the catalog that it reads and the daemon that runs a Macro for it.   *)
(* The panel lists, loads and saves through a task whose answers come back    *)
(* in order and are dropped when the panel was opened anew since; a Macro is  *)
(* started over the connection of the console, by the revision that the      *)
(* panel shows and with the values of its form.  One port.  A text is what   *)
(* the checks can tell of it: the integer and the truth value that it reads  *)
(* as, if it does, and its size.                                            *)
(***************************************************************************)
EXTENDS MacroCatalog, Sequences, FiniteSets

CONSTANTS
    Rank,           \* the place of each id in their order
    Texts,          \* what may be typed into a field
    Scripts, Metas, \* what may be typed into the editors; a Meta that is None is no JSON
    NewBody,        \* open_editor: the body of a new Macro, and its id
    NewId,
    Starts,         \* catalogs at the start, among all that load accepts
    Others,         \* bodies that other clients save
    Blank, Thirty,  \* no text, and the text of the default timeout
    MaxTimeout,     \* MAX_MACRO_TIMEOUT_SECONDS
    Capacity,       \* of the channel to the task
    Link,           \* bound: messages under way on the connection
    MaxKeys, MaxLeases, MaxFaults     \* bounds: what the user does, leases, and faults

VARIABLES
    panel,          \* Panel, with whether it is open
    opens,          \* macro_panel_id
    contexts,       \* macro_io_contexts
    commands, replies,  \* the channels of the task
    app,            \* the console's record of Macros on the port
    up,             \* the connection is up and the port is subscribed
    inbox, outbox,  \* what is under way on it
    control, leases,    \* the daemon's lease, and how many it granted
    waiting,        \* a request for control that is queued at the daemon
    job,            \* the Macro at the daemon
    pressed,        \* what the panel showed at each press of Ctrl-R
    started,        \* what the daemon ran
    keys, faults

panels == <<panel, opens, contexts, commands, replies>>
network == <<up, inbox, outbox>>
daemon == <<control, leases, waiting, job, started>>
vars == <<catalog, panels, app, network, daemon, pressed, keys, faults>>

-----------------------------------------------------------------------------
(* The form of a run *)

Field(parameter) ==
    [text |-> IF parameter.default = None THEN Blank ELSE parameter.default,
     supplied |-> parameter.default # None]

\* RunOptions::new
NewOptions(definition) ==
    [revision |-> definition.revision, timeout |-> Thirty,
     fields |-> [i \in DOMAIN definition.body.params |-> Field(definition.body.params[i])]]

\* selected_options
SelectedOptions(p) ==
    LET d == p.definition IN
    IF p.options[d.id] = None THEN NewOptions(d)
    ELSE IF p.options[d.id].revision # d.revision THEN NewOptions(d) ELSE p.options[d.id]

WithOptions(p, options) == [p EXCEPT !.options[p.definition.id] = options]

\* argument, and the same checks in RunOptions::spec
Fits(parameter, text) ==
    CASE parameter.type = "string" -> text.small
      [] parameter.type = "boolean" -> text.boolean # None
      [] parameter.type = "integer" ->
            /\ text.integer # None
            /\ parameter.min # None => text.integer >= parameter.min
            /\ parameter.max # None => text.integer <= parameter.max

\* arguments
TypedArgs(body, args) ==
    /\ DOMAIN args = DOMAIN body.params
    /\ \A i \in DOMAIN args : Fits(body.params[i], args[i])

\* RunOptions::spec, when it does not fail
CanRun(definition, options) ==
    /\ options.timeout.integer # None
    /\ options.timeout.integer \in 1..MaxTimeout
    /\ \A i \in DOMAIN options.fields :
          options.fields[i].supplied /\ Fits(definition.body.params[i], options.fields[i].text)

RunSpec(definition, options) ==
    [id |-> definition.id, revision |-> definition.revision,
     args |-> [i \in DOMAIN options.fields |-> options.fields[i].text]]

-----------------------------------------------------------------------------
(* What the proofs assume of the constants *)

\* What may stand in the editors, and the texts of a form.
AllScripts == Scripts \cup {b.script : b \in Bodies}
AllMetas == (Metas \ {None}) \cup
            {[id |-> i, shared |-> b.shared, params |-> b.params] : i \in Ids, b \in Bodies}
AllTexts == Texts \cup {Blank, Thirty} \cup
            UNION {{Field(b.params[i]).text : i \in DOMAIN b.params} : b \in Bodies}

\* None is no catalog and no definition, and whatever the editors hold makes a body.
PanelAssumption ==
    /\ None \notin Catalogs /\ None \notin Definition
    /\ Link \in Nat /\ Rank \in [Ids -> Nat]
    /\ NewBody \in Bodies /\ NewId \in Ids /\ Others \subseteq Bodies
    /\ \A m \in AllMetas : m.id \in Ids
    /\ \A s \in AllScripts, m \in AllMetas :
          [script |-> s, shared |-> m.shared, params |-> m.params] \in Bodies

-----------------------------------------------------------------------------
(* The task that reads and saves (spawn) *)

\* handle_macro_action for what goes to the task: the panel waits if it was sent.
PerformAs(id, p, command, waited) ==
    LET sent == command # None /\ Len(commands) < Capacity IN
    /\ panel' = IF command = None THEN p ELSE [p EXCEPT !.busy = sent]
    /\ commands' = IF sent THEN Append(commands, command) ELSE commands
    /\ contexts' = IF sent THEN Append(waited, id) ELSE waited
Perform(p, command, waited) == PerformAs(opens, p, command, waited)

List(p) == [do |-> "list", drafts |-> p.drafted]
Load(id) == [do |-> "load", id |-> id]

Entries(state, drafts) == {id \in Ids : state[id] # None /\ (drafts \/ state[id].body.shared)}

Answer(reply) == commands' = Tail(commands) /\ replies' = Append(replies, reply)

Task ==
    /\ commands # <<>> /\ Len(replies) < Capacity
    /\ LET c == Head(commands) IN
       \/ c.do = "list" /\ Look /\ Answer([is |-> "catalog", entries |-> Entries(Loaded, c.drafts)])
       \/ /\ c.do = "load" /\ Get(c.id)
          /\ Answer(IF Loaded[c.id] = None THEN [is |-> "failed"]
                    ELSE [is |-> "definition", definition |-> Loaded[c.id]])
       \/ /\ c.do = "save"
          /\ \/ Save(c.request) /\ Answer([is |-> "saved", definition |-> Saved(Loaded, c.request)])
             \/ SaveRefused(c.request) /\ Answer([is |-> "failed"])
    /\ UNCHANGED <<panel, opens, contexts, app, network, daemon, pressed, faults, keys>>

\* The call fails, or its answer is lost after the save was made, or the write fails.
TaskFails ==
    /\ commands # <<>> /\ Len(replies) < Capacity /\ faults < MaxFaults
    /\ LET c == Head(commands) IN
       IF c.do = "save" THEN Save(c.request) \/ SaveFails(c.request) ELSE UNCHANGED catalog
    /\ Answer([is |-> "failed"])
    /\ faults' = faults + 1
    /\ UNCHANGED <<panel, opens, contexts, app, network, daemon, pressed, keys>>

DraftKey(p) == IF p.definition = None THEN None ELSE p.definition.id

First(entries) == CHOOSE id \in entries : \A other \in entries : Rank[id] <= Rank[other]
Place(p, entries) == IF DraftKey(p) \in entries THEN DraftKey(p) ELSE First(entries)

\* Panel::event: the panel afterwards, and what it asks for
OnCatalog(p, entries) ==
    IF entries = {} THEN [p EXCEPT !.entries = {}, !.selected = None, !.definition = None]
    ELSE [p EXCEPT !.entries = entries, !.selected = Place(p, entries)]

OnDefinition(p, d) == [p EXCEPT !.script = d.body.script, !.definition = d]

OnSaved(p, d) ==
    [p EXCEPT !.drafts[DraftKey(p)] = None, !.drafted = @ \/ ~d.body.shared,
              !.editing = FALSE, !.definition = d]

OnEvent(p, r) ==
    CASE r.is = "catalog" -> OnCatalog(p, r.entries)
      [] r.is = "definition" -> OnDefinition(p, r.definition)
      [] r.is = "saved" -> OnSaved(p, r.definition)
      [] r.is = "failed" -> p

AsksAfter(p, r) ==
    IF r.is = "saved" THEN List(p)
    ELSE IF r.is = "catalog" /\ p.entries # {} THEN Load(p.selected) ELSE None

Heard(p, r) == Perform([p EXCEPT !.busy = FALSE], AsksAfter(p, r), Tail(contexts))

\* An answer whose context is not the open panel is dropped.
Reply ==
    /\ replies # <<>>
    /\ replies' = Tail(replies)
    /\ IF panel.open /\ Head(contexts) = opens
       THEN Heard(OnEvent(panel, Head(replies)), Head(replies))
       ELSE contexts' = Tail(contexts) /\ UNCHANGED <<panel, commands>>
    /\ UNCHANGED <<catalog, opens, app, network, daemon, pressed, faults, keys>>

-----------------------------------------------------------------------------
(* Keys: nothing is a key but Esc while the panel is busy (Panel::key) *)

NewPanel ==
    [open |-> FALSE, busy |-> TRUE, entries |-> {}, selected |-> None, definition |-> None,
     drafted |-> FALSE, editing |-> FALSE, form |-> FALSE, script |-> None, meta |-> None,
     options |-> [id \in Ids |-> None], drafts |-> [key \in Ids \cup {None} |-> None]]

User == keys < MaxKeys /\ keys' = keys + 1
Keyed == User /\ UNCHANGED <<catalog, opens, replies, app, network, daemon, pressed, faults>>
Becomes(p) == Perform(p, None, contexts)

\* prefix a: reopen, with what the panel held when it was closed
Open ==
    /\ ~panel.open
    /\ User
    /\ opens' = opens + 1
    /\ PerformAs(opens + 1, [panel EXCEPT !.open = TRUE], List(panel), contexts)
    /\ UNCHANGED <<catalog, replies, app, network, daemon, pressed, faults>>

\* Close: Esc while busy or in the list
Close ==
    /\ panel.open
    /\ panel.form \/ panel.editing => panel.busy
    /\ Becomes([panel EXCEPT !.open = FALSE]) /\ Keyed

Ready == panel.open /\ ~panel.busy
InList == Ready /\ ~panel.form /\ ~panel.editing

\* Up and Down; v and F5
Between(id, a, b) == Rank[a] < Rank[id] /\ Rank[id] < Rank[b]
Beside(p) ==
    {id \in p.entries \ {p.selected} :
        \A other \in p.entries : ~Between(other, id, p.selected) /\ ~Between(other, p.selected, id)}

Move ==
    /\ InList
    /\ \E id \in Beside(panel) : Perform([panel EXCEPT !.selected = id], Load(id), contexts)
    /\ Keyed

Refresh ==
    /\ InList
    /\ \E drafted \in BOOLEAN :
          LET p == [panel EXCEPT !.drafted = drafted] IN Perform(p, List(p), contexts)
    /\ Keyed

\* open_editor: n and e
EditorOf(p, definition, id, body) ==
    LET q == [p EXCEPT !.definition = definition, !.editing = TRUE, !.form = FALSE,
                       !.script = body.script,
                       !.meta = [id |-> id, shared |-> body.shared, params |-> body.params]]
        draft == p.drafts[DraftKey(q)]
    IN  IF draft = None THEN q ELSE [q EXCEPT !.meta = draft.meta, !.script = draft.script]

OpenEditor ==
    /\ InList
    /\ \/ Becomes(EditorOf(panel, None, NewId, NewBody))
       \/ /\ panel.definition # None
          /\ Becomes(EditorOf(panel, panel.definition, panel.definition.id, panel.definition.body))
    /\ Keyed

InEditor == Ready /\ panel.editing /\ ~panel.form

\* Typing and pasting in the editors (Editor::key, Editor::paste)
Edit ==
    /\ InEditor
    /\ \/ \E script \in Scripts : Becomes([panel EXCEPT !.script = script])
       \/ \E meta \in Metas : Becomes([panel EXCEPT !.meta = meta])
    /\ Keyed

\* Esc in the editor
LeaveEditor ==
    /\ InEditor
    /\ Becomes([panel EXCEPT !.editing = FALSE,
                  !.drafts[DraftKey(panel)] = [meta |-> panel.meta, script |-> panel.script]])
    /\ Keyed

\* Ctrl-S
SaveRequest ==
    [id |-> panel.meta.id,
     expected |-> IF panel.definition = None THEN None ELSE panel.definition.revision,
     body |-> [script |-> panel.script, shared |-> panel.meta.shared, params |-> panel.meta.params]]

SaveDraft ==
    /\ InEditor /\ panel.meta # None
    /\ Perform(panel, [do |-> "save", request |-> SaveRequest], contexts)
    /\ Keyed

\* a, r and t: open_options.  Esc leaves the form and keeps it.
OpenForm ==
    /\ InList /\ panel.definition # None
    /\ Becomes([WithOptions(panel, SelectedOptions(panel)) EXCEPT !.form = TRUE]) /\ Keyed

InForm == Ready /\ panel.form
LeaveForm == InForm /\ Becomes([panel EXCEPT !.form = FALSE]) /\ Keyed

\* RunOptions::key, RunOptions::paste: typing, clearing, toggling and confirming a field
FillTimeout ==
    /\ InForm /\ panel.definition # None
    /\ \E text \in Texts : Becomes(WithOptions(panel, [SelectedOptions(panel) EXCEPT !.timeout = text]))
    /\ Keyed

FillField ==
    /\ InForm /\ panel.definition # None
    /\ \E i \in DOMAIN SelectedOptions(panel).fields, text \in Texts :
          Becomes(WithOptions(panel,
              [SelectedOptions(panel) EXCEPT !.fields[i] = [text |-> text, supplied |-> TRUE]]))
    /\ Keyed

-----------------------------------------------------------------------------
(* The console's record of the Macros of the port (tui.rs).  Each operator gives *)
(* the record, whether the panel is busy (None: as before) and what is sent.    *)

Result(a, busy, sent) == [app |-> a, busy |-> busy, sent |-> sent]
Room(n) == Len(inbox) + n <= Link
Running(execution) == execution # None /\ execution.status = "running"
Mine(a) == a.view # None /\ a.view.mine

\* release_macro_temporary_control
Releases(a) ==
    IF a.temporary # None /\ Mine(a) /\ a.view.lease = a.temporary
    THEN <<[is |-> "release", lease |-> a.temporary]>> ELSE <<>>
Released(a) == [a EXCEPT !.temporary = None]

\* start_human_macro
Start(a, press, spec) ==
    IF ~up \/ a.operation # None \/ Running(a.execution) THEN Result(a, FALSE, <<>>)
    ELSE IF a.view = None
    THEN IF Room(1) THEN Result([a EXCEPT !.pending = [press |-> press, spec |-> spec], !.acquiring = press],
                                TRUE, <<[is |-> "acquire", press |-> press]>>)
         ELSE Result(a, FALSE, <<>>)
    ELSE IF ~Mine(a) THEN Result(a, FALSE, <<>>)
    ELSE IF Room(1)
    THEN Result([a EXCEPT !.operation = press, !.requests = @ \cup {[do |-> "start", operation |-> press]}],
                TRUE, <<[is |-> "start", operation |-> press, lease |-> a.view.lease, spec |-> spec]>>)
    ELSE Result(Released(a), FALSE, Releases(a))

\* record_macro_execution: an older execution, or an older state of this one, is dropped.
Outdated(a, e) ==
    /\ a.execution # None
    /\ \/ a.execution.operation > e.operation
       \/ a.execution.operation = e.operation /\ ~Running(a.execution) /\ Running(e)

Record(a, e) ==
    LET over == [a EXCEPT !.operation = IF @ = e.operation THEN None ELSE @, !.temporary = None,
                          !.execution = e]
    IN  IF Outdated(a, e) THEN Result(a, None, <<>>)
        ELSE IF Running(e) THEN Result([a EXCEPT !.execution = e], FALSE, <<>>)
        ELSE Result(over, FALSE, IF e.status = "interrupted" THEN <<>> ELSE Releases(a))

Granted(a, message) ==
    LET held == [a EXCEPT !.acquiring = None, !.view = message.view] IN
    IF a.acquiring # message.press THEN Result(a, None, <<>>)
    ELSE IF a.pending = None THEN Result(held, None, <<>>)
    ELSE IF a.pending.press # message.press THEN Result(held, None, <<>>)
    ELSE Start([held EXCEPT !.pending = None, !.temporary = message.view.lease],
               message.press, a.pending.spec)

\* handle_server_message: an error, for a request of a Macro or for the control it needs
Failed(a, message) ==
    LET b == [a EXCEPT !.requests = @ \ {message.request}]
        ended == IF message.missing THEN [b EXCEPT !.operation = None, !.execution = None, !.temporary = None]
                 ELSE IF message.request.do = "start" THEN [Released(b) EXCEPT !.operation = None] ELSE b
    IN  IF message.request \in a.requests
        THEN Result(ended, FALSE, IF message.request.do = "start" THEN Releases(a) ELSE <<>>)
        ELSE Result(a, None, <<>>)

Refused(a, message) ==
    IF a.pending = None THEN Result([a EXCEPT !.acquiring = None], None, <<>>)
    ELSE IF a.pending.press # message.press THEN Result(a, None, <<>>)
    ELSE Result([a EXCEPT !.pending = None, !.acquiring = None], FALSE, <<>>)

Handled(a, message) ==
    CASE message.is = "granted" -> Granted(a, message)
      [] message.is = "refused" -> Refused(a, message)
      [] message.is = "error" -> Failed(a, message)
      [] message.is = "result" -> Record([a EXCEPT !.requests = @ \ {message.request}], message.execution)
      [] message.is = "event" -> Record(a, message.execution)
      [] message.is = "control" -> Result([a EXCEPT !.view = message.view], None, <<>>)
      [] message.is = "session" -> Result([a EXCEPT !.view = None, !.acquiring = None], None, <<>>)

Apply(r, p) ==
    /\ app' = r.app
    /\ panel' = IF r.busy = None \/ ~p.open THEN p ELSE [p EXCEPT !.busy = r.busy]
    /\ inbox' = IF Room(Len(r.sent)) THEN inbox \o r.sent ELSE inbox

Receive ==
    /\ outbox # <<>>
    /\ Apply(Handled(app, Head(outbox)), panel)
    /\ outbox' = Tail(outbox)
    /\ UNCHANGED <<catalog, opens, contexts, commands, replies, up, daemon, pressed, faults, keys>>

\* Ctrl-R in the form: run_selected
Press ==
    /\ InForm /\ panel.definition # None
    /\ User
    /\ LET options == SelectedOptions(panel)
           spec == RunSpec(panel.definition, options)
       IN  /\ CanRun(panel.definition, options)
           /\ pressed' = Append(pressed, [body |-> panel.definition.body, args |-> spec.args])
           /\ Apply(Start(app, Len(pressed) + 1, spec), [WithOptions(panel, options) EXCEPT !.form = FALSE])
    /\ UNCHANGED <<catalog, opens, contexts, commands, replies, up, outbox, daemon, faults>>

\* x: stop_human_macro
Stop ==
    /\ InList /\ up /\ Running(app.execution) /\ User
    /\ LET request == [do |-> "cancel", operation |-> app.execution.operation] IN
       /\ request \notin app.requests
       /\ Apply(IF Mine(app) /\ Room(1)
                THEN Result([app EXCEPT !.requests = @ \cup {request}], None, <<[is |-> "ask", request |-> request]>>)
                ELSE Result(app, IF Mine(app) THEN None ELSE FALSE, <<>>), panel)
    /\ UNCHANGED <<catalog, opens, contexts, commands, replies, up, outbox, daemon, pressed, faults>>

\* poll_human_macros, on each tick
Poll ==
    /\ up /\ app.requests = {} /\ Room(1)
    /\ app.operation # None \/ Running(app.execution)
    /\ LET request == [do |-> "status", operation |-> IF app.operation # None THEN app.operation
                                                      ELSE app.execution.operation]
       IN  Apply(Result([app EXCEPT !.requests = {request}], None, <<[is |-> "ask", request |-> request]>>), panel)
    /\ UNCHANGED <<catalog, opens, contexts, commands, replies, up, outbox, daemon, pressed, faults, keys>>

\* A line that the user types: the lease is no longer the Macro's.
Type ==
    /\ ~panel.open /\ up /\ Room(1) /\ Running(job) /\ User
    /\ Apply(Result(Released(app), None, <<[is |-> "command"]>>), panel)
    /\ UNCHANGED <<catalog, opens, contexts, commands, replies, up, outbox, daemon, pressed, faults>>

-----------------------------------------------------------------------------
(* The daemon and the connection *)

Event(execution) == [is |-> "event", execution |-> execution]
ControlEvent(view) == [is |-> "control", view |-> view]
EndedJob(status) == IF Running(job) THEN [job EXCEPT !.status = status] ELSE job
Sends(messages) == outbox' = IF up THEN outbox \o messages ELSE outbox
Space == Len(outbox) < Link
AtDaemon == UNCHANGED <<panels, app, up, pressed, keys>>

Grants(press) ==
    /\ leases < MaxLeases
    /\ leases' = leases + 1
    /\ control' = [mine |-> TRUE, lease |-> leases + 1]
    /\ Sends(<<[is |-> "granted", press |-> press, view |-> control']>>)

ServeAcquire(message) ==
    /\ \/ control = None /\ Grants(message.press) /\ UNCHANGED waiting
       \/ control # None /\ waiting' = message.press /\ UNCHANGED <<control, leases, outbox>>
    /\ UNCHANGED <<catalog, job, started, faults>>

RefuseAcquire(message) ==
    /\ faults < MaxFaults /\ faults' = faults + 1
    /\ Sends(<<[is |-> "refused", press |-> message.press]>>)
    /\ UNCHANGED <<catalog, control, leases, waiting, job, started>>

ServeRelease(message) ==
    /\ control' = IF control # None /\ control.lease = message.lease THEN None ELSE control
    /\ Sends(<<ControlEvent(control')>>)
    /\ UNCHANGED <<catalog, leases, waiting, job, started, faults>>

Begins(message) ==
    /\ control # None /\ ~Running(job)
    /\ control.mine /\ control.lease = message.lease
    /\ Prepared(message.spec.id, message.spec.revision, message.spec.args) # None

ServeStart(message) ==
    LET request == [do |-> "start", operation |-> message.operation]
        definition == Prepared(message.spec.id, message.spec.revision, message.spec.args)
    IN  /\ Look
        /\ IF Begins(message)
           THEN /\ job' = [operation |-> message.operation, status |-> "running"]
                /\ started' = Append(started, [press |-> message.operation, body |-> definition.body,
                                               args |-> message.spec.args])
                /\ Sends(<<[is |-> "result", request |-> request, execution |-> job']>>)
           ELSE /\ UNCHANGED <<job, started>>
                /\ Sends(<<[is |-> "error", request |-> request, missing |-> FALSE]>>)
        /\ UNCHANGED <<control, leases, waiting, faults>>

ServeAsk(message) ==
    LET known == job # None /\ job.operation = message.request.operation IN
    /\ job' = IF known /\ message.request.do = "cancel" THEN EndedJob("cancelled") ELSE job
    /\ Sends(<<IF known THEN [is |-> "result", request |-> message.request, execution |-> job']
               ELSE [is |-> "error", request |-> message.request, missing |-> TRUE]>>)
    /\ UNCHANGED <<catalog, control, leases, waiting, started, faults>>

ServeCommand ==
    /\ job' = EndedJob("interrupted")
    /\ Sends(IF Running(job) THEN <<Event(job')>> ELSE <<>>)
    /\ UNCHANGED <<catalog, control, leases, waiting, started, faults>>

Serve ==
    /\ inbox # <<>> /\ Space /\ inbox' = Tail(inbox)
    /\ LET message == Head(inbox) IN
       \/ message.is = "acquire" /\ (ServeAcquire(message) \/ RefuseAcquire(message))
       \/ message.is = "release" /\ ServeRelease(message)
       \/ message.is = "start" /\ ServeStart(message)
       \/ message.is = "ask" /\ ServeAsk(message)
       \/ message.is = "command" /\ ServeCommand
    /\ AtDaemon

\* The queued request is answered when the line is free.
GrantQueued ==
    /\ waiting # None /\ control = None /\ Space
    /\ Grants(waiting) /\ waiting' = None
    /\ AtDaemon /\ UNCHANGED <<catalog, inbox, job, started, faults>>

JobEnds ==
    /\ Running(job) /\ Space
    /\ job' = EndedJob("done")
    /\ Sends(<<Event(job')>>)
    /\ AtDaemon /\ UNCHANGED <<catalog, inbox, control, leases, waiting, started, faults>>

\* Another client takes the line, and gives it back.
TakeOver ==
    /\ Space /\ faults < MaxFaults /\ leases < MaxLeases
    /\ control # None => control.mine
    /\ control' = [mine |-> FALSE, lease |-> leases + 1]
    /\ leases' = leases + 1 /\ faults' = faults + 1
    /\ job' = EndedJob("lost")
    /\ Sends(<<ControlEvent(control')>> \o (IF Running(job) THEN <<Event(job')>> ELSE <<>>))
    /\ AtDaemon /\ UNCHANGED <<catalog, inbox, waiting, started>>

GiveBack ==
    /\ Space /\ control # None /\ ~control.mine
    /\ control' = None
    /\ Sends(<<ControlEvent(None)>>)
    /\ AtDaemon /\ UNCHANGED <<catalog, inbox, leases, waiting, job, started, faults>>

\* The device is opened anew: what was asked of the old session is dropped.
NewSession ==
    /\ up /\ Space /\ faults < MaxFaults /\ faults' = faults + 1
    /\ control' = None /\ waiting' = None /\ job' = EndedJob("lost")
    /\ Sends(<<[is |-> "session"]>> \o (IF Running(job) THEN <<Event(job')>> ELSE <<>>))
    /\ AtDaemon /\ UNCHANGED <<catalog, inbox, leases, started>>

\* Another client saves over what it has read.
OtherSaves ==
    /\ faults < MaxFaults /\ faults' = faults + 1
    /\ \E id \in Ids, body \in Others :
          Save([id |-> id, body |-> body, expected |-> IF Loaded[id] = None THEN None ELSE Loaded[id].revision])
    /\ AtDaemon /\ UNCHANGED <<inbox, outbox, control, leases, waiting, job, started>>

\* NetworkEvent::Disconnected, and the connection after it.  A restart ends the job too.
Lost(a) == [a EXCEPT !.requests = {}, !.pending = None, !.acquiring = None, !.view = None]

Disconnect ==
    /\ up /\ faults < MaxFaults /\ faults' = faults + 1
    /\ up' = FALSE /\ inbox' = <<>> /\ outbox' = <<>>
    /\ app' = Lost(app)
    /\ panel' = IF panel.open /\ (app.requests # {} \/ app.pending # None) THEN [panel EXCEPT !.busy = FALSE]
                ELSE panel
    /\ control' = None /\ waiting' = None
    /\ \/ job' = EndedJob("lost") /\ UNCHANGED catalog
       \/ job' = None /\ Restart
    /\ UNCHANGED <<opens, contexts, commands, replies, leases, started, pressed, keys>>

Reconnect ==
    /\ ~up /\ up' = TRUE
    /\ app' = [app EXCEPT !.view = control]
    /\ UNCHANGED <<catalog, panels, inbox, outbox, daemon, pressed, faults, keys>>

-----------------------------------------------------------------------------

Init ==
    /\ file \in Starts /\ CatalogInit
    /\ panel = NewPanel /\ opens = 0 /\ contexts = <<>> /\ commands = <<>> /\ replies = <<>>
    /\ app = [operation |-> None, execution |-> None, requests |-> {}, pending |-> None,
              acquiring |-> None, temporary |-> None, view |-> None]
    /\ up = TRUE /\ inbox = <<>> /\ outbox = <<>>
    /\ control = None /\ leases = 0 /\ waiting = None /\ job = None
    /\ pressed = <<>> /\ started = <<>> /\ keys = 0 /\ faults = 0

Next ==
    \/ Task \/ TaskFails \/ Reply
    \/ Open \/ Close \/ Move \/ Refresh \/ OpenEditor \/ Edit \/ LeaveEditor \/ SaveDraft
    \/ OpenForm \/ LeaveForm \/ FillTimeout \/ FillField \/ Press \/ Stop \/ Poll \/ Type \/ Receive
    \/ Serve \/ GrantQueued \/ JobEnds \/ TakeOver \/ GiveBack \/ NewSession \/ OtherSaves
    \/ Disconnect \/ Reconnect

Spec == Init /\ [][Next]_vars

-----------------------------------------------------------------------------
(* The properties *)

TypeOK ==
    /\ CatalogTypeOK
    /\ Len(contexts) = Len(commands) + Len(replies)
    /\ panel.definition \in Definition \cup {None}
    /\ Len(inbox) <= Link

\* What the daemon runs for a press of Ctrl-R is the definition that the panel showed at
\* that press, with the values of its form, which fit it, and it runs once at most,
\* whoever saved the Macro in between, however long the line was awaited and whatever
\* connection was lost (run_selected, start_human_macro and prepare).
RunsAsShown ==
    \A i \in DOMAIN started :
       /\ started[i].body = pressed[started[i].press].body
       /\ started[i].args = pressed[started[i].press].args
       /\ TypedArgs(started[i].body, started[i].args)
       /\ \A j \in DOMAIN started : started[j].press = started[i].press => i = j

\* A panel that takes no keys has an answer of the catalog to come, or a request of a
\* Macro or a start that waits for control on record, any of which ends the wait
\* (handle_macro_action, macro_failure).
BusyEnds ==
    panel.open /\ panel.busy =>
        (\E i \in DOMAIN contexts : contexts[i] = opens) \/ app.requests # {} \/ app.pending # None

=============================================================================
