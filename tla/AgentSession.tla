---------------------------- MODULE AgentSession ----------------------------
(***************************************************************************)
(* The session of serial-mcp (session.rs): one task that holds the Agent's   *)
(* connection to the daemon, its control leases and its Runs, and serves the *)
(* tool calls one after the other.  A tool call pins its Run with a guard;   *)
(* a guard that is dropped says so over a channel of its own, perhaps long    *)
(* after the Run has ended and another has begun.  A caller may vanish while *)
(* its request waits or is served, a Run may be approved, revoked or lost     *)
(* with the connection at any moment, and an answer may never come.          *)
(*                                                                         *)
(* The session is a record s, and what the task does with it between two      *)
(* awaits is a function of it.  The daemon is abstract: Slot and Requests     *)
(* model it.                                                               *)
(***************************************************************************)
EXTENDS Naturals, Sequences, FiniteSets

CONSTANTS
    None,
    Ports, Callers,
    MaxRuns,        \* bounds: Runs of each port,
    MaxConns,       \* connections,
    MaxWrites,      \* writes,
    MaxCalls        \* and requests of the callers

ASSUME BoundsAssumption ==
    /\ MaxRuns \in Nat /\ MaxConns \in Nat /\ MaxWrites \in Nat /\ MaxCalls \in Nat
    /\ IsFiniteSet(Callers)

Run(port, n) == [port |-> port, n |-> n]
Runs == [port : Ports, n : 1..MaxRuns]
Conns == 1..MaxConns
Writes == 1..MaxWrites

VARIABLES
    s,          \* SessionState: conn, lease and owned of each port, ttl; and the writes it told of
    op,         \* the request that the task is at, None between requests
    queue,      \* requests of the callers
    ended,      \* EndUse messages of dropped guards: their Runs
    caller,     \* what each caller waits for, its guard, and the handles that were given out
    daemon,     \* connections, holder and Run start of each port, request and answer under way
    written     \* writes that reached the device

calls == <<queue, ended, caller>>
vars == <<s, op, calls, daemon, written>>

-----------------------------------------------------------------------------
(* The session's state *)

NoRun == [p \in Ports |-> None]
OwnedRun(run) == [run |-> run, uses |-> 0, idle |-> FALSE]

Disconnected(t) == [t EXCEPT !.conn = 0, !.lease = NoRun, !.owned = NoRun]
Forgotten(t, port) == [t EXCEPT !.lease[port] = None, !.owned[port] = None]
Owns(t, run) == t.owned[run.port] # None /\ t.owned[run.port].run = run
IdleExpired(t, port) ==
    t.ttl /\ t.owned[port] # None /\ t.owned[port].uses = 0 /\ t.owned[port].idle

\* A use fewer; the idle time of a Run begins when its last use ends.
Unpinned(owned) == [owned EXCEPT !.uses = owned.uses - 1, !.idle = owned.idle /\ owned.uses > 1]

\* Mutant of EndRunUse: a guard of an old Run unpins the new one.
EndRunUseAny(t, run) ==
    LET owned == t.owned[run.port]
    IN IF owned = None THEN t
       ELSE IF owned.uses = 0 THEN t
       ELSE [t EXCEPT !.owned[run.port] = Unpinned(owned)]

\* end_run_use
EndRunUse(t, run) ==
    LET owned == t.owned[run.port]
    IN IF ~Owns(t, run) THEN t
       ELSE IF owned.uses = 0 THEN t
       ELSE [t EXCEPT !.owned[run.port] = Unpinned(owned)]

\* What a caller is told of a write.
Tell(t, w, what) == [t EXCEPT !.told[w] = what]

-----------------------------------------------------------------------------
(* Requests and calls *)

Request(kind, c, port, run, w) ==
    [kind |-> kind, caller |-> c, port |-> port, run |-> run, write |-> w, at |-> "start",
     pending |-> FALSE, idle |-> {}, rest |-> {}, then |-> None]
Renewal(t, then) ==
    [Request("renew", None, None, None, 0) EXCEPT
        !.idle = {p \in Ports : IdleExpired(t, p)},
        !.rest = {p \in Ports : t.owned[p] # None /\ ~IdleExpired(t, p)}, !.then = then]

Message(t, kind, port, o) ==
    [conn |-> t.conn, kind |-> kind, port |-> port, lease |-> t.lease[port], run |-> o.run, write |-> o.write]

\* call_with_timeout sends; the task then waits at `at`.  Without a connection it
\* connects first, which forgets everything, or fails: then the call has lost.
Call(t, o, at, kind, port) ==
    /\ op' = [o EXCEPT !.at = at]
    /\ \/ /\ t.conn # 0
          /\ s' = t
          /\ daemon' = [daemon EXCEPT !.inbox = @ \cup {Message(t, kind, port, o)}]
       \/ /\ t.conn = 0 /\ daemon.made < MaxConns
          /\ LET u == [Disconnected(t) EXCEPT !.conn = daemon.made + 1]
             IN /\ s' = u
                /\ daemon' = [daemon EXCEPT !.made = @ + 1, !.conns = @ \cup {daemon.made + 1},
                                            !.inbox = @ \cup {Message(u, kind, port, o)}]
       \/ /\ t.conn = 0
          /\ s' = Disconnected(t)
          /\ UNCHANGED daemon

\* The request is answered: the caller hears it, unless it is gone.
Hears(o, guard) ==
    /\ op' = o.then
    /\ IF o.caller = None
       THEN UNCHANGED caller /\ ended' = IF guard # None THEN Append(ended, guard) ELSE ended
       ELSE /\ UNCHANGED ended
            /\ caller' = [caller EXCEPT !.waits[o.caller] = None,
                                        !.guard[o.caller] = IF guard # None THEN guard ELSE @]

Reply(t, o) == s' = t /\ Hears(o, None) /\ UNCHANGED <<queue, daemon, written>>

\* best_effort_release: nothing is kept here, whatever the daemon says.
Release(t, o) ==
    LET port == o.port
        lease == t.lease[port]
        u == Forgotten(t, port)
    IN IF lease = None \/ t.conn = 0 THEN Reply(u, o)
       ELSE /\ s' = u
            /\ op' = [o EXCEPT !.at = "released"]
            /\ daemon' = [daemon EXCEPT !.inbox = @ \cup {[Message(t, "release", port, o) EXCEPT !.lease = lease]}]
            /\ UNCHANGED <<calls, written>>

\* renew_owned_run_control, which every physical action begins with.
Renew(t, o, refused) ==
    IF ~Owns(t, o.run) THEN Reply(refused, o)
    ELSE IF t.conn = 0 \/ t.lease[o.port] = None THEN Reply(Disconnected(refused), o)
    ELSE Call(t, o, "renewed", "renew", o.port) /\ UNCHANGED <<calls, written>>

Unwritten(t, o) == IF o.kind = "write" THEN Tell(t, o.write, "unwritten") ELSE t

-----------------------------------------------------------------------------
(* The requests *)

\* begin_run_use
BeginRunUse(o) ==
    IF ~Owns(s, o.run) THEN Reply(s, o)
    ELSE IF IdleExpired(s, o.port) THEN Release(s, o)
    ELSE /\ s' = [s EXCEPT !.owned[o.port].uses = @ + 1]
         /\ Hears(o, o.run)
         /\ UNCHANGED <<queue, daemon, written>>

\* start_run_with_policy: one turn of its loop.  late is its deadline.
StartRun(o, late) ==
    IF o.at = "start" /\ s.owned[o.port] # None THEN Reply(s, o)
    ELSE IF o.caller = None \/ late
    THEN IF o.pending THEN Call(s, o, "cancelled", "cancel", o.port) /\ UNCHANGED <<calls, written>>
         ELSE Reply(s, o)
    ELSE Call(s, o, "polled", "start", o.port) /\ UNCHANGED <<calls, written>>

\* write, send_break, and the start of a Macro, which a wrong Run does not disconnect;
\* end_run.  All renew first.
Physical(o) == Renew(s, o, Unwritten(s, o))

\* abort_run
AbortRun(o) ==
    IF s.lease[o.port] = None THEN Reply([s EXCEPT !.owned[o.port] = None], o)
    ELSE IF ~Owns(s, o.run) THEN Reply(s, o)
    ELSE Call(s, o, "aborted", "release", o.port) /\ UNCHANGED <<calls, written>>

\* renew_all: first the abandoned Runs, then the leases of the others.
RenewAll(o) ==
    IF s.owned = NoRun \/ (o.idle = {} /\ o.rest = {}) THEN Reply(s, o)
    ELSE IF s.conn = 0 \/ \E p \in o.rest : s.lease[p] = None THEN Reply(Disconnected(s), o)
    ELSE IF o.idle # {}
    THEN \E p \in o.idle : Release(s, [o EXCEPT !.idle = @ \ {p}, !.port = p])
    ELSE \E p \in o.rest :
            Call(s, [o EXCEPT !.rest = @ \ {p}, !.port = p], "kept", "renew", p) /\ UNCHANGED <<calls, written>>

\* acknowledge_run_context and record_command_capture, which need no lease, and the
\* status of a Macro.
Query(o) == Call(s, o, "asked", "query", o.port) /\ UNCHANGED <<calls, written>>

Handle(o) ==
    \/ o.kind = "begin" /\ BeginRunUse(o)
    \/ o.kind = "start" /\ \E late \in {FALSE, o.pending} : StartRun(o, late)
    \/ o.kind \in {"write", "end"} /\ Physical(o)
    \/ o.kind = "abort" /\ AbortRun(o)
    \/ o.kind = "query" /\ Query(o)
    \/ o.kind = "renew" /\ RenewAll(o)

\* The next turn of a request that is at it already.
Continue == op # None /\ op.at \in {"start", "again"} /\ Handle(op)

\* run_session: a tick of the clock and dropped guards come before requests.
Tick == op = None /\ s.owned # NoRun /\ op' = Renewal(s, None) /\ UNCHANGED <<s, calls, daemon, written>>

EndUse ==
    /\ op = None /\ ended # <<>>
    /\ s' = EndRunUse(s, Head(ended)) /\ ended' = Tail(ended)
    /\ UNCHANGED <<op, queue, caller, daemon, written>>

Take ==
    /\ op = None /\ ended = <<>> /\ queue # <<>>
    /\ op' = Head(queue) /\ queue' = Tail(queue)
    /\ UNCHANGED <<s, ended, caller, daemon, written>>

\* UpdateRunIdleTtl
UpdateTtl ==
    /\ op = None /\ ended = <<>> /\ queue = <<>> /\ s.ttl
    /\ s' = [s EXCEPT !.ttl = FALSE]
    /\ op' = Renewal(s', None)
    /\ UNCHANGED <<calls, daemon, written>>

\* Time passes over an unused Run.
GrowIdle(port) ==
    /\ s.owned[port] # None
    /\ s.owned[port].uses = 0 /\ ~s.owned[port].idle
    /\ s' = [s EXCEPT !.owned[port].idle = TRUE]
    /\ UNCHANGED <<op, calls, daemon, written>>

-----------------------------------------------------------------------------
(* The answers *)

Renewed(t) == [t EXCEPT !.lease[op.port] = daemon.answer.lease]

\* After the renewal: the write or the end of the Run.
AfterRenewal(t) ==
    IF daemon.answer.result = "renewed"
    THEN /\ s' = Renewed(t)
         /\ op' = [op EXCEPT !.at = IF op.kind = "write" THEN "wrote" ELSE "stopped"]
         /\ daemon' = [daemon EXCEPT !.answer = None, !.inbox = @ \cup {Message(s', op.kind, op.port, op)}]
         /\ UNCHANGED <<calls, written>>
    ELSE /\ s' = Disconnected(Unwritten(t, op)) /\ Hears(op, None)
         /\ daemon' = [daemon EXCEPT !.answer = None] /\ UNCHANGED <<queue, written>>

\* The classification of a write's answer.
AfterWrite(t, result) ==
    CASE result = "written" -> Tell(t, op.write, "written")
      [] result = "uncertain" -> Tell(t, op.write, "uncertain")
      [] result = "boundary" -> Tell(t, op.write, "unwritten")
      [] result \in {"run", "control"} -> Disconnected(Tell(t, op.write, "unwritten"))

Answered(t) ==
    /\ s' = t /\ Hears(op, None)
    /\ daemon' = [daemon EXCEPT !.answer = None] /\ UNCHANGED <<queue, written>>
Next1(t, o) ==
    /\ s' = t /\ op' = o
    /\ daemon' = [daemon EXCEPT !.answer = None] /\ UNCHANGED <<calls, written>>
SendRelease(t, o, lease) ==
    /\ s' = t /\ op' = [o EXCEPT !.at = "released"]
    /\ daemon' = [daemon EXCEPT !.answer = None,
                    !.inbox = @ \cup {[Message(t, "release", o.port, o) EXCEPT !.lease = lease]}]
    /\ UNCHANGED <<calls, written>>

\* A Run start is granted, refused, or still pending; the loop may renew the other
\* Runs' leases before it asks again.
AfterPoll(t, result, run) ==
    CASE result = "granted" ->
            IF op.caller = None THEN SendRelease(t, op, run)
            ELSE /\ s' = [t EXCEPT !.lease[op.port] = run, !.owned[op.port] = OwnedRun(run)]
                 /\ op' = None
                 /\ caller' = [caller EXCEPT !.waits[op.caller] = None, !.handles = @ \cup {run}]
                 /\ daemon' = [daemon EXCEPT !.answer = None] /\ UNCHANGED <<queue, ended, written>>
      [] result = "pending" ->
            LET again == [op EXCEPT !.at = "again", !.pending = TRUE]
            IN \/ Next1(t, again)
               \/ t.owned # NoRun /\ Next1(t, Renewal(t, again))
      [] result = "denied" -> Answered(t)
      [] result = "error" -> Answered(Disconnected(t))

Answer(t, result) ==
    CASE op.at = "renewed" -> AfterRenewal(t)
      [] op.at = "wrote" -> Answered(AfterWrite(t, result))
      [] op.at = "stopped" ->
            IF result = "ended" THEN SendRelease(Forgotten(t, op.port), op, t.lease[op.port])
            ELSE Answered(Disconnected(t))
      [] op.at = "aborted" -> Answered(Forgotten(t, op.port))
      [] op.at = "asked" -> Answered(t)
      [] op.at = "cancelled" -> Answered(IF result = "cancelled" THEN t ELSE Disconnected(t))
      [] op.at = "polled" -> AfterPoll(t, result, daemon.answer.lease)
      [] op.at = "released" -> IF op.kind = "renew" THEN Next1(t, [op EXCEPT !.at = "again"]) ELSE Answered(t)
      [] op.at = "kept" ->
            IF result = "renewed" THEN Next1(Renewed(t), [op EXCEPT !.at = "again"])
            ELSE Answered(Disconnected(t))

Waiting == op # None /\ op.at \notin {"start", "again"}
Receive == Waiting /\ daemon.answer # None /\ Answer(s, daemon.answer.result)

\* A timeout or the end of the connection: everything is forgotten, and only a write
\* that was sent is uncertain.  A Run start whose renewal lost the connection is over.
Lost ==
    /\ Waiting
    /\ op.kind = "query" => op.pending
    /\ LET t == Disconnected(s)
           outcome == IF op.at = "wrote" THEN Tell(t, op.write, "uncertain") ELSE Unwritten(t, op)
           o == IF op.then # None THEN op.then ELSE op
       IN s' = outcome /\ Hears([o EXCEPT !.then = None], None)
    /\ daemon' = [daemon EXCEPT !.answer = None]
    /\ UNCHANGED <<queue, written>>

\* The status of a Macro, which changes nothing, is asked for once more.
LostQuery ==
    /\ Waiting /\ op.kind = "query" /\ ~op.pending
    /\ s' = Disconnected(s)
    /\ daemon' = [daemon EXCEPT !.answer = None]
    /\ \/ op' = [op EXCEPT !.at = "again", !.pending = TRUE] /\ UNCHANGED calls
       \/ Hears(op, None) /\ UNCHANGED queue
    /\ UNCHANGED written

-----------------------------------------------------------------------------
(* The callers: tools that hold a handle *)

Ask(c, kind, port, run, w) ==
    /\ caller.waits[c] = None /\ caller.calls < MaxCalls
    /\ queue' = Append(queue, Request(kind, c, port, run, w))
    /\ caller' = [caller EXCEPT !.waits[c] = kind, !.calls = @ + 1]
    /\ UNCHANGED <<s, op, ended, daemon, written>>

AskStart(c, port) == caller.guard[c] = None /\ Ask(c, "start", port, None, 0)
AskUse(c, run) == caller.guard[c] = None /\ Ask(c, "begin", run.port, run, 0)
AskQuery(c) == caller.guard[c] # None /\ Ask(c, "query", caller.guard[c].port, caller.guard[c], 0)
AskEnd(c, kind) ==
    caller.guard[c] # None /\ Ask(c, kind, caller.guard[c].port, caller.guard[c], 0)
AskWrite(c, w) ==
    /\ caller.guard[c] # None /\ s.told[w] = None
    /\ w > 1 => s.told[w - 1] # None
    /\ \A i \in DOMAIN queue : queue[i].write # w
    /\ op # None => op.write # w
    /\ Ask(c, "write", caller.guard[c].port, caller.guard[c], w)

\* The tool call is over, or it is cancelled while it waits: its guard is dropped, and
\* what it asked for goes on without it.
Gone(r, c) == IF r = None THEN r ELSE IF r.caller = c THEN [r EXCEPT !.caller = None] ELSE r
Drop(c) ==
    /\ caller.guard[c] # None \/ caller.waits[c] # None
    /\ caller' = [caller EXCEPT !.guard[c] = None, !.waits[c] = None]
    /\ ended' = IF caller.guard[c] # None THEN Append(ended, caller.guard[c]) ELSE ended
    /\ queue' = [i \in DOMAIN queue |-> Gone(queue[i], c)]
    /\ op' = IF op = None THEN None ELSE [Gone(op, c) EXCEPT !.then = Gone(op.then, c)]
    /\ UNCHANGED <<s, daemon, written>>

-----------------------------------------------------------------------------
(* The daemon *)

Holds(m) == daemon.holder[m.port] # None
            /\ daemon.holder[m.port].conn = m.conn /\ daemon.holder[m.port].lease = m.lease

\* What it does with a request: the new state, and the answer.
Serves(m, d, result, lease) ==
    daemon' = [d EXCEPT !.inbox = @ \ {m},
                        !.answer = IF m.conn = s.conn THEN [result |-> result, lease |-> lease] ELSE @]

ServeControl(m) ==
    /\ UNCHANGED written
    /\ CASE m.kind = "query" -> Serves(m, daemon, "told", None)
         [] m.kind = "renew" -> Serves(m, daemon, IF Holds(m) THEN "renewed" ELSE "control", m.lease)
         [] m.kind = "release" ->
                IF Holds(m) THEN Serves(m, [daemon EXCEPT !.holder[m.port] = None], "released", None)
                ELSE Serves(m, daemon, "control", None)
         [] m.kind = "end" ->
                IF Holds(m) /\ daemon.holder[m.port].run
                THEN Serves(m, [daemon EXCEPT !.holder[m.port].run = FALSE], "ended", None)
                ELSE Serves(m, daemon, "control", None)

ServeWrite(m, result) ==
    /\ m.kind = "write"
    /\ IF ~Holds(m) THEN result = "control"
       ELSE IF ~daemon.holder[m.port].run THEN result \in {"run", "boundary"}
       ELSE result \in {"written", "uncertain", "boundary"}
    /\ written' \in {written \cup w : w \in CASE result = "written" -> {{m.write}}
                                             [] result = "uncertain" -> {{}, {m.write}}
                                             [] OTHER -> {{}}}
    /\ Serves(m, daemon, result, None)

\* RequestRunStart is answered by what became of the request; CancelRunStart only
\* where it is still pending.
ServeStart(m) ==
    LET start == daemon.start[m.port]
    IN /\ UNCHANGED written
       /\ CASE m.kind = "start" /\ start # None /\ start.conn # m.conn -> Serves(m, daemon, "error", None)
            [] m.kind = "start" /\ start # None /\ start.conn = m.conn ->
                 IF start.state = "pending" THEN Serves(m, daemon, "pending", None)
                 ELSE Serves(m, [daemon EXCEPT !.start[m.port] = None], start.state,
                             IF start.state = "granted" THEN start.run ELSE None)
            [] m.kind = "start" /\ start = None ->
                 IF daemon.holder[m.port] # None THEN Serves(m, daemon, "error", None)
                 ELSE Serves(m, [daemon EXCEPT !.start[m.port] =
                                    [conn |-> m.conn, state |-> "pending", run |-> None]], "pending", None)
            [] m.kind = "cancel" ->
                 IF start # None /\ start.conn = m.conn /\ start.state = "pending"
                 THEN Serves(m, [daemon EXCEPT !.start[m.port] = None], "cancelled", None)
                 ELSE Serves(m, daemon, "error", None)

Serve(m) ==
    /\ m.conn \in daemon.conns
    /\ \/ m.kind \in {"query", "renew", "release", "end"} /\ ServeControl(m)
       \/ \E result \in {"written", "uncertain", "boundary", "run", "control"} : ServeWrite(m, result)
       \/ m.kind \in {"start", "cancel"} /\ ServeStart(m)
    /\ UNCHANGED <<s, op, calls>>

\* The Human decides, or nobody does in time.
Decide(port, approve) ==
    /\ daemon.start[port] # None /\ daemon.start[port].state = "pending"
    /\ daemon.runs[port] < MaxRuns
    /\ LET run == Run(port, daemon.runs[port] + 1)
       IN daemon' = IF approve
                    THEN [daemon EXCEPT !.start[port] = [conn |-> daemon.start[port].conn, state |-> "granted", run |-> run],
                            !.runs[port] = @ + 1,
                            !.holder[port] = [conn |-> daemon.start[port].conn, lease |-> run, run |-> TRUE]]
                    ELSE [daemon EXCEPT !.start[port].state = "denied"]
    /\ UNCHANGED <<s, op, calls, written>>

\* The Human takes over, or the lease expires: the Run is aborted.
Revoke(port) ==
    /\ daemon.holder[port] # None
    /\ daemon' = [daemon EXCEPT !.holder[port] = None]
    /\ UNCHANGED <<s, op, calls, written>>

\* The daemon finds a connection closed; it may be the first to know.
Closed(conn) ==
    /\ conn \in daemon.conns
    /\ LET Without(f) == [p \in Ports |-> IF f[p] = None THEN None ELSE IF f[p].conn = conn THEN None ELSE f[p]]
       IN daemon' = [daemon EXCEPT !.conns = @ \ {conn}, !.inbox = {m \in @ : m.conn # conn},
                                   !.holder = Without(@), !.start = Without(@)]
    /\ UNCHANGED <<s, op, calls, written>>

-----------------------------------------------------------------------------

Init ==
    /\ s = [conn |-> 0, lease |-> NoRun, owned |-> NoRun, ttl |-> TRUE, told |-> [w \in Writes |-> None]]
    /\ op = None /\ queue = <<>> /\ ended = <<>>
    /\ caller = [waits |-> [c \in Callers |-> None], guard |-> [c \in Callers |-> None],
                 handles |-> {}, calls |-> 0]
    /\ daemon = [conns |-> {}, made |-> 0, holder |-> NoRun, start |-> NoRun, inbox |-> {}, answer |-> None,
                 runs |-> [p \in Ports |-> 0]]
    /\ written = {}

Task == Continue \/ Tick \/ EndUse \/ Take \/ UpdateTtl \/ Receive \/ Lost \/ LostQuery

Next ==
    \/ Task
    \/ \E port \in Ports : GrowIdle(port) \/ Revoke(port) \/ \E approve \in BOOLEAN : Decide(port, approve)
    \/ \E c \in Callers :
        \/ \E port \in Ports : AskStart(c, port)
        \/ \E run \in caller.handles : AskUse(c, run)
        \/ \E kind \in {"end", "abort"} : AskEnd(c, kind)
        \/ AskQuery(c)
        \/ \E w \in Writes : AskWrite(c, w)
        \/ Drop(c)
    \/ \E m \in daemon.inbox : Serve(m)
    \/ \E conn \in daemon.conns : Closed(conn)

Spec == Init /\ [][Next]_vars

-----------------------------------------------------------------------------
(* Properties *)

OwnedRuns == [run : Runs, uses : Nat, idle : BOOLEAN]
SessionState ==
    [conn : {0} \cup Conns, lease : [Ports -> Runs \cup {None}], owned : [Ports -> OwnedRuns \cup {None}],
     ttl : BOOLEAN, told : [Writes -> {"written", "unwritten", "uncertain", None}]]
RequestOf(nested) ==
    [kind : {"start", "begin", "write", "end", "abort", "query", "renew"}, caller : Callers \cup {None},
     port : Ports \cup {None}, run : Runs \cup {None}, write : {0} \cup Writes,
     at : {"start", "again", "polled", "cancelled", "renewed", "wrote", "stopped", "aborted", "released",
           "asked", "kept"},
     pending : BOOLEAN, idle : SUBSET Ports, rest : SUBSET Ports, then : nested]
Simple == RequestOf({None})
CallerState ==
    [waits : [Callers -> {"start", "begin", "write", "end", "abort", "query", None}],
     guard : [Callers -> Runs \cup {None}], handles : SUBSET Runs, calls : 0..MaxCalls]
Messages ==
    [conn : Conns, kind : {"start", "cancel", "renew", "release", "write", "end", "query"}, port : Ports,
     lease : Runs \cup {None}, run : Runs \cup {None}, write : {0} \cup Writes]
Answers ==
    [result : {"granted", "pending", "denied", "error", "cancelled", "renewed", "control", "released",
               "written", "uncertain", "boundary", "run", "ended", "told"},
     lease : Runs \cup {None}]
Holders == [conn : Conns, lease : Runs, run : BOOLEAN]
Starts == [conn : Conns, state : {"pending", "granted", "denied"}, run : Runs \cup {None}]
DaemonState ==
    [conns : SUBSET Conns, made : {0} \cup Conns, holder : [Ports -> Holders \cup {None}],
     start : [Ports -> Starts \cup {None}], inbox : SUBSET Messages, answer : Answers \cup {None},
     runs : [Ports -> 0..MaxRuns]]

\* None is no caller, no port and none of the values that stand beside it.
ASSUME NoneAssumption ==
    /\ None \notin Callers \cup Ports \cup Runs
    /\ None \notin {"written", "unwritten", "uncertain"}
    /\ None \notin {"start", "begin", "write", "end", "abort", "query"}
    /\ None \notin OwnedRuns /\ None \notin RequestOf(Simple \cup {None})
ASSUME EntriesAssumption == None \notin Answers \cup Holders \cup Starts

\* The variables have their types.
TypeOK ==
    /\ s \in SessionState /\ op \in RequestOf(Simple \cup {None}) \cup {None}
    /\ queue \in Seq(Simple) /\ ended \in Seq(Runs)
    /\ caller \in CallerState /\ daemon \in DaemonState
    /\ written \subseteq Writes

\* A Run's count of uses is the number of its guards that are held, or dropped and not
\* yet counted: a Run in use is never given up as abandoned, an unused one always is
\* in the end, and the guard of an old Run does not touch its successor.
UsesExact ==
    \A p \in Ports : s.owned[p] # None =>
        s.owned[p].uses =
            Cardinality({c \in Callers : caller.guard[c] = s.owned[p].run})
            + Cardinality({i \in DOMAIN ended : ended[i] = s.owned[p].run})

\* Between requests the daemon has no Run and no pending Run start of the Agent's
\* connection that the session does not know of: whatever a Run start, its caller or
\* its approval came to, "no Run remains owned by this MCP".
NothingOrphaned ==
    op = None /\ s.conn # 0 =>
        \A p \in Ports :
            /\ daemon.start[p] # None => daemon.start[p].conn # s.conn
            /\ daemon.holder[p] # None /\ daemon.holder[p].conn = s.conn =>
                 s.owned[p] # None /\ s.lease[p] = daemon.holder[p].lease

\* A write of which a caller was told that no bytes were written has not reached the
\* device and never will, and one it was told of as written has.
ToldTruthfully ==
    \A w \in Writes :
        /\ s.told[w] = "unwritten" => w \notin written /\ \A m \in daemon.inbox : m.kind = "write" => m.write # w
        /\ s.told[w] = "written" => w \in written

\* A Run that the session owns has its lease, and neither outlives the connection.
OwnedHasLease ==
    \A p \in Ports : s.owned[p] # None => s.conn # 0 /\ s.lease[p] = s.owned[p].run

\* The session keeps exact count of who uses a Run, owns no Run without its lease, leaves
\* none behind in the daemon, and never tells the Agent wrongly that its bytes were or
\* were not written (session.rs).
RunsAccounted == UsesExact /\ OwnedHasLease /\ NothingOrphaned /\ ToldTruthfully
=============================================================================
