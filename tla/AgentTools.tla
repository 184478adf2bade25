----------------------------- MODULE AgentTools -----------------------------
(***************************************************************************)
(* The tools of serial-mcp on one port (tools.rs, tools/macros.rs) and the   *)
(* requests that call them (mcp.rs).  Tool calls run side by side.  They     *)
(* share the cursor that reading has reached, the cursor of the last          *)
(* operation, the note that the context changed, and the lock that physical   *)
(* actions take; between any two of their questions to the daemon, Humans     *)
(* and other calls may act, and a call that only observes may be cancelled:    *)
(* its answer is then an error, without what it had found.                    *)
(*                                                                         *)
(* The timeline is a sequence of events of one daemon epoch: a new epoch      *)
(* takes the Run with it, and run_start then begins with fresh cursors.  What *)
(* a capture matches, and whether it times out, is a free choice.            *)
(***************************************************************************)
EXTENDS Naturals, Sequences, FiniteSets, SequencesExt

CONSTANTS
    None,
    Calls,          \* requests that are active at the same time
    Offered,        \* the tools that they call
    Ring, Page,     \* events that the ring keeps, and that a read returns
    MaxHead, MaxCalls, MaxRuns      \* bounds: events, calls, Runs

VARIABLES
    tools,      \* AgentTools: live cursor, operation cursor, pending context, write lock
    call,       \* what each active request is at
    slot,       \* the daemon: timeline, Run and its start, Run context, macro
    seen        \* what live reads returned to the Agent, what it was told of, what cancelled
                \* reads had acknowledged, whether two calls crossed

vars == <<tools, call, slot, seen>>

-----------------------------------------------------------------------------
(* The daemon *)

Event(kind, by) == [kind |-> kind, by |-> by]
IsTx(e) == e.kind \in {"own", "next", "human", "other"}
ThirdParty(e) == e.kind \in {"human", "other"}

Top(d) == Len(d.log)
Oldest(d) == IF Top(d) > Ring THEN Top(d) - Ring + 1 ELSE 1
TxOffset(d) == Cardinality({n \in 1..Top(d) : IsTx(d.log[n])})
\* What somebody else did, from one event to another.
Acts(from, upto) == {n \in from..upto : n <= Len(slot.log) /\ ThirdParty(slot.log[n])}
Emit(d, kind, by) == [d EXCEPT !.log = Append(@, Event(kind, by))]
Gated(d) == d.ctx.revision > d.ctx.acknowledged
NoContext == [revision |-> 0, acknowledged |-> 0, human |-> 0]

\* validate_sequence_write_precondition
Precondition(d, cursor, offset) ==
    /\ TxOffset(d) = offset
    /\ cursor + 1 >= Oldest(d)
    /\ \A n \in (cursor + 1)..Top(d) : ~IsTx(d.log[n])

\* recent_activity and summarize_recent_context: somebody else acted after prev and up
\* to cur, or the ring cannot tell.  Without the session's identity its own events are
\* somebody else's.
ContextBetween(d, prev, cur, known) ==
    \/ prev + 1 < Oldest(d)
    \/ \E n \in (prev + 1)..cur : n <= Top(d) /\ (ThirdParty(d.log[n]) \/ (~known /\ IsTx(d.log[n])))

-----------------------------------------------------------------------------
(* What the calls share *)

Remember(t, cursor) == [t EXCEPT !.live = IF @ < cursor THEN cursor ELSE @]

Request(tool, run) ==
    [tool |-> tool, at |-> "begin", run |-> run, head |-> 0, prev |-> 0, cursor |-> 0, offset |-> 0,
     steps |-> IF tool = "sequence" THEN 2 ELSE 1, sent |-> 0, human |-> 0, first |-> 0,
     revision |-> 0, observes |-> FALSE]
Reads(r) == r.tool \in {"tail", "continue"}

Locked(c) == tools.lock = c
Unlock(t, c) == IF t.lock = c THEN [t EXCEPT !.lock = None] ELSE t

Goto(c, r, at) == call' = [call EXCEPT ![c] = [r EXCEPT !.at = at]]
\* The call ends with an error; a guard that it holds is dropped.
Fails(c) == call' = [call EXCEPT ![c] = None] /\ tools' = Unlock(tools, c)
\* ... that tells of a changed context.
FailsChanged(c, upto) ==
    /\ call' = [call EXCEPT ![c] = None]
    /\ tools' = [Unlock(tools, c) EXCEPT !.pending = TRUE]
    /\ seen' = [seen EXCEPT !.told = @ \cup Acts(1, upto)]

\* attach_recent_context, up to its question to the daemon.
Attach(c, r, t, cursor, observes) ==
    LET u == [Unlock(t, c) EXCEPT !.operation = cursor]
    IN IF t.operation = None
       THEN call' = [call EXCEPT ![c] = None] /\ tools' = IF observes THEN [u EXCEPT !.pending = FALSE] ELSE u
       ELSE IF t.operation >= cursor
       THEN call' = [call EXCEPT ![c] = None] /\ tools' = IF observes THEN [u EXCEPT !.pending = FALSE] ELSE u
       ELSE /\ tools' = u
            /\ Goto(c, [Request(r.tool, r.run) EXCEPT !.prev = t.operation, !.cursor = cursor,
                            !.first = r.first, !.revision = r.revision, !.observes = observes],
                     "attach")

\* What the Agent has when a read answers.
Answered(r) == IF Reads(r) THEN Acts(r.first, r.cursor) ELSE {}

\* ... and after it.
AttachDone(c, r, changed) ==
    /\ r.at = "attach"
    /\ call' = [call EXCEPT ![c] = None]
    /\ tools' = IF r.observes THEN [tools EXCEPT !.pending = FALSE]
                ELSE IF changed THEN [tools EXCEPT !.pending = TRUE] ELSE tools
    /\ seen' = [seen EXCEPT !.told = IF changed THEN @ \cup Acts(r.prev + 1, r.cursor) ELSE @,
                            !.read = @ \cup Answered(r)]
    /\ UNCHANGED slot

-----------------------------------------------------------------------------
(* read *)

\* slot: where a pending Human command makes the read begin.
ReadSnapshot(c, r) ==
    /\ Reads(r) /\ r.at = "begin"
    /\ Goto(c, [r EXCEPT !.human = IF Gated(slot) THEN slot.ctx.human ELSE 0, !.head = Top(slot)], "fetch")
    /\ UNCHANGED <<tools, slot, seen>>

\* live_tail: the events after the cursor, or the last ones.
ReadFetch(c, r) ==
    /\ r.at = "fetch"
    /\ LET from == IF r.human # 0 THEN r.human - 1
                   ELSE IF r.tool = "continue" THEN IF tools.live # 0 THEN tools.live ELSE r.head
                   ELSE IF Top(slot) > Page THEN Top(slot) - Page ELSE 0
           first == IF from + 1 < Oldest(slot) THEN Oldest(slot) ELSE from + 1
           through == IF Top(slot) < first + Page - 1 THEN Top(slot) ELSE first + Page - 1
       IN Goto(c, [r EXCEPT !.first = first, !.cursor = through, !.human = 0, !.head = 0], "refresh")
    /\ UNCHANGED <<tools, slot, seen>>

\* Mutant of Covers: whatever the read reached covers the command.
CoversAll(d, first, through) == TRUE
\* live_read_covers_human_tx
Covers(d, first, through) == first <= d.ctx.human /\ d.ctx.human <= through

\* The cursors move; the call answers at once, or asks the daemon first.
ReadDone(c, r, observes) ==
    /\ Attach(c, r, Remember(tools, r.cursor), r.cursor, observes)
    /\ seen' = [seen EXCEPT !.read = IF call'[c] = None THEN @ \cup Answered(r) ELSE @]

\* acknowledge_human_context_from_read, up to the acknowledgement.
ReadRefresh(c, r) ==
    /\ r.at = "refresh"
    /\ IF ~Gated(slot) THEN ReadDone(c, r, TRUE)
       ELSE IF Covers(slot, r.first, r.cursor) /\ slot.run # 0
       THEN /\ Goto(c, [r EXCEPT !.run = slot.run, !.revision = slot.ctx.revision], "acknowledge")
            /\ UNCHANGED <<tools, seen>>
       ELSE ReadDone(c, r, FALSE)
    /\ UNCHANGED slot

\* AcknowledgeRunContext, in the daemon.
Accepts(r) == slot.run = r.run /\ r.revision = slot.ctx.revision /\ r.cursor >= slot.ctx.human
Acknowledged(r) == IF Accepts(r) THEN [slot EXCEPT !.ctx.acknowledged = r.revision] ELSE slot

\* The daemon answers, and its answer may be lost on the way.
ReadAcknowledge(c, r, heard) ==
    /\ r.at = "acknowledge"
    /\ slot' = Acknowledged(r)
    /\ Goto(c, [r EXCEPT !.observes = Accepts(r) /\ heard, !.revision = IF Accepts(r) THEN @ ELSE 0],
            "acknowledged")
    /\ UNCHANGED <<tools, seen>>

ReadAcknowledged(c, r) == r.at = "acknowledged" /\ ReadDone(c, r, r.observes) /\ UNCHANGED slot

\* The acknowledgement of a read that was cancelled meanwhile.
LateAcknowledge(c, r) ==
    /\ r.at = "abandoned"
    /\ slot' = Acknowledged(r)
    /\ call' = [call EXCEPT ![c] = None]
    /\ seen' = [seen EXCEPT !.dropped = IF Accepts(r) THEN @ \cup Answered(r) ELSE @]
    /\ UNCHANGED tools

-----------------------------------------------------------------------------
(* wait *)

Wait(c, r) ==
    /\ r.tool = "wait" /\ r.at = "begin"
    /\ IF slot.run = 0 \/ slot.run # r.run THEN Fails(c)
       ELSE /\ Goto(c, [r EXCEPT !.head = IF tools.live \in 1..Top(slot) THEN tools.live ELSE Top(slot)], "wait")
            /\ UNCHANGED tools
    /\ UNCHANGED <<slot, seen>>

\* It ends at what it was waiting for, or later; or with its Run, and then in error.
WaitDone(c, r, through) ==
    /\ r.at = "wait" /\ through \in r.head..Top(slot)
    /\ IF slot.run = r.run THEN Attach(c, r, Remember(tools, through), through, FALSE)
       ELSE call' = [call EXCEPT ![c] = None] /\ tools' = Remember(tools, through)
    /\ UNCHANGED <<slot, seen>>

-----------------------------------------------------------------------------
(* Physical actions: command, command_sequence, signal, macro_run *)

Physical(r) == r.tool \in {"command", "sequence", "signal", "macro"}

Lock(c, r) ==
    /\ Physical(r) \/ r.tool \in {"start", "end"}
    /\ r.at = "begin" /\ tools.lock = None
    /\ tools' = [tools EXCEPT !.lock = c]
    /\ Goto(c, r, "locked")
    /\ UNCHANGED <<slot, seen>>

\* slot_online_for_physical_action and ensure_serial_context_unchanged, up to the
\* question; the slot is what the action's precondition is taken from.
Check(c, r) ==
    /\ Physical(r) /\ r.at = "locked"
    /\ IF slot.run = 0 \/ slot.run # r.run \/ tools.pending THEN Fails(c) /\ UNCHANGED seen
       ELSE LET q == [r EXCEPT !.head = Top(slot), !.cursor = Top(slot), !.offset = TxOffset(slot)]
                crossed == \E x \in Calls \ {c} : call[x] # None /\ call[x].at = "attach"
            IN /\ UNCHANGED tools
               /\ seen' = [seen EXCEPT !.crossed = @ \/ crossed]
               /\ IF tools.operation = None THEN Goto(c, q, "write")
                  ELSE Goto(c, [q EXCEPT !.prev = tools.operation], "compare")
    /\ UNCHANGED slot

Compare(c, r, changed) ==
    /\ r.at = "compare"
    /\ IF changed THEN FailsChanged(c, r.head) ELSE Goto(c, r, "write") /\ UNCHANGED <<tools, seen>>
    /\ UNCHANGED slot

\* A step of a sequence that is not the first one is refused: the output of the earlier
\* ones is returned.
Refused(c, r) ==
    IF r.sent = 0 THEN Fails(c) ELSE Attach(c, r, tools, r.cursor, FALSE)

\* execute_command_step, send_break, write_raw and the start of a macro: the daemon
\* refuses, or the bytes are sent.
Write(c, r) ==
    /\ r.at = "write"
    /\ IF slot.run # r.run \/ slot.macro = "running" \/ Gated(slot)
       THEN Refused(c, r) /\ UNCHANGED <<slot, seen>>
       ELSE IF ~Precondition(slot, r.cursor, r.offset)
       THEN /\ UNCHANGED <<slot, seen>>
            /\ IF r.sent = 0 THEN Goto(c, r, "boundary") /\ UNCHANGED tools ELSE Refused(c, r)
       ELSE IF r.tool = "macro"
       THEN /\ slot' = [slot EXCEPT !.macro = "running"]
            /\ tools' = Unlock(tools, c)
            /\ Goto(c, r, "poll")
            /\ UNCHANGED seen
       ELSE /\ Top(slot) < MaxHead
            /\ slot' = Emit(slot, IF r.sent = 0 THEN "own" ELSE "next", c)
            /\ UNCHANGED seen
            /\ IF r.tool = "signal"
               THEN Attach(c, r, Remember(tools, Top(slot')), Top(slot'), FALSE)
               ELSE /\ Goto(c, [r EXCEPT !.prev = r.cursor, !.cursor = Top(slot'), !.sent = @ + 1,
                                         !.offset = @ + 1], "capture")
                    /\ UNCHANGED tools

\* The bytes were sent, or not, and the call knows neither.
WriteUncertain(c, r) ==
    /\ r.at = "write" /\ slot.run = r.run /\ ~Gated(slot) /\ r.tool # "macro"
    /\ Precondition(slot, r.cursor, r.offset) /\ slot.macro # "running" /\ Top(slot) < MaxHead
    /\ slot' = Emit(slot, IF r.sent = 0 THEN "own" ELSE "next", c)
    /\ Refused(c, r)
    /\ UNCHANGED seen

\* context_changed_after_boundary
Boundary(c, r) == r.at = "boundary" /\ FailsChanged(c, Top(slot)) /\ UNCHANGED slot

\* CommandBoundaryTracker::accept: a TX of another operation since the capture began.
Interfered(d, c, after, tx, through) ==
    \E n \in (after + 1)..through : IsTx(d.log[n]) /\ d.log[n].by # c

\* The capture ends at `through`; recording it may fail.  Only a clean match lets the
\* next step of a sequence follow (command_sequence_stop).
Capture(c, r, through, clean) ==
    /\ r.at = "capture" /\ through \in r.cursor..Top(slot)
    /\ clean => ~Interfered(slot, c, r.prev, r.cursor, through) /\ slot.run = r.run
    /\ IF clean /\ r.sent < r.steps
       THEN Goto(c, [r EXCEPT !.cursor = through], "write") /\ tools' = Remember(tools, through)
       ELSE IF slot.run # r.run /\ r.tool = "command"
       THEN call' = [call EXCEPT ![c] = None] /\ tools' = Remember(Unlock(tools, c), through)
       ELSE Attach(c, r, Remember(tools, through), through, FALSE)
    /\ UNCHANGED <<slot, seen>>
CaptureLost(c, r) ==
    /\ r.at = "capture"
    /\ IF r.sent = 1 THEN Fails(c) ELSE Attach(c, r, tools, r.prev, FALSE)
    /\ UNCHANGED <<slot, seen>>

\* macro_run_cancellable polls until the macro ended, or gives up.  A result that a
\* Human interrupted moves no cursor.
Poll(c, r, through) ==
    /\ r.at = "poll" /\ through \in r.head..Top(slot)
    /\ LET shown == IF tools.live # 0 THEN tools.live ELSE r.head
       IN \/ slot.macro = "ended" /\ Attach(c, r, Remember(tools, through), through, FALSE)
          \/ Attach(c, r, tools, shown, FALSE)
    /\ slot' = IF slot.macro = "running" THEN slot ELSE [slot EXCEPT !.macro = None]
    /\ UNCHANGED seen
CancelMacro(c, r) ==
    /\ r.at = "poll" /\ slot.macro = "running"
    /\ slot' = [slot EXCEPT !.macro = "ended"]
    /\ UNCHANGED <<tools, call, seen>>

-----------------------------------------------------------------------------
(* run_start and run_end *)

RunStart(c, r) ==
    /\ r.tool = "start" /\ r.at = "locked"
    /\ IF slot.run # 0 \/ slot.runs = MaxRuns \/ Top(slot) >= MaxHead
       THEN Fails(c) /\ UNCHANGED slot
       ELSE /\ slot' = [Emit(slot, "run", c) EXCEPT !.run = slot.runs + 1, !.runs = @ + 1,
                            !.start = Top(slot) + 1, !.ctx = NoContext]
            /\ tools' = [Remember(Unlock(tools, c), Top(slot')) EXCEPT !.operation = Top(slot')]
            /\ call' = [call EXCEPT ![c] = None]
    /\ UNCHANGED seen

RunEnd(c, r) ==
    /\ r.tool = "end" /\ r.at = "locked"
    /\ slot' = IF slot.run = r.run /\ slot.macro # "running" THEN [slot EXCEPT !.run = 0] ELSE slot
    /\ Fails(c)
    /\ UNCHANGED seen

-----------------------------------------------------------------------------
(* Requests of the MCP client, and everybody else *)

Tools == {"tail", "continue", "wait", "command", "sequence", "signal", "macro", "start", "end"}

Ask(c, tool) ==
    /\ tool \in Offered
    /\ call[c] = None /\ seen.calls < MaxCalls
    /\ tool \in {"start", "tail", "continue"} \/ slot.run # 0
    /\ call' = [call EXCEPT ![c] = Request(tool, slot.run)]
    /\ seen' = [seen EXCEPT !.calls = @ + 1]
    /\ UNCHANGED <<tools, slot>>

\* cancel_request: only a call that observes may be dropped, and it answers -32800.  One
\* that is dropped after it moved the cursor of the last operation has crossed the next one.
Cancel(c, r) ==
    /\ Reads(r) \/ r.tool = "wait"
    /\ r.at # "abandoned"
    /\ call' = [call EXCEPT ![c] = None]
    /\ seen' = [seen EXCEPT
            !.crossed = @ \/ r.at = "attach",
            !.dropped = IF r.at # "acknowledge" /\ r.revision # 0 THEN @ \cup Answered(r) ELSE @]
    /\ UNCHANGED <<tools, slot>>
\* ... while its acknowledgement is on the way.
CancelInFlight(c, r) ==
    /\ r.at = "acknowledge"
    /\ Goto(c, r, "abandoned")
    /\ UNCHANGED <<tools, slot, seen>>

\* SendHumanCommand inside the Agent's Run.
HumanCommand ==
    /\ slot.run # 0 /\ Top(slot) < MaxHead
    /\ slot' = [Emit(slot, "human", None) EXCEPT
                    !.macro = IF @ = "running" THEN "interrupted" ELSE @,
                    !.ctx = [@ EXCEPT !.revision = @ + 1, !.human = Top(slot) + 1]]
    /\ UNCHANGED <<tools, call, seen>>
\* A cooperative write, or a change of the port's configuration.
OtherActs ==
    /\ slot.macro # "running" /\ Top(slot) < MaxHead
    /\ slot' = Emit(slot, "other", None)
    /\ UNCHANGED <<tools, call, seen>>
Output ==
    /\ Top(slot) < MaxHead
    /\ slot' = Emit(slot, "rx", None)
    /\ UNCHANGED <<tools, call, seen>>
MacroWrites ==
    /\ slot.macro = "running" /\ Top(slot) < MaxHead
    /\ slot' = Emit(slot, "own", None)
    /\ UNCHANGED <<tools, call, seen>>
MacroEnds ==
    /\ slot.macro = "running"
    /\ slot' = [slot EXCEPT !.macro = "ended"]
    /\ UNCHANGED <<tools, call, seen>>
\* Takeover, expiry or a lost connection.
RunLost ==
    /\ slot.run # 0 /\ Top(slot) < MaxHead
    /\ slot' = [Emit(slot, "other", None) EXCEPT !.run = 0, !.macro = IF @ = "running" THEN "interrupted" ELSE @,
                                                  !.ctx = NoContext]
    /\ UNCHANGED <<tools, call, seen>>

-----------------------------------------------------------------------------

Init ==
    /\ tools = [live |-> 0, operation |-> None, pending |-> FALSE, lock |-> None]
    /\ call = [c \in Calls |-> None]
    /\ slot = [log |-> <<>>, run |-> 0, runs |-> 0, start |-> 0, ctx |-> NoContext, macro |-> None]
    /\ seen = [read |-> {}, told |-> {}, dropped |-> {}, crossed |-> FALSE, calls |-> 0]

\* What the daemon's answer to recent_activity, or its absence, comes to.
Changed(r, known) == ContextBetween(slot, r.prev, IF r.at = "attach" THEN r.cursor ELSE r.head, known)

Step(c, r) ==
    \/ ReadSnapshot(c, r) \/ ReadFetch(c, r) \/ ReadRefresh(c, r)
    \/ \E heard \in BOOLEAN : ReadAcknowledge(c, r, heard)
    \/ ReadAcknowledged(c, r) \/ LateAcknowledge(c, r)
    \/ Wait(c, r) \/ \E through \in 0..Top(slot) : WaitDone(c, r, through)
    \/ Lock(c, r) \/ Check(c, r) \/ Write(c, r) \/ WriteUncertain(c, r) \/ Boundary(c, r)
    \/ \E known \in {TRUE, slot.run = r.run} : \E lost \in BOOLEAN :
        AttachDone(c, r, lost \/ Changed(r, known)) \/ Compare(c, r, lost \/ Changed(r, known))
    \/ \E through \in 0..Top(slot) : Poll(c, r, through) \/ \E clean \in BOOLEAN : Capture(c, r, through, clean)
    \/ CaptureLost(c, r) \/ CancelMacro(c, r) \/ RunStart(c, r) \/ RunEnd(c, r)
    \/ Cancel(c, r) \/ CancelInFlight(c, r)

Next ==
    \/ \E c \in Calls : \E tool \in Tools : Ask(c, tool)
    \/ \E c \in Calls : call[c] # None /\ Step(c, call[c])
    \/ HumanCommand \/ OtherActs \/ Output \/ MacroWrites \/ MacroEnds \/ RunLost

Spec == Init /\ [][Next]_vars

-----------------------------------------------------------------------------
(* Properties *)

TypeOK ==
    /\ tools.live \in 0..MaxHead /\ tools.operation \in 0..MaxHead \cup {None}
    /\ tools.pending \in BOOLEAN /\ tools.lock \in Calls \cup {None}
    /\ Top(slot) <= MaxHead /\ slot.run \in 0..MaxRuns
    /\ slot.macro \in {None, "running", "ended", "interrupted"}
    /\ \A c \in Calls : call[c] # None => call[c].tool \in Tools /\ call[c].cursor \in 0..MaxHead

InRun == (slot.start + 1)..Top(slot)
OwnTx(n) == slot.log[n].kind \in {"own", "next"}

\* Reads that the daemon let acknowledge a Human command and that have yet to answer.
UnderWay == {c \in Calls : call[c] # None /\ Reads(call[c]) /\ call[c].revision # 0
                              /\ call[c].at \in {"acknowledged", "attach"}}

\* No byte of the Agent follows a Human command of its Run unless a live read has returned
\* the latest one to the Agent, whatever calls cross and whatever answers are lost.  The
\* gate opens in the daemon, before the read answers: an Agent that acts beside its read
\* has the text on its way, and one that cancels the read has thrown it away.
HumanRead ==
    \A n \in InRun : OwnTx(n) =>
        LET before == {m \in InRun : m < n /\ slot.log[m].kind = "human"}
        IN before # {} =>
            Max(before) \in seen.read \cup seen.dropped \cup UNION {Answered(call[c]) : c \in UnderWay}

\* No byte of the Agent follows an action of somebody else in its Run that no live read
\* has returned and no result or error has told of, unless a call was between moving the cursor
\* of the last operation and noting what it had passed.
NothingUntold ==
    ~seen.crossed => \A m, n \in InRun :
        m < n /\ ThirdParty(slot.log[m]) /\ OwnTx(n) => m \in seen.read \cup seen.told

\* Between two steps of a sequence nobody else sends.
SequenceUnbroken ==
    \A n \in 1..Top(slot) : slot.log[n].kind = "next" =>
        \E m \in 1..(n - 1) :
            /\ slot.log[m].by = slot.log[n].by /\ OwnTx(m)
            /\ \A k \in (m + 1)..(n - 1) : ~IsTx(slot.log[k])

\* The lock is held by a call that is at a physical action, so it is given back whichever
\* way the call ends.
LockHeld ==
    tools.lock # None => call[tools.lock] # None /\ call[tools.lock].at \in
        {"locked", "compare", "write", "boundary", "capture"}
=============================================================================
