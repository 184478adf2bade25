-------------------------------- MODULE Slot --------------------------------
(***************************************************************************)
(* The Slot actor of seriald: the one task that owns a serial port and      *)
(* decides who may put bytes on its line.                                   *)
(*                                                                         *)
(* Every action below is one turn of SlotActor::run: a command taken from   *)
(* the queue, a port event, the result of a Trigger write, the Trigger's    *)
(* timer or the maintenance tick.  The actor is sequential, so a turn is    *)
(* atomic; what interleaves is the order of the turns.                      *)
(*                                                                         *)
(* Time is abstract.  A lease has ample time left, too little to cover a    *)
(* physical write, or none; an approval is due or not.  Each request        *)
(* handler starts by calling expire_control and expire_pending_run_start,   *)
(* so a request is only served when nothing is due: a due lease or approval *)
(* is first dropped by ExpireControl or ExpirePendingRunStart.              *)
(***************************************************************************)
EXTENDS Naturals

CONSTANTS
    Humans, Agents, Scripts,    \* clients, by ActorKind
    Profiles,                   \* resolved model profiles a port may use
    None,                       \* Option::None
    MaxFence, MaxGeneration, MaxRun, MaxRevision    \* bounds on the counters

Actors == Humans \cup Agents \cup Scripts

ASSUME KindsAssumption ==
    /\ Humans \cap Agents = {}
    /\ Humans \cap Scripts = {}
    /\ Agents \cap Scripts = {}

ASSUME BoundsAssumption ==
    /\ MaxFence \in Nat
    /\ MaxGeneration \in Nat
    /\ MaxRun \in Nat
    /\ MaxRevision \in Nat

Lease == [owner : Actors, fence : Nat, generation : Nat,
          ttl : {"ample", "short", "due"}]
Approval == [requester : Actors, approver : Actors, fence : Nat,
             generation : Nat, due : BOOLEAN]
Run == [id : Nat, owner : Actors]
RunContext == [run : Nat, revision : Nat, acknowledged : Nat]
Trigger == [owner : Actors, fence : Nat, generation : Nat,
            run : Nat \cup {None}, expected : Nat \cup {None},
            flying : BOOLEAN, stopping : BOOLEAN]
Macro == [owner : Actors, fence : Nat, run : Nat \cup {None},
          halt : {"no", "evidence", "stop"}]
Staged == [kind : {"add", "replace", "remove", "model"}, reopened : BOOLEAN,
           resume : BOOLEAN, enabled : BOOLEAN, profile : Profiles]
Transmission == [by : Actors, fence : Nat]
Holding == [owner : Actors, fence : Nat]

ASSUME NoneAssumption ==
    /\ None \notin Nat
    /\ None \notin Lease
    /\ None \notin Approval
    /\ None \notin Run
    /\ None \notin RunContext
    /\ None \notin Trigger
    /\ None \notin Macro
    /\ None \notin Staged
    /\ None \notin Transmission
    /\ None \notin Holding

VARIABLES
    alive,       \* the actor's loop has not ended
    online,      \* port.is_some()
    paused,      \* administratively_paused
    enabled,     \* config.enabled and the transport's auto_open
    profile,     \* model_profile
    staged,      \* pending_reconfiguration
    generation,  \* generation of the serial session
    lease,       \* control.current
    nextFence,   \* control.next_fence
    pending,     \* pending_run_start
    run,         \* active_run
    nextRun,     \* the next Run id (a fresh Uuid in the code)
    ctx,         \* run_context
    trigger,     \* active_trigger
    macro,       \* active_macro
    line         \* the last transmission that reached the port's writer

session == <<alive, online, paused, enabled, profile, staged, generation>>
authority == <<lease, nextFence, pending, run, nextRun, ctx>>
work == <<trigger, macro>>
vars == <<session, authority, work, line>>

-----------------------------------------------------------------------------
(* Control lease *)

LeaseDue == lease # None /\ lease.ttl = "due"
ApprovalDue == pending # None /\ pending.due

\* The actor takes a turn in which expire_control finds nothing to drop: a
\* macro command or the Trigger's timer.
LeaseSettled == alive /\ ~LeaseDue

\* The same for a request, whose handler also calls expire_pending_run_start.
Settled == LeaseSettled /\ ~ApprovalDue

\* Mutant of Grant: the next fence is not advanced.
GrantSameFence(a) ==
    /\ nextFence <= MaxFence
    /\ lease' = [owner |-> a, fence |-> nextFence, generation |-> generation,
                 ttl |-> "ample"]
    /\ nextFence' = nextFence

\* ControlState::grant: a lease of the current generation under a new fence.
Grant(a) ==
    /\ nextFence <= MaxFence
    /\ lease' = [owner |-> a, fence |-> nextFence, generation |-> generation,
                 ttl |-> "ample"]
    /\ nextFence' = nextFence + 1

\* Mutant of Validate: the fence the request names is not compared.
ValidateAnyFence(a, f) ==
    /\ lease # None
    /\ lease.generation = generation
    /\ lease.owner = a
    /\ lease.ttl # "due"

\* ControlState::validate for a request of a that names fence f.
Validate(a, f) ==
    /\ lease # None
    /\ lease.fence = f
    /\ lease.generation = generation
    /\ lease.owner = a
    /\ lease.ttl # "due"

\* ensure_lease_covers_write: the lease outlives the longest the write takes.
CoversWrite == lease # None /\ lease.ttl = "ample"

-----------------------------------------------------------------------------
(* Trigger and Macro guards *)

\* request_trigger_stop: a Trigger with a write in flight stays, marked, until
\* the writer answers; any other one ends now.
StopTrigger == IF trigger # None /\ trigger.flying
               THEN [trigger EXCEPT !.stopping = TRUE]
               ELSE None

\* stop_macro: the actor itself refuses every later write of the macro.
StopMacro == IF macro # None THEN [macro EXCEPT !.halt = "stop"] ELSE None

BoundToRun == trigger # None /\ run # None /\ trigger.run = run.id

\* abort_run: the Run, its read gate and the macro end together, and so does a
\* Trigger bound to the Run.
AbortRun ==
    /\ run' = None
    /\ ctx' = None
    /\ macro' = StopMacro

\* validate_agent_run_context: an Agent that has not read the last Human
\* command of its own Run may not touch the line.
ReadGateOpen(a) ==
    LET gated == /\ a \in Agents
                 /\ run # None /\ run.owner = a
                 /\ ctx # None /\ ctx.run = run.id
    IN  gated => ctx.acknowledged >= ctx.revision

\* validate_expected_write_run
ExpectedRun(r, a) == r # None => run # None /\ run.id = r /\ run.owner = a

-----------------------------------------------------------------------------
(* Expiry *)

LeaseTimePasses ==
    /\ alive
    /\ lease # None
    /\ \/ lease.ttl = "ample" /\ lease' = [lease EXCEPT !.ttl = "short"]
       \/ lease.ttl = "short" /\ lease' = [lease EXCEPT !.ttl = "due"]
    /\ UNCHANGED <<session, nextFence, pending, run, nextRun, ctx, work, line>>

ApprovalTimePasses ==
    /\ alive
    /\ pending # None /\ ~pending.due
    /\ pending' = [pending EXCEPT !.due = TRUE]
    /\ UNCHANGED <<session, lease, nextFence, run, nextRun, ctx, work, line>>

\* Mutant of DropControl: the Run outlives the lease.
DropControlKeepingRun ==
    /\ lease' = None
    /\ pending' = None
    /\ trigger' = StopTrigger
    /\ macro' = StopMacro
    /\ UNCHANGED <<session, nextFence, nextRun, line, run, ctx>>

\* The holder's whole authority ends: expire_control, Release.
DropControl ==
    /\ lease' = None
    /\ pending' = None
    /\ trigger' = StopTrigger
    /\ AbortRun
    /\ UNCHANGED <<session, nextFence, nextRun, line>>

ExpireControl == alive /\ LeaseDue /\ DropControl

ExpirePendingRunStart ==
    /\ alive
    /\ ApprovalDue
    /\ pending' = None
    /\ UNCHANGED <<session, lease, nextFence, run, nextRun, ctx, work, line>>

-----------------------------------------------------------------------------
(* Control requests *)

Acquire(a, mode) ==
    /\ Settled /\ online
    /\ a \notin Agents
    /\ mode = "takeover" => a \in Humans
    /\ \/ /\ lease = None
          /\ Grant(a)
          /\ UNCHANGED <<pending, run, ctx, work>>
       \/ /\ lease # None /\ lease.owner # a /\ mode = "takeover"
          /\ Grant(a)
          /\ pending' = None
          /\ trigger' = IF BoundToRun \/ (trigger # None /\ trigger.owner = lease.owner)
                        THEN StopTrigger ELSE trigger
          /\ AbortRun
    /\ UNCHANGED <<session, nextRun, line>>

Renew(a, f) ==
    /\ Settled /\ Validate(a, f)
    /\ lease' = [lease EXCEPT !.ttl = "ample"]
    /\ UNCHANGED <<session, nextFence, pending, run, nextRun, ctx, work, line>>

Release(a, f) == Settled /\ Validate(a, f) /\ DropControl

\* DisconnectActor does not expire anything first.
Disconnect(a) ==
    LET held == lease # None /\ lease.owner = a
        asked == pending # None /\ a \in {pending.requester, pending.approver}
    IN  /\ alive
        /\ lease' = IF held THEN None ELSE lease
        /\ pending' = IF asked THEN None ELSE pending
        /\ trigger' = IF (trigger # None /\ trigger.owner = a) \/ (held /\ BoundToRun)
                      THEN StopTrigger ELSE trigger
        /\ IF held THEN AbortRun ELSE UNCHANGED <<run, ctx, macro>>
        /\ UNCHANGED <<session, nextFence, nextRun, line>>

-----------------------------------------------------------------------------
(* Runs *)

\* install_run, and the same assignments in StartRun: only an Agent's Run has
\* a read gate.
InstallRun(a) ==
    /\ nextRun <= MaxRun
    /\ run' = [id |-> nextRun, owner |-> a]
    /\ ctx' = IF a \in Agents
              THEN [run |-> nextRun, revision |-> 0, acknowledged |-> 0]
              ELSE None
    /\ nextRun' = nextRun + 1

RequestRunStart(a) ==
    /\ Settled /\ online
    /\ macro = None /\ trigger = None /\ run = None /\ pending = None
    /\ \/ /\ lease = None
          /\ Grant(a)
          /\ InstallRun(a)
          /\ UNCHANGED pending
       \/ /\ lease # None /\ lease.owner \in Humans
          /\ pending' = [requester |-> a, approver |-> lease.owner,
                         fence |-> lease.fence, generation |-> generation,
                         due |-> FALSE]
          /\ UNCHANGED <<lease, nextFence, run, nextRun, ctx>>
    /\ UNCHANGED <<session, work, line>>

\* What DecideRunStart re-checks before it commits an approval.  transfer_exact
\* validates the approver's lease; a running macro is not looked at.
TransferPossible ==
    /\ online
    /\ pending.generation = generation
    /\ trigger = None
    /\ run = None
    /\ Validate(pending.approver, pending.fence)

\* Mutant of RevokedEvidence: the transfer emits no ControlRevoked event.
NoRevokedEvidence == macro

\* The macro of the Human whose lease is transferred learns of it from the
\* ControlRevoked event its driver reads, not from the actor.
RevokedEvidence == IF macro # None /\ macro.halt = "no"
                   THEN [macro EXCEPT !.halt = "evidence"] ELSE macro

ApproveRunStart(h) ==
    /\ Settled
    /\ pending # None /\ pending.approver = h
    /\ TransferPossible
    /\ Grant(pending.requester)
    /\ InstallRun(pending.requester)
    /\ pending' = None
    /\ macro' = RevokedEvidence
    /\ UNCHANGED <<session, trigger, line>>

\* A denial, and an approval that fails its re-check: the lease may also run
\* out between the handler's expiry call and transfer_exact.
RefuseRunStart(h, decision) ==
    /\ Settled
    /\ pending # None /\ pending.approver = h
    /\ \/ decision = "deny" /\ UNCHANGED lease
       \/ decision = "approve" /\ ~TransferPossible /\ UNCHANGED lease
       \/ /\ decision = "approve" /\ lease # None
          /\ lease' = [lease EXCEPT !.ttl = "due"]
    /\ pending' = None
    /\ UNCHANGED <<session, nextFence, run, nextRun, ctx, work, line>>

CancelRunStart(a) ==
    /\ Settled
    /\ pending # None /\ pending.requester = a
    /\ pending' = None
    /\ UNCHANGED <<session, lease, nextFence, run, nextRun, ctx, work, line>>

StartRun(a, f) ==
    /\ Settled
    /\ a \notin Agents
    /\ macro = None /\ trigger = None /\ run = None
    /\ Validate(a, f)
    /\ InstallRun(a)
    /\ UNCHANGED <<session, lease, nextFence, pending, work, line>>

EndRun(a, f, r) ==
    /\ Settled
    /\ macro = None
    /\ Validate(a, f)
    /\ run # None /\ run.id = r
    /\ trigger' = StopTrigger
    /\ run' = None
    /\ ctx' = None
    /\ UNCHANGED <<session, lease, nextFence, pending, nextRun, macro, line>>

AcknowledgeRunContext(a, r, revision) ==
    /\ Settled
    /\ run # None /\ run.id = r /\ run.owner = a
    /\ lease # None /\ lease.owner = a
    /\ ctx # None /\ ctx.run = r /\ ctx.revision = revision
    /\ ctx' = [ctx EXCEPT !.acknowledged = revision]
    /\ UNCHANGED <<session, lease, nextFence, pending, run, nextRun, work, line>>

-----------------------------------------------------------------------------
(* Physical writes of requests *)

Transmits(a, f) == line' = [by |-> a, fence |-> f]

\* A Human's bytes inside an Agent's Run close the Agent's read gate.
Interfere ==
    LET context == IF ctx = None
                   THEN [run |-> run.id, revision |-> 0, acknowledged |-> 0]
                   ELSE ctx
    IN  /\ context.revision < MaxRevision
        /\ ctx' = [context EXCEPT !.revision = @ + 1]

AgentRunHeld ==
    /\ lease # None /\ lease.owner \in Agents
    /\ run # None /\ run.owner = lease.owner

\* What Write and SendBreak check.  expected_run_id only narrows it: a request
\* may leave it out.
MayTransmit(a, f) ==
    /\ Settled /\ online
    /\ Validate(a, f) /\ ReadGateOpen(a)
    /\ macro = None /\ trigger = None
    /\ CoversWrite

Write(a, f) ==
    /\ MayTransmit(a, f)
    /\ Transmits(a, f)
    /\ UNCHANGED <<session, authority, work>>

\* A BREAK occupies the line as bytes do.
SendBreak(a, f) ==
    /\ MayTransmit(a, f)
    /\ Transmits(a, f)
    /\ UNCHANGED <<session, authority, work>>

\* Write with the cooperative flag: a Human in an Agent's Run, without a lease.
CooperativeWrite(h) ==
    /\ Settled /\ online
    /\ AgentRunHeld
    /\ macro = None /\ trigger = None
    /\ CoversWrite
    /\ Transmits(h, lease.fence)
    /\ Interfere
    /\ UNCHANGED <<session, lease, nextFence, pending, run, nextRun, work>>

\* SendHumanCommand when the line is free or already the Human's.  The lease is
\* granted and the macro stopped before a Trigger is noticed or the write
\* fails, so both remain done when no byte is sent.
SendOwnedCommand(h, sent) ==
    /\ Settled /\ online
    /\ \/ lease = None /\ Grant(h)
       \/ lease # None /\ lease.owner = h /\ UNCHANGED <<lease, nextFence>>
    /\ macro' = StopMacro
    /\ IF sent
       THEN /\ trigger = None
            /\ lease # None => CoversWrite
            /\ Transmits(h, lease'.fence)
       ELSE UNCHANGED line
    /\ UNCHANGED <<session, pending, run, nextRun, ctx, trigger>>

\* SendHumanCommand inside an Agent's Run: quiesce_trigger_for_human_command
\* first waits for the Trigger's write in flight.
SendCooperativeCommand(h, sent) ==
    /\ Settled /\ online
    /\ AgentRunHeld
    /\ macro' = StopMacro
    /\ trigger' = None
    /\ IF sent
       THEN CoversWrite /\ Transmits(h, lease.fence) /\ Interfere
       ELSE UNCHANGED <<line, ctx>>
    /\ UNCHANGED <<session, lease, nextFence, pending, run, nextRun>>

-----------------------------------------------------------------------------
(* Trigger *)

StartTrigger(a, f, r) ==
    /\ Settled /\ online
    /\ Validate(a, f) /\ ReadGateOpen(a) /\ ExpectedRun(r, a)
    /\ macro = None /\ trigger = None
    /\ trigger' = [owner |-> a, fence |-> f, generation |-> generation,
                   run |-> IF run = None THEN None ELSE run.id,
                   expected |-> r, flying |-> FALSE, stopping |-> FALSE]
    /\ UNCHANGED <<session, authority, macro, line>>

TriggerWaits == trigger # None /\ ~trigger.stopping /\ ~trigger.flying

\* The boundaries begin_trigger_write re-checks at every fire.  The read gate
\* is not among them.
TriggerMayWrite ==
    /\ trigger.generation = generation
    /\ online
    /\ Validate(trigger.owner, trigger.fence)
    /\ ExpectedRun(trigger.expected, trigger.owner)
    /\ CoversWrite

BeginTriggerWrite ==
    /\ LeaseSettled /\ TriggerWaits
    /\ TriggerMayWrite
    /\ trigger' = [trigger EXCEPT !.flying = TRUE]
    /\ Transmits(trigger.owner, trigger.fence)
    /\ UNCHANGED <<session, authority, macro>>

\* A re-check or the enqueue fails: the Trigger ends instead of writing.
FailTriggerWrite ==
    /\ LeaseSettled /\ TriggerWaits
    /\ trigger' = None
    /\ UNCHANGED <<session, authority, macro, line>>

\* Mutant of TriggerWriteResult: a Trigger that was told to stop while its
\* write was in flight is not finished.
TriggerWriteResultLingers(continues) ==
    /\ alive
    /\ trigger # None /\ trigger.flying
    /\ trigger' = IF continues \/ trigger.stopping
                  THEN [trigger EXCEPT !.flying = FALSE]
                  ELSE None
    /\ UNCHANGED <<session, authority, macro, line>>

\* handle_trigger_write_result: a confirmed write leaves the Trigger waiting,
\* unless it is stopping, the write failed or it was the last fire.
TriggerWriteResult(continues) ==
    /\ alive
    /\ trigger # None /\ trigger.flying
    /\ trigger' = IF continues /\ ~trigger.stopping
                  THEN [trigger EXCEPT !.flying = FALSE]
                  ELSE None
    /\ UNCHANGED <<session, authority, macro, line>>

\* A stop pattern or a gap in the received bytes.
TriggerObservesStop ==
    /\ alive
    /\ trigger # None /\ ~trigger.stopping
    /\ trigger' = StopTrigger
    /\ UNCHANGED <<session, authority, macro, line>>

TriggerDeadline ==
    /\ LeaseSettled
    /\ trigger # None /\ ~trigger.stopping
    /\ trigger' = StopTrigger
    /\ UNCHANGED <<session, authority, macro, line>>

CancelTrigger(a, f) ==
    /\ Settled
    /\ trigger # None /\ trigger.owner = a /\ trigger.fence = f
    /\ Validate(a, f)
    /\ trigger' = StopTrigger
    /\ UNCHANGED <<session, authority, macro, line>>

-----------------------------------------------------------------------------
(* Macro *)

StartMacro(a, f, r) ==
    /\ LeaseSettled /\ online
    /\ Validate(a, f) /\ ReadGateOpen(a) /\ ExpectedRun(r, a)
    /\ a \in Agents => r # None
    /\ macro = None /\ trigger = None
    /\ macro' = [owner |-> a, fence |-> f, run |-> r, halt |-> "no"]
    /\ UNCHANGED <<session, authority, trigger, line>>

\* A write its driver asks for.  A driver that has not yet read the event that
\* revoked its lease may still ask.
MacroWrite ==
    /\ LeaseSettled /\ online
    /\ macro # None /\ macro.halt # "stop"
    /\ ReadGateOpen(macro.owner)
    /\ trigger = None
    /\ ExpectedRun(macro.run, macro.owner)
    /\ Validate(macro.owner, macro.fence)
    /\ CoversWrite
    /\ Transmits(macro.owner, macro.fence)
    /\ UNCHANGED <<session, authority, work>>

CancelMacro(a, f) ==
    /\ LeaseSettled
    /\ macro # None /\ macro.owner = a
    /\ Validate(a, f)
    /\ macro' = StopMacro
    /\ UNCHANGED <<session, authority, trigger, line>>

\* finish_macro and reap_macro: the driver completed, failed, was stopped or
\* is gone.
FinishMacro ==
    /\ alive
    /\ macro # None
    /\ macro' = None
    /\ UNCHANGED <<session, authority, trigger, line>>

-----------------------------------------------------------------------------
(* Serial session and reconfiguration *)

\* Mutant of DropSession: the lease survives the session it was granted in.
DropSessionKeepingLease ==
    /\ online' = FALSE
    /\ pending' = None
    /\ trigger' = None
    /\ AbortRun
    /\ UNCHANGED <<lease, nextFence, nextRun, line>>

\* change_generation, and the run, approval, Trigger and macro that depend on
\* the session: handle_port_closed, pause_for_reconfigure, prepare_shutdown.
\* stop_port joins the writer, so no Trigger write is in flight afterwards.
DropSession ==
    /\ online' = FALSE
    /\ lease' = None
    /\ pending' = None
    /\ trigger' = None
    /\ AbortRun
    /\ UNCHANGED <<nextFence, nextRun, line>>

PortClosed ==
    /\ alive
    /\ online
    /\ DropSession
    /\ UNCHANGED <<alive, paused, enabled, profile, staged, generation>>

\* Mutant of TryOpen: a parked port is opened all the same.
TryOpenParked ==
    /\ Settled
    /\ ~online /\ enabled
    /\ generation < MaxGeneration
    /\ online' = TRUE
    /\ generation' = generation + 1
    /\ UNCHANGED <<alive, paused, enabled, profile, staged, authority, work, line>>

\* The maintenance tick opens the port and starts a new generation.  abort_run
\* is only called when a lease was released.
TryOpen ==
    /\ Settled
    /\ ~online /\ ~paused /\ enabled
    /\ generation < MaxGeneration
    /\ online' = TRUE
    /\ generation' = generation + 1
    /\ lease' = None
    /\ pending' = None
    /\ IF lease # None
       THEN AbortRun /\ trigger' = IF BoundToRun THEN StopTrigger ELSE trigger
       ELSE UNCHANGED <<run, ctx, macro, trigger>>
    /\ UNCHANGED <<alive, paused, enabled, profile, staged, nextFence, nextRun, line>>

Pause ==
    /\ paused' = TRUE
    /\ IF paused
       THEN UNCHANGED <<online, authority, work, line>>
       ELSE DropSession

\* profile_change_requires_idle
RequiresIdle(c) == ~c.reopened /\ c.profile # profile /\ (run # None \/ trigger # None)

StageReconfiguration(c) ==
    /\ alive
    /\ staged = None
    /\ macro = None
    /\ c.kind = "replace"
    /\ c.enabled # enabled => c.reopened
    /\ ~paused => c.resume
    /\ ~RequiresIdle(c)
    /\ IF c.reopened THEN Pause ELSE UNCHANGED <<online, paused, authority, work, line>>
    /\ staged' = c
    /\ UNCHANGED <<alive, enabled, profile, generation>>

StageRemoval ==
    /\ alive
    /\ staged = None
    /\ Pause
    /\ staged' = [kind |-> "remove", reopened |-> FALSE, resume |-> FALSE,
                  enabled |-> enabled, profile |-> profile]
    /\ UNCHANGED <<alive, enabled, profile, generation>>

StageModelProfile(p) ==
    /\ alive
    /\ staged = None
    /\ p # profile
    /\ run = None /\ trigger = None /\ macro = None
    /\ staged' = [kind |-> "model", reopened |-> FALSE, resume |-> FALSE,
                  enabled |-> enabled, profile |-> p]
    /\ UNCHANGED <<alive, online, paused, enabled, profile, generation, authority, work, line>>

\* commit_staged_reconfiguration: a removed Slot stays parked.
CommitStaged ==
    /\ alive
    /\ staged # None
    /\ staged' = None
    /\ paused' = (paused /\ ~(staged.kind = "add"
                              \/ (staged.kind = "replace" /\ staged.reopened)))
    /\ enabled' = staged.enabled
    /\ profile' = staged.profile
    /\ UNCHANGED <<alive, online, generation, authority, work, line>>

\* rollback_staged_reconfiguration: an actor created for the change stays
\* parked until the Registry shuts it down.
RollbackStaged ==
    /\ alive
    /\ staged # None
    /\ staged' = None
    /\ paused' = (paused /\ ~(staged.kind = "remove"
                              \/ (staged.kind = "replace" /\ staged.reopened /\ staged.resume)))
    /\ UNCHANGED <<alive, online, enabled, profile, generation, authority, work, line>>

Shutdown ==
    /\ alive
    /\ alive' = FALSE
    /\ paused' = TRUE
    /\ DropSession
    /\ UNCHANGED <<enabled, profile, staged, generation>>

-----------------------------------------------------------------------------
(* A Slot starts either configured or as the staged candidate of an added port *)

Init ==
    /\ alive = TRUE
    /\ online = FALSE
    /\ enabled \in BOOLEAN
    /\ profile \in Profiles
    /\ staged \in {None, [kind |-> "add", reopened |-> FALSE, resume |-> FALSE,
                          enabled |-> enabled, profile |-> profile]}
    /\ paused \in BOOLEAN /\ (paused <=> staged # None)
    /\ generation = 0
    /\ lease = None
    /\ nextFence = 1
    /\ pending = None
    /\ run = None
    /\ nextRun = 1
    /\ ctx = None
    /\ trigger = None
    /\ macro = None
    /\ line = None

Fences == 1..MaxFence
RunIds == 1..MaxRun

ControlRequest ==
    \/ \E a \in Actors, mode \in {"queue", "takeover"} : Acquire(a, mode)
    \/ \E a \in Actors, f \in Fences : Renew(a, f)
    \/ \E a \in Actors, f \in Fences : Release(a, f)
    \/ \E a \in Actors : Disconnect(a)

RunRequest ==
    \/ \E a \in Agents : RequestRunStart(a)
    \/ \E h \in Humans : ApproveRunStart(h)
    \/ \E h \in Humans, d \in {"approve", "deny"} : RefuseRunStart(h, d)
    \/ \E a \in Agents : CancelRunStart(a)
    \/ \E a \in Actors, f \in Fences : StartRun(a, f)
    \/ \E a \in Actors, f \in Fences, r \in RunIds : EndRun(a, f, r)
    \/ \E a \in Agents, r \in RunIds, v \in 0..MaxRevision :
          AcknowledgeRunContext(a, r, v)

WriteRequest ==
    \/ \E a \in Actors, f \in Fences : Write(a, f)
    \/ \E a \in Actors, f \in Fences : SendBreak(a, f)
    \/ \E h \in Humans : CooperativeWrite(h)
    \/ \E h \in Humans, sent \in BOOLEAN : SendOwnedCommand(h, sent)
    \/ \E h \in Humans, sent \in BOOLEAN : SendCooperativeCommand(h, sent)

TriggerStep ==
    \/ \E a \in Actors, f \in Fences, r \in RunIds \cup {None} : StartTrigger(a, f, r)
    \/ BeginTriggerWrite
    \/ FailTriggerWrite
    \/ \E continues \in BOOLEAN : TriggerWriteResult(continues)
    \/ TriggerObservesStop
    \/ TriggerDeadline
    \/ \E a \in Actors, f \in Fences : CancelTrigger(a, f)

MacroStep ==
    \/ \E a \in Actors, f \in Fences, r \in RunIds \cup {None} : StartMacro(a, f, r)
    \/ MacroWrite
    \/ \E a \in Actors, f \in Fences : CancelMacro(a, f)
    \/ FinishMacro

SessionStep ==
    \/ PortClosed
    \/ TryOpen
    \/ \E c \in Staged : StageReconfiguration(c)
    \/ StageRemoval
    \/ \E p \in Profiles : StageModelProfile(p)
    \/ CommitStaged
    \/ RollbackStaged
    \/ Shutdown

Expiry ==
    \/ LeaseTimePasses
    \/ ApprovalTimePasses
    \/ ExpireControl
    \/ ExpirePendingRunStart

\* The actor's task has returned.
Stopped == ~alive /\ UNCHANGED vars

Next ==
    \/ Expiry
    \/ ControlRequest
    \/ RunRequest
    \/ WriteRequest
    \/ TriggerStep
    \/ MacroStep
    \/ SessionStep
    \/ Stopped

Spec == Init /\ [][Next]_vars

\* The actor's select loop is fair to its ready branches: the maintenance tick
\* runs expire_control and expire_pending_run_start, the Trigger's deadline
\* wakes its timer branch, and the writer answers every write it was handed
\* within the write's deadline.  Deadlines themselves pass.
FairSpec ==
    /\ Spec
    /\ WF_vars(ApprovalTimePasses)
    /\ WF_vars(ExpirePendingRunStart)
    /\ WF_vars(ExpireControl)
    /\ WF_vars(TriggerDeadline)
    /\ WF_vars(\E continues \in BOOLEAN : TriggerWriteResult(continues))

-----------------------------------------------------------------------------
(* Properties *)

\* The shape of the actor's state; the fence of the lease has been handed out, and is
\* not the one that the next lease will be given (ControlState in slot.rs).
TypeOK ==
    /\ alive \in BOOLEAN /\ online \in BOOLEAN
    /\ paused \in BOOLEAN /\ enabled \in BOOLEAN
    /\ profile \in Profiles
    /\ staged \in Staged \cup {None}
    /\ generation \in Nat
    /\ lease \in Lease \cup {None}
    /\ nextFence \in Nat
    /\ lease # None => lease.fence < nextFence
    /\ pending \in Approval \cup {None}
    /\ run \in Run \cup {None}
    /\ nextRun \in Nat
    /\ ctx \in RunContext \cup {None}
    /\ trigger \in Trigger \cup {None}
    /\ macro \in Macro \cup {None}
    /\ line \in Transmission \cup {None}

\* A lease belongs to the open session it was granted in: closing, reopening
\* or parking the port never leaves one behind.
LeaseOfSession ==
    lease # None => /\ online
                    /\ lease.generation = generation
                    /\ lease.fence < nextFence

\* Whoever loses Control loses the Run: a Run is active only while its owner
\* holds the lease, and only an Agent's own active Run has a read gate.
RunHeld ==
    /\ run # None => lease # None /\ lease.owner = run.owner
    /\ ctx # None <=> (run # None /\ run.owner \in Agents)
    /\ ctx # None => ctx.run = run.id /\ ctx.acknowledged <= ctx.revision

\* An approval waits only on the exact Human lease it was raised against, so
\* takeover, release, expiry, disconnection and reopening all fail it closed.
ApprovalBound ==
    pending # None =>
        /\ lease # None
        /\ lease.owner = pending.approver /\ lease.fence = pending.fence
        /\ pending.generation = generation
        /\ pending.approver \in Humans /\ pending.requester \in Agents

\* A Trigger that may still fire has everything its next write needs except
\* time: its own lease and generation, the Run it started in, and an Agent
\* owner who has read every Human command.  The code re-checks only part of
\* this at each fire.  No Trigger, stopping or not, outlives its port.
TriggerAuthorized ==
    /\ trigger # None => online
    /\ (trigger # None /\ ~trigger.stopping) =>
          /\ trigger.generation = generation
          /\ lease # None
          /\ lease.owner = trigger.owner /\ lease.fence = trigger.fence
          /\ trigger.run = IF run = None THEN None ELSE run.id
          /\ ReadGateOpen(trigger.owner)

\* A macro whose driver has been told nothing still holds the lease and Run it
\* was started under, its owner has read every Human command, and no Trigger
\* shares the port with it.
MacroAuthorized ==
    /\ macro # None => trigger = None
    /\ (macro # None /\ macro.halt = "no") =>
          /\ lease # None
          /\ lease.owner = macro.owner /\ lease.fence = macro.fence
          /\ ExpectedRun(macro.run, macro.owner)
          /\ ReadGateOpen(macro.owner)

\* Neither a lease nor an approval outlives what it was given for: the open session
\* (change_generation) and, for an approval, the Human lease it would replace.
SessionBound == LeaseOfSession /\ ApprovalBound

\* Work that goes on by itself, a Trigger's or a macro's, holds the authority it was
\* started under, whatever its owner and the other clients did since.
WorkAuthorized == TriggerAuthorized /\ MacroAuthorized

\* From the moment a change that reopens or removes the port is staged until
\* it is committed or rolled back, the port stays closed: nothing is granted,
\* runs or is written under the configuration being replaced.
StagedPortClosed ==
    /\ paused => ~online /\ lease = None
    /\ (staged # None /\ (staged.kind \in {"add", "remove"} \/ staged.reopened)) => paused

\* The abstract authority over the line that the Slot implements: who holds
\* it, whether a Human command is unread, and whether a write is in flight.
Holder == IF lease = None THEN None
          ELSE [owner |-> lease.owner, fence |-> lease.fence]
Gate == IF ctx # None /\ ctx.acknowledged < ctx.revision THEN "closed" ELSE "open"
Busy == IF trigger # None THEN trigger.flying ELSE FALSE

Authority == INSTANCE WriteAuthority WITH
    holder <- Holder, gate <- Gate, busy <- Busy

\* Every step of the Slot is a step of WriteAuthority: bytes reach the line
\* only under the current fence, one writer at a time even across changes of
\* holder, never from an Agent with an unread Human command, and Control
\* changes hands only by takeover or approval.
ImplementsAuthority == Authority!Spec

\* An approval is decided, cancelled or timed out in the end; a Human who does
\* not answer cannot keep the requester, or the port, waiting.  Every Trigger ends
\* and gives the port back, also one whose last write is still in flight when its
\* owner is gone.
WaitsEnd ==
    /\ (pending # None) ~> (pending = None)
    /\ (trigger # None) ~> (trigger = None)

=============================================================================
