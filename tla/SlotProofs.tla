----------------------------- MODULE SlotProofs -----------------------------
(***************************************************************************)
(* Proofs about the Slot actor, for every set of clients and every bound.   *)
(***************************************************************************)
EXTENDS Slot, TLAPS

-----------------------------------------------------------------------------
(* Type correctness *)

\* A new lease is a lease, and older than the next fence (ControlState::grant).
LEMMA GrantType ==
    ASSUME TypeOK, NEW a \in Actors, Grant(a)
    PROVE  lease' \in Lease /\ nextFence' \in Nat /\ lease'.fence < nextFence'
BY DEF TypeOK, Grant, Lease

\* What request_trigger_stop leaves behind is a Trigger or nothing.
LEMMA StopTriggerType ==
    ASSUME TypeOK
    PROVE  StopTrigger \in Trigger \cup {None}
BY DEF TypeOK, StopTrigger, Trigger

\* What stop_macro leaves behind is a macro or nothing.
LEMMA StopMacroType ==
    ASSUME TypeOK
    PROVE  StopMacro \in Macro \cup {None}
BY DEF TypeOK, StopMacro, Macro

\* install_run leaves a Run and, for an Agent, a read gate.
LEMMA InstallRunType ==
    ASSUME TypeOK, NEW a \in Actors, InstallRun(a)
    PROVE  run' \in Run /\ ctx' \in RunContext \cup {None} /\ nextRun' \in Nat
BY DEF TypeOK, InstallRun, Run, RunContext

\* abort_run keeps the Run, its read gate and the macro well typed.
LEMMA AbortRunType ==
    ASSUME TypeOK, AbortRun
    PROVE  /\ run' \in Run \cup {None}
           /\ ctx' \in RunContext \cup {None}
           /\ macro' \in Macro \cup {None}
BY StopMacroType DEF AbortRun

\* Ending the holder's authority keeps every type.
LEMMA DropControlType ==
    ASSUME TypeOK, DropControl
    PROVE  TypeOK'
BY AbortRunType, StopTriggerType DEF TypeOK, DropControl, session

\* Passing deadlines and expiry keep every type.
LEMMA ExpiryType ==
    ASSUME TypeOK, Expiry
    PROVE  TypeOK'
<1>1. CASE LeaseTimePasses
  BY <1>1 DEF TypeOK, LeaseTimePasses, session, work, Lease
<1>2. CASE ApprovalTimePasses
  BY <1>2 DEF TypeOK, ApprovalTimePasses, session, work, Approval
<1>3. CASE ExpireControl
  BY <1>3, DropControlType DEF ExpireControl
<1>4. CASE ExpirePendingRunStart
  BY <1>4 DEF TypeOK, ExpirePendingRunStart, session, work
<1> QED BY <1>1, <1>2, <1>3, <1>4 DEF Expiry

\* Acquire, Renew, Release and DisconnectActor keep every type.
LEMMA ControlRequestType ==
    ASSUME TypeOK, ControlRequest
    PROVE  TypeOK'
<1>1. CASE \E a \in Actors, mode \in {"queue", "takeover"} : Acquire(a, mode)
  <2>1. PICK a \in Actors, mode \in {"queue", "takeover"} : Acquire(a, mode)
    BY <1>1
  <2>2. lease' \in Lease /\ nextFence' \in Nat /\ lease'.fence < nextFence'
    BY <2>1, GrantType DEF Acquire
  <2>3. CASE lease = None
    BY <2>1, <2>2, <2>3 DEF TypeOK, Acquire, session, work
  <2>4. CASE lease # None
    BY <2>1, <2>2, <2>4, AbortRunType, StopTriggerType DEF TypeOK, Acquire, session
  <2> QED BY <2>3, <2>4
<1>2. CASE \E a \in Actors, f \in Fences : Renew(a, f)
  BY <1>2 DEF TypeOK, Renew, Validate, session, work, Lease
<1>3. CASE \E a \in Actors, f \in Fences : Release(a, f)
  BY <1>3, DropControlType DEF Release
<1>4. CASE \E a \in Actors : Disconnect(a)
  BY <1>4, AbortRunType, StopTriggerType DEF TypeOK, Disconnect, session
<1> QED BY <1>1, <1>2, <1>3, <1>4 DEF ControlRequest

\* The requests that start, approve and end Runs keep every type.
LEMMA RunRequestType ==
    ASSUME TypeOK, RunRequest
    PROVE  TypeOK'
<1>1. CASE \E a \in Agents : RequestRunStart(a)
  <2>1. PICK a \in Agents : RequestRunStart(a)
    BY <1>1
  <2>2. a \in Actors
    BY DEF Actors
  <2>3. CASE lease = None
    BY <2>1, <2>2, <2>3, GrantType, InstallRunType
    DEF TypeOK, RequestRunStart, session, work
  <2>4. CASE lease # None
    <3>1. lease.owner \in Actors /\ lease.fence \in Nat
      BY <2>4 DEF TypeOK, Lease
    <3>2. pending' = [requester |-> a, approver |-> lease.owner,
                      fence |-> lease.fence, generation |-> generation,
                      due |-> FALSE]
      BY <2>1, <2>4 DEF RequestRunStart
    <3>3. pending' \in Approval
      BY <2>2, <3>1, <3>2 DEF TypeOK, Approval
    <3> QED BY <2>1, <2>4, <3>3 DEF TypeOK, RequestRunStart, session, work
  <2> QED BY <2>3, <2>4
<1>2. CASE \E h \in Humans : ApproveRunStart(h)
  <2>1. PICK h \in Humans : ApproveRunStart(h)
    BY <1>2
  <2>2. pending.requester \in Actors
    BY <2>1 DEF TypeOK, ApproveRunStart, Approval
  <2>3. macro' \in Macro \cup {None}
    BY <2>1 DEF TypeOK, ApproveRunStart, RevokedEvidence, Macro
  <2> QED BY <2>1, <2>2, <2>3, GrantType, InstallRunType
          DEF TypeOK, ApproveRunStart, session
<1>3. CASE \E h \in Humans, d \in {"approve", "deny"} : RefuseRunStart(h, d)
  BY <1>3 DEF TypeOK, RefuseRunStart, session, work, Lease
<1>4. CASE \E a \in Agents : CancelRunStart(a)
  BY <1>4 DEF TypeOK, CancelRunStart, session, work
<1>5. CASE \E a \in Actors, f \in Fences : StartRun(a, f)
  BY <1>5, InstallRunType DEF TypeOK, StartRun, session, work
<1>6. CASE \E a \in Actors, f \in Fences, r \in RunIds : EndRun(a, f, r)
  BY <1>6, StopTriggerType DEF TypeOK, EndRun, session
<1>7. CASE \E a \in Agents, r \in RunIds, v \in 0..MaxRevision :
              AcknowledgeRunContext(a, r, v)
  BY <1>7 DEF TypeOK, AcknowledgeRunContext, session, work, RunContext
<1> QED BY <1>1, <1>2, <1>3, <1>4, <1>5, <1>6, <1>7 DEF RunRequest

\* A Human's bytes inside an Agent's Run leave a well-typed read gate.
LEMMA InterfereType ==
    ASSUME TypeOK, AgentRunHeld, Interfere
    PROVE  ctx' \in RunContext
BY DEF TypeOK, AgentRunHeld, Interfere, Run, RunContext

\* The requests that write to the line keep every type.
LEMMA WriteRequestType ==
    ASSUME TypeOK, WriteRequest
    PROVE  TypeOK'
<1> USE DEF TypeOK, Transmits, Transmission, session, work
<1>1. CASE \E a \in Actors, f \in Fences : Write(a, f)
  BY <1>1 DEF Write, authority, Fences
<1>2. CASE \E a \in Actors, f \in Fences : SendBreak(a, f)
  BY <1>2 DEF SendBreak, authority, Fences
<1>3. CASE \E h \in Humans : CooperativeWrite(h)
  BY <1>3, InterfereType DEF CooperativeWrite, AgentRunHeld, Lease, Actors
<1>4. CASE \E h \in Humans, sent \in BOOLEAN : SendOwnedCommand(h, sent)
  <2>1. PICK h \in Humans, sent \in BOOLEAN : SendOwnedCommand(h, sent)
    BY <1>4
  <2>2. h \in Actors
    BY DEF Actors
  <2>3. lease' \in Lease /\ nextFence' \in Nat /\ lease'.fence < nextFence'
    BY <2>1, <2>2, GrantType DEF SendOwnedCommand
  <2>4. lease'.fence \in Nat
    BY <2>3 DEF Lease
  <2>5. line' \in Transmission \cup {None}
    BY <2>1, <2>2, <2>4 DEF SendOwnedCommand
  <2> QED BY <2>1, <2>3, <2>5, StopMacroType DEF SendOwnedCommand
<1>5. CASE \E h \in Humans, sent \in BOOLEAN : SendCooperativeCommand(h, sent)
  <2>1. PICK h \in Humans, sent \in BOOLEAN : SendCooperativeCommand(h, sent)
    BY <1>5
  <2>2. h \in Actors /\ AgentRunHeld
    BY <2>1 DEF Actors, SendCooperativeCommand
  <2>3. lease.fence \in Nat
    BY <2>2 DEF AgentRunHeld, Lease
  <2>4. line' \in Transmission \cup {None}
    BY <2>1, <2>2, <2>3 DEF SendCooperativeCommand, Transmits, Transmission
  <2>5. ctx' \in RunContext \cup {None}
    BY <2>1, <2>2, InterfereType DEF SendCooperativeCommand
  <2> QED BY <2>1, <2>4, <2>5, StopMacroType DEF SendCooperativeCommand
<1> QED BY <1>1, <1>2, <1>3, <1>4, <1>5 DEF WriteRequest

\* Every turn of a Trigger keeps every type.
LEMMA TriggerStepType ==
    ASSUME TypeOK, TriggerStep
    PROVE  TypeOK'
<1> USE DEF TypeOK, session, authority
<1>1. CASE \E a \in Actors, f \in Fences, r \in RunIds \cup {None} : StartTrigger(a, f, r)
  BY <1>1 DEF StartTrigger, Trigger, Run, Fences, RunIds
<1>2. CASE BeginTriggerWrite
  <2>1. trigger \in Trigger
    BY <1>2 DEF BeginTriggerWrite, TriggerWaits
  <2>2. trigger.owner \in Actors /\ trigger.fence \in Nat /\ [trigger EXCEPT !.flying = TRUE] \in Trigger
    BY <2>1 DEF Trigger
  <2>3. trigger' \in Trigger /\ line' \in Transmission
    BY <1>2, <2>2 DEF BeginTriggerWrite, Transmits, Transmission
  <2> QED BY <1>2, <2>3 DEF BeginTriggerWrite
<1>3. CASE FailTriggerWrite
  BY <1>3 DEF FailTriggerWrite
<1>4. CASE \E continues \in BOOLEAN : TriggerWriteResult(continues)
  BY <1>4 DEF TriggerWriteResult, Trigger
<1>5. CASE TriggerObservesStop
  BY <1>5, StopTriggerType DEF TriggerObservesStop
<1>6. CASE TriggerDeadline
  BY <1>6, StopTriggerType DEF TriggerDeadline
<1>7. CASE \E a \in Actors, f \in Fences : CancelTrigger(a, f)
  BY <1>7, StopTriggerType DEF CancelTrigger
<1> QED BY <1>1, <1>2, <1>3, <1>4, <1>5, <1>6, <1>7 DEF TriggerStep

\* Every turn of a macro keeps every type.
LEMMA MacroStepType ==
    ASSUME TypeOK, MacroStep
    PROVE  TypeOK'
<1> USE DEF TypeOK, session, authority
<1>1. CASE \E a \in Actors, f \in Fences, r \in RunIds \cup {None} : StartMacro(a, f, r)
  BY <1>1 DEF StartMacro, Macro, Fences, RunIds
<1>2. CASE MacroWrite
  BY <1>2 DEF MacroWrite, Transmits, Transmission, Macro, work
<1>3. CASE \E a \in Actors, f \in Fences : CancelMacro(a, f)
  BY <1>3, StopMacroType DEF CancelMacro
<1>4. CASE FinishMacro
  BY <1>4 DEF FinishMacro
<1> QED BY <1>1, <1>2, <1>3, <1>4 DEF MacroStep

\* Closing the session keeps the types of what it resets.
LEMMA DropSessionType ==
    ASSUME TypeOK, DropSession
    PROVE  /\ online' \in BOOLEAN
           /\ lease' \in Lease \cup {None}
           /\ nextFence' \in Nat
           /\ lease' # None => lease'.fence < nextFence'
           /\ pending' \in Approval \cup {None}
           /\ run' \in Run \cup {None}
           /\ nextRun' \in Nat
           /\ ctx' \in RunContext \cup {None}
           /\ trigger' \in Trigger \cup {None}
           /\ macro' \in Macro \cup {None}
           /\ line' \in Transmission \cup {None}
BY AbortRunType DEF TypeOK, DropSession

\* pause_for_reconfigure keeps the types of what it resets.
LEMMA PauseType ==
    ASSUME TypeOK, Pause
    PROVE  /\ online' \in BOOLEAN
           /\ paused' \in BOOLEAN
           /\ lease' \in Lease \cup {None}
           /\ nextFence' \in Nat
           /\ lease' # None => lease'.fence < nextFence'
           /\ pending' \in Approval \cup {None}
           /\ run' \in Run \cup {None}
           /\ nextRun' \in Nat
           /\ ctx' \in RunContext \cup {None}
           /\ trigger' \in Trigger \cup {None}
           /\ macro' \in Macro \cup {None}
           /\ line' \in Transmission \cup {None}
<1>1. CASE paused
  BY <1>1 DEF TypeOK, Pause, authority, work
<1>2. CASE ~paused
  BY <1>2, DropSessionType DEF Pause
<1> QED BY <1>1, <1>2

\* Opening, closing, staging, committing, rolling back and shutting down
\* keep every type.
LEMMA SessionStepType ==
    ASSUME TypeOK, SessionStep
    PROVE  TypeOK'
<1>1. CASE PortClosed
  BY <1>1, DropSessionType DEF TypeOK, PortClosed
<1>2. CASE TryOpen
  BY <1>2, AbortRunType, StopTriggerType DEF TypeOK, TryOpen
<1>3. CASE \E c \in Staged : StageReconfiguration(c)
  <2>1. PICK c \in Staged : StageReconfiguration(c)
    BY <1>3
  <2>2. CASE c.reopened
    BY <2>1, <2>2, PauseType DEF TypeOK, StageReconfiguration
  <2>3. CASE ~c.reopened
    BY <2>1, <2>3 DEF TypeOK, StageReconfiguration, authority, work
  <2> QED BY <2>2, <2>3
<1>4. CASE StageRemoval
  <2>1. staged' \in Staged
    BY <1>4 DEF TypeOK, StageRemoval, Staged
  <2> QED BY <1>4, <2>1, PauseType DEF TypeOK, StageRemoval
<1>5. CASE \E p \in Profiles : StageModelProfile(p)
  BY <1>5 DEF TypeOK, StageModelProfile, Staged, authority, work
<1>6. CASE CommitStaged
  BY <1>6 DEF TypeOK, CommitStaged, Staged, authority, work
<1>7. CASE RollbackStaged
  BY <1>7 DEF TypeOK, RollbackStaged, authority, work
<1>8. CASE Shutdown
  BY <1>8, DropSessionType DEF TypeOK, Shutdown
<1> QED BY <1>1, <1>2, <1>3, <1>4, <1>5, <1>6, <1>7, <1>8 DEF SessionStep

\* A new actor is well typed.
LEMMA InitType ==
    ASSUME Init
    PROVE  TypeOK
<1> DEFINE added == [kind |-> "add", reopened |-> FALSE, resume |-> FALSE,
                     enabled |-> enabled, profile |-> profile]
<1>1. enabled \in BOOLEAN /\ profile \in Profiles
  BY DEF Init
<1>2. added \in Staged
  BY <1>1 DEF Staged
<1>3. staged \in {None, added}
  BY DEF Init
<1> HIDE DEF added
<1>4. staged \in Staged \cup {None}
  BY <1>2, <1>3
<1> QED BY <1>4 DEF Init, TypeOK

\* Every turn of the actor keeps every type.
LEMMA NextType ==
    ASSUME TypeOK, [Next]_vars
    PROVE  TypeOK'
<1>1. CASE UNCHANGED vars
  BY <1>1 DEF TypeOK, vars, session, authority, work
<1> QED BY <1>1, ExpiryType, ControlRequestType, RunRequestType, WriteRequestType,
           TriggerStepType, MacroStepType, SessionStepType DEF Next, Stopped

\* The state of the Slot actor has the types its struct declares, whatever the
\* order of its turns.
THEOREM SlotTypeCorrect == Spec => []TypeOK
BY InitType, NextType, PTL DEF Spec

-----------------------------------------------------------------------------
(* The inductive invariant *)

\* The safety invariants hold one another up: the Run's tie to the lease needs
\* that a closed port has no lease, a Trigger's open gate needs that only its own
\* owner's Run is gated, an approved transfer needs that its approver is the
\* holder.  Their conjunction is inductive as it stands.
Safe ==
    /\ LeaseOfSession
    /\ RunHeld
    /\ ApprovalBound
    /\ TriggerAuthorized
    /\ MacroAuthorized
    /\ StagedPortClosed

Inv == TypeOK /\ Safe

\* A Trigger that survives request_trigger_stop is marked as stopping.
LEMMA StopTriggerFact ==
    ASSUME TypeOK, StopTrigger # None
    PROVE  trigger # None /\ StopTrigger.stopping
BY DEF TypeOK, StopTrigger, Trigger

\* A macro that survives stop_macro may not write again.
LEMMA StopMacroFact ==
    ASSUME TypeOK, StopMacro # None
    PROVE  macro # None /\ StopMacro.halt = "stop"
BY DEF TypeOK, StopMacro, Macro

\* Time passing or a renewal changes nothing of a lease but its time.
LEMMA LeaseKept ==
    ASSUME TypeOK, lease # None, NEW t \in {"ample", "short", "due"},
           lease' = [lease EXCEPT !.ttl = t]
    PROVE  /\ lease' # None
           /\ lease'.owner = lease.owner
           /\ lease'.fence = lease.fence
           /\ lease'.generation = lease.generation
BY NoneAssumption DEF TypeOK, Lease

\* ControlState::grant: the new lease is the requester's, of this session, and
\* older than the next fence.
LEMMA GrantFact ==
    ASSUME TypeOK, NEW a \in Actors, Grant(a)
    PROVE  /\ lease' # None
           /\ lease'.owner = a
           /\ lease'.generation = generation
           /\ lease'.fence = nextFence
           /\ lease'.fence < nextFence'
BY GrantType, NoneAssumption DEF TypeOK, Grant

\* install_run: the Run is the requester's, and gated only for an Agent.
LEMMA InstallRunFact ==
    ASSUME TypeOK, NEW a \in Actors, InstallRun(a)
    PROVE  /\ run' # None
           /\ run'.owner = a
           /\ ctx' # None <=> a \in Agents
           /\ ctx' # None => ctx'.run = run'.id /\ ctx'.acknowledged <= ctx'.revision
<1>1. run' # None /\ run'.owner = a /\ run'.id = nextRun
  BY InstallRunType, NoneAssumption DEF InstallRun
<1>2. CASE a \in Agents
  <2>1. ctx' = [run |-> nextRun, revision |-> 0, acknowledged |-> 0]
    BY <1>2 DEF InstallRun
  <2>2. ctx' \in RunContext
    BY <2>1 DEF TypeOK, RunContext
  <2> QED BY <1>1, <1>2, <2>1, <2>2, NoneAssumption
<1>3. CASE a \notin Agents
  BY <1>1, <1>3 DEF InstallRun
<1> QED BY <1>2, <1>3

\* A Human's bytes leave the read gate of the same Run, not acknowledged ahead.
LEMMA InterfereFact ==
    ASSUME Inv, AgentRunHeld, Interfere
    PROVE  /\ ctx' # None
           /\ ctx'.run = run.id
           /\ ctx'.acknowledged <= ctx'.revision
<1>1. ctx # None /\ ctx \in RunContext
  BY DEF Inv, Safe, TypeOK, RunHeld, AgentRunHeld
<1>2. ctx' = [ctx EXCEPT !.revision = @ + 1]
  BY <1>1 DEF Interfere
<1>3. /\ ctx'.run = ctx.run
      /\ ctx'.acknowledged = ctx.acknowledged
      /\ ctx'.revision = ctx.revision + 1
  BY <1>1, <1>2 DEF RunContext
<1>4. ctx.acknowledged \in Nat /\ ctx.revision \in Nat
  BY <1>1 DEF RunContext
<1>5. ctx' # None
  BY InterfereType, NoneAssumption DEF Inv
<1> QED BY <1>1, <1>3, <1>4, <1>5 DEF Inv, Safe, RunHeld

\* Passing deadlines and expiry keep the invariant.
LEMMA ExpirySafe ==
    ASSUME Inv, Expiry
    PROVE  Safe'
<1> USE DEF Inv, Safe, TypeOK, LeaseOfSession, RunHeld, ApprovalBound,
            TriggerAuthorized, MacroAuthorized, StagedPortClosed, ReadGateOpen,
            ExpectedRun, session, work
<1>1. CASE LeaseTimePasses
  BY <1>1, LeaseKept DEF LeaseTimePasses
<1>2. CASE ApprovalTimePasses
  BY <1>2 DEF ApprovalTimePasses, Approval
<1>3. CASE ExpireControl
  BY <1>3, StopTriggerFact, StopMacroFact DEF ExpireControl, DropControl, AbortRun
<1>4. CASE ExpirePendingRunStart
  BY <1>4 DEF ExpirePendingRunStart
<1> QED BY <1>1, <1>2, <1>3, <1>4 DEF Expiry

\* Acquire, Renew, Release and DisconnectActor keep the invariant.
LEMMA ControlRequestSafe ==
    ASSUME Inv, ControlRequest
    PROVE  Safe'
<1> USE DEF Inv, Safe, TypeOK, LeaseOfSession, RunHeld, ApprovalBound,
            TriggerAuthorized, MacroAuthorized, StagedPortClosed, ReadGateOpen,
            ExpectedRun, session, work
<1>1. CASE \E a \in Actors, mode \in {"queue", "takeover"} : Acquire(a, mode)
  BY <1>1, StopTriggerFact, StopMacroFact DEF Acquire, Grant, AbortRun, BoundToRun, Actors
<1>2. CASE \E a \in Actors, f \in Fences : Renew(a, f)
  <2>1. lease # None /\ lease' = [lease EXCEPT !.ttl = "ample"]
    BY <1>2 DEF Renew, Validate
  <2> QED BY <1>2, <2>1, LeaseKept DEF Renew
<1>3. CASE \E a \in Actors, f \in Fences : Release(a, f)
  BY <1>3, StopTriggerFact, StopMacroFact DEF Release, DropControl, AbortRun
<1>4. CASE \E a \in Actors : Disconnect(a)
  BY <1>4, StopTriggerFact, StopMacroFact DEF Disconnect, AbortRun, BoundToRun
<1> QED BY <1>1, <1>2, <1>3, <1>4 DEF ControlRequest

\* The requests that start, approve and end Runs keep the invariant.
LEMMA RunRequestSafe ==
    ASSUME Inv, RunRequest
    PROVE  Safe'
<1> USE DEF Inv, Safe, TypeOK, LeaseOfSession, RunHeld, ApprovalBound,
            TriggerAuthorized, MacroAuthorized, StagedPortClosed, ReadGateOpen,
            ExpectedRun, session, work
<1>1. CASE \E a \in Agents : RequestRunStart(a)
  <2>1. PICK a \in Agents : RequestRunStart(a)
    BY <1>1
  <2>2. a \in Actors
    BY DEF Actors
  <2>3. CASE lease = None
    BY <2>1, <2>2, <2>3, GrantFact, InstallRunFact DEF RequestRunStart
  <2>4. CASE lease # None
    BY <2>1, <2>4 DEF RequestRunStart
  <2> QED BY <2>3, <2>4
<1>2. CASE \E h \in Humans : ApproveRunStart(h)
  <2>1. PICK h \in Humans : ApproveRunStart(h)
    BY <1>2
  <2> DEFINE a == pending.requester
  <2>2. a \in Agents /\ a \in Actors
    BY <2>1 DEF ApproveRunStart, Actors
  <2>3. Grant(a) /\ InstallRun(a) /\ pending' = None /\ trigger' = None
    BY <2>1 DEF ApproveRunStart, TransferPossible
  <2>4. macro' # None => macro'.halt # "no"
    BY <2>1 DEF ApproveRunStart, RevokedEvidence, Macro
  <2>5. online /\ UNCHANGED session
    BY <2>1 DEF ApproveRunStart, TransferPossible
  <2> HIDE DEF a
  <2> QED BY <2>2, <2>3, <2>4, <2>5, GrantFact, InstallRunFact
<1>3. CASE \E h \in Humans, d \in {"approve", "deny"} : RefuseRunStart(h, d)
  BY <1>3, LeaseKept DEF RefuseRunStart
<1>4. CASE \E a \in Agents : CancelRunStart(a)
  BY <1>4 DEF CancelRunStart
<1>5. CASE \E a \in Actors, f \in Fences : StartRun(a, f)
  BY <1>5 DEF StartRun, Validate, InstallRun
<1>6. CASE \E a \in Actors, f \in Fences, r \in RunIds : EndRun(a, f, r)
  BY <1>6, StopTriggerFact DEF EndRun
<1>7. CASE \E a \in Agents, r \in RunIds, v \in 0..MaxRevision :
              AcknowledgeRunContext(a, r, v)
  <2>1. PICK a \in Agents, r \in RunIds, v \in 0..MaxRevision :
               AcknowledgeRunContext(a, r, v)
    BY <1>7
  <2>2. ctx \in RunContext /\ ctx' = [ctx EXCEPT !.acknowledged = ctx.revision]
    BY <2>1 DEF AcknowledgeRunContext
  <2>3. /\ ctx'.run = ctx.run
        /\ ctx'.acknowledged = ctx.revision /\ ctx'.revision = ctx.revision
        /\ ctx' \in RunContext
        /\ ctx.revision \in Nat
    BY <2>2 DEF RunContext
  <2>4. /\ ctx' # None
        /\ ctx'.acknowledged >= ctx'.revision
        /\ ctx'.acknowledged <= ctx'.revision
    BY <2>3, NoneAssumption
  <2> QED BY <2>1, <2>3, <2>4 DEF AcknowledgeRunContext
<1> QED BY <1>1, <1>2, <1>3, <1>4, <1>5, <1>6, <1>7 DEF RunRequest

\* The requests that write to the line keep the invariant.
LEMMA WriteRequestSafe ==
    ASSUME Inv, WriteRequest
    PROVE  Safe'
<1> USE DEF Inv, Safe, TypeOK, LeaseOfSession, RunHeld, ApprovalBound,
            TriggerAuthorized, MacroAuthorized, StagedPortClosed, ReadGateOpen,
            ExpectedRun, session, work
<1>1. CASE \E a \in Actors, f \in Fences : Write(a, f)
  BY <1>1 DEF Write, authority
<1>2. CASE \E a \in Actors, f \in Fences : SendBreak(a, f)
  BY <1>2 DEF SendBreak, authority
<1>3. CASE \E h \in Humans : CooperativeWrite(h)
  <2>1. AgentRunHeld /\ Interfere /\ macro' = None /\ trigger' = None
    BY <1>3 DEF CooperativeWrite
  <2>2. UNCHANGED <<session, lease, nextFence, pending, run>>
    BY <1>3 DEF CooperativeWrite
  <2> QED BY <2>1, <2>2, InterfereFact DEF AgentRunHeld
<1>4. CASE \E h \in Humans, sent \in BOOLEAN : SendOwnedCommand(h, sent)
  BY <1>4, StopMacroFact DEF SendOwnedCommand, Grant
<1>5. CASE \E h \in Humans, sent \in BOOLEAN : SendCooperativeCommand(h, sent)
  <2>1. /\ AgentRunHeld
        /\ Interfere \/ UNCHANGED ctx
        /\ macro' = StopMacro
        /\ trigger' = None
    BY <1>5 DEF SendCooperativeCommand
  <2>2. UNCHANGED <<session, lease, nextFence, pending, run>>
    BY <1>5 DEF SendCooperativeCommand
  <2> QED BY <2>1, <2>2, InterfereFact, StopMacroFact DEF AgentRunHeld
<1> QED BY <1>1, <1>2, <1>3, <1>4, <1>5 DEF WriteRequest

\* Every turn of a Trigger keeps the invariant.
LEMMA TriggerStepSafe ==
    ASSUME Inv, TriggerStep
    PROVE  Safe'
<1> USE DEF Inv, Safe, TypeOK, LeaseOfSession, RunHeld, ApprovalBound,
            TriggerAuthorized, MacroAuthorized, StagedPortClosed, ReadGateOpen,
            ExpectedRun, session, work
<1>1. CASE \E a \in Actors, f \in Fences, r \in RunIds \cup {None} : StartTrigger(a, f, r)
  BY <1>1 DEF StartTrigger, Validate, authority
<1>2. CASE BeginTriggerWrite
  BY <1>2 DEF BeginTriggerWrite, TriggerWaits, Trigger, authority
<1>3. CASE FailTriggerWrite
  BY <1>3 DEF FailTriggerWrite, authority
<1>4. CASE \E continues \in BOOLEAN : TriggerWriteResult(continues)
  BY <1>4 DEF TriggerWriteResult, Trigger, authority
<1>5. CASE TriggerObservesStop
  BY <1>5, StopTriggerFact DEF TriggerObservesStop, authority
<1>6. CASE TriggerDeadline
  BY <1>6, StopTriggerFact DEF TriggerDeadline, authority
<1>7. CASE \E a \in Actors, f \in Fences : CancelTrigger(a, f)
  BY <1>7, StopTriggerFact DEF CancelTrigger, authority
<1> QED BY <1>1, <1>2, <1>3, <1>4, <1>5, <1>6, <1>7 DEF TriggerStep

\* Every turn of a macro keeps the invariant.
LEMMA MacroStepSafe ==
    ASSUME Inv, MacroStep
    PROVE  Safe'
<1> USE DEF Inv, Safe, TypeOK, LeaseOfSession, RunHeld, ApprovalBound,
            TriggerAuthorized, MacroAuthorized, StagedPortClosed, ReadGateOpen,
            ExpectedRun, session, work
<1>1. CASE \E a \in Actors, f \in Fences, r \in RunIds \cup {None} : StartMacro(a, f, r)
  BY <1>1 DEF StartMacro, Validate, authority
<1>2. CASE MacroWrite
  BY <1>2 DEF MacroWrite, authority
<1>3. CASE \E a \in Actors, f \in Fences : CancelMacro(a, f)
  BY <1>3, StopMacroFact DEF CancelMacro, authority
<1>4. CASE FinishMacro
  BY <1>4 DEF FinishMacro, authority
<1> QED BY <1>1, <1>2, <1>3, <1>4 DEF MacroStep

\* Opening, closing, staging, committing, rolling back and shutting down
\* keep the invariant.
LEMMA SessionStepSafe ==
    ASSUME Inv, SessionStep
    PROVE  Safe'
<1> USE DEF Inv, Safe, TypeOK, LeaseOfSession, RunHeld, ApprovalBound,
            TriggerAuthorized, MacroAuthorized, StagedPortClosed, ReadGateOpen,
            ExpectedRun, session, work
<1>1. CASE PortClosed
  BY <1>1, StopMacroFact DEF PortClosed, DropSession, AbortRun
<1>2. CASE TryOpen
  BY <1>2, StopTriggerFact, StopMacroFact DEF TryOpen, AbortRun, Settled
<1>3. CASE \E c \in Staged : StageReconfiguration(c)
  BY <1>3, StopMacroFact DEF StageReconfiguration, Pause, DropSession, AbortRun, authority
<1>4. CASE StageRemoval
  BY <1>4, StopMacroFact DEF StageRemoval, Pause, DropSession, AbortRun, authority
<1>5. CASE \E p \in Profiles : StageModelProfile(p)
  BY <1>5 DEF StageModelProfile, authority
<1>6. CASE CommitStaged
  BY <1>6 DEF CommitStaged, authority
<1>7. CASE RollbackStaged
  BY <1>7 DEF RollbackStaged, authority
<1>8. CASE Shutdown
  BY <1>8, StopMacroFact DEF Shutdown, DropSession, AbortRun
<1> QED BY <1>1, <1>2, <1>3, <1>4, <1>5, <1>6, <1>7, <1>8 DEF SessionStep

\* Authority over the line is coherent in every reachable state: leases, Runs,
\* approvals, Triggers, macros and staged changes never outlive what they
\* depend on.
THEOREM SlotInvariant == Spec => []Inv
<1>1. Init => Inv
  BY InitType DEF Init, Inv, Safe, LeaseOfSession, RunHeld, ApprovalBound,
         TriggerAuthorized, MacroAuthorized, StagedPortClosed
<1>2. Inv /\ [Next]_vars => Inv'
  <2> SUFFICES ASSUME Inv, [Next]_vars
               PROVE  Inv'
    OBVIOUS
  <2>1. TypeOK'
    BY NextType DEF Inv
  <2>2. CASE UNCHANGED vars
    BY <2>2 DEF vars, session, authority, work, Inv, TypeOK, Safe, LeaseOfSession,
                RunHeld, ApprovalBound, TriggerAuthorized, MacroAuthorized,
                StagedPortClosed, ReadGateOpen, ExpectedRun
  <2>3. CASE Next
    BY <2>2, <2>3, <2>1, ExpirySafe, ControlRequestSafe, RunRequestSafe, WriteRequestSafe,
       TriggerStepSafe, MacroStepSafe, SessionStepSafe DEF Next, Stopped, Inv
  <2> QED BY <2>2, <2>3
<1> QED BY <1>1, <1>2, PTL DEF Spec

\* No lease survives the session it was granted in, for any number of clients,
\* sessions and fences.
THEOREM SlotLeaseOfSession == Spec => []LeaseOfSession
BY SlotInvariant, PTL DEF Inv, Safe

\* A Run never outlives its owner's lease and only an Agent's Run is gated.
THEOREM SlotRunHeld == Spec => []RunHeld
BY SlotInvariant, PTL DEF Inv, Safe

\* An open approval is always bound to the exact Human lease it would replace.
THEOREM SlotApprovalBound == Spec => []ApprovalBound
BY SlotInvariant, PTL DEF Inv, Safe

\* A Trigger that may still fire holds its lease, its Run and an open read
\* gate, although begin_trigger_write does not look at the gate again.
THEOREM SlotTriggerAuthorized == Spec => []TriggerAuthorized
BY SlotInvariant, PTL DEF Inv, Safe

\* A macro that was told nothing still holds everything it was started under.
THEOREM SlotMacroAuthorized == Spec => []MacroAuthorized
BY SlotInvariant, PTL DEF Inv, Safe

\* Leases and approvals are bound to the session and to the exact lease.
THEOREM SlotSessionBound == Spec => []SessionBound
BY SlotInvariant, PTL DEF Inv, Safe, SessionBound

\* Triggers and macros keep the authority they were started under, together.
THEOREM SlotWorkAuthorized == Spec => []WorkAuthorized
BY SlotInvariant, PTL DEF Inv, Safe, WorkAuthorized

\* A staged change that reopens or removes the port keeps it closed.
THEOREM SlotStagedPortClosed == Spec => []StagedPortClosed
BY SlotInvariant, PTL DEF Inv, Safe

-----------------------------------------------------------------------------
(* The refinement: every turn of the Slot actor is a step of WriteAuthority, or leaves the *)
(* abstract state alone.                                                                   *)

AuthorityStep == [Authority!Next]_(Authority!vars)

-----------------------------------------------------------------------------
(* The abstract steps *)

\* A turn that changes none of the abstract variables is a stuttering step.
LEMMA Stutters ==
    ASSUME Holder' = Holder, nextFence' = nextFence, Gate' = Gate,
           Busy' = Busy, line' = line
    PROVE  AuthorityStep
BY DEF AuthorityStep, Authority!vars

\* Losing the lease is Revoke.
LEMMA Revokes ==
    ASSUME Holder # None, Holder' = None, nextFence' = nextFence, Gate' = "open",
           Busy' = Busy \/ Busy' = FALSE, line' = line
    PROVE  AuthorityStep
BY DEF AuthorityStep, Authority!Next, Authority!Revoke

\* A new lease is Grant.
LEMMA Grants ==
    ASSUME NEW a \in Actors, Authority!MayTakeFrom(a),
           Holder' = [owner |-> a, fence |-> nextFence], nextFence' = nextFence + 1,
           Gate' = "open", Busy' = Busy, line' = line
    PROVE  AuthorityStep
BY DEF AuthorityStep, Authority!Next, Authority!Grant, Actors

\* The holder's bytes are Transmit.
LEMMA Transmitted ==
    ASSUME Holder # None, ~Busy, Holder.owner \in Agents => Gate = "open",
           line' = [by |-> Holder.owner, fence |-> Holder.fence], Busy' \in BOOLEAN,
           Holder' = Holder, nextFence' = nextFence, Gate' = Gate
    PROVE  AuthorityStep
BY DEF AuthorityStep, Authority!Next, Authority!Transmit

\* A Human's bytes on a free line are GrantAndTransmit.
LEMMA GrantedAndTransmitted ==
    ASSUME NEW h \in Humans, Holder = None, ~Busy,
           Holder' = [owner |-> h, fence |-> nextFence], nextFence' = nextFence + 1,
           line' = [by |-> h, fence |-> nextFence], Gate' = Gate, Busy' = Busy
    PROVE  AuthorityStep
BY DEF AuthorityStep, Authority!Next, Authority!GrantAndTransmit

\* A Human's bytes inside an Agent's Run are Assist.
LEMMA Assists ==
    ASSUME NEW h \in Humans, Holder # None, Holder.owner \in Agents,
           line' = [by |-> h, fence |-> Holder.fence], Gate' = "closed", Busy' = FALSE,
           Holder' = Holder, nextFence' = nextFence
    PROVE  AuthorityStep
BY DEF AuthorityStep, Authority!Next, Authority!Assist

\* Reading the Human's command, or ending the Run, is OpenGate.
LEMMA OpensGate ==
    ASSUME Gate' = "open", Holder' = Holder, nextFence' = nextFence, Busy' = Busy,
           line' = line
    PROVE  AuthorityStep
BY DEF AuthorityStep, Authority!Next, Authority!OpenGate

\* The writer's answer is Settle.
LEMMA Settles ==
    ASSUME Busy' = FALSE, Holder' = Holder, nextFence' = nextFence, Gate' = Gate,
           line' = line
    PROVE  AuthorityStep
BY DEF AuthorityStep, Authority!Next, Authority!Settle

-----------------------------------------------------------------------------
(* What the actor's helpers do to the abstract state *)

\* A lease is a holding of the line.
LEMMA HolderFact ==
    ASSUME TypeOK, lease # None
    PROVE  /\ Holder # None
           /\ Holder.owner = lease.owner
           /\ Holder.fence = lease.fence
<1>1. lease.owner \in Actors /\ lease.fence \in Nat
  BY DEF TypeOK, Lease
<1>2. Holder = [owner |-> lease.owner, fence |-> lease.fence]
  BY DEF Holder
<1>3. Holder \in Holding
  BY <1>1, <1>2 DEF Holding
<1> QED BY <1>2, <1>3, NoneAssumption

\* A new lease is a holding under the next fence.
LEMMA GrantHolder ==
    ASSUME TypeOK, NEW a \in Actors, Grant(a)
    PROVE  /\ Holder' = [owner |-> a, fence |-> nextFence]
           /\ nextFence' = nextFence + 1
BY GrantFact DEF Grant, Holder

\* Time passing or a renewal leaves the holding alone.
LEMMA LeaseKeptHolder ==
    ASSUME TypeOK, lease # None, NEW t \in {"ample", "short", "due"},
           lease' = [lease EXCEPT !.ttl = t]
    PROVE  Holder' = Holder
BY LeaseKept DEF Holder

\* request_trigger_stop does not recall a write in flight.
LEMMA StopTriggerBusy ==
    ASSUME TypeOK, trigger' = StopTrigger
    PROVE  Busy' = Busy
<1>1. CASE trigger # None /\ trigger.flying
  <2>1. trigger \in Trigger /\ trigger' = [trigger EXCEPT !.stopping = TRUE]
    BY <1>1 DEF TypeOK, StopTrigger
  <2>2. trigger' \in Trigger /\ trigger'.flying = trigger.flying
    BY <2>1 DEF Trigger
  <2> QED BY <1>1, <2>2, NoneAssumption DEF Busy
<1>2. CASE trigger = None \/ ~trigger.flying
  <2>1. trigger' = None
    BY <1>2 DEF StopTrigger
  <2>2. trigger # None => trigger.flying = FALSE
    BY <1>2 DEF TypeOK, Trigger
  <2> QED BY <2>1, <2>2 DEF Busy
<1> QED BY <1>1, <1>2

\* Without a Trigger nothing is in flight.
LEMMA IdleBusy ==
    ASSUME trigger = None
    PROVE  Busy = FALSE
BY DEF Busy

\* Without a lease there is neither a Run nor a closed gate.
LEMMA FreeGate ==
    ASSUME Inv, lease = None
    PROVE  Gate = "open" /\ ctx = None /\ run = None
BY DEF Inv, Safe, RunHeld, Gate

\* An Agent that passes validate_agent_run_context under its own lease has an
\* open gate.
LEMMA ReadGateFact ==
    ASSUME Inv, lease # None, lease.owner \in Agents, ReadGateOpen(lease.owner)
    PROVE  Gate = "open"
<1>1. CASE ctx = None
  BY <1>1 DEF Gate
<1>2. CASE ctx # None
  <2>1. run # None /\ run.owner = lease.owner /\ ctx.run = run.id
    BY <1>2 DEF Inv, Safe, RunHeld
  <2>2. ctx.acknowledged >= ctx.revision
    BY <1>2, <2>1 DEF ReadGateOpen
  <2>3. ctx.acknowledged \in Nat /\ ctx.revision \in Nat
    BY <1>2 DEF Inv, TypeOK, RunContext
  <2> QED BY <2>2, <2>3 DEF Gate
<1> QED BY <1>1, <1>2

\* A new Run starts with an open gate.
LEMMA InstallRunGate ==
    ASSUME TypeOK, NEW a \in Actors, InstallRun(a)
    PROVE  Gate' = "open"
BY DEF InstallRun, Gate

\* A Human's bytes inside an Agent's Run close the gate.
LEMMA InterfereGate ==
    ASSUME Inv, AgentRunHeld, Interfere
    PROVE  Gate' = "closed"
<1>1. ctx # None /\ ctx \in RunContext
  BY DEF Inv, Safe, TypeOK, RunHeld, AgentRunHeld
<1>2. ctx' = [ctx EXCEPT !.revision = @ + 1]
  BY <1>1 DEF Interfere
<1>3. /\ ctx'.acknowledged = ctx.acknowledged
      /\ ctx'.revision = ctx.revision + 1
      /\ ctx.acknowledged \in Nat /\ ctx.revision \in Nat
  BY <1>1, <1>2 DEF RunContext
<1>4. ctx.acknowledged <= ctx.revision
  BY <1>1 DEF Inv, Safe, RunHeld
<1>5. ctx' # None
  BY InterfereFact
<1> QED BY <1>3, <1>4, <1>5 DEF Gate

\* expire_control and Release are Revoke.
LEMMA DropControlStep ==
    ASSUME Inv, lease # None, DropControl
    PROVE  AuthorityStep
<1>1. Holder # None /\ Holder' = None
  BY HolderFact DEF Inv, DropControl, Holder
<1>2. Gate' = "open"
  BY DEF DropControl, AbortRun, Gate
<1>3. Busy' = Busy
  BY StopTriggerBusy DEF Inv, DropControl
<1> QED BY <1>1, <1>2, <1>3, Revokes DEF DropControl

\* Closing the session is Revoke, or Settle when nobody holds the line.
LEMMA DropSessionStep ==
    ASSUME Inv, DropSession
    PROVE  AuthorityStep
<1>1. Holder' = None /\ Gate' = "open" /\ Busy' = FALSE
  BY DEF DropSession, AbortRun, Holder, Gate, Busy
<1>2. nextFence' = nextFence /\ line' = line
  BY DEF DropSession
<1>3. CASE lease = None
  <2>1. Holder = None /\ Gate = "open"
    BY <1>3, FreeGate DEF Holder
  <2> QED BY <1>1, <1>2, <2>1, Settles
<1>4. CASE lease # None
  <2>1. Holder # None
    BY <1>4, HolderFact DEF Inv
  <2> QED BY <1>1, <1>2, <2>1, Revokes
<1> QED BY <1>3, <1>4

-----------------------------------------------------------------------------
(* The actor's turns *)

\* Passing deadlines change nothing abstract; expiry of the lease revokes it.
LEMMA ExpiryStep ==
    ASSUME Inv, Expiry
    PROVE  AuthorityStep
<1>1. CASE LeaseTimePasses
  <2>1. Holder' = Holder
    BY <1>1, LeaseKeptHolder DEF Inv, LeaseTimePasses
  <2> QED BY <1>1, <2>1, Stutters DEF LeaseTimePasses, Gate, Busy, work
<1>2. CASE ApprovalTimePasses
  BY <1>2, Stutters DEF ApprovalTimePasses, Holder, Gate, Busy, work
<1>3. CASE ExpireControl
  BY <1>3, DropControlStep DEF ExpireControl, LeaseDue
<1>4. CASE ExpirePendingRunStart
  BY <1>4, Stutters DEF ExpirePendingRunStart, Holder, Gate, Busy, work
<1> QED BY <1>1, <1>2, <1>3, <1>4 DEF Expiry

\* Acquire grants, Renew stutters, Release and DisconnectActor revoke.
LEMMA ControlRequestStep ==
    ASSUME Inv, ControlRequest
    PROVE  AuthorityStep
<1>1. CASE \E a \in Actors, mode \in {"queue", "takeover"} : Acquire(a, mode)
  <2>1. PICK a \in Actors, mode \in {"queue", "takeover"} : Acquire(a, mode)
    BY <1>1
  <2>2. /\ Holder' = [owner |-> a, fence |-> nextFence]
        /\ nextFence' = nextFence + 1
        /\ line' = line
    BY <2>1, GrantHolder DEF Inv, Acquire
  <2>3. CASE lease = None
    <3>1. Authority!MayTakeFrom(a)
      BY <2>3 DEF Authority!MayTakeFrom, Holder
    <3>2. Gate' = "open" /\ Busy' = Busy
      BY <2>1, <2>3, FreeGate DEF Acquire, Gate, Busy, work
    <3> QED BY <2>2, <3>1, <3>2, Grants
  <2>4. CASE lease # None
    <3>1. Authority!MayTakeFrom(a)
      BY <2>1, <2>4 DEF Acquire, Authority!MayTakeFrom
    <3>2. Gate' = "open"
      BY <2>1, <2>4 DEF Acquire, AbortRun, Gate
    <3>3. trigger' \in {trigger, StopTrigger}
      BY <2>1, <2>4 DEF Acquire
    <3>4. Busy' = Busy
      BY <3>3, StopTriggerBusy DEF Inv, Busy
    <3> QED BY <2>2, <3>1, <3>2, <3>4, Grants
  <2> QED BY <2>3, <2>4
<1>2. CASE \E a \in Actors, f \in Fences : Renew(a, f)
  <2>1. Holder' = Holder
    BY <1>2, LeaseKeptHolder DEF Inv, Renew, Validate
  <2> QED BY <1>2, <2>1, Stutters DEF Renew, Gate, Busy, work
<1>3. CASE \E a \in Actors, f \in Fences : Release(a, f)
  BY <1>3, DropControlStep DEF Release, Validate
<1>4. CASE \E a \in Actors : Disconnect(a)
  <2>1. PICK a \in Actors : Disconnect(a)
    BY <1>4
  <2>2. nextFence' = nextFence /\ line' = line
    BY <2>1 DEF Disconnect
  <2>3. trigger' \in {trigger, StopTrigger}
    BY <2>1 DEF Disconnect
  <2>4. Busy' = Busy
    BY <2>3, StopTriggerBusy DEF Inv, Busy
  <2>5. CASE lease # None /\ lease.owner = a
    <3>1. Holder # None
      BY <2>5, HolderFact DEF Inv
    <3>2. Holder' = None /\ Gate' = "open"
      BY <2>1, <2>5 DEF Disconnect, AbortRun, Holder, Gate
    <3> QED BY <2>2, <2>4, <3>1, <3>2, Revokes
  <2>6. CASE ~(lease # None /\ lease.owner = a)
    <3>1. Holder' = Holder /\ Gate' = Gate
      BY <2>1, <2>6 DEF Disconnect, Holder, Gate
    <3> QED BY <2>2, <2>4, <3>1, Stutters
  <2> QED BY <2>5, <2>6
<1> QED BY <1>1, <1>2, <1>3, <1>4 DEF ControlRequest

\* A Run that starts on a free line, or by the holder's approval, is a Grant;
\* ending it or reading the Human's command opens the gate.
LEMMA RunRequestStep ==
    ASSUME Inv, RunRequest
    PROVE  AuthorityStep
<1>1. CASE \E a \in Agents : RequestRunStart(a)
  <2>1. PICK a \in Agents : RequestRunStart(a)
    BY <1>1
  <2>2. a \in Actors
    BY DEF Actors
  <2>3. CASE lease = None
    <3>1. Grant(a) /\ InstallRun(a) /\ trigger' = trigger /\ line' = line
      BY <2>1, <2>3 DEF RequestRunStart, work
    <3>2. Holder' = [owner |-> a, fence |-> nextFence] /\ nextFence' = nextFence + 1
      BY <2>2, <3>1, GrantHolder DEF Inv
    <3>3. Gate' = "open" /\ Busy' = Busy
      BY <2>2, <3>1, InstallRunGate DEF Inv, Busy
    <3>4. Authority!MayTakeFrom(a)
      BY <2>3 DEF Authority!MayTakeFrom, Holder
    <3> QED BY <2>2, <3>1, <3>2, <3>3, <3>4, Grants
  <2>4. CASE lease # None
    BY <2>1, <2>4, Stutters DEF RequestRunStart, Holder, Gate, Busy, work
  <2> QED BY <2>3, <2>4
<1>2. CASE \E h \in Humans : ApproveRunStart(h)
  <2>1. PICK h \in Humans : ApproveRunStart(h)
    BY <1>2
  <2> DEFINE a == pending.requester
  <2>2. a \in Agents /\ lease # None /\ lease.owner \in Humans
    BY <2>1 DEF ApproveRunStart, Inv, Safe, ApprovalBound
  <2>3. Grant(a) /\ InstallRun(a) /\ trigger' = trigger /\ line' = line
    BY <2>1 DEF ApproveRunStart
  <2> HIDE DEF a
  <2>4. a \in Actors
    BY <2>2 DEF Actors
  <2>5. Holder' = [owner |-> a, fence |-> nextFence] /\ nextFence' = nextFence + 1
    BY <2>3, <2>4, GrantHolder DEF Inv
  <2>6. Gate' = "open" /\ Busy' = Busy
    BY <2>3, <2>4, InstallRunGate DEF Inv, Busy
  <2>7. Authority!MayTakeFrom(a)
    BY <2>2, HolderFact DEF Inv, Authority!MayTakeFrom
  <2> QED BY <2>3, <2>4, <2>5, <2>6, <2>7, Grants
<1>3. CASE \E h \in Humans, d \in {"approve", "deny"} : RefuseRunStart(h, d)
  <2>1. Holder' = Holder
    BY <1>3, LeaseKeptHolder DEF Inv, RefuseRunStart, Holder
  <2> QED BY <1>3, <2>1, Stutters DEF RefuseRunStart, Gate, Busy, work
<1>4. CASE \E a \in Agents : CancelRunStart(a)
  BY <1>4, Stutters DEF CancelRunStart, Holder, Gate, Busy, work
<1>5. CASE \E a \in Actors, f \in Fences : StartRun(a, f)
  <2>1. Gate' = "open"
    BY <1>5, InstallRunGate DEF Inv, StartRun
  <2> QED BY <1>5, <2>1, OpensGate DEF StartRun, Holder, Busy, work
<1>6. CASE \E a \in Actors, f \in Fences, r \in RunIds : EndRun(a, f, r)
  <2>1. Busy' = Busy
    BY <1>6, StopTriggerBusy DEF Inv, EndRun
  <2> QED BY <1>6, <2>1, OpensGate DEF EndRun, Holder, Gate
<1>7. CASE \E a \in Agents, r \in RunIds, v \in 0..MaxRevision :
              AcknowledgeRunContext(a, r, v)
  <2>1. ctx \in RunContext /\ ctx' = [ctx EXCEPT !.acknowledged = ctx.revision]
    BY <1>7 DEF AcknowledgeRunContext, Inv, TypeOK
  <2>2. /\ ctx'.acknowledged = ctx.revision /\ ctx'.revision = ctx.revision
        /\ ctx.revision \in Nat
    BY <2>1 DEF RunContext
  <2>3. Gate' = "open"
    BY <2>2 DEF Gate
  <2> QED BY <1>7, <2>3, OpensGate DEF AcknowledgeRunContext, Holder, Busy, work
<1> QED BY <1>1, <1>2, <1>3, <1>4, <1>5, <1>6, <1>7 DEF RunRequest

\* A request that passes validate and the read gate, with no write in flight,
\* transmits for the holder.
LEMMA HolderTransmits ==
    ASSUME Inv, NEW a \in Actors, NEW f, Validate(a, f), ReadGateOpen(a), trigger = None,
           Transmits(a, f), UNCHANGED <<authority, trigger>>
    PROVE  AuthorityStep
<1>1. lease # None /\ lease.owner = a /\ lease.fence = f
  BY DEF Validate
<1>2. Holder # None /\ Holder.owner = a /\ Holder.fence = f
  BY <1>1, HolderFact DEF Inv
<1>3. Holder.owner \in Agents => Gate = "open"
  BY <1>1, <1>2, ReadGateFact
<1>4. Holder' = Holder /\ Gate' = Gate /\ Busy' = FALSE /\ Busy = FALSE
  BY DEF Holder, Gate, Busy, authority
<1> QED BY <1>2, <1>3, <1>4, Transmitted DEF Transmits, authority

\* Requests transmit for the holder, for a Human on a free line, or assist.
LEMMA WriteRequestStep ==
    ASSUME Inv, WriteRequest
    PROVE  AuthorityStep
<1>1. CASE \E a \in Actors, f \in Fences : Write(a, f)
  BY <1>1, HolderTransmits DEF Write, MayTransmit, work
<1>2. CASE \E a \in Actors, f \in Fences : SendBreak(a, f)
  BY <1>2, HolderTransmits DEF SendBreak, MayTransmit, work
<1>3. CASE \E h \in Humans : CooperativeWrite(h)
  <2>1. PICK h \in Humans : CooperativeWrite(h)
    BY <1>3
  <2>2. Holder # None /\ Holder.owner \in Agents /\ Holder.fence = lease.fence
    BY <2>1, HolderFact DEF Inv, CooperativeWrite, AgentRunHeld
  <2>3. Gate' = "closed"
    BY <2>1, InterfereGate DEF CooperativeWrite
  <2>4. Busy' = FALSE /\ Holder' = Holder
    BY <2>1 DEF CooperativeWrite, Busy, Holder, work
  <2> QED BY <2>1, <2>2, <2>3, <2>4, Assists DEF CooperativeWrite, Transmits
<1>4. CASE \E h \in Humans, sent \in BOOLEAN : SendOwnedCommand(h, sent)
  <2>1. PICK h \in Humans, sent \in BOOLEAN : SendOwnedCommand(h, sent)
    BY <1>4
  <2>2. h \in Actors /\ h \notin Agents
    BY KindsAssumption DEF Actors
  <2>3. Gate' = Gate /\ Busy' = Busy
    BY <2>1 DEF SendOwnedCommand, Gate, Busy
  <2>4. CASE lease = None
    <3>1. Grant(h)
      BY <2>1, <2>4 DEF SendOwnedCommand
    <3>2. /\ Holder' = [owner |-> h, fence |-> nextFence]
          /\ nextFence' = nextFence + 1
          /\ lease'.fence = nextFence
      BY <2>2, <3>1, GrantHolder, GrantFact DEF Inv
    <3>3. Holder = None /\ Gate = "open"
      BY <2>4, FreeGate DEF Holder
    <3>4. CASE sent
      <4>1. ~Busy /\ line' = [by |-> h, fence |-> nextFence]
        BY <2>1, <3>2, <3>4, IdleBusy DEF SendOwnedCommand, Transmits
      <4> QED BY <2>3, <3>2, <3>3, <4>1, GrantedAndTransmitted
    <3>5. CASE ~sent
      <4>1. line' = line
        BY <2>1, <3>5 DEF SendOwnedCommand
      <4>2. Authority!MayTakeFrom(h)
        BY <3>3 DEF Authority!MayTakeFrom
      <4> QED BY <2>2, <2>3, <3>2, <3>3, <4>1, <4>2, Grants
    <3> QED BY <3>4, <3>5
  <2>5. CASE lease # None
    <3>1. lease.owner = h /\ lease' = lease /\ nextFence' = nextFence
      BY <2>1, <2>5 DEF SendOwnedCommand
    <3>2. Holder' = Holder /\ Holder # None /\ Holder.owner = h /\ Holder.fence = lease.fence
      BY <2>5, <3>1, HolderFact DEF Inv, Holder
    <3>3. CASE sent
      <4>1. Busy = FALSE /\ line' = [by |-> h, fence |-> lease.fence]
        BY <2>1, <3>1, <3>3, IdleBusy DEF SendOwnedCommand, Transmits
      <4> QED BY <2>2, <2>3, <3>1, <3>2, <4>1, Transmitted
    <3>4. CASE ~sent
      <4>1. line' = line
        BY <2>1, <3>4 DEF SendOwnedCommand
      <4> QED BY <2>3, <3>1, <3>2, <4>1, Stutters
    <3> QED BY <3>3, <3>4
  <2> QED BY <2>4, <2>5
<1>5. CASE \E h \in Humans, sent \in BOOLEAN : SendCooperativeCommand(h, sent)
  <2>1. PICK h \in Humans, sent \in BOOLEAN : SendCooperativeCommand(h, sent)
    BY <1>5
  <2>2. Holder # None /\ Holder.owner \in Agents /\ Holder.fence = lease.fence
    BY <2>1, HolderFact DEF Inv, SendCooperativeCommand, AgentRunHeld
  <2>3. Busy' = FALSE /\ Holder' = Holder /\ nextFence' = nextFence
    BY <2>1 DEF SendCooperativeCommand, Busy, Holder
  <2>4. CASE sent
    <3>1. Gate' = "closed"
      BY <2>1, <2>4, InterfereGate DEF SendCooperativeCommand
    <3> QED BY <2>1, <2>2, <2>3, <2>4, <3>1, Assists DEF SendCooperativeCommand, Transmits
  <2>5. CASE ~sent
    BY <2>1, <2>3, <2>5, Settles DEF SendCooperativeCommand, Gate
  <2> QED BY <2>4, <2>5
<1> QED BY <1>1, <1>2, <1>3, <1>4, <1>5 DEF WriteRequest

\* A Trigger's write transmits for the holder, its result settles it, and
\* nothing else a Trigger does is visible.
LEMMA TriggerStepStep ==
    ASSUME Inv, TriggerStep
    PROVE  AuthorityStep
<1>1. CASE \E a \in Actors, f \in Fences, r \in RunIds \cup {None} : StartTrigger(a, f, r)
  <2>1. trigger = None /\ trigger' # None /\ trigger'.flying = FALSE
    <3>1. trigger' \in Trigger
      BY <1>1 DEF StartTrigger, Inv, TypeOK, Trigger, Run, Fences, RunIds
    <3>2. trigger = None /\ trigger'.flying = FALSE
      BY <1>1 DEF StartTrigger
    <3> QED BY <3>1, <3>2, NoneAssumption
  <2> QED BY <1>1, <2>1, Stutters DEF StartTrigger, Holder, Gate, Busy, authority
<1>2. CASE BeginTriggerWrite
  <2> DEFINE a == trigger.owner
             f == trigger.fence
  <2>1. trigger \in Trigger /\ ~trigger.flying /\ ~trigger.stopping
    BY <1>2 DEF BeginTriggerWrite, TriggerWaits, Inv, TypeOK
  <2>2. lease # None /\ lease.owner = a /\ lease.fence = f /\ ReadGateOpen(a)
    BY <1>2, <2>1 DEF BeginTriggerWrite, TriggerWaits, Inv, Safe, TriggerAuthorized
  <2>3. Holder # None /\ Holder.owner = a /\ Holder.fence = f
    BY <2>2, HolderFact DEF Inv
  <2>4. Holder.owner \in Agents => Gate = "open"
    BY <2>2, <2>3, ReadGateFact
  <2>5. ~Busy /\ Busy' \in BOOLEAN
    <3>1. trigger' = [trigger EXCEPT !.flying = TRUE]
      BY <1>2 DEF BeginTriggerWrite
    <3>2. trigger'.flying = TRUE
      BY <2>1, <3>1 DEF Trigger
    <3> QED BY <2>1, <3>2 DEF Busy
  <2>6. line' = [by |-> a, fence |-> f]
    BY <1>2 DEF BeginTriggerWrite, Transmits
  <2>7. Holder' = Holder /\ nextFence' = nextFence /\ Gate' = Gate
    BY <1>2 DEF BeginTriggerWrite, Holder, Gate, authority
  <2> QED BY <2>3, <2>4, <2>5, <2>6, <2>7, Transmitted
<1>3. CASE FailTriggerWrite
  <2>1. Busy = FALSE /\ Busy' = FALSE
    BY <1>3 DEF FailTriggerWrite, TriggerWaits, Busy, Inv, TypeOK, Trigger
  <2> QED BY <1>3, <2>1, Stutters DEF FailTriggerWrite, Holder, Gate, authority
<1>4. CASE \E continues \in BOOLEAN : TriggerWriteResult(continues)
  <2>1. Busy' = FALSE
    <3>1. trigger \in Trigger
      BY <1>4 DEF TriggerWriteResult, Inv, TypeOK
    <3>2. trigger' = None \/ trigger' = [trigger EXCEPT !.flying = FALSE]
      BY <1>4 DEF TriggerWriteResult
    <3>3. trigger' = None \/ trigger'.flying = FALSE
      BY <3>1, <3>2 DEF Trigger
    <3> QED BY <3>3 DEF Busy
  <2> QED BY <1>4, <2>1, Settles DEF TriggerWriteResult, Holder, Gate, authority
<1>5. CASE TriggerObservesStop
  BY <1>5, StopTriggerBusy, Stutters DEF TriggerObservesStop, Inv, Holder, Gate, authority
<1>6. CASE TriggerDeadline
  BY <1>6, StopTriggerBusy, Stutters DEF TriggerDeadline, Inv, Holder, Gate, authority
<1>7. CASE \E a \in Actors, f \in Fences : CancelTrigger(a, f)
  BY <1>7, StopTriggerBusy, Stutters DEF CancelTrigger, Inv, Holder, Gate, authority
<1> QED BY <1>1, <1>2, <1>3, <1>4, <1>5, <1>6, <1>7 DEF TriggerStep

\* A macro's write transmits for the holder; nothing else a macro does is
\* visible.
LEMMA MacroStepStep ==
    ASSUME Inv, MacroStep
    PROVE  AuthorityStep
<1>1. CASE \E a \in Actors, f \in Fences, r \in RunIds \cup {None} : StartMacro(a, f, r)
  BY <1>1, Stutters DEF StartMacro, Holder, Gate, Busy, authority
<1>2. CASE MacroWrite
  <2>1. macro.owner \in Actors
    BY <1>2 DEF MacroWrite, Inv, TypeOK, Macro
  <2> QED BY <1>2, <2>1, HolderTransmits DEF MacroWrite, work
<1>3. CASE \E a \in Actors, f \in Fences : CancelMacro(a, f)
  BY <1>3, Stutters DEF CancelMacro, Holder, Gate, Busy, authority
<1>4. CASE FinishMacro
  BY <1>4, Stutters DEF FinishMacro, Holder, Gate, Busy, authority
<1> QED BY <1>1, <1>2, <1>3, <1>4 DEF MacroStep

\* pause_for_reconfigure closes the session, unless it is parked already.
LEMMA PauseStep ==
    ASSUME Inv, Pause
    PROVE  AuthorityStep
<1>1. CASE paused
  BY <1>1, Stutters DEF Pause, Holder, Gate, Busy, authority, work
<1>2. CASE ~paused
  BY <1>2, DropSessionStep DEF Pause
<1> QED BY <1>1, <1>2

\* A session ends by Revoke or Settle; opening one finds nobody on the line.
LEMMA SessionStepStep ==
    ASSUME Inv, SessionStep
    PROVE  AuthorityStep
<1>1. CASE PortClosed
  BY <1>1, DropSessionStep DEF PortClosed
<1>2. CASE TryOpen
  <2>1. lease = None
    BY <1>2 DEF TryOpen, Inv, Safe, LeaseOfSession
  <2> QED BY <1>2, <2>1, Stutters DEF TryOpen, Holder, Gate, Busy
<1>3. CASE \E c \in Staged : StageReconfiguration(c)
  <2>1. CASE Pause
    BY <2>1, PauseStep
  <2>2. CASE UNCHANGED <<authority, work, line>>
    BY <2>2, Stutters DEF Holder, Gate, Busy, authority, work
  <2> QED BY <1>3, <2>1, <2>2 DEF StageReconfiguration
<1>4. CASE StageRemoval
  BY <1>4, PauseStep DEF StageRemoval
<1>5. CASE \E p \in Profiles : StageModelProfile(p)
  BY <1>5, Stutters DEF StageModelProfile, Holder, Gate, Busy, authority, work
<1>6. CASE CommitStaged
  BY <1>6, Stutters DEF CommitStaged, Holder, Gate, Busy, authority, work
<1>7. CASE RollbackStaged
  BY <1>7, Stutters DEF RollbackStaged, Holder, Gate, Busy, authority, work
<1>8. CASE Shutdown
  BY <1>8, DropSessionStep DEF Shutdown
<1> QED BY <1>1, <1>2, <1>3, <1>4, <1>5, <1>6, <1>7, <1>8 DEF SessionStep

\* The Slot actor implements WriteAuthority for every set of clients: one
\* holder at a time under increasing fences, one write on the line at a time,
\* no byte of an Agent before it has read the Human's command.
THEOREM SlotImplementsAuthority == Spec => ImplementsAuthority
<1>1. Init => Authority!Init
  BY DEF Init, Authority!Init, Holder, Gate, Busy
<1>2. Inv /\ [Next]_vars => AuthorityStep
  <2> SUFFICES ASSUME Inv, [Next]_vars
               PROVE  AuthorityStep
    OBVIOUS
  <2>1. CASE UNCHANGED vars
    BY <2>1, Stutters DEF vars, authority, work, Holder, Gate, Busy
  <2>2. CASE Next
    BY <2>1, <2>2, ExpiryStep, ControlRequestStep, RunRequestStep, WriteRequestStep,
       TriggerStepStep, MacroStepStep, SessionStepStep DEF Next, Stopped
  <2> QED BY <2>1, <2>2
<1> QED BY <1>1, <1>2, SlotInvariant, PTL
        DEF Spec, ImplementsAuthority, Authority!Spec, AuthorityStep

=============================================================================
