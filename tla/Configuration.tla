--------------------------- MODULE Configuration ---------------------------
(***************************************************************************)
(* A change of the daemon's configuration: the transactions of api.rs over  *)
(* the SlotRegistry's actors, the persisted file and the copy in memory.    *)
(*                                                                         *)
(* A transaction stages every affected actor, saves the file, and then      *)
(* either commits every actor and publishes the new maps or rolls every     *)
(* actor back.  It holds config_updates and the registry's mutation gate    *)
(* throughout, so there is at most one; what happens around it is that      *)
(* actors refuse or die, the save fails, the task is lost, or the daemon    *)
(* stops and starts again from the file.                                    *)
(*                                                                         *)
(* An actor is seen only as the Slot module's staging protocol shows it.    *)
(* Actors are visited in the order of their names in the code and in any    *)
(* order here.                                                              *)
(***************************************************************************)
EXTENDS Naturals, FiniteSets

CONSTANTS
    Ports,              \* port identities
    Links,              \* what reopens a port: enabled and the resolved transport
    Profiles,           \* resolved model profiles
    Families,           \* model-family catalogs
    None,
    MaxIdentities,      \* MAX_PORT_IDENTITIES_PER_DAEMON
    MaxRevision         \* bound on config_revision

ASSUME LimitsAssumption == MaxIdentities \in Nat /\ MaxRevision \in Nat

Setting == [link : Links, profile : Profiles]
Layout == UNION {[S -> Setting] : S \in SUBSET Ports}
Config == [rev : Nat, ports : Layout, families : Families]
Pending == [kind : {"add", "replace", "remove", "model"}, settings : Setting,
            reopened : BOOLEAN, resume : BOOLEAN]
Actor == [settings : Setting, paused : BOOLEAN, pending : Pending \cup {None},
          alive : BOOLEAN]
Transaction == [kind : {"ports", "catalog"}, target : Config,
                phase : {"stage", "save", "commit", "rollback"},
                todo : SUBSET Ports, staged : SUBSET Ports, new : SUBSET Ports,
                failed : BOOLEAN]

ASSUME AbsentAssumption ==
    None \notin Pending /\ None \notin Actor /\ None \notin Transaction

VARIABLES
    lifecycle,   \* of the registry's mutation gate
    active,      \* keys of the active map
    retired,     \* keys of the retired map
    act,         \* the actor of each port identity of this daemon epoch
    memory,      \* AppState.config
    disk,        \* the persisted file
    tx,          \* the transaction in progress
    known        \* the configuration some client last read

registry == <<lifecycle, active, retired>>
vars == <<registry, act, memory, disk, tx, known>>

-----------------------------------------------------------------------------
(* The actors *)

Parked(s, p) == [settings |-> s, paused |-> TRUE, alive |-> TRUE, pending |-> p]
Running(s) == [settings |-> s, paused |-> FALSE, alive |-> TRUE, pending |-> None]

\* SlotHandle::spawn for every configured port.
Spawned(layout) ==
    [p \in Ports |-> IF p \in DOMAIN layout THEN Running(layout[p]) ELSE None]

\* stage_reconfiguration, stage_removal or stage_model_profile.
StagedFor(p, t) ==
    LET old == act[p].settings
        kept == p \in DOMAIN t.target.ports
    IN  IF t.kind = "catalog"
        THEN [kind |-> "model", settings |-> [old EXCEPT !.profile = t.target.ports[p].profile],
              reopened |-> FALSE, resume |-> FALSE]
        ELSE IF kept
        THEN [kind |-> "replace", settings |-> t.target.ports[p],
              reopened |-> old.link # t.target.ports[p].link, resume |-> p \in active]
        ELSE [kind |-> "remove", settings |-> old, reopened |-> FALSE, resume |-> FALSE]

\* pause_for_reconfigure
Pauses(change) == change.kind = "remove" \/ change.reopened

\* Mutant of Committed: the staged change itself becomes the settings.
CommittedWhole(a) == [a EXCEPT !.settings = a.pending, !.pending = None]

\* commit_staged_reconfiguration
Committed(a) ==
    [a EXCEPT !.settings = a.pending.settings,
              !.paused = @ /\ ~(a.pending.kind = "add"
                                \/ (a.pending.kind = "replace" /\ a.pending.reopened)),
              !.pending = None]

\* Mutant of RolledBack: a retired actor is resumed like an active one.
RolledBackResuming(a) ==
    [a EXCEPT !.paused = @ /\ ~(a.pending.kind = "remove"
                                \/ (a.pending.kind = "replace" /\ a.pending.reopened)),
              !.pending = None]

\* rollback_staged_reconfiguration
RolledBack(a) ==
    [a EXCEPT !.paused = @ /\ ~(a.pending.kind = "remove"
                                \/ (a.pending.kind = "replace" /\ a.pending.reopened
                                    /\ a.pending.resume)),
              !.pending = None]

\* Actors created for a transaction that does not publish them are shut down, or
\* end because their only handle is dropped.
WithoutNew == [p \in Ports |-> IF p \in tx.new THEN None ELSE act[p]]

-----------------------------------------------------------------------------
(* Transactions *)

\* Mutant of Bumped: the candidate keeps the revision it was made from.
SameRevision(layout) == [memory EXCEPT !.ports = layout]

\* staged_with_ports and its siblings.
Bumped(layout) == [memory EXCEPT !.rev = @ + 1, !.ports = layout]

\* The active actors whose settings change or that go, and the retired actors
\* that return (apply_replacement_with_source); a catalog change stages the
\* active actors whose profile it changes (stage_model_profiles).
Affected(kind, layout) ==
    IF kind = "catalog"
    THEN {p \in active : act[p].settings.profile # layout[p].profile}
    ELSE {p \in active : p \notin DOMAIN layout \/ act[p].settings # layout[p]}
         \cup (retired \cap DOMAIN layout)

\* ensure_expected_revision, the lifecycle check and the identity limit.
Begin(kind, layout, expected) ==
    /\ tx = None
    /\ lifecycle = "running"
    /\ memory.rev < MaxRevision
    /\ expected \in {None, memory.rev}
    /\ kind = "catalog" => /\ DOMAIN layout = DOMAIN memory.ports
                           /\ \A p \in DOMAIN layout : layout[p].link = memory.ports[p].link
    /\ Cardinality(active \cup retired \cup DOMAIN layout) <= MaxIdentities
    /\ tx' = [kind |-> kind, target |-> Bumped(layout), phase |-> "stage",
              todo |-> Affected(kind, layout), staged |-> {}, new |-> {}, failed |-> FALSE]
    /\ UNCHANGED <<registry, act, memory, disk, known>>

InPhase(phase) == tx # None /\ tx.phase = phase

Stage(p) ==
    LET change == StagedFor(p, tx)
    IN  /\ InPhase("stage") /\ p \in tx.todo
        /\ act[p].alive
        /\ act' = [act EXCEPT ![p].pending = change, ![p].paused = @ \/ Pauses(change)]
        /\ tx' = [tx EXCEPT !.todo = @ \ {p}, !.staged = @ \cup {p}]
        /\ UNCHANGED <<registry, memory, disk, known>>

\* The actor is gone, or refuses because a macro, a Run or a Trigger is active;
\* a removal is never refused.
StageFails(p) ==
    /\ InPhase("stage") /\ p \in tx.todo
    /\ act[p].alive => p \in DOMAIN tx.target.ports
    /\ tx' = [tx EXCEPT !.phase = "rollback"]
    /\ UNCHANGED <<registry, act, memory, disk, known>>

\* Every existing actor is staged: ports seen for the first time get parked
\* actors (SlotHandle::spawn_staged) and the candidate maps are complete.
SpawnNew ==
    LET layout == tx.target.ports
        new == DOMAIN layout \ (active \cup retired)
    IN  /\ InPhase("stage") /\ tx.todo = {}
        /\ act' = [p \in Ports |->
                     IF p \in new
                     THEN Parked(layout[p], [kind |-> "add", settings |-> layout[p],
                                             reopened |-> FALSE, resume |-> FALSE])
                     ELSE act[p]]
        /\ tx' = [tx EXCEPT !.phase = "save", !.new = new]
        /\ UNCHANGED <<registry, memory, disk, known>>

SaveSucceeds ==
    /\ InPhase("save")
    /\ disk' = tx.target
    /\ tx' = [tx EXCEPT !.phase = "commit", !.todo = tx.staged \cup tx.new]
    /\ UNCHANGED <<registry, act, memory, known>>

\* atomic_write fails before it replaces the file, or afterwards in
\* sync_parent_directory.
SaveFails(replaced) ==
    /\ InPhase("save")
    /\ disk' = IF replaced THEN tx.target ELSE disk
    /\ act' = WithoutNew
    /\ tx' = [tx EXCEPT !.phase = "rollback", !.new = {}]
    /\ UNCHANGED <<registry, memory, known>>

CommitActor(p) ==
    /\ InPhase("commit") /\ p \in tx.todo
    /\ act[p].alive
    /\ act' = [act EXCEPT ![p] = Committed(act[p])]
    /\ tx' = [tx EXCEPT !.todo = @ \ {p}]
    /\ UNCHANGED <<registry, memory, disk, known>>

\* Mutant of CommitFails: the transaction waits for an actor that is gone.
CommitWaits(p, restored) == FALSE /\ UNCHANGED vars

\* The registry is degraded, and compensate_commit_failure tries to write the
\* old configuration back.
CommitFails(p, restored) ==
    /\ InPhase("commit") /\ p \in tx.todo
    /\ ~act[p].alive
    /\ lifecycle' = "degraded"
    /\ disk' = IF restored THEN memory ELSE disk
    /\ act' = WithoutNew
    /\ tx' = None
    /\ UNCHANGED <<active, retired, memory, known>>

Publish ==
    LET layout == tx.target.ports
    IN  /\ InPhase("commit") /\ tx.todo = {}
        /\ active' = DOMAIN layout
        /\ retired' = (active \cup retired) \ DOMAIN layout
        /\ memory' = tx.target
        /\ tx' = None
        /\ UNCHANGED <<lifecycle, act, disk, known>>

RollBackActor(p) ==
    /\ InPhase("rollback") /\ p \in tx.staged
    /\ act' = IF act[p].alive THEN [act EXCEPT ![p] = RolledBack(act[p])] ELSE act
    /\ tx' = [tx EXCEPT !.staged = @ \ {p}, !.failed = @ \/ ~act[p].alive]
    /\ UNCHANGED <<registry, memory, disk, known>>

FinishRollback ==
    /\ InPhase("rollback") /\ tx.staged = {}
    /\ lifecycle' = IF tx.failed THEN "degraded" ELSE lifecycle
    /\ tx' = None
    /\ UNCHANGED <<active, retired, act, memory, disk, known>>

\* Drop of an unfinished transaction, whose task was lost.
Abandon ==
    /\ tx # None
    /\ lifecycle' = "degraded"
    /\ act' = WithoutNew
    /\ tx' = None
    /\ UNCHANGED <<active, retired, memory, disk, known>>

\* configure_model_families_transaction touches no actor, and so does not ask
\* the registry.
ConfigureFamilies(families, expected, saved) ==
    LET target == [memory EXCEPT !.rev = @ + 1, !.families = families]
    IN  /\ tx = None
        /\ memory.rev < MaxRevision
        /\ expected \in {None, memory.rev}
        /\ disk' = IF saved = "failed" THEN disk ELSE target
        /\ memory' = IF saved = "saved" THEN target ELSE memory
        /\ UNCHANGED <<registry, act, tx, known>>

-----------------------------------------------------------------------------
(* What happens around a transaction *)

ReadConfig ==
    /\ known # memory
    /\ known' = memory
    /\ UNCHANGED <<registry, act, memory, disk, tx>>

ActorDies(p) ==
    /\ act[p] # None /\ act[p].alive
    /\ act' = [act EXCEPT ![p].alive = FALSE]
    /\ UNCHANGED <<registry, memory, disk, tx, known>>

\* AppState::shutdown waits for config_updates.
Shutdown ==
    /\ tx = None
    /\ lifecycle # "shutdown"
    /\ lifecycle' = "shutdown"
    /\ active' = {} /\ retired' = {}
    /\ act' = [p \in Ports |-> None]
    /\ UNCHANGED <<memory, disk, tx, known>>

\* The daemon stops in any state; the next one starts from the file.
Restart ==
    /\ lifecycle' = "running"
    /\ active' = DOMAIN disk.ports /\ retired' = {}
    /\ act' = Spawned(disk.ports)
    /\ memory' = disk
    /\ tx' = None
    /\ UNCHANGED <<disk, known>>

Init ==
    /\ lifecycle = "running"
    /\ memory \in [rev : {1}, ports : Layout, families : Families]
    /\ Cardinality(DOMAIN memory.ports) <= MaxIdentities
    /\ disk = memory
    /\ known = memory
    /\ active = DOMAIN memory.ports /\ retired = {}
    /\ act = Spawned(memory.ports)
    /\ tx = None

TransactionStep ==
    \/ \E p \in Ports : Stage(p) \/ StageFails(p)
    \/ SpawnNew
    \/ SaveSucceeds
    \/ \E replaced \in BOOLEAN : SaveFails(replaced)
    \/ \E p \in Ports : CommitActor(p)
    \/ \E p \in Ports, restored \in BOOLEAN : CommitFails(p, restored)
    \/ Publish
    \/ \E p \in Ports : RollBackActor(p)
    \/ FinishRollback

Next ==
    \/ \E kind \in {"ports", "catalog"}, layout \in Layout,
          expected \in {None, known.rev} : Begin(kind, layout, expected)
    \/ TransactionStep
    \/ Abandon
    \/ \E families \in Families, expected \in {None, known.rev},
          saved \in {"saved", "failed", "replaced"} :
             ConfigureFamilies(families, expected, saved)
    \/ ReadConfig
    \/ \E p \in Ports : ActorDies(p)
    \/ Shutdown
    \/ Restart

Spec == Init /\ [][Next]_vars

\* A transaction runs in a task of its own, and every reply it waits for comes
\* or is dropped with the actor.
FairSpec == Spec /\ WF_vars(TransactionStep)

-----------------------------------------------------------------------------
(* Properties *)

\* The shape of the registry, the configurations and the transaction.
TypeOK ==
    /\ lifecycle \in {"running", "degraded", "shutdown"}
    /\ active \in SUBSET Ports /\ retired \in SUBSET Ports
    /\ act \in [Ports -> Actor \cup {None}]
    /\ memory \in Config /\ disk \in Config /\ known \in Config
    /\ tx \in Transaction \cup {None}

\* Outside a transaction a registry that is not degraded runs exactly the
\* configuration in memory: nothing stays staged, no actor keeps settings of a
\* change that failed half-way, and a removed port is parked.
RuntimeMatchesMemory ==
    (tx = None /\ lifecycle = "running") =>
        /\ active = DOMAIN memory.ports /\ active \cap retired = {}
        /\ \A p \in active : act[p].settings = memory.ports[p] /\ act[p].pending = None
        /\ \A p \in retired : act[p].paused /\ act[p].pending = None

\* config_revision is a sound token for optimistic updates, also across failed
\* saves, compensation and restarts: a client whose expected_revision is
\* accepted has seen the configuration it replaces.
RevisionNamesOneConfig == known.rev = memory.rev => known = memory

\* A transaction ends whatever actors refuse or die, so that the mutation gate
\* never blocks the next change or the shutdown.
TransactionEnds == (tx # None) ~> (tx = None)

\* An active port is not parked once its configuration is published: staged
\* actors are "activated" by the commit.
ActiveNotParked ==
    (tx = None /\ lifecycle = "running") =>
        \A p \in active : act[p].alive => ~act[p].paused

=============================================================================
