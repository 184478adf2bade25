------------------------ MODULE ConfigurationProofs ------------------------
(***************************************************************************)
(* Proofs about configuration changes, for any ports, links, profiles,      *)
(* catalogs and limits.                                                     *)
(***************************************************************************)
EXTENDS Configuration, TLAPS

-----------------------------------------------------------------------------
(* The inductive invariant *)

\* Revisions only grow, from what a client knows to what the file holds, and two of
\* the three that have the same revision are the same.
RevisionsOrdered ==
    /\ known.rev <= memory.rev /\ (known.rev = memory.rev => known = memory)
    /\ memory.rev <= disk.rev /\ (memory.rev = disk.rev => memory = disk)
    /\ tx # None => tx.target.rev = memory.rev + 1
    /\ InPhase("commit") => disk = tx.target

\* While the registry works its maps are those of the configuration in memory.
MapsPublished ==
    /\ tx # None => lifecycle = "running"
    /\ lifecycle = "running" => /\ active = DOMAIN memory.ports
                                /\ active \cap retired = {}
                                /\ \A p \in active \cup retired : act[p] # None

\* An actor as the configuration in memory has it.
Unstaged(p) ==
    /\ p \in active => act[p].settings = memory.ports[p]
    /\ p \in retired => act[p].paused

\* A staged change is the one the target asks for: new settings for a port it has, a
\* parked actor for one it has not.
StagedRight(p) ==
    /\ act[p].pending # None
    /\ IF p \in DOMAIN tx.target.ports
       THEN act[p].pending.settings = tx.target.ports[p]
       ELSE act[p].pending.kind = "remove" /\ act[p].paused

\* Rolling a retired actor back does not resume it.
ParkedOnRollback(p) ==
    p \in retired => act[p].pending.kind = "replace" /\ ~act[p].pending.resume

\* A port no actor is staged for stays as it is under the target.
Unaffected(p) ==
    IF p \in DOMAIN tx.target.ports
    THEN p \in active /\ memory.ports[p] = tx.target.ports[p]
    ELSE p \in retired

\* No transaction: every actor is as the configuration in memory has it, and nothing is staged.
Idle ==
    (tx = None /\ lifecycle = "running") =>
        \A p \in active \cup retired : Unstaged(p) /\ act[p].pending = None

\* Before the save: what is staged is what the target asks for, and every other actor is
\* still as the configuration in memory has it.
Staging ==
    InPhase("stage") \/ InPhase("save") =>
        /\ tx.todo \cup tx.staged \subseteq active \cup retired
        /\ tx.todo \cap tx.staged = {} /\ tx.todo \cap retired \subseteq DOMAIN tx.target.ports
        /\ InPhase("save") => tx.todo = {}
        /\ tx.new = IF InPhase("save") THEN DOMAIN tx.target.ports \ (active \cup retired) ELSE {}
        /\ ~tx.failed
        /\ tx.kind = "catalog" =>
              /\ DOMAIN tx.target.ports = DOMAIN memory.ports
              /\ \A p \in active : memory.ports[p].link = tx.target.ports[p].link
              /\ tx.todo \subseteq active
        /\ \A p \in active \cup retired :
              /\ Unstaged(p)
              /\ IF p \in tx.staged THEN StagedRight(p) /\ ParkedOnRollback(p)
                 ELSE act[p].pending = None
              /\ p \notin tx.todo \cup tx.staged => Unaffected(p)
        /\ \A p \in tx.new : act[p] # None /\ StagedRight(p)

\* During the commit: an actor is either still staged or already as the target has it.
Committing ==
    InPhase("commit") =>
        /\ tx.todo \subseteq active \cup retired \cup DOMAIN tx.target.ports
        /\ \A p \in active \cup retired \cup DOMAIN tx.target.ports :
              /\ act[p] # None
              /\ IF p \in tx.todo THEN StagedRight(p)
                 ELSE /\ act[p].pending = None
                      /\ IF p \in DOMAIN tx.target.ports
                         THEN act[p].settings = tx.target.ports[p]
                         ELSE act[p].paused

\* During a rollback: no actor has left the configuration in memory.
RollingBack ==
    InPhase("rollback") =>
        /\ tx.staged \subseteq active \cup retired
        /\ \A p \in active \cup retired :
              /\ Unstaged(p)
              /\ IF p \in tx.staged THEN ParkedOnRollback(p)
                 ELSE act[p].pending = None \/ tx.failed

\* Everything together.
Invariant ==
    /\ TypeOK /\ RevisionsOrdered /\ MapsPublished
    /\ Idle /\ Staging /\ Committing /\ RollingBack

-----------------------------------------------------------------------------
(* The operators *)

USE LimitsAssumption, AbsentAssumption

\* A layout gives every port it has a setting.
LEMMA LayoutValue ==
    ASSUME NEW layout \in Layout
    PROVE  DOMAIN layout \subseteq Ports /\ \A p \in DOMAIN layout : layout[p] \in Setting
BY DEF Layout

\* A candidate configuration is the next revision, with new ports.
LEMMA BumpedFields ==
    ASSUME TypeOK, NEW layout \in Layout
    PROVE  /\ Bumped(layout) \in Config
           /\ Bumped(layout).rev = memory.rev + 1 /\ Bumped(layout).ports = layout
<1>1. memory \in Config /\ memory.rev + 1 \in Nat
  BY DEF TypeOK, Config
<1>2. PICK m \in Config, rev \in Nat : m = memory /\ rev = memory.rev + 1
  BY <1>1
<1>3. Bumped(layout) = [m EXCEPT !.rev = rev, !.ports = layout]
  BY <1>2 DEF Bumped
<1> QED BY <1>2, <1>3 DEF Config

\* What a commit makes of an actor.
LEMMA CommittedFields ==
    ASSUME NEW a \in Actor, a.pending # None
    PROVE  /\ Committed(a) \in Actor /\ Committed(a) # None
           /\ Committed(a).settings = a.pending.settings /\ Committed(a).pending = None
           /\ a.pending.kind = "remove" /\ a.paused => Committed(a).paused
BY DEF Actor, Pending, Committed

\* What a rollback makes of one: its settings stay, and a retired one stays parked.
LEMMA RolledBackFields ==
    ASSUME NEW a \in Actor
    PROVE  /\ RolledBack(a) \in Actor /\ RolledBack(a) # None
           /\ RolledBack(a).settings = a.settings /\ RolledBack(a).pending = None
           /\ a.pending.kind = "replace" /\ ~a.pending.resume /\ a.paused => RolledBack(a).paused
BY DEF Actor, RolledBack

\* An actor that dies keeps everything else.
LEMMA DeadActor ==
    ASSUME NEW a \in Actor
    PROVE  LET b == [a EXCEPT !.alive = FALSE]
           IN  /\ b \in Actor /\ b # None
               /\ b.settings = a.settings /\ b.pending = a.pending /\ b.paused = a.paused
BY DEF Actor

\* A setting with another profile.
LEMMA ProfileChanged ==
    ASSUME NEW old \in Setting, NEW profile \in Profiles
    PROVE  LET s == [old EXCEPT !.profile = profile]
           IN  s \in Setting /\ s.link = old.link /\ s.profile = profile
BY DEF Setting

\* What is staged for a port: its setting under the target, or its removal.
LEMMA StagedForFields ==
    ASSUME TypeOK, tx # None, NEW p \in Ports, act[p] # None,
           tx.kind = "catalog" => p \in DOMAIN tx.target.ports
    PROVE  /\ StagedFor(p, tx) \in Pending
           /\ IF p \notin DOMAIN tx.target.ports THEN StagedFor(p, tx).kind = "remove"
              ELSE IF tx.kind = "catalog"
              THEN StagedFor(p, tx).settings = [act[p].settings EXCEPT !.profile = tx.target.ports[p].profile]
              ELSE StagedFor(p, tx).settings = tx.target.ports[p]
           /\ p \in DOMAIN tx.target.ports /\ tx.kind # "catalog" =>
                 /\ StagedFor(p, tx).kind = "replace"
                 /\ StagedFor(p, tx).resume = (p \in active)
<1>1. act[p] \in Actor /\ act[p].settings \in Setting /\ tx \in Transaction /\ tx.target.ports \in Layout
  BY DEF TypeOK, Actor, Transaction, Config
<1>2. p \in DOMAIN tx.target.ports => tx.target.ports[p] \in Setting
  BY <1>1, LayoutValue
<1>3. CASE tx.kind = "catalog"
  <2>1. tx.target.ports[p].profile \in Profiles
    BY <1>2, <1>3 DEF Setting
  <2>2. PICK s \in Setting : s = [act[p].settings EXCEPT !.profile = tx.target.ports[p].profile]
    BY <1>1, <2>1, ProfileChanged
  <2>3. StagedFor(p, tx) = [kind |-> "model", settings |-> s, reopened |-> FALSE, resume |-> FALSE]
    BY <1>3, <2>2 DEF StagedFor
  <2> QED BY <1>3, <2>2, <2>3 DEF Pending
<1>4. CASE tx.kind # "catalog" /\ p \in DOMAIN tx.target.ports
  BY <1>1, <1>2, <1>4 DEF StagedFor, Pending
<1>5. CASE tx.kind # "catalog" /\ p \notin DOMAIN tx.target.ports
  BY <1>1, <1>5 DEF StagedFor, Pending
<1> QED BY <1>3, <1>4, <1>5

-----------------------------------------------------------------------------
(* What the steps of a transaction do to it *)

\* A transaction that begins.
LEMMA BeginFields ==
    ASSUME TypeOK, NEW kind \in {"ports", "catalog"}, NEW layout \in Layout, NEW expected,
           Begin(kind, layout, expected), MapsPublished
    PROVE  /\ tx' \in Transaction /\ tx' # None
           /\ tx'.kind = kind /\ tx'.target = Bumped(layout) /\ tx'.phase = "stage"
           /\ tx'.todo = Affected(kind, layout) /\ tx'.staged = {} /\ tx'.new = {} /\ ~tx'.failed
<1>1. Affected(kind, layout) \in SUBSET Ports
  BY DEF Affected, TypeOK
<1>2. Bumped(layout) \in Config
  BY BumpedFields
<1>3. PICK target \in Config, todo \in SUBSET Ports : target = Bumped(layout) /\ todo = Affected(kind, layout)
  BY <1>1, <1>2
<1>4. tx' = [kind |-> kind, target |-> target, phase |-> "stage", todo |-> todo, staged |-> {}, new |-> {},
             failed |-> FALSE]
  BY <1>3 DEF Begin
<1>5. tx' \in Transaction
  BY <1>4 DEF Transaction
<1> QED BY <1>3, <1>4, <1>5

\* One that is staging has one actor fewer to do.
LEMMA StageFields ==
    ASSUME TypeOK, NEW p \in Ports, Stage(p)
    PROVE  /\ tx' \in Transaction /\ tx # None /\ tx' # None
           /\ tx'.kind = tx.kind /\ tx'.target = tx.target /\ tx'.phase = "stage" /\ tx.phase = "stage"
           /\ tx'.todo = tx.todo \ {p} /\ tx'.staged = tx.staged \cup {p}
           /\ tx'.new = tx.new /\ tx'.failed = tx.failed
<1>1. tx # None /\ tx \in Transaction
  BY DEF TypeOK, Stage, InPhase
<1>2. PICK todo \in SUBSET Ports, staged \in SUBSET Ports : todo = tx.todo \ {p} /\ staged = tx.staged \cup {p}
  BY <1>1 DEF Transaction
<1>3. tx' = [tx EXCEPT !.todo = todo, !.staged = staged] /\ tx.phase = "stage"
  BY <1>2 DEF Stage, InPhase
<1> QED BY <1>1, <1>2, <1>3 DEF Transaction

\* One that is saved, or rolled back, or commits one actor more.
LEMMA PhaseFields ==
    ASSUME TypeOK
    PROVE  /\ \A p \in Ports : StageFails(p) =>
                 /\ tx' \in Transaction /\ tx # None /\ tx' # None
                 /\ tx'.target = tx.target /\ tx'.phase = "rollback" /\ tx.phase = "stage"
                 /\ tx'.staged = tx.staged /\ tx'.failed = tx.failed
           /\ SpawnNew =>
                 /\ tx' \in Transaction /\ tx # None /\ tx' # None
                 /\ tx'.kind = tx.kind /\ tx'.target = tx.target /\ tx'.phase = "save" /\ tx.phase = "stage"
                 /\ tx.todo = {} /\ tx'.todo = tx.todo /\ tx'.staged = tx.staged /\ tx'.failed = tx.failed
                 /\ tx'.new = DOMAIN tx.target.ports \ (active \cup retired)
           /\ SaveSucceeds =>
                 /\ tx' \in Transaction /\ tx # None /\ tx' # None
                 /\ tx'.target = tx.target /\ tx'.phase = "commit" /\ tx.phase = "save"
                 /\ tx'.todo = tx.staged \cup tx.new
           /\ \A replaced \in BOOLEAN : SaveFails(replaced) =>
                 /\ tx' \in Transaction /\ tx # None /\ tx' # None
                 /\ tx'.target = tx.target /\ tx'.phase = "rollback" /\ tx.phase = "save"
                 /\ tx'.staged = tx.staged /\ tx'.new = {} /\ tx'.failed = tx.failed
           /\ \A p \in Ports : CommitActor(p) =>
                 /\ tx' \in Transaction /\ tx # None /\ tx' # None
                 /\ tx'.target = tx.target /\ tx'.phase = "commit" /\ tx.phase = "commit"
                 /\ tx'.todo = tx.todo \ {p}
           /\ \A p \in Ports : RollBackActor(p) =>
                 /\ tx' \in Transaction /\ tx # None /\ tx' # None
                 /\ tx'.target = tx.target /\ tx'.phase = "rollback" /\ tx.phase = "rollback"
                 /\ tx'.staged = tx.staged \ {p} /\ tx'.failed = (tx.failed \/ ~act[p].alive)
<1>0. tx # None => tx \in Transaction
  BY DEF TypeOK
<1>1. \A p \in Ports : StageFails(p) =>
                 /\ tx' \in Transaction /\ tx # None /\ tx' # None
                 /\ tx'.target = tx.target /\ tx'.phase = "rollback" /\ tx.phase = "stage"
                 /\ tx'.staged = tx.staged /\ tx'.failed = tx.failed
  BY <1>0 DEF StageFails, InPhase, Transaction
<1>2. ASSUME SpawnNew
      PROVE  /\ tx' \in Transaction /\ tx # None /\ tx' # None
             /\ tx'.kind = tx.kind /\ tx'.target = tx.target /\ tx'.phase = "save" /\ tx.phase = "stage"
             /\ tx.todo = {} /\ tx'.todo = tx.todo /\ tx'.staged = tx.staged /\ tx'.failed = tx.failed
             /\ tx'.new = DOMAIN tx.target.ports \ (active \cup retired)
  <2>1. tx # None /\ tx \in Transaction /\ tx.target.ports \in Layout
    BY <1>0, <1>2 DEF SpawnNew, InPhase, Transaction, Config
  <2>2. PICK new \in SUBSET Ports : new = DOMAIN tx.target.ports \ (active \cup retired)
    BY <2>1, LayoutValue
  <2>3. tx' = [tx EXCEPT !.phase = "save", !.new = new] /\ tx.phase = "stage" /\ tx.todo = {}
    BY <1>2, <2>2 DEF SpawnNew, InPhase
  <2> QED BY <2>1, <2>2, <2>3 DEF Transaction
<1>3. ASSUME SaveSucceeds
      PROVE  /\ tx' \in Transaction /\ tx # None /\ tx' # None
             /\ tx'.target = tx.target /\ tx'.phase = "commit" /\ tx.phase = "save"
             /\ tx'.todo = tx.staged \cup tx.new
  <2>1. tx # None /\ tx \in Transaction
    BY <1>0, <1>3 DEF SaveSucceeds, InPhase
  <2>2. PICK todo \in SUBSET Ports : todo = tx.staged \cup tx.new
    BY <2>1 DEF Transaction
  <2>3. tx' = [tx EXCEPT !.phase = "commit", !.todo = todo] /\ tx.phase = "save"
    BY <1>3, <2>2 DEF SaveSucceeds, InPhase
  <2> QED BY <2>1, <2>2, <2>3 DEF Transaction
<1>4. \A replaced \in BOOLEAN : SaveFails(replaced) =>
                 /\ tx' \in Transaction /\ tx # None /\ tx' # None
                 /\ tx'.target = tx.target /\ tx'.phase = "rollback" /\ tx.phase = "save"
                 /\ tx'.staged = tx.staged /\ tx'.new = {} /\ tx'.failed = tx.failed
  BY <1>0 DEF SaveFails, InPhase, Transaction
<1>5. \A p \in Ports : CommitActor(p) =>
                 /\ tx' \in Transaction /\ tx # None /\ tx' # None
                 /\ tx'.target = tx.target /\ tx'.phase = "commit" /\ tx.phase = "commit"
                 /\ tx'.todo = tx.todo \ {p}
  BY <1>0 DEF CommitActor, InPhase, Transaction
<1>6. ASSUME NEW p \in Ports, RollBackActor(p)
      PROVE  /\ tx' \in Transaction /\ tx # None /\ tx' # None
             /\ tx'.target = tx.target /\ tx'.phase = "rollback" /\ tx.phase = "rollback"
             /\ tx'.staged = tx.staged \ {p} /\ tx'.failed = (tx.failed \/ ~act[p].alive)
  <2>1. tx # None /\ tx \in Transaction
    BY <1>0, <1>6 DEF RollBackActor, InPhase
  <2>2. PICK staged \in SUBSET Ports, failed \in BOOLEAN :
           staged = tx.staged \ {p} /\ failed = (tx.failed \/ ~act[p].alive)
    BY <2>1 DEF Transaction
  <2>3. tx' = [tx EXCEPT !.staged = staged, !.failed = failed] /\ tx.phase = "rollback"
    BY <1>6, <2>2 DEF RollBackActor, InPhase
  <2> QED BY <2>1, <2>2, <2>3 DEF Transaction
<1> QED BY <1>1, <1>2, <1>3, <1>4, <1>5, <1>6

-----------------------------------------------------------------------------
(* What the steps do to the actors *)

\* Staging touches one actor of the maps.
LEMMA StageActors ==
    ASSUME TypeOK, MapsPublished, Staging, NEW p \in Ports, Stage(p)
    PROVE  /\ p \in active \cup retired /\ p \in tx.todo
           /\ act[p] # None /\ StagedFor(p, tx) \in Pending
           /\ tx.kind = "catalog" => p \in DOMAIN tx.target.ports
           /\ act' \in [Ports -> Actor \cup {None}]
           /\ \A q \in Ports \ {p} : act'[q] = act[q]
           /\ act'[p] # None /\ act'[p].settings = act[p].settings
           /\ act'[p].pending = StagedFor(p, tx)
           /\ act'[p].paused = (act[p].paused \/ Pauses(StagedFor(p, tx)))
<1>1. tx # None /\ p \in tx.todo /\ lifecycle = "running" /\ tx.phase = "stage"
  BY DEF Stage, InPhase, MapsPublished
<1>2. p \in active \cup retired /\ act[p] # None
  BY <1>1 DEF Staging, InPhase, MapsPublished
<1>3. act[p] \in Actor
  BY <1>2 DEF TypeOK
<1>4. tx.kind = "catalog" => p \in DOMAIN tx.target.ports
  BY <1>1 DEF Staging, InPhase, MapsPublished
<1>5. PICK change \in Pending : change = StagedFor(p, tx)
  BY <1>1, <1>2, <1>4, StagedForFields
<1>6. PICK a \in Actor : a = act[p]
  BY <1>3
<1>7. PICK b : b = [a EXCEPT !.pending = change, !.paused = @ \/ Pauses(change)]
  OBVIOUS
<1>8. /\ b \in Actor /\ b # None /\ b.settings = act[p].settings /\ b.pending = change
      /\ b.paused = (act[p].paused \/ Pauses(change))
  BY <1>6, <1>7 DEF Actor
<1>9. act' = [act EXCEPT ![p] = b]
  BY <1>5, <1>6, <1>7 DEF Stage
<1> QED BY <1>1, <1>2, <1>4, <1>5, <1>8, <1>9 DEF TypeOK

\* The actors of new ports are parked with the settings they are to have.
LEMMA SpawnActors ==
    ASSUME TypeOK, SpawnNew
    PROVE  /\ act' \in [Ports -> Actor \cup {None}]
           /\ \A p \in active \cup retired : act'[p] = act[p]
           /\ \A p \in DOMAIN tx.target.ports \ (active \cup retired) :
                 /\ act'[p] # None /\ act'[p].pending # None
                 /\ act'[p].pending.settings = tx.target.ports[p]
<1>1. tx # None /\ tx \in Transaction /\ tx.target.ports \in Layout
  BY DEF TypeOK, SpawnNew, InPhase, Transaction, Config
<1>2. ASSUME NEW p \in DOMAIN tx.target.ports
      PROVE  LET s == tx.target.ports[p]
                 b == Parked(s, [kind |-> "add", settings |-> s, reopened |-> FALSE, resume |-> FALSE])
             IN  /\ p \in Ports /\ b \in Actor /\ b # None
                 /\ b.pending # None /\ b.pending.settings = s
  <2>1. PICK s \in Setting : s = tx.target.ports[p]
    BY <1>1, LayoutValue
  <2>2. PICK change : change = [kind |-> "add", settings |-> s, reopened |-> FALSE, resume |-> FALSE]
    OBVIOUS
  <2>5. change \in Pending /\ change # None /\ change.settings = s
    <3>1. change \in Pending
      BY <2>2 DEF Pending
    <3> QED BY <2>2, <3>1
  <2>3. Parked(s, change) \in Actor /\ Parked(s, change).pending = change
    BY <2>5 DEF Parked, Actor
  <2>4. p \in Ports
    BY <1>1, LayoutValue
  <2> QED BY <2>1, <2>2, <2>3, <2>4, <2>5
<1> DEFINE parked(p) == Parked(tx.target.ports[p], [kind |-> "add", settings |-> tx.target.ports[p],
                                                    reopened |-> FALSE, resume |-> FALSE])
           new == DOMAIN tx.target.ports \ (active \cup retired)
<1>3. \A p \in new : /\ p \in Ports /\ parked(p) \in Actor /\ parked(p) # None
                     /\ parked(p).pending # None /\ parked(p).pending.settings = tx.target.ports[p]
  BY <1>2
<1>4. act' = [p \in Ports |-> IF p \in new THEN parked(p) ELSE act[p]]
  BY DEF SpawnNew
<1>5. new \cap (active \cup retired) = {} /\ act \in [Ports -> Actor \cup {None}]
      /\ active \cup retired \subseteq Ports
  BY DEF TypeOK
<1> HIDE DEF parked, new
<1>6. /\ act' \in [Ports -> Actor \cup {None}]
      /\ \A p \in active \cup retired : act'[p] = act[p]
      /\ \A p \in new : act'[p] # None /\ act'[p].pending # None
                        /\ act'[p].pending.settings = tx.target.ports[p]
  BY <1>3, <1>4, <1>5
<1> QED BY <1>6 DEF new

\* A commit changes one actor to what was staged.
LEMMA CommitActors ==
    ASSUME TypeOK, Committing, NEW p \in Ports, CommitActor(p)
    PROVE  /\ act' \in [Ports -> Actor \cup {None}]
           /\ \A q \in Ports \ {p} : act'[q] = act[q]
           /\ p \in tx.todo /\ StagedRight(p)
           /\ act'[p] # None /\ act'[p].pending = None
           /\ act'[p].settings = act[p].pending.settings
           /\ act[p].pending.kind = "remove" /\ act[p].paused => act'[p].paused
<1>1. tx # None /\ tx.phase = "commit" /\ p \in tx.todo
  BY DEF CommitActor, InPhase
<1>2. act[p] # None /\ StagedRight(p)
  BY <1>1 DEF Committing, InPhase
<1>3. act[p] \in Actor /\ act[p].pending # None
  BY <1>2 DEF TypeOK, StagedRight
<1>4. PICK b : b = Committed(act[p])
  OBVIOUS
<1>5. /\ b \in Actor /\ b # None /\ b.settings = act[p].pending.settings /\ b.pending = None
      /\ act[p].pending.kind = "remove" /\ act[p].paused => b.paused
  BY <1>3, <1>4, CommittedFields
<1>6. act' = [act EXCEPT ![p] = b]
  BY <1>4 DEF CommitActor
<1> QED BY <1>1, <1>2, <1>5, <1>6 DEF TypeOK

\* A rollback changes one actor back, unless it is gone.
LEMMA RollBackActors ==
    ASSUME TypeOK, MapsPublished, RollingBack, NEW p \in Ports, RollBackActor(p)
    PROVE  /\ act' \in [Ports -> Actor \cup {None}]
           /\ \A q \in Ports \ {p} : act'[q] = act[q]
           /\ p \in tx.staged /\ p \in active \cup retired
           /\ act'[p] # None /\ act'[p].settings = act[p].settings
           /\ p \in retired => act'[p].paused
           /\ act'[p].pending = None \/ ~act[p].alive
<1>1. tx # None /\ tx.phase = "rollback" /\ p \in tx.staged /\ lifecycle = "running"
  BY DEF RollBackActor, InPhase, MapsPublished
<1>2. p \in active \cup retired /\ act[p] # None
  BY <1>1 DEF RollingBack, InPhase, MapsPublished
<1>3. act[p] \in Actor
  BY <1>2 DEF TypeOK
<1>4. p \in retired => act[p].paused /\ act[p].pending.kind = "replace" /\ ~act[p].pending.resume
  BY <1>1, <1>2 DEF RollingBack, InPhase, Unstaged, ParkedOnRollback
<1>5. CASE ~act[p].alive
  BY <1>1, <1>2, <1>4, <1>5 DEF RollBackActor, TypeOK
<1>6. CASE act[p].alive
  <2>1. PICK b : b = RolledBack(act[p])
    OBVIOUS
  <2>2. /\ b \in Actor /\ b # None /\ b.settings = act[p].settings /\ b.pending = None
        /\ p \in retired => b.paused
    BY <1>3, <1>4, <2>1, RolledBackFields
  <2>3. act' = [act EXCEPT ![p] = b]
    BY <1>6, <2>1 DEF RollBackActor
  <2> QED BY <1>1, <1>2, <2>2, <2>3 DEF TypeOK
<1> QED BY <1>5, <1>6

\* An actor that dies is otherwise unchanged.
LEMMA DiesActors ==
    ASSUME TypeOK, NEW p \in Ports, ActorDies(p)
    PROVE  /\ act' \in [Ports -> Actor \cup {None}]
           /\ \A q \in Ports :
                 /\ (act'[q] = None) = (act[q] = None)
                 /\ act[q] # None => /\ act'[q].settings = act[q].settings
                                     /\ act'[q].pending = act[q].pending
                                     /\ act'[q].paused = act[q].paused
<1>1. act[p] # None /\ act[p] \in Actor
  BY DEF ActorDies, TypeOK
<1>2. PICK b : b = [act[p] EXCEPT !.alive = FALSE]
  OBVIOUS
<1>3. /\ b \in Actor /\ b # None
      /\ b.settings = act[p].settings /\ b.pending = act[p].pending /\ b.paused = act[p].paused
  BY <1>1, <1>2, DeadActor
<1>4. act' = [act EXCEPT ![p] = b]
  BY <1>2 DEF ActorDies
<1> QED BY <1>1, <1>3, <1>4 DEF TypeOK

\* The actors a daemon starts with run their settings, and nothing is staged.
LEMMA SpawnedActors ==
    ASSUME NEW layout \in Layout
    PROVE  /\ Spawned(layout) \in [Ports -> Actor \cup {None}]
           /\ \A p \in DOMAIN layout :
                 /\ Spawned(layout)[p] # None /\ Spawned(layout)[p].settings = layout[p]
                 /\ Spawned(layout)[p].pending = None
<1>1. \A s \in Setting : /\ Running(s) \in Actor /\ Running(s) # None
                         /\ Running(s).settings = s /\ Running(s).pending = None
  <2>1. SUFFICES ASSUME NEW s \in Setting
                 PROVE  /\ Running(s) \in Actor /\ Running(s) # None
                        /\ Running(s).settings = s /\ Running(s).pending = None
    OBVIOUS
  <2>2. Running(s) \in Actor
    BY DEF Running, Actor
  <2>3. Running(s) # None
    BY <2>2
  <2> QED BY <2>2, <2>3 DEF Running
<1> QED BY <1>1, LayoutValue DEF Spawned

\* Actors that are not published are gone, the others are not touched.
LEMMA WithoutNewActors ==
    ASSUME TypeOK
    PROVE  /\ WithoutNew \in [Ports -> Actor \cup {None}]
           /\ \A p \in Ports \ tx.new : WithoutNew[p] = act[p]
BY DEF TypeOK, WithoutNew

-----------------------------------------------------------------------------
(* Each part of the invariant is kept *)

\* The types are kept.
LEMMA StepType ==
    ASSUME Invariant, [Next]_vars
    PROVE  TypeOK'
<1> USE DEF Invariant
<1>0. TypeOK
  OBVIOUS
<1>1. CASE \E kind \in {"ports", "catalog"}, layout \in Layout, expected \in {None, known.rev} :
             Begin(kind, layout, expected)
  BY <1>0, <1>1, BeginFields DEF Begin, TypeOK, registry
<1>2. CASE TransactionStep
  <2>1. CASE \E p \in Ports : Stage(p)
    BY <1>0, <2>1, StageFields, StageActors DEF Stage, TypeOK, registry
  <2>2. CASE \E p \in Ports : StageFails(p)
    BY <1>0, <2>2, PhaseFields DEF StageFails, TypeOK, registry
  <2>3. CASE SpawnNew
    BY <1>0, <2>3, PhaseFields, SpawnActors DEF SpawnNew, TypeOK, registry
  <2>4. CASE SaveSucceeds
    BY <1>0, <2>4, PhaseFields DEF SaveSucceeds, TypeOK, registry, Transaction
  <2>5. CASE \E replaced \in BOOLEAN : SaveFails(replaced)
    <3>1. PICK replaced \in BOOLEAN : SaveFails(replaced)
      BY <2>5
    <3>2. tx' \in Transaction /\ tx \in Transaction
      BY <1>0, <3>1, PhaseFields DEF TypeOK
    <3>3. disk' \in Config
      BY <3>1, <3>2 DEF SaveFails, TypeOK, Transaction
    <3> QED BY <1>0, <3>1, <3>2, <3>3, WithoutNewActors DEF SaveFails, TypeOK, registry
  <2>6. CASE \E p \in Ports : CommitActor(p)
    BY <1>0, <2>6, PhaseFields, CommitActors DEF CommitActor, TypeOK, registry
  <2>7. CASE \E p \in Ports, restored \in BOOLEAN : CommitFails(p, restored)
    BY <1>0, <2>7, WithoutNewActors DEF CommitFails, TypeOK
  <2>8. CASE Publish
    <3>1. tx \in Transaction /\ tx.target \in Config /\ tx.target.ports \in Layout
      BY <2>8 DEF Publish, InPhase, TypeOK, Transaction, Config
    <3> QED BY <2>8, <3>1, LayoutValue DEF Publish, TypeOK
  <2>9. CASE \E p \in Ports : RollBackActor(p)
    BY <1>0, <2>9, PhaseFields, RollBackActors DEF RollBackActor, TypeOK, registry
  <2>10. CASE FinishRollback
    BY <2>10 DEF FinishRollback, TypeOK
  <2> QED BY <1>2, <2>1, <2>2, <2>3, <2>4, <2>5, <2>6, <2>7, <2>8, <2>9, <2>10 DEF TransactionStep
<1>3. CASE Abandon
  BY <1>0, <1>3, WithoutNewActors DEF Abandon, TypeOK
<1>4. CASE \E families \in Families, expected \in {None, known.rev}, saved \in {"saved", "failed", "replaced"} :
             ConfigureFamilies(families, expected, saved)
  <2>1. PICK families \in Families, expected \in {None, known.rev}, saved \in {"saved", "failed", "replaced"} :
             ConfigureFamilies(families, expected, saved)
    BY <1>4
  <2>2. PICK m \in Config, rev \in Nat : m = memory /\ rev = memory.rev + 1
    BY DEF TypeOK, Config
  <2>3. [m EXCEPT !.rev = rev, !.families = families] \in Config
    BY DEF Config
  <2> QED BY <2>1, <2>2, <2>3 DEF ConfigureFamilies, TypeOK, registry
<1>5. CASE \E p \in Ports : ActorDies(p)
  BY <1>0, <1>5, DiesActors DEF ActorDies, TypeOK, registry
<1>6. CASE Restart
  <2>1. disk.ports \in Layout
    BY DEF TypeOK, Config
  <2> QED BY <1>6, <2>1, SpawnedActors, LayoutValue DEF Restart, TypeOK
<1>7. CASE ReadConfig \/ Shutdown \/ UNCHANGED vars
  BY <1>7 DEF ReadConfig, Shutdown, TypeOK, registry, vars
<1> QED BY <1>1, <1>2, <1>3, <1>4, <1>5, <1>6, <1>7 DEF Next

\* Revisions stay in order, and name one configuration.
LEMMA StepRevisions ==
    ASSUME TypeOK, RevisionsOrdered, MapsPublished, [Next]_vars
    PROVE  RevisionsOrdered'
<1>0. /\ memory \in Config /\ disk \in Config /\ known \in Config
      /\ memory.rev \in Nat /\ disk.rev \in Nat /\ known.rev \in Nat
  BY DEF TypeOK, Config
<1>1. CASE \E kind \in {"ports", "catalog"}, layout \in Layout, expected \in {None, known.rev} :
             Begin(kind, layout, expected)
  BY <1>1, BeginFields, BumpedFields DEF Begin, RevisionsOrdered, InPhase
<1>2. CASE TransactionStep
  <2>1. CASE \E p \in Ports : Stage(p) \/ StageFails(p) \/ CommitActor(p) \/ RollBackActor(p)
    BY <2>1, StageFields, PhaseFields DEF Stage, StageFails, CommitActor, RollBackActor, RevisionsOrdered, InPhase
  <2>2. CASE SpawnNew
    BY <2>2, PhaseFields DEF SpawnNew, RevisionsOrdered, InPhase
  <2>3. CASE SaveSucceeds \/ \E replaced \in BOOLEAN : SaveFails(replaced)
    <3>1. /\ tx # None /\ tx' # None /\ tx'.target = tx.target
          /\ UNCHANGED <<memory, known>>
          /\ disk' \in {tx.target, disk}
          /\ tx'.phase = "commit" => disk' = tx.target
      BY <2>3, PhaseFields DEF SaveSucceeds, SaveFails
    <3> QED BY <1>0, <3>1 DEF RevisionsOrdered, InPhase
  <2>4. CASE \E p \in Ports, restored \in BOOLEAN : CommitFails(p, restored)
    BY <1>0, <2>4 DEF CommitFails, RevisionsOrdered, InPhase
  <2>5. CASE Publish
    BY <1>0, <2>5 DEF Publish, RevisionsOrdered, InPhase
  <2>6. CASE FinishRollback
    BY <2>6 DEF FinishRollback, RevisionsOrdered, InPhase
  <2> QED BY <1>2, <2>1, <2>2, <2>3, <2>4, <2>5, <2>6 DEF TransactionStep
<1>3. CASE Abandon \/ Shutdown
  BY <1>3 DEF Abandon, Shutdown, RevisionsOrdered, InPhase
<1>4. CASE \E families \in Families, expected \in {None, known.rev}, saved \in {"saved", "failed", "replaced"} :
             ConfigureFamilies(families, expected, saved)
  <2>1. PICK families \in Families, expected \in {None, known.rev}, saved \in {"saved", "failed", "replaced"} :
             ConfigureFamilies(families, expected, saved)
    BY <1>4
  <2>2. PICK m \in Config, rev \in Nat : m = memory /\ rev = memory.rev + 1
    BY <1>0
  <2>3. PICK target : target = [m EXCEPT !.rev = rev, !.families = families]
    OBVIOUS
  <2>5. target.rev = memory.rev + 1
    BY <2>2, <2>3 DEF Config
  <2>4. /\ tx = None /\ tx' = None /\ known' = known
        /\ disk' = (IF saved = "failed" THEN disk ELSE target)
        /\ memory' = (IF saved = "saved" THEN target ELSE memory)
    BY <2>1, <2>2, <2>3 DEF ConfigureFamilies
  <2> QED BY <1>0, <2>1, <2>4, <2>5 DEF RevisionsOrdered, InPhase
<1>5. CASE ReadConfig
  BY <1>0, <1>5 DEF ReadConfig, RevisionsOrdered, InPhase
<1>6. CASE Restart
  BY <1>0, <1>6 DEF Restart, RevisionsOrdered, InPhase
<1>7. CASE UNCHANGED vars \/ \E p \in Ports : ActorDies(p)
  BY <1>7 DEF ActorDies, RevisionsOrdered, InPhase, vars
<1> QED BY <1>1, <1>2, <1>3, <1>4, <1>5, <1>6, <1>7 DEF Next

\* The steps that are not of a transaction, and those that only move it on.
Outside ==
    \/ Abandon \/ Shutdown \/ Restart
    \/ \E families \in Families, expected \in {None, known.rev}, saved \in {"saved", "failed", "replaced"} :
          ConfigureFamilies(families, expected, saved)
    \/ FinishRollback \/ Publish
    \/ \E p \in Ports, restored \in BOOLEAN : CommitFails(p, restored)

\* After them no transaction is in progress.
LEMMA OutsideEnds ==
    ASSUME Outside
    PROVE  tx' = None
BY DEF Outside, Abandon, Shutdown, Restart, ConfigureFamilies, FinishRollback, Publish, CommitFails

\* The maps are those of the configuration in memory.
LEMMA StepMaps ==
    ASSUME Invariant, [Next]_vars
    PROVE  MapsPublished'
<1> USE DEF Invariant
<1>0. TypeOK /\ active \cup retired \subseteq Ports
  BY DEF TypeOK
<1>1. CASE \E kind \in {"ports", "catalog"}, layout \in Layout, expected \in {None, known.rev} :
             Begin(kind, layout, expected)
  BY <1>1 DEF Begin, MapsPublished, registry
<1>2. CASE \E p \in Ports : Stage(p)
  <2>1. PICK p \in Ports : Stage(p)
    BY <1>2
  <2>2. /\ \A q \in Ports \ {p} : act'[q] = act[q]
        /\ act'[p] # None
    BY <1>0, <2>1, StageActors
  <2>3. UNCHANGED <<lifecycle, active, retired, memory>> /\ tx # None
    BY <2>1 DEF Stage, InPhase, registry
  <2> QED BY <1>0, <2>2, <2>3 DEF MapsPublished
<1>3. CASE \E p \in Ports : StageFails(p)
  BY <1>3 DEF StageFails, InPhase, registry, MapsPublished
<1>4. CASE SpawnNew
  <2>1. \A p \in active \cup retired : act'[p] = act[p]
    BY <1>0, <1>4, SpawnActors
  <2>2. UNCHANGED <<lifecycle, active, retired, memory>> /\ tx # None
    BY <1>4 DEF SpawnNew, InPhase, registry
  <2> QED BY <2>1, <2>2 DEF MapsPublished
<1>5. CASE SaveSucceeds
  BY <1>5 DEF SaveSucceeds, InPhase, registry, MapsPublished
<1>6. CASE \E replaced \in BOOLEAN : SaveFails(replaced)
  <2>1. InPhase("save") /\ act' = WithoutNew /\ UNCHANGED <<lifecycle, active, retired, memory>> /\ tx # None
    BY <1>6 DEF SaveFails, InPhase, registry
  <2>2. tx.new \cap (active \cup retired) = {}
    BY <2>1 DEF Staging
  <2>3. \A p \in active \cup retired : act'[p] = act[p]
    BY <1>0, <2>1, <2>2, WithoutNewActors
  <2> QED BY <2>1, <2>3 DEF MapsPublished
<1>7. CASE \E p \in Ports : CommitActor(p)
  <2>1. PICK p \in Ports : CommitActor(p)
    BY <1>7
  <2>2. /\ \A q \in Ports \ {p} : act'[q] = act[q]
        /\ act'[p] # None
    BY <1>0, <2>1, CommitActors
  <2>3. UNCHANGED <<lifecycle, active, retired, memory>> /\ tx # None
    BY <2>1 DEF CommitActor, InPhase, registry
  <2> QED BY <1>0, <2>2, <2>3 DEF MapsPublished
<1>8. CASE \E p \in Ports : RollBackActor(p)
  <2>1. PICK p \in Ports : RollBackActor(p)
    BY <1>8
  <2>2. /\ \A q \in Ports \ {p} : act'[q] = act[q]
        /\ act'[p] # None
    BY <1>0, <2>1, RollBackActors
  <2>3. UNCHANGED <<lifecycle, active, retired, memory>> /\ tx # None
    BY <2>1 DEF RollBackActor, InPhase, registry
  <2> QED BY <1>0, <2>2, <2>3 DEF MapsPublished
<1>9. CASE Abandon \/ Shutdown \/ \E p \in Ports, restored \in BOOLEAN : CommitFails(p, restored)
  BY <1>9 DEF Abandon, Shutdown, CommitFails, MapsPublished
<1>10. CASE FinishRollback
  BY <1>10 DEF FinishRollback, MapsPublished
<1>11. CASE Publish
  <2>1. /\ InPhase("commit") /\ tx.todo = {} /\ UNCHANGED <<lifecycle, act>> /\ tx' = None
        /\ memory' = tx.target
        /\ active' = DOMAIN tx.target.ports
        /\ retired' = (active \cup retired) \ DOMAIN tx.target.ports
    BY <1>11 DEF Publish
  <2>2. \A p \in active \cup retired \cup DOMAIN tx.target.ports : act[p] # None
    BY <2>1 DEF Committing
  <2> QED BY <2>1, <2>2 DEF MapsPublished
<1>12. CASE Restart
  <2>1. disk.ports \in Layout
    BY DEF TypeOK, Config
  <2> QED BY <1>12, <2>1, SpawnedActors DEF Restart, MapsPublished
<1>13. CASE \E families \in Families, expected \in {None, known.rev}, saved \in {"saved", "failed", "replaced"} :
             ConfigureFamilies(families, expected, saved)
  <2>1. memory'.ports = memory.ports
    BY <1>13 DEF ConfigureFamilies, TypeOK, Config
  <2> QED BY <1>13, <2>1 DEF ConfigureFamilies, registry, MapsPublished
<1>14. CASE \E p \in Ports : ActorDies(p)
  BY <1>0, <1>14, DiesActors DEF ActorDies, registry, MapsPublished
<1>15. CASE ReadConfig \/ UNCHANGED vars
  BY <1>15 DEF ReadConfig, registry, vars, MapsPublished
<1> QED BY <1>1, <1>2, <1>3, <1>4, <1>5, <1>6, <1>7, <1>8, <1>9, <1>10, <1>11, <1>12, <1>13, <1>14, <1>15
        DEF Next, TransactionStep

\* Without a transaction the actors are those of the configuration in memory.
LEMMA StepIdle ==
    ASSUME Invariant, [Next]_vars
    PROVE  Idle'
<1> USE DEF Invariant
<1>0. TypeOK /\ active \cup retired \subseteq Ports
  BY DEF TypeOK
<1>1. CASE \E kind \in {"ports", "catalog"}, layout \in Layout, expected \in {None, known.rev} :
             Begin(kind, layout, expected)
  BY <1>0, <1>1, BeginFields DEF Idle
<1>2. CASE \/ \E p \in Ports : Stage(p) \/ StageFails(p) \/ CommitActor(p) \/ RollBackActor(p)
           \/ SpawnNew \/ SaveSucceeds \/ \E replaced \in BOOLEAN : SaveFails(replaced)
  BY <1>0, <1>2, StageFields, PhaseFields DEF Idle
<1>3. CASE Abandon \/ Shutdown \/ \E p \in Ports, restored \in BOOLEAN : CommitFails(p, restored)
  BY <1>3 DEF Abandon, Shutdown, CommitFails, Idle
<1>4. CASE FinishRollback
  <2>1. /\ InPhase("rollback") /\ tx.staged = {}
        /\ tx.failed => lifecycle' = "degraded"
        /\ UNCHANGED <<active, retired, act, memory>>
    BY <1>4 DEF FinishRollback
  <2>2. lifecycle' = "running" => \A p \in active \cup retired : Unstaged(p) /\ act[p].pending = None
    BY <2>1 DEF RollingBack
  <2> QED BY <2>1, <2>2 DEF Idle, Unstaged
<1>5. CASE Publish
  <2>1. /\ InPhase("commit") /\ tx.todo = {} /\ UNCHANGED <<lifecycle, act>> /\ tx' = None
        /\ memory' = tx.target
        /\ active' = DOMAIN tx.target.ports
        /\ retired' = (active \cup retired) \ DOMAIN tx.target.ports
    BY <1>5 DEF Publish
  <2>2. \A p \in active \cup retired \cup DOMAIN tx.target.ports :
           /\ act[p].pending = None
           /\ IF p \in DOMAIN tx.target.ports THEN act[p].settings = tx.target.ports[p] ELSE act[p].paused
    BY <2>1 DEF Committing
  <2> QED BY <2>1, <2>2 DEF Idle, Unstaged
<1>6. CASE Restart
  <2>1. disk.ports \in Layout
    BY DEF TypeOK, Config
  <2> QED BY <1>6, <2>1, SpawnedActors DEF Restart, Idle, Unstaged
<1>7. CASE \E families \in Families, expected \in {None, known.rev}, saved \in {"saved", "failed", "replaced"} :
             ConfigureFamilies(families, expected, saved)
  <2>1. memory'.ports = memory.ports
    BY <1>7 DEF ConfigureFamilies, TypeOK, Config
  <2> QED BY <1>7, <2>1 DEF ConfigureFamilies, registry, Idle, Unstaged
<1>8. CASE \E p \in Ports : ActorDies(p)
  <2>1. PICK p \in Ports : ActorDies(p)
    BY <1>8
  <2>2. UNCHANGED <<lifecycle, active, retired, memory, tx>>
    BY <2>1 DEF ActorDies, registry
  <2>3. lifecycle = "running" => \A q \in active \cup retired : act[q] # None
    BY DEF MapsPublished
  <2> QED BY <1>0, <2>1, <2>2, <2>3, DiesActors DEF Idle, Unstaged
<1>9. CASE ReadConfig \/ UNCHANGED vars
  BY <1>9 DEF ReadConfig, registry, vars, Idle, Unstaged
<1> QED BY <1>1, <1>2, <1>3, <1>4, <1>5, <1>6, <1>7, <1>8, <1>9 DEF Next, TransactionStep

\* A transaction that begins has everything still to stage.
LEMMA BeginStaging ==
    ASSUME Invariant, NEW kind \in {"ports", "catalog"}, NEW layout \in Layout, NEW expected,
           Begin(kind, layout, expected)
    PROVE  Staging'
<1> USE DEF Invariant
<1>0. /\ TypeOK /\ MapsPublished /\ tx = None /\ lifecycle = "running"
      /\ UNCHANGED <<active, retired, act, memory>>
  BY DEF Begin, registry
<1>1. /\ tx' # None /\ tx'.kind = kind /\ tx'.target.ports = layout /\ tx'.phase = "stage"
      /\ tx'.todo = Affected(kind, layout) /\ tx'.staged = {} /\ tx'.new = {} /\ ~tx'.failed
  BY <1>0, BeginFields, BumpedFields
<1>2. kind = "catalog" => /\ DOMAIN layout = DOMAIN memory.ports
                          /\ \A p \in DOMAIN layout : layout[p].link = memory.ports[p].link
  BY DEF Begin
<1>3. active = DOMAIN memory.ports /\ active \cap retired = {}
  BY <1>0 DEF MapsPublished
<1>4. \A p \in active \cup retired : Unstaged(p) /\ act[p].pending = None
  BY <1>0 DEF Idle
<1>5. ASSUME NEW p \in active \cup retired, p \notin Affected(kind, layout)
      PROVE  IF p \in DOMAIN layout THEN p \in active /\ memory.ports[p] = layout[p] ELSE p \in retired
  <2>1. CASE kind = "ports"
    BY <1>4, <1>5, <2>1 DEF Affected, Unstaged
  <2>2. CASE kind = "catalog" /\ p \in active
    <3>1. p \in DOMAIN layout /\ act[p].settings = memory.ports[p]
          /\ memory.ports[p].profile = layout[p].profile /\ memory.ports[p].link = layout[p].link
      BY <1>2, <1>3, <1>4, <1>5, <2>2 DEF Affected, Unstaged
    <3>2. memory.ports[p] \in Setting /\ layout[p] \in Setting
      BY <1>3, <2>2, <3>1, LayoutValue DEF TypeOK, Config
    <3> QED BY <2>2, <3>1, <3>2 DEF Setting
  <2>3. CASE kind = "catalog" /\ p \notin active
    BY <1>2, <1>3, <2>3
  <2> QED BY <2>1, <2>2, <2>3
<1>6. Affected(kind, layout) \subseteq active \cup retired
      /\ Affected(kind, layout) \cap retired \subseteq DOMAIN layout
      /\ (kind = "catalog" => Affected(kind, layout) \subseteq active)
  BY <1>3 DEF Affected
<1> QED BY <1>0, <1>1, <1>2, <1>3, <1>4, <1>5, <1>6 DEF Staging, InPhase, Unstaged, Unaffected

\* What is staged for a port is what the target asks for.
LEMMA StageRight ==
    ASSUME Invariant, NEW p \in Ports, Stage(p)
    PROVE  /\ act'[p].pending # None
           /\ IF p \in DOMAIN tx.target.ports
              THEN act'[p].pending.settings = tx.target.ports[p]
              ELSE act'[p].pending.kind = "remove" /\ act'[p].paused
           /\ p \in retired => act'[p].pending.kind = "replace" /\ ~act'[p].pending.resume
<1> USE DEF Invariant
<1>0. TypeOK /\ MapsPublished /\ Staging /\ tx # None /\ tx.phase = "stage" /\ tx \in Transaction
  BY DEF Stage, InPhase, TypeOK
<1>1. /\ p \in active \cup retired /\ p \in tx.todo
      /\ act[p] # None /\ StagedFor(p, tx) \in Pending
      /\ tx.kind = "catalog" => p \in DOMAIN tx.target.ports
      /\ act'[p].pending = StagedFor(p, tx)
      /\ act'[p].paused = (act[p].paused \/ Pauses(StagedFor(p, tx)))
  BY <1>0, StageActors
<1>2. active \cap retired = {} /\ active = DOMAIN memory.ports
  BY <1>0 DEF MapsPublished
<1>3. /\ IF p \notin DOMAIN tx.target.ports THEN StagedFor(p, tx).kind = "remove"
         ELSE IF tx.kind = "catalog"
         THEN StagedFor(p, tx).settings = [act[p].settings EXCEPT !.profile = tx.target.ports[p].profile]
         ELSE StagedFor(p, tx).settings = tx.target.ports[p]
      /\ p \in DOMAIN tx.target.ports /\ tx.kind # "catalog" =>
            /\ StagedFor(p, tx).kind = "replace"
            /\ StagedFor(p, tx).resume = (p \in active)
  BY <1>0, <1>1, StagedForFields
<1>4. CASE p \notin DOMAIN tx.target.ports
  <2>1. p \notin retired
    BY <1>0, <1>1, <1>4 DEF Staging, InPhase
  <2> QED BY <1>1, <1>3, <1>4, <2>1 DEF Pauses
<1>5. CASE p \in DOMAIN tx.target.ports /\ tx.kind # "catalog"
  BY <1>1, <1>2, <1>3, <1>5
<1>6. CASE p \in DOMAIN tx.target.ports /\ tx.kind = "catalog"
  <2>1. p \in active /\ memory.ports[p].link = tx.target.ports[p].link /\ act[p].settings = memory.ports[p]
    BY <1>0, <1>1, <1>6 DEF Staging, InPhase, Unstaged
  <2>2. memory.ports[p] \in Setting /\ tx.target.ports[p] \in Setting
    BY <1>0, <1>2, <1>6, <2>1, LayoutValue DEF TypeOK, Config, Transaction
  <2>3. [act[p].settings EXCEPT !.profile = tx.target.ports[p].profile] = tx.target.ports[p]
    BY <2>1, <2>2 DEF Setting
  <2> QED BY <1>1, <1>2, <1>3, <1>6, <2>1, <2>3
<1> QED BY <1>4, <1>5, <1>6

\* Staging goes on.
LEMMA StepStaging ==
    ASSUME Invariant, [Next]_vars
    PROVE  Staging'
<1> USE DEF Invariant
<1>0. TypeOK /\ active \cup retired \subseteq Ports
  BY DEF TypeOK
<1>1. CASE \E kind \in {"ports", "catalog"}, layout \in Layout, expected \in {None, known.rev} :
             Begin(kind, layout, expected)
  BY <1>1, BeginStaging
<1>2. CASE \E p \in Ports : Stage(p)
  <2>1. PICK p \in Ports : Stage(p)
    BY <1>2
  <2>2. /\ tx' \in Transaction /\ tx # None /\ tx' # None
        /\ tx'.kind = tx.kind /\ tx'.target = tx.target /\ tx'.phase = "stage" /\ tx.phase = "stage"
        /\ tx'.todo = tx.todo \ {p} /\ tx'.staged = tx.staged \cup {p}
        /\ tx'.new = tx.new /\ tx'.failed = tx.failed
    BY <1>0, <2>1, StageFields
  <2>3. Staging /\ InPhase("stage") /\ ~InPhase("save") /\ UNCHANGED <<active, retired, memory>>
    BY <2>1, <2>2 DEF Stage, InPhase, registry
  <2>4. /\ p \in active \cup retired /\ p \in tx.todo
        /\ \A q \in Ports \ {p} : act'[q] = act[q]
        /\ act'[p].settings = act[p].settings /\ (act[p].paused => act'[p].paused)
    BY <1>0, <2>1, StageActors
  <2>5. \A q \in active \cup retired : Unstaged(q)'
    BY <1>0, <2>3, <2>4 DEF Staging, Unstaged
  <2>6. StagedRight(p)' /\ ParkedOnRollback(p)'
    BY <2>1, <2>2, <2>3, StageRight DEF StagedRight, ParkedOnRollback
  <2>7. \A q \in active \cup retired :
           /\ IF q \in tx'.staged THEN StagedRight(q)' /\ ParkedOnRollback(q)' ELSE act'[q].pending = None
           /\ q \notin tx'.todo \cup tx'.staged => Unaffected(q)'
    BY <1>0, <2>2, <2>3, <2>4, <2>6 DEF Staging, StagedRight, ParkedOnRollback, Unaffected
  <2>8. /\ tx'.todo \cup tx'.staged \subseteq active \cup retired
        /\ tx'.todo \cap tx'.staged = {} /\ tx'.todo \cap retired \subseteq DOMAIN tx.target.ports
        /\ tx'.new = {} /\ ~tx'.failed
        /\ tx.kind = "catalog" =>
              /\ DOMAIN tx.target.ports = DOMAIN memory.ports
              /\ \A q \in active : memory.ports[q].link = tx.target.ports[q].link
              /\ tx'.todo \subseteq active
    BY <2>2, <2>3, <2>4 DEF Staging
  <2>9. InPhase("stage")' /\ ~InPhase("save")'
    BY <2>2 DEF InPhase
  <2> QED BY <2>2, <2>3, <2>5, <2>7, <2>8, <2>9 DEF Staging
<1>3. CASE SpawnNew
  <2>1. /\ tx' \in Transaction /\ tx # None /\ tx' # None
        /\ tx'.kind = tx.kind /\ tx'.target = tx.target /\ tx'.phase = "save" /\ tx.phase = "stage"
        /\ tx.todo = {} /\ tx'.todo = tx.todo /\ tx'.staged = tx.staged /\ tx'.failed = tx.failed
        /\ tx'.new = DOMAIN tx.target.ports \ (active \cup retired)
    BY <1>0, <1>3, PhaseFields
  <2>2. Staging /\ InPhase("stage") /\ UNCHANGED <<active, retired, memory>>
    BY <1>3 DEF SpawnNew, InPhase, registry
  <2>3. /\ \A q \in active \cup retired : act'[q] = act[q]
        /\ \A q \in tx'.new : /\ act'[q] # None /\ act'[q].pending # None
                              /\ act'[q].pending.settings = tx.target.ports[q]
    BY <1>0, <1>3, <2>1, SpawnActors
  <2>4. \A q \in tx'.new : act'[q] # None /\ StagedRight(q)'
    BY <2>1, <2>3 DEF StagedRight
  <2>5. \A q \in active \cup retired :
           /\ Unstaged(q)'
           /\ IF q \in tx'.staged THEN StagedRight(q)' /\ ParkedOnRollback(q)' ELSE act'[q].pending = None
           /\ q \notin tx'.todo \cup tx'.staged => Unaffected(q)'
    BY <2>1, <2>2, <2>3 DEF Staging, Unstaged, StagedRight, ParkedOnRollback, Unaffected
  <2> QED BY <2>1, <2>2, <2>4, <2>5 DEF Staging, InPhase
<1>4. CASE \/ \E p \in Ports : StageFails(p) \/ CommitActor(p) \/ RollBackActor(p)
           \/ SaveSucceeds \/ \E replaced \in BOOLEAN : SaveFails(replaced)
  BY <1>0, <1>4, PhaseFields DEF Staging, InPhase
<1>5. CASE Outside
  BY <1>5, OutsideEnds DEF Staging, InPhase
<1>6. CASE \E p \in Ports : ActorDies(p)
  <2>1. PICK p \in Ports : ActorDies(p)
    BY <1>6
  <2>2. UNCHANGED <<lifecycle, active, retired, memory, tx>>
    BY <2>1 DEF ActorDies, registry
  <2>3. \A q \in Ports : /\ (act'[q] = None) = (act[q] = None)
                         /\ act[q] # None => /\ act'[q].settings = act[q].settings
                                             /\ act'[q].pending = act[q].pending
                                             /\ act'[q].paused = act[q].paused
    BY <1>0, <2>1, DiesActors
  <2>4. SUFFICES ASSUME InPhase("stage") \/ InPhase("save")
                 PROVE  Staging'
    BY <2>2 DEF Staging, InPhase
  <2>5. \A q \in active \cup retired : act[q] # None
    BY <2>4 DEF MapsPublished, InPhase
  <2>6. tx.new \subseteq Ports /\ \A q \in tx.new : act'[q] # None /\ StagedRight(q)'
    <3>1. tx.new \subseteq Ports
      BY <2>4 DEF TypeOK, InPhase, Transaction
    <3> QED BY <2>2, <2>3, <2>4, <3>1 DEF Staging, StagedRight
  <2>7. \A q \in active \cup retired :
           /\ Unstaged(q)'
           /\ IF q \in tx.staged THEN StagedRight(q)' /\ ParkedOnRollback(q)' ELSE act'[q].pending = None
           /\ q \notin tx.todo \cup tx.staged => Unaffected(q)'
    BY <1>0, <2>2, <2>3, <2>4, <2>5 DEF Staging, Unstaged, StagedRight, ParkedOnRollback, Unaffected
  <2> QED BY <2>2, <2>4, <2>6, <2>7 DEF Staging, InPhase
<1>7. CASE ReadConfig \/ UNCHANGED vars
  <2>1. UNCHANGED <<active, retired, act, memory, tx>>
    BY <1>7 DEF ReadConfig, registry, vars
  <2>2. \A q : /\ Unstaged(q)' = Unstaged(q) /\ StagedRight(q)' = StagedRight(q)
               /\ ParkedOnRollback(q)' = ParkedOnRollback(q) /\ Unaffected(q)' = Unaffected(q)
    BY <2>1 DEF Unstaged, StagedRight, ParkedOnRollback, Unaffected
  <2>3. \A phase : InPhase(phase)' = InPhase(phase)
    BY <2>1 DEF InPhase
  <2>4. SUFFICES ASSUME InPhase("stage") \/ InPhase("save") PROVE Staging'
    BY <2>3 DEF Staging
  <2> QED BY <2>1, <2>2, <2>3, <2>4 DEF Staging
<1> QED BY <1>1, <1>2, <1>3, <1>4, <1>5, <1>6, <1>7 DEF Next, TransactionStep, Outside

\* Committing goes on, actor by actor.
LEMMA StepCommitting ==
    ASSUME Invariant, [Next]_vars
    PROVE  Committing'
<1> USE DEF Invariant
<1>0. TypeOK /\ active \cup retired \subseteq Ports
  BY DEF TypeOK
<1>1. CASE \E kind \in {"ports", "catalog"}, layout \in Layout, expected \in {None, known.rev} :
             Begin(kind, layout, expected)
  BY <1>0, <1>1, BeginFields DEF Committing, InPhase
<1>2. CASE \/ \E p \in Ports : Stage(p) \/ StageFails(p) \/ RollBackActor(p)
           \/ SpawnNew \/ \E replaced \in BOOLEAN : SaveFails(replaced)
  BY <1>0, <1>2, StageFields, PhaseFields DEF Committing, InPhase
<1>3. CASE SaveSucceeds
  <2>1. /\ tx # None /\ tx' # None /\ tx'.target = tx.target /\ tx'.phase = "commit" /\ tx.phase = "save"
        /\ tx'.todo = tx.staged \cup tx.new
    BY <1>0, <1>3, PhaseFields
  <2>2. UNCHANGED <<active, retired, act, memory>> /\ InPhase("save")
    BY <1>3 DEF SaveSucceeds, registry
  <2>3. /\ tx.todo = {} /\ tx.staged \subseteq active \cup retired
        /\ tx.new = DOMAIN tx.target.ports \ (active \cup retired)
        /\ \A p \in active \cup retired :
              /\ Unstaged(p)
              /\ IF p \in tx.staged THEN StagedRight(p) ELSE act[p].pending = None
              /\ p \notin tx.staged => Unaffected(p)
        /\ \A p \in tx.new : act[p] # None /\ StagedRight(p)
    BY <2>2 DEF Staging
  <2>4. \A p \in active \cup retired : act[p] # None
    BY <2>1 DEF MapsPublished
  <2>5. \A p \in active \cup retired \cup DOMAIN tx.target.ports :
           /\ act[p] # None
           /\ IF p \in tx'.todo THEN StagedRight(p)
              ELSE /\ act[p].pending = None
                   /\ IF p \in DOMAIN tx.target.ports THEN act[p].settings = tx.target.ports[p]
                      ELSE act[p].paused
    BY <2>1, <2>3, <2>4 DEF Unstaged, Unaffected
  <2> QED BY <2>1, <2>2, <2>3, <2>5 DEF Committing, InPhase, StagedRight
<1>4. CASE \E p \in Ports : CommitActor(p)
  <2>1. PICK p \in Ports : CommitActor(p)
    BY <1>4
  <2>2. /\ tx # None /\ tx' # None /\ tx'.target = tx.target /\ tx'.phase = "commit" /\ tx.phase = "commit"
        /\ tx'.todo = tx.todo \ {p} /\ tx \in Transaction
    BY <1>0, <2>1, PhaseFields DEF TypeOK
  <2>3. UNCHANGED <<active, retired>> /\ InPhase("commit") /\ Committing
    BY <2>1 DEF CommitActor, registry
  <2>4. /\ \A q \in Ports \ {p} : act'[q] = act[q]
        /\ StagedRight(p)
        /\ act'[p] # None /\ act'[p].pending = None
        /\ act'[p].settings = act[p].pending.settings
        /\ act[p].pending.kind = "remove" /\ act[p].paused => act'[p].paused
    BY <1>0, <2>1, CommitActors
  <2>5. DOMAIN tx.target.ports \subseteq Ports
    BY <2>2, LayoutValue DEF Transaction, Config
  <2>6. \A q \in active \cup retired \cup DOMAIN tx.target.ports :
           /\ act'[q] # None
           /\ IF q \in tx'.todo THEN StagedRight(q)'
              ELSE /\ act'[q].pending = None
                   /\ IF q \in DOMAIN tx.target.ports THEN act'[q].settings = tx.target.ports[q]
                      ELSE act'[q].paused
    BY <1>0, <2>2, <2>3, <2>4, <2>5 DEF Committing, StagedRight
  <2> QED BY <2>2, <2>3, <2>6 DEF Committing, InPhase
<1>5. CASE Outside
  BY <1>5, OutsideEnds DEF Committing, InPhase
<1>6. CASE \E p \in Ports : ActorDies(p)
  <2>1. PICK p \in Ports : ActorDies(p)
    BY <1>6
  <2>2. UNCHANGED <<lifecycle, active, retired, memory, tx>>
    BY <2>1 DEF ActorDies, registry
  <2>3. SUFFICES ASSUME InPhase("commit") PROVE Committing'
    BY <2>2 DEF Committing, InPhase
  <2>4. DOMAIN tx.target.ports \subseteq Ports
    BY <2>3, LayoutValue DEF InPhase, TypeOK, Transaction, Config
  <2>5. \A q \in Ports : /\ (act'[q] = None) = (act[q] = None)
                         /\ act[q] # None => /\ act'[q].settings = act[q].settings
                                             /\ act'[q].pending = act[q].pending
                                             /\ act'[q].paused = act[q].paused
    BY <1>0, <2>1, DiesActors
  <2> QED BY <1>0, <2>2, <2>3, <2>4, <2>5 DEF Committing, InPhase, StagedRight
<1>7. CASE ReadConfig \/ UNCHANGED vars
  BY <1>7 DEF ReadConfig, registry, vars, Committing, InPhase, StagedRight
<1> QED BY <1>1, <1>2, <1>3, <1>4, <1>5, <1>6, <1>7 DEF Next, TransactionStep, Outside

\* Rolling back goes on, and every actor keeps what it had.
LEMMA StepRollingBack ==
    ASSUME Invariant, [Next]_vars
    PROVE  RollingBack'
<1> USE DEF Invariant
<1>0. TypeOK /\ active \cup retired \subseteq Ports
  BY DEF TypeOK
<1>1. CASE \E kind \in {"ports", "catalog"}, layout \in Layout, expected \in {None, known.rev} :
             Begin(kind, layout, expected)
  BY <1>0, <1>1, BeginFields DEF RollingBack, InPhase
<1>2. CASE \/ \E p \in Ports : Stage(p) \/ CommitActor(p)
           \/ SpawnNew \/ SaveSucceeds
  BY <1>0, <1>2, StageFields, PhaseFields DEF RollingBack, InPhase
<1>3. CASE \/ \E p \in Ports : StageFails(p)
           \/ \E replaced \in BOOLEAN : SaveFails(replaced)
  <2>2. tx' # None /\ tx'.phase = "rollback" /\ tx'.staged = tx.staged
    BY <1>0, <1>3, PhaseFields
  <2>3. UNCHANGED <<active, retired, memory>> /\ (InPhase("stage") \/ InPhase("save"))
    BY <1>3 DEF StageFails, SaveFails, registry
  <2>4. \A p \in active \cup retired : act'[p] = act[p]
    <3>1. CASE \E p \in Ports : StageFails(p)
      BY <3>1 DEF StageFails
    <3>2. CASE \E replaced \in BOOLEAN : SaveFails(replaced)
      <4>1. InPhase("save") /\ act' = WithoutNew
        BY <3>2 DEF SaveFails
      <4>2. tx.new \cap (active \cup retired) = {}
        BY <4>1 DEF Staging
      <4> QED BY <1>0, <4>1, <4>2, WithoutNewActors
    <3> QED BY <1>3, <3>1, <3>2
  <2> QED BY <2>2, <2>3, <2>4 DEF Staging, RollingBack, InPhase, Unstaged, ParkedOnRollback
<1>4. CASE \E p \in Ports : RollBackActor(p)
  <2>1. PICK p \in Ports : RollBackActor(p)
    BY <1>4
  <2>2. /\ tx # None /\ tx' # None /\ tx'.phase = "rollback" /\ tx.phase = "rollback"
        /\ tx'.staged = tx.staged \ {p} /\ tx'.failed = (tx.failed \/ ~act[p].alive)
    BY <1>0, <2>1, PhaseFields
  <2>3. UNCHANGED <<active, retired, memory>> /\ InPhase("rollback") /\ RollingBack
    BY <2>1 DEF RollBackActor, registry
  <2>4. /\ \A q \in Ports \ {p} : act'[q] = act[q]
        /\ act'[p].settings = act[p].settings
        /\ p \in retired => act'[p].paused
        /\ act'[p].pending = None \/ ~act[p].alive
    BY <1>0, <2>1, RollBackActors
  <2>5. \A q \in active \cup retired :
           /\ Unstaged(q)'
           /\ IF q \in tx'.staged THEN ParkedOnRollback(q)' ELSE act'[q].pending = None \/ tx'.failed
    BY <1>0, <2>2, <2>3, <2>4 DEF RollingBack, Unstaged, ParkedOnRollback
  <2> QED BY <2>2, <2>3, <2>5 DEF RollingBack, InPhase
<1>5. CASE Outside
  BY <1>5, OutsideEnds DEF RollingBack, InPhase
<1>6. CASE \E p \in Ports : ActorDies(p)
  <2>1. PICK p \in Ports : ActorDies(p)
    BY <1>6
  <2>2. UNCHANGED <<lifecycle, active, retired, memory, tx>>
    BY <2>1 DEF ActorDies, registry
  <2>3. SUFFICES ASSUME InPhase("rollback") PROVE RollingBack'
    BY <2>2 DEF RollingBack, InPhase
  <2>4. \A q \in active \cup retired : act[q] # None
    BY <2>3 DEF MapsPublished, InPhase
  <2>5. \A q \in Ports : act[q] # None => /\ act'[q].settings = act[q].settings
                                          /\ act'[q].pending = act[q].pending
                                          /\ act'[q].paused = act[q].paused
    BY <1>0, <2>1, DiesActors
  <2> QED BY <1>0, <2>2, <2>3, <2>4, <2>5 DEF RollingBack, InPhase, Unstaged, ParkedOnRollback
<1>7. CASE ReadConfig \/ UNCHANGED vars
  BY <1>7 DEF ReadConfig, registry, vars, RollingBack, InPhase, Unstaged, ParkedOnRollback
<1> QED BY <1>1, <1>2, <1>3, <1>4, <1>5, <1>6, <1>7 DEF Next, TransactionStep, Outside

-----------------------------------------------------------------------------
(* The theorems *)

\* A daemon starts with the configuration of its file.
LEMMA InvariantInit == Init => Invariant
<1> SUFFICES ASSUME Init PROVE Invariant
  OBVIOUS
<1>1. memory \in Config /\ memory.ports \in Layout
  BY DEF Init, Config
<1>2. act \in [Ports -> Actor \cup {None}] /\ DOMAIN memory.ports \subseteq Ports
  BY <1>1, SpawnedActors, LayoutValue DEF Init
<1>3. TypeOK
  BY <1>1, <1>2 DEF Init, TypeOK
<1>4. RevisionsOrdered
  BY <1>1 DEF Init, RevisionsOrdered, InPhase, Config
<1>5. MapsPublished /\ Idle
  BY <1>1, SpawnedActors DEF Init, MapsPublished, Idle, Unstaged
<1>6. Staging /\ Committing /\ RollingBack
  BY DEF Init, Staging, Committing, RollingBack, InPhase
<1> QED BY <1>3, <1>4, <1>5, <1>6 DEF Invariant

\* Every step keeps the whole.
LEMMA InvariantStep == Invariant /\ [Next]_vars => Invariant'
BY StepType, StepRevisions, StepMaps, StepIdle, StepStaging, StepCommitting, StepRollingBack DEF Invariant

\* The transactions of api.rs and registry.rs keep it, whatever refuses, dies or fails
\* and wherever the daemon stops.
THEOREM ConfigurationInvariant == Spec => []Invariant
BY InvariantInit, InvariantStep, PTL DEF Spec

\* The registry, the configurations and the transaction keep their types.
THEOREM ConfigurationTypeCorrect == Spec => []TypeOK
<1>1. Invariant => TypeOK
  BY DEF Invariant
<1> QED BY <1>1, ConfigurationInvariant, PTL

\* Outside a transaction the actors run the configuration in memory: commit and
\* rollback are complete or the registry is degraded.
THEOREM ConfigurationRuntimeMatches == Spec => []RuntimeMatchesMemory
<1>1. Invariant => RuntimeMatchesMemory
  BY DEF Invariant, MapsPublished, Idle, Unstaged, RuntimeMatchesMemory
<1> QED BY <1>1, ConfigurationInvariant, PTL

\* ensure_expected_revision is sound: a revision a client knows names the
\* configuration it read, also after failed saves, compensation and restarts.
THEOREM ConfigurationRevisionNames == Spec => []RevisionNamesOneConfig
<1>1. Invariant => RevisionNamesOneConfig
  BY DEF Invariant, RevisionsOrdered, RevisionNamesOneConfig
<1> QED BY <1>1, ConfigurationInvariant, PTL

=============================================================================
