---------------------------- MODULE MacroCatalog ----------------------------
(***************************************************************************)
(* The daemon's catalog of Macros (macros.rs): a map that is read from its   *)
(* file when it is first needed, that a save replaces in the file and then   *)
(* in memory, and from which a Macro is run by its id and revision.  A save   *)
(* names the revision that it replaces.  Bodies stand for all that a         *)
(* definition has beside its id and revision.                              *)
(***************************************************************************)
EXTENDS Naturals

CONSTANTS
    None,
    Ids,            \* ids that a save may name
    Bodies,         \* script, parameters and whether it is shared
    Valid(_),       \* validate_definition: the labels are well formed and the script compiles
    Typed(_, _),    \* arguments: these values fit the parameters of this body
    Size(_),        \* how many Macros a catalog holds
    MaxMacros,      \* MAX_MACROS
    MaxRevision     \* bound: the greatest revision

VARIABLES
    memory,         \* state: the catalog, None until it is first needed
    file,           \* macros.json
    seen            \* the definitions that were ever handed to a client

catalog == <<memory, file, seen>>

Definition == [id : Ids, revision : 1..MaxRevision, body : Bodies]
Catalogs == {c \in [Ids -> Definition \cup {None}] : \A id \in Ids : c[id] # None => c[id].id = id}
Request == [id : Ids, expected : 1..MaxRevision \cup {None}, body : Bodies]

\* load, with_catalog
Loaded == IF memory = None THEN file ELSE memory

\* save: the revision that is refused, or the one that the definition gets
Conflict(state, request) ==
    IF state[request.id] # None THEN request.expected # state[request.id].revision
    ELSE request.expected # None \/ Size(state) >= MaxMacros

NextRevision(state, request) ==
    IF state[request.id] = None THEN 1 ELSE state[request.id].revision + 1

Saved(state, request) ==
    [id |-> request.id, revision |-> NextRevision(state, request), body |-> request.body]

Accepted(state, request) == ~Conflict(state, request) /\ Valid(request.body)

-----------------------------------------------------------------------------

\* The file is what an earlier daemon left; load refuses any other.
CatalogInit ==
    /\ memory = None
    /\ file \in Catalogs
    /\ seen = {}

\* list with an id
Get(id) ==
    /\ memory' = Loaded
    /\ seen' = seen \cup ({Loaded[id]} \ {None})
    /\ UNCHANGED file

\* list, and any other call that needs the catalog and changes nothing
Look == memory' = Loaded /\ UNCHANGED <<file, seen>>

\* save: the file first, then the memory, then the answer
Save(request) ==
    /\ Accepted(Loaded, request)
    /\ NextRevision(Loaded, request) <= MaxRevision
    /\ file' = [Loaded EXCEPT ![request.id] = Saved(Loaded, request)]
    /\ memory' = file'
    /\ seen' = seen \cup {Saved(Loaded, request)}

SaveRefused(request) == ~Accepted(Loaded, request) /\ Look

\* atomic_write fails, before the file is renamed or after it; the answer is an error.
SaveFails(request) ==
    /\ Accepted(Loaded, request)
    /\ NextRevision(Loaded, request) <= MaxRevision
    /\ file' \in {file, [Loaded EXCEPT ![request.id] = Saved(Loaded, request)]}
    /\ memory' = Loaded
    /\ UNCHANGED seen

\* prepare: what runs for an id, a revision and arguments; None is an error
Prepared(id, revision, args) ==
    IF Loaded[id] = None THEN None
    ELSE IF Loaded[id].revision # revision THEN None
    ELSE IF Typed(Loaded[id].body, args) THEN Loaded[id] ELSE None

\* The daemon ends and starts again.
Restart == memory' = None /\ UNCHANGED <<file, seen>>

CatalogNext ==
    \/ Look \/ \E id \in Ids : Get(id)
    \/ \E request \in Request : Save(request) \/ SaveRefused(request) \/ SaveFails(request)
    \/ Restart

CatalogSpec == CatalogInit /\ [][CatalogNext]_catalog

-----------------------------------------------------------------------------
(* The properties *)

CatalogTypeOK ==
    /\ memory \in Catalogs \cup {None}
    /\ file \in Catalogs
    /\ seen \subseteq Definition

\* An id with a revision names one definition for ever: no two clients were ever given
\* different bodies under the same name, whatever saves failed half way and whenever the
\* daemon was started again.  A run by revision rests on this (save and prepare).
RevisionNamesOne == \A d, e \in seen : d.id = e.id /\ d.revision = e.revision => d.body = e.body

=============================================================================
