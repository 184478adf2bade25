------------------------------ MODULE Requests ------------------------------
(***************************************************************************)
(* How a client's request reaches the Slot actor and is answered: the       *)
(* WebSocket connection (api.rs), SlotHandle's command queue, and the two   *)
(* result caches of the actor (slot.rs).  Connections are lost at any time, *)
(* a lost answer is retried under the same request id on a new connection,  *)
(* with a new actor id, and the port's writer may stop without answering.   *)
(*                                                                         *)
(* The caches are the whole protection against writing twice: an exact      *)
(* result for recent ids, the bare id for every executed one, and a refusal *)
(* when no more ids can be remembered.  Who may write is modelled in Slot;  *)
(* here the holder of control is one variable that any step may hand over.  *)
(***************************************************************************)
EXTENDS Naturals, Sequences, FiniteSets

CONSTANTS
    None,
    Humans,         \* clients of Humans
    Agents,         \* clients of Agents
    Ids,            \* request ids of physical operations
    RunIds,         \* request ids of Run starts
    Bodies,         \* what a request asks for, as far as its fingerprint tells
    Entries,        \* IDEMPOTENCY_ENTRIES
    History,        \* WRITE_IDEMPOTENCY_HISTORY_ENTRIES
    Queue,          \* COMMAND_QUEUE
    MaxConnects,    \* bound on the connections made
    MaxSends        \* bound on the requests sent

ASSUME BoundsAssumption ==
    /\ Entries \in Nat \ {0} /\ History \in Nat /\ Queue \in Nat
    /\ MaxConnects \in Nat /\ MaxSends \in Nat

Clients == Humans \cup Agents

\* The actor id that issue_actor gives to a connection: no two are alike.
Actors == Clients \X (1..MaxConnects)
IsHuman(actor) == actor[1] \in Humans

\* SlotRequest, with the fields that its fingerprint and its authorization use.
Physical == {"human", "write"}
WriteRequest == [kind : Physical, id : Ids, body : Bodies, actor : Actors, generation : {0, 1}]
RunRequest == [kind : {"run"}, id : RunIds, body : Bodies, actor : Actors, generation : {0, 1}]
Request == WriteRequest \cup RunRequest

\* Results of a physical operation that may have reached the wire, and errors
\* that the Slot gives before any byte is handed over.
Written == {"accepted", "partial", "uncertain"}
Refused == {"invalid", "unauthorized", "offline", "capacity", "closed"}
FromRecord == {"reused", "expired"}
RunResults == {"pending", "granted", "cancelled", "unauthorized", "reused", "offline"}
Results == Written \cup Refused \cup FromRecord \cup RunResults
WriteEntry == [key : Ids, fingerprint : Bodies, result : Results]
RunEntry == [key : Actors \X RunIds, fingerprint : Actors \X Bodies, result : Results]

ASSUME AbsentAssumption == None \notin Request /\ None \notin Actors /\ None \notin Results

VARIABLES
    link,       \* the actor id of a client's connection, or None
    gone,       \* actors whose socket is lost but whose task has not finished
    made,       \* connections made so far
    up,         \* the Slot actor has not been shut down
    commands,   \* the Slot's command queue
    busy,       \* the request whose bytes are with the port's writer, or None
    line,       \* what reached the wire: ids with the bodies written
    owner,      \* the actor that holds control, or None
    generation, \* of the port
    results,    \* write_request_cache in the order of write_request_order
    executed,   \* executed_write_ids
    runs,       \* request_cache in the order of request_order
    approval,   \* the pending Run-start request, or None
    confirmed,  \* ids and bodies that a client was told went out
    warned,     \* ids that a client has been told, or must assume, may have gone out
    sends       \* requests sent so far

links == <<link, gone, made>>
told == <<confirmed, warned>>
authority == <<owner, generation, approval>>
vars == <<links, up, commands, busy, line, authority, results, executed, runs, told, sends>>

-----------------------------------------------------------------------------
(* The connection *)

InFlight(actor) == {i \in DOMAIN commands : commands[i].actor = actor} # {}
    \/ (busy # None /\ busy.actor = actor)

\* websocket, receive_hello and issue_actor.
Connect(c) ==
    /\ link[c] = None /\ made < MaxConnects
    /\ made' = made + 1
    /\ link' = [link EXCEPT ![c] = <<c, made + 1>>]
    /\ UNCHANGED <<gone, up, commands, busy, line, authority, results, executed, runs, told, sends>>

\* The socket is lost; the task that serves it finds out between two messages.
Lose(c) ==
    /\ link[c] # None
    /\ link' = [link EXCEPT ![c] = None]
    /\ gone' = gone \cup {link[c]}
    /\ UNCHANGED <<made, up, commands, busy, line, authority, results, executed, runs, told, sends>>

\* An answer reaches the client if the connection it was asked on is still
\* there.  No answer at all, or one that is not a refusal, leaves a client with
\* bytes that may be on the wire.
Answer(given) ==
    LET physical == {g \in given : g.request.kind \in Physical}
        heard == {g \in physical : \E c \in Clients : link[c] = g.request.actor}
    IN /\ confirmed' = confirmed \cup
            {[id |-> g.request.id, body |-> g.request.body] : g \in {h \in heard : h.result = "accepted"}}
       /\ warned' = warned \cup
            {g.request.id : g \in physical \ {h \in heard : h.result \in Refused}}

\* dispatch_slot_command: the actor is that of the connection, never one the
\* client names.
Dispatch(c, kind, id, body) ==
    [kind |-> kind, id |-> id, body |-> body, actor |-> link[c], generation |-> generation]

\* SlotHandle::request.  dispatch_message serves one message of a connection at a
\* time, so a client has at most one request with the Slot; a full queue makes it
\* wait, and a Slot that is gone is reported as closed.
Submit(r) ==
    /\ ~InFlight(r.actor) /\ sends < MaxSends
    /\ sends' = sends + 1
    /\ IF up
       THEN /\ Len(commands) < Queue
            /\ commands' = Append(commands, r)
            /\ UNCHANGED told
       ELSE /\ Answer({[request |-> r, result |-> "closed"]})
            /\ UNCHANGED commands
    /\ UNCHANGED <<links, up, busy, line, authority, results, executed, runs>>

\* New requests and retries alike: the id and the body are the client's choice.
SendHumanInput(c, id, body) ==
    /\ link[c] # None /\ c \in Humans
    /\ Submit(Dispatch(c, "human", id, body))

\* write, send_break and start_trigger; the body tells which.
SendUnderLease(c, id, body) ==
    /\ link[c] # None
    /\ Submit(Dispatch(c, "write", id, body))

RequestRunStart(c, id, body) ==
    /\ link[c] # None /\ c \in Agents
    /\ Submit(Dispatch(c, "run", id, body))

-----------------------------------------------------------------------------
(* The caches *)

\* The fingerprint of a physical operation leaves out who asks, so that a retry
\* on another connection is still the same request.
WriteFingerprint(r) == r.body

Fingerprint(r) == <<r.actor, r.body>>

Cached(cache, key) == \E i \in DOMAIN cache : cache[i].key = key
Entry(cache, key) == cache[CHOOSE i \in DOMAIN cache : cache[i].key = key]
RunKey(r) == <<r.actor, r.id>>
Replayed(cache, key, fingerprint) ==
    IF Entry(cache, key).fingerprint = fingerprint THEN Entry(cache, key).result ELSE "reused"

\* pop_front after a push_back: there is never more than one too many.
Newest(cache) == IF Len(cache) > Entries THEN Tail(cache) ELSE cache

\* cache_result: what is cached under a key is never replaced.
CacheResult(cache, key, fingerprint, result) ==
    IF Cached(cache, key) THEN cache
    ELSE Newest(Append(cache, [key |-> key, fingerprint |-> fingerprint, result |-> result]))

CacheWriteResult(r, result) ==
    /\ results' = CacheResult(results, r.id, WriteFingerprint(r), result)
    /\ executed' = executed \cup {r.id}

\* Mutant of IsCacheable: a write that failed half way is not remembered.
IsCacheableSuccess(result) == result = "accepted"

IsCacheable(result) == result \in Written

\* cache_run_start_terminal: the cached answer of the request becomes its outcome.
RunStartTerminal(cache, r, result) ==
    IF Cached(cache, RunKey(r))
    THEN [i \in DOMAIN cache |->
            IF cache[i].key = RunKey(r) /\ cache[i].fingerprint = Fingerprint(r)
            THEN [cache[i] EXCEPT !.result = result] ELSE cache[i]]
    ELSE CacheResult(cache, RunKey(r), Fingerprint(r), result)

-----------------------------------------------------------------------------
(* The actor *)

Request1 == Head(commands)
Ready(kinds) == up /\ busy = None /\ commands # <<>> /\ Request1.kind \in kinds

\* Handles the request at the head of the queue without waiting for the port.
Settle(result) ==
    /\ commands' = Tail(commands)
    /\ Answer({[request |-> Request1, result |-> result]})
    /\ UNCHANGED <<links, up, busy, sends>>

\* validate_write_authorization, against the lease and the port of now.
Authorized(r) ==
    CASE r.kind = "human" -> /\ r.generation = generation
                             /\ owner \notin {None, r.actor} => ~IsHuman(owner)
      [] r.kind = "write" -> owner = r.actor

\* Mutant of FromCache: when no more ids fit, the request is executed all the same.
FromCacheUnbounded(r) ==
    IF Cached(results, r.id) THEN Replayed(results, r.id, WriteFingerprint(r))
    ELSE IF r.id \in executed THEN "expired" ELSE None

\* write_request_cache, then was_executed_or_reserveable.
FromCache(r) ==
    IF Cached(results, r.id) THEN Replayed(results, r.id, WriteFingerprint(r))
    ELSE IF r.id \in executed THEN "expired"
    ELSE IF Cardinality(executed) >= History THEN "capacity" ELSE None

\* validate_business_fields
Invalid ==
    /\ Ready(Physical)
    /\ Settle("invalid")
    /\ UNCHANGED <<line, authority, results, executed, runs>>

Unauthorized ==
    /\ Ready(Physical) /\ ~Authorized(Request1)
    /\ Settle("unauthorized")
    /\ UNCHANGED <<line, authority, results, executed, runs>>

Replay ==
    /\ Ready(Physical) /\ Authorized(Request1) /\ FromCache(Request1) # None
    /\ Settle(FromCache(Request1))
    /\ UNCHANGED <<line, authority, results, executed, runs>>

\* execute fails before the bytes are handed to the port's writer: no port, a
\* Trigger or a Macro, a lease too short for the write, a precondition.
Refuse ==
    /\ Ready(Physical) /\ Authorized(Request1) /\ FromCache(Request1) = None
    /\ Settle("offline")
    /\ UNCHANGED <<line, authority, results, executed, runs>>

\* execute hands the bytes over and waits; a Human's input takes an idle lease.
Execute ==
    /\ Ready(Physical) /\ Authorized(Request1) /\ FromCache(Request1) = None
    /\ commands' = Tail(commands) /\ busy' = Request1
    /\ owner' = IF owner = None THEN Request1.actor ELSE owner
    /\ UNCHANGED <<links, up, line, generation, approval, results, executed, runs, told, sends>>

\* The writer answers, or stops without an answer: all bytes went out, some did,
\* or it cannot be told if any did.
Finish(result, reached) ==
    /\ busy # None
    /\ result = "accepted" => reached
    /\ line' = IF reached THEN Append(line, [id |-> busy.id, body |-> busy.body]) ELSE line
    /\ IF IsCacheable(result) THEN CacheWriteResult(busy, result)
       ELSE UNCHANGED <<results, executed>>
    /\ Answer({[request |-> busy, result |-> result]})
    /\ busy' = None
    /\ UNCHANGED <<links, up, commands, authority, runs, sends>>

\* A Run start that the request cache answers.
ReplayRun ==
    /\ Ready({"run"}) /\ Cached(runs, RunKey(Request1))
    /\ Settle(Replayed(runs, RunKey(Request1), Fingerprint(Request1)))
    /\ UNCHANGED <<line, authority, results, executed, runs>>

NewRun(result) ==
    /\ Ready({"run"}) /\ ~Cached(runs, RunKey(Request1))
    /\ runs' = CacheResult(runs, RunKey(Request1), Fingerprint(Request1), result)
    /\ Settle(result)
    /\ UNCHANGED <<line, generation, results, executed>>

\* execute(RequestRunStart): granted at once when nobody has control, left to the
\* Human who has it, and refused while another request waits.
GrantRun ==
    /\ approval = None /\ owner = None
    /\ NewRun("granted")
    /\ owner' = Request1.actor
    /\ UNCHANGED approval

AskHuman ==
    /\ approval = None /\ owner # None
    /\ IF IsHuman(owner)
       THEN NewRun("pending") /\ approval' = Request1 /\ UNCHANGED owner
       ELSE NewRun("offline") /\ UNCHANGED <<approval, owner>>

AskAgain ==
    /\ approval # None
    /\ NewRun(IF RunKey(approval) # RunKey(Request1) THEN "unauthorized"
              ELSE IF Fingerprint(approval) = Fingerprint(Request1) THEN "pending" ELSE "reused")
    /\ UNCHANGED <<approval, owner>>

\* The Human who has control decides, or the request times out.
Decide(result) ==
    /\ up /\ busy = None /\ approval # None
    /\ approval' = None
    /\ runs' = RunStartTerminal(runs, approval, result)
    /\ owner' = IF result = "granted" THEN approval.actor ELSE owner
    /\ UNCHANGED <<links, up, commands, busy, line, generation, results, executed, told, sends>>

\* Control changes hands (acquired, released, expired, taken over): a pending
\* request is cancelled with it.
Handover(to) ==
    /\ up /\ busy = None /\ to # owner
    /\ owner' = to
    /\ approval' = None
    /\ runs' = IF approval = None THEN runs ELSE RunStartTerminal(runs, approval, "cancelled")
    /\ UNCHANGED <<links, up, commands, busy, line, generation, results, executed, told, sends>>

\* disconnect_actor, once the task that served the socket has finished.
Disconnect(actor) ==
    /\ actor \in gone /\ ~InFlight(actor)
    /\ gone' = gone \ {actor}
    /\ LET concerned == approval # None /\ actor \in {approval.actor, owner}
       IN /\ approval' = IF concerned THEN None ELSE approval
          /\ runs' = IF concerned THEN RunStartTerminal(runs, approval, "cancelled") ELSE runs
    /\ owner' = IF owner = actor THEN None ELSE owner
    /\ UNCHANGED <<link, made, up, commands, busy, line, generation, results, executed, told, sends>>

\* The port is reopened.
Reopen ==
    /\ up /\ busy = None /\ generation = 0
    /\ generation' = 1
    /\ UNCHANGED <<links, up, commands, busy, line, owner, approval, results, executed, runs, told, sends>>

\* Mutant of DroppedReply: a reply that never came is passed on as a refusal.
DroppedReplyRefused(r) == IF r.kind \in Physical THEN "closed" ELSE "offline"

\* map_physical_request_error
DroppedReply(r) == IF r.kind \in Physical THEN "uncertain" ELSE "offline"

\* The Slot is shut down, or its task dies while it waits for the writer: every
\* reply still owed is dropped.
Stop(reached) ==
    /\ up
    /\ reached => busy # None
    /\ up' = FALSE
    /\ line' = IF reached THEN Append(line, [id |-> busy.id, body |-> busy.body]) ELSE line
    /\ commands' = <<>> /\ busy' = None
    /\ Answer({[request |-> r, result |-> DroppedReply(r)] :
                r \in {commands[i] : i \in DOMAIN commands} \cup ({busy} \ {None})})
    /\ UNCHANGED <<links, authority, results, executed, runs, sends>>

-----------------------------------------------------------------------------

Init ==
    /\ link = [c \in Clients |-> None] /\ gone = {} /\ made = 0
    /\ up = TRUE /\ commands = <<>> /\ busy = None /\ line = <<>>
    /\ owner = None /\ generation = 0 /\ approval = None
    /\ results = <<>> /\ executed = {} /\ runs = <<>>
    /\ confirmed = {} /\ warned = {} /\ sends = 0

Next ==
    \/ \E c \in Clients : Connect(c) \/ Lose(c)
    \/ \E c \in Clients, id \in Ids, body \in Bodies :
            SendHumanInput(c, id, body) \/ SendUnderLease(c, id, body)
    \/ \E c \in Clients, id \in RunIds, body \in Bodies : RequestRunStart(c, id, body)
    \/ Invalid \/ Unauthorized \/ Replay \/ Refuse \/ Execute
    \/ \E result \in Written, reached \in BOOLEAN : Finish(result, reached)
    \/ ReplayRun \/ GrantRun \/ AskHuman \/ AskAgain
    \/ \E result \in {"granted", "cancelled"} : Decide(result)
    \/ \E c \in Clients : Handover(link[c])
    \/ \E actor \in gone : Disconnect(actor)
    \/ Reopen
    \/ \E reached \in BOOLEAN : Stop(reached)

Spec == Init /\ [][Next]_vars

-----------------------------------------------------------------------------
(* Properties *)

TypeOK ==
    /\ link \in [Clients -> Actors \cup {None}] /\ gone \subseteq Actors
    /\ made \in 0..MaxConnects /\ up \in BOOLEAN
    /\ commands \in Seq(Request) /\ Len(commands) <= Queue
    /\ busy \in WriteRequest \cup {None}
    /\ line \in Seq([id : Ids, body : Bodies])
    /\ owner \in Actors \cup {None} /\ generation \in {0, 1}
    /\ approval \in RunRequest \cup {None}
    /\ results \in Seq(WriteEntry) /\ runs \in Seq(RunEntry)
    /\ Len(results) <= Entries /\ Len(runs) <= Entries
    /\ executed \subseteq Ids /\ Cardinality(executed) <= History
    /\ confirmed \subseteq [id : Ids, body : Bodies] /\ warned \subseteq Ids /\ sends \in 0..MaxSends

\* However often a request is retried, on whichever connection, after its result
\* left the cache or never reached the client: its bytes go out at most once.
WrittenOnce ==
    \A i, j \in DOMAIN line : line[i].id = line[j].id => i = j

\* A client that is told its bytes went out asked for exactly what did.
AcceptedWasWritten == \A a \in confirmed : \E i \in DOMAIN line : line[i] = a

\* When every attempt was answered and every answer was a refusal, nothing of the
\* request is on the wire: the client may ask again under a new id.
RefusedWasNotWritten == \A i \in DOMAIN line : line[i].id \in warned

\* A retried Run start is told the outcome once there is one: no cached answer
\* says that the request is pending when it no longer is.
PendingIsPending ==
    \A i \in DOMAIN runs : runs[i].result = "pending" =>
        approval # None /\ RunKey(approval) = runs[i].key

\* What a client is told of its requests is so.
AnswersTruthful == AcceptedWasWritten /\ RefusedWasNotWritten /\ PendingIsPending
=============================================================================
