----------------------------- MODULE McpServer ------------------------------
(***************************************************************************)
(* The process of serial-mcp (mcp.rs, main.rs, config.rs): requests that      *)
(* come over stdin or HTTP, the map of the active ones, cancellation, the     *)
(* end of the process, and the watcher of the Run timeout in the config file. *)
(*                                                                         *)
(* A request is a tool call that only observes, a macro, or a physical        *)
(* action; it takes effect in the daemon at one step and its outcome is known *)
(* at a later one.  Requests that are answered without a tool, and those that  *)
(* are refused before they are dispatched, have kind "plain".                *)
(***************************************************************************)
EXTENDS Naturals, FiniteSets

CONSTANTS
    None,
    Requests, Ids,      \* requests, and the ids that clients give them
    Timeouts,           \* the timeouts that a config file may hold
    Default, Invalid    \* no file, and one that is refused

VARIABLES
    transport,  \* "stdio" or "http"
    active,     \* active_requests: by id, the request and its cancel sender
    req,        \* every request: id, kind, where it is, what it did, how it was answered
    server,     \* "open", "closing" or "exited"
    file,       \* the config file
    watch       \* watch_orphan_run_timeout: observed, applied, and the last valid value

vars == <<transport, active, req, server, file, watch>>

Kinds == {"observe", "macro", "physical", "plain"}
\* request_is_cancellable
Cancellable(kind) == kind \in {"observe", "macro"}

Running(r) == req[r].at \in {"running", "effect", "known"}

-----------------------------------------------------------------------------
(* Requests *)

\* serve_stdio and http_post up to the dispatch: an id that is active is refused.
Receive(r, id, kind) ==
    /\ server = "open" /\ req[r].at = "unsent"
    /\ IF kind = "plain" \/ active[id] # None
       THEN /\ req' = [req EXCEPT ![r] = [@ EXCEPT !.id = id, !.kind = kind, !.at = "ended", !.answers = 1]]
            /\ UNCHANGED active
       ELSE /\ active' = [active EXCEPT ![id] = [r |-> r, cancel |-> IF Cancellable(kind) THEN "armed" ELSE "none"]]
            /\ req' = [req EXCEPT ![r] = [@ EXCEPT !.id = id, !.kind = kind, !.at = "running",
                                                   !.connected = transport = "http", !.guard = transport = "http" /\ kind = "macro"]]
    /\ UNCHANGED <<transport, server, file, watch>>

\* Mutant of CancelRequest: any active request can be told to stop.
CancelAny(a, id) == IF a[id] = None THEN a ELSE [a EXCEPT ![id].cancel = "sent"]
\* cancel_request
CancelRequest(a, id) ==
    IF a[id] = None THEN a ELSE IF a[id].cancel # "armed" THEN a ELSE [a EXCEPT ![id].cancel = "sent"]

CancelNotification(id) ==
    /\ server = "open" /\ active' = CancelRequest(active, id)
    /\ UNCHANGED <<transport, req, server, file, watch>>

Told(r) == active[req[r].id] # None /\ active[req[r].id].r = r /\ active[req[r].id].cancel = "sent"

\* The tool acts on the device, and later knows how that ended.
TakeEffect(r) ==
    /\ req[r].at = "running" /\ req[r].kind # "observe"
    /\ req' = [req EXCEPT ![r].at = "effect"]
    /\ UNCHANGED <<transport, active, server, file, watch>>
OutcomeKnown(r) ==
    /\ req[r].at = "effect" \/ (req[r].at = "running" /\ req[r].kind = "observe")
    /\ req' = [req EXCEPT ![r].at = "known"]
    /\ UNCHANGED <<transport, active, server, file, watch>>
\* The tool fails before it acts; a macro is stopped by the daemon.
Fails(r) ==
    /\ req[r].at = "running" /\ req[r].kind \in {"macro", "physical"}
    /\ req' = [req EXCEPT ![r].at = "known"]
    /\ UNCHANGED <<transport, active, server, file, watch>>

\* dispatch_cancellable: a call that is cancelled is dropped where it is, but a macro is
\* only told to stop.
DropCancelled(r) ==
    /\ Running(r) /\ Told(r) /\ req[r].kind # "macro"
    /\ req' = [req EXCEPT ![r].at = "known", ![r].dropped = req[r].at = "effect"]
    /\ UNCHANGED <<transport, active, server, file, watch>>

\* The worker removes its key, and then answers; an HTTP client that is gone hears nothing.
RemoveKey(r) ==
    /\ req[r].at = "known"
    /\ active' = [active EXCEPT ![req[r].id] = None]
    /\ req' = [req EXCEPT ![r].at = "removed"]
    /\ UNCHANGED <<transport, server, file, watch>>
Answer(r) ==
    /\ req[r].at = "removed" /\ server # "exited"
    /\ req' = [req EXCEPT ![r] = [@ EXCEPT !.at = "ended", !.answers = IF transport = "stdio" \/ req[r].connected THEN 1 ELSE 0]]
    /\ UNCHANGED <<transport, active, server, file, watch>>

\* http_post ends, with the answer or because its client is gone, and CancelMacroOnDrop
\* cancels what is then active under the id of its macro.
DropGuard(r) ==
    /\ req[r].guard /\ (req[r].at = "ended" \/ ~req[r].connected)
    /\ req' = [req EXCEPT ![r].guard = FALSE]
    /\ active' = CancelRequest(active, req[r].id)
    /\ UNCHANGED <<transport, server, file, watch>>
Disconnect(r) ==
    /\ transport = "http" /\ Running(r) /\ req[r].connected
    /\ req' = [req EXCEPT ![r].connected = FALSE]
    /\ UNCHANGED <<transport, active, server, file, watch>>

-----------------------------------------------------------------------------
(* The end of the process *)

\* stdin ends, and cancel_all_cancellable; over HTTP no connection is accepted any more.
Close ==
    /\ server = "open" /\ server' = "closing"
    /\ active' = IF transport = "http" THEN active
                 ELSE [id \in Ids |-> CancelRequest(active, id)[id]]
    /\ UNCHANGED <<transport, req, file, watch>>

\* serve_stdio waits for its tasks; serve_http for the connections, not for the workers
\* whose client is gone.
Exit ==
    /\ server = "closing"
    /\ \A r \in Requests : Running(r) \/ req[r].at = "removed" => transport = "http" /\ ~req[r].connected
    /\ server' = "exited"
    /\ req' = [r \in Requests |-> IF Running(r) THEN [req[r] EXCEPT !.at = "lost", !.dropped = @ \/ req[r].at = "effect"]
                                  ELSE req[r]]
    /\ UNCHANGED <<transport, active, file, watch>>

-----------------------------------------------------------------------------
(* The Run timeout *)

\* parse_orphan_run_timeout: without the file the default applies.
Parse(f, kept) == IF f = Invalid THEN kept ELSE f

Save(f) ==
    /\ f # file /\ file' = f
    /\ UNCHANGED <<transport, active, req, server, watch>>

\* The watcher begins with the bytes that the first timeout was resolved from.
NewWatch(resolved, now) == [observed |-> resolved, applied |-> Parse(resolved, Default), started |-> TRUE, fresh |-> FALSE]
StartWatch ==
    /\ ~watch.started
    /\ watch' = NewWatch(watch.observed, file)
    /\ UNCHANGED <<transport, active, req, server, file>>

\* One tick; a file that cannot be read is skipped.
Poll ==
    /\ watch.started /\ server # "exited"
    /\ watch' = [watch EXCEPT !.observed = file, !.fresh = TRUE,
                              !.applied = IF watch.observed = file THEN @ ELSE Parse(file, @)]
    /\ UNCHANGED <<transport, active, req, server, file>>

-----------------------------------------------------------------------------

Init ==
    /\ transport \in {"stdio", "http"}
    /\ active = [id \in Ids |-> None]
    /\ req = [r \in Requests |-> [id |-> None, kind |-> None, at |-> "unsent", answers |-> 0,
                                  connected |-> FALSE, guard |-> FALSE, dropped |-> FALSE]]
    /\ server = "open"
    /\ file \in Timeouts \cup {Default}
    /\ watch = [observed |-> file, applied |-> file, started |-> FALSE, fresh |-> FALSE]

Serve ==
    \/ \E r \in Requests :
        \/ \E id \in Ids, kind \in Kinds : Receive(r, id, kind)
        \/ TakeEffect(r) \/ OutcomeKnown(r) \/ Fails(r) \/ DropCancelled(r)
        \/ RemoveKey(r) \/ Answer(r) \/ DropGuard(r) \/ Disconnect(r)
    \/ \E id \in Ids : CancelNotification(id)
    \/ Close \/ Exit
Watch ==
    \/ \E f \in Timeouts \cup {Default, Invalid} : Save(f)
    \/ StartWatch \/ Poll

Next == Serve \/ Watch

Spec == Init /\ [][Next]_vars

-----------------------------------------------------------------------------
(* Properties *)

TypeOK ==
    /\ server \in {"open", "closing", "exited"}
    /\ \A id \in Ids : active[id] # None => active[id].r \in Requests /\ active[id].cancel \in {"none", "armed", "sent"}
    /\ \A r \in Requests : req[r].at \in {"unsent", "running", "effect", "known", "removed", "ended", "lost"}

\* An action whose effect on the device may have happened is not dropped before its
\* outcome is known, whatever is cancelled, closed or disconnected; only the end of the
\* HTTP server drops one, and only if its client has gone before.
PhysicalConverges ==
    \A r \in Requests : req[r].dropped => req[r].at = "lost" /\ transport = "http" /\ ~req[r].connected

\* Over stdin every request is answered once, and all of them before the process exits;
\* and the map names for each id the one request that runs under it.
AnsweredOnce ==
    /\ transport = "stdio" /\ server = "exited" => \A r \in Requests : req[r].at \in {"unsent", "ended"}
    /\ \A r \in Requests : req[r].at = "ended" /\ transport = "stdio" => req[r].answers = 1
    /\ server # "exited" => \A id \in Ids :
        {r \in Requests : Running(r) /\ req[r].id = id} = IF active[id] = None THEN {} ELSE {active[id].r}

\* Once it has polled, the watcher has applied the timeout of the file it saw, or, for a
\* file that is refused, the one before; a file saved while it started is not missed.
TimeoutFollowsFile ==
    watch.fresh /\ watch.observed # Invalid => watch.applied = watch.observed
=============================================================================
