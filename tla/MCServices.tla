----------------------------- MODULE MCServices -----------------------------
(***************************************************************************)
(* The instance of the timeline, of a Monitor's worker and of the macro      *)
(* language that TLC checks.  In each behaviour one service runs, the one   *)
(* that `service` names; the others stay in their initial states.  The module *)
(* extends that of the timeline, so that its assumptions are evaluated and   *)
(* its properties stand as they are.                                        *)
(***************************************************************************)
EXTENDS Timeline, Integers, TLC

CONSTANT Operations

VARIABLES
    service,                                                                    \* the one that runs
    run, events, past, state, file, lock, map, worker, spawn, op, expired, stopping,
    suppressed, lost, early, activity, faults,                                  \* MonitorWorker
    script, tree, program, vm, slice, issued, answers, stage           \* MacroVm

Worker == INSTANCE MonitorWorker WITH
    epoch <- run, disk <- file, Debounce <- TRUE, MaxSeq <- 2, MaxActivity <- 2, RingEvents <- 1,
    Broadcast <- 1, MaxWorkers <- 3, MaxFaults <- 1

Written == INSTANCE MacroScripts WITH MaxNesting <- 8
AllScripts == Written!MCScripts
Macro == INSTANCE MacroVm WITH
    Scripts <- AllScripts, Parameters <- Written!MCParameters, Arguments1 <- Written!MCArguments,
    MaxNesting <- 8, MaxVariables <- 3, MaxString <- 3, MaxDuration <- 2, MaxInt <- 3,
    MaxWatchers <- 2, MaxBytes <- 4, MaxInstructions <- 24, PerYield <- 2

supervision == <<run, events, past, state, file, lock, map, worker, spawn, op, expired, stopping,
    suppressed, lost, early, activity, faults>>
machine == <<script, tree, program, vm, slice, issued, answers, stage>>
servicesVars == <<service, vars, supervision, machine>>

\* No script is read.
NoScript ==
    /\ script = None /\ tree = None /\ program = None /\ vm = None /\ slice = 0
    /\ issued = <<>> /\ answers = <<>> /\ stage = "source"

ServicesInit ==
    /\ service \in {"timeline", "worker", "macro"}
    /\ Init /\ Worker!Init
    /\ IF service = "macro" THEN Macro!Init ELSE NoScript

ServicesNext ==
    \/ service = "timeline" /\ Next /\ UNCHANGED <<service, supervision, machine>>
    \/ service = "worker" /\ Worker!Next /\ UNCHANGED <<service, vars, machine>>
    \/ service = "macro" /\ Macro!Next /\ UNCHANGED <<service, vars, supervision>>

ServicesSpec == ServicesInit /\ [][ServicesNext]_servicesVars

Symmetry == Permutations(Operations)

-----------------------------------------------------------------------------
(* The properties of the services *)

\* TypeOK, JournalHealth and StreamComplete are those of Timeline, whose variables keep
\* their initial values in the behaviours of the other services.

\* Wherever the daemon or the worker stops, a match that the checkpoint has passed is
\* in an incident, fell into a cooldown, or is covered by a gap that the Monitor shows
\* (run_monitor_worker and record_incident in monitor.rs).
EvidenceKept == service = "worker" => Worker!TypeOK /\ Worker!EvidenceKept

\* A match is reported once under one revision, unless a worker started from a
\* checkpoint that another task was about to write; and when every call has returned,
\* a running Monitor has one worker, of its revision, and a stopped one has none.
ReportedAndSupervised == service = "worker" => Worker!ReportedOnce /\ Worker!Supervised

\* A script is parsed into the tree it was written from, and its compiled program issues
\* the effects, in order, that the tree's evaluation prescribes, and ends alike
\* (syntax.rs, compiler.rs and vm.rs).
MacroFaithful == service = "macro" => Macro!TypeOK /\ Macro!ParsedAsWritten /\ Macro!RunsAsWritten

=============================================================================
