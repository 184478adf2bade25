------------------------------ MODULE MCDaemon ------------------------------
(***************************************************************************)
(* The instance of the daemon's request handling, of the Monitors' store and *)
(* matcher and of the driver of a Macro that TLC checks.  In each behaviour  *)
(* one service runs, the one that `service` names; the others stay in their  *)
(* initial states.  The module extends those of the requests and of the      *)
(* store, so that their assumptions are evaluated and their properties stand *)
(* as they are.                                                            *)
(***************************************************************************)
EXTENDS Requests, MonitorStore, TLC

VARIABLES
    service,                                                                    \* the one that runs
    wire, owes, answers, watchers, projection, filter, check, doing, status, written, tokens,
    effects,                                                                    \* MacroDriver
    spec, matcher, naive, report, stream                                        \* MonitorMatcher

\* What the device may send: the text of a command with a style in it, a prompt, a line's
\* end, a title with a bell, and a byte that is no text.
Character(b, isText) == [b |-> b, text |-> isText, echo |-> FALSE]
Sent(bs, isText) == [i \in DOMAIN bs |-> Character(bs[i], isText)]
DeviceTokens == {
    Sent(<<"c">>, TRUE) \o Sent(<<"E", "[", "m">>, FALSE) \o Sent(<<"d">>, TRUE),
    Sent(<<"$">>, TRUE), <<Character("r", TRUE), Character("n", FALSE)>>,
    Sent(<<"E", "]", "c", "d", "g">>, FALSE), Sent(<<"B">>, FALSE)}

Driver == INSTANCE MacroDriver WITH
    EchoOn <- TRUE, Line <- <<"c", "d">>, Patterns <- {<<"c", "d">>, <<"$">>},
    Tokens <- DeviceTokens, MaxTokens <- 2, MaxWire <- 6, MaxEffects <- 3

\* Literals and expressions over two bytes: bounded and unbounded, with and without a
\* beginning or a text that every match has, and one that may match nothing.
Bytes(S, n) == UNION {[1..k -> S] : k \in 1..n}
Text(t) == [op |-> "literal", text |-> t]
AnyByte == [op |-> "class", set |-> {"a", "b"}]
Repeat(h, least, most) == [op |-> "repeat", sub |-> h, min |-> least, max |-> most]
Concat(parts) == [op |-> "concat", parts |-> parts]
Either(parts) == [op |-> "alternation", parts |-> parts]
Literal(t) == [literal |-> TRUE, hir |-> Text(t)]
Regex(h) == [literal |-> FALSE, hir |-> h]
A == Text(<<"a">>)
B == Text(<<"b">>)
AB == Text(<<"a", "b">>)
MatchSpecs == {
    <<Literal(<<"a", "a">>), Regex(Concat(<<A, Repeat(AnyByte, 0, None), B>>))>>,
    <<Regex(Concat(<<Repeat(B, 1, None), A>>)), Literal(<<"a", "b", "a">>)>>,
    <<Regex(Concat(<<Repeat(AnyByte, 1, None), AB>>))>>,
    <<Regex(Either(<<AB, Concat(<<A, Repeat(B, 2, 2)>>)>>)), Regex(Repeat(AB, 1, 2))>>,
    <<Regex(Repeat(A, 0, 1))>>,
    <<Regex(Concat(<<Repeat(A, 2, 3), Repeat(B, 0, 1)>>))>>,
    <<Regex(Concat(<<Repeat(Either(<<AB, B>>), 2, None), A>>))>>}

Matcher == INSTANCE MonitorMatcher WITH
    m <- matcher, Specs <- MatchSpecs, Pieces <- Bytes({"a", "b"}, 2),
    Samples <- Bytes({"a", "b"}, 5), Window <- 4, MaxPattern <- 4, MaxEvents <- 3

driving == <<wire, owes, answers, watchers, projection, filter, check, doing, status, written, tokens,
    effects>>
matching == <<spec, matcher, naive, report, stream>>
daemonVars == <<service, vars, storeVars, driving, matching>>

\* The matcher is at rest in the behaviours of the other services.
MatcherOff == spec = None /\ matcher = None /\ naive = None /\ report = None /\ stream = None

DaemonInit ==
    /\ service \in {"requests", "store", "driver", "matcher"}
    /\ Init /\ StoreInit /\ Driver!Init
    /\ IF service = "matcher" THEN Matcher!Init ELSE MatcherOff

DaemonNext ==
    \/ service = "requests" /\ Next /\ UNCHANGED <<service, storeVars, driving, matching>>
    \/ service = "store" /\ StoreNext /\ UNCHANGED <<service, vars, driving, matching>>
    \/ service = "driver" /\ Driver!Next /\ UNCHANGED <<service, vars, storeVars, matching>>
    \/ service = "matcher" /\ Matcher!Next /\ UNCHANGED <<service, vars, storeVars, driving>>

DaemonSpec == DaemonInit /\ [][DaemonNext]_daemonVars

Symmetry == Permutations(Ids) \cup Permutations(Bodies)

-----------------------------------------------------------------------------
(* The properties of the services *)

\* TypeOK, WrittenOnce and AnswersTruthful are those of Requests, and StoreSound is that of
\* MonitorStore; the variables of each keep their initial values in the behaviours of the
\* other services.

\* What a watcher reports as matched is what the device sent after the watcher's boundary,
\* however it was cut and whatever became of the echoes, and not the echo of a command that
\* the device answers in order (macro_runtime.rs); and what a
\* Monitor reports is each match that its window holds, once, with the events that hold
\* it, however the stream was cut (StreamMatcher in monitor.rs).
EvidenceIsOutput ==
    /\ service = "driver" => Driver!TypeOK /\ Driver!EvidenceIsOutput
    /\ service = "matcher" =>
           Matcher!TypeOK /\ Matcher!MatchesFound /\ Matcher!EventsNamed /\ Matcher!AnalysisSound

=============================================================================
