------------------------------ MODULE MCAgent -------------------------------
(***************************************************************************)
(* The instance of serial-mcp that TLC checks.  In each behaviour one part   *)
(* of it runs, the one that `part` names; the others are off, and the session *)
(* keeps its initial state: the module extends AgentSession, so that its      *)
(* assumptions are evaluated and RunsAccounted stands as it is.              *)
(***************************************************************************)
EXTENDS AgentSession, TLC

CONSTANT portB

VARIABLES
    part,                                                   \* the part that runs
    tools, call, slot, seen,                                \* AgentTools
    cap, log, probe,                                        \* AgentCapture
    job, result,                                            \* AgentRender
    transport, active, req, server, file, watch             \* McpServer

\* The session is run on one port over two connections, and on two ports over one.
OnePort == \A i \in DOMAIN queue : queue[i].port # portB
OneConnection == daemon.made <= 1 /\ caller.calls < MaxCalls /\ \A p \in Ports : daemon.runs[p] <= 1

\* Reads beside a command, beside a sequence of two, and beside the other physical actions.
Reading == INSTANCE AgentTools WITH
    Calls <- Callers, Offered <- {"start", "tail", "wait", "command"},
    Ring <- 2, Page <- 1, MaxHead <- 4, MaxCalls <- 3, MaxRuns <- 1
Acting == INSTANCE AgentTools WITH
    Calls <- Callers, Offered <- {"start", "continue", "sequence"},
    Ring <- 2, Page <- 2, MaxHead <- 4, MaxCalls <- 3, MaxRuns <- 1
Ending == INSTANCE AgentTools WITH
    Calls <- Callers, Offered <- {"start", "tail", "signal", "macro", "end"},
    Ring <- 2, Page <- 2, MaxHead <- 3, MaxCalls <- 3, MaxRuns <- 1

UpTo(S, n) == UNION {[1..k -> S] : k \in 0..n}
Asking(expect, regex, prompt) == [expect |-> expect, regex |-> regex, prompt |-> prompt]
MCAsked == {Asking(None, None, None), Asking(None, None, <<"#">>), Asking(<<"a">>, None, <<"#">>), Asking(None, <<"#">>, <<"#">>)}
MCChunks ==
    {<<"a">>, <<"#">>, <<"n">>, <<"a", "#">>, <<"r", "n">>, <<"#", "a">>, <<"a", "#", "a">>,
     <<"a", "#", "a", "r">>, <<"r", "r", "n">>, <<"a", "r", "n", "#">>}
Capture == INSTANCE AgentCapture WITH
    Echo <- <<"a", "#", "a", "r">>, Chunks <- MCChunks, Early <- {<<"#">>}, Asked <- MCAsked,
    Words <- UpTo({"a", "b"}, 4), Texts <- UpTo({"a", "r", "n", "bs", "esc", "[", "m"}, 4),
    Column <- 2, Short <- 2, Edits <- <<4, 16>>, Kept <- 3, Rolling <- 5, MaxSeq <- 3

Line(stamp, body, complete) == [stamp |-> stamp, body |-> body, complete |-> complete]
Whole == {Line(stamp, body, TRUE) : stamp \in {None, 1, 2}, body \in {"x", "y"}}
MCPages == UpTo(Whole, 3) \cup {Append(page, Line(None, body, FALSE)) : page \in UpTo(Whole, 2), body \in {"x", "y"}}
Render == INSTANCE AgentRender WITH
    Pages <- MCPages, Stretches <- UpTo({"x", "!", "n"}, 5) \cup [1..9 -> {"!", "n"}], Command <- <<"x", "!">>,
    Limits <- {0, 3, 8}, MarkerBudget <- 4

Server == INSTANCE McpServer WITH Requests <- Callers, Ids <- {1, 2}, Timeouts <- {1}, Default <- 0, Invalid <- 2

toolbox == <<tools, call, slot, seen>>
capture == <<cap, log, probe>>
render == <<job, result>>
process == <<transport, active, req, server, file, watch>>
agentVars == <<part, vars, toolbox, capture, render, process>>

ToolsOff == tools = None /\ call = None /\ slot = None /\ seen = None
CaptureOff == cap = None /\ log = None /\ probe = None
RenderOff == job = None /\ result = None
ServerOff ==
    transport = None /\ active = None /\ req = None /\ server = None /\ file = None /\ watch = None

AgentInit ==
    /\ part \in {"session", "sessions", "reading", "acting", "ending", "capture", "render", "server", "watch"}
    /\ Init
    /\ CASE part = "reading" -> Reading!Init
         [] part = "acting" -> Acting!Init
         [] part = "ending" -> Ending!Init
         [] OTHER -> ToolsOff
    /\ IF part = "capture" THEN Capture!Init ELSE CaptureOff
    /\ IF part = "render" THEN Render!Init ELSE RenderOff
    /\ IF part \in {"server", "watch"} THEN Server!Init ELSE ServerOff

AgentNext ==
    \/ part = "session" /\ Next /\ OnePort' /\ UNCHANGED <<part, toolbox, capture, render, process>>
    \/ part = "sessions" /\ Next /\ OneConnection' /\ UNCHANGED <<part, toolbox, capture, render, process>>
    \/ part = "reading" /\ Reading!Next /\ UNCHANGED <<part, vars, capture, render, process>>
    \/ part = "acting" /\ Acting!Next /\ UNCHANGED <<part, vars, capture, render, process>>
    \/ part = "ending" /\ Ending!Next /\ UNCHANGED <<part, vars, capture, render, process>>
    \/ part = "capture" /\ Capture!Next /\ UNCHANGED <<part, vars, toolbox, render, process>>
    \/ part = "render" /\ Render!Next /\ UNCHANGED <<part, vars, toolbox, capture, process>>
    \/ part = "server" /\ Server!Serve /\ UNCHANGED <<part, vars, toolbox, capture, render>>
    \/ part = "watch" /\ Server!Watch /\ UNCHANGED <<part, vars, toolbox, capture, render>>

AgentSpec == AgentInit /\ [][AgentNext]_agentVars

Symmetry == Permutations(Callers)

-----------------------------------------------------------------------------
(* The properties of serial-mcp *)

\* Every part's variables have their types.
TypesOK ==
    CASE part \in {"session", "sessions"} -> TypeOK
      [] part = "reading" -> Reading!TypeOK
      [] part = "acting" -> Acting!TypeOK
      [] part = "ending" -> Ending!TypeOK
      [] part = "capture" -> Capture!TypeOK
      [] part = "render" -> TRUE
      [] part \in {"server", "watch"} -> Server!TypeOK

\* RunsAccounted is that of AgentSession, whose variables keep their initial values in
\* the behaviours of the other parts.

\* The Agent acts on a port only when a read has returned the latest command of a Human in
\* its Run, or is about to, or was cancelled by the Agent itself, and when it was told of
\* what else happened there; nobody sends between two steps of a
\* sequence; and the lock of the port is given back whichever way a call ends (tools.rs).
ContextRead ==
    /\ part = "reading" => Reading!HumanRead /\ Reading!NothingUntold /\ Reading!LockHeld
    /\ part = "acting" =>
        Acting!HumanRead /\ Acting!NothingUntold /\ Acting!SequenceUnbroken /\ Acting!LockHeld
    /\ part = "ending" => Ending!HumanRead /\ Ending!NothingUntold /\ Ending!LockHeld

\* What the device sent after a command is returned but for its echo, the echo completes
\* no capture, a write of somebody else is reported, high confidence is earned; and what
\* the text leaves out is counted in it, unless no match is visible (capture.rs, render.rs).
EvidenceExact ==
    /\ part = "capture" =>
        /\ Capture!OutputLossless /\ Capture!EchoIsNoEvidence /\ Capture!InterferenceTold
        /\ Capture!HighIsExact /\ Capture!FunctionsExact
    /\ part = "render" => Render!LinesAccounted /\ Render!CutTold /\ Render!EchoRemovedExactly

\* A call whose effect may have happened is not dropped before its outcome is known,
\* every request over stdin is answered once, and the Run timeout follows the config
\* file (mcp.rs and config.rs).
CallsConverge ==
    /\ part = "server" => Server!PhysicalConverges /\ Server!AnsweredOnce
    /\ part = "watch" => Server!TimeoutFollowsFile

=============================================================================
