----------------------------- MODULE MCClients ------------------------------
(***************************************************************************)
(* The instance of the clients, and of the daemon's services that only they  *)
(* use, that TLC checks.  In each behaviour one part runs, the one that      *)
(* `client` names.                                                          *)
(***************************************************************************)
EXTENDS Naturals, Sequences, FiniteSets, TLC

CONSTANTS None, i1, i2

\* The variables of the part that runs; those that it has no use for are None.  Which is
\* which stands in the part's INSTANCE.
VARIABLES client, v1, v2, v3, v4, v5, v6, v7, v8, v9, v10, v11, v12, v13, v14, v15, v16, v17,
    v18, v19, v20

\* Two journals of a port, the second with a lost session, to search.
Kept(dir, data, breaks) == [dir |-> dir, data |-> data, breaks |-> breaks]
JournalTexts == {
    <<Kept("rx", <<"a">>, FALSE), Kept("tx", <<"a", "b">>, FALSE), Kept("rx", <<"b">>, FALSE),
      Kept("rx", <<"a">>, FALSE)>>,
    <<Kept("rx", <<"a">>, FALSE), Kept("none", <<>>, TRUE), Kept("rx", <<"b">>, FALSE),
      Kept("rx", <<"a", "b">>, FALSE)>>}

\* What a port may record of a Run: the writes of its commands, of which some look for a
\* prompt, and what a Monitor finds in what the device sends.  A prompt between two
\* writes; a second command, that looks for no prompt, beside an incident; incidents by
\* themselves, one of them across a write; a line that breaks; and a step whose output the
\* daemon has captured, with and without somebody else's write in between.
Sent(command, step) == [kind |-> "tx", cmd |-> command, step |-> step, match |-> TRUE]
Blind(command) == [Sent(command, 1) EXCEPT !.match = FALSE]
Kind(kind) == [kind |-> kind]
Captured(command, step, from, through) ==
    [kind |-> "capture", cmd |-> command, step |-> step, from |-> from, through |-> through]
Course(happened, found) == [events |-> happened, incidents |-> found]
Incident(first, last) == [first |-> first, last |-> last]
EvidenceLogs == {Course(<<Sent(1, 1), Kind("prompt"), Sent(1, 2)>>, <<>>)}
MoreEvidenceLogs == {
    Course(<<Sent(1, 1), Kind("prompt"), Sent(1, 2), Kind("prompt")>>, <<>>),
    Course(<<Kind("text"), Kind("human"), Kind("text")>>, <<Incident(1, 1), Incident(1, 3)>>),
    Course(<<Kind("text"), Kind("text"), Kind("text")>>, <<Incident(1, 3)>>),
    Course(<<Sent(1, 1), Kind("prompt"), Blind(2)>>, <<Incident(2, 2)>>),
    Course(<<Sent(1, 1), Kind("human"), Kind("prompt")>>, <<>>),
    Course(<<Sent(1, 1), Kind("text"), Kind("break"), Kind("prompt")>>, <<>>),
    Course(<<Sent(1, 1), Kind("prompt"), Kind("text"), Captured(1, 1, 2, 3)>>, <<>>),
    Course(<<Sent(1, 1), Kind("human"), Kind("text"), Captured(1, 1, 3, 3)>>, <<>>)}

\* Sessions to search: cut, with a note, a new epoch and a gap in the middle.
Read(data) == [op |-> "rx", data |-> data]
SearchCourses == {
    <<Read(<<"a">>), Read(<<"b", "a">>), Read(<<"b">>)>>,
    <<Read(<<"b", "a">>), [op |-> "note", data |-> <<"a">>], Read(<<"b", "LF">>)>>,
    <<Read(<<"a">>), [op |-> "epoch"], Read(<<"b">>)>>,
    <<Read(<<"a">>), [op |-> "gap"], Read(<<"b">>)>>}

\* Two Macros: one that is shared and asks for a number, and a draft that asks nothing.
Typing(integer) == [integer |-> integer, boolean |-> None, small |-> TRUE]
One == Typing(1)
Nine == Typing(9)
Nothing == Typing(None)
Number == [type |-> "integer", default |-> None, min |-> 1, max |-> 5]
MacroBodies == [script : {"s1", "s2", "bad"}, shared : BOOLEAN, params : {<<Number>>, <<>>}]
Asking == [script |-> "s1", shared |-> TRUE, params |-> <<Number>>]
Plain == [script |-> "s2", shared |-> FALSE, params |-> <<>>]
MacroFile == [id \in {"ma", "mb"} |->
    [id |-> id, revision |-> 1, body |-> IF id = "ma" THEN Asking ELSE Plain]]
Compiles(body) == body.script # "bad"
HowMany(macros) == Cardinality({id \in DOMAIN macros : macros[id] # None})
ArgumentsFit(body, args) ==
    /\ DOMAIN args = DOMAIN body.params
    /\ \A i \in DOMAIN args : args[i].integer # None /\ args[i].integer \in 1..5

\* What a device may send to the screen: text, controls, and sequences, whole and cut.
Signs ==
    {<<c>> : c \in {"x", "SP", "LF", "CR", "TAB", "u1", "ST", "CAN", "ESC", "@", "P", "X", "BS",
                    "C", "G", "K", "\\", "BEL"}} \cup
    {<<"ESC", "[">>, <<"ESC", "]">>, <<"ESC", "[", "2">>, <<"ESC", "[", "K">>,
     <<"ESC", "[", "2", "D">>, <<"ESC", "[", ";", "2", "H">>, <<"ESC", "[", "1", "K">>}

\* The console with a queue of two writes, with a queue behind a Trigger under two leases, and
\* with one on a port that is opened again; with one line that is sent, given back and sent
\* again beside questions for control, with two lines, with two leases over two connections,
\* and with a pasted line and a port that is opened again.
Writes == INSTANCE Console WITH
    app <- v1, out <- v2, events <- v3, link <- v4, conns <- v5, inbox <- v6, replies <- v7,
    timeline <- v8, slot <- v9, wire <- v10,
    Typed <- {}, Pasted <- {}, Chunks <- 2, Capacity <- 1, Backlog <- 1, MaxConns <- 1, MaxRequests <- 3,
    MaxFence <- 1, MaxGeneration <- 1
Behind == INSTANCE Console WITH
    app <- v1, out <- v2, events <- v3, link <- v4, conns <- v5, inbox <- v6, replies <- v7,
    timeline <- v8, slot <- v9, wire <- v10,
    Typed <- {}, Pasted <- {}, Chunks <- 2, Capacity <- 1, Backlog <- 1, MaxConns <- 1, MaxRequests <- 2,
    MaxFence <- 2, MaxGeneration <- 1
Rewrites == INSTANCE Console WITH
    app <- v1, out <- v2, events <- v3, link <- v4, conns <- v5, inbox <- v6, replies <- v7,
    timeline <- v8, slot <- v9, wire <- v10,
    Typed <- {}, Pasted <- {}, Chunks <- 2, Capacity <- 1, Backlog <- 1, MaxConns <- 1, MaxRequests <- 2,
    MaxFence <- 1, MaxGeneration <- 2
Resend == INSTANCE Console WITH
    app <- v1, out <- v2, events <- v3, link <- v4, conns <- v5, inbox <- v6, replies <- v7,
    timeline <- v8, slot <- v9, wire <- v10,
    Typed <- {i1}, Pasted <- {}, Chunks <- 1, Capacity <- 1, Backlog <- 1, MaxConns <- 1, MaxRequests <- 3,
    MaxFence <- 1, MaxGeneration <- 1
Pair == INSTANCE Console WITH
    app <- v1, out <- v2, events <- v3, link <- v4, conns <- v5, inbox <- v6, replies <- v7,
    timeline <- v8, slot <- v9, wire <- v10,
    Typed <- {i1, i2}, Pasted <- {}, Chunks <- 1, Capacity <- 1, Backlog <- 1, MaxConns <- 1, MaxRequests <- 2,
    MaxFence <- 1, MaxGeneration <- 1
Leases == INSTANCE Console WITH
    app <- v1, out <- v2, events <- v3, link <- v4, conns <- v5, inbox <- v6, replies <- v7,
    timeline <- v8, slot <- v9, wire <- v10,
    Typed <- {i1}, Pasted <- {}, Chunks <- 1, Capacity <- 1, Backlog <- 1, MaxConns <- 2, MaxRequests <- 2,
    MaxFence <- 2, MaxGeneration <- 1
Reopen == INSTANCE Console WITH
    app <- v1, out <- v2, events <- v3, link <- v4, conns <- v5, inbox <- v6, replies <- v7,
    timeline <- v8, slot <- v9, wire <- v10,
    Typed <- {}, Pasted <- {i1}, Chunks <- 1, Capacity <- 1, Backlog <- 1, MaxConns <- 1, MaxRequests <- 2,
    MaxFence <- 1, MaxGeneration <- 2
Query == INSTANCE JournalQuery WITH
    text <- v1, files <- v2, epoch <- v3, head <- v4, ledger <- v5, owed <- v6, q <- v7,
    reader <- v8, faults <- v9, calm <- v10,
    MaxEpoch <- 2, MaxFaults <- 1,
    MaxSeq <- 3, FileEvents <- 2, PageEvents <- 1, Budget <- 4, ClientPages <- 4, Newest <-
    2, Texts <- JournalTexts, Needle <- <<"a", "b">>
Lines == INSTANCE LineHistory WITH
    store <- v1, tx <- v2, sent <- v3, io <- v4, reply <- v5, refresh <- v6, line <- v7,
    ops <- v8, faults <- v9, known <- v10,
    Chars <- {"a"}, MaxDraft <- 2, Commands <- {<<"b">>}, Stored <-
    <<"a", "b">>, MaxEntries <- 2, MaxSeen <- 2, PageEntries <- 1, MaxPages <- 2, MaxOps <-
    2, MaxFaults <- 2
\* The index, with a Run of one command; and the panel's commands, of two writes, over an index
\* that is whole.
Runs == INSTANCE RunHistory WITH
    log <- v1, written <- v2, index <- v3, scan <- v4, warning <- v5, hidden <- v6,
    jobs <- v7, used <- v8, replies <- v9, seen <- v10, lost <- v11, panel <- v12,
    gone <- v13, faults <- v14,
    Old <- "old", Order <- <<"r1">>,
    OtherIds <- {"all"}, PanelRuns <- 1, PerRun <- 2, MaxTx <- 1, MaxLag <- 1,
    MaxReplies <- 1, MaxJobs <- 2, MaxFaults <- 1
Commands == INSTANCE RunHistory WITH
    log <- v1, written <- v2, index <- v3, scan <- v4, warning <- v5, hidden <- v6,
    jobs <- v7, used <- v8, replies <- v9, seen <- v10, lost <- v11, panel <- v12,
    gone <- v13, faults <- v14,
    Old <- "old", Order <- <<"r1">>,
    OtherIds <- {"all"}, PanelRuns <- 1, PerRun <- 2, MaxTx <- 2, MaxLag <- 1,
    MaxReplies <- 1, MaxJobs <- 2, MaxFaults <- 1
IndexWhole == v4 = None /\ v5 = FALSE
Evidence == INSTANCE RunEvidence WITH
    log <- v1, head <- v2, written <- v3, holes <- v4, view <- v5, requests <- v6,
    active <- v7, answers <- v8, queries <- v9, faults <- v10,
    Logs <- EvidenceLogs,
    PageEvents <- 2, Retained <- 3, Queue <- 1, Answers <- 1, MaxQueries <- 2, MaxLag <- 1,
    MaxFaults <- 1
MoreEvidence == INSTANCE RunEvidence WITH
    log <- v1, head <- v2, written <- v3, holes <- v4, view <- v5, requests <- v6,
    active <- v7, answers <- v8, queries <- v9, faults <- v10,
    Logs <- MoreEvidenceLogs,
    PageEvents <- 2, Retained <- 3, Queue <- 1, Answers <- 1, MaxQueries <- 1, MaxLag <- 1,
    MaxFaults <- 1
Search == INSTANCE SessionSearch WITH
    course <- v1, fed <- v2, parser <- v3, arch <- v4, queue <- v5, qs <- v6, search <- v7,
    view <- v8, reqs <- v9, io <- v10, replies <- v11, made <- v12, faults <- v13,
    Courses <- SearchCourses, Needles <- {<<"a", "b">>}, RowLen <- 2, QueueLen <- 2, Flush
    <- 1, Carry <- 2, Around <- 1, MaxActive <- 1, MaxQueries <- 2, MaxRequests <- 2,
    MaxFaults <- 1
Macros == INSTANCE MacroPanel WITH
    memory <- v1, file <- v2, seen <- v3, panel <- v4, opens <- v5, contexts <- v6,
    commands <- v7, replies <- v8, app <- v9, up <- v10, inbox <- v11, outbox <- v12,
    control <- v13, leases <- v14, waiting <- v15, job <- v16, pressed <- v17,
    started <- v18, keys <- v19, faults <- v20,
    Ids <- {"ma", "mb"}, Bodies <- MacroBodies, Valid <-
    Compiles, Typed <- ArgumentsFit, Size <- HowMany, MaxMacros <- 2, MaxRevision <- 3,
    Rank <- [id \in {"ma", "mb"} |-> IF id = "ma" THEN 1 ELSE 2], Texts <- {One, Nine},
    Scripts <- {"s2"}, Metas <- {None}, NewBody <- Asking, NewId <- "ma",
    Starts <- {MacroFile}, Others <- {Plain}, Blank <- Nothing, Thirty <- One,
    MaxTimeout <- 5, Capacity <- 1, Link <- 2, MaxKeys <- 6, MaxLeases <- 2, MaxFaults <- 1
\* What the proofs about the panel assume of the constants.
ASSUME MacroConstants == Macros!PanelAssumption

Screen == INSTANCE TerminalText WITH
    mode <- v1, parser <- v2, plain <- v3, device <- v4, count <- v5,
    Typed <- {<<"x">>, <<"CR">>, <<"DEL">>, <<"y", "x">>}, Output <-
    [echo |-> {<<"x">>, <<"LF">>}, text |-> Signs], RowLen <- 2, TabStop <- 2, MaxParameters
    <- 2, MaxString <- 2, MaxIntermediate <- 2, MaxEcho <- 4, MaxSegments <- 2, MaxRx <-
    [echo |-> 4, text |-> 3], MaxTx <- 2, MaxGeneration <- 2

rest15 == <<v15, v16, v17, v18, v19, v20>>
rest14 == <<v14, rest15>>
rest11 == <<v11, v12, v13, rest14>>
rest6 == <<v6, v7, v8, v9, v10, rest11>>
vars == <<client, v1, v2, v3, v4, v5, rest6>>

None15 == v15 = None /\ v16 = None /\ v17 = None /\ v18 = None /\ v19 = None /\ v20 = None
None14 == v14 = None /\ None15
None11 == v11 = None /\ v12 = None /\ v13 = None /\ None14
None6 == v6 = None /\ v7 = None /\ v8 = None /\ v9 = None /\ v10 = None /\ None11

Init ==
    \/ client = "writes" /\ Writes!Init /\ None11
    \/ client = "behind" /\ Behind!Init /\ None11
    \/ client = "rewrites" /\ Rewrites!Init /\ None11
    \/ client = "resend" /\ Resend!Init /\ None11
    \/ client = "pair" /\ Pair!Init /\ None11
    \/ client = "leases" /\ Leases!Init /\ None11
    \/ client = "reopen" /\ Reopen!Init /\ None11
    \/ client = "query" /\ Query!Init /\ None11
    \/ client = "lines" /\ Lines!Init /\ None11
    \/ client = "runs" /\ Runs!Init /\ None15
    \/ client = "commands" /\ Commands!Init /\ None15
    \/ client = "evidence" /\ Evidence!Init /\ None11
    \/ client = "more evidence" /\ MoreEvidence!Init /\ None11
    \/ client = "search" /\ Search!Init /\ None14
    \/ client = "macros" /\ Macros!Init
    \/ client = "screen" /\ Screen!Init /\ None6

Next ==
    /\ \/ client = "writes" /\ Writes!Next /\ UNCHANGED rest11
       \/ client = "behind" /\ Behind!Next /\ UNCHANGED rest11
       \/ client = "rewrites" /\ Rewrites!Next /\ UNCHANGED rest11
       \/ client = "resend" /\ Resend!Next /\ UNCHANGED rest11
       \/ client = "pair" /\ Pair!Next /\ UNCHANGED rest11
       \/ client = "leases" /\ Leases!Next /\ UNCHANGED rest11
       \/ client = "reopen" /\ Reopen!Next /\ UNCHANGED rest11
       \/ client = "query" /\ Query!Next /\ UNCHANGED rest11
       \/ client = "lines" /\ Lines!Next /\ UNCHANGED rest11
       \/ client = "runs" /\ Runs!Next /\ UNCHANGED rest15
       \/ client = "commands" /\ Commands!Next /\ IndexWhole' /\ UNCHANGED rest15
       \/ client = "evidence" /\ Evidence!Next /\ UNCHANGED rest11
       \/ client = "more evidence" /\ MoreEvidence!Next /\ UNCHANGED rest11
       \/ client = "search" /\ Search!Next /\ UNCHANGED rest14
       \/ client = "macros" /\ Macros!Next
       \/ client = "screen" /\ Screen!Next /\ UNCHANGED rest6
    /\ UNCHANGED client

Spec == Init /\ [][Next]_vars

-----------------------------------------------------------------------------
(* The properties of the clients *)

\* Every part's variables have their types.
TypesOK ==
    CASE client = "writes" -> Writes!TypeOK
      [] client = "behind" -> Behind!TypeOK
      [] client = "rewrites" -> Rewrites!TypeOK
      [] client = "resend" -> Resend!TypeOK
      [] client = "leases" -> Leases!TypeOK
      [] client = "pair" -> Pair!TypeOK
      [] client = "reopen" -> Reopen!TypeOK
      [] client = "query" -> Query!TypeOK
      [] client = "lines" -> Lines!TypeOK
      [] client = "runs" -> Runs!TypeOK
      [] client = "commands" -> Commands!TypeOK
      [] client = "evidence" -> Evidence!TypeOK
      [] client = "more evidence" -> MoreEvidence!TypeOK
      [] client = "search" -> Search!TypeOK
      [] client = "macros" -> Macros!TypeOK
      [] client = "screen" -> Screen!TypeOK

\* What is in the editor was not sent, what was typed is written once, and nothing
\* typed on one connection goes out on a later one (tui.rs and ws.rs); the history offers
\* the lines that were confirmed and what is recalled is what is shown (LineHistory); and
\* what a press of Ctrl-R runs is what the panel showed, once (MacroPanel).
InputSafe ==
    /\ client = "writes" => Writes!WrittenOnce /\ Writes!NothingStale
    /\ client = "behind" => Behind!WrittenOnce /\ Behind!NothingStale
    /\ client = "rewrites" => Rewrites!WrittenOnce /\ Rewrites!NothingStale
    /\ client = "resend" => Resend!InEditorIsUnsent /\ Resend!WrittenOnce /\ Resend!NothingStale
    /\ client = "leases" => Leases!InEditorIsUnsent /\ Leases!WrittenOnce /\ Leases!NothingStale
    /\ client = "pair" => Pair!InEditorIsUnsent /\ Pair!WrittenOnce /\ Pair!NothingStale
    /\ client = "reopen" => Reopen!InEditorIsUnsent /\ Reopen!WrittenOnce /\ Reopen!NothingStale
    /\ client = "lines" => Lines!ConfirmedOffered /\ Lines!PointsAtShown
    /\ client = "macros" => Macros!RunsAsShown /\ Macros!RevisionNamesOne

\* Of everything that the device got, the console has said that it was sent, or that
\* this is uncertain, or it still waits to hear of it, or it said that the session of
\* the port changed; and when it knows that it controls the port, its queue of writes
\* moves or waits for a Trigger that ends (flush_pending_writes, maintain_controls in tui.rs).  A panel that waits has
\* something to wait for (MacroPanel).
OutcomeTold ==
    /\ client = "writes" => Writes!OutcomeTold /\ Writes!QueueMoves
    /\ client = "behind" => Behind!OutcomeTold /\ Behind!QueueMoves
    /\ client = "rewrites" => Rewrites!OutcomeTold /\ Rewrites!QueueMoves
    /\ client = "resend" => Resend!OutcomeTold
    /\ client = "leases" => Leases!OutcomeTold
    /\ client = "pair" => Pair!OutcomeTold
    /\ client = "reopen" => Reopen!OutcomeTold
    /\ client = "macros" => Macros!BusyEnds

\* What the client is told of the past is so: pages of the journal account for every
\* event up to where they say (JournalQuery), each line is counted once and a snapshot is
\* whole (LineHistory), the list of Runs follows the log and a cleared Run stays gone
\* (RunHistory), evidence that is called exact is (RunEvidence), matches are in the
\* session and complete when said to be (SessionSearch), and what the device sent is on
\* the screen, once (TerminalText).
HistoryTold ==
    /\ client = "query" => /\ Query!PageAccounts /\ Query!SearchComplete /\ Query!HistoryComplete
                           /\ Query!ExactSound /\ Query!StartupSound
    /\ client = "lines" => Lines!CountedOnce /\ Lines!SnapshotWhole
    /\ client = "runs" => /\ Runs!IndexTruthful /\ Runs!RunningKept /\ Runs!ClearedStaysGone
                          /\ Runs!StatusTrue /\ Runs!CommandsWhole
    /\ client = "commands" => /\ Commands!RunningKept /\ Commands!ClearedStaysGone
                              /\ Commands!StatusTrue /\ Commands!CommandsWhole
    /\ client = "evidence" => /\ Evidence!EvidenceTrue /\ Evidence!PendingAnswered
                              /\ Evidence!SelectionSound
    /\ client = "more evidence" => /\ MoreEvidence!EvidenceTrue /\ MoreEvidence!PendingAnswered
                                   /\ MoreEvidence!SelectionSound
    /\ client = "search" => /\ Search!MatchesExact /\ Search!CompleteMeansAll /\ Search!ShownIsMatch
    /\ client = "screen" => Screen!NothingHidden /\ Screen!EchoOnce /\ Screen!TextResumes

=============================================================================
