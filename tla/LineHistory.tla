---------------------------- MODULE LineHistory -----------------------------
(***************************************************************************)
(* The commands that people typed, kept by the daemon and offered by the    *)
(* console: seriald's human_history.rs (recording on the journal worker,    *)
(* paged queries), the console's task that fetches them (api.rs and         *)
(* spawn_human_history_io in tui.rs), and the line editor that walks,       *)
(* searches and completes from them while replies and confirmations come.   *)
(* A command is a sequence of characters.                                  *)
(***************************************************************************)
EXTENDS Naturals, Sequences, SequencesExt, FiniteSets

CONSTANTS
    None,
    Chars,          \* the characters that may be typed
    MaxDraft,       \* bound: how much is typed into a draft or a query
    Commands,       \* what another console sends
    Stored,         \* the command that the daemon's file holds at the start
    MaxEntries,     \* MAX_ENTRIES and HUMAN_HISTORY_MAX_ENTRIES
    MaxSeen,        \* MAX_SEEN
    PageEntries,    \* the entries of one page
    MaxPages,       \* the pages of one fetch
    MaxOps,         \* bound: the commands sent in a behaviour
    MaxFaults       \* bound: failures of the daemon's storage and of a request

VARIABLES
    store,          \* HumanHistory in the daemon: State of human_history.rs
    tx,             \* Human TX events that the journal worker has still to record
    sent,           \* the console's command that waits for its result
    io,             \* the console's fetching task
    reply,          \* its channel to the application, of one place
    refresh,        \* the application's channel to it, of one place
    line,           \* the console: history, confirmations and the line editor
    ops,            \* operation ids given out
    faults,
    known           \* the commands ever sent, and those that the console saw confirmed

vars == <<store, tx, sent, io, reply, refresh, line, ops, faults, known>>

Min2(a, b) == IF a < b THEN a ELSE b

\* `q` occurs in `s` (str::contains).
Within(q, s) == \E i \in 0..Len(s) : Len(s) - i >= Len(q) /\ SubSeq(s, i + 1, i + Len(q)) = q

Positions(s, P(_)) == {i \in DOMAIN s : P(s[i])}

LastOf(S) == IF S = {} THEN None ELSE CHOOSE i \in S : \A j \in S : j <= i

Init ==
    /\ store = [entries |-> <<[cmd |-> Stored, rev |-> 1, uses |-> 1, by |-> {1}]>>,
                seen |-> <<1>>, rev |-> 1, truncated |-> FALSE, warning |-> FALSE]
    /\ tx = <<>> /\ sent = None
    /\ io = [at |-> "idle", sentRev |-> None] /\ reply = None /\ refresh = FALSE
    /\ line = [history |-> <<>>, confirmed |-> <<>>, version |-> None, gen |-> 0,
               draft |-> <<>>, browse |-> None, search |-> None, completion |-> None]
    /\ ops = 1 /\ faults = 0 /\ known = [sent |-> {Stored}, told |-> {}]

-----------------------------------------------------------------------------
(* The daemon *)

\* record after its early returns: the entry of the command moves to the end with the
\* new revision, one use more; the oldest entry and the oldest operation go when the
\* bounds are passed.  `by` is the set of operations that the uses stand for.
Recorded(st, e, old) ==
    LET kept == SelectSeq(st.entries, LAMBDA x : x.cmd # e.cmd)
        entry == [cmd |-> e.cmd, rev |-> st.rev + 1,
                  uses |-> IF old = None THEN 1 ELSE st.entries[old].uses + 1,
                  by |-> {e.op} \cup (IF old = None THEN {} ELSE st.entries[old].by)]
        all == Append(kept, entry)
        seen == Append(st.seen, e.op)
    IN  [st EXCEPT !.rev = @ + 1, !.warning = FALSE,
                   !.entries = IF Len(all) > MaxEntries THEN Tail(all) ELSE all,
                   !.truncated = @ \/ Len(all) > MaxEntries,
                   !.seen = IF Len(seen) > MaxSeen THEN Tail(seen) ELSE seen]

Record(st, e) ==
    IF e.op \in Range(st.seen) THEN st
    ELSE Recorded(st, e, LastOf(Positions(st.entries, LAMBDA x : x.cmd = e.cmd)))

\* The journal worker gets to a Human TX event; the file may not be writable.
RecordTx ==
    /\ tx # <<>>
    /\ tx' = Tail(tx)
    /\ \/ store' = Record(store, tx[1]) /\ UNCHANGED faults
       \/ /\ faults < MaxFaults /\ faults' = faults + 1 /\ tx[1].op \notin Range(store.seen)
          /\ store' = [store EXCEPT !.warning = TRUE]
    /\ UNCHANGED <<sent, io, reply, refresh, line, ops, known>>

\* Another console's command; it may be written in two parts, two events of one
\* operation.
OtherSends ==
    /\ ops < MaxOps /\ ops' = ops + 1
    /\ \E cmd \in Commands, twice \in BOOLEAN :
          LET e == [cmd |-> cmd, op |-> ops'] IN
          /\ tx' = tx \o (IF twice THEN <<e, e>> ELSE <<e>>)
          /\ known' = [known EXCEPT !.sent = @ \cup {cmd}]
    /\ UNCHANGED <<store, sent, io, reply, refresh, line, faults>>

\* query: the entries from the newest on, one page of them, and where the next begins.
Query(st, before) ==
    LET older == SelectSeq(st.entries, LAMBDA x : before = None \/ x.rev < before)
        n == Min2(PageEntries, Len(older))
        page == SubSeq(Reverse(older), 1, n)
    IN  [rev |-> st.rev, entries |-> page,
         next |-> IF Len(older) > n THEN page[n].rev ELSE None]

-----------------------------------------------------------------------------
(* The fetching task *)

\* A tick or a request wakes the task; it notes the generation of confirmations first.
FetchStarts ==
    /\ io.at = "idle"
    /\ io' = [at |-> "page", sentRev |-> io.sentRev, gen |-> line.gen, before |-> None,
              rev |-> None, entries |-> <<>>, pages |-> 0]
    /\ refresh' = FALSE
    /\ UNCHANGED <<store, tx, sent, reply, line, ops, faults, known>>

\* collect_human_history_pages takes a page: the revision must be that of the first
\* page, the cursor must go down, and there are at most MaxPages of them.
TakePage(p) ==
    CASE io.rev # None /\ io.rev # p.rev -> [at |-> "idle", sentRev |-> io.sentRev]
      [] p.next = None ->
            [io EXCEPT !.at = "done", !.rev = p.rev, !.entries = @ \o p.entries]
      [] ~(io.before = None \/ p.next < io.before) \/ io.pages + 1 = MaxPages ->
            [at |-> "idle", sentRev |-> io.sentRev]
      [] OTHER ->
            [io EXCEPT !.rev = p.rev, !.entries = @ \o p.entries, !.before = p.next,
                       !.pages = @ + 1]

FetchPage ==
    /\ io.at = "page"
    /\ \/ io' = TakePage(Query(store, io.before)) /\ UNCHANGED faults
       \/ /\ faults < MaxFaults /\ faults' = faults + 1
          /\ io' = [at |-> "idle", sentRev |-> io.sentRev]
    /\ UNCHANGED <<store, tx, sent, reply, refresh, line, ops, known>>

\* What is new goes to the application once its channel has room.
FetchEnds ==
    /\ io.at = "done" /\ reply = None
    /\ LET version == [rev |-> io.rev, gen |-> io.gen] IN
       /\ reply' = IF io.sentRev = version THEN None
                   ELSE [gen |-> io.gen, rev |-> io.rev, entries |-> io.entries]
       /\ io' = [at |-> "idle", sentRev |-> version]
    /\ UNCHANGED <<store, tx, sent, refresh, line, ops, faults, known>>

-----------------------------------------------------------------------------
(* The console's copy *)

FindHistoryMatch(history, query, before) ==
    IF query = <<>> THEN None
    ELSE LastOf({i \in DOMAIN history :
                    (before = None \/ i < before) /\ Within(query, history[i])})

IndexOf(history, cmd) ==
    IF cmd = None THEN None ELSE LastOf(Positions(history, LAMBDA x : x = cmd))

\* The newest occurrence of each command, at most MaxEntries of them.
Newest(cmds) ==
    LET once == {i \in DOMAIN cmds : cmds[i] # <<>> /\ \A j \in (i + 1)..Len(cmds) : cmds[j] # cmds[i]}
        kept == {i \in once : Cardinality({j \in once : j >= i}) <= MaxEntries}
    IN  [n \in 1..Cardinality(kept) |->
            cmds[CHOOSE i \in kept : Cardinality({j \in kept : j <= i}) = n]]

\* The search and the walk keep the command that they stand on, wherever it is now.
SearchFollows(search, old, new) ==
    IF search = None THEN None
    ELSE LET same == IF search.at = None THEN None ELSE IndexOf(new, old[search.at]) IN
         [search EXCEPT !.at = IF same # None THEN same
                               ELSE FindHistoryMatch(new, search.query, None)]

BrowseFollows(l, new, at) ==
    IF l.browse = None THEN [l EXCEPT !.history = new]
    ELSE IF at = None
         THEN [l EXCEPT !.history = new, !.browse = None, !.draft = l.browse.saved]
         ELSE [l EXCEPT !.history = new, !.browse.index = at]

SetPlatformHistory(l, new) ==
    BrowseFollows([l EXCEPT !.search = SearchFollows(l.search, l.history, new)], new,
                  IF l.browse = None THEN None ELSE IndexOf(new, l.history[l.browse.index]))

\* record_human_history: the command of a line that the daemon has accepted.
RecordHumanHistory(l, cmd) ==
    IF cmd = <<>> THEN l
    ELSE LET minimum == IF l.version = None THEN 0 ELSE l.version + 1
             others == SelectSeq(l.confirmed, LAMBDA c : c.cmd # cmd)
             all == Append(others, [cmd |-> cmd, min |-> minimum])
         IN  SetPlatformHistory(
                [l EXCEPT !.gen = @ + 1,
                          !.confirmed = IF Len(all) > MaxEntries THEN Tail(all) ELSE all],
                Newest(Append(l.history, cmd)))

\* A reply that is not older than what is shown replaces it; what was confirmed and the
\* reply does not hold yet stays behind it.
Applied(l, r) ==
    LET missing == SelectSeq(l.confirmed,
                       LAMBDA c : \A i \in DOMAIN r.entries :
                                     r.entries[i].cmd = c.cmd => r.entries[i].rev < c.min)
        cmds == [i \in DOMAIN r.entries |-> r.entries[Len(r.entries) + 1 - i].cmd]
    IN  SetPlatformHistory([l EXCEPT !.version = r.rev, !.confirmed = missing],
                           Newest(cmds \o [i \in DOMAIN missing |-> missing[i].cmd]))

HandleHumanHistoryEvent ==
    /\ reply # None /\ reply' = None
    /\ IF reply.gen # line.gen THEN refresh' = TRUE /\ UNCHANGED line
       ELSE /\ line' = IF line.version # None /\ line.version > reply.rev THEN line
                       ELSE Applied(line, reply)
            /\ UNCHANGED refresh
    /\ UNCHANGED <<store, tx, sent, io, ops, faults, known>>

-----------------------------------------------------------------------------
(* The line editor: handle_line_key *)

Idle(l) == l.search = None /\ l.completion = None

\* Enter sends the draft.
Enter ==
    /\ Idle(line) /\ line.draft # <<>> /\ sent = None /\ ops < MaxOps
    /\ ops' = ops + 1
    /\ sent' = [cmd |-> line.draft, op |-> ops', done |-> FALSE]
    /\ line' = [line EXCEPT !.browse = None, !.draft = <<>>]
    /\ known' = [known EXCEPT !.sent = @ \cup {line.draft}]
    /\ UNCHANGED <<store, tx, io, reply, refresh, faults>>

\* The daemon has written it, and tells the journal worker and the console.
DaemonWrites ==
    /\ sent # None /\ ~sent.done
    /\ sent' = [sent EXCEPT !.done = TRUE]
    /\ tx' = Append(tx, [cmd |-> sent.cmd, op |-> sent.op])
    /\ UNCHANGED <<store, io, reply, refresh, line, ops, faults, known>>

Accepted ==
    /\ sent # None /\ sent.done /\ sent' = None
    /\ line' = RecordHumanHistory(line, sent.cmd)
    /\ known' = [known EXCEPT !.told = @ \cup {sent.cmd}]
    /\ refresh' = TRUE
    /\ UNCHANGED <<store, tx, io, reply, ops, faults>>

\* The daemon refuses: the line comes back if the editor is empty.
Refused ==
    /\ sent # None /\ ~sent.done /\ sent' = None
    /\ faults < MaxFaults /\ faults' = faults + 1
    /\ line' = IF line.draft = <<>> THEN [line EXCEPT !.draft = sent.cmd] ELSE line
    /\ UNCHANGED <<store, tx, io, reply, refresh, ops, known>>

\* browse_human_history
BrowseTo(l, b, index) ==
    IF index > Len(l.history) THEN [l EXCEPT !.draft = b.saved, !.browse = None]
    ELSE [l EXCEPT !.draft = l.history[index], !.browse = [b EXCEPT !.index = index]]

Older(l) ==
    LET b == IF l.browse # None THEN l.browse
             ELSE [saved |-> l.draft, index |-> Len(l.history) + 1]
    IN  IF l.history = <<>> THEN l
        ELSE BrowseTo(l, b, IF b.index = 1 THEN 1 ELSE b.index - 1)

Newer(l) ==
    IF l.history = <<>> \/ l.browse = None THEN l
    ELSE BrowseTo(l, l.browse, l.browse.index + 1)

\* history_suggestion: the newest command that the draft begins.
Suggestion(l) ==
    LastOf({i \in DOMAIN l.history : /\ l.draft # <<>> /\ l.draft # l.history[i]
                                     /\ IsPrefix(l.draft, l.history[i])})

\* complete_draft: the commands that the draft begins, the newest first.
Candidates(l) == SelectSeq(Reverse(l.history), LAMBDA c : IsPrefix(l.draft, c))

EditKey(l) ==
    {Older(l), Newer(l)}
    \cup {[l EXCEPT !.browse = None, !.draft = Append(@, c)] :
             c \in IF Len(l.draft) < MaxDraft THEN Chars ELSE {}}
    \cup {[l EXCEPT !.browse = None, !.draft = <<>>],
          [l EXCEPT !.browse = None,
                    !.draft = IF Suggestion(l) = None THEN @ ELSE l.history[Suggestion(l)]],
          [l EXCEPT !.browse = None,
                    !.completion = IF Candidates(l) = <<>> THEN None
                                   ELSE [candidates |-> Candidates(l), current |-> 1]],
          [l EXCEPT !.browse = None, !.draft = <<>>,
                    !.search = [query |-> <<>>, saved |-> l.draft, at |-> None]]}

\* The keys of a completion menu; another key closes it and is handled as usual.
CompletionKey(l) ==
    LET m == l.completion
        n == Len(m.candidates)
    IN  {[l EXCEPT !.completion.current = (@ % n) + 1],
         [l EXCEPT !.completion.current = IF @ = 1 THEN n ELSE @ - 1],
         [l EXCEPT !.completion = None, !.draft = m.candidates[m.current]],
         [l EXCEPT !.completion = None]}

\* handle_history_search_key
SearchKey(l) ==
    LET s == l.search
        Find(q, before) == FindHistoryMatch(l.history, q, before)
        again == Find(s.query, s.at)
    IN  {[l EXCEPT !.search = None, !.draft = IF s.at = None THEN s.saved ELSE l.history[s.at]],
         [l EXCEPT !.search = None, !.draft = s.saved],
         [l EXCEPT !.search.at = IF again # None THEN again ELSE Find(s.query, None)]}
        \cup {[l EXCEPT !.search.query = q, !.search.at = Find(q, None)] :
                 q \in (IF s.query = <<>> THEN {} ELSE {Front(s.query)})
                       \cup (IF Len(s.query) < MaxDraft THEN {Append(s.query, c) : c \in Chars}
                             ELSE {})}

LineKey ==
    /\ line' \in (IF line.search # None THEN SearchKey(line)
                  ELSE IF line.completion # None THEN CompletionKey(line)
                  ELSE EditKey(line))
    /\ UNCHANGED <<store, tx, sent, io, reply, refresh, ops, faults, known>>

Next ==
    \/ RecordTx \/ OtherSends \/ FetchStarts \/ FetchPage \/ FetchEnds
    \/ HandleHumanHistoryEvent \/ Enter \/ DaemonWrites \/ Accepted \/ Refused \/ LineKey

Spec == Init /\ [][Next]_vars

-----------------------------------------------------------------------------
(* The properties *)

TypeOK ==
    /\ Len(store.entries) <= MaxEntries /\ Len(store.seen) <= MaxSeen
    /\ Len(line.history) <= MaxEntries
    /\ io.at \in {"idle", "page", "done"} /\ refresh \in BOOLEAN

\* The stored commands are distinct, in the order of their revisions, and each counts
\* every operation once, however many TX events it had (record).
CountedOnce ==
    \A i \in DOMAIN store.entries :
       /\ store.entries[i].uses = Cardinality(store.entries[i].by)
       /\ store.entries[i].rev <= store.rev
       /\ \A j \in DOMAIN store.entries :
             i < j => /\ store.entries[i].cmd # store.entries[j].cmd
                      /\ store.entries[i].rev < store.entries[j].rev

\* A reply holds all that the daemon stored at its revision, although commands may be
\* recorded between its pages (collect_human_history_pages).
SnapshotWhole ==
    reply # None /\ reply.rev = store.rev => reply.entries = Reverse(store.entries)

\* A command that the console saw confirmed stays on offer, whatever older replies come
\* in later and although recording it may fail, as long as all that was ever sent fits
\* in the history (handle_human_history_event).
ConfirmedOffered ==
    Cardinality(known.sent) <= MaxEntries => known.told \subseteq Range(line.history)

\* Under the walk, the search and the menu lies what the user sees, though the history
\* is replaced while they are open: Enter takes that command (set_platform_history).
PointsAtShown ==
    /\ line.browse # None => /\ line.browse.index \in DOMAIN line.history
                             /\ line.draft = line.history[line.browse.index]
    /\ line.search # None /\ line.search.at # None =>
          /\ line.search.at \in DOMAIN line.history
          /\ Within(line.search.query, line.history[line.search.at])
    /\ line.completion # None => line.completion.current \in DOMAIN line.completion.candidates

=============================================================================
