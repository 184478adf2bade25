---------------------------- MODULE SessionSearch ---------------------------
(***************************************************************************)
(* Searching all that a console has shown since it started                  *)
(* (session_search.rs and the session search of tui.rs).  The terminal      *)
(* thread hands what its parser makes of each event to an archive through a *)
(* bounded queue that it never waits for; the archive's thread writes        *)
(* completed rows and keeps the one unfinished row; each query has a thread  *)
(* that scans the rows up to a snapshot, and then only what is new; a        *)
(* further task reads a match and the rows around it; and the terminal       *)
(* thread polls, follows the newest match, and walks.  Everything that it    *)
(* shows may be overtaken by what was typed meanwhile.  One port.           *)
(***************************************************************************)
EXTENDS Naturals, Sequences, SequencesExt, FiniteSets

CONSTANTS
    None,
    Courses,        \* what may come on the port: sequences of events
    Needles,        \* what is searched for
    RowLen,         \* MAX_STREAM_LINE_CHARS
    QueueLen,       \* QUEUE_MESSAGES, QUEUE_BYTES
    Flush,          \* the rows between two publications of a scan
    Carry,          \* carry_bytes
    Around,         \* the rows shown before and after a match
    MaxActive,      \* the queries that may be active
    MaxQueries,     \* bound: queries
    MaxRequests,    \* bound: matches asked for
    MaxFaults       \* bound: failures of the disk

VARIABLES
    course, fed,    \* the events, and how many have come
    parser,         \* the terminal row being built
    arch,           \* ArchiveShared and the archive thread's locals
    queue,          \* to the archive thread
    qs,             \* QueryState and the search thread's locals, for each query
    search,         \* OutputSearchState with its DiskSearch
    view,           \* ArchivedViewport
    reqs, io, replies,  \* the reading task and its channels
    made,           \* how many matches were asked for
    faults

vars == <<course, fed, parser, arch, queue, qs, search, view, reqs, io, replies, made, faults>>
reading == <<reqs, io, replies, made>>

-----------------------------------------------------------------------------
(* Rows *)

Row(kind, text, cont) == [kind |-> kind, text |-> text, cont |-> cont]
GapRow == Row("gap", <<>>, FALSE)

NoLine == [line |-> <<>>, cont |-> FALSE, done |-> <<>>]

\* A character goes to the row; a row that is full is completed and continued.
Typed(p, c) ==
    IF c = "LF" THEN [line |-> <<>>, cont |-> FALSE, done |-> Append(p.done, Row("rx", p.line, p.cont))]
    ELSE IF Len(p.line) < RowLen THEN [p EXCEPT !.line = Append(@, c)]
    ELSE [line |-> <<c>>, cont |-> TRUE, done |-> Append(p.done, Row("rx", p.line, p.cont))]

Pending(p) == IF p.line = <<>> THEN None ELSE Row("rx", p.line, p.cont)

\* The batch of an event's characters, and the parser after it.
Pushed(p, data) == FoldLeft(Typed, [p EXCEPT !.done = <<>>], data)
Batch(p, q) == [completed |-> q.done, pending |-> Pending(q),
                committed |-> Pending(p) # None /\ q.done # <<>>]

-----------------------------------------------------------------------------
(* The archive *)

\* SessionArchive::append, record_gap, record_boundary: never wait; what cannot be queued
\* is a gap that is told, and the next batch begins a new stream.
Sent(s, m) ==
    IF Len(s.queue) < QueueLen
    THEN [s EXCEPT !.queue = Append(@, m), !.arch.revision = @ + 1]
    ELSE [s EXCEPT !.arch.told = TRUE, !.arch.interrupted = TRUE, !.arch.revision = @ + 1]

SendBatch(s, batch) ==
    Sent([s EXCEPT !.arch.interrupted = FALSE],
         [op |-> "append", batch |-> batch, boundary |-> s.arch.interrupted])
SendGap(s) == Sent([s EXCEPT !.arch.told = TRUE], [op |-> "gap"])
SendBoundary(s) == Sent(s, [op |-> "boundary"])

\* push_event and push_gap of the terminal thread
Reset(s) == [SendBoundary(s) EXCEPT !.parser = NoLine]

Take(s, e) ==
    CASE e.op = "rx" ->
            LET q == Pushed(s.parser, e.data) IN
            [SendBatch(s, Batch(s.parser, q)) EXCEPT !.parser = q]
      [] e.op = "note" ->
            SendBatch(s, [completed |-> <<Row("note", e.data, FALSE)>>,
                          pending |-> Pending(s.parser), committed |-> FALSE])
      [] e.op = "gap" -> Reset(SendGap(s))
      [] OTHER -> Reset(s)

Feed ==
    /\ fed < Len(course) /\ fed' = fed + 1
    /\ LET s == Take([parser |-> parser, arch |-> arch, queue |-> queue], course[fed + 1]) IN
       parser' = s.parser /\ arch' = s.arch /\ queue' = s.queue
    /\ UNCHANGED <<course, qs, search, view, reading, faults>>

\* archive_worker: what a message does to the rows.
Unfinished(a) == IF a.pending = None THEN <<>> ELSE <<a.pending>>

Joined(a, m) ==
    LET b == m.batch
        kept == IF ~m.boundary THEN <<>>
                ELSE Append(IF b.committed THEN <<>> ELSE Unfinished(a), GapRow)
        streams == {i \in DOMAIN b.completed : b.completed[i].kind = "rx"}
        first(i) == a.break /\ i \in streams /\ \A j \in streams : i <= j
        rows == [i \in DOMAIN b.completed |->
                    IF first(i) THEN [b.completed[i] EXCEPT !.cont = FALSE] ELSE b.completed[i]]
        break == a.break /\ streams = {}
    IN  [a EXCEPT !.rows = @ \o kept \o rows, !.break = break,
                  !.pending = IF b.pending # None /\ break THEN [b.pending EXCEPT !.cont = FALSE]
                              ELSE b.pending]

Written(a, m) ==
    CASE m.op = "append" -> Joined(a, m)
      [] m.op = "gap" -> [a EXCEPT !.rows = Append(@ \o Unfinished(a), GapRow), !.pending = None]
      [] OTHER -> [a EXCEPT !.rows = @ \o Unfinished(a), !.pending = None, !.break = TRUE]

Snapshot(a, rev) == [rows |-> Len(a.rows), pending |-> a.pending, rev |-> rev]

\* A query is held by the search, by what is shown, or by a request for one of its matches.
Held(id) ==
    \/ search # None /\ search.disk # None /\ search.disk.id = id
    \/ view # None /\ view.id = id
    \/ \E i \in DOMAIN reqs : reqs[i].id = id
    \/ io # None /\ io.req.id = id
    \/ \E i \in DOMAIN replies : replies[i].req.id = id

ArchiveWorker ==
    /\ queue # <<>> /\ queue' = Tail(queue)
    /\ LET m == queue[1] IN
       IF m.op = "snapshot"
       THEN /\ qs' = IF Held(m.id) /\ qs[m.id].at # "gone"
                     THEN [qs EXCEPT ![m.id].input = Snapshot(arch, m.rev)] ELSE qs
            /\ UNCHANGED <<arch, faults>>
       ELSE /\ \/ arch' = (IF arch.failed THEN arch ELSE Written(arch, m)) /\ UNCHANGED faults
               \/ /\ faults < MaxFaults /\ faults' = faults + 1 /\ ~arch.failed
                  /\ arch' = [arch EXCEPT !.failed = TRUE, !.told = TRUE, !.interrupted = TRUE]
            /\ UNCHANGED qs
    /\ UNCHANGED <<course, fed, parser, search, view, reading>>

-----------------------------------------------------------------------------
(* A query's thread *)

\* A match is [row, at, endRow, end], `end` being the position after its last character.
Chars(row, n) == [i \in DOMAIN row.text |-> [ch |-> row.text[i], row |-> n, at |-> i]]

OccursAt(s, needle, i) ==
    /\ i + Len(needle) - 1 <= Len(s)
    /\ \A k \in DOMAIN needle : s[i + k - 1].ch = needle[k]

\* find_iter: the matches from position `from` on, the leftmost first, none overlapping.
Found(s, needle, from) ==
    LET f[i \in from..(Len(s) + Len(needle))] ==
            IF i > Len(s) THEN <<>>
            ELSE IF OccursAt(s, needle, i) THEN <<i>> \o f[i + Len(needle)] ELSE f[i + 1]
    IN  f[from]

HitAt(s, needle, i) ==
    LET last == s[i + Len(needle) - 1] IN
    [row |-> s[i].row, at |-> s[i].at, endRow |-> last.row, end |-> last.at + 1]

NoMatcher == [carry |-> <<>>, bytes |-> 0, through |-> 0]

Beyond(a, b) == IF a > b THEN a - b ELSE 0

\* MatcherState::scan of a row that belongs to the stream: with what was carried over, from
\* where the last match ended, only matches that end in this row.
ScanJoined(m, joined, needle, base) ==
    LET news == SelectSeq(Found(joined, needle, Beyond(m.through, base) + 1),
                          LAMBDA i : base + i + Len(needle) - 1 > m.bytes)
        through == IF news = <<>> THEN m.through ELSE base + news[Len(news)] + Len(needle) - 1
    IN  [matcher |-> [carry |-> SubSeq(joined, Beyond(Len(joined), Carry) + 1, Len(joined)),
                      bytes |-> base + Len(joined), through |-> through],
         hits |-> [n \in DOMAIN news |-> HitAt(joined, needle, news[n])]]

Scan(m, row, n, needle) ==
    LET s == Chars(row, n)
        from == IF row.cont THEN m ELSE NoMatcher
    IN  IF row.kind # "rx"
        THEN [matcher |-> IF row.kind = "gap" THEN NoMatcher ELSE m,
              hits |-> [k \in DOMAIN Found(s, needle, 1) |-> HitAt(s, needle, Found(s, needle, 1)[k])]]
        ELSE ScanJoined(from, from.carry \o s, needle, from.bytes - Len(from.carry))

NewQuery(needle) ==
    [needle |-> needle, input |-> None, at |-> "wait", snap |-> None,
     scanned |-> 0, matcher |-> NoMatcher, hits |-> <<>>, shot |-> None, matches |-> 0,
     complete |-> FALSE, requested |-> 0, committed |-> 0, provisional |-> <<>>, error |-> FALSE]

\* search_worker takes a snapshot, and tells that it is at work on it.
TakeSnapshot(id) ==
    LET q == qs[id] IN
    /\ q.at = "wait" /\ q.input # None
    /\ qs' = [qs EXCEPT ![id] = [q EXCEPT !.at = "scan", !.snap = q.input, !.input = None,
                                          !.shot = q.input, !.provisional = <<>>,
                                          !.matches = Len(q.hits), !.complete = FALSE]]
    /\ UNCHANGED <<course, fed, parser, arch, queue, search, view, reading, faults>>

\* One row; every so often the matches are made public.
Scanned(q, r, publish) ==
    [q EXCEPT !.scanned = @ + 1, !.matcher = r.matcher, !.hits = @ \o r.hits,
              !.committed = IF publish THEN Len(q.hits \o r.hits) ELSE @,
              !.matches = IF publish THEN Len(q.hits \o r.hits) ELSE @]

ScanRow(id) ==
    LET q == qs[id]
        n == q.scanned + 1
    IN  /\ q.at = "scan" /\ n <= q.snap.rows
        /\ \/ /\ qs' = [qs EXCEPT ![id] = Scanned(q, Scan(q.matcher, arch.rows[n], n, q.needle),
                                                  n % Flush = 0)]
              /\ UNCHANGED faults
           \/ /\ faults < MaxFaults /\ faults' = faults + 1
              /\ qs' = [qs EXCEPT ![id].at = "gone", ![id].error = TRUE, ![id].complete = FALSE]
        /\ UNCHANGED <<course, fed, parser, arch, queue, search, view, reading>>

\* What was asked for last is covered.
CoversRequest(q) == q.snap.rev >= q.requested

\* All rows are read: the unfinished row is searched, for the time being.
Published(q, tail) ==
    [q EXCEPT !.at = "wait", !.committed = Len(q.hits), !.provisional = tail,
              !.matches = Len(q.hits) + Len(tail), !.complete = CoversRequest(q)]

PublishScan(id) ==
    LET q == qs[id] IN
    /\ q.at = "scan" /\ q.scanned = q.snap.rows
    /\ qs' = [qs EXCEPT ![id] =
                 Published(q, IF q.snap.pending = None THEN <<>>
                              ELSE Scan(q.matcher, q.snap.pending, q.snap.rows + 1, q.needle).hits)]
    /\ UNCHANGED <<course, fed, parser, arch, queue, search, view, reading, faults>>

\* SearchHandle::cancel: the thread sees it at its next step and does nothing any more.
\* What was published last can still be read.
CancelQuery(q) ==
    [NewQuery(q.needle) EXCEPT !.at = "gone", !.shot = q.shot]

-----------------------------------------------------------------------------
(* The reading task *)

RowAt(shot, n) == IF n <= shot.rows THEN arch.rows[n] ELSE shot.pending

\* SearchHandle::page for one match, None if it cannot be had.
PageHit(id, ordinal) ==
    LET q == qs[id]
        hit == IF ordinal < q.committed THEN q.hits[ordinal + 1]
               ELSE q.provisional[ordinal - q.committed + 1]
    IN  IF q.at = "gone" \/ q.shot = None \/ ordinal >= q.committed + Len(q.provisional) THEN None
        ELSE [ordinal |-> ordinal, hit |-> hit, rev |-> q.shot.rev,
              provisional |-> ordinal >= q.committed]

\* The unfinished row is still the one that was matched.
SameRow(q, found) == found.provisional => found.rev = q.shot.rev

\* SearchHandle::context: the rows around the match, None if it is gone.
Context(id, found) ==
    LET q == qs[id]
        total == q.shot.rows + (IF q.shot.pending = None THEN 0 ELSE 1)
        first == Beyond(found.hit.row, Around + 1) + 1
        last == IF found.hit.endRow + Around < total THEN found.hit.endRow + Around ELSE total
    IN  IF ~SameRow(q, found) THEN None
        ELSE [first |-> first, lines |-> [i \in 1..Beyond(last + 1, first) |-> RowAt(q.shot, first + i - 1)]]

ReadTakes ==
    /\ io = None /\ reqs # <<>> /\ reqs' = Tail(reqs)
    /\ io' = [req |-> reqs[1],
              found |-> IF reqs[1].anchor # None THEN reqs[1].anchor
                        ELSE PageHit(reqs[1].id, reqs[1].ordinal)]
    /\ UNCHANGED <<course, fed, parser, arch, queue, qs, search, view, replies, made, faults>>

ReadAnswers ==
    /\ io # None /\ replies = <<>> /\ io' = None
    /\ replies' = <<[req |-> io.req, found |-> io.found,
                     context |-> IF io.found = None THEN None ELSE Context(io.req.id, io.found)]>>
    /\ UNCHANGED <<course, fed, parser, arch, queue, qs, search, view, reqs, made, faults>>

-----------------------------------------------------------------------------
(* The terminal thread *)

NoDisk == [id |-> None, total |-> 0, complete |-> FALSE, selected |-> None, pending |-> None,
           partial |-> TRUE, refreshed |-> 0, fed |-> 0]

OpenSearch ==
    /\ search = None
    /\ search' = [needle |-> <<>>, disk |-> None, selected |-> 0, follow |-> TRUE, dirty |-> FALSE]
    /\ UNCHANGED <<course, fed, parser, arch, queue, qs, view, reading, faults>>

\* Dropping a DiskSearch cancels its query.
Dropped(s) ==
    IF s.disk = None THEN qs
    ELSE IF s.disk.id = None THEN qs
    ELSE [qs EXCEPT ![s.disk.id] = CancelQuery(@)]

CloseSearch ==
    /\ search # None /\ search' = None /\ qs' = Dropped(search)
    /\ UNCHANGED <<course, fed, parser, arch, queue, view, reading, faults>>

\* Every edit of the expression.
EditQuery ==
    /\ search # None
    /\ \E needle \in Needles \cup {<<>>} :
          /\ needle # search.needle
          /\ search' = [needle |-> needle, disk |-> None, selected |-> 0, follow |-> TRUE,
                        dirty |-> TRUE]
    /\ qs' = Dropped(search) /\ view' = None
    /\ UNCHANGED <<course, fed, parser, arch, queue, reading, faults>>

Active == {id \in DOMAIN qs : Held(id)}

\* SessionArchive::search fails when there are too many queries, or when the snapshot
\* cannot be queued.
CanSearch == Cardinality(Active) < MaxActive /\ Len(queue) < QueueLen

\* start_session_search
Started(s) ==
    [s EXCEPT !.dirty = FALSE, !.selected = 0,
              !.disk = [NoDisk EXCEPT !.id = IF CanSearch THEN Len(qs) + 1 ELSE None,
                                      !.partial = ~CanSearch, !.refreshed = arch.revision]]

StartSearch ==
    /\ search # None /\ search.dirty /\ search.needle # <<>> /\ Len(qs) < MaxQueries
    /\ search' = Started(search) /\ view' = None
    /\ IF CanSearch
       THEN /\ qs' = Append(qs, [NewQuery(search.needle) EXCEPT !.requested = arch.revision])
            /\ queue' = Append(queue, [op |-> "snapshot", id |-> Len(qs) + 1, rev |-> arch.revision])
       ELSE UNCHANGED <<qs, queue>>
    /\ UNCHANGED <<course, fed, parser, arch, reading, faults>>

\* request_session_match: a full queue leaves nothing pending.
RequestMatch(s) ==
    LET rid == made + 1 IN
    IF s.disk.id = None \/ s.selected >= s.disk.total
    THEN search' = s /\ UNCHANGED <<reqs, made>>
    ELSE IF reqs # <<>> THEN search' = [s EXCEPT !.disk.pending = None] /\ UNCHANGED <<reqs, made>>
    ELSE /\ made < MaxRequests /\ made' = rid
         /\ reqs' = <<[rid |-> rid, id |-> s.disk.id, ordinal |-> s.selected, anchor |-> None,
                       dir |-> 0]>>
         /\ search' = [s EXCEPT !.disk.pending = rid]

SelectedAfter(s, total) ==
    LET most == total - 1
        wished == IF s.disk.selected # None THEN s.disk.selected.ordinal ELSE s.selected
    IN  IF total = 0 THEN s.selected
        ELSE IF s.follow THEN most ELSE IF wished < most THEN wished ELSE most

NeedsFetch(s, total, rev) ==
    /\ total > 0 /\ s.disk.pending = None
    /\ \/ s.disk.selected = None
       \/ s.follow /\ s.disk.total # total
       \/ s.disk.selected # None /\ s.disk.selected.provisional /\ s.disk.selected.rev # rev

\* poll_session_search: what the query says; a query that is through is extended when the
\* archive has changed since.
Polled(s, q, again, room) ==
    [s EXCEPT !.selected = SelectedAfter(s, q.matches),
              !.disk = [s.disk EXCEPT !.total = q.matches, !.complete = q.complete /\ ~again,
                                      !.partial = arch.told \/ q.error, !.fed = fed,
                                      !.refreshed = IF again /\ room THEN arch.revision ELSE @]]

PollWith(s, q, again, room) ==
    /\ IF again /\ room
       THEN /\ qs' = [qs EXCEPT ![s.disk.id].complete = FALSE, ![s.disk.id].requested = arch.revision]
            /\ queue' = Append(queue, [op |-> "snapshot", id |-> s.disk.id, rev |-> arch.revision])
       ELSE UNCHANGED <<qs, queue>>
    /\ LET t == Polled(s, q, again, room) IN
       IF NeedsFetch(s, q.matches, IF q.shot = None THEN 0 ELSE q.shot.rev)
       THEN RequestMatch(t) ELSE search' = t /\ UNCHANGED <<reqs, made>>

Poll ==
    /\ search # None /\ search.disk # None /\ search.disk.id # None
    /\ LET q == qs[search.disk.id] IN
       PollWith(search, q, q.complete /\ arch.revision # search.disk.refreshed, Len(queue) < QueueLen)
    /\ UNCHANGED <<course, fed, parser, arch, view, io, replies, faults>>

\* navigate_output_search
Navigate ==
    /\ search # None /\ search.disk # None /\ search.disk.total > 0
    /\ \E n \in {(search.selected + 1) % search.disk.total,
                 IF search.selected = 0 THEN search.disk.total - 1 ELSE search.selected - 1} :
          RequestMatch([search EXCEPT !.selected = n, !.follow = FALSE, !.disk.selected = None])
    /\ UNCHANGED <<course, fed, parser, arch, queue, qs, view, io, replies, faults>>

\* extend_archived_context: at the edge of what is shown, the rows around that edge.
Scroll ==
    /\ view # None /\ view.pending = None /\ view.lines # <<>> /\ reqs = <<>> /\ made < MaxRequests
    /\ \E dir \in {"up", "down"} :
          LET edge == IF dir = "up" THEN view.first ELSE view.first + Len(view.lines) - 1
              q == qs[view.id]
              total == q.shot.rows + (IF q.shot.pending = None THEN 0 ELSE 1)
          IN  /\ dir = "up" => edge > 1
              /\ dir = "down" => edge < total
              /\ reqs' = <<[rid |-> made + 1, id |-> view.id, ordinal |-> 0, dir |-> dir,
                            anchor |-> [ordinal |-> 0, rev |-> 0, provisional |-> FALSE,
                                        hit |-> [row |-> edge, at |-> 1, endRow |-> edge, end |-> 1]]]>>
    /\ made' = made + 1 /\ view' = [view EXCEPT !.pending = made']
    /\ UNCHANGED <<course, fed, parser, arch, queue, qs, search, io, replies, faults>>

\* Following the tail again, or going to another port, gives up what is shown.
ReturnLive ==
    /\ view # None /\ view' = None
    /\ UNCHANGED <<course, fed, parser, arch, queue, qs, search, reading, faults>>

\* handle_session_search_event: an answer that nobody waits for any more is dropped.
Awaited(r) ==
    IF r.anchor # None THEN view # None /\ view.id = r.id /\ view.pending = r.rid
    ELSE search # None /\ search.disk # None /\ search.disk.id = r.id /\ search.disk.pending = r.rid

HandleReply ==
    /\ replies # <<>> /\ replies' = <<>>
    /\ LET r == replies[1]
           ok == r.context # None
           found == r.req.anchor = None
       IN  IF ~Awaited(r.req) THEN UNCHANGED <<search, view>>
           ELSE /\ search' = IF ~found THEN search
                             ELSE [search EXCEPT !.disk.pending = None,
                                                 !.disk.selected = IF ok THEN r.found ELSE @]
                /\ view' = IF ok THEN [id |-> r.req.id, found |-> found, hit |-> r.found.hit,
                                       first |-> r.context.first, lines |-> r.context.lines,
                                       pending |-> None]
                           ELSE IF found THEN view ELSE [view EXCEPT !.pending = None]
    /\ UNCHANGED <<course, fed, parser, arch, queue, qs, reqs, io, made, faults>>

-----------------------------------------------------------------------------

Init ==
    /\ course \in Courses /\ fed = 0 /\ parser = NoLine
    /\ arch = [rows |-> <<>>, pending |-> None, break |-> FALSE, failed |-> FALSE, told |-> FALSE,
               interrupted |-> FALSE, revision |-> 0]
    /\ queue = <<>> /\ qs = <<>> /\ search = None /\ view = None
    /\ reqs = <<>> /\ io = None /\ replies = <<>> /\ made = 0 /\ faults = 0

Next ==
    \/ Feed \/ ArchiveWorker
    \/ \E id \in DOMAIN qs : TakeSnapshot(id) \/ ScanRow(id) \/ PublishScan(id)
    \/ ReadTakes \/ ReadAnswers
    \/ OpenSearch \/ CloseSearch \/ EditQuery \/ StartSearch \/ Poll \/ Navigate \/ Scroll
    \/ ReturnLive \/ HandleReply

Spec == Init /\ [][Next]_vars

-----------------------------------------------------------------------------
(* The properties *)

TypeOK ==
    /\ Len(queue) <= QueueLen /\ Len(reqs) <= 1 /\ Len(replies) <= 1
    /\ Cardinality(Active) <= MaxActive
    /\ \A id \in DOMAIN qs : qs[id].committed <= Len(qs[id].hits)

\* All the matches of a needle in these rows: in each line, as it was before it was cut
\* into rows, and in each note.
LineOf(rows, n) ==
    LET starts == {i \in 1..n : rows[i].kind = "gap" \/ (rows[i].kind = "rx" /\ ~rows[i].cont)} IN
    IF starts = {} THEN 0 ELSE CHOOSE i \in starts : \A j \in starts : j <= i

LineChars(rows, line) ==
    FoldLeft(LAMBDA s, n : IF rows[n].kind = "rx" /\ LineOf(rows, n) = line
                           THEN s \o Chars(rows[n], n) ELSE s,
             <<>>, [n \in DOMAIN rows |-> n])

HitsIn(s, needle) == {HitAt(s, needle, i) : i \in Range(Found(s, needle, 1))}

AllHits(rows, needle) ==
    UNION ({HitsIn(Chars(rows[n], n), needle) : n \in {i \in DOMAIN rows : rows[i].kind = "note"}}
           \cup {HitsIn(LineChars(rows, line), needle) : line \in {LineOf(rows, n) : n \in DOMAIN rows}})

ShotRows(shot) ==
    SubSeq(arch.rows, 1, shot.rows) \o (IF shot.pending = None THEN <<>> ELSE <<shot.pending>>)

\* A query that says it is complete has each match of the rows that it covers once,
\* however its scan was cut into snapshots and its lines into rows (search_worker,
\* MatcherState::scan).
MatchesExact ==
    \A id \in DOMAIN qs :
       LET q == qs[id]
           got == SubSeq(q.hits, 1, q.committed) \o q.provisional
       IN  q.complete => /\ Range(got) = AllHits(ShotRows(q.shot), q.needle)
                         /\ Cardinality(Range(got)) = Len(got)

\* What came on the port as rows, had it been written at once.
Told(p, e) ==
    CASE e.op = "rx" -> FoldLeft(Typed, p, e.data)
      [] e.op = "note" -> [p EXCEPT !.done = Append(@, Row("note", e.data, FALSE))]
      [] OTHER -> [NoLine EXCEPT !.done = p.done \o (IF p.line = <<>> THEN <<>> ELSE <<Pending(p)>>)]

Document(n) ==
    LET p == FoldLeft(Told, NoLine, SubSeq(course, 1, n)) IN
    p.done \o (IF p.line = <<>> THEN <<>> ELSE <<Pending(p)>>)

\* A search that the console shows as complete, and not as partial, counts all that had
\* come on the port when it last looked, although the terminal thread never waits for the
\* archive (append, refresh, poll_session_search).
CompleteMeansAll ==
    search # None => (search.disk # None =>
       (search.disk.complete /\ ~search.disk.partial =>
          search.disk.total = Cardinality(AllHits(Document(search.disk.fed), search.needle))))

\* The match on the screen is a match of the expression in the search field, at the place
\* where it is marked, although the unfinished row changes and the expression is edited
\* while the match is read (handle_session_search_event, context).
ShownIsMatch ==
    view # None =>
       /\ search # None => (search.disk # None => search.disk.id = view.id)
       /\ view.found =>
             LET s == FoldLeft(LAMBDA t, i : t \o (IF view.lines[i].kind = "note"
                                                     /\ view.hit.row # view.hit.endRow THEN <<>>
                                                   ELSE Chars(view.lines[i], view.first + i - 1)),
                               <<>>, [i \in DOMAIN view.lines |-> i])
             IN  \E i \in DOMAIN s : /\ s[i].row = view.hit.row /\ s[i].at = view.hit.at
                                     /\ OccursAt(s, qs[view.id].needle, i)

=============================================================================
