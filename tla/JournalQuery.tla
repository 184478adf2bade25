---------------------------- MODULE JournalQuery ----------------------------
(***************************************************************************)
(* Reading a port's history while the journal is written: the query and the  *)
(* catalog of journal.rs, and the three readers of serialctl that page       *)
(* through them: exact evidence and output search (tui.rs), and the replay of *)
(* retained history into the disk index (retained_history.rs).              *)
(*                                                                         *)
(* A query takes no lock.  It lists names, opens what they name, loads the   *)
(* gap ledger and reads file by file, while the writer appends, renames an   *)
(* .open file that it seals, and deletes the oldest files; and pages are     *)
(* further apart still.  What is gone must be told as a gap, an error or a   *)
(* partial result.                                                          *)
(***************************************************************************)
EXTENDS Naturals, Sequences, FiniteSets, FiniteSetsExt, SequencesExt

CONSTANTS
    None,
    MaxEpoch, MaxSeq,   \* bounds: restarts of the daemon, events of an epoch,
    MaxFaults,          \* losses, deletions, damages and restarts together
    FileEvents,         \* events of a file; it may be sealed before (max_segment_age)
    PageEvents,         \* limit_events of a page
    Budget,             \* records that a query may read
    ClientPages,        \* requests that a reader may make
    Newest,             \* events that output search keeps
    Texts,              \* what may be on the line: sequences of [dir, data, breaks]
    Needle              \* what is searched

Epochs == 1..MaxEpoch
Seqs == 1..MaxSeq

VARIABLES
    text,       \* event s of every epoch is text[s]
    files,      \* the segments in the order of creation
    epoch, head,
    ledger,     \* <<epoch, seq, reason>>: retention-gaps.jsonl, by sequence number
    owed,       \* the gaps of a file deleted that the writer has not written yet
    q,          \* the query that runs, or None
    reader,     \* the client
    faults,     \* losses, deletions, damages and restarts so far
    calm        \* what the client asks for was there, and no file changed its name since

writer == <<files, epoch, head, ledger, owed, faults>>
vars == <<text, writer, q, reader, calm>>

-----------------------------------------------------------------------------
(* The writer, as in Journal *)

Ids == 1..Len(files)
Here(i) == ~files[i].gone
Open(i) == Here(i) /\ ~files[i].sealed
Current == {i \in Ids : Open(i)}
Holds(i, e, s) == files[i].epoch = e /\ s \in files[i].recs
Retained(e, s) == \E i \in Ids : Here(i) /\ Holds(i, e, s) /\ s < files[i].bad
LastOf(i) == IF files[i].recs = {} THEN 0 ELSE Max(files[i].recs)

\* Bound: the journal is followed only while it is read.
Followed == reader.how \in {"idle", "paging", "watching"}
Fault == faults < MaxFaults /\ faults' = faults + 1
KnownLost == {g[2] : g \in {x \in ledger : x[1] = epoch}}

NewFile(s) == [epoch |-> epoch, first |-> s, recs |-> {s}, sealed |-> FALSE, gone |-> FALSE,
               bad |-> MaxSeq + 1]

\* The events that a queue overflow or a write error lost are in the ledger before
\* the next record.
AppendRecord ==
    /\ Followed /\ owed = {} /\ head < MaxSeq
    /\ LET s == head + 1
           before == IF Current # {} THEN LastOf(Max(Current)) ELSE 0
           known == KnownLost \cup UNION {files[i].recs : i \in {j \in Ids : files[j].epoch = epoch}}
       IN /\ Current # {} => Cardinality(files[Max(Current)].recs) < FileEvents
          /\ files' = IF Current = {} THEN Append(files, NewFile(s))
                      ELSE [files EXCEPT ![Max(Current)].recs = @ \cup {s}]
          /\ ledger' = ledger \cup {<<epoch, x, "fault">> : x \in (before + 1 .. head) \ known}
          /\ head' = s
    /\ UNCHANGED <<text, epoch, owed, faults, q, reader, calm>>

LoseEvent ==
    /\ Followed /\ Fault /\ head < MaxSeq /\ head' = head + 1
    /\ UNCHANGED <<text, files, epoch, ledger, owed, q, reader, calm>>

Seal ==
    /\ Followed /\ owed = {} /\ Current # {}
    /\ files' = [files EXCEPT ![Max(Current)].sealed = TRUE]
    /\ calm' = FALSE
    /\ UNCHANGED <<text, epoch, head, ledger, owed, faults, q, reader>>

Prune ==
    /\ Followed /\ Fault /\ owed = {}
    /\ \E i \in Ids :
        /\ Here(i) /\ files[i].sealed /\ \A j \in 1..i - 1 : ~Here(j)
        /\ files' = [files EXCEPT ![i].gone = TRUE]
        /\ owed' = {<<files[i].epoch, s, "retention">> : s \in files[i].first..LastOf(i)}
    /\ calm' = FALSE
    /\ UNCHANGED <<text, epoch, head, ledger, q, reader>>

RecordPruned ==
    /\ Followed /\ owed # {} /\ ledger' = ledger \cup owed /\ owed' = {}
    /\ UNCHANGED <<text, files, epoch, head, faults, q, reader, calm>>

\* The disk damages a record of a sealed file; what follows it cannot be read.
Damage ==
    /\ Followed /\ Fault /\ \A i \in Ids : files[i].bad > MaxSeq
    /\ \E i \in Ids : /\ Here(i) /\ files[i].sealed
                      /\ \E s \in files[i].recs : files' = [files EXCEPT ![i].bad = s]
    /\ calm' = FALSE
    /\ UNCHANGED <<text, epoch, head, ledger, owed, q, reader>>

-----------------------------------------------------------------------------
(* Searching the stream *)

\* What is kept of a direction: the last bytes, and where the next event must begin.
Carry(bytes, next, from) == [bytes |-> bytes, next |-> next, from |-> from]
Clear == Carry(<<>>, None, 0)

\* Offset of event s in the stream of its direction; a break begins a new generation.
Offset(s) ==
    LET gen == Max({0} \cup {m \in 1..s : text[m].breaks})
        earlier == {m \in gen + 1 .. s - 1 : text[m].dir = text[s].dir}
    IN <<gen, MapThenSumSet(LAMBDA m : Len(text[m].data), earlier)>>
End(s) == <<Offset(s)[1], Offset(s)[2] + Len(text[s].data)>>

OccursAt(bytes, i) == i + Len(Needle) - 1 <= Len(bytes) /\ SubSeq(bytes, i, i + Len(Needle) - 1) = Needle
HasNeedle(bytes) == \E i \in 1..Len(bytes) : OccursAt(bytes, i)
Tail1(bytes, n) == IF Len(bytes) <= n THEN bytes ELSE SubSeq(bytes, Len(bytes) - n + 1, Len(bytes))

\* StreamSearchCarry::matches and contains_stream_chunk
ContainsStep(c, s) ==
    LET bytes == (IF c.next = Offset(s) THEN c.bytes ELSE <<>>) \o text[s].data
    IN [hit |-> HasNeedle(bytes), carry |-> Carry(Tail1(bytes, Len(Needle) - 1), End(s), 0)]

\* The ends of the matches of an expression from a place on, each after the one before.
Matches(bytes, from) ==
    LET ends[n \in 0..Len(bytes)] ==        \* those that end by n; the last one ends at the maximum
            IF n = 0 THEN {from}
            ELSE IF n - Len(Needle) >= Max(ends[n - 1]) /\ OccursAt(bytes, n - Len(Needle) + 1)
                 THEN ends[n - 1] \cup {n} ELSE ends[n - 1]
    IN ends[Len(bytes)]

\* StreamSearchCarry::regex_matches: the search goes on behind the last match.
RegexStep(c, s) ==
    LET goes == c.next = Offset(s)
        kept == IF goes THEN c.bytes ELSE <<>>
        bytes == kept \o text[s].data
        ends == Matches(bytes, IF goes THEN c.from ELSE 0)
    IN [hit |-> \E n \in ends : n > Len(kept) , carry |-> Carry(bytes, End(s), Max(ends))]

-----------------------------------------------------------------------------
(* query_files_with_limits *)

Query(e, after, through, dir, mode) ==
    [e |-> e, after |-> after, through |-> through, dir |-> dir, mode |-> mode,
     phase |-> "list", names |-> {}, desc |-> {}, avail |-> 0, todo |-> {}, used |-> 0,
     events |-> <<>>, gaps |-> {}, last |-> after, cut |-> FALSE, chain |-> after, before |-> 0,
     rx |-> Clear, tx |-> Clear, failed |-> FALSE]

\* fs::read_dir: a name says whether the file is sealed, where it begins and, if it is
\* sealed, ends.  Entries are read one by one, so a file created meanwhile may be there too.
Names(e) == {<<i, files[i].sealed>> : i \in {j \in Ids : Here(j) /\ files[j].epoch = e}}

List ==
    /\ q # None /\ q.phase = "list"
    /\ q' = [q EXCEPT !.phase = "describe", !.names = Names(q.e)]
    /\ UNCHANGED <<text, writer, reader, calm>>

\* discover_epoch_segments_for_query: the names that overlap the page, and for a
\* search the last file before it.
Overlaps(n) ==
    /\ files[n[1]].first <= q.through
    /\ n[2] => LastOf(n[1]) > q.after
Seeds(names) ==
    LET old == {n \in names : n[2] /\ LastOf(n[1]) <= q.after /\ files[n[1]].first <= q.through}
    IN IF q.mode = "all" \/ old = {} THEN {} ELSE {CHOOSE n \in old : \A m \in old : m[1] <= n[1]}

\* It opens each; one that is gone, or has another name by now, is passed over.  The
\* end of an .open file is found by reading it.
Describe ==
    /\ q # None /\ q.phase = "describe"
    /\ \E later \in SUBSET {n \in Names(q.e) : \A m \in q.names : m[1] < n[1]} :
        LET names == q.names \cup later
            found == {n \in {m \in names : Overlaps(m)} \cup Seeds(names) :
                        Here(n[1]) /\ files[n[1]].sealed = n[2]}
            read == MapThenSumSet(LAMBDA n : IF n[2] THEN 0 ELSE Cardinality(files[n[1]].recs), found)
        IN q' = [q EXCEPT !.phase = "gaps", !.names = {}, !.used = read,
                          !.avail = IF names = {} THEN 0 ELSE Min({files[n[1]].first : n \in names}),
                          !.desc = {[id |-> n[1], sealed |-> n[2], last |-> LastOf(n[1])] : n \in found},
                          !.failed = read >= Budget]
    /\ UNCHANGED <<text, writer, reader, calm>>

\* load_query_gap_ranges; a list of ranges stands for the numbers that it covers.
LoadGaps ==
    /\ q # None /\ q.phase = "gaps" /\ ~q.failed
    /\ q' = [q EXCEPT !.phase = "scan", !.todo = {d.id : d \in q.desc},
                      !.gaps = {<<g[2], g[3]>> : g \in {x \in ledger : x[1] = q.e /\ x[2] > q.after
                                                                             /\ x[2] <= q.through}}]
    /\ UNCHANGED <<text, writer, reader, calm>>

Covered(gaps) == {g[1] : g \in gaps}

\* push_uncovered_gap
Uncovered(gaps, first, last, reason) ==
    gaps \cup {<<s, reason>> : s \in (first..last) \ Covered(gaps)}

\* cursor_progressed decides between a short page and an error.
OutOfBudget(p) == IF p.last > p.after THEN [p EXCEPT !.cut = TRUE, !.phase = "done"]
                  ELSE [p EXCEPT !.failed = TRUE]

InScope(p, s) == p.dir \in {None, text[s].dir}

\* The continuity of the page, and of the two streams.
Follow(p, s) ==
    LET hole == s > p.after /\ s > p.chain + 1
        clear == hole \/ (p.before # 0 /\ s # p.before + 1) \/ text[s].breaks
    IN [p EXCEPT !.gaps = IF hole THEN Uncovered(@, p.chain + 1, s - 1, "hole") ELSE @,
                 !.chain = IF s > p.after THEN Max({@, s}) ELSE @,
                 !.before = s,
                 !.rx = IF clear THEN Clear ELSE @, !.tx = IF clear THEN Clear ELSE @]

SearchStep(p, c, s) ==
    CASE ~InScope(p, s) -> [hit |-> FALSE, carry |-> Clear]
      [] p.mode = "contains" -> ContainsStep(c, s)
      [] p.mode = "regex" -> RegexStep(c, s)
      [] OTHER -> [hit |-> TRUE, carry |-> c]

Search(p, s) ==
    CASE text[s].dir = "rx" -> SearchStep(p, p.rx, s)
      [] text[s].dir = "tx" -> SearchStep(p, p.tx, s)
      [] OTHER -> [hit |-> InScope(p, s) /\ p.mode = "all", carry |-> Clear]

\* An event is passed over, ends the page, or is taken.
Take(p, s, hit) ==
    IF ~(s > p.after /\ hit)
    THEN LET r == [p EXCEPT !.last = Max({@, s})] IN IF r.used >= Budget THEN OutOfBudget(r) ELSE r
    ELSE IF Len(p.events) >= PageEvents THEN [p EXCEPT !.cut = TRUE, !.phase = "done"]
    ELSE LET r == [p EXCEPT !.last = Max({@, s}), !.events = Append(@, s)]
         IN IF r.used >= Budget THEN [r EXCEPT !.cut = TRUE, !.phase = "done"] ELSE r

WithCarry(p, s, found) ==
    Take([p EXCEPT !.rx = IF text[s].dir = "rx" THEN found.carry ELSE @,
                   !.tx = IF text[s].dir = "tx" THEN found.carry ELSE @], s, found.hit)
Searched(p, s) == WithCarry(p, s, Search(p, s))

Record(p, s) ==
    IF p.phase = "done" \/ p.failed THEN p
    ELSE IF s > p.through THEN [p EXCEPT !.phase = "done"]
    ELSE Searched(Follow([p EXCEPT !.used = @ + 1], s), s)

\* RecordRead::Invalid: a damaged record of a sealed file, or the tail of the .open
\* file that the writer is at.
Invalid(p, d, good) ==
    IF p.phase = "done" \/ p.failed THEN p
    ELSE [p EXCEPT !.rx = Clear, !.tx = Clear, !.cut = @ \/ ~d.sealed,
                   !.gaps = IF d.last = 0 THEN @
                            ELSE @ \cup {<<s, "corrupt">> : s \in good + 1 .. d.last}]

\* The records of a file, in order.
ReadFile(p, d, recs, torn) ==
    LET sorted == SetToSortSeq({s \in recs : s < files[d.id].bad}, <)
        scan[n \in 0..Len(sorted)] == IF n = 0 THEN p ELSE Record(scan[n - 1], sorted[n])
        good == IF sorted = <<>> THEN files[d.id].first - 1 ELSE sorted[Len(sorted)]
    IN IF torn THEN Invalid(scan[Len(sorted)], d, good) ELSE scan[Len(sorted)]

Scan ==
    /\ q # None /\ q.phase = "scan" /\ ~q.failed /\ q.todo # {}
    /\ LET i == Min(q.todo)
           d == CHOOSE x \in q.desc : x.id = i
           p == [q EXCEPT !.todo = @ \ {i}]
       IN IF files[i].first > q.through THEN q' = [q EXCEPT !.phase = "done"]
          ELSE IF q.used >= Budget THEN q' = OutOfBudget(q)
          ELSE IF ~Here(i) \/ files[i].sealed # d.sealed THEN q' = p        \* NotFound
          ELSE \E torn \in IF d.sealed THEN {files[i].bad \in files[i].recs} ELSE BOOLEAN :
                    q' = ReadFile(p, d, files[i].recs, torn)
    /\ UNCHANGED <<text, writer, reader, calm>>

\* What was deleted before the first file that is listed.
Answer(p) ==
    [p EXCEPT !.gaps = IF p.avail = 0 THEN @
                       ELSE Uncovered(@, p.after + 1, Min({p.avail - 1, p.through}), "retention")]

-----------------------------------------------------------------------------
(* list_archive_files: the newest epoch first.  It reads the files one after the     *)
(* other; those renamed or deleted on the way are passed over. *)

Archive(e, ids) == [e |-> e, first |-> Min({files[i].first : i \in ids}),
                    last |-> Max({LastOf(i) : i \in ids})]
Catalog(skipped) ==
    LET seen(e) == {i \in Ids \ skipped : Here(i) /\ files[i].epoch = e}
        all[e \in 0..MaxEpoch] ==
            IF e = 0 THEN <<>>
            ELSE (IF seen(e) = {} THEN <<>> ELSE <<Archive(e, seen(e))>>) \o all[e - 1]
    IN all[MaxEpoch]
\* A file that the writer seals or deletes just then.
MayMiss == {{}} \cup {{i} : i \in {j \in Ids : Open(j)}}

-----------------------------------------------------------------------------
(* The readers.  Each handles an answer as soon as it is there. *)

Reader(kind) == [kind |-> kind, how |-> "idle", mode |-> "all", e |-> 0, first |-> 0, through |-> 0,
                 after |-> 0, got |-> {}, gaps |-> {}, pages |-> 0, partial |-> FALSE,
                 archives |-> <<>>, dirs |-> <<>>, heads |-> [e \in Epochs |-> 0],
                 from |-> [e \in Epochs |-> 0], doubled |-> FALSE]

Answered(r, next) == reader' = r /\ q' = next
Ended(r, how) == Answered(IF how \in {"failed", "cancelled"} THEN [Reader(r.kind) EXCEPT !.how = how]
                          ELSE [r EXCEPT !.how = how], None)
Page(r, e, after, through, dir) == Answered(r, Query(e, after, through, dir, r.mode))

Took(r, p) == [r EXCEPT !.got = @ \cup {<<p.e, p.events[n]>> : n \in 1..Len(p.events)},
                        !.doubled = @ \/ \E n \in 1..Len(p.events) : <<p.e, p.events[n]>> \in r.got,
                        !.gaps = @ \cup {<<p.e, s>> : s \in Covered(p.gaps)}]

\* execute_exact_evidence_query: the events first..through of an incident or of a command.
StartExact(first, through) ==
    /\ reader.how = "idle" /\ reader.kind = "exact" /\ through <= head
    /\ Page([reader EXCEPT !.how = "paging", !.e = epoch, !.first = first, !.through = through,
                           !.after = first - 1, !.pages = 1],
            epoch, first - 1, through, None)
    /\ calm' = (\A s \in first..through : Retained(epoch, s) /\ \A g \in ledger : g[1] = epoch => g[2] # s)
    /\ UNCHANGED <<text, writer>>

ExactAnswer(r, p) ==
    LET wanted == {<<r.e, s>> : s \in r.first..r.through}
        told == wanted \cap r.gaps
    IN IF p.avail > r.first THEN Ended(r, "gap")
       ELSE IF wanted \subseteq r.got
       THEN IF told # {} THEN Ended(r, "gap") ELSE Ended(r, "complete")
       ELSE IF ~(p.last > r.after /\ p.last < r.through /\ p.cut)
       THEN IF r.gaps # {} THEN Ended(r, "gap") ELSE Ended(r, "incomplete")
       ELSE IF r.pages >= ClientPages THEN Ended(r, "limit")
       ELSE Page([r EXCEPT !.after = p.last, !.pages = @ + 1], r.e, p.last, r.through, None)

\* execute_output_search: the archives of the scope, the newest first; in each the
\* directions take turns.
NextArchive(r) ==
    LET a == r.archives[1]
    IN Page([r EXCEPT !.dirs = << <<"rx", a.first - 1>>, <<"tx", a.first - 1>> >>, !.pages = @ + 1],
            a.e, a.first - 1, a.last, "rx")

\* retain_newest_output_search_events
Rank(x) == x[1] * (MaxSeq + 1) + x[2]
Retain(r) ==
    IF Cardinality(r.got) <= Newest THEN r
    ELSE LET kept == {x \in r.got : Cardinality({y \in r.got : Rank(y) > Rank(x)}) < Newest}
         IN [r EXCEPT !.got = kept, !.partial = TRUE]

RangeOf(r, e) ==
    LET own == {n \in 1..Len(r.archives) : r.archives[n].e = e}
    IN IF own = {} THEN [first |-> 1, last |-> 0] ELSE r.archives[Max(own)]

StartSearch(scope, mode) ==
    /\ reader.how = "idle" /\ reader.kind = "search" /\ head > 0
    /\ \E skipped \in MayMiss :
        LET r == [reader EXCEPT !.how = "paging", !.mode = mode,
                    !.archives = IF scope = "epoch" THEN <<[e |-> epoch, first |-> 1, last |-> head]>>
                                 ELSE Catalog(skipped)]
        IN IF r.archives = <<>> THEN Ended(r, "complete")
           ELSE NextArchive([r EXCEPT !.heads = [e \in Epochs |-> RangeOf(r, e).last],
                                      !.from = [e \in Epochs |-> RangeOf(r, e).first - 1]])
    /\ UNCHANGED <<text, writer, calm>>

\* Mutant of PageProgress: a page that is not cut is the end of the range.
ProgressTrusting(after, through, p) ==
    IF p.last >= through \/ ~p.cut THEN "complete" ELSE IF p.last > after THEN "continue" ELSE "incomplete"

\* output_search_page_progress
PageProgress(after, through, p) ==
    IF p.last <= after THEN "incomplete"
    ELSE IF p.last >= through THEN "complete"
    ELSE IF p.cut THEN "continue" ELSE "incomplete"

SearchDone(r) ==
    LET rest == SubSeq(r.archives, 2, Len(r.archives))
    IN IF rest = <<>> THEN Ended(r, "complete")
       ELSE IF Cardinality(r.got) >= Newest THEN Ended([r EXCEPT !.partial = TRUE], "complete")
       ELSE IF r.pages >= ClientPages THEN Ended([r EXCEPT !.partial = TRUE], "complete")
       ELSE NextArchive([r EXCEPT !.archives = rest])

SearchAnswer(r0, p) ==
    LET r == Retain(r0)
        turn == Head(r.dirs)
        progress == PageProgress(turn[2], r.archives[1].last, p)
        rest == Tail(r.dirs)
        dirs == IF progress = "continue" THEN Append(rest, <<turn[1], p.last>>) ELSE rest
        s == [r EXCEPT !.partial = @ \/ progress = "incomplete", !.dirs = dirs]
    IN IF dirs = <<>> THEN SearchDone(s)
       ELSE IF s.pages >= ClientPages THEN Ended([s EXCEPT !.partial = TRUE], "complete")
       ELSE Page([s EXCEPT !.pages = @ + 1], r.archives[1].e, Head(dirs)[2], r.archives[1].last,
                 Head(dirs)[1])

\* replay: the catalog, oldest first; then, whenever the port's head has moved, what is
\* new of each epoch.  A range that is up to date is passed over.
NewRanges(r, all) ==
    SelectSeq(Reverse(all), LAMBDA a : a.last > (IF r.heads[a.e] = 0 THEN a.first - 1 ELSE r.heads[a.e]))

NextRange(r) ==
    IF r.archives = <<>> THEN Answered([r EXCEPT !.how = "watching"], None)
    ELSE LET a == r.archives[1]
             after == IF r.heads[a.e] = 0 THEN a.first - 1 ELSE r.heads[a.e]
         IN Page([r EXCEPT !.how = "paging", !.e = a.e, !.after = after, !.through = a.last,
                           !.from[a.e] = IF @ = 0 THEN a.first ELSE @],
                 a.e, after, a.last, None)

LoadHistory ==
    /\ reader.kind = "history"
    /\ \/ reader.how = "idle"
       \/ reader.how = "watching" /\ head > reader.heads[epoch]
    /\ \E skipped \in MayMiss :
        NextRange([reader EXCEPT !.archives = NewRanges(reader, Catalog(skipped)), !.pages = 0])
    /\ UNCHANGED <<text, writer, calm>>

\* read_range: the numbers that the events of a page pass over are told as well.
Missing(r, p) ==
    {<<p.e, s>> : s \in {x \in p.after + 1 .. Max({p.after} \cup Range(p.events)) :
                            x \notin Range(p.events)}}

HistoryAnswer(r0, p) ==
    LET seen == Max({p.after} \cup Range(p.events))
        r == [r0 EXCEPT !.gaps = @ \cup Missing(r0, p)]
    IN IF p.cut /\ (p.last <= p.after \/ p.last > p.through) THEN Ended(r0, "failed")
       ELSE IF ~p.cut /\ seen < p.through /\ ~\E s \in Covered(p.gaps) : s >= p.through
       THEN Ended(r0, "failed")
       ELSE IF p.cut /\ p.last < p.through
       THEN Page([r EXCEPT !.after = p.last], r.e, p.last, r.through, None)
       ELSE NextRange([r EXCEPT !.heads[r.e] = r.through, !.archives = Tail(@)])

\* load_startup_history: what the console shows before it attaches to the ring at the
\* cursor that it has come to.  An answer with a gap outside the page is refused.
StartStartup ==
    /\ reader.how = "idle" /\ reader.kind = "startup" /\ head > 0
    /\ Page([reader EXCEPT !.how = "paging", !.e = epoch, !.through = head, !.pages = 1],
            epoch, 0, head, None)
    /\ UNCHANGED <<text, writer, calm>>

Limited(r) == Ended([r EXCEPT !.partial = TRUE], "complete")

StartupAnswer(r, p) ==
    LET s == [Took(r, p) EXCEPT !.after = p.last]
    IN IF Covered(p.gaps) \ (p.after + 1 .. p.through) # {} THEN Limited(r)
       ELSE IF ~p.cut \/ p.last >= p.through
       THEN Ended([s EXCEPT !.partial = p.last = 0], "complete")
       ELSE IF p.last <= p.after \/ s.pages >= ClientPages THEN Limited(s)
       ELSE Page([s EXCEPT !.pages = @ + 1], r.e, p.last, r.through, None)

Finished(p) == p.failed \/ p.phase = "done" \/ (p.phase = "scan" /\ p.todo = {})

Deliver(r, p) ==
    CASE r.kind = "exact" -> ExactAnswer(Took(r, p), p)
      [] r.kind = "search" -> SearchAnswer(Took(r, p), p)
      [] r.kind = "history" -> HistoryAnswer(Took(r, p), p)
      [] OTHER -> StartupAnswer(r, p)

Respond ==
    /\ q # None /\ Finished(q)
    /\ IF q.failed THEN IF reader.kind = "startup" THEN Limited(reader) ELSE Ended(reader, "failed")
       ELSE Deliver(reader, Answer(q))
    /\ UNCHANGED <<text, writer, calm>>

\* The user drops the search or the index; the task is aborted.
Cancel ==
    /\ reader.how \in {"paging", "watching"} /\ Ended(reader, "cancelled")
    /\ UNCHANGED <<text, writer, calm>>

\* The daemon restarts: recovery seals what was open.  A query that ran fails.
Restart ==
    /\ Followed /\ Fault /\ epoch < MaxEpoch /\ owed = {} /\ head > 0
    /\ files' = [i \in Ids |-> [files[i] EXCEPT !.sealed = TRUE]]
    /\ epoch' = epoch + 1 /\ head' = 0 /\ calm' = FALSE
    /\ IF q = None THEN UNCHANGED <<q, reader>> ELSE Ended(reader, "failed")
    /\ UNCHANGED <<text, ledger, owed>>

-----------------------------------------------------------------------------

Init ==
    /\ reader \in {Reader("exact"), Reader("search"), Reader("history"), Reader("startup")}
    /\ text \in IF reader.kind = "search" THEN Texts ELSE {CHOOSE t \in Texts : TRUE}
    /\ files = <<>> /\ epoch = 1 /\ head = 0 /\ ledger = {} /\ owed = {} /\ faults = 0
    /\ q = None /\ calm = FALSE

Next ==
    \/ AppendRecord \/ LoseEvent \/ Seal \/ Prune \/ RecordPruned \/ Damage \/ Restart
    \/ List \/ Describe \/ LoadGaps \/ Scan \/ Respond \/ Cancel
    \/ \E first, through \in Seqs : first <= through /\ StartExact(first, through)
    \/ StartSearch("epoch", "regex") \/ StartSearch("retained", "contains")
    \/ LoadHistory \/ StartStartup

Spec == Init /\ [][Next]_vars

-----------------------------------------------------------------------------
(* Correctness *)

TypeOK ==
    /\ text \in Texts /\ epoch \in Epochs /\ head \in 0..MaxSeq /\ faults \in 0..MaxFaults
    /\ \A i \in Ids : files[i].recs \subseteq Seqs /\ files[i].first \in Seqs
    /\ \A g \in ledger \cup owed : g[1] \in Epochs /\ g[2] \in Seqs
    /\ reader.how \in {"idle", "paging", "watching", "complete", "gap", "incomplete", "limit",
                       "failed", "cancelled"}
    /\ (q # None) = (reader.how = "paging")
    /\ q # None => q.last \in q.after..MaxSeq /\ Range(q.events) \subseteq Seqs

\* Event s ends an occurrence of the needle in what a page that comes to s is sure to
\* have read before it: the rest of its file, and the file before.
Ends(e, s, from) ==
    LET m == Max({from} \cup {x \in from..s : text[x].breaks})
        stream == FlattenSeq([n \in 1..s - m + 1 |->
                    IF text[m + n - 1].dir = text[s].dir THEN text[m + n - 1].data ELSE <<>>])
    IN \E i \in 1..Len(stream) : OccursAt(stream, i) /\ i + Len(Needle) - 1 > Len(stream) - Len(text[s].data)

Promised(e, s) ==
    \E k \in Ids : /\ Here(k) /\ Holds(k, e, s) /\ s < files[k].bad
                   /\ \E from \in 1..s :
                        /\ \A x \in from..s : \E j \in {k - 1, k} \cap Ids :
                                Here(j) /\ Holds(j, e, x) /\ x < files[j].bad
                        /\ Ends(e, s, from)
Recorded(e, s) == \E i \in Ids : Holds(i, e, s)

\* A page's cursor passes no event that is neither returned nor told as a gap, but for
\* those that were recorded and do not match; and what is returned matches.
PageAccounts ==
    (q # None /\ Finished(q) /\ ~q.failed) =>
        LET p == Answer(q)
        IN /\ \A s \in p.after + 1 .. p.last :
                \/ s \in Range(p.events) \/ s \in Covered(p.gaps)
                \/ /\ Recorded(p.e, s) /\ p.mode # "all"
                   /\ p.mode = "contains" /\ text[s].dir = p.dir => ~Promised(p.e, s)
           /\ p.mode # "all" => \A n \in 1..Len(p.events) : \E from \in 1..p.events[n] : Ends(p.e, p.events[n], from)
           /\ \A n \in 1..Len(p.events) - 1 : p.events[n] < p.events[n + 1]

\* A search that is not called partial has found, or told as gaps, all that was in its
\* ranges, whatever the journal did meanwhile.
SearchComplete ==
    (reader.kind = "search" /\ reader.how = "complete" /\ ~reader.partial) =>
        \A e \in Epochs : \A s \in reader.from[e] + 1 .. reader.heads[e] :
            \/ <<e, s>> \in reader.got \cup reader.gaps
            \/ /\ Recorded(e, s)
               /\ reader.mode = "contains" /\ text[s].dir \in {"rx", "tx"} => ~Promised(e, s)

\* While the index says that it is up to date, every event of what it covers is in it
\* once, or its absence is noted.  (A file deleted while a damaged one behind it is read
\* can be missed: the corruption gap passes for the end of the range.)
HistoryComplete ==
    (reader.kind = "history" /\ reader.how # "failed") =>
        /\ ~reader.doubled
        /\ \A e \in Epochs : (reader.heads[e] > 0 /\ \A i \in Ids : files[i].epoch = e => files[i].bad > MaxSeq) =>
            \A s \in reader.from[e]..reader.heads[e] : <<e, s>> \in reader.got \cup reader.gaps

\* Exact evidence has no gap, and is shown whenever it is there and no file is renamed,
\* deleted or damaged while it is read.
ExactSound ==
    reader.kind = "exact" =>
        /\ reader.how = "complete" =>
            \A s \in reader.first..reader.through :
                <<reader.e, s>> \in reader.got \ reader.gaps
        /\ reader.how \in {"gap", "incomplete"} => ~calm

\* Where the console attaches to the ring, everything before is shown or told.
StartupSound ==
    (reader.kind = "startup" /\ reader.how = "complete") =>
        /\ \A s \in 1..reader.after : <<reader.e, s>> \in reader.got \cup reader.gaps
        /\ reader.after = 0 => reader.partial

=============================================================================
