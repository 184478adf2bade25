------------------------------ MODULE Journal ------------------------------
(***************************************************************************)
(* The journal of seriald: the writer thread that appends one port's events *)
(* to segment files, seals and retires them, and recovers them at startup.  *)
(*                                                                         *)
(* The writer serves one command at a time, but the process can be killed   *)
(* between any two of its file operations, so each operation is an action.  *)
(* What write_all and rename did before the kill stays: the model is of a   *)
(* process that dies, not of a machine that loses power.  Sequence numbers  *)
(* start again with every daemon epoch.  Sizes are counted in records;      *)
(* headers, torn tails and the ledger are not counted.                      *)
(***************************************************************************)
EXTENDS Naturals, FiniteSets

CONSTANTS
    None,
    MaxEpoch, MaxSeq, MaxFiles,     \* bounds on the counters
    SegmentRecords,                 \* max_segment_bytes
    TotalRecords,                   \* max_total_bytes
    LowWater                        \* max_total_bytes * cleanup_low_watermark

ASSUME BoundsAssumption ==
    /\ MaxEpoch \in Nat /\ MaxSeq \in Nat /\ MaxFiles \in Nat
    /\ TotalRecords \in Nat \ {0}
    /\ SegmentRecords \in 1..TotalRecords
    /\ LowWater \in 0..TotalRecords

Epochs == 1..MaxEpoch
Seqs == 1..MaxSeq
Files == 1..MaxFiles        \* in the order of their creation

\* A segment file.  recs are the complete records; torn says that a partial
\* record follows them, header that the segment header is complete.
Segment == [epoch : Epochs, first : Seqs, recs : SUBSET Seqs,
            header : BOOLEAN, torn : BOOLEAN, sealed : BOOLEAN]
Command == [kind : {"append", "start", "finish"},
            phase : {"gap", "rotate", "space", "prune", "ledger", "create", "header", "write"},
            todo : SUBSET Files, gap : SUBSET (Epochs \X Seqs), failed : BOOLEAN]

ASSUME AbsentAssumption == None \notin Segment /\ None \notin Command /\ None \notin Files

VARIABLES
    status,     \* of the daemon's journal
    epoch,      \* daemon_epoch
    seq,        \* the Slot's last sequence number
    head,       \* heads of the current stream
    files,      \* the segment files
    made,       \* how many files were created
    cur,        \* open_segments of the current stream
    op,         \* what the writer is doing
    ledger,     \* the sequence numbers the gap ledger reports
    acked,      \* what was acknowledged as durable
    pruned      \* what retention deleted

vars == <<status, epoch, seq, head, files, made, cur, op, ledger, acked, pruned>>
stream == <<epoch, seq, head>>
log == <<ledger, acked, pruned>>

-----------------------------------------------------------------------------

Exists(i) == files[i] # None
RecordsOf(i) == {<<files[i].epoch, s>> : s \in files[i].recs}

\* What a scan of the files finds.
Readable == UNION {RecordsOf(i) : i \in {j \in Files : Exists(j)}}

Sealed == {i \in Files : Exists(i) /\ files[i].sealed}
HeadersValid == \A i \in Files : Exists(i) => files[i].header

Doing(phase) == op # None /\ op.phase = phase
Goto(phase) == op' = [op EXCEPT !.phase = phase]

\* The command's result is sent; a failed start leaves no daemon.
Finished(ok) ==
    /\ op' = None
    /\ status' = IF op.kind = "append" \/ (op.kind = "start" /\ ok) THEN "up" ELSE "down"

NewCommand(kind, phase) ==
    [kind |-> kind, phase |-> phase, todo |-> {}, gap |-> {}, failed |-> FALSE]

Number == /\ status = "up" /\ op = None
          /\ seq < MaxSeq
          /\ seq' = seq + 1

\* The Slot numbers an event that try_append then refuses: the queue is full.
DropEvent ==
    /\ Number
    /\ UNCHANGED <<status, epoch, head, files, made, cur, op, log>>

StartAppend ==
    /\ Number
    /\ op' = NewCommand("append", IF seq + 1 > head + 1 THEN "gap" ELSE "rotate")
    /\ UNCHANGED <<status, epoch, head, files, made, cur, log>>

\* Numbers the writer never saw, or failed to write, are reported first.
RecordGap ==
    /\ Doing("gap")
    /\ ledger' = ledger \cup {<<epoch, s>> : s \in head + 1 .. seq - 1}
    /\ Goto("rotate")
    /\ UNCHANGED <<status, stream, files, made, cur, acked, pruned>>

\* The ledger's append fails, with its line written or not.
RecordGapFails(written) ==
    /\ Doing("gap")
    /\ ledger' = IF written THEN ledger \cup {<<epoch, s>> : s \in head + 1 .. seq - 1} ELSE ledger
    /\ Finished(FALSE)
    /\ UNCHANGED <<stream, files, made, cur, acked, pruned>>

\* should_rotate: the next record does not fit, or the segment is old.  An
\* empty segment is never rotated.
KeepSegment ==
    /\ Doing("rotate")
    /\ cur # None => Cardinality(files[cur].recs) < SegmentRecords
    /\ Goto("space")
    /\ UNCHANGED <<status, stream, files, made, cur, log>>

Rotate ==
    /\ Doing("rotate")
    /\ cur # None /\ files[cur].recs # {}
    /\ files' = [files EXCEPT ![cur].sealed = TRUE]
    /\ cur' = None
    /\ Goto("space")
    /\ UNCHANGED <<status, stream, made, log>>

\* seal fails: the file stays unsealed, and is not written to any more.
RotateFails ==
    /\ Doing("rotate")
    /\ cur # None /\ files[cur].recs # {}
    /\ cur' = None
    /\ Finished(FALSE)
    /\ UNCHANGED <<stream, files, made, log>>

-----------------------------------------------------------------------------
(* Retention *)

Needed == IF op.kind = "append" THEN 1 ELSE 0
Fits == Cardinality(Readable) + Needed <= TotalRecords
Cleaned == Cardinality(Readable) <= LowWater /\ Fits

\* Room is made: what the command does next.
Continue ==
    IF op.kind = "append"
    THEN Goto(IF cur = None THEN "create" ELSE "write") /\ UNCHANGED status
    ELSE Finished(TRUE)

EnsureCapacity ==
    /\ Doing("space") /\ Fits
    /\ Continue
    /\ UNCHANGED <<stream, files, made, cur, log>>

\* enforce_retention lists the sealed segments, which a file without a
\* complete header prevents.
EnforceRetention ==
    /\ Doing("space") /\ ~Fits
    /\ HeadersValid
    /\ op' = [op EXCEPT !.phase = "prune", !.todo = Sealed]
    /\ UNCHANGED <<status, stream, files, made, cur, log>>

\* Retention is backing off after a failure, or cannot list the segments.
NoCapacity ==
    /\ Doing("space") /\ ~Fits
    /\ Finished(FALSE)
    /\ UNCHANGED <<stream, files, made, cur, log>>

Oldest(i) == i \in op.todo /\ \A j \in op.todo : i <= j

\* Mutant of Prune: the gap is the range up to the writer's head.
PruneToHead(i) ==
    /\ Doing("prune") /\ ~Cleaned
    /\ Oldest(i)
    /\ files' = [files EXCEPT ![i] = None]
    /\ pruned' = pruned \cup RecordsOf(i)
    /\ op' = [op EXCEPT !.phase = "ledger", !.todo = @ \ {i},
                        !.gap = {<<files[i].epoch, s>> : s \in files[i].first .. head}]
    /\ UNCHANGED <<status, stream, made, cur, ledger, acked>>

\* The file goes first and is reported afterwards.
Prune(i) ==
    /\ Doing("prune") /\ ~Cleaned
    /\ Oldest(i)
    /\ files' = [files EXCEPT ![i] = None]
    /\ pruned' = pruned \cup RecordsOf(i)
    /\ op' = [op EXCEPT !.phase = "ledger", !.todo = @ \ {i},
                        !.gap = {<<files[i].epoch, s>> :
                                   s \in {t \in Seqs : /\ files[i].first <= t
                                                       /\ \E u \in files[i].recs : t <= u}}]
    /\ UNCHANGED <<status, stream, made, cur, ledger, acked>>

\* A file that cannot be removed is passed over; the cleanup fails at its end.
PruneFails(i) ==
    /\ Doing("prune") /\ ~Cleaned
    /\ Oldest(i)
    /\ op' = [op EXCEPT !.todo = @ \ {i}, !.failed = TRUE]
    /\ UNCHANGED <<status, stream, files, made, cur, log>>

RecordPruned ==
    /\ Doing("ledger")
    /\ ledger' = ledger \cup op.gap
    /\ op' = [op EXCEPT !.phase = "prune", !.gap = {}]
    /\ UNCHANGED <<status, stream, files, made, cur, acked, pruned>>

RecordPrunedFails(written) ==
    /\ Doing("ledger")
    /\ ledger' = IF written THEN ledger \cup op.gap ELSE ledger
    /\ Finished(FALSE)
    /\ UNCHANGED <<stream, files, made, cur, acked, pruned>>

\* Mutant of RetentionEnds: it waits until the cleanup has succeeded.
RetentionWaits ==
    /\ Doing("prune") /\ Cleaned /\ ~op.failed
    /\ Continue
    /\ UNCHANGED <<stream, files, made, cur, log>>

RetentionEnds ==
    /\ Doing("prune") /\ (Cleaned \/ op.todo = {})
    /\ IF Cleaned /\ ~op.failed THEN Continue ELSE Finished(FALSE)
    /\ UNCHANGED <<stream, files, made, cur, log>>

-----------------------------------------------------------------------------
(* Writing *)

\* Mutant of CreateSegment: first_seq is taken from the stream's head.
CreateSegmentAtHead ==
    /\ Doing("create")
    /\ made < MaxFiles
    /\ files' = [files EXCEPT ![made + 1] =
                   [epoch |-> epoch, first |-> head, recs |-> {},
                    header |-> FALSE, torn |-> FALSE, sealed |-> FALSE]]
    /\ made' = made + 1
    /\ Goto("header")
    /\ UNCHANGED <<status, stream, cur, log>>

CreateSegment ==
    /\ Doing("create")
    /\ made < MaxFiles
    /\ files' = [files EXCEPT ![made + 1] =
                   [epoch |-> epoch, first |-> seq, recs |-> {},
                    header |-> FALSE, torn |-> FALSE, sealed |-> FALSE]]
    /\ made' = made + 1
    /\ Goto("header")
    /\ UNCHANGED <<status, stream, cur, log>>

WriteHeader ==
    /\ Doing("header")
    /\ files' = [files EXCEPT ![made].header = TRUE]
    /\ cur' = made
    /\ Goto("write")
    /\ UNCHANGED <<status, stream, made, log>>

\* No file is created, or the one created is left with what was written of
\* its header.
CreateFails ==
    /\ Doing("create") \/ Doing("header")
    /\ Finished(FALSE)
    /\ UNCHANGED <<stream, files, made, cur, log>>

\* human_history.record may still fail the command after the record is written.
WriteRecord(acknowledged) ==
    /\ Doing("write")
    /\ files' = [files EXCEPT ![cur].recs = @ \cup {seq}]
    /\ head' = seq
    /\ acked' = IF acknowledged THEN acked \cup {<<epoch, seq>>} ELSE acked
    /\ Finished(acknowledged)
    /\ UNCHANGED <<epoch, seq, made, cur, ledger, pruned>>

\* SegmentAppendError::Recovered: the partial record is cut off again.
WriteRecovered ==
    /\ Doing("write")
    /\ Finished(FALSE)
    /\ UNCHANGED <<stream, files, made, cur, log>>

\* SegmentAppendError::Poisoned: the segment is given up.
WritePoisoned ==
    /\ Doing("write")
    /\ files' = [files EXCEPT ![cur].torn = TRUE]
    /\ cur' = None
    /\ Finished(FALSE)
    /\ UNCHANGED <<stream, made, log>>

-----------------------------------------------------------------------------
(* Shutdown, crash and recovery *)

\* finish: the open segment is sealed, or removed if it is empty, or sealing
\* fails; then retention runs once more.
Finish(sealing) ==
    /\ status = "up" /\ op = None
    /\ IF cur # None /\ sealing
       THEN files' = [files EXCEPT ![cur] = IF @.recs = {} THEN None ELSE [@ EXCEPT !.sealed = TRUE]]
       ELSE UNCHANGED files
    /\ cur' = None
    /\ op' = NewCommand("finish", "space")
    /\ UNCHANGED <<status, stream, made, log>>

\* What was written of the record: nothing, a part of it, or all.
Interrupted(f, written) ==
    [f EXCEPT !.torn = @ \/ written = "part",
              !.recs = IF written = "all" THEN @ \cup {seq} ELSE @]

\* The process is killed; a record being written is lost, torn or complete.
Crash(written) ==
    /\ status \in {"up", "recovering"}
    /\ status' = "down"
    /\ op' = None
    /\ cur' = None
    /\ files' = IF Doing("write") THEN [files EXCEPT ![cur] = Interrupted(@, written)] ELSE files
    /\ written # "none" => Doing("write")
    /\ UNCHANGED <<stream, made, log>>

\* Mutant of Open: a restarted daemon goes on in the epoch of the last one.
OpenSameEpoch ==
    /\ status \in {"down", "refused"}
    /\ status' = "recovering"
    /\ epoch' = 1
    /\ seq' = 0 /\ head' = 0
    /\ UNCHANGED <<files, made, cur, op, log>>

\* JournalManager::open in a new daemon epoch.
Open ==
    /\ status \in {"down", "refused"}
    /\ epoch < MaxEpoch
    /\ status' = "recovering"
    /\ epoch' = epoch + 1
    /\ seq' = 0 /\ head' = 0
    /\ UNCHANGED <<files, made, cur, op, log>>

Unfinished(i) == status = "recovering" /\ op = None /\ Exists(i) /\ ~files[i].sealed

\* Mutant of RecoverSegment: a torn segment is removed.
RecoverCleanOnly(i) ==
    /\ Unfinished(i) /\ files[i].header
    /\ files' = [files EXCEPT ![i] = IF @.recs = {} \/ @.torn THEN None
                                     ELSE [@ EXCEPT !.sealed = TRUE]]
    /\ UNCHANGED <<status, stream, made, cur, op, log>>

\* recover_open_segment: the valid prefix is sealed, an empty file removed.
RecoverSegment(i) ==
    /\ Unfinished(i) /\ files[i].header
    /\ files' = [files EXCEPT ![i] = IF @.recs = {} THEN None
                                     ELSE [@ EXCEPT !.torn = FALSE, !.sealed = TRUE]]
    /\ UNCHANGED <<status, stream, made, cur, op, log>>

\* read_segment_header reports an incomplete header as corruption, and
\* JournalManager::open fails with it.
RefuseStart(i) ==
    /\ Unfinished(i) /\ ~files[i].header
    /\ status' = "refused"
    /\ UNCHANGED <<stream, files, made, cur, op, log>>

Recovered ==
    /\ status = "recovering" /\ op = None
    /\ \A i \in Files : ~Unfinished(i)
    /\ op' = NewCommand("start", "space")
    /\ UNCHANGED <<status, stream, files, made, cur, log>>

\* The bound on epochs is reached.
Ended == status \in {"down", "refused"} /\ epoch = MaxEpoch /\ UNCHANGED vars

Init ==
    /\ status = "down"
    /\ epoch = 0 /\ seq = 0 /\ head = 0
    /\ files = [i \in Files |-> None]
    /\ made = 0
    /\ cur = None
    /\ op = None
    /\ ledger = {} /\ acked = {} /\ pruned = {}

WriterStep ==
    \/ RecordGap
    \/ \E written \in BOOLEAN : RecordGapFails(written)
    \/ KeepSegment \/ Rotate \/ RotateFails
    \/ EnsureCapacity \/ EnforceRetention \/ NoCapacity
    \/ \E i \in Files : Prune(i) \/ PruneFails(i)
    \/ RecordPruned
    \/ \E written \in BOOLEAN : RecordPrunedFails(written)
    \/ RetentionEnds
    \/ CreateSegment \/ WriteHeader \/ CreateFails
    \/ \E acknowledged \in BOOLEAN : WriteRecord(acknowledged)
    \/ WriteRecovered \/ WritePoisoned

Next ==
    \/ DropEvent \/ StartAppend
    \/ WriterStep
    \/ \E sealing \in BOOLEAN : Finish(sealing)
    \/ \E written \in {"none", "part", "all"} : Crash(written)
    \/ Open
    \/ \E i \in Files : RecoverSegment(i) \/ RefuseStart(i)
    \/ Recovered
    \/ Ended

Spec == Init /\ [][Next]_vars

\* The writer thread runs.
FairSpec == Spec /\ WF_vars(WriterStep)

-----------------------------------------------------------------------------
(* Properties *)

\* The shape of the journal's state.
TypeOK ==
    /\ status \in {"down", "recovering", "up", "refused"}
    /\ epoch \in 0..MaxEpoch /\ seq \in 0..MaxSeq /\ head \in 0..MaxSeq
    /\ files \in [Files -> Segment \cup {None}]
    /\ made \in 0..MaxFiles
    /\ cur \in Files \cup {None}
    /\ op \in Command \cup {None}
    /\ ledger \in SUBSET (Epochs \X Seqs)
    /\ acked \in SUBSET (Epochs \X Seqs)
    /\ pruned \in SUBSET (Epochs \X Seqs)

\* An event acknowledged as durable stays readable until retention deletes it,
\* whatever fails or is killed in between: rotation, a poisoned segment, a torn
\* tail, recovery.
AckedKept == acked \subseteq Readable \cup pruned

\* The ledger never reports a number as missing that a reader can still find.
LedgerTruthful == ledger \cap Readable = {}

\* Within an epoch every record of a segment precedes the first number of any
\* later segment, so a scan in the order of first_seq is in the order of seq,
\* and a file name's range covers the file's records and no others.
SegmentsOrdered ==
    \A i, j \in Files :
        (i <= j /\ Exists(i) /\ Exists(j) /\ files[i].epoch = files[j].epoch) =>
            \A s \in files[i].recs : IF i = j THEN files[i].first <= s ELSE s < files[j].first

\* The journal never grows past its limit.
Bounded == Cardinality(Readable) <= TotalRecords

\* Segments are in order and no more than the limit.
SegmentsSound == SegmentsOrdered /\ Bounded

\* Every command the writer takes is answered: retention is not a loop it
\* cannot leave.
CommandEnds == (op # None) ~> (op = None)

\* What a query of an epoch tells: the ledger's gaps, and every number below a
\* record it finds.
Told == ledger \cup {n \in Epochs \X Seqs :
                        \E t \in Seqs : n[2] <= t /\ <<n[1], t>> \in Readable}

\* "A crash between deletion and this small ledger append is still made visible
\* by query's synthetic leading gap."
DeletionVisible == status = "down" => pruned \subseteq Told

=============================================================================
