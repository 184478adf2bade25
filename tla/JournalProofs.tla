--------------------------- MODULE JournalProofs ---------------------------
(***************************************************************************)
(* Proofs about the journal, for every number of epochs, events and files    *)
(* and every limit.                                                         *)
(***************************************************************************)
EXTENDS Journal, FiniteSetTheorems, TLAPS

-----------------------------------------------------------------------------
(* The inductive invariant *)

\* The daemon runs, or is starting.
Live == status \in {"up", "recovering"}
\* The writer is at an append.
Appending == op # None /\ op.kind = "append"

\* Which command the writer can be at, and in which state of the daemon.
CommandPlace ==
    /\ op # None => status = IF op.kind = "start" THEN "recovering" ELSE "up"
    /\ op # None /\ op.phase \notin {"space", "prune", "ledger"} => op.kind = "append"
    /\ op # None => op.todo \subseteq Sealed
    /\ op # None /\ op.phase # "ledger" => op.gap = {}
    /\ Live => epoch > 0
    /\ head <= seq /\ (Appending => head < seq)

\* The file that may be written to: the newest one, of this epoch and not sealed.
Writable(i) ==
    /\ i = made /\ i \in Files /\ Exists(i)
    /\ files[i].epoch = epoch /\ ~files[i].sealed /\ files[i].first <= seq

\* There is a current segment exactly where the writer needs one.
CurrentPlace ==
    /\ cur # None => status = "up" /\ Writable(cur)
    /\ Doing("header") => Writable(made)
    /\ Doing("create") \/ Doing("header") => cur = None
    /\ Doing("write") => cur # None
    /\ op # None /\ op.kind # "append" => cur = None

\* Files are numbered as they are made, and a file of this epoch holds no number
\* that the writer has not passed; a kill may leave one record ahead of the head.
NumbersUsed ==
    \A i \in Files : Exists(i) =>
        /\ i <= made /\ files[i].epoch <= epoch
        /\ files[i].epoch = epoch =>
              \A s \in files[i].recs : s <= seq /\ (Live => s <= head)

\* What is in the ledger, or about to be.
Reported == ledger \cup (IF op = None THEN {} ELSE op.gap)

\* It is not readable, and it is behind the number that is being written.
ReportedPast ==
    \A e \in Epochs, s \in Seqs : <<e, s>> \in Reported =>
        /\ <<e, s>> \notin Readable
        /\ e <= epoch
        /\ e = epoch => s <= seq /\ (Appending => s < seq)

\* A command that found room still has it when it writes.
RoomKept ==
    op # None /\ op.phase \in {"create", "header", "write"} =>
        Cardinality(Readable) + 1 <= TotalRecords

-----------------------------------------------------------------------------
(* Type correctness *)

USE BoundsAssumption, AbsentAssumption

\* The end of a command keeps the types of what it sets.
LEMMA FinishedType ==
    ASSUME TypeOK, op # None, NEW ok \in BOOLEAN, Finished(ok)
    PROVE  op' = None /\ status' \in {"up", "down"}
BY DEF Finished

\* A command in another phase is a command.
LEMMA GotoType ==
    ASSUME TypeOK, op # None,
           NEW phase \in {"gap", "rotate", "space", "prune", "ledger", "create", "header", "write"},
           Goto(phase)
    PROVE  op' \in Command /\ op' # None
BY DEF TypeOK, Goto, Command

\* Making room ends the command or takes it on.
LEMMA ContinueType ==
    ASSUME TypeOK, op # None, Continue
    PROVE  op' \in Command \cup {None} /\ status' \in {"down", "recovering", "up", "refused"}
BY GotoType, FinishedType DEF Continue, TypeOK

\* One file is replaced by a segment, or removed.
LEMMA UpdateType ==
    ASSUME files \in [Files -> Segment \cup {None}], NEW i \in Files, NEW v \in Segment \cup {None},
           files' = [files EXCEPT ![i] = v]
    PROVE  files' \in [Files -> Segment \cup {None}]
OBVIOUS

\* A sealed segment, and one whose torn end is cut off, are segments.
LEMMA SealType ==
    ASSUME NEW f \in Segment
    PROVE  /\ [f EXCEPT !.sealed = TRUE] \in Segment
           /\ [f EXCEPT !.torn = FALSE, !.sealed = TRUE] \in Segment
BY DEF Segment

\* Every step of the writer keeps every type.
LEMMA WriterType ==
    ASSUME TypeOK, CommandPlace, CurrentPlace, WriterStep
    PROVE  TypeOK'
<1>1. CASE RecordGap
  BY <1>1, GotoType DEF TypeOK, RecordGap, Doing, stream, CommandPlace, Live, Epochs, Seqs
<1>2. CASE \E written \in BOOLEAN : RecordGapFails(written)
  <2>1. PICK written \in BOOLEAN : RecordGapFails(written)
    BY <1>2
  <2>2. op' = None /\ status' \in {"up", "down"}
    BY <2>1, FinishedType DEF RecordGapFails, Doing
  <2>3. \A s \in head + 1 .. seq - 1 : <<epoch, s>> \in Epochs \X Seqs
    BY <2>1 DEF TypeOK, RecordGapFails, Doing, CommandPlace, Live, Epochs, Seqs
  <2>4. ledger' \in SUBSET (Epochs \X Seqs)
    BY <2>1, <2>3 DEF TypeOK, RecordGapFails
  <2> QED BY <2>1, <2>2, <2>4 DEF TypeOK, RecordGapFails, stream
<1>3. CASE KeepSegment
  BY <1>3, GotoType DEF TypeOK, KeepSegment, Doing, stream, log
<1>4. CASE Rotate
  BY <1>4, GotoType DEF TypeOK, Rotate, Doing, stream, log, Segment, CurrentPlace, Writable, Exists
<1>5. CASE RotateFails
  BY <1>5, FinishedType DEF TypeOK, RotateFails, Doing, stream, log
<1>6. CASE EnsureCapacity
  BY <1>6, ContinueType DEF TypeOK, EnsureCapacity, Doing, stream, log
<1>7. CASE EnforceRetention
  BY <1>7 DEF TypeOK, EnforceRetention, Doing, stream, log, Command, Sealed
<1>8. CASE NoCapacity
  BY <1>8, FinishedType DEF TypeOK, NoCapacity, Doing, stream, log
<1>9. CASE \E i \in Files : Prune(i)
  <2>1. PICK i \in Files : Prune(i)
    BY <1>9
  <2>2. Exists(i) /\ files[i] \in Segment
    BY <2>1 DEF TypeOK, Prune, Doing, Oldest, CommandPlace, Sealed, Exists
  <2>3. RecordsOf(i) \in SUBSET (Epochs \X Seqs)
    BY <2>2 DEF RecordsOf, Segment
  <2>4. {<<files[i].epoch, s>> : s \in {t \in Seqs : /\ files[i].first <= t
                                                     /\ \E u \in files[i].recs : t <= u}}
        \in SUBSET (Epochs \X Seqs)
    BY <2>2 DEF Segment
  <2>5. op \in Command /\ op.todo \ {i} \in SUBSET Files
    BY <2>1 DEF TypeOK, Prune, Doing, Command
  <2>6. op' \in Command
    BY <2>1, <2>4, <2>5 DEF Prune, Command
  <2> QED BY <2>1, <2>3, <2>6 DEF TypeOK, Prune, stream
<1>10. CASE \E i \in Files : PruneFails(i)
  <2>1. PICK i \in Files : PruneFails(i)
    BY <1>10
  <2>2. op \in Command /\ op.todo \ {i} \in SUBSET Files
    BY <2>1 DEF TypeOK, PruneFails, Doing, Command
  <2>3. op' \in Command
    BY <2>1, <2>2 DEF PruneFails, Command
  <2> QED BY <2>1, <2>3 DEF TypeOK, PruneFails, stream, log
<1>11. CASE RecordPruned
  BY <1>11 DEF TypeOK, RecordPruned, Doing, stream, Command
<1>12. CASE \E written \in BOOLEAN : RecordPrunedFails(written)
  BY <1>12, FinishedType DEF TypeOK, RecordPrunedFails, Doing, stream, Command
<1>13. CASE RetentionEnds
  BY <1>13, ContinueType, FinishedType DEF TypeOK, RetentionEnds, Doing, stream, log
<1>14. CASE CreateSegment
  BY <1>14, GotoType DEF TypeOK, CreateSegment, Doing, stream, log, Segment, CommandPlace, Appending,
     Live, Epochs, Seqs, Files
<1>15. CASE WriteHeader
  BY <1>15, GotoType DEF TypeOK, WriteHeader, Doing, stream, log, Segment, CurrentPlace, Writable, Exists
<1>16. CASE CreateFails
  BY <1>16, FinishedType DEF TypeOK, CreateFails, Doing, stream, log
<1>17. CASE \E acknowledged \in BOOLEAN : WriteRecord(acknowledged)
  BY <1>17, FinishedType DEF TypeOK, WriteRecord, Doing, stream, log, Segment, CurrentPlace, Writable, Exists,
     CommandPlace, Appending, Live, Epochs, Seqs
<1>18. CASE WriteRecovered
  BY <1>18, FinishedType DEF TypeOK, WriteRecovered, Doing, stream, log
<1>19. CASE WritePoisoned
  BY <1>19, FinishedType DEF TypeOK, WritePoisoned, Doing, stream, log, Segment, CurrentPlace, Writable, Exists
<1> QED BY <1>1, <1>2, <1>3, <1>4, <1>5, <1>6, <1>7, <1>8, <1>9, <1>10, <1>11, <1>12, <1>13, <1>14,
           <1>15, <1>16, <1>17, <1>18, <1>19 DEF WriterStep

\* So does every other step.
LEMMA StepType ==
    ASSUME TypeOK, CommandPlace, CurrentPlace, [Next]_vars
    PROVE  TypeOK'
<1>1. CASE DropEvent
  BY <1>1 DEF TypeOK, DropEvent, Number, log
<1>2. CASE StartAppend
  BY <1>2 DEF TypeOK, StartAppend, Number, log, NewCommand, Command
<1>3. CASE WriterStep
  BY <1>3, WriterType
<1>4. CASE \E sealing \in BOOLEAN : Finish(sealing)
  <2>1. PICK sealing \in BOOLEAN : Finish(sealing)
    BY <1>4
  <2>2. op' \in Command
    BY <2>1 DEF Finish, NewCommand, Command
  <2>3. CASE cur # None /\ sealing
    <3>1. cur \in Files /\ files[cur] \in Segment
      BY <2>3 DEF TypeOK, CurrentPlace, Writable, Exists
    <3>2. files' \in [Files -> Segment \cup {None}]
      BY <2>1, <2>3, <3>1, SealType, UpdateType DEF TypeOK, Finish
    <3> QED BY <2>1, <2>2, <3>2 DEF TypeOK, Finish, stream, log
  <2>4. CASE ~(cur # None /\ sealing)
    BY <2>1, <2>2, <2>4 DEF TypeOK, Finish, stream, log
  <2> QED BY <2>3, <2>4
<1>5. CASE \E written \in {"none", "part", "all"} : Crash(written)
  <2>1. PICK written \in {"none", "part", "all"} : Crash(written)
    BY <1>5
  <2>2. CASE ~Doing("write")
    BY <2>1, <2>2 DEF TypeOK, Crash, stream, log
  <2>3. CASE Doing("write")
    <3>1. cur \in Files /\ files[cur] \in Segment /\ seq \in Seqs
      BY <2>3 DEF TypeOK, Doing, CurrentPlace, Writable, Exists, CommandPlace, Appending, Seqs
    <3>2. Interrupted(files[cur], written) \in Segment
      BY <3>1 DEF Interrupted, Segment
    <3>3. files' \in [Files -> Segment \cup {None}]
      BY <2>1, <2>3, <3>1, <3>2, UpdateType DEF TypeOK, Crash
    <3> QED BY <2>1, <3>3 DEF TypeOK, Crash, stream, log
  <2> QED BY <2>2, <2>3
<1>6. CASE Open
  BY <1>6 DEF TypeOK, Open, log
<1>7. CASE \E i \in Files : RecoverSegment(i)
  <2>1. PICK i \in Files : RecoverSegment(i)
    BY <1>7
  <2>2. files[i] \in Segment
    BY <2>1 DEF TypeOK, RecoverSegment, Unfinished, Exists
  <2>3. files' \in [Files -> Segment \cup {None}]
    BY <2>1, <2>2, SealType, UpdateType DEF TypeOK, RecoverSegment
  <2> QED BY <2>1, <2>3 DEF TypeOK, RecoverSegment, stream, log
<1>8. CASE \E i \in Files : RefuseStart(i)
  BY <1>8 DEF TypeOK, RefuseStart, stream, log
<1>9. CASE Recovered
  BY <1>9 DEF TypeOK, Recovered, stream, log, NewCommand, Command
<1>10. CASE Ended \/ UNCHANGED vars
  BY <1>10 DEF TypeOK, Ended, vars
<1> QED BY <1>1, <1>2, <1>3, <1>4, <1>5, <1>6, <1>7, <1>8, <1>9, <1>10 DEF Next

-----------------------------------------------------------------------------
(* What a step does to the files *)

\* Segments are sealed, torn, cut or completed, and empty ones removed.
SameRecords ==
    /\ \A i \in Files : files'[i] # None =>
          /\ files[i] # None
          /\ files'[i].epoch = files[i].epoch /\ files'[i].first = files[i].first
          /\ files'[i].recs = files[i].recs
    /\ \A i \in Files : files[i] # None /\ files[i].recs # {} => files'[i] # None

\* The record of the number `seq` is added to the current segment.
RecordAdded ==
    /\ Doing("write") /\ cur \in Files
    /\ \A i \in Files \ {cur} : files'[i] = files[i]
    /\ files'[cur] # None
    /\ files'[cur].epoch = files[cur].epoch /\ files'[cur].first = files[cur].first
    /\ files'[cur].recs = files[cur].recs \cup {seq}

\* A step that changes no record and no count.
Quiet ==
    /\ SameRecords
    /\ UNCHANGED <<epoch, seq, head, made, acked, pruned>>
    /\ Live' => Live

\* A number is given out.
Numbering == Number /\ UNCHANGED <<status, epoch, head, files, made, acked, pruned>>

\* The record is written, or a kill leaves it complete.
Recording ==
    /\ RecordAdded
    /\ UNCHANGED <<epoch, seq, made, pruned>>
    /\ \/ head' = seq /\ acked' \subseteq acked \cup {<<epoch, seq>>}
       \/ head' = head /\ acked' = acked /\ ~Live'

\* Replacing one file by a segment with the same records, or an empty one by none.
LEMMA ReplaceSame ==
    ASSUME files \in [Files -> Segment \cup {None}], NEW i \in Files, files[i] # None,
           NEW v \in Segment \cup {None}, files' = [files EXCEPT ![i] = v],
           v = None => files[i].recs = {},
           v # None => v.epoch = files[i].epoch /\ v.first = files[i].first /\ v.recs = files[i].recs
    PROVE  SameRecords
BY DEF SameRecords

\* Sealing, tearing and cutting leave the records of a segment.
LEMMA SealRecords ==
    ASSUME NEW f \in Segment, NEW b \in BOOLEAN
    PROVE  /\ [f EXCEPT !.sealed = TRUE] \in Segment
           /\ [f EXCEPT !.sealed = TRUE].epoch = f.epoch
           /\ [f EXCEPT !.sealed = TRUE].first = f.first
           /\ [f EXCEPT !.sealed = TRUE].recs = f.recs
           /\ [f EXCEPT !.torn = FALSE, !.sealed = TRUE] \in Segment
           /\ [f EXCEPT !.torn = FALSE, !.sealed = TRUE].epoch = f.epoch
           /\ [f EXCEPT !.torn = FALSE, !.sealed = TRUE].first = f.first
           /\ [f EXCEPT !.torn = FALSE, !.sealed = TRUE].recs = f.recs
BY DEF Segment

\* What a kill leaves of a segment, and what a written record makes of it.
LEMMA WrittenRecords ==
    ASSUME NEW f \in Segment, NEW written \in {"none", "part", "all"}, seq \in Seqs
    PROVE  /\ Interrupted(f, written) \in Segment
           /\ Interrupted(f, written).epoch = f.epoch /\ Interrupted(f, written).first = f.first
           /\ Interrupted(f, written).recs = IF written = "all" THEN f.recs \cup {seq} ELSE f.recs
           /\ [f EXCEPT !.recs = @ \cup {seq}] \in Segment
           /\ [f EXCEPT !.recs = @ \cup {seq}].epoch = f.epoch
           /\ [f EXCEPT !.recs = @ \cup {seq}].first = f.first
           /\ [f EXCEPT !.recs = @ \cup {seq}].recs = f.recs \cup {seq}
<1>1. f.recs \in SUBSET Seqs /\ f.recs \cup {seq} \in SUBSET Seqs
  BY DEF Segment
<1>2. CASE written = "all"
  BY <1>1, <1>2 DEF Interrupted, Segment
<1>3. CASE written # "all"
  BY <1>1, <1>3 DEF Interrupted, Segment
<1> QED BY <1>2, <1>3

\* Every step is one of these.
LEMMA StepKinds ==
    ASSUME TypeOK, CommandPlace, CurrentPlace, [Next]_vars
    PROVE  Quiet \/ Numbering \/ Recording \/ CreateSegment \/ Open \/ \E i \in Files : Prune(i)
<1> USE DEF Quiet, SameRecords, Live
<1>0. files \in [Files -> Segment \cup {None}]
  BY DEF TypeOK
<1>1. CASE DropEvent \/ StartAppend
  BY <1>1 DEF DropEvent, StartAppend, Numbering, Number, log
<1>2. CASE WriterStep
  <2>1. CASE RecordGap \/ KeepSegment
    BY <2>1 DEF RecordGap, KeepSegment, stream, log
  <2>2. CASE \/ \E written \in BOOLEAN : RecordGapFails(written) \/ RecordPrunedFails(written)
             \/ RotateFails \/ NoCapacity \/ CreateFails \/ WriteRecovered
    BY <2>2 DEF RecordGapFails, RecordPrunedFails, RotateFails, NoCapacity, CreateFails, WriteRecovered,
       Finished, Doing, CommandPlace, stream, log
  <2>3. CASE Rotate
    BY <2>3 DEF Rotate, TypeOK, CurrentPlace, Writable, Exists, Segment, stream, log
  <2>4. CASE EnsureCapacity \/ RetentionEnds
    BY <2>4 DEF EnsureCapacity, RetentionEnds, Continue, Finished, Doing, CommandPlace, stream, log
  <2>5. CASE EnforceRetention \/ RecordPruned \/ \E i \in Files : PruneFails(i)
    BY <2>5 DEF EnforceRetention, RecordPruned, PruneFails, stream, log
  <2>6. CASE WriteHeader
    BY <2>6 DEF WriteHeader, TypeOK, CurrentPlace, Writable, Exists, Segment, stream, log
  <2>7. CASE \E acknowledged \in BOOLEAN : WriteRecord(acknowledged)
    <3>1. PICK acknowledged \in BOOLEAN : WriteRecord(acknowledged)
      BY <2>7
    <3>2. cur \in Files /\ files[cur] \in Segment /\ seq \in Seqs
      BY <3>1 DEF WriteRecord, TypeOK, Doing, CurrentPlace, Writable, Exists, CommandPlace, Appending, Seqs
    <3>3. files' = [files EXCEPT ![cur] = [files[cur] EXCEPT !.recs = @ \cup {seq}]]
      BY <3>1 DEF WriteRecord
    <3>4. RecordAdded
      BY <1>0, <3>1, <3>2, <3>3, WrittenRecords DEF WriteRecord, RecordAdded
    <3> QED BY <3>1, <3>4 DEF WriteRecord, Recording
  <2>8. CASE WritePoisoned
    BY <2>8 DEF WritePoisoned, Finished, Doing, CommandPlace, TypeOK, CurrentPlace, Writable, Exists, Segment, stream, log
  <2> QED BY <1>2, <2>1, <2>2, <2>3, <2>4, <2>5, <2>6, <2>7, <2>8 DEF WriterStep
<1>3. CASE \E sealing \in BOOLEAN : Finish(sealing)
  <2>1. PICK sealing \in BOOLEAN : Finish(sealing)
    BY <1>3
  <2>2. CASE cur # None /\ sealing
    <3>1. cur \in Files /\ files[cur] \in Segment /\ files[cur] # None
      BY <2>2 DEF TypeOK, CurrentPlace, Writable, Exists
    <3>2. files' = [files EXCEPT ![cur] = IF files[cur].recs = {} THEN None
                                           ELSE [files[cur] EXCEPT !.sealed = TRUE]]
      BY <2>1, <2>2 DEF Finish
    <3>3. SameRecords
      BY <1>0, <3>1, <3>2, SealRecords, ReplaceSame
    <3> QED BY <2>1, <3>3 DEF Finish, stream, log
  <2>3. CASE ~(cur # None /\ sealing)
    BY <2>1, <2>3 DEF Finish, stream, log
  <2> QED BY <2>2, <2>3
<1>4. CASE \E written \in {"none", "part", "all"} : Crash(written)
  <2>1. PICK written \in {"none", "part", "all"} : Crash(written)
    BY <1>4
  <2>2. CASE ~Doing("write")
    BY <2>1, <2>2 DEF Crash, stream, log
  <2>3. CASE Doing("write")
    <3>1. cur \in Files /\ files[cur] \in Segment /\ files[cur] # None /\ seq \in Seqs
      BY <2>3 DEF TypeOK, Doing, CurrentPlace, Writable, Exists, CommandPlace, Appending, Seqs
    <3>2. files' = [files EXCEPT ![cur] = Interrupted(files[cur], written)]
      BY <2>1, <2>3 DEF Crash
    <3>3. /\ Interrupted(files[cur], written) # None
          /\ Interrupted(files[cur], written).epoch = files[cur].epoch
          /\ Interrupted(files[cur], written).first = files[cur].first
          /\ Interrupted(files[cur], written).recs =
                IF written = "all" THEN files[cur].recs \cup {seq} ELSE files[cur].recs
      <4> HIDE DEF Quiet, SameRecords, Live
      <4>1. Interrupted(files[cur], written) \in Segment
        BY <3>1, WrittenRecords
      <4> QED BY <3>1, <4>1, WrittenRecords
    <3>4. files \in [Files -> Segment \cup {None}]
      BY DEF TypeOK
    <3>5. CASE written = "all"
      BY <2>1, <2>3, <3>1, <3>2, <3>3, <3>4, <3>5 DEF Crash, Recording, RecordAdded, stream, log
    <3>6. CASE written # "all"
      BY <2>1, <2>3, <3>1, <3>2, <3>3, <3>4, <3>6 DEF Crash, stream, log
    <3> QED BY <3>5, <3>6
  <2> QED BY <2>2, <2>3
<1>5. CASE \E i \in Files : RecoverSegment(i)
  <2>1. PICK i \in Files : RecoverSegment(i)
    BY <1>5
  <2>2. files[i] \in Segment /\ files[i] # None
    BY <1>0, <2>1 DEF RecoverSegment, Unfinished, Exists
  <2>3. files' = [files EXCEPT ![i] = IF files[i].recs = {} THEN None
                                      ELSE [files[i] EXCEPT !.torn = FALSE, !.sealed = TRUE]]
    BY <2>1 DEF RecoverSegment
  <2>4. SameRecords
    BY <1>0, <2>2, <2>3, SealRecords, ReplaceSame
  <2> QED BY <2>1, <2>4 DEF RecoverSegment, stream, log
<1>6. CASE \E i \in Files : RefuseStart(i)
  BY <1>6 DEF RefuseStart, stream, log
<1>7. CASE Recovered \/ Ended \/ UNCHANGED vars
  BY <1>7 DEF Recovered, Ended, vars, stream, log
<1> QED BY <1>1, <1>2, <1>3, <1>4, <1>5, <1>6, <1>7 DEF Next, WriterStep

-----------------------------------------------------------------------------
(* What a scan finds before and after a step *)

\* A record is readable when some file holds it.
LEMMA ReadableMember ==
    \A n : n \in Readable <=>
        \E i \in Files : files[i] # None /\ \E s \in files[i].recs : n = <<files[i].epoch, s>>
BY DEF Readable, RecordsOf, Exists

\* The same after a step.
LEMMA ReadableMemberNext ==
    \A n : n \in Readable' <=>
        \E i \in Files : files'[i] # None /\ \E s \in files'[i].recs : n = <<files'[i].epoch, s>>
BY DEF Readable, RecordsOf, Exists

\* Sealing, tearing and recovering lose nothing.
LEMMA ReadableKept ==
    ASSUME SameRecords
    PROVE  Readable' = Readable
<1>1. \A n : n \in Readable' => n \in Readable
  BY ReadableMember, ReadableMemberNext DEF SameRecords
<1>2. \A n : n \in Readable => n \in Readable'
  BY ReadableMember, ReadableMemberNext DEF SameRecords
<1> QED BY <1>1, <1>2

\* A file that is made takes the place of none, and is empty.
LEMMA CreatedFile ==
    ASSUME TypeOK, CommandPlace, NumbersUsed, CreateSegment
    PROVE  /\ made + 1 \in Files /\ files[made + 1] = None
           /\ files'[made + 1] # None
           /\ files'[made + 1].epoch = epoch /\ files'[made + 1].first = seq
           /\ files'[made + 1].recs = {} /\ ~files'[made + 1].sealed
           /\ \A i \in Files \ {made + 1} : files'[i] = files[i]
<1> DEFINE new == [epoch |-> epoch, first |-> seq, recs |-> {}, header |-> FALSE, torn |-> FALSE,
                   sealed |-> FALSE]
<1>1. made + 1 \in Files
  BY DEF TypeOK, CreateSegment, Files
<1>2. files[made + 1] = None
  BY <1>1 DEF NumbersUsed, Exists, TypeOK
<1>3. files' = [files EXCEPT ![made + 1] = new]
  BY DEF CreateSegment
<1>4. new # None
  <2>1. epoch \in Epochs /\ seq \in Seqs
    BY DEF TypeOK, CreateSegment, Doing, CommandPlace, Live, Appending, Epochs, Seqs
  <2>2. new \in Segment
    BY <2>1 DEF Segment
  <2> QED BY <2>2
<1> QED BY <1>1, <1>2, <1>3, <1>4 DEF TypeOK

\* So nothing more is readable when a file is made.
LEMMA ReadableCreated ==
    ASSUME TypeOK, CommandPlace, NumbersUsed, CreateSegment
    PROVE  Readable' = Readable
<1>1. \A n : n \in Readable' => n \in Readable
  BY CreatedFile, ReadableMember, ReadableMemberNext
<1>2. \A n : n \in Readable => n \in Readable'
  BY CreatedFile, ReadableMember, ReadableMemberNext
<1> QED BY <1>1, <1>2

\* A record that is added is the only one that is.
LEMMA ReadableAdded ==
    ASSUME TypeOK, CurrentPlace, RecordAdded
    PROVE  Readable' = Readable \cup {<<epoch, seq>>}
<1>1. cur \in Files /\ files[cur] # None /\ files[cur].epoch = epoch
  BY DEF RecordAdded, CurrentPlace, Writable, Exists
<1>2. \A n : n \in Readable' => n \in Readable \cup {<<epoch, seq>>}
  BY <1>1, ReadableMember, ReadableMemberNext DEF RecordAdded
<1>3. \A n : n \in Readable => n \in Readable'
  BY <1>1, ReadableMember, ReadableMemberNext DEF RecordAdded
<1>4. <<epoch, seq>> \in Readable'
  BY <1>1, ReadableMemberNext DEF RecordAdded
<1> QED BY <1>2, <1>3, <1>4

\* Retention takes one sealed file and leaves the others.
LEMMA PrunedFile ==
    ASSUME TypeOK, CommandPlace, NEW i \in Files, Prune(i)
    PROVE  /\ files[i] # None /\ files[i] \in Segment /\ files[i].sealed
           /\ files'[i] = None
           /\ \A j \in Files \ {i} : files'[j] = files[j]
<1>1. i \in Sealed
  BY DEF Prune, Doing, Oldest, CommandPlace
<1> QED BY <1>1 DEF Prune, TypeOK, Sealed, Exists

\* What was readable is readable or was in it.
LEMMA ReadablePruned ==
    ASSUME TypeOK, CommandPlace, NEW i \in Files, Prune(i)
    PROVE  Readable' \subseteq Readable /\ Readable \subseteq Readable' \cup RecordsOf(i)
<1>1. \A n : n \in Readable' => n \in Readable
  BY PrunedFile, ReadableMember, ReadableMemberNext
<1>2. \A n : n \in Readable => n \in Readable' \cup RecordsOf(i)
  BY PrunedFile, ReadableMember, ReadableMemberNext DEF RecordsOf
<1> QED BY <1>1, <1>2

\* What is readable is a set of numbers of epochs, and finite.
LEMMA ReadableFinite ==
    ASSUME TypeOK
    PROVE  Readable \subseteq Epochs \X Seqs /\ IsFiniteSet(Readable) /\ Cardinality(Readable) \in Nat
<1>1. Readable \subseteq Epochs \X Seqs
  BY DEF Readable, RecordsOf, Exists, TypeOK, Segment
<1>2. IsFiniteSet(Epochs) /\ IsFiniteSet(Seqs)
  BY FS_Interval DEF Epochs, Seqs
<1>3. IsFiniteSet(Epochs \X Seqs)
  BY <1>2, FS_Product
<1>4. IsFiniteSet(Readable)
  BY <1>1, <1>3, FS_Subset
<1> QED BY <1>1, <1>4, FS_CardinalityType

-----------------------------------------------------------------------------
(* Each part of the invariant is kept *)

\* An acknowledged event stays readable or is pruned.
LEMMA StepAcked ==
    ASSUME TypeOK, CommandPlace, CurrentPlace, NumbersUsed, AckedKept, [Next]_vars
    PROVE  AckedKept'
<1>1. CASE Quiet
  BY <1>1, ReadableKept DEF Quiet, AckedKept
<1>2. CASE Numbering
  BY <1>2 DEF Numbering, AckedKept, Readable, RecordsOf, Exists
<1>3. CASE Recording
  BY <1>3, ReadableAdded DEF Recording, AckedKept
<1>4. CASE CreateSegment
  BY <1>4, ReadableCreated DEF CreateSegment, AckedKept, log
<1>5. CASE Open
  BY <1>5 DEF Open, AckedKept, Readable, RecordsOf, Exists, log
<1>6. CASE \E i \in Files : Prune(i)
  <2>1. PICK i \in Files : Prune(i)
    BY <1>6
  <2> QED BY <2>1, ReadablePruned DEF Prune, AckedKept
<1> QED BY <1>1, <1>2, <1>3, <1>4, <1>5, <1>6, StepKinds

\* Files hold only numbers that were passed.
LEMMA StepNumbers ==
    ASSUME TypeOK, CommandPlace, CurrentPlace, NumbersUsed, [Next]_vars
    PROVE  NumbersUsed'
<1> USE DEF NumbersUsed, Exists
<1>0. /\ seq \in Nat /\ epoch \in Nat
      /\ \A i \in Files : files[i] # None => files[i].epoch \in Nat /\ \A s \in files[i].recs : s \in Nat
  BY DEF TypeOK, Segment, Epochs, Seqs
<1>1. CASE Quiet
  BY <1>1 DEF Quiet, SameRecords
<1>2. CASE Numbering
  BY <1>0, <1>2 DEF Numbering, Number, Live
<1>3. CASE Recording
  <2>1. files[cur] # None /\ files[cur].epoch = epoch /\ cur \in Files
    BY <1>3 DEF Recording, RecordAdded, CurrentPlace, Writable
  <2>2. head \in Nat /\ seq \in Nat /\ head <= seq
    BY DEF TypeOK, CommandPlace
  <2>3. ASSUME NEW i \in Files, files'[i] # None
        PROVE  /\ i <= made' /\ files'[i].epoch <= epoch'
               /\ files'[i].epoch = epoch' =>
                     \A s \in files'[i].recs : s <= seq' /\ (Live' => s <= head')
    <3>1. Live
      BY <1>3 DEF Recording, RecordAdded, Doing, CommandPlace, Live
    <3>2. files[i] # None /\ files'[i].epoch = files[i].epoch /\ files'[i].recs \subseteq files[i].recs \cup {seq}
      BY <1>3, <2>1, <2>3 DEF Recording, RecordAdded
    <3>3. files[i].epoch = epoch => \A s \in files[i].recs : s <= head /\ s \in Nat
      BY <3>1, <3>2 DEF TypeOK, Segment, Seqs
    <3>4. UNCHANGED <<epoch, seq, made>> /\ (head' = seq \/ ~Live')
      BY <1>3 DEF Recording
    <3> QED BY <2>2, <3>2, <3>3, <3>4
  <2> QED BY <2>3
<1>4. CASE CreateSegment
  BY <1>4, CreatedFile DEF CreateSegment, TypeOK, stream, Live, Files
<1>5. CASE Open
  BY <1>0, <1>5 DEF Open
<1>6. CASE \E i \in Files : Prune(i)
  <2>1. PICK i \in Files : Prune(i)
    BY <1>6
  <2> QED BY <2>1, PrunedFile DEF Prune, stream, Live
<1> QED BY <1>1, <1>2, <1>3, <1>4, <1>5, <1>6, StepKinds

\* Segments of an epoch stay in order.
LEMMA StepOrdered ==
    ASSUME TypeOK, CommandPlace, CurrentPlace, NumbersUsed, SegmentsOrdered, [Next]_vars
    PROVE  SegmentsOrdered'
<1> USE DEF SegmentsOrdered, Exists
<1>1. CASE Quiet
  BY <1>1 DEF Quiet, SameRecords
<1>2. CASE Numbering
  BY <1>2 DEF Numbering
<1>3. CASE Recording
  <2>1. /\ cur = made /\ cur \in Files /\ files[cur] # None
        /\ files[cur].first <= seq
    BY <1>3 DEF Recording, RecordAdded, CurrentPlace, Writable
  <2>2. SUFFICES ASSUME NEW i \in Files, NEW j \in Files, i <= j, files'[i] # None, files'[j] # None,
                        files'[i].epoch = files'[j].epoch, NEW s \in files'[i].recs
                 PROVE  IF i = j THEN files'[i].first <= s ELSE s < files'[j].first
    OBVIOUS
  <2>3. /\ files[i] # None /\ files'[i].epoch = files[i].epoch /\ files'[i].first = files[i].first
        /\ files[j] # None /\ files'[j].epoch = files[j].epoch /\ files'[j].first = files[j].first
    BY <1>3, <2>1, <2>2 DEF Recording, RecordAdded
  <2>4. CASE s \in files[i].recs
    BY <2>2, <2>3, <2>4
  <2>5. CASE i = cur /\ s = seq
    <3>1. j <= made /\ j \in Nat /\ i \in Nat /\ made \in Nat
      BY <2>3 DEF NumbersUsed, Files, TypeOK
    <3>2. j = i
      BY <2>1, <2>2, <2>5, <3>1
    <3> QED BY <2>1, <2>3, <2>5, <3>2
  <2> QED BY <1>3, <2>4, <2>5 DEF Recording, RecordAdded
<1>4. CASE CreateSegment
  <2>1. SUFFICES ASSUME NEW i \in Files, NEW j \in Files, i <= j, files'[i] # None, files'[j] # None,
                        files'[i].epoch = files'[j].epoch, NEW s \in files'[i].recs
                 PROVE  IF i = j THEN files'[i].first <= s ELSE s < files'[j].first
    OBVIOUS
  <2>2. i # made + 1 /\ files'[i] = files[i]
    BY <1>4, <2>1, CreatedFile
  <2>3. CASE j # made + 1
    BY <1>4, <2>1, <2>2, <2>3, CreatedFile
  <2>4. CASE j = made + 1
    <3>1. files[i].epoch = epoch /\ files'[j].first = seq
      BY <1>4, <2>1, <2>2, <2>4, CreatedFile
    <3>2. Live /\ head < seq
      BY <1>4 DEF CreateSegment, Doing, CommandPlace, Live, Appending
    <3>3. s <= head
      BY <2>1, <2>2, <3>1, <3>2 DEF NumbersUsed
    <3>4. s \in Nat /\ head \in Nat /\ seq \in Nat
      BY <2>1, <2>2 DEF TypeOK, Segment, Seqs
    <3> QED BY <2>2, <2>4, <3>1, <3>2, <3>3, <3>4
  <2> QED BY <2>3, <2>4
<1>5. CASE Open
  BY <1>5 DEF Open
<1>6. CASE \E i \in Files : Prune(i)
  <2>1. PICK i \in Files : Prune(i)
    BY <1>6
  <2> QED BY <2>1, PrunedFile
<1> QED BY <1>1, <1>2, <1>3, <1>4, <1>5, <1>6, StepKinds

\* Another phase of the same command.
LEMMA GotoFields ==
    ASSUME TypeOK, op # None,
           NEW phase \in {"gap", "rotate", "space", "prune", "ledger", "create", "header", "write"},
           Goto(phase)
    PROVE  /\ op' # None /\ op'.phase = phase /\ op'.kind = op.kind
           /\ op'.todo = op.todo /\ op'.gap = op.gap
BY DEF TypeOK, Goto, Command

\* Making room takes an append on with room for its record, and ends any other command.
LEMMA ContinueFields ==
    ASSUME TypeOK, op # None, Continue
    PROVE  \/ op' = None /\ status' = (IF op.kind = "finish" THEN "down" ELSE "up")
           \/ /\ op.kind = "append" /\ op' # None /\ op'.kind = op.kind /\ UNCHANGED status
              /\ op'.phase = (IF cur = None THEN "create" ELSE "write")
              /\ op'.todo = op.todo /\ op'.gap = op.gap
<1>1. op.kind \in {"append", "start", "finish"}
  BY DEF TypeOK, Command
<1>2. CASE op.kind = "append"
  BY <1>2, GotoFields DEF Continue
<1>3. CASE op.kind # "append"
  BY <1>1, <1>3 DEF Continue, Finished
<1> QED BY <1>2, <1>3

\* A deletion is to be reported: the range from the first number to the last record.
LEMMA PruneFields ==
    ASSUME TypeOK, CommandPlace, NEW i \in Files, Prune(i)
    PROVE  /\ op # None /\ op' # None /\ op'.phase = "ledger" /\ op'.kind = op.kind
           /\ op'.todo = op.todo \ {i}
           /\ op'.gap = {<<files[i].epoch, s>> : s \in {t \in Seqs : /\ files[i].first <= t
                                                                     /\ \E u \in files[i].recs : t <= u}}
<1> DEFINE gap == {<<files[i].epoch, s>> : s \in {t \in Seqs : /\ files[i].first <= t
                                                               /\ \E u \in files[i].recs : t <= u}}
<1>1. op # None /\ op \in Command
  BY DEF TypeOK, Prune, Doing
<1>3. op' = [op EXCEPT !.phase = "ledger", !.todo = op.todo \ {i}, !.gap = gap]
  BY DEF Prune
<1>4. gap \in SUBSET (Epochs \X Seqs)
  BY PrunedFile DEF Segment
<1>5. op.todo \ {i} \in SUBSET Files
  BY <1>1 DEF Command
<1> HIDE DEF gap
<1>6. PICK todo \in SUBSET Files : todo = op.todo \ {i}
  BY <1>5
<1>7. op' = [op EXCEPT !.phase = "ledger", !.todo = todo, !.gap = gap]
  BY <1>3, <1>6
<1>8. op' # None /\ op'.phase = "ledger" /\ op'.kind = op.kind /\ op'.todo = todo /\ op'.gap = gap
  BY <1>1, <1>4, <1>7 DEF Command
<1> QED BY <1>1, <1>6, <1>8 DEF gap

\* Retention goes on with the next segment.
LEMMA RetentionFields ==
    ASSUME TypeOK, RecordPruned \/ \E i \in Files : PruneFails(i)
    PROVE  /\ op # None /\ op' # None /\ op'.phase = "prune" /\ op'.kind = op.kind
           /\ op'.todo \subseteq op.todo
           /\ op'.gap = IF RecordPruned THEN {} ELSE op.gap
<1>1. op # None /\ op \in Command
  BY DEF TypeOK, RecordPruned, PruneFails, Doing
<1>2. CASE RecordPruned
  BY <1>1, <1>2 DEF RecordPruned, Command
<1>3. CASE ~RecordPruned
  <2>1. PICK i \in Files : PruneFails(i)
    BY <1>3
  <2>2. op' = [op EXCEPT !.todo = op.todo \ {i}, !.failed = TRUE] /\ op.phase = "prune"
    BY <2>1 DEF PruneFails, Doing
  <2>3. op.todo \ {i} \in SUBSET Files
    BY <1>1 DEF Command
  <2> QED BY <1>1, <1>3, <2>2, <2>3 DEF Command
<1> QED BY <1>2, <1>3

\* The file that is sealed stays, unless retention takes it.
LEMMA SealedKept ==
    ASSUME TypeOK, CommandPlace, CurrentPlace, NumbersUsed, [Next]_vars, ~\E i \in Files : Prune(i)
    PROVE  Sealed \subseteq Sealed'
<1> USE DEF Sealed, Exists
<1>1. files \in [Files -> Segment \cup {None}]
  BY DEF TypeOK
<1>2. CASE UNCHANGED files
  BY <1>2
<1>3. CASE Rotate \/ WriteHeader \/ WritePoisoned
  BY <1>1, <1>3 DEF Rotate, WriteHeader, WritePoisoned, CurrentPlace, Writable, Segment, Doing
<1>4. CASE CreateSegment
  BY <1>4, CreatedFile
<1>5. CASE \E acknowledged \in BOOLEAN : WriteRecord(acknowledged)
  BY <1>1, <1>5 DEF WriteRecord, CurrentPlace, Writable, Segment, Doing
<1>6. CASE \E sealing \in BOOLEAN : Finish(sealing)
  BY <1>1, <1>6 DEF Finish, CurrentPlace, Writable
<1>7. CASE \E written \in {"none", "part", "all"} : Crash(written)
  BY <1>1, <1>7 DEF Crash, CurrentPlace, Writable, Doing
<1>8. CASE \E i \in Files : RecoverSegment(i)
  BY <1>1, <1>8 DEF RecoverSegment, Unfinished
<1>9. CASE DropEvent \/ StartAppend \/ Open \/ Recovered \/ Ended \/ UNCHANGED vars \/ \E i \in Files : RefuseStart(i)
  BY <1>2, <1>9 DEF DropEvent, StartAppend, Open, Recovered, Ended, RefuseStart, vars
<1>10. CASE WriterStep
  <2>1. CASE \/ RecordGap \/ KeepSegment \/ RotateFails \/ EnsureCapacity \/ EnforceRetention \/ NoCapacity
             \/ RecordPruned \/ RetentionEnds \/ CreateFails \/ WriteRecovered
             \/ \E written \in BOOLEAN : RecordGapFails(written) \/ RecordPrunedFails(written)
             \/ \E i \in Files : PruneFails(i)
    BY <1>2, <2>1 DEF RecordGap, KeepSegment, RotateFails, EnsureCapacity, EnforceRetention, NoCapacity,
       RecordPruned, RetentionEnds, CreateFails, WriteRecovered, RecordGapFails, RecordPrunedFails, PruneFails
  <2> QED BY <1>3, <1>4, <1>5, <1>10, <2>1 DEF WriterStep
<1> QED BY <1>6, <1>7, <1>8, <1>9, <1>10 DEF Next

\* The writer's command and the daemon's state keep step.
LEMMA StepCommand ==
    ASSUME TypeOK, CommandPlace, CurrentPlace, NumbersUsed, [Next]_vars
    PROVE  CommandPlace'
<1> USE DEF Live, Appending
<1>0. /\ seq \in Nat /\ head \in Nat /\ epoch \in Nat
      /\ op # None => op \in Command
  BY DEF TypeOK
<1>1. CASE DropEvent
  BY <1>0, <1>1 DEF CommandPlace, DropEvent, Number, Sealed, Exists, log
<1>2. CASE StartAppend
  BY <1>0, <1>2 DEF CommandPlace, StartAppend, Number, NewCommand, log
<1>3. CASE RecordGap \/ KeepSegment \/ Rotate \/ WriteHeader \/ CreateSegment
  <2>1. ~\E i \in Files : Prune(i)
    BY <1>3 DEF RecordGap, KeepSegment, Rotate, WriteHeader, CreateSegment, Prune, Doing
  <2>2. Sealed \subseteq Sealed'
    BY <2>1, SealedKept
  <2>3. /\ op # None /\ op.kind = "append" /\ UNCHANGED <<status, epoch, seq, head>>
        /\ op' # None /\ op'.phase # "ledger" /\ op'.kind = op.kind /\ op'.todo = op.todo /\ op'.gap = op.gap
        /\ op.phase # "ledger"
    BY <1>3, GotoFields DEF RecordGap, KeepSegment, Rotate, WriteHeader, CreateSegment, Doing, CommandPlace, stream
  <2> QED BY <2>2, <2>3 DEF CommandPlace
<1>4. CASE \/ \E written \in BOOLEAN : RecordGapFails(written) \/ RecordPrunedFails(written)
           \/ RotateFails \/ NoCapacity \/ CreateFails \/ WriteRecovered \/ WritePoisoned
  BY <1>0, <1>4 DEF CommandPlace, RecordGapFails, RecordPrunedFails, RotateFails, NoCapacity, CreateFails,
     WriteRecovered, WritePoisoned, Finished, Doing, stream
<1>5. CASE \E acknowledged \in BOOLEAN : WriteRecord(acknowledged)
  BY <1>0, <1>5 DEF CommandPlace, WriteRecord, Finished, Doing
<1>6. CASE EnsureCapacity \/ RetentionEnds
  <2>1. /\ op # None /\ op.phase \in {"space", "prune"}
        /\ UNCHANGED <<epoch, seq, head, files>>
        /\ Continue \/ Finished(FALSE)
    BY <1>6 DEF EnsureCapacity, RetentionEnds, Doing, stream
  <2>2. CASE op' = None
    BY <1>0, <2>1, <2>2, ContinueFields DEF CommandPlace, Finished
  <2>3. CASE op' # None
    BY <2>1, <2>3, ContinueFields DEF CommandPlace, Finished, Sealed, Exists
  <2> QED BY <2>2, <2>3
<1>7. CASE EnforceRetention
  BY <1>0, <1>7 DEF CommandPlace, EnforceRetention, Doing, Sealed, Exists, stream, Command
<1>8. CASE \E i \in Files : Prune(i)
  <2>1. PICK i \in Files : Prune(i)
    BY <1>8
  <2>2. /\ op # None /\ op' # None /\ op'.phase = "ledger" /\ op'.kind = op.kind
        /\ op'.todo = op.todo \ {i}
    BY <2>1, PruneFields
  <2>3. op.todo \ {i} \subseteq Sealed'
    BY <2>1, <2>2, PrunedFile DEF CommandPlace, Sealed, Exists
  <2>4. UNCHANGED <<status, epoch, seq, head>>
    BY <2>1 DEF Prune, stream
  <2> QED BY <2>2, <2>3, <2>4 DEF CommandPlace
<1>9. CASE RecordPruned \/ \E i \in Files : PruneFails(i)
  <2>1. /\ op # None /\ op' # None /\ op'.phase = "prune" /\ op'.kind = op.kind
        /\ op'.todo \subseteq op.todo /\ op'.gap = {}
        /\ UNCHANGED <<status, epoch, seq, head, files>>
    BY <1>9, RetentionFields DEF CommandPlace, RecordPruned, PruneFails, Doing, stream
  <2> QED BY <2>1 DEF CommandPlace, Sealed, Exists
<1>10. CASE \E sealing \in BOOLEAN : Finish(sealing)
  BY <1>0, <1>10 DEF CommandPlace, Finish, NewCommand, stream
<1>11. CASE \E written \in {"none", "part", "all"} : Crash(written)
  BY <1>0, <1>11 DEF CommandPlace, Crash, stream
<1>12. CASE Open
  BY <1>0, <1>12 DEF CommandPlace, Open
<1>13. CASE \E i \in Files : RecoverSegment(i) \/ RefuseStart(i)
  BY <1>0, <1>13 DEF CommandPlace, RecoverSegment, RefuseStart, Unfinished, stream
<1>14. CASE Recovered
  BY <1>0, <1>14 DEF CommandPlace, Recovered, NewCommand, stream
<1>15. CASE Ended \/ UNCHANGED vars
  BY <1>15 DEF CommandPlace, Ended, vars, Sealed, Exists
<1> QED BY <1>1, <1>2, <1>3, <1>4, <1>5, <1>6, <1>7, <1>8, <1>9, <1>10, <1>11, <1>12, <1>13, <1>14, <1>15
        DEF Next, WriterStep

\* The end of a command, or another phase of it that has nothing to do with writing,
\* leaves the current segment as it is.
LEMMA CurrentSame ==
    ASSUME TypeOK, CommandPlace, CurrentPlace, UNCHANGED <<epoch, seq, files, made, cur>>,
           op # None, op' # None => /\ op'.phase \notin {"create", "header", "write"}
                                    /\ op'.kind = op.kind /\ UNCHANGED status,
           op' = None => \E ok \in BOOLEAN : Finished(ok)
    PROVE  CurrentPlace'
<1>1. CASE cur = None
  BY <1>1 DEF CurrentPlace, Doing
<1>2. CASE cur # None
  <2>1. op.kind = "append" /\ status = "up" /\ Writable(cur)
    BY <1>2 DEF CurrentPlace
  <2>2. status' = "up"
    BY <2>1 DEF Finished
  <2>3. Writable(cur)'
    BY <2>1 DEF Writable, Exists
  <2> QED BY <1>2, <2>1, <2>2, <2>3 DEF CurrentPlace, Doing
<1> QED BY <1>1, <1>2

\* The writer writes to the newest file, and that one is of this epoch and open.
LEMMA StepCurrent ==
    ASSUME TypeOK, CommandPlace, CurrentPlace, NumbersUsed, [Next]_vars
    PROVE  CurrentPlace'
<1>0. /\ seq \in Nat /\ made \in Nat
      /\ files \in [Files -> Segment \cup {None}]
      /\ \A i \in Files : files[i] # None => files[i].first \in Nat
  BY DEF TypeOK, Segment, Seqs
<1>1. CASE DropEvent
  BY <1>0, <1>1 DEF CurrentPlace, Writable, Exists, Doing, DropEvent, Number
<1>2. CASE StartAppend
  BY <1>0, <1>2 DEF CurrentPlace, Writable, Exists, Doing, StartAppend, Number, NewCommand
<1>3. CASE RecordGap \/ KeepSegment
  BY <1>3, GotoFields, CurrentSame DEF RecordGap, KeepSegment, Doing, stream
<1>4. CASE Rotate \/ RotateFails
  BY <1>4, GotoFields DEF Rotate, RotateFails, Finished, CurrentPlace, Doing
<1>5. CASE \/ \E written \in BOOLEAN : RecordGapFails(written) \/ RecordPrunedFails(written)
           \/ NoCapacity \/ CreateFails \/ WriteRecovered
  <2>1. UNCHANGED <<epoch, seq, files, made, cur>> /\ op # None /\ op' = None /\ Finished(FALSE)
    BY <1>5 DEF RecordGapFails, RecordPrunedFails, NoCapacity, CreateFails, WriteRecovered, Finished, Doing, stream
  <2> QED BY <2>1, CurrentSame
<1>6. CASE EnsureCapacity \/ RetentionEnds
  <2>1. /\ op # None /\ op.phase \in {"space", "prune"}
        /\ UNCHANGED <<epoch, seq, files, made, cur>>
        /\ Continue \/ Finished(FALSE)
    BY <1>6 DEF EnsureCapacity, RetentionEnds, Doing, stream
  <2>2. CASE op' = None
    <3>1. \E ok \in BOOLEAN : Finished(ok)
      BY <2>1, <2>2, GotoFields DEF Continue
    <3> QED BY <2>1, <2>2, <3>1, CurrentSame
  <2>3. CASE op' # None
    <3>1. /\ op.kind = "append" /\ op'.kind = op.kind /\ UNCHANGED status
          /\ op'.phase = (IF cur = None THEN "create" ELSE "write")
      BY <2>1, <2>3, ContinueFields DEF Finished
    <3> QED BY <2>1, <3>1 DEF CurrentPlace, Writable, Exists, Doing
  <2> QED BY <2>2, <2>3
<1>7. CASE EnforceRetention
  <2>1. op # None /\ op' # None /\ op'.phase = "prune" /\ op'.kind = op.kind /\ UNCHANGED status
    <3>1. PICK todo \in SUBSET Files : todo = Sealed
      BY DEF Sealed
    <3>2. op # None /\ op \in Command /\ op' = [op EXCEPT !.phase = "prune", !.todo = todo] /\ UNCHANGED status
      BY <1>7, <3>1 DEF EnforceRetention, TypeOK, Doing
    <3> QED BY <3>2 DEF Command
  <2> QED BY <1>7, <2>1, CurrentSame DEF EnforceRetention, stream
<1>8. CASE \E i \in Files : Prune(i)
  <2>1. PICK i \in Files : Prune(i)
    BY <1>8
  <2>2. op # None /\ op' # None /\ op'.phase = "ledger" /\ op'.kind = op.kind
    BY <2>1, PruneFields
  <2>3. UNCHANGED <<status, epoch, seq, made, cur>>
    BY <2>1 DEF Prune, stream
  <2>4. cur # None => files'[cur] = files[cur]
    BY <2>1, PrunedFile DEF CurrentPlace, Writable
  <2> QED BY <2>2, <2>3, <2>4 DEF CurrentPlace, Writable, Exists, Doing
<1>9. CASE RecordPruned \/ \E i \in Files : PruneFails(i)
  <2>1. /\ op # None /\ op' # None /\ op'.phase = "prune" /\ op'.kind = op.kind
    BY <1>9, RetentionFields
  <2>2. UNCHANGED <<status, epoch, seq, files, made, cur>>
    BY <1>9 DEF RecordPruned, PruneFails, stream
  <2> QED BY <2>1, <2>2, CurrentSame
<1>10. CASE CreateSegment
  <2>1. op # None /\ op' # None /\ op'.phase = "header" /\ op'.kind = op.kind /\ op.kind = "append"
    BY <1>10, GotoFields DEF CreateSegment, Doing, CommandPlace
  <2>2. cur = None /\ UNCHANGED <<status, epoch, seq, cur>> /\ made' = made + 1
    BY <1>10 DEF CreateSegment, CurrentPlace, stream
  <2>3. Writable(made)'
    BY <1>0, <1>10, <2>2, CreatedFile DEF Writable, Exists
  <2> QED BY <2>1, <2>2, <2>3 DEF CurrentPlace, Doing
<1>11. CASE WriteHeader
  <2>1. op # None /\ op' # None /\ op'.phase = "write" /\ op'.kind = op.kind /\ op.kind = "append"
    BY <1>11, GotoFields DEF WriteHeader, Doing, CommandPlace
  <2>2. Writable(made) /\ status = "up"
    BY <1>11, <2>1 DEF WriteHeader, CurrentPlace, CommandPlace
  <2>3. UNCHANGED <<status, epoch, seq, made>> /\ cur' = made
    BY <1>11 DEF WriteHeader, stream
  <2>4. Writable(made)'
    <3>1. made \in Files /\ files[made] \in Segment
      BY <1>0, <2>2 DEF Writable, Exists
    <3>2. PICK f \in Segment : f = files[made]
      BY <3>1
    <3>3. files'[made] = [f EXCEPT !.header = TRUE]
      BY <1>0, <1>11, <3>1, <3>2 DEF WriteHeader
    <3>4. files'[made] # None /\ files'[made].epoch = f.epoch /\ files'[made].first = f.first
          /\ files'[made].sealed = f.sealed
      BY <3>3 DEF Segment
    <3> QED BY <2>2, <2>3, <3>2, <3>4 DEF Writable, Exists
  <2> QED BY <2>1, <2>2, <2>3, <2>4 DEF CurrentPlace, Doing, Writable
<1>12. CASE \E acknowledged \in BOOLEAN : WriteRecord(acknowledged)
  <2>1. PICK acknowledged \in BOOLEAN : WriteRecord(acknowledged)
    BY <1>12
  <2>2. op.kind = "append" /\ op' = None /\ status' = "up" /\ UNCHANGED <<epoch, seq, made, cur>> /\ cur # None
    BY <2>1 DEF WriteRecord, Finished, Doing, CommandPlace, CurrentPlace
  <2>3. Writable(cur)
    BY <2>2 DEF CurrentPlace
  <2>4. seq \in Seqs
    BY <2>1 DEF WriteRecord, TypeOK, Doing, CommandPlace, Appending, Seqs
  <2>5. Writable(cur)'
    BY <1>0, <2>1, <2>2, <2>3, <2>4 DEF WriteRecord, Writable, Exists, Segment
  <2> QED BY <2>2, <2>5 DEF CurrentPlace, Doing
<1>13. CASE WritePoisoned \/ \E sealing \in BOOLEAN : Finish(sealing)
  BY <1>13 DEF WritePoisoned, Finish, NewCommand, Finished, CurrentPlace, Doing
<1>14. CASE \E written \in {"none", "part", "all"} : Crash(written)
  BY <1>14 DEF Crash, CurrentPlace, Doing
<1>15. CASE Open
  BY <1>15 DEF Open, CurrentPlace, CommandPlace, Doing
<1>16. CASE \E i \in Files : RecoverSegment(i) \/ RefuseStart(i)
  BY <1>16 DEF RecoverSegment, RefuseStart, Unfinished, CurrentPlace, Doing
<1>17. CASE Recovered
  BY <1>17 DEF Recovered, NewCommand, CurrentPlace, Doing
<1>18. CASE Ended \/ UNCHANGED vars
  BY <1>18 DEF Ended, vars, CurrentPlace, Writable, Exists, Doing
<1> QED BY <1>1, <1>2, <1>3, <1>4, <1>5, <1>6, <1>7, <1>8, <1>9, <1>10, <1>11, <1>12, <1>13, <1>14, <1>15,
           <1>16, <1>17, <1>18 DEF Next, WriterStep

\* Only a gap that is recorded and a deletion that is to be recorded add to what is
\* reported; and only a new number makes the writer append.
LEMMA ReportsSame ==
    ASSUME TypeOK, CommandPlace, CurrentPlace, [Next]_vars,
           ~RecordGap, ~\E written \in BOOLEAN : RecordGapFails(written), ~\E i \in Files : Prune(i)
    PROVE  Reported' \subseteq Reported /\ (Appending' => Appending \/ StartAppend)
<1> USE DEF Reported, Appending
<1>0. op # None => op \in Command
  BY DEF TypeOK
<1>1. CASE DropEvent
  BY <1>1 DEF DropEvent, log
<1>2. CASE StartAppend
  BY <1>2 DEF StartAppend, NewCommand, log, Number
<1>3. CASE KeepSegment \/ Rotate \/ WriteHeader \/ CreateSegment
  <2>1. op # None /\ op' # None /\ op'.kind = op.kind /\ op'.gap = op.gap /\ ledger' = ledger
    BY <1>3, GotoFields DEF KeepSegment, Rotate, WriteHeader, CreateSegment, Doing, log
  <2> QED BY <2>1
<1>4. CASE \/ RotateFails \/ NoCapacity \/ CreateFails \/ WriteRecovered \/ WritePoisoned
           \/ \E acknowledged \in BOOLEAN : WriteRecord(acknowledged)
  BY <1>4 DEF RotateFails, NoCapacity, CreateFails, WriteRecovered, WritePoisoned, WriteRecord, Finished, log
<1>5. CASE \E written \in BOOLEAN : RecordPrunedFails(written)
  BY <1>5 DEF RecordPrunedFails, Finished, Doing
<1>6. CASE EnsureCapacity \/ RetentionEnds
  <2>1. op # None /\ ledger' = ledger /\ (Continue \/ Finished(FALSE))
    BY <1>6 DEF EnsureCapacity, RetentionEnds, Doing, log
  <2> QED BY <2>1, ContinueFields DEF Finished
<1>7. CASE EnforceRetention
  <2>1. PICK todo \in SUBSET Files : todo = Sealed
    BY DEF Sealed
  <2>2. op # None /\ op' = [op EXCEPT !.phase = "prune", !.todo = todo] /\ ledger' = ledger
    BY <1>7, <2>1 DEF EnforceRetention, Doing, log
  <2> QED BY <1>0, <2>2 DEF Command
<1>8. CASE RecordPruned \/ \E i \in Files : PruneFails(i)
  <2>1. CASE RecordPruned
    <3>1. op # None /\ op' # None /\ op'.kind = op.kind /\ op'.gap = {} /\ ledger' = ledger \cup op.gap
      BY <2>1, RetentionFields DEF RecordPruned
    <3> QED BY <3>1
  <2>2. CASE ~RecordPruned
    <3>1. op # None /\ op' # None /\ op'.kind = op.kind /\ op'.gap = op.gap /\ ledger' = ledger
      BY <1>8, <2>2, RetentionFields DEF PruneFails, log
    <3> QED BY <3>1
  <2> QED BY <2>1, <2>2
<1>9. CASE \E sealing \in BOOLEAN : Finish(sealing)
  BY <1>9 DEF Finish, NewCommand, log
<1>10. CASE \E written \in {"none", "part", "all"} : Crash(written)
  BY <1>10 DEF Crash, log
<1>11. CASE Recovered
  BY <1>11 DEF Recovered, NewCommand, log
<1>12. CASE Open \/ Ended \/ UNCHANGED vars \/ \E i \in Files : RecoverSegment(i) \/ RefuseStart(i)
  <2>1. UNCHANGED <<op, ledger>>
    BY <1>12 DEF Open, Ended, vars, RecoverSegment, RefuseStart, log
  <2> QED BY <2>1
<1> QED BY <1>1, <1>2, <1>3, <1>4, <1>5, <1>6, <1>7, <1>8, <1>9, <1>10, <1>11, <1>12 DEF Next, WriterStep

\* The numbers between the head and the number being written are in no file.
LEMMA GapUnread ==
    ASSUME TypeOK, CommandPlace, NumbersUsed, Doing("gap"), NEW s \in head + 1 .. seq - 1
    PROVE  <<epoch, s>> \notin Readable
<1>1. Live /\ head \in Nat
  BY DEF Doing, CommandPlace, Live, TypeOK
<1>2. \A i \in Files : files[i] # None /\ files[i].epoch = epoch => \A t \in files[i].recs : t <= head /\ t \in Nat
  BY <1>1 DEF NumbersUsed, Exists, TypeOK, Segment, Seqs
<1> QED BY <1>1, <1>2, ReadableMember DEF TypeOK

\* The range of a file that is removed is in no other file.
LEMMA PrunedUnread ==
    ASSUME TypeOK, CommandPlace, NumbersUsed, SegmentsOrdered, NEW i \in Files, Prune(i),
           NEW s \in Seqs, files[i].first <= s, NEW u \in files[i].recs, s <= u
    PROVE  /\ <<files[i].epoch, s>> \notin Readable'
           /\ files[i].epoch <= epoch
           /\ files[i].epoch = epoch => s <= seq /\ (Appending => s < seq)
<1>1. files[i] # None /\ files[i] \in Segment
  BY PrunedFile
<1>2. u \in Nat /\ s \in Nat /\ i \in Nat
  BY <1>1 DEF Segment, Seqs, Files
<1>3. ASSUME NEW j \in Files, files'[j] # None, files'[j].epoch = files[i].epoch, s \in files'[j].recs
      PROVE  FALSE
  <2>1. j # i /\ files'[j] = files[j] /\ j \in Nat
    BY <1>3, PrunedFile DEF Files
  <2>2. files[j] \in Segment /\ files[i].first \in Nat /\ files[j].first \in Nat
    BY <1>1, <1>3, <2>1 DEF TypeOK, Segment, Seqs
  <2>3. CASE j < i
    <3>1. s < files[i].first
      BY <1>1, <1>2, <1>3, <2>1, <2>3 DEF SegmentsOrdered, Exists
    <3> QED BY <1>2, <2>2, <3>1
  <2>4. CASE i < j
    <3>1. u < files[j].first
      BY <1>1, <1>2, <1>3, <2>1, <2>4 DEF SegmentsOrdered, Exists
    <3>2. files[j].first <= s
      BY <1>3, <2>1 DEF SegmentsOrdered, Exists
    <3> QED BY <1>2, <2>2, <3>1, <3>2
  <2> QED BY <1>2, <2>1, <2>3, <2>4
<1>4. <<files[i].epoch, s>> \notin Readable'
  BY <1>3, ReadableMemberNext
<1>5. files[i].epoch <= epoch /\ (files[i].epoch = epoch => u <= head)
  <2>1. Live
    BY DEF Prune, Doing, CommandPlace, Live
  <2> QED BY <1>1, <2>1 DEF NumbersUsed, Exists
<1>6. head \in Nat /\ seq \in Nat /\ head <= seq /\ (Appending => head < seq)
  BY DEF TypeOK, CommandPlace
<1> QED BY <1>2, <1>4, <1>5, <1>6

\* What is reported is not readable, and stays so.
LEMMA StepReported ==
    ASSUME TypeOK, CommandPlace, CurrentPlace, NumbersUsed, SegmentsOrdered, ReportedPast, [Next]_vars
    PROVE  ReportedPast'
<1>0. seq \in Nat /\ head \in Nat /\ epoch \in Nat /\ Epochs \subseteq Nat /\ Seqs \subseteq Nat
  BY DEF TypeOK, Epochs, Seqs
<1>1. CASE RecordGap \/ \E written \in BOOLEAN : RecordGapFails(written)
  <2>1. /\ Doing("gap") /\ UNCHANGED <<epoch, seq, head, files>>
        /\ ledger' \subseteq ledger \cup {<<epoch, s>> : s \in head + 1 .. seq - 1}
        /\ Goto("rotate") \/ op' = None
    BY <1>1 DEF RecordGap, RecordGapFails, Finished, stream
  <2>2. op # None /\ (op' # None => op'.gap = op.gap)
    BY <2>1, GotoFields DEF Doing
  <2>3. Reported' \subseteq Reported \cup {<<epoch, s>> : s \in head + 1 .. seq - 1}
    BY <2>1, <2>2 DEF Reported
  <2>4. Readable' = Readable
    BY <2>1 DEF Readable, RecordsOf, Exists
  <2>5. op.kind = "append"
    BY <2>1 DEF Doing, CommandPlace
  <2>6. SUFFICES ASSUME NEW e \in Epochs, NEW s \in Seqs, <<e, s>> \in Reported'
                 PROVE  /\ <<e, s>> \notin Readable
                        /\ e <= epoch
                        /\ e = epoch => s < seq
    BY <1>0, <2>1, <2>4 DEF ReportedPast
  <2>7. CASE <<e, s>> \in Reported
    BY <2>2, <2>5, <2>7 DEF ReportedPast, Appending
  <2>8. CASE e = epoch /\ s \in head + 1 .. seq - 1
    BY <1>0, <2>1, <2>8, GapUnread
  <2> QED BY <2>3, <2>6, <2>7, <2>8
<1>2. CASE \E i \in Files : Prune(i)
  <2>1. PICK i \in Files : Prune(i)
    BY <1>2
  <2>2. /\ op # None /\ op' # None /\ op'.kind = op.kind
        /\ op'.gap = {<<files[i].epoch, s>> : s \in {t \in Seqs : /\ files[i].first <= t
                                                                  /\ \E u \in files[i].recs : t <= u}}
    BY <2>1, PruneFields
  <2>3. UNCHANGED <<epoch, seq, ledger>>
    BY <2>1 DEF Prune, stream
  <2>4. SUFFICES ASSUME NEW e \in Epochs, NEW s \in Seqs, <<e, s>> \in Reported'
                 PROVE  /\ <<e, s>> \notin Readable'
                        /\ e <= epoch
                        /\ e = epoch => s <= seq /\ (Appending => s < seq)
    BY <2>2, <2>3 DEF ReportedPast, Appending
  <2>5. CASE <<e, s>> \in ledger
    BY <2>1, <2>5, ReadablePruned DEF ReportedPast, Reported
  <2>6. CASE <<e, s>> \in op'.gap
    <3>1. e = files[i].epoch /\ files[i].first <= s /\ \E u \in files[i].recs : s <= u
      BY <2>2, <2>6
    <3> QED BY <2>1, <3>1, PrunedUnread
  <2> QED BY <2>2, <2>3, <2>4, <2>5, <2>6 DEF Reported
<1>3. CASE ~(\/ RecordGap \/ \E written \in BOOLEAN : RecordGapFails(written)
             \/ \E i \in Files : Prune(i))
  <2>1. Reported' \subseteq Reported /\ (Appending' => Appending \/ StartAppend)
    BY <1>3, ReportsSame
  <2>2. CASE Quiet \/ CreateSegment
    <3>1. Readable' = Readable /\ UNCHANGED <<epoch, seq>>
      BY <2>2, ReadableKept, ReadableCreated DEF Quiet, CreateSegment, stream
    <3>2. ~StartAppend
      BY <1>0, <3>1 DEF StartAppend, Number
    <3> QED BY <2>1, <3>1, <3>2 DEF ReportedPast
  <2>3. CASE Numbering
    <3>1. Readable' = Readable /\ epoch' = epoch /\ seq' = seq + 1
      BY <2>3 DEF Numbering, Number, Readable, RecordsOf, Exists
    <3> QED BY <1>0, <2>1, <3>1 DEF ReportedPast
  <2>4. CASE Recording
    <3>1. Readable' = Readable \cup {<<epoch, seq>>} /\ UNCHANGED <<epoch, seq>>
      BY <2>4, ReadableAdded DEF Recording
    <3>2. Appending /\ ~StartAppend
      BY <2>4 DEF Recording, RecordAdded, Doing, CommandPlace, Appending, StartAppend, Number
    <3>3. \A e \in Epochs, s \in Seqs : <<e, s>> \in Reported => ~(e = epoch /\ s = seq)
      BY <1>0, <3>2 DEF ReportedPast
    <3> QED BY <2>1, <3>1, <3>2, <3>3 DEF ReportedPast
  <2>5. CASE Open
    <3>1. Readable' = Readable /\ epoch' = epoch + 1
      BY <2>5 DEF Open, Readable, RecordsOf, Exists
    <3> QED BY <1>0, <2>1, <3>1 DEF ReportedPast
  <2> QED BY <1>3, <2>2, <2>3, <2>4, <2>5, StepKinds
<1> QED BY <1>1, <1>2, <1>3


\* A command is at writing when it was, or when it has just found room.
LEMMA WritingBefore ==
    ASSUME TypeOK, CommandPlace, CurrentPlace, NumbersUsed, [Next]_vars,
           op' # None, op'.phase \in {"create", "header", "write"}
    PROVE  /\ Readable' = Readable
           /\ op # None
           /\ \/ op.phase \in {"create", "header", "write"}
              \/ Fits /\ op.kind = "append"
<1>1. CASE CreateSegment
  BY <1>1, ReadableCreated DEF CreateSegment, Doing
<1>2. CASE WriteHeader
  <2>1. ~\E i \in Files : Prune(i)
    BY <1>2 DEF WriteHeader, Prune, Doing
  <2>2. ~Recording /\ ~Numbering /\ ~CreateSegment /\ ~Open
    BY <1>2 DEF WriteHeader, Recording, RecordAdded, Numbering, Number, CreateSegment, Open, Doing, CommandPlace
  <2>3. Readable' = Readable
    BY <2>1, <2>2, StepKinds, ReadableKept DEF Quiet
  <2> QED BY <1>2, <2>3 DEF WriteHeader, Doing
<1>3. CASE EnsureCapacity \/ RetentionEnds
  <2>1. op # None /\ files' = files /\ (Continue \/ Finished(FALSE)) /\ (Fits \/ Finished(FALSE))
    BY <1>3 DEF EnsureCapacity, RetentionEnds, Cleaned, Doing
  <2>2. op.kind = "append"
    BY <2>1, ContinueFields DEF Finished
  <2> QED BY <2>1, <2>2 DEF Finished, Readable, RecordsOf, Exists
<1>4. CASE Ended \/ UNCHANGED vars
  BY <1>4 DEF Ended, vars, Readable, RecordsOf, Exists
<1>5. CASE Open \/ DropEvent \/ \E i \in Files : RecoverSegment(i) \/ RefuseStart(i)
  <2>1. op' = op /\ op = None
    BY <1>5 DEF Open, DropEvent, Number, RecoverSegment, RefuseStart, Unfinished, CommandPlace
  <2> QED BY <2>1
<1>6. CASE StartAppend \/ Recovered \/ \E sealing \in BOOLEAN : Finish(sealing)
  BY <1>6 DEF StartAppend, Recovered, Finish, NewCommand
<1>7. CASE \E written \in {"none", "part", "all"} : Crash(written)
  BY <1>7 DEF Crash
<1>8. CASE WriterStep /\ ~CreateSegment /\ ~WriteHeader /\ ~EnsureCapacity /\ ~RetentionEnds
  <2>1. CASE RecordGap \/ KeepSegment \/ Rotate
    BY <2>1, GotoFields DEF RecordGap, KeepSegment, Rotate, Doing
  <2>2. CASE \/ \E written \in BOOLEAN : RecordGapFails(written) \/ RecordPrunedFails(written)
             \/ \E acknowledged \in BOOLEAN : WriteRecord(acknowledged)
             \/ RotateFails \/ NoCapacity \/ CreateFails \/ WriteRecovered \/ WritePoisoned
    BY <2>2 DEF RecordGapFails, RecordPrunedFails, WriteRecord, RotateFails, NoCapacity, CreateFails,
       WriteRecovered, WritePoisoned, Finished
  <2>3. CASE EnforceRetention
    <3>1. PICK todo \in SUBSET Files : todo = Sealed
      BY DEF Sealed
    <3>2. op # None /\ op \in Command /\ op' = [op EXCEPT !.phase = "prune", !.todo = todo]
      BY <2>3, <3>1 DEF EnforceRetention, Doing, TypeOK
    <3> QED BY <3>2 DEF Command
  <2>4. CASE \E i \in Files : Prune(i)
    BY <2>4, PruneFields
  <2>5. CASE RecordPruned \/ \E i \in Files : PruneFails(i)
    BY <2>5, RetentionFields
  <2> QED BY <1>8, <2>1, <2>2, <2>3, <2>4, <2>5 DEF WriterStep
<1> QED BY <1>1, <1>2, <1>3, <1>4, <1>5, <1>6, <1>7, <1>8 DEF Next

\* The room a command found is still there when it writes, for nothing else writes.
LEMMA StepRoom ==
    ASSUME TypeOK, CommandPlace, CurrentPlace, NumbersUsed, RoomKept, [Next]_vars
    PROVE  RoomKept'
<1>1. SUFFICES ASSUME op' # None, op'.phase \in {"create", "header", "write"}
               PROVE  Cardinality(Readable') + 1 <= TotalRecords
  BY DEF RoomKept
<1>2. CASE op.phase \in {"create", "header", "write"}
  BY <1>1, <1>2, WritingBefore DEF RoomKept
<1>3. CASE Fits /\ op.kind = "append"
  BY <1>1, <1>3, WritingBefore DEF Fits, Needed
<1> QED BY <1>1, <1>2, <1>3, WritingBefore

\* The journal stays within its limit.
LEMMA StepBounded ==
    ASSUME TypeOK, CommandPlace, CurrentPlace, NumbersUsed, RoomKept, Bounded, [Next]_vars
    PROVE  Bounded'
<1>0. IsFiniteSet(Readable) /\ Cardinality(Readable) \in Nat
  BY ReadableFinite
<1>1. CASE Quiet \/ Numbering \/ CreateSegment \/ Open
  <2>1. Readable' = Readable
    BY <1>1, ReadableKept, ReadableCreated DEF Quiet, Numbering, Open, Readable, RecordsOf, Exists
  <2> QED BY <2>1 DEF Bounded
<1>2. CASE Recording
  <2>1. Readable' = Readable \cup {<<epoch, seq>>}
    BY <1>2, ReadableAdded DEF Recording
  <2>2. Cardinality(Readable) + 1 <= TotalRecords
    BY <1>2 DEF Recording, RecordAdded, Doing, RoomKept
  <2>3. Cardinality(Readable \cup {<<epoch, seq>>}) <= Cardinality(Readable) + 1
    <3>1. PICK n : n = <<epoch, seq>>
      OBVIOUS
    <3>2. Cardinality(Readable \cup {n}) = IF n \in Readable THEN Cardinality(Readable) ELSE Cardinality(Readable) + 1
      BY <1>0, FS_AddElement
    <3> QED BY <1>0, <3>1, <3>2
  <2>4. Cardinality(Readable \cup {<<epoch, seq>>}) \in Nat
    BY <1>0, FS_AddElement, FS_CardinalityType
  <2> QED BY <1>0, <2>1, <2>2, <2>3, <2>4 DEF Bounded
<1>3. CASE \E i \in Files : Prune(i)
  <2>1. Readable' \subseteq Readable
    BY <1>3, ReadablePruned
  <2>2. Cardinality(Readable') <= Cardinality(Readable) /\ Cardinality(Readable') \in Nat
    BY <1>0, <2>1, FS_Subset, FS_CardinalityType
  <2> QED BY <1>0, <2>2 DEF Bounded
<1> QED BY <1>1, <1>2, <1>3, StepKinds

-----------------------------------------------------------------------------
(* The theorems *)

\* Everything above, together.
Invariant ==
    /\ TypeOK /\ CommandPlace /\ CurrentPlace /\ NumbersUsed
    /\ AckedKept /\ SegmentsOrdered /\ ReportedPast
    /\ RoomKept /\ Bounded

\* Before the first start nothing is readable or reported.
LEMMA InvariantInit == Init => Invariant
<1> SUFFICES ASSUME Init PROVE Invariant
  OBVIOUS
<1> USE DEF Init
<1>1. Readable = {}
  BY DEF Readable, RecordsOf, Exists
<1>2. TypeOK
  BY DEF TypeOK
<1>3. CommandPlace /\ CurrentPlace /\ NumbersUsed
  BY DEF CommandPlace, CurrentPlace, NumbersUsed, Live, Appending, Exists, Doing
<1>4. AckedKept /\ SegmentsOrdered /\ ReportedPast /\ RoomKept
  BY DEF AckedKept, SegmentsOrdered, ReportedPast, Reported, RoomKept, Exists
<1>5. Bounded
  BY <1>1, FS_EmptySet DEF Bounded
<1> QED BY <1>2, <1>3, <1>4, <1>5 DEF Invariant

\* Every step keeps it.
LEMMA InvariantStep == Invariant /\ [Next]_vars => Invariant'
BY StepType, StepCommand, StepCurrent, StepNumbers, StepAcked, StepOrdered, StepReported, StepRoom, StepBounded
   DEF Invariant

\* The journal's state keeps it for ever, whatever fails and whenever the process is
\* killed.
THEOREM JournalInvariant == Spec => []Invariant
BY InvariantInit, InvariantStep, PTL DEF Spec

\* The state of the journal keeps its types.
THEOREM JournalTypeCorrect == Spec => []TypeOK
<1>1. Invariant => TypeOK
  BY DEF Invariant
<1> QED BY <1>1, JournalInvariant, PTL

\* append's acknowledgement is kept: the event is found by every later scan until
\* retention deletes its file.
THEOREM JournalAckedKept == Spec => []AckedKept
<1>1. Invariant => AckedKept
  BY DEF Invariant
<1> QED BY <1>1, JournalInvariant, PTL

\* record_gap and the retention's report never name an event that is still on disk:
\* the numbers of a gap are behind the writer, and those of a deleted segment are in
\* no other segment.
THEOREM JournalLedgerTruthful == Spec => []LedgerTruthful
<1>1. Invariant => LedgerTruthful
  <2>1. SUFFICES ASSUME Invariant, NEW n \in ledger PROVE n \notin Readable
    BY DEF LedgerTruthful
  <2>2. PICK e \in Epochs, s \in Seqs : n = <<e, s>>
    BY <2>1 DEF Invariant, TypeOK
  <2> QED BY <2>1, <2>2 DEF Invariant, ReportedPast, Reported
<1> QED BY <1>1, JournalInvariant, PTL

\* The segments of an epoch are in order and do not overlap, and the journal never
\* exceeds max_total_bytes: ensure_capacity's room is still there when the record
\* is written.
THEOREM JournalSegmentsSound == Spec => []SegmentsSound
<1>1. Invariant => SegmentsSound
  BY DEF Invariant, SegmentsSound
<1> QED BY <1>1, JournalInvariant, PTL

=============================================================================
