--------------------------- MODULE MonitorMatcher ---------------------------
(***************************************************************************)
(* How a Monitor finds its patterns in a stream that comes in pieces        *)
(* (StreamMatcher in monitor.rs).  The matcher keeps a window of bytes and,  *)
(* for each condition, the offset from which a further match may begin, so   *)
(* that nothing is scanned or reported twice.  What may be skipped is read   *)
(* off the expression: its greatest length, the literal that every match     *)
(* begins with, and a literal that every match contains.  The window is cut   *)
(* at its front, pieces may be missing, and a session may end.  Expressions  *)
(* are trees and match as the regex crate does, leftmost first.              *)
(***************************************************************************)
EXTENDS Naturals, Sequences, SequencesExt

CONSTANTS
    None,
    Specs,          \* the conditions of a Monitor: sequences of literals and expressions
    Pieces,         \* the data of an event
    Samples,        \* texts on which the analysis of an expression is checked
    Window,         \* MAX_MATCH_WINDOW_BYTES
    MaxPattern,     \* MAX_MONITOR_PATTERN_BYTES
    MaxEvents       \* bound: events

VARIABLES
    spec,           \* the conditions
    m,              \* StreamMatcher
    naive,          \* for each condition, where its last match ended
    report,         \* what the last event matched: as the matcher says, and as it is
    stream          \* for each byte, the event that brought it

vars == <<spec, m, naive, report, stream>>

Larger(a, b) == IF a > b THEN a ELSE b
Smaller(a, b) == IF a < b THEN a ELSE b
Less(a, b) == IF a > b THEN a - b ELSE 0

-----------------------------------------------------------------------------
(* Expressions *)

RECURSIVE EndsAt(_, _, _), EndsOfAll(_, _, _), EndsOfRepeat(_, _, _, _)

\* Where a match that begins at place i of s may end, the preferred end first.
EndsAt(h, s, i) ==
    CASE h.op = "literal" -> IF i + Len(h.text) - 1 <= Len(s) /\ SubSeq(s, i, i + Len(h.text) - 1) = h.text
                             THEN <<i + Len(h.text)>> ELSE <<>>
      [] h.op = "class" -> IF i <= Len(s) /\ s[i] \in h.set THEN <<i + 1>> ELSE <<>>
      [] h.op = "repeat" -> EndsOfRepeat(h, s, i, 0)
      [] h.op = "concat" -> EndsOfAll(h.parts, s, <<i>>)
      [] OTHER -> FlattenSeq([k \in DOMAIN h.parts |-> EndsAt(h.parts[k], s, i)])

EndsOfAll(parts, s, ends) ==
    IF parts = <<>> THEN ends
    ELSE EndsOfAll(Tail(parts), s, FlattenSeq([k \in DOMAIN ends |-> EndsAt(parts[1], s, ends[k])]))

EndsOfRepeat(h, s, i, n) ==
    LET more == IF h.max # None /\ n = h.max THEN <<>>
                ELSE SelectSeq(EndsAt(h.sub, s, i), LAMBDA e : e > i)
    IN  FlattenSeq([k \in DOMAIN more |-> EndsOfRepeat(h, s, more[k], n + 1)])
        \o (IF n >= h.min THEN <<i>> ELSE <<>>)

\* find_at: the leftmost match from place i on, as <<start, end>>, or None.
FindAt(h, s, i) ==
    LET f[k \in 1..(Len(s) + 1)] ==
            LET ends == IF k > Len(s) THEN <<>> ELSE EndsAt(h, s, k) IN
            IF k > Len(s) THEN None ELSE IF ends # <<>> THEN <<k, ends[1]>> ELSE f[k + 1]
    IN  f[i]

RECURSIVE MinLen(_), MaxLen(_), AnalyzeRegexLiterals(_)

MinLen(h) ==
    CASE h.op = "literal" -> Len(h.text)
      [] h.op = "class" -> 1
      [] h.op = "repeat" -> h.min * MinLen(h.sub)
      [] h.op = "concat" -> FoldLeft(LAMBDA n, part : n + MinLen(part), 0, h.parts)
      [] OTHER -> FoldLeft(LAMBDA n, part : Smaller(n, MinLen(part)), MinLen(h.parts[1]), h.parts)

MaxLen(h) ==
    LET longest(a, b) == IF a = None \/ b = None THEN None ELSE Larger(a, b)
        sum(a, b) == IF a = None \/ b = None THEN None ELSE a + b
    IN  CASE h.op = "literal" -> Len(h.text)
          [] h.op = "class" -> 1
          [] h.op = "repeat" -> IF h.max = None \/ MaxLen(h.sub) = None THEN None ELSE h.max * MaxLen(h.sub)
          [] h.op = "concat" -> FoldLeft(LAMBDA n, part : sum(n, MaxLen(part)), 0, h.parts)
          [] OTHER -> FoldLeft(LAMBDA n, part : longest(n, MaxLen(part)), 0, h.parts)

\* analyze_regex_literals: what every match begins with, a text that every match contains
\* (None if there is no such), and whether a match is nothing but that beginning.
Analysis(prefix, required, exact) == [prefix |-> prefix, required |-> required, exact |-> exact]
Unknown == Analysis(<<>>, None, FALSE)

RepeatLiteral(text, count) ==
    LET n == IF text = <<>> THEN count ELSE Smaller(count, MaxPattern \div Len(text)) IN
    [text |-> FlattenSeq([i \in 1..n |-> text]), whole |-> n = count]

LongerLiteral(a, b) == IF b = None THEN a ELSE IF a = None THEN b ELSE IF Len(a) >= Len(b) THEN a ELSE b

CommonPrefix(a, b) ==
    LET n == CHOOSE k \in 0..Smaller(Len(a), Len(b)) :
                /\ SubSeq(a, 1, k) = SubSeq(b, 1, k)
                /\ k < Smaller(Len(a), Len(b)) => a[k + 1] # b[k + 1]
    IN  SubSeq(a, 1, n)

OfRepeat(h, sub) ==
    LET repeated == IF sub.exact THEN RepeatLiteral(sub.prefix, h.min)
                    ELSE [text |-> sub.prefix, whole |-> FALSE]
    IN  IF h.min = 0 THEN Analysis(<<>>, None, h.max = 0)
        ELSE Analysis(repeated.text, sub.required, repeated.whole /\ h.max = h.min)

JoinConcat(a, part) ==
    Analysis(IF a.exact THEN a.prefix \o part.prefix ELSE a.prefix,
             LongerLiteral(a.required, part.required), a.exact /\ part.exact)

JoinBranch(a, branch) ==
    Analysis(CommonPrefix(a.prefix, branch.prefix),
             IF a.required = branch.required THEN a.required ELSE None,
             a.exact /\ branch.exact /\ a.prefix = branch.prefix)

\* A long beginning is a better text to look for.
Strengthened(a) ==
    IF a.prefix = <<>> THEN a
    ELSE IF a.required = None THEN [a EXCEPT !.required = a.prefix]
    ELSE IF Len(a.prefix) > Len(a.required) THEN [a EXCEPT !.required = a.prefix] ELSE a

AnalyzeRegexLiterals(h) ==
    Strengthened(
        CASE h.op = "literal" -> Analysis(h.text, h.text, TRUE)
          [] h.op = "class" -> IF \E c \in h.set : h.set = {c}
                               THEN LET text == <<CHOOSE c \in h.set : TRUE>> IN Analysis(text, text, TRUE)
                               ELSE Unknown
          [] h.op = "repeat" -> OfRepeat(h, AnalyzeRegexLiterals(h.sub))
          [] h.op = "concat" -> FoldLeft(LAMBDA a, part : JoinConcat(a, AnalyzeRegexLiterals(part)),
                                         Analysis(<<>>, None, TRUE), h.parts)
          [] OTHER -> FoldLeft(LAMBDA a, part : JoinBranch(a, AnalyzeRegexLiterals(part)),
                               AnalyzeRegexLiterals(h.parts[1]), Tail(h.parts)))

\* compile: an expression that may match nothing is refused.
Accepted(conditions) == \A i \in DOMAIN conditions : MinLen(conditions[i].hir) > 0

Compiled(condition) ==
    LET a == AnalyzeRegexLiterals(condition.hir) IN
    [hir |-> condition.hir, literal |-> condition.literal, most |-> MaxLen(condition.hir),
     prefix |-> a.prefix, required |-> IF a.required = None THEN <<>> ELSE a.required,
     after |-> 0, requiredAfter |-> 0, pendingAt |-> None]

-----------------------------------------------------------------------------
(* Scanning.  Offsets count from 0, as in the code; place k + 1 of a sequence is offset k. *)

Relative(absolute, base, length) == Smaller(Less(absolute, base), length)

\* find_literal, from offset `from`; None if it is not there
FindLiteral(bytes, text, from) ==
    LET at == {k \in from..Less(Len(bytes), Len(text)) :
                  k + Len(text) <= Len(bytes) /\ SubSeq(bytes, k + 1, k + Len(text)) = text}
    IN  IF at = {} THEN None ELSE CHOOSE k \in at : \A j \in at : k <= j

\* find_literal_matches, find_regex_matches: the first start and the last end of the matches
\* from `from` on that do not overlap, and where the search ended.
FindMatches(hir, bytes, from) ==
    LET f[k \in 0..(Len(bytes) + 1)] ==
            LET found == IF k > Len(bytes) THEN None ELSE FindAt(hir, bytes, k + 1) IN
            IF found = None THEN [range |-> None, through |-> k]
            ELSE LET rest == f[found[2] - 1] IN
                 [range |-> <<found[1] - 1, IF rest.range = None THEN found[2] - 1 ELSE rest.range[2]>>,
                  through |-> rest.through]
    IN  f[from]

SafeStart(bytes, length) == Less(Len(bytes), Less(length, 1))

\* refresh_required_literal
Refreshed(c, bytes, base) ==
    LET from == Larger(c.requiredAfter, c.after)
        next == FindLiteral(bytes, c.required, Relative(from, base, Len(bytes)))
    IN  [c EXCEPT !.pendingAt = IF next = None THEN None ELSE base + next,
                  !.requiredAfter = IF next # None THEN base + next + Len(c.required)
                                    ELSE Larger(from, base + SafeStart(bytes, Len(c.required)))]

\* required_literal_ready
Ready(c, bytes, base) ==
    IF c.pendingAt # None /\ c.pendingAt >= c.after /\ c.pendingAt >= base THEN c
    ELSE Refreshed(c, bytes, base)

AfterMatch(c, bytes, base, from, through) ==
    LET next == FindLiteral(bytes, c.prefix, Larger(through, from)) IN
    IF c.most # None THEN base + Larger(through, SafeStart(bytes, c.most))
    ELSE IF c.prefix = <<>> THEN Larger(base + through, c.after)
    ELSE IF next # None THEN base + next
    ELSE Larger(c.after, base + SafeStart(bytes, Len(c.prefix)))

Renewed(c, bytes, base) ==
    LET d == IF c.pendingAt # None /\ c.pendingAt < c.after THEN [c EXCEPT !.pendingAt = None] ELSE c IN
    IF c.required = <<>> \/ c.literal \/ d.pendingAt # None THEN d ELSE Refreshed(d, bytes, base)

\* scan_condition: the condition afterwards, and the range that it found.
Scanned(c, bytes, base, from, found) ==
    [cond |-> Renewed([c EXCEPT !.after = AfterMatch(c, bytes, base, from, found.through)], bytes, base),
     range |-> found.range]

ScanReady(c, bytes, base, from) ==
    IF c.pendingAt = None /\ ~c.literal /\ c.most = None /\ c.prefix = <<>> /\ c.required # <<>>
    THEN [cond |-> c, range |-> None]
    ELSE Scanned(c, bytes, base, from, FindMatches(c.hir, bytes, from))

ScanCondition(c, bytes, base) ==
    ScanReady(IF ~c.literal /\ c.most = None /\ c.prefix = <<>> /\ c.required # <<>>
              THEN Ready(c, bytes, base) ELSE c,
              bytes, base, Relative(c.after, base, Len(bytes)))

-----------------------------------------------------------------------------
(* The matcher *)

Restarted(c, at) == [c EXCEPT !.after = at, !.requiredAfter = at, !.pendingAt = None]

Cleared(x, at) ==
    [x EXCEPT !.bytes = <<>>, !.chunks = <<>>, !.base = at,
              !.conds = [i \in DOMAIN x.conds |-> Restarted(x.conds[i], at)]]

\* trim
TrimmedCondition(c, base) ==
    [c EXCEPT !.after = Larger(@, base), !.requiredAfter = Larger(@, base),
              !.pendingAt = IF @ = None THEN None ELSE IF @ < base THEN None ELSE @]

TrimTo(x, base) ==
    [x EXCEPT !.bytes = SubSeq(@, base - x.base + 1, Len(@)), !.base = base,
              !.chunks = SelectSeq(@, LAMBDA chunk : chunk.end > base),
              !.conds = [i \in DOMAIN x.conds |-> TrimmedCondition(x.conds[i], base)]]

Trim(x) == IF Len(x.bytes) <= Window THEN x ELSE TrimTo(x, x.base + Len(x.bytes) - Window)

\* incident_for: the events that the matches lie in.
FirstChunk(chunks, P(_)) ==
    LET at == {i \in DOMAIN chunks : P(chunks[i])} IN
    IF at = {} THEN None ELSE chunks[CHOOSE i \in at : \A j \in at : i <= j]

Incident(x, ranges) ==
    LET hit == {i \in DOMAIN ranges : ranges[i] # None}
        start == CHOOSE n \in {ranges[i][1] : i \in hit} : \A i \in hit : n <= ranges[i][1]
        end == CHOOSE n \in {ranges[i][2] : i \in hit} : \A i \in hit : n >= ranges[i][2]
        first == FirstChunk(x.chunks, LAMBDA c : c.end > x.base + start)
        last == FirstChunk(x.chunks, LAMBDA c : c.end >= x.base + end)
    IN  IF hit = {} THEN None
        ELSE [start |-> x.base + start, end |-> x.base + end, matches |-> hit,
              first |-> first.seq, last |-> IF last = None THEN first.seq ELSE last.seq]

\* push
Extended(x, data, start, seq) ==
    LET y == IF x.bytes # <<>> /\ start # x.next THEN Cleared(x, start)
             ELSE IF x.bytes = <<>> THEN [x EXCEPT !.base = start] ELSE x
    IN  [y EXCEPT !.bytes = @ \o data, !.next = start + Len(data),
                  !.chunks = Append(@, [end |-> start + Len(data), seq |-> seq])]

ScanAll(x) == [i \in DOMAIN x.conds |-> ScanCondition(x.conds[i], x.bytes, x.base)]
RangesOf(scans) == [i \in DOMAIN scans |-> scans[i].range]
CondsOf(scans) == [i \in DOMAIN scans |-> scans[i].cond]

PushScanned(x, scans) ==
    [m |-> Trim([x EXCEPT !.conds = CondsOf(scans)]), incident |-> Incident(x, RangesOf(scans))]
PushExtended(x) == PushScanned(x, ScanAll(x))

-----------------------------------------------------------------------------
(* The worker *)

NoReport == [incident |-> None, true |-> None]

Init ==
    /\ spec \in {s \in Specs : Accepted(s)}
    /\ m = [bytes |-> <<>>, chunks |-> <<>>, base |-> 0, next |-> 0,
            conds |-> [i \in DOMAIN spec |-> Compiled(spec[i])]]
    /\ naive = [i \in DOMAIN spec |-> 0]
    /\ report = NoReport /\ stream = <<>>

\* Every condition searched without any skipping, from the end of its last match.
Naively(x) == [i \in DOMAIN spec |-> FindMatches(spec[i].hir, x.bytes, Relative(naive[i], x.base, Len(x.bytes)))]
NaiveRanges(x, finds) == [i \in DOMAIN spec |-> finds[i].range]
NaiveEnds(x, finds) ==
    [i \in DOMAIN spec |-> IF finds[i].range = None THEN naive[i] ELSE x.base + finds[i].range[2]]

Observe(x, pushed, finds, seq) ==
    /\ m' = pushed.m
    /\ report' = [incident |-> pushed.incident, true |-> Incident(x, NaiveRanges(x, finds))]
    /\ naive' = NaiveEnds(x, finds)

\* An RX event, perhaps after bytes that were lost.
Event ==
    /\ Len(stream) < MaxEvents
    /\ \E data \in Pieces, lost \in {0, 1} :
          LET start == m.next + lost
              seq == Len(stream) + 1
              x == Extended(m, data, start, seq)
          IN  /\ lost = 1 => stream # <<>>
              /\ Observe(x, PushExtended(x), Naively(x), seq)
              /\ stream' = Append(stream, [start |-> start, end |-> start + Len(data)])
    /\ UNCHANGED spec

\* reset_for_gap, reset_for_boundary
ResetMatcher ==
    /\ m.bytes # <<>>
    /\ m' = Cleared(m, m.next)
    /\ naive' = [i \in DOMAIN spec |-> m.next] /\ report' = NoReport
    /\ UNCHANGED <<spec, stream>>

Next == Event \/ ResetMatcher

Spec == Init /\ [][Next]_vars

-----------------------------------------------------------------------------
(* The properties *)

TypeOK ==
    /\ Len(m.bytes) <= Window /\ m.base + Len(m.bytes) = m.next
    /\ \A i \in DOMAIN m.conds : m.conds[i].after <= m.next

\* However the stream is cut, the matcher reports after each event the matches that a
\* search of its whole window finds behind the last match of each condition: skipping by
\* length, by beginning and by required text loses none and reports none again
\* (scan_condition, trim).
MatchesFound == report.incident = report.true

\* An incident names the events that hold its first and its last byte (incident_for).
EventsNamed ==
    report.incident # None =>
       LET i == report.incident IN
       /\ stream[i.first].start <= i.start /\ i.start < stream[i.first].end
       /\ stream[i.last].start < i.end /\ i.end <= stream[i.last].end

\* What the analysis says of an expression holds of all its matches
\* (analyze_regex_literals, maximum_len).
AnalysisSound ==
    stream = <<>> => \A n \in DOMAIN spec, s \in Samples :
       LET h == spec[n].hir
           a == AnalyzeRegexLiterals(h)
       IN  \A e \in Range(EndsAt(h, s, 1)) :
              LET text == SubSeq(s, 1, e - 1) IN
              /\ IsPrefix(a.prefix, text)
              /\ a.exact => text = a.prefix
              /\ a.required # None => FindLiteral(text, a.required, 0) # None
              /\ MinLen(h) <= Len(text)
              /\ MaxLen(h) # None => Len(text) <= MaxLen(h)

=============================================================================
