---------------------------- MODULE AgentRender -----------------------------
(***************************************************************************)
(* How serial-mcp shows the events of a capture to the Agent (render.rs).    *)
(* The text is cut, excerpted and collapsed, and the Agent must be able to   *)
(* tell from the result what is missing.  All of it is functions; a          *)
(* behaviour is one rendering.                                              *)
(*                                                                         *)
(* A line is a body with a timestamp or none, complete or, at the end, cut   *)
(* short.  Whether the excerpt's pattern is in a line, and whether an         *)
(* exclusion is, is decided by its body.  Where characters count, a text is a *)
(* sequence of "x", "!" (a line with one has a notable token) and "n".        *)
(***************************************************************************)
EXTENDS Naturals, Sequences, FiniteSets, SequencesExt

CONSTANTS
    None,
    Pages,          \* the lines of a text
    Stretches,      \* the characters of a text
    Command,        \* the command whose echo is removed, without its line ending
    Limits,         \* max_chars
    MarkerBudget    \* MARKER_BUDGET; a marker takes one character here

VARIABLES job, result
vars == <<job, result>>

-----------------------------------------------------------------------------
(* Lines *)

\* exclude_complete_lines: the first line and one that is cut short stay.
Omitted(lines, excluded) == {i \in 2..Len(lines) : lines[i].complete /\ lines[i].body \in excluded}
Keep(lines, indices) ==
    LET keep[i \in 0..Len(lines)] == IF i = 0 THEN <<>> ELSE IF i \in indices THEN Append(keep[i - 1], lines[i]) ELSE keep[i - 1]
    IN keep[Len(lines)]
ExcludeLines(lines, excluded) ==
    [lines |-> Keep(lines, DOMAIN lines \ Omitted(lines, excluded)), count |-> Cardinality(Omitted(lines, excluded))]

\* match_excerpt: the lines near a match; a run of others is replaced by their number.
\* Without a match in one line, the server has found one that crosses lines: `anchor` is
\* where it begins, or 0 if it is not visible any more, and then the text only says that.
MatchExcerpt(lines, pattern, context, anchor) ==
    LET hits == {i \in DOMAIN lines : lines[i].body = pattern}
        matching == IF hits # {} THEN hits ELSE {anchor} \ {0}
        near == {i \in DOMAIN lines : \E j \in matching : i <= j + context /\ j <= i + context}
        Passed(out) ==
            IF out # <<>> /\ "others" \in DOMAIN Last(out) THEN [out EXCEPT ![Len(out)].others = @ + 1]
            ELSE Append(out, [others |-> 1])
        show[i \in 0..Len(lines)] ==
            IF i = 0 THEN <<>>
            ELSE IF i \in near THEN Append(show[i - 1], lines[i]) ELSE Passed(show[i - 1])
    IN IF lines = <<>> THEN [out |-> <<>>, matches |-> 0]
       ELSE IF matching = {} THEN [out |-> <<[invisible |-> TRUE]>>, matches |-> 0]
       ELSE [out |-> show[Len(lines)], matches |-> Cardinality(matching)]

IsLine(l) == "body" \in DOMAIN l

\* Two complete lines that differ in their timestamps at most.
Same(a, b) ==
    IsLine(a) /\ IsLine(b) /\ b.complete /\ a.body = b.body /\ (a.stamp = None <=> b.stamp = None)

\* collapse_exact_repeats: a run of equal complete lines becomes its first one and a
\* count, with the timestamps of the first and the last one.
Collapse(lines) ==
    LET count[i \in 0..Len(lines)] ==       \* the lines of the run that ends at i
            IF i = 0 THEN 0
            ELSE IF i > 1 /\ Same(lines[i - count[i - 1]], lines[i]) THEN count[i - 1] + 1 ELSE 1
        last(i) == i = Len(lines) \/ count[i + 1] = 1
        out[i \in 0..Len(lines)] ==
            IF i = 0 THEN <<>>
            ELSE IF ~last(i) THEN out[i - 1]
            ELSE LET first == lines[i - count[i] + 1]
                 IN IF count[i] = 1 THEN Append(out[i - 1], first)
                    ELSE out[i - 1] \o <<first, [repeated |-> count[i] - 1, upto |-> lines[i].stamp]>>
    IN out[Len(lines)]

\* render_events_with_exclusions, on lines.  Lines are only collapsed when none was
\* excluded and the events are contiguous.
RenderLines(j) ==
    LET kept == ExcludeLines(j.lines, j.excluded)
        excerpt == IF j.pattern = None THEN [out |-> kept.lines, matches |-> 0]
                   ELSE MatchExcerpt(kept.lines, j.pattern, j.context, j.anchor)
    IN [excluded |-> kept.count, matches |-> excerpt.matches,
        out |-> IF kept.count = 0 /\ j.contiguous THEN Collapse(excerpt.out) ELSE excerpt.out]

-----------------------------------------------------------------------------
(* Characters *)

First(s, n) == SubSeq(s, 1, IF n < Len(s) THEN n ELSE Len(s))
Newest(s, n) == IF n < Len(s) THEN SubSeq(s, Len(s) - n + 1, Len(s)) ELSE s
Minus(a, b) == IF a > b THEN a - b ELSE 0

\* split_inclusive('\n'): where the line that holds i begins and ends.
Begins(s, i) == IF \E j \in 1..(i - 1) : s[j] = "n" THEN (CHOOSE j \in 1..(i - 1) : s[j] = "n" /\ \A k \in (j + 1)..(i - 1) : s[k] # "n") + 1 ELSE 1
Ends(s, i) == IF \E j \in i..Len(s) : s[j] = "n" THEN CHOOSE j \in i..Len(s) : s[j] = "n" /\ \A k \in i..(j - 1) : s[k] # "n" ELSE Len(s)
LineSpans(s) == {<<Begins(s, i), Ends(s, i)>> : i \in 1..Len(s)}

\* notable_context: the lines with a token and their neighbours, as many as fit.
NotableContext(s, max) ==
    LET spans == LineSpans(s)
        notable == {l \in spans : \E i \in l[1]..l[2] : s[i] = "!"}
        near == {l \in spans : \E m \in notable : l = m \/ l[2] + 1 = m[1] \/ m[2] + 1 = l[1]}
        take[i \in 0..Len(s)] ==
            IF i = 0 THEN [out |-> <<>>, chars |-> 0, skipped |-> FALSE, full |-> FALSE]
            ELSE LET t == take[i - 1]
                     span == <<Begins(s, i), Ends(s, i)>>
                     gap == t.skipped /\ i = span[1] /\ Len(t.out) < max
                     room == Len(t.out) + (IF gap THEN 1 ELSE 0) < max
                     base == IF gap THEN Append(t.out, "unrelated") ELSE t.out
                 IN IF t.full THEN t
                    ELSE IF span \notin near THEN [t EXCEPT !.skipped = t.out # <<>>]
                    ELSE IF ~room THEN [t EXCEPT !.full = TRUE, !.out = base]
                    ELSE [out |-> Append(base, s[i]), chars |-> t.chars + 1, skipped |-> FALSE, full |-> FALSE]
    IN IF max = 0 THEN [out |-> <<>>, chars |-> 0, skipped |-> FALSE, full |-> FALSE] ELSE take[Len(s)]

Broken(s) == IF s # <<>> /\ s[Len(s)] = "n" THEN s ELSE Append(s, "n")

\* smart_limit: the beginning, what is notable in the middle, and the newest output.
SmartLimit(s, max) ==
    LET budget == Minus(max, MarkerBudget)
        head == First(s, budget \div 4)
        tail == Newest(s, budget \div 2)
        middle == SubSeq(s, Len(head) + 1, Len(s) - Len(tail))
        notable == NotableContext(middle, Minus(budget, budget \div 4 + budget \div 2))
        out == Broken(head) \o <<"omitted">>
               \o (IF notable.out = <<>> THEN <<>> ELSE Append(Broken(notable.out), "newest")) \o tail
    IN IF Len(s) <= max THEN [out |-> s, omitted |-> 0]
       ELSE [out |-> Newest(out, max), omitted |-> Minus(Len(s), Len(head) + Len(tail) + notable.chars)]

\* remove_leading_echo: the command, with line breaks in it, if its line ends there.
RemoveEcho(s) ==
    LET match[i \in 1..(Len(s) + 1), e \in 1..(Len(Command) + 1)] ==
            IF e > Len(Command) THEN i
            ELSE IF i > Len(s) THEN 0
            ELSE IF s[i] = "n" /\ e > 1 THEN match[i + 1, e]
            ELSE IF s[i] = Command[e] THEN match[i + 1, e + 1] ELSE 0
        end == match[1, 1]
        after[i \in 1..(Len(s) + 1)] == IF i > Len(s) THEN <<>> ELSE IF s[i] = "n" THEN after[i + 1] ELSE SubSeq(s, i, Len(s))
    IN IF end = 0 THEN s ELSE IF end > Len(s) THEN <<>> ELSE IF s[end] = "n" THEN after[end] ELSE s

-----------------------------------------------------------------------------

Bodies == {l.body : l \in UNION {Range(page) : page \in Pages}}
LineJobs ==
    {[kind |-> "lines", lines |-> page, excluded |-> x, pattern |-> p, context |-> n, anchor |-> a, contiguous |-> c] :
        page \in Pages, x \in SUBSET Bodies, p \in Bodies \cup {None}, n \in {0, 1}, a \in {0, 1}, c \in BOOLEAN}
CharJobs == {[kind |-> "chars", text |-> s, max |-> max] : s \in Stretches, max \in Limits}
EchoJobs == {[kind |-> "echo", text |-> s] : s \in Stretches}

Init == job \in LineJobs \cup CharJobs \cup EchoJobs /\ result = None

Render ==
    /\ result = None
    /\ result' = CASE job.kind = "lines" -> RenderLines(job)
                   [] job.kind = "chars" -> SmartLimit(job.text, job.max)
                   [] job.kind = "echo" -> [out |-> RemoveEcho(job.text)]
    /\ UNCHANGED job
Next == Render
Spec == Init /\ [][Next]_vars

-----------------------------------------------------------------------------
(* Properties *)

\* The lines that an item of the text stands for.
Stands(item) == IF IsLine(item) THEN 1 ELSE IF "others" \in DOMAIN item THEN item.others ELSE item.repeated

\* Every line of the device that is not excluded is shown, or is one of those that the
\* text counts, at its place, as not matching or as repeating its neighbour; all that match
\* are shown or repeated, and how many were excluded is told.  Only when no match is visible does the
\* text account for no line: it then says so and nothing else.
LinesAccounted ==
    result # None /\ job.kind = "lines" =>
        LET out == result.out
            place == SetToSortSeq(DOMAIN job.lines \ Omitted(job.lines, job.excluded), <)
            kept == [n \in DOMAIN place |-> job.lines[place[n]]]
            hits == {n \in DOMAIN kept : kept[n].body = job.pattern}
            upto[i \in 0..Len(out)] == IF i = 0 THEN 0 ELSE upto[i - 1] + Stands(out[i])
            At(i) == (upto[i - 1] + 1)..upto[i]
        IN /\ result.excluded = Len(job.lines) - Len(kept)
           /\ IF out = <<[invisible |-> TRUE]>>
              THEN job.pattern # None /\ job.anchor = 0 /\ result.matches = 0 /\ hits = {}
              ELSE /\ upto[Len(out)] = Len(kept)
                   /\ job.pattern # None /\ hits # {} => result.matches = Cardinality(hits)
                   /\ \A i \in DOMAIN out : \A n \in At(i) :
                        \/ IsLine(out[i]) /\ kept[n] = out[i]
                        \/ "others" \in DOMAIN out[i] /\ n \notin hits
                        \/ /\ "repeated" \in DOMAIN out[i] /\ kept[n].complete
                           /\ place[n] = place[n - 1] + 1
                           /\ kept[n].body = out[i - 1].body
                           /\ (kept[n].stamp = None) = (out[i - 1].stamp = None)

\* A text that is cut says so, is no longer than the limit, and ends with the newest
\* output; what it counts as missing is what is not there.
CutTold ==
    result # None /\ job.kind = "chars" =>
        LET budget == Minus(job.max, MarkerBudget)
            shown == SelectSeq(result.out, LAMBDA c : c \in {"x", "!"})
        IN /\ Len(result.out) <= job.max
           /\ (result.omitted = 0) <=> (result.out = job.text)
           /\ IsSuffix(Newest(job.text, budget \div 2), result.out)
           /\ Len(job.text) > job.max => "omitted" \in Range(result.out) \/ job.max < MarkerBudget
           /\ Len(SelectSeq(job.text, LAMBDA c : c \in {"x", "!"})) <= Len(shown) + result.omitted

\* Only the command and the line breaks in and after it are removed as its echo.
EchoRemovedExactly ==
    result # None /\ job.kind = "echo" =>
        /\ IsSuffix(result.out, job.text)
        /\ result.out # job.text =>
            SelectSeq(SubSeq(job.text, 1, Len(job.text) - Len(result.out)), LAMBDA c : c # "n") = Command
=============================================================================
