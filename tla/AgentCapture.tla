---------------------------- MODULE AgentCapture ----------------------------
(***************************************************************************)
(* One capture of serial-mcp (capture.rs): the stream that is attached       *)
(* before a command is written, the boundary that its TX event sets, the     *)
(* echo that is found in the output, and what completes the capture.         *)
(*                                                                         *)
(* A byte is a letter, the prompt's character "#", "r" or "n" for CR and LF; *)
(* "bs", "esc", "[" and "m" occur in the probes of terminal_text only.  A     *)
(* chunk of output arrives as one event.  Time is a choice: a quiet interval *)
(* or the deadline may have passed whenever the capture waits.               *)
(***************************************************************************)
EXTENDS Naturals, Sequences, FiniteSets, SequencesExt

CONSTANTS
    None,
    Echo,           \* what the device echoes when it echoes the command
    Chunks, Early,  \* the pieces in which output arrives, and those that arrive before the capture begins
    Asked,          \* what the calls ask for: expect, regex, and the prompt of the profile
    Words,          \* words to compare with each other
    Texts,          \* byte strings to normalise
    Column,         \* MIN_PLAIN_CRLF_HARD_WRAP_COLUMN
    Short,          \* the longest command that is only compared exactly
    Edits,          \* the divisor and the bound of the edits that are tolerated
    Kept,           \* limits.max_events
    Rolling,        \* MAX_ROLLING_CHARS
    MaxSeq          \* bound: events of the timeline

VARIABLES
    cap,        \* Capture, CommandBoundaryTracker and CompletionWatcher
    log,        \* the events that the timeline holds
    probe       \* what a pure function is applied to, in a behaviour of its own

vars == <<cap, log, probe>>

-----------------------------------------------------------------------------
(* Pure functions *)

Starts(s, prefix) == Len(prefix) <= Len(s) /\ SubSeq(s, 1, Len(prefix)) = prefix
From(s, i) == SubSeq(s, i, Len(s))
At(s, i, w) == Starts(From(s, i), w)
CRLF == <<"r", "n">>
CRCRLF == <<"r", "r", "n">>

\* strip_ansi
StripAnsi(bytes) ==
    LET step[i \in 0..Len(bytes)] ==
            IF i = 0 THEN [state |-> "ground", out |-> <<>>]
            ELSE LET s == step[i - 1]  b == bytes[i]
                 IN CASE s.state = "ground" /\ b = "esc" -> [s EXCEPT !.state = "escape"]
                      [] s.state = "ground" -> [s EXCEPT !.out = Append(@, b)]
                      [] s.state = "escape" -> [s EXCEPT !.state = IF b = "[" THEN "csi" ELSE "ground"]
                      [] s.state = "csi" -> [s EXCEPT !.state = IF b = "m" THEN "ground" ELSE "csi"]
    IN step[Len(bytes)].out

\* terminal_text
TerminalText(bytes) ==
    LET s == StripAnsi(bytes)
        step[i \in 0..Len(s)] ==
            IF i = 0 THEN <<>>
            ELSE LET out == step[i - 1]
                 IN CASE s[i] = "r" -> Append(out, "n")
                      [] s[i] = "n" -> IF i > 1 /\ s[i - 1] = "r" THEN out ELSE Append(out, "n")
                      [] s[i] = "bs" -> IF out # <<>> /\ out[Len(out)] # "n" THEN SubSeq(out, 1, Len(out) - 1) ELSE out
                      [] OTHER -> Append(out, s[i])
    IN step[Len(s)]

\* edit_distance_within: only the cells within `max` of the diagonal are computed; the
\* cells beside them count as too far.
EditDistanceWithin(left, right, max) ==
    LET inf == max + 1
        row[i \in 0..Len(left)] ==
            IF i = 0 THEN [j \in 0..Len(right) |-> IF j <= max THEN j ELSE inf]
            ELSE LET before == row[i - 1]
                     cell[j \in 0..Len(right)] ==
                         IF j = 0 THEN IF i <= max THEN i ELSE inf
                         ELSE IF j + max < i \/ j > i + max THEN inf
                         ELSE LET swap == before[j - 1] + (IF left[i] = right[j] THEN 0 ELSE 1)
                                  best == IF before[j] < cell[j - 1] THEN before[j] + 1 ELSE cell[j - 1] + 1
                              IN IF swap < best THEN swap ELSE best
                 IN cell
    IN Len(left) <= Len(right) + max /\ Len(right) <= Len(left) + max /\ row[Len(left)][Len(right)] <= max

\* looks_like_damaged_echo
LooksLikeEcho(candidate, echo) ==
    \/ Starts(echo, candidate) \/ Starts(candidate, echo)
    \/ /\ Len(echo) > Short
       /\ LET quarter == Len(echo) \div Edits[1]
              edits == IF quarter < 1 THEN 1 ELSE IF quarter > Edits[2] THEN Edits[2] ELSE quarter
              cut == IF Len(candidate) > Len(echo) THEN SubSeq(candidate, 1, Len(echo)) ELSE candidate
          IN EditDistanceWithin(cut, echo, edits)

\* logical_echo_line: the line from i, without the hard wraps in it, and where the next one begins.
LogicalLine(s, i) ==
    LET read[j \in 1..(Len(s) + 3)] ==
            IF j > Len(s) THEN <<<<>>, Len(s) + 1>>
            ELSE IF At(s, j, CRCRLF) THEN read[j + 3]
            ELSE IF At(s, j, CRLF) THEN <<<<>>, j + 2>>
            ELSE IF s[j] \in {"r", "n"} THEN <<<<>>, j + 1>>
            ELSE <<<<s[j]>> \o read[j + 1][1], read[j + 1][2]>>
    IN read[i]

\* fallback_after_incomplete_echo: what may be matched while the echo is not complete.  A
\* line that looks like the echo is withheld with all that is before it.
Fallback(s, expected) ==
    LET echo == SelectSeq(expected, LAMBDA b : b \notin {"r", "n"})
        Tried(i, j) == j = i \/ s[j - 1] = "#" \/ s[j] = echo[1]
        scan[i \in 1..(Len(s) + 1)] ==
            IF i > Len(s) THEN s
            ELSE LET next == LogicalLine(s, i)[2]
                     hit == {j \in i..(next - 1) : /\ Tried(i, j) /\ LogicalLine(s, j)[1] # <<>>
                                                   /\ LooksLikeEcho(LogicalLine(s, j)[1], echo)}
                 IN IF hit = {} THEN scan[next]
                    ELSE From(s, LogicalLine(s, CHOOSE j \in hit : \A k \in hit : j <= k)[2])
    IN IF echo = <<>> THEN s ELSE scan[1]

\* The last LF before i ends a line; the next one begins here.
LineStart(s, i) ==
    IF \E j \in 1..(i - 1) : s[j] = "n" THEN (CHOOSE j \in 1..(i - 1) : s[j] = "n" /\ \A k \in (j + 1)..(i - 1) : s[k] # "n") + 1
    ELSE 1

\* find_echo_end: how many bytes the first complete echo and all before it take, and
\* whether one of its wraps may be output; None if there is no complete echo.
FindEcho(s, echo) ==
    LET match[i \in 1..(Len(s) + 3), e \in 1..(Len(echo) + 1), line \in 1..(Len(s) + 4), plain \in BOOLEAN] ==
            IF e > Len(echo)
            THEN [end |-> IF echo[Len(echo)] # "r" THEN i - 1
                          ELSE IF At(s, i, CRLF) THEN i + 1 ELSE IF At(s, i, <<"n">>) THEN i ELSE i - 1,
                  plain |-> plain]
            ELSE IF i > Len(s) THEN None
            ELSE IF s[i] = echo[e] THEN match[i + 1, e + 1, IF s[i] = "n" THEN i + 1 ELSE line, plain]
            ELSE IF echo[e] = "n" /\ At(s, i, CRLF) THEN match[i + 1, e, line, plain]
            ELSE IF e = 1 \/ echo[e] \in {"r", "n"} THEN None
            ELSE IF At(s, i, CRCRLF) THEN match[i + 3, e, i + 3, plain]
            ELSE IF At(s, i, CRLF) /\ i - line >= Column THEN match[i + 2, e, i + 2, TRUE]
            ELSE None
        found == {i \in 1..Len(s) : match[i, 1, LineStart(s, i), FALSE] # None}
    IN IF found = {} THEN None
       ELSE LET i == CHOOSE i \in found : \A j \in found : i <= j IN match[i, 1, LineStart(s, i), FALSE]

\* matched_pattern on the normalised text.
Holds(text, word) == \E i \in 1..Len(text) : At(text, i, word)
EndsALine(text, word) == \E i \in 1..Len(text) : At(text, i, word) /\ (i + Len(word) > Len(text) \/ text[i + Len(word)] = "n")

-----------------------------------------------------------------------------
(* The capture *)

Rx(events) == SelectSeq(events, LAMBDA e : e.kind = "rx")
Data(events) ==
    LET join[i \in 0..Len(events)] == IF i = 0 THEN <<>> ELSE join[i - 1] \o events[i].data
    IN join[Len(events)]

\* push, and the same bound for what waits for the echo: the oldest events are given up.
Bounded(events) == IF Len(events) > Kept THEN SubSeq(events, Len(events) - Kept + 1, Len(events)) ELSE events
Push(c, events) == [c EXCEPT !.events = Bounded(@ \o events), !.truncated = @ \/ Len(c.events \o events) > Kept]

\* Mutant of LastOf: the window of the matcher is not bounded.
LastOfAll(s, n) == s
\* append_rolling
LastOf(s, n) == IF Len(s) > n THEN SubSeq(s, Len(s) - n + 1, Len(s)) ELSE s

\* observe_accepted
Observe(c, events, matching, reset, activity) ==
    LET old == IF reset THEN <<>> ELSE c.rolling
    IN [Push(c, events) EXCEPT !.rolling = LastOf(old \o matching, Rolling),
                               !.active = @ \/ (activity /\ c.option.quiet)]

\* discard_pending_prefix: the echo goes, and of the event in which it ends only the rest stays.
DiscardPrefix(events, n) ==
    LET cut[i \in 0..Len(events), left \in 0..n] ==
            IF i = 0 THEN [out |-> <<>>, left |-> left]
            ELSE LET e == events[i]
                     before == cut[i - 1, left]
                 IN IF before.left >= Len(e.data) THEN [before EXCEPT !.left = @ - Len(e.data)]
                    ELSE [out |-> Append(before.out, [e EXCEPT !.data = From(e.data, before.left + 1)]), left |-> 0]
    IN cut[Len(events), n].out

\* Mutant of Withheld: while the echo is incomplete everything may be matched.
WithheldNothing(s, expected) == s
\* The part of the pending output that may complete the capture before its echo does.
Withheld(s, expected) == Fallback(s, expected)

\* The echo is complete: it is removed, or kept if it may be output, and matching begins after it.
Armed(c, pending, match) ==
    LET d == [c EXCEPT !.armed = TRUE, !.echo = TRUE, !.pending = <<>>, !.ambiguous = match.plain]
        after == From(Data(pending), match.end + 1)
        kept == IF match.plain THEN pending ELSE DiscardPrefix(pending, match.end)
    IN Observe([d EXCEPT !.discarded = @ + (IF match.plain THEN 0 ELSE match.end)], kept, after, TRUE, after # <<>>)

Search(c, pending, match) ==
    IF match # None THEN Armed(c, pending, match)
    ELSE LET view == Withheld(Data(pending), c.expected)
         IN Observe([c EXCEPT !.pending = pending], <<>>, view, TRUE, view # <<>>)

\* bound_pending
Pend(c, events) ==
    LET over == Len(events) - Kept
    IN IF over <= 0 THEN Search(c, events, FindEcho(Data(events), c.expected))
       ELSE Search([c EXCEPT !.truncated = TRUE, !.discarded = @ + Len(Data(SubSeq(events, 1, over)))],
                   Bounded(events), FindEcho(Data(Bounded(events)), c.expected))

\* CommandBoundaryTracker::accept; without a boundary every event is taken as it is.
Accept(c, e) ==
    LET d == [c EXCEPT !.through = IF @ < e.seq THEN e.seq ELSE @,
                       !.interfered = @ \/ (c.tx # 0 /\ e.kind = "tx" /\ e.seq # c.tx)]
    IN IF e.seq <= c.tx THEN d
       ELSE IF d.armed \/ e.kind # "rx" THEN Observe(d, <<e>>, e.data, FALSE, e.kind = "rx")
       ELSE Pend(d, Append(d.pending, e))

\* finish
Finish(c, completion) ==
    LET all == SortSeq(c.events \o c.pending, LAMBDA e, f : e.seq < f.seq)
    IN [c EXCEPT !.completion = completion, !.events = Bounded(all), !.pending = <<>>,
                 !.truncated = @ \/ Len(all) > Kept]

\* run_abort_completion
AcceptAndWatch(c, e) ==
    IF e.kind = "abort" THEN Finish(Accept(c, e), "aborted") ELSE Accept(c, e)

AcceptAll(c, events) ==
    LET all[i \in 0..Len(events)] ==
            IF i = 0 THEN c ELSE IF all[i - 1].completion # None THEN all[i - 1] ELSE AcceptAndWatch(all[i - 1], events[i])
    IN all[Len(events)]

\* requested_completion and CompletionWatcher::new: an expression or a literal that the
\* call names is the only evidence, then the prompt of the profile; without any, a
\* quiet interval.
Requested(ask) ==
    LET none == [regex |-> None, literal |-> None, prompt |-> None, quiet |-> FALSE]
    IN IF ask.regex # None THEN [none EXCEPT !.regex = ask.regex]
       ELSE IF ask.expect # None THEN [none EXCEPT !.literal = ask.expect]
       ELSE IF ask.prompt # None THEN [none EXCEPT !.prompt = ask.prompt]
       ELSE [none EXCEPT !.quiet = TRUE]

\* CompletionWatcher::poll, without the timers.
Evidence(c) ==
    LET text == TerminalText(c.rolling)
    IN IF c.option.regex # None THEN IF Holds(text, c.option.regex) THEN "regex" ELSE None
       ELSE IF c.option.literal # None THEN IF Holds(text, c.option.literal) THEN "literal" ELSE None
       ELSE IF c.option.prompt # None /\ EndsALine(text, c.option.prompt) THEN "prompt" ELSE None

EchoUncertain(c) == (c.expected # None /\ ~c.echo) \/ c.ambiguous
NoRx(c) == Rx(c.events) = <<>>

\* command_confidence
Confidence(c) ==
    IF c.gap \/ c.completion \in {"disconnected", "aborted"} THEN "unreliable"
    ELSE IF c.truncated THEN "partial"
    ELSE IF c.interfered THEN "interfered"
    ELSE IF c.completion = "timeout" THEN "incomplete"
    ELSE IF c.completion = "quiet" THEN "low"
    ELSE IF EchoUncertain(c) THEN "medium"
    ELSE IF NoRx(c) THEN "low" ELSE "high"

\* command_sequence_stop: whether the next step of a sequence may be sent.
MayContinue(c) ==
    /\ c.completion \in {"literal", "regex"}
    /\ ~c.gap /\ ~c.truncated /\ ~c.interfered /\ ~EchoUncertain(c)
    /\ ~(NoRx(c) /\ ~c.echo)

-----------------------------------------------------------------------------
(* The stream *)

Event(kind, data) == [seq |-> Len(log) + 1, kind |-> kind, data |-> data]

New(option, echo) ==
    [option |-> option, expected |-> echo, tx |-> 0, at |-> "attach", armed |-> TRUE, read |-> 0,
     pending |-> <<>>, events |-> <<>>, rolling |-> <<>>, active |-> FALSE,
     echo |-> FALSE, ambiguous |-> FALSE, interfered |-> FALSE, truncated |-> FALSE, gap |-> FALSE,
     discarded |-> 0, through |-> 0, completion |-> None]

\* The device and the other writers.
Output(data) ==
    /\ Len(log) < MaxSeq /\ log' = Append(log, Event("rx", data))
    /\ UNCHANGED <<cap, probe>>
OtherWrites ==
    /\ Len(log) < MaxSeq /\ log' = Append(log, Event("tx", <<>>))
    /\ UNCHANGED <<cap, probe>>
Abort ==
    /\ Len(log) < MaxSeq /\ log' = Append(log, Event("abort", <<>>))
    /\ UNCHANGED <<cap, probe>>

\* attach: the replay is buffered until the stream is ready.
Replay ==
    /\ cap.at = "attach" /\ cap.read < Len(log)
    /\ cap' = [Push(cap, <<log[cap.read + 1]>>) EXCEPT !.read = @ + 1]
    /\ UNCHANGED <<log, probe>>
Ready ==
    /\ cap.at = "attach" /\ cap' = [cap EXCEPT !.at = "attached"]
    /\ UNCHANGED <<log, probe>>

\* The command is written, and the capture begins with what was replayed.  A wait has no
\* boundary.
Begin(c) == [AcceptAll([c EXCEPT !.events = <<>>], c.events) EXCEPT !.at = "collect"]
CollectAfterWrite ==
    /\ cap.at = "attached" /\ Len(log) < MaxSeq
    /\ log' = Append(log, Event("tx", <<>>))
    /\ cap' = Begin([cap EXCEPT !.tx = Len(log) + 1, !.through = Len(log) + 1, !.armed = cap.expected = None])
    /\ UNCHANGED probe
Collect ==
    /\ cap.at = "attached"
    /\ cap' = Begin(cap)
    /\ UNCHANGED <<log, probe>>

Waiting == cap.at = "collect" /\ cap.completion = None /\ Evidence(cap) = None
Next1 ==
    /\ Waiting /\ cap.read < Len(log)
    /\ cap' = [AcceptAndWatch(cap, log[cap.read + 1]) EXCEPT !.read = @ + 1]
    /\ UNCHANGED <<log, probe>>
\* The stream lagged: it says so, and goes on later.
Lagged ==
    /\ Waiting /\ cap.read < Len(log)
    /\ cap' = [cap EXCEPT !.gap = TRUE, !.read = Len(log)]
    /\ UNCHANGED <<log, probe>>
Complete ==
    /\ cap.at = "collect" /\ cap.completion = None /\ Evidence(cap) # None
    /\ cap' = Finish(cap, Evidence(cap))
    /\ UNCHANGED <<log, probe>>
\* poll and expired, when a timer has run out, or the stream ended.
Expire(completion) ==
    /\ Waiting
    /\ completion = "quiet" => cap.active
    /\ cap' = Finish(cap, completion)
    /\ UNCHANGED <<log, probe>>

-----------------------------------------------------------------------------

Probes ==
    {[left |-> l, right |-> r, max |-> max] : l, r \in Words, max \in 1..3}
        \cup {[left |-> t, right |-> <<>>, max |-> 0] : t \in Texts}

Init ==
    \/ /\ probe = None /\ log = <<>>
       /\ \E ask \in Asked, echo \in {None, Echo} : cap = New(Requested(ask), echo)
    \/ probe \in Probes /\ log = <<>> /\ cap = None

\* What happens while the capture lags behind changes nothing for it but what it lags by.
Emits == cap.completion = None /\ (cap.read = Len(log) \/ cap.at = "attached")

Next ==
    /\ probe = None
    /\ \/ Emits /\ (OtherWrites \/ Abort)
       \/ Emits /\ \E data \in IF cap.at = "collect" THEN Chunks ELSE Early : Output(data)
       \/ Replay \/ Ready \/ CollectAfterWrite \/ Collect \/ Next1 \/ Lagged \/ Complete
       \/ \E completion \in {"quiet", "timeout", "disconnected"} : Expire(completion)

Spec == Init /\ [][Next]_vars

-----------------------------------------------------------------------------
(* Properties *)

TypeOK ==
    /\ Len(log) <= MaxSeq
    /\ probe = None =>
        /\ cap.at \in {"attach", "attached", "collect"} /\ cap.read <= Len(log)
        /\ Len(cap.events) <= Kept /\ Len(cap.pending) <= Kept /\ Len(cap.rolling) <= Rolling
        /\ cap.completion \in {None, "literal", "prompt", "regex", "quiet", "timeout", "disconnected", "aborted"}

\* The output after the command, as far as the capture has read it, and its letters.
Post == Data(Rx(SubSeq(log, cap.tx + 1, cap.read)))
Letters(s) == SelectSeq(s, LAMBDA b : b \notin {"r", "n"})

\* All that the device sent after the command is returned, in order, but for what is
\* counted as removed; and what is removed ends with the complete echo.
OutputLossless ==
    probe = None /\ cap.tx # 0 /\ cap.completion # None /\ ~cap.truncated /\ ~cap.gap =>
        /\ Data(Rx(cap.events)) = From(Post, cap.discarded + 1)
        /\ \A i \in DOMAIN cap.events : cap.events[i].seq > cap.tx
        /\ cap.discarded # 0 => IsSuffix(Letters(Echo), Letters(SubSeq(Post, 1, cap.discarded)))

\* What completes a command was sent after it, and neither a prompt, nor an expression,
\* nor a quiet interval completes it while the device has sent no more than its echo.
EchoIsNoEvidence ==
    probe = None /\ cap.tx # 0 /\ cap.at = "collect" =>
        /\ ~cap.gap /\ ~cap.truncated => IsSuffix(cap.rolling, Post)
        /\ cap.completion \in {"literal", "prompt", "regex", "quiet"} /\ ~cap.gap /\ cap.expected # None
           => ~IsPrefix(Post, Echo)

\* High confidence, and a next step of a sequence, take all of it: nobody else wrote, nothing
\* is missing, the whole echo was seen, and the evidence was found after it.
HighIsExact ==
    probe = None => (
        cap.tx # 0 /\ cap.completion # None /\ (Confidence(cap) = "high" \/ MayContinue(cap)) =>
            /\ cap.read = cap.through
            /\ \A i \in 1..cap.read : log[i].kind = "tx" => i = cap.tx
            /\ LET after == From(Post, cap.discarded + 1)
                   text == TerminalText(after)
               IN /\ \/ cap.option.regex # None /\ Holds(text, cap.option.regex)
                     \/ cap.option.literal # None /\ Holds(text, cap.option.literal)
                     \/ cap.option.prompt # None /\ EndsALine(text, cap.option.prompt)
                  /\ cap.expected # None => cap.discarded # 0)

\* A write of somebody else that the capture has read is reported.
InterferenceTold ==
    probe = None /\ cap.tx # 0 /\ cap.completion # "aborted" /\ ~cap.gap /\ ~cap.truncated =>
        (cap.interfered <=> \E i \in 1..cap.read : log[i].kind = "tx" /\ i # cap.tx)

\* The distance of two words, by its definition.
Distance(left, right) ==
    LET d[i \in 0..Len(left), j \in 0..Len(right)] ==
            IF i = 0 THEN j ELSE IF j = 0 THEN i
            ELSE LET swap == d[i - 1, j - 1] + (IF left[i] = right[j] THEN 0 ELSE 1)
                     skip == IF d[i - 1, j] < d[i, j - 1] THEN d[i - 1, j] + 1 ELSE d[i, j - 1] + 1
                 IN IF swap < skip THEN swap ELSE skip
    IN d[Len(left), Len(right)]

\* The banded comparison agrees with the distance, and normalising a text again, as
\* poll and matched_pattern do, changes nothing.
FunctionsExact ==
    probe # None =>
        /\ probe.max # 0 => EditDistanceWithin(probe.left, probe.right, probe.max)
                              = (Distance(probe.left, probe.right) <= probe.max)
        /\ probe.max = 0 => TerminalText(TerminalText(probe.left)) = TerminalText(probe.left)
=============================================================================
