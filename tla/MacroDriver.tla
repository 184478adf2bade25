---------------------------- MODULE MacroDriver ----------------------------
(***************************************************************************)
(* The daemon's driver of a running Macro (slot/macro_runtime.rs): how it   *)
(* answers the machine's effects, and how the bytes that the device sends   *)
(* become evidence for a watcher.  RX comes in pieces cut anywhere, with    *)
(* terminal decoration in it, begun before a command and ended after it,    *)
(* and with the echo of the command itself, which must not be taken for the *)
(* answer to it.  The echo may be late, behind output or behind the next    *)
(* command, torn, or never come.                                            *)
(*                                                                         *)
(* The device says of each byte what it is, which the driver never looks    *)
(* at: text or decoration, output or echo.  Which effects come is up to the *)
(* script; MacroVm models the machine.                                      *)
(***************************************************************************)
EXTENDS Naturals, Sequences, SequencesExt

CONSTANTS
    None,
    EchoOn,         \* the profile's EchoMode is not Off
    Line,           \* the text of every command
    Patterns,       \* what a watcher may look for
    Tokens,         \* what the device may send, as byte sequences with their nature
    MaxTokens,      \* bound on what it sends
    MaxWire,        \* bound on what it sends ahead of the daemon
    MaxEffects      \* bound on the effects of the script

Prompt == <<"$">>
Newline == "n"
After(s, n) == SubSeq(s, n + 1, Len(s))
Byte(b, text, echo) == [b |-> b, text |-> text, echo |-> echo]

VARIABLES
    wire,       \* bytes that the device has sent and the driver has not seen
    owes,       \* commands that the device may still echo
    answers,    \* what was seen after each command while a watcher was bound, as the device meant it
    watchers,   \* the driver's watchers
    projection, \* Projection
    filter,     \* EchoFilter
    check,      \* InputCheck, or None
    doing,      \* the effect that the driver is at, or None
    status,     \* of the execution
    written,    \* the commands on the wire
    tokens, effects

device == <<wire, owes, tokens>>
matching == <<answers, watchers, projection, filter, check>>
vars == <<device, matching, doing, status, written, effects>>

-----------------------------------------------------------------------------
(* Projection: terminal decoration is left out.  The result of feeding bytes is *)
(* the new state and what is visible; strict is for bytes that somebody watches. *)

Plain == [escape |-> "none", cr |-> FALSE, poisoned |-> FALSE]
Shown(p, out, bad) == [p |-> p, out |-> out, bad |-> bad]
To(p, escape) == [p EXCEPT !.escape = escape]

\* A byte inside an escape sequence: where it leads, and what makes it unfit as
\* evidence.
Escape(p, b) ==
    CASE p.escape = "start" ->
            CASE b = "[" -> Shown(To(p, "csi"), <<>>, FALSE)
              [] b = "]" -> Shown(To(p, "osc"), <<>>, FALSE)
              [] b = "P" -> Shown(To(p, "string"), <<>>, TRUE)
              [] b = "$" -> Shown(To(p, "short"), <<>>, TRUE)
              [] b \in {"c", "d", "m", "H"} -> Shown(To(p, "none"), <<>>, TRUE)
              [] b = "E" -> Shown(p, <<>>, FALSE)
              [] OTHER -> Shown([To(p, "none") EXCEPT !.poisoned = TRUE], <<>>, TRUE)
      [] p.escape = "csi" ->
            CASE b = "E" -> Shown(To(p, "start"), <<>>, FALSE)
              [] b \in {"c", "d", "m", "H", "P", "[", "]"} -> Shown(To(p, "none"), <<>>, b # "m")
              [] OTHER -> Shown(p, <<>>, FALSE)
      [] p.escape = "osc" ->
            Shown(To(p, CASE b = "g" -> "none" [] b = "E" -> "osc end" [] OTHER -> "osc"), <<>>, FALSE)
      [] p.escape = "osc end" ->
            Shown(To(p, CASE b = "\\" -> "none" [] b = "E" -> "osc end" [] OTHER -> "osc"), <<>>, FALSE)
      [] p.escape = "string" -> Shown(To(p, IF b = "E" THEN "string end" ELSE "string"), <<>>, TRUE)
      [] p.escape = "string end" ->
            Shown(To(p, CASE b = "\\" -> "none" [] b = "E" -> "string end" [] OTHER -> "string"), <<>>, TRUE)
      [] p.escape = "short" ->
            CASE b = "E" -> Shown(To(p, "start"), <<>>, FALSE)
              [] b \in {"c", "d", "m", "H", "P", "[", "]"} -> Shown(To(p, "none"), <<>>, TRUE)
              [] b = "$" -> Shown(p, <<>>, TRUE)
              [] OTHER -> Shown([p EXCEPT !.poisoned = TRUE], <<>>, TRUE)

\* A carriage return ends a line, and takes the line feed after it along.
Project(p, b) ==
    CASE p.escape # "none" -> Escape(p, b)
      [] p.escape = "none" /\ b = "E" -> Shown(To(p, "start"), <<>>, FALSE)
      [] p.escape = "none" /\ b = "r" -> Shown([p EXCEPT !.cr = TRUE], <<Newline>>, FALSE)
      [] p.escape = "none" /\ b = "n" ->
            IF p.cr THEN Shown([p EXCEPT !.cr = FALSE], <<>>, FALSE) ELSE Shown(p, <<Newline>>, FALSE)
      [] p.escape = "none" /\ b = "B" -> Shown(p, <<>>, TRUE)
      [] p.escape = "none" /\ b = "g" -> Shown(p, <<>>, FALSE)
      [] OTHER -> Shown([p EXCEPT !.cr = FALSE], <<b>>, FALSE)

\* feed_inner
Then(r, s) == Shown(s.p, r.out \o s.out, r.bad \/ s.bad)
FeedByte(r, b) == Then(r, Project(r.p, b))
Feed(p, bytes) ==
    LET fed[i \in 0..Len(bytes)] ==
            IF i = 0 THEN Shown(p, <<>>, p.poisoned)
            ELSE FeedByte(fed[i - 1], bytes[i])
    IN fed[Len(bytes)]

FeedUnobserved(p, bytes) == Feed(p, bytes).p

-----------------------------------------------------------------------------
(* InputCheck, EchoFilter and LiteralMatcher *)

\* Only a whole line that is the command, alone or after a prompt, confirms it.
CheckByte(c, b) ==
    CASE c.matched -> [c EXCEPT !.out = Append(@, b)]
      [] ~c.matched /\ b = Newline -> [c EXCEPT !.line = <<>>, !.matched = c.line \in {Line, Prompt \o Line}]
      [] OTHER -> [c EXCEPT !.line = Append(@, b)]
CheckFeed(c, bytes) ==
    LET fed[i \in 0..Len(bytes)] ==
            IF i = 0 THEN [c EXCEPT !.out = <<>>] ELSE CheckByte(fed[i - 1], bytes[i])
    IN fed[Len(bytes)]

\* The bytes up to and with the first line end.
FirstLine(bytes) ==
    LET ends == {i \in DOMAIN bytes : bytes[i] \in {"r", "n"}}
    IN IF ends = {} THEN bytes ELSE SubSeq(bytes, 1, CHOOSE i \in ends : \A j \in ends : i <= j)

\* InputCheck::observe: strict up to the line that confirms, then strict only for
\* a watcher.  Line ends go one by one.
Confirm(o, line, shown, fed) ==
    [check |-> fed, p |-> shown.p, out |-> o.out \o fed.out, bad |-> o.bad \/ shown.bad,
     rest |-> SubSeq(o.rest, Len(line) + 1, Len(o.rest))]
ConfirmShown(o, line, shown) == Confirm(o, line, shown, CheckFeed(o.check, shown.out))
ConfirmLine(o, line) == ConfirmShown(o, line, Feed(o.p, line))
ObserveLine(o) == IF o.check.matched \/ o.rest = <<>> THEN o ELSE ConfirmLine(o, FirstLine(o.rest))

ObserveLines(c, p, bytes) ==
    LET lines[i \in 0..Len(bytes)] ==
            IF i = 0 THEN [check |-> c, p |-> p, out |-> <<>>, bad |-> FALSE, rest |-> bytes]
            ELSE ObserveLine(lines[i - 1])
    IN lines[Len(bytes)]

ObserveTail(lines, tail, watching) ==
    IF watching
    THEN [lines EXCEPT !.p = tail.p, !.out = @ \o tail.out, !.bad = @ \/ tail.bad]
    ELSE [lines EXCEPT !.p = FeedUnobserved(lines.p, lines.rest)]
ObserveRest(lines, watching) == ObserveTail(lines, Feed(lines.p, lines.rest), watching)
Observe(c, p, bytes, watching) == ObserveRest(ObserveLines(c, p, bytes), watching)

NoFilter == [expected |-> <<>>, pending |-> <<>>, active |-> FALSE, out |-> <<>>]
NewFilter == [expected |-> Line, pending |-> <<>>, active |-> EchoOn, out |-> <<>>]

\* Mutant of FilterByte: what was held back is dropped when it turns out to be no echo.
FilterByteDropping(f, b) ==
    CASE ~f.active -> [f EXCEPT !.out = Append(@, b)]
      [] f.active /\ b = Newline -> [f EXCEPT !.active = FALSE, !.pending = <<>>]
      [] f.active /\ b # Newline ->
            IF Len(f.pending) < Len(f.expected) /\ b = f.expected[Len(f.pending) + 1]
            THEN [f EXCEPT !.pending = Append(@, b)]
            ELSE [f EXCEPT !.active = FALSE, !.pending = <<>>, !.out = Append(@, b)]

\* The complete command at the start of the answer is its echo; the first byte
\* that differs shows that there is none.
FilterByte(f, b) ==
    CASE ~f.active -> [f EXCEPT !.out = Append(@, b)]
      [] f.active /\ b = Newline ->
            [f EXCEPT !.active = FALSE, !.pending = <<>>,
                      !.out = IF f.pending = f.expected THEN @ ELSE @ \o Append(f.pending, b)]
      [] f.active /\ b # Newline ->
            IF Len(f.pending) < Len(f.expected) /\ b = f.expected[Len(f.pending) + 1]
            THEN [f EXCEPT !.pending = Append(@, b)]
            ELSE [f EXCEPT !.active = FALSE, !.pending = <<>>, !.out = @ \o Append(f.pending, b)]
FilterFeed(f, bytes) ==
    LET fed[i \in 0..Len(bytes)] ==
            IF i = 0 THEN [f EXCEPT !.out = <<>>] ELSE FilterByte(fed[i - 1], bytes[i])
    IN fed[Len(bytes)]

\* LiteralMatcher::new: for each length the longest proper prefix of the pattern
\* that ends there too.
PrefixOf(pattern) ==
    LET prefix[i \in 1..Len(pattern)] ==
            LET back[n \in 0..Len(pattern)] ==
                    IF n > 0 /\ pattern[i] # pattern[n + 1] THEN back[prefix[n]] ELSE n
                begin == back[prefix[i - 1]]
            IN IF i = 1 THEN 0 ELSE IF pattern[i] = pattern[begin + 1] THEN begin + 1 ELSE begin
    IN prefix

Unmatched(pattern) ==
    [pattern |-> pattern, prefix |-> PrefixOf(pattern), prompt |-> pattern = Prompt,
     since |-> None, at |-> 0, seen |-> FALSE, matched |-> FALSE]

\* LiteralMatcher::feed on one byte.  A pattern that is a prompt must be the last
\* thing in the text, but for blanks.
MatchByte(w, b) ==
    LET back[n \in 0..Len(w.pattern)] ==
            IF n > 0 /\ b # w.pattern[n + 1] THEN back[w.prefix[n]] ELSE n
        n == IF b = w.pattern[back[w.at] + 1] THEN back[w.at] + 1 ELSE back[w.at]
    IN IF w.matched THEN w
       ELSE IF n = Len(w.pattern) THEN [w EXCEPT !.at = w.prefix[n], !.seen = TRUE, !.matched = ~w.prompt]
       ELSE [w EXCEPT !.at = n, !.seen = @ /\ (w.prompt => b = Newline)]

Matching(w, bytes) ==
    LET fed[i \in 0..Len(bytes)] == IF i = 0 THEN w ELSE MatchByte(fed[i - 1], bytes[i])
    IN fed[Len(bytes)]

MatchFeed(w, bytes) ==
    LET fed == Matching(w, bytes) IN [fed EXCEPT !.matched = fed.seen]

-----------------------------------------------------------------------------
(* The device *)

Running == status = "running"

\* It sends output at any time, ahead of an echo and between two commands too, as long as
\* anybody reads it.
Send(token) ==
    /\ Running /\ tokens < MaxTokens /\ Len(wire \o token) <= MaxWire
    /\ wire' = wire \o token
    /\ tokens' = tokens + 1
    /\ UNCHANGED <<owes, matching, doing, status, written, effects>>

Echoed(bytes) == [i \in 1..Len(bytes) |-> Byte(bytes[i], TRUE, TRUE)]
                 \o <<Byte("r", TRUE, TRUE), Byte("n", FALSE, TRUE)>>

\* The echo of a command comes, comes without its last byte, or never comes.
Echo(echo) ==
    /\ Running /\ owes > 0 /\ owes' = owes - 1 /\ Len(wire \o echo) <= MaxWire
    /\ wire' = wire \o echo
    /\ UNCHANGED <<tokens, matching, doing, status, written, effects>>

Echoes == {Echoed(Line), Echoed(Front(Line)), <<>>}

-----------------------------------------------------------------------------
(* The driver *)

\* Driver::event for RX: a piece of what the device sent.
Bound == {i \in DOMAIN watchers : watchers[i].since # None}
Watching == \E i \in Bound : ~watchers[i].matched
Means(bytes) == LET texts == SelectSeq(bytes, LAMBDA x : x.text)
                IN [i \in DOMAIN texts |-> [texts[i] EXCEPT !.b = IF @ = "r" THEN Newline ELSE @]]

\* run: the driver ends, and what it read and watched ends with it.
End(how) ==
    /\ status' = how /\ doing' = None
    /\ wire' = <<>> /\ owes' = 0 /\ answers' = <<>> /\ watchers' = <<>>
    /\ projection' = Plain /\ filter' = NoFilter /\ check' = None

Filtered(strict) == <<strict, FilterFeed(filter, strict.out)>>
Interpreted(bytes) ==
    IF check # None
    THEN LET observed == Observe(check, projection, bytes, Watching)
         IN [p |-> observed.p, check |-> observed.check, filter |-> filter,
             out |-> observed.out, bad |-> observed.bad]
    ELSE LET strict == Filtered(Feed(projection, bytes))
         IN [p |-> strict[1].p, check |-> None, filter |-> strict[2],
             out |-> strict[2].out, bad |-> strict[1].bad]

Evidence(r) ==
    /\ projection' = r.p /\ check' = r.check /\ filter' = r.filter
    /\ watchers' = [i \in DOMAIN watchers |->
                      IF i \in Bound /\ ~watchers[i].matched THEN MatchFeed(watchers[i], r.out)
                      ELSE watchers[i]]

Take(seen) ==
    /\ wire' = After(wire, Len(seen))
    /\ answers' = IF Bound = {} THEN answers ELSE [answers EXCEPT ![written].text = @ \o Means(seen)]
    /\ UNCHANGED <<owes, doing, status>>

\* RX that nobody watches is only followed for its framing.  RX that is no evidence ends it.
Received(seen, bytes) ==
    IF check = None /\ ~Watching
    THEN Take(seen) /\ projection' = FeedUnobserved(projection, bytes) /\ UNCHANGED <<watchers, filter, check>>
    ELSE \E r \in {Interpreted(bytes)} : IF r.bad THEN End("failed") ELSE Take(seen) /\ Evidence(r)

Receive(n) ==
    /\ Running /\ n \in 1..Len(wire)
    /\ Received(SubSeq(wire, 1, n), [i \in 1..n |-> wire[i].b])
    /\ UNCHANGED <<tokens, written, effects>>

Ready == Running /\ doing = None /\ effects < MaxEffects /\ effects' = effects + 1

\* EffectKind::Watch: bound to nothing until the next command.
DoWatch(pattern) ==
    /\ Ready
    /\ watchers' = Append(watchers, Unmatched(pattern))
    /\ UNCHANGED <<device, answers, projection, filter, check, doing, status, written>>

\* The command is on the wire and its TX event has been seen, after every RX that
\* came before it: the unbound watchers begin here.  What the device sent before and the
\* daemon had not read counts as the answer.  A filter that still holds bytes back is
\* replaced with them.
DoCommand(verify) ==
    /\ Ready
    /\ verify => EchoOn
    /\ written' = written + 1
    /\ owes' = owes + 1
    /\ answers' = Append(answers, [verify |-> verify, text |-> <<>>])
    /\ watchers' = [i \in DOMAIN watchers |->
                      [watchers[i] EXCEPT !.since = IF @ = None THEN written' ELSE @]]
    /\ filter' = NewFilter
    /\ check' = IF verify THEN [line |-> <<>>, matched |-> FALSE, out |-> <<>>] ELSE None
    /\ doing' = IF verify THEN "verify" ELSE None
    /\ UNCHANGED <<wire, tokens, projection, status>>

\* A write that the Slot refuses, or whose outcome is unknown, is the end.
CommandFails ==
    /\ Ready /\ End("failed")
    /\ UNCHANGED <<tokens, written>>

Verified ==
    /\ Running /\ doing = "verify" /\ check.matched
    /\ check' = None /\ filter' = NoFilter /\ doing' = None
    /\ UNCHANGED <<device, answers, watchers, projection, status, written, effects>>

\* wait and expect need a watcher with a boundary.
DoWait(strict) ==
    /\ Ready
    /\ IF Bound = {} THEN End("failed")
       ELSE doing' = (IF strict THEN "expect" ELSE "wait") /\ UNCHANGED <<wire, owes, matching, status>>
    /\ UNCHANGED <<tokens, written>>

WaitMatched(i) ==
    /\ Running /\ doing \in {"wait", "expect"} /\ i \in Bound /\ watchers[i].matched
    /\ doing' = None
    /\ UNCHANGED <<device, matching, status, written, effects>>

\* A time is over: that of a wait, of the echo, or of the whole execution.
Timeout ==
    /\ Running /\ doing # None
    /\ IF doing = "wait" THEN doing' = None /\ UNCHANGED <<wire, owes, matching, status>>
       ELSE End("failed")
    /\ UNCHANGED <<tokens, written, effects>>

\* check, drain and event: a stop, the deadline, a gap, lost events, a write by
\* somebody else or the end of the port or the lease.
Stop(why) ==
    /\ Running /\ End(why)
    /\ UNCHANGED <<tokens, written, effects>>

Succeed ==
    /\ Running /\ doing = None /\ End("succeeded")
    /\ UNCHANGED <<tokens, written, effects>>

Init ==
    /\ wire = <<>> /\ owes = 0 /\ answers = <<>> /\ watchers = <<>> /\ projection = Plain
    /\ filter = NoFilter /\ check = None /\ doing = None /\ status = "running"
    /\ written = 0 /\ tokens = 0 /\ effects = 0

Next ==
    \/ \E token \in Tokens : Send(token)
    \/ \E echo \in Echoes : Echo(echo)
    \/ \E n \in 1..Len(wire) : Receive(n)
    \/ \E pattern \in Patterns : DoWatch(pattern)
    \/ CommandFails \/ Verified \/ Timeout \/ Succeed
    \/ \E b \in BOOLEAN : DoCommand(b) \/ DoWait(b)
    \/ \E i \in DOMAIN watchers : WaitMatched(i)
    \/ \E why \in {"failed", "timed_out", "interrupted"} : Stop(why)

Spec == Init /\ [][Next]_vars

-----------------------------------------------------------------------------
(* Properties *)

TypeOK ==
    /\ owes \in 0..written /\ tokens \in 0..MaxTokens /\ effects \in 0..MaxEffects /\ written \in 0..MaxEffects
    /\ Running => Len(answers) = written
    /\ \A i \in Bound : watchers[i].since \in 1..written
    /\ \A i \in DOMAIN watchers : watchers[i].at \in 0..Len(watchers[i].pattern)
    /\ Len(filter.pending) <= Len(Line)
    /\ doing \in {"verify", "wait", "expect", None}
    /\ status \in {"running", "failed", "timed_out", "interrupted", "succeeded"}

Occurs(p, s) == \E i \in 0..(Len(s) - Len(p)) : SubSeq(s, i + 1, i + Len(p)) = p

Letters(x) == [i \in DOMAIN x |-> x[i].b]
LineEnd == Append(Line, Newline)

\* What counts of a whole answer.  After an unverified command: all of it, but for the
\* command as its first line; while the answer is no more than a beginning of that line it
\* is held back.  After a verified one: what follows the first line that is the command.
Counts(answer) ==
    LET t == Letters(answer.text)
        Confirming(i) == \E p \in {<<>>, Prompt} :
            LET said == p \o LineEnd IN
            /\ Len(said) <= i /\ SubSeq(t, i - Len(said) + 1, i) = said
            /\ Len(said) = i \/ t[i - Len(said)] = Newline
        ends == {i \in DOMAIN t : Confirming(i)}
    IN IF answer.verify
       THEN IF ends = {} THEN <<>> ELSE After(t, CHOOSE i \in ends : \A j \in ends : i <= j)
       ELSE IF ~EchoOn THEN t
       ELSE IF IsPrefix(LineEnd, t) THEN After(t, Len(LineEnd))
       ELSE IF IsPrefix(t, Line) THEN <<>> ELSE t

\* The device answers as the profile says: the command comes back before anything else, or
\* behind the prompt if it is verified, and nothing after that is an echo.
Ahead(answer) == IF answer.verify /\ answer.text # <<>> /\ ~answer.text[1].echo THEN Prompt ELSE <<>>
Orderly(answer) ==
    LET said == Ahead(answer) \o LineEnd
    IN \A j \in DOMAIN answer.text :
        /\ answer.text[j].echo <=> j \in (Len(Ahead(answer)) + 1)..Len(said)
        /\ j <= Len(said) => answer.text[j].b = said[j]
\* Or it answers without an echo, and not with the beginning of one.
Silent(answer) ==
    /\ EchoOn => ~answer.verify /\ (answer.text # <<>> => answer.text[1].b # Line[1])
    /\ \A j \in DOMAIN answer.text : ~answer.text[j].echo
Output(answer) ==
    Letters(IF Silent(answer) THEN answer.text
            ELSE After(answer.text, Len(Ahead(answer)) + Len(LineEnd)))

Since(i, Part(_)) == FlattenSeq([k \in 1..(written + 1 - watchers[i].since) |->
                                    Part(answers[watchers[i].since + k - 1])])
Matches(i, said) ==
    /\ watchers[i].matched => Occurs(watchers[i].pattern, said)
    /\ Occurs(watchers[i].pattern, said) => watchers[i].matched \/ watchers[i].prompt

\* Whatever the device sends, with late, torn or missing echoes and commands behind one
\* another, and however it is cut into pieces: a watcher counts as matched if and only if
\* its pattern stands in what counts of the answers since its boundary.  Decoration that
\* began before it does not, and a prompt must besides be the last thing in a piece
\* (Driver::event, EchoFilter::feed and InputCheck::observe).
EvidenceIsExact == \A i \in Bound : Matches(i, Since(i, Counts))

\* When the device answers each command in order, no echo is evidence, and all output is
\* (echo_filter in macro_runtime.rs: `Only the complete, exact command at the fresh TX
\* boundary is an echo').
EchoIsNotEvidence ==
    \A i \in Bound :
        (\A k \in watchers[i].since..written : Orderly(answers[k]) \/ Silent(answers[k]))
            => Matches(i, Since(i, Output))

EvidenceIsOutput == EvidenceIsExact /\ EchoIsNotEvidence
=============================================================================
