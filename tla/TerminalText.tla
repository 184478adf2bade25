---------------------------- MODULE TerminalText ----------------------------
(***************************************************************************)
(* How a client turns the bytes of a port into rows of text (display.rs).   *)
(* RX and TX events of one port go through one parser in the order of the   *)
(* timeline.  It strips escape sequences, keeps one row with a cursor, and,  *)
(* where TX is shown at once, takes the device's echo of it away again: RX   *)
(* bytes that may be the echo are held back and are either dropped, once     *)
(* the whole of what was sent has come back, or replayed.  Bytes are tokens, *)
(* one for each class that the parser tells apart.                          *)
(***************************************************************************)
EXTENDS Naturals, Sequences, SequencesExt

CONSTANTS
    None,
    Typed,          \* what is sent in one TX event
    Output,         \* what the device sends in one RX event of its own, in each mode
    RowLen,         \* MAX_STREAM_LINE_CHARS
    TabStop,        \* 8
    MaxParameters,  \* MAX_CSI_PARAMETER_BYTES
    MaxString,      \* MAX_CONTROL_STRING_BYTES
    MaxIntermediate,\* MAX_ESCAPE_INTERMEDIATE_BYTES
    MaxEcho,        \* MAX_EXPECTED_ECHO_BYTES
    MaxSegments,    \* MAX_EXPECTED_ECHO_SEGMENTS
    MaxRx, MaxTx,   \* bounds: bytes received, in each mode, and sent
    MaxGeneration   \* bound: sessions of the port

VARIABLES
    mode,           \* echo_reconciliation: "echo" if TX is shown and its echo taken away, or "text"
    parser,         \* TerminalStreamParser, with the rows that it has completed
    plain,          \* the same, had the device never echoed
    device,         \* what the device has still to echo, and whether it is orderly
    count           \* the bytes sent and received, the session

vars == <<mode, parser, plain, device, count>>

-----------------------------------------------------------------------------
(* TerminalTextState: one row with a cursor *)

Ground == [line |-> <<>>, cur |-> 0, cont |-> FALSE, touched |-> FALSE, utf8 |-> <<>>,
           esc |-> "ground", par |-> <<None>>, n |-> 0, rows |-> <<>>, hung |-> FALSE]

Commit0(t) ==
    [t EXCEPT !.rows = Append(@, [text |-> t.line, cont |-> t.cont]),
              !.line = <<>>, !.cur = 0, !.touched = FALSE, !.cont = FALSE]

Padded(line, n) == IF Len(line) >= n THEN line ELSE line \o [i \in 1..(n - Len(line)) |-> "SP"]

Put(t, line, c) ==
    [t EXCEPT !.line = IF t.cur < Len(line) THEN [line EXCEPT ![t.cur + 1] = c] ELSE Append(line, c),
              !.cur = @ + 1, !.touched = TRUE]

Write0(t, c) ==
    IF t.cur >= RowLen THEN Put([Commit0(t) EXCEPT !.cont = TRUE], <<>>, c)
    ELSE Put(t, Padded(t.line, t.cur), c)

\* commit_row, write_char: an incomplete character is ended first.
CommitRow(t) == Commit0(IF t.utf8 = <<>> THEN t ELSE Write0([t EXCEPT !.utf8 = <<>>], "bad"))

WriteChar(t, c) ==
    IF t.cur >= RowLen THEN Put([CommitRow(t) EXCEPT !.cont = TRUE], <<>>, c)
    ELSE Put(t, Padded(t.line, t.cur), c)

\* drain_utf8: "u1" begins a character of two bytes, "ST" is the other one.
FinishUtf8(t) == IF t.utf8 = <<>> THEN t ELSE WriteChar([t EXCEPT !.utf8 = <<>>], "bad")

DrainUtf8(t, c) ==
    CASE t.utf8 = <<>> /\ c = "u1" -> [t EXCEPT !.utf8 = <<c>>]
      [] t.utf8 = <<>> /\ c = "ST" -> WriteChar(t, "bad")
      [] t.utf8 # <<>> /\ c = "u1" -> WriteChar([t EXCEPT !.utf8 = <<c>>], "bad")
      [] OTHER -> WriteChar([t EXCEPT !.utf8 = <<>>], "u")

\* From the end of a full row the next tab stop is never reached: each row that is
\* filled begins another one.
Tab(t) ==
    LET stop == (t.cur \div TabStop + 1) * TabStop
        f[n \in 0..TabStop] == IF n = 0 THEN t ELSE Write0(f[n - 1], "SP")
    IN  IF stop > RowLen THEN [t EXCEPT !.hung = TRUE] ELSE f[stop - t.cur]

High(c) == c \in {"u1", "ST"}
Controls == {"CAN", "BEL", "NUL"}

OnGround(t, c) ==
    CASE High(c) -> DrainUtf8(t, c)
      [] c = "ESC" -> [t EXCEPT !.esc = "escape"]
      [] c = "LF" -> CommitRow(t)
      [] c = "CR" -> [t EXCEPT !.cur = 0, !.touched = @ \/ t.line # <<>>]
      [] c \in {"BS", "DEL"} -> [t EXCEPT !.cur = IF @ = 0 THEN 0 ELSE @ - 1,
                                          !.touched = @ \/ t.line # <<>>]
      [] c = "TAB" -> Tab(t)
      [] c \in Controls -> t
      [] OTHER -> WriteChar(t, c)

ConsumeGround(t, c) == OnGround(IF High(c) THEN t ELSE FinishUtf8(t), c)

-----------------------------------------------------------------------------
(* Escape sequences *)

ResetEscape(t) == [t EXCEPT !.esc = "ground", !.par = <<None>>, !.n = 0]

Larger(a, b) == IF a > b THEN a ELSE b
Smaller(a, b) == IF a < b THEN a ELSE b

\* csi_parameter
Parameter(par, i, default) ==
    IF i > Len(par) THEN default ELSE IF par[i] = None THEN default ELSE par[i]

Column(n) == Smaller(Larger(n, 1) - 1, RowLen - 1)
Cut(line, from, n) == SubSeq(line, 1, from) \o SubSeq(line, from + n + 1, Len(line))
Blank(line, from, to) == [i \in DOMAIN line |-> IF i > from /\ i <= to THEN "SP" ELSE line[i]]
Spaced(line, from, n) ==
    SubSeq(line, 1, from) \o [i \in 1..n |-> "SP"] \o SubSeq(line, from + 1, Len(line))

\* apply_csi
ApplyCsi(t, final, par, first) ==
    LET n == Larger(first, 1)
        from == Smaller(t.cur, Len(t.line))
    IN  CASE final = "K" /\ first = 0 -> [t EXCEPT !.line = SubSeq(@, 1, from)]
          [] final = "K" /\ first = 1 -> [t EXCEPT !.line = Blank(@, 0, t.cur + 1)]
          [] final = "K" /\ first = 2 -> [t EXCEPT !.line = <<>>]
          [] final = "G" -> [t EXCEPT !.cur = Column(first)]
          [] final = "H" -> [t EXCEPT !.cur = Column(Parameter(par, 2, 1))]
          [] final = "C" -> [t EXCEPT !.cur = Smaller(@ + n, RowLen - 1)]
          [] final = "D" -> [t EXCEPT !.cur = IF @ > n THEN @ - n ELSE 0]
          [] final = "P" -> [t EXCEPT !.line = Cut(@, from, n)]
          [] final = "@" -> LET k == IF RowLen > t.cur THEN Smaller(n, RowLen - t.cur) ELSE 0
                                spaced == Spaced(Padded(t.line, t.cur), t.cur, k)
                            IN  [t EXCEPT !.line = SubSeq(spaced, 1, Smaller(Len(spaced), RowLen))]
          [] final = "X" -> [t EXCEPT !.line = Blank(@, from, from + n)]
          [] OTHER -> t

Intermediates == {"SP"}
Digits == {"1", "2"}
Finals == {"x", "y", "[", "]", "\\", "K", "C", "D", "P", "@", "X", "G", "H"}

Number(par, c) ==
    LET i == Len(par)
        old == IF par[i] = None THEN 0 ELSE par[i]
    IN  CASE c = ";" -> Append(par, None)
          [] c = "SP" -> [par EXCEPT ![i] = old]
          [] OTHER -> [par EXCEPT ![i] = old * 10 + (IF c = "1" THEN 1 ELSE 2)]

\* bump_control_string
Bump(t, esc) == IF t.n + 1 > MaxString THEN ResetEscape(t) ELSE [t EXCEPT !.n = @ + 1, !.esc = esc]

Recover(t, c) == ConsumeGround(ResetEscape(t), c)

ConsumeEscape(t, c) ==
    CASE t.esc = "escape" /\ c = "[" -> [t EXCEPT !.par = <<None>>, !.n = 0, !.esc = "csi"]
      [] t.esc = "escape" /\ c \in {"]", "P", "X"} -> [t EXCEPT !.n = 0, !.esc = "string"]
      [] t.esc = "escape" /\ c \in Intermediates -> [t EXCEPT !.n = 1, !.esc = "intermediate"]
      [] t.esc = "escape" /\ c = "ESC" -> [t EXCEPT !.n = 0]
      [] t.esc = "escape" -> ResetEscape(t)
      [] t.esc \in {"intermediate", "csi"} /\ c = "ESC" -> [ResetEscape(t) EXCEPT !.esc = "escape"]
      [] t.esc = "intermediate" /\ c \in Intermediates ->
            IF t.n + 1 > MaxIntermediate THEN ResetEscape(t) ELSE [t EXCEPT !.n = @ + 1]
      [] t.esc = "intermediate" /\ c \in Finals \cup Digits \cup {";"} -> ResetEscape(t)
      [] t.esc = "csi" /\ c \in Finals ->
            ApplyCsi(ResetEscape(t), c, t.par, Parameter(t.par, 1, 0))
      [] t.esc = "csi" /\ c \in Intermediates \cup Digits \cup {";"} ->
            IF t.n < MaxParameters THEN [t EXCEPT !.par = Number(@, c), !.n = @ + 1]
            ELSE ResetEscape(t)
      [] t.esc \in {"intermediate", "csi"} -> Recover(t, c)
      [] c \in {"CR", "LF"} -> Recover(t, c)
      [] t.esc = "string" /\ c \in {"BEL", "ST"} -> ResetEscape(t)
      [] t.esc = "string" /\ c = "ESC" -> Bump(t, "stringEscape")
      [] t.esc = "stringEscape" /\ c \in {"\\", "ST"} -> ResetEscape(t)
      [] t.esc = "stringEscape" /\ c = "ESC" -> Bump(t, "stringEscape")
      [] OTHER -> Bump(t, "string")

\* TerminalTextState::consume
Consume(t, c) ==
    IF t.esc = "ground" THEN ConsumeGround(t, c)
    ELSE IF c = "CAN" THEN ResetEscape(t)
    ELSE ConsumeEscape(t, c)

HasText(t) == t.touched \/ t.line # <<>>
PendingRows(t) == IF HasText(t) THEN <<[text |-> t.line, cont |-> t.cont]>> ELSE <<>>

-----------------------------------------------------------------------------
(* TerminalStreamParser.  A byte is a token with its place in RX, 0 in TX. *)

NewParser ==
    [t |-> Ground, ctx |-> None, exp |-> <<>>, cand |-> <<>>, aban |-> <<>>, candRx |-> FALSE,
     swallow |-> FALSE, ends |-> FALSE, done |-> <<>>, shown |-> <<>>, eaten |-> <<>>]

Context(gen, dir) == [gen |-> gen, dir |-> dir, echoed |-> FALSE]

\* The rows that came are attributed to the context they were begun in.
Attributed(p, rows) ==
    [i \in DOMAIN rows |-> [text |-> rows[i].text, dir |-> p.ctx.dir, echoed |-> p.ctx.echoed]]

Collect(p, incoming) ==
    IF p.t.rows = <<>> THEN p
    ELSE [p EXCEPT !.done = @ \o Attributed(p, p.t.rows), !.t.rows = <<>>, !.ctx = incoming]

\* commit_pending_row: what it does to the row is what an LF does.
CommitPendingRow == [c |-> "LF", n |-> 0]

FeedByte(p, b, incoming) ==
    Collect([p EXCEPT !.t = Consume(@, b.c),
                      !.shown = IF b.n = 0 THEN @ ELSE Append(@, b.n),
                      !.ends = IF b.c = "LF" THEN FALSE ELSE @ \/ (incoming.dir = "tx" /\ b.c = "CR")],
            incoming)

\* feed_visible_byte: a line whose end is not yet there is ended first.
Fed(p, b) == IF p.ends /\ b.c \notin {"CR", "LF"} THEN <<CommitPendingRow, b>> ELSE <<b>>

FeedVisible(p, bytes, incoming) ==
    LET f[n \in 0..Len(bytes)] == IF n = 0 THEN p ELSE FeedByte(f[n - 1], bytes[n], incoming)
    IN  f[Len(bytes)]

FeedAll(p, bytes, incoming) ==
    LET f[n \in 0..Len(bytes)] ==
            IF n = 0 THEN p ELSE FeedVisible(f[n - 1], Fed(f[n - 1], bytes[n]), incoming)
    IN  f[Len(bytes)]

\* replay_buffered_rx: held bytes are the device's, whoever the row belongs to.
Replay(p, bytes, incoming) ==
    LET as == IF p.candRx THEN [incoming EXCEPT !.dir = "rx"] ELSE incoming
        q == [p EXCEPT !.candRx = FALSE]
    IN  FeedAll(q, IF q.ctx # None /\ q.ctx.dir = "tx" /\ as.dir = "rx" /\ HasText(q.t)
                   THEN <<CommitPendingRow>> \o bytes ELSE bytes, as)

\* flush
FlushHeld(p) == IF p.aban \o p.cand = <<>> THEN p ELSE Replay(p, p.aban \o p.cand, p.ctx)
Flushed(q) ==
    [NewParser EXCEPT !.done = q.done \o (IF q.ctx = None THEN <<>>
                                          ELSE Attributed(q, q.t.rows \o PendingRows(q.t))),
                      !.shown = q.shown, !.eaten = q.eaten]
Finished(q) == [q EXCEPT !.t = ResetEscape(FinishUtf8(@))]
Flush(p) == Flushed(Finished(FlushHeld(p)))

-----------------------------------------------------------------------------
(* Echoes *)

Expectation(data) == [bytes |-> data, erase |-> data = <<"DEL">>, started |-> FALSE]

CanAppend(e, data) ==
    /\ ~e.started /\ ~e.erase /\ e.bytes[Len(e.bytes)] \notin {"CR", "LF"}
    /\ \A i \in DOMAIN data : data[i] \notin {"BS", "DEL"}

Expected(exp) == LET f[n \in 0..Len(exp)] == IF n = 0 THEN 0 ELSE f[n - 1] + Len(exp[n].bytes)
                 IN  f[Len(exp)]

Expect(p, data) ==
    LET n == Len(p.exp)
        extend == n > 0 /\ CanAppend(p.exp[n], data)
    IN  IF Expected(p.exp) + Len(data) <= MaxEcho /\ (extend \/ n < MaxSegments)
        THEN [p EXCEPT !.exp = IF extend THEN [@ EXCEPT ![n].bytes = @ \o data]
                               ELSE Append(@, Expectation(data))]
        ELSE [p EXCEPT !.aban = @ \o p.cand, !.cand = <<>>, !.exp = <<>>, !.swallow = FALSE]

HardWrap == <<"CR", "CR", "LF">>
EraseEcho == <<"BS", "SP", "BS">>
Tokens(bytes) == [i \in DOMAIN bytes |-> bytes[i].c]

\* EchoExpectation::match_candidate
MatchExact(want, got) ==
    LET f[x \in (1..(Len(want) + 1)) \X (1..(Len(got) + 1))] ==
            LET e == x[1]
                a == x[2]
                rest == SubSeq(got, a, Len(got))
            IN  IF a > Len(got) THEN IF e > Len(want) THEN "full" ELSE "prefix"
                ELSE IF e <= Len(want) /\ got[a] = want[e] THEN f[<<e + 1, a + 1>>]
                ELSE IF e = 1 \/ e > Len(want) THEN "mismatch"
                ELSE IF IsPrefix(rest, HardWrap) THEN "prefix"
                ELSE IF IsPrefix(HardWrap, rest) THEN f[<<e, a + 3>>]
                ELSE "mismatch"
    IN  f[<<1, 1>>]

MatchCandidate(e, got) ==
    IF ~e.erase THEN MatchExact(e.bytes, got)
    ELSE IF got \in {e.bytes, <<"BS">>, EraseEcho} THEN "full"
    ELSE IF IsPrefix(got, e.bytes) \/ IsPrefix(got, EraseEcho) THEN "prefix"
    ELSE "mismatch"

\* reconcile_rx_byte, and what push_event does with its answer
Full(p, e) ==
    LET rest == Tail(p.exp)
        q == [p EXCEPT !.exp = rest, !.eaten = @ \o p.cand, !.cand = <<>>, !.candRx = FALSE,
                       !.swallow = /\ e.bytes[Len(e.bytes)] = "CR"
                                   /\ rest # <<>> => rest[1].bytes[1] # "LF"
                                   /\ rest # <<>> \/ ~p.ends]
    IN  IF rest = <<>> /\ q.ctx # None THEN [q EXCEPT !.ctx.echoed = TRUE] ELSE q

Mismatch(p, incoming) ==
    FeedAll([p EXCEPT !.cand = <<>>, !.candRx = FALSE, !.exp = <<>>, !.swallow = FALSE],
            p.cand, incoming)

Compared(p, e, incoming) ==
    LET m == MatchCandidate(e, Tokens(p.cand)) IN
    IF m = "full" THEN Full(p, e) ELSE IF m = "prefix" THEN p ELSE Mismatch(p, incoming)

ReconcileRxByte(p, b, incoming) ==
    IF p.swallow /\ b.c = "LF" THEN [p EXCEPT !.swallow = FALSE, !.eaten = Append(@, b)]
    ELSE IF p.exp = <<>> THEN Mismatch([p EXCEPT !.cand = <<b>>], incoming)
    ELSE Compared([p EXCEPT !.swallow = FALSE, !.cand = Append(@, b), !.candRx = TRUE,
                            !.exp[1].started = TRUE], p.exp[1], incoming)

\* TX as it is shown at once: an erasing key erases.
Projected(data) ==
    FlattenSeq([i \in DOMAIN data |-> IF data[i] \in {"BS", "DEL"} THEN EraseEcho ELSE <<data[i]>>])
TxBytes(data) == [i \in DOMAIN Projected(data) |-> [c |-> Projected(data)[i], n |-> 0]]

Adopted(p, incoming) ==
    IF p.ctx = None \/ ~HasText(p.t) THEN [p EXCEPT !.ctx = incoming]
    ELSE IF incoming.dir = "tx" THEN [p EXCEPT !.ctx = incoming] ELSE p

\* push_event of a byte-bearing event: a new session is another stream, and what was
\* abandoned is shown first.
Shown(q, incoming) ==
    Adopted(IF q.aban = <<>> THEN q ELSE Replay([q EXCEPT !.aban = <<>>], q.aban, incoming), incoming)
Prepared(p, incoming) ==
    Shown(IF p.ctx # None /\ p.ctx.gen # incoming.gen THEN Flush(p) ELSE p, incoming)

ReconcileAll(p, bytes, incoming) ==
    LET f[n \in 0..Len(bytes)] == IF n = 0 THEN p ELSE ReconcileRxByte(f[n - 1], bytes[n], incoming)
    IN  f[Len(bytes)]

PushRx(p, bytes, gen) == ReconcileAll(Prepared(p, Context(gen, "rx")), bytes, Context(gen, "rx"))
PushTx(p, data, gen) ==
    FeedAll(Expect(Prepared(p, Context(gen, "tx")), data), TxBytes(data), Context(gen, "tx"))

-----------------------------------------------------------------------------
(* The port *)

Init ==
    /\ mode \in {"echo", "text"}
    /\ parser = NewParser /\ plain = NewParser
    /\ \E newline \in {FALSE, mode = "echo"} :
          device = [echo |-> <<>>, newline |-> newline, orderly |-> TRUE]
    /\ count = [rx |-> 0, tx |-> <<>>, gen |-> 1, last |-> None]

Goes == ~parser.t.hung

\* An "x" behind something else in one event meets the end of the device's row.
EchoOf(data) ==
    FlattenSeq([i \in DOMAIN data |->
                   CASE data[i] = "CR" /\ device.newline -> <<"CR", "LF">>
                     [] data[i] = "x" /\ i > 1 -> HardWrap \o <<"x">>
                     [] data[i] = "DEL" -> EraseEcho
                     [] OTHER -> <<data[i]>>])

\* The lines that are sent, had the device only ended them.
Ended(data) ==
    FlattenSeq([i \in DOMAIN data |-> IF data[i] = "CR" /\ device.newline THEN <<"CR", "LF">> ELSE <<data[i]>>])

\* The parser takes the CR of an echoed CR LF, and the first BS of an erasing echo of BS,
\* space, BS, for all of it and shows the rest, which is harmless if nothing else was
\* sent.  If something was, or if more was sent than it remembers, nothing is claimed.
Foreseen ==
    /\ device.echo # <<>> => parser.exp # <<>>
    /\ \A i \in DOMAIN device.echo : device.echo[i] # "BS"

\* What each of the two parsers becomes.
Become(P(_, _)) ==
    \E after \in {[who \in {"parser", "plain"} |-> P(IF who = "parser" THEN parser ELSE plain, who)]} :
        parser' = after["parser"] /\ plain' = after["plain"]

\* A client sends.
Type ==
    /\ Goes /\ mode = "echo"
    /\ \E data \in Typed :
          /\ Len(count.tx) + Len(data) <= MaxTx
          /\ Become(LAMBDA p, who : PushTx(p, IF who = "parser" THEN data ELSE Ended(data), count.gen))
          /\ device' = [device EXCEPT !.echo = @ \o EchoOf(data),
                                     !.orderly = @ /\ Foreseen /\ parser'.exp # <<>>]
          /\ count' = [count EXCEPT !.tx = @ \o data]
    /\ UNCHANGED mode

Received(data) == [i \in DOMAIN data |-> [c |-> data[i], n |-> count.rx + i]]

\* Some of the echo comes.
Echo ==
    /\ Goes
    /\ \E n \in 1..Len(device.echo) :
          /\ count.rx + n <= MaxRx[mode]
          /\ parser' = PushRx(parser, Received(SubSeq(device.echo, 1, n)), count.gen)
          /\ device' = [device EXCEPT !.echo = SubSeq(@, n + 1, Len(@))]
          /\ count' = [count EXCEPT !.rx = @ + n]
    /\ UNCHANGED <<mode, plain>>

\* The device sends something else, perhaps before it has echoed.
Send ==
    /\ Goes
    /\ \E data \in Output[mode] :
          /\ count.rx + Len(data) <= MaxRx[mode]
          /\ Become(LAMBDA p, who : PushRx(IF who = "parser" THEN p ELSE [p EXCEPT !.exp = <<>>],
                                          Received(data), count.gen))
          /\ count' = [count EXCEPT !.rx = @ + Len(data), !.last = data[Len(data)]]
    /\ device' = [device EXCEPT !.orderly = @ /\ device.echo = <<>>]
    /\ UNCHANGED mode

\* The port is opened anew: perhaps told by an event of its own, perhaps only by the next
\* bytes.
Reopen ==
    /\ Goes /\ count.gen < MaxGeneration /\ mode = "echo"
    /\ count' = [count EXCEPT !.gen = @ + 1]
    /\ \E told \in BOOLEAN :
          Become(LAMBDA p, who : IF who = "plain" \/ told THEN Flush(p) ELSE p)
    /\ device' = [device EXCEPT !.echo = <<>>, !.orderly = FALSE]
    /\ UNCHANGED mode

Next == Type \/ Echo \/ Send \/ Reopen

Spec == Init /\ [][Next]_vars

-----------------------------------------------------------------------------
(* The properties *)

TypeOK ==
    /\ Len(parser.t.line) <= RowLen /\ parser.t.cur <= RowLen
    /\ \A i \in DOMAIN parser.done : Len(parser.done[i].text) <= RowLen
    /\ Expected(parser.exp) <= MaxEcho /\ Len(parser.exp) <= MaxSegments

Places(bytes) == [i \in DOMAIN bytes |-> bytes[i].n]
Letters(s) == SelectSeq(s, LAMBDA c : c \notin {"CR", "LF", "BS", "SP", "DEL"})

\* s can be had from w by leaving some out
Within(s, w) ==
    LET f[x \in (0..Len(s)) \X (0..Len(w))] ==
            IF x[1] = 0 THEN TRUE ELSE IF x[2] = 0 THEN FALSE
            ELSE \/ s[x[1]] = w[x[2]] /\ f[<<x[1] - 1, x[2] - 1>>]
                 \/ f[<<x[1], x[2] - 1>>]
    IN  f[<<Len(s), Len(w)>>]

\* Every byte of the device is shown in its order, or held back behind the shown ones, or
\* was taken for an echo; and what was taken are the bytes that were sent, in their order
\* (reconcile_rx_byte, flush).
NothingHidden ==
    LET held == Places(parser.aban) \o Places(parser.cand)
        taken == Places(parser.eaten)
        order == parser.shown \o held
    IN  /\ Range(order) \cup Range(taken) = 1..count.rx
        /\ Len(order) + Len(taken) = count.rx
        /\ \A i, j \in DOMAIN order : i < j => order[i] < order[j]
        /\ Within(Letters(Tokens(parser.eaten)), Letters(count.tx))

Texts(p) ==
    SelectSeq(Append([i \in DOMAIN p.done |-> p.done[i].text], p.t.line),
              LAMBDA line : Letters(line) # <<>>)

\* From a device that echoes before it says anything else the rows with text are those that
\* would be there had it not echoed, however its echo is cut and whatever is typed ahead
\* (match_candidate, swallow_optional_echo_lf, tx_line_end_pending).
EchoOnce ==
    device.orderly /\ device.echo = <<>> /\ parser.exp = <<>> /\ parser.aban = <<>>
        => Texts(parser) = Texts(plain)

\* The rows hold text only; and whatever came before, the end of a line and CAN bring the
\* parser back to text (consume_escape).
TextResumes ==
    /\ \A i \in DOMAIN parser.done : \A j \in DOMAIN parser.done[i].text :
          parser.done[i].text[j] \notin {"ESC", "CR", "LF", "BS", "DEL", "TAB", "u1"} \cup Controls
    /\ mode = "text" /\ count.last \in {"CR", "LF", "CAN"} => parser.t.esc = "ground"

=============================================================================
