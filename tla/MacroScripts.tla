---------------------------- MODULE MacroScripts ----------------------------
(***************************************************************************)
(* The scripts that TLC runs MacroVm on.   Each declares an integer and a    *)
(* watcher, does something with control flow in it and reports what became  *)
(* of the integer.                                                         *)
(***************************************************************************)
EXTENDS MacroSyntax

N(n) == Literal(Integer(n))
S(text) == Literal(Text(text))
x == Variable("x")
w == Variable("w")
Plus(a, b) == Binary("+", a, b)
Do1(name, args) == Expr(CallOf(name, args))
Cmd(e) == Do1("cmd", <<e>>)
WaitFor == CallOf("wait", <<w, N(1)>>)

Tests == {
    Binary("<", x, N(2)),
    Binary("||", Member(w, "matched"), Binary("&&", Binary("==", x, N(0)), WaitFor)),
    Binary("&&", Unary("!", WaitFor), Binary("||", Binary(">", x, N(0)), Literal(Boolean(TRUE)))),
    Binary("!=", Binary("-", Binary("-", N(1), x), Binary("-", x, N(1))), Binary("*", Plus(x, N(1)), Binary("%", x, N(2)))) }

Steps == {
    Cmd(CallOf("str", <<x>>)),
    Assign("x", Plus(x, N(1))),
    Let("x", Plus(x, N(2))),
    If(Member(w, "matched"), Block(<<Break>>), Block(<<Continue>>)),
    Continue }

Extras == {
    Break,
    Empty,
    Expr(x),
    Cmd(x),
    Cmd(Variable("y")),
    Cmd(Member(Variable("args"), "p")),
    Do1("cmd", <<Plus(S(<<"a">>), S(<<"b">>)), S(<<"send_only">>)>>),
    Cmd(Plus(CallOf("str", <<Unary("-", x)>>), Plus(S(<<"a">>), S(<<"b">>)))),
    Assign("x", Literal(Boolean(TRUE))),
    Assign("x", Binary("/", N(2), x)),
    Assign("x", Binary("*", x, Unary("-", N(2)))),
    Assign("w", CallOf("watch", <<CallOf("prompt", <<S(<<"shell">>)>>)>>)),
    Do1("watch", <<S(<<"p">>)>>),
    Do1("expect", <<w, N(1)>>),
    Expr(WaitFor),
    Do1("delay", <<x>>),
    Do1("delay", <<N(9)>>),
    Do1("str", <<x, x>>),
    Let("w", x) }

Bodies == {Block(<<a, b>>) : a \in Steps, b \in Steps}
Inits == {None, Let("x", Unary("-", N(1)))}
Forwards == {None, Assign("x", Binary("-", x, Unary("-", N(1)))), Cmd(S(<<>>))}

Loops ==
    {While(t, b) : t \in Tests, b \in Bodies}
    \cup {For(i, t, s, b) : i \in Inits, t \in {None, Binary("<", x, N(1))}, s \in Forwards, b \in Bodies}
Choices ==
    {If(t, Block(<<a>>), o) : t \in Tests, a \in Steps \cup Extras,
        o \in {None, Block(<<Let("w", x), Cmd(CallOf("str", <<w>>))>>),
               If(Binary("==", x, N(1)), Block(<<>>), Block(<<Assign("x", N(2))>>))}}

Around(s) == <<Let("x", N(0)), Let("w", CallOf("watch", <<S(<<"p">>)>>)), s, Cmd(CallOf("str", <<x>>))>>
Pairs == {Block(<<a, b>>) : a \in Extras, b \in Extras}

MCScripts == {Around(s) : s \in Loops \cup Choices \cup Pairs}
MCParameters == [p |-> "String"]
MCArguments == [p |-> Text(<<"q">>)]
=============================================================================
