---------------------------- MODULE MacroSyntax ----------------------------
(***************************************************************************)
(* The parser of Macro Script (serial-macro, syntax.rs) as operators from   *)
(* token sequences to syntax trees, and the way back: a printer that uses   *)
(* no more parentheses than the grammar needs and every short form of an    *)
(* assignment.  Characters are left out: a token is what the lexer makes of *)
(* them.                                                                   *)
(***************************************************************************)
EXTENDS Integers, Sequences

CONSTANTS
    None,
    MaxNesting      \* Limits::max_nesting

-----------------------------------------------------------------------------
(* Tokens and trees *)

Symbol(text) == [kind |-> "symbol", text |-> text]
Ident(text) == [kind |-> "ident", text |-> text]
Constant(value) == [kind |-> "constant", value |-> value]
Eof == [kind |-> "eof"]

Integer(n) == [int |-> n]
Boolean(b) == [bool |-> b]
Text(s) == [text |-> s]
TypeOf(value) ==
    CASE "int" \in DOMAIN value -> "Integer"
      [] "bool" \in DOMAIN value -> "Boolean"
      [] "text" \in DOMAIN value -> "String"

Literal(value) == [kind |-> "literal", value |-> value]
Variable(name) == [kind |-> "variable", name |-> name]
Member(base, field) == [kind |-> "member", base |-> base, field |-> field]
Unary(operator, operand) == [kind |-> "unary", op |-> operator, operand |-> operand]
Binary(operator, left, right) == [kind |-> "binary", op |-> operator, left |-> left, right |-> right]
CallOf(name, args) == [kind |-> "call", name |-> name, args |-> args]

Let(name, value) == [kind |-> "let", name |-> name, value |-> value]
Assign(name, value) == [kind |-> "assign", name |-> name, value |-> value]
Expr(value) == [kind |-> "expr", value |-> value]
Block(body) == [kind |-> "block", body |-> body]
If(test, body, other) == [kind |-> "if", test |-> test, body |-> body, other |-> other]
While(test, body) == [kind |-> "while", test |-> test, body |-> body]
For(init, test, step, body) ==
    [kind |-> "for", init |-> init, test |-> test, step |-> step, body |-> body]
Break == [kind |-> "break"]
Continue == [kind |-> "continue"]
Empty == [kind |-> "empty"]

Reserved == {"let", "if", "else", "for", "while", "break", "continue", "true", "false", "args",
             "return", "fn", "function", "import", "eval"}

\* binary
Precedence(operator) ==
    CASE operator = "||" -> 1
      [] operator = "&&" -> 2
      [] operator \in {"==", "!="} -> 3
      [] operator \in {"<", "<=", ">", ">="} -> 4
      [] operator \in {"+", "-"} -> 5
      [] operator \in {"*", "/", "%"} -> 6
      [] OTHER -> None

\* The operators that an assignment may be shortened with.
Compound(text) ==
    CASE text \in {"+=", "++"} -> "+"
      [] text \in {"-=", "--"} -> "-"
      [] text = "*=" -> "*"
      [] text = "/=" -> "/"
      [] text = "%=" -> "%"
      [] OTHER -> None

-----------------------------------------------------------------------------
(* The parser: each operator reads from a place of the tokens and gives the    *)
(* tree with the place after it, or no tree.                                   *)

Parsed(tree, at) == [ok |-> TRUE, tree |-> tree, at |-> at]
Fail == [ok |-> FALSE, tree |-> None, at |-> 0]

At(ts, i, text) == ts[i].kind = "symbol" /\ ts[i].text = text
Keyword(ts, i, text) == ts[i].kind = "ident" /\ ts[i].text = text
Operator(ts, i) == IF ts[i].kind = "symbol" THEN Precedence(ts[i].text) ELSE None

\* check_expression_depth
RECURSIVE Depth(_)
Depth(e) ==
    LET deepest(S) == IF S = {} THEN 0 ELSE CHOOSE d \in S : \A x \in S : x <= d
    IN 1 + CASE e.kind = "member" -> Depth(e.base)
             [] e.kind = "unary" -> Depth(e.operand)
             [] e.kind = "binary" -> deepest({Depth(e.left), Depth(e.right)})
             [] e.kind = "call" -> deepest({Depth(e.args[i]) : i \in DOMAIN e.args})
             [] OTHER -> 0

Bounded(p) == IF p.ok /\ Depth(p.tree) > MaxNesting THEN Fail ELSE p

RECURSIVE Expression(_, _, _, _), Operators(_, _, _, _), Primary(_, _, _), Members(_, _), Arguments(_, _, _, _)

Expression(ts, i, minimum, depth) ==
    IF depth >= MaxNesting THEN Fail
    ELSE Operators(ts, Primary(ts, i, depth + 1), minimum, depth + 1)

\* The loop of Parser::expression over operators that bind tightly enough.
Operators(ts, left, minimum, depth) ==
    IF ~left.ok \/ Operator(ts, left.at) = None THEN left
    ELSE IF Operator(ts, left.at) < minimum THEN left
    ELSE LET right == Expression(ts, left.at + 1, Operator(ts, left.at) + 1, depth)
         IN IF ~right.ok THEN Fail
            ELSE Operators(ts, Bounded(Parsed(Binary(ts[left.at].text, left.tree, right.tree), right.at)),
                           minimum, depth)

Closed(ts, p, text) == IF p.ok /\ At(ts, p.at, text) THEN Parsed(p.tree, p.at + 1) ELSE Fail

Primary(ts, i, depth) ==
    LET t == ts[i]
        first ==
            CASE t.kind = "constant" -> Parsed(Literal(t.value), i + 1)
              [] Keyword(ts, i, "true") \/ Keyword(ts, i, "false") ->
                    Parsed(Literal(Boolean(t.text = "true")), i + 1)
              [] t.kind = "ident" /\ t.text \notin Reserved \ {"args"} ->
                    IF ~At(ts, i + 1, "(") THEN Parsed(Variable(t.text), i + 1)
                    ELSE LET args == IF At(ts, i + 2, ")") THEN Parsed(<<>>, i + 2)
                                     ELSE Arguments(ts, i + 2, <<>>, depth)
                             p == Closed(ts, args, ")")
                         IN IF p.ok THEN Parsed(CallOf(t.text, p.tree), p.at) ELSE Fail
              [] At(ts, i, "!") \/ At(ts, i, "-") ->
                    LET p == Expression(ts, i + 1, 7, depth)
                    IN IF p.ok THEN Parsed(Unary(t.text, p.tree), p.at) ELSE Fail
              [] At(ts, i, "(") -> Closed(ts, Expression(ts, i + 1, 0, depth), ")")
              [] OTHER -> Fail
    IN Bounded(Members(ts, first))

Members(ts, p) ==
    IF ~p.ok \/ ~At(ts, p.at, ".") THEN p
    ELSE IF ts[p.at + 1].kind = "ident" /\ ts[p.at + 1].text \notin Reserved
    THEN Members(ts, Bounded(Parsed(Member(p.tree, ts[p.at + 1].text), p.at + 2)))
    ELSE Fail

Arguments(ts, i, before, depth) ==
    LET p == Expression(ts, i, 0, depth)
    IN IF ~p.ok THEN Fail
       ELSE IF At(ts, p.at, ",") THEN Arguments(ts, p.at + 1, Append(before, p.tree), depth)
       ELSE Parsed(Append(before, p.tree), p.at)

\* A declaration, an assignment in any of its forms, or an expression.
Simple(ts, i, depth) ==
    LET assigns == ts[i].kind = "ident" /\ ts[i + 1].kind = "symbol"
                   /\ (ts[i + 1].text = "=" \/ Compound(ts[i + 1].text) # None)
        wrap(p, Make(_)) == IF p.ok THEN Parsed(Make(p.tree), p.at) ELSE Fail
    IN IF Keyword(ts, i, "let")
       THEN IF ts[i + 1].kind = "ident" /\ ts[i + 1].text \notin Reserved /\ At(ts, i + 2, "=")
            THEN wrap(Expression(ts, i + 3, 0, depth), LAMBDA e : Let(ts[i + 1].text, e))
            ELSE Fail
       ELSE IF assigns
       THEN LET name == ts[i].text
                operator == Compound(ts[i + 1].text)
                right == IF ts[i + 1].text \in {"++", "--"} THEN Parsed(Literal(Integer(1)), i + 2)
                         ELSE Expression(ts, i + 2, 0, depth)
            IN wrap(right, LAMBDA e : Assign(name, IF operator = None THEN e
                                                   ELSE Binary(operator, Variable(name), e)))
       ELSE wrap(Expression(ts, i, 0, depth), LAMBDA e : Expr(e))

RECURSIVE Statement(_, _, _), Statements(_, _, _, _, _), BlockAt(_, _, _)

Statements(ts, i, block, before, depth) ==
    IF ts[i].kind = "eof" \/ (block /\ At(ts, i, "}"))
    THEN IF block THEN Closed(ts, Parsed(before, i), "}") ELSE Parsed(before, i)
    ELSE LET p == Statement(ts, i, depth)
         IN IF p.ok THEN Statements(ts, p.at, block, Append(before, p.tree), depth) ELSE Fail

\* The body of control flow must be in braces.
BlockAt(ts, i, depth) == IF At(ts, i, "{") THEN Statement(ts, i, depth) ELSE Fail

\* "(", an expression and ")" after a keyword.
Condition(ts, i, depth) ==
    IF At(ts, i, "(") THEN Closed(ts, Expression(ts, i + 1, 0, depth), ")") ELSE Fail

\* A part of a for statement that may be left out, up to the symbol that ends it:
\* p has the parts before it, q is the part.
WithPart(p, q) == IF p.ok /\ q.ok THEN Parsed(Append(p.tree, q.tree), q.at) ELSE Fail
Omitted(p) == Parsed(None, p.at + 1)
PartSimple(ts, p, text, depth) ==
    IF ~p.ok THEN Fail
    ELSE WithPart(p, IF At(ts, p.at, text) THEN Omitted(p) ELSE Closed(ts, Simple(ts, p.at, depth), text))
PartTest(ts, p, text, depth) ==
    IF ~p.ok THEN Fail
    ELSE WithPart(p, IF At(ts, p.at, text) THEN Omitted(p) ELSE Closed(ts, Expression(ts, p.at, 0, depth), text))

ForOf(parts, body) ==
    IF body.ok THEN Parsed(For(parts.tree[1], parts.tree[2], parts.tree[3], body.tree), body.at) ELSE Fail
ForBody(ts, parts, depth) == IF parts.ok THEN ForOf(parts, BlockAt(ts, parts.at, depth)) ELSE Fail
ForAt(ts, i, depth) ==
    LET begin == IF At(ts, i, "(") THEN Parsed(<<>>, i + 1) ELSE Fail
    IN ForBody(ts, PartSimple(ts, PartTest(ts, PartSimple(ts, begin, ";", depth), ";", depth), ")", depth),
               depth)

\* An else belongs to the nearest if, and only a block or another if may follow it.
IfOf(test, body, other) == IF other.ok THEN Parsed(If(test.tree, body.tree, other.tree), other.at) ELSE Fail
IfElse(ts, test, body, depth) ==
    IF ~body.ok THEN Fail
    ELSE IF ~Keyword(ts, body.at, "else") THEN Parsed(If(test.tree, body.tree, None), body.at)
    ELSE IfOf(test, body, IF Keyword(ts, body.at + 1, "if") THEN Statement(ts, body.at + 1, depth)
                          ELSE BlockAt(ts, body.at + 1, depth))
IfBody(ts, test, depth) == IF test.ok THEN IfElse(ts, test, BlockAt(ts, test.at, depth), depth) ELSE Fail
IfAt(ts, i, depth) == IfBody(ts, Condition(ts, i, depth), depth)

WhileOf(test, body) == IF body.ok THEN Parsed(While(test.tree, body.tree), body.at) ELSE Fail
WhileBody(ts, test, depth) == IF test.ok THEN WhileOf(test, BlockAt(ts, test.at, depth)) ELSE Fail
WhileAt(ts, i, depth) == WhileBody(ts, Condition(ts, i, depth), depth)

Statement(ts, i, depth) ==
    LET d == depth + 1
    IN CASE depth >= MaxNesting -> Fail
         [] depth < MaxNesting /\ At(ts, i, "{") ->
                LET p == Statements(ts, i + 1, TRUE, <<>>, d)
                IN IF p.ok THEN Parsed(Block(p.tree), p.at) ELSE Fail
         [] depth < MaxNesting /\ Keyword(ts, i, "if") -> IfAt(ts, i + 1, d)
         [] depth < MaxNesting /\ Keyword(ts, i, "while") -> WhileAt(ts, i + 1, d)
         [] depth < MaxNesting /\ Keyword(ts, i, "for") -> ForAt(ts, i + 1, d)
         [] depth < MaxNesting /\ Keyword(ts, i, "break") -> Closed(ts, Parsed(Break, i + 1), ";")
         [] depth < MaxNesting /\ Keyword(ts, i, "continue") -> Closed(ts, Parsed(Continue, i + 1), ";")
         [] depth < MaxNesting /\ At(ts, i, ";") -> Parsed(Empty, i + 1)
         [] OTHER -> Closed(ts, Simple(ts, i, d), ";")

\* parse
Parse(tokens) == Statements(Append(tokens, Eof), 1, FALSE, <<>>, 0).tree

-----------------------------------------------------------------------------
(* The printer *)

RECURSIVE Show(_, _), ShowAll(_)

In(open, tokens, close) == <<Symbol(open)>> \o tokens \o <<Symbol(close)>>

\* How tightly operators bind, as docs/macro-script and C have it: from || to the
\* arithmetic of products.
Tightness(operator) ==
    LET levels == <<{"||"}, {"&&"}, {"==", "!="}, {"<", "<=", ">", ">="}, {"+", "-"}, {"*", "/", "%"}>>
    IN CHOOSE n \in DOMAIN levels : operator \in levels[n]

\* An expression where only operators of at least this level may stand bare.
Show(e, level) ==
    CASE e.kind = "literal" ->
            IF TypeOf(e.value) = "Boolean" THEN <<Ident(IF e.value.bool THEN "true" ELSE "false")>>
            ELSE <<Constant(e.value)>>
      [] e.kind = "variable" -> <<Ident(e.name)>>
      [] e.kind = "call" -> <<Ident(e.name)>> \o In("(", ShowAll(e.args), ")")
      [] e.kind = "member" -> Show(e.base, 8) \o <<Symbol("."), Ident(e.field)>>
      [] e.kind = "unary" ->
            LET bare == <<Symbol(e.op)>> \o Show(e.operand, 7)
            IN IF level > 7 THEN In("(", bare, ")") ELSE bare
      [] e.kind = "binary" ->
            LET n == Tightness(e.op)
                bare == Show(e.left, n) \o <<Symbol(e.op)>> \o Show(e.right, n + 1)
            IN IF level > n THEN In("(", bare, ")") ELSE bare

ShowAll(args) ==
    IF args = <<>> THEN <<>>
    ELSE IF Len(args) = 1 THEN Show(args[1], 0)
    ELSE Show(args[1], 0) \o <<Symbol(",")>> \o ShowAll(Tail(args))

ShowSimple(s) ==
    CASE s.kind = "let" -> <<Ident("let"), Ident(s.name), Symbol("=")>> \o Show(s.value, 0)
      [] s.kind = "expr" -> Show(s.value, 0)
      [] s.kind = "assign" ->
            IF s.value.kind = "binary" /\ s.value.left = Variable(s.name) /\ s.value.op \in {"+", "-", "*", "/", "%"}
            THEN IF s.value.op \in {"+", "-"} /\ s.value.right = Literal(Integer(1))
                 THEN <<Ident(s.name), Symbol(IF s.value.op = "+" THEN "++" ELSE "--")>>
                 ELSE <<Ident(s.name), Symbol(CASE s.value.op = "+" -> "+=" [] s.value.op = "-" -> "-="
                            [] s.value.op = "*" -> "*=" [] s.value.op = "/" -> "/=" [] OTHER -> "%=")>>
                      \o Show(s.value.right, 0)
            ELSE <<Ident(s.name), Symbol("=")>> \o Show(s.value, 0)

RECURSIVE ShowStatement(_), ShowProgram(_)

ShowStatement(s) ==
    LET test(e) == In("(", Show(e, 0), ")")
        part(p) == IF p = None THEN <<>> ELSE ShowSimple(p)
    IN CASE s.kind = "block" -> In("{", ShowProgram(s.body), "}")
         [] s.kind = "if" -> <<Ident("if")>> \o test(s.test) \o ShowStatement(s.body)
                             \o (IF s.other = None THEN <<>> ELSE <<Ident("else")>> \o ShowStatement(s.other))
         [] s.kind = "while" -> <<Ident("while")>> \o test(s.test) \o ShowStatement(s.body)
         [] s.kind = "for" -> <<Ident("for")>> \o In("(", part(s.init) \o <<Symbol(";")>>
                                \o (IF s.test = None THEN <<>> ELSE Show(s.test, 0)) \o <<Symbol(";")>>
                                \o part(s.step), ")") \o ShowStatement(s.body)
         [] s.kind \in {"break", "continue"} -> <<Ident(s.kind), Symbol(";")>>
         [] s.kind = "empty" -> <<Symbol(";")>>
         [] OTHER -> ShowSimple(s) \o <<Symbol(";")>>

ShowProgram(ss) == IF ss = <<>> THEN <<>> ELSE ShowStatement(Head(ss)) \o ShowProgram(Tail(ss))
=============================================================================
