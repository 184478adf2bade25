--------------------------- MODULE MacroCompiler ---------------------------
(***************************************************************************)
(* The compiler of Macro Script (serial-macro, compiler.rs): from trees to  *)
(* the code of a stack machine, with the types, scopes and limits that it   *)
(* checks.  The compiler's state c is a record that every operator takes    *)
(* and gives back; the first error stays in it.  A text is a sequence of    *)
(* characters; the character "^" stands for the control characters.         *)
(***************************************************************************)
EXTENDS MacroSyntax

CONSTANTS
    Parameters,     \* the declared parameters with their types
    MaxVariables,   \* Limits::max_variables
    MaxString,      \* Limits::max_string_bytes
    MaxDuration     \* Limits::max_duration_ms

Builtins == {"cmd", "watch", "prompt", "wait", "expect", "delay", "str"}
Prompts == {"shell", "uboot"}

Fresh == [code |-> <<>>, scopes |-> <<[n \in {} |-> None]>>, loops |-> <<>>, variables |-> 0,
          prompts |-> {}, error |-> None, type |-> "Void"]

-----------------------------------------------------------------------------

Err(c, code) == IF c.error = None THEN [c EXCEPT !.error = code] ELSE c
ErrIf(c, bad, code) == IF bad THEN Err(c, code) ELSE c
Typed(c, type) == [c EXCEPT !.type = type]
Here(c) == Len(c.code) + 1
Emit(c, op) == [c EXCEPT !.code = Append(@, op)]
Op(name) == [op |-> name]
OpOf(name, value) == [op |-> name, value |-> value]
Branch(name, target) == [op |-> name, target |-> target]
Patch(c, i, target) == [c EXCEPT !.code[i].target = target]

Require(c, type) == ErrIf(c, c.type # type, "type_error")

Visible(c, name) == {i \in DOMAIN c.scopes : name \in DOMAIN c.scopes[i]}

Lookup(c, name) ==
    IF Visible(c, name) = {} THEN None
    ELSE c.scopes[CHOOSE i \in Visible(c, name) : \A j \in Visible(c, name) : j <= i][name]

PushScope(c) == [c EXCEPT !.scopes = Append(@, [n \in {} |-> None])]
PopScope(c) == [c EXCEPT !.scopes = SubSeq(@, 1, Len(@) - 1)]
PushLoop(c) == [c EXCEPT !.loops = Append(@, [breaks |-> {}, continues |-> {}])]

ControlCharacter(s) == \E i \in DOMAIN s : s[i] = "^"

\* validate_command
BadCommand(s) == Len(s) > MaxString \/ ControlCharacter(s)

\* constant_string: a text that is known without running, or None.
RECURSIVE ConstantString(_)
ConstantString(e) ==
    IF e.kind = "literal" /\ TypeOf(e.value) = "String" THEN e.value.text
    ELSE IF e.kind = "binary" /\ e.op = "+"
    THEN LET l == ConstantString(e.left)
             r == ConstantString(e.right)
         IN IF l = None \/ r = None THEN None ELSE l \o r
    ELSE None

-----------------------------------------------------------------------------
(* Expressions leave their type in c.type *)

\* The builtins that become effects: what they take, and what they leave.
Signature(name) ==
    CASE name = "cmd" -> [takes |-> <<"String">>, gives |-> "Void"]
      [] name = "watch" -> [takes |-> <<"String">>, gives |-> "Watcher"]
      [] name = "wait" -> [takes |-> <<"Watcher", "Integer">>, gives |-> "Boolean"]
      [] name = "expect" -> [takes |-> <<"Watcher", "Integer">>, gives |-> "Void"]
      [] name = "delay" -> [takes |-> <<"Integer">>, gives |-> "Void"]

RECURSIVE Compile(_, _), CompileArgs(_, _, _)

\* What is refused before the program runs, when an argument is a constant.
ConstantArguments(c, name, args) ==
    LET text == ConstantString(args[1])
        last == args[Len(args)]
    IN IF c.error # None THEN c
       ELSE IF name \in {"cmd", "watch"}
       THEN IF text = None THEN c
            ELSE IF Len(text) > MaxString THEN Err(c, "string_limit")
            ELSE IF name = "cmd" THEN ErrIf(c, BadCommand(text), "command")
            ELSE ErrIf(c, text = <<>>, "empty_pattern")
       ELSE ErrIf(c, last.kind = "literal" /\ last.value.int \notin 0..MaxDuration, "duration_limit")

CompileArgs(c, args, types) ==
    IF args = <<>> THEN c
    ELSE CompileArgs(Require(Compile(c, args[1]), types[1]), Tail(args), Tail(types))

SendOnly == Literal(Text(<<"send_only">>))

CompileCall(c, name, args) ==
    IF name = "str"
    THEN IF Len(args) # 1 THEN Err(c, "argument_count")
         ELSE Typed(Emit(Require(Compile(c, args[1]), "Integer"), Op("IntegerToString")), "String")
    ELSE IF name = "cmd" /\ Len(args) = 2
    THEN IF args[2] # SendOnly THEN Err(c, "invalid_command_mode")
         ELSE Typed(Emit(ConstantArguments(Require(Compile(c, args[1]), "String"), "cmd", <<args[1]>>),
                         OpOf("Call", "cmd_send_only")), "Void")
    ELSE IF name = "prompt"
    THEN IF Len(args) # 1 THEN Err(c, "argument_count")
         ELSE IF args[1].kind # "literal" THEN Err(c, "static_prompt_required")
         ELSE IF TypeOf(args[1].value) # "String" THEN Err(c, "static_prompt_required")
         ELSE IF Head(args[1].value.text) \notin Prompts THEN Err(c, "unknown_prompt")
         ELSE Typed(Emit([c EXCEPT !.prompts = @ \cup {Head(args[1].value.text)}],
                         OpOf("Prompt", Head(args[1].value.text))), "String")
    ELSE IF name \notin Builtins THEN Err(c, "unknown_function")
    ELSE IF Len(args) # Len(Signature(name).takes) THEN Err(c, "argument_count")
    ELSE Typed(Emit(ConstantArguments(CompileArgs(c, args, Signature(name).takes), name, args),
                    OpOf("Call", name)), Signature(name).gives)

\* Mutant of ShortCircuit: the right operand is evaluated in any case.
ShortCircuitNot(c, e) ==
    Typed(Emit(Require(Compile(Require(Compile(c, e.left), "Boolean"), e.right), "Boolean"),
               OpOf("Binary", IF e.op = "&&" THEN "==" ELSE "!=")), "Boolean")

\* And and Or keep the left operand when it decides.
JumpOver(r, branch) == Patch(r, branch, Here(r))
ShortCircuitRight(e, l) ==
    JumpOver(Require(Compile(Emit(l, Branch(IF e.op = "&&" THEN "And" ELSE "Or", 0)), e.right), "Boolean"),
             Here(l))
ShortCircuit(c, e) == Typed(ShortCircuitRight(e, Require(Compile(c, e.left), "Boolean")), "Boolean")

\* type is that of the left operand, r has both.
CompileOperator(operator, type, r) ==
    LET code(d) == Emit(d, OpOf("Binary", operator))
        integers == ErrIf(r, type # "Integer", "type_error")
    IN CASE operator = "+" /\ type = "String" -> Typed(code(r), "String")
         [] operator \in {"+", "-", "*", "/", "%"} /\ ~(operator = "+" /\ type = "String") ->
                Typed(code(integers), "Integer")
         [] operator \in {"<", "<=", ">", ">="} -> Typed(code(integers), "Boolean")
         [] operator \in {"==", "!="} ->
                Typed(code(ErrIf(r, type \notin {"String", "Integer", "Boolean"}, "type_error")), "Boolean")
CompileRight(e, l) == CompileOperator(e.op, l.type, Require(Compile(l, e.right), l.type))
CompileBinary(c, e) == CompileRight(e, Compile(c, e.left))

CompileMatched(e, d) ==
    Typed(Emit(ErrIf(d, d.type # "Watcher" \/ e.field # "matched", "unknown_field"), Op("Matched")), "Boolean")

\* Compiler::expression
Compile(c, e) ==
    CASE e.kind = "literal" -> Typed(Emit(c, OpOf("Push", e.value)), TypeOf(e.value))
      [] e.kind = "variable" ->
            IF Lookup(c, e.name) = None THEN Err(c, "unknown_variable")
            ELSE Typed(Emit(c, OpOf("Load", Lookup(c, e.name).index)), Lookup(c, e.name).type)
      [] e.kind = "member" /\ e.base = Variable("args") ->
            IF e.field \notin DOMAIN Parameters THEN Err(c, "unknown_parameter")
            ELSE Typed(Emit(c, OpOf("Arg", e.field)), Parameters[e.field])
      [] e.kind = "member" /\ e.base # Variable("args") ->
            CompileMatched(e, Compile(c, e.base))
      [] e.kind = "unary" ->
            Emit(Require(Compile(c, e.operand), IF e.op = "-" THEN "Integer" ELSE "Boolean"),
                 OpOf("Unary", e.op))
      [] e.kind = "binary" /\ e.op \in {"&&", "||"} -> ShortCircuit(c, e)
      [] e.kind = "binary" /\ e.op \notin {"&&", "||"} -> CompileBinary(c, e)
      [] e.kind = "call" -> CompileCall(c, e.name, e.args)

-----------------------------------------------------------------------------
(* Statements *)

RECURSIVE CompileStatement(_, _), CompileStatements(_, _)

CompileStatements(c, ss) ==
    IF ss = <<>> \/ c.error # None THEN c
    ELSE CompileStatements(CompileStatement(c, Head(ss)), Tail(ss))

Scope(c) == c.scopes[Len(c.scopes)]

Declare(f, name, variable) ==
    LET scope == [n \in DOMAIN Scope(f) \cup {name} |-> IF n = name THEN variable ELSE Scope(f)[n]]
    IN Emit([f EXCEPT !.variables = @ + 1, !.scopes[Len(f.scopes)] = scope], OpOf("Store", variable.index))
DeclareNext(f, name) == Declare(f, name, [index |-> f.variables + 1, type |-> f.type])
DeclareValue(d, name) ==
    DeclareNext(ErrIf(ErrIf(d, d.type = "Void", "type_error"), d.variables >= MaxVariables, "variable_limit"),
                name)
CompileLet(c, s) ==
    DeclareValue(Compile(ErrIf(c, s.name \in DOMAIN Scope(c) \cup Builtins \cup Reserved, "duplicate_variable"),
                         s.value), s.name)

CompileAssign(c, s) ==
    IF Lookup(c, s.name) = None THEN Err(c, "unknown_variable")
    ELSE Emit(Require(Compile(c, s.value), Lookup(c, s.name).type), OpOf("Store", Lookup(c, s.name).index))

PopUnlessVoid(d) == IF d.type # "Void" THEN Emit(d, Op("Pop")) ELSE d
CompileExpr(c, s) == PopUnlessVoid(Compile(c, s.value))

CompileElse(s, jump, branch) ==
    JumpOver(CompileStatement(Patch(jump, branch, Here(jump)), s.other), Here(jump) - 1)
CompileThen(s, body, branch) ==
    IF s.other = None THEN JumpOver(body, branch) ELSE CompileElse(s, Emit(body, Branch("Jump", 0)), branch)
CompileBranches(s, test) ==
    CompileThen(s, CompileStatement(Emit(test, Branch("JumpIfFalse", 0)), s.body), Here(test))
CompileIf(c, s) == CompileBranches(s, Require(Compile(c, s.test), "Boolean"))

FinishLoop(c, continueAt, end) ==
    LET loop == c.loops[Len(c.loops)]
    IN [c EXCEPT !.loops = SubSeq(@, 1, Len(@) - 1),
                 !.code = [i \in DOMAIN @ |->
                    CASE i \in loop.breaks -> [@[i] EXCEPT !.target = end]
                      [] i \in loop.continues -> [@[i] EXCEPT !.target = continueAt]
                      [] OTHER -> @[i]]]

\* A loop's code ends with a jump to its start; branch is that of the test, or None.
CloseLoop(loop, branch, continueAt) ==
    FinishLoop(IF branch = None THEN loop ELSE JumpOver(loop, branch), continueAt, Here(loop))

CompileWhileBody(s, test, start) ==
    CloseLoop(Emit(CompileStatement(PushLoop(Emit(test, Branch("JumpIfFalse", 0))), s.body),
                   Branch("Jump", start)),
              Here(test), start)
CompileWhile(c, s) == CompileWhileBody(s, Require(Compile(c, s.test), "Boolean"), Here(c))

CompileForStep(s, body, branch, start) ==
    CloseLoop(Emit(IF s.step = None THEN body
                   ELSE CompileStatement(ErrIf(body, s.step.kind = "let", "syntax_error"), s.step),
                   Branch("Jump", start)),
              branch, Here(body))
CompileForBody(s, test, start) ==
    CompileForStep(s, CompileStatement(PushLoop(test), s.body),
                   IF s.test = None THEN None ELSE Here(test) - 1, start)
CompileForTest(s, init) ==
    CompileForBody(s, IF s.test = None THEN init
                      ELSE Emit(Require(Compile(init, s.test), "Boolean"), Branch("JumpIfFalse", 0)),
                   Here(init))
CompileFor(c, s) ==
    PopScope(CompileForTest(s, IF s.init = None THEN PushScope(c) ELSE CompileStatement(PushScope(c), s.init)))

CompileJump(c, s) ==
    IF c.loops = <<>> THEN Err(c, "invalid_loop_control")
    ELSE LET d == Emit(c, Branch("Jump", 0))
         IN IF s.kind = "break" THEN [d EXCEPT !.loops[Len(c.loops)].breaks = @ \cup {Here(c)}]
            ELSE [d EXCEPT !.loops[Len(c.loops)].continues = @ \cup {Here(c)}]

\* Compiler::statement
CompileStatement(c, s) ==
    CASE s.kind = "let" -> CompileLet(c, s)
      [] s.kind = "assign" -> CompileAssign(c, s)
      [] s.kind = "expr" -> CompileExpr(c, s)
      [] s.kind = "block" -> PopScope(CompileStatements(PushScope(c), s.body))
      [] s.kind = "if" -> CompileIf(c, s)
      [] s.kind = "while" -> CompileWhile(c, s)
      [] s.kind = "for" -> CompileFor(c, s)
      [] s.kind \in {"break", "continue"} -> CompileJump(c, s)
      [] s.kind = "empty" -> Emit(c, Branch("Jump", Here(c) + 1))

\* compile
Finished(c) == [code |-> c.code, prompts |-> c.prompts, variables |-> c.variables, error |-> c.error]
Program(ss) == Finished(CompileStatements(Fresh, ss))
=============================================================================
