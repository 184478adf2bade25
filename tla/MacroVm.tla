------------------------------ MODULE MacroVm ------------------------------
(***************************************************************************)
(* The virtual machine of Macro Script (serial-macro, vm.rs) running what   *)
(* the parser and the compiler make of a script, in slices of instructions, *)
(* under a driver that answers its effects, marks watchers as matched in    *)
(* between, and may interrupt it or fail an effect.                         *)
(*                                                                         *)
(* The reference is an interpreter of the tree, without code, jumps, stack  *)
(* or variable slots; it is given the answers that the machine got and must *)
(* arrive at the same effects and the same end.                             *)
(***************************************************************************)
EXTENDS MacroCompiler

CONSTANTS
    Scripts,            \* the scripts, as trees
    Arguments1,         \* the values of the parameters
    MaxInt,             \* i64::MAX; i64::MIN is one further down
    MaxWatchers,        \* Limits::max_watchers
    MaxBytes,           \* Limits::max_total_command_bytes
    MaxInstructions,    \* Limits::max_instructions
    PerYield            \* Limits::instructions_per_yield

Ints == (-MaxInt - 1)..MaxInt
PromptText == <<"$">>

VARIABLES
    script,     \* what was written
    tree,       \* what the parser made of it, None before
    program,    \* what the compiler made of it, None before
    vm,         \* the machine, None before it is started
    slice,      \* instructions left in this call of advance, 0 between calls
    issued,     \* the effects given to the driver
    answers,    \* what the driver answered, and what reads of a watcher found
    stage       \* "source", "refused", "running" or "complete"

vars == <<script, tree, program, vm, slice, issued, answers, stage>>

-----------------------------------------------------------------------------
(* Values *)

Watcher(id) == [watcher |-> id]
Fits(value, type) ==
    CASE type = "Any" -> TRUE
      [] type = "Watcher" -> "watcher" \in DOMAIN value
      [] type = "Scalar" -> "watcher" \notin DOMAIN value
      [] OTHER -> "watcher" \notin DOMAIN value /\ TypeOf(value) = type

Digits == <<"0", "1", "2", "3", "4", "5", "6", "7", "8", "9">>
Abs(n) == IF n < 0 THEN -n ELSE n

\* i64::to_string, for the one-digit integers of the model.
ToText(n) == (IF n < 0 THEN <<"-">> ELSE <<>>) \o <<Digits[Abs(n) + 1]>>

\* Division rounds towards zero.
Quotient(a, b) == IF (a < 0) = (b < 0) THEN Abs(a) \div Abs(b) ELSE -(Abs(a) \div Abs(b))

\* A value, or the error that computing it ends in.
Error(code) == [error |-> code]
IsError(result) == "error" \in DOMAIN result
Checked(n) == IF n \in Ints THEN Integer(n) ELSE Error("integer_overflow")

Arithmetic(operator, a, b) ==
    CASE operator = "+" -> Checked(a + b)
      [] operator = "-" -> Checked(a - b)
      [] operator = "*" -> Checked(a * b)
      [] operator \in {"/", "%"} /\ b = 0 -> Error("division_by_zero")
      [] operator = "/" /\ b # 0 -> Checked(Quotient(a, b))
      [] operator = "%" /\ b # 0 ->
            IF a = -MaxInt - 1 /\ b = -1 THEN Error("integer_overflow") ELSE Integer(a - b * Quotient(a, b))
      [] operator = "<" -> Boolean(a < b)
      [] operator = "<=" -> Boolean(a <= b)
      [] operator = ">" -> Boolean(a > b)
      [] operator = ">=" -> Boolean(a >= b)

-----------------------------------------------------------------------------
(* The machine *)

Booted(p) ==
    [pc |-> 1, stack |-> <<>>, variables |-> [i \in 1..p.variables |-> None], watchers |-> <<>>,
     instructions |-> 0, bytes |-> 0, next |-> 1, pending |-> None, failure |-> None]

Failed(m, code) == [m EXCEPT !.failure = code]
Push(m, value) == [m EXCEPT !.stack = Append(@, value)]
Drop(m, n) == [m EXCEPT !.stack = SubSeq(@, 1, Len(@) - n)]
Top(m, n) == m.stack[Len(m.stack) - n]

\* pop_scalar, pop_integer and so on: the operands on top, the last one first.
Holds(m, types) ==
    /\ Len(m.stack) >= Len(types)
    /\ \A i \in DOMAIN types : Fits(m.stack[Len(m.stack) - Len(types) + i], types[i])

Instruction == program.code[vm.pc]

\* A result on the stack, or the end of the machine.
Give(m, result) == IF IsError(result) THEN Failed(m, result.error) ELSE Push(m, result)

BinaryOn(m, operator) ==
    LET left == Top(m, 1)
        right == Top(m, 0)
        rest == Drop(m, 2)
    IN CASE operator = "==" -> Push(rest, Boolean(left = right))
         [] operator = "!=" -> Push(rest, Boolean(left # right))
         [] operator = "+" /\ Fits(left, "String") /\ Fits(right, "String") ->
                IF Len(left.text) + Len(right.text) > MaxString THEN Failed(rest, "string_limit")
                ELSE Push(rest, Text(left.text \o right.text))
         [] operator \notin {"==", "!="} /\ Fits(left, "Integer") /\ Fits(right, "Integer") ->
                Give(rest, Arithmetic(operator, left.int, right.int))
         [] OTHER -> Failed(rest, "vm_invariant")

\* Vm::call: the effect, with its budgets, or the end of the machine.
Effect(m, kind) == [m EXCEPT !.pending = [id |-> m.next, kind |-> kind], !.next = @ + 1]

Command(m, echo) ==
    LET text == Top(m, 0).text
        rest == Drop(m, 1)
    IN IF BadCommand(text) THEN Failed(rest, "command")
       ELSE IF m.bytes + Len(text) > MaxBytes THEN Failed(rest, "tx_budget")
       ELSE Effect([rest EXCEPT !.bytes = @ + Len(text)], [name |-> "command", text |-> text, echo |-> echo])

Watch(m) ==
    LET rest == Drop(m, 1)
    IN IF Top(m, 0).text = <<>> THEN Failed(rest, "empty_pattern")
       ELSE IF Len(m.watchers) >= MaxWatchers THEN Failed(rest, "watcher_budget")
       ELSE Effect([rest EXCEPT !.watchers = Append(@, FALSE)],
                   [name |-> "watch", watcher |-> Len(m.watchers) + 1, pattern |-> Top(m, 0).text])

Wait(m, strict) ==
    LET rest == Drop(m, 2)
    IN IF Top(m, 0).int \notin 0..MaxDuration THEN Failed(rest, "duration_limit")
       ELSE Effect(rest, [name |-> "wait", watcher |-> Top(m, 1).watcher, timeout |-> Top(m, 0).int,
                          strict |-> strict])

Delay(m) ==
    IF Top(m, 0).int \notin 0..MaxDuration THEN Failed(Drop(m, 1), "duration_limit")
    ELSE Effect(Drop(m, 1), [name |-> "delay", duration |-> Top(m, 0).int])

Call(m, builtin) ==
    CASE builtin = "cmd" -> Command(m, TRUE)
      [] builtin = "cmd_send_only" -> Command(m, FALSE)
      [] builtin = "watch" -> Watch(m)
      [] builtin = "wait" -> Wait(m, FALSE)
      [] builtin = "expect" -> Wait(m, TRUE)
      [] builtin = "delay" -> Delay(m)

Takes(i) ==
    CASE i.op \in {"Push", "Arg", "Prompt", "Load", "Jump"} -> <<>>
      [] i.op \in {"Store", "Pop"} -> <<"Any">>
      [] i.op = "Matched" -> <<"Watcher">>
      [] i.op = "IntegerToString" -> <<"Integer">>
      [] i.op = "Unary" -> <<IF i.value = "!" THEN "Boolean" ELSE "Integer">>
      [] i.op = "Binary" -> <<"Scalar", "Scalar">>
      [] i.op \in {"JumpIfFalse", "And", "Or"} -> <<"Boolean">>
      [] i.op = "Call" ->
            CASE i.value \in {"cmd", "cmd_send_only", "watch"} -> <<"String">>
              [] i.value \in {"wait", "expect"} -> <<"Watcher", "Integer">>
              [] i.value = "delay" -> <<"Integer">>

\* One instruction on the machine m, whose counters have already moved.
Perform(m, i) ==
    CASE i.op = "Push" -> Push(m, i.value)
      [] i.op = "Arg" -> Push(m, Arguments1[i.value])
      [] i.op = "Prompt" -> Push(m, Text(PromptText))
      [] i.op = "Load" -> IF m.variables[i.value] = None THEN Failed(m, "vm_invariant")
                          ELSE Push(m, m.variables[i.value])
      [] i.op = "Store" -> Drop([m EXCEPT !.variables[i.value] = Top(m, 0)], 1)
      [] i.op = "Pop" -> Drop(m, 1)
      [] i.op = "Matched" -> Push(Drop(m, 1), Boolean(m.watchers[Top(m, 0).watcher]))
      [] i.op = "IntegerToString" ->
            LET text == ToText(Top(m, 0).int)
            IN IF Len(text) > MaxString THEN Failed(Drop(m, 1), "string_limit")
               ELSE Push(Drop(m, 1), Text(text))
      [] i.op = "Unary" /\ i.value = "!" -> Push(Drop(m, 1), Boolean(~Top(m, 0).bool))
      [] i.op = "Unary" /\ i.value = "-" ->
            Give(Drop(m, 1), Checked(-Top(m, 0).int))
      [] i.op = "Binary" -> BinaryOn(m, i.value)
      [] i.op = "Jump" -> [m EXCEPT !.pc = i.target]
      [] i.op = "JumpIfFalse" -> IF Top(m, 0).bool THEN Drop(m, 1) ELSE [Drop(m, 1) EXCEPT !.pc = i.target]
      [] i.op = "And" -> IF Top(m, 0).bool THEN Drop(m, 1) ELSE [m EXCEPT !.pc = i.target]
      [] i.op = "Or" -> IF Top(m, 0).bool THEN [m EXCEPT !.pc = i.target] ELSE Drop(m, 1)
      [] i.op = "Call" -> Call(m, i.value)

Stepped(m, i) == [m EXCEPT !.instructions = @ + 1, !.pc = @ + 1]
StackLimited(m) ==
    IF m.failure = None /\ m.pending = None /\ Len(m.stack) > 4 * MaxNesting + 16
    THEN Failed(m, "stack_limit") ELSE m

-----------------------------------------------------------------------------
(* A script is parsed, compiled and started *)

ParseScript ==
    /\ stage = "source" /\ tree = None
    /\ tree' = Parse(ShowProgram(script))
    /\ UNCHANGED <<script, program, vm, slice, issued, answers, stage>>

\* Program::start refuses a script whose prompts the Slot's profile lacks before any
\* effect; what the compiler refuses never gets so far.
StartScript(profile) ==
    /\ stage = "source" /\ tree # None
    /\ program' = Program(tree)
    /\ IF program'.error # None \/ ~(program'.prompts \subseteq profile)
       THEN stage' = "refused" /\ UNCHANGED vm
       ELSE stage' = "running" /\ vm' = Booted(program')
    /\ UNCHANGED <<script, tree, slice, issued, answers>>

Running == stage = "running" /\ vm.failure = None

\* advance: a new slice, unless an effect is still unanswered.
Advance ==
    /\ Running /\ slice = 0 /\ vm.pending = None
    /\ slice' = PerYield
    /\ UNCHANGED <<script, tree, program, vm, issued, answers, stage>>

\* The code is at its end.
Complete ==
    /\ Running /\ slice > 0 /\ vm.pc > Len(program.code)
    /\ slice' = 0
    /\ IF vm.stack # <<>>
       THEN vm' = Failed(vm, "vm_invariant") /\ UNCHANGED stage
       ELSE stage' = "complete" /\ UNCHANGED vm
    /\ UNCHANGED <<script, tree, program, issued, answers>>

\* One instruction of advance_inner.
Execute ==
    /\ Running /\ slice > 0 /\ vm.pc <= Len(program.code)
    /\ LET i == Instruction
           m == IF vm.instructions >= MaxInstructions THEN Failed(vm, "instruction_budget")
                ELSE IF ~Holds(vm, Takes(i)) THEN Failed(Stepped(vm, i), "vm_invariant")
                ELSE StackLimited(Perform(Stepped(vm, i), i))
       IN /\ vm' = m
          /\ slice' = IF m.failure # None \/ m.pending # None THEN 0 ELSE slice - 1
          /\ issued' = IF m.pending # None THEN Append(issued, m.pending.kind) ELSE issued
          /\ answers' = IF i.op = "Matched" /\ m.failure = None
                        THEN Append(answers, IF Top(m, 0).bool THEN "yes" ELSE "no") ELSE answers
    /\ UNCHANGED <<script, tree, program, stage>>

\* resume_inner: the driver's word decides, whatever has been marked since.
Resumed(m, effect, matched) ==
    LET marked == IF matched THEN [m EXCEPT !.watchers[effect.watcher] = TRUE] ELSE m
    IN CASE effect.name \in {"command", "delay"} -> m
         [] effect.name = "watch" -> Push(m, Watcher(effect.watcher))
         [] effect.name = "wait" /\ effect.strict ->
                IF matched THEN marked ELSE Failed(m, "expect_timeout")
         [] effect.name = "wait" /\ ~effect.strict -> Push(marked, Boolean(matched))

Resume(matched) ==
    /\ Running /\ vm.pending # None
    /\ matched => vm.pending.kind.name = "wait"
    /\ LET effect == vm.pending.kind
           m == Resumed(vm, effect, matched)
       IN /\ vm' = IF m.failure = None THEN [m EXCEPT !.pending = None] ELSE m
          /\ answers' = Append(answers, IF effect.name # "wait" THEN "done"
                                        ELSE IF matched THEN "yes" ELSE "no")
    /\ UNCHANGED <<script, tree, program, slice, issued, stage>>

\* fail_effect and interrupt end the script between slices.
Abort(code) ==
    /\ Running /\ slice = 0
    /\ code = "effect_failed" => vm.pending # None
    /\ vm' = Failed(vm, code)
    /\ UNCHANGED <<script, tree, program, slice, issued, answers, stage>>

MarkMatched(w) ==
    /\ Running /\ slice = 0 /\ w \in DOMAIN vm.watchers /\ ~vm.watchers[w]
    /\ vm' = [vm EXCEPT !.watchers[w] = TRUE]
    /\ UNCHANGED <<script, tree, program, slice, issued, answers, stage>>

Init ==
    /\ script \in Scripts
    /\ tree = None /\ program = None /\ vm = None /\ slice = 0
    /\ issued = <<>> /\ answers = <<>> /\ stage = "source"

Next ==
    \/ ParseScript \/ Advance \/ Complete \/ Execute
    \/ \E profile \in {Prompts, {}} : StartScript(profile)
    \/ \E matched \in BOOLEAN : Resume(matched)
    \/ \E code \in {"effect_failed", "interrupted"} : Abort(code)
    \/ \E w \in 1..MaxWatchers : MarkMatched(w)

Spec == Init /\ [][Next]_vars

-----------------------------------------------------------------------------
(* The reference: a script runs as it is written *)

\* r.env is the stack of scopes, r.state "run", "break", "continue", "waiting" for
\* an answer, "endless" or an error; r.value that of the last expression.
Begin(all) == [env |-> <<[n \in {} |-> None]>>, answers |-> all, effects |-> <<>>, state |-> "run",
               value |-> None, watchers |-> 0, bytes |-> 0, fuel |-> MaxInstructions]

Ended(r, state) == IF r.state = "run" THEN [r EXCEPT !.state = state] ELSE r
Is(r, value) == IF r.state = "run" THEN [r EXCEPT !.value = value] ELSE r

Answered(r) ==
    IF r.answers = <<>> THEN [r EXCEPT !.state = "waiting"]
    ELSE [r EXCEPT !.answers = Tail(@), !.value = Boolean(Head(r.answers) = "yes")]

Does(r, effect) ==
    IF r.state # "run" THEN r ELSE Answered([r EXCEPT !.effects = Append(@, effect)])

Inner(r, name) == CHOOSE i \in DOMAIN r.env : /\ name \in DOMAIN r.env[i]
                                              /\ \A j \in DOMAIN r.env : name \in DOMAIN r.env[j] => j <= i
Bind(r, i, name) == [r EXCEPT !.env[i] = [n \in DOMAIN @ \cup {name} |-> IF n = name THEN r.value ELSE @[n]]]
Outcome(r, result) == IF IsError(result) THEN Ended(r, result.error) ELSE Is(r, result)

RECURSIVE Value(_, _), Do(_, _), DoAll(_, _), Repeat(_, _, _, _)

\* Left to right; the right side of && and || only when the left does not decide.
Combined(e, l, right) ==
    IF e.op \in {"&&", "||"} \/ right.state # "run" THEN right
    ELSE IF e.op = "==" THEN Is(right, Boolean(l.value = right.value))
    ELSE IF e.op = "!=" THEN Is(right, Boolean(l.value # right.value))
    ELSE IF "text" \in DOMAIN l.value
    THEN IF Len(l.value.text \o right.value.text) > MaxString THEN Ended(right, "string_limit")
         ELSE Is(right, Text(l.value.text \o right.value.text))
    ELSE Outcome(right, Arithmetic(e.op, l.value.int, right.value.int))

ValueFromLeft(e, l) ==
    LET decided == e.op \in {"&&", "||"} /\ l.state = "run" /\ l.value = Boolean(e.op = "||")
    IN IF l.state # "run" \/ decided THEN l ELSE Combined(e, l, Value(l, e.right))

ValueOfBinary(r, e) == ValueFromLeft(e, Value(r, e.left))

ValueOfWait(e, waited) ==
    IF e.name = "expect" /\ waited.state = "run" /\ ~waited.value.bool
    THEN Ended(waited, "expect_timeout") ELSE waited

\* a has the value of the first argument, b of the last.
ValueFromArguments(e, a, b) ==
    IF b.state # "run" THEN b
    ELSE IF e.name \in {"delay", "wait", "expect"} /\ b.value.int \notin 0..MaxDuration
    THEN Ended(b, "duration_limit")
    ELSE CASE e.name = "prompt" -> Is(a, Text(PromptText))
           [] e.name = "str" -> IF Len(ToText(a.value.int)) > MaxString THEN Ended(a, "string_limit")
                                ELSE Is(a, Text(ToText(a.value.int)))
           [] e.name = "cmd" ->
                IF BadCommand(a.value.text) THEN Ended(a, "command")
                ELSE IF a.bytes + Len(a.value.text) > MaxBytes THEN Ended(a, "tx_budget")
                ELSE Does([a EXCEPT !.bytes = @ + Len(a.value.text)],
                          [name |-> "command", text |-> a.value.text, echo |-> Len(e.args) = 1])
           [] e.name = "watch" ->
                IF a.value.text = <<>> THEN Ended(a, "empty_pattern")
                ELSE IF a.watchers >= MaxWatchers THEN Ended(a, "watcher_budget")
                ELSE Is(Does([a EXCEPT !.watchers = @ + 1],
                             [name |-> "watch", watcher |-> a.watchers + 1, pattern |-> a.value.text]),
                        Watcher(a.watchers + 1))
           [] e.name = "delay" -> Does(b, [name |-> "delay", duration |-> b.value.int])
           [] e.name \in {"wait", "expect"} ->
                ValueOfWait(e, Does(b, [name |-> "wait", watcher |-> a.value.watcher,
                                        timeout |-> b.value.int, strict |-> e.name = "expect"]))

ValueFromFirst(e, a) ==
    ValueFromArguments(e, a, IF e.name \in {"wait", "expect"} THEN Value(a, e.args[2]) ELSE a)
ValueOfCall(r, e) == ValueFromFirst(e, IF e.name = "prompt" THEN r ELSE Value(r, e.args[1]))

ValueOfUnary(e, v) ==
    IF v.state # "run" THEN v
    ELSE IF e.op = "!" THEN Is(v, Boolean(~v.value.bool)) ELSE Outcome(v, Checked(-v.value.int))
ValueOfMatched(w) == IF w.state = "run" THEN Answered(w) ELSE w

Value(r, e) ==
    CASE r.state # "run" -> r
      [] r.state = "run" /\ e.kind = "literal" -> Is(r, e.value)
      [] r.state = "run" /\ e.kind = "variable" -> Is(r, r.env[Inner(r, e.name)][e.name])
      [] r.state = "run" /\ e.kind = "member" ->
            IF e.base = Variable("args") THEN Is(r, Arguments1[e.field]) 
            ELSE ValueOfMatched(Value(r, e.base))
      [] r.state = "run" /\ e.kind = "unary" -> ValueOfUnary(e, Value(r, e.operand))
      [] r.state = "run" /\ e.kind = "binary" -> ValueOfBinary(r, e)
      [] r.state = "run" /\ e.kind = "call" -> ValueOfCall(r, e)

Enter(r) == [r EXCEPT !.env = Append(@, [n \in {} |-> None])]
Leave(r, to) == [r EXCEPT !.env = SubSeq(@, 1, Len(to.env))]

DoAll(r, ss) == IF ss = <<>> \/ r.state # "run" THEN r ELSE DoAll(Do(r, Head(ss)), Tail(ss))

\* while and for: the step also follows a continue.
Again(b) == IF b.state = "continue" THEN [b EXCEPT !.state = "run"] ELSE b
RepeatStep(s, test, step, body) ==
    IF s.state # "run" THEN s ELSE Repeat([s EXCEPT !.fuel = @ - 1], test, step, body)
RepeatBody(b, test, step, body) ==
    IF b.state = "break" THEN [b EXCEPT !.state = "run"]
    ELSE RepeatStep(IF step = None THEN Again(b) ELSE Do(Again(b), step), test, step, body)
RepeatTest(t, test, step, body) ==
    IF t.state # "run" THEN t
    ELSE IF ~t.value.bool THEN t
    ELSE IF t.fuel = 0 THEN [t EXCEPT !.state = "endless"]
    ELSE RepeatBody(Do(t, body), test, step, body)
Repeat(r, test, step, body) ==
    RepeatTest(IF test = None THEN Is(r, Boolean(TRUE)) ELSE Value(r, test), test, step, body)

DoBind(v, i, name) == IF v.state = "run" THEN Bind(v, i, name) ELSE v
DoAssign(v, name) == IF v.state = "run" THEN Bind(v, Inner(v, name), name) ELSE v
DoIf(t, s) ==
    IF t.state # "run" THEN t
    ELSE IF t.value.bool THEN Do(t, s.body)
    ELSE IF s.other = None THEN t ELSE Do(t, s.other)
DoFor(i, s) == IF i.state # "run" THEN i ELSE Repeat(i, s.test, s.step, s.body)

Do(r, s) ==
    IF r.state # "run" THEN r
    ELSE CASE s.kind = "let" -> DoBind(Value(r, s.value), Len(r.env), s.name)
           [] s.kind = "assign" -> DoAssign(Value(r, s.value), s.name)
           [] s.kind = "expr" -> Value(r, s.value)
           [] s.kind = "block" -> Leave(DoAll(Enter(r), s.body), r)
           [] s.kind = "if" -> DoIf(Value(r, s.test), s)
           [] s.kind = "while" -> Repeat(r, s.test, None, s.body)
           [] s.kind = "for" -> Leave(DoFor(IF s.init = None THEN Enter(r) ELSE Do(Enter(r), s.init), s), r)
           [] s.kind \in {"break", "continue"} -> [r EXCEPT !.state = s.kind]
           [] s.kind = "empty" -> r

Reference == DoAll(Begin(answers), script)

-----------------------------------------------------------------------------
(* Properties *)

TypeOK ==
    /\ slice \in 0..PerYield /\ stage \in {"source", "refused", "running", "complete"}
    /\ vm # None =>
        /\ vm.pc \in 1..(Len(program.code) + 1) /\ vm.instructions \in 0..MaxInstructions
        /\ Len(vm.watchers) <= MaxWatchers /\ vm.bytes <= MaxBytes
        /\ \A i \in DOMAIN vm.stack : \E type \in {"Watcher", "Scalar"} : Fits(vm.stack[i], type)

\* The parser gives back the tree of every script, however few parentheses it was
\* written with and whichever short forms it uses.
ParsedAsWritten == tree # None => tree = script

\* The machine has done what the reference has, so far or to the end.
RunsAs(r) ==
    /\ Len(issued) <= Len(r.effects) /\ SubSeq(r.effects, 1, Len(issued)) = issued
    /\ stage = "complete" => r.state = "run" /\ r.effects = issued
    /\ vm.failure = None /\ vm.pending # None => r.state = "waiting" /\ r.effects = issued
    /\ vm.failure \notin {None, "effect_failed", "interrupted", "instruction_budget", "stack_limit"} =>
         r.state = vm.failure /\ r.effects = issued

\* The machine issues the effects that the script as written asks for, in that
\* order and with those values, stops at the same one, completes when the script
\* does, and ends in the error that the script makes; only the driver or a budget
\* may end it earlier.  In particular no accepted script trips over the machine's
\* own invariants, and no match after a deadline turns a timeout into success.
RunsAsWritten == stage \in {"running", "complete"} => RunsAs(Reference)
=============================================================================
