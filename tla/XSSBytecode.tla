---------------------------- MODULE XSSBytecode ----------------------------
(***************************************************************************)
(* The bytecode that the emitter of the JavaScript engine (jsemit.c)       *)
(* generates for the statements whose control flow the taint engine        *)
(* follows.  Code is a sequence of byte cells, since the interpreter looks *)
(* at the code three bytes in front of a jump's target; an instruction of  *)
(* three bytes is a cell with the opcode and two operand cells.  Jumps and *)
(* lengths are relative to their instruction, as in the engine, so the     *)
(* code of a statement is the concatenation of the code of its parts.      *)
(*                                                                         *)
(* body is no part of the bytecode: it is the part of the source that an   *)
(* instruction decides about, the cells from body[1] up to body[2] after   *)
(* it, without body[2].  The properties of the interpreter are stated with *)
(* it, the interpreter does not see it.                                    *)
(***************************************************************************)
EXTENDS Integers, Sequences

NoBody == <<0, 0>>

Cell(op) ==
    [op |-> op, arg |-> "", jump |-> 0, cases |-> {}, note |-> 0, catch |-> 0, body |-> NoBody]
Short(op) == <<Cell(op)>>
Operands == Short("operand") \o Short("operand")
Long(op, arg) == <<[Cell(op) EXCEPT !.arg = arg]>> \o Operands
Noted(op, note) == <<[Cell(op) EXCEPT !.note = note]>> \o Operands
Jump(op, offset, body) == <<[Cell(op) EXCEPT !.jump = offset, !.body = body]>> \o Operands
JumpLength == 3

\* Expressions and simple statements.
Const == Long("uint16", "")
Get(slot) == Long("getvar", slot)
Cookie == Long("name", "document") \o Long("getprop", "cookie")
Equal(a, b) == a \o b \o Short("new_eq")
Set(slot, e) == e \o Long("setvar", slot)
Call(f, e) == Long("name", f) \o Short("pushobj") \o e \o Long("call", f)
Do(e) == e \o Short("pop")
Assign(slot, e) == Do(Set(slot, e))
Throw(e) == e \o Short("throw")

\* eval(e), where e is the source of the script f; an expression statement in the
\* source of an eval.
Eval(f, e) == Long("name", "eval") \o Short("pushobj") \o e \o Long("eval", f)
Result(e) == e \o Short("popv")

\* The property of o that has the getter f, and setting the one with the setter f.
GetBy(f, o) == o \o Long("getter", f)
SetBy(f, o, e) == o \o e \o Long("setter", f)

\* Jumps whose targets are filled in when the statement they belong to is
\* complete: a break, a continue, the way behind a try statement, and the calls
\* of its finally block, which carry a label of the statement.
Break == Long("break", "")
Continue == Long("continue", "")
EndTry == Long("endtry", "")
Gosub(label) == Long(label, "")

BackPatch(code, placeholder, op, target) ==
    [i \in DOMAIN code |->
        IF code[i].op = placeholder
        THEN [code[i] EXCEPT !.op = op, !.jump = target - i]
        ELSE code[i]]

\* What comes in front of a break or continue for each statement it leaves, the
\* innermost first: the object of a with or catch block, the iterator of a for-in
\* and the return address of a finally block are popped, and the finally block
\* of a try statement runs (EmitNonLocalJumpFixup).
OutOfWith == Short("leavewith")
OutOfForIn == Short("pop2")
OutOfFinally == Short("pop")

\* return, and return with the fixup code for a try statement with a finally block.
Return(e) == e \o Short("return")
ReturnThrough(fixup, e) == e \o Short("setrval") \o fixup \o Short("retrval")

\* if and if-else; the conditional expression is emitted like if-else.
If(c, then) ==
    c \o Jump("ifeq", JumpLength + Len(then), <<JumpLength, JumpLength + Len(then)>>) \o then

IfElse(c, then, else) ==
    LET decided == JumpLength + Len(then) + JumpLength
    IN  c \o Jump("ifeq", decided, <<JumpLength, decided + Len(else)>>)
          \o then \o Jump("goto", JumpLength + Len(else), NoBody) \o else

Hook(c, a, b) == IfElse(c, a, b)

Or(a, b)  == a \o Jump("or", JumpLength + Len(b), <<JumpLength, JumpLength + Len(b)>>) \o b
And(a, b) == a \o Jump("and", JumpLength + Len(b), <<JumpLength, JumpLength + Len(b)>>) \o b

\* Loops: break goes behind the loop, continue to the condition or the update.
While(c, s) ==
    LET loop == c \o Jump("ifeq", JumpLength + Len(s) + JumpLength,
                          <<JumpLength, JumpLength + Len(s)>>)
                  \o s \o Jump("goto", -(Len(c) + JumpLength + Len(s)), NoBody)
    IN  BackPatch(BackPatch(loop, "break", "goto", Len(loop) + 1), "continue", "goto", 1)

DoWhile(s, c) ==
    LET loop == s \o c \o Jump("ifne", -(Len(s) + Len(c)), <<-(Len(s) + Len(c)), -Len(c)>>)
    IN  Short("nop")
          \o BackPatch(BackPatch(loop, "break", "goto", Len(loop) + 1), "continue", "goto", Len(s) + 1)

For(init, c, update, s) ==
    LET part == Len(s) + Len(update)
        loop == c \o Jump("ifeq", JumpLength + part + JumpLength,
                          <<JumpLength, JumpLength + part>>)
                  \o s \o update \o Jump("goto", -(Len(c) + JumpLength + part), NoBody)
    IN  init \o BackPatch(BackPatch(loop, "break", "goto", Len(loop) + 1), "continue",
                          "goto", Len(c) + JumpLength + Len(s) + 1)

\* switch with two cases whose values are no constants.  The note of CONDSWITCH
\* is the length of the switch.
CondSwitch(e, v1, s1, v2, s2) ==
    LET first  == 1 + Len(v1)
        second == first + JumpLength + Len(v2)
        start  == second + 2 * JumpLength
        end    == start + Len(s1) + Len(s2)
        code   == <<[Cell("condswitch") EXCEPT !.note = end, !.body = <<1, end>>]>>
                    \o v1 \o Jump("case", start - first, <<JumpLength, end - first>>)
                    \o v2 \o Jump("case", start + Len(s1) - second, <<JumpLength, end - second>>)
                    \o Jump("default", end - second - JumpLength, NoBody)
                    \o s1 \o s2
    IN  e \o BackPatch(code, "break", "goto", end + 1)

\* switch with two constant cases, by a table of integers or of atoms.  Each jump
\* is a case, the last one the default behind the switch.
Table == [tableswitch |-> 3 * 2 + 2 * 2, lookupswitch |-> 2 * 2 + 2 * 4]

TableSwitch(op, e, s1, s2) ==
    LET start == 1 + Table[op]
        end   == start + Len(s1) + Len(s2)
        code  == <<[Cell(op) EXCEPT !.cases = {start, start + Len(s1), end}, !.note = end,
                                    !.body = <<1, end>>]>>
                   \o [i \in 1..Table[op] |-> Cell("operand")] \o s1 \o s2
    IN  e \o BackPatch(code, "break", "goto", end + 1)

\* for-in over the properties of o.
ForIn(slot, o, s) ==
    LET loop == Long("forvar", slot)
                  \o Jump("ifeq", JumpLength + Len(s) + JumpLength,
                          <<JumpLength, JumpLength + Len(s)>>)
                  \o s \o Jump("goto", -(2 * JumpLength + Len(s)), NoBody)
    IN  Short("push") \o o \o Short("toobject")
          \o BackPatch(BackPatch(loop, "break", "goto", Len(loop) + 1), "continue", "goto", 1)
          \o Short("pop2")

\* The note of ENTERWITH is the length up to and with LEAVEWITH.
WithBlock(s) ==
    <<[Cell("enterwith") EXCEPT !.note = Len(s) + 2, !.body = <<1, Len(s) + 2>>]>>
      \o s \o Short("leavewith")

With(e, s) == e \o WithBlock(s)

\* A try note: how far it is from each cell to the catch block that covers it,
\* unless an inner one does.
Covered(code, target) ==
    [i \in DOMAIN code |->
        IF code[i].catch # 0 THEN code[i] ELSE [code[i] EXCEPT !.catch = target - i]]

\* The part s of a try statement and its catch block; leave is what calls the
\* finally block.  depth operands are on the stack.
Caught(depth, s, handler, leave) ==
    LET tried == s \o leave \o EndTry
    IN  Covered(tried, Len(tried) + 1)
          \o Noted("setsp", depth) \o Short("nop") \o Long("name", "Object")
          \o Short("pushobj") \o Short("newinit") \o Short("exception")
          \o Long("initcatchvar", "e") \o WithBlock(handler) \o leave \o EndTry

TryCatch(depth, s, handler) ==
    LET code == Caught(depth, s, handler, <<>>) \o Short("nop")
    IN  Short("try") \o BackPatch(code, "endtry", "goto", Len(code) + 1)

\* A try statement with the finally block f, whose other parts are tried: an
\* exception that leaves them runs the block and is thrown again.
WithFinally(label, depth, tried, f) ==
    LET rethrow == Noted("setsp", depth) \o Gosub(label) \o Short("exception") \o Short("throw")
        start   == Len(tried) + Len(rethrow) + 1
        code    == Covered(tried, Len(tried) + 1) \o rethrow
                     \o Short("finally") \o f \o Short("retsub") \o Short("nop")
    IN  Short("try")
          \o BackPatch(BackPatch(code, label, "gosub", start), "endtry", "goto", Len(code) + 1)

TryFinally(label, depth, s, f) ==
    WithFinally(label, depth, s \o Gosub(label) \o EndTry, f)

TryCatchFinally(label, depth, s, handler, f) ==
    WithFinally(label, depth, Caught(depth, s, handler, Gosub(label)), f)
=============================================================================
