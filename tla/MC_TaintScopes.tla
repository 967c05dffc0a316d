--------------------------- MODULE MC_TaintScopes ---------------------------
(***************************************************************************)
(* XSSTaintScopes on the statements of the test pages                      *)
(* testing/testsuites/cgi-bin/xss_jsop_*.pl: document.cookie is what is    *)
(* tainted.  One family of programs puts every statement into every other, *)
(* the other one follows single test pages.                                *)
(***************************************************************************)
EXTENDS XSSTaintScopesInv, TLC

Light(code) == [code |-> code, heavy |-> FALSE]
Heavy(code) == [code |-> code, heavy |-> TRUE]
Program(code, f) == [main |-> Light(code), f |-> f]
Alone(code) == [main |-> Light(code)]

SetX == Assign("x", Const)
SetY == Assign("y", Const)
-----------------------------------------------------------------------------
\* A statement in a statement in a program.
Loops == {"while", "do", "for", "forin"}
Switches == {"switch", "table", "lookup"}
Tries == {"try", "catch", "finally", "subroutine"}
Statements == Loops \cup Switches \cup Tries \cup {"if", "else", "with"}
Conditions == {"cookie", "x"}
Leaves == {"set", "hook", "or", "call", "eval", "getter", "setter", "throw", "return", "break",
           "continue"}
Functions == {"returns", "throws", "invoked"}
Callees == Functions \cup {"eval", "getter", "setter"}

Condition(c) == IF c = "cookie" THEN Cookie ELSE Get("x")

\* label tells the finally blocks of a program apart; depth operands are on the
\* stack.  The inner statement is in the block that is tried, caught or final.
Statement(kind, label, c, s, depth) ==
    CASE kind = "if"         -> If(c, s)
      [] kind = "else"       -> IfElse(c, s, SetY) \o SetY
      [] kind = "while"      -> While(c, s)
      [] kind = "do"         -> DoWhile(s, c)
      [] kind = "for"        -> For(SetY, c, SetY, s)
      [] kind = "forin"      -> ForIn("y", c, s)
      [] kind = "switch"     -> CondSwitch(c, Get("y"), s, Get("x"), SetY)
      [] kind = "table"      -> TableSwitch("tableswitch", c, s, SetY)
      [] kind = "lookup"     -> TableSwitch("lookupswitch", c, SetY, s)
      [] kind = "with"       -> With(c, s)
      [] kind = "try"        -> TryCatch(depth, s, SetY)
      [] kind = "catch"      -> TryCatch(depth, Throw(c), s)
      [] kind = "finally"    -> TryFinally(label, depth, s, SetY)
      [] kind = "subroutine" -> TryFinally(label, depth, Do(c), s)

\* What a statement keeps on the stack while the inner one runs, and the code with
\* which a jump leaves it.
Keeps(kind) ==
    CASE kind = "forin" -> 2 [] kind \in {"with", "catch", "subroutine"} -> 1 [] OTHER -> 0
Out(kind, label) ==
    CASE kind = "forin"             -> OutOfForIn
      [] kind \in {"with", "catch"} -> OutOfWith
      [] kind = "subroutine"        -> OutOfFinally
      [] kind = "finally"           -> Gosub(label)
      [] OTHER                      -> <<>>

\* A jump out of the statements n[1] and n[3], up to the one it belongs to.
JumpOut(n, targets, jump) ==
    IF n[3] \in targets THEN jump ELSE Out(n[3], "inner") \o jump

ReturnOut(n) ==
    IF "finally" \in {n[1], n[3]}
    THEN ReturnThrough(Out(n[3], "inner") \o Out(n[1], "outer"), Const)
    ELSE Return(Const)

Leaf(n) ==
    CASE n[5] = "set"      -> SetX
      [] n[5] = "hook"     -> Assign("x", Hook(Get("y"), Cookie, Const))
      [] n[5] = "or"       -> Assign("y", Or(And(Get("y"), Cookie), Const))
      [] n[5] = "call"     -> Assign("x", Call("f", Get("x")))
      [] n[5] = "eval"     -> Assign("x", Eval("f", Get("x")))
      [] n[5] = "getter"   -> Assign("x", GetBy("f", Get("y")))
      [] n[5] = "setter"   -> Assign("x", SetBy("f", Get("y"), Get("x")))
      [] n[5] = "throw"    -> Throw(Const)
      [] n[5] = "return"   -> ReturnOut(n)
      [] n[5] = "break"    -> JumpOut(n, Loops \cup Switches, Break)
      [] n[5] = "continue" -> JumpOut(n, Loops, Continue)

Callee(f) ==
    CASE f = "returns" -> Light(If(Cookie, Return(Const)) \o If(Get("x"), SetX))
      [] f = "throws"  -> Light(If(Get("arg"), Throw(Const)) \o Return(Get("x")))
      [] f = "invoked" -> Heavy(If(Get("arg"), Throw(Cookie)) \o Return(Const))
      [] f = "eval"    -> Heavy(If(Get("y"), Result(Set("y", Cookie))) \o Result(Const))
      [] f = "getter"  -> Heavy(If(Cookie, Throw(Const)) \o Return(Cookie))
      [] f = "setter"  -> Heavy(If(Get("y"), Throw(Get("arg"))) \o SetX)

Compiles(outer, inner, s) ==
    /\ s = "continue" => {outer, inner} \cap Loops # {}
    /\ s = "break" => {outer, inner} \cap (Loops \cup Switches) # {}

\* One condition reads the cookie, the other one x; both do the same around two leaves.
Nested == {n \in Statements \X Conditions \X Statements \X Conditions \X Leaves \X Callees :
             /\ Compiles(n[1], n[3], n[5])
             /\ n[2] # n[4] \/ n[5] \in {"set", "break"}
             /\ CASE n[5] = "call"  -> n[6] \in Functions
                  [] n[5] \in Callees -> n[6] = n[5]
                  [] OTHER           -> n[6] = "returns"}

NestedProgram(n) ==
    LET inner == Statement(n[3], "inner", Condition(n[4]), Leaf(n), Keeps(n[1]))
    IN  Program(Statement(n[1], "outer", Condition(n[2]), inner \o SetY, 0)
                  \o Assign("x", Get("y")),
                Callee(n[6]))
-----------------------------------------------------------------------------
\* Single pages: a switch with breaks, exceptions out of catch and finally blocks,
\* calls as operands of conditions and as arguments, the source of an eval, a function
\* without RETURN.
Pages ==
    [switch |-> Alone(
        CondSwitch(Get("y"), Cookie, SetX \o Break, Get("y"), SetY) \o SetX
        \o CondSwitch(Cookie, Get("x"), SetX \o Break, Equal(Get("y"), Const), SetY \o Break) \o SetY),
     try |-> Program(
        TryCatch(0, Do(Call("f", Cookie)), SetX)
        \o TryCatch(0, If(Cookie, Do(Call("f", Const))) \o SetX,
                 SetY \o TryCatch(1, Throw(Get("x")), SetX)) \o SetY,
        Heavy(Throw(Get("arg")))),
     call |-> Program(
        Assign("x", Call("f", Cookie))
        \o Assign("x", Hook(Cookie, Call("f", Const), Call("f", Get("y"))))
        \o Assign("y", Call("f", Hook(Cookie, Const, Const))) \o SetX,
        Heavy(If(Get("x"), SetX) \o Return(Get("arg")))),
     finally |-> Program(
        TryCatchFinally("outer", 0, If(Cookie, Do(Call("f", Cookie))) \o SetX,
                 Throw(Get("x")),
                 TryFinally("inner", 1, SetX, ForIn("y", Cookie, If(Get("y"), Break))))
        \o SetX,
        Heavy(TryFinally("own", 0, Throw(Get("arg")), If(Cookie, SetX)))),
     eval |-> Program(
        If(Cookie, Assign("x", Eval("f", Const)))
        \o Assign("y", Eval("f", Hook(Cookie, Const, Const))) \o SetX,
        Heavy(TryCatchFinally("own", 0, If(Get("x"), Throw(Get("y"))), Result(Set("y", Const)),
                 Result(Cookie)))),
     end |-> Program(If(Cookie, Assign("y", Call("f", Const))) \o SetX, Light(SetX))]

\* Pages in which the engine loses taint: what a heavyweight function returns from
\* inside of its own tainted condition is the operand of a condition; what one returns
\* is the source of an eval.
LosingPages ==
    {Program(Assign("x", Call("f", Const)) \o If(Get("x"), SetY) \o SetX,
             Heavy(If(Cookie, Return(Const)) \o Return(Const))),
     Program(Assign("x", Eval("f", Call("f", Cookie))) \o SetY,
             Heavy(If(Get("arg"), Return(Get("arg"))) \o Result(Const)))}

MCPrograms ==
    {NestedProgram(n) : n \in Nested} \cup {Pages[p] : p \in DOMAIN Pages} \cup LosingPages

\* The second function of xss_jsop_return.pl, as a heavyweight function.
ReturnPage == {Program(Assign("x", Call("f", Const)) \o SetY, Heavy(If(Cookie, Return(Const))))}
-----------------------------------------------------------------------------
\* What the instruction at pc with the operands s hands on: pairs of the next
\* instruction and its operands.  Behind a GOSUB there are those in front of it again.
Successors(code, pc, s) ==
    LET c == code[pc]
        Leave(k, n) == {<<pc + k, SubSeq(s, 1, Len(s) - n)>>}
        Push(k, n)  == {<<pc + k, Append(SubSeq(s, 1, Len(s) - n), {pc})>>}
    IN  CASE c.op \in {"uint16", "name", "getvar", "forvar"}   -> Push(JumpLength, 0)
          [] c.op \in {"pushobj", "push", "exception"}         -> Push(1, 0)
          [] c.op \in {"getprop", "getter", "setvar"}          -> Push(JumpLength, 1)
          [] c.op \in {"toobject", "enterwith"}                -> Push(1, 1)
          [] c.op \in {"new_eq", "newinit"}                    -> Push(1, 2)
          [] c.op \in {"initcatchvar", "setter"}               -> Push(JumpLength, 2)
          [] c.op \in {"call", "eval"}                         -> Push(JumpLength, 3)
          [] c.op \in {"pop", "leavewith", "setrval", "popv"}  -> Leave(1, 1)
          [] c.op = "pop2"                                     -> Leave(1, 2)
          [] c.op \in {"nop", "try", "finally", "condswitch"}  -> Leave(1, 0)
          [] c.op = "setsp"                                    -> Leave(JumpLength, 0)
          [] c.op = "goto"                                     -> Leave(c.jump, 0)
          [] c.op = "default"                                  -> Leave(c.jump, 1)
          [] c.op = "gosub"                                    -> Push(c.jump, 0) \cup Leave(JumpLength, 0)
          [] c.op = "retsub"                                   -> {}
          [] c.op \in {"ifeq", "ifne"}                         -> Leave(JumpLength, 1) \cup Leave(c.jump, 1)
          [] c.op \in {"or", "and"}                            -> Leave(JumpLength, 1) \cup Push(c.jump, 1)
          [] c.op = "case"                                     -> Leave(c.jump, 2) \cup Push(JumpLength, 2)
          [] c.op \in {"tableswitch", "lookupswitch"}          -> UNION {Leave(k, 1) : k \in c.cases}
          [] OTHER                                             -> {}

Handlers(code, pc, s) ==
    LET to == pc + code[pc].catch
    IN  IF code[pc].catch = 0 \/ code[pc].op \notin Calls \cup {"throw"} THEN {}
        ELSE {<<to, SubSeq(s, 1, code[to].note)>>}

\* The shape of a code in one pass: a jump back finds the operands of the way there.
RECURSIVE ShapeFrom(_, _, _)
ShapeFrom(code, pc, shape) ==
    IF pc > Len(code) THEN shape
    ELSE IF pc \notin DOMAIN shape THEN ShapeFrom(code, pc + 1, shape)
    ELSE LET next == Successors(code, pc, shape[pc]) \cup Handlers(code, pc, shape[pc])
             join == [to \in {e[1] : e \in next} |->
                        LET s == (CHOOSE e \in next : e[1] = to)[2]
                        IN  IF to \in DOMAIN shape
                            THEN [j \in DOMAIN s |-> s[j] \cup shape[to][j]] ELSE s]
         IN  ShapeFrom(code, pc + 1, join @@ shape)

MCShape(code) == ShapeFrom(code, 1, 1 :> <<>>)
=============================================================================
