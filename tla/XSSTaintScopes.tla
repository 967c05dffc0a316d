--------------------------- MODULE XSSTaintScopes ---------------------------
(***************************************************************************)
(* How the JavaScript interpreter (jsinterp.c, js_Interpret) follows the   *)
(* influence of tainted conditions: every conditional jump opens a scope   *)
(* over the code it decides about, a scope ends when the program counter   *)
(* leaves it, a mark in the operand stack says from where on the operands  *)
(* are tainted, and a call hands the taint of its scope to the callee.     *)
(*                                                                         *)
(* A step is one instruction: the fetch, which removes ended scopes and    *)
(* the mark, and the handler.  Conditions come out either way.             *)
(*                                                                         *)
(* Beside the engine's own state, values, scopes and frames carry what the *)
(* properties compare it with: secret says that a value depends on what    *)
(* was read from the document, as data or through a condition; controls    *)
(* are the bodies of the conditions on secrets that run; inherited says    *)
(* that the call itself happened in such a body.                           *)
(***************************************************************************)
EXTENDS XSSBytecode, FiniteSetsExt

CONSTANTS
    Programs,   \* the programs: each gives its functions, one of them "main",
                \* their scripts
    MaxScopes   \* bound: a frame with as many scopes does not go on

\* A script is its code and whether calls of it go through js_Invoke: for a
\* heavyweight function, one called with fewer arguments than it declares, the
\* getter or setter of a property, and the source given to eval.
ASSUME ProgramsAssumption ==
    \A p \in Programs : "main" \in DOMAIN p /\ \A f \in DOMAIN p : p[f].heavy \in BOOLEAN

Slots == {"arg", "x", "y"}
NoMark == 0

VARIABLES
    program,    \* the program that runs
    source,     \* whether what the programs read from the document is tainted
    frames,     \* cx->fp: the frames, the running one is the last
    throwing,   \* whether an exception looks for its catch block
    exception   \* cx->exception

vars == <<program, source, frames, throwing, exception>>
-----------------------------------------------------------------------------
Value(t, s) == [tainted |-> t, secret |-> s]
Plain == Value(FALSE, FALSE)

\* The return address that GOSUB pushes.
ReturnAddress(pc) == [tainted |-> FALSE, secret |-> FALSE, back |-> pc]

Script(f) == program[f]

RootScope(t, script) ==
    [istainted |-> t, prev |-> FALSE, opened |-> t, op |-> "call",
     from |-> 1, to |-> Len(script.code) + 1]

NewFrame(f, t, v, controlled) ==
    [name |-> f, pc |-> 1, stack |-> <<>>, mark |-> NoMark,
     scopes |-> <<RootScope(t, Script(f))>>,
     slots |-> [s \in Slots |-> IF s = "arg" THEN v ELSE Plain],
     rval |-> Value(FALSE, controlled), output |-> FALSE, saved |-> FALSE,
     controls |-> {}, inherited |-> controlled]

Top == frames[Len(frames)]
Code(f) == Script(f.name).code
Operand(f, n) == f.stack[Len(f.stack) + 1 - n]
Drop(f, n) == SubSeq(f.stack, 1, Len(f.stack) - n)

\* Mutant: a scope does not hold its first instruction.
WithinBehindStart(pc, s) == s.from < pc /\ pc < s.to

Within(pc, s) == s.from <= pc /\ pc < s.to

\* The fetch: scopes are removed from the last one on until one holds the
\* program counter, the root stays; the mark goes when the stack is below it.
Fetched(f) ==
    LET kept == Max({1} \cup {i \in DOMAIN f.scopes : Within(f.pc, f.scopes[i])})
    IN  [f EXCEPT !.scopes = SubSeq(f.scopes, 1, kept),
                  !.mark = IF Len(f.stack) < f.mark THEN NoMark ELSE f.mark,
                  !.controls = {c \in f.controls : c[1] <= f.pc /\ f.pc < c[2]}]

Scope(f) == f.scopes[Len(f.scopes)]
ScopeTainted(f) == Scope(f).istainted \/ Scope(f).prev
\* Mutant: without a mark the stack counts as tainted.
StackTaintedWithoutNullTest(f) == Len(f.stack) >= f.mark
StackTainted(f) == f.mark # NoMark /\ Len(f.stack) >= f.mark

\* XSS_CALC_TAINTOUTPUT for an instruction that uses the values in used.
Output(f, used) == StackTainted(f) \/ ScopeTainted(f) \/ \E v \in used : v.tainted

Controlled(f) == f.inherited \/ f.controls # {}
Depends(f, used) == Controlled(f) \/ \E v \in used : v.secret

\* Mutant: the mark moves to the operand pushed last.
MarkMovesUp(f, i, out) == IF out THEN i ELSE f.mark

\* XSS_SET_STACK_TAINTED_ON_OUTPUT: the mark moves down to operand i.
Mark(f, i, out) == IF out /\ (f.mark = NoMark \/ f.mark > i) THEN i ELSE f.mark

\* Mutant: the bounds stay in the order of the instructions.
WithScopeUnordered(f, target, out, secret) ==
    LET cell == Code(f)[f.pc]
    IN  [f EXCEPT
          !.scopes = Append(@, [istainted |-> out, prev |-> ScopeTainted(f), opened |-> out,
                                op |-> cell.op, from |-> f.pc, to |-> target]),
          !.controls = IF secret THEN @ \cup {<<f.pc + cell.body[1], f.pc + cell.body[2]>>}
                       ELSE @]

\* XSS_NEW_SCOPE; XSS_SCOPE_SET orders the bounds.
WithScope(f, target, out, secret) ==
    LET cell == Code(f)[f.pc]
    IN  [f EXCEPT
          !.scopes = Append(@, [istainted |-> out, prev |-> ScopeTainted(f), opened |-> out,
                                op |-> cell.op, from |-> Min({f.pc, target}),
                                to |-> Max({f.pc, target})]),
          !.controls = IF secret THEN @ \cup {<<f.pc + cell.body[1], f.pc + cell.body[2]>>}
                       ELSE @]

\* PUSH_OPND of v onto the stack s of the fetched frame f.
Pushed(f, s, v, out) ==
    [f EXCEPT !.stack = Append(s, v), !.mark = Mark(f, Len(s) + 1, out), !.output = out]

Running(f) == frames' = [frames EXCEPT ![Len(frames)] = f]
Advance(f, n) == Running([f EXCEPT !.pc = @ + n])

\* The running frame is about to execute one of the instructions in ops.
Executing(ops) ==
    /\ frames # <<>> /\ ~throwing /\ Len(Top.scopes) < MaxScopes
    /\ Top.pc \in DOMAIN Code(Top) /\ Code(Top)[Top.pc].op \in ops
-----------------------------------------------------------------------------
Init ==
    /\ program \in Programs
    /\ source \in BOOLEAN
    /\ frames = <<NewFrame("main", FALSE, Plain, FALSE)>>
    /\ throwing = FALSE
    /\ exception = Plain

Unchanged == UNCHANGED <<program, source, throwing, exception>>

\* UINT16, NAME of a function, PUSHOBJ, PUSH.
PushConstant ==
    /\ Executing({"uint16", "name", "pushobj", "push"})
    /\ LET f == Fetched(Top)
       IN  Advance(Pushed(f, f.stack, Value(FALSE, Controlled(f)), Output(f, {})),
                   IF Code(f)[f.pc].op \in {"pushobj", "push"} THEN 1 ELSE JumpLength)
    /\ Unchanged

\* GETARG, GETVAR.
GetSlot ==
    /\ Executing({"getvar"})
    /\ LET f == Fetched(Top)
           v == f.slots[Code(f)[f.pc].arg]
       IN  Advance(Pushed(f, f.stack, Value(v.tainted, Depends(f, {v})), Output(f, {v})), JumpLength)
    /\ Unchanged

\* GETPROP of a property of the document: its value takes the object's place.
GetProperty ==
    /\ Executing({"getprop"})
    /\ LET f    == Fetched(Top)
           read == Value(source, source)
           used == {Operand(f, 1), read}
       IN  Advance(Pushed(f, Drop(f, 1), Value(source, Depends(f, used)), Output(f, used)), JumpLength)
    /\ Unchanged

\* SETARG, SETVAR: the value itself is tainted, and stays on the stack.
SetSlot ==
    /\ Executing({"setvar"})
    /\ LET f   == Fetched(Top)
           v   == Operand(f, 1)
           out == Output(f, {v})
           set == Value(v.tainted \/ out, Depends(f, {v}))
       IN  Advance([f EXCEPT !.slots[Code(f)[f.pc].arg] = set, !.output = out,
                             !.stack = Append(Drop(f, 1), set)], JumpLength)
    /\ Unchanged

\* NEW_EQ: a fresh value, tainted by the mark only.
NewEqual ==
    /\ Executing({"new_eq"})
    /\ LET f    == Fetched(Top)
           used == {Operand(f, 1), Operand(f, 2)}
       IN  Advance(Pushed(f, Drop(f, 2), Value(FALSE, Depends(f, used)), Output(f, used)), 1)
    /\ Unchanged

\* POP, POP2, LEAVEWITH, NOP, TRY, FINALLY, SETSP: no taint is calculated.
Plainly ==
    /\ Executing({"pop", "pop2", "leavewith", "nop", "try", "finally", "setsp"})
    /\ LET f == [Fetched(Top) EXCEPT !.output = FALSE]
           c == Code(f)[f.pc]
       IN  Advance([f EXCEPT !.stack = CASE c.op \in {"pop", "leavewith"} -> Drop(f, 1)
                                         [] c.op = "pop2" -> Drop(f, 2)
                                         [] c.op = "setsp" -> SubSeq(@, 1, c.note)
                                         [] OTHER -> @],
                   IF c.op = "setsp" THEN JumpLength ELSE 1)
    /\ Unchanged

\* GOTO; DEFAULT pops the value of the switch first.
Goto ==
    /\ Executing({"goto", "default"})
    /\ LET f == [Fetched(Top) EXCEPT !.output = FALSE]
           c == Code(f)[f.pc]
       IN  Advance([f EXCEPT !.stack = IF c.op = "default" THEN Drop(f, 1) ELSE @], c.jump)
    /\ Unchanged

\* GOSUB and RETSUB: to a finally block and back.
GoSub ==
    /\ Executing({"gosub"})
    /\ LET f == [Fetched(Top) EXCEPT !.output = FALSE]
       IN  Advance([f EXCEPT !.stack = Append(@, ReturnAddress(f.pc + JumpLength))],
                   Code(f)[f.pc].jump)
    /\ Unchanged

RetSub ==
    /\ Executing({"retsub"})
    /\ LET f == [Fetched(Top) EXCEPT !.output = FALSE]
       IN  Running([f EXCEPT !.stack = Drop(f, 1), !.pc = Operand(f, 1).back])
    /\ Unchanged

\* SETRVAL, and POPV in the frame of an eval from a script (taint_retval is TRUE).
SetResult ==
    /\ Executing({"setrval", "popv"})
    /\ LET f   == Fetched(Top)
           v   == Operand(f, 1)
           out == Output(f, {v})
       IN  Advance([f EXCEPT !.stack = Drop(f, 1), !.output = out,
                             !.rval = Value(v.tainted \/ out, Depends(f, {v}))], 1)
    /\ Unchanged

\* The end of the scope of IFEQ.  A forward GOTO in front of the target is
\* taken for the one that jumps over an else-branch.
IfEqEnd(code, pc) ==
    LET target == pc + code[pc].jump
        before == code[target - JumpLength]
    IN  IF before.op = "goto" /\ before.jump > 0 THEN target + before.jump ELSE target

\* The other end of the scope that the instruction at pc opens, for all but CASE.
ScopeEnd(code, pc) ==
    CASE code[pc].op = "ifeq" -> IfEqEnd(code, pc)
      [] code[pc].op \in {"ifne", "or", "and"} -> pc + code[pc].jump
      [] OTHER -> pc + code[pc].note

\* IFEQ, IFNE, OR, AND: the condition is popped, a scope is opened, and the
\* jump is taken or not.  OR and AND push the value again if they jump.
Branch ==
    /\ Executing({"ifeq", "ifne", "or", "and"})
    /\ \E jumps \in BOOLEAN :
         LET f   == Fetched(Top)
             c   == Code(f)[f.pc]
             v   == Operand(f, 1)
             out == Output(f, {v})
             g   == [WithScope(f, ScopeEnd(Code(f), f.pc), out, Depends(f, {v})) EXCEPT
                       !.stack = Drop(f, 1), !.output = out]
         IN  CASE ~jumps -> Advance(g, JumpLength)
               [] jumps /\ c.op \in {"ifeq", "ifne"} -> Advance(g, c.jump)
               [] OTHER -> Advance(Pushed(g, g.stack, Value(v.tainted, Depends(f, {v})), out), c.jump)
    /\ Unchanged

\* CONDSWITCH: a scope over the switch, the value stays on the stack.
SwitchBegins ==
    /\ Executing({"condswitch"})
    /\ LET f   == Fetched(Top)
           v   == Operand(f, 1)
           out == Output(f, {v})
       IN  Advance([WithScope(f, ScopeEnd(Code(f), f.pc), out, Depends(f, {v})) EXCEPT
                      !.output = out], 1)
    /\ Unchanged

\* CASE: both operands are popped and the mark goes if they were above it; a
\* tainted case opens a scope to the end of the innermost switch; if the case
\* is not the one, the switch's value is pushed again, without its own taint.
Case ==
    /\ Executing({"case"})
    /\ \E jumps \in BOOLEAN :
         LET f        == Fetched(Top)
             used     == {Operand(f, 1), Operand(f, 2)}
             out      == Output(f, used)
             secret   == Depends(f, used)
             rest     == Drop(f, 2)
             switches == {i \in DOMAIN f.scopes : f.scopes[i].op = "condswitch"}
             g == IF out /\ switches # {}
                  THEN WithScope(f, f.scopes[Max(switches)].to, out, secret)
                  ELSE f
             h == [g EXCEPT !.stack = rest, !.output = out,
                            !.mark = IF Len(rest) < g.mark THEN NoMark ELSE g.mark]
         IN  IF jumps
             THEN Advance(h, Code(f)[f.pc].jump)
             ELSE Advance([h EXCEPT !.stack = Append(rest, Value(FALSE, Depends(f, {Operand(f, 2)}))),
                                    !.mark = Mark(h, Len(rest) + 1, out)], JumpLength)
    /\ Unchanged

\* TABLESWITCH, LOOKUPSWITCH: a scope over the switch, the value is popped.
SwitchJumps ==
    /\ Executing({"tableswitch", "lookupswitch"})
    /\ LET f   == Fetched(Top)
           c   == Code(f)[f.pc]
           v   == Operand(f, 1)
           out == Output(f, {v})
       IN  \E offset \in c.cases :
             Advance([WithScope(f, ScopeEnd(Code(f), f.pc), out, Depends(f, {v})) EXCEPT
                        !.stack = Drop(f, 1), !.output = out], offset)
    /\ Unchanged

\* TOOBJECT: the object of a for-in is a new one.
ToObject ==
    /\ Executing({"toobject"})
    /\ LET f == Fetched(Top)
           v == Operand(f, 1)
       IN  Advance(Pushed(f, Drop(f, 1), Value(FALSE, Depends(f, {v})), Output(f, {v})), 1)
    /\ Unchanged

\* FORVAR: the variable gets the name of the next property, if there is one, and
\* what IFEQ tests is pushed.
ForVar ==
    /\ Executing({"forvar"})
    /\ \E more \in BOOLEAN :
         LET f      == Fetched(Top)
             o      == Operand(f, 1)
             out    == Output(f, {o})
             secret == Depends(f, {o})
             g      == IF more THEN [f EXCEPT !.slots[Code(f)[f.pc].arg] = Value(out, secret)] ELSE f
         IN  Advance(Pushed(g, g.stack, Value(FALSE, secret), out), JumpLength)
    /\ Unchanged

\* ENTERWITH: a scope over the block; the object is replaced by a fresh one.
EnterWith ==
    /\ Executing({"enterwith"})
    /\ LET f      == Fetched(Top)
           v      == Operand(f, 1)
           out    == Output(f, {v})
           secret == Depends(f, {v})
           g      == WithScope(f, ScopeEnd(Code(f), f.pc), out, secret)
       IN  Advance(Pushed(g, Drop(f, 1), Value(FALSE, secret), out), 1)
    /\ Unchanged

\* NEW through js_Invoke leaves the flag of the scope at what it says together
\* with the earlier ones.
KeepFlag(f) == [f EXCEPT !.scopes[Len(f.scopes)].istainted = ScopeTainted(f)]

\* NEWINIT: a new object in the place of its constructor.
NewInit ==
    /\ Executing({"newinit"})
    /\ LET f   == Fetched(Top)
           out == Output(f, {Operand(f, 2)})
           new == Value(out, Controlled(f))
       IN  Advance([KeepFlag(f) EXCEPT !.stack = Append(Drop(f, 2), new), !.output = out], 1)
    /\ Unchanged

\* EXCEPTION: pushes the exception.
PushException ==
    /\ Executing({"exception"})
    /\ LET f == Fetched(Top)
       IN  Advance(Pushed(f, f.stack, Value(exception.tainted, Depends(f, {exception})),
                          Output(f, {exception})), 1)
    /\ Unchanged

\* INITCATCHVAR: the exception becomes a property of the object below it, and
\* taints that object.
InitCatchVar ==
    /\ Executing({"initcatchvar"})
    /\ LET f      == Fetched(Top)
           v      == Operand(f, 1)
           out    == Output(f, {v})
           holder == Operand(f, 2)
           set    == Value(holder.tainted \/ out, holder.secret \/ Depends(f, {v}))
       IN  Advance([f EXCEPT !.stack = Append(Drop(f, 2), set), !.output = out], JumpLength)
    /\ Unchanged

Throwing ==
    /\ Executing({"throw"})
    /\ LET f   == Fetched(Top)
           v   == Operand(f, 1)
           out == Output(f, {v})
       IN  /\ exception' = Value(v.tainted \/ out, Depends(f, {v}))
           /\ Running([f EXCEPT !.stack = Drop(f, 1), !.output = out])
    /\ throwing' = TRUE
    /\ UNCHANGED <<program, source>>
-----------------------------------------------------------------------------
(***************************************************************************)
(* Calls.  The operands of a call are the function, this and the argument. *)
(***************************************************************************)
Called(f) == Script(Code(f)[f.pc].arg)

\* The inlined call: the callee's root scope is tainted if the caller's stack
\* or scope is.
CallInline ==
    /\ Executing({"call"})
    /\ ~Called(Top).heavy
    /\ LET f   == Fetched(Top)
           out == Output(f, {})
       IN  frames' = [frames EXCEPT ![Len(frames)] = [f EXCEPT !.output = out]]
                       \o <<NewFrame(Code(f)[f.pc].arg, out, Operand(f, 1), Controlled(f))>>
    /\ Unchanged

\* The caller's scope is tainted while js_Invoke runs.
Lent(f, out) ==
    [f EXCEPT !.scopes[Len(f.scopes)].istainted = @ \/ out, !.saved = ScopeTainted(f),
              !.output = out]

\* The call through js_Invoke: the callee's root scope takes the taint of the
\* caller's.
CallInvoke ==
    /\ Executing({"call"})
    /\ Called(Top).heavy
    /\ LET f == Fetched(Top)
           g == Lent(f, Output(f, {}))
       IN  frames' = [frames EXCEPT ![Len(frames)] = g]
                       \o <<NewFrame(Code(f)[f.pc].arg, ScopeTainted(g), Operand(f, 1), Controlled(f))>>
    /\ Unchanged

\* EVAL, js_Execute: the script shares the variables of its caller, and everything
\* it does depends on its source.
EvalCode ==
    /\ Executing({"eval"})
    /\ LET f == Fetched(Top)
           v == Operand(f, 1)
           g == Lent(f, Output(f, {}))
           e == NewFrame(Code(f)[f.pc].arg, ScopeTainted(g), v, Depends(f, {v}))
       IN  frames' = [frames EXCEPT ![Len(frames)] = g] \o <<[e EXCEPT !.slots = f.slots]>>
    /\ Unchanged

\* GETPROP of a property with a getter, js_InternalGetOrSet.
CallGetter ==
    /\ Executing({"getter"})
    /\ LET f == Fetched(Top)
           g == [f EXCEPT !.output = Output(f, {Operand(f, 1)})]
       IN  frames' = [frames EXCEPT ![Len(frames)] = g]
                       \o <<NewFrame(Code(f)[f.pc].arg, ScopeTainted(g), Plain, Controlled(f))>>
    /\ Unchanged

\* SETPROP opens a scope over itself, so that what the setter does is tainted.
SetterScope(f, out) == IF out THEN WithScope(f, f.pc + 1, out, FALSE) ELSE f

\* SETPROP of a property with a setter, which gets the tainted value.
CallSetter ==
    /\ Executing({"setter"})
    /\ LET f    == Fetched(Top)
           used == {Operand(f, 1), Operand(f, 2)}
           out  == Output(f, used)
           g    == [SetterScope(f, out) EXCEPT !.output = out]
           v    == Value(Operand(f, 1).tainted \/ out, Depends(f, {Operand(f, 1)}))
       IN  frames' = [frames EXCEPT ![Len(frames)] = g]
                       \o <<NewFrame(Code(f)[f.pc].arg, ScopeTainted(g), v, Depends(f, used))>>
    /\ Unchanged

Inlined(i) == ~Script(frames[i].name).heavy
Caller == frames[Len(frames) - 1]

\* inline_return: the value is stored where the function was, tainted by the
\* callee's output, which also sets the caller's mark.
ReturnedInline(v, out) ==
    LET rest == Drop(Caller, 3)
    IN  [Caller EXCEPT !.stack = Append(rest, [v EXCEPT !.tainted = @ \/ out]),
                       !.mark = Mark(Caller, Len(rest) + 1, out)]

\* Mutant: the scope of the caller stays tainted.
ReturnedInvokeKeepsFlag(v) ==
    [Caller EXCEPT !.slots = IF Code(Caller)[Caller.pc].op = "eval" THEN Top.slots ELSE @,
                   !.stack = Append(Drop(Caller, 3), [v EXCEPT !.tainted = @ \/ Caller.output])]

\* The end of js_Invoke: the flag of the caller's scope is set back, and the
\* value is tainted by what the caller calculated in front of the call.
ReturnedInvoke(v) ==
    [Caller EXCEPT !.scopes[Len(Caller.scopes)].istainted = Caller.saved,
                   !.slots = IF Code(Caller)[Caller.pc].op = "eval" THEN Top.slots ELSE @,
                   !.stack = Append(Drop(Caller, 3), [v EXCEPT !.tainted = @ \/ Caller.output])]

\* The end of GETPROP and SETPROP: the result takes the place of the object and of
\* the value to set, if there is one.
ReturnedGetter(v) ==
    LET o == Operand(Caller, 1)
    IN  Pushed(Caller, Drop(Caller, 1), [v EXCEPT !.secret = @ \/ Depends(Caller, {o})],
               Caller.output \/ v.tainted)

ReturnedSetter(v) == Pushed(Caller, Drop(Caller, 2), v, Caller.output)

Calling == Code(Caller)[Caller.pc].op

Returned(v, out) ==
    CASE Calling = "getter" -> ReturnedGetter(v)
      [] Calling = "setter" -> ReturnedSetter(v)
      [] Calling \in {"call", "eval"} /\ Inlined(Len(frames)) -> ReturnedInline(v, out)
      [] OTHER -> ReturnedInvoke(v)

\* The running frame ends with v and its caller goes on behind the call.
ReturnTo(v, out) ==
    frames' = IF Len(frames) = 1 THEN <<>>
              ELSE Append(SubSeq(frames, 1, Len(frames) - 2),
                          [Returned(v, out) EXCEPT !.pc = @ + JumpLength])

\* RETURN, RETRVAL: the value is tainted in inline_return only.
Returning ==
    /\ Executing({"return", "retrval"})
    /\ LET f == Fetched(Top)
           v == IF Code(f)[f.pc].op = "return" THEN Operand(f, 1) ELSE f.rval
       IN  ReturnTo(Value(v.tainted, Depends(f, {v})), Output(f, {v}))
    /\ Unchanged

\* The end of the code without RETURN.  No instruction is fetched: the output
\* is the one of the last instruction.
FallOff ==
    /\ frames # <<>> /\ ~throwing
    /\ Top.pc \notin DOMAIN Code(Top)
    /\ ReturnTo(Top.rval, Top.output \/ Top.rval.tainted)
    /\ Unchanged

\* The label out: the catch block of the innermost try around the instruction.
Catching ==
    /\ throwing /\ Code(Top)[Top.pc].catch # 0
    /\ Advance(Top, Code(Top)[Top.pc].catch)
    /\ throwing' = FALSE
    /\ UNCHANGED <<program, source, exception>>

\* No catch block: the frame ends, and the caller looks for one.
Unwind ==
    /\ throwing /\ Code(Top)[Top.pc].catch = 0
    /\ frames' = IF Len(frames) = 1 THEN <<>>
                 ELSE Append(SubSeq(frames, 1, Len(frames) - 2),
                             IF Calling \in {"getter", "setter"} THEN Caller
                             ELSE Returned(Top.rval, Top.output \/ Top.rval.tainted))
    /\ throwing' = (Len(frames) > 1)
    /\ UNCHANGED <<program, source, exception>>

\* The program has ended or reached the bound.
Done == (frames # <<>> => Len(Top.scopes) = MaxScopes) /\ UNCHANGED vars

Next ==
    \/ PushConstant \/ GetSlot \/ GetProperty \/ SetSlot \/ NewEqual \/ Plainly \/ Goto \/ Branch
    \/ GoSub \/ RetSub \/ SetResult \/ SwitchBegins \/ Case \/ SwitchJumps
    \/ ToObject \/ ForVar \/ EnterWith \/ NewInit \/ PushException \/ InitCatchVar
    \/ Throwing \/ CallInline \/ CallInvoke \/ EvalCode \/ CallGetter \/ CallSetter \/ Returning \/ FallOff
    \/ Catching \/ Unwind \/ Done

Spec == Init /\ [][Next]_vars
-----------------------------------------------------------------------------
Values == [tainted : BOOLEAN, secret : BOOLEAN]
OnStack == Values \cup [tainted : {FALSE}, secret : {FALSE}, back : Nat]

\* Every frame belongs to a script of the program; its mark and its program
\* counter are inside of its stack and its code, its root scope stays.
TypeOK ==
    /\ "main" \in DOMAIN program
    /\ source \in BOOLEAN /\ throwing \in BOOLEAN
    /\ exception \in Values
    /\ \A i \in DOMAIN frames :
         LET f == frames[i]
         IN  /\ f.name \in DOMAIN program
             /\ f.pc \in 1..Len(Code(f)) + 1
             /\ \A v \in {f.stack[j] : j \in DOMAIN f.stack} : v \in OnStack
             /\ f.rval \in Values
             /\ f.slots \in [Slots -> Values]
             /\ f.mark \in Nat
             /\ f.scopes # <<>> /\ f.scopes[1].op = "call"
             /\ \A s \in {f.scopes[j] : j \in DOMAIN f.scopes} :
                  s.istainted \in BOOLEAN /\ s.prev \in BOOLEAN /\ s.from <= s.to
             /\ {f.output, f.saved, f.inherited} \subseteq BOOLEAN

\* While the body of a condition on a secret runs, in the frame of the
\* condition or in one called from the body, the scope is tainted, over break,
\* continue, exceptions and the scopes of inner statements.
ControlIsTainted ==
    \A i \in DOMAIN frames :
        LET f == Fetched(frames[i]) IN Controlled(f) => ScopeTainted(f)

\* An operand that depends on a secret is tainted itself or by the mark.
OperandsKeepTaint ==
    \A i \in DOMAIN frames :
        LET f == frames[i]
        IN  \A j \in DOMAIN f.stack :
                f.stack[j].secret => f.stack[j].tainted \/ (f.mark # NoMark /\ j >= f.mark)

\* A variable or an argument that depends on a secret is tainted itself or
\* belongs to a call that is tainted as a whole.
SlotsKeepTaint ==
    \A i \in DOMAIN frames :
        \A s \in Slots :
            frames[i].slots[s].secret => frames[i].slots[s].tainted \/ frames[i].scopes[1].istainted

ExceptionKeepsTaint == exception.secret => exception.tainted

\* No value that depends on a secret loses its taint on its way through
\* operands, variables, calls, results and exceptions.
TaintIsKept == OperandsKeepTaint /\ SlotsKeepTaint /\ ExceptionKeepsTaint

\* Except in a frame that waits for js_Invoke, a scope counts as tainted if and
\* only if it or one before it was opened by a tainted instruction: what a call
\* sets for its time is set back, also when the call ends with an exception.
FlagsAreRestored ==
    \A i \in DOMAIN frames :
        (i = Len(frames) \/ Inlined(i + 1)) =>
            LET scopes == frames[i].scopes
            IN  \A k \in DOMAIN scopes :
                    (scopes[k].istainted \/ scopes[k].prev) <=> \E j \in 1..k : scopes[j].opened

\* Where no tainted value came in, nothing is tainted.
PlainRunsStayPlain ==
    ~source =>
        /\ ~exception.tainted
        /\ \A i \in DOMAIN frames :
             LET f == frames[i]
             IN  /\ f.mark = NoMark /\ ~f.rval.tainted
                 /\ \A j \in DOMAIN f.stack : ~f.stack[j].tainted
                 /\ \A s \in Slots : ~f.slots[s].tainted
                 /\ \A k \in DOMAIN f.scopes : ~f.scopes[k].istainted /\ ~f.scopes[k].prev
=============================================================================
