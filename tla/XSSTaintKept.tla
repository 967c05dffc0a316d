---------------------------- MODULE XSSTaintKept ----------------------------
(***************************************************************************)
(* Why the interpreter of XSSTaintScopes keeps the taint of what depends   *)
(* on a secret, and where it loses it.  A scope is opened tainted because  *)
(* the operand of its condition is tainted or above the mark, and an       *)
(* operand that a body computes is above the mark because the scope is     *)
(* tainted: Keeping is the invariant of both.                              *)
(*                                                                         *)
(* It holds until a step of one of three kinds (Loses), in which the       *)
(* engine looks at less than it would have to.  lost remembers whether     *)
(* there has been one; programs that make them are not left out.           *)
(* NestingAssumption is what the emitter gives: the body of a condition    *)
(* lies in the scope of its instruction, and the cases of a switch are     *)
(* behind it and nowhere else.                                             *)
(***************************************************************************)
EXTENDS XSSTaintScopesInv

Body(code, t) == <<t + code[t].body[1], t + code[t].body[2]>>
Inside(o, c) == c[1] <= o /\ o < c[2]

Deciding == {"ifeq", "ifne", "or", "and", "condswitch", "tableswitch", "lookupswitch", "enterwith"}
LongOps == {"uint16", "name", "getvar", "forvar", "getprop", "getter", "setter", "setvar",
            "initcatchvar", "call", "eval", "setsp"}

\* Where the instruction at pc goes on, if it does not fail.
Flow(code, shape, pc) ==
    LET c == code[pc]
    IN  CASE c.op \in {"goto", "default", "gosub"}     -> {pc + c.jump}
          [] c.op = "retsub" -> {o + JumpLength : o \in shape[pc][Len(shape[pc])]}
          [] c.op \in {"tableswitch", "lookupswitch"}  -> {pc + k : k \in c.cases}
          [] c.op \in {"ifeq", "ifne", "or", "and", "case"} -> {pc + JumpLength, pc + c.jump}
          [] c.op \in LongOps                          -> {pc + JumpLength}
          [] OTHER                                     -> {pc + 1}

\* The instruction at pc belongs to the cases of the switch at q.
InCases(code, q, pc) ==
    q < pc /\ code[q].op = "condswitch" /\ \A r \in q + 1..pc - 1 : code[r].op # "default"

WellNested(code, shape, pc) ==
    LET c == code[pc]
    IN  /\ c.op \in Deciding =>
               /\ Min({pc, ScopeEnd(code, pc)}) <= Body(code, pc)[1]
               /\ Body(code, pc)[2] <= Max({pc, ScopeEnd(code, pc)})
        /\ c.op = "case" =>
               \E q \in DOMAIN code : /\ InCases(code, q, pc)
                                      /\ pc <= Body(code, pc)[1]
                                      /\ Body(code, pc)[2] <= q + code[q].note
        /\ \A q \in DOMAIN code : code[q].op = "condswitch" =>
               /\ InCases(code, q, pc) => pc < q + code[q].note /\ c.op # "condswitch"
               /\ \A to \in Flow(code, shape, pc) :
                      InCases(code, q, to) => InCases(code, q, pc) \/ q = pc
               /\ c.catch # 0 => ~InCases(code, q, pc + c.catch)

ASSUME NestingAssumption ==
    \A p \in Programs : \A f \in DOMAIN p :
        LET code  == p[f].code
            shape == Shape(code)
        IN  \A pc \in DOMAIN shape \cap DOMAIN code : WellNested(code, shape, pc)
-----------------------------------------------------------------------------
VARIABLE lost   \* history: whether a step has lost taint

kvars == <<vars, lost>>

Marks(mark, j) == mark # NoMark /\ j >= mark

\* v depends on a secret and is not tainted itself.
Loose(v) == v.secret /\ ~v.tainted

\* An eval whose source depends on a secret, in a frame whose scope and stack are
\* plain: js_Execute taints nothing for the sake of the source.
LosesSource ==
    /\ Executing({"eval"})
    /\ LET f == Fetched(Top) IN Operand(f, 1).secret /\ ~Output(f, {})

\* The value of the RETURN or RETRVAL that the running frame executes.
ReturnValue ==
    LET f == Fetched(Top)
        v == IF Code(f)[f.pc].op = "return" THEN Operand(f, 1) ELSE f.rval
    IN  Value(v.tainted, Depends(f, {v}))

\* RETURN through js_Invoke of a value that is not tainted itself, where the taint of
\* the scope and the stack would have to be added, to a caller that is plain.
LosesResult ==
    /\ Executing({"return", "retrval"}) /\ Len(frames) > 1
    /\ Calling \in {"getter", "setter"} \/ ~Inlined(Len(frames))
    /\ Loose(ReturnValue) /\ ~Caller.output

\* An inlined call ends without RETURN: what counts is the output of its last
\* instruction, and the caller's mark, if it is below the function.
LosesAtEnd ==
    /\ Len(frames) > 1 /\ Calling = "call" /\ Inlined(Len(frames))
    /\ IF throwing THEN Code(Top)[Top.pc].catch = 0 ELSE Top.pc \notin DOMAIN Code(Top)
    /\ Loose(Top.rval) /\ ~Top.output
    /\ ~Marks(Caller.mark, Len(Caller.stack) - 2)

Loses == LosesSource \/ LosesResult \/ LosesAtEnd

\* The interpreter with the history variable, which restrains none of its steps.
KInit == Init /\ lost = FALSE
Counted == lost' = (lost \/ Loses)
KNext ==
    \/ (PushConstant /\ Counted) \/ (GetSlot /\ Counted) \/ (GetProperty /\ Counted)
    \/ (SetSlot /\ Counted) \/ (NewEqual /\ Counted) \/ (Plainly /\ Counted) \/ (Goto /\ Counted)
    \/ (Branch /\ Counted) \/ (GoSub /\ Counted) \/ (RetSub /\ Counted) \/ (SetResult /\ Counted)
    \/ (SwitchBegins /\ Counted) \/ (Case /\ Counted) \/ (SwitchJumps /\ Counted)
    \/ (ToObject /\ Counted) \/ (ForVar /\ Counted) \/ (EnterWith /\ Counted) \/ (NewInit /\ Counted)
    \/ (PushException /\ Counted) \/ (InitCatchVar /\ Counted) \/ (Throwing /\ Counted)
    \/ (CallInline /\ Counted) \/ (CallInvoke /\ Counted) \/ (EvalCode /\ Counted)
    \/ (CallGetter /\ Counted) \/ (CallSetter /\ Counted) \/ (Returning /\ Counted)
    \/ (FallOff /\ Counted) \/ (Catching /\ Counted) \/ (Unwind /\ Counted) \/ (Done /\ Counted)
KSpec == KInit /\ [][KNext]_kvars

\* Until a step loses taint, the body of a condition on a secret runs in a tainted
\* scope, in the frame of the condition and in those called from the body.
ControlStaysTainted == lost \/ ControlIsTainted

\* Until a step loses taint, no value that depends on a secret is found without
\* taint: as an operand, in a variable, as an argument, result or exception.
ValuesStayTainted == lost \/ TaintIsKept

\* A function that ends without RETURN hands on the output of its last instruction,
\* which may be plain although a secret decided about the call: the caller's mark was
\* set when it pushed the function, and counts for the result.
NothingLostAtEnd == ~LosesAtEnd
-----------------------------------------------------------------------------
\* In the cases of a switch the innermost scope of a switch is its own.
InOwnSwitch(code, f) ==
    \A q \in DOMAIN code : InCases(code, q, f.pc) =>
        \E k \in DOMAIN f.scopes :
            /\ f.scopes[k].op = "condswitch"
            /\ f.scopes[k].from <= q /\ q + code[q].note <= f.scopes[k].to
            /\ \A i \in k + 1..Len(f.scopes) : f.scopes[i].op # "condswitch"

\* A frame in front of an instruction.
Prepared(p, f) == InOwnSwitch(CodeOf(p, f), f)

\* Every control of the frame belongs to a scope that was opened tainted.
Enclosed(code, f) ==
    \A c \in f.controls :
        /\ \E t \in DOMAIN code : c = Body(code, t)
        /\ \E k \in DOMAIN f.scopes :
               f.scopes[k].opened /\ f.scopes[k].from <= c[1] /\ c[2] <= f.scopes[k].to

Guarded(p, f) ==
    /\ ~f.scopes[1].prev
    /\ f.inherited => f.scopes[1].opened /\ f.rval.secret
    /\ Enclosed(CodeOf(p, f), f)
    /\ \A j \in DOMAIN f.stack : Loose(f.stack[j]) => Marks(f.mark, j)
    /\ \A s \in Slots : Loose(f.slots[s]) => f.scopes[1].opened
    /\ Loose(f.rval) => f.inherited

\* What the frame f that waits for g has ready for its result.
Awaits(p, f, g) ==
    LET op == CodeOf(p, f)[f.pc].op
    IN  /\ Controlled(f) => g.inherited
        /\ op = "getter" => (Operand(f, 1).secret => f.output)
        /\ (op = "call" => p[g.name].heavy) /\ g.scopes[1].opened => f.output
        /\ op = "eval" => \A s \in Slots : Loose(g.slots[s]) => Loose(f.slots[s])
        /\ Lends(p, f, g) => ((\E k \in DOMAIN f.scopes : f.scopes[k].opened) => ScopeTainted(f))

\* The catch block of a frame with an exception is not among the cases of a switch.
Recoverable(p, f) ==
    LET code == CodeOf(p, f)
        to   == f.pc + code[f.pc].catch
    IN  to # f.pc => \A q \in DOMAIN code : ~InCases(code, q, to)

Keeping ==
    /\ ~Loose(exception)
    /\ \A i \in DOMAIN frames : Guarded(program, frames[i])
    /\ \A i \in 1..Len(frames) - 1 : /\ Prepared(program, frames[i])
                                     /\ Awaits(program, frames[i], frames[i + 1])
    /\ frames # <<>> /\ ~throwing => Prepared(program, Top)
    /\ throwing => Recoverable(program, Top)

KeepingUntilLost == lost \/ Keeping
=============================================================================
