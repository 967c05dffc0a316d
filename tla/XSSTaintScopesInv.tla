------------------------- MODULE XSSTaintScopesInv -------------------------
(***************************************************************************)
(* Why the interpreter of XSSTaintScopes never reads an operand that is not *)
(* there: the emitter counts the depth of the operand stack with every     *)
(* instruction (UpdateDepth in jsemit.c, from the numbers of operands in   *)
(* jsopcode.tbl), so whatever way an instruction is reached, the stack has *)
(* the same shape.  The shape of an instruction tells for each operand     *)
(* which instructions may have pushed it.                                  *)
(*                                                                         *)
(* ShapeAssumption states that for the code of the programs, the           *)
(* definitions behind it are the inductive invariants of the interpreter.  *)
(***************************************************************************)
EXTENDS XSSTaintScopes

CONSTANT Shape(_)   \* the shape of each instruction of a code that is reached, and
                    \* of the end of the code

\* The instruction at pc pops n operands, goes on at to, and pushes m, one or none.
Goes(shape, pc, to, n, m) ==
    LET rest == Len(shape[pc]) - n
    IN  /\ to \in DOMAIN shape
        /\ rest >= 0
        /\ Len(shape[to]) = rest + m
        /\ \A j \in 1..rest : shape[pc][j] \subseteq shape[to][j]
        /\ m = 1 => pc \in shape[to][rest + 1]

\* The instruction at pc may end in an exception when n operands are popped: the
\* catch block starts with a SETSP that finds the operands it keeps.
Catches(code, shape, pc, n) ==
    LET to == pc + code[pc].catch
    IN  code[pc].catch # 0 =>
            /\ to \in DOMAIN shape /\ to \in DOMAIN code
            /\ code[to].op = "setsp"
            /\ Len(shape[to]) <= Len(shape[pc]) - n
            /\ \A j \in 1..Len(shape[to]) : shape[pc][j] \subseteq shape[to][j]

Calls == {"call", "eval", "getter", "setter"}

\* Each instruction finds its operands and leaves the next ones theirs.
Balanced(code, shape, pc) ==
    LET c == code[pc]
    IN  /\ c.op \in {"uint16", "name", "getvar", "forvar"} => Goes(shape, pc, pc + JumpLength, 0, 1)
        /\ c.op \in {"pushobj", "push", "exception"}       => Goes(shape, pc, pc + 1, 0, 1)
        /\ c.op \in {"getprop", "getter", "setvar"}        => Goes(shape, pc, pc + JumpLength, 1, 1)
        /\ c.op \in {"toobject", "enterwith"}              => Goes(shape, pc, pc + 1, 1, 1)
        /\ c.op \in {"new_eq", "newinit"}                  => Goes(shape, pc, pc + 1, 2, 1)
        /\ c.op \in {"initcatchvar", "setter"}             => Goes(shape, pc, pc + JumpLength, 2, 1)
        /\ c.op \in {"call", "eval"}                       => Goes(shape, pc, pc + JumpLength, 3, 1)
        /\ c.op \in {"pop", "leavewith", "setrval", "popv"} => Goes(shape, pc, pc + 1, 1, 0)
        /\ c.op = "pop2"                                   => Goes(shape, pc, pc + 1, 2, 0)
        /\ c.op \in {"nop", "try", "finally"}              => Goes(shape, pc, pc + 1, 0, 0)
        /\ c.op \in {"condswitch", "forvar"}               => Len(shape[pc]) > 0
        /\ c.op = "condswitch"                             => Goes(shape, pc, pc + 1, 0, 0)
        /\ c.op = "setsp"      => c.note = Len(shape[pc]) /\ Goes(shape, pc, pc + JumpLength, 0, 0)
        /\ c.op = "goto"       => Goes(shape, pc, pc + c.jump, 0, 0)
        /\ c.op = "default"    => Goes(shape, pc, pc + c.jump, 1, 0)
        /\ c.op = "gosub"      => Goes(shape, pc, pc + c.jump, 0, 1)
        /\ c.op = "retsub"     =>
               /\ Len(shape[pc]) > 0
               /\ \A o \in shape[pc][Len(shape[pc])] :
                      code[o].op = "gosub" /\ Goes(shape, pc, o + JumpLength, 1, 0)
        /\ c.op \in {"ifeq", "ifne", "or", "and"} => Goes(shape, pc, pc + JumpLength, 1, 0)
        /\ c.op \in {"ifeq", "ifne"} => Goes(shape, pc, pc + c.jump, 1, 0)
        /\ c.op \in {"or", "and"}    => Goes(shape, pc, pc + c.jump, 1, 1)
        /\ c.op = "ifeq"             => pc + c.jump - JumpLength \in DOMAIN code
        /\ c.op = "case" =>
               Goes(shape, pc, pc + c.jump, 2, 0) /\ Goes(shape, pc, pc + JumpLength, 2, 1)
        /\ c.op \in {"tableswitch", "lookupswitch"} =>
               Len(shape[pc]) > 0 /\ \A k \in c.cases : Goes(shape, pc, pc + k, 1, 0)
        /\ c.op \in {"throw", "return"}   => Len(shape[pc]) > 0
        /\ c.op = "throw"                 => Catches(code, shape, pc, 1)
        /\ c.op \in {"call", "eval"}      => Catches(code, shape, pc, 3)
        /\ c.op \in {"getter", "setter"}  => Catches(code, shape, pc, 0)

\* The scripts and the variables that an instruction names exist, and what is
\* handed to a function is a value.
Linked(p, code, shape, pc) ==
    LET c == code[pc]
    IN  /\ c.op \in {"getvar", "setvar", "forvar"} => c.arg \in Slots
        /\ c.op \in Calls  => c.arg \in DOMAIN p
        /\ c.op = "eval"   => p[c.arg].heavy
        /\ c.op \in {"call", "eval"} =>
               \A o \in shape[pc][Len(shape[pc])] : code[o].op # "gosub"

Cells == [op : STRING, arg : STRING, jump : Int, cases : SUBSET Int, note : Int, catch : Int,
          body : Int \X Int]

WellFormed(p, code, shape) ==
    /\ code \in Seq(Cells)
    /\ DOMAIN shape \subseteq 1..Len(code) + 1
    /\ \A pc \in DOMAIN shape : shape[pc] \in Seq(SUBSET DOMAIN code)
    /\ 1 \in DOMAIN shape /\ shape[1] = <<>>
    /\ \A pc \in DOMAIN shape \cap DOMAIN code :
           Balanced(code, shape, pc) /\ Linked(p, code, shape, pc)

ASSUME ShapeAssumption ==
    \A p \in Programs : \A f \in DOMAIN p :
        LET code  == p[f].code
            shape == Shape(code)
        IN  WellFormed(p, code, shape)
-----------------------------------------------------------------------------
\* The types of frames and scopes, beside Values and OnStack.  A scope has the
\* opcode of a cell, the root scope the one of a call.
Scopes == {s \in [istainted : BOOLEAN, prev : BOOLEAN, opened : BOOLEAN,
                  op : STRING \cup {"call"}, from : Int, to : Int] : s.from <= s.to}

Frames(names) ==
    [name : names, pc : Nat, stack : Seq(OnStack), mark : Nat, scopes : Seq(Scopes),
     slots : [Slots -> Values], rval : Values, output : BOOLEAN, saved : BOOLEAN,
     controls : SUBSET (Int \X Int), inherited : BOOLEAN]

Rooted(f) == f.scopes # <<>> /\ f.scopes[1].op = "call"

CodeOf(p, f) == p[f.name].code
ShapeOf(p, f) == Shape(CodeOf(p, f))

\* v may have been pushed by one of the instructions in by.
PushedBy(code, v, by) ==
    \E o \in by : IF code[o].op = "gosub" THEN v = ReturnAddress(o + JumpLength) ELSE v \in Values

\* The operands of a shape are on the stack, maybe with others above them.
Fits(code, stack, shape) ==
    Len(stack) >= Len(shape) /\ \A j \in 1..Len(shape) : PushedBy(code, stack[j], shape[j])

\* The stack of a frame in front of an instruction.  Only at a catch block there
\* may be more than its shape.
Ready(p, f) ==
    LET code  == CodeOf(p, f)
        shape == ShapeOf(p, f)
    IN  /\ f.pc \in DOMAIN shape
        /\ Fits(code, f.stack, shape[f.pc])
        /\ Len(f.stack) = Len(shape[f.pc]) \/ (f.pc \in DOMAIN code /\ code[f.pc].op = "setsp")

\* The frame f waits for the call of g.
Waits(p, f, g) ==
    LET code == CodeOf(p, f)
    IN  Ready(p, f) /\ f.pc \in DOMAIN code /\ code[f.pc].op \in Calls /\ code[f.pc].arg = g.name

\* A frame with an exception, at the instruction that failed.
Fails(p, f) ==
    LET code  == CodeOf(p, f)
        shape == ShapeOf(p, f)
        to    == f.pc + code[f.pc].catch
    IN  /\ f.pc \in DOMAIN code
        /\ code[f.pc].catch # 0 =>
               /\ to \in DOMAIN shape /\ to \in DOMAIN code
               /\ code[to].op = "setsp" /\ Fits(code, f.stack, shape[to])

\* The inductive invariant behind the types.
Structure ==
    /\ program \in Programs /\ source \in BOOLEAN /\ throwing \in BOOLEAN
    /\ exception \in Values
    /\ frames \in Seq(Frames(DOMAIN program))
    /\ \A i \in DOMAIN frames : Rooted(frames[i])
    /\ \A i \in 1..Len(frames) - 1 : Waits(program, frames[i], frames[i + 1])
    /\ frames # <<>> /\ ~throwing => Ready(program, Top)
    /\ throwing => frames # <<>> /\ Fails(program, Top)

\* Scope k counts as tainted if and only if it or one before it was opened so.
FlagAt(scopes, k) ==
    (scopes[k].istainted \/ scopes[k].prev) <=> \E j \in 1..k : scopes[j].opened

Flagged(f) == \A k \in DOMAIN f.scopes : FlagAt(f.scopes, k)

\* In a frame that waits for js_Invoke, saved holds what the flag of its last scope
\* says otherwise.
FlaggedLent(f) ==
    LET last == Len(f.scopes)
    IN  /\ \A k \in 1..last - 1 : FlagAt(f.scopes, k)
        /\ f.saved <=> \E j \in 1..last : f.scopes[j].opened
        /\ f.scopes[last].prev => \E j \in 1..last : f.scopes[j].opened

Lends(p, f, g) == CodeOf(p, f)[f.pc].op \in {"call", "eval"} /\ p[g.name].heavy

\* The inductive invariant behind the flags of the scopes.
Flags ==
    \A i \in DOMAIN frames :
        IF i < Len(frames) /\ Lends(program, frames[i], frames[i + 1])
        THEN FlaggedLent(frames[i]) ELSE Flagged(frames[i])

\* Nothing in the frame is tainted.
Untainted(f) ==
    /\ f.mark = NoMark /\ ~f.rval.tainted /\ ~f.output /\ ~f.saved
    /\ \A j \in DOMAIN f.stack : ~f.stack[j].tainted
    /\ \A s \in Slots : ~f.slots[s].tainted
    /\ \A k \in DOMAIN f.scopes : ~f.scopes[k].istainted /\ ~f.scopes[k].prev

\* The inductive invariant behind runs on a plain document.
Plainness ==
    ~source => ~exception.tainted /\ \A i \in DOMAIN frames : Untainted(frames[i])
=============================================================================
