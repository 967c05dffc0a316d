------------------------- MODULE XSSTaintKeptProofs -------------------------
(***************************************************************************)
(* Theorems about XSSTaintScopes for all programs whose code has the shape *)
(* and the nesting that the emitter gives it: until a step of the three    *)
(* kinds of Loses, what runs because of a secret runs in a tainted scope,  *)
(* and no value loses its taint.                                           *)
(***************************************************************************)
EXTENDS XSSTaintScopesProofs, XSSTaintKept

-----------------------------------------------------------------------------
\* What the assumptions say about an instruction of a frame.
LEMMA CodeIsNested ==
    ASSUME NEW p \in Programs, NEW f, f.name \in DOMAIN p,
           NEW pc \in DOMAIN ShapeOf(p, f) \cap DOMAIN CodeOf(p, f)
    PROVE  WellNested(CodeOf(p, f), ShapeOf(p, f), pc)
BY NestingAssumption DEF CodeOf, ShapeOf

\* The fetch keeps every scope that holds the program counter, and the ones below.
LEMMA FetchedScopes ==
    ASSUME NEW names, NEW f \in Frames(names), Rooted(f), NEW g, g = Fetched(f)
    PROVE  /\ g.controls = {c \in f.controls : Inside(f.pc, c)}
           /\ \E kept \in 1..Len(f.scopes) :
                 /\ g.scopes = SubSeq(f.scopes, 1, kept)
                 /\ \A i \in DOMAIN f.scopes : Within(f.pc, f.scopes[i]) => i <= kept
<1> DEFINE S == {1} \cup {i \in DOMAIN f.scopes : Within(f.pc, f.scopes[i])}
           kept == Max(S)
           some == SubSeq(f.scopes, 1, kept)
           mark == IF Len(f.stack) < f.mark THEN NoMark ELSE f.mark
           live == {c \in f.controls : c[1] <= f.pc /\ f.pc < c[2]}
<1>1. f.scopes \in Seq(Scopes) /\ Len(f.scopes) \in Nat /\ Len(f.scopes) >= 1
  BY DEF Frames, Rooted
<1>2. S \in SUBSET (1..Len(f.scopes)) /\ S # {}
  BY <1>1
<1>3. kept \in 1..Len(f.scopes) /\ \A i \in S : kept >= i
  BY <1>1, <1>2, Greatest
<1>4. g = [f EXCEPT !.scopes = some, !.mark = mark, !.controls = live]
  BY DEF Fetched
<1>5. live = {c \in f.controls : Inside(f.pc, c)}
  BY DEF Inside
<1>6. \A i \in DOMAIN f.scopes : Within(f.pc, f.scopes[i]) => i <= kept
  <2> SUFFICES ASSUME NEW i \in DOMAIN f.scopes, Within(f.pc, f.scopes[i]) PROVE i <= kept
    OBVIOUS
  <2>1. i \in S
    OBVIOUS
  <2> HIDE DEF kept, S
  <2> QED
    BY <1>1, <1>3, <2>1
<1> HIDE DEF some, mark, live, kept, S
<1>7. g.scopes = some /\ g.controls = live
  BY <1>4 DEF Frames
<1> QED
  BY <1>3, <1>5, <1>6, <1>7 DEF some

\* The bodies of a code and the counters of its instructions are integers.
LEMMA BodyType ==
    ASSUME NEW p \in Programs, NEW f, f.name \in DOMAIN p, NEW t \in DOMAIN CodeOf(p, f)
    PROVE  /\ t \in Nat /\ t >= 1 /\ CodeOf(p, f)[t] \in Cells
           /\ Body(CodeOf(p, f), t)[1] \in Int /\ Body(CodeOf(p, f), t)[2] \in Int
           /\ Body(CodeOf(p, f), t) = <<t + CodeOf(p, f)[t].body[1], t + CodeOf(p, f)[t].body[2]>>
<1> DEFINE code == CodeOf(p, f)
<1>1. code \in Seq(Cells)
  BY CodeIsBalanced DEF WellFormed
<1> HIDE DEF code
<1>2. t \in Nat /\ t >= 1 /\ code[t] \in Cells
  BY <1>1 DEF code
<1>3. code[t].body[1] \in Int /\ code[t].body[2] \in Int
  BY <1>2 DEF Cells
<1>4. t + code[t].body[1] \in Int /\ t + code[t].body[2] \in Int
  BY <1>2, <1>3
<1> QED
  BY <1>2, <1>4 DEF Body, code

-----------------------------------------------------------------------------
\* A frame behind the fetch: only bodies that hold the instruction are controls.
Fetching(p, f) ==
    /\ Guarded(p, f) /\ Prepared(p, f)
    /\ \A c \in f.controls : Inside(f.pc, c)

LEMMA FetchedKeeps ==
    ASSUME NEW p \in Programs, NEW f \in Frames(DOMAIN p), Rooted(f), Ready(p, f),
           f.pc \in DOMAIN CodeOf(p, f), Guarded(p, f), Prepared(p, f), NEW g, g = Fetched(f)
    PROVE  Fetching(p, g)
<1> DEFINE code == CodeOf(p, f)
           shape == ShapeOf(p, f)
<1>1. /\ g.name = f.name /\ g.pc = f.pc /\ g.stack = f.stack /\ g.slots = f.slots
      /\ g.rval = f.rval /\ g.inherited = f.inherited
      /\ g.mark = IF Len(f.stack) < f.mark THEN NoMark ELSE f.mark
      /\ f.stack \in Seq(OnStack) /\ f.mark \in Nat /\ f.scopes \in Seq(Scopes)
      /\ f.pc \in Nat /\ f.name \in DOMAIN p /\ f.controls \in SUBSET (Int \X Int)
  <2>1. /\ f.stack \in Seq(OnStack) /\ f.mark \in Nat /\ f.scopes \in Seq(Scopes)
        /\ f.pc \in Nat /\ f.name \in DOMAIN p /\ f.controls \in SUBSET (Int \X Int)
    BY DEF Frames
  <2> HIDE DEF code, shape
  <2> QED
    BY <2>1, FetchedFrame
<1>2. PICK kept \in 1..Len(f.scopes) :
         /\ g.scopes = SubSeq(f.scopes, 1, kept)
         /\ \A i \in DOMAIN f.scopes : Within(f.pc, f.scopes[i]) => i <= kept
  BY FetchedScopes
<1>3. g.controls = {c \in f.controls : Inside(f.pc, c)}
  BY FetchedScopes
<1>4. CodeOf(p, g) = code /\ ShapeOf(p, g) = shape
  BY <1>1 DEF CodeOf, ShapeOf
<1>5. /\ DOMAIN g.scopes = 1..kept /\ 1 \in 1..kept /\ DOMAIN f.scopes = 1..Len(f.scopes)
      /\ \A k \in 1..kept : g.scopes[k] = f.scopes[k] /\ k \in 1..Len(f.scopes)
      /\ \A k \in 1..Len(f.scopes) : k <= kept => k \in 1..kept
      /\ Len(g.scopes) = kept /\ Len(f.scopes) \in Nat /\ kept \in Nat /\ kept <= Len(f.scopes)
  BY <1>1, <1>2
<1>6. \A k \in 1..Len(f.scopes) : f.scopes[k].from \in Int /\ f.scopes[k].to \in Int
  BY <1>1 DEF Scopes
<1>7. WellNested(code, shape, f.pc)
  <2>1. f.pc \in DOMAIN shape \cap DOMAIN code
    BY DEF Ready
  <2> QED
    BY <1>1, <2>1, CodeIsNested
<1>9. InOwnSwitch(code, g)
  <2> SUFFICES ASSUME NEW q \in DOMAIN code, InCases(code, q, f.pc)
               PROVE  \E k \in DOMAIN g.scopes :
                          /\ g.scopes[k].op = "condswitch"
                          /\ g.scopes[k].from <= q /\ q + code[q].note <= g.scopes[k].to
                          /\ \A i \in k + 1..Len(g.scopes) : g.scopes[i].op # "condswitch"
    BY <1>1 DEF InOwnSwitch
  <2>1. PICK k \in DOMAIN f.scopes :
          /\ f.scopes[k].op = "condswitch"
          /\ f.scopes[k].from <= q /\ q + code[q].note <= f.scopes[k].to
          /\ \A i \in k + 1..Len(f.scopes) : f.scopes[i].op # "condswitch"
    BY DEF Prepared, InOwnSwitch
  <2>2. q < f.pc /\ f.pc < q + code[q].note
    BY <1>7 DEF WellNested, InCases
  <2>3. q \in Int /\ code[q].note \in Int
    BY <1>1, BodyType DEF Cells
  <2> HIDE DEF code, shape
  <2>4. Within(f.pc, f.scopes[k])
    BY <1>1, <1>5, <1>6, <2>1, <2>2, <2>3, SMTT(30) DEF Within
  <2>5. k \in 1..kept
    BY <1>2, <1>5, <2>4
  <2>6. \A i \in k + 1..kept : i \in k + 1..Len(f.scopes) /\ i \in 1..kept
    BY <1>5, <2>5
  <2> QED
    BY <1>5, <2>1, <2>5, <2>6, SMTT(30)
<1>10. Enclosed(code, g)
  <2> SUFFICES ASSUME NEW c \in f.controls, Inside(f.pc, c)
               PROVE  /\ \E t \in DOMAIN code : c = Body(code, t)
                      /\ \E k \in DOMAIN g.scopes :
                            g.scopes[k].opened /\ g.scopes[k].from <= c[1] /\ c[2] <= g.scopes[k].to
    BY <1>3 DEF Enclosed
  <2>1. \E t \in DOMAIN code : c = Body(code, t)
    BY DEF Guarded, Enclosed
  <2>2. PICK k \in DOMAIN f.scopes :
            f.scopes[k].opened /\ f.scopes[k].from <= c[1] /\ c[2] <= f.scopes[k].to
    BY DEF Guarded, Enclosed
  <2>3. c[1] \in Int /\ c[2] \in Int
    BY <1>1
  <2>4. Within(f.pc, f.scopes[k])
    BY <1>1, <1>5, <1>6, <2>2, <2>3, SMTT(30) DEF Within, Inside
  <2>5. k \in 1..kept
    BY <1>2, <1>5, <2>4
  <2> QED
    BY <1>5, <2>1, <2>2, <2>5
<1>11. \A j \in DOMAIN g.stack : Loose(g.stack[j]) => Marks(g.mark, j)
  <2> SUFFICES ASSUME NEW j \in 1..Len(f.stack), Loose(f.stack[j]) PROVE Marks(g.mark, j)
    BY <1>1
  <2>1. Marks(f.mark, j)
    BY <1>1 DEF Guarded
  <2> QED
    BY <1>1, <2>1 DEF Marks, NoMark
<1> HIDE DEF code, shape
<1>12. Guarded(p, g)
  BY <1>1, <1>4, <1>5, <1>10, <1>11 DEF Guarded, code
<1> QED
  BY <1>1, <1>3, <1>4, <1>9, <1>12 DEF Fetching, Prepared

-----------------------------------------------------------------------------
\* What depends on a secret is seen when the taint of an instruction is calculated.
LEMMA OpenedTaints ==
    ASSUME NEW f, f.scopes \in Seq(Scopes), Rooted(f), Flagged(f),
           NEW k \in DOMAIN f.scopes, f.scopes[k].opened
    PROVE  ScopeTainted(f)
<1> DEFINE n == Len(f.scopes)
<1>1. n \in DOMAIN f.scopes /\ k \in 1..n
  BY DEF Rooted
<1>2. FlagAt(f.scopes, n)
  BY <1>1 DEF Flagged
<1> QED
  BY <1>1, <1>2 DEF FlagAt, ScopeTainted, Scope

LEMMA ControlTaints ==
    ASSUME NEW p, NEW s, NEW f, Sound(p, s, f), Guarded(p, f), Controlled(f)
    PROVE  ScopeTainted(f)
<1>1. f.scopes \in Seq(Scopes) /\ Rooted(f) /\ Flagged(f)
  BY DEF Sound, Frames
<1>2. 1 \in DOMAIN f.scopes
  BY <1>1 DEF Rooted
<1>3. \E k \in DOMAIN f.scopes : f.scopes[k].opened
  BY <1>2 DEF Guarded, Controlled, Enclosed
<1> QED
  BY <1>1, <1>3, OpenedTaints

LEMMA MarkedTaints ==
    ASSUME NEW p, NEW f \in Frames(p), NEW j \in 1..Len(f.stack), Marks(f.mark, j)
    PROVE  StackTainted(f)
<1>1. f.mark \in Nat /\ Len(f.stack) \in Nat
  BY DEF Frames
<1> QED
  BY <1>1 DEF Marks, StackTainted

\* An operand that depends on a secret and is not tainted is above the mark.
LEMMA OperandIsSeen ==
    ASSUME NEW p, NEW f \in Frames(DOMAIN p), Guarded(p, f),
           NEW k \in Nat, Len(f.stack) + 1 - k \in 1..Len(f.stack), Loose(Operand(f, k))
    PROVE  StackTainted(f)
<1> DEFINE j == Len(f.stack) + 1 - k
<1>1. j \in DOMAIN f.stack /\ Loose(f.stack[j]) /\ j \in 1..Len(f.stack)
  BY DEF Frames, Operand
<1> HIDE DEF j
<1>2. Marks(f.mark, j)
  BY <1>1 DEF Guarded
<1> QED
  BY <1>1, <1>2, MarkedTaints

LEMMA SecretIsSeen ==
    ASSUME NEW p, NEW s, NEW f, Sound(p, s, f), Guarded(p, f),
           NEW used, \A v \in used : Loose(v) => StackTainted(f), Depends(f, used)
    PROVE  Output(f, used)
<1>1. Controlled(f) => ScopeTainted(f)
  BY ControlTaints
<1> QED
  BY <1>1 DEF Depends, Output, Loose

-----------------------------------------------------------------------------
\* What the frame f and the frame g that the instruction of f makes of it have in
\* common: the scopes of f are as they were opened, new scopes and new controls
\* belong to the instruction, and neither a variable nor the result lost its taint.
Continues(code, f, g) ==
    /\ g.name = f.name /\ g.inherited = f.inherited
    /\ \A k \in DOMAIN f.scopes :
           /\ k \in DOMAIN g.scopes
           /\ g.scopes[k].op = f.scopes[k].op /\ g.scopes[k].prev = f.scopes[k].prev
           /\ g.scopes[k].from = f.scopes[k].from /\ g.scopes[k].to = f.scopes[k].to
           /\ g.scopes[k].opened = f.scopes[k].opened
    /\ \A k \in DOMAIN g.scopes : k \in DOMAIN f.scopes \/ g.scopes[k].op = code[f.pc].op
    /\ \A c \in g.controls :
           \/ c \in f.controls
           \/ /\ c = Body(code, f.pc)
              /\ \E k \in DOMAIN g.scopes :
                     g.scopes[k].opened /\ g.scopes[k].from <= c[1] /\ c[2] <= g.scopes[k].to
    /\ \A s \in Slots : Loose(g.slots[s]) => Loose(f.slots[s])
    /\ Loose(g.rval) => Loose(f.rval)
    /\ f.inherited /\ f.rval.secret => g.rval.secret

LEMMA GuardedNext ==
    ASSUME NEW p, NEW f, 1 \in DOMAIN f.scopes, Guarded(p, f), f.pc \in DOMAIN CodeOf(p, f),
           NEW g, Continues(CodeOf(p, f), f, g),
           \A j \in DOMAIN g.stack : Loose(g.stack[j]) => Marks(g.mark, j)
    PROVE  Guarded(p, g) /\ g.scopes[1].opened = f.scopes[1].opened
<1> DEFINE code == CodeOf(p, f)
<1>1. CodeOf(p, g) = code
  BY DEF Continues, CodeOf
<1>2. Continues(code, f, g) /\ f.pc \in DOMAIN code /\ Enclosed(code, f)
  BY DEF Guarded
<1> HIDE DEF code
<1>3. g.scopes[1].opened = f.scopes[1].opened /\ g.scopes[1].prev = f.scopes[1].prev
  BY <1>2 DEF Continues
<1>4. Enclosed(code, g)
  <2> SUFFICES ASSUME NEW c \in g.controls
               PROVE  /\ \E t \in DOMAIN code : c = Body(code, t)
                      /\ \E k \in DOMAIN g.scopes :
                            g.scopes[k].opened /\ g.scopes[k].from <= c[1] /\ c[2] <= g.scopes[k].to
    BY DEF Enclosed
  <2>1. CASE c \in f.controls
    <3>1. \E t \in DOMAIN code : c = Body(code, t)
      BY <1>2, <2>1 DEF Enclosed
    <3>2. PICK k \in DOMAIN f.scopes :
              f.scopes[k].opened /\ f.scopes[k].from <= c[1] /\ c[2] <= f.scopes[k].to
      BY <1>2, <2>1 DEF Enclosed
    <3>3. /\ k \in DOMAIN g.scopes /\ g.scopes[k].from = f.scopes[k].from
          /\ g.scopes[k].to = f.scopes[k].to /\ g.scopes[k].opened = f.scopes[k].opened
      BY <1>2 DEF Continues
    <3> QED
      BY <3>1, <3>2, <3>3
  <2>2. CASE c \notin f.controls
    BY <1>2, <2>2 DEF Continues
  <2> QED
    BY <2>1, <2>2
<1>5. /\ g.inherited => f.inherited /\ g.rval.secret
      /\ Loose(g.rval) => g.inherited
      /\ \A s \in Slots : Loose(g.slots[s]) => f.scopes[1].opened
  BY <1>2 DEF Continues, Guarded
<1>6. ~f.scopes[1].prev /\ (f.inherited => f.scopes[1].opened)
  BY DEF Guarded
<1> QED
  BY <1>1, <1>3, <1>4, <1>5, <1>6 DEF Guarded

\* Only a CONDSWITCH leads into the cases of a switch.
LEMMA FlowStays ==
    ASSUME NEW code, NEW shape, NEW pc, WellNested(code, shape, pc),
           code[pc].op # "condswitch", NEW to \in Flow(code, shape, pc)
    PROVE  \A q \in DOMAIN code : InCases(code, q, to) => InCases(code, q, pc)
<1> SUFFICES ASSUME NEW q \in DOMAIN code, InCases(code, q, to) PROVE InCases(code, q, pc)
  OBVIOUS
<1>1. InCases(code, q, pc) \/ q = pc
  BY DEF WellNested, InCases
<1>2. code[q].op = "condswitch"
  BY DEF InCases
<1> QED
  BY <1>1, <1>2

LEMMA SwitchStays ==
    ASSUME NEW code, NEW f, NEW g, InOwnSwitch(code, f), Continues(code, f, g),
           f.scopes \in Seq(Scopes), g.scopes \in Seq(Scopes), code[f.pc].op # "condswitch",
           \A q \in DOMAIN code : InCases(code, q, g.pc) => InCases(code, q, f.pc)
    PROVE  InOwnSwitch(code, g)
<1> SUFFICES ASSUME NEW q \in DOMAIN code, InCases(code, q, f.pc)
             PROVE  \E k \in DOMAIN g.scopes :
                        /\ g.scopes[k].op = "condswitch"
                        /\ g.scopes[k].from <= q /\ q + code[q].note <= g.scopes[k].to
                        /\ \A i \in k + 1..Len(g.scopes) : g.scopes[i].op # "condswitch"
  BY DEF InOwnSwitch
<1>1. PICK k \in DOMAIN f.scopes :
        /\ f.scopes[k].op = "condswitch"
        /\ f.scopes[k].from <= q /\ q + code[q].note <= f.scopes[k].to
        /\ \A i \in k + 1..Len(f.scopes) : f.scopes[i].op # "condswitch"
  BY DEF InOwnSwitch
<1>2. /\ k \in DOMAIN g.scopes /\ g.scopes[k].op = f.scopes[k].op
      /\ g.scopes[k].from = f.scopes[k].from /\ g.scopes[k].to = f.scopes[k].to
  BY DEF Continues
<1>3. ASSUME NEW i \in k + 1..Len(g.scopes) PROVE g.scopes[i].op # "condswitch"
  <2>1. i \in DOMAIN g.scopes /\ (i \in DOMAIN f.scopes => i \in k + 1..Len(f.scopes))
    OBVIOUS
  <2> QED
    BY <1>1, <2>1 DEF Continues
<1> QED
  BY <1>1, <1>2, <1>3

-----------------------------------------------------------------------------
\* What the waiting frame w has ready for f stays ready while f runs.
LEMMA AwaitsKept ==
    ASSUME NEW p, NEW w, NEW f, Awaits(p, w, f),
           NEW g, g.name = f.name, g.inherited = f.inherited,
           g.scopes[1].opened = f.scopes[1].opened,
           \A s \in Slots : Loose(g.slots[s]) => Loose(f.slots[s])
    PROVE  Awaits(p, w, g)
<1>1. Lends(p, w, g) <=> Lends(p, w, f)
  BY DEF Lends
<1> QED
  BY <1>1 DEF Awaits

\* A step after which g, made of the n-th frame, is the running one.
LEMMA FramesKeep ==
    ASSUME Inv, Keeping, NEW n \in 1..Len(frames), NEW f, f = frames[n],
           NEW g, Guarded(program, g), g.name = f.name, g.inherited = f.inherited,
           g.scopes[1].opened = f.scopes[1].opened,
           \A s \in Slots : Loose(g.slots[s]) => Loose(f.slots[s]),
           DOMAIN frames' = 1..n, Len(frames') = n, frames'[n] = g,
           \A i \in 1..n - 1 : frames'[i] = frames[i],
           program' = program, ~Loose(exception'),
           ~throwing' => Prepared(program, g), throwing' => Recoverable(program, g)
    PROVE  Keeping'
<1>1. DOMAIN frames = 1..Len(frames) /\ Len(frames) \in Nat /\ n \in Nat
  BY DEF Inv, Structure
<1>2. /\ \A i \in 1..Len(frames) : Guarded(program, frames[i])
      /\ \A i \in 1..Len(frames) - 1 : /\ Prepared(program, frames[i])
                                       /\ Awaits(program, frames[i], frames[i + 1])
  BY <1>1 DEF Keeping
<1>3. \A i \in 1..n : /\ i = n \/ i \in 1..n - 1
                      /\ i \in 1..Len(frames)
  BY <1>1
<1>4. \A i \in 1..n : Guarded(program, frames'[i])
  BY <1>2, <1>3
<1>5. ASSUME NEW i \in 1..n - 1
      PROVE  Prepared(program, frames'[i]) /\ Awaits(program, frames'[i], frames'[i + 1])
  <2>1. i \in 1..Len(frames) - 1 /\ i + 1 \in 1..n
    BY <1>1
  <2>2. Prepared(program, frames[i]) /\ Awaits(program, frames[i], frames[i + 1])
    BY <1>2, <2>1
  <2>3. CASE i + 1 = n
    <3>1. Awaits(program, frames[i], f)
      BY <2>2, <2>3
    <3>2. Awaits(program, frames[i], g)
      BY <3>1, AwaitsKept
    <3> QED
      BY <2>2, <2>3, <3>2
  <2>4. CASE i + 1 # n
    <3>1. i + 1 \in 1..n - 1
      BY <1>3, <2>1, <2>4
    <3> QED
      BY <2>2, <3>1
  <2> QED
    BY <2>3, <2>4
<1>6. Top' = g
  BY DEF Top
<1> QED
  BY <1>4, <1>5, <1>6 DEF Keeping

\* The types of a frame that is running.
LEMMA RunningTyped ==
    ASSUME NEW ops, Inv, Executing(ops), NEW f, f = Fetched(Top)
    PROVE  /\ f \in Frames(DOMAIN program) /\ Rooted(f)
           /\ f.scopes \in Seq(Scopes) /\ f.stack \in Seq(OnStack)
<1>1. Sound(program, source, f)
  BY RunningFrame
<1>2. f \in Frames(DOMAIN program) /\ Rooted(f)
  BY <1>1 DEF Sound
<1> QED
  BY <1>2 DEF Frames

\* What holds of the frame that executes an instruction.
LEMMA KeepingFrame ==
    ASSUME NEW ops, Inv, Keeping, Executing(ops), NEW f, f = Fetched(Top)
    PROVE  /\ Fetching(program, f) /\ Guarded(program, f)
           /\ InOwnSwitch(CodeOf(program, f), f)
           /\ f \in Frames(DOMAIN program) /\ 1 \in DOMAIN f.scopes
           /\ WellNested(CodeOf(program, f), ShapeOf(program, f), f.pc)
           /\ f.inherited = Top.inherited /\ f.scopes[1].opened = Top.scopes[1].opened
           /\ f.slots = Top.slots
<1>1. /\ program \in Programs /\ frames \in Seq(Frames(DOMAIN program)) /\ frames # <<>>
      /\ Len(frames) \in DOMAIN frames /\ ~throwing
      /\ Top \in Frames(DOMAIN program) /\ Rooted(Top) /\ Ready(program, Top)
  BY DEF Inv, Structure, Executing, Top
<1>2. Guarded(program, Top) /\ Prepared(program, Top)
  BY <1>1 DEF Keeping, Top
<1>3. /\ Sound(program, source, f) /\ f.name = Top.name /\ f.pc = Top.pc
      /\ f.name \in DOMAIN program
      /\ f.pc \in DOMAIN CodeOf(program, f) /\ f.pc \in DOMAIN ShapeOf(program, f)
  BY RunningFrame
<1>4. f.pc \in DOMAIN CodeOf(program, Top)
  BY <1>3 DEF CodeOf
<1>5. Fetching(program, f)
  BY <1>1, <1>2, <1>3, <1>4, FetchedKeeps
<1>6. WellNested(CodeOf(program, f), ShapeOf(program, f), f.pc)
  BY <1>1, <1>3, CodeIsNested
<1>7. f \in Frames(DOMAIN program) /\ 1 \in DOMAIN f.scopes
  BY <1>3 DEF Sound, Frames, Rooted
<1>8. f.inherited = Top.inherited /\ f.slots = Top.slots
  BY <1>1, FetchedFrame
<1>9. f.scopes[1] = Top.scopes[1]
  <2>1. Top.scopes \in Seq(Scopes)
    BY <1>1 DEF Frames
  <2>2. PICK kept \in 1..Len(Top.scopes) : f.scopes = SubSeq(Top.scopes, 1, kept)
    BY <1>1, FetchedFrame
  <2> QED
    BY <2>1, <2>2
<1> QED
  BY <1>5, <1>6, <1>7, <1>8, <1>9 DEF Fetching, Guarded, Prepared

\* An instruction that makes g of the running frame.
LEMMA InstructionKeeps ==
    ASSUME NEW ops, Inv, Keeping, Executing(ops), NEW f, f = Fetched(Top),
           NEW g, g \in Frames(DOMAIN program), Running(g),
           Continues(CodeOf(program, f), f, g),
           \A j \in DOMAIN g.stack : Loose(g.stack[j]) => Marks(g.mark, j),
           program' = program, ~Loose(exception'),
           ~throwing' => Prepared(program, g), throwing' => Recoverable(program, g)
    PROVE  Keeping'
<1> DEFINE n == Len(frames)
<1>1. /\ frames \in Seq(Frames(DOMAIN program)) /\ frames # <<>>
      /\ n \in 1..Len(frames) /\ Top = frames[n]
  BY DEF Inv, Structure, Executing, Top
<1>2. /\ Guarded(program, f) /\ 1 \in DOMAIN f.scopes
      /\ f.inherited = Top.inherited /\ f.scopes[1].opened = Top.scopes[1].opened
      /\ f.slots = Top.slots
  BY KeepingFrame
<1>3. f.pc \in DOMAIN CodeOf(program, f) /\ f.name = Top.name
  BY RunningFrame
<1>4. Guarded(program, g) /\ g.scopes[1].opened = f.scopes[1].opened
  BY <1>2, <1>3, GuardedNext
<1>5. /\ g.name = Top.name /\ g.inherited = Top.inherited
      /\ g.scopes[1].opened = Top.scopes[1].opened
      /\ \A s \in Slots : Loose(g.slots[s]) => Loose(Top.slots[s])
  BY <1>2, <1>3, <1>4 DEF Continues
<1>6. frames' = [frames EXCEPT ![Len(frames)] = g]
  BY DEF Running
<1>7. /\ frames' \in Seq(Frames(DOMAIN program)) /\ Len(frames') = n
      /\ frames'[n] = g /\ \A i \in 1..n - 1 : frames'[i] = frames[i]
  BY <1>1, <1>6, LastReplaced
<1>8. DOMAIN frames' = 1..n
  BY <1>7
<1> HIDE DEF n
<1> QED
  BY <1>1, <1>4, <1>5, <1>7, <1>8, FramesKeep

-----------------------------------------------------------------------------
\* The mark of g is no higher than the one of f, for the m lowest operands.
MarkStays(f, g, m) == \A j \in 1..m : Marks(f.mark, j) => Marks(g.mark, j)

LEMMA ShapeHere ==
    ASSUME NEW p \in Programs, NEW f \in Frames(DOMAIN p), Ready(p, f),
           f.pc \in DOMAIN CodeOf(p, f), CodeOf(p, f)[f.pc].op # "setsp"
    PROVE  /\ f.stack \in Seq(OnStack) /\ Len(f.stack) \in Nat
           /\ ShapeOf(p, f)[f.pc] \in Seq(SUBSET DOMAIN CodeOf(p, f))
           /\ Len(ShapeOf(p, f)[f.pc]) \in Nat /\ Len(f.stack) = Len(ShapeOf(p, f)[f.pc])
<1>1. f.stack \in Seq(OnStack) /\ f.name \in DOMAIN p
  BY DEF Frames
<1>2. WellFormed(p, CodeOf(p, f), ShapeOf(p, f))
  BY <1>1, CodeIsBalanced
<1>3. ShapeOf(p, f)[f.pc] \in Seq(SUBSET DOMAIN CodeOf(p, f))
  BY <1>2 DEF WellFormed, Ready
<1>4. Len(f.stack) = Len(ShapeOf(p, f)[f.pc])
  BY DEF Ready
<1> QED
  BY <1>1, <1>3, <1>4

\* The operands that an instruction leaves are loose above the mark only.
LEMMA DropMarked ==
    ASSUME NEW p \in Programs, NEW s, NEW f, Sound(p, s, f), Ready(p, f),
           f.pc \in DOMAIN CodeOf(p, f), CodeOf(p, f)[f.pc].op # "setsp", Guarded(p, f),
           NEW n \in Nat, NEW to, Goes(ShapeOf(p, f), f.pc, to, n, 0),
           NEW g, g.stack = Drop(f, n), MarkStays(f, g, Len(f.stack) - n)
    PROVE  \A j \in DOMAIN g.stack : Loose(g.stack[j]) => Marks(g.mark, j)
<1> DEFINE m == Len(f.stack) - n
           shape == ShapeOf(p, f)
<1>1. f \in Frames(DOMAIN p) /\ f.stack \in Seq(OnStack)
  BY DEF Sound, Frames
<1>2. /\ Len(shape[f.pc]) \in Nat /\ Len(f.stack) = Len(shape[f.pc]) /\ Len(f.stack) \in Nat
  BY <1>1, ShapeHere
<1>3. m \in Nat /\ m <= Len(f.stack) /\ n <= Len(shape[f.pc])
  <2>1. Goes(shape, f.pc, to, n, 0)
    OBVIOUS
  <2> HIDE DEF shape
  <2> QED
    BY <1>2, <2>1 DEF Goes
<1>4. DOMAIN g.stack = 1..m /\ \A j \in 1..m : g.stack[j] = f.stack[j]
  BY <1>3, OperandType
<1>5. MarkStays(f, g, m)
  OBVIOUS
<1>6. \A j \in 1..m : j \in DOMAIN f.stack
  BY <1>1, <1>3
<1> HIDE DEF m
<1> QED
  BY <1>4, <1>5, <1>6 DEF Guarded, MarkStays

\* A value in the place of the last n operands.
LEMMA PutFacts ==
    ASSUME NEW f, f.stack \in Seq(OnStack), NEW n \in Nat, Len(f.stack) - n \in Nat,
           NEW v \in OnStack
    PROVE  /\ Put(f, n, v) \in Seq(OnStack) /\ DOMAIN Put(f, n, v) = 1..Len(f.stack) - n + 1
           /\ \A j \in 1..Len(f.stack) - n : Put(f, n, v)[j] = f.stack[j]
           /\ Put(f, n, v)[Len(f.stack) - n + 1] = v
           /\ Len(Drop(f, n)) = Len(f.stack) - n
<1> DEFINE m == Len(f.stack) - n
           u == SubSeq(f.stack, 1, m)
<1>1. m \in Nat /\ 1..m \subseteq 1..Len(f.stack)
  OBVIOUS
<1> HIDE DEF m
<1>2. u \in Seq(OnStack) /\ Len(u) = m /\ \A j \in 1..m : u[j] = f.stack[j]
  BY <1>1
<1>3. Drop(f, n) = u /\ Put(f, n, v) = Append(u, v)
  BY DEF Drop, Put, m
<1> HIDE DEF u
<1>4. /\ Append(u, v) \in Seq(OnStack) /\ DOMAIN Append(u, v) = 1..m + 1
      /\ \A j \in 1..m : Append(u, v)[j] = f.stack[j]
      /\ Append(u, v)[m + 1] = v
  BY <1>1, <1>2
<1> QED
  BY <1>2, <1>3, <1>4 DEF m

-----------------------------------------------------------------------------
LEMMA PutMarked ==
    ASSUME NEW p \in Programs, NEW f \in Frames(DOMAIN p), Ready(p, f),
           f.pc \in DOMAIN CodeOf(p, f), CodeOf(p, f)[f.pc].op # "setsp", Guarded(p, f),
           NEW n \in Nat, NEW to, Goes(ShapeOf(p, f), f.pc, to, n, 1),
           NEW v \in OnStack, NEW g, g.stack = Put(f, n, v),
           MarkStays(f, g, Len(f.stack) - n),
           Loose(v) => Marks(g.mark, Len(f.stack) - n + 1)
    PROVE  \A j \in DOMAIN g.stack : Loose(g.stack[j]) => Marks(g.mark, j)
<1> DEFINE m == Len(f.stack) - n
           shape == ShapeOf(p, f)
<1>1. f.stack \in Seq(OnStack)
  BY DEF Frames
<1>2. /\ Len(shape[f.pc]) \in Nat /\ Len(f.stack) = Len(shape[f.pc]) /\ Len(f.stack) \in Nat
  BY <1>1, ShapeHere
<1>3. m \in Nat /\ m <= Len(f.stack) /\ n <= Len(shape[f.pc])
  <2>1. Goes(shape, f.pc, to, n, 1)
    OBVIOUS
  <2> HIDE DEF shape
  <2> QED
    BY <1>2, <2>1, SMTT(30) DEF Goes
<1>4. /\ DOMAIN g.stack = 1..m + 1 /\ \A j \in 1..m : g.stack[j] = f.stack[j]
      /\ g.stack[m + 1] = v
  <2>1. /\ DOMAIN Put(f, n, v) = 1..Len(f.stack) - n + 1
        /\ \A j \in 1..Len(f.stack) - n : Put(f, n, v)[j] = f.stack[j]
        /\ Put(f, n, v)[Len(f.stack) - n + 1] = v
    BY <1>1, <1>3, PutFacts
  <2> QED
    BY <2>1
<1>5. MarkStays(f, g, m) /\ (Loose(v) => Marks(g.mark, m + 1))
  OBVIOUS
<1>6. \A j \in 1..m : j \in DOMAIN f.stack
  BY <1>1, <1>3
<1> HIDE DEF m
<1>7. \A j \in 1..m + 1 : j = m + 1 \/ j \in 1..m
  BY <1>3
<1> QED
  BY <1>4, <1>5, <1>6, <1>7 DEF Guarded, MarkStays

-----------------------------------------------------------------------------

\* What is known after an instruction that goes on in the same frame.
LEMMA Runs ==
    ASSUME NEW ops, Inv, Inv', Keeping, Executing(ops), NEW g, Running(g), Unchanged
    PROVE  /\ g \in Frames(DOMAIN program) /\ g.scopes \in Seq(Scopes)
           /\ program' = program /\ ~Loose(exception') /\ ~throwing' /\ ~throwing
<1>1. frames \in Seq(Frames(DOMAIN program)) /\ frames # <<>> /\ ~throwing
  BY DEF Inv, Structure, Executing
<1>2. program' = program /\ exception' = exception /\ throwing' = throwing
  BY DEF Unchanged
<1>3. frames' = [frames EXCEPT ![Len(frames)] = g]
  BY DEF Running
<1>4. Len(frames) \in DOMAIN frames' /\ frames'[Len(frames)] = g
  BY <1>1, <1>3
<1>5. frames' \in Seq(Frames(DOMAIN program))
  BY <1>2 DEF Inv, Structure
<1>6. g \in Frames(DOMAIN program)
  BY <1>4, <1>5
<1> QED
  BY <1>1, <1>2, <1>6 DEF Keeping, Frames

\* Where the instructions go on, by their kind.
LEMMA FlowOf ==
    ASSUME NEW code, NEW shape, NEW pc
    PROVE  /\ code[pc].op \in {"goto", "default", "gosub"} =>
                  pc + code[pc].jump \in Flow(code, shape, pc)
           /\ code[pc].op \in LongOps => pc + JumpLength \in Flow(code, shape, pc)
           /\ code[pc].op \in {"ifeq", "ifne", "or", "and", "case"} =>
                  {pc + JumpLength, pc + code[pc].jump} \subseteq Flow(code, shape, pc)
           /\ code[pc].op \in {"tableswitch", "lookupswitch"} =>
                  \A k \in code[pc].cases : pc + k \in Flow(code, shape, pc)
           /\ code[pc].op = "retsub" =>
                  \A o \in shape[pc][Len(shape[pc])] : o + JumpLength \in Flow(code, shape, pc)
           /\ code[pc].op \notin LongOps \cup {"goto", "default", "gosub", "retsub", "ifeq", "ifne",
                                               "or", "and", "case", "tableswitch", "lookupswitch"} =>
                  pc + 1 \in Flow(code, shape, pc)
<1> DEFINE c == code[pc]
           top == shape[pc][Len(shape[pc])]
           goal == Flow(code, shape, pc)
<1>1. goal = CASE c.op \in {"goto", "default", "gosub"}     -> {pc + c.jump}
               [] c.op = "retsub" -> {o + JumpLength : o \in top}
               [] c.op \in {"tableswitch", "lookupswitch"}  -> {pc + k : k \in c.cases}
               [] c.op \in {"ifeq", "ifne", "or", "and", "case"} -> {pc + JumpLength, pc + c.jump}
               [] c.op \in LongOps                          -> {pc + JumpLength}
               [] OTHER                                     -> {pc + 1}
  BY DEF Flow
<1> HIDE DEF c, top, goal
<1>2. c.op \in {"goto", "default", "gosub"} => pc + c.jump \in goal
  BY <1>1 DEF LongOps
<1>3. c.op \in LongOps => pc + JumpLength \in goal
  BY <1>1 DEF LongOps
<1>4. c.op \in {"ifeq", "ifne", "or", "and", "case"} => {pc + JumpLength, pc + c.jump} \subseteq goal
  BY <1>1 DEF LongOps
<1>5. c.op \in {"tableswitch", "lookupswitch"} => \A k \in c.cases : pc + k \in goal
  BY <1>1 DEF LongOps
<1>6. c.op = "retsub" => \A o \in top : o + JumpLength \in goal
  BY <1>1 DEF LongOps
<1>7. c.op \notin LongOps \cup {"goto", "default", "gosub", "retsub", "ifeq", "ifne",
                                "or", "and", "case", "tableswitch", "lookupswitch"} => pc + 1 \in goal
  BY <1>1
<1> QED
  BY <1>2, <1>3, <1>4, <1>5, <1>6, <1>7 DEF c, top, goal

\* Instructions that pop n operands and push none, or v.
LEMMA PopKeeps ==
    ASSUME NEW ops, Inv, Inv', Keeping, Executing(ops), NEW f, f = Fetched(Top),
           NEW g, Running(g), Unchanged, Continues(CodeOf(program, f), f, g),
           CodeOf(program, f)[f.pc].op \notin {"setsp", "condswitch"},
           NEW n \in Nat, Goes(ShapeOf(program, f), f.pc, g.pc, n, 0),
           g.pc \in Flow(CodeOf(program, f), ShapeOf(program, f), f.pc),
           g.stack = Drop(f, n), MarkStays(f, g, Len(f.stack) - n)
    PROVE  Keeping'
<1> DEFINE code == CodeOf(program, f)
           shape == ShapeOf(program, f)
<1>1. /\ g \in Frames(DOMAIN program) /\ g.scopes \in Seq(Scopes)
      /\ program' = program /\ ~Loose(exception') /\ ~throwing'
  BY Runs
<1>2. /\ program \in Programs /\ Sound(program, source, f) /\ Ready(program, f)
      /\ f.pc \in DOMAIN code /\ f.scopes \in Seq(Scopes)
  BY RunningFrame, RunningTyped
<1>3. /\ Guarded(program, f) /\ InOwnSwitch(code, f)
      /\ WellNested(code, shape, f.pc)
  BY KeepingFrame
<1>4. CodeOf(program, g) = code /\ ShapeOf(program, g) = shape
  BY DEF Continues, CodeOf, ShapeOf
<1>5. \A j \in DOMAIN g.stack : Loose(g.stack[j]) => Marks(g.mark, j)
  BY <1>2, <1>3, DropMarked
<1>6. \A q \in DOMAIN code : InCases(code, q, g.pc) => InCases(code, q, f.pc)
  BY <1>3, FlowStays
<1>7. InOwnSwitch(code, g)
  BY <1>1, <1>2, <1>3, <1>6, SwitchStays
<1>8. Prepared(program, g)
  BY <1>4, <1>7 DEF Prepared
<1> QED
  BY <1>1, <1>5, <1>8, InstructionKeeps

LEMMA PushKeeps ==
    ASSUME NEW ops, Inv, Inv', Keeping, Executing(ops), NEW f, f = Fetched(Top),
           NEW g, Running(g), Unchanged, Continues(CodeOf(program, f), f, g),
           CodeOf(program, f)[f.pc].op \notin {"setsp", "condswitch"},
           NEW n \in Nat, Goes(ShapeOf(program, f), f.pc, g.pc, n, 1),
           g.pc \in Flow(CodeOf(program, f), ShapeOf(program, f), f.pc),
           NEW v \in OnStack, g.stack = Put(f, n, v), MarkStays(f, g, Len(f.stack) - n),
           Loose(v) => Marks(g.mark, Len(f.stack) - n + 1)
    PROVE  Keeping'
<1> DEFINE code == CodeOf(program, f)
           shape == ShapeOf(program, f)
<1>1. /\ g \in Frames(DOMAIN program) /\ g.scopes \in Seq(Scopes)
      /\ program' = program /\ ~Loose(exception') /\ ~throwing'
  BY Runs
<1>2. /\ program \in Programs /\ Sound(program, source, f) /\ Ready(program, f)
      /\ f.pc \in DOMAIN code /\ f.scopes \in Seq(Scopes)
  BY RunningFrame, RunningTyped
<1>3. /\ Guarded(program, f) /\ InOwnSwitch(code, f)
      /\ WellNested(code, shape, f.pc)
  BY KeepingFrame
<1>4. CodeOf(program, g) = code /\ ShapeOf(program, g) = shape
  BY DEF Continues, CodeOf, ShapeOf
<1>5. \A j \in DOMAIN g.stack : Loose(g.stack[j]) => Marks(g.mark, j)
  BY <1>2, <1>3, PutMarked DEF Sound
<1>6. \A q \in DOMAIN code : InCases(code, q, g.pc) => InCases(code, q, f.pc)
  BY <1>3, FlowStays
<1>7. InOwnSwitch(code, g)
  BY <1>1, <1>2, <1>3, <1>6, SwitchStays
<1>8. Prepared(program, g)
  BY <1>4, <1>7 DEF Prepared
<1> QED
  BY <1>1, <1>5, <1>8, InstructionKeeps

\* A frame that differs in its stack, its mark, its output and its counter only.
LEMMA SameContinues ==
    ASSUME NEW code, NEW f, NEW g, g.name = f.name, g.inherited = f.inherited,
           g.scopes = f.scopes, g.controls = f.controls, g.slots = f.slots, g.rval = f.rval
    PROVE  Continues(code, f, g)
BY DEF Continues

\* XSS_SET_STACK_TAINTED_ON_OUTPUT marks the operand and never fewer than before.
LEMMA MarkedBy ==
    ASSUME NEW names, NEW f \in Frames(names), NEW i \in Nat, i > 0, NEW out \in BOOLEAN
    PROVE  /\ \A j \in Nat : Marks(f.mark, j) => Marks(Mark(f, i, out), j)
           /\ out => Marks(Mark(f, i, out), i)
<1>1. f.mark \in Nat
  BY DEF Frames
<1> QED
  BY <1>1 DEF Marks, Mark, NoMark

-----------------------------------------------------------------------------
\* An instruction that pushes v onto what n popped operands leave, with the mark.
LEMMA MarkedPushKeeps ==
    ASSUME NEW ops, Inv, Inv', Keeping, Executing(ops), NEW f, f = Fetched(Top),
           NEW g, Running(g), Unchanged, Continues(CodeOf(program, f), f, g),
           CodeOf(program, f)[f.pc].op \notin {"setsp", "condswitch"},
           NEW n \in Nat, Goes(ShapeOf(program, f), f.pc, g.pc, n, 1),
           g.pc \in Flow(CodeOf(program, f), ShapeOf(program, f), f.pc),
           NEW v \in Values, NEW out \in BOOLEAN, g.stack = Put(f, n, v),
           g.mark = Mark(f, Len(f.stack) - n + 1, out),
           v.secret => out
    PROVE  Keeping'
<1> DEFINE i == Len(f.stack) - n + 1
<1>1. n <= Len(ShapeOf(program, f)[f.pc])
  BY GoesType, RunningFrame
<1>2. /\ program \in Programs /\ Sound(program, source, f) /\ Ready(program, f)
      /\ f \in Frames(DOMAIN program)
  BY RunningFrame DEF Sound
<1>3. Len(f.stack) - n \in Nat /\ i \in Nat /\ i > 0
  BY <1>1, <1>2, OperandType
<1> HIDE DEF i
<1>4. /\ \A j \in Nat : Marks(f.mark, j) => Marks(Mark(f, i, out), j)
      /\ out => Marks(Mark(f, i, out), i)
  BY <1>2, <1>3, MarkedBy
<1>5. g.mark = Mark(f, i, out)
  BY DEF i
<1>6. MarkStays(f, g, Len(f.stack) - n)
  BY <1>3, <1>4, <1>5 DEF MarkStays
<1>7. v \in OnStack
  BY DEF OnStack
<1>8. Loose(v) => Marks(g.mark, i)
  BY <1>4, <1>5 DEF Loose
<1>9. Loose(v) => Marks(g.mark, Len(f.stack) - n + 1)
  BY <1>8 DEF i
<1> QED
  BY <1>6, <1>7, <1>9, PushKeeps

\* What is known of the operands of an instruction.
LEMMA OperandsAreSeen ==
    ASSUME NEW ops, Inv, Keeping, Executing(ops), NEW f, f = Fetched(Top),
           NEW n \in Nat, n <= Len(ShapeOf(program, f)[f.pc]), NEW k \in 1..n
    PROVE  /\ Loose(Operand(f, k)) => StackTainted(f)
           /\ Operand(f, k).tainted \in BOOLEAN /\ Operand(f, k).secret \in BOOLEAN
<1>1. /\ program \in Programs /\ Sound(program, source, f) /\ Ready(program, f)
      /\ f \in Frames(DOMAIN program)
  BY RunningFrame DEF Sound
<1>2. Len(f.stack) + 1 - k \in 1..Len(f.stack)
  BY <1>1, DropType
<1>3. Guarded(program, f) /\ k \in Nat
  BY KeepingFrame
<1>4. Operand(f, k).tainted \in BOOLEAN /\ Operand(f, k).secret \in BOOLEAN
  BY Used
<1> QED
  BY <1>1, <1>2, <1>3, <1>4, OperandIsSeen

\* Used or not, what depends on a secret is in the output of the instruction.
LEMMA DependsIsSeen ==
    ASSUME NEW ops, Inv, Keeping, Executing(ops), NEW f, f = Fetched(Top)
    PROVE  /\ Controlled(f) => ScopeTainted(f)
           /\ f.scopes[1].opened => ScopeTainted(f)
           /\ \A used : (\A v \in used : Loose(v) => StackTainted(f) \/ ScopeTainted(f))
                        /\ Depends(f, used) => Output(f, used)
<1>1. Sound(program, source, f) /\ Guarded(program, f) /\ 1 \in DOMAIN f.scopes
  BY RunningFrame, KeepingFrame
<1>2. Controlled(f) => ScopeTainted(f)
  BY <1>1, ControlTaints
<1>3. f.scopes[1].opened => ScopeTainted(f)
  BY <1>1, OpenedTaints DEF Sound, Frames
<1> QED
  BY <1>2, <1>3 DEF Depends, Output, Loose

\* How many operands are below those of an instruction.
LEMMA DropLength ==
    ASSUME NEW p \in Programs, NEW s, NEW f, Sound(p, s, f), Ready(p, f),
           NEW n \in Nat, n <= Len(ShapeOf(p, f)[f.pc])
    PROVE  Len(Drop(f, n)) = Len(f.stack) - n
BY OperandType

LEMMA PushedKeeps ==
    ASSUME NEW ops, Inv, Inv', Keeping, Executing(ops), NEW f, f = Fetched(Top),
           NEW n \in Nat, NEW k \in Int, NEW v \in Values, NEW out \in BOOLEAN,
           Advance(Pushed(f, Drop(f, n), v, out), k), Unchanged,
           CodeOf(program, f)[f.pc].op \notin {"setsp", "condswitch"},
           Goes(ShapeOf(program, f), f.pc, f.pc + k, n, 1),
           f.pc + k \in Flow(CodeOf(program, f), ShapeOf(program, f), f.pc),
           v.secret => out
    PROVE  Keeping'
<1> DEFINE g == PushedNext(f, n, v, out, k)
           m == Mark(f, Len(Drop(f, n)) + 1, out)
           t == Put(f, n, v)
<1>1. /\ f \in Frames(DOMAIN program) /\ program \in Programs /\ Sound(program, source, f)
      /\ Ready(program, f)
  BY RunningFrame DEF Sound
<1>2. n <= Len(ShapeOf(program, f)[f.pc])
  BY GoesType
<1>3. Len(Drop(f, n)) = Len(f.stack) - n
  BY <1>1, <1>2, DropLength
<1>4. m = Mark(f, Len(f.stack) - n + 1, out)
  BY <1>3
<1>5. g = [[f EXCEPT !.stack = t, !.mark = m, !.output = out] EXCEPT !.pc = @ + k]
  BY DEF Pushed, Put, PushedNext
<1> HIDE DEF t, m
<1>6. /\ g.scopes = f.scopes /\ g.name = f.name /\ g.pc = f.pc + k /\ g.stack = t /\ g.mark = m
      /\ g.rval = f.rval /\ g.slots = f.slots /\ g.controls = f.controls
      /\ g.inherited = f.inherited
  BY <1>1, <1>5 DEF Frames
<1>7. Running(g)
  BY DEF Advance, PushedNext
<1> HIDE DEF g
<1>8. Continues(CodeOf(program, f), f, g)
  BY <1>6, SameContinues
<1> QED
  BY <1>4, <1>6, <1>7, <1>8, MarkedPushKeeps DEF t

LEMMA PushConstantKeeps == Inv /\ Inv' /\ Keeping /\ PushConstant => Keeping'
<1> SUFFICES ASSUME Inv, Inv', Keeping, PushConstant PROVE Keeping'
  OBVIOUS
<1> DEFINE f == Fetched(Top)
           k == IF Code(f)[f.pc].op \in {"pushobj", "push"} THEN 1 ELSE JumpLength
           ops == {"uint16", "name", "pushobj", "push"}
           v == Value(FALSE, Controlled(f))
           out == Output(f, {})
           code == CodeOf(program, f)
<1>1. Executing(ops) /\ Unchanged /\ Advance(Pushed(f, f.stack, v, out), k)
  BY DEF PushConstant
<1>2. /\ program \in Programs /\ Sound(program, source, f) /\ Ready(program, f)
      /\ f \in Frames(DOMAIN program) /\ Balanced(code, ShapeOf(program, f), f.pc)
      /\ Code(f) = code /\ code[f.pc].op \in ops
  BY <1>1, RunningFrame DEF Sound
<1>3. Goes(ShapeOf(program, f), f.pc, f.pc + k, 0, 1) /\ k \in Int
  BY <1>2 DEF Balanced, JumpLength
<1>4. f.pc + k \in Flow(code, ShapeOf(program, f), f.pc)
  BY <1>2 DEF Flow, LongOps
<1>5. v \in Values /\ out \in BOOLEAN /\ v.tainted = FALSE /\ v.secret = Controlled(f)
  BY ValueType, OutputType DEF Value
<1>6. Controlled(f) => out
  BY <1>1, DependsIsSeen DEF Output
<1>7. Drop(f, 0) = f.stack
  BY <1>2, DropNone
<1> HIDE DEF f, k, v, out, code
<1> QED
  BY <1>1, <1>2, <1>3, <1>4, <1>5, <1>6, <1>7, PushedKeeps DEF f, code

LEMMA GetSlotKeeps == Inv /\ Inv' /\ Keeping /\ GetSlot => Keeping'
<1> SUFFICES ASSUME Inv, Inv', Keeping, GetSlot PROVE Keeping'
  OBVIOUS
<1> DEFINE f == Fetched(Top)
           ops == {"getvar"}
           w == f.slots[Code(f)[f.pc].arg]
           v == Value(w.tainted, Depends(f, {w}))
           out == Output(f, {w})
           code == CodeOf(program, f)
<1>1. Executing(ops) /\ Unchanged /\ Advance(Pushed(f, f.stack, v, out), JumpLength)
  BY DEF GetSlot
<1>2. /\ f \in Frames(DOMAIN program) /\ Sound(program, source, f)
      /\ Balanced(code, ShapeOf(program, f), f.pc) /\ Linked(program, code, ShapeOf(program, f), f.pc)
      /\ Code(f) = code /\ code[f.pc].op \in ops
  BY <1>1, RunningFrame DEF Sound
<1>3. Goes(ShapeOf(program, f), f.pc, f.pc + JumpLength, 0, 1) /\ JumpLength \in Int
  BY <1>2 DEF Balanced, JumpLength
<1>4. f.pc + JumpLength \in Flow(code, ShapeOf(program, f), f.pc)
  BY <1>2 DEF Flow, LongOps
<1>5. Fetching(program, f) /\ Guarded(program, f)
  BY <1>1, KeepingFrame
<1>6. Code(f)[f.pc].arg \in Slots /\ w \in Values
  BY <1>2 DEF Linked, Frames
<1>7. Loose(w) => f.scopes[1].opened
  BY <1>5, <1>6 DEF Guarded
<1>8. w.tainted \in BOOLEAN /\ w.secret \in BOOLEAN
  BY <1>6 DEF Values
<1> HIDE DEF w
<1>9. /\ v \in Values /\ out \in BOOLEAN /\ v.tainted = w.tainted
      /\ v.secret <=> Controlled(f) \/ w.secret
  BY <1>8, ValueType, OutputType DEF Value, Depends
<1>10. v.secret => out
  BY <1>1, <1>7, <1>8, <1>9, DependsIsSeen DEF Output, Loose
<1>11. Drop(f, 0) = f.stack
  BY <1>2, DropNone
<1> HIDE DEF f, v, out, code
<1> QED
  BY <1>1, <1>2, <1>3, <1>4, <1>9, <1>10, <1>11, PushedKeeps DEF f, code

LEMMA GetPropertyKeeps == Inv /\ Inv' /\ Keeping /\ GetProperty => Keeping'
<1> SUFFICES ASSUME Inv, Inv', Keeping, GetProperty PROVE Keeping'
  OBVIOUS
<1> DEFINE f == Fetched(Top)
           ops == {"getprop"}
           o == Operand(f, 1)
           read == Value(source, source)
           v == Value(source, Depends(f, {o, read}))
           out == Output(f, {o, read})
           code == CodeOf(program, f)
           shape == ShapeOf(program, f)
<1>1. Executing(ops) /\ Unchanged /\ Advance(Pushed(f, Drop(f, 1), v, out), JumpLength)
  BY DEF GetProperty
<1>2. /\ program \in Programs /\ Sound(program, source, f) /\ source \in BOOLEAN
      /\ Ready(program, f) /\ f.pc \in DOMAIN code /\ f \in Frames(DOMAIN program)
      /\ Balanced(code, shape, f.pc) /\ code[f.pc].op \in ops
  BY <1>1, RunningFrame DEF Sound
<1>3. Goes(shape, f.pc, f.pc + JumpLength, 1, 1) /\ JumpLength \in Int
  BY <1>2 DEF Balanced, JumpLength
<1>4. f.pc + JumpLength \in Flow(code, shape, f.pc)
  BY <1>2 DEF Flow, LongOps
<1>6. 1 <= Len(shape[f.pc])
  BY <1>1, <1>3, GoesType
<1>7. (Loose(o) => StackTainted(f)) /\ o.tainted \in BOOLEAN /\ o.secret \in BOOLEAN
  BY <1>1, <1>6, OperandsAreSeen
<1>5. read.tainted = source /\ read.secret = source
  BY DEF Value
<1> HIDE DEF o, read
<1>8. /\ v \in Values /\ out \in BOOLEAN /\ v.tainted = source
      /\ v.secret <=> Controlled(f) \/ o.secret \/ source
  BY <1>2, <1>7, <1>5, ValueType, OutputType DEF Value, Depends
<1>9. v.secret => out
  BY <1>1, <1>7, <1>5, <1>8, DependsIsSeen DEF Output, Loose
<1> HIDE DEF f, v, out, code, shape
<1> QED
  BY <1>1, <1>2, <1>3, <1>4, <1>8, <1>9, PushedKeeps DEF f, code, shape

\* A value that depends on what the instruction uses, and is tainted by the mark.
LEMMA FreshKeeps ==
    ASSUME NEW ops, Inv, Inv', Keeping, Executing(ops), NEW f, f = Fetched(Top),
           NEW n \in Nat, NEW k \in Int, NEW t \in BOOLEAN, NEW used,
           Advance(Pushed(f, Drop(f, n), Value(t, Depends(f, used)), Output(f, used)), k), Unchanged,
           CodeOf(program, f)[f.pc].op \notin {"setsp", "condswitch"},
           Goes(ShapeOf(program, f), f.pc, f.pc + k, n, 1),
           f.pc + k \in Flow(CodeOf(program, f), ShapeOf(program, f), f.pc),
           \A v \in used : Loose(v) => StackTainted(f) \/ ScopeTainted(f)
    PROVE  Keeping'
<1> DEFINE v == Value(t, Depends(f, used))
           out == Output(f, used)
<1>1. /\ v \in Values /\ out \in BOOLEAN /\ v.secret = Depends(f, used)
  BY ValueType, OutputType DEF Value
<1>2. v.secret => out
  BY <1>1, DependsIsSeen
<1>3. Advance(Pushed(f, Drop(f, n), v, out), k)
  OBVIOUS
<1> HIDE DEF v, out
<1> QED
  BY <1>1, <1>2, <1>3, PushedKeeps

LEMMA NewEqualKeeps == Inv /\ Inv' /\ Keeping /\ NewEqual => Keeping'
<1> SUFFICES ASSUME Inv, Inv', Keeping, NewEqual PROVE Keeping'
  OBVIOUS
<1> DEFINE f == Fetched(Top)
           k == 1
           ops == {"new_eq"}
           used == {Operand(f, 1), Operand(f, 2)}
<1>1. /\ Executing(ops) /\ Unchanged
      /\ Advance(Pushed(f, Drop(f, 2), Value(FALSE, Depends(f, used)), Output(f, used)), k)
  BY DEF NewEqual
<1>2. /\ Balanced(CodeOf(program, f), ShapeOf(program, f), f.pc)
      /\ CodeOf(program, f)[f.pc].op \in ops
  BY <1>1, RunningFrame
<1>3. Goes(ShapeOf(program, f), f.pc, f.pc + k, 2, 1) /\ k \in Int
  BY <1>2 DEF Balanced
<1>4. f.pc + k \in Flow(CodeOf(program, f), ShapeOf(program, f), f.pc)
  BY <1>2 DEF Flow, LongOps
<1>5. 2 <= Len(ShapeOf(program, f)[f.pc])
  BY <1>1, <1>3, GoesType
<1>6. \A v \in used : Loose(v) => StackTainted(f)
  BY <1>1, <1>5, OperandsAreSeen
<1>7. CodeOf(program, f)[f.pc].op \notin {"setsp", "condswitch"}
  BY <1>2
<1> HIDE DEF f, used, k
<1> QED
  BY <1>1, <1>3, <1>4, <1>6, <1>7, FreshKeeps DEF f

LEMMA ToObjectKeeps == Inv /\ Inv' /\ Keeping /\ ToObject => Keeping'
<1> SUFFICES ASSUME Inv, Inv', Keeping, ToObject PROVE Keeping'
  OBVIOUS
<1> DEFINE f == Fetched(Top)
           k == 1
           ops == {"toobject"}
           used == {Operand(f, 1)}
<1>1. /\ Executing(ops) /\ Unchanged
      /\ Advance(Pushed(f, Drop(f, 1), Value(FALSE, Depends(f, used)), Output(f, used)), k)
  BY DEF ToObject
<1>2. /\ Balanced(CodeOf(program, f), ShapeOf(program, f), f.pc)
      /\ CodeOf(program, f)[f.pc].op \in ops
  BY <1>1, RunningFrame
<1>3. Goes(ShapeOf(program, f), f.pc, f.pc + k, 1, 1) /\ k \in Int
  BY <1>2 DEF Balanced
<1>4. f.pc + k \in Flow(CodeOf(program, f), ShapeOf(program, f), f.pc)
  BY <1>2 DEF Flow, LongOps
<1>5. 1 <= Len(ShapeOf(program, f)[f.pc])
  BY <1>1, <1>3, GoesType
<1>6. \A v \in used : Loose(v) => StackTainted(f)
  BY <1>1, <1>5, OperandsAreSeen
<1>7. CodeOf(program, f)[f.pc].op \notin {"setsp", "condswitch"}
  BY <1>2
<1> HIDE DEF f, used, k
<1> QED
  BY <1>1, <1>3, <1>4, <1>6, <1>7, FreshKeeps DEF f

LEMMA PushExceptionKeeps == Inv /\ Inv' /\ Keeping /\ PushException => Keeping'
<1> SUFFICES ASSUME Inv, Inv', Keeping, PushException PROVE Keeping'
  OBVIOUS
<1> DEFINE f == Fetched(Top)
           k == 1
           ops == {"exception"}
           t == exception.tainted
           used == {exception}
<1>1. Executing(ops) /\ Unchanged
  BY DEF PushException
<1>2. /\ Balanced(CodeOf(program, f), ShapeOf(program, f), f.pc) /\ f \in Frames(DOMAIN program)
      /\ CodeOf(program, f)[f.pc].op \in ops
  BY <1>1, RunningFrame DEF Sound
<1>3. Goes(ShapeOf(program, f), f.pc, f.pc + k, 0, 1) /\ k \in Int
  BY <1>2 DEF Balanced
<1>4. f.pc + k \in Flow(CodeOf(program, f), ShapeOf(program, f), f.pc)
  BY <1>2 DEF Flow, LongOps
<1>5. Drop(f, 0) = f.stack
  BY <1>2, DropNone
<1>6. Advance(Pushed(f, Drop(f, 0), Value(t, Depends(f, used)), Output(f, used)), k)
  BY <1>5 DEF PushException
<1>7. t \in BOOLEAN /\ \A v \in used : ~Loose(v)
  BY DEF Inv, Structure, Keeping, Values
<1>8. CodeOf(program, f)[f.pc].op \notin {"setsp", "condswitch"}
  BY <1>2
<1> HIDE DEF f, used, k, t
<1> QED
  BY <1>1, <1>3, <1>4, <1>6, <1>7, <1>8, FreshKeeps DEF f

-----------------------------------------------------------------------------
\* Instructions that push nothing, and those that store a value.
LEMMA PoppedKeeps ==
    ASSUME NEW ops, Inv, Inv', Keeping, Executing(ops), NEW f, f = Fetched(Top),
           NEW n \in Nat, NEW k \in Int, NEW out \in BOOLEAN,
           Running(PoppedNext(f, n, out, k)), Unchanged,
           CodeOf(program, f)[f.pc].op \notin {"setsp", "condswitch"},
           Goes(ShapeOf(program, f), f.pc, f.pc + k, n, 0),
           f.pc + k \in Flow(CodeOf(program, f), ShapeOf(program, f), f.pc)
    PROVE  Keeping'
<1> DEFINE g == PoppedNext(f, n, out, k)
           t == Drop(f, n)
<1>1. f \in Frames(DOMAIN program)
  BY RunningFrame DEF Sound
<1>2. g = [f EXCEPT !.stack = t, !.output = out, !.pc = @ + k]
  BY DEF PoppedNext
<1> HIDE DEF t
<1>3. /\ g.scopes = f.scopes /\ g.name = f.name /\ g.pc = f.pc + k /\ g.stack = t /\ g.mark = f.mark
      /\ g.rval = f.rval /\ g.slots = f.slots /\ g.controls = f.controls
      /\ g.inherited = f.inherited
  BY <1>1, <1>2 DEF Frames
<1>4. Running(g)
  OBVIOUS
<1> HIDE DEF g
<1>5. Continues(CodeOf(program, f), f, g) /\ MarkStays(f, g, Len(f.stack) - n)
  BY <1>3, SameContinues DEF MarkStays
<1> QED
  BY <1>3, <1>4, <1>5, PopKeeps DEF t

\* A value that is not loose may be put anywhere.
LEMMA PutKeeps ==
    ASSUME NEW ops, Inv, Inv', Keeping, Executing(ops), NEW f, f = Fetched(Top),
           NEW g, Running(g), Unchanged, Continues(CodeOf(program, f), f, g), g.mark = f.mark,
           CodeOf(program, f)[f.pc].op \notin {"setsp", "condswitch"},
           NEW n \in Nat, Goes(ShapeOf(program, f), f.pc, g.pc, n, 1),
           g.pc \in Flow(CodeOf(program, f), ShapeOf(program, f), f.pc),
           NEW v \in OnStack, g.stack = Put(f, n, v),
           ~Loose(v)
    PROVE  Keeping'
<1>1. MarkStays(f, g, Len(f.stack) - n)
  BY DEF MarkStays
<1> QED
  BY <1>1, PushKeeps

LEMMA GotoKeeps == Inv /\ Inv' /\ Keeping /\ Goto => Keeping'
<1> SUFFICES ASSUME Inv, Inv', Keeping, Goto PROVE Keeping'
  OBVIOUS
<1> DEFINE f == Fetched(Top)
           ops == {"goto", "default"}
           c == CodeOf(program, f)[f.pc]
           n == IF c.op = "default" THEN 1 ELSE 0
           k == c.jump
           out == FALSE
<1>1. Executing(ops) /\ Unchanged
  BY DEF Goto
<1>2. /\ f \in Frames(DOMAIN program) /\ c \in Cells /\ c.op \in ops
      /\ Balanced(CodeOf(program, f), ShapeOf(program, f), f.pc)
  BY <1>1, RunningFrame DEF Sound
<1>3. Running(PoppedNext(f, n, out, k))
  <2> DEFINE h == [f EXCEPT !.output = FALSE]
  <2>1. Advance([h EXCEPT !.stack = IF Code(h)[h.pc].op = "default" THEN Drop(h, 1) ELSE @], Code(h)[h.pc].jump)
    BY DEF Goto
  <2>2. h.stack = f.stack /\ h.pc = f.pc /\ h.name = f.name
    BY <1>2 DEF Frames
  <2>3. Code(h)[h.pc] = c /\ Drop(h, 1) = Drop(f, 1) /\ Drop(f, 0) = f.stack
    BY <1>2, <2>2, DropNone DEF Code, Script, CodeOf, Drop
  <2> HIDE DEF c, f
  <2>4. [[h EXCEPT !.stack = IF c.op = "default" THEN Drop(f, 1) ELSE @] EXCEPT !.pc = @ + c.jump]
          = PoppedNext(f, n, out, k)
    BY <1>2, <2>3 DEF PoppedNext, Frames
  <2> HIDE DEF h
  <2> QED
    BY <2>1, <2>3, <2>4 DEF Advance
<1>4. Goes(ShapeOf(program, f), f.pc, f.pc + k, n, 0) /\ n \in Nat /\ k \in Int
  BY <1>2 DEF Balanced, Cells
<1>5. f.pc + k \in Flow(CodeOf(program, f), ShapeOf(program, f), f.pc)
  <2>1. CodeOf(program, f)[f.pc].op \in {"goto", "default", "gosub"}
    BY <1>2
  <2> HIDE DEF f, out, n
  <2> QED
    BY <2>1, FlowOf
<1>6. CodeOf(program, f)[f.pc].op \notin {"setsp", "condswitch"} /\ out \in BOOLEAN
  BY <1>2
<1> HIDE DEF n, c, k, f, out
<1> QED
  BY <1>1, <1>3, <1>4, <1>5, <1>6, PoppedKeeps DEF f

\* SETSP keeps the operands of its shape as they were.
LEMMA SetspMarked ==
    ASSUME NEW p, NEW f, NEW g, NEW m \in Nat, m <= Len(f.stack), DOMAIN g.stack = 1..m,
           \A j \in 1..m : g.stack[j] = f.stack[j], f.stack \in Seq(OnStack),
           Guarded(p, f), MarkStays(f, g, Len(f.stack))
    PROVE  \A j \in DOMAIN g.stack : Loose(g.stack[j]) => Marks(g.mark, j)
<1>1. \A j \in 1..m : j \in 1..Len(f.stack) /\ j \in DOMAIN f.stack
  OBVIOUS
<1> QED
  BY <1>1 DEF Guarded, MarkStays

\* SETSP keeps the operands of its shape.
LEMMA SetspKeeps ==
    ASSUME NEW ops, Inv, Inv', Keeping, Executing(ops), NEW f, f = Fetched(Top),
           CodeOf(program, f)[f.pc].op = "setsp",
           NEW g, Running(g), Unchanged, Continues(CodeOf(program, f), f, g),
           g.pc = f.pc + JumpLength, g.stack = Kept(program, f), g.mark = f.mark
    PROVE  Keeping'
<1> DEFINE code == CodeOf(program, f)
           shape == ShapeOf(program, f)
           here == shape[f.pc]
<1>1. /\ g \in Frames(DOMAIN program) /\ g.scopes \in Seq(Scopes)
      /\ program' = program /\ ~Loose(exception') /\ ~throwing'
  BY Runs
<1>2. /\ program \in Programs /\ Sound(program, source, f) /\ Ready(program, f)
      /\ f.pc \in DOMAIN code /\ f.scopes \in Seq(Scopes) /\ f.stack \in Seq(OnStack)
      /\ here \in Seq(SUBSET DOMAIN code)
  BY RunningFrame, RunningTyped
<1>3. /\ Guarded(program, f) /\ InOwnSwitch(code, f)
      /\ WellNested(code, shape, f.pc) /\ 1 \in DOMAIN f.scopes
  BY KeepingFrame
<1>4. CodeOf(program, g) = code /\ ShapeOf(program, g) = shape
  BY DEF Continues, CodeOf, ShapeOf
<1>6. g.pc \in Flow(code, shape, f.pc)
  BY DEF Flow, LongOps
<1>7. Continues(code, f, g) /\ code[f.pc].op # "condswitch"
  OBVIOUS
<1>8. \A j \in DOMAIN g.stack : Loose(g.stack[j]) => Marks(g.mark, j)
  <2>1. MarkStays(f, g, Len(f.stack))
    BY DEF MarkStays
  <2> DEFINE m == Len(here)
  <2>2. m \in Nat /\ m <= Len(f.stack)
    <3>1. Fits(code, f.stack, here)
      BY <1>2 DEF Ready
    <3> HIDE DEF here
    <3> QED
      BY <1>2, <3>1 DEF Fits
  <2>3. DOMAIN g.stack = 1..m /\ \A j \in 1..m : g.stack[j] = f.stack[j]
    <3>1. g.stack = SubSeq(f.stack, 1, m)
      BY DEF Kept
    <3> HIDE DEF m
    <3> QED
      BY <1>2, <2>2, <3>1
  <2> HIDE DEF m
  <2> QED
    BY <1>2, <1>3, <2>1, <2>2, <2>3, SetspMarked
<1> HIDE DEF code, shape
<1>9. \A q \in DOMAIN code : InCases(code, q, g.pc) => InCases(code, q, f.pc)
  BY <1>3, <1>6, <1>7, FlowStays
<1>10. InOwnSwitch(code, g)
  BY <1>1, <1>2, <1>3, <1>7, <1>9, SwitchStays
<1>11. Prepared(program, g)
  BY <1>4, <1>10 DEF Prepared
<1> QED
  BY <1>1, <1>8, <1>11, InstructionKeeps

LEMMA PlainlyKeeps == Inv /\ Inv' /\ Keeping /\ Plainly => Keeping'
<1> SUFFICES ASSUME Inv, Inv', Keeping, Plainly PROVE Keeping'
  OBVIOUS
<1> DEFINE f == Fetched(Top)
           ops == {"pop", "pop2", "leavewith", "nop", "try", "finally", "setsp"}
           c == CodeOf(program, f)[f.pc]
           out == FALSE
           h == [f EXCEPT !.output = out]
<1>1. Executing(ops) /\ Unchanged
  BY DEF Plainly
<1>2. /\ f \in Frames(DOMAIN program) /\ c \in Cells /\ c.op \in ops
      /\ Balanced(CodeOf(program, f), ShapeOf(program, f), f.pc)
  BY <1>1, RunningFrame DEF Sound
<1>3. h.stack = f.stack /\ h.pc = f.pc /\ h.name = f.name
  BY <1>2 DEF Frames
<1>4. Advance([h EXCEPT !.stack = CASE c.op \in {"pop", "leavewith"} -> Drop(f, 1)
                                    [] c.op = "pop2" -> Drop(f, 2)
                                    [] c.op = "setsp" -> SubSeq(@, 1, c.note)
                                    [] OTHER -> @],
              IF c.op = "setsp" THEN JumpLength ELSE 1)
  <2>1. Code(h)[h.pc] = c /\ Drop(h, 1) = Drop(f, 1) /\ Drop(h, 2) = Drop(f, 2)
    BY <1>3 DEF Code, Script, CodeOf, Drop
  <2> HIDE DEF c
  <2> QED
    BY <2>1 DEF Plainly
<1>5. CASE c.op # "setsp"
  <2> DEFINE n == IF c.op \in {"pop", "leavewith"} THEN 1 ELSE IF c.op = "pop2" THEN 2 ELSE 0
             k == 1
  <2>1. Drop(f, 0) = f.stack
    BY <1>2, DropNone
  <2>2. Goes(ShapeOf(program, f), f.pc, f.pc + k, n, 0) /\ n \in Nat /\ k \in Int
    BY <1>2, <1>5 DEF Balanced
  <2>3. f.pc + k \in Flow(CodeOf(program, f), ShapeOf(program, f), f.pc)
    BY <1>2, <1>5 DEF Flow, LongOps
  <2>4. CodeOf(program, f)[f.pc].op \notin {"setsp", "condswitch"} /\ out \in BOOLEAN
    BY <1>2, <1>5
  <2> HIDE DEF c, f
  <2>5. Running(PoppedNext(f, n, out, k))
    <3>1. [h EXCEPT !.stack = CASE c.op \in {"pop", "leavewith"} -> Drop(f, 1)
                                [] c.op = "pop2" -> Drop(f, 2)
                                [] c.op = "setsp" -> SubSeq(@, 1, c.note)
                                [] OTHER -> @] = [h EXCEPT !.stack = Drop(f, n)]
      BY <1>2, <1>3, <1>5, <2>1 DEF Frames
    <3>2. Advance([h EXCEPT !.stack = Drop(f, n)], 1)
      BY <1>4, <1>5, <3>1
    <3>3. [[h EXCEPT !.stack = Drop(f, n)] EXCEPT !.pc = @ + 1] = PoppedNext(f, n, out, k)
      BY <1>2 DEF PoppedNext, Frames
    <3> QED
      BY <3>2, <3>3 DEF Advance
  <2> HIDE DEF n, k, out
  <2> QED
    BY <1>1, <2>2, <2>3, <2>4, <2>5, PoppedKeeps DEF f
<1>6. CASE c.op = "setsp"
  <2> DEFINE g == [f EXCEPT !.stack = Kept(program, f), !.output = out, !.pc = @ + JumpLength]
  <2>1. c.note = Len(ShapeOf(program, f)[f.pc])
    BY <1>2, <1>6 DEF Balanced
  <2> HIDE DEF f, out
  <2>2. Running(g)
    <3> HIDE DEF c
    <3>1. [h EXCEPT !.stack = CASE c.op \in {"pop", "leavewith"} -> Drop(f, 1)
                                [] c.op = "pop2" -> Drop(f, 2)
                                [] c.op = "setsp" -> SubSeq(@, 1, c.note)
                                [] OTHER -> @] = [h EXCEPT !.stack = Kept(program, f)]
      BY <1>3, <1>6, <2>1 DEF Kept
    <3>2. Advance([h EXCEPT !.stack = Kept(program, f)], JumpLength)
      BY <1>4, <1>6, <3>1
    <3>3. [[h EXCEPT !.stack = Kept(program, f)] EXCEPT !.pc = @ + JumpLength] = g
      BY <1>2 DEF Frames
    <3> QED
      BY <3>2, <3>3 DEF Advance
  <2>3. /\ g.stack = Kept(program, f) /\ g.pc = f.pc + JumpLength /\ g.name = f.name
        /\ g.mark = f.mark /\ g.scopes = f.scopes /\ g.controls = f.controls
        /\ g.slots = f.slots /\ g.rval = f.rval /\ g.inherited = f.inherited
    BY <1>2 DEF Frames
  <2> HIDE DEF g
  <2>4. Continues(CodeOf(program, f), f, g)
    BY <2>3, SameContinues
  <2> QED
    BY <1>1, <1>6, <2>2, <2>3, <2>4, SetspKeeps DEF f
<1> QED
  BY <1>5, <1>6

-----------------------------------------------------------------------------
\* Variables and results keep the taint of what they are set to.
LEMMA ChangedContinues ==
    ASSUME NEW code, NEW f, NEW g, g.name = f.name, g.inherited = f.inherited,
           g.scopes = f.scopes, g.controls = f.controls,
           \A s \in Slots : Loose(g.slots[s]) => Loose(f.slots[s]),
           Loose(g.rval) => Loose(f.rval), f.inherited /\ f.rval.secret => g.rval.secret
    PROVE  Continues(code, f, g)
BY DEF Continues

\* A value that takes the output of its instruction is not loose.
LEMMA TaintedValue ==
    ASSUME NEW ops, Inv, Keeping, Executing(ops), NEW f, f = Fetched(Top),
           NEW used, \A v \in used : Loose(v) => StackTainted(f) \/ ScopeTainted(f),
           NEW t \in BOOLEAN
    PROVE  LET v == Value(t \/ Output(f, used), Depends(f, used))
           IN  ~Loose(v) /\ v \in Values /\ (Controlled(f) => v.secret)
<1>1. Depends(f, used) => Output(f, used)
  BY DependsIsSeen
<1>2. Controlled(f) => Depends(f, used)
  BY DEF Depends
<1>3. Depends(f, used) \in BOOLEAN /\ Output(f, used) \in BOOLEAN
  BY OutputType
<1> DEFINE d == Depends(f, used)
           out == Output(f, used)
<1>4. (d => out) /\ (Controlled(f) => d) /\ d \in BOOLEAN /\ out \in BOOLEAN
  BY <1>1, <1>2, <1>3
<1> HIDE DEF d, out
<1>5. LET v == Value(t \/ out, d) IN ~Loose(v) /\ v \in Values /\ (Controlled(f) => v.secret)
  BY <1>4 DEF Value, Values, Loose
<1> QED
  BY <1>5 DEF d, out

LEMMA SetSlotKeeps == Inv /\ Inv' /\ Keeping /\ SetSlot => Keeping'
<1> SUFFICES ASSUME Inv, Inv', Keeping, SetSlot PROVE Keeping'
  OBVIOUS
<1> DEFINE f == Fetched(Top)
           ops == {"setvar"}
           a == CodeOf(program, f)[f.pc].arg
           o == Operand(f, 1)
           used == {o}
           out == Output(f, used)
           v == Value(o.tainted \/ out, Depends(f, used))
           g == [[f EXCEPT !.slots[a] = v, !.output = out, !.stack = Put(f, 1, v)]
                   EXCEPT !.pc = @ + JumpLength]
<1>1. Executing(ops) /\ Unchanged
  BY DEF SetSlot
<1>2. /\ f \in Frames(DOMAIN program) /\ Linked(program, CodeOf(program, f), ShapeOf(program, f), f.pc)
      /\ Balanced(CodeOf(program, f), ShapeOf(program, f), f.pc)
      /\ Code(f) = CodeOf(program, f) /\ CodeOf(program, f)[f.pc].op \in ops
  BY <1>1, RunningFrame DEF Sound
<1>3. Goes(ShapeOf(program, f), f.pc, f.pc + JumpLength, 1, 1) /\ a \in Slots
  BY <1>2 DEF Balanced, Linked
<1>4. f.pc + JumpLength \in Flow(CodeOf(program, f), ShapeOf(program, f), f.pc)
  BY <1>2 DEF Flow, LongOps
<1>5. 1 <= Len(ShapeOf(program, f)[f.pc])
  BY <1>1, <1>3, GoesType
<1>6. o.tainted \in BOOLEAN /\ \A x \in used : Loose(x) => StackTainted(f)
  BY <1>1, <1>5, OperandsAreSeen
<1>7. Running(g)
  BY <1>2 DEF SetSlot, Advance, Put
<1> HIDE DEF o, used
<1>8. ~Loose(v) /\ v \in Values /\ (Controlled(f) => v.secret)
  BY <1>1, <1>6, TaintedValue
<1>9. CodeOf(program, f)[f.pc].op \notin {"setsp", "condswitch"}
  BY <1>2
<1> HIDE DEF f, v, out, a
<1> DEFINE t == Put(f, 1, v)
<1> HIDE DEF t
<1>10. /\ g.scopes = f.scopes /\ g.name = f.name /\ g.pc = f.pc + JumpLength /\ g.stack = t
       /\ g.mark = f.mark /\ g.rval = f.rval /\ g.controls = f.controls
       /\ g.inherited = f.inherited /\ g.slots = [f.slots EXCEPT ![a] = v]
  BY <1>2, <1>3 DEF Frames, t
<1> HIDE DEF g
<1>11. \A s \in Slots : Loose(g.slots[s]) => Loose(f.slots[s])
  BY <1>2, <1>8, <1>10 DEF Frames
<1>12. Continues(CodeOf(program, f), f, g)
  BY <1>10, <1>11, ChangedContinues
<1>13. v \in OnStack
  BY <1>8 DEF OnStack
<1> QED
  BY <1>1, <1>3, <1>4, <1>7, <1>8, <1>9, <1>10, <1>12, <1>13, PutKeeps DEF f, t

LEMMA SetResultKeeps == Inv /\ Inv' /\ Keeping /\ SetResult => Keeping'
<1> SUFFICES ASSUME Inv, Inv', Keeping, SetResult PROVE Keeping'
  OBVIOUS
<1> DEFINE f == Fetched(Top)
           ops == {"setrval", "popv"}
           k == 1
           o == Operand(f, 1)
           used == {o}
           out == Output(f, used)
           v == Value(o.tainted \/ out, Depends(f, used))
           t == Drop(f, 1)
           g == [[f EXCEPT !.stack = t, !.output = out, !.rval = v] EXCEPT !.pc = @ + k]
<1>1. Executing(ops) /\ Unchanged
  BY DEF SetResult
<1>2. /\ f \in Frames(DOMAIN program)
      /\ Balanced(CodeOf(program, f), ShapeOf(program, f), f.pc)
      /\ CodeOf(program, f)[f.pc].op \in ops
  BY <1>1, RunningFrame DEF Sound
<1>3. Goes(ShapeOf(program, f), f.pc, f.pc + k, 1, 0)
  BY <1>2 DEF Balanced
<1>4. f.pc + k \in Flow(CodeOf(program, f), ShapeOf(program, f), f.pc)
  BY <1>2 DEF Flow, LongOps
<1>5. 1 <= Len(ShapeOf(program, f)[f.pc])
  BY <1>1, <1>3, GoesType
<1>6. o.tainted \in BOOLEAN /\ \A x \in used : Loose(x) => StackTainted(f)
  BY <1>1, <1>5, OperandsAreSeen
<1>7. Running(g)
  BY DEF SetResult, Advance
<1> HIDE DEF o, used
<1>8. ~Loose(v) /\ v \in Values /\ (Controlled(f) => v.secret)
  BY <1>1, <1>6, TaintedValue
<1>9. CodeOf(program, f)[f.pc].op \notin {"setsp", "condswitch"}
  BY <1>2
<1> HIDE DEF f, v, out, t
<1>10. /\ g.scopes = f.scopes /\ g.name = f.name /\ g.pc = f.pc + k /\ g.stack = t
       /\ g.mark = f.mark /\ g.rval = v /\ g.controls = f.controls
       /\ g.inherited = f.inherited /\ g.slots = f.slots
  BY <1>2 DEF Frames
<1> HIDE DEF g
<1>11. f.inherited => v.secret
  BY <1>8 DEF Controlled
<1>12. Continues(CodeOf(program, f), f, g)
  BY <1>8, <1>10, <1>11, ChangedContinues
<1>13. MarkStays(f, g, Len(f.stack) - 1)
  BY <1>10 DEF MarkStays
<1> QED
  BY <1>1, <1>3, <1>4, <1>7, <1>9, <1>10, <1>12, <1>13, PopKeeps DEF f, t

LEMMA InitCatchVarKeeps == Inv /\ Inv' /\ Keeping /\ InitCatchVar => Keeping'
<1> SUFFICES ASSUME Inv, Inv', Keeping, InitCatchVar PROVE Keeping'
  OBVIOUS
<1> DEFINE f == Fetched(Top)
           ops == {"initcatchvar"}
           o == Operand(f, 1)
           holder == Operand(f, 2)
           used == {o}
           out == Output(f, used)
           v == Value(holder.tainted \/ out, holder.secret \/ Depends(f, used))
           t == Put(f, 2, v)
           g == [[f EXCEPT !.stack = t, !.output = out] EXCEPT !.pc = @ + JumpLength]
<1>1. Executing(ops) /\ Unchanged
  BY DEF InitCatchVar
<1>2. /\ f \in Frames(DOMAIN program)
      /\ Balanced(CodeOf(program, f), ShapeOf(program, f), f.pc)
      /\ CodeOf(program, f)[f.pc].op \in ops
  BY <1>1, RunningFrame DEF Sound
<1>3. Goes(ShapeOf(program, f), f.pc, f.pc + JumpLength, 2, 1)
  BY <1>2 DEF Balanced
<1>4. f.pc + JumpLength \in Flow(CodeOf(program, f), ShapeOf(program, f), f.pc)
  BY <1>2 DEF Flow, LongOps
<1>5. 2 <= Len(ShapeOf(program, f)[f.pc])
  BY <1>1, <1>3, GoesType
<1>6. /\ \A x \in used : Loose(x) => StackTainted(f)
      /\ Loose(holder) => StackTainted(f)
      /\ holder.tainted \in BOOLEAN /\ holder.secret \in BOOLEAN
  BY <1>1, <1>5, OperandsAreSeen
<1>7. Running(g)
  BY DEF InitCatchVar, Advance, Put
<1> HIDE DEF o, used, holder
<1>8. (Depends(f, used) => out) /\ Depends(f, used) \in BOOLEAN /\ out \in BOOLEAN
  BY <1>1, <1>6, DependsIsSeen, OutputType
<1>9. Loose(holder) => out
  BY <1>6 DEF Output
<1>10. Controlled(f) => Depends(f, used)
  BY DEF Depends
<1> DEFINE d == Depends(f, used)
<1> HIDE DEF d, out
<1>11. ~Loose(v) /\ v \in Values /\ (Controlled(f) => v.secret)
  BY <1>6, <1>8, <1>9, <1>10 DEF Value, Values, Loose, d
<1>12. CodeOf(program, f)[f.pc].op \notin {"setsp", "condswitch"}
  BY <1>2
<1> HIDE DEF f, v, t
<1>13. /\ g.scopes = f.scopes /\ g.name = f.name /\ g.pc = f.pc + JumpLength /\ g.stack = t
       /\ g.mark = f.mark /\ g.rval = f.rval /\ g.controls = f.controls
       /\ g.inherited = f.inherited /\ g.slots = f.slots
  BY <1>2 DEF Frames
<1> HIDE DEF g
<1>14. Continues(CodeOf(program, f), f, g)
  BY <1>13, SameContinues
<1>15. v \in OnStack
  BY <1>11 DEF OnStack
<1> QED
  BY <1>1, <1>3, <1>4, <1>7, <1>11, <1>12, <1>13, <1>14, <1>15, PutKeeps DEF f, t

LEMMA GoSubKeeps == Inv /\ Inv' /\ Keeping /\ GoSub => Keeping'
<1> SUFFICES ASSUME Inv, Inv', Keeping, GoSub PROVE Keeping'
  OBVIOUS
<1> DEFINE f == Fetched(Top)
           ops == {"gosub"}
           k == CodeOf(program, f)[f.pc].jump
           out == FALSE
           v == ReturnAddress(f.pc + JumpLength)
           t == Put(f, 0, v)
           g == [[f EXCEPT !.stack = t, !.output = out] EXCEPT !.pc = @ + k]
<1>1. Executing(ops) /\ Unchanged
  BY DEF GoSub
<1>2. /\ f \in Frames(DOMAIN program)
      /\ Balanced(CodeOf(program, f), ShapeOf(program, f), f.pc)
      /\ CodeOf(program, f)[f.pc].op \in ops /\ f.pc \in Nat
  BY <1>1, RunningFrame DEF Sound
<1>3. Goes(ShapeOf(program, f), f.pc, f.pc + k, 0, 1)
  BY <1>2 DEF Balanced
<1>4. f.pc + k \in Flow(CodeOf(program, f), ShapeOf(program, f), f.pc)
  <2>1. CodeOf(program, f)[f.pc].op \in {"goto", "default", "gosub"}
    BY <1>2
  <2> HIDE DEF f
  <2> QED
    BY <2>1, FlowOf
<1>5. v \in OnStack /\ ~Loose(v)
  BY <1>2 DEF ReturnAddress, OnStack, JumpLength, Loose
<1>6. Running(g)
  <2> DEFINE h == [f EXCEPT !.output = FALSE]
  <2>1. Advance([h EXCEPT !.stack = Append(@, ReturnAddress(h.pc + JumpLength))], Code(h)[h.pc].jump)
    BY DEF GoSub
  <2>2. h.stack = f.stack /\ h.pc = f.pc /\ h.name = f.name
    BY <1>2 DEF Frames
  <2>3. Code(h)[h.pc].jump = k /\ ReturnAddress(h.pc + JumpLength) = v
    BY <1>2, <2>2 DEF Code, Script, CodeOf
  <2>4. Append(h.stack, v) = t
    BY <1>2, <2>2, DropNone DEF Put
  <2>5. Advance([h EXCEPT !.stack = t], k)
    BY <2>1, <2>3, <2>4
  <2> HIDE DEF t, k, f
  <2> QED
    BY <1>2, <2>5 DEF Frames, Advance
<1>7. CodeOf(program, f)[f.pc].op \notin {"setsp", "condswitch"}
  BY <1>2
<1>8. CodeOf(program, f)[f.pc].op = "gosub"
  BY <1>2
<1> HIDE DEF f, v, t, k
<1>9. /\ g.scopes = f.scopes /\ g.name = f.name /\ g.pc = f.pc + k /\ g.stack = t
      /\ g.mark = f.mark /\ g.rval = f.rval /\ g.controls = f.controls
      /\ g.inherited = f.inherited /\ g.slots = f.slots
  BY <1>2 DEF Frames
<1> HIDE DEF g
<1>10. Continues(CodeOf(program, f), f, g)
  BY <1>9, SameContinues
<1> QED
  BY <1>1, <1>3, <1>4, <1>5, <1>6, <1>7, <1>8, <1>9, <1>10, PutKeeps DEF f, t

LEMMA RetSubKeeps == Inv /\ Inv' /\ Keeping /\ RetSub => Keeping'
<1> SUFFICES ASSUME Inv, Inv', Keeping, RetSub PROVE Keeping'
  OBVIOUS
<1> DEFINE f == Fetched(Top)
           ops == {"retsub"}
           code == CodeOf(program, f)
           shape == ShapeOf(program, f)
           top == shape[f.pc][Len(shape[f.pc])]
           k == Operand(f, 1).back - f.pc
           out == FALSE
<1>1. Executing(ops) /\ Unchanged
  BY DEF RetSub
<1>2. /\ Sound(program, source, f) /\ Ready(program, f)
      /\ Balanced(code, shape, f.pc) /\ code[f.pc].op \in ops
      /\ f.pc \in Nat /\ f.pc \in DOMAIN shape /\ shape[f.pc] \in Seq(SUBSET DOMAIN code)
      /\ program \in Programs /\ f.name \in DOMAIN program
  BY <1>1, RunningFrame
<1>3. f \in Frames(DOMAIN program) /\ f.stack \in Seq(OnStack)
  BY <1>2 DEF Sound, Frames
<1>4. /\ Len(shape[f.pc]) > 0
      /\ \A o \in top : code[o].op = "gosub" /\ Goes(shape, f.pc, o + JumpLength, 1, 0)
  BY <1>2 DEF Balanced
<1>5. PICK o \in top : Operand(f, 1) = ReturnAddress(o + JumpLength)
  <2>1. Len(f.stack) = Len(shape[f.pc]) /\ Fits(code, f.stack, shape[f.pc])
    BY <1>2 DEF Ready
  <2>2. Len(shape[f.pc]) \in 1..Len(shape[f.pc])
    BY <1>2, <1>4
  <2>3. PushedBy(code, f.stack[Len(f.stack)], top)
    BY <2>1, <2>2 DEF Fits
  <2>4. Operand(f, 1) = f.stack[Len(f.stack)]
    BY <1>2, <1>3 DEF Operand
  <2> QED
    BY <1>4, <2>3, <2>4 DEF PushedBy
<1>6. o \in Nat
  <2>1. WellFormed(program, code, shape)
    BY <1>2, CodeIsBalanced
  <2>2. Len(shape[f.pc]) \in DOMAIN shape[f.pc]
    BY <1>2, <1>4
  <2>3. top \in SUBSET DOMAIN code
    BY <1>2, <2>2
  <2>4. code \in Seq(Cells)
    BY <2>1 DEF WellFormed
  <2> QED
    BY <2>3, <2>4
<1>7. Operand(f, 1).back = o + JumpLength /\ k \in Int /\ f.pc + k = o + JumpLength
  BY <1>2, <1>5, <1>6 DEF ReturnAddress, JumpLength
<1>8. Goes(shape, f.pc, f.pc + k, 1, 0)
  BY <1>4, <1>7
<1>9. Running(PoppedNext(f, 1, out, k))
  <2> DEFINE h == [f EXCEPT !.output = FALSE]
  <2>1. Running([h EXCEPT !.stack = Drop(h, 1), !.pc = Operand(h, 1).back])
    BY DEF RetSub
  <2>2. h.stack = f.stack /\ h.pc = f.pc
    BY <1>3 DEF Frames
  <2>3. Drop(h, 1) = Drop(f, 1) /\ Operand(h, 1).back = f.pc + k
    BY <1>7, <2>2 DEF Drop, Operand
  <2>4. Running([h EXCEPT !.stack = Drop(f, 1), !.pc = f.pc + k])
    BY <2>1, <2>3
  <2> HIDE DEF f, k
  <2>5. [h EXCEPT !.stack = Drop(f, 1), !.pc = f.pc + k] = PoppedNext(f, 1, out, k)
    BY <1>3 DEF PoppedNext, Frames
  <2> QED
    BY <2>4, <2>5
<1>10. code[f.pc].op \notin {"setsp", "condswitch"} /\ out \in BOOLEAN
  BY <1>2
<1>11. f.pc + k \in Flow(code, shape, f.pc)
  <2>1. code[f.pc].op = "retsub"
    BY <1>2
  <2> HIDE DEF k, f, shape, code
  <2>2. o + JumpLength \in Flow(code, shape, f.pc)
    BY <2>1, FlowOf
  <2> QED
    BY <1>7, <2>2
<1> HIDE DEF k, f, out
<1> QED
  BY <1>1, <1>7, <1>8, <1>9, <1>10, <1>11, PoppedKeeps DEF f

-----------------------------------------------------------------------------
\* Instructions that first change f to h, with the same stack and mark.
LEMMA ContinuesOn ==
    ASSUME NEW code, NEW f, NEW h, Continues(code, f, h), NEW g, g.name = h.name,
           g.inherited = h.inherited, g.scopes = h.scopes, g.controls = h.controls,
           g.slots = h.slots, g.rval = h.rval
    PROVE  Continues(code, f, g)
BY DEF Continues

LEMMA ChangedPopKeeps ==
    ASSUME NEW ops, Inv, Inv', Keeping, Executing(ops), NEW f, f = Fetched(Top),
           NEW h \in Frames(DOMAIN program), Continues(CodeOf(program, f), f, h),
           h.pc = f.pc, h.stack = f.stack, h.mark = f.mark,
           NEW n \in Nat, NEW k \in Int, NEW out \in BOOLEAN,
           Running(PoppedNext(h, n, out, k)), Unchanged,
           CodeOf(program, f)[f.pc].op \notin {"setsp", "condswitch"},
           Goes(ShapeOf(program, f), f.pc, f.pc + k, n, 0),
           f.pc + k \in Flow(CodeOf(program, f), ShapeOf(program, f), f.pc)
    PROVE  Keeping'
<1> DEFINE g == PoppedNext(h, n, out, k)
           t == Drop(f, n)
<1>1. Drop(h, n) = t
  BY DEF Drop
<1>2. g = [h EXCEPT !.stack = t, !.output = out, !.pc = @ + k]
  BY <1>1 DEF PoppedNext
<1> HIDE DEF t
<1>3. /\ g.scopes = h.scopes /\ g.name = h.name /\ g.pc = f.pc + k /\ g.stack = t /\ g.mark = f.mark
      /\ g.rval = h.rval /\ g.slots = h.slots /\ g.controls = h.controls
      /\ g.inherited = h.inherited
  BY <1>2 DEF Frames
<1>4. Running(g)
  OBVIOUS
<1> HIDE DEF g
<1>5. Continues(CodeOf(program, f), f, g) /\ MarkStays(f, g, Len(f.stack) - n)
  BY <1>3, ContinuesOn DEF MarkStays
<1> QED
  BY <1>3, <1>4, <1>5, PopKeeps DEF t

LEMMA ChangedPushKeeps ==
    ASSUME NEW ops, Inv, Inv', Keeping, Executing(ops), NEW f, f = Fetched(Top),
           NEW h \in Frames(DOMAIN program), Continues(CodeOf(program, f), f, h),
           h.pc = f.pc, h.stack = f.stack, h.mark = f.mark,
           NEW n \in Nat, NEW k \in Int, NEW v \in Values, NEW out \in BOOLEAN,
           Running(PushedNext(h, n, v, out, k)), Unchanged,
           CodeOf(program, f)[f.pc].op \notin {"setsp", "condswitch"},
           Goes(ShapeOf(program, f), f.pc, f.pc + k, n, 1),
           f.pc + k \in Flow(CodeOf(program, f), ShapeOf(program, f), f.pc),
           v.secret => out
    PROVE  Keeping'
<1> DEFINE g == PushedNext(h, n, v, out, k)
           m == Mark(f, Len(Drop(f, n)) + 1, out)
           t == Put(f, n, v)
<1>1. /\ program \in Programs /\ Sound(program, source, f) /\ Ready(program, f)
      /\ n <= Len(ShapeOf(program, f)[f.pc])
  BY RunningFrame, GoesType
<1>2. Len(Drop(f, n)) = Len(f.stack) - n
  BY <1>1, DropLength
<1>3. m = Mark(f, Len(f.stack) - n + 1, out)
  BY <1>2
<1>4. g = [[h EXCEPT !.stack = t, !.mark = m, !.output = out] EXCEPT !.pc = @ + k]
  BY DEF Pushed, Put, PushedNext, Drop, Mark
<1> HIDE DEF t, m
<1>5. /\ g.scopes = h.scopes /\ g.name = h.name /\ g.pc = f.pc + k /\ g.stack = t /\ g.mark = m
      /\ g.rval = h.rval /\ g.slots = h.slots /\ g.controls = h.controls
      /\ g.inherited = h.inherited
  BY <1>4 DEF Frames
<1>6. Running(g)
  OBVIOUS
<1> HIDE DEF g
<1>7. Continues(CodeOf(program, f), f, g)
  BY <1>5, ContinuesOn
<1> QED
  BY <1>3, <1>5, <1>6, <1>7, MarkedPushKeeps DEF t

LEMMA ForVarKeeps == Inv /\ Inv' /\ Keeping /\ ForVar => Keeping'
<1> SUFFICES ASSUME Inv, Inv', Keeping, ForVar PROVE Keeping'
  OBVIOUS
<1> DEFINE f == Fetched(Top)
           ops == {"forvar"}
           a == CodeOf(program, f)[f.pc].arg
           o == Operand(f, 1)
           used == {o}
           out == Output(f, used)
           secret == Depends(f, used)
           v == Value(FALSE, secret)
           w == Value(out, secret)
<1>1. Executing(ops) /\ Unchanged
  BY DEF ForVar
<1>2. /\ f \in Frames(DOMAIN program)
      /\ Balanced(CodeOf(program, f), ShapeOf(program, f), f.pc)
      /\ Linked(program, CodeOf(program, f), ShapeOf(program, f), f.pc)
      /\ Code(f) = CodeOf(program, f) /\ CodeOf(program, f)[f.pc].op \in ops
      /\ ShapeOf(program, f)[f.pc] \in Seq(SUBSET DOMAIN CodeOf(program, f))
  BY <1>1, RunningFrame DEF Sound
<1>3. /\ Goes(ShapeOf(program, f), f.pc, f.pc + JumpLength, 0, 1) /\ JumpLength \in Int
      /\ a \in Slots /\ Len(ShapeOf(program, f)[f.pc]) > 0
  BY <1>2 DEF Balanced, Linked, JumpLength
<1>4. f.pc + JumpLength \in Flow(CodeOf(program, f), ShapeOf(program, f), f.pc)
  BY <1>2 DEF Flow, LongOps
<1>5. 1 <= Len(ShapeOf(program, f)[f.pc])
  BY <1>2, <1>3
<1>6. \A x \in used : Loose(x) => StackTainted(f)
  BY <1>1, <1>5, OperandsAreSeen
<1>7. PICK more \in BOOLEAN :
        LET g == IF more THEN [f EXCEPT !.slots[a] = w] ELSE f
        IN  Advance(Pushed(g, g.stack, v, out), JumpLength)
  BY <1>2 DEF ForVar
<1> DEFINE h == IF more THEN [f EXCEPT !.slots[a] = w] ELSE f
<1>8. Advance(Pushed(h, h.stack, v, out), JumpLength)
  BY <1>7
<1> HIDE DEF o, used
<1>9. /\ secret \in BOOLEAN /\ out \in BOOLEAN /\ (secret => out) /\ (Controlled(f) => secret)
  BY <1>1, <1>6, DependsIsSeen, OutputType DEF Depends
<1> HIDE DEF secret, out
<1>10. v \in Values /\ w \in Values /\ v.secret = secret /\ ~Loose(w)
  BY <1>9 DEF Value, Values, Loose
<1>11. CodeOf(program, f)[f.pc].op \notin {"setsp", "condswitch"}
  BY <1>2
<1> HIDE DEF f, v, w, a
<1>12. /\ h \in Frames(DOMAIN program) /\ h.scopes = f.scopes /\ h.name = f.name /\ h.pc = f.pc
       /\ h.stack = f.stack /\ h.mark = f.mark /\ h.rval = f.rval /\ h.controls = f.controls
       /\ h.inherited = f.inherited /\ h.slots = IF more THEN [f.slots EXCEPT ![a] = w] ELSE f.slots
  BY <1>2, <1>3, <1>10 DEF Frames
<1> HIDE DEF h
<1>13. \A s \in Slots : Loose(h.slots[s]) => Loose(f.slots[s])
  BY <1>2, <1>10, <1>12 DEF Frames
<1>14. Continues(CodeOf(program, f), f, h)
  BY <1>12, <1>13, ChangedContinues
<1>15. Running(PushedNext(h, 0, v, out, JumpLength))
  <2>1. Drop(h, 0) = h.stack
    BY <1>12, DropNone
  <2> QED
    BY <1>8, <2>1 DEF Advance, PushedNext
<1> QED
  BY <1>1, <1>3, <1>4, <1>9, <1>10, <1>11, <1>12, <1>14, <1>15, ChangedPushKeeps DEF f

-----------------------------------------------------------------------------
\* The scope from pc to target has room for the body of the instruction at pc.
Encloses(code, pc, target) ==
    Min({pc, target}) <= Body(code, pc)[1] /\ Body(code, pc)[2] <= Max({pc, target})

\* What the instruction at pc opens its scope with: one that depends on a secret is
\* tainted, and it encloses the body.
Opening(code, pc, target, out, secret) ==
    /\ target \in Int /\ out \in BOOLEAN /\ secret \in BOOLEAN
    /\ secret => out /\ Encloses(code, pc, target)

\* The frame h is f with one more scope, the one from f.pc to target.
Opened(p, f, h, target) ==
    /\ Continues(CodeOf(p, f), f, h) /\ h \in Frames(DOMAIN p)
    /\ h.pc = f.pc /\ h.stack = f.stack /\ h.mark = f.mark
    /\ Len(h.scopes) = Len(f.scopes) + 1
    /\ h.scopes[Len(h.scopes)].op = CodeOf(p, f)[f.pc].op
    /\ h.scopes[Len(h.scopes)].from = Min({f.pc, target})
    /\ h.scopes[Len(h.scopes)].to = Max({f.pc, target})

\* An instruction that opens a scope: the body it decides about lies inside.
LEMMA WithScopeContinues ==
    ASSUME Inv, NEW f, Sound(program, source, f), f.pc \in Nat,
           f.pc \in DOMAIN CodeOf(program, f), CodeOf(program, f)[f.pc] \in Cells,
           NEW target, NEW out, NEW secret,
           Opening(CodeOf(program, f), f.pc, target, out, secret)
    PROVE  Opened(program, f, WithScope(f, target, out, secret), target)
<1> DEFINE h == WithScope(f, target, out, secret)
           cell == CodeOf(program, f)[f.pc]
           lo == Min({f.pc, target})
           hi == Max({f.pc, target})
           prev == ScopeTainted(f)
           body == <<f.pc + cell.body[1], f.pc + cell.body[2]>>
           new == [istainted |-> out, prev |-> prev, opened |-> out,
                   op |-> cell.op, from |-> lo, to |-> hi]
           grown == Append(f.scopes, new)
           live == IF secret THEN f.controls \cup {body} ELSE f.controls
<1>1. /\ f \in Frames(DOMAIN program) /\ f.scopes \in Seq(Scopes)
      /\ target \in Int /\ out \in BOOLEAN /\ secret \in BOOLEAN
      /\ secret => out /\ Encloses(CodeOf(program, f), f.pc, target)
  BY DEF Sound, Frames, Opening
<1>2. Code(f) = CodeOf(program, f)
  BY DEF Code, Script, CodeOf
<1>3. h = [f EXCEPT !.scopes = grown, !.controls = live]
  BY <1>2 DEF WithScope
<1> HIDE DEF h
<1>4. h \in Frames(DOMAIN program)
  <2>1. lo \in Int /\ hi \in Int /\ lo <= hi
    <3>1. f.pc \in Int /\ target \in Int
      BY <1>1
    <3>2. lo \in {f.pc, target} /\ hi \in {f.pc, target} /\ lo <= hi
      BY <3>1, Ordered
    <3> QED
      BY <3>1, <3>2
  <2>2. prev \in BOOLEAN /\ cell.op \in STRING /\ cell.body \in Int \X Int
    BY OutputType DEF Cells
  <2> HIDE DEF lo, hi
  <2>3. new \in Scopes
    <3> HIDE DEF prev, cell
    <3> QED
      BY <1>1, <2>1, <2>2 DEF Scopes
  <2>4. body \in Int \X Int
    BY <2>2
  <2>5. grown \in Seq(Scopes)
    BY <1>1, <2>3
  <2> HIDE DEF new, body, prev, cell
  <2>6. live \in SUBSET (Int \X Int)
    BY <1>1, <2>4 DEF Frames
  <2> HIDE DEF grown, live
  <2> QED
    BY <1>1, <1>3, <2>5, <2>6 DEF Frames
<1>5. body = Body(CodeOf(program, f), f.pc)
  BY DEF Body
<1>6. new.opened = out /\ new.op = cell.op /\ new.from = lo /\ new.to = hi
  OBVIOUS
<1>7. secret => new.opened /\ new.from <= body[1] /\ body[2] <= new.to
  BY <1>1, <1>5, <1>6 DEF Encloses
<1> HIDE DEF lo, hi, prev, new, body
<1>8. /\ Len(grown) = Len(f.scopes) + 1 /\ grown[Len(grown)] = new /\ Len(grown) \in DOMAIN grown
      /\ \A k \in DOMAIN f.scopes : k \in DOMAIN grown /\ grown[k] = f.scopes[k]
      /\ \A k \in DOMAIN grown : k \in DOMAIN f.scopes \/ k = Len(grown)
  BY <1>1
<1>9. \A c \in live : c \in f.controls \/ (secret /\ c = body)
  BY <1>1
<1> HIDE DEF grown, live
<1>10. /\ h.scopes = grown /\ h.controls = live /\ h.name = f.name /\ h.pc = f.pc
       /\ h.stack = f.stack /\ h.mark = f.mark /\ h.rval = f.rval
       /\ h.slots = f.slots /\ h.inherited = f.inherited
  BY <1>1, <1>3 DEF Frames
<1>11. Continues(CodeOf(program, f), f, h)
  BY <1>5, <1>6, <1>7, <1>8, <1>9, <1>10 DEF Continues
<1>12. Opened(program, f, h, target)
  BY <1>4, <1>6, <1>8, <1>10, <1>11 DEF lo, hi, Opened
<1> QED
  BY <1>12 DEF h

LEMMA Bounds ==
    ASSUME NEW a \in Int, NEW b \in Int
    PROVE  /\ Min({a, b}) <= a /\ Min({a, b}) <= b
           /\ Max({a, b}) >= a /\ Max({a, b}) >= b
<1>1. \E x \in {a, b} : \A y \in {a, b} : x <= y
  OBVIOUS
<1>2. \E x \in {a, b} : \A y \in {a, b} : x >= y
  OBVIOUS
<1> QED
  BY <1>1, <1>2 DEF Min, Max

\* The scope of a statement.
LEMMA OpensKeeps ==
    ASSUME NEW ops, Inv, Keeping, Executing(ops), NEW f, f = Fetched(Top),
           CodeOf(program, f)[f.pc].op \in Deciding,
           NEW used, \A v \in used : Loose(v) => StackTainted(f),
           NEW h, h = WithScope(f, ScopeEnd(Code(f), f.pc), Output(f, used), Depends(f, used))
    PROVE  /\ Continues(CodeOf(program, f), f, h) /\ h \in Frames(DOMAIN program)
           /\ h.pc = f.pc /\ h.stack = f.stack /\ h.mark = f.mark
           /\ Len(h.scopes) = Len(f.scopes) + 1
           /\ h.scopes[Len(h.scopes)].op = CodeOf(program, f)[f.pc].op
           /\ h.scopes[Len(h.scopes)].from <= f.pc
           /\ h.scopes[Len(h.scopes)].to >= ScopeEnd(Code(f), f.pc)
<1> DEFINE target == ScopeEnd(Code(f), f.pc)
           out == Output(f, used)
           secret == Depends(f, used)
           code == CodeOf(program, f)
<1>1. /\ Sound(program, source, f) /\ f.pc \in Nat /\ Code(f) = CodeOf(program, f)
      /\ f.pc \in DOMAIN CodeOf(program, f) /\ CodeOf(program, f)[f.pc] \in Cells
  BY RunningFrame
<1>2. target \in Int
  BY ScopeEndType
<1>3. out \in BOOLEAN /\ secret \in BOOLEAN /\ (secret => out)
  BY DependsIsSeen, OutputType
<1>4. WellNested(CodeOf(program, f), ShapeOf(program, f), f.pc)
  BY KeepingFrame
<1>5. Encloses(code, f.pc, target)
  BY <1>1, <1>4 DEF WellNested, Encloses
<1>6. Min({f.pc, target}) <= f.pc /\ Max({f.pc, target}) >= target
  BY <1>1, <1>2, Bounds
<1>7. h = WithScope(f, target, out, secret)
  OBVIOUS
<1> HIDE DEF target, out, secret
<1>8. Opening(CodeOf(program, f), f.pc, target, out, secret)
  BY <1>2, <1>3, <1>5 DEF Opening
<1>9. /\ Continues(CodeOf(program, f), f, h) /\ h \in Frames(DOMAIN program)
      /\ h.pc = f.pc /\ h.stack = f.stack /\ h.mark = f.mark
      /\ Len(h.scopes) = Len(f.scopes) + 1
      /\ h.scopes[Len(h.scopes)].op = CodeOf(program, f)[f.pc].op
      /\ h.scopes[Len(h.scopes)].from = Min({f.pc, target})
      /\ h.scopes[Len(h.scopes)].to = Max({f.pc, target})
  <2>1. Opened(program, f, WithScope(f, target, out, secret), target)
    BY <1>1, <1>8, WithScopeContinues
  <2>2. Opened(program, f, h, target)
    BY <1>7, <2>1
  <2> QED
    BY <2>2 DEF Opened
<1> QED
  BY <1>6, <1>9 DEF target

LEMMA BranchKeeps == Inv /\ Inv' /\ Keeping /\ Branch => Keeping'
<1> SUFFICES ASSUME Inv, Inv', Keeping, Branch PROVE Keeping'
  OBVIOUS
<1> DEFINE f == Fetched(Top)
           ops == {"ifeq", "ifne", "or", "and"}
           c == CodeOf(program, f)[f.pc]
           o == Operand(f, 1)
           used == {o}
           out == Output(f, used)
           secret == Depends(f, used)
           v == Value(o.tainted, secret)
           h == WithScope(f, ScopeEnd(Code(f), f.pc), out, secret)
           g == [h EXCEPT !.stack = Drop(f, 1), !.output = out]
<1>1. Executing(ops) /\ Unchanged
  BY DEF Branch
<1>2. /\ Balanced(CodeOf(program, f), ShapeOf(program, f), f.pc)
      /\ Code(f) = CodeOf(program, f) /\ c.op \in ops /\ c \in Cells
  BY <1>1, RunningFrame
<1>3. Goes(ShapeOf(program, f), f.pc, f.pc + JumpLength, 1, 0) /\ JumpLength \in Int /\ c.jump \in Int
  BY <1>2 DEF Balanced, JumpLength, Cells
<1>4. 1 <= Len(ShapeOf(program, f)[f.pc])
  BY <1>1, <1>3, GoesType
<1>5. (\A x \in used : Loose(x) => StackTainted(f)) /\ o.tainted \in BOOLEAN
  BY <1>1, <1>4, OperandsAreSeen
<1>6. PICK jumps \in BOOLEAN :
        CASE ~jumps -> Advance(g, JumpLength)
          [] jumps /\ c.op \in {"ifeq", "ifne"} -> Advance(g, c.jump)
          [] OTHER -> Advance(Pushed(g, g.stack, v, out), c.jump)
  BY <1>2 DEF Branch
<1> HIDE DEF o, used
<1>7. /\ secret \in BOOLEAN /\ out \in BOOLEAN /\ (secret => out) /\ (Controlled(f) => secret)
      /\ v \in Values /\ v.secret = secret
  BY <1>1, <1>5, DependsIsSeen, OutputType, ValueType DEF Depends, Value
<1>8. CodeOf(program, f)[f.pc].op \in Deciding
  BY <1>2 DEF Deciding
<1>9. /\ Continues(CodeOf(program, f), f, h) /\ h \in Frames(DOMAIN program)
      /\ h.pc = f.pc /\ h.stack = f.stack /\ h.mark = f.mark
  BY <1>1, <1>5, <1>8, OpensKeeps
<1>10. Drop(h, 1) = Drop(f, 1)
  BY <1>9 DEF Drop
<1>11. CodeOf(program, f)[f.pc].op \notin {"setsp", "condswitch"}
  BY <1>2
<1>12. /\ f.pc + JumpLength \in Flow(CodeOf(program, f), ShapeOf(program, f), f.pc)
       /\ f.pc + c.jump \in Flow(CodeOf(program, f), ShapeOf(program, f), f.pc)
  <2>1. c.op \in {"ifeq", "ifne", "or", "and", "case"}
    BY <1>2
  <2> HIDE DEF f
  <2> QED
    BY <2>1, FlowOf
<1> HIDE DEF h, f, v, out, secret, c
<1>13. CASE ~jumps \/ c.op \in {"ifeq", "ifne"}
  <2> DEFINE k == IF jumps THEN c.jump ELSE JumpLength
  <2>1. Goes(ShapeOf(program, f), f.pc, f.pc + k, 1, 0) /\ k \in Int
    BY <1>2, <1>3, <1>13 DEF Balanced, c
  <2>2. Advance(g, k) /\ f.pc + k \in Flow(CodeOf(program, f), ShapeOf(program, f), f.pc)
    BY <1>6, <1>12, <1>13
  <2> HIDE DEF k
  <2>3. [g EXCEPT !.pc = @ + k] = PoppedNext(h, 1, out, k)
    BY <1>9, <1>10 DEF PoppedNext, Frames
  <2>4. Running(PoppedNext(h, 1, out, k))
    BY <2>2, <2>3 DEF Advance
  <2> QED
    BY <1>1, <1>7, <1>9, <1>11, <2>1, <2>2, <2>4, ChangedPopKeeps DEF f
<1>14. CASE jumps /\ c.op \notin {"ifeq", "ifne"}
  <2> DEFINE k == c.jump
  <2>1. Goes(ShapeOf(program, f), f.pc, f.pc + k, 1, 1) /\ k \in Int
    BY <1>2, <1>3, <1>14 DEF Balanced, c
  <2>2. /\ Advance(Pushed(g, g.stack, v, out), k)
        /\ f.pc + k \in Flow(CodeOf(program, f), ShapeOf(program, f), f.pc)
    BY <1>6, <1>12, <1>14
  <2> HIDE DEF k
  <2>3. [Pushed(g, g.stack, v, out) EXCEPT !.pc = @ + k] = PushedNext(h, 1, v, out, k)
    <3>1. g.stack = Drop(h, 1) /\ g.mark = h.mark
      BY <1>9, <1>10 DEF Frames
    <3>2. \A i : Mark(g, i, out) = Mark(h, i, out)
      BY <3>1 DEF Mark
    <3>3. Pushed(g, Drop(h, 1), v, out) = Pushed(h, Drop(h, 1), v, out)
      BY <1>9, <3>1, <3>2 DEF Pushed, Frames
    <3> QED
      BY <3>1, <3>3 DEF PushedNext
  <2>4. Running(PushedNext(h, 1, v, out, k))
    BY <2>2, <2>3 DEF Advance
  <2> QED
    BY <1>1, <1>7, <1>9, <1>11, <2>1, <2>2, <2>4, ChangedPushKeeps DEF f
<1> QED
  BY <1>13, <1>14

LEMMA SwitchJumpsKeeps == Inv /\ Inv' /\ Keeping /\ SwitchJumps => Keeping'
<1> SUFFICES ASSUME Inv, Inv', Keeping, SwitchJumps PROVE Keeping'
  OBVIOUS
<1> DEFINE f == Fetched(Top)
           ops == {"tableswitch", "lookupswitch"}
           o == Operand(f, 1)
           used == {o}
           out == Output(f, used)
           h == WithScope(f, ScopeEnd(Code(f), f.pc), out, Depends(f, used))
<1>1. Executing(ops) /\ Unchanged
  BY DEF SwitchJumps
<1>2. /\ Balanced(CodeOf(program, f), ShapeOf(program, f), f.pc)
      /\ CodeOf(program, f)[f.pc].op \in ops /\ CodeOf(program, f)[f.pc] \in Cells
      /\ ShapeOf(program, f)[f.pc] \in Seq(SUBSET DOMAIN CodeOf(program, f))
      /\ Code(f) = CodeOf(program, f)
  BY <1>1, RunningFrame
<1>3. PICK k \in CodeOf(program, f)[f.pc].cases :
          Advance([h EXCEPT !.stack = Drop(f, 1), !.output = out], k)
  BY <1>2 DEF SwitchJumps
<1>4. /\ Goes(ShapeOf(program, f), f.pc, f.pc + k, 1, 0) /\ k \in Int
      /\ 1 <= Len(ShapeOf(program, f)[f.pc])
  BY <1>2 DEF Balanced, Cells
<1>5. f.pc + k \in Flow(CodeOf(program, f), ShapeOf(program, f), f.pc)
  <2>1. CodeOf(program, f)[f.pc].op \in {"tableswitch", "lookupswitch"}
    BY <1>2
  <2> HIDE DEF f
  <2> QED
    BY <1>3, <2>1, FlowOf
<1>6. \A x \in used : Loose(x) => StackTainted(f)
  BY <1>1, <1>4, OperandsAreSeen
<1> HIDE DEF o, used
<1>7. out \in BOOLEAN
  BY OutputType
<1>8. CodeOf(program, f)[f.pc].op \in Deciding
  BY <1>2 DEF Deciding
<1>9. /\ Continues(CodeOf(program, f), f, h) /\ h \in Frames(DOMAIN program)
      /\ h.pc = f.pc /\ h.stack = f.stack /\ h.mark = f.mark
  BY <1>1, <1>6, <1>8, OpensKeeps
<1>10. Drop(h, 1) = Drop(f, 1)
  BY <1>9 DEF Drop
<1>11. CodeOf(program, f)[f.pc].op \notin {"setsp", "condswitch"}
  BY <1>2
<1> HIDE DEF h, f, out
<1>12. Running(PoppedNext(h, 1, out, k))
  <2>1. [[h EXCEPT !.stack = Drop(f, 1), !.output = out] EXCEPT !.pc = @ + k]
          = PoppedNext(h, 1, out, k)
    BY <1>9, <1>10 DEF PoppedNext, Frames
  <2> QED
    BY <1>3, <2>1 DEF Advance
<1> QED
  BY <1>1, <1>4, <1>5, <1>7, <1>9, <1>11, <1>12, ChangedPopKeeps DEF f

LEMMA EnterWithKeeps == Inv /\ Inv' /\ Keeping /\ EnterWith => Keeping'
<1> SUFFICES ASSUME Inv, Inv', Keeping, EnterWith PROVE Keeping'
  OBVIOUS
<1> DEFINE f == Fetched(Top)
           ops == {"enterwith"}
           k == 1
           o == Operand(f, 1)
           used == {o}
           out == Output(f, used)
           secret == Depends(f, used)
           v == Value(FALSE, secret)
           h == WithScope(f, ScopeEnd(Code(f), f.pc), out, secret)
<1>1. Executing(ops) /\ Unchanged /\ Advance(Pushed(h, Drop(f, 1), v, out), k)
  BY DEF EnterWith
<1>2. /\ Balanced(CodeOf(program, f), ShapeOf(program, f), f.pc)
      /\ CodeOf(program, f)[f.pc].op \in ops
  BY <1>1, RunningFrame
<1>3. Goes(ShapeOf(program, f), f.pc, f.pc + k, 1, 1) /\ k \in Int
  BY <1>2 DEF Balanced
<1>4. f.pc + k \in Flow(CodeOf(program, f), ShapeOf(program, f), f.pc)
  BY <1>2 DEF Flow, LongOps
<1>5. 1 <= Len(ShapeOf(program, f)[f.pc])
  BY <1>1, <1>3, GoesType
<1>6. \A x \in used : Loose(x) => StackTainted(f)
  BY <1>1, <1>5, OperandsAreSeen
<1> HIDE DEF o, used
<1>7. /\ secret \in BOOLEAN /\ out \in BOOLEAN /\ (secret => out) /\ (Controlled(f) => secret)
      /\ v \in Values /\ v.secret = secret
  BY <1>1, <1>6, DependsIsSeen, OutputType, ValueType DEF Depends, Value
<1>8. CodeOf(program, f)[f.pc].op \in Deciding
  BY <1>2 DEF Deciding
<1>9. /\ Continues(CodeOf(program, f), f, h) /\ h \in Frames(DOMAIN program)
      /\ h.pc = f.pc /\ h.stack = f.stack /\ h.mark = f.mark
  BY <1>1, <1>6, <1>8, OpensKeeps
<1>10. Drop(h, 1) = Drop(f, 1)
  BY <1>9 DEF Drop
<1>11. CodeOf(program, f)[f.pc].op \notin {"setsp", "condswitch"}
  BY <1>2
<1> HIDE DEF h, f, out, v, secret
<1>12. Running(PushedNext(h, 1, v, out, k))
  BY <1>1, <1>10 DEF PushedNext, Advance
<1> HIDE DEF k
<1> QED
  BY <1>1, <1>3, <1>4, <1>7, <1>9, <1>11, <1>12, ChangedPushKeeps DEF f

\* The scope of a CONDSWITCH is the one of its cases.
LEMMA SwitchBeginsKeeps == Inv /\ Inv' /\ Keeping /\ SwitchBegins => Keeping'
<1> SUFFICES ASSUME Inv, Inv', Keeping, SwitchBegins PROVE Keeping'
  OBVIOUS
<1> DEFINE f == Fetched(Top)
           ops == {"condswitch"}
           k == 1
           o == Operand(f, 1)
           used == {o}
           out == Output(f, used)
           h == WithScope(f, ScopeEnd(Code(f), f.pc), out, Depends(f, used))
           g == [[h EXCEPT !.output = out] EXCEPT !.pc = @ + k]
           code == CodeOf(program, f)
           shape == ShapeOf(program, f)
<1>1. Executing(ops) /\ Unchanged /\ Running(g)
  BY DEF SwitchBegins, Advance
<1>2. /\ Balanced(code, shape, f.pc) /\ code[f.pc].op \in ops /\ f.pc \in DOMAIN code
      /\ shape[f.pc] \in Seq(SUBSET DOMAIN code) /\ Code(f) = code /\ f.pc \in Nat
      /\ program \in Programs /\ Sound(program, source, f) /\ Ready(program, f)
      /\ code[f.pc] \in Cells
  BY <1>1, RunningFrame
<1>3. Goes(shape, f.pc, f.pc + k, 0, 0) /\ 1 <= Len(shape[f.pc])
  BY <1>2 DEF Balanced
<1>4. f.pc + k \in Flow(code, shape, f.pc)
  BY <1>2 DEF Flow, LongOps
<1>5. \A x \in used : Loose(x) => StackTainted(f)
  BY <1>1, <1>3, OperandsAreSeen
<1> HIDE DEF o, used
<1>6. code[f.pc].op \in Deciding /\ ScopeEnd(code, f.pc) = f.pc + code[f.pc].note
  BY <1>2 DEF Deciding, ScopeEnd
<1>7. /\ Continues(code, f, h) /\ h \in Frames(DOMAIN program)
      /\ h.pc = f.pc /\ h.stack = f.stack /\ h.mark = f.mark
      /\ Len(h.scopes) = Len(f.scopes) + 1
      /\ h.scopes[Len(h.scopes)].op = code[f.pc].op
      /\ h.scopes[Len(h.scopes)].from <= f.pc
      /\ h.scopes[Len(h.scopes)].to >= f.pc + code[f.pc].note
  BY <1>1, <1>2, <1>5, <1>6, OpensKeeps
<1>8. /\ Guarded(program, f) /\ WellNested(code, shape, f.pc)
      /\ f \in Frames(DOMAIN program)
  BY <1>1, KeepingFrame
<1>9. Drop(f, 0) = f.stack
  BY <1>8, DropNone
<1> HIDE DEF h, f, out
<1>10. /\ g.scopes = h.scopes /\ g.name = h.name /\ g.pc = f.pc + k /\ g.stack = f.stack
       /\ g.mark = f.mark /\ g.rval = h.rval /\ g.slots = h.slots /\ g.controls = h.controls
       /\ g.inherited = h.inherited
  BY <1>7 DEF Frames
<1> HIDE DEF g
<1>11. Continues(code, f, g) /\ MarkStays(f, g, Len(f.stack) - 0)
  BY <1>7, <1>10, ContinuesOn DEF MarkStays
<1>12. code[f.pc].op # "setsp"
  BY <1>2
<1>13. /\ g \in Frames(DOMAIN program) /\ g.scopes \in Seq(Scopes)
       /\ program' = program /\ ~Loose(exception') /\ ~throwing'
  BY <1>1, Runs
<1>14. CodeOf(program, g) = code /\ ShapeOf(program, g) = shape
  BY <1>11 DEF Continues, CodeOf, ShapeOf
<1>15. \A j \in DOMAIN g.stack : Loose(g.stack[j]) => Marks(g.mark, j)
  <2> DEFINE n == 0
             to == f.pc + k
  <2>1. /\ Goes(shape, f.pc, to, n, 0) /\ g.stack = Drop(f, n) /\ MarkStays(f, g, Len(f.stack) - n)
        /\ n \in Nat
    BY <1>3, <1>9, <1>10, <1>11
  <2> HIDE DEF n, to
  <2> QED
    BY <1>2, <1>8, <1>12, <2>1, DropMarked
<1>16. InOwnSwitch(code, g)
  <2> SUFFICES ASSUME NEW q \in DOMAIN code, InCases(code, q, g.pc)
               PROVE  \E i \in DOMAIN g.scopes :
                          /\ g.scopes[i].op = "condswitch"
                          /\ g.scopes[i].from <= q /\ q + code[q].note <= g.scopes[i].to
                          /\ \A j \in i + 1..Len(g.scopes) : g.scopes[j].op # "condswitch"
    BY DEF InOwnSwitch
  <2>1. q = f.pc
    BY <1>2, <1>4, <1>8, <1>10 DEF WellNested, InCases
  <2>2. /\ Len(g.scopes) = Len(f.scopes) + 1 /\ g.scopes[Len(g.scopes)].op = "condswitch"
        /\ g.scopes[Len(g.scopes)].from <= q /\ q + code[q].note <= g.scopes[Len(g.scopes)].to
    <3> DEFINE last == g.scopes[Len(g.scopes)]
               to == last.to
    <3>1. to \in Int /\ f.pc + code[f.pc].note \in Int /\ to >= f.pc + code[f.pc].note
      <4>1. Len(f.scopes) \in Nat
        BY <1>8 DEF Frames
      <4>2. Len(g.scopes) \in DOMAIN g.scopes
        BY <1>7, <1>10, <1>13, <4>1
      <4>3. last \in Scopes
        BY <1>13, <4>2
      <4>4. last.to >= f.pc + code[f.pc].note
        BY <1>7, <1>10
      <4>5. f.pc + code[f.pc].note \in Int
        BY <1>2 DEF Cells
      <4> HIDE DEF last
      <4>6. last.to \in Int
        BY <4>3 DEF Scopes
      <4> QED
        BY <4>4, <4>5, <4>6
    <3>2. f.pc + code[f.pc].note <= to
      <4> HIDE DEF to
      <4> QED
        BY <3>1
    <3> QED
      BY <1>2, <1>7, <1>10, <2>1, <3>2
  <2>3. Len(f.scopes) \in Nat
    BY <1>8 DEF Frames
  <2>4. Len(g.scopes) \in DOMAIN g.scopes
    BY <1>13, <2>2, <2>3
  <2>5. Len(g.scopes) + 1..Len(g.scopes) = {}
    BY <2>2, <2>3
  <2> QED
    BY <2>2, <2>4, <2>5
<1>17. Prepared(program, g)
  BY <1>10, <1>14, <1>16 DEF Prepared
<1> QED
  BY <1>1, <1>11, <1>13, <1>15, <1>17, InstructionKeeps DEF f

\* The scopes of switches, and the end of the innermost one.
Switches(f) == {i \in DOMAIN f.scopes : f.scopes[i].op = "condswitch"}
SwitchEnd(f) == f.scopes[Max(Switches(f))].to

\* The scope of a case reaches to the end of its switch.
LEMMA CaseOpens ==
    ASSUME NEW ops, Inv, Keeping, Executing(ops), NEW f, f = Fetched(Top),
           CodeOf(program, f)[f.pc].op = "case",
           NEW used, \A v \in used : Loose(v) => StackTainted(f),
           Switches(f) # {}, NEW h, h = WithScope(f, SwitchEnd(f), Output(f, used), Depends(f, used))
    PROVE  Opened(program, f, h, SwitchEnd(f))
<1> DEFINE code == CodeOf(program, f)
           switches == Switches(f)
           last == Max(switches)
           target == f.scopes[last].to
           out == Output(f, used)
           secret == Depends(f, used)
           body == Body(code, f.pc)
<1>1. /\ Sound(program, source, f) /\ f.pc \in Nat /\ f.pc \in DOMAIN code /\ code[f.pc] \in Cells
      /\ program \in Programs /\ f.name \in DOMAIN program
  BY RunningFrame
<1>2. f.scopes \in Seq(Scopes) /\ Len(f.scopes) \in Nat /\ DOMAIN f.scopes = 1..Len(f.scopes)
  BY <1>1 DEF Sound, Frames
<1>3. switches \in SUBSET (1..Len(f.scopes))
  BY <1>2 DEF Switches
<1>4. last \in switches /\ \A i \in switches : last >= i
  BY <1>2, <1>3, Greatest
<1>5. InOwnSwitch(code, f) /\ WellNested(code, ShapeOf(program, f), f.pc)
  BY KeepingFrame
<1>6. PICK q \in DOMAIN code : /\ InCases(code, q, f.pc) /\ f.pc <= body[1]
                               /\ body[2] <= q + code[q].note
  BY <1>5 DEF WellNested
<1>7. PICK k \in DOMAIN f.scopes :
        /\ f.scopes[k].op = "condswitch" /\ q + code[q].note <= f.scopes[k].to
        /\ \A i \in k + 1..Len(f.scopes) : f.scopes[i].op # "condswitch"
  BY <1>5, <1>6 DEF InOwnSwitch
<1>8. last = k
  <2>1. k \in switches /\ last \in 1..Len(f.scopes) /\ f.scopes[last].op = "condswitch"
    BY <1>3, <1>4, <1>7 DEF Switches
  <2>2. last >= k
    BY <1>4, <2>1
  <2> HIDE DEF last
  <2>3. ~(last \in k + 1..Len(f.scopes))
    BY <1>7, <2>1
  <2> QED
    BY <1>2, <2>1, <2>2, <2>3
<1>9. out \in BOOLEAN /\ secret \in BOOLEAN /\ (secret => out)
  BY DependsIsSeen, OutputType
<1>10. f.scopes[k] \in Scopes
  BY <1>2
<1>11. target \in Int
  BY <1>8, <1>10 DEF Scopes
<1>12. /\ q \in Int /\ code[q].note \in Int /\ body[1] \in Int /\ body[2] \in Int
  BY <1>1, BodyType DEF Cells
<1>13. Min({f.pc, target}) <= f.pc /\ Max({f.pc, target}) >= target
       /\ Min({f.pc, target}) \in {f.pc, target} /\ Max({f.pc, target}) \in {f.pc, target}
  <2>1. f.pc \in Int
    BY <1>1
  <2> HIDE DEF target
  <2>2. /\ Min({f.pc, target}) \in {f.pc, target} /\ Max({f.pc, target}) \in {f.pc, target}
        /\ Min({f.pc, target}) <= f.pc /\ Max({f.pc, target}) >= target
    BY <1>11, <2>1, Bounds, Ordered
  <2> QED
    BY <2>2
<1>14. Encloses(code, f.pc, target)
  <2> DEFINE lo == Min({f.pc, target})
             hi == Max({f.pc, target})
  <2>1. lo <= f.pc /\ hi >= target
    BY <1>13
  <2>2. q + code[q].note <= target
    BY <1>7, <1>8
  <2> HIDE DEF target, body, code
  <2>3. lo \in Int /\ hi \in Int
    BY <1>1, <1>11, <1>13
  <2> HIDE DEF lo, hi
  <2>4. lo <= body[1] /\ body[2] <= hi
    BY <1>1, <1>6, <1>11, <1>12, <2>1, <2>2, <2>3
  <2> QED
    BY <2>4 DEF lo, hi, body, Encloses
<1>15. h = WithScope(f, target, out, secret) /\ target = SwitchEnd(f)
  BY DEF SwitchEnd
<1> HIDE DEF target, out, secret
<1>16. Opening(CodeOf(program, f), f.pc, target, out, secret)
  BY <1>9, <1>11, <1>14 DEF Opening
<1>17. Opened(program, f, WithScope(f, target, out, secret), target)
  BY <1>1, <1>16, WithScopeContinues
<1>18. Opened(program, f, h, target)
  BY <1>15, <1>17
<1> QED
  BY <1>15, <1>18

LEMMA CaseKeeps == Inv /\ Inv' /\ Keeping /\ Case => Keeping'
<1> SUFFICES ASSUME Inv, Inv', Keeping, Case PROVE Keeping'
  OBVIOUS
<1> DEFINE f == Fetched(Top)
           ops == {"case"}
           c == CodeOf(program, f)[f.pc]
           a == Operand(f, 1)
           b == Operand(f, 2)
           used == {a, b}
           out == Output(f, used)
           secret == Depends(f, used)
           v == Value(FALSE, Depends(f, {b}))
           rest == Drop(f, 2)
           switches == {i \in DOMAIN f.scopes : f.scopes[i].op = "condswitch"}
           g == IF out /\ switches # {} THEN WithScope(f, f.scopes[Max(switches)].to, out, secret) ELSE f
           mark == IF Len(rest) < g.mark THEN NoMark ELSE g.mark
           h == [g EXCEPT !.stack = rest, !.output = out, !.mark = mark]
<1>1. Executing(ops) /\ Unchanged
  BY DEF Case
<1>2. /\ Balanced(CodeOf(program, f), ShapeOf(program, f), f.pc) /\ Sound(program, source, f)
      /\ Code(f) = CodeOf(program, f) /\ c.op \in ops /\ c \in Cells /\ f.pc \in Nat
      /\ program \in Programs /\ Ready(program, f)
  BY <1>1, RunningFrame
<1>3. /\ Goes(ShapeOf(program, f), f.pc, f.pc + c.jump, 2, 0) /\ c.jump \in Int
      /\ Goes(ShapeOf(program, f), f.pc, f.pc + JumpLength, 2, 1) /\ JumpLength \in Int
  BY <1>2 DEF Balanced, JumpLength, Cells
<1>4. 2 <= Len(ShapeOf(program, f)[f.pc])
  BY <1>1, <1>3, GoesType
<1>5. (\A x \in used : Loose(x) => StackTainted(f)) /\ \A x \in {b} : Loose(x) => StackTainted(f)
  <2>1. (Loose(a) => StackTainted(f)) /\ (Loose(b) => StackTainted(f))
    BY <1>1, <1>4, OperandsAreSeen
  <2> HIDE DEF f, a, b
  <2> QED
    BY <2>1
<1>6. PICK jumps \in BOOLEAN :
        IF jumps THEN Advance(h, c.jump)
        ELSE Advance([h EXCEPT !.stack = Append(rest, v), !.mark = Mark(h, Len(rest) + 1, out)],
                     JumpLength)
  BY <1>2 DEF Case
<1>7. Depends(f, {b}) => Depends(f, used)
  BY DEF Depends
<1> HIDE DEF a, b
<1>8. /\ secret \in BOOLEAN /\ out \in BOOLEAN /\ (secret => out)
      /\ (Controlled(f) => v.secret) /\ (v.secret => secret)
      /\ v \in Values /\ v \in OnStack
  <2> DEFINE own == Depends(f, {b})
  <2>1. own \in BOOLEAN /\ (Controlled(f) => own) /\ (own => secret)
    BY <1>7, DependsIsSeen DEF Depends
  <2>2. secret \in BOOLEAN /\ out \in BOOLEAN /\ (secret => out)
    BY <1>1, <1>5, DependsIsSeen, OutputType
  <2>3. v = Value(FALSE, own)
    OBVIOUS
  <2> HIDE DEF own, secret, out, v
  <2>4. v \in Values /\ v.secret = own
    BY <2>1, <2>3, ValueType DEF Value
  <2> QED
    BY <2>1, <2>2, <2>4 DEF OnStack
<1>9. /\ Continues(CodeOf(program, f), f, g) /\ g \in Frames(DOMAIN program)
      /\ g.pc = f.pc /\ g.stack = f.stack /\ g.mark = f.mark
  <2>1. CASE ~(out /\ switches # {})
    <3>1. g = f
      BY <2>1
    <3>2. Continues(CodeOf(program, f), f, f) /\ f \in Frames(DOMAIN program)
      BY <1>2, SameContinues DEF Sound
    <3> QED
      BY <3>1, <3>2
  <2>2. CASE out /\ switches # {}
    <3>1. switches = Switches(f)
      BY DEF Switches
    <3>2. g = WithScope(f, SwitchEnd(f), Output(f, used), Depends(f, used))
      BY <2>2, <3>1 DEF SwitchEnd
    <3>3. CodeOf(program, f)[f.pc].op = "case"
      BY <1>2
    <3>4. (\A x \in used : Loose(x) => StackTainted(f)) /\ Switches(f) # {}
      BY <1>5, <2>2, <3>1
    <3>5. f = Fetched(Top)
      OBVIOUS
    <3> HIDE DEF f, switches, used, g
    <3>6. Opened(program, f, g, SwitchEnd(f))
      BY <1>1, <3>2, <3>3, <3>4, <3>5, CaseOpens
    <3> QED
      BY <3>6 DEF Opened
  <2> QED
    BY <2>1, <2>2
<1>10. /\ Len(rest) \in Nat /\ Len(rest) = Len(f.stack) - 2
  BY <1>2, <1>4, OperandType
<1>11. f.mark \in Nat /\ mark = IF Len(rest) < f.mark THEN NoMark ELSE f.mark
  BY <1>2, <1>9 DEF Sound, Frames
<1>12. \A j \in 1..Len(rest) : Marks(f.mark, j) => Marks(mark, j)
  <2> HIDE DEF rest, mark, f
  <2> QED
    BY <1>10, <1>11 DEF Marks, NoMark
<1>13. CodeOf(program, f)[f.pc].op \notin {"setsp", "condswitch"}
  BY <1>2
<1>14. /\ f.pc + JumpLength \in Flow(CodeOf(program, f), ShapeOf(program, f), f.pc)
       /\ f.pc + c.jump \in Flow(CodeOf(program, f), ShapeOf(program, f), f.pc)
  <2>1. c.op \in {"ifeq", "ifne", "or", "and", "case"}
    BY <1>2
  <2> HIDE DEF f
  <2> QED
    BY <2>1, FlowOf
<1>15. rest = Drop(f, 2) /\ Append(rest, v) = Put(f, 2, v)
  BY DEF Put
<1> HIDE DEF g, f, out, v, secret, c, mark, rest
<1>16. CASE jumps
  <2> DEFINE k == c.jump
             e == [h EXCEPT !.pc = @ + k]
  <2>1. Running(e)
    BY <1>6, <1>16 DEF Advance
  <2>2. /\ e.scopes = g.scopes /\ e.name = g.name /\ e.pc = f.pc + k /\ e.stack = rest
        /\ e.mark = mark /\ e.rval = g.rval /\ e.slots = g.slots /\ e.controls = g.controls
        /\ e.inherited = g.inherited
    BY <1>9 DEF Frames
  <2> HIDE DEF e
  <2>3. Continues(CodeOf(program, f), f, e)
    BY <1>9, <2>2, ContinuesOn
  <2>4. MarkStays(f, e, Len(f.stack) - 2)
    BY <1>10, <1>12, <2>2 DEF MarkStays
  <2> QED
    BY <1>1, <1>3, <1>13, <1>14, <1>15, <2>1, <2>2, <2>3, <2>4, PopKeeps DEF f
<1>17. CASE ~jumps
  <2> DEFINE t == Append(rest, v)
             i == Len(rest) + 1
             m == Mark(h, i, out)
             e == [[h EXCEPT !.stack = t, !.mark = m] EXCEPT !.pc = @ + JumpLength]
  <2>1. Running(e)
    BY <1>6, <1>17 DEF Advance
  <2>2. h.mark = mark /\ mark \in Nat /\ [f EXCEPT !.mark = mark] \in Frames(DOMAIN program)
    BY <1>2, <1>9, <1>11 DEF Frames, NoMark, Sound
  <2>3. m = Mark([f EXCEPT !.mark = mark], i, out) /\ [f EXCEPT !.mark = mark].mark = mark
    BY <1>2, <2>2 DEF Mark, Frames, Sound
  <2>4. i \in Nat /\ i > 0
    BY <1>10
  <2>5. (\A j \in Nat : Marks(mark, j) => Marks(m, j)) /\ (out => Marks(m, i))
    <3> DEFINE d == [f EXCEPT !.mark = mark]
    <3>1. d \in Frames(DOMAIN program) /\ d.mark = mark /\ m = Mark(d, i, out)
      BY <2>2, <2>3
    <3> HIDE DEF d, i, m
    <3> QED
      BY <1>8, <2>4, <3>1, MarkedBy
  <2> HIDE DEF m, i, t
  <2>6. /\ e.scopes = g.scopes /\ e.name = g.name /\ e.pc = f.pc + JumpLength /\ e.stack = t
        /\ e.mark = m /\ e.rval = g.rval /\ e.slots = g.slots /\ e.controls = g.controls
        /\ e.inherited = g.inherited
    BY <1>9 DEF Frames
  <2> HIDE DEF e
  <2>7. Continues(CodeOf(program, f), f, e)
    BY <1>9, <2>6, ContinuesOn
  <2>8. MarkStays(f, e, Len(f.stack) - 2)
    <3>1. \A j \in 1..Len(rest) : j \in Nat
      OBVIOUS
    <3>2. \A j \in 1..Len(rest) : Marks(f.mark, j) => Marks(m, j)
      BY <1>12, <2>5, <3>1
    <3> QED
      BY <1>10, <2>6, <3>2 DEF MarkStays
  <2>9. Loose(v) => Marks(e.mark, i)
    BY <1>8, <2>5, <2>6 DEF Loose
  <2>10. i = Len(f.stack) - 2 + 1 /\ e.stack = Put(f, 2, v)
    BY <1>10, <1>15, <2>6 DEF i, t
  <2> QED
    BY <1>1, <1>3, <1>8, <1>13, <1>14, <2>1, <2>6, <2>7, <2>8, <2>9, <2>10, PushKeeps DEF f
<1> QED
  BY <1>16, <1>17

-----------------------------------------------------------------------------
\* NEW leaves the flag of the scope at what it says.
LEMMA NewInitKeeps == Inv /\ Inv' /\ Keeping /\ NewInit => Keeping'
<1> SUFFICES ASSUME Inv, Inv', Keeping, NewInit PROVE Keeping'
  OBVIOUS
<1> DEFINE f == Fetched(Top)
           ops == {"newinit"}
           k == 1
           out == Output(f, {Operand(f, 2)})
           v == Value(out, Controlled(f))
           n == Len(f.scopes)
           flag == ScopeTainted(f)
           scopes == [f.scopes EXCEPT ![n].istainted = flag]
           t == Put(f, 2, v)
           g == [[KeepFlag(f) EXCEPT !.stack = t, !.output = out] EXCEPT !.pc = @ + k]
<1>1. Executing(ops) /\ Unchanged /\ Running(g)
  BY DEF NewInit, Advance, Put
<1>2. /\ Balanced(CodeOf(program, f), ShapeOf(program, f), f.pc) /\ Sound(program, source, f)
      /\ CodeOf(program, f)[f.pc].op \in ops /\ f.pc \in Nat
  BY <1>1, RunningFrame
<1>3. Goes(ShapeOf(program, f), f.pc, f.pc + k, 2, 1)
  BY <1>2 DEF Balanced
<1>4. f.pc + k \in Flow(CodeOf(program, f), ShapeOf(program, f), f.pc)
  BY <1>2 DEF Flow, LongOps
<1>5. out \in BOOLEAN /\ Controlled(f) \in BOOLEAN /\ (Controlled(f) => out)
  BY <1>1, DependsIsSeen, OutputType DEF Output
<1>6. v \in OnStack /\ ~Loose(v) /\ (Controlled(f) => v.secret)
  BY <1>5 DEF Value, Values, OnStack, Loose
<1>7. CodeOf(program, f)[f.pc].op \notin {"setsp", "condswitch"}
  BY <1>2
<1>8. /\ f \in Frames(DOMAIN program) /\ f.scopes \in Seq(Scopes) /\ f.scopes # <<>>
      /\ KeepFlag(f) = [f EXCEPT !.scopes = scopes]
  <2>1. f \in Frames(DOMAIN program) /\ Rooted(f)
    BY <1>2 DEF Sound
  <2> HIDE DEF f
  <2> QED
    BY <2>1 DEF Frames, Rooted, KeepFlag
<1> HIDE DEF f, v, out, flag, t, k
<1>9. /\ DOMAIN scopes = DOMAIN f.scopes
      /\ \A i \in DOMAIN f.scopes :
            /\ scopes[i].op = f.scopes[i].op /\ scopes[i].prev = f.scopes[i].prev
            /\ scopes[i].from = f.scopes[i].from /\ scopes[i].to = f.scopes[i].to
            /\ scopes[i].opened = f.scopes[i].opened
  <2>1. \A i \in DOMAIN f.scopes : f.scopes[i] \in Scopes
    BY <1>8
  <2> QED
    BY <1>8, <2>1 DEF Scopes
<1> HIDE DEF scopes
<1>10. /\ g.scopes = scopes /\ g.name = f.name /\ g.pc = f.pc + k /\ g.stack = t
       /\ g.mark = f.mark /\ g.rval = f.rval /\ g.controls = f.controls
       /\ g.inherited = f.inherited /\ g.slots = f.slots
  BY <1>8 DEF Frames
<1> HIDE DEF g
<1>11. Continues(CodeOf(program, f), f, g)
  BY <1>9, <1>10 DEF Continues
<1> QED
  BY <1>1, <1>3, <1>4, <1>6, <1>7, <1>10, <1>11, PutKeeps DEF f, t

-----------------------------------------------------------------------------
\* Exceptions.  The catch block of an instruction is not among the cases of a switch.
LEMMA FailsRecoverable ==
    ASSUME NEW p \in Programs, NEW f \in Frames(DOMAIN p), Ready(p, f),
           f.pc \in DOMAIN CodeOf(p, f),
           NEW g, Continues(CodeOf(p, f), f, g), g.pc = f.pc
    PROVE  Recoverable(p, g)
<1> DEFINE code == CodeOf(p, f)
           shape == ShapeOf(p, f)
           to == f.pc + code[f.pc].catch
<1>1. CodeOf(p, g) = code
  BY DEF Continues, CodeOf
<1>2. f.name \in DOMAIN p /\ f.pc \in DOMAIN shape \cap DOMAIN code
  BY DEF Frames, Ready
<1>3. WellNested(code, shape, f.pc)
  BY <1>2, CodeIsNested
<1>4. f.pc \in Nat /\ code[f.pc].catch \in Int
  BY <1>2, BodyType DEF Cells
<1> SUFFICES ASSUME to # f.pc PROVE \A q \in DOMAIN code : ~InCases(code, q, to)
  BY <1>1 DEF Recoverable
<1>5. code[f.pc].catch # 0
  BY <1>4
<1> QED
  BY <1>3, <1>5 DEF WellNested, InCases

LEMMA ThrowingKeeps == Inv /\ Inv' /\ Keeping /\ Throwing => Keeping'
<1> SUFFICES ASSUME Inv, Inv', Keeping, Throwing PROVE Keeping'
  OBVIOUS
<1> DEFINE f == Fetched(Top)
           ops == {"throw"}
           v == Operand(f, 1)
           used == {v}
           out == Output(f, used)
           x == Value(v.tainted \/ out, Depends(f, used))
           t == Drop(f, 1)
           g == [f EXCEPT !.stack = t, !.output = out]
<1>1. Executing(ops) /\ throwing' = TRUE /\ program' = program /\ exception' = x /\ Running(g)
  BY DEF Throwing
<1>2. /\ Balanced(CodeOf(program, f), ShapeOf(program, f), f.pc) /\ Sound(program, source, f)
      /\ CodeOf(program, f)[f.pc].op \in ops /\ f.pc \in DOMAIN CodeOf(program, f)
      /\ program \in Programs /\ Ready(program, f) /\ f \in Frames(DOMAIN program)
      /\ ShapeOf(program, f)[f.pc] \in Seq(SUBSET DOMAIN CodeOf(program, f))
  BY <1>1, RunningFrame DEF Sound
<1>3. 1 <= Len(ShapeOf(program, f)[f.pc])
  BY <1>2 DEF Balanced
<1>4. (\A y \in used : Loose(y) => StackTainted(f)) /\ v.tainted \in BOOLEAN
  BY <1>1, <1>3, OperandsAreSeen
<1> HIDE DEF v, used
<1>5. ~Loose(x)
  BY <1>1, <1>4, TaintedValue
<1>6. Guarded(program, f)
  BY <1>1, KeepingFrame
<1>7. /\ Len(t) = Len(f.stack) - 1 /\ t \in Seq(OnStack) /\ DOMAIN t = 1..Len(f.stack) - 1
      /\ \A j \in 1..Len(f.stack) - 1 : t[j] = f.stack[j] /\ j \in DOMAIN f.stack
      /\ out \in BOOLEAN
  <2>1. /\ t \in Seq(OnStack) /\ Len(t) = Len(f.stack) - 1
        /\ \A j \in 1..Len(f.stack) - 1 : t[j] = f.stack[j]
    <3> DEFINE n == 1
    <3>1. n \in Nat /\ n <= Len(ShapeOf(program, f)[f.pc])
      BY <1>3
    <3> HIDE DEF f, n
    <3>2. /\ Drop(f, n) \in Seq(OnStack) /\ Len(Drop(f, n)) = Len(f.stack) - n
          /\ \A j \in 1..Len(f.stack) - n : Drop(f, n)[j] = f.stack[j]
      BY <1>2, <3>1, OperandType
    <3> QED
      BY <3>2 DEF n
  <2>2. f.stack \in Seq(OnStack) /\ out \in BOOLEAN
    BY <1>2, OutputType DEF Frames
  <2> HIDE DEF t, f, out
  <2> QED
    BY <2>1, <2>2
<1> HIDE DEF f, out, t, x
<1>8. /\ g \in Frames(DOMAIN program) /\ g.scopes = f.scopes /\ g.name = f.name /\ g.pc = f.pc
      /\ g.stack = t /\ g.mark = f.mark /\ g.rval = f.rval /\ g.controls = f.controls
      /\ g.inherited = f.inherited /\ g.slots = f.slots
  BY <1>2, <1>7 DEF Frames
<1> HIDE DEF g
<1>9. Continues(CodeOf(program, f), f, g)
  BY <1>8, SameContinues
<1>10. Recoverable(program, g)
  BY <1>2, <1>8, <1>9, FailsRecoverable
<1>11. \A j \in DOMAIN g.stack : Loose(g.stack[j]) => Marks(g.mark, j)
  BY <1>6, <1>7, <1>8 DEF Guarded
<1> QED
  BY <1>1, <1>5, <1>8, <1>9, <1>10, <1>11, InstructionKeeps DEF f

LEMMA CatchingKeeps == Inv /\ Inv' /\ Keeping /\ Catching => Keeping'
<1> SUFFICES ASSUME Inv, Inv', Keeping, Catching PROVE Keeping'
  OBVIOUS
<1> DEFINE f == Top
           code == CodeOf(program, f)
           k == code[f.pc].catch
           g == [f EXCEPT !.pc = @ + k]
           n == Len(frames)
<1>1. /\ throwing /\ k # 0 /\ Running(g) /\ throwing' = FALSE
      /\ program' = program /\ exception' = exception
  BY DEF Catching, Code, CodeOf, Script, Advance
<1>2. /\ program \in Programs /\ frames # <<>> /\ Fails(program, f)
      /\ frames \in Seq(Frames(DOMAIN program)) /\ ~Loose(exception) /\ Recoverable(program, f)
  BY <1>1 DEF Inv, Structure, Keeping
<1>3. n \in 1..Len(frames) /\ n \in DOMAIN frames /\ f = frames[n]
  BY <1>2 DEF Top
<1>4. f \in Frames(DOMAIN program) /\ Guarded(program, f)
  BY <1>2, <1>3 DEF Keeping
<1>5. f.name \in DOMAIN program /\ f.pc \in DOMAIN code
  BY <1>2, <1>4 DEF Frames, Fails
<1>6. f.pc \in Nat /\ k \in Int
  BY <1>2, <1>5, BodyType DEF Cells
<1>7. f.pc + k # f.pc
  BY <1>1, <1>6
<1>8. \A q \in DOMAIN code : ~InCases(code, q, f.pc + k)
  BY <1>2, <1>7 DEF Recoverable
<1> HIDE DEF f, k, code, n
<1>9. /\ g.scopes = f.scopes /\ g.name = f.name /\ g.pc = f.pc + k /\ g.stack = f.stack
      /\ g.mark = f.mark /\ g.rval = f.rval /\ g.controls = f.controls
      /\ g.inherited = f.inherited /\ g.slots = f.slots
  BY <1>4 DEF Frames
<1>10. frames' \in Seq(Frames(DOMAIN program)) /\ Len(frames') = n /\ frames'[n] = g
       /\ \A i \in 1..n - 1 : frames'[i] = frames[i]
  <2>1. frames' = [frames EXCEPT ![Len(frames)] = g]
    BY <1>1 DEF Running
  <2>2. g \in Frames(DOMAIN program)
    <3>1. frames'[Len(frames)] = g /\ Len(frames) \in DOMAIN frames'
      BY <1>2, <1>3, <2>1 DEF n
    <3>2. frames' \in Seq(Frames(DOMAIN program))
      BY <1>1 DEF Inv, Structure
    <3> QED
      BY <3>1, <3>2
  <2> HIDE DEF g
  <2> QED
    BY <1>2, <2>1, <2>2, LastReplaced DEF n
<1> HIDE DEF g
<1>11. CodeOf(program, g) = code 
  BY <1>9 DEF code, CodeOf
<1>12. Guarded(program, g)
  BY <1>4, <1>9, <1>11 DEF Guarded, Enclosed, code
<1>13. Prepared(program, g)
  BY <1>8, <1>9, <1>11 DEF Prepared, InOwnSwitch
<1>14. DOMAIN frames' = 1..n
  BY <1>10
<1> QED
  BY <1>1, <1>2, <1>3, <1>9, <1>10, <1>12, <1>13, <1>14, FramesKeep

-----------------------------------------------------------------------------
\* The fields of a frame that starts a script.
Fresh(e, name, t, v, controlled) ==
    /\ e.name = name /\ e.pc = 1 /\ e.stack = <<>> /\ e.controls = {}
    /\ e.inherited = controlled /\ e.rval = Value(FALSE, controlled)
    /\ e.scopes[1].opened = t /\ e.scopes[1].prev = FALSE
    /\ \A s \in Slots : e.slots[s] = IF s = "arg" THEN v ELSE Plain

\* Calls.  The frame of a script in front of its first instruction.
LEMMA NewFrameFields ==
    ASSUME NEW name, NEW t, NEW v, NEW controlled
    PROVE  Fresh(NewFrame(name, t, v, controlled), name, t, v, controlled)
<1> DEFINE e == NewFrame(name, t, v, controlled)
           scopes == <<RootScope(t, Script(name))>>
           slots == [s \in Slots |-> IF s = "arg" THEN v ELSE Plain]
           rval == Value(FALSE, controlled)
<1>1. scopes[1].opened = t /\ scopes[1].prev = FALSE
  BY DEF RootScope
<1>2. \A s \in Slots : slots[s] = IF s = "arg" THEN v ELSE Plain
  OBVIOUS
<1>3. e = [name |-> name, pc |-> 1, stack |-> <<>>, mark |-> NoMark, scopes |-> scopes,
           slots |-> slots, rval |-> rval, output |-> FALSE, saved |-> FALSE,
           controls |-> {}, inherited |-> controlled]
  BY DEF NewFrame
<1> HIDE DEF e, scopes, slots, rval
<1>4. /\ e.name = name /\ e.pc = 1 /\ e.stack = <<>> /\ e.controls = {}
      /\ e.inherited = controlled /\ e.rval = rval /\ e.scopes = scopes /\ e.slots = slots
  BY <1>3
<1>5. Fresh(e, name, t, v, controlled)
  BY <1>1, <1>2, <1>4 DEF rval, Fresh
<1> QED
  BY <1>5 DEF e

LEMMA NewFrameKeeps ==
    ASSUME program \in Programs, NEW e, e.name \in DOMAIN program, e.pc = 1, e.stack = <<>>,
           e.controls = {}, e.rval = Value(FALSE, e.inherited), e.scopes[1].prev = FALSE,
           e.inherited => e.scopes[1].opened,
           \A s \in Slots : Loose(e.slots[s]) => e.scopes[1].opened
    PROVE  Guarded(program, e) /\ Prepared(program, e)
<1> DEFINE code == CodeOf(program, e)
           shape == ShapeOf(program, e)
<1>1. WellFormed(program, code, shape)
  BY CodeIsBalanced
<1>2. code \in Seq(Cells)
  BY <1>1 DEF WellFormed
<1> HIDE DEF code, shape
<1>3. InOwnSwitch(code, e)
  <2>1. \A q \in DOMAIN code : ~(q < 1)
    BY <1>2
  <2> QED
    BY <2>1 DEF InOwnSwitch, InCases
<1>5. e.rval.secret = e.inherited
  BY DEF Value
<1>6. Guarded(program, e)
  <2>1. Enclosed(CodeOf(program, e), e)
    BY DEF Enclosed
  <2>2. ~e.scopes[1].prev /\ (e.inherited => e.scopes[1].opened /\ e.rval.secret)
    BY <1>5
  <2>3. \A j \in DOMAIN e.stack : Loose(e.stack[j]) => Marks(e.mark, j)
    OBVIOUS
  <2>4. Loose(e.rval) => e.inherited
    BY <1>5 DEF Loose
  <2> QED
    BY <2>1, <2>2, <2>3, <2>4 DEF Guarded
<1> QED
  BY <1>3, <1>6 DEF Prepared, code

LEMMA CalledKeeps ==
    ASSUME NEW ops, ops \subseteq Calls, Inv, Inv', Keeping, Executing(ops),
           NEW f, f = Fetched(Top), NEW g, Continues(CodeOf(program, f), f, g),
           g.pc = f.pc, g.stack = f.stack, g.mark = f.mark, g \in Frames(DOMAIN program),
           NEW e \in Frames(DOMAIN program), Guarded(program, e), Prepared(program, e),
           Awaits(program, g, e),
           frames' = [frames EXCEPT ![Len(frames)] = g] \o <<e>>, Unchanged
    PROVE  Keeping'
<1> DEFINE n == Len(frames)
           code == CodeOf(program, f)
           shape == ShapeOf(program, f)
<1>1. /\ frames \in Seq(Frames(DOMAIN program)) /\ frames # <<>> /\ Top = frames[n] /\ n \in Nat
      /\ n >= 1 /\ DOMAIN frames = 1..n /\ ~throwing
  BY DEF Inv, Structure, Executing, Top
<1>2. /\ program \in Programs /\ Sound(program, source, f) /\ Ready(program, f)
      /\ f.pc \in DOMAIN code /\ f.name = Top.name /\ code[f.pc].op \in ops
  BY RunningFrame
<1>3. /\ Guarded(program, f) /\ InOwnSwitch(code, f)
      /\ WellNested(code, shape, f.pc) /\ f \in Frames(DOMAIN program) /\ 1 \in DOMAIN f.scopes
      /\ f.inherited = Top.inherited /\ f.scopes[1].opened = Top.scopes[1].opened
      /\ f.slots = Top.slots
  BY KeepingFrame
<1>4. code[f.pc].op # "setsp" /\ code[f.pc].op # "condswitch"
  BY <1>2 DEF Calls
<1>5. CodeOf(program, g) = code /\ ShapeOf(program, g) = shape
  BY DEF Continues, CodeOf, ShapeOf
<1>6. \A j \in DOMAIN g.stack : Loose(g.stack[j]) => Marks(g.mark, j)
  BY <1>3 DEF Guarded
<1>7. Guarded(program, g) /\ g.scopes[1].opened = f.scopes[1].opened
  BY <1>2, <1>3, <1>6, GuardedNext
<1>9. InOwnSwitch(code, g)
  <2>1. f.scopes \in Seq(Scopes) /\ g.scopes \in Seq(Scopes)
    BY <1>3 DEF Frames
  <2> QED
    BY <1>3, <1>4, <2>1, SwitchStays
<1>10. Prepared(program, g)
  BY <1>5, <1>9 DEF Prepared
<1>11. /\ Len(frames') = n + 1 /\ DOMAIN frames' = 1..n + 1
       /\ frames'[n] = g /\ frames'[n + 1] = e
       /\ \A i \in 1..n - 1 : frames'[i] = frames[i]
  <2>1. /\ frames' \in Seq(Frames(DOMAIN program)) /\ Len(frames') = n + 1
        /\ frames'[n] = g /\ frames'[n + 1] = e
        /\ \A i \in 1..n - 1 : frames'[i] = frames[i]
    <3> DEFINE t == frames'
               S == Frames(DOMAIN program)
    <3>1. /\ t = [frames EXCEPT ![Len(frames)] = g] \o <<e>> /\ g \in S /\ e \in S
          /\ frames \in Seq(S) /\ frames # <<>>
      BY <1>1
    <3> HIDE DEF t, S, n
    <3>2. /\ t \in Seq(S) /\ Len(t) = Len(frames) + 1 /\ t[Len(frames)] = g
          /\ t[Len(frames) + 1] = e /\ \A i \in 1..Len(frames) - 1 : t[i] = frames[i]
      BY <3>1, LastReplacedAndOneMore
    <3> QED
      BY <3>2 DEF t, S, n
  <2> QED
    BY <2>1
<1>12. /\ g.name = Top.name /\ g.inherited = Top.inherited
       /\ g.scopes[1].opened = Top.scopes[1].opened
       /\ \A s \in Slots : Loose(g.slots[s]) => Loose(Top.slots[s])
  BY <1>2, <1>3, <1>7 DEF Continues
<1>13. /\ ~Loose(exception) /\ \A i \in 1..n : Guarded(program, frames[i])
       /\ \A i \in 1..n - 1 : /\ Prepared(program, frames[i])
                              /\ Awaits(program, frames[i], frames[i + 1])
  BY <1>1 DEF Keeping
<1>14. program' = program /\ exception' = exception /\ ~throwing'
  BY <1>1 DEF Unchanged
<1> HIDE DEF n
<1>15. \A i \in 1..n + 1 : i = n + 1 \/ i = n \/ (i \in 1..n - 1 /\ i \in 1..n)
  BY <1>1
<1>16. \A i \in 1..n + 1 : Guarded(program, frames'[i])
  BY <1>7, <1>11, <1>13, <1>15
<1>17. ASSUME NEW i \in 1..n
       PROVE  Prepared(program, frames'[i]) /\ Awaits(program, frames'[i], frames'[i + 1])
  <2>1. CASE i = n
    BY <1>10, <1>11, <2>1
  <2>2. CASE i = n - 1
    <3>1. i \in 1..n - 1 /\ i + 1 = n
      BY <1>1, <2>2
    <3>2. Prepared(program, frames[i]) /\ Awaits(program, frames[i], Top) /\ frames'[i] = frames[i]
      BY <1>1, <1>11, <1>13, <3>1
    <3>3. Awaits(program, frames[i], g)
      BY <1>12, <3>2, AwaitsKept
    <3> QED
      BY <1>11, <3>1, <3>2, <3>3
  <2>3. CASE i # n /\ i # n - 1
    <3>1. i \in 1..n - 1 /\ i + 1 \in 1..n - 1
      BY <1>1, <2>3
    <3> QED
      BY <1>11, <1>13, <3>1
  <2> QED
    BY <2>1, <2>2, <2>3
<1>18. Top' = e /\ Len(frames') - 1 = n
  BY <1>1, <1>11 DEF Top
<1> QED
  BY <1>11, <1>13, <1>14, <1>16, <1>17, <1>18 DEF Keeping

LEMMA CallInlineKeeps == Inv /\ Inv' /\ Keeping /\ CallInline => Keeping'
<1> SUFFICES ASSUME Inv, Inv', Keeping, CallInline PROVE Keeping'
  OBVIOUS
<1> DEFINE f == Fetched(Top)
           ops == {"call"}
           name == Code(f)[f.pc].arg
           out == Output(f, {})
           v == Operand(f, 1)
           controlled == Controlled(f)
           g == [f EXCEPT !.output = out]
           e == NewFrame(name, out, v, controlled)
<1>1. /\ Executing(ops) /\ ~Called(Top).heavy /\ Unchanged /\ ops \subseteq Calls
      /\ frames' = [frames EXCEPT ![Len(frames)] = g] \o <<e>>
  BY DEF CallInline, Calls
<1>2. /\ name \in DOMAIN program /\ program \in Programs /\ Code(f) = CodeOf(program, f)
      /\ Sound(program, source, f) /\ f.name = Top.name /\ f \in Frames(DOMAIN program)
  BY <1>1, CallFinds
<1>3. f.pc = Top.pc /\ CodeOf(program, f)[f.pc].op \in ops
      /\ Balanced(CodeOf(program, f), ShapeOf(program, f), f.pc)
  <2>1. Executing(ops) /\ f = Fetched(Top)
    BY <1>1
  <2> HIDE DEF f, ops
  <2> QED
    BY <2>1, RunningFrame
<1>4. ~program[name].heavy
  BY <1>1, <1>2, <1>3 DEF Called, Script, Code
<1>5. out \in BOOLEAN /\ controlled \in BOOLEAN /\ (controlled => out)
  BY <1>1, DependsIsSeen, OutputType DEF Output
<1>6. Loose(v) => out
  <2>1. Goes(ShapeOf(program, f), f.pc, f.pc + JumpLength, 3, 1)
    BY <1>3 DEF Balanced
  <2>2. 3 <= Len(ShapeOf(program, f)[f.pc])
    BY <1>1, <2>1, GoesType
  <2>3. Loose(v) => StackTainted(f)
    BY <1>1, <2>2, OperandsAreSeen
  <2> QED
    BY <2>3 DEF Output
<1>7. v \in Values
  BY <1>1, CallArgument
<1> HIDE DEF f, name, out, v, controlled, e
<1>9. /\ g \in Frames(DOMAIN program) /\ g.scopes = f.scopes /\ g.name = f.name /\ g.pc = f.pc
      /\ g.stack = f.stack /\ g.mark = f.mark /\ g.rval = f.rval /\ g.controls = f.controls
      /\ g.inherited = f.inherited /\ g.slots = f.slots /\ g.output = out
  BY <1>2, <1>5 DEF Frames
<1> HIDE DEF g
<1>10. Continues(CodeOf(program, f), f, g)
  BY <1>9, SameContinues
<1>11. /\ e.name = name /\ e.pc = 1 /\ e.stack = <<>> /\ e.controls = {}
       /\ e.inherited = controlled /\ e.rval = Value(FALSE, controlled)
       /\ e.scopes[1].opened = out /\ e.scopes[1].prev = FALSE
       /\ \A s \in Slots : e.slots[s] = IF s = "arg" THEN v ELSE Plain
  <2>1. e = NewFrame(name, out, v, controlled)
    BY DEF e
  <2>2. Fresh(e, name, out, v, controlled)
    BY <2>1, NewFrameFields
  <2> QED
    BY <2>2 DEF Fresh
<1>12. \A s \in Slots : Loose(e.slots[s]) => e.scopes[1].opened
  BY <1>6, <1>11 DEF Loose, Plain, Value
<1>13. Guarded(program, e) /\ Prepared(program, e)
  BY <1>2, <1>5, <1>11, <1>12, NewFrameKeeps
<1>14. e \in Frames(DOMAIN program)
  <2> DEFINE s == TRUE
  <2>1. ~s => ~out /\ ~v.tainted
    OBVIOUS
  <2> HIDE DEF s
  <2> QED
    BY <1>2, <1>5, <1>7, <2>1, NewFrameSound DEF Sound, e
<1>15. Awaits(program, g, e)
  <2>1. CodeOf(program, g)[g.pc].op = "call"
    BY <1>3, <1>9 DEF CodeOf
  <2>2. ~Lends(program, g, e)
    BY <1>4, <1>11 DEF Lends
  <2>3. Controlled(g) => e.inherited
    BY <1>9, <1>11 DEF Controlled, controlled
  <2> QED
    BY <1>4, <1>11, <2>1, <2>2, <2>3 DEF Awaits
<1> QED
  BY <1>1, <1>9, <1>10, <1>13, <1>14, <1>15, CalledKeeps DEF f

\* The frame h is f with its scope lent to a call, whose flag is out.
HasLent(code, f, h, out) ==
    /\ Continues(code, f, h) /\ h.controls = f.controls /\ h.inherited = f.inherited
    /\ h.name = f.name /\ h.pc = f.pc /\ h.stack = f.stack /\ h.mark = f.mark
    /\ h.slots = f.slots /\ h.output = out
    /\ ScopeTainted(h) <=> ScopeTainted(f) \/ out
    /\ \A k \in DOMAIN h.scopes : h.scopes[k].opened => \E i \in DOMAIN f.scopes : f.scopes[i].opened

\* While js_Invoke runs only the flag of the last scope may be other than before.
LEMMA LentKeeps ==
    ASSUME NEW p, NEW s, NEW f, Sound(p, s, f), NEW code, NEW out \in BOOLEAN,
           NEW h, h = Lent(f, out)
    PROVE  HasLent(code, f, h, out)
<1> DEFINE n == Len(f.scopes)
           saved == ScopeTainted(f)
           flag == f.scopes[n].istainted \/ out
           last == [f.scopes[n] EXCEPT !.istainted = flag]
           scopes == [f.scopes EXCEPT ![n] = last]
<1>1. f \in Frames(DOMAIN p) /\ Rooted(f)
  BY DEF Sound
<1>2. /\ f.scopes \in Seq(Scopes) /\ n \in DOMAIN f.scopes /\ f.scopes[n] \in Scopes
  BY <1>1 DEF Rooted, Frames
<1>3. saved <=> (f.scopes[n].istainted \/ f.scopes[n].prev)
  BY DEF ScopeTainted, Scope
<1>4. flag \in BOOLEAN /\ (flag <=> f.scopes[n].istainted \/ out)
  BY <1>2 DEF Scopes
<1>5. h = [f EXCEPT !.scopes = scopes, !.saved = saved, !.output = out]
  BY DEF Lent
<1> HIDE DEF flag, saved
<1>6. /\ last.istainted = flag /\ last.prev = f.scopes[n].prev /\ last.op = f.scopes[n].op
      /\ last.opened = f.scopes[n].opened /\ last.from = f.scopes[n].from /\ last.to = f.scopes[n].to
  BY <1>2 DEF Scopes
<1> HIDE DEF last
<1>7. /\ DOMAIN scopes = DOMAIN f.scopes /\ scopes[n] = last /\ Len(scopes) = n
      /\ \A k \in DOMAIN f.scopes : k # n => scopes[k] = f.scopes[k]
  BY <1>2
<1> HIDE DEF scopes, n
<1>8. \A k \in DOMAIN f.scopes :
          /\ scopes[k].prev = f.scopes[k].prev /\ scopes[k].opened = f.scopes[k].opened
          /\ scopes[k].op = f.scopes[k].op /\ scopes[k].from = f.scopes[k].from
          /\ scopes[k].to = f.scopes[k].to
  BY <1>6, <1>7
<1>9. /\ h.scopes = scopes /\ h.name = f.name /\ h.pc = f.pc /\ h.controls = f.controls
      /\ h.inherited = f.inherited /\ h.stack = f.stack /\ h.mark = f.mark /\ h.rval = f.rval
      /\ h.slots = f.slots /\ h.output = out
  BY <1>1, <1>5 DEF Frames
<1>10. Continues(code, f, h)
  BY <1>7, <1>8, <1>9 DEF Continues
<1>11. ScopeTainted(h) <=> (flag \/ f.scopes[n].prev)
  BY <1>6, <1>7, <1>9 DEF ScopeTainted, Scope
<1> QED
  BY <1>3, <1>4, <1>7, <1>8, <1>9, <1>10, <1>11 DEF saved, HasLent

\* The call e through js_Invoke of f, with the scope lent.
LEMMA InvokedKeeps ==
    ASSUME NEW ops, ops \subseteq {"call", "eval"}, Inv, Inv', Keeping, Executing(ops),
           NEW f, f = Fetched(Top), NEW out, out = Output(f, {}), NEW g, g = Lent(f, out),
           NEW e \in Frames(DOMAIN program), program[e.name].heavy,
           e.pc = 1, e.stack = <<>>, e.controls = {}, e.rval = Value(FALSE, e.inherited),
           e.scopes[1].prev = FALSE, e.scopes[1].opened = ScopeTainted(g),
           e.inherited => out, Controlled(f) => e.inherited,
           \A s \in Slots : Loose(e.slots[s]) => out,
           CodeOf(program, f)[f.pc].op = "eval" => e.slots = f.slots,
           frames' = [frames EXCEPT ![Len(frames)] = g] \o <<e>>, Unchanged
    PROVE  Keeping'
<1>1. /\ program \in Programs /\ Sound(program, source, f) /\ CodeOf(program, f)[f.pc].op \in ops
  BY RunningFrame
<1>2. out \in BOOLEAN /\ (ScopeTainted(f) => out)
  BY OutputType DEF Output
<1>3. /\ Continues(CodeOf(program, f), f, g) /\ g.controls = f.controls /\ g.inherited = f.inherited
      /\ g.name = f.name /\ g.pc = f.pc /\ g.stack = f.stack /\ g.mark = f.mark
      /\ g.slots = f.slots /\ g.output = out
      /\ ScopeTainted(g) <=> ScopeTainted(f) \/ out
      /\ \A k \in DOMAIN g.scopes : g.scopes[k].opened => \E i \in DOMAIN f.scopes : f.scopes[i].opened
  <2>1. HasLent(CodeOf(program, f), f, g, out)
    BY <1>1, <1>2, LentKeeps
  <2> QED
    BY <2>1 DEF HasLent
<1>4. g \in Frames(DOMAIN program)
  <2> DEFINE s == TRUE
  <2>1. Sound(program, s, f) /\ (~s => ~out)
    BY <1>1 DEF Sound
  <2> HIDE DEF s
  <2> QED
    BY <1>2, <2>1, LentSound
<1>5. e.scopes[1].opened <=> out
  BY <1>2, <1>3
<1>6. e.name \in DOMAIN program
  BY DEF Frames
<1>7. Guarded(program, e) /\ Prepared(program, e)
  BY <1>1, <1>5, <1>6, NewFrameKeeps
<1>8. (\E k \in DOMAIN g.scopes : g.scopes[k].opened) => ScopeTainted(g)
  BY <1>1, <1>3, OpenedTaints DEF Sound, Frames
<1>9. Awaits(program, g, e)
  <2>1. CodeOf(program, g)[g.pc].op = CodeOf(program, f)[f.pc].op
    BY <1>3 DEF CodeOf
  <2>2. CodeOf(program, f)[f.pc].op # "getter"
    BY <1>1
  <2>3. Controlled(g) => e.inherited
    BY <1>3 DEF Controlled
  <2> QED
    BY <1>3, <1>5, <1>8, <2>1, <2>2, <2>3 DEF Awaits
<1>10. ops \subseteq Calls
  BY DEF Calls
<1> QED
  BY <1>3, <1>4, <1>7, <1>9, <1>10, CalledKeeps

LEMMA CallInvokeKeeps == Inv /\ Inv' /\ Keeping /\ CallInvoke => Keeping'
<1> SUFFICES ASSUME Inv, Inv', Keeping, CallInvoke PROVE Keeping'
  OBVIOUS
<1> DEFINE f == Fetched(Top)
           ops == {"call"}
           name == Code(f)[f.pc].arg
           out == Output(f, {})
           v == Operand(f, 1)
           controlled == Controlled(f)
           g == Lent(f, out)
           flag == ScopeTainted(g)
           e == NewFrame(name, flag, v, controlled)
<1>1. /\ Executing(ops) /\ Called(Top).heavy /\ Unchanged /\ ops \subseteq {"call", "eval"}
      /\ frames' = [frames EXCEPT ![Len(frames)] = g] \o <<e>> /\ ops \subseteq Calls
  BY DEF CallInvoke, Calls
<1>2. /\ name \in DOMAIN program /\ program \in Programs /\ Code(f) = CodeOf(program, f)
      /\ Sound(program, source, f) /\ f.name = Top.name /\ f \in Frames(DOMAIN program)
  BY <1>1, CallFinds
<1>3. f.pc = Top.pc /\ CodeOf(program, f)[f.pc].op \in ops
      /\ Balanced(CodeOf(program, f), ShapeOf(program, f), f.pc)
  BY <1>1, RunningFrame
<1>4. program[name].heavy
  BY <1>1, <1>2, <1>3 DEF Called, Script, Code
<1>5. controlled \in BOOLEAN /\ flag \in BOOLEAN /\ (controlled => out)
  BY <1>1, DependsIsSeen, OutputType DEF Output
<1>6. Loose(v) => out
  <2>1. Goes(ShapeOf(program, f), f.pc, f.pc + JumpLength, 3, 1)
    BY <1>3 DEF Balanced
  <2>2. 3 <= Len(ShapeOf(program, f)[f.pc])
    BY <1>1, <2>1, GoesType
  <2>3. Loose(v) => StackTainted(f)
    BY <1>1, <2>2, OperandsAreSeen
  <2> QED
    BY <2>3 DEF Output
<1>7. v \in Values
  BY <1>1, CallArgument
<1>8. CodeOf(program, f)[f.pc].op # "eval"
  BY <1>3
<1> HIDE DEF f, name, out, v, controlled, e, g, flag
<1>9. /\ e.name = name /\ e.pc = 1 /\ e.stack = <<>> /\ e.controls = {}
      /\ e.inherited = controlled /\ e.rval = Value(FALSE, controlled)
      /\ e.scopes[1].opened = flag /\ e.scopes[1].prev = FALSE
      /\ \A s \in Slots : e.slots[s] = IF s = "arg" THEN v ELSE Plain
  <2>1. e = NewFrame(name, flag, v, controlled)
    BY DEF e
  <2>2. Fresh(e, name, flag, v, controlled)
    BY <2>1, NewFrameFields
  <2> QED
    BY <2>2 DEF Fresh
<1>10. \A s \in Slots : Loose(e.slots[s]) => out
  BY <1>6, <1>9 DEF Loose, Plain, Value
<1>11. e \in Frames(DOMAIN program)
  <2> DEFINE s == TRUE
  <2>1. ~s => ~flag /\ ~v.tainted
    OBVIOUS
  <2> HIDE DEF s
  <2> QED
    BY <1>2, <1>5, <1>7, <2>1, NewFrameSound DEF Sound, e
<1> QED
  BY <1>1, <1>4, <1>5, <1>8, <1>9, <1>10, <1>11, InvokedKeeps DEF f, out, g, flag, controlled

LEMMA EvalCodeKeeps == Inv /\ Inv' /\ Keeping /\ EvalCode /\ ~LosesSource => Keeping'
<1> SUFFICES ASSUME Inv, Inv', Keeping, EvalCode, ~LosesSource PROVE Keeping'
  OBVIOUS
<1> DEFINE f == Fetched(Top)
           ops == {"eval"}
           name == Code(f)[f.pc].arg
           out == Output(f, {})
           v == Operand(f, 1)
           controlled == Depends(f, {v})
           g == Lent(f, out)
           flag == ScopeTainted(g)
           new == NewFrame(name, flag, v, controlled)
           e == [new EXCEPT !.slots = f.slots]
<1>1. /\ Executing(ops) /\ Unchanged /\ ops \subseteq {"call", "eval"}
      /\ frames' = [frames EXCEPT ![Len(frames)] = g] \o <<e>> /\ ops \subseteq Calls
  BY DEF EvalCode, Calls
<1>2. /\ name \in DOMAIN program /\ program \in Programs /\ Code(f) = CodeOf(program, f)
      /\ Sound(program, source, f) /\ f.name = Top.name /\ f \in Frames(DOMAIN program)
  BY <1>1, CallFinds
<1>3. /\ CodeOf(program, f)[f.pc].op \in ops
      /\ Linked(program, CodeOf(program, f), ShapeOf(program, f), f.pc)
  BY <1>1, RunningFrame
<1>4. program[name].heavy
  BY <1>2, <1>3 DEF Linked
<1>5. controlled \in BOOLEAN /\ flag \in BOOLEAN /\ (Controlled(f) => controlled)
  BY OutputType DEF Depends
<1>6. controlled => out
  <2>1. v.secret => out
    BY <1>1 DEF LosesSource
  <2>2. Controlled(f) => ScopeTainted(f)
    BY <1>1, DependsIsSeen
  <2>3. ScopeTainted(f) => out
    BY DEF Output
  <2> HIDE DEF f, v, out
  <2> QED
    BY <2>1, <2>2, <2>3 DEF Depends
<1>7. v \in Values
  BY <1>1, CallArgument
<1>8. \A s \in Slots : Loose(f.slots[s]) => out
  <2>1. Guarded(program, f) /\ (f.scopes[1].opened => ScopeTainted(f))
    BY <1>1, KeepingFrame, DependsIsSeen
  <2> HIDE DEF f
  <2> QED
    BY <2>1 DEF Output, Guarded
<1> HIDE DEF f, name, out, v, controlled, g, flag, new
<1>9. /\ new.name = name /\ new.pc = 1 /\ new.stack = <<>> /\ new.controls = {}
      /\ new.inherited = controlled /\ new.rval = Value(FALSE, controlled)
      /\ new.scopes[1].opened = flag /\ new.scopes[1].prev = FALSE
  <2>1. new = NewFrame(name, flag, v, controlled)
    BY DEF new
  <2>2. Fresh(new, name, flag, v, controlled)
    BY <2>1, NewFrameFields
  <2> QED
    BY <2>2 DEF Fresh
<1>10. new \in Frames(DOMAIN program)
  <2> DEFINE s == TRUE
  <2>1. ~s => ~flag /\ ~v.tainted
    OBVIOUS
  <2> HIDE DEF s
  <2> QED
    BY <1>2, <1>5, <1>7, <2>1, NewFrameSound DEF Sound, new
<1>11. /\ e \in Frames(DOMAIN program) /\ e.name = new.name /\ e.pc = new.pc /\ e.stack = new.stack
       /\ e.controls = new.controls /\ e.inherited = new.inherited /\ e.rval = new.rval
       /\ e.scopes = new.scopes /\ e.slots = f.slots
  BY <1>2, <1>10 DEF Frames
<1> HIDE DEF e
<1>12. /\ e.pc = 1 /\ e.stack = <<>> /\ e.controls = {} /\ e.rval = Value(FALSE, e.inherited)
       /\ e.scopes[1].prev = FALSE /\ e.scopes[1].opened = flag /\ e.inherited = controlled
       /\ program[e.name].heavy
  BY <1>4, <1>9, <1>11
<1> QED
  BY <1>1, <1>5, <1>6, <1>8, <1>11, <1>12, InvokedKeeps DEF f, out, g, flag

\* Getters and setters run in a frame of their own that is tainted if the scope is.
LEMMA CallGetterKeeps == Inv /\ Inv' /\ Keeping /\ CallGetter => Keeping'
<1> SUFFICES ASSUME Inv, Inv', Keeping, CallGetter PROVE Keeping'
  OBVIOUS
<1> DEFINE f == Fetched(Top)
           ops == {"getter"}
           name == Code(f)[f.pc].arg
           o == Operand(f, 1)
           used == {o}
           out == Output(f, used)
           controlled == Controlled(f)
           g == [f EXCEPT !.output = out]
           flag == ScopeTainted(g)
           v == Plain
           e == NewFrame(name, flag, v, controlled)
<1>1. /\ Executing(ops) /\ Unchanged /\ ops \subseteq Calls
      /\ frames' = [frames EXCEPT ![Len(frames)] = g] \o <<e>>
  BY DEF CallGetter, Calls
<1>2. /\ name \in DOMAIN program /\ program \in Programs /\ Code(f) = CodeOf(program, f)
      /\ Sound(program, source, f) /\ f.name = Top.name /\ f \in Frames(DOMAIN program)
  BY <1>1, CallFinds
<1>3. /\ CodeOf(program, f)[f.pc].op \in ops
      /\ Balanced(CodeOf(program, f), ShapeOf(program, f), f.pc)
  BY <1>1, RunningFrame
<1>5. \A x \in used : Loose(x) => StackTainted(f)
  <2>1. Goes(ShapeOf(program, f), f.pc, f.pc + JumpLength, 1, 1)
    BY <1>3 DEF Balanced
  <2>2. 1 <= Len(ShapeOf(program, f)[f.pc])
    BY <1>1, <2>1, GoesType
  <2> QED
    BY <1>1, <2>2, OperandsAreSeen
<1>6. out \in BOOLEAN /\ controlled \in BOOLEAN /\ flag \in BOOLEAN /\ (controlled => ScopeTainted(f))
  BY <1>1, DependsIsSeen, OutputType
<1>7. o.secret => out
  <2>1. o.secret => Depends(f, used)
    BY DEF Depends
  <2> HIDE DEF o, used
  <2> QED
    BY <1>1, <1>5, <2>1, DependsIsSeen
<1>8. v \in Values /\ ~Loose(v)
  BY DEF Plain, Value, Values, Loose
<1>9. (ScopeTainted(f) => out) /\ Operand(f, 1) = o
  BY DEF Output
<1> HIDE DEF f, name, out, v, controlled, e, o, flag
<1>10. /\ g \in Frames(DOMAIN program) /\ g.scopes = f.scopes /\ g.name = f.name /\ g.pc = f.pc
       /\ g.stack = f.stack /\ g.mark = f.mark /\ g.rval = f.rval /\ g.controls = f.controls
       /\ g.inherited = f.inherited /\ g.slots = f.slots /\ g.output = out
  BY <1>2, <1>6 DEF Frames
<1>11. flag <=> ScopeTainted(f)
  BY <1>10 DEF flag, ScopeTainted, Scope
<1> HIDE DEF g
<1>12. Continues(CodeOf(program, f), f, g)
  BY <1>10, SameContinues
<1>13. /\ e.name = name /\ e.pc = 1 /\ e.stack = <<>> /\ e.controls = {}
       /\ e.inherited = controlled /\ e.rval = Value(FALSE, controlled)
       /\ e.scopes[1].opened = flag /\ e.scopes[1].prev = FALSE
       /\ \A s \in Slots : e.slots[s] = IF s = "arg" THEN v ELSE Plain
  <2>1. e = NewFrame(name, flag, v, controlled)
    BY DEF e
  <2>2. Fresh(e, name, flag, v, controlled)
    BY <2>1, NewFrameFields
  <2> QED
    BY <2>2 DEF Fresh
<1>14. \A s \in Slots : Loose(e.slots[s]) => e.scopes[1].opened
  BY <1>8, <1>13 DEF v
<1>15. Guarded(program, e) /\ Prepared(program, e)
  BY <1>2, <1>6, <1>11, <1>13, <1>14, NewFrameKeeps
<1>16. e \in Frames(DOMAIN program)
  <2> DEFINE s == TRUE
  <2>1. ~s => ~flag /\ ~v.tainted
    OBVIOUS
  <2> HIDE DEF s
  <2> QED
    BY <1>2, <1>6, <1>8, <2>1, NewFrameSound DEF Sound, e
<1>17. Awaits(program, g, e)
  <2>1. CodeOf(program, g)[g.pc].op = "getter"
    BY <1>3, <1>10 DEF CodeOf
  <2>2. ~Lends(program, g, e)
    BY <2>1 DEF Lends
  <2>3. Controlled(g) => e.inherited
    BY <1>10, <1>13 DEF Controlled, controlled
  <2>4. Operand(g, 1) = o
    BY <1>9, <1>10 DEF Operand
  <2> QED
    BY <1>7, <1>9, <1>10, <1>11, <1>13, <2>1, <2>2, <2>3, <2>4 DEF Awaits
<1> QED
  BY <1>1, <1>10, <1>12, <1>15, <1>16, <1>17, CalledKeeps DEF f

LEMMA CallSetterKeeps == Inv /\ Inv' /\ Keeping /\ CallSetter => Keeping'
<1> SUFFICES ASSUME Inv, Inv', Keeping, CallSetter PROVE Keeping'
  OBVIOUS
<1> DEFINE f == Fetched(Top)
           ops == {"setter"}
           name == Code(f)[f.pc].arg
           a == Operand(f, 1)
           b == Operand(f, 2)
           used == {a, b}
           out == Output(f, used)
           controlled == Depends(f, used)
           h == SetterScope(f, out)
           g == [h EXCEPT !.output = out]
           flag == ScopeTainted(g)
           v == Value(a.tainted \/ out, Depends(f, {a}))
           e == NewFrame(name, flag, v, controlled)
<1>1. /\ Executing(ops) /\ Unchanged /\ ops \subseteq Calls
      /\ frames' = [frames EXCEPT ![Len(frames)] = g] \o <<e>>
  BY DEF CallSetter, Calls
<1>2. /\ name \in DOMAIN program /\ program \in Programs /\ Code(f) = CodeOf(program, f)
      /\ Sound(program, source, f) /\ f.name = Top.name /\ f \in Frames(DOMAIN program)
  BY <1>1, CallFinds
<1>3. /\ CodeOf(program, f)[f.pc].op \in ops /\ CodeOf(program, f)[f.pc] \in Cells
      /\ f.pc \in Nat /\ f.pc \in DOMAIN CodeOf(program, f)
      /\ Balanced(CodeOf(program, f), ShapeOf(program, f), f.pc)
  BY <1>1, RunningFrame
<1>5. (\A x \in used : Loose(x) => StackTainted(f)) /\ a.tainted \in BOOLEAN
  <2>1. Goes(ShapeOf(program, f), f.pc, f.pc + JumpLength, 2, 1)
    BY <1>3 DEF Balanced
  <2>2. 2 <= Len(ShapeOf(program, f)[f.pc])
    BY <1>1, <2>1, GoesType
  <2>3. (Loose(a) => StackTainted(f)) /\ (Loose(b) => StackTainted(f)) /\ a.tainted \in BOOLEAN
    BY <1>1, <2>2, OperandsAreSeen
  <2> HIDE DEF f, a, b
  <2> QED
    BY <2>3
<1>6. Depends(f, {a}) => Depends(f, used)
  BY DEF Depends
<1> HIDE DEF a, b
<1>7. /\ out \in BOOLEAN /\ controlled \in BOOLEAN /\ flag \in BOOLEAN /\ (controlled => out)
      /\ (Controlled(f) => controlled) /\ (ScopeTainted(f) => out)
  <2>1. out \in BOOLEAN /\ controlled \in BOOLEAN /\ flag \in BOOLEAN
    BY OutputType
  <2>2. controlled => out
    BY <1>1, <1>5, DependsIsSeen
  <2>3. (Controlled(f) => controlled) /\ (ScopeTainted(f) => out)
    <3> HIDE DEF f, used
    <3> QED
      BY DEF Output, Depends
  <2> QED
    BY <2>1, <2>2, <2>3
<1>8. v \in Values /\ ~Loose(v)
  <2>1. Depends(f, {a}) \in BOOLEAN
    BY OutputType
  <2> DEFINE d == Depends(f, {a})
             t == a.tainted \/ out
  <2>2. d \in BOOLEAN /\ (d => out) /\ t \in BOOLEAN /\ (out => t) /\ v = Value(t, d)
    BY <1>5, <1>6, <1>7, <2>1
  <2> HIDE DEF d, out, t, v
  <2> QED
    BY <2>2 DEF Value, Values, Loose
<1> HIDE DEF f, name, out, v, controlled, e, flag, h
<1>9. /\ Continues(CodeOf(program, f), f, h) /\ h \in Frames(DOMAIN program)
      /\ h.pc = f.pc /\ h.stack = f.stack /\ h.mark = f.mark /\ h.controls = f.controls
  <2>1. CASE ~out
    <3>1. h = f
      BY <2>1 DEF h, SetterScope
    <3> QED
      BY <1>2, <3>1, SameContinues
  <2>2. CASE out
    <3> DEFINE target == f.pc + 1
               secret == FALSE
    <3>1. h = WithScope(f, target, out, secret)
      BY <2>2 DEF h, SetterScope
    <3>2. f.pc + 1 \in Int
      BY <1>3
    <3>3. Opening(CodeOf(program, f), f.pc, target, out, secret)
      BY <1>7, <3>2 DEF Opening
    <3>4. h.controls = f.controls
      BY <1>2, <3>1 DEF WithScope, Frames
    <3>5. /\ Sound(program, source, f) /\ f.pc \in Nat /\ f.pc \in DOMAIN CodeOf(program, f)
          /\ CodeOf(program, f)[f.pc] \in Cells
      BY <1>2, <1>3
    <3> HIDE DEF target, secret
    <3>6. /\ Continues(CodeOf(program, f), f, h) /\ h \in Frames(DOMAIN program)
          /\ h.pc = f.pc /\ h.stack = f.stack /\ h.mark = f.mark
      <4>1. Opened(program, f, WithScope(f, target, out, secret), target)
        BY <3>3, <3>5, WithScopeContinues
      <4>2. Opened(program, f, h, target)
        BY <3>1, <4>1
      <4> QED
        BY <4>2 DEF Opened
    <3> QED
      BY <3>4, <3>6
  <2> QED
    BY <1>7, <2>1, <2>2
<1>10. ScopeTainted(h) <=> out \/ ScopeTainted(f)
  <2>1. CASE ~out
    <3>1. h = f
      BY <2>1 DEF h, SetterScope
    <3> QED
      BY <2>1, <3>1
  <2>2. CASE out
    <3> DEFINE n == Len(f.scopes)
               cell == Code(f)[f.pc]
               target == f.pc + 1
               new == [istainted |-> out, prev |-> ScopeTainted(f), opened |-> out,
                       op |-> cell.op, from |-> Min({f.pc, target}), to |-> Max({f.pc, target})]
    <3>1. h.scopes = Append(f.scopes, new)
      BY <1>2, <2>2 DEF h, SetterScope, WithScope, Frames
    <3>2. f.scopes \in Seq(Scopes)
      BY <1>2 DEF Frames
    <3>3. new.istainted
      BY <2>2
    <3> HIDE DEF new
    <3>4. Scope(h) = new
      BY <3>1, <3>2 DEF Scope
    <3> QED
      BY <2>2, <3>3, <3>4 DEF ScopeTainted
  <2> QED
    BY <1>7, <2>1, <2>2
<1>11. /\ g \in Frames(DOMAIN program) /\ g.scopes = h.scopes /\ g.name = h.name /\ g.pc = f.pc
       /\ g.stack = f.stack /\ g.mark = f.mark /\ g.rval = h.rval /\ g.controls = h.controls
       /\ g.inherited = h.inherited /\ g.slots = h.slots /\ g.output = out
  BY <1>7, <1>9 DEF Frames
<1>12. flag <=> out
  BY <1>7, <1>10, <1>11 DEF flag, ScopeTainted, Scope
<1> HIDE DEF g
<1>13. Continues(CodeOf(program, f), f, g)
  BY <1>9, <1>11, ContinuesOn
<1>14. /\ e.name = name /\ e.pc = 1 /\ e.stack = <<>> /\ e.controls = {}
       /\ e.inherited = controlled /\ e.rval = Value(FALSE, controlled)
       /\ e.scopes[1].opened = flag /\ e.scopes[1].prev = FALSE
       /\ \A s \in Slots : e.slots[s] = IF s = "arg" THEN v ELSE Plain
  <2>1. e = NewFrame(name, flag, v, controlled)
    BY DEF e
  <2>2. Fresh(e, name, flag, v, controlled)
    BY <2>1, NewFrameFields
  <2> QED
    BY <2>2 DEF Fresh
<1>15. \A s \in Slots : Loose(e.slots[s]) => e.scopes[1].opened
  BY <1>8, <1>14 DEF Plain, Value, Loose
<1>16. Guarded(program, e) /\ Prepared(program, e)
  BY <1>2, <1>7, <1>12, <1>14, <1>15, NewFrameKeeps
<1>17. e \in Frames(DOMAIN program)
  <2> DEFINE s == TRUE
  <2>1. ~s => ~flag /\ ~v.tainted
    OBVIOUS
  <2> HIDE DEF s
  <2> QED
    BY <1>2, <1>7, <1>8, <2>1, NewFrameSound DEF Sound, e
<1>18. Awaits(program, g, e)
  <2>1. CodeOf(program, g)[g.pc].op = "setter"
    BY <1>3, <1>11, <1>13 DEF CodeOf, Continues
  <2>2. ~Lends(program, g, e)
    BY <2>1 DEF Lends
  <2>3. Controlled(g) => e.inherited
    BY <1>7, <1>9, <1>11, <1>13, <1>14 DEF Controlled, Continues
  <2> QED
    BY <1>11, <1>12, <1>14, <2>1, <2>2, <2>3 DEF Awaits
<1> QED
  BY <1>1, <1>11, <1>13, <1>16, <1>17, <1>18, CalledKeeps DEF f

-----------------------------------------------------------------------------
\* Returns.  What holds of the frame that waits for the running one.
LEMMA CallerKeeps ==
    ASSUME Inv, Keeping, Len(frames) > 1, NEW w, w = Caller
    PROVE  /\ Guarded(program, w) /\ Prepared(program, w) /\ Awaits(program, w, Top)
           /\ InOwnSwitch(CodeOf(program, w), w)
           /\ Guarded(program, Top)
           /\ WellNested(CodeOf(program, w), ShapeOf(program, w), w.pc)
           /\ w.pc \in DOMAIN CodeOf(program, w) /\ CodeOf(program, w)[w.pc].op \in Calls
           /\ Calling = "eval" => program[Top.name].heavy
<1> DEFINE n == Len(frames)
<1>1. /\ program \in Programs /\ w \in Frames(DOMAIN program) /\ Waits(program, w, Top)
      /\ w.name \in DOMAIN program /\ w.pc \in DOMAIN CodeOf(program, w)
      /\ Calling = CodeOf(program, w)[w.pc].op /\ Calling \in Calls /\ Ready(program, w)
  BY CallerFrame
<1>2. w.pc \in DOMAIN ShapeOf(program, w)
  BY <1>1 DEF Ready
<1>3. frames \in Seq(Frames(DOMAIN program))
  BY DEF Inv, Structure
<1>4. n \in DOMAIN frames /\ n - 1 \in DOMAIN frames /\ n - 1 \in 1..n - 1 /\ n - 1 + 1 = n
  BY <1>3
<1>5. w = frames[n - 1] /\ Top = frames[n]
  BY DEF Caller, Top
<1> HIDE DEF n
<1>6. /\ \A i \in DOMAIN frames : Guarded(program, frames[i])
      /\ \A i \in 1..n - 1 : /\ Prepared(program, frames[i])
                             /\ Awaits(program, frames[i], frames[i + 1])
  BY DEF Keeping, n
<1>7. /\ Guarded(program, w) /\ Prepared(program, w) /\ Awaits(program, w, Top)
      /\ Guarded(program, Top)
  BY <1>4, <1>5, <1>6
<1>8. InOwnSwitch(CodeOf(program, w), w)
  BY <1>7 DEF Prepared
<1>9. WellNested(CodeOf(program, w), ShapeOf(program, w), w.pc)
  BY <1>1, <1>2, CodeIsNested
<1>10. CodeOf(program, w)[w.pc].arg = Top.name
  BY <1>1 DEF Waits
<1>11. Calling = "eval" => program[Top.name].heavy
  <2>1. Linked(program, CodeOf(program, w), ShapeOf(program, w), w.pc)
    BY <1>1, <1>2, CodeIsBalanced DEF WellFormed
  <2> QED
    BY <1>1, <1>10, <2>1 DEF Linked
<1> QED
  BY <1>1, <1>7, <1>8, <1>9, <1>11

\* The value of the running frame is stored by inline_return.
ReturnsInline == Calling \notin {"getter", "setter"} /\ Inlined(Len(frames))

\* What a call returns is secret if the call was controlled, and loose only where the
\* caller taints it.
Delivers(v, out) ==
    /\ Top.inherited => v.secret
    /\ Len(frames) > 1 /\ Loose(v) =>
           IF ReturnsInline THEN out \/ Marks(Caller.mark, Len(Caller.stack) - 2)
           ELSE Caller.output

\* The caller w with the result x in the place of n operands.
Accepts(w, g, n, x) ==
    /\ Continues(CodeOf(program, w), w, g) /\ g \in Frames(DOMAIN program)
    /\ g.pc = w.pc /\ g.stack = Put(w, n, x) /\ x \in Values /\ n \in Nat
    /\ Goes(ShapeOf(program, w), w.pc, w.pc + JumpLength, n, 1)
    /\ MarkStays(w, g, Len(w.stack) - n)
    /\ Loose(x) => Marks(g.mark, Len(w.stack) - n + 1)

\* A frame whose operands, mark and output are replaced.
Marked(w, t, mark, q) == [w EXCEPT !.stack = t, !.mark = mark, !.output = q]

LEMMA MarkedFields ==
    ASSUME NEW names, NEW w \in Frames(names), NEW t \in Seq(OnStack), NEW mark \in Nat,
           NEW q \in BOOLEAN
    PROVE  \A g : g = Marked(w, t, mark, q) =>
           /\ g \in Frames(names) /\ g.name = w.name /\ g.inherited = w.inherited
           /\ g.scopes = w.scopes /\ g.controls = w.controls /\ g.slots = w.slots
           /\ g.rval = w.rval /\ g.pc = w.pc /\ g.stack = t /\ g.mark = mark
<1> DEFINE g == Marked(w, t, mark, q)
           h == [w EXCEPT !.stack = t]
           k == [h EXCEPT !.mark = mark]
<1>1. /\ h \in Frames(names) /\ h.stack = t
      /\ \A x \in {"name", "inherited", "scopes", "controls", "slots", "rval", "pc"} : h[x] = w[x]
  BY DEF Frames
<1> HIDE DEF h
<1>2. /\ k \in Frames(names) /\ k.stack = t /\ k.mark = mark
      /\ \A x \in {"name", "inherited", "scopes", "controls", "slots", "rval", "pc"} : k[x] = h[x]
  BY <1>1 DEF Frames
<1> HIDE DEF k
<1>3. g = [k EXCEPT !.output = q]
  BY DEF Marked, h, k
<1>4. /\ g \in Frames(names) /\ g.stack = t /\ g.mark = mark
      /\ \A x \in {"name", "inherited", "scopes", "controls", "slots", "rval", "pc"} : g[x] = k[x]
  BY <1>2, <1>3 DEF Frames
<1> HIDE DEF g
<1> QED
  BY <1>1, <1>2, <1>4 DEF g

\* The result takes the place of n operands, and the mark moves down to it.
LEMMA MarkedAccepts ==
    ASSUME Inv, Keeping, Len(frames) > 1, NEW w, w = Caller,
           NEW n \in Nat, Goes(ShapeOf(program, w), w.pc, w.pc + JumpLength, n, 1),
           NEW x \in Values, NEW o \in BOOLEAN, NEW q \in BOOLEAN,
           Loose(x) => o \/ Marks(w.mark, Len(w.stack) - n + 1),
           NEW g, g = Marked(w, Put(w, n, x), Mark(w, Len(Drop(w, n)) + 1, o), q)
    PROVE  Accepts(w, g, n, x)
<1> DEFINE code == CodeOf(program, w)
           shape == ShapeOf(program, w)
           m == Len(w.stack) - n
           t == Put(w, n, x)
           mark == Mark(w, Len(Drop(w, n)) + 1, o)
<1>1. /\ program \in Programs /\ w \in Frames(DOMAIN program) /\ Rooted(w) /\ Ready(program, w)
      /\ w.pc \in DOMAIN code /\ code[w.pc].op \in Calls
  BY CallerFrame
<1>2. code[w.pc].op # "setsp"
  BY <1>1 DEF Calls
<1>3. /\ w.stack \in Seq(OnStack) /\ Len(shape[w.pc]) \in Nat /\ Len(w.stack) = Len(shape[w.pc])
  BY <1>1, <1>2, ShapeHere
<1>4. m \in Nat
  <2>1. Len(shape[w.pc]) - n >= 0
    BY DEF Goes
  <2> HIDE DEF shape
  <2> QED
    BY <1>3, <2>1
<1>5. x \in OnStack
  BY DEF OnStack
<1>6. t \in Seq(OnStack) /\ Len(Drop(w, n)) = m
  BY <1>3, <1>4, <1>5, PutFacts
<1>7. m + 1 \in Nat /\ m + 1 > 0 /\ mark = Mark(w, m + 1, o) /\ w.mark \in Nat
  BY <1>1, <1>4, <1>6 DEF Frames
<1>8. /\ \A j \in Nat : Marks(w.mark, j) => Marks(mark, j)
      /\ o => Marks(mark, m + 1)
  BY <1>1, <1>7, MarkedBy
<1>9. mark \in Nat
  BY <1>7 DEF Mark, NoMark
<1> HIDE DEF mark, t
<1>10. g = Marked(w, t, mark, q)
  BY DEF mark, t
<1>11. /\ g \in Frames(DOMAIN program) /\ g.name = w.name /\ g.inherited = w.inherited
       /\ g.scopes = w.scopes /\ g.controls = w.controls /\ g.slots = w.slots /\ g.rval = w.rval
       /\ g.pc = w.pc /\ g.stack = t /\ g.mark = mark
  <2>1. w \in Frames(DOMAIN program) /\ t \in Seq(OnStack)
    BY <1>1, <1>6
  <2> QED
    BY <2>1, <1>9, <1>10, MarkedFields
<1> HIDE DEF m
<1>12. Continues(code, w, g)
  BY <1>11, SameContinues
<1>13. MarkStays(w, g, m)
  BY <1>4, <1>8, <1>11 DEF MarkStays
<1>14. Loose(x) => Marks(mark, m + 1)
  BY <1>4, <1>7, <1>8 DEF m
<1> QED
  BY <1>11, <1>12, <1>13, <1>14 DEF Accepts, t, m

\* A frame whose scopes, variables and stack are replaced.
Replaced(w, scopes, slots, t) == [w EXCEPT !.scopes = scopes, !.slots = slots, !.stack = t]

LEMMA ReplacedFields ==
    ASSUME NEW names, NEW w \in Frames(names), NEW scopes \in Seq(Scopes),
           NEW slots \in [Slots -> Values], NEW t \in Seq(OnStack),
           NEW g, g = Replaced(w, scopes, slots, t)
    PROVE  /\ g \in Frames(names) /\ g.name = w.name /\ g.inherited = w.inherited
           /\ g.scopes = scopes /\ g.controls = w.controls /\ g.slots = slots /\ g.rval = w.rval
           /\ g.pc = w.pc /\ g.stack = t /\ g.mark = w.mark
BY DEF Frames, Replaced

\* A frame after js_Invoke: the flag of its last scope is set back.
SetBack(w, slots, stack) ==
    [w EXCEPT !.scopes[Len(w.scopes)].istainted = w.saved, !.slots = slots, !.stack = stack]

\* The end of js_Invoke: the value is tainted itself.
LEMMA RestoredAccepts ==
    ASSUME Inv, Keeping, Len(frames) > 1, NEW w, w = Caller,
           NEW n \in Nat, Goes(ShapeOf(program, w), w.pc, w.pc + JumpLength, n, 1),
           NEW x \in Values, ~Loose(x),
           NEW slots \in [Slots -> Values], \A s \in Slots : Loose(slots[s]) => Loose(w.slots[s]),
           NEW g, g = SetBack(w, slots, Put(w, n, x))
    PROVE  Accepts(w, g, n, x)
<1> DEFINE code == CodeOf(program, w)
           shape == ShapeOf(program, w)
           m == Len(w.stack) - n
           t == Put(w, n, x)
           k == Len(w.scopes)
           last == [w.scopes[k] EXCEPT !.istainted = w.saved]
           scopes == [w.scopes EXCEPT ![k] = last]
<1>1. /\ program \in Programs /\ w \in Frames(DOMAIN program) /\ Rooted(w) /\ Ready(program, w)
      /\ w.pc \in DOMAIN code /\ code[w.pc].op \in Calls
  BY CallerFrame
<1>2. code[w.pc].op # "setsp"
  BY <1>1 DEF Calls
<1>3. /\ w.stack \in Seq(OnStack) /\ Len(shape[w.pc]) \in Nat /\ Len(w.stack) = Len(shape[w.pc])
  BY <1>1, <1>2, ShapeHere
<1>4. m \in Nat
  <2>1. Len(shape[w.pc]) - n >= 0
    BY DEF Goes
  <2> HIDE DEF shape
  <2> QED
    BY <1>3, <2>1
<1>5. x \in OnStack
  BY DEF OnStack
<1>6. t \in Seq(OnStack)
  BY <1>3, <1>4, <1>5, PutFacts
<1>7. /\ w.scopes \in Seq(Scopes) /\ k \in DOMAIN w.scopes /\ w.scopes[k] \in Scopes
      /\ w.saved \in BOOLEAN
  BY <1>1 DEF Frames, Rooted
<1>8. /\ last \in Scopes /\ last.op = w.scopes[k].op /\ last.prev = w.scopes[k].prev
      /\ last.from = w.scopes[k].from /\ last.to = w.scopes[k].to
      /\ last.opened = w.scopes[k].opened
  BY <1>7 DEF Scopes
<1>9. g = Replaced(w, scopes, slots, t)
  BY DEF SetBack, Replaced
<1> HIDE DEF last, k, t
<1>10. /\ scopes \in Seq(Scopes) /\ DOMAIN scopes = DOMAIN w.scopes /\ scopes[k] = last
       /\ \A i \in DOMAIN w.scopes : i # k => scopes[i] = w.scopes[i]
  BY <1>7, <1>8
<1> HIDE DEF scopes
<1>11. /\ g \in Frames(DOMAIN program) /\ g.name = w.name /\ g.inherited = w.inherited
       /\ g.scopes = scopes /\ g.controls = w.controls /\ g.slots = slots /\ g.rval = w.rval
       /\ g.pc = w.pc /\ g.stack = t /\ g.mark = w.mark
  <2>1. w \in Frames(DOMAIN program) /\ scopes \in Seq(Scopes)
    BY <1>1, <1>10
  <2> QED
    BY <1>6, <1>9, <2>1, ReplacedFields
<1> HIDE DEF m
<1>12. \A i \in DOMAIN w.scopes :
           /\ scopes[i].op = w.scopes[i].op /\ scopes[i].prev = w.scopes[i].prev
           /\ scopes[i].from = w.scopes[i].from /\ scopes[i].to = w.scopes[i].to
           /\ scopes[i].opened = w.scopes[i].opened
  BY <1>8, <1>10
<1>13. Continues(code, w, g)
  BY <1>10, <1>11, <1>12 DEF Continues
<1>14. MarkStays(w, g, m)
  BY <1>11 DEF MarkStays
<1> QED
  BY <1>11, <1>13, <1>14 DEF Accepts, t, m

LEMMA ReturnedAccepts ==
    ASSUME Inv, Keeping, Len(frames) > 1, NEW w, w = Caller,
           NEW v \in Values, NEW out \in BOOLEAN, Delivers(v, out),
           NEW g, g = Returned(v, out)
    PROVE  \E n, x : Accepts(w, g, n, x) /\ (Calling \in {"call", "eval"} => n = 3)
<1>1. /\ program \in Programs /\ w \in Frames(DOMAIN program)
      /\ Top \in Frames(DOMAIN program)
      /\ Calling = CodeOf(program, w)[w.pc].op /\ Calling \in Calls
      /\ Balanced(CodeOf(program, w), ShapeOf(program, w), w.pc)
  BY CallerFrame
<1>2. /\ w.output \in BOOLEAN /\ w.mark \in Nat /\ w.stack \in Seq(OnStack)
      /\ w.slots \in [Slots -> Values] /\ Top.slots \in [Slots -> Values]
  BY <1>1 DEF Frames
<1>3. v.tainted \in BOOLEAN /\ v.secret \in BOOLEAN
  BY DEF Values
<1>4. Awaits(program, w, Top) /\ (Calling = "eval" => program[Top.name].heavy)
  BY CallerKeeps
<1>5. Controlled(w) => v.secret
  BY <1>4 DEF Awaits, Delivers
<1>6. Loose(v) => IF ReturnsInline THEN out \/ Marks(w.mark, Len(w.stack) - 2) ELSE w.output
  BY DEF Delivers
<1>7. CASE Calling = "getter"
  <2> DEFINE n == 1
             o == w.output \/ v.tainted
             d == Depends(w, {Operand(w, 1)})
             x == [v EXCEPT !.secret = @ \/ d]
  <2>1. g = Marked(w, Put(w, n, x), Mark(w, Len(Drop(w, n)) + 1, o), o)
    <3>1. Returned(v, out) = ReturnedGetter(v)
      BY <1>7 DEF Returned
    <3>2. ReturnedGetter(v) = Pushed(w, Drop(w, n), x, o)
      BY DEF ReturnedGetter
    <3> HIDE DEF n, o, x
    <3> QED
      BY <3>1, <3>2 DEF Pushed, Put, Marked
  <2>2. n \in Nat /\ Goes(ShapeOf(program, w), w.pc, w.pc + JumpLength, n, 1)
    BY <1>1, <1>7 DEF Balanced
  <2>3. o \in BOOLEAN /\ d \in BOOLEAN
    BY <1>2, <1>3, OutputType
  <2>4. d => v.secret \/ w.output
    <3>1. Operand(w, 1).secret => w.output
      BY <1>1, <1>4, <1>7 DEF Awaits
    <3> QED
      BY <1>5, <3>1 DEF Depends
  <2> HIDE DEF n, d
  <2>5. x \in Values /\ x.tainted = v.tainted /\ x.secret = (v.secret \/ d)
    BY <1>3, <2>3 DEF Values
  <2>6. Loose(x) => o
    BY <1>6, <1>7, <2>4, <2>5 DEF Loose, ReturnsInline
  <2> HIDE DEF x, o
  <2>7. Accepts(w, g, n, x)
    BY <2>1, <2>2, <2>3, <2>5, <2>6, MarkedAccepts
  <2> QED
    BY <1>7, <2>7
<1>8. CASE Calling = "setter"
  <2> DEFINE n == 2
             o == w.output
  <2>1. g = Marked(w, Put(w, n, v), Mark(w, Len(Drop(w, n)) + 1, o), o)
    <3>1. Returned(v, out) = ReturnedSetter(v)
      BY <1>8 DEF Returned
    <3>2. ReturnedSetter(v) = Pushed(w, Drop(w, n), v, o)
      BY DEF ReturnedSetter
    <3> HIDE DEF n, o
    <3> QED
      BY <3>1, <3>2 DEF Pushed, Put, Marked
  <2>2. n \in Nat /\ Goes(ShapeOf(program, w), w.pc, w.pc + JumpLength, n, 1)
    BY <1>1, <1>8 DEF Balanced
  <2>3. o \in BOOLEAN
    BY <1>2
  <2>4. Loose(v) => o
    BY <1>6, <1>8 DEF ReturnsInline
  <2> HIDE DEF n, o
  <2>5. Accepts(w, g, n, v)
    BY <2>1, <2>2, <2>3, <2>4, MarkedAccepts
  <2> QED
    BY <1>8, <2>5
<1>9. Calling \notin {"getter", "setter"} => Calling \in {"call", "eval"}
  BY <1>1 DEF Calls
<1>11. CASE Calling \notin {"getter", "setter"} /\ Inlined(Len(frames))
  <2> DEFINE n == 3
             q == w.output
             x == [v EXCEPT !.tainted = @ \/ out]
  <2>1. g = Marked(w, Put(w, n, x), Mark(w, Len(Drop(w, n)) + 1, out), q)
    <3>1. Returned(v, out) = ReturnedInline(v, out)
      BY <1>9, <1>11 DEF Returned
    <3>2. Returned(v, out) = [w EXCEPT !.stack = Put(w, n, x), !.mark = Mark(w, Len(Drop(w, n)) + 1, out)]
      BY <3>1 DEF ReturnedInline, Put
    <3> DEFINE t == Put(w, n, x)
               mark == Mark(w, Len(Drop(w, n)) + 1, out)
    <3> HIDE DEF t, mark
    <3>3. [w EXCEPT !.stack = t, !.mark = mark] = [w EXCEPT !.stack = t, !.mark = mark, !.output = q]
      BY <1>1 DEF Frames
    <3> QED
      BY <3>2, <3>3 DEF t, mark, Marked
  <2>2. n \in Nat /\ Goes(ShapeOf(program, w), w.pc, w.pc + JumpLength, n, 1) /\ n = 3
    BY <1>1, <1>9, <1>11 DEF Balanced
  <2>3. q \in BOOLEAN
    BY <1>2
  <2>4. x \in Values /\ x.tainted = (v.tainted \/ out) /\ x.secret = v.secret
    BY <1>3 DEF Values
  <2>5. Len(w.stack) - n + 1 = Len(w.stack) - 2
    BY <1>2
  <2> HIDE DEF n, q, x
  <2>6. Loose(x) => out \/ Marks(w.mark, Len(w.stack) - n + 1)
    BY <1>6, <1>11, <2>4, <2>5 DEF Loose, ReturnsInline
  <2>7. Accepts(w, g, n, x)
    BY <2>1, <2>2, <2>3, <2>4, <2>6, MarkedAccepts
  <2> QED
    BY <2>2, <2>7
<1>12. CASE Calling \notin {"getter", "setter"} /\ ~Inlined(Len(frames))
  <2> DEFINE n == 3
             x == [v EXCEPT !.tainted = @ \/ w.output]
             slots == IF Calling = "eval" THEN Top.slots ELSE w.slots
  <2>1. g = SetBack(w, slots, Put(w, n, x))
    <3>1. Returned(v, out) = ReturnedInvoke(v)
      BY <1>12 DEF Returned
    <3>2. Calling = Code(w)[w.pc].op
      BY DEF Calling
    <3> QED
      BY <3>1, <3>2 DEF ReturnedInvoke, Put, SetBack
  <2>2. n \in Nat /\ Goes(ShapeOf(program, w), w.pc, w.pc + JumpLength, n, 1) /\ n = 3
    BY <1>1, <1>9, <1>12 DEF Balanced
  <2>3. x \in Values /\ x.tainted = (v.tainted \/ w.output) /\ x.secret = v.secret
    BY <1>2, <1>3 DEF Values
  <2> HIDE DEF n, x
  <2>4. ~Loose(x)
    BY <1>6, <1>12, <2>3 DEF Loose, ReturnsInline
  <2>5. slots \in [Slots -> Values] /\ \A s \in Slots : Loose(slots[s]) => Loose(w.slots[s])
    BY <1>1, <1>2, <1>4 DEF Awaits
  <2> HIDE DEF slots
  <2>6. Accepts(w, g, n, x)
    BY <2>1, <2>2, <2>3, <2>4, <2>5, RestoredAccepts
  <2> QED
    BY <2>2, <2>6
<1> QED
  BY <1>7, <1>8, <1>11, <1>12

\* The last frame ends.
LEMMA NoFrameKeeps ==
    ASSUME Keeping, frames' = <<>>, ~throwing', exception' = exception
    PROVE  Keeping'
<1>1. Len(frames') = 0 /\ DOMAIN frames' = {} /\ 1..Len(frames') - 1 = {}
  OBVIOUS
<1> QED
  BY <1>1 DEF Keeping, Loose

\* The caller goes on behind the call.
LEMMA FrameReturnsKeeps ==
    ASSUME Inv, Inv', Keeping, frames # <<>>, ~throwing, Unchanged,
           NEW v \in Values, NEW out \in BOOLEAN, Delivers(v, out), ReturnTo(v, out)
    PROVE  Keeping'
<1>1. /\ frames \in Seq(Frames(DOMAIN program)) /\ program' = program
      /\ exception' = exception /\ ~throwing' /\ ~Loose(exception')
  BY DEF Inv, Structure, Unchanged, Keeping
<1>2. Len(frames) \in Nat /\ (Len(frames) = 1 \/ Len(frames) > 1)
  BY <1>1, OneOrMore
<1>3. CASE Len(frames) = 1
  BY <1>1, <1>3, NoFrameKeeps DEF ReturnTo
<1>4. CASE Len(frames) > 1
  <2> DEFINE w == Caller
             r == Returned(v, out)
             g == [r EXCEPT !.pc = @ + JumpLength]
             code == CodeOf(program, w)
             shape == ShapeOf(program, w)
             k == Len(frames) - 1
  <2>1. PICK n, x : Accepts(w, r, n, x)
    BY <1>4, ReturnedAccepts
  <2>2. /\ program \in Programs /\ w \in Frames(DOMAIN program) /\ Rooted(w) /\ Ready(program, w)
        /\ w.pc \in Nat /\ w.pc \in DOMAIN code /\ code[w.pc].op \in Calls
    BY <1>4, CallerFrame
  <2>3. /\ Guarded(program, w) /\ InOwnSwitch(code, w)
        /\ WellNested(code, shape, w.pc)
    BY <1>4, CallerKeeps
  <2>4. frames' = Append(SubSeq(frames, 1, Len(frames) - 2), g)
    <3> DEFINE len == Len(frames)
    <3>1. len # 1
      <4>1. len \in Nat /\ len > 1
        BY <1>2, <1>4
      <4> HIDE DEF len
      <4> QED
        BY <4>1
    <3> QED
      BY <3>1 DEF ReturnTo
  <2>5. k \in 1..Len(frames) /\ w = frames[k] /\ k \in Nat /\ k >= 1 /\ Len(frames) = k + 1
        /\ Len(frames) - 2 = k - 1
    BY <1>2, <1>4 DEF Caller
  <2> HIDE DEF w, r, k, code, shape
  <2>6. /\ r \in Frames(DOMAIN program) /\ r.pc = w.pc /\ r.stack = Put(w, n, x)
        /\ Continues(code, w, r) /\ x \in Values /\ n \in Nat
        /\ Goes(shape, w.pc, w.pc + JumpLength, n, 1)
        /\ MarkStays(w, r, Len(w.stack) - n)
        /\ Loose(x) => Marks(r.mark, Len(w.stack) - n + 1)
    BY <2>1 DEF Accepts, code, shape
  <2>7. /\ g.scopes = r.scopes /\ g.name = r.name /\ g.pc = w.pc + JumpLength
        /\ g.stack = r.stack /\ g.mark = r.mark /\ g.rval = r.rval /\ g.controls = r.controls
        /\ g.inherited = r.inherited /\ g.slots = r.slots
    BY <2>6 DEF Frames
  <2>8. g.pc \in Nat
    BY <2>2, <2>7 DEF JumpLength
  <2>9. g \in Frames(DOMAIN program)
    BY <2>6, <2>8 DEF Frames
  <2> HIDE DEF g
  <2>10. Len(frames') = k /\ frames'[k] = g /\ \A i \in 1..k - 1 : frames'[i] = frames[i]
    BY <1>1, <2>4, <2>5, <2>9, LastTwoReplaced
  <2>11. DOMAIN frames' = 1..k
    <3>1. frames' \in Seq(Frames(DOMAIN program))
      BY <1>1 DEF Inv, Structure
    <3> QED
      BY <2>10, <3>1
  <2>12. Continues(code, w, g)
    BY <2>6, <2>7, ContinuesOn
  <2>13. x \in OnStack /\ code[w.pc].op \notin {"setsp", "condswitch"}
    BY <2>2, <2>6 DEF OnStack, Calls
  <2>14. \A j \in DOMAIN g.stack : Loose(g.stack[j]) => Marks(g.mark, j)
    <3>1. /\ MarkStays(w, g, Len(w.stack) - n)
          /\ Loose(x) => Marks(g.mark, Len(w.stack) - n + 1)
      BY <2>6, <2>7 DEF MarkStays
    <3> QED
      BY <2>2, <2>3, <2>6, <2>7, <2>13, <3>1, PutMarked DEF code, shape
  <2>15. w.pc + JumpLength \in Flow(code, shape, w.pc)
    BY <2>2 DEF Flow, Calls, LongOps
  <2>16. \A q \in DOMAIN code : InCases(code, q, g.pc) => InCases(code, q, w.pc)
    BY <2>3, <2>7, <2>13, <2>15, FlowStays
  <2>17. InOwnSwitch(code, g)
    <3>1. w.scopes \in Seq(Scopes) /\ g.scopes \in Seq(Scopes)
      BY <2>2, <2>9 DEF Frames
    <3> QED
      BY <2>3, <2>12, <2>13, <2>16, <3>1, SwitchStays
  <2>18. CodeOf(program, g) = code /\ ShapeOf(program, g) = shape
    BY <2>12 DEF Continues, CodeOf, ShapeOf, code, shape
  <2>19. Prepared(program, g)
    BY <2>17, <2>18 DEF Prepared
  <2>20. 1 \in DOMAIN w.scopes
    BY <2>2 DEF Frames, Rooted
  <2>21. Guarded(program, g) /\ g.scopes[1].opened = w.scopes[1].opened
    BY <2>2, <2>3, <2>12, <2>14, <2>20, GuardedNext DEF code
  <2>22. /\ g.name = w.name /\ g.inherited = w.inherited
         /\ \A s \in Slots : Loose(g.slots[s]) => Loose(w.slots[s])
    BY <2>12 DEF Continues
  <2> QED
    BY <1>1, <2>5, <2>10, <2>11, <2>19, <2>21, <2>22, FramesKeep
<1> QED
  BY <1>2, <1>3, <1>4

\* RETURN and RETRVAL.
LEMMA ReturningKeeps == Inv /\ Inv' /\ Keeping /\ Returning /\ ~LosesResult => Keeping'
<1> SUFFICES ASSUME Inv, Inv', Keeping, Returning, ~LosesResult PROVE Keeping'
  OBVIOUS
<1> DEFINE f == Fetched(Top)
           ops == {"return", "retrval"}
           code == CodeOf(program, f)
           shape == ShapeOf(program, f)
           v == IF Code(f)[f.pc].op = "return" THEN Operand(f, 1) ELSE f.rval
           d == Depends(f, {v})
           x == Value(v.tainted, d)
           out == Output(f, {v})
           n == 1
           j == Len(shape[f.pc])
<1>1. Executing(ops) /\ ReturnTo(x, out) /\ Unchanged
  BY DEF Returning
<1>2. frames # <<>> /\ ~throwing
  BY <1>1 DEF Executing
<1>3. /\ Code(f) = code /\ program \in Programs /\ Ready(program, f) /\ f.pc \in DOMAIN code
      /\ Balanced(code, shape, f.pc) /\ code[f.pc].op \in ops
      /\ f \in Frames(DOMAIN program) /\ f.name = Top.name
  BY <1>1, RunningFrame DEF Sound
<1>4. Guarded(program, f) /\ f.inherited = Top.inherited
  BY <1>1, KeepingFrame
<1>5. /\ Controlled(f) => ScopeTainted(f)
      /\ f.scopes[1].opened => ScopeTainted(f)
      /\ \A used : (\A u \in used : Loose(u) => StackTainted(f) \/ ScopeTainted(f))
                   /\ Depends(f, used) => Output(f, used)
  BY <1>1, DependsIsSeen
<1>6. n \in Nat /\ n \in 1..n
  OBVIOUS
<1>7. code[f.pc].op # "setsp"
  BY <1>3
<1>8. /\ j \in Nat /\ Len(f.stack) = j /\ f.stack \in Seq(OnStack)
  BY <1>3, <1>7, ShapeHere
<1>9. code[f.pc].op = "return" => n <= j /\ j \in 1..j
  <2>1. code[f.pc].op = "return" => j > 0
    BY <1>3 DEF Balanced
  <2> HIDE DEF j
  <2> QED
    BY <1>8, <2>1
<1>10. code[f.pc].op = "return" => /\ Loose(Operand(f, n)) => StackTainted(f)
                                   /\ Operand(f, n).tainted \in BOOLEAN
                                   /\ Operand(f, n).secret \in BOOLEAN
  BY <1>1, <1>6, <1>9, OperandsAreSeen
<1>11. f.rval.tainted \in BOOLEAN /\ f.rval.secret \in BOOLEAN
  BY <1>3 DEF Frames, Values
<1>12. Loose(f.rval) => f.scopes[1].opened
  BY <1>4 DEF Guarded
<1>13. v.tainted \in BOOLEAN /\ (Loose(v) => StackTainted(f) \/ ScopeTainted(f))
  BY <1>3, <1>5, <1>10, <1>11, <1>12
<1>14. x = ReturnValue
  <2>1. Code(f)[f.pc].op = Code(Fetched(Top))[Fetched(Top).pc].op
    OBVIOUS
  <2> QED
    BY DEF ReturnValue
<1>15. Len(frames) > 1 /\ Loose(x) /\ ~ReturnsInline => Caller.output
  BY <1>1, <1>14 DEF LosesResult, ReturnsInline
<1> HIDE DEF v, code, shape, ops, j
<1>16. out \in BOOLEAN /\ d \in BOOLEAN
  BY OutputType
<1>17. d => out
  BY <1>5, <1>13
<1>18. f.inherited => d
  BY DEF Depends, Controlled
<1> HIDE DEF d, out, f
<1>19. x \in Values /\ x.tainted = v.tainted /\ x.secret = d
  BY <1>13, <1>16 DEF Value, Values
<1> HIDE DEF x
<1>20. Delivers(x, out)
  BY <1>4, <1>15, <1>17, <1>18, <1>19 DEF Delivers, Loose
<1> QED
  BY <1>1, <1>2, <1>16, <1>19, <1>20, FrameReturnsKeeps

\* What the end of the code and an exception leave as the result.
LEMMA RestDelivers ==
    ASSUME Inv, Keeping, frames # <<>>, ~LosesAtEnd,
           IF throwing THEN Code(Top)[Top.pc].catch = 0 ELSE Top.pc \notin DOMAIN Code(Top),
           NEW v, v = Top.rval, NEW out, out = (Top.output \/ Top.rval.tainted)
    PROVE  Delivers(v, out) /\ v \in Values /\ out \in BOOLEAN
<1>1. Len(frames) \in DOMAIN frames /\ frames \in Seq(Frames(DOMAIN program))
  BY DEF Inv, Structure
<1>2. Guarded(program, Top)
  BY <1>1 DEF Keeping, Top
<1>3. v \in Values /\ out \in BOOLEAN
  BY ResultType
<1>4. (Top.inherited => v.secret) /\ (Loose(v) => Top.scopes[1].opened)
  BY <1>2 DEF Guarded
<1>5. ASSUME Len(frames) > 1, Loose(v)
      PROVE  IF ReturnsInline THEN out \/ Marks(Caller.mark, Len(Caller.stack) - 2)
             ELSE Caller.output
  <2>1. Calling \in Calls /\ Calling = CodeOf(program, Caller)[Caller.pc].op
    BY <1>5, CallerFrame
  <2>2. Awaits(program, Caller, Top) /\ (Calling = "eval" => program[Top.name].heavy)
    BY <1>5, CallerKeeps
  <2>3. Inlined(Len(frames)) <=> ~program[Top.name].heavy
    BY DEF Inlined, Script, Top
  <2>4. CASE ReturnsInline
    <3>1. Calling = "call" /\ Inlined(Len(frames))
      BY <2>1, <2>2, <2>3, <2>4 DEF ReturnsInline, Calls
    <3>2. ~Top.output => Marks(Caller.mark, Len(Caller.stack) - 2)
      BY <1>5, <3>1 DEF LosesAtEnd
    <3> QED
      BY <2>4, <3>2
  <2>5. CASE ~ReturnsInline
    <3>1. Calling = "call" => program[Top.name].heavy
      BY <2>3, <2>5 DEF ReturnsInline
    <3>2. Caller.output
      BY <1>4, <1>5, <2>1, <2>2, <3>1 DEF Awaits
    <3> QED
      BY <2>5, <3>2
  <2> QED
    BY <2>4, <2>5
<1> QED
  BY <1>3, <1>4, <1>5 DEF Delivers

\* The end of the code.
LEMMA FallOffKeeps == Inv /\ Inv' /\ Keeping /\ FallOff /\ ~LosesAtEnd => Keeping'
<1> SUFFICES ASSUME Inv, Inv', Keeping, FallOff, ~LosesAtEnd PROVE Keeping'
  OBVIOUS
<1> DEFINE v == Top.rval
           out == Top.output \/ Top.rval.tainted
<1>1. frames # <<>> /\ ~throwing /\ ReturnTo(v, out) /\ Unchanged
  BY DEF FallOff
<1>2. Delivers(v, out) /\ v \in Values /\ out \in BOOLEAN
  BY <1>1, RestDelivers DEF FallOff
<1> HIDE DEF v, out
<1> QED
  BY <1>1, <1>2, FrameReturnsKeeps

\* A frame ends with an exception.
LEMMA UnwindKeeps == Inv /\ Inv' /\ Keeping /\ Unwind /\ ~LosesAtEnd => Keeping'
<1> SUFFICES ASSUME Inv, Inv', Keeping, Unwind, ~LosesAtEnd PROVE Keeping'
  OBVIOUS
<1> DEFINE v == Top.rval
           out == Top.output \/ Top.rval.tainted
           w == Caller
           g == IF Calling \in {"getter", "setter"} THEN w ELSE Returned(v, out)
           code == CodeOf(program, w)
           shape == ShapeOf(program, w)
           k == Len(frames) - 1
<1>1. /\ frames \in Seq(Frames(DOMAIN program)) /\ frames # <<>>
      /\ program' = program /\ exception' = exception /\ ~Loose(exception')
  BY DEF Inv, Structure, Unwind, Keeping
<1>2. /\ Len(frames) \in Nat /\ (Len(frames) = 1 \/ Len(frames) > 1)
      /\ ~(Len(frames) = 1 /\ Len(frames) > 1)
  BY <1>1, OneOrMore
<1>3. /\ throwing' = (Len(frames) > 1)
      /\ frames' = IF Len(frames) = 1 THEN <<>>
                   ELSE Append(SubSeq(frames, 1, Len(frames) - 2), g)
  BY DEF Unwind
<1>4. Delivers(v, out) /\ v \in Values /\ out \in BOOLEAN
  BY <1>1, RestDelivers DEF Unwind
<1> HIDE DEF v, out
<1>5. CASE Len(frames) = 1
  <2>1. frames' = <<>>
    BY <1>3, <1>5
  <2>2. ~throwing'
    <3>1. ~(Len(frames) > 1)
      BY <1>2, <1>5
    <3> QED
      BY <1>3, <3>1, Zenon
  <2> QED
    BY <1>1, <2>1, <2>2, NoFrameKeeps
<1>6. CASE Len(frames) > 1
  <2>1. /\ program \in Programs /\ w \in Frames(DOMAIN program) /\ Rooted(w) /\ Ready(program, w)
        /\ w.pc \in Nat /\ w.pc \in DOMAIN code /\ code[w.pc].op \in Calls
        /\ Balanced(code, shape, w.pc) /\ Calling = code[w.pc].op
    BY <1>6, CallerFrame
  <2>2. Guarded(program, w)
    BY <1>6, CallerKeeps
  <2>3. throwing' = TRUE /\ frames' = Append(SubSeq(frames, 1, Len(frames) - 2), g)
    BY <1>2, <1>3, <1>6
  <2>4. code[w.pc].op # "setsp" /\ 1 \in DOMAIN w.scopes
    BY <2>1 DEF Calls, Frames, Rooted
  <2>5. /\ k \in 1..Len(frames) /\ w = frames[k] /\ k \in Nat /\ k >= 1 /\ Len(frames) = k + 1
        /\ Len(frames) - 2 = k - 1
    BY <1>2, <1>6 DEF Caller
  <2>6. /\ w.stack \in Seq(OnStack) /\ Len(shape[w.pc]) \in Nat /\ Len(w.stack) = Len(shape[w.pc])
    BY <2>1, <2>4, ShapeHere
  <2>7. /\ g \in Frames(DOMAIN program) /\ g.pc = w.pc /\ Continues(code, w, g)
        /\ Recoverable(program, g)
        /\ \A j \in DOMAIN g.stack : Loose(g.stack[j]) => Marks(g.mark, j)
    <3>1. CASE Calling \in {"getter", "setter"}
      <4>1. g = w
        BY <3>1
      <4>2. Continues(code, w, w)
        BY SameContinues
      <4> HIDE DEF g, w
      <4>3. Recoverable(program, w)
        BY <2>1, <4>2, FailsRecoverable
      <4>4. \A j \in DOMAIN w.stack : Loose(w.stack[j]) => Marks(w.mark, j)
        BY <2>2 DEF Guarded
      <4> QED
        BY <2>1, <4>1, <4>2, <4>3, <4>4
    <3>2. CASE Calling \notin {"getter", "setter"}
      <4>1. Calling \in {"call", "eval"}
        BY <2>1, <3>2 DEF Calls
      <4>2. g = Returned(v, out)
        BY <3>2
      <4> HIDE DEF g
      <4>3. PICK n, x : Accepts(w, g, n, x) /\ n = 3
        BY <1>4, <1>6, <4>1, <4>2, ReturnedAccepts
      <4> HIDE DEF w, code, shape
      <4>4. /\ g \in Frames(DOMAIN program) /\ g.pc = w.pc /\ g.stack = Put(w, n, x)
            /\ Continues(code, w, g) /\ x \in Values /\ n \in Nat
            /\ Goes(shape, w.pc, w.pc + JumpLength, n, 1)
            /\ MarkStays(w, g, Len(w.stack) - n)
            /\ Loose(x) => Marks(g.mark, Len(w.stack) - n + 1)
        BY <4>3 DEF Accepts, code, shape
      <4>5. x \in OnStack
        BY <4>4 DEF OnStack
      <4>6. Recoverable(program, g)
        BY <2>1, <4>4, FailsRecoverable DEF code
      <4>7. \A j \in DOMAIN g.stack : Loose(g.stack[j]) => Marks(g.mark, j)
        BY <2>1, <2>2, <2>4, <4>4, <4>5, PutMarked DEF code, shape
      <4> QED
        BY <4>4, <4>6, <4>7
    <3> QED
      BY <3>1, <3>2
  <2> HIDE DEF g, w, k, code, shape
  <2>8. Len(frames') = k /\ frames'[k] = g /\ \A i \in 1..k - 1 : frames'[i] = frames[i]
    BY <1>1, <2>3, <2>5, <2>7, LastTwoReplaced
  <2>9. DOMAIN frames' = 1..k
    <3>1. frames' \in Seq(Frames(DOMAIN program))
      BY <1>1 DEF Inv, Structure
    <3> QED
      BY <2>8, <3>1
  <2>10. Guarded(program, g) /\ g.scopes[1].opened = w.scopes[1].opened
    BY <2>1, <2>2, <2>4, <2>7, GuardedNext DEF code
  <2>11. /\ g.name = w.name /\ g.inherited = w.inherited
         /\ \A s \in Slots : Loose(g.slots[s]) => Loose(w.slots[s])
    BY <2>7 DEF Continues
  <2> QED
    BY <1>1, <2>3, <2>5, <2>7, <2>8, <2>9, <2>10, <2>11, FramesKeep
<1> QED
  BY <1>2, <1>5, <1>6

-----------------------------------------------------------------------------
\* The first state.
LEMMA InitKeeps == Init => Keeping
<1> SUFFICES ASSUME Init PROVE Keeping
  OBVIOUS
<1> DEFINE t == FALSE
           f == NewFrame("main", t, Plain, t)
           name == "main"
<1>1. /\ program \in Programs /\ throwing = FALSE /\ exception = Plain /\ frames = <<f>>
  BY DEF Init
<1>2. name \in DOMAIN program
  BY <1>1, ProgramsAssumption
<1>3. ~Loose(Plain)
  BY DEF Plain, Value, Loose
<1>4. f = NewFrame(name, t, Plain, t) /\ ~t
  OBVIOUS
<1> HIDE DEF f, name, t
<1>5. /\ f.name = name /\ f.pc = 1 /\ f.stack = <<>> /\ f.controls = {}
      /\ f.inherited = t /\ f.rval = Value(FALSE, t)
      /\ f.scopes[1].opened = t /\ f.scopes[1].prev = FALSE
      /\ \A s \in Slots : f.slots[s] = IF s = "arg" THEN Plain ELSE Plain
  <2>1. Fresh(f, name, t, Plain, t)
    BY <1>4, NewFrameFields
  <2> QED
    BY <2>1 DEF Fresh
<1>6. Guarded(program, f) /\ Prepared(program, f)
  BY <1>1, <1>2, <1>3, <1>4, <1>5, NewFrameKeeps
<1>7. Len(frames) = 1 /\ DOMAIN frames = {1} /\ frames[1] = f /\ 1..Len(frames) - 1 = {}
  BY <1>1
<1>8. Top = f
  BY <1>7 DEF Top
<1> QED
  BY <1>1, <1>3, <1>6, <1>7, <1>8 DEF Keeping

\* Nothing changes.
LEMMA StutterKeeps == Keeping /\ UNCHANGED vars => Keeping'
<1> SUFFICES ASSUME Keeping, UNCHANGED vars PROVE Keeping'
  OBVIOUS
<1>1. program' = program /\ frames' = frames /\ throwing' = throwing /\ exception' = exception
  BY DEF vars
<1>2. Top' = Top
  BY <1>1 DEF Top
<1> QED
  BY <1>1, <1>2 DEF Keeping

\* Every instruction, call, return and exception keeps the invariant, unless it is one
\* that loses taint.
LEMMA NextKeeps == Inv /\ Inv' /\ Keeping /\ [Next]_vars /\ ~Loses => Keeping'
<1> SUFFICES ASSUME Inv, Inv', Keeping, [Next]_vars, ~Loses PROVE Keeping'
  OBVIOUS
<1>1. CASE PushConstant
  BY <1>1, PushConstantKeeps
<1>2. CASE GetSlot
  BY <1>2, GetSlotKeeps
<1>3. CASE GetProperty
  BY <1>3, GetPropertyKeeps
<1>4. CASE SetSlot
  BY <1>4, SetSlotKeeps
<1>5. CASE NewEqual
  BY <1>5, NewEqualKeeps
<1>6. CASE Plainly
  BY <1>6, PlainlyKeeps
<1>7. CASE Goto
  BY <1>7, GotoKeeps
<1>8. CASE Branch
  BY <1>8, BranchKeeps
<1>9. CASE GoSub
  BY <1>9, GoSubKeeps
<1>10. CASE RetSub
  BY <1>10, RetSubKeeps
<1>11. CASE SetResult
  BY <1>11, SetResultKeeps
<1>12. CASE SwitchBegins
  BY <1>12, SwitchBeginsKeeps
<1>13. CASE Case
  BY <1>13, CaseKeeps
<1>14. CASE SwitchJumps
  BY <1>14, SwitchJumpsKeeps
<1>15. CASE ToObject
  BY <1>15, ToObjectKeeps
<1>16. CASE ForVar
  BY <1>16, ForVarKeeps
<1>17. CASE EnterWith
  BY <1>17, EnterWithKeeps
<1>18. CASE NewInit
  BY <1>18, NewInitKeeps
<1>19. CASE PushException
  BY <1>19, PushExceptionKeeps
<1>20. CASE InitCatchVar
  BY <1>20, InitCatchVarKeeps
<1>21. CASE Throwing
  BY <1>21, ThrowingKeeps
<1>22. CASE CallInline
  BY <1>22, CallInlineKeeps
<1>23. CASE CallInvoke
  BY <1>23, CallInvokeKeeps
<1>24. CASE EvalCode
  BY <1>24, EvalCodeKeeps DEF Loses
<1>25. CASE CallGetter
  BY <1>25, CallGetterKeeps
<1>26. CASE CallSetter
  BY <1>26, CallSetterKeeps
<1>27. CASE Returning
  BY <1>27, ReturningKeeps DEF Loses
<1>28. CASE FallOff
  BY <1>28, FallOffKeeps DEF Loses
<1>29. CASE Catching
  BY <1>29, CatchingKeeps
<1>30. CASE Unwind
  BY <1>30, UnwindKeeps DEF Loses
<1>31. CASE Done
  BY <1>31, StutterKeeps DEF Done
<1>32. CASE UNCHANGED vars
  BY <1>32, StutterKeeps
<1> QED
  BY <1>1, <1>2, <1>3, <1>4, <1>5, <1>6, <1>7, <1>8, <1>9, <1>10, <1>11, <1>12, <1>13, <1>14,
     <1>15, <1>16, <1>17, <1>18, <1>19, <1>20, <1>21, <1>22, <1>23, <1>24, <1>25, <1>26, <1>27,
     <1>28, <1>29, <1>30, <1>31, <1>32 DEF Next

\* Both invariants hold in every state of every run, the second one until taint is lost.
LEMMA AlwaysKeeping == KSpec => [](Inv /\ KeepingUntilLost)
<1>1. KInit => Inv /\ KeepingUntilLost
  BY InitInv, InitKeeps DEF KInit, KeepingUntilLost
<1>2. KNext => Next /\ Counted
  BY DEF KNext, Next
<1>3. Inv /\ [KNext]_kvars => Inv'
  BY <1>2, NextInv DEF kvars
<1>4. Inv /\ KeepingUntilLost /\ [KNext]_kvars => KeepingUntilLost'
  <2> SUFFICES ASSUME Inv, KeepingUntilLost, [KNext]_kvars PROVE KeepingUntilLost'
    OBVIOUS
  <2>1. Inv'
    BY <1>3
  <2>2. CASE KNext
    <3>1. CASE lost \/ Loses
      BY <1>2, <2>2, <3>1 DEF Counted, KeepingUntilLost
    <3>2. CASE ~lost /\ ~Loses
      BY <1>2, <2>1, <2>2, <3>2, NextKeeps DEF KeepingUntilLost
    <3> QED
      BY <3>1, <3>2
  <2>3. CASE UNCHANGED kvars
    BY <2>3, StutterKeeps DEF kvars, KeepingUntilLost
  <2> QED
    BY <2>2, <2>3
<1> QED
  BY <1>1, <1>3, <1>4, PTL DEF KSpec

-----------------------------------------------------------------------------
\* Also in a frame that waits for js_Invoke, a scope counts as tainted where one up
\* to it was opened tainted.
LEMMA OpenedCounts ==
    ASSUME Inv, Keeping, NEW i \in DOMAIN frames, NEW f, f = frames[i],
           NEW n \in 1..Len(f.scopes), NEW k \in 1..n, f.scopes[k].opened
    PROVE  f.scopes[n].istainted \/ f.scopes[n].prev
<1>1. /\ frames \in Seq(Frames(DOMAIN program)) /\ Len(frames) \in Nat
      /\ DOMAIN frames = 1..Len(frames)
  BY DEF Inv, Structure
<1>2. f \in Frames(DOMAIN program)
  BY <1>1
<1>3. /\ f.scopes \in Seq(Scopes) /\ DOMAIN f.scopes = 1..Len(f.scopes) /\ Len(f.scopes) \in Nat
      /\ k \in 1..Len(f.scopes) /\ (n = Len(f.scopes) \/ n \in 1..Len(f.scopes) - 1)
  BY <1>2 DEF Frames
<1>4. FlagAt(f.scopes, n) => f.scopes[n].istainted \/ f.scopes[n].prev
  BY DEF FlagAt
<1>5. CASE ~(i < Len(frames) /\ Lends(program, frames[i], frames[i + 1]))
  BY <1>3, <1>4, <1>5 DEF Inv, Flags, Flagged
<1>6. CASE i < Len(frames) /\ Lends(program, frames[i], frames[i + 1])
  <2>1. FlaggedLent(f)
    BY <1>6 DEF Inv, Flags
  <2>2. CASE n # Len(f.scopes)
    BY <1>3, <1>4, <2>1, <2>2 DEF FlaggedLent
  <2>3. CASE n = Len(f.scopes)
    <3>1. i \in 1..Len(frames) - 1
      BY <1>1, <1>6
    <3>2. Awaits(program, f, frames[i + 1])
      BY <3>1 DEF Keeping
    <3>3. \E j \in DOMAIN f.scopes : f.scopes[j].opened
      BY <1>3
    <3>4. ScopeTainted(f)
      BY <1>6, <3>2, <3>3 DEF Awaits
    <3> QED
      BY <2>3, <3>4 DEF ScopeTainted, Scope
  <2> QED
    BY <2>2, <2>3
<1> QED
  BY <1>5, <1>6

LEMMA KeepingControls == Inv /\ Keeping => ControlIsTainted
<1> SUFFICES ASSUME Inv, Keeping, NEW i \in DOMAIN frames, NEW f, f = frames[i],
                    NEW g, g = Fetched(f), Controlled(g)
             PROVE  ScopeTainted(g)
  BY DEF ControlIsTainted
<1>1. f \in Frames(DOMAIN program) /\ Rooted(f)
  BY DEF Inv, Structure
<1>2. Guarded(program, f)
  BY DEF Keeping
<1>3. /\ f.scopes \in Seq(Scopes) /\ DOMAIN f.scopes = 1..Len(f.scopes) /\ Len(f.scopes) \in Nat
      /\ 1 \in DOMAIN f.scopes /\ f.pc \in Nat /\ f.controls \in SUBSET (Int \X Int)
  BY <1>1 DEF Frames, Rooted
<1>4. PICK kept \in 1..Len(f.scopes) :
         /\ g.scopes = SubSeq(f.scopes, 1, kept)
         /\ \A k \in DOMAIN f.scopes : Within(f.pc, f.scopes[k]) => k <= kept
  BY <1>1, FetchedScopes
<1>5. g.controls = {c \in f.controls : Inside(f.pc, c)}
  BY <1>1, FetchedScopes
<1>6. g.inherited = f.inherited
  BY <1>1 DEF Fetched, Frames
<1>7. \E k \in 1..kept : f.scopes[k].opened
  <2>1. CASE f.inherited
    BY <1>2, <1>3, <2>1 DEF Guarded
  <2>2. CASE ~f.inherited
    <3>1. PICK c \in f.controls : Inside(f.pc, c)
      BY <1>5, <1>6, <2>2 DEF Controlled
    <3>2. PICK k \in DOMAIN f.scopes :
              f.scopes[k].opened /\ f.scopes[k].from <= c[1] /\ c[2] <= f.scopes[k].to
      BY <1>2 DEF Guarded, Enclosed
    <3>3. /\ c[1] \in Int /\ c[2] \in Int /\ f.scopes[k].from \in Int /\ f.scopes[k].to \in Int
      <4>1. c \in Int \X Int /\ f.scopes[k] \in Scopes
        BY <1>3
      <4>2. c[1] \in Int /\ c[2] \in Int
        BY <4>1
      <4> DEFINE scope == f.scopes[k]
      <4>3. scope \in Scopes
        BY <4>1
      <4> HIDE DEF scope
      <4>4. scope.from \in Int /\ scope.to \in Int
        BY <4>3 DEF Scopes
      <4> QED
        BY <4>2, <4>4 DEF scope
    <3>4. Within(f.pc, f.scopes[k])
      BY <1>3, <3>1, <3>2, <3>3 DEF Within, Inside
    <3>5. k \in 1..kept
      BY <1>3, <1>4, <3>4
    <3> QED
      BY <3>2, <3>5
  <2> QED
    BY <2>1, <2>2
<1>8. f.scopes[kept].istainted \/ f.scopes[kept].prev
  BY <1>7, OpenedCounts
<1>9. Len(g.scopes) = kept /\ g.scopes[kept] = f.scopes[kept]
  BY <1>3, <1>4
<1> QED
  BY <1>8, <1>9 DEF ScopeTainted, Scope

LEMMA KeepingValues == Inv /\ Keeping => TaintIsKept
<1> SUFFICES ASSUME Inv, Keeping PROVE TaintIsKept
  OBVIOUS
<1>1. \A i \in DOMAIN frames : Guarded(program, frames[i])
  BY DEF Keeping
<1>2. OperandsKeepTaint
  BY <1>1 DEF OperandsKeepTaint, Guarded, Loose, Marks
<1>3. SlotsKeepTaint
  <2> SUFFICES ASSUME NEW i \in DOMAIN frames, NEW s \in Slots, Loose(frames[i].slots[s])
               PROVE  frames[i].scopes[1].istainted
    BY DEF SlotsKeepTaint, Loose
  <2> DEFINE f == frames[i]
  <2>1. f \in Frames(DOMAIN program) /\ Rooted(f)
    BY DEF Inv, Structure
  <2>2. 1 \in 1..Len(f.scopes) /\ 1 \in 1..1
    BY <2>1 DEF Frames, Rooted
  <2>3. ~f.scopes[1].prev /\ f.scopes[1].opened
    BY <1>1 DEF Guarded
  <2>4. f = frames[i]
    OBVIOUS
  <2> HIDE DEF f
  <2>5. f.scopes[1].istainted \/ f.scopes[1].prev
    BY <2>2, <2>3, <2>4, OpenedCounts
  <2> QED
    BY <2>3, <2>4, <2>5
<1>4. ExceptionKeepsTaint
  BY DEF Keeping, ExceptionKeepsTaint, Loose
<1> QED
  BY <1>2, <1>3, <1>4 DEF TaintIsKept

\* In every run of every program, until a step of Loses: whatever runs because of a
\* condition on something secret, in the frame of the condition or in a call from its
\* body, finds a tainted scope after the fetch of js_Interpret, over break, continue,
\* exceptions and finally blocks, and while js_Invoke holds the flag.
THEOREM ControlTainted == KSpec => []ControlStaysTainted
<1>1. Inv /\ KeepingUntilLost => ControlStaysTainted
  BY KeepingControls DEF KeepingUntilLost, ControlStaysTainted
<1> QED
  BY <1>1, AlwaysKeeping, PTL

\* In every run of every program, until a step of Loses: an operand, a variable or an
\* exception that depends on something secret is tainted itself, by the mark of the
\* operand stack or by the call it belongs to, also after it went through calls and
\* their results.
THEOREM TaintKept == KSpec => []ValuesStayTainted
<1>1. Inv /\ KeepingUntilLost => ValuesStayTainted
  BY KeepingValues DEF KeepingUntilLost, ValuesStayTainted
<1> QED
  BY <1>1, AlwaysKeeping, PTL
=============================================================================
