------------------------ MODULE XSSTaintScopesProofs ------------------------
(***************************************************************************)
(* Theorems about XSSTaintScopes for all programs whose code is balanced,  *)
(* any number of frames and scopes: type correctness, the flags of scopes  *)
(* are restored, plain runs stay plain.                                    *)
(***************************************************************************)
EXTENDS XSSTaintScopesInv, FiniteSetTheorems, TLAPS

-----------------------------------------------------------------------------
\* Max is the greatest element of a set of positions.
LEMMA Greatest ==
    ASSUME NEW n \in Nat, NEW S \in SUBSET (1..n), S # {}
    PROVE  Max(S) \in S /\ \A y \in S : Max(S) >= y
<1> DEFINE Above(x) == {y \in S : y > x}
           T == {Above(x) : x \in S}
<1>1. IsFiniteSet(S)
  <2>1. IsFiniteSet(1..n)
    BY FS_Interval
  <2> QED
    BY <2>1, FS_Subset
<1>2. T # {} /\ T \subseteq FiniteSubsetsOf(S)
  <2>1. T # {} /\ T \subseteq SUBSET S
    OBVIOUS
  <2> QED
    BY <1>1, <2>1, FS_FiniteSubsetsOfFinite
<1>3. \E m \in T : \A y \in T : ~(<<y, m>> \in StrictSubsetOrdering(S))
  <2> HIDE DEF T
  <2>1. IsWellFoundedOn(StrictSubsetOrdering(S), FiniteSubsetsOf(S))
    BY FS_StrictSubsetOrderingWellFounded
  <2> QED
    BY <1>2, <2>1, WFMin
<1>4. PICK x \in S : \A y \in S : ~(<<Above(y), Above(x)>> \in StrictSubsetOrdering(S))
  BY <1>3
<1>5. \A y \in S : x >= y
  <2> SUFFICES ASSUME NEW y \in S, y > x PROVE FALSE
    OBVIOUS
  <2>1. Above(y) \subseteq Above(x) /\ y \in Above(x) /\ y \notin Above(y)
    <3>1. \A z \in S : z \in Int
      OBVIOUS
    <3>2. \A z \in S : z > y => z > x
      BY <3>1
    <3>3. ~(y > y)
      BY <3>1
    <3> QED
      BY <3>2, <3>3
  <2>2. <<Above(y), Above(x)>> \in StrictSubsetOrdering(S)
    <3>1. Above(y) \in SUBSET S /\ Above(x) \in SUBSET S /\ Above(y) # Above(x)
      BY <2>1
    <3> HIDE DEF Above
    <3> QED
      BY <2>1, <3>1 DEF StrictSubsetOrdering
  <2> QED
    BY <1>4, <2>2
<1> QED
  BY <1>5 DEF Max

\* The bounds of a scope are ordered.
LEMMA Ordered ==
    ASSUME NEW a \in Int, NEW b \in Int
    PROVE  /\ Min({a, b}) \in {a, b} /\ Max({a, b}) \in {a, b}
           /\ Min({a, b}) <= Max({a, b})
<1>1. \E x \in {a, b} : \A y \in {a, b} : x <= y
  OBVIOUS
<1>2. \E x \in {a, b} : \A y \in {a, b} : x >= y
  OBVIOUS
<1> QED
  BY <1>1, <1>2 DEF Min, Max

-----------------------------------------------------------------------------
\* What ShapeAssumption says about the code of a frame.
LEMMA CodeIsBalanced ==
    ASSUME NEW p \in Programs, NEW f, f.name \in DOMAIN p
    PROVE  WellFormed(p, CodeOf(p, f), ShapeOf(p, f))
BY ShapeAssumption DEF CodeOf, ShapeOf

\* The operands that an instruction pops are there.
LEMMA OperandsAreThere ==
    ASSUME NEW code, NEW shape \in Seq(SUBSET DOMAIN code), NEW stack \in Seq(OnStack),
           Fits(code, stack, shape), NEW n \in Nat, n <= Len(shape)
    PROVE  /\ SubSeq(stack, 1, Len(stack) - n) \in Seq(OnStack)
           /\ Len(SubSeq(stack, 1, Len(stack) - n)) = Len(stack) - n
           /\ \A j \in 1..Len(stack) - n : SubSeq(stack, 1, Len(stack) - n)[j] = stack[j]
           /\ \A k \in 1..n : Len(stack) + 1 - k \in 1..Len(stack)
BY DEF Fits

\* A stack whose operands are the lower ones of another fits what those fit.
LEMMA PoppedFits ==
    ASSUME NEW code, NEW stack, NEW here, NEW next, NEW rest,
           Fits(code, stack, here), Len(here) \in Nat, Len(next) \in Nat,
           Len(rest) = Len(next), Len(next) <= Len(here),
           \A j \in 1..Len(next) : rest[j] = stack[j] /\ here[j] \subseteq next[j]
    PROVE  Fits(code, rest, next)
<1>1. \A j \in 1..Len(next) : PushedBy(code, stack[j], here[j])
  BY DEF Fits
<1>2. \A j \in 1..Len(next) : PushedBy(code, rest[j], next[j])
  BY <1>1 DEF PushedBy
<1> QED
  BY <1>2 DEF Fits

\* The same with one operand on top of the m lower ones.
LEMMA PushedFits ==
    ASSUME NEW code, NEW stack, NEW m, NEW here, NEW next, NEW top,
           Fits(code, stack, here), Len(here) \in Nat, Len(next) = m + 1,
           m \in Nat, m <= Len(here), Len(top) = m + 1,
           \A j \in 1..m : top[j] = stack[j] /\ here[j] \subseteq next[j],
           PushedBy(code, top[m + 1], next[m + 1])
    PROVE  Fits(code, top, next)
<1>1. \A j \in 1..m : PushedBy(code, stack[j], here[j])
  BY DEF Fits
<1>2. \A j \in 1..m : PushedBy(code, top[j], next[j])
  BY <1>1 DEF PushedBy
<1>3. \A j \in 1..m + 1 : j \in 1..m \/ j = m + 1
  OBVIOUS
<1> QED
  BY <1>2, <1>3 DEF Fits

-----------------------------------------------------------------------------
\* What a frame keeps over every instruction it runs; s says whether the document
\* is tainted.
Sound(p, s, f) ==
    /\ f \in Frames(DOMAIN p) /\ Rooted(f) /\ Flagged(f)
    /\ ~s => Untainted(f)

\* Calculated taint is a truth value.
LEMMA OutputType ==
    ASSUME NEW f, NEW used
    PROVE  Output(f, used) \in BOOLEAN /\ ScopeTainted(f) \in BOOLEAN
           /\ Depends(f, used) \in BOOLEAN /\ Controlled(f) \in BOOLEAN
BY DEF Output, ScopeTainted, Depends, Controlled

LEMMA ValueType ==
    ASSUME NEW t \in BOOLEAN, NEW d \in BOOLEAN
    PROVE  Value(t, d) \in Values /\ Value(t, d) \in OnStack
BY DEF Value, Values, OnStack

LEMMA OnStackType ==
    ASSUME NEW v \in OnStack
    PROVE  v.tainted \in BOOLEAN /\ v.secret \in BOOLEAN
BY DEF Values, OnStack

\* The fetch removes scopes from the end only, and the mark.
LEMMA FetchedFrame ==
    ASSUME NEW names, NEW f \in Frames(names), Rooted(f)
    PROVE  /\ Fetched(f) \in Frames(names)
           /\ Fetched(f).name = f.name /\ Fetched(f).pc = f.pc
           /\ Fetched(f).stack = f.stack /\ Fetched(f).slots = f.slots
           /\ Fetched(f).rval = f.rval /\ Fetched(f).output = f.output
           /\ Fetched(f).saved = f.saved /\ Fetched(f).inherited = f.inherited
           /\ Fetched(f).mark = IF Len(f.stack) < f.mark THEN NoMark ELSE f.mark
           /\ \E kept \in 1..Len(f.scopes) : Fetched(f).scopes = SubSeq(f.scopes, 1, kept)
<1> DEFINE S == {1} \cup {i \in DOMAIN f.scopes : Within(f.pc, f.scopes[i])}
           kept == Max(S)
<1>1. f.scopes \in Seq(Scopes) /\ Len(f.scopes) \in Nat /\ Len(f.scopes) >= 1
  BY DEF Frames, Rooted
<1>2. S \in SUBSET (1..Len(f.scopes)) /\ S # {}
  BY <1>1
<1>3. kept \in 1..Len(f.scopes)
  BY <1>1, <1>2, Greatest
<1> HIDE DEF kept
<1>4. SubSeq(f.scopes, 1, kept) \in Seq(Scopes)
  BY <1>1, <1>3
<1>5. Fetched(f) = [f EXCEPT !.scopes = SubSeq(f.scopes, 1, kept),
                             !.mark = IF Len(f.stack) < f.mark THEN NoMark ELSE f.mark,
                             !.controls = {c \in f.controls : c[1] <= f.pc /\ f.pc < c[2]}]
  BY DEF Fetched, kept
<1> DEFINE some  == SubSeq(f.scopes, 1, kept)
           mark  == IF Len(f.stack) < f.mark THEN NoMark ELSE f.mark
           live  == {c \in f.controls : c[1] <= f.pc /\ f.pc < c[2]}
<1>6. mark \in Nat /\ live \in SUBSET (Int \X Int) /\ some \in Seq(Scopes)
  BY <1>4 DEF Frames, NoMark
<1>7. Fetched(f) = [f EXCEPT !.scopes = some, !.mark = mark, !.controls = live]
  BY <1>5
<1> HIDE DEF some, mark, live
<1>8. /\ Fetched(f) \in Frames(names)
      /\ Fetched(f).name = f.name /\ Fetched(f).pc = f.pc
      /\ Fetched(f).stack = f.stack /\ Fetched(f).slots = f.slots
      /\ Fetched(f).rval = f.rval /\ Fetched(f).output = f.output
      /\ Fetched(f).saved = f.saved /\ Fetched(f).inherited = f.inherited
      /\ Fetched(f).mark = mark /\ Fetched(f).scopes = some
  BY <1>6, <1>7 DEF Frames
<1> QED
  BY <1>3, <1>8 DEF some, mark

\* Any part of the scopes from the first one on has the flags of the whole.
LEMMA FirstScopes ==
    ASSUME NEW scopes \in Seq(Scopes), NEW kept \in 1..Len(scopes)
    PROVE  LET some == SubSeq(scopes, 1, kept)
           IN  /\ some # <<>> /\ Len(some) = kept /\ some[1] = scopes[1]
               /\ \A k \in DOMAIN some : some[k] = scopes[k] /\ k \in DOMAIN scopes
               /\ \A k \in DOMAIN some : FlagAt(scopes, k) => FlagAt(some, k)
<1> DEFINE some == SubSeq(scopes, 1, kept)
<1>1. Len(some) = kept /\ \A k \in 1..kept : some[k] = scopes[k] /\ k \in DOMAIN scopes
  OBVIOUS
<1>2. DOMAIN some = 1..kept /\ some # <<>> /\ 1 \in 1..kept
  BY <1>1
<1> HIDE DEF some
<1>3. \A k \in 1..kept : \A j \in 1..k : some[j] = scopes[j]
  BY <1>1
<1>4. \A k \in 1..kept : FlagAt(scopes, k) => FlagAt(some, k)
  BY <1>1, <1>3 DEF FlagAt
<1> QED
  BY <1>1, <1>2, <1>4 DEF some

LEMMA FetchedSound ==
    ASSUME NEW p, NEW s, NEW f, Sound(p, s, f)
    PROVE  Sound(p, s, Fetched(f))
<1> DEFINE g == Fetched(f)
<1>1. f \in Frames(DOMAIN p) /\ Rooted(f) /\ Flagged(f)
  BY DEF Sound
<1>2. /\ g \in Frames(DOMAIN p) /\ g.stack = f.stack /\ g.slots = f.slots /\ g.rval = f.rval
      /\ g.output = f.output /\ g.saved = f.saved
      /\ g.mark = IF Len(f.stack) < f.mark THEN NoMark ELSE f.mark
  BY <1>1, FetchedFrame
<1>3. PICK kept \in 1..Len(f.scopes) : g.scopes = SubSeq(f.scopes, 1, kept)
  BY <1>1, FetchedFrame
<1> HIDE DEF g
<1>4. f.scopes \in Seq(Scopes)
  BY <1>1 DEF Frames
<1>5. /\ g.scopes # <<>> /\ g.scopes[1] = f.scopes[1]
      /\ \A k \in DOMAIN g.scopes : g.scopes[k] = f.scopes[k] /\ k \in DOMAIN f.scopes
      /\ \A k \in DOMAIN g.scopes : FlagAt(f.scopes, k) => FlagAt(g.scopes, k)
  <2> DEFINE some == SubSeq(f.scopes, 1, kept)
  <2>1. /\ some # <<>> /\ some[1] = f.scopes[1]
        /\ \A k \in DOMAIN some : some[k] = f.scopes[k] /\ k \in DOMAIN f.scopes
        /\ \A k \in DOMAIN some : FlagAt(f.scopes, k) => FlagAt(some, k)
    BY <1>4, FirstScopes
  <2> HIDE DEF some
  <2> QED
    BY <1>3, <2>1 DEF some
<1>6. Rooted(g) /\ Flagged(g)
  BY <1>1, <1>5 DEF Rooted, Flagged
<1>7. Untainted(f) => Untainted(g)
  BY <1>2, <1>5 DEF Untainted, NoMark
<1> QED
  BY <1>2, <1>6, <1>7 DEF Sound, g

-----------------------------------------------------------------------------
\* Rests of stacks and scopes that grow at the end.
LEMMA DropNone ==
    ASSUME NEW names, NEW f \in Frames(names)
    PROVE  Drop(f, 0) = f.stack
<1>1. f.stack \in Seq(OnStack)
  BY DEF Frames
<1> QED
  BY <1>1 DEF Drop

\* What is left when n operands are popped.
Dropped(f, n) ==
    /\ Drop(f, n) \in Seq(OnStack) /\ Len(Drop(f, n)) = Len(f.stack) - n
    /\ \A j \in 1..Len(f.stack) - n : Drop(f, n)[j] = f.stack[j]
    /\ Len(f.stack) - n \in Nat

LEMMA DropType ==
    ASSUME NEW p \in Programs, NEW s, NEW f, Sound(p, s, f), Ready(p, f),
           NEW n \in Nat, n <= Len(ShapeOf(p, f)[f.pc])
    PROVE  /\ Dropped(f, n) /\ f.stack \in Seq(OnStack)
           /\ \A k \in 1..n : Len(f.stack) + 1 - k \in 1..Len(f.stack)
<1> DEFINE code == CodeOf(p, f)
           shape == ShapeOf(p, f)[f.pc]
<1>1. f.stack \in Seq(OnStack) /\ f.name \in DOMAIN p
  BY DEF Sound, Frames
<1>2. f.pc \in DOMAIN ShapeOf(p, f) /\ Fits(code, f.stack, shape)
  BY DEF Ready
<1>3. shape \in Seq(SUBSET DOMAIN code)
  BY <1>1, <1>2, CodeIsBalanced DEF WellFormed
<1> HIDE DEF code, shape
<1>4. /\ Drop(f, n) \in Seq(OnStack) /\ Len(Drop(f, n)) = Len(f.stack) - n
      /\ \A j \in 1..Len(f.stack) - n : Drop(f, n)[j] = f.stack[j]
      /\ \A k \in 1..n : Len(f.stack) + 1 - k \in 1..Len(f.stack)
  BY <1>1, <1>2, <1>3, OperandsAreThere DEF Drop, shape
<1>5. Len(f.stack) - n \in Nat
  BY <1>1, <1>2, <1>3 DEF Fits, shape
<1> QED
  BY <1>1, <1>4, <1>5 DEF Dropped

\* What an instruction finds on the stack, and what it leaves there.
LEMMA OperandType ==
    ASSUME NEW p \in Programs, NEW s, NEW f, Sound(p, s, f), Ready(p, f),
           NEW n \in Nat, n <= Len(ShapeOf(p, f)[f.pc])
    PROVE  /\ Drop(f, n) \in Seq(OnStack) /\ Len(Drop(f, n)) = Len(f.stack) - n
           /\ \A j \in 1..Len(f.stack) - n : Drop(f, n)[j] = f.stack[j]
           /\ Len(f.stack) - n \in Nat
           /\ \A k \in 1..n : /\ Operand(f, k) \in OnStack
                              /\ Operand(f, k).tainted \in BOOLEAN
                              /\ Operand(f, k).secret \in BOOLEAN
                              /\ ~s => ~Operand(f, k).tainted
<1>1. /\ Dropped(f, n) /\ f.stack \in Seq(OnStack)
      /\ \A k \in 1..n : Len(f.stack) + 1 - k \in 1..Len(f.stack)
  BY DropType
<1>2. \A k \in 1..n : Operand(f, k) \in OnStack
  BY <1>1 DEF Operand
<1>3. \A k \in 1..n : ~s => ~Operand(f, k).tainted
  BY <1>1 DEF Operand, Sound, Untainted
<1> QED
  BY <1>1, <1>2, <1>3, OnStackType DEF Dropped

\* A value on top of what is left.
Put(f, n, v) == Append(Drop(f, n), v)

LEMMA PutType ==
    ASSUME NEW p \in Programs, NEW s, NEW f, Sound(p, s, f), Ready(p, f),
           NEW n \in Nat, n <= Len(ShapeOf(p, f)[f.pc]), NEW v \in OnStack
    PROVE  /\ Put(f, n, v) \in Seq(OnStack) /\ Len(Put(f, n, v)) = Len(f.stack) - n + 1
           /\ \A j \in 1..Len(f.stack) - n : Put(f, n, v)[j] = f.stack[j]
           /\ Put(f, n, v)[Len(f.stack) - n + 1] = v
<1>1. /\ Drop(f, n) \in Seq(OnStack) /\ Len(Drop(f, n)) = Len(f.stack) - n
      /\ \A j \in 1..Len(f.stack) - n : Drop(f, n)[j] = f.stack[j]
      /\ Len(f.stack) - n \in Nat
  <2>1. Dropped(f, n)
    BY DropType
  <2> QED
    BY <2>1 DEF Dropped
<1> DEFINE d == Drop(f, n)
           m == Len(f.stack) - n
<1>2. /\ d \in Seq(OnStack) /\ Len(d) = m /\ \A j \in 1..m : d[j] = f.stack[j] /\ m \in Nat
      /\ Put(f, n, v) = Append(d, v)
  BY <1>1 DEF Put
<1> HIDE DEF d, m
<1>3. /\ Append(d, v) \in Seq(OnStack) /\ Len(Append(d, v)) = m + 1
      /\ \A j \in 1..m : Append(d, v)[j] = f.stack[j]
      /\ Append(d, v)[m + 1] = v
  BY <1>2
<1> QED
  BY <1>2, <1>3 DEF m

\* The step to an instruction that finds its operands, without and with a new one.
LEMMA ReadyAfterPop ==
    ASSUME NEW p \in Programs, NEW s, NEW f, Sound(p, s, f), Ready(p, f),
           f.pc \in DOMAIN CodeOf(p, f), CodeOf(p, f)[f.pc].op # "setsp",
           NEW n \in Nat, NEW to, Goes(ShapeOf(p, f), f.pc, to, n, 0),
           NEW g, g.name = f.name, g.pc = to, g.stack = Drop(f, n)
    PROVE  Ready(p, g) /\ to \in Nat /\ n <= Len(ShapeOf(p, f)[f.pc])
<1> DEFINE code == CodeOf(p, f)
           shape == ShapeOf(p, f)
<1>1. /\ f.pc \in DOMAIN shape /\ Fits(code, f.stack, shape[f.pc])
      /\ Len(f.stack) = Len(shape[f.pc])
  BY DEF Ready
<1>2. WellFormed(p, code, shape)
  BY CodeIsBalanced DEF Sound, Frames
<1>3. Goes(shape, f.pc, to, n, 0)
  OBVIOUS
<1>4. CodeOf(p, g) = code /\ ShapeOf(p, g) = shape
  BY DEF CodeOf, ShapeOf
<1>5. /\ \A q \in DOMAIN shape : shape[q] \in Seq(SUBSET DOMAIN code)
      /\ DOMAIN shape \subseteq 1..Len(code) + 1 /\ Len(code) \in Nat
  BY <1>2 DEF WellFormed
<1>6. /\ to \in DOMAIN shape
      /\ Len(shape[f.pc]) \in Nat /\ Len(shape[to]) \in Nat
      /\ n <= Len(shape[f.pc]) /\ Len(shape[to]) = Len(shape[f.pc]) - n
      /\ \A j \in 1..Len(shape[to]) : shape[f.pc][j] \subseteq shape[to][j]
  BY <1>1, <1>3, <1>5 DEF Goes
<1>7. /\ Len(Drop(f, n)) = Len(f.stack) - n
      /\ \A j \in 1..Len(f.stack) - n : Drop(f, n)[j] = f.stack[j]
  BY <1>6, OperandType DEF shape
<1> HIDE DEF code, shape
<1>8. Fits(code, Drop(f, n), shape[to]) /\ Len(Drop(f, n)) = Len(shape[to])
  BY <1>1, <1>6, <1>7, PoppedFits
<1> QED
  BY <1>4, <1>5, <1>6, <1>8 DEF Ready, shape

LEMMA ReadyAfterPush ==
    ASSUME NEW p \in Programs, NEW s, NEW f, Sound(p, s, f), Ready(p, f),
           f.pc \in DOMAIN CodeOf(p, f), CodeOf(p, f)[f.pc].op # "setsp",
           NEW n \in Nat, NEW to, Goes(ShapeOf(p, f), f.pc, to, n, 1),
           NEW v \in OnStack, PushedBy(CodeOf(p, f), v, {f.pc}),
           NEW g, g.name = f.name, g.pc = to, g.stack = Put(f, n, v)
    PROVE  Ready(p, g) /\ to \in Nat /\ n <= Len(ShapeOf(p, f)[f.pc])
<1> DEFINE code == CodeOf(p, f)
           shape == ShapeOf(p, f)
           m == Len(shape[f.pc]) - n
<1>1. /\ f.pc \in DOMAIN shape /\ Fits(code, f.stack, shape[f.pc])
      /\ Len(f.stack) = Len(shape[f.pc])
  BY DEF Ready
<1>2. WellFormed(p, code, shape)
  BY CodeIsBalanced DEF Sound, Frames
<1>3. Goes(shape, f.pc, to, n, 1) /\ PushedBy(code, v, {f.pc})
  OBVIOUS
<1>4. CodeOf(p, g) = code /\ ShapeOf(p, g) = shape
  BY DEF CodeOf, ShapeOf
<1>5. /\ \A q \in DOMAIN shape : shape[q] \in Seq(SUBSET DOMAIN code)
      /\ DOMAIN shape \subseteq 1..Len(code) + 1 /\ Len(code) \in Nat
  BY <1>2 DEF WellFormed
<1>6. /\ to \in DOMAIN shape
      /\ Len(shape[f.pc]) \in Nat /\ m \in Nat /\ m <= Len(shape[f.pc])
      /\ n <= Len(shape[f.pc]) /\ Len(shape[to]) = m + 1
      /\ \A j \in 1..m : shape[f.pc][j] \subseteq shape[to][j]
      /\ f.pc \in shape[to][m + 1]
  <2>1. Len(shape[f.pc]) \in Nat
    BY <1>1, <1>5
  <2> QED
    BY <1>3, <2>1 DEF Goes
<1>7. /\ Len(Put(f, n, v)) = m + 1
      /\ \A j \in 1..m : Put(f, n, v)[j] = f.stack[j]
      /\ Put(f, n, v)[m + 1] = v
  <2>1. /\ Len(Put(f, n, v)) = Len(f.stack) - n + 1
        /\ \A j \in 1..Len(f.stack) - n : Put(f, n, v)[j] = f.stack[j]
        /\ Put(f, n, v)[Len(f.stack) - n + 1] = v
    BY <1>6, PutType DEF shape
  <2> QED
    BY <1>1, <2>1
<1> HIDE DEF code, shape, m
<1>8. PushedBy(code, v, shape[to][m + 1])
  BY <1>3, <1>6 DEF PushedBy
<1>9. Fits(code, Put(f, n, v), shape[to]) /\ Len(Put(f, n, v)) = Len(shape[to])
  BY <1>1, <1>6, <1>7, <1>8, PushedFits
<1> QED
  BY <1>4, <1>5, <1>6, <1>9 DEF Ready, shape

\* No untainted frame calculates taint from untainted operands.
LEMMA OutputPlain ==
    ASSUME NEW f, f.scopes \in Seq(Scopes), Rooted(f), Untainted(f),
           NEW used, \A v \in used : ~v.tainted
    PROVE  Output(f, used) = FALSE /\ ScopeTainted(f) = FALSE
<1>1. Len(f.scopes) \in DOMAIN f.scopes
  BY DEF Rooted
<1>2. ScopeTainted(f) = FALSE
  BY <1>1 DEF Untainted, ScopeTainted, Scope
<1> QED
  BY <1>2 DEF Output, StackTainted, Untainted
-----------------------------------------------------------------------------
Inv == Structure /\ Flags /\ Plainness

\* The frame that executes an instruction, after the fetch.
LEMMA RunningFrame ==
    ASSUME NEW ops, Inv, Executing(ops), NEW f, f = Fetched(Top)
    PROVE  /\ program \in Programs /\ source \in BOOLEAN
           /\ Sound(program, source, f) /\ Ready(program, f)
           /\ f.name = Top.name /\ f.pc = Top.pc /\ f.name \in DOMAIN program
           /\ f.pc \in Nat /\ f.mark \in Nat
           /\ Code(f) = CodeOf(program, f)
           /\ f.pc \in DOMAIN CodeOf(program, f) /\ f.pc \in DOMAIN ShapeOf(program, f)
           /\ CodeOf(program, f)[f.pc] \in Cells
           /\ CodeOf(program, f)[f.pc].op \in ops
           /\ Balanced(CodeOf(program, f), ShapeOf(program, f), f.pc)
           /\ Linked(program, CodeOf(program, f), ShapeOf(program, f), f.pc)
           /\ ShapeOf(program, f)[f.pc] \in Seq(SUBSET DOMAIN CodeOf(program, f))
<1>1. /\ program \in Programs /\ source \in BOOLEAN
      /\ frames \in Seq(Frames(DOMAIN program)) /\ frames # <<>>
      /\ Len(frames) \in DOMAIN frames
      /\ Top \in Frames(DOMAIN program) /\ Rooted(Top) /\ Ready(program, Top)
  BY DEF Inv, Structure, Executing, Top
<1>2. Flagged(Top) /\ (~source => Untainted(Top))
  BY <1>1 DEF Inv, Flags, Plainness, Top
<1>3. Sound(program, source, Top)
  BY <1>1, <1>2 DEF Sound
<1>4. Sound(program, source, f)
  BY <1>3, FetchedSound
<1>5. f.name = Top.name /\ f.pc = Top.pc /\ f.stack = Top.stack
  BY <1>1, FetchedFrame
<1>6. CodeOf(program, f) = CodeOf(program, Top) /\ ShapeOf(program, f) = ShapeOf(program, Top)
      /\ Code(f) = CodeOf(program, f) /\ Code(Top) = CodeOf(program, f)
  BY <1>5 DEF CodeOf, ShapeOf, Code, Script
<1>7. Ready(program, f) /\ f.pc \in DOMAIN ShapeOf(program, f)
  BY <1>1, <1>5, <1>6 DEF Ready
<1>8. f.pc \in DOMAIN CodeOf(program, f) /\ CodeOf(program, f)[f.pc].op \in ops
  BY <1>5, <1>6 DEF Executing
<1>9. f.name \in DOMAIN program /\ f.pc \in Nat /\ f.mark \in Nat
  BY <1>4 DEF Sound, Frames
<1>10. WellFormed(program, CodeOf(program, f), ShapeOf(program, f))
  BY <1>1, <1>9, CodeIsBalanced
<1>11. /\ CodeOf(program, f)[f.pc] \in Cells
       /\ Balanced(CodeOf(program, f), ShapeOf(program, f), f.pc)
       /\ Linked(program, CodeOf(program, f), ShapeOf(program, f), f.pc)
       /\ ShapeOf(program, f)[f.pc] \in Seq(SUBSET DOMAIN CodeOf(program, f))
  BY <1>7, <1>8, <1>10 DEF WellFormed
<1> QED
  BY <1>1, <1>4, <1>5, <1>6, <1>7, <1>8, <1>9, <1>11

\* A sequence with another last element.
LEMMA LastReplaced ==
    ASSUME NEW S, NEW s, s \in Seq(S), s # <<>>, NEW x, x \in S,
           NEW t, t = [s EXCEPT ![Len(s)] = x]
    PROVE  /\ t \in Seq(S) /\ Len(t) = Len(s) /\ t[Len(s)] = x
           /\ \A i \in 1..Len(s) - 1 : t[i] = s[i]
OBVIOUS

\* A step that changes only the running frame, the n-th.
LEMMA TopChanges ==
    ASSUME Inv, NEW n, n = Len(frames), n # 0,
           NEW g, Sound(program, source, g), g.name = Top.name,
           frames' \in Seq(Frames(DOMAIN program)), Len(frames') = n, frames'[n] = g,
           \A i \in 1..n - 1 : frames'[i] = frames[i],
           program' = program, source' = source, throwing' \in BOOLEAN,
           throwing' => Fails(program, g), ~throwing' => Ready(program, g),
           exception' \in Values, ~source => ~exception'.tainted
    PROVE  Inv'
<1>1. /\ program \in Programs /\ source \in BOOLEAN /\ frames \in Seq(Frames(DOMAIN program))
      /\ \A i \in DOMAIN frames : Rooted(frames[i])
      /\ \A i \in 1..n - 1 : Waits(program, frames[i], frames[i + 1])
  BY DEF Inv, Structure
<1>2. n \in Nat /\ n >= 1 /\ DOMAIN frames = 1..n /\ Top = frames[n] /\ DOMAIN frames' = 1..n
  BY <1>1 DEF Top
<1>3. /\ g \in Frames(DOMAIN program) /\ Rooted(g) /\ Flagged(g) /\ (~source => Untainted(g))
  BY DEF Sound
<1>4. \A i \in 1..n : i = n \/ (i \in 1..n - 1 /\ i + 1 \in 1..n)
  BY <1>2
<1>5. \A i \in 1..n : frames'[i].name = frames[i].name
  BY <1>2, <1>4
<1>6. Structure'
  <2>1. \A i \in 1..n : Rooted(frames'[i])
    BY <1>1, <1>2, <1>3, <1>4
  <2>2. ASSUME NEW i \in 1..n - 1 PROVE Waits(program, frames'[i], frames'[i + 1])
    <3>1. frames'[i] = frames[i] /\ frames'[i + 1].name = frames[i + 1].name
      BY <1>2, <1>4, <1>5
    <3> QED
      BY <1>1, <3>1 DEF Waits
  <2>3. frames' # <<>> /\ Top' = g
    BY <1>2 DEF Top
  <2> QED
    BY <1>1, <1>2, <2>1, <2>2, <2>3 DEF Structure
<1>7. Flags'
  <2>1. ASSUME NEW i \in 1..n - 1
        PROVE  IF Lends(program, frames'[i], frames'[i + 1])
               THEN FlaggedLent(frames'[i]) ELSE Flagged(frames'[i])
    <3>1. frames'[i] = frames[i] /\ frames'[i + 1].name = frames[i + 1].name
          /\ i \in DOMAIN frames /\ i < n
      BY <1>2, <1>4, <1>5
    <3>2. IF Lends(program, frames[i], frames[i + 1])
          THEN FlaggedLent(frames[i]) ELSE Flagged(frames[i])
      BY <3>1 DEF Inv, Flags
    <3> QED
      BY <3>1, <3>2 DEF Lends
  <2> QED
    BY <1>2, <1>3, <1>4, <2>1 DEF Flags
<1>8. Plainness'
  BY <1>2, <1>3, <1>4 DEF Inv, Plainness
<1> QED
  BY <1>6, <1>7, <1>8 DEF Inv

\* An instruction that leaves the running frame in front of the next one.
LEMMA InstructionRuns ==
    ASSUME NEW ops, Inv, Executing(ops), NEW g, Sound(program, source, g), Ready(program, g),
           g.name = Top.name, Running(g), Unchanged
    PROVE  Inv'
<1>1. /\ frames \in Seq(Frames(DOMAIN program)) /\ frames # <<>> /\ throwing = FALSE
      /\ exception \in Values /\ (~source => ~exception.tainted)
  BY DEF Inv, Structure, Plainness, Executing
<1>2. g \in Frames(DOMAIN program)
  BY DEF Sound
<1>3. frames' = [frames EXCEPT ![Len(frames)] = g]
  BY DEF Running
<1>4. /\ frames' \in Seq(Frames(DOMAIN program)) /\ Len(frames') = Len(frames)
      /\ frames'[Len(frames)] = g /\ \A i \in 1..Len(frames) - 1 : frames'[i] = frames[i]
  BY <1>1, <1>2, <1>3, LastReplaced
<1>5. Len(frames) # 0
  BY <1>1
<1> QED
  BY <1>1, <1>4, <1>5, TopChanges DEF Unchanged

\* A frame with another stack, mark and program counter but the same scopes.
LEMMA SameScopes ==
    ASSUME NEW p, NEW s, NEW f, Sound(p, s, f), NEW g, g \in Frames(DOMAIN p), g.scopes = f.scopes,
           ~s => /\ g.mark = NoMark /\ ~g.rval.tainted /\ ~g.output /\ ~g.saved
                 /\ \A j \in DOMAIN g.stack : ~g.stack[j].tainted
                 /\ \A x \in Slots : ~g.slots[x].tainted
    PROVE  Sound(p, s, g)
BY DEF Sound, Rooted, Flagged, Untainted

LEMMA PutPlain ==
    ASSUME NEW p \in Programs, NEW s, NEW f, Sound(p, s, f), Ready(p, f),
           NEW n \in Nat, n <= Len(ShapeOf(p, f)[f.pc]), NEW v \in OnStack, ~s, ~v.tainted
    PROVE  \A j \in DOMAIN Put(f, n, v) : ~Put(f, n, v)[j].tainted
<1>1. /\ Put(f, n, v) \in Seq(OnStack) /\ Len(Put(f, n, v)) = Len(f.stack) - n + 1
      /\ \A j \in 1..Len(f.stack) - n : Put(f, n, v)[j] = f.stack[j]
      /\ Put(f, n, v)[Len(f.stack) - n + 1] = v
      /\ Len(f.stack) - n \in Nat
  BY PutType, OperandType
<1>2. Len(f.stack) \in Nat /\ f.stack \in Seq(OnStack) /\ Len(f.stack) - n \in Nat
  BY <1>1 DEF Sound, Frames
<1>3. \A j \in 1..Len(f.stack) : ~f.stack[j].tainted
  BY <1>2 DEF Sound, Untainted
<1>4. DOMAIN Put(f, n, v) = 1..Len(f.stack) - n + 1
  BY <1>1
<1>5. \A j \in 1..Len(f.stack) - n + 1 : j = Len(f.stack) - n + 1 \/ (j \in 1..Len(f.stack) - n /\ j \in 1..Len(f.stack))
  BY <1>2
<1> QED
  BY <1>1, <1>3, <1>4, <1>5

LEMMA DropPlain ==
    ASSUME NEW p \in Programs, NEW s, NEW f, Sound(p, s, f), Ready(p, f),
           NEW n \in Nat, n <= Len(ShapeOf(p, f)[f.pc]), ~s
    PROVE  \A j \in DOMAIN Drop(f, n) : ~Drop(f, n)[j].tainted
<1>1. /\ Drop(f, n) \in Seq(OnStack) /\ Len(Drop(f, n)) = Len(f.stack) - n
      /\ \A j \in 1..Len(f.stack) - n : Drop(f, n)[j] = f.stack[j]
      /\ Len(f.stack) - n \in Nat /\ Len(f.stack) \in Nat /\ f.stack \in Seq(OnStack)
  BY OperandType DEF Sound, Frames
<1>2. \A j \in 1..Len(f.stack) : ~f.stack[j].tainted
  BY <1>1 DEF Sound, Untainted
<1>3. DOMAIN Drop(f, n) = 1..Len(f.stack) - n
  BY <1>1
<1>4. \A j \in 1..Len(f.stack) - n : j \in 1..Len(f.stack)
  BY <1>1
<1> QED
  BY <1>1, <1>2, <1>3, <1>4

\* PUSH_OPND and the way to the next instruction.
PushedNext(f, n, v, out, k) == [Pushed(f, Drop(f, n), v, out) EXCEPT !.pc = @ + k]

LEMMA PushedSound ==
    ASSUME NEW p \in Programs, NEW s, NEW f, Sound(p, s, f), Ready(p, f),
           NEW n, n \in Nat, n <= Len(ShapeOf(p, f)[f.pc]), NEW v, v \in OnStack,
           NEW out, out \in BOOLEAN, ~s => ~out /\ ~v.tainted,
           NEW k, f.pc + k \in Nat
    PROVE  /\ Sound(p, s, PushedNext(f, n, v, out, k))
           /\ PushedNext(f, n, v, out, k).name = f.name
           /\ PushedNext(f, n, v, out, k).pc = f.pc + k
           /\ PushedNext(f, n, v, out, k).stack = Put(f, n, v)
<1> DEFINE g == PushedNext(f, n, v, out, k)
<1> DEFINE m == Mark(f, Len(Drop(f, n)) + 1, out)
           t == Put(f, n, v)
<1>1. f \in Frames(DOMAIN p)
  BY DEF Sound
<1>2. Len(Drop(f, n)) \in Nat /\ t \in Seq(OnStack)
  BY OperandType, PutType
<1>3. m \in Nat /\ (f.mark = NoMark /\ ~out => m = NoMark)
  BY <1>1, <1>2 DEF Mark, Frames, NoMark
<1>4. g = [[f EXCEPT !.stack = t, !.mark = m, !.output = out] EXCEPT !.pc = @ + k]
  BY DEF Pushed, Put, PushedNext
<1>5. ~s => \A j \in DOMAIN t : ~t[j].tainted
  BY PutPlain
<1> HIDE DEF t, m, g
<1>6. /\ g \in Frames(DOMAIN p) /\ g.scopes = f.scopes /\ g.name = f.name /\ g.pc = f.pc + k
      /\ g.stack = t /\ g.mark = m /\ g.output = out /\ g.rval = f.rval /\ g.saved = f.saved
      /\ g.slots = f.slots
  BY <1>1, <1>2, <1>3, <1>4 DEF Frames
<1>7. ~s => Untainted(f)
  BY DEF Sound
<1>8. Sound(p, s, g)
  BY <1>3, <1>5, <1>6, <1>7, SameScopes DEF Untainted
<1> QED
  BY <1>6, <1>8 DEF t, g

LEMMA InstructionPushes ==
    ASSUME NEW ops, Inv, Executing(ops), NEW f, f = Fetched(Top),
           NEW n, n \in Nat, NEW k, k \in Int, NEW v, v \in Values, NEW out, out \in BOOLEAN,
           Goes(ShapeOf(program, f), f.pc, f.pc + k, n, 1),
           CodeOf(program, f)[f.pc].op \notin {"setsp", "gosub"},
           ~source => ~out /\ ~v.tainted,
           Advance(Pushed(f, Drop(f, n), v, out), k), Unchanged
    PROVE  Inv'
<1> DEFINE g == PushedNext(f, n, v, out, k)
<1>1. /\ program \in Programs /\ Sound(program, source, f) /\ Ready(program, f)
      /\ f.name = Top.name /\ f.pc \in DOMAIN CodeOf(program, f)
      /\ f.pc \in DOMAIN ShapeOf(program, f)
  BY RunningFrame
<1>2. v \in OnStack /\ PushedBy(CodeOf(program, f), v, {f.pc})
  BY DEF PushedBy, OnStack
<1>3. n <= Len(ShapeOf(program, f)[f.pc]) /\ f.pc + k \in Nat
  <2>1. ShapeOf(program, f)[f.pc] \in Seq(SUBSET DOMAIN CodeOf(program, f))
    BY RunningFrame
  <2>2. WellFormed(program, CodeOf(program, f), ShapeOf(program, f))
    BY <1>1, CodeIsBalanced DEF Sound, Frames
  <2>3. Len(CodeOf(program, f)) \in Nat /\ DOMAIN ShapeOf(program, f) \subseteq 1..Len(CodeOf(program, f)) + 1
    BY <2>2 DEF WellFormed
  <2> QED
    BY <2>1, <2>3 DEF Goes
<1>4. Sound(program, source, g) /\ g.name = f.name /\ g.pc = f.pc + k /\ g.stack = Put(f, n, v)
  BY <1>1, <1>2, <1>3, PushedSound
<1>5. Running(g)
  BY DEF Advance, PushedNext
<1> HIDE DEF g
<1>6. Ready(program, g)
  BY <1>1, <1>2, <1>4, ReadyAfterPush
<1> QED
  BY <1>1, <1>4, <1>5, <1>6, InstructionRuns

\* Other instructions that end in a frame g in front of the next one.
LEMMA InstructionPops ==
    ASSUME NEW ops, Inv, Executing(ops), NEW f, f = Fetched(Top),
           NEW n, n \in Nat, NEW to, Goes(ShapeOf(program, f), f.pc, to, n, 0),
           CodeOf(program, f)[f.pc].op # "setsp",
           NEW g, Sound(program, source, g), g.name = f.name, g.pc = to, g.stack = Drop(f, n),
           Running(g), Unchanged
    PROVE  Inv'
<1>1. /\ program \in Programs /\ Sound(program, source, f) /\ Ready(program, f)
      /\ f.name = Top.name /\ f.pc \in DOMAIN CodeOf(program, f)
  BY RunningFrame
<1>2. Ready(program, g)
  BY <1>1, ReadyAfterPop
<1> QED
  BY <1>1, <1>2, InstructionRuns

LEMMA InstructionPuts ==
    ASSUME NEW ops, Inv, Executing(ops), NEW f, f = Fetched(Top),
           NEW n, n \in Nat, NEW to, Goes(ShapeOf(program, f), f.pc, to, n, 1),
           CodeOf(program, f)[f.pc].op # "setsp",
           NEW v, v \in OnStack, PushedBy(CodeOf(program, f), v, {f.pc}),
           NEW g, Sound(program, source, g), g.name = f.name, g.pc = to, g.stack = Put(f, n, v),
           Running(g), Unchanged
    PROVE  Inv'
<1>1. /\ program \in Programs /\ Sound(program, source, f) /\ Ready(program, f)
      /\ f.name = Top.name /\ f.pc \in DOMAIN CodeOf(program, f)
  BY RunningFrame
<1>2. Ready(program, g)
  BY <1>1, ReadyAfterPush
<1> QED
  BY <1>1, <1>2, InstructionRuns

\* The operands an instruction is balanced with, and where it goes on.
LEMMA GoesType ==
    ASSUME NEW ops, Inv, Executing(ops), NEW f, f = Fetched(Top),
           NEW n, n \in Nat, NEW m, m \in Nat, NEW to, Goes(ShapeOf(program, f), f.pc, to, n, m)
    PROVE  n <= Len(ShapeOf(program, f)[f.pc]) /\ to \in Nat
<1>1. /\ program \in Programs /\ Sound(program, source, f)
      /\ ShapeOf(program, f)[f.pc] \in Seq(SUBSET DOMAIN CodeOf(program, f))
  BY RunningFrame
<1>2. WellFormed(program, CodeOf(program, f), ShapeOf(program, f))
  BY <1>1, CodeIsBalanced DEF Sound, Frames
<1>3. Len(CodeOf(program, f)) \in Nat /\ DOMAIN ShapeOf(program, f) \subseteq 1..Len(CodeOf(program, f)) + 1
  BY <1>2 DEF WellFormed
<1> QED
  BY <1>1, <1>3 DEF Goes

\* The operands that an instruction uses.
LEMMA Used ==
    ASSUME NEW ops, Inv, Executing(ops), NEW f, f = Fetched(Top),
           NEW n, n \in Nat, n <= Len(ShapeOf(program, f)[f.pc]), NEW k, k \in 1..n
    PROVE  /\ Operand(f, k) \in OnStack
           /\ Operand(f, k).tainted \in BOOLEAN /\ Operand(f, k).secret \in BOOLEAN
           /\ ~source => ~Operand(f, k).tainted
<1>1. program \in Programs /\ Sound(program, source, f) /\ Ready(program, f)
  BY RunningFrame
<1> QED
  BY <1>1, OperandType

\* On a plain document no instruction calculates taint.
LEMMA PlainOutput ==
    ASSUME NEW ops, Inv, Executing(ops), NEW f, f = Fetched(Top), ~source
    PROVE  /\ Output(f, {}) = FALSE /\ ScopeTainted(f) = FALSE
           /\ \A v : v.tainted = FALSE => Output(f, {v}) = FALSE
           /\ \A v, w : v.tainted = FALSE /\ w.tainted = FALSE => Output(f, {v, w}) = FALSE
<1>1. Sound(program, source, f)
  BY RunningFrame
<1>2. f.scopes \in Seq(Scopes) /\ Rooted(f) /\ Untainted(f)
  BY <1>1 DEF Sound, Frames
<1>3. ASSUME NEW used, \A v \in used : ~v.tainted
      PROVE  Output(f, used) = FALSE /\ ScopeTainted(f) = FALSE
  BY <1>2, <1>3, OutputPlain
<1>4. Output(f, {}) = FALSE /\ ScopeTainted(f) = FALSE
  <2> DEFINE used == {}
  <2>1. \A v \in used : ~v.tainted
    OBVIOUS
  <2> HIDE DEF used
  <2>2. Output(f, used) = FALSE /\ ScopeTainted(f) = FALSE
    BY <1>3, <2>1
  <2> QED
    BY <2>2 DEF used
<1>5. ASSUME NEW v, v.tainted = FALSE PROVE Output(f, {v}) = FALSE
  <2> DEFINE used == {v}
  <2>1. \A x \in used : ~x.tainted
    BY <1>5
  <2> HIDE DEF used
  <2>2. Output(f, used) = FALSE
    BY <1>3, <2>1
  <2> QED
    BY <2>2 DEF used
<1>6. ASSUME NEW v, NEW w, v.tainted = FALSE, w.tainted = FALSE PROVE Output(f, {v, w}) = FALSE
  <2> DEFINE used == {v, w}
  <2>1. \A x \in used : ~x.tainted
    BY <1>6
  <2> HIDE DEF used
  <2>2. Output(f, used) = FALSE
    BY <1>3, <2>1
  <2> QED
    BY <2>2 DEF used
<1> QED
  BY <1>4, <1>5, <1>6

-----------------------------------------------------------------------------
\* Every instruction keeps the invariant.
LEMMA PushConstantStep == Inv /\ PushConstant => Inv'
<1> SUFFICES ASSUME Inv, PushConstant PROVE Inv'
  OBVIOUS
<1> DEFINE f == Fetched(Top)
           k == IF Code(f)[f.pc].op \in {"pushobj", "push"} THEN 1 ELSE JumpLength
           ops == {"uint16", "name", "pushobj", "push"}
           v == Value(FALSE, Controlled(f))
           out == Output(f, {})
<1>1. Executing(ops) /\ Unchanged /\ Advance(Pushed(f, f.stack, v, out), k)
  BY DEF PushConstant
<1>2. /\ f \in Frames(DOMAIN program)
      /\ Balanced(CodeOf(program, f), ShapeOf(program, f), f.pc)
      /\ Code(f) = CodeOf(program, f) /\ CodeOf(program, f)[f.pc].op \in ops
  BY <1>1, RunningFrame DEF Sound
<1>3. Goes(ShapeOf(program, f), f.pc, f.pc + k, 0, 1) /\ k \in Int
  BY <1>2 DEF Balanced, JumpLength
<1>4. v \in Values /\ out \in BOOLEAN /\ v.tainted = FALSE
  BY ValueType, OutputType DEF Value
<1>5. ASSUME ~source PROVE out = FALSE
  BY <1>1, <1>5, PlainOutput
<1>6. Drop(f, 0) = f.stack
  BY <1>2, DropNone
<1> HIDE DEF f, k, v, out
<1> QED
  BY <1>1, <1>2, <1>3, <1>4, <1>5, <1>6, InstructionPushes DEF f

LEMMA GetSlotStep == Inv /\ GetSlot => Inv'
<1> SUFFICES ASSUME Inv, GetSlot PROVE Inv'
  OBVIOUS
<1> DEFINE f == Fetched(Top)
           ops == {"getvar"}
           w == f.slots[Code(f)[f.pc].arg]
           v == Value(w.tainted, Depends(f, {w}))
           out == Output(f, {w})
<1>1. Executing(ops) /\ Unchanged /\ Advance(Pushed(f, f.stack, v, out), JumpLength)
  BY DEF GetSlot
<1>2. /\ f \in Frames(DOMAIN program) /\ Sound(program, source, f)
      /\ Balanced(CodeOf(program, f), ShapeOf(program, f), f.pc)
      /\ Linked(program, CodeOf(program, f), ShapeOf(program, f), f.pc)
      /\ Code(f) = CodeOf(program, f) /\ CodeOf(program, f)[f.pc].op \in ops
  BY <1>1, RunningFrame DEF Sound
<1>3. Goes(ShapeOf(program, f), f.pc, f.pc + JumpLength, 0, 1) /\ JumpLength \in Int
  BY <1>2 DEF Balanced, JumpLength
<1>4. /\ Code(f)[f.pc].arg \in Slots /\ w \in Values
      /\ w.tainted \in BOOLEAN /\ (~source => w.tainted = FALSE)
  BY <1>2 DEF Linked, Frames, Values, Sound, Untainted
<1>5. v \in Values /\ out \in BOOLEAN /\ v.tainted = w.tainted
  BY <1>4, ValueType, OutputType DEF Value
<1> HIDE DEF w
<1>6. ASSUME ~source PROVE out = FALSE
  BY <1>1, <1>4, <1>6, PlainOutput
<1>7. Drop(f, 0) = f.stack
  BY <1>2, DropNone
<1> HIDE DEF f, v, out
<1> QED
  BY <1>1, <1>2, <1>3, <1>4, <1>5, <1>6, <1>7, InstructionPushes DEF f

LEMMA GetPropertyStep == Inv /\ GetProperty => Inv'
<1> SUFFICES ASSUME Inv, GetProperty PROVE Inv'
  OBVIOUS
<1> DEFINE f == Fetched(Top)
           ops == {"getprop"}
           o == Operand(f, 1)
           read == Value(source, source)
           v == Value(source, Depends(f, {o, read}))
           out == Output(f, {o, read})
<1>1. Executing(ops) /\ Unchanged /\ Advance(Pushed(f, Drop(f, 1), v, out), JumpLength)
  BY DEF GetProperty
<1>2. /\ Sound(program, source, f) /\ source \in BOOLEAN
      /\ Balanced(CodeOf(program, f), ShapeOf(program, f), f.pc)
      /\ CodeOf(program, f)[f.pc].op \in ops
  BY <1>1, RunningFrame
<1>3. Goes(ShapeOf(program, f), f.pc, f.pc + JumpLength, 1, 1) /\ JumpLength \in Int
  BY <1>2 DEF Balanced, JumpLength
<1>4. ~source => o.tainted = FALSE /\ read.tainted = FALSE
  <2>1. 1 <= Len(ShapeOf(program, f)[f.pc])
    BY <1>1, <1>3, GoesType
  <2> QED
    BY <1>1, <2>1, Used DEF Value
<1>5. v \in Values /\ out \in BOOLEAN /\ v.tainted = source
  BY <1>2, ValueType, OutputType DEF Value
<1> HIDE DEF o, read
<1>6. ASSUME ~source PROVE out = FALSE
  BY <1>1, <1>4, <1>6, PlainOutput
<1> HIDE DEF f, v, out
<1> QED
  BY <1>1, <1>2, <1>3, <1>5, <1>6, InstructionPushes DEF f

LEMMA NewEqualStep == Inv /\ NewEqual => Inv'
<1> SUFFICES ASSUME Inv, NewEqual PROVE Inv'
  OBVIOUS
<1> DEFINE f == Fetched(Top)
           k == 1
           ops == {"new_eq"}
           a == Operand(f, 1)
           b == Operand(f, 2)
           v == Value(FALSE, Depends(f, {a, b}))
           out == Output(f, {a, b})
<1>1. Executing(ops) /\ Unchanged /\ Advance(Pushed(f, Drop(f, 2), v, out), k)
  BY DEF NewEqual
<1>2. /\ Balanced(CodeOf(program, f), ShapeOf(program, f), f.pc)
      /\ CodeOf(program, f)[f.pc].op \in ops
  BY <1>1, RunningFrame
<1>3. Goes(ShapeOf(program, f), f.pc, f.pc + k, 2, 1) /\ k \in Int
  BY <1>2 DEF Balanced
<1>4. ~source => a.tainted = FALSE /\ b.tainted = FALSE
  <2>1. 2 <= Len(ShapeOf(program, f)[f.pc])
    BY <1>1, <1>3, GoesType
  <2> QED
    BY <1>1, <2>1, Used
<1>5. v \in Values /\ out \in BOOLEAN /\ v.tainted = FALSE
  BY ValueType, OutputType DEF Value
<1> HIDE DEF a, b
<1>6. ASSUME ~source PROVE out = FALSE
  BY <1>1, <1>4, <1>6, PlainOutput
<1> HIDE DEF f, v, out, k
<1> QED
  BY <1>1, <1>2, <1>3, <1>5, <1>6, InstructionPushes DEF f

LEMMA ToObjectStep == Inv /\ ToObject => Inv'
<1> SUFFICES ASSUME Inv, ToObject PROVE Inv'
  OBVIOUS
<1> DEFINE f == Fetched(Top)
           k == 1
           ops == {"toobject"}
           a == Operand(f, 1)
           v == Value(FALSE, Depends(f, {a}))
           out == Output(f, {a})
<1>1. Executing(ops) /\ Unchanged /\ Advance(Pushed(f, Drop(f, 1), v, out), k)
  BY DEF ToObject
<1>2. /\ Balanced(CodeOf(program, f), ShapeOf(program, f), f.pc)
      /\ CodeOf(program, f)[f.pc].op \in ops
  BY <1>1, RunningFrame
<1>3. Goes(ShapeOf(program, f), f.pc, f.pc + k, 1, 1) /\ k \in Int
  BY <1>2 DEF Balanced
<1>4. ~source => a.tainted = FALSE
  <2>1. 1 <= Len(ShapeOf(program, f)[f.pc])
    BY <1>1, <1>3, GoesType
  <2> QED
    BY <1>1, <2>1, Used
<1>5. v \in Values /\ out \in BOOLEAN /\ v.tainted = FALSE
  BY ValueType, OutputType DEF Value
<1> HIDE DEF a
<1>6. ASSUME ~source PROVE out = FALSE
  BY <1>1, <1>4, <1>6, PlainOutput
<1> HIDE DEF f, v, out, k
<1> QED
  BY <1>1, <1>2, <1>3, <1>5, <1>6, InstructionPushes DEF f

LEMMA PushExceptionStep == Inv /\ PushException => Inv'
<1> SUFFICES ASSUME Inv, PushException PROVE Inv'
  OBVIOUS
<1> DEFINE f == Fetched(Top)
           k == 1
           ops == {"exception"}
           v == Value(exception.tainted, Depends(f, {exception}))
           out == Output(f, {exception})
<1>1. Executing(ops) /\ Unchanged /\ Advance(Pushed(f, f.stack, v, out), k)
  BY DEF PushException
<1>2. /\ f \in Frames(DOMAIN program)
      /\ Balanced(CodeOf(program, f), ShapeOf(program, f), f.pc)
      /\ CodeOf(program, f)[f.pc].op \in ops
  BY <1>1, RunningFrame DEF Sound
<1>3. Goes(ShapeOf(program, f), f.pc, f.pc + k, 0, 1) /\ k \in Int
  BY <1>2 DEF Balanced
<1>4. exception.tainted \in BOOLEAN /\ (~source => exception.tainted = FALSE)
  BY DEF Inv, Structure, Plainness, Values
<1>5. v \in Values /\ out \in BOOLEAN /\ v.tainted = exception.tainted
  BY <1>4, ValueType, OutputType DEF Value
<1>6. ASSUME ~source PROVE out = FALSE
  BY <1>1, <1>4, <1>6, PlainOutput
<1>7. Drop(f, 0) = f.stack
  BY <1>2, DropNone
<1> HIDE DEF f, v, out, k
<1> QED
  BY <1>1, <1>2, <1>3, <1>4, <1>5, <1>6, <1>7, InstructionPushes DEF f

\* What the instructions without operands to push leave.
PoppedNext(f, n, out, k) == [f EXCEPT !.stack = Drop(f, n), !.output = out, !.pc = @ + k]

LEMMA PoppedSound ==
    ASSUME NEW p \in Programs, NEW s, NEW f, Sound(p, s, f), Ready(p, f),
           NEW n, n \in Nat, n <= Len(ShapeOf(p, f)[f.pc]),
           NEW out, out \in BOOLEAN, ~s => ~out,
           NEW k, f.pc + k \in Nat
    PROVE  /\ Sound(p, s, PoppedNext(f, n, out, k))
           /\ PoppedNext(f, n, out, k).name = f.name
           /\ PoppedNext(f, n, out, k).pc = f.pc + k
           /\ PoppedNext(f, n, out, k).stack = Drop(f, n)
<1> DEFINE g == PoppedNext(f, n, out, k)
           t == Drop(f, n)
<1>1. f \in Frames(DOMAIN p) /\ t \in Seq(OnStack)
  BY OperandType DEF Sound
<1>2. g = [f EXCEPT !.stack = t, !.output = out, !.pc = @ + k]
  BY DEF PoppedNext
<1>3. ~s => \A j \in DOMAIN t : ~t[j].tainted
  BY DropPlain
<1> HIDE DEF t, g
<1>4. /\ g \in Frames(DOMAIN p) /\ g.scopes = f.scopes /\ g.name = f.name /\ g.pc = f.pc + k
      /\ g.stack = t /\ g.mark = f.mark /\ g.output = out /\ g.rval = f.rval /\ g.saved = f.saved
      /\ g.slots = f.slots
  BY <1>1, <1>2 DEF Frames
<1>5. ~s => Untainted(f)
  BY DEF Sound
<1>6. Sound(p, s, g)
  BY <1>3, <1>4, <1>5, SameScopes DEF Untainted
<1> QED
  BY <1>4, <1>6 DEF t, g

LEMMA InstructionLeaves ==
    ASSUME NEW ops, Inv, Executing(ops), NEW f, f = Fetched(Top),
           NEW n, n \in Nat, NEW k, k \in Int, NEW out, out \in BOOLEAN, ~source => ~out,
           Goes(ShapeOf(program, f), f.pc, f.pc + k, n, 0),
           CodeOf(program, f)[f.pc].op # "setsp",
           Running(PoppedNext(f, n, out, k)), Unchanged
    PROVE  Inv'
<1> DEFINE g == PoppedNext(f, n, out, k)
<1>1. program \in Programs /\ Sound(program, source, f) /\ Ready(program, f)
  BY RunningFrame
<1>2. n <= Len(ShapeOf(program, f)[f.pc]) /\ f.pc + k \in Nat
  BY GoesType
<1>3. Sound(program, source, g)
  BY <1>1, <1>2, PoppedSound
<1>4. g.name = f.name /\ g.pc = f.pc + k /\ g.stack = Drop(f, n)
  BY <1>1 DEF PoppedNext, Sound, Frames
<1> HIDE DEF g
<1> QED
  BY <1>3, <1>4, InstructionPops DEF g

LEMMA GotoStep == Inv /\ Goto => Inv'
<1> SUFFICES ASSUME Inv, Goto PROVE Inv'
  OBVIOUS
<1> DEFINE f == Fetched(Top)
           ops == {"goto", "default"}
           c == CodeOf(program, f)[f.pc]
           n == IF c.op = "default" THEN 1 ELSE 0
           k == c.jump
           out == FALSE
<1>1. Executing(ops) /\ Unchanged
  BY DEF Goto
<1>2. /\ f \in Frames(DOMAIN program) /\ c \in Cells /\ c.op \in ops
      /\ Balanced(CodeOf(program, f), ShapeOf(program, f), f.pc)
  BY <1>1, RunningFrame DEF Sound
<1>3. Running(PoppedNext(f, n, out, k))
  <2> DEFINE h == [f EXCEPT !.output = FALSE]
  <2>1. Advance([h EXCEPT !.stack = IF Code(h)[h.pc].op = "default" THEN Drop(h, 1) ELSE @], Code(h)[h.pc].jump)
    BY DEF Goto
  <2>2. h.stack = f.stack /\ h.pc = f.pc /\ h.name = f.name
    BY <1>2 DEF Frames
  <2>3. Code(h)[h.pc] = c /\ Drop(h, 1) = Drop(f, 1) /\ Drop(f, 0) = f.stack
    BY <1>2, <2>2, DropNone DEF Code, Script, CodeOf, Drop
  <2> HIDE DEF c, f
  <2>4. [[h EXCEPT !.stack = IF c.op = "default" THEN Drop(f, 1) ELSE @] EXCEPT !.pc = @ + c.jump]
          = PoppedNext(f, n, out, k)
    BY <1>2, <2>3 DEF PoppedNext, Frames
  <2> HIDE DEF h
  <2> QED
    BY <2>1, <2>3, <2>4 DEF Advance
<1>4. Goes(ShapeOf(program, f), f.pc, f.pc + k, n, 0) /\ n \in Nat /\ k \in Int
  BY <1>2 DEF Balanced, Cells
<1>5. CodeOf(program, f)[f.pc].op # "setsp" /\ out \in BOOLEAN /\ ~out
  BY <1>2
<1> HIDE DEF n, c, k, f, out
<1> QED
  BY <1>1, <1>3, <1>4, <1>5, InstructionLeaves DEF f

\* SETSP leaves the operands that the catch block keeps.
Kept(p, f) == SubSeq(f.stack, 1, Len(ShapeOf(p, f)[f.pc]))

LEMMA SetspReady ==
    ASSUME NEW p \in Programs, NEW s, NEW f, Sound(p, s, f), Ready(p, f),
           f.pc \in DOMAIN CodeOf(p, f),
           NEW to, Goes(ShapeOf(p, f), f.pc, to, 0, 0),
           NEW g, g.name = f.name, g.pc = to, g.stack = Kept(p, f)
    PROVE  /\ Kept(p, f) \in Seq(OnStack) /\ to \in Nat /\ Ready(p, g)
           /\ \A j \in DOMAIN Kept(p, f) : Kept(p, f)[j] = f.stack[j] /\ j \in DOMAIN f.stack
<1> DEFINE rest == Kept(p, f)
           code == CodeOf(p, f)
           shape == ShapeOf(p, f)
           here == shape[f.pc]
           next == shape[to]
<1>1. f.pc \in DOMAIN shape /\ Fits(code, f.stack, here) /\ f.stack \in Seq(OnStack)
  BY DEF Ready, Sound, Frames
<1>2. WellFormed(p, code, shape)
  BY CodeIsBalanced DEF Sound, Frames
<1>3. Goes(shape, f.pc, to, 0, 0)
  OBVIOUS
<1>4. CodeOf(p, g) = code /\ ShapeOf(p, g) = shape
  BY DEF CodeOf, ShapeOf
<1>5. /\ \A q \in DOMAIN shape : shape[q] \in Seq(SUBSET DOMAIN code)
      /\ DOMAIN shape \subseteq 1..Len(code) + 1 /\ Len(code) \in Nat
  BY <1>2 DEF WellFormed
<1>6. /\ to \in DOMAIN shape /\ Len(here) \in Nat /\ Len(next) \in Nat /\ Len(next) = Len(here)
      /\ \A j \in 1..Len(next) : here[j] \subseteq next[j]
  BY <1>1, <1>3, <1>5 DEF Goes
<1>7. /\ rest \in Seq(OnStack) /\ Len(rest) = Len(here)
      /\ \A j \in 1..Len(here) : rest[j] = f.stack[j] /\ j \in DOMAIN f.stack
  <2> HIDE DEF here
  <2>1. Len(here) <= Len(f.stack) /\ Len(here) \in Nat
    BY <1>1, <1>6 DEF Fits
  <2>2. rest = SubSeq(f.stack, 1, Len(here))
    BY DEF here, Kept
  <2> QED
    BY <1>1, <2>1, <2>2
<1> DEFINE top == g.stack
<1>8. Len(top) = Len(next) /\ \A j \in 1..Len(next) : top[j] = f.stack[j]
  BY <1>6, <1>7
<1> HIDE DEF code, shape, here, next, top, rest
<1>9. Fits(code, top, next)
  BY <1>1, <1>6, <1>8, PoppedFits
<1>10. Ready(p, g)
  BY <1>4, <1>6, <1>8, <1>9 DEF Ready, top, next
<1> QED
  BY <1>5, <1>6, <1>7, <1>10 DEF rest

LEMMA PlainlyStep == Inv /\ Plainly => Inv'
<1> SUFFICES ASSUME Inv, Plainly PROVE Inv'
  OBVIOUS
<1> DEFINE f == Fetched(Top)
           ops == {"pop", "pop2", "leavewith", "nop", "try", "finally", "setsp"}
           c == CodeOf(program, f)[f.pc]
           out == FALSE
<1>1. Executing(ops) /\ Unchanged
  BY DEF Plainly
<1>2. /\ program \in Programs /\ Sound(program, source, f) /\ Ready(program, f)
      /\ f \in Frames(DOMAIN program) /\ c \in Cells /\ c.op \in ops
      /\ Balanced(CodeOf(program, f), ShapeOf(program, f), f.pc)
      /\ f.name = Top.name /\ f.pc \in DOMAIN CodeOf(program, f) /\ f.pc \in Nat
  BY <1>1, RunningFrame DEF Sound
<1>3. out \in BOOLEAN /\ ~out
  OBVIOUS
<1> DEFINE h == [f EXCEPT !.output = out]
<1>4. Advance([h EXCEPT !.stack = CASE c.op \in {"pop", "leavewith"} -> Drop(f, 1)
                                    [] c.op = "pop2" -> Drop(f, 2)
                                    [] c.op = "setsp" -> SubSeq(@, 1, c.note)
                                    [] OTHER -> @],
              IF c.op = "setsp" THEN JumpLength ELSE 1)
  <2>1. h.stack = f.stack /\ h.pc = f.pc /\ h.name = f.name
    BY <1>2 DEF Frames
  <2>2. Code(h)[h.pc] = c /\ Drop(h, 1) = Drop(f, 1) /\ Drop(h, 2) = Drop(f, 2)
    BY <2>1 DEF Code, Script, CodeOf, Drop
  <2> HIDE DEF c
  <2> QED
    BY <2>2 DEF Plainly
<1>5. h.stack = f.stack /\ h.pc = f.pc /\ f.pc \in Int
  BY <1>2 DEF Frames
<1>6. CASE c.op # "setsp"
  <2> DEFINE n == IF c.op \in {"pop", "leavewith"} THEN 1 ELSE IF c.op = "pop2" THEN 2 ELSE 0
             k == 1
  <2>1. Drop(f, 0) = f.stack
    BY <1>2, DropNone
  <2>2. Goes(ShapeOf(program, f), f.pc, f.pc + k, n, 0) /\ n \in Nat /\ k \in Int
    BY <1>2, <1>6 DEF Balanced
  <2> HIDE DEF c, f
  <2>3. Running(PoppedNext(f, n, out, k))
    <3>1. [h EXCEPT !.stack = CASE c.op \in {"pop", "leavewith"} -> Drop(f, 1)
                                [] c.op = "pop2" -> Drop(f, 2)
                                [] c.op = "setsp" -> SubSeq(@, 1, c.note)
                                [] OTHER -> @] = [h EXCEPT !.stack = Drop(f, n)]
      BY <1>2, <1>5, <1>6, <2>1 DEF Frames
    <3>2. Advance([h EXCEPT !.stack = Drop(f, n)], 1)
      BY <1>4, <1>6, <3>1
    <3>3. [[h EXCEPT !.stack = Drop(f, n)] EXCEPT !.pc = @ + 1] = PoppedNext(f, n, out, k)
      BY <1>2 DEF PoppedNext, Frames
    <3> QED
      BY <3>2, <3>3 DEF Advance
  <2> HIDE DEF n, k, out
  <2>4. CodeOf(program, f)[f.pc].op # "setsp"
    BY <1>6 DEF c
  <2> QED
    BY <1>1, <1>3, <2>2, <2>3, <2>4, InstructionLeaves DEF f
<1>7. CASE c.op = "setsp"
  <2> DEFINE g == [f EXCEPT !.stack = Kept(program, f), !.output = out, !.pc = @ + JumpLength]
  <2>1. /\ c.note = Len(ShapeOf(program, f)[f.pc])
        /\ Goes(ShapeOf(program, f), f.pc, f.pc + JumpLength, 0, 0)
    BY <1>2, <1>7 DEF Balanced
  <2> HIDE DEF c, f, out
  <2>2. Running(g)
    <3>1. [h EXCEPT !.stack = CASE c.op \in {"pop", "leavewith"} -> Drop(f, 1)
                                [] c.op = "pop2" -> Drop(f, 2)
                                [] c.op = "setsp" -> SubSeq(@, 1, c.note)
                                [] OTHER -> @] = [h EXCEPT !.stack = Kept(program, f)]
      BY <1>5, <1>7, <2>1 DEF Kept
    <3>2. Advance([h EXCEPT !.stack = Kept(program, f)], JumpLength)
      BY <1>4, <1>7, <3>1
    <3>3. [[h EXCEPT !.stack = Kept(program, f)] EXCEPT !.pc = @ + JumpLength] = g
      BY <1>2 DEF Frames
    <3> QED
      BY <3>2, <3>3 DEF Advance
  <2>3. g.stack = Kept(program, f) /\ g.pc = f.pc + JumpLength /\ g.name = f.name
    BY <1>2 DEF Frames
  <2> DEFINE to == f.pc + JumpLength
  <2>4. Goes(ShapeOf(program, f), f.pc, to, 0, 0) /\ g.pc = to
    BY <2>1, <2>3
  <2> HIDE DEF g, to
  <2>5. Kept(program, f) \in Seq(OnStack)
    BY <1>2, <2>4, <2>3, SetspReady
  <2>6. \A j \in DOMAIN Kept(program, f) : Kept(program, f)[j] = f.stack[j] /\ j \in DOMAIN f.stack
    BY <1>2, <2>4, <2>3, SetspReady
  <2>7. to \in Nat /\ Ready(program, g)
    BY <1>2, <2>4, <2>3, SetspReady
  <2>8. /\ g \in Frames(DOMAIN program) /\ g.scopes = f.scopes /\ g.mark = f.mark /\ g.output = out
        /\ g.rval = f.rval /\ g.saved = f.saved /\ g.slots = f.slots
    BY <1>2, <1>3, <2>5, <2>7 DEF Frames, g, to
  <2>9. ~source => Untainted(f)
    BY <1>2 DEF Sound
  <2>10. Sound(program, source, g)
    BY <1>2, <1>3, <2>3, <2>5, <2>6, <2>8, <2>9, SameScopes DEF Untainted
  <2> QED
    BY <1>1, <1>2, <2>2, <2>3, <2>7, <2>10, InstructionRuns
<1> QED
  BY <1>6, <1>7
-----------------------------------------------------------------------------
\* Instructions that change something else in the frame, which gives h, before
\* they change the stack.
LEMMA ChangedReady ==
    ASSUME NEW p, NEW f, Ready(p, f), NEW h, h.name = f.name, h.pc = f.pc, h.stack = f.stack
    PROVE  /\ Ready(p, h) /\ CodeOf(p, h) = CodeOf(p, f) /\ ShapeOf(p, h) = ShapeOf(p, f)
           /\ \A n : Drop(h, n) = Drop(f, n)
           /\ \A n, v : Put(h, n, v) = Put(f, n, v)
           /\ \A k : Operand(h, k) = Operand(f, k)
<1>1. CodeOf(p, h) = CodeOf(p, f) /\ ShapeOf(p, h) = ShapeOf(p, f)
  BY DEF CodeOf, ShapeOf
<1>2. \A n : Drop(h, n) = Drop(f, n)
  BY DEF Drop
<1> QED
  BY <1>1, <1>2 DEF Ready, Put, Operand

LEMMA ChangedLeaves ==
    ASSUME NEW ops, Inv, Executing(ops), NEW f, f = Fetched(Top),
           NEW h, Sound(program, source, h), h.name = f.name, h.pc = f.pc, h.stack = f.stack,
           NEW n, n \in Nat, NEW k, k \in Int, NEW out, out \in BOOLEAN, ~source => ~out,
           Goes(ShapeOf(program, f), f.pc, f.pc + k, n, 0),
           CodeOf(program, f)[f.pc].op # "setsp",
           Running(PoppedNext(h, n, out, k)), Unchanged
    PROVE  Inv'
<1> DEFINE g == PoppedNext(h, n, out, k)
<1>1. program \in Programs /\ Ready(program, f)
  BY RunningFrame
<1>2. /\ Ready(program, h) /\ ShapeOf(program, h) = ShapeOf(program, f)
      /\ Drop(h, n) = Drop(f, n)
  BY <1>1, ChangedReady
<1>3. n <= Len(ShapeOf(program, h)[h.pc]) /\ h.pc + k \in Nat
  BY <1>2, GoesType
<1>4. Sound(program, source, g)
  BY <1>1, <1>2, <1>3, PoppedSound
<1>5. g.name = f.name /\ g.pc = f.pc + k /\ g.stack = Drop(f, n)
  BY <1>1, <1>2 DEF PoppedNext, Sound, Frames
<1> HIDE DEF g
<1> QED
  BY <1>4, <1>5, InstructionPops DEF g

LEMMA ChangedPushes ==
    ASSUME NEW ops, Inv, Executing(ops), NEW f, f = Fetched(Top),
           NEW h, Sound(program, source, h), h.name = f.name, h.pc = f.pc, h.stack = f.stack,
           NEW n, n \in Nat, NEW k, k \in Int, NEW v, v \in Values, NEW out, out \in BOOLEAN,
           Goes(ShapeOf(program, f), f.pc, f.pc + k, n, 1),
           CodeOf(program, f)[f.pc].op \notin {"setsp", "gosub"},
           ~source => ~out /\ ~v.tainted,
           Running(PushedNext(h, n, v, out, k)), Unchanged
    PROVE  Inv'
<1> DEFINE g == PushedNext(h, n, v, out, k)
<1>1. program \in Programs /\ Ready(program, f)
  BY RunningFrame
<1>2. /\ Ready(program, h) /\ ShapeOf(program, h) = ShapeOf(program, f)
      /\ Put(h, n, v) = Put(f, n, v)
  BY <1>1, ChangedReady
<1>3. n <= Len(ShapeOf(program, h)[h.pc]) /\ h.pc + k \in Nat
  BY <1>2, GoesType
<1>4. v \in OnStack /\ PushedBy(CodeOf(program, f), v, {f.pc})
  BY DEF PushedBy, OnStack
<1>5. Sound(program, source, g)
  BY <1>1, <1>2, <1>3, <1>4, PushedSound
<1>6. g.name = h.name /\ g.pc = h.pc + k /\ g.stack = Put(h, n, v)
  BY DEF PushedNext, Pushed, Put, Sound, Frames
<1> HIDE DEF g
<1>7. g.name = f.name /\ g.pc = f.pc + k /\ g.stack = Put(f, n, v)
  BY <1>2, <1>6
<1> QED
  BY <1>4, <1>5, <1>7, InstructionPuts DEF g

\* PUSH without a mark: what STORE_OPND does.
PutNext(f, n, v, out, k) == [f EXCEPT !.stack = Put(f, n, v), !.output = out, !.pc = @ + k]

LEMMA ChangedPuts ==
    ASSUME NEW ops, Inv, Executing(ops), NEW f, f = Fetched(Top),
           NEW h, Sound(program, source, h), h.name = f.name, h.pc = f.pc, h.stack = f.stack,
           NEW n, n \in Nat, NEW k, k \in Int, NEW v, v \in OnStack, NEW out, out \in BOOLEAN,
           PushedBy(CodeOf(program, f), v, {f.pc}),
           Goes(ShapeOf(program, f), f.pc, f.pc + k, n, 1),
           CodeOf(program, f)[f.pc].op # "setsp",
           ~source => ~out /\ ~v.tainted,
           Running(PutNext(h, n, v, out, k)), Unchanged
    PROVE  Inv'
<1> DEFINE g == PutNext(h, n, v, out, k)
           t == Put(h, n, v)
<1>1. program \in Programs /\ Ready(program, f)
  BY RunningFrame
<1>2. /\ Ready(program, h) /\ ShapeOf(program, h) = ShapeOf(program, f)
      /\ Put(h, n, v) = Put(f, n, v)
  BY <1>1, ChangedReady
<1>3. n <= Len(ShapeOf(program, h)[h.pc]) /\ h.pc + k \in Nat
  BY <1>2, GoesType
<1>4. t \in Seq(OnStack) /\ h \in Frames(DOMAIN program)
  BY <1>1, <1>2, <1>3, PutType DEF Sound
<1>5. ~source => \A j \in DOMAIN t : ~t[j].tainted
  BY <1>1, <1>2, <1>3, PutPlain
<1>6. g = [h EXCEPT !.stack = t, !.output = out, !.pc = @ + k]
  BY DEF PutNext
<1> HIDE DEF g, t
<1>7. /\ g \in Frames(DOMAIN program) /\ g.scopes = h.scopes /\ g.name = h.name /\ g.pc = h.pc + k
      /\ g.stack = t /\ g.mark = h.mark /\ g.output = out /\ g.rval = h.rval /\ g.saved = h.saved
      /\ g.slots = h.slots
  BY <1>3, <1>4, <1>6 DEF Frames
<1>8. ~source => Untainted(h)
  BY DEF Sound
<1>9. Sound(program, source, g)
  BY <1>5, <1>7, <1>8, SameScopes DEF Untainted
<1>10. g.name = f.name /\ g.pc = f.pc + k /\ g.stack = Put(f, n, v)
  BY <1>2, <1>7 DEF t
<1> QED
  BY <1>9, <1>10, InstructionPuts DEF g

LEMMA SetSlotStep == Inv /\ SetSlot => Inv'
<1> SUFFICES ASSUME Inv, SetSlot PROVE Inv'
  OBVIOUS
<1> DEFINE f == Fetched(Top)
           ops == {"setvar"}
           a == CodeOf(program, f)[f.pc].arg
           o == Operand(f, 1)
           out == Output(f, {o})
           v == Value(o.tainted \/ out, Depends(f, {o}))
           h == [f EXCEPT !.slots[a] = v]
<1>1. Executing(ops) /\ Unchanged
  BY DEF SetSlot
<1>2. /\ f \in Frames(DOMAIN program) /\ Sound(program, source, f)
      /\ Balanced(CodeOf(program, f), ShapeOf(program, f), f.pc)
      /\ Linked(program, CodeOf(program, f), ShapeOf(program, f), f.pc)
      /\ Code(f) = CodeOf(program, f) /\ CodeOf(program, f)[f.pc].op \in ops
  BY <1>1, RunningFrame DEF Sound
<1>3. Goes(ShapeOf(program, f), f.pc, f.pc + JumpLength, 1, 1) /\ JumpLength \in Int /\ a \in Slots
  BY <1>2 DEF Balanced, Linked, JumpLength
<1>4. o.tainted \in BOOLEAN /\ (~source => o.tainted = FALSE)
  <2>1. 1 <= Len(ShapeOf(program, f)[f.pc])
    BY <1>1, <1>3, GoesType
  <2> QED
    BY <1>1, <2>1, Used
<1>5. v \in Values /\ v \in OnStack /\ out \in BOOLEAN /\ v.tainted = (o.tainted \/ out)
  BY <1>4, ValueType, OutputType DEF Value
<1>6. Advance([f EXCEPT !.slots[a] = v, !.output = out, !.stack = Append(Drop(f, 1), v)], JumpLength)
  BY <1>2 DEF SetSlot
<1> HIDE DEF o
<1>7. ASSUME ~source PROVE out = FALSE /\ v.tainted = FALSE
  BY <1>1, <1>4, <1>5, <1>7, PlainOutput
<1> HIDE DEF f, v, out, a
<1>8. /\ h \in Frames(DOMAIN program) /\ h.scopes = f.scopes /\ h.name = f.name /\ h.pc = f.pc
      /\ h.stack = f.stack /\ h.mark = f.mark /\ h.output = f.output /\ h.rval = f.rval
      /\ h.saved = f.saved /\ h.slots = [f.slots EXCEPT ![a] = v]
  BY <1>2, <1>3, <1>5 DEF Frames
<1>9. Sound(program, source, h)
  <2>1. ~source => Untainted(f)
    BY <1>2 DEF Sound
  <2>2. f.slots \in [Slots -> Values]
    BY <1>2 DEF Frames
  <2> HIDE DEF h
  <2>3. \A x \in Slots : h.slots[x] = IF x = a THEN v ELSE f.slots[x]
    BY <1>8, <2>2
  <2>4. ~source => \A x \in Slots : ~h.slots[x].tainted
    BY <1>7, <2>1, <2>3 DEF Untainted
  <2> QED
    BY <1>2, <1>8, <2>1, <2>4, SameScopes DEF Untainted
<1>10. Running(PutNext(h, 1, v, out, JumpLength))
  <2>1. Drop(h, 1) = Drop(f, 1)
    BY <1>8 DEF Drop
  <2>2. [[f EXCEPT !.slots[a] = v, !.output = out, !.stack = Append(Drop(f, 1), v)]
           EXCEPT !.pc = @ + JumpLength] = PutNext(h, 1, v, out, JumpLength)
    BY <1>2, <2>1 DEF PutNext, Put, Frames
  <2> QED
    BY <1>6, <2>2 DEF Advance
<1>11. PushedBy(CodeOf(program, f), v, {f.pc}) /\ CodeOf(program, f)[f.pc].op # "setsp"
  BY <1>2, <1>5 DEF PushedBy
<1> HIDE DEF h
<1> QED
  BY <1>1, <1>3, <1>5, <1>7, <1>8, <1>9, <1>10, <1>11, ChangedPuts DEF f

LEMMA SetResultStep == Inv /\ SetResult => Inv'
<1> SUFFICES ASSUME Inv, SetResult PROVE Inv'
  OBVIOUS
<1> DEFINE f == Fetched(Top)
           ops == {"setrval", "popv"}
           k == 1
           o == Operand(f, 1)
           out == Output(f, {o})
           v == Value(o.tainted \/ out, Depends(f, {o}))
           h == [f EXCEPT !.rval = v]
<1>1. Executing(ops) /\ Unchanged
  BY DEF SetResult
<1>2. /\ f \in Frames(DOMAIN program) /\ Sound(program, source, f)
      /\ Balanced(CodeOf(program, f), ShapeOf(program, f), f.pc)
      /\ CodeOf(program, f)[f.pc].op \in ops
  BY <1>1, RunningFrame DEF Sound
<1>3. Goes(ShapeOf(program, f), f.pc, f.pc + k, 1, 0) /\ k \in Int
  BY <1>2 DEF Balanced
<1>4. o.tainted \in BOOLEAN /\ (~source => o.tainted = FALSE)
  <2>1. 1 <= Len(ShapeOf(program, f)[f.pc])
    BY <1>1, <1>3, GoesType
  <2> QED
    BY <1>1, <2>1, Used
<1>5. v \in Values /\ out \in BOOLEAN /\ v.tainted = (o.tainted \/ out)
  BY <1>4, ValueType, OutputType DEF Value
<1>6. Advance([f EXCEPT !.stack = Drop(f, 1), !.output = out, !.rval = v], k)
  BY DEF SetResult
<1> HIDE DEF o
<1>7. ASSUME ~source PROVE out = FALSE /\ v.tainted = FALSE
  BY <1>1, <1>4, <1>5, <1>7, PlainOutput
<1> HIDE DEF f, v, out, k
<1>8. /\ h \in Frames(DOMAIN program) /\ h.scopes = f.scopes /\ h.name = f.name /\ h.pc = f.pc
      /\ h.stack = f.stack /\ h.mark = f.mark /\ h.output = f.output /\ h.rval = v
      /\ h.saved = f.saved /\ h.slots = f.slots
  BY <1>2, <1>5 DEF Frames
<1>9. Sound(program, source, h)
  <2>1. ~source => Untainted(f)
    BY <1>2 DEF Sound
  <2> HIDE DEF h
  <2> QED
    BY <1>2, <1>7, <1>8, <2>1, SameScopes DEF Untainted
<1>10. Running(PoppedNext(h, 1, out, k))
  <2>1. Drop(h, 1) = Drop(f, 1)
    BY <1>8 DEF Drop
  <2>2. [[f EXCEPT !.stack = Drop(f, 1), !.output = out, !.rval = v] EXCEPT !.pc = @ + k]
          = PoppedNext(h, 1, out, k)
    BY <1>2, <2>1 DEF PoppedNext, Frames
  <2> QED
    BY <1>6, <2>2 DEF Advance
<1>11. CodeOf(program, f)[f.pc].op # "setsp"
  BY <1>2
<1> HIDE DEF h
<1> QED
  BY <1>1, <1>3, <1>5, <1>7, <1>8, <1>9, <1>10, <1>11, ChangedLeaves DEF f

LEMMA InitCatchVarStep == Inv /\ InitCatchVar => Inv'
<1> SUFFICES ASSUME Inv, InitCatchVar PROVE Inv'
  OBVIOUS
<1> DEFINE f == Fetched(Top)
           ops == {"initcatchvar"}
           o == Operand(f, 1)
           holder == Operand(f, 2)
           out == Output(f, {o})
           v == Value(holder.tainted \/ out, holder.secret \/ Depends(f, {o}))
<1>1. Executing(ops) /\ Unchanged
  BY DEF InitCatchVar
<1>2. /\ f \in Frames(DOMAIN program) /\ Sound(program, source, f)
      /\ Balanced(CodeOf(program, f), ShapeOf(program, f), f.pc)
      /\ CodeOf(program, f)[f.pc].op \in ops
  BY <1>1, RunningFrame DEF Sound
<1>3. Goes(ShapeOf(program, f), f.pc, f.pc + JumpLength, 2, 1) /\ JumpLength \in Int
  BY <1>2 DEF Balanced, JumpLength
<1>4. /\ o.tainted \in BOOLEAN /\ (~source => o.tainted = FALSE)
      /\ holder.tainted \in BOOLEAN /\ (~source => holder.tainted = FALSE)
      /\ holder.secret \in BOOLEAN
  <2>1. 2 <= Len(ShapeOf(program, f)[f.pc])
    BY <1>1, <1>3, GoesType
  <2> QED
    BY <1>1, <2>1, Used
<1>5. v \in Values /\ v \in OnStack /\ out \in BOOLEAN /\ v.tainted = (holder.tainted \/ out)
  BY <1>4, ValueType, OutputType DEF Value
<1>6. Advance([f EXCEPT !.stack = Append(Drop(f, 2), v), !.output = out], JumpLength)
  BY DEF InitCatchVar
<1> HIDE DEF o, holder
<1>7. ASSUME ~source PROVE out = FALSE /\ v.tainted = FALSE
  BY <1>1, <1>4, <1>5, <1>7, PlainOutput
<1> HIDE DEF f, v, out
<1>8. Running(PutNext(f, 2, v, out, JumpLength))
  <2>1. [[f EXCEPT !.stack = Append(Drop(f, 2), v), !.output = out] EXCEPT !.pc = @ + JumpLength]
          = PutNext(f, 2, v, out, JumpLength)
    BY <1>2 DEF PutNext, Put, Frames
  <2> QED
    BY <1>6, <2>1 DEF Advance
<1>9. PushedBy(CodeOf(program, f), v, {f.pc}) /\ CodeOf(program, f)[f.pc].op # "setsp"
  BY <1>2, <1>5 DEF PushedBy
<1> QED
  BY <1>1, <1>2, <1>3, <1>5, <1>7, <1>8, <1>9, ChangedPuts DEF f

LEMMA GoSubStep == Inv /\ GoSub => Inv'
<1> SUFFICES ASSUME Inv, GoSub PROVE Inv'
  OBVIOUS
<1> DEFINE f == Fetched(Top)
           ops == {"gosub"}
           k == CodeOf(program, f)[f.pc].jump
           out == FALSE
           v == ReturnAddress(f.pc + JumpLength)
           n == 0
<1>1. Executing(ops) /\ Unchanged
  BY DEF GoSub
<1>2. /\ f \in Frames(DOMAIN program) /\ Sound(program, source, f)
      /\ Balanced(CodeOf(program, f), ShapeOf(program, f), f.pc)
      /\ Code(f) = CodeOf(program, f) /\ CodeOf(program, f)[f.pc].op \in ops
      /\ CodeOf(program, f)[f.pc] \in Cells /\ f.pc \in Nat
  BY <1>1, RunningFrame DEF Sound
<1>3. Goes(ShapeOf(program, f), f.pc, f.pc + k, n, 1) /\ k \in Int /\ n \in Nat
  BY <1>2 DEF Balanced, Cells
<1>4. v \in OnStack /\ v.tainted = FALSE
  BY <1>2 DEF ReturnAddress, OnStack, JumpLength
<1>5. PushedBy(CodeOf(program, f), v, {f.pc})
  BY <1>2 DEF PushedBy
<1>6. Drop(f, n) = f.stack
  BY <1>2, DropNone
<1>7. Running(PutNext(f, n, v, out, k))
  <2> DEFINE h == [f EXCEPT !.output = FALSE]
  <2>1. Advance([h EXCEPT !.stack = Append(@, ReturnAddress(h.pc + JumpLength))], Code(h)[h.pc].jump)
    BY DEF GoSub
  <2>2. h.stack = f.stack /\ h.pc = f.pc /\ h.name = f.name
    BY <1>2 DEF Frames
  <2>3. Code(h)[h.pc].jump = k /\ ReturnAddress(h.pc + JumpLength) = v
    BY <1>2, <2>2 DEF Code, Script, CodeOf
  <2>4. Advance([h EXCEPT !.stack = Append(@, v)], k)
    BY <2>1, <2>3
  <2> HIDE DEF v, k, n, f
  <2>5. [[h EXCEPT !.stack = Append(@, v)] EXCEPT !.pc = @ + k] = PutNext(f, n, v, out, k)
    BY <1>2, <1>6 DEF PutNext, Put, Frames
  <2> QED
    BY <2>4, <2>5 DEF Advance
<1>8. CodeOf(program, f)[f.pc].op # "setsp" /\ out \in BOOLEAN /\ ~out
  BY <1>2
<1> HIDE DEF f, v, out, k, n
<1> QED
  BY <1>1, <1>2, <1>3, <1>4, <1>5, <1>7, <1>8, ChangedPuts DEF f

LEMMA RetSubStep == Inv /\ RetSub => Inv'
<1> SUFFICES ASSUME Inv, RetSub PROVE Inv'
  OBVIOUS
<1> DEFINE f == Fetched(Top)
           ops == {"retsub"}
           code == CodeOf(program, f)
           shape == ShapeOf(program, f)
           top == shape[f.pc][Len(shape[f.pc])]
           k == Operand(f, 1).back - f.pc
           out == FALSE
<1>1. Executing(ops) /\ Unchanged
  BY DEF RetSub
<1>2. /\ Sound(program, source, f) /\ Ready(program, f)
      /\ Balanced(code, shape, f.pc) /\ code[f.pc].op \in ops
      /\ f.pc \in Nat /\ f.pc \in DOMAIN shape /\ shape[f.pc] \in Seq(SUBSET DOMAIN code)
      /\ program \in Programs /\ f.name \in DOMAIN program
  BY <1>1, RunningFrame
<1>3. f \in Frames(DOMAIN program) /\ f.stack \in Seq(OnStack)
  BY <1>2 DEF Sound, Frames
<1>4. /\ Len(shape[f.pc]) > 0
      /\ \A o \in top : code[o].op = "gosub" /\ Goes(shape, f.pc, o + JumpLength, 1, 0)
  BY <1>2 DEF Balanced
<1>5. PICK o \in top : Operand(f, 1) = ReturnAddress(o + JumpLength)
  <2>1. Len(f.stack) = Len(shape[f.pc]) /\ Fits(code, f.stack, shape[f.pc])
    BY <1>2 DEF Ready
  <2>2. Len(shape[f.pc]) \in 1..Len(shape[f.pc])
    BY <1>2, <1>4
  <2>3. PushedBy(code, f.stack[Len(f.stack)], top)
    BY <2>1, <2>2 DEF Fits
  <2>4. Operand(f, 1) = f.stack[Len(f.stack)]
    BY <1>2, <1>3 DEF Operand
  <2> QED
    BY <1>4, <2>3, <2>4 DEF PushedBy
<1>6. o \in Nat
  <2>1. WellFormed(program, code, shape)
    BY <1>2, CodeIsBalanced
  <2>2. Len(shape[f.pc]) \in DOMAIN shape[f.pc]
    BY <1>2, <1>4
  <2>3. top \in SUBSET DOMAIN code
    BY <1>2, <2>2
  <2>4. code \in Seq(Cells)
    BY <2>1 DEF WellFormed
  <2> QED
    BY <2>3, <2>4
<1>7. Operand(f, 1).back = o + JumpLength /\ k \in Int /\ f.pc + k = o + JumpLength
  BY <1>2, <1>5, <1>6 DEF ReturnAddress, JumpLength
<1>8. Goes(shape, f.pc, f.pc + k, 1, 0)
  BY <1>4, <1>7
<1>9. Running(PoppedNext(f, 1, out, k))
  <2> DEFINE h == [f EXCEPT !.output = FALSE]
  <2>1. Running([h EXCEPT !.stack = Drop(h, 1), !.pc = Operand(h, 1).back])
    BY DEF RetSub
  <2>2. h.stack = f.stack /\ h.pc = f.pc
    BY <1>3 DEF Frames
  <2>3. Drop(h, 1) = Drop(f, 1) /\ Operand(h, 1).back = f.pc + k
    BY <1>7, <2>2 DEF Drop, Operand
  <2>4. Running([h EXCEPT !.stack = Drop(f, 1), !.pc = f.pc + k])
    BY <2>1, <2>3
  <2> HIDE DEF f, k
  <2>5. [h EXCEPT !.stack = Drop(f, 1), !.pc = f.pc + k] = PoppedNext(f, 1, out, k)
    BY <1>3 DEF PoppedNext, Frames
  <2> QED
    BY <2>4, <2>5
<1>10. code[f.pc].op # "setsp" /\ out \in BOOLEAN /\ ~out
  BY <1>2
<1> HIDE DEF k, f, out
<1> QED
  BY <1>1, <1>7, <1>8, <1>9, <1>10, InstructionLeaves DEF f

-----------------------------------------------------------------------------
\* A scope that is opened on top takes the flag of the one below into prev.
LEMMA GrownScopes ==
    ASSUME NEW scopes, scopes \in Seq(Scopes), scopes # <<>>,
           \A k \in DOMAIN scopes : FlagAt(scopes, k),
           NEW new, new \in Scopes, new.istainted <=> new.opened,
           new.prev <=> (scopes[Len(scopes)].istainted \/ scopes[Len(scopes)].prev),
           NEW grown, grown = Append(scopes, new)
    PROVE  /\ grown \in Seq(Scopes) /\ Len(grown) = Len(scopes) + 1 /\ grown[1] = scopes[1]
           /\ \A k \in DOMAIN scopes : grown[k] = scopes[k]
           /\ grown[Len(grown)] = new
           /\ \A k \in DOMAIN grown : FlagAt(grown, k)
<1> DEFINE n == Len(scopes)
<1>1. /\ n \in Nat /\ n >= 1 /\ DOMAIN scopes = 1..n
      /\ grown \in Seq(Scopes) /\ Len(grown) = n + 1 /\ DOMAIN grown = 1..n + 1
      /\ \A k \in 1..n : grown[k] = scopes[k]
      /\ grown[n + 1] = new
  OBVIOUS
<1>2. new.prev <=> (scopes[n].istainted \/ scopes[n].prev)
  OBVIOUS
<1>3. \A k \in 1..n : FlagAt(scopes, k)
  BY <1>1
<1> HIDE DEF n
<1>4. \A k \in 1..n + 1 : k = n + 1 \/ k \in 1..n
  BY <1>1
<1>5. ASSUME NEW k \in 1..n PROVE FlagAt(grown, k)
  <2>1. \A j \in 1..k : j \in 1..n
    BY <1>1
  <2> QED
    BY <1>1, <1>3, <2>1 DEF FlagAt
<1>6. FlagAt(grown, n + 1)
  <2>1. (scopes[n].istainted \/ scopes[n].prev) <=> \E j \in 1..n : scopes[j].opened
    BY <1>1, <1>3 DEF FlagAt
  <2>2. (\E j \in 1..n + 1 : grown[j].opened) <=> (new.opened \/ \E j \in 1..n : scopes[j].opened)
    BY <1>1, <1>4
  <2> QED
    BY <1>1, <1>2, <2>1, <2>2 DEF FlagAt
<1> QED
  BY <1>1, <1>4, <1>5, <1>6 DEF n

LEMMA WithScopeSound ==
    ASSUME NEW p, NEW s, NEW f, Sound(p, s, f), f.pc \in Nat, Code(f)[f.pc] \in Cells,
           NEW target, target \in Int, NEW out, out \in BOOLEAN, ~s => ~out, NEW secret,
           NEW h, h = WithScope(f, target, out, secret)
    PROVE  /\ Sound(p, s, h) /\ h.name = f.name /\ h.pc = f.pc /\ h.stack = f.stack
           /\ h.mark = f.mark /\ Len(h.scopes) = Len(f.scopes) + 1
<1> DEFINE cell == Code(f)[f.pc]
           lo == Min({f.pc, target})
           hi == Max({f.pc, target})
           prev == ScopeTainted(f)
           new == [istainted |-> out, prev |-> prev, opened |-> out,
                   op |-> cell.op, from |-> lo, to |-> hi]
           grown == Append(f.scopes, new)
           live == IF secret THEN f.controls \cup {<<f.pc + cell.body[1], f.pc + cell.body[2]>>}
                   ELSE f.controls
<1>1. f \in Frames(DOMAIN p) /\ Rooted(f) /\ Flagged(f) /\ (~s => Untainted(f))
  BY DEF Sound
<1>2. f.scopes \in Seq(Scopes) /\ f.scopes # <<>> /\ Len(f.scopes) \in DOMAIN f.scopes
  BY <1>1 DEF Rooted, Frames
<1>3. h = [f EXCEPT !.scopes = grown, !.controls = live]
  BY DEF WithScope
<1>4. lo \in Int /\ hi \in Int /\ lo <= hi
  <2>1. f.pc \in Int
    OBVIOUS
  <2>2. lo \in {f.pc, target} /\ hi \in {f.pc, target} /\ lo <= hi
    BY <2>1, Ordered
  <2> QED
    BY <2>1, <2>2
<1>5. cell.op \in STRING /\ cell.body \in Int \X Int
  BY DEF Cells
<1>6. prev \in BOOLEAN
  BY OutputType
<1> HIDE DEF lo, hi
<1>7. new \in Scopes /\ new.istainted = out /\ new.opened = out /\ new.prev = prev
  <2> HIDE DEF prev, cell
  <2> QED
    BY <1>4, <1>5, <1>6 DEF Scopes
<1>8. live \in SUBSET (Int \X Int)
  <2>1. f.controls \in SUBSET (Int \X Int)
    BY <1>1 DEF Frames
  <2>2. f.pc + cell.body[1] \in Int /\ f.pc + cell.body[2] \in Int
    BY <1>5
  <2> QED
    BY <2>1, <2>2
<1>9. prev <=> (f.scopes[Len(f.scopes)].istainted \/ f.scopes[Len(f.scopes)].prev)
  BY DEF ScopeTainted, Scope
<1> HIDE DEF new, live, prev, cell
<1>10. grown = Append(f.scopes, new)
  OBVIOUS
<1> HIDE DEF grown
<1>11. /\ grown \in Seq(Scopes) /\ Len(grown) = Len(f.scopes) + 1 /\ grown[1] = f.scopes[1]
       /\ \A k \in DOMAIN f.scopes : grown[k] = f.scopes[k]
       /\ grown[Len(grown)] = new
       /\ \A k \in DOMAIN grown : FlagAt(grown, k)
  <2> DEFINE scopes == f.scopes
  <2>1. \A k \in DOMAIN scopes : FlagAt(scopes, k)
    BY <1>1 DEF Flagged
  <2>2. new.prev <=> (scopes[Len(scopes)].istainted \/ scopes[Len(scopes)].prev)
    BY <1>7, <1>9
  <2>3. new.istainted <=> new.opened
    BY <1>7
  <2>4. scopes \in Seq(Scopes) /\ scopes # <<>> /\ new \in Scopes /\ grown = Append(scopes, new)
    BY <1>2, <1>7, <1>10
  <2> HIDE DEF scopes
  <2>5. /\ grown \in Seq(Scopes) /\ Len(grown) = Len(scopes) + 1 /\ grown[1] = scopes[1]
        /\ \A k \in DOMAIN scopes : grown[k] = scopes[k]
        /\ grown[Len(grown)] = new
    BY <2>1, <2>2, <2>3, <2>4, GrownScopes
  <2>6. \A k \in DOMAIN grown : FlagAt(grown, k)
    BY <2>1, <2>2, <2>3, <2>4, GrownScopes
  <2> QED
    BY <2>5, <2>6 DEF scopes
<1>12. /\ h \in Frames(DOMAIN p) /\ h.scopes = grown /\ h.name = f.name /\ h.pc = f.pc
       /\ h.stack = f.stack /\ h.mark = f.mark /\ h.rval = f.rval /\ h.output = f.output
       /\ h.saved = f.saved /\ h.slots = f.slots
  BY <1>1, <1>3, <1>8, <1>11 DEF Frames
<1>13. Rooted(h) /\ Flagged(h)
  <2>1. grown # <<>>
    BY <1>2, <1>11
  <2> QED
    BY <1>1, <1>11, <1>12, <2>1 DEF Rooted, Flagged
<1>14. ASSUME ~s PROVE Untainted(h)
  <2>1. Untainted(f) /\ ~out /\ ~prev
    BY <1>1, <1>2, <1>9, <1>14 DEF Untainted
  <2>2. \A k \in DOMAIN grown : k \in DOMAIN f.scopes \/ k = Len(grown)
    BY <1>2, <1>11
  <2>3. \A k \in DOMAIN grown : ~grown[k].istainted /\ ~grown[k].prev
    BY <1>7, <1>11, <2>1, <2>2 DEF Untainted
  <2> QED
    BY <1>12, <2>1, <2>3 DEF Untainted
<1> QED
  BY <1>11, <1>12, <1>13, <1>14 DEF Sound

LEMMA ForVarStep == Inv /\ ForVar => Inv'
<1> SUFFICES ASSUME Inv, ForVar PROVE Inv'
  OBVIOUS
<1> DEFINE f == Fetched(Top)
           ops == {"forvar"}
           a == CodeOf(program, f)[f.pc].arg
           o == Operand(f, 1)
           out == Output(f, {o})
           secret == Depends(f, {o})
           v == Value(FALSE, secret)
           w == Value(out, secret)
<1>1. Executing(ops) /\ Unchanged
  BY DEF ForVar
<1>2. /\ f \in Frames(DOMAIN program) /\ Sound(program, source, f)
      /\ Balanced(CodeOf(program, f), ShapeOf(program, f), f.pc)
      /\ Linked(program, CodeOf(program, f), ShapeOf(program, f), f.pc)
      /\ Code(f) = CodeOf(program, f) /\ CodeOf(program, f)[f.pc].op \in ops
  BY <1>1, RunningFrame DEF Sound
<1>3. /\ Goes(ShapeOf(program, f), f.pc, f.pc + JumpLength, 0, 1) /\ JumpLength \in Int
      /\ a \in Slots /\ Len(ShapeOf(program, f)[f.pc]) > 0
  BY <1>2 DEF Balanced, Linked, JumpLength
<1>4. o.tainted \in BOOLEAN /\ (~source => o.tainted = FALSE)
  <2>1. ShapeOf(program, f)[f.pc] \in Seq(SUBSET DOMAIN CodeOf(program, f))
    BY <1>1, RunningFrame
  <2>2. 1 <= Len(ShapeOf(program, f)[f.pc])
    BY <1>3, <2>1
  <2> QED
    BY <1>1, <2>2, Used
<1>5. v \in Values /\ w \in Values /\ out \in BOOLEAN /\ v.tainted = FALSE /\ w.tainted = out
  BY ValueType, OutputType DEF Value
<1>6. PICK more \in BOOLEAN :
        LET g == IF more THEN [f EXCEPT !.slots[a] = w] ELSE f
        IN  Advance(Pushed(g, g.stack, v, out), JumpLength)
  BY <1>2 DEF ForVar
<1> DEFINE h == IF more THEN [f EXCEPT !.slots[a] = w] ELSE f
<1>7. Advance(Pushed(h, h.stack, v, out), JumpLength)
  BY <1>6
<1> HIDE DEF o
<1>8. ASSUME ~source PROVE out = FALSE
  BY <1>1, <1>4, <1>8, PlainOutput
<1> HIDE DEF f, v, w, out, a
<1>9. /\ h \in Frames(DOMAIN program) /\ h.scopes = f.scopes /\ h.name = f.name /\ h.pc = f.pc
      /\ h.stack = f.stack /\ h.mark = f.mark /\ h.output = f.output /\ h.rval = f.rval
      /\ h.saved = f.saved /\ h.slots = IF more THEN [f.slots EXCEPT ![a] = w] ELSE f.slots
  BY <1>2, <1>3, <1>5 DEF Frames
<1> HIDE DEF h
<1>10. Sound(program, source, h)
  <2>1. ~source => Untainted(f)
    BY <1>2 DEF Sound
  <2>2. f.slots \in [Slots -> Values]
    BY <1>2 DEF Frames
  <2>3. \A x \in Slots : h.slots[x] = IF more /\ x = a THEN w ELSE f.slots[x]
    BY <1>9, <2>2
  <2>4. ~source => \A x \in Slots : ~h.slots[x].tainted
    BY <1>5, <1>8, <2>1, <2>3 DEF Untainted
  <2> QED
    BY <1>2, <1>9, <2>1, <2>4, SameScopes DEF Untainted
<1> DEFINE n == 0
<1>11. Running(PushedNext(h, n, v, out, JumpLength))
  <2>1. Drop(h, n) = h.stack
    BY <1>9, DropNone
  <2> QED
    BY <1>7, <2>1 DEF PushedNext, Advance
<1>12. /\ n \in Nat /\ Goes(ShapeOf(program, f), f.pc, f.pc + JumpLength, n, 1)
       /\ CodeOf(program, f)[f.pc].op \notin {"setsp", "gosub"}
  BY <1>2, <1>3
<1> HIDE DEF n
<1> QED
  BY <1>1, <1>3, <1>5, <1>8, <1>9, <1>10, <1>11, <1>12, ChangedPushes DEF f

LEMMA IfEqEndType ==
    ASSUME NEW code, code \in Seq(Cells), NEW pc, pc \in Int, code[pc] \in Cells,
           pc + code[pc].jump - JumpLength \in DOMAIN code
    PROVE  IfEqEnd(code, pc) \in Int
<1> DEFINE target == pc + code[pc].jump
           before == code[target - JumpLength]
<1>1. target \in Int /\ before \in Cells
  <2>1. code[pc].jump \in Int
    BY DEF Cells
  <2>2. target \in Int
    BY <2>1
  <2>3. target - JumpLength \in DOMAIN code
    BY <2>1 DEF JumpLength
  <2> DEFINE i == target - JumpLength
  <2>4. i \in DOMAIN code
    BY <2>3
  <2> HIDE DEF i
  <2>5. code[i] \in Cells
    BY <2>4
  <2> QED
    BY <2>2, <2>5 DEF i
<1>2. before.jump \in Int
  BY <1>1 DEF Cells
<1>3. target + before.jump \in Int
  BY <1>1, <1>2
<1>4. IfEqEnd(code, pc) = target + before.jump \/ IfEqEnd(code, pc) = target
  BY DEF IfEqEnd
<1> QED
  BY <1>1, <1>3, <1>4

LEMMA ScopeEndType ==
    ASSUME NEW ops, Inv, Executing(ops), NEW f, f = Fetched(Top)
    PROVE  ScopeEnd(Code(f), f.pc) \in Int
<1> DEFINE code == CodeOf(program, f)
           c == code[f.pc]
<1>1. /\ Code(f) = code /\ c \in Cells /\ f.pc \in Nat /\ program \in Programs
      /\ f.name \in DOMAIN program /\ Balanced(code, ShapeOf(program, f), f.pc)
  BY RunningFrame
<1>2. WellFormed(program, code, ShapeOf(program, f))
  BY <1>1, CodeIsBalanced
<1>3. code \in Seq(Cells) /\ c.jump \in Int /\ c.note \in Int
  BY <1>1, <1>2 DEF WellFormed, Cells
<1>4. ASSUME c.op = "ifeq" PROVE IfEqEnd(code, f.pc) \in Int
  <2>1. f.pc + c.jump - JumpLength \in DOMAIN code
    BY <1>1, <1>4 DEF Balanced
  <2> HIDE DEF code
  <2>2. f.pc \in Int /\ code[f.pc] \in Cells
    BY <1>1
  <2> QED
    BY <1>3, <2>1, <2>2, IfEqEndType
<1>5. ScopeEnd(code, f.pc) = CASE c.op = "ifeq" -> IfEqEnd(code, f.pc)
                               [] c.op \in {"ifne", "or", "and"} -> f.pc + c.jump
                               [] OTHER -> f.pc + c.note
  BY DEF ScopeEnd
<1> HIDE DEF c, code
<1>6. f.pc + c.jump \in Int /\ f.pc + c.note \in Int
  BY <1>1, <1>3
<1> QED
  BY <1>1, <1>4, <1>5, <1>6

\* The scope that an instruction opens over its statement.
LEMMA InstructionOpens ==
    ASSUME NEW ops, Inv, Executing(ops), NEW f, f = Fetched(Top),
           NEW out, out \in BOOLEAN, ~source => ~out, NEW secret,
           NEW h, h = WithScope(f, ScopeEnd(Code(f), f.pc), out, secret)
    PROVE  /\ Sound(program, source, h) /\ h \in Frames(DOMAIN program)
           /\ h.name = f.name /\ h.pc = f.pc /\ h.stack = f.stack
           /\ h.mark = f.mark /\ Drop(h, 0) = f.stack
           /\ \A n : Drop(h, n) = Drop(f, n)
<1> DEFINE target == ScopeEnd(Code(f), f.pc)
<1>1. /\ program \in Programs /\ Sound(program, source, f) /\ f.pc \in Nat
      /\ Code(f)[f.pc] \in Cells /\ Ready(program, f)
  BY RunningFrame
<1>2. target \in Int
  BY ScopeEndType
<1>3. h = WithScope(f, target, out, secret)
  OBVIOUS
<1> HIDE DEF target
<1>4. Sound(program, source, h)
  BY <1>1, <1>2, <1>3, WithScopeSound
<1>5. h.name = f.name /\ h.pc = f.pc /\ h.stack = f.stack /\ h.mark = f.mark
  BY <1>1, <1>2, <1>3, WithScopeSound
<1>6. \A n : Drop(h, n) = Drop(f, n)
  BY <1>1, <1>5, ChangedReady
<1>7. h \in Frames(DOMAIN program)
  BY <1>4 DEF Sound
<1>8. Drop(h, 0) = h.stack
  BY <1>7, DropNone
<1> QED
  BY <1>4, <1>5, <1>6, <1>7, <1>8

LEMMA BranchStep == Inv /\ Branch => Inv'
<1> SUFFICES ASSUME Inv, Branch PROVE Inv'
  OBVIOUS
<1> DEFINE f == Fetched(Top)
           ops == {"ifeq", "ifne", "or", "and"}
           c == CodeOf(program, f)[f.pc]
           o == Operand(f, 1)
           out == Output(f, {o})
           secret == Depends(f, {o})
           v == Value(o.tainted, secret)
           h == WithScope(f, ScopeEnd(Code(f), f.pc), out, secret)
           g == [h EXCEPT !.stack = Drop(f, 1), !.output = out]
<1>1. Executing(ops) /\ Unchanged
  BY DEF Branch
<1>2. /\ Balanced(CodeOf(program, f), ShapeOf(program, f), f.pc)
      /\ Code(f) = CodeOf(program, f) /\ c.op \in ops /\ c \in Cells
  BY <1>1, RunningFrame
<1>3. Goes(ShapeOf(program, f), f.pc, f.pc + JumpLength, 1, 0) /\ JumpLength \in Int /\ c.jump \in Int
  BY <1>2 DEF Balanced, JumpLength, Cells
<1>4. o.tainted \in BOOLEAN /\ (~source => o.tainted = FALSE)
  <2>1. 1 <= Len(ShapeOf(program, f)[f.pc])
    BY <1>1, <1>3, GoesType
  <2> QED
    BY <1>1, <2>1, Used
<1>5. v \in Values /\ out \in BOOLEAN /\ v.tainted = o.tainted
  BY <1>4, ValueType, OutputType DEF Value
<1>6. PICK jumps \in BOOLEAN :
        CASE ~jumps -> Advance(g, JumpLength)
          [] jumps /\ c.op \in {"ifeq", "ifne"} -> Advance(g, c.jump)
          [] OTHER -> Advance(Pushed(g, g.stack, v, out), c.jump)
  BY <1>2 DEF Branch
<1> HIDE DEF o
<1>7. ASSUME ~source PROVE ~out /\ ~v.tainted
  BY <1>1, <1>4, <1>5, <1>7, PlainOutput
<1>8. /\ Sound(program, source, h) /\ h \in Frames(DOMAIN program)
      /\ h.name = f.name /\ h.pc = f.pc /\ h.stack = f.stack
      /\ h.mark = f.mark /\ Drop(h, 1) = Drop(f, 1)
  <2> HIDE DEF f, out, secret, h
  <2> QED
    BY <1>1, <1>5, <1>7, InstructionOpens DEF f, h
<1>9. CodeOf(program, f)[f.pc].op \notin {"setsp", "gosub"}
  BY <1>2
<1> HIDE DEF h, f, v, out, c
<1>10. CASE ~jumps \/ c.op \in {"ifeq", "ifne"}
  <2> DEFINE k == IF jumps THEN c.jump ELSE JumpLength
  <2>1. Goes(ShapeOf(program, f), f.pc, f.pc + k, 1, 0) /\ k \in Int
    BY <1>2, <1>3, <1>10 DEF Balanced, c
  <2>2. Advance(g, k)
    BY <1>6, <1>10
  <2> HIDE DEF k
  <2>3. [g EXCEPT !.pc = @ + k] = PoppedNext(h, 1, out, k)
    BY <1>8 DEF PoppedNext, Frames
  <2>4. Running(PoppedNext(h, 1, out, k))
    BY <2>2, <2>3 DEF Advance
  <2> QED
    BY <1>1, <1>5, <1>7, <1>8, <1>9, <2>1, <2>4, ChangedLeaves DEF f
<1>11. CASE jumps /\ c.op \notin {"ifeq", "ifne"}
  <2> DEFINE k == c.jump
  <2>1. Goes(ShapeOf(program, f), f.pc, f.pc + k, 1, 1) /\ k \in Int
    BY <1>2, <1>3, <1>11 DEF Balanced, c
  <2>2. Advance(Pushed(g, g.stack, v, out), k)
    BY <1>6, <1>11
  <2> HIDE DEF k
  <2>3. [Pushed(g, g.stack, v, out) EXCEPT !.pc = @ + k] = PushedNext(h, 1, v, out, k)
    <3>1. g.stack = Drop(h, 1) /\ g.mark = h.mark
      BY <1>8 DEF Frames
    <3>2. \A i : Mark(g, i, out) = Mark(h, i, out)
      BY <3>1 DEF Mark
    <3>3. Pushed(g, Drop(h, 1), v, out) = Pushed(h, Drop(h, 1), v, out)
      BY <1>8, <3>1, <3>2 DEF Pushed, Frames
    <3> QED
      BY <3>1, <3>3 DEF PushedNext
  <2>4. Running(PushedNext(h, 1, v, out, k))
    BY <2>2, <2>3 DEF Advance
  <2> QED
    BY <1>1, <1>5, <1>7, <1>8, <1>9, <2>1, <2>4, ChangedPushes DEF f
<1> QED
  BY <1>10, <1>11

LEMMA SwitchBeginsStep == Inv /\ SwitchBegins => Inv'
<1> SUFFICES ASSUME Inv, SwitchBegins PROVE Inv'
  OBVIOUS
<1> DEFINE f == Fetched(Top)
           ops == {"condswitch"}
           k == 1
           n == 0
           o == Operand(f, 1)
           out == Output(f, {o})
           secret == Depends(f, {o})
           h == WithScope(f, ScopeEnd(Code(f), f.pc), out, secret)
<1>1. Executing(ops) /\ Unchanged /\ Advance([h EXCEPT !.output = out], k)
  BY DEF SwitchBegins
<1>2. /\ Balanced(CodeOf(program, f), ShapeOf(program, f), f.pc)
      /\ CodeOf(program, f)[f.pc].op \in ops
      /\ ShapeOf(program, f)[f.pc] \in Seq(SUBSET DOMAIN CodeOf(program, f))
  BY <1>1, RunningFrame
<1>3. /\ Goes(ShapeOf(program, f), f.pc, f.pc + k, n, 0) /\ k \in Int /\ n \in Nat
      /\ 1 <= Len(ShapeOf(program, f)[f.pc])
  BY <1>2 DEF Balanced
<1>4. o.tainted \in BOOLEAN /\ (~source => o.tainted = FALSE)
  BY <1>1, <1>3, Used
<1>5. out \in BOOLEAN
  BY OutputType
<1> HIDE DEF o
<1>6. ASSUME ~source PROVE ~out
  BY <1>1, <1>4, <1>6, PlainOutput
<1>7. /\ Sound(program, source, h) /\ h \in Frames(DOMAIN program)
      /\ h.name = f.name /\ h.pc = f.pc /\ h.stack = f.stack /\ Drop(h, 0) = h.stack
  <2> HIDE DEF f, out, secret, h
  <2> QED
    BY <1>1, <1>5, <1>6, InstructionOpens DEF f, h
<1>8. CodeOf(program, f)[f.pc].op # "setsp"
  BY <1>2
<1> HIDE DEF h, f, out
<1>9. Running(PoppedNext(h, n, out, k))
  <2>1. [[h EXCEPT !.output = out] EXCEPT !.pc = @ + k] = PoppedNext(h, n, out, k)
    BY <1>7 DEF PoppedNext, Frames
  <2> QED
    BY <1>1, <2>1 DEF Advance
<1> HIDE DEF n, k
<1> QED
  BY <1>1, <1>3, <1>5, <1>6, <1>7, <1>8, <1>9, ChangedLeaves DEF f

LEMMA SwitchJumpsStep == Inv /\ SwitchJumps => Inv'
<1> SUFFICES ASSUME Inv, SwitchJumps PROVE Inv'
  OBVIOUS
<1> DEFINE f == Fetched(Top)
           ops == {"tableswitch", "lookupswitch"}
           o == Operand(f, 1)
           out == Output(f, {o})
           secret == Depends(f, {o})
           h == WithScope(f, ScopeEnd(Code(f), f.pc), out, secret)
<1>1. Executing(ops) /\ Unchanged
  BY DEF SwitchJumps
<1>2. /\ Balanced(CodeOf(program, f), ShapeOf(program, f), f.pc)
      /\ CodeOf(program, f)[f.pc].op \in ops /\ CodeOf(program, f)[f.pc] \in Cells
      /\ ShapeOf(program, f)[f.pc] \in Seq(SUBSET DOMAIN CodeOf(program, f))
      /\ Code(f) = CodeOf(program, f)
  BY <1>1, RunningFrame
<1>3. PICK k \in CodeOf(program, f)[f.pc].cases :
          Advance([h EXCEPT !.stack = Drop(f, 1), !.output = out], k)
  BY <1>2 DEF SwitchJumps
<1>4. /\ Goes(ShapeOf(program, f), f.pc, f.pc + k, 1, 0) /\ k \in Int
      /\ 1 <= Len(ShapeOf(program, f)[f.pc])
  BY <1>2 DEF Balanced, Cells
<1>5. o.tainted \in BOOLEAN /\ (~source => o.tainted = FALSE)
  BY <1>1, <1>4, Used
<1>6. out \in BOOLEAN
  BY OutputType
<1> HIDE DEF o
<1>7. ASSUME ~source PROVE ~out
  BY <1>1, <1>5, <1>7, PlainOutput
<1>8. /\ Sound(program, source, h) /\ h \in Frames(DOMAIN program)
      /\ h.name = f.name /\ h.pc = f.pc /\ h.stack = f.stack /\ Drop(h, 1) = Drop(f, 1)
  <2> HIDE DEF f, out, secret, h
  <2> QED
    BY <1>1, <1>6, <1>7, InstructionOpens DEF f, h
<1>9. CodeOf(program, f)[f.pc].op # "setsp"
  BY <1>2
<1> HIDE DEF h, f, out
<1>10. Running(PoppedNext(h, 1, out, k))
  <2>1. [[h EXCEPT !.stack = Drop(f, 1), !.output = out] EXCEPT !.pc = @ + k]
          = PoppedNext(h, 1, out, k)
    BY <1>8 DEF PoppedNext, Frames
  <2> QED
    BY <1>3, <2>1 DEF Advance
<1> QED
  BY <1>1, <1>4, <1>6, <1>7, <1>8, <1>9, <1>10, ChangedLeaves DEF f

LEMMA EnterWithStep == Inv /\ EnterWith => Inv'
<1> SUFFICES ASSUME Inv, EnterWith PROVE Inv'
  OBVIOUS
<1> DEFINE f == Fetched(Top)
           ops == {"enterwith"}
           k == 1
           o == Operand(f, 1)
           out == Output(f, {o})
           secret == Depends(f, {o})
           v == Value(FALSE, secret)
           h == WithScope(f, ScopeEnd(Code(f), f.pc), out, secret)
<1>1. Executing(ops) /\ Unchanged /\ Advance(Pushed(h, Drop(f, 1), v, out), k)
  BY DEF EnterWith
<1>2. /\ Balanced(CodeOf(program, f), ShapeOf(program, f), f.pc)
      /\ CodeOf(program, f)[f.pc].op \in ops
      /\ ShapeOf(program, f)[f.pc] \in Seq(SUBSET DOMAIN CodeOf(program, f))
  BY <1>1, RunningFrame
<1>3. Goes(ShapeOf(program, f), f.pc, f.pc + k, 1, 1) /\ k \in Int
  BY <1>2 DEF Balanced
<1>4. o.tainted \in BOOLEAN /\ (~source => o.tainted = FALSE)
  <2>1. 1 <= Len(ShapeOf(program, f)[f.pc])
    BY <1>1, <1>3, GoesType
  <2> QED
    BY <1>1, <2>1, Used
<1>5. v \in Values /\ out \in BOOLEAN /\ v.tainted = FALSE
  BY ValueType, OutputType DEF Value
<1> HIDE DEF o
<1>6. ASSUME ~source PROVE ~out /\ ~v.tainted
  BY <1>1, <1>4, <1>5, <1>6, PlainOutput
<1>7. /\ Sound(program, source, h) /\ h \in Frames(DOMAIN program)
      /\ h.name = f.name /\ h.pc = f.pc /\ h.stack = f.stack /\ Drop(h, 1) = Drop(f, 1)
  <2>1. ~source => ~out
    BY <1>6
  <2> HIDE DEF f, out, secret, h, v
  <2> QED
    BY <1>1, <1>5, <2>1, InstructionOpens DEF f, h
<1>8. CodeOf(program, f)[f.pc].op \notin {"setsp", "gosub"}
  BY <1>2
<1> HIDE DEF h, f, out, v
<1>9. Running(PushedNext(h, 1, v, out, k))
  BY <1>1, <1>7 DEF PushedNext, Advance
<1> HIDE DEF k
<1> QED
  BY <1>1, <1>3, <1>5, <1>6, <1>7, <1>8, <1>9, ChangedPushes DEF f

LEMMA CaseStep == Inv /\ Case => Inv'
<1> SUFFICES ASSUME Inv, Case PROVE Inv'
  OBVIOUS
<1> DEFINE f == Fetched(Top)
           ops == {"case"}
           c == CodeOf(program, f)[f.pc]
           a == Operand(f, 1)
           b == Operand(f, 2)
           out == Output(f, {a, b})
           secret == Depends(f, {a, b})
           v == Value(FALSE, Depends(f, {b}))
           rest == Drop(f, 2)
           switches == {i \in DOMAIN f.scopes : f.scopes[i].op = "condswitch"}
           target == f.scopes[Max(switches)].to
           g == IF out /\ switches # {} THEN WithScope(f, target, out, secret) ELSE f
           mark == IF Len(rest) < g.mark THEN NoMark ELSE g.mark
           h == [g EXCEPT !.stack = rest, !.output = out, !.mark = mark]
           m == [g EXCEPT !.mark = mark]
<1>1. Executing(ops) /\ Unchanged
  BY DEF Case
<1>2. /\ Balanced(CodeOf(program, f), ShapeOf(program, f), f.pc) /\ Sound(program, source, f)
      /\ Code(f) = CodeOf(program, f) /\ c.op \in ops /\ c \in Cells /\ f.pc \in Nat
  BY <1>1, RunningFrame
<1>3. /\ Goes(ShapeOf(program, f), f.pc, f.pc + c.jump, 2, 0) /\ c.jump \in Int
      /\ Goes(ShapeOf(program, f), f.pc, f.pc + JumpLength, 2, 1) /\ JumpLength \in Int
  BY <1>2 DEF Balanced, JumpLength, Cells
<1>4. ~source => a.tainted = FALSE /\ b.tainted = FALSE
  <2>1. 2 <= Len(ShapeOf(program, f)[f.pc])
    BY <1>1, <1>3, GoesType
  <2> QED
    BY <1>1, <2>1, Used
<1>5. v \in Values /\ out \in BOOLEAN /\ v.tainted = FALSE
  BY ValueType, OutputType DEF Value
<1>6. PICK jumps \in BOOLEAN :
        IF jumps THEN Advance(h, c.jump)
        ELSE Advance([h EXCEPT !.stack = Append(rest, v), !.mark = Mark(h, Len(rest) + 1, out)],
                     JumpLength)
  BY <1>2 DEF Case
<1> HIDE DEF a, b
<1>7. ASSUME ~source PROVE ~out /\ ~v.tainted
  BY <1>1, <1>4, <1>5, <1>7, PlainOutput
<1>8. Sound(program, source, g) /\ g.name = f.name /\ g.pc = f.pc /\ g.stack = f.stack
  <2>1. CASE ~(out /\ switches # {})
    BY <1>2, <2>1
  <2>2. CASE out /\ switches # {}
    <3>1. f.scopes \in Seq(Scopes)
      BY <1>2 DEF Sound, Frames
    <3>2. switches \in SUBSET (1..Len(f.scopes)) /\ Len(f.scopes) \in Nat
      BY <3>1
    <3> DEFINE last == Max(switches)
    <3>3. last \in 1..Len(f.scopes)
      BY <2>2, <3>2, Greatest
    <3> HIDE DEF last
    <3>4. f.scopes[last] \in Scopes
      BY <3>1, <3>3
    <3>5. target \in Int
      BY <3>4 DEF Scopes, last
    <3> HIDE DEF f, out, switches, target, secret
    <3>6. g = WithScope(f, target, out, secret)
      BY <2>2
    <3>7. Code(f)[f.pc] \in Cells /\ (~source => ~out)
      BY <1>2, <1>7 DEF c
    <3> HIDE DEF g
    <3>8. Sound(program, source, g)
      BY <1>2, <1>5, <3>5, <3>6, <3>7, WithScopeSound
    <3>9. g.name = f.name /\ g.pc = f.pc /\ g.stack = f.stack
      BY <1>2, <3>6 DEF WithScope, Sound, Frames
    <3> QED
      BY <3>8, <3>9
  <2> QED
    BY <2>1, <2>2
<1> HIDE DEF g
<1>9. g \in Frames(DOMAIN program) /\ g.mark \in Nat
  BY <1>8 DEF Sound, Frames
<1>10. mark \in Nat /\ (g.mark = NoMark => mark = NoMark)
  BY <1>9 DEF NoMark
<1>11. Drop(g, 2) = rest
  BY <1>8 DEF Drop
<1> HIDE DEF mark, rest, f, out, v, c
<1>12. /\ m \in Frames(DOMAIN program) /\ m.scopes = g.scopes /\ m.name = g.name /\ m.pc = g.pc
       /\ m.stack = g.stack /\ m.mark = mark /\ m.output = g.output /\ m.rval = g.rval
       /\ m.saved = g.saved /\ m.slots = g.slots
  BY <1>9, <1>10 DEF Frames
<1>13. Sound(program, source, m)
  <2>1. ~source => Untainted(g)
    BY <1>8 DEF Sound
  <2> HIDE DEF m
  <2> QED
    BY <1>8, <1>10, <1>12, <2>1, SameScopes DEF Untainted
<1>14. CodeOf(program, f)[f.pc].op \notin {"setsp", "gosub"}
  BY <1>2 DEF c
<1>15. Drop(m, 2) = rest
  BY <1>11, <1>12 DEF Drop
<1>16. CASE jumps
  <2> DEFINE k == c.jump
  <2>1. k \in Int /\ Goes(ShapeOf(program, f), f.pc, f.pc + k, 2, 0)
    BY <1>3
  <2>2. Advance(h, k)
    BY <1>6, <1>16
  <2> HIDE DEF k
  <2>3. [h EXCEPT !.pc = @ + k] = PoppedNext(m, 2, out, k)
    BY <1>9, <1>15 DEF PoppedNext, Frames
  <2>4. Running(PoppedNext(m, 2, out, k))
    BY <2>2, <2>3 DEF Advance
  <2> HIDE DEF m, h
  <2> QED
    BY <1>1, <1>5, <1>7, <1>8, <1>12, <1>13, <1>14, <2>1, <2>4, ChangedLeaves DEF f
<1>17. CASE ~jumps
  <2>1. Advance([h EXCEPT !.stack = Append(rest, v), !.mark = Mark(h, Len(rest) + 1, out)],
                JumpLength)
    BY <1>6, <1>17
  <2>2. h.mark = mark
    BY <1>9 DEF Frames
  <2>3. Mark(h, Len(rest) + 1, out) = Mark(m, Len(rest) + 1, out)
    BY <1>12, <2>2 DEF Mark
  <2> DEFINE i == Mark(m, Len(rest) + 1, out)
             t == Append(rest, v)
  <2>4. PushedNext(m, 2, v, out, JumpLength)
          = [[m EXCEPT !.stack = t, !.mark = i, !.output = out] EXCEPT !.pc = @ + JumpLength]
    BY <1>15 DEF PushedNext, Pushed
  <2>5. Advance([h EXCEPT !.stack = t, !.mark = i], JumpLength)
    BY <2>1, <2>3
  <2> HIDE DEF i, t
  <2>6. [[h EXCEPT !.stack = t, !.mark = i] EXCEPT !.pc = @ + JumpLength]
          = [[m EXCEPT !.stack = t, !.mark = i, !.output = out] EXCEPT !.pc = @ + JumpLength]
    BY <1>9 DEF Frames
  <2> HIDE DEF m, h
  <2>7. Running(PushedNext(m, 2, v, out, JumpLength))
    BY <2>4, <2>5, <2>6 DEF Advance
  <2> QED
    BY <1>1, <1>3, <1>5, <1>7, <1>8, <1>12, <1>13, <1>14, <2>7, ChangedPushes DEF f
<1> QED
  BY <1>16, <1>17

\* The flag that NEW leaves the scope with says the same.
LEMMA KeepFlagSound ==
    ASSUME NEW p, NEW s, NEW f, Sound(p, s, f), NEW h, h = KeepFlag(f)
    PROVE  /\ Sound(p, s, h) /\ h.name = f.name /\ h.pc = f.pc /\ h.stack = f.stack
<1> DEFINE n == Len(f.scopes)
           flag == ScopeTainted(f)
           scopes == [f.scopes EXCEPT ![n].istainted = flag]
<1>1. f \in Frames(DOMAIN p) /\ Rooted(f) /\ Flagged(f) /\ (~s => Untainted(f))
  BY DEF Sound
<1>2. /\ f.scopes \in Seq(Scopes) /\ f.scopes # <<>> /\ n \in 1..n /\ n \in Nat
      /\ DOMAIN f.scopes = 1..n
  BY <1>1 DEF Rooted, Frames
<1>3. flag \in BOOLEAN /\ (flag <=> (f.scopes[n].istainted \/ f.scopes[n].prev))
  BY OutputType DEF ScopeTainted, Scope
<1>4. f.scopes[n] \in Scopes
  BY <1>2
<1>5. h = [f EXCEPT !.scopes = scopes]
  BY <1>1 DEF KeepFlag, Frames
<1> HIDE DEF flag
<1> DEFINE last == [f.scopes[n] EXCEPT !.istainted = flag]
<1>6. /\ last \in Scopes /\ last.istainted = flag /\ last.prev = f.scopes[n].prev
      /\ last.opened = f.scopes[n].opened /\ last.op = f.scopes[n].op
  BY <1>3, <1>4 DEF Scopes
<1>7. scopes = [f.scopes EXCEPT ![n] = last]
  OBVIOUS
<1> HIDE DEF last, scopes, n
<1>8. /\ scopes \in Seq(Scopes) /\ DOMAIN scopes = 1..n /\ scopes[n] = last
      /\ \A k \in 1..n : k # n => scopes[k] = f.scopes[k]
  BY <1>2, <1>6, <1>7
<1>9. \A k \in 1..n : scopes[k].prev = f.scopes[k].prev /\ scopes[k].opened = f.scopes[k].opened
                      /\ scopes[k].op = f.scopes[k].op
  BY <1>6, <1>8
<1>10. \A k \in 1..n : (scopes[k].istainted \/ scopes[k].prev)
                         <=> (f.scopes[k].istainted \/ f.scopes[k].prev)
  BY <1>3, <1>6, <1>8
<1>11. ASSUME NEW k \in 1..n PROVE FlagAt(scopes, k)
  <2>1. FlagAt(f.scopes, k) /\ \A j \in 1..k : j \in 1..n
    BY <1>1, <1>2 DEF Flagged
  <2> QED
    BY <1>9, <1>10, <2>1 DEF FlagAt
<1>12. /\ h \in Frames(DOMAIN p) /\ h.scopes = scopes /\ h.name = f.name /\ h.pc = f.pc
       /\ h.stack = f.stack /\ h.mark = f.mark /\ h.rval = f.rval /\ h.output = f.output
       /\ h.saved = f.saved /\ h.slots = f.slots
  BY <1>1, <1>5, <1>8 DEF Frames
<1>13. Rooted(h) /\ Flagged(h)
  <2>1. scopes # <<>> /\ 1 \in 1..n
    BY <1>2, <1>8
  <2> QED
    BY <1>1, <1>8, <1>9, <1>11, <1>12, <2>1 DEF Rooted, Flagged
<1>14. ASSUME ~s PROVE Untainted(h)
  <2>1. Untainted(f)
    BY <1>1, <1>14
  <2>2. \A k \in 1..n : ~scopes[k].istainted /\ ~scopes[k].prev
    BY <1>2, <1>10, <2>1 DEF Untainted
  <2> QED
    BY <1>8, <1>12, <2>1, <2>2 DEF Untainted
<1> QED
  BY <1>12, <1>13, <1>14 DEF Sound

LEMMA NewInitStep == Inv /\ NewInit => Inv'
<1> SUFFICES ASSUME Inv, NewInit PROVE Inv'
  OBVIOUS
<1> DEFINE f == Fetched(Top)
           ops == {"newinit"}
           k == 1
           a == Operand(f, 2)
           out == Output(f, {a})
           v == Value(out, Controlled(f))
           h == KeepFlag(f)
<1>1. Executing(ops) /\ Unchanged /\ Advance([h EXCEPT !.stack = Append(Drop(f, 2), v), !.output = out], k)
  BY DEF NewInit
<1>2. /\ Balanced(CodeOf(program, f), ShapeOf(program, f), f.pc) /\ Sound(program, source, f)
      /\ CodeOf(program, f)[f.pc].op \in ops
  BY <1>1, RunningFrame
<1>3. Goes(ShapeOf(program, f), f.pc, f.pc + k, 2, 1) /\ k \in Int
  BY <1>2 DEF Balanced
<1>4. ~source => a.tainted = FALSE
  <2>1. 2 <= Len(ShapeOf(program, f)[f.pc])
    BY <1>1, <1>3, GoesType
  <2> QED
    BY <1>1, <2>1, Used
<1>5. v \in Values /\ out \in BOOLEAN /\ v.tainted = out /\ v \in OnStack
  BY ValueType, OutputType DEF Value
<1> HIDE DEF a
<1>6. ASSUME ~source PROVE ~out /\ ~v.tainted
  BY <1>1, <1>4, <1>5, <1>6, PlainOutput
<1> HIDE DEF f, v, out, h, k
<1>7. Sound(program, source, h)
  BY <1>2, KeepFlagSound DEF h
<1>8. h.name = f.name /\ h.pc = f.pc /\ h.stack = f.stack
  BY <1>2, KeepFlagSound DEF h
<1>9. h \in Frames(DOMAIN program) /\ Drop(h, 2) = Drop(f, 2)
  BY <1>7, <1>8 DEF Sound, Drop
<1>10. CodeOf(program, f)[f.pc].op # "setsp"
  BY <1>2
<1>11. PushedBy(CodeOf(program, f), v, {f.pc})
  BY <1>2, <1>5 DEF PushedBy
<1>12. Running(PutNext(h, 2, v, out, k))
  <2>1. [[h EXCEPT !.stack = Append(Drop(f, 2), v), !.output = out] EXCEPT !.pc = @ + k]
          = PutNext(h, 2, v, out, k)
    BY <1>9 DEF PutNext, Put, Frames
  <2> QED
    BY <1>1, <2>1 DEF Advance
<1> QED
  BY <1>1, <1>3, <1>5, <1>6, <1>7, <1>8, <1>10, <1>11, <1>12, ChangedPuts DEF f

-----------------------------------------------------------------------------
\* An instruction that fails leaves the operands of the catch block in place.
LEMMA FailsAfter ==
    ASSUME NEW p \in Programs, NEW s, NEW f, Sound(p, s, f), Ready(p, f),
           f.pc \in DOMAIN CodeOf(p, f),
           NEW n, n \in Nat, n <= Len(ShapeOf(p, f)[f.pc]),
           Catches(CodeOf(p, f), ShapeOf(p, f), f.pc, n),
           NEW g, g.name = f.name, g.pc = f.pc, Len(g.stack) \in Nat,
           Len(g.stack) >= Len(f.stack) - n,
           \A j \in 1..Len(f.stack) - n : g.stack[j] = f.stack[j]
    PROVE  Fails(p, g)
<1> DEFINE code == CodeOf(p, f)
           shape == ShapeOf(p, f)
           here == shape[f.pc]
           to == f.pc + code[f.pc].catch
           next == shape[to]
           stack == f.stack
           rest == g.stack
<1>1. /\ f.pc \in DOMAIN shape /\ Fits(code, stack, here) /\ stack \in Seq(OnStack)
      /\ f.name \in DOMAIN p
  BY DEF Ready, Sound, Frames
<1>2. WellFormed(p, code, shape)
  BY <1>1, CodeIsBalanced
<1>3. \A q \in DOMAIN shape : shape[q] \in Seq(SUBSET DOMAIN code)
  BY <1>2 DEF WellFormed
<1>4. CodeOf(p, g) = code /\ ShapeOf(p, g) = shape
  BY DEF CodeOf, ShapeOf
<1>5. ASSUME code[f.pc].catch # 0
      PROVE  /\ to \in DOMAIN shape /\ to \in DOMAIN code /\ code[to].op = "setsp"
             /\ Fits(code, rest, next)
  <2>1. /\ to \in DOMAIN shape /\ to \in DOMAIN code /\ code[to].op = "setsp"
        /\ Len(next) <= Len(here) - n
        /\ \A j \in 1..Len(next) : here[j] \subseteq next[j]
    BY <1>5 DEF Catches
  <2>2. Len(here) \in Nat /\ Len(next) \in Nat /\ Len(stack) \in Nat /\ Len(stack) >= Len(here)
    BY <1>1, <1>3, <2>1 DEF Fits
  <2>3. \A j \in 1..Len(here) : PushedBy(code, stack[j], here[j])
    BY <1>1 DEF Fits
  <2>4. Len(rest) >= Len(next) /\ \A j \in 1..Len(next) : j \in 1..Len(here) /\ j \in 1..Len(stack) - n
    <3>1. Len(rest) \in Nat /\ Len(rest) >= Len(stack) - n
      OBVIOUS
    <3>2. Len(next) <= Len(here) - n
      BY <2>1
    <3> HIDE DEF rest, stack, here, next
    <3> QED
      BY <2>2, <3>1, <3>2
  <2>5. \A j \in 1..Len(next) : rest[j] = stack[j]
    BY <2>4
  <2> HIDE DEF code, shape, here, next, stack, rest, to
  <2>6. \A j \in 1..Len(next) : PushedBy(code, rest[j], next[j])
    BY <2>1, <2>3, <2>4, <2>5 DEF PushedBy
  <2> QED
    BY <2>1, <2>4, <2>6 DEF Fits
<1>6. g.pc = f.pc
  OBVIOUS
<1> QED
  BY <1>4, <1>5, <1>6 DEF Fails

LEMMA ThrowingStep == Inv /\ Throwing => Inv'
<1> SUFFICES ASSUME Inv, Throwing PROVE Inv'
  OBVIOUS
<1> DEFINE f == Fetched(Top)
           ops == {"throw"}
           k == 0
           o == Operand(f, 1)
           out == Output(f, {o})
           v == Value(o.tainted \/ out, Depends(f, {o}))
           g == PoppedNext(f, 1, out, k)
<1>1. /\ Executing(ops) /\ exception' = v /\ throwing' = TRUE
      /\ program' = program /\ source' = source
  BY DEF Throwing
<1>2. /\ Balanced(CodeOf(program, f), ShapeOf(program, f), f.pc) /\ Sound(program, source, f)
      /\ Ready(program, f) /\ program \in Programs /\ f.name = Top.name
      /\ CodeOf(program, f)[f.pc].op \in ops /\ f.pc \in DOMAIN CodeOf(program, f)
      /\ ShapeOf(program, f)[f.pc] \in Seq(SUBSET DOMAIN CodeOf(program, f)) /\ f.pc \in Nat
  BY <1>1, RunningFrame
<1>3. 1 <= Len(ShapeOf(program, f)[f.pc]) /\ Catches(CodeOf(program, f), ShapeOf(program, f), f.pc, 1)
  BY <1>2 DEF Balanced
<1>4. o.tainted \in BOOLEAN /\ (~source => o.tainted = FALSE)
  BY <1>1, <1>3, Used
<1>5. v \in Values /\ out \in BOOLEAN /\ v.tainted = (o.tainted \/ out)
  BY <1>4, ValueType, OutputType DEF Value
<1> HIDE DEF o
<1>6. ASSUME ~source PROVE ~out /\ ~v.tainted
  BY <1>1, <1>4, <1>5, <1>6, PlainOutput
<1>7. f \in Frames(DOMAIN program) /\ f.pc + k \in Nat /\ f.pc + k = f.pc
  BY <1>2 DEF Sound
<1> HIDE DEF k, f, out, v
<1>8. Running(g)
  <2>1. Running([f EXCEPT !.stack = Drop(f, 1), !.output = out])
    BY DEF Throwing, f, out, o
  <2>2. [f EXCEPT !.stack = Drop(f, 1), !.output = out] = g
    BY <1>7 DEF PoppedNext, Frames
  <2> QED
    BY <2>1, <2>2
<1>9. Sound(program, source, g)
  BY <1>2, <1>3, <1>5, <1>6, <1>7, PoppedSound
<1>10. g.name = f.name /\ g.pc = f.pc /\ g.stack = Drop(f, 1)
  BY <1>7 DEF PoppedNext, Frames
<1> HIDE DEF g
<1>11. Fails(program, g)
  <2> DEFINE n == 1
  <2>1. /\ n <= Len(ShapeOf(program, f)[f.pc]) /\ n \in Nat /\ g.stack = Drop(f, n)
        /\ Catches(CodeOf(program, f), ShapeOf(program, f), f.pc, n)
    BY <1>3, <1>10
  <2> HIDE DEF n
  <2>2. /\ Len(Drop(f, n)) = Len(f.stack) - n /\ Len(f.stack) - n \in Nat
        /\ \A j \in 1..Len(f.stack) - n : Drop(f, n)[j] = f.stack[j]
    BY <1>2, <2>1, OperandType
  <2>3. /\ Len(g.stack) \in Nat /\ Len(g.stack) >= Len(f.stack) - n
        /\ \A j \in 1..Len(f.stack) - n : g.stack[j] = f.stack[j]
    BY <2>1, <2>2
  <2> QED
    BY <1>2, <1>10, <2>1, <2>3, FailsAfter
<1>12. frames \in Seq(Frames(DOMAIN program)) /\ frames # <<>>
  BY <1>1 DEF Executing, Inv, Structure
<1>13. g \in Frames(DOMAIN program) /\ g.name = Top.name
  BY <1>2, <1>9, <1>10 DEF Sound
<1>14. /\ frames' \in Seq(Frames(DOMAIN program)) /\ Len(frames') = Len(frames)
       /\ frames'[Len(frames)] = g /\ \A i \in 1..Len(frames) - 1 : frames'[i] = frames[i]
  BY <1>8, <1>12, <1>13, LastReplaced DEF Running
<1>15. Len(frames) # 0
  BY <1>12
<1> QED
  BY <1>1, <1>5, <1>6, <1>9, <1>11, <1>13, <1>14, <1>15, TopChanges

\* The catch block of the frame, which starts with SETSP.
LEMMA CatchingStep == Inv /\ Catching => Inv'
<1> SUFFICES ASSUME Inv, Catching PROVE Inv'
  OBVIOUS
<1> DEFINE f == Top
           code == CodeOf(program, f)
           k == code[f.pc].catch
           g == [f EXCEPT !.pc = @ + k]
<1>1. /\ throwing /\ k # 0 /\ Advance(f, k) /\ throwing' = FALSE
      /\ program' = program /\ source' = source /\ exception' = exception
  BY DEF Catching, Code, CodeOf, Script
<1>2. /\ program \in Programs /\ frames # <<>> /\ Fails(program, f) /\ exception \in Values
      /\ frames \in Seq(Frames(DOMAIN program)) /\ (~source => ~exception.tainted)
  BY <1>1 DEF Inv, Structure, Plainness
<1>3. Len(frames) \in DOMAIN frames /\ Len(frames) # 0 /\ ~(Len(frames) < Len(frames))
  BY <1>2
<1>4. f \in Frames(DOMAIN program) /\ Rooted(f) /\ Flagged(f) /\ (~source => Untainted(f))
  BY <1>2, <1>3 DEF Inv, Structure, Flags, Plainness, Top
<1>5. /\ f.pc + k \in DOMAIN ShapeOf(program, f) /\ f.pc + k \in DOMAIN code
      /\ code[f.pc + k].op = "setsp" /\ Fits(code, f.stack, ShapeOf(program, f)[f.pc + k])
  BY <1>1, <1>2 DEF Fails
<1>6. f.pc + k \in Nat
  <2>1. WellFormed(program, code, ShapeOf(program, f))
    BY <1>2, <1>4, CodeIsBalanced DEF Frames
  <2>2. code \in Seq(Cells)
    BY <2>1 DEF WellFormed
  <2> QED
    BY <1>5, <2>2
<1> HIDE DEF f, k, code
<1>7. /\ g \in Frames(DOMAIN program) /\ g.name = f.name /\ g.pc = f.pc + k
      /\ g.stack = f.stack /\ g.mark = f.mark /\ g.output = f.output /\ g.rval = f.rval
      /\ g.saved = f.saved /\ g.slots = f.slots /\ g.scopes = f.scopes
  BY <1>4, <1>6 DEF Frames
<1>8. Running(g)
  BY <1>1 DEF Advance
<1> HIDE DEF g
<1>9. Sound(program, source, g)
  BY <1>4, <1>7 DEF Sound, Rooted, Flagged, Untainted
<1>10. CodeOf(program, g) = code /\ ShapeOf(program, g) = ShapeOf(program, f)
  BY <1>7 DEF code, CodeOf, ShapeOf
<1>11. Ready(program, g)
  BY <1>5, <1>7, <1>10 DEF Ready
<1>12. g.name = Top.name
  BY <1>7 DEF f
<1>13. /\ frames' \in Seq(Frames(DOMAIN program)) /\ Len(frames') = Len(frames)
       /\ frames'[Len(frames)] = g /\ \A i \in 1..Len(frames) - 1 : frames'[i] = frames[i]
  BY <1>2, <1>7, <1>8, LastReplaced DEF Running
<1> QED
  BY <1>1, <1>2, <1>3, <1>9, <1>11, <1>12, <1>13, TopChanges

-----------------------------------------------------------------------------
\* The frame of a call, in front of the first instruction of its script.
LEMMA NewFrameSound ==
    ASSUME program \in Programs, NEW f, f \in DOMAIN program, NEW t, t \in BOOLEAN,
           NEW v, v \in Values, NEW controlled, controlled \in BOOLEAN,
           NEW s, ~s => ~t /\ ~v.tainted
    PROVE  /\ Sound(program, s, NewFrame(f, t, v, controlled))
           /\ Ready(program, NewFrame(f, t, v, controlled))
           /\ NewFrame(f, t, v, controlled).name = f
<1> DEFINE e == NewFrame(f, t, v, controlled)
           code == program[f].code
           root == RootScope(t, Script(f))
           slots == [x \in Slots |-> IF x = "arg" THEN v ELSE Plain]
           rval == Value(FALSE, controlled)
<1>1. WellFormed(program, code, Shape(code))
  BY ShapeAssumption
<1>2. Len(code) \in Nat /\ 1 \in DOMAIN Shape(code) /\ Shape(code)[1] = <<>>
  BY <1>1 DEF WellFormed
<1>3. root = [istainted |-> t, prev |-> FALSE, opened |-> t, op |-> "call",
              from |-> 1, to |-> Len(code) + 1]
  BY DEF RootScope, Script
<1> HIDE DEF root
<1>4. /\ root \in Scopes /\ root.op = "call" /\ root.istainted = t /\ root.opened = t
      /\ root.prev = FALSE
  <2> DEFINE to == Len(code) + 1
             op == "call"
             prev == FALSE
  <2>1. to \in Int /\ 1 <= to /\ op \in STRING \cup {"call"} /\ prev \in BOOLEAN
    <3> HIDE DEF code
    <3>1. to \in Int /\ 1 <= to
      BY <1>2
    <3>2. op \in STRING \cup {"call"}
      OBVIOUS
    <3>3. prev \in BOOLEAN
      OBVIOUS
    <3> QED
      BY <3>1, <3>2, <3>3
  <2>2. root = [istainted |-> t, prev |-> prev, opened |-> t, op |-> op, from |-> 1, to |-> to]
    BY <1>3
  <2> HIDE DEF to, op, prev
  <2>3. /\ root \in Scopes /\ root.op = op /\ root.istainted = t /\ root.opened = t
        /\ root.prev = prev
    BY <2>1, <2>2 DEF Scopes
  <2> QED
    BY <2>3 DEF op, prev
<1>5. Plain \in Values /\ ~Plain.tainted /\ rval \in Values /\ ~rval.tainted
  BY DEF Plain, Value, Values
<1>6. slots \in [Slots -> Values]
  BY <1>5
<1>7. \A x \in Slots : slots[x].tainted => v.tainted
  BY <1>5
<1>8. e = [name |-> f, pc |-> 1, stack |-> <<>>, mark |-> NoMark, scopes |-> <<root>>,
           slots |-> slots, rval |-> rval, output |-> FALSE, saved |-> FALSE,
           controls |-> {}, inherited |-> controlled]
  BY DEF NewFrame, root
<1> HIDE DEF e, slots, rval
<1> DEFINE scopes == <<root>>
<1>9. scopes \in Seq(Scopes) /\ DOMAIN scopes = {1} /\ scopes[1] = root /\ scopes # <<>>
  BY <1>4
<1> HIDE DEF scopes
<1>10. /\ e \in Frames(DOMAIN program) /\ e.scopes = scopes /\ e.name = f /\ e.pc = 1
       /\ e.stack = <<>> /\ e.mark = NoMark /\ e.rval = rval /\ e.output = FALSE
       /\ e.saved = FALSE /\ e.slots = slots
  BY <1>5, <1>6, <1>8, <1>9 DEF Frames, scopes, NoMark
<1>11. FlagAt(scopes, 1)
  BY <1>4, <1>9 DEF FlagAt
<1>12. Rooted(e) /\ Flagged(e)
  BY <1>4, <1>9, <1>10, <1>11 DEF Rooted, Flagged
<1>13. ~s => Untainted(e)
  BY <1>4, <1>5, <1>7, <1>9, <1>10 DEF Untainted
<1>14. Ready(program, e)
  <2>1. CodeOf(program, e) = code /\ ShapeOf(program, e) = Shape(code)
    BY <1>10 DEF CodeOf, ShapeOf
  <2> QED
    BY <1>2, <1>10, <2>1 DEF Ready, Fits
<1> QED
  BY <1>10, <1>12, <1>13, <1>14 DEF Sound, e

\* The scope of a caller while js_Invoke runs.
LEMMA LentSound ==
    ASSUME NEW p, NEW s, NEW f, Sound(p, s, f), NEW out, out \in BOOLEAN, ~s => ~out,
           NEW h, h = Lent(f, out)
    PROVE  /\ h \in Frames(DOMAIN p) /\ Rooted(h) /\ FlaggedLent(h) /\ (~s => Untainted(h))
           /\ h.name = f.name /\ h.pc = f.pc /\ h.stack = f.stack
           /\ ScopeTainted(h) \in BOOLEAN /\ (~s => ~ScopeTainted(h))
<1> DEFINE n == Len(f.scopes)
           saved == ScopeTainted(f)
           flag == f.scopes[n].istainted \/ out
           last == [f.scopes[n] EXCEPT !.istainted = flag]
           scopes == [f.scopes EXCEPT ![n] = last]
<1>1. f \in Frames(DOMAIN p) /\ Rooted(f) /\ Flagged(f) /\ (~s => Untainted(f))
  BY DEF Sound
<1>2. /\ f.scopes \in Seq(Scopes) /\ f.scopes # <<>> /\ n \in 1..n /\ n \in Nat
      /\ DOMAIN f.scopes = 1..n
  BY <1>1 DEF Rooted, Frames
<1>3. saved \in BOOLEAN /\ (saved <=> (f.scopes[n].istainted \/ f.scopes[n].prev))
  BY OutputType DEF ScopeTainted, Scope
<1>4. f.scopes[n] \in Scopes /\ flag \in BOOLEAN
  BY <1>2
<1>5. h = [f EXCEPT !.scopes = scopes, !.saved = saved, !.output = out]
  BY DEF Lent
<1> HIDE DEF flag, saved
<1>6. /\ last \in Scopes /\ last.istainted = flag /\ last.prev = f.scopes[n].prev
      /\ last.opened = f.scopes[n].opened /\ last.op = f.scopes[n].op
  BY <1>4 DEF Scopes
<1> HIDE DEF last
<1>7. /\ scopes \in Seq(Scopes) /\ DOMAIN scopes = 1..n /\ scopes[n] = last /\ Len(scopes) = n
      /\ \A k \in 1..n : k # n => scopes[k] = f.scopes[k]
  BY <1>2, <1>6
<1> HIDE DEF scopes, n
<1>8. \A k \in 1..n : /\ scopes[k].prev = f.scopes[k].prev
                      /\ scopes[k].opened = f.scopes[k].opened
                      /\ scopes[k].op = f.scopes[k].op
  BY <1>6, <1>7
<1>9. /\ h \in Frames(DOMAIN p) /\ h.scopes = scopes /\ h.name = f.name /\ h.pc = f.pc
      /\ h.stack = f.stack /\ h.mark = f.mark /\ h.rval = f.rval /\ h.output = out
      /\ h.saved = saved /\ h.slots = f.slots
  BY <1>1, <1>3, <1>5, <1>7 DEF Frames
<1>10. Rooted(h)
  <2>1. scopes # <<>> /\ 1 \in 1..n
    BY <1>2, <1>7
  <2> QED
    BY <1>1, <1>8, <1>9, <2>1 DEF Rooted
<1>11. FlaggedLent(h)
  <2>1. \A k \in 1..n : FlagAt(f.scopes, k) /\ \A j \in 1..k : j \in 1..n
    BY <1>1, <1>2 DEF Flagged
  <2>2. \A k \in 1..n - 1 : k \in 1..n /\ k # n
    BY <1>2
  <2>3. \A k \in 1..n - 1 : FlagAt(scopes, k)
    BY <1>7, <1>8, <2>1, <2>2 DEF FlagAt
  <2>4. (\E j \in 1..n : scopes[j].opened) <=> \E j \in 1..n : f.scopes[j].opened
    BY <1>8
  <2>5. (f.scopes[n].istainted \/ f.scopes[n].prev) <=> \E j \in 1..n : f.scopes[j].opened
    BY <1>2, <2>1 DEF FlagAt
  <2> QED
    BY <1>2, <1>3, <1>7, <1>8, <1>9, <2>3, <2>4, <2>5 DEF FlaggedLent
<1>12. ASSUME ~s PROVE Untainted(h) /\ ~ScopeTainted(h)
  <2>1. Untainted(f) /\ ~saved /\ ~flag
    BY <1>1, <1>2, <1>3, <1>12 DEF Untainted, flag, n
  <2>2. \A k \in 1..n : ~scopes[k].istainted /\ ~scopes[k].prev
    BY <1>2, <1>6, <1>7, <1>8, <2>1 DEF Untainted
  <2>3. Untainted(h)
    BY <1>7, <1>9, <1>12, <2>1, <2>2 DEF Untainted
  <2>4. ~ScopeTainted(h)
    BY <1>2, <1>7, <1>9, <2>2 DEF ScopeTainted, Scope
  <2> QED
    BY <2>3, <2>4
<1> QED
  BY <1>9, <1>10, <1>11, <1>12, OutputType

\* A sequence with another last element and one more.
LEMMA LastReplacedAndOneMore ==
    ASSUME NEW S, NEW s, s \in Seq(S), s # <<>>, NEW x, x \in S, NEW y, y \in S,
           NEW t, t = [s EXCEPT ![Len(s)] = x] \o <<y>>
    PROVE  /\ t \in Seq(S) /\ Len(t) = Len(s) + 1 /\ t[Len(s)] = x /\ t[Len(s) + 1] = y
           /\ \A i \in 1..Len(s) - 1 : t[i] = s[i]
OBVIOUS

\* A step that calls the script of the frame e.
LEMMA FrameCalled ==
    ASSUME Inv, frames # <<>>, ~throwing,
           NEW g, g \in Frames(DOMAIN program), Rooted(g), ~source => Untainted(g),
           g.name = Top.name,
           NEW e, Sound(program, source, e), Ready(program, e), Waits(program, g, e),
           IF Lends(program, g, e) THEN FlaggedLent(g) ELSE Flagged(g),
           frames' = [frames EXCEPT ![Len(frames)] = g] \o <<e>>, Unchanged
    PROVE  Inv'
<1> DEFINE n == Len(frames)
<1>1. /\ program \in Programs /\ source \in BOOLEAN /\ frames \in Seq(Frames(DOMAIN program))
      /\ \A i \in DOMAIN frames : Rooted(frames[i])
      /\ \A i \in 1..n - 1 : Waits(program, frames[i], frames[i + 1])
      /\ exception \in Values /\ throwing \in BOOLEAN
  BY DEF Inv, Structure
<1>2. n \in Nat /\ n >= 1 /\ DOMAIN frames = 1..n /\ Top = frames[n]
  BY <1>1 DEF Top
<1>3. e \in Frames(DOMAIN program) /\ Rooted(e) /\ Flagged(e) /\ (~source => Untainted(e))
  BY DEF Sound
<1>4. /\ frames' \in Seq(Frames(DOMAIN program)) /\ Len(frames') = n + 1 /\ DOMAIN frames' = 1..n + 1
      /\ frames'[n] = g /\ frames'[n + 1] = e
      /\ \A i \in 1..n - 1 : frames'[i] = frames[i]
  <2>1. /\ frames' \in Seq(Frames(DOMAIN program)) /\ Len(frames') = n + 1
        /\ frames'[n] = g /\ frames'[n + 1] = e
        /\ \A i \in 1..n - 1 : frames'[i] = frames[i]
    BY <1>1, <1>3, LastReplacedAndOneMore
  <2> QED
    BY <2>1
<1>5. /\ program' = program /\ source' = source /\ exception' = exception
      /\ throwing' = throwing /\ throwing = FALSE
  BY <1>1 DEF Unchanged
<1> HIDE DEF n
<1>6. \A i \in 1..n + 1 : i = n + 1 \/ i = n \/ (i \in 1..n - 1 /\ i \in 1..n /\ i + 1 \in 1..n)
  BY <1>2
<1>7. \A i \in 1..n : i \in 1..n + 1 /\ (i = n \/ i \in 1..n - 1) /\ frames'[i].name = frames[i].name
  <2>1. \A i \in 1..n : i \in 1..n + 1 /\ (i = n \/ i \in 1..n - 1)
    BY <1>2
  <2> QED
    BY <1>2, <1>4, <2>1
<1>8. ASSUME NEW i \in 1..n - 1
      PROVE  frames'[i] = frames[i] /\ frames'[i + 1].name = frames[i + 1].name
  <2>1. i + 1 \in 1..n
    BY <1>2
  <2> QED
    BY <1>4, <1>7, <2>1
<1>9. Structure'
  <2>1. \A i \in 1..n + 1 : Rooted(frames'[i])
    BY <1>1, <1>2, <1>3, <1>4, <1>6
  <2>2. ASSUME NEW i \in 1..n PROVE Waits(program, frames'[i], frames'[i + 1])
    <3>1. CASE i = n
      BY <1>4, <3>1
    <3>2. CASE i \in 1..n - 1
      <4>1. Waits(program, frames[i], frames[i + 1])
        BY <1>1, <3>2 DEF n
      <4> QED
        BY <1>8, <3>2, <4>1 DEF Waits
    <3> QED
      BY <1>7, <3>1, <3>2
  <2>3. Top' = e
    BY <1>4 DEF Top
  <2>4. Len(frames') - 1 = n
    BY <1>2, <1>4
  <2> QED
    BY <1>1, <1>4, <1>5, <2>1, <2>2, <2>3, <2>4 DEF Structure
<1>10. Flags'
  <2>1. ASSUME NEW i \in 1..n
        PROVE  IF Lends(program, frames'[i], frames'[i + 1])
               THEN FlaggedLent(frames'[i]) ELSE Flagged(frames'[i])
    <3>1. CASE i = n
      BY <1>4, <3>1
    <3>2. CASE i \in 1..n - 1
      <4>1. i \in DOMAIN frames /\ i < Len(frames)
        <5>1. i \in 1..n /\ i < n
          BY <1>2, <3>2
        <5> QED
          BY <1>2, <5>1 DEF n
      <4>2. IF Lends(program, frames[i], frames[i + 1])
            THEN FlaggedLent(frames[i]) ELSE Flagged(frames[i])
        BY <4>1 DEF Inv, Flags
      <4> QED
        BY <1>8, <3>2, <4>2 DEF Lends
    <3> QED
      BY <1>7, <3>1, <3>2
  <2>2. \A i \in 1..n + 1 : i < n + 1 => i \in 1..n
    BY <1>2
  <2>3. \A i \in 1..n + 1 : ~(i < n + 1) => i = n + 1
    BY <1>2
  <2> QED
    BY <1>3, <1>4, <1>5, <2>1, <2>2, <2>3 DEF Flags
<1>11. Plainness'
  BY <1>2, <1>3, <1>4, <1>5, <1>6 DEF Inv, Plainness
<1> QED
  BY <1>9, <1>10, <1>11 DEF Inv

\* What a call finds: the script it names, and its argument.
LEMMA CallFinds ==
    ASSUME NEW ops, ops \subseteq Calls, Inv, Executing(ops), NEW f, f = Fetched(Top)
    PROVE  /\ Code(f)[f.pc].arg \in DOMAIN program /\ Code(f) = CodeOf(program, f)
           /\ frames # <<>> /\ ~throwing /\ program \in Programs
           /\ Sound(program, source, f) /\ f.name = Top.name /\ f \in Frames(DOMAIN program)
           /\ \A g, e : /\ g.name = f.name /\ g.pc = f.pc /\ g.stack = f.stack
                        /\ e.name = Code(f)[f.pc].arg
                        => Waits(program, g, e) /\ CodeOf(program, g) = Code(f)
<1> DEFINE code == CodeOf(program, f)
<1>1. /\ Linked(program, code, ShapeOf(program, f), f.pc) /\ Ready(program, f)
      /\ code[f.pc].op \in ops /\ f.pc \in DOMAIN code /\ Code(f) = code
      /\ Sound(program, source, f) /\ f.name = Top.name /\ program \in Programs
  BY RunningFrame
<1>2. code[f.pc].op \in Calls /\ code[f.pc].arg \in DOMAIN program
  BY <1>1 DEF Linked
<1> HIDE DEF code
<1>3. ASSUME NEW g, NEW e, g.name = f.name, g.pc = f.pc, g.stack = f.stack,
             e.name = Code(f)[f.pc].arg
      PROVE  Waits(program, g, e) /\ CodeOf(program, g) = Code(f)
  <2>1. Ready(program, g)
    BY <1>1, <1>3, ChangedReady
  <2>2. CodeOf(program, g) = code
    BY <1>1, <1>3, ChangedReady DEF code
  <2> QED
    BY <1>1, <1>2, <1>3, <2>1, <2>2 DEF Waits
<1> QED
  BY <1>1, <1>2, <1>3 DEF Sound, Executing, code

LEMMA CallArgument ==
    ASSUME NEW ops, ops \subseteq {"call", "eval"}, Inv, Executing(ops), NEW f, f = Fetched(Top)
    PROVE  Operand(f, 1) \in Values /\ (~source => ~Operand(f, 1).tainted)
<1> DEFINE code == CodeOf(program, f)
           shape == ShapeOf(program, f)
           top == shape[f.pc][Len(shape[f.pc])]
<1>1. Executing(ops)
  OBVIOUS
<1>2. /\ Sound(program, source, f) /\ Ready(program, f) /\ code[f.pc].op \in ops
      /\ Balanced(code, shape, f.pc) /\ Linked(program, code, shape, f.pc)
      /\ shape[f.pc] \in Seq(SUBSET DOMAIN code)
  BY <1>1, RunningFrame
<1>3. Goes(shape, f.pc, f.pc + JumpLength, 3, 1) /\ \A o \in top : code[o].op # "gosub"
  BY <1>2 DEF Balanced, Linked
<1>4. Len(shape[f.pc]) \in Nat /\ Len(shape[f.pc]) >= 3
  <2>1. Len(shape[f.pc]) \in Nat
    BY <1>2
  <2>2. Len(shape[f.pc]) - 3 >= 0
    BY <1>3 DEF Goes
  <2> HIDE DEF shape
  <2> QED
    BY <2>1, <2>2
<1>5. PushedBy(code, f.stack[Len(f.stack)], top)
  <2>1. Len(f.stack) = Len(shape[f.pc]) /\ Fits(code, f.stack, shape[f.pc])
    BY <1>2 DEF Ready
  <2>2. Len(shape[f.pc]) \in 1..Len(shape[f.pc])
    BY <1>4
  <2> QED
    BY <2>1, <2>2 DEF Fits
<1>6. Operand(f, 1) = f.stack[Len(f.stack)]
  <2>1. f.stack \in Seq(OnStack)
    BY <1>2 DEF Sound, Frames
  <2> QED
    BY <2>1 DEF Operand
<1>7. Operand(f, 1) \in Values
  BY <1>3, <1>5, <1>6 DEF PushedBy
<1> DEFINE k == 1
<1>8. k <= Len(shape[f.pc]) /\ k \in 1..k /\ k \in Nat
  BY <1>4
<1> HIDE DEF k
<1>9. ~source => ~Operand(f, k).tainted
  BY <1>1, <1>8, Used
<1> QED
  BY <1>7, <1>9 DEF k

\* The frame of the caller, with the output of the call.
LEMMA CallerSound ==
    ASSUME NEW p, NEW s, NEW f, Sound(p, s, f), NEW out, out \in BOOLEAN, ~s => ~out,
           NEW g, g = [f EXCEPT !.output = out]
    PROVE  /\ Sound(p, s, g) /\ g.name = f.name /\ g.pc = f.pc /\ g.stack = f.stack
           /\ g \in Frames(DOMAIN p) /\ Rooted(g) /\ Flagged(g) /\ (~s => Untainted(g))
           /\ ScopeTainted(g) \in BOOLEAN /\ (~s => ~ScopeTainted(g))
<1>1. f \in Frames(DOMAIN p) /\ (~s => Untainted(f))
  BY DEF Sound
<1>2. /\ g \in Frames(DOMAIN p) /\ g.scopes = f.scopes /\ g.name = f.name /\ g.pc = f.pc
      /\ g.stack = f.stack /\ g.mark = f.mark /\ g.rval = f.rval /\ g.output = out
      /\ g.saved = f.saved /\ g.slots = f.slots
  BY <1>1 DEF Frames
<1>3. Sound(p, s, g)
  BY <1>1, <1>2, SameScopes DEF Untainted
<1>4. Rooted(g) /\ Flagged(g) /\ (~s => Untainted(g)) /\ g.scopes \in Seq(Scopes)
  BY <1>2, <1>3 DEF Sound, Frames
<1>5. ASSUME ~s PROVE ~ScopeTainted(g)
  <2>1. Len(g.scopes) \in DOMAIN g.scopes
    BY <1>4 DEF Rooted
  <2> QED
    BY <1>4, <1>5, <2>1 DEF Untainted, ScopeTainted, Scope
<1> QED
  BY <1>2, <1>3, <1>4, <1>5, OutputType

LEMMA CallInlineStep == Inv /\ CallInline => Inv'
<1> SUFFICES ASSUME Inv, CallInline PROVE Inv'
  OBVIOUS
<1> DEFINE f == Fetched(Top)
           ops == {"call"}
           name == Code(f)[f.pc].arg
           out == Output(f, {})
           v == Operand(f, 1)
           controlled == Controlled(f)
           g == [f EXCEPT !.output = out]
           e == NewFrame(name, out, v, controlled)
<1>1. /\ Executing(ops) /\ ~Called(Top).heavy /\ Unchanged /\ ops \subseteq Calls
      /\ frames' = [frames EXCEPT ![Len(frames)] = g] \o <<e>>
  BY DEF CallInline, Calls
<1>2. /\ name \in DOMAIN program /\ frames # <<>> /\ ~throwing /\ program \in Programs
      /\ Sound(program, source, f) /\ f.name = Top.name
  BY <1>1, CallFinds
<1>3. out \in BOOLEAN /\ controlled \in BOOLEAN
  BY OutputType
<1>4. v \in Values /\ (~source => ~v.tainted)
  BY <1>1, CallArgument
<1>5. ~source => ~out
  BY <1>1, PlainOutput
<1>6. Called(Top) = program[name]
  <2>1. Executing(ops)
    BY <1>1
  <2>2. f.pc = Top.pc
    <3>1. Top \in Frames(DOMAIN program) /\ Rooted(Top)
      BY <1>2 DEF Inv, Structure, Top
    <3> QED
      BY <3>1, FetchedFrame
  <2>3. Code(Top) = Code(f)
    BY <1>2 DEF Code
  <2> QED
    BY <2>2, <2>3 DEF Called, Script
<1>7. \A x, y : /\ x.name = f.name /\ x.pc = f.pc /\ x.stack = f.stack /\ y.name = name
                => Waits(program, x, y) /\ CodeOf(program, x) = Code(f)
  BY <1>1, CallFinds
<1> HIDE DEF f, name, out, v, controlled, e
<1>8. Sound(program, source, e) /\ Ready(program, e) /\ e.name = name
  BY <1>2, <1>3, <1>4, <1>5, NewFrameSound DEF e
<1>9. /\ g.name = f.name /\ g.pc = f.pc /\ g.stack = f.stack
      /\ g \in Frames(DOMAIN program) /\ Rooted(g) /\ Flagged(g) /\ (~source => Untainted(g))
  BY <1>2, <1>3, <1>5, CallerSound
<1> HIDE DEF g
<1>10. Waits(program, g, e)
  BY <1>7, <1>8, <1>9
<1>11. ~Lends(program, g, e)
  BY <1>1, <1>6, <1>8 DEF Lends
<1> QED
  BY <1>1, <1>2, <1>8, <1>9, <1>10, <1>11, FrameCalled

LEMMA CallInvokeStep == Inv /\ CallInvoke => Inv'
<1> SUFFICES ASSUME Inv, CallInvoke PROVE Inv'
  OBVIOUS
<1> DEFINE f == Fetched(Top)
           ops == {"call"}
           name == Code(f)[f.pc].arg
           out == Output(f, {})
           v == Operand(f, 1)
           controlled == Controlled(f)
           g == Lent(f, out)
           flag == ScopeTainted(g)
           e == NewFrame(name, flag, v, controlled)
<1>1. /\ Executing(ops) /\ Called(Top).heavy /\ Unchanged /\ ops \subseteq Calls
      /\ frames' = [frames EXCEPT ![Len(frames)] = g] \o <<e>>
  BY DEF CallInvoke, Calls
<1>2. /\ name \in DOMAIN program /\ frames # <<>> /\ ~throwing /\ program \in Programs
      /\ Sound(program, source, f) /\ f.name = Top.name
  BY <1>1, CallFinds
<1>3. out \in BOOLEAN /\ controlled \in BOOLEAN
  BY OutputType
<1>4. v \in Values /\ (~source => ~v.tainted)
  BY <1>1, CallArgument
<1>5. ~source => ~out
  BY <1>1, PlainOutput
<1>6. Called(Top) = program[name] /\ CodeOf(program, f)[f.pc].op \in ops /\ Code(f) = CodeOf(program, f)
  <2>1. f.pc = Top.pc /\ Code(f) = CodeOf(program, f) /\ CodeOf(program, f)[f.pc].op \in ops
    BY <1>1, RunningFrame
  <2>2. Code(Top) = Code(f)
    BY <1>2 DEF Code
  <2> QED
    BY <2>1, <2>2 DEF Called, Script
<1>7. \A x, y : /\ x.name = f.name /\ x.pc = f.pc /\ x.stack = f.stack /\ y.name = name
                => Waits(program, x, y) /\ CodeOf(program, x) = Code(f)
  BY <1>1, CallFinds
<1> HIDE DEF f, name, out, v, controlled, e, g, flag
<1>8. /\ g.name = f.name /\ g.pc = f.pc /\ g.stack = f.stack
      /\ g \in Frames(DOMAIN program) /\ Rooted(g) /\ FlaggedLent(g) /\ (~source => Untainted(g))
  BY <1>2, <1>3, <1>5, LentSound DEF g
<1>9. flag \in BOOLEAN /\ (~source => ~flag)
  BY <1>2, <1>3, <1>5, LentSound DEF g, flag
<1>10. Sound(program, source, e) /\ Ready(program, e) /\ e.name = name
  BY <1>2, <1>3, <1>4, <1>9, NewFrameSound DEF e
<1>11. Waits(program, g, e)
  BY <1>7, <1>8, <1>10
<1>12. Lends(program, g, e)
  <2>1. CodeOf(program, g) = CodeOf(program, f)
    BY <1>8 DEF CodeOf
  <2> QED
    BY <1>1, <1>6, <1>8, <1>10, <2>1 DEF Lends
<1> QED
  BY <1>1, <1>2, <1>8, <1>10, <1>11, <1>12, FrameCalled

\* The frame of an eval shares the variables of its caller.
LEMMA EvalFrameSound ==
    ASSUME NEW p, NEW s, NEW e, Sound(p, s, e), Ready(p, e),
           NEW f, Sound(p, s, f), NEW g, g = [e EXCEPT !.slots = f.slots]
    PROVE  Sound(p, s, g) /\ Ready(p, g) /\ g.name = e.name
<1>1. e \in Frames(DOMAIN p) /\ (~s => Untainted(e)) /\ (~s => Untainted(f)) /\ f \in Frames(DOMAIN p)
  BY DEF Sound
<1>2. f.slots \in [Slots -> Values]
  BY <1>1 DEF Frames
<1>3. /\ g \in Frames(DOMAIN p) /\ g.scopes = e.scopes /\ g.name = e.name /\ g.pc = e.pc
      /\ g.stack = e.stack /\ g.mark = e.mark /\ g.rval = e.rval /\ g.output = e.output
      /\ g.saved = e.saved /\ g.slots = f.slots
  BY <1>1, <1>2 DEF Frames
<1>4. Sound(p, s, g)
  BY <1>1, <1>3, SameScopes DEF Untainted
<1>5. Ready(p, g)
  BY <1>3, ChangedReady
<1> QED
  BY <1>3, <1>4, <1>5

LEMMA EvalCodeStep == Inv /\ EvalCode => Inv'
<1> SUFFICES ASSUME Inv, EvalCode PROVE Inv'
  OBVIOUS
<1> DEFINE f == Fetched(Top)
           ops == {"eval"}
           name == Code(f)[f.pc].arg
           out == Output(f, {})
           v == Operand(f, 1)
           controlled == Depends(f, {v})
           g == Lent(f, out)
           flag == ScopeTainted(g)
           new == NewFrame(name, flag, v, controlled)
           e == [new EXCEPT !.slots = f.slots]
<1>1. /\ Executing(ops) /\ Unchanged /\ ops \subseteq Calls
      /\ frames' = [frames EXCEPT ![Len(frames)] = g] \o <<e>>
  BY DEF EvalCode, Calls
<1>2. /\ name \in DOMAIN program /\ frames # <<>> /\ ~throwing /\ program \in Programs
      /\ Sound(program, source, f) /\ f.name = Top.name
  BY <1>1, CallFinds
<1>3. out \in BOOLEAN /\ controlled \in BOOLEAN
  BY OutputType
<1>4. ~source => ~out
  BY <1>1, PlainOutput
<1>5. /\ CodeOf(program, f)[f.pc].op \in ops /\ Code(f) = CodeOf(program, f)
      /\ program[name].heavy
  <2>1. /\ CodeOf(program, f)[f.pc].op \in ops /\ Code(f) = CodeOf(program, f)
        /\ Linked(program, CodeOf(program, f), ShapeOf(program, f), f.pc)
    BY <1>1, RunningFrame
  <2> QED
    BY <2>1 DEF Linked
<1>6. \A x, y : /\ x.name = f.name /\ x.pc = f.pc /\ x.stack = f.stack /\ y.name = name
                => Waits(program, x, y) /\ CodeOf(program, x) = Code(f)
  BY <1>1, CallFinds
<1>7. v \in Values /\ (~source => ~v.tainted)
  BY <1>1, CallArgument
<1> HIDE DEF f, name, out, v, controlled, e, g, flag, new
<1>8. /\ g.name = f.name /\ g.pc = f.pc /\ g.stack = f.stack
      /\ g \in Frames(DOMAIN program) /\ Rooted(g) /\ FlaggedLent(g) /\ (~source => Untainted(g))
  BY <1>2, <1>3, <1>4, LentSound DEF g
<1>9. flag \in BOOLEAN /\ (~source => ~flag)
  BY <1>2, <1>3, <1>4, LentSound DEF g, flag
<1>10. Sound(program, source, new) /\ Ready(program, new) /\ new.name = name
  BY <1>2, <1>3, <1>7, <1>9, NewFrameSound DEF new
<1>11. Sound(program, source, e) /\ Ready(program, e) /\ e.name = name
  BY <1>2, <1>10, EvalFrameSound DEF e
<1>12. Waits(program, g, e)
  BY <1>6, <1>8, <1>11
<1>13. Lends(program, g, e)
  <2>1. CodeOf(program, g) = CodeOf(program, f)
    BY <1>8 DEF CodeOf
  <2> QED
    BY <1>1, <1>5, <1>8, <1>11, <2>1 DEF Lends
<1> QED
  BY <1>1, <1>2, <1>8, <1>11, <1>12, <1>13, FrameCalled

LEMMA CallGetterStep == Inv /\ CallGetter => Inv'
<1> SUFFICES ASSUME Inv, CallGetter PROVE Inv'
  OBVIOUS
<1> DEFINE f == Fetched(Top)
           ops == {"getter"}
           name == Code(f)[f.pc].arg
           o == Operand(f, 1)
           out == Output(f, {o})
           controlled == Controlled(f)
           g == [f EXCEPT !.output = out]
           flag == ScopeTainted(g)
           v == Plain
           e == NewFrame(name, flag, v, controlled)
<1>1. /\ Executing(ops) /\ Unchanged /\ ops \subseteq Calls
      /\ frames' = [frames EXCEPT ![Len(frames)] = g] \o <<e>>
  BY DEF CallGetter, Calls
<1>2. /\ name \in DOMAIN program /\ frames # <<>> /\ ~throwing /\ program \in Programs
      /\ Sound(program, source, f) /\ f.name = Top.name
  BY <1>1, CallFinds
<1>3. out \in BOOLEAN /\ controlled \in BOOLEAN
  BY OutputType
<1>4. /\ CodeOf(program, f)[f.pc].op \in ops
      /\ Balanced(CodeOf(program, f), ShapeOf(program, f), f.pc)
  BY <1>1, RunningFrame
<1>5. Goes(ShapeOf(program, f), f.pc, f.pc + JumpLength, 1, 1)
  BY <1>4 DEF Balanced
<1>6. ~source => o.tainted = FALSE
  <2>1. 1 <= Len(ShapeOf(program, f)[f.pc])
    BY <1>1, <1>5, GoesType
  <2> QED
    BY <1>1, <2>1, Used
<1> HIDE DEF o
<1>7. ~source => ~out
  BY <1>1, <1>6, PlainOutput
<1>8. \A x, y : /\ x.name = f.name /\ x.pc = f.pc /\ x.stack = f.stack /\ y.name = name
                => Waits(program, x, y) /\ CodeOf(program, x) = Code(f)
  BY <1>1, CallFinds
<1>9. v \in Values /\ ~v.tainted
  BY DEF Plain, Value, Values
<1> HIDE DEF f, name, out, v, controlled, e, flag
<1>10. /\ g.name = f.name /\ g.pc = f.pc /\ g.stack = f.stack
       /\ g \in Frames(DOMAIN program) /\ Rooted(g) /\ Flagged(g) /\ (~source => Untainted(g))
  BY <1>2, <1>3, <1>7, CallerSound
<1>11. flag \in BOOLEAN /\ (~source => ~flag)
  BY <1>2, <1>3, <1>7, CallerSound DEF flag
<1> HIDE DEF g
<1>12. Sound(program, source, e) /\ Ready(program, e) /\ e.name = name
  BY <1>2, <1>3, <1>9, <1>11, NewFrameSound DEF e
<1>13. Waits(program, g, e)
  BY <1>8, <1>10, <1>12
<1>14. ~Lends(program, g, e)
  <2>1. CodeOf(program, g) = CodeOf(program, f)
    BY <1>10 DEF CodeOf
  <2> QED
    BY <1>4, <1>10, <2>1 DEF Lends
<1> QED
  BY <1>1, <1>2, <1>10, <1>12, <1>13, <1>14, FrameCalled

LEMMA CallSetterStep == Inv /\ CallSetter => Inv'
<1> SUFFICES ASSUME Inv, CallSetter PROVE Inv'
  OBVIOUS
<1> DEFINE f == Fetched(Top)
           ops == {"setter"}
           name == Code(f)[f.pc].arg
           a == Operand(f, 1)
           b == Operand(f, 2)
           out == Output(f, {a, b})
           controlled == Depends(f, {a, b})
           h == SetterScope(f, out)
           g == [h EXCEPT !.output = out]
           flag == ScopeTainted(g)
           v == Value(a.tainted \/ out, Depends(f, {a}))
           e == NewFrame(name, flag, v, controlled)
<1>1. /\ Executing(ops) /\ Unchanged /\ ops \subseteq Calls
      /\ frames' = [frames EXCEPT ![Len(frames)] = g] \o <<e>>
  BY DEF CallSetter, Calls
<1>2. /\ name \in DOMAIN program /\ frames # <<>> /\ ~throwing /\ program \in Programs
      /\ Sound(program, source, f) /\ f.name = Top.name /\ Code(f) = CodeOf(program, f)
  BY <1>1, CallFinds
<1>3. out \in BOOLEAN /\ controlled \in BOOLEAN
  BY OutputType
<1>4. /\ CodeOf(program, f)[f.pc].op \in ops /\ CodeOf(program, f)[f.pc] \in Cells
      /\ Balanced(CodeOf(program, f), ShapeOf(program, f), f.pc) /\ f.pc \in Nat
  BY <1>1, RunningFrame
<1>5. Goes(ShapeOf(program, f), f.pc, f.pc + JumpLength, 2, 1)
  BY <1>4 DEF Balanced
<1>6. a.tainted \in BOOLEAN /\ (~source => a.tainted = FALSE /\ b.tainted = FALSE)
  <2>1. 2 <= Len(ShapeOf(program, f)[f.pc])
    BY <1>1, <1>5, GoesType
  <2> QED
    BY <1>1, <2>1, Used
<1>7. v \in Values /\ v.tainted = (a.tainted \/ out)
  BY <1>3, <1>6, ValueType, OutputType DEF Value
<1> HIDE DEF a, b
<1>8. ~source => ~out
  BY <1>1, <1>6, PlainOutput
<1>9. ~source => ~v.tainted
  BY <1>6, <1>7, <1>8
<1>10. \A x, y : /\ x.name = f.name /\ x.pc = f.pc /\ x.stack = f.stack /\ y.name = name
                 => Waits(program, x, y) /\ CodeOf(program, x) = Code(f)
  BY <1>1, CallFinds
<1> HIDE DEF f, name, out, v, controlled, e, flag, h
<1>11. Sound(program, source, h) /\ h.name = f.name /\ h.pc = f.pc /\ h.stack = f.stack
  <2>1. CASE out
    <3> DEFINE target == f.pc + 1
               secret == FALSE
    <3>1. target \in Int /\ h = WithScope(f, target, out, secret) /\ Code(f)[f.pc] \in Cells
      BY <1>2, <1>4, <2>1 DEF h, SetterScope
    <3> HIDE DEF target, secret
    <3>2. Sound(program, source, h)
      BY <1>2, <1>3, <1>4, <1>8, <3>1, WithScopeSound
    <3>3. h.name = f.name /\ h.pc = f.pc /\ h.stack = f.stack
      BY <1>2, <3>1 DEF WithScope, Sound, Frames
    <3> QED
      BY <3>2, <3>3
  <2>2. CASE ~out
    BY <1>2, <2>2 DEF h, SetterScope
  <2> QED
    BY <2>1, <2>2
<1>12. /\ g.name = f.name /\ g.pc = f.pc /\ g.stack = f.stack
       /\ g \in Frames(DOMAIN program) /\ Rooted(g) /\ Flagged(g) /\ (~source => Untainted(g))
  BY <1>3, <1>8, <1>11, CallerSound
<1>13. flag \in BOOLEAN /\ (~source => ~flag)
  BY <1>3, <1>8, <1>11, CallerSound DEF flag
<1> HIDE DEF g
<1>14. Sound(program, source, e) /\ Ready(program, e) /\ e.name = name
  BY <1>2, <1>3, <1>7, <1>9, <1>13, NewFrameSound DEF e
<1>15. Waits(program, g, e)
  BY <1>10, <1>12, <1>14
<1>16. ~Lends(program, g, e)
  <2>1. CodeOf(program, g) = CodeOf(program, f)
    BY <1>12 DEF CodeOf
  <2> QED
    BY <1>4, <1>12, <2>1 DEF Lends
<1>17. g.name = Top.name
  BY <1>2, <1>12
<1> QED
  BY <1>1, <1>2, <1>12, <1>14, <1>15, <1>16, <1>17, FrameCalled

-----------------------------------------------------------------------------
\* The frame that waits for the running one.
LEMMA CallerFrame ==
    ASSUME Inv, Len(frames) > 1, NEW w, w = Caller
    PROVE  /\ program \in Programs /\ w \in Frames(DOMAIN program) /\ Rooted(w)
           /\ Waits(program, w, Top) /\ (~source => Untainted(w))
           /\ IF Lends(program, w, Top) THEN FlaggedLent(w) ELSE Flagged(w)
           /\ Top \in Frames(DOMAIN program) /\ Rooted(Top) /\ Flagged(Top)
           /\ (~source => Untainted(Top))
           /\ w.name \in DOMAIN program /\ w.pc \in Nat /\ w.pc \in DOMAIN CodeOf(program, w)
           /\ Calling = CodeOf(program, w)[w.pc].op /\ Calling \in Calls
           /\ Balanced(CodeOf(program, w), ShapeOf(program, w), w.pc)
           /\ Ready(program, w)
<1> DEFINE n == Len(frames)
<1>1. /\ program \in Programs /\ frames \in Seq(Frames(DOMAIN program))
      /\ \A i \in DOMAIN frames : Rooted(frames[i])
      /\ \A i \in 1..n - 1 : Waits(program, frames[i], frames[i + 1])
  BY DEF Inv, Structure
<1>2. n \in Nat /\ n > 1 /\ DOMAIN frames = 1..n /\ n - 1 \in 1..n - 1 /\ n - 1 \in 1..n
      /\ n - 1 + 1 = n /\ n \in 1..n /\ n - 1 < n /\ ~(n < n)
  BY <1>1
<1>3. w = frames[n - 1] /\ Top = frames[n]
  BY DEF Caller, Top
<1>4. n - 1 < Len(frames) /\ ~(n < Len(frames))
  BY <1>2
<1> HIDE DEF n
<1>5. Waits(program, w, Top)
  BY <1>1, <1>2, <1>3
<1>6. w \in Frames(DOMAIN program) /\ Rooted(w) /\ Top \in Frames(DOMAIN program) /\ Rooted(Top)
  BY <1>1, <1>2, <1>3
<1>7. Flagged(Top) /\ IF Lends(program, w, Top) THEN FlaggedLent(w) ELSE Flagged(w)
  <2>1. \A i \in 1..n : IF i < Len(frames) /\ Lends(program, frames[i], frames[i + 1])
                        THEN FlaggedLent(frames[i]) ELSE Flagged(frames[i])
    BY <1>2 DEF Inv, Flags
  <2>2. Flagged(frames[n])
    BY <1>2, <1>4, <2>1
  <2>3. IF Lends(program, frames[n - 1], frames[n - 1 + 1])
        THEN FlaggedLent(frames[n - 1]) ELSE Flagged(frames[n - 1])
    BY <1>2, <1>4, <2>1
  <2> QED
    BY <1>2, <1>3, <2>2, <2>3
<1>8. ~source => Untainted(w) /\ Untainted(Top)
  BY <1>2, <1>3 DEF Inv, Plainness
<1>9. /\ Ready(program, w) /\ w.pc \in DOMAIN CodeOf(program, w)
      /\ CodeOf(program, w)[w.pc].op \in Calls
  BY <1>5 DEF Waits
<1>10. w.name \in DOMAIN program /\ w.pc \in Nat
  BY <1>6 DEF Frames
<1>11. Balanced(CodeOf(program, w), ShapeOf(program, w), w.pc)
  <2>1. WellFormed(program, CodeOf(program, w), ShapeOf(program, w))
    BY <1>1, <1>10, CodeIsBalanced
  <2>2. w.pc \in DOMAIN ShapeOf(program, w)
    BY <1>9 DEF Ready
  <2> QED
    BY <1>9, <2>1, <2>2 DEF WellFormed
<1>12. Calling = CodeOf(program, w)[w.pc].op
  BY DEF Calling, Code, Script, CodeOf
<1> QED
  BY <1>1, <1>5, <1>6, <1>7, <1>8, <1>9, <1>10, <1>11, <1>12

\* The end of js_Invoke sets the flag of the caller's scope back.
Restored(w, slots) == [w EXCEPT !.scopes[Len(w.scopes)].istainted = w.saved, !.slots = slots]

LEMMA RestoredSound ==
    ASSUME NEW p, NEW s, NEW w, w \in Frames(DOMAIN p), Rooted(w), FlaggedLent(w),
           ~s => Untainted(w),
           NEW slots, slots \in [Slots -> Values], ~s => \A x \in Slots : ~slots[x].tainted
    PROVE  /\ Sound(p, s, Restored(w, slots))
           /\ Restored(w, slots).name = w.name /\ Restored(w, slots).pc = w.pc
           /\ Restored(w, slots).stack = w.stack
<1> DEFINE h == Restored(w, slots)
           n == Len(w.scopes)
           last == [w.scopes[n] EXCEPT !.istainted = w.saved]
           scopes == [w.scopes EXCEPT ![n] = last]
<1>1. /\ w.scopes \in Seq(Scopes) /\ w.scopes # <<>> /\ n \in 1..n /\ n \in Nat
      /\ DOMAIN w.scopes = 1..n /\ w.saved \in BOOLEAN
  BY DEF Rooted, Frames
<1>2. w.scopes[n] \in Scopes
  BY <1>1
<1>3. h = [w EXCEPT !.scopes = scopes, !.slots = slots]
  BY DEF Restored
<1>4. /\ last \in Scopes /\ last.istainted = w.saved /\ last.prev = w.scopes[n].prev
      /\ last.opened = w.scopes[n].opened /\ last.op = w.scopes[n].op
  BY <1>1, <1>2 DEF Scopes
<1> HIDE DEF last
<1>5. /\ scopes \in Seq(Scopes) /\ DOMAIN scopes = 1..n /\ scopes[n] = last
      /\ \A k \in 1..n : k # n => scopes[k] = w.scopes[k]
  BY <1>1, <1>4
<1>6. /\ \A k \in 1..n - 1 : FlagAt(w.scopes, k)
      /\ w.saved <=> \E j \in 1..n : w.scopes[j].opened
      /\ w.scopes[n].prev => \E j \in 1..n : w.scopes[j].opened
  BY DEF FlaggedLent
<1> HIDE DEF scopes, n, h
<1>7. \A k \in 1..n : scopes[k].prev = w.scopes[k].prev /\ scopes[k].opened = w.scopes[k].opened
                      /\ scopes[k].op = w.scopes[k].op
  BY <1>4, <1>5
<1>8. \A k \in 1..n : k = n \/ k \in 1..n - 1
  BY <1>1
<1>9. ASSUME NEW k \in 1..n PROVE FlagAt(scopes, k)
  <2>1. \A j \in 1..k : j \in 1..n
    BY <1>1
  <2>2. (\E j \in 1..k : scopes[j].opened) <=> \E j \in 1..k : w.scopes[j].opened
    BY <1>7, <2>1
  <2>3. CASE k = n
    BY <1>4, <1>5, <1>6, <2>2, <2>3 DEF FlagAt
  <2>4. CASE k # n
    <3>1. FlagAt(w.scopes, k) /\ scopes[k] = w.scopes[k]
      BY <1>5, <1>6, <1>8, <2>4
    <3> QED
      BY <2>2, <3>1 DEF FlagAt
  <2> QED
    BY <2>3, <2>4
<1>10. /\ h \in Frames(DOMAIN p) /\ h.scopes = scopes /\ h.name = w.name /\ h.pc = w.pc
       /\ h.stack = w.stack /\ h.mark = w.mark /\ h.rval = w.rval /\ h.output = w.output
       /\ h.saved = w.saved /\ h.slots = slots
  BY <1>3, <1>5 DEF Frames
<1>11. Rooted(h) /\ Flagged(h)
  <2>1. scopes # <<>> /\ 1 \in 1..n
    BY <1>1, <1>5
  <2> QED
    BY <1>5, <1>7, <1>9, <1>10, <2>1 DEF Rooted, Flagged
<1>12. ASSUME ~s PROVE Untainted(h)
  <2>1. Untainted(w)
    BY <1>12
  <2>2. \A k \in 1..n : ~scopes[k].istainted /\ ~scopes[k].prev
    BY <1>1, <1>4, <1>5, <1>7, <2>1 DEF Untainted
  <2>3. \A x \in Slots : ~slots[x].tainted
    BY <1>12
  <2> QED
    BY <1>5, <1>10, <2>1, <2>2, <2>3 DEF Untainted
<1> QED
  BY <1>10, <1>11, <1>12 DEF Sound, h

\* A caller h with the value x in the place of what the call took from the stack.
Received(h, n, x, m, out) == [h EXCEPT !.stack = Put(h, n, x), !.mark = m, !.output = out]

LEMMA ReturnedFrame ==
    ASSUME Inv, Len(frames) > 1, NEW w, w = Caller,
           NEW v, v \in Values, NEW out, out \in BOOLEAN, ~source => ~out /\ ~v.tainted
    PROVE  \E h, n, x, m, o :
               /\ Returned(v, out) = Received(h, n, x, m, o)
               /\ Sound(program, source, h) /\ h.name = w.name /\ h.pc = w.pc /\ h.stack = w.stack
               /\ n \in Nat /\ x \in Values /\ m \in Nat /\ o \in BOOLEAN
               /\ ~source => m = NoMark /\ ~o /\ ~x.tainted
               /\ Goes(ShapeOf(program, w), w.pc, w.pc + JumpLength, n, 1)
               /\ Calling \in {"call", "eval"} => n = 3
<1>1. /\ program \in Programs /\ w \in Frames(DOMAIN program) /\ Rooted(w)
      /\ (~source => Untainted(w)) /\ Ready(program, w)
      /\ IF Lends(program, w, Top) THEN FlaggedLent(w) ELSE Flagged(w)
      /\ Top \in Frames(DOMAIN program) /\ (~source => Untainted(Top))
      /\ Calling = CodeOf(program, w)[w.pc].op /\ Calling \in Calls
      /\ Balanced(CodeOf(program, w), ShapeOf(program, w), w.pc)
  BY CallerFrame
<1>2. w.output \in BOOLEAN /\ w.mark \in Nat /\ w.stack \in Seq(OnStack)
  BY <1>1 DEF Frames
<1>3. v.tainted \in BOOLEAN /\ v.secret \in BOOLEAN
  BY DEF Values
<1>4. \A n \in Nat, o \in BOOLEAN :
        LET m == Mark(w, Len(Drop(w, n)) + 1, o)
        IN  m \in Nat /\ (w.mark = NoMark /\ ~o => m = NoMark)
  <2> SUFFICES ASSUME NEW n \in Nat, NEW o \in BOOLEAN
               PROVE  LET m == Mark(w, Len(Drop(w, n)) + 1, o)
                      IN  m \in Nat /\ (w.mark = NoMark /\ ~o => m = NoMark)
    OBVIOUS
  <2>1. Len(Drop(w, n)) \in Nat
    BY <1>2 DEF Drop
  <2> QED
    BY <1>2, <2>1 DEF Mark, NoMark
<1>5. ~source => w.mark = NoMark /\ ~w.output
  BY <1>1 DEF Untainted
<1>6. ~Lends(program, w, Top) => Sound(program, source, w)
  BY <1>1 DEF Sound
<1>7. CASE Calling = "getter"
  <2> DEFINE n == 1
             o == w.output \/ v.tainted
             d == Depends(w, {Operand(w, 1)})
             x == [v EXCEPT !.secret = @ \/ d]
             m == Mark(w, Len(Drop(w, n)) + 1, o)
  <2>1. Returned(v, out) = Received(w, n, x, m, o)
    <3>1. Returned(v, out) = ReturnedGetter(v)
      BY <1>7 DEF Returned
    <3>2. ReturnedGetter(v) = Pushed(w, Drop(w, n), x, o)
      BY DEF ReturnedGetter
    <3> HIDE DEF n, o, x
    <3> QED
      BY <3>1, <3>2 DEF Received, Pushed, Put
  <2>2. n \in Nat /\ Goes(ShapeOf(program, w), w.pc, w.pc + JumpLength, n, 1)
    BY <1>1, <1>7 DEF Balanced
  <2>3. o \in BOOLEAN /\ d \in BOOLEAN
    BY <1>2, <1>3, OutputType
  <2> HIDE DEF n, o, d
  <2>4. m \in Nat /\ (w.mark = NoMark /\ ~o => m = NoMark)
    BY <1>4, <2>2, <2>3
  <2>5. x \in Values /\ x.tainted = v.tainted
    BY <1>3, <2>3 DEF Values
  <2>6. ~Lends(program, w, Top)
    BY <1>1, <1>7 DEF Lends
  <2>7. ~source => m = NoMark /\ ~o /\ ~x.tainted
    BY <1>5, <2>4, <2>5 DEF o
  <2> HIDE DEF m, x
  <2> QED
    BY <1>6, <1>7, <2>1, <2>2, <2>3, <2>4, <2>5, <2>6, <2>7
<1>8. CASE Calling = "setter"
  <2> DEFINE n == 2
             o == w.output
             m == Mark(w, Len(Drop(w, n)) + 1, o)
  <2>1. Returned(v, out) = Received(w, n, v, m, o)
    <3>1. Returned(v, out) = ReturnedSetter(v)
      BY <1>8 DEF Returned
    <3>2. ReturnedSetter(v) = Pushed(w, Drop(w, n), v, o)
      BY DEF ReturnedSetter
    <3> HIDE DEF n, o
    <3> QED
      BY <3>1, <3>2 DEF Received, Pushed, Put
  <2>2. n \in Nat /\ Goes(ShapeOf(program, w), w.pc, w.pc + JumpLength, n, 1)
    BY <1>1, <1>8 DEF Balanced
  <2>3. o \in BOOLEAN
    BY <1>2
  <2> HIDE DEF n, o
  <2>4. m \in Nat /\ (w.mark = NoMark /\ ~o => m = NoMark)
    BY <1>4, <2>2, <2>3
  <2>5. ~Lends(program, w, Top)
    BY <1>1, <1>8 DEF Lends
  <2>6. ~source => m = NoMark /\ ~o /\ ~v.tainted
    BY <1>5, <2>4 DEF o
  <2> HIDE DEF m
  <2> QED
    BY <1>6, <1>8, <2>1, <2>2, <2>3, <2>4, <2>5, <2>6
<1>9. Calling \notin {"getter", "setter"} => Calling \in {"call", "eval"}
  BY <1>1 DEF Calls
<1>10. Inlined(Len(frames)) <=> ~program[Top.name].heavy
  BY DEF Inlined, Script, Top
<1>11. CASE Calling \notin {"getter", "setter"} /\ Inlined(Len(frames))
  <2> DEFINE n == 3
             o == w.output
             x == [v EXCEPT !.tainted = @ \/ out]
             m == Mark(w, Len(Drop(w, n)) + 1, out)
  <2>1. Returned(v, out) = [w EXCEPT !.stack = Put(w, n, x), !.mark = m]
    <3>1. Returned(v, out) = ReturnedInline(v, out)
      BY <1>9, <1>11 DEF Returned
    <3> QED
      BY <3>1 DEF ReturnedInline, Put
  <2>2. n \in Nat /\ Goes(ShapeOf(program, w), w.pc, w.pc + JumpLength, n, 1) /\ n = 3
    BY <1>1, <1>9, <1>11 DEF Balanced
  <2>3. o \in BOOLEAN
    BY <1>2
  <2>4. x \in Values /\ x.tainted = (v.tainted \/ out)
    BY <1>3 DEF Values
  <2> HIDE DEF n, o, x
  <2>5. m \in Nat /\ (w.mark = NoMark /\ ~out => m = NoMark)
    BY <1>4, <2>2
  <2>6. ~Lends(program, w, Top)
    BY <1>10, <1>11 DEF Lends
  <2>7. ~source => m = NoMark /\ ~o /\ ~x.tainted
    BY <1>5, <2>4, <2>5 DEF o
  <2> HIDE DEF m
  <2>8. Returned(v, out) = Received(w, n, x, m, o)
    BY <1>1, <2>1 DEF Received, Frames, o
  <2> QED
    BY <1>6, <1>11, <2>2, <2>3, <2>4, <2>5, <2>6, <2>7, <2>8
<1>12. CASE Calling \notin {"getter", "setter"} /\ ~Inlined(Len(frames))
  <2> DEFINE n == 3
             o == w.output
             m == w.mark
             x == [v EXCEPT !.tainted = @ \/ o]
             slots == IF Calling = "eval" THEN Top.slots ELSE w.slots
             h == Restored(w, slots)
  <2>1. Returned(v, out) = [w EXCEPT !.scopes[Len(w.scopes)].istainted = w.saved,
                                     !.slots = slots, !.stack = Put(w, n, x)]
    <3>1. Returned(v, out) = ReturnedInvoke(v)
      BY <1>12 DEF Returned
    <3>2. Calling = Code(w)[w.pc].op
      BY DEF Calling
    <3> QED
      BY <3>1, <3>2 DEF ReturnedInvoke, Put
  <2>2. n \in Nat /\ Goes(ShapeOf(program, w), w.pc, w.pc + JumpLength, n, 1) /\ n = 3
    BY <1>1, <1>9, <1>12 DEF Balanced
  <2>3. o \in BOOLEAN /\ m \in Nat
    BY <1>2
  <2>4. x \in Values /\ x.tainted = (v.tainted \/ o)
    BY <1>3, <2>3 DEF Values
  <2> HIDE DEF n, x
  <2>5. slots \in [Slots -> Values] /\ (~source => \A y \in Slots : ~slots[y].tainted)
    BY <1>1 DEF Frames, Untainted
  <2>6. FlaggedLent(w)
    BY <1>1, <1>9, <1>10, <1>12 DEF Lends
  <2> HIDE DEF slots
  <2>7. Sound(program, source, h) /\ h.name = w.name /\ h.pc = w.pc /\ h.stack = w.stack
    BY <1>1, <2>5, <2>6, RestoredSound
  <2>8. ~source => m = NoMark /\ ~o /\ ~x.tainted
    BY <1>5, <2>4
  <2>9. Returned(v, out) = Received(h, n, x, m, o)
    <3> DEFINE t == Put(w, n, x)
    <3>1. Put(h, n, x) = t
      BY <1>1, <2>7, ChangedReady
    <3> HIDE DEF t
    <3> DEFINE scopes == [w.scopes EXCEPT ![Len(w.scopes)].istainted = w.saved]
    <3>2. h = [w EXCEPT !.scopes = scopes, !.slots = slots]
      BY DEF Restored
    <3>3. Returned(v, out) = [w EXCEPT !.scopes = scopes, !.slots = slots, !.stack = t]
      BY <2>1 DEF t
    <3> HIDE DEF h, scopes
    <3> QED
      BY <1>1, <3>1, <3>2, <3>3 DEF Received, Frames
  <2> HIDE DEF h, o, m
  <2> QED
    BY <1>12, <2>2, <2>3, <2>4, <2>7, <2>8, <2>9
<1> QED
  BY <1>7, <1>8, <1>11, <1>12

\* The caller with the result of a call is sound.
LEMMA ReceivedSound ==
    ASSUME NEW p \in Programs, NEW s, NEW h, Sound(p, s, h), Ready(p, h),
           NEW n, n \in Nat, n <= Len(ShapeOf(p, h)[h.pc]), NEW x, x \in Values,
           NEW m, m \in Nat, NEW o, o \in BOOLEAN, ~s => m = NoMark /\ ~o /\ ~x.tainted,
           NEW g, g = Received(h, n, x, m, o)
    PROVE  /\ Sound(p, s, g) /\ g.name = h.name /\ g.pc = h.pc /\ g.stack = Put(h, n, x)
           /\ Put(h, n, x) \in Seq(OnStack) /\ Len(Put(h, n, x)) = Len(h.stack) - n + 1
           /\ \A j \in 1..Len(h.stack) - n : Put(h, n, x)[j] = h.stack[j]
<1>1. x \in OnStack
  BY DEF OnStack
<1>2. /\ Put(h, n, x) \in Seq(OnStack) /\ Len(Put(h, n, x)) = Len(h.stack) - n + 1
      /\ \A j \in 1..Len(h.stack) - n : Put(h, n, x)[j] = h.stack[j]
  BY <1>1, PutType
<1>3. ~s => \A j \in DOMAIN Put(h, n, x) : ~Put(h, n, x)[j].tainted
  BY <1>1, PutPlain
<1>4. h \in Frames(DOMAIN p) /\ (~s => Untainted(h))
  BY DEF Sound
<1> DEFINE t == Put(h, n, x)
<1>5. t \in Seq(OnStack) /\ (~s => \A j \in DOMAIN t : ~t[j].tainted)
  BY <1>2, <1>3
<1>6. g = [h EXCEPT !.stack = t, !.mark = m, !.output = o]
  BY DEF Received
<1> HIDE DEF t
<1>7. /\ g \in Frames(DOMAIN p) /\ g.scopes = h.scopes /\ g.name = h.name /\ g.pc = h.pc
      /\ g.stack = t /\ g.mark = m /\ g.output = o /\ g.rval = h.rval /\ g.saved = h.saved
      /\ g.slots = h.slots
  BY <1>4, <1>5, <1>6 DEF Frames
<1>8. Sound(p, s, g)
  BY <1>4, <1>5, <1>7, SameScopes DEF Untainted
<1> QED
  BY <1>2, <1>7, <1>8 DEF t

\* The same behind the call.
ReceivedNext(h, n, x, m, o) == [Received(h, n, x, m, o) EXCEPT !.pc = @ + JumpLength]

LEMMA ReceivedNextSound ==
    ASSUME NEW p \in Programs, NEW s, NEW h, Sound(p, s, h), Ready(p, h),
           h.pc \in DOMAIN CodeOf(p, h), CodeOf(p, h)[h.pc].op \notin {"setsp", "gosub"},
           NEW n, n \in Nat, Goes(ShapeOf(p, h), h.pc, h.pc + JumpLength, n, 1),
           NEW x, x \in Values,
           NEW m, m \in Nat, NEW o, o \in BOOLEAN, ~s => m = NoMark /\ ~o /\ ~x.tainted,
           NEW g, g = ReceivedNext(h, n, x, m, o)
    PROVE  Sound(p, s, g) /\ g.name = h.name /\ Ready(p, g)
<1> DEFINE k == Received(h, n, x, m, o)
<1>1. x \in OnStack /\ PushedBy(CodeOf(p, h), x, {h.pc})
  BY DEF OnStack, PushedBy
<1>2. n <= Len(ShapeOf(p, h)[h.pc])
  <2> DEFINE f == [name |-> h.name, pc |-> h.pc + JumpLength, stack |-> Put(h, n, x)]
  <2>1. f.name = h.name /\ f.pc = h.pc + JumpLength /\ f.stack = Put(h, n, x)
    OBVIOUS
  <2> HIDE DEF f
  <2> QED
    BY <1>1, <2>1, ReadyAfterPush
<1>3. Sound(p, s, k) /\ k.name = h.name /\ k.pc = h.pc /\ k.stack = Put(h, n, x)
  <2>1. k = Received(h, n, x, m, o)
    OBVIOUS
  <2>2. Sound(p, s, h) /\ Ready(p, h) /\ x \in Values /\ (~s => m = NoMark /\ ~o /\ ~x.tainted)
    OBVIOUS
  <2> HIDE DEF k
  <2>3. Sound(p, s, k)
    BY <1>2, <2>1, <2>2, ReceivedSound
  <2> DEFINE t == Put(h, n, x)
  <2>4. k = [h EXCEPT !.stack = t, !.mark = m, !.output = o]
    BY <2>1 DEF Received
  <2> HIDE DEF t
  <2>5. k.name = h.name /\ k.pc = h.pc /\ k.stack = t
    BY <2>2, <2>4 DEF Sound, Frames
  <2> QED
    BY <2>3, <2>5 DEF t
<1>4. g = [k EXCEPT !.pc = @ + JumpLength]
  BY DEF ReceivedNext
<1> HIDE DEF k
<1>5. k \in Frames(DOMAIN p) /\ (~s => Untainted(k))
  BY <1>3 DEF Sound
<1>6. g.name = h.name /\ g.pc = h.pc + JumpLength /\ g.stack = Put(h, n, x)
  BY <1>3, <1>4, <1>5 DEF Frames
<1>7. Ready(p, g) /\ h.pc + JumpLength \in Nat
  BY <1>1, <1>6, ReadyAfterPush
<1>8. /\ g \in Frames(DOMAIN p) /\ g.scopes = k.scopes /\ g.stack = k.stack
      /\ g.mark = k.mark /\ g.output = k.output /\ g.rval = k.rval /\ g.saved = k.saved
      /\ g.slots = k.slots
  <2>1. k.pc + JumpLength \in Nat
    BY <1>3, <1>7
  <2> QED
    BY <1>4, <1>5, <2>1 DEF Frames
<1>9. Sound(p, s, g)
  BY <1>3, <1>5, <1>8, SameScopes DEF Untainted
<1> QED
  BY <1>6, <1>7, <1>9

LEMMA ReceivedFields ==
    ASSUME NEW p, NEW s, NEW h, Sound(p, s, h), NEW n, NEW x, NEW m, NEW o
    PROVE  /\ Received(h, n, x, m, o).name = h.name /\ Received(h, n, x, m, o).pc = h.pc
           /\ Received(h, n, x, m, o).stack = Put(h, n, x)
           /\ ReceivedNext(h, n, x, m, o).name = h.name
<1> DEFINE t == Put(h, n, x)
<1>1. Received(h, n, x, m, o) = [h EXCEPT !.stack = t, !.mark = m, !.output = o]
  BY DEF Received
<1> HIDE DEF t
<1>2. h \in Frames(DOMAIN p)
  BY DEF Sound
<1>3. /\ Received(h, n, x, m, o).name = h.name /\ Received(h, n, x, m, o).pc = h.pc
      /\ Received(h, n, x, m, o).stack = t
  BY <1>1, <1>2 DEF Frames
<1>4. ReceivedNext(h, n, x, m, o).name = h.name
  BY <1>1, <1>2 DEF Frames, ReceivedNext
<1> QED
  BY <1>3, <1>4 DEF t

\* The caller with the result of a call that ended in an exception.
LEMMA ReceivedFails ==
    ASSUME NEW p \in Programs, NEW s, NEW h, Sound(p, s, h), Ready(p, h),
           h.pc \in DOMAIN CodeOf(p, h),
           NEW n, n \in Nat, n <= Len(ShapeOf(p, h)[h.pc]),
           Catches(CodeOf(p, h), ShapeOf(p, h), h.pc, n), NEW x, x \in OnStack,
           NEW g, g.name = h.name, g.pc = h.pc, g.stack = Put(h, n, x)
    PROVE  Fails(p, g)
<1>1. /\ Put(h, n, x) \in Seq(OnStack) /\ Len(Put(h, n, x)) = Len(h.stack) - n + 1
      /\ \A j \in 1..Len(h.stack) - n : Put(h, n, x)[j] = h.stack[j]
  BY PutType
<1>2. Len(h.stack) \in Nat
  BY DEF Sound, Frames
<1>3. /\ Len(g.stack) \in Nat /\ Len(g.stack) >= Len(h.stack) - n
      /\ \A j \in 1..Len(h.stack) - n : g.stack[j] = h.stack[j]
  BY <1>1, <1>2
<1> QED
  BY <1>3, FailsAfter

\* All but the last two elements of a sequence, and one more.
LEMMA LastTwoReplaced ==
    ASSUME NEW S, NEW s, s \in Seq(S), NEW n, n \in Nat, n >= 1, Len(s) = n + 1,
           NEW x, x \in S, NEW t, t = Append(SubSeq(s, 1, n - 1), x)
    PROVE  /\ t \in Seq(S) /\ Len(t) = n /\ t[n] = x
           /\ \A i \in 1..n - 1 : t[i] = s[i]
<1> DEFINE m == n - 1
           u == SubSeq(s, 1, m)
<1>1. m \in Nat /\ 1..m \subseteq 1..Len(s) /\ n = m + 1
  OBVIOUS
<1> HIDE DEF m
<1>2. u \in Seq(S) /\ Len(u) = m /\ \A i \in 1..m : u[i] = s[i]
  BY <1>1
<1>3. t = Append(u, x)
  BY DEF m
<1> HIDE DEF u
<1>4. t \in Seq(S) /\ Len(t) = m + 1 /\ t[m + 1] = x /\ \A i \in 1..m : t[i] = u[i]
  BY <1>1, <1>2, <1>3
<1> QED
  BY <1>1, <1>2, <1>4

\* The running frame ends and its caller becomes g.
LEMMA FrameReturned ==
    ASSUME Inv, Len(frames) > 1, NEW g, Sound(program, source, g), g.name = Caller.name,
           frames' = Append(SubSeq(frames, 1, Len(frames) - 2), g),
           program' = program, source' = source, throwing' \in BOOLEAN,
           throwing' => Fails(program, g), ~throwing' => Ready(program, g),
           exception' = exception
    PROVE  Inv'
<1> DEFINE n == Len(frames) - 1
<1>1. /\ program \in Programs /\ source \in BOOLEAN /\ exception \in Values
      /\ frames \in Seq(Frames(DOMAIN program))
      /\ \A i \in DOMAIN frames : Rooted(frames[i])
      /\ \A i \in 1..n : Waits(program, frames[i], frames[i + 1])
      /\ ~source => ~exception.tainted /\ \A i \in DOMAIN frames : Untainted(frames[i])
  BY DEF Inv, Structure, Plainness
<1>2. n \in Nat /\ n >= 1 /\ Len(frames) = n + 1 /\ DOMAIN frames = 1..n + 1 /\ Caller = frames[n]
  BY <1>1 DEF Caller
<1>3. g \in Frames(DOMAIN program) /\ Rooted(g) /\ Flagged(g) /\ (~source => Untainted(g))
  BY DEF Sound
<1>4. /\ frames' \in Seq(Frames(DOMAIN program)) /\ Len(frames') = n /\ frames'[n] = g
      /\ \A i \in 1..n - 1 : frames'[i] = frames[i]
  <2>1. n - 1 = Len(frames) - 2
    BY <1>2
  <2>2. frames' = Append(SubSeq(frames, 1, n - 1), g)
    BY <2>1
  <2> HIDE DEF n
  <2> QED
    BY <1>1, <1>2, <1>3, <2>2, LastTwoReplaced
<1> HIDE DEF n
<1>5. \A i \in 1..n : i \in 1..n + 1 /\ (i = n \/ (i \in 1..n - 1 /\ i + 1 \in 1..n /\ i < n))
  BY <1>2
<1>6. \A i \in 1..n : frames'[i].name = frames[i].name
  BY <1>2, <1>4, <1>5
<1>7. Top' = g /\ frames' # <<>> /\ DOMAIN frames' = 1..n
  BY <1>2, <1>4 DEF Top
<1>8. \A i \in 1..n - 1 : i \in 1..n /\ i + 1 \in 1..n /\ i \in 1..n + 1 /\ i < n + 1
  BY <1>2
<1>9. Structure'
  <2>1. \A i \in 1..n : Rooted(frames'[i])
    BY <1>1, <1>2, <1>3, <1>4, <1>5
  <2>2. ASSUME NEW i \in 1..n - 1 PROVE Waits(program, frames'[i], frames'[i + 1])
    <3>1. frames'[i] = frames[i] /\ frames'[i + 1].name = frames[i + 1].name
      BY <1>4, <1>6, <1>8
    <3>2. Waits(program, frames[i], frames[i + 1])
      BY <1>1, <1>8
    <3> QED
      BY <3>1, <3>2 DEF Waits
  <2> QED
    BY <1>1, <1>4, <1>7, <2>1, <2>2 DEF Structure
<1>10. Flags'
  <2>1. ASSUME NEW i \in 1..n - 1
        PROVE  IF Lends(program, frames'[i], frames'[i + 1])
               THEN FlaggedLent(frames'[i]) ELSE Flagged(frames'[i])
    <3>1. frames'[i] = frames[i] /\ frames'[i + 1].name = frames[i + 1].name
      BY <1>4, <1>6, <1>8
    <3>2. IF Lends(program, frames[i], frames[i + 1])
          THEN FlaggedLent(frames[i]) ELSE Flagged(frames[i])
      BY <1>2, <1>8 DEF Inv, Flags
    <3> QED
      BY <3>1, <3>2 DEF Lends
  <2> QED
    BY <1>2, <1>3, <1>4, <1>5, <1>7, <2>1 DEF Flags
<1>11. Plainness'
  BY <1>1, <1>2, <1>3, <1>4, <1>5, <1>7 DEF Plainness
<1> QED
  BY <1>9, <1>10, <1>11 DEF Inv

\* The last frame ends.
LEMMA LastFrameReturned ==
    ASSUME Inv, frames' = <<>>, program' = program, source' = source, ~throwing',
           throwing' \in BOOLEAN, exception' = exception
    PROVE  Inv'
<1>1. frames' \in Seq(Frames(DOMAIN program)) /\ Len(frames') = 0 /\ DOMAIN frames' = {}
  OBVIOUS
<1>2. Structure'
  BY <1>1 DEF Inv, Structure
<1>3. Flags' /\ Plainness'
  BY <1>1 DEF Inv, Flags, Plainness
<1> QED
  BY <1>2, <1>3 DEF Inv

\* A sequence that is not empty has one element or more.
LEMMA OneOrMore ==
    ASSUME NEW S, NEW s, s \in Seq(S), s # <<>>
    PROVE  Len(s) \in Nat /\ (Len(s) = 1 \/ Len(s) > 1) /\ ~(Len(s) = 1 /\ Len(s) > 1)
<1>1. Len(s) \in Nat /\ Len(s) # 0
  OBVIOUS
<1>2. \A n \in Nat : n # 0 => (n = 1 \/ n > 1) /\ ~(n = 1 /\ n > 1)
  OBVIOUS
<1> QED
  BY <1>1, <1>2

\* The running frame ends with v.
LEMMA FrameReturns ==
    ASSUME Inv, frames # <<>>, ~throwing, Unchanged,
           NEW v, v \in Values, NEW out, out \in BOOLEAN, ~source => ~out /\ ~v.tainted,
           ReturnTo(v, out)
    PROVE  Inv'
<1>1. /\ frames \in Seq(Frames(DOMAIN program)) /\ throwing \in BOOLEAN
      /\ program' = program /\ source' = source /\ exception' = exception
      /\ throwing' = throwing /\ throwing = FALSE
  BY DEF Inv, Structure, Unchanged
<1>2. /\ Len(frames) \in Nat /\ (Len(frames) = 1 \/ Len(frames) > 1)
      /\ ~(Len(frames) = 1 /\ Len(frames) > 1)
  BY <1>1, OneOrMore
<1>3. CASE Len(frames) = 1
  BY <1>1, <1>3, LastFrameReturned DEF ReturnTo
<1>4. CASE Len(frames) > 1
  <2> DEFINE w == Caller
  <2>1. PICK h, n, x, m, o :
               /\ Returned(v, out) = Received(h, n, x, m, o)
               /\ Sound(program, source, h) /\ h.name = w.name /\ h.pc = w.pc /\ h.stack = w.stack
               /\ n \in Nat /\ x \in Values /\ m \in Nat /\ o \in BOOLEAN
               /\ ~source => m = NoMark /\ ~o /\ ~x.tainted
               /\ Goes(ShapeOf(program, w), w.pc, w.pc + JumpLength, n, 1)
    BY <1>4, ReturnedFrame
  <2>2. /\ program \in Programs /\ Ready(program, w) /\ w.pc \in DOMAIN CodeOf(program, w)
        /\ CodeOf(program, w)[w.pc].op \in Calls
    BY <1>4, CallerFrame
  <2>3. /\ Ready(program, h) /\ CodeOf(program, h) = CodeOf(program, w)
        /\ ShapeOf(program, h) = ShapeOf(program, w)
    BY <2>1, <2>2, ChangedReady
  <2>4. h.pc \in DOMAIN CodeOf(program, h) /\ CodeOf(program, h)[h.pc].op \notin {"setsp", "gosub"}
    BY <2>1, <2>2, <2>3 DEF Calls
  <2>5. Goes(ShapeOf(program, h), h.pc, h.pc + JumpLength, n, 1)
    BY <2>1, <2>3
  <2> DEFINE g == ReceivedNext(h, n, x, m, o)
  <2>6. Sound(program, source, g) /\ g.name = h.name /\ Ready(program, g)
    <3>1. g = ReceivedNext(h, n, x, m, o)
      OBVIOUS
    <3> HIDE DEF g
    <3>2. Sound(program, source, g)
      BY <2>1, <2>2, <2>3, <2>4, <2>5, <3>1, ReceivedNextSound
    <3>3. g.name = h.name
      BY <2>1, <3>1, ReceivedFields
    <3>4. Ready(program, g)
      BY <2>1, <2>2, <2>3, <2>4, <2>5, <3>1, ReceivedNextSound
    <3> QED
      BY <3>2, <3>3, <3>4
  <2>7. frames' = Append(SubSeq(frames, 1, Len(frames) - 2), g)
    <3>1. [Returned(v, out) EXCEPT !.pc = @ + JumpLength] = g
      BY <2>1 DEF ReceivedNext
    <3>2. Len(frames) # 1
      BY <1>2, <1>4
    <3> HIDE DEF g
    <3> QED
      BY <3>1, <3>2 DEF ReturnTo
  <2>8. g.name = Caller.name
    BY <2>1, <2>6
  <2> HIDE DEF g, w
  <2> QED
    BY <1>1, <1>4, <2>6, <2>7, <2>8, FrameReturned
<1> QED
  BY <1>2, <1>3, <1>4

\* RETURN and RETRVAL.
LEMMA ReturningStep == Inv /\ Returning => Inv'
<1> SUFFICES ASSUME Inv, Returning PROVE Inv'
  OBVIOUS
<1> DEFINE f == Fetched(Top)
           ops == {"return", "retrval"}
           v == IF Code(f)[f.pc].op = "return" THEN Operand(f, 1) ELSE f.rval
           d == Depends(f, {v})
           x == Value(v.tainted, d)
           out == Output(f, {v})
           n == 1
<1>1. Executing(ops) /\ ReturnTo(x, out) /\ Unchanged
  BY DEF Returning
<1>2. frames # <<>> /\ ~throwing
  BY DEF Returning, Executing
<1>3. /\ Sound(program, source, f) /\ Code(f) = CodeOf(program, f)
      /\ Balanced(CodeOf(program, f), ShapeOf(program, f), f.pc)
      /\ ShapeOf(program, f)[f.pc] \in Seq(SUBSET DOMAIN CodeOf(program, f))
  BY <1>1, RunningFrame
<1>4. n \in Nat /\ n \in 1..n
  OBVIOUS
<1>5. Code(f)[f.pc].op = "return" => n <= Len(ShapeOf(program, f)[f.pc])
  BY <1>3 DEF Balanced
<1>6. v = IF Code(f)[f.pc].op = "return" THEN Operand(f, n) ELSE f.rval
  OBVIOUS
<1> HIDE DEF n
<1>7. Code(f)[f.pc].op = "return" => /\ Operand(f, n).tainted \in BOOLEAN
                                    /\ (~source => ~Operand(f, n).tainted)
  BY <1>1, <1>4, <1>5, Used
<1>8. f.rval.tainted \in BOOLEAN /\ (~source => ~f.rval.tainted)
  BY <1>3 DEF Sound, Frames, Values, Untainted
<1> HIDE DEF v
<1>9. v.tainted \in BOOLEAN /\ (~source => v.tainted = FALSE)
  BY <1>6, <1>7, <1>8
<1>10. out \in BOOLEAN /\ d \in BOOLEAN
  BY OutputType
<1>11. ~source => out = FALSE
  BY <1>1, <1>9, PlainOutput
<1> HIDE DEF d, out, f, ops
<1>12. x \in Values /\ x.tainted = v.tainted
  BY <1>9, <1>10, ValueType DEF Value
<1> HIDE DEF x
<1> QED
  BY <1>1, <1>2, <1>9, <1>10, <1>11, <1>12, FrameReturns

\* The result of the running frame.
LEMMA ResultType ==
    ASSUME Inv, frames # <<>>, NEW v, v = Top.rval,
           NEW out, out = (Top.output \/ Top.rval.tainted)
    PROVE  v \in Values /\ out \in BOOLEAN /\ (~source => ~out /\ ~v.tainted)
<1>1. Len(frames) \in DOMAIN frames /\ frames \in Seq(Frames(DOMAIN program))
  BY DEF Inv, Structure
<1>2. Top \in Frames(DOMAIN program) /\ (~source => Untainted(Top))
  BY <1>1 DEF Inv, Plainness, Top
<1> QED
  BY <1>2 DEF Frames, Values, Untainted

\* The end of the code.
LEMMA FallOffStep == Inv /\ FallOff => Inv'
<1> SUFFICES ASSUME Inv, FallOff PROVE Inv'
  OBVIOUS
<1> DEFINE v == Top.rval
           out == Top.output \/ Top.rval.tainted
<1>1. frames # <<>> /\ ~throwing /\ ReturnTo(v, out) /\ Unchanged
  BY DEF FallOff
<1>2. v \in Values /\ out \in BOOLEAN /\ (~source => ~out /\ ~v.tainted)
  BY <1>1, ResultType
<1> HIDE DEF v, out
<1> QED
  BY <1>1, <1>2, FrameReturns

\* A frame ends with an exception.
LEMMA UnwindStep == Inv /\ Unwind => Inv'
<1> SUFFICES ASSUME Inv, Unwind PROVE Inv'
  OBVIOUS
<1> DEFINE v == Top.rval
           out == Top.output \/ Top.rval.tainted
           w == Caller
<1>1. /\ frames \in Seq(Frames(DOMAIN program)) /\ frames # <<>>
      /\ program' = program /\ source' = source /\ exception' = exception
  BY DEF Inv, Structure, Unwind
<1>2. /\ Len(frames) \in Nat /\ (Len(frames) = 1 \/ Len(frames) > 1)
      /\ ~(Len(frames) = 1 /\ Len(frames) > 1)
  BY <1>1, OneOrMore
<1> DEFINE next == IF Calling \in {"getter", "setter"} THEN w ELSE Returned(v, out)
<1>5. /\ throwing' = (Len(frames) > 1)
      /\ frames' = IF Len(frames) = 1 THEN <<>>
                   ELSE Append(SubSeq(frames, 1, Len(frames) - 2), next)
  BY DEF Unwind
<1> HIDE DEF next
<1>7. CASE Len(frames) = 1
  <2>1. frames' = <<>>
    BY <1>5, <1>7
  <2>2. throwing' = FALSE
    <3>1. (Len(frames) > 1) = FALSE
      BY <1>2, <1>7
    <3>2. throwing' = (Len(frames) > 1)
      BY <1>5
    <3> QED
      BY <3>1, <3>2, Zenon
  <2> QED
    BY <1>1, <2>1, <2>2, LastFrameReturned
<1>4. CASE Len(frames) > 1
  <2>1. /\ program \in Programs /\ Ready(program, w) /\ w.pc \in DOMAIN CodeOf(program, w)
        /\ Calling = CodeOf(program, w)[w.pc].op /\ Calling \in Calls
        /\ w \in Frames(DOMAIN program) /\ Rooted(w) /\ (~source => Untainted(w))
        /\ IF Lends(program, w, Top) THEN FlaggedLent(w) ELSE Flagged(w)
        /\ Balanced(CodeOf(program, w), ShapeOf(program, w), w.pc)
    BY <1>4, CallerFrame
  <2>2. throwing' = TRUE /\ frames' = Append(SubSeq(frames, 1, Len(frames) - 2), next)
    BY <1>2, <1>4, <1>5
  <2>3. CASE Calling \in {"getter", "setter"}
    <3>1. frames' = Append(SubSeq(frames, 1, Len(frames) - 2), w)
      BY <2>2, <2>3 DEF next
    <3>2. Sound(program, source, w)
      BY <2>1, <2>3 DEF Sound, Lends
    <3> DEFINE n == 0
    <3>3. n \in Nat /\ Catches(CodeOf(program, w), ShapeOf(program, w), w.pc, n)
      BY <2>1, <2>3 DEF Balanced
    <3>4. n <= Len(ShapeOf(program, w)[w.pc])
      BY <2>1 DEF Ready, Fits
    <3>5. /\ Len(w.stack) \in Nat /\ Len(w.stack) >= Len(w.stack) - n
          /\ \A j \in 1..Len(w.stack) - n : w.stack[j] = w.stack[j]
      BY <2>1 DEF Frames
    <3> HIDE DEF n, w
    <3>6. Fails(program, w)
      BY <2>1, <3>2, <3>3, <3>4, <3>5, FailsAfter
    <3>7. w.name = Caller.name
      BY DEF w
    <3> QED
      BY <1>1, <1>4, <2>2, <3>1, <3>2, <3>6, <3>7, FrameReturned
  <2>4. CASE Calling \in {"call", "eval"}
    <3>1. v \in Values /\ out \in BOOLEAN /\ (~source => ~out /\ ~v.tainted)
      BY <1>1, ResultType
    <3>2. frames' = Append(SubSeq(frames, 1, Len(frames) - 2), Returned(v, out))
      BY <2>2, <2>4 DEF next
    <3> HIDE DEF v, out
    <3>3. PICK h, n, x, m, o :
               /\ Returned(v, out) = Received(h, n, x, m, o)
               /\ Sound(program, source, h) /\ h.name = w.name /\ h.pc = w.pc /\ h.stack = w.stack
               /\ n \in Nat /\ x \in Values /\ m \in Nat /\ o \in BOOLEAN
               /\ ~source => m = NoMark /\ ~o /\ ~x.tainted
               /\ Goes(ShapeOf(program, w), w.pc, w.pc + JumpLength, n, 1)
               /\ Calling \in {"call", "eval"} => n = 3
      BY <1>4, <3>1, ReturnedFrame
    <3>4. /\ Ready(program, h) /\ CodeOf(program, h) = CodeOf(program, w)
          /\ ShapeOf(program, h) = ShapeOf(program, w)
      BY <2>1, <3>3, ChangedReady
    <3>5. h.pc \in DOMAIN CodeOf(program, h)
      BY <2>1, <3>3, <3>4
    <3>6. Catches(CodeOf(program, h), ShapeOf(program, h), h.pc, n)
      BY <2>1, <2>4, <3>3, <3>4 DEF Balanced
    <3>7. n <= Len(ShapeOf(program, h)[h.pc])
      <4>1. Len(ShapeOf(program, h)[h.pc]) \in Nat
        BY <2>1, <3>4, <3>5, CodeIsBalanced DEF Ready, Fits, WellFormed
      <4> QED
        BY <3>3, <3>4, <4>1 DEF Goes
    <3> DEFINE g == Received(h, n, x, m, o)
    <3>8. g = Received(h, n, x, m, o)
      OBVIOUS
    <3>9. Returned(v, out) = g
      BY <3>3
    <3> HIDE DEF g, w
    <3>10. Sound(program, source, g)
      <4>1. /\ program \in Programs /\ Sound(program, source, h) /\ Ready(program, h)
            /\ n \in Nat /\ x \in Values /\ m \in Nat /\ o \in BOOLEAN
            /\ ~source => m = NoMark /\ ~o /\ ~x.tainted
        BY <2>1, <3>3, <3>4
      <4> QED
        BY <3>7, <3>8, <4>1, ReceivedSound
    <3>11. g.name = h.name /\ g.pc = h.pc /\ g.stack = Put(h, n, x)
      BY <3>3, <3>8, ReceivedFields
    <3>12. x \in OnStack
      BY <3>3 DEF OnStack
    <3>13. Fails(program, g)
      BY <2>1, <3>3, <3>4, <3>5, <3>6, <3>7, <3>11, <3>12, ReceivedFails
    <3>14. g.name = Caller.name
      BY <3>3, <3>11 DEF w
    <3> QED
      BY <1>1, <1>4, <2>2, <3>2, <3>10, <3>13, <3>14, <3>9, FrameReturned
  <2> QED
    BY <2>1, <2>3, <2>4 DEF Calls
<1> QED
  BY <1>2, <1>4, <1>7

\* The first state.
LEMMA InitInv == Init => Inv
<1> SUFFICES ASSUME Init PROVE Inv
  OBVIOUS
<1> DEFINE t == FALSE
           f == NewFrame("main", t, Plain, t)
           name == "main"
<1>1. /\ program \in Programs /\ source \in BOOLEAN /\ throwing = FALSE /\ exception = Plain
      /\ frames = <<f>>
  BY DEF Init
<1>2. name \in DOMAIN program
  BY <1>1, ProgramsAssumption
<1>3. Plain \in Values /\ Plain.tainted = FALSE
  BY DEF Plain, Value, Values
<1>4. f = NewFrame(name, t, Plain, t) /\ t \in BOOLEAN /\ ~t
  OBVIOUS
<1> HIDE DEF f, name, t
<1>5. Sound(program, source, f) /\ Ready(program, f)
  BY <1>1, <1>2, <1>3, <1>4, NewFrameSound
<1>6. f \in Frames(DOMAIN program) /\ Rooted(f) /\ Flagged(f) /\ (~source => Untainted(f))
  BY <1>5 DEF Sound
<1>7. /\ frames \in Seq(Frames(DOMAIN program)) /\ Len(frames) = 1 /\ DOMAIN frames = {1}
      /\ frames[1] = f /\ Top = f /\ frames # <<>>
  BY <1>1, <1>6 DEF Top
<1>8. Structure
  <2>1. \A i \in 1..Len(frames) - 1 : Waits(program, frames[i], frames[i + 1])
    BY <1>7
  <2> QED
    BY <1>1, <1>3, <1>5, <1>6, <1>7, <2>1 DEF Structure
<1>9. Flags
  BY <1>6, <1>7 DEF Flags
<1>10. Plainness
  BY <1>1, <1>3, <1>6, <1>7 DEF Plainness
<1> QED
  BY <1>8, <1>9, <1>10 DEF Inv

\* Nothing changes.
LEMMA StutterStep == Inv /\ UNCHANGED vars => Inv'
<1> SUFFICES ASSUME Inv, UNCHANGED vars PROVE Inv'
  OBVIOUS
<1>1. /\ program' = program /\ source' = source /\ frames' = frames
      /\ throwing' = throwing /\ exception' = exception
  BY DEF vars
<1>2. Top' = Top
  BY <1>1 DEF Top
<1> QED
  BY <1>1, <1>2 DEF Inv, Structure, Flags, Plainness

\* Every instruction, call, return and exception keeps the invariant.
LEMMA NextInv == Inv /\ [Next]_vars => Inv'
<1> SUFFICES ASSUME Inv, [Next]_vars PROVE Inv'
  OBVIOUS
<1>1. CASE PushConstant
  BY <1>1, PushConstantStep
<1>2. CASE GetSlot
  BY <1>2, GetSlotStep
<1>3. CASE GetProperty
  BY <1>3, GetPropertyStep
<1>4. CASE SetSlot
  BY <1>4, SetSlotStep
<1>5. CASE NewEqual
  BY <1>5, NewEqualStep
<1>6. CASE Plainly
  BY <1>6, PlainlyStep
<1>7. CASE Goto
  BY <1>7, GotoStep
<1>8. CASE Branch
  BY <1>8, BranchStep
<1>9. CASE GoSub
  BY <1>9, GoSubStep
<1>10. CASE RetSub
  BY <1>10, RetSubStep
<1>11. CASE SetResult
  BY <1>11, SetResultStep
<1>12. CASE SwitchBegins
  BY <1>12, SwitchBeginsStep
<1>13. CASE Case
  BY <1>13, CaseStep
<1>14. CASE SwitchJumps
  BY <1>14, SwitchJumpsStep
<1>15. CASE ToObject
  BY <1>15, ToObjectStep
<1>16. CASE ForVar
  BY <1>16, ForVarStep
<1>17. CASE EnterWith
  BY <1>17, EnterWithStep
<1>18. CASE NewInit
  BY <1>18, NewInitStep
<1>19. CASE PushException
  BY <1>19, PushExceptionStep
<1>20. CASE InitCatchVar
  BY <1>20, InitCatchVarStep
<1>21. CASE Throwing
  BY <1>21, ThrowingStep
<1>22. CASE CallInline
  BY <1>22, CallInlineStep
<1>23. CASE CallInvoke
  BY <1>23, CallInvokeStep
<1>24. CASE EvalCode
  BY <1>24, EvalCodeStep
<1>25. CASE CallGetter
  BY <1>25, CallGetterStep
<1>26. CASE CallSetter
  BY <1>26, CallSetterStep
<1>27. CASE Returning
  BY <1>27, ReturningStep
<1>28. CASE FallOff
  BY <1>28, FallOffStep
<1>29. CASE Catching
  BY <1>29, CatchingStep
<1>30. CASE Unwind
  BY <1>30, UnwindStep
<1>31. CASE Done
  BY <1>31, StutterStep DEF Done
<1>32. CASE UNCHANGED vars
  BY <1>32, StutterStep
<1> QED
  BY <1>1, <1>2, <1>3, <1>4, <1>5, <1>6, <1>7, <1>8, <1>9, <1>10, <1>11, <1>12, <1>13, <1>14,
     <1>15, <1>16, <1>17, <1>18, <1>19, <1>20, <1>21, <1>22, <1>23, <1>24, <1>25, <1>26, <1>27,
     <1>28, <1>29, <1>30, <1>31, <1>32 DEF Next

\* The program counter of a frame, wherever the frame stands.
LEMMA CounterInCode ==
    ASSUME Inv, NEW i, i \in DOMAIN frames, NEW f, f = frames[i]
    PROVE  f.name \in DOMAIN program /\ f.pc \in 1..Len(CodeOf(program, f)) + 1
<1>1. /\ program \in Programs /\ frames \in Seq(Frames(DOMAIN program))
      /\ Len(frames) \in Nat /\ DOMAIN frames = 1..Len(frames) /\ throwing \in BOOLEAN
  BY DEF Inv, Structure
<1>2. f \in Frames(DOMAIN program)
  BY <1>1
<1>3. f.name \in DOMAIN program /\ f.pc \in Nat
  BY <1>2 DEF Frames
<1>4. WellFormed(program, CodeOf(program, f), ShapeOf(program, f))
  BY <1>1, <1>3, CodeIsBalanced
<1>5. CodeOf(program, f) \in Seq(Cells) /\ DOMAIN ShapeOf(program, f) \subseteq 1..Len(CodeOf(program, f)) + 1
  BY <1>4 DEF WellFormed
<1>6. i = Len(frames) \/ i \in 1..Len(frames) - 1
  BY <1>1
<1>7. CASE i \in 1..Len(frames) - 1
  BY <1>3, <1>5, <1>7 DEF Inv, Structure, Waits, Ready
<1>8. CASE i = Len(frames) /\ ~throwing
  <2>1. f = Top /\ frames # <<>>
    BY <1>1, <1>8 DEF Top
  <2> QED
    BY <1>3, <1>5, <1>8, <2>1 DEF Inv, Structure, Ready
<1>9. CASE i = Len(frames) /\ throwing
  <2>1. f = Top
    BY <1>9 DEF Top
  <2>2. f.pc \in DOMAIN CodeOf(program, f)
    BY <1>9, <2>1 DEF Inv, Structure, Fails
  <2> QED
    BY <1>3, <1>5, <2>2
<1> QED
  BY <1>6, <1>7, <1>8, <1>9

\* The invariant gives the types.
LEMMA InvTypes == Inv => TypeOK
<1> SUFFICES ASSUME Inv PROVE TypeOK
  OBVIOUS
<1>1. /\ program \in Programs /\ source \in BOOLEAN /\ throwing \in BOOLEAN /\ exception \in Values
      /\ frames \in Seq(Frames(DOMAIN program)) /\ \A i \in DOMAIN frames : Rooted(frames[i])
  BY DEF Inv, Structure
<1>2. "main" \in DOMAIN program
  BY <1>1, ProgramsAssumption
<1>3. ASSUME NEW i, i \in DOMAIN frames, NEW f, f = frames[i]
      PROVE  /\ f.name \in DOMAIN program
             /\ f.pc \in 1..Len(Code(f)) + 1
             /\ \A v \in {f.stack[j] : j \in DOMAIN f.stack} : v \in OnStack
             /\ f.rval \in Values
             /\ f.slots \in [Slots -> Values]
             /\ f.mark \in Nat
             /\ f.scopes # <<>> /\ f.scopes[1].op = "call"
             /\ \A s \in {f.scopes[j] : j \in DOMAIN f.scopes} :
                  s.istainted \in BOOLEAN /\ s.prev \in BOOLEAN /\ s.from <= s.to
             /\ {f.output, f.saved, f.inherited} \subseteq BOOLEAN
  <2>1. f \in Frames(DOMAIN program) /\ Rooted(f)
    BY <1>1, <1>3
  <2>2. f.name \in DOMAIN program /\ f.pc \in 1..Len(Code(f)) + 1
    BY <1>3, CounterInCode DEF Code, CodeOf, Script
  <2>3. /\ f.stack \in Seq(OnStack) /\ f.rval \in Values /\ f.slots \in [Slots -> Values]
        /\ f.mark \in Nat /\ f.scopes \in Seq(Scopes)
        /\ f.output \in BOOLEAN /\ f.saved \in BOOLEAN /\ f.inherited \in BOOLEAN
    BY <2>1 DEF Frames
  <2>4. \A v \in {f.stack[j] : j \in DOMAIN f.stack} : v \in OnStack
    BY <2>3
  <2>5. \A s \in {f.scopes[j] : j \in DOMAIN f.scopes} :
            s.istainted \in BOOLEAN /\ s.prev \in BOOLEAN /\ s.from <= s.to
    BY <2>3 DEF Scopes
  <2> QED
    BY <2>1, <2>2, <2>3, <2>4, <2>5 DEF Rooted
<1> QED
  BY <1>1, <1>2, <1>3 DEF TypeOK

\* The invariant gives the flags, outside of the calls through js_Invoke.
LEMMA InvFlags == Inv => FlagsAreRestored
<1> SUFFICES ASSUME Inv, NEW i \in DOMAIN frames, i = Len(frames) \/ Inlined(i + 1)
             PROVE  \A k \in DOMAIN frames[i].scopes : FlagAt(frames[i].scopes, k)
  BY DEF FlagsAreRestored, FlagAt
<1>1. ~(i < Len(frames) /\ Lends(program, frames[i], frames[i + 1]))
  <2>1. Len(frames) \in Nat
    BY DEF Inv, Structure
  <2>2. CASE i = Len(frames)
    BY <2>1, <2>2
  <2>3. CASE Inlined(i + 1)
    BY <2>3 DEF Inlined, Script, Lends
  <2> QED
    BY <2>2, <2>3
<1> QED
  BY <1>1 DEF Inv, Flags, Flagged

\* The invariant gives the runs without a tainted value.
LEMMA InvPlain == Inv => PlainRunsStayPlain
  BY DEF Inv, Plainness, Untainted, PlainRunsStayPlain

\* The invariant holds in every state of every run.
LEMMA AlwaysInv == Spec => []Inv
<1>1. Init => Inv
  BY InitInv
<1>2. Inv /\ [Next]_vars => Inv'
  BY NextInv
<1> QED
  BY <1>1, <1>2, PTL DEF Spec

\* Every frame belongs to a script of the program, and its program counter, its
\* operands, its mark and its scopes are what js_Interpret expects of them.
THEOREM TypeCorrect == Spec => []TypeOK
  BY AlwaysInv, InvTypes, PTL

\* The flag that js_Invoke and js_Execute set in the caller's scope is what it was
\* as soon as the call is over, by a return, the end of the code or an exception.
THEOREM FlagsRestored == Spec => []FlagsAreRestored
  BY AlwaysInv, InvFlags, PTL

\* The interpreter taints nothing if no tainted value came in: no operand, no
\* variable, no result, no exception, no scope and no mark.
THEOREM PlainStaysPlain == Spec => []PlainRunsStayPlain
  BY AlwaysInv, InvPlain, PTL
=============================================================================
