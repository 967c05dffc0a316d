----------------------- MODULE XSSTaintedValuesProofs -----------------------
(***************************************************************************)
(* Theorems about XSSTaintedValues: type correctness, values keep their    *)
(* type, plain runs stay plain and the statements that lose taint are      *)
(* known, for any variables, atoms and amount of memory.                   *)
(*                                                                         *)
(* A statement computes a heap h with the result v in it, and SetVar marks *)
(* and stores v.  The lemmas say what each of these parts leaves alone,    *)
(* the theorems put them together for every statement.                     *)
(***************************************************************************)
EXTENDS XSSTaintedValues, TLAPS

ThingType == [tainted : BOOLEAN, type : {"string"} \cup DoubleTypes, empty : BOOLEAN]

\* A heap as TypeOK has it.
HeapOK(h) ==
    /\ h \in [GCThings -> ThingType]
    /\ \A a \in Atoms : h[a].type = "string" /\ (h[a].empty <=> a = Empty)

\* The things that variables refer to have the same type in h, and the same flag.
SameTypes(h) == \A x \in Vars : values[x] \in GCThings => h[values[x]].type = heap[values[x]].type
KeepsFlags(h) == \A x \in Vars : Flag(heap, values[x]) => Flag(h, values[x])

AllPlain(h) == \A t \in GCThings : ~h[t].tainted

LEMMA Disjoint ==
    /\ Immediates = {"int", "void"} /\ Immediates \cap GCThings = {}
    /\ Atoms \subseteq GCThings /\ Things \subseteq GCThings /\ Atoms \cap Things = {}
BY ValuesAssumption DEF Immediates, ImmediateKind, GCThings

LEMMA HeapIsOK == TypeOK => HeapOK(heap)
BY DEF TypeOK, HeapOK, ThingType

-----------------------------------------------------------------------------
\* The allocator finds things that no variable refers to.
LEMMA NewIsFree ==
    ASSUME TypeOK
    PROVE  /\ New \in Things /\ OtherNew \in Things /\ New # OtherNew
           /\ New \notin Referenced /\ OtherNew \notin Referenced
<1>1. values \in [Vars -> Immediates \cup GCThings]
  BY DEF TypeOK, Value
<1>2. PICK t \in Things, u \in Things : t # u /\ \A x \in Vars : values[x] \notin {t, u}
  BY <1>1, MemoryAssumption
<1>3. t \notin Referenced /\ u \notin Referenced
  BY <1>2 DEF Referenced
<1>4. New \in Things /\ New \notin Referenced
  BY <1>3 DEF New
<1>5. \E w \in Things : w \notin Referenced \cup {New}
  BY <1>2, <1>3
<1>6. OtherNew \in Things /\ OtherNew \notin Referenced \cup {New}
  BY <1>5 DEF OtherNew
<1> QED
  BY <1>4, <1>6

LEMMA AllocatedFacts ==
    ASSUME NEW h, HeapOK(h), NEW t \in Things,
           NEW type \in {"string"} \cup DoubleTypes, NEW empty \in BOOLEAN
    PROVE  /\ HeapOK(Allocated(h, t, type, empty))
           /\ Allocated(h, t, type, empty)[t] = Thing(type, empty)
           /\ Thing(type, empty).type = type /\ ~Thing(type, empty).tainted
           /\ \A u \in GCThings \ {t} : Allocated(h, t, type, empty)[u] = h[u]
BY Disjoint DEF Allocated, HeapOK, ThingType, Thing

LEMMA MarkedFacts ==
    ASSUME NEW h, HeapOK(h), NEW t \in GCThings, NEW flag \in BOOLEAN
    PROVE  /\ HeapOK(Marked(h, t, flag))
           /\ Marked(h, t, flag)[t].tainted <=> flag
           /\ \A u \in GCThings : Marked(h, t, flag)[u].type = h[u].type
           /\ \A u \in GCThings \ {t} : Marked(h, t, flag)[u] = h[u]
BY DEF Marked, HeapOK, ThingType

Flagged(h, t) == [h EXCEPT ![t].tainted = TRUE]

LEMMA FlaggedFacts ==
    ASSUME NEW h, HeapOK(h), NEW t \in GCThings, NEW g, g = Flagged(h, t)
    PROVE  /\ HeapOK(g) /\ g[t].tainted
           /\ \A u \in GCThings : g[u].type = h[u].type
           /\ \A u \in GCThings \ {t} : g[u] = h[u]
<1>1. g = [h EXCEPT ![t].tainted = TRUE]
  BY DEF Flagged
<1>2. g[t] = [h[t] EXCEPT !.tainted = TRUE] /\ h[t] \in ThingType
  BY <1>1 DEF HeapOK
<1>3. g[t] \in ThingType /\ g[t].tainted /\ g[t].type = h[t].type /\ g[t].empty = h[t].empty
  BY <1>2 DEF ThingType
<1>4. g \in [GCThings -> ThingType] /\ \A u \in GCThings \ {t} : g[u] = h[u]
  BY <1>1, <1>3 DEF HeapOK
<1> QED
  BY <1>3, <1>4, Disjoint DEF HeapOK

\* A new thing leaves what variables refer to alone.
LEMMA AllocatedKeeps ==
    ASSUME TypeOK, NEW h, HeapOK(h), SameTypes(h), KeepsFlags(h),
           NEW t \in Things, t \notin Referenced,
           NEW type \in {"string"} \cup DoubleTypes, NEW empty \in BOOLEAN
    PROVE  SameTypes(Allocated(h, t, type, empty)) /\ KeepsFlags(Allocated(h, t, type, empty))
BY AllocatedFacts DEF SameTypes, KeepsFlags, Flag, Referenced

LEMMA HeapKeeps == TypeOK => SameTypes(heap) /\ KeepsFlags(heap)
BY DEF SameTypes, KeepsFlags

-----------------------------------------------------------------------------
\* TaintOnOutput of v: the result has v's type, the flag if there is one to be put
\* on it, and no other thing but the free t changes.
LEMMA TaintOnOutputFacts ==
    ASSUME NEW h, HeapOK(h), NEW v \in Value, NEW out \in BOOLEAN, NEW t \in Things,
           NEW r, r = TaintOnOutput(h, v, out, t)
    PROVE  /\ HeapOK(r.heap) /\ r.value \in Value
           /\ r.value = v \/ (r.value = t /\ v \notin GCThings)
           /\ TypeOfValue(r.heap, r.value) = TypeOfValue(h, v)
           /\ Unboxed(r.heap, r.value) = Unboxed(h, v)
           /\ out => Flag(r.heap, r.value)
           /\ ~out => r.heap = h /\ r.value = v
           /\ \A u \in GCThings : u # t \/ v \in GCThings =>
                 r.heap[u].type = h[u].type /\ (h[u].tainted => r.heap[u].tainted)
<1>1. CASE ~out
  <2>1. r.heap = h /\ r.value = v
    BY <1>1 DEF TaintOnOutput
  <2> QED
    BY <1>1, <2>1
<1>2. CASE out /\ v \in GCThings
  <2>1. r.heap = Flagged(h, v) /\ r.value = v
    BY <1>2 DEF TaintOnOutput, Marked, Flagged
  <2>2. /\ HeapOK(r.heap) /\ r.heap[v].tainted
        /\ \A u \in GCThings : r.heap[u].type = h[u].type
        /\ \A u \in GCThings \ {v} : r.heap[u] = h[u]
    <3>1. v \in GCThings /\ HeapOK(h)
      BY <1>2
    <3> QED
      BY <2>1, <3>1, FlaggedFacts
  <2>3. TypeOfValue(r.heap, v) = TypeOfValue(h, v) /\ Unboxed(r.heap, v) = Unboxed(h, v)
    BY <1>2, <2>2 DEF TypeOfValue, IsString, Unboxed
  <2> QED
    BY <1>2, <2>1, <2>2, <2>3 DEF Flag
<1>3. CASE out /\ v \notin GCThings
  <2> DEFINE g == Allocated(h, t, v, FALSE)
  <2>1. v \in Immediates /\ v \in DoubleTypes /\ t \in GCThings
    BY <1>3, Disjoint DEF Value, DoubleTypes
  <2>2. /\ HeapOK(g) /\ g[t].type = v
        /\ \A u \in GCThings \ {t} : g[u] = h[u]
    BY <2>1, Disjoint DEF Allocated, HeapOK, ThingType, Thing
  <2>3. r.heap = Flagged(g, t) /\ r.value = t
    BY <1>3 DEF TaintOnOutput, Marked, Flagged
  <2> HIDE DEF g
  <2>4. /\ HeapOK(r.heap) /\ r.heap[t].tainted /\ r.heap[t].type = v
        /\ \A u \in GCThings \ {t} : r.heap[u] = h[u]
    BY <2>1, <2>2, <2>3, FlaggedFacts
  <2>5. Unboxed(r.heap, t) = v /\ Unboxed(h, v) = v /\ ~IsString(r.heap, t) /\ ~IsString(h, v)
    BY <1>3, <2>1, <2>4, Disjoint DEF Unboxed, IsString
  <2>6. TypeOfValue(r.heap, t) = TypeOfValue(h, v)
    BY <2>5 DEF TypeOfValue
  <2> QED
    BY <1>3, <2>1, <2>3, <2>4, <2>5, <2>6 DEF Flag, Value
<1> QED
  BY <1>1, <1>2, <1>3

\* The end of a statement: the collector leaves the atoms and what is referred to.
LEMMA FinishFacts ==
    ASSUME NEW h, HeapOK(h), NEW vals \in [Vars -> Value], Finish(h, vals)
    PROVE  /\ HeapOK(heap') /\ values' = vals /\ UNCHANGED <<scope, source>>
           /\ \A x \in Vars : /\ TypeOfValue(heap', vals[x]) = TypeOfValue(h, vals[x])
                              /\ Flag(heap', vals[x]) <=> Flag(h, vals[x])
           /\ AllPlain(h) => AllPlain(heap')
<1>1. heap' = Collected(h, vals) /\ values' = vals /\ UNCHANGED <<scope, source>>
  BY DEF Finish
<1>2. \A t \in GCThings : heap'[t] = h[t] \/ (t \notin Atoms /\ heap'[t] = Free)
  <2> SUFFICES ASSUME NEW t \in GCThings
               PROVE  heap'[t] = h[t] \/ (t \notin Atoms /\ heap'[t] = Free)
    OBVIOUS
  <2>1. heap'[t] = IF t \in Atoms \/ \E x \in Vars : vals[x] = t THEN h[t] ELSE Free
    BY <1>1, Zenon DEF Collected
  <2> QED
    BY <2>1
<1>3. Free \in ThingType /\ ~Free.tainted
  BY DEF Free, Thing, ThingType
<1>4. heap' = [t \in GCThings |-> heap'[t]]
  BY <1>1 DEF Collected
<1>5. HeapOK(heap')
  BY <1>2, <1>3, <1>4, Disjoint DEF HeapOK
<1>6. ASSUME NEW x \in Vars, vals[x] \in GCThings PROVE heap'[vals[x]] = h[vals[x]]
  BY <1>1, <1>6 DEF Collected
<1>7. AllPlain(h) => AllPlain(heap')
  BY <1>2, <1>3 DEF AllPlain
<1> QED
  BY <1>1, <1>5, <1>6, <1>7 DEF TypeOfValue, IsString, Unboxed, Flag

\* SetVar: x gets v with its type and the flag, the other variables stay.
LEMMA SetVarFacts ==
    ASSUME TypeOK, NEW x \in Vars, NEW h, HeapOK(h), SameTypes(h), NEW v \in Value,
           NEW out \in BOOLEAN, SetVar(x, h, v, out)
    PROVE  /\ HeapOK(heap') /\ values' \in [Vars -> Value] /\ UNCHANGED <<scope, source>>
           /\ TypeOfValue(heap', values'[x]) = TypeOfValue(h, v)
           /\ out => Flag(heap', values'[x])
           /\ \A y \in Vars \ {x} :
                 /\ values'[y] = values[y]
                 /\ TypeOfValue(heap', values'[y]) = TypeOfValue(heap, values[y])
                 /\ Flag(h, values[y]) => Flag(heap', values'[y])
           /\ AllPlain(h) /\ ~out => AllPlain(heap')
<1> DEFINE r == TaintOnOutput(h, v, out, New)
           vals == [values EXCEPT ![x] = r.value]
<1>1. New \in Things /\ New \notin Referenced
  BY NewIsFree
<1>2. /\ HeapOK(r.heap) /\ r.value \in Value
      /\ TypeOfValue(r.heap, r.value) = TypeOfValue(h, v)
      /\ out => Flag(r.heap, r.value)
      /\ ~out => r.heap = h
      /\ \A u \in GCThings : u # New => r.heap[u].type = h[u].type /\ (h[u].tainted => r.heap[u].tainted)
  BY <1>1, TaintOnOutputFacts
<1>3. Finish(r.heap, vals)
  BY DEF SetVar
<1> HIDE DEF r
<1>4. values \in [Vars -> Value]
  BY DEF TypeOK
<1>5. vals \in [Vars -> Value] /\ vals[x] = r.value /\ \A y \in Vars \ {x} : vals[y] = values[y]
  BY <1>2, <1>4
<1> HIDE DEF vals
<1>6. /\ HeapOK(heap') /\ values' = vals /\ UNCHANGED <<scope, source>>
      /\ \A y \in Vars : /\ TypeOfValue(heap', vals[y]) = TypeOfValue(r.heap, vals[y])
                         /\ Flag(heap', vals[y]) <=> Flag(r.heap, vals[y])
      /\ AllPlain(r.heap) => AllPlain(heap')
  BY <1>2, <1>3, <1>5, FinishFacts
<1>7. ASSUME NEW y \in Vars \ {x}
      PROVE  /\ TypeOfValue(r.heap, values[y]) = TypeOfValue(heap, values[y])
             /\ Flag(h, values[y]) => Flag(r.heap, values[y])
  <2>1. values[y] # New
    BY <1>1 DEF Referenced
  <2>2. values[y] \in GCThings => r.heap[values[y]].type = heap[values[y]].type
    BY <1>2, <2>1 DEF SameTypes
  <2> QED
    BY <1>2, <2>1, <2>2 DEF TypeOfValue, IsString, Unboxed, Flag
<1>8. /\ TypeOfValue(heap', values'[x]) = TypeOfValue(h, v)
      /\ out => Flag(heap', values'[x])
  BY <1>2, <1>5, <1>6
<1>9. \A y \in Vars \ {x} : /\ values'[y] = values[y]
                            /\ TypeOfValue(heap', values'[y]) = TypeOfValue(heap, values[y])
                            /\ Flag(h, values[y]) => Flag(heap', values'[y])
  BY <1>5, <1>6, <1>7
<1> QED
  BY <1>2, <1>5, <1>6, <1>8, <1>9

-----------------------------------------------------------------------------
(***************************************************************************)
(* The inductive invariant, and what it takes for a statement to keep it.  *)
(***************************************************************************)

IInv == TypeOK /\ KindsSurvive /\ PlainRunsStayPlain

\* x gets v, which the language gives the type k and s the secret, out of heap h.
Statement(x, h, v, out, s, k) ==
    /\ HeapOK(h) /\ SameTypes(h) /\ v \in Value
    /\ out \in BOOLEAN /\ s \in BOOLEAN /\ k \in Kinds
    /\ TypeOfValue(h, v) = k
    /\ ~source => AllPlain(h) /\ ~out
    /\ NothingIsLost => (scope.secret \/ s => out)
    /\ SetVar(x, h, v, out) /\ Means(x, s, k)

LEMMA StatementKeepsInv ==
    ASSUME IInv, NEW x \in Vars, NEW h, NEW v, NEW out, NEW s, NEW k,
           Statement(x, h, v, out, s, k)
    PROVE  IInv'
<1>1. /\ HeapOK(heap') /\ values' \in [Vars -> Value] /\ UNCHANGED <<scope, source>>
      /\ TypeOfValue(heap', values'[x]) = k
      /\ \A y \in Vars \ {x} : TypeOfValue(heap', values'[y]) = TypeOfValue(heap, values[y])
      /\ AllPlain(h) /\ ~out => AllPlain(heap')
  BY SetVarFacts DEF Statement, IInv
<1>2. /\ secret' \in [Vars -> BOOLEAN] /\ kind' \in [Vars -> Kinds]
      /\ kind'[x] = k /\ \A y \in Vars \ {x} : kind'[y] = kind[y]
  BY DEF Statement, Means, IInv, TypeOK
<1>3. TypeOK'
  BY <1>1, <1>2 DEF IInv, TypeOK, HeapOK, ThingType
<1>4. KindsSurvive'
  BY <1>1, <1>2 DEF IInv, KindsSurvive
<1>5. PlainRunsStayPlain'
  BY <1>1 DEF Statement, IInv, PlainRunsStayPlain, AllPlain
<1> QED
  BY <1>3, <1>4, <1>5 DEF IInv

\* A variable that is secret and not tainted behind the statement has kept a thing
\* whose flag was cleared.
LEMMA StatementLosses ==
    ASSUME IInv, NothingIsLost, NEW x \in Vars, NEW h, NEW v, NEW out, NEW s, NEW k,
           Statement(x, h, v, out, s, k),
           NEW y \in Vars, secret'[y], ~Flag(heap', values'[y])
    PROVE  values'[y] = values[y] /\ Flag(heap, values[y]) /\ ~Flag(h, values[y])
<1>1. /\ out => Flag(heap', values'[x])
      /\ \A z \in Vars \ {x} : values'[z] = values[z] /\ (Flag(h, values[z]) => Flag(heap', values'[z]))
  BY SetVarFacts DEF Statement, IInv
<1>2. /\ secret'[x] => scope.secret \/ s
      /\ \A z \in Vars \ {x} : secret'[z] = secret[z]
  BY DEF Statement, Means, IInv, TypeOK
<1>3. y # x
  BY <1>1, <1>2 DEF Statement
<1> QED
  BY <1>1, <1>2, <1>3 DEF NothingIsLost

LEMMA StatementLosesNothing ==
    ASSUME IInv, NothingIsLost, NEW x \in Vars, NEW h, NEW v, NEW out, NEW s, NEW k,
           Statement(x, h, v, out, s, k), KeepsFlags(h)
    PROVE  NothingIsLost'
<1>1. ASSUME NEW y \in Vars, secret'[y] PROVE Flag(heap', values'[y])
  BY <1>1, StatementLosses DEF KeepsFlags
<1>2. scope' = scope
  BY SetVarFacts DEF Statement, IInv
<1> QED
  BY <1>1, <1>2 DEF NothingIsLost

-----------------------------------------------------------------------------
(***************************************************************************)
(* The statements.                                                         *)
(***************************************************************************)

\* What a variable holds, and its flag in a plain run.
LEMMA VariableFacts ==
    ASSUME IInv, NEW y \in Vars
    PROVE  /\ values[y] \in Value /\ TypeOfValue(heap, values[y]) = kind[y]
           /\ kind[y] \in Kinds /\ secret[y] \in BOOLEAN
           /\ Flag(heap, values[y]) \in BOOLEAN /\ scope.tainted \in BOOLEAN
           /\ source \in BOOLEAN
           /\ ~source => ~Flag(heap, values[y]) /\ ~scope.tainted /\ AllPlain(heap)
           /\ NothingIsLost => (secret[y] => Flag(heap, values[y])) /\ (scope.secret => scope.tainted)
<1>1. /\ heap \in [GCThings -> ThingType] /\ values[y] \in Value /\ kind[y] \in Kinds
      /\ secret[y] \in BOOLEAN /\ scope.tainted \in BOOLEAN /\ source \in BOOLEAN
  BY DEF IInv, TypeOK, ThingType
<1>2. Flag(heap, values[y]) \in BOOLEAN
  BY <1>1 DEF Flag, ThingType
<1> QED
  BY <1>1, <1>2 DEF IInv, KindsSurvive, PlainRunsStayPlain, AllPlain, NothingIsLost, Flag

LEMMA CopyStatement ==
    ASSUME IInv, NEW x \in Vars, NEW y \in Vars, Copy(x, y)
    PROVE  \E v, out, s, k : Statement(x, heap, v, out, s, k)
<1>1. Statement(x, heap, values[y], scope.tainted \/ Flag(heap, values[y]), secret[y], kind[y])
  BY VariableFacts, HeapIsOK, HeapKeeps DEF Copy, Statement, IInv
<1> QED
  BY <1>1

LEMMA ConstantStatement ==
    ASSUME IInv, NEW x \in Vars, Constant(x)
    PROVE  \E v, out, s, k : Statement(x, heap, v, out, s, k)
<1>1. PICK v \in Immediates : SetVar(x, heap, v, scope.tainted) /\ Means(x, FALSE, ImmediateKind[v])
  BY DEF Constant
<1>2. TypeOfValue(heap, v) = ImmediateKind[v] /\ ImmediateKind[v] \in Kinds /\ v \in Value
  BY Disjoint DEF TypeOfValue, IsString, Unboxed, ImmediateKind, Immediates, Kinds, Value
<1>3. Statement(x, heap, v, scope.tainted, FALSE, ImmediateKind[v])
  BY <1>1, <1>2, VariableFacts, HeapIsOK, HeapKeeps DEF Statement, IInv
<1> QED
  BY <1>3

\* What holds of a new thing in front of SetVar.
LEMMA NewThing ==
    ASSUME IInv, NEW t \in Things, t \notin Referenced,
           NEW type \in {"string"} \cup DoubleTypes,
           NEW h, \E empty \in BOOLEAN : h = Allocated(heap, t, type, empty)
    PROVE  /\ HeapOK(h) /\ SameTypes(h) /\ KeepsFlags(h) /\ t \in Value /\ t \in GCThings
           /\ h[t].type = type /\ ~h[t].tainted
           /\ \A u \in GCThings \ {t} : h[u] = heap[u]
           /\ TypeOfValue(h, t) = IF type = "string" THEN "string"
                                  ELSE IF type = "void" THEN "undefined" ELSE "number"
           /\ AllPlain(heap) => AllPlain(h)
<1> PICK empty \in BOOLEAN : h = Allocated(heap, t, type, empty)
  OBVIOUS
<1>1. t \in GCThings /\ t \notin Immediates
  BY Disjoint
<1>2. /\ HeapOK(h) /\ h[t] = Thing(type, empty)
      /\ Thing(type, empty).type = type /\ ~Thing(type, empty).tainted
      /\ \A u \in GCThings \ {t} : h[u] = heap[u]
  BY HeapIsOK, AllocatedFacts DEF IInv
<1>3. SameTypes(h) /\ KeepsFlags(h)
  BY HeapIsOK, HeapKeeps, AllocatedKeeps DEF IInv
<1>4. TypeOfValue(h, t) = IF type = "string" THEN "string"
                          ELSE IF type = "void" THEN "undefined" ELSE "number"
  BY <1>1, <1>2, Disjoint DEF TypeOfValue, IsString, Unboxed, DoubleTypes
<1>5. AllPlain(heap) => AllPlain(h)
  BY <1>1, <1>2 DEF AllPlain
<1> QED
  BY <1>1, <1>2, <1>3, <1>4, <1>5 DEF Value

LEMMA NewFacts == IInv => New \in Things /\ New \notin Referenced
BY NewIsFree DEF IInv

LEMMA LiteralStatement ==
    ASSUME IInv, NEW x \in Vars, Literal(x)
    PROVE  \E h, v, out, s, k : Statement(x, h, v, out, s, k) /\ KeepsFlags(h)
<1>1. PICK a \in Atoms :
           /\ IF scope.tainted
              THEN SetVar(x, Allocated(heap, New, "string", a = Empty), New, TRUE)
              ELSE SetVar(x, heap, a, FALSE)
           /\ Means(x, FALSE, "string")
  BY DEF Literal
<1>2. "string" \in Kinds
  BY DEF Kinds
<1>3. CASE scope.tainted
  <2> DEFINE h == Allocated(heap, New, "string", a = Empty)
  <2>2. SetVar(x, h, New, TRUE)
    BY <1>1, <1>3
  <2>a. \E e \in BOOLEAN : h = Allocated(heap, New, "string", e)
    OBVIOUS
  <2> HIDE DEF h
  <2>1. /\ HeapOK(h) /\ SameTypes(h) /\ KeepsFlags(h) /\ New \in Value
        /\ TypeOfValue(h, New) = "string" /\ (AllPlain(heap) => AllPlain(h))
    BY <2>a, NewFacts, NewThing
  <2>3. Statement(x, h, New, TRUE, FALSE, "string")
    BY <1>1, <1>2, <1>3, <2>1, <2>2, VariableFacts DEF Statement
  <2> QED
    BY <2>1, <2>3
<1>4. CASE ~scope.tainted
  <2>1. a \in Value /\ TypeOfValue(heap, a) = "string"
    BY HeapIsOK, Disjoint DEF IInv, HeapOK, TypeOfValue, IsString, Value
  <2>2. Statement(x, heap, a, FALSE, FALSE, "string")
    BY <1>1, <1>2, <1>4, <2>1, VariableFacts, HeapIsOK, HeapKeeps DEF Statement, IInv
  <2> QED
    BY <2>2, HeapKeeps DEF IInv
<1> QED
  BY <1>3, <1>4

LEMMA ReadStatement ==
    ASSUME IInv, NEW x \in Vars, Read(x)
    PROVE  \E h, v, out, s, k : Statement(x, h, v, out, s, k) /\ KeepsFlags(h)
<1>1. PICK empty \in BOOLEAN :
           /\ SetVar(x, Allocated(heap, New, "string", empty), New, scope.tainted \/ source)
           /\ Means(x, source, "string")
  BY DEF Read
<1> DEFINE h == Allocated(heap, New, "string", empty)
<1>3. SetVar(x, h, New, scope.tainted \/ source)
  BY <1>1
<1>a. \E e \in BOOLEAN : h = Allocated(heap, New, "string", e)
  OBVIOUS
<1> HIDE DEF h
<1>2. /\ HeapOK(h) /\ SameTypes(h) /\ KeepsFlags(h) /\ New \in Value
      /\ TypeOfValue(h, New) = "string" /\ (AllPlain(heap) => AllPlain(h))
  BY <1>a, NewFacts, NewThing
<1>4. Statement(x, h, New, scope.tainted \/ source, source, "string")
  BY <1>1, <1>2, <1>3, VariableFacts DEF Statement, Kinds
<1> QED
  BY <1>2, <1>4

\* A concatenation is a string, and only the thing for a new one has changed.
LEMMA ConcatFacts ==
    ASSUME IInv, NEW a \in Vars, NEW b \in Vars, NEW r, r = Concat(heap, values[a], values[b])
    PROVE  /\ HeapOK(r.heap) /\ SameTypes(r.heap) /\ KeepsFlags(r.heap) /\ r.value \in Value
           /\ TypeOfValue(r.heap, r.value) = "string" /\ (AllPlain(heap) => AllPlain(r.heap))
<1> DEFINE made == Allocated(heap, New, "string", FALSE)
<1>a. \E e \in BOOLEAN : made = Allocated(heap, New, "string", e)
  OBVIOUS
<1>2. /\ r.heap = made
      /\ r.value \in {AsString(heap, values[a]), AsString(heap, values[b]), New}
  BY DEF Concat
<1> HIDE DEF made
<1>1. /\ HeapOK(made) /\ SameTypes(made) /\ KeepsFlags(made)
      /\ New \in GCThings /\ made[New].type = "string" /\ (AllPlain(heap) => AllPlain(made))
  BY <1>a, NewFacts, NewThing
<1>3. ASSUME NEW x \in Vars
      PROVE  AsString(heap, values[x]) \in GCThings /\ made[AsString(heap, values[x])].type = "string"
  <2>1. CASE IsString(heap, values[x])
    BY <1>1, <2>1 DEF AsString, IsString, SameTypes
  <2>2. CASE ~IsString(heap, values[x])
    BY <1>1, <2>2, Disjoint, AtomsAssumption DEF AsString, HeapOK
  <2> QED
    BY <2>1, <2>2
<1>4. r.value \in GCThings /\ made[r.value].type = "string"
  BY <1>1, <1>2, <1>3
<1> QED
  BY <1>1, <1>2, <1>4 DEF Value, TypeOfValue, IsString

LEMMA AddStatement ==
    ASSUME IInv, NEW x \in Vars, NEW a \in Vars, NEW b \in Vars, Add(x, a, b)
    PROVE  \E h, v, out, s, k : Statement(x, h, v, out, s, k) /\ KeepsFlags(h)
<1> DEFINE out == scope.tainted \/ Flag(heap, values[a]) \/ Flag(heap, values[b])
           s == secret[a] \/ secret[b]
           r == Concat(heap, values[a], values[b])
<1>1. /\ out \in BOOLEAN /\ s \in BOOLEAN
      /\ ~source => ~out /\ AllPlain(heap)
      /\ NothingIsLost => (scope.secret \/ s => out)
  BY VariableFacts
<1>2. CASE IsString(heap, values[a]) \/ IsString(heap, values[b])
  <2>1. SetVar(x, r.heap, r.value, out) /\ Means(x, s, "string")
    BY <1>2 DEF Add
  <2>2. /\ HeapOK(r.heap) /\ SameTypes(r.heap) /\ KeepsFlags(r.heap) /\ r.value \in Value
        /\ TypeOfValue(r.heap, r.value) = "string" /\ (AllPlain(heap) => AllPlain(r.heap))
    BY ConcatFacts
  <2> HIDE DEF out, s, r
  <2>3. Statement(x, r.heap, r.value, out, s, "string")
    BY <1>1, <2>1, <2>2 DEF Statement, Kinds
  <2> QED
    BY <2>2, <2>3
<1>3. CASE ~(IsString(heap, values[a]) \/ IsString(heap, values[b]))
  <2>1. PICK type \in {"int", "double"} :
             /\ SetVar(x, Allocated(heap, New, type, FALSE), New, out)
             /\ Means(x, s, "number")
    BY <1>3 DEF Add
  <2> DEFINE h == Allocated(heap, New, type, FALSE)
  <2>2. type \in {"string"} \cup DoubleTypes
    BY DEF DoubleTypes
  <2>4. SetVar(x, h, New, out)
    BY <2>1
  <2>a. \E e \in BOOLEAN : h = Allocated(heap, New, type, e)
    OBVIOUS
  <2> HIDE DEF out, s, h
  <2>3. /\ HeapOK(h) /\ SameTypes(h) /\ KeepsFlags(h) /\ New \in Value
        /\ TypeOfValue(h, New) = "number" /\ (AllPlain(heap) => AllPlain(h))
    BY <2>2, <2>a, NewFacts, NewThing
  <2>5. Statement(x, h, New, out, s, "number")
    BY <1>1, <2>1, <2>3, <2>4 DEF Statement, Kinds
  <2> QED
    BY <2>3, <2>5
<1> QED
  BY <1>2, <1>3

-----------------------------------------------------------------------------
\* typeof and for-in clear the flag of the string they return.
Cleared(h, t) == [h EXCEPT ![t].tainted = FALSE]

LEMMA ClearedFacts ==
    ASSUME NEW h, HeapOK(h), SameTypes(h), NEW t \in GCThings, NEW g, g = Cleared(h, t)
    PROVE  /\ HeapOK(g) /\ SameTypes(g) /\ g[t].type = h[t].type
           /\ \A u \in GCThings \ {t} : g[u] = h[u]
           /\ AllPlain(h) => AllPlain(g)
<1>1. g = [h EXCEPT ![t].tainted = FALSE]
  BY DEF Cleared
<1>2. g[t] = [h[t] EXCEPT !.tainted = FALSE] /\ h[t] \in ThingType
  BY <1>1 DEF HeapOK
<1>3. g[t] \in ThingType /\ ~g[t].tainted /\ g[t].type = h[t].type /\ g[t].empty = h[t].empty
  BY <1>2 DEF ThingType
<1>4. g \in [GCThings -> ThingType] /\ \A u \in GCThings \ {t} : g[u] = h[u]
  BY <1>1, <1>3 DEF HeapOK
<1>5. HeapOK(g)
  BY <1>3, <1>4, Disjoint DEF HeapOK
<1>6. SameTypes(g) /\ (AllPlain(h) => AllPlain(g))
  BY <1>3, <1>4 DEF SameTypes, AllPlain
<1> QED
  BY <1>3, <1>4, <1>5, <1>6

\* Every variable but those that hold the atom "name" keeps its flag.
KeepsFlagsBut(h, name) ==
    \A x \in Vars : Flag(heap, values[x]) /\ ~Flag(h, values[x]) => values[x] = name /\ name \in Atoms

LEMMA TypeOfStatement ==
    ASSUME IInv, NEW x \in Vars, NEW y \in Vars, TypeOf(x, y)
    PROVE  \E h, v, out, s, k, name : Statement(x, h, v, out, s, k) /\ KeepsFlagsBut(h, name)
<1> DEFINE name == TypeName(TypeOfValue(heap, values[y]))
           out == scope.tainted \/ Flag(heap, values[y])
           h == Marked(heap, name, FALSE)
<1>1. name \in Atoms /\ name \in GCThings /\ name \in Value
  BY AtomsAssumption, Disjoint DEF TypeOfValue, TypeName, Value
<1>2. SetVar(x, h, name, out) /\ Means(x, secret[y], "string")
  BY DEF TypeOf
<1>3. h = Cleared(heap, name)
  BY DEF Marked, Cleared
<1>4. /\ out \in BOOLEAN /\ secret[y] \in BOOLEAN
      /\ ~source => ~out /\ AllPlain(heap)
      /\ NothingIsLost => (scope.secret \/ secret[y] => out)
  BY VariableFacts
<1> HIDE DEF out, h, name
<1>5. /\ HeapOK(h) /\ SameTypes(h) /\ h[name].type = "string" /\ (AllPlain(heap) => AllPlain(h))
      /\ \A u \in GCThings \ {name} : h[u] = heap[u]
  <2>1. HeapOK(heap) /\ SameTypes(heap)
    BY HeapIsOK, HeapKeeps DEF IInv
  <2>2. heap[name].type = "string"
    BY <1>1, <2>1 DEF HeapOK
  <2> QED
    BY <1>1, <1>3, <2>1, <2>2, ClearedFacts
<1>6. TypeOfValue(h, name) = "string" /\ KeepsFlagsBut(h, name)
  BY <1>1, <1>5 DEF TypeOfValue, IsString, KeepsFlagsBut, Flag
<1>7. Statement(x, h, name, out, secret[y], "string")
  BY <1>1, <1>2, <1>4, <1>5, <1>6 DEF Statement, Kinds
<1> QED
  BY <1>6, <1>7

LEMMA ForInStatement ==
    ASSUME IInv, NEW x \in Vars, ForIn(x)
    PROVE  \E h, v, out, s, k, name : Statement(x, h, v, out, s, k) /\ KeepsFlagsBut(h, name)
<1>1. PICK o \in BOOLEAN, name \in Atoms \cup {New} :
           /\ o => source
           /\ SetVar(x, Marked(IF name = New THEN Allocated(heap, New, "string", FALSE) ELSE heap,
                               name, FALSE), name, scope.tainted \/ o)
           /\ Means(x, o, "string")
  BY DEF ForIn
<1> DEFINE out == scope.tainted \/ o
           made == IF name = New THEN Allocated(heap, New, "string", FALSE) ELSE heap
           h == Cleared(made, name)
<1>2. SetVar(x, h, name, out) /\ Means(x, o, "string")
  BY <1>1 DEF Marked, Cleared
<1>3. /\ out \in BOOLEAN /\ o \in BOOLEAN
      /\ ~source => ~out /\ AllPlain(heap)
      /\ NothingIsLost => (scope.secret \/ o => out)
  <2>1. /\ scope.tainted \in BOOLEAN /\ source \in BOOLEAN
        /\ ~source => ~scope.tainted /\ AllPlain(heap)
        /\ NothingIsLost => (scope.secret => scope.tainted)
    BY VariableFacts
  <2> QED
    BY <1>1, <2>1
<1>4. New \in Things /\ New \notin Referenced /\ New \in GCThings /\ New \notin Atoms
  BY NewFacts, Disjoint
<1>5. name \in GCThings /\ name \in Value
  BY <1>4, Disjoint DEF Value
<1>6. CASE name = New
  <2>1. \E e \in BOOLEAN : made = Allocated(heap, New, "string", e)
    BY <1>6
  <2> HIDE DEF out, made
  <2>2. /\ HeapOK(made) /\ SameTypes(made) /\ KeepsFlags(made) /\ made[New].type = "string"
        /\ AllPlain(heap) => AllPlain(made)
    BY <1>4, <2>1, NewThing
  <2>3. h = Cleared(made, name)
    OBVIOUS
  <2> HIDE DEF h
  <2>4. /\ HeapOK(h) /\ SameTypes(h) /\ h[name].type = "string" /\ (AllPlain(heap) => AllPlain(h))
        /\ \A u \in GCThings \ {name} : h[u] = made[u]
    BY <1>5, <1>6, <2>2, <2>3, ClearedFacts
  <2>5. TypeOfValue(h, name) = "string"
    BY <1>5, <2>4 DEF TypeOfValue, IsString
  <2>6. KeepsFlagsBut(h, name)
    BY <1>4, <1>6, <2>2, <2>4 DEF KeepsFlagsBut, KeepsFlags, Flag, Referenced
  <2>7. Statement(x, h, name, out, o, "string")
    BY <1>2, <1>3, <1>5, <2>4, <2>5 DEF Statement, Kinds
  <2> QED
    BY <2>6, <2>7
<1>7. CASE name # New
  <2>1. made = heap /\ name \in Atoms
    BY <1>7
  <2> HIDE DEF out, made
  <2>2. HeapOK(heap) /\ SameTypes(heap) /\ heap[name].type = "string"
    BY <2>1, HeapIsOK, HeapKeeps DEF IInv, HeapOK
  <2>3. h = Cleared(heap, name)
    BY <2>1
  <2> HIDE DEF h
  <2>4. /\ HeapOK(h) /\ SameTypes(h) /\ h[name].type = "string" /\ (AllPlain(heap) => AllPlain(h))
        /\ \A u \in GCThings \ {name} : h[u] = heap[u]
    BY <1>5, <2>2, <2>3, ClearedFacts
  <2>5. TypeOfValue(h, name) = "string" /\ KeepsFlagsBut(h, name)
    BY <1>5, <2>1, <2>4 DEF TypeOfValue, IsString, KeepsFlagsBut, Flag
  <2>6. Statement(x, h, name, out, o, "string")
    BY <1>2, <1>3, <1>5, <2>4, <2>5 DEF Statement, Kinds
  <2> QED
    BY <2>5, <2>6
<1> QED
  BY <1>6, <1>7

-----------------------------------------------------------------------------
(***************************************************************************)
(* The increments, which give two variables a value.                       *)
(***************************************************************************)

\* A step after which at most the variables of zs lack the flag they should have.
LosesOnly(zs) == \A z \in Vars : secret'[z] /\ ~Flag(heap', values'[z]) => z \in zs

LEMMA IncrementKeepsInv ==
    ASSUME IInv, NEW x \in Vars, NEW y \in Vars, NEW h, HeapOK(h), SameTypes(h),
           NEW v \in Value, NEW w \in Value,
           TypeOfValue(h, v) = "number", TypeOfValue(h, w) = "number",
           ~source => AllPlain(h),
           Finish(h, [values EXCEPT ![y] = v, ![x] = w]), IncrementMeans(x, y)
    PROVE  /\ IInv'
           /\ NothingIsLost /\ KeepsFlags(h)
              /\ (scope.secret \/ secret[y] => Flag(h, v) /\ Flag(h, w)) => NothingIsLost'
           /\ NothingIsLost /\ KeepsFlags(h) => LosesOnly({x, y})
<1> DEFINE vals == [values EXCEPT ![y] = v, ![x] = w]
<1>1. values \in [Vars -> Value] /\ secret \in [Vars -> BOOLEAN] /\ kind \in [Vars -> Kinds]
      /\ scope.secret \in BOOLEAN
  BY DEF IInv, TypeOK
<1>2. /\ vals \in [Vars -> Value] /\ vals[x] = w /\ (x # y => vals[y] = v)
      /\ \A z \in Vars \ {x, y} : vals[z] = values[z]
  BY <1>1
<1>3. Finish(h, vals)
  OBVIOUS
<1> HIDE DEF vals
<1>4. /\ HeapOK(heap') /\ values' = vals /\ UNCHANGED <<scope, source>>
      /\ \A z \in Vars : /\ TypeOfValue(heap', vals[z]) = TypeOfValue(h, vals[z])
                         /\ Flag(heap', vals[z]) <=> Flag(h, vals[z])
      /\ AllPlain(h) => AllPlain(heap')
  BY <1>2, <1>3, FinishFacts
<1>5. /\ secret' \in [Vars -> BOOLEAN] /\ kind' \in [Vars -> Kinds]
      /\ kind'[x] = "number" /\ kind'[y] = "number"
      /\ secret'[x] <=> scope.secret \/ secret[y]
      /\ secret'[y] <=> scope.secret \/ secret[y]
      /\ \A z \in Vars \ {x, y} : kind'[z] = kind[z] /\ secret'[z] = secret[z]
  <2>1. "number" \in Kinds
    BY DEF Kinds
  <2> QED
    BY <1>1, <2>1 DEF IncrementMeans
<1>6. TypeOK'
  BY <1>2, <1>4, <1>5 DEF IInv, TypeOK, HeapOK, ThingType
<1>7. ASSUME NEW z \in Vars \ {x, y} PROVE TypeOfValue(h, values[z]) = kind[z]
  BY DEF IInv, KindsSurvive, SameTypes, TypeOfValue, IsString, Unboxed
<1>8. KindsSurvive'
  BY <1>2, <1>4, <1>5, <1>7 DEF KindsSurvive
<1>9. PlainRunsStayPlain'
  BY <1>4 DEF IInv, PlainRunsStayPlain, AllPlain
<1>10. ASSUME NothingIsLost, KeepsFlags(h), scope.secret \/ secret[y] => Flag(h, v) /\ Flag(h, w)
       PROVE  NothingIsLost'
  BY <1>2, <1>4, <1>5, <1>10 DEF NothingIsLost, KeepsFlags
<1>11. ASSUME NothingIsLost, KeepsFlags(h) PROVE LosesOnly({x, y})
  BY <1>2, <1>4, <1>5, <1>11 DEF NothingIsLost, KeepsFlags, LosesOnly
<1> QED
  BY <1>6, <1>8, <1>9, <1>10, <1>11 DEF IInv

\* An integer that is tainted into the free thing t.
LEMMA TaintedInt ==
    ASSUME IInv, NEW h, HeapOK(h), SameTypes(h), KeepsFlags(h),
           NEW t \in Things, t \notin Referenced, NEW out \in BOOLEAN,
           NEW r, r = TaintOnOutput(h, "int", out, t)
    PROVE  /\ HeapOK(r.heap) /\ SameTypes(r.heap) /\ KeepsFlags(r.heap)
           /\ r.value \in Value /\ r.value \in {"int", t}
           /\ TypeOfValue(r.heap, r.value) = "number"
           /\ out => Flag(r.heap, r.value)
           /\ ~out => r.heap = h
           /\ \A u \in GCThings : u # t =>
                 r.heap[u].type = h[u].type /\ (h[u].tainted => r.heap[u].tainted)
<1>1. "int" \in Value /\ "int" \notin GCThings
  BY Disjoint DEF Value
<1>2. TypeOfValue(h, "int") = "number"
  BY <1>1 DEF TypeOfValue, IsString, Unboxed
<1>3. /\ HeapOK(r.heap) /\ r.value \in Value
      /\ r.value \in {"int", t}
      /\ TypeOfValue(r.heap, r.value) = "number"
      /\ out => Flag(r.heap, r.value)
      /\ ~out => r.heap = h
      /\ \A u \in GCThings : u # t =>
            r.heap[u].type = h[u].type /\ (h[u].tainted => r.heap[u].tainted)
  BY <1>1, <1>2, TaintOnOutputFacts
<1>4. SameTypes(r.heap) /\ KeepsFlags(r.heap)
  BY <1>3 DEF SameTypes, KeepsFlags, Flag, Referenced
<1> QED
  BY <1>3, <1>4

\* What the flag of an operand means for a result that takes it over.
LEMMA OperandFacts ==
    ASSUME IInv, NEW y \in Vars, NEW out, out = (scope.tainted \/ Flag(heap, values[y]))
    PROVE  /\ out \in BOOLEAN
           /\ ~source => ~out /\ AllPlain(heap)
           /\ NothingIsLost => (scope.secret \/ secret[y] => out)
BY VariableFacts

LEMMA PreIncrementIntKeepsInv ==
    ASSUME IInv, NEW x \in Vars, NEW y \in Vars, PreIncrementInt(x, y)
    PROVE  IInv' /\ (NothingIsLost => NothingIsLost')
<1> DEFINE out == scope.tainted \/ Flag(heap, values[y])
           r == TaintOnOutput(heap, "int", out, New)
<1>1. /\ out \in BOOLEAN /\ (~source => ~out /\ AllPlain(heap))
      /\ NothingIsLost => (scope.secret \/ secret[y] => out)
  BY OperandFacts
<1>2. Finish(r.heap, [values EXCEPT ![y] = r.value, ![x] = r.value]) /\ IncrementMeans(x, y)
  BY DEF PreIncrementInt
<1> HIDE DEF out
<1>3. /\ HeapOK(r.heap) /\ SameTypes(r.heap) /\ KeepsFlags(r.heap)
      /\ r.value \in Value /\ TypeOfValue(r.heap, r.value) = "number"
      /\ out => Flag(r.heap, r.value)
      /\ ~out => r.heap = heap
  BY <1>1, NewFacts, HeapIsOK, HeapKeeps, TaintedInt DEF IInv
<1> HIDE DEF r
<1> QED
  BY <1>1, <1>2, <1>3, IncrementKeepsInv

LEMMA PostIncrementIntKeepsInv ==
    ASSUME IInv, NEW x \in Vars, NEW y \in Vars, PostIncrementInt(x, y)
    PROVE  IInv' /\ (NothingIsLost => NothingIsLost')
<1> DEFINE out == scope.tainted \/ Flag(heap, values[y])
           new == TaintOnOutput(heap, "int", out, New)
           old == TaintOnOutput(new.heap, "int", out, OtherNew)
<1>1. /\ out \in BOOLEAN /\ (~source => ~out /\ AllPlain(heap))
      /\ NothingIsLost => (scope.secret \/ secret[y] => out)
  BY OperandFacts
<1>2. Finish(old.heap, [values EXCEPT ![y] = new.value, ![x] = old.value]) /\ IncrementMeans(x, y)
  BY DEF PostIncrementInt
<1>3. /\ New \in Things /\ OtherNew \in Things /\ New # OtherNew
      /\ New \notin Referenced /\ OtherNew \notin Referenced
      /\ New \in GCThings /\ OtherNew \in GCThings
  BY NewIsFree, Disjoint DEF IInv
<1> HIDE DEF out
<1>4. /\ HeapOK(new.heap) /\ SameTypes(new.heap) /\ KeepsFlags(new.heap)
      /\ new.value \in Value /\ new.value \in {"int", New}
      /\ TypeOfValue(new.heap, new.value) = "number"
      /\ out => Flag(new.heap, new.value)
      /\ ~out => new.heap = heap
  BY <1>1, <1>3, HeapIsOK, HeapKeeps, TaintedInt DEF IInv
<1> HIDE DEF new
<1>5. /\ HeapOK(old.heap) /\ SameTypes(old.heap) /\ KeepsFlags(old.heap)
      /\ old.value \in Value /\ TypeOfValue(old.heap, old.value) = "number"
      /\ out => Flag(old.heap, old.value)
      /\ ~out => old.heap = new.heap
      /\ \A u \in GCThings : u # OtherNew =>
            old.heap[u].type = new.heap[u].type
            /\ (new.heap[u].tainted => old.heap[u].tainted)
  BY <1>1, <1>3, <1>4, TaintedInt
<1> HIDE DEF old
<1>6. /\ TypeOfValue(old.heap, new.value) = TypeOfValue(new.heap, new.value)
      /\ Flag(new.heap, new.value) => Flag(old.heap, new.value)
  <2>1. new.value \in GCThings => new.value # OtherNew
    BY <1>3, <1>4, Disjoint
  <2> QED
    BY <1>5, <2>1 DEF TypeOfValue, IsString, Unboxed, Flag
<1>7. TypeOfValue(old.heap, new.value) = "number" /\ (out => Flag(old.heap, new.value))
  BY <1>4, <1>6
<1>8. ~source => AllPlain(old.heap)
  BY <1>1, <1>4, <1>5
<1> QED
  BY <1>1, <1>2, <1>4, <1>5, <1>7, <1>8, IncrementKeepsInv

LEMMA AllocatedIn ==
    ASSUME NEW h, HeapOK(h), NEW t \in Things,
           NEW type \in {"string"} \cup DoubleTypes,
           NEW g, \E e \in BOOLEAN : g = Allocated(h, t, type, e)
    PROVE  /\ HeapOK(g) /\ g[t].type = type /\ ~g[t].tainted
           /\ \A u \in GCThings \ {t} : g[u] = h[u]
<1>1. PICK e \in BOOLEAN : g = Allocated(h, t, type, e)
  OBVIOUS
<1> QED
  BY <1>1, AllocatedFacts

\* The type of a number that is put into a thing.
LEMMA NumberTypes ==
    ASSUME NEW type \in {"int", "double"}
    PROVE  type \in {"string"} \cup DoubleTypes /\ type # "string" /\ type # "void"
BY DEF DoubleTypes

LEMMA PreIncrementSlowKeepsInv ==
    ASSUME IInv, NEW x \in Vars, NEW y \in Vars, PreIncrementSlow(x, y)
    PROVE  IInv' /\ (NothingIsLost => LosesOnly({x, y}))
<1>1. PICK type \in {"int", "double"} :
           LET r == TaintOnOutput(Allocated(heap, New, type, FALSE), New, scope.tainted, New)
           IN  Finish(r.heap, [values EXCEPT ![y] = New, ![x] = New])
  BY DEF PreIncrementSlow
<1> DEFINE made == Allocated(heap, New, type, FALSE)
           r == TaintOnOutput(made, New, scope.tainted, New)
<1>2. Finish(r.heap, [values EXCEPT ![y] = New, ![x] = New]) /\ IncrementMeans(x, y)
  BY <1>1 DEF PreIncrementSlow
<1>3. \E e \in BOOLEAN : made = Allocated(heap, New, type, e)
  OBVIOUS
<1> HIDE DEF made
<1>4. /\ HeapOK(made) /\ SameTypes(made) /\ KeepsFlags(made)
      /\ New \in Value /\ New \in GCThings
      /\ TypeOfValue(made, New) = "number" /\ (AllPlain(heap) => AllPlain(made))
  BY <1>3, NumberTypes, NewFacts, NewThing
<1>5. /\ scope.tainted \in BOOLEAN /\ (~source => ~scope.tainted /\ AllPlain(heap))
  BY VariableFacts
<1>6. /\ HeapOK(r.heap)
      /\ r.value = New
      /\ TypeOfValue(r.heap, r.value) = "number"
      /\ ~scope.tainted => r.heap = made
      /\ \A u \in GCThings : r.heap[u].type = made[u].type
                           /\ (made[u].tainted => r.heap[u].tainted)
  BY <1>4, <1>5, NewFacts, TaintOnOutputFacts
<1> HIDE DEF r
<1>7. /\ SameTypes(r.heap) /\ (~source => AllPlain(r.heap))
      /\ TypeOfValue(r.heap, New) = "number"
  BY <1>4, <1>5, <1>6 DEF SameTypes
<1>8. KeepsFlags(r.heap)
  BY <1>4, <1>6 DEF KeepsFlags, Flag
<1> QED
  BY <1>2, <1>4, <1>6, <1>7, <1>8, IncrementKeepsInv

LEMMA PostIncrementSlowKeepsInv ==
    ASSUME IInv, NEW x \in Vars, NEW y \in Vars, PostIncrementSlow(x, y)
    PROVE  IInv' /\ (NothingIsLost => LosesOnly({x, y}))
<1>1. PICK type \in {"int", "double"}, old \in {Unboxed(heap, values[y]), OtherNew} :
         LET new == Allocated(heap, New, type, FALSE)
             both == IF old = OtherNew THEN Allocated(new, OtherNew, "double", FALSE) ELSE new
             r == TaintOnOutput(both, old, scope.tainted \/ Flag(both, old), OtherNew)
         IN  /\ IF Unboxed(heap, values[y]) = "int" THEN type = "double"
                ELSE old # OtherNew <=> TypeOfValue(heap, values[y]) = "number"
             /\ Finish(r.heap, [values EXCEPT ![y] = New, ![x] = r.value])
  BY DEF PostIncrementSlow
<1> DEFINE new == Allocated(heap, New, type, FALSE)
           both == IF old = OtherNew THEN Allocated(new, OtherNew, "double", FALSE) ELSE new
           out == scope.tainted \/ Flag(both, old)
           r == TaintOnOutput(both, old, out, OtherNew)
<1>2. Finish(r.heap, [values EXCEPT ![y] = New, ![x] = r.value]) /\ IncrementMeans(x, y)
  BY <1>1 DEF PostIncrementSlow
<1>3. /\ New \in Things /\ OtherNew \in Things /\ New # OtherNew
      /\ New \notin Referenced /\ OtherNew \notin Referenced
      /\ New \in GCThings /\ OtherNew \in GCThings /\ New \in Value /\ OtherNew \in Value
  BY NewIsFree, Disjoint DEF IInv, Value
<1>4. /\ scope.tainted \in BOOLEAN /\ values[y] \in Value
      /\ ~source => ~scope.tainted /\ AllPlain(heap)
  BY VariableFacts
<1>5. \E e \in BOOLEAN : new = Allocated(heap, New, type, e)
  OBVIOUS
<1>a. old # OtherNew =>
        \/ old = "int"
        \/ old = values[y] /\ TypeOfValue(heap, old) = "number"
  BY <1>1, <1>4 DEF Unboxed, TypeOfValue, IsString, Immediates, ImmediateKind
<1> HIDE DEF new
<1>6. /\ HeapOK(new) /\ SameTypes(new) /\ KeepsFlags(new)
      /\ TypeOfValue(new, New) = "number" /\ (AllPlain(heap) => AllPlain(new))
  BY <1>3, <1>5, NumberTypes, NewThing
<1>7. /\ HeapOK(both) /\ SameTypes(both) /\ KeepsFlags(both) /\ old \in Value
      /\ TypeOfValue(both, old) = "number" /\ TypeOfValue(both, New) = "number"
      /\ AllPlain(heap) => AllPlain(both)
  <2>1. CASE old # OtherNew
    <3>1. both = new
      BY <2>1
    <3>2. CASE old = "int"
      <4>1. "int" \in Value /\ "int" \notin GCThings
        BY Disjoint DEF Value
      <4>2. TypeOfValue(new, "int") = "number"
        BY <4>1 DEF TypeOfValue, IsString, Unboxed
      <4> HIDE DEF both
      <4> QED
        BY <1>6, <3>1, <3>2, <4>1, <4>2
    <3>3. CASE old = values[y] /\ TypeOfValue(heap, old) = "number"
      <4>1. TypeOfValue(new, old) = TypeOfValue(heap, old)
        BY <1>4, <1>6, <3>3 DEF SameTypes, TypeOfValue, IsString, Unboxed
      <4> HIDE DEF both
      <4> QED
        BY <1>4, <1>6, <3>1, <3>3, <4>1
    <3> QED
      BY <1>a, <2>1, <3>2, <3>3
  <2>2. CASE old = OtherNew
    <3> DEFINE g == Allocated(new, OtherNew, "double", FALSE)
    <3>1. both = g
      BY <2>2
    <3>2. "double" \in {"string"} \cup DoubleTypes /\ "double" # "void" /\ "double" # "int"
      BY DEF DoubleTypes
    <3>a. \E e \in BOOLEAN : g = Allocated(new, OtherNew, "double", e)
      OBVIOUS
    <3> HIDE DEF g
    <3>3. /\ HeapOK(g) /\ g[OtherNew].type = "double" /\ ~g[OtherNew].tainted
          /\ \A u \in GCThings \ {OtherNew} : g[u] = new[u]
      BY <1>3, <1>6, <3>2, <3>a, AllocatedIn
    <3>4. SameTypes(g) /\ (AllPlain(new) => AllPlain(g))
      BY <1>3, <1>6, <3>3 DEF SameTypes, AllPlain, Referenced
    <3>b. KeepsFlags(g)
      BY <1>3, <1>6, <3>3 DEF KeepsFlags, Flag, Referenced
    <3>5. TypeOfValue(g, OtherNew) = "number" /\ TypeOfValue(g, New) = TypeOfValue(new, New)
      BY <1>3, <3>2, <3>3, Disjoint DEF TypeOfValue, IsString, Unboxed
    <3> HIDE DEF both
    <3> QED
      BY <1>3, <1>6, <2>2, <3>1, <3>3, <3>4, <3>b, <3>5
  <2> QED
    BY <2>1, <2>2
<1> HIDE DEF both
<1>8. out \in BOOLEAN /\ (~source => ~out)
  BY <1>4, <1>7 DEF Flag, AllPlain, HeapOK, ThingType
<1>b. old \notin GCThings => old = "int"
  BY <1>a, <1>1, <1>3, <1>4 DEF Value, Unboxed, TypeOfValue, IsString, Immediates, ImmediateKind
<1> HIDE DEF out
<1>9. /\ HeapOK(r.heap) /\ (~out => r.heap = both)
      /\ r.value \in Value /\ TypeOfValue(r.heap, r.value) = "number"
      /\ \A u \in GCThings : u # OtherNew \/ old \in GCThings =>
            r.heap[u].type = both[u].type /\ (both[u].tainted => r.heap[u].tainted)
  BY <1>3, <1>7, <1>8, TaintOnOutputFacts
<1> HIDE DEF r
<1>10. /\ SameTypes(r.heap) /\ KeepsFlags(r.heap) /\ (~source => AllPlain(r.heap))
       /\ TypeOfValue(r.heap, New) = "number"
  <2>1. SameTypes(r.heap)
    BY <1>3, <1>7, <1>9 DEF SameTypes, Referenced
  <2>2. TypeOfValue(r.heap, New) = "number"
    BY <1>3, <1>7, <1>9 DEF TypeOfValue, IsString, Unboxed
  <2>3. KeepsFlags(r.heap)
    BY <1>3, <1>7, <1>9 DEF KeepsFlags, Flag, Referenced
  <2> QED
    BY <1>4, <1>7, <1>8, <1>9, <2>1, <2>2, <2>3
<1> QED
  BY <1>2, <1>3, <1>7, <1>9, <1>10, IncrementKeepsInv

-----------------------------------------------------------------------------
(***************************************************************************)
(* The theorems.                                                           *)
(***************************************************************************)

LEMMA InvInitially == Init => IInv
<1> SUFFICES ASSUME Init PROVE IInv
  OBVIOUS
<1>1. \A t \in GCThings : heap[t] = IF t = Empty
                                    THEN [tainted |-> FALSE, type |-> "string", empty |-> TRUE]
                                    ELSE [tainted |-> FALSE, type |-> "string", empty |-> FALSE]
  BY DEF Init, Thing, Free
<1>2. /\ heap \in [GCThings -> ThingType]
      /\ \A t \in GCThings : heap[t].type = "string" /\ ~heap[t].tainted /\ (heap[t].empty <=> t = Empty)
  <2>1. heap = [t \in GCThings |-> heap[t]]
    BY DEF Init
  <2>2. ASSUME NEW t \in GCThings
        PROVE  /\ heap[t] \in ThingType /\ heap[t].type = "string" /\ ~heap[t].tainted
               /\ heap[t].empty <=> t = Empty
    <3>1. CASE t = Empty
      <4>1. heap[t] = [tainted |-> FALSE, type |-> "string", empty |-> TRUE]
        BY <1>1, <3>1
      <4> QED
        BY <3>1, <4>1 DEF ThingType
    <3>2. CASE t # Empty
      <4>1. heap[t] = [tainted |-> FALSE, type |-> "string", empty |-> FALSE]
        BY <1>1, <3>2
      <4> QED
        BY <3>2, <4>1 DEF ThingType
    <3> QED
      BY <3>1, <3>2
  <2> QED
    BY <2>1, <2>2
<1>3. TypeOK
  BY <1>2, Disjoint DEF Init, TypeOK, ThingType, Value, NoScope, Kinds
<1>4. KindsSurvive
  BY Disjoint DEF Init, KindsSurvive, TypeOfValue, IsString, Unboxed
<1>5. PlainRunsStayPlain
  BY <1>2 DEF Init, PlainRunsStayPlain, NoScope
<1> QED
  BY <1>3, <1>4, <1>5 DEF IInv

LEMMA IfKeepsInv ==
    ASSUME IInv, (\E x \in Vars : If(x)) \/ EndIf
    PROVE  IInv' /\ (NothingIsLost => NothingIsLost')
<1>1. ASSUME NEW x \in Vars, If(x) PROVE IInv' /\ (NothingIsLost => NothingIsLost')
  <2>1. Flag(heap, values[x]) \in BOOLEAN /\ secret[x] \in BOOLEAN
        /\ (~source => ~Flag(heap, values[x]))
        /\ (NothingIsLost => (secret[x] => Flag(heap, values[x])))
    BY VariableFacts
  <2>2. UNCHANGED <<heap, values, source, secret, kind>>
    BY <1>1 DEF If
  <2>3. scope' = [open |-> TRUE, tainted |-> Flag(heap, values[x]), secret |-> secret[x]]
    BY <1>1 DEF If
  <2>4. /\ scope' \in [open : BOOLEAN, tainted : BOOLEAN, secret : BOOLEAN]
        /\ ~source => ~scope'.tainted
        /\ NothingIsLost => (scope'.secret => scope'.tainted)
    BY <2>1, <2>3
  <2> QED
    BY <2>2, <2>4 DEF IInv, TypeOK, KindsSurvive, PlainRunsStayPlain, NothingIsLost,
                      TypeOfValue, IsString, Unboxed, Flag
<1>2. CASE EndIf
  <2>1. UNCHANGED <<heap, values, source, secret, kind>>
        /\ scope' \in [open : BOOLEAN, tainted : BOOLEAN, secret : BOOLEAN]
        /\ ~scope'.tainted /\ ~scope'.secret
    BY <1>2 DEF EndIf, NoScope
  <2> QED
    BY <2>1 DEF IInv, TypeOK, KindsSurvive, PlainRunsStayPlain, NothingIsLost,
                TypeOfValue, IsString, Unboxed, Flag
<1> QED
  BY <1>1, <1>2

\* The statements that lose nothing.
LEMMA SafeStatements ==
    ASSUME IInv,
           \/ \E x \in Vars : Constant(x) \/ Literal(x) \/ Read(x) \/ If(x)
           \/ \E x, y \in Vars : Copy(x, y) \/ PreIncrementInt(x, y) \/ PostIncrementInt(x, y)
           \/ \E x, a, b \in Vars : Add(x, a, b)
           \/ EndIf
    PROVE  IInv' /\ (NothingIsLost => NothingIsLost')
<1>1. ASSUME NEW x \in Vars, \E h, v, out, s, k : Statement(x, h, v, out, s, k) /\ KeepsFlags(h)
      PROVE  IInv' /\ (NothingIsLost => NothingIsLost')
  BY <1>1, StatementKeepsInv, StatementLosesNothing
<1>2. ASSUME NEW x \in Vars, Constant(x) \/ \E y \in Vars : Copy(x, y)
      PROVE  \E h, v, out, s, k : Statement(x, h, v, out, s, k) /\ KeepsFlags(h)
  BY <1>2, ConstantStatement, CopyStatement, HeapKeeps DEF IInv
<1>3. ASSUME NEW x \in Vars, Literal(x) \/ Read(x) \/ \E a, b \in Vars : Add(x, a, b)
      PROVE  \E h, v, out, s, k : Statement(x, h, v, out, s, k) /\ KeepsFlags(h)
  BY <1>3, LiteralStatement, ReadStatement, AddStatement
<1> QED
  BY <1>1, <1>2, <1>3, IfKeepsInv, PreIncrementIntKeepsInv, PostIncrementIntKeepsInv

LEMMA ClearingStatements ==
    ASSUME IInv, NEW x \in Vars, ForIn(x) \/ \E y \in Vars : TypeOf(x, y)
    PROVE  /\ IInv'
           /\ NothingIsLost => \A y \in Vars : secret'[y] /\ ~Flag(heap', values'[y]) =>
                  values[y] \in Atoms /\ values'[y] = values[y]
<1>1. PICK h, v, out, s, k, name : Statement(x, h, v, out, s, k) /\ KeepsFlagsBut(h, name)
  BY TypeOfStatement, ForInStatement
<1>2. IInv'
  BY <1>1, StatementKeepsInv
<1>3. ASSUME NothingIsLost, NEW y \in Vars, secret'[y], ~Flag(heap', values'[y])
      PROVE  values[y] \in Atoms /\ values'[y] = values[y]
  BY <1>1, <1>3, StatementLosses DEF KeepsFlagsBut
<1> QED
  BY <1>2, <1>3

LEMMA InvInductive == IInv /\ [Next]_vars => IInv'
<1> SUFFICES ASSUME IInv, [Next]_vars PROVE IInv'
  OBVIOUS
<1>1. CASE UNCHANGED vars
  BY <1>1 DEF vars, IInv, TypeOK, KindsSurvive, PlainRunsStayPlain, TypeOfValue, IsString, Unboxed
<1>2. CASE Next
  BY <1>2, SafeStatements, ClearingStatements, PreIncrementSlowKeepsInv, PostIncrementSlowKeepsInv
     DEF Next
<1> QED
  BY <1>1, <1>2

LEMMA InvAlways == Spec => []IInv
BY InvInitially, InvInductive, PTL DEF Spec

\* Type correctness: a thing holds a string or a number, a tainted integer or undefined,
\* and the atoms are strings for ever, whatever is marked and collected.
THEOREM TypeCorrect == Spec => []TypeOK
<1>1. IInv => TypeOK
  BY DEF IInv
<1> QED
  BY <1>1, InvAlways, PTL

\* Every value keeps the type the language gives it through boxing and unboxing.
THEOREM KindsAlwaysSurvive == Spec => []KindsSurvive
<1>1. IInv => KindsSurvive
  BY DEF IInv
<1> QED
  BY <1>1, InvAlways, PTL

\* A page that reads nothing tainted taints nothing, no atom either.
THEOREM PlainStaysPlain == Spec => []PlainRunsStayPlain
<1>1. IInv => PlainRunsStayPlain
  BY DEF IInv
<1> QED
  BY <1>1, InvAlways, PTL

\* The statements that lose taint are named, for any number of variables and things.
THEOREM LossesNamed == Spec => LossesAreNamed
<1> DEFINE Named ==
         \/ NothingIsLost'
         \/ /\ \E x \in Vars : ForIn(x) \/ \E y \in Vars : TypeOf(x, y)
            /\ \A x \in Vars : secret[x]' /\ ~Flag(heap, values[x])' =>
                   values[x] \in Atoms /\ values'[x] = values[x]
         \/ \E x, y \in Vars :
               /\ PreIncrementSlow(x, y) \/ PostIncrementSlow(x, y)
               /\ \A z \in Vars : secret[z]' /\ ~Flag(heap, values[z])' => z \in {x, y}
<1>1. IInv /\ [Next]_vars => [NothingIsLost => Named]_vars
  <2> SUFFICES ASSUME IInv, Next, NothingIsLost PROVE Named
    OBVIOUS
  <2>1. CASE \E x \in Vars : ForIn(x) \/ \E y \in Vars : TypeOf(x, y)
    BY <2>1, ClearingStatements
  <2>2. CASE \E x, y \in Vars : PreIncrementSlow(x, y) \/ PostIncrementSlow(x, y)
    BY <2>2, PreIncrementSlowKeepsInv, PostIncrementSlowKeepsInv DEF LosesOnly
  <2>3. CASE \/ \E x \in Vars : Constant(x) \/ Literal(x) \/ Read(x) \/ If(x)
             \/ \E x, y \in Vars : Copy(x, y) \/ PreIncrementInt(x, y) \/ PostIncrementInt(x, y)
             \/ \E x, a, b \in Vars : Add(x, a, b)
             \/ EndIf
    BY <2>3, SafeStatements
  <2> HIDE DEF Named
  <2> QED
    BY <2>1, <2>2, <2>3 DEF Next
<1> QED
  BY <1>1, InvAlways, PTL DEF Spec, LossesAreNamed
=============================================================================
