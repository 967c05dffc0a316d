-------------------------- MODULE XSSTaintedValues --------------------------
(***************************************************************************)
(* Where the interpreter keeps the taint of a JavaScript value             *)
(* (jsinterp.c, xsstaint.h, jsnum.c, jsstr.c): in the garbage-collected    *)
(* thing that holds the value.  Every reference to the thing shares the    *)
(* flag, the atoms of literals, property names and type names with all     *)
(* their uses in all scripts.  Integers and undefined are held by no thing;*)
(* to be tainted they are put into a double which remembers their type.    *)
(*                                                                         *)
(* A step is one statement on the local variables of a function.  It       *)
(* starts and ends with an empty operand stack, so its result is tainted   *)
(* if one of its operands or the scope is (XSSTaintScopes has the stack,   *)
(* the mark and the nesting of scopes).                                    *)
(*                                                                         *)
(* secret, kind and the secret of the scope are not in the engine: what    *)
(* depends on the document, and the type the language gives a variable.    *)
(***************************************************************************)
CONSTANTS
    Vars,           \* the local variables
    Atoms,          \* the strings of the runtime's atom table
    Things,         \* the other strings and doubles
    Empty,          \* the atom of ""
    NumberName, StringName, UndefinedName   \* typeAtoms

ImmediateKind == [int |-> "number", void |-> "undefined"]
Immediates == DOMAIN ImmediateKind
GCThings == Atoms \cup Things

ASSUME AtomsAssumption == {Empty, NumberName, StringName, UndefinedName} \subseteq Atoms
ASSUME ValuesAssumption ==
    /\ Atoms \cap Things = {}
    /\ GCThings \cap Immediates = {}
\* Memory is not short: a statement finds two new things.
ASSUME MemoryAssumption ==
    \A used \in [Vars -> Immediates \cup GCThings] :
        \E t, u \in Things : t # u /\ \A x \in Vars : used[x] \notin {t, u}

Kinds == {"number", "string", "undefined"}
DoubleTypes == {"int", "double", "void"}

TypeName(kind) ==
    CASE kind = "number" -> NumberName
      [] kind = "string" -> StringName
      [] kind = "undefined" -> UndefinedName

VARIABLES
    heap,       \* the things: their flag, type and whether a string is empty
    values,     \* fp->vars
    scope,      \* the scope of a condition: whether it is open and tainted
    source,     \* whether what is read from the document is tainted
    secret, kind

vars == <<heap, values, scope, source, secret, kind>>
-----------------------------------------------------------------------------
\* js_AllocGCThing leaves no flag in a thing.
Thing(type, empty) == [tainted |-> FALSE, type |-> type, empty |-> empty]
Free == Thing("string", FALSE)

Flag(h, v) == v \in GCThings /\ h[v].tainted
Referenced == {values[x] : x \in Vars}

\* What the allocator hands out: which of the free things makes no difference.
New == CHOOSE t \in Things : t \notin Referenced
OtherNew == CHOOSE t \in Things : t \notin Referenced \cup {New}

\* XSS_TO_ORIG_JSVAL.
Unboxed(h, v) ==
    IF v \in GCThings /\ h[v].type \in Immediates THEN h[v].type ELSE v

IsString(h, v) == v \in GCThings /\ h[v].type = "string"

\* Mutant: the type behind the double is not looked at.
TypeOfTag(h, v) ==
    IF IsString(h, v) THEN "string" ELSE IF v = "void" THEN "undefined" ELSE "number"

\* JS_TypeOfValue.
TypeOfValue(h, v) ==
    IF IsString(h, v) THEN "string"
    ELSE IF Unboxed(h, v) = "void" THEN "undefined"
    ELSE "number"

Marked(h, t, flag) == [h EXCEPT ![t].tainted = flag]
Allocated(h, t, type, empty) == [h EXCEPT ![t] = Thing(type, empty)]

\* Mutants: the double of an untainted value does not get its type; taintoutput is
\* not tested.
TaintOnOutputUntyped(h, v, out, t) ==
    IF ~out THEN [heap |-> h, value |-> v]
    ELSE IF v \in GCThings THEN [heap |-> Marked(h, v, TRUE), value |-> v]
    ELSE [heap |-> Marked(Allocated(h, t, "notype", FALSE), t, TRUE), value |-> t]
TaintAlways(h, v, out, t) ==
    IF v \in GCThings THEN [heap |-> Marked(h, v, TRUE), value |-> v]
    ELSE [heap |-> Marked(Allocated(h, t, v, FALSE), t, TRUE), value |-> t]

\* XSS_TAINT_JSVAL_ON_OUTPUT of v: the flag goes into the thing itself, an
\* immediate value into the new double t.
TaintOnOutput(h, v, out, t) ==
    IF ~out THEN [heap |-> h, value |-> v]
    ELSE IF v \in GCThings THEN [heap |-> Marked(h, v, TRUE), value |-> v]
    ELSE [heap |-> Marked(Allocated(h, t, v, FALSE), t, TRUE), value |-> t]

\* The collector: what no variable refers to is free.
Collected(h, vals) ==
    [t \in GCThings |->
        IF t \in Atoms \/ \E x \in Vars : vals[x] = t THEN h[t] ELSE Free]

Finish(h, vals) ==
    /\ values' = vals
    /\ heap' = Collected(h, vals)
    /\ UNCHANGED <<scope, source>>

\* SETVAR.
SetVar(x, h, v, out) ==
    LET r == TaintOnOutput(h, v, out, New)
    IN  Finish(r.heap, [values EXCEPT ![x] = r.value])

\* What the properties know of the new value of x.
Means(x, s, k) ==
    /\ secret' = [secret EXCEPT ![x] = scope.secret \/ s]
    /\ kind' = [kind EXCEPT ![x] = k]

NoScope == [open |-> FALSE, tainted |-> FALSE, secret |-> FALSE]
-----------------------------------------------------------------------------
Init ==
    /\ heap = [t \in GCThings |-> IF t = Empty THEN Thing("string", TRUE) ELSE Free]
    /\ values = [x \in Vars |-> "void"]
    /\ scope = NoScope
    /\ source \in BOOLEAN
    /\ secret = [x \in Vars |-> FALSE]
    /\ kind = [x \in Vars |-> "undefined"]

\* x = 1 (UINT16), x = void 0 (VOID).
Constant(x) ==
    \E v \in Immediates : SetVar(x, heap, v, scope.tainted) /\ Means(x, FALSE, ImmediateKind[v])

\* x = "..." (STRING): a tainted scope copies the string.
Literal(x) ==
    \E a \in Atoms :
        /\ IF scope.tainted
           THEN SetVar(x, Allocated(heap, New, "string", a = Empty), New, TRUE)
           ELSE SetVar(x, heap, a, FALSE)
        /\ Means(x, FALSE, "string")

\* x = y (GETVAR).
Copy(x, y) ==
    /\ SetVar(x, heap, values[y], scope.tainted \/ Flag(heap, values[y]))
    /\ Means(x, secret[y], kind[y])

\* x = document.cookie: XPConnect makes a new string with the flag of the getter's.
Read(x) ==
    \E empty \in BOOLEAN :
        /\ SetVar(x, Allocated(heap, New, "string", empty), New, scope.tainted \/ source)
        /\ Means(x, source, "string")

\* js_ValueToString: a string itself, the type name of undefined, the new string of
\* a number.
AsString(h, v) ==
    IF IsString(h, v) THEN v
    ELSE IF Unboxed(h, v) = "void" THEN UndefinedName
    ELSE New

\* js_ConcatStrings of what the operands are as strings: with an empty one the
\* result is the other one itself, otherwise a new string.
Concat(h, v, w) ==
    LET made == Allocated(h, New, "string", FALSE)
        left == AsString(h, v)
        right == AsString(h, w)
    IN  [heap |-> made,
         value |-> IF made[right].empty THEN left ELSE IF made[left].empty THEN right ELSE New]

\* x = a + b (ADD); the sum of numbers is always a new double (STORE_NUMBER).
Add(x, a, b) ==
    LET out == scope.tainted \/ Flag(heap, values[a]) \/ Flag(heap, values[b])
        r == Concat(heap, values[a], values[b])
    IN  IF IsString(heap, values[a]) \/ IsString(heap, values[b])
        THEN /\ SetVar(x, r.heap, r.value, out)
             /\ Means(x, secret[a] \/ secret[b], "string")
        ELSE \E type \in {"int", "double"} :
                 /\ SetVar(x, Allocated(heap, New, type, FALSE), New, out)
                 /\ Means(x, secret[a] \/ secret[b], "number")

\* x = typeof y (TYPEOF): the flag of the shared type name is cleared.
TypeOf(x, y) ==
    LET name == TypeName(TypeOfValue(heap, values[y]))
    IN  /\ SetVar(x, Marked(heap, name, FALSE), name, scope.tainted \/ Flag(heap, values[y]))
        /\ Means(x, secret[y], "string")

\* One round of for (x in o) (FORVAR): an index becomes a new string, and the flag
\* of the string, the shared atom of the property's name otherwise, is cleared.
\* The object o may come from the document.
ForIn(x) ==
    \E o \in BOOLEAN, name \in Atoms \cup {New} :
        LET h == IF name = New THEN Allocated(heap, New, "string", FALSE) ELSE heap
        IN  /\ o => source
            /\ SetVar(x, Marked(h, name, FALSE), name, scope.tainted \/ o)
            /\ Means(x, o, "string")

IncrementMeans(x, y) ==
    /\ secret' = [secret EXCEPT ![y] = scope.secret \/ @, ![x] = scope.secret \/ secret[y]]
    /\ kind' = [kind EXCEPT ![y] = "number", ![x] = "number"]

\* x = ++y (INCVAR) of an integer below the limit: the variables share the double, if there is one.
PreIncrementInt(x, y) ==
    /\ Unboxed(heap, values[y]) = "int"
    /\ LET r == TaintOnOutput(heap, "int", scope.tainted \/ Flag(heap, values[y]), New)
       IN  Finish(r.heap, [values EXCEPT ![y] = r.value, ![x] = r.value])
    /\ IncrementMeans(x, y)

\* x = y++ (VARINC) of an integer below the limit.
\* Mutant: only the new value of y is tainted.
PostIncrementIntHalf(x, y) ==
    /\ Unboxed(heap, values[y]) = "int"
    /\ LET new == TaintOnOutput(heap, "int", scope.tainted \/ Flag(heap, values[y]), New)
       IN  Finish(new.heap, [values EXCEPT ![y] = new.value, ![x] = "int"])
    /\ IncrementMeans(x, y)
PostIncrementInt(x, y) ==
    /\ Unboxed(heap, values[y]) = "int"
    /\ LET out == scope.tainted \/ Flag(heap, values[y])
           new == TaintOnOutput(heap, "int", out, New)
           old == TaintOnOutput(new.heap, "int", out, OtherNew)
       IN  Finish(old.heap, [values EXCEPT ![y] = new.value, ![x] = old.value])
    /\ IncrementMeans(x, y)

\* The slow path (do_nonint_fast_incop): for what is no integer, and for the
\* integer at the limit of the immediate ones, whose successor is a double.
\* x = ++y: y gets a new number without a flag; SETVAR of x sees that number.
PreIncrementSlow(x, y) ==
    /\ \E type \in {"int", "double"} :
         LET r == TaintOnOutput(Allocated(heap, New, type, FALSE), New, scope.tainted, New)
         IN  /\ Unboxed(heap, values[y]) = "int" => type = "double"
             /\ Finish(r.heap, [values EXCEPT ![y] = New, ![x] = New])
    /\ IncrementMeans(x, y)

\* x = y++: x gets the old double itself, or a new number.  Of an integer the code
\* reads a flag and a type that it does not have: what it finds there decides
\* whether x gets the immediate integer or a new number.
PostIncrementSlow(x, y) ==
    /\ \E type \in {"int", "double"}, old \in {Unboxed(heap, values[y]), OtherNew} :
         LET new == Allocated(heap, New, type, FALSE)
             both == IF old = OtherNew THEN Allocated(new, OtherNew, "double", FALSE) ELSE new
             r == TaintOnOutput(both, old, scope.tainted \/ Flag(both, old), OtherNew)
         IN  /\ IF Unboxed(heap, values[y]) = "int" THEN type = "double"
                ELSE old # OtherNew <=> TypeOfValue(heap, values[y]) = "number"
             /\ Finish(r.heap, [values EXCEPT ![y] = New, ![x] = r.value])
    /\ IncrementMeans(x, y)

\* if (x) {, and the end of the block.
If(x) ==
    /\ ~scope.open
    /\ scope' = [open |-> TRUE, tainted |-> Flag(heap, values[x]), secret |-> secret[x]]
    /\ UNCHANGED <<heap, values, source, secret, kind>>

EndIf ==
    /\ scope.open
    /\ scope' = NoScope
    /\ UNCHANGED <<heap, values, source, secret, kind>>

Next ==
    \/ \E x \in Vars : Constant(x) \/ Literal(x) \/ Read(x) \/ ForIn(x) \/ If(x)
    \/ \E x, y \in Vars : Copy(x, y) \/ TypeOf(x, y)
    \/ \E x, y \in Vars : PreIncrementInt(x, y) \/ PostIncrementInt(x, y)
    \/ \E x, y \in Vars : PreIncrementSlow(x, y) \/ PostIncrementSlow(x, y)
    \/ \E x, a, b \in Vars : Add(x, a, b)
    \/ EndIf

Spec == Init /\ [][Next]_vars
-----------------------------------------------------------------------------
Value == Immediates \cup GCThings

TypeOK ==
    /\ heap \in [GCThings -> [tainted : BOOLEAN, type : {"string"} \cup DoubleTypes, empty : BOOLEAN]]
    /\ \A a \in Atoms : heap[a].type = "string" /\ (heap[a].empty <=> a = Empty)
    /\ values \in [Vars -> Value]
    /\ scope \in [open : BOOLEAN, tainted : BOOLEAN, secret : BOOLEAN]
    /\ source \in BOOLEAN
    /\ secret \in [Vars -> BOOLEAN] /\ kind \in [Vars -> Kinds]

\* A value keeps the type the language gives it, whether the engine has it as an
\* immediate value or has put it into a double to taint it: undefined is no
\* number, and a number is none after any way through the operators.
KindsSurvive == \A x \in Vars : TypeOfValue(heap, values[x]) = kind[x]

\* As long as nothing tainted is read from the document no thing is tainted, not
\* even an atom that all scripts share: pages that read none cause no questions.
PlainRunsStayPlain == ~source => ~scope.tainted /\ \A t \in GCThings : ~heap[t].tainted

\* What depends on the document is tainted, and so is the scope it decides about:
\* the column "If" and "evil" of the test results (opcodetests.txt) for the
\* opcodes of the statements.
NothingIsLost ==
    /\ \A x \in Vars : secret[x] => Flag(heap, values[x])
    /\ scope.secret => scope.tainted

\* The statements that lose taint are known.  If nothing is lost yet, a variable
\* loses its taint only by a typeof or for-in that clears the flag of the atom it
\* holds, and a result is computed without it only by an increment on the slow
\* path, of a value that is no integer or of the integer at the limit, and then
\* for its two variables only.  Copies, constants, sums, conditions and all other
\* increments of integers lose nothing, whoever shares the things.
LossesAreNamed ==
    [][NothingIsLost =>
         \/ NothingIsLost'
         \/ /\ \E x \in Vars : ForIn(x) \/ \E y \in Vars : TypeOf(x, y)
            /\ \A x \in Vars : secret[x]' /\ ~Flag(heap, values[x])' =>
                   values[x] \in Atoms /\ values'[x] = values[x]
         \/ \E x, y \in Vars :
               /\ PreIncrementSlow(x, y) \/ PostIncrementSlow(x, y)
               /\ \A z \in Vars : secret[z]' /\ ~Flag(heap, values[z])' => z \in {x, y}]_vars
=============================================================================
