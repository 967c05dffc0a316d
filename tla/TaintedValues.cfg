\* Two variables; every statement on them, with a tainted and a plain document.
SPECIFICATION Spec
CONSTANTS
    Vars = {x, y}
    Empty = Empty
    NumberName = NumberName
    StringName = StringName
    UndefinedName = UndefinedName
    Atoms = {Empty, NumberName, StringName, UndefinedName}
    Things = {t1, t2, t3, t4}
VIEW MCView
INVARIANTS
    TypeOK
    KindsSurvive
    PlainRunsStayPlain
PROPERTY LossesAreNamed
