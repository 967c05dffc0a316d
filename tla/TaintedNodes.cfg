\* Two nodes, two documents, two variables, with tainted and plain documents.
SPECIFICATION Spec
CONSTANTS
    Nodes = {n1, n2}
    Docs = {d1, d2}
    Vars = {x, y}
    Body = Body
    NoDoc = NoDoc
SYMMETRY MCSymmetry
INVARIANTS
    TypeOK
    PlainRunsStayPlain
PROPERTY LossesAreNamed
