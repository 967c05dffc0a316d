\* Every statement in every other and eight pages, with a tainted and with a plain
\* document, every outcome of every condition.
SPECIFICATION KSpec
CONSTANT Programs <- MCPrograms
INVARIANTS
    TypeOK
    ControlStaysTainted
    ValuesStayTainted
    FlagsAreRestored
    PlainRunsStayPlain
    NothingLostAtEnd
CONSTANT MaxScopes = 8
CONSTANT Shape <- MCShape
