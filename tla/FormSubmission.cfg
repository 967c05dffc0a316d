\* Two submissions, two foreign actions and a javascript: one, six calls deep.
SPECIFICATION Spec
CONSTANTS
    Own = {}
    Foreign = {shop, bank}
    Scripts = {script}
    Targets = {self}
    Requests = {r1, r2}
    MaxFrames = 6
    MaxBuilt = 2
    None = None
SYMMETRY Symmetry
VIEW View
INVARIANTS
    TypeOK
    ScriptedLeaksAreAsked
    FormStaysUsable
    LatestIsDeferred
\* A crash of the process (NoDocumentForObservers) ends a behaviour.
CHECK_DEADLOCK FALSE
