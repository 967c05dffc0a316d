\* Small enough for temporal properties, no symmetry: one foreign action, a
\* javascript: one, four calls deep.
SPECIFICATION FairSpec
CONSTANTS
    Own = {}
    Foreign = {shop}
    Scripts = {script}
    Targets = {self}
    Requests = {r1}
    MaxFrames = 4
    MaxBuilt = 2
    None = None
PROPERTIES
    FormComesFree
    
\* A crash of the process (NoDocumentForObservers) ends a behaviour.
CHECK_DEADLOCK FALSE
