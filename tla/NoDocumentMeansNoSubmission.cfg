\* A small instance is enough for the counterexample.
SPECIFICATION Spec
CONSTANTS
    Own = {home}
    Foreign = {shop}
    Scripts = {}
    Targets = {self}
    Requests = {r1, r2}
    MaxFrames = 4
    MaxBuilt = 2
    None = None
INVARIANTS
    NoDocumentMeansNoSubmission
