\* A heavyweight function that returns from inside of a tainted condition.
SPECIFICATION Spec
CONSTANT Programs <- ReturnPage
INVARIANT SlotsKeepTaint
CONSTANT MaxScopes = 8
CONSTANT Shape <- MCShape
