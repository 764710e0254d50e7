\* One operator regenerates while the other corrects.
SPECIFICATION PostmortemSpec
CONSTANTS
    Editors = {o1, o2}
    Facts = {f1}
    Corrections = {"title"}
    Cited <- MCCited
    NoReviewer = NoReviewer
    MaxWrites = 3
INVARIANTS
    RegenerationIsHigher
CHECK_DEADLOCK FALSE
