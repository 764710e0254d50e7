\* One Prometheus source and one request in progress.
SPECIFICATION MCSpec
CONSTANTS
    Ids = {i1}
    Operators = {o1}
    Home <- MCHome
    Served = {"prometheus"}
    Keys = {k1}
    Flows = {f1}
    Requests = {r1}
    Sealing = TRUE
    MaxFresh = 3
    None = None
VIEW MCView
INVARIANT
    GrantsAreOfTheConnection
CHECK_DEADLOCK FALSE
