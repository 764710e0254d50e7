\* Two admins who demote or remove each other.
SPECIFICATION Spec
CONSTANTS
    Local = {u1, u2}
    Federated = {}
    Roles = {"admin", "viewer"}
    Words = {p1}
    SessionIds = {s1, s2}
    Flows = {}
    Requests = {r1, r2}
    None = None
    MaxHashes = 2
    MaxPasswordChecks = 2
    PruneBatch = 1
    BootstrapConfigured = TRUE
INVARIANTS
    KeepsAnAdmin
CHECK_DEADLOCK FALSE
