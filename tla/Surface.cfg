\* A local User and one of the identity provider, two requests in flight:
\* sign-ins racing password changes, rehashes, recoveries and replayed callbacks.
\* And three rows read one by one, where rows are removed and where they move and
\* may lack a value: the other listings allow a part of this, or the same in the
\* opposite order.
SPECIFICATION SurfaceSpec
CONSTANTS
    Local = {u1}
    Federated = {g1}
    Roles = {"admin", "viewer"}
    Words = {p1, p2}
    SessionIds = {s1, s2}
    Flows = {f1}
    Requests = {r1, r2}
    None = None
    MaxHashes = 3
    MaxPasswordChecks = 2
    PruneBatch = 1
    BootstrapConfigured = TRUE

    Ids = {1, 2, 3}
    Values = {1, 2}
    Offered = {"members", "relays"}
    PageLimit = 1
SYMMETRY AccessSymmetry
INVARIANTS
    SessionsFollowThePassword
    FlowsAreRedeemedOnce
    ListingsAreComplete
PROPERTIES
    PasswordsDoNotComeBack
CHECK_DEADLOCK FALSE
