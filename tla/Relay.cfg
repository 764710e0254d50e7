\* One Job wanted by two Relays that share an identity, on two replicas; a
\* process that dies once among three connects; two tokens and two calls that
\* register; four takeovers of two registrations from two hosts; and a workload
\* that is deleted and made again in three deltas, or two of which one is listed,
\* delivered in any order.
CONSTANTS
    Jobs = {j1}
    Relays = {r1, r2}
    Replicas = {p1, p2}
    None = None
    Outcomes = {"succeeded"}
    Capacity = 1
    LeaseFor = 1
    QueueLimit = 2
    MaxSessions = 2
    MaxEpoch = 2

    MaxConnects = 3
    MaxRestarts = 1
    Nobody = Nobody

    Organizations = {"acme", "other"}
    Tokens = {k1, k2}
    MaxCalls = 2
    PerOrganization = 2
    Global = 2
    MaxTrackedOrgs = 1
    NoToken = NoToken

    Registrations = {g1, g2}
    Hosts = {"a", "b"}
    ChurnWindow = 2
    ChurnThreshold = 3
    ContendingHosts = 2
    ChurnMemory = 3
    MaxTracked = 1
    MaxTakeovers = 4
    MaxActing = 2
    MaxTime = 3

    Names = {1, 2}
    Workloads = {1, 2}
    InventoryLimit = 1
    Uids = {1, 2}
    Intervals = {1, 2}
    MaxObservations = 3
    MaxRevision = 1
    MaxPolicies = 1
    MaxPruned = 1
SPECIFICATION FleetSpec
SYMMETRY FleetSymmetry
INVARIANTS
    FencesHold
    ExecutionIsUnique
    CancellationIsHeard
    OneSessionGoesOn
    TokensEnrolOnce
    ContestsAreMarked
    InventoryIsCurrent
PROPERTIES
    RecordedOnce
    ConfirmationOnlyAdvances
CHECK_DEADLOCK FALSE
