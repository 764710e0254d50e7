\* Three alerts of two groups in four deliveries, one of which reuses an identity;
\* two operators at one Postmortem; an agent with one read, one page and one prior
\* reference; and two audited changes of two Organizations against the sweeps of two
\* replicas.
SPECIFICATION RecordsSpec
CONSTANTS
    None = None
    Alerts <- MCAlerts
    Key <- MCKey
    Deliveries <- MCDeliveries
    Identity <- MCIdentity
    Batch <- MCBatch
    Operators = {o1, o2}
    AgentAvailable = TRUE
    MaxIncidents = 4
    MaxConcurrent = 3

    Editors = {o1, o2}
    Facts = {f1}
    Corrections = {"cause", "title"}
    Cited <- MCCited
    NoReviewer = NoReviewer
    MaxWrites = 4

    ToolReads = {r1}
    Pages = {h1}
    Prior = {e1}
    MaxRuns = 2
    MaxTurns = 2
    MaxCalls = 2
    MaxRecorded = 3
    MaxCitations = 1

    Tenants = {"acme", "other"}
    Retentions = {0, 1, 2}
    Changes = {c1, c2}
    Pruners = {p1, p2}
    MaxDays = 3
    PruneBatch = 1
    MaxBatches = 2
    KeepsAll = KeepsAll
SYMMETRY RecordsSymmetry
INVARIANTS
    AlertsReachIncidents
    IncidentsAreSound
    PostmortemsAreCurrent
    AgentIsGrounded
    TrailIsKept
PROPERTIES
    NothingIsUndone
    RunApproachesItsEnd
