\* Two workers and two Investigations outside any Conversation: claims, leases,
\* tool runs and events racing the sweeper, cancellations and crashes.
CONSTANTS
    Conversations = {}
    Workers = {w1, w2}
    Windows = {d1}
    None = None
    MaxPending = 1
    MaxQueued = 1
    MaxToolRuns = 2
    SweepBatch = 2
    LeaseFor = 2
    MaxInvestigations = 2
    MaxMessages = 0
    MaxEvents = 1
SPECIFICATION Spec
SYMMETRY WorkerSymmetry
INVARIANTS
    Consistent
    StreamEndsOnce
PROPERTIES
    ImplementsLifecycle
CHECK_DEADLOCK FALSE
