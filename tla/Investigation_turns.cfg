\* One Conversation whose next turn is opened by a new Message, by the finishing
\* worker or by the admission loop, among single Investigations; no symmetry,
\* since everything that waits must be served.
CONSTANTS
    Conversations = {c1}
    Workers = {w1, w2}
    Windows = {d1, d2}
    None = None
    MaxPending = 1
    MaxQueued = 2
    MaxToolRuns = 0
    SweepBatch = 1
    LeaseFor = 1
    MaxInvestigations = 2
    MaxMessages = 4
    MaxEvents = 0
SPECIFICATION FairSpec
INVARIANTS
    TurnsAreADialogue
PROPERTIES
    EveryInvestigationEnds
    EveryMessageIsTaken
CHECK_DEADLOCK FALSE
