\* Two workers and one that dies: claims outlived, answers lost, messages
\* opened twice.
SPECIFICATION Spec
CONSTANTS
    Workers = {w1, w2}
    MaxAttempts = 2
    LeaseFor = 2
    PageSize = 2
    RenderLimit = 2
    MaxEvents = 3
    MaxStreams = 2
    MaxCrashes = 1
SYMMETRY WorkerSymmetry
INVARIANTS
    Consistent
    CursorIsShown
    DeliveredIsComplete
    OneMessageSpeaks
CHECK_DEADLOCK FALSE
