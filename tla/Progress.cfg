\* A Slack Message, two workers and an operator who recovers; a reply worker that
\* may die; a Job and a Relay that may crash, leave and come back;
\* and a client whose stream breaks twice.  No symmetry.
SPECIFICATION ProgressSpec
CONSTANTS
    Messages = {m1}
    Threads = {t1}
    Thread <- MCThread
    Workers = {w1, w2}
    None = None
    MaxQueued = 1
    MaxAttempts = 2
    Budget = 3
    LeaseFor = 1
    MaxRecoveries = 1

    ReplyWorkers = {v1}
    ReplyLeaseFor = 2
    ReplyPage = 2
    RenderLimit = 2
    ReplyEvents = 3
    MaxStreams = 1
    MaxCrashes = 1

    Jobs = {j1}
    Relays = {r1}
    Replicas = {p1}
    Outcomes = {"succeeded"}
    Capacity = 1
    QueueLimit = 2
    MaxSessions = 2
    MaxEpoch = 2

    Clients = {c1}
    PageSize = 2
    MaxEvents = 4
    MaxBreaks = 2
INVARIANTS
    TerminalIsEarned
    FollowersMissNothing
PROPERTIES
    LeaseIsExclusive
    EveryMessageSettles
    EveryReplySettles
    EveryJobSettles
    StreamsReachTheEnd
CHECK_DEADLOCK FALSE
