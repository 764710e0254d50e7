\* Users of two Organizations, two requests in progress.
SPECIFICATION MCSpec
CONSTANTS
    Ids = {i1, i2}
    Operators = {o1, o2}
    Home <- MCHome
    Served = {"slack", "github", "prometheus", "loki", "tempo", "alertmanager", "generic_webhook", "kubernetes"}
    Keys = {k1}
    Flows = {f1, f2}
    Requests = {r1, r2}
    Sealing = TRUE
    MaxFresh = 2
    None = None
CONSTRAINT FewAtATime
VIEW MCView
SYMMETRY IntegrationSymmetry
INVARIANTS
    InstallationsAreOwnedOnce
    ConnectFlowsAreRedeemedOnce
PROPERTIES
    StaysInTheOrganization
CHECK_DEADLOCK FALSE
