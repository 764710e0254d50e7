SPECIFICATION Spec
CONSTANTS
    None = None
    Alerts <- MCAlerts
    Key <- MCKey
    Deliveries <- RaceDeliveries
    Identity <- RaceIdentity
    Batch <- RaceBatch
    Operators = {}
    AgentAvailable = TRUE
    MaxIncidents = 2
    MaxConcurrent = 2
INVARIANTS
    OpenWhileFiring
