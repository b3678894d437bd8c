SPECIFICATION WorkloadSpec
CONSTANTS
    Requests = {r1, r2}
    Slots = 1
    Workers = 1
    MaxClock = 1
INVARIANTS
    TypeOK
    GaugesSettle
    SlotTimeWithinLimit
    AbandonedIsError
    NoPhantomLoad
    CanceledIsError
    SuccessIsEndToEnd
PROPERTIES
    EveryRequestAnswered
    EveryCallLeaves
CHECK_DEADLOCK FALSE
