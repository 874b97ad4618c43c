SPECIFICATION Spec
CONSTANTS
    MaxIntents = 3
    Lots = 2
    Sides <- BuyOnly
    DayCountMax = 2
    FailureLimit = 2
    EnvelopeTotal = 3
    FlattenOnTrip = TRUE
    MaxLate = 1
INVARIANTS TypeOK NoOverfill QueriesAnswerTrue LimitsSeeEveryWrite
PROPERTIES LockIsForGood ImplementsLifecycle
