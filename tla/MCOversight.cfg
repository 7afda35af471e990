SPECIFICATION OversightSpec
CONSTANTS
    t1 = t1
    t2 = t2
    t3 = t3
    Tasks = {t1, t2, t3}
    Budget <- BudgetOf
    PerAgent = 2
    Total = 2
    Steps = 2
    MaxUsd = 2
    Spends <- Spendable
    Policies <- SomePolicies
    Actions <- SomeActions
    BadUsd = BadUsd
    MaxTime = 3
    MaxRequests = 1
    x1 = x1
    LoggedActions = {x1}
    Approvals = {q1}
    Costs = {1}
    MaxEvents = 4
    Attempts = 2
    cheap = cheap
    dear = dear
    NoMandate = NoMandate
    Orders <- OrderSet
    Price <- PriceOf
    Requests = {r1}
    Mandates <- SomeMandates
    MaxSets = 1
    MaxRestarts = 1
CHECK_DEADLOCK FALSE
INVARIANTS
    OkWithinTotal
    HoldsExplained
    RateKept
    
    RequestChargedOnce
    MoneyAccounted
PROPERTIES
    GatherReturns
    WaitersAnswered
