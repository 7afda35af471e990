SPECIFICATION MCSpec
CONSTANTS
    AgentIds = {"a1", "a2"}
    Deals = {"d1", "d2", "d3"}
    Buyer <- BuyerOf
    Seller <- SellerOf
    Amount <- PriceOf
    MaxAmount = 2
    MaxTotalSpend = 2
    Holds = {"h1", "h2", "h3"}
    HoldAmount <- HoldOf
    MaxPerTransaction = 2
    MaxAggregate = 3
    Callers = {"c1", "c2"}
    Accounts = {"acct"}
    ConsoleRequests = {"r1"}
    AppleAccounts = {"acct"}
    Emails = {"e1", "e2"}
    Challenges = {"ch1", "ch2"}
    Sessions = {"s1", "s2"}
    MaxAttempts = 1
    BillingEvents = {"paid", "ended"}
    Cancels = {"ended"}
    BillingRequests = {"r1", "r2"}
    Keys = {"k1", "k2"}
    MissionLimit = 1
    Drivers = {"sqlite", "postgres"}
    RingSize = 2
    MaxChanges = 3
    Memories = {"m1", "m2"}
    Namespaces = {"n1", "n2"}
    Names = {"x", "y"}
    Traces = {"t1"}
    Entities = {"e1"}
    Readers = {"r1"}
    Limit = 1
    Sure = 1
    Minute = 1
    Hour = 2
    Charges = {1}
    Countries = {"home", "away"}
    Sanctioned = {"away"}
    PerMinute = 2
    PerHour = 3
    PerDay = 4
    DailyVolume = 5
    BlockAt = 75
    FlagAt = 45
    HopLimit = 1
    FiveMinutes = 2
    TenMinutes = 2
    Day = 3
    MaxKnown = 1
    Oddities = {}
    Outside = {}
    MaxCharges = 3
    MaxTries = 3
    MaxOther = 1
    MaxTime = 2
    Tenants = {1, 2}
    Boot = 1
    Addresses = {"ip"}
    MaxRequests = 1
    Window = 2
    CallsPerMinute = 1
    CallsPerHour = 1
    Exposed = {"commerce", "tx"}
    MaxTenants = 1
    Budgets = {1}
    MaxKeys = 1
    MaxEngines = 2
    MaxWork = 2
    GatewayTime = 1
    StoredMemories = {"m1"}
    StoredCharges = 2
    MaxCrashes = 1
    MaxFailures = 1
    Calls = {1}
    Tokens = {0, 3}
    Iterators = {1, 2}
    MaxChunks = 2
    Checkouts = {1}
    Fields = {0, 2, 3}
    MinObservations = 1
    CircuitBreakerThreshold = 1
    HealthyAgents = 1
    ManyAgents = 0
    Overrides = {9900}
    MaxRecords = 12
    KeptRecords = 9
    SavedRecords = 9
    MaxEvents = 2
    MaxCycles = 3
    MaxAdmin = 1
    MemoryIds = {"m1", "m2", "m3"}
    Contents = {"c1", "c2"}
    MaxAdds = 3
    MaxRebuilds = 1
    RemoteCalls = {"p1", "p2"}
    Escrows = {"e1"}
    RemoteKinds = {"remember", "charge", "settle", "refund", "x402", "thinSettle", "sessionEnd", "forget"}
    MaxRetries = 1
CHECK_DEADLOCK FALSE
INVARIANTS
    
    ClaimedByOne
    
    
    GraphCovers
    ReplayRefused
    
    ForgottenStays
    AuditHolds
    
PROPERTIES
    RecallReturnsLive
    NoJumps
