------------------------------ MODULE Services ------------------------------
(***************************************************************************)
(* The services around the payment core, composed.  They share no state: a *)
(* behaviour is one of the service that `focus` names, and the variables   *)
(* of the others stay blank.  What one run checks and one set of theorems  *)
(* states of them all is gathered here.                                    *)
(***************************************************************************)
EXTENDS Integers, FiniteSets

CONSTANTS
    AgentIds,                                                             \* AgentNetwork, Storage
    Deals, Buyer, Seller, Amount, MaxAmount, MaxTotalSpend,               \* AgentNetwork
    Holds, HoldAmount, MaxPerTransaction, MaxAggregate, Callers,          \* Rails
    Accounts, ConsoleRequests,                                            \* ConsoleAccounts, HostedBrain
    AppleAccounts, Emails, Challenges, Sessions, MaxAttempts,             \* ConsoleAccounts
    BillingEvents, Cancels, BillingRequests, Keys, MissionLimit,          \* ConsoleBilling
    Drivers, RingSize, MaxChanges,                                        \* ConsoleStore
    Memories,                                                             \* HostedBrain, MemoryStore
    Namespaces, Names, Traces,                                            \* HostedBrain
    Entities, Readers, Limit, Sure,                                       \* MemoryStore
    Minute, Hour,                                                         \* FraudGuard, Gateway
    Charges, Countries, Sanctioned, PerMinute, PerHour, PerDay, DailyVolume, BlockAt, FlagAt,
    HopLimit, FiveMinutes, TenMinutes, Day, MaxKnown, Oddities, Outside,
    MaxCharges, MaxTries, MaxOther, MaxTime,                              \* FraudGuard
    Tenants, Boot, Addresses, MaxRequests, Window, CallsPerMinute, CallsPerHour, Exposed,
    MaxTenants, Budgets, MaxKeys, MaxEngines, MaxWork, GatewayTime,       \* Gateway
    StoredMemories, StoredCharges, MaxCrashes, MaxFailures,               \* Storage
    Calls, Tokens, Iterators, MaxChunks,                                  \* LlmCalls
    Checkouts, Fields,                                                    \* Checkout
    MinObservations, CircuitBreakerThreshold, HealthyAgents, ManyAgents, Overrides,
    MaxRecords, KeptRecords, SavedRecords, MaxEvents, MaxCycles, MaxAdmin,  \* Adaptive
    MemoryIds, Contents, MaxAdds, MaxRebuilds,                            \* Integrity
    RemoteCalls, Escrows, RemoteKinds, MaxRetries                         \* RemoteClient

VARIABLES
    focus,
    token, dealLocks, deal, recorded, totalVolume,   \* AgentNetwork
    rail, hold, provider, minted, tidy,   \* Rails
    members, challenge, session, hasData, claimed,   \* ConsoleAccounts
    happened, seen, plan, starter, key, usage,   \* ConsoleBilling
    driver, value, ring, saveDirty, saveTimer, flushes, writing, failed, up, made,   \* ConsoleStore
    entity, edge, trace,   \* HostedBrain
    strategy, task, vectors, rows, reader, regen, review, observation,   \* MemoryStore
    guard, known, lost, foreign, passed,   \* FraudGuard
    hits, keys, wallets, engines, acked,   \* Gateway
    adapter, memoryRows, txRows, charged, credited, crashes, failures,   \* Storage
    at, rejected, remembered,   \* LlmCalls
    checkout, browser, placed,   \* Checkout
    adaptations, cycles, admin,   \* Adaptive
    leaves, leafMap, hashSet, snapshots, verdict, added, adds, rebuilds,   \* Integrity
    escrows, created, memories,   \* RemoteClient
    call, request, saved, memory, forgotten, wire, work, now, calls, stored, engine, paid, events      \* of more than one

Nw == INSTANCE AgentNetwork WITH Agents <- AgentIds
Rl == INSTANCE Rails WITH Amount <- HoldAmount
Ac == INSTANCE ConsoleAccounts WITH Requests <- ConsoleRequests
Bl == INSTANCE ConsoleBilling WITH Events <- BillingEvents, Requests <- BillingRequests
St == INSTANCE ConsoleStore
Br == INSTANCE HostedBrain WITH Requests <- ConsoleRequests
Ms == INSTANCE MemoryStore
Fg == INSTANCE FraudGuard
Gw == INSTANCE Gateway WITH PerMinute <- CallsPerMinute, PerHour <- CallsPerHour, MaxTime <- GatewayTime
Sg == INSTANCE Storage WITH Agents <- AgentIds, Memories <- StoredMemories, MaxCharges <- StoredCharges
Lm == INSTANCE LlmCalls
Co == INSTANCE Checkout
Ad == INSTANCE Adaptive
Ig == INSTANCE Integrity
Rc == INSTANCE RemoteClient WITH Calls <- RemoteCalls, Kinds <- RemoteKinds

-----------------------------------------------------------------------------
(* What the constants are.                                                 *)

\* There are accounts and emails, and no email reads as none.
AccountsAssumption ==
    Accounts # {} /\ Emails # {} /\ Ac!None \notin Emails /\ MaxAttempts \in Nat

\* A page shows a number of fields.
CheckoutAssumption == Fields \subseteq Nat

\* The operations called are operations.
RemoteAssumption == RemoteKinds \subseteq Rc!AllKinds

\* Every hold has an amount, and none reads as none.
RailsAssumption ==
    /\ IsFiniteSet(Holds) /\ HoldAmount \in [Holds -> Nat] /\ MaxAggregate \in Nat
    /\ Rl!None \notin Holds

\* Every deal has a buyer and an amount.
NetworkAssumption ==
    /\ IsFiniteSet(Deals) /\ Buyer \in [Deals -> AgentIds] /\ Amount \in [Deals -> Nat]
    /\ MaxTotalSpend \in Nat

\* The process has a tenant of its own, and a budget is a number.
GatewayAssumption == Boot \in Tenants /\ Budgets \subseteq Nat

\* Token counts are numbers, and a provider may report none.
LlmAssumption == Tokens \subseteq Nat /\ 0 \in Tokens /\ MaxChunks \in Nat

\* The threshold is above a half, and one fingerprint is kept at least.
FraudAssumption ==
    /\ IsFiniteSet(Countries) /\ Countries # {}
    /\ Charges \subseteq Nat /\ Charges # {}
    /\ Minute \in Nat /\ FiveMinutes \in Nat /\ Minute <= FiveMinutes
    /\ MaxKnown \in Nat \ {0} /\ BlockAt \in 51..100

\* More records are dropped at once than a cycle adds.
AdaptiveAssumption ==
    /\ MaxRecords \in Nat /\ KeptRecords \in Nat /\ SavedRecords \in Nat
    /\ KeptRecords + 3 <= MaxRecords

\* No memory reads as none.
IntegrityAssumption == "none" \notin MemoryIds

ASSUME ServicesAssumption ==
    /\ AccountsAssumption /\ CheckoutAssumption /\ RemoteAssumption /\ RailsAssumption
    /\ NetworkAssumption /\ GatewayAssumption /\ LlmAssumption /\ FraudAssumption
    /\ AdaptiveAssumption /\ IntegrityAssumption

-----------------------------------------------------------------------------
(* One service at a time.                                                  *)

vars == <<focus, Nw!vars, Rl!vars, Ac!vars, Bl!vars, St!vars, Br!vars, Ms!vars, Fg!vars,
          Gw!vars, Sg!vars, Lm!vars, Co!vars, Ad!vars, Ig!vars, Rc!vars>>

Blank == "blank"
IdleInit ==
    /\ focus # "network" =>
         /\ token = Blank /\ dealLocks = Blank /\ deal = Blank /\ recorded = Blank
         /\ totalVolume = Blank
    /\ focus # "rails" => rail = Blank /\ hold = Blank /\ provider = Blank /\ minted = Blank /\ tidy = Blank
    /\ focus \notin {"rails", "llm"} => call = Blank
    /\ focus # "accounts" =>
         /\ members = Blank /\ challenge = Blank /\ session = Blank /\ hasData = Blank
         /\ claimed = Blank
    /\ focus \notin {"accounts", "billing", "brain"} => request = Blank
    /\ focus # "billing" =>
         /\ happened = Blank /\ seen = Blank /\ plan = Blank /\ starter = Blank /\ key = Blank
         /\ usage = Blank
    /\ focus # "console" =>
         /\ driver = Blank /\ value = Blank /\ ring = Blank /\ saveDirty = Blank
         /\ saveTimer = Blank /\ flushes = Blank /\ writing = Blank /\ failed = Blank
         /\ up = Blank /\ made = Blank
    /\ focus \notin {"console", "memory", "fraud"} => saved = Blank
    /\ focus \notin {"brain", "memory"} => memory = Blank
    /\ focus # "brain" => entity = Blank /\ edge = Blank /\ trace = Blank
    /\ focus # "memory" =>
         /\ strategy = Blank /\ task = Blank /\ vectors = Blank /\ rows = Blank
         /\ reader = Blank /\ regen = Blank /\ review = Blank /\ observation = Blank
    /\ focus \notin {"memory", "storage"} => forgotten = Blank
    /\ focus \notin {"memory", "remote"} => wire = Blank
    /\ focus \notin {"memory", "gateway"} => work = Blank
    /\ focus \notin {"fraud", "gateway"} => now = Blank
    /\ focus # "fraud" => guard = Blank /\ known = Blank /\ lost = Blank /\ foreign = Blank /\ passed = Blank
    /\ focus # "gateway" => hits = Blank /\ keys = Blank /\ wallets = Blank /\ engines = Blank /\ acked = Blank
    /\ focus \notin {"gateway", "remote"} => calls = Blank /\ paid = Blank
    /\ focus \notin {"gateway", "storage"} => stored = Blank
    /\ focus \notin {"gateway", "storage", "adaptive"} => engine = Blank
    /\ focus # "storage" =>
         /\ adapter = Blank /\ memoryRows = Blank /\ txRows = Blank /\ charged = Blank
         /\ credited = Blank /\ crashes = Blank /\ failures = Blank
    /\ focus # "llm" => at = Blank /\ rejected = Blank /\ remembered = Blank
    /\ focus \notin {"llm", "adaptive"} => events = Blank
    /\ focus # "checkout" => checkout = Blank /\ browser = Blank /\ placed = Blank
    /\ focus # "adaptive" => adaptations = Blank /\ cycles = Blank /\ admin = Blank
    /\ focus # "integrity" =>
         /\ leaves = Blank /\ leafMap = Blank /\ hashSet = Blank /\ snapshots = Blank
         /\ verdict = Blank /\ added = Blank /\ adds = Blank /\ rebuilds = Blank
    /\ focus # "remote" => escrows = Blank /\ created = Blank /\ memories = Blank

Init ==
    /\ \/ focus = "network" /\ Nw!Init
       \/ focus = "rails" /\ Rl!Init
       \/ focus = "accounts" /\ Ac!Init
       \/ focus = "billing" /\ Bl!Init
       \/ focus = "console" /\ St!Init
       \/ focus = "brain" /\ Br!Init
       \/ focus = "memory" /\ Ms!Init
       \/ focus = "fraud" /\ Fg!Init
       \/ focus = "gateway" /\ Gw!Init
       \/ focus = "storage" /\ Sg!Init
       \/ focus = "llm" /\ Lm!Init
       \/ focus = "checkout" /\ Co!Init
       \/ focus = "adaptive" /\ Ad!Init
       \/ focus = "integrity" /\ Ig!Init
       \/ focus = "remote" /\ Rc!Init
    /\ IdleInit

IdleNext ==
    /\ UNCHANGED focus
    /\ focus # "network" => UNCHANGED <<token, dealLocks, deal, recorded, totalVolume>>
    /\ focus # "rails" => UNCHANGED <<rail, hold, provider, minted, tidy>>
    /\ focus \notin {"rails", "llm"} => UNCHANGED call
    /\ focus # "accounts" => UNCHANGED <<members, challenge, session, hasData, claimed>>
    /\ focus \notin {"accounts", "billing", "brain"} => UNCHANGED request
    /\ focus # "billing" => UNCHANGED <<happened, seen, plan, starter, key, usage>>
    /\ focus # "console" =>
         UNCHANGED <<driver, value, ring, saveDirty, saveTimer, flushes, writing,
                     failed, up, made>>
    /\ focus \notin {"console", "memory", "fraud"} => UNCHANGED saved
    /\ focus \notin {"brain", "memory"} => UNCHANGED memory
    /\ focus # "brain" => UNCHANGED <<entity, edge, trace>>
    /\ focus # "memory" =>
         UNCHANGED <<strategy, task, vectors, rows, reader, regen, review, observation>>
    /\ focus \notin {"memory", "storage"} => UNCHANGED forgotten
    /\ focus \notin {"memory", "remote"} => UNCHANGED wire
    /\ focus \notin {"memory", "gateway"} => UNCHANGED work
    /\ focus \notin {"fraud", "gateway"} => UNCHANGED now
    /\ focus # "fraud" => UNCHANGED <<guard, known, lost, foreign, passed>>
    /\ focus # "gateway" => UNCHANGED <<hits, keys, wallets, engines, acked>>
    /\ focus \notin {"gateway", "remote"} => UNCHANGED <<calls, paid>>
    /\ focus \notin {"gateway", "storage"} => UNCHANGED stored
    /\ focus \notin {"gateway", "storage", "adaptive"} => UNCHANGED engine
    /\ focus # "storage" =>
         UNCHANGED <<adapter, memoryRows, txRows, charged, credited, crashes, failures>>
    /\ focus # "llm" => UNCHANGED <<at, rejected, remembered>>
    /\ focus \notin {"llm", "adaptive"} => UNCHANGED events
    /\ focus # "checkout" => UNCHANGED <<checkout, browser, placed>>
    /\ focus # "adaptive" => UNCHANGED <<adaptations, cycles, admin>>
    /\ focus # "integrity" =>
         UNCHANGED <<leaves, leafMap, hashSet, snapshots, verdict, added, adds,
                     rebuilds>>
    /\ focus # "remote" => UNCHANGED <<escrows, created, memories>>

Next ==
    /\ IdleNext
    /\ \/ focus = "network" /\ Nw!Next
       \/ focus = "rails" /\ Rl!Next
       \/ focus = "accounts" /\ Ac!Next
       \/ focus = "billing" /\ Bl!Next
       \/ focus = "console" /\ St!Next
       \/ focus = "brain" /\ Br!Next
       \/ focus = "memory" /\ Ms!Next
       \/ focus = "fraud" /\ Fg!Next
       \/ focus = "gateway" /\ Gw!Next
       \/ focus = "storage" /\ Sg!Next
       \/ focus = "llm" /\ Lm!Next
       \/ focus = "checkout" /\ Co!Next
       \/ focus = "adaptive" /\ Ad!Next
       \/ focus = "integrity" /\ Ig!Next
       \/ focus = "remote" /\ Rc!Next

Spec == Init /\ [][Next]_vars

-----------------------------------------------------------------------------
(* Properties: those of the services, each stated in its module and         *)
(* evaluated on the behaviours of that service.                              *)

\* What is spent stays within what was granted: a buyer agent's deals within its
\* identity token (and no deal leaves its buyer locked), a rail's captures within
\* the hold (once) and the mandate.
LimitsKept ==
    /\ focus = "network" => Nw!PaidWithinToken /\ Nw!LockedWhileDealing
    /\ focus = "rails" => Rl!CapturedOnce /\ Rl!MandateKept

\* Of the emails that hold a code for a brand new account, one gets in.
ClaimedByOne == focus = "accounts" => Ac!ClaimedByOne

\* Provisioning leaves at most one active key, and a paid plan follows a payment.
ProvisionsOneKey == focus = "billing" => Bl!ProvisionsOneKey /\ Bl!PaidPlansArePaid

\* A change the console's store lacks is being written, is going to be, or the write
\* failed.
SaveScheduled == focus = "console" => St!SaveScheduled

\* The graph of a namespace covers its memories, and its edges cite what both their
\* ends cite.
GraphCovers == focus = "brain" => Br!GraphCovers

\* A recall answers with memories the agent still has.
RecallReturnsLive == [][focus = "memory" => Ms!AnswersLive]_vars

\* The fraud guard refuses a repeated charge, and geography alone never blocks.
ReplayRefused == focus = "fraud" => Fg!ReplayRefused /\ Fg!GeoNeverBlocks

\* A request spends the wallet of its tenant, under the mandate the tenant was told.
TenantsKeptApart == focus = "gateway" => Gw!OwnWallet /\ Gw!MandateInForce

\* A memory that was forgotten and saved does not come back from the database.
ForgottenStays == focus = "storage" => Sg!ForgottenStays

\* The records can be relied on: one audit event per streamed completion, and a
\* proof that verifies for every memory in the integrity tree.
AuditHolds ==
    /\ focus = "llm" => Lm!OneEventPerStream
    /\ focus = "integrity" => Ig!ProofsVerify

\* A success that is reported is one: the order's form was filled and submitted, the
\* remote escrow is in the state the call asked for.
SuccessIsReal ==
    /\ focus = "checkout" => Co!SuccessWasSubmitted
    /\ focus = "remote" => Rc!ReportedIsDone

\* A cycle moves a risk parameter by no more than one bounded step.
NoJumps == [][focus = "adaptive" => Ad!SmallStep]_vars
=============================================================================
