# MnemoPay SDK: a TLA+ development

This directory holds TLA+ modules that model the MnemoPay SDK (`src/src`) and
its hosted console (`src/dashboard`), the TLC configurations that check them,
and theorems about the money-moving core that TLAPS checks. `PROJECT.json` lists the runs, the properties,
the mutated definitions each property rejects, and the source lines each
definition stands for. Paths below are relative to
`src/src`, those that begin with `dashboard` to `src`.

## 1. The system

MnemoPay gives an AI agent memory and a wallet. One JavaScript thread runs an
agent, so code between two `await`s is atomic; every `await` (a payment rail, a
lock chain, a webhook post) lets other calls in. Several processes may hold the
same agent: every MCP server process constructs its own `MnemoPayLite` for the
same agent id and they share one JSON file and one SQLite database.

| component | source | state | operations | interacts with |
|---|---|---|---|---|
| Ledger | `ledger.ts` | entries in a hash chain, sequence number, running balances, base and declared head | posting methods, `compact`, `setHighThroughput`, `serialize` and the constructor, `verifyChain`, `reconcile` | called by the engine; its snapshot is part of the persist file |
| Payment engine | `index.ts`, `MnemoPayLite` | map of live transactions, ring buffer of terminal ones, counters, wallet and its promise-chain lock, guards of calls in progress | `charge`, `settle`, `refund`, `expireStaleEscrows`, `dispute`, `resolveDispute`, `reconcile` | posts to the ledger, awaits the rail, asks the fraud guard, saves after each change |
| Persist file | `index.ts` 559-1145 | `<agent>.json`, `.bak`, `.tmp`, `.lock`; per process the base digest and version | load, refresh, save (lock, merge, adopt, backup, write, rename, release) | shared by processes that know nothing of each other |
| SQLite storage | `storage/sqlite.ts`, `index.ts` | rows of agents that may share a database | save, load | replaces the persist file of an engine |
| Fraud guard | `fraud.ts` | replay fingerprints, ring of recent charges, trust of locations, disputes, fees | `assessCharge`, `recordCharge`, `fileDispute`, `resolveDispute`, `applyPlatformFee` | called by the engine, saved with it |
| Adaptive limits | `adaptive.ts` | fee rate, block threshold, records, overrides, breaker | `observe`, `runCycle`, overrides, `serialize` | read by the engine |
| Payment rails | `rails/*.ts` | holds at a provider; AP2 mandates | `createHold`, `capturePayment`, `reversePayment` | awaited by the engine |
| Webhook outbox | `storage/webhooks.ts` | subscriptions and deliveries in SQLite | `register`, `unregister`, `fire`, `pumpOnce` | pumped by a 2-second timer of every MCP server |
| Approval queue | `storage/approval-queue.ts`, `mcp/server.ts` | pending charges and purchases, in SQLite and mirrored in memory | enqueue, approve, reject, expiry sweep | calls the engine and the commerce engine |
| Commerce engine | `commerce.ts` | mandate, `totalSpent`, orders | `setMandate`, `purchase`, `cancelOrder`, `confirmDelivery` | engine calls around its awaits |
| Checkout | `commerce/checkout/*` | a browser page and a timeout | `execute` | decides whether an order's hold stays |
| Swarm | `swarm/index.ts`, `swarm/browser.ts` | tasks, sessions, the total spent | `spawn`, `stop` | a browser provider |
| Governance | `governance/*` | missions, policies and rate counts, approvals, action ledger on an audit chain | reserve, settle, evaluate, decide, append, seal, anchor | payment adapter, audit sinks |
| Agent network | `network.ts` | deals and locks per buyer | `transact`, `refundDeal` | engines of two agents, identity |
| Identity | `identity.ts` | tokens, revocations, kill switch | issue, validate, spend, revoke | part of the persist file |
| Memory and recall | `index.ts`, `recall/*` | memories, tombstones, embeddings, observations | `remember`, `forget`, `consolidate`, `recall` | part of the persist file |
| Memory integrity | `integrity.ts` | Merkle tree over memories | add, remove, `getProof`, `snapshot`, `detectTampering` | the tool `memory_integrity_check` |
| LLM middleware | `middleware/*` | calls and streams in progress | wrapped `create` | memories, the audit chain |
| MCP server | `mcp/server.ts` | rate limits, tenant keys, commerce engines per tenant | requests | every component above |
| Remote clients | `index.ts`, `client.ts` | none but the call | charge, settle, refund, remember | remote backends over HTTP |
| Hosted console | `dashboard/*` | accounts, members, sessions, plans, keys, memories and their graph, the store | HTTP handlers, Stripe webhooks, debounced save | Stripe, Postgres, the recall engine |

`PROJECT.json` lists the remaining parts (risk models, adapters, the command
line) with the reason each is left out.

What makes it hard:

* **calls overlap on one transaction.** `settle` and `refund` have separate
  guards; the expiry sweep and disputes look at neither. A call holds an object
  across an await while another call evicts it from the map, copies it into the
  ring buffer and reactivates a fresh copy.
* **money has several records**: wallet, ledger, rail and transaction status
  change at different moments, and the wallet step may be refused after the
  ledger step.
* **processes overlap on one file**: each writes its whole state, from a
  snapshot that may be stale; crashes fall between lock, backup, write, rename.
* **posts overlap**: a pump starts every two seconds while a post may hang for
  ten; a receiver may have accepted what the sender counts as failed.

What correctness means: escrow equals what is pending; a fee is taken once; what
is closed is never payable again; the wallet holds no more than was paid in;
every call ends and frees its guard; the hash chain links and numbers survive
compaction and restarts; committed money is not erased by a stale writer; a file
to load always exists; saves are not blocked for ever; a delivery is neither
given up early nor forgotten; what an agent, a swarm, a mission or a mandate
spends stays within what it was given; whoever waits for an answer gets one; a
tenant's calls reach its own wallet; what is deleted stays deleted; what is
reported as done was done. Section 4 states these as properties.

## 2. Modules

| module | models |
|---|---|
| `Postings` | the posting methods of the ledger as changes of account balances |
| `Ledger` | the `Ledger` class: one action per operation that changes state |
| `EscrowContract` | abstract: the phases a payment may go through |
| `AgentPayments` | the engine's money operations, with rail, ledger postings and dispute records |
| `PersistFile` | processes that share one persist file |
| `WebhookOutbox` | the outbox and its overlapping pumps |
| `Swarm` | one run of a base or browser swarm |
| `Mission` | `runMission` with its payment adapter and bundle |
| `PolicyGate` | policies, rate counter, linter and approval store |
| `ActionLog` | the action ledger, audit chain, bundles, anchoring |
| `Commerce` | the commerce engine and the approval queue with its MCP handlers |
| `AgentNetwork` | deals between agents under identity tokens |
| `Rails` | the rails against a provider that loses answers |
| `FraudGuard` | replay detection, velocity, geography, the decision |
| `Storage` | engines on SQLite or JSON storage, with restarts |
| `MemoryStore` | memories, embeddings, recall, observations, reviews |
| `Integrity` | the Merkle tree over memories |
| `Adaptive` | the adaptation cycle of fee rate and block threshold |
| `Checkout` | checkout strategies raced against their timeout |
| `LlmCalls` | memory and audit wrappers of model clients |
| `RemoteClient` | clients of remote backends over a lossy network |
| `Gateway` | the HTTP server: limits, keys, tenants, commerce engines |
| `ConsoleAccounts`, `ConsoleBilling`, `ConsoleStore`, `HostedBrain` | the hosted console |
| `Oversight` | `Swarm`, `Mission`, `PolicyGate`, `ActionLog` and `Commerce` composed |
| `Services` | the modules from `AgentNetwork` to `HostedBrain` composed |
| `MCLedger`, `MCPayments`, `MCPersist`, `MCWebhooks`, `MCOversight`, `MCServices` | finite constants for TLC |
| `Sums` | lemmas about sums over finite sets |
| `LedgerProofs`, `AgentPaymentsProofs`, `PaymentTurnsProofs`, `PersistProofs`, `WebhookProofs`, `OversightProofs`, `ServicesProofs` | theorems and proofs |

`AgentPayments` extends `Postings`, the same operators `Ledger` moves money
with; it instantiates `EscrowContract` with a refinement mapping (`PhaseOf`).

**Ledger.** A hash is the identity of an entry (every entry hashes random ids).
Amounts are cents. `Transfer` is both halves of a transfer and its running
balances; `Serialize` and `Restore` are a save and a later construction from
any earlier snapshot. High-throughput mode counts entries without recording them.

**AgentPayments.** Each public method is cut at its awaits. `Settle` runs to the
capture call; `RailCaptures`/`CaptureThrows` is the rail's answer;
`SettleRecords` posts fee and ledger and queues the wallet callback;
`WalletCredits`/`WalletRefuses` is that callback on the `_walletLock` chain,
which stays rejected once a callback threw (`lockBroken`); `SettleEnds` does
counters, ring buffer and eviction. A transaction is a set of *objects*
(`heap`), because the code keeps object references across awaits:
`transactions[t]` names the live one, calls in progress remember theirs, and
`Reactivate` makes a new one out of a buffer entry. `externalId` is the set of
transactions whose object holds the rail's id: the code stores it only when
persistence was on at charge time, and without it settle, refund and expiry skip
the rail and their first await. What may refuse a charge (reputation ceiling,
risk score) is left open: a charge may happen or not. Rate limits, dispute and
refund windows are free choices for the same reason.

**PersistFile.** A step is one file-system call of a save; another process, a
crash (`Crash`) or a power loss (`PowerLoss`) may come between any two. Money is
the set of changes in it, which is enough to see a lost one. `owns` are the
processes with a release function: a save whose lock file could not be opened
goes on without one, and a lock file whose first write failed belongs to nobody.

**WebhookOutbox.** A pump works on a snapshot of rows (`todo`, `posting`) and
writes back attempts from that snapshot. `tried`, `accepted` and `unacked` are
history variables for what receivers saw.

**Commerce.** An order is a record of its status, the transaction's outcome
(`escrow`, which `AgentPayments` has in detail) and the call in progress on it.
`Purchase` runs to the approver or the hold, and every answer is a step. The
queue is held twice, in memory and in rows, because deletes may fail and a
restart reads the rows. `Age` and `Sweep` are the ten-minute expiry.

**Swarm, Mission, PolicyGate, ActionLog.** `Swarm` cuts a task at each await of
its provider, `Closed` adds its spend and may raise the abort that `stop()` and
the grace timer complete. `Mission` throws at any of its awaits. `PolicyGate`
evaluates an action in one step against the counts of a sliding window
(`passed` is the history of what was let through). `ActionLog` keeps view and
chain apart, a hash being the term it hashes.

**The services.** `AgentNetwork` awaits charge, settlement and two memories
between checking a token and recording the deal. `Rails` lets a provider carry
out a request and lose the answer, so captures are retried; each rail's own
guard against that (idempotency key, cached state, invoice look-up) is its
branch. `FraudGuard` keeps times in ticks and weights in hundredths; signals of
models that are not modelled are any set of `Oddities`. `Storage` writes
everything in one transaction that may fail silently. `Adaptive` cuts its records
off at `MaxRecords` in memory and at `SavedRecords` in the file. `MemoryStore` cuts
`remember`, `recall`, `consolidate` and the background observation and review at
their awaits. `Gateway` has a tenant, a door and a tool per request. The console
modules interleave HTTP handlers where they await a body, Stripe or the recall
engine, and `ConsoleStore` is the debounced write with changes during it.

Operators whose names begin with `Slip`, and those a comment calls a slip, are
plausible bugs of one definition; each property must reject one of them.

## 3. Runs

| run | checks | bounds |
|---|---|---|
| `ledger` | `TypeOK`, `NoBrokenLinks`, `SeqIncreasing`, `ReconcileConsistent` | 2 routes, 3 transfers (6 entries), compaction to 1 or 3 |
| `payments` | `TypeOK`, `EscrowMatchesPending`, `WalletBacked`, `ImplementsContract` | 2 transactions, calls on one transaction take turns, buffer of 1, wallet limit 3, 2 disputes each |
| `payments_overlap` | `FeeAtMostOnce`, `NeverPayableAgain`, `CallsEnd` (fair) | 1 transaction with 2 objects, calls overlap freely, rail may fail softly, reconcile |
| `persist` | `VersionNamesState`, `CommittedMoneyStays`, `MainStaysWhole`, `MemoriesKept` | 2 processes, 2 money changes, 1 memory, 1 fault |
| `persist_recovery` | `OrphanRemoved` (fair) | 2 processes, 2 faults of any kind, pauses, power loss |
| `webhooks` | `TypeOK`, `AcceptedOnce`, `DeadWasTried`, `DeliveriesEnd` (fair) | 2 pumps, 2 subscriptions (one to a blocked host), 3 attempts, 1 crash |
| `oversight` | `OkWithinTotal`, `HoldsExplained`, `RateKept`, `ViewIsReplay`, `RequestChargedOnce`, `MoneyAccounted`, `GatherReturns`, `WaitersAnswered` (fair) | 3 tasks of budgets 1 to 3, total 2, 2 steps; spends 0 to 3 for a budget of 2; 4 policies, 6 actions, time to 3, 1 approval; 1 action, 4 events; 2 orders, 1 request, 1 mandate change, 1 restart |
| `services` | `LimitsKept`, `ClaimedByOne`, `ProvisionsOneKey`, `SaveScheduled`, `GraphCovers`, `RecallReturnsLive`, `ReplayRefused`, `TenantsKeptApart`, `ForgottenStays`, `AuditHolds`, `SuccessIsReal`, `NoJumps` | per service, in `MCServices` and its cfg |

`oversight` and `services` check parts that share no state with each other. A
composition of such parts has no behaviour its parts lack, so `Oversight` and
`Services` choose a part (`focus`) and run only it: the union of the state
spaces, not their product. The variables of an idle part stay blank; variables
with one name in two services are one variable. The idle swarm and the idle shop
stay at an initial state instead, where nothing their fairness speaks of is
enabled. `MCOversight` and `MCServices` only give the constants values.

Why the bounds are enough. Two transactions are what eviction, the shared wallet
lock and the order of queued callbacks need; a buffer of one makes every second
settlement evict; a wallet limit of 3 with payouts of 1 or 2 is reached. Two
objects are a live one and a stale one; a third would only be another stale one.
Two processes are what every file race needs, and two changes what a conflict
needs. Two pumps give stale snapshots both ways; three attempts separate "given
up" from "tried once more".

In `oversight`, any two tasks that succeed exceed the total, one budget is above
the per-agent limit, and a cheap order needs no approval while both orders
together exceed the mandate. A window of one tick and a clock to 3 put
observations before, at and after its edge. In `services`, two deals of one
buyer exceed its token, two callers capture one hold, two emails claim one
account, a webhook is delivered twice during a provisioning, two changes fit
around one write, two engines share a database, a stream has two iterators, and
three leaves make the Merkle tree uneven. `Quiet` bounds the memory service to
one persistence call or background job at a time next to a running recall;
`MemoriesInOrder` and `AccountsInOrder` take identical memories, challenges and
sessions in one order, which only removes symmetric copies.

The two payment runs split the question: with free overlap the code does *not*
keep escrow and status in step (see `find_refund_race`), so those properties are
stated for calls that take turns, and the stronger guards are checked for calls
that overlap. `CHECK_DEADLOCK FALSE` is used where the system may really come to
rest: all transactions closed and none charged, an outbox with nothing due.
Symmetry is used only in runs without liveness.

**Fairness.** `AgentPayments`: the event loop runs queued continuations and the
rail's HTTP clients time out, so answers and continuations are weakly fair;
nobody must call anything. `PersistFile`: a live process reaches its next
file-system call (weak), the autosave timer fires (weak), and a lock file that
keeps existing gets older than ten seconds, so a process that keeps trying finds
it stale (strong, because each single try may give up before). Restarting a
crashed process is not assumed. `WebhookOutbox`: time passes, some pump keeps
being started, a post is answered or aborted; no receiver must accept.

In `oversight` each call of a swarm's
provider answers or throws and its continuation runs, the grace timer fires,
queue entries age and the minute timer sweeps. No human must answer, nobody must
call `stop()`.
The `services` run states safety only.

**Disagreements.** Four runs show that the code does what a comment, a test or
the README says it does not:

* `find_refund_race` - a settlement that awaits its rail overwrites a refund
  that finished meanwhile;
* `find_silent_loss` - a refresh adopts a newer file and drops unsaved changes
  without the promised conflict report;
* `find_settled_again` - with SQLite storage the row of a settled payment stays
  pending, and after a restart the payment is settled, and the wallet credited,
  again;
* `find_last_owner` - a member update without a role demotes the last owner.

Each of the following is stated in its module as a definition that TLC finds
violated, without a run of its own here:

* `UntamperedChainIsValid` (`Ledger`) - a restored ledger keeps the snapshot's
  head as the declared head, so the next transfer makes `verifyChain()` invalid;
* `SettledAtMostOnce` (`AgentPayments`) - a settlement the wallet refuses is
  already in the ledger and stays payable; the rejected lock chain refuses all
  later credits;
* `RevocationsStay` (`PersistFile`) - another process's save undoes a token
  revocation;
* `AcknowledgedReadsDelivered` (`WebhookOutbox`) - an overlapping pump's late
  failure overwrites `delivered`;
* `BudgetKept` (`Commerce`) - overlapping purchases hold more than the mandate's
  budget (commerce.ts:398 checks before its awaits);
* `VelocityKept` (`FraudGuard`) - a light signal beside `velocity_burst` lowers
  the average, and the charge above the limit per minute passes;
* `RecallAnswered` (`MemoryStore`) - an observation among the results makes
  `recall()` throw, because it is looked up among the memories;
* `OneEnginePerTenant` (`Gateway`) - two first calls of the REST routes build
  two commerce engines, and the mandate set on the first is lost;
* `UnchangedIsVerified` (`Integrity`) - `memory_integrity_check` given the
  previous hash reports critical tampering of an unchanged tree
  (mcp/server.ts:2312 compares a root with a snapshot hash);
* `VerifiesWhatWasAdded` (`Integrity`) - after compaction or a restart leaves
  are re-indexed but not re-hashed, and `verifyMemory()` rejects what was added.

Others were seen while modelling and are modelled as the code has them, without
a run of their own: `_pendingCount` drifts (expiry does not decrement it, a
refund of a completed payment does); the ledger's agent balance is not the
wallet; a dispute refund posts nothing to the ledger; a rejected refund leaves a
terminal object in the map; a dispute whose transaction left the ring buffer
cannot be resolved; payments charged before persistence is enabled are settled
without a capture; the save after a recovery from `.bak` copies the torn main
file over the good backup; two processes that find the same stale lock may both
remove it; `unregister()` fails on the foreign key once a delivery exists.

In the parts added around the core: a mission aborted after its reservation
leaves the hold open (governance/runtime.ts:38); a deal whose memory fails after
its settlement is never recorded and cannot be refunded (network.ts); concurrent
AP2 holds may pass the same aggregate check (google-ap2.ts:338), and a reversal
while a capture's outcome is unknown frees an amount that was captured; a lazy
browser swarm's `stop()` closes nothing; a blocked action still consumes the
rate of earlier rules (policy.ts:215); a failed `load()` starts an agent fresh
and its next save deletes the rows; charge ids restart from 1 on a storage
adapter and may meet a row of that id; a checkout that timed out may have placed
its order (executor.ts:181), and Shopify's strategy may report success without a
click; a retried POST whose answer was lost creates a second escrow or memory,
and a release that was done but not answered is reported as failed; a failed
flush of the console store is retried only with the next change; deleting an
account does not cancel its Stripe subscription, whose next event brings it
back; a member update in flight during a deletion re-creates the member.

## 4. Properties and how they are argued

* `EscrowMatchesPending` - the ledger's escrow for a transaction is its amount
  exactly while it is payable and its settlement is not posted.
* `WalletBacked` - the wallet never exceeds the net payouts the ledger holds.
* `ImplementsContract` - every step of the engine is a step of the abstract
  escrow contract or leaves its phase alone, through reactivation and eviction.
* `FeeAtMostOnce`, `NeverPayableAgain`, `CallsEnd` - see the module.
* `VersionNamesState`, `CommittedMoneyStays`, `MemoriesKept` hold while saves do
  not overlap in time; `overlap` records when they did (a stale lock removed
  under a slow holder, or a save without a lock). `MainStaysWhole` holds without
  power loss. With power loss a process recovers from `.bak` or `.tmp`, which
  carry older versions, so versions may be used twice; only recovery of the lock
  is checked there.
* `DeadWasTried`, `DeliveriesEnd` hold for overlapping pumps, `AcceptedOnce`
  while no pump has overlapped another.
* `OkWithinTotal` - the work a swarm reports as ok never costs more than its
  total, although tasks in flight may spend more: the verdict is composed after
  the spend is counted. With it, no session stays open after its task.
* `GatherReturns` - all promises of a spawned run resolve, each recorded once.
* `HoldsExplained`, `RateKept`, `ViewIsReplay` - see the modules.
* `RequestChargedOnce` - across failing deletes, expiry and restarts a queued
  charge is made once. `MoneyAccounted` - for purchases that take turns
  `totalSpent` is what the mandate's orders hold or paid; always, a closed order
  has its money back or says that its refund failed, and nothing that asked for
  approval is held without it. `WaitersAnswered` - a waiting purchase is
  answered.
* `LimitsKept` - deals within the buyer's token although check and count are
  awaits apart (the lock per buyer); one capture per hold although answers are
  lost; the AP2 counter equal to what is held and captured.
* `ClaimedByOne`, `ProvisionsOneKey`, `SaveScheduled`, `GraphCovers` - the
  console under overlapping requests, redelivered webhooks and changes during a
  write.
* `RecallReturnsLive` - no forgotten memory in an answer, although the search
  awaited its embedding.
* `ReplayRefused` - while the detector has the fingerprint; it loses it with a
  full map, a restart, or the adoption of another process's state.
* `TenantsKeptApart`, `ForgottenStays`, `AuditHolds`, `SuccessIsReal`, `NoJumps`
  - see the modules; `NoJumps` while the records fit.

## 5. Proofs

Every safety property and action property of a passing run is a theorem of its
specification, for every value of the constants. The assumptions are
`LedgerAssumption`, `PaymentsAssumption`, `OutboxAssumption`,
`PersistAssumption`, `FilesAssumption`, `CommerceAssumption`,
`OversightAssumption` and `ServicesAssumption`, which TLC evaluates in the runs.
The last two are conjunctions of one assumption per part (`SwarmAssumption`,
`RailsAssumption`, ...), the hypothesis of the theorem about that part. They say
that amounts and limits are numbers, that the sets that are summed over are
finite, and that no name reads as "none". Further hypotheses are named where
they occur.

**`Sums`.** Wallets, budgets, windows and ledger entries are sums of a function
over a finite set, which the library defines by recursion. What is used of them
(`SumAdd`, `SumTake`, `SumChange`, `SumMonotonic`, `SumAtMost`, `SumOverLess`,
`GreatestOf`) is proved there, each from a smallest counterexample, since no
induction rule can be instantiated.

**`LedgerProofs`**: `TypeCorrect`, `ChainIntact` (`NoBrokenLinks`),
`NumberedInOrder` (`SeqIncreasing`), `BooksReconcile` (`ReconcileConsistent`).
The chain's invariant says that neighbours in `entries` are linked and numbered
upwards, that the first entry links to `baseHash`, that the last entry's hash is
`lastEntryHash` and its number below `seq`, and the same of the stored snapshot:
without the last part a restore could start anywhere, without the head and the
number an append could not be shown to continue the chain. The balances' says
that, unless something was skipped or compacted, each running balance is the sum
of the entries' postings, in memory and in the snapshot.

**`AgentPaymentsProofs`** (overlapping calls): `TypeCorrect`, `OneFee`
(`FeeAtMostOnce`), `StaysClosed` (`NeverPayableAgain`), for any number of
transactions, objects and calls. `TypeInv` adds to types that a call in progress
holds an object. `SafeInv` adds: buffered copies are not pending; before the
charge returns nothing refers to the transaction; a payable transaction is its
original object, the one every settlement in progress holds; an applied
settlement's object is terminal; and no fee is recorded for a payable
transaction that is not in the wallet step. Reactivation, expiry and dispute
outcomes only write terminal statuses, so nothing reopens.

**`PaymentTurnsProofs`** (calls on one transaction take turns): `EscrowIsPending`
(`EscrowMatchesPending`), `WalletIsBacked` (`WalletBacked`, for finitely many
transactions) and `EngineKeepsContract` (`ImplementsContract`, with `~Overlap`,
the question the `payments` run asks). `Own(t)` says of each transaction whose
turn it is, where its one record is, what the ledger holds in escrow for it and
what its payouts credit. A step changes this for one transaction and leaves the
others apart; the wallet moves by no more than that transaction's credit, so the
sum of the credits stays above it. The simulation then has one case per step.

**`PersistProofs`**: `TypeCorrect`, `CommittedStays` (`CommittedMoneyStays`),
`VersionsName` (`VersionNamesState`), `MainIsWhole` (`MainStaysWhole`),
`MemoriesAreKept` (`MemoriesKept`), for any processes, changes and faults. Saves
that do not overlap run one at a time, and only a rename changes the main file;
so what a process read while merging is what the file holds when it renames. The
money needs the versions: nobody is ahead of the file, and whoever is at its
version is in step with it. The first two take `~LosesPower`: TLC finds
`VersionNamesState` violated with power loss and two faults.

**`WebhookProofs`**: `TypeCorrect`, `GivenUpLate` (`DeadWasTried`),
`RepeatsOnlyUnacknowledged` (`AcceptedOnce`). The first rests on counting: the
attempts of a row, of a batch and of a post in flight never exceed the posts
made. The second on turns: until pumps overlap one pump holds rows, each once,
all pending.

**`OversightProofs`** has a section per part and, last, one for the composition:
the part in focus stays in focus and makes only its own steps, so what holds of
it alone (in brackets) holds of `Oversight`.

* `ChargedOnce` (`RequestChargedOnce`), and `ShopKeepsAccounts` - a request is charged only after it left
  the queue and its row, so neither expiry nor a restart finds it again.
* `MoneyIsAccounted` (`MoneyAccounted`), and `ShopKeepsAccounts` - what an order holds is a matter of
  where its calls stand; while calls take turns the orders' holdings sum up to
  `totalSpent`.
* `SwarmKeepsItsTotal` (`SwarmBounded`: `OkWithinTotal`, `SessionsReturned`) - the spend is the sum
  over the tasks that were counted, and until the abort it is within the total.
* `MissionsAreExplained` (`MissionExplained`: `HoldsExplained`,
  `BundleTellsOutcome`) - hold, outcome and
  audit are determined by where `runMission` stands.
* `RatesAreKept` (`RateLimited`: `RateKept`) - the counter of a rule has not forgotten, within
  the rule's window, an action that the rule let pass.
* `ViewsAreReplays` (`LogReplays`: `ViewIsReplay`, `BundlesVerify`) - replaying one more event is
  one more update of the view.

**`ServicesProofs`** takes the services one by one; each section's comment gives
its invariant. The last section composes them, as above.

* Console: `ConsoleSaves` (`SavesAreScheduled`), `AccountsHaveOneClaimant`
  (`OneClaims`), `AccountsHaveOneKey` (`OneKeyProvisioned`), `BrainIsCovering`
  (`GraphIsCovering`).
* Storage and recall: `ForgottenMemoriesStay` (`ForgottenIsGone`),
  `RecallsAreLive` (`AnswersAreLive`), the latter an action property.
* Checkout and remote clients: `SuccessReal` (`SuccessIsSubmitted`,
  `ReportsAreTrue`). A call that goes on has done what its earlier requests were
  for, and nothing done is undone.
* Rails and deals: `LimitsAreKept` (`MandateHolds`, `DealsWithinTokens`). What a
  token counts is the sum of its deals; a deal in progress holds its buyer's
  lock, and nobody else's.
* Gateway: `TenantsAreKeptApart` (`TenantsAreApart`). Every engine, also one that
  is being built or that a request is waiting in, belongs to the tenant it is
  filed under.
* LLM middleware and integrity tree: `RecordsHold` (`StreamsAreAudited`,
  `TreesVerify`). `Integrity` writes the loops of `getRoot()`, `getProof()` and
  `verifyProof()` as recursive functions over the levels. Levels shrink to one
  node; on each level the hash that `verifyProof()` has reached is the node above
  the leaf (`OneUp`, `PathVerifies`), for a tree of any size. `TreeInv` keeps the
  map, the set of hashes and the leaves in step; the active leaves are the
  leaves that are left, each once, renumbered (`Placing`).
* Fraud guard: `ReplaysAreRefused` (`RepeatsAreRefused`). Each charge that passed
  is a minute old, or its fingerprint was dropped, or the detector still has an
  attempt at least as young; aging removes old attempts off the front only. With
  a threshold above one half (`FraudAssumption`; 0.75 in the code) no set of
  geographic signals reaches it.
* Adaptive engine: `StepsAreSmall` - a step that drops no records moves each
  parameter by one bounded step - and `CyclesMakeNoJumps` (`JumpsExcluded`),
  whose further hypotheses say that the records of all cycles fit into memory and
  file, as they do in the run. They are needed: `MaxRecords` and `SavedRecords`
  cut records off the front, and a parameter whose records are all cut off falls
  back to its default.

Only model-checked: everything temporal with fairness (`CallsEnd`,
`OrphanRemoved`, `DeliveriesEnd`, `GatherReturns`, `WaitersAnswered`), since
liveness and ENABLED are out of the prover's reach. `TypeOK` of the modules in `services` and of `Swarm`, `Mission`,
`PolicyGate` and `ActionLog` is not an invariant of a run; the proofs carry the
types they need in their own invariants.

## 6. Not modelled

Risk models (`anomaly.ts`, `behavioral.ts`, `fico.ts`, `fraud-ml.ts`) compute
with floating-point numbers; what they return is one of the signals `FraudGuard`
leaves open. `subagent-cost.ts` appends one posting per run; it keeps the
`Ledger` object it was given, which persistence replaces. The drip queue is
never initialised by the server. Adapters, the command line, examples,
benchmarks and the wrappers in other languages hold no shared state or are pure
I/O; keys, DIDs and signatures are cryptography. Of the modelled components,
`PROJECT.json` says per component what is left out.

## 7. Plan

1. `Ledger`, `EscrowContract`, `AgentPayments`, `PersistFile`, `WebhookOutbox` -
   checked; their safety and the refinement are proved.
2. `Commerce`, `Swarm`, `Mission`, `PolicyGate`, `ActionLog` - checked, safety
   proved.
3. The services around the core - checked, safety proved. A composition of
   `Storage` and `AgentPayments` would show a restart between the awaits of a
   settlement.

To prove next: more about calls that overlap (what `FeeAtMostOnce` and
`NeverPayableAgain` leave open once a wallet callback has failed), and what
power loss leaves of `CommittedMoneyStays`.
