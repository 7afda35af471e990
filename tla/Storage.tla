------------------------------ MODULE Storage ------------------------------
(***************************************************************************)
(* An engine on a storage adapter (storage/sqlite.ts, and _saveToStorage,  *)
(* _loadFromStorage and their callers in index.ts).  Agents may share one  *)
(* SQLite database; a JSON file belongs to one agent.  Every operation     *)
(* saves what the engine holds in one transaction, whose failure is        *)
(* swallowed; a restart keeps what the last successful save wrote.  The    *)
(* awaits inside settle() and refund() are AgentPayments'; here they are   *)
(* one step, with the default rail, which captures whatever it is asked to.*)
(* All charges are of one unit.                                            *)
(***************************************************************************)
EXTENDS Integers, FiniteSets

CONSTANTS
    Agents, Memories,
    MaxCharges, MaxCrashes, MaxFailures    \* bounds

VARIABLES
    adapter,    \* "sqlite" or "json"
    engine,     \* per agent: [up, wallet, chargeCounter, memories, transactions, calls]
    stored,     \* per agent: [known, wallet], the rows of agent_state
    memoryRows, \* memories whose row is stored, with its agent
    txRows,     \* rows of transactions, by key
    charged,    \* charges made so far
    credited,   \* how often each charge was paid into a wallet
    forgotten,  \* memories forgotten with the save done
    crashes, failures

vars == <<adapter, engine, stored, memoryRows, txRows, charged, credited, forgotten, crashes, failures>>

Ids  == 1..MaxCharges       \* what String(++_chargeCounter) yields
NoTx == [charge |-> 0, status |-> "none", owner |-> "nobody"]
Tx(c, s, a) == [charge |-> c, status |-> s, owner |-> a]
Txs == [charge : 0..MaxCharges, status : {"none", "pending", "expired"}, owner : Agents \cup {"nobody"}]

Fresh == [up |-> TRUE, wallet |-> 0, chargeCounter |-> 0, memories |-> {},
          transactions |-> [i \in Ids |-> NoTx], calls |-> {}]

TypeOK ==
    /\ adapter \in {"sqlite", "json"}
    /\ engine \in [Agents -> [up : BOOLEAN, wallet : Nat, chargeCounter : 0..MaxCharges, memories : SUBSET Memories,
                    transactions : [Ids -> Txs], calls : SUBSET (Ids \X (1..MaxCharges))]]
    /\ stored \in [Agents -> [known : BOOLEAN, wallet : Nat]]
    /\ memoryRows \subseteq Memories \X Agents /\ forgotten \subseteq Memories
    /\ charged \in 0..MaxCharges /\ credited \in [1..MaxCharges -> Nat]
    /\ crashes \in 0..MaxCrashes /\ failures \in 0..MaxFailures

Init ==
    /\ adapter \in {"sqlite", "json"}
    /\ engine = [a \in Agents |-> Fresh]
    /\ stored = [a \in Agents |-> [known |-> FALSE, wallet |-> 0]]
    /\ memoryRows = {} /\ forgotten = {}
    /\ txRows = [key \in (IF adapter = "sqlite" THEN {"any"} ELSE Agents) \X Ids |-> NoTx]
    /\ charged = 0 /\ credited = [c \in 1..MaxCharges |-> 0] /\ crashes = 0 /\ failures = 0

-----------------------------------------------------------------------------
(* One save *)

\* The database has one table of transactions, keyed by id alone.
Table(a) == IF adapter = "sqlite" THEN "any" ELSE a

\* An existing row keeps its amount, external id and agent; a transaction the engine no longer holds is
\* left as it is.
Upserted(a, e) ==
    [key \in DOMAIN txRows |->
        LET mine == e.transactions[key[2]]
        IN  IF key[1] # Table(a) \/ mine = NoTx THEN txRows[key]
            ELSE IF txRows[key] = NoTx THEN mine ELSE [txRows[key] EXCEPT !.status = mine.status]]

Rewritten(a, e) == [key \in DOMAIN txRows |-> IF key[1] = a THEN e.transactions[key[2]] ELSE txRows[key]]

SlipDeletesNoneOfNone(a, e) ==            \* without the branch for an empty list
    {r \in memoryRows : r[2] # a \/ e.memories = {} \/ r[1] \in e.memories} \cup (e.memories \X {a})

MemoriesSaved(a, e) == {r \in memoryRows : r[2] # a} \cup (e.memories \X {a})

\* Engine a becomes e and saves; a failed save is logged, and the call goes on.
Save(a, e) ==
    /\ engine' = [engine EXCEPT ![a] = e]
    /\ stored' = [stored EXCEPT ![a] = [known |-> TRUE, wallet |-> e.wallet]]
    /\ memoryRows' = MemoriesSaved(a, e)
    /\ txRows' = IF adapter = "sqlite" THEN Upserted(a, e) ELSE Rewritten(a, e)
    /\ forgotten' = forgotten \cup ((engine[a].memories \cup {m \in Memories : <<m, a>> \in memoryRows}) \ e.memories)
    /\ UNCHANGED failures

NoSave(a, e) ==
    /\ failures < MaxFailures
    /\ failures' = failures + 1
    /\ engine' = [engine EXCEPT ![a] = e]
    /\ UNCHANGED <<stored, memoryRows, txRows, forgotten>>

Keep(a, e) == Save(a, e) \/ NoSave(a, e)

-----------------------------------------------------------------------------
(* The operations *)

Up(a) == engine[a].up

Remember(a, m) ==
    /\ Up(a) /\ m \notin engine[a].memories /\ m \notin forgotten
    /\ \A b \in Agents \ {a} : m \notin engine[b].memories /\ <<m, b>> \notin memoryRows      \* ids are random
    /\ Keep(a, [engine[a] EXCEPT !.memories = @ \cup {m}])
    /\ UNCHANGED <<adapter, charged, credited, crashes>>

\* disconnect(), reinforce(), a blocked charge: what is held is saved again.
SaveAgain(a) == Up(a) /\ Save(a, engine[a]) /\ UNCHANGED <<adapter, charged, credited, crashes>>

Forget(a, m) ==
    /\ Up(a) /\ m \in engine[a].memories
    /\ Keep(a, [engine[a] EXCEPT !.memories = @ \ {m}])
    /\ UNCHANGED <<adapter, charged, credited, crashes>>

\* charge() up to the rail's createHold().
Charge(a) ==
    /\ Up(a) /\ charged < MaxCharges /\ charged' = charged + 1
    /\ engine' = [engine EXCEPT ![a].chargeCounter = @ + 1, ![a].calls = @ \cup {<<engine[a].chargeCounter + 1, charged + 1>>}]
    /\ UNCHANGED <<adapter, stored, memoryRows, txRows, credited, forgotten, crashes, failures>>

Held(a, call) ==
    /\ Up(a) /\ call \in engine[a].calls
    /\ Keep(a, [engine[a] EXCEPT !.calls = @ \ {call}, !.transactions[call[1]] = Tx(call[2], "pending", a)])
    /\ UNCHANGED <<adapter, charged, credited, crashes>>

HoldFails(a, call) ==
    /\ Up(a) /\ call \in engine[a].calls
    /\ engine' = [engine EXCEPT ![a].calls = @ \ {call}]
    /\ UNCHANGED <<adapter, stored, memoryRows, txRows, charged, credited, forgotten, crashes, failures>>

IsPending(a, i) == Up(a) /\ engine[a].transactions[i].status = "pending"

\* settle(): the wallet is credited and the transaction leaves the map; the ring buffer is not stored.
SettleTx(a, i) ==
    /\ IsPending(a, i)
    /\ Keep(a, [engine[a] EXCEPT !.wallet = @ + 1, !.transactions[i] = NoTx])
    /\ credited' = [credited EXCEPT ![engine[a].transactions[i].charge] = @ + 1]
    /\ UNCHANGED <<adapter, charged, crashes>>

RefundTx(a, i) ==
    /\ IsPending(a, i)
    /\ Keep(a, [engine[a] EXCEPT !.transactions[i] = NoTx])
    /\ UNCHANGED <<adapter, charged, credited, crashes>>

\* expireStaleEscrows() leaves the transaction in the map.
ExpireTx(a, i) ==
    /\ IsPending(a, i)
    /\ Keep(a, [engine[a] EXCEPT !.transactions[i].status = "expired"])
    /\ UNCHANGED <<adapter, charged, credited, crashes>>

-----------------------------------------------------------------------------
(* Restart *)

\* The counter of charges is not among what the adapters keep.
Reloaded(a) ==
    [Fresh EXCEPT !.wallet = stored[a].wallet, !.memories = {m \in Memories : <<m, a>> \in memoryRows},
        !.transactions = [i \in Ids |-> LET r == txRows[<<Table(a), i>>] IN IF r.owner = a THEN r ELSE NoTx]]

\* The process ends, by a crash or after the save of disconnect().
Stop(a) ==
    /\ Up(a) /\ crashes < MaxCrashes /\ crashes' = crashes + 1
    /\ engine' = [engine EXCEPT ![a] = [Fresh EXCEPT !.up = FALSE]]
    /\ UNCHANGED <<adapter, stored, memoryRows, txRows, charged, credited, forgotten, failures>>

Start(a) ==
    /\ ~Up(a)
    /\ engine' = [engine EXCEPT ![a] = IF stored[a].known THEN Reloaded(a) ELSE Fresh]
    /\ UNCHANGED <<adapter, stored, memoryRows, txRows, charged, credited, forgotten, crashes, failures>>

Next ==
    \E a \in Agents :
        \/ \E m \in Memories : Remember(a, m) \/ Forget(a, m)
        \/ Charge(a) \/ SaveAgain(a) \/ Stop(a) \/ Start(a)
        \/ \E call \in engine[a].calls : Held(a, call) \/ HoldFails(a, call)
        \/ \E i \in Ids : SettleTx(a, i) \/ RefundTx(a, i) \/ ExpireTx(a, i)

Spec == Init /\ [][Next]_vars

-----------------------------------------------------------------------------
(* What was forgotten and saved does not come back with a restart, even     *)
(* when it was the agent's last memory and saves fail in between            *)
(* (SQLiteStorage.save, "Clean deleted memories").                          *)
ForgottenStays == \A a \in Agents : engine[a].memories \cap forgotten = {}

(* index.ts:1760: "the counters, ring buffer and tx eviction above are part *)
(* of the money state": what a settlement saved is not settled again after  *)
(* a restart.  With SQLite it is: its row stays pending.                    *)
SettledOnce == \A c \in 1..MaxCharges : credited[c] <= 1
=============================================================================
