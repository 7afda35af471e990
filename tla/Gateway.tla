------------------------------ MODULE Gateway ------------------------------
(***************************************************************************)
(* The HTTP server of mcp/server.ts: the rate limit per address, the keys  *)
(* that tenants are provisioned with, the wallet a request acts for, the   *)
(* tools it may call, and the commerce engines, which are built when a     *)
(* tenant first shops.  There are two doors to commerce, the shop_* tools  *)
(* and the /api/commerce routes, each with engines of its own.             *)
(* What a tool does to its agent is left to the modules of the engine; a   *)
(* tool here charges a wallet or only reads it.                            *)
(***************************************************************************)
EXTENDS Integers, Sequences, SequencesExt, FiniteSets

CONSTANTS
    Tenants, Boot,               \* Boot is the tenant of the process's own agent
    Addresses, MaxRequests, Window,
    PerMinute, PerHour, Minute, Hour,      \* the limit on all MCP calls together, in ticks
    Exposed,                     \* the tools of the groups the server was started with
    MaxTenants,                  \* wallets beside the boot agent's
    Budgets, MaxKeys, MaxEngines, MaxWork, MaxTime    \* bounds of the model

VARIABLES
    now,
    hits,            \* RateLimiter: the times of each address's requests
    calls,           \* McpRateLimiter: the times of the MCP calls
    keys, stored,    \* TenantKeyStore, in memory and in tenant-keys.json: <<[tenant, revoked]>>
    wallets,         \* the registry's cache
    engine,          \* [Doors -> [Tenants -> None, Building or an engine]]
    engines,         \* the engines the process has built: <<[owner, mandate]>>
    acked,           \* [Doors -> [Tenants -> the last mandate that was acknowledged]]
    work,            \* requests that have awaited: {[door, tenant, op, engine]}
    paid             \* the last charge: {<<whom the request was for, whose wallet paid>>}

vars == <<now, hits, calls, keys, stored, wallets, engine, engines, acked, work, paid>>
limits == <<now, hits, calls>>
access == <<keys, stored>>
shops  == <<engine, engines, acked, work, paid>>

Doors == {"tool", "rest"}
None == 0
Building == -1
Buy == 0
Ops == {Buy} \cup Budgets              \* to purchase, or to set a mandate

TypeOK ==
    /\ now \in 0..MaxTime
    /\ hits \in [Addresses -> Seq(0..MaxTime)] /\ calls \in Seq(0..MaxTime) /\ Len(calls) <= PerHour
    /\ keys \in Seq([tenant : Tenants, revoked : BOOLEAN])
    /\ stored \in Seq([tenant : Tenants, revoked : BOOLEAN])
    /\ wallets \subseteq Tenants \ {Boot} /\ Cardinality(wallets) <= MaxTenants
    /\ engine \in [Doors -> [Tenants -> Building..MaxEngines]]
    /\ engines \in Seq([owner : Tenants, mandate : Budgets \cup {None}]) /\ Len(engines) <= MaxEngines
    /\ acked \in [Doors -> [Tenants -> Budgets \cup {None}]]
    /\ work \subseteq [door : Doors, tenant : Tenants, op : Ops, engine : 0..MaxEngines]
    /\ paid \subseteq Tenants \X Tenants

Nothing == [d \in Doors |-> [t \in Tenants |-> None]]

Init ==
    /\ now = 0 /\ hits = [a \in Addresses |-> <<>>] /\ calls = <<>>
    /\ keys = <<>> /\ stored = <<>> /\ wallets = {}
    /\ engine = Nothing /\ acked = Nothing
    /\ engines = <<>> /\ work = {} /\ paid = {}

-----------------------------------------------------------------------------
(* The rate limit *)

InWindow(times) == SelectSeq(times, LAMBDA t : t > now - Window)

Admitted(a) ==
    /\ Len(InWindow(hits[a])) < MaxRequests
    /\ hits' = [hits EXCEPT ![a] = Append(InWindow(@), now)]

Tick ==
    /\ now < MaxTime /\ now' = now + 1
    /\ UNCHANGED <<hits, calls, access, wallets, shops>>

\* Every five minutes; it keeps the times of the last two windows.
Cleanup ==
    /\ hits' = [a \in Addresses |-> SelectSeq(hits[a], LAMBDA t : t > now - 2 * Window)]
    /\ UNCHANGED <<now, calls, access, wallets, shops>>

-----------------------------------------------------------------------------
(* Keys *)

Active(ks, t) == {i \in DOMAIN ks : ks[i].tenant = t /\ ~ks[i].revoked}

\* A tenant with an active key gets no other.  A write that fails is only logged.
Minted(t, written) ==
    /\ Active(keys, t) = {} /\ Len(keys) < MaxKeys
    /\ keys' = Append(keys, [tenant |-> t, revoked |-> FALSE])
    /\ stored' = (IF written THEN keys' ELSE stored)

\* The wallet is built at once, unless there are too many.
Provision(t, written) ==
    /\ Minted(t, written) \/ (Active(keys, t) # {} /\ UNCHANGED access)
    /\ wallets' = (IF t = Boot \/ Cardinality(wallets \cup {t}) > MaxTenants THEN wallets ELSE wallets \cup {t})
    /\ UNCHANGED <<limits, shops>>

RevokeAgent(t, written) ==
    /\ Active(keys, t) # {}
    /\ keys' = [i \in DOMAIN keys |-> IF keys[i].tenant = t THEN [keys[i] EXCEPT !.revoked = TRUE] ELSE keys[i]]
    /\ stored' = (IF written THEN keys' ELSE stored)
    /\ UNCHANGED <<limits, wallets, shops>>

-----------------------------------------------------------------------------
(* Requests *)

SlipHeaderFirst(k, named) == IF named = None THEN (IF k = None THEN Boot ELSE keys[k].tenant) ELSE named

\* A key of the store pins its tenant, whatever the header names; without either the
\* process's own agent acts.
ActingAgent(k, named) == IF k # None THEN keys[k].tenant ELSE IF named = None THEN Boot ELSE named

\* registry.resolve()
Resolved(t) ==
    \/ t = Boot /\ UNCHANGED wallets
    \/ t # Boot /\ Cardinality(wallets \cup {t}) <= MaxTenants /\ wallets' = wallets \cup {t}

\* A request with key k (None: it only has the server's token) naming a tenant.
Request(a, k, named) ==
    /\ Admitted(a)
    /\ k # None => ~keys[k].revoked
    /\ Resolved(ActingAgent(k, named))
    /\ UNCHANGED calls

McpAdmitted ==
    LET hour == SelectSeq(calls, LAMBDA t : now - t < Hour)
    IN  /\ Len(hour) < PerHour /\ Len(SelectSeq(hour, LAMBDA t : now - t < Minute)) < PerMinute
        /\ calls' = Append(hour, now)

\* An MCP call of an exposed tool, naming a tenant or none.
McpCall(named, group) ==
    /\ group \in Exposed
    /\ McpAdmitted
    /\ Resolved(ActingAgent(None, named))
    /\ UNCHANGED hits

Charged(by, t) == paid' = {<<by, t>>}

\* A tool that charges; REST has every tool, the groups only bind MCP calls.
ChargeTool(a, k, named) ==
    /\ Request(a, k, named) \/ (k = None /\ McpCall(named, "tx"))
    /\ Charged(IF k = None THEN ActingAgent(k, named) ELSE keys[k].tenant, ActingAgent(k, named))
    /\ UNCHANGED <<now, access, engine, engines, acked, work>>

\* A tool that reads, a refusal by the key check, or a tool that fails.
OtherTool(a) ==
    /\ Admitted(a)
    /\ UNCHANGED <<now, calls, access, wallets, shops>>

\* getCommerceEngine() stores the promise of the engine before it is built, and
\* getCommerce() the engine once the module has been imported.
Shop(a, k, named, door, op) ==
    LET t == ActingAgent(k, named)
        e == engine[door][t]
    IN  /\ Request(a, k, named) \/ (k = None /\ door = "tool" /\ McpCall(named, "commerce"))
        /\ Cardinality(work) < MaxWork
        /\ work' = work \cup {[door |-> door, tenant |-> t, op |-> op, engine |-> IF e = Building THEN None ELSE e]}
        /\ engine' = (IF door = "tool" /\ e = None THEN [engine EXCEPT ![door][t] = Building] ELSE engine)
        /\ UNCHANGED <<now, access, engines, acked, paid>>

SlipStoresWhenBuilt(t) ==                \* as the routes do it: each waiting call builds its own
    \E w \in work :
        /\ w.door = "tool" /\ w.tenant = t /\ w.engine = None /\ Len(engines) < MaxEngines
        /\ engines' = Append(engines, [owner |-> t, mandate |-> None])
        /\ engine' = [engine EXCEPT !["tool"][t] = Len(engines')]
        /\ work' = (work \ {w}) \cup {[w EXCEPT !.engine = Len(engines')]}
        /\ UNCHANGED <<limits, access, wallets, acked, paid>>

Waiting(t) == {w \in work : w.door = "tool" /\ w.tenant = t /\ w.engine = None}

\* Everyone who waits gets the one engine.
EngineBuilt(t) ==
    /\ engine["tool"][t] = Building /\ Len(engines) < MaxEngines
    /\ engines' = Append(engines, [owner |-> t, mandate |-> None])
    /\ engine' = [engine EXCEPT !["tool"][t] = Len(engines')]
    /\ work' = (work \ Waiting(t)) \cup {[w EXCEPT !.engine = Len(engines')] : w \in Waiting(t)}
    /\ UNCHANGED <<limits, access, wallets, acked, paid>>

\* The provider is not configured: the calls fail, and the next one tries again.
EngineFails(t) ==
    /\ engine["tool"][t] = Building
    /\ engine' = [engine EXCEPT !["tool"][t] = None]
    /\ work' = work \ Waiting(t)
    /\ UNCHANGED <<limits, access, wallets, engines, acked, paid>>

Imported(w) ==
    /\ w.door = "rest" /\ w.engine = None /\ Len(engines) < MaxEngines
    /\ engines' = Append(engines, [owner |-> w.tenant, mandate |-> None])
    /\ engine' = [engine EXCEPT !["rest"][w.tenant] = Len(engines')]
    /\ work' = (work \ {w}) \cup {[w EXCEPT !.engine = Len(engines')]}
    /\ UNCHANGED <<limits, access, wallets, acked, paid>>

MandateSet(w) ==
    /\ engines' = [engines EXCEPT ![w.engine].mandate = w.op]
    /\ acked' = [acked EXCEPT ![w.door][w.tenant] = w.op]
    /\ UNCHANGED paid

\* A purchase charges the engine's agent, if there is a mandate that allows it.
Purchased(w) ==
    /\ \/ UNCHANGED paid
       \/ engines[w.engine].mandate # None /\ Charged(w.tenant, engines[w.engine].owner)
    /\ UNCHANGED <<engines, acked>>

Performed(w) ==
    /\ w.engine # None
    /\ work' = work \ {w}
    /\ IF w.op = Buy THEN Purchased(w) ELSE MandateSet(w)
    /\ UNCHANGED <<limits, access, wallets, engine>>

\* The keys are read again; engines, mandates and rate limits are gone.
Restart ==
    /\ keys' = stored
    /\ hits' = [a \in Addresses |-> <<>>] /\ calls' = <<>>
    /\ wallets' = {} /\ engine' = Nothing /\ acked' = Nothing
    /\ engines' = <<>> /\ work' = {}
    /\ paid' = {}
    /\ UNCHANGED <<now, stored>>

Next ==
    \/ Tick \/ Cleanup \/ Restart
    \/ \E t \in Tenants, written \in BOOLEAN : Provision(t, written) \/ RevokeAgent(t, written)
    \/ \E a \in Addresses, k \in {None} \cup DOMAIN keys, named \in {None} \cup Tenants :
          \/ ChargeTool(a, k, named)
          \/ \E door \in Doors, op \in Ops : Shop(a, k, named, door, op)
    \/ \E a \in Addresses : OtherTool(a)
    \/ \E t \in Tenants : EngineBuilt(t) \/ EngineFails(t)
    \/ \E w \in work : Imported(w) \/ Performed(w)

Spec == Init /\ [][Next]_vars

-----------------------------------------------------------------------------
(* Properties *)

InForce(door) ==
    \A t \in Tenants : acked[door][t] # None =>
        LET e == engine[door][t] IN e \notin {None, Building} /\ engines[e].mandate = acked[door][t]

\* What a tenant was told its mandate is binds its next purchase, however many of its
\* first calls overlap (the promise cached in getCommerceEngine).
MandateInForce == InForce("tool")

\* Each request spends the wallet of the tenant it came from: the key's owner, through
\* whichever door and engine.
OwnWallet == \A c \in paid : c[1] = c[2]

\* "One engine per tenant" (server.ts, getCommerce).  The routes break it: two first
\* calls that overlap build two, and the mandate set on the first is lost.
OneEnginePerTenant == InForce("rest")
=============================================================================
