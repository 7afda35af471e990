---------------------------- MODULE HostedBrain ----------------------------
(***************************************************************************)
(* The hosted brain of the console (dashboard/server.js): memories in      *)
(* namespaces, the entity graph drawn from them, queries and reasoning     *)
(* traces.  Queries await the recall engine between choosing their         *)
(* candidates and reading the graph; writers run meanwhile.                *)
(***************************************************************************)
EXTENDS Integers, FiniteSets

CONSTANTS
    Accounts, Namespaces,
    Memories,      \* ids, which a caller may choose
    Names,         \* entities a text may mention
    Requests, Traces

VARIABLES
    memory,        \* memory[m]: its scope and the entities its text mentions, or NoMemory
    entity,        \* entity[s][n]: memoryIds, {} when there is no such entity
    edge,          \* edge[s][p]: memoryIds of the edge between the two entities of p
    trace,         \* trace[t]: the scope it was reasoned over, or Nothing
    request        \* queries that await the recall: their scope, or Nothing

vars == <<memory, entity, edge, trace, request>>

Scopes == Accounts \X Namespaces
Pairs  == {p \in SUBSET Names : Cardinality(p) = 2}
NoMemory == [scope |-> <<>>, names |-> {}]
Nothing  == <<>>

TypeOK ==
    /\ memory \in [Memories -> [scope : Scopes, names : SUBSET Names] \cup {NoMemory}]
    /\ entity \in [Scopes -> [Names -> SUBSET Memories]]
    /\ edge \in [Scopes -> [Pairs -> SUBSET Memories]]
    /\ trace \in [Traces -> Scopes \cup {Nothing}]
    /\ request \in [Requests -> Scopes \cup {Nothing}]

NoEntities == [n \in Names |-> {}]
NoEdges    == [p \in Pairs |-> {}]

Init ==
    /\ memory = [m \in Memories |-> NoMemory]
    /\ entity = [s \in Scopes |-> NoEntities] /\ edge = [s \in Scopes |-> NoEdges]
    /\ trace = [t \in Traces |-> Nothing] /\ request = [r \in Requests |-> Nothing]

In(s) == {m \in Memories : memory[m].scope = s}

-----------------------------------------------------------------------------
(* The graph *)

\* ingestMemoryGraph(): upsertBrainEntity() for each name, upsertBrainEdge() for each pair.
Ingested(s, m, names) ==
    /\ entity' = [entity EXCEPT ![s] = [n \in Names |-> IF n \in names THEN @[n] \cup {m} ELSE @[n]]]
    /\ edge' = [edge EXCEPT ![s] = [p \in Pairs |-> IF p \subseteq names THEN @[p] \cup {m} ELSE @[p]]]

SlipKeepsEdges(s) ==      \* only the entities are cleared
    entity' = [entity EXCEPT ![s] = NoEntities] /\ UNCHANGED edge

ClearBrainGraph(s) ==
    entity' = [entity EXCEPT ![s] = NoEntities] /\ edge' = [edge EXCEPT ![s] = NoEdges]

\* POST .../enrich draws the graph of the namespace anew.
RebuildBrainGraph(s) ==
    /\ entity' = [entity EXCEPT ![s] = [n \in Names |-> {m \in In(s) : n \in memory[m].names}]]
    /\ edge' = [edge EXCEPT ![s] = [p \in Pairs |-> {m \in In(s) : p \subseteq memory[m].names}]]
    /\ UNCHANGED <<memory, trace, request>>

-----------------------------------------------------------------------------
(* Memories *)

\* A new memory, or new text under an id in use, in whatever namespace it was; what
\* the graph drew from the text before stays.
StoreBrainMemory(s, m, names) ==
    /\ memory' = [memory EXCEPT ![m] = [scope |-> s, names |-> names]]
    /\ Ingested(s, m, names)
    /\ UNCHANGED <<trace, request>>

DeleteNamespace(s) ==
    /\ memory' = [m \in Memories |-> IF m \in In(s) THEN NoMemory ELSE memory[m]]
    /\ trace' = [t \in Traces |-> IF trace[t] = s THEN Nothing ELSE trace[t]]
    /\ ClearBrainGraph(s)
    /\ UNCHANGED request

\* The account's deletion spares its traces.
DeleteAccount(a) ==
    /\ memory' = [m \in Memories |-> IF \E ns \in Namespaces : m \in In(<<a, ns>>) THEN NoMemory ELSE memory[m]]
    /\ entity' = [s \in Scopes |-> IF s[1] = a THEN NoEntities ELSE entity[s]]
    /\ edge' = [s \in Scopes |-> IF s[1] = a THEN NoEdges ELSE edge[s]]
    /\ UNCHANGED <<trace, request>>

-----------------------------------------------------------------------------
(* queryBrain() and reasonOverBrain() *)

QueryBrain(r, s) ==
    /\ request[r] = Nothing
    /\ request' = [request EXCEPT ![r] = s]
    /\ UNCHANGED <<memory, entity, edge, trace>>

\* The recall has ranked the candidates.  A reasoning request keeps a trace of what
\* was found, whatever became of the namespace meanwhile; a query keeps nothing.
Reasoned(r, t) ==
    /\ request[r] # Nothing /\ trace[t] = Nothing
    /\ trace' = [trace EXCEPT ![t] = request[r]]
    /\ request' = [request EXCEPT ![r] = Nothing]
    /\ UNCHANGED <<memory, entity, edge>>

Answered(r) ==
    /\ request[r] # Nothing
    /\ request' = [request EXCEPT ![r] = Nothing]
    /\ UNCHANGED <<memory, entity, edge, trace>>

-----------------------------------------------------------------------------

Next ==
    \/ \E s \in Scopes, m \in Memories, names \in SUBSET Names : StoreBrainMemory(s, m, names)
    \/ \E s \in Scopes : RebuildBrainGraph(s) \/ DeleteNamespace(s)
    \/ \E a \in Accounts : DeleteAccount(a)
    \/ \E r \in Requests, s \in Scopes : QueryBrain(r, s)
    \/ \E r \in Requests, t \in Traces : Reasoned(r, t)
    \/ \E r \in Requests : Answered(r)

Spec == Init /\ [][Next]_vars

-----------------------------------------------------------------------------
(* Properties *)

\* Through stores under ids in use, rebuilds and deletions, the graph of a namespace
\* knows every entity and pair its memories mention, no edge outlives an entity it
\* joins, and an edge cites only memories that both its entities cite.
GraphCovers ==
    \A s \in Scopes :
        /\ \A m \in In(s) : \A n \in memory[m].names : m \in entity[s][n]
        /\ \A m \in In(s), p \in Pairs : p \subseteq memory[m].names => m \in edge[s][p]
        /\ \A p \in Pairs, n \in Names : n \in p => edge[s][p] \subseteq entity[s][n]
=============================================================================
