----------------------------- MODULE ActionLog -----------------------------
(***************************************************************************)
(* The typed action ledger (governance/action-ledger.ts) on top of the     *)
(* audit chain (governance/audit-chain.ts), the bundles the chain is       *)
(* exported in and their anchoring (governance/anchor-sink.ts).  A SHA-256 *)
(* is the term it hashes.                                                  *)
(***************************************************************************)
EXTENDS Integers, Sequences, SequencesExt

CONSTANTS
    Actions,      \* actions agents may begin
    Approvals,    \* approval ids
    Costs,        \* costs an update may add
    MaxEvents,    \* bound on the chain's length
    Attempts      \* PollAnchorOptions.attempts

VARIABLES
    actions,      \* the in-memory map: records of the actions begun
    events, leafHashes,   \* the chain, and the leaf hash cached at emit()
    signer,       \* events are signed
    bundle,       \* a sealed bundle
    anchor        \* its anchoring at the sink, and the polls made

vars == <<actions, events, leafHashes, signer, bundle, anchor>>

Status == {"planned", "awaiting_approval", "executing", "completed", "failed", "blocked",
           "rolled_back"}
Ended == {"completed", "failed", "blocked", "rolled_back"}
NewAction == [status |-> "planned", cost |-> 0, approvals |-> <<>>]
NoBundle == [events |-> <<>>, root |-> <<>>, ref |-> <<>>]

Init ==
    /\ actions = <<>> /\ events = <<>> /\ leafHashes = <<>>
    /\ signer \in BOOLEAN
    /\ bundle = NoBundle
    /\ anchor = [state |-> "none", polls |-> 0, root |-> <<>>]

TypeOK ==
    /\ DOMAIN actions \subseteq Actions
    /\ \A a \in DOMAIN actions : actions[a].status \in Status /\ actions[a].cost \in Nat
    /\ Len(events) <= MaxEvents /\ Len(leafHashes) = Len(events)
    /\ anchor.state \in {"none", "pending", "anchored", "failed", "given_up"}
    /\ anchor.polls \in 0..Attempts

-----------------------------------------------------------------------------
(* AuditChain *)

Hash(x)     == <<"sha256", x>>
LeafHash(e) == Hash(e)

SlipHashesDraft(e) == Hash([e EXCEPT !.signed = FALSE])   \* hashed before it is signed

Leaf(e) == LeafHash(e)

\* One level of the tree; an odd node is paired with itself.
Pairs(layer) ==
    [i \in 1..((Len(layer) + 1) \div 2) |->
        LET a == layer[2 * i - 1]
        IN  Hash(<<a, IF 2 * i <= Len(layer) THEN layer[2 * i] ELSE a>>)]

MerkleRoot(leaves) ==
    LET level[k \in 0..Len(leaves)] ==
            IF k = 0 THEN leaves
            ELSE IF Len(level[k - 1]) <= 1 THEN level[k - 1] ELSE Pairs(level[k - 1])
        top == level[Len(leaves)]
    IN  IF top = <<>> THEN <<>> ELSE top[1]

Event(kind, a, arg) ==
    [kind |-> kind, action |-> a, arg |-> arg, sequence |-> Len(events), signed |-> signer]

\* emit().  The JSONL file it also appends to, when the disk allows, is never read.
Emit(kind, a, arg) ==
    LET ev == Event(kind, a, arg)
    IN  /\ Len(events) < MaxEvents
        /\ events' = Append(events, ev)
        /\ leafHashes' = Append(leafHashes, Leaf(ev))
        /\ UNCHANGED <<signer, bundle, anchor>>

-----------------------------------------------------------------------------
(* ActionLedger: each call changes the record and emits one event *)

Begin(a) ==
    /\ a \notin DOMAIN actions
    /\ actions' = (a :> NewAction) @@ actions
    /\ Emit("begin", a, 0)

Change(a, r) == actions' = [actions EXCEPT ![a] = r]

Update(a, usd) ==
    /\ a \in DOMAIN actions
    /\ Change(a, [actions[a] EXCEPT !.cost = @ + usd])
    /\ Emit("update", a, usd)

Pend(r, id) == [r EXCEPT !.status = "awaiting_approval",
                         !.approvals = Append(@, [id |-> id, status |-> "pending"])]

AwaitApproval(a, id) ==
    /\ a \in DOMAIN actions
    /\ Change(a, Pend(actions[a], id))
    /\ Emit("approval.requested", a, id)

\* The first approval with that id, if the action has one, takes the decision;
\* the action's own status stays.
Resolve(r, id, decision) ==
    LET is == {i \in DOMAIN r.approvals : r.approvals[i].id = id}
        i  == CHOOSE j \in is : \A k \in is : j <= k
    IN  IF is = {} THEN r ELSE [r EXCEPT !.approvals[i].status = decision]

ResolveApproval(a, id, decision) ==
    /\ a \in DOMAIN actions
    /\ Change(a, Resolve(actions[a], id, decision))
    /\ Emit("approval.resolved", a, <<id, decision>>)

SlipSilent(a) ==          \* the transition is not emitted
    /\ a \in DOMAIN actions
    /\ Change(a, [actions[a] EXCEPT !.status = "executing"])
    /\ UNCHANGED <<events, leafHashes, signer, bundle, anchor>>

MarkExecuting(a) ==
    /\ a \in DOMAIN actions
    /\ Change(a, [actions[a] EXCEPT !.status = "executing"])
    /\ Emit("executing", a, 0)

\* complete(), fail(), block() and rollBack().
End(a, status) ==
    /\ a \in DOMAIN actions
    /\ Change(a, [actions[a] EXCEPT !.status = status])
    /\ Emit("end", a, status)

-----------------------------------------------------------------------------
(* Bundles and anchors *)

ToBundle ==
    /\ events # <<>> /\ bundle = NoBundle
    /\ bundle' = [events |-> events, root |-> MerkleRoot(leafHashes), ref |-> <<>>]
    /\ UNCHANGED <<actions, events, leafHashes, signer, anchor>>

VerifyBundle == MerkleRoot([i \in DOMAIN bundle.events |-> LeafHash(bundle.events[i])]) = bundle.root

AnchorChainBundle ==
    /\ bundle.root # <<>> /\ anchor.state = "none"
    /\ anchor' = [anchor EXCEPT !.state = "pending", !.root = bundle.root]
    /\ UNCHANGED <<actions, events, leafHashes, signer, bundle>>

\* pollAnchor(): one status() of the loop; the last pending answer gives up.
PollAnchor(answer) ==
    /\ anchor.state = "pending"
    /\ anchor' = [anchor EXCEPT !.polls = @ + 1,
                     !.state = IF answer = "pending" /\ @ = "pending" /\ anchor.polls + 1 = Attempts
                               THEN "given_up" ELSE answer]
    /\ UNCHANGED <<actions, events, leafHashes, signer, bundle>>

\* attachAnchorReference() refuses to overwrite a reference.
AttachAnchorReference ==
    /\ anchor.state = "anchored" /\ bundle.ref = <<>>
    /\ bundle' = [bundle EXCEPT !.ref = anchor.root]
    /\ UNCHANGED <<actions, events, leafHashes, signer, anchor>>

-----------------------------------------------------------------------------

Next ==
    \/ \E a \in Actions : Begin(a)
    \/ \E a \in Actions, usd \in Costs : Update(a, usd)
    \/ \E a \in Actions, id \in Approvals : AwaitApproval(a, id)
    \/ \E a \in Actions, id \in Approvals, d \in {"approved", "rejected"} : ResolveApproval(a, id, d)
    \/ \E a \in Actions : MarkExecuting(a)
    \/ \E a \in Actions, s \in Ended : End(a, s)
    \/ ToBundle \/ AnchorChainBundle \/ AttachAnchorReference
    \/ \E s \in {"pending", "anchored", "failed"} : PollAnchor(s)

Spec == Init /\ [][Next]_vars

-----------------------------------------------------------------------------
(* Properties *)

\* What an auditor makes of one event,
Applied(acts, e) ==
    CASE e.kind = "begin"              -> (e.action :> NewAction) @@ acts
      [] e.kind = "update"             -> [acts EXCEPT ![e.action].cost = @ + e.arg]
      [] e.kind = "approval.requested" -> [acts EXCEPT ![e.action] = Pend(@, e.arg)]
      [] e.kind = "approval.resolved"  -> [acts EXCEPT ![e.action] = Resolve(@, e.arg[1], e.arg[2])]
      [] e.kind = "executing"          -> [acts EXCEPT ![e.action].status = "executing"]
      [] e.kind = "end"                -> [acts EXCEPT ![e.action].status = e.arg]

\* and of the chain's events alone, one after the other.
Replay(evs) ==
    LET after[n \in 0..Len(evs)] == IF n = 0 THEN <<>> ELSE Applied(after[n - 1], evs[n])
    IN  after[Len(evs)]

\* The typed view and the chain never part: replaying the events yields every
\* action's status, cost and approvals.
ViewIsReplay == actions = Replay(events)

\* A sealed bundle keeps verifying while the chain it was sealed from grows, and
\* an attached anchor commits to that bundle's root.
BundlesVerify ==
    bundle # NoBundle =>
        /\ VerifyBundle
        /\ bundle.ref # <<>> => bundle.ref = bundle.root
=============================================================================
