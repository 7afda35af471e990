-------------------------- MODULE ConsoleBilling ---------------------------
(***************************************************************************)
(* Plans, provisioned keys and metering of the hosted console (dashboard/  *)
(* server.js) and the webhook log (idempotency.cjs).  Stripe delivers an   *)
(* event any number of times, also while an earlier delivery awaits the    *)
(* starter memory; the account's own requests provision and charge         *)
(* meanwhile.                                                              *)
(***************************************************************************)
EXTENDS Integers, FiniteSets

CONSTANTS
    Events,             \* what Stripe may report of the account
    Cancels,            \* those among them that report the end of the subscription
    Requests, Keys,
    MissionLimit        \* missions of the free plan

VARIABLES
    happened,    \* events Stripe has to report
    seen,        \* webhookIdempotency
    plan,        \* accountPlans: "none", or the plan and its status
    starter,     \* the provisioning memory is there
    key,         \* apiKeys
    usage,       \* missions the account has used
    request      \* request[r]: a handler that awaits something

vars == <<happened, seen, plan, starter, key, usage, request>>

Idle == [at |-> "idle", event |-> "none"]

TypeOK ==
    /\ happened \subseteq Events /\ seen \subseteq happened
    /\ plan \in [name : {"none", "free", "pro"}, status : {"none", "active", "canceled"}, customer : BOOLEAN]
    /\ starter \in BOOLEAN
    /\ key \in [Keys -> [state : {"new", "active", "revoked", "gone"}, provisioned : BOOLEAN]]
    /\ usage \in Nat
    /\ request \in [Requests -> [at : {"idle", "stripe", "embedding", "charging"},
                                 event : Events \cup {"none"}]]

NoPlan == [name |-> "none", status |-> "none", customer |-> FALSE]

Init ==
    /\ happened = {} /\ seen = {} /\ plan = NoPlan /\ starter = FALSE
    /\ key = [k \in Keys |-> [state |-> "new", provisioned |-> FALSE]]
    /\ usage = 0 /\ request = [r \in Requests |-> Idle]

ActiveKeys == {k \in Keys : key[k].state = "active"}

\* What Stripe reports happens there: a checkout is paid, a subscription ends.
StripeReports(e) ==
    /\ e \notin happened /\ (e \in Cancels => happened \ Cancels # {})
    /\ happened' = happened \cup {e}
    /\ UNCHANGED <<seen, plan, starter, key, usage, request>>

-----------------------------------------------------------------------------
(* provisionAccount() *)

\* The second half: a key unless there is an active one, the audit record,
\* and for a delivery the entry in the webhook log.
Provisioned(k, e) ==
    /\ key' = IF ActiveKeys = {} THEN [key EXCEPT ![k] = [state |-> "active", provisioned |-> TRUE]] ELSE key
    /\ (ActiveKeys = {} => key[k].state = "new")
    /\ seen' = IF e = "none" THEN seen ELSE seen \cup {e}

\* The first half sets the plan; without a starter memory one is stored, and its
\* embedding is awaited.
Provision(r, k, e, newPlan) ==
    /\ plan' = newPlan /\ starter' = TRUE
    /\ IF starter
       THEN Provisioned(k, e) /\ request' = [request EXCEPT ![r] = Idle]
       ELSE /\ request' = [request EXCEPT ![r] = [at |-> "embedding", event |-> e]]
            /\ UNCHANGED <<key, seen>>
    /\ UNCHANGED <<happened, usage>>

SlipDecidesEarly(r, k) ==      \* the key is decided on with the plan, before the await
    /\ request[r].at = "embedding"
    /\ key[k].state = "new"
    /\ key' = [key EXCEPT ![k] = [state |-> "active", provisioned |-> TRUE]]
    /\ seen' = IF request[r].event = "none" THEN seen ELSE seen \cup {request[r].event}
    /\ request' = [request EXCEPT ![r] = Idle]
    /\ UNCHANGED <<happened, plan, starter, usage>>

Embedded(r, k) ==
    /\ request[r].at = "embedding"
    /\ Provisioned(k, request[r].event)
    /\ request' = [request EXCEPT ![r] = Idle]
    /\ UNCHANGED <<happened, plan, starter, usage>>

\* The embedding fails: the request too, with the plan and the memory kept and an
\* event not logged, so Stripe delivers it again.
EmbeddingFails(r) ==
    /\ request[r].at = "embedding"
    /\ request' = [request EXCEPT ![r] = Idle]
    /\ UNCHANGED <<happened, seen, plan, starter, key, usage>>

\* A delivery that is not in the log is provisioned, a cancellation included: it
\* changes the status and leaves the plan it names.
DeliverWebhook(r, k, e) ==
    /\ request[r] = Idle /\ e \in happened \ seen
    /\ Provision(r, k, e, [name |-> "pro", customer |-> TRUE,
                           status |-> IF e \in Cancels THEN "canceled" ELSE "active"])

\* The log forgets an entry after its time to live, and with the sqlite store at
\* every restart.
LogForgets(e) ==
    /\ e \in seen
    /\ seen' = seen \ {e}
    /\ UNCHANGED <<happened, plan, starter, key, usage, request>>

\* selfServeProvisionBody() on the free path: a paid plan stays, its Stripe ids go.
ProvisionFree(r, k) ==
    /\ request[r] = Idle
    /\ Provision(r, k, "none", [name |-> IF plan.name = "pro" THEN "pro" ELSE "free",
                                status |-> "active", customer |-> FALSE])

\* On the paid path Stripe is asked whether the checkout session is paid.
AskStripe(r) ==
    /\ request[r] = Idle
    /\ request' = [request EXCEPT ![r] = [at |-> "stripe", event |-> "none"]]
    /\ UNCHANGED <<happened, seen, plan, starter, key, usage>>

CheckoutPaid == happened \ Cancels # {}

SlipTrustsBody(r, k) ==      \* the plan asked for is granted unseen
    /\ request[r].at = "stripe"
    /\ Provision(r, k, "none", [name |-> "pro", status |-> "active", customer |-> TRUE])

StripeAnswers(r, k) ==
    /\ request[r].at = "stripe"
    /\ IF CheckoutPaid
       THEN Provision(r, k, "none", [name |-> "pro", status |-> "active", customer |-> TRUE])
       ELSE /\ request' = [request EXCEPT ![r] = Idle]
            /\ UNCHANGED <<happened, seen, plan, starter, key, usage>>

-----------------------------------------------------------------------------
(* Keys, and the account's deletion *)

CreateApiKey(k) ==
    /\ key[k].state = "new"
    /\ key' = [key EXCEPT ![k] = [state |-> "active", provisioned |-> FALSE]]
    /\ UNCHANGED <<happened, seen, plan, starter, usage, request>>

RevokeApiKey(k) ==
    /\ key[k].state = "active"
    /\ key' = [key EXCEPT ![k].state = "revoked"]
    /\ UNCHANGED <<happened, seen, plan, starter, usage, request>>

\* Keys, memories and the plan go; the usage stays.
DeleteAccount ==
    /\ plan # NoPlan
    /\ plan' = NoPlan /\ starter' = FALSE
    /\ key' = [k \in Keys |-> IF key[k].state \in {"active", "revoked"}
                              THEN [state |-> "gone", provisioned |-> FALSE] ELSE key[k]]
    /\ UNCHANGED <<happened, seen, usage, request>>

-----------------------------------------------------------------------------
(* Metering *)

PlanAllows == plan.name = "pro" \/ usage < MissionLimit

\* A paid plan's limit is out of the bounds: its missions are not counted.
\* A brain write or query is checked and counted in one step.
Mission ==
    /\ PlanAllows /\ plan.name # "pro"
    /\ usage' = usage + 1
    /\ UNCHANGED <<happened, seen, plan, starter, key, request>>

\* POST /api/charge is checked first and counted when the engine has answered.
StartCharge(r) ==
    /\ request[r] = Idle /\ PlanAllows /\ plan.name # "pro"
    /\ request' = [request EXCEPT ![r] = [at |-> "charging", event |-> "none"]]
    /\ UNCHANGED <<happened, seen, plan, starter, key, usage>>

ChargeEnds(r, ok) ==
    /\ request[r].at = "charging"
    /\ usage' = IF ok THEN usage + 1 ELSE usage
    /\ request' = [request EXCEPT ![r] = Idle]
    /\ UNCHANGED <<happened, seen, plan, starter, key>>

-----------------------------------------------------------------------------

Next ==
    \/ \E e \in Events : StripeReports(e) \/ LogForgets(e)
    \/ \E r \in Requests, k \in Keys, e \in Events : DeliverWebhook(r, k, e)
    \/ \E r \in Requests, k \in Keys : Embedded(r, k) \/ ProvisionFree(r, k) \/ StripeAnswers(r, k)
    \/ \E r \in Requests : EmbeddingFails(r) \/ AskStripe(r) \/ StartCharge(r)
    \/ \E k \in Keys : CreateApiKey(k) \/ RevokeApiKey(k)
    \/ \E r \in Requests, ok \in BOOLEAN : ChargeEnds(r, ok)
    \/ DeleteAccount \/ Mission

Spec == Init /\ [][Next]_vars

-----------------------------------------------------------------------------
(* Properties *)

\* However deliveries, redeliveries and the account's own requests overlap, at most
\* one active key is one that provisioning made.
ProvisionsOneKey == Cardinality({k \in ActiveKeys : key[k].provisioned}) <= 1

\* An account is on a paid plan only when Stripe has reported a paid checkout.
PaidPlansArePaid == plan.name = "pro" => CheckoutPaid
=============================================================================
