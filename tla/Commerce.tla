------------------------------ MODULE Commerce ------------------------------
(***************************************************************************)
(* The commerce engine (commerce.ts), the approval queue it waits on       *)
(* (storage/approval-queue.ts) and the MCP handlers and timer that serve   *)
(* the queue (mcp/server.ts).  Every await is a cut: the approver, the     *)
(* payment engine, the provider and the memory answer in steps of their    *)
(* own.  The payment engine appears by its outcome on one transaction per  *)
(* order, `escrow`; AgentPayments models it in detail.  Orders and the     *)
(* mandate live in memory, the queue in memory and in SQLite.              *)
(***************************************************************************)
EXTENDS Integers, FiniteSetsExt

CONSTANTS
    Orders,       \* purchases that may be made
    Price,        \* Price[o]: what order o costs
    Requests,     \* charge requests that may be queued
    Mandates,     \* mandates: [budget, threshold, allows]
    NoMandate,
    MaxSets,      \* bound on mandates set by one process
    MaxRestarts   \* bound on restarts

\* Prices and budgets are amounts of cents.
ASSUME CommerceAssumption ==
    /\ Price \in [Orders -> Nat]
    /\ Mandates \subseteq [budget : Nat, threshold : Int, allows : SUBSET Orders]
    /\ NoMandate \notin Mandates
    /\ MaxSets \in Nat /\ MaxRestarts \in Nat

VARIABLES
    mandate, totalSpent,  \* the engine's mandate and what it counts against it
    order,        \* order[o]: its status, transaction outcome and calls in progress
    shopMem, shopRows, chargeMem, chargeRows,   \* the queue and its mirror in SQLite
    old,          \* queue entries older than ten minutes
    charge,       \* charge[r]: charge_approve waits for the engine; charges made
    coming,       \* orders and requests their callers have yet to make
    tidy, placed, sets, restarts   \* history and bounds

engine  == <<mandate, totalSpent, placed, sets>>
queue   == <<shopMem, shopRows, chargeMem, chargeRows, old, charge>>
bounds  == <<coming, restarts>>
vars    == <<engine, order, queue, tidy, bounds>>

OrderState == [
    status   : {"pending_approval", "escrowed", "purchased", "shipped", "delivered",
                "cancelled", "failed"},
    pc       : {"idle", "asking", "charging", "executing", "remembering", "refunding"},
    lock     : {"free", "settling", "reinforcing", "cancelling"},
    escrow   : {"none", "held", "settled", "refunded"},
    listed   : BOOLEAN,      \* in the orders map
    external : BOOLEAN,      \* in externalOrderMap
    stuck    : BOOLEAN,      \* marked ESCROW STUCK
    asked    : BOOLEAN, answered : BOOLEAN ]    \* history: approval asked and given

NewOrder == [status |-> "pending_approval", pc |-> "idle", lock |-> "free", escrow |-> "none",
             listed |-> FALSE, external |-> FALSE, stuck |-> FALSE,
             asked |-> FALSE, answered |-> FALSE]

Needs(o)  == Price[o] >= mandate.threshold
Remaining == IF mandate = NoMandate THEN 0 ELSE Max({0, mandate.budget - totalSpent})
Returnable(o) == order[o].escrow \in {"held", "settled"}

\* What the orders of the current mandate hold or paid.
Committed == SumFunctionOnSet(Price, {o \in placed : Returnable(o)})

\* Some call on an order is in progress.
Busy == \E o \in Orders : order[o].pc # "idle" \/ order[o].lock # "free"

TypeOK ==
    /\ mandate \in Mandates \cup {NoMandate} /\ totalSpent \in Nat
    /\ order \in [Orders -> OrderState] /\ placed \subseteq Orders
    /\ shopMem \subseteq Orders /\ shopRows \subseteq Orders
    /\ chargeMem \subseteq Requests /\ chargeRows \subseteq Requests
    /\ old \subseteq Orders \cup Requests /\ coming \subseteq Orders \cup Requests
    /\ charge \in [Requests -> [waits : BOOLEAN, made : Nat]]
    /\ tidy \in BOOLEAN /\ sets \in 0..MaxSets /\ restarts \in 0..MaxRestarts

\* A process that has just started, with these calls to come.
InitWith(calls) ==
    /\ coming = calls
    /\ mandate = NoMandate /\ totalSpent = 0 /\ placed = {}
    /\ order = [o \in Orders |-> NewOrder]
    /\ shopMem = {} /\ shopRows = {} /\ chargeMem = {} /\ chargeRows = {} /\ old = {}
    /\ charge = [r \in Requests |-> [waits |-> FALSE, made |-> 0]]
    /\ tidy = TRUE /\ sets = 0 /\ restarts = 0

Init == InitWith(Orders \cup Requests)

-----------------------------------------------------------------------------
(* The mandate *)

SetMandate(m) ==
    /\ sets < MaxSets
    /\ sets' = sets + 1
    /\ mandate' = m /\ totalSpent' = 0 /\ placed' = {}
    /\ tidy' = (tidy /\ ~Busy)
    /\ UNCHANGED <<order, queue, bounds>>

\* search() and purchase() drop a mandate they find expired, and throw.
MandateExpires ==
    /\ mandate # NoMandate
    /\ mandate' = NoMandate
    /\ UNCHANGED <<totalSpent, placed, sets, order, queue, tidy, bounds>>

-----------------------------------------------------------------------------
(* purchase() *)

\* The per-item limit, categories and merchants of the mandate admit o's product.
Allowed(o) == o \in mandate.allows

Admitted(o) ==
    /\ o \in coming
    /\ mandate # NoMandate
    /\ Allowed(o)
    /\ Price[o] <= Remaining

Begin(o) ==
    /\ coming' = coming \ {o} /\ placed' = placed \cup {o}
    /\ tidy' = (tidy /\ ~Busy)
    /\ UNCHANGED <<mandate, totalSpent, sets, chargeMem, chargeRows, old, charge, restarts>>

Purchase(o) ==
    /\ Admitted(o) /\ ~Needs(o)
    /\ order' = [order EXCEPT ![o].pc = "charging"]
    /\ Begin(o)
    /\ UNCHANGED <<shopMem, shopRows>>

\* The approval callback queues the order; when the row cannot be written the
\* promise rejects and purchase() with it, but the entry stays in memory.
PurchaseAsks(o) ==
    /\ Admitted(o) /\ Needs(o)
    /\ shopMem' = shopMem \cup {o}
    /\ \E written \in BOOLEAN :
         /\ order' = [order EXCEPT ![o].pc = IF written THEN "asking" ELSE "idle",
                                   ![o].asked = TRUE]
         /\ shopRows' = IF written THEN shopRows \cup {o} ELSE shopRows
    /\ Begin(o)

\* order[o] after resolve(yes): unchanged when the promise is settled already
\* or died with its process.
Resolved(o, yes) ==
    IF order[o].pc # "asking" THEN order[o]
    ELSE IF yes THEN [order[o] EXCEPT !.pc = "charging"]
    ELSE [order[o] EXCEPT !.pc = "idle", !.status = "cancelled", !.listed = TRUE]

ChargeHolds(o) ==
    /\ order[o].pc = "charging"
    /\ order' = [order EXCEPT ![o].pc = "executing", ![o].escrow = "held",
                              ![o].status = "escrowed", ![o].listed = TRUE]
    /\ UNCHANGED <<engine, queue, tidy, bounds>>

ChargeThrows(o) ==
    /\ order[o].pc = "charging"
    /\ order' = [order EXCEPT ![o].pc = "idle"]
    /\ UNCHANGED <<engine, queue, tidy, bounds>>

ProviderBuys(o) ==
    /\ order[o].pc = "executing"
    /\ order' = [order EXCEPT ![o].pc = "remembering", ![o].status = "purchased",
                              ![o].external = TRUE]
    /\ UNCHANGED <<engine, queue, tidy, bounds>>

Remembered(o) ==
    /\ order[o].pc = "remembering"
    /\ order' = [order EXCEPT ![o].pc = "idle"]
    /\ totalSpent' = totalSpent + Price[o]
    /\ UNCHANGED <<mandate, placed, sets, queue, tidy, bounds>>

\* Slip: the catch block forgets the refund.
SlipNoRefund(o) ==
    /\ order[o].pc \in {"executing", "remembering"}
    /\ order' = [order EXCEPT ![o].pc = "idle", ![o].status = "failed"]
    /\ UNCHANGED <<engine, queue, tidy, bounds>>

\* The provider or the memory throws: the catch block marks the order and
\* awaits a refund.
PurchaseFails(o) ==
    /\ order[o].pc \in {"executing", "remembering"}
    /\ order' = [order EXCEPT ![o].pc = "refunding", ![o].status = "failed"]
    /\ UNCHANGED <<engine, queue, tidy, bounds>>

RefundReturns(o) ==
    /\ order[o].pc = "refunding" /\ Returnable(o)
    /\ order' = [order EXCEPT ![o].pc = "idle", ![o].escrow = "refunded"]
    /\ UNCHANGED <<engine, queue, tidy, bounds>>

RefundThrows(o) ==
    /\ order[o].pc = "refunding"
    /\ order' = [order EXCEPT ![o].pc = "idle", ![o].stuck = TRUE]
    /\ tidy' = FALSE
    /\ UNCHANGED <<engine, queue, bounds>>

-----------------------------------------------------------------------------
(* confirmDelivery(), cancelOrder(), checkDeliveryStatus() *)

ConfirmDelivery(o) ==
    /\ order[o].listed /\ order[o].lock = "free"
    /\ order[o].status \notin {"delivered", "cancelled", "failed"}
    /\ order' = [order EXCEPT ![o].lock = "settling"]
    /\ tidy' = (tidy /\ ~Busy)
    /\ UNCHANGED <<engine, queue, bounds>>

ConfirmSettles(o) ==
    /\ order[o].lock = "settling" /\ order[o].escrow = "held"
    /\ order' = [order EXCEPT ![o].lock = "reinforcing", ![o].escrow = "settled",
                              ![o].status = "delivered"]
    /\ UNCHANGED <<engine, queue, tidy, bounds>>

CancelOrder(o) ==
    /\ order[o].listed /\ order[o].lock = "free"
    /\ order[o].status \notin {"delivered", "cancelled"}
    /\ order' = [order EXCEPT ![o].lock = "cancelling"]
    /\ tidy' = (tidy /\ ~Busy /\ o \in placed)
    /\ UNCHANGED <<engine, queue, bounds>>

Cancelled(o) ==
    /\ order[o].lock = "cancelling" /\ Returnable(o)
    /\ order' = [order EXCEPT ![o].lock = "free", ![o].escrow = "refunded",
                              ![o].status = "cancelled"]
    /\ UNCHANGED <<mandate, placed, sets, queue, tidy, bounds>>

\* Slip: the price is not given back.
SlipBudgetKept(o) == Cancelled(o) /\ UNCHANGED totalSpent

\* Slip: the subtraction has no floor.
SlipNoFloor(o) == Cancelled(o) /\ totalSpent' = totalSpent - Price[o]

\* A cancelled order gives its price back to the budget.
CancelReturns(o) == Cancelled(o) /\ totalSpent' = Max({0, totalSpent - Price[o]})

\* finally: the lock is released when settle, refund or remember throws, and
\* when the memory of a confirmed delivery is stored.
Release(o) ==
    /\ order[o].lock # "free"
    /\ order' = [order EXCEPT ![o].lock = "free"]
    /\ UNCHANGED <<engine, queue, tidy, bounds>>

\* The provider's answer s is applied to whatever the order has become.
CheckDeliveryStatus(o, s) ==
    /\ order[o].external
    /\ \/ s = "delivered" /\ order[o].status # "delivered"
       \/ s = "shipped" /\ order[o].status = "purchased"
    /\ order' = [order EXCEPT ![o].status = "shipped"]
    /\ UNCHANGED <<engine, queue, tidy, bounds>>

-----------------------------------------------------------------------------
(* The handlers of the queue; written is FALSE when SQLite throws *)

\* The rows that remain when row x is to be deleted.
Without(rows, x, written) == IF written THEN rows \ {x} ELSE rows

\* shop_approve and shop_reject: answer first, then remove.
ShopAnswer(o, yes, written) ==
    /\ o \in shopMem
    /\ order' = [order EXCEPT ![o] = [Resolved(o, yes) EXCEPT !.answered = @ \/ yes]]
    /\ shopMem' = shopMem \ {o} /\ shopRows' = Without(shopRows, o, written)
    /\ UNCHANGED <<engine, chargeMem, chargeRows, old, charge, tidy, bounds>>

ChargeRequest(r, written) ==
    /\ r \in coming
    /\ coming' = coming \ {r}
    /\ chargeMem' = chargeMem \cup {r}
    /\ chargeRows' = IF written THEN chargeRows \cup {r} ELSE chargeRows
    /\ UNCHANGED <<engine, order, shopMem, shopRows, old, charge, tidy, restarts>>

\* Slip: an approved request stays in memory.
SlipKeepsRequest(r, written) ==
    /\ r \in chargeMem
    /\ chargeRows' = Without(chargeRows, r, written)
    /\ charge' = [charge EXCEPT ![r].waits = @ \/ written]
    /\ UNCHANGED <<engine, order, chargeMem, shopMem, shopRows, old, tidy, bounds>>

\* The request leaves the queue before the charge is awaited; a failing delete
\* throws before it.
ChargeApprove(r, written) ==
    /\ r \in chargeMem
    /\ chargeMem' = chargeMem \ {r} /\ chargeRows' = Without(chargeRows, r, written)
    /\ charge' = [charge EXCEPT ![r].waits = @ \/ written]
    /\ UNCHANGED <<engine, order, shopMem, shopRows, old, tidy, bounds>>

ChargeReject(r, written) ==
    /\ r \in chargeMem
    /\ chargeMem' = chargeMem \ {r} /\ chargeRows' = Without(chargeRows, r, written)
    /\ UNCHANGED <<engine, order, shopMem, shopRows, old, charge, tidy, bounds>>

ChargeAnswers(r, held) ==
    /\ charge[r].waits
    /\ charge' = [charge EXCEPT ![r].waits = FALSE, ![r].made = @ + (IF held THEN 1 ELSE 0)]
    /\ UNCHANGED <<engine, order, shopMem, shopRows, chargeMem, chargeRows, old, tidy, bounds>>

Queued == shopMem \cup shopRows \cup chargeMem \cup chargeRows

Age(x) ==
    /\ x \in Queued \ old
    /\ old' = old \cup {x}
    /\ UNCHANGED <<engine, order, shopMem, shopRows, chargeMem, chargeRows, charge, tidy, bounds>>

DropOld ==
    /\ Queued \cap old # {}
    /\ shopMem' = shopMem \ old /\ shopRows' = shopRows \ old
    /\ chargeMem' = chargeMem \ old /\ chargeRows' = chargeRows \ old
    /\ UNCHANGED <<engine, old, charge, tidy, bounds>>

AnswerOld(yes) ==
    order' = [o \in Orders |-> IF o \in shopMem \cap old THEN Resolved(o, yes) ELSE order[o]]

\* Slip: expired purchases are let through.
SlipExpiryApproves == DropOld /\ AnswerOld(TRUE)

\* Slip: expired purchases are dropped without an answer.
SlipExpirySilent == DropOld /\ UNCHANGED order

\* expireOlderThan(), every minute.  A delete that throws here is an uncaught
\* exception of the timer, which ends the process: Restart.
Sweep == DropOld /\ AnswerOld(FALSE)

\* The process dies and starts again: orders and mandate are gone, the queue is
\* read from SQLite with resolvers that do nothing.
Restart ==
    /\ restarts < MaxRestarts
    /\ restarts' = restarts + 1
    /\ mandate' = NoMandate /\ totalSpent' = 0 /\ placed' = {} /\ sets' = 0
    /\ order' = [o \in Orders |-> [NewOrder EXCEPT !.escrow = order[o].escrow,
                     !.asked = order[o].asked, !.answered = order[o].answered]]
    /\ shopMem' = shopRows /\ chargeMem' = chargeRows
    /\ charge' = [r \in Requests |-> [charge[r] EXCEPT !.waits = FALSE]]
    /\ UNCHANGED <<shopRows, chargeRows, old, tidy, coming>>

-----------------------------------------------------------------------------

PurchaseStep(o) ==
    \/ Purchase(o) \/ PurchaseAsks(o)
    \/ ChargeHolds(o) \/ ChargeThrows(o)
    \/ ProviderBuys(o) \/ Remembered(o) \/ PurchaseFails(o)
    \/ RefundReturns(o) \/ RefundThrows(o)

OrderStep(o) ==
    \/ ConfirmDelivery(o) \/ ConfirmSettles(o)
    \/ CancelOrder(o) \/ CancelReturns(o) \/ Release(o)
    \/ \E s \in {"delivered", "shipped"} : CheckDeliveryStatus(o, s)
    \/ \E yes, written \in BOOLEAN : ShopAnswer(o, yes, written)

RequestStep(r) ==
    \/ \E written \in BOOLEAN :
         ChargeRequest(r, written) \/ ChargeApprove(r, written) \/ ChargeReject(r, written)
    \/ \E held \in BOOLEAN : ChargeAnswers(r, held)

Next ==
    \/ \E m \in Mandates : SetMandate(m)
    \/ MandateExpires
    \/ \E o \in Orders : PurchaseStep(o) \/ OrderStep(o)
    \/ \E r \in Requests : RequestStep(r)
    \/ \E x \in Orders \cup Requests : Age(x)
    \/ Sweep
    \/ Restart

\* Time passes and the timer fires.
Fairness ==
    /\ \A x \in Orders \cup Requests : WF_vars(Age(x))
    /\ WF_vars(Sweep)

Spec     == Init /\ [][Next]_vars
FairSpec == Spec /\ Fairness

-----------------------------------------------------------------------------
(* Properties *)

\* A queued charge request is charged at most once, whatever the order of
\* approvals, failing deletes, expiry and restarts that re-read the queue.
RequestChargedOnce == \A r \in Requests : charge[r].made <= 1

\* No money is held for a purchase that asked for approval unless a human said
\* yes: not by expiry, by a lost row or by an answer to an entry read back after
\* a restart.
ApprovedBeforeHeld ==
    \A o \in Orders : order[o].asked /\ order[o].escrow # "none" => order[o].answered

\* A cancelled or failed order whose calls have ended has its money back,
\* unless the refund itself failed and the order says so.
ClosedMeansReturned ==
    \A o \in Orders :
        /\ order[o].status \in {"cancelled", "failed"}
        /\ order[o].pc = "idle" /\ order[o].lock = "free"
        => ~Returnable(o) \/ order[o].stuck

\* While calls take turns, no refund has failed and only orders of the current
\* mandate are cancelled, totalSpent is what the mandate's orders hold or paid,
\* and stays within the budget.
SpendTracked ==
    tidy /\ ~Busy /\ mandate # NoMandate =>
        totalSpent = Committed /\ totalSpent <= mandate.budget

\* A purchase that waits for an approver is answered in the end: by a human,
\* by the expiry sweep, or by the end of its process.
WaitersAnswered == \A o \in Orders : order[o].pc = "asking" ~> order[o].pc # "asking"

\* totalSpent follows the orders of the mandate, an order that is closed without
\* delivery has had its hold returned, and what needed approval was approved.
MoneyAccounted == SpendTracked /\ ClosedMeansReturned /\ ApprovedBeforeHeld

\* What commerce.ts says of a mandate, "Maximum total budget": the money its
\* orders hold or paid stays within it, overlapping purchases included.
BudgetKept == mandate # NoMandate => Committed <= mandate.budget

=============================================================================
