--------------------------- MODULE OversightProofs ---------------------------
(***************************************************************************)
(* What the parts that bound what agents may do keep, for every value of   *)
(* their constants: the commerce engine with its approval queue, a swarm   *)
(* run, a mission, the policy gate and the action log.  Each section takes *)
(* one of them; the last says of the parts together what the run of        *)
(* MCOversight checks.                                                     *)
(*                                                                         *)
(* A charge request is charged once because it is charged only after it    *)
(* left the queue and its row (RequestInv).  What an order holds is a      *)
(* matter of where its calls stand (OrderInv).  The accounts of a mandate  *)
(* balance while calls take turns: what the orders hold or paid is         *)
(* totalSpent and the price of the one purchase that is charged and not    *)
(* yet counted (SpendInv).  A swarm's session is with the task that opened *)
(* it (SwarmInv), and its count is the sum of what its tasks spent         *)
(* (CountedInv).  A mission's hold, its status and its events tell one     *)
(* story (MissionInv).  The gate's counters never lag behind what the gate *)
(* let pass in the windows that still matter (GateInv).  The action log's  *)
(* view follows its events one by one (LogInv).                            *)
(***************************************************************************)
EXTENDS Oversight, Sums

-----------------------------------------------------------------------------
(* Types *)

\* The updates of an order that the steps make are orders.
LEMMA OrderForms ==
  ASSUME NEW s \in OrderState
  PROVE  /\ \A p \in {"idle", "asking", "charging"} :
              [s EXCEPT !.pc = p] \in OrderState
         /\ \A p \in {"idle", "asking"} :
              [s EXCEPT !.pc = p, !.asked = TRUE] \in OrderState
         /\ [s EXCEPT !.pc = "idle", !.status = "cancelled", !.listed = TRUE]
              \in OrderState
         /\ [s EXCEPT !.pc = "executing", !.escrow = "held",
                      !.status = "escrowed", !.listed = TRUE] \in OrderState
         /\ [s EXCEPT !.pc = "remembering", !.status = "purchased",
                      !.external = TRUE] \in OrderState
         /\ [s EXCEPT !.pc = "refunding", !.status = "failed"] \in OrderState
         /\ [s EXCEPT !.pc = "idle", !.escrow = "refunded"] \in OrderState
         /\ [s EXCEPT !.pc = "idle", !.stuck = TRUE] \in OrderState
         /\ \A l \in {"free", "settling", "cancelling"} :
              [s EXCEPT !.lock = l] \in OrderState
         /\ [s EXCEPT !.lock = "reinforcing", !.escrow = "settled",
                      !.status = "delivered"] \in OrderState
         /\ [s EXCEPT !.lock = "free", !.escrow = "refunded",
                      !.status = "cancelled"] \in OrderState
         /\ [s EXCEPT !.status = "shipped"] \in OrderState
         /\ \A b \in BOOLEAN : [s EXCEPT !.answered = b] \in OrderState
<1>1. \A p \in {"idle", "asking", "charging"} : [s EXCEPT !.pc = p] \in
     OrderState
  BY DEF OrderState
<1>2. \A p \in {"idle", "asking"} : [s EXCEPT !.pc = p, !.asked = TRUE] \in
     OrderState
  BY DEF OrderState
<1>3. [s EXCEPT !.pc = "idle", !.status = "cancelled", !.listed = TRUE] \in
     OrderState
  BY DEF OrderState
<1>4. [s EXCEPT !.pc = "executing", !.escrow = "held", !.status =
     "escrowed", !.listed = TRUE] \in OrderState
  BY DEF OrderState
<1>5. [s EXCEPT !.pc = "remembering", !.status = "purchased", !.external =
     TRUE] \in OrderState
  BY DEF OrderState
<1>6. [s EXCEPT !.pc = "refunding", !.status = "failed"] \in OrderState
  BY DEF OrderState
<1>7. [s EXCEPT !.pc = "idle", !.escrow = "refunded"] \in OrderState
  BY DEF OrderState
<1>8. [s EXCEPT !.pc = "idle", !.stuck = TRUE] \in OrderState
  BY DEF OrderState
<1>9. \A l \in {"free", "settling", "cancelling"} : [s EXCEPT !.lock = l]
     \in OrderState
  BY DEF OrderState
<1>10. [s EXCEPT !.lock = "reinforcing", !.escrow = "settled", !.status =
     "delivered"] \in OrderState
  BY DEF OrderState
<1>11. [s EXCEPT !.lock = "free", !.escrow = "refunded", !.status =
     "cancelled"] \in OrderState
  BY DEF OrderState
<1>12. [s EXCEPT !.status = "shipped"] \in OrderState
  BY DEF OrderState
<1>13. \A b \in BOOLEAN : [s EXCEPT !.answered = b] \in OrderState
  BY DEF OrderState
<1>14. QED
  BY <1>1, <1>2, <1>3, <1>4, <1>5, <1>6, <1>7, <1>8, <1>9, <1>10, <1>11, <1>12, <1>13

\* What an answer makes of an order is an order.
LEMMA ResolvedForms ==
  ASSUME TypeOK, NEW o \in Orders, NEW yes \in BOOLEAN
  PROVE  /\ Resolved(o, yes) \in OrderState
         /\ [Resolved(o, yes) EXCEPT !.answered = @ \/ yes] \in OrderState
<1>1. order[o] \in OrderState
  BY DEF TypeOK
<1>2. Resolved(o, yes) \in OrderState
  BY <1>1, OrderForms DEF Resolved
<1> DEFINE answered == Resolved(o, yes).answered \/ yes
<1>3. answered \in BOOLEAN
  BY <1>2 DEF OrderState
<1> HIDE DEF answered
<1>4. [Resolved(o, yes) EXCEPT !.answered = answered] \in OrderState
  BY <1>2, <1>3, OrderForms
<1>5. QED
  BY <1>2, <1>4 DEF answered

\* A step of an order changes that order only, and leaves it an order.
LEMMA OneOrder ==
  ASSUME TypeOK, NEW o \in Orders, PurchaseStep(o) \/ OrderStep(o)
  PROVE  /\ order' \in [Orders -> OrderState]
         /\ \A q \in Orders \ {o} : order'[q] = order[q]
<1>1. order[o] \in OrderState /\ order \in [Orders -> OrderState]
  BY DEF TypeOK
<1>2. CASE Purchase(o)
  BY <1>1, <1>2, OrderForms DEF Purchase
<1>3. CASE PurchaseAsks(o)
  BY <1>1, <1>3, OrderForms DEF PurchaseAsks
<1>4. CASE ChargeHolds(o) \/ ChargeThrows(o)
  BY <1>1, <1>4, OrderForms DEF ChargeHolds, ChargeThrows
<1>5. CASE ProviderBuys(o) \/ Remembered(o) \/ PurchaseFails(o)
  BY <1>1, <1>5, OrderForms DEF ProviderBuys, Remembered, PurchaseFails
<1>6. CASE RefundReturns(o) \/ RefundThrows(o)
  BY <1>1, <1>6, OrderForms DEF RefundReturns, RefundThrows
<1>7. CASE ConfirmDelivery(o) \/ CancelOrder(o) \/ Release(o)
  BY <1>1, <1>7, OrderForms DEF ConfirmDelivery, CancelOrder, Release
<1>8. CASE ConfirmSettles(o) \/ CancelReturns(o)
  BY <1>1, <1>8, OrderForms DEF ConfirmSettles, CancelReturns, Cancelled
<1>9. CASE \E s \in {"delivered", "shipped"} : CheckDeliveryStatus(o, s)
  BY <1>1, <1>9, OrderForms DEF CheckDeliveryStatus
<1>10. CASE \E yes, written \in BOOLEAN : ShopAnswer(o, yes, written)
  <2>1. PICK yes \in BOOLEAN, written \in BOOLEAN : ShopAnswer(o, yes, written)
    BY <1>10
  <2>2. [Resolved(o, yes) EXCEPT !.answered = @ \/ yes] \in OrderState
    BY ResolvedForms
  <2>3. QED
    BY <1>1, <2>1, <2>2 DEF ShopAnswer
<1>11. QED
  BY <1>2, <1>3, <1>4, <1>5, <1>6, <1>7, <1>8, <1>9, <1>10
     DEF PurchaseStep, OrderStep

\* Every step of an order keeps the types.
LEMMA OrderTypes ==
  ASSUME TypeOK, NEW o \in Orders, PurchaseStep(o) \/ OrderStep(o)
  PROVE  TypeOK'
<1>1. order[o] \in OrderState /\ Price[o] \in Nat /\ totalSpent \in Nat
  BY CommerceAssumption DEF TypeOK
<1>2. totalSpent' \in Nat
  <2>1. Max({0, totalSpent - Price[o]}) \in Nat
    <3> DEFINE S == {0, totalSpent - Price[o]}
    <3>1. \E x \in S : \A y \in S : x >= y
      BY <1>1
    <3>2. Max(S) \in S /\ Max(S) >= 0
      BY <1>1, <3>1 DEF Max
    <3>3. QED
      BY <1>1, <3>2
  <2>2. totalSpent' \in {totalSpent, totalSpent + Price[o],
                         Max({0, totalSpent - Price[o]})}
    BY DEF PurchaseStep, OrderStep, Purchase, PurchaseAsks, ChargeHolds,
           ChargeThrows, ProviderBuys, Remembered, PurchaseFails,
           RefundReturns, RefundThrows, ConfirmDelivery, ConfirmSettles,
           CancelOrder, CancelReturns, Cancelled, Release,
           CheckDeliveryStatus, ShopAnswer, Begin, engine, queue, bounds
  <2>3. QED
    BY <1>1, <2>1, <2>2
<1>3. order' \in [Orders -> OrderState]
  BY OneOrder
<1>4. QED
  BY <1>2, <1>3
     DEF PurchaseStep, OrderStep, Purchase, PurchaseAsks, ChargeHolds,
         ChargeThrows, ProviderBuys, Remembered, PurchaseFails,
         RefundReturns, RefundThrows, ConfirmDelivery, ConfirmSettles,
         CancelOrder, CancelReturns, Cancelled, Release,
         CheckDeliveryStatus, ShopAnswer, Begin, Without, engine, queue,
         bounds, TypeOK

\* Whatever calls are coming, the shop starts well typed,
LEMMA TypeInit ==
  ASSUME NEW asked \in SUBSET (Orders \cup Requests), InitWith(asked) PROVE TypeOK
BY CommerceAssumption DEF InitWith, TypeOK, OrderState, NewOrder

\* and every step keeps it so.
LEMMA TypeStep == TypeOK /\ [Next]_vars => TypeOK'
<1> SUFFICES ASSUME TypeOK, [Next]_vars PROVE TypeOK'
  OBVIOUS
<1>1. CASE \E o \in Orders : PurchaseStep(o) \/ OrderStep(o)
  BY <1>1, OrderTypes
<1>2. CASE (\E m \in Mandates : SetMandate(m)) \/ MandateExpires
  <2>1. sets' \in 0..MaxSets
    BY <1>2, CommerceAssumption DEF SetMandate, MandateExpires, TypeOK
  <2>2. mandate' \in Mandates \cup {NoMandate} /\ totalSpent' \in Nat
    BY <1>2 DEF SetMandate, MandateExpires, TypeOK
  <2>3. tidy' \in BOOLEAN /\ placed' \subseteq Orders
    BY <1>2 DEF SetMandate, MandateExpires, TypeOK
  <2>4. QED
    BY <1>2, <2>1, <2>2, <2>3
       DEF SetMandate, MandateExpires, TypeOK, queue, bounds
<1>3. CASE \E r \in Requests : RequestStep(r)
  <2>1. PICK r \in Requests : RequestStep(r)
    BY <1>3
  <2>2. charge' \in [Requests -> [waits : BOOLEAN, made : Nat]]
    <3>1. charge[r] \in [waits : BOOLEAN, made : Nat]
      BY DEF TypeOK
    <3>2. CASE \E written \in BOOLEAN : ChargeApprove(r, written)
      <4>1. PICK b \in BOOLEAN : charge' = [charge EXCEPT ![r].waits = b]
        BY <3>1, <3>2 DEF ChargeApprove
      <4>2. QED
        BY <4>1 DEF TypeOK
    <3>3. CASE \E held \in BOOLEAN : ChargeAnswers(r, held)
      <4>1. PICK held \in BOOLEAN : ChargeAnswers(r, held)
        BY <3>3
      <4>2. PICK k \in Nat : k = charge[r].made + (IF held THEN 1 ELSE 0)
        BY <3>1
      <4>3. charge' = [charge EXCEPT ![r].waits = FALSE, ![r].made = k]
        BY <4>1, <4>2 DEF ChargeAnswers
      <4>4. [charge[r] EXCEPT !.waits = FALSE, !.made = k]
              \in [waits : BOOLEAN, made : Nat]
        BY <3>1
      <4>5. QED
        BY <4>3, <4>4 DEF TypeOK
    <3>4. CASE UNCHANGED charge
      BY <3>4 DEF TypeOK
    <3>5. QED
      BY <2>1, <3>2, <3>3, <3>4
         DEF RequestStep, ChargeRequest, ChargeReject
  <2>3. QED
    BY <2>1, <2>2
       DEF RequestStep, ChargeRequest, ChargeApprove, ChargeReject,
           ChargeAnswers, Without, engine, bounds, TypeOK
<1>4. CASE \E x \in Orders \cup Requests : Age(x)
  BY <1>4 DEF Age, engine, bounds, TypeOK
<1>5. CASE Sweep
  <2>1. \A o \in Orders : Resolved(o, FALSE) \in OrderState
    BY ResolvedForms
  <2>2. order' \in [Orders -> OrderState]
    BY <1>5, <2>1 DEF Sweep, AnswerOld, TypeOK
  <2>3. QED
    BY <1>5, <2>2 DEF Sweep, DropOld, engine, bounds, TypeOK
<1>6. CASE Restart
  <2> DEFINE Back(o) == [NewOrder EXCEPT !.escrow = order[o].escrow,
             !.asked = order[o].asked, !.answered = order[o].answered]
  <2>1. ASSUME NEW o \in Orders
        PROVE  Back(o) \in OrderState
    BY DEF TypeOK, NewOrder, OrderState
  <2>2. order' \in [Orders -> OrderState]
    BY <1>6, <2>1 DEF Restart
  <2>3. charge' \in [Requests -> [waits : BOOLEAN, made : Nat]]
    BY <1>6 DEF Restart, TypeOK
  <2>4. restarts' \in 0..MaxRestarts /\ sets' \in 0..MaxSets
    <3>1. /\ restarts < MaxRestarts /\ restarts' = restarts + 1
          /\ sets' = 0
      BY <1>6 DEF Restart
    <3>2. restarts \in 0..MaxRestarts
      BY DEF TypeOK
    <3>3. QED
      BY <3>1, <3>2, CommerceAssumption
  <2>5. QED
    BY <1>6, <2>2, <2>3, <2>4 DEF Restart, TypeOK
<1>7. CASE UNCHANGED vars
  BY <1>7 DEF vars, engine, queue, bounds, TypeOK
<1>8. QED
  BY <1>1, <1>2, <1>3, <1>4, <1>5, <1>6, <1>7 DEF Next
\* Every variable keeps its type, in every behaviour.
THEOREM TypeCorrect == Spec => []TypeOK
<1>1. Init => TypeOK
  BY TypeInit DEF Init
<1>2. QED
  BY <1>1, TypeStep, PTL DEF Spec

-----------------------------------------------------------------------------
(* Charge requests *)

\* A request that can still be approved, now or after a restart, has not been
\* charged, and one that waits for the engine is waiting for its only charge.
RequestInv ==
    \A r \in Requests :
        /\ charge[r].made <= 1
        /\ charge[r].waits => charge[r].made = 0
        /\ r \in coming \cup chargeMem \cup chargeRows
             => charge[r].made = 0 /\ ~charge[r].waits
        /\ r \in coming => r \notin chargeMem \cup chargeRows

\* A step of one request keeps that.
LEMMA RequestStepKeeps ==
  ASSUME TypeOK, RequestInv, NEW r \in Requests, RequestStep(r)
  PROVE  RequestInv'
<1>1. charge[r] \in [waits : BOOLEAN, made : Nat]
  BY DEF TypeOK
<1>2. CASE \E written \in BOOLEAN : ChargeRequest(r, written)
  BY <1>2 DEF ChargeRequest, RequestInv
<1>3. ASSUME NEW written \in BOOLEAN,
             ChargeApprove(r, written) \/ ChargeReject(r, written)
      PROVE  RequestInv'
  <2>1. /\ r \in chargeMem /\ chargeMem' = chargeMem \ {r}
        /\ chargeRows' \subseteq chargeRows
        /\ written => r \notin chargeRows'
        /\ coming' = coming
    BY <1>3 DEF ChargeApprove, ChargeReject, Without, bounds
  <2>2. /\ charge'[r].made = charge[r].made
        /\ charge'[r].waits => charge[r].waits \/ written
        /\ \A q \in Requests \ {r} : charge'[q] = charge[q]
    BY <1>1, <1>3 DEF ChargeApprove, ChargeReject, TypeOK
  <2>3. QED
    BY <2>1, <2>2 DEF RequestInv
<1>4. ASSUME NEW held \in BOOLEAN, ChargeAnswers(r, held)
      PROVE  RequestInv'
  <2>1. /\ charge[r].waits /\ UNCHANGED <<coming, chargeMem, chargeRows>>
        /\ \A q \in Requests \ {r} : charge'[q] = charge[q]
    BY <1>4 DEF ChargeAnswers, bounds, TypeOK
  <2>2. PICK k \in {0, 1} : k = IF held THEN 1 ELSE 0
    OBVIOUS
  <2>3. charge' = [charge EXCEPT ![r].waits = FALSE, ![r].made = @ + k]
    BY <1>4, <2>2 DEF ChargeAnswers
  <2>4. ~charge'[r].waits /\ charge'[r].made = charge[r].made + k
    BY <1>1, <2>3 DEF TypeOK
  <2>5. QED
    BY <2>1, <2>4 DEF RequestInv
<1>5. QED
  BY <1>2, <1>3, <1>4 DEF RequestStep

\* Every step keeps that.
LEMMA RequestInvStep ==
  ASSUME TypeOK, RequestInv, [Next]_vars
  PROVE  RequestInv'
<1>1. ASSUME NEW r \in Requests, RequestStep(r)
      PROVE  RequestInv'
  BY <1>1, RequestStepKeeps
<1>2. CASE Restart
  <2>1. /\ chargeMem' = chargeRows /\ chargeRows' = chargeRows
        /\ coming' = coming
        /\ \A r \in Requests : charge'[r] = [charge[r] EXCEPT !.waits = FALSE]
    BY <1>2 DEF Restart
  <2>2. \A r \in Requests : /\ charge'[r].made = charge[r].made
                            /\ ~charge'[r].waits
    BY <2>1 DEF TypeOK
  <2>3. QED
    BY <2>1, <2>2 DEF RequestInv
<1>3. CASE \/ \E m \in Mandates : SetMandate(m)
           \/ MandateExpires
           \/ \E o \in Orders : PurchaseStep(o) \/ OrderStep(o)
           \/ \E x \in Orders \cup Requests : Age(x)
           \/ Sweep
           \/ UNCHANGED vars
  <2>1. /\ charge' = charge /\ coming' \subseteq coming
        /\ chargeMem' \subseteq chargeMem /\ chargeRows' \subseteq chargeRows
    BY <1>3
       DEF SetMandate, MandateExpires, PurchaseStep, OrderStep, Purchase,
           PurchaseAsks, ChargeHolds, ChargeThrows, ProviderBuys, Remembered,
           PurchaseFails, RefundReturns, RefundThrows, ConfirmDelivery,
           ConfirmSettles, CancelOrder, CancelReturns, Cancelled, Release,
           CheckDeliveryStatus, ShopAnswer, Begin, Age, Sweep, DropOld,
           engine, queue, bounds, vars
  <2>2. QED
    BY <2>1 DEF RequestInv
<1>4. QED
  BY <1>1, <1>2, <1>3 DEF Next

\* Nothing is queued at first.
LEMMA RequestInit == ASSUME NEW asked, InitWith(asked) PROVE RequestInv
BY DEF InitWith, RequestInv

(***************************************************************************)
(* A queued charge request is charged at most once, for every number of    *)
(* requests and restarts and every order of approvals, rejections, failing *)
(* deletes, expiry and answers of the payment engine.                      *)
(***************************************************************************)
THEOREM ChargedOnce == Spec => []RequestChargedOnce
<1>1. Init => RequestInv
  BY RequestInit DEF Init
<1>2. TypeOK /\ RequestInv /\ [Next]_vars => RequestInv'
  BY RequestInvStep
<1>3. RequestInv => RequestChargedOnce
  BY DEF RequestInv, RequestChargedOnce
<1>4. QED
  BY <1>1, <1>2, <1>3, TypeCorrect, PTL DEF Spec
-----------------------------------------------------------------------------
(* Orders *)

\* What a step does to the fields of its order, by the place in the code the
\* order's calls have reached.
LEMMA BeginFields ==
  ASSUME TypeOK, NEW o \in Orders, Purchase(o) \/ PurchaseAsks(o)
  PROVE  /\ o \in coming /\ Admitted(o)
         /\ coming' = coming \ {o} /\ placed' = placed \cup {o}
         /\ tidy' = (tidy /\ ~Busy)
         /\ UNCHANGED <<mandate, totalSpent>>
         /\ \/ order'[o].pc = "charging" /\ order'[o].asked = order[o].asked
            \/ order'[o].pc \in {"asking", "idle"} /\ order'[o].asked
         /\ order'[o].lock = order[o].lock
         /\ order'[o].escrow = order[o].escrow
         /\ order'[o].status = order[o].status
         /\ order'[o].stuck = order[o].stuck
         /\ order'[o].answered = order[o].answered
<1>1. order[o] \in OrderState /\ order \in [Orders -> OrderState]
  BY DEF TypeOK
<1>2. CASE Purchase(o)
  BY <1>1, <1>2 DEF Purchase, Begin, Admitted, OrderState
<1>3. CASE PurchaseAsks(o)
  <2>1. PICK written \in BOOLEAN :
          order' = [order EXCEPT ![o].pc = IF written THEN "asking" ELSE "idle",
                                 ![o].asked = TRUE]
    BY <1>3 DEF PurchaseAsks
  <2>2. PICK place \in {"asking", "idle"} :
          order' = [order EXCEPT ![o].pc = place, ![o].asked = TRUE]
    BY <2>1
  <2>3. /\ order'[o].pc \in {"asking", "idle"} /\ order'[o].asked
        /\ order'[o].lock = order[o].lock
        /\ order'[o].escrow = order[o].escrow
        /\ order'[o].status = order[o].status
        /\ order'[o].stuck = order[o].stuck
        /\ order'[o].answered = order[o].answered
    BY <1>1, <2>2 DEF OrderState
  <2>4. QED
    BY <1>3, <2>3 DEF PurchaseAsks, Begin, Admitted
<1>4. QED
  BY <1>2, <1>3

\* The steps of a purchase, between its awaits.
LEMMA PurchaseFields ==
  ASSUME TypeOK, NEW o \in Orders,
         \/ ChargeHolds(o) \/ ChargeThrows(o) \/ ProviderBuys(o)
         \/ Remembered(o) \/ PurchaseFails(o)
         \/ RefundReturns(o) \/ RefundThrows(o)
  PROVE  /\ UNCHANGED <<coming, placed, mandate>>
         /\ order'[o].lock = order[o].lock
         /\ order'[o].asked = order[o].asked
         /\ order'[o].answered = order[o].answered
         /\ totalSpent' = totalSpent
              + (IF Remembered(o) THEN Price[o] ELSE 0)
         /\ tidy' => tidy /\ order'[o].stuck = order[o].stuck
         /\ \/ /\ order[o].pc = "charging" /\ order'[o].pc = "executing"
               /\ order'[o].escrow = "held" /\ order'[o].status = "escrowed"
            \/ /\ order[o].pc = "charging" /\ order'[o].pc = "idle"
               /\ order'[o].escrow = order[o].escrow
               /\ order'[o].status = order[o].status
               /\ order'[o].stuck = order[o].stuck
            \/ /\ order[o].pc = "executing" /\ order'[o].pc = "remembering"
               /\ order'[o].escrow = order[o].escrow
               /\ order'[o].status = "purchased"
            \/ /\ order[o].pc = "remembering" /\ order'[o].pc = "idle"
               /\ order'[o].escrow = order[o].escrow
               /\ order'[o].status = order[o].status
               /\ order'[o].stuck = order[o].stuck
               /\ Remembered(o)
            \/ /\ order[o].pc \in {"executing", "remembering"}
               /\ order'[o].pc = "refunding"
               /\ order'[o].escrow = order[o].escrow
            \/ /\ order[o].pc = "refunding" /\ order'[o].pc = "idle"
               /\ Returnable(o) /\ order'[o].escrow = "refunded"
            \/ /\ order[o].pc = "refunding" /\ order'[o].pc = "idle"
               /\ order'[o].escrow = order[o].escrow
               /\ order'[o].stuck /\ ~tidy'
         /\ Remembered(o) => order[o].pc = "remembering" /\ order'[o].pc = "idle"
<1>1. order[o] \in OrderState /\ order \in [Orders -> OrderState]
  BY DEF TypeOK
<1>2. Price[o] \in Nat /\ totalSpent \in Nat
  BY CommerceAssumption DEF TypeOK
<1>3. CASE ChargeHolds(o)
  <2>1. order[o].pc = "charging"
    BY <1>3 DEF ChargeHolds
  <2>2. ~Remembered(o)
    BY <2>1 DEF Remembered
  <2>3. QED
    BY <1>1, <1>2, <1>3, <2>2 DEF ChargeHolds, OrderState, engine, bounds
<1>4. CASE ChargeThrows(o)
  <2>1. ~Remembered(o)
    BY <1>4 DEF Remembered, ChargeThrows
  <2>2. QED
    BY <1>1, <1>2, <1>4, <2>1 DEF ChargeThrows, OrderState, engine, bounds
<1>5. CASE ProviderBuys(o)
  <2>1. ~Remembered(o)
    BY <1>5 DEF Remembered, ProviderBuys
  <2>2. QED
    BY <1>1, <1>2, <1>5, <2>1 DEF ProviderBuys, OrderState, engine, bounds
<1>6. CASE Remembered(o)
  <2>1. /\ order[o].pc = "remembering" /\ totalSpent' = totalSpent + Price[o]
        /\ order' = [order EXCEPT ![o].pc = "idle"]
        /\ UNCHANGED <<coming, placed, mandate, tidy>>
    BY <1>6 DEF Remembered, bounds
  <2>2. QED
    BY <1>1, <1>6, <2>1 DEF OrderState
<1>7. CASE PurchaseFails(o)
  <2>1. /\ order[o].pc \in {"executing", "remembering"}
        /\ order' = [order EXCEPT ![o].pc = "refunding",
                                  ![o].status = "failed"]
        /\ UNCHANGED <<coming, placed, mandate, tidy, totalSpent>>
    BY <1>7 DEF PurchaseFails, engine, bounds
  <2>2. order'[o].pc = "refunding"
    BY <1>1, <2>1 DEF OrderState
  <2>3. ~Remembered(o)
    <3>1. Remembered(o) => order' = [order EXCEPT ![o].pc = "idle"]
      BY DEF Remembered
    <3>2. order' = [order EXCEPT ![o].pc = "idle"] => order'[o].pc = "idle"
      BY <1>1 DEF OrderState
    <3>3. QED
      BY <2>2, <3>1, <3>2
  <2>4. QED
    BY <1>1, <1>2, <2>1, <2>3 DEF OrderState
<1>8. CASE RefundReturns(o) \/ RefundThrows(o)
  <2>1. ~Remembered(o)
    BY <1>8 DEF Remembered, RefundReturns, RefundThrows
  <2>2. QED
    BY <1>1, <1>2, <1>8, <2>1
       DEF RefundReturns, RefundThrows, OrderState, engine, bounds
<1>9. QED
  BY <1>3, <1>4, <1>5, <1>6, <1>7, <1>8

\* The steps on a listed order: its lock is taken, used or released, or the
\* provider's status is applied.
LEMMA ListedFields ==
  ASSUME TypeOK, NEW o \in Orders,
         \/ ConfirmDelivery(o) \/ ConfirmSettles(o) \/ CancelOrder(o)
         \/ CancelReturns(o) \/ Release(o)
         \/ \E s \in {"delivered", "shipped"} : CheckDeliveryStatus(o, s)
  PROVE  /\ UNCHANGED <<coming, placed, mandate>>
         /\ order'[o].pc = order[o].pc
         /\ order'[o].asked = order[o].asked
         /\ order'[o].answered = order[o].answered
         /\ order'[o].stuck = order[o].stuck
         /\ tidy' => tidy
         /\ \/ /\ order[o].lock = "free"
               /\ order'[o].lock \in {"settling", "cancelling"}
               /\ tidy' => ~Busy
               /\ tidy' /\ order'[o].lock = "cancelling" => o \in placed
               /\ order'[o].escrow = order[o].escrow
               /\ order'[o].status = order[o].status
               /\ totalSpent' = totalSpent
            \/ /\ order[o].lock = "settling" /\ order[o].escrow = "held"
               /\ order'[o].lock = "reinforcing"
               /\ order'[o].escrow = "settled"
               /\ order'[o].status = "delivered"
               /\ totalSpent' = totalSpent
            \/ /\ order[o].lock = "cancelling" /\ Returnable(o)
               /\ order'[o].lock = "free" /\ order'[o].escrow = "refunded"
               /\ totalSpent' = Max({0, totalSpent - Price[o]})
            \/ /\ order[o].lock # "free" /\ order'[o].lock = "free"
               /\ order'[o].escrow = order[o].escrow
               /\ order'[o].status = order[o].status
               /\ totalSpent' = totalSpent
            \/ /\ order'[o].lock = order[o].lock
               /\ order'[o].escrow = order[o].escrow
               /\ order'[o].status = "shipped"
               /\ totalSpent' = totalSpent
<1>1. order[o] \in OrderState /\ order \in [Orders -> OrderState]
  BY DEF TypeOK
<1>2. CASE ConfirmDelivery(o) \/ CancelOrder(o)
  <2>1. /\ order[o].lock = "free"
        /\ tidy' => tidy /\ ~Busy
        /\ UNCHANGED <<coming, placed, mandate, totalSpent>>
    BY <1>2 DEF ConfirmDelivery, CancelOrder, engine, bounds
  <2>2. PICK l \in {"settling", "cancelling"} :
          /\ order' = [order EXCEPT ![o].lock = l]
          /\ tidy' /\ l = "cancelling" => o \in placed
    BY <1>2 DEF ConfirmDelivery, CancelOrder
  <2>3. QED
    BY <1>1, <2>1, <2>2 DEF OrderState
<1>3. CASE ConfirmSettles(o)
  BY <1>1, <1>3 DEF ConfirmSettles, OrderState, engine, bounds
<1>4. CASE CancelReturns(o)
  BY <1>1, <1>4 DEF CancelReturns, Cancelled, OrderState, bounds
<1>5. CASE Release(o)
  BY <1>1, <1>5 DEF Release, OrderState, engine, bounds
<1>6. CASE \E s \in {"delivered", "shipped"} : CheckDeliveryStatus(o, s)
  BY <1>1, <1>6 DEF CheckDeliveryStatus, OrderState, engine, bounds
<1>7. QED
  BY <1>2, <1>3, <1>4, <1>5, <1>6

\* An answer moves an order only if its purchase is waiting for one.
LEMMA AnswerFields ==
  ASSUME TypeOK, NEW o \in Orders, NEW yes \in BOOLEAN, NEW s \in OrderState,
         s = Resolved(o, yes)
  PROVE  /\ s.lock = order[o].lock /\ s.escrow = order[o].escrow
         /\ s.asked = order[o].asked /\ s.answered = order[o].answered
         /\ s.stuck = order[o].stuck
         /\ \/ s.pc = order[o].pc /\ s.status = order[o].status
            \/ /\ order[o].pc = "asking"
               /\ \/ s.pc = "charging" /\ yes /\ s.status = order[o].status
                  \/ s.pc = "idle"
<1>1. order[o] \in OrderState
  BY DEF TypeOK
<1>2. QED
  BY <1>1 DEF Resolved, OrderState

\* The same for the answer a human gives.
LEMMA ShopAnswerFields ==
  ASSUME TypeOK, NEW o \in Orders, NEW yes \in BOOLEAN,
         NEW written \in BOOLEAN, ShopAnswer(o, yes, written)
  PROVE  /\ UNCHANGED <<coming, placed, mandate, totalSpent, tidy>>
         /\ order'[o].lock = order[o].lock
         /\ order'[o].escrow = order[o].escrow
         /\ order'[o].asked = order[o].asked
         /\ order[o].answered => order'[o].answered
         /\ order'[o].stuck = order[o].stuck
         /\ \/ order'[o].pc = order[o].pc /\ order'[o].status = order[o].status
            \/ /\ order[o].pc = "asking"
               /\ \/ /\ order'[o].pc = "charging" /\ order'[o].answered
                     /\ order'[o].status = order[o].status
                  \/ order'[o].pc = "idle"
<1>1. Resolved(o, yes) \in OrderState
  BY ResolvedForms
<1>2. PICK s \in OrderState : s = Resolved(o, yes)
  BY <1>1
<1>3. order' = [order EXCEPT ![o] = [s EXCEPT !.answered = @ \/ yes]]
  BY <1>2 DEF ShopAnswer
<1>4. order'[o] = [s EXCEPT !.answered = @ \/ yes]
  BY <1>3 DEF TypeOK
<1>5. PICK b \in BOOLEAN : (b <=> s.answered \/ yes)
                           /\ order'[o] = [s EXCEPT !.answered = b]
  <2>1. s.answered \in BOOLEAN
    BY DEF OrderState
  <2>2. (s.answered \/ yes) \in BOOLEAN
    BY <2>1
  <2>3. QED
    BY <1>4, <2>2
<1>6. /\ order'[o].lock = s.lock /\ order'[o].escrow = s.escrow
      /\ order'[o].asked = s.asked /\ order'[o].stuck = s.stuck
      /\ order'[o].pc = s.pc /\ order'[o].status = s.status
      /\ order'[o].answered = b
  BY <1>5 DEF OrderState
<1>7. UNCHANGED <<coming, placed, mandate, totalSpent, tidy>>
  BY DEF ShopAnswer, engine, bounds
<1>8. QED
  BY <1>2, <1>5, <1>6, <1>7, AnswerFields

\* Money is held for an order only after its caller came, after the answer it
\* asked for, and a closed order has returned it or is about to.
OrderOK(o) ==
    /\ o \in coming =>
         order[o].pc = "idle" /\ order[o].escrow = "none" /\ ~order[o].asked
    /\ order[o].pc \in {"asking", "charging"} => order[o].escrow = "none"
    /\ order[o].asked /\ (order[o].pc = "charging" \/ order[o].escrow # "none")
         => order[o].answered
    /\ order[o].status \in {"cancelled", "failed"} =>
         order[o].pc = "refunding" \/ ~Returnable(o) \/ order[o].stuck

OrderInv == \A o \in Orders : OrderOK(o)

\* Every step keeps that for every order.
LEMMA OrderInvStep ==
  ASSUME TypeOK, OrderInv, [Next]_vars
  PROVE  OrderInv'
<1>1. ASSUME NEW o \in Orders, PurchaseStep(o) \/ OrderStep(o)
      PROVE  OrderInv'
  <2>1. /\ \A q \in Orders \ {o} : order'[q] = order[q]
        /\ OrderOK(o)
    BY <1>1, OneOrder DEF OrderInv
  <2>2. coming' \subseteq coming /\ OrderOK(o)'
    <3>1. CASE Purchase(o) \/ PurchaseAsks(o)
      BY <2>1, <3>1, BeginFields DEF OrderOK, Returnable
    <3>2. CASE \/ ChargeHolds(o) \/ ChargeThrows(o) \/ ProviderBuys(o)
               \/ Remembered(o) \/ PurchaseFails(o)
               \/ RefundReturns(o) \/ RefundThrows(o)
      BY <2>1, <3>2, PurchaseFields DEF OrderOK, Returnable
    <3>3. CASE \/ ConfirmDelivery(o) \/ ConfirmSettles(o) \/ CancelOrder(o)
               \/ CancelReturns(o) \/ Release(o)
               \/ \E s \in {"delivered", "shipped"} : CheckDeliveryStatus(o, s)
      BY <2>1, <3>3, ListedFields DEF OrderOK, Returnable
    <3>4. ASSUME NEW yes \in BOOLEAN, NEW written \in BOOLEAN,
                 ShopAnswer(o, yes, written)
          PROVE  coming' \subseteq coming /\ OrderOK(o)'
      BY <2>1, <3>4, ShopAnswerFields DEF OrderOK, Returnable
    <3>5. QED
      BY <1>1, <3>1, <3>2, <3>3, <3>4 DEF PurchaseStep, OrderStep
  <2>3. QED
    BY <2>1, <2>2 DEF OrderInv, OrderOK, Returnable
<1>2. CASE Sweep
  <2>1. coming' = coming /\ tidy' = tidy
    BY <1>2 DEF Sweep, DropOld, bounds
  <2>2. ASSUME NEW o \in Orders
        PROVE  OrderOK(o)'
    <3>1. OrderOK(o) /\ Resolved(o, FALSE) \in OrderState
      BY ResolvedForms DEF OrderInv
    <3>2. order'[o] = order[o] \/ order'[o] = Resolved(o, FALSE)
      BY <1>2 DEF Sweep, AnswerOld
    <3>3. CASE order'[o] = order[o]
      BY <2>1, <3>1, <3>3 DEF OrderOK, Returnable
    <3>4. CASE order'[o] = Resolved(o, FALSE)
      <4>1. PICK s \in OrderState : s = Resolved(o, FALSE)
        BY <3>1
      <4>2. /\ s.escrow = order[o].escrow /\ s.asked = order[o].asked
            /\ s.answered = order[o].answered /\ s.stuck = order[o].stuck
            /\ \/ s.pc = order[o].pc /\ s.status = order[o].status
               \/ order[o].pc = "asking" /\ s.pc = "idle"
        BY <4>1, AnswerFields
      <4>3. QED
        BY <2>1, <3>1, <3>4, <4>1, <4>2 DEF OrderOK, Returnable
    <3>5. QED
      BY <3>2, <3>3, <3>4
  <2>3. QED
    BY <2>2 DEF OrderInv
<1>3. CASE Restart
  <2>1. ASSUME NEW o \in Orders
        PROVE  OrderOK(o)'
    <3>1. coming' = coming /\ OrderOK(o)
      BY <1>3 DEF Restart, OrderInv
    <3>2. order'[o] = [NewOrder EXCEPT !.escrow = order[o].escrow,
             !.asked = order[o].asked, !.answered = order[o].answered]
      BY <1>3 DEF Restart
    <3>3. /\ order'[o].pc = "idle" /\ order'[o].status = "pending_approval"
          /\ order'[o].escrow = order[o].escrow
          /\ order'[o].asked = order[o].asked
          /\ order'[o].answered = order[o].answered
      BY <3>2 DEF NewOrder
    <3>4. QED
      BY <3>1, <3>3 DEF OrderOK
  <2>2. QED
    BY <2>1 DEF OrderInv
<1>4. CASE \/ \E m \in Mandates : SetMandate(m)
           \/ MandateExpires
           \/ \E r \in Requests : RequestStep(r)
           \/ \E x \in Orders \cup Requests : Age(x)
           \/ UNCHANGED vars
  <2>1. order' = order /\ coming' \subseteq coming
    BY <1>4
       DEF SetMandate, MandateExpires, RequestStep, ChargeRequest,
           ChargeApprove, ChargeReject, ChargeAnswers, Age, engine, queue,
           bounds, vars
  <2>2. QED
    BY <2>1 DEF OrderInv, OrderOK, Returnable
<1>5. QED
  BY <1>1, <1>2, <1>3, <1>4 DEF Next
-----------------------------------------------------------------------------
(* The accounts of a mandate *)

InProgress(o) == order[o].pc # "idle" \/ order[o].lock # "free"

\* Charged and not yet counted in totalSpent, or about to be returned.
Uncounted(o) == order[o].pc \in {"executing", "remembering", "refunding"}

\* One call at a time, on an order of the mandate; until a purchase is counted
\* it fits into what is left of the budget.
TurnOK(o) ==
    /\ \A q \in Orders : InProgress(o) /\ InProgress(q) => o = q
    /\ order[o].pc = "idle" \/ order[o].lock = "free"
    /\ order[o].pc # "idle" \/ order[o].lock = "cancelling" => o \in placed
    /\ Uncounted(o) => order[o].escrow = "held"
    /\ order[o].pc \notin {"idle", "refunding"} /\ mandate # NoMandate
         => totalSpent + Price[o] <= mandate.budget

Balance ==
    /\ \A o \in Orders : Uncounted(o) => Committed = totalSpent + Price[o]
    /\ (\A o \in Orders : ~Uncounted(o)) => Committed = totalSpent
    /\ mandate # NoMandate => totalSpent <= mandate.budget

SpendInv == tidy => Balance /\ \A o \in Orders : TurnOK(o)

\* The orders that hold or have paid money.
Paying == {o \in placed : Returnable(o)}

\* Committed is a natural number, at least the price of each such order.
LEMMA CommittedNat ==
  ASSUME TypeOK, IsFiniteSet(placed)
  PROVE  /\ Committed \in Nat
         /\ \A o \in Paying : Price[o] <= Committed
<1>1. IsFiniteSet(Paying) /\ Paying \subseteq Orders
  BY FS_Subset DEF Paying, TypeOK
<1>2. \A o \in Paying : Price[o] \in Nat
  BY <1>1, CommerceAssumption
<1>3. QED
  BY <1>1, <1>2, SumNat DEF Committed, Paying

\* It follows the orders that start and stop paying.
LEMMA CommittedChange ==
  ASSUME TypeOK, TypeOK', IsFiniteSet(placed), IsFiniteSet(placed'),
         NEW o \in Orders
  PROVE  /\ Committed' \in Nat
         /\ Paying' = Paying => Committed' = Committed
         /\ o \notin Paying /\ Paying' = Paying \cup {o}
              => Committed' = Committed + Price[o]
         /\ o \in Paying /\ Paying' = Paying \ {o}
              => Committed = Committed' + Price[o]
<1>1. /\ IsFiniteSet(Paying) /\ Paying \subseteq Orders
      /\ IsFiniteSet(Paying') /\ Paying' \subseteq Orders
  BY FS_Subset DEF Paying, TypeOK
<1>2. /\ Committed = SumFunctionOnSet(Price, Paying)
      /\ Committed' = SumFunctionOnSet(Price, Paying')
  BY DEF Committed, Paying
<1>3. \A q \in Orders : Price[q] \in Nat /\ Price[q] \in Int
  BY CommerceAssumption
<1>4. SumFunctionOnSet(Price, Paying) \in Int
      /\ SumFunctionOnSet(Price, Paying') \in Nat
  BY <1>1, <1>3, SumInt, SumNat
<1>5. ASSUME o \notin Paying, Paying' = Paying \cup {o}
      PROVE  Committed' = Committed + Price[o]
  <2>1. SumFunctionOnSet(Price, Paying \cup {o})
          = Price[o] + SumFunctionOnSet(Price, Paying)
    BY <1>1, <1>3, <1>5, SumAdd
  <2>2. QED
    BY <1>2, <1>3, <1>4, <1>5, <2>1
<1>6. ASSUME o \in Paying, Paying' = Paying \ {o}
      PROVE  Committed = Committed' + Price[o]
  <2>1. SumFunctionOnSet(Price, Paying)
          = Price[o] + SumFunctionOnSet(Price, Paying \ {o})
    BY <1>1, <1>3, <1>6, SumTake
  <2>2. QED
    BY <1>2, <1>3, <1>4, <1>6, <2>1
<1>7. QED
  BY <1>2, <1>4, <1>5, <1>6

\* The mandate's orders are finitely many: they were placed one by one.
LEMMA PlacedStep ==
  ASSUME TypeOK, IsFiniteSet(placed), [Next]_vars
  PROVE  IsFiniteSet(placed')
<1>1. \/ placed' = placed \/ placed' = {}
      \/ \E o \in Orders : placed' = placed \cup {o}
  BY DEF Next, SetMandate, MandateExpires, PurchaseStep, OrderStep, Purchase,
         PurchaseAsks, ChargeHolds, ChargeThrows, ProviderBuys, Remembered,
         PurchaseFails, RefundReturns, RefundThrows, ConfirmDelivery,
         ConfirmSettles, CancelOrder, CancelReturns, Cancelled, Release,
         CheckDeliveryStatus, ShopAnswer, Begin, Age, Sweep, DropOld,
         RequestStep, ChargeRequest, ChargeApprove, ChargeReject,
         ChargeAnswers, Restart, engine, queue, bounds, vars
<1>2. QED
  <2>1. CASE placed' = placed \/ placed' = {}
    BY <2>1, FS_EmptySet
  <2>2. CASE \E o \in Orders : placed' = placed \cup {o}
    <3>1. PICK o \in Orders : placed' = placed \cup {o}
      BY <2>2
    <3>2. IsFiniteSet(placed \cup {o})
      BY FS_AddElement
    <3>3. QED
      BY <3>1, <3>2
  <2>3. QED
    BY <1>1, <2>1, <2>2

\* While calls take turns, the order a call works on is the only one in
\* progress, and it says what totalSpent lacks.
LEMMA Alone ==
  ASSUME TypeOK, SpendInv, tidy, NEW o \in Orders, InProgress(o) \/ ~Busy
  PROVE  /\ \A q \in Orders \ {o} : order[q].pc = "idle" /\ order[q].lock = "free"
         /\ Committed = IF Uncounted(o) THEN totalSpent + Price[o] ELSE totalSpent
         /\ mandate # NoMandate => totalSpent <= mandate.budget
         /\ TurnOK(o)
<1>1. Balance /\ \A q \in Orders : TurnOK(q)
  BY DEF SpendInv
<1>2. \A q \in Orders \ {o} : ~InProgress(q)
  BY <1>1 DEF TurnOK, Busy, InProgress
<1>3. \A q \in Orders \ {o} : order[q].pc = "idle" /\ order[q].lock = "free"
  BY <1>2 DEF InProgress
<1>4. totalSpent \in Nat /\ Price[o] \in Nat
  BY CommerceAssumption DEF TypeOK
<1>5. Committed = IF Uncounted(o) THEN totalSpent + Price[o] ELSE totalSpent
  <2>1. CASE Uncounted(o)
    BY <1>1, <2>1 DEF Balance
  <2>2. CASE ~Uncounted(o)
    <3>1. \A q \in Orders : ~Uncounted(q)
      BY <1>3, <2>2 DEF Uncounted
    <3>2. QED
      BY <1>1, <1>4, <2>2, <3>1 DEF Balance
  <2>3. QED
    BY <2>1, <2>2
<1>6. QED
  BY <1>1, <1>3, <1>5 DEF Balance

\* What has to be shown of that order to keep the accounts.
LEMMA AloneAfter ==
  ASSUME TypeOK', NEW o \in Orders,
         \A q \in Orders \ {o} : order'[q].pc = "idle" /\ order'[q].lock = "free",
         Committed' = IF Uncounted(o)' THEN totalSpent' + Price[o] ELSE totalSpent',
         mandate' # NoMandate => totalSpent' <= mandate'.budget,
         order'[o].pc = "idle" \/ order'[o].lock = "free",
         order'[o].pc # "idle" \/ order'[o].lock = "cancelling" => o \in placed',
         Uncounted(o)' => order'[o].escrow = "held",
         order'[o].pc \notin {"idle", "refunding"} /\ mandate' # NoMandate
           => totalSpent' + Price[o] <= mandate'.budget
  PROVE  SpendInv'
<1>1. totalSpent' \in Nat /\ Price[o] \in Nat
  BY CommerceAssumption DEF TypeOK
<1>2. \A q \in Orders \ {o} : ~InProgress(q)' /\ ~Uncounted(q)'
  BY DEF InProgress, Uncounted
<1>3. Balance'
  <2>1. ASSUME NEW q \in Orders, Uncounted(q)'
        PROVE  Committed' = totalSpent' + Price[q]
    BY <1>2, <2>1
  <2>2. ASSUME \A q \in Orders : ~Uncounted(q)'
        PROVE  Committed' = totalSpent'
    BY <2>2
  <2>3. QED
    BY <2>1, <2>2 DEF Balance
<1>4. ASSUME NEW q \in Orders
      PROVE  TurnOK(q)'
  <2>1. CASE q = o
    BY <1>2, <2>1 DEF TurnOK
  <2>2. CASE q # o
    BY <1>2, <2>2 DEF TurnOK, InProgress
  <2>3. QED
    BY <2>1, <2>2
<1>5. QED
  BY <1>3, <1>4 DEF SpendInv

\* Steps that move no money and take no turn keep the accounts: at most they
\* end purchases that wait for an answer.
LEMMA QuietStep ==
  ASSUME TypeOK, TypeOK', IsFiniteSet(placed), SpendInv, tidy' => tidy,
         UNCHANGED <<placed, totalSpent>>,
         mandate' = mandate \/ mandate' = NoMandate,
         \A q \in Orders :
            /\ order'[q].lock = order[q].lock
            /\ order'[q].escrow = order[q].escrow
            /\ \/ order'[q].pc = order[q].pc
               \/ order[q].pc = "asking" /\ order'[q].pc = "idle"
  PROVE  SpendInv'
<1> SUFFICES ASSUME tidy' PROVE SpendInv'
  BY DEF SpendInv
<1>1. Balance /\ \A q \in Orders : TurnOK(q)
  BY DEF SpendInv
<1>2. \A q \in Orders : /\ Uncounted(q)' <=> Uncounted(q)
                        /\ Returnable(q)' <=> Returnable(q)
                        /\ InProgress(q)' => InProgress(q)
  BY DEF Uncounted, Returnable, InProgress
<1>3. Committed' = Committed
  <2>1. Paying' = Paying
    BY <1>2 DEF Paying, TypeOK
  <2>2. QED
    BY <2>1 DEF Committed, Paying
<1>4. Balance'
  BY <1>1, <1>2, <1>3 DEF Balance
<1>5. ASSUME NEW q \in Orders
      PROVE  TurnOK(q)'
  <2>1. TurnOK(q)
    BY <1>1
  <2>2. \A r \in Orders : InProgress(q)' /\ InProgress(r)' => q = r
    BY <1>2, <2>1 DEF TurnOK
  <2>3. QED
    BY <1>2, <2>1, <2>2 DEF TurnOK
<1>6. QED
  BY <1>4, <1>5 DEF SpendInv

\* The steps of purchase() from its charge on: the price is held, counted or
\* given back.
LEMMA PurchaseSpend ==
  ASSUME TypeOK, TypeOK', IsFiniteSet(placed), IsFiniteSet(placed'),
         OrderInv, SpendInv, NEW o \in Orders,
         \/ ChargeHolds(o) \/ ChargeThrows(o) \/ ProviderBuys(o)
         \/ Remembered(o) \/ PurchaseFails(o)
         \/ RefundReturns(o) \/ RefundThrows(o)
  PROVE  SpendInv'
<1> SUFFICES ASSUME tidy' PROVE SpendInv'
  BY DEF SpendInv
<1>1. PurchaseStep(o)
  BY DEF PurchaseStep
<1>2. tidy /\ order[o].pc # "idle" /\ InProgress(o)
  BY PurchaseFields DEF InProgress
<1>3. /\ \A q \in Orders \ {o} : order[q].pc = "idle" /\ order[q].lock = "free"
      /\ Committed = IF Uncounted(o) THEN totalSpent + Price[o] ELSE totalSpent
      /\ mandate # NoMandate => totalSpent <= mandate.budget
      /\ TurnOK(o)
  BY <1>2, Alone
<1>4. \A q \in Orders \ {o} : order'[q] = order[q]
  BY <1>1, OneOrder
<1>5. totalSpent \in Nat /\ Price[o] \in Nat /\ Committed \in Nat
  BY CommerceAssumption, CommittedNat DEF TypeOK
<1>6. o \in placed /\ order[o].lock = "free"
  BY <1>2, <1>3 DEF TurnOK
<1>7. \A q \in Orders \ {o} : Returnable(q)' <=> Returnable(q)
  BY <1>4 DEF Returnable
<1>8. UNCHANGED <<placed, mandate>> /\ order'[o].lock = "free"
  BY <1>6, PurchaseFields
<1>9. CASE order[o].pc = "charging"
  <2>1. order[o].escrow = "none" /\ ~Returnable(o) /\ ~Uncounted(o)
    BY <1>9 DEF OrderInv, OrderOK, Returnable, Uncounted
  <2>2. /\ totalSpent' = totalSpent
        /\ \/ order'[o].pc = "executing" /\ order'[o].escrow = "held"
           \/ order'[o].pc = "idle" /\ order'[o].escrow = "none"
    BY <1>5, <1>9, <2>1, PurchaseFields
  <2>3. CASE order'[o].pc = "executing"
    <3>1. Paying' = Paying \cup {o} /\ o \notin Paying
      BY <1>6, <1>7, <1>8, <2>1, <2>2, <2>3 DEF Paying, Returnable, TypeOK
    <3>2. Committed' = Committed + Price[o]
      BY <3>1, CommittedChange
    <3>3. Uncounted(o)'
      BY <2>3 DEF Uncounted
    <3>4. mandate # NoMandate => totalSpent + Price[o] <= mandate.budget
      BY <1>3, <1>9 DEF TurnOK
    <3>5. QED
      BY <1>3, <1>4, <1>5, <1>6, <1>8, <2>1, <2>2, <2>3, <3>2, <3>3, <3>4,
         AloneAfter
  <2>4. CASE order'[o].pc = "idle"
    <3>1. Paying' = Paying
      BY <1>7, <1>8, <2>1, <2>2, <2>4 DEF Paying, Returnable, TypeOK
    <3>2. Committed' = Committed
      BY <3>1, CommittedChange
    <3>3. ~Uncounted(o)'
      BY <2>4 DEF Uncounted
    <3>4. QED
      BY <1>3, <1>4, <1>5, <1>6, <1>8, <2>1, <2>2, <2>4, <3>2, <3>3,
         AloneAfter
  <2>5. QED
    BY <2>2, <2>3, <2>4
<1>10. CASE Uncounted(o)
  <2>1. order[o].escrow = "held" /\ o \in Paying
    BY <1>3, <1>6, <1>10 DEF TurnOK, Paying, Returnable
  <2>2. Committed = totalSpent + Price[o]
    BY <1>3, <1>10
  <2>3. \/ /\ order'[o].pc \in {"remembering", "refunding"}
           /\ order'[o].escrow = "held" /\ totalSpent' = totalSpent
           /\ order[o].pc \in {"executing", "remembering"}
        \/ /\ order[o].pc = "remembering" /\ order'[o].pc = "idle"
           /\ order'[o].escrow = "held" /\ totalSpent' = totalSpent + Price[o]
        \/ /\ order'[o].pc = "idle" /\ order'[o].escrow = "refunded"
           /\ totalSpent' = totalSpent
    BY <1>5, <1>10, <2>1, PurchaseFields DEF Uncounted
  <2>4. CASE order'[o].pc # "idle"
    <3>1. Paying' = Paying
      BY <1>6, <1>7, <1>8, <2>1, <2>3, <2>4 DEF Paying, Returnable, TypeOK
    <3>2. Committed' = Committed
      BY <3>1, CommittedChange
    <3>3. Uncounted(o)'
      BY <2>3, <2>4 DEF Uncounted
    <3>4. mandate # NoMandate /\ order[o].pc # "refunding"
            => totalSpent + Price[o] <= mandate.budget
      BY <1>2, <1>3 DEF TurnOK
    <3>5. QED
      BY <1>3, <1>4, <1>5, <1>6, <1>8, <2>2, <2>3, <2>4, <3>2, <3>3, <3>4,
         AloneAfter
  <2>5. CASE order'[o].pc = "idle" /\ order'[o].escrow = "held"
    <3>1. Paying' = Paying
      BY <1>6, <1>7, <1>8, <2>1, <2>5 DEF Paying, Returnable, TypeOK
    <3>2. Committed' = Committed
      BY <3>1, CommittedChange
    <3>3. ~Uncounted(o)'
      BY <2>5 DEF Uncounted
    <3>4. mandate # NoMandate => totalSpent + Price[o] <= mandate.budget
      BY <1>3, <2>3, <2>5 DEF TurnOK
    <3>5. totalSpent' = totalSpent + Price[o]
      BY <2>3, <2>5
    <3>6. QED
      BY <1>3, <1>4, <1>5, <1>6, <1>8, <2>2, <2>5, <3>2, <3>3, <3>4, <3>5,
         AloneAfter
  <2>6. CASE order'[o].pc = "idle" /\ order'[o].escrow = "refunded"
    <3>1. Paying' = Paying \ {o}
      BY <1>6, <1>7, <1>8, <2>1, <2>6 DEF Paying, Returnable, TypeOK
    <3>2. Committed = Committed' + Price[o]
      BY <2>1, <3>1, CommittedChange
    <3>3. ~Uncounted(o)' /\ Committed' \in Nat
      BY <2>6, CommittedChange DEF Uncounted
    <3>4. totalSpent' = totalSpent
      BY <2>3, <2>6
    <3>5. QED
      BY <1>3, <1>4, <1>5, <1>6, <1>8, <2>2, <2>6, <3>2, <3>3, <3>4,
         AloneAfter
  <2>7. QED
    BY <2>3, <2>4, <2>5, <2>6
<1>11. QED
  BY <1>9, <1>10, PurchaseFields DEF Uncounted

\* The steps that take, use and release the lock of an order.
LEMMA ListedSpend ==
  ASSUME TypeOK, TypeOK', IsFiniteSet(placed), IsFiniteSet(placed'),
         SpendInv, NEW o \in Orders,
         \/ ConfirmDelivery(o) \/ ConfirmSettles(o) \/ CancelOrder(o)
         \/ CancelReturns(o) \/ Release(o)
         \/ \E s \in {"delivered", "shipped"} : CheckDeliveryStatus(o, s)
  PROVE  SpendInv'
<1> SUFFICES ASSUME tidy' PROVE SpendInv'
  BY DEF SpendInv
<1>1. OrderStep(o) /\ tidy
  BY ListedFields DEF OrderStep
<1>2. \A q \in Orders \ {o} : order'[q] = order[q]
  BY <1>1, OneOrder
<1>3. UNCHANGED <<placed, mandate>> /\ order'[o].pc = order[o].pc
  BY ListedFields
<1>4. CASE /\ order'[o].lock = order[o].lock
           /\ order'[o].escrow = order[o].escrow
           /\ totalSpent' = totalSpent
  <2>1. \A q \in Orders : /\ order'[q].lock = order[q].lock
                          /\ order'[q].escrow = order[q].escrow
                          /\ order'[q].pc = order[q].pc
    BY <1>2, <1>3, <1>4
  <2>2. QED
    BY <1>1, <1>3, <1>4, <2>1, QuietStep
<1>5. CASE \/ order[o].lock = "free" /\ ~Busy
           \/ order[o].lock # "free"
  <2>1. InProgress(o) \/ ~Busy
    BY <1>5 DEF InProgress
  <2>2. /\ \A q \in Orders \ {o} :
             order[q].pc = "idle" /\ order[q].lock = "free"
        /\ Committed = IF Uncounted(o) THEN totalSpent + Price[o] ELSE totalSpent
        /\ mandate # NoMandate => totalSpent <= mandate.budget
        /\ TurnOK(o)
    BY <1>1, <2>1, Alone
  <2>3. order[o].pc = "idle"
    BY <1>5, <2>2 DEF TurnOK, Busy
  <2>4. ~Uncounted(o) /\ ~Uncounted(o)'
    BY <1>3, <2>3 DEF Uncounted
  <2>5. totalSpent \in Nat /\ Price[o] \in Nat /\ Committed \in Nat
    BY CommerceAssumption, CommittedNat DEF TypeOK
  <2>6. Committed = totalSpent
    BY <2>2, <2>4, <2>5
  <2>7. \A q \in Orders \ {o} : Returnable(q)' <=> Returnable(q)
    BY <1>2 DEF Returnable
  <2>8. CASE totalSpent' = totalSpent /\ (Returnable(o)' <=> Returnable(o))
             /\ (order'[o].lock = "cancelling" => o \in placed)
    <3>1. Paying' = Paying
      BY <1>3, <2>7, <2>8 DEF Paying, TypeOK
    <3>2. Committed' = Committed
      BY <3>1, CommittedChange
    <3>3. QED
      BY <1>2, <1>3, <2>2, <2>3, <2>4, <2>5, <2>6, <2>8, <3>2, AloneAfter
  <2>9. CASE /\ order[o].lock = "cancelling" /\ Returnable(o)
             /\ order'[o].lock = "free" /\ order'[o].escrow = "refunded"
             /\ totalSpent' = Max({0, totalSpent - Price[o]})
    <3>1. o \in Paying /\ Paying' = Paying \ {o}
      BY <1>3, <2>2, <2>7, <2>9 DEF TurnOK, Paying, Returnable, TypeOK
    <3>2. Committed = Committed' + Price[o] /\ Committed' \in Nat
      BY <3>1, CommittedChange
    <3>3. Max({0, totalSpent - Price[o]}) = totalSpent - Price[o]
      <4> DEFINE d == totalSpent - Price[o]
      <4>1. d \in Int /\ d >= 0
        BY <2>5, <2>6, <3>2
      <4> HIDE DEF d
      <4>2. \E x \in {0, d} : \A y \in {0, d} : x >= y
        BY <4>1
      <4>3. Max({0, d}) \in {0, d} /\ \A y \in {0, d} : Max({0, d}) >= y
        BY <4>2 DEF Max
      <4>4. Max({0, d}) = d
        BY <4>1, <4>3
      <4>5. QED
        BY <4>4 DEF d
    <3>4. Committed' = totalSpent'
      BY <2>5, <2>6, <2>9, <3>2, <3>3
    <3>5. mandate # NoMandate => totalSpent' <= mandate.budget
      <4>1. totalSpent' <= totalSpent /\ totalSpent' \in Nat
        BY <2>5, <2>6, <3>2, <3>4
      <4>2. ASSUME mandate # NoMandate
            PROVE  totalSpent' <= mandate.budget
        <5>1. mandate.budget \in Nat
          BY <4>2, CommerceAssumption DEF TypeOK
        <5>2. QED
          BY <2>2, <2>5, <4>1, <4>2, <5>1
      <4>3. QED
        BY <4>2
    <3>6. QED
      BY <1>2, <1>3, <2>2, <2>3, <2>4, <2>5, <2>9, <3>2, <3>4, <3>5, AloneAfter
  <2>10. QED
    <3>1. \/ /\ order[o].lock = "cancelling" /\ Returnable(o)
             /\ order'[o].lock = "free" /\ order'[o].escrow = "refunded"
             /\ totalSpent' = Max({0, totalSpent - Price[o]})
          \/ /\ totalSpent' = totalSpent /\ (Returnable(o)' <=> Returnable(o))
             /\ (order'[o].lock = "cancelling" => o \in placed)
      BY <2>2, ListedFields DEF Returnable, TurnOK
    <3>2. QED
      BY <2>8, <2>9, <3>1
<1>6. QED
  BY <1>4, <1>5, ListedFields

\* A purchase that begins finds nothing in progress and fits the budget.
LEMMA BeginSpend ==
  ASSUME TypeOK, TypeOK', IsFiniteSet(placed), IsFiniteSet(placed'),
         OrderInv, SpendInv, NEW o \in Orders, Purchase(o) \/ PurchaseAsks(o)
  PROVE  SpendInv'
<1> SUFFICES ASSUME tidy' PROVE SpendInv'
  BY DEF SpendInv
<1>1. tidy /\ ~Busy /\ PurchaseStep(o)
  BY BeginFields DEF PurchaseStep
<1>2. /\ \A q \in Orders \ {o} : order[q].pc = "idle" /\ order[q].lock = "free"
      /\ Committed = IF Uncounted(o) THEN totalSpent + Price[o] ELSE totalSpent
      /\ mandate # NoMandate => totalSpent <= mandate.budget
  BY <1>1, Alone
<1>3. \A q \in Orders \ {o} : order'[q] = order[q]
  BY <1>1, OneOrder
<1>4. /\ order[o].pc = "idle" /\ order[o].lock = "free"
      /\ order[o].escrow = "none"
  BY <1>1, BeginFields DEF Busy, OrderInv, OrderOK
<1>5. /\ order'[o].pc \in {"charging", "asking", "idle"}
      /\ order'[o].lock = "free" /\ order'[o].escrow = "none"
      /\ placed' = placed \cup {o} /\ UNCHANGED <<mandate, totalSpent>>
  BY <1>4, BeginFields
<1>6. Paying' = Paying
  BY <1>3, <1>4, <1>5 DEF Paying, Returnable, TypeOK
<1>7. Committed' = Committed
  BY <1>6, CommittedChange
<1>8. ~Uncounted(o) /\ ~Uncounted(o)'
  BY <1>4, <1>5 DEF Uncounted
<1>9. mandate # NoMandate => totalSpent + Price[o] <= mandate.budget
  <2>1. mandate # NoMandate /\ Price[o] <= Remaining
    BY BeginFields DEF Admitted
  <2>2. /\ mandate.budget \in Nat /\ totalSpent \in Nat /\ Price[o] \in Nat
        /\ totalSpent <= mandate.budget
    BY <1>2, <2>1, CommerceAssumption DEF TypeOK
  <2> DEFINE d == mandate.budget - totalSpent
  <2>3. d \in Nat
    BY <2>2
  <2>4. Price[o] <= Max({0, d})
    BY <2>1 DEF Remaining
  <2> HIDE DEF d
  <2>5. \E x \in {0, d} : \A y \in {0, d} : x >= y
    BY <2>3
  <2>6. Max({0, d}) \in {0, d}
    BY <2>5 DEF Max
  <2>7. Price[o] <= d
    BY <2>2, <2>3, <2>4, <2>6
  <2>8. QED
    BY <2>2, <2>7 DEF d
<1>10. QED
  BY <1>2, <1>3, <1>5, <1>7, <1>8, <1>9, AloneAfter

\* Every step keeps the accounts.
LEMMA SpendStep ==
  ASSUME TypeOK, TypeOK', IsFiniteSet(placed), IsFiniteSet(placed'),
         OrderInv, SpendInv, [Next]_vars
  PROVE  SpendInv'
<1>1. ASSUME NEW o \in Orders, PurchaseStep(o)
      PROVE  SpendInv'
  BY <1>1, BeginSpend, PurchaseSpend DEF PurchaseStep
<1>2. ASSUME NEW o \in Orders, OrderStep(o)
      PROVE  SpendInv'
  <2>1. ASSUME NEW yes \in BOOLEAN, NEW written \in BOOLEAN,
               ShopAnswer(o, yes, written)
        PROVE  SpendInv'
    <3>1. \A q \in Orders \ {o} : order'[q] = order[q]
      BY <1>2, OneOrder
    <3>2. /\ UNCHANGED <<placed, mandate, totalSpent, tidy>>
          /\ order'[o].lock = order[o].lock
          /\ order'[o].escrow = order[o].escrow
          /\ \/ order'[o].pc = order[o].pc
             \/ order[o].pc = "asking" /\ order'[o].pc \in {"charging", "idle"}
      BY <2>1, ShopAnswerFields
    <3>3. CASE order'[o].pc = order[o].pc \/ order'[o].pc = "idle"
      BY <3>1, <3>2, <3>3, QuietStep
    <3>4. CASE order[o].pc = "asking" /\ order'[o].pc = "charging"
      <4> SUFFICES ASSUME tidy' PROVE SpendInv'
        BY DEF SpendInv
      <4>1. tidy /\ InProgress(o) /\ ~Uncounted(o) /\ ~Uncounted(o)'
        BY <3>2, <3>4 DEF InProgress, Uncounted
      <4>2. /\ \A q \in Orders \ {o} :
                 order[q].pc = "idle" /\ order[q].lock = "free"
            /\ Committed = IF Uncounted(o) THEN totalSpent + Price[o]
                           ELSE totalSpent
            /\ mandate # NoMandate => totalSpent <= mandate.budget
            /\ TurnOK(o)
        BY <4>1, Alone
      <4>3. Paying' = Paying
        BY <3>1, <3>2 DEF Paying, Returnable, TypeOK
      <4>4. Committed' = Committed
        BY <4>3, CommittedChange
      <4>5. /\ order'[o].lock = "free" /\ o \in placed
            /\ mandate # NoMandate => totalSpent + Price[o] <= mandate.budget
        BY <3>2, <3>4, <4>2 DEF TurnOK
      <4>6. QED
        BY <3>1, <3>2, <3>4, <4>1, <4>2, <4>4, <4>5, AloneAfter
    <3>5. QED
      BY <3>2, <3>3, <3>4
  <2>2. QED
    BY <1>2, <2>1, ListedSpend DEF OrderStep
<1>3. ASSUME NEW m \in Mandates, SetMandate(m)
      PROVE  SpendInv'
  <2> SUFFICES ASSUME tidy' PROVE SpendInv'
    BY DEF SpendInv
  <2>1. /\ ~Busy /\ order' = order /\ mandate' = m
        /\ totalSpent' = 0 /\ placed' = {}
    BY <1>3 DEF SetMandate
  <2>2. \A q \in Orders : ~InProgress(q)' /\ ~Uncounted(q)'
                          /\ order'[q].pc = "idle" /\ order'[q].lock = "free"
    BY <2>1 DEF Busy, InProgress, Uncounted
  <2>3. Committed' = 0
    <3>1. {o \in {} : Returnable(o)'} = {}
      OBVIOUS
    <3>2. QED
      BY <2>1, <3>1, SumEmpty DEF Committed
  <2>4. m.budget \in Nat
    BY <1>3, CommerceAssumption
  <2>5. QED
    BY <2>1, <2>2, <2>3, <2>4 DEF SpendInv, Balance, TurnOK
<1>4. CASE Restart
  <2>1. /\ \A o \in Orders : order'[o] =
             [NewOrder EXCEPT !.escrow = order[o].escrow,
                !.asked = order[o].asked, !.answered = order[o].answered]
        /\ mandate' = NoMandate /\ totalSpent' = 0 /\ placed' = {}
    BY <1>4 DEF Restart
  <2>2. \A q \in Orders : order'[q].pc = "idle" /\ order'[q].lock = "free"
    BY <2>1 DEF NewOrder
  <2>3. \A q \in Orders : ~InProgress(q)' /\ ~Uncounted(q)'
    BY <2>2 DEF InProgress, Uncounted
  <2>4. Committed' = 0
    <3>1. {o \in {} : Returnable(o)'} = {}
      OBVIOUS
    <3>2. QED
      BY <2>1, <3>1, SumEmpty DEF Committed
  <2>5. QED
    BY <2>1, <2>2, <2>3, <2>4 DEF SpendInv, Balance, TurnOK
<1>5. CASE Sweep
  <2>1. UNCHANGED <<placed, totalSpent, mandate, tidy>>
    BY <1>5 DEF Sweep, DropOld, engine
  <2>2. ASSUME NEW q \in Orders
        PROVE  /\ order'[q].lock = order[q].lock
               /\ order'[q].escrow = order[q].escrow
               /\ \/ order'[q].pc = order[q].pc
                  \/ order[q].pc = "asking" /\ order'[q].pc = "idle"
    <3>1. PICK s \in OrderState : s = Resolved(q, FALSE)
      BY ResolvedForms
    <3>2. order'[q] = order[q] \/ order'[q] = s
      BY <1>5, <3>1 DEF Sweep, AnswerOld
    <3>3. /\ s.lock = order[q].lock /\ s.escrow = order[q].escrow
          /\ s.pc = order[q].pc \/ (order[q].pc = "asking" /\ s.pc = "idle")
      BY <3>1, AnswerFields
    <3>4. QED
      BY <3>2, <3>3
  <2>3. QED
    BY <2>1, <2>2, QuietStep
<1>6. CASE \/ MandateExpires
           \/ \E r \in Requests : RequestStep(r)
           \/ \E x \in Orders \cup Requests : Age(x)
           \/ UNCHANGED vars
  <2>1. /\ order' = order /\ UNCHANGED <<placed, totalSpent, tidy>>
        /\ mandate' = mandate \/ mandate' = NoMandate
    BY <1>6
       DEF MandateExpires, RequestStep, ChargeRequest, ChargeApprove,
           ChargeReject, ChargeAnswers, Age, engine, queue, bounds, vars
  <2>2. QED
    BY <2>1, QuietStep
<1>7. QED
  BY <1>1, <1>2, <1>3, <1>4, <1>5, <1>6 DEF Next

\* At first nothing is held,
LEMMA MoneyInit ==
  ASSUME NEW asked, InitWith(asked) PROVE IsFiniteSet(placed) /\ OrderInv /\ SpendInv
<1>1. /\ placed = {} /\ totalSpent = 0 /\ mandate = NoMandate
      /\ order = [o \in Orders |-> NewOrder]
  BY DEF InitWith
<1>2. \A o \in Orders : ~InProgress(o) /\ ~Uncounted(o)
  BY <1>1 DEF InProgress, Uncounted, NewOrder
<1>3. Committed = 0
  <2>1. {o \in {} : Returnable(o)} = {}
    OBVIOUS
  <2>2. QED
    BY <1>1, <2>1, SumEmpty DEF Committed
<1>4. SpendInv
  BY <1>1, <1>2, <1>3 DEF SpendInv, Balance, TurnOK, NewOrder
<1>5. OrderInv
  BY <1>1 DEF OrderInv, OrderOK, NewOrder
<1>6. QED
  BY <1>1, <1>4, <1>5, FS_EmptySet

\* and the invariants are about money.
LEMMA MoneyIs == ASSUME TypeOK, OrderInv, SpendInv PROVE MoneyAccounted
<1>1. ApprovedBeforeHeld /\ ClosedMeansReturned
  BY DEF OrderInv, OrderOK, ApprovedBeforeHeld, ClosedMeansReturned
<1>2. SpendTracked
  <2>1. ASSUME tidy, ~Busy, mandate # NoMandate
        PROVE  totalSpent = Committed /\ totalSpent <= mandate.budget
    <3>1. \A o \in Orders : ~Uncounted(o)
      BY <2>1 DEF Busy, Uncounted
    <3>2. QED
      BY <2>1, <3>1 DEF SpendInv, Balance
  <2>2. QED
    BY <2>1 DEF SpendTracked
<1>3. QED
  BY <1>1, <1>2 DEF MoneyAccounted

(***************************************************************************)
(* The three promises about money, for every number of orders, mandates    *)
(* and restarts: while calls take turns totalSpent is exactly what the     *)
(* orders of the mandate hold or paid, and within its budget; an order     *)
(* closed without delivery has its money back or says that it has not; and *)
(* no money is held for a purchase that asked for approval before a human  *)
(* gave it.                                                                *)
(***************************************************************************)
THEOREM MoneyIsAccounted == Spec => []MoneyAccounted
<1>1. Init => IsFiniteSet(placed) /\ OrderInv /\ SpendInv
  BY MoneyInit DEF Init
<1>2. /\ TypeOK /\ TypeOK' /\ [Next]_vars
      /\ IsFiniteSet(placed) /\ OrderInv /\ SpendInv
      => IsFiniteSet(placed)' /\ OrderInv' /\ SpendInv'
  BY PlacedStep, OrderInvStep, SpendStep
<1>3. TypeOK /\ OrderInv /\ SpendInv => MoneyAccounted
  BY MoneyIs
<1>4. QED
  BY <1>1, <1>2, <1>3, TypeCorrect, PTL DEF Spec

-----------------------------------------------------------------------------
(* A swarm run (Swarm).                                                    *)
(* A task keeps the session it opened until it closes it or stop() does,   *)
(* reports once, and what it spent is counted when it reports.             *)

\* Before it reports, a task has no result, no spend and nothing recorded, and its
\* session is the one it opened; afterwards it has one result and keeps no session.
GoodTask(s) ==
  /\ s \in Sw!TaskState
  /\ s.pc # "done" => s.result = "none" /\ s.spend = 0 /\ s.recorded = 0
  /\ s.pc \in {"waiting", "opening"} => s.session = "none"
  /\ s.pc = "done" => s.session # "open" /\ s.recorded = 1
  /\ s.pc = "performing" => s.step < Steps \/ kind = "base"

\* A session still open once stop() has closed those it knew belongs to a task
\* that is about to look at the flags or to close it.
ClosesItself(s) ==
  stopping \in {"closing", "stopped"} /\ kind # "lazy" /\ s.session = "open" =>
    s.pc \in {"bailing", "starting", "ending", "closing"}

SwarmInv ==
  /\ Sw!TypeOK
  /\ ~spawned => task = [t \in Tasks |-> Sw!NewTask] /\ ~aborted /\ stopping = "idle"
  /\ stopping # "idle" => aborted
  /\ \A t \in Tasks : GoodTask(task[t]) /\ ClosesItself(task[t])

\* What the tasks spent is counted, and a run that counted too much is stopped.
Spent == [t \in Tasks |-> task[t].spend]
Paid == {t \in Tasks : task[t].result = "ok"}
CountedInv ==
  /\ totalSpend = SumFunctionOnSet(Spent, Tasks)
  /\ ~aborted => totalSpend <= Total
  /\ SumFunctionOnSet(Spent, Paid) <= Total

\* A task that reports is a good one.
LEMMA Reported ==
  ASSUME SwarmAssumption, NEW s \in Sw!TaskState, s.recorded = 0, NEW o \in Sw!Outcome,
         NEW n \in Nat
  PROVE  /\ Sw!Report(s, o, n) \in Sw!TaskState
         /\ Sw!Report(s, o, n).pc = "done" /\ Sw!Report(s, o, n).result = o
         /\ Sw!Report(s, o, n).spend = n /\ Sw!Report(s, o, n).recorded = 1
         /\ Sw!Report(s, o, n).session = s.session
<1>1. Sw!Report(s, o, n) =
        [s EXCEPT !.pc = "done", !.result = o, !.spend = n, !.recorded = 1]
  BY DEF Sw!Report
<1> HIDE DEF SwarmAssumption
<1> DEFINE r == [s EXCEPT !.pc = "done", !.result = o, !.spend = n, !.recorded = 1]
<1>2. 1 \in 0..2
  OBVIOUS
<1>3. r \in Sw!TaskState
  BY <1>2 DEF Sw!TaskState
<1>4. /\ r.pc = "done" /\ r.result = o /\ r.spend = n /\ r.recorded = 1
      /\ r.session = s.session
  BY DEF Sw!TaskState
<1>5. QED
  BY <1>1, <1>3, <1>4

\* The task spawn() starts from.
LEMMA NewIsGood ==
  ASSUME SwarmAssumption
  PROVE  /\ GoodTask(Sw!NewTask) /\ ClosesItself(Sw!NewTask)
         /\ Sw!NewTask.spend = 0 /\ Sw!NewTask.recorded = 0
         /\ Sw!NewTask.session = "none" /\ Sw!NewTask.result = "none"
         /\ Sw!NewTask.pc = "waiting"
<1>1. Sw!NewTask \in Sw!TaskState
  BY DEF Sw!NewTask, Sw!TaskState, Sw!Outcome, SwarmAssumption
<1>2. /\ Sw!NewTask.spend = 0 /\ Sw!NewTask.recorded = 0
      /\ Sw!NewTask.session = "none" /\ Sw!NewTask.result = "none"
      /\ Sw!NewTask.pc = "waiting"
  BY DEF Sw!NewTask
<1>3. QED
  BY <1>1, <1>2 DEF GoodTask, ClosesItself

\* What a dispatch makes of a task.
LEMMA Dispatched ==
  ASSUME SwarmAssumption, NEW t \in Tasks, NEW b
  PROVE  LET s == Sw!Dispatch(t, b) IN
         /\ s \in Sw!TaskState /\ s.session = "none" /\ s.spend = 0 /\ s.result # "ok"
         /\ \/ s.pc = "done" /\ s.recorded = 1
            \/ s.pc = "opening" /\ s.result = "none" /\ s.recorded = 0
<1>1. \A o \in {"budget-denied", "total-budget-exceeded", "provider-error"} :
        LET s == Sw!Report(Sw!NewTask, o, 0) IN
        /\ s \in Sw!TaskState /\ s.session = "none" /\ s.spend = 0 /\ s.result = o
        /\ s.pc = "done" /\ s.recorded = 1
  BY Reported, NewIsGood DEF GoodTask, Sw!Outcome
<1>2. LET s == [Sw!NewTask EXCEPT !.pc = "opening"] IN
        /\ s \in Sw!TaskState /\ s.session = "none" /\ s.spend = 0 /\ s.result = "none"
        /\ s.pc = "opening" /\ s.recorded = 0
  BY NewIsGood DEF GoodTask, Sw!TaskState
<1>3. QED
  BY <1>1, <1>2 DEF Sw!Dispatch

\* The step loop goes on, or ends with the flags, the clock or the last step.
LEMMA LoopForms ==
  ASSUME SwarmAssumption, NEW s \in Sw!TaskState, NEW late \in BOOLEAN
  PROVE  LET r == Sw!StepLoop(s, late) IN
         /\ r \in Sw!TaskState
         /\ r.session = s.session /\ r.result = s.result /\ r.spend = s.spend
         /\ r.recorded = s.recorded /\ r.step = s.step
         /\ \/ r.pc = "ending"
            \/ r.pc = "performing" /\ s.step # Steps /\ ~aborted
<1> DEFINE Kept(r) == /\ r \in Sw!TaskState
                      /\ r.session = s.session /\ r.result = s.result /\ r.spend = s.spend
                      /\ r.recorded = s.recorded /\ r.step = s.step
<1>1. \A p \in {"ending", "performing"} :
        Kept([s EXCEPT !.pc = p]) /\ [s EXCEPT !.pc = p].pc = p
  BY DEF Sw!TaskState
<1>2. \A e \in {"aborted", "task-timeout"} :
        LET r == [s EXCEPT !.pc = "ending", !.good = FALSE, !.error = e] IN
        Kept(r) /\ r.pc = "ending"
  BY DEF Sw!TaskState, Sw!Outcome
<1>3. CASE s.step = Steps
  BY <1>1, <1>3 DEF Sw!StepLoop
<1>4. CASE s.step # Steps /\ (s.cancelled \/ aborted)
  BY <1>2, <1>4 DEF Sw!StepLoop
<1>5. CASE s.step # Steps /\ ~(s.cancelled \/ aborted) /\ late
  BY <1>2, <1>5 DEF Sw!StepLoop
<1>6. CASE s.step # Steps /\ ~(s.cancelled \/ aborted) /\ ~late
  BY <1>1, <1>6 DEF Sw!StepLoop
<1>7. QED
  BY <1>3, <1>4, <1>5, <1>6

\* The steps of a task other than the last.
TaskMoves(t) ==
  \/ Sw!OpenFails(t) \/ Sw!Opened(t) \/ Sw!Bailed(t) \/ Sw!Started(t) \/ Sw!Ended(t)
  \/ \E ok, late \in BOOLEAN : Sw!Performed(t, ok, late)

\* They change one task, which stays good, spends nothing and is not reported ok.
LEMMA MovesAreGood ==
  ASSUME SwarmAssumption, SwarmInv, NEW t \in Tasks, TaskMoves(t)
  PROVE  \E s : /\ task' = [task EXCEPT ![t] = s]
                /\ GoodTask(s) /\ ClosesItself(s)
                /\ s.spend = 0 /\ s.result # "ok" /\ task[t].pc # "done"
                /\ UNCHANGED <<kind, spawned, surface, totalSpend, aborted, stopping>>
<1> DEFINE s == task[t]
<1>0. /\ s \in Sw!TaskState /\ GoodTask(s) /\ ClosesItself(s)
      /\ kind \in {"base", "injected", "lazy"}
  BY DEF SwarmInv, Sw!TypeOK
<1> HIDE DEF s
<1> DEFINE Goal(r) == /\ task' = [task EXCEPT ![t] = r]
                      /\ GoodTask(r) /\ ClosesItself(r)
                      /\ r.spend = 0 /\ r.result # "ok" /\ s.pc # "done"
                      /\ UNCHANGED <<kind, spawned, surface, totalSpend, aborted, stopping>>
<1>1. ASSUME Sw!OpenFails(t) PROVE \E r : Goal(r)
  <2> DEFINE r == Sw!Report(s, "provider-error", 0)
  <2>1. /\ s.pc = "opening" /\ task' = [task EXCEPT ![t] = r]
        /\ UNCHANGED <<kind, spawned, surface, totalSpend, aborted, stopping>>
    BY <1>1 DEF Sw!OpenFails, Sw!Move, Sw!KeepRun, s
  <2>2. /\ r \in Sw!TaskState /\ r.pc = "done" /\ r.result = "provider-error"
        /\ r.spend = 0 /\ r.recorded = 1 /\ r.session = s.session
    BY <1>0, <2>1, Reported DEF GoodTask, Sw!Outcome
  <2> HIDE DEF r
  <2>3. GoodTask(r) /\ ClosesItself(r)
    BY <1>0, <2>1, <2>2 DEF GoodTask, ClosesItself
  <2>4. QED
    BY <2>1, <2>2, <2>3
<1>2. ASSUME Sw!Opened(t) PROVE \E r : Goal(r)
  <2> DEFINE p == IF Sw!Browser THEN "starting"
                  ELSE IF Sw!Flagged(t) THEN "bailing" ELSE "performing"
             r == [s EXCEPT !.session = "open", !.pc = p]
  <2>1. /\ s.pc = "opening" /\ task' = [task EXCEPT ![t] = r]
        /\ UNCHANGED <<kind, spawned, surface, totalSpend, aborted, stopping>>
    BY <1>2 DEF Sw!Opened, Sw!Move, Sw!KeepRun, s
  <2>2. /\ p \in {"starting", "bailing", "performing"}
        /\ p = "performing" => kind = "base" /\ ~aborted
    BY DEF Sw!Flagged, Sw!Browser
  <2> HIDE DEF p
  <2>3. /\ r \in Sw!TaskState /\ r.pc = p /\ r.session = "open"
        /\ r.spend = s.spend /\ r.result = s.result /\ r.recorded = s.recorded
    BY <1>0, <2>2 DEF Sw!TaskState
  <2> HIDE DEF r
  <2>4. stopping # "idle" => aborted
    BY DEF SwarmInv
  <2>5. GoodTask(r) /\ ClosesItself(r)
    BY <1>0, <2>1, <2>2, <2>3, <2>4 DEF GoodTask, ClosesItself
  <2>6. QED
    BY <1>0, <2>1, <2>3, <2>5 DEF GoodTask
<1>3. ASSUME Sw!Bailed(t) PROVE \E r : Goal(r)
  <2> DEFINE c == [s EXCEPT !.session = "closed"]
             r == Sw!Report(c, "aborted", 0)
  <2>1. /\ s.pc = "bailing" /\ task' = [task EXCEPT ![t] = r]
        /\ UNCHANGED <<kind, spawned, surface, totalSpend, aborted, stopping>>
    BY <1>3 DEF Sw!Bailed, Sw!Move, Sw!KeepRun, s
  <2>2. c \in Sw!TaskState /\ c.session = "closed" /\ c.recorded = 0
    BY <1>0, <2>1 DEF Sw!TaskState, GoodTask
  <2> HIDE DEF c
  <2>3. /\ r \in Sw!TaskState /\ r.pc = "done" /\ r.result = "aborted"
        /\ r.spend = 0 /\ r.recorded = 1 /\ r.session = "closed"
    BY <2>2, Reported DEF Sw!Outcome
  <2> HIDE DEF r
  <2>4. GoodTask(r) /\ ClosesItself(r)
    BY <2>3 DEF GoodTask, ClosesItself
  <2>5. QED
    BY <2>1, <2>3, <2>4
<1>4. ASSUME Sw!Started(t) PROVE \E r : Goal(r)
  <2> DEFINE r == Sw!StepLoop(s, FALSE)
  <2>1. /\ s.pc = "starting" /\ task' = [task EXCEPT ![t] = r]
        /\ UNCHANGED <<kind, spawned, surface, totalSpend, aborted, stopping>>
    BY <1>4 DEF Sw!Started, Sw!Move, Sw!KeepRun, s
  <2>2. /\ r \in Sw!TaskState
        /\ r.session = s.session /\ r.result = s.result /\ r.spend = s.spend
        /\ r.recorded = s.recorded /\ r.step = s.step
        /\ r.pc = "ending" \/ (r.pc = "performing" /\ s.step # Steps /\ ~aborted)
    BY <1>0, LoopForms
  <2> HIDE DEF r
  <2>3. /\ stopping # "idle" => aborted
        /\ s.step \in 0..Steps
    BY <1>0 DEF SwarmInv, Sw!TaskState
  <2>4. GoodTask(r)
    BY <1>0, <2>1, <2>2, <2>3 DEF GoodTask, SwarmAssumption
  <2>5. ClosesItself(r)
    BY <2>2, <2>3 DEF ClosesItself
  <2>6. QED
    BY <1>0, <2>1, <2>2, <2>4, <2>5 DEF GoodTask
<1>5. ASSUME Sw!Ended(t) PROVE \E r : Goal(r)
  <2> DEFINE r == [s EXCEPT !.pc = "closing"]
  <2>1. /\ s.pc = "ending" /\ task' = [task EXCEPT ![t] = r]
        /\ UNCHANGED <<kind, spawned, surface, totalSpend, aborted, stopping>>
    BY <1>5 DEF Sw!Ended, Sw!Move, Sw!KeepRun, s
  <2>2. /\ r \in Sw!TaskState /\ r.pc = "closing"
        /\ r.spend = s.spend /\ r.result = s.result /\ r.recorded = s.recorded
    BY <1>0 DEF Sw!TaskState
  <2> HIDE DEF r
  <2>3. GoodTask(r) /\ ClosesItself(r)
    BY <1>0, <2>1, <2>2 DEF GoodTask, ClosesItself
  <2>4. QED
    BY <1>0, <2>1, <2>2, <2>3 DEF GoodTask
<1>6. ASSUME NEW ok \in BOOLEAN, NEW late \in BOOLEAN, Sw!Performed(t, ok, late)
      PROVE  \E r : Goal(r)
  <2> DEFINE n == [s EXCEPT !.step = @ + 1]
             r == IF ~Sw!Browser THEN [s EXCEPT !.pc = "closing", !.good = ok]
                  ELSE IF ok THEN Sw!StepLoop(n, late)
                  ELSE [s EXCEPT !.pc = "ending", !.good = FALSE, !.error = "provider-error"]
  <2>1. /\ s.pc = "performing" /\ task' = [task EXCEPT ![t] = r]
        /\ UNCHANGED <<kind, spawned, surface, totalSpend, aborted, stopping>>
    BY <1>6 DEF Sw!Performed, Sw!Move, Sw!KeepRun, s
  <2>2. stopping # "idle" => aborted
    BY DEF SwarmInv
  <2>3. CASE ~Sw!Browser
    <3> DEFINE q == [s EXCEPT !.pc = "closing", !.good = ok]
    <3>1. /\ q \in Sw!TaskState /\ q.pc = "closing"
          /\ q.spend = s.spend /\ q.result = s.result /\ q.recorded = s.recorded
      BY <1>0 DEF Sw!TaskState
    <3>2. r = q
      BY <2>3
    <3> HIDE DEF q, r
    <3>3. GoodTask(q) /\ ClosesItself(q)
      BY <1>0, <2>1, <3>1 DEF GoodTask, ClosesItself
    <3>4. QED
      BY <1>0, <2>1, <3>1, <3>2, <3>3 DEF GoodTask
  <2>4. CASE Sw!Browser /\ ~ok
    <3> DEFINE q == [s EXCEPT !.pc = "ending", !.good = FALSE, !.error = "provider-error"]
    <3>1. /\ q \in Sw!TaskState /\ q.pc = "ending"
          /\ q.spend = s.spend /\ q.result = s.result /\ q.recorded = s.recorded
      BY <1>0 DEF Sw!TaskState, Sw!Outcome
    <3>2. r = q
      BY <2>4
    <3> HIDE DEF q, r
    <3>3. GoodTask(q) /\ ClosesItself(q)
      BY <1>0, <2>1, <3>1 DEF GoodTask, ClosesItself
    <3>4. QED
      BY <1>0, <2>1, <3>1, <3>2, <3>3 DEF GoodTask
  <2>5. CASE Sw!Browser /\ ok
    <3> DEFINE q == Sw!StepLoop(n, late)
    <3>1. r = q /\ kind # "base"
      BY <2>5 DEF Sw!Browser
    <3>2. s.step + 1 \in 0..Steps
      BY <1>0, <2>1, <3>1 DEF GoodTask, Sw!TaskState, SwarmAssumption
    <3>3. /\ n \in Sw!TaskState /\ n.step = s.step + 1 /\ n.session = s.session
          /\ n.spend = s.spend /\ n.result = s.result /\ n.recorded = s.recorded
      BY <1>0, <3>2 DEF Sw!TaskState
    <3> HIDE DEF n, r
    <3>4. /\ q \in Sw!TaskState
          /\ q.session = s.session /\ q.result = s.result /\ q.spend = s.spend
          /\ q.recorded = s.recorded /\ q.step = n.step
          /\ q.pc = "ending" \/ (q.pc = "performing" /\ n.step # Steps /\ ~aborted)
      BY <3>3, LoopForms
    <3> HIDE DEF q
    <3>5. GoodTask(q)
      BY <1>0, <2>1, <3>2, <3>3, <3>4 DEF GoodTask, SwarmAssumption
    <3>6. ClosesItself(q)
      BY <2>2, <3>4 DEF ClosesItself
    <3>7. QED
      BY <1>0, <2>1, <3>1, <3>4, <3>5, <3>6 DEF GoodTask
  <2>6. QED
    BY <2>3, <2>4, <2>5
<1>7. \E r : Goal(r)
  BY <1>1, <1>2, <1>3, <1>4, <1>5, <1>6 DEF TaskMoves
<1>8. QED
  BY <1>7 DEF s


\* A verdict is an outcome, and "ok" only for a run that goes on.
LEMMA Verdicts ==
  ASSUME NEW s, s.error \in Sw!Outcome \ {"ok"}, NEW halted \in BOOLEAN
  PROVE  /\ Sw!Verdict(s, halted) \in Sw!Outcome
         /\ Sw!Verdict(s, halted) = "ok" => ~halted
<1>1. CASE Sw!Browser
  BY <1>1 DEF Sw!Verdict, Sw!Outcome
<1>2. CASE ~Sw!Browser
  BY <1>2 DEF Sw!Verdict, Sw!Outcome
<1>3. QED
  BY <1>1, <1>2

\* The last step of a task reports it; the run is stopped first if it must be.
LEMMA ClosedTask ==
  ASSUME SwarmAssumption, SwarmInv, NEW t \in Tasks, Sw!Closed(t)
  PROVE  /\ task[t].pc = "closing" /\ totalSpend \in Nat
         /\ totalSpend' = totalSpend + task'[t].spend
         /\ aborted' \in BOOLEAN /\ (aborted' <=> aborted \/ totalSpend' > Total)
         /\ stopping' = IF ~aborted /\ aborted' THEN "grace" ELSE stopping
         /\ task' \in [Tasks -> Sw!TaskState]
         /\ GoodTask(task[t])' /\ task'[t].pc = "done" /\ task'[t].session = "closed"
         /\ task'[t].result = "ok" => ~aborted'
         /\ \A u \in Tasks \ {t} :
              /\ task'[u].pc = task[u].pc /\ task'[u].session = task[u].session
              /\ task'[u].result = task[u].result /\ task'[u].spend = task[u].spend
              /\ task'[u].recorded = task[u].recorded /\ task'[u].step = task[u].step
         /\ UNCHANGED <<kind, spawned, surface>>
<1> DEFINE s == task[t]
           c == [s EXCEPT !.session = "closed"]
           h == [c EXCEPT !.cancelled = TRUE]
           over == totalSpend' > Total /\ ~aborted
           ts == [task EXCEPT ![t].session = "closed"]
           told == IF over THEN Sw!Halt(ts) ELSE ts
           o == Sw!Verdict(told[t], aborted \/ over)
           n == Sw!Spend(t)
<1>1. /\ s.pc = "closing"
      /\ totalSpend' = totalSpend + n
      /\ aborted' = (aborted \/ over)
      /\ stopping' = IF over THEN "grace" ELSE stopping
      /\ task' = [told EXCEPT ![t] = Sw!Report(told[t], o, n)]
      /\ UNCHANGED <<kind, spawned, surface>>
  BY DEF Sw!Closed
<1>2. /\ task \in [Tasks -> Sw!TaskState] /\ s \in Sw!TaskState /\ GoodTask(s)
      /\ totalSpend \in Nat /\ aborted \in BOOLEAN
  BY DEF SwarmInv, Sw!TypeOK
<1>3. n \in Nat
  BY DEF Sw!Spend, SwarmAssumption
<1>4. ts \in [Tasks -> Sw!TaskState] /\ ts[t] = c /\ \A u \in Tasks \ {t} : ts[u] = task[u]
  <2>1. c \in Sw!TaskState
    BY <1>2 DEF Sw!TaskState
  <2>2. ts = [task EXCEPT ![t] = c]
    OBVIOUS
  <2>3. QED
    BY <1>2, <2>1, <2>2
<1>5. /\ told \in [Tasks -> Sw!TaskState]
      /\ \A u \in Tasks \ {t} :
           /\ told[u].pc = task[u].pc /\ told[u].session = task[u].session
           /\ told[u].result = task[u].result /\ told[u].spend = task[u].spend
           /\ told[u].recorded = task[u].recorded /\ told[u].step = task[u].step
      /\ told[t].recorded = 0 /\ told[t].session = "closed"
  <2>1. c.recorded = 0 /\ c.session = "closed" /\ c \in Sw!TaskState
    BY <1>1, <1>2 DEF GoodTask, Sw!TaskState
  <2>2. CASE ~over
    <3>1. told = ts
      BY <2>2
    <3> HIDE DEF told, ts, c
    <3>2. QED
      BY <1>4, <2>1, <3>1
  <2>3. CASE over
    <3>1. told = [u \in Tasks |-> [ts[u] EXCEPT !.cancelled = TRUE]]
      BY <2>3 DEF Sw!Halt
    <3> HIDE DEF told, ts, c
    <3>2. \A r \in Sw!TaskState :
            LET q == [r EXCEPT !.cancelled = TRUE] IN
            /\ q \in Sw!TaskState /\ q.pc = r.pc /\ q.session = r.session
            /\ q.result = r.result /\ q.spend = r.spend
            /\ q.recorded = r.recorded /\ q.step = r.step
      BY DEF Sw!TaskState
    <3>3. \A u \in Tasks : ts[u] \in Sw!TaskState
      BY <1>4
    <3>4. \A u \in Tasks : told[u] = [ts[u] EXCEPT !.cancelled = TRUE]
      BY <3>1
    <3>5. told \in [Tasks -> Sw!TaskState]
      BY <3>1, <3>2, <3>3
    <3>6. ASSUME NEW u \in Tasks
          PROVE  /\ told[u].pc = ts[u].pc /\ told[u].session = ts[u].session
                 /\ told[u].result = ts[u].result /\ told[u].spend = ts[u].spend
                 /\ told[u].recorded = ts[u].recorded /\ told[u].step = ts[u].step
      BY <3>2, <3>3, <3>4
    <3>7. QED
      BY <1>4, <2>1, <3>5, <3>6
  <2>4. QED
    BY <2>2, <2>3
<1>6. o \in Sw!Outcome /\ (o = "ok" => ~(aborted \/ over))
  <2>1. told[t].error \in Sw!Outcome \ {"ok"}
    BY <1>5 DEF Sw!TaskState
  <2> DEFINE halted == aborted \/ over
  <2>2. o = Sw!Verdict(told[t], halted) /\ halted \in BOOLEAN
    OBVIOUS
  <2> HIDE DEF told, halted, o
  <2>3. o \in Sw!Outcome /\ (o = "ok" => ~halted)
    BY <2>1, <2>2, Verdicts
  <2>4. QED
    BY <2>3 DEF halted
<1> DEFINE r == Sw!Report(told[t], o, n)
<1>7. /\ r \in Sw!TaskState /\ r.pc = "done" /\ r.result = o /\ r.spend = n
      /\ r.recorded = 1 /\ r.session = "closed"
  <2> HIDE DEF told, o, n
  <2>1. QED
    BY <1>3, <1>5, <1>6, Reported
<1> HIDE DEF told, o, n, r, ts
<1>8. /\ task' \in [Tasks -> Sw!TaskState] /\ task'[t] = r
      /\ \A u \in Tasks \ {t} : task'[u] = told[u]
  BY <1>1, <1>5, <1>7 DEF r
<1>9. GoodTask(task[t])'
  BY <1>7, <1>8 DEF GoodTask
<1>10. QED
  BY <1>1, <1>2, <1>3, <1>5, <1>6, <1>7, <1>8, <1>9

\* A step of the run as a whole changes no result, no spend and no position.
RunMoves == Sw!Stop \/ Sw!ForceClose \/ Sw!Stopped

\* Stopping a run changes no task but its session.
LEMMA RunKeepsTasks ==
  ASSUME SwarmAssumption, SwarmInv, RunMoves
  PROVE  /\ task' \in [Tasks -> Sw!TaskState]
         /\ \A u \in Tasks :
              /\ task'[u].pc = task[u].pc
              /\ task'[u].result = task[u].result /\ task'[u].spend = task[u].spend
              /\ task'[u].recorded = task[u].recorded /\ task'[u].step = task[u].step
              /\ task'[u].session # task[u].session =>
                   task[u].session = "open" /\ task'[u].session = "closed"
         /\ spawned /\ aborted' /\ stopping' \in {"grace", "closing", "stopped"}
         /\ stopping = "idle" => stopping' = "grace"
         /\ stopping' = "grace" => ~aborted
         /\ stopping' = "closing" /\ kind # "lazy" => \A u \in Tasks : task'[u].session # "open"
         /\ stopping' = "stopped" => stopping = "closing" /\ task' = task
         /\ UNCHANGED <<kind, spawned, surface, totalSpend>>
<1>1. /\ task \in [Tasks -> Sw!TaskState] /\ aborted \in BOOLEAN
      /\ stopping # "idle" => aborted
      /\ ~spawned => stopping = "idle"
  BY DEF SwarmInv, Sw!TypeOK
<1>2. CASE Sw!Stop
  <2>1. \A r \in Sw!TaskState :
          LET q == [r EXCEPT !.cancelled = TRUE] IN
          /\ q \in Sw!TaskState /\ q.pc = r.pc /\ q.session = r.session
          /\ q.result = r.result /\ q.spend = r.spend
          /\ q.recorded = r.recorded /\ q.step = r.step
    BY DEF Sw!TaskState
  <2>2. QED
    BY <1>1, <1>2, <2>1 DEF Sw!Stop, Sw!Halt
<1>3. CASE Sw!ForceClose
  <2>1. \A r \in Sw!TaskState :
          LET q == [r EXCEPT !.session = "closed"] IN
          /\ q \in Sw!TaskState /\ q.pc = r.pc /\ q.session = "closed"
          /\ q.result = r.result /\ q.spend = r.spend
          /\ q.recorded = r.recorded /\ q.step = r.step
    BY DEF Sw!TaskState
  <2>2. QED
    BY <1>1, <1>3, <2>1 DEF Sw!ForceClose
<1>4. CASE Sw!Stopped
  BY <1>1, <1>4 DEF Sw!Stopped
<1>5. QED
  BY <1>2, <1>3, <1>4 DEF RunMoves

\* The steps of a swarm run, as the proofs take them.
LEMMA SwarmSteps ==
  ASSUME Sw!Next
  PROVE  Sw!Spawn \/ RunMoves \/ \E t \in Tasks : TaskMoves(t) \/ Sw!Closed(t)
  BY DEF Sw!Next, RunMoves, TaskMoves

\* Initially every task is new, and nothing has been spent.
LEMMA SwarmInit ==
  ASSUME SwarmAssumption, Sw!Init
  PROVE  SwarmInv /\ CountedInv
<1>1. PICK k \in {"base", "injected", "lazy"} : Sw!InitWith(k)
  BY DEF Sw!Init
<1>2. SwarmInv
  BY <1>1, NewIsGood DEF SwarmInv, Sw!InitWith, Sw!TypeOK, GoodTask, ClosesItself
<1>3. \A t \in Tasks : Spent[t] = 0 /\ task[t].result # "ok"
  BY <1>1, NewIsGood DEF Sw!InitWith, Spent
<1>4. Paid = {}
  BY <1>3 DEF Paid
<1>5. SumFunctionOnSet(Spent, Tasks) = 0 /\ SumFunctionOnSet(Spent, Paid) = 0
  BY <1>3, <1>4, SumZero, SumEmpty DEF SwarmAssumption
<1>6. QED
  BY <1>1, <1>2, <1>5 DEF CountedInv, Sw!InitWith, SwarmAssumption

\* Sessions, results and flags stay in step.
LEMMA SwarmStep ==
  ASSUME SwarmAssumption, SwarmInv, [Sw!Next]_(Sw!vars)
  PROVE  SwarmInv'
<1>1. CASE Sw!Spawn
  <2>1. /\ ~spawned /\ spawned' /\ surface' \in BOOLEAN
        /\ task' = [t \in Tasks |-> Sw!Dispatch(t, surface')]
        /\ UNCHANGED <<kind, totalSpend, aborted, stopping>>
        /\ kind \in {"base", "injected", "lazy"} /\ totalSpend \in Nat
        /\ ~aborted /\ stopping = "idle"
    BY <1>1 DEF Sw!Spawn, SwarmInv, Sw!TypeOK
  <2>2. \A t \in Tasks : GoodTask(task[t])' /\ ClosesItself(task[t])'
    BY <2>1, Dispatched DEF GoodTask, ClosesItself
  <2>3. task' \in [Tasks -> Sw!TaskState]
    BY <2>1, Dispatched
  <2>4. QED
    BY <2>1, <2>2, <2>3 DEF SwarmInv, Sw!TypeOK
<1>2. CASE RunMoves
  <2>1. \A u \in Tasks : GoodTask(task[u])' /\ ClosesItself(task[u])'
    <3> SUFFICES ASSUME NEW u \in Tasks PROVE GoodTask(task[u])' /\ ClosesItself(task[u])'
      OBVIOUS
    <3>1. GoodTask(task[u]) /\ ClosesItself(task[u])
      BY DEF SwarmInv
    <3>2. GoodTask(task[u])'
      BY <1>2, <3>1, RunKeepsTasks DEF GoodTask
    <3>3. ClosesItself(task[u])'
      BY <1>2, <3>1, RunKeepsTasks DEF ClosesItself
    <3>4. QED
      BY <3>2, <3>3
  <2>2. QED
    BY <1>2, <2>1, RunKeepsTasks DEF SwarmInv, Sw!TypeOK
<1>3. ASSUME NEW t \in Tasks, TaskMoves(t) PROVE SwarmInv'
  <2>1. PICK s : /\ task' = [task EXCEPT ![t] = s]
                 /\ GoodTask(s) /\ ClosesItself(s)
                 /\ s.spend = 0 /\ s.result # "ok" /\ task[t].pc # "done"
                 /\ UNCHANGED <<kind, spawned, surface, totalSpend, aborted, stopping>>
    BY <1>3, MovesAreGood
  <2>2. s \in Sw!TaskState
    BY <2>1 DEF GoodTask
  <2>3. /\ task \in [Tasks -> Sw!TaskState]
        /\ \A u \in Tasks : GoodTask(task[u]) /\ ClosesItself(task[u])
    BY DEF SwarmInv, Sw!TypeOK
  <2>4. /\ task' \in [Tasks -> Sw!TaskState] /\ task'[t] = s
        /\ \A u \in Tasks \ {t} : task'[u] = task[u]
    BY <2>1, <2>2, <2>3
  <2>5. \A u \in Tasks : GoodTask(task[u])' /\ ClosesItself(task[u])'
    BY <2>1, <2>3, <2>4 DEF GoodTask, ClosesItself
  <2>6. spawned
    <3>1. Sw!NewTask.pc = "waiting"
      BY NewIsGood
    <3>2. task[t].pc # "waiting"
      BY <1>3 DEF TaskMoves, Sw!OpenFails, Sw!Opened, Sw!Bailed, Sw!Started, Sw!Ended,
                  Sw!Performed
    <3>3. QED
      BY <3>1, <3>2 DEF SwarmInv
  <2>7. QED
    BY <2>1, <2>4, <2>5, <2>6 DEF SwarmInv, Sw!TypeOK
<1>4. ASSUME NEW t \in Tasks, Sw!Closed(t) PROVE SwarmInv'
  <2>1. \A u \in Tasks : GoodTask(task[u]) /\ ClosesItself(task[u])
    BY DEF SwarmInv
  <2>2. \A u \in Tasks : GoodTask(task[u])'
    <3>1. \A u \in Tasks : task'[u] \in Sw!TaskState
      BY <1>4, ClosedTask
    <3>2. kind' = kind
      BY <1>4, ClosedTask
    <3>3. \A u \in Tasks \ {t} : GoodTask(task[u])'
      BY <1>4, <2>1, <3>1, <3>2, ClosedTask DEF GoodTask
    <3>4. QED
      BY <1>4, <3>3, ClosedTask
  <2>3. \A u \in Tasks : ClosesItself(task[u])'
    BY <1>4, <2>1, ClosedTask DEF ClosesItself
  <2>4. spawned
    <3>1. task[t].pc = "closing" /\ Sw!NewTask.pc = "waiting"
      BY <1>4, ClosedTask, NewIsGood
    <3>2. QED
      BY <3>1 DEF SwarmInv
  <2>5. /\ stopping' \in {"idle", "grace", "closing", "stopped"}
        /\ stopping' # "idle" => aborted'
    BY <1>4, ClosedTask DEF SwarmInv, Sw!TypeOK
  <2>6. totalSpend' \in Nat
    <3>1. task'[t].spend \in Nat
      BY <2>2 DEF GoodTask, Sw!TaskState
    <3>2. QED
      BY <1>4, <3>1, ClosedTask
  <2>7. QED
    BY <1>4, <2>2, <2>3, <2>4, <2>5, <2>6, ClosedTask DEF SwarmInv, Sw!TypeOK
<1>5. CASE UNCHANGED Sw!vars
  BY <1>5 DEF Sw!vars, SwarmInv, Sw!TypeOK, GoodTask, ClosesItself
<1>6. QED
  BY <1>1, <1>2, <1>3, <1>4, <1>5, SwarmSteps

\* The sums follow the one task that reports a spend.
LEMMA SpentStep ==
  ASSUME SwarmAssumption, SwarmInv, CountedInv, [Sw!Next]_(Sw!vars)
  PROVE  CountedInv'
<1> USE DEF SwarmAssumption
<1>1. /\ task \in [Tasks -> Sw!TaskState] /\ totalSpend \in Nat /\ IsFiniteSet(Tasks)
      /\ \A u \in Tasks : Spent[u] \in Nat /\ GoodTask(task[u])
  BY DEF SwarmInv, Sw!TypeOK, Sw!TaskState, Spent
<1>2. SwarmInv'
  BY SwarmStep
<1>3. totalSpend' \in Nat /\ \A u \in Tasks : Spent'[u] \in Nat
  BY <1>2 DEF SwarmInv, Sw!TypeOK, Sw!TaskState, Spent
<1>4. Paid \subseteq Tasks /\ Paid' \subseteq Tasks /\ IsFiniteSet(Paid) /\ IsFiniteSet(Paid')
  BY FS_Subset DEF Paid
<1>5. ASSUME \A u \in Tasks : Spent'[u] = Spent[u], Paid' = Paid, totalSpend' = totalSpend,
             aborted => aborted'
      PROVE  CountedInv'
  <2>1. /\ SumFunctionOnSet(Spent', Tasks) = SumFunctionOnSet(Spent, Tasks)
        /\ SumFunctionOnSet(Spent', Paid) = SumFunctionOnSet(Spent, Paid)
    BY <1>1, <1>4, <1>5, SumAgree
  <2>2. QED
    BY <1>5, <2>1 DEF CountedInv
<1>6. CASE Sw!Spawn
  <2>1. \A u \in Tasks : Spent[u] = 0 /\ Spent'[u] = 0 /\ u \notin Paid /\ u \notin Paid'
    BY <1>6, Dispatched, NewIsGood DEF Sw!Spawn, SwarmInv, Spent, Paid
  <2>2. QED
    BY <1>4, <1>5, <1>6, <2>1 DEF Sw!Spawn
<1>7. CASE RunMoves
  <2>1. \A u \in Tasks : task'[u].spend = task[u].spend /\ task'[u].result = task[u].result
    BY <1>7, RunKeepsTasks
  <2>2. Paid' = Paid /\ \A u \in Tasks : Spent'[u] = Spent[u]
    BY <2>1 DEF Paid, Spent
  <2>3. aborted' /\ totalSpend' = totalSpend
    BY <1>7, RunKeepsTasks
  <2>4. QED
    BY <1>5, <2>2, <2>3
<1>8. ASSUME NEW t \in Tasks, TaskMoves(t) PROVE CountedInv'
  <2>1. PICK s : /\ task' = [task EXCEPT ![t] = s]
                 /\ GoodTask(s) /\ ClosesItself(s)
                 /\ s.spend = 0 /\ s.result # "ok" /\ task[t].pc # "done"
                 /\ UNCHANGED <<kind, spawned, surface, totalSpend, aborted, stopping>>
    BY <1>8, MovesAreGood
  <2>2. task'[t] = s /\ \A u \in Tasks \ {t} : task'[u] = task[u]
    BY <1>1, <2>1
  <2>3. task[t].spend = 0 /\ task[t].result # "ok"
    BY <1>1, <2>1 DEF GoodTask
  <2>4. Paid' = Paid /\ \A u \in Tasks : Spent'[u] = Spent[u]
    BY <2>1, <2>2, <2>3 DEF Paid, Spent
  <2>5. QED
    BY <1>5, <2>1, <2>4
<1>9. ASSUME NEW t \in Tasks, Sw!Closed(t) PROVE CountedInv'
  <2>1. /\ task[t].pc = "closing"
        /\ totalSpend' = totalSpend + task'[t].spend
        /\ aborted' <=> aborted \/ totalSpend' > Total
        /\ task'[t].result = "ok" => ~aborted'
        /\ \A u \in Tasks \ {t} :
             task'[u].result = task[u].result /\ task'[u].spend = task[u].spend
    BY <1>9, ClosedTask
  <2>2. task[t].spend = 0 /\ task[t].result = "none"
    BY <1>1, <2>1 DEF GoodTask
  <2>3. /\ Spent[t] = 0 /\ Spent'[t] = task'[t].spend
        /\ \A u \in Tasks \ {t} : Spent'[u] = Spent[u]
    BY <2>1, <2>2 DEF Spent
  <2>4. SumFunctionOnSet(Spent', Tasks) = SumFunctionOnSet(Spent, Tasks) + Spent'[t] - Spent[t]
    <3> DEFINE f == Spent
               h == Spent'
    <3> HIDE DEF f, h
    <3>1. SumFunctionOnSet(h, Tasks) = SumFunctionOnSet(f, Tasks) + h[t] - f[t]
      BY <1>1, <1>3, <2>3, SumChange DEF f, h
    <3>2. QED
      BY <3>1 DEF f, h
  <2>5. totalSpend' = SumFunctionOnSet(Spent', Tasks)
    BY <1>1, <1>3, <2>1, <2>3, <2>4 DEF CountedInv
  <2>6. SumFunctionOnSet(Spent', Paid') <= Total
    <3>1. CASE task'[t].result = "ok"
      <4>1. totalSpend' <= Total
        BY <1>3, <2>1, <3>1
      <4>2. SumFunctionOnSet(Spent', Paid') <= SumFunctionOnSet(Spent', Tasks)
        BY <1>1, <1>3, <1>4, SumOverLess
      <4>3. SumFunctionOnSet(Spent', Paid') \in Int
        BY <1>3, <1>4, SumInt
      <4>4. QED
        BY <1>3, <2>5, <4>1, <4>2, <4>3
    <3>2. CASE task'[t].result # "ok"
      <4>1. Paid' = Paid /\ \A u \in Paid : Spent'[u] = Spent[u]
        BY <2>1, <2>2, <2>3, <3>2 DEF Paid
      <4>2. SumFunctionOnSet(Spent', Paid) = SumFunctionOnSet(Spent, Paid)
        BY <1>4, <4>1, SumAgree
      <4>3. QED
        BY <4>1, <4>2 DEF CountedInv
    <3>3. QED
      BY <3>1, <3>2
  <2>7. ~aborted' => totalSpend' <= Total
    BY <1>3, <2>1
  <2>8. QED
    BY <2>5, <2>6, <2>7 DEF CountedInv
<1>10. CASE UNCHANGED Sw!vars
  BY <1>10 DEF Sw!vars, CountedInv, Spent, Paid
<1>11. QED
  BY <1>6, <1>7, <1>8, <1>9, <1>10, SwarmSteps

\* The sum the swarm's module speaks of is the one the lemmas are about.
LEMMA SwarmSum ==
  ASSUME NEW f, NEW S PROVE Sw!SumFunctionOnSet(f, S) = SumFunctionOnSet(f, S)
  BY DEF Sw!SumFunctionOnSet, Sw!FoldFunctionOnSet, Sw!MapThenFoldSet,
         SumFunctionOnSet, FoldFunctionOnSet, MapThenFoldSet

\* Work reported as ok stays within the total, and nobody keeps a session
\* (swarm/index.ts, swarm/browser.ts).
THEOREM SwarmBounded ==
  ASSUME SwarmAssumption
  PROVE  Sw!Init /\ [][Sw!Next]_(Sw!vars) => [](Sw!OkWithinTotal /\ Sw!SessionsReturned)
<1>1. Sw!Init => SwarmInv /\ CountedInv
  BY SwarmInit
<1>2. SwarmInv /\ CountedInv /\ [Sw!Next]_(Sw!vars) => (SwarmInv /\ CountedInv)'
  BY SwarmStep, SpentStep
<1>3. SwarmInv /\ CountedInv => Sw!OkWithinTotal /\ Sw!SessionsReturned
  <2>1. CountedInv => Sw!OkWithinTotal
    BY SwarmSum DEF CountedInv, Sw!OkWithinTotal, Spent, Paid
  <2>2. SwarmInv => Sw!SessionsReturned
    BY DEF SwarmInv, Sw!SessionsReturned, GoodTask, ClosesItself
  <2>3. QED
    BY <2>1, <2>2
<1>4. QED
  BY <1>1, <1>2, <1>3, PTL

-----------------------------------------------------------------------------
(* A mission (Mission).                                                    *)
(* runMission() is a straight line of awaits: what it holds, reports and   *)
(* records follows from where it is.                                       *)

\* Where the hold and the outcome are, by where runMission() is.
MissionAt ==
  /\ pc \in {"idle", "reserving"} => hold = "none" /\ status = "none"
  /\ pc = "running" => hold = "held" /\ status = "none"
  /\ pc = "releasing" => hold = "held" /\ status \in {"halted", "error"}
  /\ pc = "settling" => hold = "held" /\ status = "ok" /\ spent <= MaxUsd
  /\ pc = "returned" =>
       \/ hold = "settled" /\ status = "ok"
       \/ status \in {"halted", "error"} /\ hold = (IF releases THEN "released" ELSE "held")
  /\ pc = "threw" => hold \in {"none", "held"}
  /\ pc = "threw" /\ hold = "held" =>
       refused \/ (signal /\ audit # <<>> /\ audit[Len(audit)] = "budget.reserved")

\* The recorded events tell the outcome.
AuditTells ==
  /\ (\E i \in DOMAIN audit : audit[i] = "mission.complete") <=> hold = "settled"
  /\ (\E i \in DOMAIN audit : audit[i] = "budget.exceeded") <=> status = "halted"
  /\ (\E i \in DOMAIN audit : audit[i] = "mission.error") <=> status = "error"

MissionInv ==
  /\ Mi!TypeOK
  /\ MissionAt
  /\ AuditTells
  /\ settled <= MaxUsd
  /\ bundle # <<>> => pc = "returned" /\ bundle = audit

\* An event is recorded at the end.
LEMMA Recorded ==
  ASSUME NEW s \in Seq(Mi!Events), NEW e \in Mi!Events
  PROVE  /\ Append(s, e) \in Seq(Mi!Events) /\ Append(s, e) # <<>>
         /\ Append(s, e)[Len(Append(s, e))] = e
         /\ \A x : (\E i \in DOMAIN Append(s, e) : Append(s, e)[i] = x) <=>
                     x = e \/ \E i \in DOMAIN s : s[i] = x
<1>1. /\ Append(s, e) \in Seq(Mi!Events) /\ Append(s, e) # <<>>
      /\ Append(s, e)[Len(Append(s, e))] = e
      /\ Len(s) + 1 \in DOMAIN Append(s, e) /\ Append(s, e)[Len(s) + 1] = e
      /\ \A i \in DOMAIN s : i \in DOMAIN Append(s, e) /\ Append(s, e)[i] = s[i]
      /\ \A i \in DOMAIN Append(s, e) : i = Len(s) + 1 \/ i \in DOMAIN s
  OBVIOUS
<1>2. QED
  BY <1>1

\* Initially nothing is audited, held or settled.
LEMMA MissionInit ==
  ASSUME MissionAssumption, Mi!Init PROVE MissionInv
<1>1. audit = <<>> /\ bundle = <<>> /\ settled = 0 /\ hold = "none" /\ status = "none"
  BY DEF Mi!Init
<1>2. Mi!TypeOK /\ MissionAt
  <2>1. <<>> \in Seq(Mi!Events)
    OBVIOUS
  <2>2. Mi!TypeOK
    BY <2>1 DEF Mi!Init, Mi!TypeOK
  <2>3. MissionAt
    BY DEF Mi!Init, MissionAt
  <2>4. QED
    BY <2>2, <2>3
<1>3. AuditTells
  BY <1>1 DEF AuditTells
<1>4. QED
  BY <1>1, <1>2, <1>3 DEF MissionAssumption, MissionInv

\* Each step of a mission keeps the invariant.
LEMMA MissionStep ==
  ASSUME MissionAssumption, MissionInv, [Mi!Next]_(Mi!vars) PROVE MissionInv'
<1> USE DEF MissionAssumption
<1>0. /\ Mi!TypeOK /\ MissionAt /\ AuditTells /\ audit \in Seq(Mi!Events)
      /\ settled \in Int /\ spent \in Int /\ settled <= MaxUsd
      /\ bundle # <<>> => pc = "returned" /\ bundle = audit
  BY DEF MissionInv, Mi!TypeOK
<1>e. {"mission.start", "budget.reserved", "mission.error", "budget.exceeded",
       "mission.complete"} = Mi!Events
  BY DEF Mi!Events
<1>1. CASE Mi!Abort
  BY <1>0, <1>1 DEF Mi!Abort, MissionInv, Mi!TypeOK, MissionAt, AuditTells
<1>2. CASE Mi!Start
  <2>1. audit' = Append(audit, "mission.start")
    BY <1>2 DEF Mi!Start, Mi!Record
  <2>2. Mi!TypeOK' /\ MissionAt'
    BY <1>0, <1>2, <1>e, <2>1, Recorded DEF Mi!Start, Mi!TypeOK, MissionAt
  <2>3. AuditTells'
    BY <1>0, <1>2, <1>e, <2>1, Recorded DEF Mi!Start, AuditTells
  <2>4. QED
    BY <1>0, <1>2, <2>2, <2>3 DEF Mi!Start, MissionInv
<1>3. CASE Mi!ReserveThrows
  BY <1>0, <1>3 DEF Mi!ReserveThrows, MissionInv, Mi!TypeOK, MissionAt, AuditTells
<1>4. CASE Mi!Reserved
  <2>1. audit' = Append(audit, "budget.reserved")
    BY <1>4 DEF Mi!Reserved, Mi!Record
  <2>2. Mi!TypeOK' /\ MissionAt'
    BY <1>0, <1>4, <1>e, <2>1, Recorded DEF Mi!Reserved, Mi!TypeOK, MissionAt
  <2>3. AuditTells'
    BY <1>0, <1>4, <1>e, <2>1, Recorded DEF Mi!Reserved, AuditTells, MissionAt
  <2>4. QED
    BY <1>0, <1>4, <2>2, <2>3 DEF Mi!Reserved, MissionInv
<1>5. CASE Mi!AgentsThrow
  <2>1. audit' = Append(audit, "mission.error")
    BY <1>5 DEF Mi!AgentsThrow, Mi!Record
  <2>2. Mi!TypeOK' /\ MissionAt'
    BY <1>0, <1>5, <1>e, <2>1, Recorded DEF Mi!AgentsThrow, Mi!TypeOK, MissionAt
  <2>3. AuditTells'
    BY <1>0, <1>5, <1>e, <2>1, Recorded DEF Mi!AgentsThrow, AuditTells, MissionAt
  <2>4. QED
    BY <1>0, <1>5, <2>2, <2>3 DEF Mi!AgentsThrow, MissionInv
<1>6. ASSUME NEW usd \in Spends, Mi!AgentsReturn(usd) PROVE MissionInv'
  <2>1. CASE usd > MaxUsd
    <3>1. audit' = Append(audit, "budget.exceeded") /\ status' = "halted" /\ pc' = "releasing"
      BY <1>6, <2>1 DEF Mi!AgentsReturn, Mi!Record
    <3>2. Mi!TypeOK' /\ MissionAt'
      BY <1>0, <1>6, <1>e, <3>1, Recorded DEF Mi!AgentsReturn, Mi!TypeOK, MissionAt
    <3>3. AuditTells'
      BY <1>0, <1>6, <1>e, <3>1, Recorded DEF Mi!AgentsReturn, AuditTells, MissionAt
    <3>4. QED
      BY <1>0, <1>6, <3>2, <3>3 DEF Mi!AgentsReturn, MissionInv
  <2>2. CASE ~(usd > MaxUsd)
    BY <1>0, <1>6, <2>2 DEF Mi!AgentsReturn, MissionInv, Mi!TypeOK, MissionAt, AuditTells
  <2>3. QED
    BY <2>1, <2>2
<1>7. CASE Mi!Released
  BY <1>0, <1>7 DEF Mi!Released, MissionInv, Mi!TypeOK, MissionAt, AuditTells
<1>8. CASE Mi!Settled
  <2>1. audit' = Append(audit, "mission.complete")
    BY <1>8 DEF Mi!Settled, Mi!Record
  <2>2. Mi!TypeOK' /\ MissionAt'
    BY <1>0, <1>8, <1>e, <2>1, Recorded DEF Mi!Settled, Mi!TypeOK, MissionAt
  <2>3. AuditTells'
    BY <1>0, <1>8, <1>e, <2>1, Recorded DEF Mi!Settled, AuditTells, MissionAt
  <2>4. QED
    BY <1>0, <1>8, <2>2, <2>3 DEF Mi!Settled, MissionInv, MissionAt
<1>9. CASE Mi!AdapterThrows
  BY <1>0, <1>9 DEF Mi!AdapterThrows, MissionInv, Mi!TypeOK, MissionAt, AuditTells
<1>10. CASE Mi!BuildArticle12Bundle
  BY <1>0, <1>10 DEF Mi!BuildArticle12Bundle, MissionInv, Mi!TypeOK, MissionAt, AuditTells
<1>11. CASE UNCHANGED Mi!vars
  BY <1>0, <1>11 DEF Mi!vars, MissionInv, Mi!TypeOK, MissionAt, AuditTells
<1>12. QED
  BY <1>1, <1>2, <1>3, <1>4, <1>5, <1>6, <1>7, <1>8, <1>9, <1>10, <1>11 DEF Mi!Next

\* A hold that outlives its mission is explained, no mission pays more than its
\* budget, and the bundle tells the outcome (governance/runtime.ts, article12.ts).
THEOREM MissionExplained ==
  ASSUME MissionAssumption
  PROVE  Mi!Init /\ [][Mi!Next]_(Mi!vars) => [](Mi!HoldsExplained /\ Mi!BundleTellsOutcome)
<1>1. Mi!Init => MissionInv
  BY MissionInit
<1>2. MissionInv /\ [Mi!Next]_(Mi!vars) => MissionInv'
  BY MissionStep
<1>3. MissionInv => Mi!HoldsExplained /\ Mi!BundleTellsOutcome
  <2> SUFFICES ASSUME MissionInv PROVE Mi!HoldsExplained /\ Mi!BundleTellsOutcome
    OBVIOUS
  <2>1. Mi!HoldsExplained
    BY DEF MissionInv, MissionAt, Mi!HoldsExplained, Mi!Last
  <2>2. Mi!BundleTellsOutcome
    BY DEF MissionInv, AuditTells, Mi!BundleTellsOutcome, Mi!ToSet
  <2>3. QED
    BY <2>1, <2>2
<1>4. QED
  BY <1>1, <1>2, <1>3, PTL

-----------------------------------------------------------------------------
(* The policy gate (PolicyGate).                                           *)
(* An action passes a rate rule when fewer than its maximum were observed  *)
(* in the window that ends now, so the invariant compares what was         *)
(* observed with what passed.                                              *)

Counters == (DOMAIN policy) \X Gt!Keys

\* The counter of a rule has not forgotten, within the rule's window, an action
\* the rule let pass.
CountsCover ==
  \A k \in Counters : \A u \in Gt!Times :
    u >= now - policy[k[1]].window => passed[k][u] <= hits[k][u]

GateInv ==
  /\ policy \in Policies /\ Gt!LintPolicy(policy) /\ now \in Gt!Times
  /\ DOMAIN hits = Counters /\ DOMAIN passed = Counters
  /\ \A k \in Counters : hits[k] \in [Gt!Times -> Nat] /\ passed[k] \in [Gt!Times -> Nat]
  /\ CountsCover
  /\ Gt!RateKept

\* The sums the gate's module speaks of are those the lemmas are about.
LEMMA GateSum ==
  ASSUME NEW f, NEW S PROVE Gt!SumFunctionOnSet(f, S) = SumFunctionOnSet(f, S)
  BY DEF Gt!SumFunctionOnSet, Gt!FoldFunctionOnSet, Gt!MapThenFoldSet,
         SumFunctionOnSet, FoldFunctionOnSet, MapThenFoldSet

\* The moments of a window that ends at t, and those a count at the moment looks at.
Window(k, t) == {u \in Gt!Times : t - policy[k[1]].window <= u /\ u <= t}
Recent(k) == {u \in Gt!Times : u >= now - policy[k[1]].window}

\* RateKept in these terms.
LEMMA RateForm ==
  Gt!RateKept <=> \A k \in DOMAIN passed : policy[k[1]].max # -1 =>
                    \A t \in Gt!Times : SumFunctionOnSet(passed[k], Window(k, t)) <= policy[k[1]].max
  BY GateSum DEF Gt!RateKept, Gt!None, Window

\* The times of the model are finitely many numbers.
LEMMA TimesFinite ==
  ASSUME GateAssumption
  PROVE  /\ IsFiniteSet(Gt!Times) /\ Gt!Times \subseteq Nat
         /\ \A S \in SUBSET Gt!Times : IsFiniteSet(S)
<1>1. IsFiniteSet(0..MaxTime)
  BY FS_Interval DEF GateAssumption
<1>2. IsFiniteSet(Gt!Times) /\ Gt!Times \subseteq Nat
  BY <1>1 DEF Gt!Times, GateAssumption
<1>3. \A S \in SUBSET Gt!Times : IsFiniteSet(S)
  BY <1>2, FS_Subset
<1>4. QED
  BY <1>2, <1>3

\* Initially no counter has a hit, and nothing has passed.
LEMMA GateInit ==
  ASSUME GateAssumption, Gt!Init PROVE GateInv
<1>1. PICK p \in Policies : Gt!LintPolicy(p) /\ Gt!Start(p)
  BY DEF Gt!Init
<1> DEFINE zero == [t \in Gt!Times |-> 0]
<1>2. /\ policy = p /\ now = 0 /\ passed = hits
      /\ hits = [k \in (DOMAIN policy) \X Gt!Keys |-> zero]
  BY <1>1 DEF Gt!Start
<1>3. zero \in [Gt!Times -> Nat]
  <2>1. 0 \in Nat
    OBVIOUS
  <2>2. QED
    BY <2>1
<1>4. /\ DOMAIN hits = Counters /\ DOMAIN passed = Counters
      /\ \A k \in Counters : hits[k] = zero /\ passed[k] = zero
  BY <1>2 DEF Counters
<1>5. CountsCover
  BY <1>4 DEF CountsCover
<1>6. ASSUME NEW k \in Counters, policy[k[1]].max # -1, NEW t \in Gt!Times
      PROVE  SumFunctionOnSet(passed[k], Window(k, t)) <= policy[k[1]].max
  <2>1. \A u \in Window(k, t) : passed[k][u] = 0
    BY <1>4 DEF Window
  <2>2. SumFunctionOnSet(passed[k], Window(k, t)) = 0
    BY <2>1, TimesFinite, SumZero DEF Window
  <2>3. k[1] \in DOMAIN policy
    BY DEF Counters
  <2>4. policy[k[1]].max > 0
    BY <1>1, <1>2, <1>6, <2>3 DEF Gt!LintPolicy, Gt!LintRule, Gt!None
  <2>5. policy[k[1]].max \in Int
    BY <1>1, <1>2, <2>3 DEF GateAssumption
  <2>6. QED
    BY <2>2, <2>4, <2>5
<1>7. Gt!RateKept
  BY <1>4, <1>6, RateForm
<1>8. now \in Gt!Times
  BY <1>2 DEF Gt!Times, GateAssumption
<1>9. QED
  BY <1>1, <1>2, <1>3, <1>4, <1>5, <1>7, <1>8 DEF GateInv

\* What observing an action does to a counter.
LEMMA Observed ==
  ASSUME GateInv, NEW f, DOMAIN f = Counters,
         \A k \in Counters : f[k] \in [Gt!Times -> Nat], NEW is, NEW a, NEW k \in Counters
  PROVE  LET g == Gt!Observe(f, is, a) IN
         /\ DOMAIN g = Counters
         /\ g[k] \in [Gt!Times -> Nat]
         /\ \A u \in Gt!Times \ {now} : g[k][u] = f[k][u]
         /\ k[1] \in is /\ k[2] = <<a.kind, a.target>> => g[k][now] = f[k][now] + 1
         /\ ~(k[1] \in is /\ k[2] = <<a.kind, a.target>>) => g[k][now] = f[k][now]
<1>1. now \in Gt!Times /\ f[k] \in [Gt!Times -> Nat]
  BY DEF GateInv
<1> DEFINE one == [f[k] EXCEPT ![now] = @ + 1]
<1>2. /\ one \in [Gt!Times -> Nat] /\ one[now] = f[k][now] + 1
      /\ \A u \in Gt!Times \ {now} : one[u] = f[k][u]
  BY <1>1
<1>3. Gt!Observe(f, is, a)[k] = IF k[1] \in is /\ k[2] = <<a.kind, a.target>>
                                THEN one ELSE f[k]
  BY DEF Gt!Observe
<1>4. DOMAIN Gt!Observe(f, is, a) = Counters
  BY DEF Gt!Observe
<1> HIDE DEF one
<1>5. QED
  BY <1>1, <1>2, <1>3, <1>4

\* An action that is not blocked was counted by every rule that let it pass, and
\* found each of them with room.
LEMMA Unblocked ==
  ASSUME NEW a, Gt!Verdict(a) # "blocked"
  PROVE  /\ Gt!Reached(a) = Gt!Applying(a)
         /\ \A i \in Gt!Applying(a) : policy[i].max # -1 =>
              ~(Gt!CountWithin(i, a) >= policy[i].max)
<1>1. a.usd # BadUsd /\ Gt!Blockers(a) = {}
  BY DEF Gt!Verdict
<1>2. Gt!Reached(a) = Gt!Applying(a)
  BY <1>1 DEF Gt!Reached
<1>3. ASSUME NEW i \in Gt!Applying(a) PROVE ~Gt!Exhausted(i, a)
  BY <1>1 DEF Gt!Blockers
<1>4. QED
  BY <1>2, <1>3 DEF Gt!Exhausted, Gt!None

\* Each step of the gate keeps the invariant.
LEMMA GateStep ==
  ASSUME GateAssumption, GateInv, [Gt!Next]_(Gt!vars) PROVE GateInv'
<1>0. /\ policy \in Policies /\ Gt!LintPolicy(policy) /\ now \in Gt!Times
      /\ DOMAIN hits = Counters /\ DOMAIN passed = Counters
      /\ \A k \in Counters : hits[k] \in [Gt!Times -> Nat] /\ passed[k] \in [Gt!Times -> Nat]
      /\ CountsCover /\ Gt!RateKept
      /\ \A k \in Counters : policy[k[1]].window \in Nat /\ policy[k[1]].max \in Int
      /\ Gt!Times \subseteq Nat
  BY TimesFinite DEF GateInv, GateAssumption, Counters
<1>1. CASE Gt!Tick
  <2>1. now' = now + 1 /\ now' \in Gt!Times /\ UNCHANGED <<policy, hits, passed, request>>
    BY <1>0, <1>1 DEF Gt!Tick, Gt!Times, GateAssumption
  <2>2. CountsCover'
    <3>1. \A k \in Counters : \A u \in Gt!Times :
            u >= now + 1 - policy[k[1]].window => u >= now - policy[k[1]].window
      BY <1>0
    <3>2. QED
      BY <1>0, <2>1, <3>1 DEF CountsCover, Counters
  <2>3. QED
    BY <1>0, <2>1, <2>2 DEF GateInv, Counters, Gt!RateKept
<1>2. ASSUME NEW a \in Actions, Gt!Ask(a) PROVE GateInv'
  <2> DEFINE rated(is) == {i \in is : policy[i].max # Gt!None}
  <2>1. /\ UNCHANGED <<policy, now>>
        /\ hits' = Gt!Observe(hits, rated(Gt!Reached(a)), a)
        /\ passed' = IF Gt!Verdict(a) = "blocked" THEN passed
                     ELSE Gt!Observe(passed, rated(Gt!Applying(a)), a)
    BY <1>2 DEF Gt!Ask
  <2>2. /\ DOMAIN hits' = Counters /\ DOMAIN passed' = Counters
        /\ \A k \in Counters : hits'[k] \in [Gt!Times -> Nat] /\ passed'[k] \in [Gt!Times -> Nat]
    <3>1. DOMAIN hits' = Counters /\ \A k \in Counters : hits'[k] \in [Gt!Times -> Nat]
      BY <1>0, <2>1, Observed DEF Gt!Observe
    <3>2. DOMAIN passed' = Counters /\ \A k \in Counters : passed'[k] \in [Gt!Times -> Nat]
      BY <1>0, <2>1, Observed DEF Gt!Observe
    <3>3. QED
      BY <3>1, <3>2
  <2>3. Counters' = Counters
    BY <2>1 DEF Counters
  <2>4. \A k \in Counters : \A u \in Gt!Times : hits[k][u] <= hits'[k][u]
    BY <1>0, <2>1, Observed
  <2>5. CASE Gt!Verdict(a) = "blocked"
    <3>1. passed' = passed
      BY <2>1, <2>5
    <3>2. CountsCover'
      <4>1. \A k \in Counters : \A u \in Gt!Times :
              /\ hits[k][u] \in Nat /\ hits'[k][u] \in Nat /\ passed[k][u] \in Nat
        BY <1>0, <2>2
      <4>2. QED
        BY <1>0, <2>1, <2>3, <2>4, <3>1, <4>1 DEF CountsCover
    <3>3. QED
      BY <1>0, <2>1, <2>2, <2>3, <3>1, <3>2 DEF GateInv, Gt!RateKept
  <2>6. CASE Gt!Verdict(a) # "blocked"
    <3>1. passed' = Gt!Observe(passed, rated(Gt!Applying(a)), a)
      BY <2>1, <2>6
    <3>2. hits' = Gt!Observe(hits, rated(Gt!Applying(a)), a)
      BY <2>1, <2>6, Unblocked
    <3>3. CountsCover'
      <4> DEFINE is == rated(Gt!Applying(a))
      <4> HIDE DEF is
      <4>1. ASSUME NEW k \in Counters, NEW u \in Gt!Times,
                   u >= now - policy[k[1]].window
            PROVE  passed'[k][u] <= hits'[k][u]
        <5>1. passed[k][u] <= hits[k][u] /\ passed[k][u] \in Nat /\ hits[k][u] \in Nat
          BY <1>0, <4>1 DEF CountsCover
        <5>2. CASE u # now
          <6>1. passed'[k][u] = passed[k][u]
            BY <1>0, <3>1, <5>2, Observed DEF is
          <6>2. hits'[k][u] = hits[k][u]
            BY <1>0, <3>2, <5>2, Observed DEF is
          <6>3. QED
            BY <5>1, <6>1, <6>2
        <5>3. CASE u = now /\ (k[1] \in is /\ k[2] = <<a.kind, a.target>>)
          <6>1. passed'[k][u] = passed[k][u] + 1
            BY <1>0, <3>1, <5>3, Observed DEF is
          <6>2. hits'[k][u] = hits[k][u] + 1
            BY <1>0, <3>2, <5>3, Observed DEF is
          <6>3. QED
            BY <5>1, <6>1, <6>2
        <5>4. CASE u = now /\ ~(k[1] \in is /\ k[2] = <<a.kind, a.target>>)
          <6>1. passed'[k][u] = passed[k][u]
            BY <1>0, <3>1, <5>4, Observed DEF is
          <6>2. hits'[k][u] = hits[k][u]
            BY <1>0, <3>2, <5>4, Observed DEF is
          <6>3. QED
            BY <5>1, <6>1, <6>2
        <5>5. QED
          BY <5>2, <5>3, <5>4
      <4>2. QED
        BY <2>1, <2>3, <4>1 DEF CountsCover
    <3>4. ASSUME NEW k \in Counters, policy[k[1]].max # -1, NEW t \in Gt!Times
          PROVE  SumFunctionOnSet(passed'[k], Window(k, t)) <= policy[k[1]].max
      <4> DEFINE W == Window(k, t)
                 f == passed[k]
                 h == passed'[k]
                 m == policy[k[1]].max
      <4>1. /\ IsFiniteSet(W) /\ W \subseteq Gt!Times
            /\ f \in [Gt!Times -> Nat] /\ h \in [Gt!Times -> Nat] /\ m \in Int
        BY <1>0, <2>2, TimesFinite DEF Window
      <4>2. SumFunctionOnSet(f, W) <= m
        BY <1>0, <3>4, RateForm
      <4>3. SumFunctionOnSet(f, W) \in Nat /\ SumFunctionOnSet(h, W) \in Nat
        <5> HIDE DEF W, f, h
        <5>1. QED
          BY <4>1, SumNat
      <4>4. \A u \in W \ {now} : h[u] = f[u]
        <5> DEFINE is == rated(Gt!Applying(a))
        <5> HIDE DEF is
        <5>1. \A u \in Gt!Times \ {now} : passed'[k][u] = passed[k][u]
          BY <1>0, <3>1, Observed DEF is
        <5>2. QED
          BY <4>1, <5>1
      <4>5. CASE now \notin W \/ h[now] = f[now]
        <5> HIDE DEF W, f, h, m
        <5>1. SumFunctionOnSet(h, W) = SumFunctionOnSet(f, W)
          BY <4>1, <4>4, <4>5, SumAgree
        <5>2. QED
          BY <4>2, <5>1 DEF W, h, m
      <4>6. CASE now \in W /\ h[now] # f[now]
        <5>1. /\ k[1] \in Gt!Applying(a) /\ k[2] = <<a.kind, a.target>>
              /\ h[now] = f[now] + 1
          BY <1>0, <3>1, <4>6, Observed
        <5>2. k = <<k[1], <<a.kind, a.target>>>>
          BY <5>1 DEF Counters
        <5>3. Gt!CountWithin(k[1], a) = SumFunctionOnSet(hits[k], Recent(k))
          BY <5>2, GateSum DEF Gt!CountWithin, Recent
        <5>4. ~(SumFunctionOnSet(hits[k], Recent(k)) >= m)
          BY <2>6, <3>4, <5>1, <5>3, Unblocked
        <5> DEFINE R == Recent(k)
                   g == hits[k]
        <5>5. W \subseteq R /\ R \subseteq Gt!Times /\ IsFiniteSet(R)
          <6>1. /\ now \in Nat /\ t \in Nat /\ now <= t
                /\ policy[k[1]].window \in Nat /\ Gt!Times \subseteq Nat
            BY <1>0, <4>6 DEF Window
          <6>2. \A u \in Nat : u >= t - policy[k[1]].window => u >= now - policy[k[1]].window
            BY <6>1
          <6>3. W \subseteq R /\ R \subseteq Gt!Times
            BY <6>1, <6>2 DEF Window, Recent
          <6>4. QED
            BY <6>3, TimesFinite
        <5>6. \A u \in R : f[u] <= g[u] /\ f[u] \in Nat /\ g[u] \in Nat
          BY <1>0 DEF CountsCover, Recent
        <5> HIDE DEF W, f, h, m, R, g
        <5>7. SumFunctionOnSet(f, W) <= SumFunctionOnSet(f, R)
          BY <5>5, <5>6, SumOverLess
        <5>8. SumFunctionOnSet(f, R) <= SumFunctionOnSet(g, R)
          BY <5>5, <5>6, SumMonotonic
        <5>9. SumFunctionOnSet(f, R) \in Nat /\ SumFunctionOnSet(g, R) \in Nat
          BY <5>5, <5>6, SumNat
        <5>10. SumFunctionOnSet(h, W) = SumFunctionOnSet(f, W) + h[now] - f[now]
          BY <4>1, <4>4, <4>6, SumChange
        <5>11. f[now] \in Nat
          BY <4>1, <4>6
        <5>12. ~(SumFunctionOnSet(g, R) >= m)
          BY <5>4 DEF g, R
        <5>13. SumFunctionOnSet(h, W) <= m
          BY <4>1, <4>3, <5>1, <5>7, <5>8, <5>9, <5>10, <5>11, <5>12
        <5>14. QED
          BY <5>13 DEF W, h, m
      <4>7. QED
        BY <4>5, <4>6
    <3>5. Gt!RateKept'
      <4>1. \A k \in DOMAIN passed' : policy'[k[1]].max # -1 =>
              \A t \in Gt!Times : SumFunctionOnSet(passed'[k], Window(k, t)') <= policy'[k[1]].max
        BY <2>1, <2>2, <3>4 DEF Window
      <4>2. QED
        BY <4>1, GateSum DEF Gt!RateKept, Gt!None, Window
    <3>6. QED
      BY <1>0, <2>1, <2>2, <2>3, <3>3, <3>5 DEF GateInv
  <2>7. QED
    BY <2>5, <2>6
<1>3. ASSUME NEW before \in Gt!Times, Gt!Prune(before) PROVE GateInv'
  <2>1. /\ UNCHANGED <<policy, now, passed, request>>
        /\ hits' = [k \in DOMAIN hits |-> [t \in Gt!Times |-> IF t < before THEN 0 ELSE hits[k][t]]]
        /\ \A i \in DOMAIN policy : before <= now - policy[i].window
    BY <1>3 DEF Gt!Prune
  <2>2. DOMAIN hits' = Counters /\ \A k \in Counters : hits'[k] \in [Gt!Times -> Nat]
    BY <1>0, <2>1
  <2>3. ASSUME NEW k \in Counters, NEW u \in Gt!Times, u >= now - policy[k[1]].window
        PROVE  passed[k][u] <= hits'[k][u]
    <3>1. before <= now - policy[k[1]].window
      BY <2>1 DEF Counters
    <3>2. ~(u < before)
      BY <1>0, <2>3, <3>1
    <3>3. hits'[k][u] = hits[k][u]
      BY <1>0, <2>1, <3>2
    <3>4. QED
      BY <1>0, <2>3, <3>3 DEF CountsCover
  <2>4. CountsCover'
    BY <2>1, <2>3 DEF CountsCover, Counters
  <2>5. QED
    BY <1>0, <2>1, <2>2, <2>4 DEF GateInv, Counters, Gt!RateKept
<1>4. ASSUME UNCHANGED <<policy, now, hits, passed>> PROVE GateInv'
  BY <1>0, <1>4 DEF GateInv, CountsCover, Counters, Gt!RateKept
<1>5. QED
  BY <1>1, <1>2, <1>3, <1>4 DEF Gt!Next, Gt!Decide, Gt!Expire, Gt!vars

\* However the clock, the pruning and the other rules interleave, no window of a
\* rate rule holds more actions than its maximum (governance/policy.ts).
THEOREM RateLimited ==
  ASSUME GateAssumption
  PROVE  Gt!Spec => []Gt!RateKept
<1>1. GateInv => Gt!RateKept
  BY DEF GateInv
<1>2. QED
  BY <1>1, GateInit, GateStep, PTL DEF Gt!Spec

-----------------------------------------------------------------------------
(* The action log (ActionLog).                                             *)
(* Replay is a recursive function of the events; the lemmas before the     *)
(* invariant show that it takes one event at a time.                       *)

\* h holds what an auditor has after each of the first n events of s.
IsReplay(h, s, n) ==
  /\ h = [i \in 0..n |-> h[i]]
  /\ h[0] = <<>>
  /\ \A i \in 1..n : h[i] = Lg!Applied(h[i - 1], s[i])

\* There is such a function,
LEMMA ReplayExists ==
  ASSUME NEW s PROVE \A n \in Nat : \E h : IsReplay(h, s, n)
<1> DEFINE Bad == {n \in Nat : ~ \E h : IsReplay(h, s, n)}
<1> SUFFICES ASSUME Bad # {} PROVE FALSE
  OBVIOUS
<1>1. PICK n \in Bad : \A m \in Bad : n <= m
  BY SmallestNumber
<1>2. IsReplay([i \in 0..0 |-> <<>>], s, 0)
  BY DEF IsReplay
<1>3. n \in Nat /\ n # 0 /\ n - 1 \in Nat
  BY <1>1, <1>2
<1>4. PICK h : IsReplay(h, s, n - 1)
  BY <1>1, <1>3
<1> DEFINE g == [i \in 0..n |-> IF i = n THEN Lg!Applied(h[n - 1], s[n]) ELSE h[i]]
<1>5. g = [i \in 0..n |-> g[i]]
  OBVIOUS
<1>6. g[0] = <<>> /\ g[n] = Lg!Applied(g[n - 1], s[n])
  BY <1>3, <1>4 DEF IsReplay
<1>7. \A i \in 1..(n - 1) : g[i] = h[i] /\ g[i - 1] = h[i - 1] /\ i \in 1..(n - 1)
  BY <1>3
<1> HIDE DEF g
<1>8. ASSUME NEW i \in 1..n PROVE g[i] = Lg!Applied(g[i - 1], s[i])
  <2>1. CASE i = n
    BY <1>6, <2>1
  <2>2. CASE i # n
    <3>1. i \in 1..(n - 1)
      BY <1>3, <2>2
    <3>2. h[i] = Lg!Applied(h[i - 1], s[i])
      BY <1>4, <3>1 DEF IsReplay
    <3>3. QED
      BY <1>7, <3>1, <3>2
  <2>3. QED
    BY <2>1, <2>2
<1>9. IsReplay(g, s, n)
  BY <1>5, <1>6, <1>8 DEF IsReplay
<1>10. QED
  BY <1>1, <1>9

\* the events before n determine it up to n,
LEMMA ReplayUnique ==
  ASSUME NEW s, NEW t, NEW h, NEW g, NEW n \in Nat, NEW m \in Nat, n <= m,
         IsReplay(h, s, n), IsReplay(g, t, m), \A i \in 1..n : s[i] = t[i]
  PROVE  h[n] = g[n]
<1> DEFINE Bad == {i \in 0..n : h[i] # g[i]}
<1> SUFFICES ASSUME Bad # {} PROVE FALSE
  <2>1. n \in 0..n
    OBVIOUS
  <2>2. QED
    BY <2>1
<1>1. PICK i \in Bad : \A j \in Bad : i <= j
  <2>1. Bad \in SUBSET Nat
    OBVIOUS
  <2> HIDE DEF Bad
  <2>2. QED
    BY <2>1, SmallestNumber
<1>2. i \in 0..n /\ h[i] # g[i] /\ h[0] = g[0]
  BY <1>1 DEF IsReplay
<1>3. i \in 1..n /\ i \in 1..m /\ i - 1 \in 0..n /\ ~(i <= i - 1)
  BY <1>2
<1>4. i - 1 \notin Bad
  <2> HIDE DEF Bad
  <2>1. QED
    BY <1>1, <1>3
<1>5. h[i - 1] = g[i - 1] /\ s[i] = t[i]
  BY <1>3, <1>4
<1>6. QED
  BY <1>2, <1>3, <1>5 DEF IsReplay


\* and Replay is its last value.
LEMMA ReplayIs ==
  ASSUME NEW s, Len(s) \in Nat, NEW h, IsReplay(h, s, Len(s))
  PROVE  Lg!Replay(s) = h[Len(s)]
<1> DEFINE Body(f) == [n \in 0..Len(s) |-> IF n = 0 THEN <<>>
                                           ELSE Lg!Applied(f[n - 1], s[n])]
           after == CHOOSE f : f = Body(f)
<1>1. Lg!Replay(s) = after[Len(s)]
  BY DEF Lg!Replay
<1>2. h = Body(h)
  <2>1. \A i \in 0..Len(s) : i # 0 => i \in 1..Len(s)
    OBVIOUS
  <2>2. \A i \in 0..Len(s) : h[i] = IF i = 0 THEN <<>> ELSE Lg!Applied(h[i - 1], s[i])
    BY <2>1 DEF IsReplay
  <2>3. h = [i \in 0..Len(s) |-> h[i]]
    BY DEF IsReplay
  <2>4. QED
    BY <2>2, <2>3
<1>3. after = Body(after)
  BY <1>2
<1> HIDE DEF after
<1>4. IsReplay(after, s, Len(s))
  <2>1. \A i \in 0..Len(s) : after[i] = IF i = 0 THEN <<>> ELSE Lg!Applied(after[i - 1], s[i])
    BY <1>3
  <2>2. after = [i \in 0..Len(s) |-> after[i]]
    BY <1>3
  <2>3. QED
    BY <2>1, <2>2 DEF IsReplay
<1>5. after[Len(s)] = h[Len(s)]
  BY <1>4, ReplayUnique
<1>6. QED
  BY <1>1, <1>5

\* One more event is applied to what the others made.
LEMMA ReplayAppend ==
  ASSUME NEW S, NEW s \in Seq(S), NEW e \in S
  PROVE  Lg!Replay(Append(s, e)) = Lg!Applied(Lg!Replay(s), e)
<1> DEFINE t == Append(s, e)
           n == Len(s)
<1>1. n \in Nat /\ Len(t) = n + 1 /\ t[n + 1] = e /\ \A i \in 1..n : t[i] = s[i]
  OBVIOUS
<1> HIDE DEF t, n
<1>2. PICK h : IsReplay(h, t, n + 1)
  <2>1. n + 1 \in Nat
    BY <1>1
  <2>2. QED
    BY <2>1, ReplayExists
<1>3. PICK g : IsReplay(g, s, n)
  BY <1>1, ReplayExists
<1>4. h[n] = g[n]
  <2>1. \E k : IsReplay(k, t, n) /\ k[n] = h[n]
    <3> DEFINE k == [i \in 0..n |-> h[i]]
    <3>1. /\ 0 \in 0..n /\ k[0] = h[0] /\ k[n] = h[n]
          /\ \A i \in 1..n : k[i] = h[i] /\ k[i - 1] = h[i - 1] /\ i \in 1..(n + 1)
      BY <1>1
    <3>2. k = [i \in 0..n |-> k[i]]
      OBVIOUS
    <3> HIDE DEF k
    <3>3. IsReplay(k, t, n)
      BY <1>2, <3>1, <3>2 DEF IsReplay
    <3>4. QED
      BY <3>1, <3>3
  <2>2. PICK k : IsReplay(k, t, n) /\ k[n] = h[n]
    BY <2>1
  <2>3. n <= n /\ n \in Nat /\ \A i \in 1..n : t[i] = s[i]
    BY <1>1
  <2>4. k[n] = g[n]
    BY <1>3, <2>2, <2>3, ReplayUnique
  <2>5. QED
    BY <2>2, <2>4
<1>5. Lg!Replay(s) = g[n]
  BY <1>1, <1>3, ReplayIs DEF n
<1>6. Lg!Replay(t) = h[n + 1]
  BY <1>1, <1>2, ReplayIs
<1>7. h[n + 1] = Lg!Applied(h[n], t[n + 1])
  <2>1. n + 1 \in 1..(n + 1)
    BY <1>1
  <2>2. h[n + 1] = Lg!Applied(h[(n + 1) - 1], t[n + 1])
    BY <1>2, <2>1 DEF IsReplay
  <2>3. (n + 1) - 1 = n
    BY <1>1
  <2>4. h[(n + 1) - 1] = h[n]
    BY <2>3
  <2>5. QED
    BY <2>2, <2>3
<1>8. QED
  BY <1>1, <1>4, <1>5, <1>6, <1>7 DEF t

\* The replay of no events is no action.
LEMMA ReplayNothing == Lg!Replay(<<>>) = <<>>
<1>1. PICK h : IsReplay(h, <<>>, 0)
  BY ReplayExists
<1>2. Len(<<>>) = 0
  OBVIOUS
<1>3. QED
  BY <1>1, <1>2, ReplayIs DEF IsReplay

-----------------------------------------------------------------------------

\* What the chain records.
Args == {0} \cup Costs \cup Approvals \cup (Approvals \X {"approved", "rejected"}) \cup Lg!Ended
EventSet == [kind : {"begin", "update", "approval.requested", "approval.resolved", "executing",
                     "end"},
             action : LoggedActions, arg : Args, sequence : Nat, signed : BOOLEAN]

LeafHashes(evs) == [i \in DOMAIN evs |-> Lg!LeafHash(evs[i])]

\* The cached leaf hashes are those of the events, a bundle was sealed over the
\* events it carries, and an anchor took the root of the sealed bundle.
LogInv ==
  /\ events \in Seq(EventSet) /\ signer \in BOOLEAN
  /\ actions = Lg!Replay(events)
  /\ leafHashes = LeafHashes(events)
  /\ bundle # Lg!NoBundle =>
       bundle.events # <<>> /\ bundle.root = Lg!MerkleRoot(LeafHashes(bundle.events))
  /\ bundle = [events |-> bundle.events, root |-> bundle.root, ref |-> bundle.ref]
  /\ bundle.ref # <<>> => bundle.ref = bundle.root
  /\ anchor = [state |-> anchor.state, polls |-> anchor.polls, root |-> anchor.root]
  /\ anchor.state # "none" => bundle # Lg!NoBundle /\ anchor.root = bundle.root

\* A call of the action ledger emits one event, and changes the view as its replay does.
Logged(e) ==
  /\ e \in EventSet
  /\ actions' = Lg!Applied(actions, e)
  /\ events' = Append(events, e)
  /\ leafHashes' = Append(leafHashes, Lg!LeafHash(e))
  /\ UNCHANGED <<signer, bundle, anchor>>

LedgerCall ==
  \/ \E a \in LoggedActions : Lg!Begin(a)
  \/ \E a \in LoggedActions, usd \in Costs : Lg!Update(a, usd)
  \/ \E a \in LoggedActions, id \in Approvals : Lg!AwaitApproval(a, id)
  \/ \E a \in LoggedActions, id \in Approvals, d \in {"approved", "rejected"} :
       Lg!ResolveApproval(a, id, d)
  \/ \E a \in LoggedActions : Lg!MarkExecuting(a)
  \/ \E a \in LoggedActions, s \in Lg!Ended : Lg!End(a, s)

\* Each call of the action log appends an event.
LEMMA CallsAreLogged ==
  ASSUME LogInv, LedgerCall
  PROVE  \E e : Logged(e)
<1> DEFINE ev(what, a, arg) == Lg!Event(what, a, arg)
<1>1. \A what \in {"begin", "update", "approval.requested", "approval.resolved", "executing",
                   "end"}, a \in LoggedActions, arg \in Args :
        ev(what, a, arg) \in EventSet
  BY DEF EventSet, LogInv, Lg!Event
<1>2. ASSUME NEW what, NEW a, NEW arg, Lg!Emit(what, a, arg)
      PROVE  /\ events' = Append(events, ev(what, a, arg))
             /\ leafHashes' = Append(leafHashes, Lg!LeafHash(ev(what, a, arg)))
             /\ UNCHANGED <<signer, bundle, anchor>>
  BY <1>2 DEF Lg!Emit, Lg!Leaf
<1>3. ASSUME NEW what \in {"begin", "update", "approval.requested", "approval.resolved",
                           "executing", "end"},
             NEW a \in LoggedActions, NEW arg \in Args, Lg!Emit(what, a, arg),
             ASSUME NEW e, e.kind = what, e.action = a, e.arg = arg
             PROVE  actions' = Lg!Applied(actions, e)
      PROVE  \E e : Logged(e)
  <2>1. ev(what, a, arg).kind = what /\ ev(what, a, arg).action = a /\ ev(what, a, arg).arg = arg
    BY DEF Lg!Event
  <2>2. actions' = Lg!Applied(actions, ev(what, a, arg))
    BY <1>3, <2>1
  <2>3. ev(what, a, arg) \in EventSet
    BY <1>1
  <2>4. /\ events' = Append(events, ev(what, a, arg))
        /\ leafHashes' = Append(leafHashes, Lg!LeafHash(ev(what, a, arg)))
        /\ UNCHANGED <<signer, bundle, anchor>>
    BY <1>2, <1>3
  <2> HIDE DEF ev
  <2>5. QED
    BY <2>2, <2>3, <2>4 DEF Logged
<1>4. ASSUME NEW a \in LoggedActions, Lg!Begin(a) PROVE \E e : Logged(e)
  <2>1. Lg!Emit("begin", a, 0) /\ 0 \in Args
    BY <1>4 DEF Lg!Begin, Args
  <2>2. ASSUME NEW e, e.kind = "begin", e.action = a, e.arg = 0
        PROVE  actions' = Lg!Applied(actions, e)
    BY <1>4, <2>2 DEF Lg!Begin, Lg!Applied
  <2>3. QED
    BY <1>3, <2>1, <2>2
<1>5. ASSUME NEW a \in LoggedActions, NEW usd \in Costs, Lg!Update(a, usd) PROVE \E e : Logged(e)
  <2>1. Lg!Emit("update", a, usd) /\ usd \in Args
    BY <1>5 DEF Lg!Update, Args
  <2>2. ASSUME NEW e, e.kind = "update", e.action = a, e.arg = usd
        PROVE  actions' = Lg!Applied(actions, e)
    BY <1>5, <2>2 DEF Lg!Update, Lg!Change, Lg!Applied
  <2>3. QED
    BY <1>3, <2>1, <2>2
<1>6. ASSUME NEW a \in LoggedActions, NEW id \in Approvals, Lg!AwaitApproval(a, id)
      PROVE  \E e : Logged(e)
  <2>1. Lg!Emit("approval.requested", a, id) /\ id \in Args
    BY <1>6 DEF Lg!AwaitApproval, Args
  <2>2. ASSUME NEW e, e.kind = "approval.requested", e.action = a, e.arg = id
        PROVE  actions' = Lg!Applied(actions, e)
    BY <1>6, <2>2 DEF Lg!AwaitApproval, Lg!Change, Lg!Applied
  <2>3. QED
    BY <1>3, <2>1, <2>2
<1>7. ASSUME NEW a \in LoggedActions, NEW id \in Approvals, NEW d \in {"approved", "rejected"},
             Lg!ResolveApproval(a, id, d)
      PROVE  \E e : Logged(e)
  <2>1. Lg!Emit("approval.resolved", a, <<id, d>>) /\ <<id, d>> \in Args
    BY <1>7 DEF Lg!ResolveApproval, Args
  <2>2. ASSUME NEW e, e.kind = "approval.resolved", e.action = a, e.arg = <<id, d>>
        PROVE  actions' = Lg!Applied(actions, e)
    <3>1. e.arg[1] = id /\ e.arg[2] = d
      BY <2>2
    <3>2. QED
      BY <1>7, <2>2, <3>1 DEF Lg!ResolveApproval, Lg!Change, Lg!Applied
  <2>3. QED
    BY <1>3, <2>1, <2>2
<1>8. ASSUME NEW a \in LoggedActions, Lg!MarkExecuting(a) PROVE \E e : Logged(e)
  <2>1. Lg!Emit("executing", a, 0) /\ 0 \in Args
    BY <1>8 DEF Lg!MarkExecuting, Args
  <2>2. ASSUME NEW e, e.kind = "executing", e.action = a, e.arg = 0
        PROVE  actions' = Lg!Applied(actions, e)
    BY <1>8, <2>2 DEF Lg!MarkExecuting, Lg!Change, Lg!Applied
  <2>3. QED
    BY <1>3, <2>1, <2>2
<1>9. ASSUME NEW a \in LoggedActions, NEW s \in Lg!Ended, Lg!End(a, s) PROVE \E e : Logged(e)
  <2>1. Lg!Emit("end", a, s) /\ s \in Args
    BY <1>9 DEF Lg!End, Args
  <2>2. ASSUME NEW e, e.kind = "end", e.action = a, e.arg = s
        PROVE  actions' = Lg!Applied(actions, e)
    BY <1>9, <2>2 DEF Lg!End, Lg!Change, Lg!Applied
  <2>3. QED
    BY <1>3, <2>1, <2>2
<1>10. QED
  BY <1>4, <1>5, <1>6, <1>7, <1>8, <1>9 DEF LedgerCall

\* Initially the log is empty, and so is its view.
LEMMA LogInit == ASSUME Lg!Init PROVE LogInv
<1>1. events \in Seq(EventSet) /\ leafHashes = LeafHashes(events)
  BY DEF Lg!Init, LeafHashes
<1>2. QED
  BY <1>1, ReplayNothing DEF Lg!Init, LogInv, Lg!NoBundle

\* Each step of the action log keeps the view the replay of its events.
LEMMA LogStep ==
  ASSUME LogInv, [Lg!Next]_(Lg!vars) PROVE LogInv'
<1> DEFINE BundleFields == bundle = [events |-> bundle.events, root |-> bundle.root,
                                     ref |-> bundle.ref]
<1>0. /\ events \in Seq(EventSet) /\ actions = Lg!Replay(events)
      /\ leafHashes = LeafHashes(events)
  BY DEF LogInv
<1>1. CASE LedgerCall
  <2>1. PICK e : Logged(e)
    BY <1>1, CallsAreLogged
  <2>2. actions' = Lg!Replay(events')
    BY <1>0, <2>1, ReplayAppend DEF Logged
  <2>3. leafHashes' = LeafHashes(events')
    BY <1>0, <2>1 DEF Logged, LeafHashes
  <2>4. QED
    BY <1>0, <2>1, <2>2, <2>3 DEF LogInv, Logged
<1>2. CASE Lg!ToBundle
  <2> DEFINE root == Lg!MerkleRoot(leafHashes)
  <2>1. /\ events # <<>> /\ bundle = Lg!NoBundle
        /\ bundle' = [events |-> events, root |-> root, ref |-> <<>>]
        /\ UNCHANGED <<actions, events, leafHashes, signer, anchor>>
    BY <1>2 DEF Lg!ToBundle
  <2>2. root = Lg!MerkleRoot(LeafHashes(events))
    BY <1>0
  <2> HIDE DEF root
  <2>3. bundle'.events = events /\ bundle'.root = root /\ bundle'.ref = <<>>
    BY <2>1
  <2>4. bundle' # Lg!NoBundle /\ anchor.state = "none"
    BY <2>1, <2>3 DEF Lg!NoBundle, LogInv
  <2>5. QED
    BY <1>0, <2>1, <2>2, <2>3, <2>4 DEF LogInv
<1>3. CASE Lg!AnchorChainBundle
  <2>1. /\ bundle.root # <<>> /\ anchor' = [anchor EXCEPT !.state = "pending", !.root = bundle.root]
        /\ UNCHANGED <<actions, events, leafHashes, signer, bundle>>
    BY <1>3 DEF Lg!AnchorChainBundle
  <2>2. bundle # Lg!NoBundle
    BY <2>1 DEF Lg!NoBundle
  <2>3. anchor'.root = bundle.root
    BY <2>1
  <2>4. QED
    BY <1>0, <2>1, <2>2, <2>3 DEF LogInv
<1>4. ASSUME NEW s, Lg!PollAnchor(s) PROVE LogInv'
  <2>1. /\ anchor.state = "pending"
        /\ UNCHANGED <<actions, events, leafHashes, signer, bundle>>
    BY <1>4 DEF Lg!PollAnchor
  <2>2. PICK st, po : anchor' = [anchor EXCEPT !.polls = po, !.state = st]
    BY <1>4 DEF Lg!PollAnchor
  <2>3. anchor = [state |-> anchor.state, polls |-> anchor.polls, root |-> anchor.root]
    BY DEF LogInv
  <2>4. anchor' = [state |-> st, polls |-> po, root |-> anchor.root]
    BY <2>2, <2>3
  <2>5. anchor' = [state |-> anchor'.state, polls |-> anchor'.polls, root |-> anchor'.root]
        /\ anchor'.root = anchor.root
    BY <2>4
  <2>6. QED
    BY <1>0, <2>1, <2>5 DEF LogInv
<1>5. CASE Lg!AttachAnchorReference
  <2>1. /\ anchor.state = "anchored" /\ bundle' = [bundle EXCEPT !.ref = anchor.root]
        /\ UNCHANGED <<actions, events, leafHashes, signer, anchor>>
    BY <1>5 DEF Lg!AttachAnchorReference
  <2>2. bundle # Lg!NoBundle /\ anchor.root = bundle.root /\ bundle.events # <<>>
        /\ BundleFields
    BY <2>1 DEF LogInv
  <2>3. /\ bundle' = [events |-> bundle.events, root |-> bundle.root, ref |-> anchor.root]
    BY <2>1, <2>2
  <2>4. /\ bundle'.events = bundle.events /\ bundle'.root = bundle.root
        /\ bundle'.ref = anchor.root
    BY <2>3
  <2>5. bundle' # Lg!NoBundle
    BY <2>2, <2>4 DEF Lg!NoBundle
  <2>6. QED
    BY <1>0, <2>1, <2>2, <2>3, <2>4, <2>5 DEF LogInv
<1>6. CASE UNCHANGED Lg!vars
  BY <1>6 DEF Lg!vars, LogInv
<1>7. QED
  BY <1>1, <1>2, <1>3, <1>4, <1>5, <1>6 DEF Lg!Next, LedgerCall

\* The typed view is the replay of the chain, and a sealed bundle verifies
\* (governance/action-ledger.ts, audit-chain.ts, anchor-sink.ts).
THEOREM LogReplays == Lg!Spec => [](Lg!ViewIsReplay /\ Lg!BundlesVerify)
<1>1. LogInv => Lg!ViewIsReplay /\ Lg!BundlesVerify
  BY DEF LogInv, Lg!ViewIsReplay, Lg!BundlesVerify, Lg!VerifyBundle, LeafHashes
<1>2. QED
  BY <1>1, LogInit, LogStep, PTL DEF Lg!Spec

-----------------------------------------------------------------------------
(* The parts together (Oversight).                                         *)
(* What holds of a part alone holds of it among the others: the part in    *)
(* focus stays in focus, and each step is one of its steps.                *)

\* A step is one of the part in focus, which stays in focus.
LEMMA OnePartAtATime ==
  ASSUME [OversightNext]_oversightVars
  PROVE  /\ focus' = focus
         /\ [Sw!Next]_(Sw!vars)
         /\ focus = "mission" => [Mi!Next]_(Mi!vars)
         /\ focus = "gate" => [Gt!Next]_(Gt!vars)
         /\ focus = "log" => [Lg!Next]_(Lg!vars)
         /\ [Next]_vars
BY DEF OversightNext, oversightVars, swarm, mission, gate, log, Sw!vars, Mi!vars, Gt!vars, Lg!vars,
       InSwarm, InMission, InGate, InLog, InShop

\* Work that a swarm reports as ok stays within its total, and nobody keeps a session
\* (swarm/index.ts, swarm/browser.ts).
THEOREM SwarmKeepsItsTotal == OversightSpec => []OkWithinTotal
<1>1. OversightInit => Sw!Init
  BY DEF OversightInit, Sw!Init
<1>2. [OversightNext]_oversightVars => [Sw!Next]_(Sw!vars)
  BY OnePartAtATime
<1>3. Sw!Init /\ [][Sw!Next]_(Sw!vars) => [](Sw!OkWithinTotal /\ Sw!SessionsReturned)
  BY OversightAssumption, SwarmBounded DEF OversightAssumption
<1>4. Sw!OkWithinTotal /\ Sw!SessionsReturned => OkWithinTotal
  BY DEF OkWithinTotal
<1>5. QED
  BY <1>1, <1>2, <1>3, <1>4, PTL DEF OversightSpec

\* A hold that outlives its mission is explained, no mission pays more than its
\* budget, and the bundle tells the outcome (governance/runtime.ts, article12.ts).
THEOREM MissionsAreExplained == OversightSpec => []HoldsExplained
<1> DEFINE F == focus = "mission"
<1>1. OversightInit /\ F => Mi!Init
  BY DEF OversightInit
<1>2. [OversightNext]_oversightVars /\ F => F' /\ [Mi!Next]_(Mi!vars)
  BY OnePartAtATime
<1>3. [OversightNext]_oversightVars /\ ~F => ~F'
  BY OnePartAtATime
<1>4. Mi!Init /\ [][Mi!Next]_(Mi!vars) => [](Mi!HoldsExplained /\ Mi!BundleTellsOutcome)
  BY OversightAssumption, MissionExplained DEF OversightAssumption
<1>5. F /\ Mi!HoldsExplained /\ Mi!BundleTellsOutcome => HoldsExplained
  BY DEF HoldsExplained
<1>6. ~F => HoldsExplained
  BY DEF HoldsExplained
<1> HIDE DEF F
<1>7. QED
  BY <1>1, <1>2, <1>3, <1>4, <1>5, <1>6, PTL DEF OversightSpec

\* No window of a rate rule admits more actions than its maximum, however the clock,
\* the pruning and the other rules interleave (governance/policy.ts).
THEOREM RatesAreKept == OversightSpec => []RateKept
<1> DEFINE F == focus = "gate"
<1>1. OversightInit /\ F => Gt!Init
  BY DEF OversightInit
<1>2. [OversightNext]_oversightVars /\ F => F' /\ [Gt!Next]_(Gt!vars)
  BY OnePartAtATime
<1>3. [OversightNext]_oversightVars /\ ~F => ~F'
  BY OnePartAtATime
<1>4. Gt!Spec => []Gt!RateKept
  BY OversightAssumption, RateLimited DEF OversightAssumption
<1>5. F /\ Gt!RateKept => RateKept
  BY DEF RateKept
<1>6. ~F => RateKept
  BY DEF RateKept
<1> HIDE DEF F
<1>7. QED
  BY <1>1, <1>2, <1>3, <1>4, <1>5, <1>6, PTL DEF OversightSpec, Gt!Spec

\* The typed view of the log is the replay of its chain, and a sealed bundle verifies
\* until it is touched (governance/action-ledger.ts, audit-chain.ts, anchor-sink.ts).
THEOREM ViewsAreReplays == OversightSpec => []ViewIsReplay
<1> DEFINE F == focus = "log"
<1>1. OversightInit /\ F => Lg!Init
  BY DEF OversightInit
<1>2. [OversightNext]_oversightVars /\ F => F' /\ [Lg!Next]_(Lg!vars)
  BY OnePartAtATime
<1>3. [OversightNext]_oversightVars /\ ~F => ~F'
  BY OnePartAtATime
<1>4. Lg!Spec => [](Lg!ViewIsReplay /\ Lg!BundlesVerify)
  BY LogReplays
<1>5. F /\ Lg!ViewIsReplay /\ Lg!BundlesVerify => ViewIsReplay
  BY DEF ViewIsReplay
<1>6. ~F => ViewIsReplay
  BY DEF ViewIsReplay
<1> HIDE DEF F
<1>7. QED
  BY <1>1, <1>2, <1>3, <1>4, <1>5, <1>6, PTL DEF OversightSpec, Lg!Spec

\* Whichever of its calls a behaviour of the shop makes, it charges a request once and
\* accounts for the money of its mandates (commerce.ts, approval-queue.ts).
THEOREM ShopKeepsAccounts == OversightSpec => [](RequestChargedOnce /\ MoneyAccounted)
<1>1. OversightInit => TypeOK /\ RequestInv /\ IsFiniteSet(placed) /\ OrderInv /\ SpendInv
  <2>1. OversightInit => \E asked \in SUBSET (Orders \cup Requests) : InitWith(asked)
    BY DEF OversightInit
  <2>2. QED
    BY <2>1, TypeInit, RequestInit, MoneyInit
<1>2. [OversightNext]_oversightVars => [Next]_vars
  BY OnePartAtATime
<1>3. TypeOK /\ RequestInv /\ [Next]_vars => RequestInv'
  BY RequestInvStep
<1>4. /\ TypeOK /\ TypeOK' /\ [Next]_vars
      /\ IsFiniteSet(placed) /\ OrderInv /\ SpendInv
      => IsFiniteSet(placed)' /\ OrderInv' /\ SpendInv'
  BY PlacedStep, OrderInvStep, SpendStep
<1>5. TypeOK /\ OrderInv /\ SpendInv => MoneyAccounted
  BY MoneyIs
<1>6. RequestInv => RequestChargedOnce
  BY DEF RequestInv, RequestChargedOnce
<1>7. QED
  BY <1>1, <1>2, <1>3, <1>4, <1>5, <1>6, TypeStep, PTL DEF OversightSpec
=============================================================================
