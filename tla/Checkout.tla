----------------------------- MODULE Checkout -----------------------------
(***************************************************************************)
(* The checkout executor and its strategies (commerce/checkout): a script  *)
(* of page operations in a browser, raced against a timeout, whose result  *)
(* decides whether the agent's hold stays.  A page is what each look-up    *)
(* finds on it; the merchant may take the order once its button is         *)
(* clicked, or decline it.                                                 *)
(***************************************************************************)
EXTENDS Integers, Sequences

CONSTANTS Checkouts, Fields      \* form fields a page may show, of which the generic strategy wants 3

VARIABLES
    checkout,   \* per call: [strategy, pc, filled, clicked, screen, result, timer]
    browser,    \* "none", "open", "closed"
    placed      \* calls whose order the merchant took

vars == <<checkout, browser, placed>>

\* Steps a strategy cannot do without end it when they fail; of the others it tries each selector and goes on.
Needed  == {"navigated", "added_to_cart", "at_checkout", "payment_filled", "submitted"}
Shopify == <<"navigated", "added_to_cart", "at_checkout", "contact_filled", "shipping_filled", "shipping_method",
             "at_payment", "payment_filled", "order_submitted", "confirmed">>
Generic == <<"navigated", "added_to_cart", "at_checkout", "filled", "submitted", "confirmed">>
Script(strategy) == IF strategy = "shopify" THEN Shopify ELSE Generic

TypeOK ==
    /\ checkout \in [Checkouts -> [strategy : {"none", "shopify", "generic"}, pc : 0..(Len(Shopify) + 1), filled : Fields,
            clicked : BOOLEAN, screen : {"page", "thanks"}, result : {"none", "success", "failure"}, timer : BOOLEAN]]
    /\ browser \in [Checkouts -> {"none", "open", "closed"}] /\ placed \subseteq Checkouts

Init ==
    /\ checkout = [c \in Checkouts |-> [strategy |-> "none", pc |-> 0, filled |-> 0, clicked |-> FALSE,
                                        screen |-> "page", result |-> "none", timer |-> FALSE]]
    /\ browser = [c \in Checkouts |-> "none"] /\ placed = {}

-----------------------------------------------------------------------------
(* The executor *)

\* A bad URL, no playwright or a browser that does not start: nothing was done.
Rejected(c) ==
    /\ checkout[c].pc = 0 /\ checkout[c].result = "none"
    /\ checkout' = [checkout EXCEPT ![c].result = "failure"]
    /\ UNCHANGED <<browser, placed>>

\* The first strategy that can handle the URL; the generic one handles any.
Launched(c) ==
    /\ checkout[c].pc = 0 /\ checkout[c].result = "none"
    /\ \E strategy \in {"shopify", "generic"} :
        checkout' = [checkout EXCEPT ![c].strategy = strategy, ![c].pc = 1, ![c].timer = TRUE]
    /\ browser' = [browser EXCEPT ![c] = "open"]
    /\ UNCHANGED placed

Running(c) == browser[c] = "open" /\ checkout[c].result = "none"

Finish(c, result) == checkout' = [checkout EXCEPT ![c].result = result]

\* The race is lost to the timer, of three page timeouts; what the page did stays done.
TimedOut(c) ==
    /\ Running(c) /\ checkout[c].timer /\ Finish(c, "failure")
    /\ UNCHANGED <<browser, placed>>

Settled(c) == checkout[c].result # "none"

Close(c) ==
    /\ browser[c] = "open" /\ Settled(c)
    /\ browser' = [browser EXCEPT ![c] = "closed"]
    /\ UNCHANGED <<checkout, placed>>

-----------------------------------------------------------------------------
(* The strategies *)

StepOf(c) == Script(checkout[c].strategy)[checkout[c].pc]
AtStep(c, step) == Running(c) /\ checkout[c].pc <= Len(Script(checkout[c].strategy)) /\ StepOf(c) = step
Past(k) == [k EXCEPT !.pc = @ + 1]

\* Found and done, or not needed: a page that already shows the cart has nothing to add.
Did(c) ==
    /\ \E step \in {"navigated", "added_to_cart", "at_checkout", "contact_filled", "shipping_filled",
                    "shipping_method", "at_payment", "payment_filled"} : AtStep(c, step)
    /\ checkout' = [checkout EXCEPT ![c] = Past(@)]
    /\ UNCHANGED <<browser, placed>>

\* A needed element is not there, or a page operation throws.
Fails(c) ==
    /\ \/ \E step \in Needed : AtStep(c, step)
       \/ Running(c) /\ checkout[c].pc > 1                 \* waitForTimeout, url, a closed page
    /\ Finish(c, "failure")
    /\ UNCHANGED <<browser, placed>>

FillCheckoutForm(c) ==
    /\ AtStep(c, "filled")
    /\ \E n \in Fields : checkout' = [checkout EXCEPT ![c] =
            IF n < 3 THEN [@ EXCEPT !.filled = n, !.result = "failure"] ELSE Past([@ EXCEPT !.filled = n])]
    /\ UNCHANGED <<browser, placed>>

\* The click on the order's button: the merchant takes the order, or shows an error.
Click(c) ==
    \E taken \in BOOLEAN :
        /\ placed' = IF taken THEN placed \cup {c} ELSE placed
        /\ checkout' = [checkout EXCEPT ![c] = Past([@ EXCEPT !.clicked = TRUE, !.screen = IF taken THEN "thanks" ELSE "page"])]

ClickIfFound(c) == Click(c) \/ (checkout' = [checkout EXCEPT ![c] = Past(@)] /\ UNCHANGED placed)

\* Shopify's completeOrder() goes on when no button was found.
CompleteOrder(c) ==
    /\ AtStep(c, "order_submitted")
    /\ ClickIfFound(c)
    /\ UNCHANGED browser

Submits(c) == Click(c)

SubmitOrder(c) == AtStep(c, "submitted") /\ Submits(c) /\ UNCHANGED browser

\* Shopify's strategy reports success whatever the page says; the generic one looks for words of thanks,
\* which a page that shows no error may contain without an order ("your order").
Confirmation(c) ==
    IF checkout[c].strategy = "shopify" \/ checkout[c].screen = "thanks" THEN {"success"} ELSE {"success", "failure"}

Confirm(c) ==
    /\ AtStep(c, "confirmed")
    /\ \E result \in Confirmation(c) : checkout' = [checkout EXCEPT ![c] = Past([@ EXCEPT !.result = result])]
    /\ UNCHANGED <<browser, placed>>

Next ==
    \E c \in Checkouts :
        \/ Rejected(c) \/ Launched(c) \/ TimedOut(c) \/ Close(c) \/ Did(c) \/ Fails(c) \/ FillCheckoutForm(c)
        \/ CompleteOrder(c) \/ SubmitOrder(c) \/ Confirm(c)

Spec == Init /\ [][Next]_vars

-----------------------------------------------------------------------------
(* The generic strategy never reports an order whose button it did not      *)
(* click and whose form it did not fill ("Could not find submit/place order *)
(* button"), so its hold is not kept for an order nobody placed.  Shopify's *)
(* strategy gives no such promise: completeOrder() may find no button.      *)
SuccessWasSubmitted ==
    \A c \in Checkouts :
        checkout[c].strategy = "generic" /\ checkout[c].result = "success" => checkout[c].clicked /\ checkout[c].filled >= 3
=============================================================================
