------------------------------- MODULE Rails -------------------------------
(***************************************************************************)
(* The payment rails as the engine calls them: createHold(),               *)
(* capturePayment() and reversePayment() of any number of callers, against *)
(* a provider that may carry out a request and lose the answer.  The rails *)
(* are Stripe and Lightning (rails/index.ts), Stripe's machine payments    *)
(* (stripe-mpp.ts), Paystack (paystack.ts), the USDC authorizations of     *)
(* x402.ts and the mandates of google-ap2.ts.  runRailCapture()            *)
(* (capture-error.ts) only rewraps what they throw.                        *)
(***************************************************************************)
EXTENDS Integers, FiniteSetsExt

CONSTANTS
    Holds, Amount,                   \* payments, and what each is for
    MaxPerTransaction, MaxAggregate, \* limits of the AP2 mandate
    Callers                          \* callers of capturePayment

VARIABLES
    rail,
    hold,        \* hold[h]: what the rail instance knows of it
    provider,    \* provider[h]: [state, captures], the provider's books
    minted,      \* aggregateMinted
    call,        \* call[c]: the hold it captures, or None
    tidy         \* history: no createHold overlapped another, no reverse a capture

vars == <<rail, hold, provider, minted, call, tidy>>

None == "none"
RailNames == {"stripe", "mpp", "paystack", "lightning", "x402", "ap2"}

TypeOK ==
    /\ rail \in RailNames
    /\ hold \in [Holds -> {"none", "signing", "held", "captured", "gone"}]
    /\ provider \in [Holds -> [state : {"none", "invoiced", "authorized", "captured",
                                        "cancelled", "refunded"},
                               captures : Nat]]
    /\ minted \in Nat
    /\ call \in [Callers -> Holds \cup {None}] /\ tidy \in BOOLEAN

InitWith(r) ==
    /\ rail = r
    /\ hold = [h \in Holds |-> "none"]
    /\ provider = [h \in Holds |-> [state |-> "none", captures |-> 0]]
    /\ minted = 0 /\ call = [c \in Callers |-> None] /\ tidy = TRUE

Init == \E r \in RailNames : InitWith(r)

-----------------------------------------------------------------------------
(* createHold() *)

\* The mandate's pre-flight checks, made before the signer is awaited.
WithinMandate(h) ==
    /\ Amount[h] <= MaxPerTransaction
    /\ minted + Amount[h] <= MaxAggregate

CreateHold(h) ==
    /\ hold[h] = "none" /\ (rail = "ap2" => WithinMandate(h))
    /\ hold' = [hold EXCEPT ![h] = "signing"]
    /\ tidy' = (tidy /\ \A g \in Holds : hold[g] # "signing")
    /\ UNCHANGED <<rail, provider, minted, call>>

\* A rail keeps nothing of a hold whose request failed, carried out or not.
HoldFails(h) ==
    /\ hold[h] = "signing"
    /\ hold' = [hold EXCEPT ![h] = "gone"]
    /\ UNCHANGED <<rail, provider, minted, call, tidy>>

Held(h, state) ==
    /\ hold[h] = "signing"
    /\ hold' = [hold EXCEPT ![h] = "held"]
    /\ provider' = [provider EXCEPT ![h] =
                       [state |-> state, captures |-> IF state = "captured" THEN 1 ELSE 0]]
    /\ UNCHANGED <<rail, call, tidy>>

StripeHeld(h) == rail = "stripe" /\ Held(h, "authorized") /\ UNCHANGED minted

StripeMppHeld(h) == rail = "mpp" /\ Held(h, "authorized") /\ UNCHANGED minted

\* A saved card is charged at once; otherwise a checkout page awaits the payer.
PaystackHeld(h) ==
    /\ rail = "paystack"
    /\ Held(h, "captured") \/ Held(h, "invoiced")
    /\ UNCHANGED minted

LightningHeld(h) == rail = "lightning" /\ Held(h, "invoiced") /\ UNCHANGED minted

X402Held(h) == rail = "x402" /\ Held(h, "none") /\ UNCHANGED minted

AP2Held(h) == rail = "ap2" /\ Held(h, "none") /\ minted' = minted + Amount[h]

\* The customer pays the invoice or the checkout page.
PayerPays(h) ==
    /\ provider[h].state = "invoiced"
    /\ provider' = [provider EXCEPT ![h] = [state |-> "captured", captures |-> @.captures + 1]]
    /\ UNCHANGED <<rail, hold, minted, call, tidy>>

-----------------------------------------------------------------------------
(* capturePayment() *)

Waiters(h) == {c \in Callers : call[c] = h}

\* Concurrent captures of a hold share one request where the rail keeps a map of
\* the requests in flight; elsewhere each caller has its own.
Shares == rail \in {"stripe", "mpp", "paystack"}

Requests(h) ==
    IF Shares THEN {Waiters(h)} \ {{}} ELSE {{c} : c \in Waiters(h)}

\* x402 only notes the capture, the transfer itself is broadcast elsewhere; an AP2
\* hold that is already captured answers at once.
Capture(c, h) ==
    /\ call[c] = None /\ hold[h] = "held" /\ rail # "x402"
    /\ call' = [call EXCEPT ![c] = h]
    /\ UNCHANGED <<rail, hold, provider, minted, tidy>>

NoteCapture(h) ==
    /\ rail = "x402" /\ hold[h] = "held"
    /\ hold' = [hold EXCEPT ![h] = "captured"]
    /\ UNCHANGED <<rail, provider, minted, call, tidy>>

SlipNoIdempotencyKey(h) ==      \* the provider sees every retry as a new capture
    IF rail \in {"stripe", "mpp"} /\ provider[h].state \in {"authorized", "captured"}
    THEN [state |-> "captured", captures |-> provider[h].captures + 1] ELSE provider[h]

\* What the provider's books say after a request: Stripe honours the key cap_<id>
\* and takes an authorization once, an AP2 endpoint settles an intent once, and
\* the requests of the other rails only look the payment up.
AtProvider(h) ==
    IF provider[h].state = "authorized" \/ (rail = "ap2" /\ provider[h].state = "none")
    THEN [state |-> "captured", captures |-> 1] ELSE provider[h]

Answer(cs) == call' = [c \in Callers |-> IF c \in cs THEN None ELSE call[c]]

SlipForgetsHold(h, cs) ==       \* a captured amount is free again
    /\ cs \in Requests(h)
    /\ Answer(cs)
    /\ provider' = [provider EXCEPT ![h] = AtProvider(h)]
    /\ hold' = [hold EXCEPT ![h] = IF rail = "ap2" THEN "captured" ELSE @]
    /\ minted' = IF rail = "ap2" /\ hold[h] = "held" THEN minted - Amount[h] ELSE minted
    /\ UNCHANGED <<rail, tidy>>

\* The answer reaches everybody who shares the request.
Captured(h, cs) ==
    /\ cs \in Requests(h)
    /\ Answer(cs)
    /\ provider' = [provider EXCEPT ![h] = AtProvider(h)]
    /\ hold' = [hold EXCEPT ![h] = IF rail = "ap2" THEN "captured" ELSE @]
    /\ UNCHANGED <<rail, minted, tidy>>

\* The request fails, or was carried out and its answer lost; it may be retried.
CaptureFails(h, cs, carriedOut) ==
    /\ cs \in Requests(h)
    /\ Answer(cs)
    /\ provider' = IF carriedOut THEN [provider EXCEPT ![h] = AtProvider(h)] ELSE provider
    /\ UNCHANGED <<rail, hold, minted, tidy>>

-----------------------------------------------------------------------------
(* reversePayment() *)

Undo(h, from, to) ==
    /\ hold[h] = "held" /\ provider[h].state = from
    /\ provider' = [provider EXCEPT ![h].state = to]
    /\ UNCHANGED <<rail, hold, minted, call, tidy>>

StripeReverse(h)    == rail = "stripe" /\ Undo(h, "authorized", "cancelled")
StripeMppReverse(h) == rail = "mpp" /\ Undo(h, "authorized", "cancelled")
PaystackReverse(h)  == rail = "paystack" /\ Undo(h, "captured", "refunded")

\* An uncaptured hold gives its amount back to the mandate and is forgotten; a
\* captured one answers "irreversible", as x402 does.  Lightning and x402 change
\* nothing: an unpaid invoice or authorization is left to expire.
AP2Reverse(h) ==
    /\ rail = "ap2" /\ hold[h] = "held"
    /\ hold' = [hold EXCEPT ![h] = "gone"]
    /\ minted' = minted - Amount[h]
    /\ tidy' = (tidy /\ Waiters(h) = {} /\ provider[h].state = "none")
    /\ UNCHANGED <<rail, provider, call>>

-----------------------------------------------------------------------------

Next ==
    \/ \E h \in Holds :
         \/ CreateHold(h) \/ HoldFails(h) \/ PayerPays(h) \/ NoteCapture(h)
         \/ StripeHeld(h) \/ StripeMppHeld(h) \/ PaystackHeld(h) \/ LightningHeld(h)
         \/ X402Held(h) \/ AP2Held(h)
         \/ StripeReverse(h) \/ StripeMppReverse(h) \/ PaystackReverse(h) \/ AP2Reverse(h)
    \/ \E h \in Holds, c \in Callers : Capture(c, h)
    \/ \E h \in Holds, cs \in SUBSET Callers :
         Captured(h, cs) \/ \E yes \in BOOLEAN : CaptureFails(h, cs, yes)

Spec == Init /\ [][Next]_vars

-----------------------------------------------------------------------------
(* Properties *)

\* However captures overlap, time out after they were carried out and are retried,
\* a provider takes the money of a hold at most once.
CapturedOnce == \A h \in Holds : provider[h].captures <= 1

\* While no createHold() overlaps another and no reversal a capture, what is held
\* or captured under an AP2 mandate is exactly what the rail counts, and within
\* the mandate's aggregate.
MandateKept ==
    rail = "ap2" /\ tidy =>
        LET sum == SumFunctionOnSet(Amount, {h \in Holds : hold[h] \in {"held", "captured"}})
        IN  sum = minted /\ sum <= MaxAggregate
=============================================================================
