---------------------------- MODULE AgentNetwork ----------------------------
(***************************************************************************)
(* Deals between registered agents (network.ts) under the capability tokens*)
(* of the identity registry (identity.ts).  transact() checks the buyer's  *)
(* token, awaits the charge and the settlement, counts the spend, and      *)
(* awaits two memories before it records the deal; tokens are revoked,     *)
(* expire and are purged meanwhile.  A deal's money appears by its outcome,*)
(* which AgentPayments models in detail.                                   *)
(***************************************************************************)
EXTENDS Integers, FiniteSetsExt

CONSTANTS
    Agents, Deals,
    Buyer, Seller, Amount,      \* of each deal
    MaxAmount, MaxTotalSpend    \* limits of the tokens issued

VARIABLES
    token,       \* token[a]: the capability token issued when a registered
    dealLocks,   \* buyers with a deal in progress
    deal,        \* deal[d]: where its transact() is, and its money
    recorded,    \* the deals array
    totalVolume

vars == <<token, dealLocks, deal, recorded, totalVolume>>

TokenState == [present : BOOLEAN, revoked : BOOLEAN, expired : BOOLEAN, spent : Nat]
DealState == [pc : {"idle", "charging", "settling", "buyer_memory", "seller_memory",
                    "done", "threw", "refunding"},
              money : {"none", "held", "settled", "refunded"}]

TypeOK ==
    /\ DOMAIN token \subseteq Agents /\ \A a \in DOMAIN token : token[a] \in TokenState
    /\ dealLocks \subseteq Agents
    /\ deal \in [Deals -> DealState]
    /\ recorded \subseteq Deals /\ totalVolume \in Nat

Init ==
    /\ token = <<>> /\ dealLocks = {} /\ recorded = {} /\ totalVolume = 0
    /\ deal = [d \in Deals |-> [pc |-> "idle", money |-> "none"]]

-----------------------------------------------------------------------------
(* register() and the tokens *)

Register(a) ==
    /\ a \notin DOMAIN token
    /\ token' = [b \in DOMAIN token \cup {a} |->
                   IF b = a THEN [present |-> TRUE, revoked |-> FALSE, expired |-> FALSE, spent |-> 0]
                   ELSE token[b]]
    /\ UNCHANGED <<dealLocks, deal, recorded, totalVolume>>

RevokeToken(a) ==
    /\ a \in DOMAIN token /\ token[a].present
    /\ token' = [token EXCEPT ![a].revoked = TRUE]
    /\ UNCHANGED <<dealLocks, deal, recorded, totalVolume>>

TokenExpires(a) ==
    /\ a \in DOMAIN token /\ ~token[a].expired
    /\ token' = [token EXCEPT ![a].expired = TRUE]
    /\ UNCHANGED <<dealLocks, deal, recorded, totalVolume>>

PurgeExpiredTokens ==
    /\ \E a \in DOMAIN token : token[a].present /\ (token[a].revoked \/ token[a].expired)
    /\ token' = [a \in DOMAIN token |->
                   [token[a] EXCEPT !.present = @ /\ ~token[a].revoked /\ ~token[a].expired]]
    /\ UNCHANGED <<dealLocks, deal, recorded, totalVolume>>

ValidateToken(a, amount) ==
    /\ token[a].present /\ ~token[a].revoked /\ ~token[a].expired
    /\ amount <= MaxAmount
    /\ token[a].spent + amount <= MaxTotalSpend

-----------------------------------------------------------------------------
(* transact() *)

Step(d, pc, money) == deal' = [deal EXCEPT ![d] = [pc |-> pc, money |-> money]]

\* finally: the lock is released, and the error goes to the caller.
Throw(d, money) == Step(d, "threw", money) /\ dealLocks' = dealLocks \ {Buyer[d]}

SlipNoLock(d) ==      \* the buyer's lock is taken but not looked at
    /\ deal[d].pc = "idle"
    /\ {Buyer[d], Seller[d]} \subseteq DOMAIN token
    /\ ValidateToken(Buyer[d], Amount[d])
    /\ dealLocks' = dealLocks \cup {Buyer[d]}
    /\ Step(d, "charging", "none")
    /\ UNCHANGED <<token, recorded, totalVolume>>

Transact(d) ==
    /\ deal[d].pc = "idle"
    /\ {Buyer[d], Seller[d]} \subseteq DOMAIN token /\ Buyer[d] # Seller[d]
    /\ Buyer[d] \notin dealLocks
    /\ ValidateToken(Buyer[d], Amount[d])
    /\ dealLocks' = dealLocks \cup {Buyer[d]}
    /\ Step(d, "charging", "none")
    /\ UNCHANGED <<token, recorded, totalVolume>>

Charged(d) ==
    /\ deal[d].pc = "charging"
    /\ Step(d, "settling", "held")
    /\ UNCHANGED <<token, dealLocks, recorded, totalVolume>>

\* The charge or a memory is refused; what was paid stays paid, and a deal whose
\* memory fails is never recorded.
Refused(d) ==
    /\ deal[d].pc \in {"charging", "buyer_memory", "seller_memory"}
    /\ Throw(d, deal[d].money)
    /\ UNCHANGED <<token, recorded, totalVolume>>

\* settle() throws: the charge stays pending.
SettleThrows(d) ==
    /\ deal[d].pc = "settling"
    /\ Throw(d, "held")
    /\ UNCHANGED <<token, recorded, totalVolume>>

\* The settlement is in; recordSpend() throws when the token was purged meanwhile.
Settled(d) ==
    /\ deal[d].pc = "settling"
    /\ IF token[Buyer[d]].present
       THEN /\ token' = [token EXCEPT ![Buyer[d]].spent = @ + Amount[d]]
            /\ Step(d, "buyer_memory", "settled")
            /\ UNCHANGED dealLocks
       ELSE Throw(d, "settled") /\ UNCHANGED token
    /\ UNCHANGED <<recorded, totalVolume>>

BuyerRemembers(d) ==
    /\ deal[d].pc = "buyer_memory"
    /\ Step(d, "seller_memory", deal[d].money)
    /\ UNCHANGED <<token, dealLocks, recorded, totalVolume>>

SellerRemembers(d) ==
    /\ deal[d].pc = "seller_memory"
    /\ Step(d, "done", deal[d].money)
    /\ dealLocks' = dealLocks \ {Buyer[d]}
    /\ recorded' = recorded \cup {d} /\ totalVolume' = totalVolume + Amount[d]
    /\ UNCHANGED token

-----------------------------------------------------------------------------
(* refundDeal(): the engine refunds a settled charge once *)

RefundDeal(d) ==
    /\ d \in recorded /\ deal[d].money = "settled"
    /\ Step(d, "refunding", "refunded")
    /\ UNCHANGED <<token, dealLocks, recorded, totalVolume>>

RefundRemembered(d) ==
    /\ deal[d].pc = "refunding"
    /\ Step(d, "done", "refunded")
    /\ UNCHANGED <<token, dealLocks, recorded, totalVolume>>

-----------------------------------------------------------------------------

Next ==
    \/ \E a \in Agents : Register(a) \/ RevokeToken(a) \/ TokenExpires(a)
    \/ PurgeExpiredTokens
    \/ \E d \in Deals : \/ Transact(d) \/ Charged(d) \/ Refused(d) \/ SettleThrows(d)
                        \/ Settled(d) \/ BuyerRemembers(d) \/ SellerRemembers(d)
                        \/ RefundDeal(d) \/ RefundRemembered(d)

Spec == Init /\ [][Next]_vars

-----------------------------------------------------------------------------
(* Properties *)

Paid(d) == deal[d].money \in {"settled", "refunded"}

\* What an agent pays over all its deals, those that threw after their settlement
\* included, stays within the total its token allows, however deals of several
\* buyers, revocations and purges interleave.
PaidWithinToken ==
    \A a \in Agents :
        SumFunctionOnSet(Amount, {d \in Deals : Buyer[d] = a /\ Paid(d)}) <= MaxTotalSpend

\* A buyer is locked exactly while one of its deals is in progress, so a failing
\* deal never locks its buyer out.
LockedWhileDealing ==
    \A a \in Agents :
        a \in dealLocks <=>
            \E d \in Deals : Buyer[d] = a /\
                deal[d].pc \in {"charging", "settling", "buyer_memory", "seller_memory"}
=============================================================================
