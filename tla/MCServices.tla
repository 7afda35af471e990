----------------------------- MODULE MCServices -----------------------------
(***************************************************************************)
(* A finite instance of the services, with the constants of MCServices.cfg *)
(* and the definitions below.                                              *)
(***************************************************************************)
EXTENDS Services, TLC

\* Two deals of one buyer that together exceed its token; holds and a mandate alike.
BuyerOf  == "d1" :> "a1" @@ "d2" :> "a1" @@ "d3" :> "a2"
SellerOf == "d1" :> "a2" @@ "d2" :> "a2" @@ "d3" :> "a1"
PriceOf  == "d1" :> 1 @@ "d2" :> 2 @@ "d3" :> 1
HoldOf   == "h1" :> 1 @@ "h2" :> 2 @@ "h3" :> 1

\* Bound: one adapter call under way or one background job of the memory service.
Quiet == Cardinality(wire) + Cardinality(work) + Cardinality(regen) + Cardinality(review) <= 1

\* Ids that nothing tells apart are taken in order.
MemoriesInOrder ==
    memory'["m1"].state = "new" /\ task'["m1"] = "none" => memory'["m2"].state = "new" /\ task'["m2"] = "none"
AccountsInOrder ==
    /\ challenge'["ch1"].state = "new" => challenge'["ch2"].state = "new"
    /\ session'["s1"].state = "new" => session'["s2"].state = "new"

MCNext ==
    /\ Next
    /\ focus = "memory" => Quiet' /\ MemoriesInOrder
    /\ focus = "accounts" => AccountsInOrder

MCSpec == Init /\ [][MCNext]_vars
=============================================================================
