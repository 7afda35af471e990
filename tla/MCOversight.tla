---------------------------- MODULE MCOversight ----------------------------
(***************************************************************************)
(* A finite instance of the parts that bound what agents may do.           *)
(***************************************************************************)
EXTENDS Oversight, TLC

CONSTANTS t1, t2, t3, x1, cheap, dear

\* Three tasks within the per-agent budget 2 or above it; any two that succeed
\* exceed the total of 2.
BudgetOf == t1 :> 1 @@ t2 :> 2 @@ t3 :> 3

\* What the agents of a mission of 2 may report as spent.
Spendable == 0..3

\* A cheap order below the approval threshold and a dear one at it, which together
\* exceed the budget.
OrderSet     == {cheap, dear}
PriceOf      == cheap :> 1 @@ dear :> 2
SomeMandates == {[budget |-> 2, threshold |-> 2, allows |-> OrderSet]}

Pay(usd)    == [kind |-> "payment", target |-> "shop", arg |-> "plain", locale |-> "US", usd |-> usd]
SomeActions == {Pay(1), Pay(2), Pay(BadUsd), [Pay(1) EXCEPT !.arg = "rm"],
                [Pay(0) EXCEPT !.target = "upload_id"], [Pay(1) EXCEPT !.locale = "DE"]}
Rule        == [id |-> "", kinds |-> {}, targets |-> {}, blockArgs |-> {}, blockLocales |-> {},
                onlyLocales |-> {}, cap |-> -1, threshold |-> -1, window |-> 0, max |-> -1,
                outright |-> FALSE]
Limits      == [Rule EXCEPT !.id = "rate", !.window = 1, !.max = 2]
Screens     == [Rule EXCEPT !.id = "screen", !.blockArgs = {"rm"}, !.onlyLocales = {"US"},
                            !.max = 1, !.targets = {"shop"}]
Wrong       == [Rule EXCEPT !.id = "wrong", !.cap = 1, !.threshold = 1]
RiskPolicy  == << [Rule EXCEPT !.id = "block", !.targets = {"upload_id"}, !.outright = TRUE],
                  [Rule EXCEPT !.id = "cap", !.kinds = {"payment"}, !.cap = 2],
                  [Rule EXCEPT !.id = "approval", !.kinds = {"payment"}, !.threshold = 1] >>
SomePolicies == {<<Limits>> \o RiskPolicy, <<Screens, Limits>>, <<Wrong>>, <<Limits, Limits>>}
=============================================================================
