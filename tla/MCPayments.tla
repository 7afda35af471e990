----------------------------- MODULE MCPayments -----------------------------
(* Finite instances of the payment engine. *)
EXTENDS AgentPayments

CONSTANTS t1, t2, o1, o2

OneTx == {t1}
TwoTx == {t1, t2}
OneObj == {o1}
TwoObj == {o1, o2}

TwoCents == {2}
FreeOrOneCent == {0, 1}
OneCent == {1}

BothOutcomes == {"refund", "uphold"}

Symmetric == Permutations(TwoTx)
=============================================================================
