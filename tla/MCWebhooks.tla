----------------------------- MODULE MCWebhooks -----------------------------
(* Two subscriptions, one of them to a blocked host, and two pumps. *)
EXTENDS WebhookOutbox

CONSTANTS e1, s1, s2, p1, p2

OneEvent == {e1}
OneSub == {s1}
TwoSubs == {s1, s2}
TwoPumps == {p1, p2}
FirstToBoth == {<<e1, s1>>, <<e1, s2>>}
FirstToFirst == {<<e1, s1>>}
SecondBlocked == {s2}
NoneBlocked == {}
=============================================================================
