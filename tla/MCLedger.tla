------------------------------ MODULE MCLedger ------------------------------
(* The ledger with a hold and its release, one cent, at most three transfers. *)
EXTENDS Ledger

HoldAndRelease == {<<"agent", "escrow">>, <<"escrow", "agent">>}
OneCent == {1}
KeepOneOrThree == {1, 3}
=============================================================================
