--------------------------- MODULE EscrowContract ---------------------------
(***************************************************************************)
(* What the agent's owner is promised about each charge: the money is held *)
(* in escrow, then either paid out or returned; what was paid may be       *)
(* contested and returned once; what was returned stays returned.  The     *)
(* engine may forget a closed transaction (src/src/index.ts keeps only the *)
(* newest ones), and then nothing happens to it any more.                  *)
(***************************************************************************)
CONSTANT Tx

VARIABLE phase

Phase == {"none", "escrow", "paid", "contested", "returned", "forgotten"}

TypeOK == phase \in [Tx -> Phase]

Init == phase = [t \in Tx |-> "none"]

\* The phases one step may take a transaction to.
Promised(p) ==
  CASE p = "none"      -> {"none", "escrow"}
    [] p = "escrow"    -> {"escrow", "paid", "returned"}
    [] p = "paid"      -> {"paid", "contested", "returned", "forgotten"}
    [] p = "contested" -> {"contested", "paid", "returned", "forgotten"}
    [] p = "returned"  -> {"returned", "forgotten"}
    [] OTHER           -> {"forgotten"}

\* One step closes a transaction and may forget an older one with it.
Next == phase' \in {f \in [Tx -> Phase] : \A t \in Tx : f[t] \in Promised(phase[t])}

Spec == Init /\ [][Next]_phase
=============================================================================
