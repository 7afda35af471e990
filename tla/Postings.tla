------------------------------ MODULE Postings ------------------------------
(***************************************************************************)
(* The double-entry postings of src/src/ledger.ts as pure operators on a   *)
(* table of balances.  A table maps each account of one agent to           *)
(* SUM(credits) - SUM(debits); the account names are the prefixes of the   *)
(* ledger's keys ("agent:<id>", "escrow:<id>", "platform:float",           *)
(* "platform:revenue", "counterparty:<id>"), one currency.                 *)
(***************************************************************************)
EXTENDS Integers

Account == {"agent", "escrow", "float", "revenue", "counterparty"}

NoPostings == [a \in Account |-> 0]

\* transfer(): one debit and the equal credit.
Move(b, from, to, amount) ==
  [a \in Account |-> b[a] + (IF a = to THEN amount ELSE 0)
                          - (IF a = from THEN amount ELSE 0)]

\* The payout account of a settlement: the counterparty if one was named.
Payee(hasCounterparty) == IF hasCounterparty THEN "counterparty" ELSE "agent"

RecordCharge(b, amount) == Move(b, "agent", "escrow", amount)

\* Two or three legs, applied together: escrow -> float (gross),
\* float -> revenue (only a positive fee), float -> payee (net).
RecordSettlement(b, gross, fee, net, payee) ==
  LET released == Move(b, "escrow", "float", gross)
      charged  == IF fee > 0 THEN Move(released, "float", "revenue", fee)
                             ELSE released
  IN  Move(charged, "float", payee, net)

\* The net payout is taken back: from the counterparty to the agent, or
\* from the agent to the platform when the payout went to the agent.
RecordRefund(b, net, payee) ==
  IF payee = "counterparty" THEN Move(b, "counterparty", "agent", net)
                            ELSE Move(b, "agent", "float", net)

RecordCancellation(b, amount) == Move(b, "escrow", "agent", amount)

RecordFunding(b, amount) == Move(b, "float", "agent", amount)

\* Credits minus debits over the whole table.
Imbalance(b) ==
  b["agent"] + b["escrow"] + b["float"] + b["revenue"] + b["counterparty"]
=============================================================================
