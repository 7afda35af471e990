------------------------- MODULE PaymentTurnsProofs -------------------------
(***************************************************************************)
(* When the calls on one transaction take turns (a caller awaits one       *)
(* before it makes the next), for any number of transactions, any sizes of *)
(* the map and the ring buffer and any amounts and fees: the ledger's      *)
(* escrow is what is pending, the wallet holds no more than recorded       *)
(* payouts, and the engine implements the escrow contract.                 *)
(*                                                                         *)
(* Own(t) is what each transaction t keeps: whose turn it is, where its    *)
(* one record is, what the ledger holds in escrow for it and what its      *)
(* payouts credit.  A step concerns one transaction (Apart) and moves the  *)
(* wallet by no more than that transaction's credit (Paid).                *)
(***************************************************************************)
EXTENDS AgentPaymentsProofs, Sums

\* The entries of a ring buffer, and that no two are of one transaction.
Held(b) == {b[i] : i \in DOMAIN b}

Distinct(b) == \A i, j \in DOMAIN b : b[i].id = b[j].id => i = j

Entry(t, r) == [id |-> t, rec |-> r]

Closed == {"completed", "refunded", "expired", "disputed"}

\* At most one call on t is in progress; it works on the live object of t.
Turn(t) ==
  /\ settling[t].pc # "idle" =>
       /\ refunding[t].pc = "idle" /\ sweep.tx # t
       /\ InMap(t) /\ settling[t].obj = transactions[t]
       /\ Live(t).status = IF settling[t].pc = "applied" THEN "completed" ELSE "pending"
  /\ refunding[t].pc # "idle" =>
       /\ sweep.tx # t
       /\ InMap(t) /\ refunding[t].obj = transactions[t] /\ Refundable(Live(t))
  /\ sweep.tx = t =>
       /\ sweep.pc # "idle"
       /\ InMap(t) /\ sweep.obj = transactions[t] /\ Live(t).status = "pending"

\* The record of t is in the map or in the buffer, and says something.
OneRecord(t) ==
  /\ InMap(t) => hold[t] = "done" /\ Live(t).status # "none"
  /\ \A e \in Held(recentTxBuffer) :
       e.id = t => hold[t] = "done" /\ ~InMap(t) /\ e.rec.status \in Closed

\* Whatever the record of t reads, the status of a caller's answer says.
Escrowed(t) ==
  /\ hold[t] # "done" => post[t] = NoPostings
  /\ ~lockBroken => post[t]["escrow"] =
       IF Payable(t) /\ settling[t].pc # "locking" THEN amt[t] ELSE 0

\* The payouts of t that reached the wallet and were not taken back.
Credit(t) ==
  NetHeld(t) - IF settling[t].pc = "locking" THEN heap[t][settling[t].obj].net ELSE 0

\* A record that a refund would pay back is covered by its credit.
Covered(r, credit) == r.status \in {"completed", "disputed"} => r.net <= credit

Backed(t) ==
  /\ Credit(t) >= 0
  /\ InMap(t) => Covered(Live(t), Credit(t))
  /\ \A e \in Held(recentTxBuffer) : e.id = t => Covered(e.rec, Credit(t))

Own(t) == Turn(t) /\ OneRecord(t) /\ Escrowed(t) /\ Backed(t)

OwnInv == Distinct(recentTxBuffer) /\ \A t \in Tx : Own(t)

\* The wallet holds no more than the credits.
WalletInv == ~Reconciles => wallet <= SumFunctionOnSet([t \in Tx |-> Credit(t)], Tx)
-----------------------------------------------------------------------------
\* push() and shift() keep one entry per transaction, the new one among them.
LEMMA RememberHeld ==
  ASSUME NEW b \in Seq(Buffered), Distinct(b), NEW t \in Tx, NEW r \in Record,
         \A e \in Held(b) : e.id # t
  PROVE  /\ Distinct(Remember(b, t, r))
         /\ Entry(t, r) \in Held(Remember(b, t, r))
         /\ \A e \in Held(Remember(b, t, r)) : e \in Held(b) \/ e = Entry(t, r)
<1> DEFINE n == Len(b)
           pushed == Append(b, Entry(t, r))
<1>1. Entry(t, r) \in Buffered /\ n \in Nat /\ DOMAIN b = 1 .. n
  BY DEF Entry, Buffered
<1>2. /\ pushed \in Seq(Buffered) /\ Len(pushed) = n + 1 /\ DOMAIN pushed = 1 .. n + 1
      /\ \A i \in 1 .. n : pushed[i] = b[i]
      /\ pushed[n + 1] = Entry(t, r)
  BY <1>1
<1>3. Entry(t, r).id = t /\ \A i \in 1 .. n : b[i].id # t
  BY <1>1 DEF Held, Entry
<1> HIDE DEF pushed, n
<1>4. Distinct(pushed)
  <2>1. ASSUME NEW i \in 1 .. n + 1, NEW j \in 1 .. n + 1, pushed[i].id = pushed[j].id
        PROVE  i = j
    <3>1. \A k \in 1 .. n + 1 : k \in 1 .. n \/ k = n + 1
      BY <1>1
    <3> QED BY <2>1, <3>1, <1>1, <1>2, <1>3 DEF Distinct
  <2> QED BY <2>1, <1>2 DEF Distinct
<1>5. \A e \in Held(pushed) : e \in Held(b) \/ e = Entry(t, r)
  <2>1. \A k \in 1 .. n + 1 : k \in 1 .. n \/ k = n + 1
    BY <1>1
  <2> QED BY <2>1, <1>1, <1>2 DEF Held
<1>6. CASE Len(pushed) > TxHistoryBuffer
  <2> DEFINE kept == Tail(pushed)
  <2>1. n >= 1
    BY <1>6, <1>2, <1>1, PaymentsAssumption
  <2>2. DOMAIN kept = 1 .. n /\ \A i \in 1 .. n : kept[i] = pushed[i + 1] /\ i + 1 \in 1 .. n + 1
    BY <1>1, <1>2
  <2> HIDE DEF kept
  <2>3. Distinct(kept)
    <3>1. ASSUME NEW i \in 1 .. n, NEW j \in 1 .. n, kept[i].id = kept[j].id
          PROVE  i = j
      <4>1. i + 1 = j + 1
        BY <3>1, <2>2, <1>2, <1>4 DEF Distinct
      <4> QED BY <4>1
    <3> QED BY <3>1, <2>2 DEF Distinct
  <2>4. \A e \in Held(kept) : e \in Held(pushed)
    BY <2>2, <1>2 DEF Held
  <2>5. Entry(t, r) \in Held(kept)
    BY <2>1, <2>2, <1>1, <1>2 DEF Held
  <2>6. Remember(b, t, r) = kept
    BY <1>6 DEF Remember, kept, pushed, Entry
  <2> QED BY <2>3, <2>4, <2>5, <2>6, <1>5
<1>7. CASE ~(Len(pushed) > TxHistoryBuffer)
  <2>1. Remember(b, t, r) = pushed
    BY <1>7 DEF Remember, pushed, Entry
  <2>2. Entry(t, r) \in Held(pushed)
    BY <1>1, <1>2 DEF Held
  <2> QED BY <2>1, <2>2, <1>4, <1>5
<1> QED BY <1>6, <1>7

\* splice() leaves every other entry where no two are of one transaction.
LEMMA RemoveHeld ==
  ASSUME NEW b \in Seq(Buffered), Distinct(b), NEW i \in DOMAIN b
  PROVE  /\ Distinct(RemoveAt(b, i))
         /\ \A e \in Held(RemoveAt(b, i)) : e \in Held(b) /\ e.id # b[i].id
<1> DEFINE n == Len(b)
           rest == RemoveAt(b, i)
           Back(j) == IF j < i THEN j ELSE j + 1
<1>1. n \in Nat /\ DOMAIN b = 1 .. n /\ i \in 1 .. n
  OBVIOUS
<1>2. /\ DOMAIN rest = 1 .. n - 1
      /\ \A j \in 1 .. n - 1 : rest[j] = b[Back(j)]
  <2> DEFINE front == SubSeq(b, 1, i - 1)
             back  == SubSeq(b, i + 1, n)
  <2>1. /\ front \in Seq(Buffered) /\ Len(front) = i - 1
        /\ \A j \in 1 .. i - 1 : front[j] = b[j]
    BY <1>1
  <2>2. /\ back \in Seq(Buffered) /\ Len(back) = n - i
        /\ \A j \in 1 .. n - i : back[j] = b[i + j]
    BY <1>1
  <2>3. rest = front \o back
    BY DEF RemoveAt
  <2> HIDE DEF front, back, rest, n
  <2>4. DOMAIN rest = 1 .. n - 1
    BY <1>1, <2>1, <2>2, <2>3
  <2>5. ASSUME NEW j \in 1 .. n - 1 PROVE rest[j] = b[Back(j)]
    <3>1. rest[j] = IF j <= i - 1 THEN front[j] ELSE back[j - (i - 1)]
      BY <1>1, <2>1, <2>2, <2>3
    <3>2. CASE j <= i - 1
      BY <3>1, <3>2, <1>1, <2>1
    <3>3. CASE ~(j <= i - 1)
      <4>1. j - (i - 1) \in 1 .. n - i /\ i + (j - (i - 1)) = j + 1 /\ ~(j < i)
        BY <3>3, <1>1
      <4>2. back[j - (i - 1)] = b[j + 1]
        BY <4>1, <2>2
      <4> QED BY <3>1, <3>3, <4>1, <4>2
    <3> QED BY <3>2, <3>3
  <2> QED BY <2>4, <2>5
<1>3. \A j \in 1 .. n - 1 : Back(j) \in 1 .. n /\ Back(j) # i
  BY <1>1
<1>4. \A j, k \in 1 .. n - 1 : Back(j) = Back(k) => j = k
  BY <1>1
<1> HIDE DEF rest, n, Back
<1>5. Distinct(rest)
  BY <1>1, <1>2, <1>3, <1>4 DEF Distinct
<1>6. \A e \in Held(rest) : e \in Held(b) /\ e.id # b[i].id
  BY <1>1, <1>2, <1>3 DEF Held, Distinct
<1> QED BY <1>5, <1>6 DEF rest

\* An entry whose record changes stays the one entry of its transaction.
LEMMA ReplaceHeld ==
  ASSUME NEW b \in Seq(Buffered), Distinct(b), NEW i \in DOMAIN b, NEW r, NEW t,
         b[i].id = t
  PROVE  /\ Distinct([b EXCEPT ![i] = Entry(t, r)])
         /\ Entry(t, r) \in Held([b EXCEPT ![i] = Entry(t, r)])
         /\ \A e \in Held([b EXCEPT ![i] = Entry(t, r)]) :
              e = Entry(t, r) \/ (e \in Held(b) /\ e.id # t)
<1> DEFINE c == [b EXCEPT ![i] = Entry(t, r)]
<1>1. /\ DOMAIN c = DOMAIN b /\ c[i] = Entry(t, r)
      /\ \A j \in DOMAIN b : j # i => c[j] = b[j]
  OBVIOUS
<1>2. Entry(t, r).id = t
  BY DEF Entry
<1> HIDE DEF c
<1>3. \A j \in DOMAIN b : c[j].id = b[j].id
  BY <1>1, <1>2
<1>4. Distinct(c) /\ Entry(t, r) \in Held(c)
  BY <1>1, <1>3 DEF Distinct, Held
<1>5. \A e \in Held(c) : e = Entry(t, r) \/ (e \in Held(b) /\ e.id # t)
  BY <1>1, <1>2 DEF Held, Distinct
<1> QED BY <1>4, <1>5 DEF c

\* What a caller is told of t is what its one record reads.
StatusRule ==
  Distinct(recentTxBuffer) /\ recentTxBuffer \in Seq(Buffered) => \A t \in Tx :
    /\ InMap(t) => StatusOf(t) = Live(t).status
    /\ ~InMap(t) => \A e \in Held(recentTxBuffer) : e.id = t => StatusOf(t) = e.rec.status
    /\ ~InMap(t) /\ (\A e \in Held(recentTxBuffer) : e.id # t) => StatusOf(t) = "none"

\* The record that answers is the only one.
LEMMA StatusIs == StatusRule
<1> SUFFICES ASSUME Distinct(recentTxBuffer), recentTxBuffer \in Seq(Buffered), NEW t \in Tx
             PROVE  /\ InMap(t) => StatusOf(t) = Live(t).status
                    /\ ~InMap(t) => \A e \in Held(recentTxBuffer) :
                                      e.id = t => StatusOf(t) = e.rec.status
                    /\ ~InMap(t) /\ (\A e \in Held(recentTxBuffer) : e.id # t)
                         => StatusOf(t) = "none"
  BY DEF StatusRule
<1>1. InMap(t) => StatusOf(t) = Live(t).status
  BY DEF StatusOf
<1>2. ASSUME ~InMap(t), NEW i \in DOMAIN recentTxBuffer, recentTxBuffer[i].id = t
      PROVE  StatusOf(t) = recentTxBuffer[i].rec.status
  <2>1. \A j \in DOMAIN recentTxBuffer : Finds(t, j) => j = i
    BY <1>2 DEF Finds, Distinct
  <2>2. Finds(t, i)
    <3>1. \A j \in 1 .. i - 1 : j \in DOMAIN recentTxBuffer /\ j # i
      OBVIOUS
    <3> QED BY <3>1, <1>2 DEF Finds, Distinct
  <2>3. (CHOOSE j \in DOMAIN recentTxBuffer : Finds(t, j)) = i
    BY <2>1, <2>2
  <2> QED BY <1>2, <2>2, <2>3 DEF StatusOf, Found
<1>3. ASSUME ~InMap(t), \A e \in Held(recentTxBuffer) : e.id # t
      PROVE  StatusOf(t) = "none"
  <2>1. \A i \in DOMAIN recentTxBuffer : ~Finds(t, i)
    BY <1>3 DEF Held, Finds
  <2> QED BY <1>3, <2>1 DEF StatusOf, Found
<1> QED BY <1>1, <1>2, <1>3 DEF Held
-----------------------------------------------------------------------------
\* A step that concerns t leaves every other transaction as it was,
Frame(t) ==
  /\ \A u \in Tx \ {t} :
       /\ hold'[u] = hold[u] /\ amt'[u] = amt[u]
       /\ heap'[u] = heap[u] /\ transactions'[u] = transactions[u]
       /\ settling'[u] = settling[u] /\ refunding'[u] = refunding[u]
       /\ post'[u] = post[u] /\ feeRecords'[u] = feeRecords[u]
       /\ sweep'.tx = u => sweep' = sweep
  /\ ~lockBroken' => ~lockBroken

\* except that the buffer may drop an entry.
BufferFrame(t) ==
  /\ \A u \in Tx \ {t} : \A e \in Held(recentTxBuffer') :
       e.id = u => e \in Held(recentTxBuffer)
  /\ Distinct(recentTxBuffer')

Apart(t) == Frame(t) /\ BufferFrame(t)

\* t goes to a phase the contract promises.
Kept(t) == PhaseOf(t)' \in Contract!Promised(PhaseOf(t))

\* The wallet grows by no more than the credit of t, or is emptied.
Paid(t) ==
  ~Reconciles => \/ wallet' - wallet <= Credit(t)' - Credit(t)
                 \/ wallet' <= 0

Good(t) == Apart(t) /\ Own(t)' /\ Kept(t) /\ Paid(t)

\* What such a step does to any other transaction: nothing, or forget it.
LEMMA Bystander ==
  ASSUME TypeInv, SafeInv, OwnInv, TypeInv', NEW t \in Tx, Apart(t), NEW u \in Tx, u # t
  PROVE  Own(u)' /\ Kept(u) /\ Credit(u)' = Credit(u)
<1>1. Own(u)
  BY DEF OwnInv
<1>2. /\ hold'[u] = hold[u] /\ amt'[u] = amt[u]
      /\ heap'[u] = heap[u] /\ transactions'[u] = transactions[u]
      /\ settling'[u] = settling[u] /\ refunding'[u] = refunding[u]
      /\ post'[u] = post[u] /\ feeRecords'[u] = feeRecords[u]
      /\ sweep'.tx = u => sweep' = sweep
      /\ \A e \in Held(recentTxBuffer') : e.id = u => e \in Held(recentTxBuffer)
      /\ ~lockBroken' => ~lockBroken
      /\ Distinct(recentTxBuffer')
  BY DEF Apart, Frame, BufferFrame
<1>3. Turn(u)'
  BY <1>1, <1>2 DEF Own, Turn, InMap, Live
<1>4. OneRecord(u)'
  BY <1>1, <1>2 DEF Own, OneRecord, InMap, Live
<1>5. Escrowed(u)'
  BY <1>1, <1>2 DEF Own, Escrowed, Payable, InMap, Live
<1>6. Credit(u)' = Credit(u)
  BY <1>2 DEF Credit, NetHeld
<1>7. Backed(u)'
  BY <1>1, <1>2, <1>6 DEF Own, Backed, InMap, Live
<1>8. Kept(u)
  <2>1. StatusRule /\ StatusRule'
    BY StatusIs, PTL
  <2>2. /\ InMap(u)' <=> InMap(u)
        /\ InMap(u) => Live(u)' = Live(u)
    BY <1>2 DEF InMap, Live
  <2>3. CASE InMap(u)
    <3>1. StatusOf(u)' = StatusOf(u)
      BY <2>1, <2>2, <2>3, <1>2 DEF StatusRule, OwnInv, TypeInv, TypeOK
    <3> QED BY <3>1, <1>2 DEF Kept, PhaseOf, Contract!Promised
  <2>4. CASE ~InMap(u) /\ \A e \in Held(recentTxBuffer') : e.id # u
    <3>1. StatusOf(u)' = "none"
      BY <2>1, <2>2, <2>4, <1>2 DEF StatusRule, TypeInv, TypeOK
    <3>2. PhaseOf(u)' = IF hold[u] = "done" THEN "forgotten" ELSE "none"
      BY <3>1, <1>2 DEF PhaseOf
    <3>3. CASE \E e \in Held(recentTxBuffer) : e.id = u
      <4>0. PICK e \in Held(recentTxBuffer) : e.id = u
        BY <3>3
      <4>1. StatusOf(u) = e.rec.status
        BY <4>0, <2>1, <2>4 DEF StatusRule, OwnInv, TypeInv, TypeOK
      <4>2. StatusOf(u) \in Closed /\ hold[u] = "done"
        BY <4>0, <4>1, <1>1 DEF Own, OneRecord
      <4> QED BY <4>2, <3>2 DEF Closed, Kept, PhaseOf, Contract!Promised
    <3>4. CASE \A e \in Held(recentTxBuffer) : e.id # u
      <4>1. StatusOf(u) = "none"
        BY <3>4, <2>1, <2>4 DEF StatusRule, OwnInv, TypeInv, TypeOK
      <4> QED BY <4>1, <3>2 DEF Kept, PhaseOf, Contract!Promised
    <3> QED BY <3>3, <3>4
  <2>5. CASE ~InMap(u) /\ \E e \in Held(recentTxBuffer') : e.id = u
    <3>1. PICK e \in Held(recentTxBuffer') : e.id = u
      BY <2>5
    <3>2. e \in Held(recentTxBuffer)
      BY <3>1, <1>2
    <3>3. StatusOf(u)' = e.rec.status /\ StatusOf(u) = e.rec.status
      BY <2>1, <2>2, <2>5, <3>1, <3>2, <1>2 DEF StatusRule, OwnInv, TypeInv, TypeOK
    <3> QED BY <3>3, <1>2 DEF Kept, PhaseOf, Contract!Promised
  <2> QED BY <2>3, <2>4, <2>5
<1> QED BY <1>3, <1>4, <1>5, <1>6, <1>7, <1>8 DEF Own
-----------------------------------------------------------------------------
\* NetHeld as a function of the postings, the fee records and the amount.
NetIn(p, fees, amount) ==
  IF RequireCounterparty THEN p["counterparty"]
  ELSE p["agent"] + p["escrow"] + fees * amount

\* A settlement adds its net payout and empties the escrow of the amount,
LEMMA SettlementNet ==
  ASSUME NEW p \in [Account -> Int], NEW fees \in Nat, NEW a \in Nat, NEW fee \in Nat
  PROVE  LET q == RecordSettlement(p, a, fee, a - fee, PayoutAccount)
         IN  /\ NetIn(q, fees + 1, a) = NetIn(p, fees, a) + (a - fee)
             /\ q["escrow"] = p["escrow"] - a
<1> DEFINE q == RecordSettlement(p, a, fee, a - fee, PayoutAccount)
<1>1. /\ q["escrow"] = p["escrow"] - a
      /\ q["counterparty"] = p["counterparty"] + IF RequireCounterparty THEN a - fee ELSE 0
      /\ q["agent"] = p["agent"] + IF RequireCounterparty THEN 0 ELSE a - fee
  BY DEF RecordSettlement, Move, PayoutAccount, Payee, Account
<1>2. (fees + 1) * a = fees * a + a /\ fees * a \in Int
  OBVIOUS
<1>3. p["agent"] \in Int /\ p["escrow"] \in Int /\ p["counterparty"] \in Int
  BY DEF Account
<1> QED BY <1>1, <1>2, <1>3 DEF NetIn

\* a refund takes the net payout back,
LEMMA RefundNet ==
  ASSUME NEW p \in [Account -> Int], NEW fees \in Nat, NEW a \in Nat, NEW net \in Nat
  PROVE  LET q == RecordRefund(p, net, PayoutAccount)
         IN  /\ NetIn(q, fees, a) = NetIn(p, fees, a) - net
             /\ q["escrow"] = p["escrow"]
<1> DEFINE q == RecordRefund(p, net, PayoutAccount)
<1>1. /\ q["escrow"] = p["escrow"]
      /\ RequireCounterparty => q["counterparty"] = p["counterparty"] - net
      /\ ~RequireCounterparty => q["agent"] = p["agent"] - net
  BY DEF RecordRefund, Move, PayoutAccount, Payee, Account
<1>2. fees * a \in Int
  OBVIOUS
<1>3. p["agent"] \in Int /\ p["escrow"] \in Int /\ p["counterparty"] \in Int
  BY DEF Account
<1> QED BY <1>1, <1>2, <1>3 DEF NetIn

\* and a charge or a cancellation moves money between agent and escrow.
LEMMA EscrowNet ==
  ASSUME NEW p \in [Account -> Int], NEW fees \in Nat, NEW a \in Nat
  PROVE  /\ NetIn(RecordCharge(p, a), fees, a) = NetIn(p, fees, a)
         /\ RecordCharge(p, a)["escrow"] = p["escrow"] + a
         /\ NetIn(RecordCancellation(p, a), fees, a) = NetIn(p, fees, a)
         /\ RecordCancellation(p, a)["escrow"] = p["escrow"] - a
<1>1. fees * a \in Int
  OBVIOUS
<1>2. p["agent"] \in Int /\ p["escrow"] \in Int /\ p["counterparty"] \in Int
  BY DEF Account
<1> QED BY <1>1, <1>2 DEF NetIn, RecordCharge, RecordCancellation, Move, Account

\* Where the record of t reads s: in the map, in the buffer, or nowhere.
Reads(t, s) ==
  \/ InMap(t) /\ Live(t).status = s
  \/ /\ ~InMap(t)
     /\ \E e \in Held(recentTxBuffer) : e.id = t /\ e.rec.status = s
  \/ /\ ~InMap(t)
     /\ \A e \in Held(recentTxBuffer) : e.id # t
     /\ s = "none"

\* What the record of a charged transaction may read after a step.
Leads(a, b) ==
  \/ b = a
  \/ a = "pending" /\ b \in {"completed", "refunded", "expired"}
  \/ a = "completed" /\ b \in {"disputed", "refunded"}
  \/ a = "disputed" /\ b \in {"completed", "refunded"}

\* Such a step keeps the contract.
LEMMA Leading ==
  ASSUME TypeInv, TypeInv', OwnInv, NEW t \in Tx, Apart(t), hold'[t] = hold[t],
         NEW a \in Status, NEW b, Reads(t, a), Reads(t, b)', Leads(a, b)
  PROVE  Kept(t)
<1>1. StatusRule /\ StatusRule'
  BY StatusIs, PTL
<1>2. StatusOf(t) = a
  <2>1. recentTxBuffer \in Seq(Buffered) /\ Distinct(recentTxBuffer)
    BY DEF OwnInv, TypeInv, TypeOK
  <2>2. CASE InMap(t) /\ Live(t).status = a
    BY <1>1, <2>1, <2>2 DEF StatusRule
  <2>3. CASE ~InMap(t) /\ \E e \in Held(recentTxBuffer) : e.id = t /\ e.rec.status = a
    BY <1>1, <2>1, <2>3 DEF StatusRule
  <2>4. CASE ~InMap(t) /\ (\A e \in Held(recentTxBuffer) : e.id # t) /\ a = "none"
    BY <1>1, <2>1, <2>4 DEF StatusRule
  <2> QED BY <2>2, <2>3, <2>4 DEF Reads
<1>3. StatusOf(t)' = b
  BY <1>1 DEF StatusRule, Apart, BufferFrame, TypeInv, TypeOK, Reads
<1>4. CASE a \in {"pending", "completed", "disputed"}
  BY <1>2, <1>3, <1>4 DEF Kept, PhaseOf, Contract!Promised, Leads
<1>5. CASE a \notin {"pending", "completed", "disputed"}
  BY <1>2, <1>3, <1>5 DEF Kept, PhaseOf, Contract!Promised, Leads
<1> QED BY <1>4, <1>5
-----------------------------------------------------------------------------
\* Credits are whole cents.
CreditRule == TypeInv => \A t \in Tx : /\ NetHeld(t) \in Int /\ Credit(t) \in Int
                                      /\ Credit(t) <= NetHeld(t)

\* No credit exceeds the net payouts.
LEMMA CreditIs == CreditRule
<1> SUFFICES ASSUME TypeInv, NEW t \in Tx
             PROVE  NetHeld(t) \in Int /\ Credit(t) \in Int /\ Credit(t) <= NetHeld(t)
  BY DEF CreditRule
<1>1. post[t] \in [Account -> Int] /\ feeRecords[t] \in Nat /\ amt[t] \in Nat
  BY DEF TypeInv, TypeOK
<1>2. post[t]["agent"] \in Int /\ post[t]["escrow"] \in Int /\ post[t]["counterparty"] \in Int
  BY <1>1 DEF Account
<1>3. feeRecords[t] * amt[t] \in Int
  BY <1>1
<1>4. NetHeld(t) \in Int
  BY <1>2, <1>3 DEF NetHeld
<1> DEFINE due == IF settling[t].pc = "locking" THEN heap[t][settling[t].obj].net ELSE 0
<1>5. due \in Nat
  <2>1. CASE settling[t].pc = "locking"
    <3>1. settling[t].obj \in Obj
      BY <2>1 DEF TypeInv, CallsTyped
    <3>2. heap[t][settling[t].obj] \in Record
      BY <3>1 DEF TypeInv, TypeOK
    <3> QED BY <2>1, <3>2 DEF Record
  <2> QED BY <2>1
<1>6. Credit(t) = NetHeld(t) - due
  BY DEF Credit
<1> HIDE DEF due
<1> QED BY <1>4, <1>5, <1>6

\* A call on t goes on, its record and its postings stay.
LEMMA CallMoves ==
  ASSUME TypeInv, TypeInv', OwnInv, NEW t \in Tx, Frame(t), Turn(t)',
         UNCHANGED <<hold, amt, heap, transactions, recentTxBuffer, post,
                     feeRecords, wallet>>,
         settling'[t].pc = "locking" => settling'[t] = settling[t],
         settling[t].pc = "locking" => settling'[t] = settling[t] \/ lockBroken'
  PROVE  Good(t)
<1>1. Own(t)
  BY DEF OwnInv
<1>2. Apart(t)
  BY DEF Apart, BufferFrame, OwnInv
<1>3. OneRecord(t)'
  BY <1>1 DEF Own, OneRecord, InMap, Live
<1>4. Escrowed(t)'
  BY <1>1 DEF Own, Escrowed, Payable, InMap, Live, Frame
<1>5. Credit(t)' >= Credit(t) /\ Credit(t) \in Int /\ Credit(t)' \in Int
  <2>1. NetHeld(t)' = NetHeld(t)
    BY DEF NetHeld
  <2>2. CreditRule /\ CreditRule'
    BY CreditIs, PTL
  <2>3. NetHeld(t) \in Int /\ Credit(t) \in Int /\ Credit(t) <= NetHeld(t)
        /\ Credit(t)' \in Int
    BY <2>2 DEF CreditRule
  <2>4. CASE settling'[t].pc = "locking"
    <3>1. Credit(t)' = Credit(t)
      BY <2>1, <2>4 DEF Credit
    <3> QED BY <3>1, <2>3
  <2>5. CASE settling'[t].pc # "locking"
    <3>1. Credit(t)' = NetHeld(t)
      BY <2>1, <2>3, <2>5 DEF Credit
    <3> QED BY <3>1, <2>3
  <2> QED BY <2>4, <2>5
<1>6. Backed(t)'
  <2>1. \A r \in Record : Covered(r, Credit(t)) => Covered(r, Credit(t)')
    BY <1>5 DEF Covered, Record
  <2>2. InMap(t) => Live(t) \in Record
    BY DEF InMap, Live, TypeInv, TypeOK
  <2>3. \A e \in Held(recentTxBuffer) : e.rec \in Record
    BY EntryTyped DEF Held, TypeInv
  <2>4. Live(t)' = Live(t) /\ (InMap(t)' <=> InMap(t))
    BY DEF Live, InMap
  <2> QED BY <1>1, <1>5, <2>1, <2>2, <2>3, <2>4 DEF Own, Backed
<1>7. Kept(t)
  <2>1. StatusOf(t)' = StatusOf(t)
    BY DEF StatusOf, InMap, Live, Found, Finds
  <2> QED BY <2>1 DEF Kept, PhaseOf, Contract!Promised
<1>8. Paid(t)
  BY <1>5 DEF Paid, TypeInv, TypeOK
<1> QED BY <1>2, <1>3, <1>4, <1>6, <1>7, <1>8 DEF Good, Own

\* The live record of t becomes r.
LEMMA LiveMoves ==
  ASSUME TypeInv, TypeInv', OwnInv, NEW t \in Tx, NEW r \in Record,
         Frame(t), Turn(t)', Escrowed(t)', Paid(t),
         InMap(t), Live(t)' = r, Leads(Live(t).status, r.status), r.status # "none",
         UNCHANGED <<hold, amt, transactions, recentTxBuffer>>,
         Credit(t)' >= 0, Covered(r, Credit(t)')
  PROVE  Good(t)
<1>1. Own(t)
  BY DEF OwnInv
<1>2. Apart(t)
  BY DEF Apart, BufferFrame, OwnInv
<1>3. InMap(t)' /\ \A e \in Held(recentTxBuffer)' : e.id # t
  BY <1>1 DEF InMap, Own, OneRecord
<1>4. OneRecord(t)'
  BY <1>1, <1>3 DEF Own, OneRecord
<1>5. Backed(t)'
  BY <1>1, <1>3 DEF Own, Backed
<1>6. Kept(t)
  <2>1. Live(t).status \in Status
    BY DEF InMap, Live, TypeInv, TypeOK, Record
  <2> QED BY <2>1, <1>2, <1>3, Leading DEF Reads
<1> QED BY <1>2, <1>4, <1>5, <1>6 DEF Good, Own

\* t leaves the map, or its place in the buffer, for the end of the buffer.
LEMMA IntoBuffer ==
  ASSUME TypeInv, TypeInv', OwnInv, NEW t \in Tx, NEW r \in Record, Frame(t),
         hold[t] = "done", hold' = hold, transactions'[t] = None,
         settling'[t].pc = "idle", refunding'[t].pc = "idle", sweep'.tx # t,
         NEW buf \in Seq(Buffered), Distinct(buf),
         \A e \in Held(buf) : e \in Held(recentTxBuffer) /\ e.id # t,
         recentTxBuffer' = Remember(buf, t, r), r.status \in Closed,
         ~lockBroken' => post'[t]["escrow"] = 0,
         Credit(t)' >= 0, Covered(r, Credit(t)'), Paid(t),
         NEW a \in Status, Reads(t, a), Leads(a, r.status)
  PROVE  Good(t)
<1>1. /\ Distinct(recentTxBuffer')
      /\ Entry(t, r) \in Held(recentTxBuffer')
      /\ \A e \in Held(recentTxBuffer') : e \in Held(buf) \/ e = Entry(t, r)
  BY RememberHeld
<1>2. Entry(t, r).id = t /\ Entry(t, r).rec = r
  BY DEF Entry
<1>3. Apart(t)
  BY <1>1, <1>2 DEF Apart, BufferFrame
<1>4. ~InMap(t)' /\ \A e \in Held(recentTxBuffer)' : e.id = t => e.rec = r
  BY <1>1, <1>2 DEF InMap
<1>5. Turn(t)'
  BY DEF Turn
<1>6. OneRecord(t)'
  BY <1>4 DEF OneRecord
<1>7. Escrowed(t)'
  BY <1>4 DEF Escrowed, Payable
<1>8. Backed(t)'
  BY <1>4 DEF Backed
<1>9. Kept(t)
  <2>1. Reads(t, r.status)'
    BY <1>1, <1>2, <1>4 DEF Reads
  <2> QED BY <2>1, <1>3, Leading
<1> QED BY <1>3, <1>5, <1>6, <1>7, <1>8, <1>9 DEF Good, Own

\* t comes back from the buffer into the map, perhaps for a refund.
LEMMA FromBuffer ==
  ASSUME TypeInv, TypeInv', OwnInv, NEW t \in Tx, Quiet(t),
         NEW i \in DOMAIN recentTxBuffer, NEW o \in Obj, Reactivate(t, i, o),
         transactions' = [transactions EXCEPT ![t] = o],
         UNCHANGED <<hold, amt, settling, sweep, lockBroken, post, feeRecords, wallet>>,
         \A u \in Tx \ {t} : refunding'[u] = refunding[u],
         refunding'[t].pc # "idle" =>
           refunding'[t].obj = o /\ Refundable(recentTxBuffer[i].rec)
  PROVE  Good(t)
<1> DEFINE r == recentTxBuffer[i].rec
<1>1. Own(t) /\ Distinct(recentTxBuffer) /\ recentTxBuffer \in Seq(Buffered)
  BY DEF OwnInv, TypeInv, TypeOK
<1>2. recentTxBuffer[i] \in Held(recentTxBuffer) /\ recentTxBuffer[i].id = t /\ ~InMap(t)
  BY DEF Reactivate, Finds, Held
<1>3. r \in Record /\ r.status \in Closed /\ hold[t] = "done" /\ Covered(r, Credit(t))
  BY <1>1, <1>2, EntryTyped DEF TypeInv, Own, OneRecord, Backed
<1>4. /\ Distinct(recentTxBuffer')
      /\ \A e \in Held(recentTxBuffer') : e \in Held(recentTxBuffer) /\ e.id # t
  BY <1>1, <1>2, RemoveHeld DEF Reactivate
<1>5. /\ heap'[t][o] = r
      /\ \A u \in Tx \ {t} : heap'[u] = heap[u] /\ transactions'[u] = transactions[u]
      /\ transactions'[t] = o
  BY DEF Reactivate, Write, TypeInv, TypeOK
<1> HIDE DEF r
<1>6. InMap(t)' /\ Live(t)' = r
  BY <1>5, PaymentsAssumption DEF InMap, Live
<1>7. Apart(t)
  BY <1>4, <1>5 DEF Apart, Frame, BufferFrame
<1>8. Turn(t)'
  BY <1>5, <1>6 DEF Turn, Quiet, r
<1>9. OneRecord(t)'
  BY <1>3, <1>4, <1>6 DEF OneRecord, Closed
<1>10. Escrowed(t)'
  BY <1>1, <1>2, <1>3, <1>6 DEF Own, Escrowed, Payable, Closed
<1>11. Credit(t)' = Credit(t)
  BY DEF Credit, NetHeld, Quiet
<1>12. Backed(t)'
  BY <1>1, <1>3, <1>4, <1>6, <1>11 DEF Own, Backed
<1>13. Kept(t)
  <2>1. PICK s \in Status : s = r.status
    BY <1>3 DEF Record
  <2>2. recentTxBuffer[i].rec.status = s
    BY <2>1 DEF r
  <2>3. Reads(t, s)
    BY <1>2, <2>2 DEF Reads
  <2>4. Reads(t, s)'
    BY <1>6, <2>1 DEF Reads
  <2>5. Leads(s, s)
    BY DEF Leads
  <2> QED BY <2>3, <2>4, <2>5, <1>7, Leading
<1>14. Credit(t) \in Int
  BY CreditIs DEF CreditRule
<1>15. Paid(t)
  BY <1>11, <1>14 DEF Paid, TypeInv, TypeOK
<1> QED BY <1>7, <1>8, <1>9, <1>10, <1>12, <1>13, <1>15 DEF Good, Own
-----------------------------------------------------------------------------
\* What is not charged yet has no record, no postings and no call.
LEMMA NotYet ==
  ASSUME TypeInv, SafeInv, OwnInv, NEW t \in Tx, hold[t] # "done"
  PROVE  /\ ~InMap(t) /\ Quiet(t) /\ feeRecords[t] = 0 /\ post[t] = NoPostings
         /\ \A e \in Held(recentTxBuffer) : e.id # t
         /\ Credit(t) = 0
         /\ StatusOf(t) = "none"
<1>1. Own(t)
  BY DEF OwnInv
<1>2. ~InMap(t) /\ Quiet(t) /\ feeRecords[t] = 0 /\ post[t] = NoPostings
  BY <1>1 DEF SafeInv, Uncharged, InMap, Quiet, Own, Turn, Escrowed
<1>3. \A e \in Held(recentTxBuffer) : e.id # t
  BY <1>1 DEF Own, OneRecord
<1>4. Credit(t) = 0
  <2>1. 0 * amt[t] = 0
    BY DEF TypeInv, TypeOK
  <2> QED BY <1>2, <2>1 DEF Credit, NetHeld, Quiet, NoPostings, Account
<1>5. StatusOf(t) = "none"
  BY <1>2, <1>3, StatusIs DEF StatusRule, OwnInv, TypeInv, TypeOK
<1> QED BY <1>2, <1>3, <1>4, <1>5

\* charge(): the checks and the hold on the rail leave no trace in the books.
LEMMA ChargeGood ==
  ASSUME TypeInv, SafeInv, OwnInv, TypeInv', NEW t \in Tx,
         HoldFails(t) \/ \E amount \in Amount : Charge(t, amount)
  PROVE  Good(t)
<1>1. /\ hold[t] # "done" /\ hold'[t] # "done"
      /\ \A u \in Tx \ {t} : hold'[u] = hold[u] /\ amt'[u] = amt[u]
      /\ UNCHANGED <<externalId, heap, transactions, recentTxBuffer, settling, refunding,
                     sweep, lockBroken, wallet, post, feeRecords>>
  BY DEF HoldFails, Charge, TypeInv, TypeOK, books, calls, lock, money
<1>2. /\ ~InMap(t) /\ Quiet(t) /\ feeRecords[t] = 0 /\ post[t] = NoPostings
      /\ \A e \in Held(recentTxBuffer) : e.id # t
      /\ Credit(t) = 0 /\ StatusOf(t) = "none"
  BY <1>1, NotYet
<1>3. Apart(t)
  BY <1>1 DEF Apart, Frame, BufferFrame, OwnInv
<1>4. ~InMap(t)' /\ Quiet(t)'
  BY <1>1, <1>2 DEF InMap, Quiet
<1>5. Credit(t)' = 0
  <2>1. 0 * amt'[t] = 0
    BY DEF TypeInv, TypeOK
  <2> QED BY <1>1, <1>2, <1>4, <2>1 DEF Credit, NetHeld, Quiet, NoPostings, Account
<1>6. Turn(t)' /\ OneRecord(t)'
  BY <1>1, <1>2, <1>4 DEF Turn, Quiet, OneRecord
<1>7. Escrowed(t)'
  BY <1>1, <1>2, <1>4 DEF Escrowed, Payable, NoPostings, Account
<1>8. Backed(t)'
  BY <1>1, <1>2, <1>4, <1>5 DEF Backed
<1>9. Kept(t)
  <2>1. StatusOf(t)' = "none"
    BY <1>1, <1>2 DEF StatusOf, InMap, Live, Found, Finds
  <2> QED BY <1>1, <1>2, <2>1 DEF Kept, PhaseOf, Contract!Promised
<1>10. Paid(t)
  BY <1>1, <1>2, <1>5 DEF Paid, TypeInv, TypeOK
<1> QED BY <1>3, <1>6, <1>7, <1>8, <1>9, <1>10 DEF Good, Own

\* The transaction enters the map with its amount in escrow.
LEMMA HoldCreatedGood ==
  ASSUME TypeInv, SafeInv, OwnInv, TypeInv', NEW t \in Tx, NEW o \in Obj, HoldCreated(t, o)
  PROVE  Good(t)
<1>1. /\ ~InMap(t) /\ Quiet(t) /\ feeRecords[t] = 0 /\ post[t] = NoPostings
      /\ \A e \in Held(recentTxBuffer) : e.id # t
      /\ Credit(t) = 0 /\ StatusOf(t) = "none" /\ hold[t] = "creating"
  BY NotYet DEF HoldCreated
<1>2. /\ hold'[t] = "done" /\ heap'[t][o] = Marked(NoRecord, "pending")
      /\ transactions'[t] = o /\ post'[t] = RecordCharge(post[t], amt[t])
      /\ \A u \in Tx \ {t} : /\ hold'[u] = hold[u] /\ heap'[u] = heap[u]
                             /\ transactions'[u] = transactions[u] /\ post'[u] = post[u]
      /\ UNCHANGED <<amt, recentTxBuffer, settling, refunding, sweep, lockBroken, wallet,
                     feeRecords>>
  BY DEF HoldCreated, Write, PostTo, TypeInv, TypeOK, calls, lock
<1>3. /\ InMap(t)' /\ Live(t)'.status = "pending" /\ Quiet(t)'
  BY <1>1, <1>2, PaymentsAssumption DEF InMap, Live, Marked, Quiet
<1>4. Apart(t)
  BY <1>2 DEF Apart, Frame, BufferFrame, OwnInv
<1>5. NetHeld(t)' = NetHeld(t) /\ post'[t]["escrow"] = amt[t]
  <2>0. post[t] \in [Account -> Int] /\ amt[t] \in Nat
    BY DEF TypeInv, TypeOK
  <2>1. /\ NetIn(post'[t], 0, amt[t]) = NetIn(post[t], 0, amt[t])
        /\ post'[t]["escrow"] = post[t]["escrow"] + amt[t]
    <3>1. /\ NetIn(RecordCharge(post[t], amt[t]), 0, amt[t]) = NetIn(post[t], 0, amt[t])
          /\ RecordCharge(post[t], amt[t])["escrow"] = post[t]["escrow"] + amt[t]
      BY <2>0, 0 \in Nat, EscrowNet
    <3>2. post'[t] = RecordCharge(post[t], amt[t])
      BY <1>2
    <3> QED BY <3>1, <3>2
  <2>2. NetHeld(t)' = NetIn(post'[t], 0, amt[t]) /\ NetHeld(t) = NetIn(post[t], 0, amt[t])
    BY <1>1, <1>2 DEF NetHeld, NetIn
  <2>3. post[t]["escrow"] = 0 /\ amt[t] \in Nat
    BY <1>1 DEF NoPostings, Account, TypeInv, TypeOK
  <2> QED BY <2>1, <2>2, <2>3
<1>6. Credit(t)' = 0
  <2>1. NetHeld(t) \in Int
    BY CreditIs DEF CreditRule
  <2>2. Credit(t) = NetHeld(t) - 0 /\ Credit(t)' = NetHeld(t)' - 0
    BY <1>1, <1>3 DEF Credit, Quiet
  <2> QED BY <1>1, <1>5, <2>1, <2>2
<1>7. Turn(t)'
  BY <1>3 DEF Turn, Quiet
<1>8. OneRecord(t)'
  BY <1>1, <1>2, <1>3 DEF OneRecord
<1>9. Escrowed(t)'
  BY <1>2, <1>3, <1>5 DEF Escrowed, Payable, Quiet
<1>10. Backed(t)'
  BY <1>1, <1>2, <1>3, <1>6 DEF Backed, Covered
<1>11. Kept(t)
  <2>1. StatusOf(t)' = "pending"
    BY <1>3 DEF StatusOf
  <2> QED BY <1>1, <2>1 DEF Kept, PhaseOf, Contract!Promised
<1>12. Paid(t)
  BY <1>1, <1>2, <1>6 DEF Paid, TypeInv, TypeOK
<1> QED BY <1>4, <1>7, <1>8, <1>9, <1>10, <1>11, <1>12 DEF Good, Own
-----------------------------------------------------------------------------
\* Whose turn it is when nobody is between two steps: nobody's.
LEMMA MayStartQuiet ==
  ASSUME ~Overlap, NEW t \in Tx, MayStart(t)
  PROVE  Quiet(t)
BY DEF MayStart

\* The steps that only move a call forward: up to the await on the rail, the
\* rail's answer or exception, and the refusal of the wallet.
LEMMA SettleWaitsGood ==
  ASSUME ~Overlap, TypeInv, SafeInv, OwnInv, TypeInv', NEW t \in Tx,
         (Settle(t) /\ t \in externalId) \/ RailCaptures(t) \/ CaptureThrows(t)
           \/ WalletRefuses(t)
  PROVE  Good(t)
<1>1. Own(t)
  BY DEF OwnInv
<1>2. /\ UNCHANGED <<hold, amt, heap, transactions, recentTxBuffer, post, feeRecords, wallet,
                     refunding, sweep>>
      /\ \A u \in Tx \ {t} : settling'[u] = settling[u]
      /\ ~lockBroken' => ~lockBroken
  BY DEF Settle, RailCaptures, CaptureThrows, WalletRefuses, TypeInv, TypeOK, holds, books, lock,
     money
<1>3. \/ /\ Quiet(t) /\ InMap(t) /\ Live(t).status = "pending"
         /\ settling'[t] = At("capturing", transactions[t])
      \/ settling[t].pc = "capturing" /\ settling'[t] = At("captured", settling[t].obj)
      \/ settling[t].pc = "capturing" /\ settling'[t] = Idle
      \/ settling[t].pc = "locking" /\ settling'[t] = Idle /\ lockBroken'
  BY MayStartQuiet DEF Settle, RailCaptures, CaptureThrows, WalletRefuses, TypeInv, TypeOK
<1>4. Turn(t)'
  BY <1>1, <1>2, <1>3 DEF Own, Turn, Quiet, InMap, Live, At, Idle
<1>5. /\ settling'[t].pc = "locking" => settling'[t] = settling[t]
      /\ settling[t].pc = "locking" => settling'[t] = settling[t] \/ lockBroken'
  BY <1>3 DEF Quiet, At, Idle
<1>6. Frame(t)
  BY <1>2 DEF Frame
<1> QED BY <1>2, <1>4, <1>5, <1>6, CallMoves

\* So do refund() up to its await and the rail's answer to the reversal,
LEMMA RefundWaitsGood ==
  ASSUME ~Overlap, TypeInv, SafeInv, OwnInv, TypeInv', NEW t \in Tx,
         (Refund(t) /\ t \in externalId) \/ RailReverses(t) \/ ReversalThrows(t)
  PROVE  Good(t)
<1>1. Own(t)
  BY DEF OwnInv
<1>2. /\ UNCHANGED <<hold, amt, heap, transactions, recentTxBuffer, post, feeRecords, wallet,
                     settling, sweep, lockBroken>>
      /\ \A u \in Tx \ {t} : refunding'[u] = refunding[u]
  BY DEF Refund, RailReverses, ReversalThrows, TypeInv, TypeOK, holds, books, lock, money
<1>3. \/ /\ Quiet(t) /\ InMap(t) /\ Refundable(Live(t))
         /\ refunding'[t] = At("reversing", transactions[t])
      \/ refunding[t].pc = "reversing" /\ refunding'[t] = At("reversed", refunding[t].obj)
      \/ refunding[t].pc = "reversing" /\ refunding'[t] = Idle
  BY MayStartQuiet DEF Refund, RailReverses, ReversalThrows, TypeInv, TypeOK
<1>4. Turn(t)'
  BY <1>1, <1>2, <1>3 DEF Own, Turn, Quiet, InMap, Live, At, Idle
<1>5. Frame(t)
  BY <1>2 DEF Frame
<1> QED BY <1>2, <1>4, <1>5, CallMoves

\* and the sweep: its call of the rail and the rail's answer.
LEMMA SweepWaitsGood ==
  ASSUME ~Overlap, TypeInv, SafeInv, OwnInv, TypeInv', NEW t \in Tx,
         (Expire(t) /\ t \in externalId) \/ (RailReversesExpired /\ sweep.tx = t)
  PROVE  Good(t)
<1>1. Own(t)
  BY DEF OwnInv
<1>2. UNCHANGED <<hold, amt, heap, transactions, recentTxBuffer, post, feeRecords, wallet,
                  settling, refunding, lockBroken>>
  BY DEF Expire, RailReversesExpired, holds, books, lock, money
<1>3. /\ sweep'.tx = t /\ sweep'.pc \in {"reversing", "reversed"}
      /\ sweep'.obj = transactions[t] /\ InMap(t) /\ Live(t).status = "pending"
      /\ Quiet(t) \/ sweep.tx = t
  BY <1>1, MayStartQuiet DEF Expire, RailReversesExpired, Own, Turn
<1>4. Turn(t)'
  BY <1>1, <1>2, <1>3 DEF Own, Turn, Quiet, InMap, Live
<1>5. Frame(t)
  BY <1>2, <1>3 DEF Frame
<1> QED BY <1>2, <1>4, <1>5, CallMoves
-----------------------------------------------------------------------------
\* The settlement is recorded: the escrow is paid out, the wallet's callback
\* is queued.
LEMMA RecordSettleGood ==
  ASSUME TypeInv, SafeInv, OwnInv, TypeInv', NEW t \in Tx, NEW fee \in Fee,
         InMap(t), Live(t).status = "pending", refunding[t].pc = "idle", sweep.tx # t,
         settling[t].pc \in {"idle", "captured"},
         RecordSettle(t, transactions[t], fee),
         UNCHANGED <<hold, amt, transactions, recentTxBuffer, refunding, sweep, wallet,
                     lockBroken>>
  PROVE  Good(t)
<1> DEFINE net == amt[t] - fee
           r   == [status |-> "pending", net |-> net]
<1>1. Own(t)
  BY DEF OwnInv
<1>2. /\ fee \in Nat /\ amt[t] \in Nat /\ net \in Nat /\ r \in Record
      /\ feeRecords[t] \in Nat /\ post[t] \in [Account -> Int]
      /\ transactions[t] \in Obj
  <2>1. fee \in Nat /\ fee < amt[t]
    BY PaymentsAssumption DEF RecordSettle
  <2>2. /\ amt[t] \in Nat /\ feeRecords[t] \in Nat /\ post[t] \in [Account -> Int]
        /\ transactions[t] \in Obj
    BY DEF TypeInv, TypeOK, InMap
  <2>3. net \in Nat
    BY <2>1, <2>2
  <2>4. r \in Record
    BY <2>3 DEF Record, Status
  <2> QED BY <2>1, <2>2, <2>3, <2>4
<1>3. /\ heap'[t][transactions[t]] = r
      /\ settling'[t] = At("locking", transactions[t])
      /\ feeRecords'[t] = feeRecords[t] + 1
      /\ post'[t] = RecordSettlement(post[t], amt[t], fee, net, PayoutAccount)
      /\ \A u \in Tx \ {t} : /\ heap'[u] = heap[u] /\ settling'[u] = settling[u]
                             /\ feeRecords'[u] = feeRecords[u] /\ post'[u] = post[u]
  BY <1>2 DEF RecordSettle, Write, PostTo, TypeInv, TypeOK, Live
<1>4. Live(t)' = r /\ InMap(t)'
  BY <1>3 DEF Live, InMap
<1>5. Frame(t)
  BY <1>3 DEF Frame
<1>6. Turn(t)'
  BY <1>3, <1>4 DEF Turn, At
<1>7. NetHeld(t)' = NetHeld(t) + net /\ post'[t]["escrow"] = post[t]["escrow"] - amt[t]
  <2>1. /\ NetIn(post'[t], feeRecords[t] + 1, amt[t])
             = NetIn(post[t], feeRecords[t], amt[t]) + net
        /\ post'[t]["escrow"] = post[t]["escrow"] - amt[t]
    <3>1. LET q == RecordSettlement(post[t], amt[t], fee, amt[t] - fee, PayoutAccount)
          IN  /\ NetIn(q, feeRecords[t] + 1, amt[t])
                   = NetIn(post[t], feeRecords[t], amt[t]) + (amt[t] - fee)
              /\ q["escrow"] = post[t]["escrow"] - amt[t]
      <4>1. /\ post[t] \in [Account -> Int] /\ feeRecords[t] \in Nat
            /\ amt[t] \in Nat /\ fee \in Nat
        BY <1>2
      <4> QED BY ONLY <4>1, SettlementNet
    <3> QED BY <3>1, <1>3
  <2> QED BY <2>1, <1>3 DEF NetHeld, NetIn
<1>8. Credit(t)' = Credit(t)
  <2>1. NetHeld(t) \in Int
    BY CreditIs DEF CreditRule
  <2>2. Credit(t) = NetHeld(t) - 0
    BY DEF Credit
  <2>3. Credit(t)' = NetHeld(t)' - net
    BY <1>3 DEF Credit, At
  <2> QED BY <1>2, <1>7, <2>1, <2>2, <2>3
<1>9. Escrowed(t)'
  <2>1. ~lockBroken => post[t]["escrow"] = amt[t]
    BY <1>1 DEF Own, Escrowed, Payable
  <2>2. hold[t] = "done"
    BY <1>1 DEF Own, OneRecord
  <2> QED BY <2>1, <2>2, <1>2, <1>3, <1>7 DEF Escrowed, At
<1>10. Paid(t)
  <2>1. Credit(t) \in Int
    BY CreditIs DEF CreditRule
  <2> QED BY <2>1, <1>8 DEF Paid, TypeInv, TypeOK
<1>11. Leads(Live(t).status, r.status) /\ r.status # "none"
  BY DEF Leads
<1>12. Credit(t)' >= 0 /\ Covered(r, Credit(t)')
  BY <1>1, <1>8 DEF Own, Backed, Covered
<1> QED BY <1>2, <1>4, <1>5, <1>6, <1>9, <1>10, <1>11, <1>12, LiveMoves

\* settle() records on the live object: at once, or after the capture.
LEMMA SettleRecordsGood ==
  ASSUME ~Overlap, TypeInv, SafeInv, OwnInv, TypeInv', NEW t \in Tx,
         (Settle(t) /\ t \notin externalId) \/ SettleRecords(t)
  PROVE  Good(t)
<1>1. Own(t)
  BY DEF OwnInv
<1>2. /\ InMap(t) /\ Live(t).status = "pending" /\ refunding[t].pc = "idle" /\ sweep.tx # t
      /\ settling[t].pc \in {"idle", "captured"}
      /\ \E fee \in Fee : RecordSettle(t, transactions[t], fee)
  BY <1>1, MayStartQuiet DEF Settle, SettleRecords, Own, Turn, Quiet
<1>3. UNCHANGED <<hold, amt, transactions, recentTxBuffer, refunding, sweep, wallet, lockBroken>>
  BY DEF Settle, SettleRecords, holds, books
<1> QED BY <1>2, <1>3, RecordSettleGood

\* The queued callback pays what the settlement recorded into the wallet.
LEMMA WalletCreditsGood ==
  ASSUME TypeInv, SafeInv, OwnInv, TypeInv', NEW t \in Tx, WalletCredits(t)
  PROVE  Good(t)
<1> DEFINE o == transactions[t]
           r == Marked(heap[t][o], "completed")
<1>1. Own(t)
  BY DEF OwnInv
<1>2. /\ settling[t].pc = "locking" /\ settling[t].obj = o /\ InMap(t)
      /\ Live(t).status = "pending" /\ refunding[t].pc = "idle" /\ sweep.tx # t
  BY <1>1 DEF WalletCredits, Own, Turn
<1>3. o \in Obj /\ heap[t][o] \in Record /\ r \in Record /\ r.net = heap[t][o].net
      /\ r.status = "completed" /\ r.net \in Nat
  BY <1>2 DEF InMap, TypeInv, TypeOK, Marked, Record, Status
<1>4. /\ heap'[t][o] = r /\ wallet' = wallet + r.net
      /\ settling'[t] = At("applied", o)
      /\ \A u \in Tx \ {t} : heap'[u] = heap[u] /\ settling'[u] = settling[u]
      /\ UNCHANGED <<hold, amt, transactions, recentTxBuffer, refunding, sweep, lockBroken, post,
                     feeRecords>>
  BY <1>2, <1>3 DEF WalletCredits, Write, TypeInv, TypeOK, holds, books
<1> HIDE DEF r
<1>5. Live(t)' = r /\ InMap(t)' /\ Frame(t)
  BY <1>2, <1>4 DEF Live, InMap, Frame
<1>6. Turn(t)'
  BY <1>2, <1>3, <1>4, <1>5 DEF Turn, At
<1>7. Escrowed(t)'
  BY <1>1, <1>2, <1>3, <1>4, <1>5 DEF Own, Escrowed, Payable
<1>8. Credit(t)' = Credit(t) + r.net /\ Credit(t) \in Int
  <2>1. NetHeld(t) \in Int /\ NetHeld(t)' = NetHeld(t)
    BY <1>4, CreditIs DEF CreditRule, NetHeld
  <2>2. Credit(t) = NetHeld(t) - r.net
    BY <1>2, <1>3 DEF Credit
  <2>3. Credit(t)' = NetHeld(t)' - 0
    BY <1>4 DEF Credit, At
  <2> QED BY <1>3, <2>1, <2>2, <2>3
<1>9. Paid(t)
  BY <1>3, <1>4, <1>8 DEF Paid, TypeInv, TypeOK
<1>10. Credit(t)' >= 0 /\ Covered(r, Credit(t)')
  BY <1>1, <1>3, <1>8 DEF Own, Backed, Covered
<1>11. Leads(Live(t).status, r.status) /\ r.status # "none"
  BY <1>2, <1>3 DEF Leads
<1> QED BY <1>2, <1>3, <1>4, <1>5, <1>6, <1>7, <1>9, <1>10, <1>11, LiveMoves

\* settle() ends: the completed record moves into the buffer.
LEMMA SettleEndsGood ==
  ASSUME TypeInv, SafeInv, OwnInv, TypeInv', NEW t \in Tx, SettleEnds(t)
  PROVE  Good(t)
<1> DEFINE r == Live(t)
<1>1. Own(t) /\ recentTxBuffer \in Seq(Buffered) /\ Distinct(recentTxBuffer)
  BY DEF OwnInv, TypeInv, TypeOK
<1>2. /\ settling[t].pc = "applied" /\ settling[t].obj = transactions[t] /\ InMap(t)
      /\ r.status = "completed" /\ refunding[t].pc = "idle" /\ sweep.tx # t
      /\ hold[t] = "done" /\ \A e \in Held(recentTxBuffer) : e.id # t
  BY <1>1 DEF SettleEnds, Own, Turn, OneRecord
<1>3. r \in Record
  BY <1>2 DEF Live, InMap, TypeInv, TypeOK
<1>4. /\ recentTxBuffer' = Remember(recentTxBuffer, t, r)
      /\ transactions'[t] = None /\ settling'[t] = Idle
      /\ \A u \in Tx \ {t} : transactions'[u] = transactions[u] /\ settling'[u] = settling[u]
      /\ UNCHANGED <<hold, amt, heap, refunding, sweep, lockBroken, post, feeRecords, wallet>>
  BY <1>2 DEF SettleEnds, Live, TypeInv, TypeOK, holds, lock, money
<1>5. Credit(t)' = Credit(t) /\ Credit(t) \in Int
  BY <1>2, <1>4, CreditIs DEF Credit, NetHeld, Idle, At, CreditRule
<1>6. Frame(t) /\ Paid(t)
  BY <1>4, <1>5 DEF Frame, Paid, TypeInv, TypeOK
<1>7. Credit(t)' >= 0 /\ Covered(r, Credit(t)')
  BY <1>1, <1>2, <1>5 DEF Own, Backed
<1>8. ~lockBroken' => post'[t]["escrow"] = 0
  BY <1>1, <1>2, <1>4 DEF Own, Escrowed, Payable
<1>9. Reads(t, "completed") /\ Leads("completed", r.status) /\ r.status \in Closed
  BY <1>2 DEF Reads, Leads, Closed
<1>10. settling'[t].pc = "idle" /\ refunding'[t].pc = "idle" /\ sweep'.tx # t
  BY <1>2, <1>4 DEF Idle, At
<1>11. "completed" \in Status
  BY DEF Status
<1> HIDE DEF r
<1> QED BY <1>1, <1>2, <1>3, <1>4, <1>6, <1>7, <1>8, <1>9, <1>10, <1>11, IntoBuffer

\* The end of a refund, wherever its record came from: what was paid out is
\* taken back, what was held is released, what is contested is left alone.
LEMMA RefundClosesGood ==
  ASSUME TypeInv, SafeInv, OwnInv, TypeInv', NEW t \in Tx, NEW o \in Obj, NEW r \in Record,
         NEW cnt, NEW buf \in Seq(Buffered), Distinct(buf),
         \A e \in Held(buf) : e \in Held(recentTxBuffer) /\ e.id # t,
         RefundCloses(t, o, r, cnt, buf), Refundable(r), hold[t] = "done",
         settling[t].pc = "idle", sweep.tx # t,
         r.status = "pending" <=> Payable(t), Reads(t, r.status), Covered(r, Credit(t)),
         UNCHANGED <<hold, amt, settling, sweep, lockBroken, feeRecords>>
  PROVE  Good(t)
<1> DEFINE x == Marked(r, "refunded")
<1>1. Own(t)
  BY DEF OwnInv
<1>2. x \in Record /\ x.status = "refunded" /\ r.net \in Nat /\ r.status \in Status
  BY MarkedTyped DEF Record, Status
<1>3. /\ recentTxBuffer' = Remember(buf, t, x) /\ transactions'[t] = None
      /\ refunding'[t] = Idle
      /\ \A u \in Tx \ {t} : /\ transactions'[u] = transactions[u]
                             /\ refunding'[u] = refunding[u] /\ heap'[u] = heap[u]
  BY DEF RefundCloses, Write, TypeInv, TypeOK
<1>4. post[t] \in [Account -> Int] /\ feeRecords[t] \in Nat /\ amt[t] \in Nat
      /\ NetHeld(t) \in Int /\ Credit(t) \in Int /\ wallet \in Int
  BY CreditIs DEF CreditRule, TypeInv, TypeOK
<1>5. Credit(t) = NetHeld(t) /\ Credit(t)' = NetHeld(t)'
  <2>1. Credit(t) = NetHeld(t) - 0 /\ Credit(t)' = NetHeld(t)' - 0
    BY DEF Credit
  <2>2. NetHeld(t)' \in Int
    <3>1. CreditRule'
      BY CreditIs, PTL
    <3> QED BY <3>1 DEF CreditRule
  <2> QED BY <2>1, <2>2, <1>4
<1>6. NetHeld(t) = NetIn(post[t], feeRecords[t], amt[t])
      /\ NetHeld(t)' = NetIn(post'[t], feeRecords[t], amt[t])
  BY DEF NetHeld, NetIn
<1>7. ~lockBroken => post[t]["escrow"] = IF r.status = "pending" THEN amt[t] ELSE 0
  BY <1>1 DEF Own, Escrowed
<1> HIDE DEF x
<1>8. /\ \A u \in Tx \ {t} : post'[u] = post[u]
      /\ ~lockBroken' => post'[t]["escrow"] = 0
      /\ Credit(t)' >= 0 /\ Paid(t)
  <2>1. CASE r.status = "completed"
    <3>1. /\ post' = [post EXCEPT ![t] = RecordRefund(post[t], r.net, PayoutAccount)]
          /\ wallet' = Floor0(wallet - r.net)
      BY <2>1 DEF RefundCloses, RefundMoney, PostTo
    <3>2. post'[t] = RecordRefund(post[t], r.net, PayoutAccount)
          /\ \A u \in Tx \ {t} : post'[u] = post[u]
      BY <3>1 DEF TypeInv, TypeOK
    <3>3. /\ NetIn(post'[t], feeRecords[t], amt[t])
               = NetIn(post[t], feeRecords[t], amt[t]) - r.net
          /\ post'[t]["escrow"] = post[t]["escrow"]
      <4>1. LET q == RecordRefund(post[t], r.net, PayoutAccount)
            IN  /\ NetIn(q, feeRecords[t], amt[t])
                     = NetIn(post[t], feeRecords[t], amt[t]) - r.net
                /\ q["escrow"] = post[t]["escrow"]
        <5>1. post[t] \in [Account -> Int] /\ feeRecords[t] \in Nat /\ amt[t] \in Nat
              /\ r.net \in Nat
          BY <1>2, <1>4
        <5> QED BY ONLY <5>1, RefundNet
      <4> QED BY <4>1, <3>2
    <3>4. r.net <= Credit(t)
      BY <2>1 DEF Covered
    <3>5. Credit(t)' = Credit(t) - r.net
      BY <1>5, <1>6, <3>3
    <3>6. Credit(t)' >= 0
      BY <1>2, <1>4, <3>4, <3>5
    <3>7. wallet' - wallet = Credit(t)' - Credit(t) \/ wallet' <= 0
      BY <1>2, <1>4, <3>1, <3>5 DEF Floor0
    <3>8. ~lockBroken' => post'[t]["escrow"] = 0
      BY <2>1, <1>7, <3>3
    <3>9. Paid(t)
      BY <1>2, <1>4, <3>1, <3>5, <3>7 DEF Paid, Floor0
    <3> QED BY <3>2, <3>6, <3>8, <3>9
  <2>2. CASE r.status = "pending"
    <3>1. /\ post' = [post EXCEPT ![t] = RecordCancellation(post[t], amt[t])]
          /\ wallet' = wallet
      BY <2>2 DEF RefundCloses, RefundMoney, PostTo
    <3>2. post'[t] = RecordCancellation(post[t], amt[t])
          /\ \A u \in Tx \ {t} : post'[u] = post[u]
      BY <3>1 DEF TypeInv, TypeOK
    <3>3. /\ NetIn(post'[t], feeRecords[t], amt[t]) = NetIn(post[t], feeRecords[t], amt[t])
          /\ post'[t]["escrow"] = post[t]["escrow"] - amt[t]
      BY <1>4, <3>2, EscrowNet
    <3>4. Credit(t)' = Credit(t)
      BY <1>5, <1>6, <3>3
    <3>5. Credit(t)' >= 0
      BY <1>1, <3>4 DEF Own, Backed
    <3>6. ~lockBroken' => post'[t]["escrow"] = 0
      BY <2>2, <1>4, <1>7, <3>3
    <3>7. Paid(t)
      BY <1>4, <3>1, <3>4 DEF Paid
    <3> QED BY <3>2, <3>5, <3>6, <3>7
  <2>3. CASE r.status = "disputed"
    <3>1. UNCHANGED <<wallet, post>>
      BY <2>3 DEF RefundCloses, RefundMoney
    <3>2. Credit(t)' = Credit(t)
      BY <1>5, <1>6, <3>1
    <3>3. Credit(t)' >= 0
      BY <1>1, <3>2 DEF Own, Backed
    <3>4. ~lockBroken' => post'[t]["escrow"] = 0
      BY <2>3, <1>7, <3>1
    <3>5. Paid(t)
      BY <1>4, <3>1, <3>2 DEF Paid
    <3> QED BY <3>1, <3>3, <3>4, <3>5
  <2> QED BY <2>1, <2>2, <2>3 DEF Refundable
<1>9. Frame(t)
  BY <1>3, <1>8 DEF Frame
<1>10. Covered(x, Credit(t)') /\ x.status \in Closed /\ Leads(r.status, x.status)
  BY <1>2 DEF Covered, Closed, Leads, Refundable
<1>11. settling'[t].pc = "idle" /\ refunding'[t].pc = "idle" /\ sweep'.tx # t
  BY <1>3 DEF Idle, At
<1>12. PICK a \in Status : a = r.status
  BY <1>2
<1> QED BY <1>2, <1>3, <1>8, <1>9, <1>10, <1>11, <1>12, IntoBuffer

\* refund() of what is in the map: at once, or after the reversal,
LEMMA RefundGood ==
  ASSUME ~Overlap, TypeInv, SafeInv, OwnInv, TypeInv', NEW t \in Tx,
         (Refund(t) /\ t \notin externalId) \/ RefundEnds(t)
  PROVE  Good(t)
<1>1. Own(t) /\ recentTxBuffer \in Seq(Buffered) /\ Distinct(recentTxBuffer)
  BY DEF OwnInv, TypeInv, TypeOK
<1>2. /\ InMap(t) /\ Refundable(Live(t)) /\ settling[t].pc = "idle" /\ sweep.tx # t
      /\ RefundCloses(t, transactions[t], Live(t), counts, recentTxBuffer)
  BY <1>1, MayStartQuiet DEF Refund, RefundEnds, Own, Turn, Quiet, Live
<1>3. UNCHANGED <<hold, amt, settling, sweep, lockBroken, feeRecords>>
  BY DEF Refund, RefundEnds, holds, lock
<1>4. transactions[t] \in Obj /\ Live(t) \in Record
  BY <1>2 DEF InMap, Live, TypeInv, TypeOK
<1>5. hold[t] = "done" /\ Covered(Live(t), Credit(t))
      /\ \A e \in Held(recentTxBuffer) : e.id # t
  BY <1>1, <1>2 DEF Own, OneRecord, Backed
<1>6. (Live(t).status = "pending" <=> Payable(t)) /\ Reads(t, Live(t).status)
  BY <1>2 DEF Payable, Reads
<1> QED BY <1>1, <1>2, <1>3, <1>4, <1>5, <1>6, RefundClosesGood

\* of what is in the buffer, at once,
LEMMA RefundBufferedGood ==
  ASSUME ~Overlap, TypeInv, SafeInv, OwnInv, TypeInv', NEW t \in Tx,
         NEW i \in DOMAIN recentTxBuffer, NEW o \in Obj, RefundBufferedAtOnce(t, i, o)
  PROVE  Good(t)
<1> DEFINE r == recentTxBuffer[i].rec
           buf == RemoveAt(recentTxBuffer, i)
<1>1. Own(t) /\ recentTxBuffer \in Seq(Buffered) /\ Distinct(recentTxBuffer)
  BY DEF OwnInv, TypeInv, TypeOK
<1>2. /\ Quiet(t) /\ ~InMap(t) /\ Refundable(r) /\ recentTxBuffer[i].id = t
      /\ recentTxBuffer[i] \in Held(recentTxBuffer)
      /\ RefundCloses(t, o, r, Uncounted(r), buf)
  BY MayStartQuiet DEF RefundBufferedAtOnce, Finds, Held
<1>3. UNCHANGED <<hold, amt, settling, sweep, lockBroken, feeRecords>>
  BY DEF RefundBufferedAtOnce, holds, lock
<1>4. r \in Record
  BY EntryTyped DEF TypeInv
<1>5. /\ buf \in Seq(Buffered) /\ Distinct(buf)
      /\ \A e \in Held(buf) : e \in Held(recentTxBuffer) /\ e.id # t
  BY <1>1, <1>2, RemoveHeld, RemovedIs
<1>6. hold[t] = "done" /\ Covered(r, Credit(t)) /\ r.status \in Closed
  BY <1>1, <1>2 DEF Own, OneRecord, Backed
<1>7. (r.status = "pending" <=> Payable(t)) /\ Reads(t, r.status)
  BY <1>2, <1>6 DEF Payable, Reads, Closed
<1>8. settling[t].pc = "idle" /\ sweep.tx # t
  BY <1>2 DEF Quiet
<1> HIDE DEF r, buf
<1> QED BY <1>2, <1>3, <1>4, <1>5, <1>6, <1>7, <1>8, RefundClosesGood

\* or only brought back, for a refund or a rejected refund or dispute.
LEMMA ReactivatedGood ==
  ASSUME ~Overlap, TypeInv, SafeInv, OwnInv, TypeInv', NEW t \in Tx,
         NEW i \in DOMAIN recentTxBuffer, NEW o \in Obj,
         RefundBuffered(t, i, o) \/ RefundRejected(t, i, o) \/ DisputeRejected(t, i, o)
  PROVE  Good(t)
<1>1. Quiet(t) /\ Reactivate(t, i, o) /\ transactions' = [transactions EXCEPT ![t] = o]
  BY MayStartQuiet DEF RefundBuffered, RefundRejected, DisputeRejected
<1>2. UNCHANGED <<hold, amt, settling, sweep, lockBroken, post, feeRecords, wallet>>
  BY DEF RefundBuffered, RefundRejected, DisputeRejected, holds, calls, lock, money
<1>3. /\ \A u \in Tx \ {t} : refunding'[u] = refunding[u]
      /\ refunding'[t].pc # "idle" =>
           refunding'[t].obj = o /\ Refundable(recentTxBuffer[i].rec)
  BY <1>1 DEF RefundBuffered, RefundRejected, DisputeRejected, calls, Quiet, At, TypeInv, TypeOK
<1> QED BY <1>1, <1>2, <1>3, FromBuffer

\* An expiry gives back what was held; the object stays in the map.
LEMMA ExpireMoneyGood ==
  ASSUME TypeInv, SafeInv, OwnInv, TypeInv', NEW t \in Tx,
         InMap(t), Live(t).status = "pending", ExpireMoney(t, transactions[t]),
         settling[t].pc = "idle", refunding[t].pc = "idle", sweep'.tx # t,
         \A u \in Tx : sweep'.tx = u => sweep' = sweep,
         UNCHANGED <<hold, amt, transactions, recentTxBuffer, settling, refunding, lockBroken,
                     wallet, feeRecords>>
  PROVE  Good(t)
<1> DEFINE x == Marked(Live(t), "expired")
<1>1. Own(t) /\ transactions[t] \in Obj /\ Live(t) \in Record
  BY DEF OwnInv, InMap, Live, TypeInv, TypeOK
<1>2. x \in Record /\ x.status = "expired"
  BY <1>1, MarkedTyped DEF Status
<1>3. /\ heap'[t][transactions[t]] = x
      /\ post'[t] = RecordCancellation(post[t], amt[t])
      /\ \A u \in Tx \ {t} : heap'[u] = heap[u] /\ post'[u] = post[u]
  BY <1>1 DEF ExpireMoney, Write, PostTo, Live, TypeInv, TypeOK
<1> HIDE DEF x
<1>4. Live(t)' = x /\ Frame(t)
  BY <1>3 DEF Live, Frame
<1>5. /\ NetIn(post'[t], feeRecords[t], amt[t]) = NetIn(post[t], feeRecords[t], amt[t])
      /\ post'[t]["escrow"] = post[t]["escrow"] - amt[t]
      /\ amt[t] \in Nat
  <2>1. post[t] \in [Account -> Int] /\ feeRecords[t] \in Nat /\ amt[t] \in Nat
    BY DEF TypeInv, TypeOK
  <2> QED BY <2>1, <1>3, EscrowNet
<1>6. Credit(t)' = Credit(t) /\ Credit(t) \in Int
  <2>1. NetHeld(t)' = NetHeld(t)
    BY <1>5 DEF NetHeld, NetIn
  <2> QED BY <2>1, CreditIs DEF Credit, CreditRule
<1>7. Paid(t) /\ Credit(t)' >= 0 /\ Covered(x, Credit(t)')
  BY <1>1, <1>2, <1>6 DEF Paid, TypeInv, TypeOK, Own, Backed, Covered
<1>8. Turn(t)'
  BY DEF Turn
<1>9. Escrowed(t)'
  BY <1>1, <1>2, <1>4, <1>5 DEF Own, OneRecord, Escrowed, Payable
<1>10. Leads(Live(t).status, x.status) /\ x.status # "none"
  BY <1>2 DEF Leads
<1> QED BY <1>2, <1>4, <1>7, <1>8, <1>9, <1>10, LiveMoves

\* An expiry cancels at once, or after the rail.
LEMMA ExpireGood ==
  ASSUME ~Overlap, TypeInv, SafeInv, OwnInv, TypeInv', NEW t \in Tx,
         (Expire(t) /\ t \notin externalId) \/ (ExpireEnds /\ sweep.tx = t)
  PROVE  Good(t)
<1>1. Own(t)
  BY DEF OwnInv
<1>2. /\ InMap(t) /\ Live(t).status = "pending" /\ ExpireMoney(t, transactions[t])
      /\ settling[t].pc = "idle" /\ refunding[t].pc = "idle"
      /\ sweep' = NoSweep
  BY <1>1, MayStartQuiet DEF Expire, ExpireEnds, Own, Turn, Quiet
<1>3. \A u \in Tx : sweep'.tx # u
  BY <1>2, PaymentsAssumption DEF NoSweep
<1>4. UNCHANGED <<hold, amt, transactions, recentTxBuffer, settling, refunding, lockBroken,
                  wallet, feeRecords>>
  BY DEF Expire, ExpireEnds, holds, books, lock
<1> QED BY <1>2, <1>3, <1>4, ExpireMoneyGood
-----------------------------------------------------------------------------
\* A completed transaction becomes a contested one at the end of the buffer.
LEMMA DisputeGood ==
  ASSUME ~Overlap, TypeInv, SafeInv, OwnInv, TypeInv', NEW t \in Tx,
         Dispute(t) \/ \E i \in DOMAIN recentTxBuffer : DisputeBuffered(t, i)
  PROVE  Good(t)
<1>1. Own(t) /\ recentTxBuffer \in Seq(Buffered) /\ Distinct(recentTxBuffer)
  BY DEF OwnInv, TypeInv, TypeOK
<1>2. /\ UNCHANGED <<hold, amt, settling, refunding, sweep, lockBroken, post, feeRecords, wallet>>
      /\ Quiet(t)
  BY MayStartQuiet DEF Dispute, DisputeBuffered, holds, calls, lock, money
<1>3. \E r \in Record, buf \in Seq(Buffered) :
        /\ r.status = "completed" /\ Reads(t, "completed") /\ Covered(r, Credit(t))
        /\ ~Payable(t) /\ hold[t] = "done"
        /\ Distinct(buf)
        /\ \A e \in Held(buf) : e \in Held(recentTxBuffer) /\ e.id # t
        /\ recentTxBuffer' = Remember(buf, t, Marked(r, "disputed"))
        /\ transactions'[t] = None
        /\ \A u \in Tx \ {t} : transactions'[u] = transactions[u] /\ heap'[u] = heap[u]
  <2>1. CASE Dispute(t)
    <3>1. InMap(t) /\ Live(t).status = "completed" /\ Live(t) \in Record
      BY <2>1 DEF Dispute, InMap, Live, TypeInv, TypeOK
    <3>2. /\ \A e \in Held(recentTxBuffer) : e.id # t
          /\ hold[t] = "done" /\ Covered(Live(t), Credit(t))
      BY <1>1, <3>1 DEF Own, OneRecord, Backed
    <3>3. /\ recentTxBuffer' = Remember(recentTxBuffer, t, Marked(Live(t), "disputed"))
          /\ transactions'[t] = None
          /\ \A u \in Tx \ {t} : transactions'[u] = transactions[u] /\ heap'[u] = heap[u]
      BY <2>1 DEF Dispute, Write, TypeInv, TypeOK
    <3> QED BY <1>1, <3>1, <3>2, <3>3 DEF Reads, Payable
  <2>2. CASE \E i \in DOMAIN recentTxBuffer : DisputeBuffered(t, i)
    <3>0. PICK i \in DOMAIN recentTxBuffer : DisputeBuffered(t, i)
      BY <2>2
    <3> DEFINE r == recentTxBuffer[i].rec
               buf == RemoveAt(recentTxBuffer, i)
    <3>1. /\ recentTxBuffer[i] \in Held(recentTxBuffer) /\ recentTxBuffer[i].id = t
          /\ ~InMap(t) /\ r.status = "completed"
          /\ recentTxBuffer' = Remember(buf, t, Marked(r, "disputed"))
          /\ UNCHANGED <<transactions, heap>>
      BY <3>0 DEF DisputeBuffered, Finds, Held
    <3>2. r \in Record /\ hold[t] = "done" /\ Covered(r, Credit(t))
      BY <1>1, <3>1, EntryTyped DEF TypeInv, Own, OneRecord, Backed
    <3>3. /\ buf \in Seq(Buffered) /\ Distinct(buf)
          /\ \A e \in Held(buf) : e \in Held(recentTxBuffer) /\ e.id # t
      BY <1>1, <3>1, RemoveHeld, RemovedIs
    <3>4. Reads(t, "completed") /\ ~Payable(t)
      BY <3>1 DEF Reads, Payable
    <3>5. transactions'[t] = None
      BY <3>1 DEF InMap
    <3>6. \A u \in Tx \ {t} : transactions'[u] = transactions[u] /\ heap'[u] = heap[u]
      BY <3>1
    <3> HIDE DEF r, buf
    <3> QED BY <3>1, <3>2, <3>3, <3>4, <3>5, <3>6
  <2> QED BY <2>1, <2>2
<1>4. PICK r \in Record, buf \in Seq(Buffered) :
        /\ r.status = "completed" /\ Reads(t, "completed") /\ Covered(r, Credit(t))
        /\ ~Payable(t) /\ hold[t] = "done"
        /\ Distinct(buf)
        /\ \A e \in Held(buf) : e \in Held(recentTxBuffer) /\ e.id # t
        /\ recentTxBuffer' = Remember(buf, t, Marked(r, "disputed"))
        /\ transactions'[t] = None
        /\ \A u \in Tx \ {t} : transactions'[u] = transactions[u] /\ heap'[u] = heap[u]
  BY <1>3
<1> DEFINE x == Marked(r, "disputed")
<1>5. x \in Record /\ x.status = "disputed" /\ x.net = r.net
  BY MarkedTyped DEF Status, Marked
<1>6. recentTxBuffer' = Remember(buf, t, x)
  BY <1>4
<1> HIDE DEF x
<1>7. Frame(t)
  BY <1>2, <1>4 DEF Frame
<1>8. Credit(t)' = Credit(t) /\ Credit(t) \in Int
  BY <1>2, CreditIs DEF Credit, NetHeld, Quiet, CreditRule
<1>9. Paid(t) /\ Credit(t)' >= 0 /\ Covered(x, Credit(t)')
  BY <1>1, <1>2, <1>4, <1>5, <1>8 DEF Paid, TypeInv, TypeOK, Own, Backed, Covered
<1>10. ~lockBroken' => post'[t]["escrow"] = 0
  BY <1>1, <1>2, <1>4 DEF Own, Escrowed
<1>11. settling'[t].pc = "idle" /\ refunding'[t].pc = "idle" /\ sweep'.tx # t
  BY <1>2 DEF Quiet
<1>12. x.status \in Closed /\ Leads("completed", x.status) /\ "completed" \in Status
  BY <1>5 DEF Closed, Leads, Status
<1> QED
  BY <1>2, <1>4, <1>5, <1>6, <1>7, <1>9, <1>10, <1>11, <1>12, IntoBuffer

\* A dispute outcome keeps the net amount, reopens nothing, and takes from the
\* wallet or leaves it.
LEMMA ResolutionMoves ==
  ASSUME TypeInv, NEW r \in Record, NEW outcome, ResolveMoney(r, outcome)
  PROVE  /\ Resolution(r, outcome) \in Record /\ Resolution(r, outcome).net = r.net
         /\ Leads(r.status, Resolution(r, outcome).status)
         /\ Resolution(r, outcome).status = "pending" <=> r.status = "pending"
         /\ r.status \notin {"completed", "disputed"} =>
              Resolution(r, outcome).status \notin {"completed", "disputed"}
         /\ Resolution(r, outcome).status = r.status
              \/ Resolution(r, outcome).status \in {"refunded", "completed"}
         /\ wallet' <= wallet \/ wallet' <= 0
         /\ wallet' \in Int
<1>1. Resolution(r, outcome) \in Record /\ wallet' \in Int
  BY ResolutionTyped, ResolveMoneyTyped DEF TypeInv
<1>2. CASE r.status # "disputed"
  BY <1>1, <1>2 DEF Resolution, ResolveMoney, Leads, TypeInv, TypeOK
<1>3. CASE r.status = "disputed"
  <2>1. /\ Resolution(r, outcome).net = r.net
        /\ Resolution(r, outcome).status \in {"refunded", "completed"}
    BY <1>3 DEF Resolution, Marked
  <2>2. wallet' <= wallet \/ wallet' <= 0
    <3>1. wallet \in Int /\ r.net \in Nat
      BY DEF TypeInv, TypeOK, Record
    <3>2. wallet' = Floor0(wallet - r.net) \/ wallet' = wallet
      BY <1>3 DEF ResolveMoney
    <3> QED BY <3>1, <3>2 DEF Floor0
  <2> QED BY <1>1, <1>3, <2>1, <2>2 DEF Leads
<1> QED BY <1>2, <1>3

\* A dispute outcome is applied in the map, in the buffer, or to nothing.
LEMMA ResolveGood ==
  ASSUME ~Overlap, TypeInv, SafeInv, OwnInv, TypeInv', NEW t \in Tx, NEW outcome \in Outcome,
         ResolveDispute(t, outcome)
  PROVE  Good(t)
<1>1. Own(t) /\ recentTxBuffer \in Seq(Buffered) /\ Distinct(recentTxBuffer)
  BY DEF OwnInv, TypeInv, TypeOK
<1>2. /\ UNCHANGED <<hold, amt, transactions, settling, refunding, sweep, lockBroken, post,
                     feeRecords>>
      /\ Quiet(t)
  BY MayStartQuiet DEF ResolveDispute, holds, calls, lock
<1>3. Credit(t)' = Credit(t) /\ Credit(t) \in Int /\ Credit(t) >= 0
  BY <1>1, <1>2, CreditIs DEF Credit, NetHeld, Quiet, CreditRule, Own, Backed
<1>4. Turn(t)'
  BY <1>2 DEF Turn, Quiet
<1>5. CASE /\ InMap(t)
           /\ ResolveMoney(Live(t), outcome)
           /\ Write(t, transactions[t], Resolution(Live(t), outcome))
           /\ UNCHANGED recentTxBuffer
  <2> DEFINE r == Live(t)
             x == Resolution(r, outcome)
  <2>1. r \in Record /\ transactions[t] \in Obj /\ ResolveMoney(r, outcome)
    BY <1>5 DEF Live, InMap, TypeInv, TypeOK
  <2>2. /\ x \in Record /\ x.net = r.net /\ Leads(r.status, x.status)
        /\ (x.status = "pending" <=> r.status = "pending")
        /\ r.status \notin {"completed", "disputed"} =>
             x.status \notin {"completed", "disputed"}
        /\ x.status = r.status \/ x.status \in {"refunded", "completed"}
        /\ wallet' <= wallet \/ wallet' <= 0
        /\ wallet' \in Int
    BY <2>1, ResolutionMoves
  <2>3. heap'[t][transactions[t]] = x /\ \A u \in Tx \ {t} : heap'[u] = heap[u]
    BY <1>5, <2>1 DEF Write, TypeInv, TypeOK
  <2>4. r.status # "none" /\ Covered(r, Credit(t))
    BY <1>1, <1>5 DEF Own, OneRecord, Backed
  <2>5. Live(t).status = r.status
    OBVIOUS
  <2>6. Escrowed(t)'
    <3>1. Live(t)' = x
      BY <1>2, <2>3 DEF Live
    <3>2. Payable(t)' <=> Payable(t)
      BY <1>2, <2>2, <3>1 DEF Payable, InMap
    <3> QED BY <1>1, <1>2, <3>2 DEF Own, Escrowed
  <2> HIDE DEF x, r
  <2>7. Live(t)' = x /\ Frame(t)
    BY <1>2, <2>3 DEF Live, Frame
  <2>8. Covered(x, Credit(t)') /\ x.status # "none"
    BY <1>3, <2>2, <2>4 DEF Covered
  <2>9. Paid(t)
    BY <1>3, <2>2 DEF Paid, TypeInv, TypeOK
  <2> QED BY <1>2, <1>3, <1>4, <1>5, <2>2, <2>5, <2>6, <2>7, <2>8, <2>9, LiveMoves
<1>6. ASSUME NEW i \in DOMAIN recentTxBuffer, ~InMap(t), Finds(t, i),
             ResolveMoney(recentTxBuffer[i].rec, outcome),
             recentTxBuffer' = [recentTxBuffer EXCEPT ![i] =
               [id |-> t, rec |-> Resolution(recentTxBuffer[i].rec, outcome)]],
             UNCHANGED heap
      PROVE  Good(t)
  <2> DEFINE r == recentTxBuffer[i].rec
             x == Resolution(r, outcome)
  <2>1. /\ r \in Record /\ recentTxBuffer[i].id = t
        /\ recentTxBuffer[i] \in Held(recentTxBuffer)
    BY <1>6, EntryTyped DEF TypeInv, Finds, Held
  <2>2. /\ x \in Record /\ x.net = r.net /\ Leads(r.status, x.status)
        /\ r.status \notin {"completed", "disputed"} =>
             x.status \notin {"completed", "disputed"}
        /\ x.status = r.status \/ x.status \in {"refunded", "completed"}
        /\ wallet' <= wallet \/ wallet' <= 0
        /\ wallet' \in Int
    BY <1>6, <2>1, ResolutionMoves
  <2>3. r.status \in Closed /\ hold[t] = "done" /\ Covered(r, Credit(t))
    BY <1>1, <2>1 DEF Own, OneRecord, Backed
  <2>4. recentTxBuffer' = [recentTxBuffer EXCEPT ![i] = Entry(t, x)]
    BY <1>6 DEF Entry
  <2>5. Reads(t, r.status)
    BY <1>6, <2>1 DEF Reads
  <2> HIDE DEF r, x
  <2>6. /\ Distinct(recentTxBuffer')
        /\ Entry(t, x) \in Held(recentTxBuffer')
        /\ \A e \in Held(recentTxBuffer') :
             e = Entry(t, x) \/ (e \in Held(recentTxBuffer) /\ e.id # t)
    <3> DEFINE b == [recentTxBuffer EXCEPT ![i] = Entry(t, x)]
    <3>1. /\ Distinct(b) /\ Entry(t, x) \in Held(b)
          /\ \A e \in Held(b) : e = Entry(t, x) \/ (e \in Held(recentTxBuffer) /\ e.id # t)
      BY <1>1, <2>1, ReplaceHeld
    <3>2. recentTxBuffer' = b
      BY <2>4
    <3> HIDE DEF b
    <3> QED BY <3>1, <3>2
  <2>7. Entry(t, x).id = t /\ Entry(t, x).rec = x
    BY DEF Entry
  <2>8. Apart(t)
    BY <1>2, <1>6, <2>6, <2>7 DEF Apart, Frame, BufferFrame
  <2>9. ~InMap(t)' /\ \A e \in Held(recentTxBuffer)' : e.id = t => e.rec = x
    BY <1>2, <1>6, <2>6, <2>7 DEF InMap
  <2>10. x.status \in Closed /\ Covered(x, Credit(t)')
    BY <1>3, <2>2, <2>3 DEF Closed, Covered
  <2>11. OneRecord(t)'
    BY <1>2, <2>3, <2>9, <2>10 DEF OneRecord
  <2>12. Escrowed(t)'
    BY <1>1, <1>2, <1>6, <2>9 DEF Own, Escrowed, Payable
  <2>13. Backed(t)'
    BY <1>3, <2>9, <2>10 DEF Backed
  <2>14. Kept(t)
    <3>1. PICK b \in Status : b = x.status
      BY <2>2 DEF Record
    <3>2. Reads(t, b)'
      BY <2>6, <2>7, <2>9, <3>1 DEF Reads
    <3>3. PICK a \in Status : a = r.status
      BY <2>3 DEF Closed, Status
    <3>4. Reads(t, a) /\ Leads(a, b)
      BY <2>2, <2>5, <3>1, <3>3
    <3> QED BY <1>2, <2>8, <3>2, <3>4, Leading
  <2>15. Paid(t)
    BY <1>3, <2>2 DEF Paid, TypeInv, TypeOK
  <2> QED BY <1>4, <2>8, <2>11, <2>12, <2>13, <2>14, <2>15 DEF Good, Own
<1>7. CASE UNCHANGED <<heap, recentTxBuffer, counts, wallet>>
  <2>1. Frame(t)
    BY <1>2, <1>7 DEF Frame
  <2>2. settling[t].pc # "locking"
    BY <1>2 DEF Quiet
  <2> QED BY <1>2, <1>4, <1>7, <2>1, <2>2, CallMoves
<1> QED BY <1>5, <1>6, <1>7 DEF ResolveDispute
-----------------------------------------------------------------------------
\* Every step concerns one transaction, or none.
LEMMA OneAtATime ==
  ASSUME ~Overlap, TypeInv, SafeInv, OwnInv, TypeInv', Next
  PROVE  (\E t \in Tx : Good(t)) \/ Reconcile \/ EnablePersistence
<1>1. ASSUME NEW t \in Tx, Starts(t) PROVE Good(t)
  <2>1. CASE \E amount \in Amount : Charge(t, amount)  BY <2>1, ChargeGood
  <2>2. CASE Settle(t)  BY <2>2, SettleWaitsGood, SettleRecordsGood
  <2>3. CASE Refund(t)  BY <2>3, RefundWaitsGood, RefundGood
  <2>4. CASE Expire(t)  BY <2>4, SweepWaitsGood, ExpireGood
  <2>5. CASE Dispute(t)  BY <2>5, DisputeGood
  <2>6. CASE \E outcome \in Outcome : ResolveDispute(t, outcome)  BY <2>6, ResolveGood
  <2>7. ASSUME NEW i \in DOMAIN recentTxBuffer, DisputeBuffered(t, i)
        PROVE  Good(t)
    BY <2>7, DisputeGood
  <2>8. ASSUME NEW i \in DOMAIN recentTxBuffer, NEW o \in Obj,
               RefundBuffered(t, i, o) \/ RefundBufferedAtOnce(t, i, o)
                 \/ RefundRejected(t, i, o) \/ DisputeRejected(t, i, o)
        PROVE  Good(t)
    BY <2>8, ReactivatedGood, RefundBufferedGood
  <2> QED BY <1>1, <2>1, <2>2, <2>3, <2>4, <2>5, <2>6, <2>7, <2>8 DEF Starts
<1>2. ASSUME NEW t \in Tx, HoldFails(t) \/ \E o \in Obj : HoldCreated(t, o) PROVE Good(t)
  BY <1>2, ChargeGood, HoldCreatedGood
<1>3. ASSUME NEW t \in Tx, Continues(t) PROVE Good(t)
  BY <1>3, SettleWaitsGood, SettleRecordsGood, WalletCreditsGood, SettleEndsGood,
     RefundWaitsGood, RefundGood DEF Continues
<1>4. ASSUME RailReversesExpired \/ ExpireEnds PROVE \E t \in Tx : Good(t)
  <2>1. sweep.tx \in Tx
    BY <1>4 DEF RailReversesExpired, ExpireEnds, TypeInv, CallsTyped
  <2> QED BY <1>4, <2>1, SweepWaitsGood, ExpireGood
<1> QED BY <1>1, <1>2, <1>3, <1>4 DEF Next

\* reconcile() and enablePersistence() touch no transaction.
LEMMA NobodyMoves ==
  ASSUME TypeInv, OwnInv, TypeInv',
         Reconcile \/ EnablePersistence \/ UNCHANGED vars
  PROVE  /\ OwnInv'
         /\ \A t \in Tx : Kept(t) /\ Credit(t)' = Credit(t)
         /\ ~Reconciles => UNCHANGED wallet
<1>1. /\ UNCHANGED <<hold, amt, heap, transactions, recentTxBuffer, settling, refunding, sweep,
                     lockBroken, post, feeRecords>>
      /\ ~Reconciles => UNCHANGED wallet
  BY DEF Reconcile, EnablePersistence, vars, holds, books, calls, lock, money
<1>2. \A t \in Tx : Credit(t)' = Credit(t)
  BY <1>1 DEF Credit, NetHeld
<1>3. OwnInv'
  BY <1>1, <1>2 DEF OwnInv, Own, Turn, OneRecord, Escrowed, Backed, Payable, InMap, Live
<1>4. \A t \in Tx : Kept(t)
  <2>1. \A t \in Tx : PhaseOf(t)' = PhaseOf(t)
    BY <1>1 DEF PhaseOf, StatusOf, Found, Finds, InMap, Live
  <2> QED BY <2>1 DEF Kept, PhaseOf, Contract!Promised
<1> QED BY <1>1, <1>2, <1>3, <1>4

\* Every step keeps what each transaction keeps, and the contract.
LEMMA TurnsStep ==
  ASSUME ~Overlap, TypeInv, SafeInv, OwnInv, TypeInv', [Next]_vars
  PROVE  OwnInv' /\ \A t \in Tx : Kept(t)
<1>1. ASSUME NEW t \in Tx, Good(t) PROVE OwnInv' /\ \A u \in Tx : Kept(u)
  <2>1. \A u \in Tx : Own(u)' /\ Kept(u)
    BY <1>1, Bystander DEF Good
  <2> QED BY <1>1, <2>1 DEF Good, Apart, BufferFrame, OwnInv
<1> QED BY <1>1, OneAtATime, NobodyMoves

\* In the initial state nothing is charged.
LEMMA TurnsStart ==
  ASSUME Init
  PROVE  OwnInv /\ \A t \in Tx : Credit(t) = 0
<1>1. \A t \in Tx : 0 * amt[t] = 0
  BY DEF Init
<1>2. \A t \in Tx : Credit(t) = 0
  BY <1>1 DEF Init, Credit, NetHeld, NoPostings, Account, Idle, At
<1>3. Distinct(recentTxBuffer) /\ Held(recentTxBuffer) = {}
  BY DEF Init, Distinct, Held
<1>4. \A t \in Tx : ~InMap(t) /\ sweep.tx # t
  BY PaymentsAssumption DEF Init, InMap, NoSweep
<1>5. \A t \in Tx : Own(t)
  BY <1>2, <1>3, <1>4
     DEF Init, Own, Turn, OneRecord, Escrowed, Backed, Payable, NoPostings, Account, Idle, At
<1> QED BY <1>2, <1>3, <1>5 DEF OwnInv

\* OwnInv holds in every reachable state.
LEMMA TurnsAlways == ASSUME ~Overlap PROVE Spec => [](TypeInv /\ SafeInv /\ OwnInv)
<1>1. Init => OwnInv
  BY TurnsStart
<1>2. TypeInv /\ SafeInv /\ OwnInv /\ [Next]_vars /\ TypeInv' => OwnInv'
  BY TurnsStep
<1> QED BY <1>1, <1>2, SafeAlways, PTL DEF Spec
-----------------------------------------------------------------------------
(***************************************************************************)
(* For any number of transactions whose calls take turns: the ledger's     *)
(* escrow of each is its amount from the charge until the settlement is    *)
(* recorded, and nothing otherwise, as long as no wallet callback failed.  *)
(***************************************************************************)
THEOREM EscrowIsPending == Spec => []EscrowMatchesPending
<1>1. CASE Overlap
  <2>1. EscrowMatchesPending
    BY <1>1 DEF EscrowMatchesPending
  <2> QED BY <2>1, PTL
<1>2. CASE ~Overlap
  <2>1. OwnInv => EscrowMatchesPending
    BY DEF OwnInv, Own, Escrowed, EscrowMatchesPending
  <2> QED BY <1>2, <2>1, TurnsAlways, PTL
<1> QED BY <1>1, <1>2

(***************************************************************************)
(* The engine implements the escrow contract for any number of             *)
(* transactions and any capacity of the ring buffer, when the calls on one *)
(* transaction take turns: initial states map to initial states, and every *)
(* step to phases the contract promises.                                   *)
(***************************************************************************)
THEOREM EngineKeepsContract == ASSUME ~Overlap PROVE Spec => ImplementsContract
<1>1. Init => Contract!Init
  <2>1. ASSUME Init, NEW t \in Tx PROVE PhaseOf(t) = "none"
    <3>1. ~InMap(t) /\ DOMAIN recentTxBuffer = {}
      BY <2>1 DEF Init, InMap
    <3>2. StatusOf(t) = "none"
      BY <3>1 DEF StatusOf, Found
    <3> QED BY <2>1, <3>2 DEF PhaseOf, Init
  <2> QED BY <2>1 DEF Contract!Init
<1>2. TypeInv /\ SafeInv /\ OwnInv /\ [Next]_vars /\ TypeInv'
        => [Contract!Next]_[t \in Tx |-> PhaseOf(t)]
  <2> SUFFICES ASSUME TypeInv, SafeInv, OwnInv, [Next]_vars, TypeInv'
               PROVE  Contract!Next
    OBVIOUS
  <2>1. \A t \in Tx : PhaseOf(t)' \in Contract!Promised(PhaseOf(t))
    BY TurnsStep DEF Kept
  <2>2. \A t \in Tx : PhaseOf(t)' \in Contract!Phase
    BY DEF PhaseOf, Contract!Phase
  <2> QED BY <2>1, <2>2 DEF Contract!Next
<1> QED BY <1>1, <1>2, TurnsAlways, PTL DEF Spec, ImplementsContract, Contract!Spec

\* A step adds to the wallet no more than it adds to the credits.
LEMMA WalletStep ==
  ASSUME ~Overlap, IsFiniteSet(Tx), TypeInv, SafeInv, OwnInv, TypeInv', OwnInv', WalletInv,
         [Next]_vars
  PROVE  WalletInv'
<1> SUFFICES ASSUME ~Reconciles
             PROVE  wallet' <= SumFunctionOnSet([t \in Tx |-> Credit(t)'], Tx)
  BY DEF WalletInv
<1> DEFINE f == [t \in Tx |-> Credit(t)]
           h == [t \in Tx |-> Credit(t)']
<1>1. CreditRule /\ CreditRule'
  BY CreditIs, PTL
<1>2. \A t \in Tx : f[t] \in Int /\ h[t] \in Nat
  BY <1>1 DEF CreditRule, OwnInv, Own, Backed
<1>3. wallet <= SumFunctionOnSet(f, Tx) /\ wallet \in Int /\ wallet' \in Int
  BY DEF WalletInv, TypeInv, TypeOK
<1>4. SumFunctionOnSet(h, Tx) \in Nat /\ SumFunctionOnSet(f, Tx) \in Int
  BY <1>2, SumNat, SumInt
<1>5. ASSUME NEW t \in Tx, Good(t)
      PROVE  wallet' <= SumFunctionOnSet(h, Tx)
  <2>1. \A u \in Tx \ {t} : h[u] = f[u]
    BY <1>5, Bystander DEF Good
  <2>2. SumFunctionOnSet(h, Tx) = SumFunctionOnSet(f, Tx) + h[t] - f[t]
    BY <1>2, <2>1, SumChange
  <2>3. wallet' - wallet <= h[t] - f[t] \/ wallet' <= 0
    BY <1>5 DEF Good, Paid
  <2> HIDE DEF f, h
  <2> QED BY <1>2, <1>3, <1>4, <2>2, <2>3
<1>6. CASE Reconcile \/ EnablePersistence \/ UNCHANGED vars
  <2>1. UNCHANGED wallet /\ f = h
    BY <1>6, NobodyMoves
  <2> QED BY <2>1, <1>3
<1> QED BY <1>5, <1>6, OneAtATime

(***************************************************************************)
(* For any finite set of transactions whose calls take turns, while nobody *)
(* overwrites the wallet with reconcile(): the wallet holds no more than   *)
(* the net payouts the ledger recorded and did not take back.              *)
(***************************************************************************)
THEOREM WalletIsBacked == ASSUME IsFiniteSet(Tx) PROVE Spec => []WalletBacked
<1>1. CASE Overlap
  <2>1. WalletBacked
    BY <1>1 DEF WalletBacked
  <2> QED BY <2>1, PTL
<1>2. CASE ~Overlap
  <2>1. Init => WalletInv
    <3> SUFFICES ASSUME Init PROVE wallet <= SumFunctionOnSet([t \in Tx |-> Credit(t)], Tx)
      BY DEF WalletInv
    <3>1. \A t \in Tx : [u \in Tx |-> Credit(u)][t] = 0
      BY TurnsStart
    <3>2. SumFunctionOnSet([t \in Tx |-> Credit(t)], Tx) = 0
      BY <3>1, SumZero
    <3> QED BY <3>2 DEF Init
  <2>2. TypeInv /\ SafeInv /\ OwnInv /\ TypeInv' /\ OwnInv' /\ WalletInv /\ [Next]_vars
          => WalletInv'
    BY <1>2, WalletStep
  <2>3. TypeInv /\ WalletInv => WalletBacked
    <3> SUFFICES ASSUME TypeInv, WalletInv, ~Reconciles
                 PROVE  wallet <= SumFunctionOnSet([t \in Tx |-> NetHeld(t)], Tx)
      BY DEF WalletBacked
    <3> DEFINE f == [t \in Tx |-> Credit(t)]
               h == [t \in Tx |-> NetHeld(t)]
    <3>1. \A t \in Tx : f[t] \in Int /\ h[t] \in Int /\ f[t] <= h[t]
      BY CreditIs DEF CreditRule
    <3>2. SumFunctionOnSet(f, Tx) <= SumFunctionOnSet(h, Tx)
          /\ SumFunctionOnSet(f, Tx) \in Int /\ SumFunctionOnSet(h, Tx) \in Int
      BY <3>1, SumMonotonic, SumInt
    <3>3. wallet <= SumFunctionOnSet(f, Tx) /\ wallet \in Int
      BY DEF WalletInv, TypeInv, TypeOK
    <3> HIDE DEF f, h
    <3>4. wallet <= SumFunctionOnSet(h, Tx)
      BY <3>2, <3>3
    <3> QED BY <3>4 DEF h
  <2> QED BY <1>2, <2>1, <2>2, <2>3, TurnsAlways, PTL DEF Spec
<1> QED BY <1>1, <1>2
=============================================================================
