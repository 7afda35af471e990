---------------------------- MODULE AgentPayments ----------------------------
(***************************************************************************)
(* The money operations of MnemoPayLite (src/src/index.ts): charge,        *)
(* settle, refund, expireStaleEscrows, dispute, resolveDispute and         *)
(* reconcile, with the rail, the double-entry ledger, the wallet lock, the *)
(* map of live transactions and the ring buffer of terminal ones.          *)
(*                                                                         *)
(* The engine is one JavaScript thread: what runs between two awaits is    *)
(* one action here, and every await is a place where other calls step in.  *)
(***************************************************************************)
EXTENDS Postings, Sequences, SequencesExt, FiniteSets, FiniteSetsExt

CONSTANTS
  Tx,                 \* ids of the charges that can be made
  Obj,                \* identities of the objects that record a transaction
  None,               \* no object, no transaction
  Amount,             \* charge amounts, in cents
  Fee,                \* platform fees a settlement may be charged
  MaxTransactions,    \* MAX_TRANSACTIONS
  MaxWallet,          \* MAX_WALLET_BALANCE
  TxHistoryBuffer,    \* TX_HISTORY_BUFFER
  RequireCounterparty,\* requireCounterparty
  Outcome,            \* outcomes disputes are resolved with
  RailSoftFails,      \* a rail may report a failure without throwing
  Overlap,            \* calls on one transaction may overlap in time
  Reconciles,         \* reconcile() is called
  MaxSettlements,     \* bound: settlements recorded per transaction
  MaxDisputes         \* bound: disputes filed per transaction

ASSUME PaymentsAssumption ==
  /\ None \notin Tx \cup Obj
  /\ Amount \subseteq Nat \ {0}
  /\ Fee \subseteq Nat
  /\ \A a \in Amount : \E f \in Fee : f < a
  /\ MaxTransactions \in Nat
  /\ MaxWallet \in Nat
  /\ TxHistoryBuffer \in Nat \ {0}
  /\ {RequireCounterparty, RailSoftFails, Overlap, Reconciles} \subseteq BOOLEAN
  /\ Outcome \subseteq {"refund", "uphold"}
  /\ {MaxSettlements, MaxDisputes} \subseteq Nat

VARIABLES
  hold,         \* the charge() call of each id: its hold on the rail
  amt,          \* the amount charged, 0 before
  hasPersist,   \* _hasPersist
  externalId,   \* transactions whose objects hold the id of the rail's hold
  heap,         \* the objects that record each transaction
  transactions, \* the map: the live object of each id, or None
  recentTxBuffer, \* terminal transactions, oldest first: copies of objects
  counts,       \* _settledCount, _refundedCount, _disputeCount,
                \* _pendingCount, _totalValueSettled
  settling,     \* _settlingTxIds with where each settle() stands
  refunding,    \* _refundingTxIds with where each refund() stands
  sweep,        \* the expireStaleEscrows() loop at its await
  wallet,       \* _wallet
  walletLock,   \* callbacks queued on the _walletLock promise chain
  lockBroken,   \* the chain holds a rejected promise
  balances,     \* the ledger's running account balances
  post,         \* the ledger's postings, per related transaction
  feeRecords,   \* platform fee records per transaction
  rail,         \* what the rail did with each hold
  openDispute,  \* transactions with an open dispute about them
  filed         \* disputes filed so far about the transaction

holds  == <<hold, amt, hasPersist, externalId>>
money  == <<wallet, balances, post, feeRecords>>
books  == <<recentTxBuffer, counts>>
calls  == <<settling, refunding, sweep>>
lock   == <<walletLock, lockBroken>>
vars   == <<holds, heap, transactions, books, calls, lock, money, rail,
            openDispute, filed>>

Status == {"none", "pending", "completed", "refunded", "expired", "disputed"}

Counter == {"settled", "refunded", "disputed", "pending", "value"}

\* A transaction object: status and netAmount.
Record == [status : Status, net : Nat]
NoRecord == [status |-> "none", net |-> 0]
Marked(r, status) == [status |-> status, net |-> r.net]

Buffered == [id : Tx, rec : Record]

SettlePc == {"idle", "capturing", "captured", "locking", "applied"}
RefundPc == {"idle", "reversing", "reversed"}
At(pc, o) == [pc |-> pc, obj |-> o]
Idle == At("idle", None)
NoSweep == [pc |-> "idle", tx |-> None, obj |-> None]

TypeOK ==
  /\ hold \in [Tx -> {"none", "creating", "done", "failed"}]
  /\ amt \in [Tx -> Nat]
  /\ hasPersist \in BOOLEAN
  /\ externalId \subseteq Tx
  /\ heap \in [Tx -> [Obj -> Record]]
  /\ transactions \in [Tx -> Obj \cup {None}]
  /\ recentTxBuffer \in Seq(Buffered)
  /\ counts \in [Counter -> Nat]
  /\ settling \in [Tx -> [pc : SettlePc, obj : Obj \cup {None}]]
  /\ refunding \in [Tx -> [pc : RefundPc, obj : Obj \cup {None}]]
  /\ sweep \in [pc : RefundPc, tx : Tx \cup {None}, obj : Obj \cup {None}]
  /\ wallet \in Int
  /\ walletLock \in Seq(Tx)
  /\ lockBroken \in BOOLEAN
  /\ balances \in [Account -> Int]
  /\ post \in [Tx -> [Account -> Int]]
  /\ feeRecords \in [Tx -> Nat]
  /\ rail \in [Tx -> SUBSET {"captured", "reversed"}]
  /\ openDispute \subseteq Tx
  /\ filed \in [Tx -> Nat]

Init ==
  /\ hold = [t \in Tx |-> "none"]
  /\ amt = [t \in Tx |-> 0]
  /\ hasPersist = FALSE
  /\ externalId = {}
  /\ heap = [t \in Tx |-> [o \in Obj |-> NoRecord]]
  /\ transactions = [t \in Tx |-> None]
  /\ recentTxBuffer = <<>>
  /\ counts = [c \in Counter |-> 0]
  /\ settling = [t \in Tx |-> Idle]
  /\ refunding = [t \in Tx |-> Idle]
  /\ sweep = NoSweep
  /\ wallet = 0
  /\ walletLock = <<>>
  /\ lockBroken = FALSE
  /\ balances = NoPostings
  /\ post = [t \in Tx |-> NoPostings]
  /\ feeRecords = [t \in Tx |-> 0]
  /\ rail = [t \in Tx |-> {}]
  /\ openDispute = {}
  /\ filed = [t \in Tx |-> 0]
-----------------------------------------------------------------------------
\* Slip: a counter is decremented without its floor.
Floor0Missing(n) == n

Floor0(n) == IF n < 0 THEN 0 ELSE n

PayoutAccount == Payee(RequireCounterparty)

InMap(t) == transactions[t] # None
Live(t) == heap[t][transactions[t]]

\* No call on t is between two of its steps.
Quiet(t) == /\ settling[t].pc = "idle"
            /\ refunding[t].pc = "idle"
            /\ sweep.tx # t
MayStart(t) == Overlap \/ Quiet(t)

\* _recentTxBuffer.find(): the oldest entry with the id.
Finds(t, i) ==
  /\ i \in DOMAIN recentTxBuffer
  /\ recentTxBuffer[i].id = t
  /\ \A j \in 1 .. i - 1 : recentTxBuffer[j].id # t

\* push() and, beyond the capacity, shift().
Remember(buffer, t, r) ==
  LET pushed == Append(buffer, [id |-> t, rec |-> r])
  IN  IF Len(pushed) > TxHistoryBuffer THEN Tail(pushed) ELSE pushed

\* The object o of t now reads r.
Write(t, o, r) == heap' = [heap EXCEPT ![t][o] = r]

\* The counters without a completed transaction that leaves the buffer.
Uncounted(r) ==
  IF r.status = "completed"
    THEN [counts EXCEPT !["settled"] = Floor0(@ - 1),
                        !["value"] = Floor0(@ - r.net)]
    ELSE counts

\* The postings of t become p; the account totals follow.
PostTo(t, p) ==
  /\ post' = [post EXCEPT ![t] = p]
  /\ balances' = [a \in Account |-> balances[a] + p[a] - post[t][a]]

\* An object of t that neither the map nor a call in progress refers to.
Unused(t, o) ==
  /\ o \in Obj
  /\ o # transactions[t]
  /\ o # settling[t].obj
  /\ o # refunding[t].obj
  /\ sweep.tx = t => o # sweep.obj
-----------------------------------------------------------------------------
(***************************************************************************)
(* charge(): every check, the sequence number and the fraud record before  *)
(* the await; the transaction, its escrow posting and the counter after.   *)
(* The reputation ceiling and the fraud score may refuse any charge and    *)
(* then change nothing here.                                               *)
(***************************************************************************)
Charge(t, amount) ==
  /\ hold[t] = "none"
  /\ Cardinality({u \in Tx : InMap(u)}) < MaxTransactions
  /\ hold' = [hold EXCEPT ![t] = "creating"]
  /\ amt' = [amt EXCEPT ![t] = amount]
  /\ UNCHANGED <<hasPersist, externalId, heap, transactions, books, calls, lock,
                 money, rail, openDispute, filed>>

HoldFails(t) ==
  /\ hold[t] = "creating"
  /\ hold' = [hold EXCEPT ![t] = "failed"]
  /\ UNCHANGED <<amt, hasPersist, externalId, heap, transactions, books, calls,
                 lock, money, rail, openDispute, filed>>

HoldCreated(t, o) ==
  /\ hold[t] = "creating"
  /\ Unused(t, o)
  /\ hold' = [hold EXCEPT ![t] = "done"]
  /\ externalId' = IF hasPersist THEN externalId \cup {t} ELSE externalId
  /\ Write(t, o, Marked(NoRecord, "pending"))
  /\ transactions' = [transactions EXCEPT ![t] = o]
  /\ counts' = [counts EXCEPT !["pending"] = @ + 1]
  /\ PostTo(t, RecordCharge(post[t], amt[t]))
  /\ UNCHANGED <<amt, hasPersist, recentTxBuffer, calls, lock, wallet, feeRecords,
                 rail, openDispute, filed>>
-----------------------------------------------------------------------------
(***************************************************************************)
(* settle(), after the capture: the fee is recorded, the ledger settled,   *)
(* and the wallet callback queued on the lock.                             *)
(***************************************************************************)
RecordSettle(t, o, fee) ==
  /\ fee < amt[t]
  /\ Write(t, o, [status |-> heap[t][o].status, net |-> amt[t] - fee])
  /\ feeRecords' = [feeRecords EXCEPT ![t] = @ + 1]
  /\ PostTo(t, RecordSettlement(post[t], amt[t], fee, amt[t] - fee,
                                PayoutAccount))
  /\ walletLock' = Append(walletLock, t)
  /\ settling' = [settling EXCEPT ![t] = At("locking", o)]

\* Slip: settle() without its guard against a concurrent settle().
SettleUnguarded(t) ==
  /\ MayStart(t)
  /\ InMap(t)
  /\ Live(t).status = "pending"
  /\ feeRecords[t] < MaxSettlements
  /\ IF t \in externalId
       THEN /\ settling' = [settling EXCEPT ![t] =
                              At("capturing", transactions[t])]
            /\ UNCHANGED <<heap, feeRecords, post, balances, walletLock>>
       ELSE \E fee \in Fee : RecordSettle(t, transactions[t], fee)
  /\ UNCHANGED <<holds, transactions, books, refunding, sweep, wallet,
                 lockBroken, rail, openDispute, filed>>

\* settle() up to its first await.  Charged without persistence, the object holds
\* no rail id, and the call goes straight to the ledger.
Settle(t) ==
  /\ MayStart(t)
  /\ InMap(t)
  /\ Live(t).status = "pending"
  /\ settling[t].pc = "idle"
  /\ feeRecords[t] < MaxSettlements
  /\ IF t \in externalId
       THEN /\ settling' = [settling EXCEPT ![t] =
                              At("capturing", transactions[t])]
            /\ UNCHANGED <<heap, feeRecords, post, balances, walletLock>>
       ELSE \E fee \in Fee : RecordSettle(t, transactions[t], fee)
  /\ UNCHANGED <<holds, transactions, books, refunding, sweep, wallet,
                 lockBroken, rail, openDispute, filed>>

\* The rail answers the capture: done (never on a reversed hold), or a
\* failure status that the engine stores without looking at it.
RailCaptures(t) ==
  /\ settling[t].pc = "capturing"
  /\ settling' = [settling EXCEPT ![t] = At("captured", settling[t].obj)]
  /\ \/ /\ "reversed" \notin rail[t]
        /\ rail' = [rail EXCEPT ![t] = @ \cup {"captured"}]
     \/ /\ RailSoftFails
        /\ UNCHANGED rail
  /\ UNCHANGED <<holds, heap, transactions, books, refunding, sweep, lock,
                 money, openDispute, filed>>

\* Slip: the throwing capture leaves the id in _settlingTxIds.
CaptureThrowsGuarded(t) ==
  /\ settling[t].pc = "capturing"
  /\ settling' = [settling EXCEPT ![t] = At("thrown", settling[t].obj)]
  /\ \/ /\ "reversed" \notin rail[t]
        /\ rail' = [rail EXCEPT ![t] = @ \cup {"captured"}]
     \/ UNCHANGED rail
  /\ UNCHANGED <<holds, heap, transactions, books, refunding, sweep, lock,
                 money, openDispute, filed>>

\* The capture throws, before or after the rail took the money; settle()
\* throws and leaves its guard.
CaptureThrows(t) ==
  /\ settling[t].pc = "capturing"
  /\ settling' = [settling EXCEPT ![t] = Idle]
  /\ \/ /\ "reversed" \notin rail[t]
        /\ rail' = [rail EXCEPT ![t] = @ \cup {"captured"}]
     \/ UNCHANGED rail
  /\ UNCHANGED <<holds, heap, transactions, books, refunding, sweep, lock,
                 money, openDispute, filed>>

SettleRecords(t) ==
  /\ settling[t].pc = "captured"
  /\ \E fee \in Fee : RecordSettle(t, settling[t].obj, fee)
  /\ UNCHANGED <<holds, transactions, books, refunding, sweep, wallet,
                 lockBroken, rail, openDispute, filed>>

\* The queued callback: status, completedAt and wallet together.
WalletCredits(t) ==
  LET o == settling[t].obj
      newBalance == wallet + heap[t][o].net
  IN  /\ walletLock # <<>> /\ Head(walletLock) = t
      /\ settling[t].pc = "locking"
      /\ ~lockBroken
      /\ newBalance <= MaxWallet
      /\ walletLock' = Tail(walletLock)
      /\ wallet' = newBalance
      /\ Write(t, o, Marked(heap[t][o], "completed"))
      /\ settling' = [settling EXCEPT ![t] = At("applied", settling[t].obj)]
      /\ UNCHANGED <<holds, transactions, books, refunding, sweep,
                     lockBroken, balances, post, feeRecords, rail,
                     openDispute, filed>>

\* The callback throws on overflow, or is skipped because an earlier one
\* threw: the chain stays rejected and settle() throws.
WalletRefuses(t) ==
  /\ walletLock # <<>> /\ Head(walletLock) = t
  /\ settling[t].pc = "locking"
  /\ lockBroken \/ wallet + heap[t][settling[t].obj].net > MaxWallet
  /\ walletLock' = Tail(walletLock)
  /\ lockBroken' = TRUE
  /\ settling' = [settling EXCEPT ![t] = Idle]
  /\ UNCHANGED <<holds, heap, transactions, books, refunding, sweep,
                 money, rail, openDispute, filed>>

\* After the lock: counters, a copy into the buffer, out of the map.
SettleEnds(t) ==
  LET r == heap[t][settling[t].obj]
  IN  /\ settling[t].pc = "applied"
      /\ counts' = [counts EXCEPT !["settled"] = @ + 1,
                                  !["pending"] = Floor0(@ - 1),
                                  !["value"] = @ + r.net]
      /\ recentTxBuffer' = Remember(recentTxBuffer, t, r)
      /\ transactions' = [transactions EXCEPT ![t] = None]
      /\ settling' = [settling EXCEPT ![t] = Idle]
      /\ UNCHANGED <<holds, heap, refunding, sweep, lock, money, rail,
                     openDispute, filed>>
-----------------------------------------------------------------------------
(***************************************************************************)
(* refund() and dispute() bring a terminal transaction back: a fresh copy  *)
(* of the i-th buffer entry goes into the map, the entry leaves the        *)
(* buffer, and a completed one leaves the settled counters.                *)
(***************************************************************************)
Reactivate(t, i, o) ==
  LET r == recentTxBuffer[i].rec
  IN  /\ ~InMap(t)
      /\ Finds(t, i)
      /\ Unused(t, o)
      /\ Write(t, o, r)
      /\ recentTxBuffer' = RemoveAt(recentTxBuffer, i)
      /\ counts' = Uncounted(r)

\* Slip: the refund of a completed transaction spares the wallet.
RefundSparesWallet(t, r) ==
  CASE r.status = "completed" ->
         /\ UNCHANGED wallet
         /\ PostTo(t, RecordRefund(post[t], r.net, PayoutAccount))
    [] r.status = "pending" ->
         /\ PostTo(t, RecordCancellation(post[t], amt[t]))
         /\ UNCHANGED wallet
    [] OTHER -> UNCHANGED <<wallet, post, balances>>

\* refund(), after the reversal: what is undone depends on the status the
\* object has now.
RefundMoney(t, r) ==
  CASE r.status = "completed" ->
         /\ wallet' = Floor0(wallet - r.net)
         /\ PostTo(t, RecordRefund(post[t], r.net, PayoutAccount))
    [] r.status = "pending" ->
         /\ PostTo(t, RecordCancellation(post[t], amt[t]))
         /\ UNCHANGED wallet
    [] OTHER -> UNCHANGED <<wallet, post, balances>>

\* The rest of refund() once the rail has answered; cnt and buf are the
\* counters and the buffer as they stand at that point.
RefundCloses(t, o, r, cnt, buf) ==
  /\ RefundMoney(t, r)
  /\ Write(t, o, Marked(r, "refunded"))
  /\ counts' = [cnt EXCEPT !["refunded"] = @ + 1, !["pending"] = Floor0(@ - 1)]
  /\ recentTxBuffer' = Remember(buf, t, Marked(r, "refunded"))
  /\ transactions' = [transactions EXCEPT ![t] = None]
  /\ refunding' = [refunding EXCEPT ![t] = Idle]

Refundable(r) == r.status \in {"pending", "completed", "disputed"}

\* refund() of a transaction in the map, up to its await; without a rail id
\* the whole call is one step.
Refund(t) ==
  /\ MayStart(t)
  /\ InMap(t)
  /\ Refundable(Live(t))
  /\ refunding[t].pc = "idle"
  /\ IF t \in externalId
       THEN /\ refunding' = [refunding EXCEPT ![t] =
                               At("reversing", transactions[t])]
            /\ UNCHANGED <<heap, transactions, books, wallet, post, balances>>
       ELSE RefundCloses(t, transactions[t], Live(t), counts, recentTxBuffer)
  /\ UNCHANGED <<holds, settling, sweep, lock, feeRecords, rail,
                 openDispute, filed>>

\* refund() of a terminal transaction: reactivated first, checked after.
RefundBuffered(t, i, o) ==
  /\ MayStart(t)
  /\ t \in externalId
  /\ Reactivate(t, i, o)
  /\ transactions' = [transactions EXCEPT ![t] = o]
  /\ refunding[t].pc = "idle"
  /\ Refundable(recentTxBuffer[i].rec)
  /\ refunding' = [refunding EXCEPT ![t] = At("reversing", o)]
  /\ UNCHANGED <<holds, settling, sweep, lock, money, rail, openDispute, filed>>

RefundBufferedAtOnce(t, i, o) ==
  LET r == recentTxBuffer[i].rec
  IN  /\ MayStart(t)
      /\ t \notin externalId
      /\ ~InMap(t)
      /\ Finds(t, i)
      /\ Unused(t, o)
      /\ Refundable(r)
      /\ RefundCloses(t, o, r, Uncounted(r), RemoveAt(recentTxBuffer, i))
      /\ UNCHANGED <<holds, settling, sweep, lock, feeRecords, rail,
                     openDispute, filed>>

\* The same call when a check then throws (already refunded, being
\* refunded, window over): the reactivation stays.
RefundRejected(t, i, o) ==
  /\ MayStart(t)
  /\ Reactivate(t, i, o)
  /\ transactions' = [transactions EXCEPT ![t] = o]
  /\ \/ ~Refundable(recentTxBuffer[i].rec)
     \/ refunding[t].pc # "idle"
     \/ recentTxBuffer[i].rec.status = "completed"
  /\ UNCHANGED <<holds, calls, lock, money, rail, openDispute, filed>>

\* The rail answers the reversal; a failure status is not looked at either.
RailReverses(t) ==
  /\ refunding[t].pc = "reversing"
  /\ refunding' = [refunding EXCEPT ![t] = At("reversed", refunding[t].obj)]
  /\ \/ rail' = [rail EXCEPT ![t] = @ \cup {"reversed"}]
     \/ RailSoftFails /\ UNCHANGED rail
  /\ UNCHANGED <<holds, heap, transactions, books, settling, sweep, lock,
                 money, openDispute, filed>>

ReversalThrows(t) ==
  /\ refunding[t].pc = "reversing"
  /\ refunding' = [refunding EXCEPT ![t] = Idle]
  /\ \/ rail' = [rail EXCEPT ![t] = @ \cup {"reversed"}]
     \/ UNCHANGED rail
  /\ UNCHANGED <<holds, heap, transactions, books, settling, sweep, lock,
                 money, openDispute, filed>>

RefundEnds(t) ==
  LET o == refunding[t].obj
  IN  /\ refunding[t].pc = "reversed"
      /\ RefundCloses(t, o, heap[t][o], counts, recentTxBuffer)
      /\ UNCHANGED <<holds, settling, sweep, lock, feeRecords, rail,
                     openDispute, filed>>
-----------------------------------------------------------------------------
\* Slip: the expiry marks the transaction but does not cancel the escrow.
ExpireKeepsEscrow(t, o) ==
  /\ Write(t, o, Marked(heap[t][o], "expired"))
  /\ UNCHANGED <<post, balances>>

(***************************************************************************)
(* expireStaleEscrows(): for each pending transaction that is old enough,  *)
(* reverse on the rail (a failure is only logged), then cancel in the      *)
(* ledger and mark it expired, whatever happened meanwhile.  The object    *)
(* stays in the map and no counter moves.                                  *)
(***************************************************************************)
ExpireMoney(t, o) ==
  /\ PostTo(t, RecordCancellation(post[t], amt[t]))
  /\ Write(t, o, Marked(heap[t][o], "expired"))

Expire(t) ==
  /\ MayStart(t)
  /\ sweep = NoSweep
  /\ InMap(t)
  /\ Live(t).status = "pending"
  /\ IF t \in externalId
       THEN /\ sweep' = [pc |-> "reversing", tx |-> t,
                         obj |-> transactions[t]]
            /\ UNCHANGED <<heap, post, balances>>
       ELSE /\ ExpireMoney(t, transactions[t])
            /\ UNCHANGED sweep
  /\ UNCHANGED <<holds, transactions, books, settling, refunding, lock,
                 wallet, feeRecords, rail, openDispute, filed>>

RailReversesExpired ==
  /\ sweep.pc = "reversing"
  /\ sweep' = [pc |-> "reversed", tx |-> sweep.tx, obj |-> sweep.obj]
  /\ \/ rail' = [rail EXCEPT ![sweep.tx] = @ \cup {"reversed"}]
     \/ UNCHANGED rail
  /\ UNCHANGED <<holds, heap, transactions, books, settling, refunding,
                 lock, money, openDispute, filed>>

ExpireEnds ==
  /\ sweep.pc = "reversed"
  /\ ExpireMoney(sweep.tx, sweep.obj)
  /\ sweep' = NoSweep
  /\ UNCHANGED <<holds, transactions, books, settling, refunding, lock,
                 wallet, feeRecords, rail, openDispute, filed>>
-----------------------------------------------------------------------------
MayFile(t) == t \notin openDispute /\ filed[t] < MaxDisputes

File(t) == /\ openDispute' = openDispute \cup {t}
           /\ filed' = [filed EXCEPT ![t] = @ + 1]

\* dispute() of a completed transaction, from the map or from the buffer;
\* fileDispute() wants an open window and no open dispute.
Dispute(t) ==
  /\ MayStart(t)
  /\ InMap(t)
  /\ Live(t).status = "completed"
  /\ MayFile(t)
  /\ File(t)
  /\ Write(t, transactions[t], Marked(Live(t), "disputed"))
  /\ counts' = [counts EXCEPT !["disputed"] = @ + 1]
  /\ recentTxBuffer' = Remember(recentTxBuffer, t,
                                Marked(Live(t), "disputed"))
  /\ transactions' = [transactions EXCEPT ![t] = None]
  /\ UNCHANGED <<holds, calls, lock, money, rail>>

DisputeBuffered(t, i) ==
  LET r == recentTxBuffer[i].rec
  IN  /\ MayStart(t)
      /\ ~InMap(t)
      /\ Finds(t, i)
      /\ r.status = "completed"
      /\ MayFile(t)
      /\ File(t)
      /\ counts' = [Uncounted(r) EXCEPT !["disputed"] = @ + 1]
      /\ recentTxBuffer' = Remember(RemoveAt(recentTxBuffer, i), t,
                                    Marked(r, "disputed"))
      /\ UNCHANGED <<holds, heap, transactions, calls, lock, money, rail>>

\* fileDispute() throws (window over, or a dispute is open) after the
\* reactivation.
DisputeRejected(t, i, o) ==
  /\ MayStart(t)
  /\ Reactivate(t, i, o)
  /\ recentTxBuffer[i].rec.status = "completed"
  /\ transactions' = [transactions EXCEPT ![t] = o]
  /\ UNCHANGED <<holds, calls, lock, money, rail, openDispute, filed>>

\* Slip: an upheld transaction goes back to where it was before it settled.
ResolutionReopens(r, outcome) ==
  IF r.status # "disputed" THEN r
  ELSE Marked(r, IF outcome = "refund" THEN "refunded" ELSE "pending")

\* resolveDispute() on the object found: a disputed one is refunded from
\* the wallet (the ledger is not told) or restored to completed.
Resolution(r, outcome) ==
  IF r.status # "disputed" THEN r
  ELSE Marked(r, IF outcome = "refund" THEN "refunded" ELSE "completed")

ResolveMoney(r, outcome) ==
  IF r.status # "disputed" THEN UNCHANGED <<counts, wallet>>
  ELSE IF outcome = "refund"
    THEN /\ wallet' = Floor0(wallet - r.net)
         /\ counts' = [counts EXCEPT !["refunded"] = @ + 1,
                                     !["disputed"] = Floor0(@ - 1)]
    ELSE /\ counts' = [counts EXCEPT !["settled"] = @ + 1,
                                     !["value"] = @ + r.net,
                                     !["disputed"] = Floor0(@ - 1)]
         /\ UNCHANGED wallet

ResolveDispute(t, outcome) ==
  /\ MayStart(t)
  /\ t \in openDispute
  /\ openDispute' = openDispute \ {t}
  /\ \/ /\ InMap(t)
        /\ ResolveMoney(Live(t), outcome)
        /\ Write(t, transactions[t], Resolution(Live(t), outcome))
        /\ UNCHANGED recentTxBuffer
     \/ \E i \in DOMAIN recentTxBuffer :
          /\ ~InMap(t)
          /\ Finds(t, i)
          /\ ResolveMoney(recentTxBuffer[i].rec, outcome)
          /\ recentTxBuffer' = [recentTxBuffer EXCEPT ![i] =
               [id |-> t, rec |-> Resolution(recentTxBuffer[i].rec, outcome)]]
          /\ UNCHANGED heap
     \/ \* "Dispute references unknown transaction": it throws, resolved.
        /\ ~InMap(t)
        /\ \A i \in DOMAIN recentTxBuffer : recentTxBuffer[i].id # t
        /\ UNCHANGED <<heap, recentTxBuffer, counts, wallet>>
  /\ UNCHANGED <<holds, transactions, calls, lock, balances, post,
                 feeRecords, rail, filed>>

\* reconcile(): the wallet becomes the ledger's balance of the agent.
Reconcile ==
  /\ Reconciles
  /\ wallet # balances["agent"]
  /\ wallet' = balances["agent"]
  /\ UNCHANGED <<holds, heap, transactions, books, calls, lock, balances,
                 post, feeRecords, rail, openDispute, filed>>

\* enablePersistence() where there is no file yet: from now on the engine
\* keeps the rail's id of a new hold.
EnablePersistence ==
  /\ ~hasPersist
  /\ hasPersist' = TRUE
  /\ UNCHANGED <<hold, amt, externalId, heap, transactions, books, calls, lock,
                 money, rail, openDispute, filed>>
-----------------------------------------------------------------------------
Continues(t) ==
  \/ RailCaptures(t) \/ CaptureThrows(t) \/ SettleRecords(t)
  \/ WalletCredits(t) \/ WalletRefuses(t) \/ SettleEnds(t)
  \/ RailReverses(t) \/ ReversalThrows(t) \/ RefundEnds(t)

Starts(t) ==
  \/ \E amount \in Amount : Charge(t, amount)
  \/ Settle(t)
  \/ Refund(t)
  \/ Expire(t)
  \/ Dispute(t)
  \/ \E outcome \in Outcome : ResolveDispute(t, outcome)
  \/ \E i \in DOMAIN recentTxBuffer :
       \/ DisputeBuffered(t, i)
       \/ \E o \in Obj : \/ RefundBuffered(t, i, o)
                         \/ RefundBufferedAtOnce(t, i, o)
                         \/ RefundRejected(t, i, o)
                         \/ DisputeRejected(t, i, o)

Next ==
  \/ \E t \in Tx : \/ Starts(t)
                   \/ HoldFails(t) \/ \E o \in Obj : HoldCreated(t, o)
                   \/ Continues(t)
  \/ RailReversesExpired
  \/ ExpireEnds
  \/ Reconcile
  \/ EnablePersistence

Spec == Init /\ [][Next]_vars

(***************************************************************************)
(* The event loop runs every queued continuation, and the rails' HTTP      *)
(* calls return or throw (their clients have timeouts).  No caller is      *)
(* obliged to make another call.                                           *)
(***************************************************************************)
Fairness ==
  /\ \A t \in Tx :
       /\ WF_vars(RailCaptures(t) \/ CaptureThrows(t))
       /\ WF_vars(SettleRecords(t) \/ SettleEnds(t))
       /\ WF_vars(WalletCredits(t) \/ WalletRefuses(t))
       /\ WF_vars(RailReverses(t) \/ ReversalThrows(t))
       /\ WF_vars(RefundEnds(t))
  /\ WF_vars(RailReversesExpired)
  /\ WF_vars(ExpireEnds)

FairSpec == Spec /\ Fairness
-----------------------------------------------------------------------------
Payable(t) == InMap(t) /\ Live(t).status = "pending"

\* The record of t a caller finds: the live object or the oldest copy.
Found(t) == InMap(t) \/ \E i \in DOMAIN recentTxBuffer : Finds(t, i)

StatusOf(t) ==
  IF InMap(t) THEN Live(t).status
  ELSE IF Found(t)
    THEN recentTxBuffer[CHOOSE i \in DOMAIN recentTxBuffer : Finds(t, i)].rec.status
  ELSE "none"

\* The phase of the abstract contract each transaction is in.
PhaseOf(t) ==
  CASE StatusOf(t) = "pending"   -> "escrow"
    [] StatusOf(t) = "completed" -> "paid"
    [] StatusOf(t) = "disputed"  -> "contested"
    [] StatusOf(t) \in {"refunded", "expired"} -> "returned"
    [] OTHER -> IF hold[t] = "done" THEN "forgotten" ELSE "none"

Contract == INSTANCE EscrowContract WITH phase <- [t \in Tx |-> PhaseOf(t)]

(***************************************************************************)
(* The engine implements the escrow contract as long as the calls on one   *)
(* transaction take turns: reactivation out of the ring buffer, dispute    *)
(* outcomes, rail failures and evictions never take a transaction to a     *)
(* phase its present one does not lead to.                                 *)
(***************************************************************************)
ImplementsContract == Contract!Spec

(***************************************************************************)
(* The ledger holds in escrow exactly what is pending: the amount from the *)
(* charge until the settlement is posted, nothing after a settlement, a    *)
(* refund or an expiry, whichever came first.  Calls on one transaction    *)
(* take turns, and no wallet callback has failed.                          *)
(***************************************************************************)
EscrowMatchesPending ==
  ~Overlap /\ ~lockBroken =>
    \A t \in Tx : post[t]["escrow"] =
      IF Payable(t) /\ settling[t].pc # "locking" THEN amt[t] ELSE 0

\* Net payouts of t the ledger still shows: to the counterparty, or to the
\* agent beyond what its charge took and its cancellation gave back.
NetHeld(t) ==
  IF RequireCounterparty
    THEN post[t]["counterparty"]
    ELSE post[t]["agent"] + post[t]["escrow"] + feeRecords[t] * amt[t]

(***************************************************************************)
(* The wallet never holds more than the net payouts the ledger recorded    *)
(* and did not take back: every credit is preceded by its settlement and   *)
(* every refund of one is paid out of the wallet.                          *)
(***************************************************************************)
WalletBacked ==
  ~Overlap /\ ~Reconciles => wallet <= SumFunctionOnSet([t \in Tx |-> NetHeld(t)], Tx)

(***************************************************************************)
(* A transaction is charged one platform fee and settled once, however     *)
(* settle, refund, expiry and dispute calls overlap (as long as no wallet  *)
(* callback failed).                                                       *)
(***************************************************************************)
FeeAtMostOnce == ~lockBroken => \A t \in Tx : feeRecords[t] <= 1

(***************************************************************************)
(* What stopped being payable is never payable again: no reactivation out  *)
(* of the ring buffer, dispute outcome or failed call makes a transaction  *)
(* pending a second time, even when calls overlap.                         *)
(***************************************************************************)
NeverPayableAgain ==
  [][\A t \in Tx : hold[t] = "done" /\ ~Payable(t) => ~Payable(t)']_vars

(***************************************************************************)
(* Every settle(), refund() and expiry comes to an end and releases its    *)
(* guard, also when the rail throws or the wallet refuses: no transaction  *)
(* stays "already being settled" for ever.                                 *)
(***************************************************************************)
CallsEnd ==
  /\ \A t \in Tx : settling[t].pc # "idle" ~> settling[t].pc = "idle"
  /\ \A t \in Tx : refunding[t].pc # "idle" ~> refunding[t].pc = "idle"
  /\ sweep.pc # "idle" ~> sweep.pc = "idle"
-----------------------------------------------------------------------------
(***************************************************************************)
(* settle(): "Ledger FIRST (atomic: record before wallet mutation)": a     *)
(* settlement whose wallet step is refused leaves no second record behind. *)
(***************************************************************************)
SettledAtMostOnce == \A t \in Tx : feeRecords[t] <= 1

(***************************************************************************)
(* tests/stress-200k.test.ts: "handles concurrent settle/refund races      *)
(* safely [...] Exactly 1 operation should win": what a refund returned is *)
(* not paid out by a settlement, however the calls overlap.                *)
(***************************************************************************)
ReturnedStays ==
  [][\A t \in Tx : PhaseOf(t) = "returned"
                      => PhaseOf(t)' \in {"returned", "forgotten"}]_vars
=============================================================================
