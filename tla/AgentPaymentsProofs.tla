------------------------ MODULE AgentPaymentsProofs ------------------------
(***************************************************************************)
(* For any number of transactions, objects, amounts, fees and overlapping  *)
(* calls: the payment engine keeps its types, charges one fee and settles  *)
(* once while no wallet callback failed, and never reopens what closed.    *)
(*                                                                         *)
(* TypeInv makes TypeOK inductive: a call in progress refers to an object. *)
(* SafeInv carries the two safety theorems: it says which object a pending *)
(* transaction can have while calls on it are in progress, and that what   *)
(* the ring buffer holds is not pending.                                   *)
(***************************************************************************)
EXTENDS AgentPayments, SequenceTheorems, TLAPS

\* A call past its first await holds the object it started with.
CallsTyped ==
  /\ \A t \in Tx : settling[t].pc # "idle" => settling[t].obj \in Obj
  /\ \A t \in Tx : refunding[t].pc # "idle" => refunding[t].obj \in Obj
  /\ sweep.pc # "idle" => sweep.tx \in Tx /\ sweep.obj \in Obj

TypeInv == TypeOK /\ CallsTyped

\* Posting to one transaction keeps the ledger's tables tables of cents.
LEMMA PostToTyped ==
  ASSUME TypeOK, NEW t \in Tx, NEW p \in [Account -> Int], PostTo(t, p)
  PROVE  post' \in [Tx -> [Account -> Int]] /\ balances' \in [Account -> Int]
BY DEF TypeOK, PostTo

\* One debit and one credit turn a table of balances into another.
LEMMA MoveTyped ==
  ASSUME NEW b \in [Account -> Int], NEW from, NEW to, NEW amount \in Int
  PROVE  Move(b, from, to, amount) \in [Account -> Int]
BY DEF Move

\* So does the hold of a charge,
LEMMA ChargeTyped ==
  ASSUME NEW b \in [Account -> Int], NEW amount \in Int
  PROVE  RecordCharge(b, amount) \in [Account -> Int]
BY MoveTyped DEF RecordCharge

\* the two or three legs of a settlement,
LEMMA SettlementTyped ==
  ASSUME NEW b \in [Account -> Int], NEW amount \in Int, NEW fee \in Int,
         NEW net \in Int, NEW payee
  PROVE  RecordSettlement(b, amount, fee, net, payee) \in [Account -> Int]
BY MoveTyped DEF RecordSettlement

\* the refund of a payout,
LEMMA RefundTyped ==
  ASSUME NEW b \in [Account -> Int], NEW net \in Int, NEW payee
  PROVE  RecordRefund(b, net, payee) \in [Account -> Int]
BY MoveTyped DEF RecordRefund

\* and the release of a hold.
LEMMA CancellationTyped ==
  ASSUME NEW b \in [Account -> Int], NEW amount \in Int
  PROVE  RecordCancellation(b, amount) \in [Account -> Int]
BY MoveTyped DEF RecordCancellation

\* What the rail did with a hold stays a set of captures and reversals.
LEMMA RailTyped ==
  ASSUME TypeOK, NEW t \in Tx, NEW x \in {"captured", "reversed"},
         rail' = [rail EXCEPT ![t] = @ \cup {x}] \/ UNCHANGED rail
  PROVE  rail' \in [Tx -> SUBSET {"captured", "reversed"}]
<1>1. rail \in [Tx -> SUBSET {"captured", "reversed"}]  BY DEF TypeOK
<1>2. rail[t] \cup {x} \in SUBSET {"captured", "reversed"}  BY <1>1
<1>3. QED  BY <1>1, <1>2

\* An entry of the ring buffer names a transaction and holds a record.
LEMMA EntryTyped ==
  ASSUME TypeOK, NEW i \in DOMAIN recentTxBuffer
  PROVE  /\ recentTxBuffer[i].rec \in Record
         /\ recentTxBuffer[i].id \in Tx
<1>1. recentTxBuffer[i] \in Buffered  BY DEF TypeOK
<1>2. QED  BY <1>1 DEF Buffered

\* push() and shift(): every entry is the new one or was there before.
LEMMA RememberedIs ==
  ASSUME NEW buffer \in Seq(Buffered), NEW t \in Tx, NEW r \in Record,
         TxHistoryBuffer \in Nat
  PROVE  /\ Remember(buffer, t, r) \in Seq(Buffered)
         /\ \A j \in DOMAIN Remember(buffer, t, r) :
              \/ Remember(buffer, t, r)[j] = [id |-> t, rec |-> r]
              \/ \E k \in DOMAIN buffer : Remember(buffer, t, r)[j] = buffer[k]
<1> DEFINE e == [id |-> t, rec |-> r]
           pushed == Append(buffer, e)
<1>1. e \in Buffered  BY DEF Buffered
<1>2. pushed \in Seq(Buffered) /\ Len(pushed) = Len(buffer) + 1  BY <1>1
<1>3. \A j \in DOMAIN pushed : pushed[j] = e \/ \E k \in DOMAIN buffer : pushed[j] = buffer[k]
  BY <1>1
<1> HIDE DEF e, pushed
<1>4. Tail(pushed) \in Seq(Buffered)
  BY <1>2, HeadTailProperties
<1>5. \A j \in DOMAIN Tail(pushed) : j + 1 \in DOMAIN pushed /\ Tail(pushed)[j] = pushed[j + 1]
  BY <1>2
<1>6. Remember(buffer, t, r) \in {pushed, Tail(pushed)}
  BY DEF Remember, e, pushed
<1>7. QED
  BY <1>2, <1>3, <1>4, <1>5, <1>6 DEF e

\* splice(): every entry that stays was there before.
LEMMA RemovedIs ==
  ASSUME NEW buffer \in Seq(Buffered), NEW i \in DOMAIN buffer
  PROVE  /\ RemoveAt(buffer, i) \in Seq(Buffered)
         /\ \A j \in DOMAIN RemoveAt(buffer, i) :
              \E k \in DOMAIN buffer : RemoveAt(buffer, i)[j] = buffer[k]
<1> DEFINE front == SubSeq(buffer, 1, i - 1)
           back  == SubSeq(buffer, i + 1, Len(buffer))
<1>1. i \in 1 .. Len(buffer) /\ Len(buffer) \in Nat  OBVIOUS
<1>2. front \in Seq(Buffered) /\ Len(front) = i - 1
      /\ \A j \in 1 .. i - 1 : front[j] = buffer[j]
  BY <1>1
<1>3. back \in Seq(Buffered) /\ Len(back) = Len(buffer) - i
      /\ \A j \in 1 .. Len(buffer) - i : back[j] = buffer[i + j]
  BY <1>1
<1> HIDE DEF front, back
<1>4. front \o back \in Seq(Buffered) /\ Len(front \o back) = Len(buffer) - 1
  BY <1>1, <1>2, <1>3
<1>5. ASSUME NEW j \in 1 .. Len(buffer) - 1
      PROVE  (front \o back)[j] = IF j <= i - 1 THEN front[j] ELSE back[j - (i - 1)]
  BY <1>1, <1>2, <1>3
<1>6. ASSUME NEW j \in 1 .. Len(buffer) - 1
      PROVE  \E k \in DOMAIN buffer : (front \o back)[j] = buffer[k]
  <2>1. CASE j <= i - 1
    BY <2>1, <1>1, <1>2, <1>5
  <2>2. CASE ~(j <= i - 1)
    <3>1. j - (i - 1) \in 1 .. Len(buffer) - i  BY <2>2, <1>1
    <3>2. (front \o back)[j] = buffer[i + (j - (i - 1))]
      BY <3>1, <2>2, <1>3, <1>5
    <3>3. i + (j - (i - 1)) \in DOMAIN buffer  BY <2>2, <1>1
    <3>4. QED  BY <3>2, <3>3
  <2>3. QED  BY <2>1, <2>2
<1>7. RemoveAt(buffer, i) = front \o back  BY DEF RemoveAt, front, back
<1>8. DOMAIN (front \o back) = 1 .. Len(buffer) - 1  BY <1>4
<1>9. QED  BY <1>4, <1>6, <1>7, <1>8

\* Writing a record to an object keeps the heap a heap.
LEMMA WriteTyped ==
  ASSUME TypeOK, NEW t \in Tx, NEW o \in Obj, NEW r \in Record, Write(t, o, r)
  PROVE  /\ heap' \in [Tx -> [Obj -> Record]]
         /\ \A u \in Tx, p \in Obj :
              heap'[u][p] = IF u = t /\ p = o THEN r ELSE heap[u][p]
<1>1. [heap[t] EXCEPT ![o] = r] \in [Obj -> Record]  BY DEF TypeOK
<1>2. heap' = [heap EXCEPT ![t] = [heap[t] EXCEPT ![o] = r]]  BY DEF Write
<1>3. QED  BY <1>1, <1>2 DEF TypeOK

\* A record with another status is a record.
LEMMA MarkedTyped ==
  ASSUME NEW r \in Record, NEW s \in Status
  PROVE  Marked(r, s) \in Record /\ Marked(r, s).status = s
BY DEF Marked, Record

\* A dispute outcome leaves a record, completed or refunded if it moved.
LEMMA ResolutionTyped ==
  ASSUME NEW r \in Record, NEW outcome
  PROVE  /\ Resolution(r, outcome) \in Record
         /\ Resolution(r, outcome).status \in {r.status, "refunded", "completed"}
BY MarkedTyped DEF Resolution, Record, Status

\* A reactivation keeps the counters natural numbers.
LEMMA UncountedTyped ==
  ASSUME TypeOK, NEW r \in Record
  PROVE  Uncounted(r) \in [Counter -> Nat]
<1>1. counts \in [Counter -> Nat]  BY DEF TypeOK
<1>2. \A n \in Int : Floor0(n) \in Nat  BY DEF Floor0
<1>3. /\ Floor0(counts["settled"] - 1) \in Nat
      /\ Floor0(counts["value"] - r.net) \in Nat
  BY <1>1, <1>2 DEF Counter, Record
<1>4. QED  BY <1>1, <1>3 DEF Uncounted, Counter

\* What a call does to the counters keeps them natural numbers.
LEMMA CounterUp ==
  ASSUME NEW c \in [Counter -> Nat], NEW k \in Counter
  PROVE  [c EXCEPT ![k] = @ + 1] \in [Counter -> Nat]
OBVIOUS

\* one counter up and another down,
LEMMA CounterUpDown ==
  ASSUME NEW c \in [Counter -> Nat], NEW k \in Counter, NEW l \in Counter
  PROVE  [c EXCEPT ![k] = @ + 1, ![l] = Floor0(@ - 1)] \in [Counter -> Nat]
BY DEF Floor0

\* or a settlement and an upheld dispute.
LEMMA CounterSettled ==
  ASSUME NEW c \in [Counter -> Nat], NEW n \in Nat
  PROVE  /\ [c EXCEPT !["settled"] = @ + 1, !["pending"] = Floor0(@ - 1),
                      !["value"] = @ + n] \in [Counter -> Nat]
         /\ [c EXCEPT !["settled"] = @ + 1, !["value"] = @ + n,
                      !["disputed"] = Floor0(@ - 1)] \in [Counter -> Nat]
BY DEF Floor0, Counter

\* A dispute outcome keeps the counters and the wallet well typed,
LEMMA ResolveMoneyTyped ==
  ASSUME TypeOK, NEW r \in Record, NEW outcome, ResolveMoney(r, outcome)
  PROVE  counts' \in [Counter -> Nat] /\ wallet' \in Int
<1>1. r.net \in Nat  BY DEF Record
<1>2. CASE r.status # "disputed"
  BY <1>2 DEF ResolveMoney, TypeOK
<1>3. CASE r.status = "disputed" /\ outcome = "refund"
  <2>1. counts' = [counts EXCEPT !["refunded"] = @ + 1,
                                 !["disputed"] = Floor0(@ - 1)]
    BY <1>3 DEF ResolveMoney
  <2>2. counts' \in [Counter -> Nat]
    BY <2>1, CounterUpDown DEF TypeOK, Counter
  <2>3. wallet' = Floor0(wallet - r.net)
    BY <1>3 DEF ResolveMoney
  <2>4. wallet' \in Int  BY <1>1, <2>3 DEF TypeOK, Floor0
  <2>5. QED  BY <2>2, <2>4
<1>4. CASE r.status = "disputed" /\ outcome # "refund"
  <2>1. counts' = [counts EXCEPT !["settled"] = @ + 1, !["value"] = @ + r.net,
                                 !["disputed"] = Floor0(@ - 1)]
        /\ UNCHANGED wallet
    BY <1>4 DEF ResolveMoney
  <2>2. QED  BY <1>1, <2>1, CounterSettled DEF TypeOK
<1>5. QED  BY <1>2, <1>3, <1>4

\* a refund the wallet and the ledger,
LEMMA RefundMoneyTyped ==
  ASSUME TypeOK, NEW t \in Tx, NEW r \in Record, RefundMoney(t, r)
  PROVE  wallet' \in Int /\ post' \in [Tx -> [Account -> Int]] /\ balances' \in [Account -> Int]
<1>1. r.net \in Nat /\ amt[t] \in Nat /\ post[t] \in [Account -> Int]  BY DEF
   TypeOK, Record
<1>2. CASE r.status = "completed"
  <2>1. wallet' = Floor0(wallet - r.net)
        /\ PostTo(t, RecordRefund(post[t], r.net, PayoutAccount))
    BY <1>2 DEF RefundMoney
  <2>2. RecordRefund(post[t], r.net, PayoutAccount) \in [Account -> Int]
    BY <1>1, RefundTyped
  <2>3. /\ post' \in [Tx -> [Account -> Int]]
        /\ balances' \in [Account -> Int]
    BY <2>1, <2>2, PostToTyped
  <2>4. wallet' \in Int  BY <1>1, <2>1 DEF TypeOK, Floor0
  <2>5. QED  BY <2>3, <2>4
<1>3. CASE r.status = "pending"
  <2>1. RecordCancellation(post[t], amt[t]) \in [Account -> Int]
    BY <1>1, CancellationTyped
  <2>2. QED  BY <1>3, <2>1, PostToTyped DEF RefundMoney, TypeOK
<1>4. CASE r.status \notin {"completed", "pending"}
  BY <1>4 DEF RefundMoney, TypeOK
<1>5. QED  BY <1>2, <1>3, <1>4

\* a recorded settlement the heap, the fee records and the ledger,
LEMMA RecordSettleTyped ==
  ASSUME TypeOK, NEW t \in Tx, NEW o \in Obj, NEW fee \in Fee,
         RecordSettle(t, o, fee)
  PROVE  /\ heap' \in [Tx -> [Obj -> Record]]
         /\ feeRecords' \in [Tx -> Nat]
         /\ post' \in [Tx -> [Account -> Int]] /\ balances' \in [Account -> Int]
         /\ walletLock' \in Seq(Tx)
         /\ settling' \in [Tx -> [pc : SettlePc, obj : Obj \cup {None}]]
<1>1. fee \in Nat /\ amt[t] \in Nat /\ amt[t] - fee \in Nat
      /\ heap[t][o] \in Record /\ post[t] \in [Account -> Int]
  BY PaymentsAssumption DEF RecordSettle, TypeOK
<1>2. [status |-> heap[t][o].status, net |-> amt[t] - fee] \in Record
  BY <1>1 DEF Record
<1>3. heap' \in [Tx -> [Obj -> Record]]
  BY <1>2, WriteTyped DEF RecordSettle
<1>4. feeRecords' \in [Tx -> Nat] /\ walletLock' \in Seq(Tx)
  BY DEF RecordSettle, TypeOK
<1>5. post' \in [Tx -> [Account -> Int]] /\ balances' \in [Account -> Int]
  <2>1. RecordSettlement(post[t], amt[t], fee, amt[t] - fee, PayoutAccount)
          \in [Account -> Int]
    BY <1>1, SettlementTyped
  <2>2. QED  BY <2>1, PostToTyped DEF RecordSettle
<1>6. settling' \in [Tx -> [pc : SettlePc, obj : Obj \cup {None}]]
  BY DEF RecordSettle, TypeOK, At, SettlePc
<1>7. QED  BY <1>3, <1>4, <1>5, <1>6

\* and the end of a refund the map, the buffer and the counters.
LEMMA RefundClosesTyped ==
  ASSUME TypeOK, NEW t \in Tx, NEW o \in Obj, NEW r \in Record,
         NEW cnt \in [Counter -> Nat], NEW buf \in Seq(Buffered),
         RefundCloses(t, o, r, cnt, buf)
  PROVE  /\ heap' \in [Tx -> [Obj -> Record]]
         /\ transactions' \in [Tx -> Obj \cup {None}]
         /\ recentTxBuffer' \in Seq(Buffered)
         /\ counts' \in [Counter -> Nat]
         /\ refunding' \in [Tx -> [pc : RefundPc, obj : Obj \cup {None}]]
         /\ wallet' \in Int
         /\ post' \in [Tx -> [Account -> Int]] /\ balances' \in [Account -> Int]
<1>1. Marked(r, "refunded") \in Record
  BY MarkedTyped DEF Status
<1>2. heap' \in [Tx -> [Obj -> Record]]
  BY <1>1, WriteTyped DEF RefundCloses
<1>3. recentTxBuffer' \in Seq(Buffered)
  BY <1>1, RememberedIs, PaymentsAssumption DEF RefundCloses
<1>4. counts' \in [Counter -> Nat]
  BY CounterUpDown DEF RefundCloses, Counter
<1>5. transactions' \in [Tx -> Obj \cup {None}]
  BY DEF RefundCloses, TypeOK
<1>6. refunding' \in [Tx -> [pc : RefundPc, obj : Obj \cup {None}]]
  BY DEF RefundCloses, TypeOK, Idle, At, RefundPc
<1>7. QED  BY <1>2, <1>3, <1>4, <1>5, <1>6, RefundMoneyTyped DEF RefundCloses

\* What a reactivation leaves in the heap, the buffer and the counters.
LEMMA ReactivateTyped ==
  ASSUME TypeOK, NEW t \in Tx, NEW i \in DOMAIN recentTxBuffer, NEW o \in Obj,
         Reactivate(t, i, o)
  PROVE  /\ recentTxBuffer[i].rec \in Record
         /\ heap' \in [Tx -> [Obj -> Record]]
         /\ recentTxBuffer' \in Seq(Buffered)
         /\ counts' \in [Counter -> Nat]
<1>1. recentTxBuffer \in Seq(Buffered)  BY DEF TypeOK
<1>2. recentTxBuffer[i].rec \in Record  BY EntryTyped
<1>3. heap' \in [Tx -> [Obj -> Record]]  BY <1>2, WriteTyped DEF Reactivate
<1>4. recentTxBuffer' \in Seq(Buffered)  BY <1>1, RemovedIs DEF Reactivate
<1>5. counts' \in [Counter -> Nat]  BY <1>2, UncountedTyped DEF Reactivate
<1>6. QED  BY <1>2, <1>3, <1>4, <1>5

\* An expiry keeps the heap and the ledger well typed.
LEMMA ExpireMoneyTyped ==
  ASSUME TypeOK, NEW t \in Tx, NEW o \in Obj, ExpireMoney(t, o)
  PROVE  /\ heap' \in [Tx -> [Obj -> Record]]
         /\ post' \in [Tx -> [Account -> Int]] /\ balances' \in [Account -> Int]
<1>1. heap[t][o] \in Record /\ amt[t] \in Nat /\ post[t] \in [Account -> Int]
  BY DEF TypeOK
<1>2. Marked(heap[t][o], "expired") \in Record  BY <1>1, MarkedTyped DEF Status
<1>3. RecordCancellation(post[t], amt[t]) \in [Account -> Int]
  BY <1>1, CancellationTyped
<1>4. QED  BY <1>2, <1>3, WriteTyped, PostToTyped DEF ExpireMoney

\* Every action keeps TypeInv: one step per action of Next.
LEMMA TypeStep ==
  ASSUME TypeInv, Next
  PROVE  TypeInv'
<1> USE DEF holds
<1>1. ASSUME NEW t \in Tx, NEW amount \in Amount, Charge(t, amount)
      PROVE  TypeInv'
  <2>1. hold' \in [Tx -> {"none", "creating", "done", "failed"}]
    BY <1>1 DEF Charge, TypeInv, TypeOK
  <2>2. amt' \in [Tx -> Nat]
    BY <1>1, PaymentsAssumption DEF Charge, TypeInv, TypeOK
  <2>3. CallsTyped'
    BY <1>1 DEF Charge, TypeInv, TypeOK, CallsTyped, Idle, At, NoSweep, books,
       calls, lock, money
  <2>4. QED
    BY <1>1, <2>1, <2>2, <2>3 DEF Charge, TypeInv, TypeOK, books, calls, lock,
       money
<1>2. ASSUME NEW t \in Tx, HoldFails(t) PROVE TypeInv'
  <2>1. hold' \in [Tx -> {"none", "creating", "done", "failed"}]
    BY <1>2 DEF HoldFails, TypeInv, TypeOK
  <2>2. CallsTyped'
    BY <1>2 DEF HoldFails, TypeInv, TypeOK, CallsTyped, Idle, At, NoSweep,
       books, calls, lock, money
  <2>3. QED
    BY <1>2, <2>1, <2>2 DEF HoldFails, TypeInv, TypeOK, books, calls, lock,
       money
<1>3. ASSUME NEW t \in Tx, NEW o \in Obj, HoldCreated(t, o) PROVE TypeInv'
  <2>1. Marked(NoRecord, "pending") \in Record
    BY <1>3, MarkedTyped DEF NoRecord, Record, Status
  <2>2. post[t] \in [Account -> Int] /\ amt[t] \in Nat
    BY <1>3 DEF TypeInv, TypeOK
  <2>3. RecordCharge(post[t], amt[t]) \in [Account -> Int]
    BY <1>3, <2>1, <2>2, ChargeTyped
  <2>4. hold' \in [Tx -> {"none", "creating", "done", "failed"}]
    BY <1>3 DEF HoldCreated, TypeInv, TypeOK
  <2>5. heap' \in [Tx -> [Obj -> Record]]
    BY <1>3, <2>1, <2>2, <2>3, WriteTyped DEF HoldCreated, TypeInv, TypeOK
  <2>6. transactions' \in [Tx -> Obj \cup {None}]
    BY <1>3 DEF HoldCreated, TypeInv, TypeOK
  <2>7. counts' \in [Counter -> Nat]
    BY <1>3, CounterUp DEF HoldCreated, TypeInv, TypeOK, Counter
  <2>8. post' \in [Tx -> [Account -> Int]] /\ balances' \in [Account -> Int]
    BY <1>3, <2>1, <2>2, <2>3, PostToTyped DEF HoldCreated, TypeInv, TypeOK
  <2>9. CallsTyped'
    BY <1>3, <2>1, <2>2, <2>3 DEF HoldCreated, TypeInv, TypeOK, CallsTyped,
       Idle, At, NoSweep, books, calls, lock, money
  <2>10. QED
    BY <1>3, <2>4, <2>5, <2>6, <2>7, <2>8, <2>9 DEF HoldCreated, TypeInv,
       TypeOK, books, calls, lock, money
<1>4. ASSUME NEW t \in Tx, Settle(t) PROVE TypeInv'
  <2>1. transactions[t] \in Obj
    BY <1>4 DEF Settle, InMap, TypeInv, TypeOK
  <2>2. CASE t \in externalId
    <3>1. /\ settling' = [settling EXCEPT ![t] = At("capturing", transactions[t])]
          /\ UNCHANGED <<heap, feeRecords, post, balances, walletLock>>
      BY <1>4, <2>2 DEF Settle, At
    <3>2. settling' \in [Tx -> [pc : SettlePc, obj : Obj \cup {None}]]
      BY <2>1, <3>1 DEF TypeInv, TypeOK, At, SettlePc
    <3>3. TypeOK'
      BY <1>4, <3>1, <3>2 DEF Settle, TypeInv, TypeOK, books, calls, lock,
         money
    <3>4. CallsTyped'
      BY <1>4, <2>1, <3>1 DEF Settle, TypeInv, TypeOK, CallsTyped, At, books,
         calls, lock, money
    <3>5. QED  BY <3>3, <3>4 DEF TypeInv
  <2>3. CASE t \notin externalId
    <3>1. PICK fee \in Fee : RecordSettle(t, transactions[t], fee)
      BY <1>4, <2>3 DEF Settle
    <3>2. TypeOK'
      BY <1>4, <2>1, <3>1, RecordSettleTyped DEF Settle, TypeInv, TypeOK,
         books, calls, lock, money
    <3>3. CallsTyped'
      BY <1>4, <2>1, <3>1 DEF Settle, RecordSettle, TypeInv, TypeOK,
         CallsTyped, At, books, calls, lock, money
    <3>4. QED  BY <3>2, <3>3 DEF TypeInv
  <2>4. QED  BY <2>2, <2>3
<1>5. ASSUME NEW t \in Tx, RailCaptures(t) PROVE TypeInv'
  <2>1. settling' \in [Tx -> [pc : SettlePc, obj : Obj \cup {None}]]
    BY <1>5 DEF RailCaptures, TypeInv, TypeOK, At, SettlePc
  <2>2. rail' = [rail EXCEPT ![t] = @ \cup {"captured"}] \/ UNCHANGED rail
    BY <1>5 DEF RailCaptures
  <2>3. rail' \in [Tx -> SUBSET {"captured", "reversed"}]
    BY <2>2, RailTyped DEF TypeInv
  <2>4. CallsTyped'
    BY <1>5 DEF RailCaptures, TypeInv, TypeOK, CallsTyped, Idle, At, NoSweep,
       books, calls, lock, money
  <2>5. QED
    BY <1>5, <2>1, <2>3, <2>4 DEF RailCaptures, TypeInv, TypeOK, books, calls,
       lock, money
<1>6. ASSUME NEW t \in Tx, CaptureThrows(t) PROVE TypeInv'
  <2>1. settling' \in [Tx -> [pc : SettlePc, obj : Obj \cup {None}]]
    BY <1>6 DEF CaptureThrows, TypeInv, TypeOK, Idle, At, SettlePc
  <2>2. rail' = [rail EXCEPT ![t] = @ \cup {"captured"}] \/ UNCHANGED rail
    BY <1>6 DEF CaptureThrows
  <2>3. rail' \in [Tx -> SUBSET {"captured", "reversed"}]
    BY <2>2, RailTyped DEF TypeInv
  <2>4. CallsTyped'
    BY <1>6 DEF CaptureThrows, TypeInv, TypeOK, CallsTyped, Idle, At, NoSweep,
       books, calls, lock, money
  <2>5. QED
    BY <1>6, <2>1, <2>3, <2>4 DEF CaptureThrows, TypeInv, TypeOK, books, calls,
       lock, money
<1>7. ASSUME NEW t \in Tx, SettleRecords(t) PROVE TypeInv'
  <2>1. PICK fee \in Fee : RecordSettle(t, settling[t].obj, fee)
    BY <1>7 DEF SettleRecords
  <2>2. settling[t].obj \in Obj
    BY <1>7 DEF SettleRecords, TypeInv, CallsTyped
  <2>3. TypeOK'
    BY <1>7, <2>1, <2>2, RecordSettleTyped DEF SettleRecords, TypeInv, TypeOK,
       books, calls, lock, money
  <2>4. CallsTyped'
    BY <1>7, <2>1, <2>2 DEF SettleRecords, RecordSettle, TypeInv, TypeOK,
       CallsTyped, At, books, calls, lock, money
  <2>5. QED  BY <2>3, <2>4 DEF TypeInv
<1>8. ASSUME NEW t \in Tx, WalletCredits(t) PROVE TypeInv'
  <2>1. settling[t].obj \in Obj /\ heap[t][settling[t].obj] \in Record
    BY <1>8 DEF WalletCredits, TypeInv, TypeOK, CallsTyped
  <2>2. Marked(heap[t][settling[t].obj], "completed") \in Record
    BY <1>8, <2>1, MarkedTyped DEF Status
  <2>3. heap' \in [Tx -> [Obj -> Record]]
    BY <1>8, <2>1, <2>2, WriteTyped DEF WalletCredits, TypeInv, TypeOK
  <2>4. settling' \in [Tx -> [pc : SettlePc, obj : Obj \cup {None}]]
    BY <1>8 DEF WalletCredits, TypeInv, TypeOK, At, SettlePc
  <2>5. wallet' \in Int
    <3>1. wallet \in Int /\ heap[t][settling[t].obj].net \in Int
      BY <2>1 DEF TypeInv, TypeOK, Record
    <3>2. wallet' = wallet + heap[t][settling[t].obj].net
      BY <1>8 DEF WalletCredits
    <3>3. QED  BY <3>1, <3>2
  <2>6. walletLock' \in Seq(Tx)
    BY <1>8, HeadTailProperties DEF WalletCredits, TypeInv, TypeOK
  <2>7. CallsTyped'
    BY <1>8, <2>1, <2>2 DEF WalletCredits, TypeInv, TypeOK, CallsTyped, Idle,
       At, NoSweep, books, calls, lock, money
  <2>8. QED
    BY <1>8, <2>3, <2>4, <2>5, <2>6, <2>7 DEF WalletCredits, TypeInv, TypeOK,
       books, calls, lock, money
<1>9. ASSUME NEW t \in Tx, WalletRefuses(t) PROVE TypeInv'
  <2>1. settling' \in [Tx -> [pc : SettlePc, obj : Obj \cup {None}]]
    BY <1>9 DEF WalletRefuses, TypeInv, TypeOK, Idle, At, SettlePc
  <2>2. walletLock' \in Seq(Tx)
    BY <1>9, HeadTailProperties DEF WalletRefuses, TypeInv, TypeOK
  <2>3. CallsTyped'
    BY <1>9 DEF WalletRefuses, TypeInv, TypeOK, CallsTyped, Idle, At, NoSweep,
       books, calls, lock, money
  <2>4. QED
    BY <1>9, <2>1, <2>2, <2>3 DEF WalletRefuses, TypeInv, TypeOK, books, calls,
       lock, money
<1>10. ASSUME NEW t \in Tx, SettleEnds(t) PROVE TypeInv'
  <2>1. heap[t][settling[t].obj] \in Record
    BY <1>10 DEF SettleEnds, TypeInv, TypeOK, CallsTyped
  <2>2. heap[t][settling[t].obj].net \in Nat
    BY <1>10, <2>1 DEF Record
  <2>3. transactions' \in [Tx -> Obj \cup {None}]
    BY <1>10 DEF SettleEnds, TypeInv, TypeOK
  <2>4. recentTxBuffer' \in Seq(Buffered)
    BY <1>10, <2>1, <2>2, RememberedIs, PaymentsAssumption DEF SettleEnds,
       TypeInv, TypeOK
  <2>5. counts' \in [Counter -> Nat]
    BY <1>10, <2>1, <2>2, CounterSettled DEF SettleEnds, TypeInv, TypeOK
  <2>6. settling' \in [Tx -> [pc : SettlePc, obj : Obj \cup {None}]]
    BY <1>10 DEF SettleEnds, TypeInv, TypeOK, Idle, At, SettlePc
  <2>7. CallsTyped'
    BY <1>10, <2>1, <2>2 DEF SettleEnds, TypeInv, TypeOK, CallsTyped, Idle, At,
       NoSweep, books, calls, lock, money
  <2>8. QED
    BY <1>10, <2>3, <2>4, <2>5, <2>6, <2>7 DEF SettleEnds, TypeInv, TypeOK,
       books, calls, lock, money
<1>11. ASSUME NEW t \in Tx, Refund(t) PROVE TypeInv'
  <2>1. transactions[t] \in Obj /\ Live(t) \in Record
    BY <1>11 DEF Refund, InMap, Live, TypeInv, TypeOK
  <2>2. CASE t \in externalId
    <3>1. /\ refunding' = [refunding EXCEPT ![t] = At("reversing", transactions[t])]
          /\ UNCHANGED <<heap, transactions, books, wallet, post, balances>>
      BY <1>11, <2>2 DEF Refund, At
    <3>2. refunding' \in [Tx -> [pc : RefundPc, obj : Obj \cup {None}]]
      BY <2>1, <3>1 DEF TypeInv, TypeOK, At, RefundPc
    <3>3. TypeOK'
      BY <1>11, <3>1, <3>2 DEF Refund, TypeInv, TypeOK, books, calls, lock,
         money
    <3>4. CallsTyped'
      BY <1>11, <2>1, <3>1 DEF Refund, TypeInv, TypeOK, CallsTyped, At, books,
         calls, lock, money
    <3>5. QED  BY <3>3, <3>4 DEF TypeInv
  <2>3. CASE t \notin externalId
    <3>1. RefundCloses(t, transactions[t], Live(t), counts, recentTxBuffer)
      BY <1>11, <2>3 DEF Refund
    <3>2. counts \in [Counter -> Nat] /\ recentTxBuffer \in Seq(Buffered)
      BY DEF TypeInv, TypeOK
    <3>3. TypeOK'
      BY <1>11, <2>1, <3>1, <3>2, RefundClosesTyped DEF Refund, TypeInv,
         TypeOK, books, calls, lock, money
    <3>4. CallsTyped'
      BY <1>11, <3>1 DEF Refund, RefundCloses, TypeInv, TypeOK, CallsTyped,
         Idle, At, books, calls, lock, money
    <3>5. QED  BY <3>3, <3>4 DEF TypeInv
  <2>4. QED  BY <2>2, <2>3
<1>12. ASSUME NEW t \in Tx, NEW i \in DOMAIN recentTxBuffer, NEW o \in Obj,
              RefundBuffered(t, i, o)
       PROVE  TypeInv'
  <2>1. Reactivate(t, i, o)
    BY <1>12 DEF RefundBuffered
  <2>2. heap' \in [Tx -> [Obj -> Record]]
    BY <1>12, <2>1, ReactivateTyped DEF RefundBuffered, TypeInv, TypeOK
  <2>3. recentTxBuffer' \in Seq(Buffered)
    BY <1>12, <2>1, ReactivateTyped DEF RefundBuffered, TypeInv, TypeOK
  <2>4. counts' \in [Counter -> Nat]
    BY <1>12, <2>1, ReactivateTyped DEF RefundBuffered, TypeInv, TypeOK
  <2>5. transactions' \in [Tx -> Obj \cup {None}]
    BY <1>12 DEF RefundBuffered, TypeInv, TypeOK
  <2>6. refunding' \in [Tx -> [pc : RefundPc, obj : Obj \cup {None}]]
    BY <1>12 DEF RefundBuffered, TypeInv, TypeOK, At, RefundPc
  <2>7. CallsTyped'
    BY <1>12, <2>1 DEF RefundBuffered, TypeInv, TypeOK, CallsTyped, Idle, At,
       NoSweep, books, calls, lock, money
  <2>8. QED
    BY <1>12, <2>2, <2>3, <2>4, <2>5, <2>6, <2>7 DEF RefundBuffered, TypeInv,
       TypeOK, books, calls, lock, money
<1>13. ASSUME NEW t \in Tx, NEW i \in DOMAIN recentTxBuffer, NEW o \in Obj,
              RefundBufferedAtOnce(t, i, o)
       PROVE  TypeInv'
  <2>1. RefundCloses(t, o, recentTxBuffer[i].rec, Uncounted(recentTxBuffer[i].rec), RemoveAt(recentTxBuffer, i))
    BY <1>13 DEF RefundBufferedAtOnce
  <2>2. recentTxBuffer \in Seq(Buffered)  BY DEF TypeInv, TypeOK
  <2>3. recentTxBuffer[i].rec \in Record  BY EntryTyped DEF TypeInv
  <2>4. Uncounted(recentTxBuffer[i].rec) \in [Counter -> Nat]
    BY <2>3, UncountedTyped DEF TypeInv
  <2>5. RemoveAt(recentTxBuffer, i) \in Seq(Buffered)  BY <2>2, RemovedIs
  <2>6. TypeOK'
    BY <1>13, <2>1, <2>3, <2>4, <2>5, RefundClosesTyped
    DEF RefundBufferedAtOnce, TypeInv, TypeOK, books, calls, lock, money
  <2>7. CallsTyped'
    BY <1>13, <2>1 DEF RefundBufferedAtOnce, RefundCloses, TypeInv, TypeOK,
       CallsTyped, Idle, At, books, calls, lock, money
  <2>8. QED  BY <2>6, <2>7 DEF TypeInv
<1>14. ASSUME NEW t \in Tx, NEW i \in DOMAIN recentTxBuffer, NEW o \in Obj,
              RefundRejected(t, i, o)
       PROVE  TypeInv'
  <2>1. Reactivate(t, i, o)
    BY <1>14 DEF RefundRejected
  <2>2. heap' \in [Tx -> [Obj -> Record]]
    BY <1>14, <2>1, ReactivateTyped DEF RefundRejected, TypeInv, TypeOK
  <2>3. recentTxBuffer' \in Seq(Buffered)
    BY <1>14, <2>1, ReactivateTyped DEF RefundRejected, TypeInv, TypeOK
  <2>4. counts' \in [Counter -> Nat]
    BY <1>14, <2>1, ReactivateTyped DEF RefundRejected, TypeInv, TypeOK
  <2>5. transactions' \in [Tx -> Obj \cup {None}]
    BY <1>14 DEF RefundRejected, TypeInv, TypeOK
  <2>6. CallsTyped'
    BY <1>14, <2>1 DEF RefundRejected, TypeInv, TypeOK, CallsTyped, Idle, At,
       NoSweep, books, calls, lock, money
  <2>7. QED
    BY <1>14, <2>2, <2>3, <2>4, <2>5, <2>6 DEF RefundRejected, TypeInv, TypeOK,
       books, calls, lock, money
<1>15. ASSUME NEW t \in Tx, RailReverses(t) PROVE TypeInv'
  <2>1. refunding' \in [Tx -> [pc : RefundPc, obj : Obj \cup {None}]]
    BY <1>15 DEF RailReverses, TypeInv, TypeOK, At, RefundPc
  <2>2. rail' = [rail EXCEPT ![t] = @ \cup {"reversed"}] \/ UNCHANGED rail
    BY <1>15 DEF RailReverses
  <2>3. rail' \in [Tx -> SUBSET {"captured", "reversed"}]
    BY <2>2, RailTyped DEF TypeInv
  <2>4. CallsTyped'
    BY <1>15 DEF RailReverses, TypeInv, TypeOK, CallsTyped, Idle, At, NoSweep,
       books, calls, lock, money
  <2>5. QED
    BY <1>15, <2>1, <2>3, <2>4 DEF RailReverses, TypeInv, TypeOK, books, calls,
       lock, money
<1>16. ASSUME NEW t \in Tx, ReversalThrows(t) PROVE TypeInv'
  <2>1. refunding' \in [Tx -> [pc : RefundPc, obj : Obj \cup {None}]]
    BY <1>16 DEF ReversalThrows, TypeInv, TypeOK, Idle, At, RefundPc
  <2>2. rail' = [rail EXCEPT ![t] = @ \cup {"reversed"}] \/ UNCHANGED rail
    BY <1>16 DEF ReversalThrows
  <2>3. rail' \in [Tx -> SUBSET {"captured", "reversed"}]
    BY <2>2, RailTyped DEF TypeInv
  <2>4. CallsTyped'
    BY <1>16 DEF ReversalThrows, TypeInv, TypeOK, CallsTyped, Idle, At,
       NoSweep, books, calls, lock, money
  <2>5. QED
    BY <1>16, <2>1, <2>3, <2>4 DEF ReversalThrows, TypeInv, TypeOK, books,
       calls, lock, money
<1>17. ASSUME NEW t \in Tx, RefundEnds(t) PROVE TypeInv'
  <2>1. refunding[t].obj \in Obj
    BY <1>17 DEF RefundEnds, TypeInv, CallsTyped
  <2>2. RefundCloses(t, refunding[t].obj, heap[t][refunding[t].obj], counts, recentTxBuffer)
    BY <1>17 DEF RefundEnds
  <2>3. heap[t][refunding[t].obj] \in Record /\ counts \in [Counter -> Nat] /\ recentTxBuffer \in Seq(Buffered)
    BY <2>1 DEF TypeInv, TypeOK
  <2>4. TypeOK'
    BY <1>17, <2>1, <2>2, <2>3, RefundClosesTyped DEF RefundEnds, TypeInv,
       TypeOK, books, calls, lock, money
  <2>5. CallsTyped'
    BY <1>17, <2>2 DEF RefundEnds, RefundCloses, TypeInv, TypeOK, CallsTyped,
       Idle, At, books, calls, lock, money
  <2>6. QED  BY <2>4, <2>5 DEF TypeInv
<1>18. ASSUME NEW t \in Tx, Expire(t) PROVE TypeInv'
  <2>1. transactions[t] \in Obj
    BY <1>18 DEF Expire, InMap, TypeInv, TypeOK
  <2>2. CASE t \in externalId
    <3>1. sweep' \in [pc : RefundPc, tx : Tx \cup {None}, obj : Obj \cup {None}]
      BY <1>18, <2>1, <2>2 DEF Expire, RefundPc
    <3>2. TypeOK'
      BY <1>18, <2>2, <3>1 DEF Expire, TypeInv, TypeOK, books, calls, lock,
         money
    <3>3. CallsTyped'
      BY <1>18, <2>1, <2>2 DEF Expire, TypeInv, TypeOK, CallsTyped, books,
         calls, lock, money
    <3>4. QED  BY <3>2, <3>3 DEF TypeInv
  <2>3. CASE t \notin externalId
    <3>1. ExpireMoney(t, transactions[t]) /\ UNCHANGED sweep
      BY <1>18, <2>3 DEF Expire
    <3>2. TypeOK'
      BY <1>18, <2>1, <3>1, ExpireMoneyTyped DEF Expire, TypeInv, TypeOK,
         books, calls, lock, money
    <3>3. CallsTyped'
      BY <1>18, <3>1 DEF Expire, TypeInv, TypeOK, CallsTyped, books, calls,
         lock, money
    <3>4. QED  BY <3>2, <3>3 DEF TypeInv
  <2>4. QED  BY <2>2, <2>3
<1>19. ASSUME RailReversesExpired PROVE TypeInv'
  <2>1. sweep.tx \in Tx /\ sweep.obj \in Obj
    BY <1>19 DEF RailReversesExpired, TypeInv, CallsTyped
  <2>2. sweep' \in [pc : RefundPc, tx : Tx \cup {None}, obj : Obj \cup {None}]
    BY <1>19, <2>1 DEF RailReversesExpired, TypeInv, TypeOK, RefundPc
  <2>3. rail' = [rail EXCEPT ![sweep.tx] = @ \cup {"reversed"}] \/ UNCHANGED rail
    BY <1>19 DEF RailReversesExpired
  <2>4. rail' \in [Tx -> SUBSET {"captured", "reversed"}]
    BY <2>3, <2>1, RailTyped DEF TypeInv
  <2>5. CallsTyped'
    BY <1>19, <2>1 DEF RailReversesExpired, TypeInv, TypeOK, CallsTyped, Idle,
       At, NoSweep, books, calls, lock, money
  <2>6. QED
    BY <1>19, <2>2, <2>4, <2>5 DEF RailReversesExpired, TypeInv, TypeOK, books,
       calls, lock, money
<1>20. ASSUME ExpireEnds PROVE TypeInv'
  <2>1. sweep.tx \in Tx /\ sweep.obj \in Obj /\ ExpireMoney(sweep.tx, sweep.obj)
    BY <1>20 DEF ExpireEnds, TypeInv, CallsTyped
  <2>2. heap' \in [Tx -> [Obj -> Record]]
    BY <1>20, <2>1, ExpireMoneyTyped DEF ExpireEnds, TypeInv, TypeOK
  <2>3. post' \in [Tx -> [Account -> Int]] /\ balances' \in [Account -> Int]
    BY <1>20, <2>1, ExpireMoneyTyped DEF ExpireEnds, TypeInv, TypeOK
  <2>4. sweep' \in [pc : RefundPc, tx : Tx \cup {None}, obj : Obj \cup {None}]
    BY <1>20 DEF ExpireEnds, TypeInv, TypeOK, NoSweep, RefundPc
  <2>5. CallsTyped'
    BY <1>20, <2>1 DEF ExpireEnds, TypeInv, TypeOK, CallsTyped, Idle, At,
       NoSweep, books, calls, lock, money
  <2>6. QED
    BY <1>20, <2>2, <2>3, <2>4, <2>5 DEF ExpireEnds, TypeInv, TypeOK, books,
       calls, lock, money
<1>21. ASSUME NEW t \in Tx, Dispute(t) PROVE TypeInv'
  <2>1. transactions[t] \in Obj /\ Live(t) \in Record
    BY <1>21 DEF Dispute, InMap, Live, TypeInv, TypeOK
  <2>2. Marked(Live(t), "disputed") \in Record
    BY <1>21, <2>1, MarkedTyped DEF Status
  <2>3. heap' \in [Tx -> [Obj -> Record]]
    BY <1>21, <2>1, <2>2, WriteTyped DEF Dispute, TypeInv, TypeOK
  <2>4. transactions' \in [Tx -> Obj \cup {None}]
    BY <1>21 DEF Dispute, TypeInv, TypeOK
  <2>5. recentTxBuffer' \in Seq(Buffered)
    BY <1>21, <2>1, <2>2, RememberedIs, PaymentsAssumption DEF Dispute,
       TypeInv, TypeOK
  <2>6. counts' \in [Counter -> Nat]
    BY <1>21, CounterUp DEF Dispute, TypeInv, TypeOK, Counter
  <2>7. openDispute' \subseteq Tx
    BY <1>21 DEF Dispute, TypeInv, TypeOK, File
  <2>8. filed' \in [Tx -> Nat]
    BY <1>21 DEF Dispute, TypeInv, TypeOK, File
  <2>9. CallsTyped'
    BY <1>21, <2>1, <2>2 DEF Dispute, TypeInv, TypeOK, CallsTyped, Idle, At,
       NoSweep, books, calls, lock, money
  <2>10. QED
    BY <1>21, <2>3, <2>4, <2>5, <2>6, <2>7, <2>8, <2>9 DEF Dispute, TypeInv,
       TypeOK, books, calls, lock, money
<1>22. ASSUME NEW t \in Tx, NEW i \in DOMAIN recentTxBuffer,
              DisputeBuffered(t, i)
       PROVE  TypeInv'
  <2>1. recentTxBuffer[i].rec \in Record /\ RemoveAt(recentTxBuffer, i) \in Seq(Buffered)
    BY <1>22, EntryTyped, RemovedIs DEF TypeInv, TypeOK
  <2>2. Marked(recentTxBuffer[i].rec, "disputed") \in Record
    BY <1>22, <2>1, MarkedTyped DEF Status
  <2>3. Uncounted(recentTxBuffer[i].rec) \in [Counter -> Nat]
    BY <1>22, <2>1, <2>2, UncountedTyped DEF TypeInv
  <2>4. recentTxBuffer' \in Seq(Buffered)
    BY <1>22, <2>1, <2>2, <2>3, RememberedIs, PaymentsAssumption DEF
       DisputeBuffered, TypeInv, TypeOK
  <2>5. counts' \in [Counter -> Nat]
    BY <1>22, <2>1, <2>2, <2>3, CounterUp DEF DisputeBuffered, TypeInv, TypeOK,
       Counter
  <2>6. openDispute' \subseteq Tx
    BY <1>22 DEF DisputeBuffered, TypeInv, TypeOK, File
  <2>7. filed' \in [Tx -> Nat]
    <3>1. filed \in [Tx -> Nat]  BY DEF TypeInv, TypeOK
    <3>2. filed' = [filed EXCEPT ![t] = @ + 1]
      BY <1>22 DEF DisputeBuffered, File
    <3>3. QED  BY <3>1, <3>2
  <2>8. CallsTyped'
    BY <1>22, <2>1, <2>2, <2>3 DEF DisputeBuffered, TypeInv, TypeOK,
       CallsTyped, Idle, At, NoSweep, books, calls, lock, money
  <2>9. QED
    BY <1>22, <2>4, <2>5, <2>6, <2>7, <2>8 DEF DisputeBuffered, TypeInv,
       TypeOK, books, calls, lock, money
<1>23. ASSUME NEW t \in Tx, NEW i \in DOMAIN recentTxBuffer, NEW o \in Obj,
              DisputeRejected(t, i, o)
       PROVE  TypeInv'
  <2>1. Reactivate(t, i, o)
    BY <1>23 DEF DisputeRejected
  <2>2. heap' \in [Tx -> [Obj -> Record]]
    BY <1>23, <2>1, ReactivateTyped DEF DisputeRejected, TypeInv, TypeOK
  <2>3. recentTxBuffer' \in Seq(Buffered)
    BY <1>23, <2>1, ReactivateTyped DEF DisputeRejected, TypeInv, TypeOK
  <2>4. counts' \in [Counter -> Nat]
    BY <1>23, <2>1, ReactivateTyped DEF DisputeRejected, TypeInv, TypeOK
  <2>5. transactions' \in [Tx -> Obj \cup {None}]
    BY <1>23 DEF DisputeRejected, TypeInv, TypeOK
  <2>6. CallsTyped'
    BY <1>23, <2>1 DEF DisputeRejected, TypeInv, TypeOK, CallsTyped, Idle, At,
       NoSweep, books, calls, lock, money
  <2>7. QED
    BY <1>23, <2>2, <2>3, <2>4, <2>5, <2>6 DEF DisputeRejected, TypeInv,
       TypeOK, books, calls, lock, money
<1>24. ASSUME NEW t \in Tx, NEW outcome \in Outcome, ResolveDispute(t, outcome)
       PROVE  TypeInv'
  <2>1. openDispute' \subseteq Tx
    BY <1>24 DEF ResolveDispute, TypeInv, TypeOK
  <2>2. CallsTyped'
    BY <1>24 DEF ResolveDispute, TypeInv, CallsTyped, calls
  <2>3. CASE /\ InMap(t)
             /\ ResolveMoney(Live(t), outcome)
             /\ Write(t, transactions[t], Resolution(Live(t), outcome))
             /\ UNCHANGED recentTxBuffer
    <3>1. transactions[t] \in Obj /\ Live(t) \in Record
      BY <2>3 DEF InMap, Live, TypeInv, TypeOK
    <3>2. heap' \in [Tx -> [Obj -> Record]]
      BY <2>3, <3>1, ResolutionTyped, WriteTyped DEF TypeInv
    <3>3. counts' \in [Counter -> Nat] /\ wallet' \in Int
      BY <2>3, <3>1, ResolveMoneyTyped DEF TypeInv
    <3>4. QED
      BY <1>24, <2>1, <2>2, <2>3, <3>2, <3>3 DEF ResolveDispute, TypeInv,
         TypeOK, calls, lock
  <2>4. ASSUME NEW i \in DOMAIN recentTxBuffer,
               ResolveMoney(recentTxBuffer[i].rec, outcome),
               recentTxBuffer' = [recentTxBuffer EXCEPT ![i] =
                 [id |-> t, rec |-> Resolution(recentTxBuffer[i].rec, outcome)]],
               UNCHANGED heap
        PROVE  TypeInv'
    <3>1. recentTxBuffer[i].rec \in Record
      BY EntryTyped DEF TypeInv
    <3>2. [id |-> t, rec |-> Resolution(recentTxBuffer[i].rec, outcome)] \in Buffered
      BY <3>1, ResolutionTyped DEF Buffered
    <3>3. recentTxBuffer' \in Seq(Buffered)
      BY <2>4, <3>2 DEF TypeInv, TypeOK
    <3>4. counts' \in [Counter -> Nat] /\ wallet' \in Int
      BY <2>4, <3>1, ResolveMoneyTyped DEF TypeInv
    <3>5. QED
      BY <1>24, <2>1, <2>2, <2>4, <3>3, <3>4 DEF ResolveDispute, TypeInv,
         TypeOK, calls, lock
  <2>5. CASE UNCHANGED <<heap, recentTxBuffer, counts, wallet>>
    BY <1>24, <2>1, <2>2, <2>5 DEF ResolveDispute, TypeInv, TypeOK, calls, lock
  <2>6. QED  BY <1>24, <2>3, <2>4, <2>5 DEF ResolveDispute
<1>25. ASSUME Reconcile PROVE TypeInv'
  <2>1. wallet' \in Int
    BY <1>25 DEF Reconcile, TypeInv, TypeOK, Account
  <2>2. CallsTyped'
    BY <1>25 DEF Reconcile, TypeInv, TypeOK, CallsTyped, Idle, At, NoSweep,
       books, calls, lock, money
  <2>3. QED
    BY <1>25, <2>1, <2>2 DEF Reconcile, TypeInv, TypeOK, books, calls, lock,
       money
<1>26. ASSUME EnablePersistence PROVE TypeInv'
  <2>1. CallsTyped'
    BY <1>26 DEF EnablePersistence, TypeInv, TypeOK, CallsTyped, books, calls,
       lock, money
  <2>2. QED
    BY <1>26, <2>1 DEF EnablePersistence, TypeInv, TypeOK, books, calls, lock,
       money
<1>27. QED
  BY <1>1, <1>2, <1>3, <1>4, <1>5, <1>6, <1>7, <1>8, <1>9, <1>10, <1>11, <1>12,
     <1>13, <1>14, <1>15, <1>16, <1>17, <1>18, <1>19, <1>20, <1>21, <1>22,
     <1>23, <1>24, <1>25, <1>26 DEF Next, Starts, Continues

\* The initial states satisfy TypeInv.
LEMMA TypeStart ==
  ASSUME Init
  PROVE  TypeInv
<1>1. NoRecord \in Record  BY DEF NoRecord, Record, Status
<1>2. heap \in [Tx -> [Obj -> Record]]  BY <1>1 DEF Init
<1>3. NoPostings \in [Account -> Int]  BY DEF NoPostings
<1>4. post \in [Tx -> [Account -> Int]] /\ balances \in [Account -> Int]
  BY <1>3 DEF Init
<1>5. /\ settling \in [Tx -> [pc : SettlePc, obj : Obj \cup {None}]]
      /\ refunding \in [Tx -> [pc : RefundPc, obj : Obj \cup {None}]]
  BY DEF Init, Idle, At, SettlePc, RefundPc
<1>6. sweep \in [pc : RefundPc, tx : Tx \cup {None}, obj : Obj \cup {None}]
  BY DEF Init, NoSweep, RefundPc
<1>7. CallsTyped  BY DEF Init, CallsTyped, Idle, At, NoSweep
<1>8. /\ recentTxBuffer \in Seq(Buffered) /\ walletLock \in Seq(Tx)
      /\ counts \in [Counter -> Nat]
      /\ openDispute \subseteq Tx
  BY DEF Init
<1>9. rail \in [Tx -> SUBSET {"captured", "reversed"}]  BY DEF Init
<1>10. lockBroken \in BOOLEAN  BY DEF Init
<1>11. /\ hold \in [Tx -> {"none", "creating", "done", "failed"}]
       /\ transactions \in [Tx -> Obj \cup {None}]
       /\ hasPersist \in BOOLEAN /\ externalId \subseteq Tx
  BY DEF Init
<1>12. amt \in [Tx -> Nat] /\ feeRecords \in [Tx -> Nat]  BY DEF Init
<1>13. wallet \in Int /\ filed \in [Tx -> Nat]  BY DEF Init
<1>14. QED
  BY <1>2, <1>4, <1>5, <1>6, <1>7, <1>8, <1>9, <1>10, <1>11, <1>12, <1>13
     DEF TypeInv, TypeOK

(***************************************************************************)
(* Every reachable state is well typed: counters never go below zero, a    *)
(* call in progress holds an object, balances stay whole cents.            *)
(***************************************************************************)
THEOREM TypeCorrect == Spec => []TypeOK
<1>1. Init => TypeInv  BY TypeStart
<1>2. TypeInv /\ [Next]_vars => TypeInv'
  <2>1. CASE Next  BY <2>1, TypeStep
  <2>2. CASE UNCHANGED vars
    BY <2>2 DEF vars, holds, books, calls, lock, money, TypeInv, TypeOK,
       CallsTyped
  <2>3. QED  BY <2>1, <2>2
<1>3. TypeInv => TypeOK  BY DEF TypeInv
<1>4. QED  BY <1>1, <1>2, <1>3, PTL DEF Spec

\* No copy in the ring buffer is pending, and its charge was completed.
TerminalCopies ==
  \A i \in DOMAIN recentTxBuffer :
    recentTxBuffer[i].rec.status # "pending" /\ hold[recentTxBuffer[i].id] = "done"

\* Until charge() returns nothing else happens to a transaction.
Uncharged ==
  \A t \in Tx : hold[t] # "done" =>
    /\ transactions[t] = None /\ feeRecords[t] = 0
    /\ settling[t].pc = "idle" /\ refunding[t].pc = "idle"

\* The only pending object a settle() in progress leaves in the map is its own.
OnlyOriginal ==
  \A t \in Tx : settling[t].pc # "idle" /\ Payable(t) => transactions[t] = settling[t].obj

\* Once the wallet callback ran, the object of settle() is pending no more.
AppliedIsTerminal ==
  \A t \in Tx : settling[t].pc = "applied" => heap[t][settling[t].obj].status # "pending"

\* While no callback failed: no fee before the settlement is recorded, none
\* on what can still be settled.
FeeNotYet ==
  ~lockBroken => \A t \in Tx :
    /\ feeRecords[t] <= 1
    /\ settling[t].pc \in {"capturing", "captured"} => feeRecords[t] = 0
    /\ Payable(t) /\ settling[t].pc # "locking" => feeRecords[t] = 0

\* No step makes payable again what stopped being payable.
NothingReopened ==
  \A u \in Tx : hold[u] = "done" /\ ~Payable(u) => ~Payable(u)'

SafeInv ==
  /\ TerminalCopies
  /\ Uncharged
  /\ OnlyOriginal
  /\ AppliedIsTerminal
  /\ FeeNotYet

\* Remembering a terminal record keeps the copies terminal.
LEMMA RememberTerminal ==
  ASSUME NEW buffer \in Seq(Buffered), NEW t \in Tx, NEW r \in Record,
         r.status # "pending", hold[t] = "done",
         \A j \in DOMAIN buffer :
           buffer[j].rec.status # "pending" /\ hold[buffer[j].id] = "done"
  PROVE  \A j \in DOMAIN Remember(buffer, t, r) :
           /\ Remember(buffer, t, r)[j].rec.status # "pending"
           /\ hold[Remember(buffer, t, r)[j].id] = "done"
<1> DEFINE b == Remember(buffer, t, r)
<1>1. ASSUME NEW j \in DOMAIN b
      PROVE  b[j].rec.status # "pending" /\ hold[b[j].id] = "done"
  <2>1. b[j] = [id |-> t, rec |-> r] \/ \E k \in DOMAIN buffer : b[j] = buffer[k]
    BY RememberedIs, PaymentsAssumption
  <2> HIDE DEF b
  <2>2. CASE b[j] = [id |-> t, rec |-> r]  BY <2>2
  <2>3. CASE \E k \in DOMAIN buffer : b[j] = buffer[k]  BY <2>3
  <2>4. QED  BY <2>1, <2>2, <2>3
<1>2. QED  BY <1>1

\* A step that makes nothing pending and no other object payable, and leaves
\* the settlements alone, keeps what is known about them.
LEMMA NoNewPayable ==
  ASSUME TypeInv, SafeInv,
         \A u \in Tx, p \in Obj :
           heap'[u][p].status = "pending" => heap[u][p].status = "pending",
         \A u \in Tx : Payable(u)' => Payable(u) /\ transactions'[u] = transactions[u],
         UNCHANGED <<settling, feeRecords, lockBroken>>
  PROVE  OnlyOriginal' /\ AppliedIsTerminal' /\ FeeNotYet' /\ NothingReopened
<1>1. OnlyOriginal'  BY DEF SafeInv, OnlyOriginal
<1>2. FeeNotYet'  BY DEF SafeInv, FeeNotYet
<1>3. AppliedIsTerminal'
  BY DEF TypeInv, CallsTyped, SafeInv, AppliedIsTerminal
<1>4. NothingReopened  BY DEF NothingReopened
<1>5. QED  BY <1>1, <1>2, <1>3, <1>4

\* A copy brought back from the buffer is not pending, so nothing is payable
\* that was not.
LEMMA ReactivateSafe ==
  ASSUME TypeInv, SafeInv, NEW t \in Tx, NEW i \in DOMAIN recentTxBuffer, NEW o \in Obj, 
         Reactivate(t, i, o), transactions' = [transactions EXCEPT ![t] = o],
         UNCHANGED <<hold, settling, feeRecords, lockBroken>>
  PROVE  hold[t] = "done" /\ TerminalCopies' /\ OnlyOriginal' /\ AppliedIsTerminal'
         /\ FeeNotYet' /\ NothingReopened
<1>1. hold[t] = "done" /\ recentTxBuffer[i].rec.status # "pending" /\ ~InMap(t)
  BY DEF Reactivate, Finds, SafeInv, TerminalCopies
<1>2. recentTxBuffer[i].rec \in Record
  BY <1>1, EntryTyped DEF TypeInv
<1>3. \A u \in Tx, p \in Obj :
          heap'[u][p] = IF u = t /\ p = o THEN recentTxBuffer[i].rec ELSE heap[u][p]
  BY <1>1, <1>2, WriteTyped DEF TypeInv, Reactivate
<1>4. \A u \in Tx, p \in Obj :
          heap'[u][p].status = "pending" => heap[u][p].status = "pending"
  BY <1>1, <1>2, <1>3
<1>5. \A u \in Tx : Payable(u)' => Payable(u) /\ transactions'[u] = transactions[u]
  BY <1>1, <1>2, <1>3, <1>4 DEF Reactivate, TypeInv, TypeOK, Payable, InMap,
     Live
<1>6. \A j \in DOMAIN recentTxBuffer' : \E k \in DOMAIN recentTxBuffer :
        recentTxBuffer'[j] = recentTxBuffer[k]
  BY <1>1, <1>2, <1>3, <1>4, <1>5, RemovedIs DEF TypeInv, TypeOK, Reactivate
<1>7. OnlyOriginal' /\ AppliedIsTerminal' /\ FeeNotYet' /\ NothingReopened
  BY <1>4, <1>5, NoNewPayable DEF Reactivate, books, calls, lock, money
<1>8. TerminalCopies'
  BY <1>1, <1>2, <1>4, <1>5, <1>6 DEF Reactivate, TypeInv, TypeOK, CallsTyped,
     SafeInv, TerminalCopies, Uncharged, Unused, At, Idle, books, calls, lock,
     money
<1>9. QED  BY <1>1, <1>7, <1>8

\* The end of a refund leaves a refunded object and a refunded copy.
LEMMA RefundClosesSafe ==
  ASSUME TypeInv, SafeInv, NEW t \in Tx, NEW o \in Obj, NEW r \in Record, NEW cnt,
         NEW buf \in Seq(Buffered), hold[t] = "done",
         \A j \in DOMAIN buf : \E k \in DOMAIN recentTxBuffer : buf[j] = recentTxBuffer[k],
         RefundCloses(t, o, r, cnt, buf),
         UNCHANGED <<hold, settling, feeRecords, lockBroken>>
  PROVE  SafeInv' /\ NothingReopened
<1>1. Marked(r, "refunded") \in Record /\ Marked(r, "refunded").status = "refunded"
  BY MarkedTyped DEF Status
<1>2. \A u \in Tx, p \in Obj :
          heap'[u][p] = IF u = t /\ p = o THEN Marked(r, "refunded") ELSE heap[u][p]
  BY <1>1, WriteTyped DEF TypeInv, RefundCloses
<1>3. \A u \in Tx, p \in Obj :
          heap'[u][p].status = "pending" => heap[u][p].status = "pending"
  BY <1>1, <1>2
<1>4. transactions' = [transactions EXCEPT ![t] = None]
  BY <1>1, <1>2, <1>3 DEF RefundCloses
<1>5. \A u \in Tx : Payable(u)' => Payable(u) /\ transactions'[u] = transactions[u]
  BY <1>1, <1>2, <1>3, <1>4 DEF TypeInv, TypeOK, Payable, InMap, Live
<1>6. recentTxBuffer' = Remember(buf, t, Marked(r, "refunded"))
  BY <1>1, <1>2, <1>3, <1>4, <1>5 DEF RefundCloses
<1>7. \A j \in DOMAIN buf : buf[j].rec.status # "pending" /\ hold[buf[j].id] = "done"
  BY <1>1, <1>2, <1>3, <1>4, <1>5, <1>6 DEF SafeInv, TerminalCopies
<1>8. \A j \in DOMAIN recentTxBuffer' :
          recentTxBuffer'[j].rec.status # "pending" /\ hold[recentTxBuffer'[j].id] = "done"
  BY <1>1, <1>2, <1>3, <1>4, <1>5, <1>6, <1>7, RememberTerminal
<1>9. OnlyOriginal' /\ AppliedIsTerminal' /\ FeeNotYet' /\ NothingReopened
  BY <1>3, <1>5, NoNewPayable DEF RefundCloses, books, calls, lock, money
<1>10. TerminalCopies'
  BY <1>1, <1>3, <1>4, <1>5, <1>6, <1>7, <1>8 DEF RefundCloses, TypeInv,
     TypeOK, CallsTyped, SafeInv, TerminalCopies, Uncharged, Unused, At, Idle,
     books, calls, lock, money
<1>11. Uncharged'
  BY <1>1, <1>3, <1>4, <1>5, <1>6, <1>7, <1>8 DEF RefundCloses, TypeInv,
     TypeOK, CallsTyped, SafeInv, Uncharged, TerminalCopies, Unused, At, Idle,
     books, calls, lock, money
<1>12. QED  BY <1>9, <1>10, <1>11 DEF SafeInv

\* Recording the settlement charges the one fee.
LEMMA RecordSettleSafe ==
  ASSUME TypeInv, SafeInv, NEW t \in Tx, NEW fee \in Fee,
         NEW o \in Obj, RecordSettle(t, o, fee), hold[t] = "done",
         settling[t].pc \in {"idle", "captured"},
         Payable(t) => transactions[t] = o,
         settling[t].pc = "idle" => Payable(t),
         UNCHANGED <<hold, transactions, recentTxBuffer, refunding, lockBroken>>
  PROVE  SafeInv' /\ NothingReopened
<1>1. [status |-> heap[t][o].status, net |-> amt[t] - fee] \in Record
  <2>1. heap[t][o] \in Record  BY DEF TypeInv, TypeOK
  <2>2. amt[t] \in Nat  BY DEF TypeInv, TypeOK
  <2>3. fee \in Nat /\ fee < amt[t]  BY PaymentsAssumption DEF RecordSettle
  <2>4. amt[t] - fee \in Nat  BY <2>2, <2>3
  <2>5. QED  BY <2>1, <2>4 DEF Record
<1>2. \A u \in Tx, p \in Obj : heap'[u][p].status = heap[u][p].status
  BY <1>1, WriteTyped DEF TypeInv, RecordSettle
<1>3. settling' = [settling EXCEPT ![t] = [pc |-> "locking", obj |-> o]]
      /\ feeRecords' = [feeRecords EXCEPT ![t] = @ + 1]
  BY <1>1, <1>2 DEF RecordSettle, At
<1>4. \A u \in Tx : Payable(u)' <=> Payable(u)
  BY <1>2 DEF TypeInv, TypeOK, Payable, InMap, Live
<1>5. \A u \in Tx : u # t => settling'[u] = settling[u]
                            /\ feeRecords'[u] = feeRecords[u]
  BY <1>3 DEF TypeInv, TypeOK
<1>6. /\ settling'[t].pc = "locking" /\ settling'[t].obj = o
      /\ feeRecords'[t] = feeRecords[t] + 1
  BY <1>3 DEF TypeInv, TypeOK
<1>7. TerminalCopies'
  BY DEF SafeInv, TerminalCopies
<1>8. Uncharged'
  BY <1>5 DEF SafeInv, Uncharged
<1>9. OnlyOriginal'
  BY <1>4, <1>5, <1>6 DEF SafeInv, OnlyOriginal
<1>10. AppliedIsTerminal'
  <2>1. ASSUME NEW u \in Tx, settling'[u].pc = "applied"
        PROVE  heap'[u][settling'[u].obj].status # "pending"
    <3>1. u # t /\ settling'[u] = settling[u]  BY <1>5, <1>6, <2>1
    <3>2. settling[u].obj \in Obj  BY <2>1, <3>1 DEF TypeInv, CallsTyped
    <3>3. QED  BY <1>2, <2>1, <3>1, <3>2 DEF SafeInv, AppliedIsTerminal
  <2>2. QED  BY <2>1 DEF AppliedIsTerminal
<1>11. FeeNotYet'
  <2>1. ~lockBroken => feeRecords[t] = 0
    BY DEF SafeInv, FeeNotYet
  <2>2. QED  BY <1>4, <1>5, <1>6, <2>1 DEF SafeInv, FeeNotYet
<1>12. NothingReopened  BY <1>4 DEF NothingReopened
<1>13. QED  BY <1>7, <1>8, <1>9, <1>10, <1>11, <1>12 DEF SafeInv

\* An expiry takes the object out of pending, whoever else works on it.
LEMMA ExpireMoneySafe ==
  ASSUME TypeInv, SafeInv, NEW t \in Tx, NEW o \in Obj, ExpireMoney(t, o),
         UNCHANGED <<hold, transactions, recentTxBuffer, settling, refunding,
                     feeRecords, lockBroken>>
  PROVE  SafeInv' /\ NothingReopened
<1>1. heap[t][o] \in Record
  BY DEF TypeInv, TypeOK
<1>2. Marked(heap[t][o], "expired") \in Record
      /\ Marked(heap[t][o], "expired").status = "expired"
  BY <1>1, MarkedTyped DEF Status
<1>3. \A u \in Tx, p \in Obj :
          heap'[u][p] = IF u = t /\ p = o THEN Marked(heap[t][o], "expired") ELSE heap[u][p]
  BY <1>1, <1>2, WriteTyped DEF TypeInv, ExpireMoney
<1>4. \A u \in Tx, p \in Obj :
          heap'[u][p].status = "pending" => heap[u][p].status = "pending"
  BY <1>1, <1>2, <1>3
<1>5. \A u \in Tx : Payable(u)' => Payable(u) /\ transactions'[u] = transactions[u]
  BY <1>1, <1>2, <1>3, <1>4 DEF TypeInv, TypeOK, Payable, InMap, Live
<1>6. OnlyOriginal' /\ AppliedIsTerminal' /\ FeeNotYet' /\ NothingReopened
  BY <1>4, <1>5, NoNewPayable DEF ExpireMoney, books, calls, lock, money
<1>7. TerminalCopies'
  BY <1>1, <1>2, <1>4, <1>5 DEF ExpireMoney, TypeInv, TypeOK, CallsTyped,
     SafeInv, TerminalCopies, Uncharged, Unused, At, Idle, books, calls, lock,
     money
<1>8. Uncharged'
  BY <1>1, <1>2, <1>4, <1>5 DEF ExpireMoney, TypeInv, TypeOK, CallsTyped,
     SafeInv, Uncharged, TerminalCopies, Unused, At, Idle, books, calls, lock,
     money
<1>9. QED  BY <1>6, <1>7, <1>8 DEF SafeInv

\* Every action keeps SafeInv and reopens nothing: one step per action.
LEMMA SafeStep ==
  ASSUME TypeInv, SafeInv, Next
  PROVE  SafeInv' /\ NothingReopened
<1> USE DEF holds
<1>1. ASSUME NEW t \in Tx, NEW amount \in Amount, Charge(t, amount)
      PROVE  SafeInv' /\ NothingReopened
  <2>1. TerminalCopies'
    BY <1>1 DEF Charge, TypeInv, TypeOK, CallsTyped, SafeInv, TerminalCopies,
       Uncharged, Unused, At, Idle, books, calls, lock, money
  <2>2. Uncharged'
    BY <1>1 DEF Charge, TypeInv, TypeOK, CallsTyped, SafeInv, Uncharged,
       TerminalCopies, Unused, At, Idle, books, calls, lock, money
  <2>3. OnlyOriginal'
    BY <1>1 DEF Charge, TypeInv, TypeOK, CallsTyped, SafeInv, OnlyOriginal,
       Uncharged, Payable, InMap, Live, Unused, At, Idle, books, calls, lock,
       money
  <2>4. AppliedIsTerminal'
    BY <1>1 DEF Charge, TypeInv, TypeOK, CallsTyped, SafeInv,
       AppliedIsTerminal, OnlyOriginal, Uncharged, Unused, At, Idle, books,
       calls, lock, money
  <2>5. FeeNotYet'
    BY <1>1 DEF Charge, TypeInv, TypeOK, CallsTyped, SafeInv, FeeNotYet,
       OnlyOriginal, Uncharged, Payable, InMap, Live, Unused, At, Idle, books,
       calls, lock, money
  <2>6. NothingReopened
    BY <1>1 DEF Charge, TypeInv, TypeOK, CallsTyped, SafeInv, NothingReopened,
       Payable, InMap, Live, Unused, At, Idle, books, calls, lock, money
  <2>7. QED  BY <2>1, <2>2, <2>3, <2>4, <2>5, <2>6 DEF SafeInv
<1>2. ASSUME NEW t \in Tx, HoldFails(t) PROVE SafeInv' /\ NothingReopened
  <2>1. TerminalCopies'
    BY <1>2 DEF HoldFails, TypeInv, TypeOK, CallsTyped, SafeInv,
       TerminalCopies, Uncharged, Unused, At, Idle, books, calls, lock, money
  <2>2. Uncharged'
    BY <1>2 DEF HoldFails, TypeInv, TypeOK, CallsTyped, SafeInv, Uncharged,
       TerminalCopies, Unused, At, Idle, books, calls, lock, money
  <2>3. OnlyOriginal'
    BY <1>2 DEF HoldFails, TypeInv, TypeOK, CallsTyped, SafeInv, OnlyOriginal,
       Uncharged, Payable, InMap, Live, Unused, At, Idle, books, calls, lock,
       money
  <2>4. AppliedIsTerminal'
    BY <1>2 DEF HoldFails, TypeInv, TypeOK, CallsTyped, SafeInv,
       AppliedIsTerminal, OnlyOriginal, Uncharged, Unused, At, Idle, books,
       calls, lock, money
  <2>5. FeeNotYet'
    BY <1>2 DEF HoldFails, TypeInv, TypeOK, CallsTyped, SafeInv, FeeNotYet,
       OnlyOriginal, Uncharged, Payable, InMap, Live, Unused, At, Idle, books,
       calls, lock, money
  <2>6. NothingReopened
    BY <1>2 DEF HoldFails, TypeInv, TypeOK, CallsTyped, SafeInv,
       NothingReopened, Payable, InMap, Live, Unused, At, Idle, books, calls,
       lock, money
  <2>7. QED  BY <2>1, <2>2, <2>3, <2>4, <2>5, <2>6 DEF SafeInv
<1>3. ASSUME NEW t \in Tx, NEW o \in Obj, HoldCreated(t, o)
       PROVE SafeInv' /\ NothingReopened
  <2>1. Marked(NoRecord, "pending") \in Record
    BY <1>3 DEF NoRecord, Marked, Record, Status
  <2>2. \A u \in Tx, p \in Obj :
          heap'[u][p] = IF u = t /\ p = o THEN Marked(NoRecord, "pending") ELSE heap[u][p]
    BY <1>3, <2>1, WriteTyped DEF TypeInv, HoldCreated
  <2>3. \A u \in Tx \ {t}, p \in Obj : heap'[u][p] = heap[u][p]
    BY <1>3, <2>1, <2>2
  <2>4. settling[t].pc = "idle" /\ feeRecords[t] = 0
    BY <1>3, <2>1, <2>2, <2>3 DEF HoldCreated, SafeInv, Uncharged
  <2>5. TerminalCopies'
    BY <1>3, <2>1, <2>2, <2>3, <2>4 DEF HoldCreated, TypeInv, TypeOK,
       CallsTyped, SafeInv, TerminalCopies, Uncharged, Unused, At, Idle, books,
       calls, lock, money
  <2>6. Uncharged'
    BY <1>3, <2>1, <2>2, <2>3, <2>4 DEF HoldCreated, TypeInv, TypeOK,
       CallsTyped, SafeInv, Uncharged, TerminalCopies, Unused, At, Idle, books,
       calls, lock, money
  <2>7. OnlyOriginal'
    BY <1>3, <2>1, <2>2, <2>3, <2>4 DEF HoldCreated, TypeInv, TypeOK,
       CallsTyped, SafeInv, OnlyOriginal, Uncharged, Payable, InMap, Live,
       Unused, At, Idle, books, calls, lock, money
  <2>8. AppliedIsTerminal'
    <3>1. ASSUME NEW u \in Tx, settling'[u].pc = "applied"
          PROVE  heap'[u][settling'[u].obj].status # "pending"
      <4>1. u # t /\ settling' = settling
        BY <1>3, <2>4, <3>1 DEF HoldCreated, calls
      <4>2. settling[u].obj \in Obj /\ heap[u][settling[u].obj].status # "pending"
        BY <3>1, <4>1 DEF TypeInv, CallsTyped, SafeInv, AppliedIsTerminal
      <4>3. heap'[u][settling[u].obj] = heap[u][settling[u].obj]
        BY <2>3, <4>1, <4>2
      <4>4. QED  BY <4>1, <4>2, <4>3
    <3>2. QED  BY <3>1 DEF AppliedIsTerminal
  <2>9. FeeNotYet'
    BY <1>3, <2>1, <2>2, <2>3, <2>4 DEF HoldCreated, TypeInv, TypeOK,
       CallsTyped, SafeInv, FeeNotYet, OnlyOriginal, Uncharged, Payable, InMap,
       Live, Unused, At, Idle, books, calls, lock, money
  <2>10. NothingReopened
    BY <1>3, <2>1, <2>2, <2>3, <2>4 DEF HoldCreated, TypeInv, TypeOK,
       CallsTyped, SafeInv, NothingReopened, Payable, InMap, Live, Unused, At,
       Idle, books, calls, lock, money
  <2>11. QED  BY <2>5, <2>6, <2>7, <2>8, <2>9, <2>10 DEF SafeInv
<1>4. ASSUME NEW t \in Tx, Settle(t) PROVE SafeInv' /\ NothingReopened
  <2>1. transactions[t] \in Obj /\ Payable(t) /\ settling[t].pc = "idle" /\ hold[t] = "done"
    BY <1>4 DEF Settle, InMap, Payable, TypeInv, TypeOK, SafeInv, Uncharged
  <2>2. CASE t \in externalId
    <3>1. /\ settling' = [settling EXCEPT ![t] = [pc |-> "capturing", obj |-> transactions[t]]]
          /\ UNCHANGED <<hold, transactions, recentTxBuffer, refunding, heap, feeRecords, lockBroken>>
      BY <1>4, <2>2 DEF Settle, At, books
    <3>2. TerminalCopies'
      BY <2>1, <3>1 DEF TypeInv, TypeOK, CallsTyped, SafeInv, TerminalCopies,
         Uncharged, Unused, At, Idle, books, calls, lock, money
    <3>3. Uncharged'
      BY <2>1, <3>1 DEF TypeInv, TypeOK, CallsTyped, SafeInv, Uncharged,
         TerminalCopies, Unused, At, Idle, books, calls, lock, money
    <3>4. OnlyOriginal'
      BY <2>1, <3>1 DEF TypeInv, TypeOK, CallsTyped, SafeInv, OnlyOriginal,
         Uncharged, Payable, InMap, Live, Unused, At, Idle, books, calls, lock,
         money
    <3>5. AppliedIsTerminal'
      BY <2>1, <3>1 DEF TypeInv, TypeOK, CallsTyped, SafeInv,
         AppliedIsTerminal, OnlyOriginal, Uncharged, Unused, At, Idle, books,
         calls, lock, money
    <3>6. FeeNotYet'
      BY <2>1, <3>1 DEF TypeInv, TypeOK, CallsTyped, SafeInv, FeeNotYet,
         OnlyOriginal, Uncharged, Payable, InMap, Live, Unused, At, Idle,
         books, calls, lock, money
    <3>7. NothingReopened
      BY <2>1, <3>1 DEF TypeInv, TypeOK, CallsTyped, SafeInv, NothingReopened,
         Payable, InMap, Live, Unused, At, Idle, books, calls, lock, money
    <3>8. QED  BY <3>2, <3>3, <3>4, <3>5, <3>6, <3>7 DEF SafeInv
  <2>3. CASE t \notin externalId
    <3>1. PICK fee \in Fee : RecordSettle(t, transactions[t], fee)
      BY <1>4, <2>3 DEF Settle
    <3>2. QED  BY <1>4, <2>1, <3>1, RecordSettleSafe DEF Settle, books
  <2>4. QED  BY <2>2, <2>3
<1>5. ASSUME NEW t \in Tx, RailCaptures(t) PROVE SafeInv' /\ NothingReopened
  <2>1. TerminalCopies'
    BY <1>5 DEF RailCaptures, TypeInv, TypeOK, CallsTyped, SafeInv,
       TerminalCopies, Uncharged, Unused, At, Idle, books, calls, lock, money
  <2>2. Uncharged'
    BY <1>5 DEF RailCaptures, TypeInv, TypeOK, CallsTyped, SafeInv, Uncharged,
       TerminalCopies, Unused, At, Idle, books, calls, lock, money
  <2>3. OnlyOriginal'
    BY <1>5 DEF RailCaptures, TypeInv, TypeOK, CallsTyped, SafeInv,
       OnlyOriginal, Uncharged, Payable, InMap, Live, Unused, At, Idle, books,
       calls, lock, money
  <2>4. AppliedIsTerminal'
    BY <1>5 DEF RailCaptures, TypeInv, TypeOK, CallsTyped, SafeInv,
       AppliedIsTerminal, OnlyOriginal, Uncharged, Unused, At, Idle, books,
       calls, lock, money
  <2>5. FeeNotYet'
    BY <1>5 DEF RailCaptures, TypeInv, TypeOK, CallsTyped, SafeInv, FeeNotYet,
       OnlyOriginal, Uncharged, Payable, InMap, Live, Unused, At, Idle, books,
       calls, lock, money
  <2>6. NothingReopened
    BY <1>5 DEF RailCaptures, TypeInv, TypeOK, CallsTyped, SafeInv,
       NothingReopened, Payable, InMap, Live, Unused, At, Idle, books, calls,
       lock, money
  <2>7. QED  BY <2>1, <2>2, <2>3, <2>4, <2>5, <2>6 DEF SafeInv
<1>6. ASSUME NEW t \in Tx, CaptureThrows(t) PROVE SafeInv' /\ NothingReopened
  <2>1. TerminalCopies'
    BY <1>6 DEF CaptureThrows, TypeInv, TypeOK, CallsTyped, SafeInv,
       TerminalCopies, Uncharged, Unused, At, Idle, books, calls, lock, money
  <2>2. Uncharged'
    BY <1>6 DEF CaptureThrows, TypeInv, TypeOK, CallsTyped, SafeInv, Uncharged,
       TerminalCopies, Unused, At, Idle, books, calls, lock, money
  <2>3. OnlyOriginal'
    BY <1>6 DEF CaptureThrows, TypeInv, TypeOK, CallsTyped, SafeInv,
       OnlyOriginal, Uncharged, Payable, InMap, Live, Unused, At, Idle, books,
       calls, lock, money
  <2>4. AppliedIsTerminal'
    BY <1>6 DEF CaptureThrows, TypeInv, TypeOK, CallsTyped, SafeInv,
       AppliedIsTerminal, OnlyOriginal, Uncharged, Unused, At, Idle, books,
       calls, lock, money
  <2>5. FeeNotYet'
    BY <1>6 DEF CaptureThrows, TypeInv, TypeOK, CallsTyped, SafeInv, FeeNotYet,
       OnlyOriginal, Uncharged, Payable, InMap, Live, Unused, At, Idle, books,
       calls, lock, money
  <2>6. NothingReopened
    BY <1>6 DEF CaptureThrows, TypeInv, TypeOK, CallsTyped, SafeInv,
       NothingReopened, Payable, InMap, Live, Unused, At, Idle, books, calls,
       lock, money
  <2>7. QED  BY <2>1, <2>2, <2>3, <2>4, <2>5, <2>6 DEF SafeInv
<1>7. ASSUME NEW t \in Tx, SettleRecords(t) PROVE SafeInv' /\ NothingReopened
  <2>1. PICK fee \in Fee : RecordSettle(t, settling[t].obj, fee)
    BY <1>7 DEF SettleRecords
  <2>2. /\ settling[t].obj \in Obj /\ settling[t].pc = "captured" /\ hold[t] = "done"
        /\ Payable(t) => transactions[t] = settling[t].obj
    BY <1>7 DEF SettleRecords, TypeInv, CallsTyped, SafeInv, Uncharged,
       OnlyOriginal
  <2>3. QED  BY <1>7, <2>1, <2>2, RecordSettleSafe DEF SettleRecords, books
<1>8. ASSUME NEW t \in Tx, WalletCredits(t) PROVE SafeInv' /\ NothingReopened
  <2> DEFINE o == settling[t].obj
  <2>1. /\ o \in Obj /\ heap[t][o] \in Record /\ settling[t].pc = "locking"
        /\ settling' = [settling EXCEPT ![t] = [pc |-> "applied", obj |-> o]]
        /\ UNCHANGED <<hold, transactions, recentTxBuffer, refunding, feeRecords, lockBroken>>
    BY <1>8 DEF WalletCredits, At, books, TypeInv, TypeOK, CallsTyped
  <2>2. Marked(heap[t][o], "completed") \in Record /\ Marked(heap[t][o], "completed").status = "completed"
    BY <2>1, MarkedTyped DEF Status
  <2>3. \A u \in Tx, p \in Obj : heap'[u][p] = IF u = t /\ p = o THEN Marked(heap[t][o], "completed") ELSE heap[u][p]
    BY <1>8, <2>1, <2>2, WriteTyped DEF WalletCredits, TypeInv
  <2> HIDE DEF o
  <2>4. \A u \in Tx, p \in Obj : heap'[u][p].status = "pending" => heap[u][p].status = "pending"
    BY <2>2, <2>3
  <2>5. \A u \in Tx : Payable(u)' => Payable(u)
    BY <2>1, <2>4 DEF TypeInv, TypeOK, Payable, InMap, Live
  <2>6. ~Payable(t)'
    <3>1. Payable(t)' => transactions[t] = o
      BY <2>1, <2>5 DEF SafeInv, OnlyOriginal, o
    <3>2. heap'[t][o].status = "completed"  BY <2>1, <2>2, <2>3
    <3>3. QED  BY <2>1, <3>1, <3>2 DEF Payable, InMap, Live
  <2>7. OnlyOriginal'
    BY <2>1, <2>5, <2>6 DEF SafeInv, OnlyOriginal, TypeInv, TypeOK
  <2>8. FeeNotYet'
    BY <2>1, <2>5, <2>6 DEF SafeInv, FeeNotYet, TypeInv, TypeOK
  <2>9. AppliedIsTerminal'
    <3>1. ASSUME NEW u \in Tx, settling'[u].pc = "applied"
          PROVE  heap'[u][settling'[u].obj].status # "pending"
      <4>1. CASE u = t
        <5>1. settling'[t].obj = o  BY <2>1 DEF TypeInv, TypeOK
        <5>2. heap'[t][o].status = "completed"  BY <2>1, <2>2, <2>3
        <5>3. QED  BY <4>1, <5>1, <5>2
      <4>2. CASE u # t
        <5>1. settling'[u] = settling[u]  BY <2>1, <4>2 DEF TypeInv, TypeOK
        <5>2. settling[u].obj \in Obj /\ heap[u][settling[u].obj].status # "pending"
          BY <3>1, <5>1 DEF TypeInv, CallsTyped, SafeInv, AppliedIsTerminal
        <5>3. QED  BY <2>4, <5>1, <5>2
      <4>3. QED  BY <4>1, <4>2
    <3>2. QED  BY <3>1 DEF AppliedIsTerminal
  <2>10. TerminalCopies' /\ Uncharged'
    BY <2>1 DEF SafeInv, TerminalCopies, Uncharged, TypeInv, TypeOK
  <2>11. QED  BY <2>5, <2>7, <2>8, <2>9, <2>10 DEF SafeInv, NothingReopened
<1>9. ASSUME NEW t \in Tx, WalletRefuses(t) PROVE SafeInv' /\ NothingReopened
  <2>1. TerminalCopies'
    BY <1>9 DEF WalletRefuses, TypeInv, TypeOK, CallsTyped, SafeInv,
       TerminalCopies, Uncharged, Unused, At, Idle, books, calls, lock, money
  <2>2. Uncharged'
    BY <1>9 DEF WalletRefuses, TypeInv, TypeOK, CallsTyped, SafeInv, Uncharged,
       TerminalCopies, Unused, At, Idle, books, calls, lock, money
  <2>3. OnlyOriginal'
    BY <1>9 DEF WalletRefuses, TypeInv, TypeOK, CallsTyped, SafeInv,
       OnlyOriginal, Uncharged, Payable, InMap, Live, Unused, At, Idle, books,
       calls, lock, money
  <2>4. AppliedIsTerminal'
    BY <1>9 DEF WalletRefuses, TypeInv, TypeOK, CallsTyped, SafeInv,
       AppliedIsTerminal, OnlyOriginal, Uncharged, Unused, At, Idle, books,
       calls, lock, money
  <2>5. FeeNotYet'
    BY <1>9 DEF WalletRefuses, TypeInv, TypeOK, CallsTyped, SafeInv, FeeNotYet,
       OnlyOriginal, Uncharged, Payable, InMap, Live, Unused, At, Idle, books,
       calls, lock, money
  <2>6. NothingReopened
    BY <1>9 DEF WalletRefuses, TypeInv, TypeOK, CallsTyped, SafeInv,
       NothingReopened, Payable, InMap, Live, Unused, At, Idle, books, calls,
       lock, money
  <2>7. QED  BY <2>1, <2>2, <2>3, <2>4, <2>5, <2>6 DEF SafeInv
<1>10. ASSUME NEW t \in Tx, SettleEnds(t) PROVE SafeInv' /\ NothingReopened
  <2>1. /\ heap[t][settling[t].obj] \in Record /\ heap[t][settling[t].obj].status # "pending"
        /\ hold[t] = "done"
    BY <1>10 DEF SettleEnds, TypeInv, TypeOK, CallsTyped, SafeInv,
       AppliedIsTerminal, Uncharged
  <2>2. recentTxBuffer' = Remember(recentTxBuffer, t, heap[t][settling[t].obj])
        /\ recentTxBuffer \in Seq(Buffered)
    BY <1>10, <2>1 DEF SettleEnds, TypeInv, TypeOK
  <2>3. \A j \in DOMAIN recentTxBuffer' :
          recentTxBuffer'[j].rec.status # "pending" /\ hold[recentTxBuffer'[j].id] = "done"
    BY <1>10, <2>1, <2>2, RememberTerminal DEF SafeInv, TerminalCopies
  <2>4. TerminalCopies'
    BY <1>10, <2>1, <2>2, <2>3 DEF SettleEnds, TypeInv, TypeOK, CallsTyped,
       SafeInv, TerminalCopies, Uncharged, Unused, At, Idle, books, calls,
       lock, money
  <2>5. Uncharged'
    BY <1>10, <2>1, <2>2, <2>3 DEF SettleEnds, TypeInv, TypeOK, CallsTyped,
       SafeInv, Uncharged, TerminalCopies, Unused, At, Idle, books, calls,
       lock, money
  <2>6. OnlyOriginal'
    BY <1>10, <2>1, <2>2, <2>3 DEF SettleEnds, TypeInv, TypeOK, CallsTyped,
       SafeInv, OnlyOriginal, Uncharged, Payable, InMap, Live, Unused, At,
       Idle, books, calls, lock, money
  <2>7. AppliedIsTerminal'
    BY <1>10, <2>1, <2>2, <2>3 DEF SettleEnds, TypeInv, TypeOK, CallsTyped,
       SafeInv, AppliedIsTerminal, OnlyOriginal, Uncharged, Unused, At, Idle,
       books, calls, lock, money
  <2>8. FeeNotYet'
    BY <1>10, <2>1, <2>2, <2>3 DEF SettleEnds, TypeInv, TypeOK, CallsTyped,
       SafeInv, FeeNotYet, OnlyOriginal, Uncharged, Payable, InMap, Live,
       Unused, At, Idle, books, calls, lock, money
  <2>9. NothingReopened
    BY <1>10, <2>1, <2>2, <2>3 DEF SettleEnds, TypeInv, TypeOK, CallsTyped,
       SafeInv, NothingReopened, Payable, InMap, Live, Unused, At, Idle, books,
       calls, lock, money
  <2>10. QED  BY <2>4, <2>5, <2>6, <2>7, <2>8, <2>9 DEF SafeInv
<1>11. ASSUME NEW t \in Tx, Refund(t) PROVE SafeInv' /\ NothingReopened
  <2>1. transactions[t] \in Obj /\ Live(t) \in Record /\ hold[t] = "done"
    BY <1>11 DEF Refund, InMap, Live, TypeInv, TypeOK, SafeInv, Uncharged
  <2>2. CASE t \in externalId
    <3>1. /\ refunding' = [refunding EXCEPT ![t] = [pc |-> "reversing", obj |-> transactions[t]]]
          /\ UNCHANGED <<hold, transactions, recentTxBuffer, settling, heap, feeRecords, lockBroken>>
      BY <1>11, <2>2 DEF Refund, At, books, lock
    <3>2. TerminalCopies'
      BY <2>1, <3>1 DEF TypeInv, TypeOK, CallsTyped, SafeInv, TerminalCopies,
         Uncharged, Unused, At, Idle, books, calls, lock, money
    <3>3. Uncharged'
      BY <2>1, <3>1 DEF TypeInv, TypeOK, CallsTyped, SafeInv, Uncharged,
         TerminalCopies, Unused, At, Idle, books, calls, lock, money
    <3>4. OnlyOriginal'
      BY <2>1, <3>1 DEF TypeInv, TypeOK, CallsTyped, SafeInv, OnlyOriginal,
         Uncharged, Payable, InMap, Live, Unused, At, Idle, books, calls, lock,
         money
    <3>5. AppliedIsTerminal'
      BY <2>1, <3>1 DEF TypeInv, TypeOK, CallsTyped, SafeInv,
         AppliedIsTerminal, OnlyOriginal, Uncharged, Unused, At, Idle, books,
         calls, lock, money
    <3>6. FeeNotYet'
      BY <2>1, <3>1 DEF TypeInv, TypeOK, CallsTyped, SafeInv, FeeNotYet,
         OnlyOriginal, Uncharged, Payable, InMap, Live, Unused, At, Idle,
         books, calls, lock, money
    <3>7. NothingReopened
      BY <2>1, <3>1 DEF TypeInv, TypeOK, CallsTyped, SafeInv, NothingReopened,
         Payable, InMap, Live, Unused, At, Idle, books, calls, lock, money
    <3>8. QED  BY <3>2, <3>3, <3>4, <3>5, <3>6, <3>7 DEF SafeInv
  <2>3. CASE t \notin externalId
    <3>1. RefundCloses(t, transactions[t], Live(t), counts, recentTxBuffer)
      BY <1>11, <2>3 DEF Refund
    <3>2. recentTxBuffer \in Seq(Buffered)  BY DEF TypeInv, TypeOK
    <3>3. QED  BY <1>11, <2>1, <3>1, <3>2, RefundClosesSafe DEF Refund, lock
  <2>4. QED  BY <2>2, <2>3
<1>12. ASSUME NEW t \in Tx, NEW i \in DOMAIN recentTxBuffer, NEW o \in Obj,
              RefundBuffered(t, i, o)
       PROVE  SafeInv' /\ NothingReopened
  <2>1. /\ hold[t] = "done" /\ TerminalCopies' /\ OnlyOriginal'
        /\ AppliedIsTerminal' /\ FeeNotYet' /\ NothingReopened
    BY <1>12, ReactivateSafe DEF RefundBuffered, calls, lock, money
  <2>2. Uncharged'
    BY <1>12, <2>1 DEF RefundBuffered, TypeInv, TypeOK, SafeInv, Uncharged, At,
       calls, money
  <2>3. QED  BY <2>1, <2>2 DEF SafeInv
<1>13. ASSUME NEW t \in Tx, NEW i \in DOMAIN recentTxBuffer, NEW o \in Obj,
              RefundBufferedAtOnce(t, i, o)
       PROVE  SafeInv' /\ NothingReopened
  <2>1. RefundCloses(t, o, recentTxBuffer[i].rec, Uncounted(recentTxBuffer[i].rec), RemoveAt(recentTxBuffer, i))
    BY <1>13 DEF RefundBufferedAtOnce
  <2>2. hold[t] = "done" /\ recentTxBuffer[i].rec \in Record
    BY <1>13, EntryTyped DEF RefundBufferedAtOnce, Finds, TypeInv, SafeInv,
       TerminalCopies
  <2>3. /\ RemoveAt(recentTxBuffer, i) \in Seq(Buffered)
        /\ \A j \in DOMAIN RemoveAt(recentTxBuffer, i) : \E k \in DOMAIN recentTxBuffer :
             RemoveAt(recentTxBuffer, i)[j] = recentTxBuffer[k]
    BY RemovedIs DEF TypeInv, TypeOK
  <2>4. QED  BY <1>13, <2>1, <2>2, <2>3, RefundClosesSafe DEF
     RefundBufferedAtOnce, lock
<1>14. ASSUME NEW t \in Tx, NEW i \in DOMAIN recentTxBuffer, NEW o \in Obj,
              RefundRejected(t, i, o)
       PROVE  SafeInv' /\ NothingReopened
  <2>1. /\ hold[t] = "done" /\ TerminalCopies' /\ OnlyOriginal'
        /\ AppliedIsTerminal' /\ FeeNotYet' /\ NothingReopened
    BY <1>14, ReactivateSafe DEF RefundRejected, calls, lock, money
  <2>2. Uncharged'
    BY <1>14, <2>1 DEF RefundRejected, TypeInv, TypeOK, SafeInv, Uncharged, At,
       calls, money
  <2>3. QED  BY <2>1, <2>2 DEF SafeInv
<1>15. ASSUME NEW t \in Tx, RailReverses(t) PROVE SafeInv' /\ NothingReopened
  <2>1. TerminalCopies'
    BY <1>15 DEF RailReverses, TypeInv, TypeOK, CallsTyped, SafeInv,
       TerminalCopies, Uncharged, Unused, At, Idle, books, calls, lock, money
  <2>2. Uncharged'
    BY <1>15 DEF RailReverses, TypeInv, TypeOK, CallsTyped, SafeInv, Uncharged,
       TerminalCopies, Unused, At, Idle, books, calls, lock, money
  <2>3. OnlyOriginal'
    BY <1>15 DEF RailReverses, TypeInv, TypeOK, CallsTyped, SafeInv,
       OnlyOriginal, Uncharged, Payable, InMap, Live, Unused, At, Idle, books,
       calls, lock, money
  <2>4. AppliedIsTerminal'
    BY <1>15 DEF RailReverses, TypeInv, TypeOK, CallsTyped, SafeInv,
       AppliedIsTerminal, OnlyOriginal, Uncharged, Unused, At, Idle, books,
       calls, lock, money
  <2>5. FeeNotYet'
    BY <1>15 DEF RailReverses, TypeInv, TypeOK, CallsTyped, SafeInv, FeeNotYet,
       OnlyOriginal, Uncharged, Payable, InMap, Live, Unused, At, Idle, books,
       calls, lock, money
  <2>6. NothingReopened
    BY <1>15 DEF RailReverses, TypeInv, TypeOK, CallsTyped, SafeInv,
       NothingReopened, Payable, InMap, Live, Unused, At, Idle, books, calls,
       lock, money
  <2>7. QED  BY <2>1, <2>2, <2>3, <2>4, <2>5, <2>6 DEF SafeInv
<1>16. ASSUME NEW t \in Tx, ReversalThrows(t) PROVE SafeInv' /\ NothingReopened
  <2>1. TerminalCopies'
    BY <1>16 DEF ReversalThrows, TypeInv, TypeOK, CallsTyped, SafeInv,
       TerminalCopies, Uncharged, Unused, At, Idle, books, calls, lock, money
  <2>2. Uncharged'
    BY <1>16 DEF ReversalThrows, TypeInv, TypeOK, CallsTyped, SafeInv,
       Uncharged, TerminalCopies, Unused, At, Idle, books, calls, lock, money
  <2>3. OnlyOriginal'
    BY <1>16 DEF ReversalThrows, TypeInv, TypeOK, CallsTyped, SafeInv,
       OnlyOriginal, Uncharged, Payable, InMap, Live, Unused, At, Idle, books,
       calls, lock, money
  <2>4. AppliedIsTerminal'
    BY <1>16 DEF ReversalThrows, TypeInv, TypeOK, CallsTyped, SafeInv,
       AppliedIsTerminal, OnlyOriginal, Uncharged, Unused, At, Idle, books,
       calls, lock, money
  <2>5. FeeNotYet'
    BY <1>16 DEF ReversalThrows, TypeInv, TypeOK, CallsTyped, SafeInv,
       FeeNotYet, OnlyOriginal, Uncharged, Payable, InMap, Live, Unused, At,
       Idle, books, calls, lock, money
  <2>6. NothingReopened
    BY <1>16 DEF ReversalThrows, TypeInv, TypeOK, CallsTyped, SafeInv,
       NothingReopened, Payable, InMap, Live, Unused, At, Idle, books, calls,
       lock, money
  <2>7. QED  BY <2>1, <2>2, <2>3, <2>4, <2>5, <2>6 DEF SafeInv
<1>17. ASSUME NEW t \in Tx, RefundEnds(t) PROVE SafeInv' /\ NothingReopened
  <2>1. refunding[t].obj \in Obj /\ hold[t] = "done"
    BY <1>17 DEF RefundEnds, TypeInv, CallsTyped, SafeInv, Uncharged
  <2>2. RefundCloses(t, refunding[t].obj, heap[t][refunding[t].obj], counts, recentTxBuffer)
    BY <1>17 DEF RefundEnds
  <2>3. heap[t][refunding[t].obj] \in Record /\ recentTxBuffer \in Seq(Buffered)
    BY <2>1 DEF TypeInv, TypeOK
  <2>4. QED  BY <1>17, <2>1, <2>2, <2>3, RefundClosesSafe DEF RefundEnds, lock
<1>18. ASSUME NEW t \in Tx, Expire(t) PROVE SafeInv' /\ NothingReopened
  <2>1. transactions[t] \in Obj
    BY <1>18 DEF Expire, InMap, TypeInv, TypeOK
  <2>2. CASE t \in externalId
    <3>1. UNCHANGED <<hold, transactions, recentTxBuffer, settling, refunding, heap, feeRecords, lockBroken>>
      BY <1>18, <2>2 DEF Expire, books, lock
    <3>2. QED
      BY <3>1 DEF NothingReopened, SafeInv, TerminalCopies, Uncharged,
         OnlyOriginal, AppliedIsTerminal, FeeNotYet, Payable, InMap, Live
  <2>3. CASE t \notin externalId
    <3>1. ExpireMoney(t, transactions[t])
      BY <1>18, <2>3 DEF Expire
    <3>2. QED  BY <1>18, <2>1, <3>1, ExpireMoneySafe DEF Expire, books, lock
  <2>4. QED  BY <2>2, <2>3
<1>19. ASSUME RailReversesExpired PROVE SafeInv' /\ NothingReopened
  <2>1. TerminalCopies'
    BY <1>19 DEF RailReversesExpired, TypeInv, TypeOK, CallsTyped, SafeInv,
       TerminalCopies, Uncharged, Unused, At, Idle, books, calls, lock, money
  <2>2. Uncharged'
    BY <1>19 DEF RailReversesExpired, TypeInv, TypeOK, CallsTyped, SafeInv,
       Uncharged, TerminalCopies, Unused, At, Idle, books, calls, lock, money
  <2>3. OnlyOriginal'
    BY <1>19 DEF RailReversesExpired, TypeInv, TypeOK, CallsTyped, SafeInv,
       OnlyOriginal, Uncharged, Payable, InMap, Live, Unused, At, Idle, books,
       calls, lock, money
  <2>4. AppliedIsTerminal'
    BY <1>19 DEF RailReversesExpired, TypeInv, TypeOK, CallsTyped, SafeInv,
       AppliedIsTerminal, OnlyOriginal, Uncharged, Unused, At, Idle, books,
       calls, lock, money
  <2>5. FeeNotYet'
    BY <1>19 DEF RailReversesExpired, TypeInv, TypeOK, CallsTyped, SafeInv,
       FeeNotYet, OnlyOriginal, Uncharged, Payable, InMap, Live, Unused, At,
       Idle, books, calls, lock, money
  <2>6. NothingReopened
    BY <1>19 DEF RailReversesExpired, TypeInv, TypeOK, CallsTyped, SafeInv,
       NothingReopened, Payable, InMap, Live, Unused, At, Idle, books, calls,
       lock, money
  <2>7. QED  BY <2>1, <2>2, <2>3, <2>4, <2>5, <2>6 DEF SafeInv
<1>20. ASSUME ExpireEnds PROVE SafeInv' /\ NothingReopened
  <2>1. sweep.tx \in Tx /\ sweep.obj \in Obj /\ ExpireMoney(sweep.tx, sweep.obj)
    BY <1>20 DEF ExpireEnds, TypeInv, CallsTyped
  <2>2. QED  BY <1>20, <2>1, ExpireMoneySafe DEF ExpireEnds, books, lock
<1>21. ASSUME NEW t \in Tx, Dispute(t) PROVE SafeInv' /\ NothingReopened
  <2>1. transactions[t] \in Obj /\ Live(t) \in Record /\ hold[t] = "done"
    BY <1>21 DEF Dispute, InMap, Live, TypeInv, TypeOK, SafeInv, Uncharged
  <2>2. Marked(Live(t), "disputed") \in Record
        /\ Marked(Live(t), "disputed").status = "disputed"
    BY <1>21, <2>1, MarkedTyped DEF Status
  <2>3. \A u \in Tx, p \in Obj :
          heap'[u][p] = IF u = t /\ p = transactions[t] THEN Marked(Live(t), "disputed") ELSE heap[u][p]
    BY <1>21, <2>1, <2>2, WriteTyped DEF TypeInv, Dispute
  <2>4. \A u \in Tx, p \in Obj :
          heap'[u][p].status = "pending" => heap[u][p].status = "pending"
    BY <1>21, <2>1, <2>2, <2>3 DEF Live
  <2>5. transactions' = [transactions EXCEPT ![t] = None]
    BY <1>21, <2>1, <2>2, <2>3, <2>4 DEF Dispute
  <2>6. \A u \in Tx : Payable(u)' => Payable(u) /\ transactions'[u] = transactions[u]
    BY <1>21, <2>1, <2>2, <2>3, <2>4, <2>5 DEF TypeInv, TypeOK, Payable, InMap,
       Live
  <2>7. recentTxBuffer' = Remember(recentTxBuffer, t, Marked(Live(t), "disputed"))
        /\ recentTxBuffer \in Seq(Buffered)
    BY <1>21, <2>1, <2>2, <2>3, <2>4, <2>5, <2>6 DEF Dispute, TypeInv, TypeOK
  <2>8. \A j \in DOMAIN recentTxBuffer' :
          recentTxBuffer'[j].rec.status # "pending" /\ hold[recentTxBuffer'[j].id] = "done"
    BY <1>21, <2>1, <2>2, <2>3, <2>4, <2>5, <2>6, <2>7, RememberTerminal DEF
       SafeInv, TerminalCopies
  <2>9. OnlyOriginal' /\ AppliedIsTerminal' /\ FeeNotYet' /\ NothingReopened
    BY <1>21, <2>4, <2>6, NoNewPayable DEF Dispute, books, calls, lock, money
  <2>10. TerminalCopies'
    BY <1>21, <2>1, <2>2, <2>4, <2>5, <2>6, <2>7, <2>8 DEF Dispute, TypeInv,
       TypeOK, CallsTyped, SafeInv, TerminalCopies, Uncharged, Unused, At,
       Idle, books, calls, lock, money
  <2>11. Uncharged'
    BY <1>21, <2>1, <2>2, <2>4, <2>5, <2>6, <2>7, <2>8 DEF Dispute, TypeInv,
       TypeOK, CallsTyped, SafeInv, Uncharged, TerminalCopies, Unused, At,
       Idle, books, calls, lock, money
  <2>12. QED  BY <2>9, <2>10, <2>11 DEF SafeInv
<1>22. ASSUME NEW t \in Tx, NEW i \in DOMAIN recentTxBuffer,
              DisputeBuffered(t, i)
       PROVE  SafeInv' /\ NothingReopened
  <2>1. hold[t] = "done" /\ recentTxBuffer[i].rec \in Record
    BY <1>22, EntryTyped DEF DisputeBuffered, Finds, TypeInv, SafeInv,
       TerminalCopies
  <2>2. Marked(recentTxBuffer[i].rec, "disputed") \in Record
        /\ Marked(recentTxBuffer[i].rec, "disputed").status = "disputed"
    BY <1>22, <2>1, MarkedTyped DEF Status
  <2>3. RemoveAt(recentTxBuffer, i) \in Seq(Buffered)
        /\ \A j \in DOMAIN RemoveAt(recentTxBuffer, i) : \E k \in DOMAIN recentTxBuffer :
             RemoveAt(recentTxBuffer, i)[j] = recentTxBuffer[k]
    BY <1>22, <2>1, <2>2, RemovedIs DEF TypeInv, TypeOK
  <2>4. recentTxBuffer' = Remember(RemoveAt(recentTxBuffer, i), t,
               Marked(recentTxBuffer[i].rec, "disputed"))
    BY <1>22, <2>1, <2>2, <2>3 DEF DisputeBuffered
  <2>5. \A j \in DOMAIN recentTxBuffer' :
          recentTxBuffer'[j].rec.status # "pending" /\ hold[recentTxBuffer'[j].id] = "done"
    BY <1>22, <2>1, <2>2, <2>3, <2>4, RememberTerminal DEF SafeInv,
       TerminalCopies
  <2>6. TerminalCopies'
    BY <1>22, <2>1, <2>2, <2>3, <2>4, <2>5 DEF DisputeBuffered, TypeInv,
       TypeOK, CallsTyped, SafeInv, TerminalCopies, Uncharged, Unused, At,
       Idle, books, calls, lock, money
  <2>7. Uncharged'
    BY <1>22, <2>1, <2>2, <2>3, <2>4, <2>5 DEF DisputeBuffered, TypeInv,
       TypeOK, CallsTyped, SafeInv, Uncharged, TerminalCopies, Unused, At,
       Idle, books, calls, lock, money
  <2>8. OnlyOriginal'
    BY <1>22, <2>1, <2>2, <2>3, <2>4, <2>5 DEF DisputeBuffered, TypeInv,
       TypeOK, CallsTyped, SafeInv, OnlyOriginal, Uncharged, Payable, InMap,
       Live, Unused, At, Idle, books, calls, lock, money
  <2>9. AppliedIsTerminal'
    BY <1>22, <2>1, <2>2, <2>3, <2>4, <2>5 DEF DisputeBuffered, TypeInv,
       TypeOK, CallsTyped, SafeInv, AppliedIsTerminal, OnlyOriginal, Uncharged,
       Unused, At, Idle, books, calls, lock, money
  <2>10. FeeNotYet'
    BY <1>22, <2>1, <2>2, <2>3, <2>4, <2>5 DEF DisputeBuffered, TypeInv,
       TypeOK, CallsTyped, SafeInv, FeeNotYet, OnlyOriginal, Uncharged,
       Payable, InMap, Live, Unused, At, Idle, books, calls, lock, money
  <2>11. NothingReopened
    BY <1>22, <2>1, <2>2, <2>3, <2>4, <2>5 DEF DisputeBuffered, TypeInv,
       TypeOK, CallsTyped, SafeInv, NothingReopened, Payable, InMap, Live,
       Unused, At, Idle, books, calls, lock, money
  <2>12. QED  BY <2>6, <2>7, <2>8, <2>9, <2>10, <2>11 DEF SafeInv
<1>23. ASSUME NEW t \in Tx, NEW i \in DOMAIN recentTxBuffer, NEW o \in Obj,
              DisputeRejected(t, i, o)
       PROVE  SafeInv' /\ NothingReopened
  <2>1. /\ hold[t] = "done" /\ TerminalCopies' /\ OnlyOriginal'
        /\ AppliedIsTerminal' /\ FeeNotYet' /\ NothingReopened
    BY <1>23, ReactivateSafe DEF DisputeRejected, calls, lock, money
  <2>2. Uncharged'
    BY <1>23, <2>1 DEF DisputeRejected, TypeInv, TypeOK, SafeInv, Uncharged,
       At, calls, money
  <2>3. QED  BY <2>1, <2>2 DEF SafeInv
<1>24. ASSUME NEW t \in Tx, NEW outcome \in Outcome, ResolveDispute(t, outcome)
       PROVE  SafeInv' /\ NothingReopened
  <2> DEFINE Same == UNCHANGED <<hold, transactions, settling, refunding, feeRecords, lockBroken>>
  <2>1. Same  BY <1>24 DEF ResolveDispute, calls, lock
  <2>2. CASE /\ InMap(t)
             /\ Write(t, transactions[t], Resolution(Live(t), outcome))
             /\ UNCHANGED recentTxBuffer
    <3>1. transactions[t] \in Obj /\ Live(t) \in Record
      BY <2>2 DEF InMap, Live, TypeInv, TypeOK
    <3>2. /\ Resolution(Live(t), outcome) \in Record
          /\ Resolution(Live(t), outcome).status = "pending" => Live(t).status = "pending"
      BY <3>1, ResolutionTyped
    <3>3. \A u \in Tx, p \in Obj :
            heap'[u][p].status = "pending" => heap[u][p].status = "pending"
      BY <2>2, <3>1, <3>2, WriteTyped DEF TypeInv, Live
    <3>4. TerminalCopies' /\ Uncharged'
      BY <2>1, <2>2 DEF SafeInv, TerminalCopies, Uncharged
    <3>5. \A u \in Tx : Payable(u)' => Payable(u)
      BY <2>1, <3>3 DEF TypeInv, TypeOK, Payable, InMap, Live
    <3>6. OnlyOriginal' /\ FeeNotYet'
      BY <2>1, <3>5 DEF SafeInv, OnlyOriginal, FeeNotYet
    <3>7. AppliedIsTerminal'
      BY <2>1, <3>3 DEF TypeInv, CallsTyped, SafeInv, AppliedIsTerminal
    <3>8. QED  BY <3>4, <3>5, <3>6, <3>7 DEF SafeInv, NothingReopened
  <2>3. ASSUME NEW i \in DOMAIN recentTxBuffer, Finds(t, i), UNCHANGED heap,
               recentTxBuffer' = [recentTxBuffer EXCEPT ![i] =
                 [id |-> t, rec |-> Resolution(recentTxBuffer[i].rec, outcome)]]
        PROVE  SafeInv' /\ NothingReopened
    <3>1. /\ Resolution(recentTxBuffer[i].rec, outcome).status # "pending"
          /\ recentTxBuffer[i].id = t /\ hold[t] = "done"
      BY <2>3, EntryTyped, ResolutionTyped DEF Finds, TypeInv, SafeInv,
         TerminalCopies
    <3>2. TerminalCopies'
      BY <2>1, <2>3, <3>1 DEF TypeInv, TypeOK, SafeInv, TerminalCopies
    <3>3. QED
      BY <2>1, <2>3, <3>2
      DEF NothingReopened, SafeInv, Uncharged, OnlyOriginal, AppliedIsTerminal,
         FeeNotYet, Payable, InMap, Live
  <2>4. CASE UNCHANGED <<heap, recentTxBuffer>>
    BY <2>1, <2>4 DEF NothingReopened, SafeInv, TerminalCopies, Uncharged,
       OnlyOriginal, AppliedIsTerminal, FeeNotYet, Payable, InMap, Live
  <2>5. QED  BY <1>24, <2>2, <2>3, <2>4 DEF ResolveDispute
<1>25. ASSUME Reconcile PROVE SafeInv' /\ NothingReopened
  <2>1. TerminalCopies'
    BY <1>25 DEF Reconcile, TypeInv, TypeOK, CallsTyped, SafeInv,
       TerminalCopies, Uncharged, Unused, At, Idle, books, calls, lock, money
  <2>2. Uncharged'
    BY <1>25 DEF Reconcile, TypeInv, TypeOK, CallsTyped, SafeInv, Uncharged,
       TerminalCopies, Unused, At, Idle, books, calls, lock, money
  <2>3. OnlyOriginal'
    BY <1>25 DEF Reconcile, TypeInv, TypeOK, CallsTyped, SafeInv, OnlyOriginal,
       Uncharged, Payable, InMap, Live, Unused, At, Idle, books, calls, lock,
       money
  <2>4. AppliedIsTerminal'
    BY <1>25 DEF Reconcile, TypeInv, TypeOK, CallsTyped, SafeInv,
       AppliedIsTerminal, OnlyOriginal, Uncharged, Unused, At, Idle, books,
       calls, lock, money
  <2>5. FeeNotYet'
    BY <1>25 DEF Reconcile, TypeInv, TypeOK, CallsTyped, SafeInv, FeeNotYet,
       OnlyOriginal, Uncharged, Payable, InMap, Live, Unused, At, Idle, books,
       calls, lock, money
  <2>6. NothingReopened
    BY <1>25 DEF Reconcile, TypeInv, TypeOK, CallsTyped, SafeInv,
       NothingReopened, Payable, InMap, Live, Unused, At, Idle, books, calls,
       lock, money
  <2>7. QED  BY <2>1, <2>2, <2>3, <2>4, <2>5, <2>6 DEF SafeInv
<1>26. ASSUME EnablePersistence PROVE SafeInv' /\ NothingReopened
  <2>1. TerminalCopies'
    BY <1>26 DEF EnablePersistence, TypeInv, TypeOK, CallsTyped, SafeInv,
       TerminalCopies, Uncharged, Unused, At, Idle, books, calls, lock, money
  <2>2. Uncharged'
    BY <1>26 DEF EnablePersistence, TypeInv, TypeOK, CallsTyped, SafeInv,
       Uncharged,
       TerminalCopies, Unused, At, Idle, books, calls, lock, money
  <2>3. OnlyOriginal'
    BY <1>26 DEF EnablePersistence, TypeInv, TypeOK, CallsTyped, SafeInv,
       OnlyOriginal,
       Uncharged, Payable, InMap, Live, Unused, At, Idle, books, calls, lock,
       money
  <2>4. AppliedIsTerminal'
    BY <1>26 DEF EnablePersistence, TypeInv, TypeOK, CallsTyped, SafeInv,
       AppliedIsTerminal, OnlyOriginal, Uncharged, Unused, At, Idle, books,
       calls, lock, money
  <2>5. FeeNotYet'
    BY <1>26 DEF EnablePersistence, TypeInv, TypeOK, CallsTyped, SafeInv,
       FeeNotYet,
       OnlyOriginal, Uncharged, Payable, InMap, Live, Unused, At, Idle, books,
       calls, lock, money
  <2>6. NothingReopened
    BY <1>26 DEF EnablePersistence, TypeInv, TypeOK, CallsTyped, SafeInv,
       NothingReopened, Payable, InMap, Live, Unused, At, Idle, books, calls,
       lock, money
  <2>7. QED  BY <2>1, <2>2, <2>3, <2>4, <2>5, <2>6 DEF SafeInv
<1>27. QED
  BY <1>1, <1>2, <1>3, <1>4, <1>5, <1>6, <1>7, <1>8, <1>9, <1>10, <1>11, <1>12,
     <1>13, <1>14, <1>15, <1>16, <1>17, <1>18, <1>19, <1>20, <1>21, <1>22,
     <1>23, <1>24, <1>25, <1>26 DEF Next, Starts, Continues

\* The initial states satisfy SafeInv.
LEMMA SafeStart ==
  ASSUME Init
  PROVE  SafeInv
BY DEF Init, SafeInv, TerminalCopies, Uncharged, OnlyOriginal,
   AppliedIsTerminal, FeeNotYet, Payable, InMap, Idle, At

\* SafeInv holds in every reachable state.
LEMMA SafeAlways == Spec => [](TypeInv /\ SafeInv)
<1>1. Init => TypeInv  BY TypeStart
<1>2. Init => SafeInv  BY SafeStart
<1>3. TypeInv /\ SafeInv /\ [Next]_vars => (TypeInv /\ SafeInv)'
  <2>1. CASE Next  BY <2>1, TypeStep, SafeStep
  <2>2. CASE UNCHANGED vars
    BY <2>2 DEF vars, holds, books, calls, lock, money, TypeInv, TypeOK,
       CallsTyped,
       SafeInv, TerminalCopies, Uncharged, OnlyOriginal, AppliedIsTerminal,
       FeeNotYet, Payable, InMap, Live
  <2>3. QED  BY <2>1, <2>2
<1>4. QED  BY <1>1, <1>2, <1>3, PTL DEF Spec

(***************************************************************************)
(* However many settle, refund, expiry and dispute calls overlap, on any   *)
(* number of transactions and objects, a transaction pays one platform fee *)
(* and is settled once, as long as no wallet callback has failed.          *)
(***************************************************************************)
THEOREM OneFee == Spec => []FeeAtMostOnce
<1>1. SafeInv => FeeAtMostOnce  BY DEF SafeInv, FeeNotYet, FeeAtMostOnce
<1>2. QED  BY <1>1, SafeAlways, PTL

(***************************************************************************)
(* However calls overlap, fail and bring copies back out of the ring       *)
(* buffer, what stopped being payable is never payable again.              *)
(***************************************************************************)
THEOREM StaysClosed == Spec => NeverPayableAgain
<1>1. TypeInv /\ SafeInv /\ [Next]_vars
        => [\A t \in Tx : hold[t] = "done" /\ ~Payable(t) => ~Payable(t)']_vars
  BY SafeStep DEF NothingReopened
<1>2. QED  BY <1>1, SafeAlways, PTL DEF Spec, NeverPayableAgain
=============================================================================
