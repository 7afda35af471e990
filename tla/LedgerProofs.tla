---------------------------- MODULE LedgerProofs ----------------------------
(***************************************************************************)
(* For every set of amounts, every compaction argument and any number of   *)
(* entries: the ledger keeps its types, its hash chain has no broken link  *)
(* and its sequence numbers increase.                                      *)
(***************************************************************************)
EXTENDS Ledger, Sums, SequenceTheorems, TLAPS

\* A list of entries whose links and sequence numbers are in order, the
\* first one linking to the compaction base.
Chained(es, base) ==
  /\ es = <<>> => base = NoHash
  /\ es # <<>> => es[1].prev = base
  /\ \A i \in 2 .. Len(es) : es[i].prev = es[i - 1].hash
  /\ \A i, j \in 1 .. Len(es) : i < j => es[i].seq < es[j].seq

HeadHash(es) == IF es = <<>> THEN NoHash ELSE es[Len(es)].hash

(***************************************************************************)
(* The stored image must be chained as well, because Restore makes it the  *)
(* list of entries; and the head and the next number must fit the newest   *)
(* entry, because the next transfer links to the one and takes the other.  *)
(***************************************************************************)
ChainInv ==
  /\ TypeOK
  /\ Chained(entries, baseHash)
  /\ lastEntryHash = HeadHash(entries)
  /\ \A i \in 1 .. Len(entries) : entries[i].seq < seq
  /\ Chained(disk.entries, disk.base)
-----------------------------------------------------------------------------
\* One debit and one credit turn a table of balances into another.
LEMMA MoveType ==
  ASSUME NEW b \in [Account -> Int], NEW from, NEW to, NEW amount \in Int
  PROVE  Move(b, from, to, amount) \in [Account -> Int]
BY DEF Move

\* Two entries, each linking to the one before, extend a chain.
LEMMA ChainedAppend ==
  ASSUME NEW es \in Seq(Entry), NEW base \in Nat, NEW d \in Entry,
         NEW c \in Entry, Chained(es, base),
         d.prev = HeadHash(es), c.prev = d.hash, d.seq < c.seq,
         \A i \in 1 .. Len(es) : es[i].seq < d.seq
  PROVE  Chained(es \o <<d, c>>, base)
<1> DEFINE new == es \o <<d, c>>
<1>1. /\ new \in Seq(Entry)
      /\ Len(new) = Len(es) + 2
      /\ \A i \in 1 .. Len(es) : new[i] = es[i]
      /\ new[Len(es) + 1] = d
      /\ new[Len(es) + 2] = c
  OBVIOUS
<1>2. \A i \in 1 .. Len(es) : es[i] \in Entry
  OBVIOUS
<1>3. new # <<>> /\ new[1].prev = base
  <2>1. CASE es = <<>>
    BY <1>1, <2>1 DEF Chained, HeadHash
  <2>2. CASE es # <<>>
    BY <1>1, <2>2 DEF Chained
  <2> QED BY <2>1, <2>2
<1>4. ASSUME NEW i \in 2 .. Len(new)
      PROVE  new[i].prev = new[i - 1].hash
  <2>1. CASE i <= Len(es)
    BY <1>1, <2>1 DEF Chained
  <2>2. CASE i = Len(es) + 1
    BY <1>1, <2>2 DEF HeadHash
  <2>3. CASE i = Len(es) + 2
    BY <1>1, <2>3
  <2> QED BY <1>1, <2>1, <2>2, <2>3
<1>5. ASSUME NEW i \in 1 .. Len(new), NEW j \in 1 .. Len(new), i < j
      PROVE  new[i].seq < new[j].seq
  <2>1. CASE j <= Len(es)
    BY <1>1, <1>5, <2>1 DEF Chained
  <2>2. CASE j = Len(es) + 1
    BY <1>1, <1>5, <2>2
  <2>3. CASE j = Len(es) + 2
    <3>1. CASE i = Len(es) + 1
      BY <1>1, <2>3, <3>1
    <3>2. CASE i <= Len(es)
      <4>1. i \in 1 .. Len(es) /\ es[i] \in Entry
        BY <3>2
      <4>2. es[i].seq < d.seq /\ es[i].seq \in Nat
        BY <4>1 DEF Entry
      <4>3. d.seq \in Nat /\ c.seq \in Nat
        BY DEF Entry
      <4>4. new[i] = es[i] /\ new[j] = c
        BY <1>1, <2>3, <4>1
      <4> HIDE DEF new
      <4> QED BY <4>2, <4>3, <4>4
    <3> QED BY <1>1, <1>5, <2>3, <3>1, <3>2
  <2> QED BY <1>1, <2>1, <2>2, <2>3
<1> QED BY <1>3, <1>4, <1>5 DEF Chained

\* What compact() keeps is a chain based on the last entry it dropped.
LEMMA ChainedSuffix ==
  ASSUME NEW es \in Seq(Entry), NEW base \in Nat, NEW max \in Nat \ {0},
         Len(es) > max, Chained(es, base)
  PROVE  LET kept == SubSeq(es, Len(es) - max + 1, Len(es))
         IN  /\ kept \in Seq(Entry)
             /\ kept # <<>>
             /\ Len(kept) = max
             /\ \A i \in 1 .. max : kept[i] = es[Len(es) - max + i]
             /\ Chained(kept, es[Len(es) - max].hash)
<1> DEFINE kept == SubSeq(es, Len(es) - max + 1, Len(es))
<1>1. /\ kept \in Seq(Entry)
      /\ Len(kept) = max
      /\ \A i \in 1 .. max : kept[i] = es[Len(es) - max + i]
  OBVIOUS
<1>2. kept # <<>> /\ kept[1].prev = es[Len(es) - max].hash
  <2>1. kept[1] = es[Len(es) - max + 1]
    BY <1>1
  <2>2. Len(es) - max + 1 \in 2 .. Len(es)
    OBVIOUS
  <2>3. es[Len(es) - max + 1].prev = es[(Len(es) - max + 1) - 1].hash
    BY <2>2 DEF Chained
  <2>4. (Len(es) - max + 1) - 1 = Len(es) - max
    OBVIOUS
  <2>5. kept # <<>>
    BY <1>1
  <2> QED BY <2>1, <2>3, <2>4, <2>5
<1>3. ASSUME NEW i \in 2 .. Len(kept)
      PROVE  kept[i].prev = kept[i - 1].hash
  <2>1. /\ Len(es) - max + i \in 2 .. Len(es)
        /\ (Len(es) - max + i) - 1 = Len(es) - max + (i - 1)
        /\ i \in 1 .. max /\ i - 1 \in 1 .. max
    BY <1>1
  <2>2. es[Len(es) - max + i].prev = es[(Len(es) - max + i) - 1].hash
    BY <2>1 DEF Chained
  <2> HIDE DEF kept
  <2> QED BY <1>1, <2>1, <2>2
<1>4. ASSUME NEW i \in 1 .. Len(kept), NEW j \in 1 .. Len(kept), i < j
      PROVE  kept[i].seq < kept[j].seq
  <2>1. /\ Len(es) - max + i \in 1 .. Len(es)
        /\ Len(es) - max + j \in 1 .. Len(es)
        /\ Len(es) - max + i < Len(es) - max + j
        /\ i \in 1 .. max /\ j \in 1 .. max
    BY <1>1, <1>4
  <2>2. es[Len(es) - max + i].seq < es[Len(es) - max + j].seq
    BY <2>1 DEF Chained
  <2> HIDE DEF kept
  <2> QED BY <1>1, <2>1, <2>2
<1> HIDE DEF kept
<1>5. Chained(kept, es[Len(es) - max].hash)
  BY <1>2, <1>3, <1>4 DEF Chained
<1> QED BY <1>1, <1>2, <1>5 DEF kept
-----------------------------------------------------------------------------
\* An empty ledger is chained.
LEMMA ChainInit == Init => ChainInv
<1> SUFFICES ASSUME Init PROVE ChainInv
  OBVIOUS
<1>1. NoPostings \in [Account -> Int]
  BY DEF NoPostings
<1>2. <<>> \in Seq(Entry)
  OBVIOUS
<1>3. EmptyImage \in Image
  BY <1>1, <1>2 DEF EmptyImage, Image, NoHash
<1>4. TypeOK
  BY <1>1, <1>2, <1>3 DEF Init, TypeOK, NoHash
<1> QED BY <1>4 DEF Init, ChainInv, Chained, HeadHash, EmptyImage

\* Every operation keeps both chains: one step per action.
LEMMA ChainStep == ChainInv /\ [Next]_vars => ChainInv'
<1> SUFFICES ASSUME ChainInv, [Next]_vars PROVE ChainInv'
  OBVIOUS
<1> USE LedgerAssumption
<1>1. ASSUME NEW r \in Route, NEW amount \in Amount,
             Transfer(r[1], r[2], amount)
      PROVE  ChainInv'
  <2>1. r[1] \in Account /\ r[2] \in Account /\ amount \in Nat
    OBVIOUS
  <2>2. accountBalances' \in [Account -> Int]
    BY <1>1, <2>1, MoveType DEF Transfer, ChainInv, TypeOK
  <2> DEFINE d == DebitEntry(r[1], amount)
             c == CreditEntry(r[2], amount)
  <2>3. d \in Entry /\ c \in Entry
    BY <2>1 DEF DebitEntry, CreditEntry, Entry, ChainInv, TypeOK
  <2>4. CASE skipEntries
    <3>1. /\ UNCHANGED <<entries, lastEntryHash, skipEntries, baseHash,
                         declaredHead, disk>>
          /\ totalEntryCount' = totalEntryCount + 2
          /\ seq' = seq + 2 /\ made' = made + 2
      BY <1>1, <2>4 DEF Transfer
    <3>2. TypeOK'
      BY <2>2, <3>1 DEF ChainInv, TypeOK
    <3>3. ASSUME NEW i \in 1 .. Len(entries')
          PROVE  entries'[i].seq < seq'
      <4>1. entries[i] \in Entry /\ entries[i].seq < seq /\ seq \in Nat
        BY <3>1 DEF ChainInv, TypeOK
      <4>2. entries[i].seq \in Nat
        BY <4>1 DEF Entry
      <4> QED BY <3>1, <4>1, <4>2
    <3> QED BY <3>1, <3>2, <3>3 DEF ChainInv
  <2>5. CASE ~skipEntries
    <3>1. entries' = entries \o <<d, c>> /\ lastEntryHash' = made + 2
      BY <1>1, <2>5 DEF Transfer
    <3>2. entries \in Seq(Entry) /\ baseHash \in Nat /\ made \in Nat
          /\ seq \in Nat
      BY DEF ChainInv, TypeOK
    <3>3. /\ d.prev = HeadHash(entries) /\ c.prev = d.hash
          /\ d.seq = seq /\ c.seq = seq + 1 /\ c.hash = made + 2
      BY DEF ChainInv, DebitEntry, CreditEntry
    <3>4. Chained(entries', baseHash)
      <4>1. \A i \in 1 .. Len(entries) : entries[i].seq < d.seq
        BY <3>3 DEF ChainInv
      <4>2. d.seq < c.seq
        BY <3>2, <3>3
      <4>3. Chained(entries, baseHash)
        BY DEF ChainInv
      <4> HIDE DEF d, c
      <4>4. Chained(entries \o <<d, c>>, baseHash)
        BY <2>3, <3>2, <3>3, <4>1, <4>2, <4>3, ChainedAppend
      <4> QED BY <3>1, <4>4
    <3>5. /\ entries' \in Seq(Entry) /\ Len(entries') = Len(entries) + 2
          /\ \A i \in 1 .. Len(entries) : entries'[i] = entries[i]
          /\ entries'[Len(entries) + 1] = d /\ entries'[Len(entries) + 2] = c
      BY <2>3, <3>1, <3>2
    <3>6. TypeOK'
      BY <1>1, <2>2, <2>5, <3>5 DEF Transfer, ChainInv, TypeOK
    <3>7. lastEntryHash' = HeadHash(entries')
      BY <3>1, <3>2, <3>3, <3>5 DEF HeadHash
    <3>8. ASSUME NEW i \in 1 .. Len(entries')
          PROVE  entries'[i].seq < seq'
      <4>1. seq' = seq + 2
        BY <1>1 DEF Transfer
      <4>2. CASE i <= Len(entries)
        <5>1. i \in 1 .. Len(entries)
          BY <3>2, <4>2
        <5>2. entries[i] \in Entry /\ entries[i].seq < seq
          BY <3>2, <5>1 DEF ChainInv
        <5>3. entries[i].seq \in Nat /\ entries'[i] = entries[i]
          BY <3>5, <5>1, <5>2 DEF Entry
        <5> QED BY <3>2, <4>1, <5>2, <5>3
      <4>3. CASE i \in {Len(entries) + 1, Len(entries) + 2}
        BY <3>2, <3>3, <3>5, <4>1, <4>3
      <4> QED BY <3>2, <3>5, <4>2, <4>3
    <3> QED BY <1>1, <3>4, <3>6, <3>7, <3>8 DEF Transfer, ChainInv
  <2> QED BY <2>4, <2>5
<1>2. ASSUME NEW max \in Keep, Compact(max)
      PROVE  ChainInv'
  <2>1. entries \in Seq(Entry) /\ baseHash \in Nat /\ max \in Nat \ {0}
    BY DEF ChainInv, TypeOK
  <2>2. /\ entries' \in Seq(Entry) /\ entries' # <<>> /\ Len(entries') = max
        /\ \A i \in 1 .. max : entries'[i] = entries[Len(entries) - max + i]
        /\ Chained(entries', baseHash')
    BY <1>2, <2>1, ChainedSuffix DEF Compact, ChainInv
  <2>3. entries[Len(entries) - max] \in Entry
    BY <1>2, <2>1 DEF Compact
  <2>4. TypeOK'
    BY <1>2, <2>2, <2>3 DEF Compact, ChainInv, TypeOK, Entry
  <2>5. lastEntryHash' = HeadHash(entries')
    <3>1. entries'[max] = entries[Len(entries)]
      <4>1. max \in 1 .. max /\ Len(entries) - max + max = Len(entries)
        BY <2>1
      <4> QED BY <2>2, <4>1
    <3>2. entries # <<>>
      BY <1>2, <2>1 DEF Compact
    <3> QED BY <1>2, <2>2, <3>1, <3>2 DEF Compact, ChainInv, HeadHash
  <2>6. \A i \in 1 .. Len(entries') : entries'[i].seq < seq'
    BY <1>2, <2>1, <2>2 DEF Compact, ChainInv
  <2> QED BY <1>2, <2>2, <2>4, <2>5, <2>6 DEF Compact, ChainInv
<1>3. ASSUME NEW enabled \in BOOLEAN, SetHighThroughput(enabled)
      PROVE  ChainInv'
  BY <1>3 DEF SetHighThroughput, ChainInv, TypeOK, HeadHash, Chained
<1>4. CASE Serialize
  BY <1>4 DEF Serialize, mem, ChainInv, TypeOK, HeadHash, Chained, Image
<1>5. CASE Restore
  <2>1. /\ disk.entries \in Seq(Entry) /\ disk.balances \in [Account -> Int]
        /\ disk.count \in Nat /\ disk.skip \in BOOLEAN
        /\ disk.base \in Nat /\ disk.head \in Nat
    BY DEF ChainInv, TypeOK, Image
  <2>2. disk.entries # <<>> => disk.entries[Len(disk.entries)] \in Entry
    BY <2>1
  <2>3. TypeOK'
    <3>1. seq' \in Nat /\ lastEntryHash' \in Nat
      <4>1. CASE disk.entries = <<>>
        BY <1>5, <4>1 DEF Restore, NoHash
      <4>2. CASE disk.entries # <<>>
        <5>1. /\ disk.entries[Len(disk.entries)].seq \in Nat
              /\ disk.entries[Len(disk.entries)].hash \in Nat
          BY <2>2, <4>2 DEF Entry
        <5> QED BY <1>5, <4>2, <5>1 DEF Restore
      <4> QED BY <4>1, <4>2
    <3> QED BY <1>5, <2>1, <3>1 DEF Restore, ChainInv, TypeOK
  <2>4. Chained(entries', baseHash') /\ lastEntryHash' = HeadHash(entries')
    BY <1>5 DEF Restore, ChainInv, HeadHash
  <2>5. ASSUME NEW i \in 1 .. Len(entries')
        PROVE  entries'[i].seq < seq'
    <3>1. entries' = disk.entries /\ entries' # <<>>
          /\ seq' = disk.entries[Len(disk.entries)].seq + 1
      BY <1>5, <2>1 DEF Restore
    <3>2. entries'[i] \in Entry /\ entries'[Len(entries')] \in Entry
      BY <2>1, <3>1
    <3>3. i < Len(entries') => entries'[i].seq < entries'[Len(entries')].seq
      BY <2>1, <3>1 DEF ChainInv, Chained
    <3>4. entries'[i].seq \in Nat /\ entries'[Len(entries')].seq \in Nat
      BY <3>2 DEF Entry
    <3>5. i <= Len(entries') /\ i \in Nat /\ Len(entries') \in Nat
      BY <2>1, <3>1
    <3>6. entries'[i].seq <= entries'[Len(entries')].seq
      BY <3>3, <3>4, <3>5
    <3> QED BY <3>1, <3>4, <3>6
  <2> QED BY <1>5, <2>3, <2>4, <2>5 DEF Restore, ChainInv
<1>6. CASE UNCHANGED vars
  BY <1>6 DEF vars, mem, ChainInv, TypeOK, HeadHash, Chained
<1> QED BY <1>1, <1>2, <1>3, <1>4, <1>5, <1>6 DEF Next

\* The strengthened invariant holds in every reachable state.
LEMMA ChainInvariant == Spec => []ChainInv
BY ChainInit, ChainStep, PTL DEF Spec
-----------------------------------------------------------------------------
\* Every variable of the ledger keeps its type.
THEOREM TypeCorrect == Spec => []TypeOK
<1>1. ChainInv => TypeOK
  BY DEF ChainInv
<1> QED BY <1>1, ChainInvariant, PTL

\* verifyChain() finds no broken link, whatever was compacted and restored.
THEOREM ChainIntact == Spec => []NoBrokenLinks
<1>1. ChainInv => NoBrokenLinks
  <2> SUFFICES ASSUME ChainInv, NEW i \in DOMAIN entries PROVE Links(i)
    BY DEF NoBrokenLinks, BrokenLinks
  <2>1. entries \in Seq(Entry) /\ baseHash \in Nat /\ i \in 1 .. Len(entries)
    BY DEF ChainInv, TypeOK
  <2>2. entries # <<>>
    BY <2>1
  <2>3. CASE i = 1
    BY <2>1, <2>2, <2>3 DEF ChainInv, Chained, Links
  <2>4. CASE i # 1
    BY <2>1, <2>4 DEF ChainInv, Chained, Links
  <2> QED BY <2>3, <2>4
<1> QED BY <1>1, ChainInvariant, PTL

\* The visible entries are numbered in chain order.
THEOREM NumberedInOrder == Spec => []SeqIncreasing
<1>1. ChainInv => SeqIncreasing
  BY DEF ChainInv, TypeOK, Chained, SeqIncreasing
<1> QED BY <1>1, ChainInvariant, PTL
-----------------------------------------------------------------------------
\* A list of entries never outnumbers the lifetime count, and while it is all
\* of them, the balances are those the entries add up to.
Balanced(es, bal, count) ==
  /\ Len(es) <= count
  /\ Len(es) = count => \A a \in Account : BalanceOf(a, es) = bal[a]

(***************************************************************************)
(* reconcile() may also run after a restart, so the stored image has to    *)
(* be balanced too; a count that compaction or a high-throughput spell     *)
(* left ahead of the entries never comes down to them again.               *)
(***************************************************************************)
BalanceInv ==
  /\ ChainInv
  /\ Balanced(entries, accountBalances, totalEntryCount)
  /\ Balanced(disk.entries, disk.balances, disk.count)

\* The effect of an entry is a whole number of cents.
LEMMA EffectInt == ASSUME NEW e \in Entry, NEW a PROVE Effect(e, a) \in Int
BY DEF Effect, Entry

\* Appending the two entries of a transfer adds their effects to the balance.
LEMMA BalanceAppend ==
  ASSUME NEW es \in Seq(Entry), NEW d \in Entry, NEW c \in Entry, NEW a
  PROVE  BalanceOf(a, es \o <<d, c>>) = BalanceOf(a, es) + Effect(d, a) + Effect(c, a)
<1> DEFINE new == es \o <<d, c>>
           n   == Len(es)
           f   == [i \in DOMAIN es |-> Effect(es[i], a)]
           h   == [i \in DOMAIN new |-> Effect(new[i], a)]
<1>1. /\ n \in Nat /\ DOMAIN es = 1 .. n /\ DOMAIN new = 1 .. n + 2
      /\ \A i \in 1 .. n : new[i] = es[i] /\ es[i] \in Entry
      /\ new[n + 1] = d /\ new[n + 2] = c
  OBVIOUS
<1>2. 1 .. n + 2 = ((1 .. n) \cup {n + 1}) \cup {n + 2}
      /\ n + 1 \notin 1 .. n /\ n + 2 \notin (1 .. n) \cup {n + 1}
  BY <1>1
<1> HIDE DEF new, n
<1>3. IsFiniteSet(1 .. n) /\ IsFiniteSet((1 .. n) \cup {n + 1})
  <2>1. 1 \in Int /\ n \in Int
    BY <1>1
  <2>2. IsFiniteSet(1 .. n)
    BY <2>1, FS_Interval
  <2> QED BY <2>2, FS_AddElement
<1>4. /\ \A i \in 1 .. n : f[i] = Effect(es[i], a) /\ h[i] = f[i]
      /\ h[n + 1] = Effect(d, a) /\ h[n + 2] = Effect(c, a)
  BY <1>1
<1>5. /\ \A i \in 1 .. n : f[i] \in Int /\ h[i] \in Int
      /\ h[n + 1] \in Int /\ h[n + 2] \in Int
  BY <1>1, <1>4, EffectInt
<1>6. BalanceOf(a, es) = SumFunctionOnSet(f, 1 .. n)
      /\ BalanceOf(a, new) = SumFunctionOnSet(h, 1 .. n + 2)
  BY <1>1 DEF BalanceOf
<1> HIDE DEF f, h
<1>7. SumFunctionOnSet(h, 1 .. n) = SumFunctionOnSet(f, 1 .. n)
      /\ SumFunctionOnSet(f, 1 .. n) \in Int
  BY <1>3, <1>4, <1>5, SumAgree, SumInt
<1>8. SumFunctionOnSet(h, (1 .. n) \cup {n + 1}) = h[n + 1] + SumFunctionOnSet(h, 1 .. n)
  BY <1>2, <1>3, <1>5, SumAdd
<1>9. SumFunctionOnSet(h, ((1 .. n) \cup {n + 1}) \cup {n + 2})
        = h[n + 2] + SumFunctionOnSet(h, (1 .. n) \cup {n + 1})
  BY <1>2, <1>3, <1>5, SumAdd
<1>10. SumFunctionOnSet(h, 1 .. n + 2) = SumFunctionOnSet(f, 1 .. n) + h[n + 1] + h[n + 2]
  <2>1. SumFunctionOnSet(h, 1 .. n + 2)
          = SumFunctionOnSet(h, ((1 .. n) \cup {n + 1}) \cup {n + 2})
    BY <1>2
  <2> DEFINE A == SumFunctionOnSet(h, 1 .. n + 2)
             B == SumFunctionOnSet(h, (1 .. n) \cup {n + 1})
             C == SumFunctionOnSet(f, 1 .. n)
             D == SumFunctionOnSet(h, ((1 .. n) \cup {n + 1}) \cup {n + 2})
  <2>2. A = D /\ D = h[n + 2] + B /\ B = h[n + 1] + C /\ C \in Int
    BY <2>1, <1>7, <1>8, <1>9
  <2> HIDE DEF A, B, C, D
  <2>3. A = C + h[n + 1] + h[n + 2]
    BY <2>2, <1>5
  <2> QED BY <2>3 DEF A, C
<1> QED BY <1>4, <1>6, <1>10 DEF new

\* The empty list is balanced by empty accounts.
LEMMA BalanceEmpty == Balanced(<<>>, NoPostings, 0)
<1>1. ASSUME NEW a \in Account PROVE BalanceOf(a, <<>>) = 0
  <2>1. DOMAIN <<>> = {}
    OBVIOUS
  <2> QED BY <2>1, SumEmpty DEF BalanceOf
<1> QED BY <1>1 DEF Balanced, NoPostings

\* Every operation keeps both lists balanced: one step per action.
LEMMA BalanceStep == BalanceInv /\ [Next]_vars => BalanceInv'
<1> SUFFICES ASSUME BalanceInv, [Next]_vars PROVE BalanceInv'
  OBVIOUS
<1> USE LedgerAssumption
<1>0. ChainInv' /\ TypeOK
  BY ChainStep DEF BalanceInv, ChainInv
<1>1. ASSUME NEW r \in Route, NEW amount \in Amount,
             Transfer(r[1], r[2], amount)
      PROVE  BalanceInv'
  <2> DEFINE d == DebitEntry(r[1], amount)
             c == CreditEntry(r[2], amount)
  <2>1. r[1] \in Account /\ r[2] \in Account /\ r[1] # r[2] /\ amount \in Nat
    BY <1>1 DEF Transfer
  <2>2. d \in Entry /\ c \in Entry
    BY <1>0, <2>1 DEF DebitEntry, CreditEntry, Entry, TypeOK
  <2>3. entries \in Seq(Entry) /\ totalEntryCount \in Nat
        /\ accountBalances \in [Account -> Int]
    BY <1>0 DEF TypeOK
  <2>4. totalEntryCount' = totalEntryCount + 2 /\ UNCHANGED disk
    BY <1>1 DEF Transfer
  <2>5. CASE skipEntries
    <3>1. entries' = entries
      BY <1>1, <2>5 DEF Transfer
    <3> QED BY <1>0, <2>3, <2>4, <3>1 DEF BalanceInv, Balanced
  <2>6. CASE ~skipEntries
    <3>1. entries' = entries \o <<d, c>>
      BY <1>1, <2>6 DEF Transfer
    <3>2. Len(entries') = Len(entries) + 2
      BY <2>2, <2>3, <3>1
    <3>3. ASSUME NEW a \in Account, Len(entries') = totalEntryCount'
          PROVE  BalanceOf(a, entries') = accountBalances'[a]
      <4>1. BalanceOf(a, entries) = accountBalances[a]
        BY <2>3, <2>4, <3>2, <3>3 DEF BalanceInv, Balanced
      <4>2. accountBalances'[a] = accountBalances[a]
              + (IF a = r[2] THEN amount ELSE 0) - (IF a = r[1] THEN amount ELSE 0)
        BY <1>1 DEF Transfer, Move
      <4>3. /\ Effect(d, a) = IF a = r[1] THEN 0 - amount ELSE 0
            /\ Effect(c, a) = IF a = r[2] THEN amount - 0 ELSE 0
        BY DEF Effect, DebitEntry, CreditEntry
      <4> HIDE DEF d, c
      <4>4. BalanceOf(a, entries') = BalanceOf(a, entries) + Effect(d, a) + Effect(c, a)
        BY <2>2, <2>3, <3>1, BalanceAppend
      <4>5. accountBalances[a] \in Int
        BY <2>3
      <4> QED BY <2>1, <4>1, <4>2, <4>3, <4>4, <4>5
    <3> QED BY <1>0, <2>3, <2>4, <3>2, <3>3 DEF BalanceInv, Balanced
  <2> QED BY <2>5, <2>6
<1>2. ASSUME NEW max \in Keep, Compact(max)
      PROVE  BalanceInv'
  <2>1. entries \in Seq(Entry) /\ max \in Nat \ {0} /\ Len(entries) > max
    BY <1>0, <1>2 DEF Compact, TypeOK
  <2>2. Len(entries') < Len(entries) /\ Len(entries') \in Nat
    BY <1>2, <2>1 DEF Compact
  <2>3. totalEntryCount \in Nat
    BY <1>0 DEF TypeOK
  <2> QED BY <1>0, <1>2, <2>1, <2>2, <2>3 DEF Compact, BalanceInv, Balanced
<1>3. ASSUME NEW enabled \in BOOLEAN, SetHighThroughput(enabled)
      PROVE  BalanceInv'
  BY <1>0, <1>3 DEF SetHighThroughput, BalanceInv
<1>4. CASE Serialize
  BY <1>0, <1>4 DEF Serialize, mem, BalanceInv
<1>5. CASE Restore
  BY <1>0, <1>5 DEF Restore, BalanceInv
<1>6. CASE UNCHANGED vars
  BY <1>0, <1>6 DEF vars, mem, BalanceInv
<1> QED BY <1>1, <1>2, <1>3, <1>4, <1>5, <1>6 DEF Next

(***************************************************************************)
(* Whatever was transferred, compacted, skipped, stored and restored, when *)
(* reconcile() says it could check, every running balance is the one the   *)
(* entries add up to: it reports a mismatch only for books somebody else   *)
(* changed.                                                                *)
(***************************************************************************)
THEOREM BooksReconcile == Spec => []ReconcileConsistent
<1>1. Init => BalanceInv
  <2> SUFFICES ASSUME Init PROVE BalanceInv
    OBVIOUS
  <2>1. ChainInv
    BY ChainInit
  <2>2. /\ entries = <<>> /\ accountBalances = NoPostings /\ totalEntryCount = 0
        /\ disk.entries = <<>> /\ disk.balances = NoPostings /\ disk.count = 0
    BY DEF Init, EmptyImage
  <2> QED BY <2>1, <2>2, BalanceEmpty DEF BalanceInv
<1>2. BalanceInv => ReconcileConsistent
  BY DEF BalanceInv, Balanced, ReconcileConsistent, Checked, Recomputed
<1> QED BY <1>1, <1>2, BalanceStep, PTL DEF Spec
=============================================================================
