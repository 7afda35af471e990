------------------------------- MODULE Ledger -------------------------------
(***************************************************************************)
(* The Ledger class of src/src/ledger.ts: running totals, the hash-chained *)
(* list of entries, compaction, high-throughput mode, and the trip through *)
(* serialize() and the constructor that a restart makes.                   *)
(*                                                                         *)
(* Every entry carries random ids inside its hash, so a hash is modelled   *)
(* by the entry's own identity: a number no other entry ever gets.         *)
(***************************************************************************)
EXTENDS Postings, Sequences, FiniteSets, FiniteSetsExt

CONSTANTS Route,      \* <<from, to>> account pairs callers transfer between
          Amount,     \* amounts a caller moves, in cents
          Keep,       \* the maxEntries arguments compact() is called with
          MaxEntry    \* bound: entries created over the whole behaviour

ASSUME LedgerAssumption ==
  /\ Route \subseteq Account \X Account
  /\ Amount \subseteq Nat \ {0}
  /\ Keep \subseteq Nat \ {0}
  /\ MaxEntry \in Nat

NoHash == 0       \* undefined prevEntryHash, _baseHash, _declaredHead, head

VARIABLES
  entries,         \* the visible entries, oldest first
  seq,             \* next sequence number
  lastEntryHash,   \* hash of the newest entry
  accountBalances, \* running balance per account
  totalEntryCount, \* lifetime count of entries, recorded or not
  skipEntries,     \* high-throughput mode
  baseHash,        \* hash of the last entry compact() dropped
  declaredHead,    \* head hash the summary of a restored ledger declared
  made,            \* identities handed out so far: the next hash is made + 1
  disk             \* what serialize() last returned, as the caller stored it

mem  == <<entries, seq, lastEntryHash, accountBalances, totalEntryCount,
          skipEntries, baseHash, declaredHead>>
vars == <<mem, made, disk>>

Entry == [hash: Nat, prev: Nat, seq: Nat, account: Account,
          debit: Nat, credit: Nat]

Image == [entries: Seq(Entry), balances: [Account -> Int], count: Nat,
          skip: BOOLEAN, base: Nat, head: Nat]

EmptyImage == [entries |-> <<>>, balances |-> NoPostings, count |-> 0,
               skip |-> FALSE, base |-> NoHash, head |-> NoHash]

TypeOK ==
  /\ entries \in Seq(Entry)
  /\ seq \in Nat
  /\ lastEntryHash \in Nat
  /\ accountBalances \in [Account -> Int]
  /\ totalEntryCount \in Nat
  /\ skipEntries \in BOOLEAN
  /\ baseHash \in Nat
  /\ declaredHead \in Nat
  /\ made \in Nat
  /\ disk \in Image

Init ==
  /\ entries = <<>>
  /\ seq = 0
  /\ lastEntryHash = NoHash
  /\ accountBalances = NoPostings
  /\ totalEntryCount = 0
  /\ skipEntries = FALSE
  /\ baseHash = NoHash
  /\ declaredHead = NoHash
  /\ made = 0
  /\ disk = EmptyImage
-----------------------------------------------------------------------------
(***************************************************************************)
(* The debit and the credit entry transfer() appends: the debit links to   *)
(* the current head, the credit to the debit.                              *)
(***************************************************************************)
DebitEntry(from, amount) ==
  [hash |-> made + 1, prev |-> lastEntryHash, seq |-> seq,
   account |-> from, debit |-> amount, credit |-> 0]

CreditEntry(to, amount) ==
  [hash |-> made + 2, prev |-> made + 1, seq |-> seq + 1,
   account |-> to, debit |-> 0, credit |-> amount]

\* Slip: the lifetime count grows only with the recorded entries.
TransferSkipsCount(from, to, amount) ==
  /\ from # to
  /\ made + 2 <= MaxEntry
  /\ accountBalances' = Move(accountBalances, from, to, amount)
  /\ totalEntryCount' = totalEntryCount + (IF skipEntries THEN 0 ELSE 2)
  /\ seq' = seq + 2
  /\ made' = made + 2
  /\ IF skipEntries
       THEN UNCHANGED <<entries, lastEntryHash>>
       ELSE /\ entries' = entries \o <<DebitEntry(from, amount),
                                       CreditEntry(to, amount)>>
            /\ lastEntryHash' = made + 2
  /\ UNCHANGED <<skipEntries, baseHash, declaredHead, disk>>

\* transfer(): running totals always; the two entries unless skipping.
Transfer(from, to, amount) ==
  /\ from # to
  /\ made + 2 <= MaxEntry
  /\ accountBalances' = Move(accountBalances, from, to, amount)
  /\ totalEntryCount' = totalEntryCount + 2
  /\ seq' = seq + 2
  /\ made' = made + 2
  /\ IF skipEntries
       THEN UNCHANGED <<entries, lastEntryHash>>
       ELSE /\ entries' = entries \o <<DebitEntry(from, amount),
                                       CreditEntry(to, amount)>>
            /\ lastEntryHash' = made + 2
  /\ UNCHANGED <<skipEntries, baseHash, declaredHead, disk>>

\* Slip: the base is the first entry that stays, not the last that goes.
CompactKeepsWrongBase(max) ==
  /\ Len(entries) > max
  /\ entries' = SubSeq(entries, Len(entries) - max + 1, Len(entries))
  /\ baseHash' = entries[Len(entries) - max + 1].hash
  /\ UNCHANGED <<seq, lastEntryHash, accountBalances, totalEntryCount,
                 skipEntries, declaredHead, made, disk>>

\* compact(): drop the oldest entries, remember the last dropped hash.
Compact(max) ==
  /\ Len(entries) > max
  /\ entries' = SubSeq(entries, Len(entries) - max + 1, Len(entries))
  /\ baseHash' = entries[Len(entries) - max].hash
  /\ UNCHANGED <<seq, lastEntryHash, accountBalances, totalEntryCount,
                 skipEntries, declaredHead, made, disk>>

SetHighThroughput(enabled) ==
  /\ enabled # skipEntries
  /\ skipEntries' = enabled
  /\ UNCHANGED <<entries, seq, lastEntryHash, accountBalances,
                 totalEntryCount, baseHash, declaredHead, made, disk>>

\* serialize(): the entries and the summary the caller stores.
Serialize ==
  /\ disk' = [entries |-> entries, balances |-> accountBalances,
              count |-> totalEntryCount, skip |-> skipEntries,
              base |-> baseHash, head |-> lastEntryHash]
  /\ UNCHANGED <<mem, made>>

\* Slip: the sequence restarts at the index of the newest surviving entry.
RestoreReusesSeq ==
  /\ entries' = disk.entries
  /\ accountBalances' = disk.balances
  /\ totalEntryCount' = disk.count
  /\ skipEntries' = disk.skip
  /\ baseHash' = disk.base
  /\ declaredHead' = disk.head
  /\ seq' = Len(disk.entries) - 1
  /\ lastEntryHash' = IF disk.entries = <<>>
              THEN NoHash ELSE disk.entries[Len(disk.entries)].hash
  /\ UNCHANGED <<made, disk>>

(***************************************************************************)
(* A restart: new Ledger(existingEntries) from the stored image.  What was *)
(* posted after the last serialize() is lost.                              *)
(***************************************************************************)
Restore ==
  /\ entries' = disk.entries
  /\ accountBalances' = disk.balances
  /\ totalEntryCount' = disk.count
  /\ skipEntries' = disk.skip
  /\ baseHash' = disk.base
  /\ declaredHead' = disk.head
  /\ seq' = IF disk.entries = <<>>
              THEN 0 ELSE disk.entries[Len(disk.entries)].seq + 1
  /\ lastEntryHash' = IF disk.entries = <<>>
              THEN NoHash ELSE disk.entries[Len(disk.entries)].hash
  /\ UNCHANGED <<made, disk>>

Next ==
  \/ \E r \in Route, amount \in Amount : Transfer(r[1], r[2], amount)
  \/ \E max \in Keep : Compact(max)
  \/ \E enabled \in BOOLEAN : SetHighThroughput(enabled)
  \/ Serialize
  \/ Restore

Spec == Init /\ [][Next]_vars
-----------------------------------------------------------------------------
(***************************************************************************)
(* verifyChain(): the places whose link to the entry before (or to the     *)
(* compaction base) is broken, and the declared head check.                *)
(***************************************************************************)
Links(i) ==
  IF i = 1
    THEN \/ entries[1].prev = NoHash /\ baseHash = NoHash
         \/ entries[1].prev # NoHash /\ baseHash \in {NoHash, entries[1].prev}
    ELSE entries[i].prev = entries[i - 1].hash

BrokenLinks == {i \in DOMAIN entries : ~Links(i)}

HeadMatches ==
  \/ declaredHead = NoHash
  \/ entries = <<>>
  \/ declaredHead = entries[Len(entries)].hash

\* reconcile() can check only while no entry was dropped or skipped.
Checked == ~skipEntries /\ totalEntryCount = Len(entries)

\* What an entry does to the balance of account a, and the balance of the
\* account recomputed from a list of entries.
Effect(e, a) == IF e.account = a THEN e.credit - e.debit ELSE 0

BalanceOf(a, es) ==
  SumFunctionOnSet([i \in DOMAIN es |-> Effect(es[i], a)], DOMAIN es)

Recomputed(a) == BalanceOf(a, entries)
-----------------------------------------------------------------------------
(***************************************************************************)
(* Compaction, high-throughput spells and restarts from any stored image   *)
(* never break a link of the hash chain: a ledger touched only through its *)
(* own methods has no broken link for verifyChain() to report.             *)
(***************************************************************************)
NoBrokenLinks == BrokenLinks = {}

(***************************************************************************)
(* Sequence numbers of the visible entries strictly increase in chain      *)
(* order, across restarts too: getAccountHistory() sorts by them.          *)
(***************************************************************************)
SeqIncreasing ==
  \A i, j \in DOMAIN entries : i < j => entries[i].seq < entries[j].seq

(***************************************************************************)
(* Whenever reconcile() says it could check (no entry was compacted away   *)
(* or skipped), the running balances agree with the entries.               *)
(***************************************************************************)
ReconcileConsistent ==
  Checked => \A a \in Account : Recomputed(a) = accountBalances[a]

(***************************************************************************)
(* verifyChain().valid as its comment describes it: false only for a tail  *)
(* that was truncated or edited, which no method of the class does.        *)
(***************************************************************************)
UntamperedChainIsValid == BrokenLinks = {} /\ HeadMatches
=============================================================================
