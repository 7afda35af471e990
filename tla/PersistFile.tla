----------------------------- MODULE PersistFile -----------------------------
(***************************************************************************)
(* The persist file several processes share (src/src/index.ts): every MCP  *)
(* server constructs its own MnemoPayLite for the same agent id, loads     *)
(* <agent>.json once and later writes its whole state back, under a lock   *)
(* file, with a version that detects foreign commits of money state.       *)
(*                                                                         *)
(* A process saves without an await, but between two of its file-system    *)
(* calls any other process may run, crash or lose power.                   *)
(***************************************************************************)
EXTENDS Integers, FiniteSets

CONSTANTS
  Proc,         \* processes that open the file
  Op,           \* changes of the money state a process can make
  Memory,       \* memories that can be stored
  Token,        \* identity tokens that can be revoked
  None,         \* nobody
  Absent,       \* a file that does not exist
  Torn,         \* a file that holds no JSON
  Pauses,       \* a live process may stop for ten seconds inside a save
  LockFails,    \* opening the lock file may fail
  DiskFails,    \* a write may fail
  LosesPower,   \* the machine may stop and leave the main file torn
  MaxFaults     \* bound: crashes and failed calls over the whole behaviour

ASSUME PersistAssumption ==
  /\ None \notin Proc
  /\ {Pauses, LockFails, DiskFails, LosesPower} \subseteq BOOLEAN
  /\ MaxFaults \in Nat

\* What a process writes: the money state as the set of changes in it,
\* stateVersion, memories, forgottenIds, the revocations of the registry.
Image == [money : SUBSET Op, version : Nat, mem : SUBSET Memory,
          tomb : SUBSET Memory, revoked : SUBSET Token]

Fresh == [money |-> {}, version |-> 0, mem |-> {}, tomb |-> {},
          revoked |-> {}]

ASSUME FilesAssumption ==
  /\ Absent \notin Image /\ Torn \notin Image
  /\ \A ops \in SUBSET Op : ops # Absent

VARIABLES
  pc,       \* where each process stands; "down" before it starts
  state,    \* its state in memory
  base,     \* _financialBase: the money state at its last sync, or Absent
  next,     \* nextVersion of the save in progress
  main,     \* <agent>.json
  bak,      \* <agent>.json.bak
  tmp,      \* <agent>.json.tmp
  lock,     \* who created the lock file, or None
  owns,     \* processes that hold a release function
  used,     \* changes and memories made so far
  faults,   \* crashes and failed calls so far
  overlap,  \* history: two processes were inside a save at once
  silent    \* history: money changes dropped without a conflict report

files == <<main, bak, tmp>>
locks == <<lock, owns>>
vars  == <<pc, state, base, next, files, locks, used, faults, overlap, silent>>

Step == {"down", "idle", "locking", "unlinking", "merging", "adopting",
         "copying", "writing", "renaming", "releasing"}

TypeOK ==
  /\ pc \in [Proc -> Step]
  /\ state \in [Proc -> Image]
  /\ base \in [Proc -> {Absent} \cup SUBSET Op]
  /\ next \in [Proc -> Nat]
  /\ main \in Image \cup {Absent, Torn}
  /\ bak \in Image \cup {Absent, Torn}
  /\ tmp \in Image \cup {Absent, Torn}
  /\ lock \in Proc \cup {None}
  /\ owns \subseteq Proc
  /\ used \subseteq Op \cup Memory
  /\ faults \in Nat
  /\ overlap \in BOOLEAN
  /\ silent \subseteq Op

Init ==
  /\ pc = [p \in Proc |-> "down"]
  /\ state = [p \in Proc |-> Fresh]
  /\ base = [p \in Proc |-> Absent]
  /\ next = [p \in Proc |-> 0]
  /\ main = Absent /\ bak = Absent /\ tmp = Absent
  /\ lock = None /\ owns = {}
  /\ used = {}
  /\ faults = 0
  /\ overlap = FALSE
  /\ silent = {}
-----------------------------------------------------------------------------
Whole(file) == file \notin {Absent, Torn}

\* The process is between openSync() of the lock file and its unlinkSync().
Critical(p) ==
  pc[p] \in {"merging", "adopting", "copying", "writing", "renaming",
             "releasing"}

\* The digest differs from the one at the last sync; a process that has
\* neither loaded nor saved a file is dirty whatever it holds.
Dirty(p) == state[p].money # base[p]

\* Money changes in memory only.
Unsaved(p) == {op \in state[p].money : base[p] = Absent \/ op \notin base[p]}

To(p, step) == pc' = [pc EXCEPT ![p] = step]

\* _adoptFinancialState(): the money state and the version of an image.
Adopted(s, image) ==
  [s EXCEPT !.money = image.money, !.version = image.version]

\* _loadFromDisk(): main, then .bak, then .tmp; a missing main means fresh.
Loaded ==
  LET found == IF Whole(main) THEN main
               ELSE IF main = Absent THEN Fresh
               ELSE IF Whole(bak) THEN bak
               ELSE IF Whole(tmp) THEN tmp
               ELSE Fresh
  IN  [found EXCEPT !.mem = @ \ found.tomb]

Start(p) ==
  /\ pc[p] = "down"
  /\ To(p, "idle")
  /\ state' = [state EXCEPT ![p] = Loaded]
  /\ base' = [base EXCEPT ![p] =
       IF Loaded = Fresh THEN Absent ELSE Loaded.money]
  /\ UNCHANGED <<next, files, locks, used, faults, overlap, silent>>
-----------------------------------------------------------------------------
(***************************************************************************)
(* _refreshFinancialState(), at the start of a money operation.  Its       *)
(* mtime:size test only saves a read, and can miss a write of the same     *)
(* size in the same millisecond; a refresh that finds nothing is no step.  *)
(***************************************************************************)
Refresh(p) ==
  /\ pc[p] = "idle"
  /\ Whole(main)
  /\ main.version > state[p].version
  /\ state' = [state EXCEPT ![p] = Adopted(@, main)]
  /\ base' = [base EXCEPT ![p] = main.money]
  /\ silent' = silent \cup (Unsaved(p) \ main.money)
  /\ UNCHANGED <<pc, next, files, locks, used, faults, overlap>>

\* The end of a money operation, which may have awaited a payment rail since
\* its refresh: the change, and the save it asks for.
ChangeMoney(p, op) ==
  /\ pc[p] = "idle"
  /\ op \notin used
  /\ used' = used \cup {op}
  /\ state' = [state EXCEPT ![p].money = @ \cup {op}]
  /\ To(p, "locking")
  /\ UNCHANGED <<base, next, files, locks, faults, overlap, silent>>

Remember(p, m) ==
  /\ pc[p] = "idle"
  /\ m \notin used
  /\ used' = used \cup {m}
  /\ state' = [state EXCEPT ![p].mem = @ \cup {m}]
  /\ To(p, "locking")
  /\ UNCHANGED <<base, next, files, locks, faults, overlap, silent>>

\* forget() and consolidate(): gone from the map, and a tombstone (the file
\* keeps the newest MAX_TOMBSTONES of them, which are never exceeded here).
Forget(p, m) ==
  /\ pc[p] = "idle"
  /\ m \in state[p].mem
  /\ state' = [state EXCEPT ![p].mem = @ \ {m}, ![p].tomb = @ \cup {m}]
  /\ To(p, "locking")
  /\ UNCHANGED <<base, next, files, locks, used, faults, overlap, silent>>

\* The identity registry does not save; the next save carries it along.
Revoke(p, k) ==
  /\ pc[p] = "idle"
  /\ state' = [state EXCEPT ![p].revoked = @ \cup {k}]
  /\ UNCHANGED <<pc, base, next, files, locks, used, faults, overlap, silent>>

\* The 30-second timer, destroy() and the exit hooks.
Autosave(p) ==
  /\ pc[p] = "idle"
  /\ To(p, "locking")
  /\ UNCHANGED <<state, base, next, files, locks, used, faults, overlap,
                 silent>>
-----------------------------------------------------------------------------
Fault == faults < MaxFaults /\ faults' = faults + 1

Enter(p) ==
  /\ To(p, "merging")
  /\ overlap' = (overlap \/ \E q \in Proc : Critical(q))

\* _acquirePersistLock(): created exclusively,
AcquireLock(p) ==
  /\ pc[p] = "locking"
  /\ lock = None
  /\ lock' = p
  /\ owns' = owns \cup {p}
  /\ Enter(p)
  /\ UNCHANGED <<state, base, next, files, used, faults, silent>>

\* not possible, so the save goes on without (a lock file whose first write
\* fails is created, and nobody will release it),
SaveUnlocked(p) ==
  /\ pc[p] = "locking"
  /\ \/ LockFails /\ UNCHANGED lock
     \/ DiskFails /\ lock = None /\ lock' = p
  /\ Fault
  /\ Enter(p)
  /\ UNCHANGED <<owns, state, base, next, files, used, silent>>

\* busy for the whole wait, so the save is skipped,
LockBusy(p) ==
  /\ pc[p] = "locking"
  /\ lock # None
  /\ To(p, "idle")
  /\ UNCHANGED <<state, base, next, files, locks, used, faults, overlap,
                 silent>>

\* Slip: a lock older than ten seconds is respected like a fresh one.
LockNeverStale(p) ==
  /\ pc[p] = "locking"
  /\ lock # None
  /\ lock \notin owns
  /\ To(p, "idle")
  /\ UNCHANGED <<state, base, next, files, locks, used, faults, overlap,
                 silent>>

\* or older than ten seconds: its holder crashed, or is slow.
LockStale(p) ==
  /\ pc[p] = "locking"
  /\ lock # None
  /\ lock \notin owns \/ Pauses
  /\ To(p, "unlinking")
  /\ UNCHANGED <<state, base, next, files, locks, used, faults, overlap,
                 silent>>

\* The lock file is removed, whoever may have created it by now.
UnlinkStale(p) ==
  /\ pc[p] = "unlinking"
  /\ lock' = None
  /\ To(p, "locking")
  /\ UNCHANGED <<owns, state, base, next, files, used, faults, overlap, silent>>
-----------------------------------------------------------------------------
\* Memories of both, without what either side forgot.
Merged(s, image) ==
  [s EXCEPT !.tomb = @ \cup image.tomb,
            !.mem = (@ \cup image.mem) \ (s.tomb \cup image.tomb)]

\* Slip: only a newer file is merged, as only a newer one is adopted.
MergeOnlyNewer(p) ==
  LET newer == Whole(main) /\ main.version > state[p].version
  IN  /\ pc[p] = "merging"
      /\ state' = [state EXCEPT ![p] = IF newer THEN Merged(@, main) ELSE @]
      /\ next' = [next EXCEPT ![p] =
           IF newer THEN main.version
           ELSE state[p].version + (IF Dirty(p) THEN 1 ELSE 0)]
      /\ To(p, IF newer THEN "adopting" ELSE "copying")
      /\ UNCHANGED <<base, files, locks, used, faults, overlap, silent>>

\* Slip: the newer money state on disk is not noticed: last writer wins.
MergeIgnoresVersion(p) ==
  /\ pc[p] = "merging"
  /\ state' = [state EXCEPT ![p] =
       IF Whole(main) THEN Merged(@, main) ELSE @]
  /\ next' = [next EXCEPT ![p] =
       state[p].version + (IF Dirty(p) THEN 1 ELSE 0)]
  /\ To(p, "copying")
  /\ UNCHANGED <<base, files, locks, used, faults, overlap, silent>>

\* Slip: the version of the file grows with every save, or with none.
MergeKeepsVersion(p) ==
  LET newer == Whole(main) /\ main.version > state[p].version
  IN  /\ pc[p] = "merging"
      /\ state' = [state EXCEPT ![p] =
           IF Whole(main) THEN Merged(@, main) ELSE @]
      /\ next' = [next EXCEPT ![p] =
           IF newer THEN main.version ELSE state[p].version]
      /\ To(p, IF newer THEN "adopting" ELSE "copying")
      /\ UNCHANGED <<base, files, locks, used, faults, overlap, silent>>

(***************************************************************************)
(* _mergeConcurrentMemories() and the choice of nextVersion: a change of   *)
(* the money state takes the next version, an idle save keeps the old one. *)
(***************************************************************************)
Merge(p) ==
  LET newer == Whole(main) /\ main.version > state[p].version
  IN  /\ pc[p] = "merging"
      /\ state' = [state EXCEPT ![p] =
           IF Whole(main) THEN Merged(@, main) ELSE @]
      /\ next' = [next EXCEPT ![p] =
           IF newer THEN main.version
           ELSE state[p].version + (IF Dirty(p) THEN 1 ELSE 0)]
      /\ To(p, IF newer THEN "adopting" ELSE "copying")
      /\ UNCHANGED <<base, files, locks, used, faults, overlap, silent>>

\* The file is read again: first committer wins, and a dirty instance
\* reports the conflict.  An unreadable file is written over.
Adopt(p) ==
  /\ pc[p] = "adopting"
  /\ IF Whole(main)
       THEN /\ state' = [state EXCEPT ![p] = Adopted(@, main)]
            /\ base' = [base EXCEPT ![p] = main.money]
            /\ UNCHANGED next
       ELSE /\ next' = [next EXCEPT ![p] = @ + (IF Dirty(p) THEN 1 ELSE 0)]
            /\ UNCHANGED <<state, base>>
  /\ To(p, "copying")
  /\ UNCHANGED <<files, locks, used, faults, overlap, silent>>

Backup(p) ==
  /\ pc[p] = "copying"
  /\ bak' = IF main = Absent THEN bak ELSE main
  /\ To(p, "writing")
  /\ UNCHANGED <<state, base, next, main, tmp, locks, used, faults, overlap,
                 silent>>

\* Slip: stateVersion is left out of the JSON.
WriteTmpUnversioned(p) ==
  /\ pc[p] = "writing"
  /\ tmp' = [money |-> state[p].money, mem |-> state[p].mem,
              tomb |-> state[p].tomb, revoked |-> state[p].revoked]
  /\ To(p, "renaming")
  /\ UNCHANGED <<state, base, next, main, bak, locks, used, faults, overlap,
                 silent>>

WriteTmp(p) ==
  /\ pc[p] = "writing"
  /\ tmp' = [state[p] EXCEPT !.version = next[p]]
  /\ To(p, "renaming")
  /\ UNCHANGED <<state, base, next, main, bak, locks, used, faults, overlap,
                 silent>>

\* The write throws: it is logged, and the change stays unsaved.
WriteFails(p) ==
  /\ pc[p] = "writing"
  /\ DiskFails
  /\ Fault
  /\ tmp' \in {tmp, Torn}
  /\ To(p, "releasing")
  /\ UNCHANGED <<state, base, next, main, bak, locks, used, overlap,
                 silent>>

\* renameSync() and the bookkeeping; it throws when .tmp is gone.
Rename(p) ==
  /\ pc[p] = "renaming"
  /\ IF tmp = Absent
       THEN UNCHANGED <<state, base, main, tmp>>
       ELSE /\ main' = tmp
            /\ tmp' = Absent
            /\ state' = [state EXCEPT ![p].version = next[p]]
            /\ base' = [base EXCEPT ![p] = state[p].money]
  /\ To(p, "releasing")
  /\ UNCHANGED <<next, bak, locks, used, faults, overlap, silent>>

\* release(): the lock file is unlinked, without a look at its owner.
Release(p) ==
  /\ pc[p] = "releasing"
  /\ To(p, "idle")
  /\ lock' = IF p \in owns THEN None ELSE lock
  /\ owns' = owns \ {p}
  /\ UNCHANGED <<state, base, next, files, used, faults, overlap, silent>>
-----------------------------------------------------------------------------
\* Slip: the state is written over the main file, not to .tmp and renamed.
CrashInPlace(p) ==
  /\ pc[p] # "down"
  /\ Fault
  /\ To(p, "down")
  /\ state' = [state EXCEPT ![p] = Fresh]
  /\ base' = [base EXCEPT ![p] = Absent]
  /\ next' = [next EXCEPT ![p] = 0]
  /\ main' \in {main} \cup (IF pc[p] = "writing" THEN {Torn} ELSE {})
  /\ owns' = owns \ {p}
  /\ UNCHANGED <<bak, tmp, lock, used, overlap, silent>>

\* The process dies; a copy or a write it was in the middle of is torn.
Crash(p) ==
  /\ pc[p] # "down"
  /\ Fault
  /\ To(p, "down")
  /\ state' = [state EXCEPT ![p] = Fresh]
  /\ base' = [base EXCEPT ![p] = Absent]
  /\ next' = [next EXCEPT ![p] = 0]
  /\ bak' \in {bak} \cup (IF pc[p] = "copying" THEN {Torn} ELSE {})
  /\ tmp' \in {tmp} \cup (IF pc[p] = "writing" THEN {Torn} ELSE {})
  /\ owns' = owns \ {p}
  /\ UNCHANGED <<main, lock, used, overlap, silent>>

\* The machine stops: nothing was synced, so the renamed file may be empty.
PowerLoss ==
  /\ LosesPower
  /\ Fault
  /\ pc' = [p \in Proc |-> "down"]
  /\ state' = [p \in Proc |-> Fresh]
  /\ base' = [p \in Proc |-> Absent]
  /\ next' = [p \in Proc |-> 0]
  /\ main' \in {main} \cup (IF Whole(main) THEN {Torn} ELSE {})
  /\ owns' = {}
  /\ UNCHANGED <<bak, tmp, lock, used, overlap, silent>>

Acts(p) ==
  \/ Start(p) \/ Refresh(p)
  \/ \E op \in Op : ChangeMoney(p, op)
  \/ \E m \in Memory : Remember(p, m) \/ Forget(p, m)
  \/ \E k \in Token : Revoke(p, k)
  \/ Autosave(p)
  \/ Crash(p)

Saves(p) ==
  \/ AcquireLock(p) \/ SaveUnlocked(p) \/ LockBusy(p)
  \/ LockStale(p) \/ UnlinkStale(p)
  \/ Merge(p) \/ Adopt(p) \/ Backup(p)
  \/ WriteTmp(p) \/ WriteFails(p) \/ Rename(p) \/ Release(p)

Next == (\E p \in Proc : Acts(p) \/ Saves(p)) \/ PowerLoss

Spec == Init /\ [][Next]_vars

(***************************************************************************)
(* A live process reaches its next file-system call, the autosave timer    *)
(* fires, and a lock file only gets older: a process that keeps trying     *)
(* finds it stale in the end.  Nobody must restart a crashed process.      *)
(***************************************************************************)
Fairness ==
  \A p \in Proc :
    /\ WF_vars(Autosave(p))
    /\ WF_vars(AcquireLock(p) \/ SaveUnlocked(p) \/ LockBusy(p))
    /\ SF_vars(LockStale(p))
    /\ WF_vars(UnlinkStale(p))
    /\ WF_vars(Merge(p) \/ Adopt(p) \/ Backup(p) \/ WriteTmp(p)
                 \/ Rename(p) \/ Release(p))

FairSpec == Spec /\ Fairness
-----------------------------------------------------------------------------
(***************************************************************************)
(* First committer wins: what is committed to the main file stays in it,   *)
(* whoever saves next with whatever stale snapshot, and through faults at *)
(* any point of a save, as long as no two saves overlapped.                *)
(***************************************************************************)
CommittedMoneyStays ==
  [][Whole(main) /\ Whole(main') /\ ~overlap'
       => main.money \subseteq main'.money]_vars

(***************************************************************************)
(* One version number never stands for two money states: a process at the  *)
(* file's version was last in step with exactly what the file holds.       *)
(***************************************************************************)
VersionNamesState ==
  ~overlap /\ Whole(main) =>
    \A p \in Proc : /\ pc[p] # "down"
                    /\ state[p].version = main.version
                    => base[p] = main.money

(***************************************************************************)
(* A memory leaves the file only because it was forgotten, and one that    *)
(* was forgotten does not come back, whichever process saves next.         *)
(***************************************************************************)
MemoriesKept ==
  [][Whole(main) /\ Whole(main') /\ ~overlap'
       => /\ main.mem \ main'.mem \subseteq main'.tomb
          /\ main'.mem \cap main.tomb = {}]_vars

(***************************************************************************)
(* Once the first save is done, a crash of any process at any point leaves *)
(* a whole main file to load, as long as the machine itself keeps power    *)
(* and no two saves overlapped.                                            *)
(***************************************************************************)
MainStaysWhole ==
  [][Whole(main) /\ ~LosesPower /\ ~overlap' => Whole(main')]_vars

(***************************************************************************)
(* The lock file a crashed process left behind does not stay while any     *)
(* process runs: saves go on.                                              *)
(***************************************************************************)
Orphaned == lock # None /\ lock \notin owns
OrphanRemoved ==
  Orphaned ~> (~Orphaned \/ \A p \in Proc : pc[p] = "down")
-----------------------------------------------------------------------------
(***************************************************************************)
(* The comment on the version: an instance with unsaved money changes      *)
(* "reports the lost update loudly".                                       *)
(***************************************************************************)
LostUpdatesReported == silent = {}

(***************************************************************************)
(* README: "Kill switch - revoke all tokens instantly": a revocation in    *)
(* the file is not undone by another process's save.                       *)
(***************************************************************************)
RevocationsStay ==
  [][Whole(main) /\ Whole(main') => main.revoked \subseteq main'.revoked]_vars
=============================================================================
