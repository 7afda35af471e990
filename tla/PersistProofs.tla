---------------------------- MODULE PersistProofs ----------------------------
(***************************************************************************)
(* What a save of the persist file keeps, for every number of processes,   *)
(* money changes, memories and faults.                                     *)
(*                                                                         *)
(* The argument.  Saves that do not overlap run one at a time (OneSaver),  *)
(* and only a rename changes the main file.  So what a process read while  *)
(* merging is still what the file holds when it renames: it has every      *)
(* memory and tombstone of the file (Covers), its .tmp is its own          *)
(* (MergedOnce), and its money state is the file's or a newer one that     *)
(* contains it (Prepared).  The last needs the versions: nobody is ahead   *)
(* of the file, and whoever is at its version is in step with it (InStep). *)
(***************************************************************************)
EXTENDS PersistFile, TLAPS

-----------------------------------------------------------------------------
\* Loading a file yields an image.
LEMMA LoadedType ==
  ASSUME TypeOK
  PROVE  Loaded \in Image
<1>1. Fresh \in Image
  BY DEF Fresh, Image
<1>2. \A f \in Image \cup {Absent, Torn} : Whole(f) => f \in Image
  BY DEF Whole
<1>3. \A f \in Image : [f EXCEPT !.mem = @ \ f.tomb] \in Image
  BY DEF Image
<1> DEFINE found == IF Whole(main) THEN main
                    ELSE IF main = Absent THEN Fresh
                    ELSE IF Whole(bak) THEN bak
                    ELSE IF Whole(tmp) THEN tmp
                    ELSE Fresh
<1>4. found \in Image
  BY <1>1, <1>2 DEF TypeOK
<1>5. QED
  BY <1>3, <1>4 DEF Loaded

\* What a merge makes of two images is an image.
LEMMA MergedType ==
  ASSUME NEW s \in Image, NEW image \in Image
  PROVE  Merged(s, image) \in Image
BY DEF Merged, Image

\* What an instance adopts from an image is an image.
LEMMA AdoptedType ==
  ASSUME NEW s \in Image, NEW image \in Image
  PROVE  Adopted(s, image) \in Image
BY DEF Adopted, Image

\* A step of one process keeps the types.
LEMMA ProcessTypes ==
  ASSUME TypeOK, NEW p \in Proc, Acts(p) \/ Saves(p)
  PROVE  TypeOK'
<1>1. CASE Start(p)
  BY <1>1, LoadedType DEF Start, TypeOK, To, Step, files, locks, Image
<1>2. CASE Refresh(p)
  <2>1. Adopted(state[p], main) \in Image /\ main.money \in SUBSET Op
    BY <1>2, AdoptedType DEF Refresh, TypeOK, Whole, Image
  <2>2. Unsaved(p) \subseteq Op
    BY DEF Unsaved, TypeOK, Image
  <2>3. QED
    BY <1>2, <2>1, <2>2 DEF Refresh, TypeOK, files, locks
<1>3. ASSUME NEW op \in Op, ChangeMoney(p, op)
      PROVE  TypeOK'
  <2>1. [state[p] EXCEPT !.money = @ \cup {op}] \in Image
    BY DEF TypeOK, Image
  <2>2. QED
    BY <1>3, <2>1 DEF ChangeMoney, TypeOK, To, Step, files, locks
<1>4. ASSUME NEW m \in Memory, Remember(p, m)
      PROVE  TypeOK'
  <2>1. [state[p] EXCEPT !.mem = @ \cup {m}] \in Image
    BY DEF TypeOK, Image
  <2>2. QED
    BY <1>4, <2>1 DEF Remember, TypeOK, To, Step, files, locks
<1>5. ASSUME NEW m \in Memory, Forget(p, m)
      PROVE  TypeOK'
  <2>1. [state[p] EXCEPT !.mem = @ \ {m}, !.tomb = @ \cup {m}] \in Image
    BY DEF TypeOK, Image
  <2>2. QED
    BY <1>5, <2>1 DEF Forget, TypeOK, To, Step, files, locks
<1>6. ASSUME NEW k \in Token, Revoke(p, k)
      PROVE  TypeOK'
  <2>1. [state[p] EXCEPT !.revoked = @ \cup {k}] \in Image
    BY DEF TypeOK, Image
  <2>2. QED
    BY <1>6, <2>1 DEF Revoke, TypeOK, files, locks
<1>7. CASE Autosave(p) \/ LockBusy(p) \/ LockStale(p) \/ UnlinkStale(p)
           \/ Release(p)
  BY <1>7 DEF Autosave, LockBusy, LockStale, UnlinkStale, Release, TypeOK,
              To, Step, files, locks
<1>8. CASE Crash(p)
  <2>1. Fresh \in Image
    BY DEF Fresh, Image
  <2>2. QED
    BY <1>8, <2>1 DEF Crash, Fault, TypeOK, To, Step, files, locks
<1>9. CASE AcquireLock(p) \/ SaveUnlocked(p)
  <2>1. overlap' \in BOOLEAN
    BY <1>9 DEF AcquireLock, SaveUnlocked, Enter, TypeOK
  <2>2. QED
    BY <1>9, <2>1 DEF AcquireLock, SaveUnlocked, Enter, Fault, TypeOK, To,
                      Step, files, locks
<1>10. CASE Merge(p)
  <2>1. Whole(main) => main \in Image /\ main.version \in Nat
    BY DEF Whole, TypeOK, Image
  <2>2. state[p].version \in Nat
    BY DEF TypeOK, Image
  <2>3. next' \in [Proc -> Nat]
    BY <1>10, <2>1, <2>2 DEF Merge, TypeOK
  <2>4. state' \in [Proc -> Image]
    BY <1>10, <2>1, MergedType DEF Merge, TypeOK
  <2>5. QED
    BY <1>10, <2>3, <2>4 DEF Merge, TypeOK, To, Step, files, locks
<1>11. CASE Adopt(p)
  <2>1. Whole(main) => /\ Adopted(state[p], main) \in Image
                       /\ main.money \in SUBSET Op
    BY AdoptedType DEF TypeOK, Whole, Image
  <2>2. QED
    BY <1>11, <2>1 DEF Adopt, TypeOK, To, Step, files, locks
<1>12. CASE Backup(p)
  BY <1>12 DEF Backup, TypeOK, To, Step, files, locks
<1>13. CASE WriteTmp(p) \/ WriteFails(p)
  <2>1. [state[p] EXCEPT !.version = next[p]] \in Image
    BY DEF TypeOK, Image
  <2>2. QED
    BY <1>13, <2>1 DEF WriteTmp, WriteFails, Fault, TypeOK, To, Step, files,
                       locks
<1>14. CASE Rename(p)
  <2>1. /\ [state[p] EXCEPT !.version = next[p]] \in Image
        /\ state[p].money \in SUBSET Op
    BY DEF TypeOK, Image
  <2>2. QED
    BY <1>14, <2>1 DEF Rename, TypeOK, To, Step, files, locks
<1>15. QED
  BY <1>1, <1>2, <1>3, <1>4, <1>5, <1>6, <1>7, <1>8, <1>9, <1>10, <1>11,
     <1>12, <1>13, <1>14 DEF Acts, Saves

\* Every variable keeps its type, in every behaviour.
THEOREM TypeCorrect == Spec => []TypeOK
<1>1. Init => TypeOK
  <2> SUFFICES ASSUME Init PROVE TypeOK
    OBVIOUS
  <2>1. Fresh \in Image
    BY DEF Fresh, Image
  <2>2. pc \in [Proc -> Step] /\ next \in [Proc -> Nat]
    BY DEF Init, Step
  <2>3. state \in [Proc -> Image]
    BY <2>1 DEF Init
  <2>4. base \in [Proc -> {Absent} \cup SUBSET Op]
    BY DEF Init
  <2>5. QED
    BY <2>2, <2>3, <2>4 DEF Init, TypeOK
<1>2. TypeOK /\ [Next]_vars => TypeOK'
  <2> SUFFICES ASSUME TypeOK, [Next]_vars PROVE TypeOK'
    OBVIOUS
  <2>1. CASE \E p \in Proc : Acts(p) \/ Saves(p)
    BY <2>1, ProcessTypes
  <2>2. CASE PowerLoss
    <3>1. Fresh \in Image
      BY DEF Fresh, Image
    <3>2. QED
      BY <2>2, <3>1 DEF PowerLoss, Fault, TypeOK, Step, files, locks
  <2>3. CASE UNCHANGED vars
    BY <2>3 DEF vars, files, locks, TypeOK
  <2>4. QED
    BY <2>1, <2>2, <2>3 DEF Next
<1>3. QED
  BY <1>1, <1>2, PTL DEF Spec
-----------------------------------------------------------------------------
\* Memories and tombstones that were never made are nowhere.
UsedOnly ==
  /\ \A p \in Proc : state[p].mem \cup state[p].tomb \subseteq used
  /\ \A f \in {main, bak, tmp} : Whole(f) => f.mem \cup f.tomb \subseteq used

\* What was forgotten is gone.
Apart ==
  /\ \A p \in Proc : state[p].mem \cap state[p].tomb = {}
  /\ \A f \in {main, tmp} : Whole(f) => f.mem \cap f.tomb = {}

MemoriesInv == UsedOnly /\ Apart

\* A step of one process leaves what the others hold alone.
LEMMA OthersKeep ==
  ASSUME TypeOK, NEW p \in Proc, Acts(p) \/ Saves(p),
         NEW q \in Proc, q # p
  PROVE  /\ pc'[q] = pc[q] /\ state'[q] = state[q]
         /\ base'[q] = base[q] /\ next'[q] = next[q]
<1>1. CASE Acts(p)
  BY <1>1 DEF Acts, Start, Refresh, ChangeMoney, Remember, Forget, Revoke,
              Autosave, Crash, To, TypeOK
<1>2. CASE Saves(p)
  <2>1. CASE Merge(p) \/ Adopt(p) \/ Rename(p)
    BY <2>1 DEF Merge, Adopt, Rename, To, TypeOK
  <2>2. CASE ~(Merge(p) \/ Adopt(p) \/ Rename(p))
    BY <1>2, <2>2 DEF Saves, AcquireLock, SaveUnlocked, LockBusy, LockStale,
                      UnlinkStale, Backup, WriteTmp, WriteFails, Release,
                      Enter, To, TypeOK
  <2>3. QED
    BY <2>1, <2>2
<1>3. QED
  BY <1>1, <1>2

\* A file that is loaded brings known memories, and none it has forgotten.
LEMMA LoadedMemories ==
  ASSUME TypeOK, UsedOnly
  PROVE  /\ Loaded.mem \cup Loaded.tomb \subseteq used
         /\ Loaded.mem \cap Loaded.tomb = {}
<1> DEFINE found == IF Whole(main) THEN main
                    ELSE IF main = Absent THEN Fresh
                    ELSE IF Whole(bak) THEN bak
                    ELSE IF Whole(tmp) THEN tmp
                    ELSE Fresh
<1>1. Fresh \in Image /\ Fresh.mem \cup Fresh.tomb \subseteq used
  BY DEF Fresh, Image
<1>2. \A f \in {main, bak, tmp} :
         Whole(f) => f \in Image /\ f.mem \cup f.tomb \subseteq used
  BY DEF UsedOnly, TypeOK, Whole
<1>3. found \in Image /\ found.mem \cup found.tomb \subseteq used
  BY <1>1, <1>2
<1>4. Loaded = [found EXCEPT !.mem = @ \ found.tomb]
  BY DEF Loaded
<1> HIDE DEF found
<1>5. Loaded.mem = found.mem \ found.tomb /\ Loaded.tomb = found.tomb
  BY <1>3, <1>4 DEF Image
<1>6. QED
  BY <1>3, <1>5

\* Every step keeps the memories known and the forgotten ones gone.
LEMMA MemoriesStep ==
  ASSUME TypeOK, TypeOK', MemoriesInv, [Next]_vars
  PROVE  MemoriesInv'
<1> USE DEF MemoriesInv
<1>1. ASSUME NEW p \in Proc, Acts(p) \/ Saves(p)
      PROVE  MemoriesInv'
  <2>1. used \subseteq used'
    BY <1>1 DEF Acts, Saves, Start, Refresh, ChangeMoney, Remember, Forget,
                Revoke, Autosave, Crash, AcquireLock, SaveUnlocked, LockBusy,
                LockStale, UnlinkStale, Merge, Adopt, Backup, WriteTmp,
                WriteFails, Rename, Release
  <2>2. /\ state'[p].mem \cup state'[p].tomb \subseteq used'
        /\ state'[p].mem \cap state'[p].tomb = {}
    <3>1. state[p] \in Image /\ state'[p] \in Image
      BY DEF TypeOK
    <3>2. CASE Start(p)
      <4>1. state'[p] = Loaded /\ used' = used
        BY <3>2 DEF Start, TypeOK
      <4>2. QED
        BY <4>1, LoadedMemories
    <3>3. CASE Refresh(p) \/ Adopt(p)
      <4>1. /\ state'[p] = Adopted(state[p], main) \/ state'[p] = state[p]
            /\ used' = used
        BY <3>3 DEF Refresh, Adopt, TypeOK
      <4>2. state'[p].mem = state[p].mem /\ state'[p].tomb = state[p].tomb
        BY <3>1, <4>1 DEF Adopted, Image
      <4>3. QED
        BY <4>1, <4>2 DEF UsedOnly, Apart
    <3>4. CASE \E m \in Memory : Remember(p, m)
      <4>1. PICK m \in Memory : Remember(p, m)
        BY <3>4
      <4>2. state'[p] = [state[p] EXCEPT !.mem = @ \cup {m}]
        BY <4>1 DEF Remember, TypeOK
      <4>3. state'[p].mem = state[p].mem \cup {m}
            /\ state'[p].tomb = state[p].tomb
        BY <3>1, <4>2 DEF Image
      <4>4. m \notin used /\ used' = used \cup {m}
        BY <4>1 DEF Remember
      <4>5. QED
        BY <4>3, <4>4 DEF UsedOnly, Apart
    <3>5. CASE \E m \in Memory : Forget(p, m)
      <4>1. PICK m \in Memory : Forget(p, m)
        BY <3>5
      <4>2. state'[p] = [state[p] EXCEPT !.mem = @ \ {m},
                                         !.tomb = @ \cup {m}]
        BY <4>1 DEF Forget, TypeOK
      <4>3. state'[p].mem = state[p].mem \ {m}
            /\ state'[p].tomb = state[p].tomb \cup {m}
        BY <3>1, <4>2 DEF Image
      <4>4. m \in state[p].mem /\ used' = used
        BY <4>1 DEF Forget
      <4>5. QED
        BY <4>3, <4>4 DEF UsedOnly, Apart
    <3>6. CASE Crash(p)
      BY <3>6 DEF Crash, TypeOK, Fresh
    <3>7. CASE Merge(p)
      <4>1. used' = used
            /\ state'[p] = IF Whole(main) THEN Merged(state[p], main)
                                          ELSE state[p]
        BY <3>7 DEF Merge, TypeOK
      <4>2. CASE Whole(main)
        <5>1. main \in Image /\ main.mem \cup main.tomb \subseteq used
          BY <4>2 DEF TypeOK, Whole, UsedOnly
        <5>2. /\ state'[p].tomb = state[p].tomb \cup main.tomb
              /\ state'[p].mem = (state[p].mem \cup main.mem)
                                   \ (state[p].tomb \cup main.tomb)
          BY <3>1, <4>1, <4>2, <5>1 DEF Merged, Image
        <5>3. QED
          BY <4>1, <5>1, <5>2 DEF UsedOnly
      <4>3. CASE ~Whole(main)
        BY <4>1, <4>3 DEF UsedOnly, Apart
      <4>4. QED
        BY <4>2, <4>3
    <3>8. CASE \/ \E op \in Op : ChangeMoney(p, op)
               \/ \E k \in Token : Revoke(p, k)
               \/ Rename(p)
      <4>1. state'[p].mem = state[p].mem /\ state'[p].tomb = state[p].tomb
        BY <3>1, <3>8 DEF ChangeMoney, Revoke, Rename, TypeOK, Image
      <4>2. QED
        BY <2>1, <4>1 DEF UsedOnly, Apart
    <3>9. CASE UNCHANGED <<state, used>>
      BY <3>9 DEF UsedOnly, Apart
    <3>10. QED
      BY <1>1, <3>2, <3>3, <3>4, <3>5, <3>6, <3>7, <3>8, <3>9
         DEF Acts, Saves, Autosave, AcquireLock, SaveUnlocked, LockBusy,
             LockStale, UnlinkStale, Backup, WriteTmp, WriteFails, Release
  <2>3. \A q \in Proc : /\ state'[q].mem \cup state'[q].tomb \subseteq used'
                        /\ state'[q].mem \cap state'[q].tomb = {}
    BY <1>1, <2>1, <2>2, OthersKeep DEF UsedOnly, Apart
  <2>4. /\ main' = main \/ main' = tmp \/ ~Whole(main')
        /\ bak' = bak \/ bak' = main \/ ~Whole(bak')
        /\ \/ tmp' = tmp \/ ~Whole(tmp')
           \/ tmp' = [state[p] EXCEPT !.version = next[p]]
    BY <1>1 DEF Acts, Saves, Start, Refresh, ChangeMoney, Remember, Forget,
                Revoke, Autosave, Crash, AcquireLock, SaveUnlocked, LockBusy,
                LockStale, UnlinkStale, Merge, Adopt, Backup, WriteTmp,
                WriteFails, Rename, Release, files, Whole
  <2>5. ASSUME NEW f, f = [state[p] EXCEPT !.version = next[p]]
        PROVE  f.mem = state[p].mem /\ f.tomb = state[p].tomb
    BY <2>5 DEF TypeOK, Image
  <2>6. \A f \in {main', bak', tmp'} :
           Whole(f) => f.mem \cup f.tomb \subseteq used'
    BY <2>1, <2>4, <2>5 DEF UsedOnly
  <2>7. \A f \in {main', tmp'} : Whole(f) => f.mem \cap f.tomb = {}
    BY <2>4, <2>5 DEF Apart
  <2>8. QED
    BY <2>3, <2>6, <2>7 DEF UsedOnly, Apart, Whole
<1>2. CASE PowerLoss
  BY <1>2 DEF PowerLoss, UsedOnly, Apart, Whole, Fresh
<1>3. CASE UNCHANGED vars
  BY <1>3 DEF vars, files, UsedOnly, Apart, Whole
<1>4. QED
  BY <1>1, <1>2, <1>3 DEF Next
-----------------------------------------------------------------------------
OneSaver == \A p, q \in Proc : Critical(p) /\ Critical(q) => p = q

\* The memories and tombstones of the main file are all in the process.
Covers(p) ==
  /\ main.tomb \subseteq state[p].tomb
  /\ main.mem \subseteq state[p].mem \cup state[p].tomb

MergedOnce ==
  \A p \in Proc :
    /\ /\ pc[p] \in {"adopting", "copying", "writing", "renaming"}
       /\ Whole(main)
       => Covers(p)
    /\ pc[p] = "renaming" => tmp = [state[p] EXCEPT !.version = next[p]]

SavesInv == ~overlap => OneSaver /\ MergedOnce

\* Only a process inside a save changes the files, the main file only by its
\* rename; a save that begins during another is remembered as an overlap.
LEMMA StepShape ==
  ASSUME TypeOK, NEW p \in Proc, Acts(p) \/ Saves(p)
  PROVE  /\ ~overlap' => ~overlap
         /\ main' = main \/ Rename(p)
         /\ tmp' = tmp \/ pc[p] \in {"writing", "renaming"}
         /\ \/ \A q \in Proc : Critical(q)' => Critical(q)
            \/ /\ pc'[p] = "merging"
               /\ ~overlap' => \A q \in Proc : ~Critical(q)
<1>1. ~overlap' => ~overlap
  BY DEF Acts, Saves, Start, Refresh, ChangeMoney, Remember, Forget, Revoke,
         Autosave, Crash, AcquireLock, SaveUnlocked, LockBusy, LockStale,
         UnlinkStale, Merge, Adopt, Backup, WriteTmp, WriteFails, Rename,
         Release, Enter
<1>2. main' = main \/ Rename(p)
  BY DEF Acts, Saves, Start, Refresh, ChangeMoney, Remember, Forget, Revoke,
         Autosave, Crash, AcquireLock, SaveUnlocked, LockBusy, LockStale,
         UnlinkStale, Merge, Adopt, Backup, WriteTmp, WriteFails, Release,
         files
<1>3. tmp' = tmp \/ pc[p] \in {"writing", "renaming"}
  BY DEF Acts, Saves, Start, Refresh, ChangeMoney, Remember, Forget, Revoke,
         Autosave, Crash, AcquireLock, SaveUnlocked, LockBusy, LockStale,
         UnlinkStale, Merge, Adopt, Backup, WriteTmp, WriteFails, Rename,
         Release, files
<1>4. CASE AcquireLock(p) \/ SaveUnlocked(p)
  <2>1. pc'[p] = "merging" /\ (~overlap' => \A q \in Proc : ~Critical(q))
    BY <1>4 DEF AcquireLock, SaveUnlocked, Enter, To, TypeOK
  <2>2. QED
    BY <1>1, <1>2, <1>3, <2>1
<1>5. CASE ~(AcquireLock(p) \/ SaveUnlocked(p))
  <2>1. Critical(p)' => Critical(p)
    BY <1>5 DEF Acts, Saves, Start, Refresh, ChangeMoney, Remember, Forget,
                Revoke, Autosave, Crash, LockBusy, LockStale, UnlinkStale,
                Merge, Adopt, Backup, WriteTmp, WriteFails, Rename, Release,
                To, TypeOK, Critical
  <2>2. \A q \in Proc \ {p} : pc'[q] = pc[q]
    BY OthersKeep
  <2>3. \A q \in Proc : Critical(q)' => Critical(q)
    BY <2>1, <2>2 DEF Critical
  <2>4. QED
    BY <1>1, <1>2, <1>3, <2>3
<1>6. QED
  BY <1>4, <1>5

\* A merge takes the memories and tombstones of a whole main file over.
LEMMA MergeCovers ==
  ASSUME TypeOK, TypeOK', NEW p \in Proc, Merge(p), Whole(main)
  PROVE  Covers(p)'
<1>1. main \in Image /\ state[p] \in Image
  BY DEF TypeOK, Whole
<1>2. state'[p] = Merged(state[p], main) /\ main' = main
  BY DEF Merge, TypeOK, files
<1>3. /\ state'[p].tomb = state[p].tomb \cup main.tomb
      /\ state'[p].mem = (state[p].mem \cup main.mem)
                           \ (state[p].tomb \cup main.tomb)
  BY <1>1, <1>2 DEF Merged, Image
<1>4. QED
  BY <1>2, <1>3 DEF Covers

\* Every step keeps the saves one at a time and their snapshots complete.
LEMMA SavesStep ==
  ASSUME TypeOK, TypeOK', SavesInv, [Next]_vars
  PROVE  SavesInv'
<1>1. ASSUME NEW p \in Proc, Acts(p) \/ Saves(p), ~overlap'
      PROVE  OneSaver' /\ MergedOnce'
  <2>1. OneSaver /\ MergedOnce
    BY <1>1, StepShape DEF SavesInv
  <2>2. OneSaver'
    <3>1. CASE \A q \in Proc : Critical(q)' => Critical(q)
      BY <2>1, <3>1 DEF OneSaver
    <3>2. CASE pc'[p] = "merging" /\ \A q \in Proc : ~Critical(q)
      <4>1. \A q \in Proc \ {p} : pc'[q] = pc[q]
        BY <1>1, OthersKeep
      <4>2. \A q \in Proc \ {p} : ~Critical(q)'
        BY <3>2, <4>1 DEF Critical
      <4>3. QED
        BY <4>2 DEF OneSaver
    <3>3. QED
      BY <1>1, <3>1, <3>2, StepShape
  <2> DEFINE Holds(q) ==
        /\ /\ pc[q] \in {"adopting", "copying", "writing", "renaming"}
           /\ Whole(main)
           => Covers(q)
        /\ pc[q] = "renaming" => tmp = [state[q] EXCEPT !.version = next[q]]
  <2>3. Holds(p)'
    <3>1. CASE Merge(p)
      <4>1. pc'[p] # "renaming" /\ (Whole(main') => Whole(main))
        BY <3>1 DEF Merge, To, TypeOK, files
      <4>2. QED
        BY <3>1, <4>1, MergeCovers
    <3>2. CASE Adopt(p)
      <4>1. /\ pc[p] = "adopting" /\ pc'[p] = "copying" /\ main' = main
            /\ \/ state'[p] = state[p]
               \/ state'[p] = Adopted(state[p], main)
        BY <3>2 DEF Adopt, To, TypeOK, files
      <4>2. state'[p].mem = state[p].mem /\ state'[p].tomb = state[p].tomb
        BY <4>1 DEF Adopted, TypeOK, Image
      <4>3. QED
        BY <2>1, <4>1, <4>2 DEF MergedOnce, Covers, Whole
    <3>3. CASE Backup(p)
      <4>1. /\ pc[p] = "copying" /\ pc'[p] = "writing"
            /\ main' = main /\ state'[p] = state[p]
        BY <3>3 DEF Backup, To, TypeOK
      <4>2. QED
        BY <2>1, <4>1 DEF MergedOnce, Covers, Whole
    <3>4. CASE WriteTmp(p)
      <4>1. /\ pc[p] = "writing" /\ pc'[p] = "renaming"
            /\ main' = main /\ state'[p] = state[p] /\ next'[p] = next[p]
            /\ tmp' = [state[p] EXCEPT !.version = next[p]]
        BY <3>4 DEF WriteTmp, To, TypeOK
      <4>2. QED
        BY <2>1, <4>1 DEF MergedOnce, Covers, Whole
    <3>5. CASE ~(Merge(p) \/ Adopt(p) \/ Backup(p) \/ WriteTmp(p))
      <4>1. pc'[p] \notin {"adopting", "copying", "writing", "renaming"}
        BY <1>1, <3>5
           DEF Acts, Saves, Start, Refresh, ChangeMoney, Remember, Forget,
               Revoke, Autosave, Crash, AcquireLock, SaveUnlocked, LockBusy,
               LockStale, UnlinkStale, WriteFails, Rename, Release, Enter,
               To, TypeOK
      <4>2. QED
        BY <4>1
    <3>6. QED
      BY <3>1, <3>2, <3>3, <3>4, <3>5
  <2>4. ASSUME NEW q \in Proc, q # p
        PROVE  Holds(q)'
    <3>1. pc'[q] = pc[q] /\ state'[q] = state[q] /\ next'[q] = next[q]
      BY <1>1, <2>4, OthersKeep
    <3>2. CASE pc[q] \in {"adopting", "copying", "writing", "renaming"}
      <4>1. ~Critical(p)
        BY <2>1, <2>4, <3>2 DEF OneSaver, Critical
      <4>2. main' = main /\ tmp' = tmp
        BY <1>1, <4>1, StepShape DEF Critical, Rename
      <4>3. Holds(q)
        BY <2>1 DEF MergedOnce
      <4>4. QED
        BY <3>1, <4>2, <4>3 DEF Covers, Whole
    <3>3. CASE pc[q] \notin {"adopting", "copying", "writing", "renaming"}
      BY <3>1, <3>3
    <3>4. QED
      BY <3>2, <3>3
  <2>5. \A q \in Proc : Holds(q)'
    BY <2>3, <2>4
  <2>6. QED
    BY <2>2, <2>5 DEF MergedOnce
<1>2. CASE PowerLoss
  BY <1>2 DEF PowerLoss, SavesInv, OneSaver, MergedOnce, Critical
<1>3. CASE UNCHANGED vars
  BY <1>3 DEF vars, files, SavesInv, OneSaver, MergedOnce, Critical, Covers,
              Whole
<1>4. QED
  BY <1>1, <1>2, <1>3 DEF Next, SavesInv

\* The step of a save that replaces the main file, seen with the invariants:
\* the new file is the state of the process, under the version it chose.
LEMMA RenameReplaces ==
  ASSUME TypeOK, SavesInv, ~overlap, NEW p \in Proc, Rename(p)
  PROVE  /\ main' \in Image
         /\ main'.money = state[p].money /\ main'.version = next[p]
         /\ main'.mem = state[p].mem /\ main'.tomb = state[p].tomb
         /\ Whole(main) => Covers(p)
         /\ state' = [state EXCEPT ![p].version = next[p]]
         /\ base' = [base EXCEPT ![p] = state[p].money]
<1>1. /\ tmp = [state[p] EXCEPT !.version = next[p]]
      /\ Whole(main) => Covers(p)
  BY DEF SavesInv, MergedOnce, Rename
<1>2. /\ tmp \in Image /\ tmp.money = state[p].money
      /\ tmp.version = next[p]
      /\ tmp.mem = state[p].mem /\ tmp.tomb = state[p].tomb
  BY <1>1 DEF TypeOK, Image
<1>3. tmp # Absent
  BY <1>2, FilesAssumption
<1>4. QED
  BY <1>1, <1>2, <1>3 DEF Rename

\* A memory leaves the file only forgotten, and a forgotten one stays away.
LEMMA MemoriesKeptStep ==
  ASSUME TypeOK, TypeOK', MemoriesInv, SavesInv, [Next]_vars,
         Whole(main), Whole(main'), ~overlap'
  PROVE  /\ main.mem \ main'.mem \subseteq main'.tomb
         /\ main'.mem \cap main.tomb = {}
<1>1. CASE main' = main
  BY <1>1 DEF MemoriesInv, Apart
<1>2. ASSUME NEW p \in Proc, Rename(p)
      PROVE  /\ main.mem \ main'.mem \subseteq main'.tomb
             /\ main'.mem \cap main.tomb = {}
  <2>1. ~overlap
    BY <1>2 DEF Rename
  <2>2. Covers(p) /\ main'.mem = state[p].mem /\ main'.tomb = state[p].tomb
    BY <1>2, <2>1, RenameReplaces
  <2>3. state[p].mem \cap state[p].tomb = {}
    BY DEF MemoriesInv, Apart
  <2>4. QED
    BY <2>2, <2>3 DEF Covers
<1>3. main' = main \/ \E p \in Proc : Rename(p)
  BY StepShape DEF Next, PowerLoss, vars, files, Whole
<1>4. QED
  BY <1>1, <1>2, <1>3

(***************************************************************************)
(* Whatever the interleaving of the processes, their crashes, failed       *)
(* writes and power losses: between two saves that did not overlap, a      *)
(* memory leaves the main file only because it was forgotten, and no       *)
(* forgotten memory returns.                                               *)
(***************************************************************************)
THEOREM MemoriesAreKept == Spec => MemoriesKept
<1> DEFINE Inv == TypeOK /\ MemoriesInv /\ SavesInv
           Kept == Whole(main) /\ Whole(main') /\ ~overlap'
                     => /\ main.mem \ main'.mem \subseteq main'.tomb
                        /\ main'.mem \cap main.tomb = {}
<1>1. Init => MemoriesInv /\ SavesInv
  BY DEF Init, MemoriesInv, UsedOnly, Apart, Fresh, Whole, SavesInv,
         OneSaver, MergedOnce, Critical
<1>2. TypeOK /\ TypeOK' /\ MemoriesInv /\ SavesInv /\ [Next]_vars
        => MemoriesInv' /\ SavesInv'
  BY MemoriesStep, SavesStep
<1>3. TypeOK /\ TypeOK' /\ MemoriesInv /\ SavesInv /\ [Next]_vars => [Kept]_vars
  BY MemoriesKeptStep
<1>4. QED
  BY <1>1, <1>2, <1>3, TypeCorrect, PTL DEF Spec, MemoriesKept
-----------------------------------------------------------------------------
\* A process that knows a version is in step with the file that has it.
InStep(p) ==
  /\ state[p].version = 0 <=> base[p] = Absent
  /\ base[p] # Absent => base[p] \subseteq state[p].money
  /\ main = Absent => state[p].version = 0
  /\ Whole(main) => /\ state[p].version <= main.version
                    /\ state[p].version = main.version => base[p] = main.money

\* What a save writes contains what the file holds: it has the version of
\* the file and its money state, or a newer version and more money changes.
Prepared(p) ==
  /\ pc[p] = "adopting" => Whole(main) /\ next[p] = main.version
  /\ pc[p] \in {"copying", "writing", "renaming"} =>
       /\ next[p] >= 1
       /\ Whole(main) =>
            \/ next[p] = main.version /\ state[p].money = main.money
            \/ next[p] > main.version /\ main.money \subseteq state[p].money

VersionsInv ==
  ~overlap =>
    /\ main = Absent \/ main \in Image
    /\ Whole(main) => main.version >= 1
    /\ \A p \in Proc : pc[p] # "down" => InStep(p) /\ Prepared(p)

\* A step outside a save, or one that only moves on in it, leaves a process
\* whose money state, version and base it keeps in step.
LEMMA InStepStays ==
  ASSUME TypeOK, NEW p \in Proc, InStep(p), main' = main,
         state'[p].version = state[p].version,
         state[p].money \subseteq state'[p].money,
         base'[p] = base[p]
  PROVE  InStep(p)'
BY DEF InStep, Whole

\* A process that takes version and money state of a whole file is in step.
LEMMA InStepTaken ==
  ASSUME TypeOK', NEW p \in Proc, main' \in Image, main'.version >= 1,
         state'[p].version = main'.version,
         state'[p].money = main'.money, base'[p] = main'.money
  PROVE  InStep(p)'
<1>1. main'.version \in Nat /\ main'.money \in SUBSET Op
  BY DEF Image
<1>2. Whole(main)' /\ main' # Absent /\ main'.money # Absent
  BY <1>1, FilesAssumption DEF Whole
<1>3. QED
  BY <1>1, <1>2 DEF InStep

\* A merge chooses the version of the file for the adoption that follows, or
\* a version whose money state contains that of the file.
LEMMA MergePrepares ==
  ASSUME TypeOK, TypeOK', NEW p \in Proc, Merge(p), InStep(p),
         Whole(main) => main.version >= 1,
         main = Absent \/ main \in Image
  PROVE  InStep(p)' /\ Prepared(p)'
<1>1. /\ state[p] \in Image /\ state[p].version \in Nat
      /\ base[p] = Absent \/ base[p] \in SUBSET Op
  BY DEF TypeOK, Image
<1>2. Whole(main) => main \in Image /\ main.version \in Nat
  BY DEF Whole, TypeOK, Image
<1>3. /\ main' = main /\ base'[p] = base[p]
      /\ state'[p] = IF Whole(main) THEN Merged(state[p], main)
                                    ELSE state[p]
  BY DEF Merge, TypeOK, files
<1>4. /\ state'[p].version = state[p].version
      /\ state'[p].money = state[p].money
  BY <1>1, <1>2, <1>3 DEF Merged, Image
<1>5. InStep(p)'
  BY <1>3, <1>4, InStepStays
<1>6. CASE Whole(main) /\ main.version > state[p].version
  <2>1. pc'[p] = "adopting" /\ next'[p] = main.version
    BY <1>6 DEF Merge, To, TypeOK
  <2>2. QED
    BY <1>3, <1>5, <1>6, <2>1 DEF Prepared, Whole
<1>7. CASE ~(Whole(main) /\ main.version > state[p].version)
  <2>1. /\ pc'[p] = "copying"
        /\ next'[p] = state[p].version + (IF Dirty(p) THEN 1 ELSE 0)
    BY <1>7 DEF Merge, To, TypeOK
  <2>2. next'[p] >= 1
    <3>1. CASE Dirty(p)
      BY <1>1, <2>1, <3>1
    <3>2. CASE ~Dirty(p)
      <4>1. base[p] # Absent
        BY <3>2, FilesAssumption DEF Dirty, TypeOK, Image
      <4>2. state[p].version # 0
        BY <4>1 DEF InStep
      <4>3. QED
        BY <1>1, <2>1, <3>2, <4>2
    <3>3. QED
      BY <3>1, <3>2
  <2>3. ASSUME Whole(main)
        PROVE  \/ next'[p] = main.version /\ state[p].money = main.money
               \/ /\ next'[p] > main.version
                  /\ main.money \subseteq state[p].money
    <3>1. state[p].version = main.version /\ base[p] = main.money
      BY <1>1, <1>2, <1>7, <2>3 DEF InStep
    <3>2. main.money # Absent
      BY <1>2, <2>3, FilesAssumption DEF Image
    <3>3. main.money \subseteq state[p].money
      BY <3>1, <3>2 DEF InStep
    <3>4. QED
      BY <1>2, <2>1, <2>3, <3>1, <3>3 DEF Dirty
  <2>4. QED
    BY <1>3, <1>4, <1>5, <2>1, <2>2, <2>3 DEF Prepared, Whole
<1>8. QED
  BY <1>6, <1>7

\* The step of the saving or working process itself.
LEMMA OwnVersionsStep ==
  ASSUME TypeOK, TypeOK', ~overlap, VersionsInv, NEW p \in Proc,
         Acts(p) \/ Saves(p), ~Rename(p), pc'[p] # "down"
  PROVE  InStep(p)' /\ Prepared(p)'
<1>1. /\ main = Absent \/ main \in Image
      /\ Whole(main) => main.version >= 1
      /\ pc[p] # "down" => InStep(p) /\ Prepared(p)
      /\ main' = main
  BY StepShape DEF VersionsInv
<1>2. Whole(main) => main \in Image /\ main.version \in Nat
  BY DEF Whole, TypeOK, Image
<1>3. state[p] \in Image /\ state'[p] \in Image
  BY DEF TypeOK
<1>4. CASE Start(p)
  <2>1. /\ pc'[p] = "idle" /\ state'[p] = Loaded
        /\ base'[p] = IF Loaded = Fresh THEN Absent ELSE Loaded.money
    BY <1>4 DEF Start, To, TypeOK
  <2>2. CASE Whole(main)
    <3>1. /\ Loaded = [main EXCEPT !.mem = @ \ main.tomb]
      BY <2>2 DEF Loaded
    <3>2. Loaded.version = main.version /\ Loaded.money = main.money
      BY <1>2, <2>2, <3>1 DEF Image
    <3>3. Loaded # Fresh
      BY <1>1, <2>2, <3>2 DEF Fresh
    <3>4. InStep(p)'
      <4>1. main' \in Image /\ main'.version >= 1
        BY <1>1, <1>2, <2>2
      <4>2. /\ state'[p].version = main'.version
            /\ state'[p].money = main'.money /\ base'[p] = main'.money
        BY <1>1, <2>1, <3>2, <3>3
      <4>3. QED
        BY <4>1, <4>2, InStepTaken
    <3>5. QED
      BY <2>1, <3>4 DEF Prepared
  <2>3. CASE ~Whole(main)
    <3>1. main = Absent
      BY <1>1, <2>3, FilesAssumption DEF Whole
    <3>2. Loaded = Fresh
      BY <2>3, <3>1 DEF Loaded, Fresh
    <3>3. QED
      BY <1>1, <2>1, <2>3, <3>1, <3>2 DEF InStep, Prepared, Fresh, Whole
  <2>4. QED
    BY <2>2, <2>3
<1>5. CASE Refresh(p)
  <2>1. /\ pc'[p] = "idle" /\ Whole(main) /\ base'[p] = main.money
        /\ state'[p] = Adopted(state[p], main)
    BY <1>5 DEF Refresh, TypeOK
  <2>2. /\ state'[p].version = main.version
        /\ state'[p].money = main.money
    BY <1>2, <1>3, <2>1 DEF Adopted, Image
  <2>3. InStep(p)'
    BY <1>1, <1>2, <2>1, <2>2, InStepTaken
  <2>4. QED
    BY <2>1, <2>3 DEF Prepared
<1>6. CASE \/ \E op \in Op : ChangeMoney(p, op)
           \/ \E m \in Memory : Remember(p, m) \/ Forget(p, m)
           \/ \E k \in Token : Revoke(p, k)
  <2>1. /\ pc[p] = "idle" /\ pc'[p] \in {"idle", "locking"}
        /\ base'[p] = base[p]
    BY <1>6 DEF ChangeMoney, Remember, Forget, Revoke, To, TypeOK
  <2>2. /\ state'[p].version = state[p].version
        /\ state[p].money \subseteq state'[p].money
    <3>1. CASE \E op \in Op : ChangeMoney(p, op)
      BY <1>3, <3>1 DEF ChangeMoney, TypeOK, Image
    <3>2. CASE \E m \in Memory : Remember(p, m) \/ Forget(p, m)
      <4>1. PICK m \in Memory :
              \/ state'[p] = [state[p] EXCEPT !.mem = @ \cup {m}]
              \/ state'[p] = [state[p] EXCEPT !.mem = @ \ {m},
                                              !.tomb = @ \cup {m}]
        BY <3>2 DEF Remember, Forget, TypeOK
      <4>2. QED
        BY <1>3, <4>1 DEF Image
    <3>3. CASE \E k \in Token : Revoke(p, k)
      <4>1. PICK k \in Token :
              state'[p] = [state[p] EXCEPT !.revoked = @ \cup {k}]
        BY <3>3 DEF Revoke, TypeOK
      <4>2. QED
        BY <1>3, <4>1 DEF Image
    <3>4. QED
      BY <1>6, <3>1, <3>2, <3>3
  <2>3. InStep(p)'
    BY <1>1, <2>1, <2>2, InStepStays
  <2>4. QED
    BY <2>1, <2>3 DEF Prepared
<1>7. CASE \/ Autosave(p) \/ AcquireLock(p) \/ SaveUnlocked(p)
           \/ LockBusy(p) \/ LockStale(p) \/ UnlinkStale(p)
           \/ WriteFails(p) \/ Release(p)
  <2>1. /\ pc[p] # "down"
        /\ pc'[p] \in {"idle", "locking", "unlinking", "merging",
                       "releasing"}
        /\ state'[p] = state[p] /\ base'[p] = base[p]
    BY <1>7 DEF Autosave, AcquireLock, SaveUnlocked, LockBusy, LockStale,
                UnlinkStale, WriteFails, Release, Enter, To, TypeOK
  <2>2. InStep(p)'
    BY <1>1, <2>1, InStepStays
  <2>3. QED
    BY <2>1, <2>2 DEF Prepared
<1>8. CASE Merge(p)
  <2>1. pc[p] # "down"
    BY <1>8 DEF Merge
  <2>2. QED
    BY <1>1, <1>8, <2>1, MergePrepares
<1>9. CASE Adopt(p)
  <2>1. pc[p] = "adopting" /\ Whole(main) /\ next[p] = main.version
    BY <1>1, <1>9 DEF Adopt, Prepared
  <2>2. /\ state'[p] = Adopted(state[p], main) /\ base'[p] = main.money
        /\ next'[p] = next[p] /\ pc'[p] = "copying"
    BY <1>9, <2>1 DEF Adopt, To, TypeOK
  <2>3. /\ state'[p].version = main.version
        /\ state'[p].money = main.money
    BY <1>2, <1>3, <2>1, <2>2 DEF Adopted, Image
  <2>4. InStep(p)'
    BY <1>1, <1>2, <2>1, <2>2, <2>3, InStepTaken
  <2>5. QED
    BY <1>1, <2>1, <2>2, <2>3, <2>4 DEF Prepared
<1>10. CASE Backup(p) \/ WriteTmp(p)
  <2>1. /\ pc[p] \in {"copying", "writing"}
        /\ pc'[p] \in {"writing", "renaming"}
        /\ state'[p] = state[p] /\ base'[p] = base[p] /\ next'[p] = next[p]
    BY <1>10 DEF Backup, WriteTmp, To, TypeOK
  <2>2. InStep(p)'
    BY <1>1, <2>1, InStepStays
  <2>3. QED
    BY <1>1, <2>1, <2>2 DEF Prepared, Whole
<1>11. CASE Crash(p)
  BY <1>11 DEF Crash, To, TypeOK
<1>12. QED
  BY <1>4, <1>5, <1>6, <1>7, <1>8, <1>9, <1>10, <1>11 DEF Acts, Saves

\* A rename that replaces the main file keeps the others in step with it: the
\* file either has the money state they know, or a version they do not have.
LEMMA RenameVersions ==
  ASSUME TypeOK, TypeOK', ~overlap, SavesInv, VersionsInv,
         NEW p \in Proc, Rename(p),
         NEW q \in Proc, pc'[q] # "down"
  PROVE  /\ main' \in Image /\ main'.version >= 1
         /\ InStep(q)' /\ Prepared(q)'
<1>1. /\ pc[p] = "renaming" /\ pc'[p] = "releasing"
      /\ OneSaver /\ InStep(p) /\ Prepared(p)
  BY DEF Rename, To, TypeOK, SavesInv, VersionsInv
<1>2. /\ main' \in Image
      /\ main'.money = state[p].money /\ main'.version = next[p]
      /\ state' = [state EXCEPT ![p].version = next[p]]
      /\ base' = [base EXCEPT ![p] = state[p].money]
  BY RenameReplaces
<1>3. /\ main'.version >= 1
      /\ Whole(main) =>
           \/ main'.version = main.version /\ main'.money = main.money
           \/ main'.version > main.version
  BY <1>1, <1>2 DEF Prepared
<1>4. CASE q = p
  <2>1. /\ state'[p].version = main'.version
        /\ state'[p].money = main'.money /\ base'[p] = main'.money
    BY <1>2 DEF TypeOK, Image
  <2>2. InStep(p)'
    BY <1>2, <1>3, <2>1, InStepTaken
  <2>3. QED
    BY <1>1, <1>2, <1>3, <1>4, <2>2 DEF Prepared
<1>5. CASE q # p
  <2>1. /\ pc'[q] = pc[q] /\ state'[q] = state[q] /\ base'[q] = base[q]
    BY <1>5, OthersKeep DEF Saves
  <2>2. InStep(q) /\ (main = Absent \/ main \in Image)
    BY <2>1 DEF VersionsInv
  <2>3. /\ main'.version \in Nat /\ main'.version # 0
        /\ state[q].version \in Nat
        /\ Whole(main') /\ main' # Absent
    BY <1>2, <1>3, FilesAssumption DEF TypeOK, Image, Whole
  <2>4. /\ state[q].version <= main'.version
        /\ state[q].version = main'.version => base[q] = main'.money
    <3>1. CASE main = Absent
      BY <2>2, <2>3, <3>1 DEF InStep
    <3>2. CASE main \in Image
      <4>1. Whole(main) /\ main.version \in Nat
        BY <3>2, FilesAssumption DEF Whole, Image
      <4>2. QED
        BY <1>3, <2>2, <2>3, <4>1 DEF InStep
    <3>3. QED
      BY <2>2, <3>1, <3>2
  <2>5. InStep(q)'
    BY <2>1, <2>2, <2>3, <2>4 DEF InStep, Whole
  <2>6. ~Critical(q)
    BY <1>1, <1>5 DEF OneSaver, Critical
  <2>7. QED
    BY <1>2, <1>3, <2>1, <2>5, <2>6 DEF Prepared, Critical
<1>6. QED
  BY <1>2, <1>3, <1>4, <1>5

\* Every step keeps the versions meaning what they mean.
LEMMA VersionsStep ==
  ASSUME TypeOK, TypeOK', SavesInv, VersionsInv, ~LosesPower, [Next]_vars
  PROVE  VersionsInv'
<1>1. ASSUME NEW p \in Proc, Acts(p) \/ Saves(p), ~overlap'
      PROVE  /\ main' = Absent \/ main' \in Image
             /\ Whole(main') => main'.version >= 1
             /\ \A q \in Proc : pc'[q] # "down" => InStep(q)' /\ Prepared(q)'
  <2>1. ~overlap
    BY <1>1, StepShape
  <2>2. CASE Rename(p)
    <3>1. pc'[p] # "down"
      BY <2>2 DEF Rename, To, TypeOK
    <3>2. QED
      BY <2>1, <2>2, <3>1, RenameVersions
  <2>3. CASE ~Rename(p)
    <3>1. main' = main
      BY <1>1, <2>3, StepShape
    <3>2. pc'[p] # "down" => InStep(p)' /\ Prepared(p)'
      BY <1>1, <2>1, <2>3, OwnVersionsStep
    <3>3. ASSUME NEW q \in Proc, q # p, pc'[q] # "down"
          PROVE  InStep(q)' /\ Prepared(q)'
      <4>1. /\ pc'[q] = pc[q] /\ state'[q] = state[q]
            /\ base'[q] = base[q] /\ next'[q] = next[q]
        BY <1>1, <3>3, OthersKeep
      <4>2. InStep(q) /\ Prepared(q)
        BY <2>1, <3>3, <4>1 DEF VersionsInv
      <4>3. QED
        BY <3>1, <4>1, <4>2 DEF InStep, Prepared, Whole
    <3>4. QED
      BY <2>1, <3>1, <3>2, <3>3 DEF VersionsInv
  <2>4. QED
    BY <2>2, <2>3
<1>2. CASE PowerLoss
  BY <1>2 DEF PowerLoss
<1>3. CASE UNCHANGED vars
  BY <1>3 DEF vars, files, VersionsInv, InStep, Prepared, Whole
<1>4. QED
  BY <1>1, <1>2, <1>3 DEF Next, VersionsInv, Whole

\* What a rename commits contains what was committed, in a whole file.
LEMMA CommitStep ==
  ASSUME TypeOK, TypeOK', SavesInv, VersionsInv, ~LosesPower, [Next]_vars,
         Whole(main), ~overlap'
  PROVE  Whole(main') /\ main.money \subseteq main'.money
<1>1. CASE main' = main
  BY <1>1 DEF Whole
<1>2. ASSUME NEW p \in Proc, Rename(p)
      PROVE  Whole(main') /\ main.money \subseteq main'.money
  <2>1. ~overlap /\ pc[p] = "renaming"
    BY <1>2 DEF Rename
  <2>2. Prepared(p)
    BY <2>1 DEF VersionsInv
  <2>3. main' \in Image /\ main'.money = state[p].money
    BY <1>2, <2>1, RenameReplaces
  <2>4. QED
    BY <2>1, <2>2, <2>3, FilesAssumption DEF Prepared, Whole
<1>3. main' = main \/ \E p \in Proc : Rename(p)
  BY StepShape DEF Next, PowerLoss, vars, files
<1>4. QED
  BY <1>1, <1>2, <1>3

\* The three invariants together, for a machine that keeps power.
LEMMA PersistInvariant ==
  ASSUME ~LosesPower
  PROVE  Spec => [](TypeOK /\ SavesInv /\ VersionsInv)
<1>1. Init => SavesInv /\ VersionsInv
  BY FilesAssumption
     DEF Init, SavesInv, VersionsInv, OneSaver, MergedOnce, Critical, Whole
<1>2. TypeOK /\ TypeOK' /\ SavesInv /\ VersionsInv /\ [Next]_vars
        => SavesInv' /\ VersionsInv'
  BY SavesStep, VersionsStep
<1>3. QED
  BY <1>1, <1>2, TypeCorrect, PTL DEF Spec

(***************************************************************************)
(* As long as the machine keeps power and no two saves overlapped, one     *)
(* version number never stands for two money states: the stateVersion in   *)
(* the file tells a process truly whether it is in step.                   *)
(***************************************************************************)
THEOREM VersionsName == ASSUME ~LosesPower PROVE Spec => []VersionNamesState
<1>1. TypeOK /\ VersionsInv => VersionNamesState
  BY DEF VersionsInv, InStep, VersionNamesState
<1>2. QED
  BY <1>1, PersistInvariant, PTL

(***************************************************************************)
(* First committer wins: as long as the machine keeps power and no two     *)
(* saves overlapped, no save drops a money change that is in the main      *)
(* file, through crashes and failed writes at every point.                 *)
(***************************************************************************)
THEOREM CommittedStays == ASSUME ~LosesPower PROVE Spec => CommittedMoneyStays
<1>1. TypeOK /\ TypeOK' /\ SavesInv /\ VersionsInv /\ [Next]_vars
        => [Whole(main) /\ Whole(main') /\ ~overlap'
              => main.money \subseteq main'.money]_vars
  BY CommitStep
<1>2. QED
  BY <1>1, PersistInvariant, PTL DEF Spec, CommittedMoneyStays

(***************************************************************************)
(* Once it is there, the main file stays whole through every crash of a    *)
(* process: a save replaces it by a .tmp that was written to the end.      *)
(***************************************************************************)
THEOREM MainIsWhole == Spec => MainStaysWhole
<1>1. CASE ~LosesPower
  <2>1. TypeOK /\ TypeOK' /\ SavesInv /\ VersionsInv /\ [Next]_vars
          => [Whole(main) /\ ~LosesPower /\ ~overlap' => Whole(main')]_vars
    BY CommitStep
  <2>2. QED
    BY <1>1, <2>1, PersistInvariant, PTL DEF Spec, MainStaysWhole
<1>2. CASE LosesPower
  <2>1. [Next]_vars
          => [Whole(main) /\ ~LosesPower /\ ~overlap' => Whole(main')]_vars
    BY <1>2
  <2>2. QED
    BY <2>1, PTL DEF Spec, MainStaysWhole
<1>3. QED
  BY <1>1, <1>2
=============================================================================
