--------------------------- MODULE ConsoleStore ----------------------------
(***************************************************************************)
(* How the hosted console keeps its state (dashboard/server.js and         *)
(* console-postgres-store.cjs): changes are made in memory, a debounced    *)
(* timer writes all of it to a JSON file, SQLite or Postgres, and a        *)
(* restart reads it back.  Of the audit events memory keeps a ring.        *)
(***************************************************************************)
EXTENDS Integers, Sequences, FiniteSets

CONSTANTS
    Drivers,       \* "json", "sqlite", "postgres": the store drivers looked at
    RingSize,      \* AUDIT_RING_SIZE
    MaxChanges     \* bound on the changes made

VARIABLES
    driver,
    value,         \* number of the last change memory holds
    ring,          \* auditEvents; the i-th change records event i
    saved,         \* what the store holds: [value, audit]
    saveDirty, saveTimer,
    flushes,       \* flushes queued on saveInFlight
    writing,       \* the snapshot a Postgres transaction is writing, or NoWrite
    failed,        \* the last write failed
    up, made       \* the server runs; changes made so far

vars == <<driver, value, ring, saved, saveDirty, saveTimer, flushes, writing, failed, up, made>>

NoWrite == [value |-> -1, audit |-> {}]
Snapshots == [value : -1..MaxChanges, audit : SUBSET (1..MaxChanges)]

TypeOK ==
    /\ driver \in Drivers /\ value \in 0..MaxChanges /\ made \in 0..MaxChanges
    /\ ring \in Seq(1..MaxChanges)
    /\ saved \in Snapshots /\ writing \in Snapshots
    /\ {saveDirty, saveTimer, failed, up} \subseteq BOOLEAN /\ flushes \in Nat

InitWith(d) ==
    /\ driver = d /\ value = 0 /\ made = 0 /\ ring = <<>>
    /\ saved = [value |-> 0, audit |-> {}] /\ writing = NoWrite
    /\ saveDirty = FALSE /\ saveTimer = FALSE /\ flushes = 0 /\ failed = FALSE /\ up = TRUE

Init == \E d \in Drivers : InitWith(d)

-----------------------------------------------------------------------------
(* recordAudit() and saveConsoleStore() *)

Recorded(e) ==
    LET events == Append(ring, e)
    IN  IF Len(events) > RingSize
        THEN SubSeq(events, Len(events) - RingSize + 1, Len(events)) ELSE events

\* A handler changes the state, records it and asks for a save.
Change ==
    /\ up /\ made < MaxChanges
    /\ made' = made + 1 /\ value' = made + 1
    /\ ring' = Recorded(made + 1)
    /\ saveDirty' = TRUE /\ saveTimer' = TRUE
    /\ UNCHANGED <<driver, saved, flushes, writing, failed, up>>

TimerFires ==
    /\ up /\ saveTimer
    /\ saveTimer' = FALSE /\ saveDirty' = FALSE
    /\ flushes' = IF saveDirty THEN flushes + 1 ELSE flushes
    /\ UNCHANGED <<driver, value, ring, saved, writing, failed, up, made>>

-----------------------------------------------------------------------------
(* A flush *)

Events == {ring[i] : i \in DOMAIN ring}
Snapshot == [value |-> value, audit |-> Events]

\* In Postgres every table is reconciled with the snapshot but the events, which are only added.
Reconciled(snapshot) == [snapshot EXCEPT !.audit = @ \cup saved.audit]

\* The JSON file and the SQLite tables are replaced.
StoreWith(snapshot) == IF driver = "postgres" THEN Reconciled(snapshot) ELSE snapshot

\* The synchronous drivers write in the step that takes the snapshot.
FlushSync(ok) ==
    /\ up /\ flushes > 0 /\ driver # "postgres"
    /\ saved' = IF ok THEN StoreWith(Snapshot) ELSE saved
    /\ flushes' = flushes - 1 /\ failed' = ~ok
    /\ UNCHANGED <<driver, value, ring, saveDirty, saveTimer, writing, up, made>>

BeginTransaction ==
    /\ up /\ flushes > 0 /\ driver = "postgres" /\ writing = NoWrite
    /\ writing' = Snapshot
    /\ UNCHANGED <<driver, value, ring, saved, saveDirty, saveTimer, flushes, failed, up, made>>

SlipClearsLate(ok) ==      \* a change made during the write no longer counts as dirty
    /\ up /\ writing # NoWrite
    /\ saved' = IF ok THEN StoreWith(writing) ELSE saved
    /\ writing' = NoWrite /\ flushes' = flushes - 1 /\ failed' = ~ok
    /\ saveDirty' = FALSE
    /\ UNCHANGED <<driver, value, ring, saveTimer, up, made>>

EndTransaction(ok) ==
    /\ up /\ writing # NoWrite
    /\ saved' = IF ok THEN StoreWith(writing) ELSE saved
    /\ writing' = NoWrite /\ flushes' = flushes - 1 /\ failed' = ~ok
    /\ UNCHANGED <<driver, value, ring, saveDirty, saveTimer, up, made>>

-----------------------------------------------------------------------------
(* Shutdown, crash and restart *)

\* shutdown() clears the timer, flushes once more and waits for it.
FinalFlush ==
    /\ up /\ ~(flushes > 0)
    /\ flushes' = 1 /\ saveTimer' = FALSE /\ saveDirty' = FALSE
    /\ UNCHANGED <<driver, value, ring, saved, writing, failed, up, made>>

Stop ==
    /\ up
    /\ up' = FALSE /\ saveTimer' = FALSE /\ saveDirty' = FALSE
    /\ flushes' = 0 /\ writing' = NoWrite
    /\ UNCHANGED <<driver, value, ring, saved, failed, made>>

\* Events are loaded in their order, beyond the ring's size until the next one.
Loaded == {events \in [1..Cardinality(saved.audit) -> saved.audit] :
             \A i, j \in DOMAIN events : i < j => events[i] < events[j]}

Restart ==
    /\ ~up /\ up' = TRUE
    /\ value' = saved.value /\ ring' \in Loaded /\ failed' = FALSE
    /\ UNCHANGED <<driver, saved, saveDirty, saveTimer, flushes, writing, made>>

Next ==
    \/ Change \/ TimerFires \/ BeginTransaction \/ FinalFlush \/ Stop \/ Restart
    \/ \E ok \in BOOLEAN : FlushSync(ok) \/ EndTransaction(ok)

Spec == Init /\ [][Next]_vars

-----------------------------------------------------------------------------
(* Properties *)

\* While the server runs, a change or an audit event of the ring that the store
\* lacks is being written, is going to be, or the last write failed: no debounced
\* save is forgotten, also when the change is made during a write.
SaveScheduled ==
    up /\ ~failed /\ (value # saved.value \/ ~(Events \subseteq saved.audit)) =>
        (saveTimer /\ saveDirty) \/ flushes > 0
=============================================================================
