---------------------------- MODULE WebhookProofs ----------------------------
(***************************************************************************)
(* Proofs about the webhook outbox, for any subscriptions, events, pumps   *)
(* and batch size: type correctness; that a delivery is given up only      *)
(* after MAX_ATTEMPTS posts, however pumps overlap; and that pumps that    *)
(* take turns repeat a delivery only after a lost answer.                  *)
(***************************************************************************)
EXTENDS WebhookOutbox, TLAPS

(***************************************************************************)
(* Neither a row nor a snapshot of one counts an attempt that was not      *)
(* made.  A stale snapshot lags behind, and what it writes back lags too.  *)
(***************************************************************************)
RowsCountPosts ==
  \A d \in Delivery : d[2] \notin Blocked => row[d].attempts <= tried[d]

BatchesCountPosts ==
  \A p \in Pump : \A x \in todo[p] :
    x.d[2] \notin Blocked => x.attempts <= tried[x.d]

PostsCountPosts ==
  \A p \in Pump : posting[p] # NoSnapshot =>
    /\ posting[p].d[2] \notin Blocked
    /\ posting[p].attempts + 1 <= tried[posting[p].d]

CountInv ==
  /\ TypeOK
  /\ RowsCountPosts
  /\ BatchesCountPosts
  /\ PostsCountPosts
  /\ DeadWasTried

(***************************************************************************)
(* While pumps take turns, one pump at a time holds rows, each row once    *)
(* and only while it is pending; a row with an acknowledged post is        *)
(* delivered, so nobody holds it.                                          *)
(***************************************************************************)
OnePump ==
  \A p, q \in Pump : ~Idle(p) /\ ~Idle(q) => p = q

HeldOnce ==
  \A p \in Pump :
    /\ \A x, y \in todo[p] : x.d = y.d => x = y
    /\ posting[p] # NoSnapshot => \A x \in todo[p] : x.d # posting[p].d

HeldPending ==
  \A p \in Pump :
    /\ \A x \in todo[p] : row[x.d].status = "pending"
    /\ posting[p] # NoSnapshot => row[posting[p].d].status = "pending"

TurnInv ==
  /\ TypeOK
  /\ OnePump
  /\ HeldOnce
  /\ HeldPending
  /\ AcknowledgedReadsDelivered
  /\ AcceptedOnce

-----------------------------------------------------------------------------
\* What _scheduleRetry() writes is a row.
LEMMA RetriedIsRow ==
  ASSUME TypeOK, NEW d \in Delivery, NEW n \in Nat
  PROVE  Retried(d, n) \in Row
  BY OutboxAssumption DEF TypeOK, Retried, Row

\* What a pump selects are snapshots.
LEMMA SelectedAreSnapshots ==
  ASSUME TypeOK, NEW p \in Pump, Select(p)
  PROVE  \E batch \in SUBSET {d \in Delivery : Ready(d)} :
           todo' = [todo EXCEPT ![p] =
             {[d |-> d, attempts |-> row[d].attempts] : d \in batch}]
  BY DEF Select, kSubset

\* The queue starts well typed,
LEMMA InitTypeOK == ASSUME Init PROVE TypeOK
  BY DEF Init, TypeOK, NoRow, Row

\* A snapshot that is being posted is one of a delivery.
LEMMA PostingIsSnapshot ==
  ASSUME TypeOK, NEW p \in Pump, posting[p] # NoSnapshot
  PROVE  posting[p] \in Snapshot /\ posting[p].d \in Delivery
         /\ posting[p].attempts \in Nat
  <1>1. posting[p] \in Snapshot
    BY DEF TypeOK
  <1> QED BY <1>1 DEF Snapshot

\* Every step keeps the types.
LEMMA NextTypeOK == ASSUME TypeOK, [Next]_vars PROVE TypeOK'
  <1> USE DEF history
  <1>1. ASSUME NEW s \in Sub, Register(s) PROVE TypeOK'
    BY <1>1 DEF Register, TypeOK
  <1>2. ASSUME NEW s \in Sub, Unregister(s) PROVE TypeOK'
    BY <1>2 DEF Unregister, TypeOK
  <1>3. ASSUME NEW e \in Event, Fire(e) PROVE TypeOK'
    <2>1. row' \in [Delivery -> Row]
      BY <1>3 DEF Fire, TypeOK, Row
    <2> QED BY <1>3, <2>1 DEF Fire, TypeOK
  <1>4. ASSUME NEW d \in Delivery, Elapse(d) PROVE TypeOK'
    <2>1. row' \in [Delivery -> Row]
      BY <1>4 DEF Elapse, TypeOK, Row
    <2> QED BY <1>4, <2>1 DEF Elapse, TypeOK
  <1>5. ASSUME NEW p \in Pump, Select(p) PROVE TypeOK'
    <2>1. PICK batch \in SUBSET {d \in Delivery : Ready(d)} :
            todo' = [todo EXCEPT ![p] =
              {[d |-> d, attempts |-> row[d].attempts] : d \in batch}]
      BY <1>5, SelectedAreSnapshots
    <2>2. \A d \in batch : [d |-> d, attempts |-> row[d].attempts] \in Snapshot
      BY DEF TypeOK, Row, Snapshot
    <2>3. todo' \in [Pump -> SUBSET Snapshot]
      BY <2>1, <2>2 DEF TypeOK
    <2> QED BY <1>5, <2>3 DEF Select, TypeOK
  <1>6. ASSUME NEW p \in Pump, NEW x \in todo[p], Post(p, x) PROVE TypeOK'
    <2>1. x \in Snapshot /\ x.d \in Delivery
      BY DEF TypeOK, Snapshot
    <2> QED BY <1>6, <2>1 DEF Post, TypeOK
  <1>7. ASSUME NEW p \in Pump, NEW x \in todo[p], Refuse(p, x) PROVE TypeOK'
    <2>1. x.d \in Delivery
      BY DEF TypeOK, Snapshot
    <2>2. row' \in [Delivery -> Row]
      BY <1>7, <2>1, RetriedIsRow, OutboxAssumption DEF Refuse, TypeOK
    <2> QED BY <1>7, <2>2 DEF Refuse, TypeOK
  <1>8. ASSUME NEW p \in Pump, Delivered(p) PROVE TypeOK'
    <2>1. posting[p].d \in Delivery /\ posting[p].attempts + 1 \in Nat
      BY <1>8, PostingIsSnapshot DEF Delivered
    <2>2. row' \in [Delivery -> Row]
      BY <1>8, <2>1 DEF Delivered, TypeOK, Row
    <2> QED BY <1>8, <2>1, <2>2 DEF Delivered, TypeOK
  <1>9. ASSUME NEW p \in Pump, Fails(p) PROVE TypeOK'
    <2>1. posting[p].d \in Delivery /\ posting[p].attempts + 1 \in Nat
      BY <1>9, PostingIsSnapshot DEF Fails
    <2>2. row' \in [Delivery -> Row]
      BY <1>9, <2>1, RetriedIsRow DEF Fails, TypeOK
    <2> QED BY <1>9, <2>1, <2>2 DEF Fails, MaybeAccepted, TypeOK
  <1>10. ASSUME NEW p \in Pump, Crash(p) PROVE TypeOK'
    <2>1. posting[p] # NoSnapshot => posting[p].d \in Delivery
      BY PostingIsSnapshot
    <2> QED BY <1>10, <2>1 DEF Crash, MaybeAccepted, TypeOK
  <1>11. CASE UNCHANGED vars
    BY <1>11 DEF vars, TypeOK
  <1> QED
    BY <1>1, <1>2, <1>3, <1>4, <1>5, <1>6, <1>7, <1>8, <1>9, <1>10, <1>11
    DEF Next, Takes

(***************************************************************************)
(* The tables, the batches and the posts in progress keep their types:     *)
(* webhooks.ts never writes a status its readers do not know.              *)
(***************************************************************************)
THEOREM TypeCorrect == Spec => []TypeOK
  <1>1. Init => TypeOK
    BY InitTypeOK
  <1>2. TypeOK /\ [Next]_vars => TypeOK'
    BY NextTypeOK
  <1> QED BY <1>1, <1>2, PTL DEF Spec
-----------------------------------------------------------------------------
\* with its counts,
LEMMA InitCountInv == ASSUME Init PROVE CountInv
  <1>1. TypeOK
    BY InitTypeOK
  <1> QED
    BY <1>1
    DEF Init, CountInv, RowsCountPosts, BatchesCountPosts, PostsCountPosts,
        DeadWasTried, NoRow

\* A step that changes neither rows, batches, posts nor their counts.
LEMMA CountsUnchanged ==
  ASSUME CountInv, UNCHANGED <<row, todo, posting, tried>>
  PROVE  (RowsCountPosts /\ BatchesCountPosts /\ PostsCountPosts /\ DeadWasTried)'
  BY DEF CountInv, RowsCountPosts, BatchesCountPosts, PostsCountPosts, DeadWasTried

\* Every step keeps the counts: attempts lag behind posts.
LEMMA NextCountInv == ASSUME CountInv, [Next]_vars PROVE CountInv'
  <1> DEFINE Counts == RowsCountPosts /\ BatchesCountPosts /\ PostsCountPosts
                       /\ DeadWasTried
  <1> USE DEF history
  <1>0. TypeOK /\ TypeOK'
    BY NextTypeOK DEF CountInv
  <1>1. ASSUME NEW s \in Sub, Register(s) PROVE Counts'
    BY <1>1, CountsUnchanged DEF Register
  <1>2. ASSUME NEW s \in Sub, Unregister(s) PROVE Counts'
    BY <1>2, CountsUnchanged DEF Unregister
  <1>3. ASSUME NEW e \in Event, Fire(e) PROVE Counts'
    <2>1. \A d \in Delivery :
            \/ row'[d] = row[d]
            \/ row'[d] = [status |-> "pending", attempts |-> 0, due |-> TRUE]
      BY <1>3 DEF Fire
    <2>2. tried' = tried /\ \A d \in Delivery : 0 <= tried[d]
      BY <1>0, <1>3 DEF Fire, TypeOK
    <2>3. RowsCountPosts' /\ DeadWasTried'
      BY <2>1, <2>2 DEF CountInv, RowsCountPosts, DeadWasTried
    <2>4. BatchesCountPosts' /\ PostsCountPosts'
      BY <1>3 DEF Fire, CountInv, BatchesCountPosts, PostsCountPosts
    <2> QED BY <2>3, <2>4
  <1>4. ASSUME NEW d \in Delivery, Elapse(d) PROVE Counts'
    <2>1. \A c \in Delivery : row'[c].attempts = row[c].attempts
                              /\ row'[c].status = row[c].status
      BY <1>0, <1>4 DEF Elapse, TypeOK, Row
    <2>2. RowsCountPosts' /\ DeadWasTried'
      BY <1>4, <2>1 DEF Elapse, CountInv, RowsCountPosts, DeadWasTried
    <2>3. BatchesCountPosts' /\ PostsCountPosts'
      BY <1>4 DEF Elapse, CountInv, BatchesCountPosts, PostsCountPosts
    <2> QED BY <2>2, <2>3
  <1>5. ASSUME NEW p \in Pump, Select(p) PROVE Counts'
    <2>1. PICK batch \in SUBSET {d \in Delivery : Ready(d)} :
            todo' = [todo EXCEPT ![p] =
              {[d |-> d, attempts |-> row[d].attempts] : d \in batch}]
      BY <1>0, <1>5, SelectedAreSnapshots
    <2>2. \A q \in Pump : todo'[q] = IF q = p
            THEN {[d |-> d, attempts |-> row[d].attempts] : d \in batch}
            ELSE todo[q]
      BY <1>0, <2>1 DEF TypeOK
    <2>3. BatchesCountPosts'
      <3> SUFFICES ASSUME NEW q \in Pump, NEW y \in todo'[q],
                          y.d[2] \notin Blocked
                   PROVE  y.attempts <= tried'[y.d]
        BY DEF BatchesCountPosts
      <3>1. CASE q = p
        <4>1. PICK d \in batch : y = [d |-> d, attempts |-> row[d].attempts]
          BY <2>2, <3>1
        <4>2. row[d].attempts <= tried[d]
          BY <4>1 DEF CountInv, RowsCountPosts
        <4> QED BY <1>5, <4>1, <4>2 DEF Select
      <3>2. CASE q # p
        BY <1>5, <2>2, <3>2 DEF Select, CountInv, BatchesCountPosts
      <3> QED BY <3>1, <3>2
    <2>4. RowsCountPosts' /\ PostsCountPosts' /\ DeadWasTried'
      BY <1>5 DEF Select, CountInv, RowsCountPosts, PostsCountPosts, DeadWasTried
    <2> QED BY <2>3, <2>4
  <1>6. ASSUME NEW p \in Pump, NEW x \in todo[p], Post(p, x) PROVE Counts'
    <2>1. x \in Snapshot /\ x.d \in Delivery /\ x.attempts \in Nat
      BY <1>0 DEF TypeOK, Snapshot
    <2>2. /\ tried'[x.d] = tried[x.d] + 1
          /\ \A d \in Delivery : tried[d] \in Nat /\ tried'[d] >= tried[d]
      BY <1>0, <1>6, <2>1 DEF Post, TypeOK
    <2>3. RowsCountPosts'
      BY <1>0, <1>6, <2>2 DEF Post, CountInv, RowsCountPosts, TypeOK, Row
    <2>4. DeadWasTried'
      BY <1>0, <1>6, <2>2, OutboxAssumption DEF Post, CountInv, DeadWasTried, TypeOK
    <2>5. BatchesCountPosts'
      <3> SUFFICES ASSUME NEW q \in Pump, NEW y \in todo'[q],
                          y.d[2] \notin Blocked
                   PROVE  y.attempts <= tried'[y.d]
        BY DEF BatchesCountPosts
      <3>1. y \in todo[q]
        BY <1>0, <1>6 DEF Post, TypeOK
      <3>2. y.attempts \in Nat /\ y.d \in Delivery /\ y.attempts <= tried[y.d]
        BY <1>0, <3>1 DEF TypeOK, Snapshot, CountInv, BatchesCountPosts
      <3> QED BY <2>2, <3>2, <1>0 DEF TypeOK
    <2>6. PostsCountPosts'
      <3> SUFFICES ASSUME NEW q \in Pump, posting'[q] # NoSnapshot
                   PROVE  /\ posting'[q].d[2] \notin Blocked
                          /\ posting'[q].attempts + 1 <= tried'[posting'[q].d]
        BY DEF PostsCountPosts
      <3>1. CASE q = p
        <4>1. posting'[q] = x /\ x.d[2] \notin Blocked
          BY <1>0, <1>6, <3>1 DEF Post, TypeOK
        <4>2. x.attempts <= tried[x.d]
          BY <4>1 DEF CountInv, BatchesCountPosts
        <4> QED BY <2>1, <2>2, <4>1, <4>2
      <3>2. CASE q # p
        <4>1. posting'[q] = posting[q]
          BY <1>0, <1>6, <3>2 DEF Post, TypeOK
        <4>2. posting[q].d \in Delivery /\ posting[q].attempts \in Nat
          BY <1>0, <4>1, PostingIsSnapshot
        <4>3. /\ posting[q].d[2] \notin Blocked
              /\ posting[q].attempts + 1 <= tried[posting[q].d]
          BY <4>1 DEF CountInv, PostsCountPosts
        <4> QED BY <2>2, <4>1, <4>2, <4>3, <1>0 DEF TypeOK
      <3> QED BY <3>1, <3>2
    <2> QED BY <2>3, <2>4, <2>5, <2>6
  <1>7. ASSUME NEW p \in Pump, NEW x \in todo[p], Refuse(p, x) PROVE Counts'
    <2>1. x.d \in Delivery /\ x.d[2] \in Blocked
      BY <1>0, <1>7 DEF TypeOK, Snapshot, Refuse
    <2>2. \A d \in Delivery : d[2] \notin Blocked => row'[d] = row[d]
      BY <1>0, <1>7, <2>1 DEF Refuse, TypeOK
    <2>3. RowsCountPosts' /\ DeadWasTried'
      BY <1>7, <2>2 DEF Refuse, CountInv, RowsCountPosts, DeadWasTried
    <2>4. \A q \in Pump : todo'[q] \subseteq todo[q]
      BY <1>0, <1>7 DEF Refuse, TypeOK
    <2>5. BatchesCountPosts' /\ PostsCountPosts'
      BY <1>7, <2>4 DEF Refuse, CountInv, BatchesCountPosts, PostsCountPosts
    <2> QED BY <2>3, <2>5
  <1>8. ASSUME NEW p \in Pump, Delivered(p) PROVE Counts'
    <2>1. posting[p].d \in Delivery /\ posting[p].attempts \in Nat
      BY <1>0, <1>8, PostingIsSnapshot DEF Delivered
    <2>2. posting[p].attempts + 1 <= tried[posting[p].d]
      BY <1>8 DEF Delivered, CountInv, PostsCountPosts
    <2>3. \A d \in Delivery : row'[d] = row[d]
            \/ /\ d = posting[p].d
               /\ row'[d].status = "delivered"
               /\ row'[d].attempts = posting[p].attempts + 1
      BY <1>0, <1>8, <2>1 DEF Delivered, TypeOK, Row
    <2>4. RowsCountPosts' /\ DeadWasTried'
      BY <1>8, <2>2, <2>3 DEF Delivered, CountInv, RowsCountPosts, DeadWasTried
    <2>5. \A q \in Pump : posting'[q] = NoSnapshot \/ posting'[q] = posting[q]
      BY <1>0, <1>8 DEF Delivered, TypeOK
    <2>6. BatchesCountPosts' /\ PostsCountPosts'
      BY <1>8, <2>5 DEF Delivered, CountInv, BatchesCountPosts, PostsCountPosts
    <2> QED BY <2>4, <2>6
  <1>9. ASSUME NEW p \in Pump, Fails(p) PROVE Counts'
    <2>1. posting[p].d \in Delivery /\ posting[p].attempts \in Nat
      BY <1>0, <1>9, PostingIsSnapshot DEF Fails
    <2>2. posting[p].attempts + 1 <= tried[posting[p].d]
      BY <1>9 DEF Fails, CountInv, PostsCountPosts
    <2>3. \A d \in Delivery : row'[d] = row[d]
            \/ /\ d = posting[p].d
               /\ row'[d].attempts = posting[p].attempts + 1
               /\ \/ posting[p].attempts + 1 >= MaxAttempts
                  \/ row'[d].status = row[d].status
      BY <1>0, <1>9, <2>1 DEF Fails, Retried, TypeOK, Row
    <2>4. RowsCountPosts'
      BY <1>9, <2>2, <2>3 DEF Fails, CountInv, RowsCountPosts
    <2>5. DeadWasTried'
      <3> SUFFICES ASSUME NEW d \in Delivery, row'[d].status = "dead",
                          d[2] \notin Blocked
                   PROVE  tried[d] >= MaxAttempts
        BY <1>9 DEF Fails, DeadWasTried
      <3>1. CASE row'[d].status = row[d].status
        BY <3>1 DEF CountInv, DeadWasTried
      <3>2. CASE d = posting[p].d /\ posting[p].attempts + 1 >= MaxAttempts
        BY <1>0, <2>1, <2>2, <3>2, OutboxAssumption DEF TypeOK
      <3> QED BY <2>3, <3>1, <3>2
    <2>6. \A q \in Pump : posting'[q] = NoSnapshot \/ posting'[q] = posting[q]
      BY <1>0, <1>9 DEF Fails, TypeOK
    <2>7. BatchesCountPosts' /\ PostsCountPosts'
      BY <1>9, <2>6 DEF Fails, CountInv, BatchesCountPosts, PostsCountPosts
    <2> QED BY <2>4, <2>5, <2>7
  <1>10. ASSUME NEW p \in Pump, Crash(p) PROVE Counts'
    <2>1. \A q \in Pump : /\ todo'[q] \subseteq todo[q]
                          /\ posting'[q] = NoSnapshot \/ posting'[q] = posting[q]
      BY <1>0, <1>10 DEF Crash, TypeOK
    <2>2. BatchesCountPosts' /\ PostsCountPosts'
      BY <1>10, <2>1 DEF Crash, CountInv, BatchesCountPosts, PostsCountPosts
    <2>3. RowsCountPosts' /\ DeadWasTried'
      BY <1>10 DEF Crash, CountInv, RowsCountPosts, DeadWasTried
    <2> QED BY <2>2, <2>3
  <1>11. ASSUME UNCHANGED vars PROVE Counts'
    BY <1>11, CountsUnchanged DEF vars
  <1>12. Counts'
    BY <1>1, <1>2, <1>3, <1>4, <1>5, <1>6, <1>7, <1>8, <1>9, <1>10, <1>11
    DEF Next, Takes
  <1> QED BY <1>0, <1>12 DEF CountInv

(***************************************************************************)
(* "max-retry then DLQ" for any number of overlapping pumps: a delivery to *)
(* a public host reads dead only after MAX_ATTEMPTS posts of it.           *)
(***************************************************************************)
THEOREM GivenUpLate == Spec => []DeadWasTried
  <1>1. Init => CountInv
    BY InitCountInv
  <1>2. CountInv /\ [Next]_vars => CountInv'
    BY NextCountInv
  <1>3. CountInv => DeadWasTried
    BY DEF CountInv
  <1> QED BY <1>1, <1>2, <1>3, PTL DEF Spec
-----------------------------------------------------------------------------
\* and with nobody at work.
LEMMA InitTurnInv == ASSUME Init PROVE TurnInv
  <1>1. TypeOK
    BY InitTypeOK
  <1>2. \A p \in Pump : Idle(p)
    BY DEF Init, Idle
  <1>3. OnePump /\ HeldOnce /\ HeldPending
    BY <1>2 DEF Idle, OnePump, HeldOnce, HeldPending
  <1>4. AcknowledgedReadsDelivered /\ AcceptedOnce
    BY DEF Init, AcknowledgedReadsDelivered, AcceptedOnce
  <1> QED BY <1>1, <1>3, <1>4 DEF TurnInv

\* What a pump that is not idle holds, nobody else does.
LEMMA OthersAreIdle ==
  ASSUME OnePump, NEW p \in Pump, ~Idle(p), NEW q \in Pump, q # p
  PROVE  todo[q] = {} /\ posting[q] = NoSnapshot
  BY DEF OnePump, Idle

\* A pump takes a row of its batch off, and posts it or not.
LEMMA TakeKeepsTurns ==
  ASSUME TypeOK, OnePump, HeldOnce, NEW p \in Pump, NEW x \in todo[p],
         posting[p] = NoSnapshot, todo' = [todo EXCEPT ![p] = @ \ {x}],
         \/ posting' = posting
         \/ posting' = [posting EXCEPT ![p] = x]
  PROVE  OnePump' /\ HeldOnce'
  <1>1. \A q \in Pump : q # p => /\ todo'[q] = {} /\ posting'[q] = NoSnapshot
    <2>1. ~Idle(p)
      BY DEF Idle
    <2> QED BY <2>1, OthersAreIdle DEF TypeOK
  <1>2. /\ todo'[p] = todo[p] \ {x}
        /\ posting'[p] = NoSnapshot \/ posting'[p] = x
    BY DEF TypeOK
  <1>3. \A y \in todo[p] : y # x => y.d # x.d
    BY DEF HeldOnce
  <1>4. OnePump'
    BY <1>1 DEF OnePump, Idle
  <1>5. \A y, z \in todo'[p] : y.d = z.d => y = z
    BY <1>2 DEF HeldOnce
  <1>6. posting'[p] # NoSnapshot => \A y \in todo'[p] : y.d # posting'[p].d
    BY <1>2, <1>3
  <1> QED BY <1>1, <1>4, <1>5, <1>6 DEF HeldOnce

\* A pump is done with the row it was posting, and perhaps with its batch.
LEMMA DoneKeepsTurns ==
  ASSUME TypeOK, OnePump, HeldOnce, NEW p \in Pump, ~Idle(p),
         posting' = [posting EXCEPT ![p] = NoSnapshot],
         \/ todo' = todo
         \/ todo' = [todo EXCEPT ![p] = {}]
  PROVE  OnePump' /\ HeldOnce'
  <1>1. \A q \in Pump : q # p => /\ todo'[q] = {} /\ posting'[q] = NoSnapshot
    BY OthersAreIdle DEF TypeOK
  <1>2. posting'[p] = NoSnapshot /\ todo'[p] \subseteq todo[p]
    BY DEF TypeOK
  <1>3. OnePump'
    BY <1>1 DEF OnePump, Idle
  <1> QED BY <1>1, <1>2, <1>3 DEF HeldOnce

\* A step that only changes rows nobody holds keeps the rest pending.
LEMMA HeldUntouched ==
  ASSUME HeldPending, UNCHANGED <<todo, posting>>,
         \A d \in Delivery : row[d].status = "pending" => row'[d].status = "pending",
         TypeOK
  PROVE  HeldPending'
  <1>1. \A p \in Pump : \A x \in todo[p] : x.d \in Delivery
    BY DEF TypeOK, Snapshot
  <1>2. \A p \in Pump : posting[p] # NoSnapshot => posting[p].d \in Delivery
    BY PostingIsSnapshot
  <1> QED BY <1>1, <1>2 DEF HeldPending

\* Once pumps have overlapped, that is remembered.
LEMMA OverlapStays == ASSUME [Next]_vars, overlapped PROVE overlapped'
  BY DEF Next, vars, Register, Unregister, Fire, Elapse, Select, Takes, Post,
         Refuse, Delivered, Fails, Crash

\* A step after which no pump has overlapped another keeps the turns.
LEMMA NextTurnInv ==
  ASSUME ~overlapped, ~overlapped', TurnInv, [Next]_vars
  PROVE  TurnInv'
  <1> DEFINE Held == OnePump /\ HeldOnce /\ HeldPending
             Answers == AcknowledgedReadsDelivered /\ AcceptedOnce
  <1> USE DEF history
  <1>0. TypeOK /\ TypeOK' /\ OnePump /\ HeldOnce /\ HeldPending
    BY NextTypeOK DEF TurnInv
  <1>a. \A d \in Delivery : /\ accepted[d] \in Nat /\ unacked[d] \in Nat
                            /\ accepted[d] <= unacked[d] + 1
    BY DEF TurnInv, AcceptedOnce, TypeOK
  <1>b. \A d \in Delivery :
          row[d].status # "delivered" => accepted[d] <= unacked[d]
    BY <1>a DEF TurnInv, AcknowledgedReadsDelivered
  <1>1. ASSUME NEW s \in Sub, Register(s) PROVE Held' /\ Answers'
    BY <1>1
    DEF Register, TurnInv, OnePump, HeldOnce, HeldPending, Idle,
        AcknowledgedReadsDelivered, AcceptedOnce
  <1>2. ASSUME NEW s \in Sub, Unregister(s) PROVE Held' /\ Answers'
    BY <1>2
    DEF Unregister, TurnInv, OnePump, HeldOnce, HeldPending, Idle,
        AcknowledgedReadsDelivered, AcceptedOnce
  <1>3. ASSUME NEW e \in Event, Fire(e) PROVE Held' /\ Answers'
    <2>1. \A d \in Delivery :
            \/ row'[d] = row[d]
            \/ /\ row[d].status = "none"
               /\ row'[d] = [status |-> "pending", attempts |-> 0, due |-> TRUE]
      <3> SUFFICES ASSUME NEW d \in Delivery, row'[d] # row[d]
                   PROVE  /\ row[d].status = "none"
                          /\ row'[d] = [status |-> "pending", attempts |-> 0,
                                        due |-> TRUE]
        OBVIOUS
      <3>1. d[1] = e /\ d[2] \in Sub /\ d = <<d[1], d[2]>>
        BY <1>3 DEF Fire, Delivery
      <3> QED BY <1>3, <3>1 DEF Fire
    <2>2. \A d \in Delivery :
            row[d].status = "pending" => row'[d].status = "pending"
      BY <2>1
    <2>3. Held'
      BY <1>0, <1>3, <2>2, HeldUntouched DEF Fire, OnePump, HeldOnce, Idle
    <2>4. AcknowledgedReadsDelivered'
      BY <1>3, <1>a, <1>b, <2>1 DEF Fire, AcknowledgedReadsDelivered
    <2>5. AcceptedOnce'
      BY <1>3 DEF Fire, TurnInv, AcceptedOnce
    <2> QED BY <2>3, <2>4, <2>5
  <1>4. ASSUME NEW d \in Delivery, Elapse(d) PROVE Held' /\ Answers'
    <2>1. \A c \in Delivery : row'[c].status = row[c].status
      BY <1>0, <1>4 DEF Elapse, TypeOK, Row
    <2>2. Held'
      BY <1>0, <1>4, <2>1, HeldUntouched DEF Elapse, OnePump, HeldOnce, Idle
    <2>3. Answers'
      BY <1>4, <2>1 DEF Elapse, TurnInv, AcknowledgedReadsDelivered, AcceptedOnce
    <2> QED BY <2>2, <2>3
  <1>5. ASSUME NEW p \in Pump, Select(p) PROVE Held' /\ Answers'
    <2>1. PICK batch \in SUBSET {d \in Delivery : Ready(d)} :
            todo' = [todo EXCEPT ![p] =
              {[d |-> d, attempts |-> row[d].attempts] : d \in batch}]
      BY <1>0, <1>5, SelectedAreSnapshots
    <2>2. /\ \A q \in Pump : posting'[q] = NoSnapshot
          /\ \A q \in Pump : q # p => todo'[q] = {}
          /\ todo'[p] = {[d |-> d, attempts |-> row[d].attempts] : d \in batch}
      BY <1>0, <1>5, <2>1 DEF Select, Idle, TypeOK
    <2>3. OnePump'
      BY <2>2 DEF OnePump, Idle
    <2>4. HeldOnce'
      <3>1. \A x, y \in todo'[p] : x.d = y.d => x = y
        BY <2>2
      <3> QED BY <2>2, <3>1 DEF HeldOnce
    <2>5. HeldPending'
      <3>1. \A x \in todo'[p] : row'[x.d].status = "pending"
        BY <1>5, <2>2 DEF Select, Ready
      <3> QED BY <2>2, <3>1 DEF HeldPending
    <2>6. Answers'
      BY <1>5 DEF Select, TurnInv, AcknowledgedReadsDelivered, AcceptedOnce
    <2> QED BY <2>3, <2>4, <2>5, <2>6
  <1>6. ASSUME NEW p \in Pump, NEW x \in todo[p], Post(p, x)
        PROVE  Held' /\ Answers'
    <2>1. OnePump' /\ HeldOnce'
      BY <1>0, <1>6, TakeKeepsTurns DEF Post
    <2>2. HeldPending'
      <3>1. \A q \in Pump : /\ todo'[q] \subseteq todo[q]
                            /\ \/ posting'[q] = posting[q]
                               \/ posting'[q] = x
        BY <1>0, <1>6 DEF Post, TypeOK
      <3>2. row[x.d].status = "pending" /\ row' = row
        BY <1>0, <1>6 DEF Post, HeldPending
      <3> QED BY <1>0, <3>1, <3>2 DEF HeldPending
    <2>3. Answers'
      BY <1>6 DEF Post, TurnInv, AcknowledgedReadsDelivered, AcceptedOnce
    <2> QED BY <2>1, <2>2, <2>3
  <1>7. ASSUME NEW p \in Pump, NEW x \in todo[p], Refuse(p, x)
        PROVE  Held' /\ Answers'
    <2>1. OnePump' /\ HeldOnce'
      BY <1>0, <1>7, TakeKeepsTurns DEF Refuse
    <2>2. x.d \in Delivery /\ row[x.d].status = "pending"
      BY <1>0 DEF TypeOK, Snapshot, HeldPending
    <2>3. \A d \in Delivery : d # x.d => row'[d] = row[d]
      BY <1>0, <1>7, <2>2 DEF Refuse, TypeOK
    <2>4. HeldPending'
      <3>1. ~Idle(p)
        BY DEF Idle
      <3>2. \A q \in Pump : /\ q # p => todo'[q] = {}
                            /\ posting'[q] = NoSnapshot
        BY <1>0, <1>7, <3>1, OthersAreIdle DEF Refuse, TypeOK
      <3>3. \A y \in todo'[p] : y \in todo[p] /\ y.d # x.d /\ y.d \in Delivery
        BY <1>0, <1>7 DEF Refuse, TypeOK, Snapshot, HeldOnce
      <3> QED BY <1>0, <2>3, <3>2, <3>3 DEF HeldPending
    <2>5. AcknowledgedReadsDelivered'
      <3>1. accepted[x.d] <= unacked[x.d]
        BY <1>b, <2>2
      <3> QED BY <1>7, <1>a, <2>3, <3>1
              DEF Refuse, TurnInv, AcknowledgedReadsDelivered
    <2>6. AcceptedOnce'
      BY <1>7 DEF Refuse, TurnInv, AcceptedOnce
    <2> QED BY <2>1, <2>4, <2>5, <2>6
  <1>8. ASSUME NEW p \in Pump, Delivered(p) PROVE Held' /\ Answers'
    <2> DEFINE d == posting[p].d
    <2>1. ~Idle(p) /\ d \in Delivery
      BY <1>0, <1>8, PostingIsSnapshot DEF Delivered, Idle
    <2>2. OnePump' /\ HeldOnce'
      BY <1>0, <1>8, <2>1, DoneKeepsTurns DEF Delivered
    <2>3. /\ row'[d].status = "delivered"
          /\ accepted'[d] = accepted[d] + 1 /\ unacked' = unacked
          /\ \A c \in Delivery : c # d => /\ row'[c] = row[c]
                                          /\ accepted'[c] = accepted[c]
      BY <1>0, <1>8, <2>1 DEF Delivered, TypeOK, Row
    <2>4. accepted[d] <= unacked[d]
      BY <1>0, <1>8, <1>b, <2>1 DEF Delivered, HeldPending
    <2>5. HeldPending'
      <3>1. \A q \in Pump : /\ q # p => todo'[q] = {}
                            /\ posting'[q] = NoSnapshot
        BY <1>0, <1>8, <2>1, OthersAreIdle DEF Delivered, TypeOK
      <3>2. \A y \in todo'[p] : y \in todo[p] /\ y.d # d /\ y.d \in Delivery
        BY <1>0, <1>8 DEF Delivered, TypeOK, Snapshot, HeldOnce
      <3> QED BY <1>0, <2>3, <3>1, <3>2 DEF HeldPending
    <2>6. AcknowledgedReadsDelivered'
      BY <2>3 DEF TurnInv, AcknowledgedReadsDelivered
    <2>7. AcceptedOnce'
      BY <1>a, <2>3, <2>4 DEF AcceptedOnce
    <2> QED BY <2>2, <2>5, <2>6, <2>7
  <1>9. ASSUME NEW p \in Pump, Fails(p) PROVE Held' /\ Answers'
    <2> DEFINE d == posting[p].d
    <2>1. ~Idle(p) /\ d \in Delivery
      BY <1>0, <1>9, PostingIsSnapshot DEF Fails, Idle
    <2>2. OnePump' /\ HeldOnce'
      BY <1>0, <1>9, <2>1, DoneKeepsTurns DEF Fails
    <2>3. \A c \in Delivery : c # d => /\ row'[c] = row[c]
                                       /\ accepted'[c] = accepted[c]
                                       /\ unacked'[c] = unacked[c]
      BY <1>0, <1>9, <2>1 DEF Fails, MaybeAccepted, TypeOK
    <2>4. \/ accepted'[d] = accepted[d] /\ unacked'[d] = unacked[d]
          \/ accepted'[d] = accepted[d] + 1 /\ unacked'[d] = unacked[d] + 1
      BY <1>0, <1>9, <2>1 DEF Fails, MaybeAccepted, TypeOK
    <2>5. accepted[d] <= unacked[d]
      BY <1>0, <1>9, <1>b, <2>1 DEF Fails, HeldPending
    <2>6. HeldPending'
      <3>1. \A q \in Pump : /\ q # p => todo'[q] = {}
                            /\ posting'[q] = NoSnapshot
        BY <1>0, <1>9, <2>1, OthersAreIdle DEF Fails, TypeOK
      <3>2. \A y \in todo'[p] : y \in todo[p] /\ y.d # d /\ y.d \in Delivery
        BY <1>0, <1>9 DEF Fails, TypeOK, Snapshot, HeldOnce
      <3> QED BY <1>0, <2>3, <3>1, <3>2 DEF HeldPending
    <2>7. AcknowledgedReadsDelivered'
      BY <1>a, <2>3, <2>4, <2>5 DEF TurnInv, AcknowledgedReadsDelivered
    <2>8. AcceptedOnce'
      BY <1>a, <2>3, <2>4 DEF AcceptedOnce
    <2> QED BY <2>2, <2>6, <2>7, <2>8
  <1>10. ASSUME NEW p \in Pump, Crash(p) PROVE Held' /\ Answers'
    <2>1. OnePump' /\ HeldOnce'
      BY <1>0, <1>10, DoneKeepsTurns DEF Crash
    <2>2. \A q \in Pump : todo'[q] = {} /\ posting'[q] = NoSnapshot
      BY <1>0, <1>10, OthersAreIdle DEF Crash, TypeOK
    <2>3. HeldPending'
      BY <2>2 DEF HeldPending
    <2>4. row' = row /\ \A d \in Delivery :
            \/ accepted'[d] = accepted[d] /\ unacked'[d] = unacked[d]
            \/ /\ accepted'[d] = accepted[d] + 1
               /\ unacked'[d] = unacked[d] + 1
      BY <1>0, <1>10 DEF Crash, MaybeAccepted, TypeOK
    <2>5. AcknowledgedReadsDelivered'
      BY <1>a, <2>4 DEF TurnInv, AcknowledgedReadsDelivered
    <2>6. AcceptedOnce'
      BY <1>a, <2>4 DEF AcceptedOnce
    <2> QED BY <2>1, <2>3, <2>5, <2>6
  <1>11. ASSUME UNCHANGED vars PROVE Held' /\ Answers'
    BY <1>11
    DEF vars, TurnInv, OnePump, HeldOnce, HeldPending, Idle,
        AcknowledgedReadsDelivered, AcceptedOnce
  <1>12. Held' /\ Answers'
    BY <1>1, <1>2, <1>3, <1>4, <1>5, <1>6, <1>7, <1>8, <1>9, <1>10, <1>11
    DEF Next, Takes
  <1> QED BY <1>0, <1>12 DEF TurnInv

(***************************************************************************)
(* While pumps take turns, each delivery is accepted at most once more     *)
(* than answers to it were lost: pumpOnce() repeats nothing it was told    *)
(* arrived, whatever crashes.                                              *)
(***************************************************************************)
THEOREM RepeatsOnlyUnacknowledged == Spec => []AcceptedOnce
  <1> DEFINE Inv == TypeOK /\ (~overlapped => TurnInv)
  <1>1. Init => Inv
    BY InitTurnInv, InitTypeOK
  <1>2. Inv /\ [Next]_vars => Inv'
    BY NextTypeOK, NextTurnInv, OverlapStays
  <1>3. Inv => AcceptedOnce
    BY DEF TurnInv, AcceptedOnce
  <1> QED BY <1>1, <1>2, <1>3, PTL DEF Spec
=============================================================================
