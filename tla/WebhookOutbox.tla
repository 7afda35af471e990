---------------------------- MODULE WebhookOutbox ----------------------------
(***************************************************************************)
(* The webhook outbox (src/src/storage/webhooks.ts) and its pumps: fire()  *)
(* stores one delivery per matching subscription, and pumpOnce() posts     *)
(* what is due, retries with back-off and gives up after MAX_ATTEMPTS.     *)
(*                                                                         *)
(* The MCP server starts a pump every two seconds whether or not the last  *)
(* one is done (a post may hang for ten), and every server process pumps   *)
(* the same database: pumps overlap, each with its own snapshot of rows.   *)
(***************************************************************************)
EXTENDS Integers, FiniteSets, FiniteSetsExt

CONSTANTS
  Event,        \* events that can be fired
  Sub,          \* ids subscriptions can get
  Matches,      \* <<event, subscription>>: topic and tenant match
  Blocked,      \* subscriptions whose host the delivery filter refuses
  Pump,         \* calls of pumpOnce() that can be in progress
  None,         \* no delivery
  BatchSize,    \* batchSize
  MaxAttempts,  \* MAX_ATTEMPTS
  MaxCrashes    \* bound: crashes over the whole behaviour

Delivery == Event \X Sub

ASSUME OutboxAssumption ==
  /\ Matches \subseteq Delivery
  /\ Blocked \subseteq Sub
  /\ BatchSize \in Nat \ {0}
  /\ MaxAttempts \in Nat \ {0}
  /\ MaxCrashes \in Nat

VARIABLES
  subs,      \* rows of the subscriptions table
  removed,   \* subscriptions unregister() was called for
  row,       \* the deliveries table
  todo,      \* the rest of each pump's batch: rows as they were selected
  posting,   \* the row each pump is posting, as it was selected
  tried,     \* history: posts of each delivery
  accepted,  \* history: posts its receiver accepted
  unacked,   \* history: those whose 2xx answer never arrived
  overlapped, \* history: a pump started while another one was at work
  crashes    \* crashes so far

history == <<tried, accepted, unacked>>
vars == <<subs, removed, row, todo, posting, history, overlapped, crashes>>

Row == [status : {"none", "pending", "delivered", "dead"},
        attempts : Nat, due : BOOLEAN]

NoRow == [status |-> "none", attempts |-> 0, due |-> FALSE]

\* A row as a pump read it: the delivery and its attempts.
Snapshot == [d : Delivery, attempts : Nat]

NoSnapshot == [d |-> None, attempts |-> 0]

TypeOK ==
  /\ subs \subseteq Sub
  /\ removed \subseteq Sub
  /\ row \in [Delivery -> Row]
  /\ todo \in [Pump -> SUBSET Snapshot]
  /\ posting \in [Pump -> Snapshot \cup {NoSnapshot}]
  /\ tried \in [Delivery -> Nat]
  /\ accepted \in [Delivery -> Nat]
  /\ unacked \in [Delivery -> Nat]
  /\ overlapped \in BOOLEAN
  /\ crashes \in Nat

Init ==
  /\ subs = {}
  /\ removed = {}
  /\ row = [d \in Delivery |-> NoRow]
  /\ todo = [p \in Pump |-> {}]
  /\ posting = [p \in Pump |-> NoSnapshot]
  /\ tried = [d \in Delivery |-> 0]
  /\ accepted = [d \in Delivery |-> 0]
  /\ unacked = [d \in Delivery |-> 0]
  /\ overlapped = FALSE
  /\ crashes = 0
-----------------------------------------------------------------------------
Register(s) ==
  /\ s \notin subs \cup removed
  /\ subs' = subs \cup {s}
  /\ UNCHANGED <<removed, row, todo, posting, history, overlapped, crashes>>

\* unregister(): the foreign key of the deliveries makes the DELETE throw
\* once anything was ever enqueued for the subscription.
Unregister(s) ==
  /\ s \in subs \ removed
  /\ removed' = removed \cup {s}
  /\ subs' = IF \E e \in Event : row[<<e, s>>].status # "none"
               THEN subs ELSE subs \ {s}
  /\ UNCHANGED <<row, todo, posting, history, overlapped, crashes>>

\* fire(): a row, due at once, for every matching subscription, in one
\* transaction.
Fire(e) ==
  LET enqueued == {s \in subs : <<e, s>> \in Matches}
  IN  /\ enqueued # {}
      /\ \A s \in Sub : row[<<e, s>>].status = "none"
      /\ row' = [d \in Delivery |->
           IF d[1] = e /\ d[2] \in enqueued
             THEN [status |-> "pending", attempts |-> 0, due |-> TRUE]
             ELSE row[d]]
      /\ UNCHANGED <<subs, removed, todo, posting, history, overlapped,
                     crashes>>

\* next_attempt_at passes.
Elapse(d) ==
  /\ row[d].status = "pending"
  /\ ~row[d].due
  /\ row' = [row EXCEPT ![d].due = TRUE]
  /\ UNCHANGED <<subs, removed, todo, posting, history, overlapped, crashes>>
-----------------------------------------------------------------------------
Idle(p) == todo[p] = {} /\ posting[p] = NoSnapshot

\* Slip: a row that failed before is not selected again.
ReadyFirstTries(d) ==
  row[d].status = "pending" /\ row[d].due /\ row[d].attempts = 0

\* Slip: the selection forgets the status.
ReadyAnyStatus(d) == row[d].due

Ready(d) == row[d].status = "pending" /\ row[d].due

\* The SELECT of pumpOnce(): up to batchSize due rows (oldest first in the
\* code, any here), joined with their subscriptions.
Select(p) ==
  LET ready == {d \in Delivery : Ready(d) /\ d[2] \in subs}
      count == IF Cardinality(ready) < BatchSize
                 THEN Cardinality(ready) ELSE BatchSize
  IN  /\ Idle(p)
      /\ overlapped' = (overlapped \/ \E q \in Pump : ~Idle(q))
      /\ ready # {}
      /\ \E batch \in kSubset(count, ready) :
           todo' = [todo EXCEPT ![p] =
             {[d |-> d, attempts |-> row[d].attempts] : d \in batch}]
      /\ UNCHANGED <<subs, removed, row, posting, history, crashes>>

\* The next row of the batch is posted, whatever became of it meanwhile.
Post(p, x) ==
  /\ posting[p] = NoSnapshot
  /\ x \in todo[p]
  /\ x.d[2] \notin Blocked
  /\ todo' = [todo EXCEPT ![p] = @ \ {x}]
  /\ posting' = [posting EXCEPT ![p] = x]
  /\ tried' = [tried EXCEPT ![x.d] = @ + 1]
  /\ UNCHANGED <<subs, removed, row, accepted, unacked, overlapped, crashes>>

\* Slip: one attempt too few before the delivery is given up.
RetriedEarly(d, attempts) ==
  IF attempts + 1 >= MaxAttempts
    THEN [row[d] EXCEPT !.status = "dead", !.attempts = attempts]
    ELSE [row[d] EXCEPT !.attempts = attempts, !.due = FALSE]

\* Slip: a failed post leaves a status nobody selects.
RetriedAsFailed(d, attempts) ==
  IF attempts >= MaxAttempts
    THEN [row[d] EXCEPT !.status = "dead", !.attempts = attempts]
    ELSE [row[d] EXCEPT !.status = "failed", !.attempts = attempts]

\* _scheduleRetry(): dead after MAX_ATTEMPTS, else due again later.  The
\* status is not looked at.
Retried(d, attempts) ==
  IF attempts >= MaxAttempts
    THEN [row[d] EXCEPT !.status = "dead", !.attempts = attempts]
    ELSE [row[d] EXCEPT !.attempts = attempts, !.due = FALSE]

\* A private or internal host is given up without a post.
Refuse(p, x) ==
  /\ posting[p] = NoSnapshot
  /\ x \in todo[p]
  /\ x.d[2] \in Blocked
  /\ todo' = [todo EXCEPT ![p] = @ \ {x}]
  /\ row' = [row EXCEPT ![x.d] = Retried(x.d, MaxAttempts)]
  /\ UNCHANGED <<subs, removed, posting, history, overlapped, crashes>>

\* A 2xx answer.
Delivered(p) ==
  LET d == posting[p].d
  IN  /\ posting[p] # NoSnapshot
      /\ accepted' = [accepted EXCEPT ![d] = @ + 1]
      /\ row' = [row EXCEPT ![d].status = "delivered",
                            ![d].attempts = posting[p].attempts + 1]
      /\ posting' = [posting EXCEPT ![p] = NoSnapshot]
      /\ UNCHANGED <<subs, removed, todo, tried, unacked, overlapped, crashes>>

\* The receiver may have accepted the post, but no 2xx came back.
MaybeAccepted(d) ==
  \/ UNCHANGED <<accepted, unacked>>
  \/ /\ accepted' = [accepted EXCEPT ![d] = @ + 1]
     /\ unacked' = [unacked EXCEPT ![d] = @ + 1]

\* Another answer, a network error, or the ten-second abort.
Fails(p) ==
  LET d == posting[p].d
  IN  /\ posting[p] # NoSnapshot
      /\ MaybeAccepted(d)
      /\ row' = [row EXCEPT ![d] = Retried(d, posting[p].attempts + 1)]
      /\ posting' = [posting EXCEPT ![p] = NoSnapshot]
      /\ UNCHANGED <<subs, removed, todo, tried, overlapped, crashes>>

\* The process dies in the middle of a pump; the rows stay as they are.
Crash(p) ==
  /\ ~Idle(p)
  /\ crashes < MaxCrashes
  /\ crashes' = crashes + 1
  /\ IF posting[p] = NoSnapshot THEN UNCHANGED <<accepted, unacked>>
     ELSE MaybeAccepted(posting[p].d)
  /\ todo' = [todo EXCEPT ![p] = {}]
  /\ posting' = [posting EXCEPT ![p] = NoSnapshot]
  /\ UNCHANGED <<subs, removed, row, tried, overlapped>>

Takes(p) == \E x \in todo[p] : Post(p, x) \/ Refuse(p, x)

Next ==
  \/ \E s \in Sub : Register(s) \/ Unregister(s)
  \/ \E e \in Event : Fire(e)
  \/ \E d \in Delivery : Elapse(d)
  \/ \E p \in Pump : \/ Select(p) \/ Takes(p)
                     \/ Delivered(p) \/ Fails(p) \/ Crash(p)

Spec == Init /\ [][Next]_vars

(***************************************************************************)
(* Time passes, a server with a pump timer keeps running or is restarted,  *)
(* and a post is answered or aborted.  No receiver has to accept anything. *)
(***************************************************************************)
Fairness ==
  /\ \A d \in Delivery : WF_vars(Elapse(d))
  /\ \A p \in Pump : /\ WF_vars(Select(p))
                     /\ WF_vars(Takes(p))
                     /\ WF_vars(Delivered(p) \/ Fails(p))

FairSpec == Spec /\ Fairness
-----------------------------------------------------------------------------
(***************************************************************************)
(* "max-retry then DLQ": a delivery to a public host is given up only      *)
(* after MAX_ATTEMPTS posts, even when overlapping pumps write back the    *)
(* attempts of stale snapshots.                                            *)
(***************************************************************************)
DeadWasTried ==
  \A d \in Delivery : row[d].status = "dead" /\ d[2] \notin Blocked
                        => tried[d] >= MaxAttempts

(***************************************************************************)
(* As long as pumps took turns, a receiver sees a delivery again only      *)
(* because its answer to an earlier one was lost, crashes included.        *)
(***************************************************************************)
AcceptedOnce ==
  ~overlapped => \A d \in Delivery : accepted[d] <= unacked[d] + 1

(***************************************************************************)
(* Every enqueued delivery is delivered or given up in the end, through    *)
(* crashes and overlapping pumps: no row stays pending for ever.           *)
(***************************************************************************)
DeliveriesEnd ==
  \A d \in Delivery : row[d].status = "pending" ~> row[d].status # "pending"
-----------------------------------------------------------------------------
(***************************************************************************)
(* pumpOnce(): "On 2xx -> mark delivered": a delivery some post of which   *)
(* was answered with 2xx reads delivered.                                  *)
(***************************************************************************)
AcknowledgedReadsDelivered ==
  \A d \in Delivery : accepted[d] > unacked[d] => row[d].status = "delivered"
=============================================================================
