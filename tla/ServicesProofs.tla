--------------------------- MODULE ServicesProofs ---------------------------
(***************************************************************************)
(* The services around the engine, proved for every number of accounts,    *)
(* sessions, keys, memories, calls, checkouts, holds, charges and tenants: *)
(* the console's store, accounts and provisioning, the hosted brain, the   *)
(* storage adapters, the checkout, the remote clients, the payment rails,  *)
(* the deals between agents, the gateway, the audited model calls, the     *)
(* fraud guard, the adaptive engine, recall and the integrity tree.        *)
(* Each section takes one module, gives the invariant that its actions     *)
(* keep, and concludes the promises of that module.  The last section says *)
(* of the services together what the run of MCServices checks.             *)
(***************************************************************************)
EXTENDS Services, Sums, Sequences

\* A set whose elements are all the same has at most one.
LEMMA AtMostOne ==
  ASSUME NEW S, \A x, y \in S : x = y
  PROVE  Cardinality(S) <= 1
<1>1. CASE S = {}
  <2>1. Cardinality({}) = 0
    BY FS_EmptySet
  <2>2. QED
    BY <1>1, <2>1
<1>2. CASE S # {}
  <2>1. PICK x \in S : TRUE
    BY <1>2
  <2>2. S = {x}
    OBVIOUS
  <2>3. Cardinality({x}) = 1
    BY FS_Singleton
  <2>4. QED
    BY <2>2, <2>3
<1>3. QED
  BY <1>1, <1>2

-----------------------------------------------------------------------------
(* The console's store (ConsoleStore).                                     *)
(* The timer, the queue of flushes and the snapshot being written share    *)
(* the duty to write what memory holds.                                    *)

\* The timer runs exactly when there is something to write.
Armed == saveTimer \in BOOLEAN /\ saveDirty \in BOOLEAN /\ (saveTimer <=> saveDirty)

\* A snapshot is written by the flush at the head of the queue.  When no other flush is
\* queued and the timer is off, it is what memory holds.
WriteIsCurrent ==
    St!NoWrite # writing =>
        /\ up /\ flushes > 0 /\ driver = "postgres"
        /\ ~saveTimer /\ flushes = 1 => writing = St!Snapshot

\* What the store holds, or is about to, is a snapshot.
Whole(snapshot) == snapshot = [value |-> snapshot.value, audit |-> snapshot.audit]

StoreInv ==
    /\ Armed /\ WriteIsCurrent /\ St!SaveScheduled
    /\ flushes \in Nat /\ failed \in BOOLEAN /\ Whole(saved) /\ Whole(writing)

\* Initially the store is saved, and nothing is being written.
LEMMA StoreInit == ASSUME St!Init PROVE StoreInv
<1>1. value = 0 /\ saved = [value |-> 0, audit |-> {}] /\ writing = [value |-> -1, audit |-> {}]
  BY DEF St!Init, St!InitWith, St!NoWrite
<1>2. ring = <<>> /\ flushes = 0 /\ ~failed /\ failed \in BOOLEAN /\ Armed
  BY DEF St!Init, St!InitWith, Armed
<1>3. St!Events = {}
  BY <1>2 DEF St!Events
<1>4. Whole(saved) /\ Whole(writing)
  BY <1>1 DEF Whole
<1>5. QED
  BY <1>1, <1>2, <1>3, <1>4 DEF StoreInv, WriteIsCurrent, St!SaveScheduled, St!NoWrite

\* What a write leaves in the store has what the snapshot has.
LEMMA StoredIs ==
  ASSUME NEW snapshot, Whole(snapshot), Whole(saved)
  PROVE  /\ Whole(St!StoreWith(snapshot))
         /\ St!StoreWith(snapshot).value = snapshot.value
         /\ snapshot.audit \subseteq St!StoreWith(snapshot).audit
<1>1. CASE driver = "postgres"
  <2>1. St!StoreWith(snapshot) = [value |-> snapshot.value, audit |-> snapshot.audit \cup saved.audit]
    BY <1>1 DEF St!StoreWith, St!Reconciled, Whole
  <2>2. QED
    BY <2>1 DEF Whole
<1>2. CASE driver # "postgres"
  BY <1>2 DEF St!StoreWith
<1>3. QED
  BY <1>1, <1>2

\* Each step of the store keeps a save scheduled for what is not saved.
LEMMA StoreStep == ASSUME StoreInv, [St!Next]_(St!vars) PROVE StoreInv'
<1> USE DEF StoreInv, Armed, WriteIsCurrent, St!SaveScheduled
<1>1. CASE St!Change
  BY <1>1 DEF St!Change, St!Events, St!Snapshot
<1>2. CASE St!TimerFires
  <2>1. St!Events' = St!Events /\ St!Snapshot' = St!Snapshot
    BY <1>2 DEF St!TimerFires, St!Events, St!Snapshot
  <2>2. saveDirty /\ flushes' = flushes + 1 /\ ~saveTimer' /\ ~saveDirty'
    BY <1>2 DEF St!TimerFires
  <2>3. writing' = writing /\ Whole(saved') /\ Whole(writing') /\ failed' = failed /\ Armed'
       /\ driver' = driver /\ (up' <=> up)
    BY <1>2, <2>2 DEF St!TimerFires
  <2>4. WriteIsCurrent'
    BY <2>1, <2>2, <2>3 DEF St!NoWrite
  <2>5. QED
    BY <2>2, <2>3, <2>4
<1>3. CASE St!BeginTransaction
  BY <1>3 DEF St!BeginTransaction, St!Events, St!Snapshot, Whole
<1>4. CASE St!FinalFlush
  <2>1. writing = St!NoWrite
    BY <1>4 DEF St!FinalFlush
  <2>2. St!NoWrite' = St!NoWrite
    BY DEF St!NoWrite
  <2>3. WriteIsCurrent'
    BY <1>4, <2>1, <2>2 DEF St!FinalFlush
  <2>4. Armed'
    BY <1>4 DEF St!FinalFlush
  <2>5. flushes' = 1
    BY <1>4 DEF St!FinalFlush
  <2>6. St!SaveScheduled'
    BY <2>5
  <2>7. flushes' \in Nat /\ failed' \in BOOLEAN /\ Whole(saved') /\ Whole(writing')
    BY <1>4 DEF St!FinalFlush
  <2>8. QED
    BY <2>3, <2>4, <2>6, <2>7
<1>5. CASE St!Stop
  <2>1. Whole(writing')
    BY <1>5 DEF St!Stop, Whole, St!NoWrite
  <2>2. QED
    BY <1>5, <2>1 DEF St!Stop, St!NoWrite
<1>6. CASE St!Restart
  <2>1. St!Events' \subseteq saved.audit
    BY <1>6 DEF St!Restart, St!Loaded, St!Events
  <2>2. QED
    BY <1>6, <2>1 DEF St!Restart, St!Snapshot
<1>7. ASSUME NEW ok \in BOOLEAN, St!FlushSync(ok) PROVE StoreInv'
  <2>1. Whole(St!Snapshot) /\ St!Snapshot.value = value /\ St!Snapshot.audit = St!Events
    BY DEF St!Snapshot, Whole
  <2>2. St!Events' = St!Events
    BY <1>7 DEF St!FlushSync, St!Events
  <2>3. Whole(saved')
    BY <1>7, <2>1, StoredIs DEF St!FlushSync
  <2>4. ~ok => failed'
    BY <1>7 DEF St!FlushSync
  <2>5. ok => saved'.value = value /\ St!Events \subseteq saved'.audit
    BY <1>7, <2>1, StoredIs DEF St!FlushSync
  <2>6. QED
    BY <1>7, <2>2, <2>3, <2>4, <2>5 DEF St!FlushSync, St!Snapshot
<1>8. ASSUME NEW ok \in BOOLEAN, St!EndTransaction(ok) PROVE StoreInv'
  <2>1. St!Events' = St!Events
    BY <1>8 DEF St!EndTransaction, St!Events
  <2>2. Whole(saved') /\ Whole(writing')
    BY <1>8, StoredIs DEF St!EndTransaction, Whole, St!NoWrite
  <2>3. ~ok => failed'
    BY <1>8 DEF St!EndTransaction
  <2>4. flushes = 1 /\ ~saveTimer => writing.value = value /\ writing.audit = St!Events
    BY <1>8 DEF St!EndTransaction, St!Snapshot
  <2>5. ok => saved'.value = writing.value /\ writing.audit \subseteq saved'.audit
    BY <1>8, StoredIs DEF St!EndTransaction
  <2>6. QED
    BY <1>8, <2>1, <2>2, <2>3, <2>4, <2>5 DEF St!EndTransaction, St!Snapshot
<1>9. CASE UNCHANGED St!vars
  BY <1>9 DEF St!vars, St!Events, St!Snapshot
<1>10. QED
  BY <1>1, <1>2, <1>3, <1>4, <1>5, <1>6, <1>7, <1>8, <1>9 DEF St!Next

\* While the server runs, a change that the store lacks is being written, is going to
\* be, or the last write failed: whatever the driver, and whatever is changed during a
\* write, no debounced save of the console is forgotten.
THEOREM SavesAreScheduled == St!Spec => []St!SaveScheduled
<1>1. StoreInv => St!SaveScheduled
  BY DEF StoreInv
<1>2. QED
  BY <1>1, StoreInit, StoreStep, PTL DEF St!Spec

-----------------------------------------------------------------------------
(* The console's accounts (ConsoleAccounts).                               *)

\* An account that was claimed has a member until it is deleted: claimed by at most one.
ClaimedInv ==
    /\ members \in [Accounts -> [Emails -> Ac!Roles \cup {Ac!None}]]
    /\ claimed \in [Accounts -> SUBSET Emails]
    /\ \A a \in Accounts : claimed[a] # {} => \E e \in Emails : members[a][e] # Ac!None
    /\ \A a \in Accounts : \A e, f \in claimed[a] : e = f

\* Initially nobody has claimed an account.
LEMMA AccountsInit == ASSUME AccountsAssumption, Ac!Init PROVE ClaimedInv /\ Ac!TypeOK
<1>1. ClaimedInv
  BY DEF Ac!Init, ClaimedInv
<1>2. (CHOOSE a \in Accounts : TRUE) \in Accounts /\ (CHOOSE e \in Emails : TRUE) \in Emails
  BY DEF AccountsAssumption
<1>3. Ac!TypeOK
  BY <1>2 DEF Ac!Init, Ac!TypeOK, Ac!Closed, Ac!Roles, AccountsAssumption
<1>4. QED
  BY <1>1, <1>3

\* The role an email has or would get is a role.
LEMMA RoleIsOne ==
  ASSUME ClaimedInv, NEW a \in Accounts, NEW e \in Emails \cup {Ac!None}
  PROVE  Ac!RoleForPrincipal(a, e) \in Ac!Roles
BY DEF Ac!RoleForPrincipal, Ac!MembersOf, Ac!Roles, ClaimedInv

\* A new member displaces nobody.
LEMMA MembershipKept ==
  ASSUME ClaimedInv, NEW a \in Accounts, NEW e \in Emails \cup {Ac!None}
  PROVE  /\ Ac!WithMembership(a, e) \in [Accounts -> [Emails -> Ac!Roles \cup {Ac!None}]]
         /\ \A b \in Accounts, f \in Emails :
              members[b][f] # Ac!None => Ac!WithMembership(a, e)[b][f] # Ac!None
         /\ e # Ac!None => Ac!WithMembership(a, e)[a][e] # Ac!None
<1>1. Ac!RoleForPrincipal(a, e) \in Ac!Roles /\ Ac!RoleForPrincipal(a, e) # Ac!None
  BY RoleIsOne DEF Ac!Roles, Ac!None
<1>2. members \in [Accounts -> [Emails -> Ac!Roles \cup {Ac!None}]]
  BY DEF ClaimedInv
<1>3. CASE e = Ac!None \/ e \in Ac!MembersOf(a)
  BY <1>2, <1>3 DEF Ac!WithMembership, Ac!MembersOf
<1>4. CASE ~(e = Ac!None \/ e \in Ac!MembersOf(a))
  <2>1. Ac!WithMembership(a, e) = [members EXCEPT ![a][e] = Ac!RoleForPrincipal(a, e)]
    BY <1>4 DEF Ac!WithMembership
  <2>2. e \in Emails
    BY <1>4
  <2>3. QED
    BY <1>1, <1>2, <2>1, <2>2
<1>5. QED
  BY <1>3, <1>4

\* Members that are only added to keep the claims.
LEMMA ClaimsKept ==
  ASSUME ClaimedInv, UNCHANGED claimed,
         members' \in [Accounts -> [Emails -> Ac!Roles \cup {Ac!None}]],
         \A b \in Accounts, f \in Emails : members[b][f] # Ac!None => members'[b][f] # Ac!None
  PROVE  ClaimedInv'
BY DEF ClaimedInv

\* Each step of the accounts keeps one claimant of an account at most.
LEMMA AccountsStep ==
  ASSUME AccountsAssumption, ClaimedInv, Ac!TypeOK, [Ac!Next]_(Ac!vars)
  PROVE  ClaimedInv'
<1>1. ASSUME UNCHANGED <<members, claimed>> PROVE ClaimedInv'
  BY <1>1 DEF ClaimedInv
<1>2. ASSUME NEW c \in Challenges, NEW s \in Sessions, Ac!VerifyAuthChallenge(c, s) PROVE ClaimedInv'
  <2> DEFINE a == challenge[c].account
             e == challenge[c].email
  <2>1. a \in Accounts /\ e \in Emails
    BY DEF Ac!TypeOK
  <2>2. /\ Ac!MayUseAccount(a, e)
        /\ members' = Ac!WithMembership(a, e)
        /\ claimed' = [claimed EXCEPT ![a] = IF e \in Ac!MembersOf(a) THEN @ ELSE @ \cup {e}]
    BY <1>2 DEF Ac!VerifyAuthChallenge, Ac!OpenSession
  <2> HIDE DEF a, e
  <2>3. e # Ac!None
    BY <2>1 DEF AccountsAssumption
  <2>4. claimed[a] # {} => e \in Ac!MembersOf(a)
    BY <2>1, <2>2 DEF Ac!MayUseAccount, Ac!MembersOf, ClaimedInv
  <2>5. CASE e \in Ac!MembersOf(a)
    <3>1. claimed' = claimed
      BY <2>1, <2>2, <2>5 DEF ClaimedInv
    <3>2. QED
      BY <2>1, <2>2, <3>1, MembershipKept, ClaimsKept
  <2>6. CASE e \notin Ac!MembersOf(a)
    <3>1. claimed[a] = {} /\ claimed' = [claimed EXCEPT ![a] = {e}]
      BY <2>1, <2>2, <2>4, <2>6 DEF ClaimedInv
    <3>2. members'[a][e] # Ac!None
      BY <2>1, <2>2, <2>3, MembershipKept
    <3>3. members' \in [Accounts -> [Emails -> Ac!Roles \cup {Ac!None}]]
          /\ \A b \in Accounts, f \in Emails : members[b][f] # Ac!None => members'[b][f] # Ac!None
      BY <2>1, <2>2, MembershipKept
    <3>4. claimed' \in [Accounts -> SUBSET Emails] /\ claimed'[a] = {e}
          /\ \A b \in Accounts \ {a} : claimed'[b] = claimed[b]
      BY <2>1, <3>1 DEF ClaimedInv
    <3>5. QED
      <4>1. \A b \in Accounts : claimed'[b] # {} => \E f \in Emails : members'[b][f] # Ac!None
        BY <2>1, <3>2, <3>3, <3>4 DEF ClaimedInv
      <4>2. \A b \in Accounts : \A f, g \in claimed'[b] : f = g
        BY <2>1, <3>4 DEF ClaimedInv
      <4>3. QED
        BY <3>3, <3>4, <4>1, <4>2 DEF ClaimedInv
  <2>7. QED
    BY <2>5, <2>6
<1>3. ASSUME NEW s \in Sessions, NEW a \in Accounts, NEW e \in Emails \cup {Ac!None}, Ac!AppleSignIn(s, a, e)
      PROVE  ClaimedInv'
  BY <1>3, MembershipKept, ClaimsKept DEF Ac!AppleSignIn, Ac!OpenSession
<1>4. ASSUME NEW s \in Sessions, Ac!RefreshRole(s) \/ \E r \in ConsoleRequests : Ac!StartPost(r, s) PROVE ClaimedInv'
  <2>1. session[s].account \in Accounts /\ session[s].email \in Emails \cup {Ac!None}
    BY DEF Ac!TypeOK
  <2>2. members' = Ac!WithMembership(session[s].account, session[s].email) /\ claimed' = claimed
    BY <1>4 DEF Ac!RefreshRole, Ac!StartPost
  <2>3. QED
    BY <2>1, <2>2, MembershipKept, ClaimsKept
<1>5. ASSUME NEW r \in ConsoleRequests, NEW e \in Emails, NEW role \in Ac!Roles \cup {Ac!None}, Ac!FinishPost(r, e, role)
      PROVE  ClaimedInv'
  <2>1. PICK x \in Ac!Roles : members' = [members EXCEPT ![session[request[r]].account][e] = x] /\ claimed' = claimed
    BY <1>5 DEF Ac!FinishPost, Ac!Roles, Ac!None
  <2>2. session[request[r]].account \in Accounts
    BY <1>5 DEF Ac!FinishPost, Ac!TypeOK
  <2>3. x # Ac!None
    BY DEF Ac!Roles, Ac!None
  <2>4. QED
    BY <2>1, <2>2, <2>3, ClaimsKept DEF ClaimedInv
<1>6. ASSUME NEW a \in Accounts, Ac!DeleteAccount(a) PROVE ClaimedInv'
  <2>1. /\ members' = [members EXCEPT ![a] = [e \in Emails |-> Ac!None]]
        /\ claimed' = [claimed EXCEPT ![a] = {}]
    BY <1>6 DEF Ac!DeleteAccount
  <2>2. QED
    BY <2>1 DEF ClaimedInv
<1>7. CASE UNCHANGED Ac!vars
  BY <1>1, <1>7 DEF Ac!vars
<1>8. CASE Ac!Next
  <2>1. ASSUME NEW c \in Challenges, NEW a \in Accounts, NEW e \in Emails, Ac!CreateAuthChallenge(c, a, e)
        PROVE  ClaimedInv'
    BY <2>1, <1>1 DEF Ac!CreateAuthChallenge
  <2>2. ASSUME NEW c \in Challenges, Ac!VerifyRefused(c) \/ Ac!ChallengeExpires(c) PROVE ClaimedInv'
    BY <2>2, <1>1 DEF Ac!VerifyRefused, Ac!ChallengeExpires
  <2>3. ASSUME NEW s \in Sessions, Ac!SessionEnds(s) PROVE ClaimedInv'
    BY <2>3, <1>1 DEF Ac!SessionEnds
  <2>4. ASSUME NEW r \in ConsoleRequests, Ac!PostRefused(r) PROVE ClaimedInv'
    BY <2>4, <1>1 DEF Ac!PostRefused
  <2>5. ASSUME NEW a \in Accounts, Ac!DataArrives(a) PROVE ClaimedInv'
    BY <2>5, <1>1 DEF Ac!DataArrives
  <2>6. QED
    BY <1>2, <1>3, <1>4, <1>5, <1>6, <1>8, <2>1, <2>2, <2>3, <2>4, <2>5 DEF Ac!Next
<1>9. QED
  BY <1>7, <1>8

\* Challenges, sessions and requests keep their types.
LEMMA AccountsTyped ==
  ASSUME AccountsAssumption, ClaimedInv, Ac!TypeOK, ClaimedInv', [Ac!Next]_(Ac!vars)
  PROVE  Ac!TypeOK'
<1> DEFINE C == [state : {"new", "open", "used", "gone"}, account : Accounts,
                 email : Emails, attempts : 0..MaxAttempts]
           S == [state : {"new", "live", "gone"}, account : Accounts,
                 email : Emails \cup {Ac!None}, role : Ac!Roles]
<1>1. challenge \in [Challenges -> C] /\ session \in [Sessions -> S]
  BY DEF Ac!TypeOK
<1>2. \A st \in {"used", "gone"} : Ac!Closed(st) \in C
  BY DEF Ac!Closed, AccountsAssumption
<1>3. ASSUME /\ challenge' \in [Challenges -> C] /\ session' \in [Sessions -> S]
             /\ hasData' \subseteq Accounts /\ request' \in [ConsoleRequests -> Sessions \cup {Ac!None}]
      PROVE  Ac!TypeOK'
  BY <1>3 DEF Ac!TypeOK, ClaimedInv
<1>4. hasData \subseteq Accounts /\ request \in [ConsoleRequests -> Sessions \cup {Ac!None}]
  BY DEF Ac!TypeOK
<1>5. ASSUME NEW s \in Sessions, NEW a \in Accounts, NEW e \in Emails \cup {Ac!None}, Ac!OpenSession(s, a, e)
      PROVE  session' \in [Sessions -> S]
  BY <1>1, <1>5, RoleIsOne DEF Ac!OpenSession
<1>6. \A c \in Challenges : challenge[c].account \in Accounts /\ challenge[c].email \in Emails
  BY <1>1
<1>7. \A s \in Sessions : session[s].account \in Accounts /\ session[s].email \in Emails \cup {Ac!None}
  BY <1>1
<1>8. \A s \in Sessions : session' = [session EXCEPT ![s].role = Ac!RoleForPrincipal(session[s].account, session[s].email)]
        => session' \in [Sessions -> S]
  BY <1>1, <1>7, RoleIsOne
<1>9. ASSUME NEW c \in Challenges, NEW a \in Accounts, NEW e \in Emails, Ac!CreateAuthChallenge(c, a, e)
      PROVE  challenge' \in [Challenges -> C]
  <2>1. [state |-> "open", account |-> a, email |-> e, attempts |-> 0] \in C
    BY DEF AccountsAssumption
  <2>2. QED
    BY <1>1, <1>9, <2>1 DEF Ac!CreateAuthChallenge
<1>10. ASSUME NEW c \in Challenges, Ac!VerifyRefused(c) PROVE challenge' \in [Challenges -> C]
  <2>1. challenge[c] \in C /\ challenge[c].attempts < MaxAttempts
    BY <1>1, <1>10 DEF Ac!VerifyRefused, Ac!MayVerify
  <2>2. [challenge[c] EXCEPT !.attempts = @ + 1] \in C
    BY <2>1 DEF AccountsAssumption
  <2>3. challenge' = [challenge EXCEPT ![c] = [challenge[c] EXCEPT !.attempts = @ + 1]]
    BY <1>1, <1>10 DEF Ac!VerifyRefused
  <2>4. QED
    BY <1>1, <2>2, <2>3
<1>11. ASSUME NEW s \in Sessions, Ac!SessionEnds(s) PROVE session' \in [Sessions -> S]
  BY <1>1, <1>11 DEF Ac!SessionEnds
<1>12. ASSUME NEW a \in Accounts, Ac!DeleteAccount(a)
       PROVE  challenge' \in [Challenges -> C] /\ session' \in [Sessions -> S]
  BY <1>1, <1>2, <1>12 DEF Ac!DeleteAccount
<1> HIDE DEF C, S
<1>13. CASE UNCHANGED Ac!vars
  BY <1>1, <1>3, <1>4, <1>13 DEF Ac!vars
<1>14. CASE Ac!Next
  <2>1. ASSUME NEW c \in Challenges, NEW a \in Accounts, NEW e \in Emails, Ac!CreateAuthChallenge(c, a, e)
        PROVE  Ac!TypeOK'
    BY <2>1, <1>1, <1>4, <1>3, <1>9 DEF Ac!CreateAuthChallenge
  <2>2. ASSUME NEW c \in Challenges, Ac!VerifyRefused(c) \/ Ac!ChallengeExpires(c) PROVE Ac!TypeOK'
    BY <2>2, <1>1, <1>2, <1>3, <1>4, <1>10 DEF Ac!VerifyRefused, Ac!ChallengeExpires
  <2>3. ASSUME NEW c \in Challenges, NEW s \in Sessions, Ac!VerifyAuthChallenge(c, s) PROVE Ac!TypeOK'
    BY <2>3, <1>1, <1>2, <1>3, <1>4, <1>5, <1>6 DEF Ac!VerifyAuthChallenge
  <2>4. ASSUME NEW s \in Sessions, NEW a \in Accounts, NEW e \in Emails \cup {Ac!None}, Ac!AppleSignIn(s, a, e)
        PROVE  Ac!TypeOK'
    BY <2>4, <1>1, <1>3, <1>4, <1>5 DEF Ac!AppleSignIn
  <2>5. ASSUME NEW s \in Sessions, Ac!SessionEnds(s) \/ Ac!RefreshRole(s) PROVE Ac!TypeOK'
    BY <2>5, <1>1, <1>3, <1>4, <1>8, <1>11 DEF Ac!SessionEnds, Ac!RefreshRole
  <2>6. ASSUME NEW r \in ConsoleRequests, NEW s \in Sessions, Ac!StartPost(r, s) PROVE Ac!TypeOK'
    BY <2>6, <1>1, <1>3, <1>4, <1>8 DEF Ac!StartPost
  <2>7. ASSUME NEW r \in ConsoleRequests, NEW e \in Emails, NEW role \in Ac!Roles \cup {Ac!None}, Ac!FinishPost(r, e, role)
        PROVE  Ac!TypeOK'
    BY <2>7, <1>1, <1>3, <1>4 DEF Ac!FinishPost
  <2>8. ASSUME NEW r \in ConsoleRequests, Ac!PostRefused(r) PROVE Ac!TypeOK'
    BY <2>8, <1>1, <1>3, <1>4 DEF Ac!PostRefused
  <2>9. ASSUME NEW a \in Accounts, Ac!DataArrives(a) PROVE Ac!TypeOK'
    BY <2>9, <1>1, <1>3, <1>4 DEF Ac!DataArrives
  <2>10. ASSUME NEW a \in Accounts, Ac!DeleteAccount(a) PROVE Ac!TypeOK'
    BY <2>10, <1>1, <1>3, <1>4, <1>12 DEF Ac!DeleteAccount
  <2>11. QED
    BY <1>14, <2>1, <2>2, <2>3, <2>4, <2>5, <2>6, <2>7, <2>8, <2>9, <2>10 DEF Ac!Next
<1>15. QED
  BY <1>13, <1>14

\* The module counts as FiniteSets does.
LEMMA AccountsCount == ASSUME NEW S PROVE Ac!Cardinality(S) = Cardinality(S)
BY DEF Ac!Cardinality, Cardinality

\* Of all the emails that hold a code for a brand new account, at most one gets in by
\* its code before the account is deleted: the others must be invited.
THEOREM OneClaims ==
  ASSUME AccountsAssumption
  PROVE  Ac!Spec => [](Ac!TypeOK /\ Ac!ClaimedByOne)
<1>1. ClaimedInv => Ac!ClaimedByOne
  <2> SUFFICES ASSUME ClaimedInv, NEW a \in Accounts PROVE Cardinality(claimed[a]) <= 1
    BY AccountsCount DEF Ac!ClaimedByOne
  <2>1. QED
    BY AtMostOne DEF ClaimedInv
<1>2. ClaimedInv /\ Ac!TypeOK /\ [Ac!Next]_(Ac!vars) => ClaimedInv' /\ Ac!TypeOK'
  BY AccountsStep, AccountsTyped
<1>3. Ac!Init => ClaimedInv /\ Ac!TypeOK
  BY AccountsInit
<1>4. QED
  BY <1>1, <1>2, <1>3, PTL DEF Ac!Spec

-----------------------------------------------------------------------------
(* Provisioning (ConsoleBilling).                                          *)
(* Which key is made is decided in the step that makes it, so at most one  *)
(* active key is a provisioned one.                                        *)

\* An active key that provisioning made.
MadeKey == [state |-> "active", provisioned |-> TRUE]

\* Only one active key is a provisioned one; a cancellation follows a payment, and so
\* does a paid plan; every logged event happened.
BillingInv ==
    /\ key \in [Keys -> [state : {"new", "active", "revoked", "gone"}, provisioned : BOOLEAN]]
    /\ \A j, k \in Keys : key[j] = MadeKey /\ key[k] = MadeKey => j = k
    /\ happened # {} => happened \ Cancels # {}
    /\ plan.name = "pro" => happened \ Cancels # {}

\* Initially no key is made and no plan is bought.
LEMMA BillingInit == ASSUME Bl!Init PROVE BillingInv
BY DEF Bl!Init, Bl!NoPlan, BillingInv, MadeKey

\* A step that leaves keys, plan and payments alone.
LEMMA BillingKept == ASSUME BillingInv, UNCHANGED <<key, plan, happened>> PROVE BillingInv'
BY DEF BillingInv

\* The second half of provisioning makes a key only when none is active.
LEMMA KeysProvisioned ==
  ASSUME BillingInv, NEW k \in Keys, NEW e, Bl!Provisioned(k, e), UNCHANGED happened,
         plan' = plan \/ happened \ Cancels # {} \/ plan'.name # "pro"
  PROVE  BillingInv'
<1>1. /\ key' \in [Keys -> [state : {"new", "active", "revoked", "gone"}, provisioned : BOOLEAN]]
      /\ \A i, j \in Keys : key'[i] = MadeKey /\ key'[j] = MadeKey => i = j
  <2>1. CASE Bl!ActiveKeys = {}
    <3>1. key' = [key EXCEPT ![k] = [state |-> "active", provisioned |-> TRUE]]
      BY <2>1 DEF Bl!Provisioned
    <3>2. \A j \in Keys : key[j] # MadeKey
      BY <2>1 DEF Bl!ActiveKeys, MadeKey
    <3>3. \A j \in Keys \ {k} : key'[j] = key[j]
      BY <3>1 DEF BillingInv
    <3>4. key' \in [Keys -> [state : {"new", "active", "revoked", "gone"}, provisioned : BOOLEAN]]
      BY <3>1 DEF BillingInv
    <3>5. QED
      BY <3>2, <3>3, <3>4
  <2>2. CASE Bl!ActiveKeys # {}
    BY <2>2 DEF Bl!Provisioned, BillingInv
  <2>3. QED
    BY <2>1, <2>2
<1>2. QED
  BY <1>1 DEF BillingInv

\* Either half, with a plan that is paid for or is not a paid one.
LEMMA ProvisionKeeps ==
  ASSUME BillingInv, NEW r \in BillingRequests, NEW k \in Keys, NEW e, NEW p, Bl!Provision(r, k, e, p),
         happened \ Cancels # {} \/ p.name # "pro"
  PROVE  BillingInv'
<1>1. plan' = p /\ UNCHANGED happened
  BY DEF Bl!Provision
<1>2. CASE starter
  <2>1. Bl!Provisioned(k, e)
    BY <1>2 DEF Bl!Provision
  <2>2. QED
    BY <1>1, <2>1, KeysProvisioned
<1>3. CASE ~starter
  <2>1. UNCHANGED key
    BY <1>3 DEF Bl!Provision
  <2>2. QED
    BY <1>1, <2>1 DEF BillingInv
<1>4. QED
  BY <1>2, <1>3

\* Each step of billing keeps one provisioned key, and a payment for every pro plan.
LEMMA BillingStep == ASSUME BillingInv, [Bl!Next]_(Bl!vars) PROVE BillingInv'
<1>1. ASSUME NEW e \in BillingEvents, Bl!StripeReports(e) PROVE BillingInv'
  BY <1>1 DEF Bl!StripeReports, BillingInv
<1>2. ASSUME NEW e \in BillingEvents, Bl!LogForgets(e) PROVE BillingInv'
  BY <1>2, BillingKept DEF Bl!LogForgets
<1>3. ASSUME NEW r \in BillingRequests, NEW k \in Keys, NEW e \in BillingEvents, Bl!DeliverWebhook(r, k, e) PROVE BillingInv'
  <2>1. happened \ Cancels # {}
    BY <1>3 DEF Bl!DeliverWebhook, BillingInv
  <2>2. QED
    BY <1>3, <2>1, ProvisionKeeps DEF Bl!DeliverWebhook
<1>4. ASSUME NEW r \in BillingRequests, NEW k \in Keys, Bl!Embedded(r, k) PROVE BillingInv'
  BY <1>4, KeysProvisioned DEF Bl!Embedded
<1>5. ASSUME NEW r \in BillingRequests, NEW k \in Keys, Bl!ProvisionFree(r, k) PROVE BillingInv'
  <2> DEFINE p == [name |-> IF plan.name = "pro" THEN "pro" ELSE "free", status |-> "active", customer |-> FALSE]
  <2>1. Bl!Provision(r, k, "none", p)
    BY <1>5 DEF Bl!ProvisionFree
  <2>2. happened \ Cancels # {} \/ p.name # "pro"
    BY DEF BillingInv
  <2> HIDE DEF p
  <2>3. QED
    BY <2>1, <2>2, ProvisionKeeps
<1>6. ASSUME NEW r \in BillingRequests, NEW k \in Keys, Bl!StripeAnswers(r, k) PROVE BillingInv'
  <2>1. CASE Bl!CheckoutPaid
    BY <1>6, <2>1, ProvisionKeeps DEF Bl!StripeAnswers, Bl!CheckoutPaid
  <2>2. CASE ~Bl!CheckoutPaid
    BY <1>6, <2>2, BillingKept DEF Bl!StripeAnswers
  <2>3. QED
    BY <2>1, <2>2
<1>7. ASSUME NEW r \in BillingRequests, Bl!EmbeddingFails(r) \/ Bl!AskStripe(r) \/ Bl!StartCharge(r) PROVE BillingInv'
  BY <1>7, BillingKept DEF Bl!EmbeddingFails, Bl!AskStripe, Bl!StartCharge
<1>8. ASSUME NEW r \in BillingRequests, NEW ok \in BOOLEAN, Bl!ChargeEnds(r, ok) PROVE BillingInv'
  BY <1>8, BillingKept DEF Bl!ChargeEnds
<1>9. ASSUME NEW k \in Keys, Bl!CreateApiKey(k) PROVE BillingInv'
  BY <1>9 DEF Bl!CreateApiKey, BillingInv, MadeKey
<1>10. ASSUME NEW k \in Keys, Bl!RevokeApiKey(k) PROVE BillingInv'
  BY <1>10 DEF Bl!RevokeApiKey, BillingInv, MadeKey
<1>11. CASE Bl!DeleteAccount
  BY <1>11 DEF Bl!DeleteAccount, BillingInv, Bl!NoPlan, MadeKey
<1>12. CASE Bl!Mission
  BY <1>12, BillingKept DEF Bl!Mission
<1>13. CASE UNCHANGED Bl!vars
  BY <1>13, BillingKept DEF Bl!vars
<1>14. QED
  BY <1>1, <1>2, <1>3, <1>4, <1>5, <1>6, <1>7, <1>8, <1>9, <1>10, <1>11, <1>12, <1>13 DEF Bl!Next

\* The module counts as FiniteSets does.
LEMMA BillingCount == ASSUME NEW S PROVE Bl!Cardinality(S) = Cardinality(S)
BY DEF Bl!Cardinality, Cardinality

\* However Stripe's deliveries and the account's own requests overlap, with an embedding
\* awaited in between, at most one active key was made by provisioning, and a paid plan
\* follows a paid checkout.
THEOREM OneKeyProvisioned == Bl!Spec => [](Bl!ProvisionsOneKey /\ Bl!PaidPlansArePaid)
<1>1. BillingInv => Bl!ProvisionsOneKey
  <2> SUFFICES ASSUME BillingInv PROVE Bl!ProvisionsOneKey
    OBVIOUS
  <2>1. \A k \in Bl!ActiveKeys : key[k].provisioned => key[k] = MadeKey /\ k \in Keys
    BY DEF BillingInv, Bl!ActiveKeys, MadeKey
  <2>2. \A j, k \in {x \in Bl!ActiveKeys : key[x].provisioned} : j = k
    BY <2>1 DEF BillingInv
  <2>3. Cardinality({x \in Bl!ActiveKeys : key[x].provisioned}) <= 1
    BY <2>2, AtMostOne
  <2>4. QED
    BY <2>3, BillingCount DEF Bl!ProvisionsOneKey
<1>2. BillingInv => Bl!PaidPlansArePaid
  BY DEF BillingInv, Bl!PaidPlansArePaid, Bl!CheckoutPaid
<1>3. QED
  BY <1>1, <1>2, BillingInit, BillingStep, PTL DEF Bl!Spec

-----------------------------------------------------------------------------
(* The hosted brain (HostedBrain).                                         *)
(* The graph is drawn when a memory is stored and kept when it moves, so   *)
(* what a namespace's memories mention is always there.                    *)

\* Memories and graph have their shape, and the graph covers the memories.
BrainInv ==
    /\ memory \in [Memories -> [scope : Br!Scopes, names : SUBSET Names] \cup {Br!NoMemory}]
    /\ entity \in [Br!Scopes -> [Names -> SUBSET Memories]]
    /\ edge \in [Br!Scopes -> [Br!Pairs -> SUBSET Memories]]
    /\ Br!GraphCovers

\* No memory is in no namespace.
LEMMA NowhereIsNoScope == \A s \in Br!Scopes : Br!NoMemory.scope # s
BY DEF Br!Scopes, Br!NoMemory

\* Initially there is no memory, and the graph is empty.
LEMMA BrainInit == ASSUME Br!Init PROVE BrainInv
<1>1. memory = [m \in Memories |-> Br!NoMemory] /\ entity = [s \in Br!Scopes |-> Br!NoEntities]
      /\ edge = [s \in Br!Scopes |-> Br!NoEdges]
  BY DEF Br!Init
<1>2. Br!NoEntities \in [Names -> SUBSET Memories] /\ Br!NoEdges \in [Br!Pairs -> SUBSET Memories]
  BY DEF Br!NoEntities, Br!NoEdges
<1>3. \A s \in Br!Scopes : Br!In(s) = {}
  BY <1>1, NowhereIsNoScope DEF Br!In
<1>4. \A s \in Br!Scopes, p \in Br!Pairs : edge[s][p] = {}
  BY <1>1 DEF Br!NoEdges
<1>5. Br!GraphCovers
  BY <1>3, <1>4 DEF Br!GraphCovers
<1>6. QED
  BY <1>1, <1>2, <1>5 DEF BrainInv

\* The graph covers a namespace.
Covers(s) ==
    /\ \A m \in Br!In(s) : \A n \in memory[m].names : m \in entity[s][n]
    /\ \A m \in Br!In(s), p \in Br!Pairs : p \subseteq memory[m].names => m \in edge[s][p]
    /\ \A p \in Br!Pairs, n \in Names : n \in p => edge[s][p] \subseteq entity[s][n]

\* A namespace whose memories are among those it had, with the graph it had.
LEMMA CoversStill ==
  ASSUME NEW s \in Br!Scopes, BrainInv, entity'[s] = entity[s], edge'[s] = edge[s],
         \A m \in Br!In(s)' : m \in Br!In(s) /\ memory'[m] = memory[m]
  PROVE  Covers(s)'
BY DEF Covers, BrainInv, Br!GraphCovers

\* A namespace without memories and without edges.
LEMMA CoversNothing ==
  ASSUME NEW s \in Br!Scopes, Br!In(s)' = {}, \A p \in Br!Pairs : edge'[s][p] = {}
  PROVE  Covers(s)'
BY DEF Covers

\* A graph covers the memories when each scope's does.
LEMMA CoversAll == ASSUME \A s \in Br!Scopes : Covers(s)' PROVE Br!GraphCovers'
BY DEF Covers, Br!GraphCovers

\* Storing a memory adds it to all its names and pairs.
LEMMA StoreCovers ==
  ASSUME BrainInv, NEW s \in Br!Scopes, NEW m \in Memories, NEW names \in SUBSET Names, Br!StoreBrainMemory(s, m, names)
  PROVE  BrainInv'
<1> DEFINE new == [scope |-> s, names |-> names]
           ent == [n \in Names |-> IF n \in names THEN entity[s][n] \cup {m} ELSE entity[s][n]]
           edg == [p \in Br!Pairs |-> IF p \subseteq names THEN edge[s][p] \cup {m} ELSE edge[s][p]]
<1>1. memory' = [memory EXCEPT ![m] = new]
  BY DEF Br!StoreBrainMemory
<1>2. entity' = [entity EXCEPT ![s] = ent] /\ edge' = [edge EXCEPT ![s] = edg]
  BY DEF Br!StoreBrainMemory, Br!Ingested, BrainInv
<1>3. new \in [scope : Br!Scopes, names : SUBSET Names] /\ new.scope = s /\ new.names = names
  OBVIOUS
<1>4. ent \in [Names -> SUBSET Memories] /\ edg \in [Br!Pairs -> SUBSET Memories]
  BY DEF BrainInv
<1>5. /\ \A n \in Names : ent[n] = IF n \in names THEN entity[s][n] \cup {m} ELSE entity[s][n]
      /\ \A p \in Br!Pairs : edg[p] = IF p \subseteq names THEN edge[s][p] \cup {m} ELSE edge[s][p]
  OBVIOUS
<1> HIDE DEF new, ent, edg
<1>6. /\ memory' \in [Memories -> [scope : Br!Scopes, names : SUBSET Names] \cup {Br!NoMemory}]
      /\ entity' \in [Br!Scopes -> [Names -> SUBSET Memories]]
      /\ edge' \in [Br!Scopes -> [Br!Pairs -> SUBSET Memories]]
  BY <1>1, <1>2, <1>3, <1>4 DEF BrainInv
<1>7. \A x \in Memories \ {m} : memory'[x] = memory[x]
  BY <1>1 DEF BrainInv
<1>8. memory'[m] = new /\ entity'[s] = ent /\ edge'[s] = edg
  BY <1>1, <1>2 DEF BrainInv
<1>9. Covers(s)'
  <2>1. \A x \in Br!In(s)' : x \in Memories /\ (x = m \/ (x \in Br!In(s) /\ memory'[x] = memory[x]))
    BY <1>7 DEF Br!In
  <2>2. ASSUME NEW x \in Br!In(s)', NEW n \in memory'[x].names PROVE x \in entity'[s][n]
    <3>1. n \in Names
      BY <2>1, <1>6 DEF Br!In, Br!NoMemory
    <3>2. CASE x = m
      BY <3>1, <3>2, <1>3, <1>5, <1>8, <2>2
    <3>3. CASE x \in Br!In(s) /\ memory'[x] = memory[x]
      <4>1. x \in entity[s][n]
        BY <2>2, <3>3 DEF BrainInv, Br!GraphCovers
      <4>2. QED
        BY <3>1, <4>1, <1>5, <1>8
    <3>4. QED
      BY <2>1, <3>2, <3>3
  <2>3. ASSUME NEW x \in Br!In(s)', NEW p \in Br!Pairs, p \subseteq memory'[x].names PROVE x \in edge'[s][p]
    <3>1. CASE x = m
      <4>1. p \subseteq names
        BY <2>3, <3>1, <1>3, <1>8
      <4>2. edg[p] = edge[s][p] \cup {m}
        BY <4>1, <1>5
      <4>3. QED
        BY <3>1, <4>2, <1>8
    <3>2. CASE x \in Br!In(s) /\ memory'[x] = memory[x]
      <4>1. x \in edge[s][p]
        BY <2>3, <3>2 DEF BrainInv, Br!GraphCovers
      <4>2. QED
        BY <4>1, <1>5, <1>8
    <3>3. QED
      BY <2>1, <3>1, <3>2
  <2>4. ASSUME NEW p \in Br!Pairs, NEW n \in Names, n \in p PROVE edge'[s][p] \subseteq entity'[s][n]
    <3>1. edge[s][p] \subseteq entity[s][n]
      BY <2>4 DEF BrainInv, Br!GraphCovers
    <3>2. QED
      BY <2>4, <3>1, <1>5, <1>8
  <2>5. QED
    BY <2>2, <2>3, <2>4 DEF Covers
<1>10. ASSUME NEW u \in Br!Scopes, u # s PROVE Covers(u)'
  <2>1. entity'[u] = entity[u] /\ edge'[u] = edge[u]
    BY <1>2, <1>10 DEF BrainInv
  <2>2. \A x \in Br!In(u)' : x \in Br!In(u) /\ memory'[x] = memory[x]
    BY <1>3, <1>7, <1>8, <1>10 DEF Br!In
  <2>3. QED
    BY <2>1, <2>2, CoversStill
<1>11. QED
  BY <1>6, <1>9, <1>10, CoversAll DEF BrainInv

\* A rebuilt graph is the one of the memories there are.
LEMMA RebuildCovers ==
  ASSUME BrainInv, NEW s \in Br!Scopes, Br!RebuildBrainGraph(s)
  PROVE  BrainInv'
<1> DEFINE ent == [n \in Names |-> {m \in Br!In(s) : n \in memory[m].names}]
           edg == [p \in Br!Pairs |-> {m \in Br!In(s) : p \subseteq memory[m].names}]
<1>1. entity' = [entity EXCEPT ![s] = ent] /\ edge' = [edge EXCEPT ![s] = edg] /\ memory' = memory
  BY DEF Br!RebuildBrainGraph
<1>2. ent \in [Names -> SUBSET Memories] /\ edg \in [Br!Pairs -> SUBSET Memories]
  BY DEF Br!In
<1>3. /\ \A n \in Names : ent[n] = {m \in Br!In(s) : n \in memory[m].names}
      /\ \A p \in Br!Pairs : edg[p] = {m \in Br!In(s) : p \subseteq memory[m].names}
  OBVIOUS
<1> HIDE DEF ent, edg
<1>4. /\ memory' \in [Memories -> [scope : Br!Scopes, names : SUBSET Names] \cup {Br!NoMemory}]
      /\ entity' \in [Br!Scopes -> [Names -> SUBSET Memories]]
      /\ edge' \in [Br!Scopes -> [Br!Pairs -> SUBSET Memories]]
  BY <1>1, <1>2 DEF BrainInv
<1>5. \A u \in Br!Scopes : Br!In(u)' = Br!In(u)
  BY <1>1 DEF Br!In
<1>6. Covers(s)'
  <2>1. entity'[s] = ent /\ edge'[s] = edg
    BY <1>1 DEF BrainInv
  <2>2. \A m \in Br!In(s) : memory[m].names \subseteq Names
    BY NowhereIsNoScope DEF Br!In, BrainInv
  <2>3. QED
    BY <1>1, <1>3, <1>5, <2>1, <2>2 DEF Covers
<1>7. ASSUME NEW u \in Br!Scopes, u # s PROVE Covers(u)'
  <2>1. entity'[u] = entity[u] /\ edge'[u] = edge[u]
    BY <1>1, <1>7 DEF BrainInv
  <2>2. QED
    BY <1>1, <1>5, <2>1, CoversStill
<1>8. QED
  BY <1>4, <1>6, <1>7, CoversAll DEF BrainInv

\* Deletions take whole namespaces, their graph with them.
LEMMA DeletionCovers ==
  ASSUME BrainInv, NEW D \in SUBSET Br!Scopes,
         memory' = [m \in Memories |-> IF \E s \in D : m \in Br!In(s) THEN Br!NoMemory ELSE memory[m]],
         entity' = [s \in Br!Scopes |-> IF s \in D THEN Br!NoEntities ELSE entity[s]],
         edge' = [s \in Br!Scopes |-> IF s \in D THEN Br!NoEdges ELSE edge[s]]
  PROVE  BrainInv'
<1>1. Br!NoEntities \in [Names -> SUBSET Memories] /\ Br!NoEdges \in [Br!Pairs -> SUBSET Memories]
  BY DEF Br!NoEntities, Br!NoEdges
<1>2. /\ memory' \in [Memories -> [scope : Br!Scopes, names : SUBSET Names] \cup {Br!NoMemory}]
      /\ entity' \in [Br!Scopes -> [Names -> SUBSET Memories]]
      /\ edge' \in [Br!Scopes -> [Br!Pairs -> SUBSET Memories]]
  BY <1>1 DEF BrainInv
<1>3. \A u \in Br!Scopes : \A m \in Br!In(u)' : m \in Br!In(u) /\ memory'[m] = memory[m] /\ u \notin D
  BY NowhereIsNoScope DEF Br!In
<1>4. ASSUME NEW u \in D PROVE Covers(u)'
  <2>1. Br!In(u)' = {}
    BY <1>3
  <2>2. \A p \in Br!Pairs : edge'[u][p] = {}
    BY DEF Br!NoEdges
  <2>3. QED
    BY <2>1, <2>2, CoversNothing
<1>5. ASSUME NEW u \in Br!Scopes \ D PROVE Covers(u)'
  BY <1>3, CoversStill
<1>6. QED
  BY <1>2, <1>4, <1>5, CoversAll DEF BrainInv

\* Each step of the hosted brain keeps the graph covering the memories.
LEMMA BrainStep == ASSUME BrainInv, [Br!Next]_(Br!vars) PROVE BrainInv'
<1>1. ASSUME UNCHANGED <<memory, entity, edge>> PROVE BrainInv'
  BY <1>1 DEF BrainInv, Br!GraphCovers, Br!In
<1>2. ASSUME NEW s \in Br!Scopes, Br!DeleteNamespace(s) PROVE BrainInv'
  <2>1. memory' = [m \in Memories |-> IF \E u \in {s} : m \in Br!In(u) THEN Br!NoMemory ELSE memory[m]]
    BY <1>2 DEF Br!DeleteNamespace
  <2>2. entity' = [u \in Br!Scopes |-> IF u \in {s} THEN Br!NoEntities ELSE entity[u]]
    BY <1>2 DEF Br!DeleteNamespace, Br!ClearBrainGraph, BrainInv
  <2>3. edge' = [u \in Br!Scopes |-> IF u \in {s} THEN Br!NoEdges ELSE edge[u]]
    BY <1>2 DEF Br!DeleteNamespace, Br!ClearBrainGraph, BrainInv
  <2>4. QED
    BY <2>1, <2>2, <2>3, DeletionCovers
<1>3. ASSUME NEW a \in Accounts, Br!DeleteAccount(a) PROVE BrainInv'
  <2> DEFINE D == {s \in Br!Scopes : s[1] = a}
  <2>1. \A m \in Memories : (\E ns \in Namespaces : m \in Br!In(<<a, ns>>)) <=> (\E s \in D : m \in Br!In(s))
    <3>1. \A ns \in Namespaces : <<a, ns>> \in D
      BY DEF Br!Scopes
    <3>2. \A s \in D : s[2] \in Namespaces /\ s = <<a, s[2]>>
      BY DEF Br!Scopes
    <3>3. QED
      BY <3>1, <3>2
  <2>2. memory' = [m \in Memories |-> IF \E s \in D : m \in Br!In(s) THEN Br!NoMemory ELSE memory[m]]
    BY <1>3, <2>1 DEF Br!DeleteAccount
  <2>3. /\ entity' = [s \in Br!Scopes |-> IF s \in D THEN Br!NoEntities ELSE entity[s]]
        /\ edge' = [s \in Br!Scopes |-> IF s \in D THEN Br!NoEdges ELSE edge[s]]
    BY <1>3 DEF Br!DeleteAccount
  <2> HIDE DEF D
  <2>4. D \in SUBSET Br!Scopes
    BY DEF D
  <2>5. QED
    BY <2>2, <2>3, <2>4, DeletionCovers
<1>4. CASE UNCHANGED Br!vars
  BY <1>1, <1>4 DEF Br!vars
<1>5. CASE Br!Next
  <2>1. ASSUME NEW r \in ConsoleRequests, NEW s \in Br!Scopes, Br!QueryBrain(r, s) PROVE BrainInv'
    BY <2>1, <1>1 DEF Br!QueryBrain
  <2>2. ASSUME NEW r \in ConsoleRequests, NEW t \in Traces, Br!Reasoned(r, t) PROVE BrainInv'
    BY <2>2, <1>1 DEF Br!Reasoned
  <2>3. ASSUME NEW r \in ConsoleRequests, Br!Answered(r) PROVE BrainInv'
    BY <2>3, <1>1 DEF Br!Answered
  <2>4. QED
    BY <1>2, <1>3, <1>5, <2>1, <2>2, <2>3, StoreCovers, RebuildCovers DEF Br!Next
<1>6. QED
  BY <1>4, <1>5

\* Through stores under ids in use, rebuilds and deletions, the graph of a namespace has
\* every entity and pair its memories mention, and an edge cites only what both its
\* entities cite.
THEOREM GraphIsCovering == Br!Spec => []Br!GraphCovers
<1>1. BrainInv => Br!GraphCovers
  BY DEF BrainInv
<1>2. QED
  BY <1>1, BrainInit, BrainStep, PTL DEF Br!Spec

-----------------------------------------------------------------------------
(* The storage adapters (Storage).                                         *)
(* A memory belongs to one agent, and a save leaves exactly the agent's    *)
(* memories in its rows.                                                   *)

\* The memories an agent holds or has rows of.
Has(a) == engine[a].memories \cup {m \in StoredMemories : <<m, a>> \in memoryRows}

\* The fields of an engine.
Shaped(e) ==
    e = [up |-> e.up, wallet |-> e.wallet, chargeCounter |-> e.chargeCounter, memories |-> e.memories,
         transactions |-> e.transactions, calls |-> e.calls]

\* What was forgotten is with nobody, in memory or in a row, and nothing is with two.
Apart ==
    /\ \A a \in AgentIds : Has(a) \cap forgotten = {}
    /\ \A a, b \in AgentIds : a # b => Has(a) \cap Has(b) = {}

StorageInv ==
    /\ DOMAIN engine = AgentIds /\ engine = [a \in AgentIds |-> engine[a]]
    /\ \A a \in AgentIds : Shaped(engine[a]) /\ engine[a].memories \subseteq StoredMemories
    /\ memoryRows \subseteq StoredMemories \X AgentIds
    /\ Apart

\* An update of a field.
LEMMA ShapeKept ==
  ASSUME NEW e, Shaped(e), NEW x
  PROVE  /\ Shaped([e EXCEPT !.up = x]) /\ [e EXCEPT !.up = x].memories = e.memories
         /\ Shaped([e EXCEPT !.wallet = x]) /\ [e EXCEPT !.wallet = x].memories = e.memories
         /\ Shaped([e EXCEPT !.chargeCounter = x]) /\ [e EXCEPT !.chargeCounter = x].memories = e.memories
         /\ Shaped([e EXCEPT !.memories = x]) /\ [e EXCEPT !.memories = x].memories = x
         /\ Shaped([e EXCEPT !.transactions = x]) /\ [e EXCEPT !.transactions = x].memories = e.memories
         /\ Shaped([e EXCEPT !.calls = x]) /\ [e EXCEPT !.calls = x].memories = e.memories
BY DEF Shaped

\* Initially there are no memories, in the engines and in the rows.
LEMMA StorageInit == ASSUME Sg!Init PROVE StorageInv
<1>1. engine = [a \in AgentIds |-> Sg!Fresh] /\ memoryRows = {} /\ forgotten = {}
  BY DEF Sg!Init
<1>2. Shaped(Sg!Fresh) /\ Sg!Fresh.memories = {}
  BY DEF Shaped, Sg!Fresh
<1>3. QED
  BY <1>1, <1>2 DEF StorageInv, Apart, Has

\* One engine changes: it holds what it had or had rows of, and the rows stay.
LEMMA NothingSaved ==
  ASSUME StorageInv, NEW a \in AgentIds, NEW e, Shaped(e), e.memories \subseteq Has(a),
         engine' = [engine EXCEPT ![a] = e], UNCHANGED <<memoryRows, forgotten>>
  PROVE  StorageInv'
<1>1. engine'[a] = e /\ \A b \in AgentIds \ {a} : engine'[b] = engine[b]
  BY DEF StorageInv
<1>2. \A b \in AgentIds : Has(b)' \subseteq Has(b)
  BY <1>1 DEF Has
<1>3. Apart'
  BY <1>2 DEF Apart, StorageInv
<1>4. e.memories \subseteq StoredMemories
  BY DEF Has, StorageInv
<1>5. DOMAIN engine' = AgentIds /\ engine' = [b \in AgentIds |-> engine'[b]]
  BY DEF StorageInv
<1>6. QED
  BY <1>1, <1>3, <1>4, <1>5 DEF StorageInv

\* An engine that may have learned of memories nobody has, and that saves or fails to.
LEMMA KeepKeeps ==
  ASSUME StorageInv, NEW a \in AgentIds, NEW e, NEW new \in SUBSET StoredMemories, Shaped(e),
         e.memories \subseteq engine[a].memories \cup new,
         new \cap forgotten = {}, \A b \in AgentIds \ {a} : new \cap Has(b) = {},
         Sg!Keep(a, e)
  PROVE  StorageInv'
<1>1. engine' = [engine EXCEPT ![a] = e]
  BY DEF Sg!Keep, Sg!Save, Sg!NoSave
<1>2. engine'[a] = e /\ \A b \in AgentIds \ {a} : engine'[b] = engine[b]
  BY <1>1 DEF StorageInv
<1>3. e.memories \subseteq StoredMemories
  BY DEF StorageInv
<1>4. DOMAIN engine' = AgentIds /\ engine' = [b \in AgentIds |-> engine'[b]]
  BY <1>1 DEF StorageInv
<1>5. \A b \in AgentIds : Shaped(engine'[b]) /\ engine'[b].memories \subseteq StoredMemories
  BY <1>2, <1>3 DEF StorageInv
<1>6. CASE Sg!NoSave(a, e)
  <2>1. UNCHANGED <<memoryRows, forgotten>>
    BY <1>6 DEF Sg!NoSave
  <2>2. \A b \in AgentIds \ {a} : Has(b)' = Has(b)
    BY <1>2, <2>1 DEF Has
  <2>3. Has(a)' \subseteq Has(a) \cup new
    BY <1>2, <2>1 DEF Has
  <2>4. Apart'
    BY <2>1, <2>2, <2>3 DEF Apart, StorageInv
  <2>5. QED
    BY <1>4, <1>5, <2>1, <2>4 DEF StorageInv
<1>7. CASE Sg!Save(a, e)
  <2>1. /\ memoryRows' = {r \in memoryRows : r[2] # a} \cup (e.memories \X {a})
        /\ forgotten' = forgotten \cup (Has(a) \ e.memories)
    BY <1>7 DEF Sg!Save, Sg!MemoriesSaved, Has
  <2>2. memoryRows' \subseteq StoredMemories \X AgentIds
    BY <1>3, <2>1 DEF StorageInv
  <2>3. \A b \in AgentIds \ {a} : Has(b)' = Has(b)
    <3>1. \A b \in AgentIds \ {a}, m \in StoredMemories : <<m, b>> \in memoryRows' <=> <<m, b>> \in memoryRows
      BY <2>1
    <3>2. QED
      BY <1>2, <3>1 DEF Has
  <2>4. Has(a)' = e.memories
    <3>1. \A m \in StoredMemories : <<m, a>> \in memoryRows' <=> m \in e.memories
      BY <1>3, <2>1
    <3>2. QED
      BY <1>2, <1>3, <3>1 DEF Has
  <2>5. engine[a].memories \subseteq Has(a)
    BY DEF Has
  <2>6. Has(a)' \cap forgotten' = {}
    BY <2>1, <2>4, <2>5 DEF Apart, StorageInv
  <2>7. \A b \in AgentIds \ {a} : Has(b)' \cap forgotten' = {} /\ Has(b)' \cap Has(a)' = {}
    BY <2>1, <2>3, <2>4, <2>5 DEF Apart, StorageInv
  <2>8. Apart'
    BY <2>3, <2>6, <2>7 DEF Apart, StorageInv
  <2>9. QED
    BY <1>4, <1>5, <2>2, <2>8 DEF StorageInv
<1>8. QED
  BY <1>6, <1>7 DEF Sg!Keep

\* The same without new memories.
LEMMA KeepOld ==
  ASSUME StorageInv, NEW a \in AgentIds, NEW e, Shaped(e), e.memories \subseteq engine[a].memories, Sg!Keep(a, e)
  PROVE  StorageInv'
<1>1. {} \in SUBSET StoredMemories
  OBVIOUS
<1>2. QED
  BY <1>1, KeepKeeps

\* Each step of storage keeps the agents' memories apart.
LEMMA StorageStep == ASSUME StorageInv, [Sg!Next]_(Sg!vars) PROVE StorageInv'
<1>1. CASE UNCHANGED Sg!vars
  BY <1>1 DEF Sg!vars, StorageInv, Apart, Has
<1>2. ASSUME NEW a \in AgentIds, NEW m \in StoredMemories, Sg!Remember(a, m) PROVE StorageInv'
  <2> DEFINE e == [engine[a] EXCEPT !.memories = @ \cup {m}]
  <2>1. Sg!Keep(a, e)
    BY <1>2 DEF Sg!Remember
  <2>2. Shaped(engine[a])
    BY DEF StorageInv
  <2>3. Shaped(e) /\ e.memories = engine[a].memories \cup {m}
    BY <2>2 DEF Shaped
  <2> HIDE DEF e
  <2>4. {m} \cap forgotten = {} /\ \A b \in AgentIds \ {a} : {m} \cap Has(b) = {}
    BY <1>2 DEF Sg!Remember, Has
  <2>5. {m} \in SUBSET StoredMemories /\ e.memories \subseteq engine[a].memories \cup {m}
    BY <2>3
  <2>6. QED
    BY <2>1, <2>3, <2>4, <2>5, KeepKeeps
<1>3. ASSUME NEW a \in AgentIds, NEW m \in StoredMemories, Sg!Forget(a, m) PROVE StorageInv'
  <2> DEFINE e == [engine[a] EXCEPT !.memories = @ \ {m}]
  <2>1. Sg!Keep(a, e)
    BY <1>3 DEF Sg!Forget
  <2>2. Shaped(engine[a])
    BY DEF StorageInv
  <2>3. Shaped(e) /\ e.memories \subseteq engine[a].memories
    BY <2>2 DEF Shaped
  <2> HIDE DEF e
  <2>4. QED
    BY <2>1, <2>3, KeepOld
<1>4. ASSUME NEW a \in AgentIds, Sg!SaveAgain(a) PROVE StorageInv'
  BY <1>4, KeepOld DEF Sg!SaveAgain, Sg!Keep, StorageInv
<1>5. ASSUME NEW a \in AgentIds, Sg!Charge(a) PROVE StorageInv'
  <2> DEFINE e == [engine[a] EXCEPT !.chargeCounter = @ + 1, !.calls = @ \cup {<<engine[a].chargeCounter + 1, charged + 1>>}]
  <2>1. Shaped(engine[a])
    BY DEF StorageInv
  <2> DEFINE d == [engine[a] EXCEPT !.chargeCounter = @ + 1]
             t == engine[a].calls \cup {<<engine[a].chargeCounter + 1, charged + 1>>}
  <2>2. Shaped(e) /\ e.memories = engine[a].memories
    <3>1. Shaped(d) /\ d.memories = engine[a].memories
      BY <2>1, ShapeKept
    <3>2. e = [d EXCEPT !.calls = t]
      BY <2>1 DEF Shaped
    <3> HIDE DEF d, e, t
    <3>3. QED
      BY <3>1, <3>2, ShapeKept
  <2>3. engine' = [engine EXCEPT ![a] = e] /\ UNCHANGED <<memoryRows, forgotten>>
    BY <1>5 DEF Sg!Charge, StorageInv
  <2> HIDE DEF e
  <2>4. e.memories \subseteq Has(a)
    BY <2>2 DEF Has
  <2>5. QED
    BY <2>2, <2>3, <2>4, NothingSaved
<1>6. ASSUME NEW a \in AgentIds, NEW c \in engine[a].calls, Sg!Held(a, c) PROVE StorageInv'
  <2> DEFINE e == [engine[a] EXCEPT !.calls = @ \ {c}, !.transactions[c[1]] = Sg!Tx(c[2], "pending", a)]
  <2>1. Shaped(engine[a])
    BY DEF StorageInv
  <2> DEFINE d == [engine[a] EXCEPT !.calls = @ \ {c}]
             t == [engine[a].transactions EXCEPT ![c[1]] = Sg!Tx(c[2], "pending", a)]
  <2>2. Shaped(e) /\ e.memories = engine[a].memories
    <3>1. Shaped(d) /\ d.memories = engine[a].memories
      BY <2>1, ShapeKept
    <3>2. e = [d EXCEPT !.transactions = t]
      BY <2>1 DEF Shaped
    <3> HIDE DEF d, e, t
    <3>3. QED
      BY <3>1, <3>2, ShapeKept
  <2>3. Sg!Keep(a, e)
    BY <1>6 DEF Sg!Held
  <2> HIDE DEF e
  <2>4. QED
    BY <2>2, <2>3, KeepOld
<1>7. ASSUME NEW a \in AgentIds, NEW c \in engine[a].calls, Sg!HoldFails(a, c) PROVE StorageInv'
  <2> DEFINE e == [engine[a] EXCEPT !.calls = @ \ {c}]
  <2>1. Shaped(engine[a])
    BY DEF StorageInv
  <2>2. Shaped(e) /\ e.memories = engine[a].memories
    BY <2>1 DEF Shaped
  <2>3. engine' = [engine EXCEPT ![a] = e] /\ UNCHANGED <<memoryRows, forgotten>>
    BY <1>7 DEF Sg!HoldFails, StorageInv
  <2> HIDE DEF e
  <2>4. e.memories \subseteq Has(a)
    BY <2>2 DEF Has
  <2>5. QED
    BY <2>2, <2>3, <2>4, NothingSaved
<1>8. ASSUME NEW a \in AgentIds, NEW i \in Sg!Ids, Sg!SettleTx(a, i) PROVE StorageInv'
  <2> DEFINE e == [engine[a] EXCEPT !.wallet = @ + 1, !.transactions[i] = Sg!NoTx]
  <2>1. Shaped(engine[a])
    BY DEF StorageInv
  <2> DEFINE d == [engine[a] EXCEPT !.wallet = @ + 1]
             t == [engine[a].transactions EXCEPT ![i] = Sg!NoTx]
  <2>2. Shaped(e) /\ e.memories = engine[a].memories
    <3>1. Shaped(d) /\ d.memories = engine[a].memories
      BY <2>1, ShapeKept
    <3>2. e = [d EXCEPT !.transactions = t]
      BY <2>1 DEF Shaped
    <3> HIDE DEF d, e, t
    <3>3. QED
      BY <3>1, <3>2, ShapeKept
  <2>3. Sg!Keep(a, e)
    BY <1>8 DEF Sg!SettleTx
  <2> HIDE DEF e
  <2>4. QED
    BY <2>2, <2>3, KeepOld
<1>9. ASSUME NEW a \in AgentIds, NEW i \in Sg!Ids, Sg!RefundTx(a, i) PROVE StorageInv'
  <2> DEFINE e == [engine[a] EXCEPT !.transactions[i] = Sg!NoTx]
  <2>1. Shaped(engine[a])
    BY DEF StorageInv
  <2>2. Shaped(e) /\ e.memories = engine[a].memories
    BY <2>1 DEF Shaped
  <2>3. Sg!Keep(a, e)
    BY <1>9 DEF Sg!RefundTx
  <2> HIDE DEF e
  <2>4. QED
    BY <2>2, <2>3, KeepOld
<1>10. ASSUME NEW a \in AgentIds, NEW i \in Sg!Ids, Sg!ExpireTx(a, i) PROVE StorageInv'
  <2> DEFINE e == [engine[a] EXCEPT !.transactions[i].status = "expired"]
  <2>1. Shaped(engine[a])
    BY DEF StorageInv
  <2>2. Shaped(e) /\ e.memories = engine[a].memories
    BY <2>1 DEF Shaped
  <2>3. Sg!Keep(a, e)
    BY <1>10 DEF Sg!ExpireTx
  <2> HIDE DEF e
  <2>4. QED
    BY <2>2, <2>3, KeepOld
<1>11. ASSUME NEW a \in AgentIds, Sg!Stop(a) PROVE StorageInv'
  <2> DEFINE e == [Sg!Fresh EXCEPT !.up = FALSE]
  <2>1. Shaped(e) /\ e.memories = {}
    <3>1. Shaped(Sg!Fresh) /\ Sg!Fresh.memories = {}
      BY DEF Shaped, Sg!Fresh
    <3>2. QED
      BY <3>1, ShapeKept
  <2>2. engine' = [engine EXCEPT ![a] = e] /\ UNCHANGED <<memoryRows, forgotten>>
    BY <1>11 DEF Sg!Stop
  <2> HIDE DEF e
  <2>3. e.memories \subseteq Has(a)
    BY <2>1
  <2>4. QED
    BY <2>1, <2>2, <2>3, NothingSaved
<1>12. ASSUME NEW a \in AgentIds, Sg!Start(a) PROVE StorageInv'
  <2> DEFINE e == IF stored[a].known THEN Sg!Reloaded(a) ELSE Sg!Fresh
  <2>1. Shaped(Sg!Fresh) /\ Sg!Fresh.memories = {}
    BY DEF Shaped, Sg!Fresh
  <2>2. Shaped(Sg!Reloaded(a)) /\ Sg!Reloaded(a).memories = {m \in StoredMemories : <<m, a>> \in memoryRows}
    <3> DEFINE w == stored[a].wallet
               ms == {m \in StoredMemories : <<m, a>> \in memoryRows}
               ts == [i \in Sg!Ids |-> LET r == txRows[<<Sg!Table(a), i>>] IN IF r.owner = a THEN r ELSE Sg!NoTx]
               e1 == [Sg!Fresh EXCEPT !.wallet = w]
               e2 == [e1 EXCEPT !.memories = ms]
    <3>1. Sg!Reloaded(a) = [e2 EXCEPT !.transactions = ts]
      BY DEF Sg!Reloaded
    <3> HIDE DEF w, ms, ts
    <3>2. Shaped(e1)
      BY <2>1, ShapeKept
    <3> HIDE DEF e1
    <3>3. Shaped(e2) /\ e2.memories = ms
      BY <3>2, ShapeKept
    <3> HIDE DEF e2
    <3>4. Shaped([e2 EXCEPT !.transactions = ts]) /\ [e2 EXCEPT !.transactions = ts].memories = ms
      BY <3>3, ShapeKept
    <3>5. QED
      BY <3>1, <3>4 DEF ms
  <2>3. engine' = [engine EXCEPT ![a] = e] /\ UNCHANGED <<memoryRows, forgotten>>
    BY <1>12 DEF Sg!Start
  <2>4. Shaped(e) /\ e.memories \subseteq Has(a)
    BY <2>1, <2>2 DEF Has
  <2> HIDE DEF e
  <2>5. QED
    BY <2>3, <2>4, NothingSaved
<1>13. QED
  BY <1>1, <1>2, <1>3, <1>4, <1>5, <1>6, <1>7, <1>8, <1>9, <1>10, <1>11, <1>12 DEF Sg!Next

\* What an agent forgot, with the save done, does not come back: not with a restart, not
\* when it was the last memory, not when the saves in between fail.
THEOREM ForgottenIsGone == Sg!Spec => []Sg!ForgottenStays
<1>1. StorageInv => Sg!ForgottenStays
  BY DEF StorageInv, Apart, Has, Sg!ForgottenStays
<1>2. QED
  BY <1>1, StorageInit, StorageStep, PTL DEF Sg!Spec

-----------------------------------------------------------------------------
(* The checkout (Checkout).                                                *)
(* The generic script is a list of steps: past the fourth the form was     *)
(* filled, past the fifth the button was clicked.                          *)

CheckoutState ==
    [strategy : {"none", "shopify", "generic"}, pc : Nat, filled : Nat, clicked : BOOLEAN,
     screen : {"page", "thanks"}, result : {"none", "success", "failure"}, timer : BOOLEAN]

\* How far a generic checkout is tells what it did.
Honest(k) ==
    k.strategy = "generic" =>
        /\ k.pc >= 1
        /\ k.pc >= 5 => k.filled >= 3
        /\ k.pc >= 6 => k.clicked
        /\ k.result = "success" => k.pc >= 6

CheckoutInv ==
    /\ checkout \in [Checkouts -> CheckoutState]
    /\ \A c \in Checkouts : Honest(checkout[c])

\* Initially no checkout has begun.
LEMMA CheckoutInit == ASSUME Co!Init PROVE CheckoutInv
<1> DEFINE k == [strategy |-> "none", pc |-> 0, filled |-> 0, clicked |-> FALSE,
                 screen |-> "page", result |-> "none", timer |-> FALSE]
<1>1. k \in CheckoutState /\ k.strategy = "none"
  BY DEF CheckoutState
<1>2. checkout = [c \in Checkouts |-> k]
  BY DEF Co!Init
<1> HIDE DEF k
<1>3. Honest(k)
  BY <1>1 DEF Honest
<1>4. QED
  BY <1>1, <1>2, <1>3 DEF CheckoutInv

\* One checkout changes.
LEMMA CheckoutChanges ==
  ASSUME CheckoutInv, NEW c \in Checkouts, NEW k \in CheckoutState, Honest(k),
         checkout' = [checkout EXCEPT ![c] = k]
  PROVE  CheckoutInv'
BY DEF CheckoutInv

\* Updates of a checkout.
LEMMA CheckoutForms ==
  ASSUME NEW k \in CheckoutState
  PROVE  /\ Co!Past(k) \in CheckoutState /\ Co!Past(k).pc = k.pc + 1 /\ Co!Past(k).result = k.result
         /\ Co!Past(k).strategy = k.strategy /\ Co!Past(k).filled = k.filled /\ (Co!Past(k).clicked <=> k.clicked)
<1>1. k.pc + 1 \in Nat
  BY DEF CheckoutState
<1>2. QED
  BY <1>1 DEF CheckoutState, Co!Past

\* A checkout with another result is a checkout,
LEMMA ResultForm ==
  ASSUME NEW k \in CheckoutState, NEW r \in {"none", "success", "failure"}
  PROVE  /\ [k EXCEPT !.result = r] \in CheckoutState /\ [k EXCEPT !.result = r].result = r
         /\ [k EXCEPT !.result = r].strategy = k.strategy /\ [k EXCEPT !.result = r].filled = k.filled
         /\ ([k EXCEPT !.result = r].clicked <=> k.clicked) /\ [k EXCEPT !.result = r].pc = k.pc
BY DEF CheckoutState

\* with another number of filled fields,
LEMMA FilledForm ==
  ASSUME NEW k \in CheckoutState, NEW n \in Nat
  PROVE  /\ [k EXCEPT !.filled = n] \in CheckoutState /\ [k EXCEPT !.filled = n].filled = n
         /\ [k EXCEPT !.filled = n].strategy = k.strategy /\ [k EXCEPT !.filled = n].result = k.result
         /\ ([k EXCEPT !.filled = n].clicked <=> k.clicked) /\ [k EXCEPT !.filled = n].pc = k.pc
BY DEF CheckoutState

\* with its button clicked,
LEMMA ClickedForm ==
  ASSUME NEW k \in CheckoutState, NEW s \in {"page", "thanks"}
  PROVE  LET l == [k EXCEPT !.clicked = TRUE, !.screen = s] IN
         /\ l \in CheckoutState /\ l.clicked /\ l.filled = k.filled /\ l.pc = k.pc
         /\ l.strategy = k.strategy /\ l.result = k.result
<1> DEFINE m == [k EXCEPT !.clicked = TRUE]
           l == [k EXCEPT !.clicked = TRUE, !.screen = s]
<1>1. /\ m \in CheckoutState /\ m.clicked /\ m.filled = k.filled /\ m.pc = k.pc
      /\ m.strategy = k.strategy /\ m.result = k.result
  BY DEF CheckoutState
<1>2. l = [m EXCEPT !.screen = s]
  BY DEF CheckoutState
<1> HIDE DEF l, m
<1>3. /\ l \in CheckoutState /\ (l.clicked <=> m.clicked) /\ l.filled = m.filled /\ l.pc = m.pc
      /\ l.strategy = m.strategy /\ l.result = m.result
  BY <1>1, <1>2 DEF CheckoutState
<1>4. QED
  BY <1>1, <1>3 DEF l

\* or launched.
LEMMA LaunchedForm ==
  ASSUME NEW k \in CheckoutState, NEW s \in {"shopify", "generic"}
  PROVE  LET l == [k EXCEPT !.strategy = s, !.pc = 1, !.timer = TRUE] IN
         l \in CheckoutState /\ l.pc = 1 /\ l.result = k.result
<1> DEFINE m == [k EXCEPT !.strategy = s, !.pc = 1]
           l == [k EXCEPT !.strategy = s, !.pc = 1, !.timer = TRUE]
<1>1. m \in CheckoutState /\ m.pc = 1 /\ m.result = k.result
  BY DEF CheckoutState
<1>2. l = [m EXCEPT !.timer = TRUE]
  BY DEF CheckoutState
<1> HIDE DEF l, m
<1>3. l \in CheckoutState /\ l.pc = m.pc /\ l.result = m.result
  BY <1>1, <1>2 DEF CheckoutState
<1>4. QED
  BY <1>1, <1>3 DEF l

\* The generic script, step by step.
LEMMA GenericScript ==
  ASSUME NEW c, checkout[c].strategy = "generic", checkout[c].pc \in Nat \ {0}, NEW step, Co!AtStep(c, step)
  PROVE  LET pc == checkout[c].pc IN
         /\ pc = 1 => step = "navigated"
         /\ pc = 2 => step = "added_to_cart"
         /\ pc = 3 => step = "at_checkout"
         /\ pc = 4 => step = "filled"
         /\ pc = 5 => step = "submitted"
         /\ pc = 6 => step = "confirmed"
         /\ pc \in 1..6
<1>1. Co!Script("generic") = <<"navigated", "added_to_cart", "at_checkout", "filled", "submitted", "confirmed">>
  BY DEF Co!Script, Co!Generic
<1>2. checkout[c].pc <= 6 /\ step = Co!Script("generic")[checkout[c].pc]
  BY <1>1 DEF Co!AtStep, Co!StepOf
<1>3. QED
  BY <1>1, <1>2

\* Each step of a checkout keeps the invariant.
LEMMA CheckoutStep ==
  ASSUME CheckoutAssumption, CheckoutInv, [Co!Next]_(Co!vars)
  PROVE  CheckoutInv'
<1>1. CASE UNCHANGED Co!vars
  BY <1>1 DEF Co!vars, CheckoutInv
<1>2. SUFFICES ASSUME NEW c \in Checkouts,
                      \/ Co!Rejected(c) \/ Co!Launched(c) \/ Co!TimedOut(c) \/ Co!Close(c) \/ Co!Did(c)
                      \/ Co!Fails(c) \/ Co!FillCheckoutForm(c) \/ Co!CompleteOrder(c) \/ Co!SubmitOrder(c)
                      \/ Co!Confirm(c)
               PROVE  CheckoutInv'
  BY <1>1 DEF Co!Next
<1> DEFINE k == checkout[c]
<1>3. k \in CheckoutState /\ Honest(k)
  BY DEF CheckoutInv
<1>4. Co!Past(k) \in CheckoutState
  BY <1>3, CheckoutForms
<1>5. ASSUME Co!Finish(c, "failure") PROVE CheckoutInv'
  <2>1. checkout' = [checkout EXCEPT ![c] = [k EXCEPT !.result = "failure"]]
    BY <1>5 DEF Co!Finish, CheckoutInv
  <2> HIDE DEF k
  <2>2. Honest([k EXCEPT !.result = "failure"])
    BY <1>3, ResultForm DEF Honest
  <2>3. QED
    BY <1>3, <2>1, <2>2, ResultForm, CheckoutChanges
<1>6. CASE Co!Rejected(c)
  BY <1>5, <1>6 DEF Co!Rejected, Co!Finish
<1>7. CASE Co!Launched(c)
  <2>1. PICK s \in {"shopify", "generic"} :
          checkout' = [checkout EXCEPT ![c].strategy = s, ![c].pc = 1, ![c].timer = TRUE]
    BY <1>7 DEF Co!Launched
  <2> DEFINE l == [k EXCEPT !.strategy = s, !.pc = 1, !.timer = TRUE]
  <2>2. checkout' = [checkout EXCEPT ![c] = l]
    BY <2>1 DEF CheckoutInv
  <2>3. l \in CheckoutState /\ l.pc = 1 /\ l.result = "none"
    BY <1>3, <1>7, LaunchedForm DEF Co!Launched
  <2> HIDE DEF k, l
  <2>4. Honest(l)
    BY <2>3 DEF Honest
  <2>5. QED
    BY <2>2, <2>3, <2>4, CheckoutChanges
<1>8. CASE Co!TimedOut(c)
  BY <1>5, <1>8 DEF Co!TimedOut
<1>9. CASE Co!Close(c)
  BY <1>9 DEF Co!Close, CheckoutInv
<1>10. CASE Co!Fails(c)
  BY <1>5, <1>10 DEF Co!Fails
<1>11. CASE Co!Did(c)
  <2>1. checkout' = [checkout EXCEPT ![c] = Co!Past(k)]
    BY <1>11 DEF Co!Did, CheckoutInv
  <2>2. PICK step \in {"navigated", "added_to_cart", "at_checkout", "contact_filled", "shipping_filled",
                       "shipping_method", "at_payment", "payment_filled"} : Co!AtStep(c, step)
    BY <1>11 DEF Co!Did
  <2>3. k.strategy = "generic" => k.pc \in {1, 2, 3} /\ k.result = "none"
    <3>1. ASSUME k.strategy = "generic" PROVE k.pc \in Nat \ {0}
      BY <1>3, <3>1 DEF Honest, CheckoutState
    <3>2. QED
      BY <2>2, <3>1, GenericScript DEF Co!AtStep, Co!Running
  <2> HIDE DEF k
  <2>4. Honest(Co!Past(k))
    BY <1>3, <2>3, CheckoutForms DEF Honest
  <2>5. QED
    BY <1>4, <2>1, <2>4, CheckoutChanges
<1>12. CASE Co!FillCheckoutForm(c)
  <2>1. PICK n \in Fields : checkout' = [checkout EXCEPT ![c] =
            IF n < 3 THEN [@ EXCEPT !.filled = n, !.result = "failure"] ELSE Co!Past([@ EXCEPT !.filled = n])]
    BY <1>12 DEF Co!FillCheckoutForm
  <2>2. n \in Nat
    BY DEF CheckoutAssumption
  <2> DEFINE f == [k EXCEPT !.filled = n]
  <2>3. /\ f \in CheckoutState /\ f.filled = n /\ f.strategy = k.strategy /\ f.result = k.result
        /\ (f.clicked <=> k.clicked) /\ f.pc = k.pc
    BY <1>3, <2>2, FilledForm
  <2>4. k.result = "none"
    BY <1>12 DEF Co!FillCheckoutForm, Co!AtStep, Co!Running
  <2>5. k.strategy = "generic" => k.pc = 4
    <3>1. ASSUME k.strategy = "generic" PROVE k.pc \in Nat \ {0}
      BY <1>3, <3>1 DEF Honest, CheckoutState
    <3>2. Co!AtStep(c, "filled")
      BY <1>12 DEF Co!FillCheckoutForm
    <3>3. QED
      BY <3>1, <3>2, GenericScript
  <2>6. CASE n < 3
    <3>1. checkout' = [checkout EXCEPT ![c] = [f EXCEPT !.result = "failure"]]
      BY <1>3, <2>1, <2>6 DEF CheckoutInv, CheckoutState
    <3> HIDE DEF f, k
    <3> DEFINE g == [f EXCEPT !.result = "failure"]
    <3>2. g \in CheckoutState /\ g.result = "failure" /\ g.strategy = f.strategy /\ g.pc = f.pc
      BY <2>3, ResultForm
    <3> HIDE DEF g
    <3>3. Honest(g)
      BY <2>3, <2>5, <3>2 DEF Honest
    <3>4. QED
      BY <3>1, <3>2, <3>3, CheckoutChanges DEF g
  <2>7. CASE ~(n < 3)
    <3>1. checkout' = [checkout EXCEPT ![c] = Co!Past(f)]
      BY <2>1, <2>7 DEF CheckoutInv
    <3> HIDE DEF f, k
    <3>2. Co!Past(f) \in CheckoutState /\ Honest(Co!Past(f))
      BY <2>2, <2>3, <2>4, <2>5, <2>7, CheckoutForms DEF Honest
    <3>3. QED
      BY <3>1, <3>2, CheckoutChanges
  <2>8. QED
    BY <2>6, <2>7
<1>13. ASSUME NEW step \in {"order_submitted", "submitted"}, Co!AtStep(c, step),
              \/ Co!Click(c)
              \/ step = "order_submitted" /\ checkout' = [checkout EXCEPT ![c] = Co!Past(@)]
       PROVE  CheckoutInv'
  <2>1. k.result = "none"
    BY <1>13 DEF Co!AtStep, Co!Running
  <2>2. k.strategy = "generic" => k.pc = 5 /\ step = "submitted"
    <3>1. ASSUME k.strategy = "generic" PROVE k.pc \in Nat \ {0}
      BY <1>3, <3>1 DEF Honest, CheckoutState
    <3>2. QED
      BY <1>13, <3>1, GenericScript
  <2>3. CASE Co!Click(c)
    <3>1. PICK s \in {"page", "thanks"} :
            checkout' = [checkout EXCEPT ![c] = Co!Past([k EXCEPT !.clicked = TRUE, !.screen = s])]
      <4>1. PICK taken \in BOOLEAN : checkout' = [checkout EXCEPT ![c] =
                Co!Past([@ EXCEPT !.clicked = TRUE, !.screen = IF taken THEN "thanks" ELSE "page"])]
        BY <2>3 DEF Co!Click
      <4>2. QED
        BY <4>1 DEF CheckoutInv
    <3> DEFINE l == [k EXCEPT !.clicked = TRUE, !.screen = s]
    <3>2. /\ l \in CheckoutState /\ l.clicked /\ l.filled = k.filled /\ l.pc = k.pc
          /\ l.strategy = k.strategy /\ l.result = k.result
      BY <1>3, ClickedForm
    <3>3. checkout' = [checkout EXCEPT ![c] = Co!Past(l)]
      BY <3>1
    <3> HIDE DEF l, k
    <3>4. Co!Past(l) \in CheckoutState /\ Honest(Co!Past(l))
      BY <1>3, <2>1, <2>2, <3>2, CheckoutForms DEF Honest
    <3>5. QED
      BY <3>3, <3>4, CheckoutChanges
  <2>4. CASE step = "order_submitted" /\ checkout' = [checkout EXCEPT ![c] = Co!Past(@)]
    <3>1. checkout' = [checkout EXCEPT ![c] = Co!Past(k)]
      BY <2>4 DEF CheckoutInv
    <3> HIDE DEF k
    <3>2. Honest(Co!Past(k))
      BY <1>3, <2>2, <2>4, CheckoutForms DEF Honest
    <3>3. QED
      BY <1>4, <3>1, <3>2, CheckoutChanges
  <2>5. QED
    BY <1>13, <2>3, <2>4
<1>14. CASE Co!CompleteOrder(c)
  BY <1>13, <1>14 DEF Co!CompleteOrder, Co!ClickIfFound
<1>15. CASE Co!SubmitOrder(c)
  BY <1>13, <1>15 DEF Co!SubmitOrder, Co!Submits
<1>16. CASE Co!Confirm(c)
  <2>1. PICK result \in {"success", "failure"} :
          checkout' = [checkout EXCEPT ![c] = Co!Past([k EXCEPT !.result = result])]
    <3>1. PICK result \in Co!Confirmation(c) :
            checkout' = [checkout EXCEPT ![c] = Co!Past([@ EXCEPT !.result = result])]
      BY <1>16 DEF Co!Confirm
    <3>2. result \in {"success", "failure"}
      BY DEF Co!Confirmation
    <3>3. QED
      BY <3>1, <3>2 DEF CheckoutInv
  <2> DEFINE l == [k EXCEPT !.result = result]
  <2>2. /\ l \in CheckoutState /\ l.result = result /\ l.strategy = k.strategy /\ l.filled = k.filled
        /\ (l.clicked <=> k.clicked) /\ l.pc = k.pc
    <3> HIDE DEF k
    <3>1. result \in {"none", "success", "failure"}
      OBVIOUS
    <3>2. QED
      BY <1>3, <3>1, ResultForm
  <2>3. k.strategy = "generic" => k.pc = 6
    <3>1. ASSUME k.strategy = "generic" PROVE k.pc \in Nat \ {0}
      BY <1>3, <3>1 DEF Honest, CheckoutState
    <3>2. Co!AtStep(c, "confirmed")
      BY <1>16 DEF Co!Confirm
    <3>3. QED
      BY <3>1, <3>2, GenericScript
  <2>4. checkout' = [checkout EXCEPT ![c] = Co!Past(l)]
    BY <2>1
  <2> HIDE DEF l, k
  <2>5. Co!Past(l) \in CheckoutState /\ Honest(Co!Past(l))
    BY <1>3, <2>2, <2>3, CheckoutForms DEF Honest
  <2>6. QED
    BY <2>4, <2>5, CheckoutChanges
<1>17. QED
  BY <1>2, <1>6, <1>7, <1>8, <1>9, <1>10, <1>11, <1>12, <1>14, <1>15, <1>16

\* A generic checkout that reports success filled the form and clicked the order's
\* button, however it was raced by the timer: no hold stays for an order nobody placed.
THEOREM SuccessIsSubmitted ==
  ASSUME CheckoutAssumption
  PROVE  Co!Spec => []Co!SuccessWasSubmitted
<1>1. CheckoutInv => Co!SuccessWasSubmitted
  BY DEF CheckoutInv, CheckoutState, Honest, Co!SuccessWasSubmitted
<1>2. QED
  BY <1>1, CheckoutInit, CheckoutStep, PTL DEF Co!Spec

-----------------------------------------------------------------------------
(* The remote clients (RemoteClient).                                      *)
(* What a server did stays done, and a call goes on to its next request    *)
(* only after the one before was carried out.                              *)

CallState == [kind : Rc!AllKinds, escrow : Escrows, op : Rc!Ops, step : Rc!Steps, tries : Int]

\* A call that goes on has done what its earlier requests were for.
Under(k) ==
    /\ k.kind = "x402" => k.op \in {"show", "pay", "release"} /\ (k.op = "release" => paid[k.escrow] > 0)
    /\ k.kind = "sessionEnd" => k.op \in {"store", "consolidate"} /\ (k.op = "consolidate" => memories > 0)
    /\ k.kind \notin {"x402", "sessionEnd"} => Rc!IsLast(k)

\* What a call that succeeded reports.
Done(c) ==
    calls[c].step = "ok" =>
        LET kind == calls[c].kind
            e    == calls[c].escrow
        IN  /\ kind \in {"charge", "thinCharge"} => created[c] > 0
            /\ kind \in {"settle", "thinSettle", "x402"} => escrows[e] = "released"
            /\ kind \in {"refund", "thinRefund"} => escrows[e] = "refunded"
            /\ kind = "x402" => paid[e] > 0
            /\ kind \in {"remember", "sessionEnd", "thinRemember"} => memories > 0

RemoteInv ==
    /\ calls \in [RemoteCalls -> CallState] /\ escrows \in [Escrows -> {"pending", "released", "refunded"}]
    /\ created \in [RemoteCalls -> Nat] /\ paid \in [Escrows -> Nat] /\ memories \in Nat
    /\ \A r \in wire : r.call \in RemoteCalls
    /\ \A c \in RemoteCalls : Under(calls[c]) /\ Done(c)

\* The requests of each kind.
LEMMA RequestsAre ==
  /\ Rc!Requests("remember") = <<"store">> /\ Rc!Requests("recall") = <<"search">>
  /\ Rc!Requests("forget") = <<"delete">> /\ Rc!Requests("reinforce") = <<"review">>
  /\ Rc!Requests("consolidate") = <<"consolidate">> /\ Rc!Requests("sessionEnd") = <<"store", "consolidate">>
  /\ Rc!Requests("charge") = <<"create">> /\ Rc!Requests("settle") = <<"release">> /\ Rc!Requests("refund") = <<"refund">>
  /\ Rc!Requests("balance") = <<"show">> /\ Rc!Requests("history") = <<"show">>
  /\ Rc!Requests("x402") = <<"show", "pay", "release">>
  /\ Rc!Requests("thinRemember") = <<"store">> /\ Rc!Requests("thinCharge") = <<"create">>
  /\ Rc!Requests("thinSettle") = <<"release">> /\ Rc!Requests("thinRefund") = <<"refund">>
<1>1. /\ DOMAIN Rc!MemoryRequests = {"remember", "recall", "forget", "reinforce", "consolidate", "sessionEnd"}
      /\ DOMAIN Rc!PaymentRequests = {"charge", "settle", "refund"}
      /\ DOMAIN Rc!ReadRequests = {"balance", "history"} /\ DOMAIN Rc!X402Requests = {"x402"}
  BY DEF Rc!MemoryRequests, Rc!PaymentRequests, Rc!ReadRequests, Rc!X402Requests
<1>2. /\ Rc!MemoryRequests.remember = <<"store">> /\ Rc!MemoryRequests.recall = <<"search">>
      /\ Rc!MemoryRequests.forget = <<"delete">> /\ Rc!MemoryRequests.reinforce = <<"review">>
      /\ Rc!MemoryRequests.consolidate = <<"consolidate">>
      /\ Rc!MemoryRequests.sessionEnd = <<"store", "consolidate">>
  BY DEF Rc!MemoryRequests
<1>3. /\ Rc!PaymentRequests.charge = <<"create">> /\ Rc!PaymentRequests.settle = <<"release">>
      /\ Rc!PaymentRequests.refund = <<"refund">>
  BY DEF Rc!PaymentRequests
<1>4. /\ Rc!ReadRequests.balance = <<"show">> /\ Rc!ReadRequests.history = <<"show">>
      /\ Rc!X402Requests.x402 = <<"show", "pay", "release">>
  BY DEF Rc!ReadRequests, Rc!X402Requests
<1>5. /\ Rc!ThinRequests.thinRemember = <<"store">> /\ Rc!ThinRequests.thinCharge = <<"create">>
      /\ Rc!ThinRequests.thinSettle = <<"release">> /\ Rc!ThinRequests.thinRefund = <<"refund">>
  BY DEF Rc!ThinRequests
<1>6. QED
  BY <1>1, <1>2, <1>3, <1>4, <1>5 DEF Rc!Requests

\* The last request of each kind.
LEMMA LastRequest ==
  ASSUME NEW k \in CallState
  PROVE  /\ k.kind = "x402" => (Rc!IsLast(k) <=> k.op = "release")
         /\ k.kind = "sessionEnd" => (Rc!IsLast(k) <=> k.op = "consolidate")
         /\ k.kind \in {"charge", "thinCharge"} => (Rc!IsLast(k) <=> k.op = "create")
         /\ k.kind \in {"settle", "thinSettle"} => (Rc!IsLast(k) <=> k.op = "release")
         /\ k.kind \in {"refund", "thinRefund"} => (Rc!IsLast(k) <=> k.op = "refund")
         /\ k.kind \in {"remember", "thinRemember"} => (Rc!IsLast(k) <=> k.op = "store")
<1>1. ASSUME k.kind = "x402" PROVE Rc!IsLast(k) <=> k.op = "release"
  BY <1>1, RequestsAre DEF Rc!IsLast
<1>2. ASSUME k.kind = "sessionEnd" PROVE Rc!IsLast(k) <=> k.op = "consolidate"
  BY <1>2, RequestsAre DEF Rc!IsLast
<1>3. ASSUME k.kind \in {"charge", "thinCharge"} PROVE Rc!IsLast(k) <=> k.op = "create"
  BY <1>3, RequestsAre DEF Rc!IsLast
<1>4. ASSUME k.kind \in {"settle", "thinSettle"} PROVE Rc!IsLast(k) <=> k.op = "release"
  BY <1>4, RequestsAre DEF Rc!IsLast
<1>5. ASSUME k.kind \in {"refund", "thinRefund"} PROVE Rc!IsLast(k) <=> k.op = "refund"
  BY <1>5, RequestsAre DEF Rc!IsLast
<1>6. ASSUME k.kind \in {"remember", "thinRemember"} PROVE Rc!IsLast(k) <=> k.op = "store"
  BY <1>6, RequestsAre DEF Rc!IsLast
<1>7. QED
  BY <1>1, <1>2, <1>3, <1>4, <1>5, <1>6

\* The first request of a kind.
LEMMA FirstRequest ==
  ASSUME NEW kind \in Rc!AllKinds
  PROVE  /\ Rc!First(kind) \in Rc!Ops
         /\ kind = "x402" => Rc!First(kind) = "show"
         /\ kind = "sessionEnd" => Rc!First(kind) = "store"
         /\ kind \notin {"x402", "sessionEnd"} =>
              Len(Rc!Requests(kind)) = 1 /\ Rc!Requests(kind)[Len(Rc!Requests(kind))] = Rc!First(kind)
BY RequestsAre DEF Rc!First, Rc!AllKinds, Rc!Ops

\* The request after one that is not the last.
LEMMA NextRequest ==
  ASSUME NEW k \in CallState
  PROVE  /\ k.kind = "x402" /\ k.op = "show" => Rc!NextOp(k) = "pay"
         /\ k.kind = "x402" /\ k.op = "pay" => Rc!NextOp(k) = "release"
         /\ k.kind = "sessionEnd" /\ k.op = "store" => Rc!NextOp(k) = "consolidate"
<1>1. ASSUME k.kind = "x402" PROVE Rc!Requests(k.kind) = <<"show", "pay", "release">>
  BY <1>1, RequestsAre
<1>2. ASSUME k.kind = "sessionEnd" PROVE Rc!Requests(k.kind) = <<"store", "consolidate">>
  BY <1>2, RequestsAre
<1>3. ASSUME k.kind = "x402", k.op = "show" PROVE Rc!NextOp(k) = "pay"
  <2>1. (CHOOSE i \in DOMAIN <<"show", "pay", "release">> : <<"show", "pay", "release">>[i] = k.op) = 1
    BY <1>3
  <2>2. QED
    BY <1>1, <1>3, <2>1 DEF Rc!NextOp
<1>4. ASSUME k.kind = "x402", k.op = "pay" PROVE Rc!NextOp(k) = "release"
  <2>1. (CHOOSE i \in DOMAIN <<"show", "pay", "release">> : <<"show", "pay", "release">>[i] = k.op) = 2
    BY <1>4
  <2>2. QED
    BY <1>1, <1>4, <2>1 DEF Rc!NextOp
<1>5. ASSUME k.kind = "sessionEnd", k.op = "store" PROVE Rc!NextOp(k) = "consolidate"
  <2>1. (CHOOSE i \in DOMAIN <<"store", "consolidate">> : <<"store", "consolidate">>[i] = k.op) = 1
    BY <1>5
  <2>2. QED
    BY <1>2, <1>5, <2>1 DEF Rc!NextOp
<1>6. QED
  BY <1>3, <1>4, <1>5

\* Initially every call is new, and nothing was done.
LEMMA RemoteInit == ASSUME RemoteAssumption, Rc!Init PROVE RemoteInv
<1>1. PICK kind \in [RemoteCalls -> RemoteKinds], e \in [RemoteCalls -> Escrows] :
        calls = [c \in RemoteCalls |-> [kind |-> kind[c], escrow |-> e[c], op |-> Rc!First(kind[c]), step |-> "new", tries |-> 0]]
  BY DEF Rc!Init
<1>2. \A c \in RemoteCalls : kind[c] \in Rc!AllKinds /\ e[c] \in Escrows
  BY DEF RemoteAssumption
<1>3. \A c \in RemoteCalls : /\ calls[c] \in CallState /\ calls[c].kind = kind[c] /\ calls[c].step = "new"
                       /\ calls[c].op = Rc!First(kind[c])
  BY <1>1, <1>2, FirstRequest DEF CallState, Rc!Steps
<1>4. ASSUME NEW c \in RemoteCalls PROVE Under(calls[c]) /\ Done(c)
  <2>1. kind[c] = "x402" => calls[c].op = "show"
    BY <1>2, <1>3, FirstRequest
  <2>2. kind[c] = "sessionEnd" => calls[c].op = "store"
    BY <1>2, <1>3, FirstRequest
  <2>3. kind[c] \notin {"x402", "sessionEnd"} => Rc!IsLast(calls[c])
    BY <1>2, <1>3, FirstRequest DEF Rc!IsLast
  <2>4. QED
    BY <1>3, <2>1, <2>2, <2>3 DEF Under, Done
<1>5. calls \in [RemoteCalls -> CallState]
  BY <1>1, <1>3
<1>6. QED
  BY <1>4, <1>5 DEF Rc!Init, RemoteInv

\* What the servers did only grows.
LEMMA NothingUndone ==
  ASSUME RemoteInv, NEW c \in RemoteCalls, calls'[c] = calls[c],
         created'[c] >= created[c], \A e \in Escrows : paid'[e] >= paid[e], memories' >= memories,
         \A e \in Escrows : escrows[e] # "pending" => escrows'[e] = escrows[e],
         created' \in [RemoteCalls -> Nat], paid' \in [Escrows -> Nat], memories' \in Nat
  PROVE  Under(calls[c])' /\ Done(c)'
<1>1. calls[c] \in CallState /\ Under(calls[c]) /\ Done(c)
  BY DEF RemoteInv
<1>2. calls[c].escrow \in Escrows
  BY <1>1 DEF CallState
<1>3. Rc!IsLast(calls[c])' <=> Rc!IsLast(calls[c])
  BY DEF Rc!IsLast
<1>4. /\ paid[calls[c].escrow] \in Nat /\ paid'[calls[c].escrow] \in Nat
      /\ created[c] \in Nat /\ created'[c] \in Nat /\ memories \in Nat /\ memories' \in Nat
      /\ paid'[calls[c].escrow] >= paid[calls[c].escrow]
  BY <1>2 DEF RemoteInv
<1>5. Under(calls[c])'
  BY <1>1, <1>3, <1>4 DEF Under
<1>6. Done(c)'
  <2>1. \A s \in {"released", "refunded"} : escrows[calls[c].escrow] = s => escrows'[calls[c].escrow] = s
    BY <1>2
  <2>2. QED
    BY <1>1, <1>4, <2>1 DEF Done
<1>7. QED
  BY <1>5, <1>6

\* A call that waits, tries again or fails has done no more and no less.
LEMMA StepForm ==
  ASSUME NEW k \in CallState, NEW s \in Rc!Steps, NEW l, l = [k EXCEPT !.step = s]
  PROVE  l \in CallState /\ l.kind = k.kind /\ l.op = k.op /\ l.escrow = k.escrow /\ l.step = s
BY DEF CallState

\* A call that failed, or that will be tried again, is a call that is not done.
LEMMA FailedForm ==
  ASSUME NEW k \in CallState, NEW l \in {[k EXCEPT !.step = "failed"], [k EXCEPT !.step = "backoff", !.tries = @ + 1]}
  PROVE  l \in CallState /\ l.kind = k.kind /\ l.op = k.op /\ l.escrow = k.escrow /\ l.step # "ok"
<1>1. CASE l = [k EXCEPT !.step = "failed"]
  BY <1>1, StepForm DEF Rc!Steps
<1>2. CASE l = [k EXCEPT !.step = "backoff", !.tries = @ + 1]
  <2> DEFINE m == [k EXCEPT !.step = "backoff"]
  <2>1. m \in CallState /\ m.kind = k.kind /\ m.op = k.op /\ m.escrow = k.escrow /\ m.step = "backoff"
    BY StepForm DEF Rc!Steps
  <2>2. l = [m EXCEPT !.tries = @ + 1]
    BY <1>2 DEF CallState
  <2> HIDE DEF m
  <2>3. m.tries + 1 \in Int
    BY <2>1 DEF CallState
  <2>4. l \in CallState /\ l.kind = m.kind /\ l.op = m.op /\ l.escrow = m.escrow /\ l.step = m.step
    BY <2>1, <2>2, <2>3 DEF CallState
  <2>5. QED
    BY <2>1, <2>4
<1>3. QED
  BY <1>1, <1>2

\* One call changes without getting on, and the servers do nothing or more.
Grown ==
    /\ escrows' \in [Escrows -> {"pending", "released", "refunded"}]
    /\ created' \in [RemoteCalls -> Nat] /\ paid' \in [Escrows -> Nat] /\ memories' \in Nat
    /\ \A c \in RemoteCalls : created'[c] >= created[c]
    /\ \A e \in Escrows : paid'[e] >= paid[e]
    /\ memories' >= memories
    /\ \A e \in Escrows : escrows[e] # "pending" => escrows'[e] = escrows[e]

\* A step of a call that does not report success,
LEMMA CallStays ==
  ASSUME RemoteInv, Grown, NEW c \in RemoteCalls, NEW l \in CallState,
         calls' = [calls EXCEPT ![c] = l], \A r \in wire' : r.call \in RemoteCalls,
         l.kind = calls[c].kind, l.op = calls[c].op, l.escrow = calls[c].escrow, l.step # "ok"
  PROVE  RemoteInv'
<1>1. calls' \in [RemoteCalls -> CallState] /\ calls'[c] = l /\ \A d \in RemoteCalls \ {c} : calls'[d] = calls[d]
  BY DEF RemoteInv
<1>2. ASSUME NEW d \in RemoteCalls \ {c} PROVE Under(calls[d])' /\ Done(d)'
  BY <1>1, NothingUndone DEF Grown
<1>3. Done(c)'
  BY <1>1 DEF Done
<1>4. Under(calls[c])'
  <2>1. calls[c] \in CallState /\ Under(calls[c])
    BY DEF RemoteInv
  <2>2. l.escrow \in Escrows
    BY DEF CallState
  <2>3. Rc!IsLast(l) <=> Rc!IsLast(calls[c])
    BY DEF Rc!IsLast
  <2>4. Under(l)'
    <3>1. /\ paid[l.escrow] \in Nat /\ paid'[l.escrow] \in Nat /\ memories \in Nat /\ memories' \in Nat
          /\ paid'[l.escrow] >= paid[l.escrow] /\ memories' >= memories
      BY <2>2 DEF RemoteInv, Grown
    <3>2. QED
      BY <2>1, <2>3, <3>1 DEF Under, Rc!IsLast
  <2>5. QED
    BY <1>1, <2>4 DEF Under, Rc!IsLast
<1>5. QED
  BY <1>1, <1>2, <1>3, <1>4 DEF RemoteInv, Grown

\* or one of the server or the network, keeps the invariant when nothing is undone.
LEMMA AllStay ==
  ASSUME RemoteInv, Grown, calls' = calls, \A r \in wire' : r.call \in RemoteCalls
  PROVE  RemoteInv'
<1>1. \A c \in RemoteCalls : Under(calls[c])' /\ Done(c)'
  BY NothingUndone DEF Grown
<1>2. QED
  BY <1>1 DEF RemoteInv, Grown

\* Doing nothing undoes nothing.
LEMMA NothingGrown == ASSUME RemoteInv, UNCHANGED <<escrows, created, paid, memories>> PROVE Grown
BY DEF RemoteInv, Grown

\* What a server does for a request.
LEMMA ServerGrows ==
  ASSUME RemoteInv, NEW r, r.call \in RemoteCalls, NEW e \in Escrows, Rc!Does(r, e)
  PROVE  /\ Grown
         /\ r.op = "store" => memories' > 0
         /\ r.op = "pay" => paid'[e] > 0
         /\ r.op = "create" => created'[r.call] > 0
         /\ r.op = "release" => escrows'[e] = "released"
         /\ r.op = "refund" => escrows'[e] = "refunded"
<1>1. memories \in Nat /\ paid \in [Escrows -> Nat] /\ created \in [RemoteCalls -> Nat]
      /\ escrows \in [Escrows -> {"pending", "released", "refunded"}]
  BY DEF RemoteInv
<1>2. memories' \in Nat /\ memories' >= memories /\ (r.op = "store" => memories' > 0)
  BY <1>1 DEF Rc!Does
<1>3. paid' \in [Escrows -> Nat] /\ (\A x \in Escrows : paid'[x] >= paid[x]) /\ (r.op = "pay" => paid'[e] > 0)
  BY <1>1 DEF Rc!Does
<1>4. created' \in [RemoteCalls -> Nat] /\ (\A x \in RemoteCalls : created'[x] >= created[x])
      /\ (r.op = "create" => created'[r.call] > 0)
  BY <1>1 DEF Rc!Does
<1>5. escrows' \in [Escrows -> {"pending", "released", "refunded"}]
      /\ (\A x \in Escrows : escrows[x] # "pending" => escrows'[x] = escrows[x])
      /\ (r.op = "release" => escrows'[e] = "released") /\ (r.op = "refund" => escrows'[e] = "refunded")
  BY <1>1 DEF Rc!Does
<1>6. QED
  BY <1>2, <1>3, <1>4, <1>5 DEF Grown

\* A good answer to the request a call waits for.
LEMMA CallGetsOn ==
  ASSUME RemoteInv, NEW r, r.call \in RemoteCalls, Rc!Waits(r), \A q \in wire' : q.call \in RemoteCalls,
         Rc!Does(r, calls[r.call].escrow),
         calls' = [calls EXCEPT ![r.call] = Rc!Succeeded(calls[r.call])]
  PROVE  RemoteInv'
<1> DEFINE c == r.call
           k == calls[c]
<1>1. k \in CallState /\ Under(k) /\ r.op = k.op /\ k.escrow \in Escrows
  BY DEF RemoteInv, CallState, Rc!Waits
<1>2. /\ Grown
      /\ k.op = "store" => memories' > 0
      /\ k.op = "pay" => paid'[k.escrow] > 0
      /\ k.op = "create" => created'[c] > 0
      /\ k.op = "release" => escrows'[k.escrow] = "released"
      /\ k.op = "refund" => escrows'[k.escrow] = "refunded"
  BY <1>1, ServerGrows
<1>3. paid[k.escrow] > 0 => paid'[k.escrow] > 0
  BY <1>1, <1>2 DEF Grown, RemoteInv
<1>4. memories > 0 => memories' > 0
  BY <1>2 DEF Grown, RemoteInv
<1>5. PICK l \in CallState :
        /\ calls' = [calls EXCEPT ![c] = l] /\ l.kind = k.kind /\ l.escrow = k.escrow
        /\ \/ Rc!IsLast(k) /\ l.step = "ok" /\ l.op = k.op
           \/ ~Rc!IsLast(k) /\ l.step = "new" /\ l.op = Rc!NextOp(k)
  <2>1. CASE Rc!IsLast(k)
    <3>1. Rc!Succeeded(k) = [k EXCEPT !.step = "ok"]
      BY <2>1 DEF Rc!Succeeded
    <3> HIDE DEF k
    <3>2. "ok" \in Rc!Steps
      BY DEF Rc!Steps
    <3> DEFINE m == Rc!Succeeded(k)
    <3>3. m \in CallState /\ m.kind = k.kind /\ m.op = k.op /\ m.escrow = k.escrow /\ m.step = "ok"
      BY <1>1, <3>1, <3>2, StepForm
    <3>4. QED
      BY <2>1, <3>3 DEF k
  <2>2. CASE ~Rc!IsLast(k)
    <3>1. Rc!Succeeded(k) = [k EXCEPT !.op = Rc!NextOp(k), !.step = "new", !.tries = 0]
      BY <2>2 DEF Rc!Succeeded
    <3>2. Rc!NextOp(k) \in Rc!Ops
      <4>1. k.kind = "x402" => k.op \in {"show", "pay"}
        BY <1>1, <2>2, LastRequest DEF Under
      <4>2. k.kind = "sessionEnd" => k.op = "store"
        BY <1>1, <2>2, LastRequest DEF Under
      <4>3. k.kind \in {"x402", "sessionEnd"}
        BY <1>1, <2>2 DEF Under
      <4>4. QED
        BY <1>1, <4>1, <4>2, <4>3, NextRequest DEF Rc!Ops
    <3> DEFINE m == [k EXCEPT !.op = Rc!NextOp(k), !.step = "new"]
               n == [k EXCEPT !.op = Rc!NextOp(k), !.step = "new", !.tries = 0]
    <3>3. m \in CallState /\ m.kind = k.kind /\ m.escrow = k.escrow /\ m.step = "new" /\ m.op = Rc!NextOp(k)
      BY <1>1, <3>2 DEF CallState, Rc!Steps
    <3>4. n = [m EXCEPT !.tries = 0]
      BY <1>1 DEF CallState
    <3> HIDE DEF m, n
    <3>5. n \in CallState /\ n.kind = m.kind /\ n.escrow = m.escrow /\ n.step = m.step /\ n.op = m.op
      BY <3>3, <3>4 DEF CallState
    <3>6. Rc!Succeeded(k) = n
      BY <3>1 DEF n
    <3>7. QED
      BY <2>2, <3>3, <3>5, <3>6
  <2>3. QED
    BY <2>1, <2>2
<1>6. calls' \in [RemoteCalls -> CallState] /\ calls'[c] = l /\ \A d \in RemoteCalls \ {c} : calls'[d] = calls[d]
  BY <1>5 DEF RemoteInv
<1> HIDE DEF k
<1>7. CASE Rc!IsLast(k)
  <2>1. l.step = "ok" /\ l.op = k.op /\ l.kind = k.kind /\ l.escrow = k.escrow
    BY <1>5, <1>7
  <2>2. /\ l.kind \in {"charge", "thinCharge"} => created'[c] > 0
        /\ l.kind \in {"settle", "thinSettle", "x402"} => escrows'[l.escrow] = "released"
        /\ l.kind \in {"refund", "thinRefund"} => escrows'[l.escrow] = "refunded"
        /\ l.kind \in {"remember", "thinRemember"} => memories' > 0
    BY <1>1, <1>2, <1>7, <2>1, LastRequest
  <2>3. /\ l.kind = "x402" => l.op = "release" /\ paid'[l.escrow] > 0
        /\ l.kind = "sessionEnd" => l.op = "consolidate" /\ memories' > 0
    BY <1>1, <1>3, <1>4, <1>7, <2>1, LastRequest DEF Under
  <2>4. Done(c)'
    BY <1>6, <2>2, <2>3 DEF Done
  <2>5. Rc!IsLast(l)
    BY <1>7, <2>1 DEF Rc!IsLast
  <2>6. Under(calls[c])'
    BY <1>6, <2>3, <2>5 DEF Under, Rc!IsLast
  <2>7. QED
    BY <2>4, <2>6, <1>2, <1>6, NothingUndone DEF RemoteInv, Grown
<1>8. CASE ~Rc!IsLast(k)
  <2>1. l.step = "new" /\ l.op = Rc!NextOp(k) /\ l.kind = k.kind /\ l.escrow = k.escrow
    BY <1>5, <1>8
  <2>2. Done(c)'
    BY <1>6, <2>1 DEF Done
  <2>3. k.kind = "x402" => k.op \in {"show", "pay"}
    BY <1>1, <1>8, LastRequest DEF Under
  <2>4. k.kind = "sessionEnd" => k.op = "store"
    BY <1>1, <1>8, LastRequest DEF Under
  <2>5. k.kind \in {"x402", "sessionEnd"}
    BY <1>1, <1>8 DEF Under
  <2>6. l.kind = "x402" => l.op \in {"pay", "release"} /\ (l.op = "release" => paid'[l.escrow] > 0)
    BY <1>1, <1>2, <2>1, <2>3, NextRequest
  <2>7. l.kind = "sessionEnd" => l.op = "consolidate" /\ memories' > 0
    BY <1>1, <1>2, <2>1, <2>4, NextRequest
  <2>8. Under(calls[c])'
    BY <1>6, <2>1, <2>5, <2>6, <2>7 DEF Under
  <2>9. QED
    BY <2>2, <2>8, <1>2, <1>6, NothingUndone DEF RemoteInv, Grown
<1>9. QED
  BY <1>7, <1>8

\* The answer of a request that failed or was refused.
LEMMA AnswerKeeps ==
  ASSUME RemoteInv, Grown, NEW r, r.call \in RemoteCalls, \A q \in wire' : q.call \in RemoteCalls,
         Rc!Answer(r, Rc!Failed(calls[r.call])) \/ Rc!Answer(r, Rc!Refused(calls[r.call]))
  PROVE  RemoteInv'
<1> DEFINE k == calls[r.call]
<1>1. k \in CallState
  BY DEF RemoteInv
<1>2. CASE ~Rc!Waits(r)
  BY <1>2, AllStay DEF Rc!Answer
<1>3. CASE Rc!Waits(r)
  <2>1. PICK l \in {[k EXCEPT !.step = "failed"], [k EXCEPT !.step = "backoff", !.tries = @ + 1]} :
          calls' = [calls EXCEPT ![r.call] = l]
    BY <1>3 DEF Rc!Answer, Rc!Failed, Rc!Refused
  <2>2. l \in CallState /\ l.kind = k.kind /\ l.op = k.op /\ l.escrow = k.escrow /\ l.step # "ok"
    BY <1>1, <2>1, FailedForm
  <2>3. QED
    BY <2>1, <2>2, CallStays
<1>4. QED
  BY <1>2, <1>3

\* Each step of the clients, the network and the server keeps the invariant.
LEMMA RemoteStep == ASSUME RemoteInv, [Rc!Next]_(Rc!vars) PROVE RemoteInv'
<1>1. CASE UNCHANGED Rc!vars
  BY <1>1, AllStay, NothingGrown DEF Rc!vars, RemoteInv
<1>2. ASSUME NEW c \in RemoteCalls, Rc!Send(c) PROVE RemoteInv'
  <2>1. Grown
    BY <1>2, NothingGrown DEF Rc!Send
  <2>2. \A q \in wire' : q.call \in RemoteCalls
    BY <1>2 DEF Rc!Send, Rc!Asks, RemoteInv
  <2> DEFINE l == [calls[c] EXCEPT !.step = "asking"]
  <2>3. calls' = [calls EXCEPT ![c] = l]
    BY <1>2 DEF Rc!Send, RemoteInv
  <2>4. calls[c] \in CallState /\ "asking" \in Rc!Steps
    BY DEF RemoteInv, Rc!Steps
  <2>5. l \in CallState /\ l.kind = calls[c].kind /\ l.op = calls[c].op /\ l.escrow = calls[c].escrow /\ l.step = "asking"
    BY <2>4, StepForm
  <2> HIDE DEF l
  <2>6. QED
    BY <2>1, <2>2, <2>3, <2>5, CallStays
<1>3. ASSUME NEW c \in RemoteCalls, Rc!Break(c) PROVE RemoteInv'
  <2>1. Grown
    BY <1>3, NothingGrown DEF Rc!Break
  <2>2. \A q \in wire' : q.call \in RemoteCalls
    BY <1>3 DEF Rc!Break, RemoteInv
  <2> DEFINE k == calls[c]
  <2>3. PICK l \in {[k EXCEPT !.step = "failed"], [k EXCEPT !.step = "backoff", !.tries = @ + 1]} :
          calls' = [calls EXCEPT ![c] = l]
    BY <1>3 DEF Rc!Break, Rc!Failed, RemoteInv
  <2>4. k \in CallState
    BY DEF RemoteInv
  <2>5. l \in CallState /\ l.kind = k.kind /\ l.op = k.op /\ l.escrow = k.escrow /\ l.step # "ok"
    BY <2>3, <2>4, FailedForm
  <2>6. QED
    BY <2>1, <2>2, <2>3, <2>5, CallStays
<1>4. ASSUME NEW r \in wire, Rc!Serve(r) PROVE RemoteInv'
  <2>1. r.call \in RemoteCalls /\ \A q \in wire' : q.call \in RemoteCalls
    BY <1>4 DEF Rc!Serve, RemoteInv
  <2>2. Rc!Does(r, calls[r.call].escrow)
    BY <1>4 DEF Rc!Serve
  <2>3. Grown
    BY <2>1, <2>2, ServerGrows DEF RemoteInv, CallState
  <2>4. CASE Rc!Answer(r, Rc!Succeeded(calls[r.call]))
    <3>1. CASE Rc!Waits(r)
      BY <2>1, <2>2, <2>4, <3>1, CallGetsOn DEF Rc!Answer
    <3>2. CASE ~Rc!Waits(r)
      BY <2>1, <2>3, <2>4, <3>2, AllStay DEF Rc!Answer
    <3>3. QED
      BY <3>1, <3>2
  <2>5. CASE Rc!Answer(r, Rc!Failed(calls[r.call])) \/ Rc!Answer(r, Rc!Refused(calls[r.call]))
    BY <2>1, <2>3, <2>5, AnswerKeeps
  <2>6. QED
    BY <1>4, <2>4, <2>5 DEF Rc!Serve
<1>5. ASSUME NEW r \in wire, Rc!Refuse(r) \/ Rc!Fail(r) PROVE RemoteInv'
  <2>1. r.call \in RemoteCalls /\ \A q \in wire' : q.call \in RemoteCalls
    BY <1>5 DEF Rc!Refuse, Rc!Fail, RemoteInv
  <2>2. Grown
    BY <1>5, NothingGrown DEF Rc!Refuse, Rc!Fail
  <2>3. QED
    BY <1>5, <2>1, <2>2, AnswerKeeps DEF Rc!Refuse, Rc!Fail
<1>6. QED
  BY <1>1, <1>2, <1>3, <1>4, <1>5 DEF Rc!Next

\* What a call of a remote client reports as done the servers did, whatever was lost,
\* repeated or late on the wire.
THEOREM ReportsAreTrue ==
  ASSUME RemoteAssumption
  PROVE  Rc!Spec => []Rc!ReportedIsDone
<1>1. RemoteInv => Rc!ReportedIsDone
  BY DEF RemoteInv, Done, Rc!ReportedIsDone
<1>2. QED
  BY <1>1, RemoteInit, RemoteStep, PTL DEF Rc!Spec

-----------------------------------------------------------------------------
(* The payment rails (Rails).                                              *)
(* What the provider took is told by the state of its books.  Under an AP2 *)
(* mandate, a hold that is being signed has its amount set aside as long   *)
(* as it is the only one.                                                  *)

ProviderStates == {"none", "invoiced", "authorized", "captured", "cancelled", "refunded"}

\* A provider that has yet to take the money has not taken it.
TakenOnce ==
    /\ provider \in [Holds -> [state : ProviderStates, captures : 0..1]]
    /\ \A h \in Holds : provider[h].state \in {"none", "invoiced", "authorized"} => provider[h].captures = 0

\* The holds that count against the mandate.
Counted == {h \in Holds : hold[h] \in {"held", "captured"}}

\* The mandate counts what is held, one hold is signed at a time and fits, and a capture
\* is asked of a hold that counts.
MandateInv ==
    rail = "ap2" /\ tidy =>
        /\ minted = SumFunctionOnSet(HoldAmount, Counted) /\ minted <= MaxAggregate
        /\ \A g, h \in Holds : hold[g] = "signing" /\ hold[h] = "signing" => g = h
        /\ \A h \in Holds : hold[h] = "signing" => minted + HoldAmount[h] <= MaxAggregate
        /\ \A c \in Callers : call[c] \in Holds => call[c] \in Counted

RailsInv ==
    /\ hold \in [Holds -> {"none", "signing", "held", "captured", "gone"}]
    /\ minted \in Int /\ tidy \in BOOLEAN
    /\ call \in [Callers -> Holds \cup {Rl!None}]
    /\ TakenOnce /\ MandateInv

\* The sum the module speaks of is the one the lemmas are about.
LEMMA RailsSum ==
  ASSUME NEW f, NEW S PROVE Rl!SumFunctionOnSet(f, S) = SumFunctionOnSet(f, S)
BY DEF Rl!SumFunctionOnSet, Rl!FoldFunctionOnSet, Rl!MapThenFoldSet,
       SumFunctionOnSet, FoldFunctionOnSet, MapThenFoldSet

\* Initially nothing is held, and nobody asks for a capture.
LEMMA RailsInit == ASSUME RailsAssumption, Rl!Init PROVE RailsInv
<1>1. Counted = {}
  BY DEF Rl!Init, Rl!InitWith, Counted
<1>2. MandateInv
  BY <1>1, SumEmpty DEF Rl!Init, Rl!InitWith, MandateInv, RailsAssumption
<1>3. TakenOnce
  BY DEF Rl!Init, Rl!InitWith, TakenOnce, ProviderStates
<1>4. QED
  BY <1>2, <1>3 DEF Rl!Init, Rl!InitWith, RailsInv

\* A request to capture takes the money of a hold that was not captured yet, and of an
\* AP2 intent.
LEMMA ProviderTakesOnce ==
  ASSUME TakenOnce, NEW h \in Holds, provider' = [provider EXCEPT ![h] = Rl!AtProvider(h)]
  PROVE  TakenOnce'
<1>1. Rl!AtProvider(h) = provider[h] \/ Rl!AtProvider(h) = [state |-> "captured", captures |-> 1]
  BY DEF Rl!AtProvider
<1>2. QED
  BY <1>1 DEF TakenOnce, ProviderStates

\* A step that leaves the holds where they are.
LEMMA MandateStays ==
  ASSUME MandateInv, UNCHANGED <<rail, minted>>, tidy' = tidy, Counted' = Counted,
         \A h \in Holds : hold'[h] = "signing" => hold[h] = "signing",
         \A c \in Callers : call'[c] \in Holds => call'[c] = call[c] \/ call'[c] \in Counted
  PROVE  MandateInv'
BY DEF MandateInv

\* Holds that count or are signed change, the rest stays.
LEMMA CountedStays ==
  ASSUME RailsInv, NEW h \in Holds, NEW s, hold' = [hold EXCEPT ![h] = s],
         s \in {"held", "captured"} <=> hold[h] \in {"held", "captured"}
  PROVE  Counted' = Counted
BY DEF Counted, RailsInv

\* A hold is only signed when the amounts held leave room for it.
LEMMA CreateKeeps ==
  ASSUME RailsAssumption, RailsInv, NEW h \in Holds, Rl!CreateHold(h)
  PROVE  RailsInv'
<1>1. Counted' = Counted
  BY CountedStays DEF Rl!CreateHold
<1>2. \A g \in Holds \ {h} : hold'[g] = hold[g]
  BY DEF Rl!CreateHold, RailsInv
<1>3. tidy' => tidy /\ \A g \in Holds : hold[g] # "signing"
  BY DEF Rl!CreateHold, RailsInv
<1>4. rail = "ap2" => minted + HoldAmount[h] <= MaxAggregate
  BY DEF Rl!CreateHold, Rl!WithinMandate
<1>5. MandateInv'
  <2>1. \A g \in Holds : tidy' /\ hold'[g] = "signing" => g = h
    BY <1>2, <1>3
  <2>2. QED
    BY <1>1, <1>3, <1>4, <2>1 DEF MandateInv, RailsInv, Rl!CreateHold
<1>6. hold' \in [Holds -> {"none", "signing", "held", "captured", "gone"}] /\ tidy' \in BOOLEAN
  BY DEF Rl!CreateHold, RailsInv
<1>7. TakenOnce'
  BY DEF Rl!CreateHold, RailsInv, TakenOnce
<1>8. QED
  BY <1>5, <1>6, <1>7 DEF RailsInv, Rl!CreateHold

\* What the rail holds is added to what the mandate counts.
LEMMA HeldKeeps ==
  ASSUME RailsAssumption, RailsInv, NEW h \in Holds, NEW state \in {"none", "invoiced", "authorized", "captured"},
         Rl!Held(h, state), minted' = IF rail = "ap2" THEN minted + HoldAmount[h] ELSE minted
  PROVE  RailsInv'
<1>1. /\ hold[h] = "signing" /\ hold' = [hold EXCEPT ![h] = "held"]
      /\ UNCHANGED <<rail, call, tidy>>
  BY DEF Rl!Held
<1>2. TakenOnce'
  BY DEF Rl!Held, RailsInv, TakenOnce, ProviderStates
<1>3. hold' \in [Holds -> {"none", "signing", "held", "captured", "gone"}] /\ minted' \in Int
  BY <1>1 DEF RailsInv, RailsAssumption
<1>4. h \notin Counted /\ Counted' = Counted \cup {h}
  BY <1>1 DEF Counted, RailsInv
<1>5. IsFiniteSet(Counted) /\ \A x \in Counted \cup {h} : HoldAmount[x] \in Int
  BY FS_Subset DEF Counted, RailsAssumption
<1>6. SumFunctionOnSet(HoldAmount, Counted') = HoldAmount[h] + SumFunctionOnSet(HoldAmount, Counted)
  BY <1>4, <1>5, SumAdd
<1>7. MandateInv'
  <2> SUFFICES ASSUME rail = "ap2", tidy PROVE MandateInv'
    BY <1>1 DEF MandateInv
  <2>1. minted' = minted + HoldAmount[h] /\ minted = SumFunctionOnSet(HoldAmount, Counted)
    BY DEF RailsInv, MandateInv
  <2>2. minted' = SumFunctionOnSet(HoldAmount, Counted')
    BY <1>6, <2>1 DEF RailsInv, RailsAssumption
  <2>3. minted' <= MaxAggregate
    BY <1>1, <2>1 DEF RailsInv, MandateInv
  <2>4. \A g \in Holds : hold'[g] # "signing"
    BY <1>1 DEF RailsInv, MandateInv
  <2>5. \A c \in Callers : call'[c] \in Holds => call'[c] \in Counted'
    BY <1>1, <1>4 DEF RailsInv, MandateInv
  <2>6. QED
    BY <2>2, <2>3, <2>4, <2>5 DEF MandateInv
<1>8. QED
  BY <1>1, <1>2, <1>3, <1>7 DEF RailsInv

\* An answer to a capture.
LEMMA CapturedKeeps ==
  ASSUME RailsAssumption, RailsInv, NEW h \in Holds, NEW cs, Rl!Captured(h, cs)
  PROVE  RailsInv'
<1>1. TakenOnce'
  BY ProviderTakesOnce DEF Rl!Captured, RailsInv
<1>2. call' \in [Callers -> Holds \cup {Rl!None}]
      /\ \A c \in Callers : call'[c] \in Holds => call'[c] = call[c]
  BY DEF Rl!Captured, Rl!Answer, RailsInv, RailsAssumption
<1>3. /\ rail' = rail /\ minted' = minted /\ tidy' = tidy
      /\ hold' = [hold EXCEPT ![h] = IF rail = "ap2" THEN "captured" ELSE hold[h]]
  BY DEF Rl!Captured, RailsInv
<1>4. hold' \in [Holds -> {"none", "signing", "held", "captured", "gone"}]
  BY <1>3 DEF RailsInv
<1>5. MandateInv'
  <2> SUFFICES ASSUME rail = "ap2", tidy PROVE MandateInv'
    BY <1>3 DEF MandateInv
  <2>1. PICK c \in Callers : call[c] = h
    BY DEF Rl!Captured, Rl!Requests, Rl!Waiters, Rl!Shares
  <2>2. h \in Counted
    BY <2>1 DEF RailsInv, MandateInv
  <2>3. Counted' = Counted /\ \A g \in Holds : hold'[g] = "signing" => hold[g] = "signing"
    BY <1>3, <2>2 DEF Counted, RailsInv
  <2>4. QED
    BY <1>2, <1>3, <2>3, MandateStays DEF RailsInv
<1>6. QED
  BY <1>1, <1>2, <1>3, <1>4, <1>5 DEF RailsInv

\* A capture that fails, carried out or not.
LEMMA CaptureFailsKeeps ==
  ASSUME RailsAssumption, RailsInv, NEW h \in Holds, NEW cs, NEW yes \in BOOLEAN, Rl!CaptureFails(h, cs, yes)
  PROVE  RailsInv'
<1>1. TakenOnce'
  <2>1. CASE yes
    BY <2>1, ProviderTakesOnce DEF Rl!CaptureFails, RailsInv
  <2>2. CASE ~yes
    BY <2>2 DEF Rl!CaptureFails, RailsInv, TakenOnce
  <2>3. QED
    BY <2>1, <2>2
<1>2. call' \in [Callers -> Holds \cup {Rl!None}]
      /\ \A c \in Callers : call'[c] \in Holds => call'[c] = call[c]
  BY DEF Rl!CaptureFails, Rl!Answer, RailsInv, RailsAssumption
<1>3. UNCHANGED <<rail, hold, minted, tidy>> /\ Counted' = Counted
  BY DEF Rl!CaptureFails, Counted
<1>4. MandateInv'
  BY <1>2, <1>3, MandateStays DEF RailsInv
<1>5. QED
  BY <1>1, <1>2, <1>3, <1>4 DEF RailsInv

\* A reversed hold gives its amount back, when no capture of it is asked for.
LEMMA AP2ReverseKeeps ==
  ASSUME RailsAssumption, RailsInv, NEW h \in Holds, Rl!AP2Reverse(h)
  PROVE  RailsInv'
<1>1. /\ hold[h] = "held" /\ hold' = [hold EXCEPT ![h] = "gone"] /\ minted' = minted - HoldAmount[h]
      /\ UNCHANGED <<rail, provider, call>> /\ (tidy' => tidy /\ Rl!Waiters(h) = {}) /\ tidy' \in BOOLEAN
  BY DEF Rl!AP2Reverse, RailsInv
<1>2. TakenOnce'
  BY <1>1 DEF RailsInv, TakenOnce
<1>3. hold' \in [Holds -> {"none", "signing", "held", "captured", "gone"}] /\ minted' \in Int
  BY <1>1 DEF RailsInv, RailsAssumption
<1>4. h \in Counted /\ Counted' = Counted \ {h}
  BY <1>1 DEF Counted, RailsInv
<1>5. IsFiniteSet(Counted) /\ \A x \in Counted : HoldAmount[x] \in Int
  BY FS_Subset DEF Counted, RailsAssumption
<1>6. SumFunctionOnSet(HoldAmount, Counted) = HoldAmount[h] + SumFunctionOnSet(HoldAmount, Counted')
  BY <1>4, <1>5, SumTake
<1>7. SumFunctionOnSet(HoldAmount, Counted') \in Int
  <2>1. IsFiniteSet(Counted')
    BY <1>4, <1>5, FS_RemoveElement
  <2>2. QED
    BY <1>4, <1>5, <2>1, SumInt
<1>8. MandateInv'
  <2> SUFFICES ASSUME rail = "ap2", tidy' PROVE MandateInv'
    BY <1>1 DEF MandateInv
  <2>1. tidy /\ Rl!Waiters(h) = {}
    BY <1>1
  <2>2. minted = SumFunctionOnSet(HoldAmount, Counted) /\ minted <= MaxAggregate
    BY <2>1 DEF RailsInv, MandateInv
  <2>3. minted' = SumFunctionOnSet(HoldAmount, Counted')
    BY <1>1, <1>6, <1>7, <2>2 DEF RailsAssumption
  <2>4. minted' <= minted
    BY <1>1 DEF RailsInv, RailsAssumption
  <2>5. minted' <= MaxAggregate
    BY <1>3, <2>2, <2>4 DEF RailsInv, RailsAssumption
  <2>6. \A g \in Holds : hold'[g] = "signing" => hold[g] = "signing" /\ minted' + HoldAmount[g] <= MaxAggregate
    BY <1>1, <1>3, <2>1, <2>4 DEF RailsInv, MandateInv, RailsAssumption
  <2>7. \A c \in Callers : call'[c] \in Holds => call'[c] \in Counted'
    BY <1>1, <1>4, <2>1 DEF RailsInv, MandateInv, Rl!Waiters
  <2>8. \A f, g \in Holds : hold'[f] = "signing" /\ hold'[g] = "signing" => f = g
    BY <2>1, <2>6 DEF RailsInv, MandateInv
  <2>9. QED
    BY <2>3, <2>5, <2>6, <2>7, <2>8 DEF MandateInv
<1>9. QED
  BY <1>1, <1>2, <1>3, <1>8 DEF RailsInv

\* Every step keeps the invariant.
LEMMA RailsStep ==
  ASSUME RailsAssumption, RailsInv, [Rl!Next]_(Rl!vars)
  PROVE  RailsInv'
<1>1. ASSUME UNCHANGED <<rail, hold, minted, call, tidy>>, TakenOnce' PROVE RailsInv'
  BY <1>1 DEF RailsInv, MandateInv, Counted
<1>2. CASE UNCHANGED Rl!vars
  BY <1>1, <1>2 DEF Rl!vars, RailsInv, TakenOnce
<1>3. ASSUME NEW h \in Holds, Rl!HoldFails(h) PROVE RailsInv'
  <2>1. Counted' = Counted
    BY <1>3, CountedStays DEF Rl!HoldFails
  <2>2. hold' \in [Holds -> {"none", "signing", "held", "captured", "gone"}]
        /\ \A g \in Holds : hold'[g] = "signing" => hold[g] = "signing"
    BY <1>3 DEF Rl!HoldFails, RailsInv
  <2>3. UNCHANGED <<rail, provider, minted, call, tidy>>
    BY <1>3 DEF Rl!HoldFails
  <2>4. MandateInv'
    BY <2>1, <2>2, <2>3, MandateStays DEF RailsInv
  <2>5. QED
    BY <2>2, <2>3, <2>4 DEF RailsInv, TakenOnce
<1>4. ASSUME NEW h \in Holds, Rl!PayerPays(h) PROVE RailsInv'
  <2>0. provider[h].captures = 0
    BY <1>4 DEF Rl!PayerPays, RailsInv, TakenOnce
  <2>1. provider' = [provider EXCEPT ![h] = [state |-> "captured", captures |-> 1]]
    BY <1>4, <2>0 DEF Rl!PayerPays
  <2>2. TakenOnce'
    BY <2>1 DEF RailsInv, TakenOnce, ProviderStates
  <2>3. QED
    BY <1>1, <1>4, <2>2 DEF Rl!PayerPays
<1>5. ASSUME NEW h \in Holds, Rl!NoteCapture(h) PROVE RailsInv'
  <2>1. rail' # "ap2"
    BY <1>5 DEF Rl!NoteCapture
  <2>2. QED
    BY <1>5, <2>1 DEF Rl!NoteCapture, RailsInv, MandateInv, TakenOnce
<1>6. ASSUME NEW h \in Holds,
             \/ Rl!StripeHeld(h) \/ Rl!StripeMppHeld(h) \/ Rl!PaystackHeld(h) \/ Rl!LightningHeld(h)
             \/ Rl!X402Held(h) \/ Rl!AP2Held(h)
      PROVE  RailsInv'
  BY <1>6, HeldKeeps
     DEF Rl!StripeHeld, Rl!StripeMppHeld, Rl!PaystackHeld, Rl!LightningHeld, Rl!X402Held, Rl!AP2Held
<1>7. ASSUME NEW h \in Holds, Rl!StripeReverse(h) \/ Rl!StripeMppReverse(h) \/ Rl!PaystackReverse(h)
      PROVE  RailsInv'
  <2>1. PICK to \in {"cancelled", "refunded"} : provider' = [provider EXCEPT ![h].state = to]
    BY <1>7 DEF Rl!StripeReverse, Rl!StripeMppReverse, Rl!PaystackReverse, Rl!Undo
  <2>2. TakenOnce'
    BY <2>1 DEF RailsInv, TakenOnce, ProviderStates
  <2>3. QED
    BY <1>1, <1>7, <2>2 DEF Rl!StripeReverse, Rl!StripeMppReverse, Rl!PaystackReverse, Rl!Undo
<1>8. ASSUME NEW h \in Holds, NEW c \in Callers, Rl!Capture(c, h) PROVE RailsInv'
  <2>1. call' \in [Callers -> Holds \cup {Rl!None}]
        /\ \A d \in Callers : call'[d] = call[d] \/ call'[d] = h
    BY <1>8 DEF Rl!Capture, RailsInv
  <2>2. h \in Counted /\ UNCHANGED <<rail, hold, provider, minted, tidy>> /\ Counted' = Counted
    BY <1>8 DEF Rl!Capture, Counted
  <2>3. MandateInv'
    BY <2>1, <2>2, MandateStays DEF RailsInv
  <2>4. QED
    BY <2>1, <2>2, <2>3 DEF RailsInv, TakenOnce
<1>9. QED
  BY <1>2, <1>3, <1>4, <1>5, <1>6, <1>7, <1>8, CreateKeeps, AP2ReverseKeeps, CapturedKeeps, CaptureFailsKeeps
     DEF Rl!Next

\* However captures overlap, are carried out unseen and retried, the money of a hold is
\* taken once; and while no hold is created during another, nor reversed during its
\* capture, what is held under the mandate is what it counts, within its aggregate.
THEOREM MandateHolds ==
  ASSUME RailsAssumption
  PROVE  Rl!Spec => [](Rl!CapturedOnce /\ Rl!MandateKept)
<1>1. RailsInv => Rl!CapturedOnce
  BY DEF RailsInv, TakenOnce, Rl!CapturedOnce
<1>2. RailsInv => Rl!MandateKept
  BY RailsSum DEF RailsInv, MandateInv, Counted, Rl!MandateKept
<1>3. QED
  BY <1>1, <1>2, RailsInit, RailsStep, PTL DEF Rl!Spec

-----------------------------------------------------------------------------
(* Deals between agents (AgentNetwork).                                    *)
(* The buyer's lock lets one deal of it be in progress, so what its token  *)
(* was checked for before the charge still fits when the charge settles,   *)
(* whatever happened to the token in between.                              *)

InProgress == {"charging", "settling", "buyer_memory", "seller_memory"}

\* The deals an agent paid, and what they come to.
PaidBy(a) == {d \in Deals : Buyer[d] = a /\ Nw!Paid(d)}
PaidTotal(a) == SumFunctionOnSet(Amount, PaidBy(a))

\* Where a deal's money is, by where its transact() is.
MoneyFollows(k) ==
    /\ k.pc \in {"idle", "charging"} => k.money = "none"
    /\ k.pc = "settling" => k.money = "held"
    /\ k.pc \in {"buyer_memory", "seller_memory"} => k.money = "settled"
    /\ k.pc = "refunding" => k.money = "refunded"

DealsTyped ==
    /\ DOMAIN token \subseteq AgentIds /\ token \in [DOMAIN token -> Nw!TokenState]
    /\ dealLocks \subseteq AgentIds /\ recorded \subseteq Deals
    /\ deal \in [Deals -> Nw!DealState]
    /\ \A d \in Deals : MoneyFollows(deal[d])
    /\ \A d \in recorded : deal[d].pc \in {"done", "refunding"}
    /\ \A d \in Deals : deal[d].pc # "idle" => Buyer[d] \in DOMAIN token

\* The locks are those of the deals in progress, one each.
LocksInv ==
    /\ \A d \in Deals : deal[d].pc \in InProgress => Buyer[d] \in dealLocks
    /\ \A d, e \in Deals :
         deal[d].pc \in InProgress /\ deal[e].pc \in InProgress /\ Buyer[d] = Buyer[e] => d = e
    /\ \A a \in dealLocks : \E d \in Deals : Buyer[d] = a /\ deal[d].pc \in InProgress

\* A deal that was checked still fits, and a token that is there counts what was paid.
FundsInv ==
    \A a \in AgentIds :
        /\ PaidTotal(a) <= MaxTotalSpend
        /\ \A d \in Deals : Buyer[d] = a /\ deal[d].pc \in {"charging", "settling"} =>
              PaidTotal(a) + Amount[d] <= MaxTotalSpend
        /\ a \in DOMAIN token /\ token[a].present => token[a].spent = PaidTotal(a)

NetworkInv == DealsTyped /\ LocksInv /\ FundsInv

\* The sum the module speaks of is the one the lemmas are about.
LEMMA NetworkSum ==
  ASSUME NEW f, NEW S PROVE Nw!SumFunctionOnSet(f, S) = SumFunctionOnSet(f, S)
BY DEF Nw!SumFunctionOnSet, Nw!FoldFunctionOnSet, Nw!MapThenFoldSet,
       SumFunctionOnSet, FoldFunctionOnSet, MapThenFoldSet

\* What an agent paid is a number, and nothing when it paid for nothing.
LEMMA TotalIsNat ==
  ASSUME NetworkAssumption, NEW a
  PROVE  PaidTotal(a) \in Nat /\ (PaidBy(a) = {} => PaidTotal(a) = 0)
<1>1. IsFiniteSet(PaidBy(a)) /\ \A d \in PaidBy(a) : Amount[d] \in Nat
  BY FS_Subset DEF PaidBy, NetworkAssumption
<1>2. QED
  BY <1>1, SumNat, SumEmpty DEF PaidTotal

\* Initially there are no deals and no tokens.
LEMMA NetworkInit == ASSUME NetworkAssumption, Nw!Init PROVE NetworkInv
<1>1. \A d \in Deals : deal[d] = [pc |-> "idle", money |-> "none"]
  BY DEF Nw!Init
<1>2. \A a : PaidTotal(a) = 0
  BY <1>1, TotalIsNat DEF PaidBy, Nw!Paid
<1>3. DOMAIN token = {}
  BY DEF Nw!Init
<1>4. DealsTyped
  <2>1. token \in [DOMAIN token -> Nw!TokenState]
    BY <1>3 DEF Nw!Init
  <2>2. deal \in [Deals -> Nw!DealState]
    BY DEF Nw!Init, Nw!DealState
  <2>3. QED
    BY <1>1, <1>3, <2>1, <2>2 DEF Nw!Init, DealsTyped, MoneyFollows
<1>5. LocksInv
  BY <1>1 DEF Nw!Init, LocksInv, InProgress
<1>6. FundsInv
  BY <1>1, <1>2, <1>3 DEF FundsInv, NetworkAssumption
<1>7. QED
  BY <1>4, <1>5, <1>6 DEF NetworkInv

\* Tokens change: those that are there still, or are new, count what was paid.
LEMMA TokensKeep ==
  ASSUME NetworkAssumption, NetworkInv, UNCHANGED <<dealLocks, deal, recorded>>,
         DOMAIN token \subseteq DOMAIN token', DOMAIN token' \subseteq AgentIds,
         token' \in [DOMAIN token' -> Nw!TokenState],
         \A a \in DOMAIN token' : token'[a].present =>
             \/ a \notin DOMAIN token /\ token'[a].spent = 0
             \/ a \in DOMAIN token /\ token[a].present /\ token'[a].spent = token[a].spent
  PROVE  NetworkInv'
<1>1. \A a \in AgentIds : PaidBy(a)' = PaidBy(a) /\ PaidTotal(a)' = PaidTotal(a)
  BY DEF PaidBy, PaidTotal, Nw!Paid
<1>2. ASSUME NEW a \in AgentIds, a \notin DOMAIN token PROVE PaidTotal(a) = 0
  <2>1. \A d \in Deals : Buyer[d] = a => deal[d].money = "none"
    BY <1>2 DEF NetworkInv, DealsTyped, MoneyFollows
  <2>2. PaidBy(a) = {}
    BY <2>1 DEF PaidBy, Nw!Paid
  <2>3. QED
    BY <2>2, TotalIsNat
<1>3. FundsInv'
  BY <1>1, <1>2 DEF NetworkInv, FundsInv
<1>4. DealsTyped'
  BY DEF NetworkInv, DealsTyped
<1>5. LocksInv'
  BY DEF NetworkInv, LocksInv
<1>6. QED
  BY <1>3, <1>4, <1>5 DEF NetworkInv

\* A deal moves on and pays nothing: the funds stay as they were.
LEMMA NothingPaid ==
  ASSUME NetworkAssumption, NetworkInv, UNCHANGED token, NEW d \in Deals, NEW k \in Nw!DealState,
         deal' = [deal EXCEPT ![d] = k],
         k.money \in {"settled", "refunded"} <=> deal[d].money \in {"settled", "refunded"},
         k.pc \in {"charging", "settling"} =>
             \/ deal[d].pc \in {"charging", "settling"}
             \/ PaidTotal(Buyer[d]) + Amount[d] <= MaxTotalSpend
  PROVE  FundsInv'
<1>1. deal'[d] = k /\ \A e \in Deals \ {d} : deal'[e] = deal[e]
  BY DEF NetworkInv, DealsTyped
<1>2. \A a \in AgentIds : PaidBy(a)' = PaidBy(a)
  BY <1>1 DEF PaidBy, Nw!Paid
<1>3. \A a \in AgentIds : PaidTotal(a)' = PaidTotal(a)
  BY <1>2 DEF PaidTotal
<1>4. QED
  BY <1>1, <1>3 DEF NetworkInv, FundsInv

\* A deal in progress that goes on keeps its lock.
LEMMA LocksStay ==
  ASSUME NetworkInv, UNCHANGED dealLocks, NEW d \in Deals, NEW k \in Nw!DealState,
         deal' = [deal EXCEPT ![d] = k], k.pc \in InProgress <=> deal[d].pc \in InProgress
  PROVE  LocksInv'
<1>1. deal'[d] = k /\ \A e \in Deals \ {d} : deal'[e] = deal[e]
  BY DEF NetworkInv, DealsTyped
<1>2. \A e \in Deals : deal'[e].pc \in InProgress <=> deal[e].pc \in InProgress
  BY <1>1
<1>3. QED
  BY <1>2 DEF NetworkInv, LocksInv

\* A deal that ends gives its lock back.
LEMMA LockReturned ==
  ASSUME NetworkAssumption, NetworkInv, NEW d \in Deals, NEW k \in Nw!DealState, deal[d].pc \in InProgress,
         deal' = [deal EXCEPT ![d] = k], k.pc \notin InProgress, dealLocks' = dealLocks \ {Buyer[d]}
  PROVE  LocksInv'
<1>1. deal'[d] = k /\ \A e \in Deals \ {d} : deal'[e] = deal[e]
  BY DEF NetworkInv, DealsTyped
<1>2. \A e \in Deals : deal'[e].pc \in InProgress => e # d /\ deal[e].pc \in InProgress /\ Buyer[e] # Buyer[d]
  BY <1>1 DEF NetworkInv, LocksInv
<1>3. ASSUME NEW a \in dealLocks' PROVE \E e \in Deals : Buyer[e] = a /\ deal'[e].pc \in InProgress
  BY <1>1, <1>3 DEF NetworkInv, LocksInv
<1>4. QED
  BY <1>2, <1>3 DEF NetworkInv, LocksInv

\* A deal moves on with its types kept.
LEMMA DealTyped ==
  ASSUME NetworkInv, NEW d \in Deals, NEW k \in Nw!DealState, MoneyFollows(k),
         deal' = [deal EXCEPT ![d] = k], Buyer[d] \in DOMAIN token, UNCHANGED token, dealLocks' \subseteq AgentIds,
         recorded' \subseteq recorded \cup {d}, d \in recorded' => k.pc \in {"done", "refunding"}
  PROVE  DealsTyped'
<1>1. deal'[d] = k /\ \A e \in Deals \ {d} : deal'[e] = deal[e]
  BY DEF NetworkInv, DealsTyped
<1>2. deal' \in [Deals -> Nw!DealState]
  BY DEF NetworkInv, DealsTyped
<1>3. QED
  BY <1>1, <1>2 DEF NetworkInv, DealsTyped

\* The states a deal steps through.
LEMMA DealForms ==
  ASSUME NEW pc \in {"charging", "settling", "buyer_memory", "seller_memory", "done", "threw", "refunding"},
         NEW money \in {"none", "held", "settled", "refunded"}
  PROVE  [pc |-> pc, money |-> money] \in Nw!DealState
BY DEF Nw!DealState

\* A deal that begins.
LEMMA TransactKeeps ==
  ASSUME NetworkAssumption, NetworkInv, NEW d \in Deals, Nw!Transact(d)
  PROVE  NetworkInv'
<1> DEFINE k == [pc |-> "charging", money |-> "none"]
<1>1. /\ deal[d].pc = "idle" /\ Buyer[d] \in DOMAIN token /\ Buyer[d] \notin dealLocks
      /\ dealLocks' = dealLocks \cup {Buyer[d]} /\ deal' = [deal EXCEPT ![d] = k]
      /\ UNCHANGED <<token, recorded>>
      /\ token[Buyer[d]].present /\ token[Buyer[d]].spent + Amount[d] <= MaxTotalSpend
  BY DEF Nw!Transact, Nw!Step, Nw!ValidateToken
<1>2. k \in Nw!DealState /\ k.pc = "charging" /\ k.money = "none"
  BY DEF Nw!DealState
<1> HIDE DEF k
<1>3. Buyer[d] \in AgentIds /\ deal[d].money = "none"
  BY <1>1 DEF NetworkAssumption, NetworkInv, DealsTyped, MoneyFollows
<1>4. DealsTyped'
  BY <1>1, <1>2, <1>3, DealTyped DEF MoneyFollows, NetworkInv, DealsTyped
<1>5. PaidTotal(Buyer[d]) + Amount[d] <= MaxTotalSpend
  BY <1>1, <1>3 DEF NetworkInv, FundsInv
<1>6. FundsInv'
  BY <1>1, <1>2, <1>3, <1>5, NothingPaid
<1>7. LocksInv'
  <2>1. deal'[d] = k /\ \A e \in Deals \ {d} : deal'[e] = deal[e]
    BY <1>1 DEF NetworkInv, DealsTyped
  <2>2. \A e \in Deals : e # d /\ deal[e].pc \in InProgress => Buyer[e] # Buyer[d]
    BY <1>1 DEF NetworkInv, LocksInv
  <2>3. "charging" \in InProgress
    BY DEF InProgress
  <2>4. \A a \in dealLocks' : \E e \in Deals : Buyer[e] = a /\ deal'[e].pc \in InProgress
    <3>1. ASSUME NEW a \in dealLocks PROVE \E e \in Deals : Buyer[e] = a /\ deal'[e].pc \in InProgress
      <4>1. PICK e \in Deals : Buyer[e] = a /\ deal[e].pc \in InProgress
        BY DEF NetworkInv, LocksInv
      <4>2. e # d
        BY <1>1, <4>1 DEF InProgress
      <4>3. QED
        BY <2>1, <4>1, <4>2
    <3>2. QED
      BY <1>1, <1>2, <2>1, <2>3, <3>1
  <2>5. QED
    BY <1>1, <1>2, <2>1, <2>2, <2>4 DEF NetworkInv, LocksInv
<1>8. QED
  BY <1>4, <1>6, <1>7 DEF NetworkInv

\* A deal in progress that goes on, unpaid or paid as it was.
LEMMA GoesOn ==
  ASSUME NetworkAssumption, NetworkInv, NEW d \in Deals, NEW pc, NEW money, Nw!Step(d, pc, money),
         UNCHANGED <<token, dealLocks, recorded>>,
         \/ deal[d].pc = "charging" /\ pc = "settling" /\ money = "held"
         \/ deal[d].pc = "buyer_memory" /\ pc = "seller_memory" /\ money = deal[d].money
         \/ deal[d].pc = "done" /\ deal[d].money = "settled" /\ pc = "refunding" /\ money = "refunded"
         \/ deal[d].pc = "refunding" /\ pc = "done" /\ money = "refunded"
  PROVE  NetworkInv'
<1> DEFINE k == [pc |-> pc, money |-> money]
<1>1. deal[d] \in Nw!DealState /\ MoneyFollows(deal[d]) /\ deal[d].pc # "idle" /\ Buyer[d] \in DOMAIN token
  BY DEF NetworkInv, DealsTyped
<1>2. money \in {"held", "settled", "refunded"}
  BY <1>1 DEF Nw!DealState, MoneyFollows
<1>3. k \in Nw!DealState /\ k.pc = pc /\ k.money = money /\ deal' = [deal EXCEPT ![d] = k]
  BY <1>2, DealForms DEF Nw!Step
<1> HIDE DEF k
<1>4. MoneyFollows(k)
  BY <1>1, <1>3 DEF MoneyFollows
<1>5. d \in recorded => pc \in {"done", "refunding"}
  BY DEF NetworkInv, DealsTyped
<1>6. DealsTyped'
  BY <1>1, <1>3, <1>4, <1>5, DealTyped DEF NetworkInv, DealsTyped
<1>7. money \in {"settled", "refunded"} <=> deal[d].money \in {"settled", "refunded"}
  BY <1>1 DEF MoneyFollows
<1>8. pc \in {"charging", "settling"} => deal[d].pc \in {"charging", "settling"}
  OBVIOUS
<1>9. FundsInv'
  BY <1>3, <1>7, <1>8, NothingPaid
<1>10. k.pc \in InProgress <=> deal[d].pc \in InProgress
  BY <1>3 DEF InProgress
<1>11. LocksInv'
  BY <1>3, <1>10, LocksStay
<1>12. QED
  BY <1>6, <1>9, <1>11 DEF NetworkInv

\* A deal that ends, paid as it was.
LEMMA Ends ==
  ASSUME NetworkAssumption, NetworkInv, NEW d \in Deals, deal[d].pc \in InProgress, UNCHANGED token,
         NEW pc \in {"threw", "done"}, Nw!Step(d, pc, deal[d].money), dealLocks' = dealLocks \ {Buyer[d]},
         recorded' \subseteq recorded \cup {d}, pc = "threw" => recorded' = recorded
  PROVE  NetworkInv'
<1> DEFINE k == [pc |-> pc, money |-> deal[d].money]
<1>1. deal[d] \in Nw!DealState /\ deal[d].pc # "idle" /\ Buyer[d] \in DOMAIN token
  BY DEF NetworkInv, DealsTyped, InProgress
<1>2. k \in Nw!DealState /\ k.pc = pc /\ k.money = deal[d].money /\ deal' = [deal EXCEPT ![d] = k]
  BY <1>1, DealForms DEF Nw!Step, Nw!DealState
<1> HIDE DEF k
<1>3. d \notin recorded
  BY DEF NetworkInv, DealsTyped, InProgress
<1>4. DealsTyped'
  BY <1>1, <1>2, <1>3, DealTyped DEF MoneyFollows, NetworkInv, DealsTyped
<1>5. FundsInv'
  BY <1>2, NothingPaid
<1>6. LocksInv'
  BY <1>2, LockReturned DEF InProgress
<1>7. QED
  BY <1>4, <1>5, <1>6 DEF NetworkInv

\* A deal that settles pays what was set aside for it.
LEMMA SettledKeeps ==
  ASSUME NetworkAssumption, NetworkInv, NEW d \in Deals, Nw!Settled(d)
  PROVE  NetworkInv'
<1> DEFINE b == Buyer[d]
<1>1. /\ deal[d].pc = "settling" /\ deal[d].money = "held" /\ b \in AgentIds /\ b \in DOMAIN token
      /\ recorded' = recorded /\ d \notin recorded
  BY DEF Nw!Settled, NetworkInv, DealsTyped, MoneyFollows, NetworkAssumption
<1>2. PICK k \in Nw!DealState :
        /\ k.money = "settled" /\ deal' = [deal EXCEPT ![d] = k]
        /\ \/ /\ token[b].present /\ k.pc = "buyer_memory" /\ dealLocks' = dealLocks
              /\ token' = [token EXCEPT ![b].spent = @ + Amount[d]]
           \/ ~token[b].present /\ k.pc = "threw" /\ dealLocks' = dealLocks \ {b} /\ token' = token
  <2>1. CASE token[b].present
    BY <2>1, DealForms DEF Nw!Settled, Nw!Step
  <2>2. CASE ~token[b].present
    BY <2>2, DealForms DEF Nw!Settled, Nw!Step, Nw!Throw
  <2>3. QED
    BY <2>1, <2>2
<1>3. deal'[d] = k /\ \A e \in Deals \ {d} : deal'[e] = deal[e]
  BY <1>2 DEF NetworkInv, DealsTyped
<1>4. Amount[d] \in Nat
  BY DEF NetworkAssumption
<1>5. /\ DOMAIN token' = DOMAIN token /\ token' \in [DOMAIN token -> Nw!TokenState]
      /\ \A a \in DOMAIN token \ {b} : token'[a] = token[a]
      /\ token'[b].present => token[b].present /\ token'[b].spent = token[b].spent + Amount[d]
  <2>1. token[b] \in Nw!TokenState /\ token \in [DOMAIN token -> Nw!TokenState]
    BY <1>1 DEF NetworkInv, DealsTyped
  <2> DEFINE t == [token[b] EXCEPT !.spent = @ + Amount[d]]
  <2>2. t \in Nw!TokenState /\ t.spent = token[b].spent + Amount[d]
    BY <1>4, <2>1 DEF Nw!TokenState
  <2>3. CASE token[b].present
    <3>1. token' = [token EXCEPT ![b] = t]
      BY <1>1, <1>2, <2>1, <2>3
    <3> HIDE DEF t
    <3>2. QED
      BY <1>1, <2>1, <2>2, <2>3, <3>1
  <2>4. CASE ~token[b].present
    BY <1>2, <2>1, <2>4
  <2>5. QED
    BY <2>3, <2>4
<1>6. MoneyFollows(k)
  BY <1>2 DEF MoneyFollows
<1>7. DealsTyped'
  BY <1>1, <1>2, <1>3, <1>5, <1>6 DEF NetworkInv, DealsTyped
<1>8. LocksInv'
  <2>1. CASE token[b].present
    BY <1>1, <1>2, <2>1, LocksStay DEF InProgress
  <2>2. CASE ~token[b].present
    BY <1>1, <1>2, <2>2, LockReturned DEF InProgress
  <2>3. QED
    BY <2>1, <2>2
<1>9. PaidBy(b)' = PaidBy(b) \cup {d} /\ d \notin PaidBy(b)
  BY <1>1, <1>2, <1>3 DEF PaidBy, Nw!Paid
<1>10. PaidTotal(b)' = PaidTotal(b) + Amount[d]
  <2>1. IsFiniteSet(PaidBy(b)) /\ \A x \in PaidBy(b) \cup {d} : Amount[x] \in Int
    BY FS_Subset DEF PaidBy, NetworkAssumption
  <2>2. SumFunctionOnSet(Amount, PaidBy(b) \cup {d}) = Amount[d] + SumFunctionOnSet(Amount, PaidBy(b))
    BY <1>9, <2>1, SumAdd
  <2>3. PaidTotal(b) \in Nat
    BY TotalIsNat
  <2>4. QED
    BY <1>4, <1>9, <2>2, <2>3 DEF PaidTotal
<1>11. \A a \in AgentIds \ {b} : PaidTotal(a)' = PaidTotal(a)
  <2>1. \A a \in AgentIds \ {b} : PaidBy(a)' = PaidBy(a)
    BY <1>3 DEF PaidBy, Nw!Paid
  <2>2. QED
    BY <2>1 DEF PaidTotal
<1>12. \A e \in Deals : deal'[e].pc \in {"charging", "settling"} => e # d /\ deal[e].pc \in {"charging", "settling"}
  BY <1>2, <1>3
<1>13. \A e \in Deals : deal'[e].pc \in {"charging", "settling"} => Buyer[e] # b
  BY <1>1, <1>12 DEF NetworkInv, LocksInv, InProgress
<1>14. FundsInv'
  <2>1. ASSUME NEW a \in AgentIds, a # b
        PROVE  /\ PaidTotal(a)' <= MaxTotalSpend
               /\ \A e \in Deals : Buyer[e] = a /\ deal'[e].pc \in {"charging", "settling"} =>
                     PaidTotal(a)' + Amount[e] <= MaxTotalSpend
               /\ a \in DOMAIN token' /\ token'[a].present => token'[a].spent = PaidTotal(a)'
    BY <1>5, <1>11, <1>12, <2>1 DEF NetworkInv, FundsInv
  <2>2. PaidTotal(b)' <= MaxTotalSpend
    BY <1>1, <1>10 DEF NetworkInv, FundsInv
  <2>3. b \in DOMAIN token' /\ token'[b].present => token'[b].spent = PaidTotal(b)'
    BY <1>1, <1>5, <1>10 DEF NetworkInv, FundsInv
  <2>4. QED
    BY <1>13, <2>1, <2>2, <2>3 DEF FundsInv
<1>15. QED
  BY <1>7, <1>8, <1>14 DEF NetworkInv

\* Every step keeps the invariant.
LEMMA NetworkStep ==
  ASSUME NetworkAssumption, NetworkInv, [Nw!Next]_(Nw!vars)
  PROVE  NetworkInv'
<1>1. CASE UNCHANGED Nw!vars
  BY <1>1, TokensKeep DEF Nw!vars, NetworkInv, DealsTyped
<1>2. ASSUME NEW a \in AgentIds, Nw!Register(a) PROVE NetworkInv'
  <2> DEFINE t == [present |-> TRUE, revoked |-> FALSE, expired |-> FALSE, spent |-> 0]
  <2>1. /\ a \notin DOMAIN token
        /\ token' = [b \in DOMAIN token \cup {a} |-> IF b = a THEN t ELSE token[b]]
    BY <1>2 DEF Nw!Register
  <2>2. t \in Nw!TokenState /\ t.spent = 0
    BY DEF Nw!TokenState
  <2> HIDE DEF t
  <2>3. DOMAIN token' = DOMAIN token \cup {a} /\ token'[a] = t /\ \A b \in DOMAIN token : token'[b] = token[b]
    BY <2>1
  <2>4. token' \in [DOMAIN token' -> Nw!TokenState]
    BY <2>1, <2>2, <2>3 DEF NetworkInv, DealsTyped
  <2>5. UNCHANGED <<dealLocks, deal, recorded>> /\ DOMAIN token' \subseteq AgentIds
    BY <1>2, <2>3 DEF Nw!Register, NetworkInv, DealsTyped
  <2>6. QED
    BY <2>1, <2>2, <2>3, <2>4, <2>5, TokensKeep
<1>3. ASSUME NEW a \in AgentIds, Nw!RevokeToken(a) \/ Nw!TokenExpires(a) PROVE NetworkInv'
  <2>1. a \in DOMAIN token /\ token[a] \in Nw!TokenState /\ token \in [DOMAIN token -> Nw!TokenState]
    BY <1>3 DEF Nw!RevokeToken, Nw!TokenExpires, NetworkInv, DealsTyped
  <2>2. PICK t \in {[token[a] EXCEPT !.revoked = TRUE], [token[a] EXCEPT !.expired = TRUE]} :
          token' = [token EXCEPT ![a] = t]
    BY <1>3, <2>1 DEF Nw!RevokeToken, Nw!TokenExpires
  <2>3. t \in Nw!TokenState /\ t.spent = token[a].spent /\ (t.present <=> token[a].present)
    BY <2>1 DEF Nw!TokenState
  <2>4. /\ DOMAIN token' = DOMAIN token /\ token' \in [DOMAIN token' -> Nw!TokenState]
        /\ token'[a] = t /\ \A b \in DOMAIN token \ {a} : token'[b] = token[b]
    BY <2>1, <2>2, <2>3
  <2>5. UNCHANGED <<dealLocks, deal, recorded>> /\ DOMAIN token' \subseteq AgentIds
    BY <1>3, <2>4 DEF Nw!RevokeToken, Nw!TokenExpires, NetworkInv, DealsTyped
  <2>6. QED
    BY <2>1, <2>3, <2>4, <2>5, TokensKeep
<1>4. CASE Nw!PurgeExpiredTokens
  <2>1. token \in [DOMAIN token -> Nw!TokenState]
    BY DEF NetworkInv, DealsTyped
  <2>2. token' = [a \in DOMAIN token |->
                    [token[a] EXCEPT !.present = @ /\ ~token[a].revoked /\ ~token[a].expired]]
    BY <1>4 DEF Nw!PurgeExpiredTokens
  <2>3. \A a \in DOMAIN token : /\ token'[a] \in Nw!TokenState /\ token'[a].spent = token[a].spent
                                /\ token'[a].present => token[a].present
    <3> SUFFICES ASSUME NEW a \in DOMAIN token
                 PROVE  /\ token'[a] \in Nw!TokenState /\ token'[a].spent = token[a].spent
                        /\ token'[a].present => token[a].present
      OBVIOUS
    <3>1. token[a] \in Nw!TokenState
      BY <2>1
    <3>2. token'[a] = [token[a] EXCEPT !.present = @ /\ ~token[a].revoked /\ ~token[a].expired]
      BY <2>2
    <3>3. QED
      BY <3>1, <3>2 DEF Nw!TokenState
  <2>4. DOMAIN token' = DOMAIN token /\ token' \in [DOMAIN token' -> Nw!TokenState]
    BY <2>2, <2>3
  <2>5. UNCHANGED <<dealLocks, deal, recorded>> /\ DOMAIN token' \subseteq AgentIds
    BY <1>4, <2>4 DEF Nw!PurgeExpiredTokens, NetworkInv, DealsTyped
  <2>6. QED
    BY <2>3, <2>4, <2>5, TokensKeep
<1>5. ASSUME NEW d \in Deals, Nw!Charged(d) \/ Nw!BuyerRemembers(d) PROVE NetworkInv'
  BY <1>5, GoesOn DEF Nw!Charged, Nw!BuyerRemembers
<1>6. ASSUME NEW d \in Deals, Nw!RefundDeal(d) PROVE NetworkInv'
  <2>1. deal[d].pc = "done" /\ deal[d].money = "settled"
    BY <1>6 DEF Nw!RefundDeal, NetworkInv, DealsTyped, MoneyFollows
  <2>2. QED
    BY <1>6, <2>1, GoesOn DEF Nw!RefundDeal
<1>7. ASSUME NEW d \in Deals, Nw!RefundRemembered(d) PROVE NetworkInv'
  BY <1>7, GoesOn DEF Nw!RefundRemembered
<1>8. ASSUME NEW d \in Deals, Nw!Refused(d) PROVE NetworkInv'
  BY <1>8, Ends DEF Nw!Refused, Nw!Throw, InProgress
<1>9. ASSUME NEW d \in Deals, Nw!SettleThrows(d) PROVE NetworkInv'
  <2>1. deal[d].money = "held"
    BY <1>9 DEF Nw!SettleThrows, NetworkInv, DealsTyped, MoneyFollows
  <2>2. QED
    BY <1>9, <2>1, Ends DEF Nw!SettleThrows, Nw!Throw, InProgress
<1>10. ASSUME NEW d \in Deals, Nw!SellerRemembers(d) PROVE NetworkInv'
  BY <1>10, Ends DEF Nw!SellerRemembers, InProgress
<1>11. QED
  BY <1>1, <1>2, <1>3, <1>4, <1>5, <1>6, <1>7, <1>8, <1>9, <1>10, TransactKeeps, SettledKeeps DEF Nw!Next

\* However deals, revocations and purges interleave, an agent pays within the total its
\* token was issued for, and it is locked exactly while a deal of it is in progress.
THEOREM DealsWithinTokens ==
  ASSUME NetworkAssumption
  PROVE  Nw!Spec => [](Nw!PaidWithinToken /\ Nw!LockedWhileDealing)
<1>1. NetworkInv => Nw!PaidWithinToken
  BY NetworkSum DEF NetworkInv, FundsInv, PaidTotal, PaidBy, Nw!PaidWithinToken
<1>2. NetworkInv => Nw!LockedWhileDealing
  BY DEF NetworkInv, LocksInv, DealsTyped, InProgress, Nw!LockedWhileDealing
<1>3. QED
  BY <1>1, <1>2, NetworkInit, NetworkStep, PTL DEF Nw!Spec

-----------------------------------------------------------------------------
(* The gateway's tenants (Gateway).                                        *)
(* An engine belongs to one tenant and one door.  Through the tools' door, *)
(* every call of a tenant works with the one engine that is stored, or     *)
(* waits for it to be built.                                               *)

KeyState == [tenant : Tenants, revoked : BOOLEAN]
EngineState == [owner : Tenants, mandate : Nat]
WorkState == [door : Gw!Doors, tenant : Tenants, op : Gw!Ops, engine : Nat]

\* The engine of a tenant, and the one a request works with, are the tenant's.
Owned ==
    /\ \A d \in Gw!Doors, t \in Tenants :
         (engine[d][t] \in DOMAIN engines /\ engines[engine[d][t]].owner = t) \/ engine[d][t] \in {Gw!None, Gw!Building}
    /\ \A w \in work : w.engine # Gw!None => w.engine \in DOMAIN engines /\ engines[w.engine].owner = w.tenant

\* A call of a tool waits for the engine that is being built, or works with the one that
\* is stored, which no route works with.
OneDoor ==
    /\ \A t \in Tenants : engine["rest"][t] # Gw!Building
    /\ \A w \in work : w.door = "tool" =>
         IF w.engine = Gw!None THEN engine["tool"][w.tenant] = Gw!Building ELSE engine["tool"][w.tenant] = w.engine
    /\ \A w \in work, t \in Tenants : w.door = "rest" /\ w.engine # Gw!None => engine["tool"][t] # w.engine
    /\ \A t, u \in Tenants : engine["tool"][t] \in DOMAIN engines => engine["tool"][t] # engine["rest"][u]

GatewayTyped ==
    /\ keys \in Seq(KeyState) /\ stored \in Seq(KeyState)
    /\ engine \in [Gw!Doors -> [Tenants -> Int]] /\ acked \in [Gw!Doors -> [Tenants -> Nat]]
    /\ engines \in Seq(EngineState) /\ work \subseteq WorkState

GatewayInv == GatewayTyped /\ Owned /\ OneDoor /\ Gw!OwnWallet /\ Gw!MandateInForce

\* Initially, and after a restart, there is no engine.
LEMMA NoEngines ==
  ASSUME keys \in Seq(KeyState), stored \in Seq(KeyState),
         engine = Gw!Nothing, acked = Gw!Nothing, engines = <<>>, work = {}, paid = {}
  PROVE  GatewayInv
<1>1. \A d \in Gw!Doors, t \in Tenants : engine[d][t] = 0 /\ acked[d][t] = 0
  BY DEF Gw!Nothing, Gw!None
<1>2. GatewayTyped
  BY DEF GatewayTyped, Gw!Nothing, Gw!None
<1>3. "tool" \in Gw!Doors /\ "rest" \in Gw!Doors /\ DOMAIN engines = {}
  BY DEF Gw!Doors
<1>4. Owned /\ OneDoor
  BY <1>1, <1>3 DEF Owned, OneDoor, Gw!None, Gw!Building
<1>5. Gw!OwnWallet /\ Gw!MandateInForce
  BY <1>1, <1>3 DEF Gw!OwnWallet, Gw!MandateInForce, Gw!InForce, Gw!None
<1>6. QED
  BY <1>2, <1>4, <1>5 DEF GatewayInv

\* Steps that leave the engines and the requests alone.
LEMMA ShopsStay ==
  ASSUME GatewayInv, UNCHANGED <<engine, engines, acked, work>>, Gw!OwnWallet',
         keys' \in Seq(KeyState), stored' \in Seq(KeyState)
  PROVE  GatewayInv'
BY DEF GatewayInv, GatewayTyped, Owned, OneDoor, Gw!MandateInForce, Gw!InForce

\* Whom a request acts for is a tenant.
LEMMA ActsForTenant ==
  ASSUME GatewayAssumption, GatewayInv, NEW k \in {Gw!None} \cup DOMAIN keys, NEW named \in {Gw!None} \cup Tenants
  PROVE  Gw!ActingAgent(k, named) \in Tenants
<1>1. CASE k = Gw!None
  BY <1>1 DEF GatewayAssumption, Gw!ActingAgent
<1>2. CASE k # Gw!None
  <2>1. k \in DOMAIN keys /\ keys \in Seq(KeyState)
    BY <1>2 DEF GatewayInv, GatewayTyped
  <2>2. keys[k] \in KeyState
    BY <2>1
  <2>3. QED
    BY <1>2, <2>2 DEF KeyState, Gw!ActingAgent
<1>3. QED
  BY <1>1, <1>2

\* A key that is revoked is still a key.
LEMMA RevokedForm ==
  ASSUME NEW r \in KeyState
  PROVE  [r EXCEPT !.revoked = TRUE] \in KeyState
BY DEF KeyState

\* An engine with another mandate is still its owner's.
LEMMA MandateForm ==
  ASSUME NEW r \in EngineState, NEW m \in Nat
  PROVE  LET n == [r EXCEPT !.mandate = m] IN n \in EngineState /\ n.mandate = m /\ n.owner = r.owner
BY DEF EngineState

\* A request that shops joins the work, with the engine that is stored.
LEMMA ShopKeeps ==
  ASSUME GatewayAssumption, GatewayInv, NEW a, NEW k \in {Gw!None} \cup DOMAIN keys,
         NEW named \in {Gw!None} \cup Tenants, NEW door \in Gw!Doors, NEW op \in Gw!Ops, Gw!Shop(a, k, named, door, op)
  PROVE  GatewayInv'
<1> DEFINE t == Gw!ActingAgent(k, named)
           e == engine[door][t]
           n == IF e = Gw!Building THEN Gw!None ELSE e
           w == [door |-> door, tenant |-> t, op |-> op, engine |-> n]
<1>1. /\ work' = work \cup {w}
      /\ engine' = (IF door = "tool" /\ e = Gw!None THEN [engine EXCEPT ![door][t] = Gw!Building] ELSE engine)
      /\ UNCHANGED <<keys, stored, engines, acked, paid>>
  BY DEF Gw!Shop, Gw!access
<1>2. t \in Tenants
  BY ActsForTenant
<1> HIDE DEF t
<1>3. /\ engine \in [Gw!Doors -> [Tenants -> Int]] /\ engines \in Seq(EngineState) /\ work \subseteq WorkState
      /\ "tool" \in Gw!Doors /\ "rest" \in Gw!Doors
  BY DEF GatewayInv, GatewayTyped, Gw!Doors
<1>4. (e \in DOMAIN engines /\ engines[e].owner = t) \/ e \in {Gw!None, Gw!Building}
  BY <1>2 DEF GatewayInv, Owned
<1>5. n \in Nat /\ (n # Gw!None => n = e /\ e \in DOMAIN engines /\ engines[n].owner = t)
  BY <1>3, <1>4 DEF Gw!None, Gw!Building
<1>6. w \in WorkState /\ w.door = door /\ w.tenant = t /\ w.engine = n
  BY <1>2, <1>5 DEF WorkState
<1> HIDE DEF n, w
<1>7. /\ engine' \in [Gw!Doors -> [Tenants -> Int]]
      /\ \A d \in Gw!Doors, u \in Tenants :
            engine'[d][u] = IF d = "tool" /\ door = "tool" /\ u = t /\ e = Gw!None THEN Gw!Building ELSE engine[d][u]
  BY <1>1, <1>2, <1>3 DEF Gw!Building
<1>8. GatewayTyped'
  BY <1>1, <1>6, <1>7 DEF GatewayInv, GatewayTyped
<1>9. Owned'
  BY <1>1, <1>5, <1>6, <1>7 DEF GatewayInv, Owned
<1>10. OneDoor'
  <2>1. \A u \in Tenants : engine'["rest"][u] # Gw!Building
    BY <1>3, <1>7 DEF GatewayInv, OneDoor
  <2>2. ASSUME NEW x \in work', x.door = "tool"
        PROVE  IF x.engine = Gw!None THEN engine'["tool"][x.tenant] = Gw!Building
               ELSE engine'["tool"][x.tenant] = x.engine
    <3>1. CASE x = w
      <4>1. e = Gw!None => engine'["tool"][t] = Gw!Building
        BY <1>2, <1>3, <1>6, <1>7, <2>2, <3>1
      <4>2. e # Gw!None => engine'["tool"][t] = e
        BY <1>2, <1>3, <1>6, <1>7, <2>2, <3>1
      <4>3. QED
        BY <1>6, <3>1, <4>1, <4>2 DEF n, Gw!None, Gw!Building
    <3>2. CASE x \in work
      <4>1. x.tenant \in Tenants /\ x.engine \in Nat
        BY <1>3, <3>2 DEF WorkState
      <4>2. engine["tool"][x.tenant] = Gw!Building \/ (engine["tool"][x.tenant] = x.engine /\ x.engine # Gw!None)
        BY <2>2, <3>2 DEF GatewayInv, OneDoor
      <4>3. engine["tool"][x.tenant] # Gw!None
        BY <4>2 DEF Gw!None, Gw!Building
      <4>4. engine'["tool"][x.tenant] = engine["tool"][x.tenant]
        BY <1>3, <1>7, <4>1, <4>3
      <4>5. QED
        BY <2>2, <3>2, <4>4 DEF GatewayInv, OneDoor
    <3>3. QED
      BY <1>1, <2>2, <3>1, <3>2
  <2>3. ASSUME NEW x \in work', NEW u \in Tenants, x.door = "rest", x.engine # Gw!None
        PROVE  engine'["tool"][u] # x.engine
    <3>1. x.engine # Gw!Building
      BY <1>1, <1>3, <1>6, <2>3, <1>5 DEF WorkState, Gw!Building
    <3>2. engine["tool"][u] # x.engine
      <4>1. CASE x = w
        <5>1. x.engine = engine["rest"][t] /\ x.engine \in DOMAIN engines
          BY <1>5, <1>6, <2>3, <4>1
        <5>2. QED
          BY <1>2, <5>1 DEF GatewayInv, OneDoor
      <4>2. CASE x \in work
        BY <2>3, <4>2 DEF GatewayInv, OneDoor
      <4>3. QED
        BY <1>1, <2>3, <4>1, <4>2
    <3>3. QED
      BY <1>3, <1>7, <3>1, <3>2
  <2>4. ASSUME NEW u \in Tenants, NEW v \in Tenants, engine'["tool"][u] \in DOMAIN engines'
        PROVE  engine'["tool"][u] # engine'["rest"][v]
    <3>1. engine'["tool"][u] # Gw!Building
      BY <1>1, <1>3, <2>4 DEF Gw!Building
    <3>2. QED
      BY <1>1, <1>3, <1>7, <2>4, <3>1 DEF GatewayInv, OneDoor
  <2>5. QED
    BY <2>1, <2>2, <2>3, <2>4 DEF OneDoor
<1>11. Gw!MandateInForce'
  <2>1. \A u \in Tenants : acked["tool"][u] # Gw!None => engine'["tool"][u] = engine["tool"][u]
    BY <1>3, <1>7 DEF GatewayInv, Gw!MandateInForce, Gw!InForce
  <2>2. QED
    BY <1>1, <2>1 DEF GatewayInv, Gw!MandateInForce, Gw!InForce
<1>12. QED
  BY <1>1, <1>8, <1>9, <1>10, <1>11 DEF GatewayInv, Gw!OwnWallet

\* An engine is built: a number that nobody has yet.
LEMMA EngineAdded ==
  ASSUME GatewayInv, NEW t \in Tenants, engines' = Append(engines, [owner |-> t, mandate |-> Gw!None])
  PROVE  LET n == Len(engines') IN
         /\ engines' \in Seq(EngineState) /\ DOMAIN engines' = DOMAIN engines \cup {n}
         /\ n \in Nat /\ n \notin DOMAIN engines /\ n \notin {Gw!None, Gw!Building} /\ engines'[n].owner = t
         /\ \A i \in DOMAIN engines : engines'[i] = engines[i]
<1> DEFINE e == [owner |-> t, mandate |-> Gw!None]
<1>1. e \in EngineState /\ e.owner = t /\ engines \in Seq(EngineState) /\ engines' = Append(engines, e)
  BY DEF EngineState, Gw!None, GatewayInv, GatewayTyped
<1> HIDE DEF e
<1>2. /\ Len(engines') = Len(engines) + 1 /\ engines' \in Seq(EngineState) /\ engines'[Len(engines) + 1] = e
      /\ \A i \in DOMAIN engines : engines'[i] = engines[i]
      /\ DOMAIN engines = 1..Len(engines) /\ Len(engines) \in Nat /\ DOMAIN engines' = 1..Len(engines')
  BY <1>1
<1>3. QED
  BY <1>1, <1>2 DEF Gw!None, Gw!Building

\* The tools' engine is there: everyone who waited works with it.
LEMMA EngineBuiltKeeps ==
  ASSUME GatewayAssumption, GatewayInv, NEW t \in Tenants, Gw!EngineBuilt(t)
  PROVE  GatewayInv'
<1> DEFINE n == Len(engines')
           Got(w) == [w EXCEPT !.engine = n]
<1>1. /\ engine["tool"][t] = Gw!Building /\ engine' = [engine EXCEPT !["tool"][t] = n]
      /\ engines' = Append(engines, [owner |-> t, mandate |-> Gw!None])
      /\ work' = (work \ Gw!Waiting(t)) \cup {Got(w) : w \in Gw!Waiting(t)}
      /\ UNCHANGED <<keys, stored, acked, paid>>
  BY DEF Gw!EngineBuilt, Gw!access
<1>2. /\ engines' \in Seq(EngineState) /\ DOMAIN engines' = DOMAIN engines \cup {n}
      /\ n \in Nat /\ n \notin DOMAIN engines /\ n \notin {Gw!None, Gw!Building} /\ engines'[n].owner = t
      /\ \A i \in DOMAIN engines : engines'[i] = engines[i]
  BY <1>1, EngineAdded
<1> HIDE DEF n
<1>3. /\ engine \in [Gw!Doors -> [Tenants -> Int]] /\ work \subseteq WorkState
      /\ "tool" \in Gw!Doors /\ "rest" \in Gw!Doors
  BY DEF GatewayInv, GatewayTyped, Gw!Doors
<1>4. /\ engine' \in [Gw!Doors -> [Tenants -> Int]]
      /\ \A d \in Gw!Doors, u \in Tenants :
            engine'[d][u] = IF d = "tool" /\ u = t THEN n ELSE engine[d][u]
  BY <1>1, <1>2, <1>3
<1>5. \A w \in Gw!Waiting(t) : /\ Got(w) \in WorkState /\ Got(w).door = "tool"
                              /\ Got(w).tenant = t /\ Got(w).engine = n
  BY <1>2, <1>3 DEF Gw!Waiting, WorkState
<1> HIDE DEF Got
<1>6. \A x \in work' : /\ x \in WorkState
                       /\ \/ x \in work /\ x \notin Gw!Waiting(t)
                          \/ x.door = "tool" /\ x.tenant = t /\ x.engine = n
  BY <1>1, <1>3, <1>5
<1>7. GatewayTyped'
  BY <1>1, <1>2, <1>4, <1>6 DEF GatewayInv, GatewayTyped
<1>8. Owned'
  <2>1. ASSUME NEW d \in Gw!Doors, NEW u \in Tenants
        PROVE  (engine'[d][u] \in DOMAIN engines' /\ engines'[engine'[d][u]].owner = u) \/ engine'[d][u] \in {Gw!None, Gw!Building}
    <3>1. CASE d = "tool" /\ u = t
      BY <1>2, <1>4, <3>1
    <3>2. CASE ~(d = "tool" /\ u = t)
      <4>1. engine'[d][u] = engine[d][u]
        BY <1>4, <3>2
      <4>2. (engine[d][u] \in DOMAIN engines /\ engines[engine[d][u]].owner = u) \/ engine[d][u] \in {Gw!None, Gw!Building}
        BY DEF GatewayInv, Owned
      <4>3. QED
        BY <1>2, <4>1, <4>2
    <3>3. QED
      BY <3>1, <3>2
  <2>2. ASSUME NEW x \in work', x.engine # Gw!None
        PROVE  x.engine \in DOMAIN engines' /\ engines'[x.engine].owner = x.tenant
    BY <1>2, <1>6, <2>2 DEF GatewayInv, Owned
  <2>3. QED
    BY <2>1, <2>2 DEF Owned
<1>9. \A x \in work : x.engine # n
  BY <1>2 DEF GatewayInv, Owned
<1>10. \A d \in Gw!Doors, u \in Tenants : engine[d][u] # n
  BY <1>2 DEF GatewayInv, Owned
<1>11. OneDoor'
  <2>1. \A u \in Tenants : engine'["rest"][u] # Gw!Building
    BY <1>3, <1>4 DEF GatewayInv, OneDoor
  <2>2. ASSUME NEW x \in work', x.door = "tool"
        PROVE  IF x.engine = Gw!None THEN engine'["tool"][x.tenant] = Gw!Building
               ELSE engine'["tool"][x.tenant] = x.engine
    <3>1. CASE x.tenant = t /\ x.engine = n
      BY <1>2, <1>3, <1>4, <3>1
    <3>2. CASE x \in work /\ x \notin Gw!Waiting(t)
      <4>1. x.tenant \in Tenants
        BY <1>3, <3>2 DEF WorkState
      <4>2. x.tenant # t
        <5>1. ASSUME x.tenant = t PROVE FALSE
          <6>1. x.engine # Gw!None
            BY <2>2, <3>2, <5>1 DEF Gw!Waiting
          <6>2. x.engine = Gw!Building
            BY <1>1, <2>2, <3>2, <5>1, <6>1 DEF GatewayInv, OneDoor
          <6>3. QED
            BY <1>3, <3>2, <6>2 DEF WorkState, Gw!Building
        <5>2. QED
          BY <5>1
      <4>3. engine'["tool"][x.tenant] = engine["tool"][x.tenant]
        BY <1>3, <1>4, <4>1, <4>2
      <4>4. QED
        BY <2>2, <3>2, <4>3 DEF GatewayInv, OneDoor
    <3>3. QED
      BY <1>6, <2>2, <3>1, <3>2
  <2>3. ASSUME NEW x \in work', NEW u \in Tenants, x.door = "rest", x.engine # Gw!None
        PROVE  engine'["tool"][u] # x.engine
    <3>1. x \in work
      BY <1>6, <2>3
    <3>2. QED
      BY <1>3, <1>4, <1>9, <2>3, <3>1 DEF GatewayInv, OneDoor
  <2>4. ASSUME NEW u \in Tenants, NEW v \in Tenants, engine'["tool"][u] \in DOMAIN engines'
        PROVE  engine'["tool"][u] # engine'["rest"][v]
    BY <1>2, <1>3, <1>4, <1>10, <2>4 DEF GatewayInv, OneDoor
  <2>5. QED
    BY <2>1, <2>2, <2>3, <2>4 DEF OneDoor
<1>12. Gw!MandateInForce'
  <2>1. ASSUME NEW u \in Tenants, acked["tool"][u] # Gw!None
        PROVE  engine'["tool"][u] = engine["tool"][u] /\ engine["tool"][u] \notin {Gw!None, Gw!Building}
               /\ engines'[engine["tool"][u]] = engines[engine["tool"][u]]
    <3>1. engine["tool"][u] \notin {Gw!None, Gw!Building}
      BY <2>1 DEF GatewayInv, Gw!MandateInForce, Gw!InForce
    <3>2. engine["tool"][u] \in DOMAIN engines
      BY <1>3, <3>1 DEF GatewayInv, Owned
    <3>3. QED
      BY <1>1, <1>2, <1>3, <1>4, <3>1, <3>2
  <2>2. \A u \in Tenants : acked["tool"][u] # Gw!None => engines[engine["tool"][u]].mandate = acked["tool"][u]
    BY DEF GatewayInv, Gw!MandateInForce, Gw!InForce
  <2>3. acked' = acked
    BY <1>1
  <2>4. QED
    BY <2>1, <2>2, <2>3 DEF Gw!MandateInForce, Gw!InForce
<1>13. QED
  BY <1>1, <1>7, <1>8, <1>11, <1>12 DEF GatewayInv, Gw!OwnWallet

\* It could not be built: nobody waits for it any more.
LEMMA EngineFailsKeeps ==
  ASSUME GatewayInv, NEW t \in Tenants, Gw!EngineFails(t)
  PROVE  GatewayInv'
<1>1. /\ engine["tool"][t] = Gw!Building /\ engine' = [engine EXCEPT !["tool"][t] = Gw!None]
      /\ work' = work \ Gw!Waiting(t)
      /\ UNCHANGED <<keys, stored, engines, acked, paid>>
  BY DEF Gw!EngineFails, Gw!access
<1>2. /\ engine \in [Gw!Doors -> [Tenants -> Int]] /\ work \subseteq WorkState /\ engines \in Seq(EngineState)
      /\ "tool" \in Gw!Doors /\ "rest" \in Gw!Doors
  BY DEF GatewayInv, GatewayTyped, Gw!Doors
<1>3. /\ engine' \in [Gw!Doors -> [Tenants -> Int]]
      /\ \A d \in Gw!Doors, u \in Tenants :
            engine'[d][u] = IF d = "tool" /\ u = t THEN Gw!None ELSE engine[d][u]
  BY <1>1, <1>2 DEF Gw!None
<1>4. GatewayTyped' /\ Owned'
  BY <1>1, <1>3 DEF GatewayInv, GatewayTyped, Owned
<1>5. \A x \in work' : x.door = "tool" => x.tenant \in Tenants /\ x.tenant # t
  <2> SUFFICES ASSUME NEW x \in work', x.door = "tool", x.tenant = t PROVE FALSE
    BY <1>1, <1>2 DEF WorkState
  <2>1. x.engine # Gw!None
    BY <1>1 DEF Gw!Waiting
  <2>2. x.engine = Gw!Building
    BY <1>1, <2>1 DEF GatewayInv, OneDoor
  <2>3. QED
    BY <1>1, <1>2, <2>2 DEF WorkState, Gw!Building
<1>6. OneDoor'
  <2>1. \A u \in Tenants : engine'["rest"][u] # Gw!Building
    BY <1>2, <1>3 DEF GatewayInv, OneDoor
  <2>2. ASSUME NEW x \in work', x.door = "tool"
        PROVE  IF x.engine = Gw!None THEN engine'["tool"][x.tenant] = Gw!Building
               ELSE engine'["tool"][x.tenant] = x.engine
    <3>1. engine'["tool"][x.tenant] = engine["tool"][x.tenant]
      BY <1>2, <1>3, <1>5, <2>2
    <3>2. QED
      BY <1>1, <2>2, <3>1 DEF GatewayInv, OneDoor
  <2>3. ASSUME NEW x \in work', NEW u \in Tenants, x.door = "rest", x.engine # Gw!None
        PROVE  engine'["tool"][u] # x.engine
    BY <1>1, <1>2, <1>3, <2>3 DEF GatewayInv, OneDoor
  <2>4. ASSUME NEW u \in Tenants, NEW v \in Tenants, engine'["tool"][u] \in DOMAIN engines'
        PROVE  engine'["tool"][u] # engine'["rest"][v]
    <3>1. engine'["tool"][u] # Gw!None
      BY <1>1, <1>2, <2>4 DEF Gw!None
    <3>2. QED
      BY <1>1, <1>2, <1>3, <2>4, <3>1 DEF GatewayInv, OneDoor
  <2>5. QED
    BY <2>1, <2>2, <2>3, <2>4 DEF OneDoor
<1>7. Gw!MandateInForce'
  <2>1. \A u \in Tenants : acked["tool"][u] # Gw!None => engine'["tool"][u] = engine["tool"][u]
    BY <1>1, <1>2, <1>3 DEF GatewayInv, Gw!MandateInForce, Gw!InForce
  <2>2. QED
    BY <1>1, <2>1 DEF GatewayInv, Gw!MandateInForce, Gw!InForce
<1>8. QED
  BY <1>1, <1>4, <1>6, <1>7 DEF GatewayInv, Gw!OwnWallet

\* A route builds an engine of its own.
LEMMA ImportedKeeps ==
  ASSUME GatewayAssumption, GatewayInv, NEW w \in work, Gw!Imported(w)
  PROVE  GatewayInv'
<1> DEFINE n == Len(engines')
           t == w.tenant
           got == [w EXCEPT !.engine = n]
<1>1. /\ w.door = "rest" /\ engine' = [engine EXCEPT !["rest"][t] = n]
      /\ engines' = Append(engines, [owner |-> t, mandate |-> Gw!None])
      /\ work' = (work \ {w}) \cup {got}
      /\ UNCHANGED <<keys, stored, acked, paid>>
  BY DEF Gw!Imported, Gw!access
<1>2. /\ engine \in [Gw!Doors -> [Tenants -> Int]] /\ work \subseteq WorkState
      /\ "tool" \in Gw!Doors /\ "rest" \in Gw!Doors /\ w \in WorkState /\ t \in Tenants
  BY DEF GatewayInv, GatewayTyped, Gw!Doors, WorkState
<1>3. /\ engines' \in Seq(EngineState) /\ DOMAIN engines' = DOMAIN engines \cup {n}
      /\ n \in Nat /\ n \notin DOMAIN engines /\ n \notin {Gw!None, Gw!Building} /\ engines'[n].owner = t
      /\ \A i \in DOMAIN engines : engines'[i] = engines[i]
  BY <1>1, <1>2, EngineAdded
<1> HIDE DEF n
<1>4. got \in WorkState /\ got.door = "rest" /\ got.tenant = t /\ got.engine = n
  BY <1>1, <1>2, <1>3 DEF WorkState
<1> HIDE DEF got, t
<1>5. /\ engine' \in [Gw!Doors -> [Tenants -> Int]]
      /\ \A d \in Gw!Doors, u \in Tenants :
            engine'[d][u] = IF d = "rest" /\ u = t THEN n ELSE engine[d][u]
  BY <1>1, <1>2, <1>3
<1>6. \A x \in work' : x \in WorkState /\ (x \in work \/ x = got)
  BY <1>1, <1>2, <1>4
<1>7. GatewayTyped'
  BY <1>1, <1>3, <1>5, <1>6 DEF GatewayInv, GatewayTyped
<1>8. Owned'
  <2>1. ASSUME NEW d \in Gw!Doors, NEW u \in Tenants
        PROVE  (engine'[d][u] \in DOMAIN engines' /\ engines'[engine'[d][u]].owner = u) \/ engine'[d][u] \in {Gw!None, Gw!Building}
    BY <1>3, <1>5 DEF GatewayInv, Owned
  <2>2. ASSUME NEW x \in work', x.engine # Gw!None
        PROVE  x.engine \in DOMAIN engines' /\ engines'[x.engine].owner = x.tenant
    BY <1>3, <1>4, <1>6, <2>2 DEF GatewayInv, Owned
  <2>3. QED
    BY <2>1, <2>2 DEF Owned
<1>9. \A d \in Gw!Doors, u \in Tenants : engine[d][u] # n
  BY <1>3 DEF GatewayInv, Owned
<1>10. OneDoor'
  <2>1. \A u \in Tenants : engine'["rest"][u] # Gw!Building
    BY <1>2, <1>3, <1>5 DEF GatewayInv, OneDoor
  <2>2. ASSUME NEW x \in work', x.door = "tool"
        PROVE  IF x.engine = Gw!None THEN engine'["tool"][x.tenant] = Gw!Building
               ELSE engine'["tool"][x.tenant] = x.engine
    <3>1. x \in work /\ x.tenant \in Tenants
      BY <1>4, <1>6, <2>2 DEF WorkState
    <3>2. engine'["tool"][x.tenant] = engine["tool"][x.tenant]
      BY <1>2, <1>5, <3>1
    <3>3. QED
      BY <2>2, <3>1, <3>2 DEF GatewayInv, OneDoor
  <2>3. ASSUME NEW x \in work', NEW u \in Tenants, x.door = "rest", x.engine # Gw!None
        PROVE  engine'["tool"][u] # x.engine
    <3>1. engine'["tool"][u] = engine["tool"][u]
      BY <1>2, <1>5
    <3>2. QED
      BY <1>2, <1>4, <1>6, <1>9, <2>3, <3>1 DEF GatewayInv, OneDoor
  <2>4. ASSUME NEW u \in Tenants, NEW v \in Tenants, engine'["tool"][u] \in DOMAIN engines'
        PROVE  engine'["tool"][u] # engine'["rest"][v]
    <3>1. engine'["tool"][u] = engine["tool"][u] /\ engine["tool"][u] # n
      BY <1>2, <1>5, <1>9
    <3>2. engine["tool"][u] \in DOMAIN engines
      BY <1>3, <2>4, <3>1
    <3>3. QED
      BY <1>2, <1>5, <3>1, <3>2 DEF GatewayInv, OneDoor
  <2>5. QED
    BY <2>1, <2>2, <2>3, <2>4 DEF OneDoor
<1>11. Gw!MandateInForce'
  <2>1. ASSUME NEW u \in Tenants, acked["tool"][u] # Gw!None
        PROVE  engine'["tool"][u] = engine["tool"][u] /\ engine["tool"][u] \notin {Gw!None, Gw!Building}
               /\ engines'[engine["tool"][u]] = engines[engine["tool"][u]]
    <3>1. engine["tool"][u] \notin {Gw!None, Gw!Building}
      BY <2>1 DEF GatewayInv, Gw!MandateInForce, Gw!InForce
    <3>2. engine["tool"][u] \in DOMAIN engines
      BY <1>2, <3>1 DEF GatewayInv, Owned
    <3>3. QED
      BY <1>2, <1>3, <1>5, <3>1, <3>2
  <2>2. QED
    BY <1>1, <2>1 DEF GatewayInv, Gw!MandateInForce, Gw!InForce
<1>12. QED
  BY <1>1, <1>7, <1>8, <1>10, <1>11 DEF GatewayInv, Gw!OwnWallet

\* A purchase, or a mandate that is set: on the engine the tenant has.
LEMMA PerformedKeeps ==
  ASSUME GatewayAssumption, GatewayInv, NEW w \in work, Gw!Performed(w)
  PROVE  GatewayInv'
<1> DEFINE e == w.engine
           t == w.tenant
<1>1. /\ e # Gw!None /\ work' = work \ {w} /\ UNCHANGED <<keys, stored, engine>>
      /\ IF w.op = Gw!Buy THEN Gw!Purchased(w) ELSE Gw!MandateSet(w)
  BY DEF Gw!Performed, Gw!access
<1>2. /\ engine \in [Gw!Doors -> [Tenants -> Int]] /\ work \subseteq WorkState /\ engines \in Seq(EngineState)
      /\ acked \in [Gw!Doors -> [Tenants -> Nat]] /\ "tool" \in Gw!Doors /\ "rest" \in Gw!Doors
      /\ t \in Tenants /\ w.door \in Gw!Doors /\ w.op \in Gw!Ops
  BY DEF GatewayInv, GatewayTyped, Gw!Doors, WorkState
<1>3. e \in DOMAIN engines /\ engines[e].owner = t
  BY <1>1 DEF GatewayInv, Owned
<1>4. CASE w.op = Gw!Buy
  <2>1. UNCHANGED <<engines, acked>> /\ Gw!OwnWallet'
    BY <1>1, <1>3, <1>4 DEF Gw!Purchased, Gw!Charged, GatewayInv, Gw!OwnWallet
  <2>2. QED
    BY <1>1, <2>1 DEF GatewayInv, GatewayTyped, Owned, OneDoor, Gw!MandateInForce, Gw!InForce
<1>5. CASE w.op # Gw!Buy
  <2>1. /\ engines' = [engines EXCEPT ![e].mandate = w.op] /\ acked' = [acked EXCEPT ![w.door][t] = w.op]
        /\ UNCHANGED paid
    BY <1>1, <1>5 DEF Gw!MandateSet
  <2>2. w.op \in Nat
    BY <1>2, <1>5 DEF Gw!Ops, GatewayAssumption
  <2> DEFINE new == [engines[e] EXCEPT !.mandate = w.op]
  <2>3. new \in EngineState /\ new.mandate = w.op /\ new.owner = t
    BY <1>2, <1>3, <2>2, MandateForm
  <2>4. engines' = [engines EXCEPT ![e] = new]
    BY <2>1
  <2> HIDE DEF new
  <2>5. /\ engines' \in Seq(EngineState) /\ DOMAIN engines' = DOMAIN engines /\ engines'[e] = new
        /\ \A i \in DOMAIN engines \ {e} : engines'[i] = engines[i]
    BY <1>2, <1>3, <2>3, <2>4
  <2>6. /\ acked' \in [Gw!Doors -> [Tenants -> Nat]]
        /\ \A u \in Tenants : acked'["tool"][u] = IF w.door = "tool" /\ u = t THEN w.op ELSE acked["tool"][u]
    BY <1>2, <2>1, <2>2
  <2>7. GatewayTyped'
    BY <1>1, <2>5, <2>6 DEF GatewayInv, GatewayTyped
  <2>8. \A i \in DOMAIN engines : engines'[i].owner = engines[i].owner
    BY <1>3, <2>3, <2>5
  <2>9. Owned'
    BY <1>1, <2>5, <2>8 DEF GatewayInv, Owned
  <2>10. OneDoor'
    BY <1>1, <2>5 DEF GatewayInv, OneDoor
  <2>11. Gw!MandateInForce'
    <3>1. ASSUME NEW u \in Tenants, acked'["tool"][u] # Gw!None
          PROVE  engine["tool"][u] \notin {Gw!None, Gw!Building}
                 /\ engines'[engine["tool"][u]].mandate = acked'["tool"][u]
      <4>1. CASE w.door = "tool" /\ u = t
        <5>1. engine["tool"][u] = e
          BY <1>1, <4>1 DEF GatewayInv, OneDoor
        <5>2. QED
          BY <1>1, <1>2, <1>3, <2>3, <2>5, <2>6, <4>1, <5>1 DEF Gw!None, Gw!Building
      <4>2. CASE ~(w.door = "tool" /\ u = t)
        <5>1. acked'["tool"][u] = acked["tool"][u]
          BY <2>6, <4>2
        <5>2. engine["tool"][u] \notin {Gw!None, Gw!Building} /\ engines[engine["tool"][u]].mandate = acked["tool"][u]
          BY <3>1, <5>1 DEF GatewayInv, Gw!MandateInForce, Gw!InForce
        <5>3. engine["tool"][u] \in DOMAIN engines /\ engines[engine["tool"][u]].owner = u
          BY <1>2, <5>2 DEF GatewayInv, Owned
        <5>4. engine["tool"][u] # e
          <6>1. CASE w.door = "tool"
            BY <1>3, <4>2, <5>3, <6>1
          <6>2. CASE w.door = "rest"
            BY <1>1, <6>2 DEF GatewayInv, OneDoor
          <6>3. QED
            BY <1>2, <6>1, <6>2 DEF Gw!Doors
        <5>5. QED
          BY <2>5, <5>1, <5>2, <5>3, <5>4
      <4>3. QED
        BY <4>1, <4>2
    <3>2. QED
      BY <1>1, <3>1 DEF Gw!MandateInForce, Gw!InForce
  <2>12. QED
    BY <2>1, <2>7, <2>9, <2>10, <2>11 DEF GatewayInv, Gw!OwnWallet
<1>6. QED
  BY <1>4, <1>5

\* Keys are added and revoked.
LEMMA KeysKept ==
  ASSUME GatewayInv, NEW t \in Tenants, NEW written \in BOOLEAN,
         Gw!Minted(t, written) \/ Gw!RevokeAgent(t, written)
  PROVE  keys' \in Seq(KeyState) /\ stored' \in Seq(KeyState)
<1>1. keys \in Seq(KeyState) /\ stored \in Seq(KeyState)
  BY DEF GatewayInv, GatewayTyped
<1>2. CASE Gw!Minted(t, written)
  <2>1. [tenant |-> t, revoked |-> FALSE] \in KeyState
    BY DEF KeyState
  <2>2. QED
    BY <1>1, <1>2, <2>1 DEF Gw!Minted
<1>3. CASE Gw!RevokeAgent(t, written)
  <2>1. \A i \in DOMAIN keys : [keys[i] EXCEPT !.revoked = TRUE] \in KeyState
    BY <1>1, RevokedForm
  <2>2. keys' = [i \in DOMAIN keys |-> IF keys[i].tenant = t THEN [keys[i] EXCEPT !.revoked = TRUE] ELSE keys[i]]
    BY <1>3 DEF Gw!RevokeAgent
  <2>3. \A i \in 1..Len(keys) : keys'[i] \in KeyState
    BY <1>1, <2>1, <2>2
  <2>4. DOMAIN keys' = 1..Len(keys) /\ Len(keys) \in Nat /\ keys' = [i \in 1..Len(keys) |-> keys'[i]]
    BY <1>1, <2>2
  <2>5. keys' \in Seq(KeyState)
    BY <2>3, <2>4
  <2>6. QED
    BY <1>1, <1>3, <2>5 DEF Gw!RevokeAgent
<1>4. QED
  BY <1>2, <1>3

\* Every step keeps the invariant.
LEMMA GatewayStep ==
  ASSUME GatewayAssumption, GatewayInv, [Gw!Next]_(Gw!vars)
  PROVE  GatewayInv'
<1>1. ASSUME UNCHANGED <<engine, engines, acked, work, keys, stored, paid>> PROVE GatewayInv'
  BY <1>1, ShopsStay DEF GatewayInv, GatewayTyped, Gw!OwnWallet
<1>2. CASE UNCHANGED Gw!vars
  BY <1>1, <1>2 DEF Gw!vars
<1>3. CASE Gw!Tick \/ Gw!Cleanup
  BY <1>1, <1>3 DEF Gw!Tick, Gw!Cleanup, Gw!access, Gw!shops
<1>4. CASE Gw!Restart
  <2>1. /\ keys' \in Seq(KeyState) /\ stored' \in Seq(KeyState)
        /\ engine' = Gw!Nothing /\ acked' = Gw!Nothing /\ engines' = <<>> /\ work' = {} /\ paid' = {}
    BY <1>4 DEF Gw!Restart, GatewayInv, GatewayTyped
  <2>2. \A d \in Gw!Doors, t \in Tenants : engine'[d][t] = 0 /\ acked'[d][t] = 0
    BY <2>1 DEF Gw!Nothing, Gw!None
  <2>3. GatewayTyped'
    BY <2>1 DEF GatewayTyped, Gw!Nothing, Gw!None
  <2>4. "tool" \in Gw!Doors /\ "rest" \in Gw!Doors /\ DOMAIN engines' = {}
    BY <2>1 DEF Gw!Doors
  <2>5. Owned' /\ OneDoor'
    BY <2>1, <2>2, <2>4 DEF Owned, OneDoor, Gw!None, Gw!Building
  <2>6. Gw!OwnWallet' /\ Gw!MandateInForce'
    BY <2>1, <2>2, <2>4 DEF Gw!OwnWallet, Gw!MandateInForce, Gw!InForce, Gw!None
  <2>7. QED
    BY <2>3, <2>5, <2>6 DEF GatewayInv
<1>5. ASSUME NEW t \in Tenants, NEW written \in BOOLEAN, Gw!Provision(t, written) \/ Gw!RevokeAgent(t, written)
      PROVE  GatewayInv'
  <2>1. UNCHANGED <<engine, engines, acked, work, paid>>
    BY <1>5 DEF Gw!Provision, Gw!RevokeAgent, Gw!shops
  <2>2. keys' \in Seq(KeyState) /\ stored' \in Seq(KeyState)
    BY <1>5, KeysKept DEF Gw!Provision, Gw!access, GatewayInv, GatewayTyped
  <2>3. QED
    BY <2>1, <2>2, ShopsStay DEF GatewayInv, Gw!OwnWallet
<1>6. ASSUME NEW a \in Addresses, NEW k \in {Gw!None} \cup DOMAIN keys, NEW named \in {Gw!None} \cup Tenants,
             Gw!ChargeTool(a, k, named)
      PROVE  GatewayInv'
  <2>1. UNCHANGED <<keys, stored, engine, engines, acked, work>>
        /\ Gw!Charged(IF k = Gw!None THEN Gw!ActingAgent(k, named) ELSE keys[k].tenant, Gw!ActingAgent(k, named))
    BY <1>6 DEF Gw!ChargeTool, Gw!access
  <2>2. k # Gw!None => Gw!ActingAgent(k, named) = keys[k].tenant
    BY DEF Gw!ActingAgent
  <2>3. Gw!OwnWallet'
    BY <2>1, <2>2 DEF Gw!Charged, Gw!OwnWallet
  <2>4. QED
    BY <2>1, <2>3, ShopsStay DEF GatewayInv, GatewayTyped
<1>7. ASSUME NEW a \in Addresses, Gw!OtherTool(a) PROVE GatewayInv'
  BY <1>1, <1>7 DEF Gw!OtherTool, Gw!access, Gw!shops
<1>8. QED
  BY <1>2, <1>3, <1>4, <1>5, <1>6, <1>7, ShopKeeps, EngineBuiltKeeps, EngineFailsKeeps, ImportedKeeps, PerformedKeeps
     DEF Gw!Next

\* Whoever a request names and whichever key it has, it spends the wallet of its own
\* tenant, and the mandate a tenant was told through the tools is the one its next
\* purchase there is held to.
THEOREM TenantsAreApart ==
  ASSUME GatewayAssumption
  PROVE  Gw!Spec => [](Gw!OwnWallet /\ Gw!MandateInForce)
<1>1. Gw!Init => GatewayInv
  <2>1. Gw!Init => keys \in Seq(KeyState) /\ stored \in Seq(KeyState)
    BY DEF Gw!Init
  <2>2. QED
    BY <2>1, NoEngines DEF Gw!Init
<1>2. GatewayInv => Gw!OwnWallet /\ Gw!MandateInForce
  BY DEF GatewayInv
<1>3. QED
  BY <1>1, <1>2, GatewayStep, PTL DEF Gw!Spec

-----------------------------------------------------------------------------
(* Audited language model calls (LlmCalls).                                *)
(* The flag on the stream is set by the first iterator that closes, with   *)
(* the attempt to append the event, so that the others find it set.        *)

LlmCall ==
    [kind : Lm!Kinds, provider : Lm!Providers, pc : Lm!Pcs, chunks : 0..MaxChunks, usage : Tokens,
     out : Nat, count : Nat, emitted : BOOLEAN, result : {"none", "answer", "error"}]

LlmIterator == [pos : 0..MaxChunks, state : {"new", "open", "done", "broken", "failed"}]

ClosedStates == {"done", "broken", "failed"}

\* A stream has an event, or a refused one, from the first time an iterator over it
\* closes, and an event that is not partial was appended by an iterator that was done.
StreamInv(c) ==
    call[c].kind = "stream" =>
        /\ \A j, k \in Lm!OfCall(c) : j = k
        /\ ~call[c].emitted => Lm!OfCall(c) = {} /\ \A i \in Iterators : at[<<c, i>>].state \notin ClosedStates
        /\ call[c].emitted => c \in rejected \/ Lm!OfCall(c) # {}
        /\ \A k \in Lm!OfCall(c) : ~events[k].partial => \E i \in Iterators : at[<<c, i>>].state = "done"

LlmInv == Lm!TypeOK /\ \A c \in Calls : StreamInv(c)

\* Initially nothing was called, and the audit chain is empty.
LEMMA LlmInit == ASSUME LlmAssumption, Lm!Init PROVE LlmInv
<1>1. Lm!TypeOK
  <2>1. call \in [Calls -> LlmCall]
    <3> DEFINE New(kind, prov) ==
                 [kind |-> kind, provider |-> prov, usage |-> 0, pc |-> "idle", chunks |-> 0, out |-> 0,
                  count |-> 0, emitted |-> FALSE, result |-> "none"]
    <3>1. call \in [Calls -> {New(kind, prov) : kind \in Lm!Kinds, prov \in Lm!Providers}]
      BY DEF Lm!Init
    <3>2. \A kind \in Lm!Kinds, prov \in Lm!Providers : New(kind, prov) \in LlmCall
      BY DEF LlmCall, Lm!Pcs, LlmAssumption
    <3> HIDE DEF New
    <3>3. QED
      BY <3>1, <3>2
  <2>2. at \in [Calls \X Iterators -> LlmIterator]
    BY DEF Lm!Init, LlmIterator, LlmAssumption
  <2>3. events \in Seq([call : Calls, partial : BOOLEAN, out : Nat]) /\ rejected = {} /\ remembered = {}
    BY DEF Lm!Init
  <2>4. QED
    BY <2>1, <2>2, <2>3 DEF Lm!TypeOK, LlmCall, LlmIterator
<1>2. \A c \in Calls : Lm!OfCall(c) = {} /\ ~call[c].emitted
  BY DEF Lm!Init, Lm!OfCall, Lm!Kinds, Lm!Providers
<1>3. \A c \in Calls, i \in Iterators : at[<<c, i>>].state = "new"
  BY DEF Lm!Init
<1>4. QED
  BY <1>1, <1>2, <1>3 DEF LlmInv, StreamInv, ClosedStates

\* An event is appended for one call, the events before it stay.
LEMMA Appended ==
  ASSUME LlmInv, NEW c \in Calls, NEW partial \in BOOLEAN, NEW out \in Nat, Lm!Recorded(c, partial, out)
  PROVE  /\ events' \in Seq([call : Calls, partial : BOOLEAN, out : Nat]) /\ rejected' \subseteq Calls
         /\ rejected \subseteq rejected'
         /\ \A d \in Calls : \A k \in Lm!OfCall(d) : k \in Lm!OfCall(d)' /\ events'[k] = events[k]
         /\ \A d \in Calls \ {c} : Lm!OfCall(d)' = Lm!OfCall(d)
         /\ \/ events' = events /\ rejected' = rejected \cup {c}
            \/ Lm!OfCall(c)' = Lm!OfCall(c) \cup {Len(events) + 1} /\ events'[Len(events) + 1].partial = partial
<1>1. events \in Seq([call : Calls, partial : BOOLEAN, out : Nat]) /\ rejected \subseteq Calls
  BY DEF LlmInv, Lm!TypeOK
<1>2. CASE rejected' = rejected \cup {c} /\ UNCHANGED events
  BY <1>1, <1>2 DEF Lm!OfCall
<1>3. CASE events' = Append(events, [call |-> c, partial |-> partial, out |-> out]) /\ UNCHANGED rejected
  <2> DEFINE e == [call |-> c, partial |-> partial, out |-> out]
  <2>1. e \in [call : Calls, partial : BOOLEAN, out : Nat] /\ e.call = c /\ e.partial = partial
    OBVIOUS
  <2> HIDE DEF e
  <2>2. /\ events' \in Seq([call : Calls, partial : BOOLEAN, out : Nat])
        /\ DOMAIN events' = DOMAIN events \cup {Len(events) + 1} /\ events'[Len(events) + 1] = e
        /\ \A k \in DOMAIN events : events'[k] = events[k]
    BY <1>1, <1>3, <2>1 DEF e
  <2>3. Len(events) + 1 \notin DOMAIN events
    BY <1>1
  <2>4. \A d \in Calls : Lm!OfCall(d)' = IF d = c THEN Lm!OfCall(d) \cup {Len(events) + 1} ELSE Lm!OfCall(d)
    BY <2>1, <2>2, <2>3 DEF Lm!OfCall
  <2>5. \A d \in Calls : \A k \in Lm!OfCall(d) : events'[k] = events[k]
    BY <2>2 DEF Lm!OfCall
  <2>6. QED
    BY <1>1, <1>3, <2>1, <2>2, <2>4, <2>5
<1>4. QED
  BY <1>2, <1>3 DEF Lm!Recorded

\* Calls that step without emitting, and iterators that stay open.
LEMMA NothingEmitted ==
  ASSUME LlmInv, Lm!TypeOK', UNCHANGED events, rejected \subseteq rejected',
         \A c \in Calls : call'[c].kind = call[c].kind /\ (call'[c].emitted <=> call[c].emitted),
         \A x \in Calls \X Iterators :
             \/ at'[x].state = at[x].state
             \/ at[x].state = "new" /\ at'[x].state = "open"
  PROVE  LlmInv'
<1>1. \A c \in Calls : Lm!OfCall(c)' = Lm!OfCall(c)
  BY DEF Lm!OfCall
<1>2. ASSUME NEW c \in Calls PROVE StreamInv(c)'
  <2>1. \A i \in Iterators : <<c, i>> \in Calls \X Iterators
    OBVIOUS
  <2>2. \A i \in Iterators, s \in ClosedStates : at'[<<c, i>>].state = s <=> at[<<c, i>>].state = s
    BY <2>1 DEF ClosedStates
  <2>3. "done" \in ClosedStates
    BY DEF ClosedStates
  <2>4. QED
    BY <1>1, <2>2, <2>3 DEF LlmInv, StreamInv
<1>3. QED
  BY <1>2 DEF LlmInv

\* A call goes to its next step, or its flag is set.
LEMMA StepsOn ==
  ASSUME NEW k \in LlmCall, NEW p \in Lm!Pcs
  PROVE  LET l == [k EXCEPT !.pc = p] IN l \in LlmCall /\ l.kind = k.kind /\ (l.emitted <=> k.emitted)
BY DEF LlmCall

\* A call with its event emitted is a call.
LEMMA FlagSet ==
  ASSUME NEW k \in LlmCall
  PROVE  LET l == [k EXCEPT !.emitted = TRUE] IN l \in LlmCall /\ l.kind = k.kind /\ l.emitted
BY DEF LlmCall

\* A call that ends.
LEMMA EndedForm ==
  ASSUME NEW k \in LlmCall, NEW r \in {"none", "answer", "error"}
  PROVE  LET l == [k EXCEPT !.pc = "ended", !.result = r] IN l \in LlmCall /\ l.kind = k.kind /\ (l.emitted <=> k.emitted)
<1> DEFINE m == [k EXCEPT !.pc = "ended"]
           l == [k EXCEPT !.pc = "ended", !.result = r]
<1>1. m \in LlmCall /\ m.kind = k.kind /\ (m.emitted <=> k.emitted)
  BY DEF LlmCall, Lm!Pcs
<1>2. l = [m EXCEPT !.result = r]
  BY DEF LlmCall
<1> HIDE DEF l, m
<1>3. l \in LlmCall /\ l.kind = m.kind /\ (l.emitted <=> m.emitted)
  BY <1>1, <1>2 DEF LlmCall
<1>4. QED
  BY <1>1, <1>3 DEF l

\* A stream that begins.
LEMMA StreamForm ==
  ASSUME NEW k \in LlmCall, NEW n \in 0..MaxChunks, NEW u \in Tokens
  PROVE  LET l == [k EXCEPT !.pc = "streaming", !.chunks = n, !.usage = u, !.result = "answer"] IN
         l \in LlmCall /\ l.kind = k.kind /\ (l.emitted <=> k.emitted)
<1> DEFINE a == [k EXCEPT !.pc = "streaming"]
           b == [a EXCEPT !.chunks = n]
           c == [b EXCEPT !.usage = u]
           l == [k EXCEPT !.pc = "streaming", !.chunks = n, !.usage = u, !.result = "answer"]
<1>1. l = [c EXCEPT !.result = "answer"]
  BY DEF LlmCall
<1>2. a \in LlmCall /\ a.kind = k.kind /\ (a.emitted <=> k.emitted)
  BY DEF LlmCall, Lm!Pcs
<1> HIDE DEF a
<1>3. b \in LlmCall /\ b.kind = k.kind /\ (b.emitted <=> k.emitted)
  BY <1>2 DEF LlmCall
<1> HIDE DEF b
<1>4. c \in LlmCall /\ c.kind = k.kind /\ (c.emitted <=> k.emitted)
  BY <1>3 DEF LlmCall
<1> HIDE DEF c, l
<1>5. l \in LlmCall /\ l.kind = k.kind /\ (l.emitted <=> k.emitted)
  BY <1>1, <1>4 DEF LlmCall
<1>6. QED
  BY <1>5 DEF l

\* A chunk that is counted.
LEMMA TappedForm ==
  ASSUME LlmAssumption, NEW c \in Calls, call[c] \in LlmCall, NEW last \in BOOLEAN
  PROVE  /\ Lm!Tapped(c, last) \in LlmCall /\ Lm!Tapped(c, last).kind = call[c].kind
         /\ Lm!Tapped(c, last).emitted <=> call[c].emitted
<1> DEFINE k == call[c]
           new == IF last /\ k.usage > 0 THEN k.usage ELSE IF k.out = 0 THEN 1 ELSE k.out
           old == IF last /\ k.usage > 0 THEN k.usage ELSE k.out
<1>1. k \in LlmCall /\ k.usage \in Nat /\ k.out \in Nat /\ k.count \in Nat
  BY DEF LlmCall, LlmAssumption
<1>2. new \in Nat /\ old \in Nat /\ k.count + 1 \in Nat
  BY <1>1
<1>3. CASE k.provider = "openai"
  <2> DEFINE m == [k EXCEPT !.count = k.count + 1]
             l == Lm!Tapped(c, last)
  <2>1. l = [m EXCEPT !.out = old]
    BY <1>1, <1>3 DEF Lm!Tapped, Lm!TapOpenAI, LlmCall
  <2> HIDE DEF k, old
  <2>2. m \in LlmCall /\ m.kind = k.kind /\ (m.emitted <=> k.emitted)
    BY <1>1, <1>2 DEF LlmCall
  <2> HIDE DEF m, l
  <2>3. l \in LlmCall /\ l.kind = m.kind /\ (l.emitted <=> m.emitted)
    BY <1>2, <2>1, <2>2 DEF LlmCall
  <2>4. QED
    BY <2>2, <2>3 DEF k, l
<1>4. CASE k.provider # "openai"
  <2> DEFINE l == Lm!Tapped(c, last)
  <2>1. l = [k EXCEPT !.out = new]
    BY <1>1, <1>4 DEF Lm!Tapped, Lm!TapAnthropic, LlmCall
  <2> HIDE DEF k, new, l
  <2>2. l \in LlmCall /\ l.kind = k.kind /\ (l.emitted <=> k.emitted)
    BY <1>1, <1>2, <2>1 DEF LlmCall
  <2>3. QED
    BY <2>2 DEF k, l
<1>5. QED
  BY <1>3, <1>4

\* One call steps on.
LEMMA CallSteps ==
  ASSUME LlmInv, NEW c \in Calls, NEW l \in LlmCall, l.kind = call[c].kind, l.emitted <=> call[c].emitted,
         call' = [call EXCEPT ![c] = l], UNCHANGED <<at, events, rejected>>, remembered' \subseteq Calls
  PROVE  LlmInv'
<1>1. call' \in [Calls -> LlmCall] /\ \A d \in Calls : call'[d].kind = call[d].kind /\ (call'[d].emitted <=> call[d].emitted)
  BY DEF LlmInv, Lm!TypeOK, LlmCall
<1>2. Lm!TypeOK'
  BY <1>1 DEF LlmInv, Lm!TypeOK, LlmCall
<1>3. QED
  BY <1>1, <1>2, NothingEmitted

\* An iterator closes: the first one has the event appended or refused.
LEMMA ClosedKeeps ==
  ASSUME LlmAssumption, LlmInv, NEW c \in Calls, NEW i \in Iterators, NEW state \in ClosedStates,
         Lm!Iterating(c, i), Lm!Closed(c, i, state), UNCHANGED remembered
  PROVE  LlmInv'
<1> DEFINE x == <<c, i>>
           p == state # "done"
           t == Lm!FinalTokens(c)
<1>1. call \in [Calls -> LlmCall] /\ at \in [Calls \X Iterators -> LlmIterator] /\ x \in Calls \X Iterators
  BY DEF LlmInv, Lm!TypeOK, LlmCall, LlmIterator
<1>2. at[x].state = "open" /\ at' = [at EXCEPT ![x].state = state]
  BY DEF Lm!Iterating, Lm!Closed
<1>3. /\ at' \in [Calls \X Iterators -> LlmIterator] /\ at'[x].state = state
      /\ \A y \in (Calls \X Iterators) \ {x} : at'[y] = at[y]
  <2>1. at[x] \in LlmIterator /\ state \in {"new", "open", "done", "broken", "failed"}
    BY <1>1 DEF ClosedStates
  <2>2. [at[x] EXCEPT !.state = state] \in LlmIterator /\ [at[x] EXCEPT !.state = state].state = state
    BY <2>1 DEF LlmIterator
  <2>3. at' = [at EXCEPT ![x] = [at[x] EXCEPT !.state = state]]
    BY <1>1, <1>2
  <2> HIDE DEF x
  <2>4. QED
    BY <1>1, <2>2, <2>3
<1>4. \A y \in Calls \X Iterators, s \in ClosedStates : at[y].state = s => at'[y].state = s
  BY <1>2, <1>3 DEF ClosedStates
<1>5. \A d \in Calls \ {c}, j \in Iterators : at'[<<d, j>>] = at[<<d, j>>]
  BY <1>3
<1>6. "done" \in ClosedStates
  BY DEF ClosedStates
<1> HIDE DEF x
<1>7. CASE call[c].emitted
  <2>1. UNCHANGED <<call, events, rejected>>
    BY <1>7 DEF Lm!Closed, Lm!EmitAuditEvent
  <2>2. Lm!TypeOK'
    BY <1>3, <2>1 DEF LlmInv, Lm!TypeOK, LlmIterator
  <2>3. \A d \in Calls : Lm!OfCall(d)' = Lm!OfCall(d)
    BY <2>1 DEF Lm!OfCall
  <2>4. ASSUME NEW d \in Calls PROVE StreamInv(d)'
    <3>1. \A j \in Iterators : <<d, j>> \in Calls \X Iterators
      OBVIOUS
    <3>2. CASE d = c
      BY <1>4, <1>6, <1>7, <2>1, <2>3, <3>1, <3>2 DEF LlmInv, StreamInv
    <3>3. CASE d # c
      BY <1>5, <2>1, <2>3, <3>3 DEF LlmInv, StreamInv
    <3>4. QED
      BY <3>2, <3>3
  <2>5. QED
    BY <2>2, <2>4 DEF LlmInv
<1>8. CASE ~call[c].emitted
  <2>1. Lm!Recorded(c, p, t) /\ call' = [call EXCEPT ![c].emitted = TRUE]
    BY <1>8 DEF Lm!Closed, Lm!EmitAuditEvent
  <2>2. call' \in [Calls -> LlmCall] /\ call'[c].kind = call[c].kind /\ call'[c].emitted
        /\ \A d \in Calls \ {c} : call'[d] = call[d]
    <3>1. call[c] \in LlmCall
      BY <1>1
    <3> DEFINE l == [call[c] EXCEPT !.emitted = TRUE]
    <3>2. l \in LlmCall /\ l.kind = call[c].kind /\ l.emitted
      BY <3>1, FlagSet
    <3>3. call' = [call EXCEPT ![c] = l]
      BY <1>1, <2>1
    <3> HIDE DEF l
    <3>4. QED
      BY <1>1, <3>2, <3>3
  <2>3. p \in BOOLEAN /\ t \in Nat
    BY <1>1 DEF Lm!FinalTokens, LlmCall
  <2> HIDE DEF p, t
  <2>4. /\ events' \in Seq([call : Calls, partial : BOOLEAN, out : Nat]) /\ rejected' \subseteq Calls
        /\ rejected \subseteq rejected'
        /\ \A d \in Calls : \A k \in Lm!OfCall(d) : k \in Lm!OfCall(d)' /\ events'[k] = events[k]
        /\ \A d \in Calls \ {c} : Lm!OfCall(d)' = Lm!OfCall(d)
        /\ \/ events' = events /\ rejected' = rejected \cup {c}
           \/ Lm!OfCall(c)' = Lm!OfCall(c) \cup {Len(events) + 1} /\ events'[Len(events) + 1].partial = p
    BY <2>1, <2>3, Appended
  <2>5. Lm!TypeOK'
    BY <1>3, <2>2, <2>4 DEF LlmInv, Lm!TypeOK, LlmIterator, LlmCall
  <2>6. ASSUME call[c].kind = "stream" PROVE StreamInv(c)'
    <3>1. Lm!OfCall(c) = {}
      BY <1>8, <2>6 DEF LlmInv, StreamInv
    <3>2. CASE events' = events /\ rejected' = rejected \cup {c}
      <4>1. Lm!OfCall(c)' = {}
        BY <3>1, <3>2 DEF Lm!OfCall
      <4>2. QED
        BY <2>2, <3>2, <4>1 DEF StreamInv
    <3>3. CASE Lm!OfCall(c)' = Lm!OfCall(c) \cup {Len(events) + 1} /\ events'[Len(events) + 1].partial = p
      <4>1. Lm!OfCall(c)' = {Len(events) + 1}
        BY <3>1, <3>3
      <4>2. ~p => at'[<<c, i>>].state = "done"
        BY <1>3 DEF p, x
      <4>3. QED
        BY <2>2, <3>3, <4>1, <4>2 DEF StreamInv
    <3>4. QED
      BY <2>4, <3>2, <3>3
  <2>7. ASSUME NEW d \in Calls \ {c} PROVE StreamInv(d)'
    <3>1. Lm!OfCall(d)' = Lm!OfCall(d) /\ call'[d] = call[d]
      BY <2>2, <2>4
    <3>2. \A k \in Lm!OfCall(d) : events'[k] = events[k]
      BY <2>4
    <3>3. d \in rejected => d \in rejected'
      BY <2>4
    <3>4. StreamInv(d)
      BY DEF LlmInv
    <3>5. QED
      BY <1>5, <3>1, <3>2, <3>3, <3>4 DEF StreamInv
  <2>8. call[c].kind # "stream" => StreamInv(c)'
    BY <2>2 DEF StreamInv
  <2>9. QED
    BY <2>5, <2>6, <2>7, <2>8 DEF LlmInv
<1>9. QED
  BY <1>7, <1>8

\* Every step keeps the invariant.
LEMMA LlmStep ==
  ASSUME LlmAssumption, LlmInv, [Lm!Next]_(Lm!vars)
  PROVE  LlmInv'
<1>1. CASE UNCHANGED Lm!vars
  <2>1. Lm!TypeOK'
    BY <1>1 DEF Lm!vars, LlmInv, Lm!TypeOK
  <2>2. QED
    BY <1>1, <2>1, NothingEmitted DEF Lm!vars
<1>2. SUFFICES ASSUME NEW c \in Calls,
                      \/ Lm!Begin(c) \/ Lm!Recalled(c) \/ Lm!Stored(c) \/ Lm!CallFails(c) \/ Lm!Answered(c)
                      \/ \E i \in Iterators : Lm!Open(c, i) \/ Lm!NextChunk(c, i) \/ Lm!LastRead(c, i) \/ Lm!LeftEarly(c, i)
               PROVE  LlmInv'
  BY <1>1 DEF Lm!Next
<1> DEFINE k == call[c]
<1>3. /\ call \in [Calls -> LlmCall] /\ at \in [Calls \X Iterators -> LlmIterator] /\ k \in LlmCall
      /\ remembered \subseteq Calls
  BY DEF LlmInv, Lm!TypeOK, LlmCall, LlmIterator
<1>4. ASSUME NEW p \in Lm!Pcs, call' = [call EXCEPT ![c].pc = p], UNCHANGED <<at, events, rejected>>,
             remembered' \subseteq Calls
      PROVE  LlmInv'
  <2> DEFINE l == [k EXCEPT !.pc = p]
  <2>1. call' = [call EXCEPT ![c] = l]
    BY <1>3, <1>4
  <2>2. l \in LlmCall /\ l.kind = k.kind /\ (l.emitted <=> k.emitted)
    BY <1>3, StepsOn
  <2> HIDE DEF l
  <2>3. QED
    BY <1>4, <2>1, <2>2, CallSteps
<1>5. ASSUME NEW r \in {"answer", "error"}, Lm!Ended(c, r), UNCHANGED <<at, events, rejected>>,
             remembered' \subseteq Calls
      PROVE  LlmInv'
  <2> DEFINE l == [k EXCEPT !.pc = "ended", !.result = r]
  <2>1. call' = [call EXCEPT ![c] = l]
    BY <1>3, <1>5 DEF Lm!Ended
  <2>2. l \in LlmCall /\ l.kind = k.kind /\ (l.emitted <=> k.emitted)
    BY <1>3, EndedForm
  <2> HIDE DEF l
  <2>3. QED
    BY <1>5, <2>1, <2>2, CallSteps
<1>6. CASE Lm!Begin(c)
  <2>1. (IF k.kind = "wrapped" THEN "recalling" ELSE "calling") \in Lm!Pcs
    BY DEF Lm!Pcs
  <2>2. QED
    BY <1>3, <1>4, <1>6, <2>1 DEF Lm!Begin
<1>7. CASE Lm!Recalled(c)
  <2>1. "calling" \in Lm!Pcs
    BY DEF Lm!Pcs
  <2>2. QED
    BY <1>3, <1>4, <1>5, <1>7, <2>1 DEF Lm!Recalled
<1>8. CASE Lm!Stored(c)
  BY <1>3, <1>5, <1>8 DEF Lm!Stored, Lm!StoreFails
<1>9. CASE Lm!CallFails(c)
  BY <1>3, <1>5, <1>9 DEF Lm!CallFails
<1>10. CASE Lm!Answered(c)
  <2>1. remembered' \subseteq Calls
    BY <1>3, <1>10 DEF Lm!Answered
  <2>2. CASE k.kind = "wrapped"
    <3>1. "storing" \in Lm!Pcs
      BY DEF Lm!Pcs
    <3>2. QED
      BY <1>4, <1>10, <2>1, <2>2, <3>1 DEF Lm!Answered
  <2>3. CASE k.kind = "create"
    <3>1. PICK u \in Tokens : Lm!Recorded(c, FALSE, u)
      BY <1>10, <2>3 DEF Lm!Answered
    <3>2. Lm!Ended(c, "answer") /\ at' = at
      BY <1>10, <2>3 DEF Lm!Answered
    <3>3. u \in Nat
      BY DEF LlmAssumption
    <3>4. /\ events' \in Seq([call : Calls, partial : BOOLEAN, out : Nat]) /\ rejected' \subseteq Calls
          /\ rejected \subseteq rejected'
          /\ \A d \in Calls : \A j \in Lm!OfCall(d) : j \in Lm!OfCall(d)' /\ events'[j] = events[j]
          /\ \A d \in Calls \ {c} : Lm!OfCall(d)' = Lm!OfCall(d)
      BY <3>1, <3>3, Appended
    <3> DEFINE l == [k EXCEPT !.pc = "ended", !.result = "answer"]
    <3>5. call' = [call EXCEPT ![c] = l]
      BY <1>3, <3>2 DEF Lm!Ended
    <3>6. l \in LlmCall /\ l.kind = k.kind /\ (l.emitted <=> k.emitted)
      BY <1>3, EndedForm
    <3> HIDE DEF l, k
    <3>7. call' \in [Calls -> LlmCall] /\ call'[c] = l /\ \A d \in Calls \ {c} : call'[d] = call[d]
      BY <1>3, <3>5, <3>6
    <3>8. Lm!TypeOK'
      BY <2>1, <3>2, <3>4, <3>7 DEF LlmInv, Lm!TypeOK, LlmCall
    <3>9. StreamInv(c)'
      BY <2>3, <3>6, <3>7 DEF StreamInv
    <3>10. ASSUME NEW d \in Calls \ {c} PROVE StreamInv(d)'
      <4>1. Lm!OfCall(d)' = Lm!OfCall(d) /\ call'[d] = call[d]
        BY <3>4, <3>7
      <4>2. \A j \in Lm!OfCall(d) : events'[j] = events[j]
        BY <3>4
      <4>3. d \in rejected => d \in rejected'
        BY <3>4
      <4>4. StreamInv(d)
        BY DEF LlmInv
      <4>5. QED
        BY <3>2, <4>1, <4>2, <4>3, <4>4 DEF StreamInv
    <3>11. QED
      BY <3>8, <3>9, <3>10 DEF LlmInv
  <2>4. CASE k.kind = "stream"
    <3>1. PICK n \in 0..MaxChunks, u \in Tokens :
            call' = [call EXCEPT ![c].pc = "streaming", ![c].chunks = n, ![c].usage = u, ![c].result = "answer"]
      BY <1>10, <2>4 DEF Lm!Answered
    <3>2. UNCHANGED <<at, events, rejected>>
      BY <1>10, <2>4 DEF Lm!Answered
    <3> DEFINE l == [k EXCEPT !.pc = "streaming", !.chunks = n, !.usage = u, !.result = "answer"]
    <3>3. call' = [call EXCEPT ![c] = l]
      BY <1>3, <3>1
    <3>4. l \in LlmCall /\ l.kind = k.kind /\ (l.emitted <=> k.emitted)
      BY <1>3, StreamForm
    <3> HIDE DEF l
    <3>5. QED
      BY <2>1, <3>2, <3>3, <3>4, CallSteps
  <2>5. QED
    BY <1>3, <2>2, <2>3, <2>4 DEF LlmCall, Lm!Kinds
<1>11. ASSUME NEW i \in Iterators, Lm!Open(c, i) PROVE LlmInv'
  <2>1. UNCHANGED <<call, events, rejected, remembered>>
        /\ at[<<c, i>>].state = "new" /\ at' = [at EXCEPT ![<<c, i>>].state = "open"]
    BY <1>11 DEF Lm!Open
  <2> DEFINE x == <<c, i>>
  <2>2. x \in Calls \X Iterators /\ at[x] \in LlmIterator /\ at' = [at EXCEPT ![x] = [at[x] EXCEPT !.state = "open"]]
    BY <1>3, <2>1
  <2>3. [at[x] EXCEPT !.state = "open"] \in LlmIterator /\ [at[x] EXCEPT !.state = "open"].state = "open"
    BY <2>2 DEF LlmIterator
  <2>4. at[x].state = "new"
    BY <2>1
  <2> HIDE DEF x
  <2>5. /\ at' \in [Calls \X Iterators -> LlmIterator] /\ at'[x].state = "open"
        /\ \A y \in (Calls \X Iterators) \ {x} : at'[y] = at[y]
    BY <1>3, <2>2, <2>3
  <2>6. Lm!TypeOK'
    BY <2>1, <2>5 DEF LlmInv, Lm!TypeOK, LlmIterator
  <2>7. QED
    BY <2>1, <2>4, <2>5, <2>6, NothingEmitted
<1>12. ASSUME NEW i \in Iterators, Lm!NextChunk(c, i) PROVE LlmInv'
  <2> DEFINE x == <<c, i>>
             l == Lm!Tapped(c, at[x].pos + 1 = call[c].chunks)
             j == [at[x] EXCEPT !.pos = @ + 1]
  <2>1. /\ UNCHANGED <<events, rejected, remembered>> /\ at[x].pos < k.chunks
        /\ at' = [at EXCEPT ![x].pos = @ + 1] /\ call' = [call EXCEPT ![c] = l]
    BY <1>12 DEF Lm!NextChunk
  <2>2. l \in LlmCall /\ l.kind = k.kind /\ (l.emitted <=> k.emitted)
    <3>1. (at[x].pos + 1 = call[c].chunks) \in BOOLEAN
      OBVIOUS
    <3>2. QED
      BY <1>3, <3>1, TappedForm
  <2>3. x \in Calls \X Iterators /\ at[x] \in LlmIterator /\ at' = [at EXCEPT ![x] = j]
    BY <1>3, <2>1
  <2>4. j \in LlmIterator /\ j.state = at[x].state
    <3>1. k.chunks \in 0..MaxChunks /\ at[x].pos \in 0..MaxChunks
      BY <1>3, <2>3 DEF LlmCall, LlmIterator
    <3>2. at[x].pos + 1 \in 0..MaxChunks
      BY <2>1, <3>1 DEF LlmAssumption
    <3>3. QED
      BY <2>3, <3>2 DEF LlmIterator
  <2> HIDE DEF k, l, j, x
  <2>5. call' \in [Calls -> LlmCall] /\ \A d \in Calls : call'[d].kind = call[d].kind /\ (call'[d].emitted <=> call[d].emitted)
    BY <1>3, <2>1, <2>2 DEF k
  <2>6. /\ at' \in [Calls \X Iterators -> LlmIterator]
        /\ \A y \in Calls \X Iterators : at'[y].state = at[y].state
    BY <1>3, <2>3, <2>4
  <2>7. Lm!TypeOK'
    BY <2>1, <2>5, <2>6 DEF LlmInv, Lm!TypeOK, LlmIterator, LlmCall
  <2>8. QED
    BY <2>1, <2>5, <2>6, <2>7, NothingEmitted
<1>13. ASSUME NEW i \in Iterators, Lm!LastRead(c, i) \/ Lm!LeftEarly(c, i) PROVE LlmInv'
  BY <1>13, ClosedKeeps DEF Lm!LastRead, Lm!LeftEarly, ClosedStates
<1>14. QED
  BY <1>2, <1>6, <1>7, <1>8, <1>9, <1>10, <1>11, <1>12, <1>13

\* A stream whose iterators close, in whatever way and however many, has one event
\* unless the chain refused it, and an event that is not partial stands for a stream
\* that was read to its end.
THEOREM StreamsAreAudited ==
  ASSUME LlmAssumption
  PROVE  Lm!Spec => []Lm!OneEventPerStream
<1>1. LlmInv => Lm!OneEventPerStream
  BY DEF LlmInv, StreamInv, ClosedStates, Lm!OneEventPerStream
<1>2. QED
  BY <1>1, LlmInit, LlmStep, PTL DEF Lm!Spec

-----------------------------------------------------------------------------
(* The fraud guard (FraudGuard).                                           *)
(* A charge that was let through left a fingerprint, and every attempt     *)
(* since has only made it younger, until the detector dropped it.          *)

FingerState == [charge : Charges, times : Seq(Nat)]
PassedState == [charge : Charges, at : Nat, country : Countries \cup {Fg!Nowhere}]
GuardState ==
    [ring : Seq([at : Nat, amount : Charges]), blocked : BOOLEAN, flagged : BOOLEAN,
     seen : [Countries -> Nat], last : Countries \cup {Fg!Nowhere}, changes : Seq(Nat)]

\* Fingerprints, no more than are kept, each with an attempt.
OneEach(k) == \A i, j \in DOMAIN k : k[i].charge = k[j].charge => i = j
Fingerprints(k) ==
    k \in Seq(FingerState) /\ OneEach(k) /\ Len(k) <= MaxKnown /\ \A i \in DOMAIN k : k[i].times # <<>>

\* The fingerprint of charge c is at least as young as a time.
Youngest(k, i) == k[i].times[Len(k[i].times)]
SeenSince(k, c, since) == \E i \in DOMAIN k : k[i].charge = c /\ Youngest(k, i) >= since

\* What passed has a fingerprint, is old enough, or its fingerprint was dropped.
Remembered ==
    \A i \in DOMAIN passed :
        \/ ~(lost[passed[i].charge] < i)
        \/ now - passed[i].at >= Minute
        \/ SeenSince(known, passed[i].charge, passed[i].at)

FraudTyped ==
    /\ now \in Nat /\ guard \in GuardState /\ saved \in GuardState
    /\ lost \in [Charges -> Nat] /\ passed \in Seq(PassedState)
    /\ \A i \in DOMAIN passed : passed[i].at <= now

FraudInv == FraudTyped /\ Fingerprints(known) /\ Remembered /\ Fg!ReplayRefused

\* The number of elements is the library's.
LEMMA FraudCardinality == ASSUME NEW S PROVE Fg!Cardinality(S) = Cardinality(S)
BY DEF Fg!Cardinality, Cardinality

\* A number of elements off the front leaves the end of a sequence.
LEMMA SuffixOf ==
  ASSUME NEW s \in Seq(Nat), NEW n \in Nat, n <= Len(s)
  PROVE  LET t == SubSeq(s, n + 1, Len(s))
         IN  t \in Seq(Nat) /\ (n < Len(s) => t # <<>> /\ t[Len(t)] = s[Len(s)])
<1> DEFINE m == Len(s)
           t == SubSeq(s, n + 1, m)
<1>1. m \in Nat /\ n \in 0..m
  OBVIOUS
<1>2. t \in Seq(Nat)
  BY <1>1
<1>3. Len(t) = m - n
  BY <1>1
<1>4. \A i \in 1..(m - n) : t[i] = s[n + i]
  BY <1>1
<1> HIDE DEF t
<1>5. n < m => t # <<>> /\ t[Len(t)] = s[m]
  <2> SUFFICES ASSUME n < m PROVE t # <<>> /\ t[Len(t)] = s[m]
    OBVIOUS
  <2>1. m - n \in 1..(m - n) /\ n + (m - n) = m
    BY <1>1
  <2>2. t[m - n] = s[m]
    BY <1>4, <2>1
  <2>3. t # <<>>
    BY <1>1, <1>2, <1>3
  <2>4. QED
    BY <1>3, <2>2, <2>3
<1>6. QED
  BY <1>2, <1>5 DEF t, m

\* A charge has one place among the fingerprints.
LEMMA ThePlace ==
  ASSUME NEW k, OneEach(k), NEW i \in DOMAIN k
  PROVE  Fg!Place(k, k[i].charge) = i /\ Fg!Places(k, k[i].charge) = {i}
<1>1. Fg!Places(k, k[i].charge) = {i}
  BY DEF Fg!Places, OneEach
<1>2. QED
  BY <1>1 DEF Fg!Place

\* Of its attempts those that are old are some.
LEMMA OldOnes ==
  ASSUME NEW s \in Seq(Nat), NEW P \in SUBSET DOMAIN s
  PROVE  /\ Fg!Cardinality(P) \in Nat /\ Fg!Cardinality(P) <= Len(s)
         /\ (s # <<>> /\ Len(s) \notin P => Fg!Cardinality(P) < Len(s))
<1>1. Len(s) \in Nat /\ DOMAIN s = 1..Len(s)
  OBVIOUS
<1>2. IsFiniteSet(1..Len(s)) /\ Cardinality(1..Len(s)) = Len(s)
  <2>1. 1 \in Int /\ Len(s) \in Int
    BY <1>1
  <2>2. IsFiniteSet(1..Len(s)) /\ Cardinality(1..Len(s)) = IF 1 > Len(s) THEN 0 ELSE Len(s) - 1 + 1
    BY <2>1, FS_Interval
  <2>3. (IF 1 > Len(s) THEN 0 ELSE Len(s) - 1 + 1) = Len(s)
    BY <1>1
  <2>4. QED
    BY <2>2, <2>3
<1>3. P \in SUBSET (1..Len(s))
  BY <1>1
<1>4. IsFiniteSet(P) /\ Cardinality(P) <= Len(s)
  BY <1>2, <1>3, FS_Subset
<1>5. Cardinality(P) \in Nat
  BY <1>4, FS_CardinalityType
<1>6. ASSUME s # <<>>, Len(s) \notin P PROVE Cardinality(P) < Len(s)
  <2>1. Len(s) \in 1..Len(s)
    BY <1>1, <1>6
  <2>2. P # 1..Len(s)
    BY <1>6, <2>1
  <2>3. Cardinality(P) # Len(s)
    BY <1>2, <1>3, <2>2, FS_Subset
  <2>4. QED
    BY <1>1, <1>4, <1>5, <2>3
<1>7. QED
  BY <1>4, <1>5, <1>6, FraudCardinality

\* What a fingerprint is made of.
LEMMA Fingerprint ==
  ASSUME NEW k, Fingerprints(k), NEW i \in DOMAIN k
  PROVE  /\ k[i] \in FingerState /\ k[i].charge \in Charges
         /\ k[i].times \in Seq(Nat) /\ k[i].times # <<>> /\ Len(k[i].times) \in Nat \ {0}
         /\ Youngest(k, i) \in Nat
<1>1. k \in Seq(FingerState) /\ k[i].times # <<>>
  BY DEF Fingerprints
<1>2. k[i] \in FingerState
  BY <1>1
<1>3. k[i].charge \in Charges /\ k[i].times \in Seq(Nat)
  BY <1>2 DEF FingerState
<1> DEFINE t == k[i].times
<1>4. t \in Seq(Nat) /\ t # <<>>
  BY <1>1, <1>3
<1> HIDE DEF t
<1>5. Len(t) \in Nat \ {0} /\ t[Len(t)] \in Nat
  BY <1>4
<1>6. QED
  BY <1>2, <1>3, <1>4, <1>5 DEF t, Youngest

\* The attempts of the last minutes end with the youngest one, if that is recent.
LEMMA TimesOf ==
  ASSUME FraudAssumption, now \in Nat, NEW k, Fingerprints(k), NEW i \in DOMAIN k
  PROVE  LET times == Fg!Times(k, k[i].charge)
         IN  /\ times \in Seq(Nat)
             /\ now - Youngest(k, i) < FiveMinutes => times # <<>> /\ times[Len(times)] = Youngest(k, i)
<1> DEFINE s == k[i].times
           P == {j \in DOMAIN s : now - s[j] >= FiveMinutes}
           n == Fg!Cardinality(P)
<1>1. s \in Seq(Nat) /\ s # <<>> /\ Len(s) \in Nat \ {0}
  BY Fingerprint
<1>2. P \in SUBSET DOMAIN s
  OBVIOUS
<1>3. Fg!Times(k, k[i].charge) = SubSeq(s, n + 1, Len(s))
  <2>1. Fg!Place(k, k[i].charge) = i /\ Fg!Places(k, k[i].charge) # {}
    BY ThePlace DEF Fingerprints
  <2>2. QED
    BY <2>1 DEF Fg!Times
<1>4. n \in Nat /\ n <= Len(s)
  BY <1>1, <1>2, OldOnes
<1>5. ASSUME now - Youngest(k, i) < FiveMinutes PROVE n < Len(s)
  <2>1. s[Len(s)] \in Nat /\ now - s[Len(s)] < FiveMinutes
    BY <1>1, <1>5 DEF Youngest
  <2>2. Len(s) \notin P
    BY <2>1 DEF FraudAssumption
  <2>3. QED
    BY <1>1, <1>2, <2>2, OldOnes
<1> HIDE DEF s, n
<1>6. QED
  BY <1>1, <1>3, <1>4, <1>5, SuffixOf DEF Youngest, s

\* In any case they are times.
LEMMA TimesTyped ==
  ASSUME FraudAssumption, now \in Nat, NEW k, Fingerprints(k), NEW c \in Charges
  PROVE  Fg!Times(k, c) \in Seq(Nat) /\ (Fg!Times(k, c) # <<>> => Fg!Places(k, c) # {})
<1>1. CASE Fg!Places(k, c) = {}
  BY <1>1 DEF Fg!Times
<1>2. CASE Fg!Places(k, c) # {}
  <2>1. PICK i \in DOMAIN k : k[i].charge = c
    BY <1>2 DEF Fg!Places
  <2>2. QED
    BY <1>2, <2>1, TimesOf
<1>3. QED
  BY <1>1, <1>2

\* Of two that would be repeats the second is one, whatever was tried since.
LEMMA IsReplayed ==
  ASSUME FraudAssumption, now \in Nat, NEW k, Fingerprints(k), NEW c \in Charges, NEW since \in Nat,
         SeenSince(k, c, since), now - since < Minute
  PROVE  Fg!Replayed(k, c)
<1>1. PICK i \in DOMAIN k : k[i].charge = c /\ Youngest(k, i) >= since
  BY DEF SeenSince
<1>2. Youngest(k, i) \in Nat
  BY Fingerprint
<1>3. now - Youngest(k, i) < Minute /\ now - Youngest(k, i) < FiveMinutes
  BY <1>1, <1>2 DEF FraudAssumption
<1>4. LET times == Fg!Times(k, c) IN times # <<>> /\ times[Len(times)] = Youngest(k, i)
  BY <1>1, <1>3, TimesOf
<1>5. QED
  BY <1>3, <1>4 DEF Fg!Replayed, Fg!Last

\* The fingerprints without one of them.
LEMMA Removed ==
  ASSUME NEW k, Fingerprints(k), NEW p \in DOMAIN k
  PROVE  LET s == Fg!RemoveAt(k, p)
         IN  /\ s \in Seq(FingerState) /\ Len(s) = Len(k) - 1
             /\ \A i \in DOMAIN s : s[i] = IF i < p THEN k[i] ELSE k[i + 1]
<1>1. k \in Seq(FingerState) /\ p \in 1..Len(k) /\ Len(k) \in Nat
  BY DEF Fingerprints
<1> DEFINE a == SubSeq(k, 1, p - 1)
           b == SubSeq(k, p + 1, Len(k))
<1>2. a \in Seq(FingerState) /\ Len(a) = p - 1 /\ \A i \in 1..Len(a) : a[i] = k[i]
  BY <1>1
<1>3. b \in Seq(FingerState) /\ Len(b) = Len(k) - p /\ \A i \in 1..Len(b) : b[i] = k[p + i]
  BY <1>1
<1> HIDE DEF a, b
<1>4. Fg!RemoveAt(k, p) = a \o b
  BY DEF Fg!RemoveAt, a, b
<1>5. a \o b \in Seq(FingerState) /\ Len(a \o b) = Len(k) - 1
  BY <1>1, <1>2, <1>3
<1>6. \A i \in DOMAIN (a \o b) : (a \o b)[i] = IF i < p THEN k[i] ELSE k[i + 1]
  <2> SUFFICES ASSUME NEW i \in DOMAIN (a \o b)
               PROVE  (a \o b)[i] = IF i < p THEN k[i] ELSE k[i + 1]
    OBVIOUS
  <2>1. i \in 1..(Len(k) - 1)
    BY <1>1, <1>5
  <2>2. CASE i < p
    BY <1>1, <1>2, <1>3, <2>1, <2>2
  <2>3. CASE ~(i < p)
    <3>1. (a \o b)[i] = b[i - (p - 1)] /\ i - (p - 1) \in 1..Len(b)
      BY <1>1, <1>2, <1>3, <2>1, <2>3
    <3>2. b[i - (p - 1)] = k[p + (i - (p - 1))]
      BY <1>3, <3>1
    <3>3. p + (i - (p - 1)) = i + 1
      BY <1>1, <2>1
    <3>4. QED
      BY <2>3, <3>1, <3>2, <3>3
  <2>4. QED
    BY <2>2, <2>3
<1>7. QED
  BY <1>4, <1>5, <1>6

\* What is kept when an attempt at c is written down.
Attempts(k, c, t) ==
    /\ Fingerprints(t)
    /\ \E e \in DOMAIN t : t[e].charge = c /\ Youngest(t, e) = now
    /\ \A i \in DOMAIN k : k[i].charge # c =>
         \/ \E e \in DOMAIN t : t[e] = k[i]
         \/ k[i].charge \notin Fg!Kept(t)

\* A fingerprint that is there keeps its place,
LEMMA AttemptInPlace ==
  ASSUME FraudAssumption, now \in Nat, NEW k, Fingerprints(k), NEW p \in DOMAIN k, NEW fresh \in FingerState,
         fresh.charge = k[p].charge, fresh.times # <<>>, fresh.times[Len(fresh.times)] = now
  PROVE  Attempts(k, k[p].charge, [k EXCEPT ![p] = fresh])
<1> DEFINE t == [k EXCEPT ![p] = fresh]
<1>1. k \in Seq(FingerState) /\ OneEach(k) /\ Len(k) <= MaxKnown /\ \A i \in DOMAIN k : k[i].times # <<>>
  BY DEF Fingerprints
<1>2. t \in Seq(FingerState) /\ Len(t) = Len(k)
  BY <1>1
<1>3. DOMAIN t = DOMAIN k /\ t[p] = fresh /\ \A i \in DOMAIN k : i # p => t[i] = k[i]
  BY <1>1
<1> HIDE DEF t
<1>4. \A i \in DOMAIN k : t[i].charge = k[i].charge
  BY <1>3
<1>5. Fingerprints(t)
  <2>1. OneEach(t)
    BY <1>1, <1>3, <1>4 DEF OneEach
  <2>2. \A i \in DOMAIN t : t[i].times # <<>>
    BY <1>1, <1>3
  <2>3. QED
    BY <1>1, <1>2, <2>1, <2>2 DEF Fingerprints
<1>6. Youngest(t, p) = now /\ p \in DOMAIN t
  BY <1>3 DEF Youngest
<1>7. \A i \in DOMAIN k : k[i].charge # k[p].charge => \E e \in DOMAIN t : t[e] = k[i]
  BY <1>3
<1>8. QED
  BY <1>3, <1>5, <1>6, <1>7 DEF Attempts, t

\* another is the last, and may displace the first.
LEMMA AttemptAdded ==
  ASSUME FraudAssumption, now \in Nat, NEW k, Fingerprints(k), NEW c \in Charges, NEW s \in Seq(FingerState),
         Len(s) <= Len(k), NEW fresh \in FingerState,
         \A i \in DOMAIN s : s[i].charge # c /\ s[i].times # <<>>, OneEach(s),
         \A i \in DOMAIN k : k[i].charge # c => \E e \in DOMAIN s : s[e] = k[i],
         fresh.charge = c, fresh.times # <<>>, fresh.times[Len(fresh.times)] = now
  PROVE  LET a == Append(s, fresh) IN Attempts(k, c, IF Len(a) > MaxKnown THEN Tail(a) ELSE a)
<1> DEFINE a == Append(s, fresh)
           n == Len(s)
<1>1. Len(k) \in Nat /\ Len(k) <= MaxKnown /\ n \in Nat /\ DOMAIN s = 1..n
  BY DEF Fingerprints
<1>2. /\ a \in Seq(FingerState) /\ Len(a) = n + 1 /\ DOMAIN a = 1..(n + 1)
      /\ a[n + 1] = fresh /\ \A i \in 1..n : a[i] = s[i]
  BY <1>1
<1> HIDE DEF a
<1>3. OneEach(a) /\ \A i \in DOMAIN a : a[i].times # <<>>
  BY <1>1, <1>2 DEF OneEach
<1>4. \A i \in DOMAIN k : k[i].charge # c => \E e \in 1..n : a[e] = k[i]
  BY <1>1, <1>2
<1>5. CASE ~(Len(a) > MaxKnown)
  <2>1. Fingerprints(a)
    BY <1>1, <1>2, <1>3, <1>5 DEF Fingerprints, FraudAssumption
  <2>2. Youngest(a, n + 1) = now /\ a[n + 1].charge = c /\ n + 1 \in DOMAIN a
    BY <1>1, <1>2 DEF Youngest
  <2>3. \A i \in DOMAIN k : k[i].charge # c => \E e \in DOMAIN a : a[e] = k[i]
    BY <1>1, <1>2, <1>4
  <2>4. QED
    BY <1>5, <2>1, <2>2, <2>3 DEF Attempts, a
<1>6. CASE Len(a) > MaxKnown
  <2> DEFINE t == Tail(a)
  <2>1. n >= 1 /\ n <= MaxKnown
    BY <1>1, <1>2, <1>6 DEF FraudAssumption
  <2>2. t \in Seq(FingerState) /\ Len(t) = n /\ DOMAIN t = 1..n
    BY <1>1, <1>2, <2>1
  <2>3. \A i \in 1..n : t[i] = a[i + 1] /\ i + 1 \in DOMAIN a
    BY <1>1, <1>2, <2>1
  <2> HIDE DEF t
  <2>4. Fingerprints(t)
    <3>1. OneEach(t)
      BY <1>1, <1>3, <2>2, <2>3 DEF OneEach
    <3>2. \A i \in DOMAIN t : t[i].times # <<>>
      BY <1>3, <2>2, <2>3
    <3>3. QED
      BY <2>1, <2>2, <3>1, <3>2 DEF Fingerprints
  <2>5. Youngest(t, n) = now /\ t[n].charge = c /\ n \in DOMAIN t
    BY <1>1, <1>2, <2>1, <2>2, <2>3 DEF Youngest
  <2>6. ASSUME NEW i \in DOMAIN k, k[i].charge # c
        PROVE  (\E e \in DOMAIN t : t[e] = k[i]) \/ k[i].charge \notin Fg!Kept(t)
    <3>1. PICK e \in 1..n : a[e] = k[i]
      BY <1>4, <2>6
    <3>2. CASE e = 1
      <4>1. \A j \in DOMAIN t : t[j].charge # k[i].charge
        <5> SUFFICES ASSUME NEW j \in DOMAIN t, t[j].charge = k[i].charge PROVE FALSE
          OBVIOUS
        <5>1. j \in 1..n /\ j + 1 \in DOMAIN a /\ a[j + 1].charge = a[e].charge /\ e \in DOMAIN a
          BY <1>1, <1>2, <2>2, <2>3, <3>1
        <5>2. j + 1 = e
          BY <1>3, <5>1 DEF OneEach
        <5>3. QED
          BY <1>1, <3>2, <5>1, <5>2
      <4>2. QED
        BY <4>1 DEF Fg!Kept
    <3>3. CASE e # 1
      <4>1. e - 1 \in 1..n /\ (e - 1) + 1 = e
        BY <1>1, <3>1, <3>3
      <4>2. t[e - 1] = k[i] /\ e - 1 \in DOMAIN t
        BY <2>2, <2>3, <3>1, <4>1
      <4>3. QED
        BY <4>2
    <3>4. QED
      BY <3>2, <3>3
  <2>7. QED
    BY <1>6, <2>4, <2>5, <2>6 DEF Attempts, t, a
<1>7. QED
  BY <1>5, <1>6 DEF a

\* In both cases the fingerprint of c is the youngest there is.
LEMMA AttemptWritten ==
  ASSUME FraudAssumption, now \in Nat, NEW k, Fingerprints(k), NEW c \in Charges
  PROVE  Attempts(k, c, Fg!Attempted(k, c))
<1> DEFINE times == Append(Fg!Times(k, c), now)
           fresh == [charge |-> c, times |-> times]
           p == Fg!Place(k, c)
           s == IF Fg!Places(k, c) = {} THEN k ELSE Fg!RemoveAt(k, p)
           a == Append(s, fresh)
<1>1. Fg!Times(k, c) \in Seq(Nat) /\ (Fg!Times(k, c) # <<>> => Fg!Places(k, c) # {})
  BY TimesTyped
<1>2. times \in Seq(Nat) /\ times # <<>> /\ times[Len(times)] = now
  BY <1>1
<1> HIDE DEF times
<1>3. fresh \in FingerState /\ fresh.charge = c /\ fresh.times # <<>> /\ fresh.times[Len(fresh.times)] = now
  BY <1>2 DEF FingerState
<1>4. Fg!Places(k, c) # {} => p \in DOMAIN k /\ k[p].charge = c /\ \A i \in DOMAIN k : k[i].charge = c => i = p
  <2> SUFFICES ASSUME Fg!Places(k, c) # {}
               PROVE  p \in DOMAIN k /\ k[p].charge = c /\ \A i \in DOMAIN k : k[i].charge = c => i = p
    OBVIOUS
  <2>1. p \in Fg!Places(k, c)
    BY DEF Fg!Place
  <2>2. p \in DOMAIN k /\ k[p].charge = c
    BY <2>1 DEF Fg!Places
  <2>3. QED
    BY <2>2 DEF Fingerprints, OneEach
<1>5. Fg!Attempted(k, c) = LET grown == IF Fg!Times(k, c) # <<>> THEN [k EXCEPT ![p] = fresh] ELSE a
                           IN  IF Len(grown) > MaxKnown THEN Tail(grown) ELSE grown
  BY DEF Fg!Attempted, times
<1>6. k \in Seq(FingerState) /\ OneEach(k) /\ Len(k) <= MaxKnown /\ \A i \in DOMAIN k : k[i].times # <<>>
  BY DEF Fingerprints
<1> HIDE DEF fresh, p
<1>7. CASE Fg!Times(k, c) # <<>>
  <2>1. Attempts(k, c, [k EXCEPT ![p] = fresh])
    BY <1>1, <1>3, <1>4, <1>7, AttemptInPlace
  <2>2. Len([k EXCEPT ![p] = fresh]) = Len(k) /\ Len(k) \in Nat
    BY <1>6
  <2>3. Fg!Attempted(k, c) = [k EXCEPT ![p] = fresh]
    BY <1>5, <1>6, <1>7, <2>2 DEF FraudAssumption
  <2>4. QED
    BY <2>1, <2>3
<1>8. CASE ~(Fg!Times(k, c) # <<>>)
  <2>1. Fg!Attempted(k, c) = IF Len(a) > MaxKnown THEN Tail(a) ELSE a
    BY <1>5, <1>8
  <2>2. /\ s \in Seq(FingerState) /\ Len(s) <= Len(k) /\ OneEach(s)
        /\ \A i \in DOMAIN s : s[i].charge # c /\ s[i].times # <<>>
        /\ \A i \in DOMAIN k : k[i].charge # c => \E e \in DOMAIN s : s[e] = k[i]
    <3>1. CASE Fg!Places(k, c) = {}
      <4>1. s = k /\ \A i \in DOMAIN k : k[i].charge # c
        BY <3>1 DEF Fg!Places
      <4>2. Len(k) <= Len(k)
        BY <1>6
      <4>3. QED
        BY <1>6, <4>1, <4>2
    <3>2. CASE Fg!Places(k, c) # {}
      <4>1. /\ s \in Seq(FingerState) /\ Len(s) = Len(k) - 1
            /\ \A i \in DOMAIN s : s[i] = IF i < p THEN k[i] ELSE k[i + 1]
        BY <1>4, <3>2, Removed
      <4> HIDE DEF s
      <4>2. Len(k) \in Nat /\ DOMAIN k = 1..Len(k) /\ DOMAIN s = 1..(Len(k) - 1) /\ p \in 1..Len(k)
        BY <1>4, <1>6, <3>2, <4>1
      <4>3. \A i \in DOMAIN s : LET j == IF i < p THEN i ELSE i + 1 IN j \in DOMAIN k /\ j # p /\ s[i] = k[j]
        BY <4>1, <4>2
      <4>4. \A i \in DOMAIN s : s[i].charge # c /\ s[i].times # <<>>
        BY <1>4, <1>6, <3>2, <4>3
      <4>5. OneEach(s)
        <5> SUFFICES ASSUME NEW i \in DOMAIN s, NEW j \in DOMAIN s, s[i].charge = s[j].charge PROVE i = j
          BY DEF OneEach
        <5> DEFINE x == IF i < p THEN i ELSE i + 1
                   y == IF j < p THEN j ELSE j + 1
        <5>1. x \in DOMAIN k /\ y \in DOMAIN k /\ s[i] = k[x] /\ s[j] = k[y]
          BY <4>3
        <5>2. x = y
          BY <1>6, <5>1 DEF OneEach
        <5>3. QED
          BY <4>2, <5>2
      <4>6. ASSUME NEW i \in DOMAIN k, k[i].charge # c PROVE \E e \in DOMAIN s : s[e] = k[i]
        <5>1. i # p
          BY <1>4, <3>2, <4>6
        <5>2. CASE i < p
          <6>1. i \in DOMAIN s
            BY <4>2, <5>2
          <6>2. QED
            BY <4>1, <5>2, <6>1
        <5>3. CASE ~(i < p)
          <6>1. i - 1 \in DOMAIN s /\ ~(i - 1 < p) /\ (i - 1) + 1 = i
            BY <4>2, <5>1, <5>3
          <6>2. s[i - 1] = k[i]
            BY <4>1, <6>1
          <6>3. QED
            BY <6>1, <6>2
        <5>4. QED
          BY <5>2, <5>3
      <4>7. QED
        BY <4>1, <4>2, <4>4, <4>5, <4>6
    <3>3. QED
      BY <3>1, <3>2
  <2> HIDE DEF s
  <2>3. QED
    BY <1>3, <2>1, <2>2, AttemptAdded
<1>9. QED
  BY <1>7, <1>8

\* What passed has a charge and a time.
LEMMA PassedOne ==
  ASSUME passed \in Seq(PassedState), NEW i \in DOMAIN passed
  PROVE  passed[i].charge \in Charges /\ passed[i].at \in Nat
<1>1. passed[i] \in PassedState
  OBVIOUS
<1>2. QED
  BY <1>1 DEF PassedState

\* A replay is critical, and what is critical is blocked.
LEMMA CriticalScores ==
  ASSUME FraudAssumption, NEW signals, NEW trust, "replay_detected" \in signals
  PROVE  Fg!Scores(signals, trust, BlockAt)
<1>1. BlockAt <= 100
  BY DEF FraudAssumption
<1>2. signals \cap Fg!Critical # {}
  BY DEF Fg!Critical
<1>3. QED
  BY <1>1, <1>2 DEF Fg!Scores

\* recordCharge() keeps a guard's state.
LEMMA RecordedForm ==
  ASSUME now \in Nat, NEW g \in GuardState, NEW c \in Charges, NEW country \in Countries \cup {Fg!Nowhere}
  PROVE  Fg!Recorded(g, c, country) \in GuardState
<1> DEFINE newRing == Append(g.ring, [at |-> now, amount |-> c])
           newSeen == [d \in Countries |-> g.seen[d] + (IF d = country THEN 1 ELSE 0)]
           last == IF country = Fg!Nowhere THEN g.last ELSE country
           moved == country # Fg!Nowhere /\ g.last \notin {Fg!Nowhere, country}
           changes == IF moved THEN Append(g.changes, now) ELSE g.changes
<1>1. /\ g.ring \in Seq([at : Nat, amount : Charges]) /\ g.seen \in [Countries -> Nat]
      /\ g.last \in Countries \cup {Fg!Nowhere} /\ g.changes \in Seq(Nat)
  BY DEF GuardState
<1>2. newRing \in Seq([at : Nat, amount : Charges])
  BY <1>1
<1>3. newSeen \in [Countries -> Nat]
  BY <1>1
<1>4. last \in Countries \cup {Fg!Nowhere}
  BY <1>1
<1>5. changes \in Seq(Nat)
  BY <1>1
<1>6. Fg!Recorded(g, c, country) = [g EXCEPT !.ring = newRing, !.seen = newSeen, !.last = last, !.changes = changes]
  BY DEF Fg!Recorded
<1> HIDE DEF newRing, newSeen, last, changes
<1>7. QED
  BY <1>2, <1>3, <1>4, <1>5, <1>6 DEF GuardState

\* The smallest charge is one.
LEMMA SmallestCharge == ASSUME FraudAssumption PROVE Fg!Min(Charges) \in Charges
<1>1. \E n \in Charges : \A m \in Charges : n <= m
  BY SmallestNumber DEF FraudAssumption
<1>2. QED
  BY <1>1 DEF Fg!Min

\* Nothing is remembered by an empty detector that was told so.
LEMMA FraudInit == ASSUME FraudAssumption, Fg!Init PROVE FraudInv
<1>1. guard \in GuardState /\ saved \in GuardState
  BY DEF Fg!Init, Fg!None, GuardState
<1>2. FraudTyped
  BY <1>1 DEF Fg!Init, FraudTyped
<1>3. Fingerprints(known)
  BY DEF Fg!Init, Fingerprints, OneEach, FraudAssumption
<1>4. Remembered /\ Fg!ReplayRefused
  BY DEF Fg!Init, Remembered, Fg!ReplayRefused
<1>5. QED
  BY <1>2, <1>3, <1>4 DEF FraudInv

\* A detector that is emptied and told so promises nothing of what passed before.
LEMMA DetectorEmptied ==
  ASSUME FraudAssumption, FraudInv, now' = now, passed' = passed, known' = <<>>, lost' = Fg!Forgotten,
         guard' \in GuardState, saved' \in GuardState
  PROVE  FraudInv'
<1>1. /\ now \in Nat /\ lost \in [Charges -> Nat] /\ passed \in Seq(PassedState)
      /\ \A i \in DOMAIN passed : passed[i].at <= now
  BY DEF FraudInv, FraudTyped
<1>2. Len(passed) \in Nat /\ DOMAIN passed = 1..Len(passed)
  BY <1>1
<1>3. \A i \in DOMAIN passed : passed[i].charge \in Charges /\ lost'[passed[i].charge] = Len(passed)
  BY <1>1, PassedOne DEF Fg!Forgotten
<1>4. \A i \in DOMAIN passed : ~(lost'[passed[i].charge] < i)
  BY <1>2, <1>3
<1>5. FraudTyped'
  <2>1. lost' \in [Charges -> Nat]
    BY <1>2 DEF Fg!Forgotten
  <2>2. QED
    BY <1>1, <2>1 DEF FraudTyped
<1>6. Fingerprints(known)'
  BY DEF Fingerprints, OneEach, FraudAssumption, FraudInv
<1>7. Remembered'
  BY <1>4 DEF Remembered
<1>8. Fg!ReplayRefused'
  BY <1>4 DEF Fg!ReplayRefused
<1>9. QED
  BY <1>5, <1>6, <1>7, <1>8 DEF FraudInv

\* Nothing of the detector changes.
LEMMA DetectorStays ==
  ASSUME FraudAssumption, FraudInv, UNCHANGED <<known, lost, passed>>, now' \in Nat, now' >= now,
         guard' \in GuardState, saved' \in GuardState
  PROVE  FraudInv'
<1>1. /\ now \in Nat /\ lost \in [Charges -> Nat] /\ passed \in Seq(PassedState)
      /\ \A i \in DOMAIN passed : passed[i].at <= now
  BY DEF FraudInv, FraudTyped
<1>2. \A i \in DOMAIN passed : passed[i].at \in Nat
  BY <1>1, PassedOne
<1>3. FraudTyped'
  BY <1>1, <1>2 DEF FraudTyped
<1>4. Fingerprints(known)'
  BY DEF FraudInv, Fingerprints, OneEach
<1>5. Remembered'
  <2> SUFFICES ASSUME NEW i \in DOMAIN passed
               PROVE  \/ ~(lost[passed[i].charge] < i)
                      \/ now' - passed[i].at >= Minute
                      \/ SeenSince(known, passed[i].charge, passed[i].at)
    BY DEF Remembered, SeenSince, Youngest
  <2>1. CASE now - passed[i].at >= Minute
    <3>1. QED
      BY <1>1, <1>2, <2>1 DEF FraudAssumption
  <2>2. CASE ~(now - passed[i].at >= Minute)
    BY <2>2 DEF FraudInv, Remembered
  <2>3. QED
    BY <2>1, <2>2
<1>6. Fg!ReplayRefused'
  BY DEF FraudInv, Fg!ReplayRefused
<1>7. QED
  BY <1>3, <1>4, <1>5, <1>6 DEF FraudInv

\* What the detector has not dropped by an attempt at c, it has still.
LEMMA ChargeKeeps ==
  ASSUME FraudAssumption, FraudInv, NEW k, NEW t, NEW c \in Charges, Fingerprints(k), Attempts(k, c, t),
         NEW i \in DOMAIN passed, passed[i].charge \notin Fg!Kept(k) \ Fg!Kept(t),
         SeenSince(k, passed[i].charge, passed[i].at)
  PROVE  SeenSince(t, passed[i].charge, passed[i].at)
<1>1. /\ now \in Nat /\ passed \in Seq(PassedState) /\ passed[i].at <= now
  BY DEF FraudInv, FraudTyped
<1>2. PICK j \in DOMAIN k : k[j].charge = passed[i].charge /\ Youngest(k, j) >= passed[i].at
  BY DEF SeenSince
<1>3. CASE passed[i].charge = c
  <2>1. PICK e \in DOMAIN t : t[e].charge = c /\ Youngest(t, e) = now
    BY DEF Attempts
  <2>2. passed[i].at \in Nat
    BY <1>1, PassedOne
  <2>3. QED
    BY <1>1, <1>3, <2>1, <2>2 DEF SeenSince
<1>4. CASE passed[i].charge # c
  <2>1. passed[i].charge \in Fg!Kept(k)
    BY <1>2 DEF Fg!Kept
  <2>2. k[j].charge \in Fg!Kept(t)
    BY <1>2, <2>1
  <2>3. PICK e \in DOMAIN t : t[e] = k[j]
    BY <1>2, <1>4, <2>2 DEF Attempts
  <2>4. QED
    BY <1>2, <2>3 DEF SeenSince, Youngest
<1>5. QED
  BY <1>3, <1>4

\* charge()
LEMMA ChargeStep ==
  ASSUME FraudAssumption, FraudInv, NEW c \in Charges, NEW country \in Countries \cup {Fg!Nowhere},
         NEW oddities, NEW outside, Fg!Charge(c, country, oddities, outside)
  PROVE  FraudInv'
<1> DEFINE g == IF foreign THEN saved ELSE guard
           k == IF foreign THEN <<>> ELSE known
           signals == Fg!Velocity(g, c) \cup Fg!Geo(g, country, oddities) \cup outside
                      \cup (IF Fg!Replayed(k, c) THEN {"replay_detected"} ELSE {})
                      \cup (IF Fg!Escalating(g, c) THEN {"escalation_pattern"} ELSE {})
           blocked == g.blocked \/ Fg!Scores(signals, Fg!Trust(g), BlockAt)
           flagged == [g EXCEPT !.flagged = @ \/ Fg!Scores(signals, Fg!Trust(g), FlagAt)]
           new == [charge |-> c, at |-> now, country |-> country]
           n == Len(passed)
<1>1. /\ now \in Nat /\ guard \in GuardState /\ saved \in GuardState
      /\ lost \in [Charges -> Nat] /\ passed \in Seq(PassedState)
      /\ \A i \in DOMAIN passed : passed[i].at <= now
  BY DEF FraudInv, FraudTyped
<1>2. g \in GuardState /\ n \in Nat /\ DOMAIN passed = 1..n
  BY <1>1
<1>3. Fingerprints(k)
  BY DEF FraudInv, Fingerprints, OneEach, FraudAssumption
<1>4. /\ known' = Fg!Attempted(k, c) /\ now' = now
      /\ lost' = [d \in Charges |-> IF foreign \/ d \in Fg!Kept(k) \ Fg!Kept(known') THEN n ELSE lost[d]]
  BY DEF Fg!Charge
<1>5. \/ blocked /\ guard' = g /\ saved' = g /\ passed' = passed
      \/ ~blocked /\ guard' = Fg!Recorded(flagged, c, country) /\ saved' = saved /\ passed' = Append(passed, new)
  BY DEF Fg!Charge
<1>6. Attempts(k, c, known')
  BY <1>1, <1>3, <1>4, AttemptWritten
<1>7. Fg!Replayed(k, c) => blocked
  <2>1. Fg!Replayed(k, c) => "replay_detected" \in signals
    OBVIOUS
  <2> HIDE DEF signals
  <2>2. QED
    BY <2>1, CriticalScores
<1>8. flagged \in GuardState
  <2> DEFINE b == g.flagged \/ Fg!Scores(signals, Fg!Trust(g), FlagAt)
  <2>1. b \in BOOLEAN
    BY <1>2 DEF GuardState
  <2>2. flagged = [g EXCEPT !.flagged = b]
    OBVIOUS
  <2> HIDE DEF b, g
  <2>3. QED
    BY <1>2, <2>1, <2>2 DEF GuardState
<1> HIDE DEF g, signals, blocked, flagged
<1>9. new \in PassedState /\ new.charge = c /\ new.at = now
  BY <1>1 DEF PassedState
<1> HIDE DEF new
<1>10. guard' \in GuardState /\ saved' \in GuardState
  BY <1>1, <1>2, <1>5, <1>8, RecordedForm
<1>11. lost' \in [Charges -> Nat]
  BY <1>1, <1>2, <1>4
<1>12. ASSUME NEW i \in DOMAIN passed, lost'[passed[i].charge] < i
       PROVE  /\ lost[passed[i].charge] < i /\ ~foreign /\ k = known
              /\ passed[i].charge \notin Fg!Kept(k) \ Fg!Kept(known')
  <2>1. passed[i].charge \in Charges /\ i \in 1..n
    BY <1>1, <1>2, PassedOne
  <2>2. lost'[passed[i].charge] # n
    BY <1>2, <1>12, <2>1
  <2>3. QED
    BY <1>4, <1>12, <2>1, <2>2
<1> HIDE DEF k
<1>13. ASSUME NEW i \in DOMAIN passed, lost'[passed[i].charge] < i
       PROVE  \/ now - passed[i].at >= Minute
              \/ /\ SeenSince(k, passed[i].charge, passed[i].at)
                 /\ SeenSince(known', passed[i].charge, passed[i].at)
  <2>1. \/ now - passed[i].at >= Minute
        \/ SeenSince(known, passed[i].charge, passed[i].at)
    BY <1>12, <1>13 DEF FraudInv, Remembered
  <2>2. QED
    BY <1>3, <1>6, <1>12, <1>13, <2>1, ChargeKeeps
<1>14. /\ passed' \in Seq(PassedState)
       /\ \A i \in DOMAIN passed : i \in DOMAIN passed' /\ passed'[i] = passed[i]
       /\ \A i \in DOMAIN passed' : i \in DOMAIN passed \/ (i = n + 1 /\ passed'[i] = new /\ ~blocked)
  <2>1. CASE passed' = passed
    BY <1>1, <2>1
  <2>2. CASE ~blocked /\ passed' = Append(passed, new)
    <3>1. passed' \in Seq(PassedState) /\ DOMAIN passed' = 1..(n + 1)
      BY <1>1, <1>2, <1>9, <2>2
    <3>2. passed'[n + 1] = new /\ \A i \in 1..n : passed'[i] = passed[i]
      BY <1>1, <1>2, <2>2
    <3>3. QED
      BY <1>2, <2>2, <3>1, <3>2
  <2>3. QED
    BY <1>5, <2>1, <2>2
<1>15. FraudTyped'
  <2>1. \A i \in DOMAIN passed' : passed'[i].at <= now
    BY <1>1, <1>9, <1>14
  <2>2. QED
    BY <1>1, <1>4, <1>10, <1>11, <1>14, <2>1 DEF FraudTyped
<1>16. Fingerprints(known)'
  BY <1>6 DEF Attempts, Fingerprints, OneEach
<1>17. Remembered'
  <2> SUFFICES ASSUME NEW i \in DOMAIN passed'
               PROVE  \/ ~(lost'[passed'[i].charge] < i)
                      \/ now - passed'[i].at >= Minute
                      \/ SeenSince(known', passed'[i].charge, passed'[i].at)
    BY <1>4 DEF Remembered, SeenSince, Youngest
  <2>1. CASE i \in DOMAIN passed
    BY <1>13, <1>14, <2>1
  <2>2. CASE i \notin DOMAIN passed
    <3>1. passed'[i] = new
      BY <1>14, <2>2
    <3>2. PICK e \in DOMAIN known' : known'[e].charge = c /\ Youngest(known', e) = now
      BY <1>6 DEF Attempts
    <3>3. QED
      BY <1>1, <1>9, <3>1, <3>2 DEF SeenSince
  <2>3. QED
    BY <2>1, <2>2
<1>18. Fg!ReplayRefused'
  <2> SUFFICES ASSUME NEW i \in DOMAIN passed', NEW j \in DOMAIN passed', i < j,
                      lost'[passed'[i].charge] < i, passed'[i].charge = passed'[j].charge
               PROVE  passed'[j].at - passed'[i].at >= Minute
    BY DEF Fg!ReplayRefused
  <2>1. CASE j \in DOMAIN passed
    <3>1. i \in DOMAIN passed
      BY <1>2, <1>14, <2>1
    <3>2. passed'[i] = passed[i] /\ passed'[j] = passed[j]
      BY <1>14, <2>1, <3>1
    <3>3. QED
      BY <1>12, <2>1, <3>1, <3>2 DEF FraudInv, Fg!ReplayRefused
  <2>2. CASE j \notin DOMAIN passed
    <3>1. j = n + 1 /\ passed'[j] = new /\ ~blocked
      BY <1>14, <2>2
    <3>2. i \in DOMAIN passed
      BY <1>2, <1>14, <3>1
    <3>3. passed'[i] = passed[i]
      BY <1>14, <3>2
    <3>4. passed[i].charge = c /\ passed[i].at \in Nat
      BY <1>1, <1>9, <3>1, <3>2, <3>3, PassedOne
    <3>5. ~SeenSince(k, c, passed[i].at) \/ ~(now - passed[i].at < Minute)
      BY <1>1, <1>3, <1>7, <3>1, <3>4, IsReplayed
    <3>6. \/ now - passed[i].at >= Minute
          \/ SeenSince(k, c, passed[i].at)
      BY <1>13, <3>2, <3>3, <3>4
    <3>7. Minute \in Nat
      BY DEF FraudAssumption
    <3>8. now - passed[i].at >= Minute
      BY <1>1, <3>4, <3>5, <3>6, <3>7
    <3>9. QED
      BY <1>9, <3>1, <3>3, <3>8
  <2>3. QED
    BY <2>1, <2>2
<1>19. QED
  BY <1>15, <1>16, <1>17, <1>18 DEF FraudInv

\* Each step of the guard keeps it.
LEMMA FraudStep == ASSUME FraudAssumption, FraudInv, [Fg!Next]_(Fg!vars) PROVE FraudInv'
<1>1. now \in Nat /\ guard \in GuardState /\ saved \in GuardState
  BY DEF FraudInv, FraudTyped
<1>2. now >= now
  BY <1>1
<1>3. CASE UNCHANGED Fg!vars
  BY <1>1, <1>2, <1>3, DetectorStays DEF Fg!vars
<1>4. ASSUME NEW c \in Charges, NEW country \in Countries \cup {Fg!Nowhere},
             NEW oddities \in SUBSET Oddities, NEW outside \in SUBSET Outside,
             Fg!Charge(c, country, oddities, outside)
      PROVE  FraudInv'
  BY <1>4, ChargeStep
<1>5. CASE Fg!Save
  <2>1. guard' \in GuardState /\ saved' \in GuardState
    BY <1>1, <1>5 DEF Fg!Save
  <2>2. CASE foreign
    BY <1>5, <2>1, <2>2, DetectorEmptied DEF Fg!Save
  <2>3. CASE ~foreign
    BY <1>1, <1>2, <1>5, <2>1, <2>3, DetectorStays DEF Fg!Save
  <2>4. QED
    BY <2>2, <2>3
<1>6. CASE Fg!Restart
  BY <1>1, <1>6, DetectorEmptied DEF Fg!Restart
<1>7. CASE Fg!Tick
  <2>1. now' \in Nat /\ now' >= now
    BY <1>1, <1>7 DEF Fg!Tick
  <2>2. QED
    BY <1>1, <1>7, <2>1, DetectorStays DEF Fg!Tick
<1>8. ASSUME NEW b \in BOOLEAN, Fg!BlockAgent(b) PROVE FraudInv'
  <2>1. guard' \in GuardState
    BY <1>1, <1>8 DEF Fg!BlockAgent, GuardState
  <2>2. QED
    BY <1>1, <1>2, <1>8, <2>1, DetectorStays DEF Fg!BlockAgent
<1>9. CASE Fg!OtherCommits(Fg!Min(Charges), Fg!Nowhere)
  <2>1. saved' \in GuardState
    BY <1>1, <1>9, SmallestCharge, RecordedForm DEF Fg!OtherCommits
  <2>2. QED
    BY <1>1, <1>2, <1>9, <2>1, DetectorStays DEF Fg!OtherCommits
<1>10. QED
  BY <1>3, <1>4, <1>5, <1>6, <1>7, <1>8, <1>9 DEF Fg!Next

-----------------------------------------------------------------------------
\* The kinds of signal that say where a request comes from.
GeoKinds == Fg!AllOddities \cup {"geo_country_switch", "geo_rapid_hop"}

\* The library's greatest number and sum are Sums'.
LEMMA FraudMax == ASSUME NEW S PROVE Fg!Max(S) = Max(S)
BY DEF Fg!Max, Max

\* The sum, too.
LEMMA FraudSum == ASSUME NEW f, NEW S PROVE Fg!SumFunctionOnSet(f, S) = SumFunctionOnSet(f, S)
BY DEF Fg!SumFunctionOnSet, Fg!FoldFunctionOnSet, Fg!MapThenFoldSet, SumFunctionOnSet, FoldFunctionOnSet, MapThenFoldSet

\* Trust is a number.
LEMMA TrustIsNumber == ASSUME FraudAssumption, NEW g \in GuardState PROVE Fg!Trust(g) \in Nat
<1> DEFINE total == SumFunctionOnSet(g.seen, Countries)
           counts == {g.seen[c] : c \in Countries}
           least == {10, total}
<1>1. IsFiniteSet(Countries) /\ Countries # {} /\ g.seen \in [Countries -> Nat]
  BY DEF FraudAssumption, GuardState
<1>2. \A c \in Countries : g.seen[c] \in Nat
  BY <1>1
<1>3. total \in Nat
  BY <1>1, <1>2, SumNat
<1>4. \A c \in Countries : g.seen[c] <= total
  BY <1>1, <1>2, SumNat
<1>5. Max(counts) \in Nat
  <2>1. counts \in SUBSET Nat /\ counts # {} /\ \A x \in counts : x <= total
    BY <1>1, <1>2, <1>4
  <2> HIDE DEF counts
  <2>2. QED
    BY <1>3, <2>1, GreatestOf
<1>6. Max(least) \in Nat /\ Max(least) >= 10
  <2>1. least \in SUBSET Nat /\ least # {} /\ 10 \in least /\ \A x \in least : x <= total + 10
    BY <1>3
  <2>2. total + 10 \in Nat
    BY <1>3
  <2> HIDE DEF least
  <2>3. QED
    BY <2>1, <2>2, GreatestOf
<1>7. Fg!Trust(g) = IF total < 3 THEN 0 ELSE (100 * Max(counts)) \div Max(least)
  BY FraudMax, FraudSum DEF Fg!Trust
<1> DEFINE most == Max(counts)
           d == Max(least)
<1>8. Fg!Trust(g) = IF total < 3 THEN 0 ELSE (100 * most) \div d
  BY <1>7
<1>9. most \in Nat /\ d \in Nat /\ d >= 10
  BY <1>5, <1>6
<1> HIDE DEF most, d, total
<1>10. (100 * most) \div d \in Nat
  BY <1>9
<1>11. QED
  BY <1>8, <1>10

\* Where a request comes from weighs little.
LEMMA GeoWeighsLittle ==
  ASSUME NEW trust \in Nat, NEW s \in GeoKinds
  PROVE  Fg!Weight(s, trust) \in Int /\ Fg!Weight(s, trust) <= 35 /\ s \notin Fg!Critical
<1>1. s \in {"geo_currency_mismatch", "geo_timezone_anomaly", "geo_high_risk_corridor", "ip_hopping",
             "geo_country_switch", "geo_rapid_hop"}
  BY DEF GeoKinds, Fg!AllOddities
<1>2. CASE s = "ip_hopping"
  BY <1>2 DEF Fg!Weight, Fg!Dampened, Fg!Base, Fg!Critical
<1>3. CASE s # "ip_hopping"
  <2> DEFINE b == Fg!Base[s]
  <2>1. b \in 10..35
    BY <1>1, <1>3 DEF Fg!Base
  <2>2. Fg!Weight(s, trust) = (b * (200 - trust) + 100) \div 200
    BY <1>1, <1>3 DEF Fg!Weight, Fg!Dampened
  <2> HIDE DEF b
  <2>3. b * (200 - trust) \in Int /\ b * (200 - trust) <= 7000
    BY <2>1
  <2> DEFINE x == b * (200 - trust)
  <2>4. x \in Int /\ x <= 7000
    BY <2>3
  <2> HIDE DEF x
  <2>5. (x + 100) \div 200 \in Int /\ (x + 100) \div 200 <= 35
    BY <2>4
  <2>6. s \notin Fg!Critical
    BY <1>1 DEF Fg!Critical
  <2>7. QED
    BY <2>2, <2>5, <2>6 DEF x
<1>4. QED
  BY <1>2, <1>3

\* Such signals never reach the threshold.
LEMMA LittleNeverBlocks ==
  ASSUME FraudAssumption, NEW trust \in Nat, NEW signals \in SUBSET GeoKinds
  PROVE  ~Fg!Scores(signals, trust, BlockAt)
<1> DEFINE f == [s \in signals |-> Fg!Weight(s, trust)]
           sum == SumFunctionOnSet(f, signals)
           n == Cardinality(signals)
           least == {100, 70 * n}
<1>1. IsFiniteSet(signals)
  <2>1. IsFiniteSet(GeoKinds)
    <3>1. IsFiniteSet({"geo_currency_mismatch"})
      BY FS_Singleton
    <3>2. IsFiniteSet({"geo_currency_mismatch", "geo_timezone_anomaly"})
      BY <3>1, FS_AddElement
    <3>3. IsFiniteSet({"geo_currency_mismatch", "geo_timezone_anomaly", "geo_high_risk_corridor"})
      BY <3>2, FS_AddElement
    <3>4. IsFiniteSet(Fg!AllOddities)
      BY <3>3, FS_AddElement DEF Fg!AllOddities
    <3>5. IsFiniteSet({"geo_country_switch"})
      BY FS_Singleton
    <3>6. IsFiniteSet({"geo_country_switch", "geo_rapid_hop"})
      BY <3>5, FS_AddElement
    <3>7. QED
      BY <3>4, <3>6, FS_Union DEF GeoKinds
  <2>2. QED
    BY <2>1, FS_Subset
<1>2. \A s \in signals : f[s] \in Int /\ f[s] <= 35
  BY GeoWeighsLittle
<1>3. n \in Nat
  BY <1>1, FS_CardinalityType
<1>4. sum \in Int /\ sum <= 35 * n
  <2> HIDE DEF f
  <2>1. sum <= 35 * n
    BY <1>1, <1>2, SumAtMost
  <2>2. sum \in Int
    BY <1>1, <1>2, SumInt
  <2>3. QED
    BY <2>1, <2>2
<1> HIDE DEF sum, n
<1>5. Max(least) \in Nat /\ Max(least) >= 100 /\ Max(least) >= 70 * n
  <2>1. /\ least \in SUBSET Nat /\ least # {} /\ 100 \in least /\ 70 * n \in least
        /\ \A x \in least : x <= 100 + 70 * n
    BY <1>3
  <2>2. 100 + 70 * n \in Nat
    BY <1>3
  <2> HIDE DEF least
  <2>3. QED
    BY <2>1, <2>2, GreatestOf
<1> DEFINE d == Max(least)
<1>6. d \in Nat /\ d >= 100 /\ d >= 70 * n
  BY <1>5
<1> HIDE DEF d
<1>7. BlockAt \in 51..100
  BY DEF FraudAssumption
<1>8. ~(sum * 100 >= BlockAt * d)
  <2>1. BlockAt * d >= 51 * d
    BY <1>6, <1>7
  <2>2. BlockAt * d \in Int /\ sum * 100 <= 3500 * n
    BY <1>3, <1>4, <1>6, <1>7
  <2> DEFINE y == BlockAt * d
  <2>3. y \in Int /\ y >= 51 * d
    BY <2>1, <2>2
  <2> HIDE DEF y
  <2>4. ~(sum * 100 >= y)
    BY <1>3, <1>4, <1>6, <2>2, <2>3
  <2>5. QED
    BY <2>4 DEF y
<1>9. \A s \in signals : ~(Fg!Weight(s, trust) * 85 >= BlockAt * 100)
  BY <1>7, GeoWeighsLittle
<1>10. signals \cap Fg!Critical = {}
  BY GeoWeighsLittle
<1>11. Fg!Scores(signals, trust, BlockAt) =>
         \/ signals \cap Fg!Critical # {}
         \/ sum * 100 >= BlockAt * d
         \/ \E s \in signals : Fg!Weight(s, trust) * 85 >= BlockAt * 100
  BY FraudMax, FraudSum, FraudCardinality DEF Fg!Scores, sum, n, d
<1>12. QED
  BY <1>8, <1>9, <1>10, <1>11

\* Signals of an unsanctioned country are such signals.
LEMMA GeoBlocksNobody == ASSUME FraudAssumption, guard \in GuardState PROVE Fg!GeoNeverBlocks
<1> SUFFICES ASSUME NEW country \in Countries \ Sanctioned, NEW oddities \in SUBSET Fg!AllOddities
             PROVE  ~Fg!Scores(Fg!Geo(guard, country, oddities), Fg!Trust(guard), BlockAt)
  BY DEF Fg!GeoNeverBlocks
<1>1. Fg!Geo(guard, country, oddities) \in SUBSET GeoKinds
  BY DEF Fg!Geo, GeoKinds
<1>2. QED
  BY <1>1, TrustIsNumber, LittleNeverBlocks

\* The charge that repeats another within a minute is not let through, unless the
\* detector has dropped the other's fingerprint; and where a charge comes from never
\* blocks it, unless the country is sanctioned (fraud.ts).
THEOREM RepeatsAreRefused ==
  ASSUME FraudAssumption PROVE Fg!Spec => [](Fg!ReplayRefused /\ Fg!GeoNeverBlocks)
<1>1. Fg!Init => FraudInv
  BY FraudInit
<1>2. FraudInv /\ [Fg!Next]_(Fg!vars) => FraudInv'
  BY FraudStep
<1>3. FraudInv => Fg!ReplayRefused /\ Fg!GeoNeverBlocks
  BY GeoBlocksNobody DEF FraudInv, FraudTyped
<1>4. QED
  BY <1>1, <1>2, <1>3, PTL DEF Fg!Spec

-----------------------------------------------------------------------------
(* The adaptive engine (Adaptive).                                         *)
(* Every record of a parameter is within its bounds, so that wherever the  *)
(* records are cut off, the newest one of a parameter that is left, or its *)
(* default, is too.                                                        *)

RecordState == [parameter : Ad!Parameters \cup {"note"}, newValue : Nat]

\* The records of a parameter, and what it is by them.
RecordsOf(s, p) == {i \in DOMAIN s : s[i].parameter = p}
Value(s, p) == IF RecordsOf(s, p) = {} THEN Ad!Default[p] ELSE s[Ad!Max(RecordsOf(s, p))].newValue

Within(n, p) == n \in Ad!SecureBounds[p].min .. Ad!SecureBounds[p].max
Small(v, n)  == 10 * (n - v) <= 2 * v + 5 /\ 10 * (v - n) <= 2 * v + 5
AllWithin(s) == \A i \in DOMAIN s, p \in Ad!Parameters : s[i].parameter = p => Within(s[i].newValue, p)

AdaptiveInv == adaptations \in Seq(RecordState) /\ AllWithin(adaptations)

\* The bounds are numbers, and the defaults are within.
LEMMA DefaultWithin ==
  ASSUME NEW p \in Ad!Parameters
  PROVE  /\ Ad!SecureBounds[p].min \in Nat \ {0} /\ Ad!SecureBounds[p].max \in Nat
         /\ Within(Ad!Default[p], p) /\ p # "note"
<1>1. CASE p = "feeRate"
  BY <1>1 DEF Ad!SecureBounds, Ad!Default, Within
<1>2. CASE p = "blockThreshold"
  BY <1>2 DEF Ad!SecureBounds, Ad!Default, Within
<1>3. QED
  BY <1>1, <1>2 DEF Ad!Parameters

\* Numbers up to n that are not none have a greatest.
LEMMA GreatestIn ==
  ASSUME NEW n \in Nat, NEW S \in SUBSET (1..n), S # {}
  PROVE  Ad!Max(S) \in S /\ \A y \in S : y <= Ad!Max(S)
<1> DEFINE T == {n - x : x \in S}
<1>1. T \in SUBSET Nat /\ T # {}
  <2>1. \A x \in S : n - x \in Nat
    OBVIOUS
  <2>2. QED
    BY <2>1
<1>2. PICK m \in T : \A k \in T : m <= k
  BY <1>1, SmallestNumber
<1>3. PICK x \in S : m = n - x
  BY <1>2
<1>4. \A y \in S : x >= y
  <2> SUFFICES ASSUME NEW y \in S PROVE x >= y
    OBVIOUS
  <2>1. n - y \in T
    OBVIOUS
  <2>2. m <= n - y
    BY <1>2, <2>1
  <2>3. x \in 1..n /\ y \in 1..n
    OBVIOUS
  <2>4. QED
    BY <1>3, <2>2, <2>3
<1>5. QED
  BY <1>3, <1>4 DEF Ad!Max

\* What a parameter is, is within its bounds.
LEMMA ValueWithin ==
  ASSUME NEW s \in Seq(RecordState), AllWithin(s), NEW p \in Ad!Parameters
  PROVE  Within(Value(s, p), p)
<1>1. CASE RecordsOf(s, p) = {}
  BY <1>1, DefaultWithin DEF Value
<1>2. CASE RecordsOf(s, p) # {}
  <2>1. RecordsOf(s, p) \in SUBSET (1..Len(s)) /\ Len(s) \in Nat
    BY DEF RecordsOf
  <2>2. Ad!Max(RecordsOf(s, p)) \in RecordsOf(s, p)
    BY <1>2, <2>1, GreatestIn
  <2>3. QED
    BY <1>2, <2>2 DEF Value, RecordsOf, AllWithin
<1>3. QED
  BY <1>1, <1>2

\* A record changes its parameter and no other.
LEMMA ValueAfter ==
  ASSUME NEW s \in Seq(RecordState), NEW r \in RecordState, NEW p \in Ad!Parameters
  PROVE  Value(Append(s, r), p) = IF r.parameter = p THEN r.newValue ELSE Value(s, p)
<1> DEFINE t == Append(s, r)
           n == Len(s) + 1
<1>1. /\ DOMAIN t = 1..n /\ t[n] = r /\ Len(s) \in Nat /\ DOMAIN s = 1..Len(s)
      /\ \A i \in DOMAIN s : t[i] = s[i]
  OBVIOUS
<1> HIDE DEF t
<1>2. CASE r.parameter = p
  <2>1. n \in RecordsOf(t, p) /\ RecordsOf(t, p) \in SUBSET (1..n) /\ n \in Nat
    BY <1>1, <1>2 DEF RecordsOf
  <2>2. Ad!Max(RecordsOf(t, p)) = n
    <3>1. Ad!Max(RecordsOf(t, p)) \in 1..n /\ n <= Ad!Max(RecordsOf(t, p))
      BY <2>1, GreatestIn
    <3>2. QED
      BY <2>1, <3>1
  <2>3. QED
    BY <1>1, <1>2, <2>1, <2>2 DEF Value, t
<1>3. CASE r.parameter # p
  <2>1. RecordsOf(t, p) = RecordsOf(s, p)
    BY <1>1, <1>3 DEF RecordsOf
  <2>2. CASE RecordsOf(s, p) = {}
    BY <1>3, <2>1, <2>2 DEF Value, t
  <2>3. CASE RecordsOf(s, p) # {}
    <3>1. RecordsOf(s, p) \in SUBSET (1..Len(s))
      BY <1>1 DEF RecordsOf
    <3>2. Ad!Max(RecordsOf(s, p)) \in DOMAIN s
      BY <1>1, <2>3, <3>1, GreatestIn
    <3>3. QED
      BY <1>1, <1>3, <2>1, <2>3, <3>2 DEF Value, t
  <2>4. QED
    BY <2>2, <2>3
<1>4. QED
  BY <1>2, <1>3

\* The limit of a cycle keeps a value within the bounds it was in, a fifth away at most.
LEMMA LimitSmall ==
  ASSUME NEW lo \in Nat \ {0}, NEW hi \in Nat, NEW v \in lo..hi, NEW target \in Int
  PROVE  LET n == Ad!LimitDelta(v, Ad!Clamp(target, lo, hi)) IN n \in lo..hi /\ Small(v, n)
<1> DEFINE c == Ad!Clamp(target, lo, hi)
<1>1. c \in lo..hi
  BY DEF Ad!Clamp
<1> HIDE DEF c
<1>2. CASE 5 * (c - v) > v
  <2>1. Ad!LimitDelta(v, c) = (2 * (6 * v) + 5) \div 10
    BY <1>2 DEF Ad!LimitDelta, Ad!Rounded
  <2>2. QED
    BY <1>1, <1>2, <2>1 DEF Small, c
<1>3. CASE ~(5 * (c - v) > v) /\ 5 * (v - c) > v
  <2>1. Ad!LimitDelta(v, c) = (2 * (4 * v) + 5) \div 10
    BY <1>3 DEF Ad!LimitDelta, Ad!Rounded
  <2>2. QED
    BY <1>1, <1>3, <2>1 DEF Small, c
<1>4. CASE ~(5 * (c - v) > v) /\ ~(5 * (v - c) > v)
  <2>1. Ad!LimitDelta(v, c) = c
    BY <1>4 DEF Ad!LimitDelta
  <2>2. QED
    BY <1>1, <1>4, <2>1 DEF Small, c
<1>5. QED
  BY <1>2, <1>3, <1>4

\* What a cycle aims at is a number.
LEMMA TargetInt ==
  ASSUME NEW p \in Ad!Parameters, Ad!Adapted(p) \in Nat
  PROVE  Ad!Target(p) \in Int
<1> DEFINE v == Ad!Adapted(p)
<1>1. /\ Ad!Rounded(3 * v, 2) \in Int /\ Ad!Rounded(98 * v, 100) \in Int
      /\ Ad!Rounded(102 * v, 100) \in Int /\ Ad!Rounded(95 * v, 100) \in Int
  BY DEF Ad!Rounded
<1>2. \/ Ad!Target(p) = Ad!Rounded(3 * v, 2) \/ Ad!Target(p) = Ad!Rounded(98 * v, 100)
      \/ Ad!Target(p) = Ad!Rounded(102 * v, 100) \/ Ad!Target(p) = Ad!Rounded(95 * v, 100) \/ Ad!Target(p) = v
  BY DEF Ad!Target
<1>3. QED
  BY <1>1, <1>2

\* A proposal is a record within the bounds, a small step from where the parameter is.
LEMMA ProposalSmall ==
  ASSUME AdaptiveInv, NEW p \in Ad!Parameters
  PROVE  \/ Ad!Proposal(p) = <<>>
         \/ \E r \in RecordState : /\ Ad!Proposal(p) = <<r>> /\ r.parameter = p
                                   /\ Within(r.newValue, p) /\ Small(Value(adaptations, p), r.newValue)
<1> DEFINE v == Ad!Adapted(p)
           lo == Ad!SecureBounds[p].min
           hi == Ad!SecureBounds[p].max
           n == Ad!LimitDelta(v, Ad!Clamp(Ad!Target(p), lo, hi))
           r == [parameter |-> p, newValue |-> n]
<1>1. v = Value(adaptations, p)
  BY DEF Ad!Adapted, Value, RecordsOf
<1>2. v \in lo..hi /\ lo \in Nat \ {0} /\ hi \in Nat
  BY <1>1, ValueWithin, DefaultWithin DEF AdaptiveInv, Within
<1>3. Ad!Target(p) \in Int
  BY <1>2, TargetInt
<1>4. n \in lo..hi /\ Small(v, n)
  BY <1>2, <1>3, LimitSmall
<1>5. Ad!Proposal(p) = <<>> \/ Ad!Proposal(p) = <<r>>
  BY DEF Ad!Proposal
<1>6. r \in RecordState /\ r.parameter = p /\ r.newValue = n
  BY <1>2, <1>4 DEF RecordState
<1>7. QED
  BY <1>1, <1>4, <1>5, <1>6 DEF Within

\* Records that are added to others,
LEMMA Added ==
  ASSUME NEW s \in Seq(RecordState), AllWithin(s), NEW r \in RecordState,
         \A p \in Ad!Parameters : r.parameter = p => Within(r.newValue, p)
  PROVE  Append(s, r) \in Seq(RecordState) /\ AllWithin(Append(s, r)) /\ Len(Append(s, r)) = Len(s) + 1
BY DEF AllWithin

\* or what is left of them when the oldest are dropped, are within the bounds.
LEMMA NewestWithin ==
  ASSUME NEW s \in Seq(RecordState), AllWithin(s), NEW n \in Nat
  PROVE  LET t == Ad!Newest(s, n)
         IN  t \in Seq(RecordState) /\ AllWithin(t) /\ IF Len(s) <= n THEN t = s ELSE Len(t) = n
<1>1. CASE Len(s) <= n
  BY <1>1 DEF Ad!Newest
<1>2. CASE ~(Len(s) <= n)
  <2> DEFINE from == Len(s) - n + 1
             t == SubSeq(s, from, Len(s))
  <2>1. Ad!Newest(s, n) = t
    BY <1>2 DEF Ad!Newest
  <2>2. Len(s) \in Nat /\ from \in 1..(Len(s) + 1)
    BY <1>2
  <2> HIDE DEF from
  <2>3. t \in Seq(RecordState) /\ Len(t) = Len(s) - from + 1
    BY <2>2
  <2>4. \A i \in DOMAIN t : t[i] = s[from + i - 1] /\ from + i - 1 \in DOMAIN s
    BY <2>2
  <2> HIDE DEF t
  <2>5. AllWithin(t)
    BY <2>4 DEF AllWithin
  <2>6. QED
    BY <1>2, <2>1, <2>2, <2>3, <2>5 DEF from
<1>3. QED
  BY <1>1, <1>2

\* Steps after which every parameter is a small step from where it was.
LEMMA SmallBy ==
  ASSUME AdaptiveInv, adaptations' \in Seq(RecordState), AllWithin(adaptations'),
         \A p \in Ad!Parameters : Small(Value(adaptations, p), Value(adaptations', p))
  PROVE  AdaptiveInv' /\ Ad!SmallStep
<1>1. AdaptiveInv'
  BY DEF AdaptiveInv, AllWithin, RecordState, Within
<1>2. \A p \in Ad!Parameters : Ad!Adapted(p) = Value(adaptations, p) /\ Ad!Adapted(p)' = Value(adaptations', p)
  BY DEF Ad!Adapted, Value, RecordsOf
<1>3. \A p \in Ad!Parameters : Within(Value(adaptations', p), p)
  BY ValueWithin
<1>4. QED
  BY <1>1, <1>2, <1>3 DEF Ad!SmallStep, Within, Small

\* A parameter that stays where it is makes a small step.
LEMMA NoStepSmall ==
  ASSUME NEW s \in Seq(RecordState), AllWithin(s), NEW p \in Ad!Parameters
  PROVE  Small(Value(s, p), Value(s, p)) /\ Value(s, p) \in Nat
<1>1. Value(s, p) \in Nat
  BY ValueWithin, DefaultWithin DEF Within
<1>2. QED
  BY <1>1 DEF Small

\* Steps that leave the records alone.
LEMMA RecordsStay ==
  ASSUME AdaptiveInv, UNCHANGED adaptations
  PROVE  AdaptiveInv' /\ Ad!SmallStep
BY SmallBy, NoStepSmall DEF AdaptiveInv

\* A note is about no parameter.
LEMMA NoteAdded ==
  ASSUME NEW s \in Seq(RecordState), AllWithin(s), NEW x, x = <<>> \/ x = Ad!Note
  PROVE  /\ s \o x \in Seq(RecordState) /\ AllWithin(s \o x) /\ Len(s \o x) \in Len(s) .. (Len(s) + 1)
         /\ \A p \in Ad!Parameters : Value(s \o x, p) = Value(s, p)
<1> DEFINE r == [parameter |-> "note", newValue |-> 0]
<1>1. CASE x = <<>>
  <2>1. s \o x = s /\ Len(s) \in Nat
    BY <1>1
  <2>2. QED
    BY <2>1
<1>2. CASE x = Ad!Note
  <2>1. s \o x = Append(s, r)
    BY <1>2 DEF Ad!Note
  <2>2. r \in RecordState /\ r.parameter = "note" /\ Len(s) \in Nat
    BY DEF RecordState
  <2>3. \A p \in Ad!Parameters : p # "note"
    BY DEF Ad!Parameters
  <2> HIDE DEF r
  <2>4. QED
    BY <2>1, <2>2, <2>3, Added, ValueAfter
<1>3. QED
  BY <1>1, <1>2

\* A proposal moves its parameter by a small step, and no other.
LEMMA ProposalAdded ==
  ASSUME AdaptiveInv, NEW q \in Ad!Parameters, NEW s \in Seq(RecordState), AllWithin(s),
         Value(s, q) = Value(adaptations, q)
  PROVE  LET t == s \o Ad!Proposal(q)
         IN  /\ t \in Seq(RecordState) /\ AllWithin(t) /\ Len(t) \in Len(s) .. (Len(s) + 1)
             /\ Small(Value(adaptations, q), Value(t, q))
             /\ \A p \in Ad!Parameters \ {q} : Value(t, p) = Value(s, p)
<1>1. CASE Ad!Proposal(q) = <<>>
  <2>1. s \o Ad!Proposal(q) = s /\ Len(s) \in Nat
    BY <1>1
  <2>2. QED
    BY <2>1, NoStepSmall
<1>2. CASE \E r \in RecordState : /\ Ad!Proposal(q) = <<r>> /\ r.parameter = q
                                  /\ Within(r.newValue, q) /\ Small(Value(adaptations, q), r.newValue)
  <2>1. PICK r \in RecordState : /\ Ad!Proposal(q) = <<r>> /\ r.parameter = q
                                 /\ Within(r.newValue, q) /\ Small(Value(adaptations, q), r.newValue)
    BY <1>2
  <2>2. s \o Ad!Proposal(q) = Append(s, r) /\ Len(s) \in Nat
    BY <2>1
  <2>3. Append(s, r) \in Seq(RecordState) /\ AllWithin(Append(s, r)) /\ Len(Append(s, r)) = Len(s) + 1
    BY <2>1, Added
  <2>4. \A p \in Ad!Parameters : Value(Append(s, r), p) = IF p = q THEN r.newValue ELSE Value(s, p)
    BY <2>1, ValueAfter
  <2>5. Small(Value(adaptations, q), Value(Append(s, r), q))
    BY <2>1, <2>4
  <2>6. \A p \in Ad!Parameters \ {q} : Value(Append(s, r), p) = Value(s, p)
    BY <2>4
  <2>7. Len(Append(s, r)) \in Len(s) .. (Len(s) + 1)
    BY <2>2, <2>3
  <2>8. QED
    BY <2>2, <2>3, <2>5, <2>6, <2>7
<1>3. QED
  BY <1>1, <1>2, ProposalSmall

\* A cycle adds a note and a proposal for each parameter, and may trim the records.
LEMMA CycleSmall ==
  ASSUME AdaptiveAssumption, AdaptiveInv, Ad!RunCycle
  PROVE  /\ AdaptiveInv' /\ (Len(adaptations') >= Len(adaptations) => Ad!SmallStep)
         /\ Len(adaptations') <= Len(adaptations) + 3
         /\ (Len(adaptations') < Len(adaptations) => Len(adaptations) + 3 > MaxRecords)
<1>0. adaptations \in Seq(RecordState) /\ AllWithin(adaptations) /\ Len(adaptations) \in Nat
  BY DEF AdaptiveInv
<1>1. PICK drift \in {"none", "warn", "halt"} :
         LET warned == IF drift = "warn" THEN Ad!Note ELSE <<>>
         IN  \/ adaptations' = adaptations \o Ad!Note
             \/ adaptations' = adaptations \o warned \o Ad!Note
             \/ adaptations' = Ad!Trimmed(adaptations \o warned \o Ad!Proposal("feeRate") \o Ad!Proposal("blockThreshold"))
  BY DEF Ad!RunCycle
<1> DEFINE warned == IF drift = "warn" THEN Ad!Note ELSE <<>>
           a1 == adaptations \o warned
           a2 == a1 \o Ad!Proposal("feeRate")
           a3 == a2 \o Ad!Proposal("blockThreshold")
<1>2. /\ a1 \in Seq(RecordState) /\ AllWithin(a1) /\ Len(a1) \in Len(adaptations) .. (Len(adaptations) + 1)
      /\ \A p \in Ad!Parameters : Value(a1, p) = Value(adaptations, p)
  BY <1>0, NoteAdded
<1>3. CASE adaptations' = adaptations \o Ad!Note
  <2>1. /\ adaptations' \in Seq(RecordState) /\ AllWithin(adaptations')
        /\ Len(adaptations') \in Len(adaptations) .. (Len(adaptations) + 1)
        /\ \A p \in Ad!Parameters : Value(adaptations', p) = Value(adaptations, p)
    BY <1>0, <1>3, NoteAdded
  <2>2. AdaptiveInv' /\ Ad!SmallStep
    BY <1>0, <2>1, SmallBy, NoStepSmall
  <2>3. QED
    BY <1>0, <2>1, <2>2
<1>4. CASE adaptations' = a1 \o Ad!Note
  <2> HIDE DEF a1
  <2>1. /\ adaptations' \in Seq(RecordState) /\ AllWithin(adaptations')
        /\ Len(adaptations') \in Len(a1) .. (Len(a1) + 1)
        /\ \A p \in Ad!Parameters : Value(adaptations', p) = Value(a1, p)
    BY <1>2, <1>4, NoteAdded
  <2>2. AdaptiveInv' /\ Ad!SmallStep
    BY <1>0, <1>2, <2>1, SmallBy, NoStepSmall
  <2>3. QED
    BY <1>0, <1>2, <2>1, <2>2
<1>5. CASE adaptations' = Ad!Trimmed(a3)
  <2> HIDE DEF a1
  <2>1. "feeRate" \in Ad!Parameters /\ "blockThreshold" \in Ad!Parameters
    BY DEF Ad!Parameters
  <2>2. /\ a2 \in Seq(RecordState) /\ AllWithin(a2) /\ Len(a2) \in Len(a1) .. (Len(a1) + 1)
        /\ Small(Value(adaptations, "feeRate"), Value(a2, "feeRate"))
        /\ \A p \in Ad!Parameters \ {"feeRate"} : Value(a2, p) = Value(a1, p)
    BY <1>2, <2>1, ProposalAdded
  <2> HIDE DEF a2
  <2>3. Value(a2, "blockThreshold") = Value(adaptations, "blockThreshold")
    BY <1>2, <2>1, <2>2
  <2>4. /\ a3 \in Seq(RecordState) /\ AllWithin(a3) /\ Len(a3) \in Len(a2) .. (Len(a2) + 1)
        /\ Small(Value(adaptations, "blockThreshold"), Value(a3, "blockThreshold"))
        /\ \A p \in Ad!Parameters \ {"blockThreshold"} : Value(a3, p) = Value(a2, p)
    BY <2>1, <2>2, <2>3, ProposalAdded
  <2> HIDE DEF a3
  <2>5. \A p \in Ad!Parameters : Small(Value(adaptations, p), Value(a3, p))
    <3>1. Small(Value(adaptations, "feeRate"), Value(a3, "feeRate"))
      BY <2>1, <2>2, <2>4
    <3>2. QED
      BY <2>4, <3>1 DEF Ad!Parameters
  <2>6. Len(a3) \in Len(adaptations) .. (Len(adaptations) + 3) /\ Len(a1) \in Nat /\ Len(a2) \in Nat /\ Len(a3) \in Nat
    BY <1>0, <1>2, <2>2, <2>4
  <2>7. CASE adaptations' = a3
    <3>1. AdaptiveInv' /\ Ad!SmallStep
      BY <2>4, <2>5, <2>7, SmallBy
    <3>2. QED
      BY <1>0, <2>6, <2>7, <3>1
  <2>8. CASE Len(a3) > MaxRecords /\ adaptations' = Ad!Newest(a3, KeptRecords)
    <3>1. /\ adaptations' \in Seq(RecordState) /\ AllWithin(adaptations')
          /\ Len(adaptations') = KeptRecords
      BY <2>4, <2>6, <2>8, NewestWithin DEF AdaptiveAssumption
    <3>2. Len(adaptations') < Len(adaptations) /\ Len(adaptations) + 3 > MaxRecords
      BY <1>0, <2>6, <2>8, <3>1 DEF AdaptiveAssumption
    <3>3. AdaptiveInv'
      BY <3>1 DEF AdaptiveInv, AllWithin, RecordState, Within
    <3>4. QED
      BY <1>0, <3>1, <3>2, <3>3
  <2>9. QED
    BY <1>5, <2>7, <2>8 DEF Ad!Trimmed
<1>6. QED
  BY <1>1, <1>3, <1>4, <1>5

\* Every other step leaves the records alone, or drops the oldest of them.
LEMMA AdaptiveStep ==
  ASSUME AdaptiveAssumption, AdaptiveInv, [Ad!Next]_(Ad!vars)
  PROVE  AdaptiveInv' /\ [Len(adaptations') >= Len(adaptations) => Ad!SmallStep]_(Ad!vars)
<1>1. CASE UNCHANGED adaptations
  BY <1>1, RecordsStay
<1>2. CASE Ad!RunCycle
  BY <1>2, CycleSmall
<1>3. CASE Ad!Restore
  <2>1. adaptations' = Ad!Newest(adaptations, SavedRecords)
    BY <1>3 DEF Ad!Restore
  <2>2. /\ adaptations' \in Seq(RecordState) /\ AllWithin(adaptations')
        /\ adaptations' = adaptations \/ Len(adaptations') < Len(adaptations)
    BY <2>1, NewestWithin DEF AdaptiveInv, AdaptiveAssumption
  <2>3. CASE adaptations' = adaptations
    BY <2>3, RecordsStay
  <2>4. CASE Len(adaptations') < Len(adaptations)
    <3>1. AdaptiveInv'
      BY <2>2 DEF AdaptiveInv, AllWithin, RecordState, Within
    <3>2. ~(Len(adaptations') >= Len(adaptations))
      BY <2>2, <2>4 DEF AdaptiveInv
    <3>3. QED
      BY <3>1, <3>2
  <2>5. QED
    BY <2>2, <2>3, <2>4
<1>4. QED
  BY <1>1, <1>2, <1>3 DEF Ad!Next, Ad!vars, Ad!Observe, Ad!ResetCircuitBreaker, Ad!Administer

\* No cycle moves a parameter by more than a fifth, or out of its bounds, as long as it
\* drops no records: a parameter whose records are dropped falls back to its default.
THEOREM StepsAreSmall ==
  ASSUME AdaptiveAssumption
  PROVE  Ad!Spec => [][Len(adaptations') >= Len(adaptations) => Ad!SmallStep]_(Ad!vars)
<1>1. Ad!Init => AdaptiveInv
  BY DEF Ad!Init, AdaptiveInv, AllWithin
<1>2. QED
  BY <1>1, AdaptiveStep, PTL DEF Ad!Spec

\* All the records that the cycles so far may have added fit.
RecordsFit == cycles \in 0..MaxCycles /\ Len(adaptations) <= 3 * cycles

\* They do, when those of all cycles do.
LEMMA FitStep ==
  ASSUME AdaptiveAssumption, MaxCycles \in Nat, 3 * MaxCycles <= MaxRecords, 3 * MaxCycles <= SavedRecords,
         AdaptiveInv, RecordsFit, [Ad!Next]_(Ad!vars)
  PROVE  RecordsFit' /\ Len(adaptations') >= Len(adaptations)
<1>0. Len(adaptations) \in Nat /\ cycles \in Nat
  BY DEF AdaptiveInv, RecordsFit
<1>1. CASE UNCHANGED <<adaptations, cycles>>
  BY <1>0, <1>1 DEF RecordsFit
<1>2. CASE Ad!RunCycle
  <2>1. cycles < MaxCycles /\ cycles' = cycles + 1
    BY <1>2 DEF Ad!RunCycle
  <2>2. /\ Len(adaptations') <= Len(adaptations) + 3 /\ AdaptiveInv'
        /\ Len(adaptations') < Len(adaptations) => Len(adaptations) + 3 > MaxRecords
    BY <1>2, CycleSmall
  <2>3. Len(adaptations') \in Nat
    BY <2>2 DEF AdaptiveInv
  <2>4. QED
    BY <1>0, <2>1, <2>2, <2>3 DEF RecordsFit, AdaptiveAssumption
<1>3. CASE Ad!Restore
  <2>1. Len(adaptations) <= SavedRecords
    BY <1>0 DEF RecordsFit, AdaptiveAssumption
  <2>2. UNCHANGED <<adaptations, cycles>>
    BY <1>3, <2>1 DEF Ad!Restore, Ad!Newest
  <2>3. QED
    BY <1>1, <2>2
<1>4. QED
  BY <1>1, <1>2, <1>3 DEF Ad!Next, Ad!vars, Ad!Observe, Ad!ResetCircuitBreaker, Ad!Administer

\* So none makes a jump while the records fit.
THEOREM JumpsExcluded ==
  ASSUME AdaptiveAssumption, MaxCycles \in Nat, 3 * MaxCycles <= MaxRecords, 3 * MaxCycles <= SavedRecords
  PROVE  Ad!Spec => [][Ad!SmallStep]_(Ad!vars)
<1>1. Ad!Init => AdaptiveInv /\ RecordsFit
  BY DEF Ad!Init, AdaptiveInv, AllWithin, RecordsFit
<1>2. AdaptiveInv /\ RecordsFit /\ [Ad!Next]_(Ad!vars)
        => AdaptiveInv' /\ RecordsFit' /\ [Ad!SmallStep]_(Ad!vars)
  BY AdaptiveStep, FitStep
<1>3. QED
  BY <1>1, <1>2, PTL DEF Ad!Spec

-----------------------------------------------------------------------------
(* Recall (MemoryStore).                                                   *)
(* What a search found before it waited is looked up again in the memories *)
(* when it answers.                                                        *)

ReaderState ==
    [at : {"idle", "query", "searching", "answered", "failed", "threw"}, asked : SUBSET Memories,
     todo : SUBSET Memories, sent : SUBSET Memories, fts : BOOLEAN, got : SUBSET Memories]

\* There is an entry for every reader.
ReadersKnown == reader \in [Readers -> ReaderState]

\* An entry with another field is an entry.
LEMMA AtForm ==
  ASSUME NEW q \in ReaderState, NEW state \in {"idle", "query", "searching", "answered", "failed", "threw"}
  PROVE  LET n == [q EXCEPT !.at = state] IN n \in ReaderState /\ n.at = state
BY DEF ReaderState

\* What it is asked for,
LEMMA AskedForm ==
  ASSUME NEW q \in ReaderState, NEW asked \in SUBSET Memories
  PROVE  LET n == [q EXCEPT !.asked = asked] IN n \in ReaderState /\ n.at = q.at
BY DEF ReaderState

\* what it has yet to embed,
LEMMA TodoForm ==
  ASSUME NEW q \in ReaderState, NEW todo \in SUBSET Memories
  PROVE  LET n == [q EXCEPT !.todo = todo] IN n \in ReaderState /\ n.at = q.at /\ n.sent = q.sent
BY DEF ReaderState

\* what it has sent,
LEMMA SentForm ==
  ASSUME NEW q \in ReaderState, NEW sent \in SUBSET Memories
  PROVE  LET n == [q EXCEPT !.sent = sent] IN n \in ReaderState /\ n.at = q.at
BY DEF ReaderState

\* where the candidates are from,
LEMMA FtsForm ==
  ASSUME NEW q \in ReaderState, NEW fts \in BOOLEAN
  PROVE  LET n == [q EXCEPT !.fts = fts] IN n \in ReaderState /\ n.at = q.at
BY DEF ReaderState

\* and what it got.
LEMMA GotForm ==
  ASSUME NEW q \in ReaderState, NEW got \in SUBSET Memories
  PROVE  LET n == [q EXCEPT !.got = got] IN n \in ReaderState /\ n.at = q.at /\ n.got = got
BY DEF ReaderState

\* The first entry is one.
LEMMA FirstEntry == Ms!Reader \in ReaderState
BY DEF Ms!Reader, ReaderState

\* The query is sent,
LEMMA QueryForm ==
  ASSUME NEW q \in ReaderState, NEW asked \in SUBSET Memories
  PROVE  LET n == [q EXCEPT !.at = "query", !.asked = asked] IN n \in ReaderState /\ n.at = "query"
<1> DEFINE n1 == [q EXCEPT !.at = "query"]
<1>1. n1 \in ReaderState /\ n1.at = "query"
  BY AtForm
<1>2. [q EXCEPT !.at = "query", !.asked = asked] = [n1 EXCEPT !.asked = asked]
  OBVIOUS
<1> HIDE DEF n1
<1>3. QED
  BY <1>1, <1>2, AskedForm

\* the search begins,
LEMMA SearchForm ==
  ASSUME NEW q \in ReaderState, NEW asked \in SUBSET Memories, NEW todo \in SUBSET Memories, NEW fts \in BOOLEAN
  PROVE  LET n == [q EXCEPT !.at = "searching", !.asked = asked, !.todo = todo, !.fts = fts]
         IN  n \in ReaderState /\ n.at = "searching"
<1> DEFINE n1 == [q EXCEPT !.at = "searching"]
           n2 == [n1 EXCEPT !.asked = asked]
           n3 == [n2 EXCEPT !.todo = todo]
<1>1. n1 \in ReaderState /\ n1.at = "searching"
  BY AtForm
<1>2. [q EXCEPT !.at = "searching", !.asked = asked, !.todo = todo, !.fts = fts] = [n3 EXCEPT !.fts = fts]
  OBVIOUS
<1> HIDE DEF n1
<1>3. n2 \in ReaderState /\ n2.at = "searching"
  BY <1>1, AskedForm
<1> HIDE DEF n2
<1>4. n3 \in ReaderState /\ n3.at = "searching"
  BY <1>3, TodoForm
<1> HIDE DEF n3
<1>5. QED
  BY <1>2, <1>4, FtsForm

\* a candidate is embedded,
LEMMA CandidateForm ==
  ASSUME NEW q \in ReaderState, NEW todo \in SUBSET Memories, NEW sent \in SUBSET Memories
  PROVE  LET n == [q EXCEPT !.todo = todo, !.sent = sent] IN n \in ReaderState /\ n.at = q.at
<1> DEFINE n1 == [q EXCEPT !.todo = todo]
<1>1. n1 \in ReaderState /\ n1.at = q.at
  BY TodoForm
<1>2. [q EXCEPT !.todo = todo, !.sent = sent] = [n1 EXCEPT !.sent = sent]
  OBVIOUS
<1> HIDE DEF n1
<1>3. QED
  BY <1>1, <1>2, SentForm

\* and the answer is given.
LEMMA AnswerForm ==
  ASSUME NEW got \in SUBSET Memories
  PROVE  LET n == [Ms!Reader EXCEPT !.at = "answered", !.got = got] IN n \in ReaderState /\ n.got = got
<1> DEFINE n1 == [Ms!Reader EXCEPT !.at = "answered"]
<1>1. n1 \in ReaderState
  BY FirstEntry, AtForm
<1>2. [Ms!Reader EXCEPT !.at = "answered", !.got = got] = [n1 EXCEPT !.got = got]
  OBVIOUS
<1> HIDE DEF n1
<1>3. QED
  BY <1>1, <1>2, GotForm

\* Who has no part in a step answers nothing.
LEMMA OneReads ==
  ASSUME ReadersKnown, NEW r \in Readers, NEW new \in ReaderState, reader' = [reader EXCEPT ![r] = new]
  PROVE  /\ ReadersKnown' /\ reader'[r] = new
         /\ \A s \in Readers \ {r} : reader'[s] = reader[s]
BY DEF ReadersKnown

\* A step keeps the entries, and an answer it gives is of memories that are there.
LEMMA RecallStep ==
  ASSUME ReadersKnown, [Ms!Next]_(Ms!vars)
  PROVE  ReadersKnown' /\ [Ms!AnswersLive]_(Ms!vars)
<1>1. ASSUME UNCHANGED reader PROVE ReadersKnown' /\ Ms!AnswersLive
  BY <1>1 DEF ReadersKnown, Ms!AnswersLive
<1>2. ASSUME NEW r \in Readers, NEW new \in ReaderState, reader' = [reader EXCEPT ![r] = new],
             new.at = "answered" /\ reader[r].at # "answered" => new.got \subseteq Ms!Live
      PROVE  ReadersKnown' /\ Ms!AnswersLive
  BY <1>2, OneReads DEF Ms!AnswersLive
<1>0. Ms!Live \in SUBSET Memories /\ \A r \in Readers : reader[r] \in ReaderState
  BY DEF ReadersKnown, Ms!Live
<1>3. CASE UNCHANGED Ms!vars
  BY <1>1, <1>3 DEF Ms!vars
<1>4. ASSUME NEW m \in Memories, NEW entities, NEW opinion, Ms!Remember(m, entities, opinion)
      PROVE  UNCHANGED reader
  BY <1>4 DEF Ms!Remember
<1>5. ASSUME NEW m \in Memories, Ms!Embedded(m) \/ Ms!Written(m) \/ Ms!RememberFails(m) \/ Ms!StartReview(m)
      PROVE  UNCHANGED reader
  BY <1>5 DEF Ms!Embedded, Ms!Written, Ms!RememberFails, Ms!StartReview
<1>6. ASSUME NEW gone, Ms!Forget(gone) PROVE UNCHANGED reader
  BY <1>6 DEF Ms!Forget
<1>7. ASSUME Ms!Reinforce \/ Ms!PurgeStaleVectors PROVE UNCHANGED reader
  BY <1>7 DEF Ms!Reinforce, Ms!PurgeStaleVectors
<1>8. ASSUME NEW d, NEW ok, Ms!AdapterAnswers(d, ok) PROVE UNCHANGED reader
  BY <1>8 DEF Ms!AdapterAnswers
<1>9. ASSUME NEW m, NEW e, NEW recent, Ms!StartObservation(m, e, recent) PROVE UNCHANGED reader
  BY <1>9 DEF Ms!StartObservation
<1>10. ASSUME NEW job, NEW ok, Ms!ObservationWritten(job, ok) PROVE UNCHANGED reader
  BY <1>10 DEF Ms!ObservationWritten
<1>11. ASSUME NEW item, NEW delta, Ms!Reviewed(item, delta) PROVE UNCHANGED reader
  BY <1>11 DEF Ms!Reviewed
<1>12. ASSUME NEW r \in Readers, Ms!Recall(r) PROVE ReadersKnown' /\ Ms!AnswersLive
  <2> DEFINE new == [reader[r] EXCEPT !.at = "query", !.asked = Ms!Live]
  <2>1. reader' = [reader EXCEPT ![r] = new]
    BY <1>12 DEF Ms!Recall
  <2>2. new \in ReaderState /\ new.at # "answered"
    BY <1>0, QueryForm
  <2> HIDE DEF new
  <2>3. QED
    BY <1>2, <2>1, <2>2
<1>13. ASSUME NEW r \in Readers, Ms!RecallFails(r) PROVE ReadersKnown' /\ Ms!AnswersLive
  <2>1. [Ms!Reader EXCEPT !.at = "failed"] \in ReaderState /\ [Ms!Reader EXCEPT !.at = "failed"].at # "answered"
    BY FirstEntry, AtForm
  <2>2. reader' = [reader EXCEPT ![r] = [Ms!Reader EXCEPT !.at = "failed"]]
    BY <1>13 DEF Ms!RecallFails
  <2>3. QED
    BY <1>2, <2>1, <2>2
<1>14. ASSUME NEW r \in Readers, NEW best \in SUBSET Memories, Ms!RankedByScore(r, best) PROVE ReadersKnown' /\ Ms!AnswersLive
  <2> DEFINE new == [Ms!Reader EXCEPT !.at = "answered", !.got = best]
  <2>1. reader' = [reader EXCEPT ![r] = new] /\ best \subseteq Ms!Live
    BY <1>14 DEF Ms!RankedByScore
  <2>2. new \in ReaderState /\ new.got = best
    BY AnswerForm
  <2> HIDE DEF new
  <2>3. QED
    BY <1>2, <2>1, <2>2
<1>15. ASSUME NEW r \in Readers, NEW found \in SUBSET Memories, Ms!QueryEmbedded(r, found) PROVE ReadersKnown' /\ Ms!AnswersLive
  <2> DEFINE candidates == IF found = {} THEN reader[r].asked ELSE found
             new == [reader[r] EXCEPT !.at = "searching", !.asked = candidates,
                                      !.todo = candidates \ vectors, !.fts = found # {}]
  <2>1. reader' = [reader EXCEPT ![r] = new]
    BY <1>15 DEF Ms!QueryEmbedded
  <2>2. candidates \in SUBSET Memories
    BY <1>0 DEF ReaderState
  <2>3. new \in ReaderState /\ new.at # "answered"
    BY <1>0, <2>2, SearchForm
  <2> HIDE DEF new
  <2>4. QED
    BY <1>2, <2>1, <2>3
<1>16. ASSUME NEW r \in Readers, NEW m \in Memories, Ms!CandidateEmbedded(r, m) PROVE ReadersKnown' /\ Ms!AnswersLive
  <2> DEFINE new == [reader[r] EXCEPT !.todo = @ \ {m}, !.sent = IF m \in rows THEN @ ELSE @ \cup {m}]
  <2>1. reader' = [reader EXCEPT ![r] = new]
    BY <1>16 DEF Ms!CandidateEmbedded, ReadersKnown
  <2>2. reader[r].todo \ {m} \in SUBSET Memories
        /\ (IF m \in rows THEN reader[r].sent ELSE reader[r].sent \cup {m}) \in SUBSET Memories
    BY <1>0 DEF ReaderState
  <2>3. new \in ReaderState /\ new.at = reader[r].at
    BY <1>0, <2>2, CandidateForm
  <2>4. reader[r].at = "searching"
    BY <1>16 DEF Ms!CandidateEmbedded
  <2> HIDE DEF new
  <2>5. QED
    BY <1>2, <2>1, <2>3, <2>4
<1>17. ASSUME NEW r \in Readers, NEW best \in SUBSET Memories, NEW hoisted, Ms!Searched(r, best, hoisted)
       PROVE  ReadersKnown' /\ Ms!AnswersLive
  <2> DEFINE answer == [Ms!Reader EXCEPT !.at = "answered", !.got = best]
             threw == [Ms!Reader EXCEPT !.at = "threw"]
  <2>1. answer \in ReaderState /\ threw \in ReaderState /\ answer.got = best /\ threw.at # "answered"
    BY FirstEntry, AtForm, AnswerForm
  <2>2. reader' = [reader EXCEPT ![r] = IF hoisted = {} /\ best \subseteq Ms!Live THEN answer ELSE threw]
    BY <1>17 DEF Ms!Searched
  <2> HIDE DEF answer, threw
  <2>3. QED
    BY <1>2, <2>1, <2>2
<1>18. CASE Ms!Next
  BY <1>1, <1>4, <1>5, <1>6, <1>7, <1>8, <1>9, <1>10, <1>11, <1>12, <1>13, <1>14, <1>15, <1>16, <1>17, <1>18
  DEF Ms!Next
<1>19. QED
  BY <1>3, <1>18

\* Whatever is forgotten or consolidated while a search waits for its embeddings, the
\* memories a recall answers with are there when it answers.
THEOREM AnswersAreLive == Ms!Spec => [][Ms!AnswersLive]_(Ms!vars)
<1>1. Ms!Init => ReadersKnown
  BY DEF Ms!Init, Ms!InitWith, Ms!Reader, ReadersKnown, ReaderState
<1>2. QED
  BY <1>1, RecallStep, PTL DEF Ms!Spec

-----------------------------------------------------------------------------
(* The integrity tree (Integrity).                                         *)
(* The levels above the leaves, the positions above a leaf and the hashes  *)
(* of a verification are recursive functions; on each level the hash that  *)
(* the verification has reached is the node above the leaf.                *)

\* A list, whatever its elements are.
IsList(s) == Len(s) \in Nat /\ s = [i \in 1..Len(s) |-> s[i]]

\* A function on the first m numbers is one, of length m.
LEMMA ListOfLength ==
  ASSUME NEW m \in Nat, NEW f, f = [i \in 1..m |-> f[i]]
  PROVE  Len(f) = m /\ IsList(f)
<1>1. f \in [1..m -> {f[i] : i \in 1..m}]
  OBVIOUS
<1>2. f \in Seq({f[i] : i \in 1..m})
  BY <1>1
<1>3. Len(f) = m
  BY <1>1, <1>2
<1>4. QED
  BY <1>3 DEF IsList

\* There is a function with the levels up to the n-th,
LevelsUpTo(f, level, n) ==
  f = [k \in 0..n |-> IF k = 0 THEN level ELSE Ig!NextLevel(f[k - 1])]

\* for any n (a smallest n without one would have one),
LEMMA LevelsExist ==
  ASSUME NEW level PROVE \A n \in Nat : \E f : LevelsUpTo(f, level, n)
<1> DEFINE Bad == {n \in Nat : ~ \E f : LevelsUpTo(f, level, n)}
<1> SUFFICES ASSUME Bad # {} PROVE FALSE
  OBVIOUS
<1>1. PICK n \in Bad : \A m \in Bad : n <= m
  BY SmallestNumber
<1>2. LevelsUpTo([k \in 0..0 |-> level], level, 0)
  BY DEF LevelsUpTo
<1>3. n \in Nat /\ n # 0 /\ n - 1 \in Nat
  BY <1>1, <1>2
<1>4. PICK f : LevelsUpTo(f, level, n - 1)
  BY <1>1, <1>3
<1> DEFINE g == [k \in 0..n |-> IF k = n THEN Ig!NextLevel(f[n - 1]) ELSE f[k]]
<1>5. \A k \in 0..n : k # 0 => g[k - 1] = f[k - 1]
  BY <1>3
<1>6. \A k \in 0..n : k # n => k \in 0..(n - 1) /\ f[k] = IF k = 0 THEN level ELSE Ig!NextLevel(f[k - 1])
  BY <1>3, <1>4 DEF LevelsUpTo
<1>7. \A k \in 0..n : g[k] = IF k = 0 THEN level ELSE Ig!NextLevel(g[k - 1])
  BY <1>3, <1>5, <1>6
<1>8. g = [k \in 0..n |-> g[k]]
  OBVIOUS
<1> HIDE DEF g
<1>9. LevelsUpTo(g, level, n)
  BY <1>7, <1>8 DEF LevelsUpTo
<1>10. QED
  BY <1>1, <1>9

\* and Levels is one.
LEMMA LevelsAre ==
  ASSUME NEW level, Len(level) \in Nat
  PROVE  /\ Ig!Levels(level)[0] = level
         /\ \A n \in 1..Len(level) : Ig!Levels(level)[n] = Ig!NextLevel(Ig!Levels(level)[n - 1])
<1> DEFINE top == CHOOSE f : LevelsUpTo(f, level, Len(level))
<1>1. LevelsUpTo(top, level, Len(level))
  BY LevelsExist
<1>2. Ig!Levels(level) = top
  BY DEF Ig!Levels, LevelsUpTo
<1> HIDE DEF top
<1>3. \A n \in 0..Len(level) : top[n] = IF n = 0 THEN level ELSE Ig!NextLevel(top[n - 1])
  BY <1>1 DEF LevelsUpTo
<1>4. QED
  BY <1>2, <1>3

\* The same for the positions above a leaf,
AncestorsUpTo(f, i, n) ==
  f = [k \in 0..n |-> IF k = 0 THEN i ELSE (f[k - 1] + 1) \div 2]

\* (which exists),
LEMMA AncestorsExist ==
  ASSUME NEW i PROVE \A n \in Nat : \E f : AncestorsUpTo(f, i, n)
<1> DEFINE Bad == {n \in Nat : ~ \E f : AncestorsUpTo(f, i, n)}
<1> SUFFICES ASSUME Bad # {} PROVE FALSE
  OBVIOUS
<1>1. PICK n \in Bad : \A m \in Bad : n <= m
  BY SmallestNumber
<1>2. AncestorsUpTo([k \in 0..0 |-> i], i, 0)
  BY DEF AncestorsUpTo
<1>3. n \in Nat /\ n # 0 /\ n - 1 \in Nat
  BY <1>1, <1>2
<1>4. PICK f : AncestorsUpTo(f, i, n - 1)
  BY <1>1, <1>3
<1> DEFINE g == [k \in 0..n |-> IF k = n THEN (f[n - 1] + 1) \div 2 ELSE f[k]]
<1>5. \A k \in 0..n : k # 0 => g[k - 1] = f[k - 1]
  BY <1>3
<1>6. \A k \in 0..n : k # n => k \in 0..(n - 1) /\ f[k] = IF k = 0 THEN i ELSE (f[k - 1] + 1) \div 2
  BY <1>3, <1>4 DEF AncestorsUpTo
<1>7. \A k \in 0..n : g[k] = IF k = 0 THEN i ELSE (g[k - 1] + 1) \div 2
  BY <1>3, <1>5, <1>6
<1>8. g = [k \in 0..n |-> g[k]]
  OBVIOUS
<1> HIDE DEF g
<1>9. AncestorsUpTo(g, i, n)
  BY <1>7, <1>8 DEF AncestorsUpTo
<1>10. QED
  BY <1>1, <1>9

\* the positions above a leaf are halved, rounded up, on each level,
LEMMA AncestorsAre ==
  ASSUME NEW level, Len(level) \in Nat, NEW i
  PROVE  /\ Ig!Ancestors(level, i)[0] = i
         /\ \A n \in 1..Len(level) :
              Ig!Ancestors(level, i)[n] = (Ig!Ancestors(level, i)[n - 1] + 1) \div 2
<1> DEFINE top == CHOOSE f : AncestorsUpTo(f, i, Len(level))
<1>1. AncestorsUpTo(top, i, Len(level))
  BY AncestorsExist
<1>2. Ig!Ancestors(level, i) = top
  BY DEF Ig!Ancestors, AncestorsUpTo
<1> HIDE DEF top
<1>3. \A n \in 0..Len(level) : top[n] = IF n = 0 THEN i ELSE (top[n - 1] + 1) \div 2
  BY <1>1 DEF AncestorsUpTo
<1>4. QED
  BY <1>2, <1>3

\* and for the hashes of a verification.
ClimbedUpTo(f, hash, path, n) ==
  f = [k \in 0..n |-> IF k = 0 THEN hash ELSE Ig!Up(f[k - 1], path[k])]

\* (which exists too),
LEMMA ClimbedExists ==
  ASSUME NEW hash, NEW path PROVE \A n \in Nat : \E f : ClimbedUpTo(f, hash, path, n)
<1> DEFINE Bad == {n \in Nat : ~ \E f : ClimbedUpTo(f, hash, path, n)}
<1> SUFFICES ASSUME Bad # {} PROVE FALSE
  OBVIOUS
<1>1. PICK n \in Bad : \A m \in Bad : n <= m
  BY SmallestNumber
<1>2. ClimbedUpTo([k \in 0..0 |-> hash], hash, path, 0)
  BY DEF ClimbedUpTo
<1>3. n \in Nat /\ n # 0 /\ n - 1 \in Nat
  BY <1>1, <1>2
<1>4. PICK f : ClimbedUpTo(f, hash, path, n - 1)
  BY <1>1, <1>3
<1> DEFINE g == [k \in 0..n |-> IF k = n THEN Ig!Up(f[n - 1], path[n]) ELSE f[k]]
<1>5. \A k \in 0..n : k # 0 => g[k - 1] = f[k - 1]
  BY <1>3
<1>6. \A k \in 0..n : k # n => k \in 0..(n - 1) /\ f[k] = IF k = 0 THEN hash ELSE Ig!Up(f[k - 1], path[k])
  BY <1>3, <1>4 DEF ClimbedUpTo
<1>7. \A k \in 0..n : g[k] = IF k = 0 THEN hash ELSE Ig!Up(g[k - 1], path[k])
  BY <1>3, <1>5, <1>6
<1>8. g = [k \in 0..n |-> g[k]]
  OBVIOUS
<1> HIDE DEF g
<1>9. ClimbedUpTo(g, hash, path, n)
  BY <1>7, <1>8 DEF ClimbedUpTo
<1>10. QED
  BY <1>1, <1>9

\* each hash is made of the one before and the next step of the path.
LEMMA ClimbedIs ==
  ASSUME NEW hash, NEW path, Len(path) \in Nat
  PROVE  /\ Ig!Climbed(hash, path)[0] = hash
         /\ \A n \in 1..Len(path) :
              Ig!Climbed(hash, path)[n] = Ig!Up(Ig!Climbed(hash, path)[n - 1], path[n])
<1> DEFINE top == CHOOSE f : ClimbedUpTo(f, hash, path, Len(path))
<1>1. ClimbedUpTo(top, hash, path, Len(path))
  BY ClimbedExists
<1>2. Ig!Climbed(hash, path) = top
  BY DEF Ig!Climbed, ClimbedUpTo
<1> HIDE DEF top
<1>3. \A n \in 0..Len(path) : top[n] = IF n = 0 THEN hash ELSE Ig!Up(top[n - 1], path[n])
  BY <1>1 DEF ClimbedUpTo
<1>4. QED
  BY <1>2, <1>3

\* A level is half as long as the one below, rounded up.
LEMMA NextLevelIs ==
  ASSUME NEW level, IsList(level)
  PROVE  IsList(Ig!NextLevel(level)) /\ Len(Ig!NextLevel(level)) = (Len(level) + 1) \div 2
<1> DEFINE m == (Len(level) + 1) \div 2
           f == Ig!NextLevel(level)
<1>1. m \in Nat
  BY DEF IsList
<1>2. f = [i \in 1..m |-> f[i]]
  BY DEF Ig!NextLevel
<1> HIDE DEF m, f
<1>3. Len(f) = m /\ IsList(f)
  BY <1>1, <1>2, ListOfLength
<1>4. QED
  BY <1>3 DEF m, f

\* Half of a number, rounded up, is less, unless it is one.
LEMMA HalfIsLess ==
  ASSUME NEW x \in Nat, x >= 1, NEW m \in Nat, NEW n \in 1..m, x = 1 \/ x <= m - (n - 1)
  PROVE  LET y == (x + 1) \div 2 IN y >= 1 /\ (y = 1 \/ y <= m - n)
OBVIOUS

\* The levels get shorter until one has a single node.
LEMMA LevelsShrink ==
  ASSUME NEW level, IsList(level), Len(level) >= 1
  PROVE  \A n \in 0..Len(level) :
           /\ IsList(Ig!Levels(level)[n]) /\ Len(Ig!Levels(level)[n]) >= 1
           /\ Len(Ig!Levels(level)[n]) = 1 \/ Len(Ig!Levels(level)[n]) <= Len(level) - n
<1> DEFINE L == Ig!Levels(level)
           Good(n) == IsList(L[n]) /\ Len(L[n]) >= 1 /\ (Len(L[n]) = 1 \/ Len(L[n]) <= Len(level) - n)
           Bad == {n \in 0..Len(level) : ~Good(n)}
<1>0. Len(level) \in Nat
  BY DEF IsList
<1> SUFFICES ASSUME Bad # {} PROVE FALSE
  OBVIOUS
<1>1. PICK n \in Bad : \A m \in Bad : n <= m
  <2>1. Bad \in SUBSET Nat
    BY <1>0
  <2> HIDE DEF Bad
  <2>2. QED
    BY <2>1, SmallestNumber
<1>2. L[0] = level /\ \A k \in 1..Len(level) : L[k] = Ig!NextLevel(L[k - 1])
  BY <1>0, LevelsAre
<1> HIDE DEF L
<1>3. Good(0)
  BY <1>0, <1>2
<1>4. n \in 1..Len(level) /\ n - 1 \in 0..Len(level) /\ ~(n <= n - 1)
  BY <1>0, <1>1, <1>3
<1>5. Good(n - 1)
  <2>1. n - 1 \notin Bad
    <3> HIDE DEF Bad
    <3>1. QED
      BY <1>1, <1>4
  <2>2. QED
    BY <1>4, <2>1
<1>6. L[n] = Ig!NextLevel(L[n - 1])
  BY <1>2, <1>4
<1>7. IsList(L[n]) /\ Len(L[n]) = (Len(L[n - 1]) + 1) \div 2
  BY <1>5, <1>6, NextLevelIs
<1>8. Len(L[n - 1]) \in Nat /\ Len(L[n]) \in Nat
  BY <1>5, <1>7 DEF IsList
<1>9. Good(n)
  <2>1. Len(L[n]) >= 1 /\ (Len(L[n]) = 1 \/ Len(L[n]) <= Len(level) - n)
    BY <1>0, <1>4, <1>5, <1>7, <1>8, HalfIsLess
  <2>2. QED
    BY <1>7, <2>1
<1>10. QED
  BY <1>1, <1>9

\* The root is on the first that has.
LEMMA HeightIs ==
  ASSUME NEW level, IsList(level), Len(level) >= 1
  PROVE  Ig!Height(level) \in 0..Len(level) /\ Len(Ig!Levels(level)[Ig!Height(level)]) = 1
<1> DEFINE L == Ig!Levels(level)
           Low == {n \in 0..Len(level) : Len(L[n]) <= 1}
<1>0. Len(level) \in Nat
  BY DEF IsList
<1>1. \A n \in 0..Len(level) : /\ IsList(L[n]) /\ Len(L[n]) >= 1 /\ Len(L[n]) \in Nat
                               /\ Len(L[n]) = 1 \/ Len(L[n]) <= Len(level) - n
  BY LevelsShrink DEF IsList
<1> HIDE DEF L
<1>2. Len(level) \in Low
  <2>1. Len(level) \in 0..Len(level) /\ Len(level) - Len(level) = 0
    BY <1>0
  <2>2. Len(L[Len(level)]) \in Nat /\ (Len(L[Len(level)]) = 1 \/ Len(L[Len(level)]) <= 0)
    BY <1>1, <2>1
  <2>3. Len(L[Len(level)]) <= 1
    <3> DEFINE x == Len(L[Len(level)])
    <3>1. x \in Nat /\ (x = 1 \/ x <= 0)
      BY <2>2
    <3> HIDE DEF x
    <3>2. x <= 1
      BY <3>1
    <3>3. QED
      BY <3>2 DEF x
  <2>4. QED
    BY <2>1, <2>3
<1>3. PICK h \in Low : \A n \in Low : h <= n
  <2>1. Low \in SUBSET Nat
    BY <1>0
  <2> HIDE DEF Low
  <2>2. QED
    BY <1>2, <2>1, SmallestNumber
<1>4. \A k \in 0..(h - 1) : Len(L[k]) > 1
  <2> SUFFICES ASSUME NEW k \in 0..(h - 1) PROVE Len(L[k]) > 1
    OBVIOUS
  <2>1. k \in 0..Len(level) /\ ~(h <= k)
    BY <1>0, <1>3
  <2>2. k \notin Low
    <3> HIDE DEF Low
    <3>1. QED
      BY <1>3, <2>1
  <2>3. QED
    BY <1>1, <2>1, <2>2
<1>5. Ig!Height(level) \in 0..Len(level) /\ Len(L[Ig!Height(level)]) <= 1
  <2> DEFINE Is(n) == Len(L[n]) <= 1 /\ \A k \in 0..(n - 1) : Len(L[k]) > 1
  <2>1. h \in 0..Len(level) /\ Is(h)
    BY <1>3, <1>4
  <2>2. Ig!Height(level) = CHOOSE n \in 0..Len(level) : Is(n)
    BY DEF Ig!Height, L
  <2>3. Ig!Height(level) \in 0..Len(level) /\ Is(Ig!Height(level))
    <3> HIDE DEF Is
    <3>1. QED
      BY <2>1, <2>2
  <2>4. QED
    BY <2>3
<1> HIDE DEF Low
<1>6. Len(L[Ig!Height(level)]) = 1
  <2>1. Len(L[Ig!Height(level)]) \in Nat /\ Len(L[Ig!Height(level)]) >= 1
    BY <1>1, <1>5
  <2> DEFINE x == Len(L[Ig!Height(level)])
  <2>2. x \in Nat /\ x >= 1 /\ x <= 1
    BY <1>5, <2>1
  <2> HIDE DEF x
  <2>3. x = 1
    BY <2>2
  <2>4. QED
    BY <2>3 DEF x
<1>7. QED
  BY <1>5, <1>6 DEF L

\* A node and the sibling that the proof gives make the node above them.
LEMMA OneUp ==
  ASSUME NEW level, IsList(level), NEW i \in 1..Len(level)
  PROVE  /\ (i + 1) \div 2 \in 1..Len(Ig!NextLevel(level))
         /\ Ig!NextLevel(level)[(i + 1) \div 2] = Ig!Up(level[i], Ig!Sibling(level, i))
<1> DEFINE k == (i + 1) \div 2
           m == (Len(level) + 1) \div 2
<1>0. Len(level) \in Nat
  BY DEF IsList
<1>1. k \in 1..m /\ m \in Nat
  BY <1>0
<1>2. Len(Ig!NextLevel(level)) = m
  BY NextLevelIs
<1>3. Ig!NextLevel(level)[k] = Ig!Node(level[2 * k - 1], Ig!Right(level, 2 * k - 1))
  BY <1>1 DEF Ig!NextLevel
<1>4. CASE i % 2 = 1
  <2>1. i = 2 * k - 1
    BY <1>4
  <2>2. Ig!Sibling(level, i) = [hash |-> Ig!Right(level, i), direction |-> "right"]
    BY <1>4 DEF Ig!Sibling, Ig!Right
  <2>3. Ig!Up(level[i], Ig!Sibling(level, i)) = Ig!Node(level[i], Ig!Right(level, i))
    BY <2>2 DEF Ig!Up
  <2> HIDE DEF k, m
  <2>4. Ig!NextLevel(level)[k] = Ig!Up(level[i], Ig!Sibling(level, i))
    BY <1>3, <2>1, <2>3
  <2>5. QED
    BY <1>1, <1>2, <2>4 DEF k
<1>5. CASE i % 2 # 1
  <2>1. i = 2 * k /\ i - 1 = 2 * k - 1 /\ 2 * k - 1 < Len(level) /\ 2 * k - 1 + 1 = i
    BY <1>0, <1>5
  <2>2. Ig!Right(level, 2 * k - 1) = level[i]
    BY <2>1 DEF Ig!Right
  <2>3. Ig!Sibling(level, i) = [hash |-> level[i - 1], direction |-> "left"]
    BY <1>5 DEF Ig!Sibling
  <2>4. Ig!Up(level[i], Ig!Sibling(level, i)) = Ig!Node(level[i - 1], level[i])
    BY <2>3 DEF Ig!Up
  <2> HIDE DEF k, m
  <2>5. Ig!NextLevel(level)[k] = Ig!Up(level[i], Ig!Sibling(level, i))
    BY <1>3, <2>1, <2>2, <2>4
  <2>6. QED
    BY <1>1, <1>2, <2>5 DEF k
<1>6. QED
  BY <1>4, <1>5

\* So that the proof of a leaf verifies against the root.
LEMMA PathVerifies ==
  ASSUME NEW level, IsList(level), NEW i \in 1..Len(level)
  PROVE  LET path == Ig!PathFrom(level, i)
         IN  Ig!Climbed(level[i], path)[Len(path)] = Ig!RootOf(level)
<1> DEFINE P == Ig!PathFrom(level, i)
           L == Ig!Levels(level)
           A == Ig!Ancestors(level, i)
           C == Ig!Climbed(level[i], P)
           h == Ig!Height(level)
<1>0. Len(level) \in Nat /\ Len(level) >= 1
  BY DEF IsList
<1>1. h \in 0..Len(level) /\ Len(L[h]) = 1
  BY <1>0, HeightIs
<1>2. P = [n \in 1..h |-> Ig!Sibling(L[n - 1], A[n - 1])]
  BY DEF Ig!PathFrom
<1>3. Len(P) = h /\ h \in Nat /\ \A n \in 1..h : P[n] = Ig!Sibling(L[n - 1], A[n - 1])
  <2> HIDE DEF P, h, L, A
  <2>1. h \in Nat /\ P = [n \in 1..h |-> P[n]]
    BY <1>0, <1>1, <1>2
  <2>2. Len(P) = h
    BY <2>1, ListOfLength
  <2>3. QED
    BY <1>2, <2>1, <2>2
<1>4. L[0] = level /\ \A n \in 1..Len(level) : L[n] = Ig!NextLevel(L[n - 1])
  BY <1>0, LevelsAre
<1>5. A[0] = i /\ \A n \in 1..Len(level) : A[n] = (A[n - 1] + 1) \div 2
  BY <1>0, AncestorsAre
<1>6. C[0] = level[i] /\ \A n \in 1..h : C[n] = Ig!Up(C[n - 1], P[n])
  <2> HIDE DEF P, h
  <2>1. Len(P) \in Nat /\ Len(P) = h
    BY <1>3
  <2>2. /\ C[0] = level[i]
        /\ \A n \in 1..Len(P) : C[n] = Ig!Up(C[n - 1], P[n])
    BY <2>1, ClimbedIs
  <2>3. QED
    BY <2>1, <2>2
<1>7. \A n \in 0..Len(level) : IsList(L[n])
  BY <1>0, LevelsShrink
<1>8. Ig!RootOf(level) = L[h][1]
  <2>1. level # <<>>
    BY <1>0
  <2>2. QED
    BY <2>1 DEF Ig!RootOf
<1> HIDE DEF P, L, A, C, h
<1> DEFINE Good(n) == A[n] \in 1..Len(L[n]) /\ C[n] = L[n][A[n]]
           Bad == {n \in 0..h : ~Good(n)}
<1>9. Bad = {}
  <2> SUFFICES ASSUME Bad # {} PROVE FALSE
    OBVIOUS
  <2>1. PICK n \in Bad : \A m \in Bad : n <= m
    <3>1. Bad \in SUBSET Nat
      BY <1>3
    <3> HIDE DEF Bad
    <3>2. QED
      BY <3>1, SmallestNumber
  <2>2. Good(0)
    BY <1>4, <1>5, <1>6
  <2>3. n \in 1..h /\ n - 1 \in 0..h /\ ~(n <= n - 1) /\ n \in 1..Len(level) /\ n - 1 \in 0..Len(level)
    BY <1>0, <1>1, <1>3, <2>1, <2>2
  <2>4. Good(n - 1)
    <3>1. n - 1 \notin Bad
      <4> HIDE DEF Bad
      <4>1. QED
        BY <2>1, <2>3
    <3>2. QED
      BY <2>3, <3>1
  <2>5. /\ L[n] = Ig!NextLevel(L[n - 1]) /\ A[n] = (A[n - 1] + 1) \div 2
        /\ C[n] = Ig!Up(C[n - 1], Ig!Sibling(L[n - 1], A[n - 1])) /\ IsList(L[n - 1])
    BY <1>3, <1>4, <1>5, <1>6, <1>7, <2>3
  <2>6. Good(n)
    BY <2>4, <2>5, OneUp
  <2>7. QED
    BY <2>1, <2>6
<1>10. Good(h)
  BY <1>3, <1>9
<1>11. A[h] = 1
  BY <1>1, <1>10
<1>12. C[Len(P)] = Ig!RootOf(level)
  BY <1>3, <1>8, <1>10, <1>11
<1>13. QED
  BY <1>12 DEF C, P

\* The number of a set of numbers up to each of its members numbers them.
LEMMA RanksNumber ==
  ASSUME NEW S \in SUBSET Nat, IsFiniteSet(S)
  PROVE  /\ \A i \in S : Cardinality({j \in S : j <= i}) \in 1..Cardinality(S)
         /\ \A i, j \in S : Cardinality({k \in S : k <= i}) = Cardinality({k \in S : k <= j}) => i = j
         /\ \A n \in 1..Cardinality(S) : \E i \in S : Cardinality({j \in S : j <= i}) = n
<1> DEFINE Upto(i) == {j \in S : j <= i}
           n == Cardinality(S)
           r == [i \in S |-> Cardinality(Upto(i))]
<1>1. \A i : Upto(i) \in SUBSET S /\ IsFiniteSet(Upto(i)) /\ Cardinality(Upto(i)) \in Nat /\ Cardinality(Upto(i)) <= n
  <2> SUFFICES ASSUME NEW i PROVE IsFiniteSet(Upto(i)) /\ Cardinality(Upto(i)) \in Nat /\ Cardinality(Upto(i)) <= n
    OBVIOUS
  <2>1. Upto(i) \in SUBSET S
    OBVIOUS
  <2> HIDE DEF Upto
  <2>2. QED
    BY <2>1, FS_Subset, FS_CardinalityType
<1>2. n \in Nat
  BY FS_CardinalityType
<1>3. ASSUME NEW i \in S PROVE Cardinality(Upto(i)) # 0
  <2>1. i \in Upto(i)
    OBVIOUS
  <2> HIDE DEF Upto
  <2>2. QED
    BY <1>1, <2>1, FS_EmptySet
<1>4. ASSUME NEW i \in S, NEW j \in S, Cardinality(Upto(i)) = Cardinality(Upto(j)), i < j PROVE FALSE
  <2>0. i \in Nat /\ j \in Nat /\ \A k \in S : k \in Nat
    OBVIOUS
  <2>1. \A k \in S : k <= i => k <= j
    BY <1>4, <2>0
  <2>2. Upto(i) \in SUBSET Upto(j)
    BY <2>1
  <2>3. j \in Upto(j) /\ j \notin Upto(i)
    BY <1>4, <2>0
  <2> HIDE DEF Upto
  <2>4. IsFiniteSet(Upto(j)) /\ Upto(i) # Upto(j)
    BY <1>1, <2>3
  <2>5. QED
    BY <1>4, <2>2, <2>4, FS_Subset
<1> HIDE DEF Upto
<1>5. \A i, j \in S : Cardinality(Upto(i)) = Cardinality(Upto(j)) => i = j
  <2> SUFFICES ASSUME NEW i \in S, NEW j \in S, Cardinality(Upto(i)) = Cardinality(Upto(j)), i # j PROVE FALSE
    OBVIOUS
  <2>1. i < j \/ j < i
    OBVIOUS
  <2>2. QED
    BY <1>4, <2>1
<1> HIDE DEF n
<1>6. \A i \in S : Cardinality(Upto(i)) \in 1..n
  <2> SUFFICES ASSUME NEW i \in S PROVE Cardinality(Upto(i)) \in 1..n
    OBVIOUS
  <2>1. Cardinality(Upto(i)) \in Nat /\ Cardinality(Upto(i)) # 0 /\ Cardinality(Upto(i)) <= n
    BY <1>1, <1>3
  <2>2. QED
    BY <1>2, <2>1
<1>7. r \in Injection(S, 1..n)
  BY <1>5, <1>6 DEF Injection, IsInjective
<1>8. IsFiniteSet(1..n) /\ Cardinality(1..n) = n
  BY <1>2, FS_Interval
<1>9. r \in Surjection(S, 1..n)
  BY <1>7, <1>8, FS_Injection DEF n
<1>10. \A k \in 1..n : \E i \in S : Cardinality(Upto(i)) = k
  BY <1>9 DEF Surjection
<1>11. QED
  BY <1>5, <1>6, <1>10 DEF Upto, n

\* Where each of the active leaves is: at another position, and at every position that
\* is not that of a removed leaf.
Placing(f, s) ==
  /\ f \in [1..Len(Ig!Active(s)) -> Ig!Positions(s)]
  /\ \A k \in 1..Len(Ig!Active(s)) : Ig!Active(s)[k] = s[f[k]]
  /\ \A k, l \in 1..Len(Ig!Active(s)) : f[k] = f[l] => k = l
  /\ \A i \in Ig!Positions(s) : \E k \in 1..Len(Ig!Active(s)) : f[k] = i

\* The sizes the tree's module speaks of are those the lemmas are about.
LEMMA TreeCount == ASSUME NEW S PROVE Ig!Cardinality(S) = Cardinality(S)
BY DEF Ig!Cardinality, Cardinality

\* The active leaves are a list, and are placed among the leaves.
LEMMA ActiveIs ==
  ASSUME NEW S, NEW s \in Seq(S)
  PROVE  IsList(Ig!Active(s)) /\ \E f : Placing(f, s)
<1> DEFINE P == Ig!Positions(s)
           n == Cardinality(P)
           R(i) == Cardinality({j \in P : j <= i})
           A == Ig!Active(s)
           f == [k \in 1..n |-> CHOOSE i \in P : R(i) = k]
<1>1. P \in SUBSET Nat /\ IsFiniteSet(P)
  <2>1. P \in SUBSET (1..Len(s)) /\ Len(s) \in Nat
    BY DEF Ig!Positions
  <2>2. IsFiniteSet(1..Len(s))
    BY <2>1, FS_Interval
  <2> HIDE DEF P
  <2>3. IsFiniteSet(P)
    BY <2>1, <2>2, FS_Subset
  <2>4. 1..Len(s) \in SUBSET Nat
    BY <2>1
  <2>5. QED
    BY <2>1, <2>3, <2>4
<1>2. A = [k \in 1..n |-> s[CHOOSE i \in P : R(i) = k]]
  <2>1. \A i : Ig!Rank(s, i) = R(i)
    BY TreeCount DEF Ig!Rank
  <2>2. Ig!Cardinality(P) = n
    BY TreeCount
  <2> HIDE DEF R, n
  <2>3. A = [k \in 1..n |-> s[CHOOSE i \in P : Ig!Rank(s, i) = k]]
    BY <2>2 DEF Ig!Active
  <2>4. QED
    BY <2>1, <2>3
<1> HIDE DEF P, A
<1>3. /\ \A i \in P : R(i) \in 1..n
      /\ \A i, j \in P : R(i) = R(j) => i = j
      /\ \A k \in 1..n : \E i \in P : R(i) = k
  BY <1>1, RanksNumber
<1>4. n \in Nat
  BY <1>1, FS_CardinalityType
<1> HIDE DEF R, n
<1>5. \A k \in 1..n : f[k] \in P /\ R(f[k]) = k
  BY <1>3
<1>6. A = [k \in 1..n |-> A[k]] /\ \A k \in 1..n : A[k] = s[f[k]]
  BY <1>2
<1> HIDE DEF f
<1>7. Len(A) = n /\ IsList(A)
  BY <1>4, <1>6, ListOfLength
<1>8. f \in [1..n -> P]
  BY <1>5 DEF f
<1>9. \A i \in P : \E k \in 1..n : f[k] = i
  BY <1>3, <1>5
<1>10. Placing(f, s)
  BY <1>5, <1>6, <1>7, <1>8, <1>9 DEF Placing, P, A
<1>11. QED
  BY <1>7, <1>10 DEF A

LeafState ==
  [hash : {"leaf"} \X Nat \X MemoryIds \X Contents, memoryId : MemoryIds, index : Nat]

\* Every active leaf is where the map says its memory is, no two have one hash, and the
\* set of hashes is theirs.
TreeInv ==
  /\ leaves \in Seq(LeafState \cup {Ig!Removed})
  /\ leafMap \in [MemoryIds -> Nat]
  /\ \A m \in MemoryIds : leafMap[m] # 0 =>
       leafMap[m] \in Ig!Positions(leaves) /\ leaves[leafMap[m]].memoryId = m
  /\ \A i \in Ig!Positions(leaves) : leafMap[leaves[i].memoryId] = i
  /\ \A i, j \in Ig!Positions(leaves) : leaves[i].hash = leaves[j].hash => i = j
  /\ hashSet = {leaves[i].hash : i \in Ig!Positions(leaves)}

\* What is at an active position is a leaf, and a leaf is not one that was removed.
LEMMA LeafActive ==
  ASSUME IntegrityAssumption, NEW s \in Seq(LeafState \cup {Ig!Removed})
  PROVE  /\ \A i \in Ig!Positions(s) : i \in 1..Len(s) /\ s[i] \in LeafState
         /\ \A l \in LeafState : l # Ig!Removed
<1>1. \A l \in LeafState : l.memoryId # Ig!Removed.memoryId
  BY DEF LeafState, Ig!Removed, IntegrityAssumption
<1>2. QED
  BY <1>1 DEF Ig!Positions

\* So the proof of every memory verifies, and the tree is valid.
LEMMA TreeVerifies ==
  ASSUME IntegrityAssumption, TreeInv PROVE Ig!ProofsVerify
<1> DEFINE A == Ig!Active(leaves)
           H == Ig!Hashes(leaves)
           P == Ig!Positions(leaves)
<1>1. leaves \in Seq(LeafState \cup {Ig!Removed})
  BY DEF TreeInv
<1>2. IsList(A) /\ \E f : Placing(f, leaves)
  BY <1>1, ActiveIs
<1>3. PICK f : Placing(f, leaves)
  BY <1>2
<1>4. H = [k \in 1..Len(A) |-> A[k].hash] /\ Len(A) \in Nat
  BY <1>2 DEF Ig!Hashes, IsList
<1>5. Len(H) = Len(A) /\ IsList(H) /\ \A k \in 1..Len(A) : H[k] = A[k].hash
  <2> HIDE DEF H, A
  <2>1. H = [k \in 1..Len(A) |-> H[k]]
    BY <1>4
  <2>2. QED
    BY <1>4, <2>1, ListOfLength
<1>6. DOMAIN A = 1..Len(A)
  BY <1>2 DEF IsList
<1> HIDE DEF A, H, P
<1>7. /\ f \in [1..Len(A) -> P]
      /\ \A k \in 1..Len(A) : A[k] = leaves[f[k]]
      /\ \A k, l \in 1..Len(A) : f[k] = f[l] => k = l
      /\ \A i \in P : \E k \in 1..Len(A) : f[k] = i
  BY <1>3 DEF Placing, A, P
<1>8. /\ \A m \in MemoryIds : leafMap[m] # 0 => leafMap[m] \in P /\ leaves[leafMap[m]].memoryId = m
      /\ \A i \in P : leafMap[leaves[i].memoryId] = i
      /\ \A i, j \in P : leaves[i].hash = leaves[j].hash => i = j
  BY DEF TreeInv, P
<1>9. Ig!TreeIsValid
  <2>1. \A i, j \in 1..Len(A) : A[i].hash = A[j].hash => i = j
    BY <1>7, <1>8
  <2>2. QED
    BY <1>6, <1>8, <2>1 DEF Ig!TreeIsValid, A
<1>10. ASSUME NEW m \in MemoryIds, leafMap[m] # 0 PROVE Ig!VerifyProof(Ig!GetProof(m))
  <2> DEFINE Is(i) == A[i].memoryId = m
             k == CHOOSE i \in 1..Len(A) : Is(i)
             path == Ig!PathFrom(H, k)
  <2>1. \E i \in 1..Len(A) : Is(i)
    BY <1>7, <1>8, <1>10
  <2>2. k \in 1..Len(A) /\ Is(k)
    BY <2>1
  <2>3. Ig!GetProof(m) = [leafHash |-> leaves[leafMap[m]].hash, path |-> path, rootHash |-> Ig!RootOf(H)]
    BY <1>6 DEF Ig!GetProof, Ig!Root, A, H
  <2> HIDE DEF k
  <2>4. f[k] = leafMap[m]
    <3>1. f[k] \in P /\ leaves[f[k]].memoryId = m
      BY <1>7, <2>2
    <3>2. QED
      BY <1>8, <3>1
  <2>5. leaves[leafMap[m]].hash = H[k]
    BY <1>5, <1>7, <2>2, <2>4
  <2>6. Ig!Climbed(H[k], path)[Len(path)] = Ig!RootOf(H)
    BY <1>5, <2>2, PathVerifies
  <2> HIDE DEF path
  <2>7. QED
    BY <2>3, <2>5, <2>6 DEF Ig!VerifyProof
<1>11. QED
  BY <1>9, <1>10 DEF Ig!ProofsVerify

\* The empty tree is in step.
LEMMA TreeInit == Ig!Init => TreeInv
<1> SUFFICES ASSUME Ig!Init PROVE TreeInv
  OBVIOUS
<1>1. leaves = <<>> /\ leafMap = [m \in MemoryIds |-> 0] /\ hashSet = {}
  BY DEF Ig!Init
<1>2. Ig!Positions(leaves) = {} /\ leaves \in Seq(LeafState \cup {Ig!Removed})
  BY <1>1 DEF Ig!Positions
<1>3. QED
  BY <1>1, <1>2 DEF TreeInv

\* Without the leaf of a memory, only that leaf is gone, and its hash.
LEMMA WithoutIs ==
  ASSUME IntegrityAssumption, TreeInv, NEW m \in MemoryIds
  PROVE  LET W == Ig!Without(leaves, m)
         IN  /\ W \in Seq(LeafState \cup {Ig!Removed}) /\ Len(W) = Len(leaves)
             /\ Ig!Positions(W) = {i \in Ig!Positions(leaves) : leaves[i].memoryId # m}
             /\ \A i \in Ig!Positions(W) : W[i] = leaves[i]
             /\ Ig!LessHash(m) = {W[i].hash : i \in Ig!Positions(W)}
<1> DEFINE W == Ig!Without(leaves, m)
           S == LeafState \cup {Ig!Removed}
           P == Ig!Positions(leaves)
           Q == {i \in P : leaves[i].memoryId # m}
<1>1. /\ leaves \in Seq(S) /\ leafMap \in [MemoryIds -> Nat]
      /\ \A x \in MemoryIds : leafMap[x] # 0 => leafMap[x] \in P /\ leaves[leafMap[x]].memoryId = x
      /\ \A i \in P : leafMap[leaves[i].memoryId] = i
      /\ \A i, j \in P : leaves[i].hash = leaves[j].hash => i = j
      /\ hashSet = {leaves[i].hash : i \in P}
  BY DEF TreeInv
<1>2. \A i \in P : i \in 1..Len(leaves) /\ leaves[i] \in LeafState
  BY <1>1, LeafActive
<1>3. CASE leafMap[m] = 0
  <2>1. W = leaves /\ Ig!LessHash(m) = hashSet
    BY <1>3 DEF Ig!Without, Ig!LessHash
  <2>2. \A i \in P : i # 0
    BY <1>2
  <2>3. \A i \in P : leaves[i].memoryId # m
    BY <1>1, <1>3, <2>2
  <2>4. Ig!Positions(W) = Q
    BY <2>1, <2>3
  <2>5. QED
    BY <1>1, <2>1, <2>3, <2>4
<1>4. CASE leafMap[m] # 0
  <2> DEFINE o == leafMap[m]
  <2>1. W = [leaves EXCEPT ![o] = Ig!Removed] /\ Ig!LessHash(m) = hashSet \ {leaves[o].hash}
    BY <1>4 DEF Ig!Without, Ig!LessHash
  <2>2. o \in P /\ leaves[o].memoryId = m /\ o \in 1..Len(leaves)
    BY <1>1, <1>2, <1>4
  <2>3. \A i \in P : leaves[i].memoryId = m <=> i = o
    BY <1>1, <2>2
  <2> HIDE DEF o
  <2>4. Ig!Removed \in S
    OBVIOUS
  <2> HIDE DEF S
  <2>5. W \in Seq(S) /\ Len(W) = Len(leaves) /\ DOMAIN W = DOMAIN leaves
    BY <1>1, <2>1, <2>2, <2>4
  <2>6. \A i \in DOMAIN leaves : W[i] = IF i = o THEN Ig!Removed ELSE leaves[i]
    BY <1>1, <2>1
  <2>7. Ig!Positions(W) = Q
    BY <2>2, <2>3, <2>5, <2>6 DEF Ig!Positions
  <2>8. \A i \in Q : W[i] = leaves[i]
    BY <2>3, <2>6 DEF Ig!Positions
  <2>9. Ig!LessHash(m) = {leaves[i].hash : i \in Q}
    BY <1>1, <2>1, <2>2, <2>3
  <2>10. {W[i].hash : i \in Q} = {leaves[i].hash : i \in Q}
    BY <2>8
  <2>11. QED
    BY <2>5, <2>7, <2>8, <2>9, <2>10 DEF S
<1>5. QED
  BY <1>3, <1>4

\* A removal keeps the tree in step,
LEMMA RemoveLeafStep ==
  ASSUME IntegrityAssumption, TreeInv, NEW m \in MemoryIds, Ig!RemoveLeaf(m) PROVE TreeInv'
<1> DEFINE P == Ig!Positions(leaves)
           Q == Ig!Positions(leaves')
<1>1. /\ leaves' = Ig!Without(leaves, m) /\ leafMap' = [leafMap EXCEPT ![m] = 0]
      /\ hashSet' = Ig!LessHash(m)
  BY DEF Ig!RemoveLeaf
<1>2. /\ leaves' \in Seq(LeafState \cup {Ig!Removed})
      /\ Q = {i \in P : leaves[i].memoryId # m}
      /\ \A i \in Q : leaves'[i] = leaves[i]
      /\ hashSet' = {leaves'[i].hash : i \in Q}
  BY <1>1, WithoutIs
<1>3. /\ leafMap \in [MemoryIds -> Nat]
      /\ \A x \in MemoryIds : leafMap[x] # 0 => leafMap[x] \in P /\ leaves[leafMap[x]].memoryId = x
      /\ \A i \in P : leafMap[leaves[i].memoryId] = i
      /\ \A i, j \in P : leaves[i].hash = leaves[j].hash => i = j
  BY DEF TreeInv
<1>4. \A i \in P : leaves[i] \in LeafState /\ leaves[i].memoryId \in MemoryIds
  BY LeafActive DEF TreeInv, LeafState
<1> HIDE DEF P, Q
<1>5. leafMap' \in [MemoryIds -> Nat]
  BY <1>1, <1>3
<1>6. \A x \in MemoryIds : leafMap'[x] = IF x = m THEN 0 ELSE leafMap[x]
  BY <1>1, <1>3
<1>7. \A x \in MemoryIds : leafMap'[x] # 0 => leafMap'[x] \in Q /\ leaves'[leafMap'[x]].memoryId = x
  BY <1>2, <1>3, <1>6
<1>8. \A i \in Q : leafMap'[leaves'[i].memoryId] = i
  BY <1>2, <1>3, <1>4, <1>6
<1>9. \A i, j \in Q : leaves'[i].hash = leaves'[j].hash => i = j
  BY <1>2, <1>3
<1>10. QED
  BY <1>2, <1>5, <1>7, <1>8, <1>9 DEF TreeInv, Q, Ig!Positions, Ig!Removed

\* as does an addition or an update, whose hash is a new one,
LEMMA AddLeafStep ==
  ASSUME IntegrityAssumption, TreeInv, NEW m \in MemoryIds, NEW content \in Contents,
         Ig!AddLeaf(m, content)
  PROVE  TreeInv'
<1> DEFINE P == Ig!Positions(leaves)
           W == Ig!Without(leaves, m)
           R == Ig!Positions(W)
           S == LeafState \cup {Ig!Removed}
           n == Len(leaves)
           hash == Ig!LeafHash(n, m, content)
           leaf == [hash |-> hash, memoryId |-> m, index |-> n]
           Q == Ig!Positions(leaves')
<1>1. /\ hash \notin hashSet /\ leaves' = Append(W, leaf)
      /\ leafMap' = [leafMap EXCEPT ![m] = n + 1]
      /\ hashSet' = Ig!LessHash(m) \cup {hash}
  BY DEF Ig!AddLeaf
<1>2. /\ W \in Seq(S) /\ Len(W) = n
      /\ R = {i \in P : leaves[i].memoryId # m}
      /\ \A i \in R : W[i] = leaves[i]
      /\ Ig!LessHash(m) = {W[i].hash : i \in R}
  BY WithoutIs
<1>3. /\ leaves \in Seq(S) /\ leafMap \in [MemoryIds -> Nat]
      /\ \A x \in MemoryIds : leafMap[x] # 0 => leafMap[x] \in P /\ leaves[leafMap[x]].memoryId = x
      /\ \A i \in P : leafMap[leaves[i].memoryId] = i
      /\ \A i, j \in P : leaves[i].hash = leaves[j].hash => i = j
      /\ hashSet = {leaves[i].hash : i \in P}
  BY DEF TreeInv
<1>4. \A i \in P : i \in 1..n /\ leaves[i] \in LeafState /\ leaves[i].memoryId \in MemoryIds
  BY LeafActive DEF TreeInv, LeafState
<1>5. n \in Nat
  BY <1>3
<1>6. leaf \in LeafState /\ leaf # Ig!Removed
  <2>1. leaf \in LeafState
    BY <1>5 DEF LeafState, Ig!LeafHash
  <2>2. QED
    BY <1>3, <2>1, LeafActive
<1>7. leaf.hash = hash /\ leaf.memoryId = m
  OBVIOUS
<1> HIDE DEF leaf, hash, S, W
<1>8. leaves' \in Seq(S) /\ DOMAIN leaves' = DOMAIN W \cup {n + 1}
      /\ n + 1 \notin DOMAIN W
  BY <1>1, <1>2, <1>5, <1>6 DEF S
<1>9. /\ \A i \in DOMAIN W : leaves'[i] = W[i]
      /\ leaves'[n + 1] = leaf
  BY <1>1, <1>2, <1>5, <1>6 DEF S
<1>10. Q = R \cup {n + 1}
  BY <1>6, <1>8, <1>9 DEF Ig!Positions
<1>11. R \in SUBSET DOMAIN W
  BY DEF Ig!Positions
<1> HIDE DEF P, Q, R
<1>12. \A i \in R : leaves'[i] = leaves[i] /\ i \in P /\ i # n + 1 /\ leaves[i].memoryId # m
  BY <1>2, <1>8, <1>9, <1>11
<1>13. leafMap' \in [MemoryIds -> Nat] /\ n + 1 # 0
  <2>1. n + 1 \in Nat /\ n + 1 # 0
    BY <1>5
  <2> HIDE DEF n
  <2>2. QED
    BY <1>1, <1>3, <2>1
<1> HIDE DEF n
<1>14. \A x \in MemoryIds : leafMap'[x] = IF x = m THEN n + 1 ELSE leafMap[x]
  BY <1>1, <1>3
<1>15. \A x \in MemoryIds : leafMap'[x] # 0 => leafMap'[x] \in Q /\ leaves'[leafMap'[x]].memoryId = x
  BY <1>2, <1>3, <1>7, <1>9, <1>10, <1>12, <1>14
<1>16. \A i \in Q : leafMap'[leaves'[i].memoryId] = i
  BY <1>3, <1>4, <1>7, <1>9, <1>10, <1>12, <1>14
<1>17. \A i \in R : leaves'[i].hash # hash
  <2>1. \A i \in P : leaves[i].hash \in hashSet
    BY <1>3
  <2>2. \A i \in R : leaves'[i].hash \in hashSet
    BY <1>12, <2>1
  <2>3. QED
    BY <1>1, <2>2
<1>18. \A i, j \in Q : leaves'[i].hash = leaves'[j].hash => i = j
  BY <1>3, <1>7, <1>9, <1>10, <1>12, <1>17
<1>19. hashSet' = {leaves'[i].hash : i \in Q}
  <2>1. \A h : h \in hashSet' <=> h = hash \/ \E i \in R : h = W[i].hash
    BY <1>1, <1>2
  <2>2. \A i \in R : leaves'[i].hash = W[i].hash
    BY <1>9, <1>11
  <2>3. leaves'[n + 1].hash = hash
    BY <1>7, <1>9
  <2>4. \A h : h \in hashSet' <=> \E i \in Q : h = leaves'[i].hash
    BY <1>10, <2>1, <2>2, <2>3
  <2>5. QED
    BY <2>4
<1>20. QED
  BY <1>8, <1>13, <1>15, <1>16, <1>18, <1>19 DEF TreeInv, Q, S, Ig!Positions, Ig!Removed

\* and a rebuild, which renumbers the active leaves;
LEMMA RebuildStep ==
  ASSUME IntegrityAssumption, TreeInv, Ig!Rebuild PROVE TreeInv'
<1> DEFINE P == Ig!Positions(leaves)
           A == Ig!Active(leaves)
           n == Len(A)
           S == LeafState \cup {Ig!Removed}
           Q == Ig!Positions(leaves')
<1>1. /\ leaves' = [i \in DOMAIN A |-> [A[i] EXCEPT !.index = i - 1]]
      /\ leafMap' = Ig!MapOf(A) /\ hashSet' = hashSet
  BY DEF Ig!Rebuild
<1>2. /\ leaves \in Seq(S) /\ leafMap \in [MemoryIds -> Nat]
      /\ \A x \in MemoryIds : leafMap[x] # 0 => leafMap[x] \in P /\ leaves[leafMap[x]].memoryId = x
      /\ \A i \in P : leafMap[leaves[i].memoryId] = i
      /\ \A i, j \in P : leaves[i].hash = leaves[j].hash => i = j
      /\ hashSet = {leaves[i].hash : i \in P}
  BY DEF TreeInv
<1>3. \A i \in P : leaves[i] \in LeafState /\ leaves[i].memoryId \in MemoryIds
  BY LeafActive DEF TreeInv, LeafState
<1>4. IsList(A) /\ \E f : Placing(f, leaves)
  BY <1>2, ActiveIs
<1>5. PICK f : Placing(f, leaves)
  BY <1>4
<1>6. n \in Nat /\ DOMAIN A = 1..n
  BY <1>4 DEF IsList
<1> HIDE DEF A, P, n
<1>7. /\ f \in [1..n -> P]
      /\ \A k \in 1..n : A[k] = leaves[f[k]]
      /\ \A k, l \in 1..n : f[k] = f[l] => k = l
      /\ \A i \in P : \E k \in 1..n : f[k] = i
  BY <1>5 DEF Placing, A, P, n
<1>8. \A k \in 1..n : A[k] \in LeafState /\ f[k] \in P
  BY <1>3, <1>7
<1>9. \A k \in 1..n : /\ leaves'[k] \in LeafState
                      /\ leaves'[k].hash = A[k].hash /\ leaves'[k].memoryId = A[k].memoryId
  <2> SUFFICES ASSUME NEW k \in 1..n
               PROVE  /\ leaves'[k] \in LeafState
                      /\ leaves'[k].hash = A[k].hash /\ leaves'[k].memoryId = A[k].memoryId
    OBVIOUS
  <2>1. leaves'[k] = [A[k] EXCEPT !.index = k - 1] /\ k - 1 \in Nat
    BY <1>1, <1>6
  <2>2. A[k] \in LeafState
    BY <1>8
  <2>3. QED
    BY <2>1, <2>2 DEF LeafState
<1>10. DOMAIN leaves' = 1..n /\ leaves' \in [1..n -> S]
  BY <1>1, <1>6, <1>9
<1>11. leaves' \in Seq(S)
  BY <1>6, <1>10
<1>12. Q = 1..n
  <2>1. \A l \in LeafState : l # Ig!Removed
    BY <1>2, LeafActive
  <2>2. QED
    BY <1>9, <1>10, <2>1 DEF Ig!Positions
<1> HIDE DEF Q, S
<1> DEFINE Is(i, x) == A[i].memoryId = x
<1>13. \A x \in MemoryIds : leafMap'[x] = IF \E i \in 1..n : Is(i, x) THEN CHOOSE i \in 1..n : Is(i, x) ELSE 0
  BY <1>1, <1>6 DEF Ig!MapOf
<1>14. \A k \in 1..n : A[k].memoryId \in MemoryIds /\ leafMap[A[k].memoryId] = f[k]
  BY <1>2, <1>3, <1>7
<1>15. \A k, l \in 1..n : A[k].memoryId = A[l].memoryId => k = l
  BY <1>7, <1>14
<1>16. \A x \in MemoryIds : leafMap'[x] # 0 => leafMap'[x] \in 1..n /\ Is(leafMap'[x], x)
  <2> SUFFICES ASSUME NEW x \in MemoryIds, leafMap'[x] # 0
               PROVE  leafMap'[x] \in 1..n /\ Is(leafMap'[x], x)
    OBVIOUS
  <2> HIDE DEF Is
  <2>1. \E i \in 1..n : Is(i, x)
    BY <1>13
  <2>2. leafMap'[x] = CHOOSE i \in 1..n : Is(i, x)
    BY <1>13, <2>1
  <2>3. QED
    BY <2>1, <2>2
<1>17. \A k \in 1..n : leafMap'[A[k].memoryId] = k
  <2> SUFFICES ASSUME NEW k \in 1..n PROVE leafMap'[A[k].memoryId] = k
    OBVIOUS
  <2>1. Is(k, A[k].memoryId)
    OBVIOUS
  <2> DEFINE c == CHOOSE i \in 1..n : Is(i, A[k].memoryId)
  <2>2. leafMap'[A[k].memoryId] = c
    <3> HIDE DEF Is
    <3>1. QED
      BY <1>13, <1>14, <2>1
  <2>3. c \in 1..n /\ Is(c, A[k].memoryId)
    BY <2>1
  <2> HIDE DEF c
  <2>4. c = k
    BY <1>15, <2>3
  <2>5. QED
    BY <2>2, <2>4
<1>18. leafMap' \in [MemoryIds -> Nat]
  <2>1. leafMap' = [x \in MemoryIds |-> leafMap'[x]]
    BY <1>1 DEF Ig!MapOf
  <2>2. 1..n \in SUBSET Nat /\ 0 \in Nat
    BY <1>6
  <2>3. \A x \in MemoryIds : leafMap'[x] \in Nat
    BY <1>16, <2>2
  <2>4. QED
    BY <2>1, <2>3
<1>19. \A x \in MemoryIds : leafMap'[x] # 0 => leafMap'[x] \in Q /\ leaves'[leafMap'[x]].memoryId = x
  BY <1>9, <1>12, <1>16
<1>20. \A i \in Q : leafMap'[leaves'[i].memoryId] = i
  BY <1>9, <1>12, <1>17
<1>21. \A i, j \in Q : leaves'[i].hash = leaves'[j].hash => i = j
  BY <1>2, <1>7, <1>8, <1>9, <1>12
<1>22. hashSet' = {leaves'[i].hash : i \in Q}
  <2>1. \A i \in P : \E k \in Q : leaves[i].hash = leaves'[k].hash
    BY <1>7, <1>9, <1>12
  <2>2. \A k \in Q : \E i \in P : leaves[i].hash = leaves'[k].hash
    BY <1>7, <1>8, <1>9, <1>12
  <2>3. \A h : h \in hashSet' <=> \E i \in P : h = leaves[i].hash
    BY <1>1, <1>2
  <2>4. \A h : h \in hashSet' <=> \E i \in Q : h = leaves'[i].hash
    BY <2>1, <2>2, <2>3
  <2>5. QED
    BY <2>4
<1>23. QED
  BY <1>11, <1>18, <1>19, <1>20, <1>21, <1>22 DEF TreeInv, Q, S, Ig!Positions, Ig!Removed

\* the other steps leave the tree alone.
LEMMA TreeStep ==
  ASSUME IntegrityAssumption, TreeInv, [Ig!Next]_(Ig!vars) PROVE TreeInv'
<1>1. CASE UNCHANGED <<leaves, leafMap, hashSet>>
  BY <1>1 DEF TreeInv, Ig!Positions, Ig!Removed
<1>2. CASE \E m \in MemoryIds : Ig!RemoveLeaf(m)
  BY <1>2, RemoveLeafStep
<1>3. CASE \E m \in MemoryIds, content \in Contents : Ig!AddLeaf(m, content)
  BY <1>3, AddLeafStep
<1>4. CASE Ig!Rebuild
  BY <1>4, RebuildStep
<1>5. QED
  BY <1>1, <1>2, <1>3, <1>4 DEF Ig!Next, Ig!vars, Ig!Snapshot, Ig!Compare, Ig!IntegrityCheck

\* integrity.ts:211 getProof(), 375 verifyTreeIntegrity(): whatever was added, updated,
\* removed and rebuilt, no two leaves of the tree have one hash, every memory is where
\* the map says, and the proof of each links its leaf to the root.
THEOREM TreesVerify == ASSUME IntegrityAssumption PROVE Ig!Spec => []Ig!ProofsVerify
<1>1. Ig!Init => TreeInv
  BY TreeInit
<1>2. TreeInv /\ [Ig!Next]_(Ig!vars) => TreeInv'
  BY TreeStep
<1>3. TreeInv => Ig!ProofsVerify
  BY TreeVerifies
<1>4. QED
  BY <1>1, <1>2, <1>3, PTL DEF Ig!Spec

-----------------------------------------------------------------------------
(* The services together (Services).                                       *)
(* What holds of a service alone holds of it among the others: the one in  *)
(* focus stays in focus, and each step is one of its steps.                *)

\* A step is one of the service in focus, which stays in focus.
LEMMA OneAtATime ==
  ASSUME [Next]_vars
  PROVE  /\ focus' = focus
         /\ focus = "network" => [Nw!Next]_(Nw!vars)
         /\ focus = "rails" => [Rl!Next]_(Rl!vars)
         /\ focus = "accounts" => [Ac!Next]_(Ac!vars)
         /\ focus = "billing" => [Bl!Next]_(Bl!vars)
         /\ focus = "console" => [St!Next]_(St!vars)
         /\ focus = "brain" => [Br!Next]_(Br!vars)
         /\ focus = "memory" => [Ms!Next]_(Ms!vars)
         /\ focus = "fraud" => [Fg!Next]_(Fg!vars)
         /\ focus = "gateway" => [Gw!Next]_(Gw!vars)
         /\ focus = "storage" => [Sg!Next]_(Sg!vars)
         /\ focus = "llm" => [Lm!Next]_(Lm!vars)
         /\ focus = "checkout" => [Co!Next]_(Co!vars)
         /\ focus = "adaptive" => [Ad!Next]_(Ad!vars)
         /\ focus = "integrity" => [Ig!Next]_(Ig!vars)
         /\ focus = "remote" => [Rc!Next]_(Rc!vars)
BY DEF Next, IdleNext, vars

\* What may be spent is: an agent's deals stay within its token, the holds of a rail
\* within its mandate, and a hold is captured once (network.ts, rails).
THEOREM LimitsAreKept == Spec => []LimitsKept
<1> DEFINE F == focus = "network"
           G == focus = "rails"
<1>1. Init /\ F => Nw!Init
  BY DEF Init
<1>2. [Next]_vars /\ F => F' /\ [Nw!Next]_(Nw!vars)
  BY OneAtATime
<1>3. [Next]_vars /\ ~F => ~F'
  BY OneAtATime
<1>4. Nw!Spec => []((Nw!PaidWithinToken /\ Nw!LockedWhileDealing))
  BY ServicesAssumption, DealsWithinTokens DEF ServicesAssumption
<1>5. F /\ (Nw!PaidWithinToken /\ Nw!LockedWhileDealing) => LimitsKept
  BY DEF LimitsKept
<1>6. Init /\ G => Rl!Init
  BY DEF Init
<1>7. [Next]_vars /\ G => G' /\ [Rl!Next]_(Rl!vars)
  BY OneAtATime
<1>8. [Next]_vars /\ ~G => ~G'
  BY OneAtATime
<1>9. Rl!Spec => []((Rl!CapturedOnce /\ Rl!MandateKept))
  BY ServicesAssumption, MandateHolds DEF ServicesAssumption
<1>10. G /\ (Rl!CapturedOnce /\ Rl!MandateKept) => LimitsKept
  BY DEF LimitsKept
<1>11. ~F /\ ~G => LimitsKept
  BY DEF LimitsKept
<1> HIDE DEF F, G
<1>12. QED
  BY <1>1, <1>2, <1>3, <1>4, <1>5, <1>6, <1>7, <1>8, <1>9, <1>10, <1>11, PTL DEF Spec, Nw!Spec, Rl!Spec

\* Of the emails that hold a code for a brand new account one gets in, whatever else
\* the console's handlers do (dashboard/server.js).
THEOREM AccountsHaveOneClaimant == Spec => []ClaimedByOne
<1> DEFINE F == focus = "accounts"
<1>1. Init /\ F => Ac!Init
  BY DEF Init
<1>2. [Next]_vars /\ F => F' /\ [Ac!Next]_(Ac!vars)
  BY OneAtATime
<1>3. [Next]_vars /\ ~F => ~F'
  BY OneAtATime
<1>4. Ac!Spec => []((Ac!TypeOK /\ Ac!ClaimedByOne))
  BY ServicesAssumption, OneClaims DEF ServicesAssumption
<1>5. F /\ (Ac!TypeOK /\ Ac!ClaimedByOne) => ClaimedByOne
  BY DEF ClaimedByOne
<1>6. ~F => ClaimedByOne
  BY DEF ClaimedByOne
<1> HIDE DEF F
<1>7. QED
  BY <1>1, <1>2, <1>3, <1>4, <1>5, <1>6, PTL DEF Spec, Ac!Spec

\* Provisioning leaves at most one active key, and a paid plan follows a payment
\* (dashboard/server.js).
THEOREM AccountsHaveOneKey == Spec => []ProvisionsOneKey
<1> DEFINE F == focus = "billing"
<1>1. Init /\ F => Bl!Init
  BY DEF Init
<1>2. [Next]_vars /\ F => F' /\ [Bl!Next]_(Bl!vars)
  BY OneAtATime
<1>3. [Next]_vars /\ ~F => ~F'
  BY OneAtATime
<1>4. Bl!Spec => []((Bl!ProvisionsOneKey /\ Bl!PaidPlansArePaid))
  BY ServicesAssumption, OneKeyProvisioned DEF ServicesAssumption
<1>5. F /\ (Bl!ProvisionsOneKey /\ Bl!PaidPlansArePaid) => ProvisionsOneKey
  BY DEF ProvisionsOneKey
<1>6. ~F => ProvisionsOneKey
  BY DEF ProvisionsOneKey
<1> HIDE DEF F
<1>7. QED
  BY <1>1, <1>2, <1>3, <1>4, <1>5, <1>6, PTL DEF Spec, Bl!Spec

\* A change the console's store lacks is being written, is going to be, or the write
\* failed (dashboard/store-driver.js).
THEOREM ConsoleSaves == Spec => []SaveScheduled
<1> DEFINE F == focus = "console"
<1>1. Init /\ F => St!Init
  BY DEF Init
<1>2. [Next]_vars /\ F => F' /\ [St!Next]_(St!vars)
  BY OneAtATime
<1>3. [Next]_vars /\ ~F => ~F'
  BY OneAtATime
<1>4. St!Spec => []St!SaveScheduled
  BY ServicesAssumption, SavesAreScheduled DEF ServicesAssumption
<1>5. F /\ St!SaveScheduled => SaveScheduled
  BY DEF SaveScheduled
<1>6. ~F => SaveScheduled
  BY DEF SaveScheduled
<1> HIDE DEF F
<1>7. QED
  BY <1>1, <1>2, <1>3, <1>4, <1>5, <1>6, PTL DEF Spec, St!Spec

\* The graph of a namespace covers its memories, and its edges cite what both their
\* ends cite (dashboard/server.js).
THEOREM BrainIsCovering == Spec => []GraphCovers
<1> DEFINE F == focus = "brain"
<1>1. Init /\ F => Br!Init
  BY DEF Init
<1>2. [Next]_vars /\ F => F' /\ [Br!Next]_(Br!vars)
  BY OneAtATime
<1>3. [Next]_vars /\ ~F => ~F'
  BY OneAtATime
<1>4. Br!Spec => []Br!GraphCovers
  BY ServicesAssumption, GraphIsCovering DEF ServicesAssumption
<1>5. F /\ Br!GraphCovers => GraphCovers
  BY DEF GraphCovers
<1>6. ~F => GraphCovers
  BY DEF GraphCovers
<1> HIDE DEF F
<1>7. QED
  BY <1>1, <1>2, <1>3, <1>4, <1>5, <1>6, PTL DEF Spec, Br!Spec

\* The charge that repeats another within a minute is not let through, unless the
\* detector has dropped the other's fingerprint; and where a charge comes from never
\* blocks it, unless the country is sanctioned (fraud.ts).
THEOREM ReplaysAreRefused == Spec => []ReplayRefused
<1> DEFINE F == focus = "fraud"
<1>1. Init /\ F => Fg!Init
  BY DEF Init
<1>2. [Next]_vars /\ F => F' /\ [Fg!Next]_(Fg!vars)
  BY OneAtATime
<1>3. [Next]_vars /\ ~F => ~F'
  BY OneAtATime
<1>4. Fg!Spec => []((Fg!ReplayRefused /\ Fg!GeoNeverBlocks))
  BY ServicesAssumption, RepeatsAreRefused DEF ServicesAssumption
<1>5. F /\ (Fg!ReplayRefused /\ Fg!GeoNeverBlocks) => ReplayRefused
  BY DEF ReplayRefused
<1>6. ~F => ReplayRefused
  BY DEF ReplayRefused
<1> HIDE DEF F
<1>7. QED
  BY <1>1, <1>2, <1>3, <1>4, <1>5, <1>6, PTL DEF Spec, Fg!Spec

\* A request spends the wallet of its tenant, under the mandate the tenant was told
\* (mcp/server.ts).
THEOREM TenantsAreKeptApart == Spec => []TenantsKeptApart
<1> DEFINE F == focus = "gateway"
<1>1. Init /\ F => Gw!Init
  BY DEF Init
<1>2. [Next]_vars /\ F => F' /\ [Gw!Next]_(Gw!vars)
  BY OneAtATime
<1>3. [Next]_vars /\ ~F => ~F'
  BY OneAtATime
<1>4. Gw!Spec => []((Gw!OwnWallet /\ Gw!MandateInForce))
  BY ServicesAssumption, TenantsAreApart DEF ServicesAssumption
<1>5. F /\ (Gw!OwnWallet /\ Gw!MandateInForce) => TenantsKeptApart
  BY DEF TenantsKeptApart
<1>6. ~F => TenantsKeptApart
  BY DEF TenantsKeptApart
<1> HIDE DEF F
<1>7. QED
  BY <1>1, <1>2, <1>3, <1>4, <1>5, <1>6, PTL DEF Spec, Gw!Spec

\* A memory that was forgotten and saved does not come back from the database
\* (storage/sqlite.ts).
THEOREM ForgottenMemoriesStay == Spec => []ForgottenStays
<1> DEFINE F == focus = "storage"
<1>1. Init /\ F => Sg!Init
  BY DEF Init
<1>2. [Next]_vars /\ F => F' /\ [Sg!Next]_(Sg!vars)
  BY OneAtATime
<1>3. [Next]_vars /\ ~F => ~F'
  BY OneAtATime
<1>4. Sg!Spec => []Sg!ForgottenStays
  BY ServicesAssumption, ForgottenIsGone DEF ServicesAssumption
<1>5. F /\ Sg!ForgottenStays => ForgottenStays
  BY DEF ForgottenStays
<1>6. ~F => ForgottenStays
  BY DEF ForgottenStays
<1> HIDE DEF F
<1>7. QED
  BY <1>1, <1>2, <1>3, <1>4, <1>5, <1>6, PTL DEF Spec, Sg!Spec

\* The records can be relied on: one audit event per streamed completion, and a
\* proof that verifies for every memory in the integrity tree (middleware, integrity.ts).
THEOREM RecordsHold == Spec => []AuditHolds
<1> DEFINE F == focus = "llm"
           G == focus = "integrity"
<1>1. Init /\ F => Lm!Init
  BY DEF Init
<1>2. [Next]_vars /\ F => F' /\ [Lm!Next]_(Lm!vars)
  BY OneAtATime
<1>3. [Next]_vars /\ ~F => ~F'
  BY OneAtATime
<1>4. Lm!Spec => []Lm!OneEventPerStream
  BY ServicesAssumption, StreamsAreAudited DEF ServicesAssumption
<1>5. F /\ Lm!OneEventPerStream => AuditHolds
  BY DEF AuditHolds
<1>6. Init /\ G => Ig!Init
  BY DEF Init
<1>7. [Next]_vars /\ G => G' /\ [Ig!Next]_(Ig!vars)
  BY OneAtATime
<1>8. [Next]_vars /\ ~G => ~G'
  BY OneAtATime
<1>9. Ig!Spec => []Ig!ProofsVerify
  BY ServicesAssumption, TreesVerify DEF ServicesAssumption
<1>10. G /\ Ig!ProofsVerify => AuditHolds
  BY DEF AuditHolds
<1>11. ~F /\ ~G => AuditHolds
  BY DEF AuditHolds
<1> HIDE DEF F, G
<1>12. QED
  BY <1>1, <1>2, <1>3, <1>4, <1>5, <1>6, <1>7, <1>8, <1>9, <1>10, <1>11, PTL DEF Spec, Lm!Spec, Ig!Spec

\* Whichever way a call ends, to report success is to have been carried out: the checkout
\* was submitted, the request was done by the server.
THEOREM SuccessReal == Spec => []SuccessIsReal
<1> DEFINE F == focus = "checkout"
           G == focus = "remote"
<1>1. Init /\ F => Co!Init
  BY DEF Init
<1>2. [Next]_vars /\ F => F' /\ [Co!Next]_(Co!vars)
  BY OneAtATime
<1>3. [Next]_vars /\ ~F => ~F'
  BY OneAtATime
<1>4. Co!Spec => []Co!SuccessWasSubmitted
  BY ServicesAssumption, SuccessIsSubmitted DEF ServicesAssumption
<1>5. F /\ Co!SuccessWasSubmitted => SuccessIsReal
  BY DEF SuccessIsReal
<1>6. Init /\ G => Rc!Init
  BY DEF Init
<1>7. [Next]_vars /\ G => G' /\ [Rc!Next]_(Rc!vars)
  BY OneAtATime
<1>8. [Next]_vars /\ ~G => ~G'
  BY OneAtATime
<1>9. Rc!Spec => []Rc!ReportedIsDone
  BY ServicesAssumption, ReportsAreTrue DEF ServicesAssumption
<1>10. G /\ Rc!ReportedIsDone => SuccessIsReal
  BY DEF SuccessIsReal
<1>11. ~F /\ ~G => SuccessIsReal
  BY DEF SuccessIsReal
<1> HIDE DEF F, G
<1>12. QED
  BY <1>1, <1>2, <1>3, <1>4, <1>5, <1>6, <1>7, <1>8, <1>9, <1>10, <1>11, PTL DEF Spec, Co!Spec, Rc!Spec

\* A recall answers with memories the agent still has when it answers (index.ts).
THEOREM RecallsAreLive == Spec => RecallReturnsLive
<1> DEFINE F == focus = "memory"
<1>1. Init /\ F => Ms!Init
  BY DEF Init
<1>2. [Next]_vars /\ F => F' /\ [Ms!Next]_(Ms!vars)
  BY OneAtATime
<1>3. [Next]_vars /\ ~F => ~F'
  BY OneAtATime
<1>4. Ms!Spec => [][Ms!AnswersLive]_(Ms!vars)
  BY ServicesAssumption, AnswersAreLive DEF ServicesAssumption
<1>5. [Next]_vars /\ F /\ [Ms!AnswersLive]_(Ms!vars) => [F => Ms!AnswersLive]_vars
  <2>1. Next /\ F /\ UNCHANGED Ms!vars => UNCHANGED vars
    BY DEF Next, IdleNext, vars,
      Nw!vars, Rl!vars, Ac!vars, Bl!vars, St!vars, Br!vars, Ms!vars, Fg!vars,
      Gw!vars, Sg!vars, Lm!vars, Co!vars, Ad!vars, Ig!vars, Rc!vars, Ms!store, Ms!index, Ms!slow
  <2>2. QED
    BY <2>1
<1>6. [Next]_vars /\ ~F => [F => Ms!AnswersLive]_vars
  OBVIOUS
<1> HIDE DEF F
<1>7. Spec => [][F => Ms!AnswersLive]_vars
  BY <1>1, <1>2, <1>3, <1>4, <1>5, <1>6, PTL DEF Spec, Ms!Spec
<1>8. QED
  BY <1>7 DEF F, RecallReturnsLive

\* A cycle moves a risk parameter by no more than one bounded step, while the records
\* fit (adaptive.ts).
THEOREM CyclesMakeNoJumps ==
  ASSUME MaxCycles \in Nat, 3 * MaxCycles <= MaxRecords, 3 * MaxCycles <= SavedRecords
  PROVE  Spec => NoJumps
<1> DEFINE F == focus = "adaptive"
<1>1. Init /\ F => Ad!Init
  BY DEF Init
<1>2. [Next]_vars /\ F => F' /\ [Ad!Next]_(Ad!vars)
  BY OneAtATime
<1>3. [Next]_vars /\ ~F => ~F'
  BY OneAtATime
<1>4. Ad!Spec => [][Ad!SmallStep]_(Ad!vars)
  BY ServicesAssumption, JumpsExcluded DEF ServicesAssumption
<1>5. [Next]_vars /\ F /\ [Ad!SmallStep]_(Ad!vars) => [F => Ad!SmallStep]_vars
  <2>1. Next /\ F /\ UNCHANGED Ad!vars => UNCHANGED vars
    BY DEF Next, IdleNext, vars,
      Nw!vars, Rl!vars, Ac!vars, Bl!vars, St!vars, Br!vars, Ms!vars, Fg!vars,
      Gw!vars, Sg!vars, Lm!vars, Co!vars, Ad!vars, Ig!vars, Rc!vars, Ms!store, Ms!index, Ms!slow
  <2>2. QED
    BY <2>1
<1>6. [Next]_vars /\ ~F => [F => Ad!SmallStep]_vars
  OBVIOUS
<1> HIDE DEF F
<1>7. Spec => [][F => Ad!SmallStep]_vars
  BY <1>1, <1>2, <1>3, <1>4, <1>5, <1>6, PTL DEF Spec, Ad!Spec
<1>8. QED
  BY <1>7 DEF F, NoJumps
=============================================================================
