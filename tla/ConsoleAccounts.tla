-------------------------- MODULE ConsoleAccounts --------------------------
(***************************************************************************)
(* Who may act for an account of the hosted console (dashboard/server.js): *)
(* emailed sign-in challenges, Apple sign-in, sessions, members and their  *)
(* roles, and the deletion of an account.  Requests interleave where a     *)
(* handler awaits its body.                                                *)
(***************************************************************************)
EXTENDS Integers, FiniteSets

CONSTANTS
    Accounts, AppleAccounts, \* AppleAccounts: those derived from an Apple identity
    Emails, Challenges, Sessions, Requests,
    MaxAttempts

VARIABLES
    members,     \* members[a][e]: the role of a member
    challenge,   \* authChallenges
    session,     \* consoleSessions; a session that is not live keeps its role,
                 \* which a handler that holds the object may still read
    hasData,     \* accounts with a plan, a key or a memory
    request,     \* POST /auth/members handlers awaiting their body: the session
    claimed      \* history: emails a code made members of the account

vars == <<members, challenge, session, hasData, request, claimed>>

None == "none"
Roles == {"owner", "admin", "member", "viewer"}
RoleRank == [owner |-> 4, admin |-> 3, member |-> 2, viewer |-> 1]

TypeOK ==
    /\ members \in [Accounts -> [Emails -> Roles \cup {None}]]
    /\ challenge \in [Challenges ->
          [state : {"new", "open", "used", "gone"}, account : Accounts,
           email : Emails, attempts : 0..MaxAttempts]]
    /\ session \in [Sessions -> [state : {"new", "live", "gone"}, account : Accounts,
                                 email : Emails \cup {None}, role : Roles]]
    /\ hasData \subseteq Accounts
    /\ request \in [Requests -> Sessions \cup {None}]
    /\ claimed \in [Accounts -> SUBSET Emails]

\* What became of a challenge is all that matters of it afterwards.
Closed(state) == [state |-> state, account |-> CHOOSE a \in Accounts : TRUE,
                  email |-> CHOOSE e \in Emails : TRUE, attempts |-> 0]

Init ==
    /\ members = [a \in Accounts |-> [e \in Emails |-> None]]
    /\ challenge = [c \in Challenges |-> Closed("new")]
    /\ session = [s \in Sessions |-> [state |-> "new", account |-> CHOOSE a \in Accounts : TRUE,
                                      email |-> None, role |-> "viewer"]]
    /\ hasData = {} /\ request = [r \in Requests |-> None]
    /\ claimed = [a \in Accounts |-> {}]

-----------------------------------------------------------------------------
(* Members and roles *)

MembersOf(a) == {e \in Emails : members[a][e] # None}

RoleForPrincipal(a, e) ==
    IF e # None /\ e \in MembersOf(a) THEN members[a][e]
    ELSE IF MembersOf(a) = {} THEN "owner"
    ELSE IF e = None THEN "viewer" ELSE "member"

\* ensureSessionMembership(): an email that is not a member yet becomes one.
WithMembership(a, e) ==
    IF e = None \/ e \in MembersOf(a) THEN members
    ELSE [members EXCEPT ![a][e] = RoleForPrincipal(a, e)]

\* createConsoleSession()
OpenSession(s, a, e) ==
    /\ session[s].state = "new"
    /\ session' = [session EXCEPT ![s] = [state |-> "live", account |-> a, email |-> e,
                                          role |-> RoleForPrincipal(a, e)]]
    /\ members' = WithMembership(a, e)

-----------------------------------------------------------------------------
(* Emailed challenges *)

\* An email may sign in to an account it is a member of, or to a brand new one.
MayUseAccount(a, e) ==
    IF MembersOf(a) # {} THEN e \in MembersOf(a) ELSE a \notin hasData

\* The email may be delivered or not; the challenge stands either way.
CreateAuthChallenge(c, a, e) ==
    /\ challenge[c].state = "new" /\ MayUseAccount(a, e)
    /\ challenge' = [challenge EXCEPT ![c] = [state |-> "open", account |-> a, email |-> e, attempts |-> 0]]
    /\ UNCHANGED <<members, session, hasData, request, claimed>>

MayVerify(c) == challenge[c].state = "open" /\ challenge[c].attempts < MaxAttempts

\* A wrong code, or a right one whose account was claimed since it was sent.
VerifyRefused(c) ==
    /\ MayVerify(c)
    /\ challenge' = [challenge EXCEPT ![c].attempts = @ + 1]
    /\ UNCHANGED <<members, session, hasData, request, claimed>>

SlipTrustsCode(c, s) ==      \* the membership check is not made again
    LET a == challenge[c].account
        e == challenge[c].email
    IN  /\ MayVerify(c)
        /\ challenge' = [challenge EXCEPT ![c] = Closed("used")]
        /\ OpenSession(s, a, e)
        /\ claimed' = [claimed EXCEPT ![a] = IF e \in MembersOf(a) THEN @ ELSE @ \cup {e}]
        /\ UNCHANGED <<hasData, request>>

VerifyAuthChallenge(c, s) ==
    LET a == challenge[c].account
        e == challenge[c].email
    IN  /\ MayVerify(c) /\ MayUseAccount(a, e)
        /\ challenge' = [challenge EXCEPT ![c] = Closed("used")]
        /\ OpenSession(s, a, e)
        /\ claimed' = [claimed EXCEPT ![a] = IF e \in MembersOf(a) THEN @ ELSE @ \cup {e}]
        /\ UNCHANGED <<hasData, request>>

ChallengeExpires(c) ==
    /\ challenge[c].state = "open"
    /\ challenge' = [challenge EXCEPT ![c] = Closed("gone")]
    /\ UNCHANGED <<members, session, hasData, request, claimed>>

-----------------------------------------------------------------------------
(* Sessions *)

\* POST /auth/apple: Apple may or may not pass an email on.
AppleSignIn(s, a, e) ==
    /\ a \in AppleAccounts /\ OpenSession(s, a, e)
    /\ UNCHANGED <<challenge, hasData, request, claimed>>

\* Logout, or the expiry found when the session is next looked up.
SessionEnds(s) ==
    /\ session[s].state = "live"
    /\ session' = [session EXCEPT ![s].state = "gone"]
    /\ UNCHANGED <<members, challenge, hasData, request, claimed>>

-----------------------------------------------------------------------------
(* POST /auth/members *)

\* ensureSessionMembership() looks the role up again and keeps it in the session;
\* GET /auth/session does no more, and so does a request whose role is too low.
RefreshRole(s) ==
    LET a == session[s].account
        e == session[s].email
    IN  /\ session[s].state = "live"
        /\ members' = WithMembership(a, e)
        /\ session' = [session EXCEPT ![s].role = RoleForPrincipal(a, e)]
        /\ UNCHANGED <<challenge, hasData, request, claimed>>

StartPost(r, s) ==
    LET a == session[s].account
        e == session[s].email
    IN  /\ request[r] = None /\ session[s].state = "live"
        /\ RoleRank[RoleForPrincipal(a, e)] >= RoleRank["admin"]
        /\ members' = WithMembership(a, e)
        /\ session' = [session EXCEPT ![s].role = RoleForPrincipal(a, e)]
        /\ request' = [request EXCEPT ![r] = s]
        /\ UNCHANGED <<challenge, hasData, claimed>>

Owners(a) == {e \in Emails : members[a][e] = "owner"}

KeepsAnOwner(a, e, role) ==
    members[a][e] = "owner" /\ role # "owner" => Cardinality(Owners(a)) > 1

\* The body is in.  The checks use its role or, when it names none, the role the
\* member has; upsertAccountMember() then defaults to "member".
FinishPost(r, e, role) ==
    LET s    == request[r]
        a    == session[s].account
        want == IF role # None THEN role
                ELSE IF members[a][e] # None THEN members[a][e] ELSE "member"
    IN  /\ s # None
        /\ "owner" \in {want, members[a][e]} => session[s].role = "owner"
        /\ KeepsAnOwner(a, e, want)
        /\ members' = [members EXCEPT ![a][e] = IF role = None THEN "member" ELSE role]
        /\ request' = [request EXCEPT ![r] = None]
        /\ UNCHANGED <<challenge, session, hasData, claimed>>

PostRefused(r) ==
    /\ request[r] # None
    /\ request' = [request EXCEPT ![r] = None]
    /\ UNCHANGED <<members, challenge, session, hasData, claimed>>

-----------------------------------------------------------------------------
(* An account's data, and its end *)

\* A key, a memory, or a plan a Stripe event provisions.
DataArrives(a) ==
    /\ a \notin hasData
    /\ hasData' = hasData \cup {a}
    /\ UNCHANGED <<members, challenge, session, request, claimed>>

\* DELETE /account, by a live session or an API key; all of it in one go.
DeleteAccount(a) ==
    /\ a \in hasData \/ \E s \in Sessions : session[s].state = "live" /\ session[s].account = a
    /\ members' = [members EXCEPT ![a] = [e \in Emails |-> None]]
    /\ session' = [s \in Sessions |-> IF session[s].account = a /\ session[s].state = "live"
                                      THEN [session[s] EXCEPT !.state = "gone"] ELSE session[s]]
    /\ challenge' = [c \in Challenges |-> IF challenge[c].account = a /\ challenge[c].state = "open"
                                          THEN Closed("gone") ELSE challenge[c]]
    /\ hasData' = hasData \ {a}
    /\ claimed' = [claimed EXCEPT ![a] = {}]
    /\ UNCHANGED request

-----------------------------------------------------------------------------

Next ==
    \/ \E c \in Challenges, a \in Accounts, e \in Emails : CreateAuthChallenge(c, a, e)
    \/ \E c \in Challenges : VerifyRefused(c) \/ ChallengeExpires(c)
    \/ \E c \in Challenges, s \in Sessions : VerifyAuthChallenge(c, s)
    \/ \E s \in Sessions, a \in Accounts, e \in Emails \cup {None} : AppleSignIn(s, a, e)
    \/ \E s \in Sessions : SessionEnds(s) \/ RefreshRole(s)
    \/ \E r \in Requests, s \in Sessions : StartPost(r, s)
    \/ \E r \in Requests, e \in Emails, role \in Roles \cup {None} : FinishPost(r, e, role)
    \/ \E r \in Requests : PostRefused(r)
    \/ \E a \in Accounts : DataArrives(a) \/ DeleteAccount(a)

Spec == Init /\ [][Next]_vars

-----------------------------------------------------------------------------
(* Properties *)

\* However many emails hold a code for a brand new account when the first of them
\* is verified, only one of them gets in by its code; the others must be invited.
ClaimedByOne == \A a \in Accounts : Cardinality(claimed[a]) <= 1

\* An account that has an owner keeps one until it is deleted (server.js: "cannot
\* demote the last owner").  The code breaks it: a body that names no role passes
\* the check with the role the member has, and the member becomes a "member".
OwnerRemains ==
    [][\A a \in Accounts : Owners(a) # {} => Owners(a)' # {} \/ MembersOf(a)' = {}]_vars
=============================================================================
