----------------------------- MODULE PolicyGate -----------------------------
(***************************************************************************)
(* The policy evaluator with its rate counter (governance/policy.ts), the  *)
(* linter a policy passes before it is compiled (governance/policy-lint.ts)*)
(* and the store its approvals wait in (governance/approval.ts).  Nothing  *)
(* here awaits; calls come in any order while the clock moves on.          *)
(***************************************************************************)
EXTENDS Integers, Sequences, FiniteSetsExt

CONSTANTS
    Policies,    \* candidate policies: sequences of rules
    Actions,     \* actions agents ask for: [kind, target, arg, locale, usd]
    BadUsd,      \* an estimated_usd that is NaN, infinite or negative
    MaxTime, MaxRequests    \* bounds on the clock and on the approval store

\* A rule's fields; the empty set and None stand for a field that is absent.
None == -1
RuleShape == [id |-> "", kinds |-> {}, targets |-> {}, blockArgs |-> {}, blockLocales |-> {},
              onlyLocales |-> {}, cap |-> None, threshold |-> None,
              window |-> 0, max |-> None, outright |-> FALSE]

VARIABLES
    policy,
    now,
    hits,        \* hits[i, kind, target][t]: observations of rule i at time t
    passed,      \* history: actions under rate rule i not blocked at t
    request      \* the approval store: [status, decisions] in order of opening

vars == <<policy, now, hits, passed, request>>

Keys  == {<<a.kind, a.target>> : a \in Actions}
Times == 0..MaxTime

-----------------------------------------------------------------------------
(* policy-lint.ts, risk.ts *)

LintRule(r) ==
    /\ r.cap # None /\ r.threshold # None => r.cap > r.threshold
    /\ r.cap >= None /\ r.threshold >= None
    /\ r.blockLocales \cap r.onlyLocales = {}
    /\ r.max # None => r.max > 0

LintPolicy(p) ==
    /\ \A i, j \in DOMAIN p : p[i].id = p[j].id => i = j
    /\ \A i \in DOMAIN p : LintRule(p[i])

\* The default policy: targets that only a human may touch, a cap, a threshold.
BuildRiskPolicy(targets, cap, threshold) ==
    LET spenders == {"payment", "tool_call", "http_request"}
    IN  <<[RuleShape EXCEPT !.id = "block", !.targets = targets, !.outright = TRUE],
          [RuleShape EXCEPT !.id = "cap", !.kinds = spenders, !.cap = cap],
          [RuleShape EXCEPT !.id = "approval", !.kinds = spenders, !.threshold = threshold]>>

-----------------------------------------------------------------------------
(* evaluateAction() *)

RuleApplies(r, a) ==
    /\ r.kinds = {} \/ a.kind \in r.kinds
    /\ r.targets = {} \/ a.target \in r.targets

Applying(a) == {i \in DOMAIN policy : RuleApplies(policy[i], a)}

CountWithin(i, a) ==
    SumFunctionOnSet(hits[i, <<a.kind, a.target>>], {t \in Times : t >= now - policy[i].window})

SlipOneTooMany(i, a) == policy[i].max # None /\ CountWithin(i, a) > policy[i].max

Exhausted(i, a) == policy[i].max # None /\ CountWithin(i, a) >= policy[i].max

Blockers(a) ==
    {i \in Applying(a) : LET r == policy[i] IN
        \/ r.outright
        \/ a.arg \in r.blockArgs
        \/ a.locale \in r.blockLocales
        \/ r.onlyLocales # {} /\ a.locale \notin r.onlyLocales
        \/ r.cap # None /\ a.usd > r.cap
        \/ Exhausted(i, a)}

\* The rules count the action one after the other, up to the one that blocks it.
Reached(a) ==
    IF a.usd = BadUsd THEN {}
    ELSE IF Blockers(a) = {} THEN Applying(a)
    ELSE {i \in Applying(a) : i < Min(Blockers(a))}

Verdict(a) ==
    IF a.usd = BadUsd \/ Blockers(a) # {} THEN "blocked"
    ELSE IF \E i \in Applying(a) : policy[i].threshold # None /\ a.usd > policy[i].threshold
         THEN "needs_approval" ELSE "allowed"

Observe(f, is, a) ==
    [k \in DOMAIN f |-> IF k[1] \in is /\ k[2] = <<a.kind, a.target>>
                        THEN [f[k] EXCEPT ![now] = @ + 1] ELSE f[k]]

-----------------------------------------------------------------------------

Start(p) ==
    /\ policy = p /\ now = 0 /\ request = <<>>
    /\ hits = [k \in (DOMAIN p) \X Keys |-> [t \in Times |-> 0]]
    /\ passed = hits

Init == \E p \in {q \in Policies : LintPolicy(q)} : Start(p)

TypeOK ==
    /\ policy \in Policies /\ now \in Times
    /\ DOMAIN hits = DOMAIN passed
    /\ \A k \in DOMAIN hits : hits[k] \in [Times -> Nat] /\ passed[k] \in [Times -> Nat]
    /\ \A i \in DOMAIN request :
         request[i] \in [status : {"pending", "approved", "rejected", "expired"}, decisions : 0..2]

Tick ==
    /\ now < MaxTime /\ now' = now + 1
    /\ UNCHANGED <<policy, hits, passed, request>>

\* evaluateAction() and routeVerdict(): an action above a threshold opens a request.
Ask(a) ==
    /\ Verdict(a) = "needs_approval" => Len(request) < MaxRequests
    /\ hits' = Observe(hits, {i \in Reached(a) : policy[i].max # None}, a)
    /\ passed' = IF Verdict(a) = "blocked" THEN passed
                 ELSE Observe(passed, {i \in Applying(a) : policy[i].max # None}, a)
    /\ request' = IF Verdict(a) = "needs_approval"
                  THEN Append(request, [status |-> "pending", decisions |-> 0]) ELSE request
    /\ UNCHANGED <<policy, now>>

\* The caller prunes what no window reaches any more.
Prune(before) ==
    /\ \A i \in DOMAIN policy : before <= now - policy[i].window
    /\ hits' = [k \in DOMAIN hits |-> [t \in Times |-> IF t < before THEN 0 ELSE hits[k][t]]]
    /\ UNCHANGED <<policy, now, passed, request>>

SlipDecidesAgain(i, verdict) ==   \* decide() without its check for "pending"
    /\ i \in DOMAIN request /\ request[i].decisions < 2
    /\ request' = [request EXCEPT ![i] = [status |-> verdict, decisions |-> @.decisions + 1]]
    /\ UNCHANGED <<policy, now, hits, passed>>

Decide(i, verdict) ==
    /\ i \in DOMAIN request /\ request[i].status = "pending"
    /\ request' = [request EXCEPT ![i] = [status |-> verdict, decisions |-> @.decisions + 1]]
    /\ UNCHANGED <<policy, now, hits, passed>>

\* expire() does not look at the status: it also expires what was decided.
Expire(i) ==
    /\ i \in DOMAIN request
    /\ request' = [request EXCEPT ![i].status = "expired"]
    /\ UNCHANGED <<policy, now, hits, passed>>

Next ==
    \/ Tick
    \/ \E a \in Actions : Ask(a)
    \/ \E t \in Times : Prune(t)
    \/ \E i \in 1..MaxRequests, v \in {"approved", "rejected"} : Decide(i, v)
    \/ \E i \in 1..MaxRequests : Expire(i)

Spec == Init /\ [][Next]_vars

-----------------------------------------------------------------------------
(* Properties *)

\* However the clock, the pruning and other rules' verdicts interleave, no
\* window of a rate rule ever holds more unblocked actions than its maximum.
RateKept ==
    \A k \in DOMAIN passed : LET r == policy[k[1]] IN
        r.max # None =>
            \A t \in Times :
                SumFunctionOnSet(passed[k], {u \in Times : t - r.window <= u /\ u <= t}) <= r.max
=============================================================================
