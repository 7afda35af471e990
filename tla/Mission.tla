------------------------------ MODULE Mission ------------------------------
(***************************************************************************)
(* runMission() (governance/runtime.ts): one mission against a payments    *)
(* adapter (governance/payments.ts) and the audit log (governance/audit.ts)*)
(* that its Article 12 bundle (governance/article12.ts) is built from.     *)
(* Every call of the adapter and of the agents is an await that may throw; *)
(* the abort signal may come at any time and is looked at once.            *)
(***************************************************************************)
EXTENDS Integers, Sequences, SequencesExt

CONSTANTS
    MaxUsd,      \* charter.budget.maxUsd
    Spends       \* what the agents may report as spent

VARIABLES
    pc,          \* where runMission() is; "returned" and "threw" end it
    status,      \* MissionResult.status
    hold,        \* the adapter's hold: "none", "held", "settled", "released"
    settled,     \* the amount settled
    spent,       \* spentUsd reported by the agents
    signal,      \* the abort signal was raised
    refused,     \* history: the adapter threw on settle or release
    releases,    \* the context has a release()
    audit,       \* the types of the recorded events
    bundle       \* the audit log at the time the bundle was built

vars == <<pc, status, hold, settled, spent, signal, refused, releases, audit, bundle>>

Events == {"mission.start", "budget.reserved", "mission.error", "budget.exceeded",
           "mission.complete"}

TypeOK ==
    /\ pc \in {"idle", "reserving", "running", "releasing", "settling", "returned", "threw"}
    /\ status \in {"none", "ok", "halted", "error"}
    /\ hold \in {"none", "held", "settled", "released"}
    /\ settled \in Spends \cup {0} /\ spent \in Spends \cup {0}
    /\ signal \in BOOLEAN /\ refused \in BOOLEAN /\ releases \in BOOLEAN
    /\ audit \in Seq(Events) /\ bundle \in Seq(Events)

Init ==
    /\ pc = "idle" /\ status = "none" /\ hold = "none" /\ settled = 0 /\ spent = 0
    /\ signal = FALSE /\ refused = FALSE /\ releases \in BOOLEAN
    /\ audit = <<>> /\ bundle = <<>>

Abort ==
    /\ ~signal /\ pc \notin {"returned", "threw"}
    /\ signal' = TRUE
    /\ UNCHANGED <<pc, status, hold, settled, spent, refused, releases, audit, bundle>>

Record(type) == audit' = Append(audit, type)

Start ==
    /\ pc = "idle"
    /\ pc' = "reserving"
    /\ Record("mission.start")
    /\ UNCHANGED <<status, hold, settled, spent, signal, refused, releases, bundle>>

ReserveThrows ==
    /\ pc = "reserving"
    /\ pc' = "threw"
    /\ UNCHANGED <<status, hold, settled, spent, signal, refused, releases, audit, bundle>>

\* A mission aborted by now throws, and its hold stays with the adapter.
Reserved ==
    /\ pc = "reserving"
    /\ hold' = "held"
    /\ Record("budget.reserved")
    /\ pc' = IF signal THEN "threw" ELSE "running"
    /\ UNCHANGED <<status, settled, spent, signal, refused, releases, bundle>>

AgentsThrow ==
    /\ pc = "running"
    /\ Record("mission.error")
    /\ status' = "error" /\ pc' = "releasing"
    /\ UNCHANGED <<hold, settled, spent, signal, refused, releases, bundle>>

SlipSettlesOverrun(usd) ==   \* a mission over its budget is settled
    /\ pc = "running"
    /\ spent' = usd
    /\ status' = "ok" /\ pc' = "settling"
    /\ audit' = IF usd > MaxUsd THEN Append(audit, "budget.exceeded") ELSE audit
    /\ UNCHANGED <<hold, settled, signal, refused, releases, bundle>>

AgentsReturn(usd) ==
    /\ pc = "running"
    /\ spent' = usd
    /\ IF usd > MaxUsd
       THEN /\ Record("budget.exceeded")
            /\ status' = "halted" /\ pc' = "releasing"
       ELSE /\ status' = "ok" /\ pc' = "settling"
            /\ UNCHANGED audit
    /\ UNCHANGED <<hold, settled, signal, refused, releases, bundle>>

SlipForgetsRelease ==        \* the halted branch returns without the release
    /\ pc = "releasing"
    /\ pc' = "returned"
    /\ hold' = IF releases /\ status = "error" THEN "released" ELSE hold
    /\ UNCHANGED <<status, settled, spent, signal, refused, releases, audit, bundle>>

\* release?.(): a context without one keeps the hold.
Released ==
    /\ pc = "releasing"
    /\ pc' = "returned"
    /\ hold' = IF releases THEN "released" ELSE hold
    /\ UNCHANGED <<status, settled, spent, signal, refused, releases, audit, bundle>>

Settled ==
    /\ pc = "settling"
    /\ pc' = "returned"
    /\ hold' = "settled" /\ settled' = spent
    /\ Record("mission.complete")
    /\ UNCHANGED <<status, spent, signal, refused, releases, bundle>>

AdapterThrows ==
    /\ pc = "settling" \/ (pc = "releasing" /\ releases)
    /\ pc' = "threw" /\ refused' = TRUE
    /\ UNCHANGED <<status, hold, settled, spent, signal, releases, audit, bundle>>

BuildArticle12Bundle ==
    /\ pc = "returned" /\ bundle = <<>>
    /\ bundle' = audit
    /\ UNCHANGED <<pc, status, hold, settled, spent, signal, refused, releases, audit>>

Next ==
    \/ Abort \/ Start \/ ReserveThrows \/ Reserved \/ AgentsThrow
    \/ \E usd \in Spends : AgentsReturn(usd)
    \/ Released \/ Settled \/ AdapterThrows \/ BuildArticle12Bundle

\* The adapter and the agents answer.
Fairness == WF_vars(Start \/ Reserved \/ AgentsThrow \/ Released \/ Settled)

Spec == Init /\ [][Next]_vars /\ Fairness

-----------------------------------------------------------------------------
(* Properties *)

\* A mission that has ended leaves money on hold only when it was aborted before
\* its agents ran, when the adapter refused, or when it has no release(); and it
\* never pays more than the budget it reserved.
HoldsExplained ==
    /\ pc \in {"returned", "threw"} /\ hold = "held" =>
         refused \/ ~releases \/ (pc = "threw" /\ signal /\ Last(audit) = "budget.reserved")
    /\ settled <= MaxUsd

\* The bundle given to a regulator tells the money's story: it reports a
\* completed mission exactly when the hold was settled, and names why not.
BundleTellsOutcome ==
    bundle # <<>> =>
        /\ ("mission.complete" \in ToSet(bundle)) <=> (hold = "settled")
        /\ ("budget.exceeded" \in ToSet(bundle)) <=> (status = "halted")
        /\ ("mission.error" \in ToSet(bundle)) <=> (status = "error")
=============================================================================
