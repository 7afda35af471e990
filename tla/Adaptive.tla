----------------------------- MODULE Adaptive -----------------------------
(***************************************************************************)
(* The adaptive engine (adaptive.ts): operational events, the cycle that   *)
(* adapts the fee rate and the block threshold, its drift check and        *)
(* circuit breaker, and the administrator's locks and overrides.  Values   *)
(* are in ten-thousandths, to which records are rounded.  Only what the    *)
(* cycle reads of its metrics is computed; the stability index of two      *)
(* different distributions is any.                                         *)
(***************************************************************************)
EXTENDS Integers, Sequences, FiniteSetsExt

CONSTANTS
    MinObservations, CircuitBreakerThreshold,
    HealthyAgents, ManyAgents,      \* 5 and 20 in the code: agents that loosening and tightening ask for
    Overrides,                      \* values an administrator may set
    MaxRecords, KeptRecords,        \* 1,000 and 500
    SavedRecords,                   \* 200
    MaxEvents, MaxCycles, MaxAdmin  \* bounds

VARIABLES
    events,     \* how often each type was observed; all of one agent
    engine,     \* [worsening, tripped, previous, distribution, locked, override]
    adaptations,\* <<[parameter, newValue]>>
    cycles, admin

vars == <<events, engine, adaptations, cycles, admin>>

Types      == {"charge", "settle", "refund", "dispute", "fraud_block"}
Parameters == {"feeRate", "blockThreshold"}
Default    == [feeRate |-> 190, blockThreshold |-> 7500]
SecureBounds == [feeRate |-> [min |-> 50, max |-> 500], blockThreshold |-> [min |-> 3000, max |-> 9500]]
NoMetrics  == [settlement |-> -1, health |-> -1]
Unset      == 0

TypeOK ==
    /\ events \in [Types -> 0..MaxEvents]
    /\ engine \in [worsening : Nat, tripped : BOOLEAN, previous : [settlement : -1..100, health : -1..100],
                   distribution : [Types -> Nat], locked : SUBSET Parameters, override : [Parameters -> Overrides \cup {Unset}]]
    /\ adaptations \in Seq([parameter : Parameters \cup {"note"}, newValue : Nat])
    /\ cycles \in 0..MaxCycles /\ admin \in 0..MaxAdmin

Init ==
    /\ events = [t \in Types |-> 0]
    /\ engine = [worsening |-> 0, tripped |-> FALSE, previous |-> NoMetrics, distribution |-> [t \in Types |-> 0],
                 locked |-> {}, override |-> [p \in Parameters |-> Unset]]
    /\ adaptations = <<>> /\ cycles = 0 /\ admin = 0

-----------------------------------------------------------------------------
(* Metrics *)

Total == SumFunctionOnSet(events, Types)
Agents == IF Total = 0 THEN 0 ELSE 1
AtLeast1(n) == IF n = 0 THEN 1 ELSE n
Rounded(n, d) == (2 * n + d) \div (2 * d)
Clamp(v, lo, hi) == IF v < lo THEN lo ELSE IF v > hi THEN hi ELSE v

Completed == events["settle"] + events["refund"]
Settlement == IF Completed = 0 THEN 0 ELSE Rounded(100 * events["settle"], Completed)
Health ==
    LET settles == AtLeast1(events["settle"])
        n == 70 * settles * AtLeast1(Completed) + 15 * events["settle"] * settles - 20 * events["dispute"] * AtLeast1(Completed)
    IN  IF n <= 0 THEN 0 ELSE Clamp(Rounded(n, settles * AtLeast1(Completed)), 0, 100)
Metrics  == [settlement |-> Settlement, health |-> Health]
Disputed == events["dispute"] > 0           \* more than a tenth of the agents
FraudIsFrequent == events["charge"] > 0 /\ 10 * events["fraud_block"] > events["charge"]
FraudIsRare     == events["fraud_block"] = 0

Worsened == engine.previous # NoMetrics
    /\ (Settlement < engine.previous.settlement - 2 \/ Health < engine.previous.health - 3)

-----------------------------------------------------------------------------
(* Parameters *)

Adapted(p) ==
    LET of == {i \in DOMAIN adaptations : adaptations[i].parameter = p}
    IN  IF of = {} THEN Default[p] ELSE adaptations[Max(of)].newValue

IsLocked(p) == p \in engine.locked \/ engine.override[p] # Unset

SlipNoDelta(v, target) == target               \* as far as the bounds allow

\* No more than a fifth per cycle.
LimitDelta(v, target) ==
    IF 5 * (target - v) > v THEN Rounded(6 * v, 5) ELSE IF 5 * (v - target) > v THEN Rounded(4 * v, 5) ELSE target

Target(p) ==
    LET v == Adapted(p)
    IN  CASE p = "feeRate" /\ Disputed -> Rounded(3 * v, 2)
          [] p = "feeRate" /\ ~Disputed /\ Settlement > 90 /\ Agents >= HealthyAgents -> Rounded(98 * v, 100)
          [] p = "blockThreshold" /\ FraudIsFrequent -> Rounded(102 * v, 100)
          [] p = "blockThreshold" /\ ~FraudIsFrequent /\ FraudIsRare /\ Agents > ManyAgents -> Rounded(95 * v, 100)
          [] OTHER -> v

Least(p) == IF p = "feeRate" THEN 1 ELSE 10    \* smaller changes are not proposed

\* What a cycle proposes for p: nothing, or one record.
Proposal(p) ==
    LET v == Adapted(p)
        target == LimitDelta(v, Clamp(Target(p), SecureBounds[p].min, SecureBounds[p].max))
    IN  IF IsLocked(p) \/ (target - v <= Least(p) /\ v - target <= Least(p)) THEN <<>>
        ELSE <<[parameter |-> p, newValue |-> target]>>

Newest(records, n) == IF Len(records) <= n THEN records ELSE SubSeq(records, Len(records) - n + 1, Len(records))
Trimmed(records)   == IF Len(records) > MaxRecords THEN Newest(records, KeptRecords) ELSE records

-----------------------------------------------------------------------------
Note == <<[parameter |-> "note", newValue |-> 0]>>      \* a record about the engine itself

\* The events stay below the 50,000 that are kept.
Observe(t) ==
    /\ Total < MaxEvents
    /\ events' = [events EXCEPT ![t] = @ + 1]
    /\ UNCHANGED <<engine, adaptations, cycles, admin>>

\* runCycle(), an interval after the last.
RunCycle ==
    /\ cycles < MaxCycles /\ cycles' = cycles + 1
    /\ ~engine.tripped /\ Total >= MinObservations
    /\ UNCHANGED <<events, admin>>
    /\ \E drift \in (IF engine.distribution \in {events, [t \in Types |-> 0]} THEN {"none"} ELSE {"none", "warn", "halt"}) :
        LET seen   == [engine EXCEPT !.distribution = events]
            worse  == IF Worsened THEN engine.worsening + 1 ELSE IF engine.previous = NoMetrics THEN engine.worsening ELSE 0
            warned == IF drift = "warn" THEN Note ELSE <<>>
        IN  CASE drift = "halt" ->
                    engine' = seen /\ adaptations' = adaptations \o Note
              [] drift # "halt" /\ Worsened /\ worse >= CircuitBreakerThreshold ->
                    /\ engine' = [seen EXCEPT !.worsening = worse, !.previous = Metrics, !.tripped = TRUE]
                    /\ adaptations' = adaptations \o warned \o Note
              [] OTHER ->
                    /\ engine' = [seen EXCEPT !.worsening = worse, !.previous = Metrics]
                    /\ adaptations' = Trimmed(adaptations \o warned \o Proposal("feeRate") \o Proposal("blockThreshold"))

ResetCircuitBreaker ==
    /\ engine.tripped
    /\ engine' = [engine EXCEPT !.tripped = FALSE, !.worsening = 0]
    /\ UNCHANGED <<events, adaptations, cycles, admin>>

\* lockParam(), unlockParam(), setOverride() and removeOverride().
Administer(p) ==
    /\ admin < MaxAdmin /\ admin' = admin + 1
    /\ \/ engine' = [engine EXCEPT !.locked = @ \cup {p}]
       \/ engine' = [engine EXCEPT !.locked = @ \ {p}]
       \/ \E v \in Overrides \cup {Unset} : engine' = [engine EXCEPT !.override[p] = v]
    /\ UNCHANGED <<events, adaptations, cycles>>

\* deserialize(serialize()): what the last cycle saw is forgotten, with the events.
Restore ==
    /\ admin < MaxAdmin /\ admin' = admin + 1
    /\ engine' = [engine EXCEPT !.previous = NoMetrics, !.distribution = [t \in Types |-> 0]]
    /\ events' = [t \in Types |-> 0]
    /\ adaptations' = Newest(adaptations, SavedRecords)
    /\ UNCHANGED cycles

Next ==
    \/ \E t \in Types : Observe(t)
    \/ RunCycle \/ ResetCircuitBreaker \/ Restore
    \/ \E p \in Parameters : Administer(p)

Spec == Init /\ [][Next]_vars

-----------------------------------------------------------------------------
(* adaptive.ts:27: the engine never "makes jumps > 20% in any single        *)
(* adaptation cycle", and what it settles on stays in the secure bounds.    *)
(* It holds while the records fit; a parameter whose last record was        *)
(* trimmed falls back to its default in one step.                           *)
SmallStep ==
    \A p \in Parameters :
        /\ Adapted(p)' \in SecureBounds[p].min .. SecureBounds[p].max
        /\ 10 * (Adapted(p)' - Adapted(p)) <= 2 * Adapted(p) + 5
        /\ 10 * (Adapted(p) - Adapted(p)') <= 2 * Adapted(p) + 5
NoJumps == [][SmallStep]_vars
=============================================================================
