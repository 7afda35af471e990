----------------------------- MODULE Oversight -----------------------------
(***************************************************************************)
(* The parts that bound what agents may do, composed: a swarm run, a       *)
(* mission, the policy gate, the action log, and the commerce engine with  *)
(* its approval queue (Commerce).  They share no state: a behaviour is one *)
(* of the part that `focus` names.  The variables of an idle mission, gate *)
(* or log stay blank; the swarm and the shop, whose fairness speaks of     *)
(* every state, stay at an initial state.                                  *)
(***************************************************************************)
EXTENDS Commerce, Sequences

CONSTANTS
    Tasks, Budget, PerAgent, Total, Steps,                 \* Swarm
    MaxUsd, Spends,                                        \* Mission
    Policies, Actions, BadUsd, MaxTime, MaxRequests,       \* PolicyGate
    LoggedActions, Approvals, Costs, MaxEvents, Attempts   \* ActionLog

VARIABLES
    focus,
    kind, spawned, surface, task, totalSpend, aborted, stopping,                 \* Swarm
    pc, status, hold, settled, spent, signal, refused, releases, audit,          \* Mission
    policy, now, hits, passed, request,                                          \* PolicyGate
    actions, events, leafHashes, signer, anchor,                                 \* ActionLog
    bundle                                                                       \* Mission, ActionLog

Sw == INSTANCE Swarm
Mi == INSTANCE Mission
Gt == INSTANCE PolicyGate
Lg == INSTANCE ActionLog WITH Actions <- LoggedActions

\* A run's size, budgets and steps.
SwarmAssumption ==
    IsFiniteSet(Tasks) /\ Budget \in [Tasks -> Nat] /\ Total \in Nat /\ Steps \in Nat

\* Budgets and spends are amounts.
MissionAssumption == MaxUsd \in Nat /\ Spends \subseteq Nat

\* A rule's window is a length of time and its maximum a number.
GateAssumption ==
    /\ MaxTime \in Nat
    /\ \A p \in Policies : \A i \in DOMAIN p : p[i].window \in Nat /\ p[i].max \in Int

ASSUME OversightAssumption == SwarmAssumption /\ MissionAssumption /\ GateAssumption

-----------------------------------------------------------------------------
(* One part at a time.                                                     *)

swarm   == <<kind, spawned, surface, task, totalSpend, aborted, stopping>>
mission == <<pc, status, hold, settled, spent, signal, refused, releases, audit>>
gate    == <<policy, now, hits, passed, request>>
log     == <<actions, events, leafHashes, signer, anchor>>
oversightVars == <<focus, swarm, mission, gate, log, bundle, vars>>

Blank == "blank"
NoMission == /\ pc = Blank /\ status = Blank /\ hold = Blank /\ settled = Blank /\ spent = Blank
             /\ signal = Blank /\ refused = Blank /\ releases = Blank /\ audit = Blank
NoGate    == policy = Blank /\ now = Blank /\ hits = Blank /\ passed = Blank /\ request = Blank
NoLog     == actions = Blank /\ events = Blank /\ leafHashes = Blank /\ signer = Blank /\ anchor = Blank

\* Orders and charge requests share the queue's timer and its restarts but no money,
\* so a behaviour of the shop exercises one of the two.
OversightInit ==
    \/ focus = "swarm" /\ Sw!Init /\ InitWith({}) /\ NoMission /\ NoGate /\ NoLog /\ bundle = Blank
    \/ /\ Sw!InitWith("base")
       /\ \/ focus = "mission" /\ Mi!Init /\ NoGate /\ NoLog /\ InitWith({})
          \/ focus = "gate" /\ Gt!Init /\ NoMission /\ NoLog /\ bundle = Blank /\ InitWith({})
          \/ focus = "log" /\ Lg!Init /\ NoMission /\ NoGate /\ InitWith({})
          \/ /\ \/ focus = "orders" /\ InitWith(Orders)
                \/ focus = "requests" /\ InitWith(Requests)
             /\ NoMission /\ NoGate /\ NoLog /\ bundle = Blank

InSwarm   == focus = "swarm" /\ UNCHANGED <<focus, mission, gate, log, bundle, vars>>
InMission == focus = "mission" /\ UNCHANGED <<focus, swarm, gate, log, vars>>
InGate    == focus = "gate" /\ UNCHANGED <<focus, swarm, mission, log, bundle, vars>>
InLog     == focus = "log" /\ UNCHANGED <<focus, swarm, mission, gate, vars>>
InShop    == focus \in {"orders", "requests"} /\ UNCHANGED <<focus, swarm, mission, gate, log, bundle>>

OversightNext ==
    \/ InSwarm /\ Sw!Next
    \/ InMission /\ Mi!Next
    \/ InGate /\ Gt!Next
    \/ InLog /\ Lg!Next
    \/ InShop /\ Next

\* An idle swarm and an idle shop enable nothing their fairness speaks of.
OversightFairness == Sw!Fairness /\ Fairness

OversightSpec == OversightInit /\ [][OversightNext]_oversightVars /\ OversightFairness

-----------------------------------------------------------------------------
(* Properties: those of the parts, each stated in its module and evaluated *)
(* on the behaviours that exercise the part.                                *)

\* Reported work stays within the swarm's total, and nobody keeps a session.
OkWithinTotal == focus = "swarm" => Sw!OkWithinTotal /\ Sw!SessionsReturned

\* Every task a run has started answers once, so gather() returns.
GatherReturns == Sw!GatherReturns

\* A hold outlives its mission only by an abort; the bundle tells the outcome.
HoldsExplained == focus = "mission" => Mi!HoldsExplained /\ Mi!BundleTellsOutcome

\* No window admits more actions than the rate rule allows.
RateKept == focus = "gate" => Gt!RateKept

\* The view of an action is the replay of its events, and an exported bundle
\* verifies exactly when nobody has touched it.
ViewIsReplay == focus = "log" => Lg!ViewIsReplay /\ Lg!BundlesVerify
=============================================================================
