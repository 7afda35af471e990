----------------------------- MODULE FraudGuard -----------------------------
(***************************************************************************)
(* The risk gate of charge() (fraud.ts): replay detection, the velocity    *)
(* windows over the ring of recent charges, geographic signals, and the    *)
(* composite score that decides.  An engine's guard only ever judges its   *)
(* own agent.  It is written with every save and replaced by the file's    *)
(* whenever another process has committed since (index.ts), which forgets  *)
(* the replay fingerprints.                                                *)
(* Weights are in hundredths, times in ticks.  Signals that come from      *)
(* outside of the guard (reputation, age, pending charges, the amount's    *)
(* distribution) are inputs.                                               *)
(***************************************************************************)
EXTENDS Integers, Sequences, SequencesExt, FiniteSetsExt

CONSTANTS
    Charges,       \* charges, told apart by what a fingerprint covers: their amounts
    Countries, Sanctioned,
    PerMinute, PerHour, PerDay, DailyVolume, BlockAt, FlagAt, HopLimit,
    Minute, FiveMinutes, TenMinutes, Hour, Day,       \* in ticks
    MaxKnown,      \* fingerprints kept (1,000 in the code)
    Oddities, Outside,        \* the signals of these kinds that requests may raise
    MaxCharges, MaxTries, MaxOther, MaxTime    \* bounds of the model; tries are per fingerprint

VARIABLES
    now,
    guard,         \* the state that is saved: [ring, blocked, flagged, seen, last, changes]
    known,         \* the replay detector's map: <<[charge, times]>> in insertion order
    lost,          \* how many charges had passed when it last dropped a fingerprint
    saved,         \* the guard in the file
    foreign,       \* whether another process has committed since the last sync
    passed         \* what the gate let through: <<[charge, at, country]>>

vars == <<now, guard, known, lost, saved, foreign, passed>>

Nowhere == "nowhere"
None == [ring |-> <<>>, blocked |-> FALSE, flagged |-> FALSE,
         seen |-> [c \in Countries |-> 0], last |-> Nowhere, changes |-> <<>>]

Guards == [ring : Seq([at : 0..MaxTime, amount : Charges]), blocked : BOOLEAN, flagged : BOOLEAN,
           seen : [Countries -> Nat], last : Countries \cup {Nowhere}, changes : Seq(0..MaxTime)]

TypeOK ==
    /\ now \in 0..MaxTime
    /\ guard \in Guards /\ saved \in Guards
    /\ known \in Seq([charge : Charges, times : Seq(0..MaxTime)]) /\ Len(known) <= MaxKnown
    /\ lost \in [Charges -> 0..MaxCharges] /\ foreign \in BOOLEAN
    /\ passed \in Seq([charge : Charges, at : 0..MaxTime, country : Countries \cup {Nowhere}])

Init ==
    /\ now = 0 /\ guard = None /\ saved = None
    /\ known = <<>> /\ lost = [c \in Charges |-> 0] /\ foreign = FALSE /\ passed = <<>>

-----------------------------------------------------------------------------
(* Replay detection *)

Places(k, c) == {i \in DOMAIN k : k[i].charge = c}
Place(k, c)  == CHOOSE i \in Places(k, c) : TRUE

\* The attempts of the last five minutes; they were written down in order.
Times(k, c) ==
    LET all == k[Place(k, c)].times
        old == {i \in DOMAIN all : now - all[i] >= FiveMinutes}
    IN  IF Places(k, c) = {} THEN <<>> ELSE SubSeq(all, Cardinality(old) + 1, Len(all))

SlipAgesFromFirst(k, c) ==                \* the first attempt's age decides
    LET times == Times(k, c)
    IN  Len(times) >= 3 \/ (times # <<>> /\ now - Head(times) < Minute)

\* Three of the last five minutes, or one of the last minute.
Replayed(k, c) ==
    LET times == Times(k, c)
    IN  Len(times) >= 3 \/ (times # <<>> /\ now - Last(times) < Minute)

\* Every attempt is written down, also one that is refused; a fingerprint keeps its
\* place in the map unless it has expired, and the first one goes when there are too many.
Attempted(k, c) ==
    LET fresh == [charge |-> c, times |-> Append(Times(k, c), now)]
        added == IF Times(k, c) # <<>> THEN [k EXCEPT ![Place(k, c)] = fresh]
                 ELSE Append(IF Places(k, c) = {} THEN k ELSE RemoveAt(k, Place(k, c)), fresh)
    IN  IF Len(added) > MaxKnown THEN Tail(added) ELSE added

Kept(k)   == {k[i].charge : i \in DOMAIN k}
Forgotten == [c \in Charges |-> Len(passed)]

-----------------------------------------------------------------------------
(* Signals *)

Recent(g, window) == SelectSeq(g.ring, LAMBDA x : now - x.at < window)
Volume(g) == FoldSeq(LAMBDA x, sum : x.amount + sum, 0, Recent(g, Day))

Velocity(g, c) ==
    {s \in {"velocity_burst", "velocity_hourly", "velocity_daily", "volume_limit", "rapid_cycle"} :
        CASE s = "velocity_burst"  -> Len(Recent(g, Minute)) >= PerMinute
          [] s = "velocity_hourly" -> Len(Recent(g, Hour)) >= PerHour
          [] s = "velocity_daily"  -> Len(Recent(g, Day)) >= PerDay
          [] s = "volume_limit"    -> Volume(g) + c > DailyVolume
          [] OTHER -> Len(Recent(g, TenMinutes)) >= 5 /\ Len(Recent(g, Minute)) >= 3}

\* Each charge of the last hour above the one before, and this one on top of them.
Escalating(g, c) ==
    LET amounts == [i \in DOMAIN Recent(g, Hour) |-> Recent(g, Hour)[i].amount] \o <<c>>
    IN  Len(amounts) >= 4 /\ \A i \in 1..(Len(amounts) - 1) : amounts[i] < amounts[i + 1]

\* An agent that stays in one country is trusted, fully after ten charges.
Trust(g) ==
    LET total == SumFunctionOnSet(g.seen, Countries)
        most  == Max({g.seen[c] : c \in Countries})
    IN  IF total < 3 THEN 0 ELSE (100 * most) \div Max({10, total})

\* Besides what the country says, a request may come with an unusual currency, hour
\* or address.
Geo(g, country, oddities) ==
    CASE country = Nowhere -> oddities \cap {"ip_hopping"}
      [] country \in Sanctioned -> (oddities \cap {"ip_hopping"}) \cup {"sanctioned_country"}
      [] OTHER -> oddities \cup
            {s \in {"geo_country_switch", "geo_rapid_hop"} :
                IF s = "geo_country_switch" THEN g.last \notin {Nowhere, country}
                ELSE Cardinality({i \in DOMAIN g.changes : now - g.changes[i] < Day}) >= HopLimit}

AllOddities == {"geo_currency_mismatch", "geo_timezone_anomaly", "geo_high_risk_corridor", "ip_hopping"}

-----------------------------------------------------------------------------
(* The composite score *)

Base == [replay_detected |-> 90, velocity_burst |-> 80, velocity_hourly |-> 70, velocity_daily |-> 60,
         volume_limit |-> 70, rapid_cycle |-> 60, escalation_pattern |-> 40,
         amount_anomaly |-> 80, new_agent_high_charge |-> 40, pending_overflow |-> 50,
         low_rep_high_charge |-> 60, sanctioned_country |-> 90, ip_hopping |-> 30,
         geo_country_switch |-> 15, geo_rapid_hop |-> 35, geo_high_risk_corridor |-> 25,
         geo_currency_mismatch |-> 10, geo_timezone_anomaly |-> 10]

Critical == {"replay_detected", "sanctioned_country"}
Dampened == {"geo_country_switch", "geo_rapid_hop", "geo_high_risk_corridor",
             "geo_currency_mismatch", "geo_timezone_anomaly"}

Weight(s, trust) == IF s \in Dampened THEN (Base[s] * (200 - trust) + 100) \div 200 ELSE Base[s]

SlipSums(signals, trust, threshold) ==    \* the weights are added, not averaged
    /\ threshold <= 100
    /\ SumFunctionOnSet([s \in signals |-> Weight(s, trust)], signals) >= threshold

\* The larger of the weights' sum over 0.7 of their number and 0.85 of the heaviest,
\* at most 1; and 1 when a signal is critical.
Scores(signals, trust, threshold) ==
    LET sum == SumFunctionOnSet([s \in signals |-> Weight(s, trust)], signals)
    IN  /\ threshold <= 100
        /\ \/ signals \cap Critical # {}
           \/ sum * 100 >= threshold * Max({100, 70 * Cardinality(signals)})
           \/ \E s \in signals : Weight(s, trust) * 85 >= threshold * 100

-----------------------------------------------------------------------------
(* charge() *)

\* recordCharge(), with updateGeoProfile()
Recorded(g, c, country) ==
    LET moved == country # Nowhere /\ g.last \notin {Nowhere, country}
    IN  [g EXCEPT !.ring = Append(@, [at |-> now, amount |-> c]),
                  !.seen = [d \in Countries |-> g.seen[d] + (IF d = country THEN 1 ELSE 0)],
                  !.last = IF country = Nowhere THEN @ ELSE country,
                  !.changes = IF moved THEN Append(@, now) ELSE @]

\* charge() first adopts what another process has committed.  A refusal is saved, a
\* charge once its hold is placed.
Charge(c, country, oddities, outside) ==
    LET g == IF foreign THEN saved ELSE guard
        k == IF foreign THEN <<>> ELSE known
        signals == Velocity(g, c) \cup Geo(g, country, oddities) \cup outside
                   \cup (IF Replayed(k, c) THEN {"replay_detected"} ELSE {})
                   \cup (IF Escalating(g, c) THEN {"escalation_pattern"} ELSE {})
        blocked == g.blocked \/ Scores(signals, Trust(g), BlockAt)
        flagged == [g EXCEPT !.flagged = @ \/ Scores(signals, Trust(g), FlagAt)]
    IN  /\ Len(passed) < MaxCharges /\ Len(Times(k, c)) < MaxTries
        /\ known' = Attempted(k, c)
        /\ lost' = [d \in Charges |-> IF foreign \/ d \in Kept(k) \ Kept(known') THEN Len(passed) ELSE lost[d]]
        /\ foreign' = FALSE
        /\ IF blocked
           THEN guard' = g /\ saved' = g /\ UNCHANGED passed
           ELSE /\ guard' = Recorded(flagged, c, country)
                /\ passed' = Append(passed, [charge |-> c, at |-> now, country |-> country])
                /\ UNCHANGED saved
        /\ UNCHANGED now

\* The file takes the guard, unless another process has committed: then the guard is
\* the file's, and the fingerprints are gone.
Save ==
    /\ guard' = (IF foreign THEN saved ELSE guard)
    /\ saved' = guard'
    /\ known' = (IF foreign THEN <<>> ELSE known)
    /\ lost' = (IF foreign THEN Forgotten ELSE lost)
    /\ foreign' = FALSE
    /\ UNCHANGED <<now, passed>>

Restart ==
    /\ guard' = saved /\ known' = <<>> /\ lost' = Forgotten /\ foreign' = FALSE
    /\ UNCHANGED <<now, saved, passed>>

BlockAgent(blocked) ==
    /\ blocked # guard.blocked
    /\ guard' = [guard EXCEPT !.blocked = blocked]
    /\ UNCHANGED <<now, known, lost, saved, foreign, passed>>

\* Another process charges, on top of what is in the file.
OtherCommits(c, country) ==
    /\ ~foreign /\ Len(saved.ring) < MaxOther
    /\ saved' = Recorded(saved, c, country)
    /\ foreign' = TRUE
    /\ UNCHANGED <<now, guard, known, lost, passed>>

Tick ==
    /\ now < MaxTime
    /\ now' = now + 1
    /\ UNCHANGED <<guard, known, lost, saved, foreign, passed>>

Next ==
    \/ \E c \in Charges, country \in Countries \cup {Nowhere}, oddities \in SUBSET Oddities, outside \in SUBSET Outside :
          Charge(c, country, oddities, outside)
    \/ Save \/ Restart \/ Tick
    \/ \E blocked \in BOOLEAN : BlockAgent(blocked)
    \/ OtherCommits(Min(Charges), Nowhere)

Spec == Init /\ [][Next]_vars

-----------------------------------------------------------------------------
(* Properties *)

\* The same charge is not let through twice within a minute, however often it was
\* tried or refused in between, as long as the detector has not dropped the
\* fingerprint (for a full map, a restart, or another process's commit).
ReplayRefused ==
    \A i, j \in DOMAIN passed :
        i < j /\ lost[passed[i].charge] < i /\ passed[i].charge = passed[j].charge => passed[j].at - passed[i].at >= Minute

\* Where a request comes from never blocks it, unless the country is sanctioned
\* (fraud.ts: "all signals are LOW weight so they NEVER block alone").
GeoNeverBlocks ==
    \A country \in Countries \ Sanctioned, oddities \in SUBSET AllOddities :
        ~Scores(Geo(guard, country, oddities), Trust(guard), BlockAt)

\* "Max charges per minute per agent" (fraud.ts).  The code breaks it: a light signal
\* beside velocity_burst lowers the average, and the charge passes.
VelocityKept ==
    \A i \in DOMAIN guard.ring :
        Cardinality({j \in DOMAIN guard.ring : guard.ring[j].at \in (guard.ring[i].at - Minute + 1)..guard.ring[i].at})
            <= PerMinute
=============================================================================
