------------------------------- MODULE Swarm -------------------------------
(***************************************************************************)
(* One run of a Swarm (swarm/index.ts) or a BrowserSwarm (swarm/browser.ts)*)
(* over a provider that answers in its own time.  spawn() dispatches every *)
(* task without an await in between; from then on tasks, stop() and the    *)
(* provider interleave at each await.  A base swarm performs one action    *)
(* per session, a browser swarm a sequence of steps between which it looks *)
(* at the cancellation flags and the clock; "lazy" is a browser swarm that *)
(* was given no surface, whose inherited stop() talks to a placeholder.    *)
(***************************************************************************)
EXTENDS Integers, FiniteSetsExt

CONSTANTS
    Tasks,       \* the accepted tasks (spawn() keeps the first `size`)
    Budget,      \* Budget[t]: the task's budget, or the per-agent one
    PerAgent, Total,
    Steps        \* steps of a browser task

VARIABLES
    kind,        \* "base", "injected" (browser, surface given) or "lazy" (browser)
    spawned,     \* spawn() has dispatched
    surface,     \* a surface is loaded
    task,        \* task[t]
    totalSpend, aborted,   \* run._totalSpend, run._aborted
    stopping     \* where stop() is

vars == <<kind, spawned, surface, task, totalSpend, aborted, stopping>>

Outcome == {"none", "ok", "failed", "budget-denied", "total-budget-exceeded",
            "provider-error", "aborted", "task-timeout"}

TaskState == [
    pc        : {"waiting", "opening", "starting", "performing", "ending", "closing",
                 "bailing", "done"},
    session   : {"none", "open", "closed"},   \* closed: the provider was asked to close it
    step      : 0..Steps,
    cancelled : BOOLEAN,
    good      : BOOLEAN,       \* providerResult.ok, sessionOk
    error     : Outcome \ {"ok"},   \* firstError
    result    : Outcome,       \* what gather() returns for it
    spend     : Nat,
    recorded  : 0..2 ]         \* entries of run._results about it

NewTask == [pc |-> "waiting", session |-> "none", step |-> 0, cancelled |-> FALSE,
            good |-> TRUE, error |-> "none", result |-> "none", spend |-> 0, recorded |-> 0]

TypeOK ==
    /\ kind \in {"base", "injected", "lazy"} /\ spawned \in BOOLEAN /\ surface \in BOOLEAN
    /\ task \in [Tasks -> TaskState]
    /\ totalSpend \in Nat /\ aborted \in BOOLEAN
    /\ stopping \in {"idle", "grace", "closing", "stopped"}

InitWith(k) ==
    /\ kind = k /\ surface = (k # "lazy")
    /\ spawned = FALSE
    /\ task = [t \in Tasks |-> NewTask]
    /\ totalSpend = 0 /\ aborted = FALSE /\ stopping = "idle"

Init == \E k \in {"base", "injected", "lazy"} : InitWith(k)

Browser == kind # "base"

\* A result is pushed and the task's promise resolves.
Report(s, outcome, spend) ==
    [s EXCEPT !.pc = "done", !.result = outcome, !.spend = spend, !.recorded = @ + 1]

-----------------------------------------------------------------------------
(* spawn() *)

SlipRefusalSilent(t, haveSurface) ==    \* a denied task returns before it is recorded
    IF Budget[t] > PerAgent THEN [NewTask EXCEPT !.pc = "done", !.result = "budget-denied"]
    ELSE IF Browser /\ ~haveSurface THEN Report(NewTask, "provider-error", 0)
    ELSE [NewTask EXCEPT !.pc = "opening"]

\* FiscalGate.precheck, the total-budget guard and the call of provider.open.
Dispatch(t, haveSurface) ==
    IF Budget[t] > PerAgent         THEN Report(NewTask, "budget-denied", 0)
    ELSE IF totalSpend >= Total     THEN Report(NewTask, "total-budget-exceeded", 0)
    ELSE IF Browser /\ ~haveSurface THEN Report(NewTask, "provider-error", 0)
    ELSE [NewTask EXCEPT !.pc = "opening"]

\* A lazy swarm loads @mnemopay/browser first; the promise of a failed import
\* is cached and fails every task.
Spawn ==
    /\ ~spawned
    /\ spawned' = TRUE
    /\ surface' \in IF kind = "lazy" THEN BOOLEAN ELSE {surface}
    /\ task' = [t \in Tasks |-> Dispatch(t, surface')]
    /\ UNCHANGED <<kind, totalSpend, aborted, stopping>>

-----------------------------------------------------------------------------
(* runTask(), runBrowserTask() *)

Move(t, s) == task' = [task EXCEPT ![t] = s] /\ UNCHANGED <<kind, spawned, surface>>
Flagged(t) == task[t].cancelled \/ aborted
KeepRun    == UNCHANGED <<totalSpend, aborted, stopping>>

OpenFails(t) ==
    /\ task[t].pc = "opening"
    /\ Move(t, Report(task[t], "provider-error", 0))
    /\ KeepRun

\* A base task that was cancelled while it opened closes the session and
\* bails out; a browser task emits session.start and meets the flag at its
\* first step.
Opened(t) ==
    /\ task[t].pc = "opening"
    /\ Move(t, [task[t] EXCEPT !.session = "open",
                   !.pc = IF Browser THEN "starting"
                          ELSE IF Flagged(t) THEN "bailing" ELSE "performing"])
    /\ KeepRun

SlipBailsOpen(t) ==      \* bails out without closing what it opened
    /\ task[t].pc = "bailing"
    /\ Move(t, Report(task[t], "aborted", 0))
    /\ KeepRun

Bailed(t) ==
    /\ task[t].pc = "bailing"
    /\ Move(t, Report([task[t] EXCEPT !.session = "closed"], "aborted", 0))
    /\ KeepRun

\* The top of the step loop: the flags, then the deadline, then the next step.
StepLoop(s, late) ==
    LET stop(e) == [s EXCEPT !.pc = "ending", !.good = FALSE, !.error = e]
    IN  IF s.step = Steps             THEN [s EXCEPT !.pc = "ending"]
        ELSE IF s.cancelled \/ aborted THEN stop("aborted")
        ELSE IF late                  THEN stop("task-timeout")
        ELSE [s EXCEPT !.pc = "performing"]

Started(t) ==
    /\ task[t].pc = "starting"
    /\ Move(t, StepLoop(task[t], FALSE))
    /\ KeepRun

\* The single action of a base task, or one step of a browser task, answers.
Performed(t, ok, late) ==
    /\ task[t].pc = "performing"
    /\ Browser \/ ~late
    /\ Move(t, IF ~Browser THEN [task[t] EXCEPT !.pc = "closing", !.good = ok]
               ELSE IF ok THEN StepLoop([task[t] EXCEPT !.step = @ + 1], late)
               ELSE [task[t] EXCEPT !.pc = "ending", !.good = FALSE, !.error = "provider-error"])
    /\ KeepRun

Ended(t) ==    \* emitEnd answers, or fails and is ignored
    /\ task[t].pc = "ending"
    /\ Move(t, [task[t] EXCEPT !.pc = "closing"])
    /\ KeepRun

Spend(t) == IF task[t].good THEN Budget[t] ELSE 0

\* stop() up to its first await: the flags of every task, and provider.abort.
Halt(ts) == [t \in Tasks |-> [ts[t] EXCEPT !.cancelled = TRUE]]

\* A task's result, read after the stop it may have caused itself.
Verdict(s, halted) ==
    IF s.good /\ ~s.cancelled /\ ~halted THEN "ok"
    ELSE IF Browser THEN IF s.error = "none" THEN "failed" ELSE s.error
    ELSE IF s.cancelled \/ halted THEN "aborted" ELSE "provider-error"

SlipEarlyVerdict(t) ==   \* the result is composed before the stop
    /\ task[t].pc = "closing"
    /\ totalSpend' = totalSpend + Spend(t)
    /\ LET over == totalSpend' > Total /\ ~aborted
           ts   == [task EXCEPT ![t] = Report([@ EXCEPT !.session = "closed"],
                                              Verdict(@, aborted), Spend(t))]
       IN /\ aborted' = (aborted \/ over)
          /\ stopping' = IF over THEN "grace" ELSE stopping
          /\ task' = IF over THEN Halt(ts) ELSE ts
    /\ UNCHANGED <<kind, spawned, surface>>

\* close() answers or fails.  The spend is counted and, when it crosses the
\* total, the run is stopped before the task's own result is composed.
Closed(t) ==
    /\ task[t].pc = "closing"
    /\ totalSpend' = totalSpend + Spend(t)
    /\ LET over   == totalSpend' > Total /\ ~aborted
           halted == aborted \/ over
           ts     == [task EXCEPT ![t].session = "closed"]
           told   == IF over THEN Halt(ts) ELSE ts
       IN /\ aborted' = halted
          /\ stopping' = IF over THEN "grace" ELSE stopping
          /\ task' = [told EXCEPT ![t] = Report(told[t], Verdict(told[t], halted), Spend(t))]
    /\ UNCHANGED <<kind, spawned, surface>>

-----------------------------------------------------------------------------
(* stop() *)

Stop ==
    /\ spawned /\ ~aborted
    /\ aborted' = TRUE /\ stopping' = "grace"
    /\ task' = Halt(task)
    /\ UNCHANGED <<kind, spawned, surface, totalSpend>>

\* The aborts have answered or the grace period is over: every session known by
\* now is asked to close, through the provider the base class holds.
ForceClose ==
    /\ stopping = "grace"
    /\ stopping' = "closing"
    /\ task' = [t \in Tasks |->
                  IF task[t].session = "open" /\ kind # "lazy"
                  THEN [task[t] EXCEPT !.session = "closed"] ELSE task[t]]
    /\ UNCHANGED <<kind, spawned, surface, totalSpend, aborted>>

Stopped ==
    /\ stopping = "closing"
    /\ stopping' = "stopped"
    /\ UNCHANGED <<kind, spawned, surface, task, totalSpend, aborted>>

-----------------------------------------------------------------------------

Answers(t) ==
    \/ OpenFails(t) \/ Opened(t) \/ Bailed(t) \/ Started(t) \/ Ended(t) \/ Closed(t)
    \/ \E ok, late \in BOOLEAN : Performed(t, ok, late)

Next ==
    \/ Spawn \/ Stop \/ ForceClose \/ Stopped
    \/ \E t \in Tasks : OpenFails(t)
    \/ \E t \in Tasks : Opened(t)
    \/ \E t \in Tasks : Bailed(t)
    \/ \E t \in Tasks : Started(t)
    \/ \E t \in Tasks, ok, late \in BOOLEAN : Performed(t, ok, late)
    \/ \E t \in Tasks : Ended(t)
    \/ \E t \in Tasks : Closed(t)

\* Timers fire, and the provider answers or fails every call.
Fairness ==
    /\ WF_vars(ForceClose) /\ WF_vars(Stopped)
    /\ \A t \in Tasks : WF_vars(Answers(t))

Spec == Init /\ [][Next]_vars /\ Fairness

-----------------------------------------------------------------------------
(* Properties *)

\* Paid work reported as ok never exceeds the run's total budget, whatever
\* the tasks in flight when the total is crossed go on to spend: the task that
\* crosses it and those after it report "aborted".
OkWithinTotal ==
    SumFunctionOnSet([t \in Tasks |-> task[t].spend], {t \in Tasks : task[t].result = "ok"})
        <= Total

\* Nobody keeps a browser session: a task that has reported, and every task of
\* a run whose stop() has returned, had its session closed, unless the open was
\* still under way when stop() looked (the task then closes it itself) or the
\* swarm is lazy (its stop() closes nothing, the task must).
SessionsReturned ==
    \A t \in Tasks :
        /\ task[t].pc = "done" => task[t].session # "open"
        /\ stopping = "stopped" /\ kind # "lazy" /\ task[t].session = "open"
             => task[t].pc \in {"bailing", "starting", "ending", "closing"}

\* gather() returns: the promises of all spawned tasks resolve, with one result
\* recorded for each.
GatherReturns ==
    spawned ~> \A t \in Tasks : task[t].pc = "done" /\ task[t].recorded = 1
=============================================================================
