----------------------------- MODULE LlmCalls -----------------------------
(***************************************************************************)
(* The middleware around language model clients (src/src/middleware): the  *)
(* memory wrappers recall, inject, call and store the exchange; the audit  *)
(* wrappers forward a call unchanged and append one llm.call event, for a  *)
(* stream when an iterator over it closes.  Prompts and answers are left   *)
(* out; a stream is a number of chunks, of which the last may carry the    *)
(* usage.                                                                  *)
(***************************************************************************)
EXTENDS Integers, Sequences

CONSTANTS
    Calls, Tokens,   \* output tokens a provider may report, 0 when it reports none
    Iterators,       \* iterators a consumer opens on one stream
    MaxChunks        \* bound

VARIABLES
    call,      \* per call: [kind, provider, pc, chunks, usage, out, count, emitted, result]
    at,        \* where each iterator of a call stands: [pos, state]
    events,    \* the audit chain: <<[call, partial, out]>>
    rejected,  \* calls whose event the chain refused
    remembered \* exchanges stored

vars == <<call, at, events, rejected, remembered>>

Kinds == {"wrapped", "create", "stream"}       \* with memory; audited, plain or streamed
Providers == {"openai", "anthropic"}
Pcs == {"idle", "recalling", "calling", "storing", "streaming", "ended"}

TypeOK ==
    /\ call \in [Calls -> [kind : Kinds, provider : Providers, pc : Pcs, chunks : 0..MaxChunks, usage : Tokens,
                    out : Nat, count : Nat, emitted : BOOLEAN, result : {"none", "answer", "error"}]]
    /\ at \in [Calls \X Iterators -> [pos : 0..MaxChunks, state : {"new", "open", "done", "broken", "failed"}]]
    /\ events \in Seq([call : Calls, partial : BOOLEAN, out : Nat])
    /\ rejected \subseteq Calls /\ remembered \subseteq Calls

Init ==
    /\ call \in [Calls -> {[kind |-> k, provider |-> p, usage |-> 0, pc |-> "idle", chunks |-> 0, out |-> 0, count |-> 0, emitted |-> FALSE, result |-> "none"] :
                             k \in Kinds, p \in Providers}]
    /\ at = [x \in Calls \X Iterators |-> [pos |-> 0, state |-> "new"]]
    /\ events = <<>> /\ rejected = {} /\ remembered = {}

At(c, pc) == call[c].pc = pc
Ended(c, result) == call' = [call EXCEPT ![c].pc = "ended", ![c].result = result]

-----------------------------------------------------------------------------
(* Memory wrappers *)

Begin(c) ==
    /\ At(c, "idle")
    /\ call' = [call EXCEPT ![c].pc = IF call[c].kind = "wrapped" THEN "recalling" ELSE "calling"]
    /\ UNCHANGED <<at, events, rejected, remembered>>

\* A recall that fails fails the call before it is made.
Recalled(c) ==
    /\ At(c, "recalling")
    /\ call' = [call EXCEPT ![c].pc = "calling"] \/ Ended(c, "error")
    /\ UNCHANGED <<at, events, rejected, remembered>>

StoreFails(c) == Ended(c, "answer")

Stored(c) ==
    /\ At(c, "storing")
    /\ \/ remembered' = remembered \cup {c} /\ Ended(c, "answer")
       \/ StoreFails(c) /\ UNCHANGED remembered
    /\ UNCHANGED <<at, events, rejected>>

-----------------------------------------------------------------------------
(* Audit events *)

\* chain.emit() may throw: the event is lost, the call is not.
Recorded(c, partial, out) ==
    \/ events' = Append(events, [call |-> c, partial |-> partial, out |-> out]) /\ UNCHANGED rejected
    \/ rejected' = rejected \cup {c} /\ UNCHANGED events

CallFails(c) ==
    /\ At(c, "calling") /\ Ended(c, "error")
    /\ UNCHANGED <<at, events, rejected, remembered>>

\* create() of the Anthropic wrapper takes a streamed answer for a message; it reports no usage.
Answered(c) ==
    /\ At(c, "calling")
    /\ CASE call[c].kind = "wrapped" ->
              call' = [call EXCEPT ![c].pc = "storing"] /\ UNCHANGED <<at, events, rejected>>
         [] call[c].kind = "create" ->
              (\E u \in Tokens : Recorded(c, FALSE, u)) /\ Ended(c, "answer") /\ UNCHANGED at
         [] OTHER ->
              /\ \E n \in 0..MaxChunks, u \in Tokens :
                    call' = [call EXCEPT ![c].pc = "streaming", ![c].chunks = n, ![c].usage = u, ![c].result = "answer"]
              /\ UNCHANGED <<at, events, rejected>>
    /\ UNCHANGED remembered

-----------------------------------------------------------------------------
(* A tapped stream.  Several iterators share the counters of one stream. *)

TapOpenAI(k, last, usage) ==
    [k EXCEPT !.count = @ + 1, !.out = IF last /\ usage > 0 THEN usage ELSE @]

\* message_start carries a first count of output tokens, message_delta the final one.
TapAnthropic(k, last, usage) == [k EXCEPT !.out = IF last /\ usage > 0 THEN usage ELSE IF @ = 0 THEN 1 ELSE @]

Tapped(c, last) ==
    IF call[c].provider = "openai" THEN TapOpenAI(call[c], last, call[c].usage) ELSE TapAnthropic(call[c], last, call[c].usage)

FinalTokens(c) ==
    IF call[c].provider = "openai" /\ call[c].out = 0 THEN call[c].count ELSE call[c].out

SlipEveryClose(c, partial) ==              \* without the flag
    Recorded(c, partial, FinalTokens(c)) /\ UNCHANGED call

EmitAuditEvent(c, partial) ==
    IF call[c].emitted
      THEN UNCHANGED <<call, events, rejected>>
      ELSE Recorded(c, partial, FinalTokens(c)) /\ call' = [call EXCEPT ![c].emitted = TRUE]

Iterating(c, i) == At(c, "streaming") /\ at[<<c, i>>].state = "open"

Open(c, i) ==
    /\ At(c, "streaming") /\ at[<<c, i>>].state = "new"
    /\ at' = [at EXCEPT ![<<c, i>>].state = "open"]
    /\ UNCHANGED <<call, events, rejected, remembered>>

\* next(): a chunk, the end, or a failure of the source.
NextChunk(c, i) ==
    /\ Iterating(c, i) /\ at[<<c, i>>].pos < call[c].chunks
    /\ at' = [at EXCEPT ![<<c, i>>].pos = @ + 1]
    /\ call' = [call EXCEPT ![c] = Tapped(c, at[<<c, i>>].pos + 1 = call[c].chunks)]
    /\ UNCHANGED <<events, rejected, remembered>>

SlipBreakIsFull(c, i, state) ==            \* return() reports the stream as read
    at' = [at EXCEPT ![<<c, i>>].state = state] /\ EmitAuditEvent(c, state = "failed")

Closed(c, i, state) ==
    at' = [at EXCEPT ![<<c, i>>].state = state] /\ EmitAuditEvent(c, state # "done")

LastRead(c, i) ==
    /\ Iterating(c, i) /\ at[<<c, i>>].pos = call[c].chunks
    /\ Closed(c, i, "done")
    /\ UNCHANGED remembered

\* The source throws in next(), or the consumer leaves the loop.
LeftEarly(c, i) ==
    /\ Iterating(c, i)
    /\ \E state \in {"broken", "failed"} : Closed(c, i, state)
    /\ UNCHANGED remembered

Next ==
    \E c \in Calls :
        \/ Begin(c) \/ Recalled(c) \/ Stored(c) \/ CallFails(c) \/ Answered(c)
        \/ \E i \in Iterators : Open(c, i) \/ NextChunk(c, i) \/ LastRead(c, i) \/ LeftEarly(c, i)

Spec == Init /\ [][Next]_vars

-----------------------------------------------------------------------------
(* The audit middleware's promise (anthropic-audit.ts:137): exactly one     *)
(* event for a stream once an iterator over it closed, however many were    *)
(* opened and however they closed, unless the chain refused it; and an      *)
(* event that does not say "partial" stands for a stream some iterator read *)
(* to its end.                                                              *)
OfCall(c) == {k \in DOMAIN events : events[k].call = c}

OneEventPerStream ==
    \A c \in Calls : call[c].kind = "stream" =>
        LET closed(state) == \E i \in Iterators : at[<<c, i>>].state = state
        IN  /\ \A j, k \in OfCall(c) : j = k
            /\ closed("done") \/ closed("broken") \/ closed("failed") => c \in rejected \/ OfCall(c) # {}
            /\ \A k \in OfCall(c) : ~events[k].partial => closed("done")
=============================================================================
