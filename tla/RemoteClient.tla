--------------------------- MODULE RemoteClient ---------------------------
(***************************************************************************)
(* The clients of remote backends: MnemoPay over Mnemosyne and AgentPay    *)
(* (index.ts), with its retries and its x402 settlement, and the thin      *)
(* MnemoPayClient (client.ts) with its timeout.  A request may be lost, an *)
(* answer too, and a request whose caller gave up may still arrive.  What  *)
(* the servers do is external: an escrow is released or refunded once.     *)
(***************************************************************************)
EXTENDS Integers, Sequences, FiniteSets

CONSTANTS
    Calls, Escrows,
    Kinds,          \* which operations are called
    MaxRetries      \* 2 in the code

VARIABLES
    calls,      \* call -> [kind, escrow, step, tries]
    wire,       \* requests under way: {[call, op, try]}
    escrows,    \* AgentPay: escrow -> "pending" | "released" | "refunded"
    created,    \* AgentPay: how many escrows a charge call created
    paid,       \* the facilitator: escrow -> times paid
    memories    \* Mnemosyne: how many are stored

vars == <<calls, wire, escrows, created, paid, memories>>

AllKinds == {"remember", "recall", "forget", "reinforce", "consolidate", "sessionEnd",
             "charge", "settle", "refund", "balance", "history", "x402",
             "thinRemember", "thinCharge", "thinSettle", "thinRefund"}
Steps == {"new", "asking", "backoff", "ok", "failed"}
Ops   == {"store", "search", "review", "delete", "consolidate", "create", "show", "pay", "release", "refund"}

TypeOK ==
    /\ Kinds \subseteq AllKinds
    /\ calls \in [Calls -> [kind : AllKinds, escrow : Escrows, op : Ops, step : Steps, tries : 0..MaxRetries]]
    /\ \A r \in wire : r.call \in Calls /\ r.op \in Ops /\ r.try \in 0..MaxRetries
    /\ escrows \in [Escrows -> {"pending", "released", "refunded"}]
    /\ created \in [Calls -> 0..MaxRetries + 1]
    /\ paid \in [Escrows -> 0..Cardinality(Calls)]
    /\ memories \in Nat

\* The requests of an operation, in order.
MemoryRequests  == [remember |-> <<"store">>, recall |-> <<"search">>, forget |-> <<"delete">>, reinforce |-> <<"review">>,
                    consolidate |-> <<"consolidate">>, sessionEnd |-> <<"store", "consolidate">>]
PaymentRequests == [charge |-> <<"create">>, settle |-> <<"release">>, refund |-> <<"refund">>]
ReadRequests    == [balance |-> <<"show">>, history |-> <<"show">>]
X402Requests    == [x402 |-> <<"show", "pay", "release">>]
ThinRequests    == [thinRemember |-> <<"store">>, thinCharge |-> <<"create">>,
                    thinSettle |-> <<"release">>, thinRefund |-> <<"refund">>]
Requests(kind)  == IF kind \in DOMAIN MemoryRequests THEN MemoryRequests[kind]
                   ELSE IF kind \in DOMAIN PaymentRequests THEN PaymentRequests[kind]
                   ELSE IF kind \in DOMAIN ReadRequests THEN ReadRequests[kind]
                   ELSE IF kind \in DOMAIN X402Requests THEN X402Requests[kind] ELSE ThinRequests[kind]

\* withRetry() wraps these requests of MnemoPay; the thin client never retries.
Retried(c) == c.kind \notin DOMAIN ThinRequests /\ c.op \in {"store", "create", "release", "refund"}

First(kind) == Requests(kind)[1]
IsLast(c)   == Requests(c.kind)[Len(Requests(c.kind))] = c.op
NextOp(c)   == LET ops == Requests(c.kind) IN ops[(CHOOSE i \in DOMAIN ops : ops[i] = c.op) + 1]

Init ==
    /\ \E kind \in [Calls -> Kinds], e \in [Calls -> Escrows] :
        calls = [c \in Calls |-> [kind |-> kind[c], escrow |-> e[c], op |-> First(kind[c]), step |-> "new", tries |-> 0]]
    /\ wire = {} /\ paid = [e \in Escrows |-> 0] /\ memories = 0
    /\ escrows = [e \in Escrows |-> "pending"] /\ created = [c \in Calls |-> 0]

-----------------------------------------------------------------------------
Asks(c, op, try) == [call |-> c, op |-> op, try |-> try]

Send(c) ==
    /\ calls[c].step \in {"new", "backoff"}
    /\ calls' = [calls EXCEPT ![c].step = "asking"]
    /\ wire' = wire \cup {Asks(c, calls[c].op, calls[c].tries)}
    /\ UNCHANGED <<escrows, created, paid, memories>>

Does(r, e) ==
    /\ r.op \in {"release", "refund"} => escrows[e] = "pending"
    /\ memories' = IF r.op = "store" THEN memories + 1 ELSE memories
    /\ paid' = IF r.op = "pay" THEN [paid EXCEPT ![e] = @ + 1] ELSE paid
    /\ created' = IF r.op = "create" THEN [created EXCEPT ![r.call] = @ + 1] ELSE created
    /\ escrows' = IF r.op = "release" THEN [escrows EXCEPT ![e] = "released"]
                  ELSE IF r.op = "refund" THEN [escrows EXCEPT ![e] = "refunded"] ELSE escrows

SlipRefusedIsDone(c) == IF IsLast(c) THEN [c EXCEPT !.step = "ok"] ELSE [c EXCEPT !.op = NextOp(c), !.step = "new", !.tries = 0]
SlipIgnoresStatus(c) == IF c.op = "pay" THEN [c EXCEPT !.op = NextOp(c), !.step = "new", !.tries = 0] ELSE [c EXCEPT !.step = "failed"]

\* The handler of a good answer, of a 4xx, and of everything else that goes wrong:
\* the network, a 5xx, an answer that cannot be parsed.
Succeeded(c) ==
    IF IsLast(c) THEN [c EXCEPT !.step = "ok"] ELSE [c EXCEPT !.op = NextOp(c), !.step = "new", !.tries = 0]
Refused(c) == [c EXCEPT !.step = "failed"]
Failed(c)  ==
    IF Retried(c) /\ c.tries < MaxRetries THEN [c EXCEPT !.step = "backoff", !.tries = @ + 1]
    ELSE [c EXCEPT !.step = "failed"]

Waits(r) ==
    calls[r.call].step = "asking" /\ calls[r.call].op = r.op /\ calls[r.call].tries = r.try

Answer(r, handled) == calls' = IF Waits(r) THEN [calls EXCEPT ![r.call] = handled] ELSE calls

\* The request arrives, is carried out, and is answered: well, ill, or with nothing in it.
Serve(r) ==
    LET c == calls[r.call] IN
    /\ wire' = wire \ {r}
    /\ Does(r, c.escrow)
    /\ Answer(r, Succeeded(c)) \/ Answer(r, Failed(c)) \/ Answer(r, Refused(c))

\* The server says no, or fails with a text that holds a number like 404.
Refuse(r) ==
    /\ wire' = wire \ {r}
    /\ Answer(r, Refused(calls[r.call]))
    /\ UNCHANGED <<escrows, created, paid, memories>>

\* The server cannot: nothing is done, and a 5xx is answered.
Fail(r) ==
    /\ wire' = wire \ {r}
    /\ Answer(r, Failed(calls[r.call]))
    /\ UNCHANGED <<escrows, created, paid, memories>>

\* The connection breaks, or the thin client's timer aborts it; the request may still be under way.
Break(c) ==
    /\ calls[c].step = "asking"
    /\ calls' = [calls EXCEPT ![c] = Failed(@)]
    /\ UNCHANGED <<wire, escrows, created, paid, memories>>

Next ==
    \/ \E c \in Calls : Send(c) \/ Break(c)
    \/ \E r \in wire : Serve(r) \/ Refuse(r) \/ Fail(r)

Spec == Init /\ [][Next]_vars

-----------------------------------------------------------------------------
(* index.ts:2421 and 2524: what a call reports is what the servers did,     *)
(* however often the request was repeated: a settlement that succeeded      *)
(* found its escrow released, and over x402 paid for as well.               *)
ReportedIsDone ==
    \A c \in Calls : calls[c].step = "ok" =>
        LET kind == calls[c].kind
            e    == calls[c].escrow
        IN  /\ kind \in {"charge", "thinCharge"} => created[c] > 0
            /\ kind \in {"settle", "thinSettle", "x402"} => escrows[e] = "released"
            /\ kind \in {"refund", "thinRefund"} => escrows[e] = "refunded"
            /\ kind = "x402" => paid[e] > 0
            /\ kind \in {"remember", "sessionEnd", "thinRemember"} => memories > 0
=============================================================================
