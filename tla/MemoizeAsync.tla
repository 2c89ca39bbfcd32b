------------------------------ MODULE MemoizeAsync ------------------------------
(***************************************************************************)
(* lib/server/cache/memoize-async.ts, as preferences-service.ts,           *)
(* security-service.ts and disk-service.ts use it: requests read a slow    *)
(* probe of the host through the cache, and requests that change the host  *)
(* invalidate the cache when they are done.                                *)
(*                                                                         *)
(* What the probe reads is abstracted to a version: the number of changes  *)
(* made to the host so far.  Version 0 does not exist, so 0 is no value.   *)
(***************************************************************************)
EXTENDS Integers

CONSTANTS
    Request,        \* requests that read the probe, or change the host first
    Call,           \* calls of load
    None,           \* null
    MaxExpiries     \* bound: times the cached value runs out

ASSUME MemoAssumption == None \notin Call /\ MaxExpiries \in Nat

VARIABLES
    truth,          \* version of the host
    announced,      \* version of the host at the last invalidation
    cached, inFlight, generation,
    call,           \* where each call of load is
    startedIn,      \* the generation it started in
    value,          \* what it read
    request,        \* where each request is
    on,             \* the call it waits for
    since,          \* the version announced when it asked
    answer,         \* what it was given
    expiries

calls    == <<call, startedIn, value>>
requests == <<request, on, since, answer>>
vars == <<truth, announced, cached, inFlight, generation, calls, requests, expiries>>

\* fetched: the probe has read the host; kept: the then-callback has run;
\* rejected: load threw; in both last cases the finally-callback is pending.
Running == {"loading", "fetched", "kept", "rejected"}

TypeOK ==
    /\ truth \in Nat \ {0} /\ announced \in Nat
    /\ cached \in Nat /\ generation \in Nat
    /\ inFlight \in Call \cup {None}
    /\ call \in [Call -> {"unused", "over"} \cup Running]
    /\ startedIn \in [Call -> Nat]
    /\ value \in [Call -> Nat]
    /\ request \in [Request -> {"idle", "applied", "changed", "waiting", "answered", "failed"}]
    /\ on \in [Request -> Call \cup {None}]
    /\ since \in [Request -> Nat]
    /\ answer \in [Request -> Nat]
    /\ expiries \in 0..MaxExpiries

Init ==
    /\ truth = 1 /\ announced = 0
    /\ cached = 0 /\ inFlight = None /\ generation = 0
    /\ call = [c \in Call |-> "unused"]
    /\ startedIn = [c \in Call |-> 0]
    /\ value = [c \in Call |-> 0]
    /\ request = [r \in Request |-> "idle"]
    /\ on = [r \in Request |-> None]
    /\ since = [r \in Request |-> 0]
    /\ answer = [r \in Request |-> 0]
    /\ expiries = 0

-------------------------------------------------------------------------------
(* The host and the requests that change it *)

\* applySystemPreferences, applyFirewallSettings, a disk command: it may throw
\* before it has changed anything.
Apply(r) ==
    /\ request[r] = "idle"
    /\ request' = [request EXCEPT ![r] = "applied"]
    /\ truth' \in {truth, truth + 1}
    /\ UNCHANGED <<announced, cached, inFlight, generation, calls, on, since, answer, expiries>>

\* Mutant: the call in flight stays there to be joined.
InvalidateKeepingFlight(r) ==
    /\ request[r] = "applied"
    /\ request' = [request EXCEPT ![r] = "changed"]
    /\ generation' = generation + 1
    /\ cached' = 0
    /\ announced' = truth
    /\ UNCHANGED <<truth, inFlight, calls, on, since, answer, expiries>>

\* invalidate(), in the finally of the change; the request may then read.
Invalidate(r) ==
    /\ request[r] = "applied"
    /\ request' = [request EXCEPT ![r] = "changed"]
    /\ generation' = generation + 1
    /\ cached' = 0
    /\ inFlight' = None
    /\ announced' = truth
    /\ UNCHANGED <<truth, calls, on, since, answer, expiries>>

(* memoized() *)

Asks(r) ==
    /\ request[r] \in {"idle", "changed"}
    /\ since' = [since EXCEPT ![r] = announced]
    /\ UNCHANGED <<truth, announced, cached, generation, value, expiries>>

WaitsFor(r, c) ==
    /\ request' = [request EXCEPT ![r] = "waiting"]
    /\ on' = [on EXCEPT ![r] = c]
    /\ UNCHANGED answer

AskCached(r) ==
    /\ Asks(r)
    /\ cached # 0
    /\ request' = [request EXCEPT ![r] = "answered"]
    /\ answer' = [answer EXCEPT ![r] = cached]
    /\ UNCHANGED <<inFlight, call, startedIn, on>>

AskJoins(r) ==
    /\ Asks(r)
    /\ cached = 0
    /\ inFlight # None
    /\ WaitsFor(r, inFlight)
    /\ UNCHANGED <<inFlight, call, startedIn>>

AskLoads(r, c) ==
    /\ Asks(r)
    /\ cached = 0
    /\ inFlight = None
    /\ call[c] = "unused"
    /\ call' = [call EXCEPT ![c] = "loading"]
    /\ startedIn' = [startedIn EXCEPT ![c] = generation]
    /\ inFlight' = c
    /\ WaitsFor(r, c)

(* load and its callbacks *)

Fetch(c) ==
    /\ call[c] = "loading"
    /\ call' = [call EXCEPT ![c] = "fetched"]
    /\ value' = [value EXCEPT ![c] = truth]
    /\ UNCHANGED <<truth, announced, cached, inFlight, generation, startedIn, requests, expiries>>

\* Mutant: the value is kept whatever generation its call started in.
KeepAlways(c) ==
    /\ call[c] = "fetched"
    /\ call' = [call EXCEPT ![c] = "kept"]
    /\ cached' = value[c]
    /\ UNCHANGED <<truth, announced, inFlight, generation, startedIn, value, requests, expiries>>

Keep(c) ==
    /\ call[c] = "fetched"
    /\ call' = [call EXCEPT ![c] = "kept"]
    /\ cached' = IF startedIn[c] = generation THEN value[c] ELSE cached
    /\ UNCHANGED <<truth, announced, inFlight, generation, startedIn, value, requests, expiries>>

Reject(c) ==
    /\ call[c] \in {"loading", "fetched"}
    /\ call' = [call EXCEPT ![c] = "rejected"]
    /\ UNCHANGED <<truth, announced, cached, inFlight, generation, startedIn, value, requests,
                   expiries>>

\* The promise every caller of c was given settles after its finally.
Settle(c) ==
    /\ call[c] \in {"kept", "rejected"}
    /\ call' = [call EXCEPT ![c] = "over"]
    /\ request' = [r \in Request |->
                      IF request[r] # "waiting" \/ on[r] # c THEN request[r]
                      ELSE IF call[c] = "kept" THEN "answered" ELSE "failed"]
    /\ answer' = [r \in Request |->
                     IF request[r] = "waiting" /\ on[r] = c /\ call[c] = "kept"
                     THEN value[c] ELSE answer[r]]
    /\ UNCHANGED <<truth, announced, cached, generation, startedIn, value, on, since, expiries>>

Finally(c) ==
    /\ Settle(c)
    /\ inFlight' = IF inFlight = c THEN None ELSE inFlight

\* ttlMs has passed.
Expire ==
    /\ cached # 0
    /\ expiries < MaxExpiries
    /\ expiries' = expiries + 1
    /\ cached' = 0
    /\ UNCHANGED <<truth, announced, inFlight, generation, calls, requests>>

Next ==
    \/ \E r \in Request : \/ Apply(r) \/ Invalidate(r) \/ AskCached(r) \/ AskJoins(r)
                          \/ \E c \in Call : AskLoads(r, c)
    \/ \E c \in Call : Fetch(c) \/ Keep(c) \/ Reject(c) \/ Finally(c)
    \/ Expire

Spec == Init /\ [][Next]_vars

-------------------------------------------------------------------------------
(* Properties *)

\* A request that asks after an invalidation is never answered with what the
\* host was before it, from the cache or from a call it joins ("A call already
\* in flight started before the change: its result is not kept").
FreshAnswers ==
    \A r \in Request : request[r] = "answered" => answer[r] >= since[r]

\* Of the calls of one generation at most one is running: concurrent callers
\* share it ("at most once per ttlMs, however many requests ... ask for it").
OneCallInFlight ==
    \A c, d \in Call :
        /\ call[c] \in Running /\ startedIn[c] = generation
        /\ call[d] \in Running /\ startedIn[d] = generation
        => c = d

\* A call that is over, failed ones included, is joined by nobody ("A call that
\* throws is not cached: the next caller tries again").
FailureForgotten == inFlight # None => call[inFlight] \in Running
===============================================================================
