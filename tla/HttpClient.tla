----------------------------- MODULE HttpClient ------------------------------
(***************************************************************************)
(* doJSON, the one way every method of the Amberflo client sends a request *)
(* (internal/amberflo/client.go, ratelimit.go, errors.go): goroutines that *)
(* share a token bucket, retry transient failures with a jittered backoff, *)
(* and stop when their context is cancelled.                               *)
(*                                                                         *)
(* Amberflo, the network and golang.org/x/time/rate are external. Time is  *)
(* counted in ticks of one token's refill, and only as what is left of a   *)
(* wait, so the state stays finite however long the client runs.           *)
(***************************************************************************)
EXTENDS Naturals

CONSTANTS
  Callers,
  Retries,                \* RetryAttempts: requests per call, the first included
  RetryBase, RetryMax,    \* retryBaseDelay and retryMaxDelay
  RetryAfters,            \* what Amberflo may ask to wait; 0 for no header
  Burst,                  \* RateLimitPerSec: the size of the bucket
  Window                  \* the longest interval load looks back over

ASSUME RetriesAssumption == Retries \in Nat \ {0}
ASSUME DelaysAssumption == RetryBase \in Nat /\ RetryMax \in Nat /\ RetryAfters \subseteq Nat
ASSUME LimiterAssumption == Burst \in Nat \ {0} /\ Window \in Nat \ {0}

VARIABLES
  pc,         \* where each caller is in doJSON
  attempt,    \* the number of the request it is at
  left,       \* what is left of its sleep
  result,     \* how its last call ended
  cancelled,  \* its context is cancelled
  applied,    \* how often Amberflo has applied its call
  hold,       \* what is left of the wait Amberflo asked it for
  tokens,     \* tokens in the bucket
  load        \* load[k]: requests sent in the last k ticks

vars == <<pc, attempt, left, result, cancelled, applied, hold, tokens, load>>

Results == {"ok", "permanent", "transient", "cancelled"}

TypeOK ==
  /\ pc \in [Callers -> {"idle", "limiter", "sent", "sleep"}]
  /\ attempt \in [Callers -> 1 .. Retries]
  /\ left \in [Callers -> Nat]
  /\ result \in [Callers -> Results]
  /\ cancelled \in [Callers -> BOOLEAN]
  /\ applied \in [Callers -> 0 .. Retries]
  /\ hold \in [Callers -> Nat]
  /\ tokens \in 0 .. Burst
  /\ load \in [1 .. Window -> Nat]

Init ==
  /\ pc = [c \in Callers |-> "idle"]
  /\ attempt = [c \in Callers |-> 1]
  /\ left = [c \in Callers |-> 0]
  /\ result = [c \in Callers |-> "ok"]
  /\ cancelled = [c \in Callers |-> FALSE]
  /\ applied = [c \in Callers |-> 0]
  /\ hold = [c \in Callers |-> 0]
  /\ tokens = Burst
  /\ load = [k \in 1 .. Window |-> 0]

-----------------------------------------------------------------------------
(* The schedule.                                                           *)

\* The jittered delay: within a quarter of d, to the tick on either side.
jitter(d) == {n \in Nat : 3 * d <= 4 * n + 3 /\ 4 * n <= 5 * d + 3}

Exponential(n) ==
  IF RetryBase * 2 ^ (n - 1) > RetryMax THEN RetryMax ELSE RetryBase * 2 ^ (n - 1)

\* Variant: the shorter of the two delays.
BackoffIgnoringRetryAfter(n, asked) ==
  {d \in 0 .. 2 * RetryMax : d \in jitter(Exponential(n))}

\* The delay after the n-th request, or what Amberflo asked for if longer.
backoff(n, asked) ==
  {IF asked > d THEN asked ELSE d : d \in {e \in 0 .. 2 * RetryMax : e \in jitter(Exponential(n))}}

-----------------------------------------------------------------------------
(* A caller in doJSON.                                                     *)

\* The call starts; its context is a new one.
Call(c) ==
  /\ pc[c] = "idle"
  /\ pc' = [pc EXCEPT ![c] = "limiter"]
  /\ attempt' = [attempt EXCEPT ![c] = 1]
  /\ cancelled' = [cancelled EXCEPT ![c] = FALSE]
  /\ applied' = [applied EXCEPT ![c] = 0]
  /\ UNCHANGED <<left, result, hold, tokens, load>>

Return(c, r) ==
  /\ pc' = [pc EXCEPT ![c] = "idle"]
  /\ result' = [result EXCEPT ![c] = r]
  /\ left' = [left EXCEPT ![c] = 0]
  /\ hold' = [hold EXCEPT ![c] = 0]
  /\ UNCHANGED attempt

\* The limiter admits the request: it is sent, unless it cannot be built.
Admit(c) ==
  /\ pc[c] = "limiter" /\ ~cancelled[c]
  /\ tokens > 0
  /\ tokens' = tokens - 1
  /\ \/ /\ pc' = [pc EXCEPT ![c] = "sent"]
        /\ load' = [k \in 1 .. Window |-> load[k] + 1]
        /\ UNCHANGED <<attempt, left, result, hold>>
     \/ Return(c, "permanent") /\ UNCHANGED load
  /\ UNCHANGED <<cancelled, applied>>

\* Variants: one request too many, and a loop without an end.
RetryOnceMore(c, asked) ==
  IF attempt[c] > Retries THEN Return(c, "transient")
  ELSE /\ pc' = [pc EXCEPT ![c] = "sleep"]
       /\ left' \in {[left EXCEPT ![c] = d] : d \in backoff(attempt[c], asked)}
       /\ hold' = [hold EXCEPT ![c] = asked]
       /\ UNCHANGED <<attempt, result>>
RetryAlways(c, asked) ==
  /\ pc' = [pc EXCEPT ![c] = "sleep"]
  /\ left' \in {[left EXCEPT ![c] = d] : d \in backoff(attempt[c], asked)}
  /\ hold' = [hold EXCEPT ![c] = asked]
  /\ attempt' = [attempt EXCEPT ![c] = 1]
  /\ UNCHANGED result

\* A transient failure: the last one is returned, another is slept over.
RetryOrGiveUp(c, asked) ==
  IF attempt[c] = Retries THEN Return(c, "transient")
  ELSE /\ pc' = [pc EXCEPT ![c] = "sleep"]
       /\ left' \in {[left EXCEPT ![c] = d] : d \in backoff(attempt[c], asked)}
       /\ hold' = [hold EXCEPT ![c] = asked]
       /\ UNCHANGED <<attempt, result>>

\* Amberflo applies the request now, or not at all.
Applied(c) == applied' = [applied EXCEPT ![c] = @ + 1]
MayApply(c) == Applied(c) \/ UNCHANGED applied

\* 2xx: applied. A body that does not decode makes it a permanent error.
Answer2xx(c) ==
  /\ pc[c] = "sent"
  /\ Applied(c)
  /\ Return(c, "ok") \/ Return(c, "permanent")
  /\ UNCHANGED <<cancelled, tokens, load>>

\* 401, 403, any other 4xx but 429, an unexpected status: permanent.
Answer4xx(c) ==
  /\ pc[c] = "sent"
  /\ Return(c, "permanent")
  /\ UNCHANGED <<cancelled, applied, tokens, load>>

\* 429, with or without Retry-After: transient and not applied.
Answer429(c) ==
  /\ pc[c] = "sent"
  /\ \E asked \in RetryAfters : RetryOrGiveUp(c, asked)
  /\ UNCHANGED <<cancelled, applied, tokens, load>>

\* 5xx: transient, whether Amberflo applied the request or not.
Answer5xx(c) ==
  /\ pc[c] = "sent"
  /\ MayApply(c)
  /\ \E asked \in RetryAfters : RetryOrGiveUp(c, asked)
  /\ UNCHANGED <<cancelled, tokens, load>>

\* No response: the network, the request timeout or a cancelled context.
NoAnswer(c) ==
  /\ pc[c] = "sent"
  /\ MayApply(c)
  /\ RetryOrGiveUp(c, 0)
  /\ UNCHANGED <<cancelled, tokens, load>>

\* Variant: a retry goes out without a token.
WakeAndSend(c) ==
  /\ pc[c] = "sleep" /\ left[c] = 0 /\ ~cancelled[c]
  /\ pc' = [pc EXCEPT ![c] = "sent"]
  /\ attempt' = [attempt EXCEPT ![c] = @ + 1]
  /\ load' = [k \in 1 .. Window |-> load[k] + 1]
  /\ UNCHANGED <<left, result, cancelled, applied, hold, tokens>>

\* The sleep is over: the next turn of the loop.
Wake(c) ==
  /\ pc[c] = "sleep" /\ left[c] = 0 /\ ~cancelled[c]
  /\ pc' = [pc EXCEPT ![c] = "limiter"]
  /\ attempt' = [attempt EXCEPT ![c] = @ + 1]
  /\ UNCHANGED <<left, result, cancelled, applied, hold, tokens, load>>

\* The check at the top of the loop, the limiter and the sleep all end on a
\* cancelled context, with its error, which is neither kind.
Abandon(c) ==
  /\ pc[c] \in {"limiter", "sleep"} /\ cancelled[c]
  /\ Return(c, "cancelled")
  /\ UNCHANGED <<cancelled, applied, tokens, load>>

-----------------------------------------------------------------------------
(* The surroundings.                                                       *)

\* The manager stops, or whoever asked for the call has gone.
Cancel(c) ==
  /\ pc[c] # "idle" /\ ~cancelled[c]
  /\ cancelled' = [cancelled EXCEPT ![c] = TRUE]
  /\ UNCHANGED <<pc, attempt, left, result, applied, hold, tokens, load>>

CountDown(wait) == [c \in Callers |-> IF wait[c] > 0 THEN wait[c] - 1 ELSE 0]

Tick ==
  /\ left' = CountDown(left)
  /\ hold' = CountDown(hold)
  /\ tokens' = IF tokens < Burst THEN tokens + 1 ELSE Burst
  /\ load' = [k \in 1 .. Window |-> IF k = 1 THEN 0 ELSE load[k - 1]]
  /\ UNCHANGED <<pc, attempt, result, cancelled, applied>>

-----------------------------------------------------------------------------

Answer(c) == Answer2xx(c) \/ Answer4xx(c) \/ Answer429(c) \/ Answer5xx(c) \/ NoAnswer(c)

Next ==
  \/ \E c \in Callers :
       Call(c) \/ Admit(c) \/ Answer(c) \/ Wake(c) \/ Abandon(c) \/ Cancel(c)
  \/ Tick

\* Time passes, goroutines run, and a request ends within its timeout. The
\* limiter hands out reservations in turn, so nobody is passed over for ever.
Fairness ==
  /\ WF_vars(Tick)
  /\ \A c \in Callers :
       /\ WF_vars(Answer(c)) /\ WF_vars(Wake(c)) /\ WF_vars(Abandon(c))
       /\ SF_vars(Admit(c))

Spec == Init /\ [][Next]_vars
FairSpec == Spec /\ Fairness

-----------------------------------------------------------------------------

CallOf == INSTANCE ApiCall WITH
  MaxApplied <- Retries,
  phase <- [c \in Callers |-> IF pc[c] = "idle" THEN result[c] ELSE "running"]

\* With its retries, lost answers and cancellations, doJSON is one call to its
\* caller: success means applied, nothing is applied once it has returned, and
\* a POST is applied at most once per attempt (client.go:333-407).
ImplementsCall == CallOf!Spec

\* However many goroutines call and retry at once, any interval of k ticks
\* sees no more than a full bucket and its refill: the shared limiter admits
\* the retries too (ratelimit.go:21-23).
RateBudget == \A k \in 1 .. Window : load[k] <= Burst + k - 1

\* A caller never sends again before the wait Amberflo asked it for is over
\* (client.go:421-425).
RetryAfterHonoured == \A c \in Callers : pc[c] \in {"limiter", "sent"} => hold[c] = 0

\* Every call returns, also while others keep the bucket empty.
CallsReturn == \A c \in Callers : pc[c] # "idle" ~> pc[c] = "idle"
=============================================================================
