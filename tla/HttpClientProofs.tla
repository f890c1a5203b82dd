-------------------------- MODULE HttpClientProofs ---------------------------
(***************************************************************************)
(* The safety properties of HttpClient, and that it implements ApiCall, for *)
(* any number of callers, retries, delays and any size of the bucket.      *)
(***************************************************************************)
EXTENDS HttpClient, TLAPS

USE RetriesAssumption, DelaysAssumption, LimiterAssumption

-----------------------------------------------------------------------------
(* The inductive invariant.                                                *)

\* What Amberflo asked for is slept over before anything else happens.
HoldSlept == \A c \in Callers : IF pc[c] = "sleep" THEN hold[c] <= left[c] ELSE hold[c] = 0

\* A token in the bucket is a request that may still be sent.
TokensSpare == \A k \in 1 .. Window : load[k] + tokens <= Burst + k - 1

\* A call is applied at most once for each of its requests that was answered,
\* and one that sleeps has a request left.
AttemptsCount ==
  \A c \in Callers :
    /\ pc[c] \in {"limiter", "sent"} => applied[c] < attempt[c]
    /\ pc[c] = "sleep" => applied[c] <= attempt[c] /\ attempt[c] < Retries

IInv == TypeOK /\ HoldSlept /\ TokensSpare /\ AttemptsCount

\* The delay is a number and no shorter than what Amberflo asked for.
LEMMA BackoffBounds ==
  ASSUME NEW n \in Nat, NEW asked \in Nat, NEW d \in backoff(n, asked)
  PROVE  d \in Nat /\ asked <= d
<1> DEFINE S == {e \in 0 .. 2 * RetryMax : e \in jitter(Exponential(n))}
<1>1. PICK e \in S : d = IF asked > e THEN asked ELSE e
  BY DEF backoff
<1>2. e \in Nat
  BY DEF S
<1> QED
  BY <1>1, <1>2

\* Init establishes the invariant.
LEMMA InitInv == Init => IInv
<1> SUFFICES ASSUME Init PROVE IInv
  OBVIOUS
<1>1. TypeOK
  BY DEF Init, TypeOK, Results
<1>2. HoldSlept /\ AttemptsCount
  BY DEF Init, HoldSlept, AttemptsCount
<1>3. TokensSpare
  BY DEF Init, TokensSpare
<1> QED
  BY <1>1, <1>2, <1>3 DEF IInv

\* Returning keeps a caller's part of the types and has nothing to sleep over.
LEMMA ReturnTypes ==
  ASSUME TypeOK, HoldSlept, NEW c \in Callers, NEW r \in Results, Return(c, r)
  PROVE  /\ pc' \in [Callers -> {"idle", "limiter", "sent", "sleep"}]
         /\ attempt' \in [Callers -> 1 .. Retries]
         /\ left' \in [Callers -> Nat]
         /\ result' \in [Callers -> Results]
         /\ hold' \in [Callers -> Nat]
         /\ HoldSlept'
BY DEF TypeOK, HoldSlept, Return

\* So does the decision after a transient failure; a caller that goes on to
\* sleep has a request left.
LEMMA RetryTypes ==
  ASSUME TypeOK, HoldSlept, NEW c \in Callers, NEW asked \in Nat, RetryOrGiveUp(c, asked)
  PROVE  /\ pc' \in [Callers -> {"idle", "limiter", "sent", "sleep"}]
         /\ attempt' = attempt
         /\ left' \in [Callers -> Nat]
         /\ result' \in [Callers -> Results]
         /\ hold' \in [Callers -> Nat]
         /\ HoldSlept'
         /\ \A b \in Callers \ {c} : pc'[b] = pc[b]
         /\ pc'[c] = "idle" \/ (pc'[c] = "sleep" /\ attempt[c] < Retries)
<1>1. CASE attempt[c] = Retries
  <2>1. Return(c, "transient")
    BY <1>1 DEF RetryOrGiveUp
  <2>2. attempt' = attempt /\ pc'[c] = "idle" /\ \A b \in Callers \ {c} : pc'[b] = pc[b]
    BY <2>1 DEF Return, TypeOK
  <2> QED
    BY <2>1, <2>2, ReturnTypes DEF Results
<1>2. CASE attempt[c] # Retries
  <2>1. PICK d \in backoff(attempt[c], asked) : left' = [left EXCEPT ![c] = d]
    BY <1>2 DEF RetryOrGiveUp
  <2>2. attempt[c] \in 1 .. Retries
    BY DEF TypeOK
  <2>3. d \in Nat /\ asked <= d
    BY <2>1, <2>2, BackoffBounds
  <2>4. /\ pc' = [pc EXCEPT ![c] = "sleep"]
        /\ hold' = [hold EXCEPT ![c] = asked]
        /\ UNCHANGED <<attempt, result>>
    BY <1>2 DEF RetryOrGiveUp
  <2>5. HoldSlept'
    BY <2>1, <2>3, <2>4 DEF HoldSlept, TypeOK
  <2> QED
    BY <1>2, <2>1, <2>2, <2>3, <2>4, <2>5 DEF TypeOK
<1> QED
  BY <1>1, <1>2

\* Every step keeps the invariant.
LEMMA StepInv == IInv /\ [Next]_vars => IInv'
<1> SUFFICES ASSUME IInv, [Next]_vars PROVE IInv'
  OBVIOUS
<1> USE DEF IInv
<1>1. ASSUME NEW c \in Callers, Call(c) PROVE IInv'
  <2>1. TypeOK'
    BY <1>1 DEF Call, TypeOK
  <2>2. HoldSlept' /\ AttemptsCount'
    BY <1>1 DEF Call, TypeOK, HoldSlept, AttemptsCount
  <2>3. TokensSpare'
    BY <1>1 DEF Call, TokensSpare
  <2> QED
    BY <2>1, <2>2, <2>3
<1>2. ASSUME NEW c \in Callers, Admit(c) PROVE IInv'
  <2>0. tokens \in Nat /\ tokens > 0 /\ tokens' = tokens - 1 /\ UNCHANGED <<cancelled, applied>>
    BY <1>2 DEF Admit, TypeOK
  <2>1. CASE /\ pc' = [pc EXCEPT ![c] = "sent"]
             /\ load' = [k \in 1 .. Window |-> load[k] + 1]
             /\ UNCHANGED <<attempt, left, result, hold>>
    <3>1. TypeOK'
      BY <2>0, <2>1 DEF TypeOK
    <3>2. HoldSlept' /\ AttemptsCount'
      BY <1>2, <2>0, <2>1 DEF Admit, TypeOK, HoldSlept, AttemptsCount
    <3>3. TokensSpare'
      BY <2>0, <2>1 DEF TypeOK, TokensSpare
    <3> QED
      BY <3>1, <3>2, <3>3
  <2>2. CASE Return(c, "permanent") /\ UNCHANGED load
    <3>1. TypeOK' /\ HoldSlept'
      <4>1. "permanent" \in Results
        BY DEF Results
      <4>2. tokens' \in 0 .. Burst /\ load' = load /\ cancelled' = cancelled /\ applied' = applied
        BY <2>0, <2>2 DEF TypeOK
      <4> QED
        BY <2>2, <4>1, <4>2, ReturnTypes DEF TypeOK
    <3>2. AttemptsCount'
      BY <2>0, <2>2 DEF Return, TypeOK, AttemptsCount
    <3>3. TokensSpare'
      <4> SUFFICES ASSUME NEW k \in 1 .. Window PROVE load'[k] + tokens' <= Burst + k - 1
        BY DEF TokensSpare
      <4>1. load[k] \in Nat /\ load[k] + tokens <= Burst + k - 1 /\ load' = load
        BY <2>2 DEF TypeOK, TokensSpare
      <4> QED
        BY <2>0, <4>1
    <3> QED
      BY <3>1, <3>2, <3>3
  <2> QED
    BY <1>2, <2>1, <2>2 DEF Admit
<1>3. ASSUME NEW c \in Callers, Answer2xx(c) PROVE IInv'
  <2>1. PICK r \in Results : Return(c, r)
    BY <1>3 DEF Answer2xx, Results
  <2>2. applied' = [applied EXCEPT ![c] = @ + 1] /\ applied[c] < attempt[c]
    BY <1>3 DEF Answer2xx, Applied, AttemptsCount
  <2>3. TypeOK' /\ HoldSlept'
    <3>1. applied' \in [Callers -> 0 .. Retries]
      BY <2>2 DEF TypeOK
    <3>2. UNCHANGED <<cancelled, tokens, load>>
      BY <1>3 DEF Answer2xx
    <3> QED
      BY <2>1, <3>1, <3>2, ReturnTypes DEF TypeOK
  <2>4. AttemptsCount'
    BY <2>1, <2>2 DEF Return, TypeOK, AttemptsCount
  <2>5. TokensSpare'
    BY <1>3 DEF Answer2xx, TokensSpare
  <2> QED
    BY <2>3, <2>4, <2>5
<1>4. ASSUME NEW c \in Callers, Answer4xx(c) PROVE IInv'
  <2>1. TypeOK' /\ HoldSlept'
    BY <1>4, ReturnTypes DEF Answer4xx, TypeOK, Results
  <2>2. AttemptsCount' /\ TokensSpare'
    BY <1>4 DEF Answer4xx, Return, TypeOK, AttemptsCount, TokensSpare
  <2> QED
    BY <2>1, <2>2
<1>5. ASSUME NEW c \in Callers, NEW asked \in Nat, pc[c] = "sent", MayApply(c),
             RetryOrGiveUp(c, asked), UNCHANGED <<cancelled, tokens, load>>
      PROVE  IInv'
  <2>1. applied[c] < attempt[c]
    BY <1>5 DEF AttemptsCount
  <2>2. /\ applied' \in [Callers -> 0 .. Retries]
        /\ applied'[c] <= attempt[c]
        /\ \A b \in Callers \ {c} : applied'[b] = applied[b]
    <3>1. applied[c] \in 0 .. Retries /\ attempt[c] \in 1 .. Retries
      BY DEF TypeOK
    <3>2. CASE applied' = applied
      BY <2>1, <3>1, <3>2 DEF TypeOK
    <3>3. CASE applied' = [applied EXCEPT ![c] = @ + 1]
      BY <2>1, <3>1, <3>3 DEF TypeOK
    <3> QED
      BY <1>5, <3>2, <3>3 DEF MayApply, Applied
  <2>3. TypeOK' /\ HoldSlept'
    BY <1>5, <2>2, RetryTypes DEF TypeOK
  <2>4. /\ attempt' = attempt
        /\ \A b \in Callers \ {c} : pc'[b] = pc[b]
        /\ pc'[c] = "idle" \/ (pc'[c] = "sleep" /\ attempt[c] < Retries)
    BY <1>5, RetryTypes
  <2>5. AttemptsCount'
    BY <2>2, <2>4 DEF AttemptsCount
  <2>6. TokensSpare'
    BY <1>5 DEF TokensSpare
  <2> QED
    BY <2>3, <2>5, <2>6
<1>6. ASSUME NEW c \in Callers, Answer429(c) \/ Answer5xx(c) \/ NoAnswer(c) PROVE IInv'
  <2>1. \E asked \in Nat :
          /\ pc[c] = "sent" /\ MayApply(c) /\ RetryOrGiveUp(c, asked)
          /\ UNCHANGED <<cancelled, tokens, load>>
    BY <1>6 DEF Answer429, Answer5xx, NoAnswer, MayApply
  <2> QED
    BY <2>1, <1>5
<1>7. ASSUME NEW c \in Callers, Wake(c) PROVE IInv'
  <2>1. TypeOK'
    BY <1>7 DEF Wake, TypeOK, AttemptsCount
  <2>2. HoldSlept' /\ AttemptsCount'
    BY <1>7 DEF Wake, TypeOK, HoldSlept, AttemptsCount
  <2>3. TokensSpare'
    BY <1>7 DEF Wake, TokensSpare
  <2> QED
    BY <2>1, <2>2, <2>3
<1>8. ASSUME NEW c \in Callers, Abandon(c) PROVE IInv'
  <2>1. TypeOK' /\ HoldSlept'
    BY <1>8, ReturnTypes DEF Abandon, TypeOK, Results
  <2>2. AttemptsCount' /\ TokensSpare'
    BY <1>8 DEF Abandon, Return, TypeOK, AttemptsCount, TokensSpare
  <2> QED
    BY <2>1, <2>2
<1>9. ASSUME NEW c \in Callers, Cancel(c) PROVE IInv'
  BY <1>9 DEF Cancel, TypeOK, HoldSlept, AttemptsCount, TokensSpare
<1>10. CASE Tick
  <2>1. /\ \A c \in Callers : left'[c] = IF left[c] > 0 THEN left[c] - 1 ELSE 0
        /\ \A c \in Callers : hold'[c] = IF hold[c] > 0 THEN hold[c] - 1 ELSE 0
        /\ left' \in [Callers -> Nat] /\ hold' \in [Callers -> Nat]
    BY <1>10 DEF Tick, CountDown, TypeOK
  <2>2. TypeOK'
    <3>1. load' \in [1 .. Window -> Nat] /\ tokens' \in 0 .. Burst
      BY <1>10 DEF Tick, TypeOK
    <3> QED
      BY <1>10, <2>1, <3>1 DEF Tick, TypeOK
  <2>3. HoldSlept'
    BY <1>10, <2>1 DEF Tick, TypeOK, HoldSlept
  <2>4. AttemptsCount'
    BY <1>10 DEF Tick, AttemptsCount
  <2>5. TokensSpare'
    <3> SUFFICES ASSUME NEW k \in 1 .. Window PROVE load'[k] + tokens' <= Burst + k - 1
      BY DEF TokensSpare
    <3>1. CASE k = 1
      BY <1>10, <3>1 DEF Tick, TypeOK
    <3>2. CASE k # 1
      <4>1. k - 1 \in 1 .. Window /\ load[k - 1] \in Nat /\ load'[k] = load[k - 1]
        BY <1>10, <3>2 DEF Tick, TypeOK
      <4>2. load[k - 1] + tokens <= Burst + (k - 1) - 1
        BY <4>1 DEF TokensSpare
      <4> QED
        BY <1>10, <4>1, <4>2 DEF Tick, TypeOK
    <3> QED
      BY <3>1, <3>2
  <2> QED
    BY <2>2, <2>3, <2>4, <2>5
<1>11. CASE UNCHANGED vars
  BY <1>11 DEF vars, TypeOK, HoldSlept, AttemptsCount, TokensSpare
<1> QED
  BY <1>1, <1>2, <1>3, <1>4, <1>6, <1>7, <1>8, <1>9, <1>10, <1>11 DEF Next, Answer

\* The invariant holds throughout.
LEMMA Invariance == Spec => []IInv
BY InitInv, StepInv, PTL DEF Spec

-----------------------------------------------------------------------------

\* The variables of doJSON's callers and of the limiter keep their types: no
\* call makes more than Retries requests, or is applied more often.
THEOREM TypeCorrect == Spec => []TypeOK
<1>1. IInv => TypeOK
  BY DEF IInv
<1> QED
  BY <1>1, Invariance, PTL

\* For any number of goroutines that call and retry, an interval of k ticks
\* sees at most a full bucket and its refill (ratelimit.go:21-23).
THEOREM BudgetKept == Spec => []RateBudget
<1>1. IInv => RateBudget
  <2> SUFFICES ASSUME IInv, NEW k \in 1 .. Window PROVE load[k] <= Burst + k - 1
    BY DEF RateBudget
  <2>1. load[k] \in Nat /\ tokens \in Nat /\ load[k] + tokens <= Burst + k - 1
    BY DEF IInv, TypeOK, TokensSpare
  <2> QED
    BY <2>1
<1> QED
  BY <1>1, Invariance, PTL

\* No caller sends before the wait Amberflo asked it for is over, whatever the
\* backoff and its jitter (client.go:421-425).
THEOREM RetryAfterIsHonoured == Spec => []RetryAfterHonoured
<1>1. IInv => RetryAfterHonoured
  BY DEF IInv, HoldSlept, RetryAfterHonoured
<1> QED
  BY <1>1, Invariance, PTL

-----------------------------------------------------------------------------
(* HttpClient implements ApiCall.                                          *)

phaseBar == [c \in Callers |-> IF pc[c] = "idle" THEN result[c] ELSE "running"]

\* A step of a caller that is inside doJSON, with n more applications and the
\* outcome r, is a Progress step of its call.
LEMMA ProgressStep ==
  ASSUME TypeOK, NEW c \in Callers, NEW n \in {0, 1}, NEW r \in Results \cup {"running"},
         pc[c] # "idle",
         applied' = [applied EXCEPT ![c] = @ + n], applied[c] + n <= Retries,
         r = "ok" => applied[c] + n >= 1,
         r = "cancelled" => cancelled[c],
         phaseBar' = [phaseBar EXCEPT ![c] = r],
         UNCHANGED cancelled
  PROVE  CallOf!Progress(c)
<1>1. phaseBar[c] = "running"
  BY DEF phaseBar
<1> QED
  BY <1>1 DEF CallOf!Progress, CallOf!Results, phaseBar, Results

\* Returning is, to the caller, the result.
LEMMA ReturnPhase ==
  ASSUME TypeOK, NEW c \in Callers, NEW r, Return(c, r)
  PROVE  phaseBar' = [phaseBar EXCEPT ![c] = r]
BY DEF TypeOK, Return, phaseBar

\* Going on is, to the caller, still running.
LEMMA RunningPhase ==
  ASSUME TypeOK, NEW c \in Callers, NEW l \in {"limiter", "sent", "sleep"},
         pc' = [pc EXCEPT ![c] = l], UNCHANGED result
  PROVE  phaseBar' = [phaseBar EXCEPT ![c] = "running"]
BY DEF TypeOK, phaseBar

\* A transient failure is either of the two.
LEMMA RetryPhase ==
  ASSUME TypeOK, NEW c \in Callers, NEW asked, RetryOrGiveUp(c, asked)
  PROVE  \E r \in {"transient", "running"} : phaseBar' = [phaseBar EXCEPT ![c] = r]
<1>1. CASE attempt[c] = Retries
  BY <1>1, ReturnPhase DEF RetryOrGiveUp
<1>2. CASE attempt[c] # Retries
  BY <1>2, RunningPhase DEF RetryOrGiveUp
<1> QED
  BY <1>1, <1>2

\* Every step of doJSON is a step of the abstract call or leaves it alone.
LEMMA StepSimulates == IInv /\ [Next]_vars => [CallOf!Next]_(CallOf!vars)
<1> SUFFICES ASSUME IInv, [Next]_vars PROVE CallOf!Next \/ UNCHANGED <<phaseBar, applied, cancelled>>
  BY DEF CallOf!vars, phaseBar
<1>0. TypeOK /\ AttemptsCount
  BY DEF IInv
<1>1. ASSUME NEW c \in Callers, Call(c) PROVE CallOf!Begin(c)
  <2>1. phaseBar' = [phaseBar EXCEPT ![c] = "running"]
    BY <1>0, <1>1, RunningPhase, "limiter" \in {"limiter", "sent", "sleep"} DEF Call
  <2>2. phaseBar[c] # "running"
    BY <1>0, <1>1 DEF Call, TypeOK, Results, phaseBar
  <2> QED
    BY <1>1, <2>1, <2>2 DEF Call, CallOf!Begin, phaseBar
<1>2. ASSUME NEW c \in Callers, NEW n \in {0, 1}, NEW r \in {"ok", "permanent", "transient", "running"},
             pc[c] = "sent", applied' = [applied EXCEPT ![c] = @ + n],
             phaseBar' = [phaseBar EXCEPT ![c] = r], UNCHANGED cancelled,
             r = "ok" => n = 1
      PROVE  CallOf!Progress(c)
  <2>1. applied[c] < attempt[c] /\ applied[c] \in 0 .. Retries /\ attempt[c] \in 1 .. Retries
    BY <1>0, <1>2 DEF TypeOK, AttemptsCount
  <2>2. applied[c] + n <= Retries /\ (r = "ok" => applied[c] + n >= 1)
    BY <1>2, <2>1
  <2>3. r \in Results \cup {"running"} /\ r # "cancelled"
    BY DEF Results
  <2> QED
    BY <1>0, <1>2, <2>2, <2>3, ProgressStep
<1>3. ASSUME NEW c \in Callers, NEW r \in Results \cup {"running"}, r # "ok", pc[c] # "idle",
             phaseBar' = [phaseBar EXCEPT ![c] = r], UNCHANGED <<applied, cancelled>>,
             r = "cancelled" => cancelled[c]
      PROVE  CallOf!Progress(c)
  <2>1. applied' = [applied EXCEPT ![c] = @ + 0] /\ applied[c] + 0 <= Retries
    BY <1>0, <1>3 DEF TypeOK
  <2> QED
    BY <1>0, <1>3, <2>1, ProgressStep
<1>4. ASSUME NEW c \in Callers, Admit(c) PROVE CallOf!Progress(c)
  <2>1. \E r \in {"permanent", "running"} : phaseBar' = [phaseBar EXCEPT ![c] = r]
    BY <1>0, <1>4, ReturnPhase, RunningPhase, "sent" \in {"limiter", "sent", "sleep"} DEF Admit
  <2> QED
    BY <1>3, <1>4, <2>1 DEF Admit, Results
<1>5. ASSUME NEW c \in Callers, Answer2xx(c) PROVE CallOf!Progress(c)
  <2>1. \E r \in {"ok", "permanent"} : phaseBar' = [phaseBar EXCEPT ![c] = r]
    BY <1>0, <1>5, ReturnPhase DEF Answer2xx
  <2> QED
    BY <1>2, <1>5, <2>1 DEF Answer2xx, Applied
<1>6. ASSUME NEW c \in Callers, Answer4xx(c) PROVE CallOf!Progress(c)
  BY <1>0, <1>3, <1>6, ReturnPhase DEF Answer4xx, Results
<1>7. ASSUME NEW c \in Callers, Answer429(c) \/ Answer5xx(c) \/ NoAnswer(c)
      PROVE  CallOf!Progress(c)
  <2>1. pc[c] = "sent" /\ UNCHANGED cancelled /\ MayApply(c)
    BY <1>7 DEF Answer429, Answer5xx, NoAnswer, MayApply
  <2>2. \E r \in {"transient", "running"} : phaseBar' = [phaseBar EXCEPT ![c] = r]
    BY <1>0, <1>7, RetryPhase DEF Answer429, Answer5xx, NoAnswer
  <2>3. CASE Applied(c)
    BY <1>2, <2>1, <2>2, <2>3 DEF Applied
  <2>4. CASE UNCHANGED applied
    BY <1>3, <2>1, <2>2, <2>4 DEF Results
  <2> QED
    BY <2>1, <2>3, <2>4 DEF MayApply
<1>8. ASSUME NEW c \in Callers, Wake(c) PROVE CallOf!Progress(c)
  <2>1. phaseBar' = [phaseBar EXCEPT ![c] = "running"]
    BY <1>0, <1>8, RunningPhase, "limiter" \in {"limiter", "sent", "sleep"} DEF Wake
  <2> QED
    BY <1>3, <1>8, <2>1 DEF Wake
<1>9. ASSUME NEW c \in Callers, Abandon(c) PROVE CallOf!Progress(c)
  BY <1>0, <1>3, <1>9, ReturnPhase DEF Abandon, Results
<1>10. ASSUME NEW c \in Callers, Cancel(c) PROVE CallOf!Cancel(c)
  BY <1>0, <1>10 DEF Cancel, CallOf!Cancel, phaseBar
<1>11. CASE Tick
  BY <1>11 DEF Tick, phaseBar
<1>12. CASE UNCHANGED vars
  BY <1>12 DEF vars, phaseBar
<1> QED
  BY <1>1, <1>4, <1>5, <1>6, <1>7, <1>8, <1>9, <1>10, <1>11, <1>12
     DEF Next, Answer, CallOf!Next

\* To its caller doJSON is one call: success means applied, nothing is applied
\* after the return, and one call is applied at most Retries times
\* (client.go:333-407).
THEOREM DoJSONIsACall == Spec => ImplementsCall
<1>1. Init => CallOf!Init
  BY DEF Init, CallOf!Init
<1> QED
  BY <1>1, StepSimulates, Invariance, PTL DEF Spec, ImplementsCall, CallOf!Spec
==============================================================================
