------------------------- MODULE SubmissionConsumer -------------------------
(***************************************************************************)
(* The usage submission consumer (internal/submission/submission.go): pods *)
(* that pull CloudEvents from one durable JetStream consumer, turn each    *)
(* into an Amberflo usage record, submit the records in batches and settle *)
(* every message with an ack or a delayed nak.                             *)
(*                                                                         *)
(* JetStream and Amberflo's ingest endpoint are external; they are         *)
(* modelled by what the consumer relies on: explicit acks, redelivery      *)
(* after AckWait or after a nak's delay, deduplication on uniqueId.        *)
(* Leader election is off (cmd/submission-consumer/main.go:136), so two    *)
(* pods share the durable consumer while a rolling update overlaps them.   *)
(***************************************************************************)
EXTENDS Naturals, FiniteSets

CONSTANTS
  Messages,       \* messages of the billing usage stream
  Pods,           \* processes running SubmissionConsumer.Start
  CeId, CeTime,   \* CloudEvent id and time carried by each message
  AccountRef,     \* billingaccountref extension of each message
  MeterName,      \* CloudEvent type of each message
  CeIds, Times, AccountNames, MeterNames,
  Uids,           \* BillingAccount UIDs, the Amberflo customer ids
  ApiNames,       \* Amberflo meterApiNames
  None,
  BadEnvelope,    \* messages with no parsable CloudEvent or no account ref
  BadPayload,     \* messages whose data, value or time cannot be converted
  Rejected,       \* CloudEvent ids whose record Amberflo answers with a 4xx
  FetchBatch,
  MaxFaults       \* bound on faults: lost acks, failed calls, restarts

ASSUME MessagesAssumption ==
  /\ CeId \in [Messages -> CeIds]
  /\ CeTime \in [Messages -> Times]
  /\ AccountRef \in [Messages -> AccountNames]
  /\ MeterName \in [Messages -> MeterNames]
  /\ BadEnvelope \subseteq Messages
  /\ BadPayload \subseteq Messages
  /\ Rejected \subseteq CeIds

\* A redelivered or republished event keeps the time it was emitted with.
ASSUME SameEventSameTime ==
  \A m, n \in Messages : CeId[m] = CeId[n] => CeTime[m] = CeTime[n]

ASSUME NoneAssumption == None \notin Uids \cup ApiNames
ASSUME BoundsAssumption == FetchBatch \in Nat \ {0} /\ MaxFaults \in Nat

VARIABLES
  delivery,       \* JetStream's view of each message
  accountIndex,   \* BillingAccountCache.uidByName
  meterIndex,     \* MeterDefinitionCache.apiNameByMeterName
  pc,             \* where each pod is in Start / processMessages
  stopping,       \* the pod's context is cancelled
  keyValid,       \* Amberflo still accepts the API key the pod loaded
  batch,          \* fetched messages not yet through prepareRecord
  validated,      \* validatedRecords with their messages, not yet settled
  current,        \* the record the individual fallback has just submitted
  ledger,         \* usage records Amberflo has ingested
  denied,         \* ids of events a pod submitted alone and got 401/403 for
  faults          \* faults spent

vars == <<delivery, accountIndex, meterIndex, pc, stopping, keyValid, batch,
          validated, current, ledger, denied, faults>>

Record == [msg : Messages, uniqueID : Times \X CeIds,
           customer : Uids, meter : ApiNames]

PodStates == {"stopped", "fetching", "preparing", "submitting", "acking",
              "naking", "isolating", "isolatedAck", "isolatedNak"}

TypeOK ==
  /\ delivery \in [Messages -> {"pending", "inflight", "delayed", "acked"}]
  /\ accountIndex \in [AccountNames -> Uids \cup {None}]
  /\ meterIndex \in [MeterNames -> ApiNames \cup {None}]
  /\ pc \in [Pods -> PodStates]
  /\ stopping \in [Pods -> BOOLEAN]
  /\ keyValid \in [Pods -> BOOLEAN]
  /\ batch \in [Pods -> SUBSET Messages]
  /\ validated \in [Pods -> SUBSET Record]
  /\ current \in [Pods -> Record \cup {None}]
  /\ \A p \in Pods : pc[p] \in {"isolatedAck", "isolatedNak"} => current[p] \in Record
  /\ ledger \subseteq Record
  /\ denied \subseteq CeIds
  /\ faults \in 0 .. MaxFaults

Init ==
  /\ delivery = [m \in Messages |-> "pending"]
  /\ accountIndex = [a \in AccountNames |-> None]
  /\ meterIndex = [n \in MeterNames |-> None]
  /\ pc = [p \in Pods |-> "stopped"]
  /\ stopping = [p \in Pods |-> FALSE]
  /\ keyValid = [p \in Pods |-> FALSE]
  /\ batch = [p \in Pods |-> {}]
  /\ validated = [p \in Pods |-> {}]
  /\ current = [p \in Pods |-> None]
  /\ ledger = {}
  /\ denied = {}
  /\ faults = 0

-----------------------------------------------------------------------------
(* Small pieces the actions are made of.                                   *)

\* One unit of the fault bound.
SpendFault == faults < MaxFaults /\ faults' = faults + 1

\* The idempotency key: the CloudEvent time and a hash of its id, nothing of
\* the message, of the delivery or of what the indexes resolve to.
ulidFromEventID(id, t) == <<t, id>>

\* The account or the meter of a message is not in its index.
Unresolved(m) ==
  accountIndex[AccountRef[m]] = None \/ meterIndex[MeterName[m]] = None

\* Variants of PrepareOutcome: the meter lookup forgotten, a cache miss taken
\* for permanent, a bad payload taken for a miss.
PrepareIgnoringMeter(m) ==
  IF m \in BadEnvelope THEN "permanent"
  ELSE IF accountIndex[AccountRef[m]] = None THEN "miss"
  ELSE IF m \in BadPayload THEN "permanent" ELSE "record"
PrepareDiscardingMisses(m) ==
  IF m \in BadEnvelope \/ Unresolved(m) \/ m \in BadPayload THEN "permanent" ELSE "record"
PrepareRetryingPayload(m) ==
  IF m \in BadEnvelope THEN "permanent"
  ELSE IF Unresolved(m) \/ m \in BadPayload THEN "miss" ELSE "record"

\* What prepareRecord makes of a message, in the order of its checks: a bad
\* envelope and a bad payload are permanent, an unresolved reference between
\* them is not. The two indexes are read in one step.
PrepareOutcome(m) ==
  IF m \in BadEnvelope THEN "permanent"
  ELSE IF Unresolved(m) THEN "miss"
  ELSE IF m \in BadPayload THEN "permanent" ELSE "record"

\* Variant of UsageRecord: an idempotency key that depends on the customer.
RecordKeyedByCustomer(m) ==
  [msg |-> m, uniqueID |-> ulidFromEventID(CeId[m], accountIndex[AccountRef[m]]),
   customer |-> accountIndex[AccountRef[m]], meter |-> meterIndex[MeterName[m]]]

UsageRecord(m) ==
  [msg |-> m, uniqueID |-> ulidFromEventID(CeId[m], CeTime[m]),
   customer |-> accountIndex[AccountRef[m]], meter |-> meterIndex[MeterName[m]]]

\* An ack removes the message whichever delivery it answers.
Acked(m) == [delivery EXCEPT ![m] = "acked"]

\* A nak of a message that another pod has acked meanwhile is ignored.
Naked(m) == [delivery EXCEPT ![m] = IF @ = "acked" THEN @ ELSE "delayed"]

\* Ack() and NakWithDelay() errors are only logged: the call may be lost.
AckMessage(m) ==
  \/ delivery' = Acked(m) /\ UNCHANGED faults
  \/ SpendFault /\ UNCHANGED delivery

NakMessage(m) ==
  \/ delivery' = Naked(m) /\ UNCHANGED faults
  \/ SpendFault /\ UNCHANGED delivery

-----------------------------------------------------------------------------
(* Amberflo's ingest endpoint behind SubmitUsage.                          *)

IsRejected(r) == CeId[r.msg] \in Rejected

\* Records are deduplicated on uniqueId, against the ledger and each other.
Fresh(T) ==
  /\ \A r \in T : \A e \in ledger : e.uniqueID # r.uniqueID
  /\ \A r, s \in T : r.uniqueID = s.uniqueID => r = s

\* A call that fails may still have ingested any part of what it carried.
IngestSome(p, S) ==
  \E T \in SUBSET {r \in S : keyValid[p] /\ ~IsRejected(r)} :
    Fresh(T) /\ ledger' = ledger \cup T

\* 2xx: every record is in the ledger, now or already.
SubmitSucceeds(p, S) ==
  /\ keyValid[p]
  /\ \A r \in S : ~IsRejected(r)
  /\ \E T \in SUBSET S :
       /\ Fresh(T)
       /\ \A r \in S : \E e \in ledger \cup T : e.uniqueID = r.uniqueID
       /\ ledger' = ledger \cup T
  /\ UNCHANGED faults

\* classify: a revoked key (401, 403) is as permanent as a bad record (4xx);
\* a request of several records can also be refused as a whole (413).
SubmitPermanentError(p, S) ==
  /\ \/ ~keyValid[p] /\ UNCHANGED faults
     \/ (\E r \in S : IsRejected(r)) /\ UNCHANGED faults
     \/ (\E r, s \in S : r # s) /\ SpendFault
  /\ IngestSome(p, S)

\* Retries exhausted on 429, 5xx or the network, or the context is cancelled.
SubmitOtherError(p, S) ==
  /\ \/ SpendFault
     \/ stopping[p] /\ UNCHANGED faults
  /\ IngestSome(p, S)

-----------------------------------------------------------------------------
(* The pod.                                                                *)

\* Start: the informer caches are synced, the durable consumer exists, the
\* API key has been read from its Secret.
Start(p) ==
  /\ pc[p] = "stopped"
  /\ pc' = [pc EXCEPT ![p] = "fetching"]
  /\ stopping' = [stopping EXCEPT ![p] = FALSE]
  /\ keyValid' = [keyValid EXCEPT ![p] = TRUE]
  /\ UNCHANGED <<delivery, accountIndex, meterIndex, batch, validated,
                 current, ledger, denied, faults>>

\* One turn of the loop: up to FetchBatch messages. An empty fetch or a
\* fetch error goes round the loop again and changes nothing.
Fetch(p, B) ==
  /\ pc[p] = "fetching" /\ ~stopping[p]
  /\ B # {} /\ Cardinality(B) <= FetchBatch
  /\ \A m \in B : delivery[m] = "pending"
  /\ delivery' = [m \in Messages |-> IF m \in B THEN "inflight" ELSE delivery[m]]
  /\ batch' = [batch EXCEPT ![p] = B]
  /\ validated' = [validated EXCEPT ![p] = {}]
  /\ pc' = [pc EXCEPT ![p] = "preparing"]
  /\ UNCHANGED <<accountIndex, meterIndex, stopping, keyValid, current,
                 ledger, denied, faults>>

\* The loop condition: a cancelled context ends the pod between two batches.
ExitLoop(p) ==
  /\ pc[p] = "fetching" /\ stopping[p]
  /\ pc' = [pc EXCEPT ![p] = "stopped"]
  /\ UNCHANGED <<delivery, accountIndex, meterIndex, stopping, keyValid, batch,
                 validated, current, ledger, denied, faults>>

\* Where processMessages goes once a message is through the prepare loop.
AfterPrepare(rest, records) ==
  IF rest # {} THEN "preparing"
  ELSE IF records = {} THEN "fetching" ELSE "submitting"

\* One iteration of the prepare loop.
Prepare(p) ==
  /\ pc[p] = "preparing"
  /\ \E m \in batch[p] :
       /\ batch' = [batch EXCEPT ![p] = @ \ {m}]
       /\ \/ /\ PrepareOutcome(m) = "permanent"
             /\ AckMessage(m)
             /\ UNCHANGED validated
          \/ /\ PrepareOutcome(m) = "miss"
             /\ NakMessage(m)
             /\ UNCHANGED validated
          \/ /\ PrepareOutcome(m) = "record"
             /\ validated' = [validated EXCEPT ![p] = @ \cup {UsageRecord(m)}]
             /\ UNCHANGED <<delivery, faults>>
       /\ pc' = [pc EXCEPT ![p] = AfterPrepare(batch'[p], validated'[p])]
  /\ UNCHANGED <<accountIndex, meterIndex, stopping, keyValid, current, ledger,
                 denied>>

\* Variants of AfterBatchPermanentError: discard the batch, retry the batch.
DiscardBatch == "acking"
RetryBatch == "naking"

\* After a permanent error the records of the batch are submitted one by one.
AfterBatchPermanentError == "isolating"

\* The batch call and the branches after it: ack all, isolate, nak all.
SubmitBatch(p) ==
  /\ pc[p] = "submitting"
  /\ \/ /\ SubmitSucceeds(p, validated[p])
        /\ pc' = [pc EXCEPT ![p] = "acking"]
     \/ /\ SubmitPermanentError(p, validated[p])
        /\ pc' = [pc EXCEPT ![p] = AfterBatchPermanentError]
     \/ /\ SubmitOtherError(p, validated[p])
        /\ pc' = [pc EXCEPT ![p] = "naking"]
  /\ UNCHANGED <<delivery, accountIndex, meterIndex, stopping, keyValid, batch,
                 validated, current, denied>>

\* The loop over validatedMsgs after a batch call that decided for all.
SettleBatch(p) ==
  /\ pc[p] \in {"acking", "naking"}
  /\ \E r \in validated[p] :
       /\ IF pc[p] = "acking" THEN AckMessage(r.msg) ELSE NakMessage(r.msg)
       /\ validated' = [validated EXCEPT ![p] = @ \ {r}]
       /\ pc' = [pc EXCEPT ![p] = IF validated'[p] = {} THEN "fetching" ELSE @]
  /\ UNCHANGED <<accountIndex, meterIndex, stopping, keyValid, batch, current,
                 ledger, denied>>

\* The fallback: one record on its own.
SubmitIsolated(p) ==
  /\ pc[p] = "isolating"
  /\ \E r \in validated[p] :
       /\ current' = [current EXCEPT ![p] = r]
       /\ validated' = [validated EXCEPT ![p] = @ \ {r}]
       /\ \/ /\ SubmitSucceeds(p, {r})
             /\ pc' = [pc EXCEPT ![p] = "isolatedAck"]
             /\ UNCHANGED denied
          \/ /\ SubmitPermanentError(p, {r})
             /\ pc' = [pc EXCEPT ![p] = "isolatedAck"]
             /\ denied' = IF keyValid[p] THEN denied ELSE denied \cup {CeId[r.msg]}
          \/ /\ SubmitOtherError(p, {r})
             /\ pc' = [pc EXCEPT ![p] = "isolatedNak"]
             /\ UNCHANGED denied
  /\ UNCHANGED <<delivery, accountIndex, meterIndex, stopping, keyValid, batch>>

\* The ack (accepted, or discarded as permanent) or the nak that follows it.
SettleIsolated(p) ==
  /\ \/ pc[p] = "isolatedAck" /\ AckMessage(current[p].msg)
     \/ pc[p] = "isolatedNak" /\ NakMessage(current[p].msg)
  /\ current' = [current EXCEPT ![p] = None]
  /\ pc' = [pc EXCEPT ![p] = IF validated[p] = {} THEN "fetching" ELSE "isolating"]
  /\ UNCHANGED <<accountIndex, meterIndex, stopping, keyValid, batch, validated,
                 ledger, denied>>

\* SIGTERM: the manager cancels the context; the batch in hand is finished.
Shutdown(p) ==
  /\ pc[p] # "stopped" /\ ~stopping[p]
  /\ SpendFault
  /\ stopping' = [stopping EXCEPT ![p] = TRUE]
  /\ UNCHANGED <<delivery, accountIndex, meterIndex, pc, keyValid, batch,
                 validated, current, ledger, denied>>

\* The process dies with whatever it had in memory.
Crash(p) ==
  /\ pc[p] # "stopped"
  /\ SpendFault
  /\ pc' = [pc EXCEPT ![p] = "stopped"]
  /\ stopping' = [stopping EXCEPT ![p] = FALSE]
  /\ batch' = [batch EXCEPT ![p] = {}]
  /\ validated' = [validated EXCEPT ![p] = {}]
  /\ current' = [current EXCEPT ![p] = None]
  /\ UNCHANGED <<delivery, accountIndex, meterIndex, keyValid, ledger, denied>>

-----------------------------------------------------------------------------
(* The surroundings: JetStream's timers, Amberflo's keys, the informers.   *)

\* No ack within AckWait of the delivery: the message is delivered again,
\* also while the pod it was delivered to is still working on it.
AckWaitExpires(m) ==
  /\ delivery[m] = "inflight"
  /\ delivery' = [delivery EXCEPT ![m] = "pending"]
  /\ UNCHANGED <<accountIndex, meterIndex, pc, stopping, keyValid, batch,
                 validated, current, ledger, denied, faults>>

\* RetryAfter has passed since the nak.
DelayElapses(m) ==
  /\ delivery[m] = "delayed"
  /\ delivery' = [delivery EXCEPT ![m] = "pending"]
  /\ UNCHANGED <<accountIndex, meterIndex, pc, stopping, keyValid, batch,
                 validated, current, ledger, denied, faults>>

\* The key is rotated at Amberflo; running pods keep the one they loaded.
RotateKey ==
  /\ SpendFault
  /\ \E p \in Pods : keyValid[p]
  /\ keyValid' = [p \in Pods |-> FALSE]
  /\ UNCHANGED <<delivery, accountIndex, meterIndex, pc, stopping, batch,
                 validated, current, ledger, denied>>

\* The informers add, replace or remove an entry (module SubmissionCaches).
ChangeIndex ==
  /\ \/ \E a \in AccountNames, u \in Uids \cup {None} :
          /\ accountIndex' = [accountIndex EXCEPT ![a] = u]
          /\ UNCHANGED meterIndex
     \/ \E n \in MeterNames, x \in ApiNames \cup {None} :
          /\ meterIndex' = [meterIndex EXCEPT ![n] = x]
          /\ UNCHANGED accountIndex
  /\ UNCHANGED <<delivery, pc, stopping, keyValid, batch, validated, current,
                 ledger, denied, faults>>

-----------------------------------------------------------------------------

\* What a running pod does by itself once it has a batch.
Work(p) ==
  Prepare(p) \/ SubmitBatch(p) \/ SettleBatch(p) \/ SubmitIsolated(p)
    \/ SettleIsolated(p) \/ ExitLoop(p)

FetchAny(p) == \E B \in SUBSET Messages : Fetch(p, B)

\* Everything but the informers.
Step ==
  \/ \E p \in Pods : Start(p) \/ FetchAny(p) \/ Work(p) \/ Shutdown(p) \/ Crash(p)
  \/ \E m \in Messages : AckWaitExpires(m) \/ DelayElapses(m)
  \/ RotateKey

Next == Step \/ ChangeIndex

\* The pods' own steps are fair: nothing but a fault, which the bound limits,
\* holds up the loop, and Kubernetes restarts a stopped pod. JetStream's
\* timers fire, and no pending message is passed over by every fetch.
Fairness ==
  /\ \A p \in Pods : WF_vars(Start(p)) /\ WF_vars(Work(p))
  /\ \A m \in Messages :
       /\ WF_vars(AckWaitExpires(m))
       /\ WF_vars(DelayElapses(m))
       /\ SF_vars(\E p \in Pods : \E B \in SUBSET Messages : m \in B /\ Fetch(p, B))

Spec == Init /\ [][Next]_vars

-----------------------------------------------------------------------------

Malformed(m) == m \in BadEnvelope \cup BadPayload
Billed(m) == \E e \in ledger : CeId[e.msg] = CeId[m]

\* A message leaves the stream only once its usage is in Amberflo, or it can
\* never be: it is malformed, Amberflo rejects its record, or Amberflo
\* refused the pod's key when the event was submitted on its own. Neither a
\* crash, a lost ack, a redelivery to another pod nor a failed batch loses
\* another one (processMessages, submission.go:307-396).
NoEventLost ==
  \A m \in Messages :
    delivery[m] = "acked" =>
      Malformed(m) \/ CeId[m] \in Rejected \cup denied \/ Billed(m)

\* No event is billed twice, however often it is delivered, to whichever pod,
\* and whatever its references resolve to each time (ingest.go:31-32).
BilledOnce == \A d, e \in ledger : CeId[d.msg] = CeId[e.msg] => d = e

\* The comment at submission.go:351: individual submissions isolate the bad
\* event so that no other event of the batch is discarded.
OnlyBadEventsDiscarded ==
  \A m \in Messages :
    delivery[m] = "acked" => Malformed(m) \/ CeId[m] \in Rejected \/ Billed(m)

\* The messages that are malformed or whose record Amberflo rejects.
UnbillableMessages == {m \in Messages : Malformed(m) \/ CeId[m] \in Rejected}

\* What the ledger holds of an event.
ChargesOf(id) == {<<e.customer, e.meter>> : e \in {r \in ledger : CeId[r.msg] = id}}

Ledger == INSTANCE UsageLedger WITH
  Events <- CeIds, EventOf <- CeId, Charges <- Uids \X ApiNames,
  Unbillable <- UnbillableMessages,
  charged <- [id \in CeIds |-> ChargesOf(id)],
  refused <- denied,
  settled <- {m \in Messages : delivery[m] = "acked"}

\* Pods, batches, the fallback, redelivery, lost acks and crashes together
\* implement the ledger: whatever they do, an event is charged once and to
\* one customer and meter, its charge stays, and its message is settled after
\* that or when it can never be charged (submission.go:307-396).
ImplementsLedger == Ledger!Spec
=============================================================================
