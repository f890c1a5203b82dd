---------------------- MODULE SubmissionConsumerProofs ----------------------
(***************************************************************************)
(* Proofs about SubmissionConsumer, for any messages, pods, references and *)
(* fault bound: type correctness, that no event is lost, that no event is  *)
(* billed twice, and that the consumer implements UsageLedger.             *)
(***************************************************************************)
EXTENDS SubmissionConsumer, TLAPS

-----------------------------------------------------------------------------
(* Type correctness.                                                       *)

\* A usage record is only built from references that resolve.
LEMMA UsageRecordType ==
  ASSUME TypeOK, NEW m \in Messages, PrepareOutcome(m) = "record"
  PROVE  UsageRecord(m) \in Record
  BY MessagesAssumption
  DEF TypeOK, PrepareOutcome, Unresolved, UsageRecord, Record, ulidFromEventID

\* Initially every variable has its type.
LEMMA InitTypeOK == Init => TypeOK
  BY BoundsAssumption DEF Init, TypeOK, PodStates

\* Whatever the outcome, SubmitUsage only adds submitted records to the ledger.
LEMMA SubmitTypes ==
  ASSUME TypeOK, NEW p \in Pods, NEW S \in SUBSET Record,
         \/ SubmitSucceeds(p, S)
         \/ SubmitPermanentError(p, S)
         \/ SubmitOtherError(p, S)
  PROVE  /\ ledger \subseteq ledger' /\ ledger' \subseteq ledger \cup S
         /\ ledger' \subseteq Record
         /\ faults' \in 0 .. MaxFaults
  BY BoundsAssumption
  DEF TypeOK, SubmitSucceeds, SubmitPermanentError, SubmitOtherError,
      IngestSome, SpendFault

\* An ack or a nak moves one message and spends at most one fault.
LEMMA SettleTypes ==
  ASSUME TypeOK, NEW m \in Messages, AckMessage(m) \/ NakMessage(m)
  PROVE  /\ delivery' \in [Messages -> {"pending", "inflight", "delayed", "acked"}]
         /\ faults' \in 0 .. MaxFaults
  BY BoundsAssumption
  DEF TypeOK, AckMessage, NakMessage, Acked, Naked, SpendFault

\* Every step of a pod or of its surroundings preserves the types.
LEMMA NextTypeOK == TypeOK /\ [Next]_vars => TypeOK'
<1> SUFFICES ASSUME TypeOK, [Next]_vars PROVE TypeOK'
  OBVIOUS
<1> USE BoundsAssumption DEF TypeOK, PodStates
<1>1. ASSUME NEW p \in Pods, Start(p) PROVE TypeOK'
  BY <1>1 DEF Start
<1>2. ASSUME NEW p \in Pods, NEW B \in SUBSET Messages, Fetch(p, B) PROVE TypeOK'
  BY <1>2 DEF Fetch
<1>3. ASSUME NEW p \in Pods, ExitLoop(p) PROVE TypeOK'
  BY <1>3 DEF ExitLoop
<1>4. ASSUME NEW p \in Pods, Prepare(p) PROVE TypeOK'
  <2>1. PICK m \in batch[p] :
          /\ batch' = [batch EXCEPT ![p] = @ \ {m}]
          /\ \/ /\ PrepareOutcome(m) = "permanent"
                /\ AckMessage(m)
                /\ UNCHANGED validated
             \/ /\ PrepareOutcome(m) = "miss"
                /\ NakMessage(m)
                /\ UNCHANGED validated
             \/ /\ PrepareOutcome(m) = "record"
                /\ validated' = [validated EXCEPT ![p] = @ \cup {UsageRecord(m)}]
                /\ UNCHANGED <<delivery, faults>>
          /\ pc' = [pc EXCEPT ![p] = AfterPrepare(batch'[p], validated'[p])]
    BY <1>4 DEF Prepare
  <2>2. m \in Messages
    OBVIOUS
  <2>3. validated' \in [Pods -> SUBSET Record]
    BY <2>1, <2>2, UsageRecordType
  <2>4. /\ delivery' \in [Messages -> {"pending", "inflight", "delayed", "acked"}]
        /\ faults' \in 0 .. MaxFaults
    BY <2>1, <2>2, SettleTypes
  <2>5. AfterPrepare(batch'[p], validated'[p]) \in {"preparing", "fetching", "submitting"}
    BY DEF AfterPrepare
  <2> QED
    BY <1>4, <2>1, <2>2, <2>3, <2>4, <2>5 DEF Prepare
<1>5. ASSUME NEW p \in Pods, SubmitBatch(p) PROVE TypeOK'
  <2>1. ledger' \subseteq Record /\ faults' \in 0 .. MaxFaults
    BY <1>5, SubmitTypes DEF SubmitBatch
  <2> QED
    BY <1>5, <2>1 DEF SubmitBatch, AfterBatchPermanentError
<1>6. ASSUME NEW p \in Pods, SettleBatch(p) PROVE TypeOK'
  <2>1. PICK r \in validated[p] :
          /\ IF pc[p] = "acking" THEN AckMessage(r.msg) ELSE NakMessage(r.msg)
          /\ validated' = [validated EXCEPT ![p] = @ \ {r}]
          /\ pc' = [pc EXCEPT ![p] = IF validated'[p] = {} THEN "fetching" ELSE @]
    BY <1>6 DEF SettleBatch
  <2>2. r.msg \in Messages
    BY DEF Record
  <2>3. /\ delivery' \in [Messages -> {"pending", "inflight", "delayed", "acked"}]
        /\ faults' \in 0 .. MaxFaults
    BY <2>1, <2>2, SettleTypes
  <2> QED
    BY <1>6, <2>1, <2>3 DEF SettleBatch
<1>7. ASSUME NEW p \in Pods, SubmitIsolated(p) PROVE TypeOK'
  <2>1. PICK r \in validated[p] :
          /\ current' = [current EXCEPT ![p] = r]
          /\ validated' = [validated EXCEPT ![p] = @ \ {r}]
          /\ \/ /\ SubmitSucceeds(p, {r})
                /\ pc' = [pc EXCEPT ![p] = "isolatedAck"]
                /\ UNCHANGED denied
             \/ /\ SubmitPermanentError(p, {r})
                /\ pc' = [pc EXCEPT ![p] = "isolatedAck"]
                /\ denied' = IF keyValid[p] THEN denied ELSE denied \cup {CeId[r.msg]}
             \/ /\ SubmitOtherError(p, {r})
                /\ pc' = [pc EXCEPT ![p] = "isolatedNak"]
                /\ UNCHANGED denied
    BY <1>7 DEF SubmitIsolated
  <2>2. r \in Record /\ {r} \in SUBSET Record
    OBVIOUS
  <2>3. ledger' \subseteq Record /\ faults' \in 0 .. MaxFaults
    BY <2>1, <2>2, SubmitTypes
  <2>4. denied' \subseteq CeIds
    BY <2>1, <2>2, MessagesAssumption DEF Record
  <2> QED
    BY <1>7, <2>1, <2>2, <2>3, <2>4 DEF SubmitIsolated
<1>8. ASSUME NEW p \in Pods, SettleIsolated(p) PROVE TypeOK'
  <2>1. current[p].msg \in Messages
    BY <1>8 DEF SettleIsolated, Record
  <2>2. /\ delivery' \in [Messages -> {"pending", "inflight", "delayed", "acked"}]
        /\ faults' \in 0 .. MaxFaults
    BY <1>8, <2>1, SettleTypes DEF SettleIsolated
  <2> QED
    BY <1>8, <2>2 DEF SettleIsolated
<1>9. ASSUME NEW p \in Pods, Shutdown(p) \/ Crash(p) PROVE TypeOK'
  <2>1. CASE Shutdown(p)
    BY <2>1 DEF Shutdown, SpendFault
  <2>2. CASE Crash(p)
    BY <2>2 DEF Crash, SpendFault
  <2> QED
    BY <1>9, <2>1, <2>2
<1>10. ASSUME NEW m \in Messages, AckWaitExpires(m) \/ DelayElapses(m) PROVE TypeOK'
  BY <1>10 DEF AckWaitExpires, DelayElapses
<1>11. CASE RotateKey
  BY <1>11 DEF RotateKey, SpendFault
<1>12. CASE ChangeIndex
  BY <1>12 DEF ChangeIndex
<1>13. CASE UNCHANGED vars
  BY <1>13 DEF vars
<1> QED
  BY <1>1, <1>2, <1>3, <1>4, <1>5, <1>6, <1>7, <1>8, <1>9, <1>10, <1>11, <1>12,
     <1>13 DEF Next, Step, FetchAny, Work

\* Every variable keeps its type in every reachable state of the consumer.
THEOREM TypeCorrect == Spec => []TypeOK
  BY InitTypeOK, NextTypeOK, PTL DEF Spec

-----------------------------------------------------------------------------
(* No event is lost. NoEventLost is not inductive: the ack of a batch, and *)
(* the ack after an individual submission, come one or more steps after    *)
(* the call that justifies them. The invariant says what a pod that is     *)
(* about to ack already knows, and that records are keyed by their event.  *)

\* Acking the message loses nothing.
Accounted(m) ==
  Malformed(m) \/ CeId[m] \in Rejected \cup denied \/ Billed(m)

KeyedByEvent(r) == r.uniqueID = ulidFromEventID(CeId[r.msg], CeTime[r.msg])

RecordsKeyed ==
  /\ \A p \in Pods : \A r \in validated[p] : KeyedByEvent(r)
  /\ \A e \in ledger : KeyedByEvent(e)

AckingAccounted ==
  \A p \in Pods :
    pc[p] = "acking" => \A r \in validated[p] : Accounted(r.msg)

IsolatedAccounted ==
  \A p \in Pods : pc[p] = "isolatedAck" => Accounted(current[p].msg)

UniqueIDsDistinct == \A d, e \in ledger : d.uniqueID = e.uniqueID => d = e

IInv == /\ TypeOK /\ RecordsKeyed /\ UniqueIDsDistinct
        /\ AckingAccounted /\ IsolatedAccounted /\ NoEventLost

\* The ledger and the refused events only grow, so an accounted message stays so.
LEMMA AccountedStays ==
  ASSUME ledger \subseteq ledger', denied \subseteq denied', NEW m, Accounted(m)
  PROVE  Accounted(m)'
  BY DEF Accounted, Malformed, Billed

\* The ledger stays keyed by event and free of duplicates through any call.
LEMMA SubmitKeyed ==
  ASSUME TypeOK, NEW p \in Pods, NEW S \in SUBSET Record,
         \A r \in S : KeyedByEvent(r),
         \A e \in ledger : KeyedByEvent(e),
         UniqueIDsDistinct,
         \/ SubmitSucceeds(p, S)
         \/ SubmitPermanentError(p, S)
         \/ SubmitOtherError(p, S)
  PROVE  /\ ledger \subseteq ledger'
         /\ \A e \in ledger' : KeyedByEvent(e)
         /\ UniqueIDsDistinct'
<1>1. ledger \subseteq ledger' /\ ledger' \subseteq ledger \cup S
  BY SubmitTypes
<1>2. PICK T \in SUBSET S : Fresh(T) /\ ledger' = ledger \cup T
  BY DEF SubmitSucceeds, SubmitPermanentError, SubmitOtherError, IngestSome
<1>3. UniqueIDsDistinct'
  BY <1>2 DEF UniqueIDsDistinct, Fresh
<1> QED
  BY <1>1, <1>3

\* After a successful call every record it carried is billed.
LEMMA SubmitBills ==
  ASSUME TypeOK, NEW p \in Pods, NEW S \in SUBSET Record,
         \A r \in S : KeyedByEvent(r),
         \A e \in ledger' : KeyedByEvent(e),
         SubmitSucceeds(p, S)
  PROVE  \A r \in S : Billed(r.msg)'
<1> SUFFICES ASSUME NEW r \in S PROVE Billed(r.msg)'
  OBVIOUS
<1>1. PICK e \in ledger' : e.uniqueID = r.uniqueID
  BY DEF SubmitSucceeds
<1>2. CeId[e.msg] = CeId[r.msg]
  BY <1>1 DEF KeyedByEvent, ulidFromEventID
<1> QED
  BY <1>2 DEF Billed

\* An ack of an accounted message, a nak, or no settling at all loses nothing.
LEMMA SettleLosesNothing ==
  ASSUME TypeOK, NoEventLost, NEW m \in Messages,
         ledger' = ledger, denied' = denied,
         (AckMessage(m) /\ Accounted(m)) \/ NakMessage(m)
  PROVE  NoEventLost'
  BY DEF TypeOK, NoEventLost, Accounted, Malformed, Billed, AckMessage, NakMessage,
     Acked, Naked

\* The invariant holds when no pod has started.
LEMMA InitIInv == Init => IInv
  BY InitTypeOK
  DEF Init, IInv, RecordsKeyed, UniqueIDsDistinct, AckingAccounted,
      IsolatedAccounted, NoEventLost

\* Every step preserves the invariant.
LEMMA NextIInv == IInv /\ [Next]_vars => IInv'
<1> SUFFICES ASSUME IInv, [Next]_vars PROVE IInv'
  OBVIOUS
<1>0. TypeOK /\ TypeOK'
  BY NextTypeOK DEF IInv
<1> USE DEF IInv
<1>a. ASSUME UNCHANGED <<ledger, denied>>
      PROVE  /\ \A m : Accounted(m) <=> Accounted(m)'
             /\ UniqueIDsDistinct'
             /\ (\A e \in ledger : KeyedByEvent(e))'
  BY <1>a DEF Accounted, Malformed, Billed, UniqueIDsDistinct, RecordsKeyed, KeyedByEvent
<1>b. ASSUME UNCHANGED <<delivery>>, ledger \subseteq ledger', denied \subseteq denied'
      PROVE  NoEventLost'
  BY <1>b, AccountedStays DEF NoEventLost, Accounted
<1>1. ASSUME NEW p \in Pods, Start(p) \/ ExitLoop(p) \/ Shutdown(p) \/ Crash(p)
      PROVE  IInv'
  <2>1. UNCHANGED <<ledger, denied, delivery>>
    BY <1>1 DEF Start, ExitLoop, Shutdown, Crash
  <2>2. \A q \in Pods :
          /\ validated'[q] \subseteq validated[q]
          /\ pc'[q] = "acking" => pc[q] = "acking"
          /\ pc'[q] = "isolatedAck" => pc[q] = "isolatedAck" /\ current'[q] = current[q]
    BY <1>0, <1>1 DEF Start, ExitLoop, Shutdown, Crash, TypeOK
  <2> QED
    BY <1>0, <1>a, <1>b, <2>1, <2>2
    DEF RecordsKeyed, AckingAccounted, IsolatedAccounted, KeyedByEvent
<1>2. ASSUME NEW p \in Pods, NEW B \in SUBSET Messages, Fetch(p, B) PROVE IInv'
  <2>1. UNCHANGED <<ledger, denied, current>>
    BY <1>2 DEF Fetch
  <2>2. \A q \in Pods :
          /\ validated'[q] \subseteq validated[q]
          /\ pc'[q] = "acking" => pc[q] = "acking"
          /\ pc'[q] = "isolatedAck" => pc[q] = "isolatedAck"
    BY <1>0, <1>2 DEF Fetch, TypeOK
  <2>3. NoEventLost'
    BY <1>0, <1>2, <1>a, <2>1 DEF Fetch, NoEventLost, Accounted, TypeOK
  <2> QED
    BY <1>0, <1>a, <2>1, <2>2, <2>3
    DEF RecordsKeyed, AckingAccounted, IsolatedAccounted, KeyedByEvent
<1>3. ASSUME NEW p \in Pods, Prepare(p) PROVE IInv'
  <2>1. PICK m \in batch[p] :
          /\ batch' = [batch EXCEPT ![p] = @ \ {m}]
          /\ \/ /\ PrepareOutcome(m) = "permanent"
                /\ AckMessage(m)
                /\ UNCHANGED validated
             \/ /\ PrepareOutcome(m) = "miss"
                /\ NakMessage(m)
                /\ UNCHANGED validated
             \/ /\ PrepareOutcome(m) = "record"
                /\ validated' = [validated EXCEPT ![p] = @ \cup {UsageRecord(m)}]
                /\ UNCHANGED <<delivery, faults>>
          /\ pc' = [pc EXCEPT ![p] = AfterPrepare(batch'[p], validated'[p])]
    BY <1>3 DEF Prepare
  <2>2. m \in Messages /\ UNCHANGED <<ledger, denied, current>>
    BY <1>0, <1>3 DEF TypeOK, Prepare
  <2>3. \A q \in Pods :
          /\ pc'[q] = "acking" => q # p /\ pc[q] = "acking" /\ validated'[q] = validated[q]
          /\ pc'[q] = "isolatedAck" => pc[q] = "isolatedAck"
    BY <1>0, <2>1 DEF TypeOK, AfterPrepare
  <2>4. RecordsKeyed'
    <3>1. KeyedByEvent(UsageRecord(m))
      BY DEF KeyedByEvent, UsageRecord
    <3>2. \A q \in Pods : validated'[q] \subseteq validated[q] \cup {UsageRecord(m)}
      BY <1>0, <2>1 DEF TypeOK
    <3> QED
      BY <1>a, <2>2, <3>1, <3>2 DEF RecordsKeyed, KeyedByEvent
  <2>5. NoEventLost'
    <3>1. PrepareOutcome(m) = "permanent" => Accounted(m)
      BY DEF PrepareOutcome, Accounted, Malformed
    <3>2. CASE PrepareOutcome(m) = "permanent" /\ AckMessage(m)
      BY <1>0, <2>2, <3>1, <3>2, SettleLosesNothing
    <3>3. CASE NakMessage(m)
      BY <1>0, <2>2, <3>3, SettleLosesNothing
    <3>4. CASE UNCHANGED delivery
      BY <1>b, <2>2, <3>4
    <3> QED
      BY <2>1, <3>2, <3>3, <3>4
  <2> QED
    BY <1>0, <1>a, <2>2, <2>3, <2>4, <2>5 DEF AckingAccounted, IsolatedAccounted
<1>4. ASSUME NEW p \in Pods, SubmitBatch(p) PROVE IInv'
  <2>1. UNCHANGED <<delivery, validated, current, denied>>
    BY <1>4 DEF SubmitBatch
  <2>2. /\ validated[p] \in SUBSET Record
        /\ \A r \in validated[p] : KeyedByEvent(r)
        /\ \A e \in ledger : KeyedByEvent(e)
    BY <1>0 DEF TypeOK, RecordsKeyed
  <2>3. /\ ledger \subseteq ledger'
        /\ \A e \in ledger' : KeyedByEvent(e)
        /\ UniqueIDsDistinct'
    BY <1>0, <1>4, <2>2, SubmitKeyed DEF SubmitBatch
  <2>4. \A q \in Pods :
          /\ pc'[q] = "acking" => pc[q] = "acking" \/ (q = p /\ SubmitSucceeds(p, validated[p]))
          /\ pc'[q] = "isolatedAck" => pc[q] = "isolatedAck"
    BY <1>0, <1>4 DEF SubmitBatch, TypeOK, AfterBatchPermanentError
  <2>5. SubmitSucceeds(p, validated[p]) => \A r \in validated[p] : Billed(r.msg)'
    BY <1>0, <2>2, <2>3, SubmitBills
  <2>6. AckingAccounted'
    BY <2>1, <2>3, <2>4, <2>5, AccountedStays DEF AckingAccounted, Accounted
  <2>7. IsolatedAccounted'
    BY <2>1, <2>3, <2>4, AccountedStays DEF IsolatedAccounted
  <2>8. RecordsKeyed'
    BY <2>1, <2>3 DEF RecordsKeyed, KeyedByEvent
  <2> QED
    BY <1>0, <1>b, <2>1, <2>3, <2>6, <2>7, <2>8
<1>5. ASSUME NEW p \in Pods, SettleBatch(p) PROVE IInv'
  <2>1. PICK r \in validated[p] :
          /\ IF pc[p] = "acking" THEN AckMessage(r.msg) ELSE NakMessage(r.msg)
          /\ validated' = [validated EXCEPT ![p] = @ \ {r}]
          /\ pc' = [pc EXCEPT ![p] = IF validated'[p] = {} THEN "fetching" ELSE @]
    BY <1>5 DEF SettleBatch
  <2>2. r.msg \in Messages /\ UNCHANGED <<ledger, denied, current>>
    BY <1>0, <1>5 DEF TypeOK, Record, SettleBatch
  <2>3. \A q \in Pods :
          /\ validated'[q] \subseteq validated[q]
          /\ pc'[q] = "acking" => pc[q] = "acking"
          /\ pc'[q] = "isolatedAck" => pc[q] = "isolatedAck"
    BY <1>0, <2>1 DEF TypeOK
  <2>4. NoEventLost'
    <3>1. CASE pc[p] = "acking"
      BY <1>0, <2>1, <2>2, <3>1, SettleLosesNothing DEF AckingAccounted
    <3>2. CASE pc[p] # "acking"
      BY <1>0, <2>1, <2>2, <3>2, SettleLosesNothing
    <3> QED
      BY <3>1, <3>2
  <2> QED
    BY <1>0, <1>a, <2>2, <2>3, <2>4
    DEF RecordsKeyed, AckingAccounted, IsolatedAccounted, KeyedByEvent
<1>6. ASSUME NEW p \in Pods, SubmitIsolated(p) PROVE IInv'
  <2>1. PICK r \in validated[p] :
          /\ current' = [current EXCEPT ![p] = r]
          /\ validated' = [validated EXCEPT ![p] = @ \ {r}]
          /\ \/ /\ SubmitSucceeds(p, {r})
                /\ pc' = [pc EXCEPT ![p] = "isolatedAck"]
                /\ UNCHANGED denied
             \/ /\ SubmitPermanentError(p, {r})
                /\ pc' = [pc EXCEPT ![p] = "isolatedAck"]
                /\ denied' = IF keyValid[p] THEN denied ELSE denied \cup {CeId[r.msg]}
             \/ /\ SubmitOtherError(p, {r})
                /\ pc' = [pc EXCEPT ![p] = "isolatedNak"]
                /\ UNCHANGED denied
    BY <1>6 DEF SubmitIsolated
  <2>2. UNCHANGED delivery /\ denied \subseteq denied'
    BY <1>6, <2>1 DEF SubmitIsolated
  <2>3. /\ {r} \in SUBSET Record
        /\ \A s \in {r} : KeyedByEvent(s)
        /\ \A e \in ledger : KeyedByEvent(e)
    BY <1>0 DEF TypeOK, RecordsKeyed
  <2>4. /\ ledger \subseteq ledger'
        /\ \A e \in ledger' : KeyedByEvent(e)
        /\ UniqueIDsDistinct'
    BY <1>0, <2>1, <2>3, SubmitKeyed
  <2>5. pc'[p] = "isolatedAck" => Accounted(r.msg)'
    <3>1. CASE SubmitSucceeds(p, {r})
      BY <1>0, <2>3, <2>4, <3>1, SubmitBills DEF Accounted
    <3>2. CASE /\ SubmitPermanentError(p, {r})
               /\ denied' = IF keyValid[p] THEN denied ELSE denied \cup {CeId[r.msg]}
      BY <3>2 DEF SubmitPermanentError, IsRejected, Accounted
    <3>3. CASE pc' = [pc EXCEPT ![p] = "isolatedNak"]
      BY <1>0, <3>3 DEF TypeOK
    <3> QED
      BY <2>1, <3>1, <3>2, <3>3
  <2>6. \A q \in Pods :
          /\ validated'[q] \subseteq validated[q]
          /\ pc'[q] = "acking" => pc[q] = "acking"
          /\ q # p => pc'[q] = pc[q] /\ current'[q] = current[q]
    BY <1>0, <2>1 DEF TypeOK
  <2>7. AckingAccounted'
    BY <2>2, <2>4, <2>6, AccountedStays DEF AckingAccounted
  <2>8. IsolatedAccounted'
    <3>1. current'[p] = r
      BY <1>0, <2>1 DEF TypeOK
    <3> QED
      BY <2>2, <2>4, <2>5, <2>6, <3>1, AccountedStays DEF IsolatedAccounted
  <2>9. RecordsKeyed'
    BY <2>4, <2>6 DEF RecordsKeyed, KeyedByEvent
  <2> QED
    BY <1>0, <1>b, <2>2, <2>4, <2>7, <2>8, <2>9
<1>7. ASSUME NEW p \in Pods, SettleIsolated(p) PROVE IInv'
  <2>1. current[p].msg \in Messages
    BY <1>0, <1>7 DEF SettleIsolated, TypeOK, Record
  <2>2. UNCHANGED <<ledger, denied, validated>>
    BY <1>7 DEF SettleIsolated
  <2>3. \A q \in Pods :
          /\ pc'[q] = "acking" => pc[q] = "acking"
          /\ pc'[q] = "isolatedAck" => pc[q] = "isolatedAck" /\ current'[q] = current[q]
    BY <1>0, <1>7 DEF SettleIsolated, TypeOK
  <2>4. NoEventLost'
    <3>1. CASE pc[p] = "isolatedAck" /\ AckMessage(current[p].msg)
      BY <1>0, <2>1, <2>2, <3>1, SettleLosesNothing DEF IsolatedAccounted
    <3>2. CASE NakMessage(current[p].msg)
      BY <1>0, <2>1, <2>2, <3>2, SettleLosesNothing
    <3> QED
      BY <1>7, <3>1, <3>2 DEF SettleIsolated
  <2> QED
    BY <1>0, <1>a, <2>2, <2>3, <2>4
    DEF RecordsKeyed, AckingAccounted, IsolatedAccounted, KeyedByEvent
<1>8. ASSUME NEW m \in Messages, AckWaitExpires(m) \/ DelayElapses(m) PROVE IInv'
  <2>1. UNCHANGED <<ledger, denied, validated, pc, current>>
    BY <1>8 DEF AckWaitExpires, DelayElapses
  <2>2. NoEventLost'
    BY <1>0, <1>8, <1>a, <2>1 DEF AckWaitExpires, DelayElapses, NoEventLost, Accounted, TypeOK
  <2> QED
    BY <1>0, <1>a, <2>1, <2>2
    DEF RecordsKeyed, AckingAccounted, IsolatedAccounted, KeyedByEvent
<1>9. CASE RotateKey \/ ChangeIndex \/ UNCHANGED vars
  <2>1. UNCHANGED <<ledger, denied, validated, pc, current, delivery>>
    BY <1>9 DEF RotateKey, ChangeIndex, vars
  <2> QED
    BY <1>0, <1>a, <1>b, <2>1
    DEF RecordsKeyed, AckingAccounted, IsolatedAccounted, KeyedByEvent
<1> QED
  BY <1>1, <1>2, <1>3, <1>4, <1>5, <1>6, <1>7, <1>8, <1>9 DEF Next, Step, FetchAny, Work

\* The invariant holds in every reachable state.
LEMMA InvariantHolds == Spec => []IInv
  BY InitIInv, NextIInv, PTL DEF Spec

\* No message that carries billable usage leaves the stream before Amberflo
\* has its record, for any number of pods, messages and faults.
THEOREM NoEventIsLost == Spec => []NoEventLost
<1>1. IInv => NoEventLost
  BY DEF IInv
<1> QED
  BY <1>1, InvariantHolds, PTL

\* No event is billed twice, for any number of deliveries and pods.
THEOREM EventsBilledOnce == Spec => []BilledOnce
<1>1. IInv => BilledOnce
  <2> SUFFICES ASSUME IInv, NEW d \in ledger, NEW e \in ledger, CeId[d.msg] = CeId[e.msg]
               PROVE  d = e
    BY DEF BilledOnce
  <2>1. d.msg \in Messages /\ e.msg \in Messages
    BY DEF IInv, TypeOK, Record
  <2>2. d.uniqueID = e.uniqueID
    BY <2>1, SameEventSameTime DEF IInv, RecordsKeyed, KeyedByEvent
  <2> QED
    BY <2>2 DEF IInv, UniqueIDsDistinct
<1> QED
  BY <1>1, InvariantHolds, PTL

-----------------------------------------------------------------------------
(* The consumer implements UsageLedger. A call to Amberflo is a Bill step, *)
(* a refused key a Refuse step, an ack a Settle step; the rest stutters.   *)

chargedBar == [id \in CeIds |-> ChargesOf(id)]
settledBar == {m \in Messages : delivery[m] = "acked"}

\* A call that adds records of events that have none is a Bill step.
LEMMA BillStep ==
  ASSUME TypeOK', BilledOnce', ledger \subseteq ledger', UNCHANGED <<denied, delivery>>
  PROVE  Ledger!Bill
<1>1. ASSUME NEW id \in CeIds
      PROVE  \/ ChargesOf(id)' = ChargesOf(id)
             \/ ChargesOf(id) = {} /\ \E c \in Uids \X ApiNames : ChargesOf(id)' = {c}
  <2>1. CASE \E e \in ledger : CeId[e.msg] = id
    <3>1. {r \in ledger' : CeId[r.msg] = id} = {r \in ledger : CeId[r.msg] = id}
      BY <2>1 DEF BilledOnce
    <3> QED
      BY <3>1 DEF ChargesOf
  <2>2. CASE /\ ~\E e \in ledger : CeId[e.msg] = id
             /\ ~\E e \in ledger' : CeId[e.msg] = id
    BY <2>2 DEF ChargesOf
  <2>3. CASE /\ ~\E e \in ledger : CeId[e.msg] = id
             /\ \E e \in ledger' : CeId[e.msg] = id
    <3>1. PICK e \in ledger' : CeId[e.msg] = id
      BY <2>3
    <3>2. {r \in ledger' : CeId[r.msg] = id} = {e} /\ {r \in ledger : CeId[r.msg] = id} = {}
      BY <2>3, <3>1 DEF BilledOnce
    <3>3. <<e.customer, e.meter>> \in Uids \X ApiNames
      BY DEF TypeOK, Record
    <3> QED
      BY <3>2, <3>3 DEF ChargesOf
  <2> QED
    BY <2>1, <2>2, <2>3
<1>2. \A id \in CeIds : ChargesOf(id)' \subseteq Uids \X ApiNames
  BY DEF ChargesOf, TypeOK, Record
<1>3. /\ chargedBar' \in [CeIds -> SUBSET (Uids \X ApiNames)]
      /\ \A id \in CeIds :
           \/ chargedBar'[id] = chargedBar[id]
           \/ chargedBar[id] = {} /\ \E c \in Uids \X ApiNames : chargedBar'[id] = {c}
  BY <1>1, <1>2 DEF chargedBar
<1> QED
  BY <1>3 DEF Ledger!Bill, chargedBar

\* The ack of an accounted message settles it, unless the ack is lost.
LEMMA SettleStep ==
  ASSUME TypeOK, NEW m \in Messages, AckMessage(m), Accounted(m), UNCHANGED <<ledger, denied>>
  PROVE  Ledger!Settle(m) \/ UNCHANGED <<chargedBar, denied, settledBar>>
<1>1. UNCHANGED chargedBar
  BY DEF chargedBar, ChargesOf
<1>2. CASE UNCHANGED delivery
  BY <1>1, <1>2 DEF settledBar
<1>3. CASE delivery' = Acked(m)
  <2>1. settledBar' = settledBar \cup {m}
    BY <1>3 DEF settledBar, Acked, TypeOK
  <2>2. CeId[m] \in CeIds
    BY MessagesAssumption
  <2>3. Billed(m) => chargedBar[CeId[m]] # {}
    BY <2>2 DEF Billed, chargedBar, ChargesOf
  <2>4. m \in UnbillableMessages \/ CeId[m] \in denied \/ chargedBar[CeId[m]] # {}
    BY <2>3 DEF Accounted, UnbillableMessages
  <2> QED
    BY <1>1, <2>1, <2>4 DEF Ledger!Settle, chargedBar, settledBar
<1> QED
  BY <1>2, <1>3 DEF AckMessage

\* A step that neither bills, refuses nor acks is invisible in the ledger.
LEMMA LedgerStutters ==
  ASSUME TypeOK, UNCHANGED <<ledger, denied>>,
         \A m \in Messages : delivery'[m] = "acked" <=> delivery[m] = "acked"
  PROVE  UNCHANGED <<chargedBar, denied, settledBar>>
BY DEF chargedBar, settledBar, ChargesOf

\* A nak settles nothing.
LEMMA NakStutters ==
  ASSUME TypeOK, UNCHANGED <<ledger, denied>>, NEW m \in Messages, NakMessage(m)
  PROVE  UNCHANGED <<chargedBar, denied, settledBar>>
<1>1. \A n \in Messages : delivery'[n] = "acked" <=> delivery[n] = "acked"
  BY DEF NakMessage, Naked, TypeOK
<1> QED
  BY <1>1, LedgerStutters

\* Every step of the pods and their surroundings is a step of the ledger.
LEMMA StepSimulates ==
  IInv /\ IInv' /\ BilledOnce' /\ [Next]_vars => [Ledger!Next]_(Ledger!vars)
<1> DEFINE Stutter == UNCHANGED <<chargedBar, denied, settledBar>>
<1> SUFFICES ASSUME IInv, IInv', BilledOnce', [Next]_vars PROVE Ledger!Next \/ Stutter
  BY DEF Ledger!vars, chargedBar, settledBar
<1>0. TypeOK /\ TypeOK'
  BY DEF IInv
<1>a. ASSUME UNCHANGED <<ledger, denied, delivery>> PROVE Stutter
  BY <1>0, <1>a, LedgerStutters
<1>b. ASSUME NEW p \in Pods, NEW S \in SUBSET Record,
             \/ SubmitSucceeds(p, S)
             \/ SubmitPermanentError(p, S)
             \/ SubmitOtherError(p, S)
      PROVE  ledger \subseteq ledger'
  BY <1>0, <1>b, SubmitTypes
<1>1. ASSUME NEW p \in Pods, Start(p) \/ ExitLoop(p) \/ Shutdown(p) \/ Crash(p) PROVE Stutter
  BY <1>1, <1>a DEF Start, ExitLoop, Shutdown, Crash
<1>2. ASSUME NEW p \in Pods, NEW B \in SUBSET Messages, Fetch(p, B) PROVE Stutter
  BY <1>0, <1>2, LedgerStutters DEF Fetch
<1>3. ASSUME NEW p \in Pods, Prepare(p) PROVE Ledger!Next \/ Stutter
  <2>1. UNCHANGED <<ledger, denied>>
    BY <1>3 DEF Prepare
  <2>2. PICK m \in batch[p] :
          \/ PrepareOutcome(m) = "permanent" /\ AckMessage(m)
          \/ NakMessage(m)
          \/ UNCHANGED delivery
    BY <1>3 DEF Prepare
  <2>3. m \in Messages
    BY <1>0 DEF TypeOK
  <2>4. PrepareOutcome(m) = "permanent" => Accounted(m)
    BY DEF PrepareOutcome, Accounted, Malformed
  <2>5. CASE PrepareOutcome(m) = "permanent" /\ AckMessage(m)
    BY <1>0, <2>1, <2>3, <2>4, <2>5, SettleStep DEF Ledger!Next
  <2>6. CASE NakMessage(m)
    BY <1>0, <2>1, <2>3, <2>6, NakStutters
  <2>7. CASE UNCHANGED delivery
    BY <1>a, <2>1, <2>7
  <2> QED
    BY <2>2, <2>5, <2>6, <2>7
<1>4. ASSUME NEW p \in Pods, SubmitBatch(p) PROVE Ledger!Next
  <2>1. ledger \subseteq ledger' /\ UNCHANGED <<denied, delivery>>
    BY <1>0, <1>4, <1>b DEF SubmitBatch, TypeOK
  <2> QED
    BY <1>0, <2>1, BillStep DEF Ledger!Next
<1>5. ASSUME NEW p \in Pods, SettleBatch(p) PROVE Ledger!Next \/ Stutter
  <2>1. UNCHANGED <<ledger, denied>>
    BY <1>5 DEF SettleBatch
  <2>2. PICK r \in validated[p] :
          IF pc[p] = "acking" THEN AckMessage(r.msg) ELSE NakMessage(r.msg)
    BY <1>5 DEF SettleBatch
  <2>3. r.msg \in Messages
    BY <1>0 DEF TypeOK, Record
  <2>4. CASE pc[p] = "acking"
    BY <1>0, <2>1, <2>2, <2>3, <2>4, SettleStep DEF Ledger!Next, IInv, AckingAccounted
  <2>5. CASE pc[p] # "acking"
    BY <1>0, <2>1, <2>2, <2>3, <2>5, NakStutters
  <2> QED
    BY <2>4, <2>5
<1>6. ASSUME NEW p \in Pods, SubmitIsolated(p) PROVE Ledger!Next \/ Stutter
  <2>1. UNCHANGED delivery
    BY <1>6 DEF SubmitIsolated
  <2>2. PICK r \in validated[p] :
          \/ SubmitSucceeds(p, {r}) /\ UNCHANGED denied
          \/ /\ SubmitPermanentError(p, {r})
             /\ denied' = IF keyValid[p] THEN denied ELSE denied \cup {CeId[r.msg]}
          \/ SubmitOtherError(p, {r}) /\ UNCHANGED denied
    BY <1>6 DEF SubmitIsolated
  <2>3. {r} \in SUBSET Record /\ r.msg \in Messages
    BY <1>0 DEF TypeOK, Record
  <2>4. ledger \subseteq ledger'
    BY <1>b, <2>2, <2>3
  <2>5. CASE UNCHANGED denied
    BY <1>0, <2>1, <2>4, <2>5, BillStep DEF Ledger!Next
  <2>6. CASE /\ SubmitPermanentError(p, {r}) /\ ~keyValid[p]
             /\ denied' = denied \cup {CeId[r.msg]}
    <3>1. ledger' = ledger
      BY <2>6 DEF SubmitPermanentError, IngestSome
    <3>2. CeId[r.msg] \in CeIds
      BY <2>3, MessagesAssumption
    <3>3. Ledger!Refuse(CeId[r.msg])
      BY <2>1, <2>6, <3>1 DEF Ledger!Refuse, ChargesOf
    <3> QED
      BY <3>2, <3>3 DEF Ledger!Next
  <2> QED
    BY <2>2, <2>5, <2>6
<1>7. ASSUME NEW p \in Pods, SettleIsolated(p) PROVE Ledger!Next \/ Stutter
  <2>1. UNCHANGED <<ledger, denied>>
    BY <1>7 DEF SettleIsolated
  <2>2. current[p].msg \in Messages
    BY <1>0, <1>7 DEF SettleIsolated, TypeOK, Record
  <2>3. CASE pc[p] = "isolatedAck" /\ AckMessage(current[p].msg)
    BY <1>0, <2>1, <2>2, <2>3, SettleStep DEF Ledger!Next, IInv, IsolatedAccounted
  <2>4. CASE NakMessage(current[p].msg)
    BY <1>0, <2>1, <2>2, <2>4, NakStutters
  <2> QED
    BY <1>7, <2>3, <2>4 DEF SettleIsolated
<1>8. ASSUME NEW m \in Messages, AckWaitExpires(m) \/ DelayElapses(m) PROVE Stutter
  BY <1>0, <1>8, LedgerStutters DEF AckWaitExpires, DelayElapses, TypeOK
<1>9. CASE RotateKey \/ ChangeIndex \/ UNCHANGED vars
  BY <1>9, <1>a DEF RotateKey, ChangeIndex, vars
<1> QED
  BY <1>1, <1>2, <1>3, <1>4, <1>5, <1>6, <1>7, <1>8, <1>9 DEF Next, Step, FetchAny, Work

\* However many pods, messages, redeliveries, lost acks, crashes and changes
\* of the indexes there are, an event is charged once and to one customer and
\* meter, its charge stays, and its message is settled only after that or when
\* it can never be charged (submission.go:307-396).
THEOREM ConsumerImplementsLedger == Spec => ImplementsLedger
<1>1. Init => Ledger!Init
  BY DEF Init, Ledger!Init, ChargesOf
<1> QED
  BY <1>1, StepSimulates, InvariantHolds, EventsBilledOnce, PTL
     DEF Spec, ImplementsLedger, Ledger!Spec
=============================================================================
