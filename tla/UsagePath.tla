----------------------------- MODULE UsagePath ------------------------------
(***************************************************************************)
(* The submission consumer together with the caches it resolves references *)
(* with (cmd/submission-consumer/main.go): the indexes SubmissionConsumer  *)
(* reads are the ones SubmissionCaches keeps, so an account or a meter is  *)
(* known to the consumer once an informer has delivered it.                *)
(***************************************************************************)
EXTENDS SubmissionCaches

CONSTANTS
  Messages, Pods, CeId, CeTime, AccountRef, MeterName, CeIds, Times,
  BadEnvelope, BadPayload, Rejected, FetchBatch, MaxFaults

VARIABLES
  delivery, pc, stopping, keyValid, batch, validated, current, ledger, denied, faults

cacheVars == vars
podVars == <<delivery, pc, stopping, keyValid, batch, validated, current, ledger, denied, faults>>
pathVars == <<cacheVars, podVars>>

Consumer == INSTANCE SubmissionConsumer WITH
  accountIndex <- uidByName, meterIndex <- apiNameByMeterName

PathInit == Init /\ Consumer!Init

\* The informers' goroutines and the consumer share the indexes and nothing else.
PathNext ==
  \/ Consumer!Step /\ UNCHANGED cacheVars
  \/ Next /\ UNCHANGED podVars

PathSafety == PathInit /\ [][PathNext]_pathVars

\* The fairness of the consumer; an informer delivers what has changed.
PathSpec ==
  /\ PathSafety
  /\ Consumer!Fairness
  /\ \A k \in AccountKeys : WF_pathVars(DeliverAccount(k) /\ UNCHANGED podVars)
  /\ \A d \in Meters : WF_pathVars(DeliverMeter(d) /\ UNCHANGED podVars)

-----------------------------------------------------------------------------

\* The caches change the consumer's indexes one entry at a time and only to
\* UIDs and meterApiNames, so that what SubmissionConsumer promises under
\* arbitrary changes of its indexes it promises with these caches: nothing
\* lost, nothing billed twice (billingaccount_cache.go:74-84,
\* meterdefinition_cache.go:75-89).
ImplementsConsumer == Consumer!Spec

\* There is an account of that name, for good, and a meter of that name that
\* usage may be reported for.
AccountSettled(n) ==
  \E k \in AccountKeys, u \in Uids : NameOf[k] = n /\ <>[](accounts[k] = u)
MeterSettled(n) ==
  \E d \in Meters : \E v \in Version(d) :
    v.meterName = n /\ Indexed(v) /\ <>[](meters[d] = v)

\* Usage of an account that exists, for a meter that is Published or
\* Deprecated, is billed: from the API server through the informers, the
\* lookups, the batch with its poison events, crashes and redelivery into
\* Amberflo, unless the pod's key is refused (submission.go:297-396).
UsageReachesLedger ==
  \A m \in Messages :
    ~Consumer!Malformed(m) /\ CeId[m] \notin Rejected =>
      (AccountSettled(AccountRef[m]) /\ MeterSettled(MeterName[m])
         => <>[](Consumer!Billed(m) \/ CeId[m] \in denied))

\* Every message of such an account and meter leaves the stream for good, the
\* malformed and the rejected ones too.
StreamDrains ==
  \A m \in Messages :
    (m \in BadEnvelope \/ (AccountSettled(AccountRef[m]) /\ MeterSettled(MeterName[m])))
      => <>[](delivery[m] = "acked")
=============================================================================
