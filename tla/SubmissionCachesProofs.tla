----------------------- MODULE SubmissionCachesProofs -----------------------
(***************************************************************************)
(* Proofs about SubmissionCaches and UsagePath: both indexes are exact for *)
(* any number of accounts and meters, given that names are unique: each    *)
(* index is keyed by name alone, so the hypotheses are what the code       *)
(* relies on; and the consumer with these caches is the consumer whose     *)
(* indexes change at will.                                                 *)
(***************************************************************************)
EXTENDS UsagePath, TLAPS

\* A delivery writes one entry of the meter index, the one of the name it
\* carries: the meterApiName while the meter is Published or Deprecated.
LEMMA DeliveredMeter ==
  ASSUME TypeOK, NEW d \in Meters, DeliverMeter(d)
  PROVE  \E v \in Version(d) :
           /\ v = IF meters[d] = None THEN meterSeen[d] ELSE meters[d]
           /\ v.meterName \in MeterNames
           /\ stale' = (stale \cup LeftBehind(d)) \ {v.meterName}
           /\ apiNameByMeterName' =
                [apiNameByMeterName EXCEPT
                   ![v.meterName] = IF meters[d] # None /\ Indexed(v) THEN ApiNameOf[d] ELSE None]
<1> DEFINE v == IF meters[d] = None THEN meterSeen[d] ELSE meters[d]
<1>1. v \in Version(d)
  BY DEF TypeOK, DeliverMeter
<1>2. v.meterName \in MeterNames
  BY <1>1 DEF Version, MeterNames
<1> QED
  BY <1>1, <1>2 DEF DeliverMeter, upsertMeter, deleteMeter

\* The name left behind is the one that was seen.
LEMMA LeftBehindName ==
  ASSUME TypeOK, NEW d \in Meters
  PROVE  LeftBehind(d) \subseteq MeterNames
BY DEF LeftBehind, TypeOK, Version, MeterNames

\* Both indexes keep their types.
THEOREM CacheTypes == Spec => []TypeOK
<1> USE FunctionsAssumption, NoneAssumption DEF TypeOK, AccountNames, MeterNames, ApiNames
<1>1. Init => TypeOK
  BY DEF Init
<1>2. TypeOK /\ [Next]_vars => TypeOK'
  <2> SUFFICES ASSUME TypeOK, [Next]_vars PROVE TypeOK'
    OBVIOUS
  <2>1. ASSUME NEW k \in AccountKeys, ChangeAccount(k) PROVE TypeOK'
    BY <2>1 DEF ChangeAccount
  <2>2. ASSUME NEW k \in AccountKeys, DeliverAccount(k) PROVE TypeOK'
    BY <2>2 DEF DeliverAccount, deleteAccount, upsertAccount
  <2>3. ASSUME NEW d \in Meters, ChangeMeter(d) PROVE TypeOK'
    BY <2>3 DEF ChangeMeter
  <2>4. ASSUME NEW d \in Meters, DeliverMeter(d) PROVE TypeOK'
    <3>1. PICK v \in Version(d) :
            /\ stale' = (stale \cup LeftBehind(d)) \ {v.meterName}
            /\ apiNameByMeterName' =
                 [apiNameByMeterName EXCEPT
                    ![v.meterName] = IF meters[d] # None /\ Indexed(v) THEN ApiNameOf[d] ELSE None]
      BY <2>4, DeliveredMeter
    <3>2. apiNameByMeterName' \in [MeterNames -> ApiNames \cup {None}]
      BY <3>1
    <3>3. stale' \subseteq MeterNames
      BY <3>1, LeftBehindName
    <3> QED
      BY <2>4, <3>2, <3>3 DEF DeliverMeter
  <2>5. CASE UNCHANGED vars
    BY <2>5 DEF vars
  <2> QED
    BY <2>1, <2>2, <2>3, <2>4, <2>5 DEF Next
<1> QED
  BY <1>1, <1>2, PTL DEF Spec

\* With unique account names, every delivery leaves GetUID exact.
LEMMA AccountStep ==
  ASSUME UniqueAccountNames, TypeOK, AccountIndexExact,
         NEW k \in AccountKeys, DeliverAccount(k)
  PROVE  AccountIndexExact'
<1>1. NameOf[k] \in AccountNames
  BY DEF AccountNames
<1>2. \A n \in AccountNames :
        uidByName'[n] = IF n = NameOf[k] THEN accounts[k] ELSE uidByName[n]
  BY <1>1 DEF DeliverAccount, deleteAccount, upsertAccount, TypeOK
<1>3. \A j \in AccountKeys :
        accountSeen'[j] = IF j = k THEN accounts[k] ELSE accountSeen[j]
  BY DEF DeliverAccount, TypeOK
<1>4. \A j \in AccountKeys : NameOf[j] \in AccountNames /\ (NameOf[j] = NameOf[k] => j = k)
  BY DEF AccountNames, UniqueAccountNames
<1>5. ASSUME NEW n \in AccountNames, uidByName'[n] # None
      PROVE  \E j \in AccountKeys : NameOf[j] = n /\ accountSeen'[j] = uidByName'[n]
  <2>1. CASE n = NameOf[k]
    BY <1>2, <1>3, <2>1
  <2>2. CASE n # NameOf[k]
    <3>1. PICK j \in AccountKeys : NameOf[j] = n /\ accountSeen[j] = uidByName[n]
      BY <1>2, <1>5, <2>2 DEF AccountIndexExact, GetUID
    <3> QED
      BY <1>2, <1>3, <2>2, <3>1
  <2> QED
    BY <2>1, <2>2
<1>6. ASSUME NEW j \in AccountKeys, accountSeen'[j] # None
      PROVE  uidByName'[NameOf[j]] = accountSeen'[j]
  BY <1>2, <1>3, <1>4, <1>6 DEF AccountIndexExact, GetUID
<1> QED
  BY <1>5, <1>6 DEF AccountIndexExact, GetUID

\* With unique meter names, every delivery leaves GetAPIName exact but for
\* the names left behind.
LEMMA MeterStep ==
  ASSUME UniqueMeterNames, TypeOK, MeterIndexExact, NEW d \in Meters, DeliverMeter(d)
  PROVE  MeterIndexExact'
<1>1. PICK v \in Version(d) :
        /\ v = IF meters[d] = None THEN meterSeen[d] ELSE meters[d]
        /\ v.meterName \in MeterNames
        /\ stale' = (stale \cup LeftBehind(d)) \ {v.meterName}
        /\ apiNameByMeterName' =
             [apiNameByMeterName EXCEPT
                ![v.meterName] = IF meters[d] # None /\ Indexed(v) THEN ApiNameOf[d] ELSE None]
  BY DeliveredMeter
<1>2. \A n \in MeterNames :
        apiNameByMeterName'[n] =
          IF n = v.meterName
          THEN IF meters[d] # None /\ Indexed(v) THEN ApiNameOf[d] ELSE None
          ELSE apiNameByMeterName[n]
  BY <1>1 DEF TypeOK
<1>3. \A e \in Meters : meterSeen'[e] = IF e = d THEN meters[d] ELSE meterSeen[e]
  BY DEF DeliverMeter, TypeOK
<1>4. \A e \in Meters : meterSeen[e] # None =>
        /\ meterSeen[e].meterName \in MeterNamesOf[e]
        /\ meterSeen[e].meterName \in MeterNames
  BY DEF TypeOK, Version, MeterNames
<1>5. v.meterName \in MeterNamesOf[d]
  BY DEF Version
<1>6. ASSUME NEW e \in Meters, meterSeen'[e] # None
      PROVE  GetAPIName(meterSeen[e].meterName)' =
               IF Indexed(meterSeen[e])' THEN ApiNameOf[e] ELSE None
  <2>1. CASE e = d
    BY <1>1, <1>2, <1>3, <1>6, <2>1 DEF GetAPIName, Indexed
  <2>2. CASE e # d
    <3>1. meterSeen[e] # None /\ meterSeen'[e] = meterSeen[e]
      BY <1>3, <1>6, <2>2
    <3>2. meterSeen[e].meterName # v.meterName
      BY <1>4, <1>5, <2>2, <3>1 DEF UniqueMeterNames
    <3> QED
      BY <1>2, <1>4, <3>1, <3>2 DEF MeterIndexExact, GetAPIName, Indexed
  <2> QED
    BY <2>1, <2>2
<1>7. ASSUME NEW n \in MeterNames \ stale', apiNameByMeterName'[n] # None
      PROVE  \E e \in Meters : meterSeen'[e] # None /\ meterSeen'[e].meterName = n
  <2>1. CASE n = v.meterName
    BY <1>1, <1>2, <1>3, <1>7, <2>1
  <2>2. CASE n # v.meterName
    <3>1. n \notin stale /\ n \notin LeftBehind(d) /\ apiNameByMeterName[n] # None
      BY <1>1, <1>2, <1>7, <2>2
    <3>2. PICK e \in Meters : meterSeen[e] # None /\ meterSeen[e].meterName = n
      BY <3>1 DEF MeterIndexExact, GetAPIName
    <3>3. e # d
      BY <1>1, <2>2, <3>1, <3>2 DEF LeftBehind
    <3> QED
      BY <1>3, <3>2, <3>3
  <2> QED
    BY <2>1, <2>2
<1> QED
  BY <1>6, <1>7 DEF MeterIndexExact, GetAPIName

\* Usage is resolved to the account of that name that exists, if no two
\* accounts share a name (billingaccount_cache.go).
THEOREM AccountIndex ==
  ASSUME UniqueAccountNames
  PROVE  Spec => []AccountIndexExact
<1>1. Init => AccountIndexExact
  BY NoneAssumption DEF Init, AccountIndexExact, GetUID
<1>2. TypeOK /\ AccountIndexExact /\ [Next]_vars => AccountIndexExact'
  <2> SUFFICES ASSUME TypeOK, AccountIndexExact, [Next]_vars PROVE AccountIndexExact'
    OBVIOUS
  <2>1. CASE UNCHANGED <<accountSeen, uidByName>>
    BY <2>1 DEF AccountIndexExact, GetUID
  <2>2. ASSUME NEW k \in AccountKeys, DeliverAccount(k) PROVE AccountIndexExact'
    BY <2>2, AccountStep
  <2> QED
    BY <2>1, <2>2 DEF Next, ChangeAccount, ChangeMeter, DeliverMeter, vars
<1> QED
  BY <1>1, <1>2, CacheTypes, PTL DEF Spec

\* Usage is resolved to meters exactly while they are Published or Deprecated,
\* if no two meters share a name, but for the entries that recreations under
\* another name leave behind (meterdefinition_cache.go).
THEOREM MeterIndex ==
  ASSUME UniqueMeterNames
  PROVE  Spec => []MeterIndexExact
<1>1. Init => MeterIndexExact
  BY DEF Init, MeterIndexExact, GetAPIName
<1>2. TypeOK /\ MeterIndexExact /\ [Next]_vars => MeterIndexExact'
  <2> SUFFICES ASSUME TypeOK, MeterIndexExact, [Next]_vars PROVE MeterIndexExact'
    OBVIOUS
  <2>1. CASE UNCHANGED <<meterSeen, apiNameByMeterName, stale>>
    BY <2>1 DEF MeterIndexExact, GetAPIName, Indexed
  <2>2. ASSUME NEW d \in Meters, DeliverMeter(d) PROVE MeterIndexExact'
    BY <2>2, MeterStep
  <2> QED
    BY <2>1, <2>2 DEF Next, ChangeAccount, ChangeMeter, DeliverAccount, vars
<1> QED
  BY <1>1, <1>2, CacheTypes, PTL DEF Spec

\* Whatever the informers deliver, in whatever order, the consumer sees its
\* indexes change one entry at a time: every step of the consumer with its
\* caches is a step of the consumer or leaves it alone
\* (cmd/submission-consumer/main.go, submission.go:307-396).
THEOREM PathImplementsConsumer == PathSafety => ImplementsConsumer
<1>1. PathInit => Consumer!Init
  BY DEF PathInit
<1>2. TypeOK /\ [PathNext]_pathVars => [Consumer!Next]_(Consumer!vars)
  <2> SUFFICES ASSUME TypeOK, [PathNext]_pathVars PROVE [Consumer!Next]_(Consumer!vars)
    OBVIOUS
  <2>1. CASE Consumer!Step
    BY <2>1 DEF Consumer!Next
  <2>2. CASE UNCHANGED podVars /\ UNCHANGED <<uidByName, apiNameByMeterName>>
    BY <2>2 DEF podVars, Consumer!vars
  <2>3. ASSUME NEW k \in AccountKeys, DeliverAccount(k), UNCHANGED podVars
        PROVE  Consumer!ChangeIndex
    <3>1. NameOf[k] \in AccountNames /\ accounts[k] \in Uids \cup {None}
      BY DEF AccountNames, TypeOK
    <3>2. uidByName' = [uidByName EXCEPT ![NameOf[k]] = accounts[k]]
      BY <2>3 DEF DeliverAccount, deleteAccount, upsertAccount
    <3> QED
      BY <2>3, <3>1, <3>2 DEF DeliverAccount, Consumer!ChangeIndex, podVars
  <2>4. ASSUME NEW d \in Meters, DeliverMeter(d), UNCHANGED podVars
        PROVE  Consumer!ChangeIndex
    <3>1. PICK n \in MeterNames, x \in ApiNames \cup {None} :
            apiNameByMeterName' = [apiNameByMeterName EXCEPT ![n] = x]
      BY <2>4, DeliveredMeter DEF ApiNames
    <3> QED
      BY <2>4, <3>1 DEF DeliverMeter, Consumer!ChangeIndex, podVars
  <2> QED
    BY <2>1, <2>2, <2>3, <2>4
    DEF PathNext, Next, ChangeAccount, ChangeMeter, pathVars, cacheVars, vars, Consumer!Next
<1>3. PathSafety => []TypeOK
  <2>1. PathInit => Init
    BY DEF PathInit
  <2>2. [PathNext]_pathVars => [Next]_vars
    BY DEF PathNext, pathVars, cacheVars
  <2>3. PathSafety => Spec
    BY <2>1, <2>2, PTL DEF PathSafety, Spec
  <2> QED
    BY <2>3, CacheTypes, PTL
<1> QED
  BY <1>1, <1>2, <1>3, PTL DEF PathSafety, ImplementsConsumer, Consumer!Spec
=============================================================================
