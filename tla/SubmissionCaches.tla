-------------------------- MODULE SubmissionCaches --------------------------
(***************************************************************************)
(* The two indexes the submission consumer resolves references with        *)
(* (internal/submission/billingaccount_cache.go, meterdefinition_cache.go) *)
(* and the informers that feed them. An informer delivers what is new of   *)
(* an object at some later time; an object deleted and created again       *)
(* meanwhile arrives as one update, with another UID or meter name.        *)
(***************************************************************************)
EXTENDS Naturals

CONSTANTS
  AccountKeys,    \* namespaced names of BillingAccounts
  NameOf,         \* metadata.name of each
  Uids,
  Meters,         \* MeterDefinitions
  MeterPhases,    \* the phases they go through
  MeterNamesOf,   \* the spec.meterName each may be created with
  ApiNameOf,      \* Amberflo meterApiName derived from metadata.name
  None

AccountNames == {NameOf[k] : k \in AccountKeys}
MeterNames == UNION {MeterNamesOf[d] : d \in Meters}
ApiNames == {ApiNameOf[d] : d \in Meters}

\* What the index reads of a MeterDefinition. A phase changes, the name of an
\* object does not: only a recreation brings another one.
Version(d) == [phase : MeterPhases, meterName : MeterNamesOf[d]]

ASSUME NoneAssumption ==
  None \notin Uids \cup ApiNames \cup UNION {Version(d) : d \in Meters}
ASSUME PhasesAssumption ==
  MeterPhases \subseteq {"Draft", "Published", "Deprecated", "Retired"}
ASSUME FunctionsAssumption ==
  DOMAIN NameOf = AccountKeys /\ DOMAIN MeterNamesOf = Meters /\ DOMAIN ApiNameOf = Meters

VARIABLES
  accounts,      \* UID of each BillingAccount at the API server, or None
  accountSeen,   \* what the informer has delivered of it
  uidByName,     \* BillingAccountCache
  meters,        \* Version of each MeterDefinition at the API server, or None
  meterSeen,     \* what the informer has delivered of it
  apiNameByMeterName,  \* MeterDefinitionCache
  stale          \* names whose entry a recreation under another name left behind

vars == <<accounts, accountSeen, uidByName, meters, meterSeen, apiNameByMeterName, stale>>

TypeOK ==
  /\ accounts \in [AccountKeys -> Uids \cup {None}]
  /\ accountSeen \in [AccountKeys -> Uids \cup {None}]
  /\ uidByName \in [AccountNames -> Uids \cup {None}]
  /\ DOMAIN meters = Meters /\ \A d \in Meters : meters[d] \in Version(d) \cup {None}
  /\ DOMAIN meterSeen = Meters /\ \A d \in Meters : meterSeen[d] \in Version(d) \cup {None}
  /\ apiNameByMeterName \in [MeterNames -> ApiNames \cup {None}]
  /\ stale \subseteq MeterNames

Init ==
  /\ accounts = [k \in AccountKeys |-> None]
  /\ accountSeen = accounts
  /\ uidByName = [n \in AccountNames |-> None]
  /\ meters = [d \in Meters |-> None]
  /\ meterSeen = meters
  /\ apiNameByMeterName = [n \in MeterNames |-> None]
  /\ stale = {}

-----------------------------------------------------------------------------
(* The API server. A UID belongs to one account ever.                      *)

ChangeAccount(k) ==
  /\ \E u \in Uids \cup {None} :
       /\ u # accounts[k]
       /\ u # None => \A j \in AccountKeys : u \notin {accounts[j], accountSeen[j]}
       /\ accounts' = [accounts EXCEPT ![k] = u]
  /\ UNCHANGED <<accountSeen, uidByName, meters, meterSeen, apiNameByMeterName, stale>>

\* A phase change, a deletion, a creation under any name of the definition.
ChangeMeter(d) ==
  /\ \E v \in (Version(d) \cup {None}) \ {meters[d]} :
       /\ None \notin {v, meters[d]} => v.meterName = meters[d].meterName
       /\ meters' = [meters EXCEPT ![d] = v]
  /\ UNCHANGED <<accounts, accountSeen, uidByName, meterSeen, apiNameByMeterName, stale>>

-----------------------------------------------------------------------------
(* The event handlers.                                                     *)

\* Variant: the tombstone of a deletion is not recognised.
deleteNothing(k) == uidByName

\* Variant: the name is stored in place of the UID.
upsertName(k, u) == [uidByName EXCEPT ![NameOf[k]] = NameOf[k]]

\* BillingAccountCache.upsert and .delete: keyed by metadata.name only.
upsertAccount(k, u) == [uidByName EXCEPT ![NameOf[k]] = u]
deleteAccount(k) == [uidByName EXCEPT ![NameOf[k]] = None]

\* AddFunc, UpdateFunc and DeleteFunc of the BillingAccount informer.
DeliverAccount(k) ==
  /\ accountSeen[k] # accounts[k]
  /\ accountSeen' = [accountSeen EXCEPT ![k] = accounts[k]]
  /\ uidByName' = IF accounts[k] = None THEN deleteAccount(k) ELSE upsertAccount(k, accounts[k])
  /\ UNCHANGED <<accounts, meters, meterSeen, apiNameByMeterName, stale>>

Indexed(v) == v.phase \in {"Published", "Deprecated"}

deleteMeter(v) == [apiNameByMeterName EXCEPT ![v.meterName] = None]

\* Variant: a meter that leaves Published and Deprecated stays in the index.
upsertKeepingRetired(d, v) ==
  IF Indexed(v) THEN [apiNameByMeterName EXCEPT ![v.meterName] = ApiNameOf[d]]
  ELSE apiNameByMeterName

\* Variant: the index holds the meter name where Amberflo expects its own.
upsertMeterName(d, v) == [apiNameByMeterName EXCEPT ![v.meterName] = v.meterName]

\* MeterDefinitionCache.upsert: other phases remove the entry.
upsertMeter(d, v) ==
  IF Indexed(v) THEN [apiNameByMeterName EXCEPT ![v.meterName] = ApiNameOf[d]]
  ELSE deleteMeter(v)

\* An update is given the new object only and leaves the entry of the name
\* that was seen before.
LeftBehind(d) ==
  IF None \in {meterSeen[d], meters[d]} THEN {}
  ELSE {n \in {meterSeen[d].meterName} : apiNameByMeterName[n] # None}

\* AddFunc, UpdateFunc and DeleteFunc of the MeterDefinition informer; a
\* deletion carries the object as it was last seen.
DeliverMeter(d) ==
  LET v == IF meters[d] = None THEN meterSeen[d] ELSE meters[d] IN
  /\ meterSeen[d] # meters[d]
  /\ meterSeen' = [meterSeen EXCEPT ![d] = meters[d]]
  /\ apiNameByMeterName' = IF meters[d] = None THEN deleteMeter(v) ELSE upsertMeter(d, v)
  /\ stale' = (stale \cup LeftBehind(d)) \ {v.meterName}
  /\ UNCHANGED <<accounts, accountSeen, uidByName, meters>>

Next ==
  \/ \E k \in AccountKeys : ChangeAccount(k) \/ DeliverAccount(k)
  \/ \E d \in Meters : ChangeMeter(d) \/ DeliverMeter(d)

Spec == Init /\ [][Next]_vars

-----------------------------------------------------------------------------

\* No two accounts share a name and no two meters a meter name.
UniqueAccountNames == \A j, k \in AccountKeys : NameOf[j] = NameOf[k] => j = k
UniqueMeterNames ==
  \A d, e \in Meters : d # e => MeterNamesOf[d] \cap MeterNamesOf[e] = {}

\* GetUID and GetAPIName; None stands for the answer false.
GetUID(n) == uidByName[n]
GetAPIName(n) == apiNameByMeterName[n]

\* What GetUID answers is the UID of a delivered account of that name, and
\* every delivered account is found under its name with its present UID:
\* none that is gone, replaced or renamed by a recreation is billed. It takes
\* UniqueAccountNames: the index is keyed by name, and the deletion of one of
\* two namesakes in different namespaces would hide the other.
AccountIndexExact ==
  /\ \A n \in AccountNames :
       GetUID(n) # None => \E k \in AccountKeys : NameOf[k] = n /\ accountSeen[k] = GetUID(n)
  /\ \A k \in AccountKeys : accountSeen[k] # None => GetUID(NameOf[k]) = accountSeen[k]

\* GetAPIName finds a meter under its name exactly while it is Published or
\* Deprecated, and finds nothing under a name no meter has, unless a
\* recreation under another name left that entry behind: the handlers upsert
\* the new object and never delete the old one (meterdefinition_cache.go:55-59).
MeterIndexExact ==
  /\ \A d \in Meters :
       meterSeen[d] # None =>
         GetAPIName(meterSeen[d].meterName) = IF Indexed(meterSeen[d]) THEN ApiNameOf[d] ELSE None
  /\ \A n \in MeterNames \ stale :
       GetAPIName(n) # None =>
         \E d \in Meters : meterSeen[d] # None /\ meterSeen[d].meterName = n
=============================================================================
