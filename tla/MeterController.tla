--------------------------- MODULE MeterController ---------------------------
(***************************************************************************)
(* The MeterDefinition reconciler and the Amberflo meters and product      *)
(* items it keeps (internal/controller/meterdefinition_controller.go,      *)
(* internal/amberflo/meter.go).                                            *)
(*                                                                         *)
(* A definition's metadata.name is its meterApiName. Amberflo may hold     *)
(* leftovers of earlier releases: meters keyed by a UID, product items     *)
(* that point at them, labels no list shows. The controller has one        *)
(* worker for all definitions, the only writer of meters here. Product     *)
(* items are written by the Offer reconciler of the same process as well   *)
(* (OfferController models it); the API server, the informer and Amberflo  *)
(* are external.                                                           *)
(***************************************************************************)
EXTENDS Naturals, FiniteSets

CONSTANTS
  Names,          \* names of MeterDefinitions
  Unsupported,    \* names whose aggregation Amberflo may not have
  Legacy,         \* UID-form meterApiNames of leftover meters
  Labels,         \* display names
  OldLabels,      \* those that leftovers of earlier releases have
  None,
  MaxFaults,      \* bound on failed calls and crashes
  MaxUserSteps    \* bound on what users and the Offer reconciler do

ASSUME NamesAssumption == Unsupported \subseteq Names /\ Names \cap Legacy = {}
ASSUME LabelsAssumption == OldLabels \subseteq Labels
ASSUME NoneAssumption == None \notin Names \cup Legacy
ASSUME BoundsAssumption == MaxFaults \in Nat /\ MaxUserSteps \in Nat

VARIABLES
  api,        \* each definition at the API server, or None
  version,    \* the last resourceVersion given out to each
  cached,     \* the informer's version of each
  queued,     \* names in the work queue
  retry,      \* names that will be added after a delay
  pc,         \* where the worker is
  cur,        \* the definition it works on
  md,         \* the version Reconcile got from the cache
  victim,     \* the meter deleteMeterRecord is about
  copy,       \* the item it read under the label, or None
  blind,      \* the check of that item's meter ended on a permanent error
  meters,     \* Amberflo's meters by meterApiName
  items,      \* Amberflo's product items by name
  hidden,     \* labels that are taken although no list shows their holder
  faults, userSteps

vars == <<api, version, cached, queued, retry, pc, cur, md, victim, copy, blind,
          meters, items, hidden, faults, userSteps>>

\* supported: Amberflo has a meter type for the aggregation, which is immutable.
Definition == [rv : Nat, label : Labels, supported : BOOLEAN,
               finalizer : BOOLEAN, deleting : BOOLEAN]

\* A label as it is, or the one that disambiguatedMeterLabel makes of it.
MeterLabel == Labels \X (Names \cup {None})
Meter == [label : MeterLabel, status : {"active", "deprecated"}]
Item == [meter : Names \cup Legacy, status : {"active", "deprecated"}]

ASSUME NoneIsNoRecord == None \notin Definition \cup Meter \cup Item

WorkerStates == {"idle", "addFinalizer", "getMeter", "postMeter", "putMeter",
                 "getByLabel", "deprecate", "delete", "createCheck", "createPost",
                 "adopt", "unlockItem", "pointItem", "delGet", "delByLabel", "release"}

TypeOK ==
  /\ api \in [Names -> Definition \cup {None}]
  /\ version \in [Names -> Nat]
  /\ cached \in [Names -> Definition \cup {None}]
  /\ queued \subseteq Names /\ retry \subseteq Names
  /\ pc \in WorkerStates
  /\ cur \in Names \cup {None} /\ md \in Definition \cup {None}
  /\ pc # "idle" => cur \in Names /\ md \in Definition
  /\ victim \in Names \cup Legacy \cup {None}
  /\ pc \in {"deprecate", "delete"} => victim # None /\ meters[victim] # None
  /\ copy \in Item \cup {None} /\ blind \in BOOLEAN
  /\ pc \in {"unlockItem", "pointItem"} => copy \in Item /\ items[md.label] \in Item
  /\ meters \in [Names \cup Legacy -> Meter \cup {None}]
  /\ items \in [Labels -> Item \cup {None}]
  /\ hidden \subseteq Labels
  /\ faults \in 0 .. MaxFaults /\ userSteps \in 0 .. MaxUserSteps

ActiveLeftover == [label : OldLabels \X {None}, status : {"active"}]

\* Any leftovers: active meters keyed by a UID, items that point at one of them.
Init ==
  /\ api = [n \in Names |-> None] /\ cached = [n \in Names |-> None]
  /\ version = [n \in Names |-> 0] /\ queued = {} /\ retry = {}
  /\ pc = "idle" /\ cur = None /\ md = None /\ victim = None /\ copy = None /\ blind = FALSE
  /\ \E left \in [Legacy -> ActiveLeftover \cup {None}] :
       /\ \A x, y \in Legacy : left[x] # None /\ left[x] = left[y] => x = y
       /\ meters = [x \in Names \cup Legacy |-> IF x \in Legacy THEN left[x] ELSE None]
  /\ items \in [Labels -> [meter : Legacy, status : {"active", "deprecated"}] \cup {None}]
  /\ \A l \in Labels \ OldLabels : items[l] = None
  /\ hidden \in SUBSET OldLabels
  /\ faults = 0 /\ userSteps = 0

-----------------------------------------------------------------------------
(* The API server and its users.                                           *)

amberflo == <<meters, items, hidden>>
worker == <<pc, cur, md, victim, copy, blind>>

SpendFault == faults < MaxFaults /\ faults' = faults + 1
SpendUserStep == userSteps < MaxUserSteps /\ userSteps' = userSteps + 1

Write(n, d) ==
  /\ version' = [version EXCEPT ![n] = @ + 1]
  /\ api' = [api EXCEPT ![n] = IF d = None THEN None ELSE [d EXCEPT !.rv = version'[n]]]

NoWrite == UNCHANGED <<api, version>>

\* The aggregation is fixed at creation.
CreateDefinition(n) ==
  /\ api[n] = None /\ SpendUserStep
  /\ \E l \in Labels, s \in {TRUE} \cup {n \notin Unsupported} :
       Write(n, [rv |-> 0, label |-> l, supported |-> s,
                 finalizer |-> FALSE, deleting |-> FALSE])
  /\ UNCHANGED <<cached, queued, retry, worker, amberflo, faults>>

\* The display name is the one field that users may change.
ChangeLabel(n) ==
  /\ api[n] # None /\ SpendUserStep
  /\ \E l \in Labels \ {api[n].label} : Write(n, [api[n] EXCEPT !.label = l])
  /\ UNCHANGED <<cached, queued, retry, worker, amberflo, faults>>

DeleteDefinition(n) ==
  /\ api[n] # None /\ ~api[n].deleting /\ SpendUserStep
  /\ Write(n, IF api[n].finalizer THEN [api[n] EXCEPT !.deleting = TRUE] ELSE None)
  /\ UNCHANGED <<cached, queued, retry, worker, amberflo, faults>>

\* The informer catches up and the watch enqueues the name.
Observe(n) ==
  /\ cached[n] # api[n]
  /\ cached' = [cached EXCEPT ![n] = api[n]] /\ queued' = queued \cup {n}
  /\ UNCHANGED <<api, version, retry, worker, amberflo, faults, userSteps>>

RetryElapses(n) ==
  /\ n \in retry /\ retry' = retry \ {n} /\ queued' = queued \cup {n}
  /\ UNCHANGED <<api, version, cached, worker, amberflo, faults, userSteps>>

\* The Offer reconciler creates the item of a label or points it, unlocked, at
\* the meter of a pricing (ensureProductItem), whatever meter the item is on: one
\* it finds by id is not checked. It knows the meter by its definition.
OfferWritesItem(l) ==
  /\ SpendUserStep
  /\ \E n \in Names :
       /\ version[n] > 0
       /\ \/ items' = [items EXCEPT ![l] = [meter |-> n, status |-> "active"]]
          \/ /\ items[l] # None /\ items[l].status = "deprecated"
             /\ items' = [items EXCEPT ![l].status = "active"]
  /\ UNCHANGED <<api, version, cached, queued, retry, worker, meters, hidden, faults>>

-----------------------------------------------------------------------------
(* The worker.                                                             *)

\* Reconcile returns. Every failed call, permanent ones too, is requeued.
Return(again) ==
  /\ pc' = "idle" /\ cur' = None /\ md' = None /\ victim' = None
  /\ copy' = None /\ blind' = FALSE
  /\ retry' = IF again THEN retry \cup {cur} ELSE retry

Goto(l) == pc' = l /\ UNCHANGED <<cur, md, victim, copy, blind, retry>>

\* A call that fails and changes nothing.
CallFails == SpendFault /\ Return(TRUE) /\ NoWrite /\ UNCHANGED amberflo

Restart ==
  /\ SpendFault
  /\ cached' = api /\ queued' = {n \in Names : api[n] # None} /\ retry' = {}
  /\ pc' = "idle" /\ cur' = None /\ md' = None /\ victim' = None
  /\ copy' = None /\ blind' = FALSE
  /\ UNCHANGED <<api, version, amberflo, userSteps>>

\* Variants: the finalizer forgotten; a definition that is not found taken on.
ReconcilePathSkippingFinalizer(n) ==
  IF cached[n] = None THEN "idle"
  ELSE IF cached[n].deleting THEN IF cached[n].finalizer THEN "delGet" ELSE "idle"
  ELSE IF ~cached[n].supported THEN "idle" ELSE "getMeter"
ReconcilePathIgnoringNotFound(n) ==
  IF cached[n] = None THEN "getMeter"
  ELSE IF cached[n].deleting THEN IF cached[n].finalizer THEN "delGet" ELSE "idle"
  ELSE IF ~cached[n].finalizer THEN "addFinalizer" ELSE "getMeter"

ReconcilePath(n) ==
  IF cached[n] = None THEN "idle"
  ELSE IF cached[n].deleting THEN IF cached[n].finalizer THEN "delGet" ELSE "idle"
  ELSE IF ~cached[n].finalizer THEN "addFinalizer"
  ELSE IF ~cached[n].supported THEN "idle" ELSE "getMeter"

Reconcile(n) ==
  /\ pc = "idle" /\ n \in queued
  /\ queued' = queued \ {n}
  /\ pc' = ReconcilePath(n)
  /\ cur' = IF pc' = "idle" THEN None ELSE n
  /\ md' = IF pc' = "idle" THEN None ELSE cached[n]
  /\ UNCHANGED <<api, version, cached, retry, victim, copy, blind, amberflo, faults, userSteps>>

\* Update: a conflict unless the cached copy is the current version.
Current == api[cur] # None /\ api[cur].rv = md.rv

AddFinalizer ==
  /\ pc = "addFinalizer" /\ UNCHANGED amberflo
  /\ \/ Current /\ Write(cur, [md EXCEPT !.finalizer = TRUE]) /\ Return(FALSE) /\ UNCHANGED faults
     \/ ~Current /\ NoWrite /\ Return(TRUE) /\ UNCHANGED faults
     \/ CallFails

-----------------------------------------------------------------------------
(* EnsureMeter.                                                            *)

\* The label of the definition, and the one createMeterReusingProductItem uses.
label == <<md.label, None>>
disambiguatedMeterLabel == <<md.label, cur>>

meterLabelAcceptable(m) == m.label \in {label, disambiguatedMeterLabel}
meterNeedsUpdate(m) == ~meterLabelAcceptable(m) \/ m.status # "active"

\* Amberflo refuses a second meter with a label.
Holders(l) == {x \in Names \cup Legacy : meters[x] # None /\ meters[x].label = l}
LabelFree(l) == Holders(l) = {} /\ ~(l[2] = None /\ l[1] \in hidden)

SetMeter(x, m) == meters' = [meters EXCEPT ![x] = m] /\ UNCHANGED <<items, hidden>>
MaySetMeter(x, m) == SetMeter(x, m) \/ UNCHANGED amberflo

GetMeter ==
  /\ pc = "getMeter" /\ NoWrite
  /\ \/ /\ Goto(IF meters[cur] = None THEN "postMeter"
                ELSE IF meterNeedsUpdate(meters[cur]) THEN "putMeter" ELSE "adopt")
        /\ UNCHANGED <<amberflo, faults>>
     \/ CallFails

\* The POST under the plain label. When an attempt inside the call times out
\* after it was applied, the next one finds the label taken.
PostMeter ==
  LET m == [label |-> label, status |-> "active"] IN
  /\ pc = "postMeter" /\ NoWrite
  /\ \/ LabelFree(label) /\ SetMeter(cur, m) /\ Return(FALSE) /\ UNCHANGED faults
     \/ LabelFree(label) /\ SpendFault /\ SetMeter(cur, m) /\ Goto("getByLabel")
     \/ LabelFree(label) /\ SpendFault /\ MaySetMeter(cur, m) /\ Return(TRUE)
     \/ ~LabelFree(label) /\ CallFails
     \/ ~LabelFree(label) /\ Goto("getByLabel") /\ UNCHANGED <<amberflo, faults>>

\* The PUT keeps an acceptable label. Amberflo refuses a label that is taken
\* and the way back from deprecated.
PutMeter ==
  LET keep == meterLabelAcceptable(meters[cur])
      accepted == meters[cur].status = "active" /\ (keep \/ LabelFree(label))
      m == [label |-> IF keep THEN meters[cur].label ELSE label, status |-> "active"] IN
  /\ pc = "putMeter" /\ NoWrite
  /\ \/ accepted /\ SetMeter(cur, m) /\ Goto("adopt") /\ UNCHANGED faults
     \/ accepted /\ SpendFault /\ MaySetMeter(cur, m) /\ Return(TRUE)
     \/ ~accepted /\ Return(TRUE) /\ UNCHANGED <<amberflo, faults>>

\* deleteMeterRecord deprecates a meter unless it is deprecated already.
BeginDelete(x) ==
  /\ pc' = IF meters[x].status = "deprecated" THEN "delete" ELSE "deprecate"
  /\ victim' = x /\ UNCHANGED <<cur, md, copy, blind, retry>>

\* Variant: any meter that holds the label is replaced.
ReplaceableAny(x) == x # cur
\* Variant: no meter is.
ReplaceableNone(x) == FALSE

\* isLegacyUIDMeterAPIName: only a leftover may be deleted for its label.
Replaceable(x) == x \in Legacy

\* replaceLegacyMeter: who holds the label?
GetMeterByLabel ==
  /\ pc = "getByLabel" /\ NoWrite
  /\ \/ /\ UNCHANGED <<amberflo, faults>>
        /\ \/ Holders(label) = {} /\ Goto("createCheck")
           \/ \E x \in Holders(label) :
                IF x = cur THEN Goto("putMeter")
                ELSE IF Replaceable(x) THEN BeginDelete(x) ELSE Return(TRUE)
     \/ CallFails

-----------------------------------------------------------------------------
(* deleteMeterRecord, for a leftover or for the definition's own meter.    *)

Deprecated == [meters[victim] EXCEPT !.status = "deprecated"]

DeprecateMeter ==
  /\ pc = "deprecate" /\ NoWrite
  /\ \/ SetMeter(victim, Deprecated) /\ Goto("delete") /\ UNCHANGED faults
     \/ SpendFault /\ MaySetMeter(victim, Deprecated) /\ Return(TRUE)

\* Variant: the deletion falls through into the creation.
AfterDeleteAlwaysCreates == "createCheck"

AfterDelete == IF md.deleting THEN "release" ELSE "createCheck"

DeleteMeterRecord ==
  /\ pc = "delete" /\ NoWrite
  /\ \/ /\ SetMeter(victim, None)
        /\ pc' = AfterDelete /\ victim' = None
        /\ UNCHANGED <<cur, md, copy, blind, retry, faults>>
     \/ SpendFault /\ MaySetMeter(victim, None) /\ Return(TRUE)

-----------------------------------------------------------------------------
(* Product items.                                                          *)

itemOf == items[md.label]

\* Variant: items of other meters are taken for leftovers.
LiveForeignNever(i) == FALSE

\* rejectLiveForeignProductItem: the item's meter exists and is another's. The
\* item is read before the meter, but nobody else writes meters meanwhile.
LiveForeign(i) == i.meter \in Names \ {cur} /\ meters[i.meter] # None

\* A permanent error of the lookup of the item's meter counts as "not there".
BlindCheck == itemOf # None /\ itemOf.meter \in Names \ {cur} /\ SpendFault

\* The worker goes on with a copy of the item.
Take(l, unchecked) ==
  pc' = l /\ copy' = itemOf /\ blind' = unchecked /\ UNCHANGED <<cur, md, victim, retry>>

\* createMeterReusingProductItem, up to its POST: the item with the name of
\* the label must not belong to a live meter.
CreateCheck ==
  /\ pc = "createCheck" /\ NoWrite /\ UNCHANGED amberflo
  /\ \/ /\ IF itemOf # None /\ LiveForeign(itemOf) THEN Return(TRUE) ELSE Take("createPost", FALSE)
        /\ UNCHANGED faults
     \/ BlindCheck /\ Take("createPost", TRUE)
     \/ CallFails

\* pointProductItemAtMeter: nothing to do for an item on this meter, and a
\* deprecated one is unlocked first.
Pointing(i) == IF i.meter = cur THEN "done" ELSE IF i.status = "deprecated" THEN "unlockItem" ELSE "pointItem"

CreatePost ==
  LET m == [label |-> disambiguatedMeterLabel, status |-> "active"] IN
  /\ pc = "createPost" /\ NoWrite
  /\ \/ /\ LabelFree(disambiguatedMeterLabel) /\ SetMeter(cur, m)
        /\ IF copy = None \/ Pointing(copy) = "done" THEN Return(FALSE) ELSE Goto(Pointing(copy))
        /\ UNCHANGED faults
     \/ SpendFault /\ MaySetMeter(cur, m) /\ Return(TRUE)

\* adoptOrphanProductItem: a live foreign item, and an error of the check,
\* are left alone.
AdoptOrphanItem ==
  /\ pc = "adopt" /\ NoWrite /\ UNCHANGED amberflo
  /\ \/ /\ IF itemOf = None \/ LiveForeign(itemOf) \/ Pointing(itemOf) = "done"
           THEN Return(FALSE) ELSE Take(Pointing(itemOf), FALSE)
        /\ UNCHANGED faults
     \/ BlindCheck /\ Take(Pointing(itemOf), TRUE)
     \/ BlindCheck /\ Return(FALSE)
     \/ CallFails

SetItem(i) == items' = [items EXCEPT ![md.label] = i] /\ UNCHANGED <<meters, hidden>>
MaySetItem(i) == SetItem(i) \/ UNCHANGED amberflo

\* Both updates post the whole copy, with whatever the worker read of the
\* item. Amberflo may refuse them, which is tolerated; a transient error is not.
UnlockItem ==
  LET unlocked == [copy EXCEPT !.status = "active"] IN
  /\ pc = "unlockItem" /\ NoWrite
  /\ \/ /\ SetItem(unlocked) /\ pc' = "pointItem" /\ copy' = unlocked
        /\ UNCHANGED <<cur, md, victim, blind, retry, faults>>
     \/ Return(FALSE) /\ UNCHANGED <<amberflo, faults>>
     \/ SpendFault /\ MaySetItem(unlocked) /\ Return(TRUE)

PointItem ==
  LET pointed == [copy EXCEPT !.meter = cur] IN
  /\ pc = "pointItem" /\ NoWrite
  /\ \/ SetItem(pointed) /\ Return(FALSE) /\ UNCHANGED faults
     \/ Return(FALSE) /\ UNCHANGED <<amberflo, faults>>
     \/ SpendFault /\ MaySetItem(pointed) /\ Return(TRUE)

-----------------------------------------------------------------------------
(* reconcileDelete and DeleteMeter.                                        *)

DelGetMeter ==
  /\ pc = "delGet" /\ NoWrite /\ UNCHANGED amberflo
  /\ \/ meters[cur] = None /\ Goto("delByLabel") /\ UNCHANGED faults
     \/ meters[cur] # None /\ BeginDelete(cur) /\ UNCHANGED faults
     \/ CallFails

\* A leftover with the definition's label is deleted in its place.
DelByLabel ==
  /\ pc = "delByLabel" /\ NoWrite /\ UNCHANGED amberflo
  /\ \/ /\ UNCHANGED faults
        /\ \/ Holders(label) = {} /\ Goto("release")
           \/ \E x \in Holders(label) :
                IF Replaceable(x) THEN BeginDelete(x) ELSE Goto("release")
     \/ CallFails

RemoveFinalizer ==
  /\ pc = "release" /\ UNCHANGED amberflo
  /\ \/ Current /\ Write(cur, None) /\ Return(FALSE) /\ UNCHANGED faults
     \/ ~Current /\ NoWrite /\ Return(TRUE) /\ UNCHANGED faults
     \/ CallFails

-----------------------------------------------------------------------------

\* What a reconcile does once it has begun.
Work ==
  /\ \/ AddFinalizer \/ GetMeter \/ PostMeter \/ PutMeter \/ GetMeterByLabel
     \/ DeprecateMeter \/ DeleteMeterRecord \/ CreateCheck \/ CreatePost
     \/ AdoptOrphanItem \/ UnlockItem \/ PointItem \/ DelGetMeter \/ DelByLabel
     \/ RemoveFinalizer
  /\ UNCHANGED <<cached, queued, userSteps>>

Next ==
  \/ \E n \in Names : \/ CreateDefinition(n) \/ ChangeLabel(n) \/ DeleteDefinition(n)
                      \/ Observe(n) \/ RetryElapses(n) \/ Reconcile(n)
  \/ \E l \in Labels : OfferWritesItem(l)
  \/ Restart
  \/ Work

\* The informer delivers, timers fire, the worker runs, and the work queue,
\* which is first in first out, passes over no name.
Fairness ==
  /\ WF_vars(Work)
  /\ \A n \in Names :
       WF_vars(Observe(n)) /\ WF_vars(RetryElapses(n)) /\ SF_vars(Reconcile(n))

Spec == Init /\ [][Next]_vars
FairSpec == Spec /\ Fairness

-----------------------------------------------------------------------------

\* A meter under a definition's name has its definition, held by the
\* finalizer, whatever fails and whatever the informer has yet to deliver.
NoOrphanMeter ==
  \A n \in Names : meters[n] # None => api[n] # None /\ api[n].finalizer

\* A reconcile never changes or deletes the meter of another definition, also
\* when the two want the same label (meter.go:350-354, 583-585).
MetersKept ==
  [][\A n \in Names : meters[n] # None /\ meters'[n] # meters[n] => cur = n]_vars

\* A reconcile moves no product item away from the live meter of another
\* definition (meter.go:396-398), unless the lookup of that meter was refused,
\* or the Offer reconciler put the item there after this one had read it: the
\* update posts the copy that was read (484-518), and nothing tells it is stale.
ItemsKept ==
  [][\A l \in Labels :
       items[l] # None /\ items'[l].meter # items[l].meter /\ pc' # pc =>
         \/ blind
         \/ items[l].meter \notin Names \ {cur}
         \/ meters[items[l].meter] = None
         \/ items[l] # copy]_vars

InSync(n) ==
  /\ meters[n] # None /\ meters[n].status = "active"
  /\ meters[n].label \in {<<api[n].label, None>>, <<api[n].label, n>>}

\* What Amberflo's state denies a definition: its label is the live label of
\* another one, its item another one's, or its meter exists under another
\* label and the new one is taken.
Blocked(n) ==
  LET l == <<api[n].label, None>> IN
  \/ Holders(l) \cap (Names \ {n}) # {}
  \/ /\ items[api[n].label] # None
     /\ items[api[n].label].meter \in Names \ {n}
     /\ meters[items[api[n].label].meter] # None
  \/ meters[n] # None /\ ~LabelFree(l)

\* Once users and faults rest, every supported definition has its active
\* meter, through leftovers and half-done replacements, unless blocked.
Converges ==
  <>[](\A n \in Names :
         api[n] # None /\ api[n].supported /\ ~api[n].deleting => InSync(n) \/ Blocked(n))

\* A definition that is being deleted goes away.
DeletionCompletes ==
  \A n \in Names : (api[n] # None /\ api[n].deleting) ~> (api[n] = None \/ ~api[n].deleting)
=============================================================================
