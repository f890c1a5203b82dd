--------------------------- MODULE OfferController ---------------------------
(***************************************************************************)
(* The Offer reconciler and the Amberflo product plan it builds from       *)
(* product items and their prices (internal/controller/offer_controller.go, *)
(* internal/amberflo/product_plan.go), for one Offer name. Offers with     *)
(* that name may be created and deleted one after the other; the UID of    *)
(* each is the id of its plan.                                             *)
(*                                                                         *)
(* The API server, the informer and Amberflo are external. Product items   *)
(* are shared with the MeterDefinition reconciler (MeterController), which *)
(* runs beside this worker and moves items to other meters. Of an offer    *)
(* only the stage and the title change, as the API server enforces; the    *)
(* pricings in its snapshot are constants, and what they charge is in      *)
(* PlanPricing. A MeterDefinition stands for its meter at Amberflo too.    *)
(***************************************************************************)
EXTENDS Integers, Sequences

CONSTANTS
  Uids,           \* UIDs of the offers created under the name
  Titles,         \* display names of an offer
  Meters,         \* meterApiNames
  Labels,         \* display names of pricings and product items
  MeterOf,        \* the meter of each usage pricing of the snapshot, in order
  LabelOf,        \* its display name
  Assigned,       \* item ids that Amberflo makes up
  Dead,           \* a meter of an earlier release that leftovers point at
  Leftovers,      \* sets of items that Amberflo may have from earlier releases
  None,
  MaxFaults,      \* bound on failed calls and crashes
  MaxUserSteps    \* bound on what users, operators and meters do

Pricings == DOMAIN MeterOf

ASSUME PricingsAssumption ==
  /\ MeterOf \in Seq(Meters) /\ LabelOf \in [Pricings -> Labels]
  /\ Pricings # {} /\ Titles # {}
ASSUME NamesAssumption ==
  Meters \cap Assigned = {} /\ Dead \notin Meters /\ None \notin Meters \cup Assigned
ASSUME BoundsAssumption == MaxFaults \in Nat /\ MaxUserSteps \in Nat

VARIABLES
  api,        \* the offer at the API server, or None
  version,    \* the last resourceVersion given out
  used,       \* UIDs given out so far
  cached,     \* the informer's version
  queued,     \* the offer is in the work queue
  retry,      \* the offer will be added after a delay
  defined,    \* meters that have a definition
  adopting,   \* what the MeterDefinition reconciler is about to do: its copy of
              \* an item and the meter to point it at, or None
  pc,         \* where the worker is
  offer,      \* the version Reconcile got from the cache
  k,          \* the pricing it is at
  item,       \* the product item it has found, or the one it will create
  built,      \* productItemPriceIdsMap so far: pairs of item and pricing; the
              \* price generators, which go with it, keep all pricings
  existing,   \* the plan the last GET returned
  items,      \* Amberflo's product items
  prices,     \* the item each stored price is for, by plan and pricing
  plans,      \* Amberflo's product plans by id
  left,       \* plans whose deletion Amberflo refused for good
  disturbed,  \* history: an item may be found for two meters, or have left the
              \* meter it was found for, since the last reconcile of the plan began
  unsure,     \* history: plans that a disturbed reconcile posted
  faults, userSteps

vars == <<api, version, used, cached, queued, retry, defined, adopting, pc, offer, k,
          item, built, existing, items, prices, plans, left, disturbed, unsure, faults, userSteps>>

Offer == [rv : Nat, uid : Uids, stage : {"draft", "empty", "ga"}, title : Titles,
          finalizer : BOOLEAN, deleting : BOOLEAN]

\* A name as it is, or the one that disambiguatedMeterLabel makes of it.
ItemName == Labels \X (Meters \cup {None})
ItemIds == Meters \cup Assigned
Item == [id : ItemIds, name : ItemName, meter : Meters \cup {Dead},
         status : {"open", "deprecated"}]
Plan == [title : Titles, prices : SUBSET (ItemIds \X Pricings),
         default : BOOLEAN, deprecated : BOOLEAN]

ASSUME LeftoversAssumption ==
  \A s \in Leftovers : s \subseteq Item /\ \A i, j \in s : i.id = j.id => i = j
Adoption == [item : Item, meter : Meters]

ASSUME NoneIsNoRecord == None \notin Offer \cup Item \cup Plan \cup Adoption

WorkerStates == {"idle", "addFinalizer", "findItem", "unlockItem", "pointItem",
                 "postItem", "ensurePrice", "getPlan", "postPlan",
                 "delGet", "deprecate", "delete", "release"}

TypeOK ==
  /\ api \in Offer \cup {None} /\ version \in Nat /\ used \subseteq Uids
  /\ cached \in Offer \cup {None} /\ queued \in BOOLEAN /\ retry \in BOOLEAN
  /\ defined \subseteq Meters /\ adopting \in Adoption \cup {None}
  /\ pc \in WorkerStates
  /\ offer \in Offer \cup {None} /\ (pc # "idle" => offer # None)
  /\ k \in Pricings
  /\ item \in Item \cup {None}
  /\ pc \in {"unlockItem", "pointItem", "postItem", "ensurePrice"} => item # None
  /\ built \subseteq ItemIds \X Pricings
  /\ existing \in Plan \cup {None} /\ (pc = "deprecate" => existing # None)
  /\ items \subseteq Item /\ \A i, j \in items : i.id = j.id => i = j
  /\ prices \in [Uids -> [Pricings -> ItemIds \cup {None}]]
  /\ plans \in [Uids -> Plan \cup {None}]
  /\ left \subseteq Uids /\ unsure \subseteq Uids /\ disturbed \in BOOLEAN
  /\ faults \in 0 .. MaxFaults /\ userSteps \in 0 .. MaxUserSteps

Init ==
  /\ api = None /\ version = 0 /\ used = {} /\ cached = None
  /\ queued = FALSE /\ retry = FALSE /\ defined = Meters /\ adopting = None
  /\ pc = "idle" /\ offer = None /\ k = 1 /\ item = None /\ built = {} /\ existing = None
  /\ items \in Leftovers
  /\ prices = [u \in Uids |-> [p \in Pricings |-> None]]
  /\ plans = [u \in Uids |-> None] /\ left = {} /\ disturbed = FALSE /\ unsure = {}
  /\ faults = 0 /\ userSteps = 0

-----------------------------------------------------------------------------
(* The API server, its users, and whoever else works on Amberflo.          *)

amberflo == <<items, prices, plans, left>>
history == <<disturbed, unsure>>
worker == <<pc, offer, k, item, built, existing>>

SpendFault == faults < MaxFaults /\ faults' = faults + 1
SpendUserStep == userSteps < MaxUserSteps /\ userSteps' = userSteps + 1

Write(o) ==
  /\ version' = version + 1
  /\ api' = IF o = None THEN None ELSE [o EXCEPT !.rv = version']

NoWrite == UNCHANGED <<api, version>>

\* UIDs, and titles, are interchangeable: any will do.
CreateOffer ==
  LET fresh == CHOOSE u \in Uids \ used : TRUE IN
  /\ api = None /\ Uids \ used # {} /\ SpendUserStep
  /\ used' = used \cup {fresh}
  /\ \E s \in {"draft", "ga"} :
       Write([rv |-> 0, uid |-> fresh, stage |-> s, title |-> CHOOSE t \in Titles : TRUE,
              finalizer |-> FALSE, deleting |-> FALSE])
  /\ UNCHANGED <<cached, queued, retry, defined, adopting, worker, amberflo, history, faults>>

\* A draft is published, and its snapshot filled then or later; the title of
\* a published offer may still change.
EditOffer ==
  /\ api # None /\ SpendUserStep
  /\ \/ api.stage = "draft" /\ \E s \in {"empty", "ga"} : Write([api EXCEPT !.stage = s])
     \/ \E t \in Titles \ {api.title} : Write([api EXCEPT !.title = t])
  /\ UNCHANGED <<used, cached, queued, retry, defined, adopting, worker, amberflo, history, faults>>

FillSnapshot ==
  /\ api # None /\ api.stage = "empty" /\ Write([api EXCEPT !.stage = "ga"])
  /\ UNCHANGED <<used, cached, queued, retry, defined, adopting, worker, amberflo, history, faults, userSteps>>

DeleteOffer ==
  /\ api # None /\ ~api.deleting /\ SpendUserStep
  /\ Write(IF api.finalizer THEN [api EXCEPT !.deleting = TRUE] ELSE None)
  /\ UNCHANGED <<used, cached, queued, retry, defined, adopting, worker, amberflo, history, faults>>

\* A MeterDefinition comes or goes, with its meter. The worker that sees to it
\* is the one that adopts items.
ChangeDefinition ==
  /\ adopting = None /\ SpendUserStep
  /\ \E m \in Meters : defined' = IF m \in defined THEN defined \ {m} ELSE defined \cup {m}
  /\ disturbed' = (disturbed \/ ~(defined \subseteq defined'))
  /\ UNCHANGED <<api, version, used, cached, queued, retry, adopting, worker, amberflo,
                 unsure, faults>>

productItemNamed(n) == {i \in items : i.name = n}

\* rejectLiveForeignProductItem.
LiveForeign(i, m) == i.meter \in defined \ {m}

\* The MeterDefinition reconciler finds an item with the display name of a
\* definition, whatever meter it was made for, and with no live meter; a lookup
\* that ends on a permanent error counts as none.
FindOrphanItem ==
  /\ adopting = None /\ SpendUserStep
  /\ \E i \in items, m \in defined :
       /\ productItemNamed(i.name) = {i} /\ i.meter # m
       /\ IF LiveForeign(i, m) THEN SpendFault ELSE UNCHANGED faults
       /\ adopting' = [item |-> i, meter |-> m]
  /\ UNCHANGED <<api, version, used, cached, queued, retry, defined, worker, amberflo, history>>

SetItem(i) == {j \in items : j.id # i.id} \cup {i}

\* It posts its copy of the item, first unlocked if need be, then with the
\* meter; Amberflo may refuse either.
PostOrphanItem ==
  LET i == adopting.item
      unlocked == [i EXCEPT !.status = "open"]
      pointed == [i EXCEPT !.meter = adopting.meter]
  IN
  /\ adopting # None
  /\ \/ /\ i.status = "deprecated" /\ items' = SetItem(unlocked)
        /\ adopting' = [adopting EXCEPT !.item = unlocked] /\ disturbed' = TRUE
     \/ /\ i.status # "deprecated" /\ items' = SetItem(pointed)
        /\ adopting' = None /\ disturbed' = TRUE
     \/ adopting' = None /\ UNCHANGED <<items, disturbed>>
  /\ UNCHANGED <<api, version, used, cached, queued, retry, defined, worker, prices, plans,
                 left, unsure, faults, userSteps>>

\* An operator makes a plan the account's default, or another one instead.
ChangeDefault ==
  /\ SpendUserStep
  /\ \E u \in Uids : plans[u] # None /\ plans' = [plans EXCEPT ![u].default = ~@]
  /\ UNCHANGED <<api, version, used, cached, queued, retry, defined, adopting, worker,
                 items, prices, left, history, faults>>

Observe ==
  /\ cached # api /\ cached' = api /\ queued' = TRUE
  /\ UNCHANGED <<api, version, used, retry, defined, adopting, worker, amberflo, history, faults, userSteps>>

\* The informer's periodic resync; one that comes while the worker is busy is
\* as good as one that comes when it is done. Nothing watches MeterDefinitions here.
Resync ==
  /\ pc = "idle" /\ cached # None /\ ~queued /\ queued' = TRUE
  /\ UNCHANGED <<api, version, used, cached, retry, defined, adopting, worker, amberflo, history, faults, userSteps>>

RetryElapses ==
  /\ retry /\ retry' = FALSE /\ queued' = TRUE
  /\ UNCHANGED <<api, version, used, cached, defined, adopting, worker, amberflo, history, faults, userSteps>>

-----------------------------------------------------------------------------
(* The worker.                                                             *)

Reset == pc' = "idle" /\ offer' = None /\ k' = 1 /\ item' = None /\ built' = {} /\ existing' = None

\* Reconcile returns. Every failed call, permanent ones too, is requeued.
Return(again) == Reset /\ retry' = (retry \/ again)

Goto(l) == pc' = l /\ UNCHANGED <<offer, k, item, built, existing, retry>>
GotoWith(l, i) == pc' = l /\ item' = i /\ UNCHANGED <<offer, k, built, existing, retry>>

\* A call that fails and changes nothing.
CallFails == SpendFault /\ Return(TRUE) /\ UNCHANGED amberflo

Restart ==
  /\ SpendFault /\ Reset
  /\ cached' = api /\ queued' = (api # None) /\ retry' = FALSE
  /\ adopting' = None
  /\ UNCHANGED <<api, version, used, defined, amberflo, history, userSteps>>

\* Variants: the finalizer forgotten; an offer that is not found taken on.
ReconcilePathSkippingFinalizer(o) ==
  IF o = None THEN "idle"
  ELSE IF o.deleting THEN IF o.finalizer THEN "delGet" ELSE "idle"
  ELSE IF o.stage = "draft" THEN "idle"
  ELSE IF o.stage = "ga" /\ \A p \in Pricings : MeterOf[p] \in defined THEN "findItem"
  ELSE "requeue"
ReconcilePathIgnoringNotFound(o) ==
  IF o = None THEN "findItem"
  ELSE IF o.deleting THEN IF o.finalizer THEN "delGet" ELSE "idle"
  ELSE IF ~o.finalizer THEN "addFinalizer" ELSE "findItem"

\* Where Reconcile goes. An empty snapshot, and a pricing whose metric has no
\* MeterDefinition (desiredProductPlan), are tried again later.
ReconcilePath(o) ==
  IF o = None THEN "idle"
  ELSE IF o.deleting THEN IF o.finalizer THEN "delGet" ELSE "idle"
  ELSE IF ~o.finalizer THEN "addFinalizer"
  ELSE IF o.stage = "draft" THEN "idle"
  ELSE IF o.stage = "ga" /\ \A p \in Pricings : MeterOf[p] \in defined THEN "findItem"
  ELSE "requeue"

\* An item that has the id of one meter of the offer is on another one, or would
\* be found by the name of a pricing on it.
Contested ==
  \E p, q \in Pricings, i \in items :
    /\ MeterOf[p] # MeterOf[q] /\ i.id = MeterOf[q]
    /\ i.meter = MeterOf[p] \/ (i.name = <<LabelOf[p], None>> /\ i.meter \notin defined)

Reconcile ==
  /\ pc = "idle" /\ queued
  /\ queued' = FALSE
  /\ IF ReconcilePath(cached) \in {"idle", "requeue"}
     THEN Return(ReconcilePath(cached) = "requeue")
     ELSE /\ pc' = ReconcilePath(cached) /\ offer' = cached
          /\ UNCHANGED <<k, item, built, existing, retry>>
  /\ disturbed' = IF ReconcilePath(cached) = "findItem" THEN Contested ELSE disturbed
  /\ UNCHANGED <<api, version, used, cached, defined, adopting, amberflo, unsure, faults,
                 userSteps>>

\* Update: a conflict unless the cached copy is the current version.
Current == api # None /\ api.rv = offer.rv

AddFinalizer ==
  /\ pc = "addFinalizer"
  /\ \/ /\ Current /\ Write([offer EXCEPT !.finalizer = TRUE])
        /\ Return(FALSE) /\ UNCHANGED <<amberflo, faults>>
     \/ ~Current /\ NoWrite /\ Return(TRUE) /\ UNCHANGED <<amberflo, faults>>
     \/ NoWrite /\ CallFails

-----------------------------------------------------------------------------
(* ensureProductItem, for the pricing at k.                                *)

meter == MeterOf[k]
wantedName == <<LabelOf[k], None>>
disambiguatedName == <<LabelOf[k], meter>>

Several(s) == \E i, j \in s : i # j
OnMeter(m) == {i \in items : i.meter = m}
OpenOn(m) == {i \in OnMeter(m) : i.status = "open"}

\* productItemForMeter: of several items the one that is not deprecated.
productItemForMeter(m) == IF Several(OnMeter(m)) THEN OpenOn(m) ELSE OnMeter(m)
Ambiguous(m) == Several(OnMeter(m)) /\ (OpenOn(m) = {} \/ Several(OpenOn(m)))

\* The item by id, else the one on the meter, else the one with the name.
Candidate(p) ==
  LET m == MeterOf[p]
      byId == {i \in items : i.id = m}
  IN IF byId # {} THEN byId
     ELSE IF OnMeter(m) # {} THEN productItemForMeter(m)
     ELSE productItemNamed(<<LabelOf[p], None>>)

\* The name is looked for, and one item has it that is on another live meter.
FoundForeign(p) ==
  LET m == MeterOf[p] IN
  /\ \A i \in items : i.id # m /\ i.meter # m
  /\ \E i \in items : productItemNamed(<<LabelOf[p], None>>) = {i} /\ LiveForeign(i, m)

LookupFails(p) ==
  LET m == MeterOf[p] IN
  /\ \A i \in items : i.id # m
  /\ \/ Ambiguous(m)
     \/ OnMeter(m) = {} /\ Several(productItemNamed(<<LabelOf[p], None>>))
     \/ FoundForeign(p)

NewItem(n) == [id |-> meter, name |-> n, meter |-> meter, status |-> "open"]

\* Variant: a pricing whose item cannot be had is left out of the plan.
ItemErrorSkipsPricing ==
  IF k = Len(MeterOf) THEN Goto("getPlan")
  ELSE k' = k + 1 /\ UNCHANGED <<pc, offer, item, built, existing, retry>>

ItemError == Return(TRUE)

\* pointProductItemAtMeter, from the copy that was read.
UseItem(i) ==
  GotoWith(IF i.meter = meter THEN "ensurePrice"
           ELSE IF i.status = "deprecated" THEN "unlockItem" ELSE "pointItem", i)

\* The reads before anything is written: the GET, the lists and the lookup of
\* the meter of an item found by name. They are one step. A lookup that ends
\* on a permanent error counts as no live meter.
FindItem ==
  /\ pc = "findItem" /\ NoWrite /\ UNCHANGED unsure
  /\ \/ LookupFails(k) /\ ItemError /\ UNCHANGED <<amberflo, disturbed, faults>>
     \/ /\ ~LookupFails(k) /\ Candidate(k) = {}
        /\ GotoWith("postItem", NewItem(wantedName)) /\ UNCHANGED <<amberflo, disturbed, faults>>
     \/ /\ \/ ~LookupFails(k) /\ UNCHANGED <<faults, disturbed>>
           \/ FoundForeign(k) /\ SpendFault /\ disturbed' = TRUE
        /\ \E i \in Candidate(k) : UseItem(i)
        /\ UNCHANGED amberflo
     \/ CallFails /\ UNCHANGED disturbed

OnlyItems == UNCHANGED <<prices, plans, left>>

\* An item that already is on the meter.
UseSibling(others, otherwise) ==
  IF Ambiguous(meter) THEN ItemError
  ELSE \/ \E i \in others : GotoWith("ensurePrice", i)
       \/ others = {} /\ otherwise

\* After a permanent error a sibling is used, or a new item under another name.
AfterRefusal ==
  /\ UseSibling({i \in productItemForMeter(meter) : i.id # item.id},
                GotoWith("postItem", NewItem(disambiguatedName)))
  /\ UNCHANGED amberflo

\* Amberflo may refuse for good to unlock a deprecated item.
UnlockItem ==
  LET unlocked == [item EXCEPT !.status = "open"] IN
  /\ pc = "unlockItem" /\ NoWrite
  /\ \/ /\ items' = SetItem(unlocked) /\ OnlyItems
        /\ GotoWith("pointItem", unlocked) /\ UNCHANGED faults
     \/ AfterRefusal /\ UNCHANGED faults
     \/ SpendFault /\ Return(TRUE) /\ items' \in {items, SetItem(unlocked)} /\ OnlyItems

PointItem ==
  LET pointed == [item EXCEPT !.meter = meter] IN
  /\ pc = "pointItem" /\ NoWrite
  /\ \/ /\ items' = SetItem(pointed) /\ OnlyItems
        /\ GotoWith("ensurePrice", pointed) /\ UNCHANGED faults
     \/ AfterRefusal /\ SpendFault
     \/ SpendFault /\ Return(TRUE) /\ items' \in {items, SetItem(pointed)} /\ OnlyItems

\* Amberflo refuses a name or an id that another item has, and a second item
\* on a meter; a new item gets the id asked for or one that Amberflo makes up.
NewIds == ({meter} \cup Assigned) \ {i.id : i \in items}
Refused == productItemNamed(item.name) # {} \/ \E i \in items : i.id = meter

PostItem ==
  /\ pc = "postItem" /\ NoWrite
  /\ \/ Refused /\ ItemError /\ UNCHANGED <<amberflo, faults>>
     \/ /\ ~Refused /\ OnMeter(meter) # {}
        /\ UseSibling(productItemForMeter(meter), ItemError) /\ UNCHANGED <<amberflo, faults>>
     \/ /\ ~Refused /\ OnMeter(meter) = {} /\ OnlyItems
        /\ \E id \in NewIds :
             LET created == [item EXCEPT !.id = id] IN
             \/ /\ items' = items \cup {created}
                /\ GotoWith("ensurePrice", created) /\ UNCHANGED faults
             \/ SpendFault /\ items' \in {items, items \cup {created}} /\ Return(TRUE)
     \/ CallFails

-----------------------------------------------------------------------------
(* The prices and the plan.                                                *)

SetPrice == [prices EXCEPT ![offer.uid][k] = item.id]

\* ensureProductItemPrice, its GET and a second POST under another name
\* included; then productItemPriceIdsMap and the next pricing.
EnsurePrice ==
  /\ pc = "ensurePrice" /\ NoWrite /\ UNCHANGED <<items, plans, left>>
  /\ \/ /\ prices' = SetPrice
        /\ built' = {e \in built : e[1] # item.id} \cup {<<item.id, k>>}
        /\ IF k = Len(MeterOf) THEN pc' = "getPlan" /\ UNCHANGED k
           ELSE pc' = "findItem" /\ k' = k + 1
        /\ item' = None
        /\ UNCHANGED <<offer, existing, retry, faults>>
     \/ SpendFault /\ prices' \in {prices, SetPrice} /\ Return(TRUE)

productPlanNeedsUpdate(e) == e.title # offer.title \/ e.prices # built \/ e.deprecated
UpToDate == IF plans[offer.uid] = None THEN FALSE ELSE ~productPlanNeedsUpdate(plans[offer.uid])

GetPlan ==
  /\ pc = "getPlan" /\ NoWrite /\ UNCHANGED amberflo
  /\ \/ UpToDate /\ Return(FALSE) /\ UNCHANGED faults
     \/ /\ ~UpToDate
        /\ pc' = "postPlan" /\ existing' = plans[offer.uid]
        /\ UNCHANGED <<offer, k, item, built, retry, faults>>
     \/ CallFails

\* Variant: isDefault is not echoed.
DefaultNotEchoed == FALSE

\* The POST repeats the isDefault that the GET returned.
EchoedDefault == existing # None /\ existing.default

SetPlan(p) == [plans EXCEPT ![offer.uid] = p]
Posted(p) ==
  /\ plans' = SetPlan(p)
  /\ unsure' = IF disturbed THEN unsure \cup {offer.uid} ELSE unsure \ {offer.uid}

\* Amberflo refuses a POST that would leave the account without a default plan.
Unsets(p) == plans[offer.uid] # None /\ plans[offer.uid].default /\ ~p.default

PostPlan ==
  LET plan == [title |-> offer.title, prices |-> built, default |-> EchoedDefault,
               deprecated |-> FALSE]
  IN
  /\ pc = "postPlan" /\ NoWrite /\ UNCHANGED <<items, prices, left, disturbed>>
  /\ \/ Unsets(plan) /\ Return(TRUE) /\ UNCHANGED <<plans, unsure, faults>>
     \/ ~Unsets(plan) /\ Posted(plan) /\ Return(FALSE) /\ UNCHANGED faults
     \/ /\ ~Unsets(plan) /\ SpendFault /\ Return(TRUE)
        /\ Posted(plan) \/ UNCHANGED <<plans, unsure>>

-----------------------------------------------------------------------------
(* reconcileDelete and DeleteProductPlan.                                  *)

\* After a permanent error the finalizer is released and the plan stays; any
\* other requeues.
LeavePlan == Goto("release") /\ left' = left \cup {offer.uid}
DeleteError == SpendFault /\ (LeavePlan \/ (Return(TRUE) /\ UNCHANGED left))

\* Variant: a plan that is not there is an error.
AfterMissingPlanRetry == Return(TRUE)

\* 404 at any step is success.
AfterMissingPlan == Goto("release")

DelGetPlan ==
  /\ pc = "delGet" /\ NoWrite /\ UNCHANGED <<items, prices, plans>>
  /\ \/ plans[offer.uid] = None /\ AfterMissingPlan /\ UNCHANGED <<left, faults>>
     \/ /\ plans[offer.uid] # None
        /\ pc' = IF plans[offer.uid].deprecated THEN "delete" ELSE "deprecate"
        /\ existing' = plans[offer.uid]
        /\ UNCHANGED <<offer, k, item, built, retry, left, faults>>
     \/ DeleteError

\* The plan that was read, deprecated, is posted back.
DeprecatePlan ==
  LET plan == [existing EXCEPT !.deprecated = TRUE] IN
  /\ pc = "deprecate" /\ NoWrite /\ UNCHANGED <<items, prices>>
  /\ \/ ~Unsets(plan) /\ plans' = SetPlan(plan) /\ Goto("delete") /\ UNCHANGED <<left, faults>>
     \/ Unsets(plan) /\ LeavePlan /\ UNCHANGED <<plans, faults>>
     \/ ~Unsets(plan) /\ plans' \in {plans, SetPlan(plan)} /\ DeleteError

DeletePlan ==
  /\ pc = "delete" /\ NoWrite /\ UNCHANGED <<items, prices>>
  /\ \/ plans' = SetPlan(None) /\ Goto("release") /\ UNCHANGED <<left, faults>>
     \/ plans' \in {plans, SetPlan(None)} /\ DeleteError

RemoveFinalizer ==
  /\ pc = "release"
  /\ \/ Current /\ Write(None) /\ Return(FALSE) /\ UNCHANGED <<amberflo, faults>>
     \/ ~Current /\ NoWrite /\ Return(TRUE) /\ UNCHANGED <<amberflo, faults>>
     \/ NoWrite /\ CallFails

-----------------------------------------------------------------------------

\* What a reconcile does once it has begun.
Work ==
  /\ \/ FindItem \/ PostPlan
     \/ /\ \/ AddFinalizer \/ UnlockItem \/ PointItem \/ PostItem \/ EnsurePrice \/ GetPlan
           \/ DelGetPlan \/ DeprecatePlan \/ DeletePlan \/ RemoveFinalizer
        /\ UNCHANGED history
  /\ UNCHANGED <<used, cached, queued, defined, adopting, userSteps>>

Next ==
  \/ CreateOffer \/ EditOffer \/ FillSnapshot \/ DeleteOffer
  \/ ChangeDefinition \/ FindOrphanItem \/ PostOrphanItem \/ ChangeDefault
  \/ Observe \/ Resync \/ RetryElapses \/ Reconcile \/ Restart
  \/ Work

\* The informer delivers, timers fire and the worker runs.
Fairness ==
  WF_vars(Observe) /\ WF_vars(RetryElapses) /\ WF_vars(Reconcile) /\ WF_vars(Work)

Spec == Init /\ [][Next]_vars
FairSpec == Spec /\ Fairness

-----------------------------------------------------------------------------

\* Every meter of the offer has a price in the plan that is stored; of two
\* pricings on one meter that is the later one.
Complete(u) ==
  \A p \in Pricings :
    (\A q \in Pricings : MeterOf[q] = MeterOf[p] => q <= p) =>
      prices[u][p] # None /\ \E e \in plans[u].prices : e[2] = p

\* A plan is never there in part: whatever failed on the way, it was posted with
\* a price for every meter of the offer (product_plan.go:284-398). What can take
\* one away is an item that is found for two of the meters, so that the second
\* price replaces the first in productItemPriceIdsMap (341): because it was
\* contested when the reconcile began, or because a definition went, an item was
\* moved or a check was refused since.
PlanComplete == \A u \in Uids \ unsure : plans[u] # None => Complete(u)

\* A plan always has its offer, held by the finalizer, unless Amberflo refused
\* its deletion for good (offer_controller.go:127-172).
NoOrphanPlan ==
  \A u \in Uids :
    plans[u] # None => (api # None /\ api.uid = u /\ api.finalizer) \/ u \in left

Published == api # None /\ api.stage = "ga" /\ ~api.deleting

\* The plan has the offer's title and a price for every meter, and its prices are
\* on the items that are on the meters of the pricings.
InSync ==
  LET plan == plans[api.uid] IN
  /\ plan # None /\ plan.title = api.title /\ ~plan.deprecated /\ Complete(api.uid)
  /\ \A e \in plan.prices :
       /\ prices[api.uid][e[2]] = e[1]
       /\ \E i \in items : i.id = e[1] /\ i.meter = MeterOf[e[2]]

\* What the definitions or Amberflo's state deny the offer: a meter without a
\* definition, more than one item to use for it, its name on a live meter, and
\* no sibling and no free name or id when the item that was found may be refused.
Obstructed ==
  \E p \in Pricings :
    LET m == MeterOf[p] IN
    \/ m \notin defined \/ LookupFails(p)
    \/ /\ \E i \in Candidate(p) : i.meter # m /\ i.status = "deprecated"
       /\ \/ Ambiguous(m)
          \/ /\ OnMeter(m) = {}
             /\ \E i \in items : i.id = m \/ i.name = <<LabelOf[p], m>>

\* Once users and faults rest and nothing obstructs it, a published offer has
\* its plan, also if the plan has become the default one or a definition came
\* late; failed calls and missing definitions are requeued (offer_controller.go:
\* 195-240). What others did to the items since its last reconcile, and a plan
\* posted in part, the next one puts right, at the latest after a resync.
Converges ==
  <>[]~(Published /\ Obstructed) =>
    /\ <>[](Published => InSync \/ disturbed)
    /\ WF_vars(Resync) => <>[](Published => InSync)

\* An offer that is being deleted goes away.
DeletionCompletes ==
  \A u \in Uids :
    (api # None /\ api.uid = u /\ api.deleting) ~> ~(api # None /\ api.uid = u)
=============================================================================
