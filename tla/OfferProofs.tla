----------------------------- MODULE OfferProofs -----------------------------
(***************************************************************************)
(* Proofs about OfferController, for any pricings, product items, faults   *)
(* and user steps: type correctness, that a plan always has its offer, and *)
(* that a plan is never there in part unless the reconcile that posted it  *)
(* was disturbed; and about PlanPricing, that the tiers of a rate whose    *)
(* bands end at whole units charge what the bands say.                     *)
(***************************************************************************)
EXTENDS OfferController, PlanPricing, TLAPS

\* Only the newest version of the offer carries the last resourceVersion given
\* out; a worker that holds it holds what the API server and the cache have.
VersionsInOrder ==
  /\ api # None => api.rv = version
  /\ cached # None => cached.rv <= version /\ (cached.rv = version => cached = api)
  /\ offer # None =>
       offer.rv <= version /\ (offer.rv = version => offer = api /\ cached = api)

\* An offer that was seen with the finalizer, and not as deleted, still has it.
Backed(v, a) ==
  v # None /\ v.finalizer /\ ~v.deleting => a # None /\ a.uid = v.uid /\ a.finalizer

BuildStates == {"findItem", "unlockItem", "pointItem", "postItem", "ensurePrice"}
EnsureStates == BuildStates \cup {"getPlan", "postPlan"}
DeleteStates == {"delGet", "deprecate", "delete", "release"}

\* The version each path of Reconcile works from, and where the path starts.
OnPath ==
  /\ pc \in EnsureStates => offer.finalizer /\ ~offer.deleting
  /\ pc \in DeleteStates => offer.deleting
  /\ pc = "idle" => k = 1 /\ built = {}

\* The finalizer is released once the plan is gone or Amberflo keeps it, and a
\* plan is posted back only while it is there.
PlanFirst ==
  /\ pc \in {"deprecate", "delete"} => plans[offer.uid] # None
  /\ pc = "release" => plans[offer.uid] = None \/ offer.uid \in left

\* Amberflo's part of the type invariant.
AmberfloOK ==
  /\ items \subseteq Item /\ \A i, j \in items : i.id = j.id => i = j
  /\ prices \in [Uids -> [Pricings -> ItemIds \cup {None}]]
  /\ plans \in [Uids -> Plan \cup {None}]
  /\ left \subseteq Uids

SafeInv ==
  /\ TypeOK /\ VersionsInOrder /\ Backed(cached, api) /\ Backed(offer, api)
  /\ OnPath /\ PlanFirst /\ NoOrphanPlan

\* And that of the history.
HistoryOK == unsure \subseteq Uids /\ disturbed \in BOOLEAN

\* The surroundings that no step of a reconcile touches.
environment == <<used, cached, queued, defined, adopting, userSteps>>

-----------------------------------------------------------------------------
(* Writes of the offer.                                                    *)

\* The API server changes nothing of a write but its version.
LEMMA WriteFields ==
  ASSUME TypeOK, NEW o \in Offer \cup {None}, Write(o)
  PROVE  /\ version' = version + 1 /\ version \in Nat
         /\ api' \in Offer \cup {None}
         /\ o = None => api' = None
         /\ o # None => /\ api' # None /\ api'.rv = version + 1 /\ api'.uid = o.uid
                        /\ o.finalizer => api'.finalizer
<1>1. version \in Nat /\ version' = version + 1
  BY DEF TypeOK, Write
<1>2. CASE o = None
  BY <1>1, <1>2 DEF Write
<1>3. CASE o # None
  <2>1. o \in Offer /\ api' = [o EXCEPT !.rv = version + 1]
    BY <1>3 DEF Write
  <2>2. api' \in Offer
    BY <1>1, <2>1 DEF Offer
  <2>3. api'.rv = version + 1 /\ api'.uid = o.uid
    BY <2>1 DEF Offer
  <2>4. o.finalizer => api'.finalizer
    BY <2>1 DEF Offer
  <2> QED
    BY <1>1, <1>3, <2>2, <2>3, <2>4, NoneIsNoRecord
<1> QED
  BY <1>2, <1>3

\* A write keeps the versions in order: none seen so far is the newest.
LEMMA WriteKeepsOrder ==
  ASSUME TypeOK, VersionsInOrder, NEW o \in Offer \cup {None}, Write(o),
         cached' = cached, offer' \in {offer, None}
  PROVE  VersionsInOrder'
<1>1. /\ version' = version + 1 /\ version \in Nat
      /\ api' # None => api'.rv = version + 1
  BY WriteFields
<1>2. cached' # None => cached'.rv <= version' /\ cached'.rv # version'
  BY <1>1 DEF VersionsInOrder, TypeOK, Offer
<1>3. offer' # None => offer'.rv <= version' /\ offer'.rv # version'
  BY <1>1 DEF VersionsInOrder, TypeOK, Offer
<1> QED
  BY <1>1, <1>2, <1>3 DEF VersionsInOrder

\* What the worker writes an update of is what everyone has.
LEMMA CurrentIsApi ==
  ASSUME TypeOK, VersionsInOrder, Current, offer # None
  PROVE  offer = api /\ cached = api
BY DEF Current, VersionsInOrder

-----------------------------------------------------------------------------
(* What the steps have in common.                                          *)

LEMMA FaultBound ==
  ASSUME TypeOK, SpendFault
  PROVE  faults' \in 0 .. MaxFaults
BY BoundsAssumption DEF TypeOK, SpendFault

LEMMA UserBound ==
  ASSUME TypeOK, SpendUserStep
  PROVE  userSteps' \in 0 .. MaxUserSteps
BY BoundsAssumption DEF TypeOK, SpendUserStep

\* Plans stay, and with them their offer.
LEMMA PlansKept ==
  ASSUME NoOrphanPlan, UNCHANGED <<api, plans, left>>
  PROVE  NoOrphanPlan'
BY DEF NoOrphanPlan

\* A user's write, that takes back no finalizer.
LEMMA UserWrite ==
  ASSUME SafeInv, NEW o \in Offer \cup {None}, Write(o),
         UNCHANGED <<cached, queued, retry, defined, adopting, worker, amberflo, history, faults>>,
         used' \subseteq Uids, userSteps' \in 0 .. MaxUserSteps,
         api # None /\ api.finalizer => o # None /\ o.finalizer /\ o.uid = api.uid
  PROVE  SafeInv'
<1>0. TypeOK /\ VersionsInOrder /\ Backed(cached, api) /\ Backed(offer, api)
      /\ OnPath /\ PlanFirst /\ NoOrphanPlan
  BY DEF SafeInv
<1>1. /\ pc' = pc /\ offer' = offer /\ k' = k /\ item' = item /\ built' = built
      /\ existing' = existing /\ items' = items /\ prices' = prices /\ plans' = plans
      /\ left' = left /\ cached' = cached /\ unsure' = unsure /\ disturbed' = disturbed
  BY DEF worker, amberflo, history
<1>2. api # None /\ api.finalizer => api' # None /\ api'.finalizer /\ api'.uid = api.uid
  BY <1>0, WriteFields
<1>3. TypeOK'
  BY <1>0, <1>1, WriteFields DEF TypeOK
<1>4. VersionsInOrder'
  BY <1>0, <1>1, WriteKeepsOrder
<1>5. Backed(cached', api') /\ Backed(offer', api')
  BY <1>0, <1>1, <1>2 DEF Backed
<1>6. OnPath' /\ PlanFirst'
  BY <1>0, <1>1 DEF OnPath, PlanFirst
<1>7. NoOrphanPlan'
  BY <1>0, <1>1, <1>2 DEF NoOrphanPlan
<1> QED
  BY <1>3, <1>4, <1>5, <1>6, <1>7 DEF SafeInv, Backed

\* A step of others that leaves the offer and the worker alone, and neither
\* makes nor removes a plan.
LEMMA OtherStep ==
  ASSUME SafeInv, UNCHANGED <<api, version, cached, worker, left>>, TypeOK',
         \A u \in Uids : plans'[u] = None <=> plans[u] = None
  PROVE  SafeInv'
<1>0. TypeOK /\ VersionsInOrder /\ Backed(cached, api) /\ Backed(offer, api)
      /\ OnPath /\ PlanFirst /\ NoOrphanPlan
  BY DEF SafeInv
<1>1. /\ pc' = pc /\ offer' = offer /\ k' = k /\ built' = built
      /\ api' = api /\ version' = version /\ cached' = cached /\ left' = left
  BY DEF worker
<1>2. VersionsInOrder' /\ OnPath' /\ NoOrphanPlan'
  BY <1>0, <1>1 DEF VersionsInOrder, OnPath, NoOrphanPlan
<1>3. PlanFirst'
  <2>1. pc # "idle" => offer.uid \in Uids
    BY <1>0 DEF TypeOK, Offer
  <2> QED
    BY <1>0, <1>1, <2>1 DEF PlanFirst
<1> QED
  BY <1>0, <1>1, <1>2, <1>3 DEF SafeInv, Backed

\* The worker returns with nothing written. What it did at Amberflo stays.
LEMMA ReturnStep ==
  ASSUME SafeInv, NEW again \in BOOLEAN, Return(again), NoWrite, UNCHANGED environment,
         faults' \in 0 .. MaxFaults, AmberfloOK', HistoryOK', NoOrphanPlan'
  PROVE  SafeInv'
<1>0. TypeOK /\ VersionsInOrder /\ Backed(cached, api)
  BY DEF SafeInv
<1>1. /\ pc' = "idle" /\ offer' = None /\ k' = 1 /\ item' = None /\ built' = {}
      /\ existing' = None /\ retry' = (retry \/ again)
  BY DEF Return, Reset
<1>2. /\ used' = used /\ cached' = cached /\ queued' = queued /\ defined' = defined
      /\ userSteps' = userSteps /\ api' = api /\ version' = version /\ adopting' = adopting
  BY DEF environment, NoWrite
<1>3. 1 \in Pricings
  BY PricingsAssumption DEF Pricings
<1>4. TypeOK'
  BY <1>0, <1>1, <1>2, <1>3 DEF TypeOK, WorkerStates, AmberfloOK, HistoryOK
<1>5. VersionsInOrder' /\ OnPath' /\ PlanFirst'
  BY <1>0, <1>1, <1>2
  DEF VersionsInOrder, OnPath, PlanFirst, EnsureStates, BuildStates, DeleteStates
<1> QED
  BY <1>0, <1>1, <1>2, <1>4, <1>5 DEF SafeInv, Backed

\* A call that fails and changes nothing.
LEMMA CallFailsStep ==
  ASSUME SafeInv, CallFails, NoWrite, UNCHANGED environment, HistoryOK'
  PROVE  SafeInv'
<1>1. TypeOK /\ NoOrphanPlan /\ UNCHANGED <<api, items, prices, plans, left>>
  BY DEF SafeInv, CallFails, NoWrite, amberflo
<1>2. AmberfloOK' /\ NoOrphanPlan'
  BY <1>1, PlansKept DEF AmberfloOK, TypeOK
<1> QED
  BY <1>1, <1>2, FaultBound, ReturnStep DEF CallFails

\* The worker goes on with the version it has.
LEMMA ProceedStep ==
  ASSUME SafeInv, NoWrite, UNCHANGED <<environment, offer, retry>>, offer \in Offer,
         pc' \in WorkerStates, k' \in Pricings, item' \in Item \cup {None},
         pc' \in {"unlockItem", "pointItem", "postItem", "ensurePrice"} => item' # None,
         built' \subseteq ItemIds \X Pricings, existing' \in Plan \cup {None},
         pc' = "deprecate" => existing' # None,
         faults' \in 0 .. MaxFaults, AmberfloOK', HistoryOK', NoOrphanPlan', OnPath',
         PlanFirst'
  PROVE  SafeInv'
<1>0. TypeOK /\ VersionsInOrder /\ Backed(cached, api) /\ Backed(offer, api)
  BY DEF SafeInv
<1>1. /\ used' = used /\ cached' = cached /\ queued' = queued /\ defined' = defined
      /\ userSteps' = userSteps /\ api' = api /\ version' = version /\ offer' = offer
      /\ retry' = retry /\ adopting' = adopting
  BY DEF environment, NoWrite
<1>2. TypeOK'
  BY <1>0, <1>1, NoneIsNoRecord DEF TypeOK, AmberfloOK, HistoryOK
<1>3. VersionsInOrder'
  BY <1>0, <1>1 DEF VersionsInOrder
<1> QED
  BY <1>0, <1>1, <1>2, <1>3 DEF SafeInv, Backed

\* It goes on building the plan, whatever it did to items and prices.
LEMMA BuildStep ==
  ASSUME SafeInv, NoWrite, UNCHANGED <<environment, offer, existing, retry, plans, left>>,
         pc \in EnsureStates, pc' \in BuildStates \cup {"getPlan"},
         k' \in Pricings, item' \in Item \cup {None},
         pc' \in {"unlockItem", "pointItem", "postItem", "ensurePrice"} => item' # None,
         built' \subseteq ItemIds \X Pricings, faults' \in 0 .. MaxFaults, AmberfloOK', HistoryOK'
  PROVE  SafeInv'
<1>0. TypeOK /\ OnPath /\ NoOrphanPlan
  BY DEF SafeInv
<1>1. offer \in Offer /\ offer' = offer /\ existing' \in Plan \cup {None}
  BY <1>0 DEF TypeOK, EnsureStates, BuildStates
<1>2. pc' \in WorkerStates /\ pc' # "deprecate"
  BY DEF WorkerStates, BuildStates
<1>3. OnPath' /\ PlanFirst'
  BY <1>0, <1>1 DEF OnPath, PlanFirst, EnsureStates, BuildStates, DeleteStates
<1>4. NoOrphanPlan'
  BY <1>0, PlansKept DEF NoWrite
<1> QED
  BY <1>1, <1>2, <1>3, <1>4, ProceedStep

-----------------------------------------------------------------------------
(* The API server, its users, and whoever else works on Amberflo.          *)

LEMMA InitSafe == Init => SafeInv
<1> SUFFICES ASSUME Init PROVE SafeInv
  OBVIOUS
<1>1. 1 \in Pricings
  BY PricingsAssumption DEF Pricings
<1>2. faults \in 0 .. MaxFaults /\ userSteps \in 0 .. MaxUserSteps /\ version \in Nat
  BY BoundsAssumption DEF Init
<1>3. items \subseteq Item /\ \A i, j \in items : i.id = j.id => i = j
  BY LeftoversAssumption DEF Init
<1>4. TypeOK
  BY <1>1, <1>2, <1>3 DEF Init, TypeOK, WorkerStates
<1>5. VersionsInOrder /\ Backed(cached, api) /\ Backed(offer, api)
  BY DEF Init, VersionsInOrder, Backed
<1>6. OnPath /\ PlanFirst /\ NoOrphanPlan
  BY DEF Init, OnPath, PlanFirst, NoOrphanPlan, EnsureStates, BuildStates, DeleteStates
<1> QED
  BY <1>4, <1>5, <1>6 DEF SafeInv

LEMMA CreateOfferSafe == SafeInv /\ CreateOffer => SafeInv'
<1> SUFFICES ASSUME SafeInv, CreateOffer PROVE SafeInv'
  OBVIOUS
<1> DEFINE fresh == CHOOSE u \in Uids \ used : TRUE
           title == CHOOSE t \in Titles : TRUE
<1>1. fresh \in Uids /\ title \in Titles /\ used \subseteq Uids
  BY PricingsAssumption DEF CreateOffer, SafeInv, TypeOK
<1>2. PICK s \in {"draft", "ga"} :
        Write([rv |-> 0, uid |-> fresh, stage |-> s, title |-> title,
               finalizer |-> FALSE, deleting |-> FALSE])
  BY DEF CreateOffer
<1>3. used' = used \cup {fresh}
  BY DEF CreateOffer
<1> HIDE DEF fresh, title
<1>4. [rv |-> 0, uid |-> fresh, stage |-> s, title |-> title,
       finalizer |-> FALSE, deleting |-> FALSE] \in Offer
  BY <1>1 DEF Offer
<1>5. userSteps' \in 0 .. MaxUserSteps /\ api = None
  BY UserBound DEF CreateOffer, SafeInv
<1>6. UNCHANGED <<cached, queued, retry, defined, adopting, worker, amberflo, history, faults>>
  BY DEF CreateOffer
<1> QED
  BY <1>1, <1>2, <1>3, <1>4, <1>5, <1>6, UserWrite

\* What users do to an offer that is there.
LEMMA ChangeOfferSafe ==
  ASSUME SafeInv, EditOffer \/ FillSnapshot \/ DeleteOffer
  PROVE  SafeInv'
<1>1. api \in Offer /\ api # None /\ used \subseteq Uids /\ TypeOK
  BY DEF SafeInv, TypeOK, EditOffer, FillSnapshot, DeleteOffer
<1>2. userSteps' \in 0 .. MaxUserSteps
  BY <1>1, UserBound DEF EditOffer, FillSnapshot, DeleteOffer, TypeOK
<1>3. UNCHANGED <<used, cached, queued, retry, defined, adopting, worker, amberflo, history,
                  faults>>
  BY DEF EditOffer, FillSnapshot, DeleteOffer
<1>4. ASSUME NEW o \in Offer \cup {None}, Write(o),
             api.finalizer => o # None /\ o.finalizer /\ o.uid = api.uid
      PROVE  SafeInv'
  BY <1>1, <1>2, <1>3, <1>4, UserWrite
<1>5. ASSUME NEW s \in {"empty", "ga"}, Write([api EXCEPT !.stage = s])
      PROVE  SafeInv'
  <2> DEFINE o == [api EXCEPT !.stage = s]
  <2>1. o \in Offer /\ o.uid = api.uid
    BY <1>1 DEF Offer
  <2>2. api.finalizer => o.finalizer
    BY <1>1 DEF Offer
  <2>3. o # None /\ Write(o)
    BY <1>5, <2>1, NoneIsNoRecord
  <2> HIDE DEF o
  <2> QED
    BY <1>4, <2>1, <2>2, <2>3
<1>6. ASSUME NEW t \in Titles, Write([api EXCEPT !.title = t])
      PROVE  SafeInv'
  <2> DEFINE o == [api EXCEPT !.title = t]
  <2>1. o \in Offer /\ o.uid = api.uid
    BY <1>1 DEF Offer
  <2>2. api.finalizer => o.finalizer
    BY <1>1 DEF Offer
  <2>3. o # None /\ Write(o)
    BY <1>6, <2>1, NoneIsNoRecord
  <2> HIDE DEF o
  <2> QED
    BY <1>4, <2>1, <2>2, <2>3
<1>7. CASE DeleteOffer
  <2>1. CASE api.finalizer
    <3> DEFINE o == [api EXCEPT !.deleting = TRUE]
    <3>1. o \in Offer /\ o.uid = api.uid
      BY <1>1 DEF Offer
    <3>2. api.finalizer => o.finalizer
      BY <1>1 DEF Offer
    <3>3. o # None /\ Write(o)
      BY <1>7, <2>1, <3>1, NoneIsNoRecord DEF DeleteOffer
    <3> HIDE DEF o
    <3> QED
      BY <1>4, <3>1, <3>2, <3>3
  <2>2. CASE ~api.finalizer
    BY <1>4, <1>7, <2>2 DEF DeleteOffer
  <2> QED
    BY <2>1, <2>2
<1> QED
  BY <1>5, <1>6, <1>7 DEF EditOffer, FillSnapshot

\* A plan that becomes the default, or no longer is, keeps all else.
LEMMA ChangeDefaultFacts ==
  ASSUME TypeOK, ChangeDefault
  PROVE  /\ plans' \in [Uids -> Plan \cup {None}]
         /\ \A u \in Uids : plans'[u] = None <=> plans[u] = None
         /\ \A u \in Uids : plans[u] # None => plans'[u].prices = plans[u].prices
<1>1. PICK u \in Uids : plans[u] # None /\ plans' = [plans EXCEPT ![u].default = ~@]
  BY DEF ChangeDefault
<1> DEFINE p == [plans[u] EXCEPT !.default = ~@]
<1>2. plans \in [Uids -> Plan \cup {None}] /\ plans[u] \in Plan
  BY <1>1 DEF TypeOK
<1>3. p \in Plan
  BY <1>2 DEF Plan
<1>4. p.prices = plans[u].prices
  BY <1>2 DEF Plan
<1>5. p # None
  BY <1>3, NoneIsNoRecord
<1>6. plans' = [plans EXCEPT ![u] = p]
  BY <1>1, <1>2
<1> HIDE DEF p
<1> QED
  BY <1>1, <1>2, <1>3, <1>4, <1>5, <1>6

\* What the MeterDefinition reconciler posts is an item; there is one of its id.
LEMMA PostOrphanItemFacts ==
  ASSUME TypeOK, PostOrphanItem
  PROVE  /\ items' \subseteq Item /\ \A i, j \in items' : i.id = j.id => i = j
         /\ adopting' \in Adoption \cup {None}
         /\ UNCHANGED <<items, disturbed>> \/ disturbed' = TRUE
<1>1. adopting \in Adoption /\ adopting.item \in Item /\ adopting.meter \in Meters
  BY DEF TypeOK, PostOrphanItem, Adoption
<1> DEFINE unlocked == [adopting.item EXCEPT !.status = "open"]
           pointed == [adopting.item EXCEPT !.meter = adopting.meter]
           kept == [adopting EXCEPT !.item = unlocked]
<1>2. unlocked \in Item /\ pointed \in Item
  BY <1>1 DEF Item
<1>3. kept \in Adoption
  BY <1>1, <1>2 DEF Adoption
<1>4. \/ items' = SetItem(unlocked) /\ adopting' = kept /\ disturbed' = TRUE
      \/ items' = SetItem(pointed) /\ adopting' = None /\ disturbed' = TRUE
      \/ adopting' = None /\ UNCHANGED <<items, disturbed>>
  BY DEF PostOrphanItem
<1> HIDE DEF unlocked, pointed, kept
<1> QED
  BY <1>2, <1>3, <1>4 DEF TypeOK, SetItem

\* Steps of meters, operators, timers and the work queue.
LEMMA SurroundingsSafe ==
  ASSUME SafeInv,
         \/ ChangeDefinition \/ FindOrphanItem \/ PostOrphanItem \/ ChangeDefault
         \/ Resync \/ RetryElapses
  PROVE  SafeInv'
<1>0. TypeOK
  BY DEF SafeInv
<1>1. CASE ChangeDefinition
  <2>1. userSteps' \in 0 .. MaxUserSteps /\ defined' \subseteq Meters
    BY <1>0, <1>1, UserBound DEF ChangeDefinition, TypeOK
  <2>2. /\ UNCHANGED <<api, version, used, cached, queued, retry, adopting, worker, amberflo,
                       unsure, faults>>
        /\ disturbed' \in BOOLEAN
    BY <1>1 DEF ChangeDefinition
  <2>3. TypeOK'
    BY <1>0, <2>1, <2>2 DEF TypeOK, worker, amberflo
  <2> QED
    BY <2>2, <2>3, OtherStep DEF amberflo
<1>2. CASE FindOrphanItem
  <2>1. userSteps' \in 0 .. MaxUserSteps
    BY <1>0, <1>2, UserBound DEF FindOrphanItem
  <2>2. UNCHANGED <<api, version, used, cached, queued, retry, defined, worker, amberflo, history>>
    BY <1>2 DEF FindOrphanItem
  <2>3. PICK i \in items, m \in defined :
          adopting' = [item |-> i, meter |-> m] /\ (SpendFault \/ UNCHANGED faults)
    BY <1>2 DEF FindOrphanItem
  <2>4. adopting' \in Adoption /\ faults' \in 0 .. MaxFaults
    BY <1>0, <2>3, FaultBound DEF TypeOK, Adoption
  <2>5. TypeOK'
    BY <1>0, <2>1, <2>2, <2>4 DEF TypeOK, worker, amberflo, history
  <2> QED
    BY <2>2, <2>5, OtherStep DEF amberflo
<1>3. CASE PostOrphanItem
  <2>1. UNCHANGED <<api, version, used, cached, queued, retry, defined, worker, prices,
                    plans, left, unsure, faults, userSteps>>
    BY <1>3 DEF PostOrphanItem
  <2>2. TypeOK'
    BY <1>0, <1>3, <2>1, PostOrphanItemFacts DEF TypeOK, worker
  <2> QED
    BY <2>1, <2>2, OtherStep
<1>4. CASE ChangeDefault
  <2>1. userSteps' \in 0 .. MaxUserSteps
    BY <1>0, <1>4, UserBound DEF ChangeDefault
  <2>2. UNCHANGED <<api, version, used, cached, queued, retry, defined, adopting, worker, items,
                    prices, left, history, faults>>
    BY <1>4 DEF ChangeDefault
  <2>3. TypeOK'
    BY <1>0, <1>4, <2>1, <2>2, ChangeDefaultFacts DEF TypeOK, worker, history
  <2> QED
    BY <1>0, <1>4, <2>2, <2>3, ChangeDefaultFacts, OtherStep
<1>5. CASE Resync \/ RetryElapses
  <2>1. TypeOK'
    BY <1>0, <1>5 DEF Resync, RetryElapses, TypeOK, worker, amberflo, history
  <2> QED
    BY <1>5, <2>1, OtherStep DEF Resync, RetryElapses, amberflo
<1> QED
  BY <1>1, <1>2, <1>3, <1>4, <1>5

LEMMA ObserveSafe == SafeInv /\ Observe => SafeInv'
<1> SUFFICES ASSUME SafeInv, Observe PROVE SafeInv'
  OBVIOUS
<1>0. TypeOK /\ VersionsInOrder /\ Backed(offer, api) /\ OnPath /\ PlanFirst /\ NoOrphanPlan
  BY DEF SafeInv
<1>1. /\ cached' = api /\ queued' = TRUE
      /\ UNCHANGED <<api, version, used, retry, defined, adopting, pc, offer, k, item, built,
                     existing, items, prices, plans, left, disturbed, unsure, faults, userSteps>>
  BY DEF Observe, worker, amberflo, history
<1>2. TypeOK'
  BY <1>0, <1>1 DEF TypeOK
<1>3. VersionsInOrder'
  BY <1>0, <1>1 DEF VersionsInOrder, TypeOK
<1>4. OnPath' /\ PlanFirst' /\ NoOrphanPlan'
  BY <1>0, <1>1 DEF OnPath, PlanFirst, NoOrphanPlan
<1> QED
  BY <1>0, <1>1, <1>2, <1>3, <1>4 DEF SafeInv, Backed

LEMMA RestartSafe == SafeInv /\ Restart => SafeInv'
<1> SUFFICES ASSUME SafeInv, Restart PROVE SafeInv'
  OBVIOUS
<1>0. TypeOK /\ VersionsInOrder /\ NoOrphanPlan
  BY DEF SafeInv
<1>1. /\ pc' = "idle" /\ offer' = None /\ k' = 1 /\ item' = None /\ built' = {}
      /\ existing' = None /\ cached' = api /\ queued' = (api # None) /\ retry' = FALSE
      /\ adopting' = None
      /\ UNCHANGED <<api, version, used, defined, items, prices, plans, left, disturbed, unsure,
                     userSteps>>
  BY DEF Restart, Reset, amberflo, history
<1>2. faults' \in 0 .. MaxFaults
  BY <1>0, FaultBound DEF Restart
<1>3. 1 \in Pricings
  BY PricingsAssumption DEF Pricings
<1>4. TypeOK'
  BY <1>0, <1>1, <1>2, <1>3 DEF TypeOK, WorkerStates
<1>5. VersionsInOrder'
  BY <1>0, <1>1 DEF VersionsInOrder, TypeOK
<1>6. OnPath' /\ PlanFirst' /\ NoOrphanPlan'
  BY <1>0, <1>1 DEF OnPath, PlanFirst, NoOrphanPlan, EnsureStates, BuildStates, DeleteStates
<1> QED
  BY <1>1, <1>4, <1>5, <1>6 DEF SafeInv, Backed

-----------------------------------------------------------------------------
(* The worker.                                                             *)

LEMMA ReconcileSafe ==
  ASSUME SafeInv, Reconcile, HistoryOK'
  PROVE  SafeInv'
<1>0. TypeOK /\ VersionsInOrder /\ Backed(cached, api) /\ OnPath /\ NoOrphanPlan
  BY DEF SafeInv
<1>1. /\ queued' = FALSE /\ pc = "idle"
      /\ UNCHANGED <<api, version, used, cached, defined, adopting, items, prices, plans, left,
                     faults, userSteps>>
  BY DEF Reconcile, amberflo
<1>2. 1 \in Pricings
  BY PricingsAssumption DEF Pricings
<1>3. CASE ReconcilePath(cached) \in {"idle", "requeue"}
  <2>1. /\ pc' = "idle" /\ offer' = None /\ k' = 1 /\ item' = None /\ built' = {}
        /\ existing' = None /\ retry' \in BOOLEAN
    BY <1>0, <1>3 DEF Reconcile, Return, Reset, TypeOK
  <2>2. TypeOK'
    BY <1>0, <1>1, <1>2, <2>1 DEF TypeOK, WorkerStates, HistoryOK
  <2>3. VersionsInOrder' /\ OnPath' /\ PlanFirst' /\ NoOrphanPlan'
    BY <1>0, <1>1, <2>1
    DEF VersionsInOrder, OnPath, PlanFirst, NoOrphanPlan, EnsureStates, BuildStates, DeleteStates
  <2> QED
    BY <1>0, <1>1, <2>1, <2>2, <2>3 DEF SafeInv, Backed
<1>4. CASE ReconcilePath(cached) \notin {"idle", "requeue"}
  <2>1. /\ pc' = ReconcilePath(cached) /\ offer' = cached
        /\ UNCHANGED <<k, item, built, existing, retry>>
    BY <1>4 DEF Reconcile
  <2>2. /\ cached # None /\ pc' \in {"delGet", "addFinalizer", "findItem"}
        /\ pc' = "delGet" => cached.deleting
        /\ pc' = "findItem" => cached.finalizer /\ ~cached.deleting
    BY <1>4, <2>1 DEF ReconcilePath
  <2>3. TypeOK'
    BY <1>0, <1>1, <2>1, <2>2 DEF TypeOK, WorkerStates, HistoryOK
  <2>4. VersionsInOrder'
    BY <1>0, <1>1, <2>1 DEF VersionsInOrder
  <2>5. OnPath' /\ PlanFirst' /\ NoOrphanPlan'
    BY <1>0, <1>1, <2>1, <2>2
    DEF OnPath, PlanFirst, NoOrphanPlan, EnsureStates, BuildStates, DeleteStates
  <2> QED
    BY <1>0, <1>1, <2>1, <2>3, <2>4, <2>5 DEF SafeInv, Backed
<1> QED
  BY <1>3, <1>4

\* An update of the offer that the worker has read: it writes what takes no
\* finalizer back from anyone who counts on it, or there is a conflict.
LEMMA UpdateStep ==
  ASSUME SafeInv, offer # None, NEW o \in Offer \cup {None}, UNCHANGED environment, HistoryOK',
         \/ Current /\ Write(o) /\ Return(FALSE) /\ UNCHANGED <<amberflo, faults>>
         \/ ~Current /\ NoWrite /\ Return(TRUE) /\ UNCHANGED <<amberflo, faults>>
         \/ NoWrite /\ CallFails,
         offer.finalizer /\ ~offer.deleting => o # None /\ o.finalizer /\ o.uid = offer.uid,
         \A u \in Uids : plans[u] # None =>
           u \in left \/ (o # None /\ o.uid = u /\ o.finalizer) \/ offer # api
  PROVE  SafeInv'
<1>0. TypeOK /\ VersionsInOrder /\ Backed(cached, api) /\ NoOrphanPlan
  BY DEF SafeInv
<1>1. CASE Current /\ Write(o) /\ Return(FALSE) /\ UNCHANGED <<amberflo, faults>>
  <2>1. offer = api /\ cached = api
    BY <1>0, <1>1, CurrentIsApi
  <2>2. /\ pc' = "idle" /\ offer' = None /\ k' = 1 /\ item' = None /\ built' = {}
        /\ existing' = None /\ retry' = retry
        /\ UNCHANGED <<used, cached, queued, defined, adopting, userSteps, items, prices, plans,
                       left, faults>>
    BY <1>0, <1>1 DEF Return, Reset, amberflo, environment, TypeOK
  <2>3. 1 \in Pricings
    BY PricingsAssumption DEF Pricings
  <2>4. TypeOK'
    BY <1>0, <1>1, <2>2, <2>3, WriteFields DEF TypeOK, WorkerStates, HistoryOK
  <2>5. VersionsInOrder'
    BY <1>0, <1>1, <2>2, WriteKeepsOrder
  <2>6. Backed(cached', api') /\ Backed(offer', api')
    BY <1>0, <1>1, <2>1, <2>2, WriteFields DEF Backed
  <2>7. OnPath' /\ PlanFirst'
    BY <2>2 DEF OnPath, PlanFirst, EnsureStates, BuildStates, DeleteStates
  <2>8. NoOrphanPlan'
    BY <1>0, <1>1, <2>1, <2>2, WriteFields DEF NoOrphanPlan
  <2> QED
    BY <2>4, <2>5, <2>6, <2>7, <2>8 DEF SafeInv, Backed
<1>2. CASE ~Current /\ NoWrite /\ Return(TRUE) /\ UNCHANGED <<amberflo, faults>>
  <2>1. AmberfloOK' /\ faults' \in 0 .. MaxFaults
    BY <1>0, <1>2 DEF AmberfloOK, TypeOK, amberflo
  <2>2. NoOrphanPlan'
    BY <1>0, <1>2, PlansKept DEF NoWrite, amberflo
  <2> QED
    BY <1>2, <2>1, <2>2, ReturnStep
<1>3. CASE NoWrite /\ CallFails
  BY <1>3, CallFailsStep
<1> QED
  BY <1>1, <1>2, <1>3

LEMMA AddFinalizerSafe ==
  ASSUME SafeInv, AddFinalizer, UNCHANGED environment, HistoryOK'
  PROVE  SafeInv'
<1>1. offer \in Offer /\ offer # None /\ NoOrphanPlan
  BY DEF SafeInv, TypeOK, AddFinalizer
<1> DEFINE o == [offer EXCEPT !.finalizer = TRUE]
<1>2. o \in Offer /\ o.uid = offer.uid
  BY <1>1 DEF Offer
<1>3. o.finalizer
  BY <1>1 DEF Offer
<1>4. o # None
  BY <1>2, NoneIsNoRecord
<1>5. \A u \in Uids : plans[u] # None =>
        u \in left \/ (o # None /\ o.uid = u /\ o.finalizer) \/ offer # api
  BY <1>1, <1>2, <1>3, <1>4 DEF NoOrphanPlan
<1>6. \/ Current /\ Write(o) /\ Return(FALSE) /\ UNCHANGED <<amberflo, faults>>
      \/ ~Current /\ NoWrite /\ Return(TRUE) /\ UNCHANGED <<amberflo, faults>>
      \/ NoWrite /\ CallFails
  BY DEF AddFinalizer
<1> HIDE DEF o
<1> QED
  BY <1>1, <1>2, <1>3, <1>4, <1>5, <1>6, UpdateStep

LEMMA RemoveFinalizerSafe ==
  ASSUME SafeInv, RemoveFinalizer, UNCHANGED environment, HistoryOK'
  PROVE  SafeInv'
<1>1. offer # None /\ NoOrphanPlan /\ PlanFirst /\ pc = "release"
  BY DEF SafeInv, TypeOK, RemoveFinalizer
<1>2. offer.deleting
  BY <1>1 DEF SafeInv, OnPath, DeleteStates
<1>3. \A u \in Uids : plans[u] # None => u \in left \/ offer # api
  BY <1>1 DEF NoOrphanPlan, PlanFirst
<1>4. \/ Current /\ Write(None) /\ Return(FALSE) /\ UNCHANGED <<amberflo, faults>>
      \/ ~Current /\ NoWrite /\ Return(TRUE) /\ UNCHANGED <<amberflo, faults>>
      \/ NoWrite /\ CallFails
  BY DEF RemoveFinalizer
<1> QED
  BY <1>1, <1>2, <1>3, <1>4, UpdateStep

-----------------------------------------------------------------------------
(* ensureProductItem.                                                      *)

ItemsOK(s) == s \subseteq Item /\ \A i, j \in s : i.id = j.id => i = j

\* One item replaced or added.
LEMMA SetItemOK ==
  ASSUME TypeOK, NEW i \in Item
  PROVE  ItemsOK(SetItem(i))
BY DEF TypeOK, ItemsOK, SetItem

\* A new item, for the pricing at k, has a proper name.
LEMMA NewItemType ==
  ASSUME TypeOK
  PROVE  /\ meter \in Meters
         /\ NewItem(wantedName) \in Item /\ NewItem(disambiguatedName) \in Item
<1>1. k \in Pricings /\ meter \in Meters /\ LabelOf[k] \in Labels
  BY PricingsAssumption DEF TypeOK, Pricings, meter
<1>2. wantedName \in ItemName /\ disambiguatedName \in ItemName
  BY <1>1 DEF wantedName, disambiguatedName, ItemName
<1> QED
  BY <1>1, <1>2 DEF NewItem, Item, ItemIds

LEMMA ItemsReturn ==
  ASSUME SafeInv, NEW again \in BOOLEAN, Return(again), NoWrite, UNCHANGED environment,
         faults' \in 0 .. MaxFaults, ItemsOK(items'), OnlyItems,
         HistoryOK'
  PROVE  SafeInv'
<1>1. TypeOK /\ NoOrphanPlan /\ UNCHANGED <<api, prices, plans, left>>
  BY DEF SafeInv, NoWrite, OnlyItems
<1>2. AmberfloOK' /\ NoOrphanPlan'
  BY <1>1, PlansKept DEF AmberfloOK, TypeOK, ItemsOK
<1> QED
  BY <1>1, <1>2, ReturnStep

LEMMA ItemsGoto ==
  ASSUME SafeInv, NEW l \in BuildStates, NEW i \in Item, GotoWith(l, i), pc \in BuildStates,
         NoWrite, UNCHANGED environment, faults' \in 0 .. MaxFaults, ItemsOK(items'), OnlyItems,
         HistoryOK'
  PROVE  SafeInv'
<1>1. /\ TypeOK /\ pc' = l /\ item' = i
      /\ UNCHANGED <<offer, k, built, existing, retry, prices, plans, left>>
  BY DEF SafeInv, GotoWith, OnlyItems
<1>2. AmberfloOK' /\ k' \in Pricings /\ built' \subseteq ItemIds \X Pricings
  BY <1>1 DEF AmberfloOK, TypeOK, ItemsOK
<1>3. i # None /\ pc \in EnsureStates
  BY NoneIsNoRecord DEF EnsureStates
<1> QED
  BY <1>1, <1>2, <1>3, BuildStep

\* What follows when Amberflo refuses an item for good.
LEMMA RefusalCases ==
  ASSUME AfterRefusal
  PROVE  /\ UNCHANGED amberflo
         /\ \/ Return(TRUE)
            \/ \E i \in items : i.meter = meter /\ GotoWith("ensurePrice", i)
            \/ GotoWith("postItem", NewItem(disambiguatedName))
BY DEF AfterRefusal, UseSibling, ItemError, productItemForMeter, OnMeter, OpenOn

LEMMA AfterRefusalSafe ==
  ASSUME SafeInv, AfterRefusal, pc \in BuildStates, NoWrite, UNCHANGED environment,
         faults' \in 0 .. MaxFaults, HistoryOK'
  PROVE  SafeInv'
<1>1. TypeOK /\ items \subseteq Item
  BY DEF SafeInv, TypeOK
<1>2. ItemsOK(items') /\ OnlyItems
  BY <1>1, RefusalCases DEF amberflo, ItemsOK, OnlyItems, TypeOK
<1>3. CASE Return(TRUE)
  BY <1>2, <1>3, ItemsReturn
<1>4. ASSUME NEW i \in items, GotoWith("ensurePrice", i)
      PROVE  SafeInv'
  BY <1>1, <1>2, <1>4, ItemsGoto DEF BuildStates
<1>5. CASE GotoWith("postItem", NewItem(disambiguatedName))
  BY <1>1, <1>2, <1>5, NewItemType, ItemsGoto DEF BuildStates
<1> QED
  BY <1>3, <1>4, <1>5, RefusalCases

\* The steps of FindItem: what it finds answers to the pricing.
LEMMA FindItemCases ==
  ASSUME FindItem
  PROVE  /\ NoWrite /\ pc = "findItem" /\ UNCHANGED amberflo
         /\ faults' = faults \/ SpendFault
         /\ \/ Return(TRUE)
            \/ GotoWith("postItem", NewItem(wantedName))
            \/ \E i \in items :
                 /\ i.id = meter \/ i.meter = meter \/ i.name = wantedName
                 /\ UseItem(i)
<1>1. Candidate(k) \subseteq
        {i \in items : i.id = meter \/ i.meter = meter \/ i.name = wantedName}
  BY DEF Candidate, productItemForMeter, productItemNamed, OnMeter, OpenOn, meter, wantedName
<1> QED
  BY <1>1 DEF FindItem, CallFails, ItemError

\* UseItem names the item, and where to go with it.
LEMMA UseItemStep ==
  ASSUME NEW i, UseItem(i)
  PROVE  /\ i.meter = meter => GotoWith("ensurePrice", i)
         /\ i.meter # meter => \/ GotoWith("unlockItem", i)
                               \/ GotoWith("pointItem", i)
BY DEF UseItem

LEMMA FindItemSafe ==
  ASSUME SafeInv, FindItem, UNCHANGED environment, HistoryOK'
  PROVE  SafeInv'
<1>1. TypeOK /\ items \subseteq Item /\ pc \in BuildStates /\ NoWrite
  BY FindItemCases DEF SafeInv, TypeOK, BuildStates
<1>2. ItemsOK(items') /\ OnlyItems
  BY <1>1, FindItemCases DEF amberflo, ItemsOK, OnlyItems, TypeOK
<1>3. faults' \in 0 .. MaxFaults
  BY <1>1, FindItemCases, FaultBound DEF TypeOK
<1>4. CASE Return(TRUE)
  BY <1>1, <1>2, <1>3, <1>4, ItemsReturn
<1>5. CASE GotoWith("postItem", NewItem(wantedName))
  BY <1>1, <1>2, <1>3, <1>5, NewItemType, ItemsGoto DEF BuildStates
<1>6. ASSUME NEW i \in items, UseItem(i)
      PROVE  SafeInv'
  <2>1. \E l \in BuildStates : GotoWith(l, i)
    BY <1>6, UseItemStep DEF BuildStates
  <2> QED
    BY <1>1, <1>2, <1>3, <2>1, ItemsGoto
<1> QED
  BY <1>4, <1>5, <1>6, FindItemCases

\* UnlockItem and PointItem send the worker's copy of the item, with a change
\* that keeps id and name; it takes effect, is refused or may be lost.
LEMMA SendCases ==
  ASSUME TypeOK, UnlockItem \/ PointItem
  PROVE  /\ pc \in {"unlockItem", "pointItem"} /\ NoWrite /\ item \in Item
         /\ faults' = faults \/ SpendFault
         /\ \/ AfterRefusal
            \/ \E i \in Item :
                 /\ i.id = item.id /\ i.name = item.name /\ i.meter \in {item.meter, meter}
                 /\ OnlyItems
                 /\ \/ /\ items' = SetItem(i)
                       /\ \/ i.meter = item.meter /\ GotoWith("pointItem", i)
                          \/ i.meter = meter /\ GotoWith("ensurePrice", i)
                    \/ items' \in {items, SetItem(i)} /\ Return(TRUE)
<1>1. pc \in {"unlockItem", "pointItem"} /\ NoWrite /\ item \in Item /\ meter \in Meters
  BY NewItemType DEF UnlockItem, PointItem, TypeOK
<1>2. CASE UnlockItem
  <2> DEFINE i == [item EXCEPT !.status = "open"]
  <2>1. i \in Item /\ i.id = item.id /\ i.name = item.name /\ i.meter = item.meter
    BY <1>1 DEF Item
  <2>2. \/ /\ items' = SetItem(i) /\ OnlyItems
           /\ GotoWith("pointItem", i) /\ UNCHANGED faults
        \/ AfterRefusal /\ UNCHANGED faults
        \/ SpendFault /\ Return(TRUE) /\ items' \in {items, SetItem(i)} /\ OnlyItems
    BY <1>2 DEF UnlockItem
  <2> HIDE DEF i
  <2> QED
    BY <1>1, <2>1, <2>2
<1>3. CASE PointItem
  <2> DEFINE i == [item EXCEPT !.meter = meter]
  <2>1. i \in Item /\ i.id = item.id /\ i.name = item.name /\ i.meter = meter
    BY <1>1 DEF Item
  <2>2. \/ /\ items' = SetItem(i) /\ OnlyItems
           /\ GotoWith("ensurePrice", i) /\ UNCHANGED faults
        \/ AfterRefusal /\ SpendFault
        \/ SpendFault /\ Return(TRUE) /\ items' \in {items, SetItem(i)} /\ OnlyItems
    BY <1>3 DEF PointItem
  <2> HIDE DEF i
  <2> QED
    BY <1>1, <2>1, <2>2
<1> QED
  BY <1>2, <1>3

LEMMA SendItemSafe ==
  ASSUME SafeInv, UnlockItem \/ PointItem, UNCHANGED environment, HistoryOK'
  PROVE  SafeInv'
<1>1. TypeOK /\ ItemsOK(items)
  BY DEF SafeInv, TypeOK, ItemsOK
<1>2. pc \in BuildStates /\ NoWrite /\ faults' \in 0 .. MaxFaults
  BY <1>1, SendCases, FaultBound DEF BuildStates, TypeOK
<1>3. CASE AfterRefusal
  BY <1>2, <1>3, AfterRefusalSafe
<1>4. ASSUME NEW i \in Item, OnlyItems, items' \in {items, SetItem(i)},
             GotoWith("pointItem", i) \/ GotoWith("ensurePrice", i) \/ Return(TRUE)
      PROVE  SafeInv'
  <2>1. ItemsOK(items')
    BY <1>1, <1>4, SetItemOK
  <2>2. CASE Return(TRUE)
    BY <1>2, <1>4, <2>1, <2>2, ItemsReturn
  <2>3. CASE GotoWith("pointItem", i) \/ GotoWith("ensurePrice", i)
    BY <1>2, <1>4, <2>1, <2>3, ItemsGoto DEF BuildStates
  <2> QED
    BY <1>4, <2>2, <2>3
<1> QED
  BY <1>1, <1>3, <1>4, SendCases

\* PostItem creates an item on the meter, uses one that is on it, or gives up.
LEMMA PostItemCases ==
  ASSUME TypeOK, PostItem
  PROVE  /\ pc = "postItem" /\ NoWrite /\ OnlyItems /\ item \in Item
         /\ faults' = faults \/ SpendFault
         /\ \/ items' = items /\ Return(TRUE)
            \/ items' = items /\ \E i \in items : i.meter = meter /\ GotoWith("ensurePrice", i)
            \/ \E i \in Item :
                 /\ i.id \in {meter} \cup Assigned /\ \A j \in items : j.id # i.id
                 /\ i.name = item.name /\ i.meter = item.meter
                 /\ \/ items' = items \cup {i} /\ GotoWith("ensurePrice", i)
                    \/ items' \in {items, items \cup {i}} /\ Return(TRUE)
<1>1. pc = "postItem" /\ NoWrite /\ item \in Item /\ meter \in Meters
  BY NewItemType DEF PostItem, TypeOK
<1>2. CASE UNCHANGED amberflo /\ (faults' = faults \/ SpendFault) /\ Return(TRUE)
  BY <1>1, <1>2 DEF amberflo, OnlyItems
<1>3. CASE UseSibling(productItemForMeter(meter), ItemError) /\ UNCHANGED <<amberflo, faults>>
  BY <1>1, <1>3
  DEF UseSibling, ItemError, productItemForMeter, OnMeter, OpenOn, amberflo, OnlyItems
<1>4. ASSUME OnlyItems, NEW id \in NewIds,
             LET created == [item EXCEPT !.id = id] IN
             \/ /\ items' = items \cup {created}
                /\ GotoWith("ensurePrice", created) /\ UNCHANGED faults
             \/ SpendFault /\ items' \in {items, items \cup {created}} /\ Return(TRUE)
      PROVE  /\ OnlyItems /\ (faults' = faults \/ SpendFault)
             /\ \E i \in Item :
                 /\ i.id \in {meter} \cup Assigned /\ \A j \in items : j.id # i.id
                 /\ i.name = item.name /\ i.meter = item.meter
                 /\ \/ items' = items \cup {i} /\ GotoWith("ensurePrice", i)
                    \/ items' \in {items, items \cup {i}} /\ Return(TRUE)
  <2> DEFINE i == [item EXCEPT !.id = id]
  <2>1. id \in {meter} \cup Assigned /\ \A j \in items : j.id # id
    BY DEF NewIds
  <2>2. i \in Item /\ i.id = id /\ i.name = item.name /\ i.meter = item.meter
    BY <1>1, <2>1 DEF Item, ItemIds
  <2>3. \/ items' = items \cup {i} /\ GotoWith("ensurePrice", i) /\ UNCHANGED faults
        \/ SpendFault /\ items' \in {items, items \cup {i}} /\ Return(TRUE)
    BY <1>4
  <2> HIDE DEF i
  <2> QED
    BY <1>4, <2>1, <2>2, <2>3
<1> QED
  BY <1>1, <1>2, <1>3, <1>4 DEF PostItem, CallFails, ItemError

LEMMA PostItemSafe ==
  ASSUME SafeInv, PostItem, UNCHANGED environment, HistoryOK'
  PROVE  SafeInv'
<1>1. TypeOK /\ ItemsOK(items)
  BY DEF SafeInv, TypeOK, ItemsOK
<1>2. pc \in BuildStates /\ NoWrite /\ OnlyItems /\ faults' \in 0 .. MaxFaults
  BY <1>1, PostItemCases, FaultBound DEF BuildStates, TypeOK
<1>3. ASSUME ItemsOK(items'), Return(TRUE)
      PROVE  SafeInv'
  BY <1>2, <1>3, ItemsReturn
<1>4. ASSUME ItemsOK(items'), NEW i \in Item, GotoWith("ensurePrice", i)
      PROVE  SafeInv'
  BY <1>2, <1>4, ItemsGoto DEF BuildStates
<1>5. \A i \in Item : (\A j \in items : j.id # i.id) => ItemsOK(items \cup {i})
  BY <1>1 DEF ItemsOK
<1>6. \A i \in items : i \in Item
  BY <1>1 DEF ItemsOK
<1> QED
  BY <1>1, <1>3, <1>4, <1>5, <1>6, PostItemCases

-----------------------------------------------------------------------------
(* The prices and the plan.                                                *)

\* The price of the pricing at k is stored for the item, the others stay.
LEMMA SetPriceFacts ==
  ASSUME TypeOK, offer \in Offer, item \in Item
  PROVE  /\ SetPrice \in [Uids -> [Pricings -> ItemIds \cup {None}]]
         /\ SetPrice[offer.uid][k] = item.id
         /\ \A u \in Uids, p \in Pricings :
              SetPrice[u][p] = prices[u][p] \/ SetPrice[u][p] = item.id
         /\ item.id # None /\ offer.uid \in Uids
<1>1. /\ prices \in [Uids -> [Pricings -> ItemIds \cup {None}]]
      /\ offer.uid \in Uids /\ k \in Pricings /\ item.id \in ItemIds /\ item.id # None
  BY NamesAssumption DEF TypeOK, Offer, Item, ItemIds
<1>2. SetPrice = [prices EXCEPT ![offer.uid] = [prices[offer.uid] EXCEPT ![k] = item.id]]
  BY <1>1 DEF SetPrice
<1> QED
  BY <1>1, <1>2

LEMMA EnsurePriceCases ==
  ASSUME TypeOK, EnsurePrice
  PROVE  /\ pc = "ensurePrice" /\ NoWrite /\ UNCHANGED <<items, plans, left>>
         /\ offer \in Offer /\ item \in Item
         /\ \/ /\ prices' = SetPrice
               /\ built' = {e \in built : e[1] # item.id} \cup {<<item.id, k>>}
               /\ \/ k = Len(MeterOf) /\ pc' = "getPlan" /\ k' = k
                  \/ k # Len(MeterOf) /\ pc' = "findItem" /\ k' = k + 1
               /\ item' = None
               /\ UNCHANGED <<offer, existing, retry, faults>>
            \/ SpendFault /\ prices' \in {prices, SetPrice} /\ Return(TRUE)
<1>1. offer \in Offer /\ item \in Item
  BY DEF EnsurePrice, TypeOK
<1> QED
  BY <1>1 DEF EnsurePrice

LEMMA EnsurePriceSafe ==
  ASSUME SafeInv, EnsurePrice, UNCHANGED environment, HistoryOK'
  PROVE  SafeInv'
<1>0. TypeOK /\ NoOrphanPlan
  BY DEF SafeInv
<1>1. /\ pc = "ensurePrice" /\ NoWrite /\ UNCHANGED <<items, plans, left>>
      /\ offer \in Offer /\ item \in Item
  BY <1>0, EnsurePriceCases
<1>2. ASSUME prices' \in {prices, SetPrice}
      PROVE  AmberfloOK'
  BY <1>0, <1>1, <1>2, SetPriceFacts DEF AmberfloOK, TypeOK
<1>3. CASE SpendFault /\ prices' \in {prices, SetPrice} /\ Return(TRUE)
  BY <1>0, <1>1, <1>2, <1>3, FaultBound, PlansKept, ReturnStep DEF NoWrite
<1>4. CASE /\ prices' = SetPrice
           /\ built' = {e \in built : e[1] # item.id} \cup {<<item.id, k>>}
           /\ \/ k = Len(MeterOf) /\ pc' = "getPlan" /\ k' = k
              \/ k # Len(MeterOf) /\ pc' = "findItem" /\ k' = k + 1
           /\ item' = None
           /\ UNCHANGED <<offer, existing, retry, faults>>
  <2>1. built' \subseteq ItemIds \X Pricings
    BY <1>0, <1>1, <1>4 DEF TypeOK, Item
  <2>2. k' \in Pricings
    <3>1. Pricings = 1 .. Len(MeterOf) /\ Len(MeterOf) \in Nat /\ k \in Pricings
      BY <1>0, PricingsAssumption DEF Pricings, TypeOK
    <3> QED
      BY <1>4, <3>1
  <2>3. pc \in EnsureStates /\ pc' \in {"findItem", "getPlan"} /\ pc' \in BuildStates \cup {"getPlan"}
    BY <1>1, <1>4 DEF EnsureStates, BuildStates
  <2>4. AmberfloOK' /\ faults' \in 0 .. MaxFaults
    BY <1>0, <1>2, <1>4 DEF TypeOK
  <2> QED
    BY <1>1, <1>4, <2>1, <2>2, <2>3, <2>4, BuildStep
<1> QED
  BY <1>0, <1>3, <1>4, EnsurePriceCases

LEMMA GetPlanSafe ==
  ASSUME SafeInv, GetPlan, UNCHANGED environment, HistoryOK'
  PROVE  SafeInv'
<1>0. TypeOK /\ NoOrphanPlan /\ OnPath
  BY DEF SafeInv
<1>1. pc = "getPlan" /\ NoWrite /\ UNCHANGED <<items, prices, plans, left>> /\ offer \in Offer
  BY <1>0 DEF GetPlan, amberflo, TypeOK
<1>2. AmberfloOK' /\ NoOrphanPlan'
  BY <1>0, <1>1, PlansKept DEF AmberfloOK, TypeOK, NoWrite
<1>3. CASE Return(FALSE) /\ UNCHANGED faults
  BY <1>0, <1>1, <1>2, <1>3, ReturnStep DEF TypeOK
<1>4. CASE /\ pc' = "postPlan" /\ existing' = plans[offer.uid]
           /\ UNCHANGED <<offer, k, item, built, retry, faults>>
  <2>1. existing' \in Plan \cup {None}
    BY <1>0, <1>1, <1>4 DEF TypeOK, Offer
  <2>2. OnPath' /\ PlanFirst'
    BY <1>0, <1>1, <1>4 DEF OnPath, PlanFirst, EnsureStates, BuildStates, DeleteStates
  <2>3. /\ k' \in Pricings /\ item' \in Item \cup {None} /\ built' \subseteq ItemIds \X Pricings
        /\ faults' \in 0 .. MaxFaults /\ pc' \in WorkerStates
    BY <1>0, <1>4 DEF TypeOK, WorkerStates
  <2> QED
    BY <1>1, <1>2, <1>4, <2>1, <2>2, <2>3, ProceedStep
<1>5. CASE CallFails
  BY <1>1, <1>5, CallFailsStep
<1> QED
  BY <1>3, <1>4, <1>5 DEF GetPlan

\* A plan set or removed, for the offer of the worker.
LEMMA SetPlanFacts ==
  ASSUME TypeOK, offer \in Offer, NEW p \in Plan \cup {None}
  PROVE  /\ SetPlan(p) \in [Uids -> Plan \cup {None}] /\ offer.uid \in Uids
         /\ \A u \in Uids : SetPlan(p)[u] = IF u = offer.uid THEN p ELSE plans[u]
BY DEF TypeOK, SetPlan, Offer

LEMMA PostPlanCases ==
  ASSUME TypeOK, PostPlan
  PROVE  /\ pc = "postPlan" /\ NoWrite /\ UNCHANGED <<items, prices, left>> /\ offer \in Offer
         /\ faults' = faults \/ SpendFault
         /\ \E again \in BOOLEAN : Return(again)
         /\ \/ UNCHANGED <<plans, unsure>>
            \/ \E p \in Plan : p.prices = built /\ Posted(p) /\ plans' = SetPlan(p)
<1>1. pc = "postPlan" /\ NoWrite /\ UNCHANGED <<items, prices, left>> /\ offer \in Offer
  BY DEF PostPlan, TypeOK
<1> DEFINE plan == [title |-> offer.title, prices |-> built, default |-> EchoedDefault,
                    deprecated |-> FALSE]
<1>2. EchoedDefault \in BOOLEAN
  BY DEF EchoedDefault, TypeOK, Plan
<1>3. plan \in Plan /\ plan.prices = built
  BY <1>1, <1>2 DEF Plan, Offer, TypeOK
<1>4. \/ Unsets(plan) /\ Return(TRUE) /\ UNCHANGED <<plans, unsure, faults>>
      \/ ~Unsets(plan) /\ Posted(plan) /\ Return(FALSE) /\ UNCHANGED faults
      \/ /\ ~Unsets(plan) /\ SpendFault /\ Return(TRUE)
         /\ Posted(plan) \/ UNCHANGED <<plans, unsure>>
  BY DEF PostPlan
<1>5. Posted(plan) => plans' = SetPlan(plan)
  BY DEF Posted
<1> HIDE DEF plan
<1> QED
  BY <1>1, <1>3, <1>4, <1>5

LEMMA PostPlanSafe ==
  ASSUME SafeInv, PostPlan, UNCHANGED environment, HistoryOK'
  PROVE  SafeInv'
<1>0. TypeOK /\ NoOrphanPlan /\ OnPath /\ Backed(offer, api)
  BY DEF SafeInv
<1>1. /\ pc = "postPlan" /\ NoWrite /\ UNCHANGED <<items, prices, left>> /\ offer \in Offer
      /\ faults' \in 0 .. MaxFaults
  BY <1>0, PostPlanCases, FaultBound DEF TypeOK
<1>2. AmberfloOK'
  BY <1>0, <1>1, PostPlanCases, SetPlanFacts DEF AmberfloOK, TypeOK
<1>3. api # None /\ api.uid = offer.uid /\ api.finalizer /\ api' = api
  BY <1>0, <1>1, NoneIsNoRecord DEF OnPath, EnsureStates, Backed, NoWrite
<1>4. \A u \in Uids : plans'[u] = plans[u] \/ u = offer.uid
  BY <1>0, <1>1, PostPlanCases, SetPlanFacts
<1>5. NoOrphanPlan'
  BY <1>0, <1>1, <1>3, <1>4 DEF NoOrphanPlan
<1> QED
  BY <1>0, <1>1, <1>2, <1>5, PostPlanCases, ReturnStep

-----------------------------------------------------------------------------
(* reconcileDelete and DeleteProductPlan.                                  *)

\* A deletion goes on, or gives up for good and says so in left.
LEMMA DeletionStep ==
  ASSUME SafeInv, NoWrite, UNCHANGED <<environment, items, prices>>, pc \in DeleteStates,
         plans' \in [Uids -> Plan \cup {None}], NoOrphanPlan',
         faults' \in 0 .. MaxFaults, UNCHANGED <<offer, k, item, built, retry>>,
         existing' \in Plan \cup {None}, pc' = "deprecate" => existing' # None,
         left' \in {left, left \cup {offer.uid}}, pc' \in DeleteStates, PlanFirst', HistoryOK'
  PROVE  SafeInv'
<1>0. TypeOK /\ OnPath
  BY DEF SafeInv
<1>1. offer \in Offer /\ offer.uid \in Uids
  BY <1>0 DEF TypeOK, DeleteStates, Offer
<1>2. AmberfloOK'
  BY <1>0, <1>1 DEF AmberfloOK, TypeOK
<1>3. OnPath' /\ pc' \in WorkerStates
  BY <1>0 DEF OnPath, EnsureStates, BuildStates, DeleteStates, WorkerStates
<1>4. pc' \notin {"unlockItem", "pointItem", "postItem", "ensurePrice"}
  BY DEF DeleteStates
<1>5. /\ k' \in Pricings /\ item' \in Item \cup {None} /\ built' \subseteq ItemIds \X Pricings
  BY <1>0 DEF TypeOK
<1> QED
  BY <1>1, <1>2, <1>3, <1>4, <1>5, ProceedStep

\* A call of the deletion fails, when it may have changed the plan.
LEMMA DeleteErrorStep ==
  ASSUME SafeInv, NoWrite, UNCHANGED <<environment, items, prices>>, pc \in DeleteStates,
         plans' \in [Uids -> Plan \cup {None}], DeleteError,
         \A u \in Uids : plans'[u] # None => plans[u] # None, HistoryOK'
  PROVE  SafeInv'
<1>0. TypeOK /\ NoOrphanPlan
  BY DEF SafeInv
<1>1. faults' \in 0 .. MaxFaults /\ api' = api
  BY <1>0, FaultBound DEF DeleteError, NoWrite
<1>2. ASSUME left' \in {left, left \cup {offer.uid}}
      PROVE  NoOrphanPlan'
  BY <1>0, <1>1, <1>2 DEF NoOrphanPlan
<1>3. CASE LeavePlan
  <2>1. /\ pc' = "release" /\ UNCHANGED <<offer, k, item, built, existing, retry>>
        /\ left' = left \cup {offer.uid}
    BY <1>3 DEF LeavePlan, Goto
  <2>2. PlanFirst' /\ pc' \in DeleteStates
    BY <2>1 DEF PlanFirst, DeleteStates
  <2>3. existing' \in Plan \cup {None} /\ pc' # "deprecate"
    BY <1>0, <2>1 DEF TypeOK
  <2> QED
    BY <1>1, <1>2, <2>1, <2>2, <2>3, DeletionStep
<1>4. CASE Return(TRUE) /\ UNCHANGED left
  <2>1. AmberfloOK'
    BY <1>0, <1>4 DEF AmberfloOK, TypeOK
  <2> QED
    BY <1>1, <1>2, <1>4, <2>1, ReturnStep
<1> QED
  BY <1>3, <1>4 DEF DeleteError

LEMMA DelGetPlanSafe ==
  ASSUME SafeInv, DelGetPlan, UNCHANGED environment, HistoryOK'
  PROVE  SafeInv'
<1>0. TypeOK /\ NoOrphanPlan
  BY DEF SafeInv
<1>1. /\ pc = "delGet" /\ pc \in DeleteStates /\ NoWrite /\ UNCHANGED <<items, prices, plans>>
      /\ offer \in Offer /\ offer.uid \in Uids
      /\ plans' \in [Uids -> Plan \cup {None}] /\ plans[offer.uid] \in Plan \cup {None}
  BY <1>0 DEF DelGetPlan, TypeOK, DeleteStates, Offer
<1>2. CASE plans[offer.uid] = None /\ AfterMissingPlan /\ UNCHANGED <<left, faults>>
  <2>1. pc' = "release" /\ UNCHANGED <<offer, k, item, built, existing, retry>>
    BY <1>2 DEF AfterMissingPlan, Goto
  <2>2. PlanFirst' /\ pc' \in DeleteStates
    BY <1>1, <1>2, <2>1 DEF PlanFirst, DeleteStates
  <2>3. existing' \in Plan \cup {None} /\ pc' # "deprecate" /\ faults' \in 0 .. MaxFaults
    BY <1>0, <1>2, <2>1 DEF TypeOK
  <2>4. NoOrphanPlan'
    BY <1>0, <1>1, <1>2, PlansKept DEF NoWrite
  <2> QED
    BY <1>1, <1>2, <2>1, <2>2, <2>3, <2>4, DeletionStep
<1>3. CASE /\ plans[offer.uid] # None
           /\ pc' = IF plans[offer.uid].deprecated THEN "delete" ELSE "deprecate"
           /\ existing' = plans[offer.uid]
           /\ UNCHANGED <<offer, k, item, built, retry, left, faults>>
  <2>1. pc' \in {"delete", "deprecate"} /\ pc' \in DeleteStates
    BY <1>3 DEF DeleteStates
  <2>2. PlanFirst'
    BY <1>1, <1>3, <2>1 DEF PlanFirst
  <2>3. faults' \in 0 .. MaxFaults
    BY <1>0, <1>3 DEF TypeOK
  <2>4. NoOrphanPlan'
    BY <1>0, <1>1, <1>3, PlansKept DEF NoWrite
  <2> QED
    BY <1>1, <1>3, <2>1, <2>2, <2>3, <2>4, DeletionStep
<1>4. CASE DeleteError
  BY <1>1, <1>4, DeleteErrorStep
<1> QED
  BY <1>2, <1>3, <1>4 DEF DelGetPlan

\* The plan that DeprecatePlan posts back.
LEMMA DeprecatedPlan ==
  ASSUME TypeOK, DeprecatePlan
  PROVE  /\ [existing EXCEPT !.deprecated = TRUE] \in Plan
         /\ [existing EXCEPT !.deprecated = TRUE] # None
         /\ [existing EXCEPT !.deprecated = TRUE].prices = existing.prices
<1>1. existing \in Plan
  BY DEF TypeOK, DeprecatePlan
<1>2. [existing EXCEPT !.deprecated = TRUE] \in Plan
  BY <1>1 DEF Plan
<1>3. [existing EXCEPT !.deprecated = TRUE].prices = existing.prices
  BY <1>1 DEF Plan
<1> QED
  BY <1>2, <1>3, NoneIsNoRecord

LEMMA DeprecatePlanSafe ==
  ASSUME SafeInv, DeprecatePlan, UNCHANGED environment, HistoryOK'
  PROVE  SafeInv'
<1>0. TypeOK /\ NoOrphanPlan /\ PlanFirst
  BY DEF SafeInv
<1>1. /\ pc = "deprecate" /\ pc \in DeleteStates /\ NoWrite /\ UNCHANGED <<items, prices>>
      /\ offer \in Offer /\ plans[offer.uid] # None
      /\ plans \in [Uids -> Plan \cup {None}]
  BY <1>0 DEF DeprecatePlan, TypeOK, DeleteStates, PlanFirst
<1> DEFINE plan == [existing EXCEPT !.deprecated = TRUE]
<1>2. plan \in Plan /\ plan # None
  BY <1>0, DeprecatedPlan
<1>3. \/ ~Unsets(plan) /\ plans' = SetPlan(plan) /\ Goto("delete") /\ UNCHANGED <<left, faults>>
      \/ Unsets(plan) /\ LeavePlan /\ UNCHANGED <<plans, faults>>
      \/ ~Unsets(plan) /\ plans' \in {plans, SetPlan(plan)} /\ DeleteError
  BY DEF DeprecatePlan
<1> HIDE DEF plan
<1>4. /\ SetPlan(plan) \in [Uids -> Plan \cup {None}] /\ offer.uid \in Uids
      /\ \A u \in Uids : SetPlan(plan)[u] # None <=> plans[u] # None
      /\ SetPlan(plan)[offer.uid] # None
  BY <1>0, <1>1, <1>2, SetPlanFacts
<1>5. CASE plans' = SetPlan(plan) /\ Goto("delete") /\ UNCHANGED <<left, faults>>
  <2>1. pc' = "delete" /\ UNCHANGED <<offer, k, item, built, existing, retry>>
    BY <1>5 DEF Goto
  <2>2. PlanFirst' /\ pc' \in DeleteStates
    BY <1>4, <1>5, <2>1 DEF PlanFirst, DeleteStates
  <2>3. existing' \in Plan \cup {None} /\ pc' # "deprecate" /\ faults' \in 0 .. MaxFaults
    BY <1>0, <1>5, <2>1 DEF TypeOK
  <2>4. NoOrphanPlan'
    BY <1>0, <1>1, <1>4, <1>5 DEF NoOrphanPlan, NoWrite
  <2> QED
    BY <1>1, <1>4, <1>5, <2>1, <2>2, <2>3, <2>4, DeletionStep
<1>6. CASE LeavePlan /\ UNCHANGED <<plans, faults>>
  <2>1. /\ pc' = "release" /\ UNCHANGED <<offer, k, item, built, existing, retry>>
        /\ left' = left \cup {offer.uid}
    BY <1>6 DEF LeavePlan, Goto
  <2>2. PlanFirst' /\ pc' \in DeleteStates
    BY <2>1 DEF PlanFirst, DeleteStates
  <2>3. existing' \in Plan \cup {None} /\ pc' # "deprecate" /\ faults' \in 0 .. MaxFaults
    BY <1>0, <1>6, <2>1 DEF TypeOK
  <2>4. NoOrphanPlan'
    BY <1>0, <1>1, <1>6, <2>1 DEF NoOrphanPlan, NoWrite
  <2> QED
    BY <1>1, <1>6, <2>1, <2>2, <2>3, <2>4, DeletionStep
<1>7. CASE plans' \in {plans, SetPlan(plan)} /\ DeleteError
  BY <1>1, <1>4, <1>7, DeleteErrorStep
<1> QED
  BY <1>3, <1>5, <1>6, <1>7

LEMMA DeletePlanSafe ==
  ASSUME SafeInv, DeletePlan, UNCHANGED environment, HistoryOK'
  PROVE  SafeInv'
<1>0. TypeOK /\ NoOrphanPlan
  BY DEF SafeInv
<1>1. /\ pc = "delete" /\ pc \in DeleteStates /\ NoWrite /\ UNCHANGED <<items, prices>>
      /\ offer \in Offer /\ plans \in [Uids -> Plan \cup {None}]
  BY <1>0 DEF DeletePlan, TypeOK, DeleteStates
<1>2. /\ SetPlan(None) \in [Uids -> Plan \cup {None}] /\ offer.uid \in Uids
      /\ SetPlan(None)[offer.uid] = None
      /\ \A u \in Uids : SetPlan(None)[u] # None => plans[u] # None
  BY <1>0, <1>1, SetPlanFacts
<1>3. CASE plans' = SetPlan(None) /\ Goto("release") /\ UNCHANGED <<left, faults>>
  <2>1. pc' = "release" /\ UNCHANGED <<offer, k, item, built, existing, retry>>
    BY <1>3 DEF Goto
  <2>2. PlanFirst' /\ pc' \in DeleteStates
    BY <1>2, <1>3, <2>1 DEF PlanFirst, DeleteStates
  <2>3. existing' \in Plan \cup {None} /\ pc' # "deprecate" /\ faults' \in 0 .. MaxFaults
    BY <1>0, <1>3, <2>1 DEF TypeOK
  <2>4. NoOrphanPlan'
    BY <1>0, <1>1, <1>2, <1>3 DEF NoOrphanPlan, NoWrite
  <2> QED
    BY <1>1, <1>2, <1>3, <2>1, <2>2, <2>3, <2>4, DeletionStep
<1>4. CASE plans' \in {plans, SetPlan(None)} /\ DeleteError
  BY <1>1, <1>2, <1>4, DeleteErrorStep
<1> QED
  BY <1>3, <1>4 DEF DeletePlan

-----------------------------------------------------------------------------

\* The history is kept by steps of everyone.
LEMMA HistoryKept ==
  ASSUME SafeInv, [Next]_vars
  PROVE  HistoryOK'
<1>0. TypeOK /\ HistoryOK
  BY DEF SafeInv, TypeOK, HistoryOK
<1>1. CASE UNCHANGED history
  BY <1>0, <1>1 DEF history, HistoryOK
<1>2. CASE unsure' = unsure /\ disturbed' \in BOOLEAN
  BY <1>0, <1>2 DEF HistoryOK
<1>3. CASE PostPlan
  <2>1. offer.uid \in Uids /\ disturbed' = disturbed
    BY <1>0, <1>3 DEF PostPlan, TypeOK, Offer
  <2>2. unsure' \in {unsure, unsure \cup {offer.uid}, unsure \ {offer.uid}}
    BY <1>0, <1>3, PostPlanCases DEF Posted
  <2> QED
    BY <1>0, <2>1, <2>2 DEF HistoryOK
<1>4. CASE FindItem \/ ChangeDefinition
  BY <1>0, <1>2, <1>4 DEF FindItem, ChangeDefinition, HistoryOK
<1>5. CASE PostOrphanItem
  BY <1>0, <1>2, <1>5, PostOrphanItemFacts DEF PostOrphanItem, HistoryOK
<1>6. CASE Reconcile
  <2>1. Contested \in BOOLEAN
    BY DEF Contested
  <2> QED
    BY <1>0, <1>2, <1>6, <2>1 DEF Reconcile, HistoryOK
<1>7. CASE \/ CreateOffer \/ EditOffer \/ FillSnapshot \/ DeleteOffer \/ FindOrphanItem
           \/ ChangeDefault \/ Observe \/ Resync \/ RetryElapses \/ Restart
  BY <1>1, <1>7
  DEF CreateOffer, EditOffer, FillSnapshot, DeleteOffer, FindOrphanItem, ChangeDefault,
      Observe, Resync, RetryElapses, Restart
<1>8. CASE Work
  BY <1>1, <1>3, <1>4, <1>8 DEF Work
<1>9. CASE UNCHANGED vars
  BY <1>1, <1>9 DEF vars, history
<1> QED
  BY <1>3, <1>4, <1>5, <1>6, <1>7, <1>8, <1>9 DEF Next

LEMMA NextSafe == SafeInv /\ [Next]_vars => SafeInv'
<1> SUFFICES ASSUME SafeInv, [Next]_vars PROVE SafeInv'
  OBVIOUS
<1>1. CASE CreateOffer
  BY <1>1, CreateOfferSafe
<1>2. CASE EditOffer \/ FillSnapshot \/ DeleteOffer
  BY <1>2, ChangeOfferSafe
<1>3. CASE \/ ChangeDefinition \/ FindOrphanItem \/ PostOrphanItem \/ ChangeDefault
           \/ Resync \/ RetryElapses
  BY <1>3, SurroundingsSafe
<1>4. CASE Observe
  BY <1>4, ObserveSafe
<1>5. CASE Reconcile
  BY <1>5, ReconcileSafe, HistoryKept
<1>6. CASE Restart
  BY <1>6, RestartSafe
<1>7. CASE Work
  <2>1. UNCHANGED environment /\ HistoryOK'
    BY <1>7, HistoryKept DEF Work, environment
  <2> QED
    BY <1>7, <2>1, AddFinalizerSafe, FindItemSafe, SendItemSafe, PostItemSafe, EnsurePriceSafe,
       GetPlanSafe, PostPlanSafe, DelGetPlanSafe, DeprecatePlanSafe, DeletePlanSafe,
       RemoveFinalizerSafe DEF Work
<1>8. CASE UNCHANGED vars
  <2>1. TypeOK'
    BY <1>8 DEF vars, SafeInv, TypeOK
  <2> QED
    BY <1>8, <2>1, OtherStep DEF vars, worker
<1> QED
  BY <1>1, <1>2, <1>3, <1>4, <1>5, <1>6, <1>7, <1>8 DEF Next

\* The inductive invariant that type correctness and NoOrphanPlan rest on.
THEOREM Invariant == Spec => []SafeInv
<1>1. Init => SafeInv
  BY InitSafe
<1>2. SafeInv /\ [Next]_vars => SafeInv'
  BY NextSafe
<1> QED
  BY <1>1, <1>2, PTL DEF Spec

\* The worker, the queue and Amberflo's records keep their types, whatever
\* fails: an item the worker goes on with is one it has found.
THEOREM TypeCorrect == Spec => []TypeOK
<1>1. SafeInv => TypeOK
  BY DEF SafeInv
<1> QED
  BY <1>1, Invariant, PTL

\* A plan always has its offer, held by the finalizer, unless Amberflo refused
\* its deletion for good (offer_controller.go, reconcileDelete).
THEOREM NoOrphan == Spec => []NoOrphanPlan
<1>1. SafeInv => NoOrphanPlan
  BY DEF SafeInv
<1> QED
  BY <1>1, Invariant, PTL

-----------------------------------------------------------------------------
(* Tiers and bands.                                                        *)

\* A rate of one or more bands whose limits, but for the open last one, are
\* whole units.
Band == [upTo : Nat, rate : Int]
WholeUnits(bands) ==
  /\ bands \in Seq(Band) /\ bands # <<>>
  /\ \A j \in 1 .. Len(bands) :
       /\ bands[j].upTo = Open <=> j = Len(bands)
       /\ bands[j].upTo % 10 = 0

\* Each tier starts where the band before it ends.
LEMMA TierStart ==
  ASSUME NEW bands, WholeUnits(bands), NEW j \in 1 .. Len(bands)
  PROVE  10 * startAfter(bands, j) = IF j = 1 THEN 0 ELSE bands[j - 1].upTo
<1>1. Len(bands) \in Nat /\ j \in Nat /\ 1 <= j /\ j <= Len(bands)
  BY DEF WholeUnits
<1>2. {i \in 1 .. j - 1 : bands[i].upTo # Open} = 1 .. j - 1
  <2>1. ASSUME NEW i \in 1 .. j - 1
        PROVE  bands[i].upTo # Open
    <3>1. i \in 1 .. Len(bands) /\ i # Len(bands)
      BY <1>1
    <3> QED
      BY <3>1 DEF WholeUnits
  <2> QED
    BY <2>1
<1>3. CASE j = 1
  <2>1. 1 .. j - 1 = {}
    BY <1>3
  <2> QED
    BY <1>2, <1>3, <2>1 DEF startAfter
<1>4. CASE j # 1
  <2>1. j - 1 \in 1 .. j - 1 /\ j - 1 \in 1 .. Len(bands) /\ 1 .. j - 1 # {}
    <3>1. \A n, l \in Nat : 1 <= n /\ n # 1 /\ n <= l => n - 1 \in 1 .. n - 1 /\ n - 1 \in 1 .. l
      OBVIOUS
    <3>2. j - 1 \in 1 .. j - 1 /\ j - 1 \in 1 .. Len(bands)
      BY <1>1, <1>4, <3>1
    <3> QED
      BY <3>2
  <2>2. Max(1 .. j - 1) = j - 1
    <3>1. j - 1 \in 1 .. j - 1 /\ \A y \in 1 .. j - 1 : j - 1 >= y
      BY <1>1, <2>1
    <3>2. Max(1 .. j - 1) \in 1 .. j - 1 /\ \A y \in 1 .. j - 1 : Max(1 .. j - 1) >= y
      BY <3>1 DEF Max
    <3> QED
      BY <1>1, <3>1, <3>2
  <2>3. startAfter(bands, j) = parseUpToInt(bands[j - 1].upTo)
    BY <1>2, <2>1, <2>2 DEF startAfter
  <2>4. bands[j - 1].upTo \in Nat /\ bands[j - 1].upTo % 10 = 0
    <3>1. bands[j - 1] \in Band
      BY <2>1 DEF WholeUnits
    <3> QED
      BY <2>1, <3>1 DEF WholeUnits, Band
  <2>5. \A n \in Nat : n % 10 = 0 => 10 * (n \div 10) = n
    OBVIOUS
  <2> QED
    BY <1>4, <2>3, <2>4, <2>5 DEF parseUpToInt
<1> QED
  BY <1>3, <1>4

\* The tiers made of a rate in whole units charge every quantity what its
\* bands say: each tier covers the part of the quantity that its band covers.
THEOREM TiersChargeAsBands ==
  ASSUME NEW bands, WholeUnits(bands), NEW q \in Nat
  PROVE  TierCharge(leafFromRate(bands), q) = BandCharge(bands, q)
<1> DEFINE tiers == leafFromRate(bands)
           T(j) == tiers[j].price *
                     Between(q, 10 * tiers[j].startAfterUnit,
                             IF j = Len(tiers) THEN q ELSE 10 * tiers[j + 1].startAfterUnit)
           B(j) == bands[j].rate *
                     Between(q, IF j = 1 THEN 0 ELSE bands[j - 1].upTo,
                             IF bands[j].upTo = Open THEN q ELSE bands[j].upTo)
<1>1. Len(bands) \in Nat /\ DOMAIN bands = 1 .. Len(bands)
  BY DEF WholeUnits
<1>2. /\ DOMAIN tiers = 1 .. Len(bands) /\ Len(tiers) = Len(bands)
      /\ \A j \in 1 .. Len(bands) : /\ tiers[j].price = bands[j].rate
                                    /\ tiers[j].startAfterUnit = startAfter(bands, j)
  BY <1>1 DEF leafFromRate
<1> HIDE DEF tiers
<1>3. ASSUME NEW j \in 1 .. Len(bands)
      PROVE  T(j) = B(j)
  <2>1. 10 * tiers[j].startAfterUnit = IF j = 1 THEN 0 ELSE bands[j - 1].upTo
    BY <1>2, TierStart
  <2>2. (IF j = Len(tiers) THEN q ELSE 10 * tiers[j + 1].startAfterUnit)
          = IF bands[j].upTo = Open THEN q ELSE bands[j].upTo
    <3>1. CASE j = Len(bands)
      BY <1>2, <3>1 DEF WholeUnits
    <3>2. CASE j # Len(bands)
      <4>1. j + 1 \in 1 .. Len(bands) /\ j + 1 # 1 /\ (j + 1) - 1 = j
        <5>1. \A n, l \in Nat : n \in 1 .. l /\ n # l =>
                n + 1 \in 1 .. l /\ n + 1 # 1 /\ (n + 1) - 1 = n
          OBVIOUS
        <5>2. j \in Nat
          BY <1>1
        <5> QED
          BY <1>1, <3>2, <5>1, <5>2
      <4>2. 10 * startAfter(bands, j + 1) = bands[j].upTo
        BY <4>1, TierStart
      <4>3. bands[j].upTo # Open
        BY <3>2 DEF WholeUnits
      <4> QED
        BY <1>2, <3>2, <4>1, <4>2, <4>3
    <3> QED
      BY <3>1, <3>2
  <2> QED
    BY <1>1, <1>2, <2>1, <2>2
<1>4. /\ TierCharge(tiers, q) = SumFunction([j \in DOMAIN tiers |-> T(j)])
      /\ BandCharge(bands, q) = SumFunction([j \in DOMAIN bands |-> B(j)])
  BY DEF TierCharge, BandCharge
<1> HIDE DEF T, B
<1>5. [j \in DOMAIN tiers |-> T(j)] = [j \in DOMAIN bands |-> B(j)]
  BY <1>1, <1>2, <1>3
<1> QED
  BY <1>4, <1>5 DEF tiers

-----------------------------------------------------------------------------
(* Complete plans. A reconcile that began when no item was contested, and  *)
(* that nobody disturbed since, has the items to itself: an item it moves  *)
(* is one that no price it has made is for.                                *)

Priced == {MeterOf[p] : p \in Pricings}

\* The copy of the item is what Amberflo has. The worker moves an item only
\* because of its id, or because it has nothing to do with the offer.
ItemHeld ==
  /\ pc \in {"unlockItem", "pointItem", "ensurePrice"} => item \in items
  /\ pc \in {"unlockItem", "pointItem"} =>
       item.id = meter \/ (item.id \notin Priced /\ item.meter \notin Priced)
  /\ pc = "ensurePrice" => item.meter = meter
  /\ pc = "postItem" => item.meter = meter

LastOnMeter(p) == \A q \in Pricings : MeterOf[q] = MeterOf[p] => q <= p

\* The item with this id is on the meter.
Serves(id, m) == \E i \in items : i.id = id /\ i.meter = m

\* What is built so far is stored and on the meters of the pricings, and it has
\* the last pricing on each meter that the worker has passed.
BuiltSoFar ==
  /\ \A e \in built : prices[offer.uid][e[2]] # None /\ Serves(e[1], MeterOf[e[2]])
  /\ \A p \in Pricings : LastOnMeter(p) /\ (p < k \/ pc \in {"getPlan", "postPlan"}) =>
       \E e \in built : e[2] = p

\* A reconcile that was not disturbed.
Undisturbed == pc \in EnsureStates /\ ~disturbed
Sure == Priced \subseteq defined /\ ~Contested /\ ItemHeld /\ BuiltSoFar

\* Every plan has a stored price for the last pricing on each meter, unless a
\* disturbed reconcile posted it; the plan that is posted back deprecated has
\* the same prices.
PricesComplete(u, ps) ==
  \A p \in Pricings : LastOnMeter(p) => (\E e \in ps : e[2] = p) /\ prices[u][p] # None
PlansComplete ==
  /\ \A u \in Uids \ unsure : plans[u] # None => PricesComplete(u, plans[u].prices)
  /\ pc = "deprecate" => offer.uid \in unsure \/ PricesComplete(offer.uid, existing.prices)

CompleteInv == (Undisturbed => Sure) /\ PlansComplete

LEMMA PricingMeter ==
  ASSUME TypeOK
  PROVE  /\ \A p \in Pricings : MeterOf[p] \in Meters /\ MeterOf[p] \in Priced /\ p \in Nat
         /\ k \in Pricings /\ meter = MeterOf[k] /\ meter \in Priced /\ meter \in Meters
         /\ Priced \subseteq Meters
BY PricingsAssumption DEF Pricings, Priced, TypeOK, meter

-----------------------------------------------------------------------------
(* The items of an undisturbed reconcile.                                  *)

\* The item the worker holds is posted, unlocked or on the meter it is wanted
\* for: nothing becomes contested, and no price loses its item.
LEMMA SetItemKeeps ==
  ASSUME TypeOK, Sure, pc \in {"unlockItem", "pointItem"}, NEW x \in Item,
         x.id = item.id, x.name = item.name, x.meter \in {item.meter, meter},
         items' \in {items, SetItem(x)}, defined' = defined
  PROVE  /\ ~Contested'
         /\ x.id = meter \/ (x.id \notin Priced /\ (x.meter = meter \/ x.meter \notin Priced))
         /\ \A e \in built : Serves(e[1], MeterOf[e[2]]) => Serves(e[1], MeterOf[e[2]])'
<1>1. /\ item \in items /\ Priced \subseteq defined /\ ~Contested
      /\ item.id = meter \/ (item.id \notin Priced /\ item.meter \notin Priced)
  BY DEF Sure, ItemHeld
<1>2. \A i \in items : i.id = item.id => i = item
  BY <1>1 DEF TypeOK
<1>3. \A i \in items' : i \in items \/ i = x
  BY DEF SetItem
<1>4. ~Contested'
  <2> SUFFICES ASSUME NEW p \in Pricings, NEW q \in Pricings, NEW i \in items',
                      MeterOf[p] # MeterOf[q], i.id = MeterOf[q],
                      i.meter = MeterOf[p] \/ (i.name = <<LabelOf[p], None>> /\ i.meter \notin defined)
               PROVE  FALSE
    BY DEF Contested
  <2>1. MeterOf[p] \in Priced /\ MeterOf[q] \in Priced
    BY DEF Priced
  <2>2. CASE i \in items
    BY <1>1, <2>2 DEF Contested
  <2>3. CASE i = x
    <3>1. x.id = meter /\ MeterOf[q] = meter /\ meter \in defined
      BY <1>1, <2>1, <2>3
    <3>2. x.meter = item.meter
      BY <2>1, <2>3, <3>1
    <3> QED
      BY <1>1, <2>3, <3>2 DEF Contested
  <2> QED
    BY <1>3, <2>2, <2>3
<1>5. ASSUME NEW e \in built, Serves(e[1], MeterOf[e[2]])
      PROVE  \E j \in items' : j.id = e[1] /\ j.meter = MeterOf[e[2]]
  <2>1. PICK i \in items : i.id = e[1] /\ i.meter = MeterOf[e[2]]
    BY <1>5 DEF Serves
  <2>2. e[2] \in Pricings /\ MeterOf[e[2]] \in Priced /\ k \in Pricings /\ meter = MeterOf[k]
    BY PricingMeter DEF TypeOK
  <2>3. CASE i.id # item.id \/ items' = items
    BY <2>1, <2>3 DEF SetItem
  <2>4. CASE i.id = item.id /\ items' = SetItem(x)
    <3>1. i = item /\ x \in items' /\ x.id = e[1] /\ item.meter = MeterOf[e[2]]
      BY <1>2, <2>1, <2>4 DEF SetItem
    <3>2. item.id = meter
      BY <1>1, <2>2, <3>1
    <3>3. item.meter = meter
      BY <1>1, <2>2, <3>1, <3>2 DEF Contested
    <3> QED
      BY <3>1, <3>3
  <2> QED
    BY <2>3, <2>4
<1> QED
  BY <1>1, <1>4, <1>5 DEF Serves

\* So it is when an item is created on the meter.
LEMMA AddItemKeeps ==
  ASSUME TypeOK, Sure, NEW x, x.id \in {meter} \cup Assigned, x.meter = meter,
         items' \in {items, items \cup {x}}, defined' = defined
  PROVE  /\ ~Contested'
         /\ \A e \in built : Serves(e[1], MeterOf[e[2]]) => Serves(e[1], MeterOf[e[2]])'
<1>1. Priced \subseteq defined /\ ~Contested /\ meter \in Priced /\ Priced \subseteq Meters
  BY PricingMeter DEF Sure
<1>2. ~Contested'
  <2> SUFFICES ASSUME NEW p \in Pricings, NEW q \in Pricings, NEW i \in items',
                      MeterOf[p] # MeterOf[q], i.id = MeterOf[q],
                      i.meter = MeterOf[p] \/ (i.name = <<LabelOf[p], None>> /\ i.meter \notin defined)
               PROVE  FALSE
    BY DEF Contested
  <2>1. MeterOf[q] \in Priced
    BY DEF Priced
  <2>2. CASE i \in items
    BY <1>1, <2>2 DEF Contested
  <2>3. CASE i = x
    BY <1>1, <2>1, <2>3, NamesAssumption
  <2> QED
    BY <2>2, <2>3
<1> QED
  BY <1>2 DEF Serves

LEMMA SameItems ==
  ASSUME Sure, UNCHANGED <<items, defined>>
  PROVE  /\ ~Contested'
         /\ \A e \in built : Serves(e[1], MeterOf[e[2]]) => Serves(e[1], MeterOf[e[2]])'
BY DEF Sure, Contested, Serves

\* The worker has an item and goes on with it.
LEMMA GotoStaysSure ==
  ASSUME Sure, ~Contested', UNCHANGED <<prices, defined>>, pc \in BuildStates,
         \A e \in built : Serves(e[1], MeterOf[e[2]]) => Serves(e[1], MeterOf[e[2]])',
         NEW l \in BuildStates, NEW i, GotoWith(l, i),
         l \in {"unlockItem", "pointItem", "ensurePrice"} => i \in items',
         l \in {"unlockItem", "pointItem"} =>
           i.id = meter \/ (i.id \notin Priced /\ i.meter \notin Priced),
         l \in {"ensurePrice", "postItem"} => i.meter = meter
  PROVE  Sure'
<1>1. pc' = l /\ item' = i /\ UNCHANGED <<offer, k, built>> /\ meter' = meter
  BY DEF GotoWith, meter
<1>2. ItemHeld'
  BY <1>1 DEF ItemHeld, Priced
<1>3. BuiltSoFar'
  <2>1. pc \notin {"getPlan", "postPlan"} /\ pc' \notin {"getPlan", "postPlan"} /\ BuiltSoFar
    BY <1>1 DEF BuildStates, Sure
  <2>2. \A e \in built' : prices'[offer'.uid][e[2]] # None /\ Serves(e[1], MeterOf[e[2]])'
    BY <1>1, <2>1 DEF BuiltSoFar
  <2>3. \A p \in Pricings : LastOnMeter(p) /\ p < k' => \E e \in built' : e[2] = p
    BY <1>1, <2>1 DEF BuiltSoFar
  <2> QED
    BY <2>1, <2>2, <2>3 DEF BuiltSoFar, LastOnMeter
<1> QED
  BY <1>2, <1>3 DEF Sure, Priced

-----------------------------------------------------------------------------
(* The plans.                                                              *)

\* Stored prices stay stored, plans keep their prices and nobody posts one.
PlansKeep ==
  /\ \A u \in Uids, p \in Pricings : prices[u][p] # None => prices'[u][p] # None
  /\ \A u \in Uids : plans'[u] # None => plans[u] # None /\ plans'[u].prices = plans[u].prices
  /\ unsure' = unsure

LEMMA SamePlans ==
  ASSUME UNCHANGED <<prices, plans, unsure>>
  PROVE  PlansKeep
BY DEF PlansKeep

LEMMA PlansKeepComplete ==
  ASSUME PlansComplete, PlansKeep, pc' # "deprecate"
  PROVE  PlansComplete'
<1>1. ASSUME NEW u \in Uids \ unsure, plans'[u] # None
      PROVE  PricesComplete(u, plans[u].prices)' /\ plans'[u].prices = plans[u].prices
  BY <1>1 DEF PlansKeep, PlansComplete, PricesComplete
<1> QED
  BY <1>1 DEF PlansComplete, PlansKeep, PricesComplete

\* The worker returns.
LEMMA ReturnKeeps ==
  ASSUME CompleteInv, PlansKeep, Reset
  PROVE  CompleteInv'
<1>1. PlansComplete' /\ pc' = "idle"
  BY PlansKeepComplete DEF CompleteInv, Reset
<1> QED
  BY <1>1 DEF CompleteInv, Undisturbed, EnsureStates, BuildStates

\* Others do their work, and if they touch the items or take a definition
\* away then the reconcile is disturbed.
LEMMA OthersComplete ==
  ASSUME CompleteInv, UNCHANGED <<worker, prices>>, PlansKeep,
         ~disturbed' => ~disturbed /\ items' = items /\ defined \subseteq defined'
  PROVE  CompleteInv'
<1>0. (Undisturbed => Sure) /\ PlansComplete
  BY DEF CompleteInv
<1>1. UNCHANGED <<pc, offer, k, item, built, existing, prices>> /\ meter' = meter
  BY DEF worker, meter
<1>2. ASSUME Undisturbed'
      PROVE  Sure'
  <2>1. Sure /\ items' = items /\ defined \subseteq defined'
    BY <1>0, <1>1, <1>2 DEF Undisturbed
  <2>2. ~Contested'
    BY <2>1 DEF Sure, Contested
  <2>3. ItemHeld' /\ BuiltSoFar'
    BY <1>1, <2>1 DEF Sure, ItemHeld, BuiltSoFar, Serves, LastOnMeter, Priced
  <2> QED
    BY <2>1, <2>2, <2>3 DEF Sure, Priced
<1>3. PlansComplete'
  <2>1. ASSUME NEW u \in Uids \ unsure, plans'[u] # None
        PROVE  PricesComplete(u, plans[u].prices)' /\ plans'[u].prices = plans[u].prices
    BY <1>0, <2>1 DEF PlansKeep, PlansComplete, PricesComplete
  <2> QED
    BY <1>0, <1>1, <2>1 DEF PlansComplete, PlansKeep, PricesComplete
<1> QED
  BY <1>2, <1>3 DEF CompleteInv

\* A step that builds: the plans are left alone, and an undisturbed reconcile
\* goes on as it should or returns.
LEMMA BuildCompletes ==
  ASSUME CompleteInv, PlansKeep, pc' # "deprecate", Undisturbed' => Sure'
  PROVE  CompleteInv'
BY PlansKeepComplete DEF CompleteInv

LEMMA ReturnIsNoBuild ==
  ASSUME NEW again, Return(again)
  PROVE  Reset /\ pc' # "deprecate" /\ ~Undisturbed'
BY DEF Return, Reset, Undisturbed, EnsureStates, BuildStates

-----------------------------------------------------------------------------
(* The steps of the worker.                                                *)

LEMMA InitComplete ==
  ASSUME Init
  PROVE  CompleteInv
BY DEF Init, CompleteInv, PlansComplete, Undisturbed, EnsureStates, BuildStates

LEMMA AfterRefusalCompletes ==
  ASSUME TypeOK, CompleteInv, AfterRefusal, pc \in BuildStates, UNCHANGED <<history, defined>>
  PROVE  CompleteInv'
<1>1. UNCHANGED <<items, prices, plans, disturbed, unsure>>
  BY RefusalCases DEF amberflo, history
<1>2. Undisturbed' => Sure
  BY <1>1 DEF CompleteInv, Undisturbed, EnsureStates
<1>3. PlansKeep
  BY <1>1, SamePlans
<1>4. CASE Return(TRUE)
  BY <1>3, <1>4, ReturnKeeps, ReturnIsNoBuild
<1>5. ASSUME NEW i \in items, i.meter = meter, GotoWith("ensurePrice", i)
      PROVE  CompleteInv'
  <2>1. pc' # "deprecate"
    BY <1>5 DEF GotoWith
  <2>2. Sure => Sure'
    BY <1>1, <1>5, SameItems, GotoStaysSure DEF BuildStates
  <2> QED
    BY <1>2, <1>3, <2>1, <2>2, BuildCompletes
<1>6. CASE GotoWith("postItem", NewItem(disambiguatedName))
  <2>1. pc' # "deprecate" /\ NewItem(disambiguatedName).meter = meter
    BY <1>6 DEF GotoWith, NewItem
  <2>2. Sure => Sure'
    BY <1>1, <1>6, <2>1, SameItems, GotoStaysSure DEF BuildStates
  <2> QED
    BY <1>2, <1>3, <2>1, <2>2, BuildCompletes
<1> QED
  BY <1>4, <1>5, <1>6, RefusalCases

\* An item that is found by its name, and not by id or meter, is on no meter
\* that has a definition, or else the reconcile is disturbed.
LEMMA FoundItem ==
  ASSUME TypeOK, FindItem, NEW i \in Candidate(k), ~LookupFails(k), i.meter # meter
  PROVE  i.id = meter \/ (i.name = wantedName /\ i.id # meter /\ i.meter \notin defined)
<1> SUFFICES ASSUME i.id # meter
             PROVE  i.name = wantedName /\ i.meter \notin defined
  OBVIOUS
<1>1. {j \in items : j.id = MeterOf[k]} = {} /\ OnMeter(MeterOf[k]) = {}
  BY DEF Candidate, productItemForMeter, OnMeter, OpenOn, meter
<1>2. Candidate(k) = productItemNamed(<<LabelOf[k], None>>)
  BY <1>1 DEF Candidate
<1>3. i \in items /\ i.name = <<LabelOf[k], None>>
  BY <1>2 DEF productItemNamed
<1>4. \A j \in items : j.id # MeterOf[k] /\ j.meter # MeterOf[k]
  BY <1>1 DEF OnMeter
<1>5. ~Several(productItemNamed(<<LabelOf[k], None>>)) /\ ~FoundForeign(k)
  BY <1>1, <1>4 DEF LookupFails
<1>6. productItemNamed(<<LabelOf[k], None>>) = {i}
  BY <1>2, <1>5 DEF Several
<1> QED
  BY <1>3, <1>4, <1>5, <1>6 DEF FoundForeign, LiveForeign, wantedName

LEMMA FindItemCompletes ==
  ASSUME TypeOK, CompleteInv, FindItem, UNCHANGED environment
  PROVE  CompleteInv'
<1>1. /\ UNCHANGED <<items, prices, plans, unsure, defined>> /\ pc \in BuildStates
      /\ k \in Pricings /\ meter = MeterOf[k]
  BY FindItemCases, PricingMeter DEF FindItem, amberflo, BuildStates, environment
<1>2. PlansKeep
  BY <1>1, SamePlans
<1>3. disturbed' = disturbed => (Undisturbed' => Sure)
  BY <1>1 DEF CompleteInv, Undisturbed, EnsureStates
<1>4. CASE Return(TRUE)
  BY <1>2, <1>4, ReturnKeeps, ReturnIsNoBuild
<1>5. CASE GotoWith("postItem", NewItem(wantedName)) /\ UNCHANGED disturbed
  <2>1. pc' # "deprecate" /\ NewItem(wantedName).meter = meter
    BY <1>5 DEF GotoWith, NewItem
  <2>2. Sure => Sure'
    BY <1>1, <1>5, <2>1, SameItems, GotoStaysSure DEF BuildStates
  <2> QED
    BY <1>2, <1>3, <1>5, <2>1, <2>2, BuildCompletes
<1>6. ASSUME NEW i \in Candidate(k), UseItem(i)
      PROVE  /\ i \in items /\ pc' # "deprecate"
             /\ ~LookupFails(k) => (Sure => Sure')
  <2>1. i \in items
    BY DEF Candidate, productItemForMeter, productItemNamed, OnMeter, OpenOn
  <2>2. pc' # "deprecate"
    BY <1>6, UseItemStep DEF GotoWith
  <2>3. CASE i.meter = meter
    BY <1>1, <1>6, <2>1, <2>2, <2>3, UseItemStep, SameItems, GotoStaysSure DEF BuildStates
  <2>4. ASSUME i.meter # meter, ~LookupFails(k), Sure
        PROVE  Sure'
    <3>1. i.id = meter \/ (i.name = wantedName /\ i.id # meter /\ i.meter \notin defined)
      BY <2>4, FoundItem
    <3>2. Priced \subseteq defined /\ ~Contested
      BY <2>4 DEF Sure
    <3>3. i.id = meter \/ (i.id \notin Priced /\ i.meter \notin Priced)
      BY <1>1, <2>1, <3>1, <3>2 DEF Contested, Priced, wantedName
    <3> QED
      BY <1>1, <1>6, <2>1, <2>4, <3>3, UseItemStep, SameItems, GotoStaysSure DEF BuildStates
  <2> QED
    BY <2>1, <2>2, <2>3, <2>4
<1>7. ASSUME NEW i \in Candidate(k), UseItem(i), ~LookupFails(k), UNCHANGED disturbed
      PROVE  CompleteInv'
  BY <1>2, <1>3, <1>6, <1>7, BuildCompletes
<1>8. ASSUME NEW i \in Candidate(k), UseItem(i), disturbed' = TRUE
      PROVE  CompleteInv'
  BY <1>2, <1>6, <1>8, BuildCompletes DEF Undisturbed
<1> QED
  BY <1>4, <1>5, <1>7, <1>8 DEF FindItem, CallFails, ItemError

LEMMA SendItemCompletes ==
  ASSUME TypeOK, CompleteInv, UnlockItem \/ PointItem, UNCHANGED <<environment, history>>
  PROVE  CompleteInv'
<1>1. /\ pc \in {"unlockItem", "pointItem"} /\ pc \in BuildStates
      /\ UNCHANGED <<defined, disturbed, unsure>>
  BY SendCases DEF BuildStates, environment, history
<1>2. Undisturbed' => Sure
  BY <1>1 DEF CompleteInv, Undisturbed, EnsureStates
<1>3. CASE AfterRefusal
  BY <1>1, <1>3, AfterRefusalCompletes DEF environment
<1>4. ASSUME NEW i \in Item,
             i.id = item.id, i.name = item.name, i.meter \in {item.meter, meter}, OnlyItems,
             \/ /\ items' = SetItem(i)
                /\ \/ i.meter = item.meter /\ GotoWith("pointItem", i)
                   \/ i.meter = meter /\ GotoWith("ensurePrice", i)
             \/ items' \in {items, SetItem(i)} /\ Return(TRUE)
      PROVE  CompleteInv'
  <2>1. PlansKeep
    BY <1>1, <1>4, SamePlans DEF OnlyItems
  <2>2. CASE Return(TRUE)
    BY <2>1, <2>2, ReturnKeeps, ReturnIsNoBuild
  <2>3. CASE /\ items' = SetItem(i)
             /\ \/ i.meter = item.meter /\ GotoWith("pointItem", i)
                \/ i.meter = meter /\ GotoWith("ensurePrice", i)
    <3>1. pc' # "deprecate" /\ i \in items'
      BY <2>3 DEF GotoWith, SetItem
    <3>2. ASSUME Sure
          PROVE  Sure'
      <4>1. /\ ~Contested'
            /\ \A e \in built : Serves(e[1], MeterOf[e[2]]) => Serves(e[1], MeterOf[e[2]])'
        BY <1>1, <1>4, <2>3, <3>2, SetItemKeeps
      <4>2. i.meter = item.meter => i.id = meter \/ (i.id \notin Priced /\ i.meter \notin Priced)
        BY <1>1, <1>4, <3>2 DEF Sure, ItemHeld
      <4>3. UNCHANGED <<prices, defined>>
        BY <1>1, <1>4 DEF OnlyItems
      <4>4. CASE i.meter = item.meter /\ GotoWith("pointItem", i)
        BY <1>1, <3>1, <3>2, <4>1, <4>2, <4>3, <4>4, GotoStaysSure DEF BuildStates
      <4>5. CASE i.meter = meter /\ GotoWith("ensurePrice", i)
        BY <1>1, <3>1, <3>2, <4>1, <4>3, <4>5, GotoStaysSure DEF BuildStates
      <4> QED
        BY <2>3, <4>4, <4>5
    <3> QED
      BY <1>2, <2>1, <3>1, <3>2, BuildCompletes
  <2> QED
    BY <1>4, <2>2, <2>3
<1> QED
  BY <1>3, <1>4, SendCases

LEMMA PostItemCompletes ==
  ASSUME TypeOK, CompleteInv, PostItem, UNCHANGED <<environment, history>>
  PROVE  CompleteInv'
<1>1. /\ pc = "postItem" /\ pc \in BuildStates
      /\ UNCHANGED <<defined, disturbed, unsure, prices, plans>>
  BY PostItemCases DEF BuildStates, environment, history, OnlyItems
<1>2. Undisturbed' => Sure
  BY <1>1 DEF CompleteInv, Undisturbed, EnsureStates
<1>3. PlansKeep
  BY <1>1, SamePlans
<1>4. CASE Return(TRUE)
  BY <1>3, <1>4, ReturnKeeps, ReturnIsNoBuild
<1>5. ASSUME items' = items, NEW i \in items, i.meter = meter, GotoWith("ensurePrice", i)
      PROVE  CompleteInv'
  <2>1. pc' # "deprecate"
    BY <1>5 DEF GotoWith
  <2>2. Sure => Sure'
    BY <1>1, <1>5, SameItems, GotoStaysSure DEF BuildStates
  <2> QED
    BY <1>2, <1>3, <2>1, <2>2, BuildCompletes
<1>6. ASSUME NEW i \in Item, i.id \in {meter} \cup Assigned, i.meter = item.meter,
             items' = items \cup {i}, GotoWith("ensurePrice", i)
      PROVE  CompleteInv'
  <2>1. pc' # "deprecate"
    BY <1>6 DEF GotoWith
  <2>2. ASSUME Sure
        PROVE  Sure'
    <3>1. i.meter = meter
      BY <1>1, <1>6, <2>2 DEF Sure, ItemHeld
    <3>2. /\ ~Contested'
          /\ \A e \in built : Serves(e[1], MeterOf[e[2]]) => Serves(e[1], MeterOf[e[2]])'
      BY <1>1, <1>6, <2>2, <3>1, AddItemKeeps
    <3> QED
      BY <1>1, <1>6, <2>2, <3>1, <3>2, GotoStaysSure DEF BuildStates
  <2> QED
    BY <1>2, <1>3, <2>1, <2>2, BuildCompletes
<1> QED
  BY <1>4, <1>5, <1>6, PostItemCases

\* A price replaces only one of an earlier pricing on the same meter.
LEMMA EnsurePriceCompletes ==
  ASSUME TypeOK, CompleteInv, EnsurePrice, UNCHANGED <<environment, history>>
  PROVE  CompleteInv'
<1>1. /\ pc = "ensurePrice" /\ UNCHANGED <<items, plans, defined, disturbed, unsure>>
      /\ offer \in Offer /\ item \in Item
  BY EnsurePriceCases DEF environment, history
<1>2. Undisturbed' => Sure
  BY <1>1 DEF CompleteInv, Undisturbed, EnsureStates, BuildStates
<1>3. ASSUME prices' \in {prices, SetPrice}
      PROVE  PlansKeep
  BY <1>1, <1>3, SetPriceFacts DEF PlansKeep
<1>4. CASE SpendFault /\ prices' \in {prices, SetPrice} /\ Return(TRUE)
  BY <1>3, <1>4, ReturnKeeps, ReturnIsNoBuild
<1>5. CASE /\ prices' = SetPrice
           /\ built' = {e \in built : e[1] # item.id} \cup {<<item.id, k>>}
           /\ \/ k = Len(MeterOf) /\ pc' = "getPlan" /\ k' = k
              \/ k # Len(MeterOf) /\ pc' = "findItem" /\ k' = k + 1
           /\ item' = None
           /\ UNCHANGED <<offer, existing, retry, faults>>
  <2>1. Pricings = 1 .. Len(MeterOf) /\ Len(MeterOf) \in Nat /\ k \in Pricings /\ meter = MeterOf[k]
    BY PricingsAssumption DEF Pricings, TypeOK, meter
  <2>2. pc' # "deprecate" /\ PlansKeep
    BY <1>3, <1>5
  <2>3. ASSUME Sure
        PROVE  Sure'
    <3>1. item \in items /\ item.meter = meter /\ BuiltSoFar /\ ~Contested /\ Priced \subseteq defined
      BY <1>1, <2>3 DEF Sure, ItemHeld
    <3>2. \A e \in built' : prices'[offer'.uid][e[2]] # None /\ Serves(e[1], MeterOf[e[2]])'
      <4>1. ASSUME NEW e \in built
            PROVE  prices'[offer'.uid][e[2]] # None /\ Serves(e[1], MeterOf[e[2]])'
        <5>1. /\ e[2] \in Pricings /\ prices[offer.uid][e[2]] # None
              /\ Serves(e[1], MeterOf[e[2]])
          BY <3>1 DEF BuiltSoFar, TypeOK
        <5> QED
          BY <1>1, <1>5, <5>1, SetPriceFacts DEF Serves
      <4>2. prices'[offer'.uid][k] # None
        BY <1>1, <1>5, SetPriceFacts
      <4>3. \E j \in items' : j.id = item.id /\ j.meter = MeterOf[k]
        BY <1>1, <2>1, <3>1
      <4>4. <<item.id, k>>[1] = item.id /\ <<item.id, k>>[2] = k
        OBVIOUS
      <4>5. \A e \in built' : e \in built \/ e = <<item.id, k>>
        BY <1>5
      <4> QED
        BY <4>1, <4>2, <4>3, <4>4, <4>5 DEF Serves
    <3>3. ASSUME NEW p \in Pricings, LastOnMeter(p), p < k' \/ pc' \in {"getPlan", "postPlan"}
          PROVE  \E e \in built' : e[2] = p
      <4>1. p < k \/ p = k
        BY <1>5, <2>1, <3>3
      <4>2. CASE p = k
        <5>1. <<item.id, k>> \in built' /\ <<item.id, k>>[2] = k
          BY <1>5
        <5> QED
          BY <4>2, <5>1
      <4>3. CASE p < k
        <5>1. PICK e \in built : e[2] = p
          BY <1>1, <3>1, <3>3, <4>3 DEF BuiltSoFar
        <5>2. e[1] # item.id
          <6> SUFFICES ASSUME e[1] = item.id PROVE FALSE
            OBVIOUS
          <6>1. PICK i \in items : i.id = item.id /\ i.meter = MeterOf[p]
            BY <3>1, <5>1 DEF BuiltSoFar, Serves
          <6>2. MeterOf[k] = MeterOf[p]
            BY <2>1, <3>1, <6>1 DEF TypeOK
          <6> QED
            BY <2>1, <3>3, <4>3, <6>2 DEF LastOnMeter
        <5> QED
          BY <1>5, <5>1, <5>2
      <4> QED
        BY <4>1, <4>2, <4>3
    <3>4. BuiltSoFar'
      BY <3>2, <3>3 DEF BuiltSoFar, LastOnMeter
    <3>5. ItemHeld'
      BY <1>5 DEF ItemHeld
    <3>6. ~Contested' /\ (Priced \subseteq defined)'
      BY <1>1, <3>1 DEF Contested, Priced
    <3> QED
      BY <3>4, <3>5, <3>6 DEF Sure
  <2> QED
    BY <1>2, <2>2, <2>3, BuildCompletes
<1> QED
  BY <1>4, <1>5, EnsurePriceCases

LEMMA GetPlanCompletes ==
  ASSUME TypeOK, CompleteInv, GetPlan, UNCHANGED <<environment, history>>
  PROVE  CompleteInv'
<1>1. pc = "getPlan" /\ UNCHANGED <<items, prices, plans, defined, disturbed, unsure>>
  BY DEF GetPlan, amberflo, environment, history
<1>2. PlansKeep
  BY <1>1, SamePlans
<1>3. CASE Return(FALSE) \/ CallFails
  BY <1>2, <1>3, ReturnKeeps, ReturnIsNoBuild DEF CallFails
<1>4. CASE /\ pc' = "postPlan" /\ existing' = plans[offer.uid]
           /\ UNCHANGED <<offer, k, item, built, retry, faults>>
  <2>1. Undisturbed' => Sure
    BY <1>1 DEF CompleteInv, Undisturbed, EnsureStates
  <2>2. Sure => Sure'
    BY <1>1, <1>4
    DEF Sure, ItemHeld, BuiltSoFar, Serves, LastOnMeter, Priced, Contested
  <2> QED
    BY <1>2, <1>4, <2>1, <2>2, BuildCompletes
<1> QED
  BY <1>3, <1>4 DEF GetPlan

\* The plan that is posted is complete, or the reconcile was disturbed.
LEMMA PostPlanCompletes ==
  ASSUME TypeOK, CompleteInv, PostPlan
  PROVE  CompleteInv'
<1>0. PlansComplete
  BY DEF CompleteInv
<1>1. /\ pc = "postPlan" /\ UNCHANGED <<items, prices>> /\ offer \in Offer /\ offer.uid \in Uids
      /\ Reset /\ pc' = "idle" /\ pc' # "deprecate"
  BY PostPlanCases DEF Return, Reset, Offer
<1>2. ~disturbed => PricesComplete(offer.uid, built)
  BY <1>1 DEF CompleteInv, Undisturbed, EnsureStates, Sure, BuiltSoFar, PricesComplete
<1>3. CASE UNCHANGED <<plans, unsure>>
  BY <1>1, <1>3, SamePlans, ReturnKeeps
<1>4. ASSUME NEW p \in Plan, p.prices = built, Posted(p), plans' = SetPlan(p)
      PROVE  CompleteInv'
  <2>1. \A u \in Uids \ unsure' : plans'[u] # None => PricesComplete(u, plans'[u].prices)
    BY <1>0, <1>1, <1>2, <1>4, SetPlanFacts DEF PlansComplete, Posted
  <2>2. PlansComplete'
    BY <1>1, <2>1 DEF PlansComplete, PricesComplete
  <2> QED
    BY <1>1, <2>2 DEF CompleteInv, Undisturbed, EnsureStates, BuildStates
<1> QED
  BY <1>3, <1>4, PostPlanCases

\* Deletion only ever posts back the prices that the plan had.
LEMMA DeletePathCompletes ==
  ASSUME TypeOK, CompleteInv, DelGetPlan \/ DeprecatePlan \/ DeletePlan,
         UNCHANGED <<environment, history>>
  PROVE  CompleteInv'
<1>0. PlansComplete
  BY DEF CompleteInv
<1>1. /\ UNCHANGED <<items, prices, unsure>> /\ offer \in Offer /\ offer.uid \in Uids
      /\ plans \in [Uids -> Plan \cup {None}]
  BY DEF DelGetPlan, DeprecatePlan, DeletePlan, TypeOK, Offer, history
<1>2. ASSUME Goto("release") \/ Goto("delete") \/ LeavePlan \/ DeleteError
      PROVE  pc' # "deprecate" /\ ~Undisturbed'
  BY <1>2
  DEF Goto, LeavePlan, DeleteError, Return, Reset, Undisturbed, EnsureStates, BuildStates
<1>3. ASSUME NEW p \in Plan \cup {None},
             p = None \/ offer.uid \in unsure \/ PricesComplete(offer.uid, p.prices),
             plans' \in {plans, SetPlan(p)},
             Goto("release") \/ Goto("delete") \/ LeavePlan \/ DeleteError
      PROVE  CompleteInv'
  <2>1. \A u \in Uids \ unsure : plans'[u] # None => PricesComplete(u, plans'[u].prices)
    BY <1>0, <1>1, <1>3, SetPlanFacts DEF PlansComplete
  <2>2. PlansComplete'
    BY <1>1, <1>2, <1>3, <2>1 DEF PlansComplete, PricesComplete
  <2> QED
    BY <1>2, <1>3, <2>2 DEF CompleteInv
<1>4. CASE DelGetPlan
  <2>1. plans' = plans
    BY <1>4 DEF DelGetPlan
  <2>2. CASE AfterMissingPlan \/ DeleteError
    BY <1>3, <2>1, <2>2 DEF AfterMissingPlan
  <2>3. CASE /\ plans[offer.uid] # None
             /\ pc' = IF plans[offer.uid].deprecated THEN "delete" ELSE "deprecate"
             /\ existing' = plans[offer.uid]
             /\ UNCHANGED <<offer, k, item, built, retry, left, faults>>
    <3>1. PlansComplete'
      BY <1>0, <1>1, <2>1, <2>3 DEF PlansComplete, PricesComplete
    <3>2. ~Undisturbed'
      BY <2>3 DEF Undisturbed, EnsureStates, BuildStates
    <3> QED
      BY <3>1, <3>2 DEF CompleteInv
  <2> QED
    BY <1>4, <2>2, <2>3 DEF DelGetPlan
<1>5. CASE DeprecatePlan
  <2> DEFINE plan == [existing EXCEPT !.deprecated = TRUE]
  <2>1. plan \in Plan /\ plan.prices = existing.prices /\ pc = "deprecate"
    BY <1>5, DeprecatedPlan DEF DeprecatePlan
  <2>2. \/ ~Unsets(plan) /\ plans' = SetPlan(plan) /\ Goto("delete") /\ UNCHANGED <<left, faults>>
        \/ Unsets(plan) /\ LeavePlan /\ UNCHANGED <<plans, faults>>
        \/ ~Unsets(plan) /\ plans' \in {plans, SetPlan(plan)} /\ DeleteError
    BY <1>5 DEF DeprecatePlan
  <2> HIDE DEF plan
  <2>3. offer.uid \in unsure \/ PricesComplete(offer.uid, plan.prices)
    BY <1>0, <2>1 DEF PlansComplete
  <2> QED
    BY <1>3, <2>1, <2>2, <2>3
<1>6. CASE DeletePlan
  BY <1>3, <1>6 DEF DeletePlan
<1> QED
  BY <1>4, <1>5, <1>6

\* Updates of the offer touch nothing at Amberflo.
LEMMA UpdateCompletes ==
  ASSUME CompleteInv, AddFinalizer \/ RemoveFinalizer, UNCHANGED history
  PROVE  CompleteInv'
<1>1. UNCHANGED <<prices, plans, unsure>> /\ \E again \in BOOLEAN : Return(again)
  BY DEF AddFinalizer, RemoveFinalizer, CallFails, amberflo, history
<1> QED
  BY <1>1, SamePlans, ReturnKeeps, ReturnIsNoBuild

\* A reconcile begins with nothing built, and disturbed if an item is contested.
LEMMA ReconcileCompletes ==
  ASSUME SafeInv, CompleteInv, Reconcile
  PROVE  CompleteInv'
<1>0. PlansComplete /\ OnPath
  BY DEF CompleteInv, SafeInv
<1>1. UNCHANGED <<items, prices, plans, unsure, defined>> /\ pc = "idle"
  BY DEF Reconcile, amberflo
<1>2. PlansKeep
  BY <1>1, SamePlans
<1>3. CASE ReconcilePath(cached) \in {"idle", "requeue"}
  BY <1>2, <1>3, ReturnKeeps DEF Reconcile, Return
<1>4. CASE ReconcilePath(cached) \notin {"idle", "requeue"}
  <2>1. /\ pc' = ReconcilePath(cached) /\ pc' \in {"delGet", "addFinalizer", "findItem"}
        /\ UNCHANGED <<k, item, built, existing>> /\ k = 1 /\ built = {}
    BY <1>0, <1>1, <1>4 DEF Reconcile, ReconcilePath, OnPath
  <2>2. ASSUME Undisturbed'
        PROVE  Sure'
    <3>1. pc' = "findItem" /\ ~disturbed'
      BY <2>1, <2>2 DEF Undisturbed, EnsureStates, BuildStates
    <3>2. ~Contested /\ \A p \in Pricings : MeterOf[p] \in defined
      BY <2>1, <3>1 DEF Reconcile, ReconcilePath
    <3>3. \A p \in Pricings : ~(p < 1)
      BY PricingsAssumption DEF Pricings
    <3>4. ItemHeld' /\ BuiltSoFar'
      BY <2>1, <3>1, <3>3 DEF ItemHeld, BuiltSoFar
    <3>5. ~Contested' /\ (Priced \subseteq defined)'
      BY <1>1, <3>2 DEF Contested, Priced
    <3> QED
      BY <3>4, <3>5 DEF Sure
  <2> QED
    BY <1>2, <2>1, <2>2, BuildCompletes
<1> QED
  BY <1>3, <1>4

LEMMA NextComplete ==
  ASSUME SafeInv, CompleteInv, [Next]_vars
  PROVE  CompleteInv'
<1>0. TypeOK
  BY DEF SafeInv
<1>1. CASE UNCHANGED <<worker, items, prices, plans, defined, disturbed, unsure>>
  BY <1>1, SamePlans, OthersComplete
<1>2. CASE \/ CreateOffer \/ EditOffer \/ FillSnapshot \/ DeleteOffer
           \/ FindOrphanItem \/ Observe \/ Resync \/ RetryElapses
  BY <1>1, <1>2
  DEF CreateOffer, EditOffer, FillSnapshot, DeleteOffer, FindOrphanItem, Observe, Resync,
      RetryElapses, amberflo, history
<1>3. CASE ChangeDefinition
  <2>1. UNCHANGED <<worker, items, prices, plans, unsure>>
    BY <1>3 DEF ChangeDefinition, amberflo
  <2>2. ~disturbed' => ~disturbed /\ defined \subseteq defined'
    BY <1>3 DEF ChangeDefinition
  <2> QED
    BY <2>1, <2>2, SamePlans, OthersComplete
<1>4. CASE PostOrphanItem
  <2>1. UNCHANGED <<worker, prices, plans, defined, unsure>>
    BY <1>4 DEF PostOrphanItem
  <2>2. ~disturbed' => ~disturbed /\ items' = items
    BY <1>0, <1>4, PostOrphanItemFacts
  <2> QED
    BY <2>1, <2>2, SamePlans, OthersComplete
<1>5. CASE ChangeDefault
  <2>1. UNCHANGED <<worker, prices, items, defined, disturbed, unsure>>
    BY <1>5 DEF ChangeDefault, history
  <2>2. PlansKeep
    BY <1>0, <1>5, <2>1, ChangeDefaultFacts DEF PlansKeep
  <2> QED
    BY <2>1, <2>2, OthersComplete
<1>6. CASE Reconcile
  BY <1>6, ReconcileCompletes
<1>7. CASE Restart
  <2>1. UNCHANGED <<prices, plans, unsure>> /\ Reset
    BY <1>7 DEF Restart, amberflo, history
  <2> QED
    BY <2>1, SamePlans, ReturnKeeps
<1>8. CASE Work
  <2>1. UNCHANGED environment
    BY <1>8 DEF Work, environment
  <2> QED
    BY <1>0, <1>8, <2>1, FindItemCompletes, SendItemCompletes, PostItemCompletes,
       EnsurePriceCompletes, GetPlanCompletes, PostPlanCompletes, DeletePathCompletes,
       UpdateCompletes DEF Work
<1>9. CASE UNCHANGED vars
  BY <1>1, <1>9 DEF vars, worker
<1> QED
  BY <1>2, <1>3, <1>4, <1>5, <1>6, <1>7, <1>8, <1>9 DEF Next

\* Whatever fails on the way, and whatever earlier releases and the other
\* reconciler do with the product items, a plan has a stored price for every
\* meter of the offer, of the last pricing on it, unless the reconcile that
\* posted it was disturbed (product_plan.go, EnsureProductPlan).
THEOREM PlansAreComplete == Spec => []PlanComplete
<1>1. Init => CompleteInv
  BY InitComplete
<1>2. SafeInv /\ CompleteInv /\ [Next]_vars => CompleteInv'
  BY NextComplete
<1>3. CompleteInv => PlanComplete
  BY DEF CompleteInv, PlansComplete, PricesComplete, LastOnMeter, PlanComplete, Complete
<1> QED
  BY <1>1, <1>2, <1>3, Invariant, PTL DEF Spec
=============================================================================
