----------------------------- MODULE MeterProofs -----------------------------
(***************************************************************************)
(* Proofs about MeterController, for any definitions, leftovers, labels,   *)
(* faults and user steps: type correctness, that no meter outlives its     *)
(* definition, and that a reconcile touches neither the meters nor the     *)
(* live product items of other definitions.                                *)
(***************************************************************************)
EXTENDS MeterController, TLAPS

Held(n) == api[n] # None /\ api[n].finalizer

\* Only the newest version of a definition carries the last resourceVersion
\* given out. A worker that holds it holds what the API server and the cache
\* have.
VersionsInOrder ==
  /\ \A n \in Names :
       /\ api[n] # None => api[n].rv = version[n]
       /\ cached[n] # None =>
            /\ cached[n].rv <= version[n]
            /\ cached[n].rv = version[n] => cached[n] = api[n]
  /\ pc # "idle" =>
       /\ md.rv <= version[cur]
       /\ md.rv = version[cur] => md = api[cur] /\ cached[cur] = api[cur]

\* A finalizer is released only when the cache knows of the deletion.
CacheBacked ==
  \A n \in Names :
    cached[n] # None /\ cached[n].finalizer /\ ~cached[n].deleting => Held(n)

EnsureStates == {"getMeter", "postMeter", "putMeter", "getByLabel",
                 "createCheck", "createPost", "adopt", "unlockItem", "pointItem"}
DeletionStates == {"delGet", "delByLabel", "release"}

\* Reconcile only gets to EnsureMeter with a definition that the finalizer
\* holds, and it stays held while the worker is there.
OnPath ==
  /\ pc \in EnsureStates => ~md.deleting
  /\ pc \in DeletionStates => md.deleting
  /\ pc \in EnsureStates \cup {"deprecate", "delete"} /\ ~md.deleting => Held(cur)
  /\ pc = "putMeter" => meters[cur] # None

\* deleteMeterRecord is about a leftover, or about the meter of the definition
\* that is being deleted.
VictimKnown ==
  pc \in {"deprecate", "delete"} =>
    /\ victim \in Legacy \/ (victim = cur /\ md.deleting)
    /\ md.deleting => victim = cur \/ meters[cur] = None

\* The finalizer goes after the meter.
MeterFirst == pc \in {"delByLabel", "release"} => meters[cur] = None

\* The copy that the worker is about to retarget has been looked at. What the
\* Offer reconciler does to the item meanwhile, it deletes none.
ItemChecked ==
  /\ pc \in {"createPost", "unlockItem", "pointItem"} /\ ~blind /\ copy # None =>
       ~LiveForeign(copy)
  /\ pc = "createPost" /\ copy # None => itemOf # None

IInv ==
  /\ TypeOK /\ VersionsInOrder /\ CacheBacked /\ OnPath
  /\ VictimKnown /\ MeterFirst /\ ItemChecked /\ NoOrphanMeter
MetersType == [Names \cup Legacy -> Meter \cup {None}]
ItemsType == [Labels -> Item \cup {None}]

-----------------------------------------------------------------------------
(* What the steps have in common.                                          *)

\* A write changes one definition, and gives it the next version.
LEMMA WriteFields ==
  ASSUME TypeOK, NEW n \in Names, NEW d \in Definition \cup {None}, Write(n, d)
  PROVE  /\ version' \in [Names -> Nat] /\ api' \in [Names -> Definition \cup {None}]
         /\ version[n] \in Nat /\ version'[n] = version[n] + 1
         /\ \A m \in Names : m # n => api'[m] = api[m] /\ version'[m] = version[m]
         /\ d = None => api'[n] = None
         /\ d # None => api'[n] # None /\ api'[n].rv = version'[n] /\ api'[n].finalizer = d.finalizer
<1>0. version \in [Names -> Nat] /\ api \in [Names -> Definition \cup {None}]
  BY DEF TypeOK
<1> DEFINE w == IF d = None THEN None ELSE [d EXCEPT !.rv = version'[n]]
<1>1. version' = [version EXCEPT ![n] = version[n] + 1] /\ api' = [api EXCEPT ![n] = w]
  BY <1>0 DEF Write
<1>2. /\ version' \in [Names -> Nat] /\ version'[n] = version[n] + 1 /\ version[n] \in Nat
      /\ \A m \in Names : m # n => version'[m] = version[m]
  BY <1>0, <1>1
<1>3. d = None => w = None
  OBVIOUS
<1>4. d # None => w \in Definition /\ w.rv = version'[n] /\ w.finalizer = d.finalizer
  <2> SUFFICES ASSUME d # None
               PROVE  /\ [d EXCEPT !.rv = version'[n]] \in Definition
                      /\ [d EXCEPT !.rv = version'[n]].rv = version'[n]
                      /\ [d EXCEPT !.rv = version'[n]].finalizer = d.finalizer
    OBVIOUS
  <2>1. d \in Definition /\ version'[n] \in Nat
    BY <1>2
  <2> QED
    BY <2>1 DEF Definition
<1> HIDE DEF w
<1>5. w \in Definition \cup {None} /\ (d # None => w # None)
  BY <1>3, <1>4, NoneIsNoRecord
<1>6. /\ api' \in [Names -> Definition \cup {None}] /\ api'[n] = w
      /\ \A m \in Names : m # n => api'[m] = api[m]
  BY <1>0, <1>1, <1>5
<1> QED
  BY <1>2, <1>3, <1>4, <1>5, <1>6

\* A write keeps the versions in order, and the newest version is a new one.
LEMMA WriteKeepsOrder ==
  ASSUME TypeOK, VersionsInOrder, NEW n \in Names, NEW d \in Definition \cup {None}, Write(n, d),
         cached' = cached,
         pc' = "idle" \/ (pc # "idle" /\ cur' = cur /\ md' = md)
  PROVE  VersionsInOrder'
<1>1. ASSUME NEW m \in Names
      PROVE  /\ api'[m] # None => api'[m].rv = version'[m]
             /\ cached'[m] # None =>
                  /\ cached'[m].rv <= version'[m]
                  /\ cached'[m].rv = version'[m] => cached'[m] = api'[m]
  <2>1. CASE m = n
    <3>1. cached[n] # None => cached[n].rv \in Nat /\ cached[n].rv <= version[n]
      BY DEF TypeOK, VersionsInOrder, Definition
    <3> QED
      BY <2>1, <3>1, WriteFields
  <2>2. CASE m # n
    BY <2>2, WriteFields DEF VersionsInOrder
  <2> QED
    BY <2>1, <2>2
<1>2. ASSUME pc' # "idle"
      PROVE  /\ md'.rv <= version'[cur']
             /\ md'.rv = version'[cur'] => md' = api'[cur'] /\ cached'[cur'] = api'[cur']
  <2>1. pc # "idle" /\ cur' = cur /\ md' = md /\ cur \in Names /\ md.rv \in Nat
    BY <1>2 DEF TypeOK, Definition
  <2>2. /\ md.rv <= version[cur]
        /\ md.rv = version[cur] => md = api[cur] /\ cached[cur] = api[cur]
    BY <2>1 DEF VersionsInOrder
  <2>3. CASE cur = n
    BY <2>1, <2>2, <2>3, WriteFields
  <2>4. CASE cur # n
    BY <2>1, <2>2, <2>4, WriteFields
  <2> QED
    BY <2>3, <2>4
<1> QED
  BY <1>1, <1>2 DEF VersionsInOrder

LEMMA FaultBound ==
  ASSUME TypeOK, SpendFault
  PROVE  faults' \in 0 .. MaxFaults
BY BoundsAssumption DEF TypeOK, SpendFault

LEMMA UserBound ==
  ASSUME TypeOK, SpendUserStep
  PROVE  userSteps' \in 0 .. MaxUserSteps
BY BoundsAssumption DEF TypeOK, SpendUserStep

\* A user's write, which takes back no finalizer.
LEMMA UserWrite ==
  ASSUME IInv, NEW n \in Names, NEW d \in Definition \cup {None}, Write(n, d), SpendUserStep,
         UNCHANGED <<cached, queued, retry, worker, amberflo, faults>>,
         Held(n) => d # None /\ d.finalizer
  PROVE  IInv'
<1>0. TypeOK /\ VersionsInOrder /\ CacheBacked /\ OnPath /\ VictimKnown /\ MeterFirst
      /\ ItemChecked /\ NoOrphanMeter
  BY DEF IInv
<1>1. /\ pc' = pc /\ cur' = cur /\ md' = md /\ victim' = victim /\ copy' = copy /\ blind' = blind
      /\ meters' = meters /\ items' = items /\ hidden' = hidden
  BY DEF worker, amberflo
<1>2. \A m \in Names : Held(m) => Held(m)'
  BY <1>0, WriteFields DEF Held
<1>3. userSteps' \in 0 .. MaxUserSteps
  BY <1>0, UserBound
<1>4. TypeOK'
  BY <1>0, <1>1, <1>3, WriteFields DEF TypeOK
<1>5. VersionsInOrder'
  BY <1>0, <1>1, WriteKeepsOrder
<1>6. CacheBacked' /\ NoOrphanMeter'
  BY <1>0, <1>1, <1>2 DEF CacheBacked, NoOrphanMeter, Held
<1>7. OnPath'
  BY <1>0, <1>1, <1>2 DEF OnPath, TypeOK, EnsureStates
<1>8. VictimKnown' /\ MeterFirst' /\ ItemChecked'
  BY <1>0, <1>1 DEF VictimKnown, MeterFirst, ItemChecked, itemOf, LiveForeign
<1> QED
  BY <1>4, <1>5, <1>6, <1>7, <1>8 DEF IInv

\* The worker returns with no definition written.
LEMMA ReturnStep ==
  ASSUME IInv, NEW again \in BOOLEAN, Return(again), NoWrite, cur \in Names,
         UNCHANGED <<cached, queued, userSteps>>, faults' \in 0 .. MaxFaults,
         meters' \in MetersType, items' \in ItemsType, hidden' = hidden, NoOrphanMeter'
  PROVE  IInv'
<1>0. TypeOK /\ VersionsInOrder /\ CacheBacked
  BY DEF IInv
<1>1. /\ pc' = "idle" /\ cur' = None /\ md' = None /\ victim' = None /\ copy' = None
      /\ blind' = FALSE
      /\ retry' = IF again THEN retry \cup {cur} ELSE retry
      /\ api' = api /\ version' = version
  BY DEF Return, NoWrite
<1>2. TypeOK'
  <2>1. retry' \subseteq Names
    BY <1>0, <1>1 DEF TypeOK
  <2> QED
    BY <1>0, <1>1, <2>1 DEF TypeOK, WorkerStates, MetersType, ItemsType
<1>3. VersionsInOrder' /\ CacheBacked'
  BY <1>0, <1>1 DEF VersionsInOrder, CacheBacked, Held
<1>4. OnPath' /\ VictimKnown' /\ MeterFirst' /\ ItemChecked'
  BY <1>1 DEF OnPath, VictimKnown, MeterFirst, ItemChecked, EnsureStates, DeletionStates
<1> QED
  BY <1>2, <1>3, <1>4 DEF IInv

\* The worker returns, and nothing has changed.
LEMMA IdleReturn ==
  ASSUME IInv, NEW again \in BOOLEAN, Return(again), NoWrite, cur \in Names,
         UNCHANGED <<cached, queued, userSteps>>, faults' \in 0 .. MaxFaults, UNCHANGED amberflo
  PROVE  IInv'
<1>1. TypeOK /\ NoOrphanMeter /\ meters' = meters /\ items' = items /\ hidden' = hidden
      /\ api' = api
  BY DEF IInv, amberflo, NoWrite
<1>2. NoOrphanMeter' /\ meters' \in MetersType /\ items' \in ItemsType
  BY <1>1 DEF NoOrphanMeter, TypeOK, MetersType, ItemsType
<1> QED
  BY <1>1, <1>2, ReturnStep

LEMMA CallFailsStep ==
  ASSUME IInv, CallFails, cur \in Names, UNCHANGED <<cached, queued, userSteps>>
  PROVE  IInv'
BY FaultBound, IdleReturn DEF CallFails, IInv

\* The worker goes on with the version it has.
LEMMA ProceedStep ==
  ASSUME IInv, NoWrite, pc # "idle", pc' \in WorkerStates,
         UNCHANGED <<cached, queued, userSteps, cur, md, retry>>,
         faults' \in 0 .. MaxFaults, blind' \in BOOLEAN, copy' \in Item \cup {None},
         pc' \in {"unlockItem", "pointItem"} => copy' \in Item /\ items'[md.label] \in Item,
         victim' \in Names \cup Legacy \cup {None},
         pc' \in {"deprecate", "delete"} => victim' # None /\ meters'[victim'] # None,
         meters' \in MetersType, items' \in ItemsType, hidden' = hidden,
         OnPath', VictimKnown', MeterFirst', ItemChecked', NoOrphanMeter'
  PROVE  IInv'
<1>0. TypeOK /\ VersionsInOrder /\ CacheBacked
  BY DEF IInv
<1>1. api' = api /\ version' = version
  BY DEF NoWrite
<1>2. TypeOK'
  BY <1>0, <1>1 DEF TypeOK, MetersType, ItemsType
<1>3. VersionsInOrder' /\ CacheBacked'
  BY <1>0, <1>1 DEF VersionsInOrder, CacheBacked, Held
<1> QED
  BY <1>2, <1>3 DEF IInv

\* The worker goes on, and Amberflo has not changed.
LEMMA GotoStep ==
  ASSUME IInv, NoWrite, pc # "idle", NEW l \in WorkerStates, Goto(l),
         l \notin {"deprecate", "delete", "unlockItem", "pointItem"},
         UNCHANGED <<cached, queued, userSteps, amberflo>>,
         faults' \in 0 .. MaxFaults, OnPath', MeterFirst', ItemChecked'
  PROVE  IInv'
<1>0. TypeOK /\ NoOrphanMeter
  BY DEF IInv
<1>1. /\ pc' = l /\ cur' = cur /\ md' = md /\ victim' = victim /\ copy' = copy /\ blind' = blind
      /\ retry' = retry
      /\ meters' = meters /\ items' = items /\ hidden' = hidden /\ api' = api
  BY DEF Goto, amberflo, NoWrite
<1>2. NoOrphanMeter' /\ VictimKnown'
  BY <1>0, <1>1 DEF NoOrphanMeter, VictimKnown
<1>3. /\ meters' \in MetersType /\ items' \in ItemsType /\ blind' \in BOOLEAN
      /\ copy' \in Item \cup {None} /\ victim' \in Names \cup Legacy \cup {None}
  BY <1>0, <1>1 DEF TypeOK, MetersType, ItemsType
<1> QED
  BY <1>1, <1>2, <1>3, ProceedStep

\* The one meter that a call sets or deletes.
LEMMA SetMeterFacts ==
  ASSUME TypeOK, NEW x \in Names \cup Legacy, NEW m \in Meter \cup {None}, MaySetMeter(x, m)
  PROVE  /\ meters' \in MetersType /\ items' = items /\ hidden' = hidden
         /\ \A y \in Names \cup Legacy : y # x => meters'[y] = meters[y]
         /\ SetMeter(x, m) => meters'[x] = m
<1>1. meters \in MetersType
  BY DEF TypeOK, MetersType
<1>2. CASE SetMeter(x, m)
  BY <1>1, <1>2 DEF SetMeter, MetersType
<1>3. CASE UNCHANGED amberflo /\ ~SetMeter(x, m)
  BY <1>1, <1>3 DEF amberflo
<1> QED
  BY <1>2, <1>3 DEF MaySetMeter

\* The worker sets the meter of a definition that is held.
LEMMA SetOwnMeter ==
  ASSUME IInv, cur \in Names, Held(cur), NEW m \in Meter, MaySetMeter(cur, m), api' = api
  PROVE  /\ meters' \in MetersType /\ items' = items /\ hidden' = hidden /\ NoOrphanMeter'
         /\ \A y \in Names \cup Legacy : y # cur => meters'[y] = meters[y]
         /\ SetMeter(cur, m) => meters'[cur] = m
<1>0. TypeOK /\ NoOrphanMeter
  BY DEF IInv
<1>1. /\ meters' \in MetersType /\ items' = items /\ hidden' = hidden
      /\ \A y \in Names \cup Legacy : y # cur => meters'[y] = meters[y]
      /\ SetMeter(cur, m) => meters'[cur] = m
  BY <1>0, SetMeterFacts
<1>2. NoOrphanMeter'
  BY <1>0, <1>1 DEF NoOrphanMeter, Held
<1> QED
  BY <1>1, <1>2
-----------------------------------------------------------------------------
(* The API server and its users.                                           *)

LEMMA InitIInv == Init => IInv
<1> SUFFICES ASSUME Init PROVE IInv
  OBVIOUS
<1>1. PICK left \in [Legacy -> ActiveLeftover \cup {None}] :
        meters = [x \in Names \cup Legacy |-> IF x \in Legacy THEN left[x] ELSE None]
  BY DEF Init
<1>2. ActiveLeftover \subseteq Meter
  BY LabelsAssumption DEF ActiveLeftover, Meter, MeterLabel
<1>3. meters \in MetersType /\ \A n \in Names : meters[n] = None
  BY <1>1, <1>2, NamesAssumption DEF MetersType
<1>4. items \in ItemsType
  <2>1. [meter : Legacy, status : {"active", "deprecated"}] \subseteq Item
    BY DEF Item
  <2> QED
    BY <2>1 DEF Init, ItemsType
<1>5. /\ hidden \subseteq Labels /\ faults \in 0 .. MaxFaults /\ userSteps \in 0 .. MaxUserSteps
  BY LabelsAssumption, BoundsAssumption DEF Init
<1>6. /\ api = [n \in Names |-> None] /\ cached = [n \in Names |-> None]
      /\ version = [n \in Names |-> 0] /\ queued = {} /\ retry = {}
      /\ pc = "idle" /\ cur = None /\ md = None /\ victim = None /\ copy = None /\ blind = FALSE
  BY DEF Init
<1>7. TypeOK
  BY <1>3, <1>4, <1>5, <1>6 DEF TypeOK, MetersType, ItemsType, WorkerStates
<1>8. VersionsInOrder /\ CacheBacked /\ OnPath /\ VictimKnown /\ MeterFirst /\ ItemChecked
  BY <1>6 DEF VersionsInOrder, CacheBacked, OnPath, VictimKnown, MeterFirst, ItemChecked,
              EnsureStates, DeletionStates
<1> QED
  BY <1>3, <1>7, <1>8 DEF IInv, NoOrphanMeter

LEMMA CreateDefinitionIInv ==
  ASSUME IInv, NEW n \in Names, CreateDefinition(n)
  PROVE  IInv'
<1>1. PICK l \in Labels, s \in {TRUE} \cup {n \notin Unsupported} :
        Write(n, [rv |-> 0, label |-> l, supported |-> s, finalizer |-> FALSE, deleting |-> FALSE])
  BY DEF CreateDefinition
<1>2. s \in BOOLEAN
  OBVIOUS
<1>3. [rv |-> 0, label |-> l, supported |-> s, finalizer |-> FALSE, deleting |-> FALSE] \in Definition
  BY <1>2 DEF Definition
<1>4. ~Held(n)
  BY DEF Held, CreateDefinition
<1> QED
  BY <1>1, <1>3, <1>4, UserWrite DEF CreateDefinition

LEMMA ChangeLabelIInv ==
  ASSUME IInv, NEW n \in Names, ChangeLabel(n)
  PROVE  IInv'
<1>1. PICK l \in Labels \ {api[n].label} : Write(n, [api[n] EXCEPT !.label = l])
  BY DEF ChangeLabel
<1>2. api[n] \in Definition
  BY DEF ChangeLabel, IInv, TypeOK
<1> DEFINE d == [api[n] EXCEPT !.label = l]
<1>3. d \in Definition /\ d.finalizer = api[n].finalizer
  BY <1>2 DEF Definition
<1>4. Write(n, d)
  BY <1>1
<1> HIDE DEF d
<1>5. Held(n) => d # None /\ d.finalizer
  BY <1>3, NoneIsNoRecord DEF Held
<1> QED
  BY <1>3, <1>4, <1>5, UserWrite DEF ChangeLabel

LEMMA DeleteDefinitionIInv ==
  ASSUME IInv, NEW n \in Names, DeleteDefinition(n)
  PROVE  IInv'
<1>1. api[n] \in Definition
  BY DEF DeleteDefinition, IInv, TypeOK
<1>2. CASE api[n].finalizer
  <2> DEFINE d == [api[n] EXCEPT !.deleting = TRUE]
  <2>1. d \in Definition /\ d.finalizer
    BY <1>1, <1>2 DEF Definition
  <2>2. Write(n, d) /\ d # None
    BY <1>2, <2>1, NoneIsNoRecord DEF DeleteDefinition
  <2> HIDE DEF d
  <2> QED
    BY <2>1, <2>2, UserWrite DEF DeleteDefinition
<1>3. CASE ~api[n].finalizer
  <2>1. Write(n, None) /\ ~Held(n)
    BY <1>3 DEF DeleteDefinition, Held
  <2> QED
    BY <2>1, UserWrite DEF DeleteDefinition
<1> QED
  BY <1>2, <1>3

\* Steps of the informer and of the work queue, and none at all.
LEMMA DeliveryIInv ==
  ASSUME IInv, UNCHANGED <<api, version, worker, amberflo, faults, userSteps>>,
         queued' \subseteq Names, retry' \subseteq Names,
         cached' \in [Names -> Definition \cup {None}],
         \A n \in Names : cached'[n] \in {cached[n], api[n]}
  PROVE  IInv'
<1>0. TypeOK /\ VersionsInOrder /\ CacheBacked /\ OnPath /\ VictimKnown /\ MeterFirst
      /\ ItemChecked /\ NoOrphanMeter
  BY DEF IInv
<1>1. /\ pc' = pc /\ cur' = cur /\ md' = md /\ victim' = victim /\ copy' = copy /\ blind' = blind
      /\ meters' = meters /\ items' = items /\ hidden' = hidden /\ api' = api /\ version' = version
  BY DEF worker, amberflo
<1>2. TypeOK'
  BY <1>0, <1>1 DEF TypeOK
<1>3. VersionsInOrder'
  <2>1. ASSUME NEW n \in Names
        PROVE  /\ api'[n] # None => api'[n].rv = version'[n]
               /\ cached'[n] # None =>
                    /\ cached'[n].rv <= version'[n]
                    /\ cached'[n].rv = version'[n] => cached'[n] = api'[n]
    <3>1. CASE cached'[n] = cached[n]
      BY <1>0, <1>1, <3>1 DEF VersionsInOrder
    <3>2. CASE cached'[n] = api[n]
      BY <1>0, <1>1, <3>2 DEF VersionsInOrder, TypeOK
    <3> QED
      BY <3>1, <3>2
  <2>2. pc' # "idle" =>
          /\ md'.rv <= version'[cur']
          /\ md'.rv = version'[cur'] => md' = api'[cur'] /\ cached'[cur'] = api'[cur']
    BY <1>0, <1>1 DEF VersionsInOrder, TypeOK
  <2> QED
    BY <2>1, <2>2 DEF VersionsInOrder
<1>4. CacheBacked' /\ NoOrphanMeter'
  BY <1>0, <1>1 DEF CacheBacked, NoOrphanMeter, Held
<1>5. OnPath'
  BY <1>0, <1>1 DEF OnPath, Held
<1>6. VictimKnown' /\ MeterFirst' /\ ItemChecked'
  BY <1>0, <1>1 DEF VictimKnown, MeterFirst, ItemChecked, itemOf, LiveForeign
<1> QED
  BY <1>2, <1>3, <1>4, <1>5, <1>6 DEF IInv

LEMMA RestartIInv == IInv /\ Restart => IInv'
<1> SUFFICES ASSUME IInv, Restart PROVE IInv'
  OBVIOUS
<1>0. TypeOK /\ VersionsInOrder /\ NoOrphanMeter
  BY DEF IInv
<1>1. /\ cached' = api /\ queued' \subseteq Names /\ retry' = {} /\ pc' = "idle"
      /\ cur' = None /\ md' = None /\ victim' = None /\ copy' = None
      /\ blind' = FALSE
      /\ api' = api /\ version' = version /\ meters' = meters /\ items' = items
      /\ hidden' = hidden /\ userSteps' = userSteps
  BY DEF Restart, amberflo
<1>2. faults' \in 0 .. MaxFaults
  BY <1>0, FaultBound DEF Restart
<1>3. TypeOK'
  BY <1>0, <1>1, <1>2 DEF TypeOK, WorkerStates
<1>4. VersionsInOrder'
  BY <1>0, <1>1 DEF VersionsInOrder, TypeOK
<1>5. CacheBacked' /\ NoOrphanMeter'
  BY <1>0, <1>1 DEF CacheBacked, NoOrphanMeter, Held
<1>6. OnPath' /\ VictimKnown' /\ MeterFirst' /\ ItemChecked'
  BY <1>1 DEF OnPath, VictimKnown, MeterFirst, ItemChecked, EnsureStates, DeletionStates
<1> QED
  BY <1>3, <1>4, <1>5, <1>6 DEF IInv

-----------------------------------------------------------------------------
(* The worker.                                                             *)

LEMMA ReconcileIInv ==
  ASSUME IInv, NEW n \in Names, Reconcile(n)
  PROVE  IInv'
<1>0. TypeOK /\ VersionsInOrder /\ CacheBacked /\ NoOrphanMeter
  BY DEF IInv
<1>1. /\ pc' = ReconcilePath(n) /\ queued' = queued \ {n}
      /\ cur' = IF pc' = "idle" THEN None ELSE n
      /\ md' = IF pc' = "idle" THEN None ELSE cached[n]
      /\ UNCHANGED <<api, version, cached, retry, victim, copy, blind, meters, items, hidden,
                     faults, userSteps>>
  BY DEF Reconcile, amberflo
<1>2. /\ pc' \in {"idle", "addFinalizer", "getMeter", "delGet"}
      /\ pc' # "idle" => cached[n] \in Definition /\ cached[n] # None
      /\ pc' = "getMeter" => cached[n].finalizer /\ ~cached[n].deleting
      /\ pc' = "delGet" => cached[n].deleting
  BY <1>0, <1>1 DEF ReconcilePath, TypeOK
<1>3. pc' # "idle" => cur' = n /\ md' = cached[n]
  BY <1>1
<1>4. TypeOK'
  <2>1. /\ cur' \in Names \cup {None} /\ md' \in Definition \cup {None} /\ pc' \in WorkerStates
        /\ pc' # "idle" => cur' \in Names /\ md' \in Definition
    BY <1>1, <1>2 DEF WorkerStates
  <2> QED
    BY <1>0, <1>1, <1>2, <2>1 DEF TypeOK
<1>5. VersionsInOrder'
  BY <1>0, <1>1, <1>2, <1>3 DEF VersionsInOrder
<1>6. CacheBacked' /\ NoOrphanMeter'
  BY <1>0, <1>1 DEF CacheBacked, NoOrphanMeter, Held
<1>7. OnPath'
  <2>1. pc' = "getMeter" => Held(n)
    BY <1>0, <1>2 DEF CacheBacked
  <2> QED
    BY <1>1, <1>2, <1>3, <2>1 DEF OnPath, EnsureStates, DeletionStates, Held
<1>8. VictimKnown' /\ MeterFirst' /\ ItemChecked'
  BY <1>2 DEF VictimKnown, MeterFirst, ItemChecked
<1> QED
  BY <1>4, <1>5, <1>6, <1>7, <1>8 DEF IInv

\* The worker's own updates of the definition, which end the reconcile.
LEMMA UpdateStep ==
  ASSUME IInv, pc # "idle", Current, NEW d \in Definition \cup {None}, Write(cur, d),
         Return(FALSE), UNCHANGED <<cached, queued, userSteps, faults, amberflo>>,
         \/ d # None /\ d.finalizer
         \/ d = None /\ md.deleting /\ meters[cur] = None
  PROVE  IInv'
<1>0. TypeOK /\ VersionsInOrder /\ CacheBacked /\ NoOrphanMeter /\ cur \in Names /\ md \in Definition
  BY DEF IInv, TypeOK
<1>1. /\ pc' = "idle" /\ cur' = None /\ md' = None /\ victim' = None /\ copy' = None
      /\ blind' = FALSE
      /\ retry' = retry /\ meters' = meters /\ items' = items /\ hidden' = hidden
  BY DEF Return, amberflo
<1>2. cached[cur] = md
  BY <1>0 DEF VersionsInOrder, Current
<1>3. \A m \in Names : m # cur => (Held(m) <=> Held(m)')
  BY <1>0, WriteFields DEF Held
<1>4. d # None => \A m \in Names : m = cur => Held(m)'
  BY <1>0, WriteFields DEF Held
<1>5. TypeOK'
  BY <1>0, <1>1, WriteFields DEF TypeOK, WorkerStates
<1>6. VersionsInOrder'
  BY <1>0, <1>1, WriteKeepsOrder
<1>7. CacheBacked'
  BY <1>0, <1>2, <1>3, <1>4 DEF CacheBacked
<1>8. NoOrphanMeter'
  <2>1. NoOrphanMeter <=> \A m \in Names : meters[m] # None => Held(m)
    BY DEF NoOrphanMeter, Held
  <2>2. \A m \in Names : meters[m] # None => Held(m)'
    BY <1>0, <1>3, <1>4, <2>1
  <2> QED
    BY <1>1, <2>2 DEF NoOrphanMeter, Held
<1>9. OnPath' /\ VictimKnown' /\ MeterFirst' /\ ItemChecked'
  BY <1>1 DEF OnPath, VictimKnown, MeterFirst, ItemChecked, EnsureStates, DeletionStates
<1> QED
  BY <1>5, <1>6, <1>7, <1>8, <1>9 DEF IInv
LEMMA AddFinalizerIInv ==
  ASSUME IInv, AddFinalizer, UNCHANGED <<cached, queued, userSteps>>
  PROVE  IInv'
<1>0. TypeOK /\ pc = "addFinalizer" /\ cur \in Names /\ md \in Definition /\ UNCHANGED amberflo
  BY DEF IInv, TypeOK, AddFinalizer
<1>1. CASE Current /\ Write(cur, [md EXCEPT !.finalizer = TRUE]) /\ Return(FALSE) /\ UNCHANGED faults
  <2> DEFINE d == [md EXCEPT !.finalizer = TRUE]
  <2>1. d \in Definition /\ d.finalizer
    BY <1>0 DEF Definition
  <2>2. Write(cur, d) /\ d # None
    BY <1>1, <2>1, NoneIsNoRecord
  <2> HIDE DEF d
  <2> QED
    BY <1>0, <1>1, <2>1, <2>2, UpdateStep
<1>2. CASE ~Current /\ NoWrite /\ Return(TRUE) /\ UNCHANGED faults
  BY <1>0, <1>2, IdleReturn DEF TypeOK
<1>3. CASE CallFails
  BY <1>0, <1>3, CallFailsStep
<1> QED
  BY <1>1, <1>2, <1>3 DEF AddFinalizer

LEMMA RemoveFinalizerIInv ==
  ASSUME IInv, RemoveFinalizer, UNCHANGED <<cached, queued, userSteps>>
  PROVE  IInv'
<1>0. TypeOK /\ pc = "release" /\ cur \in Names /\ md \in Definition /\ UNCHANGED amberflo
      /\ md.deleting /\ meters[cur] = None
  BY DEF IInv, TypeOK, RemoveFinalizer, OnPath, MeterFirst, DeletionStates
<1>1. CASE Current /\ Write(cur, None) /\ Return(FALSE) /\ UNCHANGED faults
  BY <1>0, <1>1, UpdateStep
<1>2. CASE ~Current /\ NoWrite /\ Return(TRUE) /\ UNCHANGED faults
  BY <1>0, <1>2, IdleReturn DEF TypeOK
<1>3. CASE CallFails
  BY <1>0, <1>3, CallFailsStep
<1> QED
  BY <1>1, <1>2, <1>3 DEF RemoveFinalizer

-----------------------------------------------------------------------------
(* EnsureMeter.                                                            *)

\* What EnsureMeter works with.
LEMMA EnsureFacts ==
  ASSUME IInv, pc \in EnsureStates
  PROVE  /\ TypeOK /\ pc # "idle" /\ cur \in Names /\ md \in Definition /\ ~md.deleting /\ Held(cur)
         /\ label \in MeterLabel /\ disambiguatedMeterLabel \in MeterLabel
<1>1. TypeOK /\ pc # "idle" /\ cur \in Names /\ md \in Definition /\ ~md.deleting /\ Held(cur)
  BY DEF IInv, TypeOK, OnPath, EnsureStates
<1>2. md.label \in Labels
  BY <1>1 DEF Definition
<1>3. label \in MeterLabel /\ disambiguatedMeterLabel \in MeterLabel
  BY <1>1, <1>2 DEF label, disambiguatedMeterLabel, MeterLabel
<1> QED
  BY <1>1, <1>3

\* The next call of EnsureMeter, with nothing changed in Amberflo.
LEMMA EnsureGoto ==
  ASSUME IInv, pc \in EnsureStates, NoWrite, NEW l \in EnsureStates \ {"unlockItem", "pointItem"}, Goto(l),
         UNCHANGED <<cached, queued, userSteps, amberflo>>, faults' \in 0 .. MaxFaults,
         l = "putMeter" => meters[cur] # None, ItemChecked'
  PROVE  IInv'
<1>1. /\ pc' = l /\ cur' = cur /\ md' = md /\ api' = api /\ meters' = meters
  BY DEF Goto, NoWrite, amberflo
<1>2. OnPath'
  BY <1>1, EnsureFacts DEF OnPath, EnsureStates, DeletionStates, Held
<1>3. MeterFirst' /\ l \in WorkerStates /\ l \notin {"deprecate", "delete", "unlockItem", "pointItem"}
  BY <1>1 DEF MeterFirst, EnsureStates, WorkerStates
<1> QED
  BY <1>2, <1>3, EnsureFacts, GotoStep

\* The definition's own meter is set, and EnsureMeter goes on.
LEMMA OwnMeterSet ==
  ASSUME IInv, pc \in EnsureStates, NoWrite, NEW l \in EnsureStates, l # "putMeter", Goto(l),
         NEW m \in Meter, SetMeter(cur, m),
         UNCHANGED <<cached, queued, userSteps>>, faults' \in 0 .. MaxFaults, ItemChecked',
         l \in {"unlockItem", "pointItem"} => copy \in Item /\ itemOf # None
  PROVE  IInv'
<1>0. TypeOK /\ pc # "idle" /\ cur \in Names /\ md \in Definition /\ ~md.deleting /\ Held(cur)
  BY EnsureFacts
<1>1. /\ pc' = l /\ cur' = cur /\ md' = md /\ victim' = victim /\ copy' = copy /\ blind' = blind
      /\ retry' = retry
      /\ api' = api
  BY DEF Goto, NoWrite
<1>2. meters' \in MetersType /\ items' = items /\ hidden' = hidden /\ NoOrphanMeter'
  BY <1>0, <1>1, SetOwnMeter DEF MaySetMeter
<1>3. OnPath'
  BY <1>0, <1>1 DEF OnPath, EnsureStates, DeletionStates, Held
<1>4. MeterFirst' /\ VictimKnown' /\ l \in WorkerStates /\ l \notin {"deprecate", "delete"}
  BY <1>1 DEF MeterFirst, VictimKnown, EnsureStates, WorkerStates
<1>5. /\ blind' \in BOOLEAN /\ victim' \in Names \cup Legacy \cup {None}
      /\ copy' \in Item \cup {None} /\ items' \in ItemsType
      /\ pc' \in {"unlockItem", "pointItem"} => copy' \in Item /\ items'[md.label] \in Item
  <2>1. md.label \in Labels
    BY <1>0 DEF Definition
  <2> QED
    BY <1>0, <1>1, <1>2, <2>1 DEF TypeOK, ItemsType, itemOf
<1> QED
  BY <1>0, <1>1, <1>2, <1>3, <1>4, <1>5, ProceedStep

\* The definition's own meter may be set, and the reconcile ends.
LEMMA OwnMeterReturn ==
  ASSUME IInv, pc \in EnsureStates, NoWrite, NEW again \in BOOLEAN, Return(again),
         NEW m \in Meter, MaySetMeter(cur, m),
         UNCHANGED <<cached, queued, userSteps>>, faults' \in 0 .. MaxFaults
  PROVE  IInv'
<1>0. TypeOK /\ cur \in Names /\ Held(cur) /\ api' = api
  BY EnsureFacts DEF NoWrite
<1>1. meters' \in MetersType /\ items' = items /\ hidden' = hidden /\ NoOrphanMeter'
  BY <1>0, SetOwnMeter
<1>2. items' \in ItemsType
  BY <1>0, <1>1 DEF TypeOK, ItemsType
<1> QED
  BY <1>0, <1>1, <1>2, ReturnStep

LEMMA GetMeterIInv ==
  ASSUME IInv, GetMeter, UNCHANGED <<cached, queued, userSteps>>
  PROVE  IInv'
<1>0. pc = "getMeter" /\ pc \in EnsureStates /\ NoWrite
  BY DEF GetMeter, EnsureStates
<1> DEFINE l == IF meters[cur] = None THEN "postMeter"
                ELSE IF meterNeedsUpdate(meters[cur]) THEN "putMeter" ELSE "adopt"
<1>1. CASE Goto(l) /\ UNCHANGED <<amberflo, faults>>
  <2>1. l \in {"postMeter", "putMeter", "adopt"} /\ (l = "putMeter" => meters[cur] # None)
    OBVIOUS
  <2> HIDE DEF l
  <2>2. ItemChecked'
    BY <1>1, <2>1 DEF Goto, ItemChecked
  <2>3. l \in EnsureStates /\ faults' \in 0 .. MaxFaults
    BY <1>0, <1>1, <2>1, EnsureFacts DEF EnsureStates, TypeOK
  <2> QED
    BY <1>0, <1>1, <2>1, <2>2, <2>3, EnsureGoto
<1>2. CASE CallFails
  BY <1>0, <1>2, EnsureFacts, CallFailsStep
<1> QED
  BY <1>1, <1>2 DEF GetMeter

LEMMA PostMeterIInv ==
  ASSUME IInv, PostMeter, UNCHANGED <<cached, queued, userSteps>>
  PROVE  IInv'
<1>0. pc = "postMeter" /\ pc \in EnsureStates /\ NoWrite
  BY DEF PostMeter, EnsureStates
<1> DEFINE m == [label |-> label, status |-> "active"]
<1>1. m \in Meter
  BY <1>0, EnsureFacts DEF Meter
<1>2. \/ SetMeter(cur, m) /\ Return(FALSE) /\ UNCHANGED faults
      \/ SpendFault /\ SetMeter(cur, m) /\ Goto("getByLabel")
      \/ SpendFault /\ MaySetMeter(cur, m) /\ Return(TRUE)
      \/ CallFails
      \/ Goto("getByLabel") /\ UNCHANGED <<amberflo, faults>>
  BY DEF PostMeter
<1> HIDE DEF m
<1>3. /\ SpendFault \/ UNCHANGED faults => faults' \in 0 .. MaxFaults
      /\ "getByLabel" \in EnsureStates
      /\ Goto("getByLabel") => ItemChecked'
  BY <1>0, EnsureFacts, FaultBound DEF TypeOK, EnsureStates, Goto, ItemChecked
<1>4. CASE MaySetMeter(cur, m) /\ (Return(FALSE) \/ Return(TRUE)) /\ (SpendFault \/ UNCHANGED faults)
  BY <1>0, <1>1, <1>3, <1>4, OwnMeterReturn
<1>5. CASE SpendFault /\ SetMeter(cur, m) /\ Goto("getByLabel")
  BY <1>0, <1>1, <1>3, <1>5, OwnMeterSet
<1>6. CASE CallFails
  BY <1>0, <1>6, EnsureFacts, CallFailsStep
<1>7. CASE Goto("getByLabel") /\ UNCHANGED <<amberflo, faults>>
  BY <1>0, <1>3, <1>7, EnsureGoto
<1> QED
  BY <1>2, <1>4, <1>5, <1>6, <1>7 DEF MaySetMeter

LEMMA PutMeterIInv ==
  ASSUME IInv, PutMeter, UNCHANGED <<cached, queued, userSteps>>
  PROVE  IInv'
<1>0. pc = "putMeter" /\ pc \in EnsureStates /\ NoWrite /\ TypeOK /\ OnPath
  BY DEF PutMeter, EnsureStates, IInv
<1> DEFINE keep == meterLabelAcceptable(meters[cur])
           m == [label |-> IF keep THEN meters[cur].label ELSE label, status |-> "active"]
<1>1. m \in Meter
  <2>1. meters[cur] \in Meter
    BY <1>0, EnsureFacts DEF OnPath, TypeOK
  <2>2. meters[cur].label \in MeterLabel /\ label \in MeterLabel
    BY <1>0, <2>1, EnsureFacts DEF Meter
  <2> QED
    BY <2>2 DEF Meter
<1>2. \/ SetMeter(cur, m) /\ Goto("adopt") /\ UNCHANGED faults
      \/ SpendFault /\ MaySetMeter(cur, m) /\ Return(TRUE)
      \/ Return(TRUE) /\ UNCHANGED <<amberflo, faults>>
  BY DEF PutMeter
<1> HIDE DEF m
<1>3. /\ SpendFault \/ UNCHANGED faults => faults' \in 0 .. MaxFaults
      /\ "adopt" \in EnsureStates
      /\ Goto("adopt") => ItemChecked'
  BY <1>0, FaultBound DEF TypeOK, EnsureStates, Goto, ItemChecked
<1>4. CASE SetMeter(cur, m) /\ Goto("adopt") /\ UNCHANGED faults
  BY <1>0, <1>1, <1>3, <1>4, OwnMeterSet
<1>5. CASE SpendFault /\ MaySetMeter(cur, m) /\ Return(TRUE)
  BY <1>0, <1>1, <1>3, <1>5, OwnMeterReturn
<1>6. CASE Return(TRUE) /\ UNCHANGED <<amberflo, faults>>
  BY <1>0, <1>3, <1>6, EnsureFacts, IdleReturn
<1> QED
  BY <1>2, <1>4, <1>5, <1>6

\* deleteMeterRecord begins, with a leftover or with the definition's own meter.
LEMMA BeginDeleteStep ==
  ASSUME IInv, pc # "idle", pc \notin {"addFinalizer", "deprecate", "delete"},
         NEW x \in Names \cup Legacy, meters[x] # None, BeginDelete(x), NoWrite,
         UNCHANGED <<cached, queued, userSteps, amberflo>>, faults' \in 0 .. MaxFaults,
         x \in Legacy \/ (x = cur /\ md.deleting),
         md.deleting => x = cur \/ meters[cur] = None
  PROVE  IInv'
<1>0. TypeOK /\ OnPath /\ NoOrphanMeter /\ cur \in Names /\ md \in Definition
  BY DEF IInv, TypeOK
<1>1. /\ pc' \in {"deprecate", "delete"} /\ victim' = x
      /\ cur' = cur /\ md' = md /\ copy' = copy /\ blind' = blind /\ retry' = retry
      /\ meters' = meters /\ items' = items /\ hidden' = hidden /\ api' = api
  BY DEF BeginDelete, amberflo, NoWrite
<1>2. OnPath'
  BY <1>0, <1>1 DEF OnPath, EnsureStates, DeletionStates, Held, TypeOK, WorkerStates
<1>3. VictimKnown' /\ MeterFirst' /\ ItemChecked' /\ NoOrphanMeter'
  BY <1>0, <1>1 DEF VictimKnown, MeterFirst, ItemChecked, NoOrphanMeter
<1>4. /\ pc' \in WorkerStates /\ blind' \in BOOLEAN /\ victim' \in Names \cup Legacy \cup {None}
      /\ victim' # None /\ meters'[victim'] # None /\ meters' \in MetersType
      /\ copy' \in Item \cup {None} /\ items' \in ItemsType
  BY <1>0, <1>1, NoneAssumption DEF TypeOK, WorkerStates, MetersType, ItemsType
<1> QED
  BY <1>0, <1>1, <1>2, <1>3, <1>4, ProceedStep

LEMMA GetMeterByLabelIInv ==
  ASSUME IInv, GetMeterByLabel, UNCHANGED <<cached, queued, userSteps>>
  PROVE  IInv'
<1>0. pc = "getByLabel" /\ pc \in EnsureStates /\ NoWrite /\ TypeOK /\ cur \in Names /\ ~md.deleting
  BY EnsureFacts DEF GetMeterByLabel, EnsureStates
<1>1. UNCHANGED faults => faults' \in 0 .. MaxFaults
  BY <1>0 DEF TypeOK
<1>2. CASE UNCHANGED <<amberflo, faults>> /\ Goto("createCheck")
  BY <1>0, <1>1, <1>2, EnsureGoto DEF EnsureStates, Goto, ItemChecked
<1>3. ASSUME NEW x \in Holders(label), UNCHANGED <<amberflo, faults>>,
             IF x = cur THEN Goto("putMeter")
             ELSE IF Replaceable(x) THEN BeginDelete(x) ELSE Return(TRUE)
      PROVE  IInv'
  <2>1. x \in Names \cup Legacy /\ meters[x] # None
    BY DEF Holders
  <2>2. CASE x = cur /\ Goto("putMeter")
    BY <1>0, <1>1, <1>3, <2>1, <2>2, EnsureGoto DEF EnsureStates, Goto, ItemChecked
  <2>3. CASE Replaceable(x) /\ BeginDelete(x)
    BY <1>0, <1>1, <1>3, <2>1, <2>3, BeginDeleteStep DEF Replaceable
  <2>4. CASE Return(TRUE)
    BY <1>0, <1>1, <1>3, <2>4, IdleReturn
  <2> QED
    BY <1>3, <2>2, <2>3, <2>4
<1>4. CASE CallFails
  BY <1>0, <1>4, CallFailsStep
<1> QED
  BY <1>2, <1>3, <1>4 DEF GetMeterByLabel
-----------------------------------------------------------------------------
(* deleteMeterRecord.                                                      *)

\* What deleteMeterRecord works with.
LEMMA VictimFacts ==
  ASSUME IInv, pc \in {"deprecate", "delete"}
  PROVE  /\ TypeOK /\ cur \in Names /\ md \in Definition
         /\ victim \in Names \cup Legacy /\ meters[victim] \in Meter
         /\ victim \in Names => victim = cur
         /\ victim \in Legacy \/ (victim = cur /\ md.deleting)
         /\ md.deleting => victim = cur \/ meters[cur] = None
         /\ ~md.deleting => Held(cur)
<1>1. TypeOK /\ VictimKnown /\ OnPath /\ cur \in Names /\ md \in Definition
  BY DEF IInv, TypeOK
<1>2. /\ victim \in Legacy \/ (victim = cur /\ md.deleting)
      /\ md.deleting => victim = cur \/ meters[cur] = None
  BY <1>1 DEF VictimKnown
<1>3. /\ victim \in Names \cup Legacy /\ meters[victim] \in Meter
  BY <1>1, <1>2 DEF TypeOK
<1>4. victim \in Names => victim = cur
  BY <1>2, NamesAssumption
<1>5. ~md.deleting => Held(cur)
  BY <1>1 DEF OnPath
<1> QED
  BY <1>1, <1>2, <1>3, <1>4, <1>5

\* A meter that is there is changed or deleted: no definition gains one.
LEMMA SetVictim ==
  ASSUME IInv, pc \in {"deprecate", "delete"}, NEW m \in Meter \cup {None},
         MaySetMeter(victim, m), api' = api
  PROVE  /\ meters' \in MetersType /\ items' = items /\ hidden' = hidden /\ NoOrphanMeter'
         /\ \A y \in Names \cup Legacy : y # victim => meters'[y] = meters[y]
         /\ SetMeter(victim, m) => meters'[victim] = m
<1>0. TypeOK /\ NoOrphanMeter /\ victim \in Names \cup Legacy /\ meters[victim] # None
  BY VictimFacts, NoneIsNoRecord DEF IInv
<1>1. /\ meters' \in MetersType /\ items' = items /\ hidden' = hidden
      /\ \A y \in Names \cup Legacy : y # victim => meters'[y] = meters[y]
      /\ SetMeter(victim, m) => meters'[victim] = m
  BY <1>0, SetMeterFacts
<1>2. NoOrphanMeter'
  BY <1>0, <1>1 DEF NoOrphanMeter
<1> QED
  BY <1>1, <1>2

\* The call fails, maybe after it was applied.
LEMMA VictimReturn ==
  ASSUME IInv, pc \in {"deprecate", "delete"}, NEW m \in Meter \cup {None}, MaySetMeter(victim, m),
         NoWrite, SpendFault, Return(TRUE), UNCHANGED <<cached, queued, userSteps>>
  PROVE  IInv'
<1>0. TypeOK /\ cur \in Names /\ api' = api
  BY VictimFacts DEF NoWrite
<1>1. meters' \in MetersType /\ items' = items /\ hidden' = hidden /\ NoOrphanMeter'
  BY <1>0, SetVictim
<1>2. items' \in ItemsType
  BY <1>0, <1>1 DEF TypeOK, ItemsType
<1> QED
  BY <1>0, <1>1, <1>2, FaultBound, ReturnStep

LEMMA DeprecateMeterIInv ==
  ASSUME IInv, DeprecateMeter, UNCHANGED <<cached, queued, userSteps>>
  PROVE  IInv'
<1>0. pc = "deprecate" /\ NoWrite /\ TypeOK /\ OnPath /\ cur \in Names /\ api' = api
  BY VictimFacts DEF DeprecateMeter, IInv, NoWrite
<1>1. Deprecated \in Meter
  BY <1>0, VictimFacts DEF Deprecated, Meter
<1>2. CASE SetMeter(victim, Deprecated) /\ Goto("delete") /\ UNCHANGED faults
  <2>1. /\ pc' = "delete" /\ cur' = cur /\ md' = md /\ victim' = victim /\ copy' = copy
        /\ blind' = blind /\ retry' = retry
    BY <1>2 DEF Goto
  <2>2. /\ meters' \in MetersType /\ items' = items /\ hidden' = hidden /\ NoOrphanMeter'
        /\ \A y \in Names \cup Legacy : y # victim => meters'[y] = meters[y]
        /\ meters'[victim] = Deprecated
    BY <1>0, <1>1, <1>2, SetVictim DEF MaySetMeter
  <2>3. OnPath'
    BY <1>0, <2>1 DEF OnPath, EnsureStates, DeletionStates, Held
  <2>4. VictimKnown'
    BY <1>0, <2>1, <2>2, VictimFacts DEF VictimKnown
  <2>5. MeterFirst' /\ ItemChecked' /\ pc' \in WorkerStates
    BY <2>1 DEF MeterFirst, ItemChecked, WorkerStates
  <2>6. /\ blind' \in BOOLEAN /\ victim' \in Names \cup Legacy \cup {None} /\ victim' # None
        /\ faults' \in 0 .. MaxFaults /\ copy' \in Item \cup {None} /\ items' \in ItemsType
    BY <1>0, <1>2, <2>1, <2>2 DEF TypeOK, ItemsType
  <2>7. meters'[victim'] # None
    BY <1>1, <2>1, <2>2, NoneIsNoRecord
  <2> QED
    BY <1>0, <2>1, <2>2, <2>3, <2>4, <2>5, <2>6, <2>7, ProceedStep
<1>3. CASE SpendFault /\ MaySetMeter(victim, Deprecated) /\ Return(TRUE)
  BY <1>0, <1>1, <1>3, VictimReturn
<1> QED
  BY <1>2, <1>3 DEF DeprecateMeter

LEMMA DeleteMeterRecordIInv ==
  ASSUME IInv, DeleteMeterRecord, UNCHANGED <<cached, queued, userSteps>>
  PROVE  IInv'
<1>0. pc = "delete" /\ NoWrite /\ TypeOK /\ OnPath /\ cur \in Names /\ api' = api
  BY VictimFacts DEF DeleteMeterRecord, IInv, NoWrite
<1>1. CASE /\ SetMeter(victim, None) /\ pc' = AfterDelete /\ victim' = None
           /\ UNCHANGED <<cur, md, copy, blind, retry, faults>>
  <2>1. /\ meters' \in MetersType /\ items' = items /\ hidden' = hidden /\ NoOrphanMeter'
        /\ \A y \in Names \cup Legacy : y # victim => meters'[y] = meters[y]
        /\ meters'[victim] = None
    BY <1>0, <1>1, SetVictim DEF MaySetMeter
  <2>2. /\ md.deleting => pc' = "release"
        /\ ~md.deleting => pc' = "createCheck"
    BY <1>1 DEF AfterDelete
  <2>3. md.deleting => meters'[cur] = None
    BY <1>0, <2>1, VictimFacts
  <2>4. OnPath'
    BY <1>0, <1>1, <2>2, VictimFacts DEF OnPath, EnsureStates, DeletionStates, Held
  <2>5. MeterFirst' /\ VictimKnown' /\ ItemChecked'
    BY <1>1, <2>2, <2>3 DEF MeterFirst, VictimKnown, ItemChecked
  <2>6. pc' \in WorkerStates /\ pc' \notin {"deprecate", "delete", "unlockItem", "pointItem"}
    BY <2>2 DEF WorkerStates
  <2>7. /\ blind' \in BOOLEAN /\ faults' \in 0 .. MaxFaults
        /\ copy' \in Item \cup {None} /\ items' \in ItemsType
    BY <1>0, <1>1, <2>1 DEF TypeOK, ItemsType
  <2> QED
    BY <1>0, <1>1, <2>1, <2>4, <2>5, <2>6, <2>7, ProceedStep
<1>2. CASE SpendFault /\ MaySetMeter(victim, None) /\ Return(TRUE)
  BY <1>0, <1>2, VictimReturn
<1> QED
  BY <1>1, <1>2 DEF DeleteMeterRecord

-----------------------------------------------------------------------------
(* Product items.                                                          *)

\* The worker goes on with its copy of the item, checked or not.
LEMMA TakeStep ==
  ASSUME IInv, pc \in {"createCheck", "adopt"}, NoWrite, faults' \in 0 .. MaxFaults,
         NEW l \in {"createPost", "unlockItem", "pointItem"}, NEW unchecked \in BOOLEAN,
         Take(l, unchecked), l # "createPost" => itemOf # None,
         unchecked \/ itemOf = None \/ ~LiveForeign(itemOf),
         UNCHANGED <<amberflo, cached, queued, userSteps>>
  PROVE  IInv'
<1>0. /\ pc \in EnsureStates /\ TypeOK /\ pc # "idle" /\ cur \in Names /\ ~md.deleting /\ Held(cur)
      /\ NoOrphanMeter /\ md.label \in Labels
  BY EnsureFacts DEF EnsureStates, IInv, Definition
<1>1. /\ meters' = meters /\ items' = items /\ hidden' = hidden /\ api' = api
      /\ pc' = l /\ copy' = itemOf /\ blind' = unchecked /\ UNCHANGED <<cur, md, victim, retry>>
  BY DEF amberflo, NoWrite, Take
<1>2. OnPath'
  BY <1>0, <1>1 DEF OnPath, EnsureStates, DeletionStates, Held
<1>3. MeterFirst' /\ VictimKnown' /\ NoOrphanMeter'
  BY <1>0, <1>1 DEF MeterFirst, VictimKnown, NoOrphanMeter
<1>4. ItemChecked'
  BY <1>1 DEF ItemChecked, itemOf, LiveForeign
<1>5. /\ pc' \in WorkerStates /\ pc' \notin {"deprecate", "delete"} /\ meters' \in MetersType
      /\ victim' \in Names \cup Legacy \cup {None} /\ items' \in ItemsType
      /\ copy' \in Item \cup {None}
      /\ pc' \in {"unlockItem", "pointItem"} => copy' \in Item /\ items'[md.label] \in Item
  BY <1>0, <1>1 DEF WorkerStates, TypeOK, MetersType, ItemsType, itemOf
<1> QED
  BY <1>0, <1>1, <1>2, <1>3, <1>4, <1>5, ProceedStep

LEMMA CreateCheckIInv ==
  ASSUME IInv, CreateCheck, UNCHANGED <<cached, queued, userSteps>>
  PROVE  IInv'
<1>0. pc = "createCheck" /\ pc \in EnsureStates /\ NoWrite /\ UNCHANGED amberflo
      /\ TypeOK /\ cur \in Names
  BY EnsureFacts DEF CreateCheck, EnsureStates
<1>1. SpendFault \/ UNCHANGED faults => faults' \in 0 .. MaxFaults
  BY <1>0, FaultBound DEF TypeOK
<1>2. CASE Return(TRUE) /\ UNCHANGED faults
  BY <1>0, <1>1, <1>2, IdleReturn
<1>3. CASE ~(itemOf # None /\ LiveForeign(itemOf)) /\ Take("createPost", FALSE) /\ UNCHANGED faults
  BY <1>0, <1>1, <1>3, TakeStep
<1>4. CASE BlindCheck /\ Take("createPost", TRUE)
  BY <1>0, <1>1, <1>4, TakeStep DEF BlindCheck
<1>5. CASE CallFails
  BY <1>0, <1>5, CallFailsStep
<1> QED
  BY <1>2, <1>3, <1>4, <1>5 DEF CreateCheck

LEMMA CreatePostIInv ==
  ASSUME IInv, CreatePost, UNCHANGED <<cached, queued, userSteps>>
  PROVE  IInv'
<1>0. pc = "createPost" /\ pc \in EnsureStates /\ NoWrite /\ TypeOK /\ cur \in Names /\ Held(cur)
      /\ ItemChecked /\ api' = api
  BY EnsureFacts DEF CreatePost, EnsureStates, IInv, NoWrite
<1> DEFINE m == [label |-> disambiguatedMeterLabel, status |-> "active"]
<1>1. m \in Meter
  BY <1>0, EnsureFacts DEF Meter
<1>2. \/ SetMeter(cur, m) /\ Return(FALSE) /\ UNCHANGED faults
      \/ /\ SetMeter(cur, m) /\ copy # None /\ UNCHANGED faults
         /\ \E l \in {"unlockItem", "pointItem"} : Goto(l)
      \/ SpendFault /\ MaySetMeter(cur, m) /\ Return(TRUE)
  BY DEF CreatePost, Pointing
<1> HIDE DEF m
<1>3. SpendFault \/ UNCHANGED faults => faults' \in 0 .. MaxFaults
  BY <1>0, FaultBound DEF TypeOK
<1>4. CASE MaySetMeter(cur, m) /\ (Return(FALSE) \/ Return(TRUE)) /\ (SpendFault \/ UNCHANGED faults)
  BY <1>0, <1>1, <1>3, <1>4, OwnMeterReturn
<1>5. ASSUME NEW l \in {"unlockItem", "pointItem"}, Goto(l),
             SetMeter(cur, m), copy # None, UNCHANGED faults
      PROVE  IInv'
  <2>1. \A y \in Names \cup Legacy : y # cur => meters'[y] = meters[y]
    BY <1>0, <1>1, <1>5, SetOwnMeter DEF MaySetMeter
  <2>2. cur' = cur /\ md' = md /\ blind' = blind /\ copy' = copy /\ pc' = l
    BY <1>5 DEF Goto
  <2>3. ItemChecked'
    BY <1>0, <1>5, <2>1, <2>2 DEF ItemChecked, LiveForeign
  <2>4. copy \in Item /\ itemOf # None
    BY <1>0, <1>5 DEF ItemChecked, TypeOK
  <2>5. l \in EnsureStates /\ l # "putMeter"
    BY DEF EnsureStates
  <2> QED
    BY <1>0, <1>1, <1>3, <1>5, <2>3, <2>4, <2>5, OwnMeterSet
<1> QED
  BY <1>2, <1>4, <1>5 DEF MaySetMeter

LEMMA AdoptOrphanItemIInv ==
  ASSUME IInv, AdoptOrphanItem, UNCHANGED <<cached, queued, userSteps>>
  PROVE  IInv'
<1>0. pc = "adopt" /\ pc \in EnsureStates /\ NoWrite /\ UNCHANGED amberflo
      /\ TypeOK /\ cur \in Names
  BY EnsureFacts DEF AdoptOrphanItem, EnsureStates
<1>1. SpendFault \/ UNCHANGED faults => faults' \in 0 .. MaxFaults
  BY <1>0, FaultBound DEF TypeOK
<1>2. CASE Return(FALSE) /\ (SpendFault \/ UNCHANGED faults)
  BY <1>0, <1>1, <1>2, IdleReturn
<1> DEFINE l == Pointing(itemOf)
<1>3. CASE /\ itemOf # None /\ ~LiveForeign(itemOf) /\ l # "done"
           /\ Take(l, FALSE) /\ UNCHANGED faults
  <2>1. l \in {"unlockItem", "pointItem"}
    BY <1>3 DEF Pointing
  <2> HIDE DEF l
  <2> QED
    BY <1>0, <1>1, <1>3, <2>1, TakeStep
<1>4. CASE BlindCheck /\ Take(l, TRUE)
  <2>1. l \in {"unlockItem", "pointItem"}
    BY <1>4 DEF Pointing, BlindCheck
  <2> HIDE DEF l
  <2> QED
    BY <1>0, <1>1, <1>4, <2>1, TakeStep DEF BlindCheck
<1>5. CASE CallFails
  BY <1>0, <1>5, CallFailsStep
<1> QED
  BY <1>2, <1>3, <1>4, <1>5 DEF AdoptOrphanItem, BlindCheck

\* What an update of the item writes.
LEMMA SetItemFacts ==
  ASSUME TypeOK, md \in Definition, NEW i \in Item, MaySetItem(i)
  PROVE  /\ meters' = meters /\ hidden' = hidden /\ items' \in ItemsType
         /\ SetItem(i) => items'[md.label] = i
<1>1. md.label \in Labels /\ items \in ItemsType
  BY DEF Definition, TypeOK, ItemsType
<1>2. CASE SetItem(i)
  BY <1>1, <1>2 DEF SetItem, ItemsType
<1>3. CASE UNCHANGED amberflo /\ ~SetItem(i)
  BY <1>1, <1>3 DEF amberflo
<1> QED
  BY <1>2, <1>3 DEF MaySetItem

\* The reconcile ends with an update of the item, or with none.
LEMMA ItemReturn ==
  ASSUME IInv, pc \in EnsureStates, NoWrite, NEW again \in BOOLEAN, Return(again),
         NEW i \in Item, MaySetItem(i),
         UNCHANGED <<cached, queued, userSteps>>, faults' \in 0 .. MaxFaults
  PROVE  IInv'
<1>0. TypeOK /\ NoOrphanMeter /\ cur \in Names /\ md \in Definition /\ api' = api
  BY EnsureFacts DEF IInv, NoWrite
<1>1. meters' = meters /\ hidden' = hidden /\ items' \in ItemsType
  BY <1>0, SetItemFacts
<1>2. meters' \in MetersType /\ NoOrphanMeter'
  BY <1>0, <1>1 DEF TypeOK, MetersType, NoOrphanMeter
<1> QED
  BY <1>0, <1>1, <1>2, ReturnStep

LEMMA UnlockItemIInv ==
  ASSUME IInv, UnlockItem, UNCHANGED <<cached, queued, userSteps>>
  PROVE  IInv'
<1>0. /\ pc = "unlockItem" /\ pc \in EnsureStates /\ NoWrite /\ api' = api /\ TypeOK /\ cur \in Names
      /\ md \in Definition /\ ~md.deleting /\ Held(cur) /\ NoOrphanMeter /\ ItemChecked
  BY EnsureFacts DEF UnlockItem, EnsureStates, NoWrite, IInv
<1> DEFINE unlocked == [copy EXCEPT !.status = "active"]
<1>1. copy \in Item /\ copy # None /\ unlocked \in Item /\ unlocked.meter = copy.meter
  <2>1. copy \in Item
    BY <1>0 DEF TypeOK
  <2> QED
    BY <2>1, NoneIsNoRecord DEF Item
<1>2. SpendFault \/ UNCHANGED faults => faults' \in 0 .. MaxFaults
  BY <1>0, FaultBound DEF TypeOK
<1>3. \/ /\ SetItem(unlocked) /\ pc' = "pointItem" /\ copy' = unlocked
         /\ UNCHANGED <<cur, md, victim, blind, retry, faults>>
      \/ Return(FALSE) /\ UNCHANGED <<amberflo, faults>>
      \/ SpendFault /\ MaySetItem(unlocked) /\ Return(TRUE)
  BY DEF UnlockItem
<1> HIDE DEF unlocked
<1>4. CASE /\ SetItem(unlocked) /\ pc' = "pointItem" /\ copy' = unlocked
           /\ UNCHANGED <<cur, md, victim, blind, retry, faults>>
  <2>1. meters' = meters /\ hidden' = hidden /\ items' \in ItemsType /\ items'[md.label] = unlocked
    BY <1>0, <1>1, <1>4, SetItemFacts DEF MaySetItem
  <2>2. OnPath'
    BY <1>0, <1>4 DEF OnPath, EnsureStates, DeletionStates, Held
  <2>3. MeterFirst' /\ VictimKnown' /\ NoOrphanMeter'
    BY <1>0, <1>4, <2>1 DEF MeterFirst, VictimKnown, NoOrphanMeter
  <2>4. ItemChecked'
    BY <1>0, <1>1, <1>4, <2>1 DEF ItemChecked, LiveForeign
  <2>5. /\ pc' \in WorkerStates /\ pc' \notin {"deprecate", "delete"} /\ meters' \in MetersType
        /\ victim' \in Names \cup Legacy \cup {None} /\ blind' \in BOOLEAN
    BY <1>0, <1>4, <2>1 DEF WorkerStates, TypeOK, MetersType
  <2> QED
    BY <1>0, <1>1, <1>2, <1>4, <2>1, <2>2, <2>3, <2>4, <2>5, ProceedStep
<1>5. CASE Return(FALSE) /\ UNCHANGED <<amberflo, faults>>
  BY <1>0, <1>2, <1>5, IdleReturn
<1>6. CASE SpendFault /\ MaySetItem(unlocked) /\ Return(TRUE)
  BY <1>0, <1>1, <1>2, <1>6, ItemReturn
<1> QED
  BY <1>3, <1>4, <1>5, <1>6

LEMMA PointItemIInv ==
  ASSUME IInv, PointItem, UNCHANGED <<cached, queued, userSteps>>
  PROVE  IInv'
<1>0. pc = "pointItem" /\ pc \in EnsureStates /\ NoWrite /\ TypeOK /\ cur \in Names
  BY EnsureFacts DEF PointItem, EnsureStates
<1> DEFINE pointed == [copy EXCEPT !.meter = cur]
<1>1. pointed \in Item
  <2>1. copy \in Item
    BY <1>0 DEF TypeOK
  <2> QED
    BY <1>0, <2>1 DEF Item
<1>2. SpendFault \/ UNCHANGED faults => faults' \in 0 .. MaxFaults
  BY <1>0, FaultBound DEF TypeOK
<1>3. \/ MaySetItem(pointed) /\ (Return(FALSE) \/ Return(TRUE)) /\ (SpendFault \/ UNCHANGED faults)
      \/ Return(FALSE) /\ UNCHANGED <<amberflo, faults>>
  BY DEF PointItem, MaySetItem
<1> HIDE DEF pointed
<1>4. CASE MaySetItem(pointed) /\ (Return(FALSE) \/ Return(TRUE)) /\ (SpendFault \/ UNCHANGED faults)
  BY <1>0, <1>1, <1>2, <1>4, ItemReturn
<1>5. CASE Return(FALSE) /\ UNCHANGED <<amberflo, faults>>
  BY <1>0, <1>2, <1>5, IdleReturn
<1> QED
  BY <1>3, <1>4, <1>5

\* The Offer reconciler's writes leave an item where there was one.
LEMMA OfferWritesItemIInv ==
  ASSUME IInv, NEW l \in Labels, OfferWritesItem(l)
  PROVE  IInv'
<1>0. TypeOK /\ VersionsInOrder /\ CacheBacked /\ OnPath /\ VictimKnown /\ MeterFirst
      /\ ItemChecked /\ NoOrphanMeter
  BY DEF IInv
<1>1. /\ pc' = pc /\ cur' = cur /\ md' = md /\ victim' = victim /\ copy' = copy /\ blind' = blind
      /\ UNCHANGED <<api, version, cached, queued, retry, meters, hidden, faults>>
  BY DEF OfferWritesItem, worker
<1>2. \E i \in Item : items' = [items EXCEPT ![l] = i]
  <2>1. PICK n \in Names :
          \/ items' = [items EXCEPT ![l] = [meter |-> n, status |-> "active"]]
          \/ /\ items[l] # None /\ items[l].status = "deprecated"
             /\ items' = [items EXCEPT ![l].status = "active"]
    BY DEF OfferWritesItem
  <2>2. [meter |-> n, status |-> "active"] \in Item
    BY DEF Item
  <2>3. ASSUME items[l] # None
        PROVE  [items[l] EXCEPT !.status = "active"] \in Item
    <3>1. items[l] \in Item
      BY <1>0, <2>3 DEF TypeOK
    <3> QED
      BY <3>1 DEF Item
  <2>4. items \in [Labels -> Item \cup {None}]
    BY <1>0 DEF TypeOK
  <2>5. CASE items' = [items EXCEPT ![l] = [meter |-> n, status |-> "active"]]
    BY <2>2, <2>5
  <2>6. CASE items[l] # None /\ items' = [items EXCEPT ![l].status = "active"]
    BY <2>3, <2>4, <2>6
  <2> QED
    BY <2>1, <2>5, <2>6
<1>3. items' \in ItemsType /\ \A k \in Labels : items[k] # None => items'[k] \in Item
  BY <1>0, <1>2 DEF TypeOK, ItemsType
<1>4. pc # "idle" => md.label \in Labels
  BY <1>0 DEF TypeOK, Definition
<1>5. TypeOK'
  <2>1. userSteps' \in 0 .. MaxUserSteps
    BY <1>0, UserBound DEF OfferWritesItem
  <2>2. pc' \in {"unlockItem", "pointItem"} => copy' \in Item /\ items'[md'.label] \in Item
    BY <1>0, <1>1, <1>3, <1>4, NoneIsNoRecord DEF TypeOK
  <2> QED
    BY <1>0, <1>1, <1>3, <2>1, <2>2 DEF TypeOK, ItemsType
<1>6. VersionsInOrder' /\ CacheBacked' /\ NoOrphanMeter' /\ OnPath' /\ VictimKnown' /\ MeterFirst'
  BY <1>0, <1>1 DEF VersionsInOrder, CacheBacked, NoOrphanMeter, OnPath, VictimKnown, MeterFirst, Held
<1>7. ItemChecked'
  BY <1>0, <1>1, <1>3, <1>4, NoneIsNoRecord DEF ItemChecked, itemOf, LiveForeign
<1> QED
  BY <1>5, <1>6, <1>7 DEF IInv

-----------------------------------------------------------------------------
(* DeleteMeter.                                                            *)

LEMMA DelGetMeterIInv ==
  ASSUME IInv, DelGetMeter, UNCHANGED <<cached, queued, userSteps>>
  PROVE  IInv'
<1>0. pc = "delGet" /\ NoWrite /\ UNCHANGED amberflo /\ TypeOK /\ cur \in Names /\ md.deleting
      /\ api' = api /\ meters' = meters
  BY DEF DelGetMeter, IInv, TypeOK, OnPath, DeletionStates, NoWrite, amberflo
<1>1. UNCHANGED faults => faults' \in 0 .. MaxFaults
  BY <1>0 DEF TypeOK
<1>2. CASE meters[cur] = None /\ Goto("delByLabel") /\ UNCHANGED faults
  <2>1. OnPath' /\ MeterFirst' /\ ItemChecked'
    BY <1>0, <1>2 DEF Goto, OnPath, MeterFirst, ItemChecked, EnsureStates, DeletionStates
  <2> QED
    BY <1>0, <1>1, <1>2, <2>1, GotoStep DEF WorkerStates
<1>3. CASE meters[cur] # None /\ BeginDelete(cur) /\ UNCHANGED faults
  BY <1>0, <1>1, <1>3, BeginDeleteStep
<1>4. CASE CallFails
  BY <1>0, <1>4, CallFailsStep
<1> QED
  BY <1>2, <1>3, <1>4 DEF DelGetMeter

LEMMA DelByLabelIInv ==
  ASSUME IInv, DelByLabel, UNCHANGED <<cached, queued, userSteps>>
  PROVE  IInv'
<1>0. pc = "delByLabel" /\ NoWrite /\ UNCHANGED amberflo /\ TypeOK /\ cur \in Names /\ md.deleting
      /\ meters[cur] = None /\ api' = api /\ meters' = meters
  BY DEF DelByLabel, IInv, TypeOK, OnPath, MeterFirst, DeletionStates, NoWrite, amberflo
<1>1. UNCHANGED faults => faults' \in 0 .. MaxFaults
  BY <1>0 DEF TypeOK
<1>2. CASE Goto("release") /\ UNCHANGED faults
  <2>1. OnPath' /\ MeterFirst' /\ ItemChecked'
    BY <1>0, <1>2 DEF Goto, OnPath, MeterFirst, ItemChecked, EnsureStates, DeletionStates
  <2> QED
    BY <1>0, <1>1, <1>2, <2>1, GotoStep DEF WorkerStates
<1>3. ASSUME NEW x \in Holders(label), Replaceable(x), BeginDelete(x), UNCHANGED faults
      PROVE  IInv'
  BY <1>0, <1>1, <1>3, BeginDeleteStep DEF Holders, Replaceable
<1>4. CASE CallFails
  BY <1>0, <1>4, CallFailsStep
<1> QED
  BY <1>2, <1>3, <1>4 DEF DelByLabel

-----------------------------------------------------------------------------
(* The theorems.                                                           *)

LEMMA NextIInv == IInv /\ [Next]_vars => IInv'
<1> SUFFICES ASSUME IInv, [Next]_vars PROVE IInv'
  OBVIOUS
<1>0. TypeOK
  BY DEF IInv
<1>1. CASE UNCHANGED vars
  BY <1>0, <1>1, DeliveryIInv DEF vars, worker, amberflo, TypeOK
<1>2. ASSUME NEW n \in Names, CreateDefinition(n) \/ ChangeLabel(n) \/ DeleteDefinition(n)
      PROVE  IInv'
  BY <1>2, CreateDefinitionIInv, ChangeLabelIInv, DeleteDefinitionIInv
<1>3. ASSUME NEW n \in Names, Observe(n)
      PROVE  IInv'
  <2>1. /\ cached' = [cached EXCEPT ![n] = api[n]] /\ queued' = queued \cup {n}
        /\ UNCHANGED <<api, version, retry, worker, amberflo, faults, userSteps>>
    BY <1>3 DEF Observe
  <2>2. /\ cached' \in [Names -> Definition \cup {None}]
        /\ \A m \in Names : cached'[m] \in {cached[m], api[m]}
        /\ queued' \subseteq Names /\ retry' \subseteq Names
    BY <1>0, <2>1 DEF TypeOK
  <2> QED
    BY <2>1, <2>2, DeliveryIInv
<1>4. ASSUME NEW n \in Names, RetryElapses(n)
      PROVE  IInv'
  <2>1. queued' \subseteq Names /\ retry' \subseteq Names /\ cached' = cached
    BY <1>0, <1>4 DEF RetryElapses, TypeOK
  <2> QED
    BY <1>0, <1>4, <2>1, DeliveryIInv DEF RetryElapses, TypeOK
<1>5. ASSUME NEW n \in Names, Reconcile(n)
      PROVE  IInv'
  BY <1>5, ReconcileIInv
<1>6. CASE Restart
  BY <1>6, RestartIInv
<1>8. ASSUME NEW l \in Labels, OfferWritesItem(l)
      PROVE  IInv'
  BY <1>8, OfferWritesItemIInv
<1>7. CASE Work
  BY <1>7, AddFinalizerIInv, GetMeterIInv, PostMeterIInv, PutMeterIInv, GetMeterByLabelIInv,
     DeprecateMeterIInv, DeleteMeterRecordIInv, CreateCheckIInv, CreatePostIInv,
     AdoptOrphanItemIInv, UnlockItemIInv, PointItemIInv, DelGetMeterIInv, DelByLabelIInv, RemoveFinalizerIInv
     DEF Work
<1> QED
  BY <1>1, <1>2, <1>3, <1>4, <1>5, <1>6, <1>7, <1>8 DEF Next

\* The invariant is inductive.
THEOREM Invariant == Spec => []IInv
<1>1. Init => IInv
  BY InitIInv
<1>2. IInv /\ [Next]_vars => IInv'
  BY NextIInv
<1> QED
  BY <1>1, <1>2, PTL DEF Spec

\* Every variable keeps its type; in particular deleteMeterRecord is only
\* reached with a meter that exists.
THEOREM TypeCorrect == Spec => []TypeOK
<1>1. IInv => TypeOK
  BY DEF IInv
<1> QED
  BY <1>1, Invariant, PTL

\* The finalizer is there before EnsureMeter creates the meter and goes after
\* DeleteMeter has seen it gone: no meter outlives its definition, whatever
\* fails and however late the informer is.
THEOREM NoOrphan == Spec => []NoOrphanMeter
<1>1. IInv => NoOrphanMeter
  BY DEF IInv
<1> QED
  BY <1>1, Invariant, PTL

\* A step changes at most one meter: that of the definition the worker is on,
\* or a leftover.
LEMMA MetersStep ==
  ASSUME IInv, Next, NEW n \in Names, meters[n] # None, meters'[n] # meters[n]
  PROVE  cur = n
<1>0. TypeOK
  BY DEF IInv
<1>1. ASSUME NEW x \in Names \cup Legacy, NEW m, MaySetMeter(x, m), x \in Names => x = cur
      PROVE  cur = n
  BY <1>0, <1>1 DEF MaySetMeter, SetMeter, amberflo, TypeOK
<1>2. CASE UNCHANGED meters
  BY <1>2
<1>3. CASE PostMeter \/ PutMeter \/ CreatePost
  <2>1. pc # "idle" /\ cur \in Names
    BY <1>0, <1>3 DEF TypeOK, PostMeter, PutMeter, CreatePost
  <2>2. CASE PostMeter
    BY <1>1, <1>2, <2>1, <2>2 DEF PostMeter, MaySetMeter, CallFails, amberflo
  <2>3. CASE PutMeter
    BY <1>1, <1>2, <2>1, <2>3 DEF PutMeter, MaySetMeter, amberflo
  <2>4. CASE CreatePost
    BY <1>1, <1>2, <2>1, <2>4 DEF CreatePost, MaySetMeter
  <2> QED
    BY <1>3, <2>2, <2>3, <2>4
<1>4. CASE DeprecateMeter \/ DeleteMeterRecord
  <2>1. victim \in Names \cup Legacy /\ (victim \in Names => victim = cur)
    BY <1>4, VictimFacts DEF DeprecateMeter, DeleteMeterRecord
  <2>2. \E m : MaySetMeter(victim, m)
    BY <1>4 DEF DeprecateMeter, DeleteMeterRecord, MaySetMeter
  <2> QED
    BY <1>1, <2>1, <2>2
<1>5. CASE AddFinalizer \/ RemoveFinalizer \/ GetMeter \/ GetMeterByLabel \/ CreateCheck
           \/ AdoptOrphanItem \/ UnlockItem \/ PointItem \/ DelGetMeter \/ DelByLabel \/ Restart
  BY <1>2, <1>5 DEF AddFinalizer, RemoveFinalizer, GetMeter, GetMeterByLabel, CreateCheck,
     AdoptOrphanItem, UnlockItem, PointItem, DelGetMeter, DelByLabel, Restart, CallFails,
     SetItem, MaySetItem, amberflo
<1>6. ASSUME NEW k \in Names, \/ CreateDefinition(k) \/ ChangeLabel(k) \/ DeleteDefinition(k)
                              \/ Observe(k) \/ RetryElapses(k) \/ Reconcile(k)
      PROVE  cur = n
  BY <1>2, <1>6 DEF CreateDefinition, ChangeLabel, DeleteDefinition, Observe, RetryElapses,
     Reconcile, amberflo
<1>7. ASSUME NEW l \in Labels, OfferWritesItem(l)
      PROVE  cur = n
  BY <1>2, <1>7 DEF OfferWritesItem
<1> QED
  BY <1>3, <1>4, <1>5, <1>6, <1>7 DEF Next, Work

\* A reconcile changes and deletes no meter of another definition, whichever
\* labels definitions and leftovers share: only a leftover is replaced.
THEOREM ForeignMetersKept == Spec => MetersKept
<1>1. IInv /\ [Next]_vars =>
        [\A n \in Names : meters[n] # None /\ meters'[n] # meters[n] => cur = n]_vars
  <2> SUFFICES ASSUME IInv, Next, NEW n \in Names, meters[n] # None, meters'[n] # meters[n]
               PROVE  cur = n
    OBVIOUS
  <2> QED
    BY MetersStep
<1> QED
  BY <1>1, Invariant, PTL DEF Spec, MetersKept

\* The worker changes an item only to unlock it and to point it at its meter,
\* and an item that is still what it read is not a live foreign one.
LEMMA ItemsStep ==
  ASSUME IInv, Next, NEW l \in Labels, items[l] # None, items'[l].meter # items[l].meter, pc' # pc
  PROVE  \/ blind \/ items[l].meter \notin Names \ {cur} \/ meters[items[l].meter] = None
         \/ items[l] # copy
<1>0. TypeOK /\ ItemChecked
  BY DEF IInv
<1>1. CASE UNCHANGED items
  BY <1>1
<1>2. CASE UnlockItem \/ PointItem
  <2>1. pc \in {"unlockItem", "pointItem"} /\ copy # None
    BY <1>0, <1>2, NoneIsNoRecord DEF UnlockItem, PointItem, TypeOK
  <2>2. ~blind => ~LiveForeign(copy)
    BY <1>0, <2>1 DEF ItemChecked
  <2> QED
    BY <2>2 DEF LiveForeign
<1>3. CASE PostMeter \/ PutMeter \/ CreatePost \/ DeprecateMeter \/ DeleteMeterRecord
  BY <1>1, <1>3 DEF PostMeter, PutMeter, CreatePost, DeprecateMeter, DeleteMeterRecord,
     MaySetMeter, SetMeter, CallFails, amberflo
<1>4. CASE AddFinalizer \/ RemoveFinalizer \/ GetMeter \/ GetMeterByLabel \/ CreateCheck
           \/ AdoptOrphanItem \/ DelGetMeter \/ DelByLabel \/ Restart
  BY <1>1, <1>4 DEF AddFinalizer, RemoveFinalizer, GetMeter, GetMeterByLabel, CreateCheck,
     AdoptOrphanItem, DelGetMeter, DelByLabel, Restart, CallFails, amberflo
<1>5. ASSUME NEW k \in Names, \/ CreateDefinition(k) \/ ChangeLabel(k) \/ DeleteDefinition(k)
                              \/ Observe(k) \/ RetryElapses(k) \/ Reconcile(k)
      PROVE  items' = items
  BY <1>5 DEF CreateDefinition, ChangeLabel, DeleteDefinition, Observe, RetryElapses,
     Reconcile, amberflo
<1>6. ASSUME NEW k \in Labels, OfferWritesItem(k)
      PROVE  FALSE
  BY <1>6 DEF OfferWritesItem, worker
<1> QED
  BY <1>1, <1>2, <1>3, <1>4, <1>5, <1>6 DEF Next, Work

\* Beside an Offer reconciler that may retarget any item at any moment, a
\* reconcile takes no product item off the live meter of another definition that
\* it has looked at: the check, the POST of the meter and the two updates are
\* calls of their own, and what breaks the promise is a check refused for good
\* or an item that is no longer what was read.
THEOREM ForeignItemsKept == Spec => ItemsKept
<1>1. IInv /\ [Next]_vars =>
        [\A l \in Labels :
           items[l] # None /\ items'[l].meter # items[l].meter /\ pc' # pc =>
             \/ blind
             \/ items[l].meter \notin Names \ {cur}
             \/ meters[items[l].meter] = None
             \/ items[l] # copy]_vars
  <2> SUFFICES ASSUME IInv, Next, NEW l \in Labels,
                      items[l] # None, items'[l].meter # items[l].meter, pc' # pc
               PROVE  \/ blind \/ items[l].meter \notin Names \ {cur}
                      \/ meters[items[l].meter] = None \/ items[l] # copy
    OBVIOUS
  <2> QED
    BY ItemsStep
<1> QED
  BY <1>1, Invariant, PTL DEF Spec, ItemsKept
=============================================================================
