---------------------- MODULE BillingAccountController ----------------------
(***************************************************************************)
(* The BillingAccount reconciler and the Amberflo customer it keeps        *)
(* (internal/controller/billingaccount_controller.go, stripe_customer.go,  *)
(* internal/amberflo/customer.go), for one namespaced name. Accounts with  *)
(* that name may be created and deleted one after the other; each has its  *)
(* own UID, which is its Amberflo customer id.                             *)
(*                                                                         *)
(* The API server, the informer and the work queue are external. The       *)
(* informer delivers the versions of the account in order and late; the    *)
(* queue runs one reconcile of the key at a time and coalesces requests.   *)
(* What an account wants of Amberflo (spec fields and the projects of its  *)
(* Active bindings) is one value `spec`; `stripe` is the Stripe customer   *)
(* id its payment method resolves to, or None while the gate is not met.   *)
(* A payment switch is its target and its time. The time is a period start *)
(* that lies ahead, or Soon, which is `now` plus the skew for a `now` in   *)
(* the current second. A switch scheduled in an earlier second has a time  *)
(* that no reconcile computes again, and is not kept in the list.          *)
(***************************************************************************)
EXTENDS BillingPeriod, Sequences

CONSTANTS
  Uids,                 \* UIDs of the accounts created under the name
  Specs,                \* what an account may ask of its customer
  StripeIds,
  Dates,                \* days around which payment switches are scheduled
  None,
  AllowCustomerDelete,  \* the reconciler's AllowCustomerDelete option
  MaxFaults,            \* bound on failed calls and crashes
  MaxUserSteps          \* bound on what users do to the account

ASSUME NoneAssumption == None \notin StripeIds
ASSUME DatesAssumption ==
  /\ Dates \subseteq Nat \X (1 .. 12) \X (1 .. 31)
  /\ \A t \in Dates : t[1] > 0 /\ t[3] <= DaysIn(t[1], t[2])
ASSUME OptionAssumption == AllowCustomerDelete \in BOOLEAN
ASSUME BoundsAssumption == MaxFaults \in Nat /\ MaxUserSteps \in Nat

VARIABLES
  api,        \* the account at the API server, or None
  used,       \* UIDs given out so far
  feed,       \* versions the informer has yet to deliver
  cached,     \* the informer's version
  queued,     \* the key is in the work queue
  retry,      \* the key will be added after a delay
  pc,         \* where the worker is in Reconcile
  acct,       \* the version Reconcile got from the cache
  want,       \* the Stripe id of the desired customer
  existing,   \* the customer DisableCustomer's GET returned
  customers,  \* Amberflo's customers by id
  at,         \* the time of the switch Reconcile is about to schedule
  switches,   \* the payment switches Amberflo lists for each customer
  chargedTo,  \* the Stripe id each customer is charged through
  ahead,      \* the period starts that have not come
  wedged,     \* the last reconcile ended on a permanent error
  forced,     \* UIDs released by a force-delete whose disable call failed
  faults, userSteps

vars == <<api, used, feed, cached, queued, retry, pc, acct, want, existing,
          customers, at, switches, chargedTo, ahead, wedged, forced, faults,
          userSteps>>

payments == <<switches, chargedTo, ahead>>

Account == [uid : Uids, spec : Specs, stripe : StripeIds \cup {None},
            finalizer : BOOLEAN, deleting : BOOLEAN, force : BOOLEAN]
Customer == [spec : Specs, stripe : StripeIds \cup {None}, enabled : BOOLEAN]

\* The period starts that a switch can be scheduled for, by a reconcile on one
\* of the dates and with any invoice day.
PeriodStarts == {switchTimeUnix(t, d) : t \in Dates, d \in 0 .. 31} \ {Soon}
Switch == StripeIds \X (PeriodStarts \cup {Soon})

ASSUME NoneIsNoRecord == None \notin Account \cup Customer \cup PeriodStarts \cup {Soon}

WorkerStates == {"idle", "addFinalizer", "preserve", "ensureGet", "ensurePut",
                 "listSwitches", "postSwitch", "invoices",
                 "disableGet", "disablePut", "release"}

PaymentsOK ==
  /\ switches \in [Uids -> SUBSET Switch]
  /\ chargedTo \in [Uids -> StripeIds \cup {None}]
  /\ ahead \subseteq PeriodStarts

TypeOK ==
  /\ api \in Account \cup {None}
  /\ used \subseteq Uids
  /\ feed \in Seq(Account \cup {None})
  /\ cached \in Account \cup {None}
  /\ queued \in BOOLEAN /\ retry \in BOOLEAN
  /\ pc \in WorkerStates
  /\ acct \in Account \cup {None} /\ (pc # "idle" => acct \in Account)
  /\ want \in StripeIds \cup {None}
  /\ existing \in Customer \cup {None} /\ (pc = "disablePut" => existing \in Customer)
  /\ customers \in [Uids -> Customer \cup {None}]
  /\ at \in PeriodStarts \cup {Soon, None}
  /\ (pc = "postSwitch") = (at # None)
  /\ pc \in {"listSwitches", "postSwitch"} => acct.stripe # None
  /\ PaymentsOK
  /\ wedged \in BOOLEAN
  /\ forced \subseteq Uids
  /\ faults \in 0 .. MaxFaults
  /\ userSteps \in 0 .. MaxUserSteps

Init ==
  /\ api = None /\ used = {} /\ feed = <<>> /\ cached = None
  /\ queued = FALSE /\ retry = FALSE
  /\ pc = "idle" /\ acct = None /\ want = None /\ existing = None
  /\ customers = [u \in Uids |-> None]
  /\ at = None /\ switches = [u \in Uids |-> {}]
  /\ chargedTo = [u \in Uids |-> None] /\ ahead = PeriodStarts
  /\ wedged = FALSE /\ forced = {}
  /\ faults = 0 /\ userSteps = 0

-----------------------------------------------------------------------------
(* The API server and its users.                                           *)

worker == <<queued, retry, pc, acct, want, existing, customers, at, payments,
            wedged, forced>>

SpendFault == faults < MaxFaults /\ faults' = faults + 1
SpendUserStep == userSteps < MaxUserSteps /\ userSteps' = userSteps + 1

\* A write makes a new version, which the informer will deliver.
Write(a) == api' = a /\ feed' = Append(feed, a)
NoWrite == UNCHANGED <<api, feed>>

\* UIDs are given out in some order.
NextUid == CHOOSE u \in Uids \ used : TRUE

CreateAccount ==
  /\ api = None /\ SpendUserStep /\ Uids \ used # {}
  /\ used' = used \cup {NextUid}
  /\ \E s \in Specs :
       Write([uid |-> NextUid, spec |-> s, stripe |-> None, finalizer |-> FALSE,
                 deleting |-> FALSE, force |-> FALSE])
  /\ UNCHANGED <<cached, faults, worker>>

\* Users, the binding controller and the Stripe provider change what the
\* account resolves to. Of an account that is being deleted only the
\* force-delete annotation is read, and of another one it is not.
EditAccount ==
  /\ api # None /\ SpendUserStep
  /\ IF api.deleting THEN ~api.force /\ Write([api EXCEPT !.force = TRUE])
     ELSE \/ \E s \in Specs : s # api.spec /\ Write([api EXCEPT !.spec = s])
          \/ \E i \in StripeIds \cup {None} : i # api.stripe /\ Write([api EXCEPT !.stripe = i])
  /\ UNCHANGED <<used, cached, faults, worker>>

\* Deletion of an object with a finalizer only marks it.
DeleteAccount ==
  /\ api # None /\ ~api.deleting /\ SpendUserStep
  /\ Write(IF api.finalizer THEN [api EXCEPT !.deleting = TRUE] ELSE None)
  /\ UNCHANGED <<used, cached, faults, worker>>

\* The informer delivers the next version and the watch enqueues the key.
Observe ==
  /\ feed # <<>>
  /\ cached' = Head(feed) /\ feed' = Tail(feed)
  /\ queued' = TRUE
  /\ UNCHANGED <<api, used, retry, pc, acct, want, existing, customers, at,
                 payments, wedged, forced, faults, userSteps>>

\* The periodic resync of the informer enqueues the key of what it holds. Its
\* period of hours is taken to be long against everything else.
Resync ==
  /\ cached # None /\ feed = <<>> /\ pc = "idle" /\ ~retry
  /\ ~queued /\ queued' = TRUE
  /\ UNCHANGED <<api, used, feed, cached, retry, pc, acct, want, existing, customers,
                 at, payments, wedged, forced, faults, userSteps>>

\* RequeueAfter, or the rate limiter after an error, adds the key again. The
\* queue does not hand out a key that is being reconciled.
RetryElapses ==
  /\ retry /\ pc = "idle" /\ retry' = FALSE /\ queued' = TRUE
  /\ UNCHANGED <<api, used, feed, cached, pc, acct, want, existing, customers,
                 at, payments, wedged, forced, faults, userSteps>>

\* The process dies; its successor lists the account afresh.
Restart ==
  /\ SpendFault
  /\ cached' = api /\ feed' = <<>>
  /\ queued' = (api # None) /\ retry' = FALSE
  /\ pc' = "idle" /\ acct' = None /\ want' = None /\ existing' = None
  /\ at' = None
  /\ UNCHANGED <<api, used, customers, payments, wedged, forced, userSteps>>

\* The switches whose time t has come take effect. Which of several with the
\* same time Amberflo takes last is left open.
TakeEffect(t) ==
  /\ chargedTo' \in [Uids -> StripeIds \cup {None}]
  /\ \A u \in Uids :
       LET due == {i \in StripeIds : <<i, t>> \in switches[u]}
       IN chargedTo'[u] \in IF due = {} THEN {chargedTo[u]} ELSE due

\* The next second begins, and the switches of this one take effect after the
\* skew. That of a running reconcile is taken to end after it: until the next
\* one nothing reads the clock.
SecondPasses ==
  /\ pc = "idle"
  /\ \E u \in Uids, i \in StripeIds : <<i, Soon>> \in switches[u]
  /\ switches' = [u \in Uids |-> {w \in switches[u] : w[2] # Soon}]
  /\ TakeEffect(Soon)
  /\ UNCHANGED <<api, used, feed, cached, queued, retry, pc, acct, want, existing,
                 customers, at, ahead, wedged, forced, faults, userSteps>>

\* The first period start that lay ahead comes, between reconciles or when one
\* has computed its switch time.
PeriodStartPasses ==
  (pc = "idle" \/ at # None) /\ \E t \in ahead :
    /\ \A s \in ahead : ~Before(s, t)
    /\ ahead' = ahead \ {t} /\ TakeEffect(t)
    /\ UNCHANGED <<api, used, feed, cached, queued, retry, pc, acct, want, existing,
                   customers, at, switches, wedged, forced, faults, userSteps>>

-----------------------------------------------------------------------------
(* The worker.                                                             *)

environment == <<used, cached, userSteps>>

\* Reconcile returns: done, or with a request to be run again later.
Return(again) ==
  /\ pc' = "idle" /\ acct' = None /\ want' = None /\ existing' = None /\ at' = None
  /\ retry' = (retry \/ again)

Done == Return(FALSE) /\ UNCHANGED wedged

\* Variant: no error is requeued.
StopOnAnyError ==
  \/ Return(FALSE) /\ wedged' = TRUE
  \/ Return(FALSE) /\ UNCHANGED wedged

\* handleAmberfloError: a permanent error stops, any other is requeued.
handleAmberfloError ==
  \/ Return(FALSE) /\ wedged' = TRUE
  \/ Return(TRUE) /\ UNCHANGED wedged

\* Variant: the customer is touched before the finalizer is attached.
ReconcilePathSkippingFinalizer(a) ==
  IF a = None THEN "idle"
  ELSE IF a.deleting THEN (IF a.finalizer THEN "disableGet" ELSE "idle")
  ELSE IF a.stripe # None THEN "ensureGet" ELSE "preserve"

\* Variant: the Stripe traits of the existing customer are not looked up.
ReconcilePathNotPreserving(a) ==
  IF a = None THEN "idle"
  ELSE IF a.deleting THEN (IF a.finalizer THEN "disableGet" ELSE "idle")
  ELSE IF ~a.finalizer THEN "addFinalizer" ELSE "ensureGet"

\* Variant: an account that is not found is not the end of it.
ReconcilePathIgnoringNotFound(a) ==
  IF a = None THEN "addFinalizer"
  ELSE IF a.deleting THEN (IF a.finalizer THEN "disableGet" ELSE "idle")
  ELSE IF ~a.finalizer THEN "addFinalizer"
  ELSE IF a.stripe # None THEN "ensureGet" ELSE "preserve"

\* Where Reconcile goes with the version it reads from the cache.
ReconcilePath(a) ==
  IF a = None THEN "idle"
  ELSE IF a.deleting THEN (IF a.finalizer THEN "disableGet" ELSE "idle")
  ELSE IF ~a.finalizer THEN "addFinalizer"
  ELSE IF a.stripe # None THEN "ensureGet" ELSE "preserve"

Reconcile ==
  /\ pc = "idle" /\ queued
  /\ queued' = FALSE
  /\ wedged' = FALSE
  /\ pc' = ReconcilePath(cached)
  /\ acct' = IF pc' = "idle" THEN None ELSE cached
  /\ want' = IF pc' = "ensureGet" THEN cached.stripe ELSE None
  /\ UNCHANGED <<environment, api, feed, retry, existing, customers, at, payments,
                 forced, faults>>

\* Server-side apply by name. An apply to a name with no object would create
\* one without a spec, which the API server rejects.
AddFinalizer ==
  /\ pc = "addFinalizer"
  /\ \/ /\ api # None
        /\ IF api.finalizer THEN NoWrite ELSE Write([api EXCEPT !.finalizer = TRUE])
        /\ Done /\ UNCHANGED faults
     \/ api = None /\ NoWrite /\ Return(TRUE) /\ UNCHANGED <<wedged, faults>>
     \/ SpendFault /\ NoWrite /\ Return(TRUE) /\ UNCHANGED wedged
  /\ UNCHANGED <<environment, queued, customers, payments, forced>>

\* No Stripe id resolves: keep the one the customer already has.
PreserveStripeTraits ==
  /\ pc = "preserve" /\ NoWrite
  /\ \/ /\ want' = IF customers[acct.uid] = None THEN None ELSE customers[acct.uid].stripe
        /\ pc' = "ensureGet"
        /\ UNCHANGED <<acct, existing, at, retry, wedged, faults>>
     \/ SpendFault /\ handleAmberfloError
  /\ UNCHANGED <<environment, queued, customers, payments, forced>>

buildWireCustomer == [spec |-> acct.spec, stripe |-> want, enabled |-> TRUE]

\* With the customer in place, an account that resolves to a Stripe id has its
\* payment switch scheduled.
AfterEnsure ==
  /\ pc' = IF acct.stripe # None THEN "listSwitches" ELSE "invoices"
  /\ want' = None

\* EnsureCustomer's GET and its comparison with the desired customer.
EnsureGet ==
  /\ pc = "ensureGet" /\ NoWrite
  /\ \/ /\ IF customers[acct.uid] = buildWireCustomer THEN AfterEnsure
           ELSE pc' = "ensurePut" /\ UNCHANGED want
        /\ UNCHANGED <<acct, existing, at, retry, wedged, faults>>
     \/ SpendFault /\ handleAmberfloError
  /\ UNCHANGED <<environment, queued, customers, payments, forced>>

\* A POST or PUT of the customer that fails may have been applied.
MayPut(u, c) == customers' = customers \/ customers' = [customers EXCEPT ![u] = c]

EnsurePut ==
  /\ pc = "ensurePut" /\ NoWrite
  /\ \/ /\ customers' = [customers EXCEPT ![acct.uid] = buildWireCustomer]
        /\ AfterEnsure
        /\ UNCHANGED <<acct, existing, at, retry, wedged, faults>>
     \/ SpendFault /\ MayPut(acct.uid, buildWireCustomer) /\ handleAmberfloError
  /\ UNCHANGED <<environment, queued, payments, forced>>

-----------------------------------------------------------------------------
(* scheduleStripePaymentSwitch and syncInvoices.                           *)

\* Done with the switch: the worker goes on with the invoices.
ToInvoices == pc' = "invoices" /\ at' = None /\ UNCHANGED <<acct, want, existing, retry>>

\* A failed call: a permanent error is reported and the reconcile goes on, any
\* other one requeues the account.
SwitchError == ToInvoices \/ Return(TRUE)

\* Variant: a switch to the same Stripe id matches at any time.
MatchingTarget(listed, target, time) == \E t \in PeriodStarts \cup {Soon} : <<target, t>> \in listed

\* A listed switch to the same Stripe id at the same time, whether or not
\* another one at that time was scheduled after it.
HasMatchingPaymentMethodSwitch(listed, target, time) == <<target, time>> \in listed

\* The two reads: ListPaymentSettings, to find the Stripe connection or fall back
\* to the generic one (no Stripe connection and a pinned id is a permanent
\* error), and ListPaymentMethodSwitches. The switch time follows from the clock
\* and the payment terms: a period start ahead, or as soon as allowed.
ListPaymentMethodSwitches ==
  /\ pc = "listSwitches" /\ NoWrite
  /\ \/ /\ \E time \in ahead \cup {Soon} :
             IF HasMatchingPaymentMethodSwitch(switches[acct.uid], acct.stripe, time)
             THEN ToInvoices
             ELSE pc' = "postSwitch" /\ at' = time /\ UNCHANGED <<acct, want, existing, retry>>
        /\ UNCHANGED faults
     \/ SpendFault /\ SwitchError
  /\ UNCHANGED <<environment, queued, customers, payments, wedged, forced>>

Schedule == switches' = [switches EXCEPT ![acct.uid] = @ \cup {<<acct.stripe, at>>}]

\* The POST may be applied and reported as failed. A period start that has come
\* while the lists were retried is refused, which is a permanent error.
SchedulePaymentMethodSwitch ==
  /\ pc = "postSwitch" /\ NoWrite
  /\ \/ at \in ahead \cup {Soon} /\ Schedule /\ ToInvoices /\ UNCHANGED faults
     \/ at \notin ahead \cup {Soon} /\ UNCHANGED switches /\ ToInvoices /\ UNCHANGED faults
     \/ /\ SpendFault /\ SwitchError
        /\ UNCHANGED switches \/ (at \in ahead \cup {Soon} /\ Schedule)
  /\ UNCHANGED <<environment, queued, customers, chargedTo, ahead, wedged, forced>>

\* syncInvoices: the list, and an upsert of each invoice (InvoiceSync). A list
\* that fails for good is skipped, any other failure requeues the account.
SyncInvoices ==
  /\ pc = "invoices" /\ NoWrite
  /\ \/ Return(FALSE) /\ UNCHANGED faults
     \/ SpendFault /\ \E again \in BOOLEAN : Return(again)
  /\ UNCHANGED <<environment, queued, customers, payments, wedged, forced>>

-----------------------------------------------------------------------------
(* reconcileDelete.                                                        *)

\* Variants: a failed disable call releases the finalizer all the same, or is
\* not tried again.
ReleaseOnDisableError ==
  pc' = "release" /\ UNCHANGED <<acct, want, existing, at, retry, forced>>
NoRetryOfDisable == Return(FALSE) /\ UNCHANGED forced

\* DisableCustomer failed: the force-delete path goes on, the other one
\* requeues after 30 seconds or 5 minutes and keeps the finalizer.
DisableError ==
  IF acct.force \/ AllowCustomerDelete
  THEN /\ pc' = "release"
       /\ forced' = forced \cup {acct.uid}
       /\ UNCHANGED <<acct, want, existing, at, retry>>
  ELSE Return(TRUE) /\ UNCHANGED forced

DisableGet ==
  /\ pc = "disableGet" /\ NoWrite
  /\ \/ /\ existing' = customers[acct.uid]
        /\ pc' = IF existing' = None THEN "release" ELSE "disablePut"
        /\ UNCHANGED <<acct, want, at, retry, forced, faults>>
     \/ SpendFault /\ DisableError
  /\ UNCHANGED <<environment, queued, customers, payments, wedged>>

DisabledCustomer == [existing EXCEPT !.enabled = FALSE]

DisablePut ==
  /\ pc = "disablePut" /\ NoWrite
  /\ \/ /\ customers' = [customers EXCEPT ![acct.uid] = DisabledCustomer]
        /\ pc' = "release"
        /\ UNCHANGED <<acct, want, existing, at, retry, forced, faults>>
     \/ SpendFault /\ MayPut(acct.uid, DisabledCustomer) /\ DisableError
  /\ UNCHANGED <<environment, queued, payments, wedged>>

\* What the API server makes of the account without our finalizer.
Released(a) == IF a.deleting THEN None ELSE [a EXCEPT !.finalizer = FALSE]

\* removeFinalizer: server-side apply by name; when it is forbidden because
\* the namespace is terminating, an update that needs the current version.
RemoveFinalizer ==
  /\ pc = "release"
  /\ \/ /\ api # None
        /\ IF api.finalizer THEN Write(Released(api)) ELSE NoWrite
        /\ Done /\ UNCHANGED faults
     \/ api = None /\ NoWrite /\ Return(TRUE) /\ UNCHANGED <<wedged, faults>>
     \/ /\ SpendFault /\ UNCHANGED wedged
        /\ \/ api = acct /\ Write(Released(api)) /\ Return(FALSE)
           \/ NoWrite /\ Return(TRUE)
  /\ UNCHANGED <<environment, queued, customers, payments, forced>>

-----------------------------------------------------------------------------

Work ==
  \/ Reconcile \/ AddFinalizer \/ PreserveStripeTraits \/ EnsureGet \/ EnsurePut
  \/ ListPaymentMethodSwitches \/ SchedulePaymentMethodSwitch
  \/ SyncInvoices \/ DisableGet \/ DisablePut \/ RemoveFinalizer

Next ==
  \/ CreateAccount \/ EditAccount \/ DeleteAccount
  \/ Observe \/ Resync \/ RetryElapses \/ Restart
  \/ SecondPasses \/ PeriodStartPasses
  \/ Work

\* The informer delivers, requeue timers fire, the worker runs and time passes.
\* Nothing obliges users to act or calls to fail. The resync is fair only where
\* a property says so, lest it stand in for a requeue that is missing.
Fairness ==
  /\ WF_vars(Observe) /\ WF_vars(RetryElapses) /\ WF_vars(Work)
  /\ SF_vars(SecondPasses) /\ SF_vars(PeriodStartPasses)

Spec == Init /\ [][Next]_vars
FairSpec == Spec /\ Fairness

-----------------------------------------------------------------------------

\* An enabled customer always has its account, held by the finalizer, unless
\* a force-delete went on after a failed disable: the finalizer comes before
\* the customer and goes after it, whatever the informer has yet to deliver
\* (billingaccount_controller.go:43-44, 167-168).
NoOrphanCustomer ==
  \A u \in Uids :
    customers[u] # None /\ customers[u].enabled =>
      \/ api # None /\ api.uid = u /\ api.finalizer
      \/ u \in forced

\* A customer that has a Stripe id never loses it, while the account's
\* payment method flaps, is edited or lags behind (lines 211-217).
StripeTraitKept ==
  [][\A u \in Uids :
       customers[u] # None /\ customers[u].stripe # None =>
         customers'[u].stripe # None]_vars

\* The customer is what the account asks for.
InSync ==
  api # None /\ ~api.deleting =>
    /\ customers[api.uid] # None
    /\ customers[api.uid].spec = api.spec
    /\ customers[api.uid].enabled
    /\ api.stripe # None => customers[api.uid].stripe = api.stripe

\* Once users and faults rest, the customer ends up as the account asks,
\* unless the last reconcile stopped on a permanent error, and then the resync
\* brings it there (handleAmberfloError, billingaccount_controller.go:218-227).
Converges ==
  /\ <>[](InSync \/ wedged)
  /\ WF_vars(Resync) => <>[]InSync

\* The customer ends up charged through the Stripe id the account resolves to,
\* however its payment method changed, whichever calls failed or were given up
\* for good, and though a switch back within one switch time is taken for the
\* first one and skipped (stripe_customer.go:174-184, payment_switch.go:149-157):
\* a later resync finds another switch time.
ChargedThroughStripe ==
  WF_vars(Resync) =>
    <>[](api # None /\ ~api.deleting /\ api.stripe # None =>
           chargedTo[api.uid] = api.stripe)

\* An account that is being deleted goes away.
DeletionCompletes ==
  \A u \in Uids :
    (api # None /\ api.uid = u /\ api.deleting) ~> ~(api # None /\ api.uid = u)
=============================================================================
