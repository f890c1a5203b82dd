------------------------ MODULE EntitlementController ------------------------
(***************************************************************************)
(* The BillingEntitlement reconciler and the Amberflo customer-plan        *)
(* assignments it keeps (internal/controller/                              *)
(* billingentitlement_controller.go, internal/amberflo/customer_plan.go),  *)
(* for one entitlement name and the customers of the billing accounts that *)
(* exist one after the other under the name it refers to.                  *)
(*                                                                         *)
(* The API server, the informers, the Offer reconciler and Amberflo are    *)
(* external. An offer stands for its UID, the Amberflo product plan id,    *)
(* and an account for its UID, the Amberflo customer id.                   *)
(* The clock is abstract: a cancelled assignment gets an end time 30       *)
(* seconds ahead (customerPlanTimeSkew), so it is "ending" and still       *)
(* Active until the clock passes that time.                                *)
(***************************************************************************)
EXTENDS Naturals, Sequences, FiniteSets

CONSTANTS
  Offers,
  Customers,      \* UIDs of the accounts created under the name
  None,
  MaxFaults,      \* bound on failed calls and crashes
  MaxUserSteps    \* bound on what users do

ASSUME NoneAssumption == None \notin Offers \cup Customers
ASSUME CustomersAssumption == Customers # {}
ASSUME BoundsAssumption == MaxFaults \in Nat /\ MaxUserSteps \in Nat

VARIABLES
  api,          \* the entitlement at the API server, or None
  version,      \* the last resourceVersion given out
  feed,         \* versions the informer has yet to deliver
  cached,       \* the informer's version
  account,      \* the UID of the account created last
  accountThere, \* the informer knows it, and it is not deleted
  spare,        \* UIDs not given out yet
  stage,        \* each offer: not yet GA, GA, its product plan in Amberflo, gone
  queued,       \* the key is in the work queue
  retry,        \* the key will be added after a delay
  pc,           \* where the worker is in Reconcile
  be,           \* the version Reconcile got from the cache
  customer,     \* the customer it resolved
  endedAt,      \* assignments that had ended when EnsureCustomerPlan took now
  match,        \* activeMatch is set
  toCancel,     \* plans the worker has yet to cancel
  assignments,  \* Amberflo's assignments of each customer to each plan
  unrecorded,   \* those made by a reconcile that did not annotate them
  faults, userSteps

vars == <<api, version, feed, cached, account, accountThere, spare, stage, queued, retry,
          pc, be, customer, endedAt, match, toCancel, assignments, unrecorded, faults, userSteps>>

\* last and lastCustomer are the annotations, which are written together.
Entitlement == [rv : Nat, offer : Offers, last : Offers \cup {None},
                lastCustomer : Customers \cup {None},
                finalizer : BOOLEAN, deleting : BOOLEAN]

ASSUME NoneIsNoRecord == None \notin Entitlement

WorkerStates == {"idle", "addFinalizer", "getPlan", "cancelPrev", "ensureList",
                 "cancelStrays", "postPlan", "annotate", "cancelAll", "release"}

TypeOK ==
  /\ api \in Entitlement \cup {None}
  /\ version \in Nat
  /\ feed \in Seq(Entitlement \cup {None})
  /\ cached \in Entitlement \cup {None}
  /\ account \in Customers /\ accountThere \in BOOLEAN /\ spare \subseteq Customers \ {account}
  /\ stage \in [Offers -> {"draft", "ga", "published", "gone"}]
  /\ queued \in BOOLEAN /\ retry \in BOOLEAN
  /\ pc \in WorkerStates
  /\ be \in Entitlement \cup {None} /\ (pc # "idle" => be \in Entitlement)
  /\ customer \in Customers \cup {None}
  /\ pc \notin {"idle", "addFinalizer", "release"} => customer # None
  /\ endedAt \subseteq Offers /\ match \in BOOLEAN /\ toCancel \subseteq Offers
  /\ assignments \in [Customers -> [Offers -> {"none", "open", "ending", "ended"}]]
  /\ unrecorded \subseteq Customers \X Offers
  /\ faults \in 0 .. MaxFaults /\ userSteps \in 0 .. MaxUserSteps

Init ==
  /\ api = None /\ version = 0 /\ feed = <<>> /\ cached = None
  /\ account = (CHOOSE c \in Customers : TRUE) /\ spare = Customers \ {account}
  /\ accountThere = TRUE
  /\ stage = [o \in Offers |-> "draft"]
  /\ queued = FALSE /\ retry = FALSE
  /\ pc = "idle" /\ be = None /\ customer = None
  /\ endedAt = {} /\ match = FALSE /\ toCancel = {}
  /\ assignments = [c \in Customers |-> [o \in Offers |-> "none"]] /\ unrecorded = {}
  /\ faults = 0 /\ userSteps = 0

-----------------------------------------------------------------------------
(* The API server, its users, and Amberflo.                                *)

worker == <<pc, be, customer, endedAt, match, toCancel>>
accounts == <<account, accountThere, spare>>
catalogue == <<accounts, stage>>

SpendFault == faults < MaxFaults /\ faults' = faults + 1
SpendUserStep == userSteps < MaxUserSteps /\ userSteps' = userSteps + 1

\* A write gives the object the next version, which the informer will deliver.
Write(e) ==
  /\ version' = version + 1
  /\ api' = IF e = None THEN None ELSE [e EXCEPT !.rv = version + 1]
  /\ feed' = Append(feed, api')

NoWrite == UNCHANGED <<api, version, feed>>

CreateEntitlement ==
  /\ api = None /\ SpendUserStep
  /\ \E o \in Offers : Write([rv |-> 0, offer |-> o, last |-> None,
                              lastCustomer |-> None,
                              finalizer |-> FALSE, deleting |-> FALSE])
  /\ UNCHANGED <<cached, catalogue, queued, retry, worker, assignments, unrecorded, faults>>

ChangeOffer ==
  /\ api # None /\ SpendUserStep
  /\ \E o \in Offers \ {api.offer} : Write([api EXCEPT !.offer = o])
  /\ UNCHANGED <<cached, catalogue, queued, retry, worker, assignments, unrecorded, faults>>

\* Deletion of an object with a finalizer only marks it.
DeleteEntitlement ==
  /\ api # None /\ ~api.deleting /\ SpendUserStep
  /\ Write(IF api.finalizer THEN [api EXCEPT !.deleting = TRUE] ELSE None)
  /\ UNCHANGED <<cached, catalogue, queued, retry, worker, assignments, unrecorded, faults>>

\* Accounts are not watched: their changes enqueue nothing.
DeleteAccount ==
  /\ accountThere /\ SpendUserStep /\ accountThere' = FALSE
  /\ UNCHANGED <<api, version, feed, cached, account, spare, stage, queued, retry,
                 worker, assignments, unrecorded, faults>>

\* The account is created again under its name and has another UID.
RecreateAccount ==
  /\ ~accountThere /\ spare # {} /\ SpendUserStep
  /\ account' = CHOOSE c \in spare : TRUE
  /\ accountThere' = TRUE /\ spare' = spare \ {account'}
  /\ UNCHANGED <<api, version, feed, cached, stage, queued, retry,
                 worker, assignments, unrecorded, faults>>

\* mapOfferToEntitlements: a change of an offer enqueues its entitlements.
mapOfferToEntitlements(o) == cached # None /\ cached.offer = o

\* Offers become GA, with service pricings, and may then be deleted; their
\* finalizer keeps them until the product plan is deleted.
LaunchedGA(o) == stage[o] \in {"ga", "published"}

ChangeStage(o) ==
  /\ \/ stage[o] = "draft" /\ stage' = [stage EXCEPT ![o] = "ga"] /\ UNCHANGED userSteps
     \/ LaunchedGA(o) /\ stage' = [stage EXCEPT ![o] = "gone"] /\ SpendUserStep
  /\ queued' = (queued \/ mapOfferToEntitlements(o))
  /\ UNCHANGED <<api, version, feed, cached, accounts, retry, worker,
                 assignments, unrecorded, faults>>

\* The Offer reconciler creates the product plan, with no event for us.
PublishPlan(o) ==
  /\ stage[o] = "ga" /\ stage' = [stage EXCEPT ![o] = "published"]
  /\ UNCHANGED <<api, version, feed, cached, accounts, queued, retry, worker,
                 assignments, unrecorded, faults, userSteps>>

\* The clock passes the end time of a cancelled assignment.
EndTimePasses(c, o) ==
  /\ assignments[c][o] = "ending"
  /\ assignments' = [assignments EXCEPT ![c][o] = "ended"]
  /\ UNCHANGED <<api, version, feed, cached, catalogue, queued, retry, worker,
                 unrecorded, faults, userSteps>>

\* The informer delivers the next version and the watch enqueues the key.
Observe ==
  /\ feed # <<>>
  /\ cached' = Head(feed) /\ feed' = Tail(feed) /\ queued' = TRUE
  /\ UNCHANGED <<api, version, catalogue, retry, worker, assignments, unrecorded,
                 faults, userSteps>>

\* The informer's periodic resync, every 10 hours, enqueues every object.
Resync ==
  /\ cached # None /\ ~queued /\ queued' = TRUE
  /\ UNCHANGED <<api, version, feed, cached, catalogue, retry, worker, assignments,
                 unrecorded, faults, userSteps>>

\* RequeueAfter, or the rate limiter after an error, adds the key again.
RetryElapses ==
  /\ retry /\ retry' = FALSE /\ queued' = TRUE
  /\ UNCHANGED <<api, version, feed, cached, catalogue, worker, assignments,
                 unrecorded, faults, userSteps>>

-----------------------------------------------------------------------------
(* The worker.                                                             *)

environment == <<cached, catalogue, queued, userSteps>>

\* Reconcile returns: done, or with a request to be run again later. Here a
\* permanent error is requeued as well (handleAmberfloError).
Return(again) ==
  /\ pc' = "idle" /\ be' = None /\ customer' = None
  /\ endedAt' = {} /\ match' = FALSE /\ toCancel' = {}
  /\ retry' = (retry \/ again)

Goto(l) == pc' = l /\ UNCHANGED <<be, customer, endedAt, match, toCancel, retry>>

\* The process dies; its successor lists the entitlement afresh.
Restart ==
  /\ SpendFault
  /\ cached' = api /\ feed' = <<>> /\ queued' = (api # None)
  /\ pc' = "idle" /\ be' = None /\ customer' = None
  /\ endedAt' = {} /\ match' = FALSE /\ toCancel' = {}
  /\ retry' = FALSE
  /\ UNCHANGED <<api, version, catalogue, assignments, unrecorded, userSteps>>

\* The customer reconcileDelete cancels plans of: that of the account there is,
\* else the annotated one.
resolvedCustomer(e) == IF accountThere THEN account ELSE e.lastCustomer

\* Variant: the annotated plan is forgotten when the offer resolves.
resolveCurrent(e) ==
  IF accountThere /\ stage[e.offer] # "gone" THEN {e.offer} ELSE {e.last} \ {None}

\* The plans it cancels: the one resolved through account and offer, and the
\* annotated one. Without a customer or a plan the finalizer is released.
resolveIDs(e) ==
  IF accountThere /\ stage[e.offer] # "gone"
  THEN {e.offer, e.last} \ {None}
  ELSE {e.last} \ {None}

\* Variants: an entitlement that is not found is not the end of it; a deletion
\* waits for a customer and a plan.
ReconcilePathIgnoringNotFound(e) ==
  IF e = None THEN "addFinalizer"
  ELSE IF e.deleting THEN IF e.finalizer THEN "cancelAll" ELSE "idle"
  ELSE IF ~e.finalizer THEN "addFinalizer"
  ELSE IF accountThere /\ LaunchedGA(e.offer) THEN "getPlan" ELSE "idle"
ReconcilePathWaiting(e) ==
  IF e = None THEN "idle"
  ELSE IF e.deleting THEN IF e.finalizer /\ resolvedCustomer(e) # None /\ resolveIDs(e) # {} THEN "cancelAll" ELSE "idle"
  ELSE IF ~e.finalizer THEN "addFinalizer"
  ELSE IF accountThere /\ LaunchedGA(e.offer) THEN "getPlan" ELSE "idle"

\* Where Reconcile goes with the version it reads from the cache. It waits
\* for the account, and for an offer that is GA.
ReconcilePath(e) ==
  IF e = None THEN "idle"
  ELSE IF e.deleting
       THEN IF ~e.finalizer THEN "idle"
            ELSE IF resolvedCustomer(e) = None \/ resolveIDs(e) = {} THEN "release" ELSE "cancelAll"
  ELSE IF ~e.finalizer THEN "addFinalizer"
  ELSE IF accountThere /\ LaunchedGA(e.offer) THEN "getPlan" ELSE "idle"

Reconcile ==
  /\ pc = "idle" /\ queued
  /\ queued' = FALSE
  /\ pc' = ReconcilePath(cached)
  /\ be' = IF pc' = "idle" THEN None ELSE cached
  /\ customer' = IF pc' \in {"getPlan", "cancelAll"} THEN resolvedCustomer(cached) ELSE None
  /\ toCancel' = IF pc' = "cancelAll" THEN resolveIDs(cached) ELSE {}
  /\ retry' = (retry \/ (pc' = "idle" /\ cached # None /\ ~cached.deleting))
  /\ UNCHANGED <<api, version, feed, cached, catalogue, endedAt, match, assignments,
                 unrecorded, faults, userSteps>>

\* Update: a conflict unless the cached copy is the current version.
Current == api # None /\ api.rv = be.rv

AddFinalizer ==
  /\ pc = "addFinalizer"
  /\ \/ Current /\ Write([be EXCEPT !.finalizer = TRUE]) /\ Return(FALSE) /\ UNCHANGED faults
     \/ ~Current /\ NoWrite /\ Return(TRUE) /\ UNCHANGED faults
     \/ SpendFault /\ NoWrite /\ Return(TRUE)
  /\ UNCHANGED <<environment, assignments, unrecorded>>

\* EnsureCustomerPlan takes now before it lists.
EnterEnsure ==
  pc' = "ensureList" /\ endedAt' = {o \in Offers : assignments[customer][o] = "ended"}

\* The product plan must exist in Amberflo. When the offer has changed, the
\* annotated plan is cancelled first.
GetProductPlan ==
  /\ pc = "getPlan" /\ NoWrite
  /\ \/ /\ stage[be.offer] = "published"
        /\ IF be.last \in {None, be.offer}
           THEN EnterEnsure ELSE pc' = "cancelPrev" /\ UNCHANGED endedAt
        /\ UNCHANGED <<be, customer, match, toCancel, retry, faults>>
     \/ stage[be.offer] # "published" /\ Return(TRUE) /\ UNCHANGED faults
     \/ SpendFault /\ Return(TRUE)
  /\ UNCHANGED <<environment, assignments, unrecorded>>

-----------------------------------------------------------------------------
(* customer_plan.go.                                                       *)

\* CancelCustomerPlan lists the assignments and posts an end time for the
\* active one of plan p; a missing or ended one is left alone.
CancelCustomerPlan(p) ==
  [assignments EXCEPT ![customer][p] = IF @ \in {"open", "ending"} THEN "ending" ELSE @]

Cancelled(p) ==
  /\ assignments' = CancelCustomerPlan(p)
  /\ unrecorded' = unrecorded \ {<<customer, p>>}

\* A call that fails may still have been applied.
MayCancel(p) == Cancelled(p) \/ UNCHANGED <<assignments, unrecorded>>

\* Best effort: a failure is logged and Ensure goes on.
CancelPrevious ==
  /\ pc = "cancelPrev" /\ NoWrite
  /\ \/ Cancelled(be.last) /\ UNCHANGED faults
     \/ SpendFault /\ MayCancel(be.last)
  /\ EnterEnsure
  /\ UNCHANGED <<environment, be, customer, match, toCancel, retry>>

\* Variant: an assignment that has ended counts as active.
ActiveAlways(p) == assignments[customer][p] # "none"

\* Active: no end time, or one that now had not reached.
Active(p) ==
  \/ assignments[customer][p] \in {"open", "ending"}
  \/ assignments[customer][p] = "ended" /\ p \notin endedAt

\* Variant: only the assignment to the annotated plan is looked for.
StrayAnnotated(p) == p = be.last /\ p # be.offer /\ Active(p)

Stray(p) == p # be.offer /\ Active(p)

\* The list that decides which assignments to cancel and whether to post one.
EnsureList ==
  /\ pc = "ensureList" /\ NoWrite
  /\ \/ /\ toCancel' = {p \in Offers : Stray(p)}
        /\ match' = Active(be.offer)
        /\ pc' = "cancelStrays"
        /\ UNCHANGED <<be, customer, endedAt, retry, faults>>
     \/ SpendFault /\ Return(TRUE)
  /\ UNCHANGED <<environment, assignments, unrecorded>>

CancelStrays ==
  /\ pc = "cancelStrays" /\ NoWrite
  /\ \/ /\ toCancel = {}
        /\ Goto(IF match THEN "annotate" ELSE "postPlan")
        /\ UNCHANGED <<assignments, unrecorded, faults>>
     \/ \E p \in toCancel :
          \/ /\ Cancelled(p)
             /\ toCancel' = toCancel \ {p}
             /\ UNCHANGED <<pc, be, customer, endedAt, match, retry, faults>>
          \/ SpendFault /\ MayCancel(p) /\ Return(TRUE)
  /\ UNCHANGED environment

\* postCustomerPlan: an assignment that starts in 30 seconds and has no end.
Assigned ==
  /\ assignments' = [assignments EXCEPT ![customer][be.offer] = "open"]
  /\ unrecorded' = unrecorded \cup {<<customer, be.offer>>}

PostPlan ==
  /\ pc = "postPlan" /\ NoWrite
  /\ \/ Assigned /\ Goto("annotate") /\ UNCHANGED faults
     \/ /\ SpendFault /\ Return(TRUE)
        /\ Assigned \/ UNCHANGED <<assignments, unrecorded>>
  /\ UNCHANGED environment

\* The annotations are written when one of them differs.
needAnnotate == be.last # be.offer \/ be.lastCustomer # customer

Annotate ==
  /\ pc = "annotate"
  /\ \/ /\ needAnnotate => Current
        /\ IF needAnnotate THEN Write([be EXCEPT !.last = be.offer, !.lastCustomer = customer])
           ELSE NoWrite
        /\ unrecorded' = unrecorded \ {<<customer, be.offer>>}
        /\ Return(FALSE) /\ UNCHANGED faults
     \/ needAnnotate /\ ~Current /\ NoWrite /\ Return(TRUE) /\ UNCHANGED <<unrecorded, faults>>
     \/ needAnnotate /\ SpendFault /\ NoWrite /\ Return(TRUE) /\ UNCHANGED unrecorded
  /\ UNCHANGED <<environment, assignments>>

-----------------------------------------------------------------------------
(* reconcileDelete.                                                        *)

\* A failed cancel, transient or permanent, keeps the finalizer.
CancelAll ==
  /\ pc = "cancelAll" /\ NoWrite
  /\ \/ toCancel = {} /\ Goto("release") /\ UNCHANGED <<assignments, unrecorded, faults>>
     \/ \E p \in toCancel :
          \/ /\ Cancelled(p)
             /\ toCancel' = toCancel \ {p}
             /\ UNCHANGED <<pc, be, customer, endedAt, match, retry, faults>>
          \/ SpendFault /\ MayCancel(p) /\ Return(TRUE)
  /\ UNCHANGED environment

RemoveFinalizer ==
  /\ pc = "release"
  /\ \/ Current /\ Write(None) /\ Return(FALSE) /\ UNCHANGED faults
     \/ ~Current /\ NoWrite /\ Return(TRUE) /\ UNCHANGED faults
     \/ SpendFault /\ NoWrite /\ Return(TRUE)
  /\ UNCHANGED <<environment, assignments, unrecorded>>

-----------------------------------------------------------------------------

Work ==
  \/ Reconcile \/ AddFinalizer \/ GetProductPlan \/ CancelPrevious \/ EnsureList
  \/ CancelStrays \/ PostPlan \/ Annotate \/ CancelAll \/ RemoveFinalizer

Next ==
  \/ CreateEntitlement \/ ChangeOffer \/ DeleteEntitlement \/ DeleteAccount \/ RecreateAccount
  \/ \E o \in Offers : ChangeStage(o) \/ PublishPlan(o)
  \/ \E c \in Customers, o \in Offers : EndTimePasses(c, o)
  \/ Observe \/ Resync \/ RetryElapses \/ Restart
  \/ Work

\* The informer delivers, timers fire, the clock advances, the Offer reconciler
\* publishes plans and the worker runs. The resync is fair only where a
\* property says so.
Fairness ==
  /\ WF_vars(Observe) /\ WF_vars(RetryElapses) /\ WF_vars(Work)
  /\ \A o \in Offers : WF_vars(PublishPlan(o))
  /\ \A c \in Customers, o \in Offers : WF_vars(EndTimePasses(c, o))

Spec == Init /\ [][Next]_vars
FairSpec == Spec /\ Fairness

-----------------------------------------------------------------------------

\* No customer ever has two assignments without an end, whatever calls fail
\* or half succeed and wherever the process dies in a swap
\* (customer_plan.go:140-145).
OneOpenAssignment ==
  \A c \in Customers : \A p, q \in Offers :
    assignments[c][p] = "open" /\ assignments[c][q] = "open" => p = q

\* When an entitlement that had the finalizer goes, no assignment is left open,
\* also when its account or its offer went first, except
\*   - of the customer of an account that was created again: reconcileDelete
\*     takes the UID of the account there is (billingentitlement_controller.go:
\*     207-213, 281), and the annotation is overwritten (178-182);
\*   - one whose annotation was lost, to a conflict, an error or a crash, after
\*     the plan was assigned (175-187), if account and offer no longer lead to it.
NoOrphanAssignment ==
  [][api # None /\ api.finalizer /\ api' = None =>
       \A c \in Customers, p \in Offers :
         assignments'[c][p] = "open" =>
           \/ c # account
           \/ /\ <<c, p>> \in unrecorded
              /\ ~accountThere \/ stage[p] = "gone" \/ p # api.offer]_vars

Assignable == api # None /\ ~api.deleting /\ accountThere /\ LaunchedGA(api.offer)

\* Once users and faults rest, the customer ends up with an open assignment
\* to the plan of the entitlement's offer. The requeues alone bring it there as
\* far as an assignment that a later step may have ended, unless the account was
\* created again after the plan was assigned, of which no event tells.
Converges ==
  /\ WF_vars(Resync) => <>[](Assignable => assignments[account][api.offer] = "open")
  /\ <>[](Assignable /\ api.lastCustomer \in {None, account} =>
            assignments[account][api.offer] # "none")

\* An entitlement that is being deleted goes away, also when its account or
\* its offer went first.
DeletionCompletes ==
  (api # None /\ api.deleting) ~> (api = None \/ ~api.deleting)

\* The comment at customer_plan.go:140-141, "so the customer has exactly one
\* active product plan": when the reconciler has nothing left to do and every
\* end time has passed, the plan of the offer is the one active assignment.
OnePlanAtRest ==
  /\ Assignable /\ pc = "idle" /\ ~queued /\ ~retry /\ feed = <<>>
  /\ \A p \in Offers : assignments[account][p] # "ending"
  => assignments[account][api.offer] = "open"
=============================================================================
