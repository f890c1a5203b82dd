# amberflo-provider in TLA+

amberflo-provider keeps the billing resources of a Milo control plane
(BillingAccount, BillingEntitlement, Offer, MeterDefinition, Invoice) in step
with Amberflo, and a second process forwards usage events from a JetStream
stream to Amberflo's ingest endpoint. This directory models the parts of both
that carry protocol state, checks them with TLC on small instances and proves
with TLAPS, for every value of the constants, all the safety properties that
the runs check.

## The system

| part | state it keeps | operations | talks to |
|---|---|---|---|
| submission consumer (`internal/submission/submission.go`) | the batch in memory, a durable JetStream consumer | fetch, prepare, submit a batch, submit one by one, ack, nak with delay | JetStream, Amberflo ingest, the two caches |
| submission caches (`billingaccount_cache.go`, `meterdefinition_cache.go`) | name to UID, meter name to apiName | add, update and delete handlers; lookups | informers (write), consumer (read) |
| BillingAccount controller (`internal/controller/billingaccount_controller.go`, `stripe_customer.go`) | a finalizer on the account | reconcile, delete, force-delete | API server, informers, customer client, invoice sync |
| customer client (`internal/amberflo/customer.go`) | Amberflo's customer | get, ensure, disable | Amberflo |
| invoice projection (`internal/invoice`) | the Milo Invoice | upsert: get, create, patch metadata, patch status | API server; called by the reconciler and the webhook |
| invoice webhook (`internal/webhook/invoice.go`) | none | look up the account, resolve the invoice, upsert | Amberflo posts to it |
| BillingEntitlement controller (`billingentitlement_controller.go`) | a finalizer, two annotations | reconcile, delete | API server, customer-plan client |
| customer-plan client (`internal/amberflo/customer_plan.go`) | assignments of a customer to product plans | list, ensure, cancel | Amberflo |
| MeterDefinition controller, meter client | finalizer; meters and product items | ensure, replace legacy, delete | Amberflo |
| Offer controller, product-plan client | finalizer; product plans, items, prices | ensure, delete | Amberflo |
| HTTP client (`internal/amberflo/client.go`, `errors.go`) | a token bucket | call with retries, classify errors | Amberflo |
| Stripe payment switch (`stripe_customer.go`, `payment_switch.go`) | scheduled switches | list, schedule | Amberflo |

What is hard about it:

* **Two writers.** Pods overlap on one durable consumer, because leader
  election is off; the webhook and the reconciler upsert the same Invoice.
* **Calls that fail after they were applied.** Every call to Amberflo may time
  out, be retried and have worked; every ack may be lost.
* **Late caches.** All reads of Kubernetes objects come from informers, and
  finalizers are attached and released on what they say.
* **Crashes** between an effect at Amberflo and the record of it (ack,
  finalizer, annotation).
* **Long sequences of calls.** A product plan, a legacy meter and a payment
  switch are each made of several calls, and items are shared by reconcilers.
* **Time**: AckWait is shorter than a submission with its retries, a cancelled
  plan assignment stays active for another 30 seconds, Retry-After and backoff
  compete, and a billing period starts on a day some months do not have.

`PROJECT.json` lists these hazards at their lines, with the properties that
would notice them going wrong.

## The modules

| module | models |
|---|---|
| `SubmissionConsumer`, `MCSubmissionConsumer` | pods, JetStream's delivery states, Amberflo's ledger |
| `UsageLedger` | what the consumer promises: an event is charged once, a message settled after that |
| `SubmissionConsumerProofs` | theorems about the consumer |
| `SubmissionCaches` | the two indexes and the objects behind them |
| `UsagePath`, `MCUsagePath` | the consumer composed with its caches |
| `SubmissionCachesProofs` | theorems about the caches and the composition |
| `BillingAccountController`, `MCBillingAccount` | the account, its informer, the worker, Amberflo's customers and payment switches |
| `BillingPeriod`, `MCBillingPeriod` | the calendar arithmetic of the payment switch, and a reference for it |
| `BillingAccountProofs` | theorems about both |
| `InvoiceSync` | one invoice at Amberflo and in Milo, the actors that upsert it |
| `InvoiceSyncProofs` | theorems about it |
| `EntitlementController` | the entitlement, its informer, the worker, the customer's plan assignments |
| `EntitlementProofs` | theorems about it |
| `MeterController` | the MeterDefinitions, their informer and work queue, the worker, Amberflo's meters and product items |
| `MeterProofs` | theorems about it |
| `OfferController`, `MCOffer` | the offer, its informer, the worker, Amberflo's product items, prices and plans |
| `PlanPricing` | bands of an offer to price tiers, and what each charges |
| `OfferProofs` | theorems about both |
| `HttpClient` | goroutines in `doJSON`, the token bucket, Amberflo's answers |
| `ApiCall` | what one call means to its caller |
| `HttpClientProofs` | theorems about the client |

`SubmissionConsumer` sees the caches as `ChangeIndex`, an arbitrary change of an
entry; `UsagePath` puts the caches themselves in its place and is shown to
implement the consumer (`ImplementsConsumer`).
The SyncInvoices step of `BillingAccountController` is the place where
`InvoiceSync`'s `ReconcileInvoices` runs. `EntitlementController` sees the Offer
reconciler as an external actor that publishes and removes product plans. The
Offer and the MeterDefinition reconcilers write the same product items, each
from a copy it read: `OfferController` sees the other one through
`ChangeDefinition`, `FindOrphanItem` and `PostOrphanItem`, `MeterController`
through `OfferWritesItem`. Every module takes a call to Amberflo as one step that
succeeds, or fails and may have been applied: that is `ApiCall`, which
`HttpClient` is shown to implement.

### SubmissionConsumer

`delivery` is JetStream's view of a message (pending, in flight, delayed by a
nak, acked). Each pod has a program counter that follows `Start` and
`processMessages`: `Fetch`, one `Prepare` per message, `SubmitBatch`, then
`SettleBatch`, or after a permanent error `SubmitIsolated` and `SettleIsolated`
per record. `PrepareOutcome` keeps the order of `prepareRecord`'s checks. A
message stands for a CloudEvent; `CeId` is its id, and its idempotency key is
the pair of time and id that the ULID encodes (the hash is taken to be
injective). Amberflo drops a record whose key it has; a failed call ingests any
subset of what it carried. `AckWaitExpires` may happen at any time, also while
the message is being worked on. Pods stop cleanly, crash, restart; keys rotate.
`denied` remembers events that were submitted alone and refused with 401 or 403.

`ImplementsLedger` maps the ledger's records to charges of events, `denied` to
refusals and acked messages to settled ones, and claims every behaviour of
`UsageLedger`: an event is charged to one customer and meter, the charge stays,
and its message is settled after that.

### SubmissionCaches

`accounts` and `meters` are the objects; `accountSeen` and `meterSeen` what the
informer has delivered. A delivery runs the handler that the code registers,
with versions skipped as informers do. An object that is deleted and created
again meanwhile arrives as one update, with another UID or another
`spec.meterName`. The update handler is given the new object only, so the entry
of the old meter name stays: `stale` remembers those names, and
`MeterIndexExact` excepts them (the comment at `meterdefinition_cache.go:27-29`
does not).

### UsagePath

One step of the consumer or one of the caches; the two share the indexes. Usage
of an account that comes and stays, for a meter that becomes and stays Published
or Deprecated, reaches the ledger (`UsageReachesLedger`), and every message of
such an account and meter leaves the stream (`StreamDrains`), however late the
informers are, with poison events in the batch, crashes and redelivery.

### BillingAccountController

One namespaced name, under which accounts with different UIDs come and go. The
informer's undelivered versions are a queue (`feed`). The worker reads the
cached version and makes one call per step. What an account asks for (its spec
and the projects of its bindings) is one value, the Stripe id it resolves to
another; both travel with the account's versions although the code reads
bindings and payment methods from informers of their own. A failed PUT may have
been applied. `wedged` records that the last reconcile ended on a permanent
error, which the code does not requeue; `forced` records UIDs whose finalizer
was released although the disable call failed, which a force-delete allows.

After the customer, an account that resolves to a Stripe id has its payment
switch scheduled: list the settings, list the switches, POST, each of which may
fail; a permanent failure is reported and the reconcile goes on to the invoices.
`switches` has the target and the time of each switch that Amberflo lists.
`HasMatchingPaymentMethodSwitch` finds any of them with the same target and time,
so that after a change and a change back within one switch time nothing is
posted for the second; which of two switches at one time wins is left open
(`TakeEffect`). A switch time is a period start that lies `ahead`, or as soon as
allowed, which is another time in every second (`SecondPasses`). A period start
that has come between the lists and the POST is refused, a permanent failure.
In all these cases the customer may be charged through the wrong Stripe id until
the resync: `ChargedThroughStripe` says that it is then put right.

`BillingPeriod` translates `periodStartUTC` and what it uses; a date stands for
all instants of its day. `AsDocumented` is what its comment says: before this
month's invoice day the period began on the previous month's. The code steps
back with `AddDate`, which takes 30 March to "30 February", that is 1 or 2 March,
and returns this month's invoice day, which is still ahead; the switch then waits
for it. `MCBillingPeriod` goes through two years of days (finding 4).

### InvoiceSync

`Upsert` in five steps for every actor: cached Get, Create, the second cached
Get after AlreadyExists, metadata patch, status patch. The status patch is a
JSON merge patch against the version the metadata patch returned, so only the
fields that differ are sent and no version is checked (`MergePatch`). A webhook
event carries the invoice as it was at some earlier time, which is used when
Amberflo does not find the invoice by key. Currency, document URI and the Ready
condition are left out: they are written like the fields that are kept.

### EntitlementController

Updates need the current resourceVersion, as `client.Update` does. The clock is
abstract: cancelling makes an assignment `ending`, still `Active`, until
`EndTimePasses`. `EnsureCustomerPlan` takes `now` before it lists, so
`endedAt` keeps what had ended at that moment. An assignment stands for all
relations of a customer to one plan. `unrecorded` holds assignments made by a
reconcile that did not get to write its annotations.

The customer is the UID of the account, and an account can be deleted and
created again under its name (`RecreateAccount`). `Annotate` writes both
annotations when either differs (`needAnnotate`), which overwrites the record of
the earlier customer; `resolvedCustomer` takes the account there is and the
annotated customer only without one. So `NoOrphanAssignment` has two exceptions:
assignments of the customer of an earlier account, and one that was never
annotated if account and offer no longer lead to it. That a recreated account
leaves the old customer's plan open shows as a counterexample when the first
exception is dropped.

### MeterController

All definitions share one worker (`MaxConcurrentReconciles` is the default 1),
so the module has several names and one program counter, which follows
`EnsureMeter` with `replaceLegacyMeter`, `createMeterReusingProductItem`,
`adoptOrphanProductItem` and `pointProductItemAtMeter`, and `DeleteMeter` with
`deleteMeterRecord`, one call to Amberflo per step. `Init` chooses leftovers of
earlier releases: meters keyed by a UID, items that point at them (deprecated or
not), and labels that a POST finds taken although no list shows a holder
(`hidden`), which the comments of `meter.go` report. A label is a pair, so the
label that `disambiguatedMeterLabel` makes differs from every plain one. Only
the display name of a definition changes, the other fields being immutable, so
the comparison of type, unit and dimensions is left out. A POST may be applied,
time out inside the call and be retried, and then meets its own label.
The worker goes on with its `copy` of the item, and both updates post that copy
whole, while `OfferWritesItem` may create, unlock or retarget the item at any
time. `rejectLiveForeignProductItem` takes a permanent error of its lookup for an
absent meter; `blind` records that. `ItemsKept` therefore has two exceptions:
`blind`, and an item that is no longer what the copy says. In the second case the
worker moves the item off a live meter of another definition, which the comment
at `meter.go:396-398` rules out; nothing in the update tells that it is stale.
`Converges` has the exceptions the code documents: another definition's live
meter has the label or the item, or the meter cannot be renamed because the new
label is taken.

### OfferController

One offer name; the UID is the id of the plan. The worker goes through the
pricings of the snapshot: `FindItem` (by id, by meter, by name, with the refusal
of an item whose meter is live, unless the lookup of that meter ends on a
permanent error, which the code takes for an absent meter), `UnlockItem` and
`PointItem` with their fallbacks, `PostItem`, `EnsurePrice`, then `GetPlan` and `PostPlan`; deletion reads,
deprecates, deletes and releases the finalizer. Reads that no write separates
are one step. Each write may fail after it was applied. `Leftovers` are the
product items that earlier releases left: on a dead meter, deprecated (whose
unlocking Amberflo may refuse for good), under a name that a live meter has, under
both names the code would use, and under the id of a meter beside a sibling that
is on it, and under the id of one meter with the name of another's pricing.
Meanwhile definitions come and go and an operator changes the default plan. The
MeterDefinition reconciler finds an item with the display name of a definition,
which need not be that of the pricing on its meter (`FindOrphanItem`), and later
posts its copy (`PostOrphanItem`), whatever became of the item since. `left`
records plans whose deletion failed for good, after which the code releases the
finalizer.

A plan's `prices` are its `productItemPriceIdsMap`. Two pricings on one meter
have one entry there, the later one's, and `Complete` says so; the price
generators sent with it keep both. `PlanPricing` turns bands into tiers as
`desiredRatesFromPricing` and `leafFromRate` do; no reconcile can influence what
they charge, so `MCOffer` compares the two in an `ASSUME` (rates of up to three
bands, quantities in tenths of a unit) and the theorem `TiersChargeAsBands`
proves it. Limits are whole numbers there: `parseUpToInt` truncates others, as
its comment says, and the charge then differs.

A plan can be posted in part. One product item can be found for two meters of the
offer, by its id for one and by its meter or its name for the other
(`Contested`); or a definition goes away, or the MeterDefinition reconciler posts
its copy, while a reconcile is on its way. The item is then moved to the second
meter and its price replaced in the map. `disturbed` records that one of these
conditions held in the reconcile under way, `unsure` the plans such a reconcile
posted, and `PlanComplete` excepts these. The instance has both kinds: without
the exception TLC finds a partial plan, which the comment at
`product_plan.go:281-283` does not expect ("so Amberflo matches
DesiredProductPlan"). `Converges` says that it does not stay: the requeues bring
the plan in sync or it was disturbed since, and the resync brings it in sync.

`Converges` is about offers that are not `Obstructed` for good: a meter without a
definition, several items on a meter, the name on a live meter, and an item that
Amberflo may refuse to change beside a taken name or id.

### HttpClient

Each caller follows `doJSON`: limiter, request, answer, sleep. An answer is a
class of `classify`; a 5xx or no answer leaves open whether Amberflo applied the
request. Time is counted in refills of one token, and only as what is left of a
wait. `jitter` is every whole number of ticks within a quarter. `load` counts
what was sent in the last k ticks and `hold` what is left of a Retry-After;
both are there for the properties only. The budget is that of a token bucket:
one second can see a full bucket and its refill, up to twice the configured
rate. Contexts have no deadline in this code, so the limiter fails only on a
cancelled one. `ImplementsCall` maps a caller between call and return to
"running".

## Runs

| run | checks | bounds |
|---|---|---|
| `submission_safety` | no acked event is lost, none is billed twice; implements `UsageLedger` | 2 pods, a good and a poison event, 2 account UIDs, batches of 2, 2 faults; 1.8 million states |
| `usage_path` | both indexes are exact, the composition implements the consumer, settled usage is billed, the stream drains | 1 pod, a good, a rejected and a malformed message, 1 account, 1 meter, 1 fault; 99 thousand states |
| `submission_revoked_key` | finding: good events are discarded | 1 pod, 1 fault |
| `billing_account` | no orphan customer, Stripe id kept, convergence of customer and payment switch, deletion completes | 2 UIDs, 2 specs, 2 Stripe ids, 2 dates in late March, all invoice days, 4 user steps, 2 faults |
| `billing_period` | finding: the period start at the end of a month | every day of 2024 and 2025, all invoice days |
| `invoice` | never paid before settled, the status heals | 1 webhook request and the reconciler, 3 payment states, 2 totals, 2 changes, 1 fault |
| `invoice_torn_status` | finding: amounts and phase of different upserts | the same with one total |
| `entitlement` | one open assignment, no orphan, convergence, deletion completes | 2 offers, 2 customers, 4 user steps, 1 fault |
| `meter` | no orphan meter, no meter or item taken from another definition, convergence, deletion completes | 2 definitions (one may have an unsupported aggregation), 2 labels, 1 legacy meter, 3 user steps and item writes, 1 fault |
| `offer` | a plan is complete and has its offer, convergence, deletion completes | 2 UIDs, 2 titles, 3 pricings on 2 meters, 6 sets of leftovers, 3 user steps, moves of definitions and of items, 1 fault; 543 thousand states |
| `http` | budget and Retry-After kept, every call returns; implements `ApiCall` | 2 callers, 2 requests a call, a bucket of 1, intervals of 1 and 2 ticks, Retry-After none or 2; 100 thousand states |
| `entitlement_plan_lost` | finding: a quick swap back loses the plan | 2 offers, 3 user steps, no fault |

Why these bounds: the races are between two parties (two pods, the two callers
of Upsert, the worker and its informer), so two of each suffice; a fault is a
lost ack, a failed call, a crash or a shutdown, and two of them make a crash
during the recovery from another. Four user steps are create, two changes and
delete, or create, delete, create again and a change. The poison event next to
the good one makes the batch fail and the fallback run. Pods and UIDs are
interchangeable in `submission_safety`, which uses that symmetry and checks no
liveness. `usage_path` checks liveness of two processes at once and so has one
account and one meter, each of which comes and goes and the meter with two
phases; recreation under another UID or name is in the theorems about the caches,
which hold for all of them, and a bad envelope, which is acked before any lookup,
is left out. Deadlock is not checked where the users may simply have nothing more
to do (`billing_account`, `entitlement`, `meter`, `offer`). In `meter` leftovers have one of
the two labels, so that a definition can be renamed to one or away from one. In
`offer` UIDs and titles are interchangeable, so the first is chosen and not
enumerated; three user steps are create and two of publish, rename, delete, a
definition or an item changed or the default moved, or create, delete, create.
The dates of `billing_account` are one on which `AddDate` stays in the month and
one on which it does not, so that switch times are of both kinds.
In `http` a bucket of one is the one that two callers compete for most, and a
Retry-After of 2 is longer than the longest backoff.

### Fairness

* Submission: a started pod goes on (the loop has no condition but the
  context); Kubernetes restarts it; JetStream's timers fire; a message that is
  pending again and again is fetched at some time (strong fairness, since a
  batch may be full of others); the informers deliver. No fairness for key
  rotation, faults or changes of accounts and meters, which is why
  `UsageReachesLedger` and `StreamDrains` speak of accounts and meters that stay.
* Controllers: the informer delivers, requeue timers fire, the worker runs. The
  work queue is first in, first out, so in `MeterController`, whose worker
  serves several names, each queued name is served (strong fairness). The
  informer's periodic resync (10 hours by default; the code sets no other) would
  hide a requeue that is missing. In `BillingAccountController`,
  `EntitlementController` and `OfferController` it is therefore fair only where a
  property says so (`WF_vars(Resync) => ...`), and `Converges` states beside that
  what the requeues alone achieve. In `InvoiceSync` it is part of the fairness:
  nothing else heals a missed webhook. Time passes: seconds and period starts,
  strongly fair because a reconcile may be under way again and again. No fairness
  for users, faults, the other reconciler's writes or Amberflo's webhook
  deliveries.
* HTTP client: time passes, goroutines run, a request ends within the client's
  timeout. The limiter gives out reservations in order, so a caller that waits
  for a token gets one at some time (strong fairness of `Admit`).

## Findings

1. **A revoked key discards usage.** 401 and 403 are permanent
   (`errors.go:163`), and the fallback that is there "to isolate the bad event
   so we don't discard the whole batch" acks every record that fails
   permanently alone. `NoEventLost` therefore names this case as an exception,
   and `OnlyBadEventsDiscarded` shows it.
2. **Concurrent upserts tear the invoice status** (`sync.go:226`). It heals at
   the next upsert, which `SelfHeals` shows.
3. **A swap back within 30 seconds loses the plan** (`customer_plan.go:136`):
   the ending assignment is taken for the wanted one. It heals at the resync,
   which `Converges` shows.

4. **The period start at the end of a month** (`stripe_customer.go:287`) is this
   month's invoice day, still ahead, where the comment (274-279) says the
   previous month's. `PeriodStartDiverges` proves on which dates.

Met while modelling, stated in a property as an exception and without a run of
their own:

* the account index is keyed by name without namespace, so that the deletion of
  one of two namesakes hides the other (`billingaccount_cache.go:74-84`;
  `AccountIndexExact` holds for unique names);
* a MeterDefinition recreated under another meter name leaves the old entry
  (`meterdefinition_cache.go:55-59`; `stale`);
* a recreated account leaves the plan of the earlier customer open
  (`billingentitlement_controller.go:178-182`, 207-213; `NoOrphanAssignment`);
* a payment method changed back within one switch time is skipped until the
  resync (`payment_switch.go:149-157`; `ChargedThroughStripe`);
* an item is moved off a live meter over a stale copy (`meter.go:484-518`;
  `ItemsKept`);
* a plan is posted in part when one item serves two meters
  (`product_plan.go:341`; `PlanComplete`).

## Proofs

The theorems hold for every value of the constants that satisfies the `ASSUME`s
of the modules: sets and functions of the right type, None different from every
record, bounds that are natural numbers. TLC evaluates these on the instances.
Where a theorem takes a further hypothesis it says so in its statement: unique
names for the indexes, whole limits for the tiers. Faults,
user steps and changes are bounded by constants that are any natural number.
Every inductive invariant below was an invariant of a TLC run before it was
proved.

`SubmissionConsumerProofs` proves, for any messages, pods, batch size and
number of faults, `TypeOK`, `NoEventLost`, `BilledOnce` and
`Spec => ImplementsLedger`, with the assumption that an event that is published
again keeps its time. `NoEventLost` speaks of acked messages and the ledger and
is not inductive: an ack happens steps after the submission that justifies it. A
message is `Accounted` when it is malformed, billed, refused by Amberflo, or
denied. The inductive invariant `IInv` adds to `TypeOK` and `NoEventLost`: the
records that a pod has validated, the one it submits alone and the ones in the
ledger carry the key of their event (`RecordsKeyed`); no two records in the
ledger have the same key (`UniqueIDsDistinct`, Amberflo's deduplication); while a
pod acks a batch, every message left is accounted for (`AckingAccounted`); before
it acks an isolated record, that record's message is (`IsolatedAccounted`).
`BilledOnce` follows from `RecordsKeyed`, `UniqueIDsDistinct` and
`SameEventSameTime`. In the refinement a call
to Amberflo is a `Bill`, a refused key a `Refuse`, an ack a `Settle`, for which
the two `Accounted` parts give the guard; everything else stutters.

`SubmissionCachesProofs` proves `TypeOK`, `AccountIndexExact` when account names
are unique and `MeterIndexExact` when meter names are. Each index is keyed by a
name alone, and without the hypothesis the property is false. A definition may
be recreated under any of its names; what that leaves behind is in `stale`.
`PathImplementsConsumer` proves `ImplementsConsumer`: a delivery changes at most
one entry, to a UID or a meterApiName, and is `ChangeIndex` or a stutter; with
it the theorems about `SubmissionConsumer` hold of the composition.

`HttpClientProofs` proves, for any number of callers and retries, any delays and
any bucket, `TypeOK`, `RateBudget`, `RetryAfterHonoured` and
`Spec => ImplementsCall`. The inductive invariant adds to the types: what
Amberflo asked for is at most what is left of the sleep, and nothing outside it
(`HoldSlept`); a token in the bucket counts against the budget like a request
that was sent (`TokensSpare`, without which `RateBudget` is not inductive); a
call is applied at most once for each request it has had an answer to, and a
caller that sleeps has a request left (`AttemptsCount`). The refinement goes
action by action: `Call` is `Begin`, `Cancel` is `Cancel`, `Tick` changes
nothing the caller sees, every other step is `Progress`, for which
`AttemptsCount` gives the bound on applications.

`BillingAccountProofs` proves `TypeOK`, `NoOrphanCustomer` and
`StripeTraitKept`. Finalizers are attached and released by server-side apply,
which checks no version, so what keeps one where it belongs is only the order in
which versions reach the informer. `InOrder` says what the versions not yet
delivered can be: from one that is held and being deleted to a later one that is
held the account is the same and held throughout, so no namesake has been given
the finalizer in between. `OnPath` says what the worker on each path knows of the
account from the version it read, `DisabledFirst` that the finalizer is released
after the disable call, `StripeCarried` that what is about to be PUT has the
Stripe id. `StripeTraitKept` is an action property and follows from
`StripeCarried` step by step. `PeriodStartDiverges` is about the calendar: for all
dates after the year 0 and all invoice days `periodStartUTC` is what its comment
says exactly when `AddDate` does not step back into the current month, and where
it does the period start lies ahead, with lemmas on the length of months, on the
order of dates and on what `AddDate` normalises.

`InvoiceSyncProofs` proves `TypeOK` and `PaidOnlyIfSettled`. The latter is not
inductive, because an actor writes what it computed from an earlier read or from
the payload of an old event, and a status patch writes only what differs from a
base read earlier. A settled payment is final, so the invariant says that what an actor is to
write, and what was posted, claims a payment only if it is settled now
(`WantsAreSettled`, `PostedAreSettled`).

`EntitlementProofs` proves `TypeOK`, `OneOpenAssignment` and
`NoOrphanAssignment`. Updates check the resourceVersion, and `VersionsInOrder` is
what makes that check mean something: a worker that holds the newest version
holds what the API server has. `AllBacked` says what any older version still
tells: its finalizer is there unless it was seen deleted, and so are its
annotations if they are for the present account and offer. `Fresh` says that
nothing names a UID that was not given out, `Superseded` that a reconcile that
resolved an earlier customer meets no assignment of the present one. `Recorded`
relates an open assignment of the present customer that was annotated to the
annotations, `StraysFirst` says that the new plan is posted after every other one
of its customer was cancelled, `CancelFirst` that the finalizer is released after
the annotated plan, and the one account and offer lead to, were.
`NoOrphanAssignment` is an action property: the entitlement goes only in
`RemoveFinalizer`, and `Recorded` and `CancelFirst` leave the two exceptions.

`MeterProofs` proves `TypeOK`, `NoOrphanMeter`, `MetersKept` and `ItemsKept`. The
invariant has the versions and finalizers as above; what `deleteMeterRecord` is
called for (`VictimKnown`: a leftover, or the meter of the definition that is
being deleted), that the finalizer goes after the meter (`MeterFirst`), and that
the worker's copy of the item was found on no live meter of another definition
(`ItemChecked`). That stays true until the write because it is about the copy and
because one worker makes all meters; about the item itself nothing can be said,
since the Offer reconciler writes it too, and `ItemsKept` is about items that
still are what the copy says. The two action properties follow from
`VictimKnown` and `ItemChecked`.

`OfferProofs` proves `TypeOK`, `NoOrphanPlan` and `PlanComplete`, for any
pricings, leftovers and writes of the other reconciler. `SafeInv` is versions,
finalizers and `PlanFirst`: the finalizer is released when the plan is gone or
Amberflo keeps it. `PlanComplete` needs what was built so far while a reconcile is
under way. `CompleteInv` says of one that is not `disturbed` that the meters of
its pricings are defined and no item is contested, that the worker's copy of an
item is what Amberflo has and that it is moved only because of its id or because
it has nothing to do with the offer (`ItemHeld`), and that the pricings done have
their entries, with items on their meters (`BuiltSoFar`); and of every plan that
no disturbed reconcile posted that it is complete. `TiersChargeAsBands` shows for any rate and
quantity that tiers charge what the bands say if the limits are whole units
(`WholeUnits`).

Only model-checked are the liveness properties, because fairness is outside the
prover: `UsageReachesLedger`, `StreamDrains`, `SelfHeals`, `CallsReturn`,
`ChargedThroughStripe`, and `Converges` and `DeletionCompletes` of each
controller. The four findings are counterexamples of TLC.

## Not modelled

* Start-up code, flags, configuration, TLS files, metrics, events and logging:
  set-up and output without protocol state.
* Authorization and JSON shapes of the webhook, the encoding of project lists
  and traits, URL building.
* Rates by dimension (`buildWirePrice` with `Match`), which are the same tiers
  under another key, and fees, which are copied into the plan; the reasons for
  which an offer is refused before any call.
* What Amberflo does with a request whose client gave up, beyond "applied or
  not when the call returns".
* Two Amberflo invoices that start in one month and so share an Invoice name.

## Plan

1. Done: the usage path (consumer, caches, ledger), the four reconcilers and
   their Amberflo clients, invoices, the HTTP client; proofs of every safety
   property of the passing runs and of the three refinements (`ImplementsLedger`,
   `ImplementsConsumer`, `ImplementsCall`).
2. Next, invariants that the liveness properties rest on: a reconcile that ends
   well leaves the customer, the assignment or the plan as the version it read
   asks for, and a key that is behind is queued or has a retry under way.
3. A second invoice under one name in `InvoiceSync`; `OfferController` in place
   of `PublishPlan` in `EntitlementController`.
