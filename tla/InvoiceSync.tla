---------------------------- MODULE InvoiceSync -----------------------------
(***************************************************************************)
(* The projection of one Amberflo invoice onto one Milo Invoice            *)
(* (internal/invoice/sync.go, phase.go): Syncer.Upsert, run concurrently   *)
(* by the BillingAccount reconciler (syncInvoices) and by the webhook      *)
(* handler (internal/webhook/invoice.go).                                  *)
(*                                                                         *)
(* Amberflo and the API server are external. Get reads the informer cache, *)
(* which learns of the Invoice late; a patch returns the server's version, *)
(* and the status patch is a merge patch of the fields that differ from    *)
(* the version the metadata patch returned, with no resourceVersion check. *)
(***************************************************************************)
EXTENDS Naturals

CONSTANTS
  Handlers,     \* webhook requests that may be in progress at once
  Reconciler,   \* the BillingAccount worker
  Statuses,     \* payment statuses Amberflo goes through
  Totals,       \* invoice totals, in cents
  None,
  MaxChanges,   \* bound on changes of the invoice at Amberflo
  MaxFaults     \* bound on failed calls, crashes and stale payloads

Actors == Handlers \cup {Reconciler}
Phases == {"Open", "PastDue", "Paid"}
SettledStatuses == {"SETTLED", "NOT_NEEDED"}

ASSUME ActorsAssumption == Reconciler \notin Handlers
ASSUME TotalsAssumption == Totals \subseteq Nat
ASSUME BoundsAssumption == MaxChanges \in Nat /\ MaxFaults \in Nat

VARIABLES
  bill,       \* the invoice at Amberflo
  overdue,    \* invoice end plus grace period has passed
  posted,     \* payloads of the webhook events Amberflo has posted
  known,      \* the informer knows the BillingAccount
  invoice,    \* status of the Milo Invoice at the API server, or None
  listed,     \* the informer knows the Invoice
  pc,         \* where each actor is in Upsert
  want,       \* the status each actor is to write
  base,       \* statusBase: the status its metadata patch returned
  changes, faults

vars == <<bill, overdue, posted, known, invoice, listed, pc, want, base, changes, faults>>

Bill == [payment : Statuses, total : Totals]

\* A new Invoice has an empty status.
Blank == [phase |-> "", total |-> None, paid |-> None, due |-> None, paidAt |-> FALSE]
Status == [phase : Phases \cup {""}, total : Totals \cup {None},
           paid : Totals \cup {0, None}, due : Totals \cup {0, None}, paidAt : BOOLEAN]

ASSUME NoneIsNoRecord == None \notin Status

ActorStates == {"idle", "get", "create", "reget", "patchMeta", "patchStatus"}

TypeOK ==
  /\ bill \in Bill
  /\ overdue \in BOOLEAN
  /\ posted \subseteq Bill
  /\ known \in BOOLEAN
  /\ invoice \in Status \cup {None}
  /\ listed \in BOOLEAN /\ (listed => invoice # None)
  /\ pc \in [Actors -> ActorStates]
  /\ want \in [Actors -> Status \cup {None}]
  /\ base \in [Actors -> Status \cup {None}]
  /\ \A a \in Actors : pc[a] \in {"patchMeta", "patchStatus"} => invoice # None
  /\ changes \in 0 .. MaxChanges
  /\ faults \in 0 .. MaxFaults

Init ==
  /\ bill \in {b \in Bill : b.payment \notin SettledStatuses}
  /\ overdue = FALSE /\ posted = {bill}
  /\ known = FALSE /\ invoice = None /\ listed = FALSE
  /\ pc = [a \in Actors |-> "idle"]
  /\ want = [a \in Actors |-> None]
  /\ base = [a \in Actors |-> None]
  /\ changes = 0 /\ faults = 0

-----------------------------------------------------------------------------
(* What Upsert computes.                                                   *)

\* Variant: a failed payment taken for a settled one.
MapPhaseFailedIsPaid(b, late) ==
  CASE b.payment \in SettledStatuses \cup {"FAILED"} -> "Paid"
    [] OTHER -> IF late THEN "PastDue" ELSE "Open"

\* pastDue is the second argument: it depends on the clock at the call.
MapPhase(b, late) ==
  CASE b.payment \in SettledStatuses -> "Paid"
    [] b.payment = "FAILED"          -> "PastDue"
    [] OTHER                         -> IF late THEN "PastDue" ELSE "Open"

\* The status Upsert wants, with the amounts that Amounts derives.
WantedStatus(b, late) ==
  LET phase == MapPhase(b, late) IN
    [phase  |-> phase,
     total  |-> b.total,
     paid   |-> IF phase = "Paid" THEN b.total ELSE 0,
     due    |-> IF phase = "Paid" THEN 0 ELSE b.total,
     paidAt |-> phase = "Paid"]

\* Variant: the status patch is taken from a copy that already has the new
\* values, so it is empty.
PatchNothing(current, from, to) == current

\* A JSON merge patch: only the fields that differ from the base are sent.
MergePatch(current, from, to) ==
  [f \in DOMAIN current |-> IF to[f] # from[f] THEN to[f] ELSE current[f]]

-----------------------------------------------------------------------------
(* Amberflo, the clock and the informers.                                  *)

\* The invoice changes at Amberflo, which posts an event; a settled payment
\* is final.
BillChanges ==
  /\ changes < MaxChanges /\ changes' = changes + 1
  /\ bill.payment \notin SettledStatuses
  /\ bill' \in Bill \ {bill}
  /\ posted' = posted \cup {bill'}
  /\ UNCHANGED <<overdue, known, invoice, listed, pc, want, base, faults>>

DueDatePasses ==
  /\ ~overdue /\ overdue' = TRUE
  /\ UNCHANGED <<bill, posted, known, invoice, listed, pc, want, base, changes, faults>>

AccountListed ==
  /\ ~known /\ known' = TRUE
  /\ UNCHANGED <<bill, overdue, posted, invoice, listed, pc, want, base, changes, faults>>

InvoiceListed ==
  /\ invoice # None /\ ~listed /\ listed' = TRUE
  /\ UNCHANGED <<bill, overdue, posted, known, invoice, pc, want, base, changes, faults>>

SpendFault == faults < MaxFaults /\ faults' = faults + 1

-----------------------------------------------------------------------------
(* The two callers of Upsert.                                              *)

Begin(a, b) ==
  /\ pc' = [pc EXCEPT ![a] = "get"]
  /\ want' = [want EXCEPT ![a] = WantedStatus(b, overdue)]

\* syncInvoices: the account is reconciled, on an event or on the informer's
\* resync, and ListInvoices returns the invoice.
ReconcileInvoices ==
  /\ pc[Reconciler] = "idle" /\ known
  /\ Begin(Reconciler, bill)
  /\ UNCHANGED <<bill, overdue, posted, known, invoice, listed, base, changes, faults>>

\* The webhook handler: GetInvoice, or the embedded payload when Amberflo
\* does not find the invoice by its key. An event may come late, again (after
\* an answer other than 200), out of order or never. One for an account that
\* is not known is acknowledged and ignored.
HandleEvent(h) ==
  /\ pc[h] = "idle" /\ known
  /\ \/ Begin(h, bill) /\ UNCHANGED faults
     \/ \E e \in posted : Begin(h, e) /\ SpendFault
  /\ UNCHANGED <<bill, overdue, posted, known, invoice, listed, base, changes>>

-----------------------------------------------------------------------------
(* Upsert.                                                                 *)

Goto(a, l) ==
  /\ pc' = [pc EXCEPT ![a] = l]
  /\ UNCHANGED <<want, base>>

\* Upsert returns. After an error the reconciler is requeued, and Amberflo
\* posts the event again.
Return(a) ==
  /\ pc' = [pc EXCEPT ![a] = "idle"]
  /\ want' = [want EXCEPT ![a] = None]
  /\ base' = [base EXCEPT ![a] = None]

surroundings == <<bill, overdue, posted, known, listed, changes>>

\* Variant: NotFound is not looked at.
GetIgnoringNotFound(a) ==
  /\ pc[a] = "get"
  /\ Goto(a, "patchMeta")
  /\ UNCHANGED <<surroundings, invoice, faults>>

\* The cached Get that decides between create and patch.
GetInvoice(a) ==
  /\ pc[a] = "get"
  /\ Goto(a, IF listed THEN "patchMeta" ELSE "create")
  /\ UNCHANGED <<surroundings, invoice, faults>>

\* Create, or AlreadyExists when the other actor was first.
CreateInvoice(a) ==
  /\ pc[a] = "create"
  /\ \/ invoice = None /\ invoice' = Blank /\ Goto(a, "patchMeta")
     \/ invoice # None /\ UNCHANGED invoice /\ Goto(a, "reget")
  /\ UNCHANGED <<surroundings, faults>>

\* The Get after a lost create race reads the cache, which may not have the
\* Invoice yet: then Upsert fails.
RegetInvoice(a) ==
  /\ pc[a] = "reget"
  /\ \/ listed /\ Goto(a, "patchMeta")
     \/ ~listed /\ Return(a)
  /\ UNCHANGED <<surroundings, invoice, faults>>

\* The metadata patch, whose answer is the base of the status patch.
PatchMetadata(a) ==
  /\ pc[a] = "patchMeta"
  /\ base' = [base EXCEPT ![a] = invoice]
  /\ pc' = [pc EXCEPT ![a] = "patchStatus"]
  /\ UNCHANGED <<surroundings, invoice, want, faults>>

PatchStatus(a) ==
  /\ pc[a] = "patchStatus"
  /\ invoice' = MergePatch(invoice, base[a], want[a])
  /\ Return(a)
  /\ UNCHANGED <<surroundings, faults>>

\* Any call fails, or the process dies, part of the way through.
UpsertFails(a) ==
  /\ pc[a] # "idle" /\ SpendFault
  /\ Return(a)
  /\ UNCHANGED <<surroundings, invoice>>

Upsert(a) ==
  GetInvoice(a) \/ CreateInvoice(a) \/ RegetInvoice(a) \/ PatchMetadata(a) \/ PatchStatus(a)

Next ==
  \/ BillChanges \/ DueDatePasses \/ AccountListed \/ InvoiceListed
  \/ ReconcileInvoices
  \/ \E h \in Handlers : HandleEvent(h)
  \/ \E a \in Actors : Upsert(a) \/ UpsertFails(a)

\* Informers deliver, an upsert that has begun goes on, and the account is
\* reconciled again and again (the informer's periodic resync). No fairness
\* is assumed of Amberflo's webhook deliveries.
Fairness ==
  /\ WF_vars(AccountListed) /\ WF_vars(InvoiceListed)
  /\ WF_vars(ReconcileInvoices)
  /\ \A a \in Actors : WF_vars(Upsert(a))

Spec == Init /\ [][Next]_vars
FairSpec == Spec /\ Fairness

-----------------------------------------------------------------------------

\* An Invoice is only reported as paid, and only with a payment time, once
\* Amberflo has settled it, whichever actor's fields were written last.
PaidOnlyIfSettled ==
  invoice # None /\ (invoice.phase = "Paid" \/ invoice.paidAt) =>
    bill.payment \in SettledStatuses

\* Once the invoice rests at Amberflo, the Milo Invoice ends up with exactly
\* its status, whatever events were lost, whatever was torn by concurrent
\* upserts (docs/enhancements/invoicing.md: a missed delivery self-heals).
SelfHeals == <>[](invoice = WantedStatus(bill, overdue))

\* The comment at phase.go:105-107: a paid invoice has nothing due and its
\* total paid, any other nothing paid and its total due.
AmountsMatchPhase ==
  invoice # None /\ invoice.phase # "" =>
    IF invoice.phase = "Paid"
    THEN invoice.due = 0 /\ invoice.paid = invoice.total
    ELSE invoice.paid = 0 /\ invoice.due = invoice.total
=============================================================================
