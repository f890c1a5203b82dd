------------------------- MODULE InvoiceSyncProofs --------------------------
(***************************************************************************)
(* Proofs about InvoiceSync, for any number of webhook requests, totals,   *)
(* payment statuses, changes and faults: type correctness, and that an     *)
(* Invoice is reported as paid only once Amberflo has settled it.          *)
(***************************************************************************)
EXTENDS InvoiceSync, TLAPS

Settled == bill.payment \in SettledStatuses

\* A status that claims a payment.
ClaimsPaid(s) == s.phase = "Paid" \/ s.paidAt

\* An actor that is in Upsert has a status to write, and one that is about to
\* send its status patch has the base it is compared with.
InProgress ==
  \A a \in Actors :
    /\ pc[a] # "idle" => want[a] \in Status
    /\ pc[a] = "patchStatus" => base[a] \in Status

\* PaidOnlyIfSettled is not inductive: what an actor is to write was computed
\* from an invoice it read earlier, maybe from the payload of an old event. A
\* settled payment is final, so what was settled once still is.
WantsAreSettled ==
  \A a \in Actors : pc[a] # "idle" /\ ClaimsPaid(want[a]) => Settled

PostedAreSettled ==
  \A e \in posted : e.payment \in SettledStatuses => Settled

IInv == TypeOK /\ InProgress /\ WantsAreSettled /\ PostedAreSettled /\ PaidOnlyIfSettled

-----------------------------------------------------------------------------

\* What Upsert wants is a status, and claims a payment only of a settled invoice.
LEMMA WantedStatusFacts ==
  ASSUME NEW b \in Bill, NEW late \in BOOLEAN
  PROVE  /\ WantedStatus(b, late) \in Status
         /\ ClaimsPaid(WantedStatus(b, late)) => b.payment \in SettledStatuses
<1>1. MapPhase(b, late) \in Phases
  BY DEF MapPhase, Phases
<1>2. MapPhase(b, late) = "Paid" => b.payment \in SettledStatuses
  BY DEF MapPhase
<1> QED
  BY <1>1, <1>2 DEF WantedStatus, Status, ClaimsPaid, Bill, Phases

\* A merge patch takes each field of the status from one side or the other.
LEMMA MergePatchFacts ==
  ASSUME NEW c \in Status, NEW f \in Status, NEW t \in Status
  PROVE  /\ MergePatch(c, f, t) \in Status
         /\ ClaimsPaid(MergePatch(c, f, t)) => ClaimsPaid(c) \/ ClaimsPaid(t)
<1>1. DOMAIN c = {"phase", "total", "paid", "due", "paidAt"}
  BY DEF Status
<1> DEFINE m == MergePatch(c, f, t)
<1>2. m = [phase |-> m.phase, total |-> m.total, paid |-> m.paid, due |-> m.due,
           paidAt |-> m.paidAt]
  BY <1>1 DEF MergePatch
<1>3. /\ m.phase \in {t.phase, c.phase} /\ m.total \in {t.total, c.total}
      /\ m.paid \in {t.paid, c.paid} /\ m.due \in {t.due, c.due}
      /\ m.paidAt \in {t.paidAt, c.paidAt}
  BY <1>1 DEF MergePatch
<1> HIDE DEF m
<1>4. /\ m.phase \in Phases \cup {""} /\ m.total \in Totals \cup {None}
      /\ m.paid \in Totals \cup {0, None} /\ m.due \in Totals \cup {0, None}
      /\ m.paidAt \in BOOLEAN
  BY <1>3 DEF Status
<1>5. m \in Status
  BY <1>2, <1>4 DEF Status
<1>6. ClaimsPaid(m) => ClaimsPaid(c) \/ ClaimsPaid(t)
  BY <1>3 DEF ClaimsPaid
<1> QED
  BY <1>5, <1>6 DEF m

-----------------------------------------------------------------------------
(* The inductive invariant.                                                *)

LEMMA InitIInv == Init => IInv
<1> SUFFICES ASSUME Init PROVE IInv
  OBVIOUS
<1>0. bill \in Bill /\ posted = {bill} /\ posted \subseteq Bill
  BY DEF Init
<1>1. TypeOK
  <2>1. changes \in 0 .. MaxChanges /\ faults \in 0 .. MaxFaults
    BY BoundsAssumption DEF Init
  <2>2. /\ overdue \in BOOLEAN /\ known \in BOOLEAN /\ listed \in BOOLEAN
        /\ invoice \in Status \cup {None} /\ (listed => invoice # None)
    BY DEF Init
  <2>3. /\ pc \in [Actors -> ActorStates]
        /\ want \in [Actors -> Status \cup {None}]
        /\ base \in [Actors -> Status \cup {None}]
        /\ \A a \in Actors : pc[a] = "idle"
    BY DEF Init, ActorStates
  <2> QED
    BY <1>0, <2>1, <2>2, <2>3 DEF TypeOK
<1>2. InProgress /\ WantsAreSettled /\ PaidOnlyIfSettled
  BY DEF Init, InProgress, WantsAreSettled, PaidOnlyIfSettled
<1>3. PostedAreSettled
  BY DEF Init, PostedAreSettled, Settled
<1> QED
  BY <1>1, <1>2, <1>3 DEF IInv

\* An actor that takes up an invoice, the current one or one that was posted.
LEMMA BeginStep ==
  ASSUME IInv, NEW a \in Actors, NEW b \in Bill,
         b.payment \in SettledStatuses => Settled,
         Begin(a, b), UNCHANGED <<bill, overdue, posted, known, invoice, listed, base, changes>>,
         faults' \in 0 .. MaxFaults
  PROVE  IInv'
<1>0. TypeOK /\ InProgress /\ WantsAreSettled /\ PostedAreSettled /\ PaidOnlyIfSettled
  BY DEF IInv
<1>1. /\ WantedStatus(b, overdue) \in Status
      /\ ClaimsPaid(WantedStatus(b, overdue)) => Settled
  BY <1>0, WantedStatusFacts DEF TypeOK
<1> DEFINE w == WantedStatus(b, overdue)
<1>2. /\ pc' = [pc EXCEPT ![a] = "get"]
      /\ want' = [want EXCEPT ![a] = w]
  BY DEF Begin
<1> HIDE DEF w
<1>3. w \in Status /\ (ClaimsPaid(w) => Settled)
  BY <1>1 DEF w
<1>4. TypeOK'
  BY <1>0, <1>2, <1>3 DEF TypeOK, ActorStates
<1>5. InProgress'
  BY <1>0, <1>2, <1>3 DEF InProgress, TypeOK
<1>6. WantsAreSettled'
  <2> SUFFICES ASSUME NEW c \in Actors, pc'[c] # "idle", ClaimsPaid(want'[c])
               PROVE  Settled
    BY DEF WantsAreSettled, Settled, ClaimsPaid
  <2>1. CASE c = a
    BY <2>1, <1>0, <1>2, <1>3 DEF TypeOK
  <2>2. CASE c # a
    BY <2>2, <1>0, <1>2 DEF TypeOK, WantsAreSettled
  <2> QED
    BY <2>1, <2>2
<1>7. PostedAreSettled' /\ PaidOnlyIfSettled'
  BY <1>0 DEF PostedAreSettled, PaidOnlyIfSettled, Settled
<1> QED
  BY <1>4, <1>5, <1>6, <1>7 DEF IInv

\* An actor that goes on to the next call with what it has.
LEMMA GotoStep ==
  ASSUME IInv, NEW a \in Actors, NEW l \in ActorStates, pc[a] # "idle", l # "patchStatus",
         Goto(a, l), UNCHANGED <<surroundings, faults>>,
         invoice' = invoice \/ (invoice = None /\ invoice' = Blank),
         l = "patchMeta" => invoice' # None
  PROVE  IInv'
<1>0. TypeOK /\ InProgress /\ WantsAreSettled /\ PostedAreSettled /\ PaidOnlyIfSettled
  BY DEF IInv
<1>1. pc' = [pc EXCEPT ![a] = l] /\ want' = want /\ base' = base
  BY DEF Goto
<1>2. Blank \in Status
  BY DEF Blank, Status
<1>3. invoice' \in Status \cup {None} /\ (invoice # None => invoice' # None)
  BY <1>0, <1>2 DEF TypeOK
<1>4. TypeOK'
  BY <1>0, <1>1, <1>3 DEF TypeOK, surroundings
<1>5. InProgress'
  BY <1>0, <1>1 DEF InProgress, TypeOK
<1>6. WantsAreSettled'
  BY <1>0, <1>1 DEF WantsAreSettled, TypeOK, Settled, ClaimsPaid, surroundings
<1>7. PostedAreSettled'
  BY <1>0 DEF PostedAreSettled, Settled, surroundings
<1>8. PaidOnlyIfSettled'
  <2>1. CASE invoice' = invoice
    BY <1>0, <2>1 DEF PaidOnlyIfSettled, surroundings
  <2>2. CASE invoice' = Blank
    BY <2>2 DEF PaidOnlyIfSettled, Blank
  <2> QED
    BY <2>1, <2>2
<1> QED
  BY <1>4, <1>5, <1>6, <1>7, <1>8 DEF IInv

\* An actor that returns, having written the Invoice or not.
LEMMA ReturnStep ==
  ASSUME IInv, NEW a \in Actors, Return(a), UNCHANGED surroundings,
         invoice' \in Status \cup {None}, invoice # None => invoice' # None,
         PaidOnlyIfSettled', faults' \in 0 .. MaxFaults
  PROVE  IInv'
<1>0. TypeOK /\ InProgress /\ WantsAreSettled /\ PostedAreSettled
  BY DEF IInv
<1>1. /\ pc' = [pc EXCEPT ![a] = "idle"]
      /\ want' = [want EXCEPT ![a] = None]
      /\ base' = [base EXCEPT ![a] = None]
  BY DEF Return
<1>2. TypeOK'
  BY <1>0, <1>1 DEF TypeOK, ActorStates, surroundings
<1>3. InProgress'
  BY <1>0, <1>1 DEF InProgress, TypeOK
<1>4. WantsAreSettled'
  BY <1>0, <1>1 DEF WantsAreSettled, TypeOK, Settled, ClaimsPaid, surroundings
<1>5. PostedAreSettled'
  BY <1>0 DEF PostedAreSettled, Settled, surroundings
<1> QED
  BY <1>2, <1>3, <1>4, <1>5 DEF IInv

LEMMA NextIInv == IInv /\ [Next]_vars => IInv'
<1> SUFFICES ASSUME IInv, [Next]_vars PROVE IInv'
  OBVIOUS
<1>0. TypeOK /\ InProgress /\ WantsAreSettled /\ PostedAreSettled /\ PaidOnlyIfSettled
  BY DEF IInv
<1>1. CASE BillChanges
  <2>1. ~Settled
    BY <1>1 DEF BillChanges, Settled
  <2>2. TypeOK'
    <3>1. bill' \in Bill /\ posted' \subseteq Bill
      BY <1>0, <1>1 DEF TypeOK, BillChanges
    <3>2. changes' \in 0 .. MaxChanges
      BY <1>0, <1>1, BoundsAssumption DEF TypeOK, BillChanges
    <3> QED
      BY <1>0, <1>1, <3>1, <3>2 DEF TypeOK, BillChanges
  <2>3. InProgress'
    BY <1>0, <1>1 DEF InProgress, BillChanges
  <2>4. WantsAreSettled'
    BY <1>0, <1>1, <2>1 DEF WantsAreSettled, ClaimsPaid, BillChanges
  <2>5. PostedAreSettled'
    BY <1>0, <1>1, <2>1 DEF PostedAreSettled, Settled, BillChanges
  <2>6. PaidOnlyIfSettled'
    BY <1>0, <1>1, <2>1 DEF PaidOnlyIfSettled, Settled, BillChanges
  <2> QED
    BY <2>2, <2>3, <2>4, <2>5, <2>6 DEF IInv
<1>2. CASE DueDatePasses \/ AccountListed \/ InvoiceListed \/ UNCHANGED vars
  <2>1. UNCHANGED <<bill, posted, invoice, pc, want, base, changes, faults>>
    BY <1>2 DEF DueDatePasses, AccountListed, InvoiceListed, vars
  <2>2. /\ overdue' \in BOOLEAN /\ known' \in BOOLEAN
        /\ listed' \in BOOLEAN /\ (listed' => invoice # None)
    <3>1. CASE DueDatePasses
      BY <1>0, <3>1 DEF TypeOK, DueDatePasses
    <3>2. CASE AccountListed
      BY <1>0, <3>2 DEF TypeOK, AccountListed
    <3>3. CASE InvoiceListed
      BY <1>0, <3>3 DEF TypeOK, InvoiceListed
    <3>4. CASE UNCHANGED vars
      BY <1>0, <3>4 DEF TypeOK, vars
    <3> QED
      BY <1>2, <3>1, <3>2, <3>3, <3>4
  <2>3. TypeOK'
    BY <1>0, <2>1, <2>2 DEF TypeOK
  <2>4. InProgress' /\ WantsAreSettled' /\ PostedAreSettled' /\ PaidOnlyIfSettled'
    BY <1>0, <2>1
       DEF InProgress, WantsAreSettled, PostedAreSettled, PaidOnlyIfSettled, Settled, ClaimsPaid
  <2> QED
    BY <2>3, <2>4 DEF IInv
<1>3. CASE ReconcileInvoices
  BY <1>0, <1>3, BeginStep DEF ReconcileInvoices, Actors, TypeOK, Settled
<1>4. ASSUME NEW h \in Handlers, HandleEvent(h)
      PROVE  IInv'
  <2>1. h \in Actors
    BY DEF Actors
  <2>2. CASE Begin(h, bill) /\ UNCHANGED faults
    BY <1>0, <1>4, <2>1, <2>2, BeginStep DEF HandleEvent, TypeOK, Settled
  <2>3. ASSUME NEW e \in posted, Begin(h, e), SpendFault
        PROVE  IInv'
    <3>1. e \in Bill /\ (e.payment \in SettledStatuses => Settled)
      BY <1>0 DEF TypeOK, PostedAreSettled
    <3>2. faults' \in 0 .. MaxFaults
      BY <1>0, <2>3, BoundsAssumption DEF SpendFault, TypeOK
    <3> QED
      BY <1>4, <2>1, <2>3, <3>1, <3>2, BeginStep DEF HandleEvent
  <2> QED
    BY <1>4, <2>2, <2>3 DEF HandleEvent
<1>5. ASSUME NEW a \in Actors, GetInvoice(a)
      PROVE  IInv'
  <2> DEFINE l == IF listed THEN "patchMeta" ELSE "create"
  <2>1. l \in ActorStates /\ l # "patchStatus" /\ (l = "patchMeta" => invoice' # None)
    BY <1>0, <1>5 DEF TypeOK, ActorStates, GetInvoice
  <2>2. pc[a] # "idle" /\ Goto(a, l) /\ UNCHANGED <<surroundings, invoice, faults>>
    BY <1>5 DEF GetInvoice
  <2> QED
    BY <2>1, <2>2, GotoStep
<1>6. ASSUME NEW a \in Actors, CreateInvoice(a)
      PROVE  IInv'
  <2>1. pc[a] # "idle" /\ UNCHANGED <<surroundings, faults>>
    BY <1>6 DEF CreateInvoice
  <2>2. Blank # None
    <3>1. Blank \in Status
      BY DEF Blank, Status
    <3> QED
      BY <3>1, NoneIsNoRecord
  <2>3. CASE invoice = None /\ invoice' = Blank /\ Goto(a, "patchMeta")
    BY <2>1, <2>2, <2>3, GotoStep DEF ActorStates
  <2>4. CASE invoice # None /\ UNCHANGED invoice /\ Goto(a, "reget")
    BY <2>1, <2>4, GotoStep DEF ActorStates
  <2> QED
    BY <1>6, <2>3, <2>4 DEF CreateInvoice
<1>7. ASSUME NEW a \in Actors, RegetInvoice(a)
      PROVE  IInv'
  <2>1. pc[a] # "idle" /\ UNCHANGED <<surroundings, invoice, faults>>
    BY <1>7 DEF RegetInvoice
  <2>2. CASE listed /\ Goto(a, "patchMeta")
    BY <1>0, <2>1, <2>2, GotoStep DEF ActorStates, TypeOK
  <2>3. CASE ~listed /\ Return(a)
    <3>1. PaidOnlyIfSettled'
      BY <1>0, <2>1 DEF PaidOnlyIfSettled, surroundings
    <3>2. invoice' \in Status \cup {None} /\ faults' \in 0 .. MaxFaults
      BY <1>0, <2>1 DEF TypeOK
    <3> QED
      BY <2>1, <2>3, <3>1, <3>2, ReturnStep
  <2> QED
    BY <1>7, <2>2, <2>3 DEF RegetInvoice
<1>8. ASSUME NEW a \in Actors, PatchMetadata(a)
      PROVE  IInv'
  <2>1. /\ pc' = [pc EXCEPT ![a] = "patchStatus"] /\ base' = [base EXCEPT ![a] = invoice]
        /\ UNCHANGED <<surroundings, invoice, want, faults>> /\ pc[a] # "idle"
    BY <1>8 DEF PatchMetadata
  <2>2. invoice # None
    BY <1>0, <1>8 DEF PatchMetadata, TypeOK
  <2>3. TypeOK'
    BY <1>0, <2>1, <2>2 DEF TypeOK, ActorStates, surroundings
  <2>4. InProgress'
    BY <1>0, <2>1, <2>2 DEF InProgress, TypeOK
  <2>5. WantsAreSettled'
    BY <1>0, <2>1 DEF WantsAreSettled, TypeOK, Settled, ClaimsPaid, surroundings
  <2>6. PostedAreSettled' /\ PaidOnlyIfSettled'
    BY <1>0, <2>1 DEF PostedAreSettled, PaidOnlyIfSettled, Settled, surroundings
  <2> QED
    BY <2>3, <2>4, <2>5, <2>6 DEF IInv
<1>9. ASSUME NEW a \in Actors, PatchStatus(a)
      PROVE  IInv'
  <2>1. /\ invoice' = MergePatch(invoice, base[a], want[a])
        /\ Return(a) /\ UNCHANGED <<surroundings, faults>>
    BY <1>9 DEF PatchStatus
  <2>2. invoice \in Status /\ base[a] \in Status /\ want[a] \in Status
    BY <1>0, <1>9 DEF PatchStatus, TypeOK, InProgress
  <2>3. invoice' \in Status
    BY <2>1, <2>2, MergePatchFacts
  <2>4. ClaimsPaid(invoice') => ClaimsPaid(invoice) \/ ClaimsPaid(want[a])
    BY <2>1, <2>2, MergePatchFacts
  <2>5. ClaimsPaid(want[a]) => Settled
    BY <1>0, <1>9 DEF PatchStatus, WantsAreSettled
  <2>6. ClaimsPaid(invoice) => Settled
    BY <1>0, <2>2, NoneIsNoRecord DEF PaidOnlyIfSettled, ClaimsPaid, Settled
  <2>7. PaidOnlyIfSettled'
    BY <2>1, <2>4, <2>5, <2>6 DEF PaidOnlyIfSettled, ClaimsPaid, Settled, surroundings
  <2>8. invoice' # None /\ faults' \in 0 .. MaxFaults
    BY <1>0, <2>1, <2>3, NoneIsNoRecord DEF TypeOK
  <2> QED
    BY <2>1, <2>3, <2>7, <2>8, ReturnStep
<1>10. ASSUME NEW a \in Actors, UpsertFails(a)
       PROVE  IInv'
  <2>1. Return(a) /\ UNCHANGED <<surroundings, invoice>>
    BY <1>10 DEF UpsertFails
  <2>2. PaidOnlyIfSettled'
    BY <1>0, <2>1 DEF PaidOnlyIfSettled, surroundings
  <2>3. invoice' \in Status \cup {None} /\ faults' \in 0 .. MaxFaults
    BY <1>0, <1>10, BoundsAssumption DEF TypeOK, UpsertFails, SpendFault
  <2> QED
    BY <2>1, <2>2, <2>3, ReturnStep
<1> QED
  BY <1>1, <1>2, <1>3, <1>4, <1>5, <1>6, <1>7, <1>8, <1>9, <1>10 DEF Next, Upsert

THEOREM Invariant == Spec => []IInv
<1>1. Init => IInv
  BY InitIInv
<1>2. IInv /\ [Next]_vars => IInv'
  BY NextIInv
<1> QED
  BY <1>1, <1>2, PTL DEF Spec

\* Every variable keeps its type; in particular an actor only reaches the two
\* patches of Upsert when there is an Invoice to patch.
THEOREM TypeCorrect == Spec => []TypeOK
<1>1. IInv => TypeOK
  BY DEF IInv
<1> QED
  BY <1>1, Invariant, PTL

\* However many webhook requests run beside the reconciler, however old the
\* event one of them works from, and however their merge patches interleave,
\* the Invoice is reported as paid only once Amberflo has settled it.
THEOREM PaidIsSettled == Spec => []PaidOnlyIfSettled
<1>1. IInv => PaidOnlyIfSettled
  BY DEF IInv
<1> QED
  BY <1>1, Invariant, PTL
=============================================================================
