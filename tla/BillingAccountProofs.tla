------------------------ MODULE BillingAccountProofs -------------------------
(***************************************************************************)
(* Proofs about BillingAccountController, for any UIDs, specs, Stripe ids, *)
(* dates, faults and user steps: type correctness, that no enabled         *)
(* customer is left without its account, that a customer never loses its   *)
(* Stripe id, and when a payment switch waits for a period start.          *)
(***************************************************************************)
EXTENDS BillingAccountController, TLAPS

Held(a) == a # None /\ a.finalizer

\* The versions that the informer has delivered last or has yet to deliver,
\* the oldest first.
Ver(i) == IF i = 0 THEN cached ELSE feed[i]
Versions == 0 .. Len(feed)

\* The newest version is what the API server has.
Latest == Ver(Len(feed)) = api

\* A finalizer is only released when the account is known to be deleted.
HeldStays ==
  \A i \in Versions : Held(Ver(i)) /\ ~Ver(i).deleting => Held(api) /\ api.uid = Ver(i).uid

\* Server-side apply carries no version, so what keeps a finalizer where it
\* belongs is the order of the versions. From a version that is held and being
\* deleted up to any later one that is held, the account is the same one: no
\* namesake has been given the finalizer in between.
DeletionOrder ==
  \A i, j, k \in Versions :
    i <= j /\ j <= k /\ Held(Ver(i)) /\ Ver(i).deleting /\ Held(Ver(k)) =>
      Held(Ver(j)) /\ Ver(j).uid = Ver(i).uid /\ Ver(j).deleting

\* A finalizer that was attached after some version is still there.
AttachedSince ==
  \A i, j \in Versions : i <= j /\ ~Held(Ver(i)) /\ Held(Ver(j)) => Held(api)

InOrder == Latest /\ HeldStays /\ DeletionOrder /\ AttachedSince

EnsureStates == {"preserve", "ensureGet", "ensurePut", "listSwitches",
                 "postSwitch", "invoices"}
DeletionStates == {"disableGet", "disablePut", "release"}

\* What each path of Reconcile knows of the account.
OnPath ==
  /\ pc = "addFinalizer" => \A i \in Versions : Held(Ver(i)) => Held(api)
  /\ pc \in EnsureStates => Held(api) /\ api.uid = acct.uid
  /\ pc \in DeletionStates =>
       /\ acct.deleting
       /\ \A i, j \in Versions : i <= j /\ Held(Ver(j)) =>
            Held(Ver(i)) /\ Ver(j).uid = acct.uid /\ Ver(j).deleting

\* The finalizer goes after the customer is disabled.
DisabledFirst ==
  pc = "release" /\ customers[acct.uid] # None /\ customers[acct.uid].enabled => acct.uid \in forced

\* What EnsureCustomer and DisableCustomer are to write keeps the Stripe id.
StripeCarried ==
  /\ pc \in {"ensureGet", "ensurePut"} /\ customers[acct.uid] # None /\ customers[acct.uid].stripe # None
       => want # None
  /\ pc = "disablePut" => existing = customers[acct.uid]

IInv == TypeOK /\ InOrder /\ OnPath /\ DisabledFirst /\ StripeCarried /\ NoOrphanCustomer
-----------------------------------------------------------------------------
(* Versions.                                                               *)

\* A write adds the newest version and changes no other.
LEMMA VersionsAfterWrite ==
  ASSUME TypeOK, NEW a \in Account \cup {None}, Write(a), cached' = cached
  PROVE  /\ Len(feed) \in Nat /\ Len(feed') = Len(feed) + 1
         /\ feed' \in Seq(Account \cup {None})
         /\ \A i \in Versions : Ver(i)' = Ver(i)
         /\ \A i : i = Len(feed) + 1 => Ver(i)' = a
         /\ \A i \in Versions' : i \in Versions \/ i = Len(feed) + 1
<1>1. feed \in Seq(Account \cup {None}) /\ feed' = Append(feed, a)
  BY DEF TypeOK, Write
<1>2. /\ Len(feed) \in Nat /\ Len(feed') = Len(feed) + 1
      /\ feed' \in Seq(Account \cup {None})
      /\ \A i \in 1 .. Len(feed) : feed'[i] = feed[i]
      /\ feed'[Len(feed) + 1] = a
  BY <1>1
<1>3. \A i \in Versions : Ver(i)' = Ver(i)
  BY <1>2 DEF Ver, Versions
<1>4. \A i : i = Len(feed) + 1 => Ver(i)' = a
  BY <1>2 DEF Ver
<1>5. \A i \in Versions' : i \in Versions \/ i = Len(feed) + 1
  BY <1>2 DEF Versions
<1> QED
  BY <1>2, <1>3, <1>4, <1>5

\* The newest version is one of them.
LEMMA LatestVersion ==
  ASSUME TypeOK, Latest
  PROVE  Len(feed) \in Versions /\ Ver(Len(feed)) = api /\ Len(feed) \in Nat
         /\ 0 \in Versions /\ Ver(0) = cached
         /\ \A i \in Versions : i \in Nat /\ i <= Len(feed)
<1>1. Len(feed) \in Nat
  BY DEF TypeOK
<1> QED
  BY <1>1 DEF Versions, Latest, Ver

\* A write that neither attaches nor takes back a finalizer, nor a deletion.
LEMMA PlainWrite ==
  ASSUME TypeOK, InOrder, NEW a \in Account \cup {None}, Write(a), cached' = cached,
         Held(api) => Held(a) /\ a.uid = api.uid /\ (api.deleting => a.deleting),
         Held(a) => Held(api)
  PROVE  InOrder'
<1>0. Latest /\ HeldStays /\ DeletionOrder /\ AttachedSince /\ api' = a
  BY DEF InOrder, Write
<1> DEFINE n == Len(feed)
<1>1. /\ n \in Nat /\ Len(feed') = n + 1
      /\ \A i \in Versions : Ver(i)' = Ver(i)
      /\ \A i : i = n + 1 => Ver(i)' = a
      /\ \A i \in Versions' : i \in Versions \/ i = n + 1
  BY VersionsAfterWrite
<1>2. n \in Versions /\ Ver(n) = api /\ \A i \in Versions : i \in Nat /\ i <= n
  BY <1>0, LatestVersion
<1> HIDE DEF n
<1>3. Latest'
  BY <1>0, <1>1 DEF Latest
<1>4. HeldStays'
  <2> SUFFICES ASSUME NEW i \in Versions', Held(Ver(i)'), ~Ver(i)'.deleting
               PROVE  Held(a) /\ a.uid = Ver(i)'.uid
    BY <1>0 DEF HeldStays, Held
  <2>1. CASE i \in Versions
    BY <1>0, <1>1, <2>1 DEF HeldStays
  <2>2. CASE i = n + 1
    BY <1>1, <2>2
  <2> QED
    BY <1>1, <2>1, <2>2
<1>5. DeletionOrder'
  <2> SUFFICES ASSUME NEW i \in Versions', NEW j \in Versions', NEW k \in Versions', i <= j, j <= k,
                      Held(Ver(i)'), Ver(i)'.deleting, Held(Ver(k)')
               PROVE  Held(Ver(j)') /\ Ver(j)'.uid = Ver(i)'.uid /\ Ver(j)'.deleting
    BY DEF DeletionOrder, Held
  <2>1. CASE k \in Versions
    <3>1. i \in Versions /\ j \in Versions
      BY <1>1, <1>2, <2>1
    <3> QED
      BY <1>0, <1>1, <2>1, <3>1 DEF DeletionOrder
  <2>2. CASE k = n + 1 /\ i \in Versions
    <3>1. Held(Ver(i)) /\ Ver(i).deleting /\ i <= n /\ Held(api)
      BY <1>1, <1>2, <2>2
    <3>2. api.uid = Ver(i).uid /\ api.deleting
      BY <1>0, <1>2, <2>2, <3>1 DEF DeletionOrder
    <3>3. CASE j \in Versions
      BY <1>0, <1>1, <1>2, <2>2, <3>1, <3>3 DEF DeletionOrder
    <3>4. CASE j = n + 1
      BY <1>1, <2>2, <3>1, <3>2, <3>4
    <3> QED
      BY <1>1, <3>3, <3>4
  <2>3. CASE k = n + 1 /\ i = n + 1
    <3>1. j = n + 1
      BY <1>1, <1>2, <2>3
    <3> QED
      BY <1>1, <2>3, <3>1
  <2> QED
    BY <1>1, <2>1, <2>2, <2>3
<1>6. AttachedSince'
  <2> SUFFICES ASSUME NEW i \in Versions', NEW j \in Versions', i <= j,
                      ~Held(Ver(i)'), Held(Ver(j)')
               PROVE  Held(a)
    BY <1>0 DEF AttachedSince, Held
  <2>1. CASE j \in Versions
    <3>1. i \in Versions
      BY <1>1, <1>2, <2>1
    <3> QED
      BY <1>0, <1>1, <2>1, <3>1 DEF AttachedSince
  <2>2. CASE j = n + 1
    BY <1>1, <2>2
  <2> QED
    BY <1>1, <2>1, <2>2
<1> QED
  BY <1>3, <1>4, <1>5, <1>6 DEF InOrder

\* The finalizer is attached when no version has it.
LEMMA AttachingWrite ==
  ASSUME TypeOK, InOrder, NEW a \in Account, Write(a), cached' = cached,
         Held(a), \A i \in Versions : ~Held(Ver(i))
  PROVE  InOrder'
<1>0. api' = a
  BY DEF Write
<1> DEFINE n == Len(feed)
<1>1. /\ n \in Nat /\ Len(feed') = n + 1
      /\ \A i \in Versions : Ver(i)' = Ver(i)
      /\ \A i : i = n + 1 => Ver(i)' = a
      /\ \A i \in Versions' : i \in Versions \/ i = n + 1
  BY VersionsAfterWrite
<1> HIDE DEF n
<1>2. \A i \in Versions' : Held(Ver(i)') => i = n + 1 /\ Ver(i)' = a
  BY <1>1
<1>3. \A i \in Versions' : i <= n + 1 /\ i \in Nat
  BY <1>1 DEF Versions
<1>4. Latest'
  BY <1>0, <1>1 DEF Latest
<1>5. HeldStays'
  BY <1>0, <1>2 DEF HeldStays, Held
<1>6. AttachedSince'
  BY <1>0 DEF AttachedSince, Held
<1>7. DeletionOrder'
  <2> SUFFICES ASSUME NEW i \in Versions', NEW j \in Versions', NEW k \in Versions', i <= j, j <= k,
                      Held(Ver(i)'), Ver(i)'.deleting, Held(Ver(k)')
               PROVE  Held(Ver(j)') /\ Ver(j)'.uid = Ver(i)'.uid /\ Ver(j)'.deleting
    BY DEF DeletionOrder, Held
  <2>1. i = n + 1 /\ j = n + 1
    BY <1>1, <1>2, <1>3
  <2> QED
    BY <1>1, <2>1
<1> QED
  BY <1>4, <1>5, <1>6, <1>7 DEF InOrder

\* The account goes away when every held version is being deleted.
LEMMA ReleasingWrite ==
  ASSUME TypeOK, InOrder, Write(None), cached' = cached,
         \A i, j \in Versions : i <= j /\ Held(Ver(j)) => Held(Ver(i)) /\ Ver(j).deleting
  PROVE  InOrder'
<1>0. DeletionOrder /\ api' = None
  BY DEF Write, InOrder
<1> DEFINE n == Len(feed)
<1>1. /\ n \in Nat /\ Len(feed') = n + 1
      /\ \A i \in Versions : Ver(i)' = Ver(i)
      /\ \A i : i = n + 1 => Ver(i)' = None
      /\ \A i \in Versions' : i \in Versions \/ i = n + 1
  BY VersionsAfterWrite
<1>2. \A i \in Versions : i <= n /\ i \in Nat
  BY <1>1 DEF Versions
<1> HIDE DEF n
<1>3. \A i \in Versions' : Held(Ver(i)') => i \in Versions
  BY <1>1 DEF Held
<1>4. Latest'
  BY <1>0, <1>1 DEF Latest
<1>5. HeldStays'
  <2> SUFFICES ASSUME NEW i \in Versions', Held(Ver(i)'), ~Ver(i)'.deleting
               PROVE  FALSE
    BY DEF HeldStays, Held
  <2> QED
    BY <1>1, <1>2, <1>3
<1>6. AttachedSince'
  <2> SUFFICES ASSUME NEW i \in Versions', NEW j \in Versions', i <= j,
                      ~Held(Ver(i)'), Held(Ver(j)')
               PROVE  FALSE
    BY DEF AttachedSince, Held
  <2>1. j \in Versions /\ i \in Versions
    BY <1>1, <1>2, <1>3
  <2> QED
    BY <1>1, <2>1
<1>7. DeletionOrder'
  <2> SUFFICES ASSUME NEW i \in Versions', NEW j \in Versions', NEW k \in Versions', i <= j, j <= k,
                      Held(Ver(i)'), Ver(i)'.deleting, Held(Ver(k)')
               PROVE  Held(Ver(j)') /\ Ver(j)'.uid = Ver(i)'.uid /\ Ver(j)'.deleting
    BY DEF DeletionOrder, Held
  <2>1. i \in Versions /\ j \in Versions /\ k \in Versions
    BY <1>1, <1>2, <1>3
  <2> QED
    BY <1>0, <1>1, <2>1 DEF DeletionOrder
<1> QED
  BY <1>4, <1>5, <1>6, <1>7 DEF InOrder

\* The informer delivers a version.
LEMMA Delivery ==
  ASSUME TypeOK, InOrder, feed # <<>>, cached' = Head(feed), feed' = Tail(feed), api' = api
  PROVE  /\ InOrder' /\ feed' \in Seq(Account \cup {None}) /\ cached' \in Account \cup {None}
         /\ \A i \in Versions' : i + 1 \in Versions /\ Ver(i)' = Ver(i + 1) /\ i \in Nat
<1>0. Latest /\ HeldStays /\ DeletionOrder /\ AttachedSince /\ feed \in Seq(Account \cup {None})
  BY DEF InOrder, TypeOK
<1>1. /\ Len(feed) \in Nat \ {0} /\ Len(feed') = Len(feed) - 1
      /\ feed' \in Seq(Account \cup {None})
      /\ cached' = feed[1] /\ cached' \in Account \cup {None}
      /\ \A i \in 1 .. Len(feed') : feed'[i] = feed[i + 1]
  BY <1>0
<1>2. \A i \in Versions' : i + 1 \in Versions /\ Ver(i)' = Ver(i + 1) /\ i \in Nat
  BY <1>1 DEF Versions, Ver
<1>3. Latest'
  BY <1>0, <1>1, <1>2 DEF Latest, Versions
<1>4. HeldStays'
  BY <1>0, <1>2 DEF HeldStays, Held
<1>5. DeletionOrder'
  <2> SUFFICES ASSUME NEW i \in Versions', NEW j \in Versions', NEW k \in Versions', i <= j, j <= k,
                      Held(Ver(i)'), Ver(i)'.deleting, Held(Ver(k)')
               PROVE  Held(Ver(j)') /\ Ver(j)'.uid = Ver(i)'.uid /\ Ver(j)'.deleting
    BY DEF DeletionOrder, Held
  <2>1. i + 1 <= j + 1 /\ j + 1 <= k + 1
    BY <1>2
  <2> QED
    BY <1>0, <1>2, <2>1 DEF DeletionOrder
<1>6. AttachedSince'
  <2> SUFFICES ASSUME NEW i \in Versions', NEW j \in Versions', i <= j,
                      ~Held(Ver(i)'), Held(Ver(j)')
               PROVE  Held(api)
    BY DEF AttachedSince, Held
  <2>1. i + 1 <= j + 1
    BY <1>2
  <2> QED
    BY <1>0, <1>2, <2>1 DEF AttachedSince
<1> QED
  BY <1>1, <1>2, <1>3, <1>4, <1>5, <1>6 DEF InOrder

\* A step that writes nothing and delivers nothing.
LEMMA Steady ==
  ASSUME InOrder, NoWrite, cached' = cached
  PROVE  InOrder' /\ Versions' = Versions /\ \A i : Ver(i)' = Ver(i)
<1>1. feed' = feed /\ api' = api
  BY DEF NoWrite
<1>2. Versions' = Versions /\ \A i : Ver(i)' = Ver(i)
  BY <1>1 DEF Versions, Ver
<1>3. InOrder'
  BY <1>1 DEF InOrder, Latest, HeldStays, DeletionOrder, AttachedSince, Versions, Ver, Held
<1> QED
  BY <1>2, <1>3
CustomersType == [Uids -> Customer \cup {None}]

-----------------------------------------------------------------------------
(* What the steps have in common.                                          *)

LEMMA FaultBound ==
  ASSUME TypeOK, SpendFault
  PROVE  faults' \in 0 .. MaxFaults
BY BoundsAssumption DEF TypeOK, SpendFault

LEMMA UserBound ==
  ASSUME TypeOK, SpendUserStep
  PROVE  userSteps' \in 0 .. MaxUserSteps
BY BoundsAssumption DEF TypeOK, SpendUserStep

\* What the worker knows of the account survives a user's write.
LEMMA PlainOnPath ==
  ASSUME TypeOK, InOrder, OnPath, NEW a \in Account \cup {None}, Write(a), cached' = cached,
         pc' = pc, acct' = acct,
         Held(api) => Held(a) /\ a.uid = api.uid /\ (api.deleting => a.deleting),
         Held(a) => Held(api)
  PROVE  OnPath'
<1> DEFINE n == Len(feed)
<1>1. /\ n \in Nat /\ Len(feed') = n + 1
      /\ \A i \in Versions : Ver(i)' = Ver(i)
      /\ \A i : i = n + 1 => Ver(i)' = a
      /\ \A i \in Versions' : i \in Versions \/ i = n + 1
  BY VersionsAfterWrite
<1>2. n \in Versions /\ Ver(n) = api /\ \A i \in Versions : i \in Nat /\ i <= n
  BY LatestVersion DEF InOrder
<1> HIDE DEF n
<1>0. api' = a
  BY DEF Write
<1>3. ASSUME pc = "addFinalizer", NEW i \in Versions', Held(Ver(i)')
      PROVE  Held(a)
  BY <1>1, <1>3 DEF OnPath
<1>4. pc \in EnsureStates => Held(a) /\ a.uid = acct.uid
  BY DEF OnPath
<1>5. ASSUME pc \in DeletionStates, NEW i \in Versions', NEW j \in Versions', i <= j, Held(Ver(j)')
      PROVE  Held(Ver(i)') /\ Ver(j)'.uid = acct.uid /\ Ver(j)'.deleting
  <2>0. \A x, y \in Versions : x <= y /\ Held(Ver(y)) =>
          Held(Ver(x)) /\ Ver(y).uid = acct.uid /\ Ver(y).deleting
    BY <1>5 DEF OnPath
  <2>1. CASE j \in Versions
    <3>1. i \in Versions
      BY <1>1, <1>2, <1>5, <2>1
    <3> QED
      BY <1>1, <1>5, <2>0, <2>1, <3>1
  <2>2. CASE j = n + 1
    <3>1. Held(api) /\ api.uid = acct.uid /\ api.deleting
      BY <1>1, <1>2, <1>5, <2>0, <2>2
    <3>2. Ver(j)' = a /\ a.uid = acct.uid /\ a.deleting
      BY <1>1, <2>2, <3>1
    <3>3. Held(Ver(i)')
      BY <1>1, <1>2, <1>5, <2>0, <2>2, <3>1
    <3> QED
      BY <3>2, <3>3
  <2> QED
    BY <1>1, <2>1, <2>2
<1>6. pc \in DeletionStates => acct.deleting
  BY DEF OnPath
<1> QED
  BY <1>0, <1>3, <1>4, <1>5, <1>6 DEF OnPath, Held

\* A user's write.
LEMMA UserWrite ==
  ASSUME IInv, NEW a \in Account \cup {None}, Write(a), SpendUserStep, used' \subseteq Uids,
         UNCHANGED <<cached, faults, worker>>,
         Held(api) => Held(a) /\ a.uid = api.uid /\ (api.deleting => a.deleting),
         Held(a) => Held(api)
  PROVE  IInv'
<1>0. TypeOK /\ InOrder /\ OnPath /\ DisabledFirst /\ StripeCarried /\ NoOrphanCustomer
  BY DEF IInv
<1>1. /\ queued' = queued /\ retry' = retry /\ pc' = pc /\ acct' = acct /\ want' = want
      /\ existing' = existing /\ customers' = customers /\ at' = at
      /\ payments' = payments /\ wedged' = wedged
      /\ forced' = forced
  BY DEF worker
<1>2. api' = a /\ userSteps' \in 0 .. MaxUserSteps /\ feed' \in Seq(Account \cup {None})
  BY <1>0, UserBound, VersionsAfterWrite DEF Write
<1>3. TypeOK'
  BY <1>0, <1>1, <1>2 DEF TypeOK, PaymentsOK, payments
<1>4. InOrder' /\ OnPath'
  BY <1>0, <1>1, PlainWrite, PlainOnPath
<1>5. DisabledFirst' /\ StripeCarried'
  BY <1>0, <1>1 DEF DisabledFirst, StripeCarried
<1>6. NoOrphanCustomer'
  BY <1>0, <1>1, <1>2 DEF NoOrphanCustomer, Held
<1> QED
  BY <1>3, <1>4, <1>5, <1>6 DEF IInv

\* The account stays in its path when the worker writes nothing.
LEMMA SteadyPath ==
  ASSUME OnPath, InOrder, NoWrite, cached' = cached, acct' = acct,
         \/ pc \in EnsureStates /\ pc' \in EnsureStates
         \/ pc \in DeletionStates /\ pc' \in DeletionStates
  PROVE  OnPath'
<1>1. Versions' = Versions /\ (\A i : Ver(i)' = Ver(i)) /\ api' = api
  BY Steady DEF NoWrite
<1>2. CASE pc \in EnsureStates /\ pc' \in EnsureStates
  BY <1>1, <1>2 DEF OnPath, EnsureStates, DeletionStates, Held
<1>3. CASE pc \in DeletionStates /\ pc' \in DeletionStates
  BY <1>1, <1>3 DEF OnPath, EnsureStates, DeletionStates, Held
<1> QED
  BY <1>2, <1>3

\* The worker returns and has not written the account.
LEMMA ReturnStep ==
  ASSUME IInv, NEW again \in BOOLEAN, Return(again), NoWrite, UNCHANGED <<environment, queued>>,
         customers' \in CustomersType, PaymentsOK',
         wedged' \in BOOLEAN, forced' \subseteq Uids,
         faults' \in 0 .. MaxFaults, NoOrphanCustomer'
  PROVE  IInv'
<1>0. TypeOK /\ InOrder
  BY DEF IInv
<1>1. /\ pc' = "idle" /\ acct' = None /\ want' = None /\ existing' = None /\ at' = None
      /\ retry' = (retry \/ again) /\ api' = api /\ feed' = feed
      /\ used' = used /\ cached' = cached /\ userSteps' = userSteps
  BY DEF Return, NoWrite, environment
<1>2. TypeOK'
  <2>1. retry' \in BOOLEAN
    BY <1>1
  <2> QED
    BY <1>0, <1>1, <2>1 DEF TypeOK, WorkerStates, CustomersType, PaymentsOK, payments
<1>3. InOrder'
  BY <1>0, <1>1, Steady
<1>4. OnPath' /\ DisabledFirst' /\ StripeCarried'
  BY <1>1 DEF OnPath, DisabledFirst, StripeCarried, EnsureStates, DeletionStates
<1> QED
  BY <1>2, <1>3, <1>4 DEF IInv

\* The worker returns and has written the account, and nothing else.
LEMMA ReturnAfterWrite ==
  ASSUME IInv, Return(FALSE), NEW a \in Account \cup {None}, Write(a),
         UNCHANGED <<environment, queued, customers, payments, wedged, forced>>,
         faults' \in 0 .. MaxFaults, InOrder', NoOrphanCustomer'
  PROVE  IInv'
<1>0. TypeOK
  BY DEF IInv
<1>1. /\ pc' = "idle" /\ acct' = None /\ want' = None /\ existing' = None /\ at' = None
      /\ retry' = (retry \/ FALSE) /\ used' = used /\ cached' = cached /\ userSteps' = userSteps
  BY DEF Return, environment
<1>2. api' = a /\ feed' \in Seq(Account \cup {None})
  BY <1>0, <1>1, VersionsAfterWrite DEF Write
<1>3. TypeOK'
  <2>1. retry' \in BOOLEAN
    BY <1>1
  <2> QED
    BY <1>0, <1>1, <1>2, <2>1 DEF TypeOK, WorkerStates, PaymentsOK, payments
<1>4. OnPath' /\ DisabledFirst' /\ StripeCarried'
  BY <1>1 DEF OnPath, DisabledFirst, StripeCarried, EnsureStates, DeletionStates
<1> QED
  BY <1>3, <1>4 DEF IInv

\* Everything the worker has not touched.
Untouched == UNCHANGED <<environment, queued, customers, payments, forced>>

\* The worker returns, and neither account nor customer has changed.
LEMMA IdleReturn ==
  ASSUME IInv, NEW again \in BOOLEAN, Return(again), NoWrite, Untouched,
         wedged' \in BOOLEAN, faults' \in 0 .. MaxFaults
  PROVE  IInv'
<1>1. TypeOK /\ NoOrphanCustomer /\ customers' = customers /\ payments' = payments
      /\ forced' = forced /\ api' = api
  BY DEF IInv, Untouched, NoWrite
<1>2. /\ customers' \in CustomersType /\ PaymentsOK' /\ forced' \subseteq Uids
      /\ NoOrphanCustomer'
  BY <1>1 DEF TypeOK, CustomersType, PaymentsOK, payments, NoOrphanCustomer
<1> QED
  BY <1>2, ReturnStep DEF Untouched

\* handleAmberfloError after a call that changed nothing.
LEMMA ErrorReturn ==
  ASSUME IInv, handleAmberfloError, SpendFault, NoWrite, Untouched
  PROVE  IInv'
<1>1. TypeOK /\ faults' \in 0 .. MaxFaults
  BY FaultBound DEF IInv
<1>2. wedged' \in BOOLEAN
  BY <1>1 DEF TypeOK, handleAmberfloError
<1> QED
  BY <1>1, <1>2, IdleReturn DEF handleAmberfloError

\* The worker goes on with the version it has.
LEMMA ProceedStep ==
  ASSUME IInv, NoWrite, UNCHANGED <<environment, queued, acct, retry>>, acct \in Account,
         \/ pc \in EnsureStates /\ pc' \in EnsureStates
         \/ pc \in DeletionStates /\ pc' \in DeletionStates,
         want' \in StripeIds \cup {None}, existing' \in Customer \cup {None},
         pc' = "disablePut" => existing' \in Customer,
         at' \in PeriodStarts \cup {Soon, None}, (pc' = "postSwitch") = (at' # None),
         pc' \in {"listSwitches", "postSwitch"} => acct.stripe # None,
         customers' \in CustomersType, PaymentsOK',
         wedged' \in BOOLEAN, forced' \subseteq Uids,
         faults' \in 0 .. MaxFaults, DisabledFirst', StripeCarried', NoOrphanCustomer'
  PROVE  IInv'
<1>0. TypeOK /\ InOrder /\ OnPath
  BY DEF IInv
<1>1. api' = api /\ feed' = feed /\ used' = used /\ cached' = cached /\ userSteps' = userSteps
  BY DEF NoWrite, environment
<1>2. pc' \in WorkerStates
  BY DEF EnsureStates, DeletionStates, WorkerStates
<1>3. TypeOK'
  BY <1>0, <1>1, <1>2 DEF TypeOK, CustomersType, PaymentsOK, payments
<1>4. InOrder' /\ OnPath'
  BY <1>0, <1>1, Steady, SteadyPath
<1> QED
  BY <1>3, <1>4 DEF IInv
-----------------------------------------------------------------------------
(* The API server, its users, the informer and the work queue.             *)

LEMMA InitIInv == Init => IInv
<1> SUFFICES ASSUME Init PROVE IInv
  OBVIOUS
<1>1. faults \in 0 .. MaxFaults /\ userSteps \in 0 .. MaxUserSteps
  BY BoundsAssumption DEF Init
<1>2. feed \in Seq(Account \cup {None}) /\ Len(feed) = 0
  BY DEF Init
<1>3. TypeOK
  BY <1>1, <1>2 DEF Init, TypeOK, WorkerStates, PaymentsOK
<1>4. Versions = {0} /\ Ver(0) = None /\ api = None
  BY <1>2 DEF Versions, Ver, Init
<1>5. InOrder
  BY <1>2, <1>4 DEF InOrder, Latest, HeldStays, DeletionOrder, AttachedSince, Held
<1>6. OnPath /\ DisabledFirst /\ StripeCarried /\ NoOrphanCustomer
  BY DEF Init, OnPath, DisabledFirst, StripeCarried, NoOrphanCustomer, EnsureStates, DeletionStates
<1> QED
  BY <1>3, <1>5, <1>6 DEF IInv

LEMMA CreateAccountIInv == IInv /\ CreateAccount => IInv'
<1> SUFFICES ASSUME IInv, CreateAccount PROVE IInv'
  OBVIOUS
<1>1. PICK s \in Specs :
        Write([uid |-> NextUid, spec |-> s, stripe |-> None, finalizer |-> FALSE,
               deleting |-> FALSE, force |-> FALSE])
  BY DEF CreateAccount
<1>6. NextUid \in Uids /\ used' = used \cup {NextUid}
  BY DEF NextUid, CreateAccount
<1> DEFINE a == [uid |-> NextUid, spec |-> s, stripe |-> None, finalizer |-> FALSE,
                 deleting |-> FALSE, force |-> FALSE]
<1>2. a \in Account /\ ~a.finalizer
  BY <1>6 DEF Account
<1>3. Write(a)
  BY <1>1
<1> HIDE DEF a
<1>4. used' \subseteq Uids
  BY <1>6 DEF IInv, TypeOK
<1>5. ~Held(api) /\ ~Held(a)
  BY <1>2 DEF Held, CreateAccount
<1> QED
  BY <1>2, <1>3, <1>4, <1>5, UserWrite DEF CreateAccount

LEMMA EditAccountIInv == IInv /\ EditAccount => IInv'
<1> SUFFICES ASSUME IInv, EditAccount PROVE IInv'
  OBVIOUS
<1>1. api \in Account /\ used' \subseteq Uids /\ api # None
  BY DEF EditAccount, IInv, TypeOK
<1>2. ASSUME NEW a \in Account, Write(a), a.uid = api.uid, a.finalizer = api.finalizer,
             a.deleting = api.deleting
      PROVE  IInv'
  <2>1. a # None
    BY NoneIsNoRecord
  <2> QED
    BY <1>1, <1>2, <2>1, UserWrite DEF EditAccount, Held
<1>3. ASSUME NEW s \in Specs, Write([api EXCEPT !.spec = s])
      PROVE  IInv'
  <2> DEFINE a == [api EXCEPT !.spec = s]
  <2>1. /\ a \in Account /\ a.uid = api.uid /\ a.finalizer = api.finalizer
        /\ a.deleting = api.deleting
    BY <1>1 DEF Account
  <2>2. Write(a)
    BY <1>3
  <2> HIDE DEF a
  <2> QED
    BY <1>2, <2>1, <2>2
<1>4. ASSUME NEW id \in StripeIds \cup {None}, Write([api EXCEPT !.stripe = id])
      PROVE  IInv'
  <2> DEFINE a == [api EXCEPT !.stripe = id]
  <2>1. /\ a \in Account /\ a.uid = api.uid /\ a.finalizer = api.finalizer
        /\ a.deleting = api.deleting
    BY <1>1 DEF Account
  <2>2. Write(a)
    BY <1>4
  <2> HIDE DEF a
  <2> QED
    BY <1>2, <2>1, <2>2
<1>5. CASE Write([api EXCEPT !.force = TRUE])
  <2> DEFINE a == [api EXCEPT !.force = TRUE]
  <2>1. /\ a \in Account /\ a.uid = api.uid /\ a.finalizer = api.finalizer
        /\ a.deleting = api.deleting
    BY <1>1 DEF Account
  <2>2. Write(a)
    BY <1>5
  <2> HIDE DEF a
  <2> QED
    BY <1>2, <2>1, <2>2
<1> QED
  BY <1>3, <1>4, <1>5 DEF EditAccount

LEMMA DeleteAccountIInv == IInv /\ DeleteAccount => IInv'
<1> SUFFICES ASSUME IInv, DeleteAccount PROVE IInv'
  OBVIOUS
<1>1. api \in Account /\ used' \subseteq Uids /\ api # None
  BY DEF DeleteAccount, IInv, TypeOK
<1>2. CASE api.finalizer
  <2> DEFINE a == [api EXCEPT !.deleting = TRUE]
  <2>1. a \in Account /\ a.uid = api.uid /\ a.finalizer /\ a.deleting
    BY <1>1, <1>2 DEF Account
  <2>2. Write(a) /\ a # None
    BY <1>2, <2>1, NoneIsNoRecord DEF DeleteAccount
  <2> HIDE DEF a
  <2> QED
    BY <1>1, <1>2, <2>1, <2>2, UserWrite DEF DeleteAccount, Held
<1>3. CASE ~api.finalizer
  <2>1. Write(None)
    BY <1>3 DEF DeleteAccount
  <2> QED
    BY <1>1, <1>3, <2>1, UserWrite DEF DeleteAccount, Held
<1> QED
  BY <1>2, <1>3

LEMMA ObserveIInv == IInv /\ Observe => IInv'
<1> SUFFICES ASSUME IInv, Observe PROVE IInv'
  OBVIOUS
<1>0. TypeOK /\ InOrder /\ OnPath /\ DisabledFirst /\ StripeCarried /\ NoOrphanCustomer
  BY DEF IInv
<1>1. /\ feed # <<>> /\ cached' = Head(feed) /\ feed' = Tail(feed) /\ queued' = TRUE
      /\ UNCHANGED <<api, used, retry, pc, acct, want, existing, customers, at,
                     payments, wedged, forced, faults, userSteps>>
  BY DEF Observe
<1>2. /\ InOrder' /\ feed' \in Seq(Account \cup {None}) /\ cached' \in Account \cup {None}
      /\ \A i \in Versions' : i + 1 \in Versions /\ Ver(i)' = Ver(i + 1) /\ i \in Nat
  BY <1>0, <1>1, Delivery
<1>3. TypeOK'
  BY <1>0, <1>1, <1>2 DEF TypeOK, PaymentsOK, payments
<1>4. OnPath'
  <2>1. ASSUME pc = "addFinalizer", NEW i \in Versions', Held(Ver(i)')
        PROVE  Held(api)
    BY <1>0, <1>2, <2>1 DEF OnPath
  <2>2. ASSUME pc \in DeletionStates, NEW i \in Versions', NEW j \in Versions', i <= j, Held(Ver(j)')
        PROVE  Held(Ver(i)') /\ Ver(j)'.uid = acct.uid /\ Ver(j)'.deleting
    <3>1. i + 1 <= j + 1 /\ i + 1 \in Versions /\ j + 1 \in Versions
      BY <1>2, <2>2
    <3> QED
      BY <1>0, <1>2, <2>2, <3>1 DEF OnPath
  <2> QED
    BY <1>0, <1>1, <2>1, <2>2 DEF OnPath, Held
<1>5. DisabledFirst' /\ StripeCarried' /\ NoOrphanCustomer'
  BY <1>0, <1>1 DEF DisabledFirst, StripeCarried, NoOrphanCustomer
<1> QED
  BY <1>2, <1>3, <1>4, <1>5 DEF IInv

\* Requeues, the passing of time, and no step at all.
LEMMA QueueIInv ==
  ASSUME IInv, queued' \in BOOLEAN, retry' \in BOOLEAN, PaymentsOK',
         UNCHANGED <<api, used, feed, cached, pc, acct, want, existing, customers,
                     at, wedged, forced, faults, userSteps>>
  PROVE  IInv'
<1>0. TypeOK /\ InOrder /\ OnPath /\ DisabledFirst /\ StripeCarried /\ NoOrphanCustomer
  BY DEF IInv
<1>1. NoWrite /\ cached' = cached
  BY DEF NoWrite
<1>2. InOrder' /\ Versions' = Versions /\ \A i : Ver(i)' = Ver(i)
  BY <1>0, <1>1, Steady
<1>3. OnPath'
  BY <1>0, <1>2 DEF OnPath, Held
<1>4. TypeOK'
  BY <1>0 DEF TypeOK
<1>5. DisabledFirst' /\ StripeCarried' /\ NoOrphanCustomer'
  BY <1>0 DEF DisabledFirst, StripeCarried, NoOrphanCustomer
<1> QED
  BY <1>2, <1>3, <1>4, <1>5 DEF IInv

LEMMA TimeIInv ==
  ASSUME IInv, SecondPasses \/ PeriodStartPasses
  PROVE  IInv'
<1>1. TypeOK /\ PaymentsOK
  BY DEF IInv, TypeOK
<1>2. /\ switches' \in [Uids -> SUBSET Switch] /\ ahead' \subseteq PeriodStarts
      /\ chargedTo' \in [Uids -> StripeIds \cup {None}]
  <2>1. CASE SecondPasses
    BY <1>1, <2>1 DEF PaymentsOK, SecondPasses, TakeEffect
  <2>2. CASE PeriodStartPasses
    BY <1>1, <2>2 DEF PaymentsOK, PeriodStartPasses, TakeEffect
  <2> QED
    BY <2>1, <2>2
<1>3. PaymentsOK' /\ queued' \in BOOLEAN /\ retry' \in BOOLEAN
  BY <1>1, <1>2 DEF PaymentsOK, TypeOK, SecondPasses, PeriodStartPasses
<1> QED
  BY <1>3, QueueIInv DEF SecondPasses, PeriodStartPasses

LEMMA RestartIInv == IInv /\ Restart => IInv'
<1> SUFFICES ASSUME IInv, Restart PROVE IInv'
  OBVIOUS
<1>0. TypeOK /\ NoOrphanCustomer
  BY DEF IInv
<1>1. /\ cached' = api /\ feed' = <<>> /\ queued' \in BOOLEAN /\ retry' = FALSE
      /\ pc' = "idle" /\ acct' = None /\ want' = None /\ existing' = None /\ at' = None
      /\ UNCHANGED <<api, used, customers, payments, wedged, forced, userSteps>>
  BY DEF Restart
<1>2. faults' \in 0 .. MaxFaults
  BY <1>0, FaultBound DEF Restart
<1>3. feed' \in Seq(Account \cup {None}) /\ Len(feed') = 0
  BY <1>1
<1>4. TypeOK'
  BY <1>0, <1>1, <1>2, <1>3 DEF TypeOK, WorkerStates, PaymentsOK, payments
<1>5. /\ \A i \in Versions' : i = 0
      /\ \A i : i = 0 => Ver(i)' = api
  BY <1>1, <1>3 DEF Versions, Ver
<1>6. Latest'
  BY <1>1, <1>3, <1>5 DEF Latest
<1>7. HeldStays' /\ DeletionOrder' /\ AttachedSince'
  BY <1>1, <1>5 DEF HeldStays, DeletionOrder, AttachedSince, Held
<1>8. OnPath' /\ DisabledFirst' /\ StripeCarried'
  BY <1>1 DEF OnPath, DisabledFirst, StripeCarried, EnsureStates, DeletionStates
<1>9. NoOrphanCustomer'
  BY <1>0, <1>1 DEF NoOrphanCustomer
<1> QED
  BY <1>4, <1>6, <1>7, <1>8, <1>9 DEF IInv, InOrder

-----------------------------------------------------------------------------
(* The worker.                                                             *)

LEMMA ReconcileIInv == IInv /\ Reconcile => IInv'
<1> SUFFICES ASSUME IInv, Reconcile PROVE IInv'
  OBVIOUS
<1>0. TypeOK /\ InOrder /\ NoOrphanCustomer /\ pc = "idle" /\ at = None
  BY DEF IInv, TypeOK, Reconcile
<1>1. /\ pc' = ReconcilePath(cached) /\ queued' = FALSE /\ wedged' = FALSE
      /\ acct' = IF pc' = "idle" THEN None ELSE cached
      /\ want' = IF pc' = "ensureGet" THEN cached.stripe ELSE None
      /\ UNCHANGED <<used, cached, userSteps, api, feed, retry, existing, customers, at,
                     payments, forced, faults>>
  BY DEF Reconcile, environment
<1>2. /\ pc' \in {"idle", "addFinalizer", "preserve", "ensureGet", "disableGet"}
      /\ pc' # "idle" => cached \in Account /\ acct' = cached
      /\ pc' = "addFinalizer" => ~Held(cached)
      /\ pc' \in {"preserve", "ensureGet"} => Held(cached) /\ ~cached.deleting
      /\ pc' = "ensureGet" => want' # None
      /\ pc' = "disableGet" => Held(cached) /\ cached.deleting
  BY <1>0, <1>1 DEF ReconcilePath, TypeOK, Held
<1>3. TypeOK'
  <2>1. want' \in StripeIds \cup {None}
    BY <1>1, <1>2 DEF Account
  <2>2. acct' \in Account \cup {None} /\ (pc' # "idle" => acct' \in Account) /\ pc' \in WorkerStates
    BY <1>1, <1>2 DEF WorkerStates
  <2> QED
    BY <1>0, <1>1, <1>2, <2>1, <2>2 DEF TypeOK, PaymentsOK, payments
<1>4. InOrder' /\ Versions' = Versions /\ \A i : Ver(i)' = Ver(i)
  BY <1>0, <1>1, Steady DEF NoWrite
<1>5. OnPath'
  <2>0. /\ Latest /\ HeldStays /\ DeletionOrder /\ AttachedSince
        /\ 0 \in Versions /\ Ver(0) = cached /\ \A i \in Versions : i \in Nat
    BY <1>0, LatestVersion DEF InOrder
  <2>1. ASSUME pc' = "addFinalizer", NEW i \in Versions, Held(Ver(i))
        PROVE  Held(api)
    BY <1>2, <2>0, <2>1 DEF AttachedSince
  <2>2. pc' \in {"preserve", "ensureGet"} => Held(api) /\ api.uid = cached.uid
    BY <1>2, <2>0 DEF HeldStays
  <2>3. ASSUME pc' = "disableGet", NEW i \in Versions, NEW j \in Versions, i <= j, Held(Ver(j))
        PROVE  Held(Ver(i)) /\ Ver(j).uid = cached.uid /\ Ver(j).deleting
    <3>1. 0 <= i /\ 0 <= j /\ j <= j
      BY <2>0
    <3>2. Held(Ver(i))
      BY <1>2, <2>0, <2>3, <3>1 DEF DeletionOrder
    <3>3. Ver(j).uid = cached.uid /\ Ver(j).deleting
      BY <1>2, <2>0, <2>3, <3>1 DEF DeletionOrder
    <3> QED
      BY <3>2, <3>3
  <2> QED
    BY <1>1, <1>2, <1>4, <2>1, <2>2, <2>3 DEF OnPath, EnsureStates, DeletionStates, Held
<1>6. DisabledFirst' /\ StripeCarried'
  BY <1>2 DEF DisabledFirst, StripeCarried
<1>7. NoOrphanCustomer'
  BY <1>0, <1>1 DEF NoOrphanCustomer
<1> QED
  BY <1>3, <1>4, <1>5, <1>6, <1>7 DEF IInv

LEMMA AddFinalizerIInv == IInv /\ AddFinalizer => IInv'
<1> SUFFICES ASSUME IInv, AddFinalizer PROVE IInv'
  OBVIOUS
<1>0. TypeOK /\ InOrder /\ OnPath /\ NoOrphanCustomer /\ pc = "addFinalizer"
      /\ UNCHANGED <<environment, queued, customers, payments, forced>>
      /\ cached' = cached
  BY DEF IInv, AddFinalizer, environment
<1>1. SpendFault \/ UNCHANGED faults => faults' \in 0 .. MaxFaults
  BY <1>0, FaultBound DEF TypeOK
<1>2. CASE /\ api # None /\ ~api.finalizer /\ Write([api EXCEPT !.finalizer = TRUE])
           /\ Done /\ UNCHANGED faults
  <2> DEFINE a == [api EXCEPT !.finalizer = TRUE]
  <2>1. api \in Account /\ ~Held(api)
    BY <1>0, <1>2 DEF TypeOK, Held
  <2>2. a \in Account /\ a.finalizer /\ Write(a)
    BY <1>2, <2>1 DEF Account
  <2> HIDE DEF a
  <2>3. Held(a) /\ api' = a
    BY <2>2, NoneIsNoRecord DEF Held, Write
  <2>4. \A i \in Versions : ~Held(Ver(i))
    BY <1>0, <2>1 DEF OnPath
  <2>5. InOrder'
    BY <1>0, <2>2, <2>3, <2>4, AttachingWrite
  <2>6. NoOrphanCustomer'
    BY <1>0, <2>1 DEF NoOrphanCustomer, Held
  <2> QED
    BY <1>0, <1>1, <1>2, <2>2, <2>5, <2>6, ReturnAfterWrite DEF Done
<1>3. CASE NoWrite /\ Return(FALSE) /\ UNCHANGED <<wedged, faults>>
  BY <1>0, <1>1, <1>3, IdleReturn DEF Untouched, TypeOK
<1>4. CASE NoWrite /\ Return(TRUE) /\ UNCHANGED wedged /\ (SpendFault \/ UNCHANGED faults)
  BY <1>0, <1>1, <1>4, IdleReturn DEF Untouched, TypeOK
<1> QED
  BY <1>2, <1>3, <1>4 DEF AddFinalizer, Done

\* What the ensure path works with.
LEMMA EnsureFacts ==
  ASSUME IInv, pc \in EnsureStates
  PROVE  /\ TypeOK /\ acct \in Account /\ acct.uid \in Uids /\ acct.stripe \in StripeIds \cup {None}
         /\ Held(api) /\ api.uid = acct.uid
         /\ pc # "postSwitch" => at = None
<1>1. TypeOK /\ acct \in Account /\ Held(api) /\ api.uid = acct.uid
      /\ (pc # "postSwitch" => at = None)
  BY DEF IInv, TypeOK, OnPath, EnsureStates
<1>2. acct.uid \in Uids /\ acct.stripe \in StripeIds \cup {None}
  BY <1>1 DEF Account
<1> QED
  BY <1>1, <1>2

\* The ensure path goes on, with customers and switches as they are.
LEMMA EnsureProceeds ==
  ASSUME IInv, pc \in EnsureStates, pc' \in EnsureStates, NoWrite, UNCHANGED <<acct, retry>>, Untouched,
         want' \in StripeIds \cup {None}, existing' \in Customer \cup {None},
         at' \in PeriodStarts \cup {Soon, None}, (pc' = "postSwitch") = (at' # None),
         pc' \in {"listSwitches", "postSwitch"} => acct.stripe # None,
         wedged' \in BOOLEAN, faults' \in 0 .. MaxFaults, StripeCarried'
  PROVE  IInv'
<1>0. TypeOK /\ NoOrphanCustomer /\ acct \in Account
  BY EnsureFacts DEF IInv
<1>1. customers' = customers /\ payments' = payments /\ forced' = forced /\ api' = api
  BY DEF Untouched, NoWrite
<1>2. /\ customers' \in CustomersType /\ PaymentsOK' /\ forced' \subseteq Uids
      /\ NoOrphanCustomer'
  BY <1>0, <1>1 DEF TypeOK, CustomersType, PaymentsOK, payments, NoOrphanCustomer
<1>3. DisabledFirst' /\ pc' # "disablePut"
  BY DEF DisabledFirst, EnsureStates
<1> QED
  BY <1>0, <1>2, <1>3, ProceedStep DEF Untouched
LEMMA PreserveStripeTraitsIInv == IInv /\ PreserveStripeTraits => IInv'
<1> SUFFICES ASSUME IInv, PreserveStripeTraits PROVE IInv'
  OBVIOUS
<1>0. /\ pc = "preserve" /\ pc \in EnsureStates /\ NoWrite /\ Untouched
      /\ TypeOK /\ acct.uid \in Uids /\ at = None
  BY EnsureFacts DEF PreserveStripeTraits, EnsureStates, Untouched
<1>1. CASE /\ want' = IF customers[acct.uid] = None THEN None ELSE customers[acct.uid].stripe
           /\ pc' = "ensureGet" /\ UNCHANGED <<acct, existing, at, retry, wedged, faults>>
  <2>1. want' \in StripeIds \cup {None}
    BY <1>0, <1>1 DEF TypeOK, Customer
  <2>2. StripeCarried'
    BY <1>0, <1>1 DEF StripeCarried, Untouched
  <2>3. /\ pc' \in EnsureStates /\ existing' \in Customer \cup {None}
        /\ at' \in PeriodStarts \cup {Soon, None} /\ (pc' = "postSwitch") = (at' # None)
        /\ wedged' \in BOOLEAN /\ faults' \in 0 .. MaxFaults
    BY <1>0, <1>1 DEF TypeOK, EnsureStates
  <2> QED
    BY <1>0, <1>1, <2>1, <2>2, <2>3, EnsureProceeds
<1>2. CASE SpendFault /\ handleAmberfloError
  BY <1>0, <1>2, ErrorReturn
<1> QED
  BY <1>1, <1>2 DEF PreserveStripeTraits

LEMMA EnsureGetIInv == IInv /\ EnsureGet => IInv'
<1> SUFFICES ASSUME IInv, EnsureGet PROVE IInv'
  OBVIOUS
<1>0. /\ pc = "ensureGet" /\ pc \in EnsureStates /\ NoWrite /\ Untouched
      /\ TypeOK /\ acct.uid \in Uids /\ at = None /\ StripeCarried
  BY EnsureFacts DEF EnsureGet, EnsureStates, Untouched, IInv
<1>1. CASE /\ IF customers[acct.uid] = buildWireCustomer THEN AfterEnsure
              ELSE pc' = "ensurePut" /\ UNCHANGED want
           /\ UNCHANGED <<acct, existing, at, retry, wedged, faults>>
  <2>1. /\ pc' \in {"ensurePut", "listSwitches", "invoices"}
        /\ pc' = "listSwitches" => acct.stripe # None
        /\ want' \in {want, None} /\ (pc' = "ensurePut" => want' = want)
    BY <1>1 DEF AfterEnsure
  <2>2. StripeCarried'
    BY <1>0, <1>1, <2>1 DEF StripeCarried, Untouched
  <2>3. /\ pc' \in EnsureStates /\ existing' \in Customer \cup {None}
        /\ at' \in PeriodStarts \cup {Soon, None} /\ (pc' = "postSwitch") = (at' # None)
        /\ pc' \in {"listSwitches", "postSwitch"} => acct.stripe # None
        /\ want' \in StripeIds \cup {None}
        /\ wedged' \in BOOLEAN /\ faults' \in 0 .. MaxFaults
    BY <1>0, <1>1, <2>1 DEF TypeOK, EnsureStates
  <2> QED
    BY <1>0, <1>1, <2>2, <2>3, EnsureProceeds
<1>2. CASE SpendFault /\ handleAmberfloError
  BY <1>0, <1>2, ErrorReturn
<1> QED
  BY <1>1, <1>2 DEF EnsureGet

\* The customer of an account that is held is written, or not.
LEMMA PutFacts ==
  ASSUME IInv, pc \in EnsureStates, NEW c \in Customer, MayPut(acct.uid, c), api' = api, forced' = forced
  PROVE  customers' \in CustomersType /\ NoOrphanCustomer'
<1>0. TypeOK /\ NoOrphanCustomer /\ acct.uid \in Uids /\ Held(api) /\ api.uid = acct.uid
  BY EnsureFacts DEF IInv
<1>1. customers' \in CustomersType /\ \A u \in Uids : u # acct.uid => customers'[u] = customers[u]
  BY <1>0 DEF TypeOK, CustomersType, MayPut
<1>2. NoOrphanCustomer'
  BY <1>0, <1>1 DEF NoOrphanCustomer, Held
<1> QED
  BY <1>1, <1>2

LEMMA EnsurePutIInv == IInv /\ EnsurePut => IInv'
<1> SUFFICES ASSUME IInv, EnsurePut PROVE IInv'
  OBVIOUS
<1>0. /\ pc = "ensurePut" /\ pc \in EnsureStates /\ NoWrite
      /\ UNCHANGED <<environment, queued, payments, forced>>
      /\ TypeOK /\ acct \in Account /\ at = None /\ api' = api
  BY EnsureFacts DEF EnsurePut, EnsureStates, NoWrite
<1>1. buildWireCustomer \in Customer
  BY <1>0 DEF buildWireCustomer, Customer, Account, TypeOK
<1>2. /\ PaymentsOK' /\ forced' \subseteq Uids
  BY <1>0 DEF TypeOK, PaymentsOK, payments
<1>3. CASE /\ customers' = [customers EXCEPT ![acct.uid] = buildWireCustomer]
           /\ AfterEnsure /\ UNCHANGED <<acct, existing, at, retry, wedged, faults>>
  <2>1. customers' \in CustomersType /\ NoOrphanCustomer'
    BY <1>0, <1>1, <1>3, PutFacts DEF MayPut
  <2>2. /\ pc' \in {"listSwitches", "invoices"} /\ want' = None
        /\ pc' = "listSwitches" => acct.stripe # None
    BY <1>3 DEF AfterEnsure
  <2>3. StripeCarried' /\ DisabledFirst'
    BY <2>2 DEF StripeCarried, DisabledFirst
  <2>4. /\ pc' \in EnsureStates /\ existing' \in Customer \cup {None}
        /\ at' \in PeriodStarts \cup {Soon, None} /\ (pc' = "postSwitch") = (at' # None)
        /\ pc' \in {"listSwitches", "postSwitch"} => acct.stripe # None
        /\ want' \in StripeIds \cup {None} /\ pc' # "disablePut"
        /\ wedged' \in BOOLEAN /\ faults' \in 0 .. MaxFaults
    BY <1>0, <1>3, <2>2 DEF TypeOK, EnsureStates
  <2> QED
    BY <1>0, <1>2, <1>3, <2>1, <2>3, <2>4, ProceedStep
<1>4. CASE SpendFault /\ MayPut(acct.uid, buildWireCustomer) /\ handleAmberfloError
  <2>1. customers' \in CustomersType /\ NoOrphanCustomer' /\ faults' \in 0 .. MaxFaults
    BY <1>0, <1>1, <1>4, PutFacts, FaultBound
  <2>2. wedged' \in BOOLEAN
    BY <1>0, <1>4 DEF handleAmberfloError, TypeOK
  <2> QED
    BY <1>0, <1>2, <1>4, <2>1, <2>2, ReturnStep DEF handleAmberfloError
<1> QED
  BY <1>3, <1>4 DEF EnsurePut

\* The steps around the payment switch: they go on, or return.
LEMMA SwitchStep ==
  ASSUME IInv, ListPaymentMethodSwitches \/ SchedulePaymentMethodSwitch
  PROVE  IInv'
<1>0. /\ pc \in {"listSwitches", "postSwitch"} /\ pc \in EnsureStates /\ NoWrite
      /\ UNCHANGED <<environment, queued, customers, wedged, forced>>
      /\ (SpendFault \/ UNCHANGED faults)
  BY DEF ListPaymentMethodSwitches, SchedulePaymentMethodSwitch, EnsureStates
<1>1. /\ TypeOK /\ PaymentsOK /\ acct \in Account /\ acct.uid \in Uids
      /\ acct.stripe \in StripeIds /\ NoOrphanCustomer /\ api' = api /\ customers' = customers
      /\ forced' = forced /\ want \in StripeIds \cup {None} /\ existing \in Customer \cup {None}
  BY <1>0, EnsureFacts DEF EnsureStates, IInv, NoWrite, TypeOK
<1>2. PaymentsOK'
  <2>1. CASE ListPaymentMethodSwitches
    BY <1>1, <2>1 DEF ListPaymentMethodSwitches, PaymentsOK, payments
  <2>2. CASE SchedulePaymentMethodSwitch
    <3>1. switches' \in [Uids -> SUBSET Switch]
      <4>1. CASE switches' = switches
        BY <1>1, <4>1 DEF PaymentsOK
      <4>2. CASE at \in ahead \cup {Soon} /\ Schedule
        <5>1. <<acct.stripe, at>> \in Switch
          BY <1>1, <4>2 DEF PaymentsOK, Switch
        <5> QED
          BY <1>1, <4>2, <5>1 DEF PaymentsOK, Schedule
      <4> QED
        BY <2>2, <4>1, <4>2 DEF SchedulePaymentMethodSwitch
    <3> QED
      BY <1>1, <2>2, <3>1 DEF PaymentsOK, SchedulePaymentMethodSwitch
  <2> QED
    BY <2>1, <2>2
<1>3. customers' \in CustomersType /\ forced' \subseteq Uids /\ NoOrphanCustomer'
  BY <1>1 DEF TypeOK, CustomersType, NoOrphanCustomer
<1>4. faults' \in 0 .. MaxFaults /\ wedged' \in BOOLEAN
  BY <1>0, <1>1, FaultBound DEF TypeOK
<1>5. CASE ToInvoices
  <2>1. pc' = "invoices" /\ at' = None /\ UNCHANGED <<acct, want, existing, retry>>
    BY <1>5 DEF ToInvoices
  <2>2. pc' \in EnsureStates /\ StripeCarried' /\ DisabledFirst' /\ pc' # "disablePut"
    BY <2>1 DEF EnsureStates, StripeCarried, DisabledFirst
  <2> QED
    BY <1>0, <1>1, <1>2, <1>3, <1>4, <2>1, <2>2, ProceedStep
<1>6. CASE Return(TRUE)
  BY <1>0, <1>2, <1>3, <1>4, <1>6, ReturnStep
<1>7. CASE pc' = "postSwitch" /\ at' \in ahead \cup {Soon} /\ UNCHANGED <<acct, want, existing, retry>>
  <2>1. at' \in PeriodStarts \cup {Soon} /\ at' # None
    BY <1>1, <1>7, NoneIsNoRecord DEF PaymentsOK
  <2>2. pc' \in EnsureStates /\ StripeCarried' /\ DisabledFirst' /\ pc' # "disablePut"
    BY <1>7 DEF EnsureStates, StripeCarried, DisabledFirst
  <2>3. acct.stripe # None
    BY <1>1, NoneAssumption
  <2> QED
    BY <1>0, <1>1, <1>2, <1>3, <1>4, <1>7, <2>1, <2>2, <2>3, ProceedStep
<1> QED
  BY <1>5, <1>6, <1>7 DEF ListPaymentMethodSwitches, SchedulePaymentMethodSwitch, SwitchError

LEMMA SyncInvoicesIInv == IInv /\ SyncInvoices => IInv'
<1> SUFFICES ASSUME IInv, SyncInvoices PROVE IInv'
  OBVIOUS
<1>1. TypeOK /\ NoWrite /\ Untouched /\ UNCHANGED wedged
  BY DEF IInv, SyncInvoices, Untouched
<1>2. SpendFault \/ UNCHANGED faults => faults' \in 0 .. MaxFaults
  BY <1>1, FaultBound DEF TypeOK
<1>3. wedged' \in BOOLEAN
  BY <1>1 DEF TypeOK
<1> QED
  BY <1>1, <1>2, <1>3, IdleReturn DEF SyncInvoices

-----------------------------------------------------------------------------
(* reconcileDelete.                                                        *)

\* What the deletion path works with.
LEMMA DeletionFacts ==
  ASSUME IInv, pc \in DeletionStates
  PROVE  /\ TypeOK /\ acct \in Account /\ acct.uid \in Uids /\ at = None
         /\ NoOrphanCustomer /\ OnPath /\ InOrder
<1>1. TypeOK /\ acct \in Account /\ at = None /\ NoOrphanCustomer /\ OnPath /\ InOrder
  BY DEF IInv, TypeOK, DeletionStates
<1> QED
  BY <1>1 DEF Account

\* The customer is disabled, or stays as it is.
LEMMA DisableFacts ==
  ASSUME IInv, pc = "disablePut", MayPut(acct.uid, DisabledCustomer), api' = api, forced \subseteq forced'
  PROVE  /\ customers' \in CustomersType /\ NoOrphanCustomer' /\ DisabledCustomer \in Customer
         /\ ~DisabledCustomer.enabled
<1>0. /\ TypeOK /\ NoOrphanCustomer /\ acct.uid \in Uids /\ existing \in Customer
  BY DeletionFacts DEF DeletionStates, TypeOK
<1>1. DisabledCustomer \in Customer /\ ~DisabledCustomer.enabled
  BY <1>0 DEF DisabledCustomer, Customer
<1>2. customers' \in CustomersType
  BY <1>0, <1>1 DEF TypeOK, CustomersType, MayPut
<1>3. \A u \in Uids : customers'[u] = customers[u] \/ ~customers'[u].enabled
  BY <1>0, <1>1 DEF TypeOK, MayPut
<1>4. NoOrphanCustomer'
  BY <1>0, <1>3 DEF NoOrphanCustomer
<1> QED
  BY <1>1, <1>2, <1>4

\* The disable call failed: the reconcile ends, or a force-delete goes on.
LEMMA DisableErrorStep ==
  ASSUME IInv, pc \in {"disableGet", "disablePut"}, NoWrite, SpendFault, DisableError,
         UNCHANGED <<environment, queued, payments, wedged>>,
         customers' \in CustomersType,
         forced \subseteq forced' => NoOrphanCustomer'
  PROVE  IInv'
<1>0. /\ pc \in DeletionStates /\ TypeOK /\ acct \in Account /\ acct.uid \in Uids /\ at = None
  BY DeletionFacts DEF DeletionStates
<1>1. /\ PaymentsOK' /\ wedged' \in BOOLEAN
      /\ faults' \in 0 .. MaxFaults
  BY <1>0, FaultBound DEF TypeOK, PaymentsOK, payments
<1>2. CASE /\ pc' = "release" /\ forced' = forced \cup {acct.uid}
           /\ UNCHANGED <<acct, want, existing, at, retry>>
  <2>1. NoOrphanCustomer' /\ forced' \subseteq Uids
    BY <1>0, <1>2 DEF TypeOK
  <2>2. DisabledFirst' /\ StripeCarried' /\ pc' \in DeletionStates
    BY <1>2 DEF DisabledFirst, StripeCarried, DeletionStates
  <2>3. /\ want' \in StripeIds \cup {None} /\ existing' \in Customer \cup {None}
        /\ pc' # "disablePut" /\ at' \in PeriodStarts \cup {Soon, None}
        /\ (pc' = "postSwitch") = (at' # None)
        /\ pc' \notin {"listSwitches", "postSwitch"}
    BY <1>0, <1>2 DEF TypeOK
  <2> QED
    BY <1>0, <1>1, <1>2, <2>1, <2>2, <2>3, ProceedStep
<1>3. CASE Return(TRUE) /\ UNCHANGED forced
  <2>1. forced' \subseteq Uids /\ NoOrphanCustomer'
    BY <1>0, <1>3 DEF TypeOK
  <2> QED
    BY <1>0, <1>1, <1>3, <2>1, ReturnStep
<1> QED
  BY <1>2, <1>3 DEF DisableError

LEMMA DisableGetIInv == IInv /\ DisableGet => IInv'
<1> SUFFICES ASSUME IInv, DisableGet PROVE IInv'
  OBVIOUS
<1>0. /\ pc = "disableGet" /\ pc \in DeletionStates /\ NoWrite
      /\ UNCHANGED <<environment, queued, customers, payments, wedged>>
      /\ TypeOK /\ acct \in Account /\ acct.uid \in Uids /\ at = None /\ NoOrphanCustomer
      /\ api' = api /\ customers' = customers
  BY DeletionFacts DEF DisableGet, DeletionStates, NoWrite
<1>1. customers' \in CustomersType
  BY <1>0 DEF TypeOK, CustomersType
<1>2. forced \subseteq forced' => NoOrphanCustomer'
  BY <1>0 DEF NoOrphanCustomer
<1>3. CASE /\ existing' = customers[acct.uid]
           /\ pc' = IF existing' = None THEN "release" ELSE "disablePut"
           /\ UNCHANGED <<acct, want, at, retry, forced, faults>>
  <2>1. /\ pc' \in {"release", "disablePut"}
        /\ pc' = "release" => customers[acct.uid] = None
        /\ pc' = "disablePut" => customers[acct.uid] # None
    BY <1>3
  <2>2. StripeCarried' /\ DisabledFirst' /\ pc' \in DeletionStates
    BY <1>0, <1>3, <2>1 DEF StripeCarried, DisabledFirst, DeletionStates
  <2>3. /\ existing' \in Customer \cup {None} /\ (pc' = "disablePut" => existing' \in Customer)
        /\ want' \in StripeIds \cup {None} /\ at' \in PeriodStarts \cup {Soon, None}
        /\ (pc' = "postSwitch") = (at' # None)
        /\ pc' \notin {"listSwitches", "postSwitch"}
        /\ PaymentsOK' /\ wedged' \in BOOLEAN
        /\ forced' \subseteq Uids /\ faults' \in 0 .. MaxFaults
    BY <1>0, <1>3, <2>1 DEF TypeOK, PaymentsOK, payments
  <2> QED
    BY <1>0, <1>1, <1>2, <1>3, <2>2, <2>3, ProceedStep
<1>4. CASE SpendFault /\ DisableError
  BY <1>0, <1>1, <1>2, <1>4, DisableErrorStep
<1> QED
  BY <1>3, <1>4 DEF DisableGet

LEMMA DisablePutIInv == IInv /\ DisablePut => IInv'
<1> SUFFICES ASSUME IInv, DisablePut PROVE IInv'
  OBVIOUS
<1>0. /\ pc = "disablePut" /\ pc \in DeletionStates /\ NoWrite
      /\ UNCHANGED <<environment, queued, payments, wedged>>
      /\ TypeOK /\ acct \in Account /\ acct.uid \in Uids /\ at = None /\ api' = api
  BY DeletionFacts DEF DisablePut, DeletionStates, NoWrite
<1>1. CASE /\ customers' = [customers EXCEPT ![acct.uid] = DisabledCustomer]
           /\ pc' = "release" /\ UNCHANGED <<acct, want, existing, at, retry, forced, faults>>
  <2>1. /\ customers' \in CustomersType /\ NoOrphanCustomer' /\ ~DisabledCustomer.enabled
    BY <1>0, <1>1, DisableFacts DEF MayPut
  <2>2. customers'[acct.uid] = DisabledCustomer
    BY <1>0, <1>1 DEF TypeOK
  <2>3. StripeCarried' /\ DisabledFirst' /\ pc' \in DeletionStates
    BY <1>1, <2>1, <2>2 DEF StripeCarried, DisabledFirst, DeletionStates
  <2>4. /\ existing' \in Customer \cup {None} /\ pc' # "disablePut"
        /\ want' \in StripeIds \cup {None} /\ at' \in PeriodStarts \cup {Soon, None}
        /\ (pc' = "postSwitch") = (at' # None)
        /\ pc' \notin {"listSwitches", "postSwitch"}
        /\ PaymentsOK' /\ wedged' \in BOOLEAN
        /\ forced' \subseteq Uids /\ faults' \in 0 .. MaxFaults
    BY <1>0, <1>1 DEF TypeOK, PaymentsOK, payments
  <2> QED
    BY <1>0, <1>1, <2>1, <2>3, <2>4, ProceedStep
<1>2. CASE SpendFault /\ MayPut(acct.uid, DisabledCustomer) /\ DisableError
  <2>1. forced \subseteq forced'
    BY <1>2 DEF DisableError
  <2>2. customers' \in CustomersType /\ NoOrphanCustomer'
    BY <1>0, <1>2, <2>1, DisableFacts
  <2> QED
    BY <1>0, <1>2, <2>2, DisableErrorStep
<1> QED
  BY <1>1, <1>2 DEF DisablePut

LEMMA RemoveFinalizerIInv == IInv /\ RemoveFinalizer => IInv'
<1> SUFFICES ASSUME IInv, RemoveFinalizer PROVE IInv'
  OBVIOUS
<1>0. /\ pc = "release" /\ pc \in DeletionStates
      /\ UNCHANGED <<environment, queued, customers, payments, forced>> /\ cached' = cached
      /\ TypeOK /\ InOrder /\ OnPath /\ NoOrphanCustomer /\ acct \in Account /\ acct.uid \in Uids
      /\ DisabledFirst
  BY DeletionFacts DEF RemoveFinalizer, DeletionStates, environment, IInv
<1>1. SpendFault \/ UNCHANGED faults => faults' \in 0 .. MaxFaults
  BY <1>0, FaultBound DEF TypeOK
<1>2. \A i, j \in Versions : i <= j /\ Held(Ver(j)) =>
        Held(Ver(i)) /\ Ver(j).uid = acct.uid /\ Ver(j).deleting
  BY <1>0 DEF OnPath
<1>3. Held(api) => api.uid = acct.uid /\ api.deleting
  BY <1>0, <1>2, LatestVersion DEF InOrder
<1>4. CASE Write(None) /\ Return(FALSE) /\ UNCHANGED wedged /\ (SpendFault \/ UNCHANGED faults)
  <2>1. InOrder'
    BY <1>0, <1>2, <1>4, ReleasingWrite
  <2>2. ASSUME NEW u \in Uids, customers[u] # None, customers[u].enabled
        PROVE  u \in forced
    <3>1. Held(api) /\ api.uid = u => u \in forced
      BY <1>0, <1>3, <2>2 DEF DisabledFirst
    <3> QED
      BY <1>0, <2>2, <3>1 DEF NoOrphanCustomer, Held
  <2>3. NoOrphanCustomer'
    BY <1>0, <2>2 DEF NoOrphanCustomer
  <2> QED
    BY <1>0, <1>1, <1>4, <2>1, <2>3, ReturnAfterWrite
<1>5. api # None /\ api.finalizer => Released(api) = None
  BY <1>3 DEF Released, Held
<1>6. api = acct => Released(api) = None
  BY <1>0 DEF Released, OnPath, DeletionStates
<1>7. CASE NoWrite /\ (Return(FALSE) \/ Return(TRUE)) /\ UNCHANGED wedged /\ (SpendFault \/ UNCHANGED faults)
  BY <1>0, <1>1, <1>7, IdleReturn DEF Untouched, TypeOK
<1> QED
  BY <1>4, <1>5, <1>6, <1>7 DEF RemoveFinalizer, Done

-----------------------------------------------------------------------------
(* The theorems.                                                           *)

LEMMA NextIInv == IInv /\ [Next]_vars => IInv'
<1> SUFFICES ASSUME IInv, [Next]_vars PROVE IInv'
  OBVIOUS
<1>0. TypeOK
  BY DEF IInv
<1>1. CASE UNCHANGED vars
  BY <1>0, <1>1, QueueIInv DEF vars, TypeOK, PaymentsOK
<1>2. CASE CreateAccount \/ EditAccount \/ DeleteAccount
  BY <1>2, CreateAccountIInv, EditAccountIInv, DeleteAccountIInv
<1>3. CASE Observe \/ Restart
  BY <1>3, ObserveIInv, RestartIInv
<1>4. CASE RetryElapses \/ Resync
  BY <1>0, <1>4, QueueIInv DEF RetryElapses, Resync, TypeOK, PaymentsOK, payments
<1>7. CASE SecondPasses \/ PeriodStartPasses
  BY <1>7, TimeIInv
<1>5. CASE ListPaymentMethodSwitches \/ SchedulePaymentMethodSwitch
  BY <1>5, SwitchStep
<1>6. CASE Reconcile \/ AddFinalizer \/ PreserveStripeTraits \/ EnsureGet \/ EnsurePut
           \/ SyncInvoices \/ DisableGet \/ DisablePut \/ RemoveFinalizer
  BY <1>6, ReconcileIInv, AddFinalizerIInv, PreserveStripeTraitsIInv, EnsureGetIInv, EnsurePutIInv,
     SyncInvoicesIInv, DisableGetIInv, DisablePutIInv, RemoveFinalizerIInv
<1> QED
  BY <1>1, <1>2, <1>3, <1>4, <1>5, <1>6, <1>7 DEF Next, Work

\* The invariant is inductive.
THEOREM Invariant == Spec => []IInv
<1>1. Init => IInv
  BY InitIInv
<1>2. IInv /\ [Next]_vars => IInv'
  BY NextIInv
<1> QED
  BY <1>1, <1>2, PTL DEF Spec

\* Every variable keeps its type; in particular DisableCustomer only writes a
\* customer it has read, and a switch is only computed for an account that
\* resolves to a Stripe id.
THEOREM TypeCorrect == Spec => []TypeOK
<1>1. IInv => TypeOK
  BY DEF IInv
<1> QED
  BY <1>1, Invariant, PTL

\* The finalizer is there before the customer and goes after it is disabled,
\* for any number of accounts that come and go under the name: a stale cache
\* and an apply by name never release the account of an enabled customer.
THEOREM NoOrphan == Spec => []NoOrphanCustomer
<1>1. IInv => NoOrphanCustomer
  BY DEF IInv
<1> QED
  BY <1>1, Invariant, PTL

\* The two calls that write a customer keep its Stripe id.
LEMMA StripeStep ==
  ASSUME IInv, Next, NEW u \in Uids, customers[u] # None, customers[u].stripe # None
  PROVE  customers'[u].stripe # None
<1>0. TypeOK /\ StripeCarried
  BY DEF IInv
<1>1. CASE customers' = customers
  BY <1>1
<1>2. ASSUME NEW c, MayPut(acct.uid, c), u = acct.uid => c.stripe # None
      PROVE  customers'[u].stripe # None
  BY <1>0, <1>2 DEF MayPut, TypeOK
<1>3. CASE EnsurePut
  <2>1. u = acct.uid => buildWireCustomer.stripe # None
    BY <1>0, <1>3 DEF EnsurePut, StripeCarried, buildWireCustomer
  <2>2. MayPut(acct.uid, buildWireCustomer)
    BY <1>3 DEF EnsurePut, MayPut
  <2> QED
    BY <1>2, <2>1, <2>2
<1>4. CASE DisablePut
  <2>1. existing \in Customer /\ existing = customers[acct.uid]
    BY <1>0, <1>4 DEF DisablePut, StripeCarried, TypeOK
  <2>2. u = acct.uid => DisabledCustomer.stripe # None
    BY <2>1 DEF DisabledCustomer, Customer
  <2>3. MayPut(acct.uid, DisabledCustomer)
    BY <1>4 DEF DisablePut, MayPut
  <2> QED
    BY <1>2, <2>2, <2>3
<1>5. CASE \/ Reconcile \/ AddFinalizer \/ PreserveStripeTraits \/ EnsureGet
           \/ ListPaymentMethodSwitches \/ SchedulePaymentMethodSwitch \/ SyncInvoices
           \/ DisableGet \/ RemoveFinalizer
  BY <1>1, <1>5 DEF Reconcile, AddFinalizer, PreserveStripeTraits, EnsureGet,
     ListPaymentMethodSwitches, SchedulePaymentMethodSwitch, SyncInvoices, DisableGet, RemoveFinalizer
<1>6. CASE CreateAccount \/ EditAccount \/ DeleteAccount \/ Observe \/ Resync \/ RetryElapses \/ Restart
           \/ SecondPasses \/ PeriodStartPasses
  BY <1>1, <1>6 DEF CreateAccount, EditAccount, DeleteAccount, Observe, Resync, RetryElapses, Restart,
     SecondPasses, PeriodStartPasses, worker
<1> QED
  BY <1>3, <1>4, <1>5, <1>6 DEF Next, Work

\* A customer that has a Stripe id keeps one: what EnsureCustomer puts was
\* resolved, or read from the customer since, and DisableCustomer puts what
\* it read.
THEOREM StripeKept == Spec => StripeTraitKept
<1>1. IInv /\ [Next]_vars =>
        [\A u \in Uids : customers[u] # None /\ customers[u].stripe # None =>
           customers'[u].stripe # None]_vars
  <2> SUFFICES ASSUME IInv, Next, NEW u \in Uids, customers[u] # None, customers[u].stripe # None
               PROVE  customers'[u].stripe # None
    OBVIOUS
  <2> QED
    BY StripeStep
<1> QED
  BY <1>1, Invariant, PTL DEF Spec, StripeTraitKept

-----------------------------------------------------------------------------
(* The time of a payment switch.                                           *)

LEMMA MonthLength ==
  ASSUME NEW y, NEW m
  PROVE  DaysIn(y, m) \in 28 .. 31 /\ DaysIn(y, 12) = 31
BY DEF DaysIn

LEMMA BeforeByPart ==
  ASSUME NEW y, NEW m, NEW d, NEW y2, NEW m2, NEW d2
  PROVE  Before(<<y, m, d>>, <<y2, m2, d2>>) <=>
           y < y2 \/ (y = y2 /\ m < m2) \/ (y = y2 /\ m = m2 /\ d < d2)
BY DEF Before

\* invoiceDayInMonth clamps the invoice day as Fitting says.
LEMMA FittingDay ==
  ASSUME NEW y, NEW m, NEW day \in 0 .. 31
  PROVE  /\ Fitting(day, y, m) \in 1 .. DaysIn(y, m)
         /\ day = 0 => Fitting(day, y, m) = 1
         /\ day # 0 => invoiceDayInMonth(y, m, day) = <<y, m, Fitting(day, y, m)>>
<1>1. DaysIn(y, m) \in 28 .. 31
  BY MonthLength
<1> DEFINE n == DaysIn(y, m)
           P(d) == d = day \/ (day = 0 /\ d = 1) \/ (day > n /\ d = n)
           clamped == IF day > n THEN n ELSE IF day < 1 THEN 1 ELSE day
<1>2. n \in 28 .. 31
  BY <1>1
<1>3. Fitting(day, y, m) = CHOOSE d \in 1 .. n : P(d)
  BY DEF Fitting
<1>4. invoiceDayInMonth(y, m, day) = <<y, m, clamped>>
  BY DEF invoiceDayInMonth
<1> HIDE DEF n
<1>5. clamped \in 1 .. n /\ P(clamped)
  BY <1>2
<1>6. \A d \in 1 .. n : P(d) => d = clamped
  BY <1>2
<1> HIDE DEF clamped, P
<1>7. (CHOOSE d \in 1 .. n : P(d)) = clamped
  BY <1>5, <1>6
<1>8. day = 0 => clamped = 1
  BY <1>2 DEF clamped
<1> QED
  BY <1>3, <1>4, <1>5, <1>7, <1>8 DEF n

\* The current period starts in the last month whose invoice day has come.
LEMMA LastInvoiceDay ==
  ASSUME NEW y \in Nat, NEW m \in 1 .. 12, NEW d \in 1 .. 31, y > 0,
         NEW day \in 0 .. 31, NEW py \in {y - 1, y}, NEW pm \in 1 .. 12,
         ~Before(<<y, m, d>>, <<py, pm, Fitting(day, py, pm)>>),
         \A y2 \in {y - 1, y}, m2 \in 1 .. 12 :
           ~Before(<<y, m, d>>, <<y2, m2, Fitting(day, y2, m2)>>) =>
             y2 < py \/ (y2 = py /\ m2 <= pm)
  PROVE  CurrentPeriodStart(<<y, m, d>>, day) = <<py, pm, Fitting(day, py, pm)>>
<1> DEFINE start(y2, m2) == <<y2, m2, Fitting(day, y2, m2)>>
           now == <<y, m, d>>
           past == {e \in {start(y2, m2) : y2 \in {y - 1, y}, m2 \in 1 .. 12} : ~Before(now, e)}
<1>0. now[1] = y
  OBVIOUS
<1> HIDE DEF now
<1>1. CurrentPeriodStart(now, day) = CHOOSE e \in past : \A f \in past : ~Before(e, f)
  BY <1>0 DEF CurrentPeriodStart
<1>2. \A y2, m2 : Fitting(day, y2, m2) \in Nat
  <2> SUFFICES ASSUME NEW y2, NEW m2 PROVE Fitting(day, y2, m2) \in Nat
    OBVIOUS
  <2>1. Fitting(day, y2, m2) \in 1 .. DaysIn(y2, m2) /\ DaysIn(y2, m2) \in 28 .. 31
    BY FittingDay, MonthLength
  <2> QED
    BY <2>1
<1>3. start(py, pm) \in past
  BY DEF now
<1> HIDE DEF start
<1>4. ASSUME NEW e \in past
      PROVE  /\ ~Before(start(py, pm), e)
             /\ ~Before(e, start(py, pm)) => e = start(py, pm)
  <2>1. PICK y2 \in {y - 1, y}, m2 \in 1 .. 12 : e = start(y2, m2) /\ ~Before(now, start(y2, m2))
    OBVIOUS
  <2>2. y2 < py \/ (y2 = py /\ m2 <= pm)
    BY <2>1 DEF start, now
  <2>3. y2 \in Nat /\ py \in Nat /\ m2 \in Nat /\ pm \in Nat
    OBVIOUS
  <2>4. ~Before(start(py, pm), start(y2, m2))
    BY <1>2, <2>2, <2>3, BeforeByPart DEF start
  <2>5. ~Before(start(y2, m2), start(py, pm)) => y2 = py /\ m2 = pm
    BY <1>2, <2>2, <2>3, BeforeByPart DEF start
  <2> QED
    BY <2>1, <2>4, <2>5
<1> HIDE DEF past
<1>5. (CHOOSE e \in past : \A f \in past : ~Before(e, f)) = start(py, pm)
  BY <1>3, <1>4
<1> QED
  BY <1>1, <1>5 DEF start, now

\* On every date of the calendar and for every invoice day, periodStartUTC
\* (stripe_customer.go:274-292) is what its comment says exactly if AddDate does
\* not step back into the same month; if it does, the period start lies ahead,
\* and only then does a switch wait for it.
THEOREM PeriodStartDiverges ==
  ASSUME NEW y \in Nat, y > 0, NEW m \in 1 .. 12, NEW d \in 1 .. DaysIn(y, m), NEW day \in 0 .. 31
  PROVE  LET now == <<y, m, d>> IN
         /\ AsDocumented(now, day) <=> ~StepsBackIntoThisMonth(now, day)
         /\ StepsBackIntoThisMonth(now, day) => Before(now, periodStartUTC(now, day))
         /\ switchTimeUnix(now, day) =
              IF StepsBackIntoThisMonth(now, day) THEN periodStartUTC(now, day) ELSE Soon
<1> DEFINE now == <<y, m, d>>
<1> DEFINE F(y2, m2) == Fitting(day, y2, m2)
<1>1. d \in 1 .. 31 /\ DaysIn(y, m) \in 28 .. 31
  BY MonthLength
<1>2. F(y, m) \in 1 .. DaysIn(y, m) /\ F(y, m) \in Nat
  BY <1>1, FittingDay
<1>3. PICK py \in {y - 1, y}, pm \in 1 .. 12 :
        /\ PreviousMonth(y, m) = <<py, pm>>
        /\ m = 1 => py = y - 1 /\ pm = 12
        /\ m # 1 => py = y /\ pm = m - 1
  <2>1. CASE m = 1
    BY <2>1 DEF PreviousMonth
  <2>2. CASE m # 1
    <3>1. m - 1 \in 1 .. 12
      BY <2>2
    <3> QED
      BY <2>2, <3>1 DEF PreviousMonth
  <2> QED
    BY <2>1, <2>2
<1>4. StepsBackIntoThisMonth(now, day) <=> d < F(y, m) /\ d > DaysIn(py, pm)
  BY <1>3 DEF StepsBackIntoThisMonth
<1>5. CASE F(y, m) <= d
  <2>1. periodStartUTC(now, day) = <<y, m, F(y, m)>>
    <3>1. CASE day = 0
      BY <3>1, FittingDay DEF periodStartUTC, monthStartUTC
    <3>2. CASE day # 0
      <4>1. ~Before(now, <<y, m, F(y, m)>>)
        BY <1>1, <1>2, <1>5, BeforeByPart
      <4>2. invoiceDayInMonth(y, m, day) = <<y, m, F(y, m)>>
        BY <3>2, FittingDay
      <4> QED
        BY <3>2, <4>1, <4>2 DEF periodStartUTC
    <3> QED
      BY <3>1, <3>2
  <2>2. ~Before(now, <<y, m, F(y, m)>>)
    BY <1>1, <1>2, <1>5, BeforeByPart
  <2>3. ASSUME NEW y2 \in {y - 1, y}, NEW m2 \in 1 .. 12, ~Before(now, <<y2, m2, F(y2, m2)>>)
        PROVE  y2 < y \/ (y2 = y /\ m2 <= m)
    BY <2>3, BeforeByPart
  <2>4. CurrentPeriodStart(now, day) = <<y, m, F(y, m)>>
    BY <1>1, <2>2, <2>3, LastInvoiceDay
  <2>5. switchTimeUnix(now, day) = Soon
    BY <2>1, <2>2 DEF switchTimeUnix
  <2>6. ~StepsBackIntoThisMonth(now, day)
    BY <1>1, <1>2, <1>4, <1>5
  <2> QED
    BY <2>1, <2>4, <2>5, <2>6 DEF AsDocumented
<1>6. CASE d < F(y, m)
  <2>1. day # 0
    BY <1>1, <1>6, FittingDay
  <2>2. invoiceDayInMonth(y, m, day) = <<y, m, F(y, m)>> /\ Before(now, <<y, m, F(y, m)>>)
    BY <1>6, <2>1, FittingDay, BeforeByPart
  <2>3. LET prev == MonthBefore(now)
        IN  periodStartUTC(now, day) = invoiceDayInMonth(prev[1], prev[2], day)
    BY <2>1, <2>2 DEF periodStartUTC
  <2>4. DaysIn(py, pm) \in 28 .. 31 /\ (m = 1 => DaysIn(py, pm) = 31)
    BY <1>3, MonthLength
  <2>5. MonthBefore(now) = Normalised(py, pm, d)
    BY <1>3 DEF MonthBefore
  <2>6. invoiceDayInMonth(py, pm, day) = <<py, pm, F(py, pm)>>
    BY <2>1, FittingDay
  <2>9. ~Before(now, <<py, pm, F(py, pm)>>)
    BY <1>3, BeforeByPart
  <2>10. ASSUME NEW y2 \in {y - 1, y}, NEW m2 \in 1 .. 12, ~Before(now, <<y2, m2, F(y2, m2)>>)
        PROVE  y2 < py \/ (y2 = py /\ m2 <= pm)
    <3>1. y2 < y \/ (y2 = y /\ m2 < m)
      <4>1. y2 < y \/ (y2 = y /\ m2 <= m)
        BY <2>10, BeforeByPart
      <4>2. ~(y2 = y /\ m2 = m)
        BY <1>6, <2>10, BeforeByPart
      <4> QED
        BY <4>1, <4>2
    <3> QED
      BY <1>3, <3>1
  <2>11. CurrentPeriodStart(now, day) = <<py, pm, F(py, pm)>>
    BY <1>1, <1>3, <2>9, <2>10, LastInvoiceDay
  <2>7. CASE d <= DaysIn(py, pm)
    <3>1. MonthBefore(now) = <<py, pm, d>>
      BY <2>5, <2>7 DEF Normalised
    <3>2. periodStartUTC(now, day) = <<py, pm, F(py, pm)>>
      BY <2>3, <3>1, <2>6
    <3>6. switchTimeUnix(now, day) = Soon
      BY <3>2, <2>9 DEF switchTimeUnix
    <3>7. ~StepsBackIntoThisMonth(now, day)
      BY <1>1, <1>4, <2>4, <2>7
    <3> QED
      BY <3>2, <2>11, <3>6, <3>7 DEF AsDocumented
  <2>8. CASE d > DaysIn(py, pm)
    <3>1. m # 1 /\ py = y /\ pm = m - 1 /\ pm # 12 /\ pm + 1 = m
      BY <1>1, <1>3, <2>4, <2>8
    <3>2. MonthBefore(now) = <<y, m, d - DaysIn(py, pm)>>
      BY <1>1, <2>4, <2>5, <2>8, <3>1 DEF Normalised
    <3>3. periodStartUTC(now, day) = <<y, m, F(y, m)>>
      BY <2>2, <2>3, <3>2
    <3>4. Before(now, periodStartUTC(now, day)) /\ switchTimeUnix(now, day) = periodStartUTC(now, day)
      BY <2>2, <3>3 DEF switchTimeUnix
    <3>5. StepsBackIntoThisMonth(now, day)
      BY <1>4, <1>6, <2>8
    <3>6. ~AsDocumented(now, day)
      BY <2>11, <3>1, <3>3 DEF AsDocumented
    <3> QED
      BY <3>4, <3>5, <3>6
  <2> QED
    BY <1>1, <2>4, <2>7, <2>8
<1> QED
  BY <1>1, <1>2, <1>5, <1>6
=============================================================================
