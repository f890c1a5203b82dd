-------------------------- MODULE EntitlementProofs --------------------------
(***************************************************************************)
(* Proofs about EntitlementController, for any number of offers, accounts  *)
(* created one after the other, faults and user steps: type correctness,   *)
(* that no customer ever has two open assignments, and which assignments   *)
(* a deleted entitlement may leave open.                                   *)
(***************************************************************************)
EXTENDS EntitlementController, TLAPS

\* Versions reach the informer in order: only the newest one carries the last
\* resourceVersion given out, and a worker that holds the newest version holds
\* what the API server and the cache have. This is what makes the conflict
\* check of an update mean what it says.
VersionsInOrder ==
  /\ api # None => api.rv = version
  /\ cached # None =>
       /\ cached.rv <= version
       /\ cached.rv = version => cached = api /\ feed = <<>>
  /\ \A i \in 1 .. Len(feed) : feed[i] # None =>
       /\ feed[i].rv <= version
       /\ feed[i].rv = version => feed[i] = api /\ i = Len(feed)
  /\ be # None =>
       /\ be.rv <= version
       /\ be.rv = version => be = api /\ cached = api /\ feed = <<>>

\* What a version v tells of the entitlement e that the API server has now: a
\* finalizer is only released once the entitlement is seen to be deleted, and
\* annotations that agree with the offer and the account there was last are only
\* overwritten by a reconcile that saw a later version.
Backed(v, e) ==
  v # None /\ v.finalizer /\ ~v.deleting =>
    /\ e # None /\ e.finalizer
    /\ v.last = v.offer /\ v.lastCustomer = account =>
         e.last = v.last /\ e.lastCustomer = account

AllBacked ==
  /\ Backed(cached, api)
  /\ \A i \in 1 .. Len(feed) : Backed(feed[i], api)
  /\ Backed(be, api)

\* A UID not given out yet is no version's annotation, no reconcile's customer,
\* and nobody's assignment.
Unnamed(v) == v # None => v.lastCustomer \notin spare

Fresh ==
  /\ Unnamed(api) /\ Unnamed(cached) /\ Unnamed(be)
  /\ \A i \in 1 .. Len(feed) : Unnamed(feed[i])
  /\ customer \notin spare
  /\ \A c \in spare, p \in Offers : assignments[c][p] # "open"

EnsureStates == {"getPlan", "cancelPrev", "ensureList", "cancelStrays", "postPlan", "annotate"}

\* The version each path of Reconcile works from.
OnPath ==
  /\ pc \in EnsureStates => be.finalizer /\ ~be.deleting
  /\ pc = "cancelPrev" => be.last # None
  /\ pc \in {"cancelAll", "release"} => be.deleting

\* A reconcile assigns plans to one customer. When its account was created
\* again meanwhile, the new customer has none.
Superseded ==
  pc \in EnsureStates /\ customer # account =>
    /\ be.lastCustomer # account
    /\ \A p \in Offers : assignments[account][p] # "open"

\* A plan that is assigned to the newest customer without an end, and annotated,
\* is the annotated plan of an entitlement that the finalizer holds.
Recorded ==
  \A p \in Offers : assignments[account][p] = "open" /\ <<account, p>> \notin unrecorded =>
    api # None /\ api.finalizer /\ api.last = p /\ api.lastCustomer = account

\* EnsureCustomerPlan posts the new assignment last: by then every other open
\* one has been cancelled.
StraysFirst ==
  /\ pc = "cancelStrays" =>
       \A p \in Offers : assignments[customer][p] = "open" /\ p # be.offer => p \in toCancel
  /\ pc \in {"postPlan", "annotate"} =>
       \A p \in Offers : assignments[customer][p] = "open" => p = be.offer

\* The plan that reconcileDelete is bound to cancel: the annotated one, and the
\* one that account and offer lead to.
Bound(p) ==
  \/ p = be.last /\ be.lastCustomer = account
  \/ p = be.offer /\ accountThere /\ stage[p] # "gone"

\* It cancels them before it releases the finalizer.
CancelFirst ==
  pc \in {"cancelAll", "release"} =>
    \A p \in Offers : Bound(p) /\ assignments[account][p] = "open" =>
      pc = "cancelAll" /\ customer = account /\ p \in toCancel

IInv ==
  /\ TypeOK /\ VersionsInOrder /\ AllBacked /\ Fresh /\ OnPath /\ Superseded
  /\ Recorded /\ StraysFirst /\ CancelFirst /\ OneOpenAssignment

-----------------------------------------------------------------------------
(* Writes of the entitlement.                                              *)

\* The API server changes nothing of a write but its version.
LEMMA WriteFields ==
  ASSUME TypeOK, NEW e \in Entitlement \cup {None}, Write(e)
  PROVE  /\ version' = version + 1 /\ version \in Nat
         /\ feed' = Append(feed, api')
         /\ e = None => api' = None
         /\ e # None => /\ api' \in Entitlement /\ api' # None /\ api'.rv = version + 1
                        /\ api'.offer = e.offer /\ api'.last = e.last
                        /\ api'.lastCustomer = e.lastCustomer
                        /\ api'.finalizer = e.finalizer /\ api'.deleting = e.deleting
<1>1. version \in Nat /\ version' = version + 1 /\ feed' = Append(feed, api')
  BY DEF TypeOK, Write
<1>2. CASE e = None
  BY <1>1, <1>2 DEF Write
<1>3. CASE e # None
  <2>1. e \in Entitlement /\ api' = [e EXCEPT !.rv = version + 1]
    BY <1>3 DEF Write
  <2>2. api' \in Entitlement
    BY <1>1, <2>1 DEF Entitlement
  <2>3. api'.rv = version + 1 /\ api'.offer = e.offer /\ api'.last = e.last
    BY <2>1 DEF Entitlement
  <2>4. /\ api'.finalizer = e.finalizer /\ api'.deleting = e.deleting
        /\ api'.lastCustomer = e.lastCustomer
    BY <2>1 DEF Entitlement
  <2> QED
    BY <1>1, <1>3, <2>2, <2>3, <2>4, NoneIsNoRecord
<1> QED
  BY <1>2, <1>3

\* What a write appends is the last of the versions to be delivered.
LEMMA FeedAfterWrite ==
  ASSUME TypeOK, NEW e \in Entitlement \cup {None}, Write(e)
  PROVE  /\ feed' \in Seq(Entitlement \cup {None})
         /\ Len(feed') = Len(feed) + 1 /\ Len(feed) \in Nat
         /\ feed'[Len(feed) + 1] = api'
         /\ \A i \in 1 .. Len(feed) : feed'[i] = feed[i]
<1>1. feed \in Seq(Entitlement \cup {None}) /\ feed' = Append(feed, api')
  BY WriteFields DEF TypeOK
<1>2. api' \in Entitlement \cup {None}
  BY WriteFields
<1> QED
  BY <1>1, <1>2

\* A write keeps the versions in order: no version seen so far is the newest.
LEMMA WriteKeepsOrder ==
  ASSUME TypeOK, VersionsInOrder, NEW e \in Entitlement \cup {None}, Write(e),
         cached' = cached, be' \in {be, None}
  PROVE  VersionsInOrder'
<1>1. /\ version' = version + 1 /\ version \in Nat
      /\ api' # None => api'.rv = version + 1
  BY WriteFields
<1>2. api' # None => api'.rv = version'
  BY <1>1
<1>3. cached' # None => cached'.rv <= version' /\ cached'.rv # version'
  BY <1>1 DEF VersionsInOrder, TypeOK, Entitlement
<1>4. be' # None => be'.rv <= version' /\ be'.rv # version'
  BY <1>1 DEF VersionsInOrder, TypeOK, Entitlement
<1>5. ASSUME NEW i \in 1 .. Len(feed'), feed'[i] # None
      PROVE  /\ feed'[i].rv <= version'
             /\ feed'[i].rv = version' => feed'[i] = api' /\ i = Len(feed')
  <2>1. CASE i = Len(feed) + 1
    BY <1>1, <1>5, <2>1, FeedAfterWrite
  <2>2. CASE i \in 1 .. Len(feed)
    <3>1. feed[i] \in Entitlement /\ feed'[i] = feed[i]
      BY <1>5, <2>2, FeedAfterWrite DEF TypeOK
    <3>2. feed[i].rv <= version /\ feed[i].rv \in Nat
      BY <1>5, <2>2, <3>1 DEF VersionsInOrder, Entitlement
    <3> QED
      BY <1>1, <3>1, <3>2
  <2> QED
    BY <2>1, <2>2, FeedAfterWrite
<1> QED
  BY <1>2, <1>3, <1>4, <1>5 DEF VersionsInOrder

\* A write that takes back nothing an earlier version told keeps every version
\* backed.
LEMMA WriteKeepsBacked ==
  ASSUME TypeOK, AllBacked, NEW e \in Entitlement \cup {None}, Write(e),
         cached' = cached, be' \in {be, None}, account' = account,
         api # None /\ api.finalizer =>
           api' # None /\ api'.finalizer /\ api'.last = api.last /\ api'.lastCustomer = api.lastCustomer
  PROVE  AllBacked'
<1>1. ASSUME NEW v, Backed(v, api)
      PROVE  Backed(v, api')
  BY <1>1 DEF Backed
<1>2. Backed(cached', api')
  BY <1>1 DEF AllBacked
<1>3. Backed(be', api')
  BY <1>1 DEF AllBacked, Backed
<1>4. ASSUME NEW i \in 1 .. Len(feed')
      PROVE  Backed(feed'[i], api')
  <2>1. CASE i = Len(feed) + 1
    BY <2>1, FeedAfterWrite DEF Backed
  <2>2. CASE i \in 1 .. Len(feed)
    BY <1>1, <2>2, FeedAfterWrite DEF AllBacked
  <2> QED
    BY <2>1, <2>2, FeedAfterWrite
<1> QED
  BY <1>2, <1>3, <1>4 DEF AllBacked, Backed

\* A write by a worker that holds the newest version: nothing else is known.
LEMMA WriteOfCurrent ==
  ASSUME TypeOK, VersionsInOrder, Current, be \in Entitlement,
         NEW e \in Entitlement \cup {None}, Write(e), cached' = cached, be' = None,
         account' = account, Backed(be, api')
  PROVE  AllBacked'
<1>1. be = api /\ cached = api /\ feed = <<>>
  BY NoneIsNoRecord DEF Current, VersionsInOrder
<1>2. Len(feed') = 1 /\ feed'[1] = api'
  BY <1>1, FeedAfterWrite
<1>3. Backed(cached', api') /\ Backed(be', api')
  BY <1>1 DEF Backed
<1>4. \A i \in 1 .. Len(feed') : Backed(feed'[i], api')
  BY <1>2 DEF Backed
<1> QED
  BY <1>3, <1>4 DEF AllBacked, Backed

\* A write that annotates no UID that is still to be given out.
LEMMA WriteFresh ==
  ASSUME TypeOK, Fresh, NEW e \in Entitlement \cup {None}, Write(e), Unnamed(e),
         cached' = cached, be' \in {be, None}, spare' = spare, customer' \in {customer, None},
         assignments' = assignments
  PROVE  Fresh'
<1>1. Unnamed(api)'
  BY WriteFields DEF Unnamed
<1>2. Unnamed(cached)' /\ Unnamed(be)' /\ customer' \notin spare
  BY NoneAssumption DEF Fresh, Unnamed, TypeOK
<1>3. ASSUME NEW i \in 1 .. Len(feed')
      PROVE  feed'[i] # None => feed'[i].lastCustomer \notin spare'
  <2>1. CASE i = Len(feed) + 1
    BY <1>1, <2>1, FeedAfterWrite DEF Unnamed
  <2>2. CASE i \in 1 .. Len(feed)
    BY <2>2, FeedAfterWrite DEF Fresh, Unnamed
  <2> QED
    BY <2>1, <2>2, FeedAfterWrite
<1> QED
  BY <1>1, <1>2, <1>3 DEF Fresh, Unnamed

-----------------------------------------------------------------------------
(* What the steps have in common.                                          *)

AssignmentsType == [Customers -> [Offers -> {"none", "open", "ending", "ended"}]]

\* A step that writes nothing, and keeps or drops the version it works from.
LEMMA Steady ==
  ASSUME VersionsInOrder, AllBacked, NoWrite, cached' = cached, be' \in {be, None},
         account' = account
  PROVE  VersionsInOrder' /\ AllBacked'
<1>1. api' = api /\ version' = version /\ feed' = feed
  BY DEF NoWrite
<1>2. VersionsInOrder'
  BY <1>1 DEF VersionsInOrder
<1>3. AllBacked'
  BY <1>1 DEF AllBacked, Backed
<1> QED
  BY <1>2, <1>3

\* No UID still to be given out gets an assignment.
SpareUntouched == \A c \in spare, p \in Offers : assignments'[c][p] # "open"

LEMMA SteadyFresh ==
  ASSUME TypeOK, Fresh, NoWrite, cached' = cached, be' \in {be, None}, spare' = spare,
         customer' \in {customer, None}, SpareUntouched
  PROVE  Fresh'
<1>1. api' = api /\ feed' = feed
  BY DEF NoWrite
<1>2. Unnamed(api)' /\ Unnamed(cached)' /\ Unnamed(be)' /\ customer' \notin spare
  BY <1>1, NoneAssumption DEF Fresh, Unnamed, TypeOK
<1>3. \A i \in 1 .. Len(feed') : Unnamed(feed[i])'
  BY <1>1 DEF Fresh, Unnamed
<1> QED
  BY <1>1, <1>2, <1>3 DEF Fresh, SpareUntouched

\* A step that opens no assignment and forgets none that stays open.
NothingOpens ==
  \A c \in Customers, q \in Offers : assignments'[c][q] = "open" =>
    assignments[c][q] = "open" /\ (<<c, q>> \notin unrecorded' => <<c, q>> \notin unrecorded)

\* Cancelling opens nothing, and forgets only what it closed.
LEMMA CancelFacts ==
  ASSUME TypeOK, NEW p \in Offers, customer \in Customers, MayCancel(p)
  PROVE  /\ assignments' \in AssignmentsType
         /\ unrecorded' \subseteq Customers \X Offers
         /\ NothingOpens
         /\ Cancelled(p) => assignments'[customer][p] # "open"
<1>1. assignments \in AssignmentsType /\ unrecorded \subseteq Customers \X Offers
  BY DEF TypeOK, AssignmentsType
<1>2. CASE Cancelled(p)
  <2>1. \A c \in Customers, q \in Offers : assignments'[c][q] =
          IF c = customer /\ q = p
          THEN IF assignments[c][q] \in {"open", "ending"} THEN "ending" ELSE assignments[c][q]
          ELSE assignments[c][q]
    BY <1>1, <1>2 DEF Cancelled, CancelCustomerPlan, AssignmentsType
  <2>2. assignments' \in AssignmentsType
    BY <1>1, <1>2 DEF Cancelled, CancelCustomerPlan, AssignmentsType
  <2>3. unrecorded' = unrecorded \ {<<customer, p>>}
    BY <1>2 DEF Cancelled
  <2>4. NothingOpens
    BY <2>1, <2>3 DEF NothingOpens
  <2> QED
    BY <1>1, <2>1, <2>2, <2>3, <2>4
<1>3. CASE UNCHANGED <<assignments, unrecorded>> /\ ~Cancelled(p)
  BY <1>1, <1>3 DEF NothingOpens
<1> QED
  BY <1>2, <1>3 DEF MayCancel

LEMMA NothingOpensKeeps ==
  ASSUME TypeOK, Recorded, OneOpenAssignment, Fresh, NothingOpens, api' = api, account' = account
  PROVE  Recorded' /\ OneOpenAssignment' /\ SpareUntouched
<1>1. account \in Customers /\ spare \subseteq Customers
  BY DEF TypeOK
<1>2. Recorded'
  BY <1>1 DEF Recorded, NothingOpens
<1>3. OneOpenAssignment'
  BY DEF OneOpenAssignment, NothingOpens
<1>4. SpareUntouched
  BY <1>1 DEF SpareUntouched, Fresh, NothingOpens
<1> QED
  BY <1>2, <1>3, <1>4

\* A step of the same reconcile that opens nothing.
LEMMA SupersededKept ==
  ASSUME TypeOK, Superseded, NothingOpens, account' = account, customer' = customer, be' = be,
         pc \in EnsureStates \/ pc' \notin EnsureStates
  PROVE  Superseded'
BY DEF TypeOK, Superseded, NothingOpens

LEMMA FaultBound ==
  ASSUME TypeOK, SpendFault
  PROVE  faults' \in 0 .. MaxFaults
BY BoundsAssumption DEF TypeOK, SpendFault

LEMMA UserBound ==
  ASSUME TypeOK, SpendUserStep
  PROVE  userSteps' \in 0 .. MaxUserSteps
BY BoundsAssumption DEF TypeOK, SpendUserStep

\* A user's write, that takes back neither finalizer nor annotation.
LEMMA UserWrite ==
  ASSUME IInv, NEW e \in Entitlement \cup {None}, Write(e),
         UNCHANGED <<cached, catalogue, queued, retry, worker, assignments, unrecorded, faults>>,
         userSteps' \in 0 .. MaxUserSteps,
         api # None /\ api.finalizer => e # None /\ e.finalizer = api.finalizer /\ e.last = api.last,
         Unnamed(e), api # None /\ api.finalizer => e.lastCustomer = api.lastCustomer
  PROVE  IInv'
<1>0. TypeOK /\ VersionsInOrder /\ AllBacked /\ Fresh /\ OnPath /\ Superseded /\ Recorded
      /\ StraysFirst /\ CancelFirst /\ OneOpenAssignment
  BY DEF IInv
<1>1. /\ pc' = pc /\ be' = be /\ endedAt' = endedAt /\ match' = match /\ toCancel' = toCancel
      /\ customer' = customer /\ UNCHANGED <<account, accountThere, spare, stage>>
  BY DEF worker, catalogue, accounts
<1>2. api # None /\ api.finalizer => api' # None /\ api'.finalizer = api.finalizer /\ api'.last = api.last
        /\ api'.lastCustomer = api.lastCustomer
  BY <1>0, WriteFields
<1>3. TypeOK'
  BY <1>0, <1>1, WriteFields, FeedAfterWrite DEF TypeOK
<1>4. VersionsInOrder' /\ AllBacked'
  BY <1>0, <1>1, <1>2, WriteKeepsOrder, WriteKeepsBacked
<1>5. Recorded'
  BY <1>0, <1>1, <1>2 DEF Recorded
<1>6. OnPath' /\ Superseded' /\ StraysFirst' /\ CancelFirst' /\ OneOpenAssignment'
  BY <1>0, <1>1 DEF OnPath, Superseded, StraysFirst, CancelFirst, Bound, OneOpenAssignment
<1>7. Fresh'
  BY <1>0, <1>1, WriteFresh
<1> QED
  BY <1>3, <1>4, <1>5, <1>6, <1>7 DEF IInv

\* A step of others that leaves the entitlement, the UIDs and the worker alone.
\* Offers that are gone stay gone.
LEMMA OtherStep ==
  ASSUME IInv, UNCHANGED <<api, version, feed, cached, account, spare, worker, unrecorded>>,
         accountThere' => accountThere,
         \A o \in Offers : stage'[o] # "gone" => stage[o] # "gone",
         NothingOpens, TypeOK'
  PROVE  IInv'
<1>0. TypeOK /\ VersionsInOrder /\ AllBacked /\ Fresh /\ OnPath /\ Superseded /\ Recorded
      /\ StraysFirst /\ CancelFirst /\ OneOpenAssignment
  BY DEF IInv
<1>1. /\ pc' = pc /\ be' = be /\ customer' = customer /\ toCancel' = toCancel
      /\ cached' = cached /\ NoWrite /\ api' = api
  BY DEF worker, NoWrite
<1>2. VersionsInOrder' /\ AllBacked'
  BY <1>0, <1>1, Steady
<1>3. Recorded' /\ OneOpenAssignment' /\ SpareUntouched
  BY <1>0, <1>1, NothingOpensKeeps
<1>4. OnPath' /\ Superseded'
  BY <1>0, <1>1, SupersededKept DEF OnPath
<1>5. StraysFirst'
  <2>1. pc \in {"cancelStrays", "postPlan", "annotate"} => customer \in Customers
    BY <1>0 DEF TypeOK
  <2> QED
    BY <1>0, <1>1, <2>1 DEF StraysFirst, NothingOpens
<1>6. CancelFirst'
  <2>1. \A p \in Offers : Bound(p)' => Bound(p)
    BY <1>1 DEF Bound
  <2>2. account \in Customers
    BY <1>0 DEF TypeOK
  <2> QED
    BY <1>0, <1>1, <2>1, <2>2 DEF CancelFirst, NothingOpens
<1>7. Fresh'
  BY <1>0, <1>1, <1>3, SteadyFresh
<1> QED
  BY <1>2, <1>3, <1>4, <1>5, <1>6, <1>7 DEF IInv

\* The worker returns with nothing written. What it has cancelled or assigned
\* so far stays.
LEMMA ReturnStep ==
  ASSUME IInv, NEW again \in BOOLEAN, Return(again), NoWrite, UNCHANGED environment,
         faults' \in 0 .. MaxFaults, unrecorded' \subseteq Customers \X Offers,
         assignments' \in AssignmentsType,
         Recorded', OneOpenAssignment', SpareUntouched
  PROVE  IInv'
<1>0. TypeOK /\ VersionsInOrder /\ AllBacked /\ Fresh
  BY DEF IInv
<1>1. /\ pc' = "idle" /\ be' = None /\ customer' = None
      /\ endedAt' = {} /\ match' = FALSE /\ toCancel' = {} /\ retry' = (retry \/ again)
  BY DEF Return
<1>2. UNCHANGED <<cached, account, accountThere, spare, stage, queued, userSteps>>
  BY DEF environment, catalogue, accounts
<1>3. VersionsInOrder' /\ AllBacked' /\ Fresh'
  BY <1>0, <1>1, <1>2, Steady, SteadyFresh
<1>4. TypeOK'
  BY <1>0, <1>1, <1>2 DEF TypeOK, NoWrite, WorkerStates, AssignmentsType
<1>5. OnPath' /\ Superseded' /\ StraysFirst' /\ CancelFirst'
  BY <1>1 DEF OnPath, Superseded, StraysFirst, CancelFirst, EnsureStates
<1> QED
  BY <1>3, <1>4, <1>5 DEF IInv

\* The worker returns having cancelled at most plan p.
LEMMA FailedCancel ==
  ASSUME IInv, NEW p \in Offers, customer \in Customers,
         NEW again \in BOOLEAN, Return(again), NoWrite,
         UNCHANGED environment, faults' \in 0 .. MaxFaults, MayCancel(p)
  PROVE  IInv'
<1>1. TypeOK /\ Recorded /\ OneOpenAssignment /\ Fresh /\ account' = account /\ api' = api
  BY DEF IInv, NoWrite, environment, catalogue, accounts
<1>2. Recorded' /\ OneOpenAssignment' /\ SpareUntouched
  BY <1>1, CancelFacts, NothingOpensKeeps
<1> QED
  BY <1>1, <1>2, CancelFacts, ReturnStep

\* The worker returns and neither wrote nor called anything that took effect.
LEMMA IdleReturn ==
  ASSUME IInv, NEW again \in BOOLEAN, Return(again), NoWrite,
         UNCHANGED <<environment, assignments, unrecorded>>, faults' \in 0 .. MaxFaults
  PROVE  IInv'
<1>1. TypeOK /\ Recorded /\ OneOpenAssignment /\ Fresh /\ account' = account /\ api' = api
  BY DEF IInv, NoWrite, environment, catalogue, accounts
<1>2. Recorded' /\ OneOpenAssignment' /\ SpareUntouched
  BY <1>1, NothingOpensKeeps DEF NothingOpens
<1> QED
  BY <1>1, <1>2, ReturnStep DEF TypeOK, AssignmentsType

\* The worker goes on with the version and the customer it has.
LEMMA ProceedStep ==
  ASSUME IInv, NoWrite, UNCHANGED <<environment, be, customer, retry>>, be \in Entitlement,
         pc' \in WorkerStates, pc' = "release" \/ customer # None,
         endedAt' \subseteq Offers, match' \in BOOLEAN,
         toCancel' \subseteq Offers, faults' \in 0 .. MaxFaults,
         unrecorded' \subseteq Customers \X Offers, assignments' \in AssignmentsType,
         Recorded', OneOpenAssignment', SpareUntouched,
         OnPath', Superseded', StraysFirst', CancelFirst'
  PROVE  IInv'
<1>0. TypeOK /\ VersionsInOrder /\ AllBacked /\ Fresh
  BY DEF IInv
<1>1. UNCHANGED <<cached, account, accountThere, spare, stage, queued, userSteps>>
  BY DEF environment, catalogue, accounts
<1>2. VersionsInOrder' /\ AllBacked' /\ Fresh'
  BY <1>0, <1>1, Steady, SteadyFresh
<1>3. TypeOK'
  BY <1>0, <1>1 DEF TypeOK, NoWrite, AssignmentsType
<1> QED
  BY <1>2, <1>3 DEF IInv

-----------------------------------------------------------------------------
(* The API server, its users, and Amberflo.                                *)

LEMMA InitIInv == Init => IInv
<1> SUFFICES ASSUME Init PROVE IInv
  OBVIOUS
<1>0. account \in Customers /\ spare = Customers \ {account}
  BY CustomersAssumption DEF Init
<1>1. TypeOK
  <2>1. faults \in 0 .. MaxFaults /\ userSteps \in 0 .. MaxUserSteps
    BY BoundsAssumption DEF Init
  <2>2. feed \in Seq(Entitlement \cup {None}) /\ version \in Nat
    BY DEF Init
  <2>3. api = None /\ cached = None /\ be = None /\ customer = None /\ pc = "idle"
        /\ queued = FALSE /\ retry = FALSE /\ match = FALSE /\ accountThere = TRUE
        /\ endedAt = {} /\ toCancel = {} /\ unrecorded = {}
    BY DEF Init
  <2>4. /\ stage \in [Offers -> {"draft", "ga", "published", "gone"}]
        /\ assignments \in [Customers -> [Offers -> {"none", "open", "ending", "ended"}]]
    BY DEF Init
  <2> QED
    BY <1>0, <2>1, <2>2, <2>3, <2>4 DEF TypeOK, WorkerStates
<1>2. \A c \in Customers, o \in Offers : assignments[c][o] = "none"
  BY DEF Init
<1>3. Fresh /\ Recorded /\ OneOpenAssignment
  BY <1>0, <1>2, NoneAssumption DEF Init, Fresh, Unnamed, Recorded, OneOpenAssignment
<1>4. VersionsInOrder /\ AllBacked /\ OnPath /\ Superseded /\ StraysFirst /\ CancelFirst
  BY DEF Init, VersionsInOrder, AllBacked, Backed, OnPath, Superseded, StraysFirst, CancelFirst,
         EnsureStates
<1> QED
  BY <1>1, <1>3, <1>4 DEF IInv

LEMMA CreateEntitlementIInv == IInv /\ CreateEntitlement => IInv'
<1> SUFFICES ASSUME IInv, CreateEntitlement PROVE IInv'
  OBVIOUS
<1>1. PICK o \in Offers : Write([rv |-> 0, offer |-> o, last |-> None,
                                lastCustomer |-> None,
                                finalizer |-> FALSE, deleting |-> FALSE])
  BY DEF CreateEntitlement
<1> DEFINE e == [rv |-> 0, offer |-> o, last |-> None, lastCustomer |-> None,
                 finalizer |-> FALSE, deleting |-> FALSE]
<1>2. e \in Entitlement /\ e.lastCustomer = None
  BY DEF Entitlement
<1>3. userSteps' \in 0 .. MaxUserSteps
  BY UserBound DEF CreateEntitlement, IInv
<1>4. Unnamed(e)
  BY <1>2, NoneAssumption DEF Unnamed, IInv, TypeOK
<1>5. Write(e)
  BY <1>1
<1> HIDE DEF e
<1> QED
  BY <1>2, <1>3, <1>4, <1>5, UserWrite DEF CreateEntitlement

LEMMA ChangeOfferIInv == IInv /\ ChangeOffer => IInv'
<1> SUFFICES ASSUME IInv, ChangeOffer PROVE IInv'
  OBVIOUS
<1>1. PICK o \in Offers \ {api.offer} : Write([api EXCEPT !.offer = o])
  BY DEF ChangeOffer
<1>2. api \in Entitlement
  BY DEF ChangeOffer, IInv, TypeOK
<1> DEFINE e == [api EXCEPT !.offer = o]
<1>3. e \in Entitlement /\ e.last = api.last /\ e.finalizer = api.finalizer
      /\ e.lastCustomer = api.lastCustomer
  BY <1>2 DEF Entitlement
<1>4. e # None /\ Unnamed(e)
  BY <1>2, <1>3, NoneIsNoRecord DEF IInv, Fresh, Unnamed
<1>5. userSteps' \in 0 .. MaxUserSteps
  BY UserBound DEF ChangeOffer, IInv
<1>6. Write(e)
  BY <1>1
<1> HIDE DEF e
<1> QED
  BY <1>3, <1>4, <1>5, <1>6, UserWrite DEF ChangeOffer

LEMMA DeleteEntitlementIInv == IInv /\ DeleteEntitlement => IInv'
<1> SUFFICES ASSUME IInv, DeleteEntitlement PROVE IInv'
  OBVIOUS
<1>1. api \in Entitlement
  BY DEF DeleteEntitlement, IInv, TypeOK
<1>2. userSteps' \in 0 .. MaxUserSteps
  BY UserBound DEF DeleteEntitlement, IInv
<1>3. CASE api.finalizer
  <2> DEFINE e == [api EXCEPT !.deleting = TRUE]
  <2>1. e \in Entitlement /\ e.last = api.last /\ e.finalizer = api.finalizer
      /\ e.lastCustomer = api.lastCustomer
    BY <1>1 DEF Entitlement
  <2>2. e # None /\ Write(e) /\ Unnamed(e)
    BY <1>1, <1>3, <2>1, NoneIsNoRecord DEF DeleteEntitlement, IInv, Fresh, Unnamed
  <2> HIDE DEF e
  <2> QED
    BY <1>2, <2>1, <2>2, UserWrite DEF DeleteEntitlement
<1>4. CASE ~api.finalizer
  <2>1. Write(None)
    BY <1>4 DEF DeleteEntitlement
  <2> QED
    BY <1>2, <1>4, <2>1, UserWrite DEF DeleteEntitlement, Unnamed
<1> QED
  BY <1>3, <1>4

\* Steps of the catalogue, of the clock and of the work queue.
LEMMA SurroundingsIInv ==
  ASSUME IInv,
         \/ DeleteAccount \/ Resync \/ RetryElapses
         \/ \E o \in Offers : ChangeStage(o) \/ PublishPlan(o)
         \/ \E c \in Customers, o \in Offers : EndTimePasses(c, o)
  PROVE  IInv'
<1>0. TypeOK
  BY DEF IInv
<1>1. CASE DeleteAccount
  <2>1. userSteps' \in 0 .. MaxUserSteps
    BY <1>0, <1>1, UserBound DEF DeleteAccount
  <2>2. TypeOK'
    BY <1>0, <1>1, <2>1 DEF DeleteAccount, TypeOK, worker
  <2> QED
    BY <1>1, <2>2, OtherStep DEF DeleteAccount, NothingOpens
<1>2. CASE Resync \/ RetryElapses
  <2>1. TypeOK'
    BY <1>0, <1>2 DEF Resync, RetryElapses, TypeOK, worker, catalogue, accounts
  <2> QED
    BY <1>2, <2>1, OtherStep DEF Resync, RetryElapses, NothingOpens, catalogue, accounts
<1>3. ASSUME NEW o \in Offers, ChangeStage(o) \/ PublishPlan(o)
      PROVE  IInv'
  <2>1. userSteps' \in 0 .. MaxUserSteps
    BY <1>0, <1>3, UserBound DEF ChangeStage, PublishPlan, TypeOK
  <2>2. /\ queued' \in BOOLEAN /\ stage' \in [Offers -> {"draft", "ga", "published", "gone"}]
        /\ \A q \in Offers : stage'[q] # "gone" => stage[q] # "gone"
    BY <1>0, <1>3 DEF ChangeStage, PublishPlan, TypeOK, LaunchedGA
  <2>3. UNCHANGED <<api, version, feed, cached, account, accountThere, spare, retry, worker,
                    assignments, unrecorded, faults>>
    BY <1>3 DEF ChangeStage, PublishPlan, accounts
  <2>4. TypeOK'
    BY <1>0, <2>1, <2>2, <2>3 DEF TypeOK, worker
  <2> QED
    BY <2>2, <2>3, <2>4, OtherStep DEF NothingOpens
<1>4. ASSUME NEW c \in Customers, NEW o \in Offers, EndTimePasses(c, o)
      PROVE  IInv'
  <2>1. /\ assignments' = [assignments EXCEPT ![c][o] = "ended"]
        /\ UNCHANGED <<api, version, feed, cached, account, accountThere, spare, stage, queued,
                       retry, worker, unrecorded, faults, userSteps>>
    BY <1>4 DEF EndTimePasses, catalogue, accounts
  <2>2. TypeOK'
    BY <1>0, <2>1 DEF TypeOK, worker
  <2>3. \A d \in Customers, q \in Offers : assignments'[d][q] = "open" => assignments[d][q] = "open"
    BY <1>0, <2>1 DEF TypeOK
  <2> QED
    BY <2>1, <2>2, <2>3, OtherStep DEF NothingOpens
<1> QED
  BY <1>1, <1>2, <1>3, <1>4

\* The account created again has no assignment, and no version names it.
LEMMA RecreateAccountIInv == IInv /\ RecreateAccount => IInv'
<1> SUFFICES ASSUME IInv, RecreateAccount PROVE IInv'
  OBVIOUS
<1>0. TypeOK /\ VersionsInOrder /\ AllBacked /\ Fresh /\ OnPath /\ Superseded /\ Recorded
      /\ StraysFirst /\ CancelFirst /\ OneOpenAssignment
  BY DEF IInv
<1>1. /\ account' \in spare /\ accountThere' = TRUE /\ spare' = spare \ {account'}
      /\ account' \in Customers
      /\ UNCHANGED <<api, version, feed, cached, stage, queued, retry, pc, be, customer, endedAt,
                     match, toCancel, assignments, unrecorded, faults>>
  BY <1>0 DEF RecreateAccount, worker, TypeOK
<1>2. TypeOK'
  <2>1. userSteps' \in 0 .. MaxUserSteps
    BY <1>0, UserBound DEF RecreateAccount
  <2>2. spare' \subseteq Customers \ {account'}
    BY <1>0, <1>1 DEF TypeOK
  <2> QED
    BY <1>0, <1>1, <2>1, <2>2 DEF TypeOK
<1>3. \A p \in Offers : assignments[account'][p] # "open"
  BY <1>0, <1>1 DEF Fresh
<1>4. ASSUME NEW v, Unnamed(v), Backed(v, api)
      PROVE  /\ v # None => v.lastCustomer # account' /\ v.lastCustomer \notin spare'
             /\ v # None /\ v.finalizer /\ ~v.deleting => api # None /\ api.finalizer
  BY <1>1, <1>4 DEF Unnamed, Backed
<1>5. AllBacked'
  BY <1>0, <1>1, <1>4 DEF AllBacked, Backed, Fresh
<1>6. Fresh'
  <2>1. api # None => api.lastCustomer \notin spare'
    BY <1>0, <1>1 DEF Fresh, Unnamed
  <2> QED
    BY <1>0, <1>1, <1>4, <2>1 DEF AllBacked, Fresh, Unnamed
<1>7. Superseded' /\ Recorded'
  <2>1. be # None => be.lastCustomer # account'
    BY <1>0, <1>4 DEF AllBacked, Fresh
  <2>2. pc # "idle" => be # None
    BY <1>0, NoneIsNoRecord DEF TypeOK
  <2> QED
    BY <1>1, <1>3, <2>1, <2>2 DEF Superseded, Recorded, EnsureStates
<1>8. CancelFirst'
  BY <1>1, <1>3 DEF CancelFirst
<1>9. VersionsInOrder' /\ OnPath' /\ StraysFirst' /\ OneOpenAssignment'
  BY <1>0, <1>1 DEF VersionsInOrder, OnPath, StraysFirst, OneOpenAssignment
<1> QED
  BY <1>2, <1>5, <1>6, <1>7, <1>8, <1>9 DEF IInv

LEMMA ObserveIInv == IInv /\ Observe => IInv'
<1> SUFFICES ASSUME IInv, Observe PROVE IInv'
  OBVIOUS
<1>0. TypeOK /\ VersionsInOrder /\ AllBacked /\ Fresh /\ OnPath /\ Superseded /\ Recorded
      /\ StraysFirst /\ CancelFirst /\ OneOpenAssignment
  BY DEF IInv
<1>1. /\ feed # <<>> /\ feed \in Seq(Entitlement \cup {None})
      /\ cached' = Head(feed) /\ feed' = Tail(feed) /\ queued' = TRUE
      /\ UNCHANGED <<api, version, account, accountThere, spare, stage, retry, pc, be, customer,
                     endedAt, match, toCancel, assignments, unrecorded, faults, userSteps>>
  BY <1>0 DEF TypeOK, Observe, catalogue, accounts, worker
<1>2. /\ cached' = feed[1] /\ cached' \in Entitlement \cup {None}
      /\ feed' \in Seq(Entitlement \cup {None})
      /\ Len(feed) \in Nat \ {0} /\ Len(feed') = Len(feed) - 1
      /\ \A i \in 1 .. Len(feed') : feed'[i] = feed[i + 1] /\ i + 1 \in 1 .. Len(feed)
  BY <1>1
<1>3. TypeOK'
  BY <1>0, <1>1, <1>2 DEF TypeOK
<1>4. VersionsInOrder'
  <2>0. \A i \in 1 .. Len(feed) : feed[i] # None =>
          /\ feed[i].rv <= version
          /\ feed[i].rv = version => feed[i] = api /\ i = Len(feed)
    BY <1>0 DEF VersionsInOrder
  <2>1. api' # None => api'.rv = version'
    BY <1>0, <1>1 DEF VersionsInOrder
  <2>2. cached' # None =>
          /\ cached'.rv <= version'
          /\ cached'.rv = version' => cached' = api' /\ feed' = <<>>
    <3>1. Len(feed) = 1 => feed' = <<>>
      BY <1>1, <1>2
    <3>2. 1 \in 1 .. Len(feed)
      BY <1>2
    <3>3. feed[1] # None =>
            /\ feed[1].rv <= version
            /\ feed[1].rv = version => feed[1] = api /\ 1 = Len(feed)
      BY <2>0, <3>2
    <3> QED
      BY <1>1, <1>2, <3>1, <3>3
  <2>3. \A i \in 1 .. Len(feed') : feed'[i] # None =>
          /\ feed'[i].rv <= version'
          /\ feed'[i].rv = version' => feed'[i] = api' /\ i = Len(feed')
    <3> TAKE i \in 1 .. Len(feed')
    <3>1. feed'[i] = feed[i + 1] /\ i + 1 \in 1 .. Len(feed)
      BY <1>2
    <3>2. feed[i + 1] # None =>
            /\ feed[i + 1].rv <= version
            /\ feed[i + 1].rv = version => feed[i + 1] = api /\ i + 1 = Len(feed)
      BY <2>0, <3>1
    <3>3. i + 1 = Len(feed) => i = Len(feed')
      BY <1>2
    <3> QED
      BY <1>1, <3>1, <3>2, <3>3
  <2>4. be' # None => be'.rv <= version' /\ be'.rv # version'
    BY <1>0, <1>1 DEF VersionsInOrder
  <2> QED
    BY <2>1, <2>2, <2>3, <2>4 DEF VersionsInOrder
<1>5. AllBacked'
  <2>1. \A i \in 1 .. Len(feed) : Backed(feed[i], api)
    BY <1>0 DEF AllBacked
  <2>2. Backed(cached', api)
    BY <1>2, <2>1
  <2>3. \A i \in 1 .. Len(feed') : Backed(feed'[i], api)
    BY <1>2, <2>1
  <2> QED
    BY <1>0, <1>1, <2>2, <2>3 DEF AllBacked, Backed
<1>6. Fresh'
  <2>1. \A i \in 1 .. Len(feed) : Unnamed(feed[i])
    BY <1>0 DEF Fresh
  <2>2. Unnamed(cached') /\ \A i \in 1 .. Len(feed') : Unnamed(feed'[i])
    BY <1>2, <2>1
  <2> QED
    BY <1>0, <1>1, <2>2 DEF Fresh, Unnamed
<1>7. OnPath' /\ Superseded' /\ Recorded' /\ StraysFirst' /\ CancelFirst' /\ OneOpenAssignment'
  BY <1>0, <1>1 DEF OnPath, Superseded, Recorded, StraysFirst, CancelFirst, Bound, OneOpenAssignment
<1> QED
  BY <1>3, <1>4, <1>5, <1>6, <1>7 DEF IInv

LEMMA RestartIInv == IInv /\ Restart => IInv'
<1> SUFFICES ASSUME IInv, Restart PROVE IInv'
  OBVIOUS
<1>0. TypeOK /\ VersionsInOrder /\ Fresh /\ Recorded /\ OneOpenAssignment
  BY DEF IInv
<1>1. /\ cached' = api /\ feed' = <<>> /\ queued' \in BOOLEAN /\ pc' = "idle" /\ be' = None
      /\ customer' = None /\ endedAt' = {} /\ match' = FALSE /\ toCancel' = {} /\ retry' = FALSE
      /\ UNCHANGED <<api, version, account, accountThere, spare, stage, assignments, unrecorded,
                     userSteps>>
  BY DEF Restart, catalogue, accounts
<1>2. faults' \in 0 .. MaxFaults
  BY <1>0, FaultBound DEF Restart
<1>3. feed' \in Seq(Entitlement \cup {None}) /\ Len(feed') = 0
  BY <1>1
<1>4. TypeOK'
  BY <1>0, <1>1, <1>2, <1>3 DEF TypeOK, WorkerStates
<1>5. VersionsInOrder'
  BY <1>0, <1>1, <1>3 DEF VersionsInOrder, TypeOK
<1>6. AllBacked'
  BY <1>1, <1>3 DEF AllBacked, Backed
<1>7. OnPath' /\ Superseded' /\ StraysFirst' /\ CancelFirst'
  BY <1>1 DEF OnPath, Superseded, StraysFirst, CancelFirst, EnsureStates
<1>8. Recorded' /\ OneOpenAssignment'
  BY <1>0, <1>1 DEF Recorded, OneOpenAssignment
<1>9. Fresh'
  BY <1>0, <1>1, <1>3, NoneAssumption DEF Fresh, Unnamed, TypeOK
<1> QED
  BY <1>4, <1>5, <1>6, <1>7, <1>8, <1>9 DEF IInv

-----------------------------------------------------------------------------
(* The worker.                                                             *)

LEMMA ReconcileIInv == IInv /\ Reconcile => IInv'
<1> SUFFICES ASSUME IInv, Reconcile PROVE IInv'
  OBVIOUS
<1>0. TypeOK /\ VersionsInOrder /\ AllBacked /\ Fresh /\ Recorded /\ OneOpenAssignment
  BY DEF IInv
<1>1. /\ pc' = ReconcilePath(cached) /\ queued' = FALSE
      /\ be' = IF pc' = "idle" THEN None ELSE cached
      /\ customer' = IF pc' \in {"getPlan", "cancelAll"} THEN resolvedCustomer(cached) ELSE None
      /\ toCancel' = IF pc' = "cancelAll" THEN resolveIDs(cached) ELSE {}
      /\ retry' = (retry \/ (pc' = "idle" /\ cached # None /\ ~cached.deleting))
      /\ UNCHANGED <<api, version, feed, cached, account, accountThere, spare, stage, endedAt,
                     match, assignments, unrecorded, faults, userSteps>>
  BY DEF Reconcile, catalogue, accounts
<1>2. /\ pc' \in {"idle", "addFinalizer", "getPlan", "cancelAll", "release"}
      /\ pc' # "idle" => cached \in Entitlement
      /\ pc' = "getPlan" => cached.finalizer /\ ~cached.deleting /\ accountThere
      /\ pc' \in {"cancelAll", "release"} => cached.deleting
      /\ pc' = "release" => resolvedCustomer(cached) = None \/ resolveIDs(cached) = {}
      /\ pc' = "cancelAll" => resolvedCustomer(cached) # None
  BY <1>0, <1>1 DEF ReconcilePath, TypeOK
<1>3. ASSUME NEW e \in Entitlement
      PROVE  /\ resolveIDs(e) \subseteq Offers
             /\ resolvedCustomer(e) \in Customers \cup {None}
             /\ accountThere => resolvedCustomer(e) = account
             /\ ~accountThere => resolvedCustomer(e) = e.lastCustomer
             /\ e.last # None => e.last \in resolveIDs(e)
             /\ accountThere /\ stage[e.offer] # "gone" => e.offer \in resolveIDs(e)
  BY <1>0, NoneAssumption DEF resolveIDs, resolvedCustomer, Entitlement, TypeOK
<1>4. customer' \in Customers \cup {None}
      /\ (pc' \in {"getPlan", "cancelAll"} => customer' # None)
      /\ (pc' = "getPlan" => customer' = account)
  BY <1>0, <1>1, <1>2, <1>3, NoneAssumption DEF TypeOK
<1>5. TypeOK'
  <2>1. toCancel' \subseteq Offers
    BY <1>1, <1>2, <1>3
  <2>2. be' \in Entitlement \cup {None} /\ (pc' # "idle" => be' \in Entitlement)
    BY <1>1, <1>2
  <2>3. retry' \in BOOLEAN /\ pc' \in WorkerStates
    BY <1>1, <1>2 DEF WorkerStates
  <2> QED
    BY <1>0, <1>1, <1>2, <1>4, <2>1, <2>2, <2>3 DEF TypeOK
<1>6. VersionsInOrder'
  BY <1>0, <1>1 DEF VersionsInOrder
<1>7. AllBacked'
  BY <1>0, <1>1 DEF AllBacked, Backed
<1>8. Fresh'
  <2>1. customer' \notin spare
    BY <1>0, <1>1, <1>2, <1>3, NoneAssumption, NoneIsNoRecord DEF Fresh, Unnamed, TypeOK
  <2> QED
    BY <1>0, <1>1, <2>1 DEF Fresh, Unnamed
<1>9. OnPath' /\ StraysFirst'
  BY <1>1, <1>2 DEF OnPath, EnsureStates, StraysFirst
<1>10. Superseded'
  BY <1>1, <1>2, <1>4 DEF Superseded, EnsureStates
<1>11. CancelFirst'
  <2> SUFFICES ASSUME pc' \in {"cancelAll", "release"}, NEW p \in Offers, Bound(p)'
               PROVE  pc' = "cancelAll" /\ customer' = account' /\ p \in toCancel'
    BY DEF CancelFirst
  <2>1. be' = cached /\ cached \in Entitlement /\ account \in Customers
    BY <1>0, <1>1, <1>2 DEF TypeOK
  <2>2. \/ p = cached.last /\ cached.lastCustomer = account
        \/ p = cached.offer /\ accountThere /\ stage[p] # "gone"
    BY <1>1, <2>1 DEF Bound
  <2>3. resolvedCustomer(cached) = account /\ p \in resolveIDs(cached)
    BY <1>3, <2>1, <2>2, NoneAssumption
  <2>4. account # None
    BY <2>1, NoneAssumption
  <2> QED
    BY <1>1, <1>2, <2>3, <2>4
<1>12. Recorded' /\ OneOpenAssignment'
  BY <1>0, <1>1 DEF Recorded, OneOpenAssignment
<1> QED
  BY <1>5, <1>6, <1>7, <1>8, <1>9, <1>10, <1>11, <1>12 DEF IInv

\* An update by the worker, which has the newest version and is done with it.
LEMMA UpdateStep ==
  ASSUME IInv, be \in Entitlement, Current, NEW e \in Entitlement \cup {None}, Write(e),
         Return(FALSE), UNCHANGED <<environment, assignments, faults>>,
         unrecorded' \subseteq Customers \X Offers, Backed(be, api'), Recorded', Unnamed(e)
  PROVE  IInv'
<1>0. TypeOK /\ VersionsInOrder /\ Fresh /\ OneOpenAssignment
  BY DEF IInv
<1>1. /\ pc' = "idle" /\ be' = None /\ customer' = None
      /\ endedAt' = {} /\ match' = FALSE /\ toCancel' = {} /\ retry' = (retry \/ FALSE)
  BY DEF Return
<1>2. UNCHANGED <<cached, account, accountThere, spare, stage, queued, userSteps>>
  BY DEF environment, catalogue, accounts
<1>3. VersionsInOrder' /\ AllBacked' /\ Fresh'
  BY <1>0, <1>1, <1>2, WriteKeepsOrder, WriteOfCurrent, WriteFresh
<1>4. TypeOK'
  <2>1. api' \in Entitlement \cup {None} /\ version' \in Nat
        /\ feed' \in Seq(Entitlement \cup {None})
    BY <1>0, WriteFields, FeedAfterWrite
  <2>2. retry' \in BOOLEAN /\ faults' \in 0 .. MaxFaults
    BY <1>0, <1>1 DEF TypeOK
  <2> QED
    BY <1>0, <1>1, <1>2, <2>1, <2>2 DEF TypeOK, WorkerStates
<1>5. OnPath' /\ Superseded' /\ StraysFirst' /\ CancelFirst'
  BY <1>1 DEF OnPath, Superseded, StraysFirst, CancelFirst, EnsureStates
<1>6. OneOpenAssignment'
  BY <1>0 DEF OneOpenAssignment
<1> QED
  BY <1>3, <1>4, <1>5, <1>6 DEF IInv

\* The newest version is what the API server has.
LEMMA CurrentIsApi ==
  ASSUME VersionsInOrder, be \in Entitlement, Current
  PROVE  be = api
BY NoneIsNoRecord DEF VersionsInOrder, Current

LEMMA AddFinalizerIInv == IInv /\ AddFinalizer => IInv'
<1> SUFFICES ASSUME IInv, AddFinalizer PROVE IInv'
  OBVIOUS
<1>0. TypeOK /\ VersionsInOrder /\ Fresh /\ Recorded /\ be \in Entitlement
      /\ account' = account /\ UNCHANGED <<environment, assignments, unrecorded>>
  BY DEF IInv, TypeOK, AddFinalizer, environment, catalogue, accounts
<1>1. CASE Current /\ Write([be EXCEPT !.finalizer = TRUE]) /\ Return(FALSE) /\ UNCHANGED faults
  <2> DEFINE e == [be EXCEPT !.finalizer = TRUE]
  <2>1. e \in Entitlement /\ e.last = be.last /\ e.lastCustomer = be.lastCustomer /\ e.finalizer
    BY <1>0 DEF Entitlement
  <2>2. e # None /\ Write(e) /\ Unnamed(e)
    BY <1>0, <1>1, <2>1, NoneIsNoRecord DEF Fresh, Unnamed
  <2> HIDE DEF e
  <2>3. api' # None /\ api'.finalizer /\ api'.last = be.last /\ api'.lastCustomer = be.lastCustomer
    BY <1>0, <2>1, <2>2, WriteFields
  <2>4. be = api
    BY <1>0, <1>1, CurrentIsApi
  <2>5. Backed(be, api')
    BY <2>3 DEF Backed
  <2>6. Recorded'
    BY <1>0, <2>3, <2>4 DEF Recorded
  <2> QED
    BY <1>0, <1>1, <2>1, <2>2, <2>5, <2>6, UpdateStep DEF TypeOK
<1>2. CASE NoWrite /\ Return(TRUE) /\ (SpendFault \/ UNCHANGED faults)
  <2>1. faults' \in 0 .. MaxFaults
    BY <1>0, <1>2, FaultBound DEF TypeOK
  <2> QED
    BY <1>0, <1>2, <2>1, IdleReturn
<1> QED
  BY <1>1, <1>2 DEF AddFinalizer

\* What a step of the ensure path that has the same customer may rely on.
LEMMA EnsureFacts ==
  ASSUME IInv, pc \in EnsureStates
  PROVE  /\ TypeOK /\ Fresh /\ OnPath /\ Superseded /\ Recorded /\ OneOpenAssignment
         /\ be \in Entitlement /\ customer \in Customers /\ customer # None
         /\ UNCHANGED environment => account' = account
BY NoneAssumption DEF IInv, TypeOK, EnsureStates, environment, catalogue, accounts

LEMMA GetProductPlanIInv == IInv /\ GetProductPlan => IInv'
<1> SUFFICES ASSUME IInv, GetProductPlan PROVE IInv'
  OBVIOUS
<1>0. pc = "getPlan" /\ NoWrite /\ api' = api /\ UNCHANGED <<environment, assignments, unrecorded>>
      /\ pc \in EnsureStates
  BY DEF GetProductPlan, NoWrite, EnsureStates
<1>1. TypeOK /\ Fresh /\ OnPath /\ Superseded /\ Recorded /\ OneOpenAssignment
      /\ be \in Entitlement /\ customer \in Customers /\ customer # None /\ account' = account
  BY <1>0, EnsureFacts
<1>2. CASE pc' \in {"ensureList", "cancelPrev"} /\ endedAt' \subseteq Offers
           /\ (pc' = "cancelPrev" => be.last # None)
           /\ UNCHANGED <<be, customer, match, toCancel, retry, faults>>
  <2>0. NothingOpens
    BY <1>0 DEF NothingOpens
  <2>1. Recorded' /\ OneOpenAssignment' /\ SpareUntouched
    BY <1>0, <1>1, <2>0, NothingOpensKeeps
  <2>2. OnPath' /\ Superseded' /\ StraysFirst' /\ CancelFirst'
    BY <1>0, <1>1, <1>2, <2>0, SupersededKept DEF OnPath, EnsureStates, StraysFirst, CancelFirst
  <2>3. /\ pc' \in WorkerStates /\ match' \in BOOLEAN /\ toCancel' \subseteq Offers
        /\ faults' \in 0 .. MaxFaults /\ unrecorded' \subseteq Customers \X Offers
        /\ assignments' \in AssignmentsType
    BY <1>0, <1>1, <1>2 DEF TypeOK, WorkerStates, AssignmentsType
  <2> QED
    BY <1>0, <1>1, <1>2, <2>1, <2>2, <2>3, ProceedStep
<1>3. CASE Return(TRUE) /\ (SpendFault \/ UNCHANGED faults)
  <2>1. faults' \in 0 .. MaxFaults
    BY <1>1, <1>3, FaultBound DEF TypeOK
  <2> QED
    BY <1>0, <1>3, <2>1, IdleReturn
<1>4. /\ EnterEnsure => pc' = "ensureList" /\ endedAt' \subseteq Offers
      /\ UNCHANGED endedAt => endedAt' \subseteq Offers
  BY <1>1 DEF EnterEnsure, TypeOK
<1> QED
  BY <1>2, <1>3, <1>4 DEF GetProductPlan

LEMMA CancelPreviousIInv == IInv /\ CancelPrevious => IInv'
<1> SUFFICES ASSUME IInv, CancelPrevious PROVE IInv'
  OBVIOUS
<1>0. pc = "cancelPrev" /\ NoWrite /\ api' = api /\ EnterEnsure /\ pc \in EnsureStates
      /\ UNCHANGED <<environment, be, customer, match, toCancel, retry>>
  BY DEF CancelPrevious, NoWrite, EnsureStates
<1>1. TypeOK /\ Fresh /\ OnPath /\ Superseded /\ Recorded /\ OneOpenAssignment
      /\ be \in Entitlement /\ customer \in Customers /\ customer # None /\ account' = account
  BY <1>0, EnsureFacts
<1>2. MayCancel(be.last) /\ (SpendFault \/ UNCHANGED faults)
  BY DEF CancelPrevious, MayCancel
<1>3. faults' \in 0 .. MaxFaults
  BY <1>1, <1>2, FaultBound DEF TypeOK
<1>4. be.last \in Offers
  BY <1>0, <1>1 DEF OnPath, Entitlement
<1>5. NothingOpens /\ unrecorded' \subseteq Customers \X Offers /\ assignments' \in AssignmentsType
  BY <1>1, <1>2, <1>4, CancelFacts
<1>6. Recorded' /\ OneOpenAssignment' /\ SpareUntouched
  BY <1>0, <1>1, <1>5, NothingOpensKeeps
<1>7. /\ pc' = "ensureList" /\ endedAt' \subseteq Offers
      /\ match' \in BOOLEAN /\ toCancel' \subseteq Offers
  BY <1>0, <1>1 DEF EnterEnsure, TypeOK
<1>8. OnPath' /\ Superseded' /\ StraysFirst' /\ CancelFirst' /\ pc' \in WorkerStates
  BY <1>0, <1>1, <1>5, <1>7, SupersededKept
     DEF OnPath, EnsureStates, StraysFirst, CancelFirst, WorkerStates
<1> QED
  BY <1>0, <1>1, <1>3, <1>5, <1>6, <1>7, <1>8, ProceedStep

LEMMA EnsureListIInv == IInv /\ EnsureList => IInv'
<1> SUFFICES ASSUME IInv, EnsureList PROVE IInv'
  OBVIOUS
<1>0. pc = "ensureList" /\ NoWrite /\ api' = api /\ pc \in EnsureStates
      /\ UNCHANGED <<environment, assignments, unrecorded>>
  BY DEF EnsureList, NoWrite, EnsureStates
<1>1. TypeOK /\ Fresh /\ OnPath /\ Superseded /\ Recorded /\ OneOpenAssignment
      /\ be \in Entitlement /\ customer \in Customers /\ customer # None /\ account' = account
  BY <1>0, EnsureFacts
<1>2. CASE /\ toCancel' = {p \in Offers : Stray(p)} /\ match' = Active(be.offer)
           /\ pc' = "cancelStrays" /\ UNCHANGED <<be, customer, endedAt, retry, faults>>
  <2>0. NothingOpens
    BY <1>0 DEF NothingOpens
  <2>1. Recorded' /\ OneOpenAssignment' /\ SpareUntouched
    BY <1>0, <1>1, <2>0, NothingOpensKeeps
  <2>2. StraysFirst'
    BY <1>0, <1>2 DEF StraysFirst, Stray, Active
  <2>3. OnPath' /\ Superseded' /\ CancelFirst'
    BY <1>0, <1>1, <1>2, <2>0, SupersededKept DEF OnPath, EnsureStates, CancelFirst
  <2>4. match' \in BOOLEAN
    BY <1>2 DEF Active
  <2>5. /\ pc' \in WorkerStates /\ toCancel' \subseteq Offers /\ endedAt' \subseteq Offers
        /\ faults' \in 0 .. MaxFaults /\ unrecorded' \subseteq Customers \X Offers
        /\ assignments' \in AssignmentsType
    BY <1>0, <1>1, <1>2 DEF TypeOK, WorkerStates, AssignmentsType
  <2> QED
    BY <1>0, <1>1, <1>2, <2>1, <2>2, <2>3, <2>4, <2>5, ProceedStep
<1>3. CASE SpendFault /\ Return(TRUE)
  BY <1>0, <1>1, <1>3, FaultBound, IdleReturn
<1> QED
  BY <1>2, <1>3 DEF EnsureList

\* One cancel of several, in either path, that succeeds.
LEMMA CancelOne ==
  ASSUME IInv, NEW p \in toCancel, Cancelled(p), toCancel' = toCancel \ {p},
         pc \in {"cancelStrays", "cancelAll"}, NoWrite,
         UNCHANGED <<environment, pc, be, customer, endedAt, match, retry, faults>>
  PROVE  IInv'
<1>0. TypeOK /\ Fresh /\ OnPath /\ Superseded /\ Recorded /\ OneOpenAssignment /\ StraysFirst
      /\ CancelFirst /\ be \in Entitlement /\ p \in Offers /\ customer \in Customers /\ customer # None
      /\ account \in Customers
  BY NoneAssumption DEF IInv, TypeOK
<1>1. UNCHANGED <<account, accountThere, stage, api>>
  BY DEF environment, catalogue, accounts, NoWrite
<1>2. /\ NothingOpens /\ unrecorded' \subseteq Customers \X Offers
      /\ assignments'[customer][p] # "open" /\ assignments' \in AssignmentsType
  BY <1>0, CancelFacts DEF MayCancel
<1>3. Recorded' /\ OneOpenAssignment' /\ SpareUntouched
  BY <1>0, <1>1, <1>2, NothingOpensKeeps
<1>4. OnPath' /\ Superseded'
  BY <1>0, <1>1, <1>2, SupersededKept DEF OnPath
<1>5. StraysFirst'
  BY <1>0, <1>2 DEF StraysFirst, NothingOpens
<1>6. CancelFirst'
  <2>1. \A q \in Offers : Bound(q)' => Bound(q)
    BY <1>1 DEF Bound
  <2> QED
    BY <1>0, <1>1, <1>2, <2>1 DEF CancelFirst, NothingOpens
<1>7. /\ pc' \in WorkerStates /\ toCancel' \subseteq Offers /\ endedAt' \subseteq Offers
      /\ faults' \in 0 .. MaxFaults /\ match' \in BOOLEAN
  BY <1>0 DEF TypeOK
<1> QED
  BY <1>0, <1>2, <1>3, <1>4, <1>5, <1>6, <1>7, ProceedStep

\* All of them are cancelled, and the worker goes on.
LEMMA AllCancelled ==
  ASSUME IInv, toCancel = {}, NEW l \in WorkerStates, Goto(l), NoWrite,
         UNCHANGED <<environment, assignments, unrecorded, faults>>,
         \/ pc = "cancelStrays" /\ l \in {"annotate", "postPlan"}
         \/ pc = "cancelAll" /\ l = "release"
  PROVE  IInv'
<1>0. TypeOK /\ Fresh /\ OnPath /\ Superseded /\ Recorded /\ OneOpenAssignment /\ StraysFirst
      /\ CancelFirst /\ be \in Entitlement /\ customer # None
  BY DEF IInv, TypeOK
<1>1. /\ pc' = l /\ be' = be /\ customer' = customer /\ endedAt' = endedAt /\ match' = match
      /\ toCancel' = toCancel /\ retry' = retry /\ UNCHANGED <<account, accountThere, stage, api>>
      /\ NothingOpens
  BY DEF Goto, environment, catalogue, accounts, NoWrite, NothingOpens
<1>2. Recorded' /\ OneOpenAssignment' /\ SpareUntouched
  BY <1>0, <1>1, NothingOpensKeeps
<1>3. OnPath' /\ Superseded'
  BY <1>0, <1>1, SupersededKept DEF OnPath, EnsureStates
<1>4. StraysFirst' /\ CancelFirst'
  BY <1>0, <1>1 DEF StraysFirst, CancelFirst, Bound
<1>5. /\ pc' \in WorkerStates /\ toCancel' \subseteq Offers /\ endedAt' \subseteq Offers
      /\ faults' \in 0 .. MaxFaults /\ match' \in BOOLEAN /\ unrecorded' \subseteq Customers \X Offers
      /\ assignments' \in AssignmentsType
  BY <1>0, <1>1 DEF TypeOK, AssignmentsType
<1> QED
  BY <1>0, <1>1, <1>2, <1>3, <1>4, <1>5, ProceedStep

LEMMA CancelStraysIInv == IInv /\ CancelStrays => IInv'
<1> SUFFICES ASSUME IInv, CancelStrays PROVE IInv'
  OBVIOUS
<1>0. TypeOK /\ pc = "cancelStrays" /\ NoWrite /\ UNCHANGED environment /\ toCancel \subseteq Offers
      /\ customer \in Customers
  BY DEF IInv, TypeOK, CancelStrays
<1>1. CASE /\ toCancel = {} /\ Goto(IF match THEN "annotate" ELSE "postPlan")
           /\ UNCHANGED <<assignments, unrecorded, faults>>
  <2>1. (IF match THEN "annotate" ELSE "postPlan") \in {"annotate", "postPlan"}
    OBVIOUS
  <2> QED
    BY <1>0, <1>1, <2>1, AllCancelled DEF WorkerStates
<1>2. ASSUME NEW p \in toCancel, Cancelled(p), toCancel' = toCancel \ {p},
             UNCHANGED <<pc, be, customer, endedAt, match, retry, faults>>
      PROVE  IInv'
  BY <1>0, <1>2, CancelOne
<1>3. ASSUME NEW p \in toCancel, SpendFault, MayCancel(p), Return(TRUE)
      PROVE  IInv'
  BY <1>0, <1>3, FaultBound, FailedCancel
<1> QED
  BY <1>1, <1>2, <1>3 DEF CancelStrays

LEMMA CancelAllIInv == IInv /\ CancelAll => IInv'
<1> SUFFICES ASSUME IInv, CancelAll PROVE IInv'
  OBVIOUS
<1>0. TypeOK /\ pc = "cancelAll" /\ NoWrite /\ UNCHANGED environment /\ toCancel \subseteq Offers
      /\ customer \in Customers
  BY DEF IInv, TypeOK, CancelAll
<1>1. CASE toCancel = {} /\ Goto("release") /\ UNCHANGED <<assignments, unrecorded, faults>>
  BY <1>0, <1>1, AllCancelled DEF WorkerStates
<1>2. ASSUME NEW p \in toCancel, Cancelled(p), toCancel' = toCancel \ {p},
             UNCHANGED <<pc, be, customer, endedAt, match, retry, faults>>
      PROVE  IInv'
  BY <1>0, <1>2, CancelOne
<1>3. ASSUME NEW p \in toCancel, SpendFault, MayCancel(p), Return(TRUE)
      PROVE  IInv'
  BY <1>0, <1>3, FaultBound, FailedCancel
<1> QED
  BY <1>1, <1>2, <1>3 DEF CancelAll

\* The one step that opens an assignment, when the customer has no other open.
LEMMA AssignedFacts ==
  ASSUME IInv, pc = "postPlan", Assigned, api' = api, account' = account
  PROVE  /\ assignments' \in AssignmentsType
         /\ unrecorded' \subseteq Customers \X Offers
         /\ \A p \in Offers : assignments'[customer][p] = "open" => p = be.offer
         /\ customer # account => assignments'[account] = assignments[account]
         /\ Recorded' /\ OneOpenAssignment' /\ SpareUntouched
<1>0. TypeOK /\ Fresh /\ Recorded /\ OneOpenAssignment /\ StraysFirst /\ be.offer \in Offers
      /\ customer \in Customers /\ account \in Customers /\ spare \subseteq Customers
  BY DEF IInv, TypeOK, Entitlement
<1>1. /\ assignments' = [assignments EXCEPT ![customer][be.offer] = "open"]
      /\ unrecorded' = unrecorded \cup {<<customer, be.offer>>}
  BY DEF Assigned
<1>2. assignments' \in AssignmentsType /\ unrecorded' \subseteq Customers \X Offers
  BY <1>0, <1>1 DEF TypeOK, AssignmentsType
<1>3. /\ \A c \in Customers : c # customer => assignments'[c] = assignments[c]
      /\ \A p \in Offers : p # be.offer => assignments'[customer][p] = assignments[customer][p]
  BY <1>0, <1>1 DEF TypeOK
<1>4. \A p \in Offers : assignments'[customer][p] = "open" => p = be.offer
  BY <1>0, <1>3 DEF StraysFirst
<1>5. OneOpenAssignment'
  BY <1>0, <1>3, <1>4 DEF OneOpenAssignment
<1>6. Recorded'
  BY <1>0, <1>1, <1>3, <1>4 DEF Recorded
<1>7. SpareUntouched
  BY <1>0, <1>3 DEF SpareUntouched, Fresh
<1> QED
  BY <1>0, <1>2, <1>3, <1>4, <1>5, <1>6, <1>7

LEMMA PostPlanIInv == IInv /\ PostPlan => IInv'
<1> SUFFICES ASSUME IInv, PostPlan PROVE IInv'
  OBVIOUS
<1>0. pc = "postPlan" /\ NoWrite /\ api' = api /\ UNCHANGED environment /\ pc \in EnsureStates
  BY DEF PostPlan, NoWrite, EnsureStates
<1>1. TypeOK /\ OnPath /\ Superseded /\ be \in Entitlement /\ customer # None /\ account' = account
  BY <1>0, EnsureFacts
<1>2. CASE Assigned /\ Goto("annotate") /\ UNCHANGED faults
  <2>1. pc' = "annotate" /\ be' = be /\ customer' = customer /\ endedAt' = endedAt
        /\ match' = match /\ toCancel' = toCancel /\ retry' = retry
    BY <1>2 DEF Goto
  <2>2. OnPath' /\ Superseded' /\ CancelFirst'
    BY <1>0, <1>1, <1>2, <2>1, AssignedFacts DEF OnPath, EnsureStates, CancelFirst, Superseded
  <2>3. StraysFirst'
    BY <1>0, <1>1, <1>2, <2>1, AssignedFacts DEF StraysFirst
  <2>4. /\ pc' \in WorkerStates /\ toCancel' \subseteq Offers /\ endedAt' \subseteq Offers
        /\ faults' \in 0 .. MaxFaults /\ match' \in BOOLEAN
    BY <1>1, <1>2, <2>1 DEF TypeOK, WorkerStates
  <2> QED
    BY <1>0, <1>1, <1>2, <2>1, <2>2, <2>3, <2>4, AssignedFacts, ProceedStep
<1>3. CASE SpendFault /\ Return(TRUE) /\ Assigned
  BY <1>0, <1>1, <1>3, FaultBound, AssignedFacts, ReturnStep
<1>4. CASE SpendFault /\ Return(TRUE) /\ UNCHANGED <<assignments, unrecorded>>
  BY <1>0, <1>1, <1>4, FaultBound, IdleReturn
<1> QED
  BY <1>2, <1>3, <1>4 DEF PostPlan

\* The annotations name the customer's one open plan. When the account was
\* created again meanwhile they are those of the earlier customer, and the new
\* one has no plan yet.
LEMMA AnnotateIInv == IInv /\ Annotate => IInv'
<1> SUFFICES ASSUME IInv, Annotate PROVE IInv'
  OBVIOUS
<1>0. pc = "annotate" /\ UNCHANGED <<environment, assignments>> /\ pc \in EnsureStates
  BY DEF Annotate, EnsureStates
<1>1. TypeOK /\ Fresh /\ OnPath /\ Superseded /\ Recorded /\ OneOpenAssignment
      /\ be \in Entitlement /\ customer \in Customers /\ account' = account
  BY <1>0, EnsureFacts
<1>2. AllBacked /\ StraysFirst
  BY DEF IInv
<1>3. /\ be.finalizer /\ ~be.deleting /\ customer \notin spare
      /\ \A p \in Offers : assignments[account][p] = "open" => customer = account /\ p = be.offer
  BY <1>0, <1>1, <1>2 DEF OnPath, StraysFirst, Superseded, Fresh
<1>4. CASE /\ ~needAnnotate /\ NoWrite /\ unrecorded' = unrecorded \ {<<customer, be.offer>>}
           /\ Return(FALSE) /\ UNCHANGED faults
  <2>1. customer = account => api # None /\ api.finalizer /\ api.last = be.offer
                              /\ api.lastCustomer = account
    BY <1>1, <1>2, <1>3, <1>4, NoneIsNoRecord DEF AllBacked, Backed, needAnnotate
  <2>2. Recorded' /\ OneOpenAssignment'
    BY <1>0, <1>1, <1>3, <1>4, <2>1 DEF Recorded, OneOpenAssignment, NoWrite
  <2>3. unrecorded' \subseteq Customers \X Offers /\ faults' \in 0 .. MaxFaults
        /\ assignments' \in AssignmentsType /\ SpareUntouched
    BY <1>0, <1>1, <1>4 DEF TypeOK, AssignmentsType, SpareUntouched, Fresh
  <2> QED
    BY <1>0, <1>4, <2>2, <2>3, ReturnStep
<1>5. CASE /\ needAnnotate /\ Current
           /\ Write([be EXCEPT !.last = be.offer, !.lastCustomer = customer])
           /\ unrecorded' = unrecorded \ {<<customer, be.offer>>} /\ Return(FALSE) /\ UNCHANGED faults
  <2> DEFINE e == [be EXCEPT !.last = be.offer, !.lastCustomer = customer]
  <2>1. e \in Entitlement /\ e.last = be.offer /\ e.lastCustomer = customer /\ e.finalizer
    BY <1>1, <1>3 DEF Entitlement
  <2>2. e # None /\ Write(e) /\ Unnamed(e)
    BY <1>3, <1>5, <2>1, NoneIsNoRecord DEF Unnamed
  <2> HIDE DEF e
  <2>3. api' # None /\ api'.finalizer /\ api'.last = be.offer /\ api'.lastCustomer = customer
    BY <1>1, <2>1, <2>2, WriteFields
  <2>4. Backed(be, api')
    BY <1>0, <1>1, <1>5, <2>3 DEF Backed, needAnnotate, Superseded
  <2>5. Recorded'
    BY <1>0, <1>1, <1>3, <2>3 DEF Recorded
  <2>6. unrecorded' \subseteq Customers \X Offers
    BY <1>1, <1>5 DEF TypeOK
  <2> QED
    BY <1>0, <1>1, <1>5, <2>1, <2>2, <2>4, <2>5, <2>6, UpdateStep
<1>6. CASE NoWrite /\ Return(TRUE) /\ UNCHANGED unrecorded /\ (SpendFault \/ UNCHANGED faults)
  <2>1. faults' \in 0 .. MaxFaults
    BY <1>1, <1>6, FaultBound DEF TypeOK
  <2> QED
    BY <1>0, <1>6, <2>1, IdleReturn
<1> QED
  BY <1>4, <1>5, <1>6 DEF Annotate

\* What is still open of the newest customer when the finalizer is released:
\* nothing that was annotated, nor what account and offer lead to.
LEMMA Released ==
  ASSUME IInv, pc = "release", be = api, NEW p \in Offers, assignments[account][p] = "open"
  PROVE  <<account, p>> \in unrecorded /\ (~accountThere \/ stage[p] = "gone" \/ p # api.offer)
<1>1. Recorded /\ ~Bound(p)
  BY DEF IInv, CancelFirst
<1> QED
  BY <1>1 DEF Recorded, Bound

LEMMA RemoveFinalizerIInv == IInv /\ RemoveFinalizer => IInv'
<1> SUFFICES ASSUME IInv, RemoveFinalizer PROVE IInv'
  OBVIOUS
<1>0. TypeOK /\ VersionsInOrder /\ OnPath /\ be \in Entitlement /\ account' = account
      /\ pc = "release" /\ UNCHANGED <<environment, assignments, unrecorded>>
  BY DEF IInv, TypeOK, RemoveFinalizer, environment, catalogue, accounts
<1>1. CASE Current /\ Write(None) /\ Return(FALSE) /\ UNCHANGED faults
  <2>1. be = api
    BY <1>0, <1>1, CurrentIsApi
  <2>2. Backed(be, api') /\ Unnamed(None)
    BY <1>0 DEF Backed, OnPath, Unnamed
  <2>3. Recorded'
    BY <1>0, <2>1, Released DEF Recorded
  <2>4. unrecorded' \subseteq Customers \X Offers
    BY <1>0 DEF TypeOK
  <2> QED
    BY <1>0, <1>1, <2>2, <2>3, <2>4, UpdateStep
<1>2. CASE NoWrite /\ Return(TRUE) /\ (SpendFault \/ UNCHANGED faults)
  <2>1. faults' \in 0 .. MaxFaults
    BY <1>0, <1>2, FaultBound DEF TypeOK
  <2> QED
    BY <1>0, <1>2, <2>1, IdleReturn
<1> QED
  BY <1>1, <1>2 DEF RemoveFinalizer

-----------------------------------------------------------------------------
(* The theorems.                                                           *)

LEMMA NextIInv == IInv /\ [Next]_vars => IInv'
<1> SUFFICES ASSUME IInv, [Next]_vars PROVE IInv'
  OBVIOUS
<1>1. CASE UNCHANGED vars
  <2>1. UNCHANGED <<api, version, feed, cached, account, accountThere, spare, stage, worker,
                    assignments, unrecorded>>
    BY <1>1 DEF vars, worker
  <2>2. TypeOK'
    BY <1>1 DEF IInv, TypeOK, vars
  <2> QED
    BY <2>1, <2>2, OtherStep DEF NothingOpens
<1>2. CASE CreateEntitlement \/ ChangeOffer \/ DeleteEntitlement \/ RecreateAccount
  BY <1>2, CreateEntitlementIInv, ChangeOfferIInv, DeleteEntitlementIInv, RecreateAccountIInv
<1>3. CASE \/ DeleteAccount \/ Resync \/ RetryElapses
           \/ \E o \in Offers : ChangeStage(o) \/ PublishPlan(o)
           \/ \E c \in Customers, o \in Offers : EndTimePasses(c, o)
  BY <1>3, SurroundingsIInv
<1>4. CASE Observe \/ Restart
  BY <1>4, ObserveIInv, RestartIInv
<1>5. CASE Work
  BY <1>5, ReconcileIInv, AddFinalizerIInv, GetProductPlanIInv, CancelPreviousIInv, EnsureListIInv,
     CancelStraysIInv, PostPlanIInv, AnnotateIInv, CancelAllIInv, RemoveFinalizerIInv DEF Work
<1> QED
  BY <1>1, <1>2, <1>3, <1>4, <1>5 DEF Next

\* The invariant is inductive.
THEOREM Invariant == Spec => []IInv
<1>1. Init => IInv
  BY InitIInv
<1>2. IInv /\ [Next]_vars => IInv'
  BY NextIInv
<1> QED
  BY <1>1, <1>2, PTL DEF Spec

\* Every variable keeps its type; in particular a reconcile that goes on has a
\* version of the entitlement to work from, and a customer when it calls
\* Amberflo.
THEOREM TypeCorrect == Spec => []TypeOK
<1>1. IInv => TypeOK
  BY DEF IInv
<1> QED
  BY <1>1, Invariant, PTL

\* EnsureCustomerPlan cancels before it assigns: at no moment, with any number
\* of offers, accounts, failed calls and crashes, does a customer have two
\* assignments without an end.
THEOREM OneOpen == Spec => []OneOpenAssignment
<1>1. IInv => OneOpenAssignment
  BY DEF IInv
<1> QED
  BY <1>1, Invariant, PTL

\* The entitlement goes only through the release of its finalizer, and by then
\* the annotated plan and the one that account and offer lead to are cancelled
\* for the customer of the newest account.
LEMMA GoneMeansReleased ==
  ASSUME IInv, [Next]_vars, api # None, api.finalizer, api' = None
  PROVE  pc = "release" /\ be = api /\ UNCHANGED <<account, assignments>>
<1>0. TypeOK /\ VersionsInOrder
  BY DEF IInv
<1>1. \A e \in Entitlement : ~Write(e)
  BY <1>0, WriteFields, NoneIsNoRecord
<1>2. ~NoWrite /\ ~UNCHANGED api
  BY DEF NoWrite
<1>3. ~CreateEntitlement /\ ~ChangeOffer /\ ~DeleteEntitlement
  <2>1. api \in Entitlement
    BY <1>0 DEF TypeOK
  <2>2. \A o \in Offers : [api EXCEPT !.offer = o] \in Entitlement
    BY <2>1 DEF Entitlement
  <2>3. [api EXCEPT !.deleting = TRUE] \in Entitlement
    BY <2>1 DEF Entitlement
  <2>4. ~CreateEntitlement
    BY DEF CreateEntitlement
  <2>5. ~ChangeOffer
    BY <1>1, <2>2 DEF ChangeOffer
  <2>6. ~DeleteEntitlement
    BY <1>1, <2>3 DEF DeleteEntitlement
  <2> QED
    BY <2>4, <2>5, <2>6
<1>4. ~DeleteAccount /\ ~RecreateAccount /\ ~Observe /\ ~Resync /\ ~RetryElapses /\ ~Restart
  BY <1>2 DEF DeleteAccount, RecreateAccount, Observe, Resync, RetryElapses, Restart
<1>5. \A c \in Customers, o \in Offers : ~ChangeStage(o) /\ ~PublishPlan(o) /\ ~EndTimePasses(c, o)
  BY <1>2 DEF ChangeStage, PublishPlan, EndTimePasses
<1>6. \A o \in Offers : ~ChangeStage(o) /\ ~PublishPlan(o)
  BY <1>2 DEF ChangeStage, PublishPlan
<1>7. ~Reconcile /\ ~GetProductPlan /\ ~CancelPrevious /\ ~EnsureList /\ ~CancelStrays /\ ~PostPlan
      /\ ~CancelAll
  BY <1>2 DEF Reconcile, GetProductPlan, CancelPrevious, EnsureList, CancelStrays, PostPlan, CancelAll
<1>8. ~AddFinalizer
  <2>1. ASSUME AddFinalizer PROVE FALSE
    <3>1. be \in Entitlement /\ [be EXCEPT !.finalizer = TRUE] \in Entitlement
      BY <1>0, <2>1 DEF AddFinalizer, TypeOK, Entitlement
    <3> QED
      BY <1>1, <1>2, <2>1, <3>1 DEF AddFinalizer
  <2> QED
    BY <2>1
<1>9. ~Annotate
  <2>1. ASSUME Annotate PROVE FALSE
    <3>1. be \in Entitlement /\ customer \in Customers
      BY <1>0, <2>1 DEF Annotate, TypeOK
    <3>2. [be EXCEPT !.last = be.offer, !.lastCustomer = customer] \in Entitlement
      BY <3>1 DEF Entitlement
    <3> QED
      BY <1>1, <1>2, <2>1, <3>2 DEF Annotate
  <2> QED
    BY <2>1
<1>10. RemoveFinalizer
  BY <1>2, <1>3, <1>4, <1>5, <1>6, <1>7, <1>8, <1>9 DEF Next, Work, vars
<1>11. pc = "release" /\ Current /\ be \in Entitlement /\ UNCHANGED <<account, assignments>>
  BY <1>0, <1>2, <1>10 DEF RemoveFinalizer, TypeOK, environment, catalogue, accounts
<1> QED
  BY <1>0, <1>11, CurrentIsApi

\* When an entitlement with the finalizer goes, no assignment is left open but
\* those of customers whose account was created again, and one whose annotation
\* was lost and that account and offer no longer lead to: for any number of
\* accounts, offers, stale versions, failed calls and crashes.
THEOREM NoOrphan == Spec => NoOrphanAssignment
<1>1. IInv /\ [Next]_vars =>
        [api # None /\ api.finalizer /\ api' = None =>
           \A c \in Customers, p \in Offers :
             assignments'[c][p] = "open" =>
               \/ c # account
               \/ /\ <<c, p>> \in unrecorded
                  /\ ~accountThere \/ stage[p] = "gone" \/ p # api.offer]_vars
  <2> SUFFICES ASSUME IInv, [Next]_vars, api # None, api.finalizer, api' = None,
                      NEW p \in Offers, assignments'[account][p] = "open"
               PROVE  <<account, p>> \in unrecorded
                      /\ (~accountThere \/ stage[p] = "gone" \/ p # api.offer)
    OBVIOUS
  <2>1. pc = "release" /\ be = api /\ UNCHANGED <<account, assignments>>
    BY GoneMeansReleased
  <2> QED
    BY <2>1, Released
<1> QED
  BY <1>1, Invariant, PTL DEF Spec, NoOrphanAssignment
=============================================================================
