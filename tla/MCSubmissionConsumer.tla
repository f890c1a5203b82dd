------------------------ MODULE MCSubmissionConsumer ------------------------
(***************************************************************************)
(* Instances of SubmissionConsumer for TLC. Every message refers to one    *)
(* account and one meter; the runs differ in what the messages carry.      *)
(***************************************************************************)
EXTENDS SubmissionConsumer, TLC

CONSTANTS m1, m2, m3, m4, good, poison, bad, t1, acct, meter, p1, p2, uid1, uid2

\* m1 is a good event, Amberflo rejects m2's record, m3 and m4 are the
\* messages that cannot be converted.
Carried == (m1 :> good) @@ (m2 :> poison) @@ (m3 :> bad) @@ (m4 :> bad)
CarriedIds == [m \in Messages |-> Carried[m]]

OneTime == [m \in Messages |-> t1]
OneAccount == [m \in Messages |-> acct]
OneMeter == [m \in Messages |-> meter]

\* Pods and account UIDs are interchangeable.
PodsAndUids == Permutations({p1, p2}) \cup Permutations({uid1, uid2})
=============================================================================
