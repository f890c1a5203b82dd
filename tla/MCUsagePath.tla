---------------------------- MODULE MCUsagePath -----------------------------
(***************************************************************************)
(* An instance of UsagePath for TLC: one account and one meter that come,  *)
(* change and go, and three messages that refer to them.                   *)
(***************************************************************************)
EXTENDS UsagePath, TLC

CONSTANTS m1, m2, m3, good, poison, bad, t1, acme, cpu, cpuName, cpuApi

\* m1 is a good event, Amberflo rejects m2's record, the payload of m3 cannot
\* be converted.
Carried == (m1 :> good) @@ (m2 :> poison) @@ (m3 :> bad)
OneTime == [m \in Messages |-> t1]
OneAccount == [m \in Messages |-> acme]
OneMeter == [m \in Messages |-> cpuName]

OneKey == {<<"default", acme>>}
LastPart == [k \in AccountKeys |-> k[2]]
OwnName == cpu :> {cpuName}
OwnApiName == cpu :> cpuApi
=============================================================================
