----------------------------- MODULE UsageLedger -----------------------------
(***************************************************************************)
(* What the usage submission consumer promises, with no pods, batches,     *)
(* retries or redeliveries: an event is charged at most once, a charge is  *)
(* never amended or withdrawn, and a message is settled only when its      *)
(* event has been charged or can never be.                                 *)
(***************************************************************************)
CONSTANTS
  Messages, Events,
  EventOf,      \* the event each message carries
  Charges,      \* what an event may be charged to
  Unbillable    \* messages that Amberflo could never be asked to charge


VARIABLES
  charged,      \* the charges of each event
  refused,      \* events Amberflo has refused to charge
  settled       \* messages that will not be delivered again

vars == <<charged, refused, settled>>

Init ==
  /\ charged = [e \in Events |-> {}]
  /\ refused = {}
  /\ settled = {}

\* Events that have no charge get one; the others keep theirs.
Bill ==
  /\ charged' \in [Events -> SUBSET Charges]
  /\ \A e \in Events :
       \/ charged'[e] = charged[e]
       \/ charged[e] = {} /\ \E c \in Charges : charged'[e] = {c}
  /\ UNCHANGED <<refused, settled>>

Refuse(e) ==
  /\ refused' = refused \cup {e}
  /\ UNCHANGED <<charged, settled>>

Settle(m) ==
  /\ m \in Unbillable \/ EventOf[m] \in refused \/ charged[EventOf[m]] # {}
  /\ settled' = settled \cup {m}
  /\ UNCHANGED <<charged, refused>>

Next ==
  \/ Bill
  \/ \E e \in Events : Refuse(e)
  \/ \E m \in Messages : Settle(m)

Spec == Init /\ [][Next]_vars
==============================================================================
