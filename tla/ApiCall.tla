------------------------------- MODULE ApiCall -------------------------------
(***************************************************************************)
(* What one call of the Amberflo client means to its caller, with no       *)
(* attempts, timers or rate limit. The other modules take a call as one    *)
(* step that succeeds, or fails and may have been applied; this is the     *)
(* contract that step relies on.                                           *)
(***************************************************************************)
EXTENDS Naturals

CONSTANTS
  Callers,
  MaxApplied    \* how often one call may be applied at Amberflo

Results == {"ok", "permanent", "transient", "cancelled"}

VARIABLES
  phase,        \* "running", or how the caller's last call ended
  applied,      \* how often Amberflo has applied the caller's call
  cancelled     \* the caller's context is cancelled

vars == <<phase, applied, cancelled>>

Init ==
  /\ phase = [c \in Callers |-> "ok"]
  /\ applied = [c \in Callers |-> 0]
  /\ cancelled = [c \in Callers |-> FALSE]

Begin(c) ==
  /\ phase[c] # "running"
  /\ phase' = [phase EXCEPT ![c] = "running"]
  /\ applied' = [applied EXCEPT ![c] = 0]
  /\ cancelled' = [cancelled EXCEPT ![c] = FALSE]

Cancel(c) ==
  /\ phase[c] = "running"
  /\ cancelled' = [cancelled EXCEPT ![c] = TRUE]
  /\ UNCHANGED <<phase, applied>>

\* Amberflo applies the call of a caller that is still waiting, once more or
\* not, and the caller may get its result: "ok" only for an applied call,
\* "cancelled" only if it gave up. Every other result says nothing about
\* whether the call was applied, and once it is there nothing is applied.
Progress(c) ==
  /\ phase[c] = "running"
  /\ \E n \in {0, 1}, r \in Results \cup {"running"} :
       /\ applied[c] + n <= MaxApplied
       /\ r = "ok" => applied[c] + n >= 1
       /\ r = "cancelled" => cancelled[c]
       /\ applied' = [applied EXCEPT ![c] = @ + n]
       /\ phase' = [phase EXCEPT ![c] = r]
  /\ UNCHANGED cancelled

Next == \E c \in Callers : Begin(c) \/ Cancel(c) \/ Progress(c)

Spec == Init /\ [][Next]_vars
==============================================================================
