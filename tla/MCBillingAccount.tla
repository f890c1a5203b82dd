-------------------------- MODULE MCBillingAccount ---------------------------
(***************************************************************************)
(* An instance of BillingAccountController for TLC: days of March on which *)
(* AddDate stays in the month, so that a switch may wait for a period      *)
(* start, and a day on which it does not.                                  *)
(***************************************************************************)
EXTENDS BillingAccountController

LateMarch == {<<2025, 3, 28>>, <<2025, 3, 30>>}
==============================================================================
