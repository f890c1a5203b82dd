--------------------------- MODULE MCBillingPeriod ---------------------------
(***************************************************************************)
(* The calendar, day by day from New Year 2024 to the end of 2025, for TLC *)
(* to evaluate the period start of the payment switch on.                  *)
(***************************************************************************)
EXTENDS BillingPeriod

VARIABLE today

Tomorrow(t) == Normalised(t[1], t[2], t[3] + 1)

Init == today = <<2024, 1, 1>>
Next == today' = Tomorrow(today) /\ today'[1] <= 2025
Spec == Init /\ [][Next]_today

\* "If today's date is still before this month's invoice day, the current period
\* started on the previous month's invoice day" (stripe_customer.go:277-279).
PeriodStartAsDocumented == \A day \in 0 .. 31 : AsDocumented(today, day)
==============================================================================
