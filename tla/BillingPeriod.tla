---------------------------- MODULE BillingPeriod ----------------------------
(***************************************************************************)
(* The calendar arithmetic behind the time of a Stripe payment switch      *)
(* (internal/controller/stripe_customer.go). A date is <<year, month, day>> *)
(* in UTC, and stands for every instant of that day; a period start is the *)
(* midnight that begins its date.                                          *)
(***************************************************************************)
EXTENDS Naturals

Leap(y) == y % 4 = 0 /\ (y % 100 # 0 \/ y % 400 = 0)

DaysIn(y, m) ==
  IF m = 2 THEN (IF Leap(y) THEN 29 ELSE 28)
  ELSE IF m \in {4, 6, 9, 11} THEN 30 ELSE 31

Before(d, e) ==
  \/ d[1] < e[1]
  \/ d[1] = e[1] /\ d[2] < e[2]
  \/ d[1] = e[1] /\ d[2] = e[2] /\ d[3] < e[3]

\* time.Date of a day that the month may not have: it runs into the next one.
Normalised(y, m, d) ==
  IF d <= DaysIn(y, m) THEN <<y, m, d>>
  ELSE IF m = 12 THEN <<y + 1, 1, d - DaysIn(y, m)>> ELSE <<y, m + 1, d - DaysIn(y, m)>>

PreviousMonth(y, m) == IF m = 1 THEN <<y - 1, 12>> ELSE <<y, m - 1>>

\* AddDate(0, -1, 0): the same day of the month before, normalised.
MonthBefore(now) ==
  LET p == PreviousMonth(now[1], now[2]) IN Normalised(p[1], p[2], now[3])

invoiceDayInMonth(y, m, day) ==
  <<y, m, IF day > DaysIn(y, m) THEN DaysIn(y, m) ELSE IF day < 1 THEN 1 ELSE day>>

monthStartUTC(now) == <<now[1], now[2], 1>>

\* day is the invoice day of the payment terms, 0 when there is none.
periodStartUTC(now, day) ==
  LET start == invoiceDayInMonth(now[1], now[2], day)
      prev == MonthBefore(now)
  IN IF day = 0 THEN monthStartUTC(now)
     ELSE IF Before(now, start) THEN invoiceDayInMonth(prev[1], prev[2], day)
     ELSE start

\* As soon as Amberflo allows: now plus the skew. No date is before it.
Soon == <<0, 0, 0>>

\* switchTimeUnix: the period start if it lies ahead, else as soon as allowed.
switchTimeUnix(now, day) ==
  LET start == periodStartUTC(now, day) IN IF Before(now, start) THEN start ELSE Soon

-----------------------------------------------------------------------------
(* The reference: a period starts on the last invoice day that has come.   *)

\* The invoice day of a month: the last day when the month is shorter, the
\* first when no day is given.
Fitting(day, y, m) == CHOOSE d \in 1 .. DaysIn(y, m) :
  \/ d = day
  \/ day = 0 /\ d = 1
  \/ day > DaysIn(y, m) /\ d = DaysIn(y, m)

CurrentPeriodStart(now, day) ==
  LET past == {e \in {<<y, m, Fitting(day, y, m)>> : y \in {now[1] - 1, now[1]}, m \in 1 .. 12} :
                 ~Before(now, e)}
  IN CHOOSE e \in past : \A f \in past : ~Before(e, f)

\* What the comment on periodStartUTC says (stripe_customer.go:274-279): the
\* current period started on this month's invoice day if that has come, else on
\* the previous month's.
AsDocumented(now, day) == periodStartUTC(now, day) = CurrentPeriodStart(now, day)

\* The month before is shorter than the date, and this month's invoice day
\* is still to come.
StepsBackIntoThisMonth(now, day) ==
  LET p == PreviousMonth(now[1], now[2]) IN
  /\ now[3] < Fitting(day, now[1], now[2])
  /\ now[3] > DaysIn(p[1], p[2])
==============================================================================
