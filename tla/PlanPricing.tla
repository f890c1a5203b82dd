----------------------------- MODULE PlanPricing -----------------------------
(***************************************************************************)
(* From the rates of a ServicePricing to the price tiers of an Amberflo    *)
(* product item price (internal/controller/offer_controller.go,            *)
(* internal/amberflo/product_plan.go), and what either charges.            *)
(*                                                                         *)
(* A rate is a sequence of bands [upTo, rate]; the limit of a band and a   *)
(* quantity are decimals, in tenths, and an unbounded band has the limit   *)
(* Open. A flat rate is one open band. Tiers start after whole units.      *)
(***************************************************************************)
EXTENDS Integers, Sequences, FiniteSetsExt

Open == 0

\* strconv.ParseFloat and the conversion to int64: truncation towards zero.
parseUpToInt(tenths) == tenths \div 10

\* The limit the next band starts after: that of the last bounded band so far.
startAfter(bands, j) ==
  LET bounded == {i \in 1 .. j - 1 : bands[i].upTo # Open}
  IN IF bounded = {} THEN 0 ELSE parseUpToInt(bands[Max(bounded)].upTo)

\* desiredRatesFromPricing and leafFromRate: batches of one unit, which may be
\* charged in part.
leafFromRate(bands) ==
  [j \in DOMAIN bands |-> [startAfterUnit |-> startAfter(bands, j), price |-> bands[j].rate]]

\* The part of a quantity that lies between two limits.
Between(q, from, to) == IF q <= from THEN 0 ELSE (IF q < to THEN q ELSE to) - from

\* What Amberflo charges: each tier up to where the next one starts.
TierCharge(tiers, q) ==
  SumFunction([j \in DOMAIN tiers |-> tiers[j].price *
    Between(q, 10 * tiers[j].startAfterUnit,
            IF j = Len(tiers) THEN q ELSE 10 * tiers[j + 1].startAfterUnit)])

\* What the offer says: each band up to its limit.
BandCharge(bands, q) ==
  SumFunction([j \in DOMAIN bands |-> bands[j].rate *
    Between(q, IF j = 1 THEN 0 ELSE bands[j - 1].upTo,
            IF bands[j].upTo = Open THEN q ELSE bands[j].upTo)])
==============================================================================
