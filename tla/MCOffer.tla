------------------------------- MODULE MCOffer -------------------------------
(***************************************************************************)
(* An instance of OfferController for TLC: two pricings on one meter, then *)
(* one on another. TLC also compares what the tiers of PlanPricing charge  *)
(* with what the bands of a rate say.                                      *)
(***************************************************************************)
EXTENDS OfferController, PlanPricing

CONSTANTS cpu, egress, compute, traffic, made

TwoMeters == <<cpu, cpu, egress>>
TwoLabels == <<compute, compute, traffic>>

Left(id, m, on, s) == [id |-> id, name |-> <<compute, m>>, meter |-> on, status |-> s]

\* Nothing, an item to take over that may be refused, the name on a live meter,
\* both names taken, the id on another meter beside a sibling, and the name of
\* one meter's pricing on the id of the other.
SixLeftovers ==
  { {}, {Left(made, None, Dead, "deprecated")}, {Left(made, None, egress, "open")},
    {Left(made, None, Dead, "deprecated"), Left(egress, cpu, Dead, "open")},
    {Left(cpu, None, Dead, "deprecated"), Left(made, cpu, cpu, "open")},
    {Left(egress, None, Dead, "open")} }

\* Rates of up to three bands that end at whole units, the last one open.
MaxQuantity == 70
WholeRates ==
  UNION {{[j \in 1 .. n |-> [upTo |-> IF j = n THEN Open ELSE limit[j], rate |-> rate[j]]] :
             limit \in [1 .. n - 1 -> {10, 20, 50}], rate \in [1 .. n -> 1 .. 3]} : n \in 1 .. 3}
Ascending(bands) == \A j \in 1 .. Len(bands) - 2 : bands[j].upTo < bands[j + 1].upTo

ASSUME TiersAsBands ==
  \A bands \in WholeRates, q \in 0 .. MaxQuantity :
    Ascending(bands) => TierCharge(leafFromRate(bands), q) = BandCharge(bands, q)
==============================================================================
