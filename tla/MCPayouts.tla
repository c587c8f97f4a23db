------------------------------- MODULE MCPayouts -------------------------------
(* Instances of Payouts for TLC: fares, and who serves what. *)
EXTENDS Payouts, TLC

CONSTANTS d1, d2, jan, feb, w1, w2

Fare(d, a, m) == [driver |-> d, amount |-> a, period |-> m]

\* Two months, one fare below the minimum; a single fare.
TwoMonths == <<Fare(d1, 3, jan), Fare(d1, 5, feb)>>
OneFare == <<Fare(d1, 6, jan)>>

OneByOne == w1 :> Ops
\* Requests one by one, the job beside them.
RequestsAndJob == w1 :> Ops \ {"syncPaypalPayouts"} @@ w2 :> {"syncPaypalPayouts"}
=============================================================================
