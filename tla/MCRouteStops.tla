----------------------------- MODULE MCRouteStops -----------------------------
(* Instances of RouteStops for TLC: published stops, slots, and who overlaps. *)
EXTENDS RouteStops, TLC

CONSTANTS s1, s2, s3, s4, s5, w1, w2, w3

TwoStops == <<s1, s2>>
ThreeStops == <<s1, s2, s3>>

\* A slot for the driver, who also marks a NO_SHOW, and two for passengers.
Slots == w1 :> {"addRouteStop", "markNoShow"} @@ w2 :> {"createBooking"} @@ w3 :> {"createBooking"}
Driver == w1 :> {"addRouteStop"}

Alone == {}
\* The driver adds stops while passengers book theirs.
AddAndBook == {"addRouteStop", "createBooking"} \X {"addRouteStop", "createBooking"}
=============================================================================
