---------------------------- MODULE MCReservations ----------------------------
(* Instances of Reservations for TLC: sessions and the passengers behind them. *)
EXTENDS Reservations, TLC

CONSTANTS p1, p2, p3, c1, c2, c3, c4, d1, d2, k1

\* One session per passenger, and a second device of p1.
OneEach2 == c1 :> p1 @@ c2 :> p2
OneEach3 == c1 :> p1 @@ c2 :> p2 @@ c3 :> p3
TwoDevices == c1 :> p1 @@ c2 :> p1 @@ c3 :> p2 @@ c4 :> p3
Alone == c1 :> p1

PassengerHandlers == {"createRoute", "createBooking", "cancelBooking"}
\* Who may run beside whom: passengers beside passengers, anybody, or all that
\* do not write over what another has counted.
PassengersOverlap == {"createBooking", "cancelBooking"} \X {"createBooking", "cancelBooking"}
EverybodyOverlaps == Ops \X Ops
Composing == {o \in Ops \X Ops : o \notin Conflicts /\ <<o[2], o[1]>> \notin Conflicts}
AllHandlers == Ops \cup {"createRoute"}
=============================================================================
