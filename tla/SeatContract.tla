----------------------------- MODULE SeatContract -----------------------------
(***************************************************************************)
(* What the reservation handlers promise, without counters, copies of rows *)
(* or stages: a route is offered with a capacity, a passenger reserves a   *)
(* seat at most once, and only while fewer seats are taken than it has; a  *)
(* route is finished when no seat is held any more, or it is withdrawn and *)
(* the seats held on it are released.                                      *)
(***************************************************************************)
EXTENDS Integers, FiniteSets

CONSTANTS Routes, Passengers, MaxSeats

VARIABLES
    phase,      \* none, ACTIVA, FINALIZADA or CANCELADA
    capacity,   \* seats the route was offered with
    seat        \* what each passenger has had of the route

vars == <<phase, capacity, seat>>

With(r, state) == {p \in Passengers : seat[r][p] = state}
Taken(r) == With(r, "held") \cup With(r, "used")

Init ==
    /\ phase = [r \in Routes |-> "none"]
    /\ capacity = [r \in Routes |-> 0]
    /\ seat = [r \in Routes |-> [p \in Passengers |-> "none"]]

Offer(r) ==
    /\ phase[r] = "none"
    /\ phase' = [phase EXCEPT ![r] = "ACTIVA"]
    /\ \E n \in 1..MaxSeats : capacity' = [capacity EXCEPT ![r] = n]
    /\ UNCHANGED seat

Reserve(r, p) ==
    /\ phase[r] = "ACTIVA"
    /\ seat[r][p] = "none"
    /\ Cardinality(Taken(r)) < capacity[r]
    /\ seat' = [seat EXCEPT ![r][p] = "held"]
    /\ UNCHANGED <<phase, capacity>>

\* The passenger cancels, or the trip is over for them: once, and for good.
Leave(r, p) ==
    /\ seat[r][p] = "held"
    /\ \E s \in {"released", "used"} : seat' = [seat EXCEPT ![r][p] = s]
    /\ UNCHANGED <<phase, capacity>>

Finish(r) ==
    /\ phase[r] = "ACTIVA"
    /\ With(r, "held") = {}
    /\ phase' = [phase EXCEPT ![r] = "FINALIZADA"]
    /\ UNCHANGED <<capacity, seat>>

Withdraw(r) ==
    /\ phase[r] = "ACTIVA"
    /\ phase' = [phase EXCEPT ![r] = "CANCELADA"]
    /\ UNCHANGED <<capacity, seat>>

ReleaseAll(r) ==
    /\ phase[r] = "CANCELADA"
    /\ seat' = [seat EXCEPT ![r] =
            [p \in Passengers |-> IF @[p] = "held" THEN "released" ELSE @[p]]]
    /\ UNCHANGED <<phase, capacity>>

Next ==
    \E r \in Routes :
        \/ Offer(r) \/ Finish(r) \/ Withdraw(r) \/ ReleaseAll(r)
        \/ \E p \in Passengers : Reserve(r, p) \/ Leave(r, p)

Spec == Init /\ [][Next]_vars
=============================================================================
