------------------------------ MODULE RouteStops ------------------------------
(***************************************************************************)
(* The stops of one ACTIVA route, numbered by orden under a UNIQUE          *)
(* constraint, and the polyline drawn through them.  The driver adds stops  *)
(* (addRouteStop, no transaction), a booking adds its pickup inside of its  *)
(* transaction (insertPickupStop), and a NO_SHOW takes it away again        *)
(* (removePickupStop).                                                     *)
(***************************************************************************)
EXTENDS Integers, Sequences, FiniteSets, Functions

CONSTANTS
    Stops, NoStop,      \* bound: rows of route_stops
    Published,          \* the stops createRoute inserts, in their order
    Workers, Offers,    \* request slots, and the operations each may serve
    Overlap,            \* bound: <<running, called>>, which may run beside which
    MaxOrden,           \* bound: no stop is added once a number is this high
    MaxFaults           \* bound: handlers lost, polylines not drawn

Ops == {"addRouteStop", "createBooking", "markNoShow"}

ASSUME RouteStopAssumption ==
    /\ NoStop \notin Stops
    /\ Published \in Seq(Stops) /\ Len(Published) \in 2..MaxOrden
    /\ IsInjective(Published)
    /\ Offers \in [Workers -> SUBSET Ops]
    /\ Overlap \subseteq Ops \X Ops
    /\ MaxOrden \in Nat \ {0}
    /\ MaxFaults \in Nat

VARIABLES
    orden,      \* of each row; 0 when there is none
    pickups,    \* stops that bookings have inserted
    polyline,   \* the stops the stored polyline runs through
    proc, faults,
    overlapped  \* what has been under way when a handler was called (history)

vars == <<orden, pickups, polyline, proc, faults, overlapped>>

-----------------------------------------------------------------------------

Ordenes == 0..MaxOrden

Present(o) == {s \in Stops : o[s] # 0}
Place(o, s) == Cardinality({t \in Present(o) : o[t] <= o[s]})
Path(o) == [i \in 1..Cardinality(Present(o)) |-> CHOOSE s \in Present(o) : Place(o, s) = i]

Stages == {"idle", "reload", "flush", "insert", "commit", "delete", "remaining",
           "refresh", "draw"}

\* The stages of a handler: any, and those in which it renumbers or is about to.
Busy == [handlers |-> Stages \ {"idle"}, renumbering |-> Stages \ {"idle", "refresh", "draw"}]

NoUpdates == [s \in Stops |-> 0]

Proc ==
    [op : Ops \cup {"none"}, at : Stages, stop : Stops \cup {NoStop},
     newOrder : Ordenes,                \* for the new stop, or that of the removed one
     updates : [Stops -> Ordenes],      \* rows to be renumbered; 0: not this one
     known : SUBSET Stops,              \* of these, the rows the save has found
     path : Seq(Stops)]

Idle == [op |-> "none", at |-> "idle", stop |-> NoStop, newOrder |-> 0,
         updates |-> NoUpdates, known |-> {}, path |-> <<>>]

Init ==
    /\ orden = [s \in Stops |-> IF s \in Range(Published)
                                THEN CHOOSE i \in DOMAIN Published : Published[i] = s ELSE 0]
    /\ pickups = {}
    /\ polyline = Published
    /\ proc = [w \in Workers |-> Idle]
    /\ faults = 0
    /\ overlapped = {}

Called(w, op) ==
    /\ op \in Offers[w] /\ proc[w].at = "idle"
    /\ \A v \in Workers : proc[v].at # "idle" => <<proc[v].op, op>> \in Overlap
    /\ overlapped' = overlapped \cup {k \in DOMAIN Busy : \E v \in Workers : proc[v].at \in Busy[k]}
Become(w, record) == proc' = [proc EXCEPT ![w] = record]
Done(w) == Become(w, Idle)
Call(op, at) == [Idle EXCEPT !.op = op, !.at = at]

\* planStopInsertion: before any stop but the first, wherever the detour is
\* least; after the only stop; or as the first.
InsertIndex(n) == CASE n = 0 -> {0} [] n = 1 -> {1} [] OTHER -> 1..(n - 1)

\* Mutant: only the stop in the way moves, to the end.
MoveToTheEnd(o, newOrder) ==
    [s \in Stops |-> IF o[s] = newOrder THEN Cardinality(Present(o)) + 1 ELSE 0]

\* Mutant: the stops move on by as many places as there are stops to move.
ShiftByAll(o, newOrder) ==
    [s \in Stops |-> IF o[s] >= newOrder
                     THEN o[s] + Cardinality({t \in Stops : o[t] >= newOrder}) ELSE 0]

Shifted(o, newOrder) == [s \in Stops |-> IF o[s] >= newOrder THEN o[s] + 1 ELSE 0]
ClosedUp(o, gap) == [s \in Stops |-> IF o[s] > gap THEN o[s] - 1 ELSE 0]

\* repository.save(updates) reads the rows and drops what they have already.
Changed(o, updates) == [s \in Stops |-> IF o[s] = updates[s] THEN 0 ELSE updates[s]]

\* Then one UPDATE after the other, in the order of the path: each meets the
\* rows before it with their new numbers, the others with their old ones.  A row
\* that was gone when they were read is inserted again.
Renumber(o, updates, known) ==
    LET written == {s \in Stops : updates[s] # 0 /\ (o[s] # 0 \/ s \notin known)}
        Met(s, t) == IF t \in written /\ updates[t] <= updates[s] THEN updates[t] ELSE o[t]
    IN  [ok |-> \A s \in written : \A t \in Stops \ {s} : Met(s, t) # updates[s],
         o |-> [s \in Stops |-> IF s \in written THEN updates[s] ELSE o[s]]]

Free == {s \in Stops : orden[s] = 0 /\ \A w \in Workers :
            proc[w].stop # s /\ proc[w].updates[s] = 0}

-----------------------------------------------------------------------------
(* addRouteStop: plan, renumber, insert, draw; every step on its own. *)

Plan(w, op, at, s, i) ==
    LET newOrder == i + 1
    IN  /\ \A t \in Stops : orden[t] < MaxOrden
        /\ Become(w, [Call(op, at) EXCEPT !.stop = s, !.newOrder = newOrder,
                                          !.updates = Shifted(orden, newOrder)])

AddRouteStop(w, s, i) ==
    /\ Called(w, "addRouteStop")
    /\ s \in Free
    /\ i \in InsertIndex(Cardinality(Present(orden)))
    /\ Plan(w, "addRouteStop",
            IF Shifted(orden, i + 1) = NoUpdates THEN "insert" ELSE "reload", s, i)
    /\ UNCHANGED <<orden, pickups, polyline, faults>>

ReloadStops(w) ==
    /\ proc[w].at = "reload"
    /\ Become(w, [proc[w] EXCEPT !.at = "flush", !.known = Present(orden),
                                    !.updates = Changed(orden, @)])
    /\ UNCHANGED <<orden, pickups, polyline, faults, overlapped>>

\* The UPDATEs are one transaction: a number taken by another row undoes all.
FlushStops(w) ==
    LET result == Renumber(orden, proc[w].updates, proc[w].known)
    IN  /\ proc[w].at = "flush"
        /\ IF result.ok
           THEN /\ orden' = result.o
                /\ Become(w, [proc[w] EXCEPT !.updates = NoUpdates, !.known = {},
                        !.at = IF proc[w].op = "addRouteStop" THEN "insert" ELSE "refresh"])
           ELSE UNCHANGED orden /\ Done(w)
        /\ UNCHANGED <<pickups, polyline, faults, overlapped>>

InsertStop(w) ==
    /\ proc[w].at = "insert"
    /\ IF \E t \in Stops : orden[t] = proc[w].newOrder
       THEN UNCHANGED orden /\ Done(w)
       ELSE /\ orden' = [orden EXCEPT ![proc[w].stop] = proc[w].newOrder]
            /\ Become(w, [proc[w] EXCEPT !.at = "refresh"])
    /\ UNCHANGED <<pickups, polyline, faults, overlapped>>

-----------------------------------------------------------------------------
(* insertPickupStop: the same in the transaction of the booking, under the   *)
(* lock of the route, which addRouteStop does not ask for.                 *)

BookPickup(w, s, i) ==
    /\ Called(w, "createBooking")
    /\ \A v \in Workers : proc[v].at # "commit"
    /\ s \in Free
    /\ i \in InsertIndex(Cardinality(Present(orden)))
    /\ Plan(w, "createBooking", "commit", s, i)
    /\ UNCHANGED <<orden, pickups, polyline, faults>>

CommitPickup(w) ==
    LET result == Renumber(orden, Changed(orden, proc[w].updates), Present(orden))
        s == proc[w].stop
    IN  /\ proc[w].at = "commit"
        /\ IF result.ok /\ \A t \in Stops : result.o[t] # proc[w].newOrder
           THEN /\ orden' = [result.o EXCEPT ![s] = proc[w].newOrder]
                /\ pickups' = pickups \cup {s}
                /\ Become(w, [proc[w] EXCEPT !.at = "refresh", !.updates = NoUpdates])
           ELSE UNCHANGED <<orden, pickups>> /\ Done(w)
        /\ UNCHANGED <<polyline, faults, overlapped>>

-----------------------------------------------------------------------------
(* removePickupStop, once per booking: its estado is NO_SHOW by then. *)

RemovePickup(w, s) ==
    /\ Called(w, "markNoShow")
    /\ s \in pickups
    /\ pickups' = pickups \ {s}
    /\ IF orden[s] # 0
       THEN Become(w, [Call("markNoShow", "delete") EXCEPT !.stop = s, !.newOrder = orden[s]])
       ELSE UNCHANGED proc
    /\ UNCHANGED <<orden, polyline, faults>>

DeleteStop(w) ==
    /\ proc[w].at = "delete"
    /\ orden' = [orden EXCEPT ![proc[w].stop] = 0]
    /\ Become(w, [proc[w] EXCEPT !.at = "remaining"])
    /\ UNCHANGED <<pickups, polyline, faults, overlapped>>

\* Mutant: the numbers behind the removed stop are left as they are.
LeaveRemaining(w) ==
    /\ proc[w].at = "remaining"
    /\ Become(w, [proc[w] EXCEPT !.at = "refresh"])
    /\ UNCHANGED <<orden, pickups, polyline, faults, overlapped>>

ReadRemaining(w) ==
    LET updates == ClosedUp(orden, proc[w].newOrder)
    IN  /\ proc[w].at = "remaining"
        /\ Become(w, [proc[w] EXCEPT !.updates = updates,
                        !.at = IF updates = NoUpdates THEN "refresh" ELSE "reload"])
        /\ UNCHANGED <<orden, pickups, polyline, faults, overlapped>>

-----------------------------------------------------------------------------
(* refreshRoutePolyline. *)

ReadPath(w) ==
    /\ proc[w].at = "refresh"
    /\ Become(w, [proc[w] EXCEPT !.at = "draw", !.path = Path(orden)])
    /\ UNCHANGED <<orden, pickups, polyline, faults, overlapped>>

\* Fewer than two stops have no polyline.
DrawPolyline(w) ==
    /\ proc[w].at = "draw"
    /\ polyline' = IF Len(proc[w].path) < 2 THEN <<>> ELSE proc[w].path
    /\ Done(w)
    /\ UNCHANGED <<orden, pickups, faults, overlapped>>

\* Google does not answer, a statement throws, or the process stops.
Fail(w) ==
    /\ faults < MaxFaults
    /\ proc[w].at # "idle"
    /\ faults' = faults + 1
    /\ Done(w)
    /\ UNCHANGED <<orden, pickups, polyline, overlapped>>

Next ==
    \E w \in Workers :
        \/ \E s \in Stops, i \in 0..Cardinality(Stops) : AddRouteStop(w, s, i) \/ BookPickup(w, s, i)
        \/ \E s \in Stops : RemovePickup(w, s)
        \/ ReloadStops(w) \/ FlushStops(w) \/ InsertStop(w) \/ CommitPickup(w)
        \/ DeleteStop(w) \/ ReadRemaining(w) \/ ReadPath(w) \/ DrawPolyline(w)
        \/ Fail(w)

Spec == Init /\ [][Next]_vars

-----------------------------------------------------------------------------
(* Properties. *)

\* No handler is under way; none was lost, and none ran beside another.
Quiet ==
    /\ faults = 0 /\ overlapped = {}
    /\ \A w \in Workers : proc[w].at = "idle"

\* Nobody renumbers; no handler was lost, and no two renumbered at a time.
Numbered ==
    /\ faults = 0 /\ "renumbering" \notin overlapped
    /\ \A w \in Workers : proc[w].at \notin Busy.renumbering

\* Types: the numbers the rows can have, and what the handlers hold.
TypeOK ==
    /\ orden \in [Stops -> Ordenes]
    /\ pickups \subseteq Stops
    /\ polyline \in Seq(Stops)
    /\ proc \in [Workers -> Proc]
    /\ faults \in 0..MaxFaults
    /\ overlapped \subseteq DOMAIN Busy

\* One handler renumbering at a time, and none lost, the stops stay numbered from
\* 1 without a gap, as planStopInsertion takes the place in the list for the
\* number; the polyline runs through the stops there are, in their order, as long
\* as no handler is called while another draws.
PolylineFollowsStops ==
    /\ Numbered => {orden[s] : s \in Present(orden)} = 1..Cardinality(Present(orden))
    /\ Quiet => polyline = Path(orden)

\* While no two handlers renumber at a time, the stops of a route never change
\* places, whoever draws beside them, and whichever handler is lost between two
\* steps, gaps in the numbers or not.
StopsKeepTheirPlaces ==
    [][ "renumbering" \notin overlapped =>
        \A s, t \in Present(orden) :
            s \in Present(orden') /\ t \in Present(orden') /\ orden[s] < orden[t] =>
                orden'[s] < orden'[t]]_orden

\* A stop finds its place between any two others: renumbering the stops behind
\* it, undisturbed, is not refused by the constraint on orden.
StopsFitAnywhere ==
    \A w \in Workers : proc[w].at = "flush" =>
        Renumber(orden, proc[w].updates, proc[w].known).ok
=============================================================================
