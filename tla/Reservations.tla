----------------------------- MODULE Reservations -----------------------------
(***************************************************************************)
(* Seats of a route: src/src/modules/bookings/bookings.service.ts and      *)
(* src/src/modules/routes/routes.service.ts, the handlers that write the   *)
(* `routes` and `bookings` rows.                                           *)
(*                                                                         *)
(* A handler is a coroutine: every statement it awaits is a step of its    *)
(* own, and between two of them any other handler may run.  What a handler *)
(* read stays in its local copy of the row (fields `rutas` and `reserva`   *)
(* of proc[w]) however old it has become.  repository.save(entity) reads   *)
(* the row again, finds the columns in which the local copy differs, and   *)
(* updates those columns: SaveX and FlushX below.  A database transaction  *)
(* that holds the route's row lock (SELECT ... FOR UPDATE) is one step.    *)
(***************************************************************************)
EXTENDS Integers, FiniteSets

CONSTANTS
    Routes, Passengers,
    Clients,        \* sessions of the passengers' application ...
    Owner,          \* ... and the passenger behind each; two sessions with one
                    \* owner are a double submit or a second device
    Drivers,        \* sessions of the driver who owns the routes
    Crons,          \* runs of the scheduled job that may overlap
    Handlers,       \* the operations this instance of the system offers
    Overlap,        \* pairs <<running, called>> of operations it lets overlap
    MetodoPago,     \* the payment methods passengers choose from
    MaxInFlight,    \* bound: handlers that have started and not finished
    MaxSeats,       \* bound: asientosTotales
    MaxTime,        \* bound: the last instant of the clock
    Lead,           \* departure must be this far ahead (15 minutes)
    NoShowWindow,   \* NO_SHOW is allowed this long after departure (30 minutes)
    MaxFaults       \* bound: statements that throw, or stops of the process

Workers == Clients \cup Drivers \cup Crons

ASSUME SetsAssumption ==
    /\ Routes # {} /\ Passengers # {}
    /\ IsFiniteSet(Passengers) /\ IsFiniteSet(Workers)
    /\ Clients \cap Drivers = {} /\ Clients \cap Crons = {} /\ Drivers \cap Crons = {}
    /\ Owner \in [Clients -> Passengers]

ASSUME BoundsAssumption ==
    /\ MaxInFlight \in Nat \ {0} /\ MaxSeats \in Nat \ {0} /\ MaxTime \in Nat
    /\ Lead \in Nat \ {0} /\ NoShowWindow \in Nat
    /\ MaxFaults \in Nat

VARIABLES
    now,        \* the clock the guards compare departures with
    route,      \* table routes, one row per route
    booking,    \* table bookings, UNIQUE(routeId, passengerId): booking[r][p]
    proc,       \* the handlers in flight, one slot per session
    faults      \* how many handlers were lost on their way

vars == <<now, route, booking, proc, faults>>

-----------------------------------------------------------------------------
(* Rows.  "none" stands for a row that has not been inserted. *)

EstadoRuta == {"ACTIVA", "FINALIZADA", "CANCELADA"}
EstadoReserva == {"CONFIRMADA", "CANCELADA", "COMPLETADA", "NO_SHOW"}

RouteRow ==
    [estado : EstadoRuta \cup {"none"},
     asientosTotales : 0..MaxSeats,
     asientosDisponibles : 0..MaxSeats,
     salida : 0..MaxTime,
     startedAt : BOOLEAN]

BookingRow ==
    [estado : EstadoReserva \cup {"none"},
     otpUsado : BOOLEAN,
     metodoPago : MetodoPago \cup {"none"}]

NoRoute ==
    [estado |-> "none", asientosTotales |-> 0, asientosDisponibles |-> 0,
     salida |-> 0, startedAt |-> FALSE]

NoBooking == [estado |-> "none", otpUsado |-> FALSE, metodoPago |-> "none"]

Columns == {"estado", "asientosDisponibles", "salida", "startedAt",
            "otpUsado", "metodoPago"}

\* What repository.save finds to write: the columns in which the copy differs.
RouteDiff(copy, row) ==
    {c \in {"estado", "asientosDisponibles", "salida", "startedAt"} : copy[c] # row[c]}
BookingDiff(copy, row) ==
    {c \in {"estado", "otpUsado", "metodoPago"} : copy[c] # row[c]}

\* The UPDATE it then issues: those columns, and no other.
RouteUpdate(copy, row, cols) ==
    [row EXCEPT
        !.estado = IF "estado" \in cols THEN copy.estado ELSE @,
        !.asientosDisponibles =
            IF "asientosDisponibles" \in cols THEN copy.asientosDisponibles ELSE @,
        !.salida = IF "salida" \in cols THEN copy.salida ELSE @,
        !.startedAt = IF "startedAt" \in cols THEN copy.startedAt ELSE @]
BookingUpdate(copy, row, cols) ==
    [row EXCEPT
        !.estado = IF "estado" \in cols THEN copy.estado ELSE @,
        !.otpUsado = IF "otpUsado" \in cols THEN copy.otpUsado ELSE @,
        !.metodoPago = IF "metodoPago" \in cols THEN copy.metodoPago ELSE @]

-----------------------------------------------------------------------------
(* Handlers in flight. *)

Ops == {"createBooking", "cancelBooking", "verifyOtp", "completeBooking",
        "markNoShow", "updateRouteSchedule", "startRoute", "cancelRoute",
        "finalizeRoute", "autoFinalizeExpiredRoutes"}

Stages == {"idle", "tx", "count", "reread", "loop", "bulk",
           "saveRoute", "flushRoute", "saveBooking", "flushBooking"}

AnyRoute == CHOOSE r \in Routes : TRUE
AnyPassenger == CHOOSE p \in Passengers : TRUE
NoRoutes == [r \in Routes |-> NoRoute]

Proc ==
    [op : Ops \cup {"none"},
     at : Stages,                   \* the statement it awaits next
     r : Routes, p : Passengers,    \* the row ids it works on
     rutas : [Routes -> RouteRow],  \* local copies of route rows
     reserva : BookingRow,          \* local copy of the booking row
     todo : SUBSET Routes,          \* what is left of the job's loop
     cols : SUBSET Columns]         \* the columns the pending UPDATE writes

Idle ==
    [op |-> "none", at |-> "idle", r |-> AnyRoute, p |-> AnyPassenger,
     rutas |-> NoRoutes, reserva |-> NoBooking, todo |-> {}, cols |-> {}]

Busy == {w \in Workers : proc[w].at # "idle"}

\* A call is accepted by a free session, within the bound on calls in flight
\* and beside the calls this instance lets it run beside.
Called(w, op) ==
    /\ op \in Handlers
    /\ proc[w].at = "idle"
    /\ Cardinality(Busy) < MaxInFlight
    /\ \A v \in Busy : <<proc[v].op, op>> \in Overlap

Call(op, at, r, p) == [Idle EXCEPT !.op = op, !.at = at, !.r = r, !.p = p]

At(w, op, stage) == proc[w].op = op /\ proc[w].at = stage

Become(w, record) == proc' = [proc EXCEPT ![w] = record]
Done(w) == Become(w, Idle)

-----------------------------------------------------------------------------
(* What the handlers count and check. *)

Pending(r) == {p \in Passengers : booking[r][p].estado = "CONFIRMADA"}
Unverified(r) == {p \in Pending(r) : ~booking[r][p].otpUsado}

HasDebt(p) ==
    \E r \in Routes : /\ booking[r][p].estado = "NO_SHOW"
                      /\ booking[r][p].metodoPago = "EFECTIVO"

\* assertRouteIsBookable; createRoute leaves no route without a price.
RouteIsBookable(row) == row.estado = "ACTIVA" /\ row.asientosDisponibles > 0

\* Mutants of TakeSeat: the counter is not written; Math.max(1, ...).
SeatNotTaken(row) == row
LastSeatStays(row) ==
    [row EXCEPT !.asientosDisponibles = IF @ - 1 > 1 THEN @ - 1 ELSE 1]

TakeSeat(row) ==
    [row EXCEPT !.asientosDisponibles = IF @ - 1 > 0 THEN @ - 1 ELSE 0]

\* Mutant of GiveBackSeat: the counter is not written.
SeatNotGivenBack(row) == row

GiveBackSeat(row) ==
    [row EXCEPT !.asientosDisponibles =
        IF @ + 1 < row.asientosTotales THEN @ + 1 ELSE row.asientosTotales]

-----------------------------------------------------------------------------
(* Passengers. *)

Init ==
    /\ now = 0
    /\ route = NoRoutes
    /\ booking = [r \in Routes |-> [p \in Passengers |-> NoBooking]]
    /\ proc = [w \in Workers |-> Idle]
    /\ faults = 0

\* createBooking up to the transaction: the debt is counted outside of it.
CreateBooking(c, r, m) ==
    /\ Called(c, "createBooking")
    /\ route[r].estado # "none"
    /\ ~HasDebt(Owner[c])
    /\ Become(c, [Call("createBooking", "tx", r, Owner[c])
                    EXCEPT !.reserva.metodoPago = m])
    /\ UNCHANGED <<now, route, booking, faults>>

BookingAllowed(r, p) ==
    RouteIsBookable(route[r]) /\ booking[r][p] = NoBooking

CreateBookingTransaction(c) ==
    LET r == proc[c].r
        p == proc[c].p
    IN  /\ At(c, "createBooking", "tx")
        /\ BookingAllowed(r, p)
        /\ booking' = [booking EXCEPT ![r][p] =
                [estado |-> "CONFIRMADA", otpUsado |-> FALSE,
                 metodoPago |-> proc[c].reserva.metodoPago]]
        /\ route' = [route EXCEPT ![r] = TakeSeat(@)]
        /\ Done(c)
        /\ UNCHANGED <<now, faults>>

\* ROUTE_NOT_FOUND, ROUTE_NOT_ACTIVE, ROUTE_FULL, ALREADY_BOOKED: rolled back.
CreateBookingRefused(c) ==
    /\ At(c, "createBooking", "tx")
    /\ ~BookingAllowed(proc[c].r, proc[c].p)
    /\ Done(c)
    /\ UNCHANGED <<now, route, booking, faults>>

CancelBooking(c, r) ==
    /\ Called(c, "cancelBooking")
    /\ booking[r][Owner[c]].estado = "CONFIRMADA"
    /\ Become(c, Call("cancelBooking", "tx", r, Owner[c]))
    /\ UNCHANGED <<now, route, booking, faults>>

\* UPDATE bookings by id whatever the state has become, then the seat.  The
\* refund that follows is in module Payments.
CancelBookingTransaction(c) ==
    LET r == proc[c].r
        p == proc[c].p
    IN  /\ At(c, "cancelBooking", "tx")
        /\ booking' = [booking EXCEPT ![r][p].estado = "CANCELADA"]
        /\ route' = [route EXCEPT ![r] = GiveBackSeat(@)]
        /\ Done(c)
        /\ UNCHANGED <<now, faults>>

-----------------------------------------------------------------------------
(* The driver and a passenger on board. *)

VerifyOtp(d, r, p) ==
    /\ Called(d, "verifyOtp")
    /\ booking[r][p].estado = "CONFIRMADA"
    /\ ~booking[r][p].otpUsado
    /\ Become(d, [Call("verifyOtp", "saveBooking", r, p)
                    EXCEPT !.reserva = [booking[r][p] EXCEPT !.otpUsado = TRUE]])
    /\ UNCHANGED <<now, route, booking, faults>>

\* Mutant: the state of another entity.
CompleteBookingAsRoute(d, r, p) ==
    /\ Called(d, "completeBooking")
    /\ booking[r][p].estado = "CONFIRMADA" /\ booking[r][p].otpUsado
    /\ Become(d, [Call("completeBooking", "saveBooking", r, p)
                    EXCEPT !.reserva = [booking[r][p] EXCEPT !.estado = "FINALIZADA"]])
    /\ UNCHANGED <<now, route, booking, faults>>

CompleteBooking(d, r, p) ==
    /\ Called(d, "completeBooking")
    /\ booking[r][p].estado = "CONFIRMADA"
    /\ booking[r][p].otpUsado
    /\ Become(d, [Call("completeBooking", "saveBooking", r, p)
                    EXCEPT !.reserva = [booking[r][p] EXCEPT !.estado = "COMPLETADA"]])
    /\ UNCHANGED <<now, route, booking, faults>>

MarkNoShow(d, r, p) ==
    /\ Called(d, "markNoShow")
    /\ booking[r][p].estado = "CONFIRMADA"
    /\ now - route[r].salida >= NoShowWindow
    /\ Become(d, [Call("markNoShow", "saveBooking", r, p)
                    EXCEPT !.reserva = [booking[r][p] EXCEPT !.estado = "NO_SHOW"]])
    /\ UNCHANGED <<now, route, booking, faults>>

SaveBooking(w) ==
    /\ proc[w].at = "saveBooking"
    /\ Become(w, [proc[w] EXCEPT
            !.at = "flushBooking",
            !.cols = BookingDiff(proc[w].reserva, booking[proc[w].r][proc[w].p])])
    /\ UNCHANGED <<now, route, booking, faults>>

\* completeBooking and markNoShow go on to finalizeRouteIfReady.
FlushBooking(w) ==
    LET r == proc[w].r
        p == proc[w].p
    IN  /\ proc[w].at = "flushBooking"
        /\ booking' = [booking EXCEPT ![r][p] =
                BookingUpdate(proc[w].reserva, @, proc[w].cols)]
        /\ IF proc[w].op = "verifyOtp"
           THEN Done(w)
           ELSE Become(w, Call(proc[w].op, "count", r, p))
        /\ UNCHANGED <<now, route, faults>>

\* Mutant of FinalizeIfReadyCount: the count is not looked at.
FinalizeAnyway(w) ==
    /\ proc[w].op \in {"completeBooking", "markNoShow"}
    /\ proc[w].at = "count"
    /\ Become(w, [proc[w] EXCEPT !.at = "reread"])
    /\ UNCHANGED <<now, route, booking, faults>>

\* finalizeRouteIfReady: count, read the route again, save it.
FinalizeIfReadyCount(w) ==
    /\ proc[w].op \in {"completeBooking", "markNoShow"}
    /\ proc[w].at = "count"
    /\ IF Pending(proc[w].r) = {}
       THEN Become(w, [proc[w] EXCEPT !.at = "reread"])
       ELSE Done(w)
    /\ UNCHANGED <<now, route, booking, faults>>

FinalizeIfReadyRead(w) ==
    LET r == proc[w].r
    IN  /\ proc[w].at = "reread"
        /\ IF route[r].estado = "ACTIVA"
           THEN Become(w, [proc[w] EXCEPT
                    !.at = "saveRoute",
                    !.rutas[r] = [route[r] EXCEPT !.estado = "FINALIZADA"]])
           ELSE Done(w)
        /\ UNCHANGED <<now, route, booking, faults>>

-----------------------------------------------------------------------------
(* The driver and the route. *)

\* Mutant of CreateRoute: the row of a closed route is used again.
RepublishRoute(d, r, seats, salida) ==
    /\ "createRoute" \in Handlers
    /\ route[r].estado # "ACTIVA"
    /\ salida >= now + Lead
    /\ route' = [route EXCEPT ![r] =
            [estado |-> "ACTIVA", asientosTotales |-> seats,
             asientosDisponibles |-> seats, salida |-> salida, startedAt |-> FALSE]]
    /\ UNCHANGED <<now, booking, proc, faults>>

\* One INSERT: the vehicle and profile checks before it read other tables.
CreateRoute(d, r, seats, salida) ==
    /\ "createRoute" \in Handlers
    /\ route[r] = NoRoute
    /\ salida >= now + Lead
    /\ route' = [route EXCEPT ![r] =
            [estado |-> "ACTIVA", asientosTotales |-> seats,
             asientosDisponibles |-> seats, salida |-> salida, startedAt |-> FALSE]]
    /\ UNCHANGED <<now, booking, proc, faults>>

UpdateRouteSchedule(d, r, salida) ==
    /\ Called(d, "updateRouteSchedule")
    /\ route[r].estado = "ACTIVA"
    /\ ~route[r].startedAt
    /\ salida >= now + Lead
    /\ Become(d, [Call("updateRouteSchedule", "saveRoute", r, AnyPassenger)
                    EXCEPT !.rutas[r] = [route[r] EXCEPT !.salida = salida]])
    /\ UNCHANGED <<now, route, booking, faults>>

StartRoute(d, r) ==
    /\ Called(d, "startRoute")
    /\ route[r].estado = "ACTIVA"
    /\ ~route[r].startedAt
    /\ Become(d, [Call("startRoute", "count", r, AnyPassenger)
                    EXCEPT !.rutas[r] = route[r]])
    /\ UNCHANGED <<now, route, booking, faults>>

\* Mutant of StartRouteCount: passengers without OTP do not hold it back.
StartRouteAnyway(d) ==
    /\ At(d, "startRoute", "count")
    /\ Become(d, [proc[d] EXCEPT
            !.at = "saveRoute", !.rutas[proc[d].r].startedAt = TRUE])
    /\ UNCHANGED <<now, route, booking, faults>>

StartRouteCount(d) ==
    LET r == proc[d].r
    IN  /\ At(d, "startRoute", "count")
        /\ IF Unverified(r) = {}
           THEN Become(d, [proc[d] EXCEPT
                    !.at = "saveRoute", !.rutas[r].startedAt = TRUE])
           ELSE Done(d)
        /\ UNCHANGED <<now, route, booking, faults>>

CancelRoute(d, r) ==
    /\ Called(d, "cancelRoute")
    /\ route[r].estado = "ACTIVA"
    /\ Become(d, [Call("cancelRoute", "saveRoute", r, AnyPassenger)
                    EXCEPT !.rutas[r] = [route[r] EXCEPT !.estado = "CANCELADA"]])
    /\ UNCHANGED <<now, route, booking, faults>>

\* Mutant of CancelRouteBookings: the UPDATE without its estado condition.
CancelEveryBooking(d) ==
    LET r == proc[d].r
    IN  /\ At(d, "cancelRoute", "bulk")
        /\ booking' = [booking EXCEPT ![r] =
                [p \in Passengers |->
                    IF booking[r][p] # NoBooking
                    THEN [booking[r][p] EXCEPT !.estado = "CANCELADA"]
                    ELSE NoBooking]]
        /\ Done(d)
        /\ UNCHANGED <<now, route, faults>>

\* One UPDATE over the bookings still CONFIRMADA when it runs.  The refunds
\* that follow are in module Payments.
CancelRouteBookings(d) ==
    LET r == proc[d].r
    IN  /\ At(d, "cancelRoute", "bulk")
        /\ booking' = [booking EXCEPT ![r] =
                [p \in Passengers |->
                    IF p \in Pending(r)
                    THEN [booking[r][p] EXCEPT !.estado = "CANCELADA"]
                    ELSE booking[r][p]]]
        /\ Done(d)
        /\ UNCHANGED <<now, route, faults>>

\* Only CANCELADA is refused: a FINALIZADA route may be finalized again.
FinalizeRoute(d, r) ==
    /\ Called(d, "finalizeRoute")
    /\ route[r].estado \in {"ACTIVA", "FINALIZADA"}
    /\ Become(d, [Call("finalizeRoute", "count", r, AnyPassenger)
                    EXCEPT !.rutas[r] = route[r]])
    /\ UNCHANGED <<now, route, booking, faults>>

\* Mutant of FinalizeRouteCount: the count is not looked at.
FinalizeRouteAnyway(d) ==
    /\ At(d, "finalizeRoute", "count")
    /\ Become(d, [proc[d] EXCEPT
            !.at = "saveRoute", !.rutas[proc[d].r].estado = "FINALIZADA"])
    /\ UNCHANGED <<now, route, booking, faults>>

FinalizeRouteCount(d) ==
    LET r == proc[d].r
    IN  /\ At(d, "finalizeRoute", "count")
        /\ IF Pending(r) = {}
           THEN Become(d, [proc[d] EXCEPT
                    !.at = "saveRoute", !.rutas[r].estado = "FINALIZADA"])
           ELSE Done(d)
        /\ UNCHANGED <<now, route, booking, faults>>

SaveRoute(w) ==
    LET r == proc[w].r
    IN  /\ proc[w].at = "saveRoute"
        /\ Become(w, [proc[w] EXCEPT
                !.at = "flushRoute",
                !.cols = RouteDiff(proc[w].rutas[r], route[r])])
        /\ UNCHANGED <<now, route, booking, faults>>

\* The next route of the job's loop, or its end.
LoopOn(w, left) ==
    IF left = {}
    THEN Done(w)
    ELSE Become(w, [proc[w] EXCEPT !.at = "loop", !.todo = left, !.cols = {}])

FlushRoute(w) ==
    LET r == proc[w].r
    IN  /\ proc[w].at = "flushRoute"
        /\ route' = [route EXCEPT ![r] =
                RouteUpdate(proc[w].rutas[r], @, proc[w].cols)]
        /\ CASE proc[w].op = "cancelRoute" ->
                    Become(w, Call("cancelRoute", "bulk", r, AnyPassenger))
             [] proc[w].op = "autoFinalizeExpiredRoutes" ->
                    LoopOn(w, proc[w].todo \ {r})
             [] OTHER -> Done(w)
        /\ UNCHANGED <<now, booking, faults>>

-----------------------------------------------------------------------------
(* The scheduled job: every route it will visit is read once, at the start. *)

Expired == {r \in Routes : route[r].estado = "ACTIVA" /\ route[r].salida <= now}

AutoFinalizeExpiredRoutes(k) ==
    /\ Called(k, "autoFinalizeExpiredRoutes")
    /\ Expired # {}
    /\ Become(k, [Call("autoFinalizeExpiredRoutes", "loop", AnyRoute, AnyPassenger)
            EXCEPT !.todo = Expired,
                   !.rutas = [r \in Routes |->
                        IF r \in Expired THEN route[r] ELSE NoRoute]])
    /\ UNCHANGED <<now, route, booking, faults>>

\* Mutant of AutoFinalizeCount: only routes that were started are finalized.
AutoFinalizeStarted(k, r) ==
    /\ At(k, "autoFinalizeExpiredRoutes", "loop")
    /\ r \in proc[k].todo
    /\ IF Pending(r) = {} /\ route[r].startedAt
       THEN Become(k, [proc[k] EXCEPT
                !.at = "saveRoute", !.r = r, !.rutas[r].estado = "FINALIZADA"])
       ELSE LoopOn(k, proc[k].todo \ {r})
    /\ UNCHANGED <<now, route, booking, faults>>

AutoFinalizeCount(k, r) ==
    /\ At(k, "autoFinalizeExpiredRoutes", "loop")
    /\ r \in proc[k].todo
    /\ IF Pending(r) = {}
       THEN Become(k, [proc[k] EXCEPT
                !.at = "saveRoute", !.r = r, !.rutas[r].estado = "FINALIZADA"])
       ELSE LoopOn(k, proc[k].todo \ {r})
    /\ UNCHANGED <<now, route, booking, faults>>

-----------------------------------------------------------------------------

Tick == now < MaxTime /\ now' = now + 1 /\ UNCHANGED <<route, booking, proc, faults>>

\* A statement throws, or the process stops: the rest of the handler is lost.
Fail(w) ==
    /\ faults < MaxFaults
    /\ proc[w].at # "idle"
    /\ Done(w)
    /\ faults' = faults + 1
    /\ UNCHANGED <<now, route, booking>>

ClientCalls(c) ==
    \E r \in Routes :
        CancelBooking(c, r) \/ \E m \in MetodoPago : CreateBooking(c, r, m)

DriverCalls(d) ==
    \E r \in Routes :
        \/ \E p \in Passengers :
                VerifyOtp(d, r, p) \/ CompleteBooking(d, r, p) \/ MarkNoShow(d, r, p)
        \/ \E t \in 0..MaxTime :
                \/ UpdateRouteSchedule(d, r, t)
                \/ \E n \in 1..MaxSeats : CreateRoute(d, r, n, t)
        \/ StartRoute(d, r) \/ CancelRoute(d, r) \/ FinalizeRoute(d, r)

\* What a handler in flight does next.
Continue(w) ==
    \/ CreateBookingTransaction(w) \/ CreateBookingRefused(w)
    \/ CancelBookingTransaction(w)
    \/ SaveBooking(w) \/ FlushBooking(w)
    \/ FinalizeIfReadyCount(w) \/ FinalizeIfReadyRead(w)
    \/ StartRouteCount(w) \/ FinalizeRouteCount(w)
    \/ SaveRoute(w) \/ FlushRoute(w) \/ CancelRouteBookings(w)
    \/ \E r \in Routes : AutoFinalizeCount(w, r)

Next ==
    \/ \E c \in Clients : ClientCalls(c)
    \/ \E d \in Drivers : DriverCalls(d)
    \/ \E k \in Crons : AutoFinalizeExpiredRoutes(k)
    \/ \E w \in Workers : Continue(w) \/ Fail(w)
    \/ Tick

Spec == Init /\ [][Next]_vars

\* The event loop resumes every handler whose statement has returned, and the
\* timer of the job fires again and again whatever the load.  Nobody is obliged
\* to call anything.
Fairness ==
    /\ \A w \in Workers : WF_vars(Continue(w))
    /\ \A k \in Crons : SF_vars(AutoFinalizeExpiredRoutes(k))

FairSpec == Spec /\ Fairness
-----------------------------------------------------------------------------
(* What the handlers promise together. *)

TypeOK ==
    /\ now \in 0..MaxTime
    /\ route \in [Routes -> RouteRow]
    /\ booking \in [Routes -> [Passengers -> BookingRow]]
    /\ proc \in [Workers -> Proc]
    /\ faults \in 0..MaxFaults

\* The passengers whose booking has taken a seat for good or for now.
Seated(r) ==
    {p \in Passengers : booking[r][p].estado \in {"CONFIRMADA", "COMPLETADA", "NO_SHOW"}}

\* Nobody holds a seat the car does not have: what ROUTE_FULL is there for.
NoOverbooking ==
    \A r \in Routes : Cardinality(Seated(r)) <= route[r].asientosTotales

\* asientosDisponibles, kept as a counter by createBookingTransaction and
\* cancelBooking, is exactly the seats nobody has taken; cancelRoute alone
\* abandons it.
SeatAccounting ==
    \A r \in Routes : route[r].estado \in {"ACTIVA", "FINALIZADA"} =>
        route[r].asientosDisponibles + Cardinality(Seated(r)) = route[r].asientosTotales

\* No passenger is left waiting for a trip that is over: a finished route has
\* no CONFIRMADA booking, and a cancelled one only until cancelRoute's second
\* UPDATE, or for ever when that was lost.
SettledRoutes ==
    \A r \in Routes : Pending(r) # {} =>
        /\ route[r].estado # "FINALIZADA"
        /\ route[r].estado = "CANCELADA" =>
              faults > 0 \/ \E d \in Drivers : At(d, "cancelRoute", "bulk") /\ proc[d].r = r

\* A booking is settled once: CANCELADA, COMPLETADA and NO_SHOW are final, a
\* used OTP stays used, a trip is only COMPLETADA with its OTP used, and
\* NO_SHOW waits for the window after departure.
BookingLifecycle ==
    [][\A r \in Routes, p \in Passengers :
        /\ booking[r][p].estado \in {"CANCELADA", "COMPLETADA", "NO_SHOW"} =>
                booking'[r][p].estado = booking[r][p].estado
        /\ booking[r][p].otpUsado => booking'[r][p].otpUsado
        /\ booking'[r][p].estado = "COMPLETADA" => booking'[r][p].otpUsado
        /\ booking[r][p].estado # "NO_SHOW" /\ booking'[r][p].estado = "NO_SHOW" =>
                now >= route[r].salida + NoShowWindow]_booking

\* ROUTE_FINALIZED: a route that has left ACTIVA is never offered again.
ClosedRoutesStayClosed ==
    [][\A r \in Routes :
        route[r].estado \in {"FINALIZADA", "CANCELADA"} =>
            route'[r].estado # "ACTIVA"]_route

\* ROUTE_START_PENDING_PASSENGERS: a route starts once, with everybody verified.
StartsWithEverybodyVerified ==
    [][\A r \in Routes : route[r].startedAt # route'[r].startedAt =>
        route'[r].startedAt /\ Unverified(r) = {}]_route

\* A route nobody waits for does not stay open after its departure: the job
\* finalizes it, even if handlers are lost.
AbandonedRoutesEnd ==
    \A r \in Routes : (r \in Expired /\ Pending(r) = {}) ~>
                        ~(r \in Expired /\ Pending(r) = {})

-----------------------------------------------------------------------------
(* Why overbooking cannot happen among handlers that do not write over what  *)
(* another has counted: the inductive invariant of ReservationsProofs.      *)

Boarding == {"verifyOtp", "completeBooking", "markNoShow"}
Rescheduling == {"startRoute", "updateRouteSchedule"}
Closing == {"completeBooking", "markNoShow", "cancelRoute", "finalizeRoute",
            "autoFinalizeExpiredRoutes"}

\* Boarding saves a booking over its cancellation; startRoute and
\* updateRouteSchedule save a route over a seat taken, or over its closing.
Conflicts == ({"cancelBooking"} \X Boarding) \cup (Rescheduling \X (Closing \cup {"createBooking"}))

\* Whoever has a seat, or may have it by the save of a copy of the booking.
Holders(r) ==
    Seated(r) \cup {p \in Passengers : \E w \in Workers :
        proc[w].at \in {"saveBooking", "flushBooking"} /\ proc[w].r = r /\ proc[w].p = p}

\* While the route is open its counter offers no seat that somebody holds, and
\* neither does a copy of it that leaves it open.
CountedRoute(r) ==
    /\ Cardinality(Holders(r)) <= route[r].asientosTotales
    /\ route[r].estado = "ACTIVA" =>
          route[r].asientosDisponibles + Cardinality(Holders(r)) <= route[r].asientosTotales
    /\ \A w \in Workers : proc[w].op \in Rescheduling /\ proc[w].r = r =>
          /\ route[r].estado = "ACTIVA" /\ proc[w].rutas[r].estado = "ACTIVA"
          /\ proc[w].rutas[r].asientosDisponibles + Cardinality(Holders(r)) <= route[r].asientosTotales
    /\ route[r].estado = "none" => \A p \in Passengers : booking[r][p].estado = "none"

\* Every other copy that is about to be saved closes the route.
RouteCopyCloses(w) ==
    LET r == proc[w].r
    IN  /\ proc[w].at \in {"reread", "saveRoute", "flushRoute"} => proc[w].op \in Closing \cup Rescheduling
        /\ proc[w].op \notin Rescheduling =>
              /\ proc[w].at \in {"saveRoute", "flushRoute"} =>
                    proc[w].rutas[r].estado \in {"FINALIZADA", "CANCELADA"}
              /\ proc[w].at = "flushRoute" /\ route[r].estado = "ACTIVA" => "estado" \in proc[w].cols
        /\ proc[w].op \in Rescheduling => proc[w].at # "reread"
        /\ proc[w].at \in {"saveRoute", "flushRoute"} \/ At(w, "finalizeRoute", "count") =>
              route[r].estado # "none"
        /\ At(w, "cancelRoute", "bulk") => route[r].estado \notin {"none", "ACTIVA"}
        /\ \A s \in proc[w].todo : route[s].estado # "none"

\* Who cancels on an open route has a seat to give back, and the booking that is
\* saved exists.
BookingCopyCounts(w) ==
    LET r == proc[w].r
        row == booking[r][proc[w].p]
    IN  /\ proc[w].op = "cancelBooking" =>
              /\ w \in Clients /\ proc[w].p = Owner[w]
              /\ \/ row.estado = "CONFIRMADA"
                 \/ row.estado = "CANCELADA" /\ route[r].estado \notin {"none", "ACTIVA"}
        /\ proc[w].at \in {"saveBooking", "flushBooking"} =>
              proc[w].op \in Boarding /\ proc[w].reserva.estado # "none" /\ row.estado # "none"

SideBySide ==
    /\ \A w \in Workers : /\ proc[w].op \in Handlers \cup {"none"}
                          /\ proc[w].op = "none" <=> proc[w].at = "idle"
    /\ \A v, w \in Busy : v # w =>
          <<proc[v].op, proc[w].op>> \in Overlap \/ <<proc[w].op, proc[v].op>> \in Overlap

CountedWhileOpen ==
    /\ \A r \in Routes : CountedRoute(r)
    /\ \A w \in Workers : RouteCopyCloses(w) /\ BookingCopyCounts(w)
    /\ SideBySide

-----------------------------------------------------------------------------
(* The seats as a passenger sees them: module SeatContract. *)

Contract == INSTANCE SeatContract WITH
    phase <- [r \in Routes |-> route[r].estado],
    capacity <- [r \in Routes |-> route[r].asientosTotales],
    seat <- [r \in Routes |-> [p \in Passengers |->
                CASE booking[r][p].estado = "none" -> "none"
                  [] booking[r][p].estado = "CONFIRMADA" -> "held"
                  [] booking[r][p].estado = "CANCELADA" -> "released"
                  [] OTHER -> "used"]]

\* The handlers, with their counter, copies and stages, do nothing but offer,
\* reserve, use, release and close as SeatContract allows.
ImplementsContract == Contract!Spec
=============================================================================
