-------------------------- MODULE ReservationsProofs --------------------------
(* Theorems about Reservations, for every value of its constants. *)
EXTENDS Reservations, FiniteSetTheorems, TLAPS

-----------------------------------------------------------------------------
(* Types. *)

LEMMA DefaultIds == AnyRoute \in Routes /\ AnyPassenger \in Passengers
  BY SetsAssumption DEF AnyRoute, AnyPassenger

LEMMA NoRowsType ==
    NoRoute \in RouteRow /\ NoRoutes \in [Routes -> RouteRow] /\ NoBooking \in BookingRow
  BY BoundsAssumption DEF NoRoute, NoRoutes, RouteRow, NoBooking, BookingRow

LEMMA IdleType == Idle \in Proc
  BY DefaultIds, NoRowsType DEF Idle, Proc, Stages

LEMMA CallType ==
    ASSUME NEW op \in Ops, NEW at \in Stages, NEW r \in Routes, NEW p \in Passengers
    PROVE  Call(op, at, r, p) \in Proc
  BY IdleType DEF Call, Proc

LEMMA RouteUpdateType ==
    ASSUME NEW copy \in RouteRow, NEW row \in RouteRow, NEW cols
    PROVE  RouteUpdate(copy, row, cols) \in RouteRow
  BY DEF RouteUpdate, RouteRow

LEMMA BookingUpdateType ==
    ASSUME NEW copy \in BookingRow, NEW row \in BookingRow, NEW cols
    PROVE  BookingUpdate(copy, row, cols) \in BookingRow
  BY DEF BookingUpdate, BookingRow

LEMMA SeatsType ==
    ASSUME NEW row \in RouteRow
    PROVE  TakeSeat(row) \in RouteRow /\ GiveBackSeat(row) \in RouteRow
  BY BoundsAssumption DEF TakeSeat, GiveBackSeat, RouteRow

LEMMA BecomeType ==
    ASSUME TypeOK, NEW w \in Workers, NEW record \in Proc, Become(w, record)
    PROVE  proc' \in [Workers -> Proc]
  BY DEF TypeOK, Become

LEMMA DoneType ==
    ASSUME TypeOK, NEW w \in Workers, Done(w)
    PROVE  proc' \in [Workers -> Proc]
  BY BecomeType, IdleType DEF Done

LEMMA InitType == Init => TypeOK
  BY NoRowsType, IdleType, BoundsAssumption DEF Init, TypeOK

LEMMA ClientCallsType ==
    ASSUME TypeOK, NEW c \in Clients, ClientCalls(c)
    PROVE  TypeOK'
<1> c \in Workers /\ Owner[c] \in Passengers
  BY SetsAssumption DEF Workers
<1>1. ASSUME NEW r \in Routes, CancelBooking(c, r)
      PROVE  TypeOK'
  <2>1. Call("cancelBooking", "tx", r, Owner[c]) \in Proc
    BY CallType DEF Ops, Stages
  <2>. QED  BY <1>1, <2>1, BecomeType DEF CancelBooking, TypeOK
<1>2. ASSUME NEW r \in Routes, NEW m \in MetodoPago, CreateBooking(c, r, m)
      PROVE  TypeOK'
  <2>1. Call("createBooking", "tx", r, Owner[c]) \in Proc
    BY CallType DEF Ops, Stages
  <2>2. [Call("createBooking", "tx", r, Owner[c]) EXCEPT !.reserva.metodoPago = m] \in Proc
    BY <2>1 DEF Proc, BookingRow
  <2>. QED  BY <1>2, <2>2, BecomeType DEF CreateBooking, TypeOK
<1>. QED  BY <1>1, <1>2 DEF ClientCalls

LEMMA DriverCallsType ==
    ASSUME TypeOK, NEW d \in Drivers, DriverCalls(d)
    PROVE  TypeOK'
<1> d \in Workers
  BY DEF Workers
<1>c. ASSUME NEW op \in {"verifyOtp", "completeBooking", "markNoShow", "updateRouteSchedule",
                         "startRoute", "cancelRoute", "finalizeRoute"},
             NEW at \in {"saveBooking", "saveRoute", "count"},
             NEW r \in Routes, NEW p \in Passengers
      PROVE  Call(op, at, r, p) \in Proc
  BY CallType DEF Ops, Stages
<1>1. ASSUME NEW r \in Routes, NEW p \in Passengers,
             VerifyOtp(d, r, p) \/ CompleteBooking(d, r, p) \/ MarkNoShow(d, r, p)
      PROVE  TypeOK'
  <2> booking[r][p] \in BookingRow
    BY DEF TypeOK
  <2>1. CASE VerifyOtp(d, r, p)
    <3>0. [booking[r][p] EXCEPT !.otpUsado = TRUE] \in BookingRow
      BY DEF BookingRow
    <3>a. Call("verifyOtp", "saveBooking", r, p) \in Proc
      BY <1>c
    <3>1. [Call("verifyOtp", "saveBooking", r, p)
             EXCEPT !.reserva = [booking[r][p] EXCEPT !.otpUsado = TRUE]] \in Proc
      BY <3>a, <3>0 DEF Proc
    <3>. QED  BY <2>1, <3>1, BecomeType DEF VerifyOtp, TypeOK
  <2>2. CASE CompleteBooking(d, r, p)
    <3>1. [Call("completeBooking", "saveBooking", r, p)
             EXCEPT !.reserva = [booking[r][p] EXCEPT !.estado = "COMPLETADA"]] \in Proc
      BY <1>c DEF Proc, BookingRow, EstadoReserva
    <3>. QED  BY <2>2, <3>1, BecomeType DEF CompleteBooking, TypeOK
  <2>3. CASE MarkNoShow(d, r, p)
    <3>1. [Call("markNoShow", "saveBooking", r, p)
             EXCEPT !.reserva = [booking[r][p] EXCEPT !.estado = "NO_SHOW"]] \in Proc
      BY <1>c DEF Proc, BookingRow, EstadoReserva
    <3>. QED  BY <2>3, <3>1, BecomeType DEF MarkNoShow, TypeOK
  <2>. QED  BY <1>1, <2>1, <2>2, <2>3
<1>2. ASSUME NEW r \in Routes, NEW t \in 0..MaxTime, UpdateRouteSchedule(d, r, t)
      PROVE  TypeOK'
  <2>1. [route[r] EXCEPT !.salida = t] \in RouteRow
    BY DEF TypeOK, RouteRow
  <2>2. [Call("updateRouteSchedule", "saveRoute", r, AnyPassenger)
           EXCEPT !.rutas[r] = [route[r] EXCEPT !.salida = t]] \in Proc
    BY <1>c, <2>1, DefaultIds, SMTT(60) DEF Proc
  <2>. QED  BY <1>2, <2>2, BecomeType DEF UpdateRouteSchedule, TypeOK
<1>3. ASSUME NEW r \in Routes, NEW t \in 0..MaxTime, NEW n \in 1..MaxSeats,
             CreateRoute(d, r, n, t)
      PROVE  TypeOK'
  <2>1. [estado |-> "ACTIVA", asientosTotales |-> n, asientosDisponibles |-> n,
         salida |-> t, startedAt |-> FALSE] \in RouteRow
    BY BoundsAssumption DEF RouteRow, EstadoRuta
  <2>. QED  BY <1>3, <2>1 DEF CreateRoute, TypeOK
<1>4. ASSUME NEW r \in Routes, StartRoute(d, r) \/ CancelRoute(d, r) \/ FinalizeRoute(d, r)
      PROVE  TypeOK'
  <2> route[r] \in RouteRow
    BY DEF TypeOK
  <2>1. CASE StartRoute(d, r)
    <3>1. [Call("startRoute", "count", r, AnyPassenger) EXCEPT !.rutas[r] = route[r]] \in Proc
      BY <1>c, DefaultIds DEF Proc
    <3>. QED  BY <2>1, <3>1, BecomeType DEF StartRoute, TypeOK
  <2>2. CASE CancelRoute(d, r)
    <3>1. [route[r] EXCEPT !.estado = "CANCELADA"] \in RouteRow
      BY DEF RouteRow, EstadoRuta
    <3>2. [Call("cancelRoute", "saveRoute", r, AnyPassenger)
             EXCEPT !.rutas[r] = [route[r] EXCEPT !.estado = "CANCELADA"]] \in Proc
      BY <1>c, <3>1, DefaultIds, SMTT(60) DEF Proc
    <3>. QED  BY <2>2, <3>2, BecomeType DEF CancelRoute, TypeOK
  <2>3. CASE FinalizeRoute(d, r)
    <3>1. [Call("finalizeRoute", "count", r, AnyPassenger) EXCEPT !.rutas[r] = route[r]] \in Proc
      BY <1>c, DefaultIds DEF Proc
    <3>. QED  BY <2>3, <3>1, BecomeType DEF FinalizeRoute, TypeOK
  <2>. QED  BY <1>4, <2>1, <2>2, <2>3
<1>. QED  BY <1>1, <1>2, <1>3, <1>4 DEF DriverCalls

LEMMA JobType ==
    ASSUME TypeOK, NEW k \in Crons, AutoFinalizeExpiredRoutes(k)
    PROVE  TypeOK'
<1> DEFINE batch == [r \in Routes |-> IF r \in Expired THEN route[r] ELSE NoRoute]
<1>1. batch \in [Routes -> RouteRow] /\ Expired \in SUBSET Routes
  BY NoRowsType DEF TypeOK, Expired
<1>2. Call("autoFinalizeExpiredRoutes", "loop", AnyRoute, AnyPassenger) \in Proc
  BY CallType, DefaultIds DEF Ops, Stages
<1>3. [Call("autoFinalizeExpiredRoutes", "loop", AnyRoute, AnyPassenger)
         EXCEPT !.todo = Expired, !.rutas = batch] \in Proc
  BY <1>1, <1>2 DEF Proc
<1>. QED  BY <1>3, BecomeType DEF AutoFinalizeExpiredRoutes, TypeOK, Workers

LEMMA LoopOnType ==
    ASSUME TypeOK, NEW w \in Workers, NEW left \in SUBSET Routes, LoopOn(w, left)
    PROVE  proc' \in [Workers -> Proc]
<1>1. [proc[w] EXCEPT !.at = "loop", !.todo = left, !.cols = {}] \in Proc
  BY DEF TypeOK, Proc, Stages
<1>. QED  BY <1>1, BecomeType, DoneType DEF LoopOn

LEMMA ContinueType ==
    ASSUME TypeOK, NEW w \in Workers, Continue(w)
    PROVE  TypeOK'
<1> DEFINE r == proc[w].r
           p == proc[w].p
<1> proc[w] \in Proc /\ r \in Routes /\ p \in Passengers
  BY DEF TypeOK, Proc
<1> route[r] \in RouteRow /\ booking[r][p] \in BookingRow /\ proc[w].rutas[r] \in RouteRow
  BY DEF TypeOK, Proc
<1> HIDE DEF r, p
<1>1. CASE CreateBookingTransaction(w)
  <2>1. [estado |-> "CONFIRMADA", otpUsado |-> FALSE,
         metodoPago |-> proc[w].reserva.metodoPago] \in BookingRow
    BY DEF Proc, BookingRow, EstadoReserva
  <2>. QED  BY <1>1, <2>1, SeatsType, DoneType DEF CreateBookingTransaction, TypeOK, r, p
<1>2. CASE CreateBookingRefused(w)
  BY <1>2, DoneType DEF CreateBookingRefused, TypeOK
<1>3. CASE CancelBookingTransaction(w)
  <2>1. [booking[r][p] EXCEPT !.estado = "CANCELADA"] \in BookingRow
    BY DEF BookingRow, EstadoReserva
  <2>. QED  BY <1>3, <2>1, SeatsType, DoneType DEF CancelBookingTransaction, TypeOK, r, p
<1>4. CASE SaveBooking(w)
  <2>1. [proc[w] EXCEPT !.at = "flushBooking",
            !.cols = BookingDiff(proc[w].reserva, booking[r][p])] \in Proc
    BY DEF Proc, Stages, BookingDiff, Columns
  <2>. QED  BY <1>4, <2>1, BecomeType DEF SaveBooking, TypeOK, r, p
<1>5. CASE FlushBooking(w)
  <2>1. BookingUpdate(proc[w].reserva, booking[r][p], proc[w].cols) \in BookingRow
    BY BookingUpdateType DEF Proc
  <2>2. proc[w].op # "none" => Call(proc[w].op, "count", r, p) \in Proc
    BY CallType DEF Proc, Stages
  <2>3. proc[w].op = "none" => Call(proc[w].op, "count", r, p) \in Proc
    BY IdleType DEF Call, Proc, Stages
  <2>4. proc' \in [Workers -> Proc]
    BY <1>5, <2>2, <2>3, BecomeType, DoneType DEF FlushBooking, r, p
  <2>. QED  BY <1>5, <2>1, <2>4 DEF FlushBooking, TypeOK, r, p
<1>6. CASE FinalizeIfReadyCount(w)
  <2>1. [proc[w] EXCEPT !.at = "reread"] \in Proc
    BY DEF Proc, Stages
  <2>. QED  BY <1>6, <2>1, BecomeType, DoneType DEF FinalizeIfReadyCount, TypeOK
<1>7. CASE FinalizeIfReadyRead(w)
  <2>1. [route[r] EXCEPT !.estado = "FINALIZADA"] \in RouteRow
    BY DEF RouteRow, EstadoRuta
  <2>2. [proc[w] EXCEPT !.at = "saveRoute",
            !.rutas[r] = [route[r] EXCEPT !.estado = "FINALIZADA"]] \in Proc
    BY <2>1 DEF Proc, Stages
  <2>. QED  BY <1>7, <2>2, BecomeType, DoneType DEF FinalizeIfReadyRead, TypeOK, r
<1>8. CASE StartRouteCount(w)
  <2>1. [proc[w].rutas[r] EXCEPT !.startedAt = TRUE] \in RouteRow
    BY DEF RouteRow
  <2>2. [proc[w] EXCEPT !.at = "saveRoute", !.rutas[r].startedAt = TRUE] \in Proc
    BY <2>1 DEF Proc, Stages
  <2>. QED  BY <1>8, <2>2, BecomeType, DoneType DEF StartRouteCount, TypeOK, r
<1>9. CASE FinalizeRouteCount(w)
  <2>1. [proc[w].rutas[r] EXCEPT !.estado = "FINALIZADA"] \in RouteRow
    BY DEF RouteRow, EstadoRuta
  <2>2. [proc[w] EXCEPT !.at = "saveRoute", !.rutas[r].estado = "FINALIZADA"] \in Proc
    BY <2>1 DEF Proc, Stages
  <2>. QED  BY <1>9, <2>2, BecomeType, DoneType DEF FinalizeRouteCount, TypeOK, r
<1>10. CASE SaveRoute(w)
  <2>1. [proc[w] EXCEPT !.at = "flushRoute",
            !.cols = RouteDiff(proc[w].rutas[r], route[r])] \in Proc
    BY DEF Proc, Stages, RouteDiff, Columns
  <2>. QED  BY <1>10, <2>1, BecomeType DEF SaveRoute, TypeOK, r
<1>11. CASE FlushRoute(w)
  <2>1. RouteUpdate(proc[w].rutas[r], route[r], proc[w].cols) \in RouteRow
    BY RouteUpdateType
  <2>2. Call("cancelRoute", "bulk", r, AnyPassenger) \in Proc
    BY CallType, DefaultIds DEF Ops, Stages
  <2>3. proc[w].todo \ {r} \in SUBSET Routes
    BY DEF Proc
  <2>4. proc' \in [Workers -> Proc]
    BY <1>11, <2>2, <2>3, BecomeType, DoneType, LoopOnType DEF FlushRoute, r
  <2>. QED  BY <1>11, <2>1, <2>4 DEF FlushRoute, TypeOK, r
<1>12. CASE CancelRouteBookings(w)
  <2>1. \A q \in Passengers : [booking[r][q] EXCEPT !.estado = "CANCELADA"] \in BookingRow
    BY DEF TypeOK, BookingRow, EstadoReserva
  <2>2. booking' \in [Routes -> [Passengers -> BookingRow]]
    BY <1>12, <2>1 DEF CancelRouteBookings, TypeOK, r
  <2>. QED  BY <1>12, <2>2, DoneType DEF CancelRouteBookings, TypeOK
<1>13. ASSUME NEW s \in Routes, AutoFinalizeCount(w, s)
       PROVE  TypeOK'
  <2>1. [proc[w].rutas[s] EXCEPT !.estado = "FINALIZADA"] \in RouteRow
    BY DEF Proc, RouteRow, EstadoRuta
  <2>2. [proc[w] EXCEPT !.at = "saveRoute", !.r = s, !.rutas[s].estado = "FINALIZADA"] \in Proc
    BY <2>1 DEF Proc, Stages
  <2>3. proc[w].todo \ {s} \in SUBSET Routes
    BY DEF Proc
  <2>. QED  BY <1>13, <2>2, <2>3, BecomeType, LoopOnType DEF AutoFinalizeCount, TypeOK
<1>. QED  BY <1>1, <1>2, <1>3, <1>4, <1>5, <1>6, <1>7, <1>8, <1>9, <1>10, <1>11,
             <1>12, <1>13 DEF Continue

LEMMA StepType == TypeOK /\ [Next]_vars => TypeOK'
<1> SUFFICES ASSUME TypeOK, [Next]_vars PROVE TypeOK'
  OBVIOUS
<1>1. ASSUME NEW w \in Workers, Fail(w) PROVE TypeOK'
  BY <1>1, DoneType, BoundsAssumption DEF Fail, TypeOK
<1>2. CASE Tick
  BY <1>2, BoundsAssumption DEF Tick, TypeOK
<1>3. CASE UNCHANGED vars
  BY <1>3 DEF vars, TypeOK
<1>. QED  BY <1>1, <1>2, <1>3, ClientCallsType, DriverCallsType, JobType, ContinueType
          DEF Next

(* Every row, local copy and stage stays in its domain, in particular        *)
(* asientosDisponibles in 0..MaxSeats: the Math.max of createBooking, the    *)
(* Math.min of cancelBooking and any write of an old copy.                   *)
THEOREM TypeCorrect == Spec => []TypeOK
  BY InitType, StepType, PTL DEF Spec

-----------------------------------------------------------------------------
(* Overbooking.  The argument: asientosDisponibles is written under the row  *)
(* lock, or by the save of a copy.  Most copies close the route; those of    *)
(* startRoute and updateRouteSchedule do not, and hold no more free seats    *)
(* than the row had when they were read.  That stays so as long as no        *)
(* createBooking takes a seat beside them, and cancelBooking gives back      *)
(* seats that no copy of a booking can take again.                           *)

(* What of Overlap the argument needs: conflicting handlers do not overlap,  *)
(* and two cancelBooking do only for different passengers.                   *)
SeatsCompose ==
    /\ \A a, b \in Handlers : <<a, b>> \in Overlap =>
          <<a, b>> \notin Conflicts /\ <<b, a>> \notin Conflicts
    /\ <<"cancelBooking", "cancelBooking">> \in Overlap =>
          \A c, d \in Clients : Owner[c] = Owner[d] => c = d

LEMMA InitCounted == Init => CountedWhileOpen
<1> SUFFICES ASSUME Init PROVE CountedWhileOpen
  OBVIOUS
<1>1. /\ \A w \in Workers : proc[w] = Idle
      /\ \A r \in Routes : route[r] = NoRoute /\ \A p \in Passengers : booking[r][p] = NoBooking
  BY DEF Init, NoRoutes
<1>2. Idle.op = "none" /\ Idle.at = "idle" /\ Idle.todo = {}
  BY DEF Idle
<1>3. ASSUME NEW r \in Routes
      PROVE  CountedRoute(r)
  <2>1. Holders(r) = {}
    BY <1>1, <1>2 DEF Holders, Seated, NoBooking
  <2>2. Cardinality(Holders(r)) = 0
    BY <2>1, FS_EmptySet
  <2>. QED  BY <1>1, <1>2, <2>2 DEF CountedRoute, NoRoute, NoBooking, Rescheduling
<1>4. ASSUME NEW w \in Workers
      PROVE  RouteCopyCloses(w) /\ BookingCopyCounts(w)
  BY <1>1, <1>2 DEF RouteCopyCloses, BookingCopyCounts, Rescheduling, At
<1>5. SideBySide
  BY <1>1, <1>2 DEF SideBySide, Busy
<1>. QED  BY <1>3, <1>4, <1>5 DEF CountedWhileOpen

(* Who is in flight beside whom. *)
LEMMA Apart ==
    ASSUME SeatsCompose, TypeOK, CountedWhileOpen, NEW v \in Workers, NEW w \in Workers,
           v # w, proc[v].op # "none", proc[w].op # "none"
    PROVE  /\ <<proc[v].op, proc[w].op>> \notin Conflicts
           /\ proc[v].op = "cancelBooking" /\ proc[w].op = "cancelBooking" => proc[v].p # proc[w].p
<1>1. /\ proc[v].op \in Handlers /\ proc[w].op \in Handlers
      /\ \/ <<proc[v].op, proc[w].op>> \in Overlap
         \/ <<proc[w].op, proc[v].op>> \in Overlap
  BY DEF CountedWhileOpen, SideBySide, Busy
<1>2. <<proc[v].op, proc[w].op>> \notin Conflicts
  BY <1>1 DEF SeatsCompose
<1>3. ASSUME proc[v].op = "cancelBooking", proc[w].op = "cancelBooking"
      PROVE  proc[v].p # proc[w].p
  <2>1. <<"cancelBooking", "cancelBooking">> \in Overlap
    BY <1>1, <1>3
  <2>2. /\ v \in Clients /\ proc[v].p = Owner[v]
        /\ w \in Clients /\ proc[w].p = Owner[w]
    BY <1>3 DEF CountedWhileOpen, BookingCopyCounts
  <2>. QED  BY <2>1, <2>2 DEF SeatsCompose
<1>. QED  BY <1>2, <1>3

-----------------------------------------------------------------------------
(* Whoever holds a seat. *)

LEMMA HoldersCount ==
    ASSUME NEW r \in Routes
    PROVE  /\ IsFiniteSet(Holders(r)) /\ Cardinality(Holders(r)) \in Nat
           /\ IsFiniteSet(Holders(r)') /\ Cardinality(Holders(r)') \in Nat
           /\ Holders(r)' \subseteq Holders(r) => Cardinality(Holders(r)') <= Cardinality(Holders(r))
<1>1. Holders(r) \subseteq Passengers /\ Holders(r)' \subseteq Passengers
  BY DEF Holders, Seated
<1>2. IsFiniteSet(Holders(r)) /\ IsFiniteSet(Holders(r)')
  BY <1>1, SetsAssumption, FS_Subset
<1>. QED  BY <1>2, FS_Subset, FS_CardinalityType

(* A step of one handler gives nobody a seat but who is in its new copy. *)
LEMMA FewerHolders ==
    ASSUME TypeOK, NEW w \in Workers, NEW record, Become(w, record), NEW r \in Routes,
           Seated(r)' \subseteq Holders(r),
           record.at \in {"saveBooking", "flushBooking"} /\ record.r = r => record.p \in Holders(r)
    PROVE  Holders(r)' \subseteq Holders(r)
<1>1. \A v \in Workers : proc'[v] = IF v = w THEN record ELSE proc[v]
  BY DEF Become, TypeOK
<1>2. ASSUME NEW p \in Passengers, NEW v \in Workers,
             proc'[v].at \in {"saveBooking", "flushBooking"}, proc'[v].r = r, proc'[v].p = p
      PROVE  p \in Holders(r)
  <2>1. CASE v = w
    BY <1>1, <1>2, <2>1
  <2>2. CASE v # w
    BY <1>1, <1>2, <2>2 DEF Holders
  <2>. QED  BY <2>1, <2>2
<1>3. ASSUME NEW p \in Holders(r)'
      PROVE  p \in Holders(r)
  BY <1>2 DEF Holders
<1>. QED  BY <1>3

-----------------------------------------------------------------------------
(* What a step leaves as it is. *)

(* No step takes a row away or opens a route that was closed. *)
RowsStay ==
    \A r \in Routes :
        /\ route[r].estado # "none" =>
              /\ route'[r].estado # "none"
              /\ route'[r].estado = "ACTIVA" => route[r].estado = "ACTIVA"
        /\ \A p \in Passengers :
              booking[r][p].estado # "none" => booking'[r][p].estado # "none"

(* Nor the seat of a passenger who is cancelling, unless the route is closed. *)
SeatStays(r, p) ==
    /\ booking[r][p].estado = "CANCELADA" => booking'[r][p].estado = "CANCELADA"
    /\ booking[r][p].estado = "CONFIRMADA" =>
          \/ booking'[r][p].estado = "CONFIRMADA"
          \/ booking'[r][p].estado = "CANCELADA" /\ route'[r].estado \notin {"none", "ACTIVA"}

(* What a copy of an open route has to find when it is saved. *)
OpenStays(r) ==
    /\ route'[r].estado = route[r].estado
    /\ route'[r].asientosTotales = route[r].asientosTotales
    /\ Holders(r)' \subseteq Holders(r)

LEMMA OthersKeep ==
    ASSUME TypeOK, CountedWhileOpen, RowsStay, NEW v \in Workers, proc'[v] = proc[v],
           proc[v].op = "cancelBooking" => SeatStays(proc[v].r, proc[v].p)
    PROVE  RouteCopyCloses(v)' /\ BookingCopyCounts(v)'
<1> DEFINE r == proc[v].r
           p == proc[v].p
<1>1. r \in Routes /\ p \in Passengers /\ proc[v].todo \subseteq Routes
  BY DEF TypeOK, Proc
<1>2. RouteCopyCloses(v) /\ BookingCopyCounts(v)
  BY DEF CountedWhileOpen
<1>3. RouteCopyCloses(v)'
  BY <1>1, <1>2 DEF RouteCopyCloses, RowsStay, At
<1>4. proc[v].op = "cancelBooking" =>
        \/ booking'[r][p].estado = "CONFIRMADA"
        \/ booking'[r][p].estado = "CANCELADA" /\ route'[r].estado \notin {"none", "ACTIVA"}
  <2>1. route[r].estado \notin {"none", "ACTIVA"} => route'[r].estado \notin {"none", "ACTIVA"}
    BY <1>1 DEF RowsStay
  <2>. QED  BY <1>2, <2>1 DEF BookingCopyCounts, SeatStays
<1>5. booking[r][p].estado # "none" => booking'[r][p].estado # "none"
  BY <1>1 DEF RowsStay
<1>6. BookingCopyCounts(v)'
  BY <1>2, <1>4, <1>5 DEF BookingCopyCounts
<1>. QED  BY <1>3, <1>6

LEMMA IdleKeeps ==
    ASSUME NEW w \in Workers, proc'[w] = Idle
    PROVE  RouteCopyCloses(w)' /\ BookingCopyCounts(w)'
BY DEF RouteCopyCloses, BookingCopyCounts, Idle, At, Rescheduling

(* A handler goes on, ends, or is called beside those it composes with. *)
GoesOn(w, record) ==
    /\ record.op = "none" <=> record.at = "idle"
    /\ record.op \in {proc[w].op, "none"} \/ Called(w, record.op)

LEMMA StaysSideBySide ==
    ASSUME TypeOK, CountedWhileOpen, NEW w \in Workers, NEW record,
           Become(w, record), GoesOn(w, record)
    PROVE  SideBySide'
<1>1. \A v \in Workers : proc'[v] = IF v = w THEN record ELSE proc[v]
  BY DEF Become, TypeOK
<1>2. SideBySide
  BY DEF CountedWhileOpen
<1>3. ASSUME NEW v \in Workers
      PROVE  /\ proc'[v].op \in Handlers \cup {"none"}
             /\ proc'[v].op = "none" <=> proc'[v].at = "idle"
  BY <1>1, <1>2 DEF SideBySide, GoesOn, Called
<1>4. ASSUME NEW v \in Workers, proc'[v].at # "idle", v # w, proc'[w].at # "idle"
      PROVE  <<proc'[v].op, proc'[w].op>> \in Overlap \/ <<proc'[w].op, proc'[v].op>> \in Overlap
  <2>1. proc'[v] = proc[v] /\ proc'[w] = record /\ v \in Busy
    BY <1>1, <1>4 DEF Busy
  <2>2. CASE Called(w, record.op)
    BY <2>1, <2>2 DEF Called
  <2>3. CASE record.op = proc[w].op
    <3>1. w \in Busy
      BY <1>2, <1>3, <1>4, <2>1, <2>3 DEF SideBySide, Busy
    <3>. QED  BY <1>2, <1>4, <2>1, <2>3, <3>1 DEF SideBySide
  <2>. QED  BY <1>3, <1>4, <2>1, <2>2, <2>3 DEF GoesOn
<1>5. ASSUME NEW u \in Workers, NEW v \in Workers, u # v,
             proc'[u].at # "idle", proc'[v].at # "idle"
      PROVE  <<proc'[u].op, proc'[v].op>> \in Overlap \/ <<proc'[v].op, proc'[u].op>> \in Overlap
  <2>1. CASE u = w \/ v = w
    BY <1>4, <1>5, <2>1
  <2>2. CASE u # w /\ v # w
    BY <1>1, <1>2, <1>5, <2>2 DEF SideBySide, Busy
  <2>. QED  BY <2>1, <2>2
<1>. QED  BY <1>3, <1>5 DEF SideBySide, Busy

(* A route that stays what it was for the copies of it. *)
LEMMA CountedStill ==
    ASSUME TypeOK, CountedWhileOpen, NEW w \in Workers, NEW record, Become(w, record),
           NEW r \in Routes, OpenStays(r),
           route'[r].asientosDisponibles = route[r].asientosDisponibles,
           \A p \in Passengers : booking[r][p].estado = "none" => booking'[r][p].estado = "none",
           record.op \in Rescheduling /\ record.r = r =>
              /\ route[r].estado = "ACTIVA" /\ record.rutas[r].estado = "ACTIVA"
              /\ record.rutas[r].asientosDisponibles + Cardinality(Holders(r)) <= route[r].asientosTotales,
           record \in Proc
    PROVE  CountedRoute(r)'
<1>1. \A v \in Workers : proc'[v] = IF v = w THEN record ELSE proc[v]
  BY DEF Become, TypeOK
<1>2. CountedRoute(r)
  BY DEF CountedWhileOpen
<1>3. /\ Cardinality(Holders(r)) \in Nat /\ Cardinality(Holders(r)') \in Nat
      /\ Cardinality(Holders(r)') <= Cardinality(Holders(r))
  BY HoldersCount DEF OpenStays
<1>4. /\ route[r].asientosTotales \in Nat /\ route[r].asientosDisponibles \in Nat
      /\ \A v \in Workers : proc'[v].rutas[r].asientosDisponibles \in Nat
  <2>1. /\ route[r] \in RouteRow /\ \A v \in Workers : proc[v].rutas[r] \in RouteRow
        /\ record.rutas[r] \in RouteRow
    BY DEF TypeOK, Proc
  <2>. QED  BY <1>1, <2>1, BoundsAssumption DEF RouteRow
<1>5. Cardinality(Holders(r)') <= route'[r].asientosTotales
  BY <1>2, <1>3, <1>4 DEF CountedRoute, OpenStays
<1>6. route'[r].estado = "ACTIVA" =>
        route'[r].asientosDisponibles + Cardinality(Holders(r)') <= route'[r].asientosTotales
  BY <1>2, <1>3, <1>4 DEF CountedRoute, OpenStays
<1>7. ASSUME NEW v \in Workers, proc'[v].op \in Rescheduling, proc'[v].r = r
      PROVE  /\ route'[r].estado = "ACTIVA" /\ proc'[v].rutas[r].estado = "ACTIVA"
             /\ proc'[v].rutas[r].asientosDisponibles + Cardinality(Holders(r)')
                  <= route'[r].asientosTotales
  <2>1. /\ route[r].estado = "ACTIVA" /\ proc'[v].rutas[r].estado = "ACTIVA"
        /\ proc'[v].rutas[r].asientosDisponibles + Cardinality(Holders(r)) <= route[r].asientosTotales
    BY <1>1, <1>2, <1>7 DEF CountedRoute
  <2>. QED  BY <1>3, <1>4, <2>1 DEF OpenStays
<1>. QED  BY <1>2, <1>5, <1>6, <1>7 DEF CountedRoute, OpenStays

(* A step of one handler, by what it leaves to the others. *)
LEMMA WriteCounts ==
    ASSUME TypeOK, CountedWhileOpen, NEW w \in Workers, NEW record,
           Become(w, record), GoesOn(w, record),
           RouteCopyCloses(w)', BookingCopyCounts(w)',
           RowsStay, \A r \in Routes : CountedRoute(r)',
           \A v \in Workers : v # w /\ proc[v].op = "cancelBooking" => SeatStays(proc[v].r, proc[v].p)
    PROVE  CountedWhileOpen'
<1>1. SideBySide'
  BY StaysSideBySide
<1>2. \A v \in Workers : v # w => proc'[v] = proc[v]
  BY DEF Become, TypeOK
<1>3. \A v \in Workers : RouteCopyCloses(v)' /\ BookingCopyCounts(v)'
  BY <1>2, OthersKeep
<1>. QED  BY <1>1, <1>3 DEF CountedWhileOpen

LEMMA SameTables ==
    ASSUME UNCHANGED <<route, booking>>
    PROVE  /\ RowsStay
           /\ \A r \in Routes : Seated(r)' = Seated(r)
           /\ \A r \in Routes, p \in Passengers : SeatStays(r, p)
  BY DEF RowsStay, SeatStays, Seated

LEMMA ReadCounts ==
    ASSUME TypeOK, CountedWhileOpen, NEW w \in Workers, NEW record,
           record \in Proc, Become(w, record), GoesOn(w, record),
           RouteCopyCloses(w)', BookingCopyCounts(w)',
           UNCHANGED <<route, booking>>,
           \A r \in Routes :
              /\ record.at \in {"saveBooking", "flushBooking"} /\ record.r = r => record.p \in Holders(r)
              /\ record.op \in Rescheduling /\ record.r = r =>
                    /\ route[r].estado = "ACTIVA" /\ record.rutas[r].estado = "ACTIVA"
                    /\ record.rutas[r].asientosDisponibles + Cardinality(Holders(r))
                          <= route[r].asientosTotales
    PROVE  CountedWhileOpen'
<1>1. ASSUME NEW r \in Routes
      PROVE  CountedRoute(r)'
  <2>1. Seated(r)' \subseteq Holders(r)
    BY SameTables DEF Holders
  <2>2. Holders(r)' \subseteq Holders(r)
    BY <2>1, FewerHolders
  <2>3. OpenStays(r)
    BY <2>2 DEF OpenStays
  <2>. QED  BY <2>3, CountedStill
<1>2. \A v \in Workers : proc[v].r \in Routes /\ proc[v].p \in Passengers
  BY DEF TypeOK, Proc
<1>. QED  BY <1>1, <1>2, SameTables, WriteCounts

LEMMA DoneGoesOn ==
    ASSUME TypeOK, NEW w \in Workers, Done(w)
    PROVE  /\ Idle \in Proc /\ Become(w, Idle) /\ GoesOn(w, Idle)
           /\ RouteCopyCloses(w)' /\ BookingCopyCounts(w)'
           /\ Idle.op \notin Rescheduling /\ Idle.at \notin {"saveBooking", "flushBooking"}
<1>1. Become(w, Idle) /\ proc'[w] = Idle
  BY DEF Done, Become, TypeOK
<1>2. Idle.op = "none" /\ Idle.at = "idle"
  BY DEF Idle
<1>. QED  BY <1>1, <1>2, IdleType, IdleKeeps DEF GoesOn, Rescheduling

LEMMA DoneCounts ==
    ASSUME TypeOK, CountedWhileOpen, NEW w \in Workers, Done(w), UNCHANGED <<route, booking>>
    PROVE  CountedWhileOpen'
  BY DoneGoesOn, ReadCounts

-----------------------------------------------------------------------------
(* The calls: each finds the route or the booking as its first read requires. *)

LEMMA ClientsCount ==
    ASSUME TypeOK, CountedWhileOpen, NEW c \in Clients, ClientCalls(c)
    PROVE  CountedWhileOpen'
<1> c \in Workers /\ Owner[c] \in Passengers
  BY SetsAssumption DEF Workers
<1>b. ASSUME NEW record, Become(c, record)
      PROVE  proc'[c] = record
  BY <1>b DEF Become, TypeOK
<1>1. ASSUME NEW r \in Routes, NEW m \in MetodoPago, CreateBooking(c, r, m)
      PROVE  CountedWhileOpen'
  <2> DEFINE record == [Call("createBooking", "tx", r, Owner[c]) EXCEPT !.reserva.metodoPago = m]
  <2>1. Become(c, record) /\ Called(c, "createBooking") /\ UNCHANGED <<route, booking>>
    BY <1>1 DEF CreateBooking
  <2>2. record.op = "createBooking" /\ record.at = "tx" /\ record.todo = {}
    BY DEF Call, Idle
  <2>3. record \in Proc
    <3>1. Call("createBooking", "tx", r, Owner[c]) \in Proc
      BY CallType DEF Ops, Stages
    <3>. QED  BY <3>1 DEF Proc, BookingRow
  <2> HIDE DEF record
  <2>4. RouteCopyCloses(c)' /\ BookingCopyCounts(c)'
    BY <1>b, <2>1, <2>2 DEF RouteCopyCloses, BookingCopyCounts, Rescheduling, At
  <2>5. GoesOn(c, record)
    BY <2>1, <2>2 DEF GoesOn
  <2>. QED  BY <2>1, <2>2, <2>3, <2>4, <2>5, ReadCounts DEF Rescheduling
<1>2. ASSUME NEW r \in Routes, CancelBooking(c, r)
      PROVE  CountedWhileOpen'
  <2> DEFINE record == Call("cancelBooking", "tx", r, Owner[c])
  <2>1. /\ Become(c, record) /\ Called(c, "cancelBooking") /\ UNCHANGED <<route, booking>>
        /\ booking[r][Owner[c]].estado = "CONFIRMADA"
    BY <1>2 DEF CancelBooking
  <2>2. /\ record.op = "cancelBooking" /\ record.at = "tx" /\ record.todo = {}
        /\ record.r = r /\ record.p = Owner[c]
    BY DEF Call, Idle
  <2>3. record \in Proc
    BY CallType DEF Ops, Stages
  <2> HIDE DEF record
  <2>4. RouteCopyCloses(c)' /\ BookingCopyCounts(c)'
    BY <1>b, <2>1, <2>2 DEF RouteCopyCloses, BookingCopyCounts, Rescheduling, At
  <2>5. GoesOn(c, record)
    BY <2>1, <2>2 DEF GoesOn
  <2>. QED  BY <2>1, <2>2, <2>3, <2>4, <2>5, ReadCounts DEF Rescheduling
<1>. QED  BY <1>1, <1>2 DEF ClientCalls

(* verifyOtp, completeBooking and markNoShow take a copy of a CONFIRMADA row. *)
LEMMA BoardingCounts ==
    ASSUME TypeOK, CountedWhileOpen, NEW d \in Drivers, NEW r \in Routes, NEW p \in Passengers,
           VerifyOtp(d, r, p) \/ CompleteBooking(d, r, p) \/ MarkNoShow(d, r, p)
    PROVE  CountedWhileOpen'
<1> d \in Workers
  BY DEF Workers
<1>1. PICK op \in Boarding, copy \in BookingRow :
          /\ Become(d, [Call(op, "saveBooking", r, p) EXCEPT !.reserva = copy])
          /\ copy.estado # "none" /\ booking[r][p].estado = "CONFIRMADA"
          /\ Called(d, op) /\ UNCHANGED <<route, booking>>
  <2> booking[r][p] \in BookingRow
    BY DEF TypeOK
  <2>1. /\ [booking[r][p] EXCEPT !.otpUsado = TRUE] \in BookingRow
        /\ [booking[r][p] EXCEPT !.otpUsado = TRUE].estado = booking[r][p].estado
    BY DEF BookingRow
  <2>2. /\ [booking[r][p] EXCEPT !.estado = "COMPLETADA"] \in BookingRow
        /\ [booking[r][p] EXCEPT !.estado = "COMPLETADA"].estado = "COMPLETADA"
    BY DEF BookingRow, EstadoReserva
  <2>3. /\ [booking[r][p] EXCEPT !.estado = "NO_SHOW"] \in BookingRow
        /\ [booking[r][p] EXCEPT !.estado = "NO_SHOW"].estado = "NO_SHOW"
    BY DEF BookingRow, EstadoReserva
  <2>. QED  BY <2>1, <2>2, <2>3 DEF VerifyOtp, CompleteBooking, MarkNoShow, Boarding
<1> DEFINE record == [Call(op, "saveBooking", r, p) EXCEPT !.reserva = copy]
<1>2. /\ record.op = op /\ record.at = "saveBooking" /\ record.todo = {}
      /\ record.r = r /\ record.p = p /\ record.reserva = copy
  BY DEF Call, Idle
<1>3. record \in Proc
  <2>1. Call(op, "saveBooking", r, p) \in Proc
    BY CallType DEF Boarding, Ops, Stages
  <2>. QED  BY <2>1 DEF Proc
<1>4. Become(d, record)
  BY <1>1
<1> HIDE DEF record
<1>5. proc'[d] = record
  BY <1>4 DEF Become, TypeOK
<1>6. op \notin Rescheduling /\ op \notin {"none", "cancelBooking", "finalizeRoute", "cancelRoute"}
  BY DEF Boarding, Rescheduling
<1>7. RouteCopyCloses(d)' /\ BookingCopyCounts(d)'
  BY <1>1, <1>2, <1>5, <1>6 DEF RouteCopyCloses, BookingCopyCounts, At
<1>8. GoesOn(d, record)
  BY <1>1, <1>2, <1>6 DEF GoesOn
<1>9. p \in Holders(r)
  BY <1>1 DEF Holders, Seated
<1>. QED  BY <1>1, <1>2, <1>3, <1>4, <1>6, <1>7, <1>8, <1>9, ReadCounts

(* The calls on a route. *)
LEMMA RouteCallsCount ==
    ASSUME TypeOK, CountedWhileOpen, NEW d \in Drivers, NEW r \in Routes,
           \/ StartRoute(d, r) \/ CancelRoute(d, r) \/ FinalizeRoute(d, r)
           \/ \E t \in 0..MaxTime : UpdateRouteSchedule(d, r, t)
    PROVE  CountedWhileOpen'
<1> d \in Workers
  BY DEF Workers
<1>0. route[r] \in RouteRow
  BY DEF TypeOK
<1>1. PICK op \in Ops, at \in Stages, copy \in RouteRow :
        /\ Become(d, [Call(op, at, r, AnyPassenger) EXCEPT !.rutas[r] = copy])
        /\ Called(d, op) /\ UNCHANGED <<route, booking>>
        /\ \/ op = "updateRouteSchedule" /\ at = "saveRoute"
           \/ op = "startRoute" /\ at = "count"
           \/ op = "cancelRoute" /\ at = "saveRoute" /\ copy.estado = "CANCELADA"
           \/ op = "finalizeRoute" /\ at = "count"
        /\ route[r].estado # "none"
        /\ op \in Rescheduling =>
              /\ route[r].estado = "ACTIVA" /\ copy.estado = "ACTIVA"
              /\ copy.asientosDisponibles = route[r].asientosDisponibles
  <2>1. ASSUME NEW t \in 0..MaxTime
        PROVE  /\ [route[r] EXCEPT !.salida = t] \in RouteRow
               /\ [route[r] EXCEPT !.salida = t].estado = route[r].estado
               /\ [route[r] EXCEPT !.salida = t].asientosDisponibles = route[r].asientosDisponibles
    BY <1>0 DEF RouteRow
  <2>2. /\ [route[r] EXCEPT !.estado = "CANCELADA"] \in RouteRow
        /\ [route[r] EXCEPT !.estado = "CANCELADA"].estado = "CANCELADA"
    BY <1>0 DEF RouteRow, EstadoRuta
  <2>3. CASE \E t \in 0..MaxTime : UpdateRouteSchedule(d, r, t)
    BY <2>1, <2>3 DEF UpdateRouteSchedule, Rescheduling, Ops, Stages
  <2>4. CASE StartRoute(d, r)
    BY <1>0, <2>4 DEF StartRoute, Rescheduling, Ops, Stages
  <2>5. CASE CancelRoute(d, r)
    BY <2>2, <2>5 DEF CancelRoute, Rescheduling, Ops, Stages
  <2>6. CASE FinalizeRoute(d, r)
    BY <1>0, <2>6 DEF FinalizeRoute, Rescheduling, Ops, Stages
  <2>. QED  BY <2>3, <2>4, <2>5, <2>6
<1> DEFINE record == [Call(op, at, r, AnyPassenger) EXCEPT !.rutas[r] = copy]
<1>2. /\ record.op = op /\ record.at = at /\ record.r = r /\ record.todo = {}
      /\ record.rutas[r] = copy
  BY DEF Call, Idle, NoRoutes
<1>3. record \in Proc
  <2>1. Call(op, at, r, AnyPassenger) \in Proc
    BY <1>1, CallType, DefaultIds DEF Ops, Stages
  <2>. QED  BY <2>1, SMTT(60) DEF Proc
<1>4. Become(d, record)
  BY <1>1
<1> HIDE DEF record
<1>5. proc'[d] = record
  BY <1>4 DEF Become, TypeOK
<1>6. RouteCopyCloses(d)' /\ BookingCopyCounts(d)'
  BY <1>1, <1>2, <1>5 DEF RouteCopyCloses, BookingCopyCounts, Rescheduling, Closing, At
<1>7. GoesOn(d, record)
  BY <1>1, <1>2 DEF GoesOn
<1>8. op \in Rescheduling =>
        copy.asientosDisponibles + Cardinality(Holders(r)) <= route[r].asientosTotales
  BY <1>1 DEF CountedWhileOpen, CountedRoute
<1>9. record.at \notin {"saveBooking", "flushBooking"}
  BY <1>1, <1>2
<1>. QED  BY <1>1, <1>2, <1>3, <1>4, <1>6, <1>7, <1>8, <1>9, ReadCounts

(* A row that is inserted has nobody on it. *)
LEMMA CreateCounts ==
    ASSUME TypeOK, CountedWhileOpen, NEW d \in Drivers, NEW r \in Routes,
           NEW n \in 1..MaxSeats, NEW t \in 0..MaxTime, CreateRoute(d, r, n, t)
    PROVE  CountedWhileOpen'
<1> DEFINE row == [estado |-> "ACTIVA", asientosTotales |-> n,
                   asientosDisponibles |-> n, salida |-> t, startedAt |-> FALSE]
<1>1. route' = [route EXCEPT ![r] = row] /\ route[r].estado = "none"
      /\ UNCHANGED <<booking, proc>>
  BY DEF CreateRoute, NoRoute
<1>2. row.estado = "ACTIVA" /\ row.asientosTotales = n /\ row.asientosDisponibles = n /\ n \in Nat
  OBVIOUS
<1> HIDE DEF row
<1>3. \A s \in Routes : route'[s] = IF s = r THEN row ELSE route[s]
  BY <1>1 DEF TypeOK
<1>4. \A s \in Routes : Holders(s)' = Holders(s)
  BY <1>1 DEF Holders, Seated
<1>5. Holders(r) = {}
  <2>1. \A p \in Passengers : booking[r][p].estado = "none"
    BY <1>1 DEF CountedWhileOpen, CountedRoute
  <2>2. \A w \in Workers : proc[w].r = r => proc[w].at \notin {"saveBooking", "flushBooking"}
    BY <2>1 DEF CountedWhileOpen, BookingCopyCounts, TypeOK, Proc
  <2>. QED  BY <2>1, <2>2 DEF Holders, Seated
<1>6. ASSUME NEW s \in Routes
      PROVE  CountedRoute(s)'
  <2>1. CASE s = r
    <3>1. Cardinality(Holders(s)') = 0
      BY <1>4, <1>5, <2>1, FS_EmptySet
    <3>2. \A w \in Workers : ~(proc[w].op \in Rescheduling /\ proc[w].r = r)
      BY <1>1 DEF CountedWhileOpen, CountedRoute
    <3>. QED  BY <1>1, <1>2, <1>3, <2>1, <3>1, <3>2 DEF CountedRoute
  <2>2. CASE s # r
    <3>1. Cardinality(Holders(s)') = Cardinality(Holders(s))
      BY <1>4
    <3>. QED  BY <1>1, <1>3, <2>2, <3>1 DEF CountedWhileOpen, CountedRoute
  <2>. QED  BY <2>1, <2>2
<1>7. RowsStay
  BY <1>1, <1>3 DEF RowsStay
<1>8. ASSUME NEW v \in Workers
      PROVE  RouteCopyCloses(v)' /\ BookingCopyCounts(v)'
  BY <1>1, <1>7, OthersKeep, <1>8 DEF SeatStays, CountedWhileOpen, BookingCopyCounts
<1>9. SideBySide'
  BY <1>1 DEF CountedWhileOpen, SideBySide, Busy
<1>. QED  BY <1>6, <1>8, <1>9 DEF CountedWhileOpen

(* The job reads every expired route at once, and closes them one by one. *)
LEMMA JobCounts ==
    ASSUME TypeOK, CountedWhileOpen, NEW k \in Crons, AutoFinalizeExpiredRoutes(k)
    PROVE  CountedWhileOpen'
<1> k \in Workers
  BY DEF Workers
<1> DEFINE batch == [r \in Routes |-> IF r \in Expired THEN route[r] ELSE NoRoute]
           record == [Call("autoFinalizeExpiredRoutes", "loop", AnyRoute, AnyPassenger)
                        EXCEPT !.todo = Expired, !.rutas = batch]
<1>1. /\ Become(k, record) /\ Called(k, "autoFinalizeExpiredRoutes")
      /\ UNCHANGED <<route, booking>>
  BY DEF AutoFinalizeExpiredRoutes
<1>2. /\ record.op = "autoFinalizeExpiredRoutes" /\ record.at = "loop"
      /\ record.todo = Expired
  BY DEF Call, Idle
<1>3. record \in Proc
  <2>1. batch \in [Routes -> RouteRow] /\ Expired \in SUBSET Routes
    BY NoRowsType DEF TypeOK, Expired
  <2>2. Call("autoFinalizeExpiredRoutes", "loop", AnyRoute, AnyPassenger) \in Proc
    BY CallType, DefaultIds DEF Ops, Stages
  <2>. QED  BY <2>1, <2>2 DEF Proc
<1> HIDE DEF record
<1>4. proc'[k] = record
  BY <1>1 DEF Become, TypeOK
<1>5. RouteCopyCloses(k)' /\ BookingCopyCounts(k)'
  BY <1>1, <1>2, <1>4 DEF RouteCopyCloses, BookingCopyCounts, Rescheduling, Expired, At
<1>6. GoesOn(k, record)
  BY <1>1, <1>2 DEF GoesOn
<1>. QED  BY <1>1, <1>2, <1>3, <1>5, <1>6, ReadCounts DEF Rescheduling

LEMMA CallsCounted ==
    ASSUME TypeOK, CountedWhileOpen,
           \/ \E c \in Clients : ClientCalls(c)
           \/ \E d \in Drivers : DriverCalls(d)
           \/ \E k \in Crons : AutoFinalizeExpiredRoutes(k)
    PROVE  CountedWhileOpen'
  BY ClientsCount, BoardingCounts, RouteCallsCount, CreateCounts, JobCounts DEF DriverCalls

-----------------------------------------------------------------------------
(* The statements that only read. *)

LEMMA ReadsCount ==
    ASSUME TypeOK, CountedWhileOpen, NEW w \in Workers,
           \/ CreateBookingRefused(w) \/ SaveBooking(w)
           \/ FinalizeIfReadyCount(w) \/ FinalizeIfReadyRead(w)
           \/ StartRouteCount(w) \/ FinalizeRouteCount(w) \/ SaveRoute(w)
           \/ \E s \in Routes : AutoFinalizeCount(w, s)
    PROVE  CountedWhileOpen'
<1> DEFINE r == proc[w].r
           p == proc[w].p
<1> proc[w] \in Proc /\ r \in Routes /\ p \in Passengers
  BY DEF TypeOK, Proc
<1> route[r] \in RouteRow /\ booking[r][p] \in BookingRow /\ proc[w].rutas[r] \in RouteRow
  BY DEF TypeOK, Proc
<1>w. /\ RouteCopyCloses(w) /\ BookingCopyCounts(w) /\ CountedRoute(r)
      /\ proc[w].op = "none" <=> proc[w].at = "idle"
  BY DEF CountedWhileOpen, SideBySide
<1>r. proc[w].op \in Rescheduling =>
        /\ route[r].estado = "ACTIVA" /\ proc[w].rutas[r].estado = "ACTIVA"
        /\ proc[w].rutas[r].asientosDisponibles + Cardinality(Holders(r)) <= route[r].asientosTotales
  BY <1>w DEF CountedRoute, r
<1> HIDE DEF r, p
<1>b. ASSUME NEW record, Become(w, record)
      PROVE  proc'[w] = record
  BY <1>b DEF Become, TypeOK
<1>d. ASSUME Done(w), UNCHANGED <<route, booking>>
      PROVE  CountedWhileOpen'
  BY <1>d, DoneCounts
<1>1. CASE CreateBookingRefused(w)
  BY <1>1, <1>d DEF CreateBookingRefused
<1>2. CASE SaveBooking(w)
  <2> DEFINE record == [proc[w] EXCEPT !.at = "flushBooking",
                           !.cols = BookingDiff(proc[w].reserva, booking[r][p])]
  <2>1. Become(w, record) /\ UNCHANGED <<route, booking>> /\ proc[w].at = "saveBooking"
    BY <1>2 DEF SaveBooking, r, p
  <2>2. /\ record.at = "flushBooking" /\ record.op = proc[w].op
        /\ record.r = r /\ record.p = p /\ record.todo = proc[w].todo
        /\ record.reserva = proc[w].reserva /\ record.rutas = proc[w].rutas
    BY DEF Proc, r, p
  <2>3. record \in Proc
    BY DEF Proc, Stages, BookingDiff, Columns
  <2> HIDE DEF record
  <2>4. proc[w].op \in Boarding
    BY <1>w, <2>1 DEF BookingCopyCounts
  <2>5. RouteCopyCloses(w)' /\ BookingCopyCounts(w)'
    BY <1>b, <1>w, <2>1, <2>2, <2>4 DEF RouteCopyCloses, BookingCopyCounts, Boarding, Rescheduling, At, r, p
  <2>6. GoesOn(w, record)
    BY <1>w, <2>1, <2>2 DEF GoesOn
  <2>7. p \in Holders(r)
    BY <2>1 DEF Holders, r, p
  <2>. QED  BY <1>r, <2>1, <2>2, <2>3, <2>5, <2>6, <2>7, ReadCounts
<1>3. CASE FinalizeIfReadyCount(w)
  <2> DEFINE record == [proc[w] EXCEPT !.at = "reread"]
  <2>1. /\ record.at = "reread" /\ record.op = proc[w].op /\ record.todo = proc[w].todo
    BY DEF Proc
  <2>2. /\ UNCHANGED <<route, booking>> /\ (Become(w, record) \/ Done(w))
        /\ proc[w].op \in {"completeBooking", "markNoShow"}
    BY <1>3 DEF FinalizeIfReadyCount
  <2>3. record \in Proc
    BY DEF Proc, Stages
  <2> HIDE DEF record
  <2>4. ASSUME Become(w, record)
        PROVE  RouteCopyCloses(w)' /\ BookingCopyCounts(w)'
    BY <1>b, <1>w, <2>1, <2>2, <2>4
       DEF RouteCopyCloses, BookingCopyCounts, Closing, Rescheduling, At
  <2>5. GoesOn(w, record)
    BY <1>w, <2>1, <2>2 DEF GoesOn
  <2>. QED  BY <1>d, <2>1, <2>2, <2>3, <2>4, <2>5, ReadCounts DEF Rescheduling
<1>4. CASE FinalizeIfReadyRead(w)
  <2> DEFINE copy == [route[r] EXCEPT !.estado = "FINALIZADA"]
             record == [proc[w] EXCEPT !.at = "saveRoute", !.rutas[r] = copy]
  <2>1. /\ record.at = "saveRoute" /\ record.op = proc[w].op /\ record.todo = proc[w].todo
        /\ record.r = r /\ record.rutas[r] = copy
    BY DEF Proc, r
  <2>2. copy.estado = "FINALIZADA" /\ copy \in RouteRow
    BY DEF RouteRow, EstadoRuta
  <2>3. /\ UNCHANGED <<route, booking>> /\ proc[w].at = "reread"
        /\ Done(w) \/ (route[r].estado = "ACTIVA" /\ Become(w, record))
    BY <1>4 DEF FinalizeIfReadyRead, r
  <2>4. record \in Proc
    BY <2>2 DEF Proc, Stages
  <2> HIDE DEF record, copy
  <2>5. proc[w].op \in Closing /\ proc[w].op \notin Rescheduling
    BY <1>w, <2>3 DEF RouteCopyCloses
  <2>6. ASSUME Become(w, record), route[r].estado = "ACTIVA"
        PROVE  RouteCopyCloses(w)' /\ BookingCopyCounts(w)'
    BY <1>b, <1>w, <2>1, <2>2, <2>3, <2>5, <2>6
       DEF RouteCopyCloses, BookingCopyCounts, Closing, At
  <2>7. GoesOn(w, record)
    BY <1>w, <2>1, <2>3 DEF GoesOn
  <2>. QED  BY <1>d, <2>1, <2>3, <2>4, <2>5, <2>6, <2>7, ReadCounts
<1>5. CASE StartRouteCount(w)
  <2> DEFINE record == [proc[w] EXCEPT !.at = "saveRoute", !.rutas[r].startedAt = TRUE]
  <2>1. /\ record.at = "saveRoute" /\ record.op = proc[w].op /\ record.todo = proc[w].todo
        /\ record.r = r /\ record.rutas[r].estado = proc[w].rutas[r].estado
        /\ record.rutas[r].asientosDisponibles = proc[w].rutas[r].asientosDisponibles
    BY DEF Proc, RouteRow, r
  <2>2. /\ UNCHANGED <<route, booking>> /\ (Done(w) \/ Become(w, record))
        /\ proc[w].op = "startRoute" /\ proc[w].at = "count"
    BY <1>5 DEF StartRouteCount, At, r
  <2>3. record \in Proc
    <3>1. [proc[w].rutas[r] EXCEPT !.startedAt = TRUE] \in RouteRow
      BY DEF RouteRow
    <3>. QED  BY <3>1 DEF Proc, Stages
  <2> HIDE DEF record
  <2>4. ASSUME Become(w, record)
        PROVE  RouteCopyCloses(w)' /\ BookingCopyCounts(w)'
    BY <1>b, <1>r, <1>w, <2>1, <2>2, <2>4
       DEF RouteCopyCloses, BookingCopyCounts, Rescheduling, At
  <2>5. GoesOn(w, record)
    BY <1>w, <2>1, <2>2 DEF GoesOn
  <2>. QED  BY <1>d, <1>r, <2>1, <2>2, <2>3, <2>4, <2>5, ReadCounts DEF Rescheduling
<1>6. CASE FinalizeRouteCount(w)
  <2> DEFINE record == [proc[w] EXCEPT !.at = "saveRoute", !.rutas[r].estado = "FINALIZADA"]
  <2>1. /\ record.at = "saveRoute" /\ record.op = proc[w].op /\ record.todo = proc[w].todo
        /\ record.r = r /\ record.rutas[r].estado = "FINALIZADA"
    BY DEF Proc, RouteRow, r
  <2>2. /\ UNCHANGED <<route, booking>> /\ (Done(w) \/ Become(w, record))
        /\ proc[w].op = "finalizeRoute" /\ proc[w].at = "count"
    BY <1>6 DEF FinalizeRouteCount, At, r
  <2>3. record \in Proc
    <3>1. [proc[w].rutas[r] EXCEPT !.estado = "FINALIZADA"] \in RouteRow
      BY DEF RouteRow, EstadoRuta
    <3>. QED  BY <3>1 DEF Proc, Stages
  <2> HIDE DEF record
  <2>4. ASSUME Become(w, record)
        PROVE  RouteCopyCloses(w)' /\ BookingCopyCounts(w)'
    BY <1>b, <1>w, <2>1, <2>2, <2>4
       DEF RouteCopyCloses, BookingCopyCounts, Closing, Rescheduling, At, r
  <2>5. GoesOn(w, record)
    BY <1>w, <2>1, <2>2 DEF GoesOn
  <2>. QED  BY <1>d, <2>1, <2>2, <2>3, <2>4, <2>5, ReadCounts DEF Rescheduling
<1>7. CASE SaveRoute(w)
  <2> DEFINE record == [proc[w] EXCEPT !.at = "flushRoute",
                           !.cols = RouteDiff(proc[w].rutas[r], route[r])]
  <2>1. /\ record.at = "flushRoute" /\ record.op = proc[w].op /\ record.todo = proc[w].todo
        /\ record.r = r /\ record.rutas = proc[w].rutas
        /\ record.cols = RouteDiff(proc[w].rutas[r], route[r])
    BY DEF Proc, r
  <2>2. Become(w, record) /\ UNCHANGED <<route, booking>> /\ proc[w].at = "saveRoute"
    BY <1>7 DEF SaveRoute, r
  <2>3. proc[w].rutas[r].estado # route[r].estado => "estado" \in record.cols
    <3>1. proc[w].rutas[r]["estado"] = proc[w].rutas[r].estado
          /\ route[r]["estado"] = route[r].estado
      OBVIOUS
    <3>. QED  BY <2>1, <3>1 DEF RouteDiff
  <2>4. record \in Proc
    BY DEF Proc, Stages, RouteDiff, Columns
  <2> HIDE DEF record
  <2>c. proc[w].op # "cancelBooking"
    BY <1>w, <2>2 DEF RouteCopyCloses, Closing, Rescheduling
  <2>5. RouteCopyCloses(w)' /\ BookingCopyCounts(w)'
    BY <1>b, <1>w, <2>1, <2>2, <2>3, <2>c DEF RouteCopyCloses, BookingCopyCounts, At, r
  <2>6. GoesOn(w, record)
    BY <1>w, <2>1, <2>2 DEF GoesOn
  <2>. QED  BY <1>r, <2>1, <2>2, <2>4, <2>5, <2>6, ReadCounts
<1>8. ASSUME NEW s \in Routes, AutoFinalizeCount(w, s)
      PROVE  CountedWhileOpen'
  <2> DEFINE save == [proc[w] EXCEPT !.at = "saveRoute", !.r = s, !.rutas[s].estado = "FINALIZADA"]
             loop == [proc[w] EXCEPT !.at = "loop", !.todo = proc[w].todo \ {s}, !.cols = {}]
  <2>1. /\ save.at = "saveRoute" /\ save.op = proc[w].op /\ save.todo = proc[w].todo
        /\ save.r = s /\ save.rutas[s].estado = "FINALIZADA"
    BY DEF Proc, RouteRow
  <2>2. loop.at = "loop" /\ loop.op = proc[w].op /\ loop.todo = proc[w].todo \ {s}
    BY DEF Proc
  <2>3. /\ UNCHANGED <<route, booking>> /\ s \in proc[w].todo
        /\ Done(w) \/ Become(w, save) \/ Become(w, loop)
        /\ proc[w].op = "autoFinalizeExpiredRoutes" /\ proc[w].at = "loop"
    BY <1>8 DEF AutoFinalizeCount, LoopOn, At
  <2>4. save \in Proc /\ loop \in Proc
    <3>1. [proc[w].rutas[s] EXCEPT !.estado = "FINALIZADA"] \in RouteRow
      BY DEF Proc, RouteRow, EstadoRuta
    <3>. QED  BY <3>1 DEF Proc, Stages
  <2> HIDE DEF save, loop
  <2>5. ASSUME Become(w, save)
        PROVE  RouteCopyCloses(w)' /\ BookingCopyCounts(w)'
    BY <1>b, <1>w, <2>1, <2>3, <2>5
       DEF RouteCopyCloses, BookingCopyCounts, Closing, Rescheduling, At
  <2>6. ASSUME Become(w, loop)
        PROVE  RouteCopyCloses(w)' /\ BookingCopyCounts(w)'
    BY <1>b, <1>w, <2>2, <2>3, <2>6
       DEF RouteCopyCloses, BookingCopyCounts, Closing, Rescheduling, At
  <2>7. GoesOn(w, save) /\ GoesOn(w, loop)
    BY <1>w, <2>1, <2>2, <2>3 DEF GoesOn
  <2>8. CASE Become(w, save)
    BY <2>1, <2>3, <2>4, <2>5, <2>7, <2>8, ReadCounts DEF Rescheduling
  <2>9. CASE Become(w, loop)
    BY <2>2, <2>3, <2>4, <2>6, <2>7, <2>9, ReadCounts DEF Rescheduling
  <2>. QED  BY <1>d, <2>3, <2>8, <2>9
<1>. QED  BY <1>1, <1>2, <1>3, <1>4, <1>5, <1>6, <1>7, <1>8

-----------------------------------------------------------------------------
(* The statements that write. *)

(* Taking a seat: no copy of the route is in flight that leaves it open. *)
LEMMA SeatTaken ==
    ASSUME SeatsCompose, TypeOK, CountedWhileOpen, NEW w \in Workers,
           CreateBookingTransaction(w)
    PROVE  CountedWhileOpen' /\ RowsStay
<1>1. PICK r \in Routes, p \in Passengers, new \in BookingRow :
        /\ BookingAllowed(r, p) /\ new.estado = "CONFIRMADA"
        /\ booking' = [booking EXCEPT ![r][p] = new]
        /\ route' = [route EXCEPT ![r] = TakeSeat(@)]
  <2>1. [estado |-> "CONFIRMADA", otpUsado |-> FALSE,
         metodoPago |-> proc[w].reserva.metodoPago] \in BookingRow
    BY DEF TypeOK, Proc, BookingRow, EstadoReserva
  <2>2. proc[w].r \in Routes /\ proc[w].p \in Passengers
    BY DEF TypeOK, Proc
  <2>. QED  BY <2>1, <2>2 DEF CreateBookingTransaction
<1>2. Done(w) /\ proc[w].op = "createBooking"
  BY DEF CreateBookingTransaction, At
<1>3. /\ route[r].estado = "ACTIVA" /\ route[r].asientosDisponibles > 0
      /\ booking[r][p].estado = "none" /\ route[r] \in RouteRow
  BY <1>1 DEF BookingAllowed, RouteIsBookable, NoBooking, TypeOK
<1>4. route[r].asientosTotales \in Nat /\ route[r].asientosDisponibles \in Nat
  BY <1>3, BoundsAssumption DEF RouteRow
<1>5. /\ route'[r].estado = "ACTIVA"
      /\ route'[r].asientosTotales = route[r].asientosTotales
      /\ route'[r].asientosDisponibles = route[r].asientosDisponibles - 1
      /\ \A s \in Routes : s # r => route'[s] = route[s]
  BY <1>1, <1>3, <1>4 DEF TakeSeat, RouteRow, TypeOK
<1>6. \A s \in Routes, q \in Passengers :
        booking'[s][q] = IF s = r /\ q = p THEN new ELSE booking[s][q]
  BY <1>1 DEF TypeOK
<1>7. RowsStay
  BY <1>1, <1>3, <1>5, <1>6 DEF RowsStay
<1>8. Become(w, Idle) /\ GoesOn(w, Idle) /\ RouteCopyCloses(w)' /\ BookingCopyCounts(w)'
      /\ Idle \in Proc /\ Idle.op \notin Rescheduling /\ Idle.at \notin {"saveBooking", "flushBooking"}
  BY <1>2, DoneGoesOn
<1>9. \A v \in Workers : proc'[v] = IF v = w THEN Idle ELSE proc[v]
  BY <1>8 DEF Become, TypeOK
<1>10. \A v \in Workers : v # w => proc[v].op \notin Rescheduling
  <2>1. ASSUME NEW v \in Workers, v # w, proc[v].op \in Rescheduling
        PROVE  FALSE
    BY <1>2, <2>1, Apart DEF Conflicts, Rescheduling
  <2>. QED  BY <2>1
<1>11. CountedRoute(r)'
  <2>1. Holders(r)' \subseteq Holders(r) \cup {p}
    <3>1. \A q \in Passengers : q # p => booking'[r][q] = booking[r][q]
      BY <1>6
    <3>. QED  BY <1>8, <1>9, <3>1 DEF Holders, Seated
  <2>2. /\ Cardinality(Holders(r)') <= Cardinality(Holders(r)) + 1
        /\ Cardinality(Holders(r)') \in Nat /\ Cardinality(Holders(r)) \in Nat
    <3>1. IsFiniteSet(Holders(r)) /\ Cardinality(Holders(r)) \in Nat
          /\ Cardinality(Holders(r)') \in Nat
      BY HoldersCount
    <3>2. IsFiniteSet(Holders(r) \cup {p})
          /\ \/ Cardinality(Holders(r) \cup {p}) = Cardinality(Holders(r))
             \/ Cardinality(Holders(r) \cup {p}) = Cardinality(Holders(r)) + 1
      BY <3>1, FS_AddElement
    <3>3. Cardinality(Holders(r)') <= Cardinality(Holders(r) \cup {p})
          /\ Cardinality(Holders(r) \cup {p}) \in Nat
      BY <2>1, <3>2, FS_Subset, FS_CardinalityType
    <3>. QED  BY <3>1, <3>2, <3>3
  <2>3. route[r].asientosDisponibles + Cardinality(Holders(r)) <= route[r].asientosTotales
    BY <1>3 DEF CountedWhileOpen, CountedRoute
  <2>4. /\ Cardinality(Holders(r)') <= route'[r].asientosTotales
        /\ route'[r].asientosDisponibles + Cardinality(Holders(r)') <= route'[r].asientosTotales
    BY <1>3, <1>4, <1>5, <2>2, <2>3
  <2>5. \A v \in Workers : proc'[v].op \notin Rescheduling
    BY <1>8, <1>9, <1>10
  <2>. QED  BY <1>5, <2>4, <2>5 DEF CountedRoute
<1>12. ASSUME NEW s \in Routes, s # r
       PROVE  CountedRoute(s)'
  <2>1. route'[s] = route[s] /\ \A q \in Passengers : booking'[s][q] = booking[s][q]
    BY <1>5, <1>6, <1>12
  <2>2. Seated(s)' \subseteq Holders(s)
    BY <2>1 DEF Holders, Seated
  <2>3. OpenStays(s)
    BY <1>8, <2>1, <2>2, FewerHolders DEF OpenStays
  <2>. QED  BY <1>8, <2>1, <2>3, CountedStill
<1>13. \A v \in Workers : proc[v].op = "cancelBooking" => SeatStays(proc[v].r, proc[v].p)
  <2>1. ASSUME NEW v \in Workers, proc[v].op = "cancelBooking"
        PROVE  booking'[proc[v].r][proc[v].p] = booking[proc[v].r][proc[v].p]
    <3>1. booking[proc[v].r][proc[v].p].estado # "none"
      BY <2>1 DEF CountedWhileOpen, BookingCopyCounts
    <3>2. proc[v].r \in Routes /\ proc[v].p \in Passengers
      BY DEF TypeOK, Proc
    <3>. QED  BY <1>3, <1>6, <3>1, <3>2
  <2>. QED  BY <2>1 DEF SeatStays
<1>14. \A s \in Routes : CountedRoute(s)'
  BY <1>11, <1>12
<1>. QED  BY <1>7, <1>8, <1>13, <1>14, WriteCounts

(* Giving a seat back: no copy of the booking is in flight that could take it *)
(* again, and nobody else cancels this booking.                               *)
LEMMA SeatGivenBack ==
    ASSUME SeatsCompose, TypeOK, CountedWhileOpen, NEW w \in Workers,
           CancelBookingTransaction(w)
    PROVE  CountedWhileOpen' /\ RowsStay
<1>1. PICK r \in Routes, p \in Passengers :
        /\ proc[w].r = r /\ proc[w].p = p
        /\ booking' = [booking EXCEPT ![r][p].estado = "CANCELADA"]
        /\ route' = [route EXCEPT ![r] = GiveBackSeat(@)]
  BY DEF CancelBookingTransaction, TypeOK, Proc
<1>2. Done(w) /\ proc[w].op = "cancelBooking"
  BY DEF CancelBookingTransaction, At
<1>3. route[r] \in RouteRow /\ booking[r][p] \in BookingRow /\ CountedRoute(r)
  BY DEF CountedWhileOpen, TypeOK
<1>4. /\ route[r].asientosTotales \in Nat /\ route[r].asientosDisponibles \in Nat
      /\ route[r].asientosDisponibles <= MaxSeats /\ route[r].asientosTotales <= MaxSeats
  BY <1>3, BoundsAssumption DEF RouteRow
<1>5. /\ route'[r].estado = route[r].estado
      /\ route'[r].asientosTotales = route[r].asientosTotales
      /\ \/ route'[r].asientosDisponibles = route[r].asientosDisponibles + 1
         \/ route'[r].asientosDisponibles = route[r].asientosTotales
            /\ route[r].asientosTotales <= route[r].asientosDisponibles + 1
      /\ \A s \in Routes : s # r => route'[s] = route[s]
  BY <1>1, <1>3, <1>4 DEF GiveBackSeat, RouteRow, TypeOK
<1>6. /\ booking'[r][p].estado = "CANCELADA"
      /\ \A s \in Routes, q \in Passengers : s # r \/ q # p => booking'[s][q] = booking[s][q]
  BY <1>1, <1>3 DEF BookingRow, TypeOK
<1>7. \/ booking[r][p].estado = "CONFIRMADA"
      \/ booking[r][p].estado = "CANCELADA" /\ route[r].estado \notin {"none", "ACTIVA"}
  BY <1>1, <1>2 DEF CountedWhileOpen, BookingCopyCounts
<1>8. Become(w, Idle) /\ GoesOn(w, Idle) /\ RouteCopyCloses(w)' /\ BookingCopyCounts(w)'
      /\ Idle \in Proc /\ Idle.op \notin Rescheduling /\ Idle.at \notin {"saveBooking", "flushBooking"}
  BY <1>2, DoneGoesOn
<1>9. \A v \in Workers : proc'[v] = IF v = w THEN Idle ELSE proc[v]
  BY <1>8 DEF Become, TypeOK
<1>10. RowsStay
  BY <1>5, <1>6, <1>7 DEF RowsStay
<1>11. ASSUME NEW v \in Workers, v # w, proc[v].op # "none"
       PROVE  /\ proc[v].op \notin Boarding
              /\ proc[v].op = "cancelBooking" => proc[v].p # p
  BY <1>1, <1>2, <1>11, Apart DEF Conflicts
<1>12. \A v \in Workers : proc[v].at \notin {"saveBooking", "flushBooking"}
  <2>1. ASSUME NEW v \in Workers, proc[v].at \in {"saveBooking", "flushBooking"}
        PROVE  FALSE
    <3>1. proc[v].op \in Boarding
      BY <2>1 DEF CountedWhileOpen, BookingCopyCounts
    <3>. QED  BY <1>2, <1>11, <3>1 DEF Boarding
  <2>. QED  BY <2>1
<1>13. Holders(r) = Seated(r) /\ Holders(r)' = Seated(r)'
  <2>1. \A v \in Workers : proc'[v].at \notin {"saveBooking", "flushBooking"}
    BY <1>8, <1>9, <1>12
  <2>. QED  BY <1>12, <2>1 DEF Holders
<1>14. Holders(r)' = Holders(r) \ {p}
  <2>1. \A q \in Passengers : q # p => booking'[r][q] = booking[r][q]
    BY <1>6
  <2>. QED  BY <1>6, <1>13, <2>1 DEF Seated
<1>15. /\ Cardinality(Holders(r)) \in Nat /\ Cardinality(Holders(r)') \in Nat
       /\ Cardinality(Holders(r)') <= Cardinality(Holders(r))
       /\ p \in Holders(r) => Cardinality(Holders(r)') = Cardinality(Holders(r)) - 1
  <2>1. /\ IsFiniteSet(Holders(r)) /\ Cardinality(Holders(r)) \in Nat
        /\ Cardinality(Holders(r)') \in Nat
        /\ Holders(r)' \subseteq Holders(r) => Cardinality(Holders(r)') <= Cardinality(Holders(r))
    BY HoldersCount
  <2>2. Cardinality(Holders(r) \ {p}) =
          IF p \in Holders(r) THEN Cardinality(Holders(r)) - 1 ELSE Cardinality(Holders(r))
    BY <2>1, FS_RemoveElement
  <2>. QED  BY <1>14, <2>1, <2>2
<1>16. CountedRoute(r)'
  <2>1. Cardinality(Holders(r)') <= route'[r].asientosTotales
    BY <1>3, <1>4, <1>5, <1>15 DEF CountedRoute
  <2>2. ASSUME route'[r].estado = "ACTIVA"
        PROVE  route'[r].asientosDisponibles + Cardinality(Holders(r)') <= route'[r].asientosTotales
    <3>1. p \in Holders(r)
      BY <1>5, <1>7, <2>2 DEF Holders, Seated
    <3>2. route[r].asientosDisponibles + Cardinality(Holders(r)) <= route[r].asientosTotales
      BY <1>3, <1>5, <2>2 DEF CountedRoute
    <3>3. CASE route'[r].asientosDisponibles = route[r].asientosDisponibles + 1
      BY <1>4, <1>5, <1>15, <3>1, <3>2, <3>3
    <3>4. CASE /\ route'[r].asientosDisponibles = route[r].asientosTotales
               /\ route[r].asientosTotales <= route[r].asientosDisponibles + 1
      BY <1>4, <1>5, <1>15, <3>1, <3>2, <3>4
    <3>. QED  BY <1>5, <3>3, <3>4
  <2>3. ASSUME NEW v \in Workers, proc'[v].op \in Rescheduling, proc'[v].r = r
        PROVE  /\ route'[r].estado = "ACTIVA" /\ proc'[v].rutas[r].estado = "ACTIVA"
               /\ proc'[v].rutas[r].asientosDisponibles + Cardinality(Holders(r)')
                    <= route'[r].asientosTotales
    <3>1. proc'[v] = proc[v]
      BY <1>8, <1>9, <2>3
    <3>2. /\ route[r].estado = "ACTIVA" /\ proc[v].rutas[r].estado = "ACTIVA"
          /\ proc[v].rutas[r].asientosDisponibles + Cardinality(Holders(r)) <= route[r].asientosTotales
      BY <1>3, <2>3, <3>1 DEF CountedRoute
    <3>3. proc[v].rutas[r].asientosDisponibles \in Nat
      BY BoundsAssumption DEF TypeOK, Proc, RouteRow
    <3>. QED  BY <1>4, <1>5, <1>15, <3>1, <3>2, <3>3
  <2>4. route'[r].estado # "none"
    BY <1>3, <1>5, <1>7 DEF CountedRoute
  <2>. QED  BY <2>1, <2>2, <2>3, <2>4 DEF CountedRoute
<1>17. ASSUME NEW s \in Routes, s # r
       PROVE  CountedRoute(s)'
  <2>1. route'[s] = route[s] /\ \A q \in Passengers : booking'[s][q] = booking[s][q]
    BY <1>5, <1>6, <1>17
  <2>2. Seated(s)' \subseteq Holders(s)
    BY <2>1 DEF Holders, Seated
  <2>3. OpenStays(s)
    BY <1>8, <2>1, <2>2, FewerHolders DEF OpenStays
  <2>. QED  BY <1>8, <2>1, <2>3, CountedStill
<1>18. \A v \in Workers : v # w /\ proc[v].op = "cancelBooking" => SeatStays(proc[v].r, proc[v].p)
  <2>1. ASSUME NEW v \in Workers, v # w, proc[v].op = "cancelBooking"
        PROVE  booking'[proc[v].r][proc[v].p] = booking[proc[v].r][proc[v].p]
    <3>1. proc[v].r \in Routes /\ proc[v].p \in Passengers /\ proc[v].p # p
      BY <1>11, <2>1 DEF TypeOK, Proc
    <3>. QED  BY <1>6, <3>1
  <2>. QED  BY <2>1 DEF SeatStays
<1>19. \A s \in Routes : CountedRoute(s)'
  BY <1>16, <1>17
<1>. QED  BY <1>8, <1>10, <1>18, <1>19, WriteCounts

(* Boarding: whoever is in the copy was counted with the holders already. *)
LEMMA BoardingSaved ==
    ASSUME SeatsCompose, TypeOK, CountedWhileOpen, NEW w \in Workers, FlushBooking(w)
    PROVE  CountedWhileOpen' /\ RowsStay
<1>1. PICK r \in Routes, p \in Passengers :
        /\ proc[w].r = r /\ proc[w].p = p /\ proc[w].at = "flushBooking"
        /\ booking' = [booking EXCEPT ![r][p] = BookingUpdate(proc[w].reserva, @, proc[w].cols)]
        /\ UNCHANGED route
        /\ Done(w) \/ Become(w, Call(proc[w].op, "count", r, p))
  BY DEF FlushBooking, TypeOK, Proc
<1>2. /\ proc[w].op \in Boarding
      /\ proc[w].reserva.estado # "none" /\ booking[r][p].estado # "none"
  BY <1>1 DEF CountedWhileOpen, BookingCopyCounts
<1> DEFINE new == BookingUpdate(proc[w].reserva, booking[r][p], proc[w].cols)
<1>3. booking' = [booking EXCEPT ![r][p] = new] /\ new.estado # "none"
  <2>1. proc[w].reserva \in BookingRow /\ booking[r][p] \in BookingRow
    BY DEF TypeOK, Proc
  <2>2. new.estado \in {proc[w].reserva.estado, booking[r][p].estado}
    BY <2>1 DEF BookingUpdate, BookingRow
  <2>. QED  BY <1>1, <1>2, <2>2
<1> HIDE DEF new
<1>4. \A s \in Routes, q \in Passengers :
        booking'[s][q] = IF s = r /\ q = p THEN new ELSE booking[s][q]
  BY <1>3 DEF TypeOK
<1>5. RowsStay
  BY <1>1, <1>3, <1>4 DEF RowsStay
<1>6. PICK record \in Proc :
        /\ Become(w, record) /\ GoesOn(w, record)
        /\ RouteCopyCloses(w)' /\ BookingCopyCounts(w)'
        /\ record.op \notin Rescheduling /\ record.at \notin {"saveBooking", "flushBooking"}
  <2>1. CASE Done(w)
    BY <2>1, DoneGoesOn
  <2>2. CASE Become(w, Call(proc[w].op, "count", r, p))
    <3> DEFINE record == Call(proc[w].op, "count", r, p)
    <3>1. /\ record.op = proc[w].op /\ record.at = "count" /\ record.todo = {}
      BY DEF Call, Idle
    <3>2. record \in Proc
      BY <1>2, CallType DEF Boarding, Ops, Stages
    <3>3. Become(w, record)
      BY <2>2
    <3> HIDE DEF record
    <3>4. proc'[w] = record
      BY <3>3 DEF Become, TypeOK
    <3>5. proc[w].op \notin Rescheduling /\ proc[w].op \notin {"none", "cancelBooking", "finalizeRoute", "cancelRoute"}
      BY <1>2 DEF Boarding, Rescheduling
    <3>6. RouteCopyCloses(w)' /\ BookingCopyCounts(w)'
      BY <3>1, <3>4, <3>5 DEF RouteCopyCloses, BookingCopyCounts, At
    <3>7. GoesOn(w, record)
      BY <3>1, <3>5 DEF GoesOn
    <3>. QED  BY <3>1, <3>2, <3>3, <3>5, <3>6, <3>7
  <2>. QED  BY <1>1, <2>1, <2>2
<1>7. ASSUME NEW s \in Routes
      PROVE  CountedRoute(s)'
  <2>1. Seated(s)' \subseteq Holders(s)
    <3>1. p \in Holders(r)
      BY <1>1 DEF Holders
    <3>2. \A q \in Passengers : s # r \/ q # p => booking'[s][q] = booking[s][q]
      BY <1>4
    <3>. QED  BY <3>1, <3>2 DEF Holders, Seated
  <2>2. OpenStays(s)
    BY <1>1, <1>6, <2>1, FewerHolders DEF OpenStays
  <2>3. \A q \in Passengers : booking[s][q].estado = "none" => booking'[s][q].estado = "none"
    BY <1>2, <1>4
  <2>4. route'[s].asientosDisponibles = route[s].asientosDisponibles
    BY <1>1
  <2>. QED  BY <1>6, <2>2, <2>3, <2>4, CountedStill
<1>8. \A v \in Workers : ~(v # w /\ proc[v].op = "cancelBooking")
  <2>1. ASSUME NEW v \in Workers, v # w, proc[v].op = "cancelBooking"
        PROVE  FALSE
    <3>1. proc[w].op # "none"
      BY <1>2 DEF Boarding
    <3>. QED  BY <1>2, <2>1, <3>1, Apart DEF Conflicts
  <2>. QED  BY <2>1
<1>. QED  BY <1>5, <1>6, <1>7, <1>8, WriteCounts

(* The bookings of a route that is closed. *)
LEMMA BookingsCancelled ==
    ASSUME TypeOK, CountedWhileOpen, NEW w \in Workers, CancelRouteBookings(w)
    PROVE  CountedWhileOpen' /\ RowsStay
<1>1. PICK r \in Routes :
        /\ At(w, "cancelRoute", "bulk") /\ proc[w].r = r /\ UNCHANGED route /\ Done(w)
        /\ booking' = [booking EXCEPT ![r] = [q \in Passengers |->
                IF q \in Pending(r) THEN [booking[r][q] EXCEPT !.estado = "CANCELADA"]
                                    ELSE booking[r][q]]]
  BY DEF CancelRouteBookings, TypeOK, Proc
<1>2. route[r].estado \notin {"none", "ACTIVA"}
  BY <1>1 DEF CountedWhileOpen, RouteCopyCloses
<1>3. \A s \in Routes, q \in Passengers :
        \/ booking'[s][q] = booking[s][q]
        \/ s = r /\ booking[s][q].estado = "CONFIRMADA" /\ booking'[s][q].estado = "CANCELADA"
  <2>1. \A q \in Passengers : booking[r][q] \in BookingRow
    BY DEF TypeOK
  <2>2. \A q \in Passengers : [booking[r][q] EXCEPT !.estado = "CANCELADA"].estado = "CANCELADA"
    BY <2>1 DEF BookingRow
  <2>3. \A q \in Pending(r) : booking[r][q].estado = "CONFIRMADA"
    BY DEF Pending
  <2>. QED  BY <1>1, <2>2, <2>3 DEF TypeOK
<1>4. RowsStay
  BY <1>1, <1>3 DEF RowsStay
<1>5. Become(w, Idle) /\ GoesOn(w, Idle) /\ RouteCopyCloses(w)' /\ BookingCopyCounts(w)'
      /\ Idle \in Proc /\ Idle.op \notin Rescheduling /\ Idle.at \notin {"saveBooking", "flushBooking"}
  BY <1>1, DoneGoesOn
<1>6. ASSUME NEW s \in Routes
      PROVE  CountedRoute(s)'
  <2>1. Seated(s)' \subseteq Holders(s)
    BY <1>3 DEF Holders, Seated
  <2>2. OpenStays(s)
    BY <1>1, <1>5, <2>1, FewerHolders DEF OpenStays
  <2>3. \A q \in Passengers : booking[s][q].estado = "none" => booking'[s][q].estado = "none"
    BY <1>3
  <2>. QED  BY <1>1, <1>5, <2>2, <2>3, CountedStill
<1>7. \A s \in Routes, q \in Passengers : SeatStays(s, q)
  BY <1>1, <1>2, <1>3 DEF SeatStays
<1>8. \A v \in Workers : proc[v].r \in Routes /\ proc[v].p \in Passengers
  BY DEF TypeOK, Proc
<1>. QED  BY <1>4, <1>5, <1>6, <1>7, <1>8, WriteCounts

(* A route that is saved over by whoever closes it is closed. *)
LEMMA FlushCloses ==
    ASSUME TypeOK, CountedWhileOpen, NEW w \in Workers, FlushRoute(w),
           proc[w].op \notin Rescheduling, NEW r \in Routes
    PROVE  /\ proc[w].op \in Closing
           /\ route'[r].asientosTotales = route[r].asientosTotales
           /\ route'[r] = route[r] \/ (r = proc[w].r /\ route[r].estado # "none")
           /\ r = proc[w].r => route'[r].estado \in {"FINALIZADA", "CANCELADA"}
<1> DEFINE s == proc[w].r
           new == RouteUpdate(proc[w].rutas[s], route[s], proc[w].cols)
<1>1. proc[w] \in Proc /\ s \in Routes /\ route[s] \in RouteRow
  BY DEF TypeOK, Proc
<1>2. route' = [route EXCEPT ![s] = new] /\ proc[w].at = "flushRoute"
  BY DEF FlushRoute
<1>3. new.asientosTotales = route[s].asientosTotales
  BY <1>1 DEF RouteUpdate, RouteRow
<1>4. new.estado = IF "estado" \in proc[w].cols THEN proc[w].rutas[s].estado ELSE route[s].estado
  BY <1>1 DEF RouteUpdate, RouteRow
<1>5. /\ proc[w].op \in Closing /\ route[s].estado # "none"
      /\ proc[w].rutas[s].estado \in {"FINALIZADA", "CANCELADA"}
      /\ route[s].estado = "ACTIVA" => "estado" \in proc[w].cols
  BY <1>2 DEF CountedWhileOpen, RouteCopyCloses
<1>6. route[s].estado \in {"none", "ACTIVA", "FINALIZADA", "CANCELADA"}
  BY <1>1 DEF RouteRow, EstadoRuta
<1>7. route'[r] = IF r = s THEN new ELSE route[r]
  BY <1>2 DEF TypeOK
<1> HIDE DEF s, new
<1>8. new.estado \in {"FINALIZADA", "CANCELADA"}
  BY <1>4, <1>5, <1>6
<1>9. r = s => route'[r].estado \in {"FINALIZADA", "CANCELADA"}
  BY <1>7, <1>8
<1>. QED  BY <1>3, <1>5, <1>7, <1>9 DEF s

LEMMA RouteClosed ==
    ASSUME SeatsCompose, TypeOK, CountedWhileOpen, NEW w \in Workers, FlushRoute(w),
           proc[w].op \notin Rescheduling
    PROVE  CountedWhileOpen' /\ RowsStay
<1>1. PICK r \in Routes :
        /\ proc[w].r = r /\ proc[w].at = "flushRoute" /\ UNCHANGED booking
        /\ \/ proc[w].op = "cancelRoute" /\ Become(w, Call("cancelRoute", "bulk", r, AnyPassenger))
           \/ Become(w, [proc[w] EXCEPT !.at = "loop", !.todo = proc[w].todo \ {r}, !.cols = {}])
           \/ Done(w)
  BY DEF FlushRoute, LoopOn, TypeOK, Proc
<1>2. /\ proc[w].op \in Closing /\ route'[r].estado \in {"FINALIZADA", "CANCELADA"}
      /\ \A s \in Routes : /\ route'[s].asientosTotales = route[s].asientosTotales
                           /\ route'[s] = route[s] \/ (s = r /\ route[s].estado # "none")
  BY <1>1, FlushCloses
<1>3. RowsStay
  BY <1>1, <1>2 DEF RowsStay
<1>4. /\ RouteCopyCloses(w) /\ proc[w].op \notin {"none", "cancelBooking"}
      /\ proc[w] \in Proc /\ proc[w].todo \subseteq Routes
  BY <1>2 DEF CountedWhileOpen, Closing, TypeOK, Proc
<1>5. PICK record \in Proc :
        /\ Become(w, record) /\ GoesOn(w, record)
        /\ RouteCopyCloses(w)' /\ BookingCopyCounts(w)'
        /\ record.op \notin Rescheduling /\ record.at \notin {"saveBooking", "flushBooking"}
  <2>1. CASE Done(w)
    BY <2>1, DoneGoesOn
  <2>2. CASE /\ proc[w].op = "cancelRoute"
             /\ Become(w, Call("cancelRoute", "bulk", r, AnyPassenger))
    <3> DEFINE record == Call("cancelRoute", "bulk", r, AnyPassenger)
    <3>1. record.op = "cancelRoute" /\ record.at = "bulk" /\ record.todo = {} /\ record.r = r
      BY DEF Call, Idle
    <3>2. record \in Proc
      BY CallType, DefaultIds DEF Ops, Stages
    <3>3. Become(w, record)
      BY <2>2
    <3> HIDE DEF record
    <3>4. proc'[w] = record
      BY <3>3 DEF Become, TypeOK
    <3>5. RouteCopyCloses(w)' /\ BookingCopyCounts(w)'
      BY <1>2, <3>1, <3>4 DEF RouteCopyCloses, BookingCopyCounts, Rescheduling, At
    <3>6. GoesOn(w, record)
      BY <2>2, <3>1 DEF GoesOn
    <3>. QED  BY <3>1, <3>2, <3>3, <3>5, <3>6 DEF Rescheduling
  <2>3. CASE Become(w, [proc[w] EXCEPT !.at = "loop", !.todo = proc[w].todo \ {r}, !.cols = {}])
    <3> DEFINE record == [proc[w] EXCEPT !.at = "loop", !.todo = proc[w].todo \ {r}, !.cols = {}]
    <3>1. record.at = "loop" /\ record.op = proc[w].op /\ record.todo = proc[w].todo \ {r}
      BY <1>4 DEF Proc
    <3>2. record \in Proc
      BY <1>4 DEF Proc, Stages
    <3>3. Become(w, record)
      BY <2>3
    <3> HIDE DEF record
    <3>4. proc'[w] = record
      BY <3>3 DEF Become, TypeOK
    <3>5. \A s \in record.todo : route'[s].estado # "none"
      BY <1>3, <1>4, <3>1 DEF RouteCopyCloses, RowsStay
    <3>6. RouteCopyCloses(w)' /\ BookingCopyCounts(w)'
      BY <1>4, <3>1, <3>4, <3>5 DEF RouteCopyCloses, BookingCopyCounts, At
    <3>7. GoesOn(w, record)
      BY <1>4, <3>1 DEF GoesOn
    <3>. QED  BY <3>1, <3>2, <3>3, <3>6, <3>7
  <2>. QED  BY <1>1, <2>1, <2>2, <2>3
<1>6. \A v \in Workers : v # w => proc[v].op \notin Rescheduling
  <2>1. ASSUME NEW v \in Workers, v # w, proc[v].op \in Rescheduling
        PROVE  FALSE
    BY <1>2, <1>4, <2>1, Apart DEF Conflicts, Rescheduling
  <2>. QED  BY <2>1
<1>7. ASSUME NEW s \in Routes
      PROVE  CountedRoute(s)'
  <2>1. Seated(s)' \subseteq Holders(s)
    BY <1>1 DEF Holders, Seated
  <2>2. Holders(s)' \subseteq Holders(s)
    BY <1>5, <2>1, FewerHolders
  <2>3. CASE route'[s] = route[s]
    <3>1. OpenStays(s)
      BY <2>2, <2>3 DEF OpenStays
    <3>. QED  BY <1>1, <1>5, <2>3, <3>1, CountedStill
  <2>4. CASE s = r
    <3>1. Cardinality(Holders(r)') <= route'[r].asientosTotales
      <4>1. /\ Cardinality(Holders(r)') <= Cardinality(Holders(r))
            /\ Cardinality(Holders(r)') \in Nat /\ Cardinality(Holders(r)) \in Nat
        BY <2>2, <2>4, HoldersCount
      <4>2. Cardinality(Holders(r)) <= route[r].asientosTotales
        BY DEF CountedWhileOpen, CountedRoute
      <4>3. route'[r].asientosTotales = route[r].asientosTotales /\ route[r].asientosTotales \in Nat
        BY <1>2, BoundsAssumption DEF TypeOK, RouteRow
      <4>. QED  BY <4>1, <4>2, <4>3
    <3>2. \A v \in Workers : proc'[v].op \notin Rescheduling
      BY <1>5, <1>6 DEF Become, TypeOK
    <3>. QED  BY <1>2, <2>4, <3>1, <3>2 DEF CountedRoute
  <2>. QED  BY <1>2, <2>3, <2>4
<1>8. \A v \in Workers : SeatStays(proc[v].r, proc[v].p)
  BY <1>1 DEF SeatStays
<1>. QED  BY <1>3, <1>5, <1>7, <1>8, WriteCounts

(* And by startRoute or updateRouteSchedule stays open, with no more seats free *)
(* than nobody holds.                                                           *)
LEMMA RouteRescheduled ==
    ASSUME TypeOK, CountedWhileOpen, NEW w \in Workers, FlushRoute(w),
           proc[w].op \in Rescheduling
    PROVE  CountedWhileOpen' /\ RowsStay
<1>1. PICK r \in Routes :
        /\ proc[w].r = r /\ UNCHANGED booking
        /\ route' = [route EXCEPT ![r] = RouteUpdate(proc[w].rutas[r], @, proc[w].cols)]
        /\ Done(w)
  BY DEF FlushRoute, TypeOK, Proc, Rescheduling
<1> DEFINE copy == proc[w].rutas[r]
           new == RouteUpdate(copy, route[r], proc[w].cols)
<1>2. /\ route[r].estado = "ACTIVA" /\ copy.estado = "ACTIVA"
      /\ copy.asientosDisponibles + Cardinality(Holders(r)) <= route[r].asientosTotales
      /\ route[r].asientosDisponibles + Cardinality(Holders(r)) <= route[r].asientosTotales
      /\ Cardinality(Holders(r)) <= route[r].asientosTotales
  BY <1>1 DEF CountedWhileOpen, CountedRoute
<1>3. copy \in RouteRow /\ route[r] \in RouteRow
  BY DEF TypeOK, Proc
<1>4. /\ new.estado = "ACTIVA" /\ new.asientosTotales = route[r].asientosTotales
      /\ new.asientosDisponibles \in {copy.asientosDisponibles, route[r].asientosDisponibles}
  BY <1>2, <1>3 DEF RouteUpdate, RouteRow
<1>5. \A s \in Routes : route'[s] = IF s = r THEN new ELSE route[s]
  BY <1>1 DEF TypeOK
<1> HIDE DEF copy, new
<1>6. RowsStay
  BY <1>1, <1>2, <1>4, <1>5 DEF RowsStay
<1>7. Become(w, Idle) /\ GoesOn(w, Idle) /\ RouteCopyCloses(w)' /\ BookingCopyCounts(w)'
      /\ Idle \in Proc /\ Idle.op \notin Rescheduling /\ Idle.at \notin {"saveBooking", "flushBooking"}
  BY <1>1, DoneGoesOn
<1>8. ASSUME NEW s \in Routes
      PROVE  CountedRoute(s)'
  <2>1. Seated(s)' \subseteq Holders(s)
    BY <1>1 DEF Holders, Seated
  <2>2. Holders(s)' \subseteq Holders(s)
    BY <1>7, <2>1, FewerHolders
  <2>3. CASE s # r
    <3>1. OpenStays(s)
      BY <1>5, <2>2, <2>3 DEF OpenStays
    <3>. QED  BY <1>1, <1>5, <1>7, <2>3, <3>1, CountedStill
  <2>4. CASE s = r
    <3>1. /\ Cardinality(Holders(r)') <= Cardinality(Holders(r))
          /\ Cardinality(Holders(r)') \in Nat /\ Cardinality(Holders(r)) \in Nat
      BY <2>2, <2>4, HoldersCount
    <3>2. /\ route[r].asientosTotales \in Nat /\ route[r].asientosDisponibles \in Nat
          /\ copy.asientosDisponibles \in Nat
      BY <1>3, BoundsAssumption DEF RouteRow
    <3>3. /\ Cardinality(Holders(r)') <= route'[r].asientosTotales
          /\ route'[r].asientosDisponibles + Cardinality(Holders(r)') <= route'[r].asientosTotales
      BY <1>2, <1>4, <1>5, <3>1, <3>2
    <3>4. ASSUME NEW v \in Workers, proc'[v].op \in Rescheduling, proc'[v].r = r
          PROVE  /\ proc'[v].rutas[r].estado = "ACTIVA"
                 /\ proc'[v].rutas[r].asientosDisponibles + Cardinality(Holders(r)')
                      <= route'[r].asientosTotales
      <4>1. proc'[v] = proc[v]
        BY <1>7, <3>4 DEF Become, TypeOK
      <4>2. /\ proc[v].rutas[r].estado = "ACTIVA"
            /\ proc[v].rutas[r].asientosDisponibles + Cardinality(Holders(r)) <= route[r].asientosTotales
        BY <3>4, <4>1 DEF CountedWhileOpen, CountedRoute
      <4>3. proc[v].rutas[r].asientosDisponibles \in Nat
        BY BoundsAssumption DEF TypeOK, Proc, RouteRow
      <4>. QED  BY <1>4, <1>5, <3>1, <3>2, <4>1, <4>2, <4>3
    <3>5. route'[r].estado = "ACTIVA"
      BY <1>4, <1>5
    <3>. QED  BY <2>4, <3>3, <3>4, <3>5 DEF CountedRoute
  <2>. QED  BY <2>3, <2>4
<1>9. \A v \in Workers : SeatStays(proc[v].r, proc[v].p)
  BY <1>1 DEF SeatStays
<1>. QED  BY <1>6, <1>7, <1>8, <1>9, WriteCounts

-----------------------------------------------------------------------------

LEMMA ContinueCounted ==
    ASSUME SeatsCompose, TypeOK, CountedWhileOpen, NEW w \in Workers, Continue(w)
    PROVE  CountedWhileOpen'
  BY ReadsCount, SeatTaken, SeatGivenBack, BoardingSaved, BookingsCancelled,
     RouteClosed, RouteRescheduled DEF Continue

LEMMA StepCounted ==
    ASSUME SeatsCompose
    PROVE  TypeOK /\ CountedWhileOpen /\ [Next]_vars => CountedWhileOpen'
<1> SUFFICES ASSUME TypeOK, CountedWhileOpen, [Next]_vars PROVE CountedWhileOpen'
  OBVIOUS
<1>1. ASSUME NEW w \in Workers, Fail(w) PROVE CountedWhileOpen'
  BY <1>1, DoneCounts DEF Fail
<1>2. CASE Tick \/ UNCHANGED vars
  <2>1. UNCHANGED <<route, booking, proc>>
    BY <1>2 DEF Tick, vars
  <2>2. \A r \in Routes : Cardinality(Holders(r)') = Cardinality(Holders(r))
    <3>1. \A r \in Routes : Holders(r)' = Holders(r)
      BY <2>1 DEF Holders, Seated
    <3>. QED  BY <3>1
  <2>3. \A r \in Routes : CountedRoute(r)'
    BY <2>1, <2>2 DEF CountedWhileOpen, CountedRoute
  <2>4. \A w \in Workers : RouteCopyCloses(w)' /\ BookingCopyCounts(w)'
    BY <2>1 DEF CountedWhileOpen, RouteCopyCloses, BookingCopyCounts, At
  <2>5. SideBySide'
    BY <2>1 DEF CountedWhileOpen, SideBySide, Busy
  <2>. QED  BY <2>3, <2>4, <2>5 DEF CountedWhileOpen
<1>. QED  BY <1>1, <1>2, CallsCounted, ContinueCounted DEF Next

(* The invariant of this argument, at every moment of every behaviour: what  *)
(* the counter and the copies in flight have to do with the bookings.        *)
THEOREM CountedForever ==
    ASSUME SeatsCompose
    PROVE  Spec => []CountedWhileOpen
  BY InitCounted, StepCounted, TypeCorrect, PTL DEF Spec

(* Every operation on seats, as many sessions and scheduled runs as one      *)
(* likes, all that do not conflict at once, any of them lost midway: no      *)
(* route is ever overbooked.                                                 *)
THEOREM NeverOverbooked ==
    ASSUME SeatsCompose
    PROVE  Spec => []NoOverbooking
<1>1. TypeOK /\ CountedWhileOpen => NoOverbooking
  <2> SUFFICES ASSUME TypeOK, CountedWhileOpen, NEW r \in Routes
               PROVE  Cardinality(Seated(r)) <= route[r].asientosTotales
    BY DEF NoOverbooking
  <2>1. Seated(r) \subseteq Holders(r) /\ IsFiniteSet(Holders(r))
    BY HoldersCount DEF Holders
  <2>2. /\ Cardinality(Seated(r)) <= Cardinality(Holders(r))
        /\ Cardinality(Seated(r)) \in Nat /\ Cardinality(Holders(r)) \in Nat
    BY <2>1, FS_Subset, FS_CardinalityType
  <2>3. route[r].asientosTotales \in Nat
    BY BoundsAssumption DEF TypeOK, RouteRow
  <2>. QED  BY <2>2, <2>3 DEF CountedWhileOpen, CountedRoute
<1>. QED  BY <1>1, CountedForever, TypeCorrect, PTL

(* Who writes the rows. *)

LEMMA Writers ==
    ASSUME Next
    PROVE  \/ UNCHANGED <<route, booking>>
           \/ \E d \in Drivers, r \in Routes, t \in 0..MaxTime, n \in 1..MaxSeats :
                  CreateRoute(d, r, n, t)
           \/ \E w \in Workers :
                  \/ CreateBookingTransaction(w) \/ CancelBookingTransaction(w)
                  \/ FlushBooking(w) \/ FlushRoute(w) \/ CancelRouteBookings(w)
<1>1. ASSUME NEW c \in Clients, ClientCalls(c)
      PROVE  UNCHANGED <<route, booking>>
  BY <1>1 DEF ClientCalls, CreateBooking, CancelBooking
<1>2. ASSUME NEW d \in Drivers, DriverCalls(d)
      PROVE  \/ UNCHANGED <<route, booking>>
             \/ \E r \in Routes, t \in 0..MaxTime, n \in 1..MaxSeats : CreateRoute(d, r, n, t)
  BY <1>2 DEF DriverCalls, VerifyOtp, CompleteBooking, MarkNoShow, UpdateRouteSchedule,
              StartRoute, CancelRoute, FinalizeRoute
<1>3. ASSUME NEW w \in Workers, Continue(w)
      PROVE  \/ UNCHANGED <<route, booking>>
             \/ CreateBookingTransaction(w) \/ CancelBookingTransaction(w)
             \/ FlushBooking(w) \/ FlushRoute(w) \/ CancelRouteBookings(w)
  BY <1>3 DEF Continue, CreateBookingRefused, SaveBooking, FinalizeIfReadyCount,
              FinalizeIfReadyRead, StartRouteCount, FinalizeRouteCount, SaveRoute, AutoFinalizeCount
<1>4. ASSUME NEW w \in Workers, Fail(w) \/ AutoFinalizeExpiredRoutes(w)
      PROVE  UNCHANGED <<route, booking>>
  BY <1>4 DEF Fail, AutoFinalizeExpiredRoutes
<1>5. Tick => UNCHANGED <<route, booking>>
  BY DEF Tick
<1>6. Crons \subseteq Workers
  BY DEF Workers
<1>7. CASE \E c \in Clients : ClientCalls(c)
  BY <1>1, <1>7
<1>8. CASE \E d \in Drivers : DriverCalls(d)
  BY <1>2, <1>8
<1>9. CASE \E w \in Workers : Continue(w) \/ Fail(w)
  BY <1>3, <1>4, <1>9
<1>10. CASE \E k \in Crons : AutoFinalizeExpiredRoutes(k)
  BY <1>4, <1>6, <1>10
<1>. QED  BY <1>5, <1>7, <1>8, <1>9, <1>10 DEF Next

LEMMA RowsKept ==
    ASSUME SeatsCompose, TypeOK, CountedWhileOpen, Next
    PROVE  RowsStay
<1>1. CASE UNCHANGED <<route, booking>>
  BY <1>1, SameTables
<1>2. ASSUME NEW d \in Drivers, NEW r \in Routes, NEW t \in 0..MaxTime, NEW n \in 1..MaxSeats,
             CreateRoute(d, r, n, t)
      PROVE  RowsStay
  <2>1. route[r].estado = "none" /\ UNCHANGED booking
        /\ \A s \in Routes : s # r => route'[s] = route[s]
    BY <1>2 DEF CreateRoute, NoRoute, TypeOK
  <2>. QED  BY <2>1 DEF RowsStay
<1>. QED  BY <1>1, <1>2, Writers, SeatTaken, SeatGivenBack, BoardingSaved, BookingsCancelled,
             RouteClosed, RouteRescheduled

(* Under the same condition a route that was finalized or cancelled is never *)
(* ACTIVA again, whatever copies of it are still in flight.                  *)
THEOREM ClosedForGood ==
    ASSUME SeatsCompose
    PROVE  Spec => ClosedRoutesStayClosed
<1>1. TypeOK /\ CountedWhileOpen /\ [Next]_vars =>
        [\A r \in Routes : route[r].estado \in {"FINALIZADA", "CANCELADA"} =>
            route'[r].estado # "ACTIVA"]_route
  BY RowsKept DEF RowsStay, vars
<1>. QED  BY <1>1, CountedForever, TypeCorrect, PTL DEF Spec, ClosedRoutesStayClosed

-----------------------------------------------------------------------------
(* The life of a booking.  Boarding and closing write it from copies, so     *)
(* the argument needs that one session of the driver does both, one call     *)
(* after the other; passengers and the scheduled job are free to overlap.    *)

OneDriver == \A d, e \in Drivers : d = e

(* What a handler is about to write into the row of a booking ... *)
BookingCopyIsFresh(w) ==
    LET row == booking[proc[w].r][proc[w].p]
        copy == proc[w].reserva
    IN  /\ row.estado = "CONFIRMADA"
        /\ \/ proc[w].op = "verifyOtp" /\ copy = [row EXCEPT !.otpUsado = TRUE]
           \/ proc[w].op = "completeBooking" /\ row.otpUsado
              /\ copy = [row EXCEPT !.estado = "COMPLETADA"]
           \/ proc[w].op = "markNoShow" /\ now - route[proc[w].r].salida >= NoShowWindow
              /\ copy = [row EXCEPT !.estado = "NO_SHOW"]

(* What the driver's session alone does. *)
Driving == Boarding \cup Rescheduling \cup {"cancelRoute"}

BoardingIsFresh(w) ==
    /\ proc[w].op \in Driving => w \in Drivers
    /\ proc[w].at \in {"saveBooking", "flushBooking"} => BookingCopyIsFresh(w)
    /\ proc[w].at = "flushBooking" =>
          proc[w].cols = BookingDiff(proc[w].reserva, booking[proc[w].r][proc[w].p])

(* Every copy of a route has its departure, but for updateRouteSchedule's. *)
DepartureIsFresh(w) ==
    /\ \/ proc[w].at \in {"saveRoute", "flushRoute"} /\ proc[w].op # "updateRouteSchedule"
       \/ At(w, "finalizeRoute", "count") \/ At(w, "startRoute", "count")
       => proc[w].rutas[proc[w].r].salida = route[proc[w].r].salida
    /\ \A s \in proc[w].todo : proc[w].rutas[s].salida = route[s].salida
    /\ proc[w].todo # {} => proc[w].op = "autoFinalizeExpiredRoutes"

BookingsInv ==
    /\ \A w \in Workers : BoardingIsFresh(w) /\ DepartureIsFresh(w)
    /\ \A r \in Routes, p \in Passengers :
          booking[r][p].estado = "COMPLETADA" => booking[r][p].otpUsado

LEMMA SavedBooking ==
    ASSUME NEW copy \in BookingRow, NEW row \in BookingRow
    PROVE  BookingUpdate(copy, row, BookingDiff(copy, row)) = copy
<1>1. /\ "estado" \in BookingDiff(copy, row) <=> copy.estado # row.estado
      /\ "otpUsado" \in BookingDiff(copy, row) <=> copy.otpUsado # row.otpUsado
      /\ "metodoPago" \in BookingDiff(copy, row) <=> copy.metodoPago # row.metodoPago
  BY DEF BookingDiff
<1> DEFINE new == BookingUpdate(copy, row, BookingDiff(copy, row))
<1>2. new \in BookingRow
  BY BookingUpdateType
<1>3. new.estado = copy.estado /\ new.otpUsado = copy.otpUsado /\ new.metodoPago = copy.metodoPago
  BY <1>1 DEF BookingUpdate, BookingRow
<1> HIDE DEF new
<1>4. new = copy
  BY <1>2, <1>3 DEF BookingRow
<1>. QED  BY <1>4 DEF new

LEMMA InitBookings == Init => BookingsInv
<1> SUFFICES ASSUME Init PROVE BookingsInv
  OBVIOUS
<1>1. ASSUME NEW w \in Workers PROVE BoardingIsFresh(w) /\ DepartureIsFresh(w)
  BY DEF Init, BoardingIsFresh, DepartureIsFresh, Idle, At, Driving, Boarding, Rescheduling
<1>2. \A r \in Routes, p \in Passengers : booking[r][p].estado = "none"
  BY DEF Init, NoBooking
<1>. QED  BY <1>1, <1>2 DEF BookingsInv

LEMMA IdleBoards ==
    ASSUME NEW w \in Workers, proc'[w] = Idle
    PROVE  BoardingIsFresh(w)' /\ DepartureIsFresh(w)'
  BY DEF BoardingIsFresh, DepartureIsFresh, Idle, At, Driving, Boarding, Rescheduling

LEMMA DrivesAlone ==
    ASSUME OneDriver, BookingsInv, NEW v \in Workers, NEW w \in Drivers, v # w
    PROVE  proc[v].op \notin Driving
  BY DEF OneDriver, BookingsInv, BoardingIsFresh

(* What almost all steps do: departures stay. *)
DeparturesStay ==
    \A r \in Routes : route[r].estado # "none" => route'[r].salida = route[r].salida

(* What the steps of others do to the driver: his CONFIRMADA bookings stay. *)
ConfirmedStay ==
    \A r \in Routes, p \in Passengers :
        booking[r][p].estado = "CONFIRMADA" => booking'[r][p] = booking[r][p]

LEMMA OthersBoard ==
    ASSUME TypeOK, CountedWhileOpen, BookingsInv,
           now' = now \/ now' = now + 1, NEW v \in Workers, proc'[v] = proc[v],
           proc[v].op \in Boarding => ConfirmedStay,
           proc[v].op \in {"none", "cancelBooking"} \/ DeparturesStay
    PROVE  BoardingIsFresh(v)' /\ DepartureIsFresh(v)'
<1> DEFINE r == proc[v].r
           p == proc[v].p
<1>1. /\ r \in Routes /\ p \in Passengers /\ proc[v].todo \subseteq Routes
      /\ now \in Int /\ route[r].salida \in Int /\ NoShowWindow \in Int
  BY BoundsAssumption DEF TypeOK, Proc, RouteRow
<1>2. /\ BoardingIsFresh(v) /\ DepartureIsFresh(v)
      /\ RouteCopyCloses(v) /\ BookingCopyCounts(v) /\ CountedRoute(r)
  BY <1>1 DEF BookingsInv, CountedWhileOpen
<1>3. ASSUME proc[v].at \in {"saveBooking", "flushBooking"}
      PROVE  BookingCopyIsFresh(v)' /\ booking'[r][p] = booking[r][p]
  <2>1. BookingCopyIsFresh(v) /\ booking[r][p].estado = "CONFIRMADA" /\ proc[v].op \in Boarding
    BY <1>2, <1>3 DEF BoardingIsFresh, BookingCopyIsFresh, Boarding
  <2>2. booking'[r][p] = booking[r][p]
    BY <1>1, <2>1 DEF ConfirmedStay
  <2>3. route'[r].salida = route[r].salida
    BY <1>1, <1>2, <2>1 DEF CountedRoute, DeparturesStay, Boarding
  <2>4. now' - route'[r].salida >= NoShowWindow \/ ~(now - route[r].salida >= NoShowWindow)
    BY <1>1, <2>3
  <2>. QED  BY <2>1, <2>2, <2>3, <2>4 DEF BookingCopyIsFresh
<1>4. BoardingIsFresh(v)'
  BY <1>2, <1>3 DEF BoardingIsFresh
<1>5. CASE DeparturesStay
  <2>1. At(v, "startRoute", "count") => route[r].estado # "none"
    BY <1>2 DEF CountedRoute, At, Rescheduling
  <2>2. DepartureIsFresh(v)'
    BY <1>1, <1>2, <1>5, <2>1 DEF DepartureIsFresh, RouteCopyCloses, DeparturesStay, At
  <2>. QED  BY <1>4, <2>2
<1>6. CASE proc[v].op \in {"none", "cancelBooking"}
  <2>1. /\ proc[v].at \notin {"saveRoute", "flushRoute"} /\ proc[v].todo = {}
        /\ proc[v].op \notin {"finalizeRoute", "startRoute"}
    BY <1>2, <1>6 DEF RouteCopyCloses, DepartureIsFresh, Closing, Rescheduling
  <2>2. DepartureIsFresh(v)'
    BY <2>1 DEF DepartureIsFresh, At
  <2>. QED  BY <1>4, <2>2
<1>. QED  BY <1>5, <1>6

(* A call, or a statement that only reads. *)
LEMMA ReadBoards ==
    ASSUME TypeOK, CountedWhileOpen, BookingsInv, NEW w \in Workers, NEW record,
           Become(w, record), BoardingIsFresh(w)', DepartureIsFresh(w)',
           UNCHANGED <<now, route, booking>>
    PROVE  BookingsInv'
<1>1. \A v \in Workers : v # w => proc'[v] = proc[v]
  BY DEF Become, TypeOK
<1>2. DeparturesStay /\ ConfirmedStay
  BY DEF DeparturesStay, ConfirmedStay
<1>3. \A v \in Workers : BoardingIsFresh(v)' /\ DepartureIsFresh(v)'
  BY <1>1, <1>2, OthersBoard
<1>. QED  BY <1>3 DEF BookingsInv

LEMMA DoneBoards ==
    ASSUME TypeOK, CountedWhileOpen, BookingsInv, NEW w \in Workers, Done(w),
           UNCHANGED <<now, route, booking>>
    PROVE  BookingsInv'
<1>1. Become(w, Idle) /\ proc'[w] = Idle
  BY DEF Done, Become, TypeOK
<1>. QED  BY <1>1, IdleBoards, ReadBoards

LEMMA CallsBoard ==
    ASSUME TypeOK, CountedWhileOpen, BookingsInv,
           \/ \E c \in Clients : ClientCalls(c)
           \/ \E d \in Drivers : DriverCalls(d)
           \/ \E k \in Crons : AutoFinalizeExpiredRoutes(k)
    PROVE  BookingsInv'
<1>b. ASSUME NEW w \in Workers, NEW record, Become(w, record)
      PROVE  proc'[w] = record
  BY <1>b DEF Become, TypeOK
<1>1. ASSUME NEW c \in Clients, NEW r \in Routes, NEW m \in MetodoPago,
             CreateBooking(c, r, m)
      PROVE  BookingsInv'
  <2> c \in Workers
    BY DEF Workers
  <2> DEFINE record == [Call("createBooking", "tx", r, Owner[c]) EXCEPT !.reserva.metodoPago = m]
  <2>1. Become(c, record) /\ UNCHANGED <<now, route, booking>>
    BY <1>1 DEF CreateBooking
  <2>2. record.op = "createBooking" /\ record.at = "tx" /\ record.todo = {}
    BY DEF Call, Idle
  <2> HIDE DEF record
  <2>3. BoardingIsFresh(c)' /\ DepartureIsFresh(c)'
    BY <1>b, <2>1, <2>2 DEF BoardingIsFresh, DepartureIsFresh, At, Driving, Boarding, Rescheduling
  <2>. QED  BY <2>1, <2>3, ReadBoards
<1>c. ASSUME NEW c \in Clients, NEW r \in Routes, CancelBooking(c, r)
      PROVE  BookingsInv'
  <2> c \in Workers
    BY DEF Workers
  <2> DEFINE record == Call("cancelBooking", "tx", r, Owner[c])
  <2>1. Become(c, record) /\ UNCHANGED <<now, route, booking>>
    BY <1>c DEF CancelBooking
  <2>2. record.op = "cancelBooking" /\ record.at = "tx" /\ record.todo = {}
    BY DEF Call, Idle
  <2> HIDE DEF record
  <2>3. BoardingIsFresh(c)' /\ DepartureIsFresh(c)'
    BY <1>b, <2>1, <2>2 DEF BoardingIsFresh, DepartureIsFresh, At, Driving, Boarding, Rescheduling
  <2>. QED  BY <2>1, <2>3, ReadBoards
<1>w. ASSUME NEW d \in Drivers, NEW r \in Routes, NEW p \in Passengers, NEW op, NEW copy,
             op \in {"verifyOtp", "completeBooking", "markNoShow"},
             Become(d, [Call(op, "saveBooking", r, p) EXCEPT !.reserva = copy]),
             booking[r][p].estado = "CONFIRMADA",
             \/ op = "verifyOtp" /\ copy = [booking[r][p] EXCEPT !.otpUsado = TRUE]
             \/ op = "completeBooking" /\ booking[r][p].otpUsado
                /\ copy = [booking[r][p] EXCEPT !.estado = "COMPLETADA"]
             \/ op = "markNoShow" /\ now - route[r].salida >= NoShowWindow
                /\ copy = [booking[r][p] EXCEPT !.estado = "NO_SHOW"],
             UNCHANGED <<now, route, booking>>
      PROVE  BookingsInv'
  <2> d \in Workers
    BY DEF Workers
  <2> DEFINE record == [Call(op, "saveBooking", r, p) EXCEPT !.reserva = copy]
  <2>2. /\ record.op = op /\ record.at = "saveBooking" /\ record.r = r /\ record.p = p
        /\ record.reserva = copy /\ record.todo = {}
    BY DEF Call, Idle
  <2>3. Become(d, record)
    BY <1>w
  <2> HIDE DEF record
  <2>4. proc'[d] = record
    BY <1>b, <2>3
  <2>5. BookingCopyIsFresh(d)'
    BY <1>w, <2>2, <2>4 DEF BookingCopyIsFresh
  <2>6. BoardingIsFresh(d)' /\ DepartureIsFresh(d)'
    BY <1>w, <2>2, <2>4, <2>5 DEF BoardingIsFresh, DepartureIsFresh, At
  <2>. QED  BY <1>w, <2>3, <2>6, ReadBoards
<1>2. ASSUME NEW d \in Drivers, NEW r \in Routes, NEW p \in Passengers,
             VerifyOtp(d, r, p) \/ CompleteBooking(d, r, p) \/ MarkNoShow(d, r, p)
      PROVE  BookingsInv'
  <2>1. CASE VerifyOtp(d, r, p)
    <3> DEFINE copy == [booking[r][p] EXCEPT !.otpUsado = TRUE]
    <3>1. /\ Become(d, [Call("verifyOtp", "saveBooking", r, p) EXCEPT !.reserva = copy])
          /\ booking[r][p].estado = "CONFIRMADA" /\ UNCHANGED <<now, route, booking>>
          /\ copy = [booking[r][p] EXCEPT !.otpUsado = TRUE]
      BY <2>1 DEF VerifyOtp
    <3> HIDE DEF copy
    <3>. QED  BY <1>w, <3>1
  <2>2. CASE CompleteBooking(d, r, p)
    <3> DEFINE copy == [booking[r][p] EXCEPT !.estado = "COMPLETADA"]
    <3>1. /\ Become(d, [Call("completeBooking", "saveBooking", r, p) EXCEPT !.reserva = copy])
          /\ booking[r][p].estado = "CONFIRMADA" /\ UNCHANGED <<now, route, booking>>
          /\ copy = [booking[r][p] EXCEPT !.estado = "COMPLETADA"]
          /\ booking[r][p].otpUsado
      BY <2>2 DEF CompleteBooking
    <3> HIDE DEF copy
    <3>. QED  BY <1>w, <3>1
  <2>3. CASE MarkNoShow(d, r, p)
    <3> DEFINE copy == [booking[r][p] EXCEPT !.estado = "NO_SHOW"]
    <3>1. /\ Become(d, [Call("markNoShow", "saveBooking", r, p) EXCEPT !.reserva = copy])
          /\ booking[r][p].estado = "CONFIRMADA" /\ UNCHANGED <<now, route, booking>>
          /\ copy = [booking[r][p] EXCEPT !.estado = "NO_SHOW"]
          /\ now - route[r].salida >= NoShowWindow
      BY <2>3 DEF MarkNoShow
    <3> HIDE DEF copy
    <3>. QED  BY <1>w, <3>1
  <2>. QED  BY <1>2, <2>1, <2>2, <2>3
<1>3. ASSUME NEW d \in Drivers, NEW r \in Routes, NEW n \in 1..MaxSeats, NEW t \in 0..MaxTime,
             CreateRoute(d, r, n, t)
      PROVE  BookingsInv'
  <2>1. route[r].estado = "none" /\ UNCHANGED <<now, booking, proc>>
        /\ \A s \in Routes : s # r => route'[s] = route[s]
    BY <1>3 DEF CreateRoute, NoRoute, TypeOK
  <2>2. DeparturesStay /\ ConfirmedStay
    BY <2>1 DEF DeparturesStay, ConfirmedStay
  <2>3. \A v \in Workers : BoardingIsFresh(v)' /\ DepartureIsFresh(v)'
    BY <2>1, <2>2, OthersBoard
  <2>. QED  BY <2>1, <2>3 DEF BookingsInv
<1>4. ASSUME NEW d \in Drivers, NEW r \in Routes,
             \/ CancelRoute(d, r) \/ FinalizeRoute(d, r) \/ StartRoute(d, r)
             \/ \E t \in 0..MaxTime : UpdateRouteSchedule(d, r, t)
      PROVE  BookingsInv'
  <2> d \in Workers
    BY DEF Workers
  <2>1. PICK op, at, copy :
            /\ Become(d, [Call(op, at, r, AnyPassenger) EXCEPT !.rutas[r] = copy])
            /\ op # "updateRouteSchedule" => copy.salida = route[r].salida
            /\ \/ op = "cancelRoute" /\ at = "saveRoute"
               \/ op = "finalizeRoute" /\ at = "count"
               \/ op = "startRoute" /\ at = "count"
               \/ op = "updateRouteSchedule" /\ at = "saveRoute"
            /\ UNCHANGED <<now, route, booking>>
    <3>1. [route[r] EXCEPT !.estado = "CANCELADA"].salida = route[r].salida
      BY DEF TypeOK, RouteRow
    <3>2. CASE CancelRoute(d, r)
      BY <3>1, <3>2 DEF CancelRoute
    <3>3. CASE FinalizeRoute(d, r)
      BY <3>3 DEF FinalizeRoute
    <3>4. CASE StartRoute(d, r)
      BY <3>4 DEF StartRoute
    <3>5. CASE \E t \in 0..MaxTime : UpdateRouteSchedule(d, r, t)
      BY <3>5 DEF UpdateRouteSchedule
    <3>. QED  BY <1>4, <3>2, <3>3, <3>4, <3>5
  <2> DEFINE record == [Call(op, at, r, AnyPassenger) EXCEPT !.rutas[r] = copy]
  <2>2. /\ record.op = op /\ record.at = at /\ record.r = r /\ record.todo = {}
        /\ record.rutas[r] = copy
    BY DEF Call, Idle, NoRoutes
  <2>3. Become(d, record) /\ UNCHANGED <<now, route, booking>>
    BY <2>1
  <2> HIDE DEF record
  <2>4. proc'[d] = record
    BY <1>b, <2>3
  <2>5. BoardingIsFresh(d)' /\ DepartureIsFresh(d)'
    BY <2>1, <2>2, <2>3, <2>4 DEF BoardingIsFresh, DepartureIsFresh, At
  <2>. QED  BY <2>3, <2>5, ReadBoards
<1>5. ASSUME NEW k \in Crons, AutoFinalizeExpiredRoutes(k)
      PROVE  BookingsInv'
  <2> k \in Workers
    BY DEF Workers
  <2> DEFINE record ==
        [Call("autoFinalizeExpiredRoutes", "loop", AnyRoute, AnyPassenger)
            EXCEPT !.todo = Expired,
                   !.rutas = [r \in Routes |-> IF r \in Expired THEN route[r] ELSE NoRoute]]
  <2>1. Become(k, record) /\ UNCHANGED <<now, route, booking>>
    BY <1>5 DEF AutoFinalizeExpiredRoutes
  <2>2. /\ record.op = "autoFinalizeExpiredRoutes" /\ record.at = "loop"
        /\ \A s \in record.todo : record.rutas[s].salida = route[s].salida
    BY DEF Call, Idle, Expired
  <2> HIDE DEF record
  <2>3. BoardingIsFresh(k)' /\ DepartureIsFresh(k)'
    BY <1>b, <2>1, <2>2 DEF BoardingIsFresh, DepartureIsFresh, At, Driving, Boarding, Rescheduling
  <2>. QED  BY <2>1, <2>3, ReadBoards
<1>. QED  BY <1>1, <1>c, <1>2, <1>3, <1>4, <1>5 DEF ClientCalls, DriverCalls

(* A statement that writes: the rows it leaves, and what it does to others. *)
LEMMA WriteBoards ==
    ASSUME TypeOK, CountedWhileOpen, BookingsInv, NEW w \in Workers, NEW record,
           Become(w, record), BoardingIsFresh(w)', DepartureIsFresh(w)', now' = now,
           \A v \in Workers : v # w =>
              /\ proc[v].op \in Boarding => ConfirmedStay
              /\ proc[v].op \in {"none", "cancelBooking"} \/ DeparturesStay,
           \A r \in Routes, p \in Passengers :
              booking'[r][p].estado = "COMPLETADA" => booking'[r][p].otpUsado
    PROVE  BookingsInv'
<1>1. \A v \in Workers : v # w => proc'[v] = proc[v]
  BY DEF Become, TypeOK
<1>2. \A v \in Workers : BoardingIsFresh(v)' /\ DepartureIsFresh(v)'
  BY <1>1, OthersBoard
<1>. QED  BY <1>2 DEF BookingsInv

(* Beside the save of a new departure only passengers' cancellations run. *)
LEMMA ReschedulesAlone ==
    ASSUME SeatsCompose, OneDriver, TypeOK, CountedWhileOpen, BookingsInv,
           NEW w \in Workers, NEW v \in Workers, v # w, proc[w].op \in Rescheduling
    PROVE  proc[v].op \in {"none", "cancelBooking"}
<1>1. w \in Drivers /\ proc[w].op # "none"
  BY DEF BookingsInv, BoardingIsFresh, Driving, Rescheduling
<1>2. proc[v].op \notin Driving
  BY <1>1, DrivesAlone
<1>3. proc[v].op # "none" => proc[v].op \notin Closing \cup {"createBooking"}
  BY <1>1, Apart DEF Conflicts
<1>4. proc[v].op \in Ops \cup {"none"}
  BY DEF TypeOK, Proc
<1>. QED  BY <1>2, <1>3, <1>4 DEF Ops, Driving, Boarding, Rescheduling, Closing

LEMMA ContinueBoards ==
    ASSUME SeatsCompose, OneDriver, TypeOK, CountedWhileOpen, BookingsInv,
           NEW w \in Workers, Continue(w)
    PROVE  BookingsInv'
<1> DEFINE r == proc[w].r
           p == proc[w].p
<1> proc[w] \in Proc /\ r \in Routes /\ p \in Passengers
  BY DEF TypeOK, Proc
<1> route[r] \in RouteRow /\ booking[r][p] \in BookingRow /\ proc[w].rutas[r] \in RouteRow
  BY DEF TypeOK, Proc
<1>w. /\ BoardingIsFresh(w) /\ DepartureIsFresh(w)
      /\ RouteCopyCloses(w) /\ BookingCopyCounts(w) /\ CountedRoute(r)
  BY DEF BookingsInv, CountedWhileOpen
<1> HIDE DEF r, p
<1>b. ASSUME NEW record, Become(w, record)
      PROVE  proc'[w] = record
  BY <1>b DEF Become, TypeOK
<1>i. Done(w) => Become(w, Idle) /\ BoardingIsFresh(w)' /\ DepartureIsFresh(w)'
  <2>1. Done(w) => Become(w, Idle) /\ proc'[w] = Idle
    BY DEF Done, Become, TypeOK
  <2>. QED  BY <2>1, IdleBoards
<1>r. booking' = booking =>
          \A s \in Routes, q \in Passengers :
              booking'[s][q].estado = "COMPLETADA" => booking'[s][q].otpUsado
  BY DEF BookingsInv
<1>1. CASE CreateBookingTransaction(w)
  <2>1. \A s \in Routes : route'[s].salida = route[s].salida
    BY <1>1 DEF CreateBookingTransaction, TakeSeat, TypeOK, RouteRow
  <2>2. \A s \in Routes, q \in Passengers :
            \/ booking'[s][q] = booking[s][q]
            \/ booking[s][q] = NoBooking /\ booking'[s][q].estado = "CONFIRMADA"
    BY <1>1 DEF CreateBookingTransaction, BookingAllowed, TypeOK
  <2>3. DeparturesStay /\ ConfirmedStay
    BY <2>1, <2>2 DEF DeparturesStay, ConfirmedStay, NoBooking
  <2>4. \A s \in Routes, q \in Passengers :
            booking'[s][q].estado = "COMPLETADA" => booking'[s][q].otpUsado
    BY <2>2 DEF BookingsInv
  <2>. QED  BY <1>1, <1>i, <2>3, <2>4, WriteBoards DEF CreateBookingTransaction
<1>2. CASE CreateBookingRefused(w)
  BY <1>2, DoneBoards DEF CreateBookingRefused
<1>3. CASE CancelBookingTransaction(w)
  <2>1. /\ proc[w].op = "cancelBooking" /\ Done(w) /\ now' = now
        /\ booking' = [booking EXCEPT ![r][p].estado = "CANCELADA"]
        /\ \A s \in Routes : route'[s].salida = route[s].salida
    BY <1>3 DEF CancelBookingTransaction, GiveBackSeat, TypeOK, RouteRow, At, r, p
  <2>2. \A v \in Workers : v # w => proc[v].op \notin Boarding
    <3>1. ASSUME NEW v \in Workers, v # w, proc[v].op \in Boarding
          PROVE  FALSE
      BY <2>1, <3>1, Apart DEF Conflicts, Boarding
    <3>. QED  BY <3>1
  <2>3. DeparturesStay
    BY <2>1 DEF DeparturesStay
  <2>4. \A s \in Routes, q \in Passengers :
            booking'[s][q] = booking[s][q] \/ booking'[s][q].estado = "CANCELADA"
    BY <2>1 DEF TypeOK, BookingRow
  <2>5. \A s \in Routes, q \in Passengers :
            booking'[s][q].estado = "COMPLETADA" => booking'[s][q].otpUsado
    BY <2>4 DEF BookingsInv
  <2>. QED  BY <1>i, <2>1, <2>2, <2>3, <2>5, WriteBoards
<1>s. CASE StartRouteCount(w)
  <2> DEFINE record == [proc[w] EXCEPT !.at = "saveRoute", !.rutas[r].startedAt = TRUE]
  <2>1. /\ record.at = "saveRoute" /\ record.op = proc[w].op /\ record.todo = proc[w].todo
        /\ record.r = r /\ \A s \in Routes : record.rutas[s].salida = proc[w].rutas[s].salida
    BY DEF Proc, RouteRow, r
  <2>2. /\ UNCHANGED <<now, route, booking>> /\ (Done(w) \/ Become(w, record))
        /\ proc[w].op = "startRoute" /\ proc[w].at = "count"
    BY <1>s DEF StartRouteCount, At, r
  <2>3. proc[w].todo \subseteq Routes
    BY DEF Proc
  <2> HIDE DEF record
  <2>4. Become(w, record) => BoardingIsFresh(w)' /\ DepartureIsFresh(w)'
    BY <1>b, <1>w, <2>1, <2>2, <2>3 DEF BoardingIsFresh, DepartureIsFresh, At, r
  <2>. QED  BY <2>2, <2>4, ReadBoards, DoneBoards
<1>4. CASE SaveBooking(w)
  <2> DEFINE record == [proc[w] EXCEPT !.at = "flushBooking",
                           !.cols = BookingDiff(proc[w].reserva, booking[r][p])]
  <2>1. Become(w, record) /\ UNCHANGED <<now, route, booking>> /\ proc[w].at = "saveBooking"
    BY <1>4 DEF SaveBooking, r, p
  <2>2. /\ record.at = "flushBooking" /\ record.op = proc[w].op
        /\ record.r = r /\ record.p = p /\ record.cols = BookingDiff(proc[w].reserva, booking[r][p])
        /\ record.todo = proc[w].todo /\ record.reserva = proc[w].reserva
        /\ record.rutas = proc[w].rutas
    BY DEF Proc, r, p
  <2> HIDE DEF record
  <2>3. proc'[w] = record
    BY <1>b, <2>1
  <2>4. BookingCopyIsFresh(w)'
    BY <1>w, <2>1, <2>2, <2>3 DEF BoardingIsFresh, BookingCopyIsFresh, r, p
  <2>5. BoardingIsFresh(w)' /\ DepartureIsFresh(w)'
    BY <1>w, <2>1, <2>2, <2>3, <2>4 DEF BoardingIsFresh, DepartureIsFresh, At, r, p
  <2>. QED  BY <2>1, <2>5, ReadBoards
<1>5. CASE FlushBooking(w)
  <2> DEFINE copy == proc[w].reserva
  <2>1. /\ BookingCopyIsFresh(w) /\ w \in Drivers
        /\ proc[w].cols = BookingDiff(copy, booking[r][p]) /\ copy \in BookingRow
        /\ proc[w].op \in {"verifyOtp", "completeBooking", "markNoShow"}
    BY <1>5, <1>w DEF FlushBooking, BoardingIsFresh, BookingCopyIsFresh, Proc, Driving, Boarding, r, p
  <2>2. booking' = [booking EXCEPT ![r][p] = copy]
    BY <1>5, <2>1, SavedBooking DEF FlushBooking, r, p
  <2>3. copy.estado = "COMPLETADA" => copy.otpUsado
    BY <2>1 DEF BookingCopyIsFresh, BookingRow, r, p
  <2>4. \A s \in Routes, q \in Passengers :
            booking'[s][q].estado = "COMPLETADA" => booking'[s][q].otpUsado
    <3> HIDE DEF copy
    <3>. QED  BY <2>2, <2>3 DEF BookingsInv, TypeOK
  <2>5. DeparturesStay /\ now' = now
    BY <1>5 DEF FlushBooking, DeparturesStay
  <2> DEFINE record == Call(proc[w].op, "count", r, p)
  <2>6. record.op = proc[w].op /\ record.at = "count" /\ record.todo = {}
    BY DEF Call, Idle
  <2>7. Done(w) \/ Become(w, record)
    BY <1>5 DEF FlushBooking, r, p
  <2> HIDE DEF record
  <2>8. Become(w, record) => BoardingIsFresh(w)' /\ DepartureIsFresh(w)'
    BY <1>b, <2>1, <2>6 DEF BoardingIsFresh, DepartureIsFresh, At
  <2>9. \A v \in Workers : v # w => proc[v].op \notin Boarding
    BY <2>1, DrivesAlone DEF Driving
  <2>. QED  BY <1>i, <2>1, <2>4, <2>5, <2>7, <2>8, <2>9, WriteBoards
<1>6. CASE FinalizeIfReadyCount(w)
  <2> DEFINE record == [proc[w] EXCEPT !.at = "reread"]
  <2>1. /\ record.at = "reread" /\ record.op = proc[w].op /\ record.todo = proc[w].todo
        /\ record.rutas = proc[w].rutas
    BY DEF Proc
  <2>2. UNCHANGED <<now, route, booking>> /\ (Become(w, record) \/ Done(w))
    BY <1>6 DEF FinalizeIfReadyCount
  <2> HIDE DEF record
  <2>3. Become(w, record) => BoardingIsFresh(w)' /\ DepartureIsFresh(w)'
    BY <1>b, <1>w, <2>1, <2>2 DEF BoardingIsFresh, DepartureIsFresh, At
  <2>. QED  BY <2>2, <2>3, ReadBoards, DoneBoards
<1>7. CASE FinalizeIfReadyRead(w)
  <2> DEFINE copy == [route[r] EXCEPT !.estado = "FINALIZADA"]
             record == [proc[w] EXCEPT !.at = "saveRoute", !.rutas[r] = copy]
  <2>1. /\ record.at = "saveRoute" /\ record.op = proc[w].op /\ record.todo = proc[w].todo
        /\ record.r = r /\ record.rutas[r] = copy
        /\ \A s \in Routes : s # r => record.rutas[s] = proc[w].rutas[s]
    BY DEF Proc, r
  <2>2. copy.salida = route[r].salida
    BY DEF RouteRow
  <2>3. UNCHANGED <<now, route, booking>> /\ (Done(w) \/ Become(w, record))
    BY <1>7 DEF FinalizeIfReadyRead, r
  <2>4. proc[w].todo \subseteq Routes
    BY DEF Proc
  <2> HIDE DEF record, copy
  <2>5. Become(w, record) => BoardingIsFresh(w)' /\ DepartureIsFresh(w)'
    BY <1>b, <1>w, <2>1, <2>2, <2>3, <2>4 DEF BoardingIsFresh, DepartureIsFresh, At
  <2>. QED  BY <2>3, <2>5, ReadBoards, DoneBoards
<1>8. CASE FinalizeRouteCount(w)
  <2> DEFINE record == [proc[w] EXCEPT !.at = "saveRoute", !.rutas[r].estado = "FINALIZADA"]
  <2>1. /\ record.at = "saveRoute" /\ record.op = proc[w].op /\ record.todo = proc[w].todo
        /\ record.r = r /\ \A s \in Routes : record.rutas[s].salida = proc[w].rutas[s].salida
    BY DEF Proc, RouteRow, r
  <2>2. /\ UNCHANGED <<now, route, booking>> /\ (Done(w) \/ Become(w, record))
        /\ proc[w].op = "finalizeRoute" /\ proc[w].at = "count"
    BY <1>8 DEF FinalizeRouteCount, At, r
  <2>3. proc[w].todo \subseteq Routes
    BY DEF Proc
  <2> HIDE DEF record
  <2>4. Become(w, record) => BoardingIsFresh(w)' /\ DepartureIsFresh(w)'
    BY <1>b, <1>w, <2>1, <2>2, <2>3 DEF BoardingIsFresh, DepartureIsFresh, At, r
  <2>. QED  BY <2>2, <2>4, ReadBoards, DoneBoards
<1>9. CASE SaveRoute(w)
  <2> DEFINE record == [proc[w] EXCEPT !.at = "flushRoute",
                           !.cols = RouteDiff(proc[w].rutas[r], route[r])]
  <2>1. /\ record.at = "flushRoute" /\ record.op = proc[w].op /\ record.todo = proc[w].todo
        /\ record.r = r /\ record.rutas = proc[w].rutas
    BY DEF Proc, r
  <2>2. /\ Become(w, record) /\ UNCHANGED <<now, route, booking>>
        /\ proc[w].at = "saveRoute"
    BY <1>9 DEF SaveRoute, r
  <2> HIDE DEF record
  <2>3. BoardingIsFresh(w)' /\ DepartureIsFresh(w)'
    BY <1>b, <1>w, <2>1, <2>2 DEF BoardingIsFresh, DepartureIsFresh, At, r
  <2>. QED  BY <2>2, <2>3, ReadBoards
<1>10. CASE FlushRoute(w) /\ proc[w].op # "updateRouteSchedule"
  <2> DEFINE new == RouteUpdate(proc[w].rutas[r], route[r], proc[w].cols)
  <2>1. /\ route' = [route EXCEPT ![r] = new] /\ now' = now /\ booking' = booking
        /\ proc[w].at = "flushRoute"
    BY <1>10 DEF FlushRoute, r
  <2>2. new.salida = route[r].salida
    BY <1>w, <1>10, <2>1 DEF RouteUpdate, DepartureIsFresh, RouteRow, r
  <2> HIDE DEF new
  <2>3. DeparturesStay /\ ConfirmedStay
    BY <2>1, <2>2 DEF DeparturesStay, ConfirmedStay, TypeOK
  <2> DEFINE bulk == Call("cancelRoute", "bulk", r, AnyPassenger)
             loop == [proc[w] EXCEPT !.at = "loop", !.todo = proc[w].todo \ {r}, !.cols = {}]
  <2>4. bulk.op = "cancelRoute" /\ bulk.at = "bulk" /\ bulk.todo = {}
    BY DEF Call, Idle
  <2>5. /\ loop.op = proc[w].op /\ loop.at = "loop" /\ loop.todo = proc[w].todo \ {r}
        /\ loop.rutas = proc[w].rutas
    BY DEF Proc
  <2>6. \/ proc[w].op = "cancelRoute" /\ Become(w, bulk)
        \/ Become(w, loop) \/ Done(w)
    BY <1>10 DEF FlushRoute, LoopOn, r
  <2>7. proc[w].todo \subseteq Routes /\ \A s \in proc[w].todo : route[s].estado # "none"
    BY <1>w DEF RouteCopyCloses, Proc
  <2> HIDE DEF bulk, loop
  <2>8. proc[w].op = "cancelRoute" /\ Become(w, bulk) => BoardingIsFresh(w)' /\ DepartureIsFresh(w)'
    BY <1>b, <1>w, <2>4 DEF BoardingIsFresh, DepartureIsFresh, At
  <2>9. Become(w, loop) => BoardingIsFresh(w)' /\ DepartureIsFresh(w)'
    BY <1>b, <1>w, <2>3, <2>5, <2>7 DEF BoardingIsFresh, DepartureIsFresh, DeparturesStay, At
  <2>. QED  BY <1>i, <1>r, <2>1, <2>3, <2>6, <2>8, <2>9, WriteBoards
<1>u. CASE FlushRoute(w) /\ proc[w].op = "updateRouteSchedule"
  <2>1. Done(w) /\ UNCHANGED <<now, booking>>
    BY <1>u DEF FlushRoute
  <2>2. \A v \in Workers : v # w => proc[v].op \in {"none", "cancelBooking"}
    BY <1>u, ReschedulesAlone DEF Rescheduling
  <2>. QED  BY <1>i, <1>r, <2>1, <2>2, WriteBoards DEF Boarding
<1>11. CASE CancelRouteBookings(w)
  <2>1. /\ UNCHANGED <<now, route>> /\ Done(w) /\ w \in Drivers
    BY <1>11, <1>w DEF CancelRouteBookings, BoardingIsFresh, At, Driving
  <2>2. \A s \in Routes, q \in Passengers :
            booking'[s][q] = booking[s][q] \/ booking'[s][q].estado = "CANCELADA"
    BY <1>11 DEF CancelRouteBookings, TypeOK, BookingRow, r
  <2>3. \A s \in Routes, q \in Passengers :
            booking'[s][q].estado = "COMPLETADA" => booking'[s][q].otpUsado
    BY <2>2 DEF BookingsInv
  <2>4. DeparturesStay
    BY <2>1 DEF DeparturesStay
  <2>5. \A v \in Workers : v # w => proc[v].op \notin Boarding
    BY <2>1, DrivesAlone DEF Driving
  <2>. QED  BY <1>i, <2>1, <2>3, <2>4, <2>5, WriteBoards
<1>12. ASSUME NEW s \in Routes, AutoFinalizeCount(w, s)
       PROVE  BookingsInv'
  <2> DEFINE save == [proc[w] EXCEPT !.at = "saveRoute", !.r = s, !.rutas[s].estado = "FINALIZADA"]
             loop == [proc[w] EXCEPT !.at = "loop", !.todo = proc[w].todo \ {s}, !.cols = {}]
  <2>1. /\ save.at = "saveRoute" /\ save.op = proc[w].op /\ save.todo = proc[w].todo
        /\ save.r = s /\ \A q \in Routes : save.rutas[q].salida = proc[w].rutas[q].salida
    BY DEF Proc, RouteRow
  <2>2. /\ loop.at = "loop" /\ loop.op = proc[w].op /\ loop.todo = proc[w].todo \ {s}
        /\ loop.rutas = proc[w].rutas
    BY DEF Proc
  <2>3. /\ UNCHANGED <<now, route, booking>> /\ s \in proc[w].todo
        /\ Done(w) \/ Become(w, save) \/ Become(w, loop)
    BY <1>12 DEF AutoFinalizeCount, LoopOn
  <2>4. proc[w].todo \subseteq Routes
    BY DEF Proc
  <2> HIDE DEF save, loop
  <2>5. Become(w, save) => BoardingIsFresh(w)' /\ DepartureIsFresh(w)'
    BY <1>b, <1>w, <2>1, <2>3, <2>4 DEF BoardingIsFresh, DepartureIsFresh, At
  <2>6. Become(w, loop) => BoardingIsFresh(w)' /\ DepartureIsFresh(w)'
    BY <1>b, <1>w, <2>2, <2>3, <2>4 DEF BoardingIsFresh, DepartureIsFresh, At
  <2>. QED  BY <2>3, <2>5, <2>6, ReadBoards, DoneBoards
<1>. QED  BY <1>1, <1>2, <1>3, <1>s, <1>4, <1>5, <1>6, <1>7, <1>8, <1>9, <1>10, <1>u, <1>11, <1>12
          DEF Continue

LEMMA StepBookings ==
    ASSUME SeatsCompose, OneDriver
    PROVE  TypeOK /\ CountedWhileOpen /\ BookingsInv /\ [Next]_vars => BookingsInv'
<1> SUFFICES ASSUME TypeOK, CountedWhileOpen, BookingsInv, [Next]_vars PROVE BookingsInv'
  OBVIOUS
<1>1. ASSUME NEW w \in Workers, Fail(w) PROVE BookingsInv'
  <2>1. Done(w) /\ UNCHANGED <<route, booking>> /\ faults' = faults + 1
    BY <1>1 DEF Fail
  <2>2. Become(w, Idle) /\ proc'[w] = Idle
    BY <2>1 DEF Done, Become, TypeOK
  <2>3. \A v \in Workers : v # w => proc'[v] = proc[v]
    BY <2>2 DEF Become, TypeOK
  <2>4. DeparturesStay /\ ConfirmedStay
    BY <2>1 DEF DeparturesStay, ConfirmedStay
  <2>5. now' = now
    BY <1>1 DEF Fail
  <2>6. \A v \in Workers : BoardingIsFresh(v)' /\ DepartureIsFresh(v)'
    BY <2>2, <2>3, <2>4, <2>5, IdleBoards, OthersBoard
  <2>. QED  BY <2>1, <2>6 DEF BookingsInv
<1>2. CASE Tick
  <2>1. UNCHANGED <<route, booking, proc>> /\ now' = now + 1
    BY <1>2 DEF Tick
  <2>2. DeparturesStay /\ ConfirmedStay
    BY <2>1 DEF DeparturesStay, ConfirmedStay
  <2>3. \A v \in Workers : BoardingIsFresh(v)' /\ DepartureIsFresh(v)'
    BY <2>1, <2>2, OthersBoard
  <2>. QED  BY <2>1, <2>3 DEF BookingsInv
<1>3. CASE UNCHANGED vars
  BY <1>3, SMTT(60) DEF vars, BookingsInv, BoardingIsFresh, BookingCopyIsFresh, DepartureIsFresh, At
<1>. QED  BY <1>1, <1>2, <1>3, CallsBoard, ContinueBoards DEF Next

(* One session of the driver, one call after the other; any number of        *)
(* passengers and of scheduled runs beside it, as far as they compose, any   *)
(* handler lost midway: a booking is settled once and for good, a used OTP   *)
(* stays used, nobody is COMPLETADA without it, nobody NO_SHOW before the    *)
(* window after departure has passed.                                        *)
THEOREM BookingsSettleOnce ==
    ASSUME SeatsCompose, OneDriver
    PROVE  Spec => BookingLifecycle
<1> DEFINE Settles(r, p) ==
        /\ booking[r][p].estado \in {"CANCELADA", "COMPLETADA", "NO_SHOW"} =>
                booking'[r][p].estado = booking[r][p].estado
        /\ booking[r][p].otpUsado => booking'[r][p].otpUsado
        /\ booking'[r][p].estado = "COMPLETADA" => booking'[r][p].otpUsado
        /\ booking[r][p].estado # "NO_SHOW" /\ booking'[r][p].estado = "NO_SHOW" =>
                now >= route[r].salida + NoShowWindow
<1>1. ASSUME TypeOK, CountedWhileOpen, BookingsInv, Next
      PROVE  \A r \in Routes, p \in Passengers : Settles(r, p)
  <2>1. ASSUME NEW r \in Routes, NEW p \in Passengers, booking'[r][p] = booking[r][p]
        PROVE  Settles(r, p)
    BY <1>1, <2>1 DEF BookingsInv
  <2>2. ASSUME NEW w \in Workers, CreateBookingTransaction(w)
        PROVE  \A r \in Routes, p \in Passengers : Settles(r, p)
    <3>1. \A r \in Routes, p \in Passengers :
            \/ booking'[r][p] = booking[r][p]
            \/ booking[r][p] = NoBooking /\ booking'[r][p].estado = "CONFIRMADA"
      BY <1>1, <2>2 DEF CreateBookingTransaction, BookingAllowed, TypeOK
    <3>. QED  BY <2>1, <3>1 DEF NoBooking
  <2>3. ASSUME NEW w \in Workers, CancelBookingTransaction(w)
        PROVE  \A r \in Routes, p \in Passengers : Settles(r, p)
    <3> DEFINE s == proc[w].r
               q == proc[w].p
    <3>1. /\ s \in Routes /\ q \in Passengers /\ booking[s][q] \in BookingRow
          /\ booking[s][q].estado \in {"CONFIRMADA", "CANCELADA"}
      BY <1>1, <2>3 DEF CancelBookingTransaction, At, CountedWhileOpen, BookingCopyCounts, TypeOK, Proc
    <3>2. booking' = [booking EXCEPT ![s][q].estado = "CANCELADA"]
      BY <2>3 DEF CancelBookingTransaction
    <3>3. \A r \in Routes, p \in Passengers :
            \/ booking'[r][p] = booking[r][p]
            \/ /\ booking[r][p].estado \in {"CONFIRMADA", "CANCELADA"}
               /\ booking'[r][p].estado = "CANCELADA"
               /\ booking'[r][p].otpUsado = booking[r][p].otpUsado
      BY <1>1, <3>1, <3>2 DEF TypeOK, BookingRow
    <3>4. ASSUME NEW r \in Routes, NEW p \in Passengers,
                 /\ booking[r][p].estado \in {"CONFIRMADA", "CANCELADA"}
                 /\ booking'[r][p].estado = "CANCELADA"
                 /\ booking'[r][p].otpUsado = booking[r][p].otpUsado
          PROVE  Settles(r, p)
      BY <3>4
    <3> HIDE DEF Settles
    <3>. QED  BY <2>1, <3>3, <3>4
  <2>4. ASSUME NEW w \in Workers, FlushBooking(w)
        PROVE  \A r \in Routes, p \in Passengers : Settles(r, p)
    <3> DEFINE s == proc[w].r
               q == proc[w].p
               copy == proc[w].reserva
    <3>1. s \in Routes /\ q \in Passengers /\ copy \in BookingRow
      BY <1>1 DEF TypeOK, Proc
    <3>2. booking[s][q] \in BookingRow /\ route[s] \in RouteRow
      BY <1>1, <3>1 DEF TypeOK
    <3>3. BookingCopyIsFresh(w) /\ proc[w].cols = BookingDiff(copy, booking[s][q])
      BY <1>1, <2>4 DEF FlushBooking, BookingsInv, BoardingIsFresh
    <3>4. booking' = [booking EXCEPT ![s][q] = copy]
      BY <2>4, <3>1, <3>2, <3>3, SavedBooking DEF FlushBooking
    <3>5. booking'[s][q] = copy
      BY <1>1, <3>1, <3>4 DEF TypeOK
    <3>6. /\ booking[s][q].estado = "CONFIRMADA"
          /\ booking[s][q].otpUsado => copy.otpUsado
          /\ copy.estado = "COMPLETADA" => copy.otpUsado
          /\ copy.estado = "NO_SHOW" => now - route[s].salida >= NoShowWindow
      BY <3>2, <3>3 DEF BookingCopyIsFresh, BookingRow
    <3>7. now \in Int /\ route[s].salida \in Int /\ NoShowWindow \in Int
      BY <1>1, <3>2, BoundsAssumption DEF TypeOK, RouteRow
    <3>8. copy.estado = "NO_SHOW" => now >= route[s].salida + NoShowWindow
      BY <3>6, <3>7
    <3>9. Settles(s, q)
      <4> HIDE DEF s, q, copy
      <4>. QED  BY <3>5, <3>6, <3>8
    <3>10. \A r \in Routes, p \in Passengers :
              r # s \/ p # q => booking'[r][p] = booking[r][p]
      BY <1>1, <3>1, <3>4 DEF TypeOK
    <3>. QED  BY <2>1, <3>9, <3>10
  <2>5. ASSUME NEW w \in Workers, CancelRouteBookings(w)
        PROVE  \A r \in Routes, p \in Passengers : Settles(r, p)
    <3>1. \A r \in Routes, p \in Passengers :
            \/ booking'[r][p] = booking[r][p]
            \/ booking[r][p].estado = "CONFIRMADA"
               /\ booking'[r][p] = [booking[r][p] EXCEPT !.estado = "CANCELADA"]
      BY <1>1, <2>5 DEF CancelRouteBookings, TypeOK, Pending
    <3>2. \A r \in Routes, p \in Passengers : booking[r][p] \in BookingRow
      BY <1>1 DEF TypeOK
    <3>3. ASSUME NEW r \in Routes, NEW p \in Passengers
          PROVE  Settles(r, p)
      <4> DEFINE row == booking[r][p]
                 new == booking'[r][p]
      <4>1. row \in BookingRow /\ (new = row \/ (row.estado = "CONFIRMADA"
                                           /\ new = [row EXCEPT !.estado = "CANCELADA"]))
        BY <3>1, <3>2
      <4>2. CASE row.estado = "CONFIRMADA" /\ new = [row EXCEPT !.estado = "CANCELADA"]
        <5>1. /\ row.estado = "CONFIRMADA" /\ new.estado = "CANCELADA"
              /\ new.otpUsado = row.otpUsado
          BY <4>1, <4>2 DEF BookingRow
        <5>. QED  BY <5>1
      <4>. QED  BY <2>1, <4>1, <4>2
    <3>. QED  BY <3>3
  <2>6. (\E d \in Drivers, r \in Routes, t \in 0..MaxTime, n \in 1..MaxSeats :
            CreateRoute(d, r, n, t)) \/ (\E w \in Workers : FlushRoute(w))
        => UNCHANGED booking
    BY DEF CreateRoute, FlushRoute
  <2>7. CASE UNCHANGED booking
    BY <2>1, <2>7
  <2> HIDE DEF Settles
  <2>. QED  BY <1>1, <2>2, <2>3, <2>4, <2>5, <2>6, <2>7, Writers
<1>2. TypeOK /\ CountedWhileOpen /\ BookingsInv /\ [Next]_vars =>
        [\A r \in Routes, p \in Passengers : Settles(r, p)]_booking
  BY <1>1 DEF vars
<1>. QED  BY <1>2, TypeCorrect, CountedForever, InitBookings, StepBookings, PTL
          DEF Spec, BookingLifecycle

-----------------------------------------------------------------------------
(***************************************************************************)
(* What the reservation handlers guarantee when only passengers overlap:    *)
(* any number of createBooking and cancelBooking calls side by side, each   *)
(* passenger with one session, every other handler alone, and any of them   *)
(* lost midway.  Then the counter of the free seats is exact, nobody waits  *)
(* for a finished trip, and the handlers implement SeatContract.            *)
(***************************************************************************)
PassengerOps == {"createBooking", "cancelBooking"}

(* The hypothesis of the theorems, as the run `reservations` has it. *)
OnlyPassengersOverlap ==
    /\ Overlap \subseteq PassengerOps \X PassengerOps
    /\ \A c, d \in Clients : Owner[c] = Owner[d] => c = d

-----------------------------------------------------------------------------
(* The inductive invariant: the copies in flight are still those of the     *)
(* rows, since whoever could have written the rows was not let in.           *)

ByThemselves ==
    \A v, w \in Workers : v # w /\ proc[v].op # "none" /\ proc[w].op # "none" =>
        proc[v].op \in PassengerOps /\ proc[w].op \in PassengerOps

(* What a handler is about to write into the row of a route; the row of a   *)
(* booking has BookingCopyIsFresh, above.                                    *)
RouteCopyIsFresh(w) ==
    LET r == proc[w].r
        row == route[r]
        copy == proc[w].rutas[r]
    IN  \/ /\ proc[w].op \in {"completeBooking", "markNoShow", "finalizeRoute",
                              "autoFinalizeExpiredRoutes"}
           /\ row.estado \in {"ACTIVA", "FINALIZADA"} /\ Pending(r) = {}
           /\ copy = [row EXCEPT !.estado = "FINALIZADA"]
        \/ /\ row.estado = "ACTIVA"
           /\ \/ proc[w].op = "cancelRoute" /\ copy = [row EXCEPT !.estado = "CANCELADA"]
              \/ proc[w].op = "updateRouteSchedule"
                 /\ copy = [row EXCEPT !.salida = copy.salida]
              \/ proc[w].op = "startRoute" /\ Unverified(r) = {}
                 /\ copy = [row EXCEPT !.startedAt = TRUE]

FreshPassenger(w) ==
    /\ proc[w].at = "tx" <=> proc[w].op \in PassengerOps
    /\ proc[w].at = "tx" => w \in Clients /\ proc[w].p = Owner[w]
    /\ proc[w].op = "cancelBooking" => booking[proc[w].r][proc[w].p].estado = "CONFIRMADA"

FreshRoute(w) ==
    LET r == proc[w].r
    IN  /\ proc[w].at \in {"saveRoute", "flushRoute"} => RouteCopyIsFresh(w)
        /\ proc[w].at = "flushRoute" => proc[w].cols = RouteDiff(proc[w].rutas[r], route[r])
        /\ At(w, "startRoute", "count") => route[r].estado = "ACTIVA" /\ proc[w].rutas[r] = route[r]
        /\ At(w, "finalizeRoute", "count") =>
              route[r].estado \in {"ACTIVA", "FINALIZADA"} /\ proc[w].rutas[r] = route[r]
        /\ proc[w].at = "reread" =>
              proc[w].op \in {"completeBooking", "markNoShow"} /\ Pending(r) = {}
        /\ At(w, "cancelRoute", "bulk") => route[r].estado = "CANCELADA"
        /\ proc[w].op = "cancelRoute" => w \in Drivers

FreshBooking(w) ==
    /\ proc[w].at \in {"saveBooking", "flushBooking"} => BookingCopyIsFresh(w)
    /\ proc[w].at = "flushBooking" =>
          proc[w].cols = BookingDiff(proc[w].reserva, booking[proc[w].r][proc[w].p])

(* The job: the routes it has still to visit are as it has read them. *)
FreshJob(w) ==
    /\ proc[w].todo # {} => proc[w].op = "autoFinalizeExpiredRoutes"
    /\ \A s \in proc[w].todo :
        \/ s = proc[w].r /\ proc[w].at \in {"saveRoute", "flushRoute"}
        \/ route[s].estado = "ACTIVA" /\ proc[w].rutas[s] = route[s]

Fresh(w) ==
    /\ proc[w].at = "idle" \/ proc[w].op = "none" => proc[w] = Idle
    /\ FreshPassenger(w) /\ FreshRoute(w) /\ FreshBooking(w) /\ FreshJob(w)

(* The counter against the bookings, whatever the state of the route. *)
Accounted(r) ==
    /\ Cardinality(Seated(r)) <= route[r].asientosTotales
    /\ route[r].estado \in {"ACTIVA", "FINALIZADA"} =>
          route[r].asientosDisponibles + Cardinality(Seated(r)) = route[r].asientosTotales
    /\ route[r].estado = "FINALIZADA" => Pending(r) = {}
    /\ route[r].estado = "none" => \A p \in Passengers : booking[r][p].estado = "none"

(* A cancelled route keeps its passengers only while cancelRoute is at work. *)
Released(r) ==
    route[r].estado = "CANCELADA" /\ Pending(r) # {} =>
        faults > 0 \/ \E d \in Drivers : At(d, "cancelRoute", "bulk") /\ proc[d].r = r

SerialInv ==
    /\ ByThemselves
    /\ \A w \in Workers : Fresh(w)
    /\ \A r \in Routes : Accounted(r) /\ Released(r)

LEMMA InitSerial == Init => SerialInv
<1> SUFFICES ASSUME Init PROVE SerialInv
  OBVIOUS
<1>1. \A w \in Workers : proc[w] = Idle
  BY DEF Init
<1>2. ASSUME NEW w \in Workers PROVE Fresh(w)
  BY <1>1 DEF Fresh, FreshPassenger, FreshRoute, FreshBooking, FreshJob, At, Idle, PassengerOps
<1>3. ByThemselves
  BY <1>1 DEF ByThemselves, Idle
<1>4. ASSUME NEW r \in Routes PROVE Accounted(r) /\ Released(r)
  <2>1. route[r] = NoRoute /\ \A p \in Passengers : booking[r][p] = NoBooking
    BY DEF Init, NoRoutes
  <2>2. Seated(r) = {} /\ Cardinality({}) = 0
    BY <2>1, FS_EmptySet DEF Seated, NoBooking
  <2>. QED  BY <2>1, <2>2 DEF Accounted, Released, NoRoute, NoBooking
<1>. QED  BY <1>2, <1>3, <1>4 DEF SerialInv

-----------------------------------------------------------------------------
(* Who is in flight beside whom. *)

LEMMA LoneHandler ==
    ASSUME SerialInv, NEW w \in Workers, proc[w].op \notin PassengerOps \cup {"none"},
           NEW v \in Workers, v # w
    PROVE  proc[v] = Idle
  BY DEF SerialInv, ByThemselves, Fresh

(* op may be called at w, or go on there. *)
Beside(w, op) ==
    \A v \in Workers : v # w /\ proc[v].op # "none" /\ op # "none" =>
        proc[v].op \in PassengerOps /\ op \in PassengerOps

LEMMA CalledBeside ==
    ASSUME OnlyPassengersOverlap, SerialInv, NEW w \in Workers, NEW op, Called(w, op)
    PROVE  Beside(w, op) /\ proc[w].op = "none"
<1>1. \A v \in Workers : proc[v].op # "none" => proc[v].at # "idle"
  BY DEF SerialInv, Fresh, Idle
<1>2. \A v \in Workers : proc[v].op # "none" => <<proc[v].op, op>> \in PassengerOps \X PassengerOps
  BY <1>1 DEF Called, Busy, OnlyPassengersOverlap
<1>3. proc[w] = Idle /\ Idle.op = "none"
  BY DEF Called, SerialInv, Fresh, Idle
<1>4. Beside(w, op)
  BY <1>2 DEF Beside
<1>. QED  BY <1>3, <1>4

LEMMA GoesOnBeside ==
    ASSUME SerialInv, NEW w \in Workers
    PROVE  Beside(w, proc[w].op) /\ Beside(w, "none")
  BY DEF SerialInv, ByThemselves, Beside

LEMMA StayByThemselves ==
    ASSUME TypeOK, SerialInv, NEW w \in Workers, NEW record, Become(w, record),
           Beside(w, record.op)
    PROVE  ByThemselves'
<1>1. \A v \in Workers : proc'[v] = IF v = w THEN record ELSE proc[v]
  BY DEF TypeOK, Become
<1>. QED  BY <1>1 DEF SerialInv, ByThemselves, Beside

LEMMA IdleIsFresh ==
    ASSUME NEW w \in Workers, proc'[w] = Idle
    PROVE  Fresh(w)'
  BY DEF Fresh, FreshPassenger, FreshRoute, FreshBooking, FreshJob, At, Idle, PassengerOps

(* Steps that leave the rows alone. *)
LEMMA SameRowsFresh ==
    ASSUME TypeOK, SerialInv, UNCHANGED <<route, booking>>, now' \in Nat, now' >= now,
           NEW v \in Workers, proc'[v] = proc[v]
    PROVE  Fresh(v)'
<1>1. Fresh(v)
  BY DEF SerialInv
<1>2. proc[v].r \in Routes /\ route[proc[v].r].salida \in Int /\ now \in Nat /\ NoShowWindow \in Nat
  BY BoundsAssumption DEF TypeOK, Proc, RouteRow
<1>3. BookingCopyIsFresh(v) => BookingCopyIsFresh(v)'
  BY <1>2 DEF BookingCopyIsFresh
<1>4. FreshBooking(v)'
  BY <1>1, <1>3 DEF Fresh, FreshBooking
<1>5. FreshPassenger(v)' /\ FreshJob(v)'
  BY <1>1 DEF Fresh, FreshPassenger, FreshJob
<1>6. FreshRoute(v)'
  BY <1>1 DEF Fresh, FreshRoute, RouteCopyIsFresh, At, Pending, Unverified
<1>. QED  BY <1>1, <1>4, <1>5, <1>6 DEF Fresh

LEMMA SameRowsAccounted ==
    ASSUME SerialInv, UNCHANGED <<route, booking>>, NEW r \in Routes
    PROVE  Accounted(r)'
  BY DEF SerialInv, Accounted, Seated, Pending

(* A call, or a statement that only reads. *)
LEMMA ReadStep ==
    ASSUME TypeOK, SerialInv, NEW w \in Workers, NEW record, Become(w, record),
           Beside(w, record.op), Fresh(w)', ~At(w, "cancelRoute", "bulk"),
           UNCHANGED <<now, route, booking, faults>>
    PROVE  SerialInv'
<1>1. \A v \in Workers : v # w => proc'[v] = proc[v]
  BY DEF TypeOK, Become
<1>2. now' \in Nat /\ now' >= now
  BY BoundsAssumption DEF TypeOK
<1>3. \A v \in Workers : Fresh(v)'
  BY <1>1, <1>2, SameRowsFresh
<1>4. \A r \in Routes : Released(r)'
  <2>1. \A d \in Drivers : At(d, "cancelRoute", "bulk") => proc'[d] = proc[d]
    BY <1>1 DEF Workers
  <2>. QED  BY <2>1 DEF SerialInv, Released, Pending, At
<1>. QED  BY <1>3, <1>4, SameRowsAccounted, StayByThemselves DEF SerialInv

LEMMA DoneStep ==
    ASSUME TypeOK, SerialInv, NEW w \in Workers, Done(w), ~At(w, "cancelRoute", "bulk"),
           UNCHANGED <<now, route, booking, faults>>
    PROVE  SerialInv'
<1>1. Become(w, Idle) /\ Idle.op = "none" /\ proc'[w] = Idle
  BY DEF Done, Become, TypeOK, Idle
<1>. QED  BY <1>1, IdleIsFresh, GoesOnBeside, ReadStep

(* A statement that writes, with nobody else in flight. *)
LEMMA LoneWrite ==
    ASSUME TypeOK, SerialInv, NEW w \in Workers, NEW record, Become(w, record),
           proc[w].op \notin PassengerOps \cup {"none"}, record.op \in {proc[w].op, "none"},
           Fresh(w)', \A r \in Routes : Accounted(r)' /\ Released(r)'
    PROVE  SerialInv'
<1>1. \A v \in Workers : v # w => proc'[v] = Idle
  BY LoneHandler DEF TypeOK, Become
<1>. QED  BY <1>1, IdleIsFresh, GoesOnBeside, StayByThemselves DEF SerialInv

-----------------------------------------------------------------------------
(* The calls. *)

LEMMA ClientCallsSerial ==
    ASSUME TypeOK, SerialInv, OnlyPassengersOverlap, NEW c \in Clients, ClientCalls(c)
    PROVE  SerialInv'
<1> c \in Workers /\ Owner[c] \in Passengers
  BY SetsAssumption DEF Workers
<1>a. ASSUME NEW op \in PassengerOps, Called(c, op), NEW r \in Routes, NEW record,
             Become(c, record), record.op = op, record.at = "tx", record.r = r,
             record.p = Owner[c], record.todo = {},
             op = "cancelBooking" => booking[r][Owner[c]].estado = "CONFIRMADA",
             UNCHANGED <<now, route, booking, faults>>
      PROVE  SerialInv'
  <2>1. proc'[c] = record
    BY <1>a DEF Become, TypeOK
  <2>2. Fresh(c)'
    BY <1>a, <2>1 DEF Fresh, FreshPassenger, FreshRoute, FreshBooking, FreshJob, At, PassengerOps
  <2>3. Beside(c, op) /\ ~At(c, "cancelRoute", "bulk")
    BY <1>a, CalledBeside DEF At
  <2>. QED  BY <1>a, <2>2, <2>3, ReadStep
<1>1. ASSUME NEW r \in Routes, CancelBooking(c, r)
      PROVE  SerialInv'
  <2> DEFINE record == Call("cancelBooking", "tx", r, Owner[c])
  <2>1. /\ record.op = "cancelBooking" /\ record.at = "tx" /\ record.r = r
        /\ record.p = Owner[c] /\ record.todo = {}
    BY DEF Call, Idle
  <2>2. /\ Become(c, record) /\ Called(c, "cancelBooking")
        /\ booking[r][Owner[c]].estado = "CONFIRMADA"
        /\ UNCHANGED <<now, route, booking, faults>>
    BY <1>1 DEF CancelBooking
  <2> HIDE DEF record
  <2>. QED  BY <1>a, <2>1, <2>2 DEF PassengerOps
<1>2. ASSUME NEW r \in Routes, NEW m \in MetodoPago, CreateBooking(c, r, m)
      PROVE  SerialInv'
  <2> DEFINE record == [Call("createBooking", "tx", r, Owner[c]) EXCEPT !.reserva.metodoPago = m]
  <2>1. /\ record.op = "createBooking" /\ record.at = "tx" /\ record.r = r
        /\ record.p = Owner[c] /\ record.todo = {}
    BY DEF Call, Idle
  <2>2. /\ Become(c, record) /\ Called(c, "createBooking")
        /\ UNCHANGED <<now, route, booking, faults>>
    BY <1>2 DEF CreateBooking
  <2> HIDE DEF record
  <2>. QED  BY <1>a, <2>1, <2>2 DEF PassengerOps
<1>. QED  BY <1>1, <1>2 DEF ClientCalls

(* A new route meets no copy that is in flight and no booking. *)
LEMMA CreateRouteSerial ==
    ASSUME TypeOK, SerialInv, NEW d \in Drivers, NEW r \in Routes, NEW n \in 1..MaxSeats,
           NEW t \in 0..MaxTime, CreateRoute(d, r, n, t)
    PROVE  SerialInv'
<1> DEFINE row == [estado |-> "ACTIVA", asientosTotales |-> n,
                   asientosDisponibles |-> n, salida |-> t, startedAt |-> FALSE]
<1>1. /\ route' = [route EXCEPT ![r] = row] /\ route[r].estado = "none"
      /\ UNCHANGED <<now, booking, proc, faults>>
  BY DEF CreateRoute, NoRoute
<1>2. /\ row.estado = "ACTIVA" /\ row.asientosTotales = n /\ row.asientosDisponibles = n
      /\ n \in Nat
  BY BoundsAssumption
<1>3. \A s \in Routes : route'[s] = IF s = r THEN row ELSE route[s]
  BY <1>1 DEF TypeOK
<1> HIDE DEF row
<1>4. \A p \in Passengers : booking[r][p].estado = "none"
  BY <1>1 DEF SerialInv, Accounted
<1>5. ASSUME NEW s \in Routes
      PROVE  Accounted(s)' /\ Released(s)'
  <2>1. Seated(s)' = Seated(s) /\ Pending(s)' = Pending(s)
    BY <1>1 DEF Seated, Pending
  <2>2. CASE s = r
    <3>1. Seated(r) = {} /\ Cardinality({}) = 0
      BY <1>4, FS_EmptySet DEF Seated
    <3>. QED  BY <1>1, <1>2, <1>3, <2>1, <2>2, <3>1 DEF Accounted, Released
  <2>3. CASE s # r
    BY <1>1, <1>3, <2>1, <2>3 DEF SerialInv, Accounted, Released, At
  <2>. QED  BY <2>2, <2>3
<1>6. ASSUME NEW v \in Workers
      PROVE  Fresh(v)'
  <2>1. Fresh(v) /\ proc'[v] = proc[v]
    BY <1>1 DEF SerialInv
  <2>2. proc[v].r \in Routes /\ proc[v].p \in Passengers /\ proc[v].todo \subseteq Routes
    BY DEF TypeOK, Proc
  <2>3. FreshPassenger(v)' /\ FreshJob(v)'
    BY <1>1, <1>3, <2>1, <2>2 DEF Fresh, FreshPassenger, FreshJob
  <2>4. BookingCopyIsFresh(v) => proc[v].r # r /\ BookingCopyIsFresh(v)'
    BY <1>1, <1>3, <1>4, <2>2 DEF BookingCopyIsFresh
  <2>5. RouteCopyIsFresh(v) => proc[v].r # r /\ RouteCopyIsFresh(v)'
    BY <1>1, <1>3, <2>2 DEF RouteCopyIsFresh, Pending, Unverified
  <2>6. FreshBooking(v)'
    BY <1>1, <2>1, <2>4 DEF Fresh, FreshBooking
  <2>7. FreshRoute(v)'
    BY <1>1, <1>3, <2>1, <2>2, <2>5 DEF Fresh, FreshRoute, At, Pending
  <2>. QED  BY <2>1, <2>3, <2>6, <2>7 DEF Fresh
<1>7. ByThemselves'
  BY <1>1 DEF SerialInv, ByThemselves
<1>. QED  BY <1>5, <1>6, <1>7 DEF SerialInv

LEMMA DriverCallsSerial ==
    ASSUME TypeOK, SerialInv, OnlyPassengersOverlap, NEW d \in Drivers, DriverCalls(d)
    PROVE  SerialInv'
<1> d \in Workers
  BY DEF Workers
<1>a. ASSUME NEW op, Called(d, op), NEW record, Become(d, record), record.op = op,
             UNCHANGED <<now, route, booking, faults>>,
             proc'[d] = record => Fresh(d)'
      PROVE  SerialInv'
  <2>1. proc'[d] = record
    BY <1>a DEF Become, TypeOK
  <2>2. Beside(d, op) /\ ~At(d, "cancelRoute", "bulk")
    BY <1>a, CalledBeside DEF At
  <2>. QED  BY <1>a, <2>1, <2>2, ReadStep
<1>1. ASSUME NEW r \in Routes, NEW p \in Passengers,
             VerifyOtp(d, r, p) \/ CompleteBooking(d, r, p) \/ MarkNoShow(d, r, p)
      PROVE  SerialInv'
  <2>1. PICK op, copy :
            /\ op \in {"verifyOtp", "completeBooking", "markNoShow"} /\ Called(d, op)
            /\ Become(d, [Call(op, "saveBooking", r, p) EXCEPT !.reserva = copy])
            /\ booking[r][p].estado = "CONFIRMADA"
            /\ \/ op = "verifyOtp" /\ copy = [booking[r][p] EXCEPT !.otpUsado = TRUE]
               \/ op = "completeBooking" /\ booking[r][p].otpUsado
                  /\ copy = [booking[r][p] EXCEPT !.estado = "COMPLETADA"]
               \/ op = "markNoShow" /\ now - route[r].salida >= NoShowWindow
                  /\ copy = [booking[r][p] EXCEPT !.estado = "NO_SHOW"]
            /\ UNCHANGED <<now, route, booking, faults>>
    BY <1>1 DEF VerifyOtp, CompleteBooking, MarkNoShow
  <2> DEFINE record == [Call(op, "saveBooking", r, p) EXCEPT !.reserva = copy]
  <2>2. /\ record.op = op /\ record.at = "saveBooking" /\ record.r = r /\ record.p = p
        /\ record.reserva = copy /\ record.todo = {}
    BY DEF Call, Idle
  <2>3. Become(d, record)
    BY <2>1
  <2> HIDE DEF record
  <2>4. ASSUME proc'[d] = record
        PROVE  Fresh(d)'
    <3>1. BookingCopyIsFresh(d)'
      BY <2>1, <2>2, <2>4 DEF BookingCopyIsFresh
    <3>. QED  BY <2>1, <2>2, <2>4, <3>1
              DEF Fresh, FreshPassenger, FreshRoute, FreshBooking, FreshJob, At, PassengerOps
  <2>. QED  BY <1>a, <2>1, <2>2, <2>3, <2>4
<1>2. ASSUME NEW r \in Routes, NEW op \in {"updateRouteSchedule", "cancelRoute"}, NEW copy,
             Called(d, op), route[r].estado = "ACTIVA",
             \/ op = "cancelRoute" /\ copy = [route[r] EXCEPT !.estado = "CANCELADA"]
             \/ op = "updateRouteSchedule" /\ copy = [route[r] EXCEPT !.salida = copy.salida],
             Become(d, [Call(op, "saveRoute", r, AnyPassenger) EXCEPT !.rutas[r] = copy]),
             UNCHANGED <<now, route, booking, faults>>
      PROVE  SerialInv'
  <2> DEFINE record == [Call(op, "saveRoute", r, AnyPassenger) EXCEPT !.rutas[r] = copy]
  <2>1. /\ record.op = op /\ record.at = "saveRoute" /\ record.r = r
        /\ record.rutas[r] = copy /\ record.todo = {}
    BY DEF Call, Idle, NoRoutes
  <2>2. Become(d, record)
    BY <1>2
  <2> HIDE DEF record
  <2>3. ASSUME proc'[d] = record
        PROVE  Fresh(d)'
    <3>1. RouteCopyIsFresh(d)'
      BY <1>2, <2>1, <2>3 DEF RouteCopyIsFresh
    <3>. QED  BY <1>2, <2>1, <2>3, <3>1
              DEF Fresh, FreshPassenger, FreshRoute, FreshBooking, FreshJob, At, PassengerOps
  <2>. QED  BY <1>2, <1>a, <2>1, <2>2, <2>3
<1>3. ASSUME NEW r \in Routes, NEW op \in {"startRoute", "finalizeRoute"}, Called(d, op),
             route[r].estado \in {"ACTIVA", "FINALIZADA"},
             op = "startRoute" => route[r].estado = "ACTIVA",
             Become(d, [Call(op, "count", r, AnyPassenger) EXCEPT !.rutas[r] = route[r]]),
             UNCHANGED <<now, route, booking, faults>>
      PROVE  SerialInv'
  <2> DEFINE record == [Call(op, "count", r, AnyPassenger) EXCEPT !.rutas[r] = route[r]]
  <2>1. /\ record.op = op /\ record.at = "count" /\ record.r = r
        /\ record.rutas[r] = route[r] /\ record.todo = {}
    BY DEF Call, Idle, NoRoutes
  <2>2. Become(d, record)
    BY <1>3
  <2> HIDE DEF record
  <2>3. ASSUME proc'[d] = record
        PROVE  Fresh(d)'
    BY <1>3, <2>1, <2>3
       DEF Fresh, FreshPassenger, FreshRoute, FreshBooking, FreshJob, At, PassengerOps
  <2>. QED  BY <1>3, <1>a, <2>1, <2>2, <2>3
<1>4. ASSUME NEW r \in Routes, NEW t \in 0..MaxTime, UpdateRouteSchedule(d, r, t)
      PROVE  SerialInv'
  <2>1. route[r] \in RouteRow
    BY DEF TypeOK
  <2> DEFINE copy == [route[r] EXCEPT !.salida = t]
  <2>2. copy = [route[r] EXCEPT !.salida = copy.salida]
    BY <2>1 DEF RouteRow
  <2>3. /\ Called(d, "updateRouteSchedule") /\ route[r].estado = "ACTIVA"
        /\ Become(d, [Call("updateRouteSchedule", "saveRoute", r, AnyPassenger)
                        EXCEPT !.rutas[r] = copy])
        /\ UNCHANGED <<now, route, booking, faults>>
    BY <1>4 DEF UpdateRouteSchedule
  <2> HIDE DEF copy
  <2>. QED  BY <1>2, <2>2, <2>3
<1>5. ASSUME NEW r \in Routes, CancelRoute(d, r)
      PROVE  SerialInv'
  BY <1>2, <1>5 DEF CancelRoute
<1>6. ASSUME NEW r \in Routes, StartRoute(d, r) \/ FinalizeRoute(d, r)
      PROVE  SerialInv'
  BY <1>3, <1>6 DEF StartRoute, FinalizeRoute
<1>. QED  BY <1>1, <1>4, <1>5, <1>6, CreateRouteSerial DEF DriverCalls

LEMMA JobSerial ==
    ASSUME TypeOK, SerialInv, OnlyPassengersOverlap, NEW k \in Crons, AutoFinalizeExpiredRoutes(k)
    PROVE  SerialInv'
<1> k \in Workers
  BY DEF Workers
<1> DEFINE record ==
      [Call("autoFinalizeExpiredRoutes", "loop", AnyRoute, AnyPassenger)
          EXCEPT !.todo = Expired,
                 !.rutas = [r \in Routes |-> IF r \in Expired THEN route[r] ELSE NoRoute]]
<1>1. /\ Called(k, "autoFinalizeExpiredRoutes") /\ Become(k, record)
      /\ UNCHANGED <<now, route, booking, faults>>
  BY DEF AutoFinalizeExpiredRoutes
<1>2. /\ record.op = "autoFinalizeExpiredRoutes" /\ record.at = "loop" /\ record.todo = Expired
      /\ \A s \in Expired : record.rutas[s] = route[s] /\ route[s].estado = "ACTIVA"
  BY DEF Call, Idle, Expired
<1> HIDE DEF record
<1>3. proc'[k] = record
  BY <1>1 DEF Become, TypeOK
<1>4. Fresh(k)'
  <2>1. FreshJob(k)'
    BY <1>1, <1>2, <1>3 DEF FreshJob
  <2>. QED  BY <1>2, <1>3, <2>1 DEF Fresh, FreshPassenger, FreshRoute, FreshBooking, At, PassengerOps
<1>5. Beside(k, "autoFinalizeExpiredRoutes") /\ ~At(k, "cancelRoute", "bulk")
  BY <1>1, CalledBeside DEF At
<1>. QED  BY <1>1, <1>2, <1>4, <1>5, ReadStep

-----------------------------------------------------------------------------
(* The transactions of the passengers. *)

(* Another passenger's call in flight is not touched. *)
LEMMA PassengersFresh ==
    ASSUME TypeOK, SerialInv, NEW v \in Workers, proc'[v] = proc[v],
           proc[v].op \in PassengerOps \cup {"none"},
           proc[v].op = "cancelBooking" =>
                booking'[proc[v].r][proc[v].p].estado = booking[proc[v].r][proc[v].p].estado
    PROVE  Fresh(v)'
<1>1. Fresh(v)
  BY DEF SerialInv
<1>2. CASE proc[v].op = "none"
  BY <1>1, <1>2, IdleIsFresh DEF Fresh
<1>3. CASE proc[v].op \in PassengerOps
  BY <1>1, <1>3 DEF Fresh, FreshPassenger, FreshRoute, FreshBooking, FreshJob, At, PassengerOps
<1>. QED  BY <1>2, <1>3

LEMMA SeatsOfARoute ==
    ASSUME TypeOK, NEW r \in Routes
    PROVE  /\ IsFiniteSet(Seated(r)) /\ Cardinality(Seated(r)) \in Nat
           /\ route[r].asientosTotales \in Nat /\ route[r].asientosDisponibles \in Nat
<1>1. IsFiniteSet(Seated(r))
  BY SetsAssumption, FS_Subset DEF Seated
<1>. QED  BY <1>1, FS_CardinalityType, BoundsAssumption DEF TypeOK, RouteRow

(* A passenger's transaction: one booking and the row of its route. *)
LEMMA PassengerWrite ==
    ASSUME TypeOK, SerialInv, NEW w \in Workers, proc[w].op \in PassengerOps, Done(w),
           NEW r \in Routes, NEW p \in Passengers,
           \A s \in Routes : s # r => booking'[s] = booking[s] /\ route'[s] = route[s],
           \A q \in Passengers : q # p => booking'[r][q] = booking[r][q],
           UNCHANGED <<now, faults>>,
           \A v \in Workers : v # w /\ proc[v].op = "cancelBooking" =>
                proc[v].r # r \/ proc[v].p # p,
           Accounted(r)', Released(r)'
    PROVE  SerialInv'
<1>1. /\ booking \in [Routes -> [Passengers -> BookingRow]] /\ route \in [Routes -> RouteRow]
      /\ proc \in [Workers -> Proc]
  BY DEF TypeOK
<1>2. Become(w, Idle) /\ Idle.op = "none" /\ proc'[w] = Idle
      /\ \A v \in Workers : v # w => proc'[v] = proc[v]
  BY <1>1 DEF Done, Become, Idle
<1>3. ASSUME NEW v \in Workers
      PROVE  Fresh(v)'
  <2>1. CASE v = w
    BY <1>2, <2>1, IdleIsFresh
  <2>2. CASE v # w
    <3>1. proc[v].op \in PassengerOps \cup {"none"}
      BY <2>2 DEF SerialInv, ByThemselves, PassengerOps
    <3>2. proc[v].r \in Routes /\ proc[v].p \in Passengers
      BY <1>1 DEF Proc
    <3>3. proc[v].op = "cancelBooking" =>
             booking'[proc[v].r][proc[v].p] = booking[proc[v].r][proc[v].p]
      BY <1>1, <2>2, <3>2
    <3>. QED  BY <1>2, <2>2, <3>1, <3>3, PassengersFresh
  <2>. QED  BY <2>1, <2>2
<1>4. ASSUME NEW s \in Routes, s # r
      PROVE  Accounted(s)' /\ Released(s)'
  <2>1. booking'[s] = booking[s] /\ route'[s] = route[s]
    BY <1>4
  <2>2. Seated(s)' = Seated(s) /\ Pending(s)' = Pending(s)
    BY <2>1 DEF Seated, Pending
  <2>3. \A d \in Drivers : ~At(d, "cancelRoute", "bulk")
    BY DEF SerialInv, ByThemselves, At, PassengerOps, Workers
  <2>4. Accounted(s)'
    BY <2>1, <2>2 DEF SerialInv, Accounted
  <2>. QED  BY <2>1, <2>2, <2>3, <2>4 DEF SerialInv, Released
<1>5. ByThemselves'
  BY <1>2, GoesOnBeside, StayByThemselves
<1>6. Accounted(r)' /\ Released(r)'
  OBVIOUS
<1>. QED  BY <1>3, <1>4, <1>5, <1>6 DEF SerialInv

LEMMA BookingSerial ==
    ASSUME TypeOK, SerialInv, NEW c \in Workers, CreateBookingTransaction(c)
    PROVE  SerialInv'
<1> DEFINE new == [estado |-> "CONFIRMADA", otpUsado |-> FALSE,
                   metodoPago |-> proc[c].reserva.metodoPago]
<1>1. new.estado = "CONFIRMADA"
  OBVIOUS
<1>2. PICK r \in Routes, p \in Passengers :
        /\ proc[c].op = "createBooking" /\ Done(c) /\ UNCHANGED <<now, faults>>
        /\ BookingAllowed(r, p)
        /\ booking' = [booking EXCEPT ![r][p] = new]
        /\ route' = [route EXCEPT ![r] = TakeSeat(@)]
  <2>1. proc[c].r \in Routes /\ proc[c].p \in Passengers
    BY DEF TypeOK, Proc
  <2>. QED  BY <2>1 DEF CreateBookingTransaction, At
<1> HIDE DEF new
<1>3. /\ booking \in [Routes -> [Passengers -> BookingRow]] /\ route \in [Routes -> RouteRow]
      /\ route[r] \in RouteRow
  BY DEF TypeOK
<1>4. /\ route[r].estado = "ACTIVA" /\ route[r].asientosDisponibles > 0
      /\ booking[r][p].estado = "none"
  BY <1>2 DEF BookingAllowed, RouteIsBookable, NoBooking
<1>5. /\ route'[r].estado = "ACTIVA"
      /\ route'[r].asientosTotales = route[r].asientosTotales
      /\ route'[r].asientosDisponibles = route[r].asientosDisponibles - 1
  BY <1>2, <1>3, <1>4, SeatsOfARoute DEF TakeSeat, RouteRow
<1>6. booking'[r][p] = new /\ \A q \in Passengers : q # p => booking'[r][q] = booking[r][q]
  BY <1>2, <1>3
<1>7. Seated(r)' = Seated(r) \cup {p} /\ p \notin Seated(r)
  BY <1>1, <1>4, <1>6 DEF Seated
<1>8. Cardinality(Seated(r)') = Cardinality(Seated(r)) + 1
  BY <1>7, SeatsOfARoute, FS_AddElement
<1>9. route[r].asientosDisponibles + Cardinality(Seated(r)) = route[r].asientosTotales
  BY <1>4 DEF SerialInv, Accounted
<1>10. Accounted(r)' /\ Released(r)'
  <2>1. /\ Cardinality(Seated(r)') <= route'[r].asientosTotales
        /\ route'[r].asientosDisponibles + Cardinality(Seated(r)') = route'[r].asientosTotales
    BY <1>4, <1>5, <1>8, <1>9, SeatsOfARoute
  <2>. QED  BY <1>5, <2>1 DEF Accounted, Released
<1>11. ASSUME NEW v \in Workers, v # c, proc[v].op = "cancelBooking"
       PROVE  proc[v].r # r \/ proc[v].p # p
  <2>1. booking[proc[v].r][proc[v].p].estado = "CONFIRMADA"
    BY <1>11 DEF SerialInv, Fresh, FreshPassenger
  <2>. QED  BY <1>4, <2>1
<1>12. /\ proc[c].op \in PassengerOps
       /\ \A s \in Routes : s # r => booking'[s] = booking[s] /\ route'[s] = route[s]
  BY <1>2, <1>3 DEF PassengerOps
<1>. QED  BY <1>2, <1>6, <1>10, <1>11, <1>12, PassengerWrite

LEMMA CancellationSerial ==
    ASSUME TypeOK, SerialInv, OnlyPassengersOverlap, NEW c \in Workers, CancelBookingTransaction(c)
    PROVE  SerialInv'
<1>1. PICK r \in Routes, p \in Passengers :
        /\ proc[c].op = "cancelBooking" /\ Done(c) /\ UNCHANGED <<now, faults>>
        /\ r = proc[c].r /\ p = proc[c].p
        /\ booking' = [booking EXCEPT ![r][p].estado = "CANCELADA"]
        /\ route' = [route EXCEPT ![r] = GiveBackSeat(@)]
  <2>1. proc[c].r \in Routes /\ proc[c].p \in Passengers
    BY DEF TypeOK, Proc
  <2>. QED  BY <2>1 DEF CancelBookingTransaction, At
<1>2. /\ booking \in [Routes -> [Passengers -> BookingRow]] /\ route \in [Routes -> RouteRow]
      /\ route[r] \in RouteRow /\ booking[r][p] \in BookingRow
  BY DEF TypeOK
<1>3. booking[r][p].estado = "CONFIRMADA" /\ c \in Clients /\ p = Owner[c]
  BY <1>1 DEF SerialInv, Fresh, FreshPassenger, PassengerOps
<1> DEFINE new == [booking[r][p] EXCEPT !.estado = "CANCELADA"]
           row == GiveBackSeat(route[r])
<1>4. new.estado = "CANCELADA"
  BY <1>2 DEF BookingRow
<1>5. booking' = [booking EXCEPT ![r][p] = new] /\ route' = [route EXCEPT ![r] = row]
  BY <1>1
<1>6. p \in Seated(r) /\ p \in Pending(r)
  BY <1>3 DEF Seated, Pending
<1>7. Cardinality(Seated(r)) >= 1
  BY <1>6, SeatsOfARoute, FS_EmptySet
<1>8. /\ row.estado = route[r].estado /\ row.asientosTotales = route[r].asientosTotales
      /\ route[r].asientosDisponibles + Cardinality(Seated(r)) = route[r].asientosTotales =>
            row.asientosDisponibles = route[r].asientosDisponibles + 1
  <2>1. /\ row.estado = route[r].estado /\ row.asientosTotales = route[r].asientosTotales
        /\ row.asientosDisponibles =
              IF route[r].asientosDisponibles + 1 < route[r].asientosTotales
              THEN route[r].asientosDisponibles + 1 ELSE route[r].asientosTotales
    BY <1>2 DEF GiveBackSeat, RouteRow
  <2> HIDE DEF row
  <2>. QED  BY <1>7, <2>1, SeatsOfARoute
<1> HIDE DEF new, row
<1>9. /\ booking'[r][p] = new /\ \A q \in Passengers : q # p => booking'[r][q] = booking[r][q]
      /\ route'[r] = row
  BY <1>2, <1>5
<1>10. Seated(r)' = Seated(r) \ {p} /\ Pending(r)' \subseteq Pending(r)
  BY <1>4, <1>9 DEF Seated, Pending
<1>11. Cardinality(Seated(r)') = Cardinality(Seated(r)) - 1
  BY <1>6, <1>10, SeatsOfARoute, FS_RemoveElement
<1>12. Accounted(r)' /\ Released(r)'
  <2>1. Accounted(r) /\ Released(r)
    BY DEF SerialInv
  <2>2. route[r].estado # "FINALIZADA" /\ route[r].estado # "none"
    BY <1>3, <1>6, <2>1 DEF Accounted
  <2>3. /\ Cardinality(Seated(r)') <= route'[r].asientosTotales
        /\ route'[r].estado = "ACTIVA" =>
              route'[r].asientosDisponibles + Cardinality(Seated(r)') = route'[r].asientosTotales
    BY <1>8, <1>9, <1>11, <2>1, SeatsOfARoute DEF Accounted
  <2>4. Accounted(r)'
    BY <1>8, <1>9, <2>2, <2>3 DEF Accounted
  <2>5. \A d \in Drivers : ~At(d, "cancelRoute", "bulk")
    BY <1>1 DEF SerialInv, ByThemselves, At, PassengerOps, Workers
  <2>6. Released(r)'
    BY <1>1, <1>8, <1>9, <1>10, <2>1, <2>5 DEF Released
  <2>. QED  BY <2>4, <2>6
<1>13. ASSUME NEW v \in Workers, v # c, proc[v].op = "cancelBooking"
       PROVE  proc[v].r # r \/ proc[v].p # p
  <2>1. v \in Clients /\ proc[v].p = Owner[v]
    BY <1>13 DEF SerialInv, Fresh, FreshPassenger, PassengerOps
  <2>. QED  BY <1>3, <1>13, <2>1 DEF OnlyPassengersOverlap
<1>14. /\ proc[c].op \in PassengerOps
       /\ \A s \in Routes : s # r => booking'[s] = booking[s] /\ route'[s] = route[s]
  BY <1>1, <1>2, <1>5 DEF PassengerOps
<1>. QED  BY <1>1, <1>9, <1>12, <1>13, <1>14, PassengerWrite

-----------------------------------------------------------------------------
(* save(entity) of a copy that is fresh writes exactly the copy. *)

LEMMA SavedRoute ==
    ASSUME NEW copy \in RouteRow, NEW row \in RouteRow,
           copy.asientosTotales = row.asientosTotales
    PROVE  RouteUpdate(copy, row, RouteDiff(copy, row)) = copy
<1>1. /\ "estado" \in RouteDiff(copy, row) <=> copy.estado # row.estado
      /\ "asientosDisponibles" \in RouteDiff(copy, row) <=>
            copy.asientosDisponibles # row.asientosDisponibles
      /\ "salida" \in RouteDiff(copy, row) <=> copy.salida # row.salida
      /\ "startedAt" \in RouteDiff(copy, row) <=> copy.startedAt # row.startedAt
  BY DEF RouteDiff
<1> DEFINE new == RouteUpdate(copy, row, RouteDiff(copy, row))
<1>2. new \in RouteRow
  BY RouteUpdateType
<1>3. /\ new.estado = copy.estado /\ new.asientosTotales = copy.asientosTotales
      /\ new.asientosDisponibles = copy.asientosDisponibles
      /\ new.salida = copy.salida /\ new.startedAt = copy.startedAt
  BY <1>1 DEF RouteUpdate, RouteRow
<1> HIDE DEF new
<1>4. new = copy
  BY <1>2, <1>3 DEF RouteRow
<1>. QED  BY <1>4 DEF new

(* FlushBooking: the state of one booking, from CONFIRMADA. *)
LEMMA FlushedBooking ==
    ASSUME TypeOK, SerialInv, NEW w \in Workers, FlushBooking(w)
    PROVE  LET r == proc[w].r
               p == proc[w].p
               copy == proc[w].reserva
           IN  /\ booking' = [booking EXCEPT ![r][p] = copy]
               /\ booking[r][p].estado = "CONFIRMADA"
               /\ proc[w].op \in {"verifyOtp", "completeBooking", "markNoShow"}
               /\ copy.estado =
                    CASE proc[w].op = "verifyOtp" -> "CONFIRMADA"
                      [] proc[w].op = "completeBooking" -> "COMPLETADA"
                      [] proc[w].op = "markNoShow" -> "NO_SHOW"
<1> DEFINE r == proc[w].r
           p == proc[w].p
           copy == proc[w].reserva
<1>1. /\ r \in Routes /\ p \in Passengers /\ copy \in BookingRow /\ booking[r][p] \in BookingRow
  BY DEF TypeOK, Proc
<1>2. /\ BookingCopyIsFresh(w) /\ proc[w].cols = BookingDiff(copy, booking[r][p])
  BY DEF FlushBooking, SerialInv, Fresh, FreshBooking
<1>3. booking' = [booking EXCEPT ![r][p] = BookingUpdate(copy, booking[r][p], proc[w].cols)]
  BY DEF FlushBooking
<1>4. BookingUpdate(copy, booking[r][p], proc[w].cols) = copy
  BY <1>1, <1>2, SavedBooking
<1>5. booking' = [booking EXCEPT ![r][p] = copy]
  BY <1>3, <1>4
<1> HIDE DEF r, p, copy
<1>6. /\ booking[r][p].estado = "CONFIRMADA"
      /\ proc[w].op \in {"verifyOtp", "completeBooking", "markNoShow"}
      /\ copy.estado =
           CASE proc[w].op = "verifyOtp" -> "CONFIRMADA"
             [] proc[w].op = "completeBooking" -> "COMPLETADA"
             [] proc[w].op = "markNoShow" -> "NO_SHOW"
  BY <1>1, <1>2 DEF BookingCopyIsFresh, BookingRow, r, p, copy
<1>. QED  BY <1>5, <1>6 DEF r, p, copy

LEMMA FlushBookingSerial ==
    ASSUME TypeOK, SerialInv, NEW w \in Workers, FlushBooking(w)
    PROVE  SerialInv'
<1>1. PICK r \in Routes, p \in Passengers, copy \in BookingRow :
        /\ r = proc[w].r /\ p = proc[w].p
        /\ booking' = [booking EXCEPT ![r][p] = copy]
        /\ booking[r][p].estado = "CONFIRMADA"
        /\ copy.estado \in {"CONFIRMADA", "COMPLETADA", "NO_SHOW"}
  <2>1. proc[w].r \in Routes /\ proc[w].p \in Passengers /\ proc[w].reserva \in BookingRow
    BY DEF TypeOK, Proc
  <2>. QED  BY <2>1, FlushedBooking, ZenonT(60)
<1>2. /\ proc[w].op \in {"verifyOtp", "completeBooking", "markNoShow"}
      /\ UNCHANGED <<now, route, faults>>
  BY FlushedBooking DEF FlushBooking
<1>3. booking \in [Routes -> [Passengers -> BookingRow]]
  BY DEF TypeOK
<1>4. /\ \A s \in Routes : s # r => booking'[s] = booking[s]
      /\ \A q \in Passengers : booking'[r][q] = IF q = p THEN copy ELSE booking[r][q]
  BY <1>1, <1>3
<1>5. ASSUME NEW s \in Routes
      PROVE  Seated(s)' = Seated(s) /\ Pending(s)' \subseteq Pending(s)
  BY <1>1, <1>4 DEF Seated, Pending
<1>6. \A d \in Drivers : ~At(d, "cancelRoute", "bulk")
  <2>1. \A v \in Workers : v # w => proc[v] = Idle
    BY <1>2, LoneHandler DEF PassengerOps
  <2>. QED  BY <1>2, <2>1 DEF At, Idle, Workers
<1>7. ASSUME NEW s \in Routes
      PROVE  Accounted(s)' /\ Released(s)'
  <2>1. Accounted(s) /\ Released(s) /\ Accounted(r)
    BY DEF SerialInv
  <2>2. route[r].estado # "none"
    BY <1>1, <2>1 DEF Accounted
  <2>3. route[s].estado = "none" => s # r
    BY <2>2
  <2>4. Accounted(s)'
    BY <1>2, <1>4, <1>5, <2>1, <2>3 DEF Accounted
  <2>5. Released(s)'
    BY <1>2, <1>5, <1>6, <2>1 DEF Released
  <2>. QED  BY <2>4, <2>5
<1>8. PICK record :
        /\ Become(w, record) /\ record.todo = {}
        /\ record.op \in {proc[w].op, "none"}
        /\ \/ record = Idle
           \/ record.at = "count" /\ record.op \in {"completeBooking", "markNoShow"}
  <2>1. Idle.op = "none" /\ Idle.todo = {}
    BY DEF Idle
  <2>2. CASE proc[w].op = "verifyOtp"
    <3>1. Become(w, Idle)
      BY <2>2 DEF FlushBooking, Done
    <3>. QED  BY <2>1, <3>1
  <2>3. CASE proc[w].op # "verifyOtp"
    <3> DEFINE new == Call(proc[w].op, "count", proc[w].r, proc[w].p)
    <3>1. new.op = proc[w].op /\ new.at = "count" /\ new.todo = {}
      BY DEF Call, Idle
    <3>2. Become(w, new)
      BY <2>3 DEF FlushBooking
    <3> HIDE DEF new
    <3>. QED  BY <1>2, <2>3, <3>1, <3>2
  <2>. QED  BY <2>2, <2>3
<1>9. proc'[w] = record
  BY <1>8 DEF Become, TypeOK
<1>10. Fresh(w)'
  <2>1. CASE record = Idle
    BY <1>9, <2>1, IdleIsFresh
  <2>2. CASE record.at = "count" /\ record.op \in {"completeBooking", "markNoShow"}
    BY <1>8, <1>9, <2>2
       DEF Fresh, FreshPassenger, FreshRoute, FreshBooking, FreshJob, At, PassengerOps
  <2>. QED  BY <1>8, <2>1, <2>2
<1>11. proc[w].op \notin PassengerOps \cup {"none"}
  BY <1>2 DEF PassengerOps
<1>. QED  BY <1>7, <1>8, <1>10, <1>11, LoneWrite

(* FlushRoute: what is written is the copy, and what it says of the route. *)
LEMMA FlushedRoute ==
    ASSUME TypeOK, SerialInv, NEW w \in Workers, FlushRoute(w)
    PROVE  LET r == proc[w].r
               copy == proc[w].rutas[r]
           IN  /\ RouteCopyIsFresh(w)
               /\ route' = [route EXCEPT ![r] = copy]
               /\ copy.asientosTotales = route[r].asientosTotales
               /\ copy.asientosDisponibles = route[r].asientosDisponibles
               /\ copy.estado \in {"FINALIZADA", "CANCELADA", route[r].estado}
               /\ copy.estado = "FINALIZADA" => Pending(r) = {}
               /\ copy.estado = "CANCELADA" => proc[w].op = "cancelRoute"
               /\ route[r].estado # "none"
<1> DEFINE r == proc[w].r
           copy == proc[w].rutas[r]
<1>1. r \in Routes /\ copy \in RouteRow /\ route[r] \in RouteRow
  BY DEF TypeOK, Proc
<1>2. RouteCopyIsFresh(w) /\ proc[w].cols = RouteDiff(copy, route[r])
  BY DEF FlushRoute, SerialInv, Fresh, FreshRoute
<1>3. /\ copy.asientosTotales = route[r].asientosTotales
      /\ copy.asientosDisponibles = route[r].asientosDisponibles
      /\ copy.estado \in {"FINALIZADA", "CANCELADA", route[r].estado}
      /\ copy.estado = "FINALIZADA" => Pending(r) = {}
      /\ copy.estado = "CANCELADA" => proc[w].op = "cancelRoute"
      /\ route[r].estado # "none"
  BY <1>1, <1>2 DEF RouteCopyIsFresh, RouteRow
<1>4. RouteUpdate(copy, route[r], proc[w].cols) = copy
  BY <1>1, <1>2, <1>3, SavedRoute
<1>5. route' = [route EXCEPT ![r] = copy]
  BY <1>4 DEF FlushRoute
<1>. QED  BY <1>2, <1>3, <1>5

LEMMA FlushRouteSerial ==
    ASSUME TypeOK, SerialInv, NEW w \in Workers, FlushRoute(w)
    PROVE  SerialInv'
<1>1. PICK r \in Routes, copy \in RouteRow :
        /\ r = proc[w].r
        /\ route' = [route EXCEPT ![r] = copy]
        /\ copy.asientosTotales = route[r].asientosTotales
        /\ copy.asientosDisponibles = route[r].asientosDisponibles
        /\ copy.estado \in {"FINALIZADA", "CANCELADA", route[r].estado}
        /\ copy.estado = "FINALIZADA" => Pending(r) = {} /\ route[r].estado \in {"ACTIVA", "FINALIZADA"}
        /\ copy.estado = "CANCELADA" => proc[w].op = "cancelRoute"
        /\ route[r].estado # "none"
        /\ proc[w].op = "cancelRoute" => copy.estado = "CANCELADA"
  <2>1. proc[w].r \in Routes /\ proc[w].rutas[proc[w].r] \in RouteRow
        /\ route[proc[w].r] \in RouteRow
    BY DEF TypeOK, Proc
  <2>2. RouteCopyIsFresh(w)
    BY FlushedRoute
  <2>3. /\ proc[w].op = "cancelRoute" => proc[w].rutas[proc[w].r].estado = "CANCELADA"
        /\ proc[w].rutas[proc[w].r].estado = "FINALIZADA" =>
              route[proc[w].r].estado \in {"ACTIVA", "FINALIZADA"}
    BY <2>1, <2>2 DEF RouteCopyIsFresh, RouteRow
  <2>. QED  BY <2>1, <2>3, FlushedRoute
<1>2. /\ proc[w].op \notin PassengerOps \cup {"none"} /\ proc[w].at = "flushRoute"
      /\ proc[w].op \in {"completeBooking", "markNoShow", "finalizeRoute", "cancelRoute",
                         "autoFinalizeExpiredRoutes", "updateRouteSchedule", "startRoute"}
      /\ UNCHANGED <<now, booking, faults>>
  BY FlushedRoute DEF FlushRoute, PassengerOps, RouteCopyIsFresh
<1>3. \A s \in Routes : route'[s] = IF s = r THEN copy ELSE route[s]
  BY <1>1 DEF TypeOK
<1>4. PICK record :
        /\ Become(w, record) /\ record.op \in {proc[w].op, "none"}
        /\ \/ record = Idle /\ proc[w].op # "cancelRoute"
           \/ /\ proc[w].op = "cancelRoute" /\ record.op = "cancelRoute" /\ record.at = "bulk"
              /\ record.r = r /\ record.todo = {}
           \/ /\ proc[w].op = "autoFinalizeExpiredRoutes" /\ record.op = proc[w].op
              /\ record.at = "loop" /\ record.todo = proc[w].todo \ {r}
              /\ record.rutas = proc[w].rutas
  <2>1. CASE proc[w].op = "cancelRoute"
    <3> DEFINE new == Call("cancelRoute", "bulk", r, AnyPassenger)
    <3>1. new.op = "cancelRoute" /\ new.at = "bulk" /\ new.r = r /\ new.todo = {}
      BY DEF Call, Idle
    <3>2. Become(w, new)
      BY <1>1, <2>1 DEF FlushRoute
    <3> HIDE DEF new
    <3>. QED  BY <2>1, <3>1, <3>2
  <2>2. CASE proc[w].op = "autoFinalizeExpiredRoutes" /\ proc[w].todo \ {r} # {}
    <3> DEFINE new == [proc[w] EXCEPT !.at = "loop", !.todo = proc[w].todo \ {r}, !.cols = {}]
    <3>1. /\ new.op = proc[w].op /\ new.at = "loop" /\ new.todo = proc[w].todo \ {r}
          /\ new.rutas = proc[w].rutas
      BY DEF TypeOK, Proc
    <3>2. Become(w, new)
      BY <1>1, <2>2 DEF FlushRoute, LoopOn
    <3> HIDE DEF new
    <3>. QED  BY <2>2, <3>1, <3>2
  <2>3. CASE /\ proc[w].op # "cancelRoute"
             /\ ~(proc[w].op = "autoFinalizeExpiredRoutes" /\ proc[w].todo \ {r} # {})
    <3>1. Become(w, Idle) /\ Idle.op = "none"
      BY <1>1, <2>3 DEF FlushRoute, LoopOn, Done, Idle
    <3>. QED  BY <2>3, <3>1
  <2>. QED  BY <2>1, <2>2, <2>3
<1>5. proc'[w] = record
  BY <1>4 DEF Become, TypeOK
<1>6. Fresh(w)'
  <2>1. CASE record = Idle
    BY <1>5, <2>1, IdleIsFresh
  <2>2. CASE record.op = "cancelRoute" /\ record.at = "bulk" /\ record.r = r /\ record.todo = {}
    <3>1. route'[r].estado = "CANCELADA"
      BY <1>1, <1>3, <1>4, <2>2
    <3>2. w \in Drivers
      BY <1>4, <2>2 DEF SerialInv, Fresh, FreshRoute, Idle
    <3>. QED  BY <1>5, <2>2, <3>1, <3>2
              DEF Fresh, FreshPassenger, FreshRoute, FreshBooking, FreshJob, At, PassengerOps
  <2>3. CASE /\ record.op = "autoFinalizeExpiredRoutes" /\ record.at = "loop"
             /\ record.todo = proc[w].todo \ {r} /\ record.rutas = proc[w].rutas
    <3>1. FreshJob(w)'
      <4>1. FreshJob(w) /\ proc[w].todo \subseteq Routes
        BY DEF SerialInv, Fresh, TypeOK, Proc
      <4>. QED  BY <1>1, <1>3, <1>5, <2>3, <4>1 DEF FreshJob
    <3>. QED  BY <1>5, <2>3, <3>1
              DEF Fresh, FreshPassenger, FreshRoute, FreshBooking, At, PassengerOps
  <2>. QED  BY <1>2, <1>4, <2>1, <2>2, <2>3
<1>7. ASSUME NEW s \in Routes
      PROVE  Accounted(s)' /\ Released(s)'
  <2>1. Accounted(s) /\ Released(s) /\ Seated(s)' = Seated(s) /\ Pending(s)' = Pending(s)
    BY <1>2 DEF SerialInv, Seated, Pending
  <2>2. Accounted(s)'
    <3>1. CASE s # r
      BY <1>2, <1>3, <2>1, <3>1 DEF Accounted
    <3>2. CASE s = r
      <4>1. /\ route'[r].estado \in {"FINALIZADA", "CANCELADA", route[r].estado}
            /\ route'[r].asientosTotales = route[r].asientosTotales
            /\ route'[r].asientosDisponibles = route[r].asientosDisponibles
        BY <1>1, <1>3
      <4>2. route'[r].estado = "FINALIZADA" =>
                Pending(r) = {} /\ route[r].estado \in {"ACTIVA", "FINALIZADA"}
        BY <1>1, <1>3
      <4>3. route[r].estado # "none"
        BY <1>1
      <4>. QED  BY <2>1, <3>2, <4>1, <4>2, <4>3 DEF Accounted
    <3>. QED  BY <3>1, <3>2
  <2>3. Released(s)'
    <3>1. \A d \in Drivers : ~At(d, "cancelRoute", "bulk")
      <4>1. \A v \in Workers : v # w => proc[v] = Idle
        BY <1>2, LoneHandler DEF PassengerOps
      <4>. QED  BY <1>2, <4>1 DEF At, Idle, Workers
    <3>2. CASE s # r
      BY <1>2, <1>3, <2>1, <3>1, <3>2 DEF Released
    <3>3. CASE s = r
      <4>1. SUFFICES ASSUME copy.estado = "CANCELADA"
                     PROVE  \E d \in Drivers : At(d, "cancelRoute", "bulk")' /\ proc'[d].r = s
        BY <1>3, <3>3 DEF Released
      <4>2. record.op = "cancelRoute" /\ record.at = "bulk" /\ record.r = r
        BY <1>1, <1>4, <4>1
      <4>3. w \in Drivers
        BY <1>1, <4>1 DEF SerialInv, Fresh, FreshRoute
      <4>. QED  BY <1>5, <3>3, <4>2, <4>3 DEF At
    <3>. QED  BY <3>2, <3>3
  <2>. QED  BY <2>2, <2>3
<1>. QED  BY <1>2, <1>4, <1>6, <1>7, LoneWrite

(* cancelRoute's second UPDATE. *)
LEMMA BulkSerial ==
    ASSUME TypeOK, SerialInv, NEW w \in Workers, CancelRouteBookings(w)
    PROVE  SerialInv'
<1>1. PICK r \in Routes :
        /\ r = proc[w].r /\ proc[w].op = "cancelRoute" /\ proc[w].at = "bulk"
        /\ booking' = [booking EXCEPT ![r] = [p \in Passengers |->
                IF p \in Pending(r) THEN [booking[r][p] EXCEPT !.estado = "CANCELADA"]
                                    ELSE booking[r][p]]]
        /\ Done(w) /\ UNCHANGED <<now, route, faults>>
  <2>1. proc[w].r \in Routes
    BY DEF TypeOK, Proc
  <2>. QED  BY <2>1 DEF CancelRouteBookings, At
<1>2. route[r].estado = "CANCELADA"
  BY <1>1 DEF SerialInv, Fresh, FreshRoute, At
<1>3. \A s \in Routes : s # r => booking'[s] = booking[s]
  BY <1>1 DEF TypeOK
<1>4. \A p \in Passengers :
        booking'[r][p].estado = IF p \in Pending(r) THEN "CANCELADA" ELSE booking[r][p].estado
  <2>1. \A p \in Passengers : [booking[r][p] EXCEPT !.estado = "CANCELADA"].estado = "CANCELADA"
    BY DEF TypeOK, BookingRow
  <2>2. \A p \in Passengers : booking'[r][p] =
            IF p \in Pending(r) THEN [booking[r][p] EXCEPT !.estado = "CANCELADA"]
                                ELSE booking[r][p]
    BY <1>1 DEF TypeOK
  <2>. QED  BY <2>1, <2>2
<1>5. Pending(r)' = {} /\ Seated(r)' \subseteq Seated(r)
  BY <1>4 DEF Pending, Seated
<1>6. ASSUME NEW s \in Routes
      PROVE  Accounted(s)' /\ Released(s)'
  <2>1. Accounted(s) /\ Released(s)
    BY DEF SerialInv
  <2>2. CASE s = r
    <3>1. Cardinality(Seated(r)') <= Cardinality(Seated(r)) /\ Cardinality(Seated(r)') \in Nat
      BY <1>5, SeatsOfARoute, FS_Subset, FS_CardinalityType
    <3>2. Cardinality(Seated(r)') <= route[r].asientosTotales
      BY <2>1, <2>2, <3>1, SeatsOfARoute DEF Accounted
    <3>. QED  BY <1>1, <1>2, <1>5, <2>2, <3>2 DEF Accounted, Released
  <2>3. CASE s # r
    <3>1. Seated(s)' = Seated(s) /\ Pending(s)' = Pending(s)
      BY <1>3, <2>3 DEF Seated, Pending
    <3>2. \A d \in Drivers : ~(At(d, "cancelRoute", "bulk") /\ proc[d].r = s)
      <4>1. \A v \in Workers : v # w => proc[v] = Idle
        BY <1>1, LoneHandler DEF PassengerOps
      <4>. QED  BY <1>1, <2>3, <4>1 DEF At, Idle, Workers
    <3>3. \A p \in Passengers : booking'[s][p] = booking[s][p]
      BY <1>3, <2>3
    <3>4. Accounted(s)'
      BY <1>1, <2>1, <3>1, <3>3 DEF Accounted
    <3>. QED  BY <1>1, <2>1, <3>1, <3>2, <3>4 DEF Released
  <2>. QED  BY <2>2, <2>3
<1>7. Become(w, Idle) /\ Idle.op = "none" /\ proc'[w] = Idle
  BY <1>1 DEF Done, Become, TypeOK, Idle
<1>8. proc[w].op \notin PassengerOps \cup {"none"}
  BY <1>1 DEF PassengerOps
<1>. QED  BY <1>6, <1>7, <1>8, IdleIsFresh, LoneWrite

-----------------------------------------------------------------------------
(* The statements that only read. *)

LEMMA SaveSerial ==
    ASSUME TypeOK, SerialInv, NEW w \in Workers, SaveBooking(w) \/ SaveRoute(w)
    PROVE  SerialInv'
<1> DEFINE r == proc[w].r
           p == proc[w].p
<1>1. proc[w] \in Proc /\ Fresh(w)
  BY DEF TypeOK, SerialInv
<1>2. PICK record :
        /\ Become(w, record)
        /\ record.op = proc[w].op /\ record.r = r /\ record.p = p
        /\ record.rutas = proc[w].rutas /\ record.reserva = proc[w].reserva
        /\ record.todo = proc[w].todo
        /\ record.at \in {"flushBooking", "flushRoute"}
        /\ record.at = "flushBooking" => proc[w].at = "saveBooking"
                  /\ record.cols = BookingDiff(proc[w].reserva, booking[r][p])
        /\ record.at = "flushRoute" => proc[w].at = "saveRoute"
                  /\ record.cols = RouteDiff(proc[w].rutas[r], route[r])
  <2>1. CASE SaveBooking(w)
    <3> DEFINE new == [proc[w] EXCEPT !.at = "flushBooking",
                           !.cols = BookingDiff(proc[w].reserva, booking[r][p])]
    <3>1. Become(w, new) /\ proc[w].at = "saveBooking"
      BY <2>1 DEF SaveBooking
    <3>2. /\ new.op = proc[w].op /\ new.r = r /\ new.p = p /\ new.at = "flushBooking"
          /\ new.rutas = proc[w].rutas /\ new.reserva = proc[w].reserva
          /\ new.todo = proc[w].todo /\ new.cols = BookingDiff(proc[w].reserva, booking[r][p])
      BY <1>1 DEF Proc
    <3> HIDE DEF new
    <3>. QED  BY <3>1, <3>2
  <2>2. CASE SaveRoute(w)
    <3> DEFINE new == [proc[w] EXCEPT !.at = "flushRoute",
                           !.cols = RouteDiff(proc[w].rutas[r], route[r])]
    <3>1. Become(w, new) /\ proc[w].at = "saveRoute"
      BY <2>2 DEF SaveRoute
    <3>2. /\ new.op = proc[w].op /\ new.r = r /\ new.p = p /\ new.at = "flushRoute"
          /\ new.rutas = proc[w].rutas /\ new.reserva = proc[w].reserva
          /\ new.todo = proc[w].todo /\ new.cols = RouteDiff(proc[w].rutas[r], route[r])
      BY <1>1 DEF Proc
    <3> HIDE DEF new
    <3>. QED  BY <3>1, <3>2
  <2>. QED  BY <2>1, <2>2
<1>3. UNCHANGED <<now, route, booking, faults>>
  BY DEF SaveBooking, SaveRoute
<1>5. proc'[w] = record
  BY <1>2 DEF Become, TypeOK
<1>6. ~At(w, "cancelRoute", "bulk") /\ proc[w].op # "none"
  BY <1>1, <1>2 DEF At, Fresh, Idle
<1>7. FreshPassenger(w)'
  BY <1>1, <1>2, <1>3, <1>5 DEF Fresh, FreshPassenger
<1>8. FreshBooking(w)'
  <2>1. BookingCopyIsFresh(w) => BookingCopyIsFresh(w)'
    BY <1>2, <1>3, <1>5 DEF BookingCopyIsFresh
  <2>. QED  BY <1>1, <1>2, <1>3, <1>5, <2>1 DEF Fresh, FreshBooking
<1>9. FreshRoute(w)'
  <2>1. \A s \in Routes : Pending(s)' = Pending(s) /\ Unverified(s)' = Unverified(s)
    BY <1>3 DEF Pending, Unverified
  <2>2. proc[w].r \in Routes /\ proc'[w].r = proc[w].r
    BY <1>1, <1>2, <1>5 DEF Proc
  <2>3. RouteCopyIsFresh(w) => RouteCopyIsFresh(w)'
    BY <1>2, <1>3, <1>5, <2>1, <2>2, ZenonT(60) DEF RouteCopyIsFresh
  <2>. QED  BY <1>1, <1>2, <1>3, <1>5, <2>1, <2>2, <2>3 DEF Fresh, FreshRoute, At
<1>10. FreshJob(w)'
  BY <1>1, <1>2, <1>3, <1>5 DEF Fresh, FreshJob
<1>11. Fresh(w)'
  BY <1>2, <1>3, <1>5, <1>6, <1>7, <1>8, <1>9, <1>10 DEF Fresh
<1>. QED  BY <1>2, <1>3, <1>6, <1>11, GoesOnBeside, ReadStep

(* From a count to the save that it allows. *)
LEMMA CountSerial ==
    ASSUME TypeOK, SerialInv, NEW w \in Workers,
           \/ FinalizeIfReadyCount(w) \/ FinalizeIfReadyRead(w)
           \/ StartRouteCount(w) \/ FinalizeRouteCount(w)
    PROVE  SerialInv'
<1> DEFINE r == proc[w].r
<1>1. proc[w] \in Proc /\ Fresh(w) /\ route[r] \in RouteRow /\ r \in Routes
  BY DEF TypeOK, SerialInv, Proc
<1>2. /\ UNCHANGED <<now, route, booking, faults>>
      /\ proc[w].op \in {"completeBooking", "markNoShow", "startRoute", "finalizeRoute"}
      /\ proc[w].at \in {"count", "reread"}
  BY <1>1 DEF FinalizeIfReadyCount, FinalizeIfReadyRead, StartRouteCount, FinalizeRouteCount, At,
              Fresh, FreshRoute
<1>3. /\ ~At(w, "cancelRoute", "bulk") /\ proc[w].todo = {}
      /\ \A s \in Routes : Pending(s)' = Pending(s) /\ Unverified(s)' = Unverified(s)
  BY <1>1, <1>2 DEF At, Fresh, FreshJob, Pending, Unverified
<1>4. CASE Done(w)
  BY <1>2, <1>3, <1>4, DoneStep
<1>5. ASSUME FinalizeIfReadyCount(w), ~Done(w)
      PROVE  SerialInv'
  <2> DEFINE record == [proc[w] EXCEPT !.at = "reread"]
  <2>1. record.op = proc[w].op /\ record.at = "reread" /\ record.r = r /\ record.todo = {}
    BY <1>1, <1>3 DEF Proc
  <2>2. /\ Become(w, record) /\ Pending(r) = {}
        /\ proc[w].op \in {"completeBooking", "markNoShow"}
    BY <1>5 DEF FinalizeIfReadyCount
  <2> HIDE DEF record
  <2>3. proc'[w] = record
    BY <2>2 DEF Become, TypeOK
  <2>4. /\ proc'[w].r = r
        /\ \A s \in Routes : s = r => Pending(s)' = {}
    BY <1>3, <2>1, <2>2, <2>3
  <2>5. Fresh(w)'
    BY <1>1, <2>1, <2>2, <2>3, <2>4
       DEF Fresh, FreshPassenger, FreshRoute, FreshBooking, FreshJob, At, PassengerOps
  <2>. QED  BY <1>2, <1>3, <2>1, <2>2, <2>5, GoesOnBeside, ReadStep
<1>6. ASSUME NEW copy, Become(w, [proc[w] EXCEPT !.at = "saveRoute", !.rutas[r] = copy]),
             \/ /\ proc[w].op \in {"completeBooking", "markNoShow", "finalizeRoute"}
                /\ route[r].estado \in {"ACTIVA", "FINALIZADA"} /\ Pending(r) = {}
                /\ copy = [route[r] EXCEPT !.estado = "FINALIZADA"]
             \/ /\ proc[w].op = "startRoute" /\ route[r].estado = "ACTIVA" /\ Unverified(r) = {}
                /\ copy = [route[r] EXCEPT !.startedAt = TRUE]
      PROVE  SerialInv'
  <2> DEFINE record == [proc[w] EXCEPT !.at = "saveRoute", !.rutas[r] = copy]
  <2>1. /\ record.op = proc[w].op /\ record.at = "saveRoute" /\ record.r = r
        /\ record.todo = {} /\ record.rutas[r] = copy
    BY <1>1, <1>3 DEF Proc
  <2>2. Become(w, record)
    BY <1>6
  <2> HIDE DEF record
  <2>3. proc'[w] = record
    BY <2>2 DEF Become, TypeOK
  <2>4. proc'[w].r = r
    BY <2>1, <2>3
  <2>5. RouteCopyIsFresh(w)'
    BY <1>1, <1>2, <1>3, <1>6, <2>1, <2>3, <2>4 DEF RouteCopyIsFresh
  <2>6. Fresh(w)'
    BY <1>2, <2>1, <2>3, <2>5
       DEF Fresh, FreshPassenger, FreshRoute, FreshBooking, FreshJob, At, PassengerOps
  <2>. QED  BY <1>2, <1>3, <2>1, <2>2, <2>6, GoesOnBeside, ReadStep
<1>7. ASSUME FinalizeIfReadyRead(w), ~Done(w)
      PROVE  SerialInv'
  <2>1. proc[w].op \in {"completeBooking", "markNoShow"} /\ Pending(r) = {}
    BY <1>1, <1>7 DEF FinalizeIfReadyRead, Fresh, FreshRoute
  <2>. QED  BY <1>6, <1>7, <2>1 DEF FinalizeIfReadyRead
<1>8. ASSUME StartRouteCount(w), ~Done(w)
      PROVE  SerialInv'
  <2>1. /\ proc[w].op = "startRoute" /\ route[r].estado = "ACTIVA" /\ proc[w].rutas[r] = route[r]
        /\ Unverified(r) = {}
    BY <1>1, <1>8 DEF StartRouteCount, Fresh, FreshRoute, At
  <2>2. Become(w, [proc[w] EXCEPT !.at = "saveRoute", !.rutas[r].startedAt = TRUE])
    BY <1>8 DEF StartRouteCount
  <2>3. [proc[w] EXCEPT !.at = "saveRoute", !.rutas[r].startedAt = TRUE]
        = [proc[w] EXCEPT !.at = "saveRoute", !.rutas[r] = [route[r] EXCEPT !.startedAt = TRUE]]
    BY <1>1, <2>1 DEF Proc
  <2>. QED  BY <1>6, <2>1, <2>2, <2>3
<1>9. ASSUME FinalizeRouteCount(w), ~Done(w)
      PROVE  SerialInv'
  <2>1. /\ proc[w].op = "finalizeRoute" /\ route[r].estado \in {"ACTIVA", "FINALIZADA"}
        /\ proc[w].rutas[r] = route[r] /\ Pending(r) = {}
    BY <1>1, <1>9 DEF FinalizeRouteCount, Fresh, FreshRoute, At
  <2>2. Become(w, [proc[w] EXCEPT !.at = "saveRoute", !.rutas[r].estado = "FINALIZADA"])
    BY <1>9 DEF FinalizeRouteCount
  <2>3. [proc[w] EXCEPT !.at = "saveRoute", !.rutas[r].estado = "FINALIZADA"]
        = [proc[w] EXCEPT !.at = "saveRoute", !.rutas[r] = [route[r] EXCEPT !.estado = "FINALIZADA"]]
    BY <1>1, <2>1 DEF Proc
  <2>. QED  BY <1>6, <2>1, <2>2, <2>3
<1>. QED  BY <1>4, <1>5, <1>7, <1>8, <1>9

LEMMA JobCountSerial ==
    ASSUME TypeOK, SerialInv, NEW w \in Workers, NEW s \in Routes, AutoFinalizeCount(w, s)
    PROVE  SerialInv'
<1>1. proc[w] \in Proc /\ Fresh(w) /\ route[s] \in RouteRow /\ proc[w].todo \subseteq Routes
  BY DEF TypeOK, SerialInv, Proc
<1>2. /\ UNCHANGED <<now, route, booking, faults>> /\ s \in proc[w].todo
      /\ proc[w].op = "autoFinalizeExpiredRoutes" /\ proc[w].at = "loop"
  BY DEF AutoFinalizeCount, At
<1>3. \A t \in proc[w].todo : route[t].estado = "ACTIVA" /\ proc[w].rutas[t] = route[t]
  BY <1>1, <1>2 DEF Fresh, FreshJob
<1>4. ~At(w, "cancelRoute", "bulk")
  BY <1>2 DEF At
<1>5. CASE Done(w)
  BY <1>2, <1>4, <1>5, DoneStep
<1>6. CASE Become(w, [proc[w] EXCEPT !.at = "loop", !.todo = proc[w].todo \ {s}, !.cols = {}])
  <2> DEFINE record == [proc[w] EXCEPT !.at = "loop", !.todo = proc[w].todo \ {s}, !.cols = {}]
  <2>1. /\ record.op = proc[w].op /\ record.at = "loop" /\ record.rutas = proc[w].rutas
        /\ record.todo = proc[w].todo \ {s}
    BY <1>1 DEF Proc
  <2>2. Become(w, record)
    BY <1>6
  <2> HIDE DEF record
  <2>3. proc'[w] = record
    BY <2>2 DEF Become, TypeOK
  <2>4. FreshJob(w)'
    BY <1>2, <1>3, <2>1, <2>3 DEF FreshJob
  <2>5. Fresh(w)'
    BY <1>2, <2>1, <2>3, <2>4 DEF Fresh, FreshPassenger, FreshRoute, FreshBooking, At, PassengerOps
  <2>. QED  BY <1>2, <1>4, <2>1, <2>2, <2>5, GoesOnBeside, ReadStep
<1>7. CASE /\ Pending(s) = {}
           /\ Become(w, [proc[w] EXCEPT !.at = "saveRoute", !.r = s, !.rutas[s].estado = "FINALIZADA"])
  <2> DEFINE record == [proc[w] EXCEPT !.at = "saveRoute", !.r = s, !.rutas[s].estado = "FINALIZADA"]
  <2>1. /\ record.op = proc[w].op /\ record.at = "saveRoute" /\ record.r = s
        /\ record.rutas[s] = [route[s] EXCEPT !.estado = "FINALIZADA"]
        /\ record.todo = proc[w].todo
        /\ \A t \in proc[w].todo : t # s => record.rutas[t] = proc[w].rutas[t]
    BY <1>1, <1>2, <1>3 DEF Proc
  <2>2. Become(w, record)
    BY <1>7
  <2> HIDE DEF record
  <2>3. proc'[w] = record
    BY <2>2 DEF Become, TypeOK
  <2>4. FreshJob(w)'
    BY <1>2, <1>3, <2>1, <2>3 DEF FreshJob
  <2>5. RouteCopyIsFresh(w)'
    <3>1. Pending(s)' = {}
      BY <1>2, <1>7 DEF Pending
    <3>. QED  BY <1>2, <1>3, <2>1, <2>3, <3>1 DEF RouteCopyIsFresh
  <2>6. Fresh(w)'
    BY <1>2, <2>1, <2>3, <2>4, <2>5 DEF Fresh, FreshPassenger, FreshRoute, FreshBooking, At, PassengerOps
  <2>. QED  BY <1>2, <1>4, <2>1, <2>2, <2>6, GoesOnBeside, ReadStep
<1>. QED  BY <1>5, <1>6, <1>7 DEF AutoFinalizeCount, LoopOn

LEMMA ContinueSerial ==
    ASSUME TypeOK, SerialInv, OnlyPassengersOverlap, NEW w \in Workers, Continue(w)
    PROVE  SerialInv'
<1>1. ASSUME CreateBookingRefused(w)
      PROVE  SerialInv'
  BY <1>1, DoneStep DEF CreateBookingRefused, At
<1>. QED  BY <1>1, BookingSerial, CancellationSerial, SaveSerial, FlushBookingSerial, CountSerial,
             FlushRouteSerial, BulkSerial, JobCountSerial DEF Continue

LEMMA FailSerial ==
    ASSUME TypeOK, SerialInv, NEW w \in Workers, Fail(w)
    PROVE  SerialInv'
<1>1. /\ Become(w, Idle) /\ Idle.op = "none" /\ proc'[w] = Idle
      /\ \A v \in Workers : v # w => proc'[v] = proc[v]
  BY DEF Fail, Done, Become, TypeOK, Idle
<1>2. UNCHANGED <<now, route, booking>> /\ faults' > 0 /\ now' \in Nat /\ now' >= now
  BY BoundsAssumption DEF Fail, TypeOK
<1>3. \A v \in Workers : Fresh(v)'
  BY <1>1, <1>2, IdleIsFresh, SameRowsFresh
<1>4. ByThemselves'
  BY <1>1, GoesOnBeside, StayByThemselves
<1>5. \A r \in Routes : Accounted(r)' /\ Released(r)'
  BY <1>2, SameRowsAccounted DEF Released
<1>. QED  BY <1>3, <1>4, <1>5 DEF SerialInv

LEMMA TimeSerial ==
    ASSUME TypeOK, SerialInv, UNCHANGED <<route, booking, proc, faults>>,
           now' = now \/ now' = now + 1
    PROVE  SerialInv'
<1>1. now' \in Nat /\ now' >= now
  BY BoundsAssumption DEF TypeOK
<1>2. \A v \in Workers : Fresh(v)'
  BY <1>1, SameRowsFresh
<1>3. ByThemselves'
  BY DEF SerialInv, ByThemselves
<1>4. \A r \in Routes : Accounted(r)' /\ Released(r)'
  BY SameRowsAccounted DEF SerialInv, Released, Pending, At
<1>. QED  BY <1>2, <1>3, <1>4 DEF SerialInv

LEMMA StepSerial ==
    ASSUME OnlyPassengersOverlap
    PROVE  TypeOK /\ SerialInv /\ [Next]_vars => SerialInv'
<1> SUFFICES ASSUME TypeOK, SerialInv, [Next]_vars PROVE SerialInv'
  OBVIOUS
<1>1. CASE Tick \/ UNCHANGED vars
  BY <1>1, TimeSerial DEF Tick, vars
<1>. QED  BY <1>1, ClientCallsSerial, DriverCallsSerial, JobSerial, ContinueSerial, FailSerial
          DEF Next

(* What follows holds as long as only passengers overlap: the invariant.     *)
THEOREM SerialForever ==
    ASSUME OnlyPassengersOverlap
    PROVE  Spec => []SerialInv
  BY InitSerial, StepSerial, TypeCorrect, PTL DEF Spec

(* asientosDisponibles, which two transactions count up and down and every   *)
(* save of a route may write, is on every open or finished route exactly     *)
(* the number of seats that no passenger holds.                              *)
THEOREM SeatsAddUp ==
    ASSUME OnlyPassengersOverlap
    PROVE  Spec => []SeatAccounting
<1>1. SerialInv => SeatAccounting
  BY DEF SerialInv, Accounted, SeatAccounting
<1>. QED  BY <1>1, SerialForever, PTL

(* A finished route has no CONFIRMADA booking left, a cancelled one only     *)
(* until the second UPDATE of cancelRoute, or for ever when that was lost.   *)
THEOREM NobodyLeftWaiting ==
    ASSUME OnlyPassengersOverlap
    PROVE  Spec => []SettledRoutes
<1>1. SerialInv => SettledRoutes
  BY DEF SerialInv, Accounted, Released, SettledRoutes
<1>. QED  BY <1>1, SerialForever, PTL

-----------------------------------------------------------------------------
(* ROUTE_START_PENDING_PASSENGERS: no step starts a route again, or while    *)
(* one of its passengers has not given the OTP, between the count and the    *)
(* UPDATE included.                                                          *)
THEOREM StartsVerified ==
    ASSUME OnlyPassengersOverlap
    PROVE  Spec => StartsWithEverybodyVerified
<1>1. TypeOK /\ SerialInv /\ [Next]_vars =>
        [\A r \in Routes : route[r].startedAt # route'[r].startedAt =>
            route'[r].startedAt /\ Unverified(r) = {}]_route
  <2> SUFFICES ASSUME TypeOK, SerialInv, Next, NEW r \in Routes,
                      route[r].startedAt # route'[r].startedAt
               PROVE  route'[r].startedAt /\ Unverified(r) = {}
    BY DEF vars
  <2>0. /\ route \in [Routes -> RouteRow]
        /\ \A s \in Routes : route[s] \in RouteRow /\ route[s].startedAt \in BOOLEAN
    BY DEF TypeOK, RouteRow
  <2>1. ASSUME NEW d \in Drivers, NEW s \in Routes, NEW t \in 0..MaxTime, NEW n \in 1..MaxSeats,
               CreateRoute(d, s, n, t)
        PROVE  FALSE
    <3>1. route'[r] = route[r] \/ (route[r] = NoRoute /\ route'[r].startedAt = FALSE)
      BY <2>0, <2>1 DEF CreateRoute
    <3>2. NoRoute.startedAt = FALSE
      BY DEF NoRoute
    <3>. QED  BY <3>1, <3>2
  <2>2. ASSUME NEW w \in Workers, CreateBookingTransaction(w) \/ CancelBookingTransaction(w)
        PROVE  FALSE
    <3>1. PICK s, row :
            /\ s \in Routes /\ route' = [route EXCEPT ![s] = row]
            /\ row = TakeSeat(route[s]) \/ row = GiveBackSeat(route[s])
      <4>1. proc[w].r \in Routes
        BY DEF TypeOK, Proc
      <4>. QED  BY <2>2, <4>1 DEF CreateBookingTransaction, CancelBookingTransaction
    <3>2. /\ TakeSeat(route[s]).startedAt = route[s].startedAt
          /\ GiveBackSeat(route[s]).startedAt = route[s].startedAt
      BY <2>0 DEF TakeSeat, GiveBackSeat, RouteRow
    <3>. QED  BY <2>0, <3>1, <3>2
  <2>3. ASSUME NEW w \in Workers, FlushRoute(w)
        PROVE  route'[r].startedAt /\ Unverified(r) = {}
    <3> DEFINE s == proc[w].r
               copy == proc[w].rutas[s]
    <3>1. s \in Routes /\ copy \in RouteRow
      BY DEF TypeOK, Proc
    <3>2. RouteCopyIsFresh(w) /\ route' = [route EXCEPT ![s] = copy]
      BY <2>3, FlushedRoute
    <3>3. copy.startedAt # route[s].startedAt =>
            /\ copy.startedAt = TRUE
            /\ Unverified(s) = {}
      BY <2>0, <3>1, <3>2 DEF RouteCopyIsFresh, RouteRow
    <3>4. r = s /\ route'[r] = copy
      BY <2>0, <3>1, <3>2
    <3> HIDE DEF s, copy
    <3>. QED  BY <3>3, <3>4
  <2>4. ASSUME NEW w \in Workers, FlushBooking(w) \/ CancelRouteBookings(w)
        PROVE  FALSE
    BY <2>4 DEF FlushBooking, CancelRouteBookings
  <2>. QED  BY <2>1, <2>2, <2>3, <2>4, Writers
<1>. QED  BY <1>1, SerialForever, TypeCorrect, PTL DEF Spec, StartsWithEverybodyVerified

-----------------------------------------------------------------------------
(* SeatContract: the variables of the contract, as the instance defines them. *)

Seen(estado) ==
    CASE estado = "none" -> "none"
      [] estado = "CONFIRMADA" -> "held"
      [] estado = "CANCELADA" -> "released"
      [] OTHER -> "used"

Phase == [r \in Routes |-> route[r].estado]
Capacity == [r \in Routes |-> route[r].asientosTotales]
Seat == [r \in Routes |-> [p \in Passengers |-> Seen(booking[r][p].estado)]]

LEMMA SeenStates ==
    /\ Seen("none") = "none" /\ Seen("CONFIRMADA") = "held" /\ Seen("CANCELADA") = "released"
    /\ Seen("COMPLETADA") = "used" /\ Seen("NO_SHOW") = "used"
    /\ \A e \in EstadoReserva \cup {"none"} :
          /\ Seen(e) = "none" <=> e = "none"
          /\ Seen(e) = "held" <=> e = "CONFIRMADA"
          /\ Seen(e) = "released" <=> e = "CANCELADA"
          /\ Seen(e) = "used" <=> e \in {"COMPLETADA", "NO_SHOW"}
  BY DEF Seen, EstadoReserva

LEMMA SeatsAsSeen ==
    ASSUME TypeOK, NEW r \in Routes
    PROVE  Contract!With(r, "held") = Pending(r) /\ Contract!Taken(r) = Seated(r)
<1>1. \A p \in Passengers : booking[r][p].estado \in EstadoReserva \cup {"none"}
  BY DEF TypeOK, BookingRow
<1>2. ASSUME NEW s
      PROVE  Contract!With(r, s) = {p \in Passengers : Seen(booking[r][p].estado) = s}
  BY DEF Contract!With, Seen
<1>3. Contract!With(r, "held") = Pending(r)
  BY <1>1, <1>2, SeenStates DEF Pending
<1>4. Contract!Taken(r) = Seated(r)
  BY <1>1, <1>2, SeenStates DEF Contract!Taken, Seated
<1>. QED  BY <1>3, <1>4

LEMMA InitContract == Init => Contract!Init
<1> SUFFICES ASSUME Init PROVE Contract!Init
  OBVIOUS
<1>1. /\ \A r \in Routes : route[r].estado = "none" /\ route[r].asientosTotales = 0
      /\ \A r \in Routes, p \in Passengers : booking[r][p].estado = "none"
  BY DEF Init, NoRoutes, NoRoute, NoBooking
<1>2. /\ Phase = [r \in Routes |-> "none"] /\ Capacity = [r \in Routes |-> 0]
      /\ Seat = [r \in Routes |-> [p \in Passengers |-> "none"]]
  BY <1>1, SeenStates DEF Phase, Capacity, Seat
<1>. QED  BY <1>2 DEF Contract!Init, Phase, Capacity, Seat, Seen

(* A step that changes one seat, or the phase of one route. *)
LEMMA OneSeat ==
    ASSUME TypeOK, NEW r \in Routes, NEW p \in Passengers, NEW state,
           \A s \in Routes : s # r => booking'[s] = booking[s],
           \A q \in Passengers : q # p => booking'[r][q] = booking[r][q],
           Seen(booking'[r][p].estado) = state
    PROVE  Seat' = [Seat EXCEPT ![r][p] = state]
<1>1. ASSUME NEW s \in Routes, NEW q \in Passengers
      PROVE  Seen(booking'[s][q].estado) =
                IF s = r /\ q = p THEN state ELSE Seen(booking[s][q].estado)
  BY <1>1
<1>2. Seat' = [s \in Routes |-> [q \in Passengers |-> Seen(booking'[s][q].estado)]]
  BY DEF Seat, Seen
<1>3. Seat' = [s \in Routes |-> [q \in Passengers |->
                    IF s = r /\ q = p THEN state ELSE Seat[s][q]]]
  BY <1>1, <1>2 DEF Seat
<1>4. Seat = [s \in Routes |-> [q \in Passengers |-> Seat[s][q]]]
  BY DEF Seat
<1> HIDE DEF Seat
<1>. QED  BY <1>3, <1>4

LEMMA OnePhase ==
    ASSUME TypeOK, NEW r \in Routes, NEW copy, route' = [route EXCEPT ![r] = copy],
           copy.asientosTotales = route[r].asientosTotales
    PROVE  Phase' = [Phase EXCEPT ![r] = copy.estado] /\ Capacity' = Capacity
<1>1. \A s \in Routes : route'[s] = IF s = r THEN copy ELSE route[s]
  BY DEF TypeOK
<1>2. /\ Phase' = [s \in Routes |-> route'[s].estado]
      /\ Capacity' = [s \in Routes |-> route'[s].asientosTotales]
  BY DEF Phase, Capacity
<1>3. Phase' = [s \in Routes |-> IF s = r THEN copy.estado ELSE route[s].estado]
  BY <1>1, <1>2
<1>4. Capacity' = [s \in Routes |-> route[s].asientosTotales]
  BY <1>1, <1>2
<1>. QED  BY <1>3, <1>4 DEF Phase, Capacity

LEMMA SameCardinality ==
    ASSUME NEW S
    PROVE  Contract!Cardinality(S) = Cardinality(S)
  BY DEF Contract!Cardinality, Cardinality

(* The actions of the contract, in those names. *)
LEMMA Stutters ==
    ASSUME Phase' = Phase, Capacity' = Capacity, Seat' = Seat
    PROVE  UNCHANGED Contract!vars
  BY DEF Contract!vars, Phase, Capacity, Seat, Seen

LEMMA Offers ==
    ASSUME NEW r \in Routes, NEW n \in 1..MaxSeats,
           Phase[r] = "none", Phase' = [Phase EXCEPT ![r] = "ACTIVA"],
           Capacity' = [Capacity EXCEPT ![r] = n], Seat' = Seat
    PROVE  Contract!Next
<1>1. Contract!Offer(r)
  BY DEF Contract!Offer, Phase, Capacity, Seat, Seen
<1>. QED  BY <1>1 DEF Contract!Next

LEMMA Reserves ==
    ASSUME NEW r \in Routes, NEW p \in Passengers,
           Phase[r] = "ACTIVA", Seat[r][p] = "none", Cardinality(Contract!Taken(r)) < Capacity[r],
           Seat' = [Seat EXCEPT ![r][p] = "held"], Phase' = Phase, Capacity' = Capacity
    PROVE  Contract!Next
<1>1. Contract!Reserve(r, p)
  BY SameCardinality DEF Contract!Reserve, Phase, Capacity, Seat, Seen
<1>. QED  BY <1>1 DEF Contract!Next

LEMMA Leaves ==
    ASSUME NEW r \in Routes, NEW p \in Passengers, NEW state \in {"released", "used"},
           Seat[r][p] = "held", Seat' = [Seat EXCEPT ![r][p] = state],
           Phase' = Phase, Capacity' = Capacity
    PROVE  Contract!Next
<1>1. Contract!Leave(r, p)
  BY DEF Contract!Leave, Phase, Capacity, Seat, Seen
<1>. QED  BY <1>1 DEF Contract!Next

LEMMA Finishes ==
    ASSUME NEW r \in Routes, Phase[r] = "ACTIVA", Contract!With(r, "held") = {},
           Phase' = [Phase EXCEPT ![r] = "FINALIZADA"], Capacity' = Capacity, Seat' = Seat
    PROVE  Contract!Next
<1>1. Contract!Finish(r)
  BY DEF Contract!Finish, Phase, Capacity, Seat, Seen
<1>. QED  BY <1>1 DEF Contract!Next

LEMMA Withdraws ==
    ASSUME NEW r \in Routes, Phase[r] = "ACTIVA",
           Phase' = [Phase EXCEPT ![r] = "CANCELADA"], Capacity' = Capacity, Seat' = Seat
    PROVE  Contract!Next
<1>1. Contract!Withdraw(r)
  BY DEF Contract!Withdraw, Phase, Capacity, Seat, Seen
<1>. QED  BY <1>1 DEF Contract!Next

LEMMA Releases ==
    ASSUME NEW r \in Routes, Phase[r] = "CANCELADA", Phase' = Phase, Capacity' = Capacity,
           Seat' = [Seat EXCEPT ![r] = [q \in Passengers |->
                        IF Seat[r][q] = "held" THEN "released" ELSE Seat[r][q]]]
    PROVE  Contract!Next
<1>1. Contract!ReleaseAll(r)
  BY DEF Contract!ReleaseAll, Phase, Capacity, Seat, Seen
<1>. QED  BY <1>1 DEF Contract!Next

LEMMA StepContract ==
    ASSUME TypeOK, SerialInv, Next
    PROVE  [Contract!Next]_(Contract!vars)
<1>s. CASE Phase' = Phase /\ Capacity' = Capacity /\ Seat' = Seat
  BY <1>s, Stutters
<1>t. /\ route \in [Routes -> RouteRow] /\ booking \in [Routes -> [Passengers -> BookingRow]]
      /\ \A s \in Routes : Phase[s] = route[s].estado /\ Capacity[s] = route[s].asientosTotales
      /\ \A s \in Routes, q \in Passengers : Seat[s][q] = Seen(booking[s][q].estado)
  BY DEF TypeOK, Phase, Capacity, Seat
<1>p. UNCHANGED route => Phase' = Phase /\ Capacity' = Capacity
  BY DEF Phase, Capacity
<1>b. UNCHANGED booking => Seat' = Seat
  BY DEF Seat, Seen
<1>1. ASSUME NEW d \in Drivers, NEW r \in Routes, NEW t \in 0..MaxTime, NEW n \in 1..MaxSeats,
             CreateRoute(d, r, n, t)
      PROVE  Contract!Next
  <2> DEFINE row == [estado |-> "ACTIVA", asientosTotales |-> n,
                     asientosDisponibles |-> n, salida |-> t, startedAt |-> FALSE]
  <2>1. route' = [route EXCEPT ![r] = row] /\ UNCHANGED booking /\ route[r].estado = "none"
    BY <1>1 DEF CreateRoute, NoRoute
  <2>2. row.estado = "ACTIVA" /\ row.asientosTotales = n
    OBVIOUS
  <2> HIDE DEF row
  <2>3. \A s \in Routes : route'[s] = IF s = r THEN row ELSE route[s]
    BY <1>t, <2>1
  <2>4. /\ Phase' = [s \in Routes |-> IF s = r THEN "ACTIVA" ELSE route[s].estado]
        /\ Capacity' = [s \in Routes |-> IF s = r THEN n ELSE route[s].asientosTotales]
    <3>1. /\ Phase' = [s \in Routes |-> route'[s].estado]
          /\ Capacity' = [s \in Routes |-> route'[s].asientosTotales]
      BY DEF Phase, Capacity
    <3>. QED  BY <2>2, <2>3, <3>1
  <2>5. Phase' = [Phase EXCEPT ![r] = "ACTIVA"] /\ Capacity' = [Capacity EXCEPT ![r] = n]
    BY <2>4 DEF Phase, Capacity
  <2>. QED  BY <1>b, <1>t, <2>1, <2>5, Offers
<1>2. ASSUME NEW w \in Workers, CreateBookingTransaction(w)
      PROVE  Contract!Next
  <2> DEFINE new == [estado |-> "CONFIRMADA", otpUsado |-> FALSE,
                     metodoPago |-> proc[w].reserva.metodoPago]
  <2>1. new.estado = "CONFIRMADA"
    OBVIOUS
  <2>2. PICK r \in Routes, p \in Passengers :
          /\ BookingAllowed(r, p)
          /\ booking' = [booking EXCEPT ![r][p] = new]
          /\ route' = [route EXCEPT ![r] = TakeSeat(@)]
    <3>1. proc[w].r \in Routes /\ proc[w].p \in Passengers
      BY DEF TypeOK, Proc
    <3>. QED  BY <1>2, <3>1 DEF CreateBookingTransaction
  <2> HIDE DEF new
  <2>3. /\ \A s \in Routes : s # r => booking'[s] = booking[s]
        /\ \A q \in Passengers : q # p => booking'[r][q] = booking[r][q]
        /\ booking'[r][p] = new
    BY <1>t, <2>2
  <2>4. Seat' = [Seat EXCEPT ![r][p] = "held"]
    BY <2>1, <2>3, SeenStates, OneSeat
  <2>5. /\ TakeSeat(route[r]).asientosTotales = route[r].asientosTotales
        /\ TakeSeat(route[r]).estado = route[r].estado
    BY <1>t DEF TakeSeat, RouteRow
  <2>6. Phase' = [Phase EXCEPT ![r] = Phase[r]] /\ Capacity' = Capacity
    BY <1>t, <2>2, <2>5, OnePhase, ZenonT(60)
  <2>7. Phase' = Phase
    BY <2>6 DEF Phase
  <2>8. /\ route[r].estado = "ACTIVA" /\ route[r].asientosDisponibles > 0
        /\ booking[r][p].estado = "none"
    BY <2>2 DEF BookingAllowed, RouteIsBookable, NoBooking
  <2>9. Cardinality(Contract!Taken(r)) < Capacity[r]
    <3>1. route[r].asientosDisponibles + Cardinality(Seated(r)) = route[r].asientosTotales
      BY <2>8 DEF SerialInv, Accounted
    <3>. QED  BY <1>t, <2>8, <3>1, SeatsAsSeen, SeatsOfARoute
  <2>10. Phase[r] = "ACTIVA" /\ Seat[r][p] = "none"
    BY <1>t, <2>8, SeenStates
  <2>. QED  BY <2>4, <2>6, <2>7, <2>9, <2>10, Reserves
<1>3. ASSUME NEW w \in Workers, CancelBookingTransaction(w)
      PROVE  Contract!Next
  <2>1. PICK r \in Routes, p \in Passengers :
          /\ booking[r][p].estado = "CONFIRMADA"
          /\ booking' = [booking EXCEPT ![r][p].estado = "CANCELADA"]
          /\ route' = [route EXCEPT ![r] = GiveBackSeat(@)]
    <3>1. proc[w].r \in Routes /\ proc[w].p \in Passengers
      BY DEF TypeOK, Proc
    <3>2. booking[proc[w].r][proc[w].p].estado = "CONFIRMADA"
      BY <1>3 DEF CancelBookingTransaction, At, SerialInv, Fresh, FreshPassenger
    <3>. QED  BY <1>3, <3>1, <3>2 DEF CancelBookingTransaction
  <2>2. /\ \A s \in Routes : s # r => booking'[s] = booking[s]
        /\ \A q \in Passengers : q # p => booking'[r][q] = booking[r][q]
        /\ booking'[r][p].estado = "CANCELADA"
    BY <1>t, <2>1 DEF BookingRow
  <2>3. Seat' = [Seat EXCEPT ![r][p] = "released"]
    BY <2>2, SeenStates, OneSeat
  <2>4. /\ GiveBackSeat(route[r]).asientosTotales = route[r].asientosTotales
        /\ GiveBackSeat(route[r]).estado = route[r].estado
    BY <1>t DEF GiveBackSeat, RouteRow
  <2>5. Phase' = [Phase EXCEPT ![r] = Phase[r]] /\ Capacity' = Capacity
    BY <1>t, <2>1, <2>4, OnePhase
  <2>6. Phase' = Phase
    BY <2>5 DEF Phase
  <2>7. Seat[r][p] = "held"
    BY <1>t, <2>1, SeenStates
  <2>. QED  BY <2>3, <2>5, <2>6, <2>7, Leaves
<1>4. ASSUME NEW w \in Workers, FlushBooking(w)
      PROVE  Contract!Next \/ (Seat' = Seat /\ Phase' = Phase /\ Capacity' = Capacity)
  <2>1. PICK r \in Routes, p \in Passengers, copy \in BookingRow :
          /\ booking' = [booking EXCEPT ![r][p] = copy]
          /\ booking[r][p].estado = "CONFIRMADA"
          /\ copy.estado \in {"CONFIRMADA", "COMPLETADA", "NO_SHOW"}
    <3>1. proc[w].r \in Routes /\ proc[w].p \in Passengers /\ proc[w].reserva \in BookingRow
      BY DEF TypeOK, Proc
    <3>. QED  BY <1>4, <3>1, FlushedBooking, ZenonT(60)
  <2>2. Phase' = Phase /\ Capacity' = Capacity
    BY <1>4, <1>p DEF FlushBooking
  <2>3. /\ \A s \in Routes : s # r => booking'[s] = booking[s]
        /\ \A q \in Passengers : q # p => booking'[r][q] = booking[r][q]
        /\ booking'[r][p] = copy
    BY <1>t, <2>1
  <2>4. CASE copy.estado = "CONFIRMADA"
    <3>1. \A s \in Routes, q \in Passengers : booking'[s][q].estado = booking[s][q].estado
      BY <2>1, <2>3, <2>4
    <3>2. Seat' = [s \in Routes |-> [q \in Passengers |-> Seen(booking'[s][q].estado)]]
      BY DEF Seat, Seen
    <3>3. Seat' = Seat
      BY <3>1, <3>2 DEF Seat
    <3>. QED  BY <2>2, <3>3
  <2>5. CASE copy.estado \in {"COMPLETADA", "NO_SHOW"}
    <3>1. Seen(booking'[r][p].estado) = "used"
      BY <2>3, <2>5, SeenStates
    <3>2. Seat' = [Seat EXCEPT ![r][p] = "used"]
      BY <2>3, <3>1, OneSeat
    <3>3. Seat[r][p] = "held"
      BY <1>t, <2>1, SeenStates
    <3>. QED  BY <2>2, <3>2, <3>3, Leaves
  <2>. QED  BY <2>1, <2>4, <2>5
<1>5. ASSUME NEW w \in Workers, FlushRoute(w)
      PROVE  Contract!Next \/ (Seat' = Seat /\ Phase' = Phase /\ Capacity' = Capacity)
  <2>1. PICK r \in Routes, copy \in RouteRow :
          /\ route' = [route EXCEPT ![r] = copy]
          /\ copy.asientosTotales = route[r].asientosTotales
          /\ \/ copy.estado = route[r].estado
             \/ copy.estado = "FINALIZADA" /\ route[r].estado = "ACTIVA" /\ Pending(r) = {}
             \/ copy.estado = "CANCELADA" /\ route[r].estado = "ACTIVA"
    <3>1. proc[w].r \in Routes /\ proc[w].rutas[proc[w].r] \in RouteRow
          /\ route[proc[w].r] \in RouteRow
      BY DEF TypeOK, Proc
    <3>2. RouteCopyIsFresh(w)
      BY <1>5, FlushedRoute
    <3>3. LET r == proc[w].r
              copy == proc[w].rutas[r]
          IN  \/ copy.estado = route[r].estado
              \/ copy.estado = "FINALIZADA" /\ route[r].estado = "ACTIVA" /\ Pending(r) = {}
              \/ copy.estado = "CANCELADA" /\ route[r].estado = "ACTIVA"
      BY <3>1, <3>2 DEF RouteCopyIsFresh, RouteRow
    <3>. QED  BY <1>5, <3>1, <3>3, FlushedRoute
  <2>2. Phase' = [Phase EXCEPT ![r] = copy.estado] /\ Capacity' = Capacity
    BY <2>1, OnePhase
  <2>3. Seat' = Seat
    BY <1>5, <1>b DEF FlushRoute
  <2>4. CASE copy.estado = route[r].estado
    <3>1. Phase' = Phase
      BY <2>2, <2>4 DEF Phase
    <3>. QED  BY <2>2, <2>3, <3>1
  <2>5. CASE copy.estado = "FINALIZADA" /\ route[r].estado = "ACTIVA" /\ Pending(r) = {}
    <3>1. Phase[r] = "ACTIVA" /\ Contract!With(r, "held") = {}
      BY <1>t, <2>5, SeatsAsSeen
    <3>2. Phase' = [Phase EXCEPT ![r] = "FINALIZADA"]
      BY <2>2, <2>5
    <3>. QED  BY <2>2, <2>3, <3>1, <3>2, Finishes
  <2>6. CASE copy.estado = "CANCELADA" /\ route[r].estado = "ACTIVA"
    <3>1. Phase[r] = "ACTIVA"
      BY <1>t, <2>6
    <3>2. Phase' = [Phase EXCEPT ![r] = "CANCELADA"]
      BY <2>2, <2>6
    <3>. QED  BY <2>2, <2>3, <3>1, <3>2, Withdraws
  <2>. QED  BY <2>1, <2>4, <2>5, <2>6
<1>6. ASSUME NEW w \in Workers, CancelRouteBookings(w)
      PROVE  Contract!Next
  <2>1. PICK r \in Routes :
          /\ route[r].estado = "CANCELADA" /\ UNCHANGED route
          /\ booking' = [booking EXCEPT ![r] = [p \in Passengers |->
                  IF p \in Pending(r) THEN [booking[r][p] EXCEPT !.estado = "CANCELADA"]
                                      ELSE booking[r][p]]]
    <3>1. proc[w].r \in Routes
      BY DEF TypeOK, Proc
    <3>2. route[proc[w].r].estado = "CANCELADA"
      BY <1>6 DEF CancelRouteBookings, SerialInv, Fresh, FreshRoute
    <3>. QED  BY <1>6, <3>1, <3>2 DEF CancelRouteBookings
  <2>2. ASSUME NEW s \in Routes, NEW q \in Passengers
        PROVE  Seen(booking'[s][q].estado) =
                  IF s = r /\ Seat[s][q] = "held" THEN "released" ELSE Seat[s][q]
    <3>1. booking'[s][q].estado =
            IF s = r /\ q \in Pending(r) THEN "CANCELADA" ELSE booking[s][q].estado
      <4>1. [booking[r][q] EXCEPT !.estado = "CANCELADA"].estado = "CANCELADA"
        BY <1>t DEF BookingRow
      <4>. QED  BY <1>t, <2>1, <4>1
    <3>2. booking[s][q].estado \in EstadoReserva \cup {"none"}
      BY <1>t DEF BookingRow
    <3>. QED  BY <1>t, <3>1, <3>2, SeenStates DEF Pending
  <2>3. Seat' = [s \in Routes |-> [q \in Passengers |-> Seen(booking'[s][q].estado)]]
    BY DEF Seat, Seen
  <2>4. Seat' = [s \in Routes |-> [q \in Passengers |->
                    IF s = r /\ Seat[s][q] = "held" THEN "released" ELSE Seat[s][q]]]
    BY <2>2, <2>3
  <2>5. Seat = [s \in Routes |-> [q \in Passengers |-> Seat[s][q]]]
    BY DEF Seat
  <2> HIDE DEF Seat
  <2>6. Seat' = [Seat EXCEPT ![r] = [q \in Passengers |->
                    IF Seat[r][q] = "held" THEN "released" ELSE Seat[r][q]]]
    BY <2>4, <2>5
  <2>7. Phase[r] = "CANCELADA"
    BY <1>t, <2>1
  <2>. QED  BY <1>p, <2>1, <2>6, <2>7, Releases
<1>7. CASE UNCHANGED <<route, booking>>
  BY <1>7, <1>p, <1>b, <1>s
<1>. QED  BY <1>s, <1>1, <1>2, <1>3, <1>4, <1>5, <1>6, <1>7, Writers

(* The handlers keep the contract: seen from outside a step of theirs is one *)
(* of SeatContract or none, so a passenger reserves once and only while the  *)
(* car has seats, leaves once, and a route is finished with nobody waiting   *)
(* or withdrawn with everybody released.                                     *)
THEOREM ContractKept ==
    ASSUME OnlyPassengersOverlap
    PROVE  Spec => ImplementsContract
<1>1. TypeOK /\ SerialInv /\ [Next]_vars => [Contract!Next]_(Contract!vars)
  <2> SUFFICES ASSUME TypeOK, SerialInv, [Next]_vars
               PROVE  [Contract!Next]_(Contract!vars)
    OBVIOUS
  <2>1. CASE UNCHANGED vars
    <3>1. Phase' = Phase /\ Capacity' = Capacity /\ Seat' = Seat
      BY <2>1 DEF vars, Phase, Capacity, Seat, Seen
    <3>. QED  BY <3>1, Stutters
  <2>. QED  BY <2>1, StepContract
<1>. QED  BY <1>1, InitContract, SerialForever, TypeCorrect, PTL
          DEF Spec, ImplementsContract, Contract!Spec
=============================================================================
