-------------------------------- MODULE Ratings --------------------------------
(***************************************************************************)
(* Ratings between one driver and his passengers, the average on the        *)
(* profile, the penalty of a route cancelled late, and what a low average   *)
(* keeps its owner from.                                                    *)
(*                                                                         *)
(* RatingsService, RoutesService and BusinessService write the same row of  *)
(* user_profiles, each from the copy it has read.                           *)
(***************************************************************************)
EXTENDS Integers, FiniteSets, FiniteSetsExt

CONSTANTS
    Driver, Passengers, Routes,
    Scores,                 \* the scores that are given, of 1..5
    RatingWindow,           \* RATING_WINDOW_HOURS
    Workers, Offers,        \* request slots, and the operations each may serve
    Overlap,                \* bound: <<running, called>>, which may run beside which
    MaxTime, MaxDisturbed   \* bounds: clock, users in disturbed

Users == Passengers \cup {Driver}
Ops == {"createRating", "cancelRoute", "updateProfile"}

ASSUME RatingAssumption ==
    /\ Driver \notin Passengers
    /\ Scores \subseteq 1..5
    /\ RatingWindow \in Nat
    /\ Offers \in [Workers -> SUBSET Ops]
    /\ Overlap \subseteq Ops \X Ops
    /\ MaxTime \in Nat /\ MaxDisturbed \in Nat
    /\ IsFiniteSet(Passengers) /\ IsFiniteSet(Routes) /\ Routes # {}

VARIABLES
    now,
    profile,    \* the rows of user_profiles: ratingPromedio in hundredths
    route,      \* the routes of the driver
    booking,    \* estado of each passenger's booking of each route
    rating,     \* score by <<fromUserId, toUserId, routeId>>, 0 while there is none
    proc,
    penalties,  \* late cancellations since the user's last rating (history)
    disturbed   \* users whose profile two handlers have written at a time, or one
                \* of whose handlers was lost (history)

vars == <<now, profile, route, booking, rating, proc, penalties, disturbed>>

-----------------------------------------------------------------------------

EstadoRuta == {"none", "ACTIVA", "FINALIZADA", "CANCELADA"}
EstadoReserva == {"none", "CONFIRMADA", "COMPLETADA", "NO_SHOW", "CANCELADA"}
Settled == {"COMPLETADA", "NO_SHOW"}
Triples == Users \X Users \X Routes

Profile == [ratingPromedio : 0..500, totalCalificaciones : 0..Cardinality(Triples),
            isBloqueadoPorRating : BOOLEAN]
NewProfile == [ratingPromedio |-> 500, totalCalificaciones |-> 0,
               isBloqueadoPorRating |-> FALSE]

Stages == {"idle", "insert", "average", "save", "flush", "cancel"}

Proc ==
    [op : Ops \cup {"none"}, at : Stages,
     u : Users,                 \* whose profile is written
     f : Users, r : Routes, score : {0} \cup Scores,
     copy : Profile, cols : SUBSET DOMAIN NewProfile]

AnyRoute == CHOOSE r \in Routes : TRUE

Idle == [op |-> "none", at |-> "idle", u |-> Driver, f |-> Driver, r |-> AnyRoute,
         score |-> 0, copy |-> NewProfile, cols |-> {}]

Init ==
    /\ now = 0
    /\ profile = [u \in Users |-> NewProfile]
    /\ route = [r \in Routes |-> [estado |-> "none", updatedAt |-> 0]]
    /\ booking = [r \in Routes |-> [p \in Passengers |-> "none"]]
    /\ rating = [x \in Triples |-> 0]
    /\ proc = [w \in Workers |-> Idle]
    /\ penalties = [u \in Users |-> 0]
    /\ disturbed = {}

\* A handler that will write the profile of u.
Called(w, op, u) ==
    /\ op \in Offers[w] /\ proc[w].at = "idle"
    /\ \A v \in Workers : proc[v].at # "idle" => <<proc[v].op, op>> \in Overlap
    /\ disturbed' = disturbed \cup
            {x \in {u} : \E v \in Workers : proc[v].at # "idle" /\ proc[v].u = x}
    /\ Cardinality(disturbed') <= MaxDisturbed
Become(w, record) == proc' = [proc EXCEPT ![w] = record]
Done(w) == Become(w, Idle)

\* save(profile): the row is read again, and the columns that differ are written.
Differing(copy, row) == {c \in DOMAIN row : copy[c] # row[c]}
Updated(copy, row, cols) == [c \in DOMAIN row |-> IF c \in cols THEN copy[c] ELSE row[c]]

\* ratingPromedio < 3, and blocked.
LowRated(row) == row.isBloqueadoPorRating \/ row.ratingPromedio < 300

-----------------------------------------------------------------------------
(* The routes, as far as ratings go: the module Reservations has the rest. *)

CreateRoute(r) ==
    /\ route[r].estado = "none"
    /\ ~LowRated(profile[Driver])
    /\ route' = [route EXCEPT ![r] = [estado |-> "ACTIVA", updatedAt |-> now]]
    /\ UNCHANGED <<now, profile, booking, rating, proc, penalties, disturbed>>

\* Mutant: the gate is forgotten.
BookUngated(p, r) ==
    /\ route[r].estado = "ACTIVA" /\ booking[r][p] = "none"
    /\ booking' = [booking EXCEPT ![r][p] = "CONFIRMADA"]
    /\ UNCHANGED <<now, profile, route, rating, proc, penalties, disturbed>>

CreateBooking(p, r) ==
    /\ ~LowRated(profile[p])
    /\ route[r].estado = "ACTIVA" /\ booking[r][p] = "none"
    /\ booking' = [booking EXCEPT ![r][p] = "CONFIRMADA"]
    /\ UNCHANGED <<now, profile, route, rating, proc, penalties, disturbed>>

SettleBooking(p, r, estado) ==
    /\ route[r].estado = "ACTIVA" /\ booking[r][p] = "CONFIRMADA"
    /\ booking' = [booking EXCEPT ![r][p] = estado]
    /\ UNCHANGED <<now, profile, route, rating, proc, penalties, disturbed>>

\* A FINALIZADA one is saved again without a difference, and keeps its updatedAt.
FinalizeRoute(r) ==
    /\ route[r].estado = "ACTIVA"
    /\ \A p \in Passengers : booking[r][p] # "CONFIRMADA"
    /\ route' = [route EXCEPT ![r] = [estado |-> "FINALIZADA", updatedAt |-> now]]
    /\ UNCHANGED <<now, profile, booking, rating, proc, penalties, disturbed>>

\* Mutant: the penalty has no lower bound.
PenalizedBelow(row) ==
    LET next == row.ratingPromedio - 100
    IN  [row EXCEPT !.ratingPromedio = next, !.isBloqueadoPorRating = next < 300]

\* applyLateCancellationPenalty.
Penalized(row) ==
    LET next == Max({row.ratingPromedio - 100, 100})
    IN  [row EXCEPT !.ratingPromedio = next, !.isBloqueadoPorRating = next < 300]

\* The penalty, when it is late, is saved before the route is.
CancelRoute(w, r, late) ==
    /\ Called(w, "cancelRoute", Driver)
    /\ route[r].estado = "ACTIVA"
    /\ Become(w, [Idle EXCEPT !.op = "cancelRoute", !.r = r,
            !.at = IF late THEN "save" ELSE "cancel", !.copy = Penalized(profile[Driver])])
    /\ UNCHANGED <<now, profile, route, booking, rating, penalties>>

SaveCancelled(w) ==
    LET r == proc[w].r
    IN  /\ proc[w].at = "cancel"
        /\ route' = [route EXCEPT ![r] = [estado |-> "CANCELADA", updatedAt |-> now]]
        /\ booking' = [booking EXCEPT ![r] = [p \in Passengers |->
                IF @[p] = "CONFIRMADA" THEN "CANCELADA" ELSE @[p]]]
        /\ Done(w)
        /\ UNCHANGED <<now, profile, rating, penalties, disturbed>>

-----------------------------------------------------------------------------
(* createRating. *)

RatingWindowExpired(r) == now - route[r].updatedAt > RatingWindow
Travelled(u, r) == u \in Passengers /\ booking[r][u] \in Settled

\* Mutant: only who travelled is asked to rate.
MayRateCompleted(f, t, r) ==
    /\ route[r].estado = "FINALIZADA" /\ ~RatingWindowExpired(r)
    /\ \/ t = Driver /\ f \in Passengers /\ booking[r][f] = "COMPLETADA"
       \/ f = Driver /\ t \in Passengers /\ booking[r][t] = "COMPLETADA"
    /\ rating[<<f, t, r>>] = 0

\* What createRating checks before it inserts.
MayRate(f, t, r) ==
    /\ route[r].estado = "FINALIZADA"
    /\ ~RatingWindowExpired(r)
    /\ f = Driver \/ Travelled(f, r)
    /\ Travelled(f, r) => t = Driver
    /\ f = Driver => Travelled(t, r)
    /\ rating[<<f, t, r>>] = 0

CreateRating(w, f, t, r, score) ==
    /\ MayRate(f, t, r)
    /\ Called(w, "createRating", t)
    /\ Become(w, [Idle EXCEPT !.op = "createRating", !.at = "insert",
            !.u = t, !.f = f, !.r = r, !.score = score])
    /\ UNCHANGED <<now, profile, route, booking, rating, penalties>>

\* UNIQUE (fromUserId, toUserId, routeId) refuses the second row.
InsertRating(w) ==
    LET x == <<proc[w].f, proc[w].u, proc[w].r>>
    IN  /\ proc[w].at = "insert"
        /\ IF rating[x] = 0
           THEN /\ rating' = [rating EXCEPT ![x] = proc[w].score]
                /\ penalties' = [penalties EXCEPT ![proc[w].u] = 0]
                /\ Become(w, [proc[w] EXCEPT !.at = "average"])
           ELSE Done(w) /\ UNCHANGED <<rating, penalties>>
        /\ UNCHANGED <<now, profile, route, booking, disturbed>>

Received(u) == {x \in Triples : x[2] = u /\ rating[x] # 0}

\* AVG(score), toFixed(2).
Average(u) ==
    LET n == Cardinality(Received(u))
    IN  (100 * MapThenSumSet(LAMBDA x : rating[x], Received(u)) + n \div 2) \div n

\* Mutant: the count is kept from before.
RatedStale(u) ==
    [ratingPromedio |-> Average(u), totalCalificaciones |-> profile[u].totalCalificaciones,
     isBloqueadoPorRating |-> Average(u) < 300]

\* updateUserRating, up to its save.
Rated(u) ==
    [ratingPromedio |-> Average(u), totalCalificaciones |-> Cardinality(Received(u)),
     isBloqueadoPorRating |-> Average(u) < 300]

AverageRatings(w) ==
    /\ proc[w].at = "average"
    /\ Become(w, [proc[w] EXCEPT !.at = "save", !.copy = Rated(proc[w].u)])
    /\ UNCHANGED <<now, profile, route, booking, rating, penalties, disturbed>>

-----------------------------------------------------------------------------
(* The row of the profile. *)

\* updateProfile and updateProfilePhoto set columns that nobody else does, which
\* are left out: what counts is the copy of the others.
UpdateProfile(w, u) ==
    /\ Called(w, "updateProfile", u)
    /\ Become(w, [Idle EXCEPT !.op = "updateProfile", !.at = "save", !.u = u,
            !.copy = profile[u]])
    /\ UNCHANGED <<now, profile, route, booking, rating, penalties>>

SaveProfile(w) ==
    /\ proc[w].at = "save"
    /\ Become(w, [proc[w] EXCEPT !.at = "flush",
            !.cols = Differing(proc[w].copy, profile[proc[w].u])])
    /\ UNCHANGED <<now, profile, route, booking, rating, penalties, disturbed>>

FlushProfile(w) ==
    LET u == proc[w].u
        cancelling == proc[w].op = "cancelRoute"
    IN  /\ proc[w].at = "flush"
        /\ profile' = [profile EXCEPT ![u] = Updated(proc[w].copy, @, proc[w].cols)]
        /\ penalties' = [penalties EXCEPT ![u] = @ + (IF cancelling THEN 1 ELSE 0)]
        /\ IF cancelling
           THEN Become(w, [Idle EXCEPT !.op = "cancelRoute", !.at = "cancel", !.r = proc[w].r])
           ELSE Done(w)
        /\ UNCHANGED <<now, route, booking, rating, disturbed>>

-----------------------------------------------------------------------------

\* The handler throws, or the process stops.
Fail(w) ==
    /\ proc[w].at # "idle" /\ proc[w].u \notin disturbed
    /\ disturbed' = disturbed \cup {proc[w].u} /\ Cardinality(disturbed') <= MaxDisturbed
    /\ Done(w)
    /\ UNCHANGED <<now, profile, route, booking, rating, penalties>>

Tick ==
    /\ now < MaxTime
    /\ now' = now + 1
    /\ UNCHANGED <<profile, route, booking, rating, proc, penalties, disturbed>>

Next ==
    \/ \E r \in Routes :
        \/ CreateRoute(r) \/ FinalizeRoute(r)
        \/ \E p \in Passengers :
            \/ CreateBooking(p, r)
            \/ \E estado \in Settled \cup {"CANCELADA"} : SettleBooking(p, r, estado)
    \/ \E w \in Workers :
        \/ \E r \in Routes :
            \/ \E late \in BOOLEAN : CancelRoute(w, r, late)
            \/ \E f, t \in Users, score \in Scores : CreateRating(w, f, t, r, score)
        \/ \E u \in Users : UpdateProfile(w, u)
        \/ SaveCancelled(w) \/ InsertRating(w) \/ AverageRatings(w)
        \/ SaveProfile(w) \/ FlushProfile(w) \/ Fail(w)
    \/ Tick

Spec == Init /\ [][Next]_vars

-----------------------------------------------------------------------------
(* What the app shows. *)

Open(r) == route[r].estado = "FINALIZADA" /\ ~RatingWindowExpired(r)
RatedBy(u, r) == {t \in Users : rating[<<u, t, r>>] # 0}

\* canRateRoute: the usersToRate.
CanRateRoute(u, r) ==
    LET targets == IF u = Driver THEN {p \in Passengers : Travelled(p, r)} ELSE {Driver}
    IN  IF Open(r) /\ (u = Driver \/ Travelled(u, r)) THEN targets \ RatedBy(u, r) ELSE {}

\* getDriverRatingCandidates: those who are not marked as rated.
RatingCandidates(r) ==
    IF Open(r) THEN {p \in Passengers : Travelled(p, r)} \ RatedBy(Driver, r) ELSE {}

-----------------------------------------------------------------------------
(* Properties. *)

\* Types: the columns keep their domains, a ratingPromedio that of its decimal(3,2).
TypeOK ==
    /\ now \in 0..MaxTime
    /\ profile \in [Users -> Profile]
    /\ \A u \in Users : profile[u].ratingPromedio >= 100
    /\ route \in [Routes -> [estado : EstadoRuta, updatedAt : 0..MaxTime]]
    /\ booking \in [Routes -> [Passengers -> EstadoReserva]]
    /\ rating \in [Triples -> {0} \cup Scores]
    /\ proc \in [Workers -> Proc]
    /\ penalties \in [Users -> Nat]
    /\ disturbed \subseteq Users

Written(u) == \E w \in Workers : proc[w].at # "idle" /\ proc[w].u = u

\* A profile that no two handlers have written at a time, and none of whose
\* handlers was lost, says what the ratings of its owner make, less the penalties
\* since the last of them, whatever happened to the other profiles meanwhile:
\* average, count and block.
ProfileFollowsRatings ==
    \A u \in Users : u \notin disturbed /\ ~Written(u) =>
        LET fair == IF Received(u) = {} THEN 500 ELSE Average(u)
        IN  /\ profile[u].ratingPromedio =
                    IF penalties[u] = 0 THEN fair ELSE Max({fair - 100 * penalties[u], 100})
            /\ profile[u].totalCalificaciones = Cardinality(Received(u))
            /\ profile[u].isBloqueadoPorRating = (profile[u].ratingPromedio < 300)

\* Whom canRateRoute and getDriverRatingCandidates offer for a rating, that and
\* nobody else createRating takes from the caller.
OfferedRatingsAreAccepted ==
    \A r \in Routes :
        /\ \A u \in Users : CanRateRoute(u, r) = {t \in Users : MayRate(u, t, r)}
        /\ RatingCandidates(r) = {t \in Users : MayRate(Driver, t, r)}

\* Nobody can rate u any more, and no route of u is under way that would change it.
OutOfRatings(u) ==
    /\ ~Written(u)
    /\ \A r \in Routes :
        u = Driver \/ booking[r][u] \in {"CONFIRMADA"} \cup Settled =>
            route[r].estado # "ACTIVA" /\ ~Open(r)

\* There is no way back: who is blocked, and has no route left that could be
\* rated, stays so whatever anybody does, since only a rating lifts a block and
\* the blocked can neither publish nor book.
BlockIsForGood ==
    [][\A u \in Users :
        LowRated(profile[u]) /\ OutOfRatings(u) /\ u \notin disturbed' =>
            LowRated(profile'[u]) /\ (Written(u)' \/ OutOfRatings(u)')]_vars
=============================================================================
