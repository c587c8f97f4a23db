-------------------------------- MODULE Access --------------------------------
(***************************************************************************)
(* Who may call what: the @Public and @Roles of every controller, and the   *)
(* RolesGuard that enforces them.  A controller is a function from its       *)
(* handlers to the roles they ask for; none means any valid token.          *)
(***************************************************************************)
Rol == {"USER", "PASAJERO", "CONDUCTOR", "ADMIN"}

AuthController == [logout |-> {}, getRole |-> {}, changePassword |-> Rol]

VerificationController == [send |-> {"USER"}, confirm |-> {"USER"}]

BusinessController ==
    [getProfile |-> Rol, deleteAccount |-> Rol, getDisplayName |-> Rol,
     updateProfile |-> Rol \ {"ADMIN"}, updateProfilePhoto |-> {"PASAJERO", "CONDUCTOR"}]

DriversController ==
    [applyAsDriver |-> {"PASAJERO"}, getMyDriverRequest |-> {"PASAJERO", "CONDUCTOR"},
     uploadDocument |-> {"PASAJERO", "CONDUCTOR"}]

VehicleController ==
    [createVehicle |-> {"PASAJERO", "CONDUCTOR"}, getMyVehicles |-> {"CONDUCTOR"},
     updateVehicle |-> {"CONDUCTOR"}, disableVehicle |-> {"CONDUCTOR"},
     reactivateVehicle |-> {"CONDUCTOR"}]

AdminController ==
    [op \in {"getAllDrivers", "getDriverById", "approveDriver", "rejectDriver",
             "suspendDriver", "approveDocument", "rejectDocument"} |-> {"ADMIN"}]

AdminSeedController == [seed |-> {"ADMIN"}]

RoutesController ==
    [createRoute |-> {"CONDUCTOR"}, getMyRoutes |-> {"CONDUCTOR"}, addRouteStop |-> {"CONDUCTOR"},
     updateRouteSchedule |-> {"CONDUCTOR"}, cancelRoute |-> {"CONDUCTOR"},
     finalizeRoute |-> {"CONDUCTOR"}, startRoute |-> {"CONDUCTOR"},
     getAvailableRoutes |-> {"USER", "PASAJERO"},
     getRouteById |-> {"PASAJERO", "CONDUCTOR"}, getRouteMap |-> {"PASAJERO", "CONDUCTOR"}]

BookingsController ==
    [createBooking |-> {"PASAJERO"}, getMyBookings |-> {"PASAJERO"},
     getBookingById |-> {"PASAJERO"}, cancelBooking |-> {"PASAJERO"}, getBookingMap |-> {"PASAJERO"},
     getBookingsByRoute |-> {"CONDUCTOR"}, completeBooking |-> {"CONDUCTOR"},
     markNoShow |-> {"CONDUCTOR"}, verifyOtp |-> {"CONDUCTOR"}]

PaymentsController ==
    [createPayment |-> {"PASAJERO"}, getMyPayments |-> {"PASAJERO"}, getPaymentById |-> {"PASAJERO"},
     createPaypalOrder |-> {"PASAJERO"}, capturePaypalOrder |-> {"PASAJERO"},
     getDriverPayments |-> {"CONDUCTOR"},
     getAllPayments |-> {"ADMIN"}, reversePayment |-> {"ADMIN"}]

PayoutsController ==
    [getDriverBalance |-> {"CONDUCTOR"}, requestPayout |-> {"CONDUCTOR"},
     getMyPayouts |-> {"CONDUCTOR"}, getPayoutById |-> {"CONDUCTOR"},
     generatePayouts |-> {"ADMIN"}, executePaypalPayout |-> {"ADMIN"}, failPayout |-> {"ADMIN"},
     getAllPayouts |-> {"ADMIN"}]

RatingsController ==
    [createRating |-> {"PASAJERO", "CONDUCTOR"}, getMyRatings |-> {"PASAJERO", "CONDUCTOR"},
     getRatingsGiven |-> {"PASAJERO", "CONDUCTOR"}, getRatingSummary |-> {"PASAJERO", "CONDUCTOR"},
     canRateRoute |-> {"PASAJERO", "CONDUCTOR"}, getRatingCandidates |-> {"CONDUCTOR"},
     getAllRatings |-> {"ADMIN"}, getLowRatedUsers |-> {"ADMIN"}]

\* @Public: JweAuthGuard lets these pass without a token.
PublicHandlers ==
    {"register", "login", "forgotPassword", "resetPassword", "refresh",
     "checkHealth", "getMetrics"}

Controllers ==
    {AuthController, VerificationController, BusinessController, DriversController,
     VehicleController, AdminController, AdminSeedController, RoutesController,
     BookingsController, PaymentsController, PayoutsController, RatingsController}

\* No two controllers have a handler of the same name.
RequiredRoles ==
    [op \in UNION {DOMAIN controller : controller \in Controllers} |->
        (CHOOSE controller \in Controllers : op \in DOMAIN controller)[op]]

\* RolesGuard: the role is one of those asked for, and whoever is not verified
\* gets no further than what a USER may call.
MayCall(rol, verificado, op) ==
    \/ op \in PublicHandlers
    \/ RequiredRoles[op] = {}
    \/ /\ rol \in RequiredRoles[op]
       /\ verificado \/ "USER" \in RequiredRoles[op]

Callable(rol, verificado) ==
    {op \in DOMAIN RequiredRoles : MayCall(rol, verificado, op)}
=============================================================================
