---------------------------- MODULE SessionsProofs ----------------------------
(* Theorems about Sessions, for every value of its constants. *)
EXTENDS Sessions, TLAPS

-----------------------------------------------------------------------------
(* Types. *)

LEMMA DefaultTypes ==
    AnyPair \in Pairs /\ NewUser \in AuthUser /\ NoPair \in Pair /\ Idle \in Proc
<1>1. AnyPair \in Pairs
  BY SessionAssumption DEF AnyPair
<1>2. NewUser \in AuthUser /\ NoPair \in Pair
  BY SessionAssumption DEF NewUser, AuthUser, NoPair, Pair, Time, Ids, BusinessId
<1>. QED  BY <1>1, <1>2, SessionAssumption DEF Idle, Proc, Stages

LEMMA CallType ==
    ASSUME NEW op \in Ops, NEW at \in Stages
    PROVE  Call(op, at) \in Proc
  BY DefaultTypes DEF Call, Proc

LEMMA SavingType ==
    ASSUME NEW record \in Proc, NEW copy \in AuthUser
    PROVE  Saving(record, copy) \in Proc
  BY DEF Saving, Proc, Stages

LEMMA BecomeType ==
    ASSUME TypeOK, NEW w \in Workers, NEW record \in Proc, Become(w, record)
    PROVE  proc' \in [Workers -> Proc]
  BY DEF TypeOK, Become

LEMMA DoneType ==
    ASSUME TypeOK, NEW w \in Workers, Done(w)
    PROVE  proc' \in [Workers -> Proc]
  BY BecomeType, DefaultTypes DEF Done

LEMMA CalledType ==
    ASSUME TypeOK, NEW w, NEW op, Called(w, op)
    PROVE  disturbed' \in 0..MaxDisturbed
  BY SessionAssumption DEF TypeOK, Called

LEMMA UserUpdateType ==
    ASSUME NEW copy \in AuthUser, NEW row \in AuthUser, NEW cols
    PROVE  UserUpdate(copy, row, cols) \in AuthUser
  BY DEF UserUpdate, AuthUser

LEMMA UserDiffType ==
    ASSUME NEW copy, NEW row \in AuthUser
    PROVE  UserDiff(copy, row) \in SUBSET DOMAIN NewUser
  BY DEF UserDiff, AuthUser, NewUser

LEMMA AfterCheckType ==
    ASSUME TypeOK, NEW copy \in AuthUser
    PROVE  AfterFailure(copy) \in AuthUser /\ AfterSuccess(copy) \in AuthUser
<1>1. now + BlockTime \in Time /\ 0 \in Time
  BY SessionAssumption DEF TypeOK, Time
<1>0. 0 \in 0..(MaxFailed - 1)
  BY SessionAssumption
<1>2. AfterSuccess(copy) \in AuthUser
  BY <1>0, <1>1 DEF AfterSuccess, AuthUser
<1>3. CASE copy.failedAttempts + 1 >= MaxFailed
  <2>1. AfterFailure(copy) = [copy EXCEPT !.failedAttempts = 0, !.bloqueadoHasta = now + BlockTime]
    BY <1>3 DEF AfterFailure
  <2>. QED  BY <1>0, <1>1, <1>2, <2>1 DEF AuthUser
<1>4. CASE ~(copy.failedAttempts + 1 >= MaxFailed)
  <2>1. AfterFailure(copy) = [copy EXCEPT !.failedAttempts = @ + 1]
    BY <1>4 DEF AfterFailure
  <2>2. copy.failedAttempts + 1 \in 0..(MaxFailed - 1)
    BY <1>4, SessionAssumption DEF AuthUser
  <2>. QED  BY <1>2, <2>1, <2>2 DEF AuthUser
<1>. QED  BY <1>2, <1>3, <1>4

LEMMA IdsResolve ==
    /\ ResolveBusinessUserId(AuthId) = BusinessId
    /\ ResolveAuthUserId(BusinessId) = AuthId
  BY DEF ResolveBusinessUserId, ResolveAuthUserId, IdentityMap, Ids, AuthId, BusinessId

-----------------------------------------------------------------------------
(* Who may call what. *)

\* What a USER may call, a PASAJERO may, but for the verification.
LEMMA OpensToPassengers ==
    ASSUME NEW controller \in Controllers, NEW op \in DOMAIN controller,
           "USER" \in controller[op]
    PROVE  "PASAJERO" \in controller[op] \/ op \in DOMAIN VerificationController
<1>1. CASE controller = VerificationController
  BY <1>1
<1>2. CASE controller = AuthController
  BY <1>2 DEF AuthController, Rol
<1>3. CASE controller = BusinessController
  BY <1>3 DEF BusinessController, Rol
<1>4. CASE controller = RoutesController
  BY <1>4 DEF RoutesController
<1>5. CASE controller \in {DriversController, VehicleController, AdminController, AdminSeedController}
  BY <1>5 DEF DriversController, VehicleController, AdminController, AdminSeedController
<1>6. CASE controller \in {BookingsController, PaymentsController, PayoutsController, RatingsController}
  BY <1>6 DEF BookingsController, PaymentsController, PayoutsController, RatingsController
<1>. QED  BY <1>1, <1>2, <1>3, <1>4, <1>5, <1>6 DEF Controllers

LEMMA VerifiedMayCall ==
    Callable("USER", FALSE) \ DOMAIN VerificationController \subseteq Callable("PASAJERO", TRUE)
<1> SUFFICES ASSUME NEW op \in Callable("USER", FALSE), op \notin DOMAIN VerificationController
             PROVE  op \in Callable("PASAJERO", TRUE)
  OBVIOUS
<1>1. PICK controller \in Controllers : op \in DOMAIN controller /\ RequiredRoles[op] = controller[op]
  <2>1. op \in UNION {DOMAIN controller : controller \in Controllers}
    BY DEF Callable, RequiredRoles
  <2>2. \E controller \in Controllers : op \in DOMAIN controller
    BY <2>1
  <2> DEFINE chosen == CHOOSE controller \in Controllers : op \in DOMAIN controller
  <2>3. chosen \in Controllers /\ op \in DOMAIN chosen
    BY <2>2
  <2>4. RequiredRoles[op] = chosen[op]
    BY <2>1 DEF RequiredRoles
  <2>. QED  BY <2>3, <2>4
<1>2. "USER" \in RequiredRoles[op] => "PASAJERO" \in RequiredRoles[op]
  BY <1>1, OpensToPassengers
<1>. QED  BY <1>2 DEF Callable, MayCall

-----------------------------------------------------------------------------
(* The inductive invariant. *)

\* No token is of a later second than the clock.
IatsArePast ==
    /\ \A p \in Pairs : pair[p].iat <= now
    /\ \A w \in Workers : proc[w].iat <= now

\* The key revoke:user:<id> lives at least as long as a token that it refuses.
KeysOutliveTokens ==
    \A id \in Ids :
        /\ revoked[id].at <= now
        /\ revoked[id].at # 0 => revoked[id].at + AccessTtl <= revoked[id].until

\* So does the key of a jti, from the call of logout on, which computed its ttl
\* at an earlier second.
JtisOutliveTokens ==
    \A p \in Pairs : pair[p].jtiRevokedUntil # 0 =>
        pair[p].iat + AccessTtl <= pair[p].jtiRevokedUntil

PendingJtis ==
    \A w \in Workers : proc[w].at = "jti" =>
        /\ pair[proc[w].p].issued
        /\ pair[proc[w].p].iat + AccessTtl <= now + proc[w].ttl

\* No two handlers are about to issue the same pair, or one that was issued.
PendingPairs ==
    \A w \in Workers : proc[w].at = "store" =>
        /\ ~pair[proc[w].p].issued
        /\ \A v \in Workers : proc[v].at = "store" /\ proc[v].p = proc[w].p => v = w

RevocationInv ==
    /\ TypeOK
    /\ IatsArePast
    /\ KeysOutliveTokens
    /\ JtisOutliveTokens
    /\ PendingJtis
    /\ PendingPairs

LEMMA InitRevocation == Init => RevocationInv
<1> SUFFICES ASSUME Init PROVE RevocationInv
  OBVIOUS
<1>0. 0 \in 0..MaxTime /\ 0 \in Time /\ 0 \in 0..MaxDisturbed
  BY SessionAssumption DEF Time
<1>1. TypeOK
  BY <1>0, DefaultTypes DEF Init, TypeOK
<1>2. IatsArePast /\ JtisOutliveTokens
  BY DEF Init, IatsArePast, JtisOutliveTokens, NoPair, Idle
<1>3. KeysOutliveTokens
  BY DEF Init, KeysOutliveTokens
<1>4. PendingJtis /\ PendingPairs
  BY DEF Init, PendingJtis, PendingPairs, Idle
<1>. QED  BY <1>1, <1>2, <1>3, <1>4 DEF RevocationInv

-----------------------------------------------------------------------------
(* Types, step by step. *)

LEMMA AcceptedCall ==
    ASSUME TypeOK, IatsArePast, NEW p \in Pairs, Accepted(p)
    PROVE  pair[p].iat + AccessTtl - now \in 1..AccessTtl
  BY SessionAssumption DEF TypeOK, IatsArePast, Accepted, Pair

LEMMA PasswordType ==
    ASSUME TypeOK, user.clave < MaxClave
    PROVE  NewPassword(user) \in AuthUser
<1>1. user \in AuthUser /\ user.clave + 1 \in 0..MaxClave
  BY SessionAssumption DEF TypeOK, AuthUser
<1>. QED  BY <1>1 DEF NewPassword, AuthUser

LEMMA PairCallsType ==
    ASSUME TypeOK, IatsArePast, NEW w \in Workers, NEW p \in Pairs,
           Refresh(w, p) \/ Logout(w, p) \/ ChangePassword(w, p) \/ DeleteAccount(w, p)
    PROVE  TypeOK'
<1>1. CASE Refresh(w, p)
  <2>1. [Call("refresh", "revocation") EXCEPT !.p = p] \in Proc
    BY CallType, SMTT(60) DEF Ops, Stages, Proc
  <2>. QED  BY <1>1, <2>1, BecomeType, CalledType DEF Refresh, TypeOK
<1>2. CASE Logout(w, p)
  <2>0. Accepted(p) /\ Called(w, "logout")
    BY <1>2 DEF Logout, CalledWith
  <2>1. pair[p].iat + AccessTtl - now \in 0..AccessTtl
    BY <2>0, AcceptedCall
  <2>2. Call("logout", "jti") \in Proc
    BY CallType DEF Ops, Stages
  <2>3. [Call("logout", "jti") EXCEPT !.p = p, !.ttl = pair[p].iat + AccessTtl - now] \in Proc
    BY <2>1, <2>2 DEF Proc
  <2>. QED  BY <1>2, <2>0, <2>3, BecomeType, CalledType DEF Logout, TypeOK
<1>3. CASE ChangePassword(w, p)
  <2>0. Called(w, "changePassword")
    BY <1>3 DEF ChangePassword, CalledWith
  <2>1. Saving(Call("changePassword", "save"), NewPassword(user)) \in Proc
    BY <1>3, CallType, SavingType, PasswordType DEF ChangePassword, Ops, Stages
  <2>. QED  BY <1>3, <2>0, <2>1, BecomeType, CalledType DEF ChangePassword, TypeOK
<1>4. CASE DeleteAccount(w, p)
  <2>0. Called(w, "deleteAccount")
    BY <1>4 DEF DeleteAccount, CalledWith
  <2>1. Call("deleteAccount", "revoke") \in Proc
    BY CallType DEF Ops, Stages
  <2>2. deleted' \in BOOLEAN
    BY <1>4 DEF DeleteAccount, SoftDelete, Affected, TypeOK
  <2>. QED  BY <1>4, <2>0, <2>1, <2>2, BecomeType, DoneType, CalledType DEF DeleteAccount, TypeOK
<1>. QED  BY <1>1, <1>2, <1>3, <1>4

LEMMA CallsType ==
    ASSUME TypeOK, IatsArePast, NEW w \in Workers, Calls(w)
    PROVE  TypeOK'
<1>1. CASE Login(w)
  <2>0. Call("login", "check") \in Proc
    BY CallType DEF Ops, Stages
  <2>1. [Call("login", "check") EXCEPT !.copy = user] \in Proc
    BY <2>0 DEF Proc, TypeOK
  <2>. QED  BY <1>1, <2>1, BecomeType, CalledType DEF Login, TypeOK
<1>2. CASE ResetPassword(w)
  <2>1. Saving(Call("resetPassword", "save"), NewPassword(user)) \in Proc
    BY <1>2, CallType, SavingType, PasswordType DEF ResetPassword, Ops, Stages
  <2>. QED  BY <1>2, <2>1, BecomeType, CalledType DEF ResetPassword, TypeOK
<1>3. CASE VerifyUser(w)
  <2>1. [user EXCEPT !.verificado = TRUE, !.rol = "PASAJERO"] \in AuthUser
    BY DEF TypeOK, AuthUser
  <2>2. Saving(Call("verifyUser", "save"), [user EXCEPT !.verificado = TRUE, !.rol = "PASAJERO"]) \in Proc
    BY <2>1, CallType, SavingType DEF Ops, Stages
  <2>. QED  BY <1>3, <2>2, BecomeType, CalledType DEF VerifyUser, TypeOK
<1>4. CASE ApproveDriver(w)
  <2>1. [user EXCEPT !.rol = "CONDUCTOR"] \in AuthUser
    BY DEF TypeOK, AuthUser
  <2>2. Saving(Call("approveDriver", "save"), [user EXCEPT !.rol = "CONDUCTOR"]) \in Proc
    BY <2>1, CallType, SavingType DEF Ops, Stages
  <2>. QED  BY <1>4, <2>2, BecomeType, CalledType DEF ApproveDriver, TypeOK
<1>5. CASE SuspendDriver(w)
  <2>1. Call("suspendDriver", "revoke") \in Proc
    BY CallType DEF Ops, Stages
  <2>. QED  BY <1>5, <2>1, BecomeType, CalledType DEF SuspendDriver, TypeOK
<1>6. CASE HandleCleanup(w)
  <2>1. Call("deleteAccount", "revoke") \in Proc
    BY CallType DEF Ops, Stages
  <2>2. deleted' \in BOOLEAN
    BY <1>6 DEF HandleCleanup, SoftDelete, Affected, TypeOK
  <2>. QED  BY <1>6, <2>1, <2>2, BecomeType, DoneType, CalledType DEF HandleCleanup, TypeOK
<1>. QED  BY <1>1, <1>2, <1>3, <1>4, <1>5, <1>6, PairCallsType DEF Calls

LEMMA AfterSaveType ==
    ASSUME TypeOK, NEW w \in Workers, AfterSave(w)
    PROVE  proc' \in [Workers -> Proc]
<1>0. proc[w] \in Proc
  BY DEF TypeOK
<1>1. CASE Become(w, [proc[w] EXCEPT !.at = "issue", !.cols = {}])
  <2>1. [proc[w] EXCEPT !.at = "issue", !.cols = {}] \in Proc
    BY <1>0 DEF Proc, Stages
  <2>. QED  BY <1>1, <2>1, BecomeType
<1>2. CASE proc[w].op \in {"changePassword", "resetPassword", "approveDriver"} /\ Become(w, Call(proc[w].op, "revoke"))
  <2>1. Call(proc[w].op, "revoke") \in Proc
    BY <1>2, CallType DEF Ops, Stages
  <2>. QED  BY <1>2, <2>1, BecomeType
<1>3. CASE Done(w)
  BY <1>3, DoneType
<1>. QED  BY <1>1, <1>2, <1>3 DEF AfterSave

LEMMA LoginStepsType ==
    ASSUME TypeOK, IatsArePast, NEW w \in Workers,
           \/ \E valid \in BOOLEAN : CheckPassword(w, valid)
           \/ SaveUser(w) \/ FlushUser(w) \/ IssueTokens(w) \/ StoreRefresh(w)
    PROVE  TypeOK'
<1>0. proc[w] \in Proc
  BY DEF TypeOK
<1>1. ASSUME NEW valid \in BOOLEAN, CheckPassword(w, valid)
      PROVE  TypeOK'
  <2> DEFINE copy == IF valid THEN AfterSuccess(proc[w].copy) ELSE AfterFailure(proc[w].copy)
  <2>1. copy \in AuthUser
    BY <1>0, AfterCheckType DEF Proc
  <2>2. [proc[w] EXCEPT !.valid = valid] \in Proc
    BY <1>0 DEF Proc
  <2>3. Saving([proc[w] EXCEPT !.valid = valid], copy) \in Proc
    BY <2>1, <2>2, SavingType
  <2>. QED  BY <1>1, <2>3, BecomeType DEF CheckPassword, TypeOK
<1>2. CASE SaveUser(w)
  <2>1. UserDiff(proc[w].copy, user) \in SUBSET DOMAIN NewUser
    BY UserDiffType DEF TypeOK
  <2>2. [proc[w] EXCEPT !.at = "flush", !.cols = UserDiff(proc[w].copy, user)] \in Proc
    BY <1>0, <2>1 DEF Proc, Stages
  <2>. QED  BY <1>2, <2>2, BecomeType DEF SaveUser, TypeOK
<1>3. CASE FlushUser(w)
  <2>1. user' \in AuthUser
    BY <1>0, <1>3, UserUpdateType DEF FlushUser, TypeOK, Proc
  <2>2. proc' \in [Workers -> Proc]
    BY <1>3, AfterSaveType DEF FlushUser
  <2>. QED  BY <1>3, <2>1, <2>2 DEF FlushUser, TypeOK
<1>4. CASE IssueTokens(w)
  <2>1. CASE Done(w)
    BY <1>4, <2>1, DoneType DEF IssueTokens, TypeOK
  <2>2. CASE /\ Fresh(w) # {}
             /\ Become(w, [proc[w] EXCEPT
                    !.at = "store", !.p = CHOOSE p \in Fresh(w) : TRUE, !.iat = now])
    <3>1. (CHOOSE p \in Fresh(w) : TRUE) \in Pairs
      BY <2>2 DEF Fresh
    <3>2. [proc[w] EXCEPT !.at = "store", !.p = CHOOSE p \in Fresh(w) : TRUE, !.iat = now] \in Proc
      BY <1>0, <3>1 DEF Proc, Stages, TypeOK
    <3>. QED  BY <1>4, <2>2, <3>2, BecomeType DEF IssueTokens, TypeOK
  <2>. QED  BY <1>4, <2>1, <2>2 DEF IssueTokens
<1>5. CASE StoreRefresh(w)
  <2>1. /\ BusinessId \in Ids /\ 0 \in Time
        /\ proc[w].iat \in 0..MaxTime /\ proc[w].copy \in AuthUser /\ proc[w].p \in Pairs
    BY <1>0, SessionAssumption DEF Proc, Ids, BusinessId, Time
  <2>2. [id |-> ResolveBusinessUserId(AuthId), iat |-> proc[w].iat, rol |-> proc[w].copy.rol,
         verificado |-> proc[w].copy.verificado, clave |-> proc[w].copy.clave,
         jtiRevokedUntil |-> 0, stored |-> TRUE, issued |-> TRUE] \in Pair
    BY <2>1, IdsResolve DEF Pair, AuthUser
  <2>3. pair' \in [Pairs -> Pair]
    BY <1>5, <2>1, <2>2 DEF StoreRefresh, TypeOK
  <2>. QED  BY <1>5, <2>3, DoneType DEF StoreRefresh, TypeOK
<1>. QED  BY <1>1, <1>2, <1>3, <1>4, <1>5

LEMMA DropRefreshType ==
    ASSUME TypeOK, NEW p \in Pairs, DropRefresh(p)
    PROVE  pair' \in [Pairs -> Pair]
  BY DEF DropRefresh, TypeOK, Pair

LEMMA RefreshStepsType ==
    ASSUME TypeOK, IatsArePast, NEW w \in Workers,
           \/ CheckRevocation(w) \/ RereadUser(w) \/ RotateRefresh(w)
           \/ RevokeJti(w) \/ RevokeRefreshToken(w) \/ RevokeUserSessions(w)
    PROVE  TypeOK'
<1>0. proc[w] \in Proc /\ proc[w].p \in Pairs
  BY DEF TypeOK, Proc
<1>1. CASE CheckRevocation(w)
  <2>1. [proc[w] EXCEPT !.at = "reread"] \in Proc
    BY <1>0 DEF Proc, Stages
  <2>. QED  BY <1>0, <1>1, <2>1, BecomeType, DoneType, DropRefreshType DEF CheckRevocation, TypeOK
<1>2. CASE RereadUser(w)
  <2>1. [proc[w] EXCEPT !.at = "rotate", !.copy = user] \in Proc
    BY <1>0 DEF Proc, Stages, TypeOK
  <2>. QED  BY <1>2, <2>1, BecomeType, DoneType DEF RereadUser, TypeOK
<1>3. CASE RotateRefresh(w)
  <2>1. [proc[w] EXCEPT !.at = "issue"] \in Proc
    BY <1>0 DEF Proc, Stages
  <2>. QED  BY <1>0, <1>3, <2>1, BecomeType, DropRefreshType DEF RotateRefresh, TypeOK
<1>4. CASE RevokeJti(w)
  <2>1. [proc[w] EXCEPT !.at = "drop"] \in Proc
    BY <1>0 DEF Proc, Stages
  <2>2. now + proc[w].ttl \in Time
    BY <1>0, SessionAssumption DEF TypeOK, Proc, Time
  <2>3. pair' \in [Pairs -> Pair]
    BY <1>0, <1>4, <2>2 DEF RevokeJti, TypeOK, Pair
  <2>. QED  BY <1>4, <2>1, <2>3, BecomeType, DoneType DEF RevokeJti, TypeOK
<1>5. CASE RevokeRefreshToken(w)
  BY <1>0, <1>5, DoneType, DropRefreshType DEF RevokeRefreshToken, TypeOK
<1>6. CASE RevokeUserSessions(w)
  <2>1. now + RevokeTtl(proc[w].op) \in Time
    BY SessionAssumption DEF TypeOK, RevokeTtl, Time
  <2>2. revoked' \in [Ids -> [at : 0..MaxTime, until : Time]]
    BY <1>6, <2>1 DEF RevokeUserSessions, TypeOK
  <2>. QED  BY <1>6, <2>2, DoneType DEF RevokeUserSessions, TypeOK
<1>. QED  BY <1>1, <1>2, <1>3, <1>4, <1>5, <1>6

LEMMA TickType == TypeOK /\ Tick => TypeOK'
<1> SUFFICES ASSUME TypeOK, Tick PROVE TypeOK'
  OBVIOUS
<1>0. 0 \in Time
  BY SessionAssumption DEF Time
<1>1. now' \in 0..MaxTime
  <2>1. now \in 0..MaxTime /\ now < MaxTime /\ now' = now + 1
    BY DEF Tick, TypeOK
  <2>. QED  BY <2>1, SessionAssumption
<1>2. user' \in AuthUser
  BY <1>0 DEF Tick, TypeOK, AuthUser
<1>3. ASSUME NEW p \in Pairs
      PROVE  [pair[p] EXCEPT !.jtiRevokedUntil = IF now + 1 < @ THEN @ ELSE 0,
                             !.stored = @ /\ now + 1 < pair[p].iat + RefreshTtl] \in Pair
  BY <1>0 DEF TypeOK, Pair
<1>4. pair' \in [Pairs -> Pair]
  BY <1>3 DEF Tick
<1>. QED  BY <1>1, <1>2, <1>4 DEF Tick, TypeOK

LEMMA StepType ==
    ASSUME TypeOK, IatsArePast, [Next]_vars
    PROVE  TypeOK'
<1>1. ASSUME NEW w \in Workers, Calls(w) PROVE TypeOK'
  BY <1>1, CallsType
<1>2. ASSUME NEW w \in Workers, Continue(w) PROVE TypeOK'
  BY <1>2, LoginStepsType, RefreshStepsType DEF Continue
<1>3. ASSUME NEW w \in Workers, Fail(w) PROVE TypeOK'
  <2>1. disturbed' \in 0..MaxDisturbed
    BY <1>3, SessionAssumption DEF Fail, TypeOK
  <2>. QED  BY <1>3, <2>1, DoneType DEF Fail, TypeOK
<1>4. CASE Tick
  BY <1>4, TickType
<1>5. CASE UNCHANGED vars
  BY <1>5 DEF vars, TypeOK
<1>. QED  BY <1>1, <1>2, <1>3, <1>4, <1>5 DEF Next

-----------------------------------------------------------------------------
(* The inductive invariant, and what it says of a token that is refused,     *)
(* step by step.                                                             *)

RefusedStay == \A p \in Pairs : pair[p].issued /\ ~Accepted(p) => ~Accepted(p)'

\* What a step must establish beside the types.
Kept ==
    /\ IatsArePast' /\ KeysOutliveTokens' /\ JtisOutliveTokens'
    /\ PendingJtis' /\ PendingPairs'
    /\ RefusedStay

\* What the guard reads of a token stays the same.
SameTokens ==
    \A p \in Pairs :
        /\ pair'[p].id = pair[p].id
        /\ pair'[p].iat = pair[p].iat
        /\ pair'[p].issued = pair[p].issued
        /\ pair'[p].jtiRevokedUntil = pair[p].jtiRevokedUntil

LEMMA DroppedAreSameTokens ==
    ASSUME TypeOK, NEW p \in Pairs, DropRefresh(p)
    PROVE  SameTokens
  BY DEF DropRefresh, SameTokens, TypeOK, Pair

\* A step that touches neither the keys nor the tokens, and comes to a stage
\* where it holds no promise about them.
LEMMA OtherStepKeeps ==
    ASSUME RevocationInv, NEW w \in Workers, NEW record, Become(w, record),
           record.iat <= now, record.at \notin {"jti", "store"},
           UNCHANGED <<now, revoked>>, SameTokens
    PROVE  Kept
<1>1. \A v \in Workers : proc'[v] = IF v = w THEN record ELSE proc[v]
  BY DEF RevocationInv, TypeOK, Become
<1>1p. \A v \in Workers : proc[v].p \in Pairs
  BY DEF RevocationInv, TypeOK, Proc
<1>2. IatsArePast'
  BY <1>1 DEF RevocationInv, IatsArePast, SameTokens
<1>3. KeysOutliveTokens' /\ JtisOutliveTokens'
  BY DEF RevocationInv, KeysOutliveTokens, JtisOutliveTokens, SameTokens
<1>4. PendingJtis' /\ PendingPairs'
  BY <1>1, <1>1p DEF RevocationInv, PendingJtis, PendingPairs, SameTokens
<1>5. RefusedStay
  BY DEF RefusedStay, Accepted, SessionRevoked, SameTokens
<1>. QED  BY <1>2, <1>3, <1>4, <1>5 DEF Kept

LEMMA EndKeeps ==
    ASSUME RevocationInv, NEW w \in Workers, Done(w), UNCHANGED <<now, revoked>>, SameTokens
    PROVE  Kept
<1>1. Idle.iat <= now /\ Idle.at \notin {"jti", "store"}
  BY DEF RevocationInv, TypeOK, Idle
<1>. QED  BY <1>1, OtherStepKeeps DEF Done

LEMMA CallKeeps ==
    ASSUME RevocationInv, NEW w \in Workers, NEW record, Become(w, record),
           record.at \notin {"jti", "store"}, record.iat = 0, UNCHANGED <<now, revoked, pair>>
    PROVE  Kept
<1>1. record.iat <= now
  BY DEF RevocationInv, TypeOK
<1>2. SameTokens
  BY DEF SameTokens
<1>. QED  BY <1>1, <1>2, OtherStepKeeps

LEMMA CallFields ==
    ASSUME NEW op, NEW at
    PROVE  /\ Call(op, at).at = at /\ Call(op, at).iat = 0
           /\ \A copy : /\ Saving(Call(op, at), copy).at = "save"
                        /\ Saving(Call(op, at), copy).iat = 0
  BY DEF Call, Idle, Saving

LEMMA LogoutKeeps ==
    ASSUME RevocationInv, NEW w \in Workers, NEW p \in Pairs, Logout(w, p)
    PROVE  Kept
<1> DEFINE record == [Call("logout", "jti") EXCEPT !.p = p, !.ttl = pair[p].iat + AccessTtl - now]
<1>1. /\ record.at = "jti" /\ record.p = p /\ record.iat = 0
      /\ record.ttl = pair[p].iat + AccessTtl - now
  BY DEF Call, Idle
<1>2. \A v \in Workers : proc'[v] = IF v = w THEN record ELSE proc[v]
  BY DEF RevocationInv, TypeOK, Logout, Become
<1>3. pair[p].issued
  BY DEF Logout, CalledWith, Accepted
<1>4. now \in Nat /\ pair[p].iat \in Nat /\ AccessTtl \in Nat
  BY SessionAssumption DEF RevocationInv, TypeOK, Pair
<1>u. UNCHANGED <<now, revoked, pair>>
  BY DEF Logout
<1> HIDE DEF record
<1>5. IatsArePast'
  BY <1>1, <1>2, <1>4, <1>u DEF RevocationInv, IatsArePast
<1>6. KeysOutliveTokens' /\ JtisOutliveTokens'
  BY <1>u DEF RevocationInv, KeysOutliveTokens, JtisOutliveTokens
<1>7. PendingJtis'
  <2>1. pair[p].iat + AccessTtl <= now + record.ttl
    BY <1>1, <1>4
  <2>. QED  BY <1>1, <1>2, <1>3, <1>u, <2>1 DEF RevocationInv, PendingJtis
<1>8. PendingPairs'
  BY <1>1, <1>2, <1>u DEF RevocationInv, PendingPairs
<1>9. RefusedStay
  BY <1>u DEF RefusedStay, Accepted, SessionRevoked
<1>. QED  BY <1>5, <1>6, <1>7, <1>8, <1>9 DEF Kept

LEMMA CallsKeep ==
    ASSUME RevocationInv, NEW w \in Workers, Calls(w)
    PROVE  Kept
<1>s. UNCHANGED pair => SameTokens
  BY DEF SameTokens
<1>1. CASE Login(w)
  <2>1. LET record == [Call("login", "check") EXCEPT !.copy = user]
        IN  record.at = "check" /\ record.iat = 0
    BY DEF Call, Idle
  <2>. QED  BY <1>1, <2>1, CallKeeps DEF Login
<1>2. CASE ResetPassword(w)
  BY <1>2, CallFields, CallKeeps DEF ResetPassword
<1>3. CASE VerifyUser(w)
  BY <1>3, CallFields, CallKeeps DEF VerifyUser
<1>4. CASE ApproveDriver(w)
  BY <1>4, CallFields, CallKeeps DEF ApproveDriver
<1>5. CASE SuspendDriver(w)
  BY <1>5, CallFields, CallKeeps DEF SuspendDriver
<1>6. CASE HandleCleanup(w)
  BY <1>6, <1>s, CallFields, CallKeeps, EndKeeps DEF HandleCleanup
<1>7. ASSUME NEW p \in Pairs, Refresh(w, p)
      PROVE  Kept
  <2>1. LET record == [Call("refresh", "revocation") EXCEPT !.p = p]
        IN  record.at = "revocation" /\ record.iat = 0
    BY DEF Call, Idle
  <2>. QED  BY <1>7, <2>1, CallKeeps DEF Refresh
<1>8. ASSUME NEW p \in Pairs, Logout(w, p)
      PROVE  Kept
  BY <1>8, LogoutKeeps
<1>9. ASSUME NEW p \in Pairs, ChangePassword(w, p)
      PROVE  Kept
  BY <1>9, CallFields, CallKeeps DEF ChangePassword
<1>10. ASSUME NEW p \in Pairs, DeleteAccount(w, p)
       PROVE  Kept
  BY <1>10, <1>s, CallFields, CallKeeps, EndKeeps DEF DeleteAccount
<1>. QED  BY <1>1, <1>2, <1>3, <1>4, <1>5, <1>6, <1>7, <1>8, <1>9, <1>10 DEF Calls

\* The steps of a handler that touch neither the keys nor the tokens.
LEMMA PlainStepsKeep ==
    ASSUME RevocationInv, NEW w \in Workers,
           \/ \E valid \in BOOLEAN : CheckPassword(w, valid)
           \/ SaveUser(w) \/ FlushUser(w) \/ RereadUser(w)
           \/ CheckRevocation(w) \/ RotateRefresh(w) \/ RevokeRefreshToken(w)
    PROVE  Kept
<1>0. /\ proc[w] \in Proc /\ proc[w].p \in Pairs /\ proc[w].iat <= now
  BY DEF RevocationInv, TypeOK, Proc, IatsArePast
<1>t. TypeOK
  BY DEF RevocationInv
<1>s. UNCHANGED pair => SameTokens
  BY DEF SameTokens
<1>1. ASSUME NEW valid \in BOOLEAN, CheckPassword(w, valid)
      PROVE  Kept
  <2>1. \A copy : LET record == Saving([proc[w] EXCEPT !.valid = valid], copy)
                  IN  record.at = "save" /\ record.iat = proc[w].iat
    BY <1>0 DEF Proc, Saving
  <2>. QED  BY <1>0, <1>1, <1>s, <2>1, OtherStepKeeps DEF CheckPassword
<1>2. CASE SaveUser(w)
  <2>1. \A cols : LET record == [proc[w] EXCEPT !.at = "flush", !.cols = cols]
                  IN  record.at = "flush" /\ record.iat = proc[w].iat
    BY <1>0 DEF Proc
  <2>. QED  BY <1>0, <1>2, <1>s, <2>1, OtherStepKeeps DEF SaveUser
<1>3. CASE FlushUser(w)
  <2>0. UNCHANGED <<now, revoked>> /\ SameTokens /\ AfterSave(w)
    BY <1>3, <1>s DEF FlushUser
  <2>1. CASE Become(w, [proc[w] EXCEPT !.at = "issue", !.cols = {}])
    <3>1. LET record == [proc[w] EXCEPT !.at = "issue", !.cols = {}]
          IN  record.at = "issue" /\ record.iat = proc[w].iat
      BY <1>0 DEF Proc
    <3>. QED  BY <1>0, <2>0, <2>1, <3>1, OtherStepKeeps
  <2>2. CASE Become(w, Call(proc[w].op, "revoke"))
    <3>1. Call(proc[w].op, "revoke").at = "revoke" /\ Call(proc[w].op, "revoke").iat <= now
      BY <1>t DEF Call, Idle, TypeOK
    <3>. QED  BY <2>0, <2>2, <3>1, OtherStepKeeps
  <2>3. CASE Done(w)
    BY <2>0, <2>3, EndKeeps
  <2>. QED  BY <2>0, <2>1, <2>2, <2>3 DEF AfterSave
<1>4. CASE RereadUser(w)
  <2>1. LET record == [proc[w] EXCEPT !.at = "rotate", !.copy = user]
        IN  record.at = "rotate" /\ record.iat = proc[w].iat
    BY <1>0 DEF Proc
  <2>. QED  BY <1>0, <1>4, <1>s, <2>1, OtherStepKeeps, EndKeeps DEF RereadUser
<1>5. CASE CheckRevocation(w)
  <2>1. LET record == [proc[w] EXCEPT !.at = "reread"]
        IN  record.at = "reread" /\ record.iat = proc[w].iat
    BY <1>0 DEF Proc
  <2>. QED  BY <1>0, <1>5, <1>s, <1>t, <2>1, OtherStepKeeps, EndKeeps, DroppedAreSameTokens DEF CheckRevocation
<1>6. CASE RotateRefresh(w)
  <2>1. LET record == [proc[w] EXCEPT !.at = "issue"]
        IN  record.at = "issue" /\ record.iat = proc[w].iat
    BY <1>0 DEF Proc
  <2>. QED  BY <1>0, <1>6, <1>t, <2>1, OtherStepKeeps, DroppedAreSameTokens DEF RotateRefresh
<1>7. CASE RevokeRefreshToken(w)
  BY <1>0, <1>7, <1>t, EndKeeps, DroppedAreSameTokens DEF RevokeRefreshToken
<1>. QED  BY <1>1, <1>2, <1>3, <1>4, <1>5, <1>6, <1>7

\* The pair that is chosen is nobody's.
LEMMA IssueTokensKeeps ==
    ASSUME RevocationInv, NEW w \in Workers, IssueTokens(w)
    PROVE  Kept
<1>s. UNCHANGED <<now, revoked, pair>> /\ SameTokens
  BY DEF IssueTokens, SameTokens
<1>1. CASE Done(w)
  BY <1>1, <1>s, EndKeeps
<1>2. CASE /\ Fresh(w) # {}
           /\ Become(w, [proc[w] EXCEPT
                  !.at = "store", !.p = CHOOSE p \in Fresh(w) : TRUE, !.iat = now])
  <2> DEFINE q == CHOOSE p \in Fresh(w) : TRUE
             record == [proc[w] EXCEPT !.at = "store", !.p = q, !.iat = now]
  <2>1. /\ q \in Pairs /\ ~pair[q].issued
        /\ \A v \in Workers \ {w} : proc[v].at = "store" => proc[v].p # q
    BY <1>2 DEF Fresh
  <2>2. record.at = "store" /\ record.p = q /\ record.iat = now
    BY DEF RevocationInv, TypeOK, Proc
  <2>3. \A v \in Workers : proc'[v] = IF v = w THEN record ELSE proc[v]
    BY <1>2 DEF RevocationInv, TypeOK, Become
  <2>0. now <= now
    BY DEF RevocationInv, TypeOK
  <2> HIDE DEF q, record
  <2>4. IatsArePast'
    BY <1>s, <2>0, <2>2, <2>3 DEF RevocationInv, IatsArePast
  <2>5. KeysOutliveTokens' /\ JtisOutliveTokens'
    BY <1>s DEF RevocationInv, KeysOutliveTokens, JtisOutliveTokens
  <2>6. PendingJtis'
    BY <1>s, <2>2, <2>3 DEF RevocationInv, PendingJtis
  <2>7. PendingPairs'
    BY <1>s, <2>1, <2>2, <2>3 DEF RevocationInv, PendingPairs
  <2>8. RefusedStay
    BY <1>s DEF RefusedStay, Accepted, SessionRevoked
  <2>. QED  BY <2>4, <2>5, <2>6, <2>7, <2>8 DEF Kept
<1>. QED  BY <1>1, <1>2 DEF IssueTokens

LEMMA StoreRefreshKeeps ==
    ASSUME RevocationInv, NEW w \in Workers, StoreRefresh(w)
    PROVE  Kept
<1>t. TypeOK
  BY DEF RevocationInv
<1>1. /\ proc[w].at = "store" /\ proc[w].p \in Pairs /\ ~pair[proc[w].p].issued
      /\ \A v \in Workers : proc[v].p \in Pairs
      /\ proc[w].iat <= now /\ proc[w].iat \in Nat
  BY DEF StoreRefresh, RevocationInv, PendingPairs, IatsArePast, TypeOK, Proc
<1>2. \A v \in Workers : proc'[v] = IF v = w THEN Idle ELSE proc[v]
  BY <1>t DEF TypeOK, StoreRefresh, Done, Become
<1>3. /\ pair'[proc[w].p].iat = proc[w].iat
      /\ pair'[proc[w].p].jtiRevokedUntil = 0
      /\ \A q \in Pairs \ {proc[w].p} : pair'[q] = pair[q]
  BY <1>1, <1>t DEF StoreRefresh, TypeOK
<1>4. UNCHANGED <<now, revoked>>
  BY DEF StoreRefresh
<1>5. Idle.at = "idle" /\ Idle.iat <= now
  BY <1>t DEF Idle, TypeOK
<1>6. IatsArePast'
  BY <1>1, <1>2, <1>3, <1>4, <1>5 DEF RevocationInv, IatsArePast
<1>7. KeysOutliveTokens' /\ JtisOutliveTokens'
  BY <1>3, <1>4 DEF RevocationInv, KeysOutliveTokens, JtisOutliveTokens
<1>8. PendingJtis'
  BY <1>1, <1>2, <1>3, <1>4, <1>5 DEF RevocationInv, PendingJtis
<1>9. PendingPairs'
  BY <1>1, <1>2, <1>3, <1>4, <1>5 DEF RevocationInv, PendingPairs
<1>10. RefusedStay
  BY <1>1, <1>3, <1>4 DEF RefusedStay, Accepted, SessionRevoked
<1>. QED  BY <1>6, <1>7, <1>8, <1>9, <1>10 DEF Kept

\* The key of the jti is set for as long as the token lives, or not at all.
LEMMA RevokeJtiKeeps ==
    ASSUME RevocationInv, NEW w \in Workers, RevokeJti(w)
    PROVE  Kept
<1>t. TypeOK
  BY DEF RevocationInv
<1> DEFINE p == proc[w].p
<1>1. /\ p \in Pairs /\ pair[p].issued /\ pair[p].iat + AccessTtl <= now + proc[w].ttl
      /\ proc[w].ttl \in Nat /\ now \in Nat /\ proc[w].iat <= now /\ proc[w] \in Proc
  BY SessionAssumption DEF RevokeJti, RevocationInv, PendingJtis, IatsArePast, TypeOK, Proc
<1>2. UNCHANGED <<now, revoked>>
  BY DEF RevokeJti
<1>3. /\ \A q \in Pairs : /\ pair'[q].id = pair[q].id /\ pair'[q].iat = pair[q].iat
                          /\ pair'[q].issued = pair[q].issued
                          /\ q # p => pair'[q] = pair[q]
      /\ pair'[p].jtiRevokedUntil = IF proc[w].ttl > 0 THEN now + proc[w].ttl ELSE pair[p].jtiRevokedUntil
  BY <1>1, <1>t DEF RevokeJti, TypeOK, Pair
<1>4. PICK record : Become(w, record) /\ record.at \notin {"jti", "store"} /\ record.iat <= now
  <2>1. LET record == [proc[w] EXCEPT !.at = "drop"]
        IN  record.at \notin {"jti", "store"} /\ record.iat <= now
    BY <1>1 DEF Proc
  <2>2. Idle.at \notin {"jti", "store"} /\ Idle.iat <= now
    BY <1>1 DEF Idle
  <2>. QED  BY <2>1, <2>2 DEF RevokeJti, Done
<1>5. \A v \in Workers : proc'[v] = IF v = w THEN record ELSE proc[v]
  BY <1>4, <1>t DEF TypeOK, Become
<1>6. IatsArePast'
  BY <1>2, <1>3, <1>4, <1>5 DEF RevocationInv, IatsArePast
<1>7. KeysOutliveTokens'
  BY <1>2 DEF RevocationInv, KeysOutliveTokens
<1>8. JtisOutliveTokens'
  BY <1>1, <1>2, <1>3 DEF RevocationInv, JtisOutliveTokens
<1>9. PendingJtis' /\ PendingPairs'
  <2>1. \A v \in Workers : proc[v].p \in Pairs
    BY <1>t DEF TypeOK, Proc
  <2>. QED  BY <1>2, <1>3, <1>4, <1>5, <2>1 DEF RevocationInv, PendingJtis, PendingPairs
<1>10. RefusedStay
  <2>1. pair'[p].jtiRevokedUntil = 0 => pair[p].jtiRevokedUntil = 0
    BY <1>1, <1>3
  <2>. QED  BY <1>2, <1>3, <2>1 DEF RefusedStay, Accepted, SessionRevoked
<1>. QED  BY <1>6, <1>7, <1>8, <1>9, <1>10 DEF Kept

\* A revocation that is overwritten is overwritten by a later one, which is of
\* as long a life as any token of before.
LEMMA RevokeUserSessionsKeeps ==
    ASSUME RevocationInv, NEW w \in Workers, RevokeUserSessions(w)
    PROVE  Kept
<1>t. TypeOK
  BY DEF RevocationInv
<1>1. UNCHANGED <<now, pair>> /\ Done(w)
  BY DEF RevokeUserSessions
<1>2. PICK id \in Ids, ttl \in Nat :
        /\ AccessTtl <= ttl
        /\ revoked' = [revoked EXCEPT ![id] = [at |-> now, until |-> now + ttl]]
  <2>1. RevokedId(proc[w].op) \in Ids
    BY IdsResolve DEF RevokedId, Ids
  <2>2. RevokeTtl(proc[w].op) \in Nat /\ AccessTtl <= RevokeTtl(proc[w].op)
    BY SessionAssumption DEF RevokeTtl
  <2>. QED  BY <2>1, <2>2 DEF RevokeUserSessions
<1>3. revoked'[id].at = now /\ revoked'[id].until = now + ttl
  BY <1>2, <1>t DEF TypeOK
<1>4. \A other \in Ids \ {id} : revoked'[other] = revoked[other]
  BY <1>2, <1>t DEF TypeOK
<1>5. now \in Nat /\ AccessTtl \in Nat \ {0}
  BY <1>t, SessionAssumption DEF TypeOK
<1>6. \A v \in Workers : proc'[v] = IF v = w THEN Idle ELSE proc[v]
  BY <1>1, <1>t DEF TypeOK, Done, Become
<1>7. Idle.at = "idle" /\ Idle.iat <= now
  BY <1>5 DEF Idle
<1>8. IatsArePast' /\ JtisOutliveTokens'
  BY <1>1, <1>6, <1>7 DEF RevocationInv, IatsArePast, JtisOutliveTokens
<1>9. KeysOutliveTokens'
  BY <1>1, <1>2, <1>3, <1>4, <1>5 DEF RevocationInv, KeysOutliveTokens
<1>10. PendingJtis' /\ PendingPairs'
  BY <1>1, <1>6, <1>7 DEF RevocationInv, PendingJtis, PendingPairs
<1>11. RefusedStay
  <2> SUFFICES ASSUME NEW p \in Pairs, pair[p].issued, ~Accepted(p)
               PROVE  ~Accepted(p)'
    BY DEF RefusedStay
  <2>1. pair[p].id \in Ids /\ pair[p].iat \in Nat
    BY <1>t DEF TypeOK, Pair
  <2>2. ASSUME SessionRevoked(p)
        PROVE  SessionRevoked(p)'
    <3>1. pair[p].iat < now /\ now < now + ttl
      <4>1. revoked[pair[p].id].at <= now /\ revoked[pair[p].id].at \in Nat
        BY <1>t, <2>1 DEF RevocationInv, KeysOutliveTokens, TypeOK
      <4>. QED  BY <1>2, <1>5, <2>1, <2>2, <4>1 DEF SessionRevoked
    <3>. QED  BY <1>1, <1>3, <1>4, <2>1, <2>2, <3>1 DEF SessionRevoked
  <2>. QED  BY <1>1, <2>2 DEF Accepted
<1>. QED  BY <1>8, <1>9, <1>10, <1>11 DEF Kept

\* What Redis drops belongs to tokens that have expired.
LEMMA TickKeeps ==
    ASSUME RevocationInv, Tick
    PROVE  Kept
<1>t. TypeOK
  BY DEF RevocationInv
<1>1. now \in Nat /\ now' = now + 1 /\ AccessTtl \in Nat \ {0}
  <2>1. now \in 0..MaxTime /\ now' = now + 1
    BY <1>t DEF Tick, TypeOK
  <2>. QED  BY <2>1, SessionAssumption
<1>2. UNCHANGED <<revoked, proc>>
  BY DEF Tick
<1>3. \A p \in Pairs :
        /\ pair'[p].id = pair[p].id /\ pair'[p].iat = pair[p].iat
        /\ pair'[p].issued = pair[p].issued
        /\ pair'[p].jtiRevokedUntil =
                IF now + 1 < pair[p].jtiRevokedUntil THEN pair[p].jtiRevokedUntil ELSE 0
  BY <1>t DEF Tick, TypeOK, Pair
<1>4. \A p \in Pairs : pair[p].iat \in Nat /\ pair[p].jtiRevokedUntil \in Nat /\ pair[p].id \in Ids
  BY <1>t, SessionAssumption DEF TypeOK, Pair, Time
<1>5. \A w \in Workers : proc[w].iat \in Nat /\ proc[w].ttl \in Nat /\ proc[w].p \in Pairs
  BY <1>t, SessionAssumption DEF TypeOK, Proc
<1>6. \A id \in Ids : revoked[id].at \in Nat /\ revoked[id].until \in Nat
  BY <1>t, SessionAssumption DEF TypeOK, Time
<1>7. IatsArePast'
  BY <1>1, <1>2, <1>3, <1>4, <1>5 DEF RevocationInv, IatsArePast
<1>8. KeysOutliveTokens'
  BY <1>1, <1>2, <1>6 DEF RevocationInv, KeysOutliveTokens
<1>9. JtisOutliveTokens'
  BY <1>1, <1>3, <1>4 DEF RevocationInv, JtisOutliveTokens
<1>10. PendingJtis'
  BY <1>1, <1>2, <1>3, <1>4, <1>5 DEF RevocationInv, PendingJtis
<1>11. PendingPairs'
  BY <1>2, <1>3, <1>5 DEF RevocationInv, PendingPairs
<1>12. RefusedStay
  <2> SUFFICES ASSUME NEW p \in Pairs, pair[p].issued, ~Accepted(p)
               PROVE  ~Accepted(p)'
    BY DEF RefusedStay
  <2>1. CASE ~(now < pair[p].iat + AccessTtl)
    BY <1>1, <1>3, <1>4, <2>1 DEF Accepted
  <2>2. CASE pair[p].jtiRevokedUntil # 0
    <3>1. pair[p].iat + AccessTtl <= pair[p].jtiRevokedUntil
      BY <2>2 DEF RevocationInv, JtisOutliveTokens
    <3>2. ~(now' < pair'[p].iat + AccessTtl) \/ pair'[p].jtiRevokedUntil # 0
      BY <1>1, <1>3, <1>4, <3>1
    <3>. QED  BY <3>2 DEF Accepted
  <2>3. CASE SessionRevoked(p)
    <3> DEFINE key == revoked[pair[p].id]
    <3>1. key.at + AccessTtl <= key.until /\ pair[p].iat < key.at
      BY <1>4, <1>6, <2>3 DEF RevocationInv, KeysOutliveTokens, SessionRevoked
    <3>2. ~(now' < pair'[p].iat + AccessTtl) \/ now' < key.until
      BY <1>1, <1>3, <1>4, <1>6, <3>1
    <3>. QED  BY <1>2, <1>3, <3>1, <3>2 DEF Accepted, SessionRevoked
  <2>. QED  BY <2>1, <2>2, <2>3 DEF Accepted
<1>. QED  BY <1>7, <1>8, <1>9, <1>10, <1>11, <1>12 DEF Kept

LEMMA StepRevocation ==
    ASSUME RevocationInv, [Next]_vars
    PROVE  RevocationInv' /\ RefusedStay
<1>1. TypeOK'
  BY StepType DEF RevocationInv
<1>2. Kept
  <2>1. ASSUME NEW w \in Workers, Calls(w) PROVE Kept
    BY <2>1, CallsKeep
  <2>2. ASSUME NEW w \in Workers, Continue(w) PROVE Kept
    BY <2>2, PlainStepsKeep, IssueTokensKeeps, StoreRefreshKeeps, RevokeJtiKeeps,
       RevokeUserSessionsKeeps DEF Continue
  <2>3. ASSUME NEW w \in Workers, Fail(w) PROVE Kept
    BY <2>3, EndKeeps DEF Fail, SameTokens
  <2>4. CASE Tick
    BY <2>4, TickKeeps
  <2>5. CASE UNCHANGED vars
    BY <2>5 DEF vars, RevocationInv, Kept, IatsArePast, KeysOutliveTokens, JtisOutliveTokens,
       PendingJtis, PendingPairs, RefusedStay, Accepted, SessionRevoked
  <2>. QED  BY <2>1, <2>2, <2>3, <2>4, <2>5 DEF Next
<1>. QED  BY <1>1, <1>2 DEF Kept, RevocationInv

-----------------------------------------------------------------------------
(* One handler at a time.  What each of them holds of the account, from the  *)
(* copy it has read until the tokens it issues or revokes, agrees with the   *)
(* row; so every token is of the account as it is, or was ended by a         *)
(* revocation, except while the revocation is on its way.                    *)

SameAccount(copy) ==
    copy.rol = user.rol /\ copy.verificado = user.verificado /\ copy.clave = user.clave

\* What a handler is about to save, against the row.
ToBeSaved(op, copy) ==
    \/ op = "login" /\ SameAccount(copy)
    \/ /\ op \in {"changePassword", "resetPassword"}
       /\ copy.rol = user.rol /\ copy.verificado = user.verificado
    \/ /\ op = "verifyUser" /\ ~user.verificado
       /\ copy.rol = "PASAJERO" /\ copy.verificado /\ copy.clave = user.clave
    \/ /\ op = "approveDriver" /\ user.verificado
       /\ copy.rol = "CONDUCTOR" /\ copy.verificado /\ copy.clave = user.clave

HoldsCurrent(w) ==
    LET op == proc[w].op
        copy == proc[w].copy
    IN  /\ proc[w].at = "check" => op = "login" /\ SameAccount(copy)
        /\ proc[w].at \in {"save", "flush"} => ToBeSaved(op, copy)
        /\ proc[w].at = "flush" =>
                \A c \in {"rol", "verificado", "clave"} : c \in proc[w].cols \/ copy[c] = user[c]
        /\ proc[w].at \in {"revocation", "reread"} => op = "refresh"
        /\ proc[w].at \in {"rotate", "issue"} =>
                /\ op \in {"login", "refresh"} /\ SameAccount(copy)
                /\ op = "refresh" => ~deleted
        /\ proc[w].at = "rotate" => op = "refresh"
        /\ proc[w].at = "store" =>
                SameAccount(copy) /\ ~deleted /\ revoked[BusinessId].at <= proc[w].iat

OneHandler ==
    \A v, w \in Workers : proc[v].at # "idle" /\ proc[w].at # "idle" => v = w

RoleFollowsVerification ==
    user.rol \in (IF user.verificado THEN {"PASAJERO", "CONDUCTOR"} ELSE {"USER"})

Ended(p) == pair[p].iat <= revoked[BusinessId].at
Current(p) ==
    /\ ~deleted /\ pair[p].clave = user.clave
    /\ \/ pair[p].rol = user.rol /\ pair[p].verificado = user.verificado
       \/ /\ pair[p].rol = "USER" /\ ~pair[p].verificado
          /\ user.rol = "PASAJERO" /\ user.verificado

PairsAreCurrent ==
    (\A w \in Workers : proc[w].at # "revoke") =>
        \A p \in Pairs : pair[p].issued => Ended(p) \/ Current(p)

\* A refresh key that was set late is there for the second in which it was set.
LateKeys ==
    \A p \in Pairs : pair[p].stored /\ pair[p].iat + RefreshTtl <= now =>
        revoked[BusinessId].at <= pair[p].iat \/ revoked[BusinessId].at = now

PairsAreOfAccount ==
    \A p \in Pairs : pair[p].id = BusinessId /\ (pair[p].stored => pair[p].issued)

AccountInv ==
    /\ PairsAreOfAccount
    /\ disturbed = 0 =>
        /\ OneHandler
        /\ \A w \in Workers : HoldsCurrent(w)
        /\ RoleFollowsVerification
        /\ PairsAreCurrent
        /\ LateKeys

LEMMA InitAccount == Init => AccountInv
<1> SUFFICES ASSUME Init PROVE AccountInv
  OBVIOUS
<1>1. PairsAreOfAccount /\ LateKeys /\ PairsAreCurrent
  BY DEF Init, PairsAreOfAccount, LateKeys, PairsAreCurrent, NoPair
<1>2. OneHandler /\ \A w \in Workers : HoldsCurrent(w)
  BY DEF Init, OneHandler, HoldsCurrent, Idle
<1>3. RoleFollowsVerification
  BY DEF Init, RoleFollowsVerification, NewUser
<1>. QED  BY <1>1, <1>2, <1>3 DEF AccountInv

\* The tokens stay as they are, but for a refresh key that is deleted.
SameKeys ==
    \A p \in Pairs :
        /\ \A c \in {"id", "iat", "rol", "verificado", "clave", "issued"} : pair'[p][c] = pair[p][c]
        /\ pair'[p].stored => pair[p].stored

LEMMA DroppedAreSameKeys ==
    ASSUME TypeOK, NEW p \in Pairs, DropRefresh(p)
    PROVE  SameKeys
  BY DEF DropRefresh, SameKeys, TypeOK, Pair

\* A handler alone takes a step: the others stay idle.
LEMMA AloneAgain ==
    ASSUME TypeOK, NEW w \in Workers, NEW record, Become(w, record),
           \A v \in Workers \ {w} : proc[v].at = "idle"
    PROVE  /\ OneHandler'
           /\ proc'[w] = record
           /\ \A v \in Workers \ {w} : proc'[v].at = "idle" /\ HoldsCurrent(v)'
<1>1. /\ proc'[w] = record
      /\ \A v \in Workers \ {w} : proc'[v].at = "idle"
  BY DEF TypeOK, Become
<1>. QED  BY <1>1 DEF OneHandler, HoldsCurrent

\* A step that touches no more than refresh keys.
LEMMA PlainAlone ==
    ASSUME RevocationInv, AccountInv, NEW w \in Workers, NEW record, Become(w, record),
           UNCHANGED <<now, user, deleted, revoked>>, SameKeys,
           disturbed' = 0 =>
                /\ disturbed = 0
                /\ proc[w].at # "revoke"
                /\ \A v \in Workers \ {w} : proc[v].at = "idle"
                /\ HoldsCurrent(w)'
    PROVE  AccountInv'
<1>1. PairsAreOfAccount'
  BY DEF AccountInv, PairsAreOfAccount, SameKeys
<1>2. ASSUME disturbed' = 0
      PROVE  /\ OneHandler' /\ (\A v \in Workers : HoldsCurrent(v)')
             /\ RoleFollowsVerification' /\ PairsAreCurrent' /\ LateKeys'
  <2>1. OneHandler' /\ \A v \in Workers : HoldsCurrent(v)'
    BY <1>2, AloneAgain DEF RevocationInv
  <2>2. \A p \in Pairs : pair[p].issued => Ended(p) \/ Current(p)
    BY <1>2 DEF AccountInv, PairsAreCurrent
  <2>3. PairsAreCurrent'
    BY <2>2 DEF PairsAreCurrent, SameKeys, Ended, Current
  <2>4. RoleFollowsVerification' /\ LateKeys'
    BY <1>2 DEF AccountInv, RoleFollowsVerification, LateKeys, SameKeys
  <2>. QED  BY <2>1, <2>3, <2>4
<1>. QED  BY <1>1, <1>2 DEF AccountInv

LEMMA CalledAlone ==
    ASSUME TypeOK, NEW w \in Workers, NEW op, Called(w, op), disturbed' = 0
    PROVE  disturbed = 0 /\ \A v \in Workers : proc[v].at = "idle"
  BY DEF Called, TypeOK

LEMMA RunningAlone ==
    ASSUME AccountInv, disturbed = 0, NEW w \in Workers, proc[w].at # "idle"
    PROVE  HoldsCurrent(w) /\ \A v \in Workers \ {w} : proc[v].at = "idle"
  BY DEF AccountInv, OneHandler

LEMMA UserCallsAlone ==
    ASSUME RevocationInv, AccountInv, NEW w \in Workers,
           \/ Login(w) \/ ResetPassword(w) \/ VerifyUser(w) \/ ApproveDriver(w) \/ SuspendDriver(w)
    PROVE  AccountInv'
<1>t. TypeOK
  BY DEF RevocationInv
<1>s. UNCHANGED pair => SameKeys
  BY DEF SameKeys
<1>1. CASE Login(w)
  <2> DEFINE record == [Call("login", "check") EXCEPT !.copy = user]
  <2>1. record.at = "check" /\ record.op = "login" /\ record.copy = user
    BY DEF Call, Idle
  <2>2. Become(w, record) /\ UNCHANGED <<now, user, deleted, revoked, pair>> /\ Called(w, "login")
    BY <1>1 DEF Login
  <2> HIDE DEF record
  <2>3. HoldsCurrent(w)'
    BY <1>t, <2>1, <2>2 DEF HoldsCurrent, SameAccount, Become, TypeOK
  <2>. QED  BY <1>s, <1>t, <2>2, <2>3, CalledAlone, PlainAlone
<1>2. CASE ResetPassword(w)
  <2> DEFINE record == Saving(Call("resetPassword", "save"), NewPassword(user))
  <2>1. /\ record.at = "save" /\ record.op = "resetPassword"
        /\ record.copy.rol = user.rol /\ record.copy.verificado = user.verificado
    BY <1>t DEF Call, Idle, Saving, NewPassword, TypeOK, AuthUser
  <2>2. Become(w, record) /\ UNCHANGED <<now, user, deleted, revoked, pair>> /\ Called(w, "resetPassword")
    BY <1>2 DEF ResetPassword
  <2> HIDE DEF record
  <2>3. HoldsCurrent(w)'
    BY <1>t, <2>1, <2>2 DEF HoldsCurrent, ToBeSaved, Become, TypeOK
  <2>. QED  BY <1>s, <1>t, <2>2, <2>3, CalledAlone, PlainAlone
<1>3. CASE VerifyUser(w)
  <2> DEFINE record == Saving(Call("verifyUser", "save"),
                              [user EXCEPT !.verificado = TRUE, !.rol = "PASAJERO"])
  <2>1. /\ record.at = "save" /\ record.op = "verifyUser"
        /\ record.copy.rol = "PASAJERO" /\ record.copy.verificado = TRUE
        /\ record.copy.clave = user.clave
    BY <1>t DEF Call, Idle, Saving, TypeOK, AuthUser
  <2>2. /\ Become(w, record) /\ UNCHANGED <<now, user, deleted, revoked, pair>>
        /\ Called(w, "verifyUser") /\ ~user.verificado
    BY <1>3 DEF VerifyUser
  <2> HIDE DEF record
  <2>3. HoldsCurrent(w)'
    BY <1>t, <2>1, <2>2 DEF HoldsCurrent, ToBeSaved, Become, TypeOK
  <2>. QED  BY <1>s, <1>t, <2>2, <2>3, CalledAlone, PlainAlone
<1>4. CASE ApproveDriver(w)
  <2> DEFINE record == Saving(Call("approveDriver", "save"), [user EXCEPT !.rol = "CONDUCTOR"])
  <2>1. /\ record.at = "save" /\ record.op = "approveDriver"
        /\ record.copy.rol = "CONDUCTOR" /\ record.copy.verificado = user.verificado
        /\ record.copy.clave = user.clave
    BY <1>t DEF Call, Idle, Saving, TypeOK, AuthUser
  <2>2. /\ Become(w, record) /\ UNCHANGED <<now, user, deleted, revoked, pair>>
        /\ Called(w, "approveDriver") /\ user.verificado
    BY <1>4 DEF ApproveDriver
  <2> HIDE DEF record
  <2>3. HoldsCurrent(w)'
    BY <1>t, <2>1, <2>2 DEF HoldsCurrent, ToBeSaved, Become, TypeOK
  <2>. QED  BY <1>s, <1>t, <2>2, <2>3, CalledAlone, PlainAlone
<1>5. CASE SuspendDriver(w)
  <2> DEFINE record == Call("suspendDriver", "revoke")
  <2>1. record.at = "revoke"
    BY DEF Call
  <2>2. /\ Become(w, record) /\ UNCHANGED <<now, user, deleted, revoked, pair>>
        /\ Called(w, "suspendDriver")
    BY <1>5 DEF SuspendDriver
  <2> HIDE DEF record
  <2>3. HoldsCurrent(w)'
    BY <1>t, <2>1, <2>2 DEF HoldsCurrent, Become, TypeOK
  <2>. QED  BY <1>s, <1>t, <2>2, <2>3, CalledAlone, PlainAlone
<1>. QED  BY <1>1, <1>2, <1>3, <1>4, <1>5

LEMMA TokenCallsAlone ==
    ASSUME RevocationInv, AccountInv, NEW w \in Workers, NEW p \in Pairs,
           Refresh(w, p) \/ Logout(w, p) \/ ChangePassword(w, p)
    PROVE  AccountInv'
<1>t. TypeOK
  BY DEF RevocationInv
<1>s. UNCHANGED pair => SameKeys
  BY DEF SameKeys
<1>1. CASE Refresh(w, p)
  <2> DEFINE record == [Call("refresh", "revocation") EXCEPT !.p = p]
  <2>1. record.at = "revocation" /\ record.op = "refresh"
    BY DEF Call, Idle
  <2>2. Become(w, record) /\ UNCHANGED <<now, user, deleted, revoked, pair>> /\ Called(w, "refresh")
    BY <1>1 DEF Refresh
  <2> HIDE DEF record
  <2>3. HoldsCurrent(w)'
    BY <1>t, <2>1, <2>2 DEF HoldsCurrent, Become, TypeOK
  <2>. QED  BY <1>s, <1>t, <2>2, <2>3, CalledAlone, PlainAlone
<1>2. CASE Logout(w, p)
  <2> DEFINE record == [Call("logout", "jti") EXCEPT !.p = p, !.ttl = pair[p].iat + AccessTtl - now]
  <2>1. record.at = "jti"
    BY DEF Call, Idle
  <2>2. Become(w, record) /\ UNCHANGED <<now, user, deleted, revoked, pair>> /\ Called(w, "logout")
    BY <1>2 DEF Logout, CalledWith
  <2> HIDE DEF record
  <2>3. HoldsCurrent(w)'
    BY <1>t, <2>1, <2>2 DEF HoldsCurrent, Become, TypeOK
  <2>. QED  BY <1>s, <1>t, <2>2, <2>3, CalledAlone, PlainAlone
<1>3. CASE ChangePassword(w, p)
  <2> DEFINE record == Saving(Call("changePassword", "save"), NewPassword(user))
  <2>1. /\ record.at = "save" /\ record.op = "changePassword"
        /\ record.copy.rol = user.rol /\ record.copy.verificado = user.verificado
    BY <1>t DEF Call, Idle, Saving, NewPassword, TypeOK, AuthUser
  <2>2. Become(w, record) /\ UNCHANGED <<now, user, deleted, revoked, pair>> /\ Called(w, "changePassword")
    BY <1>3 DEF ChangePassword, CalledWith
  <2> HIDE DEF record
  <2>3. HoldsCurrent(w)'
    BY <1>t, <2>1, <2>2 DEF HoldsCurrent, ToBeSaved, Become, TypeOK
  <2>. QED  BY <1>s, <1>t, <2>2, <2>3, CalledAlone, PlainAlone
<1>. QED  BY <1>1, <1>2, <1>3

\* deleteAccount marks the profile and goes on to revoke; the cleanup job, with
\* the id of the other schema, marks nothing.
LEMMA DeletionsAlone ==
    ASSUME RevocationInv, AccountInv, NEW w \in Workers,
           HandleCleanup(w) \/ \E p \in Pairs : DeleteAccount(w, p)
    PROVE  AccountInv'
<1>t. TypeOK
  BY DEF RevocationInv
<1>1. \E op : Called(w, op)
  BY DEF HandleCleanup, DeleteAccount, CalledWith
<1>2. UNCHANGED <<now, user, revoked, pair>>
  BY DEF HandleCleanup, DeleteAccount
<1>3. PICK record : Become(w, record) /\ (record.at = "revoke" \/ (deleted' = deleted /\ record.at = "idle"))
  <2>1. Call("deleteAccount", "revoke").at = "revoke" /\ Idle.at = "idle"
    BY DEF Call, Idle
  <2>2. CASE HandleCleanup(w)
    BY <1>t, <2>1, <2>2 DEF HandleCleanup, SoftDelete, Affected, AuthId, BusinessId, Done, TypeOK
  <2>3. CASE \E p \in Pairs : DeleteAccount(w, p)
    <3>1. CASE deleted
      <4>1. Done(w) /\ deleted'
        BY <2>3, <3>1 DEF DeleteAccount, SoftDelete, Affected
      <4>. QED  BY <2>1, <3>1, <4>1 DEF Done
    <3>2. CASE ~deleted
      <4>1. Become(w, Call("deleteAccount", "revoke"))
        BY <2>3, <3>2 DEF DeleteAccount, Affected
      <4>. QED  BY <2>1, <4>1
    <3>. QED  BY <3>1, <3>2
  <2>. QED  BY <2>2, <2>3
<1>4. PairsAreOfAccount'
  BY <1>2 DEF AccountInv, PairsAreOfAccount
<1>5. ASSUME disturbed' = 0
      PROVE  /\ OneHandler' /\ (\A v \in Workers : HoldsCurrent(v)')
             /\ RoleFollowsVerification' /\ PairsAreCurrent' /\ LateKeys'
  <2>1. disturbed = 0 /\ \A v \in Workers : proc[v].at = "idle"
    BY <1>1, <1>5, <1>t, CalledAlone
  <2>2. /\ OneHandler' /\ proc'[w] = record
        /\ \A v \in Workers \ {w} : proc'[v].at = "idle" /\ HoldsCurrent(v)'
    BY <1>3, <1>t, <2>1, AloneAgain
  <2>3. HoldsCurrent(w)'
    BY <1>3, <2>2 DEF HoldsCurrent
  <2>4. RoleFollowsVerification' /\ LateKeys'
    BY <1>2, <2>1 DEF AccountInv, RoleFollowsVerification, LateKeys
  <2>5. PairsAreCurrent'
    <3>1. CASE record.at = "revoke"
      BY <2>2, <3>1 DEF PairsAreCurrent
    <3>2. CASE deleted' = deleted
      BY <1>2, <2>1, <3>2 DEF AccountInv, PairsAreCurrent, Ended, Current
    <3>. QED  BY <1>3, <3>1, <3>2
  <2>. QED  BY <2>2, <2>3, <2>4, <2>5
<1>. QED  BY <1>4, <1>5 DEF AccountInv

\* The end of a handler that was alone.
LEMMA EndAlone ==
    ASSUME RevocationInv, AccountInv, NEW w \in Workers, Done(w),
           UNCHANGED <<now, user, deleted, revoked>>, SameKeys,
           disturbed' = 0 => disturbed = 0 /\ proc[w].at \notin {"idle", "revoke"}
    PROVE  AccountInv'
<1>t. TypeOK
  BY DEF RevocationInv
<1>1. ASSUME disturbed' = 0
      PROVE  \A v \in Workers \ {w} : proc[v].at = "idle"
  BY <1>1, RunningAlone
<1>2. HoldsCurrent(w)'
  BY <1>t DEF HoldsCurrent, Done, Become, TypeOK, Idle
<1>. QED  BY <1>1, <1>2, PlainAlone DEF Done

LEMMA LoginStepsAlone ==
    ASSUME RevocationInv, AccountInv, NEW w \in Workers,
           \/ \E valid \in BOOLEAN : CheckPassword(w, valid)
           \/ SaveUser(w) \/ IssueTokens(w)
    PROVE  AccountInv'
<1>t. TypeOK /\ proc[w] \in Proc /\ proc[w].copy \in AuthUser
  BY DEF RevocationInv, TypeOK, Proc
<1>u. UNCHANGED <<now, user, deleted, revoked, disturbed>> /\ SameKeys
  BY DEF CheckPassword, SaveUser, IssueTokens, SameKeys
<1>a. proc[w].at \in {"check", "save", "issue"}
  BY DEF CheckPassword, SaveUser, IssueTokens
<1>h. disturbed = 0 => HoldsCurrent(w) /\ \A v \in Workers \ {w} : proc[v].at = "idle"
  BY <1>a, RunningAlone
<1>1. ASSUME NEW valid \in BOOLEAN, CheckPassword(w, valid)
      PROVE  AccountInv'
  <2> DEFINE copy == IF valid THEN AfterSuccess(proc[w].copy) ELSE AfterFailure(proc[w].copy)
             record == Saving([proc[w] EXCEPT !.valid = valid], copy)
  <2>0. copy.rol = proc[w].copy.rol /\ copy.verificado = proc[w].copy.verificado
        /\ copy.clave = proc[w].copy.clave
    BY <1>t DEF AfterSuccess, AfterFailure, AuthUser
  <2>1. record.at = "save" /\ record.op = proc[w].op /\ record.copy = copy
    BY <1>t DEF Saving, Proc
  <2>2. Become(w, record) /\ proc[w].at = "check"
    BY <1>1 DEF CheckPassword
  <2> HIDE DEF record, copy
  <2>3. disturbed = 0 => HoldsCurrent(w)'
    BY <1>h, <1>t, <1>u, <2>0, <2>1, <2>2 DEF HoldsCurrent, ToBeSaved, SameAccount, Become, TypeOK
  <2>. QED  BY <1>u, <1>h, <2>2, <2>3, PlainAlone
<1>2. CASE SaveUser(w)
  <2> DEFINE record == [proc[w] EXCEPT !.at = "flush", !.cols = UserDiff(proc[w].copy, user)]
  <2>1. /\ record.at = "flush" /\ record.op = proc[w].op /\ record.copy = proc[w].copy
        /\ record.cols = UserDiff(proc[w].copy, user)
    BY <1>t DEF Proc
  <2>2. Become(w, record) /\ proc[w].at = "save"
    BY <1>2 DEF SaveUser
  <2> HIDE DEF record
  <2>3. \A c \in {"rol", "verificado", "clave"} :
            c \in UserDiff(proc[w].copy, user) \/ proc[w].copy[c] = user[c]
    BY <1>t DEF UserDiff, TypeOK, AuthUser
  <2>4. disturbed = 0 => HoldsCurrent(w)'
    BY <1>h, <1>t, <1>u, <2>1, <2>2, <2>3 DEF HoldsCurrent, ToBeSaved, SameAccount, Become, TypeOK
  <2>. QED  BY <1>u, <1>h, <2>2, <2>4, PlainAlone
<1>3. CASE IssueTokens(w)
  <2>1. CASE Done(w)
    BY <1>a, <1>u, <2>1, EndAlone
  <2>2. CASE /\ ~(proc[w].op = "login" /\ deleted)
             /\ Become(w, [proc[w] EXCEPT
                    !.at = "store", !.p = CHOOSE p \in Fresh(w) : TRUE, !.iat = now])
    <3> DEFINE record == [proc[w] EXCEPT !.at = "store", !.p = CHOOSE p \in Fresh(w) : TRUE, !.iat = now]
    <3>1. record.at = "store" /\ record.copy = proc[w].copy /\ record.iat = now
      BY <1>t DEF Proc
    <3>2. revoked[BusinessId].at <= now
      BY DEF RevocationInv, KeysOutliveTokens, Ids
    <3>3. Become(w, record) /\ proc[w].at = "issue"
      BY <1>3, <2>2 DEF IssueTokens
    <3> HIDE DEF record
    <3>4. disturbed = 0 => HoldsCurrent(w)'
      BY <1>h, <1>t, <1>u, <2>2, <3>1, <3>2, <3>3 DEF HoldsCurrent, SameAccount, Become, TypeOK
    <3>. QED  BY <1>u, <1>h, <3>3, <3>4, PlainAlone
  <2>. QED  BY <1>3, <2>1, <2>2 DEF IssueTokens
<1>. QED  BY <1>1, <1>2, <1>3

LEMMA RefreshStepsAlone ==
    ASSUME RevocationInv, AccountInv, NEW w \in Workers,
           \/ CheckRevocation(w) \/ RereadUser(w) \/ RotateRefresh(w)
           \/ RevokeJti(w) \/ RevokeRefreshToken(w)
    PROVE  AccountInv'
<1>t. TypeOK /\ proc[w] \in Proc /\ proc[w].p \in Pairs
  BY DEF RevocationInv, TypeOK, Proc
<1>u. UNCHANGED <<now, user, deleted, revoked, disturbed>>
  BY DEF CheckRevocation, RereadUser, RotateRefresh, RevokeJti, RevokeRefreshToken
<1>a. proc[w].at \in {"revocation", "reread", "rotate", "jti", "drop"}
  BY DEF CheckRevocation, RereadUser, RotateRefresh, RevokeJti, RevokeRefreshToken
<1>h. disturbed = 0 => HoldsCurrent(w) /\ \A v \in Workers \ {w} : proc[v].at = "idle"
  BY <1>a, RunningAlone
<1>s. UNCHANGED pair => SameKeys
  BY DEF SameKeys
<1>k. SameKeys
  <2>1. CASE RevokeJti(w)
    BY <1>t, <2>1 DEF RevokeJti, SameKeys, TypeOK, Pair
  <2>2. CASE CheckRevocation(w) \/ RereadUser(w) \/ RotateRefresh(w) \/ RevokeRefreshToken(w)
    BY <1>s, <1>t, <2>2, DroppedAreSameKeys
       DEF CheckRevocation, RereadUser, RotateRefresh, RevokeRefreshToken
  <2>. QED  BY <2>1, <2>2
<1>e. CASE Done(w)
  BY <1>a, <1>e, <1>k, <1>u, EndAlone
<1>1. CASE CheckRevocation(w) /\ Become(w, [proc[w] EXCEPT !.at = "reread"])
  <2> DEFINE record == [proc[w] EXCEPT !.at = "reread"]
  <2>1. record.at = "reread" /\ record.op = proc[w].op
    BY <1>t DEF Proc
  <2>2. Become(w, record) /\ proc[w].at = "revocation"
    BY <1>1 DEF CheckRevocation
  <2> HIDE DEF record
  <2>3. disturbed = 0 => HoldsCurrent(w)'
    BY <1>h, <1>t, <2>1, <2>2 DEF HoldsCurrent, Become, TypeOK
  <2>. QED  BY <1>h, <1>k, <1>u, <2>2, <2>3, PlainAlone
<1>2. CASE RereadUser(w) /\ ~deleted /\ Become(w, [proc[w] EXCEPT !.at = "rotate", !.copy = user])
  <2> DEFINE record == [proc[w] EXCEPT !.at = "rotate", !.copy = user]
  <2>1. record.at = "rotate" /\ record.op = proc[w].op /\ record.copy = user
    BY <1>t DEF Proc
  <2>2. Become(w, record) /\ proc[w].at = "reread"
    BY <1>2 DEF RereadUser
  <2> HIDE DEF record
  <2>3. disturbed = 0 => HoldsCurrent(w)'
    BY <1>2, <1>h, <1>t, <1>u, <2>1, <2>2 DEF HoldsCurrent, SameAccount, Become, TypeOK
  <2>. QED  BY <1>h, <1>k, <1>u, <2>2, <2>3, PlainAlone
<1>3. CASE RotateRefresh(w)
  <2> DEFINE record == [proc[w] EXCEPT !.at = "issue"]
  <2>1. record.at = "issue" /\ record.op = proc[w].op /\ record.copy = proc[w].copy
    BY <1>t DEF Proc
  <2>2. Become(w, record) /\ proc[w].at = "rotate"
    BY <1>3 DEF RotateRefresh
  <2> HIDE DEF record
  <2>3. disturbed = 0 => HoldsCurrent(w)'
    BY <1>h, <1>t, <1>u, <2>1, <2>2 DEF HoldsCurrent, SameAccount, Become, TypeOK
  <2>. QED  BY <1>h, <1>k, <1>u, <2>2, <2>3, PlainAlone
<1>4. CASE RevokeJti(w) /\ Become(w, [proc[w] EXCEPT !.at = "drop"])
  <2> DEFINE record == [proc[w] EXCEPT !.at = "drop"]
  <2>1. record.at = "drop"
    BY <1>t DEF Proc
  <2> HIDE DEF record
  <2>2. Become(w, record) /\ proc[w].at = "jti"
    BY <1>4 DEF RevokeJti, record
  <2>3. HoldsCurrent(w)'
    BY <1>t, <2>1, <2>2 DEF HoldsCurrent, Become, TypeOK
  <2>. QED  BY <1>h, <1>k, <1>u, <2>2, <2>3, PlainAlone
<1>. QED  BY <1>e, <1>1, <1>2, <1>3, <1>4
       DEF CheckRevocation, RereadUser, RotateRefresh, RevokeJti, RevokeRefreshToken

\* What is written: the three columns become those of the copy.
LEMMA FlushWrites ==
    ASSUME TypeOK, NEW w \in Workers, FlushUser(w), HoldsCurrent(w)
    PROVE  \A c \in {"rol", "verificado", "clave"} : user'[c] = proc[w].copy[c]
<1>1. \A c \in {"rol", "verificado", "clave"} : c \in proc[w].cols \/ proc[w].copy[c] = user[c]
  BY DEF FlushUser, HoldsCurrent
<1>2. user' = UserUpdate(proc[w].copy, user, proc[w].cols)
  BY DEF FlushUser
<1>. QED  BY <1>1, <1>2 DEF UserUpdate, TypeOK, AuthUser

LEMMA FlushAlone ==
    ASSUME RevocationInv, AccountInv, NEW w \in Workers, FlushUser(w)
    PROVE  AccountInv'
<1>t. TypeOK /\ proc[w] \in Proc /\ proc[w].copy \in AuthUser /\ proc[w].at = "flush"
  BY DEF RevocationInv, TypeOK, Proc, FlushUser
<1>u. UNCHANGED <<now, deleted, revoked, pair, disturbed>>
  BY DEF FlushUser
<1>1. PairsAreOfAccount'
  BY <1>u DEF AccountInv, PairsAreOfAccount
<1>2. ASSUME disturbed' = 0
      PROVE  /\ OneHandler' /\ (\A v \in Workers : HoldsCurrent(v)')
             /\ RoleFollowsVerification' /\ PairsAreCurrent' /\ LateKeys'
  <2>1. /\ disturbed = 0 /\ HoldsCurrent(w) /\ RoleFollowsVerification /\ LateKeys
        /\ \A v \in Workers \ {w} : proc[v].at = "idle"
        /\ \A p \in Pairs : pair[p].issued => Ended(p) \/ Current(p)
    BY <1>2, <1>t, <1>u, RunningAlone DEF AccountInv, PairsAreCurrent
  <2> DEFINE op == proc[w].op
             copy == proc[w].copy
  <2>2. user'.rol = copy.rol /\ user'.verificado = copy.verificado /\ user'.clave = copy.clave
    BY <1>t, <2>1, FlushWrites
  <2>3. ToBeSaved(op, copy)
    BY <1>t, <2>1 DEF HoldsCurrent
  <2>4. RoleFollowsVerification'
    BY <2>1, <2>2, <2>3 DEF ToBeSaved, SameAccount, RoleFollowsVerification
  <2>5. LateKeys'
    BY <1>u, <2>1 DEF LateKeys
  <2>6. PICK record :
            /\ Become(w, record)
            /\ \/ /\ op = "login" /\ record.at = "issue"
                  /\ record.op = "login" /\ record.copy = copy
               \/ op \in {"changePassword", "resetPassword", "approveDriver"} /\ record.at = "revoke"
               \/ op \in {"login", "verifyUser"} /\ record.at = "idle"
    <3>1. CASE op = "login" /\ proc[w].valid
      <4>1. LET record == [proc[w] EXCEPT !.at = "issue", !.cols = {}]
            IN  record.at = "issue" /\ record.op = op /\ record.copy = copy
        BY <1>t DEF Proc
      <4>. QED  BY <3>1, <4>1 DEF FlushUser, AfterSave
    <3>2. CASE op \in {"changePassword", "resetPassword", "approveDriver"}
      <4>1. Call(op, "revoke").at = "revoke"
        BY DEF Call, Idle
      <4>. QED  BY <3>2, <4>1 DEF FlushUser, AfterSave
    <3>3. CASE op = "verifyUser" \/ (op = "login" /\ ~proc[w].valid)
      <4>1. Idle.at = "idle"
        BY DEF Idle
      <4>. QED  BY <3>3, <4>1 DEF FlushUser, AfterSave, Done
    <3>. QED  BY <2>3, <3>1, <3>2, <3>3 DEF ToBeSaved
  <2>7. /\ OneHandler' /\ proc'[w] = record
        /\ \A v \in Workers \ {w} : proc'[v].at = "idle" /\ HoldsCurrent(v)'
    BY <1>t, <2>1, <2>6, AloneAgain
  <2>8. HoldsCurrent(w)'
    BY <1>u, <2>2, <2>6, <2>7 DEF HoldsCurrent, SameAccount
  <2>9. PairsAreCurrent'
    <3>1. CASE record.at = "revoke"
      BY <2>7, <3>1 DEF PairsAreCurrent
    <3>2. CASE op \in {"login", "verifyUser"}
      <4> SUFFICES ASSUME NEW p \in Pairs, pair'[p].issued
                   PROVE  Ended(p)' \/ Current(p)'
        BY DEF PairsAreCurrent
      <4>1. CASE Ended(p)
        BY <1>u, <4>1 DEF Ended
      <4>2. CASE Current(p)
        BY <1>u, <2>1, <2>2, <2>3, <3>2, <4>2
           DEF Current, ToBeSaved, SameAccount, RoleFollowsVerification
      <4>. QED  BY <1>u, <2>1, <4>1, <4>2
    <3>. QED  BY <2>6, <3>1, <3>2
  <2>. QED  BY <2>4, <2>5, <2>7, <2>8, <2>9
<1>. QED  BY <1>1, <1>2 DEF AccountInv

LEMMA StoreAlone ==
    ASSUME RevocationInv, AccountInv, NEW w \in Workers, StoreRefresh(w)
    PROVE  AccountInv'
<1>t. /\ TypeOK /\ proc[w].p \in Pairs /\ proc[w].copy \in AuthUser /\ proc[w].at = "store"
      /\ proc[w].iat \in Nat
  BY DEF RevocationInv, TypeOK, Proc, StoreRefresh
<1>u. UNCHANGED <<now, user, deleted, revoked, disturbed>> /\ Done(w)
  BY DEF StoreRefresh
<1>1. PICK q \in Pairs :
      /\ pair'[q].id = BusinessId /\ pair'[q].iat = proc[w].iat
      /\ pair'[q].rol = proc[w].copy.rol /\ pair'[q].verificado = proc[w].copy.verificado
      /\ pair'[q].clave = proc[w].copy.clave /\ pair'[q].issued = TRUE
      /\ \A p \in Pairs \ {q} : pair'[p] = pair[p]
  BY <1>t, IdsResolve DEF StoreRefresh, TypeOK
<1>2. PairsAreOfAccount'
  BY <1>1 DEF AccountInv, PairsAreOfAccount
<1>3. ASSUME disturbed' = 0
      PROVE  /\ OneHandler' /\ (\A v \in Workers : HoldsCurrent(v)')
             /\ RoleFollowsVerification' /\ PairsAreCurrent' /\ LateKeys'
  <2>1. /\ disturbed = 0 /\ HoldsCurrent(w) /\ RoleFollowsVerification /\ LateKeys
        /\ \A v \in Workers \ {w} : proc[v].at = "idle"
        /\ \A p \in Pairs : pair[p].issued => Ended(p) \/ Current(p)
    BY <1>3, <1>t, <1>u, RunningAlone DEF AccountInv, PairsAreCurrent
  <2>2. SameAccount(proc[w].copy) /\ ~deleted /\ revoked[BusinessId].at <= proc[w].iat
    BY <1>t, <2>1 DEF HoldsCurrent
  <2>3. /\ OneHandler' /\ proc'[w] = Idle
        /\ \A v \in Workers \ {w} : proc'[v].at = "idle" /\ HoldsCurrent(v)'
    BY <1>t, <1>u, <2>1, AloneAgain DEF Done
  <2>4. HoldsCurrent(w)'
    BY <2>3 DEF HoldsCurrent, Idle
  <2>5. Current(q)'
    BY <1>1, <1>u, <2>2 DEF Current, SameAccount
  <2>6. PairsAreCurrent'
    BY <1>1, <1>u, <2>1, <2>5 DEF PairsAreCurrent, Ended, Current
  <2>7. RoleFollowsVerification' /\ LateKeys'
    BY <1>1, <1>u, <2>1, <2>2 DEF RoleFollowsVerification, LateKeys
  <2>. QED  BY <2>3, <2>4, <2>6, <2>7
<1>. QED  BY <1>2, <1>3 DEF AccountInv

\* Every token that was issued is older than the revocation, or of its second.
LEMMA RevokeAlone ==
    ASSUME RevocationInv, AccountInv, NEW w \in Workers, RevokeUserSessions(w)
    PROVE  AccountInv'
<1>t. TypeOK /\ proc[w].at = "revoke"
  BY DEF RevocationInv, RevokeUserSessions
<1>u. UNCHANGED <<now, user, deleted, pair, disturbed>> /\ Done(w)
  BY DEF RevokeUserSessions
<1>1. revoked'[BusinessId].at = now
  BY <1>t, IdsResolve DEF RevokeUserSessions, RevokedId, TypeOK, Ids
<1>2. PairsAreOfAccount'
  BY <1>u DEF AccountInv, PairsAreOfAccount
<1>3. ASSUME disturbed' = 0
      PROVE  /\ OneHandler' /\ (\A v \in Workers : HoldsCurrent(v)')
             /\ RoleFollowsVerification' /\ PairsAreCurrent' /\ LateKeys'
  <2>1. /\ disturbed = 0 /\ RoleFollowsVerification
        /\ \A v \in Workers \ {w} : proc[v].at = "idle"
    BY <1>3, <1>t, <1>u, RunningAlone DEF AccountInv
  <2>2. /\ OneHandler' /\ proc'[w] = Idle
        /\ \A v \in Workers \ {w} : proc'[v].at = "idle" /\ HoldsCurrent(v)'
    BY <1>t, <1>u, <2>1, AloneAgain DEF Done
  <2>3. HoldsCurrent(w)'
    BY <2>2 DEF HoldsCurrent, Idle
  <2>4. PairsAreCurrent'
    BY <1>1, <1>u DEF PairsAreCurrent, Ended, RevocationInv, IatsArePast
  <2>5. RoleFollowsVerification' /\ LateKeys'
    BY <1>1, <1>u, <2>1 DEF RoleFollowsVerification, LateKeys
  <2>. QED  BY <2>2, <2>3, <2>4, <2>5
<1>. QED  BY <1>2, <1>3 DEF AccountInv

LEMMA TickAlone ==
    ASSUME RevocationInv, AccountInv, Tick
    PROVE  AccountInv'
<1>t. TypeOK
  BY DEF RevocationInv
<1>1. now \in Nat /\ now' = now + 1 /\ UNCHANGED <<deleted, revoked, proc, disturbed>>
  <2>1. now \in 0..MaxTime /\ now' = now + 1 /\ UNCHANGED <<deleted, revoked, proc, disturbed>>
    BY <1>t DEF Tick, TypeOK
  <2>. QED  BY <2>1
<1>2. \A p \in Pairs :
        /\ \A c \in {"id", "iat", "rol", "verificado", "clave", "issued"} : pair'[p][c] = pair[p][c]
        /\ pair[p].iat \in Nat
  <2> TAKE p \in Pairs
  <2>1. pair'[p] = [pair[p] EXCEPT
            !.jtiRevokedUntil = IF now + 1 < @ THEN @ ELSE 0,
            !.stored = @ /\ now + 1 < pair[p].iat + RefreshTtl]
    BY DEF Tick
  <2>2. pair[p] \in Pair
    BY <1>t DEF TypeOK
  <2>. QED  BY <2>1, <2>2 DEF Pair
<1>s. ASSUME NEW p \in Pairs, pair'[p].stored
      PROVE  pair[p].stored /\ now + 1 < pair[p].iat + RefreshTtl
  <2>1. pair'[p] = [pair[p] EXCEPT
            !.jtiRevokedUntil = IF now + 1 < @ THEN @ ELSE 0,
            !.stored = @ /\ now + 1 < pair[p].iat + RefreshTtl]
    BY DEF Tick
  <2>2. pair'[p].stored = (pair[p].stored /\ now + 1 < pair[p].iat + RefreshTtl)
    BY <1>t, <2>1 DEF TypeOK, Pair
  <2>. QED  BY <1>s, <2>2
<1>3. user'.rol = user.rol /\ user'.verificado = user.verificado /\ user'.clave = user.clave
  BY <1>t DEF Tick, TypeOK, AuthUser
<1>4. PairsAreOfAccount'
  BY <1>2, <1>s DEF AccountInv, PairsAreOfAccount
<1>5. LateKeys'
  BY <1>1, <1>2, <1>s, SessionAssumption DEF LateKeys
<1>6. ASSUME disturbed' = 0
      PROVE  /\ OneHandler' /\ (\A v \in Workers : HoldsCurrent(v)')
             /\ RoleFollowsVerification' /\ PairsAreCurrent'
  <2>1. OneHandler' /\ RoleFollowsVerification'
    BY <1>1, <1>3, <1>6 DEF AccountInv, OneHandler, RoleFollowsVerification
  <2>2. PairsAreCurrent'
    BY <1>1, <1>2, <1>3, <1>6 DEF AccountInv, PairsAreCurrent, Ended, Current
  <2>3. ASSUME NEW v \in Workers
        PROVE  HoldsCurrent(v)'
    <3>1. HoldsCurrent(v)
      BY <1>1, <1>6 DEF AccountInv
    <3>2. \A c \in {"rol", "verificado", "clave"} : user'[c] = user[c]
      BY <1>3
    <3>. QED  BY <1>1, <1>3, <3>1, <3>2 DEF HoldsCurrent, ToBeSaved, SameAccount
  <2>. QED  BY <2>1, <2>2, <2>3
<1>. QED  BY <1>4, <1>5, <1>6 DEF AccountInv

LEMMA StepAccount ==
    ASSUME RevocationInv, AccountInv, [Next]_vars
    PROVE  AccountInv'
<1>1. ASSUME NEW w \in Workers, Calls(w) PROVE AccountInv'
  BY <1>1, UserCallsAlone, TokenCallsAlone, DeletionsAlone DEF Calls
<1>2. ASSUME NEW w \in Workers, Continue(w) PROVE AccountInv'
  BY <1>2, LoginStepsAlone, RefreshStepsAlone, FlushAlone, StoreAlone, RevokeAlone DEF Continue
<1>3. ASSUME NEW w \in Workers, Fail(w) PROVE AccountInv'
  <2>1. disturbed' # 0
    BY <1>3 DEF Fail, RevocationInv, TypeOK
  <2>2. PairsAreOfAccount'
    BY <1>3 DEF Fail, AccountInv, PairsAreOfAccount
  <2>. QED  BY <2>1, <2>2 DEF AccountInv
<1>4. CASE Tick
  BY <1>4, TickAlone
<1>5. CASE UNCHANGED vars
  <2>1. \A w \in Workers : HoldsCurrent(w) => HoldsCurrent(w)'
    BY <1>5 DEF vars, HoldsCurrent, ToBeSaved, SameAccount
  <2>. QED  BY <1>5, <2>1 DEF vars, AccountInv, PairsAreOfAccount, OneHandler, RoleFollowsVerification,
                              PairsAreCurrent, Ended, Current, LateKeys
<1>. QED  BY <1>1, <1>2, <1>3, <1>4, <1>5 DEF Next

LEMMA EndedIsRefused ==
    ASSUME RevocationInv, AccountInv, NEW p \in Pairs, Ended(p), ~SameSecond(p)
    PROVE  /\ ~Accepted(p)
           /\ RefreshFound(p) /\ revoked[pair[p].id].until = revoked[pair[p].id].at + RefreshTtl
                /\ disturbed = 0 => SessionRevoked(p)
<1> DEFINE key == revoked[BusinessId]
<1>1. /\ pair[p].id = BusinessId /\ now \in Nat /\ pair[p].iat \in Nat
      /\ key.at \in Nat /\ key.until \in Nat
      /\ AccessTtl \in Nat \ {0} /\ RefreshTtl \in Nat \ {0}
  BY SessionAssumption DEF RevocationInv, AccountInv, PairsAreOfAccount, TypeOK, Pair, Ids, Time
<1>2. pair[p].iat < key.at
  BY <1>1 DEF Ended, SameSecond
<1>3. key.at + AccessTtl <= key.until
  BY <1>1, <1>2 DEF RevocationInv, KeysOutliveTokens, Ids
<1>4. ~Accepted(p)
  BY <1>1, <1>2, <1>3 DEF Accepted, SessionRevoked
<1>5. ASSUME RefreshFound(p), key.until = key.at + RefreshTtl, disturbed = 0
      PROVE  SessionRevoked(p)
  <2>1. pair[p].iat + RefreshTtl <= now => key.at <= pair[p].iat \/ key.at = now
    BY <1>5 DEF AccountInv, LateKeys, RefreshFound
  <2>2. now < key.until
    BY <1>1, <1>2, <1>5, <2>1
  <2>. QED  BY <1>1, <1>2, <2>2 DEF SessionRevoked
<1>. QED  BY <1>1, <1>4, <1>5

LEMMA QuietPairs ==
    ASSUME AccountInv, Quiet, NEW p \in Pairs, pair[p].issued
    PROVE  Ended(p) \/ Current(p)
  BY DEF Quiet, AccountInv, PairsAreCurrent

LEMMA AccountGivesPermissions == RevocationInv /\ AccountInv => PermissionsAreCurrent
<1> SUFFICES ASSUME RevocationInv, AccountInv, Quiet,
                    NEW p \in Pairs, Accepted(p), ~SameSecond(p)
             PROVE  Callable(pair[p].rol, pair[p].verificado) \ DOMAIN VerificationController
                        \subseteq (IF deleted THEN {} ELSE Callable(user.rol, user.verificado))
  BY DEF PermissionsAreCurrent
<1>1. Current(p)
  BY QuietPairs, EndedIsRefused DEF Accepted
<1>2. CASE pair[p].rol = user.rol /\ pair[p].verificado = user.verificado
  BY <1>1, <1>2 DEF Current
<1>3. CASE pair[p].rol = "USER" /\ ~pair[p].verificado /\ user.rol = "PASAJERO" /\ user.verificado
  <2>1. pair[p].verificado = FALSE /\ user.verificado = TRUE
    BY <1>3 DEF RevocationInv, TypeOK, Pair, AuthUser
  <2>. QED  BY <1>1, <1>3, <2>1, VerifiedMayCall DEF Current
<1>. QED  BY <1>1, <1>2, <1>3 DEF Current

LEMMA AccountEndsSessions == RevocationInv /\ AccountInv => SessionsEndWithPassword
<1> SUFFICES ASSUME RevocationInv, AccountInv, Quiet, NEW p \in Pairs, ~SameSecond(p),
                    \/ Accepted(p)
                    \/ /\ RefreshFound(p) /\ ~SessionRevoked(p)
                       /\ revoked[pair[p].id].until = revoked[pair[p].id].at + RefreshTtl
             PROVE  pair[p].clave = user.clave
  BY DEF SessionsEndWithPassword
<1>1. pair[p].issued
  BY DEF Accepted, RefreshFound, AccountInv, PairsAreOfAccount
<1>2. ~Ended(p)
  BY EndedIsRefused DEF Quiet
<1>. QED  BY <1>1, <1>2, QuietPairs DEF Current

-----------------------------------------------------------------------------
(* Theorems. *)

\* The invariant above holds throughout: what Redis keeps about a token, and what
\* a handler under way still means to keep, lives as long as the token.
THEOREM KeysOutlive == Spec => []RevocationInv
<1>1. Init => RevocationInv
  BY InitRevocation
<1>2. RevocationInv /\ [Next]_vars => RevocationInv'
  BY StepRevocation
<1>. QED  BY <1>1, <1>2, PTL DEF Spec

\* The columns of the user, the tokens and the keys in Redis keep their domains.
THEOREM TypeCorrect == Spec => []TypeOK
<1>1. RevocationInv => TypeOK
  BY DEF RevocationInv
<1>. QED  BY <1>1, KeysOutlive, PTL

\* A token that JweAuthGuard refuses (expired, logged out, or older than the
\* revocation of its account) is refused for good, whatever runs side by side.
THEOREM RefusedForGood == Spec => RefusedStaysRefused
<1>1. RevocationInv /\ [Next]_vars
      => [\A p \in Pairs : pair[p].issued /\ ~Accepted(p) => ~Accepted(p)']_vars
  BY StepRevocation DEF RefusedStay
<1>. QED  BY <1>1, KeysOutlive, PTL DEF Spec, RefusedStaysRefused

\* One handler at a time, every token is of the account as it is, or was ended.
THEOREM PairsFollowAccount == Spec => []AccountInv
<1>1. Init => AccountInv
  BY InitAccount
<1>2. RevocationInv /\ AccountInv /\ [Next]_vars => AccountInv'
  BY StepAccount
<1>. QED  BY <1>1, <1>2, KeysOutlive, PTL DEF Spec

\* When the handlers run one at a time, an access token opens nothing that its
\* account may not call, of all the handlers that the controllers declare.
THEOREM PermissionsCurrent == Spec => []PermissionsAreCurrent
  BY AccountGivesPermissions, KeysOutlive, PairsFollowAccount, PTL

\* When the handlers run one at a time, neither an access token nor a refresh
\* token outlives the password under which it was issued.
THEOREM SessionsEnd == Spec => []SessionsEndWithPassword
  BY AccountEndsSessions, KeysOutlive, PairsFollowAccount, PTL
=============================================================================
