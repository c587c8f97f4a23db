------------------------------- MODULE Sessions -------------------------------
(***************************************************************************)
(* The sessions of one account: login with its lockout, refresh, logout,    *)
(* the password, the role that verification and administrators give, and    *)
(* the revocation keys in Redis that JweAuthGuard asks on every request.    *)
(*                                                                         *)
(* A login works on a copy of the AuthUser row for as long as bcrypt takes, *)
(* and saves it: what others have written meanwhile is written back.        *)
(***************************************************************************)
EXTENDS Integers, Access

CONSTANTS
    Pairs,                  \* bound: token pairs that are issued
    AccessTtl, RefreshTtl,  \* JWT_EXPIRES_IN, JWT_REFRESH_EXPIRES_IN
    MaxFailed, BlockTime,   \* MAX_FAILED_ATTEMPTS, BLOCK_TIME_MINUTES
    Workers, Offers,        \* request slots, and the operations each may serve
    Overlap,                \* bound: <<running, called>>, which may run beside which
    MaxTime, MaxClave,      \* bounds: clock, passwords
    MaxDisturbed            \* bound: disturbances (see disturbed)

Ops == {"login", "refresh", "logout", "changePassword", "resetPassword",
        "verifyUser", "approveDriver", "suspendDriver", "deleteAccount", "cleanup"}

ASSUME SessionAssumption ==
    /\ Pairs # {}
    /\ AccessTtl \in Nat \ {0} /\ RefreshTtl \in Nat /\ AccessTtl <= RefreshTtl
    /\ MaxFailed \in Nat \ {0} /\ BlockTime \in Nat \ {0}
    /\ Offers \in [Workers -> SUBSET Ops]
    /\ Overlap \subseteq Ops \X Ops
    /\ MaxTime \in Nat /\ MaxClave \in Nat /\ MaxDisturbed \in Nat

VARIABLES
    now,
    user,       \* the row of auth_users with its credential
    deleted,    \* isDeleted of the business user
    revoked,    \* keys revoke:user:<id>: their value, and when they expire
    pair,       \* the token pairs
    proc,
    disturbed   \* handlers lost midway, or called while another was under way (history)

vars == <<now, user, deleted, revoked, pair, proc, disturbed>>

-----------------------------------------------------------------------------

Time == 0..(MaxTime + RefreshTtl + BlockTime)

\* The account has an id in either schema, and they differ: auth_users has the
\* one, business_users, tokens and revocations the other.
AuthId == "auth"
BusinessId == "business"
Ids == {AuthId, BusinessId}

\* The row that register has written in user_identity_map, read in either way.
IdentityMap == [authUserId |-> AuthId, businessUserId |-> BusinessId]
ResolveBusinessUserId(id) == CHOOSE b \in Ids : IdentityMap = [authUserId |-> id, businessUserId |-> b]
ResolveAuthUserId(id) == CHOOSE a \in Ids : IdentityMap = [authUserId |-> a, businessUserId |-> id]

\* Passwords are numbered in the order in which they were set.
AuthUser ==
    [rol : {"USER", "PASAJERO", "CONDUCTOR"}, verificado : BOOLEAN,
     clave : 0..MaxClave, failedAttempts : 0..(MaxFailed - 1), bloqueadoHasta : Time]

NewUser == [rol |-> "USER", verificado |-> FALSE, clave |-> 0,
            failedAttempts |-> 0, bloqueadoHasta |-> 0]

UserDiff(copy, row) == {c \in DOMAIN row : copy[c] # row[c]}
UserUpdate(copy, row, cols) ==
    [c \in DOMAIN row |-> IF c \in cols THEN copy[c] ELSE row[c]]

\* An access token, and the refresh token issued with it, whose key in Redis is
\* stored; clave is the password the account had (history).
Pair ==
    [id : Ids, iat : 0..MaxTime, rol : {"USER", "PASAJERO", "CONDUCTOR"}, verificado : BOOLEAN,
     clave : 0..MaxClave, jtiRevokedUntil : Time,
     stored : BOOLEAN, issued : BOOLEAN]

NoPair == [id |-> BusinessId, iat |-> 0, rol |-> "USER", verificado |-> FALSE, clave |-> 0,
           jtiRevokedUntil |-> 0, stored |-> FALSE, issued |-> FALSE]

Stages == {"idle", "check", "save", "flush", "issue", "store", "revocation", "reread",
           "rotate", "jti", "drop", "revoke"}

AnyPair == CHOOSE p \in Pairs : TRUE

Proc ==
    [op : Ops \cup {"none"}, at : Stages, p : Pairs,
     copy : AuthUser, cols : SUBSET DOMAIN NewUser,
     valid : BOOLEAN,           \* login: the password was right
     ttl : 0..AccessTtl,        \* logout: what is left of the access token
     iat : 0..MaxTime]

Idle == [op |-> "none", at |-> "idle", p |-> AnyPair, copy |-> NewUser, cols |-> {},
         valid |-> FALSE, ttl |-> 0, iat |-> 0]

Init ==
    /\ now = 0
    /\ user = NewUser
    /\ deleted = FALSE
    /\ revoked = [id \in Ids |-> [at |-> 0, until |-> 0]]
    /\ pair = [p \in Pairs |-> NoPair]
    /\ proc = [w \in Workers |-> Idle]
    /\ disturbed = 0

Called(w, op) ==
    /\ op \in Offers[w] /\ proc[w].at = "idle"
    /\ \A v \in Workers : proc[v].at # "idle" => <<proc[v].op, op>> \in Overlap
    /\ IF \E v \in Workers : proc[v].at # "idle"
       THEN disturbed < MaxDisturbed /\ disturbed' = disturbed + 1
       ELSE UNCHANGED disturbed
Become(w, record) == proc' = [proc EXCEPT ![w] = record]
Done(w) == Become(w, Idle)
Call(op, at) == [Idle EXCEPT !.op = op, !.at = at]
Saving(record, copy) == [record EXCEPT !.at = "save", !.copy = copy]

\* isUserSessionRevoked: the key is there, and the token is older.
SessionRevoked(p) == now < revoked[pair[p].id].until /\ pair[p].iat < revoked[pair[p].id].at

\* JweAuthGuard: not expired, its jti not revoked, its session not revoked.
Accepted(p) ==
    /\ pair[p].issued
    /\ now < pair[p].iat + AccessTtl
    /\ pair[p].jtiRevokedUntil = 0
    /\ ~SessionRevoked(p)

\* A handler behind both guards, called with an access token.
CalledWith(w, op, p) ==
    /\ Called(w, op)
    /\ Accepted(p)
    /\ MayCall(pair[p].rol, pair[p].verificado, op)

\* The key of the refresh token is there, and has not expired.
RefreshFound(p) == pair[p].stored

-----------------------------------------------------------------------------
(* login. *)

Login(w) ==
    /\ Called(w, "login")
    /\ user.bloqueadoHasta <= now
    /\ Become(w, [Call("login", "check") EXCEPT !.copy = user])
    /\ UNCHANGED <<now, user, deleted, revoked, pair>>

\* Mutant: the lockout is counted in another unit than it is kept in.
AfterFailureMinutes(copy) ==
    IF copy.failedAttempts + 1 >= MaxFailed
    THEN [copy EXCEPT !.failedAttempts = 0, !.bloqueadoHasta = now + 60 * BlockTime]
    ELSE [copy EXCEPT !.failedAttempts = @ + 1]

\* handleFailedAttempt and resetFailedAttempts, on the copy.
AfterFailure(copy) ==
    IF copy.failedAttempts + 1 >= MaxFailed
    THEN [copy EXCEPT !.failedAttempts = 0, !.bloqueadoHasta = now + BlockTime]
    ELSE [copy EXCEPT !.failedAttempts = @ + 1]
AfterSuccess(copy) == [copy EXCEPT !.failedAttempts = 0, !.bloqueadoHasta = 0]

CheckPassword(w, valid) ==
    LET copy == proc[w].copy
    IN  /\ proc[w].at = "check"
        /\ Become(w, Saving([proc[w] EXCEPT !.valid = valid],
                            IF valid THEN AfterSuccess(copy) ELSE AfterFailure(copy)))
        /\ UNCHANGED <<now, user, deleted, revoked, pair, disturbed>>

\* repository.save(user): read the row, compare, UPDATE what differs.
SaveUser(w) ==
    /\ proc[w].at = "save"
    /\ Become(w, [proc[w] EXCEPT !.at = "flush", !.cols = UserDiff(proc[w].copy, user)])
    /\ UNCHANGED <<now, user, deleted, revoked, pair, disturbed>>

\* Mutant: approveDriver ends no sessions.
AfterSaveApproved(w) ==
    CASE proc[w].op = "login" /\ proc[w].valid ->
            Become(w, [proc[w] EXCEPT !.at = "issue", !.cols = {}])
      [] proc[w].op \in {"changePassword", "resetPassword"} ->
            Become(w, Call(proc[w].op, "revoke"))
      [] OTHER -> Done(w)

AfterSave(w) ==
    CASE proc[w].op = "login" /\ proc[w].valid ->
            Become(w, [proc[w] EXCEPT !.at = "issue", !.cols = {}])
      [] proc[w].op \in {"changePassword", "resetPassword", "approveDriver"} ->
            Become(w, Call(proc[w].op, "revoke"))
      [] OTHER -> Done(w)

FlushUser(w) ==
    /\ proc[w].at = "flush"
    /\ user' = UserUpdate(proc[w].copy, user, proc[w].cols)
    /\ AfterSave(w)
    /\ UNCHANGED <<now, deleted, revoked, pair, disturbed>>

Fresh(w) ==
    {p \in Pairs : ~pair[p].issued /\ \A v \in Workers \ {w} : proc[v].at = "store" => proc[v].p # p}

\* generateTokenPair: the tokens are encrypted, then the refresh key is set.
\* Login goes no further for a deleted profile (and no handler once every pair
\* is issued: a bound).
IssueTokens(w) ==
    /\ proc[w].at = "issue"
    /\ IF (proc[w].op = "login" /\ deleted) \/ Fresh(w) = {}
       THEN Done(w)
       ELSE Become(w, [proc[w] EXCEPT
                !.at = "store", !.p = CHOOSE p \in Fresh(w) : TRUE, !.iat = now])
    /\ UNCHANGED <<now, user, deleted, revoked, pair, disturbed>>

StoreRefresh(w) ==
    /\ proc[w].at = "store"
    /\ pair' = [pair EXCEPT ![proc[w].p] =
            [id |-> ResolveBusinessUserId(AuthId), iat |-> proc[w].iat, rol |-> proc[w].copy.rol,
             verificado |-> proc[w].copy.verificado, clave |-> proc[w].copy.clave,
             jtiRevokedUntil |-> 0, stored |-> TRUE, issued |-> TRUE]]
    /\ Done(w)
    /\ UNCHANGED <<now, user, deleted, revoked, disturbed>>

-----------------------------------------------------------------------------
(* refreshTokens. *)

Refresh(w, p) ==
    /\ Called(w, "refresh")
    /\ RefreshFound(p)
    /\ Become(w, [Call("refresh", "revocation") EXCEPT !.p = p])
    /\ UNCHANGED <<now, user, deleted, revoked, pair>>

DropRefresh(p) == pair' = [pair EXCEPT ![p].stored = FALSE]

CheckRevocation(w) ==
    LET p == proc[w].p
    IN  /\ proc[w].at = "revocation"
        /\ IF SessionRevoked(p)
           THEN DropRefresh(p) /\ Done(w)
           ELSE UNCHANGED pair /\ Become(w, [proc[w] EXCEPT !.at = "reread"])
        /\ UNCHANGED <<now, user, deleted, revoked, disturbed>>

\* The role may have changed: it is read again.
RereadUser(w) ==
    /\ proc[w].at = "reread"
    /\ IF deleted \/ ResolveAuthUserId(pair[proc[w].p].id) # AuthId
       THEN Done(w)
       ELSE Become(w, [proc[w] EXCEPT !.at = "rotate", !.copy = user])
    /\ UNCHANGED <<now, user, deleted, revoked, pair, disturbed>>

RotateRefresh(w) ==
    /\ proc[w].at = "rotate"
    /\ DropRefresh(proc[w].p)
    /\ Become(w, [proc[w] EXCEPT !.at = "issue"])
    /\ UNCHANGED <<now, user, deleted, revoked, disturbed>>

-----------------------------------------------------------------------------
(* logout, with the refresh token or without. *)

\* Mutant: the key is kept a second too short.
LogoutShort(w, p) ==
    /\ CalledWith(w, "logout", p)
    /\ Become(w, [Call("logout", "jti") EXCEPT !.p = p, !.ttl = pair[p].iat + AccessTtl - now - 1])
    /\ UNCHANGED <<now, user, deleted, revoked, pair>>

Logout(w, p) ==
    /\ CalledWith(w, "logout", p)
    /\ Become(w, [Call("logout", "jti") EXCEPT !.p = p, !.ttl = pair[p].iat + AccessTtl - now])
    /\ UNCHANGED <<now, user, deleted, revoked, pair>>

RevokeJti(w) ==
    LET p == proc[w].p
    IN  /\ proc[w].at = "jti"
        /\ pair' = [pair EXCEPT ![p].jtiRevokedUntil =
                IF proc[w].ttl > 0 THEN now + proc[w].ttl ELSE @]
        /\ \/ Become(w, [proc[w] EXCEPT !.at = "drop"])
           \/ Done(w)
        /\ UNCHANGED <<now, user, deleted, revoked, disturbed>>

RevokeRefreshToken(w) ==
    /\ proc[w].at = "drop"
    /\ DropRefresh(proc[w].p)
    /\ Done(w)
    /\ UNCHANGED <<now, user, deleted, revoked, disturbed>>

-----------------------------------------------------------------------------
(* The password, the role and the account. *)

NewPassword(copy) == [copy EXCEPT !.clave = @ + 1]

ChangePassword(w, p) ==
    /\ CalledWith(w, "changePassword", p)
    /\ user.verificado
    /\ user.clave < MaxClave
    /\ Become(w, Saving(Call("changePassword", "save"), NewPassword(user)))
    /\ UNCHANGED <<now, user, deleted, revoked, pair>>

\* The token of the e-mail is good, as the module Accounts has it.
ResetPassword(w) ==
    /\ Called(w, "resetPassword")
    /\ user.verificado
    /\ user.clave < MaxClave
    /\ Become(w, Saving(Call("resetPassword", "save"), NewPassword(user)))
    /\ UNCHANGED <<now, user, deleted, revoked, pair>>

\* Nobody's sessions are revoked: the client logs in again, or refreshes.
VerifyUser(w) ==
    /\ Called(w, "verifyUser")
    /\ ~user.verificado
    /\ Become(w, Saving(Call("verifyUser", "save"),
                        [user EXCEPT !.verificado = TRUE, !.rol = "PASAJERO"]))
    /\ UNCHANGED <<now, user, deleted, revoked, pair>>

ApproveDriver(w) ==
    /\ Called(w, "approveDriver")
    /\ user.verificado
    /\ Become(w, Saving(Call("approveDriver", "save"), [user EXCEPT !.rol = "CONDUCTOR"]))
    /\ UNCHANGED <<now, user, deleted, revoked, pair>>

SuspendDriver(w) ==
    /\ Called(w, "suspendDriver")
    /\ user.verificado
    /\ Become(w, Call("suspendDriver", "revoke"))
    /\ UNCHANGED <<now, user, deleted, revoked, pair>>

\* UPDATE business_users ... WHERE id = : and isDeleted = FALSE.
Affected(id) == id = BusinessId /\ ~deleted
SoftDelete(id) == deleted' = (deleted \/ Affected(id))

DeleteAccount(w, p) ==
    /\ CalledWith(w, "deleteAccount", p)
    /\ SoftDelete(BusinessId)
    /\ IF Affected(BusinessId) THEN Become(w, Call("deleteAccount", "revoke")) ELSE Done(w)
    /\ UNCHANGED <<now, user, revoked, pair>>

\* The job hands over the ids of auth_users, which match no row: it ends there,
\* and nothing has changed.
HandleCleanup(w) ==
    /\ Called(w, "cleanup")
    /\ ~user.verificado
    /\ SoftDelete(AuthId)
    /\ IF Affected(AuthId) THEN Become(w, Call("deleteAccount", "revoke")) ELSE Done(w)
    /\ UNCHANGED <<now, user, revoked, pair>>

\* AuthService revokes for as long as a refresh token lives, the others for as
\* long as an access token does.
RevokeTtl(op) ==
    IF op \in {"changePassword", "resetPassword"} THEN RefreshTtl ELSE AccessTtl

\* Mutant: the id of the auth user is taken for that of the session.
RevokedAuthId(op) ==
    IF op = "resetPassword" THEN AuthId ELSE BusinessId

\* resetPassword knows the id of the auth user, the others that of the session.
RevokedId(op) ==
    IF op = "resetPassword" THEN ResolveBusinessUserId(AuthId) ELSE BusinessId

RevokeUserSessions(w) ==
    /\ proc[w].at = "revoke"
    /\ revoked' = [revoked EXCEPT ![RevokedId(proc[w].op)] =
            [at |-> now, until |-> now + RevokeTtl(proc[w].op)]]
    /\ Done(w)
    /\ UNCHANGED <<now, user, deleted, pair, disturbed>>

-----------------------------------------------------------------------------

\* The handler throws, or the process stops.
Fail(w) ==
    /\ disturbed < MaxDisturbed
    /\ proc[w].at # "idle"
    /\ disturbed' = disturbed + 1
    /\ Done(w)
    /\ UNCHANGED <<now, user, deleted, revoked, pair>>

\* Redis drops the keys that expire; a bloqueadoHasta that has passed is as good
\* as none.
Tick ==
    /\ now < MaxTime
    /\ now' = now + 1
    /\ user' = [user EXCEPT !.bloqueadoHasta = IF now + 1 < @ THEN @ ELSE 0]
    /\ pair' = [p \in Pairs |-> [pair[p] EXCEPT
            !.jtiRevokedUntil = IF now + 1 < @ THEN @ ELSE 0,
            !.stored = @ /\ now + 1 < pair[p].iat + RefreshTtl]]
    /\ UNCHANGED <<deleted, revoked, proc, disturbed>>

Calls(w) ==
    \/ Login(w) \/ ResetPassword(w) \/ VerifyUser(w) \/ ApproveDriver(w)
    \/ SuspendDriver(w) \/ HandleCleanup(w)
    \/ \E p \in Pairs :
        Refresh(w, p) \/ Logout(w, p) \/ ChangePassword(w, p) \/ DeleteAccount(w, p)

Continue(w) ==
    \/ \E valid \in BOOLEAN : CheckPassword(w, valid)
    \/ SaveUser(w) \/ FlushUser(w) \/ StoreRefresh(w)
    \/ CheckRevocation(w) \/ RereadUser(w) \/ RotateRefresh(w)
    \/ RevokeJti(w) \/ RevokeRefreshToken(w) \/ RevokeUserSessions(w) \/ IssueTokens(w)

Next ==
    \/ \E w \in Workers : Calls(w) \/ Continue(w) \/ Fail(w)
    \/ Tick

Spec == Init /\ [][Next]_vars

-----------------------------------------------------------------------------
(* Properties. *)

\* No handler is under way; none was lost, and none ran beside another.
Quiet ==
    /\ disturbed = 0
    /\ \A w \in Workers : proc[w].at = "idle"

\* Types: the columns, the tokens and the keys keep their domains.
TypeOK ==
    /\ now \in 0..MaxTime
    /\ user \in AuthUser
    /\ deleted \in BOOLEAN
    /\ revoked \in [Ids -> [at : 0..MaxTime, until : Time]]
    /\ pair \in [Pairs -> Pair]
    /\ proc \in [Workers -> Proc]
    /\ disturbed \in 0..MaxDisturbed

\* An access token that JweAuthGuard refuses is refused for good: no key in
\* Redis that keeps it out expires, or is overwritten, before the token does,
\* whichever handlers run side by side and wherever one of them is lost.
RefusedStaysRefused ==
    [][\A p \in Pairs : pair[p].issued /\ ~Accepted(p) => ~Accepted(p)']_vars

\* The seconds of JWT are too coarse for a token of the same second.
SameSecond(p) == pair[p].iat = revoked[pair[p].id].at

\* One handler at a time, a token opens nothing that its account may not call:
\* whoever was approved, or has deleted the account, finds the old tokens
\* refused.  Only the verification stays open to a USER who is one no more, and
\* is refused there.
PermissionsAreCurrent ==
    Quiet => \A p \in Pairs : Accepted(p) /\ ~SameSecond(p) =>
        Callable(pair[p].rol, pair[p].verificado) \ DOMAIN VerificationController
            \subseteq (IF deleted THEN {} ELSE Callable(user.rol, user.verificado))

\* One handler at a time, no session outlives the password: an access token in
\* use, and a refresh token that would be taken, were issued under the password
\* the account has.  Not so for a refresh token once an administrator, or the
\* deletion, has overwritten the revocation of the password with a shorter one.
SessionsEndWithPassword ==
    Quiet => \A p \in Pairs :
        /\ ~SameSecond(p)
        /\ \/ Accepted(p)
           \/ /\ RefreshFound(p) /\ ~SessionRevoked(p)
              /\ revoked[pair[p].id].until = revoked[pair[p].id].at + RefreshTtl
        => pair[p].clave = user.clave
=============================================================================
