-------------------------------- MODULE Accounts --------------------------------
(***************************************************************************)
(* An account before and beside its sessions: registration, verification    *)
(* with a code sent by e-mail, and the recovery of the password with a      *)
(* token sent by e-mail.                                                    *)
(*                                                                         *)
(* Codes, tokens and counters are keys in Redis, each with its time to      *)
(* live; handlers read and write them one command at a time.                *)
(***************************************************************************)
EXTENDS Integers, FiniteSets

CONSTANTS
    Tokens,                     \* reset tokens (bound: as many as are issued)
    OtpTtl, ResendTtl,          \* OTP_EXPIRATION_MINUTES, and the hour of the resends
    ResetTtl, LimitTtl,         \* RESET_TOKEN_EXPIRY_MINUTES, RESET_LIMIT_TTL
    MaxAttempts, MaxResends,    \* MAX_OTP_ATTEMPTS, MAX_OTP_RESENDS
    MaxResetAttempts,           \* MAX_RESET_ATTEMPTS
    Workers,                    \* request slots
    MaxCodes, MaxDisturbed      \* bounds: codes sent, disturbances (see disturbed)

ASSUME AccountAssumption ==
    /\ OtpTtl \in Nat \ {0} /\ ResendTtl \in Nat \ {0}
    /\ ResetTtl \in Nat \ {0} /\ LimitTtl \in Nat \ {0}
    /\ MaxAttempts \in Nat \ {0} /\ MaxResends \in Nat /\ MaxResetAttempts \in Nat
    /\ MaxCodes \in Nat /\ MaxDisturbed \in Nat
    /\ IsFiniteSet(Tokens) /\ IsFiniteSet(Workers) /\ "none" \notin Tokens

VARIABLES
    account,    \* "none", NO_VERIFICADO or VERIFICADO
    otp, attempts, resend,      \* keys otp:verify:..., of the account
    token,      \* keys reset:token:...
    active, limit,              \* keys reset:active:..., reset:limit:... of the account
    proc,
    codes,      \* codes sent so far: they are numbered (history)
    guesses,    \* wrong codes that were compared with each code (history)
    uses,       \* how often a token has set a password (history)
    disturbed   \* handlers lost midway, and recoveries begun beside another one (history)

keys == <<otp, attempts, resend, token, active, limit>>
vars == <<account, keys, proc, codes, guesses, uses, disturbed>>

-----------------------------------------------------------------------------
(* Redis: the value of a key, and how long it has left; 0 when it is not there. *)

Lasting == 99       \* no time to live

Absent == [v |-> 0, left |-> 0]
Set(v, ttl) == [v |-> v, left |-> ttl]
There(key) == key.left > 0
Incr(key) == IF There(key) THEN [key EXCEPT !.v = @ + 1] ELSE Set(1, Lasting)
Older(key) ==
    IF key.left \in {0, Lasting} THEN key
    ELSE IF key.left = 1 THEN Absent
    ELSE [key EXCEPT !.left = @ - 1]

NoToken == "none"
Reset == {"forgotPassword", "resetPassword"}
Ops == {"register", "sendVerification", "confirmVerification"} \cup Reset

Stages == {"idle", "commit", "count", "save", "fetch", "compare", "incr", "drop", "del",
           "verify", "invalidate", "old", "dropOld", "token", "active", "attempts", "limit",
           "password", "delToken", "delActive"}

Proc ==
    [op : Ops \cup {"none"}, at : Stages,
     code : 0..MaxCodes,        \* confirmVerification: the code entered, 0 is a wrong one
     stored : 0..MaxCodes,      \* ... and the one that was read
     n : Nat,                   \* a counter that was read
     t : Tokens \cup {NoToken}]

Idle == [op |-> "none", at |-> "idle", code |-> 0, stored |-> 0, n |-> 0, t |-> NoToken]

Init ==
    /\ account = "none"
    /\ otp = Absent /\ attempts = Absent /\ resend = Absent
    /\ token = [t \in Tokens |-> Absent]
    /\ active = [v |-> NoToken, left |-> 0] /\ limit = Absent
    /\ proc = [w \in Workers |-> Idle]
    /\ codes = 0
    /\ guesses = [c \in 1..MaxCodes |-> 0]
    /\ uses = [t \in Tokens |-> 0]
    /\ disturbed = 0

Become(w, record) == proc' = [proc EXCEPT ![w] = record]
Done(w) == Become(w, Idle)
At(w, stage) == proc[w].at = stage
Move(w, stage) == Become(w, [proc[w] EXCEPT !.at = stage])

Beside(w, op) == op \in Reset /\ \E v \in Workers \ {w} : proc[v].op \in Reset

Called(w, op) ==
    /\ At(w, "idle")
    /\ IF Beside(w, op)
       THEN disturbed < MaxDisturbed /\ disturbed' = disturbed + 1
       ELSE UNCHANGED disturbed
Start(w, op, stage) == Called(w, op) /\ Become(w, [Idle EXCEPT !.op = op, !.at = stage])

Past == <<codes, guesses, uses, disturbed>>

-----------------------------------------------------------------------------
(* register. *)

Register(w) ==
    /\ account = "none"
    /\ Start(w, "register", "commit")
    /\ UNCHANGED <<account, keys, codes, guesses, uses>>

\* One transaction for the auth user, the business user and the mapping between
\* their ids; the second one fails on UNIQUE (email).
CommitAccount(w) ==
    /\ At(w, "commit")
    /\ account' = IF account = "none" THEN "NO_VERIFICADO" ELSE account
    /\ Done(w)
    /\ UNCHANGED <<keys, Past>>

-----------------------------------------------------------------------------
(* sendVerification: OtpService.sendOtp. *)

SendVerification(w) ==
    /\ account = "NO_VERIFICADO"
    /\ Start(w, "sendVerification", "count")
    /\ UNCHANGED <<account, keys, codes, guesses, uses>>

\* Mutant: one code more than there are.
CountResendsMore(w) ==
    /\ At(w, "count")
    /\ IF resend.v > MaxResends
       THEN Done(w)
       ELSE Become(w, [proc[w] EXCEPT !.at = "save", !.n = resend.v])
    /\ UNCHANGED <<account, keys, Past>>

CountResends(w) ==
    /\ At(w, "count")
    /\ IF resend.v >= MaxResends
       THEN Done(w)
       ELSE Become(w, [proc[w] EXCEPT !.at = "save", !.n = resend.v])
    /\ UNCHANGED <<account, keys, Past>>

\* saveOtpSession: one pipeline over the one connection, so nothing comes in between.
SaveOtpSession(w) ==
    /\ At(w, "save")
    /\ codes < MaxCodes
    /\ codes' = codes + 1
    /\ otp' = Set(codes', OtpTtl) /\ attempts' = Set(0, OtpTtl)
    /\ resend' = Set(proc[w].n + 1, ResendTtl)
    /\ Done(w)
    /\ UNCHANGED <<account, token, active, limit, guesses, uses, disturbed>>

-----------------------------------------------------------------------------
(* confirmVerification: OtpService.validateOtp, AuthService.verifyUser. *)

ConfirmVerification(w, code) ==
    /\ account # "none"
    /\ code <= codes
    /\ Called(w, "confirmVerification")
    /\ Become(w, [Idle EXCEPT !.op = "confirmVerification", !.at = "fetch", !.code = code])
    /\ UNCHANGED <<account, keys, codes, guesses, uses>>

FetchOtp(w) ==
    /\ At(w, "fetch")
    /\ IF There(otp)
       THEN Become(w, [proc[w] EXCEPT !.at = "compare", !.stored = otp.v])
       ELSE Done(w)
    /\ UNCHANGED <<account, keys, Past>>

CompareCodes(w) ==
    LET right == proc[w].code = proc[w].stored
    IN  /\ At(w, "compare")
        /\ Move(w, IF right THEN "del" ELSE "incr")
        /\ guesses' = [guesses EXCEPT ![proc[w].stored] = @ + (IF right THEN 0 ELSE 1)]
        /\ UNCHANGED <<account, keys, codes, uses, disturbed>>

\* Mutant: one attempt more than there are.
CountAttemptMore(w) ==
    /\ At(w, "incr")
    /\ attempts' = Incr(attempts)
    /\ IF attempts'.v > MaxAttempts THEN Move(w, "drop") ELSE Done(w)
    /\ UNCHANGED <<account, otp, resend, token, active, limit, Past>>

CountAttempt(w) ==
    /\ At(w, "incr")
    /\ attempts' = Incr(attempts)
    /\ IF attempts'.v >= MaxAttempts THEN Move(w, "drop") ELSE Done(w)
    /\ UNCHANGED <<account, otp, resend, token, active, limit, Past>>

\* del(otpKey, attemptsKey), after the last wrong code and after the right one.
DropOtp(w) ==
    /\ proc[w].at \in {"drop", "del"}
    /\ otp' = Absent /\ attempts' = Absent
    /\ IF At(w, "del") THEN Move(w, "verify") ELSE Done(w)
    /\ UNCHANGED <<account, resend, token, active, limit, Past>>

VerifyUser(w) ==
    /\ At(w, "verify")
    /\ account' = "VERIFICADO"
    /\ Move(w, "invalidate")
    /\ UNCHANGED <<keys, Past>>

InvalidateOtp(w) ==
    /\ At(w, "invalidate")
    /\ otp' = Absent /\ attempts' = Absent /\ resend' = Absent
    /\ Done(w)
    /\ UNCHANGED <<account, token, active, limit, Past>>

-----------------------------------------------------------------------------
(* forgotPassword. *)

ForgotPassword(w) ==
    /\ account = "VERIFICADO"
    /\ limit.v < MaxResetAttempts
    /\ Start(w, "forgotPassword", "old")
    /\ UNCHANGED <<account, keys, codes, guesses, uses>>

ReadActive(w) ==
    /\ At(w, "old")
    /\ Become(w, [proc[w] EXCEPT !.at = IF There(active) THEN "dropOld" ELSE "token", !.t = active.v])
    /\ UNCHANGED <<account, keys, Past>>

DropOldToken(w) ==
    /\ At(w, "dropOld")
    /\ token' = [token EXCEPT ![proc[w].t] = Absent]
    /\ Move(w, "token")
    /\ UNCHANGED <<account, otp, attempts, resend, active, limit, Past>>

\* A token that no handler has drawn yet (bound: none is left).
Undrawn == {t \in Tokens : uses[t] = 0 /\ ~There(token[t]) /\ active.v # t
                                /\ \A w \in Workers : proc[w].t # t}

SetToken(w, t) ==
    /\ At(w, "token")
    /\ t \in Undrawn
    /\ token' = [token EXCEPT ![t] = Set(1, ResetTtl)]
    /\ Become(w, [proc[w] EXCEPT !.at = "active", !.t = t])
    /\ UNCHANGED <<account, otp, attempts, resend, active, limit, Past>>

SetActive(w) ==
    /\ At(w, "active")
    /\ active' = [v |-> proc[w].t, left |-> ResetTtl]
    /\ Move(w, "attempts")
    /\ UNCHANGED <<account, otp, attempts, resend, token, limit, Past>>

\* incrementResetAttempts: get, then set.
ReadLimit(w) ==
    /\ At(w, "attempts")
    /\ Become(w, [proc[w] EXCEPT !.at = "limit", !.n = limit.v])
    /\ UNCHANGED <<account, keys, Past>>

SetLimit(w) ==
    /\ At(w, "limit")
    /\ limit' = Set(proc[w].n + 1, LimitTtl)
    /\ Done(w)
    /\ UNCHANGED <<account, otp, attempts, resend, token, active, Past>>

-----------------------------------------------------------------------------
(* resetPassword: what it does to the sessions is in the module Sessions. *)

ResetPassword(w, t) ==
    /\ There(token[t])
    /\ Called(w, "resetPassword")
    /\ Become(w, [Idle EXCEPT !.op = "resetPassword", !.at = "password", !.t = t])
    /\ UNCHANGED <<account, keys, codes, guesses, uses>>

SavePassword(w) ==
    /\ At(w, "password")
    /\ uses' = [uses EXCEPT ![proc[w].t] = @ + 1]
    /\ Move(w, "delToken")
    /\ UNCHANGED <<account, keys, codes, guesses, disturbed>>

\* Mutant: the token stays, and only the key of the active one goes.
DelTokenNot(w) ==
    /\ At(w, "delToken")
    /\ Move(w, "delActive")
    /\ UNCHANGED <<account, keys, Past>>

DelToken(w) ==
    /\ At(w, "delToken")
    /\ token' = [token EXCEPT ![proc[w].t] = Absent]
    /\ Move(w, "delActive")
    /\ UNCHANGED <<account, otp, attempts, resend, active, limit, Past>>

DelActive(w) ==
    /\ At(w, "delActive")
    /\ active' = [v |-> NoToken, left |-> 0]
    /\ Done(w)
    /\ UNCHANGED <<account, otp, attempts, resend, token, limit, Past>>

-----------------------------------------------------------------------------

\* The handler throws, or the process stops.
Fail(w) ==
    /\ disturbed < MaxDisturbed
    /\ ~At(w, "idle")
    /\ disturbed' = disturbed + 1
    /\ Done(w)
    /\ UNCHANGED <<account, keys, codes, guesses, uses>>

\* Time passes, and Redis drops the keys whose time is up.
Tick ==
    /\ otp' = Older(otp) /\ attempts' = Older(attempts) /\ resend' = Older(resend)
    /\ token' = [t \in Tokens |-> Older(token[t])]
    /\ active' = IF active.left <= 1 THEN [v |-> NoToken, left |-> 0] ELSE Older(active)
    /\ limit' = Older(limit)
    /\ UNCHANGED <<account, proc, Past>>

Continue(w) ==
    \/ CommitAccount(w) \/ CountResends(w) \/ SaveOtpSession(w)
    \/ FetchOtp(w) \/ CompareCodes(w) \/ CountAttempt(w) \/ DropOtp(w)
    \/ VerifyUser(w) \/ InvalidateOtp(w)
    \/ ReadActive(w) \/ DropOldToken(w) \/ SetActive(w) \/ ReadLimit(w) \/ SetLimit(w)
    \/ SavePassword(w) \/ DelToken(w) \/ DelActive(w)
    \/ \E t \in Tokens : SetToken(w, t)

Next ==
    \/ \E w \in Workers :
        \/ Register(w) \/ SendVerification(w) \/ ForgotPassword(w)
        \/ \E code \in 0..MaxCodes : ConfirmVerification(w, code)
        \/ \E t \in Tokens : ResetPassword(w, t)
        \/ Continue(w) \/ Fail(w)
    \/ Tick

Spec == Init /\ [][Next]_vars

-----------------------------------------------------------------------------
(* Properties. *)

Key == [v : Nat, left : 0..OtpTtl \cup 0..ResendTtl \cup 0..LimitTtl \cup {Lasting}]

\* Types: the counters and codes in Redis, the tokens, and what handlers hold.
TypeOK ==
    /\ account \in {"none", "NO_VERIFICADO", "VERIFICADO"}
    /\ otp \in [v : 0..MaxCodes, left : 0..OtpTtl]
    /\ attempts \in Key /\ limit \in Key
    /\ resend \in [v : 0..MaxResends, left : 0..ResendTtl]
    /\ token \in [Tokens -> [v : 0..1, left : 0..ResetTtl]]
    /\ active \in [v : Tokens \cup {NoToken}, left : 0..ResetTtl]
    /\ proc \in [Workers -> Proc]
    /\ disturbed \in 0..MaxDisturbed /\ codes \in 0..MaxCodes
    /\ guesses \in [1..MaxCodes -> Nat] /\ uses \in [Tokens -> Nat]

\* However wrong codes are entered side by side, resent and let expire, a code
\* stands no more of them than it has attempts, and one for each other handler
\* that has read it before it went, or was lost on the way to its counter.
GuessesAreBounded ==
    \A c \in 1..MaxCodes :
        guesses[c] <= MaxAttempts + (Cardinality(Workers) - 1) + disturbed

\* Whatever was asked for before, an account has one token that works, and a
\* token sets a password once: but for one more each time a handler is lost
\* midway, or two recoveries run side by side.
ResetTokensAreSingle ==
    /\ Cardinality({t \in Tokens : There(token[t])}) <= 1 + disturbed
    /\ \A t \in Tokens : uses[t] <= 1 + disturbed
=============================================================================
