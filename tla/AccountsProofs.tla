---------------------------- MODULE AccountsProofs ----------------------------
(* What is proved of Accounts, for any number of requests side by side, of    *)
(* codes, of tokens and of attempts, and whatever the times to live.          *)
EXTENDS Accounts, FiniteSetTheorems, TLAPS

-----------------------------------------------------------------------------
(* The code that was sent last, and the guesses at it. *)

Comparing(c) == {w \in Workers : At(w, "compare") /\ proc[w].stored = c}
Counting(c) == {w \in Workers : At(w, "incr") /\ proc[w].stored = c}
Dropping == {w \in Workers : At(w, "drop")}

Stored(w) == proc[w].at \in {"compare", "incr"} => proc[w].stored \in 1..codes

Current(c) == There(otp) /\ otp.v = c

(* Every guess is on its way to the counter or on it, and the counter is     *)
(* past its end only by those that are about to drop the code; what is lost  *)
(* of either is among the disturbances.                                      *)
CurrentCode(c) ==
    /\ guesses[c] <= attempts.v + Cardinality(Counting(c)) + disturbed
    /\ guesses[c] <= MaxAttempts - 1 + Cardinality(Dropping) + Cardinality(Counting(c)) + disturbed

(* A code that is gone can still be guessed at by who has read it before. *)
FormerCode(c) ==
    guesses[c] + Cardinality(Comparing(c)) <= MaxAttempts - 1 + Cardinality(Workers) + disturbed

GuessesInv ==
    /\ \A w \in Workers : Stored(w)
    /\ There(otp) => otp.v \in 1..codes /\ otp.left <= attempts.left
    /\ attempts.v <= MaxAttempts - 1 + Cardinality(Dropping) + disturbed
    /\ \A c \in 1..MaxCodes :
          /\ c > codes => guesses[c] = 0
          /\ IF Current(c) THEN CurrentCode(c) ELSE FormerCode(c)

-----------------------------------------------------------------------------
(* Tokens, and the requests that make and use them. *)

Live == {t \in Tokens : There(token[t])}

(* Requests that will set a token, and those that have, but have not yet     *)
(* made it the active one.                                                   *)
Asking == {w \in Workers : proc[w].at \in {"old", "dropOld", "token"}}
Holding == {w \in Workers : At(w, "active")}
Held == {t \in Tokens : \E w \in Workers : At(w, "active") /\ proc[w].t = t}

Resetting == {w \in Workers : proc[w].op = "resetPassword"}

(* Tokens that a reset is going to delete. *)
Doomed ==
    {t \in Tokens \ Held :
        \E w \in Workers : proc[w].at \in {"password", "delToken"} /\ proc[w].t = t}

Counted == (Live \cup Held) \ Doomed

(* One live token less is coming: that which a request is going to drop. *)
Relieves(w) ==
    \/ At(w, "old") /\ active.v \in Live \ Doomed
    \/ At(w, "dropOld") /\ proc[w].t \in Live \ Doomed
Relief == \E w \in Workers : Relieves(w)

(* Live tokens, and those to come, against the disturbances. *)
Quiet == Asking = {} /\ Holding = {} /\ Resetting = {}
TokensInv ==
    IF Quiet
    THEN Cardinality(Live \ {active.v}) <= disturbed
    ELSE Cardinality(Counted) + Cardinality(Asking) + Cardinality(Resetting)
            <= disturbed + 1 + (IF Relief THEN 1 ELSE 0)

(* What a request holds, and at which stage. *)
Shape(p) ==
    /\ p.at = "idle" <=> p.op = "none"
    /\ p.at \in {"old", "dropOld", "token", "active", "attempts", "limit"} =>
          p.op = "forgotPassword"
    /\ p.op = "resetPassword" <=> p.at \in {"password", "delToken", "delActive"}
    /\ p.at \in {"dropOld", "active", "password", "delToken"} => p.t \in Tokens
    /\ p.at = "save" => p.n < MaxResends

(* A token on its way to be the active one is known to nobody else who asks. *)
Apart(w) ==
    At(w, "active") =>
        /\ proc[w].t # active.v
        /\ \A v \in Workers : v # w /\ proc[v].at \in {"dropOld", "active"} =>
              proc[v].t # proc[w].t

ActiveInv ==
    /\ There(active) <=> active.v # NoToken
    /\ There(active) => token[active.v].left <= active.left

(* A token sets a password once, and again only when it was not deleted. *)
Using(t) == {w \in Workers : At(w, "password") /\ proc[w].t = t}
Deleting(t) == {w \in Workers : proc[w].at \in {"password", "delToken"} /\ proc[w].t = t}
UsesInv ==
    \A t \in Tokens :
        uses[t] + Cardinality(Using(t)) <=
            disturbed + (IF There(token[t]) /\ Deleting(t) = {} THEN 0 ELSE 1)

HandlersInv == (\A w \in Workers : Shape(proc[w]) /\ Apart(w)) /\ ActiveInv

-----------------------------------------------------------------------------
(* Operators. *)

LEMMA IdleType ==
    Idle \in Proc /\ Idle.at = "idle" /\ Idle.op = "none" /\ Idle.t = NoToken
  BY AccountAssumption DEF Idle, Proc, Stages, Ops, NoToken

LEMMA OlderKeys ==
    ASSUME NEW key, key.left \in Nat
    PROVE  /\ Older(key).left \in 0..key.left
           /\ Older(key).v = key.v \/ (key.left = 1 /\ Older(key).v = 0)
           /\ key.left <= 1 => Older(key).left = 0
           /\ key.left > 1 => Older(key).v = key.v
  BY DEF Older, Absent, Lasting

LEMMA OlderIsMonotone ==
    ASSUME NEW key, NEW other, key.left \in Nat, other.left \in Nat, key.left <= other.left
    PROVE  Older(key).left <= Older(other).left
  BY DEF Older, Absent, Lasting

LEMMA OlderType ==
    ASSUME NEW V, NEW n \in Nat, NEW key \in [v : V, left : 0..n], 0 \in V
    PROVE  Older(key) \in [v : V, left : 0..n]
  BY DEF Older, Absent, Lasting

LEMMA OlderKeyType ==
    ASSUME NEW key \in Key
    PROVE  Older(key) \in Key
<1>1. CASE key.left \in {0, Lasting}
  BY <1>1 DEF Older
<1>2. CASE key.left = 1
  BY <1>2, AccountAssumption DEF Older, Absent, Key, Lasting
<1>3. CASE key.left \notin {0, 1, Lasting}
  <2>1. key.left \in Nat /\ key.left - 1 \in 0..OtpTtl \cup 0..ResendTtl \cup 0..LimitTtl
    BY <1>3, AccountAssumption DEF Key, Lasting
  <2>. QED  BY <1>3, <2>1 DEF Older, Key
<1>. QED  BY <1>1, <1>2, <1>3

Bump(b) == IF b THEN 1 ELSE 0

(* The size of a set that changes at most in one element. *)
Shifts(n, m, was, is) ==
    /\ n \in Nat /\ m \in Nat
    /\ (was <=> is) => m = n
    /\ was /\ ~is => m = n - 1
    /\ ~was /\ is => m = n + 1

LEMMA OneMoves ==
    ASSUME NEW S, NEW T, NEW x, IsFiniteSet(S), S \ {x} = T \ {x}
    PROVE  IsFiniteSet(T) /\ Shifts(Cardinality(S), Cardinality(T), x \in S, x \in T)
<1> DEFINE U == S \ {x}
<1>0. Cardinality(S) \in Nat
  BY FS_CardinalityType
<1>1. IsFiniteSet(U) /\ Cardinality(U) = Cardinality(S) - Bump(x \in S)
  BY <1>0, FS_RemoveElement DEF Bump
<1>2. IsFiniteSet(U \cup {x}) /\ Cardinality(U \cup {x}) = Cardinality(U) + 1
  BY <1>1, FS_AddElement
<1>3. T = U \/ T = U \cup {x}
  OBVIOUS
<1>4. IsFiniteSet(T) /\ Cardinality(S) \in Nat /\ Cardinality(T) \in Nat /\ Cardinality(U) \in Nat
  BY <1>1, <1>2, <1>3, FS_CardinalityType
<1>5. Cardinality(T) = Cardinality(U) + Bump(x \in T)
  BY <1>2, <1>3, <1>4 DEF Bump
<1>. QED  BY <1>1, <1>4, <1>5 DEF Bump, Shifts

LEMMA AtMost ==
    ASSUME NEW S, NEW T, IsFiniteSet(T), NEW x
    PROVE  /\ S \subseteq T => IsFiniteSet(S) /\ Cardinality(S) <= Cardinality(T)
           /\ S \subseteq T \ {x} /\ x \in T => Cardinality(S) <= Cardinality(T) - 1
           /\ S \subseteq T \cup {x} => Cardinality(S) <= Cardinality(T) + 1
           /\ Cardinality(T) \in Nat /\ (IsFiniteSet(S) => Cardinality(S) \in Nat)
           /\ S \subseteq T => Cardinality(S) \in Nat
<1>1. Cardinality(T) \in Nat
  BY FS_CardinalityType
<1>2. /\ IsFiniteSet(T \ {x})
      /\ x \in T => Cardinality(T \ {x}) = Cardinality(T) - 1
  BY FS_RemoveElement
<1>3. IsFiniteSet(T \cup {x}) /\ Cardinality(T \cup {x}) <= Cardinality(T) + 1
  BY <1>1, FS_AddElement
<1>4. S \subseteq T => IsFiniteSet(S) /\ Cardinality(S) <= Cardinality(T)
  BY FS_Subset
<1>5. S \subseteq T \ {x} => Cardinality(S) <= Cardinality(T \ {x})
  BY <1>2, FS_Subset
<1>6. S \subseteq T \cup {x} => Cardinality(S) <= Cardinality(T \cup {x}) /\ IsFiniteSet(S)
  BY <1>3, FS_Subset
<1>7. IsFiniteSet(S) => Cardinality(S) \in Nat
  BY FS_CardinalityType
<1>8. Cardinality(T \cup {x}) \in Nat
  BY <1>3, FS_CardinalityType
<1>9. S \subseteq T \ {x} /\ x \in T => Cardinality(S) <= Cardinality(T) - 1
  BY <1>2, <1>5
<1>10. S \subseteq T \cup {x} => Cardinality(S) <= Cardinality(T) + 1
  BY <1>1, <1>3, <1>6, <1>7, <1>8
<1>. QED  BY <1>1, <1>4, <1>7, <1>9, <1>10

LEMMA Disjoint ==
    ASSUME NEW S, NEW T, IsFiniteSet(S), IsFiniteSet(T), S \cap T = {}
    PROVE  /\ IsFiniteSet(S \cup T)
           /\ Cardinality(S \cup T) = Cardinality(S) + Cardinality(T)
<1>1. Cardinality(S) \in Nat /\ Cardinality(T) \in Nat
  BY FS_CardinalityType
<1>2. /\ IsFiniteSet(S \cup T)
      /\ Cardinality(S \cup T) = Cardinality(S) + Cardinality(T) - Cardinality(S \cap T)
  BY FS_Union
<1>3. Cardinality(S \cap T) = 0
  BY FS_EmptySet
<1>. QED  BY <1>1, <1>2, <1>3

-----------------------------------------------------------------------------
(* What a step does to the request that takes it, and to no other. *)

Step(w) ==
    /\ proc' \in [Workers -> Proc]
    /\ \A v \in Workers : v # w => proc'[v] = proc[v]

Carried(w, stage) ==
    /\ Step(w)
    /\ proc'[w].at = stage /\ proc'[w].op = proc[w].op
    /\ proc'[w].t = proc[w].t /\ proc'[w].stored = proc[w].stored

LEMMA Becomes ==
    ASSUME TypeOK, NEW w \in Workers, NEW record \in Proc, Become(w, record)
    PROVE  Step(w) /\ proc'[w] = record
  BY DEF TypeOK, Become, Step

LEMMA Moves ==
    ASSUME TypeOK, NEW w \in Workers, NEW stage \in Stages, Move(w, stage)
    PROVE  Carried(w, stage)
<1> DEFINE record == [proc[w] EXCEPT !.at = stage]
<1>1. proc[w] \in Proc
  BY DEF TypeOK
<1>2. /\ record \in Proc /\ record.at = stage /\ record.op = proc[w].op
      /\ record.t = proc[w].t /\ record.stored = proc[w].stored
  BY <1>1 DEF Proc
<1>3. Become(w, record)
  BY DEF Move
<1> HIDE DEF record
<1>. QED  BY <1>2, <1>3, Becomes DEF Carried

LEMMA Ends ==
    ASSUME TypeOK, NEW w \in Workers, Done(w)
    PROVE  Step(w) /\ proc'[w] = Idle
  BY IdleType, Becomes DEF Done

(* A call takes a free slot, and beside another recovery it is on record. *)
Disturbs(w, op) ==
    disturbed' = IF Beside(w, op) THEN disturbed + 1 ELSE disturbed

LEMMA CallType ==
    ASSUME NEW op \in Ops, NEW stage \in Stages
    PROVE  LET record == [Idle EXCEPT !.op = op, !.at = stage]
           IN  /\ record \in Proc /\ record.op = op /\ record.at = stage
               /\ record.t = NoToken
  BY IdleType DEF Proc

LEMMA Starts ==
    ASSUME TypeOK, NEW w \in Workers, NEW op \in Ops, NEW stage \in Stages, Start(w, op, stage)
    PROVE  /\ At(w, "idle") /\ Step(w) /\ Disturbs(w, op) /\ disturbed' \in 0..MaxDisturbed
           /\ proc'[w].op = op /\ proc'[w].at = stage /\ proc'[w].t = NoToken
<1> DEFINE record == [Idle EXCEPT !.op = op, !.at = stage]
<1>1. /\ record \in Proc /\ record.op = op /\ record.at = stage
      /\ record.t = NoToken
  BY CallType
<1>2. Become(w, record) /\ Called(w, op)
  BY DEF Start
<1>3. At(w, "idle") /\ Disturbs(w, op) /\ disturbed' \in 0..MaxDisturbed
  BY <1>2, AccountAssumption DEF Called, Disturbs, TypeOK
<1> HIDE DEF record
<1>. QED  BY <1>1, <1>2, <1>3, Becomes

-----------------------------------------------------------------------------
(* Types, and what requests hold. *)

(* The steps of a registration and a verification, and those of a recovery. *)
CodeStages ==
    {"idle", "commit", "count", "save", "fetch", "compare", "incr", "drop", "del",
     "verify", "invalidate"}
TokenStages ==
    {"idle", "old", "dropOld", "token", "active", "attempts", "limit",
     "password", "delToken", "delActive"}

CodeStep(w) ==
    \/ Register(w) \/ SendVerification(w)
    \/ \E code \in 0..MaxCodes : ConfirmVerification(w, code)
    \/ CommitAccount(w) \/ CountResends(w) \/ SaveOtpSession(w)
    \/ FetchOtp(w) \/ CompareCodes(w) \/ CountAttempt(w) \/ DropOtp(w)
    \/ VerifyUser(w) \/ InvalidateOtp(w)

TokenStep(w) ==
    \/ ForgotPassword(w) \/ ReadActive(w) \/ DropOldToken(w)
    \/ \E t \in Tokens : SetToken(w, t)
    \/ SetActive(w) \/ ReadLimit(w) \/ SetLimit(w)
    \/ \E t \in Tokens : ResetPassword(w, t)
    \/ SavePassword(w) \/ DelToken(w) \/ DelActive(w)

LEMMA StepsAre ==
    Next <=> Tick \/ \E w \in Workers : CodeStep(w) \/ TokenStep(w) \/ Fail(w)
  BY DEF Next, Continue, CodeStep, TokenStep

(* The steps that leave the keys of the tokens as they are, but for some of  *)
(* them that may go, and take no part in who holds which.                    *)
Elsewhere(w) ==
    /\ Step(w) /\ Shape(proc[w])' /\ proc'[w].at \notin {"dropOld", "active"}
    /\ active' = active
    /\ \A t \in Tokens : token'[t] = token[t] \/ token'[t] = Absent

LEMMA ElsewhereKeeps ==
    ASSUME TypeOK, HandlersInv, NEW w \in Workers, Elsewhere(w)
    PROVE  HandlersInv'
<1>1. ASSUME NEW v \in Workers
      PROVE  Shape(proc[v])' /\ Apart(v)'
  <2>1. CASE v = w
    BY <2>1 DEF Elsewhere, Apart, At
  <2>2. CASE v # w
    <3>1. proc'[v] = proc[v] /\ Shape(proc[v]) /\ Apart(v)
      BY <2>2 DEF Elsewhere, Step, HandlersInv
    <3>2. Shape(proc[v])'
      BY <3>1 DEF Shape
    <3>3. Apart(v)'
      BY <3>1 DEF Apart, At, Elsewhere, Step
    <3>. QED  BY <3>2, <3>3
  <2>. QED  BY <2>1, <2>2
<1>2. ActiveInv'
  <2>1. There(active) => active.v \in Tokens
    BY DEF TypeOK, HandlersInv, ActiveInv
  <2>2. active.left \in Nat
    BY AccountAssumption DEF TypeOK
  <2>. QED  BY <2>1, <2>2 DEF HandlersInv, ActiveInv, Elsewhere, There, Absent
<1>. QED  BY <1>1, <1>2 DEF HandlersInv

(* A step of a registration or a verification. *)
OfCodes(w) ==
    /\ Step(w) /\ Shape(proc[w])'
    /\ proc[w].at \in CodeStages /\ proc'[w].at \in CodeStages
    /\ UNCHANGED <<token, active, limit, uses, disturbed>>

LEMMA CodeStepsType ==
    ASSUME TypeOK, HandlersInv, NEW w \in Workers, CodeStep(w)
    PROVE  TypeOK' /\ OfCodes(w)
<1> USE DEF At, Shape, CodeStages
<1> /\ proc[w] \in Proc /\ Shape(proc[w]) /\ MaxCodes \in Nat /\ MaxResends \in Nat
    /\ account \in {"none", "NO_VERIFICADO", "VERIFICADO"}
    /\ OtpTtl \in Nat \ {0} /\ ResendTtl \in Nat \ {0}
  BY AccountAssumption DEF TypeOK, HandlersInv
<1>0. /\ Absent \in [v : 0..MaxCodes, left : 0..OtpTtl] /\ Absent \in Key
      /\ Absent \in [v : 0..MaxResends, left : 0..ResendTtl]
  BY AccountAssumption DEF Absent, Key
<1> DEFINE Same == UNCHANGED <<account, token, active, limit, uses, disturbed, codes, guesses>>
           Keeps == UNCHANGED <<account, keys, Past>>
<1>1. CASE Register(w) \/ SendVerification(w)
  <2>1. ASSUME NEW op \in {"register", "sendVerification"}, NEW stage \in {"commit", "count"},
               Start(w, op, stage), UNCHANGED <<account, keys, codes, guesses, uses>>
        PROVE  TypeOK' /\ OfCodes(w)
    <3>1. At(w, "idle") /\ Step(w) /\ Disturbs(w, op) /\ proc'[w].op = op /\ proc'[w].at = stage
      BY <2>1, Starts DEF Ops, Stages
    <3>2. disturbed' = disturbed
      BY <3>1 DEF Disturbs, Beside, Reset
    <3>3. TypeOK'
      BY <2>1, <3>1, <3>2 DEF TypeOK, keys, Step
    <3>. QED  BY <2>1, <3>1, <3>2, <3>3 DEF OfCodes, keys
  <2>. QED  BY <1>1, <2>1 DEF Register, SendVerification
<1>2. ASSUME NEW code \in 0..MaxCodes, ConfirmVerification(w, code)
      PROVE  TypeOK' /\ OfCodes(w)
  <2> DEFINE record == [Idle EXCEPT !.op = "confirmVerification", !.at = "fetch", !.code = code]
  <2>1. record \in Proc /\ record.op = "confirmVerification" /\ record.at = "fetch"
    BY IdleType DEF Proc, Ops, Stages
  <2>2. Become(w, record) /\ At(w, "idle") /\ disturbed' = disturbed
    BY <1>2 DEF ConfirmVerification, Called, Beside, Reset
  <2> HIDE DEF record
  <2>3. Step(w) /\ proc'[w] = record
    BY <2>1, <2>2, Becomes
  <2>4. TypeOK'
    BY <1>2, <2>2, <2>3 DEF TypeOK, keys, Step, ConfirmVerification
  <2>. QED  BY <1>2, <2>1, <2>2, <2>3, <2>4 DEF OfCodes, keys, ConfirmVerification
<1>3. CASE CommitAccount(w)
  <2>1. Step(w) /\ proc'[w] = Idle /\ UNCHANGED <<keys, Past>>
    BY <1>3, Ends DEF CommitAccount
  <2>2. account' \in {"none", "NO_VERIFICADO", "VERIFICADO"}
    BY <1>3 DEF CommitAccount
  <2>3. TypeOK'
    BY <2>1, <2>2 DEF TypeOK, keys, Past, Step
  <2>. QED  BY <1>3, <2>1, <2>3, IdleType DEF OfCodes, keys, Past, CommitAccount
<1>4. CASE CountResends(w)
  <2>0. /\ resend.v \in 0..MaxResends /\ resend.v \in Nat /\ proc[w].at = "count"
        /\ UNCHANGED <<account, keys, Past>>
    BY <1>4 DEF CountResends, TypeOK
  <2>1. Step(w) /\ Shape(proc[w])' /\ proc'[w].at \in {"idle", "save"}
    <3>1. CASE resend.v >= MaxResends
      BY <1>4, <3>1, Ends, IdleType DEF CountResends
    <3>2. CASE ~(resend.v >= MaxResends)
      <4> DEFINE record == [proc[w] EXCEPT !.at = "save", !.n = resend.v]
      <4>1. /\ record \in Proc /\ record.op = proc[w].op /\ record.at = "save"
            /\ record.n = resend.v
        BY <2>0 DEF Proc, Stages
      <4>2. Become(w, record)
        BY <1>4, <3>2 DEF CountResends
      <4> HIDE DEF record
      <4>3. Step(w) /\ proc'[w] = record
        BY <4>1, <4>2, Becomes
      <4>. QED  BY <2>0, <3>2, <4>1, <4>3
    <3>. QED  BY <3>1, <3>2
  <2>2. TypeOK'
    BY <2>0, <2>1 DEF TypeOK, keys, Past, Step
  <2>. QED  BY <2>0, <2>1, <2>2 DEF OfCodes, keys, Past
<1>5. CASE SaveOtpSession(w)
  <2>0. proc[w].n \in Nat /\ proc[w].n < MaxResends /\ codes \in 0..MaxCodes /\ proc[w].at = "save"
    BY <1>5 DEF SaveOtpSession, TypeOK, Proc
  <2>1. Step(w) /\ proc'[w] = Idle
    BY <1>5, Ends DEF SaveOtpSession
  <2>2. /\ codes' \in 0..MaxCodes
        /\ otp' \in [v : 0..MaxCodes, left : 0..OtpTtl]
        /\ attempts' \in Key /\ resend' \in [v : 0..MaxResends, left : 0..ResendTtl]
    BY <1>5, <2>0 DEF SaveOtpSession, Set, Key
  <2>3. TypeOK'
    BY <1>5, <2>1, <2>2 DEF TypeOK, Step, SaveOtpSession
  <2>. QED  BY <1>5, <2>0, <2>1, <2>3, IdleType DEF OfCodes, SaveOtpSession
<1>6. CASE FetchOtp(w)
  <2>0. otp.v \in 0..MaxCodes /\ UNCHANGED <<account, keys, Past>> /\ proc[w].at = "fetch"
    BY <1>6 DEF FetchOtp, TypeOK
  <2>1. Step(w) /\ Shape(proc[w])' /\ proc'[w].at \in {"idle", "compare"}
    <3>1. CASE ~There(otp)
      BY <1>6, <3>1, Ends, IdleType DEF FetchOtp
    <3>2. CASE There(otp)
      <4> DEFINE record == [proc[w] EXCEPT !.at = "compare", !.stored = otp.v]
      <4>1. record \in Proc /\ record.op = proc[w].op /\ record.at = "compare"
        BY <2>0 DEF Proc, Stages
      <4>2. Become(w, record)
        BY <1>6, <3>2 DEF FetchOtp
      <4> HIDE DEF record
      <4>3. Step(w) /\ proc'[w] = record
        BY <4>1, <4>2, Becomes
      <4>. QED  BY <2>0, <4>1, <4>3
    <3>. QED  BY <3>1, <3>2
  <2>2. TypeOK'
    BY <2>0, <2>1 DEF TypeOK, keys, Past, Step
  <2>. QED  BY <2>0, <2>1, <2>2 DEF OfCodes, keys, Past
<1>7. CASE CompareCodes(w)
  <2>1. Carried(w, "del") \/ Carried(w, "incr")
    BY <1>7, Moves DEF CompareCodes, Stages
  <2>2. guesses' \in [1..MaxCodes -> Nat]
    <3> DEFINE more == IF proc[w].code = proc[w].stored THEN 0 ELSE 1
    <3>1. more \in Nat
      OBVIOUS
    <3>2. guesses' = [guesses EXCEPT ![proc[w].stored] = @ + more]
      BY <1>7 DEF CompareCodes
    <3>3. guesses \in [1..MaxCodes -> Nat]
      BY DEF TypeOK
    <3> HIDE DEF more
    <3>4. \A c \in 1..MaxCodes : guesses[c] + more \in Nat
      BY <3>1, <3>3
    <3>. QED  BY <3>2, <3>3, <3>4
  <2>3. TypeOK'
    BY <1>7, <2>1, <2>2 DEF TypeOK, keys, Carried, Step, CompareCodes
  <2>. QED  BY <1>7, <2>1, <2>3 DEF OfCodes, keys, Carried, CompareCodes
<1>8. CASE CountAttempt(w)
  <2>1. /\ Step(w) /\ Shape(proc[w])' /\ proc'[w].at \in {"idle", "drop"}
        /\ proc[w].at = "incr"
    <3>1. CASE attempts'.v >= MaxAttempts
      BY <1>8, <3>1, Moves DEF CountAttempt, Stages, Carried
    <3>2. CASE ~(attempts'.v >= MaxAttempts)
      BY <1>8, <3>2, Ends, IdleType DEF CountAttempt
    <3>. QED  BY <3>1, <3>2
  <2>2. attempts' \in Key
    <3>1. attempts \in Key /\ attempts' = Incr(attempts)
      BY <1>8 DEF CountAttempt, TypeOK
    <3>2. Set(1, Lasting) \in Key
      BY DEF Set, Key
    <3>3. [attempts EXCEPT !.v = @ + 1] \in Key
      BY <3>1 DEF Key
    <3>. QED  BY <3>1, <3>2, <3>3 DEF Incr
  <2>3. TypeOK'
    BY <1>8, <2>1, <2>2 DEF TypeOK, Past, Step, CountAttempt
  <2>. QED  BY <1>8, <2>1, <2>3 DEF OfCodes, Past, CountAttempt
<1>9. CASE DropOtp(w)
  <2>1. /\ Step(w) /\ Shape(proc[w])' /\ proc'[w].at \in {"idle", "verify"}
        /\ proc[w].at \in {"drop", "del"}
    <3>1. CASE proc[w].at = "del"
      BY <1>9, <3>1, Moves DEF DropOtp, Stages, Carried
    <3>2. CASE proc[w].at # "del"
      BY <1>9, <3>2, Ends, IdleType DEF DropOtp
    <3>. QED  BY <1>9, <3>1, <3>2 DEF DropOtp
  <2>2. TypeOK'
    BY <1>9, <1>0, <2>1 DEF TypeOK, Past, Step, DropOtp
  <2>. QED  BY <1>9, <2>1, <2>2 DEF OfCodes, Past, DropOtp
<1>10. CASE VerifyUser(w)
  <2>1. Carried(w, "invalidate") /\ proc[w].at = "verify"
    BY <1>10, Moves DEF VerifyUser, Stages
  <2>2. TypeOK'
    BY <1>10, <2>1 DEF TypeOK, keys, Past, Carried, Step, VerifyUser
  <2>. QED  BY <1>10, <2>1, <2>2 DEF OfCodes, keys, Past, Carried, VerifyUser
<1>11. CASE InvalidateOtp(w)
  <2>1. Step(w) /\ proc'[w] = Idle
    BY <1>11, Ends DEF InvalidateOtp
  <2>2. TypeOK'
    BY <1>11, <1>0, <2>1 DEF TypeOK, Past, Step, InvalidateOtp
  <2>. QED  BY <1>11, <2>1, <2>2, IdleType DEF OfCodes, Past, InvalidateOtp
<1>. QED  BY <1>1, <1>2, <1>3, <1>4, <1>5, <1>6, <1>7, <1>8, <1>9, <1>10, <1>11 DEF CodeStep

LEMMA CodeStepsKeepHandlers ==
    ASSUME TypeOK, HandlersInv, NEW w \in Workers, OfCodes(w)
    PROVE  HandlersInv'
<1>1. Elsewhere(w)
  BY DEF OfCodes, CodeStages, Elsewhere
<1>. QED  BY <1>1, ElsewhereKeeps

LEMMA ForgotPasswordIs ==
    ASSUME TypeOK, NEW w \in Workers, ForgotPassword(w)
    PROVE  /\ At(w, "idle") /\ Step(w)
           /\ Disturbs(w, "forgotPassword") /\ disturbed' \in 0..MaxDisturbed
           /\ proc'[w].op = "forgotPassword" /\ proc'[w].at = "old"
           /\ UNCHANGED <<account, keys, codes, guesses, uses>>
  BY Starts DEF ForgotPassword, Ops, Reset, Stages

LEMMA ReadActiveIs ==
    ASSUME TypeOK, NEW w \in Workers, ReadActive(w)
    PROVE  /\ At(w, "old") /\ Step(w) /\ UNCHANGED <<account, keys, Past>>
           /\ proc'[w].at = IF There(active) THEN "dropOld" ELSE "token"
           /\ proc'[w].t = active.v /\ proc'[w].op = proc[w].op
<1> DEFINE stage == IF There(active) THEN "dropOld" ELSE "token"
           record == [proc[w] EXCEPT !.at = stage, !.t = active.v]
<1>1. proc[w] \in Proc /\ active.v \in Tokens \cup {NoToken} /\ stage \in Stages
  BY DEF TypeOK, Stages
<1>2. Become(w, record)
  BY DEF ReadActive
<1> HIDE DEF stage
<1>3. record \in Proc /\ record.at = stage /\ record.t = active.v /\ record.op = proc[w].op
  BY <1>1 DEF Proc
<1> HIDE DEF record
<1>4. Step(w) /\ proc'[w] = record
  BY <1>2, <1>3, Becomes
<1>. QED  BY <1>3, <1>4 DEF stage, ReadActive

LEMMA SetTokenIs ==
    ASSUME TypeOK, NEW w \in Workers, NEW t \in Tokens, SetToken(w, t)
    PROVE  /\ At(w, "token") /\ Step(w)
           /\ proc'[w].at = "active" /\ proc'[w].t = t /\ proc'[w].op = proc[w].op
<1> DEFINE record == [proc[w] EXCEPT !.at = "active", !.t = t]
<1>1. proc[w] \in Proc
  BY DEF TypeOK
<1>2. record \in Proc /\ record.at = "active" /\ record.t = t /\ record.op = proc[w].op
  BY <1>1 DEF Proc, Stages
<1>3. Become(w, record)
  BY DEF SetToken
<1> HIDE DEF record
<1>. QED  BY <1>2, <1>3, Becomes DEF SetToken

LEMMA ResetPasswordIs ==
    ASSUME TypeOK, NEW w \in Workers, NEW t \in Tokens, ResetPassword(w, t)
    PROVE  /\ At(w, "idle") /\ Step(w)
           /\ Disturbs(w, "resetPassword") /\ disturbed' \in 0..MaxDisturbed
           /\ proc'[w].op = "resetPassword" /\ proc'[w].at = "password" /\ proc'[w].t = t
           /\ UNCHANGED <<account, keys, codes, guesses, uses>>
<1> DEFINE record == [Idle EXCEPT !.op = "resetPassword", !.at = "password", !.t = t]
<1>1. /\ record \in Proc /\ record.op = "resetPassword" /\ record.at = "password"
      /\ record.t = t
  BY IdleType DEF Proc, Ops, Reset, Stages
<1>2. Become(w, record) /\ Called(w, "resetPassword")
  BY DEF ResetPassword
<1>3. At(w, "idle") /\ Disturbs(w, "resetPassword") /\ disturbed' \in 0..MaxDisturbed
  BY <1>2, AccountAssumption, SMTT(60) DEF Called, Disturbs, TypeOK
<1> HIDE DEF record
<1>. QED  BY <1>1, <1>2, <1>3, Becomes DEF ResetPassword

(* A step of a recovery. *)
OfTokens(w) ==
    /\ Step(w) /\ Shape(proc[w])'
    /\ proc[w].at \in TokenStages /\ proc'[w].at \in TokenStages
    /\ UNCHANGED <<otp, attempts, codes, guesses>>
    /\ disturbed' >= disturbed

LEMMA TokenStepsType ==
    ASSUME TypeOK, HandlersInv, NEW w \in Workers, TokenStep(w)
    PROVE  TypeOK' /\ OfTokens(w)
<1> USE DEF At, Shape, TokenStages
<1> /\ proc[w] \in Proc /\ Shape(proc[w]) /\ disturbed \in Nat
    /\ ResetTtl \in Nat \ {0} /\ LimitTtl \in Nat \ {0}
    /\ token \in [Tokens -> [v : 0..1, left : 0..ResetTtl]]
    /\ active \in [v : Tokens \cup {NoToken}, left : 0..ResetTtl]
  BY AccountAssumption DEF TypeOK, HandlersInv
<1>0. /\ Absent \in [v : 0..1, left : 0..ResetTtl] /\ Set(1, ResetTtl) \in [v : 0..1, left : 0..ResetTtl]
      /\ [v |-> NoToken, left |-> 0] \in [v : Tokens \cup {NoToken}, left : 0..ResetTtl]
  BY DEF Absent, Set
<1>1. CASE ForgotPassword(w)
  <2>1. disturbed' >= disturbed
    BY <1>1, ForgotPasswordIs DEF Disturbs
  <2>2. TypeOK'
    BY <1>1, ForgotPasswordIs DEF TypeOK, keys, Step
  <2>. QED  BY <1>1, <2>1, <2>2, ForgotPasswordIs DEF OfTokens, keys
<1>2. CASE ReadActive(w)
  <2>1. There(active) => active.v \in Tokens
    BY DEF HandlersInv, ActiveInv
  <2>2. TypeOK'
    BY <1>2, ReadActiveIs DEF TypeOK, keys, Past, Step
  <2>. QED  BY <1>2, <2>1, <2>2, ReadActiveIs DEF OfTokens, keys, Past
<1>3. CASE DropOldToken(w)
  <2>1. Carried(w, "token") /\ proc[w].at = "dropOld"
    BY <1>3, Moves DEF DropOldToken, Stages
  <2>2. token' \in [Tokens -> [v : 0..1, left : 0..ResetTtl]]
    BY <1>0, <1>3 DEF DropOldToken
  <2>3. TypeOK'
    BY <1>3, <2>1, <2>2 DEF TypeOK, Past, Carried, Step, DropOldToken
  <2>. QED  BY <1>3, <2>1, <2>3 DEF OfTokens, Past, Carried, DropOldToken
<1>4. ASSUME NEW t \in Tokens, SetToken(w, t)
      PROVE  TypeOK' /\ OfTokens(w)
  <2>1. token' \in [Tokens -> [v : 0..1, left : 0..ResetTtl]]
    BY <1>0, <1>4 DEF SetToken
  <2>2. TypeOK'
    BY <1>4, <2>1, SetTokenIs DEF TypeOK, Past, Step, SetToken
  <2>3. UNCHANGED <<otp, attempts, codes, guesses, disturbed>>
    BY <1>4 DEF SetToken, Past
  <2>4. /\ proc[w].at = "token" /\ Step(w)
        /\ proc'[w].at = "active" /\ proc'[w].t = t /\ proc'[w].op = proc[w].op
    BY <1>4, SetTokenIs
  <2>5. Shape(proc[w])'
    BY <2>4
  <2>. QED  BY <2>2, <2>3, <2>4, <2>5 DEF OfTokens
<1>5. CASE SetActive(w)
  <2>1. Carried(w, "attempts") /\ proc[w].at = "active"
    BY <1>5, Moves DEF SetActive, Stages
  <2>2. active' \in [v : Tokens \cup {NoToken}, left : 0..ResetTtl]
    BY <1>5 DEF SetActive, Proc
  <2>3. TypeOK'
    BY <1>5, <2>1, <2>2 DEF TypeOK, Past, Carried, Step, SetActive
  <2>. QED  BY <1>5, <2>1, <2>3 DEF OfTokens, Past, Carried, SetActive
<1>6. CASE ReadLimit(w)
  <2> DEFINE record == [proc[w] EXCEPT !.at = "limit", !.n = limit.v]
  <2>1. limit.v \in Nat
    BY DEF TypeOK, Key
  <2>2. record \in Proc /\ record.at = "limit" /\ record.op = proc[w].op
    BY <2>1 DEF Proc, Stages
  <2>3. Become(w, record) /\ proc[w].at = "attempts" /\ UNCHANGED <<account, keys, Past>>
    BY <1>6 DEF ReadLimit
  <2> HIDE DEF record
  <2>4. Step(w) /\ proc'[w] = record
    BY <2>2, <2>3, Becomes
  <2>5. TypeOK'
    BY <2>3, <2>4 DEF TypeOK, keys, Past, Step
  <2>. QED  BY <2>2, <2>3, <2>4, <2>5 DEF OfTokens, keys, Past
<1>7. CASE SetLimit(w)
  <2>1. Step(w) /\ proc'[w] = Idle /\ proc[w].at = "limit"
    BY <1>7, Ends DEF SetLimit
  <2>2. limit' \in Key
    BY <1>7 DEF SetLimit, Set, Key, Proc
  <2>3. TypeOK'
    BY <1>7, <2>1, <2>2 DEF TypeOK, Past, Step, SetLimit
  <2>. QED  BY <1>7, <2>1, <2>3, IdleType DEF OfTokens, Past, SetLimit
<1>8. ASSUME NEW t \in Tokens, ResetPassword(w, t)
      PROVE  TypeOK' /\ OfTokens(w)
  <2>1. disturbed' >= disturbed
    BY <1>8, ResetPasswordIs DEF Disturbs
  <2>2. TypeOK'
    BY <1>8, ResetPasswordIs DEF TypeOK, keys, Step
  <2>. QED  BY <1>8, <2>1, <2>2, ResetPasswordIs DEF OfTokens, keys
<1>9. CASE SavePassword(w)
  <2>1. Carried(w, "delToken") /\ proc[w].at = "password"
    BY <1>9, Moves DEF SavePassword, Stages
  <2>2. uses' \in [Tokens -> Nat]
    BY <1>9 DEF SavePassword, TypeOK
  <2>3. TypeOK'
    BY <1>9, <2>1, <2>2 DEF TypeOK, keys, Carried, Step, SavePassword
  <2>. QED  BY <1>9, <2>1, <2>3 DEF OfTokens, keys, Carried, SavePassword
<1>10. CASE DelToken(w)
  <2>1. Carried(w, "delActive") /\ proc[w].at = "delToken"
    BY <1>10, Moves DEF DelToken, Stages
  <2>2. token' \in [Tokens -> [v : 0..1, left : 0..ResetTtl]]
    BY <1>0, <1>10 DEF DelToken
  <2>3. TypeOK'
    BY <1>10, <2>1, <2>2 DEF TypeOK, Past, Carried, Step, DelToken
  <2>. QED  BY <1>10, <2>1, <2>3 DEF OfTokens, Past, Carried, DelToken
<1>11. CASE DelActive(w)
  <2>1. Step(w) /\ proc'[w] = Idle /\ proc[w].at = "delActive"
    BY <1>11, Ends DEF DelActive
  <2>2. TypeOK'
    BY <1>0, <1>11, <2>1 DEF TypeOK, Past, Step, DelActive
  <2>. QED  BY <1>11, <2>1, <2>2, IdleType DEF OfTokens, Past, DelActive
<1>. QED  BY <1>1, <1>2, <1>3, <1>4, <1>5, <1>6, <1>7, <1>8, <1>9, <1>10, <1>11 DEF TokenStep

LEMMA FailIs ==
    ASSUME TypeOK, NEW w \in Workers, Fail(w)
    PROVE  /\ TypeOK' /\ Step(w) /\ proc'[w] = Idle /\ disturbed' = disturbed + 1
           /\ UNCHANGED <<account, keys, codes, guesses, uses>>
<1>1. Step(w) /\ proc'[w] = Idle
  BY Ends DEF Fail
<1>2. disturbed' \in 0..MaxDisturbed
  BY AccountAssumption DEF Fail, TypeOK
<1>3. TypeOK'
  BY <1>1, <1>2 DEF TypeOK, Step, keys, Fail
<1>. QED  BY <1>1, <1>3 DEF Fail

LEMMA TickType ==
    ASSUME TypeOK, Tick
    PROVE  TypeOK'
<1>1. otp' \in [v : 0..MaxCodes, left : 0..OtpTtl]
  <2>1. 0 \in 0..MaxCodes /\ OtpTtl \in Nat /\ otp \in [v : 0..MaxCodes, left : 0..OtpTtl]
    BY AccountAssumption DEF TypeOK
  <2>. QED  BY ONLY <2>1, OlderType, Tick DEF Tick
<1>2. resend' \in [v : 0..MaxResends, left : 0..ResendTtl]
  <2>1. 0 \in 0..MaxResends /\ ResendTtl \in Nat /\ resend \in [v : 0..MaxResends, left : 0..ResendTtl]
    BY AccountAssumption DEF TypeOK
  <2>. QED  BY ONLY <2>1, OlderType, Tick DEF Tick
<1>3. attempts' \in Key /\ limit' \in Key
  BY OlderKeyType DEF Tick, TypeOK
<1>4. token' \in [Tokens -> [v : 0..1, left : 0..ResetTtl]]
  <2>1. \A t \in Tokens : Older(token[t]) \in [v : 0..1, left : 0..ResetTtl]
    <3> 0 \in 0..1 /\ ResetTtl \in Nat /\ token \in [Tokens -> [v : 0..1, left : 0..ResetTtl]]
      BY AccountAssumption DEF TypeOK
    <3>. QED  BY OlderType
  <2>. QED  BY <2>1 DEF Tick
<1>5. active' \in [v : Tokens \cup {NoToken}, left : 0..ResetTtl]
  <2>1. CASE active.left <= 1
    BY <2>1, AccountAssumption DEF Tick
  <2>2. CASE ~(active.left <= 1)
    <3>1. active \in [v : Tokens \cup {NoToken}, left : 0..ResetTtl] /\ ResetTtl \in Nat
      BY AccountAssumption DEF TypeOK
    <3>2. active' = active \/ active' = [active EXCEPT !.left = @ - 1]
      BY <2>2, <3>1 DEF Tick, Older
    <3>. QED  BY <2>2, <3>1, <3>2
  <2>. QED  BY <2>1, <2>2
<1>. QED  BY <1>1, <1>2, <1>3, <1>4, <1>5 DEF TypeOK, Tick, Past

LEMMA TokenStepsKeepHandlers ==
    ASSUME TypeOK, HandlersInv, NEW w \in Workers, TokenStep(w)
    PROVE  HandlersInv'
<1> Step(w) /\ Shape(proc[w])' /\ proc[w] \in Proc /\ Shape(proc[w])
  BY TokenStepsType DEF OfTokens, TypeOK, HandlersInv
<1>0. ASSUME NEW v \in Workers, v # w
      PROVE  proc'[v] = proc[v] /\ Shape(proc[v])' /\ Apart(v) /\ Shape(proc[v])
  BY <1>0 DEF Step, HandlersInv, Shape
<1>1. CASE \/ ForgotPassword(w) \/ DropOldToken(w) \/ ReadLimit(w) \/ SetLimit(w)
           \/ \E t \in Tokens : ResetPassword(w, t)
           \/ SavePassword(w) \/ DelToken(w)
  <2>1. /\ proc'[w].at \notin {"dropOld", "active"} /\ active' = active
        /\ \A t \in Tokens : token'[t] = token[t] \/ token'[t] = Absent
    <3>1. CASE ForgotPassword(w)
      BY <3>1, ForgotPasswordIs DEF keys
    <3>2. CASE DropOldToken(w)
      BY <3>2, Moves DEF DropOldToken, Stages, Carried, TypeOK
    <3>3. CASE ReadLimit(w)
      <4>1. \A p \in Proc : [p EXCEPT !.at = "limit", !.n = limit.v].at = "limit"
        BY DEF Proc
      <4>2. proc'[w].at = "limit"
        BY <3>3, <4>1 DEF ReadLimit, Become, TypeOK
      <4>. QED  BY <3>3, <4>2 DEF ReadLimit, keys
    <3>4. CASE SetLimit(w)
      BY <3>4, Ends, IdleType DEF SetLimit
    <3>5. ASSUME NEW t \in Tokens, ResetPassword(w, t)
          PROVE  /\ proc'[w].at \notin {"dropOld", "active"} /\ active' = active
                 /\ token' = token
      BY <3>5, ResetPasswordIs DEF keys
    <3>6. CASE SavePassword(w)
      BY <3>6, Moves DEF SavePassword, Stages, Carried, keys
    <3>7. CASE DelToken(w)
      BY <3>7, Moves DEF DelToken, Stages, Carried, TypeOK
    <3>. QED  BY <1>1, <3>1, <3>2, <3>3, <3>4, <3>5, <3>6, <3>7
  <2>. QED  BY <2>1, ElsewhereKeeps DEF Elsewhere
<1>2. CASE ReadActive(w)
  <2>1. UNCHANGED <<token, active>> /\ proc'[w].t = active.v /\ proc'[w].at # "active"
    BY <1>2, ReadActiveIs DEF keys
  <2>2. Apart(w)'
    BY <2>1 DEF Apart, At
  <2>3. ASSUME NEW v \in Workers, v # w
        PROVE  Apart(v)'
    BY <1>0, <2>1, <2>3 DEF Apart, At, Step
  <2>4. ActiveInv'
    BY <2>1 DEF HandlersInv, ActiveInv, There
  <2>. QED  BY <1>0, <2>2, <2>3, <2>4 DEF HandlersInv
<1>3. ASSUME NEW t \in Tokens, SetToken(w, t)
      PROVE  HandlersInv'
  <2>1. /\ active' = active /\ active.v # t /\ proc'[w].t = t /\ proc'[w].at = "active"
        /\ \A v \in Workers : proc[v].t # t
        /\ \A s \in Tokens : s # t => token'[s] = token[s]
    BY <1>3, SetTokenIs DEF SetToken, Undrawn, TypeOK
  <2>2. Apart(w)'
    BY <1>0, <2>1 DEF Apart, At
  <2>3. ASSUME NEW v \in Workers, v # w
        PROVE  Apart(v)'
    BY <1>0, <2>1, <2>3 DEF Apart, At, Step
  <2>4. ActiveInv'
    BY <2>1 DEF HandlersInv, ActiveInv, There, TypeOK
  <2>. QED  BY <1>0, <2>2, <2>3, <2>4 DEF HandlersInv
<1>4. CASE SetActive(w)
  <2>1. /\ active' = [v |-> proc[w].t, left |-> ResetTtl] /\ token' = token
        /\ proc[w].at = "active" /\ proc'[w].at = "attempts" /\ proc[w].t \in Tokens
    BY <1>4, Moves DEF SetActive, Stages, Carried, At, Shape
  <2>2. Apart(w)'
    BY <2>1 DEF Apart, At
  <2>3. ASSUME NEW v \in Workers, v # w
        PROVE  Apart(v)'
    BY <1>0, <2>1, <2>3 DEF Apart, At, Step
  <2>4. ActiveInv'
    BY <2>1, AccountAssumption DEF ActiveInv, There, TypeOK, NoToken
  <2>. QED  BY <1>0, <2>2, <2>3, <2>4 DEF HandlersInv
<1>5. CASE DelActive(w)
  <2>1. active' = [v |-> NoToken, left |-> 0] /\ token' = token /\ proc'[w] = Idle
    BY <1>5, Ends DEF DelActive
  <2>2. Apart(w)'
    BY <2>1, IdleType DEF Apart, At
  <2>3. ASSUME NEW v \in Workers, v # w
        PROVE  Apart(v)'
    BY <1>0, <2>1, <2>3, IdleType, AccountAssumption DEF Apart, At, Step, Shape, NoToken
  <2>4. ActiveInv'
    BY <2>1 DEF ActiveInv, There
  <2>. QED  BY <1>0, <2>2, <2>3, <2>4 DEF HandlersInv
<1>. QED  BY <1>1, <1>2, <1>3, <1>4, <1>5 DEF TokenStep

LEMMA FailKeepsHandlers ==
    ASSUME TypeOK, HandlersInv, NEW w \in Workers, Fail(w)
    PROVE  HandlersInv'
<1>1. Shape(proc[w])' /\ proc'[w].at = "idle"
  BY FailIs, IdleType DEF Shape
<1>. QED  BY <1>1, FailIs, ElsewhereKeeps DEF Elsewhere, keys

LEMMA TickKeepsHandlers ==
    ASSUME TypeOK, HandlersInv, Tick
    PROVE  /\ HandlersInv'
           /\ active'.v = active.v \/ active'.v = NoToken
           /\ active.v # NoToken /\ active'.v = NoToken => ~There(token'[active.v])
<1>1. proc' = proc
  BY DEF Tick
<1>2. /\ active'.v = active.v \/ active'.v = NoToken
      /\ There(active') <=> active'.v # NoToken
      /\ active'.v # NoToken => active' = Older(active) /\ active.v = active'.v /\ There(active)
      /\ active.v # NoToken /\ active'.v = NoToken => active.left <= 1
  <2>0. active.left \in Nat
    BY AccountAssumption DEF TypeOK
  <2>1. CASE active.left <= 1
    BY <2>0, <2>1 DEF Tick, There
  <2>2. CASE active.left > 1
    <3>1. active' = Older(active)
      BY <2>0, <2>2 DEF Tick
    <3>2. Older(active).v = active.v
      BY <2>0, <2>2, OlderKeys
    <3>3. Older(active).left > 0
      BY <2>0, <2>2 DEF Older, Lasting, Absent
    <3>. QED  BY <2>0, <2>2, <3>1, <3>2, <3>3 DEF HandlersInv, ActiveInv, There
  <2>. QED  BY <2>0, <2>1, <2>2
<1>3. active.v # NoToken => /\ active.v \in Tokens /\ token'[active.v] = Older(token[active.v])
                            /\ token[active.v].left \in Nat /\ active.left \in Nat
                            /\ token[active.v].left <= active.left
  BY AccountAssumption DEF TypeOK, Tick, HandlersInv, ActiveInv
<1>4. ActiveInv'
  <2>1. CASE active'.v = NoToken
    BY <1>2, <2>1 DEF ActiveInv, There
  <2>2. CASE active'.v # NoToken
    BY <1>2, <1>3, <2>2, OlderIsMonotone DEF ActiveInv, There
  <2>. QED  BY <2>1, <2>2
<1>5. active.v # NoToken /\ active'.v = NoToken => ~There(token'[active.v])
  <2> SUFFICES ASSUME active.v # NoToken, active'.v = NoToken
               PROVE  token'[active.v].left = 0
    BY DEF There
  <2>1. token[active.v].left <= 1 /\ token[active.v].left \in Nat
    BY <1>2, <1>3
  <2>. QED  BY <1>3, <2>1, OlderKeys
<1>6. ASSUME NEW w \in Workers
      PROVE  Shape(proc[w])' /\ Apart(w)'
  <2>1. Shape(proc[w]) /\ Apart(w)
    BY DEF HandlersInv
  <2>2. Apart(w)'
    BY <1>1, <1>2, <2>1, AccountAssumption DEF Apart, At, Shape, NoToken
  <2>. QED  BY <1>1, <2>1, <2>2
<1>. QED  BY <1>2, <1>4, <1>5, <1>6 DEF HandlersInv

-----------------------------------------------------------------------------
(* The guesses at a code. *)

LEMMA GuessSets ==
    ASSUME NEW c
    PROVE  /\ IsFiniteSet(Comparing(c)) /\ IsFiniteSet(Counting(c)) /\ IsFiniteSet(Dropping)
           /\ Cardinality(Comparing(c)) \in Nat /\ Cardinality(Counting(c)) \in Nat
           /\ Cardinality(Dropping) \in Nat /\ Cardinality(Workers) \in Nat
           /\ Cardinality(Comparing(c)) + Cardinality(Counting(c)) + Cardinality(Dropping)
                 <= Cardinality(Workers)
<1>0. IsFiniteSet(Workers)
  BY AccountAssumption
<1>1. /\ Comparing(c) \subseteq Workers /\ Counting(c) \subseteq Workers /\ Dropping \subseteq Workers
      /\ Comparing(c) \cap Counting(c) = {} /\ (Comparing(c) \cup Counting(c)) \cap Dropping = {}
  BY DEF Comparing, Counting, Dropping, At
<1>2. IsFiniteSet(Comparing(c)) /\ IsFiniteSet(Counting(c)) /\ IsFiniteSet(Dropping)
  BY <1>0, <1>1, FS_Subset
<1>3. /\ Cardinality(Comparing(c)) \in Nat /\ Cardinality(Counting(c)) \in Nat
      /\ Cardinality(Dropping) \in Nat /\ Cardinality(Workers) \in Nat
  BY <1>0, <1>2, FS_CardinalityType
<1>4. /\ IsFiniteSet(Comparing(c) \cup Counting(c))
      /\ Cardinality(Comparing(c) \cup Counting(c)) = Cardinality(Comparing(c)) + Cardinality(Counting(c))
  BY <1>1, <1>2, Disjoint
<1> DEFINE Both == Comparing(c) \cup Counting(c)
<1>5. IsFiniteSet(Both) /\ Both \cap Dropping = {} /\ Both \cup Dropping \subseteq Workers
  BY <1>1, <1>4
<1>6. Cardinality(Both) = Cardinality(Comparing(c)) + Cardinality(Counting(c))
  BY <1>4
<1> HIDE DEF Both
<1>7. /\ Cardinality(Both \cup Dropping) = Cardinality(Both) + Cardinality(Dropping)
      /\ Cardinality(Both \cup Dropping) <= Cardinality(Workers)
  BY <1>0, <1>2, <1>5, Disjoint, FS_Subset
<1>. QED  BY <1>2, <1>3, <1>6, <1>7

LEMMA GuessSetsMove ==
    ASSUME NEW w \in Workers, Step(w), NEW c
    PROVE  /\ Shifts(Cardinality(Comparing(c)), Cardinality(Comparing(c))',
                  proc[w].at = "compare" /\ proc[w].stored = c,
                  proc'[w].at = "compare" /\ proc'[w].stored = c)
           /\ Shifts(Cardinality(Counting(c)), Cardinality(Counting(c))',
                  proc[w].at = "incr" /\ proc[w].stored = c,
                  proc'[w].at = "incr" /\ proc'[w].stored = c)
           /\ Shifts(Cardinality(Dropping), Cardinality(Dropping)',
                  proc[w].at = "drop", proc'[w].at = "drop")
<1>1. /\ Comparing(c) \ {w} = Comparing(c)' \ {w}
      /\ Counting(c) \ {w} = Counting(c)' \ {w}
      /\ Dropping \ {w} = Dropping' \ {w}
  BY DEF Step, Comparing, Counting, Dropping, At
<1>2. /\ w \in Comparing(c)' <=> proc'[w].at = "compare" /\ proc'[w].stored = c
      /\ w \in Comparing(c) <=> proc[w].at = "compare" /\ proc[w].stored = c
      /\ w \in Counting(c)' <=> proc'[w].at = "incr" /\ proc'[w].stored = c
      /\ w \in Counting(c) <=> proc[w].at = "incr" /\ proc[w].stored = c
      /\ w \in Dropping' <=> proc'[w].at = "drop"
      /\ w \in Dropping <=> proc[w].at = "drop"
  BY DEF Comparing, Counting, Dropping, At
<1>3. Shifts(Cardinality(Comparing(c)), Cardinality(Comparing(c)'),
            w \in Comparing(c), w \in Comparing(c)')
  BY <1>1, GuessSets, OneMoves
<1>4. Shifts(Cardinality(Counting(c)), Cardinality(Counting(c)'),
            w \in Counting(c), w \in Counting(c)')
  BY <1>1, GuessSets, OneMoves
<1>5. Shifts(Cardinality(Dropping), Cardinality(Dropping'), w \in Dropping, w \in Dropping')
  BY <1>1, GuessSets, OneMoves
<1>. QED  BY <1>2, <1>3, <1>4, <1>5 DEF Shifts

LEMMA CurrentThenFormer ==
    ASSUME TypeOK, NEW c \in 1..MaxCodes, CurrentCode(c)
    PROVE  FormerCode(c)
<1>1. guesses[c] \in Nat /\ disturbed \in Nat /\ MaxAttempts \in Nat
  BY AccountAssumption DEF TypeOK
<1>. QED  BY <1>1, GuessSets DEF CurrentCode, FormerCode

(* A step that has nothing to do with the guesses. *)
NoGuess(w) ==
    /\ Step(w)
    /\ proc[w].at \notin {"compare", "incr", "drop"}
    /\ proc'[w].at \notin {"compare", "incr", "drop"}
    /\ UNCHANGED <<otp, attempts, codes, guesses>>
    /\ disturbed' >= disturbed

LEMMA NoGuessKeeps ==
    ASSUME TypeOK, GuessesInv, NEW w \in Workers, NoGuess(w), disturbed' \in Nat
    PROVE  GuessesInv'
<1> disturbed \in Nat /\ guesses \in [1..MaxCodes -> Nat] /\ attempts.v \in Nat /\ MaxAttempts \in Nat
  BY AccountAssumption DEF TypeOK, Key
<1>1. ASSUME NEW v \in Workers
      PROVE  Stored(v)'
  BY <1>1 DEF NoGuess, Step, GuessesInv, Stored
<1>2. ASSUME NEW c
      PROVE  /\ Cardinality(Comparing(c))' = Cardinality(Comparing(c))
             /\ Cardinality(Counting(c))' = Cardinality(Counting(c))
             /\ Cardinality(Dropping)' = Cardinality(Dropping)
             /\ Cardinality(Comparing(c)) \in Nat
             /\ Cardinality(Counting(c)) \in Nat /\ Cardinality(Dropping) \in Nat
  <2>1. Step(w) /\ proc[w].at \notin {"compare", "incr", "drop"}
                /\ proc'[w].at \notin {"compare", "incr", "drop"}
    BY DEF NoGuess
  <2>2. /\ Cardinality(Comparing(c)) \in Nat
        /\ Cardinality(Counting(c)) \in Nat /\ Cardinality(Dropping) \in Nat
    BY GuessSets
  <2>. QED  BY <2>1, <2>2, GuessSetsMove DEF Shifts
<1>3. ASSUME NEW c \in 1..MaxCodes
      PROVE  IF Current(c)' THEN CurrentCode(c)' ELSE FormerCode(c)'
  <2>1. Current(c)' <=> Current(c)
    BY DEF NoGuess, Current, There
  <2>2. Cardinality(Workers) \in Nat
    BY GuessSets
  <2>3. CurrentCode(c) => CurrentCode(c)'
    <3>1. /\ Cardinality(Counting(c))' = Cardinality(Counting(c))
          /\ Cardinality(Dropping)' = Cardinality(Dropping)
          /\ Cardinality(Counting(c)) \in Nat /\ Cardinality(Dropping) \in Nat
      BY <1>2
    <3>2. /\ guesses'[c] = guesses[c] /\ guesses[c] \in Nat
          /\ attempts'.v = attempts.v /\ disturbed' >= disturbed
      BY DEF NoGuess
    <3>. QED  BY <3>1, <3>2 DEF CurrentCode
  <2>4. FormerCode(c) => FormerCode(c)'
    BY <1>2, <2>2, SMTT(60) DEF NoGuess, FormerCode
  <2>. QED  BY <2>1, <2>3, <2>4 DEF GuessesInv
<1>4. attempts'.v <= MaxAttempts - 1 + Cardinality(Dropping)' + disturbed'
  BY <1>2 DEF NoGuess, GuessesInv
<1>. QED  BY <1>1, <1>3, <1>4 DEF GuessesInv, NoGuess, There

(* The code goes, and perhaps a new one comes. *)
CodeGoes(w) ==
    /\ Step(w)
    /\ proc[w].at \notin {"compare", "incr"}
    /\ proc'[w].at \notin {"compare", "incr", "drop"}
    /\ UNCHANGED <<guesses, disturbed>>
    /\ attempts'.v = 0
    /\ \/ ~There(otp') /\ codes' = codes
       \/ codes' = codes + 1 /\ otp'.v = codes' /\ otp'.left <= attempts'.left

LEMMA CodeGoesKeeps ==
    ASSUME TypeOK, GuessesInv, NEW w \in Workers, CodeGoes(w)
    PROVE  GuessesInv'
<1> /\ disturbed \in Nat /\ guesses \in [1..MaxCodes -> Nat] /\ attempts.v \in Nat
    /\ MaxAttempts \in Nat \ {0} /\ codes \in Nat /\ MaxCodes \in Nat
  BY AccountAssumption DEF TypeOK, Key
<1>1. ASSUME NEW v \in Workers
      PROVE  Stored(v)'
  <2>1. Stored(v) /\ codes' \in Nat /\ codes' >= codes
    BY DEF GuessesInv, CodeGoes
  <2>. QED  BY <2>1 DEF CodeGoes, Step, Stored
<1>2. ASSUME NEW c \in 1..MaxCodes
      PROVE  /\ c > codes' => guesses'[c] = 0
             /\ IF Current(c)' THEN CurrentCode(c)' ELSE FormerCode(c)'
  <2>0. guesses'[c] = guesses[c] /\ guesses[c] \in Nat /\ disturbed' = disturbed
    BY DEF CodeGoes
  <2>1. /\ Cardinality(Comparing(c))' = Cardinality(Comparing(c))
        /\ Cardinality(Comparing(c)) \in Nat
        /\ Cardinality(Counting(c))' \in Nat /\ Cardinality(Dropping)' \in Nat
    BY GuessSetsMove DEF CodeGoes, Shifts
  <2>2. FormerCode(c)
    BY CurrentThenFormer DEF GuessesInv
  <2>3. FormerCode(c)'
    BY <2>0, <2>1, <2>2, GuessSets DEF FormerCode
  <2>4. c > codes => guesses[c] = 0
    BY DEF GuessesInv
  <2>5. CASE Current(c)'
    <3>1. c = codes' /\ codes' = codes + 1
      BY <2>5 DEF Current, CodeGoes
    <3>2. guesses[c] = 0
      BY <2>4, <3>1
    <3>. QED  BY <2>0, <2>1, <2>5, <3>1, <3>2 DEF CurrentCode, CodeGoes
  <2>. QED  BY <2>0, <2>3, <2>4, <2>5 DEF CodeGoes
<1>3. attempts'.v <= MaxAttempts - 1 + Cardinality(Dropping)' + disturbed'
  <2>1. Cardinality(Dropping)' \in Nat
    BY GuessSetsMove DEF CodeGoes, Shifts
  <2>. QED  BY <2>1 DEF CodeGoes
<1>4. There(otp)' => otp'.v \in 1..codes' /\ otp'.left <= attempts'.left
  BY DEF CodeGoes, There
<1>. QED  BY <1>1, <1>2, <1>3, <1>4 DEF GuessesInv

LEMMA FetchOtpIs ==
    ASSUME TypeOK, NEW w \in Workers, FetchOtp(w)
    PROVE  /\ proc[w].at = "fetch" /\ Step(w) /\ proc'[w].at \in {"idle", "compare"}
           /\ proc'[w].at = "compare" => There(otp) /\ proc'[w].stored = otp.v
           /\ UNCHANGED <<account, keys, Past>>
<1>1. CASE ~There(otp)
  BY <1>1, Ends, IdleType DEF FetchOtp, At
<1>2. CASE There(otp)
  <2> DEFINE record == [proc[w] EXCEPT !.at = "compare", !.stored = otp.v]
  <2>0. proc[w] \in Proc /\ otp.v \in 0..MaxCodes
    BY DEF TypeOK
  <2>1. record \in Proc /\ record.stored = otp.v /\ record.at = "compare"
    BY <2>0 DEF Proc, Stages
  <2>2. Become(w, record)
    BY <1>2 DEF FetchOtp
  <2> HIDE DEF record
  <2>. QED  BY <1>2, <2>1, <2>2, Becomes DEF FetchOtp, At
<1>. QED  BY <1>1, <1>2

LEMMA FetchKeepsGuesses ==
    ASSUME TypeOK, GuessesInv, NEW w \in Workers, FetchOtp(w)
    PROVE  GuessesInv'
<1> /\ disturbed \in Nat /\ guesses \in [1..MaxCodes -> Nat] /\ attempts.v \in Nat
    /\ MaxAttempts \in Nat \ {0} /\ codes \in Nat /\ MaxCodes \in Nat
  BY AccountAssumption, SMTT(60) DEF TypeOK, Key
<1>0. /\ UNCHANGED <<otp, attempts, codes, guesses, disturbed>> /\ Step(w)
      /\ proc[w].at = "fetch" /\ proc'[w].at \in {"idle", "compare"}
      /\ proc'[w].at = "compare" => There(otp) /\ proc'[w].stored = otp.v
  BY FetchOtpIs DEF keys, Past
<1>1. ASSUME NEW v \in Workers
      PROVE  Stored(v)'
  BY <1>0 DEF GuessesInv, Step, Stored
<1>2. ASSUME NEW c \in 1..MaxCodes
      PROVE  IF Current(c)' THEN CurrentCode(c)' ELSE FormerCode(c)'
  <2>1. /\ Cardinality(Counting(c))' = Cardinality(Counting(c))
        /\ Cardinality(Dropping)' = Cardinality(Dropping)
        /\ Cardinality(Counting(c)) \in Nat /\ Cardinality(Dropping) \in Nat
        /\ Cardinality(Comparing(c)) \in Nat
    BY <1>0, GuessSetsMove DEF Shifts
  <2>2. Current(c)' <=> Current(c)
    BY <1>0 DEF Current, There
  <2>3. CASE Current(c)
    BY <1>0, <2>1, <2>2, <2>3 DEF GuessesInv, CurrentCode
  <2>4. CASE ~Current(c)
    <3>1. Cardinality(Comparing(c))' = Cardinality(Comparing(c))
      BY <1>0, <2>1, <2>4, GuessSetsMove DEF Shifts, Current
    <3>. QED  BY <1>0, <2>1, <2>2, <2>4, <3>1 DEF GuessesInv, FormerCode
  <2>. QED  BY <2>3, <2>4
<1>3. attempts'.v <= MaxAttempts - 1 + Cardinality(Dropping)' + disturbed'
  <2>1. Cardinality(Dropping)' = Cardinality(Dropping)
    BY <1>0, GuessSetsMove DEF Shifts
  <2>. QED  BY <1>0, <2>1 DEF GuessesInv
<1>. QED  BY <1>0, <1>1, <1>2, <1>3 DEF GuessesInv, There

LEMMA CompareKeepsGuesses ==
    ASSUME TypeOK, GuessesInv, NEW w \in Workers, CompareCodes(w)
    PROVE  GuessesInv'
<1> /\ disturbed \in Nat /\ guesses \in [1..MaxCodes -> Nat] /\ attempts.v \in Nat
    /\ MaxAttempts \in Nat \ {0} /\ codes \in 0..MaxCodes /\ MaxCodes \in Nat
  BY AccountAssumption, SMTT(60) DEF TypeOK, Key
<1> DEFINE s == proc[w].stored
           more == IF proc[w].code = s THEN 0 ELSE 1
<1>0. /\ UNCHANGED <<otp, attempts, codes, disturbed>> /\ Step(w)
      /\ proc[w].at = "compare" /\ proc'[w].stored = s
      /\ proc'[w].at = IF more = 0 THEN "del" ELSE "incr"
      /\ guesses' = [guesses EXCEPT ![s] = @ + more] /\ more \in {0, 1}
  <2>1. Carried(w, IF proc[w].code = s THEN "del" ELSE "incr")
    BY Moves DEF CompareCodes, Stages
  <2>. QED  BY <2>1 DEF CompareCodes, Carried, keys, At
<1>1. s \in 1..codes
  BY <1>0 DEF GuessesInv, Stored
<1> HIDE DEF s, more
<1>2. ASSUME NEW v \in Workers
      PROVE  Stored(v)'
  BY <1>0, <1>1 DEF GuessesInv, Step, Stored
<1>3. Cardinality(Dropping)' = Cardinality(Dropping) /\ Cardinality(Dropping) \in Nat
  <2>1. Cardinality(Dropping) \in Nat
    BY GuessSets
  <2>. QED  BY <1>0, <2>1, GuessSetsMove DEF Shifts
<1>4. ASSUME NEW c \in 1..MaxCodes
      PROVE  /\ c > codes' => guesses'[c] = 0
             /\ IF Current(c)' THEN CurrentCode(c)' ELSE FormerCode(c)'
  <2>0. Cardinality(Counting(c)) \in Nat /\ Cardinality(Comparing(c)) \in Nat
    BY GuessSets
  <2>1. CASE c = s
    <3>0. proc[w].stored = c /\ proc'[w].stored = c
      BY <1>0, <2>1 DEF s
    <3>1. Cardinality(Counting(c))' = Cardinality(Counting(c)) + more
      <4>1. Shifts(Cardinality(Counting(c)), Cardinality(Counting(c))',
                   proc[w].at = "incr" /\ proc[w].stored = c,
                   proc'[w].at = "incr" /\ proc'[w].stored = c)
        BY <1>0, GuessSetsMove
      <4>2. CASE more = 0
        <5>1. proc[w].at # "incr" /\ proc'[w].at # "incr"
          BY <1>0, <4>2
        <5>2. Cardinality(Counting(c))' = Cardinality(Counting(c))
          BY <4>1, <5>1 DEF Shifts
        <5>. QED  BY <2>0, <4>2, <5>2
      <4>3. CASE more = 1
        <5>1. proc[w].at # "incr" /\ proc'[w].at = "incr"
          BY <1>0, <4>3
        <5>2. Cardinality(Counting(c))' = Cardinality(Counting(c)) + 1
          BY <3>0, <4>1, <5>1 DEF Shifts
        <5>. QED  BY <4>3, <5>2
      <4>. QED  BY <1>0, <4>2, <4>3
    <3>2. Cardinality(Comparing(c))' = Cardinality(Comparing(c)) - 1
      BY <1>0, <3>0, GuessSetsMove DEF Shifts
    <3>3. guesses'[c] = guesses[c] + more /\ guesses[c] \in Nat
      BY <1>0, <2>1
    <3>4. Current(c)' <=> Current(c)
      BY <1>0 DEF Current, There
    <3>5. CASE Current(c)
      <4>1. CurrentCode(c) /\ attempts'.v = attempts.v /\ disturbed' = disturbed /\ more \in Nat
        BY <1>0, <3>5 DEF GuessesInv
      <4>2. /\ guesses[c] <= attempts.v + Cardinality(Counting(c)) + disturbed
            /\ guesses[c] <= MaxAttempts - 1 + Cardinality(Dropping) + Cardinality(Counting(c)) + disturbed
        BY <4>1 DEF CurrentCode
      <4>3. guesses'[c] <= attempts'.v + Cardinality(Counting(c))' + disturbed'
        BY <2>0, <3>1, <3>3, <4>1, <4>2, SMTT(60)
      <4>4. guesses'[c] <= MaxAttempts - 1 + Cardinality(Dropping)' + Cardinality(Counting(c))' + disturbed'
        BY <1>3, <2>0, <3>1, <3>3, <4>1, <4>2, SMTT(60)
      <4>5. CurrentCode(c)'
        BY <4>3, <4>4 DEF CurrentCode
      <4>. QED  BY <1>0, <1>1, <2>1, <3>4, <3>5, <4>5
    <3>6. CASE ~Current(c)
      <4>1. Cardinality(Workers) \in Nat
        BY GuessSets
      <4>2. FormerCode(c) /\ disturbed' = disturbed /\ more \in {0, 1}
        BY <1>0, <3>6 DEF GuessesInv
      <4>3. FormerCode(c)'
        BY <2>0, <3>2, <3>3, <4>1, <4>2 DEF FormerCode
      <4>. QED  BY <1>0, <1>1, <2>1, <3>4, <3>6, <4>3
    <3>. QED  BY <1>0, <1>1, <2>1, <3>5, <3>6
  <2>2. CASE c # s
    <3>1. /\ Cardinality(Counting(c))' = Cardinality(Counting(c))
          /\ Cardinality(Comparing(c))' = Cardinality(Comparing(c))
      <4>1. proc[w].stored # c /\ proc'[w].stored # c
        BY <1>0, <2>2 DEF s
      <4>. QED  BY <1>0, <2>0, <4>1, GuessSetsMove DEF Shifts
    <3>2. guesses'[c] = guesses[c] /\ guesses[c] \in Nat
      BY <1>0, <2>2
    <3>3. Current(c)' <=> Current(c)
      BY <1>0 DEF Current, There
    <3>. QED  BY <1>0, <1>3, <2>0, <3>1, <3>2, <3>3 DEF GuessesInv, CurrentCode, FormerCode
  <2>. QED  BY <2>1, <2>2
<1>. QED  BY <1>0, <1>2, <1>3, <1>4 DEF GuessesInv, There

LEMMA CountAttemptIs ==
    ASSUME TypeOK, NEW w \in Workers, CountAttempt(w)
    PROVE  /\ proc[w].at = "incr" /\ Step(w) /\ proc'[w].at \in {"idle", "drop"}
           /\ proc'[w].at = "drop" <=> attempts'.v >= MaxAttempts
           /\ UNCHANGED <<otp, codes, guesses, disturbed>>
           /\ attempts'.v \in 1..(attempts.v + 1)
           /\ attempts.left > 0 => attempts'.v = attempts.v + 1 /\ attempts'.left = attempts.left
           /\ attempts'.left >= attempts.left
<1>0. attempts \in Key /\ attempts.v \in Nat /\ attempts.left \in Nat
  BY AccountAssumption, SMTT(60) DEF TypeOK, Key, Lasting
<1>1. proc[w].at = "incr" /\ UNCHANGED <<otp, codes, guesses, disturbed>>
  BY DEF CountAttempt, Past, At
<1>2. /\ attempts'.v \in 1..(attempts.v + 1)
      /\ attempts.left > 0 => attempts'.v = attempts.v + 1 /\ attempts'.left = attempts.left
      /\ attempts'.left >= attempts.left
  <2>1. CASE There(attempts)
    <3>1. attempts' = [attempts EXCEPT !.v = @ + 1]
      BY <2>1 DEF CountAttempt, Incr
    <3>2. attempts'.v = attempts.v + 1 /\ attempts'.left = attempts.left
      BY <1>0, <3>1 DEF Key
    <3>. QED  BY <1>0, <3>2
  <2>2. CASE ~There(attempts)
    <3>1. attempts'.v = 1 /\ attempts'.left = 99
      BY <2>2 DEF CountAttempt, Incr, Set, Lasting
    <3>. QED  BY <1>0, <2>2, <3>1 DEF There
  <2>. QED  BY <2>1, <2>2
<1>3. Step(w) /\ proc'[w].at \in {"idle", "drop"} /\ (proc'[w].at = "drop" <=> attempts'.v >= MaxAttempts)
  <2>1. CASE attempts'.v >= MaxAttempts
    BY <2>1, Moves DEF CountAttempt, Stages, Carried
  <2>2. CASE ~(attempts'.v >= MaxAttempts)
    BY <2>2, Ends, IdleType DEF CountAttempt
  <2>. QED  BY <2>1, <2>2
<1>. QED  BY <1>1, <1>2, <1>3

LEMMA CountKeepsGuesses ==
    ASSUME TypeOK, GuessesInv, NEW w \in Workers, CountAttempt(w)
    PROVE  GuessesInv'
<1> /\ disturbed \in Nat /\ guesses \in [1..MaxCodes -> Nat] /\ attempts.v \in Nat
    /\ MaxAttempts \in Nat \ {0} /\ codes \in 0..MaxCodes /\ MaxCodes \in Nat
    /\ attempts.left \in Nat
  BY AccountAssumption, SMTT(60) DEF TypeOK, Key, Lasting
<1>0. /\ proc[w].at = "incr" /\ Step(w) /\ proc'[w].at \in {"idle", "drop"}
      /\ proc'[w].at = "drop" <=> attempts'.v >= MaxAttempts
      /\ UNCHANGED <<otp, codes, guesses, disturbed>>
      /\ attempts'.v \in 1..(attempts.v + 1) /\ attempts'.v \in Nat
      /\ attempts.left > 0 => attempts'.v = attempts.v + 1 /\ attempts'.left = attempts.left
      /\ attempts'.left >= attempts.left
  BY CountAttemptIs
<1>1. ASSUME NEW v \in Workers
      PROVE  Stored(v)'
  BY <1>0 DEF GuessesInv, Step, Stored
<1>2. /\ attempts'.v >= MaxAttempts => Cardinality(Dropping)' = Cardinality(Dropping) + 1
      /\ attempts'.v < MaxAttempts => Cardinality(Dropping)' = Cardinality(Dropping)
      /\ Cardinality(Dropping) \in Nat /\ Cardinality(Dropping)' \in Nat
  BY <1>0, GuessSetsMove DEF Shifts
<1>3. attempts'.v <= MaxAttempts - 1 + Cardinality(Dropping)' + disturbed'
  <2>1. /\ attempts.v <= MaxAttempts - 1 + Cardinality(Dropping) + disturbed
        /\ attempts'.v <= attempts.v + 1 /\ disturbed' = disturbed /\ attempts'.v \in Nat
    BY <1>0 DEF GuessesInv
  <2>2. CASE attempts'.v >= MaxAttempts
    BY <1>2, <2>1, <2>2
  <2>3. CASE attempts'.v < MaxAttempts
    BY <1>2, <2>1, <2>3
  <2>. QED  BY <2>1, <2>2, <2>3
<1>4. ASSUME NEW c \in 1..MaxCodes
      PROVE  IF Current(c)' THEN CurrentCode(c)' ELSE FormerCode(c)'
  <2>1. /\ Cardinality(Comparing(c))' = Cardinality(Comparing(c))
        /\ Cardinality(Comparing(c)) \in Nat
        /\ Cardinality(Counting(c)) \in Nat /\ Cardinality(Counting(c))' \in Nat
        /\ \/ Cardinality(Counting(c))' = Cardinality(Counting(c))
           \/ Cardinality(Counting(c))' = Cardinality(Counting(c)) - 1
    BY <1>0, GuessSetsMove DEF Shifts
  <2>2. Current(c)' <=> Current(c)
    BY <1>0 DEF Current, There
  <2>3. CASE Current(c)
    <3>1. attempts'.v = attempts.v + 1
      BY <1>0, <2>3 DEF GuessesInv, Current, There, TypeOK
    <3>2. /\ guesses[c] <= attempts.v + Cardinality(Counting(c)) + disturbed
          /\ guesses[c] <= MaxAttempts - 1 + Cardinality(Dropping) + Cardinality(Counting(c)) + disturbed
      BY <2>3 DEF GuessesInv, CurrentCode
    <3>3. guesses'[c] = guesses[c] /\ disturbed' = disturbed /\ guesses[c] \in Nat
      BY <1>0
    <3>4. guesses'[c] <= attempts'.v + Cardinality(Counting(c))' + disturbed'
      BY <2>1, <3>1, <3>2, <3>3, SMTT(60)
    <3>5. guesses'[c] <= MaxAttempts - 1 + Cardinality(Dropping)' + Cardinality(Counting(c))' + disturbed'
      <4>1. attempts'.v \in Nat
        BY <1>0
      <4>2. CASE attempts'.v >= MaxAttempts
        <5> DEFINE D == Cardinality(Dropping)  I == Cardinality(Counting(c))
                   D2 == Cardinality(Dropping)'  I2 == Cardinality(Counting(c))'
        <5>1. D2 = D + 1 /\ I2 >= I - 1 /\ D \in Nat /\ I \in Nat /\ I2 \in Nat
          BY <1>2, <2>1, <4>2
        <5>2. guesses[c] <= MaxAttempts - 1 + D + I + disturbed
          BY <3>2
        <5>3. guesses'[c] <= MaxAttempts - 1 + D2 + I2 + disturbed
          <6> HIDE DEF D, D2, I, I2
          <6>. QED  BY <3>3, <5>1, <5>2
        <5>. QED  BY <3>3, <5>3
      <4>3. CASE attempts'.v < MaxAttempts
        BY <1>2, <2>1, <3>3, <3>4, <4>1, <4>3, SMTT(60)
      <4>. QED  BY <4>1, <4>2, <4>3
    <3>. QED  BY <2>2, <2>3, <3>4, <3>5 DEF CurrentCode
  <2>4. CASE ~Current(c)
    BY <1>0, <2>1, <2>2, <2>4 DEF GuessesInv, FormerCode
  <2>. QED  BY <2>3, <2>4
<1>5. There(otp)' => otp'.v \in 1..codes' /\ otp'.left <= attempts'.left
  <2>1. otp.left \in Nat /\ attempts'.left \in Nat
    BY <1>0, CodeStepsType, AccountAssumption DEF TypeOK, CountAttempt, Incr, Set, Lasting, There, Key
  <2>. QED  BY <1>0, <2>1 DEF GuessesInv, There
<1>. QED  BY <1>0, <1>1, <1>3, <1>4, <1>5 DEF GuessesInv

LEMMA CodeStepsKeepGuesses ==
    ASSUME TypeOK, HandlersInv, GuessesInv, NEW w \in Workers, CodeStep(w)
    PROVE  GuessesInv'
<1> disturbed \in Nat /\ disturbed' = disturbed /\ Step(w)
  BY CodeStepsType DEF OfCodes, TypeOK
<1> USE DEF At
<1>1. CASE \/ Register(w) \/ SendVerification(w)
           \/ \E code \in 0..MaxCodes : ConfirmVerification(w, code)
           \/ CommitAccount(w) \/ CountResends(w) \/ VerifyUser(w)
  <2>1. ASSUME NEW op \in Ops, NEW stage \in Stages, Start(w, op, stage)
        PROVE  proc[w].at = "idle" /\ proc'[w].at = stage
    BY <2>1, Starts
  <2>2. CASE Register(w) \/ SendVerification(w)
    BY <2>1, <2>2, NoGuessKeeps DEF Register, SendVerification, Ops, Stages, NoGuess, keys
  <2>3. ASSUME NEW code \in 0..MaxCodes, ConfirmVerification(w, code)
        PROVE  GuessesInv'
    <3> DEFINE record == [Idle EXCEPT !.op = "confirmVerification", !.at = "fetch", !.code = code]
    <3>1. record \in Proc /\ record.at = "fetch"
      BY IdleType DEF Proc, Ops, Stages
    <3>2. Become(w, record) /\ proc[w].at = "idle" /\ UNCHANGED <<otp, attempts, codes, guesses>>
      BY <2>3 DEF ConfirmVerification, Called, keys
    <3> HIDE DEF record
    <3>3. proc'[w].at = "fetch"
      BY <3>1, <3>2, Becomes
    <3>. QED  BY <3>2, <3>3, NoGuessKeeps DEF NoGuess
  <2>4. CASE CommitAccount(w)
    BY <2>4, Ends, IdleType, NoGuessKeeps DEF CommitAccount, NoGuess, keys, Past
  <2>5. CASE CountResends(w)
    <3>1. proc'[w].at \in {"idle", "save"}
      <4>1. [proc[w] EXCEPT !.at = "save", !.n = resend.v].at = "save"
        BY DEF TypeOK, Proc
      <4>. QED  BY <2>5, <4>1, Ends, IdleType DEF CountResends, Become, TypeOK
    <3>. QED  BY <2>5, <3>1, NoGuessKeeps DEF CountResends, NoGuess, keys, Past
  <2>6. CASE VerifyUser(w)
    BY <2>6, Moves, NoGuessKeeps DEF VerifyUser, Stages, Carried, NoGuess, keys, Past
  <2>. QED  BY <1>1, <2>2, <2>3, <2>4, <2>5, <2>6
<1>2. CASE SaveOtpSession(w)
  <2>1. CodeGoes(w)
    <3>1. proc'[w] = Idle
      BY <1>2, Ends DEF SaveOtpSession
    <3>2. attempts'.v = 0 /\ otp'.v = codes' /\ otp'.left <= attempts'.left
      BY <1>2, AccountAssumption DEF SaveOtpSession, Set
    <3>. QED  BY <1>2, <3>1, <3>2, IdleType DEF SaveOtpSession, CodeGoes
  <2>. QED  BY <2>1, CodeGoesKeeps
<1>3. CASE FetchOtp(w)
  BY <1>3, FetchKeepsGuesses
<1>4. CASE CompareCodes(w)
  BY <1>4, CompareKeepsGuesses
<1>5. CASE CountAttempt(w)
  BY <1>5, CountKeepsGuesses
<1>6. CASE DropOtp(w) \/ InvalidateOtp(w)
  <2>1. proc'[w].at \in {"idle", "verify"}
    <3>1. CASE proc[w].at = "del"
      BY <1>6, <3>1, Moves, Ends, IdleType DEF DropOtp, InvalidateOtp, Stages, Carried
    <3>2. CASE proc[w].at # "del"
      BY <1>6, <3>2, Ends, IdleType DEF DropOtp, InvalidateOtp
    <3>. QED  BY <3>1, <3>2
  <2>2. CodeGoes(w)
    BY <1>6, <2>1 DEF DropOtp, InvalidateOtp, CodeGoes, Absent, There, Past
  <2>. QED  BY <2>2, CodeGoesKeeps
<1>. QED  BY <1>1, <1>2, <1>3, <1>4, <1>5, <1>6 DEF CodeStep

LEMMA TokenStepsKeepGuesses ==
    ASSUME TypeOK, HandlersInv, GuessesInv, NEW w \in Workers, TokenStep(w)
    PROVE  GuessesInv'
<1>1. NoGuess(w)
  BY TokenStepsType DEF OfTokens, TokenStages, NoGuess
<1>2. disturbed' \in Nat
  BY TokenStepsType, AccountAssumption DEF TypeOK
<1>. QED  BY <1>1, <1>2, NoGuessKeeps

LEMMA FailKeepsGuesses ==
    ASSUME TypeOK, GuessesInv, NEW w \in Workers, Fail(w)
    PROVE  GuessesInv'
<1> /\ disturbed \in Nat /\ guesses \in [1..MaxCodes -> Nat] /\ attempts.v \in Nat
    /\ MaxAttempts \in Nat \ {0} /\ codes \in 0..MaxCodes /\ MaxCodes \in Nat
  BY AccountAssumption, SMTT(60) DEF TypeOK, Key
<1>0. /\ Step(w) /\ proc'[w].at = "idle" /\ disturbed' = disturbed + 1
      /\ UNCHANGED <<otp, attempts, codes, guesses>>
  BY FailIs, IdleType DEF keys
<1>1. ASSUME NEW v \in Workers
      PROVE  Stored(v)'
  BY <1>0 DEF GuessesInv, Step, Stored
<1>2. /\ Cardinality(Dropping) \in Nat /\ Cardinality(Dropping)' \in Nat
      /\ Cardinality(Dropping)' >= Cardinality(Dropping) - (IF proc[w].at = "drop" THEN 1 ELSE 0)
  BY <1>0, GuessSetsMove, SMTT(60) DEF Shifts
<1>3. attempts'.v <= MaxAttempts - 1 + Cardinality(Dropping)' + disturbed'
  BY <1>0, <1>2 DEF GuessesInv
<1>4. ASSUME NEW c \in 1..MaxCodes
      PROVE  IF Current(c)' THEN CurrentCode(c)' ELSE FormerCode(c)'
  <2>1. /\ Cardinality(Comparing(c))' <= Cardinality(Comparing(c))
        /\ Cardinality(Comparing(c)) \in Nat /\ Cardinality(Comparing(c))' \in Nat
        /\ Cardinality(Counting(c)) \in Nat /\ Cardinality(Counting(c))' \in Nat
        /\ Cardinality(Counting(c))' >= Cardinality(Counting(c)) - 1
        /\ proc[w].at # "incr" => Cardinality(Counting(c))' = Cardinality(Counting(c))
    <3>1. /\ proc'[w].at # "compare" /\ proc'[w].at # "incr"
          /\ Shifts(Cardinality(Comparing(c)), Cardinality(Comparing(c))',
                 proc[w].at = "compare" /\ proc[w].stored = c,
                 proc'[w].at = "compare" /\ proc'[w].stored = c)
          /\ Shifts(Cardinality(Counting(c)), Cardinality(Counting(c))',
                 proc[w].at = "incr" /\ proc[w].stored = c,
                 proc'[w].at = "incr" /\ proc'[w].stored = c)
      BY <1>0, GuessSetsMove
    <3> DEFINE K == Cardinality(Comparing(c))  I == Cardinality(Counting(c))
               K2 == Cardinality(Comparing(c))'  I2 == Cardinality(Counting(c))'
    <3>2. K2 = K \/ K2 = K - 1
      BY <3>1 DEF Shifts
    <3>3. I2 = I \/ (I2 = I - 1 /\ proc[w].at = "incr")
      BY <3>1 DEF Shifts
    <3>4. K \in Nat /\ K2 \in Nat /\ I \in Nat /\ I2 \in Nat
      BY <3>1 DEF Shifts
    <3>5. K2 <= K /\ I2 >= I - 1 /\ (proc[w].at # "incr" => I2 = I)
      <4> HIDE DEF K, K2, I, I2
      <4>. QED  BY <3>2, <3>3, <3>4
    <3>. QED  BY <3>4, <3>5
  <2>2. Current(c)' <=> Current(c)
    BY <1>0 DEF Current, There
  <2>3. guesses'[c] = guesses[c] /\ guesses[c] \in Nat /\ Cardinality(Workers) \in Nat
    BY <1>0, GuessSets
  <2>4. CASE Current(c)
    <3>1. /\ guesses[c] <= attempts.v + Cardinality(Counting(c)) + disturbed
          /\ guesses[c] <= MaxAttempts - 1 + Cardinality(Dropping) + Cardinality(Counting(c)) + disturbed
      BY <2>4 DEF GuessesInv, CurrentCode
    <3> DEFINE D == Cardinality(Dropping)  I == Cardinality(Counting(c))
               D2 == Cardinality(Dropping)'  I2 == Cardinality(Counting(c))'
    <3>2. /\ D \in Nat /\ D2 \in Nat /\ I \in Nat /\ I2 \in Nat /\ I2 >= I - 1
          /\ I2 + D2 >= I + D - 1
      BY <1>2, <2>1
    <3>3. /\ guesses[c] <= attempts.v + I + disturbed
          /\ guesses[c] <= MaxAttempts - 1 + D + I + disturbed
      BY <3>1
    <3>4. /\ guesses'[c] <= attempts.v + I2 + (disturbed + 1)
          /\ guesses'[c] <= MaxAttempts - 1 + D2 + I2 + (disturbed + 1)
      <4> HIDE DEF D, D2, I, I2
      <4>. QED  BY <2>3, <3>2, <3>3, SMTT(60)
    <3>5. CurrentCode(c)'
      BY <1>0, <3>4 DEF CurrentCode
    <3>. QED  BY <2>2, <2>4, <3>5
  <2>5. CASE ~Current(c)
    BY <1>0, <2>1, <2>2, <2>3, <2>5, SMTT(60) DEF GuessesInv, FormerCode
  <2>. QED  BY <2>4, <2>5
<1>. QED  BY <1>0, <1>1, <1>3, <1>4 DEF GuessesInv, There

LEMMA TickKeepsGuesses ==
    ASSUME TypeOK, GuessesInv, Tick
    PROVE  GuessesInv'
<1> /\ disturbed \in Nat /\ guesses \in [1..MaxCodes -> Nat] /\ attempts.v \in Nat
    /\ MaxAttempts \in Nat \ {0} /\ codes \in 0..MaxCodes /\ MaxCodes \in Nat
    /\ attempts.left \in Nat /\ otp.left \in Nat
  BY AccountAssumption, SMTT(60) DEF TypeOK, Key, Lasting
<1>0. /\ otp' = Older(otp) /\ attempts' = Older(attempts)
      /\ UNCHANGED <<proc, codes, guesses, disturbed>>
  BY DEF Tick, Past
<1>1. UNCHANGED <<Dropping>> /\ \A c : UNCHANGED <<Comparing(c), Counting(c)>>
  BY <1>0 DEF Dropping, Comparing, Counting, At
<1>2. There(otp') => There(otp) /\ otp'.v = otp.v /\ attempts' = Older(attempts) /\ attempts'.v = attempts.v
                     /\ otp'.left <= attempts'.left
  <2> SUFFICES ASSUME There(otp')
               PROVE  /\ There(otp) /\ otp'.v = otp.v /\ attempts'.v = attempts.v
                      /\ otp'.left <= attempts'.left
    BY <1>0
  <2>1. There(otp) /\ otp.left > 1 /\ otp'.v = otp.v
    BY <1>0, OlderKeys DEF There
  <2>2. otp.left <= attempts.left
    BY <2>1 DEF GuessesInv
  <2>. QED  BY <1>0, <2>1, <2>2, OlderKeys, OlderIsMonotone
<1>3. attempts'.v \in {attempts.v, 0}
  BY <1>0, OlderKeys
<1>4. attempts'.v <= MaxAttempts - 1 + Cardinality(Dropping)' + disturbed'
  <2>1. Cardinality(Dropping) \in Nat /\ Cardinality(Dropping)' = Cardinality(Dropping)
    BY <1>1, GuessSets
  <2>. QED  BY <1>0, <1>3, <2>1 DEF GuessesInv
<1>5. ASSUME NEW c \in 1..MaxCodes
      PROVE  IF Current(c)' THEN CurrentCode(c)' ELSE FormerCode(c)'
  <2>1. FormerCode(c)' <=> FormerCode(c)
    BY <1>0, <1>1 DEF FormerCode
  <2>2. FormerCode(c) \/ Current(c)
    BY DEF GuessesInv
  <2>3. FormerCode(c)
    BY <2>2, CurrentThenFormer DEF GuessesInv
  <2>4. CASE Current(c)'
    <3>1. Current(c) /\ attempts'.v = attempts.v
      BY <1>2, <2>4 DEF Current, There
    <3>. QED  BY <1>0, <1>1, <2>4, <3>1 DEF GuessesInv, CurrentCode
  <2>. QED  BY <2>1, <2>3, <2>4
<1>. QED  BY <1>0, <1>2, <1>4, <1>5 DEF GuessesInv, There, Stored

-----------------------------------------------------------------------------
(* The passwords that a token sets. *)

LEMMA UsingSets ==
    ASSUME NEW t
    PROVE  IsFiniteSet(Using(t)) /\ Cardinality(Using(t)) \in Nat
<1>1. Using(t) \subseteq Workers /\ IsFiniteSet(Workers)
  BY AccountAssumption DEF Using
<1>. QED  BY <1>1, FS_Subset, FS_CardinalityType

LEMMA UsingMoves ==
    ASSUME NEW w \in Workers, Step(w), NEW t
    PROVE  /\ Shifts(Cardinality(Using(t)), Cardinality(Using(t))',
                  proc[w].at = "password" /\ proc[w].t = t,
                  proc'[w].at = "password" /\ proc'[w].t = t)
           /\ Deleting(t) \ {w} = Deleting(t)' \ {w}
           /\ w \in Deleting(t) <=> proc[w].at \in {"password", "delToken"} /\ proc[w].t = t
           /\ w \in Deleting(t)' <=> proc'[w].at \in {"password", "delToken"} /\ proc'[w].t = t
<1>1. Using(t) \ {w} = Using(t)' \ {w} /\ Deleting(t) \ {w} = Deleting(t)' \ {w}
  BY DEF Step, Using, Deleting, At
<1>2. /\ w \in Using(t) <=> proc[w].at = "password" /\ proc[w].t = t
      /\ w \in Using(t)' <=> proc'[w].at = "password" /\ proc'[w].t = t
      /\ w \in Deleting(t) <=> proc[w].at \in {"password", "delToken"} /\ proc[w].t = t
      /\ w \in Deleting(t)' <=> proc'[w].at \in {"password", "delToken"} /\ proc'[w].t = t
  BY DEF Using, Deleting, At
<1>3. Shifts(Cardinality(Using(t)), Cardinality(Using(t)'), w \in Using(t), w \in Using(t)')
  BY <1>1, UsingSets, OneMoves
<1>. QED  BY <1>1, <1>2, <1>3 DEF Shifts

(* Passwords set with t, and about to be, are within what is allowed. *)
Allowed(t) == disturbed + (IF There(token[t]) /\ Deleting(t) = {} THEN 0 ELSE 1)
Within(t) == uses[t] + Cardinality(Using(t)) <= Allowed(t)

LEMMA UsesAreWithin == UsesInv <=> \A t \in Tokens : Within(t)
  BY DEF UsesInv, Within, Allowed

(* A step that sets no password and deletes no token after one. *)
NotUsing(w) ==
    /\ Step(w)
    /\ proc[w].at \notin {"password", "delToken"} /\ proc'[w].at \notin {"password", "delToken"}
    /\ uses' = uses /\ disturbed' >= disturbed
    /\ \A t \in Tokens :
          There(token'[t]) => There(token[t]) \/ (uses[t] = 0 /\ Using(t) = {})

LEMMA NotUsingKeeps ==
    ASSUME TypeOK, TypeOK', UsesInv, NEW w \in Workers, NotUsing(w)
    PROVE  UsesInv'
<1> disturbed \in Nat /\ disturbed' \in Nat
  BY AccountAssumption DEF TypeOK
<1>1. ASSUME NEW t \in Tokens
      PROVE  Within(t)'
  <2>1. /\ disturbed \in Nat /\ disturbed' \in Nat /\ disturbed' >= disturbed
        /\ uses[t] \in Nat /\ uses'[t] = uses[t]
    BY AccountAssumption DEF TypeOK, NotUsing
  <2>2. Cardinality(Using(t))' = Cardinality(Using(t)) /\ Cardinality(Using(t)) \in Nat
    BY UsingMoves DEF NotUsing, Shifts
  <2>3. Deleting(t)' = Deleting(t)
    <3>1. w \notin Deleting(t) /\ w \notin Deleting(t)' /\ Deleting(t) \ {w} = Deleting(t)' \ {w}
      BY UsingMoves DEF NotUsing
    <3>. QED  BY <3>1
  <2>4. Within(t)
    BY UsesAreWithin
  <2>5. /\ Allowed(t) = disturbed + 1 \/ (Allowed(t) = disturbed /\ There(token[t]) /\ Deleting(t) = {})
        /\ Allowed(t)' = disturbed' + 1 \/ (Allowed(t)' = disturbed' /\ There(token'[t]) /\ Deleting(t)' = {})
        /\ There(token[t]) /\ Deleting(t) = {} => Allowed(t) = disturbed
    BY <2>1 DEF Allowed, There
  <2>6. CASE There(token'[t]) => There(token[t])
    <3>1. Allowed(t)' >= Allowed(t) /\ Allowed(t) \in Nat /\ Allowed(t)' \in Nat
      BY <2>1, <2>3, <2>5, <2>6
    <3>. QED  BY <2>1, <2>2, <2>4, <3>1 DEF Within
  <2>7. CASE uses[t] = 0 /\ Using(t) = {}
    <3>1. Cardinality(Using(t)) = 0
      BY <2>7, FS_EmptySet
    <3>2. Allowed(t)' \in Nat
      BY <2>1, <2>5
    <3>. QED  BY <2>1, <2>2, <2>7, <3>1, <3>2 DEF Within
  <2>. QED  BY <2>6, <2>7 DEF NotUsing
<1>2. \A t \in Tokens : Within(t)'
  BY <1>1
<1>. QED  BY <1>2 DEF UsesInv, Within, Allowed

LEMMA CodeStepsKeepUses ==
    ASSUME TypeOK, HandlersInv, UsesInv, NEW w \in Workers, CodeStep(w)
    PROVE  UsesInv'
<1>1. disturbed' >= disturbed
  BY CodeStepsType, AccountAssumption DEF OfCodes, TypeOK
<1>2. NotUsing(w)
  BY <1>1, CodeStepsType DEF OfCodes, CodeStages, NotUsing
<1>. QED  BY <1>2, CodeStepsType, NotUsingKeeps

LEMMA ResetKeepsUses ==
    ASSUME TypeOK, TypeOK', HandlersInv, UsesInv, NEW w \in Workers, NEW s \in Tokens, ResetPassword(w, s)
    PROVE  UsesInv'
<1>0. /\ proc[w].at = "idle" /\ Step(w) /\ proc'[w].at = "password" /\ proc'[w].t = s
      /\ Disturbs(w, "resetPassword") /\ There(token[s]) /\ token' = token /\ uses' = uses
  BY ResetPasswordIs DEF ResetPassword, At, keys
<1> disturbed \in Nat
  BY AccountAssumption DEF TypeOK
<1> PICK now \in Nat : disturbed' = now /\ now >= disturbed
  <2>1. disturbed' \in {disturbed, disturbed + 1}
    BY <1>0 DEF Disturbs
  <2>. QED  BY <2>1
<1>1. ASSUME NEW t \in Tokens
      PROVE  Within(t)'
  <2>0. Within(t) /\ uses[t] \in Nat /\ uses'[t] = uses[t]
    BY <1>0, UsesAreWithin DEF TypeOK
  <2>1. CASE t # s
    <3>1. Cardinality(Using(t))' = Cardinality(Using(t)) /\ Cardinality(Using(t)) \in Nat
      BY <1>0, <2>1, UsingMoves DEF Shifts
    <3>2. Deleting(t)' = Deleting(t)
      <4>1. w \notin Deleting(t) /\ w \notin Deleting(t)' /\ Deleting(t) \ {w} = Deleting(t)' \ {w}
        BY <1>0, <2>1, UsingMoves
      <4>. QED  BY <4>1
    <3>3. There(token[t])' <=> There(token[t])
      BY <1>0 DEF There
    <3>4. CASE There(token[t]) /\ Deleting(t) = {}
      <4>1. uses[t] + Cardinality(Using(t)) <= disturbed
        BY <2>0, <3>4 DEF Within, Allowed
      <4>2. uses[t] + Cardinality(Using(t)) <= now
        BY <2>0, <3>1, <4>1
      <4>3. Allowed(t)' = now
        BY <3>2, <3>3, <3>4 DEF Allowed
      <4>. QED  BY <2>0, <3>1, <4>2, <4>3 DEF Within
    <3>5. CASE ~ (There(token[t]) /\ Deleting(t) = {})
      <4>1. uses[t] + Cardinality(Using(t)) <= disturbed + 1
        BY <2>0, <3>5 DEF Within, Allowed
      <4>2. uses[t] + Cardinality(Using(t)) <= now + 1
        BY <2>0, <3>1, <4>1
      <4>3. Allowed(t)' = now + 1
        BY <3>2, <3>3, <3>5 DEF Allowed
      <4>. QED  BY <2>0, <3>1, <4>2, <4>3 DEF Within
    <3>. QED  BY <3>4, <3>5
  <2>2. CASE t = s
    <3>1. Cardinality(Using(t))' = Cardinality(Using(t)) + 1 /\ Cardinality(Using(t)) \in Nat
      BY <1>0, <2>2, UsingMoves DEF Shifts
    <3>2. w \in Deleting(t)'
      BY <1>0, <2>2, UsingMoves
    <3>3. Allowed(t)' = now + 1
      BY <3>2 DEF Allowed
    <3>4. CASE Deleting(t) = {}
      <4>1. Allowed(t) = disturbed
        BY <1>0, <2>2, <3>4 DEF Allowed
      <4>. QED  BY <2>0, <3>1, <3>3, <4>1 DEF Within
    <3>5. CASE Deleting(t) # {}
      <4>1. PICK v \in Workers : proc[v].at \in {"password", "delToken"}
        BY <3>5 DEF Deleting
      <4>2. v # w /\ proc[v].op = "resetPassword"
        BY <1>0, <4>1 DEF HandlersInv, Shape
      <4>3. now = disturbed + 1
        BY <1>0, <4>2 DEF Disturbs, Beside, Reset
      <4>4. Allowed(t) \in {disturbed, disturbed + 1}
        BY DEF Allowed
      <4>. QED  BY <2>0, <3>1, <3>3, <4>3, <4>4 DEF Within
    <3>. QED  BY <3>4, <3>5
  <2>. QED  BY <2>1, <2>2
<1>2. \A t \in Tokens : Within(t)'
  BY <1>1
<1>. QED  BY <1>2 DEF UsesInv, Within, Allowed

LEMMA SavePasswordKeepsUses ==
    ASSUME TypeOK, HandlersInv, UsesInv, NEW w \in Workers, SavePassword(w)
    PROVE  UsesInv'
<1> DEFINE s == proc[w].t
<1>0. /\ proc[w].at = "password" /\ Step(w) /\ proc'[w].at = "delToken" /\ proc'[w].t = s
      /\ disturbed' = disturbed /\ token' = token /\ uses' = [uses EXCEPT ![s] = @ + 1]
  BY Moves DEF SavePassword, Stages, Carried, At, keys
<1> disturbed \in Nat /\ uses \in [Tokens -> Nat]
  BY AccountAssumption DEF TypeOK
<1>1. ASSUME NEW t \in Tokens
      PROVE  Within(t)'
  <2>0. Within(t) /\ uses[t] \in Nat
    BY UsesAreWithin
  <2>1. Deleting(t)' = Deleting(t)
    <3>1. (w \in Deleting(t) <=> w \in Deleting(t)') /\ Deleting(t) \ {w} = Deleting(t)' \ {w}
      BY <1>0, UsingMoves
    <3>. QED  BY <3>1
  <2>2. Allowed(t)' = Allowed(t) /\ Allowed(t) \in Nat
    BY <1>0, <2>1 DEF Allowed, There
  <2>3. CASE t = s
    <3>1. Cardinality(Using(t))' = Cardinality(Using(t)) - 1 /\ Cardinality(Using(t)) \in Nat
      BY <1>0, <2>3, UsingMoves DEF Shifts
    <3>2. uses'[t] = uses[t] + 1
      BY <1>0, <2>3
    <3>. QED  BY <2>0, <2>2, <3>1, <3>2 DEF Within
  <2>4. CASE t # s
    <3>1. Cardinality(Using(t))' = Cardinality(Using(t)) /\ Cardinality(Using(t)) \in Nat
      BY <1>0, <2>4, UsingMoves DEF Shifts
    <3>2. uses'[t] = uses[t]
      BY <1>0, <2>4
    <3>. QED  BY <2>0, <2>2, <3>1, <3>2 DEF Within
  <2>. QED  BY <2>3, <2>4
<1>2. \A t \in Tokens : Within(t)'
  BY <1>1
<1>. QED  BY <1>2 DEF UsesInv, Within, Allowed

LEMMA DelTokenKeepsUses ==
    ASSUME TypeOK, UsesInv, NEW w \in Workers, DelToken(w)
    PROVE  UsesInv'
<1> DEFINE s == proc[w].t
<1>0. /\ proc[w].at = "delToken" /\ Step(w) /\ proc'[w].at = "delActive"
      /\ disturbed' = disturbed /\ token' = [token EXCEPT ![s] = Absent] /\ uses' = uses
  BY Moves DEF DelToken, Stages, Carried, At, Past
<1> disturbed \in Nat /\ DOMAIN token = Tokens
  BY AccountAssumption DEF TypeOK
<1>1. ASSUME NEW t \in Tokens
      PROVE  Within(t)'
  <2>0. Within(t) /\ uses[t] \in Nat /\ uses'[t] = uses[t]
    BY <1>0, UsesAreWithin DEF TypeOK
  <2>1. Cardinality(Using(t))' = Cardinality(Using(t)) /\ Cardinality(Using(t)) \in Nat
    BY <1>0, UsingMoves DEF Shifts
  <2>2. Allowed(t)' >= Allowed(t) /\ Allowed(t) \in Nat /\ Allowed(t)' \in Nat
    <3>1. CASE t = s
      <4>1. ~There(token'[t])
        BY <1>0, <3>1 DEF There, Absent
      <4>. QED  BY <1>0, <4>1 DEF Allowed
    <3>2. CASE t # s
      <4>1. w \notin Deleting(t) /\ w \notin Deleting(t)' /\ Deleting(t) \ {w} = Deleting(t)' \ {w}
        BY <1>0, <3>2, UsingMoves
      <4>2. Deleting(t)' = Deleting(t) /\ token'[t] = token[t]
        BY <1>0, <3>2, <4>1
      <4>. QED  BY <1>0, <4>2 DEF Allowed, There
    <3>. QED  BY <3>1, <3>2
  <2>. QED  BY <2>0, <2>1, <2>2 DEF Within
<1>2. \A t \in Tokens : Within(t)'
  BY <1>1
<1>. QED  BY <1>2 DEF UsesInv, Within, Allowed

LEMMA FailKeepsUses ==
    ASSUME TypeOK, UsesInv, NEW w \in Workers, Fail(w)
    PROVE  UsesInv'
<1>0. /\ Step(w) /\ proc'[w].at = "idle" /\ disturbed' = disturbed + 1
      /\ UNCHANGED <<token, uses>>
  BY FailIs, IdleType DEF keys
<1> disturbed \in Nat
  BY AccountAssumption DEF TypeOK
<1>1. ASSUME NEW t \in Tokens
      PROVE  Within(t)'
  <2>0. Within(t) /\ uses[t] \in Nat /\ uses'[t] = uses[t]
    BY <1>0, UsesAreWithin DEF TypeOK
  <2> DEFINE U == Cardinality(Using(t))  U2 == Cardinality(Using(t))'
  <2>1. U \in Nat /\ U2 \in Nat /\ (U2 = U \/ U2 = U - 1)
    BY <1>0, UsingMoves DEF Shifts
  <2>2. Allowed(t) \in {disturbed, disturbed + 1} /\ Allowed(t)' \in {disturbed + 1, disturbed + 2}
    BY <1>0 DEF Allowed
  <2>3. uses[t] + U <= Allowed(t)
    BY <2>0 DEF Within
  <2>4. uses[t] + U2 <= Allowed(t)'
    <3> HIDE DEF U, U2
    <3>. QED  BY <2>0, <2>1, <2>2, <2>3
  <2>. QED  BY <2>0, <2>4 DEF Within
<1>2. \A t \in Tokens : Within(t)'
  BY <1>1
<1>. QED  BY <1>2 DEF UsesInv, Within, Allowed

LEMMA TickKeepsUses ==
    ASSUME TypeOK, UsesInv, Tick
    PROVE  UsesInv'
<1>0. proc' = proc /\ uses' = uses /\ disturbed' = disturbed
  BY DEF Tick, Past
<1> disturbed \in Nat
  BY AccountAssumption DEF TypeOK
<1>1. ASSUME NEW t \in Tokens
      PROVE  Within(t)'
  <2>0. Within(t) /\ uses[t] \in Nat /\ uses'[t] = uses[t]
    BY <1>0, UsesAreWithin DEF TypeOK
  <2>1. Using(t)' = Using(t) /\ Deleting(t)' = Deleting(t)
    BY <1>0 DEF Using, Deleting, At
  <2>2. There(token'[t]) => There(token[t])
    <3>1. token'[t] = Older(token[t]) /\ token[t].left \in Nat
      BY AccountAssumption DEF Tick, TypeOK
    <3>. QED  BY <3>1, OlderKeys DEF There
  <2>3. Allowed(t)' >= Allowed(t) /\ Allowed(t) \in Nat /\ Allowed(t)' \in Nat
    BY <1>0, <2>1, <2>2 DEF Allowed, There
  <2>4. Cardinality(Using(t))' = Cardinality(Using(t)) /\ Cardinality(Using(t)) \in Nat
    BY <2>1, UsingSets
  <2>. QED  BY <2>0, <2>3, <2>4 DEF Within
<1>2. \A t \in Tokens : Within(t)'
  BY <1>1
<1>. QED  BY <1>2 DEF UsesInv, Within, Allowed

LEMMA TokenStepsKeepUses ==
    ASSUME TypeOK, HandlersInv, UsesInv, NEW w \in Workers, TokenStep(w)
    PROVE  UsesInv'
<1>0. TypeOK' /\ Step(w) /\ disturbed' >= disturbed
  BY TokenStepsType DEF OfTokens
<1> USE DEF At
<1>1. CASE ForgotPassword(w)
  BY <1>0, <1>1, ForgotPasswordIs, NotUsingKeeps DEF NotUsing, keys
<1>2. CASE ReadActive(w)
  BY <1>0, <1>2, ReadActiveIs, NotUsingKeeps DEF NotUsing, keys, Past
<1>3. CASE DropOldToken(w)
  <2>1. proc[w].at = "dropOld" /\ proc'[w].at = "token" /\ uses' = uses
    BY <1>3, Moves DEF DropOldToken, Stages, Carried, Past
  <2>2. \A t \in Tokens : There(token'[t]) => There(token[t])
    BY <1>3 DEF DropOldToken, There, Absent, TypeOK
  <2>. QED  BY <1>0, <2>1, <2>2, NotUsingKeeps DEF NotUsing
<1>4. ASSUME NEW t \in Tokens, SetToken(w, t)
      PROVE  UsesInv'
  <2>1. proc[w].at = "token" /\ proc'[w].at = "active" /\ uses' = uses
    BY <1>4, SetTokenIs DEF SetToken, Past
  <2>2. uses[t] = 0 /\ Using(t) = {} /\ \A s \in Tokens : s # t => token'[s] = token[s]
    BY <1>4 DEF SetToken, Undrawn, Using, TypeOK
  <2>. QED  BY <1>0, <2>1, <2>2, NotUsingKeeps DEF NotUsing
<1>5. CASE SetActive(w)
  BY <1>0, <1>5, Moves, NotUsingKeeps DEF SetActive, Stages, Carried, Past, NotUsing
<1>6. CASE ReadLimit(w)
  <2>1. [proc[w] EXCEPT !.at = "limit", !.n = limit.v].at = "limit"
    BY DEF TypeOK, Proc
  <2>2. proc'[w].at = "limit"
    BY <1>6, <2>1 DEF ReadLimit, Become, TypeOK
  <2>. QED  BY <1>0, <1>6, <2>2, NotUsingKeeps DEF ReadLimit, keys, Past, NotUsing
<1>7. CASE SetLimit(w)
  BY <1>0, <1>7, Ends, IdleType, NotUsingKeeps DEF SetLimit, Past, NotUsing
<1>8. ASSUME NEW t \in Tokens, ResetPassword(w, t)
      PROVE  UsesInv'
  BY <1>0, <1>8, ResetKeepsUses
<1>9. CASE SavePassword(w)
  BY <1>9, SavePasswordKeepsUses
<1>10. CASE DelToken(w)
  BY <1>10, DelTokenKeepsUses
<1>11. CASE DelActive(w)
  BY <1>0, <1>11, Ends, IdleType, NotUsingKeeps DEF DelActive, Past, NotUsing
<1>. QED  BY <1>1, <1>2, <1>3, <1>4, <1>5, <1>6, <1>7, <1>8, <1>9, <1>10, <1>11 DEF TokenStep

-----------------------------------------------------------------------------
(* The tokens that work. *)

LEMMA TokenSets ==
    /\ IsFiniteSet(Live) /\ IsFiniteSet(Counted) /\ IsFiniteSet(Doomed)
    /\ IsFiniteSet(Asking) /\ IsFiniteSet(Resetting)
    /\ Cardinality(Live) \in Nat /\ Cardinality(Counted) \in Nat /\ Cardinality(Doomed) \in Nat
    /\ Cardinality(Asking) \in Nat /\ Cardinality(Resetting) \in Nat
<1>1. /\ Live \subseteq Tokens /\ Counted \subseteq Tokens /\ Doomed \subseteq Tokens
      /\ Asking \subseteq Workers /\ Resetting \subseteq Workers
  BY DEF Live, Counted, Doomed, Held, Asking, Resetting
<1>2. /\ IsFiniteSet(Live) /\ IsFiniteSet(Counted) /\ IsFiniteSet(Doomed)
      /\ IsFiniteSet(Asking) /\ IsFiniteSet(Resetting)
  BY <1>1, FS_Subset, AccountAssumption
<1>. QED  BY <1>2, FS_CardinalityType

LEMMA PrimedTokenSets ==
    /\ Cardinality(Counted') \in Nat /\ Cardinality(Asking') \in Nat
    /\ Cardinality(Resetting') \in Nat /\ IsFiniteSet(Live') /\ Cardinality(Live') \in Nat
<1>1. /\ Live' \subseteq Tokens /\ Counted' \subseteq Tokens
      /\ Asking' \subseteq Workers /\ Resetting' \subseteq Workers
  BY DEF Live, Counted, Held, Asking, Resetting
<1>2. /\ IsFiniteSet(Live') /\ IsFiniteSet(Counted')
      /\ IsFiniteSet(Asking') /\ IsFiniteSet(Resetting')
  BY <1>1, FS_Subset, AccountAssumption
<1>. QED  BY <1>2, FS_CardinalityType

LEMMA RequestsMove ==
    ASSUME NEW w \in Workers, Step(w)
    PROVE  /\ Shifts(Cardinality(Asking), Cardinality(Asking'),
                  proc[w].at \in {"old", "dropOld", "token"},
                  proc'[w].at \in {"old", "dropOld", "token"})
           /\ Shifts(Cardinality(Resetting), Cardinality(Resetting'),
                  proc[w].op = "resetPassword", proc'[w].op = "resetPassword")
<1>1. Asking \ {w} = Asking' \ {w} /\ Resetting \ {w} = Resetting' \ {w}
  BY DEF Step, Asking, Resetting
<1>2. /\ w \in Asking <=> proc[w].at \in {"old", "dropOld", "token"}
      /\ w \in Asking' <=> proc'[w].at \in {"old", "dropOld", "token"}
      /\ w \in Resetting <=> proc[w].op = "resetPassword"
      /\ w \in Resetting' <=> proc'[w].op = "resetPassword"
  BY DEF Asking, Resetting
<1>3. Shifts(Cardinality(Asking), Cardinality(Asking'), w \in Asking, w \in Asking')
  BY <1>1, TokenSets, OneMoves
<1>4. Shifts(Cardinality(Resetting), Cardinality(Resetting'), w \in Resetting, w \in Resetting')
  BY <1>1, TokenSets, OneMoves
<1>. QED  BY <1>2, <1>3, <1>4 DEF Shifts

(* A step of one that neither holds a token nor is going to delete one. *)
LEMMA AsideSets ==
    ASSUME NEW w \in Workers, Step(w),
           proc[w].at \notin {"active", "password", "delToken"},
           proc'[w].at \notin {"active", "password", "delToken"}
    PROVE  Held' = Held /\ Doomed' = Doomed /\ Holding' = Holding
<1>1. Held' = Held /\ Holding' = Holding
  BY DEF Held, Holding, At, Step
<1>2. Doomed' = Doomed
  BY <1>1 DEF Doomed, Step
<1>. QED  BY <1>1, <1>2

(* While nobody asks, holds or resets, nothing is doomed and no relief comes. *)
LEMMA QuietSets ==
    ASSUME TypeOK, HandlersInv, Quiet
    PROVE  /\ Held = {} /\ Doomed = {} /\ Counted = Live /\ ~Relief
           /\ Cardinality(Asking) = 0 /\ Cardinality(Resetting) = 0
           /\ TokensInv => Cardinality(Live) <= disturbed + Bump(active.v \in Live)
<1>1. Held = {} /\ Doomed = {} /\ Counted = Live /\ ~Relief
  <2>1. \A w \in Workers : proc[w].at \notin {"old", "dropOld", "active", "password", "delToken"}
    BY DEF Quiet, Asking, Holding, Resetting, At, HandlersInv, Shape
  <2>. QED  BY <2>1 DEF Held, Doomed, Counted, Relief, Relieves, At
<1>2. Cardinality(Asking) = 0 /\ Cardinality(Resetting) = 0
  BY FS_EmptySet DEF Quiet
<1>3. TokensInv => Cardinality(Live \ {active.v}) <= disturbed
  BY DEF TokensInv
<1>4. Cardinality(Live) = Cardinality(Live \ {active.v}) + Bump(active.v \in Live)
  <2>1. Cardinality(Live) \in Nat /\ IsFiniteSet(Live)
    BY TokenSets
  <2>2. Cardinality(Live \ {active.v}) = IF active.v \in Live THEN Cardinality(Live) - 1 ELSE Cardinality(Live)
    BY <2>1, FS_RemoveElement
  <2>. QED  BY <2>1, <2>2 DEF Bump
<1>5. Cardinality(Live \ {active.v}) \in Nat /\ disturbed \in Nat
  <2>1. IsFiniteSet(Live \ {active.v})
    BY TokenSets, FS_RemoveElement
  <2>. QED  BY <2>1, FS_CardinalityType, AccountAssumption DEF TypeOK
<1>6. TokensInv => Cardinality(Live) <= disturbed + Bump(active.v \in Live)
  <2>1. Bump(active.v \in Live) \in Nat
    BY DEF Bump
  <2>. QED  BY <1>3, <1>4, <1>5, <2>1
<1>. QED  BY <1>1, <1>2, <1>6

(* What a step may change, between two states in which something goes on. *)
LEMMA Balance ==
    ASSUME TypeOK, TypeOK', TokensInv, ~Quiet, ~Quiet',
           NEW c \in Int, NEW a \in Int, NEW r \in Int, NEW e \in Int, NEW lost \in {0, 1},
           Cardinality(Counted') <= Cardinality(Counted) + c,
           Cardinality(Asking') <= Cardinality(Asking) + a,
           Cardinality(Resetting') <= Cardinality(Resetting) + r,
           disturbed' >= disturbed + e,
           Relief /\ ~Relief' => lost = 1,
           c + a + r + lost <= e
    PROVE  TokensInv'
<1> DEFINE C == Cardinality(Counted)  A == Cardinality(Asking)  R == Cardinality(Resetting)
           C2 == Cardinality(Counted')  A2 == Cardinality(Asking')  R2 == Cardinality(Resetting')
           gain == IF Relief THEN 1 ELSE 0
           gain2 == IF Relief' THEN 1 ELSE 0
<1>1. /\ C \in Nat /\ A \in Nat /\ R \in Nat /\ C2 \in Nat /\ A2 \in Nat /\ R2 \in Nat
      /\ disturbed \in Nat /\ disturbed' \in Nat /\ gain2 \in Nat /\ gain \in Nat /\ lost \in Nat
  BY TokenSets, PrimedTokenSets, AccountAssumption DEF TypeOK
<1>2. C + A + R <= disturbed + 1 + gain
  BY DEF TokensInv
<1>3. gain <= gain2 + lost
  OBVIOUS
<1>4. C2 <= C + c /\ A2 <= A + a /\ R2 <= R + r
  OBVIOUS
<1>5. C2 + A2 + R2 <= disturbed' + 1 + gain2
  <2> HIDE DEF C, A, R, C2, A2, R2, gain, gain2
  <2> DEFINE more == c + a + r
             d == disturbed
             d2 == disturbed'
  <2>1. more \in Int /\ more + lost <= e /\ e \in Int /\ lost \in Int
    OBVIOUS
  <2>2. C2 + A2 + R2 <= C + A + R + more
    BY <1>1, <1>4
  <2>3. d \in Int /\ d2 \in Int /\ d2 >= d + e /\ C + A + R <= d + 1 + gain
    BY <1>1, <1>2
  <2>4. C + A + R \in Int /\ C2 + A2 + R2 \in Int /\ gain \in Int /\ gain2 \in Int
    BY <1>1
  <2> HIDE DEF more, d, d2
  <2>5. C2 + A2 + R2 <= d2 + 1 + gain2
    BY ONLY <1>3, <2>1, <2>2, <2>3, <2>4
  <2>. QED  BY <2>5 DEF d2
<1>. QED  BY <1>5 DEF TokensInv

LEMMA BalanceStands ==
    ASSUME TypeOK, TypeOK', TokensInv, ~Quiet, ~Quiet',
           Cardinality(Counted') <= Cardinality(Counted),
           Cardinality(Asking') <= Cardinality(Asking),
           Cardinality(Resetting') <= Cardinality(Resetting),
           disturbed' >= disturbed,
           Relief => Relief'
    PROVE  TokensInv'
<1>1. /\ Cardinality(Counted) \in Nat /\ Cardinality(Asking) \in Nat
      /\ Cardinality(Resetting) \in Nat /\ disturbed \in Nat
  BY TokenSets, AccountAssumption DEF TypeOK
<1>2. /\ Cardinality(Counted') <= Cardinality(Counted) + 0
      /\ Cardinality(Asking') <= Cardinality(Asking) + 0
      /\ Cardinality(Resetting') <= Cardinality(Resetting) + 0
      /\ disturbed' >= disturbed + 0 /\ 0 + 0 + 0 + 0 <= 0
  BY <1>1
<1>. QED  BY <1>2, Balance

LEMMA BalanceOfReset ==
    ASSUME TypeOK, TypeOK', TokensInv, ~Quiet, ~Quiet',
           Cardinality(Counted') <= Cardinality(Counted) + 1,
           Cardinality(Asking') <= Cardinality(Asking),
           Cardinality(Resetting') <= Cardinality(Resetting) + (-1),
           disturbed' >= disturbed + 0,
           Relief => Relief'
    PROVE  TokensInv'
<1>1. Cardinality(Asking) \in Nat /\ Cardinality(Asking') \in Nat
  BY TokenSets, PrimedTokenSets, AccountAssumption DEF TypeOK
<1>2. Cardinality(Asking') <= Cardinality(Asking) + 0 /\ 1 + 0 + (-1) + 0 <= 0
  BY <1>1
<1>. QED  BY <1>2, Balance

LEMMA SomethingGoesOn ==
    /\ ~Quiet <=> \E w \in Workers :
          \/ proc[w].at \in {"old", "dropOld", "token", "active"}
          \/ proc[w].op = "resetPassword"
    /\ ~Quiet' <=> \E w \in Workers :
          \/ proc'[w].at \in {"old", "dropOld", "token", "active"}
          \/ proc'[w].op = "resetPassword"
  BY DEF Quiet, Asking, Holding, Resetting, At

(* A step that changes nothing of all this. *)
LEMMA NothingMoves ==
    ASSUME TypeOK, TypeOK', HandlersInv, TokensInv, NEW w \in Workers, Step(w),
           proc[w].at \notin {"old", "dropOld", "token", "active"},
           proc'[w].at \notin {"old", "dropOld", "token", "active"},
           proc[w].op = "resetPassword" <=> proc'[w].op = "resetPassword",
           proc[w].at \in {"password", "delToken"} <=> proc'[w].at \in {"password", "delToken"},
           proc'[w].t = proc[w].t \/ proc[w].at \notin {"password", "delToken"},
           UNCHANGED <<token, active, disturbed>>
    PROVE  TokensInv'
<1>1. /\ Live' = Live /\ Held' = Held /\ Asking' = Asking /\ Holding' = Holding
      /\ Resetting' = Resetting
  BY DEF Live, Held, Asking, Holding, Resetting, At, Step
<1>2. Doomed' = Doomed
  BY <1>1 DEF Doomed, Step
<1>3. \A v \in Workers : Relieves(v)' <=> Relieves(v)
  BY <1>1, <1>2 DEF Relieves, At, Step
<1>4. (Relief' <=> Relief) /\ (Quiet' <=> Quiet) /\ Counted' = Counted
  BY <1>1, <1>2, <1>3 DEF Relief, Quiet, Counted
<1>. QED  BY <1>1, <1>4 DEF TokensInv

LEMMA CodeStepsKeepTokens ==
    ASSUME TypeOK, HandlersInv, TokensInv, NEW w \in Workers, CodeStep(w)
    PROVE  TokensInv'
<1>1. TypeOK' /\ OfCodes(w) /\ Shape(proc[w]) /\ Shape(proc[w])'
  BY CodeStepsType DEF OfCodes, HandlersInv
<1>. QED  BY <1>1, NothingMoves DEF OfCodes, CodeStages, Shape

LEMMA Beginning ==
    ASSUME TypeOK, HandlersInv, NEW w \in Workers, NEW op \in Reset, At(w, "idle"),
           ~Quiet, Disturbs(w, op)
    PROVE  disturbed' = disturbed + 1
<1>1. PICK v \in Workers :
          \/ proc[v].at \in {"old", "dropOld", "token", "active"}
          \/ proc[v].op = "resetPassword"
  BY SomethingGoesOn
<1>2. proc[v].op \in Reset /\ v # w
  BY <1>1 DEF HandlersInv, Shape, Reset, At
<1>. QED  BY <1>2 DEF Disturbs, Beside

LEMMA ForgotPasswordKeepsTokens ==
    ASSUME TypeOK, TypeOK', HandlersInv, TokensInv, NEW w \in Workers, ForgotPassword(w)
    PROVE  TokensInv'
<1>0. /\ proc[w].at = "idle" /\ proc[w].op = "none" /\ Step(w)
      /\ Disturbs(w, "forgotPassword")
      /\ proc'[w].at = "old" /\ proc'[w].op = "forgotPassword" /\ UNCHANGED <<token, active>>
  BY ForgotPasswordIs DEF At, keys, HandlersInv, Shape
<1> disturbed \in Nat /\ disturbed' \in Nat
  BY AccountAssumption DEF TypeOK
<1>1. Live' = Live /\ Held' = Held /\ Doomed' = Doomed /\ Counted' = Counted
  BY <1>0, AsideSets DEF Live, Counted
<1>2. /\ Cardinality(Asking') = Cardinality(Asking) + 1 /\ Cardinality(Asking) \in Nat
      /\ Cardinality(Resetting') = Cardinality(Resetting) /\ Cardinality(Resetting) \in Nat
  BY <1>0, RequestsMove DEF Shifts
<1>3. ~Quiet'
  BY <1>0, SomethingGoesOn
<1>4. CASE Quiet
  <2>1. /\ Counted = Live /\ Doomed = {} /\ Cardinality(Asking) = 0 /\ Cardinality(Resetting) = 0
        /\ Cardinality(Live) <= disturbed + Bump(active.v \in Live)
    BY <1>4, QuietSets
  <2>2. active.v \in Live => Relief'
    BY <1>0, <1>1, <2>1 DEF Relief, Relieves, At
  <2> DEFINE L == Cardinality(Live)
             d == disturbed
             d2 == disturbed'
             gain == Bump(active.v \in Live)
             gain2 == IF Relief' THEN 1 ELSE 0
  <2>3. L \in Nat /\ d \in Nat /\ d2 \in Nat /\ d2 >= d /\ gain \in Nat /\ gain2 \in Nat /\ gain <= gain2
    <3>1. disturbed' >= disturbed
      BY <1>0 DEF Disturbs
    <3>. QED  BY <2>2, <3>1, TokenSets DEF Bump
  <2>4. L <= d + gain
    BY <2>1
  <2>5. L + 1 + 0 <= d2 + 1 + gain2
    <3> HIDE DEF L, d, d2, gain, gain2
    <3>. QED  BY <2>3, <2>4
  <2>. QED  BY <1>1, <1>2, <1>3, <2>1, <2>5 DEF TokensInv
<1>5. CASE ~Quiet
  <2>1. disturbed' = disturbed + 1 /\ disturbed \in Nat
    <3>1. "forgotPassword" \in Reset /\ At(w, "idle")
      BY <1>0 DEF Reset, At
    <3>. QED  BY <1>0, <1>5, <3>1, Beginning
  <2>2. \A v \in Workers : Relieves(v) => Relieves(v)'
    BY <1>0, <1>1 DEF Relieves, At, Step
  <2>3. Relief => Relief'
    BY <2>2 DEF Relief
  <2>4. Cardinality(Counted') <= Cardinality(Counted) + 0
    BY <1>1, TokenSets
  <2>5. Cardinality(Asking') <= Cardinality(Asking) + 1
    BY <1>2
  <2>6. Cardinality(Resetting') <= Cardinality(Resetting) + 0
    BY <1>2
  <2>7. disturbed' >= disturbed + 1
    BY <2>1
  <2>8. 0 + 1 + 0 + 0 <= 1
    OBVIOUS
  <2>. QED  BY <1>3, <1>5, <2>3, <2>4, <2>5, <2>6, <2>7, <2>8, Balance
<1>. QED  BY <1>4, <1>5

LEMMA ReadActiveKeepsTokens ==
    ASSUME TypeOK, TypeOK', HandlersInv, TokensInv, NEW w \in Workers, ReadActive(w)
    PROVE  TokensInv'
<1>0. /\ proc[w].at = "old" /\ Step(w) /\ UNCHANGED <<token, active, disturbed>>
      /\ proc'[w].at = IF There(active) THEN "dropOld" ELSE "token"
      /\ proc'[w].t = active.v /\ proc'[w].op = proc[w].op /\ proc[w].op = "forgotPassword"
  BY ReadActiveIs DEF At, keys, Past, HandlersInv, Shape
<1> disturbed \in Nat /\ disturbed' \in Nat
  BY AccountAssumption DEF TypeOK
<1>1. Live' = Live /\ Held' = Held /\ Doomed' = Doomed /\ Counted' = Counted
  BY <1>0, AsideSets DEF Live, Counted
<1>2. /\ Cardinality(Asking') = Cardinality(Asking) /\ Cardinality(Asking) \in Nat
      /\ Cardinality(Resetting') = Cardinality(Resetting) /\ Cardinality(Resetting) \in Nat
  BY <1>0, RequestsMove DEF Shifts
<1>3. ~Quiet /\ ~Quiet'
  BY <1>0, SomethingGoesOn
<1>4. active.v \in Live => There(active)
  BY AccountAssumption DEF HandlersInv, ActiveInv, Live, NoToken
<1>5. \A v \in Workers : Relieves(v) => Relieves(v)'
  BY <1>0, <1>1, <1>4 DEF Relieves, At, Step
<1>6. Relief => Relief'
  BY <1>5 DEF Relief
<1>7. Cardinality(Counted') <= Cardinality(Counted)
  BY <1>1, TokenSets
<1>8. Cardinality(Asking') <= Cardinality(Asking)
  BY <1>2
<1>9. Cardinality(Resetting') <= Cardinality(Resetting)
  BY <1>2
<1>10. disturbed' >= disturbed
  BY <1>0
<1>. QED  BY <1>3, <1>6, <1>7, <1>8, <1>9, <1>10, BalanceStands

LEMMA DropOldTokenKeepsTokens ==
    ASSUME TypeOK, TypeOK', HandlersInv, TokensInv, NEW w \in Workers, DropOldToken(w)
    PROVE  TokensInv'
<1> DEFINE t == proc[w].t
<1>0. /\ proc[w].at = "dropOld" /\ Step(w) /\ UNCHANGED <<active, disturbed>>
      /\ proc'[w].at = "token" /\ proc'[w].op = proc[w].op /\ proc[w].op = "forgotPassword"
      /\ token' = [token EXCEPT ![t] = Absent]
  BY Moves DEF DropOldToken, Stages, Carried, At, Past, HandlersInv, Shape
<1> disturbed \in Nat /\ disturbed' \in Nat /\ DOMAIN token = Tokens
  BY AccountAssumption DEF TypeOK
<1>1. Live' = Live \ {t} /\ Held' = Held /\ Doomed' = Doomed
  BY <1>0, AsideSets DEF Live, There, Absent
<1>2. t \notin Held
  BY <1>0 DEF Held, HandlersInv, Apart, At
<1>3. /\ Cardinality(Asking') <= Cardinality(Asking)
      /\ Cardinality(Resetting') <= Cardinality(Resetting)
      /\ Cardinality(Asking') <= Cardinality(Asking) + 0
      /\ Cardinality(Resetting') <= Cardinality(Resetting) + 0
  BY <1>0, RequestsMove DEF Shifts
<1>4. ~Quiet /\ ~Quiet'
  BY <1>0, SomethingGoesOn
<1>5. CASE t \in Live \ Doomed
  <2>1. Counted' \subseteq Counted \ {t} /\ t \in Counted
    BY <1>1, <1>2, <1>5 DEF Counted
  <2>2. Cardinality(Counted') <= Cardinality(Counted) + (-1)
    <3>1. Cardinality(Counted') <= Cardinality(Counted) - 1 /\ Cardinality(Counted) \in Nat
      BY <2>1, AtMost, TokenSets
    <3>. QED  BY <3>1, PrimedTokenSets
  <2>3. disturbed' >= disturbed + 0 /\ (-1) + 0 + 0 + 1 <= 0
    BY <1>0
  <2>. QED  BY <1>3, <1>4, <2>2, <2>3, Balance
<1>6. CASE t \notin Live \ Doomed
  <2>1. Live' \ Doomed' = Live \ Doomed /\ Counted' = Counted
    BY <1>1, <1>2, <1>6 DEF Counted
  <2>2. \A v \in Workers : Relieves(v) => Relieves(v)'
    BY <1>0, <1>6, <2>1 DEF Relieves, At, Step
  <2>3. Relief => Relief'
    BY <2>2 DEF Relief
  <2>4. Cardinality(Counted') <= Cardinality(Counted)
    <3>1. Cardinality(Counted) \in Nat
      BY TokenSets
    <3>. QED  BY <2>1, <3>1
  <2>5. disturbed' >= disturbed
    BY <1>0
  <2> HIDE DEF t
  <2>. QED  BY <1>3, <1>4, <2>3, <2>4, <2>5, BalanceStands
<1>. QED  BY <1>5, <1>6

LEMMA SetTokenKeepsTokens ==
    ASSUME TypeOK, TypeOK', HandlersInv, TokensInv, NEW w \in Workers, NEW t \in Tokens, SetToken(w, t)
    PROVE  TokensInv'
<1>0. /\ proc[w].at = "token" /\ Step(w) /\ UNCHANGED <<active, disturbed>>
      /\ proc'[w].at = "active" /\ proc'[w].t = t /\ proc'[w].op = proc[w].op
      /\ proc[w].op = "forgotPassword"
      /\ token' = [token EXCEPT ![t] = Set(1, ResetTtl)]
      /\ active.v # t /\ \A v \in Workers : proc[v].t # t
  BY SetTokenIs DEF SetToken, Undrawn, At, Past, HandlersInv, Shape
<1> disturbed \in Nat /\ disturbed' \in Nat /\ DOMAIN token = Tokens /\ ResetTtl \in Nat \ {0}
  BY AccountAssumption DEF TypeOK
<1>1. Live' = Live \cup {t}
  BY <1>0 DEF Live, There, Set
<1>2. Held' = Held \cup {t}
  BY <1>0 DEF Held, At, Step
<1>3. Doomed' = Doomed
  <2>1. t \notin Doomed
    BY <1>0 DEF Doomed
  <2>. QED  BY <1>0, <1>2, <2>1 DEF Doomed, Step
<1>4. /\ Cardinality(Asking') <= Cardinality(Asking) + (-1)
      /\ Cardinality(Resetting') <= Cardinality(Resetting) + 0
  BY <1>0, RequestsMove DEF Shifts
<1>5. ~Quiet /\ ~Quiet'
  BY <1>0, SomethingGoesOn
<1>6. \A v \in Workers : Relieves(v) => Relieves(v)'
  BY <1>0, <1>1, <1>3 DEF Relieves, At, Step
<1>7. Relief => Relief'
  BY <1>6 DEF Relief
<1>8. Counted' \subseteq Counted \cup {t}
  BY <1>1, <1>2, <1>3 DEF Counted
<1>9. Cardinality(Counted') <= Cardinality(Counted) + 1
  BY <1>8, AtMost, TokenSets
<1>10. disturbed' >= disturbed + 0 /\ 1 + (-1) + 0 + 0 <= 0
  BY <1>0
<1>. QED  BY <1>4, <1>5, <1>7, <1>9, <1>10, Balance

LEMMA SetActiveKeepsTokens ==
    ASSUME TypeOK, TypeOK', HandlersInv, TokensInv, NEW w \in Workers, SetActive(w)
    PROVE  TokensInv'
<1> DEFINE t == proc[w].t
<1>0. /\ proc[w].at = "active" /\ Step(w) /\ UNCHANGED <<token, disturbed>>
      /\ proc'[w].at = "attempts" /\ proc'[w].op = proc[w].op /\ proc[w].op = "forgotPassword"
      /\ active'.v = t /\ t \in Tokens
  BY Moves DEF SetActive, Stages, Carried, At, Past, HandlersInv, Shape
<1> disturbed \in Nat /\ disturbed' \in Nat
  BY AccountAssumption DEF TypeOK
<1>1. Live' = Live /\ t \in Held /\ Held' \subseteq Held /\ Doomed \subseteq Doomed'
  BY <1>0 DEF Live, Held, Doomed, At, Step
<1>2. Held' = Held \ {t} /\ Doomed' \subseteq Doomed \cup {t}
  <2>1. t \notin Held'
    BY <1>0 DEF Held, HandlersInv, Apart, At, Step
  <2>2. Held \ {t} \subseteq Held'
    BY <1>0 DEF Held, At, Step
  <2>3. Held' = Held \ {t}
    BY <1>1, <2>1, <2>2
  <2>. QED  BY <1>0, <2>3 DEF Doomed, Step
<1>3. t \notin Doomed /\ t \in Counted /\ Counted' \subseteq Counted
  BY <1>1, <1>2 DEF Counted, Doomed
<1>4. /\ Cardinality(Asking') <= Cardinality(Asking)
      /\ Cardinality(Resetting') <= Cardinality(Resetting)
      /\ Cardinality(Asking') <= Cardinality(Asking) + 0
      /\ Cardinality(Resetting') <= Cardinality(Resetting) + 0
      /\ Asking' = Asking /\ Resetting' = Resetting
  <2>1. Asking' = Asking /\ Resetting' = Resetting
    BY <1>0 DEF Asking, Resetting, Step
  <2>. QED  BY <2>1, TokenSets
<1>5. ~Quiet
  BY <1>0, SomethingGoesOn
<1>6. CASE ~Quiet' /\ t \in Live' \ Doomed'
  <2>1. Live' \ Doomed' = Live \ Doomed
    BY <1>1, <1>2, <1>6
  <2>2. \A v \in Workers : Relieves(v) => Relieves(v)'
    BY <1>0, <1>6, <2>1 DEF Relieves, At, Step
  <2>3. Relief => Relief'
    BY <2>2 DEF Relief
  <2>4. Cardinality(Counted') <= Cardinality(Counted)
    <3>1. Cardinality(Counted') <= Cardinality(Counted) /\ Cardinality(Counted) \in Nat
      BY <1>3, AtMost, TokenSets
    <3>. QED  BY <3>1
  <2>5. disturbed' >= disturbed
    BY <1>0
  <2>. QED  BY <1>4, <1>5, <1>6, <2>3, <2>4, <2>5, BalanceStands
<1>7. CASE ~Quiet' /\ t \notin Live' \ Doomed'
  <2>1. Counted' \subseteq Counted \ {t}
    BY <1>2, <1>3, <1>7 DEF Counted
  <2>2. Cardinality(Counted') <= Cardinality(Counted) + (-1)
    <3>1. Cardinality(Counted') <= Cardinality(Counted) - 1 /\ Cardinality(Counted) \in Nat
      BY <1>3, <2>1, AtMost, TokenSets
    <3>. QED  BY <3>1, PrimedTokenSets
  <2>3. disturbed' >= disturbed + 0 /\ (-1) + 0 + 0 + 1 <= 0
    BY <1>0
  <2>. QED  BY <1>4, <1>5, <1>7, <2>2, <2>3, Balance
<1>8. CASE Quiet'
  <2>1. Asking = {} /\ Resetting = {}
    BY <1>4, <1>8 DEF Quiet
  <2>2. Doomed = {} /\ ~Relief
    <3>1. \A v \in Workers : proc[v].at \notin {"old", "dropOld", "password", "delToken"}
      BY <2>1 DEF Asking, Resetting, HandlersInv, Shape
    <3>. QED  BY <3>1 DEF Doomed, Relief, Relieves, At
  <2>3. Cardinality(Asking) = 0 /\ Cardinality(Resetting) = 0
    BY <2>1, FS_EmptySet
  <2>4. Live \ {t} \subseteq Counted \ {t}
    BY <2>2 DEF Counted
  <2>5. Cardinality(Live \ {t}) <= Cardinality(Counted) - 1
    BY <1>3, <2>4, AtMost, TokenSets
  <2>6. Cardinality(Counted) + 0 + 0 <= disturbed + 1 + 0
    BY <1>5, <2>2, <2>3 DEF TokensInv
  <2>7. Cardinality(Counted) \in Nat /\ Cardinality(Live \ {t}) \in Nat
    <3>1. IsFiniteSet(Live \ {t})
      BY TokenSets, FS_RemoveElement
    <3>. QED  BY <3>1, TokenSets, FS_CardinalityType
  <2>8. Cardinality(Live \ {t}) <= disturbed
    BY <2>5, <2>6, <2>7
  <2>9. Live' \ {active'.v} = Live \ {t} /\ disturbed' = disturbed
    BY <1>0, <1>1
  <2>. QED  BY <1>8, <2>8, <2>9 DEF TokensInv
<1>. QED  BY <1>6, <1>7, <1>8

LEMMA ResetPasswordKeepsTokens ==
    ASSUME TypeOK, TypeOK', HandlersInv, TokensInv, NEW w \in Workers, NEW t \in Tokens,
           ResetPassword(w, t)
    PROVE  TokensInv'
<1>0. /\ proc[w].at = "idle" /\ proc[w].op = "none" /\ Step(w) /\ At(w, "idle")
      /\ Disturbs(w, "resetPassword") /\ UNCHANGED <<token, active>> /\ t \in Live
      /\ proc'[w].at = "password" /\ proc'[w].op = "resetPassword" /\ proc'[w].t = t
  BY ResetPasswordIs DEF ResetPassword, Live, At, keys, HandlersInv, Shape
<1> disturbed \in Nat /\ disturbed' \in Nat
  BY AccountAssumption DEF TypeOK
<1>1. Live' = Live /\ Held' = Held
  BY <1>0 DEF Live, Held, At, Step
<1>2. Doomed' = Doomed \cup ({t} \ Held)
  BY <1>0, <1>1 DEF Doomed, Step
<1>3. /\ Cardinality(Asking') = Cardinality(Asking) /\ Cardinality(Asking) \in Nat
      /\ Cardinality(Resetting') = Cardinality(Resetting) + 1 /\ Cardinality(Resetting) \in Nat
  BY <1>0, RequestsMove DEF Shifts
<1>4. ~Quiet'
  BY <1>0, SomethingGoesOn
<1>5. CASE Quiet
  <2>1. /\ Held = {} /\ Doomed = {} /\ Cardinality(Asking) = 0 /\ Cardinality(Resetting) = 0
        /\ Cardinality(Live) <= disturbed + Bump(active.v \in Live)
    BY <1>5, QuietSets
  <2>2. Cardinality(Live) <= disturbed + 1 /\ Cardinality(Live) \in Nat
    <3>1. Bump(active.v \in Live) \in {0, 1}
      BY DEF Bump
    <3>. QED  BY <2>1, <3>1, TokenSets
  <2>3. Counted' \subseteq Live \ {t}
    BY <1>1, <1>2, <2>1 DEF Counted
  <2>4. Cardinality(Counted') <= Cardinality(Live) - 1 /\ Cardinality(Counted') \in Nat
    BY <1>0, <2>3, AtMost, TokenSets, PrimedTokenSets
  <2>5. disturbed' >= disturbed
    BY <1>0 DEF Disturbs
  <2>6. Cardinality(Counted') <= disturbed'
    BY <2>2, <2>4, <2>5
  <2>7. Cardinality(Asking') = 0 /\ Cardinality(Resetting') = 1
    BY <1>3, <2>1
  <2>8. Cardinality(Counted') + Cardinality(Asking') + Cardinality(Resetting')
            <= disturbed' + 1 + (IF Relief' THEN 1 ELSE 0)
    BY <2>4, <2>6, <2>7
  <2>. QED  BY <1>4, <2>8 DEF TokensInv
<1>6. CASE ~Quiet
  <2>1. disturbed' = disturbed + 1
    <3>1. "resetPassword" \in Reset
      BY DEF Reset
    <3>. QED  BY <1>0, <1>6, <3>1, Beginning
  <2>2. /\ Cardinality(Asking') <= Cardinality(Asking) + 0
        /\ Cardinality(Resetting') <= Cardinality(Resetting) + 1
        /\ disturbed' >= disturbed + 1
    BY <1>3, <2>1
  <2>3. CASE t \in Held
    <3>1. Doomed' = Doomed /\ Counted' = Counted
      BY <1>1, <1>2, <2>3 DEF Counted
    <3>2. \A v \in Workers : Relieves(v) => Relieves(v)'
      BY <1>0, <1>1, <3>1 DEF Relieves, At, Step
    <3>3. Relief => Relief'
      BY <3>2 DEF Relief
    <3>4. Cardinality(Counted') <= Cardinality(Counted) + 0
      BY <3>1, TokenSets
    <3>5. 0 + 0 + 1 + 0 <= 1
      OBVIOUS
    <3>. QED  BY <1>4, <1>6, <2>2, <3>3, <3>4, <3>5, Balance
  <2>4. CASE t \in Doomed
    <3>1. Doomed' = Doomed /\ Counted' = Counted
      BY <1>1, <1>2, <2>4 DEF Counted
    <3>2. \A v \in Workers : Relieves(v) => Relieves(v)'
      BY <1>0, <1>1, <3>1 DEF Relieves, At, Step
    <3>3. Relief => Relief'
      BY <3>2 DEF Relief
    <3>4. Cardinality(Counted') <= Cardinality(Counted) + 0
      BY <3>1, TokenSets
    <3>5. 0 + 0 + 1 + 0 <= 1
      OBVIOUS
    <3>. QED  BY <1>4, <1>6, <2>2, <3>3, <3>4, <3>5, Balance
  <2>5. CASE t \notin Held /\ t \notin Doomed
    <3>1. Counted' \subseteq Counted \ {t} /\ t \in Counted
      BY <1>0, <1>1, <1>2, <2>5 DEF Counted
    <3>2. Cardinality(Counted') <= Cardinality(Counted) + (-1)
      <4>1. Cardinality(Counted') <= Cardinality(Counted) - 1 /\ Cardinality(Counted) \in Nat
        BY <3>1, AtMost, TokenSets
      <4>. QED  BY <4>1, PrimedTokenSets
    <3>3. (-1) + 0 + 1 + 1 <= 1
      OBVIOUS
    <3>. QED  BY <1>4, <1>6, <2>2, <3>2, <3>3, Balance
  <2>. QED  BY <2>3, <2>4, <2>5
<1>. QED  BY <1>5, <1>6

LEMMA DelTokenKeepsTokens ==
    ASSUME TypeOK, TypeOK', HandlersInv, TokensInv, NEW w \in Workers, DelToken(w)
    PROVE  TokensInv'
<1> DEFINE t == proc[w].t
<1>0. /\ proc[w].at = "delToken" /\ Step(w) /\ UNCHANGED <<active, disturbed>>
      /\ proc'[w].at = "delActive" /\ proc'[w].op = proc[w].op /\ proc[w].op = "resetPassword"
      /\ token' = [token EXCEPT ![t] = Absent] /\ t \in Tokens
  BY Moves DEF DelToken, Stages, Carried, At, Past, HandlersInv, Shape
<1> disturbed \in Nat /\ disturbed' \in Nat /\ DOMAIN token = Tokens
  BY AccountAssumption DEF TypeOK
<1>1. Live' = Live \ {t} /\ Held' = Held
  BY <1>0 DEF Live, There, Absent, Held, At, Step
<1>2. Doomed' \subseteq Doomed /\ Doomed \subseteq Doomed' \cup {t}
  BY <1>0, <1>1 DEF Doomed, Step
<1>3. t \in Held \/ t \in Doomed
  BY <1>0 DEF Doomed
<1>4. Counted' \subseteq Counted
  <2>1. Held \cap Doomed = {}
    BY DEF Doomed
  <2>. QED  BY <1>1, <1>2, <1>3, <2>1 DEF Counted
<1>5. \A v \in Workers : Relieves(v) => Relieves(v)'
  <2> SUFFICES ASSUME NEW v \in Workers, Relieves(v)
               PROVE  Relieves(v)'
    OBVIOUS
  <2>1. v # w /\ proc'[v] = proc[v]
    BY <1>0 DEF Relieves, At, Step
  <2> DEFINE x == IF proc[v].at = "old" THEN active.v ELSE proc[v].t
  <2>2. x \in Live \ Doomed
    BY DEF Relieves, At
  <2>3. x # t
    <3>1. CASE t \in Doomed
      BY <2>2, <3>1
    <3>2. CASE t \in Held
      <4>1. PICK h \in Workers : At(h, "active") /\ proc[h].t = t
        BY <3>2 DEF Held
      <4>2. Apart(h)
        BY DEF HandlersInv
      <4>. QED  BY <4>1, <4>2 DEF Apart, Relieves, At
    <3>. QED  BY <1>3, <3>1, <3>2
  <2>4. x \in Live' \ Doomed'
    BY <1>1, <1>2, <2>2, <2>3
  <2>. QED  BY <1>0, <2>1, <2>4 DEF Relieves, At
<1>6. Relief => Relief'
  BY <1>5 DEF Relief
<1>7. ~Quiet /\ ~Quiet'
  BY <1>0, SomethingGoesOn
<1>8. /\ Cardinality(Asking') <= Cardinality(Asking)
      /\ Cardinality(Resetting') <= Cardinality(Resetting)
  BY <1>0, RequestsMove DEF Shifts
<1>9. Cardinality(Counted') <= Cardinality(Counted) /\ disturbed' >= disturbed
  BY <1>0, <1>4, AtMost, TokenSets
<1>. QED  BY <1>6, <1>7, <1>8, <1>9, BalanceStands

LEMMA DelActiveKeepsTokens ==
    ASSUME TypeOK, TypeOK', HandlersInv, TokensInv, NEW w \in Workers, DelActive(w)
    PROVE  TokensInv'
<1>0. /\ proc[w].at = "delActive" /\ Step(w) /\ UNCHANGED <<token, disturbed>>
      /\ proc'[w].at = "idle" /\ proc'[w].op = "none" /\ proc[w].op = "resetPassword"
      /\ active'.v = NoToken
  BY Ends, IdleType DEF DelActive, At, Past, HandlersInv, Shape
<1> disturbed \in Nat /\ disturbed' \in Nat
  BY AccountAssumption DEF TypeOK
<1>1. Live' = Live /\ Held' = Held /\ Doomed' = Doomed /\ Counted' = Counted
  BY <1>0, AsideSets DEF Live, Counted
<1>2. /\ Cardinality(Asking') <= Cardinality(Asking) + 0
      /\ Cardinality(Resetting') <= Cardinality(Resetting) + (-1)
  BY <1>0, RequestsMove DEF Shifts
<1>3. ~Quiet
  BY <1>0, SomethingGoesOn
<1>4. CASE ~Quiet'
  <2>1. Cardinality(Counted') <= Cardinality(Counted) + 0
    BY <1>1, TokenSets
  <2>2. disturbed' >= disturbed + 0 /\ 0 + 0 + (-1) + 1 <= 0
    BY <1>0
  <2>. QED  BY <1>2, <1>3, <1>4, <2>1, <2>2, Balance
<1>5. CASE Quiet'
  <2>1. \A v \in Workers : v # w => /\ proc[v].at \notin {"old", "dropOld", "token", "active"}
                                    /\ proc[v].op # "resetPassword"
    BY <1>0, <1>5, SomethingGoesOn DEF Step
  <2>2. \A v \in Workers : v # w => proc[v].at \notin {"password", "delToken"}
    BY <2>1 DEF HandlersInv, Shape
  <2>3. Held = {} /\ Doomed = {} /\ ~Relief /\ Asking = {} /\ Resetting = {w}
    BY <1>0, <2>1, <2>2 DEF Held, Doomed, Relief, Relieves, Asking, Resetting, At
  <2>4. Counted = Live /\ Cardinality(Asking) = 0 /\ Cardinality(Resetting) = 1
    BY <2>3, FS_EmptySet, FS_Singleton DEF Counted
  <2>5. Cardinality(Live) + 0 + 1 <= disturbed + 1 + 0
    BY <1>3, <2>3, <2>4 DEF TokensInv
  <2>6. Cardinality(Live' \ {active'.v}) <= Cardinality(Live) /\ Cardinality(Live) \in Nat
    BY <1>1, TokenSets, AtMost
  <2>7. Cardinality(Live' \ {active'.v}) \in Nat
    <3>1. IsFiniteSet(Live' \ {active'.v})
      BY PrimedTokenSets, FS_RemoveElement
    <3>. QED  BY <3>1, FS_CardinalityType
  <2>8. Cardinality(Live' \ {active'.v}) <= disturbed'
    BY <1>0, <2>5, <2>6, <2>7
  <2>. QED  BY <1>5, <2>8 DEF TokensInv
<1>. QED  BY <1>4, <1>5

LEMMA TokenStepsKeepTokens ==
    ASSUME TypeOK, HandlersInv, TokensInv, NEW w \in Workers, TokenStep(w)
    PROVE  TokensInv'
<1>0. TypeOK' /\ Step(w)
  BY TokenStepsType DEF OfTokens
<1>1. CASE ForgotPassword(w)
  BY <1>0, <1>1, ForgotPasswordKeepsTokens
<1>2. CASE ReadActive(w)
  BY <1>0, <1>2, ReadActiveKeepsTokens
<1>3. CASE DropOldToken(w)
  BY <1>0, <1>3, DropOldTokenKeepsTokens
<1>4. CASE \E t \in Tokens : SetToken(w, t)
  BY <1>0, <1>4, SetTokenKeepsTokens
<1>5. CASE SetActive(w)
  BY <1>0, <1>5, SetActiveKeepsTokens
<1>6. CASE ReadLimit(w)
  <2> DEFINE record == [proc[w] EXCEPT !.at = "limit", !.n = limit.v]
  <2>1. record.at = "limit" /\ record.op = proc[w].op
    BY DEF TypeOK, Proc
  <2>2. proc'[w].at = "limit" /\ proc'[w].op = proc[w].op /\ proc[w].at = "attempts"
    BY <1>6, <2>1 DEF ReadLimit, Become, TypeOK, At
  <2>. QED  BY <1>0, <1>6, <2>2, NothingMoves DEF ReadLimit, keys, Past
<1>7. CASE SetLimit(w)
  <2>1. proc'[w].at = "idle" /\ proc'[w].op = "none" /\ proc[w].at = "limit"
    BY <1>7, Ends, IdleType DEF SetLimit, At
  <2>2. proc[w].op = "forgotPassword"
    BY <2>1 DEF HandlersInv, Shape
  <2>. QED  BY <1>0, <1>7, <2>1, <2>2, NothingMoves DEF SetLimit, Past
<1>8. CASE \E t \in Tokens : ResetPassword(w, t)
  BY <1>0, <1>8, ResetPasswordKeepsTokens
<1>9. CASE SavePassword(w)
  <2>1. Carried(w, "delToken") /\ proc[w].at = "password"
    BY <1>9, Moves DEF SavePassword, Stages, At
  <2>. QED  BY <1>0, <1>9, <2>1, NothingMoves DEF SavePassword, keys, Carried
<1>10. CASE DelToken(w)
  BY <1>0, <1>10, DelTokenKeepsTokens
<1>11. CASE DelActive(w)
  BY <1>0, <1>11, DelActiveKeepsTokens
<1>. QED  BY <1>1, <1>2, <1>3, <1>4, <1>5, <1>6, <1>7, <1>8, <1>9, <1>10, <1>11 DEF TokenStep

LEMMA FailKeepsTokens ==
    ASSUME TypeOK, TypeOK', HandlersInv, TokensInv, NEW w \in Workers, Fail(w)
    PROVE  TokensInv'
<1> DEFINE t == proc[w].t
<1>0. /\ Step(w) /\ UNCHANGED <<token, active>> /\ disturbed' = disturbed + 1
      /\ proc'[w].at = "idle" /\ proc'[w].op = "none" /\ proc'[w].t = NoToken
  BY FailIs, IdleType DEF keys
<1> disturbed \in Nat /\ disturbed' \in Nat /\ Shape(proc[w])
  BY AccountAssumption DEF TypeOK, HandlersInv
<1>1. Live' = Live /\ Held' \subseteq Held /\ Held \subseteq Held' \cup {t}
  BY <1>0 DEF Live, Held, At, Step
<1>2. CASE Quiet
  <2>1. Quiet'
    BY <1>0, <1>2, SomethingGoesOn DEF Step
  <2>2. Cardinality(Live \ {active.v}) <= disturbed
    BY <1>2 DEF TokensInv
  <2>3. Cardinality(Live \ {active.v}) \in Nat
    <3>1. IsFiniteSet(Live \ {active.v})
      BY TokenSets, FS_RemoveElement
    <3>. QED  BY <3>1, FS_CardinalityType
  <2>4. Cardinality(Live' \ {active'.v}) <= disturbed'
    BY <1>0, <1>1, <2>2, <2>3
  <2>. QED  BY <2>1, <2>4 DEF TokensInv
<1>3. CASE ~Quiet /\ ~Quiet' /\ proc[w].at \in {"old", "dropOld", "token"}
  <2>0. proc[w].op # "resetPassword"
    BY <1>3 DEF Shape
  <2>1. Held' = Held /\ Doomed' = Doomed
    BY <1>0, <1>3, AsideSets
  <2>2. Counted' = Counted
    BY <1>1, <2>1 DEF Counted
  <2>3. /\ Cardinality(Counted') <= Cardinality(Counted) + 0
        /\ Cardinality(Asking') <= Cardinality(Asking) + (-1)
        /\ Cardinality(Resetting') <= Cardinality(Resetting) + 0
    BY <1>0, <1>3, <2>0, <2>2, RequestsMove, TokenSets DEF Shifts
  <2>4. disturbed' >= disturbed + 1 /\ 0 + (-1) + 0 + 1 <= 1
    BY <1>0
  <2>. QED  BY <1>3, <2>3, <2>4, Balance
<1>4. CASE ~Quiet /\ ~Quiet' /\ At(w, "active")
  <2>0. proc[w].op # "resetPassword" /\ t \in Held /\ Apart(w)
    BY <1>4 DEF Shape, At, Held, HandlersInv
  <2>1. Doomed \subseteq Doomed' /\ Doomed' \subseteq Doomed \cup {t}
    BY <1>0, <1>1, <1>4 DEF Doomed, At, Step
  <2>2. Counted' \subseteq Counted
    <3>1. Held \cap Doomed = {}
      BY DEF Doomed
    <3>. QED  BY <1>1, <2>0, <2>1, <3>1 DEF Counted
  <2>3. \A v \in Workers : Relieves(v) => Relieves(v)'
    <3> SUFFICES ASSUME NEW v \in Workers, Relieves(v)
                 PROVE  Relieves(v)'
      OBVIOUS
    <3>1. v # w /\ proc'[v] = proc[v]
      BY <1>0, <1>4 DEF Relieves, At, Step
    <3> DEFINE x == IF proc[v].at = "old" THEN active.v ELSE proc[v].t
    <3>2. x \in Live \ Doomed /\ x # t
      BY <1>4, <2>0, <3>1 DEF Relieves, Apart, At
    <3>3. x \in Live' \ Doomed'
      BY <1>1, <2>1, <3>2
    <3>. QED  BY <1>0, <3>1, <3>3 DEF Relieves, At
  <2>4. Relief => Relief'
    BY <2>3 DEF Relief
  <2>5. /\ Cardinality(Asking') <= Cardinality(Asking)
        /\ Cardinality(Resetting') <= Cardinality(Resetting)
    BY <1>0, <1>4, <2>0, RequestsMove DEF Shifts, At
  <2>6. Cardinality(Counted') <= Cardinality(Counted) /\ disturbed' >= disturbed
    BY <1>0, <2>2, AtMost, TokenSets
  <2>. QED  BY <1>4, <2>4, <2>5, <2>6, BalanceStands
<1>5. CASE ~Quiet /\ ~Quiet' /\ proc[w].op = "resetPassword"
  <2>0. proc[w].at \in {"password", "delToken", "delActive"}
    BY <1>5 DEF Shape
  <2>1. Held' = Held
    BY <1>0, <2>0 DEF Held, At, Step
  <2>2. Doomed' \subseteq Doomed /\ Doomed \subseteq Doomed' \cup {t}
    BY <1>0, <2>1 DEF Doomed, Step
  <2>3. Counted' \subseteq Counted \cup {t}
    BY <1>1, <2>1, <2>2 DEF Counted
  <2>4. \A v \in Workers : Relieves(v) => Relieves(v)'
    BY <1>0, <1>1, <2>0, <2>2 DEF Relieves, At, Step
  <2>5. Relief => Relief'
    BY <2>4 DEF Relief
  <2>6. Cardinality(Counted') <= Cardinality(Counted) + 1
    BY <2>3, AtMost, TokenSets
  <2>7. /\ Cardinality(Asking') <= Cardinality(Asking)
        /\ Cardinality(Resetting') <= Cardinality(Resetting) + (-1)
    BY <1>0, <1>5, <2>0, RequestsMove DEF Shifts
  <2>8. disturbed' >= disturbed + 0
    BY <1>0 DEF TypeOK
  <2>. QED  BY <1>5, <2>5, <2>6, <2>7, <2>8, BalanceOfReset
<1>6. CASE /\ ~Quiet /\ ~Quiet' /\ proc[w].op # "resetPassword"
           /\ proc[w].at \notin {"old", "dropOld", "token", "active"}
  <2>0. proc[w].at \notin {"password", "delToken", "delActive"}
    BY <1>6 DEF Shape
  <2>1. Held' = Held /\ Doomed' = Doomed
    BY <1>0, <1>6, <2>0, AsideSets
  <2>2. Counted' = Counted /\ \A v \in Workers : Relieves(v) => Relieves(v)'
    BY <1>0, <1>1, <1>6, <2>1 DEF Counted, Relieves, At, Step
  <2>3. Relief => Relief'
    BY <2>2 DEF Relief
  <2>4. /\ Cardinality(Asking') <= Cardinality(Asking)
        /\ Cardinality(Resetting') <= Cardinality(Resetting)
        /\ Cardinality(Counted') <= Cardinality(Counted) /\ disturbed' >= disturbed
    BY <1>0, <1>6, <2>2, RequestsMove, TokenSets DEF Shifts
  <2>. QED  BY <1>6, <2>3, <2>4, BalanceStands
<1>7. CASE ~Quiet /\ Quiet'
  <2>1. \A v \in Workers : v # w => /\ proc[v].at \notin {"old", "dropOld", "token", "active"}
                                    /\ proc[v].op # "resetPassword"
    BY <1>0, <1>7, SomethingGoesOn DEF Step
  <2>2. \A v \in Workers : v # w => proc[v].at \notin {"password", "delToken"}
    BY <2>1 DEF HandlersInv, Shape
  <2>3. \/ proc[w].at \in {"old", "dropOld", "token", "active"}
        \/ proc[w].op = "resetPassword"
    BY <1>7, <2>1, SomethingGoesOn
  <2>4. Cardinality(Counted) + Cardinality(Asking) + Cardinality(Resetting)
            <= disturbed + 1 + (IF Relief THEN 1 ELSE 0)
    BY <1>7 DEF TokensInv
  <2>5. /\ Cardinality(Counted) \in Nat /\ Cardinality(Asking) \in Nat
        /\ Cardinality(Resetting) \in Nat /\ Cardinality(Live) \in Nat
    BY TokenSets
  <2>6. Cardinality(Live) <= disturbed + 1
    <3>1. CASE proc[w].at \in {"old", "dropOld", "token"}
      <4>1. Doomed = {} /\ Live \subseteq Counted
        BY <2>2, <3>1 DEF Doomed, Counted
      <4>2. w \in Asking
        BY <3>1 DEF Asking
      <4>3. Cardinality(Asking) >= 1
        BY <2>5, <4>2, TokenSets, FS_EmptySet
      <4>4. Cardinality(Live) <= Cardinality(Counted)
        BY <4>1, AtMost, TokenSets
      <4>. QED  BY <2>4, <2>5, <4>3, <4>4
    <3>2. CASE proc[w].at = "active"
      <4>1. Doomed = {} /\ Live \subseteq Counted
        BY <2>2, <3>2 DEF Doomed, Counted
      <4>2. ~Relief
        BY <2>1, <3>2 DEF Relief, Relieves, At
      <4>3. Cardinality(Live) <= Cardinality(Counted)
        BY <4>1, AtMost, TokenSets
      <4>. QED  BY <2>4, <2>5, <4>2, <4>3
    <3>3. CASE proc[w].op = "resetPassword"
      <4>1. ~Relief
        BY <2>1, <3>3 DEF Relief, Relieves, At, Shape
      <4>2. w \in Resetting
        BY <3>3 DEF Resetting
      <4>3. Cardinality(Resetting) >= 1
        BY <2>5, <4>2, TokenSets, FS_EmptySet
      <4>4. Live \subseteq Counted \cup {t}
        BY <2>2 DEF Doomed, Counted
      <4>5. Cardinality(Live) <= Cardinality(Counted) + 1
        BY <4>4, AtMost, TokenSets
      <4>. QED  BY <2>4, <2>5, <4>1, <4>3, <4>5
    <3>. QED  BY <2>3, <3>1, <3>2, <3>3
  <2>7. Cardinality(Live' \ {active'.v}) <= Cardinality(Live)
    BY <1>1, AtMost, TokenSets
  <2>8. Cardinality(Live' \ {active'.v}) \in Nat
    <3>1. IsFiniteSet(Live' \ {active'.v})
      BY PrimedTokenSets, FS_RemoveElement
    <3>. QED  BY <3>1, FS_CardinalityType
  <2>9. Cardinality(Live' \ {active'.v}) <= disturbed'
    BY <1>0, <2>5, <2>6, <2>7, <2>8
  <2>. QED  BY <1>7, <2>9 DEF TokensInv
<1>. QED  BY <1>2, <1>3, <1>4, <1>5, <1>6, <1>7 DEF At

LEMMA TickKeepsTokens ==
    ASSUME TypeOK, TypeOK', HandlersInv, TokensInv, Tick
    PROVE  TokensInv'
<1> disturbed \in Nat /\ disturbed' \in Nat
  BY AccountAssumption DEF TypeOK
<1>0. /\ proc' = proc /\ disturbed' = disturbed
      /\ active'.v = active.v \/ active'.v = NoToken
      /\ active.v # NoToken /\ active'.v = NoToken => ~There(token'[active.v])
  BY TickKeepsHandlers DEF Tick, Past
<1>1. Live' \subseteq Live
  <2>1. \A t \in Tokens : token'[t] = Older(token[t]) /\ token[t].left \in Nat
    BY AccountAssumption DEF Tick, TypeOK
  <2>. QED  BY <2>1, OlderKeys DEF Live, There
<1>2. /\ Held' = Held /\ Doomed' = Doomed /\ Asking' = Asking /\ Resetting' = Resetting
      /\ (Quiet' <=> Quiet) /\ Held \cap Doomed = {}
  BY <1>0 DEF Held, Doomed, Asking, Resetting, Holding, Quiet, At
<1>3. active.v \in Live' => active'.v = active.v
  BY <1>0, AccountAssumption DEF Live, There, NoToken
<1>4. CASE Quiet
  <2>1. Live' \ {active'.v} \subseteq Live \ {active.v}
    BY <1>1, <1>3
  <2>2. Cardinality(Live \ {active.v}) <= disturbed
    BY <1>4 DEF TokensInv
  <2>3. IsFiniteSet(Live \ {active.v})
    BY TokenSets, FS_RemoveElement
  <2>4. /\ Cardinality(Live' \ {active'.v}) <= Cardinality(Live \ {active.v})
        /\ Cardinality(Live \ {active.v}) \in Nat /\ Cardinality(Live' \ {active'.v}) \in Nat
    BY <2>1, <2>3, AtMost
  <2>5. Cardinality(Live' \ {active'.v}) <= disturbed'
    BY <1>0, <2>2, <2>4
  <2>. QED  BY <1>2, <1>4, <2>5 DEF TokensInv
<1>5. CASE ~Quiet
  <2>1. Counted' \subseteq Counted
    BY <1>1, <1>2 DEF Counted
  <2>2. /\ Cardinality(Asking') <= Cardinality(Asking) + 0
        /\ Cardinality(Resetting') <= Cardinality(Resetting) + 0
        /\ disturbed' >= disturbed + 0
    BY <1>0, <1>2, TokenSets
  <2>3. CASE Relief => Relief'
    <3>1. Cardinality(Counted') <= Cardinality(Counted)
      BY <2>1, AtMost, TokenSets
    <3>2. /\ Cardinality(Asking') <= Cardinality(Asking)
          /\ Cardinality(Resetting') <= Cardinality(Resetting)
          /\ disturbed' >= disturbed
      BY <1>0, <1>2, TokenSets
    <3>. QED  BY <1>2, <1>5, <2>3, <3>1, <3>2, BalanceStands
  <2>4. CASE Relief /\ ~Relief'
    <3>1. PICK v \in Workers : Relieves(v)
      BY <2>4 DEF Relief
    <3> DEFINE x == IF proc[v].at = "old" THEN active.v ELSE proc[v].t
    <3>2. x \in Live \ Doomed
      BY <3>1 DEF Relieves, At
    <3>3. x \notin Live'
      <4>1. ~Relieves(v)'
        BY <2>4 DEF Relief
      <4>. QED  BY <1>0, <1>2, <1>3, <3>1, <3>2, <4>1 DEF Relieves, At
    <3>4. x \notin Held
      BY <3>1 DEF Held, Relieves, At, HandlersInv, Apart
    <3>5. Counted' \subseteq Counted \ {x} /\ x \in Counted
      BY <1>2, <2>1, <3>2, <3>3, <3>4 DEF Counted
    <3>6. Cardinality(Counted') <= Cardinality(Counted) + (-1)
      <4>1. Cardinality(Counted') <= Cardinality(Counted) - 1 /\ Cardinality(Counted) \in Nat
        BY <3>5, AtMost, TokenSets
      <4>. QED  BY <4>1, PrimedTokenSets
    <3>7. (-1) + 0 + 0 + 1 <= 0
      OBVIOUS
    <3>. QED  BY <1>2, <1>5, <2>2, <3>6, <3>7, Balance
  <2>. QED  BY <2>3, <2>4
<1>. QED  BY <1>4, <1>5

-----------------------------------------------------------------------------
(* What the sums say of the codes and of the tokens. *)

LEMMA DoomedByResets == HandlersInv => Cardinality(Doomed) <= Cardinality(Resetting)
<1> SUFFICES ASSUME HandlersInv
             PROVE  Cardinality(Doomed) <= Cardinality(Resetting)
  OBVIOUS
<1> DEFINE Culprits == {w \in Resetting : proc[w].t \in Doomed}
           f == [w \in Culprits |-> proc[w].t]
<1>1. IsFiniteSet(Culprits) /\ Cardinality(Culprits) <= Cardinality(Resetting)
  BY FS_Subset, TokenSets
<1>2. \A t \in Doomed : \E w \in Culprits : f[w] = t
  <2> SUFFICES ASSUME NEW t \in Doomed
               PROVE  \E w \in Culprits : f[w] = t
    OBVIOUS
  <2>1. PICK w \in Workers : proc[w].at \in {"password", "delToken"} /\ proc[w].t = t
    BY DEF Doomed
  <2>2. w \in Culprits
    BY <2>1 DEF HandlersInv, Shape, Resetting
  <2>. QED  BY <2>1, <2>2
<1>3. f \in Surjection(Culprits, Doomed)
  BY <1>2 DEF Surjection
<1>4. Cardinality(Doomed) <= Cardinality(Culprits)
  BY <1>1, <1>3, FS_Surjection
<1>5. Cardinality(Culprits) \in Nat
  BY <1>1, FS_CardinalityType
<1>. QED  BY <1>1, <1>4, <1>5, TokenSets

LEMMA LiveAreFew ==
    ASSUME TypeOK, HandlersInv, TokensInv
    PROVE  Cardinality(Live) <= 1 + disturbed
<1> disturbed \in Nat
  BY AccountAssumption DEF TypeOK
<1>1. CASE Quiet
  <2>1. Cardinality(Live) <= disturbed + Bump(active.v \in Live) /\ Cardinality(Live) \in Nat
    BY <1>1, QuietSets, TokenSets
  <2>. QED  BY <2>1 DEF Bump
<1>2. CASE ~Quiet
  <2>1. /\ IsFiniteSet(Counted \cup Doomed) /\ Counted \cap Doomed = {}
        /\ Cardinality(Counted \cup Doomed) = Cardinality(Counted) + Cardinality(Doomed)
    BY Disjoint, TokenSets DEF Counted
  <2>2. Cardinality(Live) <= Cardinality(Counted) + Cardinality(Doomed)
    <3>1. Live \subseteq Counted \cup Doomed
      BY DEF Counted
    <3>2. Cardinality(Live) <= Cardinality(Counted \cup Doomed)
      BY <2>1, <3>1, FS_Subset
    <3>. QED  BY <2>1, <3>2
  <2>3. Cardinality(Doomed) <= Cardinality(Resetting)
    BY DoomedByResets
  <2>4. Relief => Cardinality(Asking) >= 1
    <3>1. Relief => Asking # {}
      BY DEF Relief, Relieves, Asking, At
    <3>. QED  BY <3>1, TokenSets, FS_EmptySet
  <2>5. Cardinality(Counted) + Cardinality(Asking) + Cardinality(Resetting)
            <= disturbed + 1 + (IF Relief THEN 1 ELSE 0)
    BY <1>2 DEF TokensInv
  <2>. QED  BY <2>2, <2>3, <2>4, <2>5, TokenSets
<1>. QED  BY <1>1, <1>2

LEMMA GuessesAreFew == TypeOK /\ GuessesInv => GuessesAreBounded
<1> SUFFICES ASSUME TypeOK, GuessesInv, NEW c \in 1..MaxCodes
             PROVE  guesses[c] <= MaxAttempts + (Cardinality(Workers) - 1) + disturbed
  BY DEF GuessesAreBounded
<1>1. guesses[c] \in Nat /\ disturbed \in Nat /\ MaxAttempts \in Nat
  BY AccountAssumption DEF TypeOK
<1>2. CurrentCode(c) => FormerCode(c)
  BY CurrentThenFormer
<1>3. FormerCode(c)
  BY <1>2 DEF GuessesInv
<1>. QED  BY <1>1, <1>3, GuessSets DEF FormerCode

LEMMA TokensAreFew ==
    TypeOK /\ HandlersInv /\ UsesInv /\ TokensInv => ResetTokensAreSingle
<1> SUFFICES ASSUME TypeOK, HandlersInv, UsesInv, TokensInv
             PROVE  ResetTokensAreSingle
  OBVIOUS
<1>1. Cardinality({t \in Tokens : There(token[t])}) <= 1 + disturbed
  BY LiveAreFew DEF Live
<1>2. ASSUME NEW t \in Tokens
      PROVE  uses[t] <= 1 + disturbed
  <2>0. uses[t] \in Nat /\ disturbed \in Nat
    BY AccountAssumption DEF TypeOK
  <2>1. \/ uses[t] + Cardinality(Using(t)) <= disturbed + 1
        \/ uses[t] + Cardinality(Using(t)) <= disturbed + 0
    BY DEF UsesInv
  <2>2. Cardinality(Using(t)) \in Nat
    <3>1. Using(t) \subseteq Workers
      BY DEF Using
    <3>. QED  BY <3>1, AtMost, AccountAssumption
  <2>. QED  BY <2>0, <2>1, <2>2
<1>. QED  BY <1>1, <1>2 DEF ResetTokensAreSingle

-----------------------------------------------------------------------------
(* The invariant, and the theorems. *)

Inv == TypeOK /\ HandlersInv /\ GuessesInv /\ UsesInv /\ TokensInv

LEMMA InitInv == Init => Inv
<1> SUFFICES ASSUME Init
             PROVE  Inv
  OBVIOUS
<1>0. /\ \A w \in Workers : proc[w] = Idle
      /\ Idle.at = "idle" /\ Idle.op = "none" /\ Idle.t = NoToken
      /\ disturbed = 0 /\ codes = 0 /\ otp.left = 0 /\ attempts.v = 0 /\ active.v = NoToken
      /\ active.left = 0
      /\ MaxAttempts \in Nat \ {0} /\ MaxCodes \in Nat
  BY IdleType, AccountAssumption DEF Init, Absent
<1>1. TypeOK
  <2>1. Absent \in Key /\ Absent \in [v : 0..MaxCodes, left : 0..OtpTtl]
        /\ Absent \in [v : 0..MaxResends, left : 0..ResendTtl]
        /\ Absent \in [v : 0..1, left : 0..ResetTtl]
    BY AccountAssumption DEF Absent, Key
  <2>2. [v |-> NoToken, left |-> 0] \in [v : Tokens \cup {NoToken}, left : 0..ResetTtl]
    BY AccountAssumption
  <2>3. 0 \in 0..MaxDisturbed /\ 0 \in 0..MaxCodes
    BY AccountAssumption
  <2>. QED  BY <2>1, <2>2, <2>3, IdleType DEF Init, TypeOK
<1>2. HandlersInv
  BY <1>0 DEF HandlersInv, Shape, Apart, ActiveInv, At, There
<1>3. GuessesInv
  <2>1. ASSUME NEW c \in 1..MaxCodes
        PROVE  guesses[c] = 0 /\ ~Current(c) /\ FormerCode(c)
    <3>1. guesses[c] = 0 /\ ~Current(c) /\ Comparing(c) = {}
      BY <1>0 DEF Init, Current, There, Comparing, At
    <3>2. Cardinality(Comparing(c)) = 0
      BY <3>1, FS_EmptySet
    <3>. QED  BY <1>0, <3>1, <3>2, GuessSets DEF FormerCode
  <2>2. \A w \in Workers : Stored(w)
    BY <1>0 DEF Stored
  <2>3. attempts.v <= MaxAttempts - 1 + Cardinality(Dropping) + disturbed
    BY <1>0, GuessSets
  <2>. QED  BY <1>0, <2>1, <2>2, <2>3 DEF GuessesInv, There
<1>4. UsesInv
  <2> SUFFICES ASSUME NEW t \in Tokens
               PROVE  uses[t] + Cardinality(Using(t)) <=
                         disturbed + (IF There(token[t]) /\ Deleting(t) = {} THEN 0 ELSE 1)
    BY DEF UsesInv
  <2>1. uses[t] = 0 /\ token[t].left = 0 /\ Using(t) = {}
    BY <1>0 DEF Init, Absent, Using, At
  <2>2. Cardinality(Using(t)) = 0
    BY <2>1, FS_EmptySet
  <2>. QED  BY <1>0, <2>1, <2>2 DEF There
<1>5. TokensInv
  <2>1. Quiet
    BY <1>0 DEF Quiet, Asking, Holding, Resetting, At
  <2>2. Live \ {active.v} = {}
    BY DEF Init, Live, There, Absent
  <2>. QED  BY <1>0, <2>1, <2>2, FS_EmptySet DEF TokensInv
<1>. QED  BY <1>1, <1>2, <1>3, <1>4, <1>5 DEF Inv

LEMMA StepInv == Inv /\ [Next]_vars => Inv'
<1> SUFFICES ASSUME Inv, [Next]_vars
             PROVE  Inv'
  OBVIOUS
<1>0. TypeOK /\ HandlersInv /\ GuessesInv /\ UsesInv /\ TokensInv
  BY DEF Inv
<1>1. CASE UNCHANGED vars
  <2>1. TypeOK' /\ HandlersInv'
    BY <1>0, <1>1 DEF TypeOK, HandlersInv, Shape, Apart, ActiveInv, At, There, vars, keys
  <2>2. GuessesInv'
    BY <1>0, <1>1 DEF GuessesInv, Stored, Current, CurrentCode, FormerCode, Comparing, Counting,
                      Dropping, At, There, vars, keys
  <2>3. UsesInv'
    BY <1>0, <1>1 DEF UsesInv, Using, Deleting, At, There, vars, keys
  <2>4. TokensInv'
    BY <1>0, <1>1 DEF TokensInv, Quiet, Live, Asking, Holding, Held, Resetting, Doomed, Counted,
                      Relieves, Relief, At, There, vars, keys
  <2>. QED  BY <2>1, <2>2, <2>3, <2>4 DEF Inv
<1>2. CASE Tick
  BY <1>0, <1>2, TickType, TickKeepsHandlers, TickKeepsGuesses, TickKeepsUses, TickKeepsTokens
     DEF Inv
<1>3. ASSUME NEW w \in Workers, CodeStep(w)
      PROVE  Inv'
  <2>1. TypeOK' /\ OfCodes(w)
    BY <1>0, <1>3, CodeStepsType
  <2>. QED  BY <1>0, <1>3, <2>1, CodeStepsKeepHandlers, CodeStepsKeepGuesses, CodeStepsKeepUses,
               CodeStepsKeepTokens DEF Inv
<1>4. ASSUME NEW w \in Workers, TokenStep(w)
      PROVE  Inv'
  BY <1>0, <1>4, TokenStepsType, TokenStepsKeepHandlers, TokenStepsKeepGuesses,
     TokenStepsKeepUses, TokenStepsKeepTokens DEF Inv
<1>5. ASSUME NEW w \in Workers, Fail(w)
      PROVE  Inv'
  <2>1. TypeOK'
    BY <1>0, <1>5, FailIs
  <2>. QED  BY <1>0, <1>5, <2>1, FailKeepsHandlers, FailKeepsGuesses, FailKeepsUses,
               FailKeepsTokens DEF Inv
<1>. QED  BY <1>1, <1>2, <1>3, <1>4, <1>5, StepsAre

\* The invariant above holds throughout: what every request holds, and the
\* balances of the guesses at a code, of the uses of a token and of the tokens.
THEOREM AccountsInvariant == Spec => []Inv
  BY InitInv, StepInv, PTL DEF Spec

\* The counters and codes in Redis, the tokens and what handlers hold keep
\* their domains, however the handlers are interleaved, lost or timed out.
THEOREM TypeCorrect == Spec => []TypeOK
<1>1. Inv => TypeOK
  BY DEF Inv
<1>. QED  BY <1>1, AccountsInvariant, PTL

\* A code stands no more wrong guesses than it has attempts, but for one of each
\* other handler that has read it, and of each that was lost (validateOtp).
THEOREM GuessesBounded == Spec => []GuessesAreBounded
<1>1. Inv => GuessesAreBounded
  BY GuessesAreFew DEF Inv
<1>. QED  BY <1>1, AccountsInvariant, PTL

\* An account has one reset token that works, and a token sets a password once,
\* but for one more with each recovery that is lost or runs beside another one.
THEOREM TokensSingle == Spec => []ResetTokensAreSingle
<1>1. Inv => ResetTokensAreSingle
  BY TokensAreFew DEF Inv
<1>. QED  BY <1>1, AccountsInvariant, PTL
=============================================================================
