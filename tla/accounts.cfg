SPECIFICATION Spec
CONSTANTS
    w1 = w1
    w2 = w2
    t1 = t1
    t2 = t2
    t3 = t3
    Tokens = {t1, t2, t3}
    OtpTtl = 1
    ResendTtl = 2
    ResetTtl = 2
    LimitTtl = 2
    MaxAttempts = 2
    MaxResends = 1
    MaxResetAttempts = 2
    Workers = {w1, w2}
    MaxCodes = 2
    MaxDisturbed = 1
SYMMETRY AlikeSlots
INVARIANT TypeOK
INVARIANT GuessesAreBounded
INVARIANT ResetTokensAreSingle
CHECK_DEADLOCK FALSE
