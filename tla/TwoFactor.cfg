SPECIFICATION Spec
CONSTANTS
    Terminals = {t1, t2}
    Users = {alice}
    Tokens = {k1, k2}
    Secrets = {s1, s2}
    ChallengeIds = {c1}
    NoUser = NoUser
    NoToken = NoToken
    NoSecret = NoSecret
    NoChallenge = NoChallenge
    MaxAttempts = 2
    LockoutMicros = 2500
    SessionTimeout = 2
    ChallengeTimeout = 2
    SetupTimeout = 2
    MaxTime = 3
    Commands = {"login", "whoami", "enable-2fa", "disable-2fa"}
    Unreliable = {"postgres", "crypto"}
SYMMETRY Symmetry
INVARIANTS
    SetupIndexConsistent
    DialogOwnsSetup
PROPERTIES
    SecondFactorRequired
    EnrolledSecretConfirmed
    RemovalVerified
    TokenKept
