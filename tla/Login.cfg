SPECIFICATION Spec
CONSTANTS
    Terminals = {t1, t2}
    Users = {alice}
    Tokens = {k1, k2}
    Secrets = {s1}
    ChallengeIds = {c1}
    NoUser = NoUser
    NoToken = NoToken
    NoSecret = NoSecret
    NoChallenge = NoChallenge
    MaxAttempts = 2
    LockoutMicros = 2500
    SessionTimeout = 3
    ChallengeTimeout = 2
    SetupTimeout = 2
    MaxTime = 4
    Commands = {"login", "whoami", "logout"}
    Unreliable = {"postgres", "redis", "crypto"}
SYMMETRY Symmetry
INVARIANTS
    TypeOK
    CommandContext
    ChallengeOnlyInDialog
    SessionIsolation
PROPERTIES
    EarlyUnblockOnlyByRacer
    CountClearedByFullLogin
    LockoutImplemented
    SessionTableImplemented
