SPECIFICATION FairSpec
CONSTANTS
    Terminals = {t1, t2}
    Users = {alice}
    Tokens = {k1, k2}
    Secrets = {s1}
    ChallengeIds = {c1}
    NoUser = NoUser
    NoToken = NoToken
    NoSecret = NoSecret
    NoChallenge = NoChallenge
    MaxAttempts = 2
    LockoutMicros = 2500
    SessionTimeout = 2
    ChallengeTimeout = 1
    SetupTimeout = 1
    MaxTime = 3
    Commands = {"login", "enable-2fa"}
    Unreliable = {}
PROPERTIES
    LoginDialogEnds
    SetupDialogEnds
