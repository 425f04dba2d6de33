SPECIFICATION RCFairSpec
CONSTANTS
    Users = {alice, bob}
    Calls = {c1, c2, c3}
    MaxAttempts = 3
    MaxRetries = 1
    LockoutMicros = 2500
    MaxTime = 4
INVARIANTS
    RCTypeOK
    CounterSound
    MaxAttemptsBlocks
    BlockedOnlyAtLimit
    BlockNeedsWrongPasswords
    CountedLimitBlocks
PROPERTIES
    BlockWindowFixed
    BlocksLapse
