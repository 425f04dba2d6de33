SPECIFICATION LSSpec
CONSTANTS
    Users = {u1, u2}
    MaxAttempts = 3
    LockoutMicros = 500
    MaxTime = 4
INVARIANT MaxAttemptsBlocks
