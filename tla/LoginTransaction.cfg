SPECIFICATION LTFairSpec
CONSTANTS
    alice = alice
    Users = {alice}
    Logins = {a1, a2, a3}
    Owner <- OneOwner
    NoLogin = NoLogin
    MaxTime = 3
INVARIANTS
    LTTypeOK
    PreviousLoginShown
PROPERTIES
    LoginHistoryImplemented
    FinalizeLoginEnds
CHECK_DEADLOCK FALSE
