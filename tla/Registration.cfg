SPECIFICATION RegSpec
CONSTANTS
    Terminals = {t1, t2}
    Typed <- Inputs
    Names = {"ann", "longest"}
    Normalized <- Lower
    NameLength <- Lengths
    SafeNames = {"ann", "longest"}
    pw1 = pw1
    pw2 = pw2
    Passwords = {pw1, pw2}
    PasswordLength <- Sizes
    Utf8Passwords = {pw1, pw2}
    Ids = {i1, i2, i3}
    MinName = 3
    MaxName = 60
    MinPassword = 8
    MaxPassword = 72
    Failing = {"postgres", "crypto"}
    NoName = NoName
    NoPassword = NoPassword
    NoId = NoId
SYMMETRY RegSymmetry
INVARIANTS
    OneAccountPerName
PROPERTIES
    OwnPasswordOpens
    RegistryImplemented
