SPECIFICATION SFSpec
CONSTANTS
    Terminals = {t1}
    Secrets = {s1}
    Policies <- AllPolicies
    NoSecret = NoSecret
    NoPolicy = NoPolicy
    MaxTime = 6
INVARIANTS
    KeyDecides
    PromptCodeAccepted
    OtherCodesRefused
