SPECIFICATION CfgSpec
CONSTANTS
    Environments <- SomeEnvironments
    EnvFiles <- SomeFiles
INVARIANTS
    RunsAsAsked
    EnvFilePrecedence
CHECK_DEADLOCK FALSE
