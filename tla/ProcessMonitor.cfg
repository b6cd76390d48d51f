SPECIFICATION FairSpec
CONSTANTS
    MaxRestarts = 2
    LongRuns = 1
    Threshold = 2
    Checks <- TwoChecks
INVARIANTS
    TypeOK
    OneChild
    StoppedMeansDead
    RestartsBounded
    OnlyRestartsSurvive
PROPERTIES
    ShutdownEnds
    CrashRestarted
    Supervises
CHECK_DEADLOCK FALSE
