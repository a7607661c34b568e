\* Every verb on any sources, bounded and endless, the list edited once, the start
\* delayed: days of five hours, the clocks may be changed in the third.
SPECIFICATION Spec
CONSTANTS
    Verbs = {"plain", "guarded", "ldapset", "gather", "provision"}
    MaxTargets = 2
    MoreSources = TRUE
    MayEdit = TRUE
    MayWatch = TRUE
    HasStart = TRUE
    Loops = 2
    HasPre = TRUE
    HasPost = TRUE
    HasExport = TRUE
    DayLen = 5
    Horizon = 20
    MaxDelay = 2
    Change = 11
INVARIANTS
    ExitZeroMeansClean
    ListIsConfirmed
    StartIsRight
