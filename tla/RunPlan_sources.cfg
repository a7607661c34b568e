\* A list of one target and another source beside it.
SPECIFICATION Spec
CONSTANTS
    Verbs = {"guarded"}
    MaxTargets = 2
    MoreSources = TRUE
    MayEdit = FALSE
    MayWatch = FALSE
    HasStart = FALSE
    Loops = 1
    HasPre = TRUE
    HasPost = TRUE
    HasExport = TRUE
    DayLen = 4
    Horizon = 16
    MaxDelay = 1
    Change = 9
INVARIANT UnconfirmedHitsOne
