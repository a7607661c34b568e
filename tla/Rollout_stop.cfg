\* StopOnError over a canary and waves.
SPECIFICATION Spec
CONSTANTS
    NTargets = 4
    Cap = 1
    StopOnError = TRUE
    MaxStage = 2
INVARIANT StopOnErrorCarries
