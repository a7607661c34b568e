\* Two loops or endless ones, plain or staged, with wait, pre- and post-command,
\* through a channel of three.
SPECIFICATION FairSpec
CONSTANTS
    NTargets = 3
    Cap = 2
    StopOnError = FALSE
    DryRun = FALSE
    MaxStage = 2
    Stages <- PlainOrStaged
    Loops = 2
    HasWait = TRUE
    HasPre = TRUE
    HasPost = TRUE
    EventCap = 3
INVARIANTS
    BoardIsNotStale
    BatchLineTruthful
    BoardTruthful
    FinishIsEarned
PROPERTIES
    BoardMovesOn
