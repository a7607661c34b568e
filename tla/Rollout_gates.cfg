\* Canaries and waves of every size, with and without a gate and a pause.
SPECIFICATION Spec
CONSTANTS
    NTargets = 5
    Cap = 2
    StopOnError = FALSE
    MaxStage = 5
INVARIANTS
    BatchesPartition
    BatchBarrier
    ResultsFaithful
PROPERTIES
    PlainSpec
