\* Four targets on two slots, one retry, StopOnError; the first target hangs, the
\* second is not to be cancelled.
SPECIFICATION FairSpec
CONSTANTS
    NTargets = 4
    Parallelism = 2
    Retries = 1
    StopOnError = TRUE
    Hanging <- First
    Deaf <- Second
INVARIANTS
    PoolCap
    ReturnIsComplete
    StopBoundsFailures
PROPERTIES
    ContractSpec
    ExecSpec
    RunReturns
