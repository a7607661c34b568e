\* Every transport with two retries: three attempts, so that an earlier command can
\* outlive the next call and its context can end in either.
SPECIFICATION FairSpec
CONSTANTS
    Kinds = {"local", "psexec", "wmi", "ssh", "winrm"}
    Attempts = 3
INVARIANTS
    AnswersAreTruthful
    RepeatsAreExcused
    CancelStartsNothing
PROPERTIES
    ExecSpec
    CallsEnd
