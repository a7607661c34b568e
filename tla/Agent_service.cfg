\* A service and one-shots on one machine, changes of the source, a crash, a
\* hang, a reboot or a failed write, and the machine provisioned again and again.
SPECIFICATION FairSpec
CONSTANTS
    j1 = j1
    j2 = j2
    a1 = a1
    a2 = a2
    None = None
    Jobs <- TwoJobs
    Agents <- TwoAgents
    Service <- TheService
    MaxChanges = 2
    MaxFaults = 2
INVARIANTS
    ProvisionedIsInstalled
PROPERTIES
    RerunsAreExcused
    RecordConverges
    StopIsObeyed
