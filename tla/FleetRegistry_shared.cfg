\* Two provisioners and a board over two machines, with kills at any point and
\* saves that fail.
SPECIFICATION FairSpec
CONSTANTS
    m1 = m1
    m2 = m2
    p1 = p1
    p2 = p2
    b1 = b1
    Machines <- TwoMachines
    Provisioners <- TwoProvisioners
    Boards <- OneBoard
    DryRun = FALSE
INVARIANTS
    OnlyInstalledListed
    ProvisionTimeKept
    TurnsLoseNothing
PROPERTIES
    BoardHealsFile
