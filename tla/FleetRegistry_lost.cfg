\* Two provisioners that hold the registry at once (and a board that may).
SPECIFICATION Spec
CONSTANTS
    m1 = m1
    m2 = m2
    p1 = p1
    p2 = p2
    b1 = b1
    Machines <- TwoMachines
    Provisioners <- TwoProvisioners
    Boards <- OneBoard
    DryRun = FALSE
SYMMETRY Interchangeable
INVARIANT NoLostMachines
