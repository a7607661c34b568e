\* Three presses of r among five polls.
SPECIFICATION BoardFairSpec
CONSTANTS
    MaxKeys = 3
    MaxPolls = 5
INVARIANTS
    BoardIsDriven
    OverlapBounded
PROPERTIES
    KeepsPolling
