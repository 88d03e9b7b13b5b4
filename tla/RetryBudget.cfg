\* The three delays of the code; a threshold of two within a medium of four.
CONSTANTS
    MaxDeferrals = 3
    Threshold = 2
    NoBase = NoBase
    MaxCheckpoint = 4
    MaxGained = 7
SPECIFICATION Spec
INVARIANTS
    TypeOK
    BudgetIsKept
PROPERTIES
    GivenUpWithoutProgress
