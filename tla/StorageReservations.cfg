\* Two jobs whose media may take two units, staging and library on one filesystem or two.
CONSTANTS
    Jobs = {j1, j2}
    None = None
    Refused = Refused
    Capacity = 7
    MinFree = 1
    Initial = 1
    MaxFile = 2
    Padding = 0
SYMMETRY Symmetry
SPECIFICATION Spec
INVARIANTS
    TypeOK
    FloorIsKept
\* When both jobs are done and tidied up nothing is left to do.
CHECK_DEADLOCK FALSE
