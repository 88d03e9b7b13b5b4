\* Three jobs, two priorities: every order of queue operations up to six changes.
CONSTANTS
    Jobs = {j1, j2, j3}
    Priorities = {0, 1}
    MaxRevision = 6
    NoView = NoView
SYMMETRY Symmetry
SPECIFICATION Spec
INVARIANTS
    TypeOK
    PositionsDiffer
    RevisionNamesTheQueue
PROPERTIES
    OvertakingIsAsked
    ReorderIsHonoured
\* At MaxRevision the queue stops changing.
CHECK_DEADLOCK FALSE
