\* Two jobs that publish to one path, three runs in all, every policy.
CONSTANTS
    j1 = j1
    j2 = j2
    Jobs = {j1, j2}
    Original = Original
    None = None
    Height <- Heights
    MaxRuns = 3
SPECIFICATION Spec
INVARIANTS
    TypeOK
    ReplacedWasSeen
    UpgradesOnly
PROPERTIES
    VideoIsKept
\* The bound on runs and the removal of rows bring the model to rest.
CHECK_DEADLOCK FALSE
