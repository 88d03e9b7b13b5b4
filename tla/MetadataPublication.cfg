\* Two files, two publications, writes by others.
CONSTANTS
    Artifacts = {nfo, image}
    Bodies = {x, y}
    None = None
    Partial = Partial
    MaxPublications = 2
    MaxForeign = 1
SPECIFICATION Spec
SYMMETRY Symmetry
INVARIANTS
    TypeOK
    AllOrNothing
    JournalCanBeRecovered
    UnseenIsKept
