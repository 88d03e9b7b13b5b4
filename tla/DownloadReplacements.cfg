\* Two requests at once, every mode, one row for one failure.
CONSTANTS
    Handlers = {h1, h2}
    None = None
    Modes = {"smart", "web"}
    MaxRows = 1
    MaxRevision = 0
SPECIFICATION Spec
SYMMETRY Symmetry
INVARIANTS
    TypeOK
    OneTarget
    DisposalIsHeld
PROPERTIES
    SourceGoesLast
