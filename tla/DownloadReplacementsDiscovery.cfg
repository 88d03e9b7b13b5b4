\* One request at a time, two rows for a failure that fails again: no queued discovery is left.
CONSTANTS
    Handlers = {h1}
    None = None
    Modes = {"smart"}
    MaxRows = 2
    MaxRevision = 1
SPECIFICATION FairSpec
PROPERTIES
    QueuedIsProbed
