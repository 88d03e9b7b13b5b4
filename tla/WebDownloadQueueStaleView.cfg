\* Two jobs; the page reads the list and the revision in two steps.
CONSTANTS
    Jobs = {j1, j2}
    Priorities = {0, 1}
    MaxRevision = 5
    NoView = NoView
SPECIFICATION Spec
PROPERTIES
    AcceptedReorderSawTheQueue
CHECK_DEADLOCK FALSE
