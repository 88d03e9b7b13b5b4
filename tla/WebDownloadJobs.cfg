\* Two jobs of different codes on two threads, under a patient operator, with fairness.
SPECIFICATION FairSpec
CONSTANTS
    j1 = j1
    j2 = j2
    t1 = t1
    t2 = t2
    c1 = c1
    c2 = c2
    Jobs = {j1, j2}
    Threads = {t1, t2}
    CodeOf <- CodeOf2
    NoJob = NoJob
    NoThread = NoThread
    PatientOperator = TRUE
    StoreMayFail = FALSE
INVARIANTS
    TypeOK
    SlotJobIsAttended
    GlobalPauseDrains
    RetryTimeIsKept
PROPERTIES
    OnlyResumeUndoesPause
    SlotsGrowWithinTarget
    LeaseSpec
    StopsEnd
