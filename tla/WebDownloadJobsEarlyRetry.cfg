\* An operator who retries a job before the thread that ran it is done.
SPECIFICATION Spec
CONSTANTS
    j1 = j1
    j2 = j2
    t1 = t1
    t2 = t2
    c1 = c1
    c2 = c2
    Jobs = {j1, j2}
    Threads = {t1, t2}
    CodeOf <- CodeOf2
    NoJob = NoJob
    NoThread = NoThread
    PatientOperator = FALSE
    StoreMayFail = FALSE
SYMMETRY ThreadSymmetry
INVARIANTS
    EndedJobHasNoWorker
