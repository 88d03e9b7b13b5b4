\* Two jobs of one code; the store may refuse writes and the operator does not wait.
SPECIFICATION Spec
CONSTANTS
    j1 = j1
    j2 = j2
    t1 = t1
    t2 = t2
    c1 = c1
    c2 = c2
    Jobs = {j1, j2}
    Threads = {t1, t2}
    CodeOf <- CodeOf1
    NoJob = NoJob
    NoThread = NoThread
    PatientOperator = FALSE
    StoreMayFail = TRUE
SYMMETRY ThreadSymmetry
INVARIANTS
    NoForgottenGlobalPause
    OneActiveJobPerCode
PROPERTIES
    CancelIsFinal
