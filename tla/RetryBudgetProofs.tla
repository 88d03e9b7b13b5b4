--------------------------- MODULE RetryBudgetProofs ---------------------------
(***************************************************************************)
(* What TLAPS proves of RetryBudget, for every number of delays, every     *)
(* threshold and every size of the media: the types, that a run with a     *)
(* retry behind it is measured, that retries have to be earned, and that   *)
(* a job is given up only in a run that did not get on.                    *)
(***************************************************************************)
EXTENDS RetryBudget, TLAPS

\* One more credit is worth one more budget.
LEMMA OneMore ==
    ASSUME NEW a \in Nat, NEW b \in Nat
    PROVE  a * b \in Nat /\ a * (b + 1) = a * b + a /\ a * (1 + b) = a * b + a
    BY SMT

\* The forward movement is never less than the distance to the new checkpoint.
LEMMA AdvanceCovers ==
    ASSUME TypeOK, NEW n \in Checkpoints
    PROVE  Advance(n) \in Nat /\ Advance(n) >= n - checkpoint
    BY BudgetAssumption DEF TypeOK, Advance, Checkpoints

--------------------------------------------------------------------------------
\* Every step of the code keeps the types.
LEMMA TypeStep == TypeOK /\ [Next]_vars => TypeOK'
<1> SUFFICES ASSUME TypeOK, [Next]_vars PROVE TypeOK'
    OBVIOUS
<1> USE BudgetAssumption DEF TypeOK, Checkpoints
<1>1. CASE Claim
    BY <1>1 DEF Claim
<1>2. CASE HoldOrResume
    BY <1>2 DEF HoldOrResume, Hold, Resume
<1>3. ASSUME NEW n \in Checkpoints, Progress(n) PROVE TypeOK'
    BY <1>3, AdvanceCovers DEF Progress
<1>4. ASSUME NEW n \in Checkpoints, ResetCheckpoint(n) PROVE TypeOK'
    BY <1>4, AdvanceCovers DEF ResetCheckpoint
<1>5. ASSUME NEW n \in Checkpoints, Reconcile(n) PROVE TypeOK'
    BY <1>5, AdvanceCovers DEF Reconcile
<1>6. ASSUME NEW n \in Checkpoints, Again(n) PROVE TypeOK'
    BY <1>6 DEF Again
<1>7. ASSUME NEW n \in Checkpoints, NEW snapshot \in BOOLEAN, NEW reset \in BOOLEAN,
             Defer(n, snapshot, reset)
      PROVE  TypeOK'
    BY <1>7, AdvanceCovers DEF Defer
<1>8. ASSUME NEW p \in {"pending", "paused"}, Interrupt(p) PROVE TypeOK'
    BY <1>8 DEF Interrupt
<1>9. ASSUME NEW count \in 0..MaxDeferrals, End(count) PROVE TypeOK'
    BY <1>9 DEF End
<1>10. CASE UNCHANGED vars
    BY <1>10 DEF vars, row
<1> QED
    BY <1>1, <1>2, <1>3, <1>4, <1>5, <1>6, <1>7, <1>8, <1>9, <1>10 DEF Next

\* The counters of the row stay in their ranges, whatever the runs do.
THEOREM BudgetTypeCorrect == Spec => []TypeOK
<1>1. Init => TypeOK
    BY BudgetAssumption DEF Init, TypeOK, Checkpoints
<1> QED
    BY <1>1, TypeStep, PTL DEF Spec

--------------------------------------------------------------------------------
\* Before the job has ended, each retry is one of the current count or of a budget
\* that was given back; what a measured run has gained is not yet paid for.
Account ==
    /\ deferrals <= MaxDeferrals * credits + MaxDeferrals
    /\ place # "ended" => deferrals <= MaxDeferrals * credits + retryCount
    /\ Threshold * credits <= gained
    /\ base # NoBase => Threshold * credits <= gained - (checkpoint - base)

\* Every step of the code keeps the account balanced.
LEMMA AccountStep == TypeOK /\ Account /\ [Next]_vars => Account'
<1> SUFFICES ASSUME TypeOK, Account, [Next]_vars PROVE Account'
    OBVIOUS
<1>a. PICK budget \in Nat, price \in Nat :
         /\ MaxDeferrals * credits = budget
         /\ MaxDeferrals * (credits + 1) = budget + MaxDeferrals
         /\ Threshold * credits = price
         /\ Threshold * (credits + 1) = price + Threshold
    BY OneMore, BudgetAssumption DEF TypeOK
<1>b. MaxDeferrals * 0 = 0 /\ Threshold * 0 = 0
    BY BudgetAssumption
<1>c. /\ deferrals <= budget + MaxDeferrals
      /\ place # "ended" => deferrals <= budget + retryCount
      /\ price <= gained
      /\ base # NoBase => price <= gained - (checkpoint - base)
    BY <1>a DEF Account
<1>d. TypeOK'
    BY TypeStep
<1>s. ASSUME credits' = credits,
             /\ deferrals' <= budget + MaxDeferrals
             /\ place' # "ended" => deferrals' <= budget + retryCount'
             /\ price <= gained'
             /\ base' # NoBase => price <= gained' - (checkpoint' - base')
      PROVE  Account'
    BY <1>s, <1>a DEF Account
<1>g. ASSUME credits' = credits + 1,
             /\ deferrals' <= budget + MaxDeferrals + retryCount'
             /\ price + Threshold <= gained'
             /\ base' = NoBase
      PROVE  Account'
    <2>1. /\ MaxDeferrals * credits' = budget + MaxDeferrals
          /\ Threshold * credits' = price + Threshold
        BY <1>g, <1>a
    <2>2. retryCount' <= MaxDeferrals /\ retryCount' \in Nat /\ deferrals' \in Nat
        BY <1>d, BudgetAssumption DEF TypeOK
    <2>3. deferrals' <= (budget + MaxDeferrals) + MaxDeferrals
        <3>1. deferrals' <= budget + MaxDeferrals + retryCount'
            BY <1>g
        <3>2. MaxDeferrals \in Nat
            BY BudgetAssumption
        <3>3. \A d, b, m, r \in Nat : d <= b + m + r /\ r <= m => d <= b + m + m
            OBVIOUS
        <3> QED
            BY <3>1, <3>2, <3>3, <2>2
    <2> QED
        BY <2>1, <2>3, <1>g DEF Account
<1> USE BudgetAssumption DEF TypeOK, Checkpoints
<1>1. CASE Claim
    BY <1>1, <1>a, <1>c, <1>s DEF Claim
<1>2. CASE HoldOrResume
    BY <1>2, <1>a, <1>c, <1>s DEF HoldOrResume, Hold, Resume
<1>3. ASSUME NEW n \in Checkpoints, Progress(n) PROVE Account'
    <2>1. Advance(n) \in Nat /\ Advance(n) = n - checkpoint
        BY <1>3 DEF Progress, Advance
    <2>2. CASE retryCount > 0 /\ Enough(n)
        BY <1>3, <2>1, <2>2, <1>a, <1>c, <1>g DEF Progress, Enough
    <2>3. CASE ~(retryCount > 0 /\ Enough(n))
        BY <1>3, <2>1, <2>3, <1>a, <1>c, <1>s DEF Progress
    <2> QED
        BY <2>2, <2>3
<1>4. ASSUME NEW n \in Checkpoints, ResetCheckpoint(n) PROVE Account'
    BY <1>4, AdvanceCovers, <1>a, <1>c, <1>s DEF ResetCheckpoint
<1>5. ASSUME NEW n \in Checkpoints, Reconcile(n) PROVE Account'
    BY <1>5, AdvanceCovers, <1>a, <1>c, <1>s DEF Reconcile
<1>6. ASSUME NEW n \in Checkpoints, Again(n) PROVE Account'
    BY <1>6, <1>b DEF Again, Account
<1>7. ASSUME NEW n \in Checkpoints, NEW snapshot \in BOOLEAN, NEW reset \in BOOLEAN,
             Defer(n, snapshot, reset)
      PROVE  Account'
    <2>1. Advance(n) \in Nat /\ Advance(n) >= n - checkpoint
        BY AdvanceCovers
    <2>2. CASE retryCount > 0 /\ snapshot /\ ~reset /\ Enough(n)
        <3>1. /\ base' = NoBase /\ credits' = credits + 1
              /\ retryCount' = 1 /\ deferrals' = deferrals + 1
              /\ gained' = gained + Advance(n)
            BY <1>7, <2>2 DEF Defer
        <3>2. n - base >= Threshold /\ base # NoBase
            BY <2>2 DEF Enough
        <3> QED
            BY <3>1, <3>2, <2>1, <1>a, <1>c, <1>g
    <2>3. CASE ~(retryCount > 0 /\ snapshot /\ ~reset /\ Enough(n))
        BY <1>7, <2>1, <2>3, <1>a, <1>c, <1>s DEF Defer
    <2> QED
        BY <2>2, <2>3
<1>8. ASSUME NEW p \in {"pending", "paused"}, Interrupt(p) PROVE Account'
    BY <1>8, <1>a, <1>c, <1>s DEF Interrupt
<1>9. ASSUME NEW count \in 0..MaxDeferrals, End(count) PROVE Account'
    BY <1>9, <1>a, <1>c, <1>s DEF End
<1>10. CASE UNCHANGED vars
    BY <1>10, <1>a, <1>c, <1>s DEF vars, row
<1> QED
    BY <1>1, <1>2, <1>3, <1>4, <1>5, <1>6, <1>7, <1>8, <1>9, <1>10 DEF Next

\* A job retries itself at most MaxDeferrals times, and as often again for each
\* Threshold it has downloaded, in every order of failures, resets and interruptions.
THEOREM BudgetIsEarned == Spec => []RetriesAreEarned
<1>1. Init => TypeOK /\ Account
    BY BudgetAssumption DEF Init, TypeOK, Checkpoints, Account
<1>2. TypeOK /\ Account => RetriesAreEarned
    <2> SUFFICES ASSUME TypeOK, Account PROVE RetriesAreEarned
        OBVIOUS
    <2>1. MaxDeferrals * (1 + credits) = MaxDeferrals * credits + MaxDeferrals
        BY OneMore, BudgetAssumption DEF TypeOK
    <2> QED
        BY <2>1 DEF Account, RetriesAreEarned
<1> QED
    BY <1>1, <1>2, TypeStep, AccountStep, PTL DEF Spec

--------------------------------------------------------------------------------
\* A run that could be credited is measured, and has not yet earned the credit.
Measured ==
    place = "slot" /\ retryCount > 0 =>
        base # NoBase /\ checkpoint - base >= runGained /\ runGained < Threshold

\* Every step of the code keeps a retried run measured.
LEMMA MeasuredStep == TypeOK /\ Measured /\ [Next]_vars => Measured'
<1> SUFFICES ASSUME TypeOK, Measured, [Next]_vars PROVE Measured'
    OBVIOUS
<1> USE BudgetAssumption DEF TypeOK, Checkpoints, Measured
<1>1. CASE Claim
    BY <1>1 DEF Claim
<1>2. CASE HoldOrResume
    BY <1>2 DEF HoldOrResume, Hold, Resume
<1>3. ASSUME NEW n \in Checkpoints, Progress(n) PROVE Measured'
    BY <1>3 DEF Progress, Advance, Enough
<1>4. ASSUME NEW n \in Checkpoints, ResetCheckpoint(n) PROVE Measured'
    BY <1>4 DEF ResetCheckpoint
<1>5. ASSUME NEW n \in Checkpoints, Reconcile(n) PROVE Measured'
    BY <1>5 DEF Reconcile
<1>6. ASSUME NEW n \in Checkpoints, Again(n) PROVE Measured'
    BY <1>6 DEF Again
<1>7. ASSUME NEW n \in Checkpoints, NEW snapshot \in BOOLEAN, NEW reset \in BOOLEAN,
             Defer(n, snapshot, reset)
      PROVE  Measured'
    BY <1>7 DEF Defer
<1>8. ASSUME NEW p \in {"pending", "paused"}, Interrupt(p) PROVE Measured'
    BY <1>8 DEF Interrupt
<1>9. ASSUME NEW count \in 0..MaxDeferrals, End(count) PROVE Measured'
    BY <1>9 DEF End
<1>10. CASE UNCHANGED vars
    BY <1>10 DEF vars, row
<1> QED
    BY <1>1, <1>2, <1>3, <1>4, <1>5, <1>6, <1>7, <1>8, <1>9, <1>10 DEF Next

\* The types and Measured hold in the initial state.
LEMMA MeasuredAtInit == Init => TypeOK /\ Measured
    BY BudgetAssumption DEF Init, TypeOK, Checkpoints, Measured

\* A run that may be credited is measured, from no later than its start.
THEOREM RetriedRunsAreMeasured == Spec => []RetriedRunIsMeasured
<1>1. Measured => RetriedRunIsMeasured
    BY DEF Measured, RetriedRunIsMeasured
<1> QED
    BY <1>1, MeasuredAtInit, TypeStep, MeasuredStep, PTL DEF Spec

\* Both: retries are earned, and by progress that is measured from the run's own start.
THEOREM BudgetsAreKept == Spec => []BudgetIsKept
<1> QED
    BY BudgetIsEarned, RetriedRunsAreMeasured, PTL DEF BudgetIsKept

\* A job is given up only by defer_transient_failure, with its count at the limit,
\* and then its run reported less than the threshold.
THEOREM NoProgressIsWasted == Spec => GivenUpWithoutProgress
<1> DEFINE GivenUp == place = "slot" /\ place' = "failed" => runGained < Threshold
<1>1. TypeOK /\ Measured /\ [Next]_vars => GivenUp
    <2> SUFFICES ASSUME TypeOK, Measured, [Next]_vars, place = "slot", place' = "failed"
                 PROVE  runGained < Threshold
        OBVIOUS
    <2>1. PICK n \in Checkpoints, snapshot, reset \in BOOLEAN : Defer(n, snapshot, reset)
        BY DEF Next, Claim, HoldOrResume, Hold, Resume, Progress, ResetCheckpoint,
               Reconcile, Again, Interrupt, End, vars, row
    <2>2. retryCount > 0
        BY <2>1, BudgetAssumption DEF Defer, TypeOK
    <2> QED
        BY <2>2 DEF Measured
<1> QED
    BY <1>1, MeasuredAtInit, TypeStep, MeasuredStep, PTL DEF Spec, GivenUpWithoutProgress
================================================================================
