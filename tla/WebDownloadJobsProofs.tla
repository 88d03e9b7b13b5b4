------------------------- MODULE WebDownloadJobsProofs -------------------------
(***************************************************************************)
(* Theorems about WebDownloadJobs, for every set of jobs and threads.      *)
(***************************************************************************)
EXTENDS WebDownloadJobs, FiniteSetTheorems, TLAPS

\* A registration and a thread in its run point at each other.
Registered ==
    /\ \A j \in Jobs : reg[j] # NoThread => AtWork(reg[j], j)
    /\ \A t \in Threads : pc[t] \in InRun => held[t] \in Jobs /\ reg[held[t]] = t
    /\ \A t \in Threads : pc[t] = "peeked" => held[t] \in Jobs

\* Where the rows that may be claimed, or that a command may put back into the
\* queue, stand with respect to the threads.
QueuedIsFree ==
    \A j \in Jobs :
        /\ life = "up" /\ status[j] = "queued" => reg[j] = NoThread
        /\ retryAt[j] = "due" => reg[j] = NoThread
        /\ status[j] = "paused" /\ origin[j] = "global" => reg[j] = NoThread

\* A row in a worker status has a thread that has not reached its last section.
WorkerIsAttended ==
    \A j \in Jobs : life # "down" /\ status[j] \in Worker =>
        reg[j] # NoThread /\ pc[reg[j]] \in {"running", "ended"}

NothingAtRest ==
    life = "down" => /\ \A j \in Jobs : reg[j] = NoThread
                     /\ \A t \in Threads : pc[t] = "exited"

Ownership ==
    /\ TypeOK
    /\ Registered
    /\ QueuedIsFree
    /\ WorkerIsAttended
    /\ StopReachesTheRun
    /\ NothingAtRest
    /\ RunningWorkerIsOnRecord

USE DEF Pausable, Worker, Slot, Pending, Active, Terminal, Statuses, InRun

--------------------------------------------------------------------------------
\* Type correctness.

\* Every action keeps the types.
LEMMA TypeStep == TypeOK /\ [Next]_vars => TypeOK'
<1> SUFFICES ASSUME TypeOK, [Next]_vars PROVE TypeOK'
  OBVIOUS
<1> USE DEF TypeOK, jobVars, threadVars
<1>1. ASSUME NEW t \in Threads, NEW j \in Jobs, Peek(t, j) PROVE TypeOK'
  BY <1>1 DEF Peek
<1>2. ASSUME NEW t \in Threads, NEW s \in Worker, WorkerAdvances(t, s) PROVE TypeOK'
  BY <1>2 DEF WorkerAdvances
<1>3. ASSUME NEW t \in Threads, GiveUp(t) PROVE TypeOK'
  BY <1>3 DEF GiveUp
<1>4. ASSUME NEW t \in Threads, Claim(t) PROVE TypeOK'
  BY <1>4 DEF Claim, Claimable
<1>5. ASSUME NEW t \in Threads, RejectCheckpoint(t) PROVE TypeOK'
  BY <1>5 DEF RejectCheckpoint, Claimable
<1>6. ASSUME NEW t \in Threads, RejectCheckpointHalfDone(t) PROVE TypeOK'
  BY <1>6 DEF RejectCheckpointHalfDone, Claimable
<1>7. ASSUME NEW t \in Threads, WorkerCompletes(t) PROVE TypeOK'
  BY <1>7 DEF WorkerCompletes, Settle
<1>8. ASSUME NEW t \in Threads, WorkerInterrupted(t) PROVE TypeOK'
  BY <1>8 DEF WorkerInterrupted, Settle
<1>9. ASSUME NEW t \in Threads, WorkerCancels(t) PROVE TypeOK'
  BY <1>9 DEF WorkerCancels, EndsHeard, Settle
<1>10. ASSUME NEW t \in Threads, WorkerFails(t) PROVE TypeOK'
  BY <1>10 DEF WorkerFails, EndsHeard, Settle
<1>11. ASSUME NEW t \in Threads, WorkerDefers(t) PROVE TypeOK'
  BY <1>11 DEF WorkerDefers, EndsHeard, Settle
<1>12. ASSUME NEW t \in Threads, RunEnds(t) PROVE TypeOK'
  BY <1>12 DEF RunEnds
<1>13. ASSUME NEW t \in Threads, PostRun(t) PROVE TypeOK'
  BY <1>13 DEF PostRun
<1>14. ASSUME NEW t \in Threads, FinishRun(t) PROVE TypeOK'
  BY <1>14 DEF FinishRun, Leave, AfterPausing
<1>15. ASSUME NEW t \in Threads, PostRunStoreError(t) PROVE TypeOK'
  BY <1>15 DEF PostRunStoreError
<1>16. ASSUME NEW t \in Threads, FinishRunStoreError(t) PROVE TypeOK'
  BY <1>16 DEF FinishRunStoreError, Leave
<1>17. ASSUME NEW t \in Threads, ThreadExits(t) PROVE TypeOK'
  BY <1>17 DEF ThreadExits
<1>18. ASSUME NEW j \in Jobs, Create(j) PROVE TypeOK'
  BY <1>18 DEF Create
<1>19. ASSUME NEW j \in Jobs, Pause(j) PROVE TypeOK'
  BY <1>19 DEF Pause, SignalRun
<1>20. ASSUME NEW j \in Jobs, Resume(j) PROVE TypeOK'
  BY <1>20 DEF Resume
<1>21. ASSUME NEW j \in Jobs, Cancel(j) PROVE TypeOK'
  BY <1>21 DEF Cancel, SignalRun
<1>22. ASSUME NEW j \in Jobs, Retry(j) PROVE TypeOK'
  BY <1>22 DEF Retry
<1>23. ASSUME NEW j \in Jobs, Remove(j) PROVE TypeOK'
  BY <1>23 DEF Remove
<1>24. ASSUME NEW j \in Jobs, RetryDue(j) PROVE TypeOK'
  BY <1>24 DEF RetryDue
<1>25. ASSUME NEW n \in 1..Cardinality(Threads), SetTarget(n) PROVE TypeOK'
  BY <1>25 DEF SetTarget
<1>26. CASE GlobalPause
  BY <1>26 DEF GlobalPause, SignalRun
<1>27. CASE GlobalResume
  BY <1>27 DEF GlobalResume
<1>28. CASE Shutdown
  BY <1>28 DEF Shutdown, SignalRun
<1>29. CASE Stopped
  BY <1>29 DEF Stopped, ProcessGone
<1>30. CASE Crash
  BY <1>30 DEF Crash, ProcessGone
<1>31. CASE Restart
  BY <1>31 DEF Restart, AfterPausing
<1>32. CASE UNCHANGED vars
  BY <1>32 DEF vars
<1> QED
  BY <1>1, <1>2, <1>3, <1>4, <1>5, <1>6, <1>7, <1>8, <1>9, <1>10, <1>11, <1>12, <1>13, <1>14,
     <1>15, <1>16, <1>17, <1>18, <1>19, <1>20, <1>21, <1>22, <1>23, <1>24, <1>25, <1>26, <1>27,
     <1>28, <1>29, <1>30, <1>31, <1>32
  DEF Next, ThreadStep, Command

\* An empty table with idle threads has them.
LEMMA TypeCorrectAtInit == Init => TypeOK
<1> SUFFICES ASSUME Init PROVE TypeOK
  OBVIOUS
<1>1. status \in [Jobs -> Statuses]
  BY DEF Init
<1>2. target \in 1..Cardinality(Threads)
  BY DEF Init
<1> QED
  BY <1>1, <1>2 DEF Init, TypeOK

\* The columns of the job table, the threads and the registrations keep their types,
\* through every handler, crash and recovery.
THEOREM TypeCorrect == Spec => []TypeOK
BY TypeCorrectAtInit, TypeStep, PTL DEF Spec

--------------------------------------------------------------------------------
\* Who owns a job, when the operator retries only what no thread holds and the
\* store accepts its writes.

\* What setting the cancel events of some jobs does: the events that were set
\* stay set, and every one of those jobs that has a run has its event set.
LEMMA SignalReaches ==
    ASSUME TypeOK, NEW js \in SUBSET Jobs, SignalRun(js)
    PROVE  /\ \A t \in Threads : cancelSet[t] => cancelSet'[t]
           /\ \A j \in js : reg[j] # NoThread => cancelSet'[reg[j]]
<1>1. \A t \in Threads : cancelSet'[t] = (cancelSet[t] \/ \E j \in js : reg[j] = t)
  BY Zenon DEF SignalRun
<1>2. \A j \in js : reg[j] # NoThread => reg[j] \in Threads
  BY DEF TypeOK
<1> QED
  BY <1>1, <1>2, Zenon

\* Ownership is inductive, one step per action: who holds a job, what its row says and
\* what its cancel_event says go together.
LEMMA OwnershipStep ==
    ASSUME PatientOperator, ~StoreMayFail
    PROVE  Ownership /\ [Next]_vars => Ownership'
<1> SUFFICES ASSUME Ownership, [Next]_vars PROVE Ownership'
  OBVIOUS
<1>0. TypeOK'
  BY TypeStep DEF Ownership
<1> USE ThreadsAssumption, JobsAssumption
     DEF Ownership, TypeOK, Registered, QueuedIsFree, WorkerIsAttended, StopReachesTheRun,
         NothingAtRest, RunningWorkerIsOnRecord, AtWork, jobVars, threadVars
<1>1. ASSUME NEW t \in Threads, NEW j \in Jobs, Peek(t, j) PROVE Ownership'
  BY <1>0, <1>1 DEF Peek
<1>2. ASSUME NEW t \in Threads, NEW s \in Worker, WorkerAdvances(t, s) PROVE Ownership'
  BY <1>0, <1>2 DEF WorkerAdvances, Deaf
<1>3. ASSUME NEW t \in Threads, GiveUp(t) PROVE Ownership'
  BY <1>0, <1>3 DEF GiveUp
<1>4. ASSUME NEW t \in Threads, Claim(t) PROVE Ownership'
  BY <1>0, <1>4 DEF Claim, Claimable, Runnable
<1>5. ASSUME NEW t \in Threads, RejectCheckpoint(t) PROVE Ownership'
  BY <1>0, <1>5 DEF RejectCheckpoint, Claimable, Runnable
<1>6. ASSUME NEW t \in Threads, RejectCheckpointHalfDone(t) PROVE Ownership'
  BY <1>0, <1>6 DEF RejectCheckpointHalfDone, Claimable, Runnable
<1>7. ASSUME NEW t \in Threads, WorkerCompletes(t) PROVE Ownership'
  BY <1>0, <1>7 DEF WorkerCompletes, Settle, Deaf
<1>8. ASSUME NEW t \in Threads, WorkerInterrupted(t) PROVE Ownership'
  BY <1>0, <1>8 DEF WorkerInterrupted, Settle
<1>9. ASSUME NEW t \in Threads, WorkerCancels(t) PROVE Ownership'
  BY <1>0, <1>9 DEF WorkerCancels, EndsHeard, Settle, Deaf
<1>10. ASSUME NEW t \in Threads, WorkerFails(t) PROVE Ownership'
  BY <1>0, <1>10 DEF WorkerFails, EndsHeard, Settle, Deaf
<1>11. ASSUME NEW t \in Threads, WorkerDefers(t) PROVE Ownership'
  BY <1>0, <1>11 DEF WorkerDefers, EndsHeard, Settle, Deaf
<1>12. ASSUME NEW t \in Threads, RunEnds(t) PROVE Ownership'
  BY <1>0, <1>12 DEF RunEnds
<1>13. ASSUME NEW t \in Threads, PostRun(t) PROVE Ownership'
  BY <1>0, <1>13 DEF PostRun
<1>14. ASSUME NEW t \in Threads, FinishRun(t) PROVE Ownership'
  BY <1>0, <1>14 DEF FinishRun, Leave, AfterPausing
<1>15. ASSUME NEW t \in Threads, PostRunStoreError(t) PROVE Ownership'
  BY <1>0, <1>15 DEF PostRunStoreError
<1>16. ASSUME NEW t \in Threads, FinishRunStoreError(t) PROVE Ownership'
  BY <1>0, <1>16 DEF FinishRunStoreError, Leave
<1>17. ASSUME NEW t \in Threads, ThreadExits(t) PROVE Ownership'
  BY <1>0, <1>17 DEF ThreadExits
<1>18. ASSUME NEW j \in Jobs, Create(j) PROVE Ownership'
  BY <1>0, <1>18 DEF Create
<1>19. ASSUME NEW j \in Jobs, Pause(j) PROVE Ownership'
  <2>1. \A t \in Threads : cancelSet[t] => cancelSet'[t]
    BY <1>19, SignalReaches DEF Pause
  <2>2. \A k \in {i \in {j} : status'[i] = "pausing"} : reg[k] # NoThread => cancelSet'[reg[k]]
    BY <1>19, SignalReaches DEF Pause
  <2>3. StopReachesTheRun'
    BY <1>19, <2>1, <2>2 DEF Pause
  <2> QED
    BY <1>0, <1>19, <2>3 DEF Pause
<1>20. ASSUME NEW j \in Jobs, Resume(j) PROVE Ownership'
  BY <1>0, <1>20 DEF Resume
<1>21. ASSUME NEW j \in Jobs, Cancel(j) PROVE Ownership'
  <2>1. \A t \in Threads : cancelSet[t] => cancelSet'[t]
    BY <1>21, SignalReaches DEF Cancel
  <2>2. \A k \in {j} : reg[k] # NoThread => cancelSet'[reg[k]]
    BY <1>21, SignalReaches DEF Cancel
  <2>3. StopReachesTheRun'
    BY <1>21, <2>1, <2>2 DEF Cancel
  <2> QED
    BY <1>0, <1>21, <2>3 DEF Cancel
<1>22. ASSUME NEW j \in Jobs, Retry(j) PROVE Ownership'
  BY <1>0, <1>22 DEF Retry
<1>23. ASSUME NEW j \in Jobs, Remove(j) PROVE Ownership'
  BY <1>0, <1>23 DEF Remove
<1>24. ASSUME NEW j \in Jobs, RetryDue(j) PROVE Ownership'
  BY <1>0, <1>24 DEF RetryDue
<1>25. ASSUME NEW n \in 1..Cardinality(Threads), SetTarget(n) PROVE Ownership'
  BY <1>0, <1>25 DEF SetTarget
<1>26. CASE GlobalPause
  <2>1. \A t \in Threads : cancelSet[t] => cancelSet'[t]
    BY <1>26, SignalReaches DEF GlobalPause
  <2>2. \A k \in {i \in Jobs : status[i] \in Pausable} : reg[k] # NoThread => cancelSet'[reg[k]]
    BY <1>26, SignalReaches DEF GlobalPause
  <2>3. StopReachesTheRun'
    BY <1>26, <2>1, <2>2 DEF GlobalPause
  <2> QED
    BY <1>0, <1>26, <2>3 DEF GlobalPause
<1>27. CASE GlobalResume
  BY <1>0, <1>27 DEF GlobalResume
<1>28. CASE Shutdown
  BY <1>0, <1>28 DEF Shutdown, SignalRun
<1>29. CASE Stopped
  BY <1>0, <1>29 DEF Stopped, ProcessGone
<1>30. CASE Crash
  BY <1>0, <1>30 DEF Crash, ProcessGone
<1>31. CASE Restart
  BY <1>0, <1>31 DEF Restart, AfterPausing
<1>32. CASE UNCHANGED vars
  BY <1>0, <1>32 DEF vars
<1> QED
  BY <1>1, <1>2, <1>3, <1>4, <1>5, <1>6, <1>7, <1>8, <1>9, <1>10, <1>11, <1>12, <1>13, <1>14,
     <1>15, <1>16, <1>17, <1>18, <1>19, <1>20, <1>21, <1>22, <1>23, <1>24, <1>25, <1>26, <1>27,
     <1>28, <1>29, <1>30, <1>31, <1>32
  DEF Next, ThreadStep, Command

\* Rows, registrations and threads agree in every reachable state: the inductive
\* invariant of _dispatch, _run_job, the commands and the recovery.
THEOREM OwnershipCorrect ==
    ASSUME PatientOperator, ~StoreMayFail
    PROVE  Spec => []Ownership
<1>1. Init => Ownership
  <2> SUFFICES ASSUME Init PROVE Ownership
    OBVIOUS
  <2>1. TypeOK
    BY TypeCorrectAtInit
  <2> QED
    BY <2>1 DEF Init, Ownership, Registered, QueuedIsFree, WorkerIsAttended,
                StopReachesTheRun, NothingAtRest, RunningWorkerIsOnRecord
<1>2. Ownership /\ [Next]_vars => Ownership'
  BY OwnershipStep
<1> QED
  BY <1>1, <1>2, PTL DEF Spec

\* A job that occupies a slot has the thread that will give the slot back.
THEOREM SlotJobsAttended ==
    ASSUME PatientOperator, ~StoreMayFail
    PROVE  Spec => []SlotJobHasItsThread
<1>1. Ownership => SlotJobHasItsThread
  BY DEF Ownership, SlotJobHasItsThread, WorkerIsAttended, StopReachesTheRun, Registered
<1> QED
  BY <1>1, OwnershipCorrect, PTL

\* A stop, pause or cancellation that was asked for while a worker runs has reached the
\* cancel event of that very run.
THEOREM StopsReachTheirRun ==
    ASSUME PatientOperator, ~StoreMayFail
    PROVE  Spec => []StopReachesTheRun
<1>1. Ownership => StopReachesTheRun
  BY DEF Ownership
<1> QED
  BY <1>1, OwnershipCorrect, PTL

\* Both: a job in a slot, and a stop asked of it, are in the hands of one registered thread.
THEOREM SlotJobsAreAttended ==
    ASSUME PatientOperator, ~StoreMayFail
    PROVE  Spec => []SlotJobIsAttended
<1> QED
  BY SlotJobsAttended, StopsReachTheirRun, PTL DEF SlotJobIsAttended

\* With a patient operator the message "Download worker stopped before completion"
\* is true; the run WebDownloadJobsEarlyRetry shows that it is not without.
THEOREM EndedJobsHaveNoWorker ==
    ASSUME PatientOperator, ~StoreMayFail
    PROVE  Spec => []EndedJobHasNoWorker
<1>1. Ownership => EndedJobHasNoWorker
  BY DEF Ownership, RunningWorkerIsOnRecord, EndedJobHasNoWorker
<1> QED
  BY <1>1, OwnershipCorrect, PTL

--------------------------------------------------------------------------------
\* The dispatcher implements the lease: one thread per job, one job per thread.

Holders == [j \in Jobs |-> {t \in Threads : AtWork(t, j)}]

\* A step that puts no thread to work and stops none leaves the lease as it is.
LEMMA SameHolders ==
    ASSUME \A t \in Threads, j \in Jobs : AtWork(t, j)' <=> AtWork(t, j)
    PROVE  Holders' = Holders
BY Zenon DEF Holders

\* Every step takes a job, gives one back, ends the process or leaves the lease alone.
LEMMA LeaseStep ==
    ASSUME PatientOperator, ~StoreMayFail, Ownership, Ownership', [Next]_vars
    PROVE  [Lease!Next]_Holders
<1> USE DEF Ownership, TypeOK, AtWork, Registered, jobVars, threadVars
<1>1. ASSUME NEW t \in Threads, Claim(t) PROVE Lease!Next
  <2>1. PICK j \in Jobs : held[t] = j /\ reg[j] = NoThread
    BY <1>1 DEF Claim, Claimable, Runnable, QueuedIsFree
  <2>2. Lease!Take(t, j)
    <3>1. Holders[j] = {}
      <4>1. \A u \in Threads : ~AtWork(u, j)
        BY <2>1, ThreadsAssumption
      <4> QED
        BY <4>1 DEF Holders
    <3>2. \A k \in Jobs : t \notin Holders[k]
      BY <1>1 DEF Claim, Claimable, Holders
    <3>3. Holders' = [Holders EXCEPT ![j] = {t}]
      <4>1. \A u \in Threads, k \in Jobs :
              AtWork(u, k)' <=> (AtWork(u, k) \/ (u = t /\ k = j))
        BY <1>1, <2>1 DEF Claim, Claimable
      <4>2. \A k \in Jobs : Holders'[k] = IF k = j THEN {t} ELSE Holders[k]
        BY <4>1, <3>1 DEF Holders
      <4>3. Holders' = [k \in Jobs |-> Holders'[k]]
        BY Zenon DEF Holders
      <4>4. Holders = [k \in Jobs |-> Holders[k]]
        BY Zenon DEF Holders
      <4> QED
        BY <4>2, <4>3, <4>4
    <3> QED
      BY <3>1, <3>2, <3>3 DEF Lease!Take, Holders
  <2> QED
    BY <2>2 DEF Lease!Next
<1>2. ASSUME NEW t \in Threads, FinishRun(t) PROVE Lease!Next
  <2>1. PICK j \in Jobs : held[t] = j /\ AtWork(t, j)
    BY <1>2 DEF FinishRun, Leave
  <2>2. \A u \in Threads, k \in Jobs :
          AtWork(u, k)' <=> (AtWork(u, k) /\ ~(u = t /\ k = j))
    BY <1>2, <2>1 DEF FinishRun, Leave
  <2>3. \A k \in Jobs : Holders'[k] = IF k = j THEN Holders[k] \ {t} ELSE Holders[k]
    BY <2>2 DEF Holders
  <2>4. Holders' = [Holders EXCEPT ![j] = @ \ {t}]
    <3>1. Holders' = [k \in Jobs |-> Holders'[k]]
      BY Zenon DEF Holders
    <3>2. Holders = [k \in Jobs |-> Holders[k]]
      BY Zenon DEF Holders
    <3> QED
      BY <2>3, <3>1, <3>2
  <2>5. t \in Holders[j]
    BY <2>1 DEF Holders
  <2>6. Lease!GiveBack(t, j)
    BY <2>4, <2>5 DEF Lease!GiveBack, Holders
  <2> QED
    BY <2>6 DEF Lease!Next
<1>3. ASSUME ProcessGone PROVE Lease!Next
  <2>1. \A t \in Threads, j \in Jobs : ~AtWork(t, j)'
    BY <1>3 DEF ProcessGone
  <2>2. Holders' = [j \in Jobs |-> {}]
    BY <2>1 DEF Holders
  <2> QED
    BY <2>2 DEF Lease!Next, Lease!ProcessEnds, Holders
<1>4. ASSUME NEW t \in Threads, NEW j \in Jobs, Peek(t, j) PROVE Holders' = Holders
  BY <1>4, SameHolders DEF Peek
<1>5. ASSUME NEW t \in Threads, NEW s \in Worker, WorkerAdvances(t, s) PROVE Holders' = Holders
  BY <1>5, SameHolders DEF WorkerAdvances
<1>6. ASSUME NEW t \in Threads, GiveUp(t) PROVE Holders' = Holders
  BY <1>6, SameHolders DEF GiveUp
<1>7. ASSUME NEW t \in Threads, RejectCheckpoint(t) PROVE Holders' = Holders
  BY <1>7, SameHolders DEF RejectCheckpoint, Claimable
<1>8. ASSUME NEW t \in Threads, WorkerCompletes(t) PROVE Holders' = Holders
  BY <1>8, SameHolders DEF WorkerCompletes, Settle
<1>9. ASSUME NEW t \in Threads, WorkerInterrupted(t) PROVE Holders' = Holders
  BY <1>9, SameHolders DEF WorkerInterrupted, Settle
<1>10. ASSUME NEW t \in Threads, WorkerCancels(t) PROVE Holders' = Holders
  BY <1>10, SameHolders DEF WorkerCancels, EndsHeard, Settle
<1>11. ASSUME NEW t \in Threads, WorkerFails(t) PROVE Holders' = Holders
  BY <1>11, SameHolders DEF WorkerFails, EndsHeard, Settle
<1>12. ASSUME NEW t \in Threads, WorkerDefers(t) PROVE Holders' = Holders
  BY <1>12, SameHolders DEF WorkerDefers, EndsHeard, Settle
<1>13. ASSUME NEW t \in Threads, RunEnds(t) PROVE Holders' = Holders
  BY <1>13, SameHolders DEF RunEnds
<1>14. ASSUME NEW t \in Threads, PostRun(t) PROVE Holders' = Holders
  BY <1>14, SameHolders DEF PostRun
<1>15. ASSUME NEW t \in Threads, ThreadExits(t) PROVE Holders' = Holders
  BY <1>15, SameHolders DEF ThreadExits
<1>16. ASSUME NEW j \in Jobs, Command(j) \/ RetryDue(j) PROVE Holders' = Holders
  BY <1>16, SameHolders DEF Command, Create, Pause, Resume, Cancel, Retry, Remove, RetryDue
<1>17. ASSUME NEW n \in 1..Cardinality(Threads), SetTarget(n) PROVE Holders' = Holders
  BY <1>17, SameHolders DEF SetTarget
<1>18. ASSUME GlobalPause \/ GlobalResume \/ Shutdown \/ Restart PROVE Holders' = Holders
  BY <1>18, SameHolders DEF GlobalPause, GlobalResume, Shutdown, Restart, NothingAtRest
<1>19. ASSUME UNCHANGED vars PROVE Holders' = Holders
  BY <1>19, SameHolders DEF vars
<1>20. ~StoreMayFail
  OBVIOUS
<1> QED
  BY <1>20, <1>1, <1>2, <1>3, <1>4, <1>5, <1>6, <1>7, <1>8, <1>9, <1>10, <1>11, <1>12, <1>13,
     <1>14, <1>15, <1>16, <1>17, <1>18, <1>19
  DEF Next, ThreadStep, Stopped, Crash, RejectCheckpointHalfDone, PostRunStoreError,
      FinishRunStoreError

\* WebDownloadJobs implements JobLease.
THEOREM LeaseImplemented ==
    ASSUME PatientOperator, ~StoreMayFail
    PROVE  Spec => LeaseSpec
<1>1. Init => Lease!Init
  BY DEF Init, Lease!Init, AtWork
<1>2. Ownership /\ Ownership' /\ [Next]_vars => [Lease!Next]_Holders
  BY LeaseStep
<1>3. Holders = [j \in Jobs |-> {t \in Threads : AtWork(t, j)}]
  BY DEF Holders
<1> QED
  BY <1>1, <1>2, OwnershipCorrect, PTL DEF Spec, LeaseSpec, Lease!Spec, Holders

--------------------------------------------------------------------------------
\* What holds whatever the operator does and whichever write the store refuses.

\* What a dispatcher thread can do to a row, whatever state the row is in.
LEMMA ThreadStepRows ==
    ASSUME TypeOK, NEW t \in Threads, ThreadStep(t)
    PROVE  /\ UNCHANGED globalPaused
           /\ \A j \in Jobs :
                /\ status'[j] \in Active => status[j] \in Active
                /\ status[j] = "cancelling" => status'[j] \in {"cancelling", "cancelled", "completed"}
                /\ status[j] = "completed" => status'[j] = "completed"
                /\ status'[j] = "paused" /\ origin'[j] = "global" =>
                      \/ status[j] = "paused" /\ origin[j] = "global"
                      \/ globalPaused
<1> USE DEF TypeOK, jobVars, threadVars, Deaf
<1>1. CASE \E j \in Jobs : Peek(t, j)
  BY <1>1 DEF Peek
<1>2. CASE GiveUp(t) \/ RunEnds(t) \/ ThreadExits(t) \/ PostRunStoreError(t)
  BY <1>2 DEF GiveUp, RunEnds, ThreadExits, PostRunStoreError
<1>3. CASE Claim(t)
  BY <1>3 DEF Claim, Claimable, Runnable
<1>4. CASE RejectCheckpoint(t)
  BY <1>4 DEF RejectCheckpoint, Claimable, Runnable
<1>5. CASE RejectCheckpointHalfDone(t)
  BY <1>5 DEF RejectCheckpointHalfDone, Claimable, Runnable
<1>6. CASE \E s \in Worker : WorkerAdvances(t, s)
  BY <1>6 DEF WorkerAdvances
<1>7. CASE WorkerCompletes(t)
  BY <1>7 DEF WorkerCompletes, Settle
<1>8. CASE WorkerInterrupted(t)
  BY <1>8 DEF WorkerInterrupted, Settle
<1>9. CASE WorkerCancels(t)
  BY <1>9 DEF WorkerCancels, EndsHeard, Settle
<1>10. CASE WorkerFails(t)
  BY <1>10 DEF WorkerFails, EndsHeard, Settle
<1>11. CASE WorkerDefers(t)
  BY <1>11 DEF WorkerDefers, EndsHeard, Settle
<1>12. CASE PostRun(t)
  BY <1>12 DEF PostRun
<1>13. CASE FinishRun(t)
  BY <1>13 DEF FinishRun, Leave, AfterPausing
<1>14. CASE FinishRunStoreError(t)
  BY <1>14 DEF FinishRunStoreError, Leave
<1> QED
  BY <1>1, <1>2, <1>3, <1>4, <1>5, <1>6, <1>7, <1>8, <1>9, <1>10, <1>11, <1>12, <1>13, <1>14
     DEF ThreadStep

\* Lifting the global pause leaves no job behind in it: finish_pausing and
\* recover_interrupted look at the pause as it is then.
THEOREM GlobalPauseForgetsNothing == Spec => []NoForgottenGlobalPause
<1>1. Init => NoForgottenGlobalPause
  BY DEF Init, NoForgottenGlobalPause
<1>2. TypeOK /\ NoForgottenGlobalPause /\ [Next]_vars => NoForgottenGlobalPause'
  <2> SUFFICES ASSUME TypeOK, NoForgottenGlobalPause, [Next]_vars
               PROVE  NoForgottenGlobalPause'
    OBVIOUS
  <2> USE DEF TypeOK, NoForgottenGlobalPause, jobVars, threadVars
  <2>1. ASSUME NEW t \in Threads, ThreadStep(t) PROVE NoForgottenGlobalPause'
    BY <2>1, ThreadStepRows
  <2>2. ASSUME NEW j \in Jobs, Command(j) \/ RetryDue(j) PROVE NoForgottenGlobalPause'
    BY <2>2 DEF Command, Create, Pause, Resume, Cancel, Retry, Remove, RetryDue
  <2>3. CASE GlobalPause
    BY <2>3 DEF GlobalPause
  <2>4. CASE GlobalResume
    BY <2>4 DEF GlobalResume
  <2>5. CASE \/ \E n \in 1..Cardinality(Threads) : SetTarget(n)
             \/ Shutdown \/ Stopped \/ Crash \/ UNCHANGED vars
    BY <2>5 DEF SetTarget, Shutdown, Stopped, Crash, ProcessGone, vars
  <2>6. CASE Restart
    BY <2>6 DEF Restart, AfterPausing
  <2> QED
    BY <2>1, <2>2, <2>3, <2>4, <2>5, <2>6 DEF Next
<1> QED
  BY <1>1, <1>2, TypeCorrect, PTL DEF Spec

\* Two active jobs never download the same work: create_or_get, retry, resume and the
\* recovery never break the unique index.
THEOREM ActiveCodesDiffer == Spec => []OneActiveJobPerCode
<1>1. Init => OneActiveJobPerCode
  BY DEF Init, OneActiveJobPerCode
<1>2. TypeOK /\ OneActiveJobPerCode /\ [Next]_vars => OneActiveJobPerCode'
  <2> SUFFICES ASSUME TypeOK, OneActiveJobPerCode, [Next]_vars
               PROVE  OneActiveJobPerCode'
    OBVIOUS
  <2> USE DEF TypeOK, OneActiveJobPerCode, jobVars, threadVars
  <2>1. ASSUME NEW t \in Threads, ThreadStep(t) PROVE OneActiveJobPerCode'
    BY <2>1, ThreadStepRows
  <2>2. ASSUME NEW j \in Jobs, Create(j) \/ Retry(j) PROVE OneActiveJobPerCode'
    BY <2>2 DEF Create, Retry
  <2>3. ASSUME NEW j \in Jobs, Pause(j) \/ Resume(j) \/ Cancel(j) \/ Remove(j) \/ RetryDue(j)
        PROVE  OneActiveJobPerCode'
    BY <2>3 DEF Pause, Resume, Cancel, Remove, RetryDue
  <2>4. CASE GlobalPause \/ GlobalResume
    BY <2>4 DEF GlobalPause, GlobalResume
  <2>5. CASE \/ \E n \in 1..Cardinality(Threads) : SetTarget(n)
             \/ Shutdown \/ Stopped \/ Crash \/ UNCHANGED vars
    BY <2>5 DEF SetTarget, Shutdown, Stopped, Crash, ProcessGone, vars
  <2>6. CASE Restart
    BY <2>6 DEF Restart, AfterPausing
  <2> QED
    BY <2>1, <2>2, <2>3, <2>4, <2>5, <2>6 DEF Next, Command
<1> QED
  BY <1>1, <1>2, TypeCorrect, PTL DEF Spec

\* A cancellation is only overtaken by a completion, and a completion by nothing,
\* also when the store refuses writes and the operator retries at once.
THEOREM EndsAreFinal == Spec => CancelIsFinal
<1> DEFINE Final(j) ==
      /\ status[j] = "cancelling" => status'[j] \in {"cancelling", "cancelled", "completed"}
      /\ status[j] = "completed" => status'[j] \in {"completed", "absent"}
<1>1. TypeOK /\ [Next]_vars => \A j \in Jobs : Final(j)
  <2> SUFFICES ASSUME TypeOK, [Next]_vars, NEW j \in Jobs PROVE Final(j)
    OBVIOUS
  <2> USE DEF TypeOK, jobVars, threadVars
  <2>1. ASSUME NEW t \in Threads, ThreadStep(t) PROVE Final(j)
    BY <2>1, ThreadStepRows
  <2>2. ASSUME NEW k \in Jobs, Command(k) \/ RetryDue(k) PROVE Final(j)
    BY <2>2 DEF Command, Create, Pause, Resume, Cancel, Retry, Remove, RetryDue
  <2>3. CASE GlobalPause \/ GlobalResume
    BY <2>3 DEF GlobalPause, GlobalResume
  <2>4. CASE \/ \E n \in 1..Cardinality(Threads) : SetTarget(n)
             \/ Shutdown \/ Stopped \/ Crash \/ UNCHANGED vars
    BY <2>4 DEF SetTarget, Shutdown, Stopped, Crash, ProcessGone, vars
  <2>5. CASE Restart
    BY <2>5 DEF Restart
  <2> QED
    BY <2>1, <2>2, <2>3, <2>4, <2>5 DEF Next
<1>2. TypeOK /\ [Next]_vars =>
        [\A j \in Jobs : /\ status[j] = "cancelling" =>
                               status'[j] \in {"cancelling", "cancelled", "completed"}
                         /\ status[j] = "completed" =>
                               status'[j] \in {"completed", "absent"}]_vars
  BY <1>1
<1> QED
  BY <1>2, TypeCorrect, PTL DEF Spec, CancelIsFinal

--------------------------------------------------------------------------------
\* The two kinds of pause, when the operator is patient and the store accepts writes.

\* Which rows a thread may put into a phase that could be paused, and what it may do
\* to a row the operator holds.
LEMMA ThreadStepPauses ==
    ASSUME Ownership, ~StoreMayFail, NEW t \in Threads, ThreadStep(t)
    PROVE  \A j \in Jobs :
             /\ globalPaused /\ status'[j] \in Pausable => status[j] \in Pausable
             /\ HeldByOperator(j) => status'[j] \notin Pending \cup Worker
<1> USE DEF Ownership, RunningWorkerIsOnRecord, TypeOK, HeldByOperator, jobVars, threadVars
<1>1. CASE \E j \in Jobs : Peek(t, j)
  BY <1>1 DEF Peek
<1>2. CASE GiveUp(t) \/ RunEnds(t) \/ ThreadExits(t)
  BY <1>2 DEF GiveUp, RunEnds, ThreadExits
<1>3. CASE Claim(t) \/ RejectCheckpoint(t)
  BY <1>3 DEF Claim, RejectCheckpoint, Claimable, Runnable, AdmissionOpen
<1>4. CASE \E s \in Worker : WorkerAdvances(t, s)
  <2>1. PICK s \in Worker : WorkerAdvances(t, s)
    BY <1>4
  <2>2. status[held[t]] \in Worker /\ Phase[status[held[t]]] < Phase[s]
    BY <2>1 DEF WorkerAdvances
  <2>3. s \in Pausable => status[held[t]] \in Pausable
    BY <2>1, <2>2 DEF Phase
  <2> QED
    BY <2>1, <2>2, <2>3 DEF WorkerAdvances
<1>5. CASE WorkerCompletes(t) \/ WorkerInterrupted(t)
  BY <1>5 DEF WorkerCompletes, WorkerInterrupted, Settle
<1>6. CASE WorkerCancels(t) \/ WorkerFails(t) \/ WorkerDefers(t)
  BY <1>6 DEF WorkerCancels, WorkerFails, WorkerDefers, EndsHeard, Settle
<1>7. CASE PostRun(t)
  BY <1>7 DEF PostRun
<1>8. CASE FinishRun(t)
  BY <1>8 DEF FinishRun, Leave, AfterPausing
<1>9. ~StoreMayFail
  OBVIOUS
<1> QED
  BY <1>1, <1>2, <1>3, <1>4, <1>5, <1>6, <1>7, <1>8, <1>9
     DEF ThreadStep, RejectCheckpointHalfDone, PostRunStoreError, FinishRunStoreError

\* While everything is paused no job is in an interruptible phase: a claim that was in
\* flight when set_global_paused committed is refused.
THEOREM GlobalPauseTakesHold ==
    ASSUME PatientOperator, ~StoreMayFail
    PROVE  Spec => []GlobalPauseDrains
<1>1. Init => GlobalPauseDrains
  BY DEF Init, GlobalPauseDrains
<1>2. Ownership /\ GlobalPauseDrains /\ [Next]_vars => GlobalPauseDrains'
  <2> SUFFICES ASSUME Ownership, GlobalPauseDrains, [Next]_vars PROVE GlobalPauseDrains'
    OBVIOUS
  <2> USE DEF Ownership, TypeOK, GlobalPauseDrains, jobVars, threadVars
  <2>1. ASSUME NEW t \in Threads, ThreadStep(t) PROVE GlobalPauseDrains'
    BY <2>1, ThreadStepRows, ThreadStepPauses
  <2>2. ASSUME NEW j \in Jobs, Command(j) \/ RetryDue(j) PROVE GlobalPauseDrains'
    BY <2>2 DEF Command, Create, Pause, Resume, Cancel, Retry, Remove, RetryDue
  <2>3. CASE GlobalPause \/ GlobalResume
    BY <2>3 DEF GlobalPause, GlobalResume
  <2>4. CASE \/ \E n \in 1..Cardinality(Threads) : SetTarget(n)
             \/ Shutdown \/ Stopped \/ Crash \/ UNCHANGED vars
    BY <2>4 DEF SetTarget, Shutdown, Stopped, Crash, ProcessGone, vars
  <2>5. CASE Restart
    BY <2>5 DEF Restart, AfterPausing
  <2> QED
    BY <2>1, <2>2, <2>3, <2>4, <2>5 DEF Next
<1> QED
  BY <1>1, <1>2, OwnershipCorrect, PTL DEF Spec

\* Only the operator's resume puts back to work what the operator paused.
THEOREM OperatorsPauseHolds ==
    ASSUME PatientOperator, ~StoreMayFail
    PROVE  Spec => OnlyResumeUndoesPause
<1>1. Ownership /\ [Next]_vars =>
        \A j \in Jobs : HeldByOperator(j) /\ status'[j] \in Pending \cup Worker => Resume(j)
  <2> SUFFICES ASSUME Ownership, [Next]_vars, NEW j \in Jobs,
                      HeldByOperator(j), status'[j] \in Pending \cup Worker
               PROVE  Resume(j)
    BY DEF HeldByOperator
  <2> USE DEF Ownership, TypeOK, HeldByOperator, jobVars, threadVars
  <2>1. ASSUME NEW t \in Threads, ThreadStep(t) PROVE FALSE
    BY <2>1, ThreadStepPauses
  <2>2. ASSUME NEW k \in Jobs, Command(k) \/ RetryDue(k) PROVE Resume(j)
    <3>1. CASE Resume(k)
      <4>1. k = j
        BY <3>1 DEF Resume
      <4> QED
        BY <3>1, <4>1
    <3>2. CASE Create(k) \/ Pause(k) \/ Cancel(k) \/ Retry(k) \/ Remove(k) \/ RetryDue(k)
      BY <3>2 DEF Create, Pause, Cancel, Retry, Remove, RetryDue
    <3> QED
      BY <2>2, <3>1, <3>2 DEF Command
  <2>3. CASE GlobalPause \/ GlobalResume
    BY <2>3 DEF GlobalPause, GlobalResume
  <2>4. CASE \/ \E n \in 1..Cardinality(Threads) : SetTarget(n)
             \/ Shutdown \/ Stopped \/ Crash \/ UNCHANGED vars
    BY <2>4 DEF SetTarget, Shutdown, Stopped, Crash, ProcessGone, vars
  <2>5. CASE Restart
    BY <2>5 DEF Restart, AfterPausing
  <2> QED
    BY <2>1, <2>2, <2>3, <2>4, <2>5 DEF Next
<1>2. Ownership /\ [Next]_vars =>
        [\A j \in Jobs : HeldByOperator(j) /\ status'[j] \in Pending \cup Worker => Resume(j)]_vars
  BY <1>1
<1> QED
  BY <1>2, OwnershipCorrect, PTL DEF Spec, OnlyResumeUndoesPause

\* A job the global pause caught has no retry time: what the global resume queues
\* was at work, and never a paused retry.
CaughtHaveNoTime ==
    \A j \in Jobs : status[j] = "paused" /\ origin[j] = "global" => retryAt[j] = "none"

\* A job that waits for its retry has its time, and nobody else keeps one: neither a
\* resume, a recovery, a removal nor a late event loses it or leaves it behind.
THEOREM RetryTimesKept ==
    ASSUME PatientOperator, ~StoreMayFail
    PROVE  Spec => []RetryTimeIsKept
<1> DEFINE Inv == RetryTimeIsKept /\ CaughtHaveNoTime
<1>1. Init => Inv
  BY DEF Init, RetryTimeIsKept, CaughtHaveNoTime
<1>2. Ownership /\ Inv /\ [Next]_vars => Inv'
  <2> SUFFICES ASSUME Ownership, Inv, [Next]_vars PROVE Inv'
    OBVIOUS
  <2> USE DEF Ownership, TypeOK, RetryTimeIsKept, CaughtHaveNoTime, jobVars, threadVars
  <2>1. ASSUME NEW t \in Threads, ThreadStep(t) PROVE Inv'
    <3>1. CASE (\E j \in Jobs : Peek(t, j)) \/ GiveUp(t) \/ RunEnds(t) \/ ThreadExits(t)
      BY <3>1 DEF Peek, GiveUp, RunEnds, ThreadExits
    <3>2. CASE Claim(t) \/ RejectCheckpoint(t)
      BY <3>2 DEF Registered, Claim, RejectCheckpoint, Claimable
    <3>3. CASE \E s \in Worker : WorkerAdvances(t, s)
      BY <3>3 DEF Registered, RunningWorkerIsOnRecord, WorkerAdvances
    <3>4. CASE WorkerCompletes(t) \/ WorkerInterrupted(t)
      BY <3>4 DEF Registered, RunningWorkerIsOnRecord, WorkerCompletes, WorkerInterrupted, Settle
    <3>5. CASE WorkerCancels(t) \/ WorkerFails(t) \/ WorkerDefers(t)
      BY <3>5 DEF Registered, WorkerCancels, WorkerFails, WorkerDefers, EndsHeard, Settle
    <3>6. CASE PostRun(t)
      BY <3>6 DEF Registered, PostRun
    <3>7. CASE FinishRun(t)
      BY <3>7 DEF Registered, FinishRun, Leave, AfterPausing
    <3>8. ~StoreMayFail
      OBVIOUS
    <3> QED
      BY <2>1, <3>1, <3>2, <3>3, <3>4, <3>5, <3>6, <3>7, <3>8
         DEF ThreadStep, RejectCheckpointHalfDone, PostRunStoreError, FinishRunStoreError
  <2>2. ASSUME NEW j \in Jobs, Create(j) \/ Cancel(j) \/ Retry(j) \/ Remove(j) PROVE Inv'
    BY <2>2 DEF Create, Cancel, Retry, Remove
  <2>3. ASSUME NEW j \in Jobs, Pause(j) \/ Resume(j) \/ RetryDue(j) PROVE Inv'
    BY <2>3 DEF Pause, Resume, RetryDue
  <2>4. CASE GlobalPause \/ GlobalResume
    BY <2>4 DEF GlobalPause, GlobalResume
  <2>5. CASE \/ \E n \in 1..Cardinality(Threads) : SetTarget(n)
             \/ Shutdown \/ Stopped \/ Crash \/ UNCHANGED vars
    BY <2>5 DEF SetTarget, Shutdown, Stopped, Crash, ProcessGone, vars
  <2>6. CASE Restart
    BY <2>6 DEF Restart, AfterPausing
  <2> QED
    BY <2>1, <2>2, <2>3, <2>4, <2>5, <2>6 DEF Next, Command
<1> QED
  BY <1>1, <1>2, OwnershipCorrect, PTL DEF Spec

--------------------------------------------------------------------------------
\* The slots.

\* Only a claim puts a job into a slot.
LEMMA OnlyClaimsTakeSlots ==
    ASSUME Ownership, ~StoreMayFail, [Next]_vars
    PROVE  SlotJobs' \subseteq SlotJobs \/ \E t \in Threads : Claim(t)
<1> USE DEF Ownership, TypeOK, SlotJobs, jobVars, threadVars
<1>1. ASSUME NEW t \in Threads, ThreadStep(t), ~Claim(t) PROVE SlotJobs' \subseteq SlotJobs
  <2>1. CASE (\E j \in Jobs : Peek(t, j)) \/ GiveUp(t) \/ RunEnds(t) \/ ThreadExits(t)
    BY <2>1 DEF Peek, GiveUp, RunEnds, ThreadExits
  <2>2. CASE RejectCheckpoint(t)
    BY <2>2 DEF RejectCheckpoint, Claimable
  <2>3. CASE \E s \in Worker : WorkerAdvances(t, s)
    BY <2>3 DEF RunningWorkerIsOnRecord, WorkerAdvances
  <2>4. CASE WorkerCompletes(t) \/ WorkerInterrupted(t)
    BY <2>4 DEF WorkerCompletes, WorkerInterrupted, Settle
  <2>5. CASE WorkerCancels(t) \/ WorkerFails(t) \/ WorkerDefers(t)
    BY <2>5 DEF WorkerCancels, WorkerFails, WorkerDefers, EndsHeard, Settle
  <2>6. CASE PostRun(t)
    BY <2>6 DEF PostRun
  <2>7. CASE FinishRun(t)
    BY <2>7 DEF FinishRun, Leave, AfterPausing
  <2>8. ~StoreMayFail
    OBVIOUS
  <2> QED
    BY <1>1, <2>1, <2>2, <2>3, <2>4, <2>5, <2>6, <2>7, <2>8
       DEF ThreadStep, RejectCheckpointHalfDone, PostRunStoreError, FinishRunStoreError
<1>2. ASSUME NEW j \in Jobs, Command(j) \/ RetryDue(j) PROVE SlotJobs' \subseteq SlotJobs
  BY <1>2 DEF Command, Create, Pause, Resume, Cancel, Retry, Remove, RetryDue
<1>3. CASE GlobalPause \/ GlobalResume
  BY <1>3 DEF GlobalPause, GlobalResume
<1>4. CASE \/ \E n \in 1..Cardinality(Threads) : SetTarget(n)
           \/ Shutdown \/ Stopped \/ Crash \/ UNCHANGED vars
  BY <1>4 DEF SetTarget, Shutdown, Stopped, Crash, ProcessGone, vars
<1>5. CASE Restart
  BY <1>5 DEF Restart, AfterPausing
<1> QED
  BY <1>1, <1>2, <1>3, <1>4, <1>5 DEF Next

\* Above the target the jobs at work do not become more, and none does while everything is
\* paused: _admission_open_locked is asked again in the transaction of the claim.
THEOREM SlotsStayWithinTarget ==
    ASSUME PatientOperator, ~StoreMayFail
    PROVE  Spec => SlotsGrowWithinTarget
<1> DEFINE Inv == IsFiniteSet(SlotJobs)
           Grows == Cardinality(SlotJobs') > Cardinality(SlotJobs) =>
                      Cardinality(SlotJobs') <= target' /\ ~globalPaused'
<1>1. Init => Inv
  <2>1. Init => SlotJobs = {}
    BY DEF Init, SlotJobs
  <2> QED
    BY <2>1, FS_EmptySet
<1>2. Ownership /\ Inv /\ [Next]_vars => Inv' /\ Grows
  <2> SUFFICES ASSUME Ownership, Inv, [Next]_vars PROVE Inv' /\ Grows
    OBVIOUS
  <2>1. CASE SlotJobs' \subseteq SlotJobs
    <3>1. IsFiniteSet(SlotJobs') /\ Cardinality(SlotJobs') <= Cardinality(SlotJobs)
      BY <2>1, FS_Subset
    <3>2. Cardinality(SlotJobs') \in Nat /\ Cardinality(SlotJobs) \in Nat
      BY <3>1, FS_CardinalityType
    <3> QED
      BY <3>1, <3>2
  <2>2. ASSUME NEW t \in Threads, Claim(t) PROVE Inv' /\ Grows
    <3>1. SlotJobs' \subseteq SlotJobs \cup {held[t]}
      BY <2>2 DEF Ownership, TypeOK, Claim, SlotJobs
    <3>2. /\ IsFiniteSet(SlotJobs \cup {held[t]})
          /\ Cardinality(SlotJobs \cup {held[t]}) \in Nat /\ Cardinality(SlotJobs) \in Nat
          /\ Cardinality(SlotJobs \cup {held[t]}) <= Cardinality(SlotJobs) + 1
      BY FS_AddElement, FS_CardinalityType
    <3>3. /\ IsFiniteSet(SlotJobs') /\ Cardinality(SlotJobs') \in Nat
          /\ Cardinality(SlotJobs') <= Cardinality(SlotJobs) + 1
      <4>1. /\ IsFiniteSet(SlotJobs')
            /\ Cardinality(SlotJobs') <= Cardinality(SlotJobs \cup {held[t]})
        BY <3>1, <3>2, FS_Subset
      <4>2. Cardinality(SlotJobs') \in Nat
        BY <4>1, FS_CardinalityType
      <4> QED
        BY <4>1, <4>2, <3>2
    <3>4. /\ Cardinality(SlotJobs) < target /\ ~globalPaused
          /\ target' = target /\ globalPaused' = globalPaused
      BY <2>2 DEF Claim, Claimable, AdmissionOpen
    <3>5. target \in Int
      <4>1. target \in 1..Cardinality(Threads)
        BY DEF Ownership, TypeOK
      <4> QED
        BY <4>1
    <3> QED
      BY <3>2, <3>3, <3>4, <3>5
  <2> QED
    BY <2>1, <2>2, OnlyClaimsTakeSlots
<1>3. Ownership /\ Inv /\ [Next]_vars => Inv'
  BY <1>2
<1>4. Ownership /\ Inv /\ [Next]_vars => [Grows]_vars
  BY <1>2
<1> QED
  BY <1>1, <1>3, <1>4, OwnershipCorrect, PTL DEF Spec, SlotsGrowWithinTarget
================================================================================
