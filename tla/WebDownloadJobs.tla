---------------------------- MODULE WebDownloadJobs ----------------------------
(***************************************************************************)
(* The life of Web download jobs: the job table of WebDownloadStore        *)
(* (web_download/job_store.py) under the dispatcher threads of             *)
(* WebDownloadManager (web_download/manager.py), the worker process each   *)
(* thread runs, the operator's commands, an orderly shutdown, a crash at   *)
(* any point and the recovery at the next start.                           *)
(*                                                                         *)
(* One action is one critical section: the code between taking and         *)
(* releasing the manager's condition, whose SQLite statements form one     *)
(* transaction.  Queue order is the subject of WebDownloadQueue and the    *)
(* retry budget of RetryBudget; here any runnable job may be at the head   *)
(* and a transient failure may or may not have budget left.                *)
(***************************************************************************)
EXTENDS Naturals, FiniteSets

CONSTANTS
    Jobs,             \* job identities (a name is recycled once its row is deleted)
    Threads,          \* dispatcher threads; there are max_concurrency of them
    CodeOf,           \* job -> (provider, code_key, variant) it downloads
    NoJob, NoThread,
    PatientOperator,  \* the operator retries a job only once no thread holds it
    StoreMayFail      \* SQLite may refuse the writes whose errors are swallowed

ASSUME ThreadsAssumption == NoThread \notin Threads
ASSUME JobsAssumption == NoJob \notin Jobs
ASSUME FlagsAssumption == PatientOperator \in BOOLEAN /\ StoreMayFail \in BOOLEAN

--------------------------------------------------------------------------------
\* Statuses (web_download/jobs.py).

Pausable == {"locating", "validating", "downloading"}
Worker == Pausable \cup {"verifying", "archiving"}
Slot == Worker \cup {"cancelling", "pausing"}
Pending == {"queued", "retry_wait"}
Active == Slot \cup Pending \cup {"paused"}
Terminal == {"completed", "failed", "cancelled"}
Statuses == Active \cup Terminal \cup {"absent"}

Phase == [locating |-> 0, validating |-> 1, downloading |-> 2,
          verifying |-> 3, archiving |-> 4]

VARIABLES
    status,        \* web_download_jobs.status, "absent" where there is no row
    origin,        \* pause_origin
    retryAt,       \* next_retry_at: null, in the future, or reached
    globalPaused,  \* web_download_control.global_paused
    target,        \* the effective target_concurrency
    life,          \* the manager: running, shutting down, or no process
    pc,            \* where each dispatcher thread is in _dispatch / _run_job
    held,          \* the job (or candidate) each thread works on
    cancelSet,     \* the cancel_event of the thread's current run is set
    reg            \* _active_cancels: the run registered for a job

jobVars == <<status, origin, retryAt>>
threadVars == <<pc, held, cancelSet>>
vars == <<status, origin, retryAt, globalPaused, target, life,
          pc, held, cancelSet, reg>>

\* A thread is in _run_job, or between it and the end of _dispatch's finally.
InRun == {"running", "ended", "unwinding"}

TypeOK ==
    /\ status \in [Jobs -> Statuses]
    /\ origin \in [Jobs -> {"none", "manual", "global"}]
    /\ retryAt \in [Jobs -> {"none", "waiting", "due"}]
    /\ globalPaused \in BOOLEAN
    /\ target \in 1..Cardinality(Threads)
    /\ life \in {"up", "stopping", "down"}
    /\ pc \in [Threads -> InRun \cup {"idle", "peeked", "exited"}]
    /\ held \in [Threads -> Jobs \cup {NoJob}]
    /\ cancelSet \in [Threads -> BOOLEAN]
    /\ reg \in [Jobs -> Threads \cup {NoThread}]

Init ==
    /\ status = [j \in Jobs |-> "absent"]
    /\ origin = [j \in Jobs |-> "none"]
    /\ retryAt = [j \in Jobs |-> "none"]
    /\ globalPaused = FALSE
    /\ target \in 1..Cardinality(Threads)
    /\ life = "up"
    /\ pc = [t \in Threads |-> "idle"]
    /\ held = [t \in Threads |-> NoJob]
    /\ cancelSet = [t \in Threads |-> FALSE]
    /\ reg = [j \in Jobs |-> NoThread]

--------------------------------------------------------------------------------
\* Admission and the claim.

SlotJobs == {j \in Jobs : status[j] \in Slot}

\* _admission_open_locked.  A closed schedule is a time at which no claim happens.
AdmissionOpen == ~globalPaused /\ Cardinality(SlotJobs) < target

Runnable(j) == status[j] = "queued" \/ (status[j] = "retry_wait" /\ retryAt[j] = "due")

\* The passing of time.  LONG_RETRY_DELAYS_SECONDS starts at 120 s less 20 % of
\* jitter; the thread that deferred the job is gone within the seconds that
\* cancel_grace_seconds and the process signals allow, so it is never there.
RetryDue(j) ==
    /\ retryAt[j] = "waiting"
    /\ reg[j] = NoThread
    /\ retryAt' = [retryAt EXCEPT ![j] = "due"]
    /\ UNCHANGED <<status, origin, globalPaused, target, life, threadVars, reg>>

\* The first half of _dispatch: choose a candidate and let the lock go.
Peek(t, j) ==
    /\ life = "up" /\ pc[t] = "idle"
    /\ AdmissionOpen /\ Runnable(j)
    /\ pc' = [pc EXCEPT ![t] = "peeked"]
    /\ held' = [held EXCEPT ![t] = j]
    /\ UNCHANGED <<jobVars, globalPaused, target, life, cancelSet, reg>>

\* No disk budget, or the claim refused: the candidate is no longer the head,
\* admission has closed, or the queue database could not be read.
GiveUp(t) ==
    /\ life # "down" /\ pc[t] = "peeked"
    /\ pc' = [pc EXCEPT ![t] = "idle"]
    /\ held' = [held EXCEPT ![t] = NoJob]
    /\ UNCHANGED <<jobVars, globalPaused, target, life, cancelSet, reg>>

\* Mutants: the claim trusts what _dispatch saw before it let the lock go.
ClaimableAsAdmitted(t) == pc[t] = "peeked" /\ Runnable(held[t])
ClaimableAsPeeked(t) == pc[t] = "peeked"

\* What claim_next_runnable checks again in its own transaction.
Claimable(t) == pc[t] = "peeked" /\ AdmissionOpen /\ Runnable(held[t])

Claim(t) ==
    /\ life = "up" /\ Claimable(t)
    /\ status' = [status EXCEPT ![held[t]] = "locating"]
    /\ retryAt' = [retryAt EXCEPT ![held[t]] = "none"]
    /\ pc' = [pc EXCEPT ![t] = "running"]
    /\ cancelSet' = [cancelSet EXCEPT ![t] = FALSE]
    /\ reg' = [reg EXCEPT ![held[t]] = t]
    /\ UNCHANGED <<origin, globalPaused, target, life, held>>

\* The retained checkpoint is invalid: claim and fail the job under one lock.
\* This branch does not look at _stopping.
RejectCheckpoint(t) ==
    /\ life # "down" /\ Claimable(t)
    /\ status' = [status EXCEPT ![held[t]] = "failed"]
    /\ retryAt' = [retryAt EXCEPT ![held[t]] = "none"]
    /\ pc' = [pc EXCEPT ![t] = "idle"]
    /\ held' = [held EXCEPT ![t] = NoJob]
    /\ UNCHANGED <<origin, globalPaused, target, life, cancelSet, reg>>

\* The same branch when the second of its two transactions is refused.
RejectCheckpointHalfDone(t) ==
    /\ StoreMayFail
    /\ life # "down" /\ Claimable(t)
    /\ status' = [status EXCEPT ![held[t]] = "locating"]
    /\ retryAt' = [retryAt EXCEPT ![held[t]] = "none"]
    /\ pc' = [pc EXCEPT ![t] = "idle"]
    /\ held' = [held EXCEPT ![t] = NoJob]
    /\ UNCHANGED <<origin, globalPaused, target, life, cancelSet, reg>>

--------------------------------------------------------------------------------
\* Events of the worker process, applied by _apply_event.

\* Statuses in which _apply_event returns before looking at the event.
Deaf == Terminal \cup {"retry_wait", "absent"}

\* A status or progress event; a backward phase is an error (see RunEnds).
WorkerAdvances(t, s) ==
    LET j == held[t] IN
    /\ pc[t] = "running"
    /\ status[j] \notin Deaf \cup {"pausing", "cancelling"}
    /\ status[j] \in Worker => Phase[status[j]] < Phase[s]
    /\ status' = [status EXCEPT ![j] = s]
    /\ UNCHANGED <<origin, retryAt, globalPaused, target, life, threadVars, reg>>

\* A terminal event moves the job, and the runner then waits for the exit.
Settle(t, s, o, r) ==
    /\ status' = [status EXCEPT ![held[t]] = s]
    /\ origin' = [origin EXCEPT ![held[t]] = o]
    /\ retryAt' = [retryAt EXCEPT ![held[t]] = r]
    /\ pc' = [pc EXCEPT ![t] = "ended"]
    /\ UNCHANGED <<globalPaused, target, life, held, cancelSet, reg>>

\* Mutant: the pause origin and the retry time change places.
WorkerCompletesSwapped(t) ==
    LET j == held[t] IN
    /\ pc[t] = "running"
    /\ status[j] \notin Deaf
    /\ Settle(t, "completed", "none", origin[j])

\* "completed" is heard in every status but the deaf ones: a pause or a
\* cancellation that arrives after the publication does not undo it.
WorkerCompletes(t) ==
    LET j == held[t] IN
    /\ pc[t] = "running"
    /\ status[j] \notin Deaf
    /\ Settle(t, "completed", origin[j], "none")

\* Mutant: the shutdown requeues whatever it interrupts.
WorkerInterruptedAlways(t) ==
    /\ pc[t] = "running" /\ life = "stopping"
    /\ status[held[t]] \in Slot
    /\ Settle(t, "queued", "none", retryAt[held[t]])

\* "failed" or "cancelled" of a worker stopped by the shutdown: requeue_interrupted.
WorkerInterrupted(t) ==
    /\ pc[t] = "running" /\ life = "stopping"
    /\ status[held[t]] \in Worker
    /\ Settle(t, "queued", "none", retryAt[held[t]])

EndsHeard(t) ==
    LET j == held[t] IN
    /\ pc[t] = "running"
    /\ status[j] \notin Deaf \cup {"pausing", "cancelling"}
    /\ ~(life = "stopping" /\ status[j] \in Worker)

WorkerCancels(t) == EndsHeard(t) /\ Settle(t, "cancelled", origin[held[t]], "none")

\* A permanent failure, or a transient one whose retry budget is spent.
WorkerFails(t) == EndsHeard(t) /\ Settle(t, "failed", origin[held[t]], "none")

\* A transient failure with budget left: defer_transient_failure.
WorkerDefers(t) ==
    /\ EndsHeard(t) /\ status[held[t]] \in Worker
    /\ Settle(t, "retry_wait", origin[held[t]], "waiting")

\* The run ends with no terminal event that moves the job: the process group was
\* terminated on cancel, exited, stalled, reported an invalid or an ignored event,
\* ran out of disk budget, or applying its event raised.
RunEnds(t) ==
    /\ pc[t] = "running"
    /\ pc' = [pc EXCEPT ![t] = "ended"]
    /\ UNCHANGED <<jobVars, globalPaused, target, life, held, cancelSet, reg>>

--------------------------------------------------------------------------------
\* The thread after the run: _run_job's last critical section, _dispatch's finally.

PostRun(t) ==
    LET j == held[t] IN
    /\ pc[t] = "ended"
    /\ pc' = [pc EXCEPT ![t] = "unwinding"]
    /\ status' = IF status[j] \notin Worker THEN status
                 ELSE [status EXCEPT ![j] = IF life = "stopping" THEN "queued"
                                            ELSE IF cancelSet[t] THEN "cancelled"
                                            ELSE "failed"]
    /\ origin' = IF status[j] \in Worker /\ life = "stopping"
                 THEN [origin EXCEPT ![j] = "none"] ELSE origin
    /\ retryAt' = IF status[j] \in Worker /\ life # "stopping"
                  THEN [retryAt EXCEPT ![j] = "none"] ELSE retryAt
    /\ UNCHANGED <<globalPaused, target, life, held, cancelSet, reg>>

\* Mutant: the global pause may have been lifted meanwhile.
AfterPausingAlways(j) == "paused"

\* Where a pausing job goes once its worker is gone (finish_pausing).
AfterPausing(j) ==
    IF origin[j] = "global" /\ ~globalPaused THEN "queued" ELSE "paused"

Leave(t) ==
    /\ pc[t] = "unwinding"
    /\ pc' = [pc EXCEPT ![t] = "idle"]
    /\ held' = [held EXCEPT ![t] = NoJob]
    /\ reg' = [reg EXCEPT ![held[t]] = NoThread]
    /\ UNCHANGED <<retryAt, globalPaused, target, life, cancelSet>>

\* Mutant: the finally of _dispatch forgets the cancellation.
FinishRunPausesOnly(t) ==
    /\ Leave(t)
    /\ status' = [status EXCEPT ![held[t]] = IF @ = "pausing" THEN "paused" ELSE @]
    /\ UNCHANGED origin

FinishRun(t) ==
    LET j == held[t] IN
    /\ Leave(t)
    /\ status' = [status EXCEPT ![j] = CASE @ = "pausing" -> AfterPausing(j)
                                         [] @ = "cancelling" -> "cancelled"
                                         [] OTHER -> @]
    /\ origin' = IF status[j] = "pausing" /\ AfterPausing(j) = "queued"
                 THEN [origin EXCEPT ![j] = "none"] ELSE origin

\* The same two sections when the store raises: the error is swallowed.
PostRunStoreError(t) ==
    /\ StoreMayFail /\ pc[t] = "ended"
    /\ pc' = [pc EXCEPT ![t] = "unwinding"]
    /\ UNCHANGED <<jobVars, globalPaused, target, life, held, cancelSet, reg>>

FinishRunStoreError(t) ==
    /\ StoreMayFail
    /\ Leave(t)
    /\ UNCHANGED <<status, origin>>

\* _dispatch sees _stopping at the top of its loop or before its claim.
ThreadExits(t) ==
    /\ life = "stopping" /\ pc[t] \in {"idle", "peeked"}
    /\ pc' = [pc EXCEPT ![t] = "exited"]
    /\ held' = [held EXCEPT ![t] = NoJob]
    /\ UNCHANGED <<jobVars, globalPaused, target, life, cancelSet, reg>>

--------------------------------------------------------------------------------
\* Commands of the operator and of the batch scheduler.

\* start / create_or_get: an active job of the same code is returned instead.
\* Job identities are fresh: a recycled name is one no thread still remembers.
Create(j) ==
    /\ life = "up" /\ status[j] = "absent"
    /\ \A t \in Threads : held[t] # j
    /\ \A k \in Jobs : CodeOf[k] = CodeOf[j] => status[k] \notin Active
    /\ status' = [status EXCEPT ![j] = "queued"]
    /\ origin' = [origin EXCEPT ![j] = "none"]
    /\ retryAt' = [retryAt EXCEPT ![j] = "none"]
    /\ UNCHANGED <<globalPaused, target, life, threadVars, reg>>

\* The event of job j's registered run, if there is one, is set.
SignalRun(js) ==
    cancelSet' = [t \in Threads |-> cancelSet[t] \/ \E j \in js : reg[j] = t]

Pause(j) ==
    /\ life # "down"
    /\ status[j] \in Pending \cup Pausable \cup {"pausing", "paused"}
    /\ status' = [status EXCEPT ![j] = IF @ \in Pausable \cup {"pausing"}
                                       THEN "pausing" ELSE "paused"]
    /\ origin' = [origin EXCEPT ![j] = "manual"]
    /\ SignalRun(IF status'[j] = "pausing" THEN {j} ELSE {})
    /\ UNCHANGED <<retryAt, globalPaused, target, life, pc, held, reg>>

\* Mutant: a resumed job forgets that it was waiting for its retry.
ResumeToQueue(j) ==
    /\ life = "up" /\ reg[j] = NoThread
    /\ status[j] = "paused"
    /\ status' = [status EXCEPT ![j] = "queued"]
    /\ origin' = [origin EXCEPT ![j] = "none"]
    /\ UNCHANGED <<retryAt, globalPaused, target, life, threadVars, reg>>

Resume(j) ==
    /\ life = "up" /\ reg[j] = NoThread
    /\ status[j] = "paused"
    /\ status' = [status EXCEPT ![j] = IF retryAt[j] # "none" THEN "retry_wait"
                                                             ELSE "queued"]
    /\ origin' = [origin EXCEPT ![j] = "none"]
    /\ UNCHANGED <<retryAt, globalPaused, target, life, threadVars, reg>>

\* Mutant: the rows change, the workers are not told.
GlobalPauseSilent ==
    LET hit == {j \in Jobs : status[j] \in Pausable} IN
    /\ life # "down"
    /\ globalPaused' = TRUE
    /\ status' = [j \in Jobs |-> IF j \in hit THEN "pausing" ELSE status[j]]
    /\ origin' = [j \in Jobs |-> IF j \in hit THEN "global" ELSE origin[j]]
    /\ UNCHANGED <<retryAt, target, life, threadVars, reg>>

GlobalPause ==
    LET hit == {j \in Jobs : status[j] \in Pausable} IN
    /\ life # "down"
    /\ globalPaused' = TRUE
    /\ status' = [j \in Jobs |-> IF j \in hit THEN "pausing" ELSE status[j]]
    /\ origin' = [j \in Jobs |-> IF j \in hit THEN "global" ELSE origin[j]]
    /\ SignalRun(hit)
    /\ UNCHANGED <<retryAt, target, life, pc, held, reg>>

\* Mutant: every paused job is resumed, whoever paused it.
GlobalResumeAll ==
    LET hit == {j \in Jobs : status[j] = "paused"} IN
    /\ life = "up"
    /\ globalPaused' = FALSE
    /\ status' = [j \in Jobs |-> IF j \in hit THEN "queued" ELSE status[j]]
    /\ origin' = [j \in Jobs |-> IF j \in hit THEN "none" ELSE origin[j]]
    /\ UNCHANGED <<retryAt, target, life, threadVars, reg>>

GlobalResume ==
    LET hit == {j \in Jobs : status[j] = "paused" /\ origin[j] = "global"} IN
    /\ life = "up"
    /\ globalPaused' = FALSE
    /\ status' = [j \in Jobs |-> IF j \in hit THEN "queued" ELSE status[j]]
    /\ origin' = [j \in Jobs |-> IF j \in hit THEN "none" ELSE origin[j]]
    /\ UNCHANGED <<retryAt, target, life, threadVars, reg>>

\* update_control changes only what the operator names; here the concurrency.
SetTarget(n) ==
    /\ life = "up" /\ target # n
    /\ target' = n
    /\ UNCHANGED <<jobVars, globalPaused, life, threadVars, reg>>

Cancel(j) ==
    /\ life # "down"
    /\ status[j] \in Active
    /\ status' = [status EXCEPT ![j] = IF @ \in Slot THEN "cancelling" ELSE "cancelled"]
    /\ origin' = [origin EXCEPT ![j] = "none"]
    /\ retryAt' = [retryAt EXCEPT ![j] = "none"]
    /\ SignalRun({j})
    /\ UNCHANGED <<globalPaused, target, life, pc, held, reg>>

\* Mutant: another job may be downloading the code already.
RetryAnyCode(j) ==
    /\ life = "up"
    /\ status[j] \in {"failed", "cancelled"}
    /\ status' = [status EXCEPT ![j] = "queued"]
    /\ UNCHANGED <<origin, retryAt, globalPaused, target, life, threadVars, reg>>

\* retry and restart.  Unlike resume, neither looks at _active_cancels: only
\* the operator's patience keeps them away from a job a thread still holds.
Retry(j) ==
    /\ life = "up"
    /\ PatientOperator => reg[j] = NoThread
    /\ status[j] \in {"failed", "cancelled"}
    /\ \A k \in Jobs \ {j} : CodeOf[k] = CodeOf[j] => status[k] \notin Active
    /\ status' = [status EXCEPT ![j] = "queued"]
    /\ origin' = [origin EXCEPT ![j] = "none"]
    /\ retryAt' = [retryAt EXCEPT ![j] = "none"]
    /\ UNCHANGED <<globalPaused, target, life, threadVars, reg>>

\* remove, remove_failed_replacement and cleanup_missing.
Remove(j) ==
    /\ life # "down"
    /\ status[j] \in Terminal
    /\ status' = [status EXCEPT ![j] = "absent"]
    /\ origin' = [origin EXCEPT ![j] = "none"]
    /\ UNCHANGED <<retryAt, globalPaused, target, life, threadVars, reg>>

--------------------------------------------------------------------------------
\* Shutdown, crash, and the start of the next process.

Shutdown ==
    /\ life = "up"
    /\ life' = "stopping"
    /\ SignalRun(Jobs)
    /\ UNCHANGED <<jobVars, globalPaused, target, pc, held, reg>>

\* The process is gone and with it every thread and registration.
ProcessGone ==
    /\ life' = "down"
    /\ pc' = [t \in Threads |-> "exited"]
    /\ held' = [t \in Threads |-> NoJob]
    /\ cancelSet' = [t \in Threads |-> FALSE]
    /\ reg' = [j \in Jobs |-> NoThread]
    /\ UNCHANGED <<jobVars, globalPaused, target>>

Stopped ==
    /\ life = "stopping"
    /\ \A t \in Threads : pc[t] = "exited"
    /\ ProcessGone

Crash == life # "down" /\ ProcessGone

\* __init__: recover_interrupted, then the dispatcher threads.
Restart ==
    /\ life = "down"
    /\ life' = "up"
    /\ status' = [j \in Jobs |-> CASE status[j] \in Worker -> "queued"
                                   [] status[j] = "cancelling" -> "cancelled"
                                   [] status[j] = "pausing" -> AfterPausing(j)
                                   [] OTHER -> status[j]]
    /\ origin' = [j \in Jobs |->
           IF \/ status[j] \in Worker \cup {"cancelling"}
              \/ status[j] = "pausing" /\ AfterPausing(j) = "queued"
           THEN "none" ELSE origin[j]]
    /\ retryAt' = [j \in Jobs |-> IF status[j] = "cancelling" THEN "none" ELSE retryAt[j]]
    /\ pc' = [t \in Threads |-> "idle"]
    /\ UNCHANGED <<globalPaused, target, held, cancelSet, reg>>

--------------------------------------------------------------------------------
ThreadStep(t) ==
    \/ \E j \in Jobs : Peek(t, j)
    \/ GiveUp(t)
    \/ Claim(t)
    \/ RejectCheckpoint(t)
    \/ RejectCheckpointHalfDone(t)
    \/ \E s \in Worker : WorkerAdvances(t, s)
    \/ WorkerCompletes(t)
    \/ WorkerInterrupted(t)
    \/ WorkerCancels(t)
    \/ WorkerFails(t)
    \/ WorkerDefers(t)
    \/ RunEnds(t)
    \/ PostRun(t)
    \/ FinishRun(t)
    \/ PostRunStoreError(t)
    \/ FinishRunStoreError(t)
    \/ ThreadExits(t)

Command(j) ==
    \/ Create(j) \/ Pause(j) \/ Resume(j) \/ Cancel(j) \/ Retry(j) \/ Remove(j)

Next ==
    \/ \E t \in Threads : ThreadStep(t)
    \/ \E j \in Jobs : Command(j) \/ RetryDue(j)
    \/ GlobalPause \/ GlobalResume
    \/ \E n \in 1..Cardinality(Threads) : SetTarget(n)
    \/ Shutdown \/ Stopped \/ Crash \/ Restart

Spec == Init /\ [][Next]_vars

\* A thread whose run was told to stop ends it (the process group is killed after a
\* grace period), its last two sections only wait for the lock, and the container
\* is restarted (docker-compose.yml, restart: unless-stopped).
Fairness ==
    /\ \A t \in Threads : /\ WF_vars(cancelSet[t] /\ RunEnds(t))
                          /\ WF_vars(PostRun(t))
                          /\ WF_vars(FinishRun(t))
    /\ WF_vars(Restart)

FairSpec == Spec /\ Fairness

--------------------------------------------------------------------------------
\* Properties.

AtWork(t, j) == held[t] = j /\ pc[t] \in InRun

\* The abstract specification: who works on what (see JobLease).
Lease == INSTANCE JobLease WITH holders <- [j \in Jobs |-> {t \in Threads : AtWork(t, j)}]
LeaseSpec == Lease!Spec

\* A job that occupies a concurrency slot has a thread that will give the slot
\* back, registered under _active_cancels so that a command can reach it; a job
\* without one would block the queue until the next restart.
SlotJobHasItsThread ==
    \A j \in Jobs : life # "down" /\ status[j] \in Slot =>
        reg[j] # NoThread /\ AtWork(reg[j], j)

\* While a thread runs a job's worker process, the job's row says so.  A row that
\* is queued, paused or terminal has no worker: it may be claimed, its files removed.
RunningWorkerIsOnRecord ==
    \A t \in Threads : pc[t] = "running" => status[held[t]] \in Slot

\* A stop that was asked of a job has reached its run: the worker of a job that is
\* pausing or cancelling has its cancel_event set, whoever asked and whenever.
StopReachesTheRun ==
    \A j \in Jobs : life # "down" /\ status[j] \in {"pausing", "cancelling"} =>
        reg[j] # NoThread /\ cancelSet[reg[j]]

\* Whatever commands, claims and ends of runs meet, a job in a slot is in somebody's hands,
\* and a stop asked of it is in the hands of that very thread.
SlotJobIsAttended == SlotJobHasItsThread /\ StopReachesTheRun

\* Once the operator has paused everything, no job is in an interruptible phase:
\* the claims that were in flight did not slip through.
GlobalPauseDrains == globalPaused => \A j \in Jobs : status[j] \notin Pausable

\* Lifting the global pause leaves no job behind in it, in whichever order the
\* pause, the worker's end, the resume and a crash came.
NoForgottenGlobalPause ==
    ~globalPaused => \A j \in Jobs : ~(status[j] = "paused" /\ origin[j] = "global")

\* A retry_wait job always has its time (without one, no query would ever find
\* it), and a retry time never survives on a job that is not waiting for it.
RetryTimeIsKept ==
    \A j \in Jobs :
        /\ status[j] = "retry_wait" => retryAt[j] # "none"
        /\ retryAt[j] # "none" => status[j] \in {"retry_wait", "paused"}

\* Two active jobs never download the same work (the partial unique index
\* web_download_jobs_active_code would otherwise refuse a recovery or a resume).
OneActiveJobPerCode ==
    \A j, k \in Jobs : CodeOf[j] = CodeOf[k] /\ {status[j], status[k]} \subseteq Active
                          => j = k

\* "Download worker stopped before completion" (manager.py): a job that has ended
\* has no worker process any more.
EndedJobHasNoWorker ==
    \A t \in Threads : pc[t] = "running" => status[held[t]] \notin Terminal

\* A job the operator paused starts again only when the operator resumes it:
\* no global resume, event, claim, recovery or second worker does it instead.
HeldByOperator(j) == status[j] \in {"pausing", "paused"} /\ origin[j] = "manual"
OnlyResumeUndoesPause ==
    [][\A j \in Jobs : HeldByOperator(j) /\ status'[j] \in Pending \cup Worker
                          => Resume(j)]_vars

\* A cancellation is only ever overtaken by a completion that was already on its
\* way, and nothing overtakes a completion: however late a thread, an event, a command
\* or a recovery comes, the job is not put back to work or downloaded again.
CancelIsFinal ==
    [][\A j \in Jobs : /\ status[j] = "cancelling" =>
                             status'[j] \in {"cancelling", "cancelled", "completed"}
                       /\ status[j] = "completed" =>
                             status'[j] \in {"completed", "absent"}]_vars

\* More jobs than the target may be running after the target is lowered, but no
\* step makes them more while they are above it, and none does while paused.
SlotsGrowWithinTarget ==
    [][Cardinality(SlotJobs') > Cardinality(SlotJobs) =>
          Cardinality(SlotJobs') <= target' /\ ~globalPaused']_vars

\* A cancellation or a pause that waits for its run comes to an end, whatever the
\* worker was doing and whether the process is restarted meanwhile.
StopsEnd ==
    \A j \in Jobs : \A s \in {"cancelling", "pausing"} : status[j] = s ~> status[j] # s
================================================================================
