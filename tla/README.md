# JAV-Pilot: a verification project in TLA+

JAV-Pilot is a self-hosted Python service (FastAPI, SQLite, one process in one
container) that searches for videos, downloads them from the web or through
qBittorrent, archives them with their metadata and notifies the operator. This
directory holds TLA+ models of its stateful parts, the TLC configurations that
check them on small instances, and theorems checked by TLAPS. Every definition
is translated from the code under `src/jav_pilot/`; `PROJECT.json` says for each
one which lines it stands for.

Contents

1. [The system](#1-the-system): components, state, interactions, what is hard
2. [The modules](#2-the-modules): what each models and how it corresponds to the code
3. [The runs](#3-the-runs): what TLC checks, within which bounds
4. [Fairness and assumptions](#4-fairness-and-assumptions)
5. [The proofs](#5-the-proofs)
6. [What the models found](#6-what-the-models-found)
7. [What is not modelled](#7-what-is-not-modelled)
8. [The plan](#8-the-plan)

To repeat a check: `tlc -config WebDownloadJobs.cfg MCWebDownloadJobs`; to
repeat a proof: `tlapm WebDownloadJobsProofs.tla`.

## 1. The system

The parts that keep state, what their correctness is, and where they stand here.

| Component | State it keeps | Operations | What makes it correct | Model |
|---|---|---|---|---|
| Web download jobs and dispatcher (`web_download/manager.py`, `job_store.py`, `jobs.py`) | `web_download_jobs` (status, pause origin, retry time), `web_download_control` (global pause, target); in memory `_active_cancels`, `_stopping`, dispatcher threads | claim, worker events, pause, resume, cancel, retry, remove, global pause and resume, target, shutdown, recovery | a job in a slot has a thread that gives the slot back; a stop reaches the worker it is meant for; pauses, cancellations and completions last; no job is lost by a crash | `WebDownloadJobs`, `JobLease` |
| Queue order (`job_store.py`, `job_schema.py`) | priority, `queue_position`, `queue_revision` | append, claim the head, reorder, set priority, renumber | positions differ; only a reorder changes the order; a reorder applies to the queue the user saw | `WebDownloadQueue` |
| Retry budget (`job_store.py`) | `retry_count`, `retry_progress_*`, `checkpoint_*` | progress, checkpoint reset and reconciliation, deferral, interruption | retries are bounded by what was downloaded; progress of a run always counts | `RetryBudget` |
| Notification outbox (`notifications/outbox.py`, `dispatcher.py`) | events, deliveries with leases, adapter registry | enqueue, reconcile, claim, finish, manual retry | delivered means confirmed; tries are bounded; a duplicate needs an expired lease; each delivery ends | `NotificationOutbox` |
| Worker process (`runner.py`, `worker.py`) | a process group, an event stream, a shield during publication | start, watchdogs, terminate, kill | one run ends once; a kill leaves recoverable files | how a run ends, in `WebDownloadJobs` |
| Archive publication (`archive_writer.py`, `worker.py`, `cleanup.py`) | the library's video, the `.backup` and `.failed` files of each job, the finalize lock | resolve, publish by rename, undo, recover, clean up | once the library had a video, a complete one can be had; what is replaced is what was seen | `ArchivePublication` |
| Disk budget (`storage.py`) with the workers that fill the disk (`hls.py`, `worker.py`) | leases of bytes on one filesystem or two; segments, TS, MP4 and the library's copy | reserve, resize, release; fetch, assemble, remux, archive | the free space stays above its floor but for what the budget is known not to see | `StorageReservations` |
| Replacements (`downloads/replacements.py`, `resource_recovery.py`) | the row of a failed download with its target, leases, discovery and selection | make, discover, select, submit, dispose of the failed download | a failure gets one new download, and goes only after it | `DownloadReplacements` |
| Batches and auto rules (`batch_*.py`, `auto_*.py`) | intents, chains, discovery tables | submit, follow a job's end, discover | an intent is submitted once and ends with its job | not modelled |
| Metadata publication and review (`media_metadata/review/`, `media_metadata/publish.py`) | the sidecar files of a video, journals on disk, a row for each publication, drafts | preview, check, journal, write each file, record, roll back, recover at the start | all files change or none, through every error and crash; what others wrote unseen is not overwritten | `MetadataPublication`, without drafts and refetches |
| Magnet selection | candidate tasks in qBittorrent | probe, select, clean up | every candidate not chosen is removed | its outcome, in `DownloadReplacements` |
| Browser gate (`missav/browser_gate.py`) | a bounded number of browsers, waiting downloads and captures | acquire, release | downloads go first; no permit is lost | not modelled |
| Library index, history, cleanup, subtitles, covers, search, rankings, indexers, translation, security, configuration, API, frontend | see `PROJECT.json` "components" | | | not modelled, with the reasons there |

**How they interact.** The API routes and the batch scheduler call the manager.
Every entry of the manager takes one lock (`_condition`) and, under it, calls the
store, whose statements run in one SQLite transaction. Dispatcher threads take a
job under the same lock, let it go, start a worker process and read its events;
each event is applied under the lock again. A command reaches a running worker
only through the `threading.Event` registered in `_active_cancels`. A change of
a job to a terminal status writes a notification event in the same transaction;
the one dispatcher thread of the notification runtime polls each outbox. The
page reads the list and the control row in two requests to the store and sends
the revision back with a reorder. The worker processes of different jobs meet in
the file system: at the finalize lock, under which one of them at a time makes
its video and puts it into the library, and on the disk, whose budget the manager
keeps in memory by what the workers report. A failed download gets a row in the
replacement store; request threads and the probing threads work on it in
transactions of their own and call qBittorrent or the download manager in between.
A review publishes its metadata into the folder of the video, where the media server, the
operator and the automatic metadata write the same files without any lock.

**What is hard.** The lock is released between choosing a job and claiming it,
between the worker's last event and the thread's last two sections, and between
the answer of a webhook and its record. In every gap the operator may pause,
cancel, retry, shut down, or the process may die, and the next process has only
the rows to go by. A publication is a sequence of renames that a kill or an I/O
error may cut anywhere, while cleanups that take no lock look at the same files.
A worker writes first and reports later, so the budget is always behind the disk.
A request that submits a replacement may outlive its lease and answer a row that
somebody else works for. Several files and a row of the database are to change at once, and no
transaction spans them. Each hazard is listed, at its line and with the properties
that watch it, in `PROJECT.json` "hazards".

## 2. The modules

One rule holds for all of them: **one action is one critical section**, the code
between taking and releasing a lock, with the SQLite transaction inside it. What
happens in one section cannot be interleaved, by the lock or by `BEGIN IMMEDIATE`;
what happens in two can, and the models interleave everything else.

### WebDownloadJobs

| Variable | In the code |
|---|---|
| `status`, `origin`, `retryAt` | columns `status`, `pause_origin`, `next_retry_at` of a job; `absent` where there is no row; a time is null, ahead or reached |
| `globalPaused`, `target` | `web_download_control`: `global_paused`, the effective `target_concurrency` |
| `life` | running, `_stopping`, or no process |
| `pc[t]`, `held[t]` | where the dispatcher thread is: idle, a candidate chosen (`peeked`), the worker running, the worker gone (`ended`), last section of `_run_job` done (`unwinding`), thread gone |
| `cancelSet[t]` | the `cancel_event` of the thread's run |
| `reg[j]` | `_active_cancels[job_id]`: whose run is registered |

| Actions | Code |
|---|---|
| `Peek`, `GiveUp`, `Claim`, `RejectCheckpoint` | the two halves of `_dispatch` and `claim_next_runnable`, which checks admission and the candidate again |
| `WorkerAdvances`, `WorkerCompletes`, `WorkerFails`, `WorkerDefers`, `WorkerCancels`, `WorkerInterrupted` | `_apply_event` for the events of the worker process |
| `RunEnds` | `runner.run` returns without an event that moves the job: terminated, stalled, exited, an ignored or invalid event, disk budget |
| `PostRun`, `FinishRun` | the last section of `_run_job`; the `finally` of `_dispatch` with `finish_pausing` and the end of a cancellation |
| `PostRunStoreError`, `FinishRunStoreError`, `RejectCheckpointHalfDone` | the same when SQLite refuses a write and the error is swallowed |
| `Create`, `Pause`, `Resume`, `Cancel`, `Retry`, `Remove`, `GlobalPause`, `GlobalResume`, `SetTarget` | the commands |
| `Shutdown`, `ThreadExits`, `Stopped`, `Crash`, `Restart` | `close`, the threads seeing `_stopping`, the end of the process in order or not, `__init__` with `recover_interrupted` |

Abstracted: which runnable job is the head (`WebDownloadQueue` says which; here
any may be), whether a failure has budget left (`RetryBudget`), progress, names
and messages. A closed weekly schedule is a time at which no claim happens.

### JobLease

What the dispatcher promises: one thread per job, one job per thread, taken and
given back, everything dropped by the end of the process. `WebDownloadJobs`
implements it with `holders[j]` = the threads in their run on `j`
(`LeaseSpec`, checked by TLC and proved).

### WebDownloadQueue

`priority`, `position`, `created` and `revision` are the columns of the same
names; `place` is the status as far as the queue tells one from another; `view`
is what the client's page holds, which it read in two steps (`ReadList`,
`ReadControl`). The revision is kept by SQLite triggers, so `Commit` advances it
where `TriggerFires` says a trigger sees the change, and not where an operation
would like it advanced. `Recover` queues interrupted jobs with the position they
had, appends the lifted pauses and renumbers, in that order; `Reorder` hands the
ranks of the named jobs out among them (`NewRank`) and renumbers.

### RetryBudget

One job. `retryCount`, `base` and `checkpoint` are `retry_count`,
`retry_progress_*` and `checkpoint_*`; bytes and fragments, which the code
compares in the same way and of which either is enough, are one number. Four
history variables count what the properties speak of: automatic retries, times
the budget was given back, everything downloaded, and what this run reported.

### NotificationOutbox

`state`, `attempts`, `due`, `lease` and `token` are the columns of a delivery;
`recorded` and `recent` the events, all and those inside the backfill window; `newer`
how many events were recorded since each, which is what a backfill goes by: it takes the
newest `MaxBackfill` (100 in the code, and a comment there calls the limit deliberate). Events
beside those in `Events` are only counted (`EnqueueOther`). `Replay` is the report of an event that is
recorded already; it leaves the rows as they are, and its mutant does not.
`registry` the adapter table, `configured` and `reconciled` the installed
dispatcher; `claim` what a dispatcher thread carries between `claim`, `send` and
`finish`. `Claim` and `Sweep` first take expired leases back and close exhausted
rows, as `claim` does in one transaction whether or not it finds a row. Time is
what the code compares: a lease has run out or not, a retry is due or not. The
token is a random string in the code and here the worker that wrote it: a worker
holds one claim at a time, so a row that bears its name and is in flight is the
row of the claim it holds, or of one that was lost in a crash.

### ArchivePublication

| Variable | In the code |
|---|---|
| `target` | the video under the archive path; a video is named by the run that made it, which is what a comparison of device, inode, size and time tells apart |
| `backup[j]`, `failed[j]` | the files of job `j` beside it, whose names derive from the job's id |
| `lock` | `exclusive_finalize_lock`, a lock on a file, which the kernel frees with the process |
| `status`, `cancelling`, `policy` | of the job's row |
| `pc`, `recovery`, `saw`, `run`, `runs` | where the worker is in `run_task` and `archive_video`, where its recovery is, the identity it resolved, the number of its run |
| `cleaner`, `purpose` | where the manager's cleanup of the job's artifacts is and what it is for |
| `collided` | history: a cleanup put a backup back during a publication |
| `strayed[j]` | history: the run judged the quality of another file than the one it had resolved |

| Actions | Code |
|---|---|
| `Start`, `TakeLock`, `RecoverLook`, `RecoverRestore`, `RecoverClear`, `Resolve`, `Compare` | the run up to its download: `resolve_policy_archive_target` with `_recover_archive_replacement` under the lock, the comparison of qualities outside it |
| `Shield`, `Check`, `BackUp`, `Publish`, `Settle`, `Measure`, `Report` | `archive_video` under the lock, call by call, and the `completed` event after it |
| `Fails`, `Undo`, `UndoRestore`, `UndoClear`, `UndoFails`, `Killed` | an I/O error, the `except` clause and its own errors, SIGKILL |
| `EndRun`, `Cancel`, `Retry`, `Clear`, `CleanupMissing` | the manager's side: the end of a run, the commands, the deletion of rows whose file is not there |
| `CleanLook`, `CleanRestore`, `CleanDrop`, `CleanSweep`, `CleanFails` | `_cleanup_archive_directory`, which takes no finalize lock |
| `Crash` | the container with everything in it, and the start that cleans up after completed jobs |

Abstracted: the `.part` copy, which is deleted but never read; a target of no
bytes; the policy `keep_both` of old rows; the file's quality is a number of its
job. Left out: two cleanups of one job at once, and a worker in uninterruptible
I/O that survives its SIGKILL.

### StorageReservations

| Variable | In the code |
|---|---|
| `shared`, `size` | whether staging and library have one device; the bytes of each medium (both fixed in `Init`, so that one run ranges over all) |
| `leases[j]` | `_LeaseState`: `media_bytes` and `downloaded_bytes` |
| `report[j]` | the progress event between worker and manager |
| `stage[j]`, `kept[j]`, `got[j]`, `copies[j]`, `lock` | how far the worker is, committed segments, what has arrived, the further copies of its medium, the finalize lock |
| `held[j]` | bytes of an encrypted segment that are in memory (`encrypted_payload`), reported as they come and written when the segment is complete |
| `missed[j]` | history: bytes that the budget takes for written and that are not there, or that were granted without a look |

`TryReserve`, `Apply` (`_try_resize`) and `Release` are the budget; `Prepare`, `Write`,
`Buffer`, `Decrypt`, `Commit`, `Discard`, `Report` and `Complete` the transfer of segments, of
which `Buffer` and `Decrypt` are those of an encrypted one, whose report (`Arrived`) is ahead of the
disk by what is held and by up to `Padding` bytes that the decryption drops; `TakeLock`,
`Assemble`, `Remux`, `StartArchive`, `Publish` and `DiscardStaging` the
finalization, each with the look at the disk the worker takes before it
(`require_free_space`); `Stop` a failure or a kill at any point with what it leaves,
`Remove` the manager's cleanup, `Crash` the container.

Simplified: HLS only (a progressive download makes no TS and no MP4 of its own);
at most one event is under way between a worker and the manager; a worker whose
report was refused goes on until it is stopped; nobody else writes to the disk; a
job keeps one medium; a copy into the library takes its space at once; the
reports of a pausing job, which the manager ignores, are reports not made.

`FloorIsKept` says how far the free space may fall below `min_free_bytes`: by no more
than bytes not yet reported (`Overrun`: of a medium beyond its lease, and for the holder of
the finalize lock of both its copies, which are budgeted with the largest medium on
lease), bytes the budget took for written or granted without a look (`missed`: a part that was reported and
discarded, an encrypted segment that was still in memory when the budget looked at the disk), and copies
that a job without the finalize lock still has (`Stray`). The last is what a comment in
`storage.py` overlooks (section 6). `Required` is made of the parts of `_aggregate_required`:
`Remaining`, `Largest` and, for a library on a filesystem of its own, `Media`.

### DownloadReplacements

One failed download and its rows, one after the other.

| Variable | In the code |
|---|---|
| `id`, `row` | the present row: status, the failure's revision, the bound target, the submission lease, the discovery with its lease and results, the smart selection |
| `source` | the failed download: there and failed, at work again, or gone; its revision |
| `known`, `there` | targets of each row that a request created, or looked for and found; targets created for it, or that qBittorrent is yet to add, and not missed since |
| `pc`, `mine`, `goal` | where each request thread is, the row it works for, what it submits or asks for |
| `cleanup` | `DOWNLOAD_REPLACEMENT_CLEANUP_LOCK` |
| `probe[i]` | the row's place in the recovery manager: `_scheduled`, the queue, a worker thread |
| `overran` | history: a target was created by a request without a valid lease, or a row was released from a torrent that was yet to come |

`Create`, `Enqueue` and `Poll` are POST and GET of the route; `ClaimDiscovery`,
`FinishDiscovery`, `LoseDiscovery` and `Unschedule` the worker threads; `Select` and
`FinishSelection` the smart selection; `Submit`, `Claim`, `CheckSource`, `Send`,
`Mark`, `Confirm`, `RemoveSource`, `Finish` and `Recover` a submission, from reading the row
to removing the failed download, each call to another system a step of its own;
`Preview`, `Dispose`, `BeginDisposition`, `Discard` and `FinishDisposition` the disposal
of failures without another source; `Fails` and `Crash` the end of a request, or of all
of them, between any two steps.

What the client says of a torrent is no more than it can know. An add request may end in an error
(its timeout is 15 s), the look after it find nothing, the row be released, and the torrent still
come: the third way of `Send`, after which it is in `there`. And a look asks for a hash and a category
only, so it may find a torrent that somebody else has added (`Seen`).

Simplified: reading the failed download and `create_or_reuse` are one step; so are
the look at a torrent and its deletion (the failure here is a web job);
`cleanup_failed`, which behaves as `replacement_created`, is `created`;
`manual_magnet` is `smart_magnet` without the selection; results that were not made or
were inconclusive are `unknown`; a download the operator deletes is noticed at the
next look for it; the seven days of a row outlast every request. The set of recoveries asked for
is a constant, as is the number of rows and of changes of the failure.

### MetadataPublication

| Variable | In the code |
|---|---|
| `file[a]`, `aside[a]` | what the sidecar file holds; what an exchange has moved to a temporary name beside it |
| `journals`, `recorded` | the journals on disk; the publications that have their row (`record_publication`) |
| `preview` | the preview nobody has consumed yet: for each file the body it had and the one it is to have |
| `pc`, `now`, `back`, `done`, `at`, `held`, `matches` | where the holder of `_publication_guard` is, its journal, forward or back, the files behind it, the file it is at, what an exchange gave it and whether that was expected |
| `serving`, `todo` | the review manager exists; journals it loaded at the start and has not recovered |
| `stale` | files that others wrote since they were last looked at: what `same_artifact_state` tells |
| `exchange` | the filesystem can exchange two names (`renameat2`), fixed in `Init` |
| `sees`, `unseen`, `touched`, `overlapped`, `unnoticed` | history: what each file is to hold, what others wrote and no preview showed, whether they wrote into a publication, whether two journals met, whether a write was missed |

| Actions | Code |
|---|---|
| `Preview`, `Begin`, `Check`, `PersistJournal`, `PersistFails` | `preview_publish` and `_publish_locked` up to the journal |
| `Unchanged`, `Create`, `Copy`, `CopyFails`, `Exchange`, `Look`, `Replace`, `Accept`, `GiveBack`, `GiveBackFails`, `Verify` | each file, forward: `_publish_no_replace` and `replace_regular_artifact`, call by call |
| `Uncreate` and `Look`, `Exchange`, `Replace`, `Accept`, `GiveBack` with `back` | `rollback_journal_artifacts`, whose own look comes a step before the exchange |
| `Record`, `RemoveJournal` | the commit and the end |
| `Preflight`, `RolledBack`, `Tidy`, `Recovered`, `RecoveryFails` | `_recover_publish_journal`, after an error and at a start |
| `StartUp`, `NextJournal`, `Crash` | `__init__` with `_recover_publish_journals`, the end of the process |
| `Fails`, `Foreign` | an I/O error anywhere; somebody else's write or deletion |

`Create` links the new file under its name or, where the link fails, opens the name as an empty file
and copies into it (`Copy`); in between the file is `Partial`, empty or a part of what it is to
hold. A copy may end in an error, upon which the code unlinks whatever has the name
(`CopyFails`), or with the process.

Simplified: one preview at a time; the files are taken in any order, where the code has one; a
check and the `unlink` or the exchange back that follows it at once are one step; journals and backups,
under a root of the service's own, are linked and never copied; others write by
renaming a file into place, and never by chance what a publication under way proposes for
that file, which nothing could tell from its own work.

`AllOrNothing` is the abstract promise: with the lock free and no journal left, each
file holds what was last recorded for it or written by others. The history variables name
what the code cannot keep: publications that meet a journal nobody has resolved
(`overlapped`), and writes that come between a look and a replacement, or under a copy that fails
(`unnoticed`, section 6). `JournalCanBeRecovered` excepts by name what the preflight does refuse
although only the publication has made it: a file to be created whose copy was cut short (`CutShort`).

### Mutants

Next to some actions stands a variant whose comment begins with "Mutant". It is no
part of the specification: it is the action with a plausible bug (a dropped
guard, a missing reset, an off-by-one). `PROJECT.json` "mutants" pairs each
property with a mutant under which TLC finds the property violated, so that every
property is known to be able to fail.

## 3. The runs

| Run | Instance | What it shows | States |
|---|---|---|---|
| `jobs` | 2 jobs of different codes, 2 threads, patient operator, with fairness | types; a slot has its thread; stops reach their run; a global pause drains; retry times are kept; only resume undoes a pause; slots grow within the target; `JobLease` is implemented; a job that is cancelling or pausing comes to rest, across crashes and restarts | 174,932 |
| `jobs_hostile` | 2 jobs of one code, 2 threads, impatient operator, failing store | what survives even that: no job forgotten in the global pause, one active job per code, cancellations and completions are final | 811,520 |
| `jobs_early_retry` (violation) | as `jobs`, impatient operator | a retry before the thread of the failed run is done: see section 6 | |
| `queue` | 3 jobs, 2 priorities, 6 changes | positions differ; a revision names one queue; overtaking is asked for; a reorder does what was asked | 157,724 |
| `queue_stale_view` (violation) | 2 jobs, 5 changes | the page can hold an old queue under the current revision: see section 6 | |
| `retry_budget` | 3 delays, threshold 2, medium of 4, 7 gained in all | retries are earned; a retried run is measured; a job is given up only without progress | 14,328 |
| `outbox` | 1 delivery, 1 newer event, backfills of 1, 2 dispatchers, 3 attempts, 1 crash, 1 manual retry, 2 reconfigurations, with fairness | delivered was confirmed; tries bounded; duplicates need an expired lease; one worker per lease; an enabled adapter is served but for events older than a backfill takes; outcomes are final, also against replays; the delivery of an enabled adapter reaches one | 622,890 |
| `archive` | 2 jobs of different quality and one video between them, 3 runs, every policy | a video that was there can always be had; what is replaced is what was seen; a job that asks for higher quality replaces lower quality only | 2,721,039 |
| `replacements` | 2 requests, 1 row, every mode | one new download per failure; a disposal keeps its row; the failed download goes last | 3,030,942 |
| `replacements_discovery` | 1 request, 2 rows, 1 change of the failure, with fairness | no queued discovery is forgotten | 414,694 |
| `metadata` | 2 files, 2 bodies, 2 publications, 1 write by others, with exchange and without | all files change or none; a journal can be recovered from, but for a copy cut short; what others wrote unseen is kept | 1,620,272 |
| `storage` | 2 jobs, media of 1 or 2 units, a disk of 7 with a floor of 1, one filesystem or two, segments in the clear and encrypted | the floor is kept but for what the budget cannot see | 1,248,275 |

**Why the bounds are enough.** The jobs module has no counters, so its runs are
exhaustive for their sets. Two threads on two jobs are the least for a job held by
a thread while another claims it, for a candidate taken by somebody else, and for
a target (1 or 2) lowered below the number in use; a third of either adds no
guard that looks at three. What two jobs could hide is covered by the theorems,
which hold for every number. The queue needs a third job, a bystander between two
that change places; six changes let all three join, one be claimed or paused, and
a recovery, a reorder and another change follow. The budget's constants keep
3 delays as in the code and a threshold below the medium, so that a credit can be
earned, lost to a reset and earned again; `MaxGained` 7 allows three credits. One
delivery is enough for the safety of the outbox, since rows influence each other
only by which is claimed first; its second dispatcher stands for the one of a
process that is slow to die, and one newer event is as many as its backfill takes, so that the
delivery is within it or left out. That one adapter cannot starve another is not
checked: two adapters with two dispatchers have over ten million states.

Two jobs with three runs between them are the least for a publication that meets
the leftovers of an earlier run of its own job and the file of another job; the
library's first video lies between the two in quality, so that each policy can
replace and refuse. One row and two requests are enough for what two requests can
do to a row, and a third request would find the row as one of the two left it;
the properties over several rows (`OneTarget`, `SourceGoesLast`) are proved for every number. The
discovery run has two rows, so that a queued row may belong to a failure
that is no longer the present one. In the storage run a disk of 7 holds one job with
its two further copies but not two, so that each refusal and each wait happens,
and a medium of 2 can be interrupted in its middle. The run counts an encrypted segment without
its padding (`Padding` 0), which is 16 bytes at most; with a padding of 1, half of the medium, the property
holds as well (2,309,526 states). With two jobs the term `Stray`
never binds. With three (`MaxFile` 1, `Capacity` 6, 2,824,754 states) `FloorIsKept`
holds, and without the term it is violated: two jobs with a finished MP4 that they have
not removed, while a third assembles. That an unreported medium makes both copies
larger than budgeted (section 5) was seen with media of up to 3 on a disk of 10, which is too
large for a run; the theorem is for every size. Two files are what a mixture takes, two bodies give a file
its old, its new and no content, and two publications let one meet the leftovers of another; a
second write by others (5,050,762 states) changes nothing.

**Where deadlock checking is off** (`CHECK_DEADLOCK FALSE`): the queue stops at
`MaxRevision`, the outbox with its bounded commands used up and no adapter
enabled, the archive with all runs used up and the rows removed, the storage model
when both jobs are done and tidied up; these are ends of the bound, not of the code. In
the other modules a deadlock is an error.

**Symmetry** is used on threads (`jobs_hostile`, `jobs_early_retry`), on jobs (`queue`,
`storage`), on requests (`replacements`) and on files and bodies (`metadata`), never in a run with liveness.

## 4. Fairness and assumptions

`WebDownloadJobs!Fairness`:

- `WF(cancelSet[t] /\ RunEnds(t))`: a run that was told to stop ends. `runner.py`
  terminates the process group and kills it after `cancel_grace_seconds`. A run
  nobody stopped may go on for ever: no fairness is assumed of downloads.
- `WF(PostRun)`, `WF(FinishRun)`: the thread's last two sections wait for nothing
  but the lock.
- `WF(Restart)`: `restart: unless-stopped` in `docker-compose.yml`. Crashes are
  not fair and not bounded.

`NotificationOutbox!Fairness`: the dispatcher thread loops as long as the process
lives (`Reconcile`, `Sweep`, `Claim`, `Finish`), every transport has a timeout
(`Send`), the clock advances (`LeaseExpires`, `BecomesDue`). Weak fairness is
enough; each claim of a delivery counts toward its attempts, so that even a store
that refuses every outcome ends in `dead`.

`DownloadReplacements!Fairness`: the page repeats its request while a discovery is
queued or running (`Poll`), and the worker threads take from their queue and end
each probe, which has a timeout (`Worker`). Requests are not fair: a user may never come back.

`ArchivePublication`, `StorageReservations` and `MetadataPublication` state no fairness; their
properties are about safety.

Assumptions on the environment, each visible in a module:

- `PatientOperator` (constant): retry and restart are asked for only once no thread
  holds the job. The code does not check it (section 6). Properties that fail
  without it are checked and proved with it; the others without.
- `StoreMayFail` (constant): SQLite may refuse the writes whose errors the code
  swallows. With it a slot can stay occupied until the next start; that is the
  code's choice, so `SlotJobIsAttended` is checked without it.
- `RetryDue` waits for the deferring thread to be gone: the shortest delay is
  96 s (120 s less 20 % jitter), that of a thread after its run's end seconds.
- `Create` uses fresh identities: an identity of the model is used again only
  once no thread remembers it, as a random `job_id` never is.
- `Ages` happens to an event only under a reconciled registry: a new dispatcher is
  woken at once, the backfill window is five minutes.
- `RowAges`: no request outlasts the seven days of a replacement row.
- `OneTarget` is claimed for submissions within their lease whose torrents come in time: a request
  that creates its target after the lease has run out, and a row that is released from
  a torrent yet to come, are recorded in `overran` (section 6).
- `JournalCanBeRecovered` is claimed but for a copy cut short (section 6). Under the root of the
  backups links are taken to succeed: a journal that is copied, and cut short in it, is on disk in
  part, which the model does not have.
- `EnabledAdapterIsServed` goes by the order in which events are recorded, the code by the time
  of the record (`created_at`): the clock does not go back.
- The disk begins above its floor (`MinFree <= Capacity`). On one that does not, no job is
  ever reserved and there is nothing to keep.
- A killed worker is gone: the lock is free and it writes no more.
- Others replace a sidecar file by a rename and do not write into the file itself.
- The process and its workers die together, as a container does. A manager that
  dies alone leaves a worker running in its own session; this is outside the
  models (listed as a hazard).

## 5. The proofs

`tlapm` checks every theorem for every value of the constants (any sets of jobs
and threads, requests and rows, any thresholds and bounds), from the named assumptions
of the modules. Of the 40 properties the passing runs check, all are proved but the three
liveness properties `StopsEnd`, `DeliveryEnds` and `QueuedIsProbed`.

**WebDownloadJobsProofs.** `TypeCorrect` is the type invariant. The safety
properties are not inductive as they stand. Take `SlotJobHasItsThread`: to keep it,
a claim must not register a job that has a registration, so one must know
that a queued job has none; a paused job may be queued by a global resume, and a
waiting one becomes due, so those must have none either (`QueuedIsFree`). A
thread about to finish removes the registration under its job's name, so that must
be its own (`Registered`). `PostRun` is what takes a row out of a worker status,
and a row that keeps one after it would keep its slot for ever, so a row in a
worker status has a thread before that section (`WorkerIsAttended`). The
conjunction, with `StopReachesTheRun`, `RunningWorkerIsOnRecord` and what holds
when there is no process (`NothingAtRest`), is

    Ownership == TypeOK /\ Registered /\ QueuedIsFree /\ WorkerIsAttended
                   /\ StopReachesTheRun /\ NothingAtRest /\ RunningWorkerIsOnRecord

`OwnershipStep` proves it kept by each action, one step per action, under
`PatientOperator` and without `StoreMayFail`; an impatient retry breaks
`QueuedIsFree` at once, which is the finding of section 6. From it:

| Theorem | States | Assumes |
|---|---|---|
| `OwnershipCorrect` | the inductive invariant | patient operator, store takes its writes |
| `SlotJobsAttended` | `SlotJobHasItsThread` | the same |
| `StopsReachTheirRun` | `StopReachesTheRun` | the same |
| `SlotJobsAreAttended` | both together, `SlotJobIsAttended`, as the run checks it | the same |
| `EndedJobsHaveNoWorker` | `EndedJobHasNoWorker` | the same: the violation of `jobs_early_retry` is due to the early retry alone |
| `LeaseImplemented` | `LeaseSpec`: initial states map to initial states, each step to a step of `JobLease` or a stutter | the same |
| `GlobalPauseTakesHold` | `GlobalPauseDrains` | the same |
| `OperatorsPauseHolds` | `OnlyResumeUndoesPause` | the same |
| `RetryTimesKept` | `RetryTimeIsKept`, with what a thread has caught of a job's end (`CaughtHaveNoTime`) | the same |
| `SlotsStayWithinTarget` | `SlotsGrowWithinTarget`: only a claim takes slots, one at a time (`OnlyClaimsTakeSlots`) | the same |
| `TypeCorrect` | `TypeOK` | nothing |
| `GlobalPauseForgetsNothing` | `NoForgottenGlobalPause` | nothing |
| `ActiveCodesDiffer` | `OneActiveJobPerCode` | nothing |
| `EndsAreFinal` | `CancelIsFinal` | nothing |

The last four hold whatever the operator and the store do: the lemmas
`ThreadStepRows` and `ThreadStepPauses` say once what a thread may do to the rows
of other jobs, and each proof then looks only at the commands.

**RetryBudgetProofs.** `RetriesAreEarned` bounds retries by credits and credits by
what was downloaded. A step that gives a credit needs to know that what it is
given for was not counted before, so the invariant keeps an account
(`Account`): retries are at most `MaxDeferrals` per credit plus the present
`retryCount`, and `Threshold` per credit plus what the running measurement has
seen is at most what was gained in all. `Measured` ties the baseline to the run:
while a retried run is in a slot it has a baseline, and the checkpoint is ahead of
it by at least what the run reported. Both are proved for every number of delays,
threshold and medium: `BudgetTypeCorrect`, `BudgetIsEarned`,
`RetriedRunsAreMeasured`, `NoProgressIsWasted`; the run checks the middle two as one property,
`BudgetIsKept` (`BudgetsAreKept`).

**WebDownloadQueueProofs.** The order of the queue is a matter of ranks: `NewRankOf`
says what a rank in a reorder is, `RanksDiffer` that two jobs never share one,
`PlacesHeld` that what is handed out among the named jobs is what they held. Where an argument would count
through the queue, the proof takes a smallest set for which the claim fails and removes
one job (`LastExists`, `UpToOrder`), since induction over the number of jobs is not at hand.
`RevisionNamesTheQueue` is kept because each change of what a
client orders by is one that a trigger sees. Theorems: `QueueInvariant`, `QueueTypeCorrect`,
`PositionsNeverCollide`, `RevisionsNameTheQueue`, `NobodyOvertakes`,
`ReordersAreHonoured`.

**NotificationOutboxProofs.** `DuplicatesNeedExpiredLease` counts confirmations against leases taken
back, and needs an account to be inductive: a row that is delivered, or may still become so by its
present claim, has one confirmation free; every other confirmation and every send under way has a
recovery to pay for it (`Accounted`). A claim that is not current was taken back
(`StaleWasRecovered`). What is owed and has no row is an event for an adapter that is not yet in the
registry, inside the backfill window and among the newest, or it is older than a backfill takes
(`Backfillable`). Theorems: `OutboxInvariant`, `OutboxTypeCorrect`, `DeliveredAreConfirmed`,
`TriesAreBounded`, `DuplicatesAreAccounted`, which the run checks together as `SendsAreAccounted`
(`SendsAccounted`), `LeasesExclude`, `EnabledAdaptersAreServed`, `OutcomesStayFinal`.

**ArchivePublicationProofs.** `VideoIsKept` is about the moments when the library's path is
empty: then some backup must be one that nobody drops before it is put back. `Safe(j)` says
which those are: its job has neither completed nor been removed, no cleanup has decided to
drop it, and its worker is not past the publication. `Kept` says that while the path is empty
there is one, `Prepared` what each rename and unlink relies on, `Attended` that a job's
artifacts are not cleaned up while it has a worker, `Matched` that the identity that was seen holds
until the file is moved. `UpgradesOnly` follows from that and from `Judged`, that a run which goes
on has found the file it resolved to be of lower quality. Theorems: `ArchiveInvariant`,
`ArchiveTypeCorrect`, `ReplacedIsSeen`, `VideoIsNeverLost`, `UpgradesAreUpgrades`.

**StorageReservationsProofs.** `StorageTypeCorrect`: types, and with them that a lease
lives exactly as long as its job's run, never counts more as downloaded than it is for,
and that who finalizes holds the lock.

`FloorIsKept` compares sums over jobs, and a worker and the budget each know only a part of what
they sum. The inductive invariant gives every job an account, `Balance(j)`: on one side what its
medium has beyond its lease (`Overdraft`), what the budget is known to miss and the copies that its
stage accounts for (`Made`); on the other what its lease still lets it write (`Undone`), what has
arrived and all the copies that are there. `Budgeted` says that the disk, with the sum of the
balances, leaves the floor and two copies of the largest medium on lease. What a report is ahead of
the disk, padding included, is in `missed` from the look that took it for written (`Looked`). No
step of a worker lowers the balance of its job (`WorkerKeepsBudget`); only the copies of the lock
holder are paid from the two that are set aside. A lease granted without a look raises `missed` by
what it and, twice, `Largest` grow (`UnseenGrowthKeepsBudget`); a look at the disk gives every
balance anew, whatever it was (`LookKeepsBudget`). `Placed` says which copies and reports there are
at each stage. For a library of its own nothing is missed: the worker looks before each copy it puts
there (`LibraryKept`). The sums need lemmas of their own, since induction over the number of jobs is
not at hand: `SubsetInduction` takes a smallest set for which a claim fails; `SumUnfolds` takes one
element off a sum of the community modules, and from it follow what one changed summand does,
monotonicity, sums of sums and of a part (`SumOfOneChange`, `SumMonotone`, `SumOfSums`,
`SumOfPart`). Theorems: `StorageTypeCorrect`, `StorageInvariant`, `FloorStaysKept`.

The proof changed the property. In its first form `Overrun` and `missed` counted the growth of
the medium alone, and no invariant could be found for it: both copies are budgeted with the
largest medium on lease, so a medium beyond its lease makes each of them larger too. TLC then
found the violation with 2 jobs, media of up to 3 and a disk of 10, after 5.5 million states:
the holder of the finalize lock has a medium of 3 and a lease of 2, and its exact report is not
yet applied.

**DownloadReplacementsProofs.** `OneTarget` is kept by the binding of a row to its target, which a
request that holds the row lifts in two cases: it finds its target missing, or it finds that the
failure is not the one the row was made for. In the first there is no target, or a torrent that
comes later, which `overran` records; in the second there may be one, but then no request for this
row ever passes its check of the failure again (`Spent`). `Bound` says just that, and `Submits`
carries it through the steps of the request that holds the row. `DisposalIsHeld` rests on the
cleanup lock (`Disposes`), `SourceGoesLast` on `Confirms`: a request that is about to remove the
failed download knows the target its row is bound to, and the binding of a row whose target was
created is never lifted (`Settled`). Each action preserves the invariant by a lemma of its own; most
of them change nothing the invariant looks at (`CalmStepKeeps`). Theorems: `ReplacementTypeCorrect`,
`OneTargetPerRow`, `DisposalsAreHeld`, `SourcesGoLast`.

**MetadataPublicationProofs.** The files of a publication change one after the other, so between its
first and its last step none of the three properties says enough. The inductive invariant (`Trust`)
adds for each a statement about every step in between. `Restorable`: the one journal can be
recovered from but for a copy cut short (`Recoverable`), a file that is being copied is partial,
what an exchange has set aside is one of the two bodies the journal names, and what was written
forward is there. `Attributed`: what others wrote unseen has its name, or has just been exchanged
and will be looked at, and no publication ever takes it for its own proposal. `Accounted`: each file
is what it should be, or it is the proposed one and should still be the original one; forward and
back differ in which files may be so. `Shape` and `Fresh` are what these rest on: who works on which
journal, and that a file nobody wrote since the last look is as the preview saw it. A write is dealt
with once, in `WriteKeepsRecoverable`. Theorems: `MetadataInvariant`, `MetadataTypeCorrect`,
`JournalsCanBeRecovered`, `UnseenWritesAreKept`, `PublicationsAreAtomic`, for every set of files and
bodies and every number of publications and of writes by others.

**Only model-checked.** The liveness properties `StopsEnd`, `DeliveryEnds` and `QueuedIsProbed`:
fairness and ENABLED are outside what the prover handles.

## 6. What the models found

**An early retry gives a job two workers** (`jobs_early_retry`). When a worker
reports `failed` the row says so at once, while its thread still waits for the
process to exit. `resume` refuses a job that is still in `_active_cancels`;
`retry` and `restart` do not look. The retried job is claimed by a second thread,
whose registration replaces the first's. The first thread then finds the job in a
worker status, records it as failed with "Download worker stopped before
completion" while the second worker runs, and removes the registration, after
which no cancel or pause reaches that worker. `EndedJobsHaveNoWorker` proves that
without the early retry this cannot happen.

**A page can hold an old queue under the current revision**
(`queue_stale_view`). The list handler reads the jobs and, in a later transaction,
the control row with the revision. A change between the two makes the page's
reorder pass the comparison that exists to refuse it (`docs/guide/api.md`:
revisions must not be mixed, a conflict is to be read again and reviewed by the
user). `RevisionNamesTheQueue`, which holds, shows that the comparison itself is
sound: had both been read together, an accepted reorder would always apply to the
queue that was seen.

**A cancelled job may have its video in the library.** `worker.py` (291-293) shields a publication
from SIGTERM, so that "a durable publication always ends with a `completed` event".
`_terminate_process_group` (`runner.py` 558) does not know of the shield: it sends SIGKILL when the
grace period is over. If the calls after the rename take longer, the video is in the library, the
event is not sent, and the job is recorded as cancelled (`Killed` after `Publish`, then `EndRun`). No
run is spent on it: `VideoIsKept`, which holds, shows that nothing is lost by it.

**Observations** that are no violation of something the repository promises in so many words;
each is a behaviour of the models, and the reason for a condition in a property:

- *Quality read outside the lock.* `Compare` probes what has the name at that moment, and the
  identity check later compares with what was resolved before. The name may have led to another
  file in between. Either another job, with the policy `overwrite`, has its publication
  undone just then: the probe sees its video, the check sees the old one come back. Or, among
  jobs that all ask for higher quality, a kill between two renames leaves the name free, a
  second job publishes a lower video there, a third moves that away and is killed, and the
  recovery of the first puts its better video back; it takes a fourth job to probe in
  between, so the run with two jobs does not show it. In both a job replaces a video that is
  as good as its own. `UpgradesOnly` therefore speaks of runs for which what was judged is
  what was resolved (`strayed`).
- *A lower video in place of a backup.* A run that finds the name free while an interrupted job
  still has the library's video as its backup publishes whatever quality it has; the
  recovery of the interrupted job then finds a target and drops its backup. `VideoIsKept`
  promises some complete video, not the best.
- *Cleanup without the lock.* `_cleanup_archive_directory` looks whether there is a target
  and then puts the backup back. A publication in between is overwritten by the older
  video (`collided`). A complete video remains, not always the newest.
- *`cleanup_missing`* deletes the row of a completed job while a publication of another job
  is between its two renames.
- *The size for the event* is read after the lock is released; a publication that has just
  moved the file away makes a job fail whose video was in the library.
- *A failing fsync* after the rename, when there was no video before, leaves the new video
  although the job has failed.
- *Two additional copies.* A comment in `storage.py` (232-233) says that the finalize lock
  limits the two additional copies to one job. The lock is released before
  `_discard_staging` (`worker.py` 301), and a failed or killed finalization keeps what it has
  made: such a job and the next one have theirs at the same time.
- *Growth without a look.* A report that raises the medium and the downloaded bytes alike does
  not raise the requirement and is granted without asking the disk. `downloaded_bytes` never
  falls, so a segment that was reported, discarded and is fetched again is
  budgeted as written. Both are in `missed`, the first with what it adds to the two copies
  of the largest medium.
- *An exact size that comes late.* The worker begins to assemble when it has sent its last report,
  not when the manager has applied it. Until then the budget has the estimated size, and if the
  medium is larger than every lease, the segments and both copies go beyond it (`Overrun`). The
  worker's own look (`require_free_space`) knows the size, but only its own: not what other jobs
  may still write.
- *A video that outlives its lease.* A job whose medium was never granted in full publishes it all
  the same; when its lease is released, the leases of the others were granted without
  the difference (`missed` in `Release`).
- *A discovery left running.* When a submission begins during a discovery, or the store refuses
  its result, the row stays `running` until somebody asks again: the route resumes queued
  rows only. The docstring of `_finish_discovery` expects such a row to be released.
- *A submission that outlives its lease.* A second request takes the row over, finds its own
  attempt missing and releases the target; a third binds the row to the other target; the
  late answer of the first then gives the failure two new downloads. `OneTarget` holds as long as
  no request creates a target after its lease.
- *A torrent that comes late.* `submit_qb_replacement` (`services/replacements.py` 804-821) looks for the
  torrent once when the add request ends in an error, which a timeout of 15 s also is. A torrent
  that appears after the look was given up: the row is released, may be bound to the web download, and
  the failure has both, each created within a valid lease. Also in `overran`.
- *A torrent from elsewhere.* The look (`_replacement_target_exists`, 1016-1028) asks for the hash and the
  category. If the operator has added the same torrent by other means, the add request fails as a duplicate,
  the look finds it, and the failed download is removed although nothing was created for it.
  `SourceGoesLast` therefore says created or found.
- *Events beyond the backfill.* An event recorded between the installation of a configuration and
  its first dispatch has rows only for the adapters registered before. `_prepare_deliveries` takes
  the newest 100 of the last five minutes, so an adapter enabled then gets no row for older ones;
  the comment (539-541) wants it so. `EnabledAdapterIsServed` says it.
- *Downloaded before it is written.* `hls.py` (363-375) counts an encrypted segment, of up to 64 MiB,
  as it comes, and writes it when it is complete (383-391). The budget takes it for written when it
  looks at the disk in between, and grants to others what is not there any more once it is
  written. It is in `missed`; without it TLC finds the floor undercut.
- *A copy cut short.* Where the filesystem of the library has no hard links, `_publish_no_replace` copies
  (`publish.py` 1436-1470). A process that dies in the copy leaves an empty file or a part, which is neither
  what the journal says was there nor what was to be written: the preflight (`journal.py` 585-597, or
  `read_regular_artifact` 797 for an empty one) refuses the publication's own work, and the
  review manager is not created at this and each further start until somebody removes the file. An
  error in the copy, on the other hand, unlinks the name, whoever has put a file there by then
  (`unnoticed`).
- *A journal nobody knows of.* `persist_publish_journal` may fail after it has linked the journal
  (`manager.py` 382, the `fsync` or the reading back). The publication has no journal to recover
  from, returns an error and leaves it on disk; the next start takes it for a publication that was
  cut short. If meanwhile another preview has published the same content, the start rolls the files
  back although that publication has its row; if it published other content, the next item.
- *A journal that stops the service.* An error when a finished publication removes its journal
  (`manager.py` 484) leaves it to the next start, which finds the row and compares the files with what
  was published. A second publication has changed them by then, the preflight refuses, the review
  manager is not created, and so at each further start. Both are in `overlapped`.
- *A crash between the exchange and the look.* What others wrote just before the exchange then has
  only a temporary name. The recovery cannot tell it from the backup and, when the file in its
  place is one it knows, removes it (`unnoticed`). Without an exchange of names the same is lost in
  the window between the look and the replacement.

## 7. What is not modelled

Every component of the repository is listed in `PROJECT.json` with its status.
The reasons fall in three groups.

*State with hazards of its own, not reached*: batches and auto rules, the drafts, sources and
refetches of the metadata review, the automatic metadata with its own journal, magnet selection (its
outcome is in `DownloadReplacements`), the browser gate, subtitles, detail prefetch, history cleanup
and the maintenance lock. Section 8 says what they would ask for.

*No state that several actors share*: parsers of external sites, request building, rankings,
translation, quality probes, presentation.

*Outside the question*: passwords, sessions and address checks, logging, the layout of files.

Within the modelled components the following is left out: progress fields, listings,
counts and pages; the weekly schedule (as a time without claims); the classification of
failures into transient and permanent (both may happen to any failure); the restart of a
failed attempt inside one `runner.run`; the delivery history; the retries that open an
outbox whose database was not available; the checkpoint's journal and batch files
(`resume.py`) and progressive downloads; the history pages and the archive of failed codes of the
replacements; the manager that dies alone and leaves its workers.

The models cover a small part of the repository's lines. Most of these are parsers, schemas,
pages, migrations and tools, whose correctness is not a matter of the order of events; the
models take up the code in which it is.

## 8. The plan

Done: `WebDownloadJobs` with `JobLease`, `RetryBudget`, `WebDownloadQueue`,
`NotificationOutbox`, `ArchivePublication`, `StorageReservations`, `DownloadReplacements`,
`MetadataPublication`, each with proofs of all its safety properties. What would add most, in this order:

1. `WebDownloadBatches`: intents against the abstract job life of `WebDownloadJobs`; that an
   intent is submitted once and ends with its job, across restarts of both.
2. The rest of the metadata: the automatic metadata, which writes the same files, as the second
   actor of `MetadataPublication`; drafts and refetches of a review.
3. `MagnetSelection`: candidate tasks in qBittorrent, each of which is chosen or removed
   whatever step fails; composed with `DownloadReplacements`, whose `Select` is its abstract
   form.
4. `BrowserGate`: the precedence of downloads, the permits, and how long a capture may wait.
5. The composition of `ArchivePublication` with `WebDownloadJobs`, whose job life it repeats in
   coarse form, and a fault in which the manager dies and its workers do not.
6. Several adapters in the outbox, for the starvation of one by another.
