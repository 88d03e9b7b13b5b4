--------------------------- MODULE ArchivePublication ---------------------------
(***************************************************************************)
(* How a finished download becomes the library's video of a work           *)
(* (web_download/archive_writer.py, worker.py) and how what an interrupted *)
(* publication leaves is cleared (archive_writer.py, cleanup.py).          *)
(*                                                                         *)
(* Several jobs (one per provider) publish to one path.  A publication is  *)
(* a sequence of renames, target to backup and part to target, under the   *)
(* finalize lock; a worker may be killed between any two of them, its I/O  *)
(* may fail at any of them and be rolled back, and the whole container may *)
(* crash.  The next run of the job recovers from what it finds; removing,  *)
(* restarting or completing the job lets the manager clear it, which takes *)
(* no finalize lock.                                                       *)
(*                                                                         *)
(* One action is one file-system call, or several whose order nobody else  *)
(* can see.  A video is named by the run that made it: a file keeps its    *)
(* identity (device, inode, size, time) when it is renamed, and no two     *)
(* runs make the same one.  The copy under the name .part is left out: it  *)
(* is deleted, never read.                                                 *)
(***************************************************************************)
EXTENDS Naturals

CONSTANTS
    Jobs,
    Original,        \* the video the library had before
    None,            \* no file, nobody
    Height,          \* the quality each job's provider has, and that of Original
    MaxRuns          \* bound: runs of all jobs together

Videos == {Original} \cup (Jobs \X (1..MaxRuns))
Files == Videos \cup {None}

ASSUME ArchiveAssumption ==
    /\ MaxRuns \in Nat
    /\ None \notin Videos /\ None \notin Jobs
    /\ Original \notin Jobs \X (1..MaxRuns)
    /\ Height \in [Jobs \cup {Original} -> Nat]

Policies == {"higher_quality", "overwrite", "skip"}
Steps == {"away", "starting", "resolving", "comparing", "downloading", "archiving",
          "checking", "backing up", "publishing", "settling", "measuring",
          "reporting", "undoing", "restoring", "clearing", "ending"}
Statuses == {"queued", "running", "completed", "failed", "cancelled", "removed"}

VARIABLES
    target,    \* the library's video under the archive path
    backup,    \* what each job's .backup file holds
    failed,    \* what its .failed file holds
    lock,      \* who holds the finalize lock
    policy,    \* existing_policy of each job
    status,    \* of each job's row; "running" stands for the worker statuses,
               \* cancelling and pausing, "queued" also for retry_wait and paused
    cancelling,\* the running job was cancelled
    pc,        \* what its worker does
    recovery,  \* where the worker's recovery of the artifacts is
    saw,       \* the identity of the target when the worker resolved it
    strayed,   \* history: the run judged the quality of another file than that
    runs,      \* runs so far
    run,       \* the number of the job's last run
    cleaner,   \* where the manager's cleanup of the job's artifacts is
    purpose,   \* what the cleanup is for
    collided   \* history: a cleanup put a backup back while a worker was publishing

files == <<target, backup, failed>>
worker == <<pc, recovery, saw, strayed, runs, run>>
row == <<policy, status, cancelling>>
cleanup == <<cleaner, purpose, collided>>
vars == <<files, lock, row, worker, cleanup>>

\* The steps of a worker under the finalize lock.
Locked == {"resolving", "archiving", "checking", "backing up", "publishing", "settling",
           "undoing", "restoring", "clearing"}

LockIsHeld == \A j \in Jobs : lock = j <=> pc[j] \in Locked

\* Types, and that the lock belongs to the one worker in a step that needs it.
TypeOK ==
    /\ target \in Files
    /\ backup \in [Jobs -> Files] /\ failed \in [Jobs -> Files]
    /\ lock \in Jobs \cup {None}
    /\ policy \in [Jobs -> Policies]
    /\ status \in [Jobs -> Statuses]
    /\ cancelling \in [Jobs -> BOOLEAN]
    /\ pc \in [Jobs -> Steps]
    /\ recovery \in [Jobs -> {"look", "restore", "clear", "done"}]
    /\ saw \in [Jobs -> Files] /\ strayed \in [Jobs -> BOOLEAN]
    /\ runs \in 0..MaxRuns /\ run \in [Jobs -> 0..MaxRuns]
    /\ cleaner \in [Jobs -> {"idle", "look", "restore", "drop", "sweep"}]
    /\ purpose \in [Jobs -> {"tidy", "startup", "restart", "remove"}]
    /\ collided \in BOOLEAN
    /\ LockIsHeld

Init ==
    /\ target \in {Original, None}
    /\ backup = [j \in Jobs |-> None] /\ failed = [j \in Jobs |-> None]
    /\ lock = None
    /\ policy \in [Jobs -> Policies]
    /\ status = [j \in Jobs |-> "queued"]
    /\ cancelling = [j \in Jobs |-> FALSE]
    /\ pc = [j \in Jobs |-> "away"]
    /\ recovery = [j \in Jobs |-> "done"]
    /\ saw = [j \in Jobs |-> None] /\ strayed = [j \in Jobs |-> FALSE]
    /\ runs = 0 /\ run = [j \in Jobs |-> 0]
    /\ cleaner = [j \in Jobs |-> "idle"]
    /\ purpose = [j \in Jobs |-> "tidy"]
    /\ collided = FALSE

HeightOf(v) == IF v = Original THEN Height[Original] ELSE Height[v[1]]

\* The worker process of the job is alive.
Alive(j) == pc[j] \notin {"away", "ending"}

\* No command, claim or worker event is handled: a restart or a removal holds the
\* manager's _condition while it cleans up, and __init__ cleans up after the completed
\* jobs before the manager is there.
ManagerBusy == \E k \in Jobs : cleaner[k] # "idle" /\ purpose[k] # "tidy"

Goto(j, step) == pc' = [pc EXCEPT ![j] = step]
Release(j) == lock' = IF lock = j THEN None ELSE lock

\* The worker gives the job up and the process ends.
Abandon(j) == Goto(j, "ending") /\ Release(j)

--------------------------------------------------------------------------------
\* The worker: run_task.

Start(j) ==
    /\ ~ManagerBusy
    /\ status[j] = "queued" /\ pc[j] = "away" /\ cleaner[j] = "idle"
    /\ runs < MaxRuns
    /\ runs' = runs + 1
    /\ run' = [run EXCEPT ![j] = runs']
    /\ status' = [status EXCEPT ![j] = "running"]
    /\ Goto(j, "starting")
    /\ UNCHANGED <<files, lock, policy, cancelling, recovery, saw, strayed, cleanup>>

\* Mutant: the lock is not waited for.
TakeLockAtOnce(j) ==
    /\ pc[j] \in {"starting", "downloading"}
    /\ lock' = j
    /\ Goto(j, IF pc[j] = "starting" THEN "resolving" ELSE "archiving")
    /\ recovery' = [recovery EXCEPT ![j] = "look"]
    /\ UNCHANGED <<files, row, saw, strayed, runs, run, cleanup>>

\* exclusive_finalize_lock, once to resolve the target and once for the publication.
TakeLock(j) ==
    /\ pc[j] \in {"starting", "downloading"}
    /\ lock = None
    /\ lock' = j
    /\ Goto(j, IF pc[j] = "starting" THEN "resolving" ELSE "archiving")
    /\ recovery' = [recovery EXCEPT ![j] = "look"]
    /\ UNCHANGED <<files, row, saw, strayed, runs, run, cleanup>>

\* Mutant: leftovers are cleared whether or not there is a target.
RecoverLookAtArtifacts(j) ==
    /\ pc[j] \in {"resolving", "archiving"} /\ recovery[j] = "look"
    /\ recovery' = [recovery EXCEPT
           ![j] = IF backup[j] = None /\ failed[j] = None THEN "done" ELSE "clear"]
    /\ UNCHANGED <<files, lock, row, pc, saw, strayed, runs, run, cleanup>>

\* _recover_archive_replacement.  A target of no bytes is not modelled: only complete
\* copies are renamed to that name.
RecoverLook(j) ==
    /\ pc[j] \in {"resolving", "archiving"} /\ recovery[j] = "look"
    /\ \/ /\ backup[j] = None /\ failed[j] = None
          /\ recovery' = [recovery EXCEPT ![j] = "done"]
          /\ UNCHANGED <<lock, pc>>
       \/ /\ target # None /\ (backup[j] # None \/ failed[j] # None)
          /\ recovery' = [recovery EXCEPT ![j] = "clear"]
          /\ UNCHANGED <<lock, pc>>
       \/ /\ target = None /\ backup[j] # None
          /\ recovery' = [recovery EXCEPT ![j] = "restore"]
          /\ UNCHANGED <<lock, pc>>
       \/ /\ target = None /\ backup[j] = None /\ failed[j] # None
          /\ Abandon(j)
          /\ UNCHANGED recovery
    /\ UNCHANGED <<files, row, saw, strayed, runs, run, cleanup>>

RecoverRestore(j) ==
    /\ pc[j] \in {"resolving", "archiving"} /\ recovery[j] = "restore"
    /\ target' = backup[j]
    /\ backup' = [backup EXCEPT ![j] = None]
    /\ recovery' = [recovery EXCEPT ![j] = "clear"]
    /\ UNCHANGED <<failed, lock, row, pc, saw, strayed, runs, run, cleanup>>

\* The backup is unlinked, then the failed file.
RecoverClear(j) ==
    /\ pc[j] \in {"resolving", "archiving"} /\ recovery[j] = "clear"
    /\ IF backup[j] # None
       THEN /\ backup' = [backup EXCEPT ![j] = None]
            /\ UNCHANGED <<failed, recovery>>
       ELSE /\ failed' = [failed EXCEPT ![j] = None]
            /\ recovery' = [recovery EXCEPT ![j] = "done"]
            /\ UNCHANGED backup
    /\ UNCHANGED <<target, lock, row, pc, saw, strayed, runs, run, cleanup>>

\* resolve_policy_archive_target returns with the identity of what it found.
Resolve(j) ==
    /\ pc[j] = "resolving" /\ recovery[j] = "done"
    /\ saw' = [saw EXCEPT ![j] = target]
    /\ strayed' = [strayed EXCEPT ![j] = FALSE]
    /\ Goto(j, IF target # None /\ policy[j] # "overwrite"
               THEN "comparing" ELSE "downloading")
    /\ Release(j)
    /\ UNCHANGED <<files, row, recovery, runs, run, cleanup>>

\* Mutant: the same quality counts as an upgrade.
CompareLoosely(j) ==
    /\ pc[j] = "comparing"
    /\ IF target = None THEN Abandon(j)
       ELSE /\ Goto(j, IF policy[j] = "skip" \/ Height[j] < HeightOf(target)
                       THEN "reporting" ELSE "downloading")
            /\ UNCHANGED lock
    /\ strayed' = [strayed EXCEPT ![j] = target # saw[j]]
    /\ UNCHANGED <<files, row, recovery, saw, runs, run, cleanup>>

\* Outside the lock the video under the path is probed for its quality.  The job ends
\* with the existing video, or goes on to download a better one.
Compare(j) ==
    /\ pc[j] = "comparing"
    /\ IF target = None THEN Abandon(j)
       ELSE /\ Goto(j, IF policy[j] = "skip" \/ Height[j] <= HeightOf(target)
                       THEN "reporting" ELSE "downloading")
            /\ UNCHANGED lock
    /\ strayed' = [strayed EXCEPT ![j] = target # saw[j]]
    /\ UNCHANGED <<files, row, recovery, saw, runs, run, cleanup>>

\* The copy is durable; on_publish shields the rest from SIGTERM.
Shield(j) ==
    /\ pc[j] = "archiving" /\ recovery[j] = "done"
    /\ Goto(j, "checking")
    /\ UNCHANGED <<files, lock, row, recovery, saw, strayed, runs, run, cleanup>>

\* Mutant: only whether there was a target is compared.
CheckPresence(j) ==
    /\ pc[j] = "checking"
    /\ Goto(j, IF (target = None) # (saw[j] = None) THEN "undoing"
               ELSE IF saw[j] = None THEN "publishing" ELSE "backing up")
    /\ UNCHANGED <<files, lock, row, recovery, saw, strayed, runs, run, cleanup>>

\* The target must still be the file that was resolved.
Check(j) ==
    /\ pc[j] = "checking"
    /\ Goto(j, IF target # saw[j] THEN "undoing"
               ELSE IF saw[j] = None THEN "publishing" ELSE "backing up")
    /\ UNCHANGED <<files, lock, row, recovery, saw, strayed, runs, run, cleanup>>

\* os.replace(target, backup)
BackUp(j) ==
    /\ pc[j] = "backing up"
    /\ backup' = [backup EXCEPT ![j] = target]
    /\ target' = None
    /\ Goto(j, "publishing")
    /\ UNCHANGED <<failed, lock, row, recovery, saw, strayed, runs, run, cleanup>>

\* os.replace(temporary, target): whatever has the name meanwhile is overwritten.
Publish(j) ==
    /\ pc[j] = "publishing"
    /\ target' = <<j, run[j]>>
    /\ Goto(j, "settling")
    /\ UNCHANGED <<backup, failed, lock, row, recovery, saw, strayed, runs, run, cleanup>>

\* The old video is unlinked, which may fail without harm; the lock is given back.
Settle(j) ==
    /\ pc[j] = "settling"
    /\ backup' \in {backup, [backup EXCEPT ![j] = None]}
    /\ Goto(j, "measuring")
    /\ Release(j)
    /\ UNCHANGED <<target, failed, row, recovery, saw, strayed, runs, run, cleanup>>

\* output_path.stat() for the event, no longer under the lock: it raises where the next
\* publication has just moved the file away.
Measure(j) ==
    /\ pc[j] = "measuring"
    /\ Goto(j, IF target = None THEN "ending" ELSE "reporting")
    /\ UNCHANGED <<files, lock, row, recovery, saw, strayed, runs, run, cleanup>>

\* The completed event, heard in every status the job may have while it runs.  The
\* finally of _run_job then clears what the job may have left.
Report(j) ==
    /\ ~ManagerBusy
    /\ pc[j] = "reporting"
    /\ status' = [status EXCEPT ![j] = "completed"]
    /\ cancelling' = [cancelling EXCEPT ![j] = FALSE]
    /\ saw' = [saw EXCEPT ![j] = None] /\ strayed' = [strayed EXCEPT ![j] = FALSE]
    /\ Goto(j, "away")
    /\ cleaner' = [cleaner EXCEPT ![j] = "look"]
    /\ UNCHANGED <<files, lock, policy, recovery, runs, run, purpose, collided>>

\* An error or, before the shield, a cancellation.  From the identity check on, the
\* except clause of archive_video runs before the lock is given back.
Fails(j) ==
    /\ \/ /\ pc[j] \in {"starting", "resolving", "comparing", "downloading", "archiving"}
          /\ Abandon(j)
       \/ /\ pc[j] \in {"checking", "backing up", "publishing", "settling"}
          /\ Goto(j, "undoing")
          /\ UNCHANGED lock
    /\ UNCHANGED <<files, row, recovery, saw, strayed, runs, run, cleanup>>

\* The except clause: the new video steps aside as .failed, the old one comes back.
Undo(j) ==
    /\ pc[j] = "undoing"
    /\ \/ /\ backup[j] = None
          /\ Abandon(j)
          /\ UNCHANGED files
       \/ /\ backup[j] # None /\ target # None
          /\ failed' = [failed EXCEPT ![j] = target]
          /\ target' = None
          /\ Goto(j, "restoring")
          /\ UNCHANGED <<backup, lock>>
       \/ /\ backup[j] # None /\ target = None
          /\ target' = backup[j]
          /\ backup' = [backup EXCEPT ![j] = None]
          /\ Abandon(j)
          /\ UNCHANGED failed
    /\ UNCHANGED <<row, recovery, saw, strayed, runs, run, cleanup>>

UndoRestore(j) ==
    /\ pc[j] = "restoring"
    /\ target' = backup[j]
    /\ backup' = [backup EXCEPT ![j] = None]
    /\ Goto(j, "clearing")
    /\ UNCHANGED <<failed, lock, row, recovery, saw, strayed, runs, run, cleanup>>

UndoClear(j) ==
    /\ pc[j] = "clearing"
    /\ failed' = [failed EXCEPT ![j] = None]
    /\ Abandon(j)
    /\ UNCHANGED <<target, backup, row, recovery, saw, strayed, runs, run, cleanup>>

\* An OSError inside the except clause is swallowed: things stay as they are.
UndoFails(j) ==
    /\ pc[j] \in {"undoing", "restoring", "clearing"}
    /\ Abandon(j)
    /\ UNCHANGED <<files, row, recovery, saw, strayed, runs, run, cleanup>>

\* SIGKILL, cancel_grace_seconds after a stop or after an event that could not be
\* applied; the shield does not hold it off.  The kernel frees the lock.
Killed(j) ==
    /\ Alive(j)
    /\ Abandon(j)
    /\ UNCHANGED <<files, row, recovery, saw, strayed, runs, run, cleanup>>

Worker(j) ==
    \/ Start(j) \/ TakeLock(j) \/ RecoverLook(j) \/ RecoverRestore(j) \/ RecoverClear(j)
    \/ Resolve(j) \/ Compare(j) \/ Shield(j) \/ Check(j) \/ BackUp(j) \/ Publish(j)
    \/ Settle(j) \/ Measure(j) \/ Report(j) \/ Fails(j) \/ Undo(j) \/ UndoRestore(j)
    \/ UndoClear(j) \/ UndoFails(j) \/ Killed(j)

--------------------------------------------------------------------------------
\* The manager: the end of a run, commands, the cleanup of artifacts.

\* The row after a run that did not complete: a cancelled job is cancelled, any other has
\* failed or waits to be run again (paused, interrupted by the shutdown, to be retried).
EndStatuses(j) == IF cancelling[j] THEN {"cancelled"} ELSE {"failed", "queued"}

EndRun(j) ==
    /\ ~ManagerBusy
    /\ pc[j] = "ending"
    /\ \E s \in EndStatuses(j) : status' = [status EXCEPT ![j] = s]
    /\ cancelling' = [cancelling EXCEPT ![j] = FALSE]
    /\ saw' = [saw EXCEPT ![j] = None] /\ strayed' = [strayed EXCEPT ![j] = FALSE]
    /\ Goto(j, "away")
    /\ UNCHANGED <<files, lock, policy, recovery, runs, run, cleanup>>

Cancel(j) ==
    /\ ~ManagerBusy
    /\ status[j] \in {"queued", "running"}
    /\ IF status[j] = "running"
       THEN cancelling' = [cancelling EXCEPT ![j] = TRUE] /\ UNCHANGED status
       ELSE status' = [status EXCEPT ![j] = "cancelled"] /\ UNCHANGED cancelling
    /\ UNCHANGED <<files, lock, policy, worker, cleanup>>

Retry(j) ==
    /\ ~ManagerBusy
    /\ status[j] \in {"failed", "cancelled"}
    /\ status' = [status EXCEPT ![j] = "queued"]
    /\ UNCHANGED <<files, lock, policy, cancelling, worker, cleanup>>

\* restart and remove clear the job's artifacts first; the former needs a job that has
\* failed or was cancelled, the latter one that has ended.
Clear(j, what) ==
    /\ ~ManagerBusy /\ cleaner[j] = "idle"
    /\ status[j] \in {"failed", "cancelled"} \/ (what = "remove" /\ status[j] = "completed")
    /\ cleaner' = [cleaner EXCEPT ![j] = "look"]
    /\ purpose' = [purpose EXCEPT ![j] = what]
    /\ UNCHANGED <<files, lock, row, worker, collided>>

\* cleanup_missing: the rows of completed jobs whose file is not there are deleted.
CleanupMissing(j) ==
    /\ ~ManagerBusy
    /\ status[j] = "completed" /\ target = None
    /\ status' = [status EXCEPT ![j] = "removed"]
    /\ UNCHANGED <<files, lock, policy, cancelling, worker, cleanup>>

CleanGoto(j, step) ==
    /\ cleaner' = [cleaner EXCEPT ![j] = step]
    /\ UNCHANGED <<status, purpose>>

CleanupEnds(j) ==
    /\ cleaner' = [cleaner EXCEPT ![j] = "idle"]
    /\ purpose' = [purpose EXCEPT ![j] = "tidy"]

CleanRefused(j) == CleanupEnds(j) /\ UNCHANGED status

\* The cleanup is done: restart queues the job, remove deletes its row.
Cleaned(j) ==
    /\ CleanupEnds(j)
    /\ status' = CASE purpose[j] = "restart" -> [status EXCEPT ![j] = "queued"]
                   [] purpose[j] = "remove" -> [status EXCEPT ![j] = "removed"]
                   [] OTHER -> status

\* _cleanup_archive_directory lists the artifacts, then looks whether there is a target.
CleanLook(j) ==
    /\ cleaner[j] = "look"
    /\ IF backup[j] = None /\ failed[j] = None THEN Cleaned(j)
       ELSE CleanGoto(j, IF backup[j] = None THEN "sweep"
                         ELSE IF target = None THEN "restore" ELSE "drop")
    /\ UNCHANGED <<files, lock, policy, cancelling, worker, collided>>

\* os.replace(backup, target): not under the finalize lock, on an earlier look.
CleanRestore(j) ==
    /\ cleaner[j] = "restore"
    /\ target' = backup[j]
    /\ backup' = [backup EXCEPT ![j] = None]
    /\ collided' = (collided \/ lock # None \/ target # None)
    /\ CleanGoto(j, "sweep")
    /\ UNCHANGED <<failed, lock, policy, cancelling, worker>>

CleanDrop(j) ==
    /\ cleaner[j] = "drop"
    /\ backup' = [backup EXCEPT ![j] = None]
    /\ CleanGoto(j, "sweep")
    /\ UNCHANGED <<target, failed, lock, policy, cancelling, worker, collided>>

\* Without a target the failed file is not touched.
CleanSweep(j) ==
    /\ cleaner[j] = "sweep"
    /\ IF failed[j] # None /\ target = None
       THEN CleanRefused(j) /\ UNCHANGED failed
       ELSE Cleaned(j) /\ failed' = [failed EXCEPT ![j] = None]
    /\ UNCHANGED <<target, backup, lock, policy, cancelling, worker, collided>>

\* An OSError makes the cleanup return False.
CleanFails(j) ==
    /\ cleaner[j] # "idle"
    /\ CleanRefused(j)
    /\ UNCHANGED <<files, lock, policy, cancelling, worker, collided>>

Manager(j) ==
    \/ EndRun(j) \/ Cancel(j) \/ Retry(j) \/ CleanupMissing(j)
    \/ \E what \in {"restart", "remove"} : Clear(j, what)
    \/ CleanLook(j) \/ CleanRestore(j) \/ CleanDrop(j) \/ CleanSweep(j) \/ CleanFails(j)

\* The container stops with everything in it and starts again: recover_interrupted, and
\* the artifacts of completed jobs are cleaned up before the dispatchers start.
Crash ==
    /\ lock' = None
    /\ pc' = [j \in Jobs |-> "away"]
    /\ saw' = [j \in Jobs |-> None] /\ strayed' = [j \in Jobs |-> FALSE]
    /\ cancelling' = [j \in Jobs |-> FALSE]
    /\ status' = [j \in Jobs |-> IF status[j] # "running" THEN status[j]
                                 ELSE IF cancelling[j] THEN "cancelled" ELSE "queued"]
    /\ cleaner' = [j \in Jobs |-> IF status[j] = "completed" THEN "look" ELSE "idle"]
    /\ purpose' = [j \in Jobs |-> IF status[j] = "completed" THEN "startup" ELSE "tidy"]
    /\ UNCHANGED <<files, policy, recovery, runs, run, collided>>

Next == Crash \/ \E j \in Jobs : Worker(j) \/ Manager(j)

Spec == Init /\ [][Next]_vars

--------------------------------------------------------------------------------
\* Properties.

\* Some complete video can be had: it has its name, or the backup of a job whose row is
\* still there holds it, and the next run, restart or removal of that job restores it.
Retrievable ==
    target # None \/ \E j \in Jobs : backup[j] # None /\ status[j] # "removed"

\* Once the library has a video of a work it always has one that can be had, wherever
\* workers are killed, whichever calls fail and however cleanups, which hold no lock,
\* cut in: no last copy is ever unlinked or left to a job that is gone.
VideoIsKept == [][Retrievable => Retrievable']_vars

\* What a publication is about to replace is exactly the file whose identity the run
\* resolved, and nothing has taken the name since: recoveries of this job and of others
\* between the two locks do not slip another video in.  A cleanup that puts a backup
\* back during the publication does (history variable collided).
ReplacedWasSeen ==
    \A j \in Jobs :
        pc[j] = "publishing" /\ ~collided => target = None /\ backup[j] = saw[j]

\* A job that downloads only for a higher quality replaces a video of lower quality only,
\* though it is judged outside the lock and other jobs publish, fail, are undone and killed
\* in between: what was judged is what is replaced, as long as the name led to the file
\* that was resolved when its quality was read (history variable strayed).
UpgradesOnly ==
    \A j \in Jobs :
        /\ pc[j] = "publishing" /\ backup[j] # None /\ policy[j] = "higher_quality"
        /\ ~strayed[j] /\ ~collided
        => HeightOf(backup[j]) < Height[j]
================================================================================
