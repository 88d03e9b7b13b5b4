------------------------ MODULE ArchivePublicationProofs ------------------------
(***************************************************************************)
(* Theorems about ArchivePublication.  VideoIsKept needs to know that      *)
(* every step that moves or unlinks the last named copy leaves a backup    *)
(* whose job is still going to restore it; IInv says which backups those   *)
(* are and what each step may rely on.                                     *)
(***************************************************************************)
EXTENDS ArchivePublication, TLAPS

\* In a critical section of the finalize lock, about to recover artifacts or done with it.
Recovering(j) == pc[j] \in {"resolving", "archiving"}

\* A job is running while it has a worker; the run has its number, and the job's artifacts
\* are not cleaned up meanwhile.
Attended ==
    \A j \in Jobs :
        /\ status[j] = "running" <=> pc[j] # "away"
        /\ pc[j] # "away" => cleaner[j] = "idle" /\ run[j] # 0

\* What the steps that unlink and rename rely on.
Prepared ==
    \A j \in Jobs :
        /\ pc[j] = "restoring" => backup[j] # None
        /\ Recovering(j) /\ recovery[j] = "restore" => backup[j] # None
        /\ cleaner[j] = "restore" => backup[j] # None
        /\ cleaner[j] = "sweep" => backup[j] = None
        /\ pc[j] \in {"comparing", "downloading", "checking", "backing up"} => backup[j] = None
        /\ Recovering(j) /\ recovery[j] = "done" => backup[j] = None
        /\ Recovering(j) /\ recovery[j] = "clear" => target # None
        /\ pc[j] \in {"backing up", "settling"} => target # None

\* A backup that is restored before anything drops it.
Safe(j) ==
    /\ backup[j] # None
    /\ status[j] \notin {"completed", "removed"}
    /\ cleaner[j] # "drop"
    /\ pc[j] \notin {"measuring", "reporting"}

\* While the path is empty, and if any copy can be had, some backup is safe.
Kept ==
    target = None /\ (\E j \in Jobs : backup[j] # None /\ status[j] # "removed")
        => \E j \in Jobs : Safe(j)

\* The identity that was seen holds until the target is moved, and for the backup then.
Matched ==
    ~collided => \A j \in Jobs :
        /\ pc[j] = "backing up" => target = saw[j]
        /\ pc[j] = "publishing" => target = None /\ backup[j] = saw[j]

IInv == TypeOK /\ Attended /\ Prepared /\ Kept /\ Matched

--------------------------------------------------------------------------------

\* None is no job; and as what a name without a file holds it counts as a file.
LEMMA NoneIsFile == None \in Files /\ None \notin Jobs
BY ArchiveAssumption DEF Files

\* A run's video is a file.
LEMMA VideoIsFile ==
    ASSUME NEW j \in Jobs, NEW n \in 1..MaxRuns
    PROVE  <<j, n>> \in Files /\ <<j, n>> # None
BY ArchiveAssumption DEF Files, Videos

\* What a worker publishes is a video.
LEMMA RunIsVideo ==
    ASSUME TypeOK, Attended, NEW j \in Jobs, pc[j] # "away"
    PROVE  <<j, run[j]>> \in Files /\ <<j, run[j]>> # None
<1>1. run[j] \in 1..MaxRuns
    BY ArchiveAssumption DEF TypeOK, Attended
<1> QED
    BY <1>1, VideoIsFile

\* Nothing runs and no backup is there at first.
LEMMA InitIInv == Init => IInv
<1> SUFFICES ASSUME Init PROVE IInv
    OBVIOUS
<1> USE NoneIsFile DEF Init
<1>1. TypeOK
    <2>1. target \in Files
        BY DEF Files, Videos
    <2>2. LockIsHeld
        BY DEF LockIsHeld, Locked
    <2>3. status \in [Jobs -> Statuses] /\ pc \in [Jobs -> Steps]
        BY DEF Statuses, Steps
    <2>4. runs \in 0..MaxRuns /\ run \in [Jobs -> 0..MaxRuns]
        BY ArchiveAssumption
    <2>5. recovery \in [Jobs -> {"look", "restore", "clear", "done"}]
        OBVIOUS
    <2>6. /\ cleaner \in [Jobs -> {"idle", "look", "restore", "drop", "sweep"}]
          /\ purpose \in [Jobs -> {"tidy", "startup", "restart", "remove"}]
        OBVIOUS
    <2>7. backup \in [Jobs -> Files] /\ failed \in [Jobs -> Files] /\ saw \in [Jobs -> Files]
        OBVIOUS
    <2>8. lock \in Jobs \cup {None} /\ cancelling \in [Jobs -> BOOLEAN] /\ collided \in BOOLEAN
        OBVIOUS
    <2> QED
        BY <2>1, <2>2, <2>3, <2>4, <2>5, <2>6, <2>7, <2>8 DEF TypeOK
<1>2. Attended /\ Prepared
    BY DEF Attended, Prepared, Recovering
<1>3. Kept /\ Matched
    BY DEF Kept, Matched
<1> QED
    BY <1>1, <1>2, <1>3 DEF IInv

\* Giving up the job gives up the lock.
LEMMA AbandonFreesLock ==
    ASSUME TypeOK, NEW j \in Jobs, Abandon(j)
    PROVE  LockIsHeld'
BY NoneIsFile DEF TypeOK, LockIsHeld, Locked, Abandon, Release, Goto

\* A step from one critical section to the next keeps the lock, any other does not need it.
LEMMA GotoKeepsLock ==
    ASSUME TypeOK, NEW j \in Jobs, NEW step \in Steps, Goto(j, step),
           pc[j] \in Locked <=> step \in Locked, lock' = lock
    PROVE  LockIsHeld'
BY DEF TypeOK, LockIsHeld, Goto

\* The lock is taken when it is free and given back with the last step under it.
LEMMA LockStep == TypeOK /\ [Next]_vars => LockIsHeld'
<1> SUFFICES ASSUME TypeOK, [Next]_vars PROVE LockIsHeld'
    OBVIOUS
<1> USE NoneIsFile DEF TypeOK, LockIsHeld, Locked
<1>1. CASE UNCHANGED vars
    BY <1>1 DEF vars, files, row, worker, cleanup
<1>2. CASE Crash
    BY <1>2 DEF Crash, files
<1>3. ASSUME NEW j \in Jobs, Worker(j) PROVE LockIsHeld'
  <2>1. CASE Start(j)
      BY <2>1 DEF Start, Goto, files, row, cleanup
  <2>2. CASE TakeLock(j)
      BY <2>2 DEF TakeLock, Goto, files, row, cleanup
  <2>3. CASE RecoverLook(j)
    <3>1. CASE Abandon(j)
      BY <3>1, AbandonFreesLock
    <3>2. CASE UNCHANGED <<lock, pc>>
      BY <3>2
    <3> QED
      BY <2>3, <3>1, <3>2 DEF RecoverLook
  <2>4. CASE RecoverRestore(j)
      BY <2>4 DEF RecoverRestore, Goto, files, row, cleanup
  <2>5. CASE RecoverClear(j)
      BY <2>5 DEF RecoverClear, Goto, files, row, cleanup
  <2>6. CASE Resolve(j)
      BY <2>6 DEF Resolve, Goto, files, row, cleanup, Release
  <2>7. CASE Compare(j)
    <3>1. CASE Abandon(j)
      BY <3>1, AbandonFreesLock
    <3>2. ASSUME NEW step \in {"reporting", "downloading"}, Goto(j, step), lock' = lock
          PROVE  LockIsHeld'
      BY <2>7, <3>2, GotoKeepsLock DEF Compare, Steps
    <3> QED
      BY <2>7, <3>1, <3>2 DEF Compare
  <2>8. CASE Shield(j)
      BY <2>8 DEF Shield, Goto, files, row, cleanup
  <2>9. CASE Check(j)
      BY <2>9 DEF Check, Goto, files, row, cleanup
  <2>10. CASE BackUp(j)
      BY <2>10 DEF BackUp, Goto, files, row, cleanup
  <2>11. CASE Publish(j)
      BY <2>11 DEF Publish, Goto, files, row, cleanup
  <2>12. CASE Settle(j)
      BY <2>12 DEF Settle, Goto, files, row, cleanup, Release
  <2>13. CASE Measure(j)
      BY <2>13 DEF Measure, Goto, files, row, cleanup
  <2>14. CASE Report(j)
      BY <2>14 DEF Report, Goto, files, row, cleanup
  <2>15. CASE Fails(j)
    <3>1. CASE Abandon(j)
      BY <3>1, AbandonFreesLock
    <3>2. CASE /\ pc[j] \in {"checking", "backing up", "publishing", "settling"}
               /\ Goto(j, "undoing") /\ lock' = lock
      BY <3>2, GotoKeepsLock DEF Steps
    <3> QED
      BY <2>15, <3>1, <3>2 DEF Fails
  <2>16. CASE Undo(j)
    <3>1. CASE Abandon(j)
      BY <3>1, AbandonFreesLock
    <3>2. CASE Goto(j, "restoring") /\ lock' = lock
      BY <2>16, <3>2, GotoKeepsLock DEF Undo, Steps
    <3> QED
      BY <2>16, <3>1, <3>2 DEF Undo
  <2>17. CASE UndoRestore(j)
      BY <2>17 DEF UndoRestore, Goto, files, row, cleanup
  <2>18. CASE UndoClear(j)
      BY <2>18 DEF UndoClear, Goto, files, row, cleanup, Abandon, Release
  <2>19. CASE UndoFails(j)
      BY <2>19 DEF UndoFails, Goto, files, row, cleanup, Abandon, Release
  <2>20. CASE Killed(j)
      BY <2>20 DEF Killed, Goto, files, row, cleanup, Abandon, Release, Alive
  <2> QED
      BY <1>3, <2>1, <2>2, <2>3, <2>4, <2>5, <2>6, <2>7, <2>8, <2>9, <2>10, <2>11, <2>12,
         <2>13, <2>14, <2>15, <2>16, <2>17, <2>18, <2>19, <2>20 DEF Worker
<1>4. ASSUME NEW j \in Jobs, Manager(j) PROVE LockIsHeld'
  <2>1. CASE EndRun(j)
      BY <2>1 DEF EndRun, Goto, files, row, worker, cleanup, EndStatuses
  <2>2. CASE Cancel(j)
      BY <2>2 DEF Cancel, Goto, files, row, worker, cleanup
  <2>3. CASE Retry(j)
      BY <2>3 DEF Retry, Goto, files, row, worker, cleanup
  <2>4. CASE CleanupMissing(j)
      BY <2>4 DEF CleanupMissing, Goto, files, row, worker, cleanup
  <2>5. ASSUME NEW what \in {"restart", "remove"}, Clear(j, what)
        PROVE LockIsHeld'
      BY <2>5 DEF Clear, Goto, files, row, worker, cleanup
  <2>6. CASE CleanLook(j)
      BY <2>6 DEF CleanLook, Goto, files, row, worker, cleanup, CleanGoto, Cleaned,
         CleanupEnds
  <2>7. CASE CleanRestore(j)
      BY <2>7 DEF CleanRestore, Goto, files, row, worker, cleanup, CleanGoto
  <2>8. CASE CleanDrop(j)
      BY <2>8 DEF CleanDrop, Goto, files, row, worker, cleanup, CleanGoto
  <2>9. CASE CleanSweep(j)
      BY <2>9 DEF CleanSweep, Goto, files, row, worker, cleanup, CleanRefused, Cleaned,
         CleanupEnds
  <2>10. CASE CleanFails(j)
      BY <2>10 DEF CleanFails, Goto, files, row, worker, cleanup, CleanRefused, CleanupEnds
  <2> QED
      BY <1>4, <2>1, <2>2, <2>3, <2>4, <2>5, <2>6, <2>7, <2>8, <2>9, <2>10 DEF Manager
<1> QED
    BY <1>1, <1>2, <1>3, <1>4 DEF Next

\* A worker comes and goes with the status of its job.
LEMMA AttendedStep == TypeOK /\ Attended /\ [Next]_vars => Attended'
<1> SUFFICES ASSUME TypeOK, Attended, [Next]_vars PROVE Attended'
    OBVIOUS
<1> USE DEF TypeOK, Attended
<1>1. CASE UNCHANGED vars
    BY <1>1 DEF vars, files, row, worker, cleanup
<1>2. CASE Crash
    BY <1>2 DEF Crash, files
<1>3. ASSUME NEW j \in Jobs, Worker(j) PROVE Attended'
  <2>1. CASE Start(j)
      BY <2>1 DEF Start, Goto, files, row, cleanup
  <2>2. CASE TakeLock(j)
      BY <2>2 DEF TakeLock, Goto, files, row, cleanup
  <2>3. CASE RecoverLook(j)
      BY <2>3 DEF RecoverLook, Goto, files, row, cleanup, Abandon, Release
  <2>4. CASE RecoverRestore(j)
      BY <2>4 DEF RecoverRestore, Goto, files, row, cleanup
  <2>5. CASE RecoverClear(j)
      BY <2>5 DEF RecoverClear, Goto, files, row, cleanup
  <2>6. CASE Resolve(j)
      BY <2>6 DEF Resolve, Goto, files, row, cleanup, Release
  <2>7. CASE Compare(j)
      BY <2>7 DEF Compare, Goto, files, row, cleanup, Abandon, Release
  <2>8. CASE Shield(j)
      BY <2>8 DEF Shield, Goto, files, row, cleanup
  <2>9. CASE Check(j)
      BY <2>9 DEF Check, Goto, files, row, cleanup
  <2>10. CASE BackUp(j)
      BY <2>10 DEF BackUp, Goto, files, row, cleanup
  <2>11. CASE Publish(j)
      BY <2>11 DEF Publish, Goto, files, row, cleanup
  <2>12. CASE Settle(j)
      BY <2>12 DEF Settle, Goto, files, row, cleanup, Release
  <2>13. CASE Measure(j)
      BY <2>13 DEF Measure, Goto, files, row, cleanup
  <2>14. CASE Report(j)
      BY <2>14 DEF Report, Goto, files, row, cleanup
  <2>15. CASE Fails(j)
      BY <2>15 DEF Fails, Goto, files, row, cleanup, Abandon, Release
  <2>16. CASE Undo(j)
      BY <2>16 DEF Undo, Goto, files, row, cleanup, Abandon, Release
  <2>17. CASE UndoRestore(j)
      BY <2>17 DEF UndoRestore, Goto, files, row, cleanup
  <2>18. CASE UndoClear(j)
      BY <2>18 DEF UndoClear, Goto, files, row, cleanup, Abandon, Release
  <2>19. CASE UndoFails(j)
      BY <2>19 DEF UndoFails, Goto, files, row, cleanup, Abandon, Release
  <2>20. CASE Killed(j)
      BY <2>20 DEF Killed, Goto, files, row, cleanup, Abandon, Release, Alive
  <2> QED
      BY <1>3, <2>1, <2>2, <2>3, <2>4, <2>5, <2>6, <2>7, <2>8, <2>9, <2>10, <2>11, <2>12,
         <2>13, <2>14, <2>15, <2>16, <2>17, <2>18, <2>19, <2>20 DEF Worker
<1>4. ASSUME NEW j \in Jobs, Manager(j) PROVE Attended'
  <2>1. CASE EndRun(j)
      BY <2>1 DEF EndRun, Goto, files, row, worker, cleanup, EndStatuses
  <2>2. CASE Cancel(j)
      BY <2>2 DEF Cancel, Goto, files, row, worker, cleanup
  <2>3. CASE Retry(j)
      BY <2>3 DEF Retry, Goto, files, row, worker, cleanup
  <2>4. CASE CleanupMissing(j)
      BY <2>4 DEF CleanupMissing, Goto, files, row, worker, cleanup
  <2>5. ASSUME NEW what \in {"restart", "remove"}, Clear(j, what)
        PROVE Attended'
      BY <2>5 DEF Clear, Goto, files, row, worker, cleanup
  <2>6. CASE CleanLook(j)
      BY <2>6 DEF CleanLook, Goto, files, row, worker, cleanup, CleanGoto, Cleaned,
         CleanupEnds
  <2>7. CASE CleanRestore(j)
      BY <2>7 DEF CleanRestore, Goto, files, row, worker, cleanup, CleanGoto
  <2>8. CASE CleanDrop(j)
      BY <2>8 DEF CleanDrop, Goto, files, row, worker, cleanup, CleanGoto
  <2>9. CASE CleanSweep(j)
      BY <2>9 DEF CleanSweep, Goto, files, row, worker, cleanup, CleanRefused, Cleaned,
         CleanupEnds
  <2>10. CASE CleanFails(j)
      BY <2>10 DEF CleanFails, Goto, files, row, worker, cleanup, CleanRefused, CleanupEnds
  <2> QED
      BY <1>4, <2>1, <2>2, <2>3, <2>4, <2>5, <2>6, <2>7, <2>8, <2>9, <2>10 DEF Manager
<1> QED
    BY <1>1, <1>2, <1>3, <1>4 DEF Next

\* Every step keeps the types.
LEMMA TypeStep == TypeOK /\ Attended /\ [Next]_vars => TypeOK'
<1> SUFFICES ASSUME TypeOK, Attended, [Next]_vars PROVE TypeOK'
    OBVIOUS
<1>0. LockIsHeld'
    BY LockStep
<1> USE <1>0, NoneIsFile DEF TypeOK
<1>1. CASE UNCHANGED vars
    BY <1>1 DEF vars, files, row, worker, cleanup
<1>2. CASE Crash
    BY <1>2 DEF Crash, files, Steps, Statuses
<1>3. ASSUME NEW j \in Jobs, Worker(j) PROVE TypeOK'
  <2>1. CASE Start(j)
    <3>1. runs' \in 0..MaxRuns /\ run' \in [Jobs -> 0..MaxRuns]
      BY <2>1, ArchiveAssumption DEF Start
    <3> QED
      BY <2>1, <3>1 DEF Start, Goto, files, cleanup, Steps, Statuses
  <2>2. CASE TakeLock(j)
      BY <2>2 DEF TakeLock, Goto, files, row, cleanup, Steps
  <2>3. CASE RecoverLook(j)
      BY <2>3 DEF RecoverLook, Goto, files, row, cleanup, Abandon, Release, Steps
  <2>4. CASE RecoverRestore(j)
      BY <2>4 DEF RecoverRestore, Goto, files, row, cleanup
  <2>5. CASE RecoverClear(j)
      BY <2>5 DEF RecoverClear, Goto, files, row, cleanup
  <2>6. CASE Resolve(j)
      BY <2>6 DEF Resolve, Goto, files, row, cleanup, Release, Steps
  <2>7. CASE Compare(j)
    <3>1. pc' \in [Jobs -> Steps]
      BY <2>7 DEF Compare, Goto, Abandon, Steps
    <3>2. lock' \in Jobs \cup {None}
      BY <2>7 DEF Compare, Abandon, Release
    <3> QED
      BY <2>7, <3>1, <3>2 DEF Compare, files, row, cleanup
  <2>8. CASE Shield(j)
      BY <2>8 DEF Shield, Goto, files, row, cleanup, Steps
  <2>9. CASE Check(j)
      BY <2>9 DEF Check, Goto, files, row, cleanup, Steps
  <2>10. CASE BackUp(j)
      BY <2>10 DEF BackUp, Goto, files, row, cleanup, Steps
  <2>11. CASE Publish(j)
    <3>1. run[j] \in 1..MaxRuns
      BY <2>11, ArchiveAssumption DEF Publish, Attended
    <3>2. <<j, run[j]>> \in Files
      BY <3>1, VideoIsFile
    <3> QED
      BY <2>11, <3>2 DEF Publish, Goto, row, cleanup, Steps
  <2>12. CASE Settle(j)
    <3>1. backup' \in [Jobs -> Files]
      BY <2>12 DEF Settle
    <3> QED
      BY <2>12, <3>1 DEF Settle, Goto, Release, row, cleanup, Steps
  <2>13. CASE Measure(j)
      BY <2>13 DEF Measure, Goto, files, row, cleanup, Steps
  <2>14. CASE Report(j)
      BY <2>14 DEF Report, Goto, files, row, cleanup, Steps, Statuses
  <2>15. CASE Fails(j)
      BY <2>15 DEF Fails, Goto, files, row, cleanup, Abandon, Release, Steps
  <2>16. CASE Undo(j)
    <3>1. target' \in Files /\ backup' \in [Jobs -> Files] /\ failed' \in [Jobs -> Files]
      BY <2>16 DEF Undo, files
    <3>2. pc' \in [Jobs -> Steps]
      <4>1. CASE Goto(j, "ending")
        BY <4>1 DEF Goto, Steps
      <4>2. CASE Goto(j, "restoring")
        BY <4>2 DEF Goto, Steps
      <4> QED
        BY <2>16, <4>1, <4>2 DEF Undo, Abandon
    <3>3. lock' \in Jobs \cup {None}
      BY <2>16 DEF Undo, Abandon, Release
    <3> QED
      BY <2>16, <3>1, <3>2, <3>3 DEF Undo, row, cleanup
  <2>17. CASE UndoRestore(j)
      BY <2>17 DEF UndoRestore, Goto, files, row, cleanup, Steps
  <2>18. CASE UndoClear(j)
      BY <2>18 DEF UndoClear, Goto, files, row, cleanup, Abandon, Release, Steps
  <2>19. CASE UndoFails(j)
      BY <2>19 DEF UndoFails, Goto, files, row, cleanup, Abandon, Release, Steps
  <2>20. CASE Killed(j)
      BY <2>20 DEF Killed, Goto, files, row, cleanup, Abandon, Release, Alive, Steps
  <2> QED
      BY <1>3, <2>1, <2>2, <2>3, <2>4, <2>5, <2>6, <2>7, <2>8, <2>9, <2>10, <2>11, <2>12,
         <2>13, <2>14, <2>15, <2>16, <2>17, <2>18, <2>19, <2>20 DEF Worker
<1>4. ASSUME NEW j \in Jobs, Manager(j) PROVE TypeOK'
  <2>1. CASE EndRun(j)
    <3>1. status' \in [Jobs -> Statuses]
      BY <2>1 DEF EndRun, EndStatuses, Statuses
    <3> QED
      BY <2>1, <3>1 DEF EndRun, Goto, files, cleanup, Steps
  <2>2. CASE Cancel(j)
    <3>1. status' \in [Jobs -> Statuses]
      BY <2>2 DEF Cancel, Statuses
    <3>2. cancelling' \in [Jobs -> BOOLEAN]
      BY <2>2 DEF Cancel
    <3> QED
      BY <2>2, <3>1, <3>2 DEF Cancel, files, worker, cleanup
  <2>3. CASE Retry(j)
      BY <2>3 DEF Retry, Goto, files, row, worker, cleanup, Statuses
  <2>4. CASE CleanupMissing(j)
      BY <2>4 DEF CleanupMissing, Goto, files, row, worker, cleanup, Statuses
  <2>5. ASSUME NEW what \in {"restart", "remove"}, Clear(j, what)
        PROVE TypeOK'
      BY <2>5 DEF Clear, Goto, files, row, worker, cleanup
  <2>6. CASE CleanLook(j)
    <3>1. cleaner' \in [Jobs -> {"idle", "look", "restore", "drop", "sweep"}]
      BY <2>6 DEF CleanLook, CleanGoto, Cleaned, CleanupEnds
    <3>2. purpose' \in [Jobs -> {"tidy", "startup", "restart", "remove"}]
      BY <2>6 DEF CleanLook, CleanGoto, Cleaned, CleanupEnds
    <3>3. status' \in [Jobs -> Statuses]
      BY <2>6 DEF CleanLook, CleanGoto, Cleaned, CleanupEnds, Statuses
    <3> QED
      BY <2>6, <3>1, <3>2, <3>3 DEF CleanLook, files, worker
  <2>7. CASE CleanRestore(j)
      BY <2>7 DEF CleanRestore, Goto, files, row, worker, cleanup, CleanGoto
  <2>8. CASE CleanDrop(j)
      BY <2>8 DEF CleanDrop, Goto, files, row, worker, cleanup, CleanGoto
  <2>9. CASE CleanSweep(j)
    <3>1. failed' \in [Jobs -> Files]
      BY <2>9 DEF CleanSweep
    <3>2. cleaner' \in [Jobs -> {"idle", "look", "restore", "drop", "sweep"}]
      BY <2>9 DEF CleanSweep, CleanRefused, Cleaned, CleanupEnds
    <3>3. purpose' \in [Jobs -> {"tidy", "startup", "restart", "remove"}]
      BY <2>9 DEF CleanSweep, CleanRefused, Cleaned, CleanupEnds
    <3>4. status' \in [Jobs -> Statuses]
      BY <2>9 DEF CleanSweep, CleanRefused, Cleaned, CleanupEnds, Statuses
    <3> QED
      BY <2>9, <3>1, <3>2, <3>3, <3>4 DEF CleanSweep, worker
  <2>10. CASE CleanFails(j)
      BY <2>10 DEF CleanFails, Goto, files, row, worker, cleanup, CleanRefused, CleanupEnds
  <2> QED
      BY <1>4, <2>1, <2>2, <2>3, <2>4, <2>5, <2>6, <2>7, <2>8, <2>9, <2>10 DEF Manager
<1> QED
    BY <1>1, <1>2, <1>3, <1>4 DEF Next

\* No step takes away what another, of the worker or of a cleanup, relies on.
LEMMA PreparedStep == TypeOK /\ Attended /\ Prepared /\ [Next]_vars => Prepared'
<1> SUFFICES ASSUME TypeOK, Attended, Prepared, [Next]_vars PROVE Prepared'
    OBVIOUS
<1>0. /\ backup \in [Jobs -> Files] /\ pc \in [Jobs -> Steps] /\ status \in [Jobs -> Statuses]
      /\ recovery \in [Jobs -> {"look", "restore", "clear", "done"}]
      /\ cleaner \in [Jobs -> {"idle", "look", "restore", "drop", "sweep"}]
      /\ saw \in [Jobs -> Files]
    BY DEF TypeOK
<1> USE <1>0, NoneIsFile DEF Attended, Prepared, Recovering
<1>1. CASE UNCHANGED vars
    BY <1>1 DEF vars, files, row, worker, cleanup
<1>2. CASE Crash
    BY <1>2 DEF Crash, files
<1>3. ASSUME NEW j \in Jobs, Worker(j) PROVE Prepared'
  <2>1. CASE Start(j)
      BY <2>1 DEF Start, Goto, files, row, cleanup
  <2>2. CASE TakeLock(j)
      BY <2>2 DEF TakeLock, Goto, files, row, cleanup
  <2>3. CASE RecoverLook(j)
      BY <2>3 DEF RecoverLook, Goto, files, row, cleanup, Abandon, Release
  <2>4. CASE RecoverRestore(j)
      BY <2>4 DEF RecoverRestore, Goto, files, row, cleanup
  <2>5. CASE RecoverClear(j)
      BY <2>5 DEF RecoverClear, Goto, files, row, cleanup
  <2>6. CASE Resolve(j)
      BY <2>6 DEF Resolve, Goto, files, row, cleanup, Release
  <2>7. CASE Compare(j)
      BY <2>7 DEF Compare, Goto, files, row, cleanup, Abandon, Release
  <2>8. CASE Shield(j)
      BY <2>8 DEF Shield, Goto, files, row, cleanup
  <2>9. CASE Check(j)
      BY <2>9 DEF Check, Goto, files, row, cleanup
  <2>10. CASE BackUp(j)
      BY <2>10 DEF BackUp, Goto, files, row, cleanup, TypeOK, LockIsHeld, Locked
  <2>11. CASE Publish(j)
    <3>1. <<j, run[j]>> # None
      BY <2>11, RunIsVideo DEF Publish
    <3> QED
      BY <2>11, <3>1 DEF Publish, Goto, row, cleanup
  <2>12. CASE Settle(j)
      BY <2>12 DEF Settle, Goto, files, row, cleanup, Release
  <2>13. CASE Measure(j)
      BY <2>13 DEF Measure, Goto, files, row, cleanup
  <2>14. CASE Report(j)
      BY <2>14 DEF Report, Goto, files, row, cleanup
  <2>15. CASE Fails(j)
      BY <2>15 DEF Fails, Goto, files, row, cleanup, Abandon, Release
  <2>16. CASE Undo(j)
    <3>1. \A k \in Jobs : pc[k] \in Locked => k = j
      BY <2>16 DEF Undo, TypeOK, LockIsHeld, Locked
    <3>2. CASE backup[j] = None
      BY <2>16, <3>2 DEF Undo, Abandon, Goto, files, row, cleanup
    <3>3. CASE backup[j] # None /\ target # None
      <4>1. /\ pc' = [pc EXCEPT ![j] = "restoring"]
            /\ UNCHANGED <<backup, cleaner, recovery>>
        BY <2>16, <3>3 DEF Undo, Goto, cleanup
      <4>2. \A k \in Jobs : pc'[k] \notin {"resolving", "archiving", "backing up", "settling"}
        BY <3>1, <4>1 DEF Locked
      <4> QED
        BY <3>3, <4>1, <4>2
    <3>4. CASE backup[j] # None /\ target = None
      BY <2>16, <3>4 DEF Undo, Abandon, Goto, row, cleanup
    <3> QED
      BY <3>2, <3>3, <3>4
  <2>17. CASE UndoRestore(j)
      BY <2>17 DEF UndoRestore, Goto, files, row, cleanup
  <2>18. CASE UndoClear(j)
      BY <2>18 DEF UndoClear, Goto, files, row, cleanup, Abandon, Release
  <2>19. CASE UndoFails(j)
      BY <2>19 DEF UndoFails, Goto, files, row, cleanup, Abandon, Release
  <2>20. CASE Killed(j)
      BY <2>20 DEF Killed, Goto, files, row, cleanup, Abandon, Release, Alive
  <2> QED
      BY <1>3, <2>1, <2>2, <2>3, <2>4, <2>5, <2>6, <2>7, <2>8, <2>9, <2>10, <2>11, <2>12,
         <2>13, <2>14, <2>15, <2>16, <2>17, <2>18, <2>19, <2>20 DEF Worker
<1>4. ASSUME NEW j \in Jobs, Manager(j) PROVE Prepared'
  <2>1. CASE EndRun(j)
      BY <2>1 DEF EndRun, Goto, files, row, worker, cleanup, EndStatuses
  <2>2. CASE Cancel(j)
      BY <2>2 DEF Cancel, Goto, files, row, worker, cleanup
  <2>3. CASE Retry(j)
      BY <2>3 DEF Retry, Goto, files, row, worker, cleanup
  <2>4. CASE CleanupMissing(j)
      BY <2>4 DEF CleanupMissing, Goto, files, row, worker, cleanup
  <2>5. ASSUME NEW what \in {"restart", "remove"}, Clear(j, what)
        PROVE Prepared'
      BY <2>5 DEF Clear, Goto, files, row, worker, cleanup
  <2>6. CASE CleanLook(j)
      BY <2>6 DEF CleanLook, Goto, files, row, worker, cleanup, CleanGoto, Cleaned,
         CleanupEnds
  <2>7. CASE CleanRestore(j)
      BY <2>7 DEF CleanRestore, Goto, files, row, worker, cleanup, CleanGoto
  <2>8. CASE CleanDrop(j)
      BY <2>8 DEF CleanDrop, Goto, files, row, worker, cleanup, CleanGoto
  <2>9. CASE CleanSweep(j)
      BY <2>9 DEF CleanSweep, Goto, files, row, worker, cleanup, CleanRefused, Cleaned,
         CleanupEnds
  <2>10. CASE CleanFails(j)
      BY <2>10 DEF CleanFails, Goto, files, row, worker, cleanup, CleanRefused, CleanupEnds
  <2> QED
      BY <1>4, <2>1, <2>2, <2>3, <2>4, <2>5, <2>6, <2>7, <2>8, <2>9, <2>10 DEF Manager
<1> QED
    BY <1>1, <1>2, <1>3, <1>4 DEF Next

\* A safe backup that stays safe is enough, where the files are left alone.
LEMMA SafeIsKept ==
    ASSUME Kept, target' = target, backup' = backup,
           \A k \in Jobs : /\ Safe(k) => Safe(k)'
                           /\ backup[k] # None /\ status'[k] # "removed" => status[k] # "removed"
    PROVE  Kept'
<1> SUFFICES ASSUME target' = None, NEW i \in Jobs, backup'[i] # None, status'[i] # "removed"
             PROVE  \E k \in Jobs : Safe(k)'
    BY DEF Kept
<1>1. PICK k \in Jobs : Safe(k)
    BY DEF Kept
<1> QED
    BY <1>1 DEF Safe

\* While the path is empty a backup stays safe.
LEMMA KeptStep == TypeOK /\ Attended /\ Prepared /\ Kept /\ [Next]_vars => Kept'
<1> SUFFICES ASSUME TypeOK, Attended, Prepared, Kept, [Next]_vars PROVE Kept'
    OBVIOUS
<1>0. /\ backup \in [Jobs -> Files] /\ pc \in [Jobs -> Steps] /\ status \in [Jobs -> Statuses]
      /\ recovery \in [Jobs -> {"look", "restore", "clear", "done"}]
      /\ cleaner \in [Jobs -> {"idle", "look", "restore", "drop", "sweep"}]
      /\ saw \in [Jobs -> Files]
    BY DEF TypeOK
<1> USE <1>0, NoneIsFile DEF Attended, Prepared, Recovering, Kept, Safe
<1>1. CASE UNCHANGED vars
    BY <1>1 DEF vars, files, row, worker, cleanup
<1>2. CASE Crash
    BY <1>2 DEF Crash, files
<1>3. ASSUME NEW j \in Jobs, Worker(j) PROVE Kept'
  <2>1. CASE Start(j)
      BY <2>1 DEF Start, Goto, files, row, cleanup
  <2>2. CASE TakeLock(j)
      BY <2>2 DEF TakeLock, Goto, files, row, cleanup
  <2>3. CASE RecoverLook(j)
      BY <2>3 DEF RecoverLook, Goto, files, row, cleanup, Abandon, Release
  <2>4. CASE RecoverRestore(j)
      BY <2>4 DEF RecoverRestore, Goto, files, row, cleanup
  <2>5. CASE RecoverClear(j)
      BY <2>5 DEF RecoverClear, Goto, files, row, cleanup
  <2>6. CASE Resolve(j)
      BY <2>6 DEF Resolve, Goto, files, row, cleanup, Release
  <2>7. CASE Compare(j)
      BY <2>7 DEF Compare, Goto, files, row, cleanup, Abandon, Release
  <2>8. CASE Shield(j)
      BY <2>8 DEF Shield, Goto, files, row, cleanup
  <2>9. CASE Check(j)
      BY <2>9 DEF Check, Goto, files, row, cleanup
  <2>10. CASE BackUp(j)
      BY <2>10 DEF BackUp, Goto, files, row, cleanup
  <2>11. CASE Publish(j)
    <3>1. <<j, run[j]>> # None
      BY <2>11, RunIsVideo DEF Publish
    <3> QED
      BY <2>11, <3>1 DEF Publish, Goto, row, cleanup
  <2>12. CASE Settle(j)
      BY <2>12 DEF Settle, Goto, files, row, cleanup, Release
  <2>13. CASE Measure(j)
      BY <2>13 DEF Measure, Goto, files, row, cleanup
  <2>14. CASE Report(j)
      BY <2>14 DEF Report, Goto, files, row, cleanup
  <2>15. CASE Fails(j)
      BY <2>15 DEF Fails, Goto, files, row, cleanup, Abandon, Release
  <2>16. CASE Undo(j)
      BY <2>16 DEF Undo, Goto, files, row, cleanup, Abandon, Release
  <2>17. CASE UndoRestore(j)
      BY <2>17 DEF UndoRestore, Goto, files, row, cleanup
  <2>18. CASE UndoClear(j)
      BY <2>18 DEF UndoClear, Goto, files, row, cleanup, Abandon, Release
  <2>19. CASE UndoFails(j)
      BY <2>19 DEF UndoFails, Goto, files, row, cleanup, Abandon, Release
  <2>20. CASE Killed(j)
      BY <2>20 DEF Killed, Goto, files, row, cleanup, Abandon, Release, Alive
  <2> QED
      BY <1>3, <2>1, <2>2, <2>3, <2>4, <2>5, <2>6, <2>7, <2>8, <2>9, <2>10, <2>11, <2>12,
         <2>13, <2>14, <2>15, <2>16, <2>17, <2>18, <2>19, <2>20 DEF Worker
<1>4. ASSUME NEW j \in Jobs, Manager(j) PROVE Kept'
  <2>1. CASE EndRun(j)
    <3>1. \A k \in Jobs : /\ Safe(k) => Safe(k)'
                          /\ backup[k] # None /\ status'[k] # "removed" => status[k] # "removed"
      BY <2>1 DEF EndRun, EndStatuses, Goto, files, worker, cleanup
    <3>2. target' = target /\ backup' = backup
      BY <2>1 DEF EndRun, files
    <3> QED
      BY <3>1, <3>2, SafeIsKept
  <2>2. CASE Cancel(j)
    <3>1. \A k \in Jobs : /\ Safe(k) => Safe(k)'
                          /\ backup[k] # None /\ status'[k] # "removed" => status[k] # "removed"
      BY <2>2 DEF Cancel, files, worker, cleanup
    <3>2. target' = target /\ backup' = backup
      BY <2>2 DEF Cancel, files
    <3> QED
      BY <3>1, <3>2, SafeIsKept
  <2>3. CASE Retry(j)
      BY <2>3 DEF Retry, Goto, files, row, worker, cleanup
  <2>4. CASE CleanupMissing(j)
      BY <2>4 DEF CleanupMissing, Goto, files, row, worker, cleanup
  <2>5. ASSUME NEW what \in {"restart", "remove"}, Clear(j, what)
        PROVE Kept'
      BY <2>5 DEF Clear, Goto, files, row, worker, cleanup
  <2>6. CASE CleanLook(j)
    <3>1. CASE Cleaned(j) /\ backup[j] = None
      <4>1. \A k \in Jobs : /\ Safe(k) => Safe(k)'
                            /\ backup[k] # None /\ status'[k] # "removed" => status[k] # "removed"
        BY <2>6, <3>1 DEF CleanLook, Cleaned, CleanupEnds, files, worker
      <4>2. target' = target /\ backup' = backup
        BY <2>6 DEF CleanLook, files
      <4> QED
        BY <4>1, <4>2, SafeIsKept
    <3>2. ASSUME NEW step \in {"sweep", "restore", "drop"}, CleanGoto(j, step),
                 step = "drop" => target # None
          PROVE  Kept'
      BY <2>6, <3>2 DEF CleanLook, CleanGoto, files, worker
    <3> QED
      BY <2>6, <3>1, <3>2 DEF CleanLook
  <2>7. CASE CleanRestore(j)
      BY <2>7 DEF CleanRestore, Goto, files, row, worker, cleanup, CleanGoto
  <2>8. CASE CleanDrop(j)
      BY <2>8 DEF CleanDrop, Goto, files, row, worker, cleanup, CleanGoto
  <2>9. CASE CleanSweep(j)
    <3>1. backup[j] = None
      BY <2>9 DEF CleanSweep
    <3>2. status' = status \/ (\A k \in Jobs : k # j => status'[k] = status[k])
      BY <2>9 DEF CleanSweep, CleanRefused, Cleaned
    <3>3. \A k \in Jobs : k # j => cleaner'[k] = cleaner[k]
      BY <2>9 DEF CleanSweep, CleanRefused, Cleaned, CleanupEnds
    <3> QED
      BY <2>9, <3>1, <3>2, <3>3 DEF CleanSweep, worker
  <2>10. CASE CleanFails(j)
      BY <2>10 DEF CleanFails, Goto, files, row, worker, cleanup, CleanRefused, CleanupEnds
  <2> QED
      BY <1>4, <2>1, <2>2, <2>3, <2>4, <2>5, <2>6, <2>7, <2>8, <2>9, <2>10 DEF Manager
<1> QED
    BY <1>1, <1>2, <1>3, <1>4 DEF Next

\* Between the check and the publication nobody else moves the target.
LEMMA MatchedStep == TypeOK /\ Attended /\ Prepared /\ Matched /\ [Next]_vars => Matched'
<1> SUFFICES ASSUME TypeOK, Attended, Prepared, Matched, [Next]_vars PROVE Matched'
    OBVIOUS
<1>0. /\ backup \in [Jobs -> Files] /\ pc \in [Jobs -> Steps] /\ status \in [Jobs -> Statuses]
      /\ recovery \in [Jobs -> {"look", "restore", "clear", "done"}]
      /\ cleaner \in [Jobs -> {"idle", "look", "restore", "drop", "sweep"}]
      /\ saw \in [Jobs -> Files]
    BY DEF TypeOK
<1> USE <1>0, NoneIsFile DEF Attended, Matched
<1>1. CASE UNCHANGED vars
    BY <1>1 DEF vars, files, row, worker, cleanup
<1>2. CASE Crash
    BY <1>2 DEF Crash, files
<1>3. ASSUME NEW j \in Jobs, Worker(j) PROVE Matched'
  <2>1. CASE Start(j)
      BY <2>1 DEF Start, Goto, files, row, cleanup
  <2>2. CASE TakeLock(j)
      BY <2>2 DEF TakeLock, Goto, files, row, cleanup
  <2>3. CASE RecoverLook(j)
      BY <2>3 DEF RecoverLook, Goto, files, row, cleanup, Abandon, Release
  <2>4. CASE RecoverRestore(j)
      BY <2>4 DEF RecoverRestore, Goto, files, row, cleanup, TypeOK, LockIsHeld, Locked
  <2>5. CASE RecoverClear(j)
      BY <2>5 DEF RecoverClear, Goto, files, row, cleanup
  <2>6. CASE Resolve(j)
      BY <2>6 DEF Resolve, Goto, files, row, cleanup, Release
  <2>7. CASE Compare(j)
      BY <2>7 DEF Compare, Goto, files, row, cleanup, Abandon, Release
  <2>8. CASE Shield(j)
      BY <2>8 DEF Shield, Goto, files, row, cleanup
  <2>9. CASE Check(j)
      BY <2>9 DEF Check, Goto, files, row, cleanup, Prepared
  <2>10. CASE BackUp(j)
      BY <2>10 DEF BackUp, Goto, files, row, cleanup, TypeOK, LockIsHeld, Locked
  <2>11. CASE Publish(j)
      BY <2>11 DEF Publish, Goto, files, row, cleanup, TypeOK, LockIsHeld, Locked
  <2>12. CASE Settle(j)
      BY <2>12 DEF Settle, Goto, files, row, cleanup, Release
  <2>13. CASE Measure(j)
      BY <2>13 DEF Measure, Goto, files, row, cleanup
  <2>14. CASE Report(j)
      BY <2>14 DEF Report, Goto, files, row, cleanup
  <2>15. CASE Fails(j)
      BY <2>15 DEF Fails, Goto, files, row, cleanup, Abandon, Release
  <2>16. CASE Undo(j)
    <3>1. \A k \in Jobs : pc[k] \in Locked => k = j
      BY <2>16 DEF Undo, TypeOK, LockIsHeld, Locked
    <3>2. pc'[j] \in {"ending", "restoring"} /\ \A k \in Jobs : k # j => pc'[k] = pc[k]
      BY <2>16 DEF Undo, Abandon, Goto
    <3>3. \A k \in Jobs : pc'[k] \notin {"backing up", "publishing"}
      BY <3>1, <3>2 DEF Locked
    <3> QED
      BY <3>3
  <2>17. CASE UndoRestore(j)
      BY <2>17 DEF UndoRestore, Goto, files, row, cleanup, TypeOK, LockIsHeld, Locked
  <2>18. CASE UndoClear(j)
      BY <2>18 DEF UndoClear, Goto, files, row, cleanup, Abandon, Release
  <2>19. CASE UndoFails(j)
      BY <2>19 DEF UndoFails, Goto, files, row, cleanup, Abandon, Release
  <2>20. CASE Killed(j)
      BY <2>20 DEF Killed, Goto, files, row, cleanup, Abandon, Release, Alive
  <2> QED
      BY <1>3, <2>1, <2>2, <2>3, <2>4, <2>5, <2>6, <2>7, <2>8, <2>9, <2>10, <2>11, <2>12,
         <2>13, <2>14, <2>15, <2>16, <2>17, <2>18, <2>19, <2>20 DEF Worker
<1>4. ASSUME NEW j \in Jobs, Manager(j) PROVE Matched'
  <2>1. CASE EndRun(j)
      BY <2>1 DEF EndRun, Goto, files, row, worker, cleanup, EndStatuses
  <2>2. CASE Cancel(j)
      BY <2>2 DEF Cancel, Goto, files, row, worker, cleanup
  <2>3. CASE Retry(j)
      BY <2>3 DEF Retry, Goto, files, row, worker, cleanup
  <2>4. CASE CleanupMissing(j)
      BY <2>4 DEF CleanupMissing, Goto, files, row, worker, cleanup
  <2>5. ASSUME NEW what \in {"restart", "remove"}, Clear(j, what)
        PROVE Matched'
      BY <2>5 DEF Clear, Goto, files, row, worker, cleanup
  <2>6. CASE CleanLook(j)
      BY <2>6 DEF CleanLook, Goto, files, row, worker, cleanup, CleanGoto, Cleaned,
         CleanupEnds
  <2>7. CASE CleanRestore(j)
    <3>1. CASE lock # None
      <4>1. collided'
        BY <2>7, <3>1, Zenon DEF CleanRestore
      <4> QED
        BY <4>1
    <3>2. CASE lock = None
      <4>1. \A k \in Jobs : pc[k] \notin {"backing up", "publishing"}
        BY <3>2 DEF TypeOK, LockIsHeld, Locked
      <4>2. pc' = pc
        BY <2>7 DEF CleanRestore, worker
      <4> QED
        BY <4>1, <4>2
    <3> QED
      BY <3>1, <3>2
  <2>8. CASE CleanDrop(j)
      BY <2>8 DEF CleanDrop, Goto, files, row, worker, cleanup, CleanGoto
  <2>9. CASE CleanSweep(j)
      BY <2>9 DEF CleanSweep, Goto, files, row, worker, cleanup, CleanRefused, Cleaned,
         CleanupEnds
  <2>10. CASE CleanFails(j)
      BY <2>10 DEF CleanFails, Goto, files, row, worker, cleanup, CleanRefused, CleanupEnds
  <2> QED
      BY <1>4, <2>1, <2>2, <2>3, <2>4, <2>5, <2>6, <2>7, <2>8, <2>9, <2>10 DEF Manager
<1> QED
    BY <1>1, <1>2, <1>3, <1>4 DEF Next

\* A safe backup can be had.
LEMMA SafeIsRetrievable ==
    ASSUME NEW k \in Jobs, Safe(k)'
    PROVE  Retrievable'
BY DEF Safe, Retrievable

\* No step leaves the path empty without a backup that can be had.
LEMMA RetrievableStep ==
    TypeOK /\ Attended /\ Prepared /\ Kept /\ Retrievable /\ [Next]_vars => Retrievable'
<1> SUFFICES ASSUME TypeOK, Attended, Prepared, Kept, Retrievable, [Next]_vars PROVE Retrievable'
    OBVIOUS
<1>0. /\ backup \in [Jobs -> Files] /\ pc \in [Jobs -> Steps] /\ status \in [Jobs -> Statuses]
      /\ recovery \in [Jobs -> {"look", "restore", "clear", "done"}]
      /\ cleaner \in [Jobs -> {"idle", "look", "restore", "drop", "sweep"}]
      /\ saw \in [Jobs -> Files]
    BY DEF TypeOK
<1>safe. target # None \/ \E k \in Jobs : Safe(k)
    BY DEF Kept, Retrievable
<1> USE <1>0, <1>safe, NoneIsFile DEF Attended, Prepared, Recovering, Retrievable, Safe
<1>1. CASE UNCHANGED vars
    BY <1>1 DEF vars, files, row, worker, cleanup
<1>2. CASE Crash
    BY <1>2 DEF Crash, files
<1>3. ASSUME NEW j \in Jobs, Worker(j) PROVE Retrievable'
  <2>1. CASE Start(j)
      BY <2>1 DEF Start, Goto, files, row, cleanup
  <2>2. CASE TakeLock(j)
      BY <2>2 DEF TakeLock, Goto, files, row, cleanup
  <2>3. CASE RecoverLook(j)
      BY <2>3 DEF RecoverLook, Goto, files, row, cleanup, Abandon, Release
  <2>4. CASE RecoverRestore(j)
      BY <2>4 DEF RecoverRestore, Goto, files, row, cleanup
  <2>5. CASE RecoverClear(j)
      BY <2>5 DEF RecoverClear, Goto, files, row, cleanup
  <2>6. CASE Resolve(j)
      BY <2>6 DEF Resolve, Goto, files, row, cleanup, Release
  <2>7. CASE Compare(j)
      BY <2>7 DEF Compare, Goto, files, row, cleanup, Abandon, Release
  <2>8. CASE Shield(j)
      BY <2>8 DEF Shield, Goto, files, row, cleanup
  <2>9. CASE Check(j)
      BY <2>9 DEF Check, Goto, files, row, cleanup
  <2>10. CASE BackUp(j)
      BY <2>10 DEF BackUp, Goto, files, row, cleanup
  <2>11. CASE Publish(j)
    <3>1. <<j, run[j]>> # None
      BY <2>11, RunIsVideo DEF Publish
    <3> QED
      BY <2>11, <3>1 DEF Publish, Goto, row, cleanup
  <2>12. CASE Settle(j)
      BY <2>12 DEF Settle, Goto, files, row, cleanup, Release
  <2>13. CASE Measure(j)
      BY <2>13 DEF Measure, Goto, files, row, cleanup
  <2>14. CASE Report(j)
      BY <2>14 DEF Report, Goto, files, row, cleanup
  <2>15. CASE Fails(j)
      BY <2>15 DEF Fails, Goto, files, row, cleanup, Abandon, Release
  <2>16. CASE Undo(j)
      BY <2>16 DEF Undo, Goto, files, row, cleanup, Abandon, Release
  <2>17. CASE UndoRestore(j)
      BY <2>17 DEF UndoRestore, Goto, files, row, cleanup
  <2>18. CASE UndoClear(j)
      BY <2>18 DEF UndoClear, Goto, files, row, cleanup, Abandon, Release
  <2>19. CASE UndoFails(j)
      BY <2>19 DEF UndoFails, Goto, files, row, cleanup, Abandon, Release
  <2>20. CASE Killed(j)
      BY <2>20 DEF Killed, Goto, files, row, cleanup, Abandon, Release, Alive
  <2> QED
      BY <1>3, <2>1, <2>2, <2>3, <2>4, <2>5, <2>6, <2>7, <2>8, <2>9, <2>10, <2>11, <2>12,
         <2>13, <2>14, <2>15, <2>16, <2>17, <2>18, <2>19, <2>20 DEF Worker
<1>4. ASSUME NEW j \in Jobs, Manager(j) PROVE Retrievable'
  <2>1. CASE EndRun(j)
    <3>1. \A k \in Jobs : Safe(k) => Safe(k)'
      BY <2>1 DEF EndRun, EndStatuses, Goto, Safe, files, worker, cleanup
    <3>2. target' = target
      BY <2>1 DEF EndRun, files
    <3> QED
      BY <1>safe, <3>1, <3>2, SafeIsRetrievable DEF Retrievable
  <2>2. CASE Cancel(j)
    <3>1. \A k \in Jobs : Safe(k) => Safe(k)'
      BY <2>2 DEF Cancel, Safe, files, worker, cleanup
    <3>2. target' = target
      BY <2>2 DEF Cancel, files
    <3> QED
      BY <1>safe, <3>1, <3>2, SafeIsRetrievable DEF Retrievable
  <2>3. CASE Retry(j)
      BY <2>3 DEF Retry, Goto, files, row, worker, cleanup
  <2>4. CASE CleanupMissing(j)
      BY <2>4 DEF CleanupMissing, Goto, files, row, worker, cleanup
  <2>5. ASSUME NEW what \in {"restart", "remove"}, Clear(j, what)
        PROVE Retrievable'
      BY <2>5 DEF Clear, Goto, files, row, worker, cleanup
  <2>6. CASE CleanLook(j)
      BY <2>6 DEF CleanLook, Goto, files, row, worker, cleanup, CleanGoto, Cleaned,
         CleanupEnds
  <2>7. CASE CleanRestore(j)
      BY <2>7 DEF CleanRestore, Goto, files, row, worker, cleanup, CleanGoto
  <2>8. CASE CleanDrop(j)
      BY <2>8 DEF CleanDrop, Goto, files, row, worker, cleanup, CleanGoto
  <2>9. CASE CleanSweep(j)
    <3>1. backup[j] = None
      BY <2>9 DEF CleanSweep
    <3>2. status' = status \/ (\A k \in Jobs : k # j => status'[k] = status[k])
      BY <2>9 DEF CleanSweep, CleanRefused, Cleaned
    <3>3. \A k \in Jobs : k # j => cleaner'[k] = cleaner[k]
      BY <2>9 DEF CleanSweep, CleanRefused, Cleaned, CleanupEnds
    <3> QED
      BY <2>9, <3>1, <3>2, <3>3 DEF CleanSweep, worker
  <2>10. CASE CleanFails(j)
      BY <2>10 DEF CleanFails, Goto, files, row, worker, cleanup, CleanRefused, CleanupEnds
  <2> QED
      BY <1>4, <2>1, <2>2, <2>3, <2>4, <2>5, <2>6, <2>7, <2>8, <2>9, <2>10 DEF Manager
<1> QED
    BY <1>1, <1>2, <1>3, <1>4 DEF Next

--------------------------------------------------------------------------------

\* The invariant is inductive.
LEMMA StepIInv == IInv /\ [Next]_vars => IInv'
BY TypeStep, AttendedStep, PreparedStep, KeptStep, MatchedStep DEF IInv

\* The five parts of IInv hold in every state of every number of jobs, qualities and runs.
THEOREM ArchiveInvariant == Spec => []IInv
<1>1. Init => IInv
    BY InitIInv
<1>2. IInv /\ [Next]_vars => IInv'
    BY StepIInv
<1> QED
    BY <1>1, <1>2, PTL DEF Spec

\* Types, and exclusion under the finalize lock: the lock belongs to the one worker that is
\* in a step that needs it, through errors, kills and crashes.
THEOREM ArchiveTypeCorrect == Spec => []TypeOK
<1>1. IInv => TypeOK
    BY DEF IInv
<1> QED
    BY <1>1, ArchiveInvariant, PTL

\* A publication replaces the very file whose identity its run resolved, and finds the name
\* free, as long as no cleanup has put a backup back during it.
THEOREM ReplacedIsSeen == Spec => []ReplacedWasSeen
<1>1. IInv => ReplacedWasSeen
    BY DEF IInv, Matched, ReplacedWasSeen
<1> QED
    BY <1>1, ArchiveInvariant, PTL

\* Once some complete video of the work can be had, one can be had for ever: no kill, error,
\* crash, recovery or unlocked cleanup loses the last copy.
THEOREM VideoIsNeverLost == Spec => VideoIsKept
<1>1. IInv /\ [Next]_vars => (Retrievable => Retrievable')
    BY RetrievableStep DEF IInv
<1>2. [][Next]_vars /\ []IInv => [][Retrievable => Retrievable']_vars
    <2>1. IInv /\ [Next]_vars => [Retrievable => Retrievable']_vars
        BY <1>1
    <2> QED
        BY <2>1, PTL
<1> QED
    BY <1>2, ArchiveInvariant DEF Spec, VideoIsKept

--------------------------------------------------------------------------------
\* What a run judged.

\* A run that goes on for a higher quality has judged what it resolved to be lower, if the
\* name led to that file.
Judged ==
    \A j \in Jobs :
        /\ policy[j] = "higher_quality" /\ ~strayed[j] /\ saw[j] # None
        /\ pc[j] \in {"downloading", "archiving", "checking", "backing up", "publishing"}
        => HeightOf(saw[j]) < Height[j]

\* What a comparison of two qualities that fails says.
LEMMA NotAtMost == \A a, b \in Nat : ~(b <= a) => a < b
OBVIOUS

\* Every video has a quality.
LEMMA HeightIsNat == \A v \in Videos : HeightOf(v) \in Nat
BY ArchiveAssumption DEF Videos, HeightOf

\* Only Resolve and Compare make a run go on, and nobody else changes what it saw.
LEMMA JudgedStep == TypeOK /\ Judged /\ [Next]_vars => Judged'
<1> SUFFICES ASSUME TypeOK, Judged, [Next]_vars PROVE Judged'
    OBVIOUS
<1>0. /\ pc \in [Jobs -> Steps] /\ saw \in [Jobs -> Files] /\ strayed \in [Jobs -> BOOLEAN]
      /\ policy \in [Jobs -> Policies]
    BY DEF TypeOK
<1> USE <1>0 DEF Judged
<1>1. CASE UNCHANGED vars
    BY <1>1 DEF vars, row, worker, HeightOf
<1>2. CASE Crash
    BY <1>2 DEF Crash
<1>3. ASSUME NEW j \in Jobs, Worker(j) PROVE Judged'
  <2>1. CASE Start(j) \/ TakeLock(j)
      BY <2>1 DEF Start, TakeLock, Goto, row
  <2>2. CASE RecoverLook(j) \/ RecoverRestore(j) \/ RecoverClear(j)
      BY <2>2 DEF RecoverLook, RecoverRestore, RecoverClear, Abandon, Goto, row
  <2>3. CASE Resolve(j)
      BY <2>3 DEF Resolve, Goto, row
  <2>4. CASE Compare(j)
    <3>1. /\ \A k \in Jobs : k # j => pc'[k] = pc[k] /\ strayed'[k] = strayed[k]
          /\ UNCHANGED <<policy, saw>>
      BY <2>4 DEF Compare, Abandon, Goto, row
    <3>2. ASSUME policy[j] = "higher_quality", ~strayed'[j], saw[j] # None,
                 pc'[j] \in {"downloading", "archiving", "checking", "backing up",
                            "publishing"}
          PROVE  HeightOf(saw[j]) < Height[j]
      <4>1. target = saw[j]
        BY <2>4, <3>2 DEF Compare
      <4>2. ~(Height[j] <= HeightOf(saw[j]))
        BY <2>4, <3>2, <4>1 DEF Compare, Abandon, Goto
      <4>3. HeightOf(saw[j]) \in Nat /\ Height[j] \in Nat
        BY <3>2, HeightIsNat, ArchiveAssumption DEF Files
      <4> QED
        BY <4>2, <4>3, NotAtMost, Zenon
    <3> QED
      BY <3>1, <3>2
  <2>5. CASE Shield(j) \/ Check(j) \/ BackUp(j) \/ Publish(j) \/ Settle(j) \/ Measure(j)
      BY <2>5 DEF Shield, Check, BackUp, Publish, Settle, Measure, Goto, row
  <2>6. CASE Report(j)
      BY <2>6 DEF Report, Goto
  <2>7. CASE Fails(j) \/ Undo(j) \/ UndoRestore(j) \/ UndoClear(j) \/ UndoFails(j)
             \/ Killed(j)
      BY <2>7 DEF Fails, Undo, UndoRestore, UndoClear, UndoFails, Killed, Abandon, Goto, row
  <2> QED
      BY <1>3, <2>1, <2>2, <2>3, <2>4, <2>5, <2>6, <2>7 DEF Worker
<1>4. ASSUME NEW j \in Jobs, Manager(j) PROVE Judged'
  <2>1. CASE EndRun(j)
      BY <2>1 DEF EndRun, Goto
  <2>2. CASE Cancel(j) \/ Retry(j) \/ CleanupMissing(j)
             \/ \E what \in {"restart", "remove"} : Clear(j, what)
      BY <2>2 DEF Cancel, Retry, CleanupMissing, Clear, row, worker
  <2>3. CASE CleanLook(j) \/ CleanRestore(j) \/ CleanDrop(j) \/ CleanSweep(j)
             \/ CleanFails(j)
      BY <2>3 DEF CleanLook, CleanRestore, CleanDrop, CleanSweep, CleanFails, worker
  <2> QED
      BY <1>4, <2>1, <2>2, <2>3 DEF Manager
<1> QED
    BY <1>1, <1>2, <1>3, <1>4 DEF Next

\* A job that asks for a higher quality replaces a lower one, in any mixture of jobs and
\* policies, if what it judged is what it had resolved.
THEOREM UpgradesAreUpgrades == Spec => []UpgradesOnly
<1>1. Init => Judged
    BY DEF Init, Judged
<1>2. TypeOK /\ Judged /\ [Next]_vars => Judged'
    BY JudgedStep
<1>3. Judged /\ ReplacedWasSeen => UpgradesOnly
    BY DEF Judged, ReplacedWasSeen, UpgradesOnly
<1> QED
    BY <1>1, <1>2, <1>3, ArchiveTypeCorrect, ReplacedIsSeen, PTL DEF Spec
================================================================================
