------------------------- MODULE StorageReservations -------------------------
(***************************************************************************)
(* The disk budget of the web downloads: WebDownloadStorageReservations    *)
(* (src/jav_pilot/web_download/storage.py), the events by which the        *)
(* manager resizes a job's reservation, and the workers that fill the disk *)
(* meanwhile: they fetch segments, and under the finalize lock assemble a  *)
(* TS, remux it to an MP4 and copy that into the library.                  *)
(*                                                                         *)
(* A worker and the reservation of its job run in different processes. The *)
(* worker writes first and reports later, or reports an encrypted segment  *)
(* that it has in memory and writes when it is complete; an error may      *)
(* throw away what was reported, and a worker that is killed leaves its    *)
(* files behind.                                                           *)
(***************************************************************************)
EXTENDS Integers, FiniteSets, FiniteSetsExt, Functions

CONSTANTS Jobs,      \* jobs that run at the same time
          None,      \* no lease, no lock holder, no report
          Refused,   \* a report that the budget refused
          Capacity,  \* bytes of a filesystem that the downloads may use
          MinFree,   \* min_free_bytes
          Initial,   \* initial_media_bytes
          MaxFile,   \* max_file_bytes
          Padding    \* bytes of an encrypted segment beyond its text (up to 16 in the code)

ASSUME StorageAssumption ==
    /\ IsFiniteSet(Jobs) /\ {None, Refused} \cap Jobs = {}
    /\ Capacity \in Nat /\ MinFree \in 0..Capacity
    /\ Initial \in Nat \ {0} /\ MaxFile \in Nat \ {0} /\ Initial <= MaxFile
    /\ Padding \in Nat

ASSUME NoneAssumption ==
    {None, Refused} \cap ([media : Nat, done : Nat] \cup
                          [down : Nat, media : Nat, exact : BOOLEAN]) = {}

\* Fixed at the start: whether staging and library share a filesystem, and the bytes of
\* each job's media, which the worker knows when it has the last segment.
VARIABLES shared, size
settings == <<shared, size>>

VARIABLES
    leases,   \* _leases: media_bytes and downloaded_bytes of each reservation
    report,   \* the progress event that the manager has not yet applied
    missed    \* history: what the budget did not see (see Looked, Release)
budget == <<leases, report, missed>>

VARIABLES
    stage,    \* how far the job's worker is
    kept,     \* bytes of committed segments in staging
    got,      \* kept, and the part of the segment that is arriving
    held,     \* bytes of an encrypted segment that the worker has in memory
    copies,   \* further copies of the media, and what is left of an unfinished one
    lock      \* the job whose worker holds the finalize lock
files == <<kept, got, held, copies>>
vars == <<settings, budget, stage, files, lock>>

Finalizing == {"assembling", "remuxing", "remuxed", "archiving"}
Running    == {"preparing", "fetching", "complete", "published"} \cup Finalizing
Stages     == {"queued", "ended", "done"} \cup Running

\* In staging the TS and the MP4, in the library the video; a part is the file that each is
\* written as, found only when its writer was killed.
Transport == {"ts", "mp4"}
InStaging == Transport \cup {"ts.part", "mp4.part"}
InLibrary == {"part", "video"}

Excess(a, b) == IF a > b THEN a - b ELSE 0

--------------------------------------------------------------------------------

Devices == IF shared THEN {"staging"} ELSE {"staging", "library"}
Library == IF shared THEN "staging" ELSE "library"

Staged(j)   == got[j] + size[j] * Cardinality(copies[j] \cap InStaging)
Archived(j) == size[j] * Cardinality(copies[j] \cap InLibrary)

\* What disk_usage(path).free says.
Free(d) ==
    Capacity - SumFunction([j \in Jobs |-> (IF d = "staging" THEN Staged(j) ELSE 0)
                                           + (IF d = Library THEN Archived(j) ELSE 0)])

Active(ls) == {j \in Jobs : ls[j] # None}

\* What the active leases may still write into segments, what they are for, and the
\* medium of the largest: one job at a time makes copies, and any may be the one.
Remaining(ls) == SumFunction([j \in Active(ls) |-> Excess(ls[j].media, ls[j].done)])
Media(ls)     == SumFunction([j \in Active(ls) |-> ls[j].media])
Largest(ls)   == IF Active(ls) = {} THEN 0 ELSE Max({ls[j].media : j \in Active(ls)})

\* Mutant: the TS is counted and the MP4 made from it is not.
RequiredOneCopy(ls, d) ==
    IF d = "staging" THEN Remaining(ls) + Largest(ls) ELSE Media(ls)

\* _aggregate_required: what the active leases may still write on a filesystem.
Required(ls, d) ==
    IF d = "staging" THEN Remaining(ls) + 2 * Largest(ls) ELSE Media(ls)

\* _shortfall_volume_keys finds none.
Fits(ls) == \A d \in Devices : Free(d) >= MinFree + Required(ls, d)

\* After a look at the disk the budget is right but for bytes that it takes for written
\* and that are not there: those of a part that was reported and then discarded, and
\* those of an encrypted segment that is reported and still in memory.
Looked(ls) ==
    missed' = [j \in Jobs |-> IF ls[j] # None /\ stage[j] = "fetching"
                              THEN Excess(ls[j].done, got[j]) ELSE 0]

\* What a job's medium takes of staging's filesystem: its segments, and when these are
\* gone the video, if that is on the same.
Medium(j) == IF shared /\ stage[j] = "done" THEN size[j] ELSE got[j]

--------------------------------------------------------------------------------

Init ==
    /\ shared \in BOOLEAN
    /\ size \in [Jobs -> 1..MaxFile]
    /\ leases = [j \in Jobs |-> None]
    /\ report = [j \in Jobs |-> None]
    /\ missed = [j \in Jobs |-> 0]
    /\ stage = [j \in Jobs |-> "queued"]
    /\ kept = [j \in Jobs |-> 0]
    /\ got = [j \in Jobs |-> 0]
    /\ held = [j \in Jobs |-> 0]
    /\ copies = [j \in Jobs |-> {}]
    /\ lock = None

\* try_reserve: the job is run only under a lease. A refusal changes nothing here.
TryReserve(j) ==
    LET ls == [leases EXCEPT ![j] = [media |-> Initial, done |-> 0]]
    IN  /\ stage[j] = "queued" /\ leases[j] = None
        /\ Fits(ls)
        /\ leases' = ls
        /\ Looked(ls)
        /\ stage' = [stage EXCEPT ![j] = "preparing"]
        /\ UNCHANGED <<settings, report, files, lock>>

\* release, when the manager is done with the run. What the worker wrote beyond its
\* lease stays on the disk, and the leases of the others were granted without it.
Release(j) ==
    /\ stage[j] \in {"ended", "done"} /\ leases[j] # None
    /\ leases' = [leases EXCEPT ![j] = None]
    /\ report' = [report EXCEPT ![j] = None]
    /\ missed' = [missed EXCEPT ![j] = @ + Excess(Medium(j), leases[j].media)]
    /\ stage' = [stage EXCEPT ![j] = IF @ = "ended" THEN "queued" ELSE @]
    /\ UNCHANGED <<settings, files, lock>>

\* The lease that _try_resize is asked for: downloaded_bytes never falls, and
\* media_bytes falls only to an exact size.
Target(current, r) ==
    LET done == Max({current.done, r.down})
    IN  [done  |-> done,
         media |-> IF r.exact THEN Max({r.media, done})
                   ELSE Max({current.media, r.media, done})]

\* The manager applies a report. A lease that raises the requirement of no filesystem
\* is granted without a look at the disk, even if the worker has gone beyond its old one;
\* the budget then misses by what the medium grows, and the copies of the largest with it.
Apply(j) ==
    LET ls == [leases EXCEPT ![j] = Target(@, report[j])]
        grows == \E d \in Devices : Required(ls, d) > Required(leases, d)
    IN  /\ leases[j] # None /\ report[j] \notin {None, Refused}
        /\ \/ /\ ~grows
              /\ leases' = ls
              /\ report' = [report EXCEPT ![j] = None]
              /\ missed' = [missed EXCEPT ![j] =
                               @ + Excess(ls[j].media, leases[j].media)
                               + 2 * Excess(Largest(ls), Largest(leases))]
           \/ /\ grows /\ Fits(ls)
              /\ leases' = ls
              /\ report' = [report EXCEPT ![j] = None]
              /\ Looked(ls)
           \/ \* WebDownloadDiskLowError: the worker is stopped, and goes on until it is.
              /\ grows /\ ~Fits(ls)
              /\ report' = [report EXCEPT ![j] = Refused]
              /\ UNCHANGED <<leases, missed>>
        /\ UNCHANGED <<settings, stage, files, lock>>

--------------------------------------------------------------------------------

Goes(j, from, to) ==
    /\ stage[j] = from
    /\ stage' = [stage EXCEPT ![j] = to]

\* ResumeStore.prepare: the committed segments are kept, a part is not. (A manifest that
\* changed, for which none is kept, is left out.)
Prepare(j) ==
    /\ Goes(j, "preparing", "fetching")
    /\ got' = [got EXCEPT ![j] = kept[j]]
    /\ UNCHANGED <<settings, budget, kept, held, copies, lock>>

\* Bytes of the next segment arrive.
Write(j) ==
    /\ stage[j] = "fetching" /\ got[j] = kept[j] /\ got[j] < size[j] /\ held[j] = 0
    /\ got' = [got EXCEPT ![j] = @ + 1]
    /\ UNCHANGED <<settings, budget, stage, kept, held, copies, lock>>

\* Those of an encrypted one are kept in memory.
Buffer(j) ==
    /\ stage[j] = "fetching" /\ got[j] = kept[j] /\ got[j] < size[j] /\ held[j] = 0
    /\ held' = [held EXCEPT ![j] = 1]
    /\ UNCHANGED <<settings, budget, stage, kept, got, copies, lock>>

\* It has arrived, is decrypted and written.
Decrypt(j) ==
    /\ stage[j] = "fetching" /\ held[j] > 0
    /\ got' = [got EXCEPT ![j] = @ + 1]
    /\ held' = [held EXCEPT ![j] = 0]
    /\ UNCHANGED <<settings, budget, stage, kept, copies, lock>>

\* commit_segment: the segment is complete.
Commit(j) ==
    /\ stage[j] = "fetching" /\ got[j] > kept[j]
    /\ kept' = [kept EXCEPT ![j] = got[j]]
    /\ UNCHANGED <<settings, budget, stage, got, held, copies, lock>>

\* discard_part: the segment fails and is fetched again.
Discard(j) ==
    /\ stage[j] = "fetching" /\ got[j] + held[j] > kept[j]
    /\ got' = [got EXCEPT ![j] = kept[j]]
    /\ held' = [held EXCEPT ![j] = 0]
    /\ UNCHANGED <<settings, budget, stage, kept, copies, lock>>

\* What has arrived, as it is counted: an encrypted segment with its padding.
Arrived(j) == IF held[j] = 0 THEN {got[j]}
              ELSE got[j] + held[j] .. Min({got[j] + held[j] + Padding, MaxFile})

\* report_progress, and the media size that _resize_storage_reservation reads from the
\* event: an estimate, once there are fragments enough for one. Progress is reported
\* only now and then, so nothing makes a write wait for this.
Report(j) ==
    /\ stage[j] = "fetching" /\ report[j] = None
    /\ \E down \in Arrived(j) :
          \E media \in {Min({down + Initial, MaxFile})} \cup Max({down, 1})..MaxFile :
             report' = [report EXCEPT ![j] =
                           [down |-> down, media |-> media, exact |-> FALSE]]
    /\ UNCHANGED <<settings, leases, missed, stage, files, lock>>

\* The last report of the transfer is exact.
Complete(j) ==
    /\ kept[j] = size[j] /\ report[j] = None
    /\ Goes(j, "fetching", "complete")
    /\ report' = [report EXCEPT ![j] =
                     [down |-> size[j], media |-> size[j], exact |-> TRUE]]
    /\ UNCHANGED <<settings, leases, missed, files, lock>>

\* What remains of a job's copies, and which one is there now.
Copies(j, gone, new) ==
    /\ copies' = [copies EXCEPT ![j] = (@ \ gone) \cup new]
    /\ UNCHANGED <<settings, budget, kept, got, held>>

\* require_free_space, the worker's own look before it makes a copy. What an earlier run
\* left of that copy is removed only after the look.
HasSpace(j, part) ==
    Free("staging")' >= MinFree + size[j] + (IF part \in copies[j] THEN size[j] ELSE 0)

\* exclusive_finalize_lock: what an earlier run assembled is removed first.
TakeLock(j) ==
    /\ lock = None
    /\ Goes(j, "complete", "assembling")
    /\ lock' = j
    /\ Copies(j, Transport \cup {"ts.part"}, {})
    /\ HasSpace(j, "ts.part")

\* _assemble_transport_stream, then the look before the remux.
Assemble(j) ==
    /\ Goes(j, "assembling", "remuxing")
    /\ Copies(j, {"mp4.part"}, {"ts"})
    /\ HasSpace(j, "mp4.part")
    /\ UNCHANGED lock

\* _remux_local_video: for a moment segments, TS and MP4 are there.
Remux(j) ==
    /\ Goes(j, "remuxing", "remuxed")
    /\ Copies(j, {}, {"mp4"})
    /\ UNCHANGED lock

\* The TS is unlinked, the worker looks at the library's filesystem, and the copy begins;
\* its part takes its space at once.
StartArchive(j) ==
    /\ Goes(j, "remuxed", "archiving")
    /\ Copies(j, {"ts"}, {"part"})
    /\ Free(Library)' + (IF "part" \in copies[j] THEN 0 ELSE size[j]) >= MinFree + size[j]
    /\ UNCHANGED lock

\* The part replaces what the library has and the lock is let go; what is staged stays until
\* the worker has reported the completion.
Publish(j) ==
    /\ Goes(j, "archiving", "published")
    /\ Copies(j, {"part"}, {"video"})
    /\ lock' = None

DiscardStaging(j) ==
    /\ Goes(j, "published", "done")
    /\ kept' = [kept EXCEPT ![j] = 0]
    /\ got' = [got EXCEPT ![j] = 0]
    /\ copies' = [copies EXCEPT ![j] = {"video"}]
    /\ UNCHANGED <<settings, budget, held, lock>>

\* What an interruption makes of a job's copies: a failure removes the part that was being
\* written, a kill leaves it.
Leftovers(j) ==
    CASE stage[j] = "assembling" -> {copies[j], copies[j] \cup {"ts.part"}}
      [] stage[j] = "remuxing"   -> {copies[j], copies[j] \cup {"mp4.part"}}
      [] stage[j] = "archiving"  -> {copies[j], copies[j] \ {"part"}}
      [] OTHER                   -> {copies[j]}

\* Mutant: the finalize lock outlives its holder.
StopLocked(j) ==
    /\ stage[j] \in Running
    /\ stage' = [stage EXCEPT ![j] = "ended"]
    /\ \E left \in Leftovers(j) : copies' = [copies EXCEPT ![j] = left]
    /\ held' = [held EXCEPT ![j] = 0]
    /\ UNCHANGED <<settings, budget, kept, got, lock>>

\* The worker fails, or is killed and leaves what it was making; its staging directory
\* is a checkpoint and stays.
Stop(j) ==
    /\ stage[j] \in Running
    /\ stage' = [stage EXCEPT ![j] = "ended"]
    /\ lock' = IF lock = j THEN None ELSE lock
    /\ \E left \in Leftovers(j) : copies' = [copies EXCEPT ![j] = left]
    /\ held' = [held EXCEPT ![j] = 0]
    /\ UNCHANGED <<settings, budget, kept, got>>

\* cleanup_job_artifacts: the manager cleans up a job that is at rest, cancelled and
\* removed, or published by a run that was killed before it could tidy up.
Remove(j) ==
    /\ Goes(j, "queued", "done")
    /\ kept' = [kept EXCEPT ![j] = 0]
    /\ got' = [got EXCEPT ![j] = 0]
    /\ copies' = [copies EXCEPT ![j] = @ \cap {"video"}]
    /\ UNCHANGED <<settings, budget, held, lock>>

\* The container dies: reservations live in memory, the files do not.
Crash ==
    /\ leases' = [j \in Jobs |-> None]
    /\ report' = [j \in Jobs |-> None]
    /\ missed' = [j \in Jobs |->
                    missed[j] + (IF leases[j] = None THEN 0
                                 ELSE Excess(Medium(j), leases[j].media))]
    /\ stage' = [j \in Jobs |-> IF stage[j] = "done" THEN "done" ELSE "queued"]
    /\ IF lock = None THEN UNCHANGED copies
       ELSE \E left \in Leftovers(lock) : copies' = [copies EXCEPT ![lock] = left]
    /\ lock' = None
    /\ held' = [j \in Jobs |-> 0]
    /\ UNCHANGED <<settings, kept, got>>

Reservations(j) == TryReserve(j) \/ Apply(j) \/ Release(j)
Transfer(j) ==
    \/ Prepare(j) \/ Write(j) \/ Buffer(j) \/ Decrypt(j) \/ Commit(j) \/ Discard(j)
    \/ Report(j) \/ Complete(j)
Publication(j) ==
    \/ TakeLock(j) \/ Assemble(j) \/ Remux(j) \/ StartArchive(j) \/ Publish(j)
    \/ DiscardStaging(j)

Next ==
    \/ \E j \in Jobs : Reservations(j) \/ Transfer(j) \/ Publication(j)
    \/ \E j \in Jobs : Stop(j) \/ Remove(j)
    \/ Crash

Spec == Init /\ [][Next]_vars

--------------------------------------------------------------------------------

Lease == [media : 1..MaxFile, done : 0..MaxFile]
Event == [down : 0..MaxFile, media : 1..MaxFile, exact : BOOLEAN]

\* Types; a lease is held exactly while its job runs or its end is being recorded, it
\* never says that more is downloaded than there is, and the lock is its holder's.
TypeOK ==
    /\ shared \in BOOLEAN /\ size \in [Jobs -> 1..MaxFile]
    /\ leases \in [Jobs -> Lease \cup {None}]
    /\ report \in [Jobs -> Event \cup {None, Refused}]
    /\ missed \in [Jobs -> Nat]
    /\ stage \in [Jobs -> Stages]
    /\ kept \in [Jobs -> 0..MaxFile] /\ got \in [Jobs -> 0..MaxFile]
    /\ held \in [Jobs -> 0..MaxFile]
    /\ copies \in [Jobs -> SUBSET (InStaging \cup InLibrary)]
    /\ lock \in Jobs \cup {None}
    /\ \A j \in Jobs : /\ kept[j] <= got[j] /\ got[j] <= size[j]
                       /\ held[j] > 0 => stage[j] = "fetching" /\ got[j] < size[j]
                       /\ got[j] + held[j] <= MaxFile
    /\ \A j \in Jobs : /\ leases[j] # None => leases[j].done <= leases[j].media
                       /\ stage[j] \in Running \cup {"ended"} => leases[j] # None
                       /\ stage[j] = "queued" => leases[j] = None
                       /\ stage[j] \in Finalizing <=> lock = j

\* Bytes of a medium beyond its lease, not yet reported, and in the hands of the holder of
\* the finalize lock the bytes of both copies beyond those of the largest lease.
Overrun(j) ==
    IF leases[j] = None THEN 0
    ELSE Excess(Medium(j), leases[j].media)
         + (IF lock = j THEN 2 * Excess(size[j], Largest(leases)) ELSE 0)

\* The further copies of a job that does not hold the finalize lock.
Stray(j) ==
    IF lock = j THEN 0
    ELSE size[j] * Cardinality(copies[j] \cap InStaging)
         + (IF shared THEN Min({Archived(j), got[j]}) ELSE 0)

\* However jobs overlap, fail, are resumed and lose their reservations, the downloads
\* take a filesystem below min_free_bytes by no more than the budget is known to miss:
\* bytes not yet reported or granted without a look, parts reported and then fetched
\* again or still in memory when the budget looked at the disk, and copies that a worker
\* leaves when it lets go of the lock. The library's own filesystem stays above.
FloorIsKept ==
    /\ Free("staging") + SumFunction([j \in Jobs |-> Overrun(j) + missed[j] + Stray(j)])
          >= MinFree
    /\ ~shared => Free("library") >= MinFree
================================================================================
