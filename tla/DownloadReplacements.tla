-------------------------- MODULE DownloadReplacements --------------------------
(***************************************************************************)
(* The replacement of a failed download (downloads/replacements.py,        *)
(* resource_recovery.py, api/services/replacements.py, routes):            *)
(* a row is made for the failure, a worker looks for other sources, a      *)
(* request submits one of them as a new download and then removes the      *)
(* failed one, or the failure is disposed of.                              *)
(*                                                                         *)
(* One failure and its rows, one after the other; request handlers run     *)
(* concurrently and each store call is one transaction, the calls to       *)
(* qBittorrent or the download manager between them are steps of their     *)
(* own.  Times are what the code compares: a lease has run out or not, a   *)
(* row is older than its seven days or not.  cleanup_failed behaves as     *)
(* replacement_created and is one status with it; manual_magnet is         *)
(* smart_magnet without the selection; a discovery that was inconclusive   *)
(* or not made yet is unknown.  qBittorrent may add a torrent after the    *)
(* request for it has ended in an error, and may have it from elsewhere.   *)
(***************************************************************************)
EXTENDS Naturals

CONSTANTS
    Handlers,        \* request threads
    None,
    Modes,           \* the recoveries that are asked for
    MaxRows,         \* bound: rows made for the failure
    MaxRevision      \* bound: changes of the failed download

ASSUME ReplacementAssumption ==
    /\ None \notin Handlers \cup {"magnet", "web"}
    /\ Modes \subseteq {"smart", "web"}
    /\ MaxRows \in Nat \ {0} /\ MaxRevision \in Nat

Ids == 1..MaxRows
Targets == {"magnet", "web"}    \* the new download: a torrent, or a job of the row's id
ActiveStatuses == {"open", "submitting", "created", "discarding"}
Statuses == ActiveStatuses \cup {"completed", "discarded", "expired"}
Channel == {"unknown", "available", "not_found"}

VARIABLES
    id,        \* of the present row; 0 before the first
    row,       \* the present row; earlier ones are expired, completed or deleted
    source,    \* the failed download: whether it is there and failed, and its revision
    known,     \* the targets of each row that a request created, or looked for and found
    there,     \* the targets created for it, or that qBittorrent is yet to add, and not
               \* missed since
    pc,        \* where each request is
    mine,      \* the row it works for
    goal,      \* the target it submits or the mode it asks for
    cleanup,   \* who holds DOWNLOAD_REPLACEMENT_CLEANUP_LOCK
    probe,     \* each row's place in the recovery manager
    overran    \* history: a target was created by a request without a valid lease, or a row
               \* was released from a torrent that was yet to come

request == <<pc, mine, goal>>
world == <<source, known, there>>
vars == <<id, row, world, request, cleanup, probe, overran>>

Steps == {"idle", "enqueuing", "reading", "checking", "sending", "marking", "confirming",
          "removing", "removed", "kept", "selecting", "selected", "beginning",
          "disposing", "disposed", "refused"}

Row(rev) == [status |-> "open", rev |-> rev, bound |-> None, lease |-> None,
             late |-> FALSE, aged |-> FALSE, mode |-> None, discovery |-> "idle",
             lapsed |-> FALSE, magnet |-> "unknown", web |-> "unknown", smart |-> "idle"]

TypeOK ==
    /\ id \in 0..MaxRows
    /\ row \in [status : Statuses, rev : 0..MaxRevision, bound : Targets \cup {None},
                lease : Handlers \cup {None}, late : BOOLEAN, aged : BOOLEAN,
                mode : Modes \cup {None},
                discovery : {"idle", "queued", "running", "finished"},
                lapsed : BOOLEAN, magnet : Channel, web : Channel,
                smart : {"idle", "running", "exhausted"}]
    /\ source \in [at : {"failed", "busy", "gone"}, rev : 0..MaxRevision]
    /\ known \in [Ids -> SUBSET Targets] /\ there \in [Ids -> SUBSET Targets]
    /\ pc \in [Handlers -> Steps]
    /\ mine \in [Handlers -> 0..MaxRows]
    /\ goal \in [Handlers -> Targets \cup Modes \cup {None}]
    /\ cleanup \in Handlers \cup {None}
    /\ probe \in [Ids -> {"none", "queued", "probing", "done"}]
    /\ overran \in BOOLEAN
    \* A bound target and a lease are what the status says.
    /\ row.status \in {"submitting", "created"} => row.bound # None
    /\ row.status \in {"submitting", "discarding"} => row.lease # None

Init ==
    /\ id = 0
    /\ row = [Row(0) EXCEPT !.status = "expired"]
    /\ source = [at |-> "failed", rev |-> 0]
    /\ known = [i \in Ids |-> {}] /\ there = [i \in Ids |-> {}]
    /\ pc = [h \in Handlers |-> "idle"]
    /\ mine = [h \in Handlers |-> 0]
    /\ goal = [h \in Handlers |-> None]
    /\ cleanup = None
    /\ probe = [i \in Ids |-> "none"]
    /\ overran = FALSE

Freed(r) == [r EXCEPT !.lease = None, !.late = FALSE]

\* Mutant: an expired submission forgets its target, as a released one does.
SweptUnbound(r) ==
    IF r.status = "submitting" /\ r.late /\ ~r.aged
    THEN [Freed(r) EXCEPT !.status = "open", !.bound = None]
    ELSE IF r.status \in {"open", "submitting", "created"} /\ r.aged
    THEN [Freed(r) EXCEPT !.status = "expired"] ELSE r

\* _expire_locked: the target of an expired submission stays bound, since nobody knows
\* whether it was created.
Swept(r) ==
    IF r.status = "submitting" /\ r.late /\ ~r.aged
    THEN [Freed(r) EXCEPT !.status = "open"]
    ELSE IF r.status \in {"open", "submitting", "created"} /\ r.aged
    THEN [Freed(r) EXCEPT !.status = "expired"] ELSE r

\* recover_interrupted_dispositions
Reopened(r) ==
    IF r.status = "discarding" THEN [Freed(r) EXCEPT !.status = "open", !.aged = FALSE] ELSE r

Available(r, t) ==
    /\ r.discovery = "finished"
    /\ IF t = "web" THEN r.mode = "web" /\ r.web = "available"
                    ELSE r.mode = "smart" /\ r.magnet = "available"

\* _DISPOSABLE_FAILURE_WHERE.  The failure is a web job here; of a torrent only the
\* first disjunct counts.
Disposable(r) ==
    /\ r.status = "open"
    /\ \/ r.magnet = "not_found" /\ r.web = "not_found"
       \/ r.mode = "smart" /\ r.smart = "exhausted"

\* A look finds a target of the row, or a torrent somebody else added: only its hash and
\* category are asked for.  Or it is missed, since the operator may delete any download.
Seen(i, t) ==
    /\ t = "web" => t \in there[i]
    /\ known' = [known EXCEPT ![i] = @ \cup {t}]
    /\ UNCHANGED there

Missed(i, t) == there' = [there EXCEPT ![i] = @ \ {t}] /\ UNCHANGED known

\* The request's row is the present one, in this status and under its lease.
Holds(h, s) == mine[h] = id /\ row.status = s /\ row.lease = h

Goto(h, step) == pc' = [pc EXCEPT ![h] = step]
Done(h) ==
    /\ pc' = [pc EXCEPT ![h] = "idle"]
    /\ mine' = [mine EXCEPT ![h] = 0] /\ goal' = [goal EXCEPT ![h] = None]
    /\ cleanup' = IF cleanup = h THEN None ELSE cleanup

Schedule(i) == probe' = [probe EXCEPT ![i] = IF @ = "none" THEN "queued" ELSE @]

--------------------------------------------------------------------------------
\* Making a row and asking for a discovery: POST of the route.

NewRow ==
    /\ id < MaxRows
    /\ id' = id + 1
    /\ row' = Row(source.rev)

\* download_replacement_source and create_or_reuse.
Create(h, mode) ==
    LET r == Swept(row) IN
    /\ pc[h] = "idle" /\ source.at = "failed"
    /\ \/ r.status \in ActiveStatuses /\ r.rev = source.rev /\ row' = r /\ UNCHANGED id
       \/ r.status = "open" /\ r.rev # source.rev /\ r.bound = None /\ NewRow
       \/ r.status \notin ActiveStatuses /\ NewRow
    /\ Goto(h, "enqueuing")
    /\ mine' = [mine EXCEPT ![h] = id'] /\ goal' = [goal EXCEPT ![h] = mode]
    /\ UNCHANGED <<world, cleanup, probe, overran>>

Requeued(r, mode) ==
    [r EXCEPT !.mode = mode, !.discovery = "queued", !.lapsed = FALSE, !.smart = "idle",
              !.magnet = IF mode = "smart" THEN "unknown" ELSE @,
              !.web = IF mode = "web" THEN "unknown" ELSE @]

\* queue_discovery and _schedule; the recovery of a cleanup is Recover.
Enqueue(h) ==
    LET r == Swept(row)
        asked == /\ r.mode = goal[h]
                 /\ r.discovery = "queued" \/ (r.discovery = "running" /\ ~r.lapsed)
        free == r.discovery # "running" \/ r.lapsed IN
    /\ pc[h] = "enqueuing"
    /\ IF mine[h] = id /\ r.status = "open" /\ r.smart # "running" /\ (asked \/ free)
       THEN /\ row' = IF asked THEN r ELSE Requeued(r, goal[h])
            /\ Schedule(id)
       ELSE UNCHANGED <<row, probe>>
    /\ Done(h)
    /\ UNCHANGED <<id, world, overran>>

\* Mutant: the page shows a queued discovery and does not resume it.
PollOnly ==
    /\ id # 0
    /\ row' = Swept(row)
    /\ UNCHANGED <<id, world, request, cleanup, probe, overran>>

\* GET of the route, which the page repeats while a discovery is queued or running:
\* get, and resume of a queued one.
Poll ==
    /\ id # 0
    /\ row' = Swept(row)
    /\ IF row'.status = "open" /\ row'.discovery = "queued" THEN Schedule(id)
       ELSE UNCHANGED probe
    /\ UNCHANGED <<id, world, request, cleanup, overran>>

--------------------------------------------------------------------------------
\* The recovery manager's worker threads: _run_one.

ClaimDiscovery(i) ==
    /\ probe[i] = "queued"
    /\ IF i = id /\ row.status = "open"
          /\ (row.discovery = "queued" \/ (row.discovery = "running" /\ row.lapsed))
       THEN /\ row' = [row EXCEPT !.discovery = "running", !.lapsed = FALSE]
            /\ probe' = [probe EXCEPT ![i] = "probing"]
       ELSE /\ probe' = [probe EXCEPT ![i] = "done"]
            /\ UNCHANGED row
    /\ UNCHANGED <<id, world, request, cleanup, overran>>

\* The probe's result is stored if the row still waits for it.  A queue_discovery in
\* between took the lease, and the result of a running row is always of its mode.
FinishDiscovery(i) ==
    /\ probe[i] = "probing"
    /\ IF i = id /\ row.status = "open" /\ row.discovery = "running"
       THEN \E found \in Channel :
                row' = IF row.mode = "web"
                       THEN [row EXCEPT !.discovery = "finished", !.lapsed = FALSE,
                                        !.web = found]
                       ELSE [row EXCEPT !.discovery = "finished", !.lapsed = FALSE,
                                        !.magnet = found]
       ELSE UNCHANGED row
    /\ probe' = [probe EXCEPT ![i] = "done"]
    /\ UNCHANGED <<id, world, request, cleanup, overran>>

\* The store fails, which _worker_loop logs.
LoseDiscovery(i) ==
    /\ probe[i] = "probing"
    /\ probe' = [probe EXCEPT ![i] = "done"]
    /\ UNCHANGED <<id, row, world, request, cleanup, overran>>

\* The finally of _worker_loop: until then _schedule takes the row for scheduled.
Unschedule(i) ==
    /\ probe[i] = "done"
    /\ probe' = [probe EXCEPT ![i] = "none"]
    /\ UNCHANGED <<id, row, world, request, cleanup, overran>>

--------------------------------------------------------------------------------
\* The smart selection of a magnet.

\* One selection at a time; begin_smart_selection.
Select(h) ==
    LET r == Swept(row) IN
    /\ pc[h] = "idle" /\ \A k \in Handlers : pc[k] # "selecting"
    /\ r.status = "open" /\ Available(r, "magnet")
    /\ source.at = "failed" /\ source.rev = r.rev
    /\ row' = [r EXCEPT !.smart = "running"]
    /\ Goto(h, "selecting") /\ mine' = [mine EXCEPT ![h] = id]
    /\ UNCHANGED <<id, world, goal, cleanup, probe, overran>>

\* finish_smart_selection: nothing found and cleaned up, a winner to be submitted, or
\* cancelled, failed or not cleaned up.
FinishSelection(h) ==
    /\ pc[h] = "selecting"
    /\ IF mine[h] = id /\ row.status = "open" /\ row.mode = "smart"
       THEN \/ /\ row' = [row EXCEPT !.smart = "exhausted"]
               /\ Done(h)
            \/ /\ row' = [row EXCEPT !.smart = "idle"]
               /\ Done(h)
            \/ /\ row' = [row EXCEPT !.smart = "idle"]
               /\ Goto(h, "selected")
               /\ UNCHANGED <<mine, goal, cleanup>>
       ELSE Done(h) /\ UNCHANGED row
    /\ UNCHANGED <<id, world, probe, overran>>

--------------------------------------------------------------------------------
\* Submitting a target: submit_qb_replacement and submit_web_replacement.

\* The row is read and must have confirmed the source.
Submit(h, t) ==
    LET r == Swept(row) IN
    /\ id # 0
    /\ pc[h] = "idle" \/ (pc[h] = "selected" /\ mine[h] = id /\ t = "magnet")
    /\ Available(r, t)
    /\ row' = r
    /\ Goto(h, "reading")
    /\ mine' = [mine EXCEPT ![h] = id] /\ goal' = [goal EXCEPT ![h] = t]
    /\ UNCHANGED <<id, world, cleanup, probe, overran>>

\* Mutant: the target is not written to the row.
ClaimedUnbound(r, h, t) ==
    IF r.status = "created" THEN [r EXCEPT !.lease = h, !.late = FALSE]
    ELSE [r EXCEPT !.status = "submitting", !.lease = h, !.late = FALSE]

\* begin_submission: what it does to a row it does not refuse.
Claimed(r, h, t) ==
    IF r.status = "created" THEN [r EXCEPT !.lease = h, !.late = FALSE]
    ELSE [r EXCEPT !.status = "submitting", !.bound = t, !.lease = h, !.late = FALSE]

Claimable(r, t) ==
    /\ r.status \in {"open", "created"}
    /\ r.status = "open" => r.smart # "running"
    /\ r.bound \in {None, t}
    /\ r.status = "created" => r.lease = None \/ r.late

Claim(h) ==
    LET r == Swept(row) IN
    /\ pc[h] = "reading"
    /\ IF mine[h] = id /\ Claimable(r, goal[h])
       THEN /\ row' = Claimed(r, h, goal[h])
            /\ Goto(h, IF r.status = "created" THEN "confirming" ELSE "checking")
            /\ UNCHANGED <<mine, goal, cleanup>>
       ELSE Done(h) /\ UNCHANGED row
    /\ UNCHANGED <<id, world, probe, overran>>

\* recover_download_replacement_cleanup, at each GET and POST.
Recover(h) ==
    LET r == Swept(row) IN
    /\ pc[h] = "idle" /\ r.status = "created"
    /\ Claimable(r, r.bound)
    /\ row' = Claimed(r, h, r.bound)
    /\ Goto(h, "confirming")
    /\ mine' = [mine EXCEPT ![h] = id] /\ goal' = [goal EXCEPT ![h] = r.bound]
    /\ UNCHANGED <<id, world, cleanup, probe, overran>>

\* release_submission, whose refusal is swallowed.
Release(h) ==
    /\ row' = IF Holds(h, "submitting")
              THEN [Freed(row) EXCEPT !.status = "open", !.bound = None] ELSE row
    /\ Done(h)

\* The failure must be as it was when the row was made; only the present row's revision
\* can still be the source's.
CheckSource(h) ==
    /\ pc[h] = "checking"
    /\ IF source.at = "failed" /\ mine[h] = id /\ source.rev = row.rev
       THEN Goto(h, "sending") /\ UNCHANGED <<row, mine, goal, cleanup>>
       ELSE Release(h)
    /\ UNCHANGED <<id, world, probe, overran>>

\* The target is created for the request's row, or qBittorrent will yet add it.
Made(h) ==
    /\ there' = [there EXCEPT ![mine[h]] = @ \cup {goal[h]}]
    /\ overran' = (overran \/ ~Holds(h, "submitting") \/ row.late)
    /\ UNCHANGED row

\* Mutant: an error of the submission counts as a success.
SendUnconfirmed(h) ==
    /\ pc[h] = "sending"
    /\ \/ /\ Made(h)
          /\ known' = [known EXCEPT ![mine[h]] = @ \cup {goal[h]}]
       \/ UNCHANGED <<row, known, there, overran>>
    /\ Goto(h, "marking")
    /\ UNCHANGED <<id, source, mine, goal, cleanup, probe>>

\* The new download is asked for.  It is accepted, and for a torrent perhaps not confirmed;
\* or there is an error, and a look tells whether it is there, or fails as well.  What was
\* not there when it was looked for, and the row released, qBittorrent may add later.
Send(h) ==
    LET i == mine[h]  t == goal[h] IN
    /\ pc[h] = "sending"
    /\ \/ /\ Made(h)
          /\ \/ /\ known' = [known EXCEPT ![i] = @ \cup {t}]
                /\ Goto(h, "marking") /\ UNCHANGED <<mine, goal, cleanup>>
             \/ Done(h) /\ UNCHANGED known
       \/ /\ Seen(i, t) /\ Goto(h, "marking")
          /\ UNCHANGED <<row, mine, goal, cleanup, overran>>
       \/ /\ Release(h)
          /\ \/ Missed(i, t) /\ UNCHANGED overran
             \/ /\ t = "magnet" /\ there' = [there EXCEPT ![i] = @ \cup {t}]
                /\ overran' = TRUE /\ UNCHANGED known
       \/ /\ Done(h)
          /\ UNCHANGED <<row, known, there, overran>>
    /\ UNCHANGED <<id, source, probe>>

\* mark_target_created
Mark(h) ==
    /\ pc[h] = "marking"
    /\ IF Holds(h, "submitting")
       THEN /\ row' = [row EXCEPT !.status = "created"]
            /\ Goto(h, "removing") /\ UNCHANGED <<mine, goal, cleanup>>
       ELSE Done(h) /\ UNCHANGED row
    /\ UNCHANGED <<id, world, probe, overran>>

\* A cleanup that was left undone looks for the target first.
Confirm(h) ==
    /\ pc[h] = "confirming"
    /\ \/ Seen(mine[h], goal[h]) /\ Goto(h, "removing")
       \/ Missed(mine[h], goal[h]) /\ Goto(h, "kept")
    /\ UNCHANGED <<id, row, source, mine, goal, cleanup, probe, overran>>

\* _remove_download_replacement_source: gone already, removed, or changed or refused.
RemoveSource(h) ==
    /\ pc[h] = "removing"
    /\ \/ /\ source.at = "gone"
          /\ Goto(h, "removed") /\ UNCHANGED source
       \/ /\ source.at = "failed" /\ mine[h] = id /\ source.rev = row.rev
          /\ source' = [source EXCEPT !.at = "gone"]
          /\ Goto(h, "removed")
       \/ Goto(h, "kept") /\ UNCHANGED source
    /\ UNCHANGED <<id, row, known, there, mine, goal, cleanup, probe, overran>>

\* finish_cleanup
Finish(h) ==
    /\ pc[h] \in {"removed", "kept"}
    /\ row' = IF Holds(h, "created")
              THEN [Freed(row) EXCEPT !.status = IF pc[h] = "removed" THEN "completed" ELSE @]
              ELSE row
    /\ Done(h)
    /\ UNCHANGED <<id, world, probe, overran>>

--------------------------------------------------------------------------------
\* Disposing of failures without another source.

\* Mutant: the preview does not ask for the lock.
PreviewAtOnce ==
    /\ row' = Swept(Reopened(row))
    /\ UNCHANGED <<id, world, request, cleanup, probe, overran>>

\* The preview reopens what an interrupted disposition left, under the lock.
Preview ==
    /\ cleanup = None
    /\ row' = Swept(Reopened(row))
    /\ UNCHANGED <<id, world, request, cleanup, probe, overran>>

\* A disposition takes the lock and its candidates: from the preview's snapshot, or anew.
Dispose(h) ==
    /\ pc[h] = "idle" /\ cleanup = None /\ id # 0
    /\ cleanup' = h
    /\ row' \in {row, Swept(Reopened(row))}
    /\ Goto(h, "beginning") /\ mine' = [mine EXCEPT ![h] = id]
    /\ UNCHANGED <<id, world, goal, probe, overran>>

\* begin_disposition
BeginDisposition(h) ==
    LET r == Swept(row) IN
    /\ pc[h] = "beginning"
    /\ IF mine[h] = id /\ Disposable(r)
       THEN /\ row' = [r EXCEPT !.status = "discarding", !.lease = h, !.late = FALSE,
                                !.aged = FALSE]
            /\ Goto(h, "disposing") /\ UNCHANGED <<mine, goal, cleanup>>
       ELSE Done(h) /\ UNCHANGED row
    /\ UNCHANGED <<id, world, probe, overran>>

\* The failed download is removed, unless it is gone or has failed again since; one
\* that is at work again or cannot be removed refuses the disposition.
Discard(h) ==
    /\ pc[h] = "disposing"
    /\ \/ /\ \/ source.at = "gone"
             \/ source.at = "failed" /\ source.rev # row.rev
          /\ Goto(h, "disposed") /\ UNCHANGED source
       \/ /\ source.at = "failed" /\ source.rev = row.rev
          /\ source' = [source EXCEPT !.at = "gone"]
          /\ Goto(h, "disposed")
       \/ Goto(h, "refused") /\ UNCHANGED source
    /\ UNCHANGED <<id, row, known, there, mine, goal, cleanup, probe, overran>>

\* finish_disposition
FinishDisposition(h) ==
    /\ pc[h] \in {"disposed", "refused"}
    /\ row' = IF ~Holds(h, "discarding") THEN row
              ELSE IF pc[h] = "disposed" THEN [Freed(row) EXCEPT !.status = "discarded"]
              ELSE [Freed(row) EXCEPT !.status = "open", !.aged = FALSE]
    /\ Done(h)
    /\ UNCHANGED <<id, world, probe, overran>>

--------------------------------------------------------------------------------
\* Failures and the world.

\* An error nobody handles ends a request between two steps; what it wrote stays.
Fails(h) ==
    /\ pc[h] # "idle"
    /\ Done(h)
    /\ UNCHANGED <<id, row, world, probe, overran>>

\* The process ends and starts: __init__, serve's recoveries and recover_discoveries.
Crash ==
    LET r == Swept(Reopened(row))
        s == IF r.smart = "running" THEN [r EXCEPT !.smart = "idle"] ELSE r
        d == IF s.status = "open" /\ s.discovery = "running"
             THEN [s EXCEPT !.discovery = "queued", !.lapsed = FALSE] ELSE s IN
    /\ row' = d
    /\ pc' = [h \in Handlers |-> "idle"]
    /\ mine' = [h \in Handlers |-> 0] /\ goal' = [h \in Handlers |-> None]
    /\ cleanup' = None
    /\ probe' = [i \in Ids |-> IF i = id /\ d.status = "open" /\ d.discovery = "queued"
                               THEN "queued" ELSE "none"]
    /\ UNCHANGED <<id, world, overran>>

\* Nothing looks at the end of a disposition's lease.
LeaseRunsOut ==
    /\ row.status \in {"submitting", "created"} /\ row.lease # None /\ ~row.late
    /\ row' = [row EXCEPT !.late = TRUE]
    /\ UNCHANGED <<id, world, request, cleanup, probe, overran>>

DiscoveryLapses ==
    /\ row.discovery = "running" /\ ~row.lapsed
    /\ row' = [row EXCEPT !.lapsed = TRUE]
    /\ UNCHANGED <<id, world, request, cleanup, probe, overran>>

\* Seven days outlast every request, and a disposition gives the row new ones.
RowAges ==
    /\ row.status \in {"open", "submitting", "created"} /\ ~row.aged
    /\ \A h \in Handlers : pc[h] = "idle"
    /\ row' = [row EXCEPT !.aged = TRUE]
    /\ UNCHANGED <<id, world, request, cleanup, probe, overran>>

\* The failed download is put to work again, and fails again.
SourceMoves ==
    /\ \/ source.at = "failed" /\ source' = [source EXCEPT !.at = "busy"]
       \/ /\ source.at = "busy" /\ source.rev < MaxRevision
          /\ source' = [at |-> "failed", rev |-> source.rev + 1]
    /\ UNCHANGED <<id, row, known, there, request, cleanup, probe, overran>>

Request(h) ==
    \/ \E mode \in Modes : Create(h, mode)
    \/ Enqueue(h) \/ Select(h) \/ FinishSelection(h)
    \/ \E t \in Targets : Submit(h, t)
    \/ Claim(h) \/ Recover(h) \/ CheckSource(h) \/ Send(h) \/ Mark(h) \/ Confirm(h)
    \/ RemoveSource(h) \/ Finish(h) \/ Dispose(h) \/ BeginDisposition(h) \/ Discard(h)
    \/ FinishDisposition(h) \/ Fails(h)

Worker(i) == ClaimDiscovery(i) \/ FinishDiscovery(i) \/ LoseDiscovery(i) \/ Unschedule(i)

Next ==
    \/ \E h \in Handlers : Request(h)
    \/ \E i \in Ids : Worker(i)
    \/ Poll \/ Preview \/ Crash
    \/ LeaseRunsOut \/ DiscoveryLapses \/ RowAges \/ SourceMoves

Spec == Init /\ [][Next]_vars

\* The page polls, and the worker threads work through their queue.
Fairness == WF_vars(Poll) /\ \A i \in Ids : WF_vars(Worker(i))

FairSpec == Spec /\ Fairness

--------------------------------------------------------------------------------
\* Properties.

\* A row has one new download (the target binding of begin_submission, release_submission
\* and _expire_locked): whatever is refused, expires or is tried again, no failure is
\* replaced by a torrent and a web job, as long as each submission is made within its lease
\* and none releases the row from a torrent that it looked for in vain and that comes later.
OneTarget == \A i \in Ids : there[i] = Targets => overran

\* The failed download is removed only after the very target its row is bound to was created
\* for it, or was looked for and found (submit_*_replacement and
\* recover_download_replacement_cleanup), or while the row is being disposed of.
SourceGoesLast ==
    [][source.at = "failed" /\ source'.at = "gone"
       => row.bound \in known[id] \/ row.status = "discarding"]_vars

\* dispose_download_replacement_candidates: a request that removes the failed download has
\* the row until it is through, although each preview reopens every row it finds being
\* disposed of.
DisposalIsHeld ==
    \A h \in Handlers : pc[h] \in {"disposing", "disposed", "refused"} => Holds(h, "discarding")

\* A queued discovery is taken up, even if it was queued while the worker was done with
\* the row but had not yet taken it from the scheduled ones (_schedule, _worker_loop).
QueuedIsProbed ==
    LET waits == row.status = "open" /\ row.discovery = "queued" IN waits ~> ~waits
================================================================================
