---------------------------- MODULE WebDownloadQueue ----------------------------
(***************************************************************************)
(* The order of the Web download queue (web_download/job_store.py): the    *)
(* priority and queue_position of each pending job, the operations that    *)
(* append to the queue, change it or take its head, the renumbering at     *)
(* recovery, and queue_revision, which triggers (job_schema.py) advance so *)
(* that a client that reorders the queue can be refused when it looked at  *)
(* an older one.  What happens to a job outside the queue is the subject   *)
(* of WebDownloadJobs: here it waits, holds a slot or has ended.           *)
(***************************************************************************)
EXTENDS Naturals, FiniteSets

CONSTANTS
    Jobs,
    Priorities,
    MaxRevision,   \* bound: the queue stops changing at this revision
    NoView

ASSUME QueueAssumption ==
    IsFiniteSet(Jobs) /\ Priorities \subseteq Nat /\ 0 \in Priorities /\ MaxRevision \in Nat

Waiting == {"queued", "retry_wait"}
Places == Waiting \cup {"none", "paused", "paused_global", "slot", "ended"}

VARIABLES
    place,     \* status, as far as the queue tells one from another
    priority,
    position,  \* queue_position
    created,   \* created_at, as the rank of the insertion (0: not yet inserted)
    revision,  \* queue_revision
    view       \* what the client's page shows: the table, its revision when it
               \* was read (not sent to the client) and the revision it was sent

rows == <<place, priority, position, created>>
vars == <<rows, revision, view>>

Pending == {j \in Jobs : place[j] \in Waiting}
Slots == {j \in Jobs : place[j] = "slot"}

\* What a client is shown of the queue.
Table == [j \in Pending |-> <<place[j], priority[j], position[j]>>]

TypeOK ==
    /\ place \in [Jobs -> Places]
    /\ priority \in [Jobs -> Priorities]
    /\ position \in [Jobs -> Nat]
    /\ created \in [Jobs -> 0..Cardinality(Jobs)]
    /\ revision \in 0..MaxRevision
    /\ view # NoView => /\ view.at \in 0..revision
                        /\ view.revision \in view.at..revision \cup {NoView}

Init ==
    /\ place = [j \in Jobs |-> "none"]
    /\ priority = [j \in Jobs |-> 0]
    /\ position = [j \in Jobs |-> 0]
    /\ created = [j \in Jobs |-> 0]
    /\ revision = 0
    /\ view = NoView

--------------------------------------------------------------------------------
\* The order of the queue.

\* ORDER BY priority DESC, queue_position, created_at, job_id.
Ahead(pos, j, k) ==
    \/ priority[j] > priority[k]
    \/ priority[j] = priority[k] /\ pos[j] < pos[k]
    \/ priority[j] = priority[k] /\ pos[j] = pos[k] /\ created[j] < created[k]

\* The ROW_NUMBER of j among js in that order.
Rank(pos, js, j) == 1 + Cardinality({k \in js : Ahead(pos, k, j)})

\* Mutant: the length of the queue is taken for its last position.
LastByCount(pos, js) == Cardinality(js)

\* COALESCE(MAX(queue_position), 0) over the pending jobs.
LastOf(pos, js) ==
    CHOOSE n \in {pos[j] : j \in js} \cup {0} : \A j \in js : pos[j] <= n
Last == LastOf(position, Pending)

\* Mutant: a change of priority does not advance the revision.
TriggerFiresNoPriority ==
    \E j \in Jobs :
        /\ place[j] \in Waiting \/ place'[j] \in Waiting
        /\ place'[j] # place[j] \/ position'[j] # position[j]

\* The triggers on web_download_jobs: an insertion, deletion or change of status,
\* priority or position of a job that is pending before or after it.
TriggerFires ==
    \E j \in Jobs :
        /\ place[j] \in Waiting \/ place'[j] \in Waiting
        /\ \/ place'[j] # place[j]
           \/ priority'[j] # priority[j]
           \/ position'[j] # position[j]

\* Every operation commits in one transaction; the number of times the triggers
\* fire in it cannot be told apart from once.
Commit ==
    /\ revision' = IF TriggerFires THEN revision + 1 ELSE revision
    /\ revision < MaxRevision
    /\ UNCHANGED view

\* j moves out of the queue, or between places outside it, and keeps its position.
MoveTo(j, p) == place' = [place EXCEPT ![j] = p] /\ UNCHANGED <<priority, position, created>>

\* j joins the queue at its end.
Append(j, p) ==
    /\ place' = [place EXCEPT ![j] = p]
    /\ position' = [position EXCEPT ![j] = Last + 1]
    /\ UNCHANGED <<priority, created>>

--------------------------------------------------------------------------------
\* Operations of the store.

\* Mutant: the revision of the queue is taken for the rank of the insertion.
CreateByRevision(j) ==
    /\ place[j] = "none"
    /\ place' = [place EXCEPT ![j] = "queued"]
    /\ position' = [position EXCEPT ![j] = Last + 1]
    /\ created' = [created EXCEPT ![j] = revision + 1]
    /\ UNCHANGED priority
    /\ Commit

Create(j) ==
    /\ place[j] = "none"
    /\ place' = [place EXCEPT ![j] = "queued"]
    /\ position' = [position EXCEPT ![j] = Last + 1]
    /\ created' = [created EXCEPT ![j] = 1 + Cardinality({k \in Jobs : created[k] > 0})]
    /\ UNCHANGED priority
    /\ Commit

\* claim_next_runnable: the first job that is queued, or in retry_wait and due.
\* A waiting job ahead of it may not be due yet, a queued one always is.
Claim(j) ==
    /\ j \in Pending
    /\ \A k \in Pending : place[k] = "queued" => ~Ahead(position, k, j)
    /\ MoveTo(j, "slot") /\ Commit

\* defer_transient_failure, requeue_interrupted, and finish_pausing when the global
\* pause has been lifted meanwhile.
Requeue(j, p) == j \in Slots /\ p \in Waiting /\ Append(j, p) /\ Commit

\* finish_pausing, or the end of the job.
LeaveSlot(j, p) ==
    /\ j \in Slots /\ p \in {"paused", "paused_global", "ended"}
    /\ MoveTo(j, p) /\ Commit

PausePending(j) == j \in Pending /\ MoveTo(j, "paused") /\ Commit
CancelPending(j) == j \in Pending /\ MoveTo(j, "ended") /\ Commit

\* resume of a paused job (with or without a retry time), retry of an ended one.
Rejoin(j, p) ==
    /\ \/ place[j] \in {"paused", "paused_global"} /\ p \in Waiting
       \/ place[j] = "ended" /\ p = "queued"
    /\ Append(j, p) /\ Commit

\* set_global_paused(FALSE): the globally paused jobs join in their order.
GlobalResume ==
    LET js == {j \in Jobs : place[j] = "paused_global"} IN
    /\ js # {}
    /\ place' = [j \in Jobs |-> IF j \in js THEN "queued" ELSE place[j]]
    /\ position' = [j \in Jobs |-> IF j \in js THEN Last + Rank(position, js, j)
                                               ELSE position[j]]
    /\ UNCHANGED <<priority, created>>
    /\ Commit

SetPriority(j, p) ==
    /\ place[j] \in Waiting \cup {"paused", "paused_global"}
    /\ p # priority[j]
    /\ priority' = [priority EXCEPT ![j] = p]
    /\ UNCHANGED <<place, position, created>>
    /\ Commit

\* Mutant: the interrupted jobs are queued again in the order of their creation.
RecoverByCreation ==
    /\ place' = [j \in Jobs |-> IF j \in Slots THEN "queued" ELSE place[j]]
    /\ position' = [j \in Jobs |-> IF j \in Pending \cup Slots THEN created[j] ELSE position[j]]
    /\ UNCHANGED <<priority, created>>
    /\ Commit

\* recover_interrupted: a worker's job is queued again where it was, a cancelling one
\* ends, a pausing one is paused or, its global pause lifted, joins at the end; then
\* normalize_pending_queue_positions numbers the queue from 1.
Recover ==
    \E fate \in [Slots -> {"resumed", "joined", "paused", "paused_global", "ended"}] :
        LET resumed == {j \in Slots : fate[j] = "resumed"}
            joined == {j \in Slots : fate[j] = "joined"}
            back == resumed \cup joined
            last == LastOf(position, Pending \cup resumed)
            raw == [j \in Jobs |->
                      IF j \in joined
                      THEN last + Cardinality({k \in joined : created[k] <= created[j]})
                      ELSE position[j]] IN
        /\ place' = [j \in Jobs |-> IF j \in back THEN "queued"
                                    ELSE IF j \in Slots THEN fate[j] ELSE place[j]]
        /\ position' = [j \in Jobs |-> IF j \in Pending \cup back
                                       THEN Rank(raw, Pending \cup back, j) ELSE position[j]]
        /\ UNCHANGED <<priority, created>>
        /\ Commit

\* reorder: the given jobs, all of them queued, take in the given order the places
\* that they have between them; then the queue is numbered from 1.
Orders(js) == {ids \in [1..Cardinality(js) -> js] : \A j \in js : \E i \in DOMAIN ids : ids[i] = j}

\* Mutant: the places are handed out from the last one.
NewRankBackwards(ids, j) ==
    LET selected == {ids[i] : i \in DOMAIN ids}
        index == CHOOSE i \in DOMAIN ids : ids[i] = j
        rank(k) == Rank(position, Pending, k) IN
    IF j \notin selected THEN rank(j)
    ELSE rank(CHOOSE k \in selected :
                Cardinality({l \in selected : rank(l) >= rank(k)}) = index)

NewRank(ids, j) ==
    LET selected == {ids[i] : i \in DOMAIN ids}
        index == CHOOSE i \in DOMAIN ids : ids[i] = j
        rank(k) == Rank(position, Pending, k) IN
    IF j \notin selected THEN rank(j)
    ELSE rank(CHOOSE k \in selected :
                Cardinality({l \in selected : rank(l) <= rank(k)}) = index)

Reorder(ids, expected) ==
    /\ expected = revision
    /\ \A i \in DOMAIN ids : place[ids[i]] = "queued"
    /\ position' = [j \in Jobs |-> IF j \in Pending THEN NewRank(ids, j) ELSE position[j]]
    /\ UNCHANGED <<place, priority, created>>
    /\ Commit

--------------------------------------------------------------------------------
\* The page of the client (routes/web_downloads.py): the list, then the control row.

ReadList ==
    /\ view' = [table |-> Table, at |-> revision, revision |-> NoView]
    /\ UNCHANGED <<rows, revision>>

ReadControl ==
    /\ view # NoView /\ view.revision = NoView
    /\ view' = [view EXCEPT !.revision = revision]
    /\ UNCHANGED <<rows, revision>>

\* The page sends all the jobs it shows as queued, some of them moved.
ClientReorders(ids) ==
    /\ view # NoView /\ view.revision # NoView
    /\ ids \in Orders({j \in DOMAIN view.table : view.table[j][1] = "queued"})
    /\ DOMAIN ids # {}
    /\ Reorder(ids, view.revision)

Next ==
    \/ \E j \in Jobs :
          \/ Create(j) \/ Claim(j) \/ PausePending(j) \/ CancelPending(j)
          \/ \E p \in Places : Requeue(j, p) \/ LeaveSlot(j, p) \/ Rejoin(j, p)
          \/ \E p \in Priorities : SetPriority(j, p)
    \/ GlobalResume
    \/ Recover
    \/ ReadList
    \/ ReadControl
    \/ \E js \in SUBSET Jobs : \E ids \in Orders(js) : ClientReorders(ids)

Spec == Init /\ [][Next]_vars

--------------------------------------------------------------------------------
\* Properties.

\* No two pending jobs share a position, whatever joins, leaves, is interrupted or
\* reordered: an operator's order is never left to the tie-breakers.
PositionsDiffer ==
    \A j, k \in Pending : position[j] = position[k] => j = k

\* A revision names one queue: if it is still the one of an earlier moment, so are
\* the jobs, their places and priorities.  This is what lets a client reorder.
RevisionNamesTheQueue == view # NoView /\ view.at = revision => view.table = Table

\* Between two jobs of one priority that stay in the queue, the order changes only by a
\* reorder: not by a claim, a recovery or a renumbering.  A job that joins the queue
\* comes behind every job that is there.
StaysPending(j) == j \in Pending /\ place'[j] \in Waiting
Joins(j) == j \notin Pending /\ place[j] # "slot" /\ place'[j] \in Waiting
OvertakingIsAsked ==
    [][\A j, k \in Jobs :
          /\ StaysPending(j) /\ StaysPending(k)
             /\ priority[j] = priority[k] /\ priority' = priority
             /\ position[j] < position[k] /\ position'[j] > position'[k]
             => \E js \in SUBSET Jobs : \E ids \in Orders(js) : ClientReorders(ids)
          /\ Joins(j) /\ StaysPending(k) => position'[j] > position'[k]]_vars

\* A reorder does to the jobs of one priority what the client asked, and leaves the
\* order of the jobs it did not name.
ReorderIsHonoured ==
    [][\A js \in SUBSET Jobs : \A ids \in Orders(js) : ClientReorders(ids) =>
          /\ \A i, n \in DOMAIN ids : i < n => position'[ids[i]] < position'[ids[n]]
          /\ \A j, k \in Pending \ js :
                Ahead(position, j, k) => position'[j] < position'[k]]_vars

\* "Queue order uses its own revision; on a conflict the client reads again and the
\* user checks it" (docs/guide/api.md): what the user reordered is what was there.
AcceptedReorderSawTheQueue ==
    [][\A js \in SUBSET Jobs : \A ids \in Orders(js) :
          ClientReorders(ids) => view.table = Table]_vars
================================================================================
