----------------------- MODULE DownloadReplacementsProofs -----------------------
(***************************************************************************)
(* Theorems about DownloadReplacements, for every number of requests, rows *)
(* and changes of the failed download.                                     *)
(***************************************************************************)
EXTENDS DownloadReplacements, TLAPS

\* The types, in parts.

RowType == [status : Statuses, rev : 0..MaxRevision, bound : Targets \cup {None},
            lease : Handlers \cup {None}, late : BOOLEAN, aged : BOOLEAN,
            mode : Modes \cup {None},
            discovery : {"idle", "queued", "running", "finished"},
            lapsed : BOOLEAN, magnet : Channel, web : Channel,
            smart : {"idle", "running", "exhausted"}]

RowOK ==
    /\ row \in RowType
    /\ row.status \in {"submitting", "created"} => row.bound # None
    /\ row.status \in {"submitting", "discarding"} => row.lease # None

RequestsOK ==
    /\ pc \in [Handlers -> Steps]
    /\ mine \in [Handlers -> 0..MaxRows]
    /\ goal \in [Handlers -> Targets \cup Modes \cup {None}]
    /\ cleanup \in Handlers \cup {None}

WorldOK ==
    /\ id \in 0..MaxRows
    /\ source \in [at : {"failed", "busy", "gone"}, rev : 0..MaxRevision]
    /\ known \in [Ids -> SUBSET Targets] /\ there \in [Ids -> SUBSET Targets]
    /\ probe \in [Ids -> {"none", "queued", "probing", "done"}]
    /\ overran \in BOOLEAN

\* There is a row before anything can be done with it, and it is not newer than the failure.
Rows ==
    /\ id = 0 => row.status = "expired"
    /\ row.rev <= source.rev

\* Nothing was created for a row to come.
Created == \A i \in Ids : i > id => there[i] = {}

\* The failure is not, and never again will be, the one the row was made for.
Spent == source.at # "failed" \/ source.rev # row.rev

\* As long as every target was created by a request with a valid lease and no row released from
\* a torrent to come: no row has two, and the present one has at most the target it is bound to,
\* or one it was bound to before the failure changed, after which no submission passes its check.
Bound ==
    ~overran => /\ \A i \in Ids : there[i] # Targets
                /\ id # 0 => there[id] \subseteq {row.bound} \/ Spent

Submitting == {"reading", "checking", "sending", "marking", "confirming", "removing"}
Disposing == {"disposing", "disposed", "refused"}

\* A request works for a row there is, and for what its step needs.
Works(h) ==
    /\ pc[h] \in Submitting => goal[h] \in Targets /\ mine[h] # 0
    /\ pc[h] = "enqueuing" => goal[h] \in Modes
    /\ mine[h] <= id

\* One that disposes of the failure has the lock, and its row once it has begun.
Disposes(h) ==
    /\ pc[h] \in Disposing \cup {"beginning"} => cleanup = h
    /\ pc[h] \in Disposing => Holds(h, "discarding")

\* A row whose target was created stays bound to it, whatever becomes of the row.
Settled == {"created", "completed", "expired"}

\* One that is about to confirm or to remove knows its target, and the row it removes the
\* failure for is bound to that target.
Confirms(h) ==
    /\ pc[h] \in {"marking", "removing"} => goal[h] \in known[mine[h]]
    /\ pc[h] \in {"confirming", "removing"} /\ mine[h] = id =>
           row.status \in Settled /\ row.bound = goal[h]

\* One that holds the row submits the target the row is bound to, and past its check there
\* is none but that.
Submits(h) ==
    Holds(h, "submitting") =>
        /\ pc[h] \in {"checking", "sending", "marking"} => row.bound = goal[h]
        /\ ~overran /\ pc[h] = "sending" => there[id] \subseteq {row.bound}

Fit(h) == Works(h) /\ Disposes(h) /\ Confirms(h) /\ Submits(h)

IInv ==
    /\ RowOK /\ RequestsOK /\ WorldOK
    /\ Rows /\ Created /\ Bound
    /\ \A h \in Handlers : Fit(h)

LEMMA InvariantSaysMore ==
    ASSUME IInv
    PROVE  TypeOK /\ OneTarget /\ DisposalIsHeld
<1>1. TypeOK
  BY DEF IInv, RowOK, RequestsOK, WorldOK, TypeOK, RowType
<1>2. OneTarget
  BY DEF IInv, Bound, OneTarget
<1>3. DisposalIsHeld
  BY DEF IInv, Fit, Disposes, Disposing, DisposalIsHeld
<1> QED
  BY <1>1, <1>2, <1>3

--------------------------------------------------------------------------------
\* What becomes of a row.

\* A row that differs at most in what the invariants do not look at.
Alike(r, q) ==
    /\ q \in RowType
    /\ q.status = r.status /\ q.rev = r.rev /\ q.bound = r.bound /\ q.lease = r.lease

USE DEF Targets, ActiveStatuses, Statuses

LEMMA PresentIsARow == WorldOK => (id # 0 => id \in Ids)
  BY ReplacementAssumption DEF WorldOK, Ids

LEMMA FreedRow ==
    ASSUME NEW r \in RowType, NEW s \in Statuses
    PROVE  LET q == [Freed(r) EXCEPT !.status = s] IN
           /\ q \in RowType
           /\ q.status = s /\ q.rev = r.rev /\ q.bound = r.bound /\ q.lease = None
<1> DEFINE q == [Freed(r) EXCEPT !.status = s]
<1>1. q \in RowType
  BY Zenon DEF RowType, Freed
<1>2. q.status = s /\ q.rev = r.rev /\ q.bound = r.bound /\ q.lease = None
  BY SMT DEF RowType, Freed
<1> QED
  BY <1>1, <1>2

LEMMA ReopenedRow ==
    ASSUME NEW r \in RowType
    PROVE  LET q == [Freed(r) EXCEPT !.status = "open", !.aged = FALSE] IN
           /\ q \in RowType
           /\ q.status = "open" /\ q.rev = r.rev /\ q.bound = r.bound /\ q.lease = None
<1> DEFINE q == [Freed(r) EXCEPT !.status = "open", !.aged = FALSE]
<1>1. q \in RowType
  BY Zenon DEF RowType, Freed
<1>2. q.status = "open" /\ q.rev = r.rev /\ q.bound = r.bound /\ q.lease = None
  BY SMT DEF RowType, Freed
<1> QED
  BY <1>1, <1>2

LEMMA ReleasedRow ==
    ASSUME NEW r \in RowType
    PROVE  LET q == [Freed(r) EXCEPT !.status = "open", !.bound = None] IN
           /\ q \in RowType
           /\ q.status = "open" /\ q.rev = r.rev /\ q.bound = None /\ q.lease = None
<1> DEFINE q == [Freed(r) EXCEPT !.status = "open", !.bound = None]
<1>1. q \in RowType
  BY Zenon DEF RowType, Freed
<1>2. q.status = "open" /\ q.rev = r.rev /\ q.bound = None /\ q.lease = None
  BY SMT DEF RowType, Freed
<1> QED
  BY <1>1, <1>2

\* What a sweep does to a row: nothing, or it opens or expires it.
LEMMA SweptRow ==
    ASSUME NEW r \in RowType
    PROVE  \/ Swept(r) = r
           \/ /\ r.status \in {"open", "submitting", "created"}
              /\ Swept(r) \in RowType
              /\ Swept(r).status \in {"open", "expired"}
              /\ r.status = "created" => Swept(r).status = "expired"
              /\ Swept(r).rev = r.rev /\ Swept(r).bound = r.bound /\ Swept(r).lease = None
<1>1. CASE r.status = "submitting" /\ r.late /\ ~r.aged
  BY <1>1, FreedRow DEF Swept
<1>2. CASE ~(r.status = "submitting" /\ r.late /\ ~r.aged)
           /\ r.status \in {"open", "submitting", "created"} /\ r.aged
  BY <1>2, FreedRow DEF Swept
<1> QED
  BY <1>1, <1>2 DEF Swept

LEMMA ClaimedRow ==
    ASSUME NEW r \in RowType, NEW h \in Handlers, NEW t \in Targets
    PROVE  LET q == Claimed(r, h, t) IN
           /\ q \in RowType
           /\ q.rev = r.rev /\ q.lease = h
           /\ IF r.status = "created" THEN q.status = "created" /\ q.bound = r.bound
                                      ELSE q.status = "submitting" /\ q.bound = t
<1>1. CASE r.status = "created"
  <2> DEFINE q == [r EXCEPT !.lease = h, !.late = FALSE]
  <2>1. q \in RowType
    BY Zenon DEF RowType
  <2>2. q.rev = r.rev /\ q.lease = h /\ q.status = r.status /\ q.bound = r.bound
    BY SMT DEF RowType
  <2> QED
    BY <1>1, <2>1, <2>2 DEF Claimed
<1>2. CASE r.status # "created"
  <2> DEFINE q == [r EXCEPT !.status = "submitting", !.bound = t, !.lease = h, !.late = FALSE]
  <2>1. q \in RowType
    BY Zenon DEF RowType
  <2>2. q.rev = r.rev /\ q.lease = h /\ q.status = "submitting" /\ q.bound = t
    BY SMT DEF RowType
  <2> QED
    BY <1>2, <2>1, <2>2 DEF Claimed
<1> QED
  BY <1>1, <1>2

LEMMA CreatedRow ==
    ASSUME NEW r \in RowType
    PROVE  LET q == [r EXCEPT !.status = "created"] IN
           /\ q \in RowType
           /\ q.status = "created" /\ q.rev = r.rev /\ q.bound = r.bound /\ q.lease = r.lease
<1>1. [r EXCEPT !.status = "created"] \in RowType
  BY Zenon DEF RowType
<1> QED
  BY <1>1, SMT DEF RowType

LEMMA DiscardingRow ==
    ASSUME NEW r \in RowType, NEW h \in Handlers
    PROVE  LET q == [r EXCEPT !.status = "discarding", !.lease = h, !.late = FALSE,
                              !.aged = FALSE] IN
           /\ q \in RowType
           /\ q.status = "discarding" /\ q.rev = r.rev /\ q.bound = r.bound /\ q.lease = h
<1> DEFINE q == [r EXCEPT !.status = "discarding", !.lease = h, !.late = FALSE, !.aged = FALSE]
<1>1. q \in RowType
  BY Zenon DEF RowType
<1>2. q.status = "discarding" /\ q.rev = r.rev /\ q.bound = r.bound /\ q.lease = h
  BY SMT DEF RowType
<1> QED
  BY <1>1, <1>2

LEMMA NewIsTyped ==
    ASSUME NEW rev \in 0..MaxRevision
    PROVE  LET q == Row(rev) IN
           q \in RowType /\ q.status = "open" /\ q.rev = rev /\ q.bound = None /\ q.lease = None
<1>1. Row(rev) \in RowType
  BY Zenon DEF Row, RowType, Channel
<1> QED
  BY <1>1, SMT DEF Row

\* The times, the selection and the discovery of a row change by themselves.
LEMMA TimesAlike ==
    ASSUME NEW r \in RowType
    PROVE  /\ Alike(r, [r EXCEPT !.late = TRUE])
           /\ Alike(r, [r EXCEPT !.lapsed = TRUE])
           /\ Alike(r, [r EXCEPT !.aged = TRUE])
<1>1. /\ [r EXCEPT !.late = TRUE] \in RowType
      /\ [r EXCEPT !.lapsed = TRUE] \in RowType
      /\ [r EXCEPT !.aged = TRUE] \in RowType
  BY Zenon DEF RowType
<1> QED
  BY <1>1, SMT DEF Alike, RowType

LEMMA SmartAlike ==
    ASSUME NEW r \in RowType, NEW s \in {"idle", "running", "exhausted"}
    PROVE  Alike(r, [r EXCEPT !.smart = s])
<1>1. [r EXCEPT !.smart = s] \in RowType
  BY Zenon DEF RowType
<1> QED
  BY <1>1, SMT DEF Alike, RowType

LEMMA DiscoveryAlike ==
    ASSUME NEW r \in RowType, NEW d \in {"queued", "running"}
    PROVE  Alike(r, [r EXCEPT !.discovery = d, !.lapsed = FALSE])
<1>1. [r EXCEPT !.discovery = d, !.lapsed = FALSE] \in RowType
  BY Zenon DEF RowType
<1> QED
  BY <1>1, SMT DEF Alike, RowType

LEMMA FoundAlike ==
    ASSUME NEW r \in RowType, NEW c \in Channel
    PROVE  /\ Alike(r, [r EXCEPT !.discovery = "finished", !.lapsed = FALSE, !.web = c])
           /\ Alike(r, [r EXCEPT !.discovery = "finished", !.lapsed = FALSE, !.magnet = c])
<1>1. [r EXCEPT !.discovery = "finished", !.lapsed = FALSE, !.web = c] \in RowType
  BY Zenon DEF RowType
<1>2. [r EXCEPT !.discovery = "finished", !.lapsed = FALSE, !.magnet = c] \in RowType
  BY Zenon DEF RowType
<1> QED
  BY <1>1, <1>2, SMT DEF Alike, RowType

LEMMA RequeuedAlike ==
    ASSUME NEW r \in RowType, NEW m \in Modes
    PROVE  Alike(r, Requeued(r, m))
<1> DEFINE a == IF m = "smart" THEN "unknown" ELSE r.magnet
           b == IF m = "web" THEN "unknown" ELSE r.web
           q == [r EXCEPT !.mode = m, !.discovery = "queued", !.lapsed = FALSE,
                          !.smart = "idle", !.magnet = a, !.web = b]
<1>1. a \in Channel /\ b \in Channel
  BY DEF RowType, Channel
<1>2. Requeued(r, m) = q
  BY DEF Requeued
<1> HIDE DEF a, b
<1>3. q \in RowType
  BY <1>1, Zenon DEF RowType
<1>4. q.status = r.status /\ q.rev = r.rev /\ q.bound = r.bound /\ q.lease = r.lease
  BY SMT DEF RowType
<1> QED
  BY <1>2, <1>3, <1>4 DEF Alike

--------------------------------------------------------------------------------
\* Steps that leave the row as it is, or sweep it.

Calm(r, q) ==
    /\ q \in RowType /\ q.rev = r.rev /\ q.bound = r.bound
    /\ \/ q.status = r.status /\ q.lease = r.lease
       \/ /\ r.status \in {"open", "submitting", "created"}
          /\ q.status \in {"open", "expired"} /\ q.lease = None
          /\ r.status = "created" => q.status = "expired"

LEMMA SweptCalm ==
    ASSUME NEW r \in RowType
    PROVE  Swept(r) \in RowType /\ Calm(r, Swept(r))
  BY SweptRow DEF Calm

LEMMA AlikeCalm ==
    ASSUME NEW r \in RowType, NEW s \in RowType, NEW q, Calm(r, s), Alike(s, q)
    PROVE  Calm(r, q)
  BY DEF Calm, Alike

--------------------------------------------------------------------------------
\* What a step of one request leaves to the others.

\* The request stands where the step put it, and the others where they were.
Moves(h, s, i, g) ==
    /\ RequestsOK'
    /\ pc'[h] = s /\ mine'[h] = i /\ goal'[h] = g
    /\ \A k \in Handlers \ {h} : /\ pc'[k] = pc[k] /\ mine'[k] = mine[k] /\ goal'[k] = goal[k]
                                 /\ cleanup = k => cleanup' = k

LEMMA DoneMoves ==
    ASSUME RequestsOK, NEW h \in Handlers, Done(h)
    PROVE  Moves(h, "idle", 0, None)
<1>1. 0 \in 0..MaxRows /\ "idle" \in Steps
  BY ReplacementAssumption DEF Steps
<1>2. RequestsOK'
  BY <1>1 DEF Done, RequestsOK
<1> QED
  BY <1>2, ReplacementAssumption DEF Done, RequestsOK, Moves

LEMMA GoesOn ==
    ASSUME RequestsOK, NEW h \in Handlers, NEW s \in Steps, Goto(h, s),
           UNCHANGED <<mine, goal, cleanup>>
    PROVE  Moves(h, s, mine[h], goal[h])
  BY DEF Goto, RequestsOK, Moves

LEMMA StartsWork ==
    ASSUME RequestsOK, NEW h \in Handlers, NEW s \in Steps, Goto(h, s),
           NEW i \in 0..MaxRows, mine' = [mine EXCEPT ![h] = i],
           NEW g \in Targets \cup Modes \cup {None}, goal' = [goal EXCEPT ![h] = g],
           UNCHANGED cleanup
    PROVE  Moves(h, s, i, g)
  BY DEF Goto, RequestsOK, Moves

\* A request that holds the row keeps it; none gets it by another's step, or another target.
\* A settled row stays settled.
Yields(k) ==
    /\ mine[k] = id /\ id' = id /\ row.status \in Settled =>
           row'.status \in Settled /\ row'.bound = row.bound
    /\ Holds(k, "discarding") => mine[k] = id' /\ row'.status = "discarding" /\ row'.lease = k
    /\ mine[k] = id' /\ row'.status = "submitting" /\ row'.lease = k =>
           /\ Holds(k, "submitting")
           /\ row'.bound = row.bound
           /\ ~overran' => there'[id'] \subseteq there[id]

LEMMA OthersStayFit ==
    ASSUME IInv, NEW k \in Handlers, Yields(k), id <= id', overran => overran',
           id' \in 0..MaxRows,
           \A i \in Ids : known[i] \subseteq known'[i],
           pc'[k] = pc[k], mine'[k] = mine[k], goal'[k] = goal[k],
           cleanup = k => cleanup' = k
    PROVE  Fit(k)'
<1> USE DEF IInv, Fit
<1>1. Works(k)'
  <2>1. mine[k] \in Nat /\ id \in Nat /\ id' \in Nat
    BY DEF RequestsOK, WorldOK
  <2>2. Works(k)
    OBVIOUS
  <2> QED
    BY <2>1, <2>2 DEF Works
<1>2. Disposes(k)'
  BY DEF Disposes, Yields, Holds
<1>3. Confirms(k)'
  <2>1. mine[k] \in 0..MaxRows /\ mine[k] <= id /\ id \in 0..MaxRows
    BY DEF RequestsOK, WorldOK, Works
  <2>2. pc[k] \in {"marking", "removing"} => mine[k] \in Ids
    BY <2>1, ReplacementAssumption DEF Works, Submitting, Ids
  <2>3. mine[k] = id' => id' = id
    BY <2>1
  <2>4. Confirms(k)
    OBVIOUS
  <2> QED
    BY <2>2, <2>3, <2>4 DEF Confirms, Yields
<1>4. Submits(k)'
  <2> SUFFICES ASSUME Holds(k, "submitting")'
               PROVE  /\ pc'[k] \in {"checking", "sending", "marking"} => row'.bound = goal'[k]
                      /\ ~overran' /\ pc'[k] = "sending" => there'[id'] \subseteq {row'.bound}
    BY DEF Submits
  <2>1. /\ Holds(k, "submitting") /\ row'.bound = row.bound
        /\ ~overran' => there'[id'] \subseteq there[id]
    BY DEF Yields, Holds
  <2> QED
    BY <2>1 DEF Submits
<1> QED
  BY <1>1, <1>2, <1>3, <1>4

\* What is left to show of a step of request h.
LEMMA StepOfOne ==
    ASSUME IInv, NEW h \in Handlers, NEW s, NEW i, NEW g, Moves(h, s, i, g),
           RowOK', WorldOK', Rows', Created', Bound', Fit(h)',
           id <= id', overran => overran',
           \A n \in Ids : known[n] \subseteq known'[n],
           \A k \in Handlers \ {h} : Yields(k)
    PROVE  IInv'
<1>1. ASSUME NEW k \in Handlers \ {h} PROVE Fit(k)'
  BY <1>1, OthersStayFit DEF Moves, WorldOK
<1>2. RequestsOK'
  BY DEF Moves
<1> QED
  BY <1>1, <1>2 DEF IInv

\* Steps at which a request works for nothing the invariant speaks of.
FreeSteps == {"idle", "selecting", "selected", "removed", "kept"}

LEMMA FreeIsFit ==
    ASSUME NEW h \in Handlers, pc'[h] \in FreeSteps, mine'[h] <= id'
    PROVE  Fit(h)'
  BY DEF FreeSteps, Fit, Works, Disposes, Confirms, Submits, Submitting, Disposing

--------------------------------------------------------------------------------
\* Steps that leave the row as it is, or sweep it, and miss a target at most.

CalmStep ==
    /\ Calm(row, row')
    /\ there' \in [Ids -> SUBSET Targets] /\ \A i \in Ids : there'[i] \subseteq there[i]
    /\ source' \in [at : {"failed", "busy", "gone"}, rev : 0..MaxRevision]
    /\ row.rev <= source'.rev
    /\ Spent => source'.at # "failed" \/ source'.rev # row.rev
    /\ known' \in [Ids -> SUBSET Targets] /\ \A i \in Ids : known[i] \subseteq known'[i]
    /\ UNCHANGED <<id, overran>>
    /\ probe' \in [Ids -> {"none", "queued", "probing", "done"}]

LEMMA CalmStepKeeps ==
    ASSUME IInv, CalmStep
    PROVE  /\ RowOK' /\ WorldOK' /\ Rows' /\ Created' /\ Bound'
           /\ \A k \in Handlers : Yields(k)
<1> USE DEF IInv, CalmStep
<1>1. RowOK'
  BY DEF RowOK, Calm
<1>2. WorldOK'
  BY DEF WorldOK
<1>3. Rows'
  BY DEF Rows, Calm
<1>4. Created'
  BY DEF Created
<1>5. id # 0 => there'[id] \subseteq there[id]
  BY PresentIsARow
<1>6. Bound'
  <2> SUFFICES ASSUME ~overran' PROVE /\ \A i \in Ids : there'[i] # Targets
                                      /\ id' # 0 => there'[id'] \subseteq {row'.bound} \/ Spent'
    BY DEF Bound
  <2>1. \A i \in Ids : there'[i] # Targets
    BY DEF Bound, WorldOK
  <2>2. Spent => Spent'
    BY DEF Spent, Calm
  <2> QED
    BY <1>5, <2>1, <2>2 DEF Bound, Calm
<1>7. ASSUME NEW k \in Handlers PROVE Yields(k)
  <2>1. k # None
    BY ReplacementAssumption
  <2>2. Holds(k, "submitting") => id # 0
    BY DEF Rows, Holds
  <2> QED
    BY <1>5, <2>1, <2>2 DEF Yields, Holds, Calm, Settled
<1> QED
  BY <1>1, <1>2, <1>3, <1>4, <1>6, <1>7

\* No request moves.
LEMMA QuietStep ==
    ASSUME IInv, CalmStep, UNCHANGED <<request, cleanup>>
    PROVE  IInv'
<1>1. RequestsOK'
  BY DEF IInv, RequestsOK, request
<1>2. ASSUME NEW k \in Handlers PROVE Fit(k)'
  BY <1>2, CalmStepKeeps, OthersStayFit DEF IInv, CalmStep, request, WorldOK
<1> QED
  BY <1>1, <1>2, CalmStepKeeps DEF IInv

\* One request moves.
LEMMA CalmStepOfOne ==
    ASSUME IInv, CalmStep, NEW h \in Handlers, NEW s, NEW i, NEW g, Moves(h, s, i, g),
           Fit(h)'
    PROVE  IInv'
  BY CalmStepKeeps, StepOfOne DEF IInv, CalmStep, WorldOK

\* One request ends, or goes on to a step without obligations.
LEMMA CalmStepToRest ==
    ASSUME IInv, CalmStep, NEW h \in Handlers, NEW s \in FreeSteps, NEW i, NEW g,
           Moves(h, s, i, g), i = 0 \/ i = id \/ i = mine[h]
    PROVE  IInv'
<1>1. i <= id
  BY DEF IInv, Fit, Works, WorldOK
<1>2. Fit(h)'
  BY <1>1, FreeIsFit DEF Moves, CalmStep
<1> QED
  BY <1>2, CalmStepOfOne

\* What a step that leaves the world alone has to show of the row.
LEMMA WorldStays ==
    ASSUME IInv, Calm(row, row'), UNCHANGED <<id, world, overran>>,
           probe' \in [Ids -> {"none", "queued", "probing", "done"}]
    PROVE  CalmStep
  BY DEF IInv, WorldOK, Rows, world, CalmStep, Spent

LEMMA SameIsCalm == ASSUME RowOK, UNCHANGED row PROVE Calm(row, row')
  BY DEF RowOK, Calm

\* A look that finds a target changes only what is known of its row.
LEMMA SeenIsCalm ==
    ASSUME IInv, NEW i \in Ids, NEW t \in Targets, Seen(i, t),
           UNCHANGED <<id, row, source, probe, overran>>
    PROVE  CalmStep /\ t \in known'[i]
<1>1. /\ known' \in [Ids -> SUBSET Targets] /\ \A n \in Ids : known[n] \subseteq known'[n]
      /\ t \in known'[i]
  BY DEF Seen, IInv, WorldOK
<1> QED
  BY <1>1, SameIsCalm DEF Seen, CalmStep, IInv, WorldOK, Rows, Spent

--------------------------------------------------------------------------------
\* The actions, one by one.

LEMMA PollStep == ASSUME IInv, Poll PROVE IInv'
<1>1. Calm(row, row')
  BY SweptCalm DEF Poll, IInv, RowOK
<1>2. probe' \in [Ids -> {"none", "queued", "probing", "done"}]
  BY DEF Poll, Schedule, IInv, WorldOK
<1>3. CalmStep
  BY <1>1, <1>2, WorldStays DEF Poll
<1> QED
  BY <1>3, QuietStep DEF Poll

LEMMA WorkerStep == ASSUME IInv, NEW i \in Ids, Worker(i) PROVE IInv'
<1>1. UNCHANGED <<id, world, request, cleanup, overran>>
  BY DEF Worker, ClaimDiscovery, FinishDiscovery, LoseDiscovery, Unschedule
<1>2. probe' \in [Ids -> {"none", "queued", "probing", "done"}]
  BY DEF Worker, ClaimDiscovery, FinishDiscovery, LoseDiscovery, Unschedule, IInv, WorldOK
<1>3. row \in RowType
  BY DEF IInv, RowOK
<1>4. row' = row \/ Alike(row, row')
  <2>1. CASE ClaimDiscovery(i)
    BY <1>3, <2>1, DiscoveryAlike DEF ClaimDiscovery
  <2>2. CASE FinishDiscovery(i)
    BY <1>3, <2>2, FoundAlike DEF FinishDiscovery
  <2>3. CASE LoseDiscovery(i) \/ Unschedule(i)
    BY <2>3 DEF LoseDiscovery, Unschedule
  <2> QED
    BY <2>1, <2>2, <2>3 DEF Worker
<1>5. Calm(row, row')
  BY <1>3, <1>4 DEF Calm, Alike
<1> QED
  BY <1>1, <1>2, <1>5, WorldStays, QuietStep

LEMMA TimeStep ==
    ASSUME IInv, LeaseRunsOut \/ DiscoveryLapses \/ RowAges
    PROVE  IInv'
<1>1. UNCHANGED <<id, world, request, cleanup, probe, overran>>
  BY DEF LeaseRunsOut, DiscoveryLapses, RowAges
<1>2. Alike(row, row')
  BY TimesAlike DEF LeaseRunsOut, DiscoveryLapses, RowAges, IInv, RowOK
<1>3. Calm(row, row')
  BY <1>2 DEF Calm, Alike
<1>4. probe' \in [Ids -> {"none", "queued", "probing", "done"}]
  BY <1>1 DEF IInv, WorldOK
<1> QED
  BY <1>1, <1>3, <1>4, WorldStays, QuietStep

LEMMA SourceStep == ASSUME IInv, SourceMoves PROVE IInv'
<1>1. UNCHANGED <<id, row, known, there, request, cleanup, probe, overran>>
  BY DEF SourceMoves
<1>2. Calm(row, row')
  BY <1>1, SameIsCalm DEF IInv
<1>3. /\ source' \in [at : {"failed", "busy", "gone"}, rev : 0..MaxRevision]
      /\ row.rev <= source'.rev
      /\ Spent => source'.at # "failed" \/ source'.rev # row.rev
  <2>1. /\ source.rev \in 0..MaxRevision /\ row.rev \in 0..MaxRevision /\ row.rev <= source.rev
        /\ source \in [at : {"failed", "busy", "gone"}, rev : 0..MaxRevision]
    BY DEF IInv, WorldOK, RowOK, RowType, Rows
  <2>2. CASE source.at = "failed" /\ source' = [source EXCEPT !.at = "busy"]
    BY <2>1, <2>2
  <2>3. CASE source.rev < MaxRevision /\ source' = [at |-> "failed", rev |-> source.rev + 1]
    BY <2>1, <2>3, ReplacementAssumption
  <2> QED
    BY <2>2, <2>3 DEF SourceMoves
<1>4. CalmStep
  BY <1>1, <1>2, <1>3 DEF CalmStep, IInv, WorldOK
<1> QED
  BY <1>1, <1>4, QuietStep

\* Nobody disposes of anything while the lock is free.
LEMMA PreviewStep == ASSUME IInv, Preview PROVE IInv'
<1> USE DEF IInv
<1>1. CASE row.status # "discarding"
  <2>1. row' = Swept(row)
    BY <1>1 DEF Preview, Reopened
  <2>2. Calm(row, row') /\ probe' \in [Ids -> {"none", "queued", "probing", "done"}]
    BY <2>1, SweptCalm DEF RowOK, Preview, WorldOK
  <2> QED
    BY <2>2, WorldStays, QuietStep DEF Preview
<1>2. CASE row.status = "discarding"
  <2> DEFINE q == [Freed(row) EXCEPT !.status = "open", !.aged = FALSE]
  <2>1. /\ q \in RowType
        /\ q.status = "open" /\ q.rev = row.rev /\ q.bound = row.bound /\ q.lease = None
    BY ReopenedRow DEF RowOK
  <2>2. row' = Swept(q)
    BY <1>2 DEF Preview, Reopened
  <2>3. /\ row' \in RowType /\ row'.status \in {"open", "expired"}
        /\ row'.rev = row.rev /\ row'.bound = row.bound
    BY <2>1, <2>2, SweptRow
  <2>4. UNCHANGED <<id, world, request, cleanup, probe, overran>>
    BY DEF Preview
  <2>5. RowOK' /\ WorldOK' /\ RequestsOK'
    BY <2>3, <2>4 DEF RowOK, WorldOK, RequestsOK, world, request
  <2>6. Rows' /\ Created' /\ Bound'
    BY <1>2, <2>3, <2>4 DEF Rows, Created, Bound, Spent, world
  <2>7. ASSUME NEW k \in Handlers PROVE Fit(k)'
    <3>1. pc[k] \notin Disposing /\ cleanup # k
      BY ReplacementAssumption DEF Preview, Fit, Disposes
    <3>2. Fit(k)
      OBVIOUS
    <3> QED
      BY <1>2, <2>3, <2>4, <3>1, <3>2
         DEF Fit, Works, Disposes, Confirms, Submits, Holds, Settled, world, request
  <2> QED
    BY <2>5, <2>6, <2>7
<1> QED
  BY <1>1, <1>2

\* A request asks, and starts the recovery of a failure or shares one.
LEMMA CreateStep ==
    ASSUME IInv, NEW h \in Handlers, NEW mode \in Modes, Create(h, mode)
    PROVE  IInv'
<1> USE DEF IInv
<1>1. /\ UNCHANGED <<world, cleanup, probe, overran>>
      /\ Goto(h, "enqueuing")
      /\ mine' = [mine EXCEPT ![h] = id'] /\ goal' = [goal EXCEPT ![h] = mode]
  BY DEF Create
<1>2. ASSUME id' \in 0..MaxRows PROVE Moves(h, "enqueuing", id', mode)
  BY <1>1, <1>2, StartsWork DEF Steps
<1>3. ASSUME Moves(h, "enqueuing", id', mode), id' \in Nat PROVE Fit(h)'
  <2>1. Works(h)'
    BY <1>3 DEF Moves, Works, Submitting
  <2>2. Disposes(h)' /\ Confirms(h)' /\ Submits(h)'
    BY <1>3 DEF Moves, Disposes, Confirms, Submits, Disposing
  <2> QED
    BY <2>1, <2>2 DEF Fit
<1>4. CASE row' = Swept(row) /\ UNCHANGED id
  <2>1. CalmStep
    BY <1>1, <1>4, SweptCalm, WorldStays DEF RowOK, WorldOK
  <2> QED
    BY <1>2, <1>3, <1>4, <2>1, CalmStepOfOne DEF WorldOK
<1>5. CASE NewRow /\ Swept(row).status \notin ActiveStatuses \ {"open"}
  <2>1. /\ id' = id + 1 /\ id' \in 0..MaxRows /\ id' \in Ids
        /\ row' = Row(source.rev) /\ source.rev \in 0..MaxRevision
    BY <1>5, ReplacementAssumption DEF NewRow, WorldOK, Ids
  <2>2. /\ row' \in RowType /\ row'.status = "open" /\ row'.rev = source.rev
        /\ row'.bound = None /\ row'.lease = None
    BY <2>1, NewIsTyped
  <2>3. there[id'] = {}
    BY <2>1 DEF Created, WorldOK
  <2>4. row.status # "discarding"
    BY <1>5, SweptRow DEF RowOK
  <2>5. RowOK' /\ WorldOK' /\ Rows'
    BY <1>1, <2>1, <2>2 DEF RowOK, WorldOK, Rows, world
  <2>6. Created'
    BY <1>1, <2>1 DEF Created, world, WorldOK, Ids
  <2>7. Bound'
    BY <1>1, <2>1, <2>3 DEF Bound, world
  <2>8. ASSUME NEW k \in Handlers PROVE Yields(k)
    BY <2>1, <2>2, <2>4 DEF Yields, Holds
  <2> QED
    BY <1>1, <1>2, <1>3, <2>1, <2>5, <2>6, <2>7, <2>8, StepOfOne DEF world, WorldOK
<1> QED
  BY <1>4, <1>5 DEF Create

LEMMA EnqueueStep == ASSUME IInv, NEW h \in Handlers, Enqueue(h) PROVE IInv'
<1> USE DEF IInv
<1>1. goal[h] \in Modes
  BY DEF Fit, Works, Enqueue
<1>2. Calm(row, row')
  <2>1. row' = row \/ row' = Swept(row) \/ row' = Requeued(Swept(row), goal[h])
    BY DEF Enqueue
  <2>2. row \in RowType /\ Swept(row) \in RowType /\ Calm(row, Swept(row))
    BY SweptCalm DEF RowOK
  <2>3. Alike(Swept(row), Requeued(Swept(row), goal[h]))
    BY <1>1, <2>2, RequeuedAlike
  <2> QED
    BY <2>1, <2>2, <2>3, SameIsCalm, AlikeCalm
<1>3. UNCHANGED <<id, world, overran>> /\ Done(h)
  BY DEF Enqueue
<1>4. probe' \in [Ids -> {"none", "queued", "probing", "done"}]
  BY DEF Enqueue, Schedule, WorldOK
<1> QED
  BY <1>2, <1>3, <1>4, WorldStays, DoneMoves, CalmStepToRest DEF FreeSteps

LEMMA SelectionStep ==
    ASSUME IInv, NEW h \in Handlers, Select(h) \/ FinishSelection(h)
    PROVE  IInv'
<1> USE DEF IInv
<1>1. /\ row \in RowType /\ Swept(row) \in RowType /\ Calm(row, Swept(row))
      /\ \A q : Alike(row, q) => Calm(row, q)
  BY SweptCalm DEF RowOK, Calm, Alike
<1>2. UNCHANGED <<id, world, probe, overran>>
  BY DEF Select, FinishSelection
<1>3. ASSUME Calm(row, row') PROVE CalmStep
  BY <1>2, <1>3, WorldStays DEF WorldOK
<1>4. CASE Select(h)
  <2>1. Calm(row, row')
    BY <1>1, <1>4, SmartAlike, AlikeCalm DEF Select
  <2>2. goal' = [goal EXCEPT ![h] = goal[h]] /\ goal[h] \in Targets \cup Modes \cup {None}
    BY <1>4 DEF Select, RequestsOK
  <2>3. Moves(h, "selecting", id, goal[h])
    BY <1>4, <2>2, StartsWork DEF Select, Steps, WorldOK
  <2> QED
    BY <1>3, <2>1, <2>3, CalmStepToRest DEF FreeSteps
<1>5. CASE FinishSelection(h)
  <2>1. Calm(row, row')
    BY <1>1, <1>5, SmartAlike, SameIsCalm DEF FinishSelection
  <2>2. CASE Done(h)
    BY <1>3, <2>1, <2>2, DoneMoves, CalmStepToRest DEF FreeSteps
  <2>3. CASE Goto(h, "selected") /\ UNCHANGED <<mine, goal, cleanup>>
    <3>1. Moves(h, "selected", mine[h], goal[h])
      BY <2>3, GoesOn DEF Steps
    <3> QED
      BY <1>3, <2>1, <3>1, CalmStepToRest DEF FreeSteps
  <2> QED
    BY <1>5, <2>2, <2>3 DEF FinishSelection
<1> QED
  BY <1>4, <1>5

LEMMA SubmitStep ==
    ASSUME IInv, NEW h \in Handlers, NEW t \in Targets, Submit(h, t)
    PROVE  IInv'
<1> USE DEF IInv
<1>1. CalmStep
  BY SweptCalm, WorldStays DEF Submit, RowOK, WorldOK
<1>2. Moves(h, "reading", id, t)
  BY StartsWork DEF Submit, Steps, WorldOK
<1>3. Fit(h)'
  BY <1>2 DEF Submit, Moves, Fit, Works, Disposes, Confirms, Submits, Submitting, Disposing,
              WorldOK
<1> QED
  BY <1>1, <1>2, <1>3, CalmStepOfOne

\* A claim binds the row to a target only if it was bound to none or to that one.
LEMMA ClaimKeeps ==
    ASSUME IInv, NEW h \in Handlers, NEW t \in Targets,
           Claimable(Swept(row), t), row' = Claimed(Swept(row), h, t),
           NEW s \in {"checking", "confirming"}, NEW i, Moves(h, s, i, t), i = id, id # 0,
           s = IF Swept(row).status = "created" THEN "confirming" ELSE "checking",
           UNCHANGED <<id, world, probe, overran>>
    PROVE  IInv'
<1> USE DEF IInv
<1> DEFINE r == Swept(row)
<1>1. /\ r \in RowType /\ r.rev = row.rev /\ r.bound = row.bound
      /\ row.status # "discarding" /\ r.status \in {"open", "created"}
      /\ row.status \in Settled => r.status = "created"
  BY SweptRow DEF RowOK, Claimable, Settled
<1>2. /\ row' \in RowType /\ row'.rev = row.rev /\ row'.lease = h
      /\ IF r.status = "created" THEN row'.status = "created" /\ row'.bound = row.bound
                                 ELSE row'.status = "submitting" /\ row'.bound = t
  BY <1>1, ClaimedRow
<1>3. row.bound \in {None, t} /\ None \notin Targets /\ h # None /\ t # None
  BY <1>1, ReplacementAssumption DEF Claimable
<1>4. RowOK' /\ WorldOK' /\ Rows' /\ Created'
  <2>1. RowOK'
    <3>1. r.status = "created" => row.status = "created"
      BY <1>1, SweptRow DEF RowOK
    <3> QED
      BY <1>2, <1>3, <3>1 DEF RowOK
  <2>2. WorldOK' /\ Rows' /\ Created'
    BY <1>2 DEF WorldOK, Rows, Created, world
  <2> QED
    BY <2>1, <2>2
<1>5. ASSUME ~overran
      PROVE  there[id] \subseteq {row'.bound} \/ Spent
  <2>1. there[id] \subseteq Targets
    BY PresentIsARow DEF WorldOK
  <2>2. there[id] \subseteq {row.bound} \/ Spent
    BY <1>5 DEF Bound
  <2> QED
    BY <1>2, <1>3, <2>1, <2>2
<1>6. Bound'
  BY <1>2, <1>5 DEF Bound, Spent, world
<1>7. ASSUME NEW k \in Handlers \ {h} PROVE Yields(k)
  BY <1>1, <1>2 DEF Yields, Holds, Settled
<1>8. Fit(h)'
  <2>1. Works(h)' /\ Disposes(h)' /\ Confirms(h)'
    <3>1. s = "confirming" => row'.status = "created" /\ row'.bound = t
      BY <1>2, <1>3, <1>4 DEF RowOK
    <3> QED
      BY <3>1 DEF Moves, Works, Disposes, Confirms, Disposing, WorldOK, Settled
  <2>2. Submits(h)'
    BY <1>1, <1>2 DEF Moves, Submits, Holds
  <2> QED
    BY <2>1, <2>2 DEF Fit
<1> QED
  BY <1>4, <1>6, <1>7, <1>8, StepOfOne DEF WorldOK, world

LEMMA ClaimStep == ASSUME IInv, NEW h \in Handlers, Claim(h) PROVE IInv'
<1> USE DEF IInv
<1>1. goal[h] \in Targets /\ mine[h] # 0 /\ UNCHANGED <<id, world, probe, overran>>
  BY DEF Claim, Fit, Works, Submitting
<1>2. CASE mine[h] = id /\ Claimable(Swept(row), goal[h])
  <2> DEFINE s == IF Swept(row).status = "created" THEN "confirming" ELSE "checking"
  <2>1. Moves(h, s, mine[h], goal[h])
    BY <1>2, GoesOn DEF Claim, Steps
  <2> QED
    BY <1>1, <1>2, <2>1, ClaimKeeps DEF Claim
<1>3. CASE ~(mine[h] = id /\ Claimable(Swept(row), goal[h]))
  <2>1. Done(h) /\ UNCHANGED row
    BY <1>3 DEF Claim
  <2>2. CalmStep
    BY <1>1, <2>1, SameIsCalm, WorldStays DEF WorldOK
  <2> QED
    BY <2>1, <2>2, DoneMoves, CalmStepToRest DEF FreeSteps
<1> QED
  BY <1>2, <1>3

LEMMA RecoverStep == ASSUME IInv, NEW h \in Handlers, Recover(h) PROVE IInv'
<1> USE DEF IInv
<1>1. /\ Swept(row).status = "created" /\ row.status = "created"
      /\ Swept(row).bound = row.bound
  BY SweptRow DEF Recover, RowOK
<1>2. row.bound \in Targets /\ id # 0
  BY <1>1 DEF RowOK, RowType, Rows
<1>3. Moves(h, "confirming", id, row.bound)
  BY <1>1, <1>2, StartsWork DEF Recover, Steps, WorldOK
<1> QED
  BY <1>1, <1>2, <1>3, ClaimKeeps DEF Recover

\* A target is unbound by a request that holds the row, and there is none, or no other
\* submission will pass its check, or the release overran it.
LEMMA ReleaseKeeps ==
    ASSUME IInv, NEW h \in Handlers, Release(h),
           UNCHANGED <<id, source, known, probe>>, overran' \in BOOLEAN, overran => overran',
           there' \in [Ids -> SUBSET Targets], Created',
           ~overran' => \A i \in Ids : there'[i] \subseteq there[i],
           Holds(h, "submitting") /\ ~overran' /\ id # 0 => Spent \/ there'[id] = {}
    PROVE  IInv'
<1> USE DEF IInv
<1>1. Moves(h, "idle", 0, None)
  BY DoneMoves DEF Release
<1>2. /\ row' \in RowType /\ row'.rev = row.rev
      /\ \/ row' = row /\ ~Holds(h, "submitting")
         \/ /\ row'.status = "open" /\ row'.bound = None /\ row'.lease = None
            /\ Holds(h, "submitting")
  BY ReleasedRow DEF Release, RowOK
<1>3. RowOK' /\ WorldOK' /\ Rows'
  BY <1>2 DEF RowOK, WorldOK, Rows, Holds
<1>4. ASSUME ~overran', id # 0
      PROVE  there'[id] \subseteq {row'.bound} \/ Spent'
  <2>1. id \in Ids /\ there'[id] \subseteq there[id] /\ (Spent => Spent')
    BY <1>2, <1>4, PresentIsARow DEF Spent
  <2>2. there[id] \subseteq {row.bound} \/ Spent
    BY <1>4 DEF Bound
  <2> QED
    BY <1>2, <1>4, <2>1, <2>2
<1>5. Bound'
  <2>1. ASSUME ~overran' PROVE \A i \in Ids : there'[i] # Targets
    BY <2>1 DEF Bound, WorldOK
  <2> QED
    BY <1>4, <2>1 DEF Bound
<1>6. ASSUME NEW k \in Handlers \ {h} PROVE Yields(k)
  <2>1. Holds(k, "submitting") => id # 0
    BY DEF Rows, Holds
  <2>2. ~overran' /\ id # 0 => there'[id] \subseteq there[id]
    BY PresentIsARow
  <2> QED
    BY <1>2, <2>1, <2>2, ReplacementAssumption DEF Yields, Holds, Settled
<1>7. Fit(h)'
  BY <1>1, FreeIsFit DEF Moves, FreeSteps, WorldOK
<1> QED
  BY <1>1, <1>3, <1>5, <1>6, <1>7, StepOfOne DEF WorldOK

LEMMA CheckSourceStep == ASSUME IInv, NEW h \in Handlers, CheckSource(h) PROVE IInv'
<1> USE DEF IInv
<1>1. UNCHANGED <<id, world, probe, overran>> /\ pc[h] = "checking"
  BY DEF CheckSource
<1>2. CASE source.at = "failed" /\ mine[h] = id /\ source.rev = row.rev
  <2>1. Moves(h, "sending", mine[h], goal[h]) /\ UNCHANGED row
    BY <1>2, GoesOn DEF CheckSource, Steps
  <2>2. CalmStep
    BY <1>1, <2>1, SameIsCalm, WorldStays DEF WorldOK
  <2>3. Fit(h)
    OBVIOUS
  <2>4. Works(h)' /\ Disposes(h)' /\ Confirms(h)'
    BY <1>1, <2>1, <2>3 DEF Moves, Fit, Works, Disposes, Confirms, Submitting, Disposing
  <2>5. Submits(h)'
    BY <1>1, <1>2, <2>1, <2>3 DEF Moves, Fit, Works, Submits, Submitting, Holds, Bound,
                                  Spent, world
  <2> QED
    BY <2>1, <2>2, <2>4, <2>5, CalmStepOfOne DEF Fit
<1>3. CASE ~(source.at = "failed" /\ mine[h] = id /\ source.rev = row.rev)
  <2>1. Release(h)
    BY <1>3 DEF CheckSource
  <2>2. Holds(h, "submitting") => Spent
    BY <1>3 DEF Holds, Spent
  <2> QED
    BY <1>1, <2>1, <2>2, ReleaseKeeps DEF world, WorldOK, Created
<1> QED
  BY <1>2, <1>3

\* The new download may be created by a request whose lease ran out; the others it leaves as
\* they are.
LEMMA SendStep == ASSUME IInv, NEW h \in Handlers, Send(h) PROVE IInv'
<1> USE DEF IInv
<1> DEFINE i == mine[h]
           t == goal[h]
<1>1. /\ t \in Targets /\ i # 0 /\ i \in Ids /\ i <= id /\ id \in Ids /\ id # 0
      /\ pc[h] = "sending" /\ UNCHANGED <<id, source, probe>>
  <2>1. Fit(h) /\ pc[h] = "sending"
    BY DEF Send
  <2>2. t \in Targets /\ i # 0 /\ i <= id /\ i \in 0..MaxRows /\ id \in 0..MaxRows
    BY <2>1 DEF Fit, Works, Submitting, RequestsOK, WorldOK
  <2> QED
    BY <2>2, ReplacementAssumption DEF Send, Ids
<1>2. CASE /\ Made(h)
           /\ \/ /\ known' = [known EXCEPT ![i] = @ \cup {t}]
                 /\ Goto(h, "marking") /\ UNCHANGED <<mine, goal, cleanup>>
              \/ Done(h) /\ UNCHANGED known
  <2>1. /\ there' = [there EXCEPT ![i] = @ \cup {t}] /\ UNCHANGED row
        /\ overran' = (overran \/ ~Holds(h, "submitting") \/ row.late)
    BY <1>2 DEF Made
  <2>2. /\ known' \in [Ids -> SUBSET Targets] /\ there' \in [Ids -> SUBSET Targets]
        /\ \A n \in Ids : known[n] \subseteq known'[n]
    <3>1. known' = known \/ known' = [known EXCEPT ![i] = @ \cup {t}]
      BY <1>2
    <3>2. known \in [Ids -> SUBSET Targets] /\ there \in [Ids -> SUBSET Targets]
      BY DEF WorldOK
    <3>3. /\ [known EXCEPT ![i] = @ \cup {t}] \in [Ids -> SUBSET Targets]
          /\ there' \in [Ids -> SUBSET Targets]
      BY <1>1, <2>1, <3>2
    <3>4. \A n \in Ids : known[n] \subseteq [known EXCEPT ![i] = @ \cup {t}][n]
      BY <1>1, <3>2
    <3> QED
      BY <3>1, <3>2, <3>3, <3>4
  <2>3. overran' \in BOOLEAN /\ (overran => overran')
        /\ (~overran' => ~overran /\ Holds(h, "submitting"))
    BY <2>1, Zenon DEF WorldOK
  <2>4. RowOK' /\ WorldOK' /\ Rows'
    BY <1>1, <2>1, <2>2, <2>3 DEF RowOK, WorldOK, Rows
  <2>5. Created'
    BY <1>1, <2>1 DEF Created, WorldOK, Ids
  <2>6. ASSUME ~overran'
        PROVE  /\ i = id /\ row.bound = t
               /\ \A n \in Ids : there[n] # Targets
               /\ there[id] \subseteq {t}
    <3>1. Fit(h) /\ ~overran /\ Holds(h, "submitting")
      BY <2>3, <2>6
    <3> QED
      BY <1>1, <3>1 DEF Fit, Submits, Holds, Bound
  <2>7. ASSUME ~overran'
        PROVE  there'[id] \subseteq {row.bound} /\ \A n \in Ids : there'[n] # Targets
    BY <1>1, <2>1, <2>6, <2>7 DEF WorldOK
  <2>8. Bound'
    BY <1>1, <2>1, <2>7 DEF Bound
  <2>9. ASSUME NEW k \in Handlers \ {h} PROVE Yields(k)
    BY <1>1, <2>1, <2>3 DEF Yields, Holds
  <2>10. CASE Done(h)
    <3>1. Moves(h, "idle", 0, None)
      BY <2>10, DoneMoves
    <3>2. Fit(h)'
      BY <1>1, <3>1, FreeIsFit DEF Moves, FreeSteps, WorldOK
    <3> QED
      BY <1>1, <2>2, <2>3, <2>4, <2>5, <2>8, <2>9, <3>1, <3>2, StepOfOne DEF WorldOK
  <2>11. CASE /\ known' = [known EXCEPT ![i] = @ \cup {t}]
              /\ Goto(h, "marking") /\ UNCHANGED <<mine, goal, cleanup>>
    <3>1. Moves(h, "marking", i, t)
      BY <2>11, GoesOn DEF Steps
    <3>2. t \in known'[i]
      BY <1>1, <2>11 DEF WorldOK
    <3>3. Fit(h)
      OBVIOUS
    <3>4. Fit(h)'
      BY <1>1, <2>1, <3>1, <3>2, <3>3 DEF Moves, Fit, Works, Disposes, Confirms, Submits,
                                          Submitting, Disposing, Holds
    <3> QED
      BY <1>1, <2>2, <2>3, <2>4, <2>5, <2>8, <2>9, <3>1, <3>4, StepOfOne DEF WorldOK
  <2> QED
    BY <1>2, <2>10, <2>11
<1>3. CASE /\ Seen(i, t) /\ Goto(h, "marking")
           /\ UNCHANGED <<row, mine, goal, cleanup, overran>>
  <2>1. CalmStep /\ t \in known'[i]
    BY <1>1, <1>3, SeenIsCalm
  <2>2. Moves(h, "marking", i, t)
    BY <1>3, GoesOn DEF Steps
  <2>3. Fit(h)
    OBVIOUS
  <2>4. Fit(h)'
    BY <1>1, <1>3, <2>1, <2>2, <2>3 DEF Moves, Fit, Works, Disposes, Confirms, Submits,
                                        Submitting, Disposing, Holds
  <2> QED
    BY <2>1, <2>2, <2>4, CalmStepOfOne
<1>4. CASE Missed(i, t) /\ Release(h) /\ UNCHANGED overran
  <2>1. there' \in [Ids -> SUBSET Targets] /\ \A n \in Ids : there'[n] \subseteq there[n]
    BY <1>1, <1>4 DEF Missed, WorldOK
  <2>2. Holds(h, "submitting") /\ ~overran' => there'[id] = {}
    <3>1. Fit(h)
      OBVIOUS
    <3>2. Holds(h, "submitting") /\ ~overran => there[id] \subseteq {t} /\ i = id
      BY <1>1, <3>1 DEF Fit, Submits, Holds
    <3> QED
      BY <1>1, <1>4, <3>2 DEF Missed, WorldOK
  <2>3. Created'
    BY <1>1, <2>1 DEF Created
  <2> QED
    BY <1>1, <1>4, <2>1, <2>2, <2>3, ReleaseKeeps DEF Missed, WorldOK
<1>5. CASE Release(h) /\ there' = [there EXCEPT ![i] = @ \cup {t}] /\ overran' = TRUE
           /\ UNCHANGED known
  <2>1. there' \in [Ids -> SUBSET Targets]
    BY <1>1, <1>5 DEF WorldOK
  <2>2. Created'
    BY <1>1, <1>5 DEF Created, WorldOK, Ids
  <2> QED
    BY <1>1, <1>5, <2>1, <2>2, ReleaseKeeps
<1>6. CASE Done(h) /\ UNCHANGED <<row, known, there, overran>>
  <2>1. CalmStep
    BY <1>1, <1>6, SameIsCalm, WorldStays DEF world, WorldOK
  <2> QED
    BY <1>6, <2>1, DoneMoves, CalmStepToRest DEF FreeSteps
<1> QED
  BY <1>2, <1>3, <1>4, <1>5, <1>6 DEF Send

\* Marking and finishing change only a row the request holds.
LEMMA MarkStep == ASSUME IInv, NEW h \in Handlers, Mark(h) PROVE IInv'
<1> USE DEF IInv
<1>1. UNCHANGED <<id, world, probe, overran>> /\ pc[h] = "marking"
  BY DEF Mark
<1>2. CASE ~Holds(h, "submitting")
  <2>1. CalmStep /\ Done(h)
    BY <1>1, <1>2, SameIsCalm, WorldStays DEF Mark, WorldOK
  <2> QED
    BY <2>1, DoneMoves, CalmStepToRest DEF FreeSteps
<1>3. CASE Holds(h, "submitting")
  <2>1. /\ row' \in RowType /\ row'.status = "created"
        /\ row'.rev = row.rev /\ row'.bound = row.bound /\ row'.lease = row.lease
    BY <1>3, CreatedRow DEF Mark, RowOK
  <2>2. Moves(h, "removing", mine[h], goal[h])
    BY <1>3, GoesOn DEF Mark, Steps
  <2>3. RowOK' /\ WorldOK' /\ Rows' /\ Created' /\ Bound'
    BY <1>1, <1>3, <2>1 DEF RowOK, WorldOK, Rows, Created, Bound, Spent, Holds, world
  <2>4. ASSUME NEW k \in Handlers \ {h} PROVE Yields(k)
    BY <1>3, <2>1 DEF Yields, Holds, Settled
  <2>5. Fit(h)
    OBVIOUS
  <2>6. Fit(h)'
    BY <1>1, <1>3, <2>1, <2>2, <2>5 DEF Moves, Fit, Works, Disposes, Confirms, Submits,
                                        Submitting, Disposing, Holds, Settled, world
  <2> QED
    BY <1>1, <2>2, <2>3, <2>4, <2>6, StepOfOne DEF world, WorldOK
<1> QED
  BY <1>2, <1>3

LEMMA FinishStep == ASSUME IInv, NEW h \in Handlers, Finish(h) PROVE IInv'
<1> USE DEF IInv
<1>1. UNCHANGED <<id, world, probe, overran>> /\ Moves(h, "idle", 0, None)
  BY DoneMoves DEF Finish
<1>2. CASE ~Holds(h, "created")
  <2>1. CalmStep
    BY <1>1, <1>2, SameIsCalm, WorldStays DEF Finish, WorldOK
  <2> QED
    BY <1>1, <2>1, CalmStepToRest DEF FreeSteps
<1>3. CASE Holds(h, "created")
  <2>1. row \in RowType /\ row.status = "created" /\ row.lease = h /\ mine[h] = id
    BY <1>3 DEF Holds, RowOK
  <2>2. Freed(row).status = "created"
    BY <2>1, SMT DEF Freed, RowType
  <2>3. \E s \in {"created", "completed"} : row' = [Freed(row) EXCEPT !.status = s]
    BY <1>3, <2>2 DEF Finish
  <2>4. /\ row' \in RowType /\ row'.status \in {"created", "completed"}
        /\ row'.rev = row.rev /\ row'.bound = row.bound /\ row'.lease = None
    <3>1. PICK s \in {"created", "completed"} : row' = [Freed(row) EXCEPT !.status = s]
      BY <2>3
    <3>2. s \in Statuses
      OBVIOUS
    <3> QED
      BY <2>1, <3>1, <3>2, FreedRow
  <2>5. RowOK' /\ WorldOK'
    BY <1>1, <2>1, <2>4 DEF RowOK, WorldOK, world
  <2>6. Rows' /\ Created' /\ Bound'
    BY <1>1, <2>1, <2>4 DEF Rows, Created, Bound, Spent, world
  <2>7. ASSUME NEW k \in Handlers \ {h} PROVE Yields(k)
    BY <2>1, <2>4 DEF Yields, Holds, Settled
  <2>8. Fit(h)'
    BY <1>1, FreeIsFit DEF Moves, FreeSteps, WorldOK
  <2> QED
    BY <1>1, <2>5, <2>6, <2>7, <2>8, StepOfOne DEF world, WorldOK
<1> QED
  BY <1>2, <1>3

\* Looking for the target and removing the failed download.
LEMMA ConfirmStep == ASSUME IInv, NEW h \in Handlers, Confirm(h) PROVE IInv'
<1> USE DEF IInv
<1>1. UNCHANGED <<id, row, source, mine, goal, cleanup, probe, overran>>
  BY DEF Confirm
<1>2. Fit(h) /\ pc[h] = "confirming" /\ mine[h] \in Ids /\ goal[h] \in Targets
  BY ReplacementAssumption DEF Confirm, Fit, Works, Submitting, RequestsOK, Ids
<1>3. CASE Seen(mine[h], goal[h]) /\ Goto(h, "removing")
  <2>1. CalmStep /\ goal[h] \in known'[mine[h]]
    BY <1>1, <1>2, <1>3, SeenIsCalm
  <2>2. Moves(h, "removing", mine[h], goal[h])
    BY <1>1, <1>3, GoesOn DEF Steps
  <2>3. Fit(h)'
    BY <1>1, <1>2, <2>1, <2>2 DEF Moves, Fit, Works, Disposes, Confirms, Submits, Submitting,
                                  Disposing
  <2> QED
    BY <2>1, <2>2, <2>3, CalmStepOfOne
<1>4. CASE Missed(mine[h], goal[h]) /\ Goto(h, "kept")
  <2>1. there' \in [Ids -> SUBSET Targets] /\ \A n \in Ids : there'[n] \subseteq there[n]
    BY <1>2, <1>4 DEF Missed, WorldOK
  <2>2. CalmStep
    BY <1>1, <1>4, <2>1, SameIsCalm DEF CalmStep, Spent, WorldOK, Rows, Missed
  <2>3. Moves(h, "kept", mine[h], goal[h])
    BY <1>1, <1>4, GoesOn DEF Steps
  <2> QED
    BY <2>2, <2>3, CalmStepToRest DEF FreeSteps
<1> QED
  BY <1>3, <1>4 DEF Confirm

LEMMA SourceGone ==
    ASSUME IInv, UNCHANGED <<id, row, known, there, probe, overran>>,
           source' = source \/ source' = [source EXCEPT !.at = "gone"]
    PROVE  CalmStep
<1> USE DEF IInv
<1>1. /\ source.rev \in 0..MaxRevision /\ row.rev <= source.rev
      /\ source \in [at : {"failed", "busy", "gone"}, rev : 0..MaxRevision]
  BY DEF WorldOK, Rows
<1>2. /\ source' \in [at : {"failed", "busy", "gone"}, rev : 0..MaxRevision]
      /\ source'.rev = source.rev
      /\ source' = source \/ source'.at = "gone"
  BY <1>1
<1> QED
  BY <1>1, <1>2, SameIsCalm DEF CalmStep, Spent, WorldOK

LEMMA RemoveSourceStep == ASSUME IInv, NEW h \in Handlers, RemoveSource(h) PROVE IInv'
<1>1. CalmStep
  BY SourceGone DEF RemoveSource
<1>2. Moves(h, "removed", mine[h], goal[h]) \/ Moves(h, "kept", mine[h], goal[h])
  BY GoesOn DEF RemoveSource, Steps, IInv
<1> QED
  BY <1>1, <1>2, CalmStepToRest DEF FreeSteps

LEMMA DiscardStep == ASSUME IInv, NEW h \in Handlers, Discard(h) PROVE IInv'
<1>1. CalmStep
  BY SourceGone DEF Discard
<1>2. /\ UNCHANGED <<id, row, cleanup>> /\ pc[h] = "disposing" /\ Fit(h)
  BY DEF Discard, IInv
<1>3. ASSUME NEW s \in {"disposed", "refused"}, Moves(h, s, mine[h], goal[h]) PROVE Fit(h)'
  BY <1>2, <1>3 DEF Moves, Fit, Works, Disposes, Confirms, Submits, Submitting, Disposing, Holds
<1>4. Moves(h, "disposed", mine[h], goal[h]) \/ Moves(h, "refused", mine[h], goal[h])
  BY GoesOn DEF Discard, Steps, IInv
<1> QED
  BY <1>1, <1>3, <1>4, CalmStepOfOne

\* A disposition takes the lock, so nobody else is disposing.
LEMMA DisposeStep == ASSUME IInv, NEW h \in Handlers, Dispose(h) PROVE IInv'
<1> USE DEF IInv
<1>1. /\ cleanup = None /\ cleanup' = h /\ id # 0
      /\ UNCHANGED <<id, world, goal, probe, overran>>
      /\ pc' = [pc EXCEPT ![h] = "beginning"] /\ mine' = [mine EXCEPT ![h] = id]
  BY DEF Dispose, Goto
<1>2. /\ row' \in RowType /\ row'.rev = row.rev /\ row'.bound = row.bound
      /\ \/ row'.status = row.status /\ row'.lease = row.lease
         \/ row.status # "expired" /\ row'.status \in {"open", "expired"}
      /\ row.status \in Settled => row'.status \in Settled
  <2>1. row \in RowType /\ Swept(row) \in RowType /\ Calm(row, Swept(row))
    BY SweptCalm DEF RowOK
  <2>2. CASE row.status # "discarding"
    BY <2>1, <2>2 DEF Dispose, Reopened, Calm, Settled
  <2>3. CASE row.status = "discarding"
    <3> DEFINE q == [Freed(row) EXCEPT !.status = "open", !.aged = FALSE]
    <3>1. /\ q \in RowType
          /\ q.status = "open" /\ q.rev = row.rev /\ q.bound = row.bound /\ q.lease = None
      BY <2>1, ReopenedRow
    <3>2. Reopened(row) = q
      BY <2>3 DEF Reopened
    <3>3. /\ Swept(q) \in RowType /\ Swept(q).status \in {"open", "expired"}
          /\ Swept(q).rev = row.rev /\ Swept(q).bound = row.bound
      BY <3>1, SweptRow
    <3>4. row' = row \/ row' = Swept(q)
      BY <3>2 DEF Dispose
    <3> QED
      BY <2>1, <2>3, <3>3, <3>4 DEF Settled
  <2> QED
    BY <2>2, <2>3
<1>3. RowOK' /\ WorldOK' /\ Rows' /\ Created' /\ Bound'
  BY <1>1, <1>2 DEF RowOK, WorldOK, Rows, Created, Bound, Spent, world
<1>4. RequestsOK'
  BY <1>1 DEF RequestsOK, WorldOK, Steps
<1>5. ASSUME NEW k \in Handlers PROVE Fit(k)'
  <2>1. pc[k] \notin Disposing \cup {"beginning"} /\ Fit(k)
    BY <1>1, ReplacementAssumption DEF Fit, Disposes
  <2>2. CASE k = h
    BY <1>1, <1>2, <2>2 DEF Fit, Works, Disposes, Confirms, Submits, Submitting, Disposing,
                            RequestsOK, WorldOK
  <2>3. CASE k # h
    <3>1. /\ pc'[k] = pc[k] /\ mine'[k] = mine[k] /\ goal'[k] = goal[k]
          /\ there' = there /\ known' = known
      BY <1>1, <2>3 DEF RequestsOK, world
    <3> QED
      BY <1>1, <1>2, <2>1, <3>1 DEF Fit, Works, Disposes, Confirms, Submits, Holds
  <2> QED
    BY <2>2, <2>3
<1> QED
  BY <1>3, <1>4, <1>5

LEMMA BeginDispositionStep ==
    ASSUME IInv, NEW h \in Handlers, BeginDisposition(h)
    PROVE  IInv'
<1> USE DEF IInv
<1> DEFINE r == Swept(row)
<1>1. UNCHANGED <<id, world, probe, overran>> /\ pc[h] = "beginning"
  BY DEF BeginDisposition
<1>2. CASE ~(mine[h] = id /\ Disposable(r))
  <2>1. CalmStep /\ Done(h)
    BY <1>1, <1>2, SameIsCalm, WorldStays DEF BeginDisposition, WorldOK
  <2> QED
    BY <2>1, DoneMoves, CalmStepToRest DEF FreeSteps
<1>3. CASE mine[h] = id /\ Disposable(r)
  <2>1. /\ r \in RowType /\ r.status = "open" /\ r.rev = row.rev /\ r.bound = row.bound
        /\ row.status \in {"open", "submitting"}
    BY <1>3, SweptRow DEF RowOK, Disposable
  <2>2. /\ row' \in RowType /\ row'.status = "discarding"
        /\ row'.rev = row.rev /\ row'.bound = row.bound /\ row'.lease = h
    <3>1. row' = [r EXCEPT !.status = "discarding", !.lease = h, !.late = FALSE, !.aged = FALSE]
      BY <1>3 DEF BeginDisposition
    <3> HIDE DEF r
    <3> QED
      BY <2>1, <3>1, DiscardingRow
  <2>3. Moves(h, "disposing", mine[h], goal[h]) /\ UNCHANGED cleanup
    BY <1>3, GoesOn DEF BeginDisposition, Steps
  <2>4. RowOK' /\ WorldOK'
    BY <1>1, <2>2, ReplacementAssumption DEF RowOK, WorldOK, world
  <2>5. Rows' /\ Created' /\ Bound'
    BY <1>1, <2>1, <2>2 DEF Rows, Created, Bound, Spent, world
  <2>6. ASSUME NEW k \in Handlers \ {h} PROVE Yields(k)
    BY <2>1, <2>2 DEF Yields, Holds, Settled
  <2>7. Fit(h)
    OBVIOUS
  <2>8. Fit(h)'
    BY <1>1, <1>3, <2>2, <2>3, <2>7 DEF Moves, Fit, Works, Disposes, Confirms, Submits,
                                        Submitting, Disposing, Holds
  <2> QED
    BY <1>1, <2>3, <2>4, <2>5, <2>6, <2>8, StepOfOne DEF world, WorldOK
<1> QED
  BY <1>2, <1>3

LEMMA FinishDispositionStep ==
    ASSUME IInv, NEW h \in Handlers, FinishDisposition(h)
    PROVE  IInv'
<1> USE DEF IInv
<1>1. /\ UNCHANGED <<id, world, probe, overran>> /\ Moves(h, "idle", 0, None)
      /\ Holds(h, "discarding")
  BY DoneMoves DEF FinishDisposition, Fit, Disposes, Disposing
<1>2. row \in RowType /\ row.status = "discarding" /\ row.lease = h /\ mine[h] = id
  BY <1>1 DEF Holds, RowOK
<1>3. \/ row' = [Freed(row) EXCEPT !.status = "discarded"]
      \/ row' = [Freed(row) EXCEPT !.status = "open", !.aged = FALSE]
  BY <1>1 DEF FinishDisposition
<1>4. /\ row' \in RowType /\ row'.status \in {"discarded", "open"}
      /\ row'.rev = row.rev /\ row'.bound = row.bound /\ row'.lease = None
  <2>1. CASE row' = [Freed(row) EXCEPT !.status = "discarded"]
    BY <1>2, <2>1, FreedRow
  <2>2. CASE row' = [Freed(row) EXCEPT !.status = "open", !.aged = FALSE]
    BY <1>2, <2>2, ReopenedRow
  <2> QED
    BY <1>3, <2>1, <2>2
<1>5. RowOK' /\ WorldOK'
  BY <1>1, <1>4 DEF RowOK, WorldOK, world
<1>6. Rows' /\ Created' /\ Bound'
  BY <1>1, <1>2, <1>4 DEF Rows, Created, Bound, Spent, world
<1>7. ASSUME NEW k \in Handlers \ {h} PROVE Yields(k)
  BY <1>2, <1>4 DEF Yields, Holds, Settled
<1>8. Fit(h)'
  BY <1>1, FreeIsFit DEF Moves, FreeSteps, WorldOK
<1> QED
  BY <1>1, <1>5, <1>6, <1>7, <1>8, StepOfOne DEF world, WorldOK

LEMMA FailsStep == ASSUME IInv, NEW h \in Handlers, Fails(h) PROVE IInv'
<1>1. CalmStep
  BY SameIsCalm, WorldStays DEF Fails, IInv, WorldOK
<1> QED
  BY <1>1, DoneMoves, CalmStepToRest DEF Fails, FreeSteps, IInv

LEMMA CrashStep == ASSUME IInv, Crash PROVE IInv'
<1> USE DEF IInv
<1>1. /\ pc' = [h \in Handlers |-> "idle"] /\ mine' = [h \in Handlers |-> 0]
      /\ goal' = [h \in Handlers |-> None] /\ cleanup' = None
      /\ UNCHANGED <<id, world, overran>>
      /\ probe' \in [Ids -> {"none", "queued", "probing", "done"}]
  BY DEF Crash
<1> DEFINE o == Reopened(row)
           r == Swept(o)
           s == IF r.smart = "running" THEN [r EXCEPT !.smart = "idle"] ELSE r
           d == IF s.status = "open" /\ s.discovery = "running"
                THEN [s EXCEPT !.discovery = "queued", !.lapsed = FALSE] ELSE s
<1>2. /\ o \in RowType /\ o.rev = row.rev /\ o.bound = row.bound
      /\ o = row \/ (row.status = "discarding" /\ o.status = "open" /\ o.lease = None)
  BY ReopenedRow DEF RowOK, Reopened
<1>3. r \in RowType /\ Calm(o, r)
  BY <1>2, SweptCalm
<1>4. s \in RowType /\ Calm(o, s)
  <2>1. s = r \/ Alike(r, s)
    BY <1>3, SmartAlike
  <2> QED
    BY <1>2, <1>3, <2>1, AlikeCalm DEF Alike
<1>5. d \in RowType /\ Calm(o, d)
  <2>1. d = s \/ Alike(s, d)
    BY <1>4, DiscoveryAlike
  <2> QED
    BY <1>2, <1>4, <2>1, AlikeCalm DEF Alike
<1>6. row' = d
  BY DEF Crash
<1> HIDE DEF o, r, s, d
<1>7. /\ row' \in RowType /\ row'.rev = row.rev /\ row'.bound = row.bound
      /\ \/ row'.status = row.status /\ row'.lease = row.lease
         \/ row.status # "expired" /\ row'.status \in {"open", "expired"}
  BY <1>2, <1>5, <1>6 DEF Calm
<1>8. RowOK' /\ WorldOK'
  BY <1>1, <1>7 DEF RowOK, WorldOK, world
<1>9. Rows' /\ Created' /\ Bound'
  BY <1>1, <1>7 DEF Rows, Created, Bound, Spent, world
<1>10. RequestsOK'
  BY <1>1, ReplacementAssumption DEF RequestsOK, Steps
<1>11. ASSUME NEW k \in Handlers PROVE Fit(k)'
  BY <1>1 DEF Fit, Works, Disposes, Confirms, Submits, Submitting, Disposing, WorldOK
<1> QED
  BY <1>8, <1>9, <1>10, <1>11

--------------------------------------------------------------------------------
\* The theorems.

LEMMA InvariantAtInit == Init => IInv
<1> SUFFICES ASSUME Init PROVE IInv
  OBVIOUS
<1>1. Row(0) \in RowType /\ Row(0).rev = 0
  BY NewIsTyped, ReplacementAssumption
<1>2. /\ row \in RowType /\ row.status = "expired" /\ row.rev = 0
  <2>1. row = [Row(0) EXCEPT !.status = "expired"]
    BY DEF Init
  <2>2. row \in RowType
    BY <1>1, <2>1, Zenon DEF RowType
  <2> QED
    BY <1>1, <2>1, <2>2, SMT DEF RowType
<1>3. /\ id = 0 /\ source = [at |-> "failed", rev |-> 0]
      /\ known = [i \in Ids |-> {}] /\ there = [i \in Ids |-> {}]
      /\ pc = [h \in Handlers |-> "idle"] /\ mine = [h \in Handlers |-> 0]
      /\ goal = [h \in Handlers |-> None] /\ cleanup = None
      /\ probe = [i \in Ids |-> "none"] /\ overran = FALSE
  BY DEF Init
<1>4. RowOK /\ Rows
  BY <1>2, <1>3 DEF RowOK, Rows
<1>5. WorldOK
  <2>1. 0 \in 0..MaxRows /\ 0 \in 0..MaxRevision
    BY ReplacementAssumption
  <2>2. source \in [at : {"failed", "busy", "gone"}, rev : 0..MaxRevision]
    BY <1>3, <2>1
  <2>3. /\ known \in [Ids -> SUBSET Targets] /\ there \in [Ids -> SUBSET Targets]
        /\ probe \in [Ids -> {"none", "queued", "probing", "done"}]
    BY <1>3
  <2> QED
    BY <1>3, <2>1, <2>2, <2>3, Zenon DEF WorldOK
<1>6. RequestsOK
  BY <1>3, ReplacementAssumption DEF RequestsOK, Steps
<1>7. Created /\ Bound
  <2>1. \A i \in Ids : there[i] = {} /\ there[i] # Targets
    BY <1>3
  <2> QED
    BY <1>3, <2>1 DEF Created, Bound
<1>8. ASSUME NEW h \in Handlers PROVE Fit(h)
  BY <1>3 DEF Fit, Works, Disposes, Confirms, Submits, Submitting, Disposing
<1> QED
  BY <1>4, <1>5, <1>6, <1>7, <1>8 DEF IInv

LEMMA InvariantStep == IInv /\ [Next]_vars => IInv'
<1> SUFFICES ASSUME IInv, [Next]_vars PROVE IInv'
  OBVIOUS
<1>1. ASSUME NEW h \in Handlers, Request(h) PROVE IInv'
  BY <1>1, CreateStep, EnqueueStep, SelectionStep, SubmitStep, ClaimStep, RecoverStep,
     CheckSourceStep, SendStep, MarkStep, ConfirmStep, RemoveSourceStep, FinishStep,
     DisposeStep, BeginDispositionStep, DiscardStep, FinishDispositionStep, FailsStep
     DEF Request
<1>2. CASE UNCHANGED vars
  <2>1. CalmStep /\ UNCHANGED <<request, cleanup>>
    BY <1>2, SameIsCalm, WorldStays DEF vars, IInv, WorldOK
  <2> QED
    BY <2>1, QuietStep
<1> QED
  BY <1>1, <1>2, WorkerStep, PollStep, PreviewStep, CrashStep, TimeStep, SourceStep DEF Next

LEMMA InvariantHolds == Spec => []IInv
  BY InvariantAtInit, InvariantStep, PTL DEF Spec

\* The rows, the requests and the world keep their types, and a row that is being submitted
\* has the target and the lease it is submitted under (begin_submission).
THEOREM ReplacementTypeCorrect == Spec => []TypeOK
  BY InvariantHolds, InvariantSaysMore, PTL

\* However many requests meet, leases run out and rows follow one another, no row has a
\* torrent and a web job, as long as each submission is made within its lease and none
\* releases the row from a torrent that it looked for in vain and that comes later.
THEOREM OneTargetPerRow == Spec => []OneTarget
  BY InvariantHolds, InvariantSaysMore, PTL

\* A request that disposes of the failure has its row until it is through.
THEOREM DisposalsAreHeld == Spec => []DisposalIsHeld
  BY InvariantHolds, InvariantSaysMore, PTL

\* The failed download is removed only after the target its row is bound to was created, or
\* looked for and found, or in a disposition.
THEOREM SourcesGoLast == Spec => SourceGoesLast
<1> DEFINE Removal == source.at = "failed" /\ source'.at = "gone"
                      => row.bound \in known[id] \/ row.status = "discarding"
<1>1. IInv /\ [Next]_vars => [Removal]_vars
  <2> SUFFICES ASSUME IInv, Next, source.at = "failed", source'.at = "gone"
               PROVE  row.bound \in known[id] \/ row.status = "discarding"
    OBVIOUS
  <2> USE DEF IInv
  <2>1. \E h \in Handlers : RemoveSource(h) \/ Discard(h)
    <3>1. source' # source
      OBVIOUS
    <3>2. ASSUME NEW h \in Handlers, Request(h) PROVE RemoveSource(h) \/ Discard(h)
      BY <3>1, <3>2 DEF Request, Create, Enqueue, Select, FinishSelection, Submit, Claim,
                        Recover, CheckSource, Send, Mark, Confirm, Finish, Dispose,
                        BeginDisposition, FinishDisposition, Fails, world
    <3>3. ASSUME NEW i \in Ids PROVE ~Worker(i)
      BY <3>1 DEF Worker, ClaimDiscovery, FinishDiscovery, LoseDiscovery, Unschedule, world
    <3>4. ~SourceMoves
      BY DEF SourceMoves, WorldOK
    <3> QED
      BY <3>1, <3>2, <3>3, <3>4 DEF Next, Poll, Preview, Crash, LeaseRunsOut, DiscoveryLapses,
                                    RowAges, world
  <2>2. PICK h \in Handlers : RemoveSource(h) \/ Discard(h)
    BY <2>1
  <2>3. Fit(h)
    OBVIOUS
  <2>4. CASE RemoveSource(h)
    <3>1. pc[h] = "removing" /\ mine[h] = id
      BY <2>4 DEF RemoveSource
    <3> QED
      BY <2>3, <3>1 DEF Fit, Confirms
  <2>5. CASE Discard(h)
    BY <2>3, <2>5 DEF Discard, Fit, Disposes, Disposing, Holds
  <2> QED
    BY <2>2, <2>4, <2>5
<1> QED
  BY <1>1, InvariantHolds, PTL DEF Spec, SourceGoesLast
================================================================================
