------------------------- MODULE WebDownloadQueueProofs -------------------------
(***************************************************************************)
(* Theorems about WebDownloadQueue, for any number of jobs, any priorities *)
(* and any number of changes: positions never collide, the revision names  *)
(* the queue, and only a reorder lets one job overtake another.            *)
(***************************************************************************)
EXTENDS WebDownloadQueue, FiniteSetTheorems, TLAPS

Present == {j \in Jobs : place[j] # "none"}

\* created_at ranks the jobs in the order of their insertion.
Numbered ==
    /\ \A j \in Jobs : created[j] > 0 <=> j \in Present
    /\ \A j \in Present : created[j] <= Cardinality(Present)
    /\ \A j, k \in Present : created[j] = created[k] => j = k

\* What the page shows is a record.
ViewIsRecord ==
    view # NoView =>
        view = [table |-> view.table, at |-> view.at, revision |-> view.revision]

IInv == TypeOK /\ Numbered /\ ViewIsRecord /\ PositionsDiffer /\ RevisionNamesTheQueue

--------------------------------------------------------------------------------
\* The order of the queue.

\* Every set of jobs is finite.
LEMMA JobsFinite ==
    ASSUME NEW js \in SUBSET Jobs
    PROVE  IsFiniteSet(js) /\ Cardinality(js) \in Nat
BY QueueAssumption, FS_Subset, FS_CardinalityType

\* Some job of a set has the last position: a smallest set of jobs without one could lose
\* a job and would have one.
LEMMA LastExists ==
    ASSUME NEW js \in SUBSET Jobs, js # {}, NEW pos \in [Jobs -> Nat]
    PROVE  \E m \in js : \A j \in js : pos[j] <= pos[m]
<1> DEFINE HasLast(U) == \E m \in U : \A j \in U : pos[j] <= pos[m]
           Without == {U \in SUBSET js : U # {} /\ ~HasLast(U)}
<1>1. IsWellFoundedOn(StrictSubsetOrdering(js), FiniteSubsetsOf(js))
    BY FS_StrictSubsetOrderingWellFounded
<1>2. Without \subseteq FiniteSubsetsOf(js)
    BY JobsFinite DEF FiniteSubsetsOf
<1>3. ASSUME Without # {} PROVE FALSE
    <2>1. PICK U \in Without : \A V \in Without : <<V, U>> \notin StrictSubsetOrdering(js)
        <3> HIDE DEF Without
        <3> QED
            BY <1>1, <1>2, <1>3, WFMin
    <2>2. PICK x \in U : TRUE
        OBVIOUS
    <2>3. U \ {x} \notin Without
        BY <2>1, <2>2 DEF StrictSubsetOrdering
    <2>4. CASE U \ {x} = {}
        <3>1. \A j \in U : j = x
            BY <2>2, <2>4
        <3>2. pos[x] \in Nat
            BY <2>2
        <3>3. HasLast(U)
            BY <2>2, <3>1, <3>2
        <3> QED
            BY <2>1, <3>3
    <2>5. CASE HasLast(U \ {x})
        <3>1. PICK m \in U \ {x} : \A j \in U \ {x} : pos[j] <= pos[m]
            BY <2>5
        <3>2. \A j \in U : pos[j] \in Nat
            OBVIOUS
        <3>3. CASE pos[x] <= pos[m]
            BY <2>1, <3>1, <3>3
        <3>4. CASE pos[m] <= pos[x]
            <4>1. \A j \in U : pos[j] <= pos[x]
                BY <2>2, <3>1, <3>2, <3>4
            <4> QED
                BY <2>1, <2>2, <4>1
        <3> QED
            BY <2>2, <3>1, <3>2, <3>3, <3>4
    <2> QED
        BY <2>1, <2>3, <2>4, <2>5
<1> QED
    BY <1>3

\* COALESCE(MAX(queue_position), 0) bounds the positions.
LEMMA LastOfIsLast ==
    ASSUME NEW js \in SUBSET Jobs, NEW pos \in [Jobs -> Nat]
    PROVE  LastOf(pos, js) \in Nat /\ \A j \in js : pos[j] <= LastOf(pos, js)
<1>1. \E n \in {pos[j] : j \in js} \cup {0} : \A j \in js : pos[j] <= n
    <2>1. CASE js = {}
        BY <2>1
    <2>2. CASE js # {}
        BY <2>2, LastExists
    <2> QED
        BY <2>1, <2>2
<1> QED
    BY <1>1 DEF LastOf

\* The rank of a job is a number from 1.
LEMMA RankType ==
    ASSUME NEW js \in SUBSET Jobs, NEW pos, NEW j
    PROVE  Rank(pos, js, j) \in Nat /\ Rank(pos, js, j) >= 1
<1>1. Cardinality({k \in js : Ahead(pos, k, j)}) \in Nat
    BY JobsFinite
<1> QED
    BY <1>1 DEF Rank

\* The columns that order the queue are numbers.
LEMMA RowNumbers ==
    ASSUME TypeOK, NEW j \in Jobs
    PROVE  priority[j] \in Nat /\ position[j] \in Nat /\ created[j] \in Nat
<1>1. priority[j] \in Nat /\ position[j] \in Nat
    BY QueueAssumption DEF TypeOK
<1>2. created[j] \in Nat
    BY JobsFinite DEF TypeOK
<1> QED
    BY <1>1, <1>2

\* Any two jobs are ordered, by created_at if by nothing else.
LEMMA AheadTotal ==
    ASSUME TypeOK, Numbered, NEW pos \in [Jobs -> Nat],
           NEW j \in Present, NEW k \in Present, j # k
    PROVE  Ahead(pos, j, k) \/ Ahead(pos, k, j)
<1>1. /\ priority[j] \in Nat /\ priority[k] \in Nat /\ pos[j] \in Nat /\ pos[k] \in Nat
      /\ created[j] \in Nat /\ created[k] \in Nat /\ created[j] # created[k]
    BY RowNumbers DEF Numbered, Present
<1> QED
    BY <1>1 DEF Ahead

\* A job ahead of another has the lower rank.
LEMMA RankOrder ==
    ASSUME TypeOK, NEW js \in SUBSET Jobs, NEW pos \in [Jobs -> Nat],
           NEW j \in js, NEW k \in js, Ahead(pos, j, k)
    PROVE  Rank(pos, js, j) < Rank(pos, js, k)
<1> DEFINE B == {i \in js : Ahead(pos, i, j)}
           C == {i \in js : Ahead(pos, i, k)}
<1>1. \A l \in Jobs : priority[l] \in Nat /\ pos[l] \in Nat /\ created[l] \in Nat
    BY RowNumbers
<1>2. \A i \in js : Ahead(pos, i, j) => Ahead(pos, i, k)
    BY <1>1 DEF Ahead
<1>3. ~Ahead(pos, j, j)
    BY <1>1 DEF Ahead
<1>4. B \in SUBSET C /\ j \in C /\ j \notin B
    BY <1>2, <1>3
<1>5. IsFiniteSet(C) /\ Cardinality(B) \in Nat /\ Cardinality(C) \in Nat
    BY JobsFinite
<1>6. Cardinality(B) < Cardinality(C)
    <2> HIDE DEF B, C
    <2> QED
        BY <1>4, <1>5, FS_Subset
<1> QED
    BY <1>5, <1>6 DEF Rank

\* So ranks differ.
LEMMA RanksDiffer ==
    ASSUME TypeOK, Numbered, NEW js \in SUBSET Present, NEW pos \in [Jobs -> Nat],
           NEW j \in js, NEW k \in js, j # k
    PROVE  Rank(pos, js, j) # Rank(pos, js, k)
<1>1. js \in SUBSET Jobs
    BY DEF Present
<1>2. Rank(pos, js, j) \in Nat /\ Rank(pos, js, k) \in Nat
    BY <1>1, RankType
<1> QED
    BY <1>1, <1>2, AheadTotal, RankOrder


--------------------------------------------------------------------------------
\* The places of a reorder.

\* The rank of a pending job, and how many of the named jobs have none higher.
RankNow(k) == Rank(position, Pending, k)
UpTo(js, k) == Cardinality({l \in js : RankNow(l) <= RankNow(k)})

\* A list of jobs names each of them once.
LEMMA OrderNamesOnce ==
    ASSUME NEW js \in SUBSET Jobs, NEW ids \in Orders(js)
    PROVE  /\ DOMAIN ids = 1..Cardinality(js)
           /\ \A i \in DOMAIN ids : ids[i] \in js
           /\ {ids[i] : i \in DOMAIN ids} = js
           /\ \A i, n \in DOMAIN ids : ids[i] = ids[n] => i = n
<1>1. Cardinality(js) \in Nat /\ IsFiniteSet(js)
    BY JobsFinite
<1>2. ids \in [1..Cardinality(js) -> js] /\ \A j \in js : \E i \in DOMAIN ids : ids[i] = j
    BY DEF Orders
<1>3. IsFiniteSet(1..Cardinality(js)) /\ Cardinality(1..Cardinality(js)) = Cardinality(js)
    BY <1>1, FS_Interval
<1>4. ids \in Surjection(1..Cardinality(js), js)
    BY <1>2 DEF Surjection
<1>5. ids \in Injection(1..Cardinality(js), js)
    BY <1>1, <1>3, <1>4, FS_Surjection
<1> QED
    BY <1>2, <1>5 DEF Injection, IsInjective

\* A lower rank has fewer named jobs up to it.
LEMMA UpToOrder ==
    ASSUME TypeOK, NEW js \in SUBSET Pending, NEW k \in js, NEW m \in js,
           RankNow(k) < RankNow(m)
    PROVE  UpTo(js, k) < UpTo(js, m)
<1> DEFINE B == {l \in js : RankNow(l) <= RankNow(k)}
           C == {l \in js : RankNow(l) <= RankNow(m)}
<1>1. js \in SUBSET Jobs /\ Pending \in SUBSET Jobs
    BY DEF Pending
<1>2. \A l \in js : RankNow(l) \in Nat
    BY <1>1, RankType DEF RankNow
<1>3. B \in SUBSET C /\ m \in C /\ m \notin B
    BY <1>2
<1>4. IsFiniteSet(C) /\ Cardinality(B) \in Nat /\ Cardinality(C) \in Nat
    BY <1>1, JobsFinite
<1>5. Cardinality(B) < Cardinality(C)
    <2> HIDE DEF B, C
    <2> QED
        BY <1>3, <1>4, FS_Subset
<1> QED
    BY <1>5 DEF UpTo

\* Each of the places the named jobs have between them is held by one of them.
LEMMA PlacesHeld ==
    ASSUME TypeOK, Numbered, NEW js \in SUBSET Pending, NEW i \in 1..Cardinality(js)
    PROVE  \E k \in js : UpTo(js, k) = i
<1> DEFINE f == [k \in js |-> UpTo(js, k)]
<1>1. js \in SUBSET Jobs /\ js \in SUBSET Present /\ Pending \in SUBSET Present
    BY DEF Pending, Present, Waiting
<1>2. IsFiniteSet(js) /\ Cardinality(js) \in Nat
    BY <1>1, JobsFinite
<1>3. \A k \in js : RankNow(k) \in Nat /\ UpTo(js, k) \in Nat
    BY <1>1, RankType, JobsFinite DEF RankNow, UpTo, Pending
<1>4. \A k \in js : UpTo(js, k) \in 1..Cardinality(js)
    <2>1. TAKE k \in js
    <2> DEFINE B == {l \in js : RankNow(l) <= RankNow(k)}
    <2>2. k \in B /\ B \in SUBSET js
        BY <1>3
    <2>3. IsFiniteSet(B) /\ Cardinality(B) <= Cardinality(js) /\ Cardinality(B) # 0
        <3> HIDE DEF B
        <3> QED
            BY <1>2, <2>2, FS_Subset, FS_EmptySet
    <2> QED
        BY <1>2, <1>3, <2>3 DEF UpTo
<1>5. \A k, m \in js : UpTo(js, k) = UpTo(js, m) => k = m
    <2>1. SUFFICES ASSUME NEW k \in js, NEW m \in js, k # m
                   PROVE  UpTo(js, k) # UpTo(js, m)
        OBVIOUS
    <2>2. RankNow(k) # RankNow(m)
        BY <1>1, <2>1, RanksDiffer DEF RankNow, TypeOK
    <2>3. RankNow(k) < RankNow(m) \/ RankNow(m) < RankNow(k)
        BY <1>3, <2>2
    <2> QED
        BY <1>3, <2>3, UpToOrder
<1>6. f \in Injection(js, 1..Cardinality(js))
    BY <1>4, <1>5 DEF Injection, IsInjective
<1>7. IsFiniteSet(1..Cardinality(js)) /\ Cardinality(1..Cardinality(js)) = Cardinality(js)
    BY <1>2, FS_Interval
<1>8. f \in Surjection(js, 1..Cardinality(js))
    <2> HIDE DEF f
    <2> QED
        BY <1>6, <1>7, FS_Injection
<1> QED
    BY <1>8 DEF Surjection

\* The i-th job of the list gets the i-th of those places; the others keep theirs.
LEMMA NewRankOf ==
    ASSUME TypeOK, Numbered, NEW js \in SUBSET Pending, NEW ids \in Orders(js)
    PROVE  /\ \A j \in Pending \ js : NewRank(ids, j) = RankNow(j)
           /\ \A i \in DOMAIN ids :
                  \E k \in js : NewRank(ids, ids[i]) = RankNow(k) /\ UpTo(js, k) = i
<1>0. js \in SUBSET Jobs
    BY DEF Pending
<1>1. /\ DOMAIN ids = 1..Cardinality(js)
      /\ \A i \in DOMAIN ids : ids[i] \in js
      /\ {ids[i] : i \in DOMAIN ids} = js
      /\ \A i, n \in DOMAIN ids : ids[i] = ids[n] => i = n
    BY <1>0, OrderNamesOnce
<1>2. \A j \in Pending \ js : NewRank(ids, j) = RankNow(j)
    BY <1>1 DEF NewRank, RankNow
<1>3. ASSUME NEW i \in DOMAIN ids
      PROVE  \E k \in js : NewRank(ids, ids[i]) = RankNow(k) /\ UpTo(js, k) = i
    <2> DEFINE held == CHOOSE k \in js : UpTo(js, k) = i
    <2>1. held \in js /\ UpTo(js, held) = i
        BY <1>1, PlacesHeld
    <2>2. (CHOOSE n \in DOMAIN ids : ids[n] = ids[i]) = i
        BY <1>1
    <2>3. NewRank(ids, ids[i]) = RankNow(held)
        BY <1>1, <2>2 DEF NewRank, RankNow, UpTo
    <2> QED
        BY <2>1, <2>3
<1> QED
    BY <1>2, <1>3

\* What a reorder numbers: all of them pending, with ranks of theirs.
LEMMA ReorderShape ==
    ASSUME TypeOK, Numbered, NEW js \in SUBSET Jobs, NEW ids \in Orders(js), ClientReorders(ids)
    PROVE  /\ js \in SUBSET Pending
           /\ \A j \in Pending : \E k \in Pending : NewRank(ids, j) = RankNow(k)
           /\ \A j \in Pending : NewRank(ids, j) \in Nat
           /\ UNCHANGED <<place, priority, created, view>>
           /\ position' = [j \in Jobs |-> IF j \in Pending THEN NewRank(ids, j) ELSE position[j]]
<1>1. js \in SUBSET Pending
    BY OrderNamesOnce DEF ClientReorders, Reorder, Pending, Waiting
<1>2. \A j \in js : \E i \in DOMAIN ids : j = ids[i]
    BY OrderNamesOnce
<1>3. \A j \in Pending : \E k \in Pending : NewRank(ids, j) = RankNow(k)
    BY <1>1, <1>2, NewRankOf
<1>4. Pending \in SUBSET Jobs
    BY DEF Pending
<1>5. \A j \in Pending : NewRank(ids, j) \in Nat
    BY <1>3, <1>4, RankType DEF RankNow
<1> QED
    BY <1>1, <1>3, <1>5 DEF ClientReorders, Reorder, Commit

\* What a recovery does to the rows: the interrupted jobs that come back, some of them
\* behind the queue, are ranked together with it.
LEMMA RecoverShape ==
    ASSUME TypeOK, Recover
    PROVE  \E raw \in [Jobs -> Nat], back \in SUBSET Slots :
               /\ Pending' = Pending \cup back
               /\ \A j \in Pending : raw[j] = position[j]
               /\ position' = [j \in Jobs |-> IF j \in Pending \cup back
                                              THEN Rank(raw, Pending \cup back, j)
                                              ELSE position[j]]
               /\ place' \in [Jobs -> Places]
               /\ \A j \in Jobs \ Slots : place'[j] = place[j]
               /\ \A j \in Slots : place'[j] # "none"
               /\ UNCHANGED <<priority, created>> /\ Commit
<1>1. PICK fate \in [Slots -> {"resumed", "joined", "paused", "paused_global", "ended"}] :
          LET resumed == {j \in Slots : fate[j] = "resumed"}
              joined == {j \in Slots : fate[j] = "joined"}
              back == resumed \cup joined
              last == LastOf(position, Pending \cup resumed)
              raw == [j \in Jobs |->
                        IF j \in joined
                        THEN last + Cardinality({k \in joined : created[k] <= created[j]})
                        ELSE position[j]] IN
          /\ place' = [j \in Jobs |-> IF j \in back THEN "queued"
                                      ELSE IF j \in Slots THEN fate[j] ELSE place[j]]
          /\ position' = [j \in Jobs |-> IF j \in Pending \cup back
                                         THEN Rank(raw, Pending \cup back, j) ELSE position[j]]
          /\ UNCHANGED <<priority, created>>
          /\ Commit
    BY DEF Recover
<1> DEFINE resumed == {j \in Slots : fate[j] = "resumed"}
           joined == {j \in Slots : fate[j] = "joined"}
           back == resumed \cup joined
           last == LastOf(position, Pending \cup resumed)
           raw == [j \in Jobs |->
                     IF j \in joined
                     THEN last + Cardinality({k \in joined : created[k] <= created[j]})
                     ELSE position[j]]
<1>2. Slots \in SUBSET Jobs /\ Pending \in SUBSET Jobs /\ Slots \cap Pending = {}
    BY DEF Slots, Pending, Waiting
<1>3. last \in Nat
    BY <1>2, LastOfIsLast DEF TypeOK
<1>4. \A j \in Jobs : Cardinality({k \in joined : created[k] <= created[j]}) \in Nat
    BY <1>2, JobsFinite
<1>5. raw \in [Jobs -> Nat]
    BY <1>3, <1>4 DEF TypeOK
<1>6. \A j \in Pending : raw[j] = position[j]
    BY <1>2
<1>7. place' = [j \in Jobs |-> IF j \in back THEN "queued"
                               ELSE IF j \in Slots THEN fate[j] ELSE place[j]]
    BY <1>1
<1>8. place' \in [Jobs -> Places]
    BY <1>7 DEF TypeOK, Places, Waiting
<1>9. \A j \in Jobs \ Slots : place'[j] = place[j]
    BY <1>7
<1>10. \A j \in Slots : place'[j] # "none" /\ (place'[j] \in Waiting <=> j \in back)
    BY <1>2, <1>7 DEF Waiting
<1>11. Pending' = Pending \cup back
    BY <1>2, <1>9, <1>10 DEF Pending
<1>12. back \in SUBSET Slots
    OBVIOUS
<1> QED
    BY <1>1, <1>5, <1>6, <1>8, <1>9, <1>10, <1>11, <1>12

\* The last position is a number, and no pending job is behind it.
LEMMA LastBounds ==
    ASSUME TypeOK
    PROVE  Last \in Nat /\ \A j \in Pending : position[j] <= Last
<1>1. Pending \in SUBSET Jobs
    BY DEF Pending
<1> QED
    BY <1>1, LastOfIsLast DEF TypeOK, Last

\* A change commits with the next revision, if a trigger saw it.
LEMMA CommitType ==
    ASSUME TypeOK, Commit
    PROVE  /\ revision' \in 0..MaxRevision /\ view' = view
           /\ revision' = IF TriggerFires THEN revision + 1 ELSE revision
           /\ view' # NoView => /\ view'.at \in 0..revision'
                                /\ view'.revision \in view'.at..revision' \cup {NoView}
<1>1. revision \in Nat /\ revision' \in Nat /\ revision <= revision' /\ revision' <= MaxRevision
    BY QueueAssumption DEF TypeOK, Commit
<1>2. view' = view /\ revision' = IF TriggerFires THEN revision + 1 ELSE revision
    BY DEF Commit
<1>3. view # NoView => view.at \in 0..revision' /\ view.at \in Nat
    BY <1>1 DEF TypeOK
<1>4. view # NoView => view.revision \in view.at..revision' \cup {NoView}
    BY <1>1, <1>3 DEF TypeOK
<1> QED
    BY <1>1, <1>2, <1>3, <1>4

\* The control row changes one field of the page.
LEMMA ViewFields ==
    ASSUME ViewIsRecord, ReadControl
    PROVE  view'.table = view.table /\ view'.at = view.at /\ view'.revision = revision
BY DEF ViewIsRecord, ReadControl

\* Every step keeps the types.
LEMMA TypeStep == TypeOK /\ Numbered /\ ViewIsRecord /\ [Next]_vars => TypeOK'
<1> SUFFICES ASSUME TypeOK, Numbered, ViewIsRecord, [Next]_vars PROVE TypeOK'
    OBVIOUS
<1> USE DEF TypeOK, Places, Waiting
<1>1. CASE UNCHANGED vars
    BY <1>1 DEF vars, rows
<1>2. ASSUME NEW j \in Jobs, Create(j) PROVE TypeOK'
    <2>1. Commit
        BY <1>2 DEF Create
    <2>2. created' \in [Jobs -> 0..Cardinality(Jobs)]
        <3> DEFINE K == {k \in Jobs : created[k] > 0}
        <3>1. j \notin K
            BY <1>2 DEF Create, Numbered, Present
        <3>2. IsFiniteSet(Jobs) /\ IsFiniteSet(K) /\ Cardinality(K) \in Nat
              /\ Cardinality(Jobs) \in Nat
            BY JobsFinite
        <3>3. K \cup {j} \in SUBSET Jobs
            OBVIOUS
        <3>4. 1 + Cardinality(K) <= Cardinality(Jobs)
            <4> HIDE DEF K
            <4> QED
                BY <3>1, <3>2, <3>3, FS_AddElement, FS_Subset
        <3>5. 1 + Cardinality(K) \in 0..Cardinality(Jobs)
            <4> HIDE DEF K
            <4> QED
                BY <3>2, <3>4
        <3> QED
            BY <1>2, <3>5 DEF Create
    <2>3. position' \in [Jobs -> Nat]
        BY <1>2, LastBounds DEF Create
    <2> QED
        BY <1>2, <2>1, <2>2, <2>3, CommitType DEF Create
<1>3. ASSUME NEW j \in Jobs, Claim(j) PROVE TypeOK'
    <2>1. Commit
        BY <1>3 DEF Claim
    <2> QED
        BY <1>3, <2>1, CommitType DEF Claim, MoveTo
<1>4. ASSUME NEW j \in Jobs, PausePending(j) PROVE TypeOK'
    <2>1. Commit
        BY <1>4 DEF PausePending
    <2> QED
        BY <1>4, <2>1, CommitType DEF PausePending, MoveTo
<1>5. ASSUME NEW j \in Jobs, CancelPending(j) PROVE TypeOK'
    <2>1. Commit
        BY <1>5 DEF CancelPending
    <2> QED
        BY <1>5, <2>1, CommitType DEF CancelPending, MoveTo
<1>6. ASSUME NEW j \in Jobs, NEW p \in Places, Requeue(j, p) PROVE TypeOK'
    <2>1. Commit
        BY <1>6 DEF Requeue
    <2> QED
        BY <1>6, <2>1, CommitType, LastBounds DEF Requeue, Append
<1>7. ASSUME NEW j \in Jobs, NEW p \in Places, LeaveSlot(j, p) PROVE TypeOK'
    <2>1. Commit
        BY <1>7 DEF LeaveSlot
    <2> QED
        BY <1>7, <2>1, CommitType DEF LeaveSlot, MoveTo
<1>8. ASSUME NEW j \in Jobs, NEW p \in Places, Rejoin(j, p) PROVE TypeOK'
    <2>1. Commit
        BY <1>8 DEF Rejoin
    <2> QED
        BY <1>8, <2>1, CommitType, LastBounds DEF Rejoin, Append
<1>9. ASSUME NEW j \in Jobs, NEW p \in Priorities, SetPriority(j, p) PROVE TypeOK'
    <2>1. Commit
        BY <1>9 DEF SetPriority
    <2> QED
        BY <1>9, <2>1, CommitType DEF SetPriority
<1>10. CASE GlobalResume
    <2> DEFINE js == {j \in Jobs : place[j] = "paused_global"}
    <2>1. Commit
        BY <1>10 DEF GlobalResume
    <2>2. \A j \in Jobs : Last + Rank(position, js, j) \in Nat
        BY LastBounds, RankType
    <2>3. position' \in [Jobs -> Nat] /\ place' \in [Jobs -> Places]
        BY <1>10, <2>2 DEF GlobalResume
    <2> QED
        BY <1>10, <2>1, <2>3, CommitType DEF GlobalResume
<1>11. CASE Recover
    <2>1. PICK raw \in [Jobs -> Nat], back \in SUBSET Slots :
              /\ position' = [j \in Jobs |-> IF j \in Pending \cup back
                                             THEN Rank(raw, Pending \cup back, j)
                                             ELSE position[j]]
              /\ place' \in [Jobs -> Places]
              /\ UNCHANGED <<priority, created>> /\ Commit
        BY <1>11, RecoverShape
    <2>2. Pending \cup back \in SUBSET Jobs
        BY DEF Pending, Slots
    <2>3. position' \in [Jobs -> Nat]
        BY <2>1, <2>2, RankType
    <2> QED
        BY <2>1, <2>3, CommitType
<1>12. CASE ReadList
    <2>1. revision \in Nat
        BY QueueAssumption
    <2> QED
        BY <1>12, <2>1 DEF ReadList, rows
<1>13. CASE ReadControl
    <2>1. view # NoView /\ view.at \in 0..revision /\ revision \in Nat
        BY <1>13, QueueAssumption DEF ReadControl
    <2>2. view'.at = view.at /\ view'.revision = revision
        BY <1>13, ViewFields DEF ReadControl
    <2> QED
        BY <1>13, <2>1, <2>2 DEF ReadControl, rows
<1>14. ASSUME NEW js \in SUBSET Jobs, NEW ids \in Orders(js), ClientReorders(ids)
      PROVE TypeOK'
    <2>1. Commit
        BY <1>14 DEF ClientReorders, Reorder
    <2>2. position' \in [Jobs -> Nat]
        BY <1>14, ReorderShape
    <2> QED
        BY <1>14, <2>1, <2>2, ReorderShape, CommitType
<1> QED
    BY <1>1, <1>2, <1>3, <1>4, <1>5, <1>6, <1>7, <1>8, <1>9, <1>10, <1>11, <1>12, <1>13,
       <1>14 DEF Next

\* Present jobs are jobs, also after a step.
LEMMA PresentJobs == Present \subseteq Jobs /\ Present' \subseteq Jobs
BY DEF Present

\* Jobs are neither inserted nor renumbered by moving them.
LEMMA NumberedKept ==
    ASSUME Numbered, created' = created,
           \A j \in Jobs : place'[j] = "none" <=> place[j] = "none"
    PROVE  Numbered'
<1>1. Present' = Present
    BY DEF Present
<1> QED
    BY <1>1 DEF Numbered

\* A new job gets the next number.
LEMMA NumberedStep == TypeOK /\ Numbered /\ [Next]_vars => Numbered'
<1> SUFFICES ASSUME TypeOK, Numbered, [Next]_vars PROVE Numbered'
    OBVIOUS
<1>1. CASE UNCHANGED vars
    <2>1. created' = created /\ \A k \in Jobs : place'[k] = "none" <=> place[k] = "none"
        BY <1>1 DEF vars, rows, TypeOK
    <2> QED
        BY <2>1, NumberedKept
<1>2. ASSUME NEW j \in Jobs, Create(j) PROVE Numbered'
    <2>1. Present' = Present \cup {j} /\ j \notin Present
        BY <1>2 DEF Create, Present, TypeOK
    <2>2. {k \in Jobs : created[k] > 0} = Present
        BY DEF Numbered, Present
    <2>3. IsFiniteSet(Present) /\ Cardinality(Present) \in Nat
        BY JobsFinite DEF Present
    <2>4. Cardinality(Present') = Cardinality(Present) + 1
        BY <2>1, <2>3, FS_AddElement
    <2>5. created' = [created EXCEPT ![j] = 1 + Cardinality(Present)]
        BY <1>2, <2>2 DEF Create
    <2>6. \A k \in Present : created[k] \in Nat /\ created[k] <= Cardinality(Present)
        BY RowNumbers DEF Numbered, Present
    <2>7. /\ created'[j] = Cardinality(Present) + 1
          /\ \A k \in Jobs \ {j} : created'[k] = created[k]
        BY <2>3, <2>5 DEF TypeOK
    <2>8. \A k \in Jobs : created'[k] > 0 <=> k \in Present'
        BY <2>1, <2>3, <2>7 DEF Numbered
    <2>9. \A k \in Present' : created'[k] <= Cardinality(Present')
        BY <2>1, <2>3, <2>4, <2>6, <2>7, PresentJobs
    <2>10. \A k, l \in Present' : created'[k] = created'[l] => k = l
        BY <2>1, <2>3, <2>6, <2>7, PresentJobs DEF Numbered
    <2> QED
        BY <2>8, <2>9, <2>10 DEF Numbered
<1>3. ASSUME NEW j \in Jobs, Claim(j) PROVE Numbered'
    <2>1. created' = created /\ \A k \in Jobs : place'[k] = "none" <=> place[k] = "none"
        BY <1>3 DEF Claim, MoveTo, Pending, Waiting, TypeOK
    <2> QED
        BY <2>1, NumberedKept
<1>4. ASSUME NEW j \in Jobs, PausePending(j) PROVE Numbered'
    <2>1. created' = created /\ \A k \in Jobs : place'[k] = "none" <=> place[k] = "none"
        BY <1>4 DEF PausePending, MoveTo, Pending, Waiting, TypeOK
    <2> QED
        BY <2>1, NumberedKept
<1>5. ASSUME NEW j \in Jobs, CancelPending(j) PROVE Numbered'
    <2>1. created' = created /\ \A k \in Jobs : place'[k] = "none" <=> place[k] = "none"
        BY <1>5 DEF CancelPending, MoveTo, Pending, Waiting, TypeOK
    <2> QED
        BY <2>1, NumberedKept
<1>6. ASSUME NEW j \in Jobs, NEW p \in Places, Requeue(j, p) PROVE Numbered'
    <2>1. created' = created /\ \A k \in Jobs : place'[k] = "none" <=> place[k] = "none"
        BY <1>6 DEF Requeue, Append, Slots, Waiting, TypeOK
    <2> QED
        BY <2>1, NumberedKept
<1>7. ASSUME NEW j \in Jobs, NEW p \in Places, LeaveSlot(j, p) PROVE Numbered'
    <2>1. created' = created /\ \A k \in Jobs : place'[k] = "none" <=> place[k] = "none"
        BY <1>7 DEF LeaveSlot, MoveTo, Slots, TypeOK
    <2> QED
        BY <2>1, NumberedKept
<1>8. ASSUME NEW j \in Jobs, NEW p \in Places, Rejoin(j, p) PROVE Numbered'
    <2>1. created' = created /\ \A k \in Jobs : place'[k] = "none" <=> place[k] = "none"
        BY <1>8 DEF Rejoin, Append, Waiting, TypeOK
    <2> QED
        BY <2>1, NumberedKept
<1>9. ASSUME NEW j \in Jobs, NEW p \in Priorities, SetPriority(j, p) PROVE Numbered'
    <2>1. created' = created /\ \A k \in Jobs : place'[k] = "none" <=> place[k] = "none"
        BY <1>9 DEF SetPriority, TypeOK
    <2> QED
        BY <2>1, NumberedKept
<1>10. CASE GlobalResume
    <2>1. created' = created /\ \A k \in Jobs : place'[k] = "none" <=> place[k] = "none"
        BY <1>10 DEF GlobalResume, TypeOK
    <2> QED
        BY <2>1, NumberedKept
<1>11. CASE Recover
    <2>1. created' = created /\ \A j \in Jobs : place'[j] = "none" <=> place[j] = "none"
        BY <1>11, RecoverShape DEF Slots
    <2> QED
        BY <2>1, NumberedKept
<1>12. CASE ReadList
    <2>1. created' = created /\ \A k \in Jobs : place'[k] = "none" <=> place[k] = "none"
        BY <1>12 DEF ReadList, rows, TypeOK
    <2> QED
        BY <2>1, NumberedKept
<1>13. CASE ReadControl
    <2>1. created' = created /\ \A k \in Jobs : place'[k] = "none" <=> place[k] = "none"
        BY <1>13 DEF ReadControl, rows, TypeOK
    <2> QED
        BY <2>1, NumberedKept
<1>14. ASSUME NEW js \in SUBSET Jobs, NEW ids \in Orders(js), ClientReorders(ids)
      PROVE Numbered'
    <2>1. created' = created /\ \A k \in Jobs : place'[k] = "none" <=> place[k] = "none"
        BY <1>14 DEF ClientReorders, Reorder, TypeOK
    <2> QED
        BY <2>1, NumberedKept
<1> QED
    BY <1>1, <1>2, <1>3, <1>4, <1>5, <1>6, <1>7, <1>8, <1>9, <1>10, <1>11, <1>12, <1>13,
       <1>14 DEF Next

\* The page shows what it read.
LEMMA ViewStep == ViewIsRecord /\ [Next]_vars => ViewIsRecord'
<1> SUFFICES ASSUME ViewIsRecord, [Next]_vars PROVE ViewIsRecord'
    OBVIOUS
<1> USE DEF ViewIsRecord
<1>1. CASE UNCHANGED vars
    BY <1>1 DEF vars, rows
<1>2. ASSUME NEW j \in Jobs, Create(j) PROVE ViewIsRecord'
    BY <1>2 DEF Create, Commit, rows, Append, MoveTo
<1>3. ASSUME NEW j \in Jobs, Claim(j) PROVE ViewIsRecord'
    BY <1>3 DEF Claim, MoveTo, Commit, rows, Append, MoveTo
<1>4. ASSUME NEW j \in Jobs, PausePending(j) PROVE ViewIsRecord'
    BY <1>4 DEF PausePending, MoveTo, Commit, rows, Append, MoveTo
<1>5. ASSUME NEW j \in Jobs, CancelPending(j) PROVE ViewIsRecord'
    BY <1>5 DEF CancelPending, MoveTo, Commit, rows, Append, MoveTo
<1>6. ASSUME NEW j \in Jobs, NEW p \in Places, Requeue(j, p) PROVE ViewIsRecord'
    BY <1>6 DEF Requeue, Append, Commit, rows, Append, MoveTo
<1>7. ASSUME NEW j \in Jobs, NEW p \in Places, LeaveSlot(j, p) PROVE ViewIsRecord'
    BY <1>7 DEF LeaveSlot, MoveTo, Commit, rows, Append, MoveTo
<1>8. ASSUME NEW j \in Jobs, NEW p \in Places, Rejoin(j, p) PROVE ViewIsRecord'
    BY <1>8 DEF Rejoin, Append, Commit, rows, Append, MoveTo
<1>9. ASSUME NEW j \in Jobs, NEW p \in Priorities, SetPriority(j, p) PROVE ViewIsRecord'
    BY <1>9 DEF SetPriority, Commit, rows, Append, MoveTo
<1>10. CASE GlobalResume
    BY <1>10 DEF GlobalResume, Commit, rows, Append, MoveTo
<1>11. CASE Recover
    BY <1>11 DEF Recover, Commit, rows, Append, MoveTo
<1>12. CASE ReadList
    BY <1>12 DEF ReadList, Commit, rows, Append, MoveTo
<1>13. CASE ReadControl
    <2>1. view' = [view EXCEPT !.revision = revision] /\ view # NoView
        BY <1>13 DEF ReadControl
    <2> QED
        BY <2>1
<1>14. ASSUME NEW js \in SUBSET Jobs, NEW ids \in Orders(js), ClientReorders(ids)
      PROVE ViewIsRecord'
    BY <1>14 DEF ClientReorders, Reorder, Commit, rows, Append, MoveTo
<1> QED
    BY <1>1, <1>2, <1>3, <1>4, <1>5, <1>6, <1>7, <1>8, <1>9, <1>10, <1>11, <1>12, <1>13,
       <1>14 DEF Next

\* No trigger fires where no row of the queue changes.
LEMMA TableKept ==
    ASSUME ~TriggerFires
    PROVE  Table' = Table
<1>1. \A j \in Jobs : place[j] \in Waiting \/ place'[j] \in Waiting =>
          place'[j] = place[j] /\ priority'[j] = priority[j] /\ position'[j] = position[j]
    BY DEF TriggerFires
<1>2. Pending' = Pending
    BY <1>1 DEF Pending
<1>3. \A j \in Pending : <<place'[j], priority'[j], position'[j]>>
                         = <<place[j], priority[j], position[j]>>
    BY <1>1 DEF Pending
<1> QED
    BY <1>2, <1>3 DEF Table

\* A change that a trigger saw leaves every earlier revision behind.
LEMMA CommitNames ==
    ASSUME TypeOK, RevisionNamesTheQueue, Commit
    PROVE  RevisionNamesTheQueue'
<1>1. view' = view
    BY DEF Commit
<1>2. CASE TriggerFires
    <2>1. revision \in Nat /\ revision' = revision + 1
        BY <1>2, QueueAssumption DEF TypeOK, Commit
    <2>2. view # NoView => view.at \in Nat /\ view.at <= revision
        BY <2>1 DEF TypeOK
    <2> QED
        BY <1>1, <2>1, <2>2 DEF RevisionNamesTheQueue
<1>3. CASE ~TriggerFires
    BY <1>1, <1>3, TableKept DEF RevisionNamesTheQueue, Commit
<1> QED
    BY <1>2, <1>3

\* Every operation commits its change together with the triggers' count.
LEMMA RevisionStep ==
    TypeOK /\ ViewIsRecord /\ RevisionNamesTheQueue /\ [Next]_vars => RevisionNamesTheQueue'
<1> SUFFICES ASSUME TypeOK, ViewIsRecord, RevisionNamesTheQueue, [Next]_vars
             PROVE RevisionNamesTheQueue'
    OBVIOUS
<1>1. CASE UNCHANGED vars
    BY <1>1 DEF vars, rows, RevisionNamesTheQueue, Table, Pending
<1>2. ASSUME NEW j \in Jobs, Create(j) PROVE RevisionNamesTheQueue'
    <2>1. Commit
        BY <1>2 DEF Create
    <2> QED
        BY <2>1, CommitNames
<1>3. ASSUME NEW j \in Jobs, Claim(j) PROVE RevisionNamesTheQueue'
    <2>1. Commit
        BY <1>3 DEF Claim
    <2> QED
        BY <2>1, CommitNames
<1>4. ASSUME NEW j \in Jobs, PausePending(j) PROVE RevisionNamesTheQueue'
    <2>1. Commit
        BY <1>4 DEF PausePending
    <2> QED
        BY <2>1, CommitNames
<1>5. ASSUME NEW j \in Jobs, CancelPending(j) PROVE RevisionNamesTheQueue'
    <2>1. Commit
        BY <1>5 DEF CancelPending
    <2> QED
        BY <2>1, CommitNames
<1>6. ASSUME NEW j \in Jobs, NEW p \in Places, Requeue(j, p) PROVE RevisionNamesTheQueue'
    <2>1. Commit
        BY <1>6 DEF Requeue
    <2> QED
        BY <2>1, CommitNames
<1>7. ASSUME NEW j \in Jobs, NEW p \in Places, LeaveSlot(j, p) PROVE RevisionNamesTheQueue'
    <2>1. Commit
        BY <1>7 DEF LeaveSlot
    <2> QED
        BY <2>1, CommitNames
<1>8. ASSUME NEW j \in Jobs, NEW p \in Places, Rejoin(j, p) PROVE RevisionNamesTheQueue'
    <2>1. Commit
        BY <1>8 DEF Rejoin
    <2> QED
        BY <2>1, CommitNames
<1>9. ASSUME NEW j \in Jobs, NEW p \in Priorities, SetPriority(j, p)
      PROVE RevisionNamesTheQueue'
    <2>1. Commit
        BY <1>9 DEF SetPriority
    <2> QED
        BY <2>1, CommitNames
<1>10. CASE GlobalResume
    <2>1. Commit
        BY <1>10 DEF GlobalResume
    <2> QED
        BY <2>1, CommitNames
<1>11. CASE Recover
    <2>1. Commit
        BY <1>11, RecoverShape
    <2> QED
        BY <2>1, CommitNames
<1>12. CASE ReadList
    <2>1. Table' = Table /\ view'.table = Table
        BY <1>12 DEF ReadList, rows, Table, Pending
    <2> QED
        BY <2>1 DEF RevisionNamesTheQueue
<1>13. CASE ReadControl
    <2>1. Table' = Table /\ revision' = revision /\ view # NoView
        BY <1>13 DEF ReadControl, rows, Table, Pending
    <2> QED
        BY <1>13, <2>1, ViewFields DEF RevisionNamesTheQueue
<1>14. ASSUME NEW js \in SUBSET Jobs, NEW ids \in Orders(js), ClientReorders(ids)
      PROVE RevisionNamesTheQueue'
    <2>1. Commit
        BY <1>14 DEF ClientReorders, Reorder
    <2> QED
        BY <2>1, CommitNames
<1> QED
    BY <1>1, <1>2, <1>3, <1>4, <1>5, <1>6, <1>7, <1>8, <1>9, <1>10, <1>11, <1>12, <1>13,
       <1>14 DEF Next

\* Moving a job out of the queue takes no position.
LEMMA LeavingKeepsPositions ==
    ASSUME PositionsDiffer, position' = position, Pending' \subseteq Pending
    PROVE  PositionsDiffer'
BY DEF PositionsDiffer

\* Joining the queue at its end takes a free one.
LEMMA JoiningTakesFreePosition ==
    ASSUME TypeOK, PositionsDiffer, NEW j \in Jobs, Pending' = Pending \cup {j},
           j \notin Pending, position' = [position EXCEPT ![j] = Last + 1]
    PROVE  PositionsDiffer'
<1>1. \A k \in Pending : k \in Jobs /\ k # j /\ position'[k] = position[k] /\ position[k] \in Nat
    BY DEF TypeOK, Pending
<1>2. position'[j] = Last + 1 /\ Last \in Nat /\ \A k \in Pending : position[k] <= Last
    BY LastBounds DEF TypeOK
<1> QED
    BY <1>1, <1>2 DEF PositionsDiffer

\* So does being ranked.
LEMMA RankingDiffers ==
    ASSUME TypeOK, Numbered, NEW js \in SUBSET Present, NEW pos \in [Jobs -> Nat],
           Pending' = js, \A j \in js : position'[j] = Rank(pos, js, j)
    PROVE  PositionsDiffer'
BY RanksDiffer DEF PositionsDiffer

\* Every way into the queue takes a position of its own.
LEMMA PositionsStep ==
    TypeOK /\ Numbered /\ PositionsDiffer /\ [Next]_vars => PositionsDiffer'
<1> SUFFICES ASSUME TypeOK, Numbered, PositionsDiffer, [Next]_vars PROVE PositionsDiffer'
    OBVIOUS
<1>1. CASE UNCHANGED vars
    <2>1. position' = position /\ Pending' \subseteq Pending
        BY <1>1 DEF vars, rows, Pending, Waiting, TypeOK
    <2> QED
        BY <2>1, LeavingKeepsPositions
<1>2. ASSUME NEW j \in Jobs, Create(j) PROVE PositionsDiffer'
    <2>1. /\ Pending' = Pending \cup {j} /\ j \notin Pending
          /\ position' = [position EXCEPT ![j] = Last + 1]
        BY <1>2 DEF Create, Pending, Waiting, TypeOK
    <2> QED
        BY <2>1, JoiningTakesFreePosition
<1>3. ASSUME NEW j \in Jobs, Claim(j) PROVE PositionsDiffer'
    <2>1. position' = position /\ Pending' \subseteq Pending
        BY <1>3 DEF Claim, MoveTo, Pending, Waiting, TypeOK
    <2> QED
        BY <2>1, LeavingKeepsPositions
<1>4. ASSUME NEW j \in Jobs, PausePending(j) PROVE PositionsDiffer'
    <2>1. position' = position /\ Pending' \subseteq Pending
        BY <1>4 DEF PausePending, MoveTo, Pending, Waiting, TypeOK
    <2> QED
        BY <2>1, LeavingKeepsPositions
<1>5. ASSUME NEW j \in Jobs, CancelPending(j) PROVE PositionsDiffer'
    <2>1. position' = position /\ Pending' \subseteq Pending
        BY <1>5 DEF CancelPending, MoveTo, Pending, Waiting, TypeOK
    <2> QED
        BY <2>1, LeavingKeepsPositions
<1>6. ASSUME NEW j \in Jobs, NEW p \in Places, Requeue(j, p) PROVE PositionsDiffer'
    <2>1. /\ Pending' = Pending \cup {j} /\ j \notin Pending
          /\ position' = [position EXCEPT ![j] = Last + 1]
        BY <1>6 DEF Requeue, Append, Slots, Pending, Waiting, TypeOK
    <2> QED
        BY <2>1, JoiningTakesFreePosition
<1>7. ASSUME NEW j \in Jobs, NEW p \in Places, LeaveSlot(j, p) PROVE PositionsDiffer'
    <2>1. position' = position /\ Pending' \subseteq Pending
        BY <1>7 DEF LeaveSlot, MoveTo, Slots, Pending, Waiting, TypeOK
    <2> QED
        BY <2>1, LeavingKeepsPositions
<1>8. ASSUME NEW j \in Jobs, NEW p \in Places, Rejoin(j, p) PROVE PositionsDiffer'
    <2>1. /\ Pending' = Pending \cup {j} /\ j \notin Pending
          /\ position' = [position EXCEPT ![j] = Last + 1]
        BY <1>8 DEF Rejoin, Append, Pending, Waiting, TypeOK
    <2> QED
        BY <2>1, JoiningTakesFreePosition
<1>9. ASSUME NEW j \in Jobs, NEW p \in Priorities, SetPriority(j, p) PROVE PositionsDiffer'
    <2>1. position' = position /\ Pending' \subseteq Pending
        BY <1>9 DEF SetPriority, Pending, Waiting, TypeOK
    <2> QED
        BY <2>1, LeavingKeepsPositions
<1>10. CASE GlobalResume
    <2> DEFINE js == {j \in Jobs : place[j] = "paused_global"}
    <2>1. /\ Pending' = Pending \cup js /\ Pending \cap js = {}
          /\ \A j \in Pending : position'[j] = position[j]
          /\ \A j \in js : position'[j] = Last + Rank(position, js, j)
        BY <1>10 DEF GlobalResume, Pending, Waiting, TypeOK
    <2>2. /\ Last \in Nat /\ \A j \in Pending : position[j] <= Last
          /\ \A j \in Pending : position[j] \in Nat
        BY LastBounds DEF TypeOK, Pending
    <2>3. \A j \in js : Rank(position, js, j) \in Nat /\ Rank(position, js, j) >= 1
        BY RankType
    <2>4. \A j, k \in js : Rank(position, js, j) = Rank(position, js, k) => j = k
        <3>1. js \in SUBSET Present /\ position \in [Jobs -> Nat]
            BY DEF Present, TypeOK
        <3> HIDE DEF js
        <3> QED
            BY <3>1, RanksDiffer
    <2>5. \A j, k \in Pending' : position'[j] = position'[k] => j = k
        <3> HIDE DEF js
        <3> QED
            BY <2>1, <2>2, <2>3, <2>4 DEF PositionsDiffer
    <2> QED
        BY <2>5 DEF PositionsDiffer
<1>11. CASE Recover
    <2>1. PICK raw \in [Jobs -> Nat], back \in SUBSET Slots :
              /\ Pending' = Pending \cup back
              /\ position' = [j \in Jobs |-> IF j \in Pending \cup back
                                             THEN Rank(raw, Pending \cup back, j)
                                             ELSE position[j]]
        BY <1>11, RecoverShape
    <2>2. Pending \cup back \in SUBSET Present
        BY DEF Pending, Slots, Present, Waiting
    <2>3. \A j \in Pending \cup back : position'[j] = Rank(raw, Pending \cup back, j)
        BY <2>1, <2>2, PresentJobs
    <2> QED
        BY <2>1, <2>2, <2>3, RankingDiffers
<1>12. CASE ReadList
    <2>1. position' = position /\ Pending' \subseteq Pending
        BY <1>12 DEF ReadList, rows, Pending, Waiting, TypeOK
    <2> QED
        BY <2>1, LeavingKeepsPositions
<1>13. CASE ReadControl
    <2>1. position' = position /\ Pending' \subseteq Pending
        BY <1>13 DEF ReadControl, rows, Pending, Waiting, TypeOK
    <2> QED
        BY <2>1, LeavingKeepsPositions
<1>14. ASSUME NEW js \in SUBSET Jobs, NEW ids \in Orders(js), ClientReorders(ids)
      PROVE PositionsDiffer'
    <2>1. /\ js \in SUBSET Pending /\ Pending' = Pending
          /\ \A j \in Pending : position'[j] = NewRank(ids, j)
        BY <1>14, ReorderShape DEF Pending
    <2>2. \A k, m \in Pending : RankNow(k) = RankNow(m) => k = m
        BY RanksDiffer DEF RankNow, Pending, Present, Waiting, TypeOK
    <2>3. SUFFICES ASSUME NEW j \in Pending, NEW k \in Pending, NewRank(ids, j) = NewRank(ids, k)
                   PROVE  j = k
        BY <2>1 DEF PositionsDiffer
    <2>4. \A l \in js : \E i \in DOMAIN ids : l = ids[i]
        BY OrderNamesOnce
    <2>5. CASE j \in js /\ k \in js
        <3>1. PICK i \in DOMAIN ids, n \in DOMAIN ids : j = ids[i] /\ k = ids[n]
            BY <2>4, <2>5
        <3>2. PICK l \in js : NewRank(ids, j) = RankNow(l) /\ UpTo(js, l) = i
            BY <2>1, <3>1, NewRankOf
        <3>3. PICK m \in js : NewRank(ids, k) = RankNow(m) /\ UpTo(js, m) = n
            BY <2>1, <3>1, NewRankOf
        <3>4. l = m
            BY <2>1, <2>2, <2>3, <3>2, <3>3
        <3> QED
            BY <3>1, <3>2, <3>3, <3>4
    <2>6. ASSUME NEW l \in Pending \ js, NEW m \in js PROVE NewRank(ids, l) # NewRank(ids, m)
        <3>1. PICK i \in DOMAIN ids : m = ids[i]
            BY <2>4
        <3>2. PICK h \in js : NewRank(ids, m) = RankNow(h)
            BY <2>1, <3>1, NewRankOf
        <3>3. NewRank(ids, l) = RankNow(l)
            BY <2>1, NewRankOf
        <3> QED
            BY <2>1, <2>2, <3>2, <3>3
    <2>7. CASE j \notin js /\ k \notin js
        BY <2>1, <2>2, <2>3, <2>7, NewRankOf
    <2> QED
        BY <2>3, <2>5, <2>6, <2>7
<1> QED
    BY <1>1, <1>2, <1>3, <1>4, <1>5, <1>6, <1>7, <1>8, <1>9, <1>10, <1>11, <1>12, <1>13,
       <1>14 DEF Next

\* A step in which one job overtakes another without being asked to, or joins the queue
\* ahead of one.
Overtakes(j, k) ==
    /\ StaysPending(j) /\ StaysPending(k)
    /\ priority[j] = priority[k] /\ priority' = priority
    /\ position[j] < position[k] /\ position'[j] > position'[k]
Reordered == \E js \in SUBSET Jobs : \E ids \in Orders(js) : ClientReorders(ids)
OrderIsKept ==
    \A j, k \in Jobs :
        /\ Overtakes(j, k) => Reordered
        /\ Joins(j) /\ StaysPending(k) => position'[j] > position'[k]

\* The order is kept where no position changes in the queue and whoever joins comes last.
LEMMA OrderKept ==
    ASSUME TypeOK, \A j \in Jobs : StaysPending(j) => position'[j] = position[j],
           \A j, k \in Jobs : Joins(j) /\ StaysPending(k) => position'[j] > position'[k]
    PROVE  OrderIsKept
BY RowNumbers DEF OrderIsKept, Overtakes

\* Only a reorder lets a job overtake another, and whoever joins comes last.
LEMMA OrderStep == TypeOK /\ Numbered /\ [Next]_vars => OrderIsKept
<1> SUFFICES ASSUME TypeOK, Numbered, [Next]_vars PROVE OrderIsKept
    OBVIOUS
<1>1. CASE UNCHANGED vars
    <2>1. position' = position /\ \A k \in Jobs : ~Joins(k)
        BY <1>1 DEF vars, rows, Joins, Pending, Waiting, TypeOK
    <2> QED
        BY <2>1, OrderKept
<1>2. ASSUME NEW j \in Jobs, Create(j) PROVE OrderIsKept
    <2>1. \A k \in Jobs : (Joins(k) => k = j) /\ (StaysPending(k) => k # j)
        BY <1>2 DEF Create, Joins, StaysPending, Pending, Waiting, TypeOK
    <2>2. position'[j] = Last + 1 /\ \A k \in Jobs \ {j} : position'[k] = position[k]
        BY <1>2 DEF Create, TypeOK
    <2>3. /\ Last \in Nat
          /\ \A k \in Jobs : StaysPending(k) => position[k] \in Nat /\ position[k] <= Last
        BY LastBounds, RowNumbers DEF StaysPending
    <2> QED
        BY <2>1, <2>2, <2>3, OrderKept
<1>3. ASSUME NEW j \in Jobs, Claim(j) PROVE OrderIsKept
    <2>1. position' = position /\ \A k \in Jobs : ~Joins(k)
        BY <1>3 DEF Claim, MoveTo, Joins, Pending, Waiting, TypeOK
    <2> QED
        BY <2>1, OrderKept
<1>4. ASSUME NEW j \in Jobs, PausePending(j) PROVE OrderIsKept
    <2>1. position' = position /\ \A k \in Jobs : ~Joins(k)
        BY <1>4 DEF PausePending, MoveTo, Joins, Pending, Waiting, TypeOK
    <2> QED
        BY <2>1, OrderKept
<1>5. ASSUME NEW j \in Jobs, CancelPending(j) PROVE OrderIsKept
    <2>1. position' = position /\ \A k \in Jobs : ~Joins(k)
        BY <1>5 DEF CancelPending, MoveTo, Joins, Pending, Waiting, TypeOK
    <2> QED
        BY <2>1, OrderKept
<1>6. ASSUME NEW j \in Jobs, NEW p \in Places, Requeue(j, p) PROVE OrderIsKept
    <2>1. \A k \in Jobs : ~Joins(k) /\ (StaysPending(k) => k # j)
        BY <1>6 DEF Requeue, Append, Slots, Joins, StaysPending, Pending, Waiting, TypeOK
    <2>2. \A k \in Jobs \ {j} : position'[k] = position[k]
        BY <1>6 DEF Requeue, Append, TypeOK
    <2> QED
        BY <2>1, <2>2, OrderKept
<1>7. ASSUME NEW j \in Jobs, NEW p \in Places, LeaveSlot(j, p) PROVE OrderIsKept
    <2>1. position' = position /\ \A k \in Jobs : ~Joins(k)
        BY <1>7 DEF LeaveSlot, MoveTo, Joins, Pending, Waiting, TypeOK
    <2> QED
        BY <2>1, OrderKept
<1>8. ASSUME NEW j \in Jobs, NEW p \in Places, Rejoin(j, p) PROVE OrderIsKept
    <2>1. \A k \in Jobs : (Joins(k) => k = j) /\ (StaysPending(k) => k # j)
        BY <1>8 DEF Rejoin, Append, Joins, StaysPending, Pending, Waiting, TypeOK
    <2>2. position'[j] = Last + 1 /\ \A k \in Jobs \ {j} : position'[k] = position[k]
        BY <1>8 DEF Rejoin, Append, TypeOK
    <2>3. /\ Last \in Nat
          /\ \A k \in Jobs : StaysPending(k) => position[k] \in Nat /\ position[k] <= Last
        BY LastBounds, RowNumbers DEF StaysPending
    <2> QED
        BY <2>1, <2>2, <2>3, OrderKept
<1>9. ASSUME NEW j \in Jobs, NEW p \in Priorities, SetPriority(j, p) PROVE OrderIsKept
    <2>1. position' = position /\ \A k \in Jobs : ~Joins(k)
        BY <1>9 DEF SetPriority, Joins, Pending, Waiting, TypeOK
    <2> QED
        BY <2>1, OrderKept
<1>10. CASE GlobalResume
    <2> DEFINE js == {j \in Jobs : place[j] = "paused_global"}
    <2>1. /\ \A k \in Jobs : (Joins(k) => k \in js) /\ (StaysPending(k) => k \notin js)
          /\ \A k \in js : position'[k] = Last + Rank(position, js, k)
          /\ \A k \in Jobs \ js : position'[k] = position[k]
        BY <1>10 DEF GlobalResume, Joins, StaysPending, Pending, Waiting, TypeOK
    <2>2. \A k \in js : Rank(position, js, k) \in Nat /\ Rank(position, js, k) >= 1
        BY RankType
    <2>3. /\ Last \in Nat
          /\ \A k \in Jobs : StaysPending(k) => position[k] \in Nat /\ position[k] <= Last
        BY LastBounds, RowNumbers DEF StaysPending
    <2>4. \A j, k \in Jobs : Joins(j) /\ StaysPending(k) => position'[j] > position'[k]
        <3> HIDE DEF js
        <3> QED
            BY <2>1, <2>2, <2>3
    <2>5. \A k \in Jobs : StaysPending(k) => position'[k] = position[k]
        <3> HIDE DEF js
        <3> QED
            BY <2>1
    <2> QED
        BY <2>4, <2>5, OrderKept
<1>11. CASE Recover
    <2>1. PICK raw \in [Jobs -> Nat], back \in SUBSET Slots :
              /\ \A j \in Pending : raw[j] = position[j]
              /\ position' = [j \in Jobs |-> IF j \in Pending \cup back
                                             THEN Rank(raw, Pending \cup back, j)
                                             ELSE position[j]]
              /\ \A j \in Jobs \ Slots : place'[j] = place[j]
        BY <1>11, RecoverShape
    <2>2. \A j \in Jobs : ~Joins(j)
        BY <2>1 DEF Joins, Slots, Pending
    <2>3. ASSUME NEW j \in Jobs, NEW k \in Jobs, Overtakes(j, k) PROVE FALSE
        <3>1. j \in Pending /\ k \in Pending /\ Pending \cup back \in SUBSET Jobs
            BY <2>3 DEF Overtakes, StaysPending, Pending, Slots
        <3>2. Ahead(raw, j, k)
            BY <2>1, <2>3, <3>1 DEF Overtakes, Ahead
        <3>3. Rank(raw, Pending \cup back, j) < Rank(raw, Pending \cup back, k)
            BY <3>1, <3>2, RankOrder
        <3>4. position'[j] < position'[k] /\ position'[j] \in Nat /\ position'[k] \in Nat
            BY <2>1, <3>1, <3>3, RankType
        <3> QED
            BY <2>3, <3>4 DEF Overtakes
    <2> QED
        BY <2>2, <2>3 DEF OrderIsKept
<1>12. CASE ReadList
    <2>1. position' = position /\ \A k \in Jobs : ~Joins(k)
        BY <1>12 DEF ReadList, rows, Joins, Pending, Waiting, TypeOK
    <2> QED
        BY <2>1, OrderKept
<1>13. CASE ReadControl
    <2>1. position' = position /\ \A k \in Jobs : ~Joins(k)
        BY <1>13 DEF ReadControl, rows, Joins, Pending, Waiting, TypeOK
    <2> QED
        BY <2>1, OrderKept
<1>14. ASSUME NEW js \in SUBSET Jobs, NEW ids \in Orders(js), ClientReorders(ids)
      PROVE OrderIsKept
    <2>1. Reordered
        BY <1>14 DEF Reordered
    <2>2. place' = place
        BY <1>14, ReorderShape
    <2>3. \A j \in Jobs : ~Joins(j)
        BY <2>2 DEF Joins, Pending
    <2> QED
        BY <2>1, <2>3 DEF OrderIsKept
<1> QED
    BY <1>1, <1>2, <1>3, <1>4, <1>5, <1>6, <1>7, <1>8, <1>9, <1>10, <1>11, <1>12, <1>13,
       <1>14 DEF Next

\* What a client asks for in a reorder.
Honoured(js, ids) ==
    /\ \A i, n \in DOMAIN ids : i < n => position'[ids[i]] < position'[ids[n]]
    /\ \A j, k \in Pending \ js : Ahead(position, j, k) => position'[j] < position'[k]

\* The list's order becomes the queue's, around the jobs that it does not name.
LEMMA ReorderHonoured ==
    ASSUME TypeOK, Numbered, NEW js \in SUBSET Jobs, NEW ids \in Orders(js), ClientReorders(ids)
    PROVE  Honoured(js, ids)
<1>1. /\ js \in SUBSET Pending /\ Pending \in SUBSET Jobs
      /\ \A j \in Pending : position'[j] = NewRank(ids, j)
    BY ReorderShape DEF Pending
<1>2. DOMAIN ids = 1..Cardinality(js) /\ \A i \in DOMAIN ids : ids[i] \in js
    BY OrderNamesOnce
<1>3. ASSUME NEW i \in DOMAIN ids, NEW n \in DOMAIN ids, i < n
      PROVE  position'[ids[i]] < position'[ids[n]]
    <2>1. PICK l \in js : NewRank(ids, ids[i]) = RankNow(l) /\ UpTo(js, l) = i
        BY <1>1, NewRankOf
    <2>2. PICK m \in js : NewRank(ids, ids[n]) = RankNow(m) /\ UpTo(js, m) = n
        BY <1>1, NewRankOf
    <2>3. RankNow(l) \in Nat /\ RankNow(m) \in Nat
        BY <1>1, RankType DEF RankNow
    <2>4. i \in Nat /\ n \in Nat
        BY <1>2, JobsFinite
    <2>5. l # m
        BY <1>3, <2>1, <2>2, <2>4
    <2>6. RankNow(l) # RankNow(m)
        BY <1>1, <2>5, RanksDiffer DEF RankNow, Pending, Present, Waiting, TypeOK
    <2>7. ~(RankNow(m) < RankNow(l))
        BY <1>1, <1>3, <2>1, <2>2, <2>4, UpToOrder
    <2> QED
        BY <1>1, <1>2, <2>1, <2>2, <2>3, <2>6, <2>7
<1>4. ASSUME NEW j \in Pending \ js, NEW k \in Pending \ js, Ahead(position, j, k)
      PROVE  position'[j] < position'[k]
    <2>1. position'[j] = RankNow(j) /\ position'[k] = RankNow(k)
        BY <1>1, NewRankOf
    <2>2. Rank(position, Pending, j) < Rank(position, Pending, k)
        BY <1>1, <1>4, RankOrder DEF TypeOK
    <2> QED
        BY <2>1, <2>2 DEF RankNow
<1> QED
    BY <1>3, <1>4 DEF Honoured

--------------------------------------------------------------------------------

\* Nothing is in the queue at first.
LEMMA InitIInv == Init => IInv
<1> SUFFICES ASSUME Init PROVE IInv
    OBVIOUS
<1>1. Cardinality(Jobs) \in Nat
    BY JobsFinite
<1>2. TypeOK
    BY <1>1, QueueAssumption DEF Init, TypeOK, Places, Waiting
<1>3. Numbered /\ PositionsDiffer
    BY DEF Init, Numbered, Present, PositionsDiffer, Pending, Waiting
<1>4. ViewIsRecord /\ RevisionNamesTheQueue
    BY DEF Init, ViewIsRecord, RevisionNamesTheQueue
<1> QED
    BY <1>2, <1>3, <1>4 DEF IInv

\* The invariant is inductive.
LEMMA StepIInv == IInv /\ [Next]_vars => IInv'
BY TypeStep, NumberedStep, ViewStep, PositionsStep, RevisionStep DEF IInv

\* The five parts of IInv hold in every state, for every set of jobs and priorities.
THEOREM QueueInvariant == Spec => []IInv
<1>1. Init => IInv
    BY InitIInv
<1>2. IInv /\ [Next]_vars => IInv'
    BY StepIInv
<1> QED
    BY <1>1, <1>2, PTL DEF Spec

\* Types: positions stay numbers through every append, ranking and renumbering.
THEOREM QueueTypeCorrect == Spec => []TypeOK
<1>1. IInv => TypeOK
    BY DEF IInv
<1> QED
    BY <1>1, QueueInvariant, PTL

\* No two pending jobs share a position, whatever joins, leaves, is interrupted or reordered.
THEOREM PositionsNeverCollide == Spec => []PositionsDiffer
<1>1. IInv => PositionsDiffer
    BY DEF IInv
<1> QED
    BY <1>1, QueueInvariant, PTL

\* A revision names one queue: what the triggers do not count is no change of it.
THEOREM RevisionsNameTheQueue == Spec => []RevisionNamesTheQueue
<1>1. IInv => RevisionNamesTheQueue
    BY DEF IInv
<1> QED
    BY <1>1, QueueInvariant, PTL

\* Of two jobs of one priority none overtakes the other unless a reorder says so, and
\* whoever joins the queue comes behind everybody in it.
THEOREM NobodyOvertakes == Spec => OvertakingIsAsked
<1> DEFINE Asked ==
        \A j, k \in Jobs :
            /\ StaysPending(j) /\ StaysPending(k)
               /\ priority[j] = priority[k] /\ priority' = priority
               /\ position[j] < position[k] /\ position'[j] > position'[k]
               => \E js \in SUBSET Jobs : \E ids \in Orders(js) : ClientReorders(ids)
            /\ Joins(j) /\ StaysPending(k) => position'[j] > position'[k]
<1>1. OrderIsKept => Asked
    BY DEF OrderIsKept, Overtakes, Reordered
<1>2. []IInv /\ [][Next]_vars => [][Asked]_vars
    <2>1. IInv /\ [Next]_vars => [OrderIsKept]_vars
        BY OrderStep DEF IInv
    <2>2. IInv /\ [Next]_vars => [Asked]_vars
        BY <1>1, <2>1
    <2> HIDE DEF Asked
    <2> QED
        BY <2>2, PTL
<1> QED
    BY <1>2, QueueInvariant DEF Spec, OvertakingIsAsked

\* A reorder gives the named jobs the order of its list, and the others keep theirs.
THEOREM ReordersAreHonoured == Spec => ReorderIsHonoured
<1> DEFINE AllHonoured == \A js \in SUBSET Jobs : \A ids \in Orders(js) :
                              ClientReorders(ids) => Honoured(js, ids)
<1>1. []IInv /\ [][Next]_vars => [][AllHonoured]_vars
    <2>1. IInv /\ [Next]_vars => [AllHonoured]_vars
        BY ReorderHonoured DEF IInv
    <2> QED
        BY <2>1, PTL
<1> QED
    BY <1>1, QueueInvariant DEF Spec, ReorderIsHonoured, Honoured
================================================================================
