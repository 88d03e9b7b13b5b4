------------------------ MODULE NotificationOutboxProofs ------------------------
(***************************************************************************)
(* Theorems about NotificationOutbox: its type invariant, and the safety   *)
(* properties of deliveries, for any number of events, adapters and        *)
(* dispatcher threads and any max_attempts.                                *)
(***************************************************************************)
EXTENDS NotificationOutbox, FiniteSetTheorems, TLAPS

\* The counters of the run are numbers.
HistoryOK ==
    /\ tries \in [Deliveries -> Nat] /\ confirmed \in [Deliveries -> Nat]
    /\ recoveries \in [Deliveries -> Nat] /\ revived \in [Deliveries -> Nat]

Delivers(w, d) == claim[w] # NoClaim /\ claim[w].row = d

\* Every try since the last manual retry is counted in attempt_count.
TriesCounted == \A d \in Deliveries : tries[d] <= MaxAttempts * revived[d] + attempts[d]

\* A claim that is no longer current was taken back by a recovery.
StaleWasRecovered ==
    \A w \in Workers : claim[w] # NoClaim /\ ~Current(w) => recoveries[claim[w].row] > 0

\* An answer that was not yet stored is known to the history.
AnswersConfirmed ==
    /\ \A w \in Workers : claim[w] # NoClaim /\ claim[w].answer = "ok"
                          => confirmed[claim[w].row] > 0
    /\ DeliveredWasConfirmed

\* The sends of a delivery that are under way, and whether the current one has failed.
Unanswered(d) == {w \in Workers : Delivers(w, d) /\ claim[w].answer = "none"}
Spent(d) == \E w \in Workers :
                Delivers(w, d) /\ Current(w) /\ claim[w].answer \in {"retry", "dead"}

\* One confirmation is free, to a row that is delivered or may become so; the others, and
\* those that sends under way may still bring, each have a recovery.
MayDeliver(d) == state[d] = "delivered" \/ (state[d] = "inflight" /\ ~Spent(d))
Allowed(d) == recoveries[d] + (IF MayDeliver(d) THEN 1 ELSE 0)
Accounted == \A d \in Deliveries : confirmed[d] + Cardinality(Unanswered(d)) <= Allowed(d)

\* What is owed and has no row yet is going to be found by the backfill, unless it is not
\* among the newest MaxBackfill.
Backfillable ==
    /\ reconciled => registry = configured
    /\ \A d \in owed :
          /\ d \in Deliveries /\ d[2] \in configured
          /\ state[d] = "none" /\ newer[d[1]] < MaxBackfill
                => ~reconciled /\ d[1] \in recent /\ d[2] \notin registry

IInv == /\ TypeOK /\ HistoryOK
        /\ TriesCounted /\ StaleWasRecovered /\ AnswersConfirmed
        /\ Accounted /\ Backfillable

--------------------------------------------------------------------------------

\* Nothing is recorded, claimed or counted at first.
LEMMA InitIInv == Init => IInv
<1> SUFFICES ASSUME Init PROVE IInv
    OBVIOUS
<1>1. TypeOK
    <2>1. /\ attempts \in [Deliveries -> 0..MaxAttempts]
          /\ newer \in [Events -> 0..MaxBackfill]
        BY OutboxAssumption DEF Init
    <2> QED
        BY <2>1 DEF Init, TypeOK
<1>5. HistoryOK
    BY DEF Init, HistoryOK
<1>2. TriesCounted
    BY OutboxAssumption DEF Init, TriesCounted
<1>3. StaleWasRecovered /\ AnswersConfirmed /\ Backfillable
    BY DEF Init, StaleWasRecovered, AnswersConfirmed, DeliveredWasConfirmed, Backfillable
<1>4. Accounted
    <2>1. \A d \in Deliveries : Unanswered(d) = {}
        BY DEF Init, Unanswered, Delivers
    <2> QED
        BY <2>1, FS_EmptySet DEF Init, Accounted, Allowed, MayDeliver
<1> QED
    BY <1>1, <1>2, <1>3, <1>4, <1>5 DEF IInv

\* A row that may be claimed has a try left, and is pending or taken back from its worker.
LEMMA ClaimableRow ==
    ASSUME TypeOK, NEW d \in Deliveries, Claimable(d)
    PROVE  /\ attempts[d] + 1 \in 1..MaxAttempts
           /\ state[d] = "pending" \/ d \in Expired
BY OutboxAssumption DEF TypeOK, Claimable, Swept, Expired

\* A lease runs out on a row in flight only.
LEMMA ExpiredInFlight ==
    ASSUME TypeOK, NEW d \in Deliveries, d \in Expired
    PROVE  state[d] = "inflight"
BY DEF TypeOK, Expired

\* The sweep takes rows back or closes them, and gives no row an attempt.
LEMMA SweptRow ==
    ASSUME TypeOK, NEW d \in Deliveries
    PROVE  /\ Swept(d) \in {"none", "pending", "inflight", "delivered", "dead"}
           /\ Swept(d) = "inflight" => state[d] = "inflight" /\ d \notin Expired
           /\ state[d] = "inflight" /\ d \notin Expired => Swept(d) = "inflight"
           /\ Swept(d) = "delivered" <=> state[d] = "delivered"
           /\ Swept(d) = "none" <=> state[d] = "none"
           /\ state[d] = "dead" => Swept(d) = "dead"
BY ExpiredInFlight DEF TypeOK, Swept

\* What a claim takes is a claim.
LEMMA ClaimTaken ==
    ASSUME TypeOK, NEW w \in Workers, NEW d \in Deliveries, Claim(w, d)
    PROVE  /\ claim' = [claim EXCEPT ![w] =
                           [row |-> d, attempt |-> attempts[d] + 1, answer |-> "none"]]
           /\ [row |-> d, attempt |-> attempts[d] + 1, answer |-> "none"] \in Claims
           /\ [row |-> d, attempt |-> attempts[d] + 1, answer |-> "none"] # NoClaim
<1>1. [row |-> d, attempt |-> attempts[d] + 1, answer |-> "none"] \in Claims
    BY ClaimableRow DEF Claim, Claims
<1> QED
    BY <1>1, NoClaimAssumption DEF Claim

\* Events only become older.
LEMMA OneMoreNewer ==
    ASSUME TypeOK, OneMoreIsNewer
    PROVE  /\ newer' \in [Events -> 0..MaxBackfill]
           /\ \A e \in Events : newer'[e] >= newer[e]
<1>1. ASSUME NEW e \in Events PROVE newer'[e] \in 0..MaxBackfill /\ newer'[e] >= newer[e]
    BY OutboxAssumption DEF TypeOK, OneMoreIsNewer
<1> QED
    BY <1>1 DEF OneMoreIsNewer

\* Every step keeps the types.
LEMMA TypeStep == TypeOK /\ [Next]_vars => TypeOK'
<1> SUFFICES ASSUME TypeOK, [Next]_vars PROVE TypeOK'
    OBVIOUS
<1> USE DEF TypeOK
<1>1. CASE UNCHANGED vars
    BY <1>1 DEF vars, rowVars, history
<1>2. ASSUME NEW e \in Events, Enqueue(e) PROVE TypeOK'
    BY <1>2, OneMoreNewer DEF Enqueue, NewRows, rowVars, history
<1>15. CASE EnqueueOther
    BY <1>15, OneMoreNewer DEF EnqueueOther, rowVars, history
<1>3. ASSUME NEW e \in Events, Ages(e) PROVE TypeOK'
    BY <1>3 DEF Ages, rowVars, history
<1>4. ASSUME NEW as \in SUBSET Adapters, Reconfigure(as) PROVE TypeOK'
    BY <1>4 DEF Reconfigure, rowVars, history
<1>5. CASE Reconcile
    BY <1>5 DEF Reconcile, NewRows, rowVars, history
<1>6. ASSUME NEW w \in Workers, NEW d \in Deliveries, Claim(w, d) PROVE TypeOK'
    <2>1. state' \in [Deliveries -> {"none", "pending", "inflight", "delivered", "dead"}]
        BY <1>6, SweptRow DEF Claim
    <2>2. attempts' \in [Deliveries -> 0..MaxAttempts]
        BY <1>6, ClaimableRow, OutboxAssumption DEF Claim
    <2>3. claim' \in [Workers -> Claims \cup {NoClaim}]
        BY <1>6, ClaimTaken
    <2>4. /\ due' \in [Deliveries -> BOOLEAN]
          /\ lease' \in [Deliveries -> {"none", "live", "expired"}]
          /\ token' \in [Deliveries -> Workers \cup {NoClaim}]
        BY <1>6 DEF Claim
    <2>5. \A x \in Deliveries : lease'[x] # "none" <=> state'[x] = "inflight"
        <3>1. TAKE x \in Deliveries
        <3>2. CASE x = d
            BY <1>6, <3>2 DEF Claim
        <3>3. CASE x # d
            BY <1>6, <3>3, SweptRow DEF Claim
        <3> QED
            BY <3>2, <3>3
    <2> QED
        BY <1>6, <2>1, <2>2, <2>3, <2>4, <2>5 DEF Claim
<1>7. ASSUME NEW w \in Workers, Sweep(w) PROVE TypeOK'
    <2>1. /\ state' \in [Deliveries -> {"none", "pending", "inflight", "delivered", "dead"}]
          /\ \A x \in Deliveries : lease'[x] # "none" <=> state'[x] = "inflight"
        BY <1>7, SweptRow DEF Sweep
    <2> QED
        BY <1>7, <2>1 DEF Sweep
<1>8. ASSUME NEW w \in Workers, NEW a \in Answers, Send(w, a) PROVE TypeOK'
    <2>1. claim' \in [Workers -> Claims \cup {NoClaim}]
        BY <1>8 DEF Send, Claims
    <2> QED
        BY <1>8, <2>1 DEF Send, rowVars
<1>9. ASSUME NEW w \in Workers, Finish(w) PROVE TypeOK'
    <2>1. claim' \in [Workers -> Claims \cup {NoClaim}]
        BY <1>9 DEF Finish
    <2>2. CASE Current(w)
        <3>1. claim[w] \in Claims /\ claim[w].row \in Deliveries /\ claim[w].answer \in Answers
            BY <1>9 DEF Finish, Claims
        <3>2. /\ state' \in [Deliveries -> {"none", "pending", "inflight", "delivered", "dead"}]
              /\ \A x \in Deliveries : lease'[x] # "none" <=> state'[x] = "inflight"
            BY <1>9, <2>2, <3>1 DEF Finish, Answers
        <3>3. due' \in [Deliveries -> BOOLEAN]
            BY <1>9, <2>2, <3>1 DEF Finish
        <3> QED
            BY <1>9, <2>1, <2>2, <3>2, <3>3 DEF Finish
    <2>3. CASE ~Current(w)
        BY <1>9, <2>1, <2>3 DEF Finish, rowVars
    <2> QED
        BY <2>2, <2>3
<1>10. ASSUME NEW w \in Workers, FinishFails(w) PROVE TypeOK'
    BY <1>10 DEF FinishFails, rowVars, history
<1>11. CASE Crash
    BY <1>11 DEF Crash, rowVars, history
<1>12. ASSUME NEW d \in Deliveries, ManualRetry(d) PROVE TypeOK'
    BY <1>12, OutboxAssumption DEF ManualRetry
<1>13. ASSUME NEW d \in Deliveries, LeaseExpires(d) PROVE TypeOK'
    BY <1>13 DEF LeaseExpires, rowVars, history
<1>14. ASSUME NEW d \in Deliveries, BecomesDue(d) PROVE TypeOK'
    BY <1>14 DEF BecomesDue, rowVars, history
<1> QED
    BY <1>1, <1>2, <1>3, <1>4, <1>5, <1>6, <1>7, <1>8, <1>9, <1>10, <1>11, <1>12, <1>13,
       <1>14, <1>15 DEF Next, Replay

\* A claim is for a row, and its worker has put its own token on it.
LEMMA ClaimedRow ==
    ASSUME TypeOK, NEW w \in Workers, claim[w] # NoClaim
    PROVE  /\ claim[w].row \in Deliveries /\ claim[w].attempt \in 1..MaxAttempts
           /\ claim[w].answer \in Answers \cup {"none"}
BY DEF TypeOK, Claims

\* Only one worker can have the current claim of a row.
LEMMA OneCurrent ==
    ASSUME NEW v \in Workers, NEW w \in Workers, Current(v), Current(w),
           claim[v].row = claim[w].row
    PROVE  v = w
BY DEF Current

\* The counters stay numbers.
LEMMA HistoryStep == TypeOK /\ HistoryOK /\ [Next]_vars => HistoryOK'
<1> SUFFICES ASSUME TypeOK, HistoryOK, [Next]_vars PROVE HistoryOK'
    OBVIOUS
<1> USE DEF HistoryOK
<1>1. CASE UNCHANGED vars
    BY <1>1 DEF vars, rowVars, history
<1>2. ASSUME NEW e \in Events, Enqueue(e) PROVE HistoryOK'
    BY <1>2 DEF Enqueue, NewRows, rowVars, history
<1>15. CASE EnqueueOther
    BY <1>15 DEF EnqueueOther, rowVars, history
<1>3. ASSUME NEW e \in Events, Ages(e) PROVE HistoryOK'
    BY <1>3 DEF Ages, rowVars, history
<1>4. ASSUME NEW as \in SUBSET Adapters, Reconfigure(as) PROVE HistoryOK'
    BY <1>4 DEF Reconfigure, rowVars, history
<1>5. CASE Reconcile
    BY <1>5 DEF Reconcile, NewRows, rowVars, history
<1>6. ASSUME NEW w \in Workers, NEW d \in Deliveries, Claim(w, d) PROVE HistoryOK'
    BY <1>6 DEF Claim
<1>7. ASSUME NEW w \in Workers, Sweep(w) PROVE HistoryOK'
    BY <1>7 DEF Sweep, rowVars, history
<1>8. ASSUME NEW w \in Workers, NEW a \in Answers, Send(w, a) PROVE HistoryOK'
    BY <1>8, ClaimedRow DEF Send
<1>9. ASSUME NEW w \in Workers, Finish(w) PROVE HistoryOK'
    BY <1>9 DEF Finish, rowVars, history
<1>10. ASSUME NEW w \in Workers, FinishFails(w) PROVE HistoryOK'
    BY <1>10 DEF FinishFails, rowVars, history
<1>11. CASE Crash
    BY <1>11 DEF Crash, rowVars, history
<1>12. ASSUME NEW d \in Deliveries, ManualRetry(d) PROVE HistoryOK'
    BY <1>12 DEF ManualRetry, rowVars, history
<1>13. ASSUME NEW d \in Deliveries, LeaseExpires(d) PROVE HistoryOK'
    BY <1>13 DEF LeaseExpires, rowVars, history
<1>14. ASSUME NEW d \in Deliveries, BecomesDue(d) PROVE HistoryOK'
    BY <1>14 DEF BecomesDue, rowVars, history
<1> QED
    BY <1>1, <1>2, <1>3, <1>4, <1>5, <1>6, <1>7, <1>8, <1>9, <1>10, <1>11, <1>12, <1>13,
       <1>14, <1>15 DEF Next, Replay

\* A try is counted in the row and in the history; a manual retry starts the count again.
LEMMA TriesStep == TypeOK /\ HistoryOK /\ TriesCounted /\ [Next]_vars => TriesCounted'
<1> SUFFICES ASSUME TypeOK, HistoryOK, TriesCounted, [Next]_vars PROVE TriesCounted'
    OBVIOUS
<1> USE OutboxAssumption DEF TriesCounted
<1>1. CASE UNCHANGED vars
    BY <1>1 DEF vars, rowVars, history
<1>2. ASSUME NEW e \in Events, Enqueue(e) PROVE TriesCounted'
    BY <1>2 DEF Enqueue, NewRows, history
<1>15. CASE EnqueueOther
    BY <1>15 DEF EnqueueOther, rowVars, history
<1>3. ASSUME NEW e \in Events, Ages(e) PROVE TriesCounted'
    BY <1>3 DEF Ages, rowVars, history
<1>4. ASSUME NEW as \in SUBSET Adapters, Reconfigure(as) PROVE TriesCounted'
    BY <1>4 DEF Reconfigure, rowVars, history
<1>5. CASE Reconcile
    BY <1>5 DEF Reconcile, NewRows, history
<1>6. ASSUME NEW w \in Workers, NEW d \in Deliveries, Claim(w, d) PROVE TriesCounted'
    <2>1. \A x \in Deliveries : tries'[x] - attempts'[x] = tries[x] - attempts[x]
        BY <1>6 DEF Claim, TypeOK, HistoryOK
    <2>2. \A x \in Deliveries :
              /\ tries[x] \in Nat /\ attempts[x] \in Nat /\ MaxAttempts * revived[x] \in Nat
              /\ tries'[x] \in Nat /\ attempts'[x] \in Nat
        BY <1>6 DEF Claim, TypeOK, HistoryOK
    <2>3. revived' = revived
        BY <1>6 DEF Claim
    <2> QED
        BY <2>1, <2>2, <2>3
<1>7. ASSUME NEW w \in Workers, Sweep(w) PROVE TriesCounted'
    BY <1>7 DEF Sweep, rowVars, history
<1>8. ASSUME NEW w \in Workers, NEW a \in Answers, Send(w, a) PROVE TriesCounted'
    BY <1>8 DEF Send, rowVars, history
<1>9. ASSUME NEW w \in Workers, Finish(w) PROVE TriesCounted'
    <2>1. attempts' = attempts
        BY <1>9 DEF Finish, rowVars
    <2> QED
        BY <1>9, <2>1 DEF Finish, history
<1>10. ASSUME NEW w \in Workers, FinishFails(w) PROVE TriesCounted'
    BY <1>10 DEF FinishFails, rowVars, history
<1>11. CASE Crash
    BY <1>11 DEF Crash, rowVars, history
<1>12. ASSUME NEW d \in Deliveries, ManualRetry(d) PROVE TriesCounted'
    <2>1. TAKE x \in Deliveries
    <2>2. CASE x # d
        BY <1>12, <2>2 DEF ManualRetry, TypeOK, HistoryOK
    <2>3. CASE x = d
        <3>1. tries'[d] = tries[d] /\ revived'[d] = revived[d] + 1 /\ attempts'[d] = 0
            BY <1>12 DEF ManualRetry, TypeOK, HistoryOK
        <3>2. MaxAttempts * (revived[d] + 1) = MaxAttempts * revived[d] + MaxAttempts
            BY DEF HistoryOK
        <3>3. attempts[d] <= MaxAttempts
            BY DEF TypeOK
        <3>4. /\ tries[d] \in Nat /\ attempts[d] \in Nat /\ MaxAttempts \in Nat
              /\ MaxAttempts * revived[d] \in Nat
            BY DEF TypeOK, HistoryOK
        <3> QED
            BY <2>3, <3>1, <3>2, <3>3, <3>4
    <2> QED
        BY <2>2, <2>3
<1>13. ASSUME NEW d \in Deliveries, LeaseExpires(d) PROVE TriesCounted'
    BY <1>13 DEF LeaseExpires, rowVars, history
<1>14. ASSUME NEW d \in Deliveries, BecomesDue(d) PROVE TriesCounted'
    BY <1>14 DEF BecomesDue, rowVars, history
<1> QED
    BY <1>1, <1>2, <1>3, <1>4, <1>5, <1>6, <1>7, <1>8, <1>9, <1>10, <1>11, <1>12, <1>13,
       <1>14, <1>15 DEF Next, Replay

\* A claim loses its row to a recovery only.
LEMMA StaleStep == TypeOK /\ HistoryOK /\ StaleWasRecovered /\ [Next]_vars => StaleWasRecovered'
<1> SUFFICES ASSUME TypeOK, HistoryOK, StaleWasRecovered, [Next]_vars PROVE StaleWasRecovered'
    OBVIOUS
<1> USE ClaimedRow DEF StaleWasRecovered
<1>1. CASE UNCHANGED vars
    BY <1>1 DEF vars, rowVars, history, Current
<1>2. ASSUME NEW e \in Events, Enqueue(e) PROVE StaleWasRecovered'
    BY <1>2 DEF Enqueue, NewRows, rowVars, history, NewRows, TypeOK, Current
<1>15. CASE EnqueueOther
    BY <1>15 DEF EnqueueOther, rowVars, history, Current
<1>3. ASSUME NEW e \in Events, Ages(e) PROVE StaleWasRecovered'
    BY <1>3 DEF Ages, rowVars, history, NewRows, TypeOK, Current
<1>4. ASSUME NEW as \in SUBSET Adapters, Reconfigure(as) PROVE StaleWasRecovered'
    BY <1>4 DEF Reconfigure, rowVars, history, NewRows, TypeOK, Current
<1>5. CASE Reconcile
    BY <1>5 DEF Reconcile, NewRows, rowVars, history, NewRows, TypeOK, Current
<1>6. ASSUME NEW w \in Workers, NEW d \in Deliveries, Claim(w, d) PROVE StaleWasRecovered'
    <2>1. TAKE v \in Workers
    <2>2. SUFFICES ASSUME (claim[v] # NoClaim)', ~Current(v)'
                   PROVE  recoveries'[claim'[v].row] > 0
        OBVIOUS
    <2>3. v # w /\ claim'[v] = claim[v] /\ claim[v] # NoClaim
        <3>1. CASE v = w
            <4>1. claim'[w] = [row |-> d, attempt |-> attempts[d] + 1, answer |-> "none"]
                BY <1>6, ClaimTaken DEF TypeOK
            <4>2. state'[d] = "inflight" /\ token'[d] = w /\ attempts'[d] = attempts[d] + 1
                BY <1>6 DEF Claim, TypeOK
            <4>3. Current(v)'
                BY <3>1, <4>1, <4>2 DEF Current
            <4> QED
                BY <2>2, <4>3
        <3>2. CASE v # w
            BY <1>6, <2>2, <3>2 DEF Claim, TypeOK
        <3> QED
            BY <3>1, <3>2
    <2>4. PICK x \in Deliveries : x = claim[v].row
        BY <2>3, ClaimedRow
    <2>5. /\ recoveries'[x] \in Nat /\ recoveries[x] \in Nat /\ recoveries'[x] >= recoveries[x]
          /\ (x \in Expired => recoveries'[x] > 0)
        BY <1>6 DEF Claim, HistoryOK
    <2>6. CASE ~Current(v)
        BY <2>3, <2>4, <2>5, <2>6 DEF HistoryOK
    <2>7. CASE Current(v)
        <3>1. state[x] = "inflight"
            BY <2>4, <2>7 DEF Current
        <3>2. CASE x = d
            BY <1>6, <3>1, <3>2, <2>3, <2>4, <2>5, ClaimableRow DEF Claim
        <3>3. CASE x # d /\ x \notin Expired
            <4>1. state'[x] = "inflight" /\ token'[x] = token[x] /\ attempts'[x] = attempts[x]
                BY <1>6, <3>1, <3>3, SweptRow DEF Claim, TypeOK
            <4> QED
                BY <2>2, <2>3, <2>4, <2>7, <4>1 DEF Current
        <3> QED
            BY <2>3, <2>4, <2>5, <3>2, <3>3
    <2> QED
        BY <2>6, <2>7
<1>7. ASSUME NEW w \in Workers, Sweep(w) PROVE StaleWasRecovered'
    <2>1. TAKE v \in Workers
    <2>2. SUFFICES ASSUME claim[v] # NoClaim, ~Current(v)', claim' = claim
                   PROVE  recoveries'[claim[v].row] > 0
        BY <1>7 DEF Sweep
    <2>3. PICK x \in Deliveries : x = claim[v].row
        BY <2>2
    <2>4. /\ recoveries'[x] \in Nat /\ recoveries[x] \in Nat /\ recoveries'[x] >= recoveries[x]
          /\ (x \in Expired => recoveries'[x] > 0)
        BY <1>7 DEF Sweep, HistoryOK
    <2>5. CASE x \in Expired
        BY <2>3, <2>4, <2>5
    <2>6. CASE x \notin Expired /\ Current(v)
        <3>1. state'[x] = "inflight" /\ token'[x] = token[x] /\ attempts'[x] = attempts[x]
            BY <1>7, <2>3, <2>6, SweptRow DEF Sweep, TypeOK, Current
        <3> QED
            BY <2>2, <2>3, <2>6, <3>1 DEF Current
    <2>7. CASE ~Current(v)
        BY <2>2, <2>3, <2>4, <2>7 DEF HistoryOK
    <2> QED
        BY <2>5, <2>6, <2>7
<1>8. ASSUME NEW w \in Workers, NEW a \in Answers, Send(w, a) PROVE StaleWasRecovered'
    <2>1. \A v \in Workers : /\ claim'[v] # NoClaim => claim[v] # NoClaim
                             /\ claim'[v] # NoClaim => claim'[v].row = claim[v].row
                             /\ claim'[v] # NoClaim => claim'[v].attempt = claim[v].attempt
        BY <1>8 DEF Send, TypeOK, Claims
    <2>2. \A v \in Workers : (claim[v] # NoClaim)' => (Current(v)' <=> Current(v))
        BY <1>8, <2>1 DEF Send, Current, rowVars
    <2> QED
        BY <1>8, <2>1, <2>2 DEF Send
<1>9. ASSUME NEW w \in Workers, Finish(w) PROVE StaleWasRecovered'
    <2>1. TAKE v \in Workers
    <2>2. SUFFICES ASSUME v # w, claim[v] # NoClaim, ~Current(v)', claim'[v] = claim[v]
                   PROVE  recoveries[claim[v].row] > 0
        BY <1>9 DEF Finish, TypeOK, history
    <2>3. CASE ~Current(v)
        BY <2>2, <2>3
    <2>4. CASE Current(v) /\ Current(w)
        <3>1. claim[v].row # claim[w].row
            BY <2>2, <2>4, OneCurrent
        <3>2. Current(v)'
            BY <1>9, <2>2, <2>4, <3>1 DEF Finish, Current, TypeOK
        <3> QED
            BY <2>2, <3>2
    <2>5. CASE Current(v) /\ ~Current(w)
        BY <1>9, <2>2, <2>5 DEF Finish, Current, rowVars
    <2> QED
        BY <2>3, <2>4, <2>5
<1>10. ASSUME NEW w \in Workers, FinishFails(w) PROVE StaleWasRecovered'
    BY <1>10 DEF FinishFails, rowVars, history, NewRows, TypeOK, Current
<1>11. CASE Crash
    BY <1>11 DEF Crash
<1>12. ASSUME NEW d \in Deliveries, ManualRetry(d) PROVE StaleWasRecovered'
    BY <1>12 DEF ManualRetry, rowVars, history, NewRows, TypeOK, Current
<1>13. ASSUME NEW d \in Deliveries, LeaseExpires(d) PROVE StaleWasRecovered'
    BY <1>13 DEF LeaseExpires, rowVars, history, NewRows, TypeOK, Current
<1>14. ASSUME NEW d \in Deliveries, BecomesDue(d) PROVE StaleWasRecovered'
    BY <1>14 DEF BecomesDue, rowVars, history, NewRows, TypeOK, Current
<1> QED
    BY <1>1, <1>2, <1>3, <1>4, <1>5, <1>6, <1>7, <1>8, <1>9, <1>10, <1>11, <1>12, <1>13,
       <1>14, <1>15 DEF Next, Replay

\* Only a confirmed claim delivers, and confirmations are never taken back.
LEMMA AnswersStep == TypeOK /\ HistoryOK /\ AnswersConfirmed /\ [Next]_vars => AnswersConfirmed'
<1> SUFFICES ASSUME TypeOK, HistoryOK, AnswersConfirmed, [Next]_vars PROVE AnswersConfirmed'
    OBVIOUS
<1> USE ClaimedRow DEF AnswersConfirmed, DeliveredWasConfirmed
<1>1. CASE UNCHANGED vars
    BY <1>1 DEF vars, rowVars, history
<1>2. ASSUME NEW e \in Events, Enqueue(e) PROVE AnswersConfirmed'
    BY <1>2 DEF Enqueue, NewRows, rowVars, history, NewRows, TypeOK
<1>15. CASE EnqueueOther
    BY <1>15 DEF EnqueueOther, rowVars, history
<1>3. ASSUME NEW e \in Events, Ages(e) PROVE AnswersConfirmed'
    BY <1>3 DEF Ages, rowVars, history
<1>4. ASSUME NEW as \in SUBSET Adapters, Reconfigure(as) PROVE AnswersConfirmed'
    BY <1>4 DEF Reconfigure, rowVars, history
<1>5. CASE Reconcile
    BY <1>5 DEF Reconcile, NewRows, rowVars, history, NewRows, TypeOK
<1>6. ASSUME NEW w \in Workers, NEW d \in Deliveries, Claim(w, d) PROVE AnswersConfirmed'
    <2>1. \A v \in Workers : claim'[v] # NoClaim /\ claim'[v].answer = "ok"
                                => claim'[v] = claim[v]
        <3>1. claim'[w] = [row |-> d, attempt |-> attempts[d] + 1, answer |-> "none"]
            BY <1>6, ClaimTaken DEF TypeOK
        <3>2. \A v \in Workers \ {w} : claim'[v] = claim[v]
            BY <1>6, ClaimTaken DEF TypeOK
        <3> QED
            BY <3>1, <3>2
    <2>2. \A x \in Deliveries : state'[x] = "delivered" => state[x] = "delivered"
        BY <1>6, SweptRow DEF Claim, TypeOK
    <2> QED
        BY <1>6, <2>1, <2>2 DEF Claim
<1>7. ASSUME NEW w \in Workers, Sweep(w) PROVE AnswersConfirmed'
    <2>1. \A x \in Deliveries : state'[x] = "delivered" => state[x] = "delivered"
        BY <1>7, SweptRow DEF Sweep
    <2> QED
        BY <1>7, <2>1 DEF Sweep
<1>8. ASSUME NEW w \in Workers, NEW a \in Answers, Send(w, a) PROVE AnswersConfirmed'
    <2>1. \A x \in Deliveries : confirmed[x] > 0 => confirmed'[x] > 0
        BY <1>8 DEF Send, HistoryOK
    <2>2. a = "ok" => confirmed'[claim[w].row] > 0
        BY <1>8 DEF Send, HistoryOK
    <2>3. \A v \in Workers : claim'[v] # NoClaim =>
              claim[v] # NoClaim /\ claim'[v].row = claim[v].row
        BY <1>8 DEF Send, TypeOK, Claims
    <2>4. \A v \in Workers : claim'[v] # NoClaim /\ claim'[v].answer = "ok" =>
              confirmed'[claim'[v].row] > 0
        <3>1. TAKE v \in Workers
        <3>2. CASE v = w
            BY <1>8, <2>2, <2>3, <3>2 DEF Send, TypeOK, Claims
        <3>3. CASE v # w
            BY <1>8, <2>1, <2>3, <3>3 DEF Send, TypeOK
        <3> QED
            BY <3>2, <3>3
    <2> QED
        BY <1>8, <2>1, <2>4 DEF Send, rowVars
<1>9. ASSUME NEW w \in Workers, Finish(w) PROVE AnswersConfirmed'
    <2>1. \A v \in Workers : claim'[v] # NoClaim => claim'[v] = claim[v]
        BY <1>9 DEF Finish, TypeOK
    <2>2. \A x \in Deliveries : state'[x] = "delivered" =>
              state[x] = "delivered" \/ (x = claim[w].row /\ claim[w].answer = "ok")
        BY <1>9 DEF Finish, TypeOK, rowVars, Answers
    <2> QED
        BY <1>9, <2>1, <2>2 DEF Finish, history
<1>10. ASSUME NEW w \in Workers, FinishFails(w) PROVE AnswersConfirmed'
    BY <1>10 DEF FinishFails, rowVars, history, NewRows, TypeOK
<1>11. CASE Crash
    BY <1>11 DEF Crash, rowVars
<1>12. ASSUME NEW d \in Deliveries, ManualRetry(d) PROVE AnswersConfirmed'
    BY <1>12 DEF ManualRetry, rowVars, history, NewRows, TypeOK
<1>13. ASSUME NEW d \in Deliveries, LeaseExpires(d) PROVE AnswersConfirmed'
    BY <1>13 DEF LeaseExpires, rowVars, history
<1>14. ASSUME NEW d \in Deliveries, BecomesDue(d) PROVE AnswersConfirmed'
    BY <1>14 DEF BecomesDue, rowVars, history
<1> QED
    BY <1>1, <1>2, <1>3, <1>4, <1>5, <1>6, <1>7, <1>8, <1>9, <1>10, <1>11, <1>12, <1>13,
       <1>14, <1>15 DEF Next, Replay

\* What was enqueued before the registry followed is found when it follows.
LEMMA BackfillStep == TypeOK /\ Backfillable /\ [Next]_vars => Backfillable'
<1> SUFFICES ASSUME TypeOK, Backfillable, [Next]_vars PROVE Backfillable'
    OBVIOUS
<1> USE DEF Backfillable
<1>1. CASE UNCHANGED vars
    BY <1>1 DEF vars, rowVars, history
<1>2. ASSUME NEW e \in Events, Enqueue(e) PROVE Backfillable'
    <2>1. \A x \in {e} \X configured : x \in Deliveries /\ x[1] = e /\ x[2] \in configured
        BY <1>2 DEF TypeOK, Deliveries
    <2>2. \A x \in Deliveries : state'[x] = "none" =>
              state[x] = "none" /\ x \notin {e} \X registry
        BY <1>2 DEF Enqueue, NewRows, TypeOK
    <2>3. \A x \in owed' :
              /\ x \in Deliveries /\ x[2] \in configured'
              /\ state'[x] = "none" /\ newer'[x[1]] < MaxBackfill
                    => ~reconciled /\ x[1] \in recent' /\ x[2] \notin registry
        <3>1. TAKE x \in owed'
        <3>2. CASE x \in owed
            <4>1. newer[x[1]] <= newer'[x[1]] /\ newer[x[1]] \in Nat /\ newer'[x[1]] \in Nat
                BY <1>2, <3>2, OneMoreNewer, OutboxAssumption DEF Enqueue, Deliveries, TypeOK
            <4>2. newer'[x[1]] < MaxBackfill => newer[x[1]] < MaxBackfill
                BY <4>1, OutboxAssumption
            <4> QED
                BY <1>2, <2>2, <3>2, <4>2 DEF Enqueue
        <3>3. CASE x \in {e} \X configured
            BY <1>2, <2>1, <2>2, <3>3 DEF Enqueue, Deliveries
        <3> QED
            BY <1>2, <3>2, <3>3 DEF Enqueue
    <2> QED
        BY <1>2, <2>3 DEF Enqueue
<1>15. CASE EnqueueOther
    <2>1. ASSUME NEW x \in owed
          PROVE  newer'[x[1]] < MaxBackfill => newer[x[1]] < MaxBackfill
        <3>1. newer[x[1]] <= newer'[x[1]] /\ newer[x[1]] \in Nat /\ newer'[x[1]] \in Nat
            BY <1>15, <2>1, OneMoreNewer, OutboxAssumption DEF EnqueueOther, Deliveries, TypeOK
        <3> QED
            BY <3>1, OutboxAssumption
    <2> QED
        BY <1>15, <2>1 DEF EnqueueOther, rowVars, history
<1>3. ASSUME NEW e \in Events, Ages(e) PROVE Backfillable'
    BY <1>3 DEF Ages, rowVars, history
<1>4. ASSUME NEW as \in SUBSET Adapters, Reconfigure(as) PROVE Backfillable'
    BY <1>4 DEF Reconfigure, rowVars, Deliveries
<1>5. CASE Reconcile
    <2>1. \A x \in owed : state'[x] # "none" \/ ~(newer[x[1]] < MaxBackfill)
        <3>1. TAKE x \in owed
        <3>2. CASE state[x] # "none"
            BY <1>5, <3>2 DEF Reconcile, NewRows, TypeOK
        <3>3. CASE state[x] = "none" /\ newer[x[1]] < MaxBackfill
            <4>1. x \in {e \in recent : newer[e] < MaxBackfill} \X (configured \ registry)
                BY <1>5, <3>3 DEF Deliveries
            <4> QED
                BY <1>5, <3>3, <4>1 DEF Reconcile, NewRows, TypeOK
        <3> QED
            BY <3>2, <3>3
    <2> QED
        BY <1>5, <2>1 DEF Reconcile
<1>6. ASSUME NEW w \in Workers, NEW d \in Deliveries, Claim(w, d) PROVE Backfillable'
    BY <1>6, SweptRow DEF Claim, TypeOK
<1>7. ASSUME NEW w \in Workers, Sweep(w) PROVE Backfillable'
    BY <1>7, SweptRow DEF Sweep
<1>8. ASSUME NEW w \in Workers, NEW a \in Answers, Send(w, a) PROVE Backfillable'
    BY <1>8 DEF Send, rowVars, history
<1>9. ASSUME NEW w \in Workers, Finish(w) PROVE Backfillable'
    <2>1. \A x \in Deliveries : state'[x] = "none" => state[x] = "none"
        BY <1>9, ClaimedRow DEF Finish, TypeOK, rowVars, Answers
    <2> QED
        BY <1>9, <2>1 DEF Finish
<1>10. ASSUME NEW w \in Workers, FinishFails(w) PROVE Backfillable'
    BY <1>10 DEF FinishFails, rowVars, history
<1>11. CASE Crash
    BY <1>11 DEF Crash, rowVars, history
<1>12. ASSUME NEW d \in Deliveries, ManualRetry(d) PROVE Backfillable'
    BY <1>12 DEF ManualRetry, rowVars, history, TypeOK
<1>13. ASSUME NEW d \in Deliveries, LeaseExpires(d) PROVE Backfillable'
    BY <1>13 DEF LeaseExpires, rowVars, history
<1>14. ASSUME NEW d \in Deliveries, BecomesDue(d) PROVE Backfillable'
    BY <1>14 DEF BecomesDue, rowVars, history
<1> QED
    BY <1>1, <1>2, <1>3, <1>4, <1>5, <1>6, <1>7, <1>8, <1>9, <1>10, <1>11, <1>12, <1>13,
       <1>14, <1>15 DEF Next, Replay

\* The sends under way are finitely many.
LEMMA UnansweredCount ==
    ASSUME NEW d
    PROVE  IsFiniteSet(Unanswered(d)) /\ Cardinality(Unanswered(d)) \in Nat
<1>1. Unanswered(d) \in SUBSET Workers
    BY DEF Unanswered
<1> QED
    BY <1>1, OutboxAssumption, FS_Subset, FS_CardinalityType

\* An account that is neither drawn on nor cut short stays balanced.
LEMMA AccountKept ==
    ASSUME HistoryOK, HistoryOK', NEW x \in Deliveries,
           confirmed[x] + Cardinality(Unanswered(x)) <= Allowed(x),
           confirmed'[x] = confirmed[x], Unanswered(x)' = Unanswered(x),
           recoveries'[x] >= recoveries[x],
           MayDeliver(x) => MayDeliver(x)' \/ recoveries'[x] > recoveries[x]
    PROVE  confirmed'[x] + Cardinality(Unanswered(x)') <= Allowed(x)'
BY UnansweredCount DEF HistoryOK, Allowed

\* Where the claims and their rows are left alone so is what may be delivered.
LEMMA MayDeliverKept ==
    ASSUME NEW x \in Deliveries, claim' = claim,
           state'[x] = state[x], token'[x] = token[x], attempts'[x] = attempts[x]
    PROVE  (MayDeliver(x)' <=> MayDeliver(x)) /\ Unanswered(x)' = Unanswered(x)
BY DEF MayDeliver, Spent, Delivers, Current, Unanswered

\* Every confirmation but one has a recovery to account for it.
LEMMA AccountStep == TypeOK /\ HistoryOK /\ Accounted /\ [Next]_vars => Accounted'
<1> SUFFICES ASSUME TypeOK, HistoryOK, Accounted, [Next]_vars PROVE Accounted'
    OBVIOUS
<1>0. HistoryOK'
    BY HistoryStep
<1> USE <1>0 DEF Accounted
<1>1. CASE UNCHANGED vars
    <2>1. TAKE x \in Deliveries
    <2>2. /\ claim' = claim /\ confirmed' = confirmed /\ recoveries' = recoveries
          /\ state' = state /\ token' = token /\ attempts' = attempts
        BY <1>1 DEF vars, rowVars, history
    <2> QED
        BY <2>2, AccountKept, MayDeliverKept DEF HistoryOK
<1>2. ASSUME NEW e \in Events, Enqueue(e) PROVE Accounted'
    <2>1. TAKE x \in Deliveries
    <2>2. /\ claim' = claim /\ confirmed' = confirmed /\ recoveries' = recoveries
          /\ token' = token
        BY <1>2 DEF Enqueue, NewRows, history
    <2>3. attempts'[x] = attempts[x] \/ state[x] = "dead"
        BY <1>2 DEF Enqueue, NewRows, history
    <2>4. state'[x] = state[x] \/ (state[x] \in {"none", "dead"} /\ state'[x] = "pending")
        BY <1>2 DEF Enqueue, NewRows, history, TypeOK
    <2>5. Unanswered(x)' = Unanswered(x) /\ (MayDeliver(x) => MayDeliver(x)')
        BY <2>2, <2>3, <2>4, MayDeliverKept DEF MayDeliver, Unanswered, Delivers
    <2> QED
        BY <2>2, <2>5, AccountKept DEF HistoryOK
<1>15. CASE EnqueueOther
    <2>1. TAKE x \in Deliveries
    <2>2. /\ claim' = claim /\ confirmed' = confirmed /\ recoveries' = recoveries
          /\ state' = state /\ token' = token /\ attempts' = attempts
        BY <1>15 DEF EnqueueOther, rowVars, history
    <2> QED
        BY <2>2, AccountKept, MayDeliverKept DEF HistoryOK
<1>3. ASSUME NEW e \in Events, Ages(e) PROVE Accounted'
    <2>1. TAKE x \in Deliveries
    <2>2. /\ claim' = claim /\ confirmed' = confirmed /\ recoveries' = recoveries
          /\ state' = state /\ token' = token /\ attempts' = attempts
        BY <1>3 DEF Ages, rowVars, history
    <2> QED
        BY <2>2, AccountKept, MayDeliverKept DEF HistoryOK
<1>4. ASSUME NEW as \in SUBSET Adapters, Reconfigure(as) PROVE Accounted'
    <2>1. TAKE x \in Deliveries
    <2>2. /\ claim' = claim /\ confirmed' = confirmed /\ recoveries' = recoveries
          /\ state' = state /\ token' = token /\ attempts' = attempts
        BY <1>4 DEF Reconfigure, rowVars
    <2> QED
        BY <2>2, AccountKept, MayDeliverKept DEF HistoryOK
<1>5. CASE Reconcile
    <2>1. TAKE x \in Deliveries
    <2>2. /\ claim' = claim /\ confirmed' = confirmed /\ recoveries' = recoveries
          /\ token' = token
        BY <1>5 DEF Reconcile, NewRows, history
    <2>3. attempts'[x] = attempts[x] \/ state[x] = "dead"
        BY <1>5 DEF Reconcile, NewRows, history
    <2>4. state'[x] = state[x] \/ (state[x] \in {"none", "dead"} /\ state'[x] = "pending")
        BY <1>5 DEF Reconcile, NewRows, history, TypeOK
    <2>5. Unanswered(x)' = Unanswered(x) /\ (MayDeliver(x) => MayDeliver(x)')
        BY <2>2, <2>3, <2>4, MayDeliverKept DEF MayDeliver, Unanswered, Delivers
    <2> QED
        BY <2>2, <2>5, AccountKept DEF HistoryOK
<1>6. ASSUME NEW w \in Workers, NEW d \in Deliveries, Claim(w, d) PROVE Accounted'
    <2>1. TAKE x \in Deliveries
    <2>2. /\ confirmed' = confirmed
          /\ recoveries'[x] = recoveries[x] + (IF x \in Expired THEN 1 ELSE 0)
        BY <1>6 DEF Claim
    <2>3. /\ claim[w] = NoClaim
          /\ claim'[w] = [row |-> d, attempt |-> attempts[d] + 1, answer |-> "none"]
          /\ claim'[w] # NoClaim
          /\ \A v \in Workers \ {w} : claim'[v] = claim[v]
        BY <1>6, ClaimTaken DEF Claim, Free, TypeOK
    <2>4. CASE x = d
        <3>1. Unanswered(d)' = Unanswered(d) \cup {w} /\ w \notin Unanswered(d)
            BY <2>3 DEF Unanswered, Delivers
        <3>2. Cardinality(Unanswered(d)') = Cardinality(Unanswered(d)) + 1
            BY <3>1, UnansweredCount, FS_AddElement
        <3>3. state'[d] = "inflight" /\ token'[d] = w
            BY <1>6 DEF Claim, TypeOK
        <3>4. MayDeliver(d)'
            BY <2>3, <3>3 DEF MayDeliver, Spent, Delivers, Current
        <3>5. state[d] = "pending" \/ recoveries'[d] = recoveries[d] + 1
            BY <1>6, <2>2, <2>4, ClaimableRow DEF Claim
        <3>6. state[d] = "pending" => Allowed(d) = recoveries[d]
            BY DEF Allowed, MayDeliver, HistoryOK
        <3>7. Allowed(d)' = recoveries'[d] + 1
            BY <3>4 DEF Allowed
        <3>8. Allowed(d) \in {recoveries[d], recoveries[d] + 1}
            BY DEF Allowed, HistoryOK
        <3> QED
            BY <2>2, <2>4, <3>2, <3>5, <3>6, <3>7, <3>8, UnansweredCount DEF HistoryOK
    <2>5. CASE x # d
        <3>1. Unanswered(x)' = Unanswered(x)
            BY <2>3, <2>5 DEF Unanswered, Delivers
        <3>2. CASE x \in Expired
            BY <2>2, <3>1, <3>2, AccountKept DEF HistoryOK
        <3>3. CASE x \notin Expired
            <4>1. /\ token'[x] = token[x] /\ attempts'[x] = attempts[x]
                  /\ state'[x] = state[x] \/ state[x] = "pending"
                BY <1>6, <2>5, <3>3 DEF Claim, Swept, TypeOK
            <4>2. MayDeliver(x) => MayDeliver(x)'
                BY <2>3, <2>5, <4>1 DEF MayDeliver, Spent, Delivers, Current
            <4> QED
                BY <2>2, <3>1, <3>3, <4>2, AccountKept DEF HistoryOK
        <3> QED
            BY <3>2, <3>3
    <2> QED
        BY <2>4, <2>5
<1>7. ASSUME NEW w \in Workers, Sweep(w) PROVE Accounted'
    <2>1. TAKE x \in Deliveries
    <2>2. /\ claim' = claim /\ confirmed' = confirmed /\ attempts' = attempts
          /\ recoveries'[x] = recoveries[x] + (IF x \in Expired THEN 1 ELSE 0)
          /\ state'[x] = Swept(x)
        BY <1>7 DEF Sweep
    <2>3. Unanswered(x)' = Unanswered(x)
        BY <2>2 DEF Unanswered, Delivers
    <2>4. CASE x \in Expired
        BY <2>2, <2>3, <2>4, AccountKept DEF HistoryOK
    <2>5. CASE x \notin Expired
        <3>1. token'[x] = token[x]
            BY <1>7, <2>5 DEF Sweep
        <3>2. state'[x] = state[x] \/ state[x] = "pending"
            BY <2>2, <2>5 DEF Swept
        <3>3. MayDeliver(x) => MayDeliver(x)'
            BY <2>2, <3>1, <3>2, MayDeliverKept DEF MayDeliver
        <3> QED
            BY <2>2, <2>3, <2>5, <3>3, AccountKept DEF HistoryOK
    <2> QED
        BY <2>4, <2>5
<1>8. ASSUME NEW w \in Workers, NEW a \in Answers, Send(w, a) PROVE Accounted'
    <2>1. TAKE x \in Deliveries
    <2>2. /\ recoveries' = recoveries /\ state' = state /\ token' = token /\ attempts' = attempts
          /\ claim[w] # NoClaim /\ claim[w].answer = "none"
        BY <1>8 DEF Send, rowVars
    <2>3. /\ claim'[w].row = claim[w].row /\ claim'[w].answer = a
          /\ claim'[w].attempt = claim[w].attempt
          /\ \A v \in Workers \ {w} : claim'[v] = claim[v]
        BY <1>8 DEF Send, TypeOK, Claims
    <2>4. CASE x = claim[w].row
        <3>1. Unanswered(x)' = Unanswered(x) \ {w} /\ w \in Unanswered(x)
            BY <2>2, <2>3, <2>4 DEF Unanswered, Delivers, Answers
        <3>2. Cardinality(Unanswered(x)') = Cardinality(Unanswered(x)) - 1
            BY <3>1, UnansweredCount, FS_RemoveElement
        <3>3. a = "ok" => (MayDeliver(x) => MayDeliver(x)')
            BY <2>2, <2>3 DEF MayDeliver, Spent, Delivers, Current
        <3>4. confirmed'[x] = IF a = "ok" THEN confirmed[x] + 1 ELSE confirmed[x]
            BY <1>8, <2>4 DEF Send, HistoryOK
        <3>5. a = "ok" => Allowed(x)' >= Allowed(x)
            BY <2>2, <3>3 DEF Allowed, HistoryOK
        <3>6. Allowed(x)' >= Allowed(x) - 1
            BY <2>2 DEF Allowed, HistoryOK
        <3>7. Allowed(x) \in Nat /\ Allowed(x)' \in Nat
            BY DEF Allowed, HistoryOK
        <3> QED
            BY <3>2, <3>4, <3>5, <3>6, <3>7, UnansweredCount DEF HistoryOK
    <2>5. CASE x # claim[w].row
        <3>1. Unanswered(x)' = Unanswered(x) /\ (MayDeliver(x) => MayDeliver(x)')
            BY <2>2, <2>3, <2>5 DEF Unanswered, MayDeliver, Spent, Delivers, Current
        <3>2. confirmed'[x] = confirmed[x]
            BY <1>8, <2>5 DEF Send, HistoryOK
        <3> QED
            BY <2>2, <3>1, <3>2, AccountKept DEF HistoryOK
    <2> QED
        BY <2>4, <2>5
<1>9. ASSUME NEW w \in Workers, Finish(w) PROVE Accounted'
    <2>1. TAKE x \in Deliveries
    <2>2. /\ confirmed' = confirmed /\ recoveries' = recoveries
          /\ claim[w] # NoClaim /\ claim[w].answer # "none"
          /\ claim'[w] = NoClaim /\ \A v \in Workers \ {w} : claim'[v] = claim[v]
        BY <1>9 DEF Finish, history, TypeOK
    <2>3. Unanswered(x)' = Unanswered(x)
        BY <2>2 DEF Unanswered, Delivers
    <2>4. CASE x = claim[w].row /\ Current(w)
        <3>1. claim[w].answer \in {"ok", "retry", "dead"}
            BY <2>2, ClaimedRow DEF Answers
        <3>2. claim[w].answer = "ok" => state'[x] = "delivered"
            BY <1>9, <2>4 DEF Finish, TypeOK
        <3>3. claim[w].answer # "ok" => Spent(x)
            BY <2>2, <2>4, <3>1 DEF Spent, Delivers
        <3>4. MayDeliver(x) => MayDeliver(x)'
            BY <2>4, <3>2, <3>3 DEF MayDeliver, Current
        <3> QED
            BY <2>2, <2>3, <3>4, AccountKept DEF HistoryOK
    <2>5. CASE ~(x = claim[w].row /\ Current(w))
        <3>1. state'[x] = state[x] /\ token'[x] = token[x] /\ attempts'[x] = attempts[x]
            BY <1>9, <2>5 DEF Finish, TypeOK, rowVars
        <3>2. MayDeliver(x) => MayDeliver(x)'
            BY <2>2, <3>1 DEF MayDeliver, Spent, Delivers, Current
        <3> QED
            BY <2>2, <2>3, <3>2, AccountKept DEF HistoryOK
    <2> QED
        BY <2>4, <2>5
<1>10. ASSUME NEW w \in Workers, FinishFails(w) PROVE Accounted'
    <2>1. TAKE x \in Deliveries
    <2>2. /\ confirmed' = confirmed /\ recoveries' = recoveries
          /\ state' = state /\ token' = token /\ attempts' = attempts
          /\ claim[w].answer # "none"
          /\ claim'[w] = NoClaim /\ \A v \in Workers \ {w} : claim'[v] = claim[v]
        BY <1>10 DEF FinishFails, history, rowVars, TypeOK
    <2>3. Unanswered(x)' = Unanswered(x) /\ (MayDeliver(x) => MayDeliver(x)')
        BY <2>2 DEF Unanswered, MayDeliver, Spent, Delivers, Current
    <2> QED
        BY <2>2, <2>3, AccountKept DEF HistoryOK
<1>11. CASE Crash
    <2>1. TAKE x \in Deliveries
    <2>2. /\ confirmed' = confirmed /\ recoveries' = recoveries /\ state' = state
          /\ \A v \in Workers : claim'[v] = NoClaim
        BY <1>11 DEF Crash, rowVars
    <2>3. Unanswered(x)' = {} /\ (MayDeliver(x) => MayDeliver(x)')
        BY <2>2 DEF Unanswered, MayDeliver, Spent, Delivers
    <2>4. Cardinality(Unanswered(x)') = 0
        BY <2>3, FS_EmptySet
    <2>5. Allowed(x)' >= Allowed(x) /\ Allowed(x) \in Nat /\ Allowed(x)' \in Nat
        BY <2>2, <2>3 DEF Allowed, HistoryOK
    <2> QED
        BY <2>2, <2>4, <2>5, UnansweredCount DEF HistoryOK
<1>12. ASSUME NEW d \in Deliveries, ManualRetry(d) PROVE Accounted'
    <2>1. TAKE x \in Deliveries
    <2>2. /\ claim' = claim /\ confirmed' = confirmed /\ recoveries' = recoveries
          /\ token' = token
        BY <1>12 DEF ManualRetry
    <2>3. attempts'[x] = attempts[x] \/ state[x] = "dead"
        BY <1>12 DEF ManualRetry
    <2>4. state'[x] = state[x] \/ (state[x] \in {"none", "dead"} /\ state'[x] = "pending")
        BY <1>12 DEF ManualRetry, TypeOK
    <2>5. Unanswered(x)' = Unanswered(x) /\ (MayDeliver(x) => MayDeliver(x)')
        BY <2>2, <2>3, <2>4, MayDeliverKept DEF MayDeliver, Unanswered, Delivers
    <2> QED
        BY <2>2, <2>5, AccountKept DEF HistoryOK
<1>13. ASSUME NEW d \in Deliveries, LeaseExpires(d) PROVE Accounted'
    <2>1. TAKE x \in Deliveries
    <2>2. /\ claim' = claim /\ confirmed' = confirmed /\ recoveries' = recoveries
          /\ state' = state /\ token' = token /\ attempts' = attempts
        BY <1>13 DEF LeaseExpires, history
    <2> QED
        BY <2>2, AccountKept, MayDeliverKept DEF HistoryOK
<1>14. ASSUME NEW d \in Deliveries, BecomesDue(d) PROVE Accounted'
    <2>1. TAKE x \in Deliveries
    <2>2. /\ claim' = claim /\ confirmed' = confirmed /\ recoveries' = recoveries
          /\ state' = state /\ token' = token /\ attempts' = attempts
        BY <1>14 DEF BecomesDue, history
    <2> QED
        BY <2>2, AccountKept, MayDeliverKept DEF HistoryOK
<1> QED
    BY <1>1, <1>2, <1>3, <1>4, <1>5, <1>6, <1>7, <1>8, <1>9, <1>10, <1>11, <1>12, <1>13,
       <1>14, <1>15 DEF Next, Replay

--------------------------------------------------------------------------------

\* The invariant is inductive.
LEMMA StepIInv == IInv /\ [Next]_vars => IInv'
BY TypeStep, HistoryStep, TriesStep, StaleStep, AnswersStep, AccountStep, BackfillStep DEF IInv

\* The parts of IInv hold in every state, for every number of events, adapters, dispatcher
\* threads, attempts, crashes and reconfigurations.
THEOREM OutboxInvariant == Spec => []IInv
<1>1. Init => IInv
    BY InitIInv
<1>2. IInv /\ [Next]_vars => IInv'
    BY StepIInv
<1> QED
    BY <1>1, <1>2, PTL DEF Spec

\* Types; a row has a lease exactly while it is in flight.
THEOREM OutboxTypeCorrect == Spec => []TypeOK
<1>1. IInv => TypeOK
    BY DEF IInv
<1> QED
    BY <1>1, OutboxInvariant, PTL

\* No crash, stale outcome or recovered lease marks a delivery nobody received.
THEOREM DeliveredAreConfirmed == Spec => []DeliveredWasConfirmed
<1>1. IInv => DeliveredWasConfirmed
    BY DEF IInv, AnswersConfirmed
<1> QED
    BY <1>1, OutboxInvariant, PTL

\* An adapter sees at most max_attempts tries of an event per request of the operator.
THEOREM TriesAreBounded == Spec => []TriesBounded
<1>1. IInv => TriesBounded
    <2>1. SUFFICES ASSUME IInv, NEW d \in Deliveries
                   PROVE  tries[d] <= MaxAttempts * (1 + revived[d])
        BY DEF TriesBounded
    <2>2. tries[d] <= MaxAttempts * revived[d] + attempts[d]
        BY <2>1 DEF IInv, TriesCounted
    <2>3. /\ tries[d] \in Nat /\ revived[d] \in Nat
          /\ attempts[d] \in Nat /\ MaxAttempts \in Nat /\ attempts[d] <= MaxAttempts
        BY <2>1, OutboxAssumption DEF IInv, TypeOK, HistoryOK
    <2>4. MaxAttempts * (1 + revived[d]) = MaxAttempts * revived[d] + MaxAttempts
        BY <2>3
    <2>5. MaxAttempts * revived[d] \in Nat
        BY <2>3
    <2> QED
        BY <2>2, <2>3, <2>4, <2>5
<1> QED
    BY <1>1, OutboxInvariant, PTL

\* Each 2xx of a delivery but one has a recovered lease to account for it.
THEOREM DuplicatesAreAccounted == Spec => []DuplicatesNeedExpiredLease
<1>1. IInv => DuplicatesNeedExpiredLease
    <2>1. SUFFICES ASSUME IInv, NEW d \in Deliveries
                   PROVE  confirmed[d] <= 1 + recoveries[d]
        BY DEF DuplicatesNeedExpiredLease
    <2>2. confirmed[d] + Cardinality(Unanswered(d)) <= Allowed(d)
        BY <2>1 DEF IInv, Accounted
    <2>3. Allowed(d) <= 1 + recoveries[d]
        BY <2>1 DEF Allowed, IInv, HistoryOK
    <2>4. confirmed[d] \in Nat /\ recoveries[d] \in Nat /\ Allowed(d) \in Nat
        BY <2>1 DEF Allowed, IInv, HistoryOK
    <2> QED
        BY <2>2, <2>3, <2>4, UnansweredCount
<1> QED
    BY <1>1, OutboxInvariant, PTL

\* Together: what is recorded, tried and confirmed is accounted for by answers, attempts
\* and leases.
THEOREM SendsAccounted == Spec => []SendsAreAccounted
<1> QED
    BY DeliveredAreConfirmed, TriesAreBounded, DuplicatesAreAccounted, PTL
    DEF SendsAreAccounted

\* Two workers deliver the same row only where the first one's lease was taken back.
THEOREM LeasesExclude == Spec => []OneWorkerPerLease
<1>1. IInv => OneWorkerPerLease
    <2>1. SUFFICES ASSUME IInv, NEW v \in Workers, NEW w \in Workers,
                          claim[v] # NoClaim, claim[w] # NoClaim, v # w,
                          claim[v].row = claim[w].row
                   PROVE  ~(Current(v) /\ Current(w)) /\ recoveries[claim[w].row] > 0
        BY DEF OneWorkerPerLease
    <2>2. ~(Current(v) /\ Current(w))
        BY <2>1, OneCurrent
    <2>3. recoveries[claim[w].row] > 0
        BY <2>1, <2>2 DEF IInv, StaleWasRecovered
    <2> QED
        BY <2>2, <2>3
<1> QED
    BY <1>1, OutboxInvariant, PTL

\* What was enqueued while an adapter was enabled has its row once the registry follows,
\* but for what the backfill may leave out: an event with MaxBackfill newer ones.
THEOREM EnabledAdaptersAreServed == Spec => []EnabledAdapterIsServed
<1>1. IInv => EnabledAdapterIsServed
    <2>1. SUFFICES ASSUME IInv, reconciled, NEW d \in owed, state[d] = "none"
                   PROVE  newer[d[1]] >= MaxBackfill
        BY DEF EnabledAdapterIsServed
    <2>2. ~(newer[d[1]] < MaxBackfill) /\ d[1] \in Events
        BY <2>1 DEF IInv, Backfillable, Deliveries
    <2> QED
        BY <2>2, <2>1, OutboxAssumption DEF IInv, TypeOK
<1> QED
    BY <1>1, OutboxInvariant, PTL

\* A delivered row never changes again, a dead one only by manual_retry.
Final == \A d \in Deliveries :
             /\ state[d] = "delivered" => state'[d] = "delivered"
             /\ state[d] = "dead" => state'[d] = "dead" \/ ManualRetry(d)

\* Neither a sweep nor a late outcome touches a row that has its outcome.
LEMMA FinalStep == TypeOK /\ [Next]_vars => Final
<1> SUFFICES ASSUME TypeOK, [Next]_vars PROVE Final
    OBVIOUS
<1> USE DEF Final
<1>1. CASE UNCHANGED vars
    BY <1>1 DEF vars, rowVars, history
<1>2. ASSUME NEW e \in Events, Enqueue(e) PROVE Final
    BY <1>2 DEF Enqueue, NewRows, rowVars, history, TypeOK
<1>15. CASE EnqueueOther
    BY <1>15 DEF EnqueueOther, rowVars, history
<1>3. ASSUME NEW e \in Events, Ages(e) PROVE Final
    BY <1>3 DEF Ages, rowVars, history
<1>4. ASSUME NEW as \in SUBSET Adapters, Reconfigure(as) PROVE Final
    BY <1>4 DEF Reconfigure, rowVars, history
<1>5. CASE Reconcile
    BY <1>5 DEF Reconcile, NewRows, rowVars, history, TypeOK
<1>6. ASSUME NEW w \in Workers, NEW d \in Deliveries, Claim(w, d) PROVE Final
    BY <1>6, SweptRow, ClaimableRow, ExpiredInFlight DEF Claim, TypeOK
<1>7. ASSUME NEW w \in Workers, Sweep(w) PROVE Final
    BY <1>7, SweptRow DEF Sweep, TypeOK
<1>8. ASSUME NEW w \in Workers, NEW a \in Answers, Send(w, a) PROVE Final
    BY <1>8 DEF Send, rowVars, history
<1>9. ASSUME NEW w \in Workers, Finish(w) PROVE Final
    BY <1>9 DEF Finish, Current, rowVars, TypeOK
<1>10. ASSUME NEW w \in Workers, FinishFails(w) PROVE Final
    BY <1>10 DEF FinishFails, rowVars, history
<1>11. CASE Crash
    BY <1>11 DEF Crash, rowVars, history
<1>12. ASSUME NEW d \in Deliveries, ManualRetry(d) PROVE Final
    BY <1>12 DEF ManualRetry, rowVars, history, TypeOK
<1>13. ASSUME NEW d \in Deliveries, LeaseExpires(d) PROVE Final
    BY <1>13 DEF LeaseExpires, rowVars, history
<1>14. ASSUME NEW d \in Deliveries, BecomesDue(d) PROVE Final
    BY <1>14 DEF BecomesDue, rowVars, history
<1> QED
    BY <1>1, <1>2, <1>3, <1>4, <1>5, <1>6, <1>7, <1>8, <1>9, <1>10, <1>11, <1>12, <1>13,
       <1>14, <1>15 DEF Next, Replay

\* Outcomes are final, whoever reports late.
THEOREM OutcomesStayFinal == Spec => OutcomesAreFinal
<1>1. []TypeOK /\ [][Next]_vars => [][Final]_vars
    <2>1. TypeOK /\ [Next]_vars => [Final]_vars
        BY FinalStep
    <2> QED
        BY <2>1, PTL
<1> QED
    BY <1>1, OutboxTypeCorrect DEF Spec, OutcomesAreFinal, Final
================================================================================
