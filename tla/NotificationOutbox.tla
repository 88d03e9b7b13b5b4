--------------------------- MODULE NotificationOutbox ---------------------------
(***************************************************************************)
(* The notification outbox (notifications/outbox.py): events recorded in   *)
(* the transaction of the state change they report, one delivery row per   *)
(* event and registered adapter, and the dispatcher (dispatcher.py) that   *)
(* claims a row under a lease, sends it and records the outcome.  The      *)
(* process may crash at any point, an outcome may fail to be stored, a     *)
(* lease may run out under a slow transport, and the operator changes the  *)
(* adapters and retries dead deliveries.                                   *)
(*                                                                         *)
(* Time is what the code compares: next_attempt_at is reached or not, a    *)
(* lease has run out or not, an event is inside the backfill window or not.*)
(* Events beside those in Events are counted only: that they are newer is  *)
(* what a backfill, which takes the newest, goes by.                       *)
(***************************************************************************)
EXTENDS Naturals, FiniteSets

CONSTANTS
    Events, Adapters,
    Workers,       \* dispatcher threads on the database; the server starts one
    NoClaim,
    MaxAttempts,   \* max_attempts of the dispatcher (6 in the code)
    MaxBackfill,   \* MAX_ENABLE_BACKFILL_EVENTS (100 in the code)
    MaxRevive,     \* bound: manual retries of one delivery
    MaxCrashes,    \* bound: crashes of the process
    MaxReconfigs   \* bound: changes of the configuration

ASSUME OutboxAssumption ==
    /\ IsFiniteSet(Workers)
    /\ MaxAttempts \in Nat \ {0} /\ MaxBackfill \in Nat \ {0}
    /\ MaxRevive \in Nat /\ MaxCrashes \in Nat /\ MaxReconfigs \in Nat

Deliveries == Events \X Adapters

VARIABLES
    state,       \* notification_deliveries.state, "none" where there is no row
    attempts,    \* attempt_count
    due,         \* next_attempt_at has been reached
    lease,       \* lease_until: null, ahead, or passed
    token,       \* claim_token, as the worker whose claim wrote it
    recorded,    \* rows of notification_events
    recent,      \* events inside the backfill window
    newer,       \* how many events were recorded since each, up to MaxBackfill
    registry,    \* notification_adapter_registry
    configured,  \* the adapters of the installed dispatcher
    reconciled,  \* its _registry_reconciled
    claim,       \* what each worker is delivering
    \* history of the run, read by the properties only
    tries,       \* claims of each delivery
    confirmed,   \* 2xx answers the workers got for it
    recoveries,  \* expired leases taken back
    revived,     \* manual retries
    owed,        \* deliveries of events recorded while the adapter was enabled
    crashes, reconfigs

rowVars == <<state, attempts, due, lease, token>>
history == <<tries, confirmed, recoveries, revived, crashes, reconfigs>>
vars == <<rowVars, recorded, recent, newer, registry, configured, reconciled, claim,
          history, owed>>

Answers == {"ok", "retry", "dead"}
Claims == [row : Deliveries, attempt : 1..MaxAttempts, answer : Answers \cup {"none"}]

ASSUME NoClaimAssumption == NoClaim \notin Claims /\ NoClaim \notin Workers

TypeOK ==
    /\ state \in [Deliveries -> {"none", "pending", "inflight", "delivered", "dead"}]
    /\ attempts \in [Deliveries -> 0..MaxAttempts]
    /\ due \in [Deliveries -> BOOLEAN]
    /\ lease \in [Deliveries -> {"none", "live", "expired"}]
    /\ token \in [Deliveries -> Workers \cup {NoClaim}]
    /\ recorded \subseteq Events /\ recent \subseteq recorded
    /\ newer \in [Events -> 0..MaxBackfill]
    /\ registry \subseteq Adapters /\ configured \subseteq Adapters
    /\ reconciled \in BOOLEAN
    /\ claim \in [Workers -> Claims \cup {NoClaim}]
    /\ \A d \in Deliveries : lease[d] # "none" <=> state[d] = "inflight"

Init ==
    /\ state = [d \in Deliveries |-> "none"]
    /\ attempts = [d \in Deliveries |-> 0]
    /\ due = [d \in Deliveries |-> FALSE]
    /\ lease = [d \in Deliveries |-> "none"]
    /\ token = [d \in Deliveries |-> NoClaim]
    /\ recorded = {} /\ recent = {} /\ registry = {}
    /\ newer = [e \in Events |-> 0]
    /\ configured \in SUBSET Adapters
    /\ reconciled = FALSE
    /\ claim = [w \in Workers |-> NoClaim]
    /\ tries = [d \in Deliveries |-> 0]
    /\ confirmed = [d \in Deliveries |-> 0]
    /\ recoveries = [d \in Deliveries |-> 0]
    /\ revived = [d \in Deliveries |-> 0]
    /\ owed = {} /\ crashes = 0 /\ reconfigs = 0

--------------------------------------------------------------------------------
\* Producers and configuration.

\* Mutant: an event that is already recorded gets its rows again.
NewRowsReset(ds) ==
    /\ state' = [d \in Deliveries |-> IF d \in ds THEN "pending" ELSE state[d]]
    /\ due' = [d \in Deliveries |-> d \in ds \/ due[d]]
    /\ UNCHANGED <<attempts, lease, token>>

\* INSERT of pending rows, attempt_count 0 and due at once, for the given deliveries
\* (one that is already there is left alone: INSERT OR IGNORE).
NewRows(ds) ==
    LET fresh == {d \in ds : state[d] = "none"} IN
    /\ state' = [d \in Deliveries |-> IF d \in fresh THEN "pending" ELSE state[d]]
    /\ due' = [d \in Deliveries |-> d \in fresh \/ due[d]]
    /\ UNCHANGED <<attempts, lease, token>>

\* One more event is newer than all that are recorded.
OneMoreIsNewer ==
    newer' = [e \in Events |-> IF e \in recorded /\ newer[e] < MaxBackfill
                               THEN newer[e] + 1 ELSE newer[e]]

\* enqueue_notification_event: the rows are those of the registry, not of the
\* configuration.
Enqueue(e) ==
    /\ e \notin recorded
    /\ recorded' = recorded \cup {e}
    /\ recent' = recent \cup {e}
    /\ OneMoreIsNewer
    /\ NewRows({e} \X registry)
    /\ owed' = owed \cup ({e} \X configured)
    /\ UNCHANGED <<registry, configured, reconciled, claim, history>>

\* The same for an event that is none of Events.
EnqueueOther ==
    /\ \E e \in recorded : newer[e] < MaxBackfill
    /\ OneMoreIsNewer
    /\ UNCHANGED <<rowVars, recorded, recent, registry, configured, reconciled, claim,
                   history, owed>>

\* Mutant: a replay makes the rows of the event pending again.
ReplayRevives(e) ==
    /\ e \in recorded
    /\ NewRowsReset({e} \X registry)
    /\ UNCHANGED <<recorded, recent, newer, registry, configured, reconciled, claim,
                   history, owed>>

\* A replay, of an event that is recorded: its details are updated, its rows are not.
Replay(e) == e \in recorded /\ UNCHANGED vars

\* The configuration is saved and installed once the running cycle has drained.
Reconfigure(as) ==
    /\ as # configured /\ reconfigs < MaxReconfigs
    /\ reconfigs' = reconfigs + 1
    /\ \A w \in Workers : claim[w] = NoClaim
    /\ configured' = as
    /\ reconciled' = FALSE
    /\ owed' = owed \cap (Events \X as)
    /\ UNCHANGED <<rowVars, recorded, recent, newer, registry, claim,
                   tries, confirmed, recoveries, revived, crashes>>

\* Mutant: events recorded before the registry followed are not backfilled.
ReconcileNoBackfill ==
    /\ ~reconciled
    /\ reconciled' = TRUE
    /\ registry' = configured
    /\ UNCHANGED <<rowVars, recorded, recent, newer, configured, claim, history, owed>>

\* configure_adapters, before the first dispatch of a new dispatcher: rows of the
\* newest MaxBackfill recent events for the adapters that were not registered.
Reconcile ==
    /\ ~reconciled
    /\ reconciled' = TRUE
    /\ registry' = configured
    /\ NewRows({e \in recent : newer[e] < MaxBackfill} \X (configured \ registry))
    /\ UNCHANGED <<recorded, recent, newer, configured, claim, history, owed>>

--------------------------------------------------------------------------------
\* The dispatcher.

\* Mutant: a lease that has run out is left to its worker.
ExpiredNever == {}

\* _recover_expired, for the adapters of the dispatcher.
Expired == {d \in Deliveries : d[2] \in configured /\ lease[d] = "expired"}

\* Mutant: a recovered row is pending again however often it was tried.
SweptToPending(d) == IF d \in Expired THEN "pending" ELSE state[d]

\* _close_exhausted too; the state of each row after both.
Swept(d) ==
    IF d \in Expired \/ (state[d] = "pending" /\ d[2] \in configured)
    THEN IF attempts[d] >= MaxAttempts THEN "dead" ELSE "pending"
    ELSE state[d]

\* Rows a claim may take once it has swept.
Claimable(d) ==
    /\ d[2] \in configured /\ Swept(d) = "pending"
    /\ due[d] \/ d \in Expired

Free(w) == reconciled /\ configured # {} /\ claim[w] = NoClaim

\* claim, where a delivery is due.  next_attempt_at orders them: any may be first.
Claim(w, d) ==
    /\ Free(w) /\ Claimable(d)
    /\ state' = [[x \in Deliveries |-> Swept(x)] EXCEPT ![d] = "inflight"]
    /\ attempts' = [attempts EXCEPT ![d] = @ + 1]
    /\ due' = [x \in Deliveries |-> due[x] \/ x \in Expired]
    /\ lease' = [x \in Deliveries |-> IF x = d THEN "live"
                                      ELSE IF x \in Expired THEN "none" ELSE lease[x]]
    /\ token' = [x \in Deliveries |-> IF x = d THEN w
                                      ELSE IF x \in Expired THEN NoClaim ELSE token[x]]
    /\ claim' = [claim EXCEPT ![w] = [row |-> d, attempt |-> attempts[d] + 1,
                                      answer |-> "none"]]
    /\ tries' = [tries EXCEPT ![d] = @ + 1]
    /\ recoveries' = [x \in Deliveries |-> recoveries[x] + (IF x \in Expired THEN 1 ELSE 0)]
    /\ UNCHANGED <<recorded, recent, newer, registry, configured, reconciled,
                   confirmed, revived, crashes, reconfigs, owed>>

\* claim, where nothing is due: the sweep is committed all the same.
Sweep(w) ==
    /\ Free(w)
    /\ \A d \in Deliveries : ~Claimable(d)
    /\ state' = [d \in Deliveries |-> Swept(d)]
    /\ due' = [d \in Deliveries |-> due[d] \/ d \in Expired]
    /\ lease' = [d \in Deliveries |-> IF d \in Expired THEN "none" ELSE lease[d]]
    /\ token' = [d \in Deliveries |-> IF d \in Expired THEN NoClaim ELSE token[d]]
    /\ recoveries' = [d \in Deliveries |-> recoveries[d] + (IF d \in Expired THEN 1 ELSE 0)]
    /\ UNCHANGED <<attempts, recorded, recent, newer, registry, configured, reconciled, claim,
                   tries, confirmed, revived, crashes, reconfigs, owed>>

\* transport.send and _http_result: 2xx, an outcome to retry, or one that is final.
\* _retry_result makes the last attempt final.
Send(w, answer) ==
    /\ claim[w] # NoClaim /\ claim[w].answer = "none"
    /\ answer = "retry" => claim[w].attempt < MaxAttempts
    /\ claim' = [claim EXCEPT ![w].answer = answer]
    /\ confirmed' = IF answer = "ok"
                    THEN [confirmed EXCEPT ![claim[w].row] = @ + 1] ELSE confirmed
    /\ UNCHANGED <<rowVars, recorded, recent, newer, registry, configured, reconciled,
                   tries, recoveries, revived, crashes, reconfigs, owed>>

\* Mutant: neither token nor attempt is compared.
CurrentByState(w) ==
    LET d == claim[w].row IN state[d] = "inflight"

\* The WHERE of finish: anything else is "notification delivery claim is stale".
Current(w) ==
    LET d == claim[w].row IN
    state[d] = "inflight" /\ token[d] = w /\ attempts[d] = claim[w].attempt

\* Mutants: the outcome of any answer is a delivery; the lease is left on the row.
FinishDelivered(w) ==
    LET d == claim[w].row IN
    /\ claim[w] # NoClaim /\ claim[w].answer # "none"
    /\ claim' = [claim EXCEPT ![w] = NoClaim]
    /\ IF Current(w)
       THEN /\ state' = [state EXCEPT ![d] = "delivered"]
            /\ lease' = [lease EXCEPT ![d] = "none"]
            /\ UNCHANGED <<attempts, due, token>>
       ELSE UNCHANGED rowVars
    /\ UNCHANGED <<recorded, recent, newer, registry, configured, reconciled, history, owed>>
FinishKeepsLease(w) ==
    LET d == claim[w].row IN
    /\ claim[w] # NoClaim /\ claim[w].answer # "none"
    /\ claim' = [claim EXCEPT ![w] = NoClaim]
    /\ state' = [state EXCEPT ![d] = IF Current(w) THEN "delivered" ELSE @]
    /\ UNCHANGED <<attempts, due, lease, token, recorded, recent, newer, registry, configured,
                   reconciled, history, owed>>

\* finish.  A stale claim raises and changes nothing.
Finish(w) ==
    LET d == claim[w].row
        a == claim[w].answer IN
    /\ claim[w] # NoClaim /\ claim[w].answer # "none"
    /\ claim' = [claim EXCEPT ![w] = NoClaim]
    /\ IF Current(w)
       THEN /\ state' = [state EXCEPT ![d] = CASE a = "ok" -> "delivered"
                                               [] a = "retry" -> "pending"
                                               [] a = "dead" -> "dead"]
            /\ due' = [due EXCEPT ![d] = a # "retry"]
            /\ lease' = [lease EXCEPT ![d] = "none"]
            /\ token' = [token EXCEPT ![d] = NoClaim]
            /\ UNCHANGED attempts
       ELSE UNCHANGED rowVars
    /\ UNCHANGED <<recorded, recent, newer, registry, configured, reconciled, history, owed>>

\* The outcome could not be stored: the row stays inflight until its lease ends.
FinishFails(w) ==
    /\ claim[w] # NoClaim /\ claim[w].answer # "none"
    /\ claim' = [claim EXCEPT ![w] = NoClaim]
    /\ UNCHANGED <<rowVars, recorded, recent, newer, registry, configured, reconciled,
                   history, owed>>

\* The process dies; the next one builds its dispatcher from the same configuration.
Crash ==
    /\ crashes < MaxCrashes
    /\ crashes' = crashes + 1
    /\ claim' = [w \in Workers |-> NoClaim]
    /\ reconciled' = FALSE
    /\ UNCHANGED <<rowVars, recorded, recent, newer, registry, configured,
                   tries, confirmed, recoveries, revived, reconfigs, owed>>

\* manual_retry, whatever adapters are enabled.
ManualRetry(d) ==
    /\ state[d] = "dead" /\ revived[d] < MaxRevive
    /\ state' = [state EXCEPT ![d] = "pending"]
    /\ attempts' = [attempts EXCEPT ![d] = 0]
    /\ due' = [due EXCEPT ![d] = TRUE]
    /\ revived' = [revived EXCEPT ![d] = @ + 1]
    /\ UNCHANGED <<lease, token, recorded, recent, newer, registry, configured, reconciled,
                   claim, tries, confirmed, recoveries, crashes, reconfigs, owed>>

--------------------------------------------------------------------------------
\* The passing of time.

\* lease_seconds is longer than the transport's timeouts, but a slow answer
\* may still outlast it.
LeaseExpires(d) ==
    /\ lease[d] = "live"
    /\ lease' = [lease EXCEPT ![d] = "expired"]
    /\ UNCHANGED <<state, attempts, due, token, recorded, recent, newer, registry, configured,
                   reconciled, claim, history, owed>>

BecomesDue(d) ==
    /\ state[d] = "pending" /\ ~due[d]
    /\ due' = [due EXCEPT ![d] = TRUE]
    /\ UNCHANGED <<state, attempts, lease, token, recorded, recent, newer, registry, configured,
                   reconciled, claim, history, owed>>

\* An event leaves the window of ENABLE_BACKFILL_WINDOW_SECONDS.  A new dispatcher
\* is woken at once, so it has reconciled the registry long before.
Ages(e) ==
    /\ e \in recent /\ reconciled
    /\ \A x \in recent : newer[x] <= newer[e]
    /\ recent' = recent \ {e}
    /\ UNCHANGED <<rowVars, recorded, newer, registry, configured, reconciled, claim,
                   history, owed>>

Next ==
    \/ \E e \in Events : Enqueue(e) \/ Replay(e) \/ Ages(e)
    \/ EnqueueOther
    \/ \E as \in SUBSET Adapters : Reconfigure(as)
    \/ Reconcile
    \/ \E w \in Workers :
          \/ \E d \in Deliveries : Claim(w, d)
          \/ Sweep(w)
          \/ \E a \in Answers : Send(w, a)
          \/ Finish(w)
          \/ FinishFails(w)
    \/ Crash
    \/ \E d \in Deliveries : ManualRetry(d) \/ LeaseExpires(d) \/ BecomesDue(d)

Spec == Init /\ [][Next]_vars

\* The dispatcher thread loops for as long as the process lives, every send has a
\* timeout, and the clock advances.
Fairness ==
    /\ WF_vars(Reconcile)
    /\ \A w \in Workers : /\ WF_vars(Sweep(w))
                          /\ WF_vars(\E a \in Answers : Send(w, a))
                          /\ WF_vars(Finish(w))
    /\ \A d \in Deliveries : /\ WF_vars(\E w \in Workers : Claim(w, d))
                             /\ WF_vars(LeaseExpires(d))
                             /\ WF_vars(BecomesDue(d))

FairSpec == Spec /\ Fairness

--------------------------------------------------------------------------------
\* Properties.

\* A delivery recorded as delivered was answered with a 2xx: neither a crash, a
\* stale outcome nor a recovered lease marks one that nobody received.
DeliveredWasConfirmed ==
    \A d \in Deliveries : state[d] = "delivered" => confirmed[d] > 0

\* However workers crash, hang and recover each other's rows, an adapter sees at
\* most max_attempts tries of an event for each time the operator asks.
TriesBounded ==
    \A d \in Deliveries : tries[d] <= MaxAttempts * (1 + revived[d])

\* An event is delivered twice only if a lease ran out: each further 2xx of one
\* delivery has a recovered lease to account for it.
DuplicatesNeedExpiredLease ==
    \A d \in Deliveries : confirmed[d] <= 1 + recoveries[d]

\* Sends and confirmations are accounted for, whatever crashes, hangs and comes late: none
\* is claimed that was not, none is made beyond the attempts, none twice without a lease
\* that ran out.
SendsAreAccounted == DeliveredWasConfirmed /\ TriesBounded /\ DuplicatesNeedExpiredLease

\* Two workers deliver the same row only where the first one's lease was taken back.
OneWorkerPerLease ==
    \A v, w \in Workers :
        /\ claim[v] # NoClaim /\ claim[w] # NoClaim /\ v # w
        /\ claim[v].row = claim[w].row
        => ~(Current(v) /\ Current(w))  /\ recoveries[claim[w].row] > 0

\* An event recorded while an adapter was enabled has a delivery for it once the
\* registry follows the configuration, also when it was recorded in between: it may be
\* left out only if MAX_ENABLE_BACKFILL_EVENTS newer ones are recorded.
EnabledAdapterIsServed ==
    reconciled => \A d \in owed : state[d] # "none" \/ newer[d[1]] >= MaxBackfill

\* Outcomes are final: a delivered row never changes, a dead one only by manual_retry.
OutcomesAreFinal ==
    [][\A d \in Deliveries :
          /\ state[d] = "delivered" => state'[d] = "delivered"
          /\ state[d] = "dead" => state'[d] = "dead" \/ ManualRetry(d)]_vars

\* A delivery of an enabled adapter reaches an outcome.
DeliveryEnds ==
    \A d \in Deliveries :
        (state[d] \in {"pending", "inflight"} /\ d[2] \in configured)
            ~> (state[d] \in {"delivered", "dead"} \/ d[2] \notin configured)
================================================================================
