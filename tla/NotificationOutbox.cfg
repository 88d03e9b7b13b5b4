\* One delivery and two dispatcher threads: leases, late outcomes, retries, backfill,
\* and that the delivery ends under the threads' fairness (hence no symmetry).
CONSTANTS
    Events = {e1}
    Adapters = {a1}
    Workers = {w1, w2}
    NoClaim = NoClaim
    MaxAttempts = 3
    MaxBackfill = 1
    MaxRevive = 1
    MaxCrashes = 1
    MaxReconfigs = 2
SPECIFICATION FairSpec
INVARIANTS
    TypeOK
    SendsAreAccounted
    OneWorkerPerLease
    EnabledAdapterIsServed
PROPERTIES
    OutcomesAreFinal
    DeliveryEnds
\* With no adapter enabled and the bounded commands used up the outbox is at rest.
CHECK_DEADLOCK FALSE
