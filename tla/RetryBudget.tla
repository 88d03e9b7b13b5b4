------------------------------ MODULE RetryBudget ------------------------------
(***************************************************************************)
(* The automatic retries of one Web download job (job_store.py: update,    *)
(* defer_transient_failure and the statements that touch retry_count and   *)
(* retry_progress): after a transient failure the job waits and tries      *)
(* again, at most MaxDeferrals times in a row; a run that gets on by       *)
(* Threshold gives the job its whole budget back.                          *)
(*                                                                         *)
(* Bytes and fragments of the checkpoint are compared in the same way and  *)
(* either is enough; one number stands for them.                           *)
(***************************************************************************)
EXTENDS Integers

CONSTANTS
    MaxDeferrals,   \* len(LONG_RETRY_DELAYS_SECONDS)
    Threshold,      \* RETRY_PROGRESS_FRAGMENTS, RETRY_PROGRESS_BYTES
    NoBase,
    MaxCheckpoint,  \* bound: the size of the media
    MaxGained       \* bound: what the worker downloads in all

ASSUME BudgetAssumption ==
    /\ MaxDeferrals \in Nat \ {0} /\ Threshold \in Nat \ {0}
    /\ MaxCheckpoint \in Nat /\ MaxGained \in Nat
    /\ NoBase \notin Int

VARIABLES
    place,       \* status: pending, in a slot, paused, failed or otherwise ended
    retryCount,  \* retry_count
    base,        \* retry_progress_*: the checkpoint the run is measured against
    checkpoint,  \* checkpoint_*
    \* history since the operator last started the job
    deferrals,   \* automatic retries
    credits,     \* times the budget was given back
    gained,      \* all forward movement of the checkpoint
    runGained    \* what progress events reported in this run since a reset

row == <<place, retryCount, base, checkpoint>>
vars == <<row, deferrals, credits, gained, runGained>>

Checkpoints == 0..MaxCheckpoint

TypeOK ==
    /\ place \in {"pending", "slot", "paused", "failed", "ended"}
    /\ retryCount \in 0..MaxDeferrals
    /\ base \in Checkpoints \cup {NoBase}
    /\ checkpoint \in Checkpoints
    /\ deferrals \in Nat /\ credits \in Nat /\ gained \in Nat /\ runGained \in Nat

Init ==
    /\ place = "pending" /\ retryCount = 0 /\ base = NoBase /\ checkpoint = 0
    /\ deferrals = 0 /\ credits = 0 /\ gained = 0 /\ runGained = 0

Advance(n) == IF n > checkpoint THEN n - checkpoint ELSE 0
Enough(n) == base # NoBase /\ n - base >= Threshold

\* Mutants: the run is not measured; or against what an earlier one had.
ClaimUnmeasured ==
    /\ place = "pending"
    /\ place' = "slot"
    /\ base' = NoBase
    /\ runGained' = 0
    /\ UNCHANGED <<retryCount, checkpoint, deferrals, credits, gained>>
ClaimFromZero ==
    /\ place = "pending"
    /\ place' = "slot"
    /\ base' = IF retryCount > 0 THEN 0 ELSE NoBase
    /\ runGained' = 0
    /\ UNCHANGED <<retryCount, checkpoint, deferrals, credits, gained>>

\* claim_next_runnable: a job that has been retried is measured from here.
Claim ==
    /\ place = "pending"
    /\ place' = "slot"
    /\ base' = IF retryCount > 0 THEN checkpoint ELSE NoBase
    /\ runGained' = 0
    /\ UNCHANGED <<retryCount, checkpoint, deferrals, credits, gained>>

\* Mutant: only a deferral looks at what the run has gained.
ProgressUnseen(n) ==
    /\ place = "slot" /\ n >= checkpoint
    /\ gained + Advance(n) <= MaxGained
    /\ checkpoint' = n
    /\ base' = IF retryCount > 0 THEN n ELSE base
    /\ gained' = gained + Advance(n)
    /\ runGained' = runGained + Advance(n)
    /\ UNCHANGED <<place, retryCount, deferrals, credits>>

\* update with the checkpoint of a progress event; one that moves backwards is refused.
Progress(n) ==
    /\ place = "slot" /\ n >= checkpoint
    /\ gained + Advance(n) <= MaxGained
    /\ checkpoint' = n
    /\ IF retryCount > 0 /\ Enough(n)
       THEN /\ retryCount' = 0 /\ base' = NoBase
            /\ credits' = credits + 1
       ELSE /\ base' = IF retryCount > 0 /\ base = NoBase THEN n ELSE base
            /\ UNCHANGED <<retryCount, credits>>
    /\ gained' = gained + Advance(n)
    /\ runGained' = runGained + Advance(n)
    /\ UNCHANGED <<place, deferrals>>

\* checkpoint_reset: the media changed and the checkpoint starts over.
ResetCheckpoint(n) ==
    /\ place = "slot"
    /\ gained + Advance(n) <= MaxGained
    /\ checkpoint' = n
    /\ base' = IF retryCount > 0 THEN n ELSE base
    /\ gained' = gained + Advance(n)
    /\ runGained' = 0
    /\ UNCHANGED <<place, retryCount, deferrals, credits>>

\* checkpoint_reconcile: what is found on disk counts, but is not this run's work.
Reconcile(n) ==
    /\ place = "slot" /\ n >= checkpoint
    /\ gained + Advance(n) <= MaxGained
    /\ checkpoint' = n
    /\ gained' = gained + Advance(n)
    /\ UNCHANGED <<place, retryCount, base, deferrals, credits, runGained>>

\* Mutant: the limit is off by one.
DeferOnceMore(n, snapshot, reset) ==
    /\ place = "slot" /\ n >= checkpoint /\ ~reset
    /\ gained + Advance(n) <= MaxGained
    /\ checkpoint' = n /\ base' = NoBase
    /\ IF retryCount <= MaxDeferrals
       THEN place' = "pending" /\ retryCount' = retryCount + 1 /\ deferrals' = deferrals + 1
       ELSE place' = "failed" /\ UNCHANGED <<retryCount, deferrals>>
    /\ gained' = gained + Advance(n)
    /\ UNCHANGED <<credits, runGained>>

\* defer_transient_failure for a failure with a checkpoint (snapshot), after a reset of
\* it, or without one (a capture failure).
Defer(n, snapshot, reset) ==
    LET credit == retryCount > 0 /\ snapshot /\ ~reset /\ Enough(n)
        count == IF credit THEN 0 ELSE retryCount IN
    /\ place = "slot"
    /\ reset => snapshot
    /\ ~snapshot => n = checkpoint
    /\ ~reset => n >= checkpoint
    /\ gained + Advance(n) <= MaxGained
    /\ checkpoint' = n
    /\ base' = NoBase
    /\ credits' = IF credit THEN credits + 1 ELSE credits
    /\ IF count < MaxDeferrals
       THEN place' = "pending" /\ retryCount' = count + 1 /\ deferrals' = deferrals + 1
       ELSE place' = "failed" /\ UNCHANGED <<retryCount, deferrals>>
    /\ gained' = gained + Advance(n)
    /\ UNCHANGED runGained

\* requeue_interrupted, recover_interrupted, finish_pausing: the run does not count.
Interrupt(p) ==
    /\ place = "slot" /\ p \in {"pending", "paused"}
    /\ place' = p
    /\ base' = NoBase
    /\ UNCHANGED <<retryCount, checkpoint, deferrals, credits, gained, runGained>>

\* pause and resume of a job that waits.
Hold == place = "pending" /\ place' = "paused"
Resume == place = "paused" /\ place' = "pending"
HoldOrResume ==
    (Hold \/ Resume) /\ UNCHANGED <<retryCount, base, checkpoint, deferrals, credits,
                                    gained, runGained>>

\* Any other end: completed, cancelled or a permanent failure.
End(count) ==
    /\ place \in {"pending", "slot", "paused"}
    /\ place' = "ended"
    /\ count \in {0, retryCount}
    /\ retryCount' = count
    /\ base' = NoBase
    /\ UNCHANGED <<checkpoint, deferrals, credits, gained, runGained>>

\* retry (keeps the checkpoint) and restart (does not) by the operator.
Again(n) ==
    /\ place \in {"failed", "ended"}
    /\ n \in {0, checkpoint}
    /\ place' = "pending" /\ retryCount' = 0 /\ base' = NoBase /\ checkpoint' = n
    /\ deferrals' = 0 /\ credits' = 0 /\ gained' = 0 /\ runGained' = 0

Next ==
    \/ Claim \/ HoldOrResume
    \/ \E n \in Checkpoints :
          \/ Progress(n) \/ ResetCheckpoint(n) \/ Reconcile(n) \/ Again(n)
          \/ \E snapshot, reset \in BOOLEAN : Defer(n, snapshot, reset)
    \/ \E p \in {"pending", "paused"} : Interrupt(p)
    \/ \E count \in 0..MaxDeferrals : End(count)

Spec == Init /\ [][Next]_vars

--------------------------------------------------------------------------------
\* Properties.

\* However runs fail, are interrupted, paused or reset, the job retries itself at most
\* MaxDeferrals times, and as often again for each Threshold it has really downloaded:
\* a source that never delivers is not tried forever.
RetriesAreEarned ==
    /\ deferrals <= MaxDeferrals * (1 + credits)
    /\ Threshold * credits <= gained

\* A job is given up only in a run that reported less than Threshold: progress that a
\* run has made counts for that run, and is not measured against another one.
GivenUpWithoutProgress ==
    [][place = "slot" /\ place' = "failed" => runGained < Threshold]_vars

\* A run that may be credited is one that is measured, and from no later than its start.
RetriedRunIsMeasured ==
    place = "slot" /\ retryCount > 0 => base # NoBase /\ checkpoint - base >= runGained

\* A retry is paid for by the budget or by progress, and the progress is that of the run
\* it is credited to: through pauses, resets, recoveries and manual retries.
BudgetIsKept == RetriesAreEarned /\ RetriedRunIsMeasured
================================================================================
