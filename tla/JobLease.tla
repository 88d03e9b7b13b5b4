-------------------------------- MODULE JobLease --------------------------------
(***************************************************************************)
(* What the Web download dispatcher promises about work in progress: a job *)
(* is worked on by one thread at a time and a thread works on one job at a *)
(* time.  A thread takes a job nobody holds, works, and gives it back; the *)
(* end of the process takes every job from everybody.                      *)
(* WebDownloadJobs is shown to implement it.                               *)
(***************************************************************************)
CONSTANTS Jobs, Threads

VARIABLE holders  \* job -> the threads at work on it

Init == holders = [j \in Jobs |-> {}]

Take(t, j) ==
    /\ holders[j] = {}
    /\ \A k \in Jobs : t \notin holders[k]
    /\ holders' = [holders EXCEPT ![j] = {t}]

GiveBack(t, j) ==
    /\ t \in holders[j]
    /\ holders' = [holders EXCEPT ![j] = @ \ {t}]

ProcessEnds == holders' = [j \in Jobs |-> {}]

Next ==
    \/ \E t \in Threads, j \in Jobs : Take(t, j) \/ GiveBack(t, j)
    \/ ProcessEnds

Spec == Init /\ [][Next]_holders
================================================================================
