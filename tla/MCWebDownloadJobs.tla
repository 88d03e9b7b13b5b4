--------------------------- MODULE MCWebDownloadJobs ---------------------------
\* WebDownloadJobs on small instances.
EXTENDS WebDownloadJobs, TLC

CONSTANTS j1, j2, t1, t2, c1, c2

\* Two jobs of different codes.
CodeOf2 == j1 :> c1 @@ j2 :> c2

\* Two jobs of the same code, which may not be active together.
CodeOf1 == j1 :> c1 @@ j2 :> c1

ThreadSymmetry == Permutations(Threads)
================================================================================
