------------------------------ MODULE MCSession ------------------------------
(* Small instances of SupervisorSession for TLC: two jobs, the first of      *)
(* which dispatch may requeue as attempt 2.                                  *)
EXTENDS SupervisorSession

CONSTANTS j1, j2

TwoJobs == {j1, j2}

\* Attempt 1 and its requeue, and another job.
ThreeLeases == {[job |-> j1, attempt |-> 1], [job |-> j1, attempt |-> 2],
                [job |-> j2, attempt |-> 1]}

\* Two different jobs.
TwoLeases == {[job |-> j1, attempt |-> 1], [job |-> j2, attempt |-> 1]}
=============================================================================
