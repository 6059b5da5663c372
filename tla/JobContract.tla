----------------------------- MODULE JobContract -----------------------------
(***************************************************************************)
(* What one job task promises the connection loop that holds its handle,   *)
(* without saying how: no stdin or stdout, no signals, no timers.  `task`  *)
(* takes the values, and the steps, that SupervisorSession gives the task  *)
(* of a lease.                                                             *)
(***************************************************************************)
VARIABLES
  task,     \* "running", "stopping" (told to), "complete" or "failed"
  leader,   \* the runner process: "none", "alive" or "dead"
  content   \* the job's workdir: "none", "present", "gone", or "left" behind
            \* and recorded as a failed purge

contractVars == <<task, leader, content>>

Live == task \in {"running", "stopping"}

ContractInit == task = "running" /\ leader = "none" /\ content = "none"

ToldToStop == task = "running" /\ task' = "stopping" /\ UNCHANGED <<leader, content>>

Unpack ==
  /\ Live /\ content = "none"
  /\ content' = "present"
  /\ UNCHANGED <<task, leader>>

\* A runner is started in its workdir, once.
Start ==
  /\ Live /\ content = "present" /\ leader = "none"
  /\ leader' = "alive"
  /\ UNCHANGED <<task, content>>

Die == leader = "alive" /\ leader' = "dead" /\ UNCHANGED <<task, content>>

\* Customer content goes only after the process that writes it.
Purge ==
  /\ Live /\ content = "present" /\ leader # "alive"
  /\ content' \in {"gone", "left"}
  /\ UNCHANGED <<task, leader>>

\* The outcome is told last; success needs a runner that ran and ended.
End ==
  /\ Live /\ content # "present" /\ leader # "alive"
  /\ task' \in {"failed"} \cup (IF leader = "dead" THEN {"complete"} ELSE {})
  /\ UNCHANGED <<leader, content>>

ContractNext == ToldToStop \/ Unpack \/ Start \/ Die \/ Purge \/ End

ContractSpec == ContractInit /\ [][ContractNext]_contractVars
=============================================================================
