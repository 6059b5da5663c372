---------------------------- MODULE LeaseContract ----------------------------
(***************************************************************************)
(* What a supervisor promises dispatch about the leases it is given,       *)
(* without saying how: no channel, no JoinHandles, no queue of acks.       *)
(*                                                                         *)
(* A present node runs at most one lease nobody asked it to stop.  It      *)
(* reports a lease only as it ended, acks a cancel only for a lease that   *)
(* was canceled and then failed, and goes away only when nothing runs.     *)
(***************************************************************************)
EXTENDS Naturals

CONSTANT Leases     \* the leases dispatch may assign

VARIABLES
  node,    \* "away", "present", "leaving" or "gone"
  lease,   \* where each lease is
  asked,   \* leases dispatch asked the node to stop
  word     \* frames the node handed to its socket

contractVars == <<node, lease, asked, word>>

Outcomes == {"complete", "failed", "panicked"}
Runs(l) == lease[l] \in {"held", "stopping"}
Says(k, l) == word' = word \cup {[kind |-> k, lease |-> l]}

ContractInit ==
  /\ node = "away"
  /\ lease = [l \in Leases |-> "fresh"]
  /\ asked = {} /\ word = {}

Arrive == node = "away" /\ node' = "present" /\ UNCHANGED <<lease, asked, word>>

\* A lease is taken only while no other is held; taking it is announced.
Take(l) ==
  /\ node = "present" /\ lease[l] = "fresh"
  /\ \A m \in Leases : lease[m] # "held"
  /\ lease' = [lease EXCEPT ![l] = "held"]
  /\ Says("accepted", l)
  /\ UNCHANGED <<node, asked>>

\* A lease is turned down, or lost because the acceptance could not be sent.
TurnDown(l) ==
  /\ node = "present" /\ lease[l] = "fresh"
  /\ lease' = [lease EXCEPT ![l] = "refused"]
  /\ node' \in {"present", "leaving"}
  /\ UNCHANGED <<asked, word>>

\* Dispatch cancels the lease that was taken last.
AskToStop(l) ==
  /\ node = "present" /\ lease[l] \notin {"fresh", "refused", "stopping"}
  /\ l \notin asked
  /\ asked' = asked \cup {l}
  /\ lease' = IF lease[l] = "held" THEN [lease EXCEPT ![l] = "stopping"] ELSE lease
  /\ UNCHANGED <<node, word>>

End(l, outcome) ==
  /\ Runs(l)
  /\ lease' = [lease EXCEPT ![l] = outcome]
  /\ UNCHANGED <<node, asked, word>>

Report(k, l) ==
  /\ node = "present"
  /\ lease[l] = IF k = "rejected" THEN "refused" ELSE k
  /\ k \in {"complete", "failed", "rejected"}
  /\ Says(k, l)
  /\ UNCHANGED <<node, lease, asked>>

\* The witness: a cancel is acked only when its render failed, and is over.
Ack(l) ==
  /\ node = "present" /\ lease[l] = "failed" /\ l \in asked
  /\ [kind |-> "ack", lease |-> l] \notin word
  /\ Says("ack", l)
  /\ UNCHANGED <<node, lease, asked>>

\* The socket is closed or lost: what is still held must stop.
Leave ==
  /\ node = "present" /\ node' = "leaving"
  /\ lease' = [l \in Leases |-> IF lease[l] = "held" THEN "stopping" ELSE lease[l]]
  /\ UNCHANGED <<asked, word>>

Depart ==
  /\ node \in {"leaving", "away"}
  /\ \A l \in Leases : ~Runs(l)
  /\ node' \in {"away", "gone"}
  /\ UNCHANGED <<lease, asked, word>>

ContractNext ==
  \/ Arrive \/ Leave \/ Depart
  \/ \E l \in Leases : Take(l) \/ TurnDown(l) \/ AskToStop(l) \/ Ack(l)
  \/ \E l \in Leases, o \in Outcomes : End(l, o)
  \/ \E l \in Leases, k \in {"complete", "failed", "rejected"} : Report(k, l)

ContractSpec == ContractInit /\ [][ContractNext]_contractVars
=============================================================================
