------------------------------ MODULE MCCache ------------------------------
(* Two jobs of one supervisor that need the same payload and the same bundle, *)
(* and an old payload for the sweep to take; the cap is below all three.       *)
EXTENDS ArtifactCache

CONSTANTS first, second, s1, p, q, w

MCPayloadOf == [j \in Jobs |-> p]
MCBundleOf == [j \in Jobs |-> w]
MCHost == [j \in Jobs |-> s1]
====
