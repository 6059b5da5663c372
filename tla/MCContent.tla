----------------------------- MODULE MCContent -----------------------------
(* Two jobs of one supervisor, a video checked with tools and a still; a      *)
(* sibling supervisor with a directory; a foreign directory; one crash; a     *)
(* failure list of one.                                                       *)
EXTENDS NodeContent

CONSTANTS v, s, o, f, p1, p2

MCClaim == [j \in Jobs |-> [frames |-> 4, sized |-> TRUE, width |-> 3, height |-> 2]]

Picture == [size |-> 32, decodes |-> TRUE, frames |-> 4, width |-> 3, height |-> 2,
            shown |-> 0 .. 3, bright |-> {2}]
\* Black in every frame that is sampled, though not in all.
Black == [Picture EXCEPT !.bright = {1}]

MCFiles == [j \in Jobs |-> IF j \in Stills THEN {NoFile} ELSE {Picture, Black}]
====
