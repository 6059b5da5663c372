----------------------------- MODULE MCUpgrade -----------------------------
(* Two targets newer than the daemon's version, and one that is no version.  *)
EXTENDS AutoUpgrade

MCTargets == {2, 3, Malformed}
=============================================================================
