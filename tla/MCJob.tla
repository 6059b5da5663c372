-------------------------------- MODULE MCJob --------------------------------
(* RunnerJob with one helper and two browsers, or fewer, and short limits.   *)
EXTENDS RunnerJob

CONSTANTS h1, b1, b2

OneHelper == {h1}
OneBrowser == {b1}
TwoBrowsers == {b1, b2}
NoBrowsers == {}
=============================================================================
