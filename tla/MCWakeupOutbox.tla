--------------------------- MODULE MCWakeupOutbox ---------------------------
(* Instances of WakeupOutbox for TLC.                                      *)
EXTENDS WakeupOutbox

CONSTANTS w1, w2, i1, i2
=============================================================================
