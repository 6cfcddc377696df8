-------------------------- MODULE DifferenceSyncMC --------------------------
(* DifferenceSync with values for its constants. *)
EXTENDS DifferenceSync

CONSTANTS c1, c2
=============================================================================
