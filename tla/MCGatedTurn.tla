---------------------------- MODULE MCGatedTurn ----------------------------
(***************************************************************************)
(* Instances of GatedTurn for TLC: two overlapping turns of a run, one      *)
(* streamed and one buffered.                                               *)
(***************************************************************************)
EXTENDS GatedTurn

CONSTANTS t1, t2
============================================================================
