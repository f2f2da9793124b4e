--------------------------- MODULE MCReviewCycle ---------------------------
(***************************************************************************)
(* An instance of ReviewCycle for TLC: two scopes, and an evidence budget   *)
(* that two cycles can exhaust.                                             *)
(***************************************************************************)
EXTENDS ReviewCycle
============================================================================
