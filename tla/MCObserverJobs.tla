--------------------------- MODULE MCObserverJobs ---------------------------
(***************************************************************************)
(* An instance of ObserverJobs for TLC: two workers and one run with three  *)
(* observations.                                                            *)
(***************************************************************************)
EXTENDS ObserverJobs, TLC

CONSTANTS j1, j2, j3, r1, w1, w2

(* j1 was observed before j2 but its outbox row got the larger id; j3 was   *)
(* observed at the same time as j2.                                         *)
ThreeJobs == {j1, j2, j3}
OneRunOf == j1 :> r1 @@ j2 :> r1 @@ j3 :> r1
OneRunObservedAt == j1 :> 1 @@ j2 :> 2 @@ j3 :> 2
OneRunRowId == j1 :> 2 @@ j2 :> 1 @@ j3 :> 3
=============================================================================
