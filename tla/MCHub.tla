------------------------------- MODULE MCHub -------------------------------
(***************************************************************************)
(* An instance of Hub for TLC.  Lobe A has a primary of its own and both    *)
(* shared slots; lobe B's primary is the first of the shared slots, which   *)
(* HubAdapter registers once.                                               *)
(***************************************************************************)
EXTENDS Hub

CONSTANTS c1, c2, c3, pa, s1, s2

ThreeSlots == <<pa, s1, s2>>
(* c1 and c2 are calls of lobe A, c3 is one of lobe B.                      *)
TwoLobes == [c \in Call |-> IF c = c3 THEN {s1, s2} ELSE {pa, s1, s2}]
============================================================================
