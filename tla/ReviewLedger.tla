---------------------------- MODULE ReviewLedger ----------------------------
(***************************************************************************)
(* What the observation pipeline promises to the gateway, which reads only  *)
(* the latest b_state row of a run before each call of A: every run has one *)
(* current snapshot; it moves forward in the order of the observations,     *)
(* takes each observation at most once, and a failed review replaces the    *)
(* claim findings but never the age or the version of the memory.           *)
(* Workers, leases, locks, retries and crashes do not appear.               *)
(***************************************************************************)
EXTENDS Naturals

CONSTANTS Run, Job, RunOf, ObservedAt, MemoryEnabled

VARIABLES
    snapshot,   \* per run: the observation time of the latest row, and the
                \* version and observation time of the memory it carries
    taken       \* the observations that have produced a row

ledgerVars == <<snapshot, taken>>

Init ==
    /\ snapshot = [r \in Run |-> [observed |-> 0, version |-> 0, asOf |-> 0]]
    /\ taken = {}

Newer(j) ==
    /\ j \notin taken
    /\ snapshot[RunOf[j]].observed < ObservedAt[j]

(* A completed review renews the memory.                                    *)
Complete(j) ==
    /\ Newer(j)
    /\ MemoryEnabled
    /\ taken' = taken \union {j}
    /\ snapshot' = [snapshot EXCEPT ![RunOf[j]] =
            [observed |-> ObservedAt[j], version |-> @.version + 1, asOf |-> ObservedAt[j]]]

(* A degraded review, or any review while memory is off, keeps the memory.  *)
KeepMemory(j) ==
    /\ Newer(j)
    /\ taken' = taken \union {j}
    /\ snapshot' = [snapshot EXCEPT ![RunOf[j]] =
            [observed |-> ObservedAt[j], version |-> @.version, asOf |-> @.asOf]]

Next == \E j \in Job : Complete(j) \/ KeepMemory(j)

Spec == Init /\ [][Next]_ledgerVars
=============================================================================
