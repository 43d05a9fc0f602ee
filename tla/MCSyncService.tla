---------------------------- MODULE MCSyncService ----------------------------
(* Instances of SyncService for TLC.                                       *)
EXTENDS SyncService, TLC

CONSTANTS r1, r2, i1, i2

OneInstance == [r \in Requests |-> i1]
TwoInstances == (r1 :> i1 @@ r2 :> i2)

NoSkew == 0
DbBehind == -1

(* Requests of one instance are interchangeable.                           *)
RequestSymmetry == Permutations(Requests)
=============================================================================
