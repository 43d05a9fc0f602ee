-------------------------------- MODULE MCHub --------------------------------
(* Instances of Hub for TLC. *)
EXTENDS Hub, TLC

(* Notices by topic.                                                       *)
Syncs(n) == [t \in Topics |-> IF t = Global THEN n ELSE 0]
OneSync == Syncs(1)
TwoSyncs == Syncs(2)

ClientSymmetry == Permutations(Clients)
=============================================================================
