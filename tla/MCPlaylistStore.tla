--------------------------- MODULE MCPlaylistStore ---------------------------
(* Instances of PlaylistStore for TLC. *)
EXTENDS PlaylistStore, TLC

RequestSymmetry == Permutations(Requests)
=============================================================================
