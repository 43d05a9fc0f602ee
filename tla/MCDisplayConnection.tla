------------------------ MODULE MCDisplayConnection ------------------------
(* Instances of DisplayConnection for TLC. *)
EXTENDS DisplayConnection
=============================================================================
