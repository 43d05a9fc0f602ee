-------------------------- MODULE MCPlaybackEngine --------------------------
(* Instances of PlaybackEngine for TLC. *)
EXTENDS PlaybackEngine

BeforeEpoch == -1
=============================================================================
