-------------------------- MODULE MCDisplayWindow --------------------------
(* Instances of DisplayWindow for TLC. *)
EXTENDS DisplayWindow

(* Two changes with a trouble, or one with three, or five troubles.        *)
Several == {b \in (0..2) \X (0..5) : 2 * b[1] + b[2] <= 5}
OneTrouble == {0} \X (0..1)
=============================================================================
