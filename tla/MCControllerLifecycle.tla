------------------------ MODULE MCControllerLifecycle ------------------------
(* An instance of ControllerLifecycle for TLC. *)
EXTENDS ControllerLifecycle
=============================================================================
