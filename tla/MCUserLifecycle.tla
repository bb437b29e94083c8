---------------------------- MODULE MCUserLifecycle ----------------------------
(* The instances of UserLifecycle that TLC checks. *)
EXTENDS UserLifecycle

=============================================================================
