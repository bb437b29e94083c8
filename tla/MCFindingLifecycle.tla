-------------------------- MODULE MCFindingLifecycle --------------------------
(* The instance of FindingLifecycle that TLC checks. *)
EXTENDS FindingLifecycle, TLC

=============================================================================
