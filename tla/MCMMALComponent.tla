-------------------------- MODULE MCMMALComponent ---------------------------
(* Instances of MMALComponent.                                             *)
EXTENDS MMALComponent

=============================================================================
