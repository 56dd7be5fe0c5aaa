----------------------------- MODULE MCMMALPort ------------------------------
(* Instances of MMALPort.                                                   *)
EXTENDS MMALPort, TLC

Symmetry == Permutations(Buffers) \cup Permutations(Controllers)

=============================================================================
