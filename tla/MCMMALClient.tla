---------------------------- MODULE MCMMALClient ----------------------------
(***************************************************************************)
(* Instances of MMALClient for TLC; the .cfg files give the constants.     *)
(***************************************************************************)
EXTENDS MMALClient, TLC

\* The callers with a component are interchangeable, and so are the waiters.
Symmetry == Permutations(Callers \ Visitors) \cup Permutations(Waiters)

=============================================================================
