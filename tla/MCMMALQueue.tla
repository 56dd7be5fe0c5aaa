----------------------------- MODULE MCMMALQueue -----------------------------
(***************************************************************************)
(* Instances of MMALQueue for TLC; the .cfg files say who gets and who     *)
(* puts.                                                                   *)
(***************************************************************************)
EXTENDS MMALQueue, TLC

\* Headers that are only put at the end are interchangeable.
Symmetry == Permutations(Buffers \ Backs)

=============================================================================
