--------------------------- MODULE MCCameraOutput ---------------------------
(***************************************************************************)
(* Instances of CameraOutput for TLC: three pool headers, as               *)
(* CCameraOutput::Init asks for, and the values of the other constants in  *)
(* the .cfg files.                                                         *)
(***************************************************************************)
EXTENDS CameraOutput, TLC

\* The headers of a pool are interchangeable.
Symmetry == Permutations(Frames)

=============================================================================
