--------------------------- MODULE MCCameraSetup ----------------------------
(* Instances of CameraSetup: which calls may fail, with and without a       *)
(* conversion.                                                              *)
EXTENDS CameraSetup

Anything == Calls \X BOOLEAN

=============================================================================
