--------------------------- MODULE MCLaserOdometry ---------------------------
(* Constants of the model-checking run. *)
EXTENDS LaserOdometry

MCStartPoses == {0, -1}
=============================================================================
