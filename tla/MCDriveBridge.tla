---------------------------- MODULE MCDriveBridge ----------------------------
(* Values for the constants of DriveBridge in TLC's runs. *)
EXTENDS DriveBridge

Motion(lin, ang) == [kind |-> "motion", twist |-> <<lin, ang>>]
Lock(on) == [kind |-> "lock", state |-> on, marker |-> TRUE]
BadLock == [kind |-> "lock", state |-> TRUE, marker |-> FALSE]

(* With MaxSpeed = 2 and Scale = 2: stick released, forward at full speed   *)
(* (clamped), half speed, and a twist too small to move, which is a stop.  *)
Still   == Motion(0, 0)
Forward == Motion(3, 0)
Tiny    == Motion(0, 1)
Broken  == [kind |-> "motion", twist |-> NonFinite]

Mixed   == {Tiny, Forward, Broken, Lock(TRUE), Lock(FALSE), BadLock}
Basic   == {Still, Forward, Lock(TRUE), Lock(FALSE)}
(* ... with the one that ends the receive thread. *)
Fatal   == Basic \cup {Broken}
=============================================================================
