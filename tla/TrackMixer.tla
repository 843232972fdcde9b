------------------------------ MODULE TrackMixer ------------------------------
(***************************************************************************)
(* The conversion of the PC's twist (linear, angular) into the two track   *)
(* speeds of the DDSM115 motors: ESP32Bridge._twist_to_lr of UDP.py.       *)
(*                                                                         *)
(* A float of the program is an integer number of 1/Scale units, so that   *)
(* the multiplication by MAX_SPEED is exact and only the truncation of     *)
(* int() and the clamp remain.  A NaN or an infinity of the wire is the    *)
(* value NonFinite: int() raises on it.                                    *)
(***************************************************************************)
EXTENDS Integers

CONSTANTS
  MaxSpeed,     \* MAX_SPEED, the largest |rpm| the motors take
  Scale,        \* units of the fixed-point number that stands for 1.0
  NonFinite     \* a twist with a NaN or an infinite component

ASSUME MixerAssumption ==
  /\ MaxSpeed \in Nat \ {0}
  /\ Scale \in Nat \ {0}
  /\ NonFinite \notin Int \X Int

Speeds == -MaxSpeed .. MaxSpeed
Commands == [l : Speeds, r : Speeds]
Zero == [l |-> 0, r |-> 0]

(* int(a / b) of Python: truncation toward zero. *)
TruncDiv(a, b) == IF a >= 0 THEN a \div b ELSE -((-a) \div b)

(* Variant: only the lower bound is kept. *)
ClampBelow(v) == IF v < -MaxSpeed THEN -MaxSpeed ELSE v

(* max(-MAX_SPEED, min(MAX_SPEED, v)) *)
Clamp(v) ==
  IF v > MaxSpeed THEN MaxSpeed ELSE IF v < -MaxSpeed THEN -MaxSpeed ELSE v

TwistToLR(twist) ==
  LET lin == twist[1]
      ang == twist[2]
  IN  [l |-> Clamp(TruncDiv((2 * lin - ang) * MaxSpeed, 2 * Scale)),
       r |-> Clamp(TruncDiv((2 * lin + ang) * MaxSpeed, 2 * Scale))]
=============================================================================
