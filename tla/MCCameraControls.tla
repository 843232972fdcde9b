--------------------------- MODULE MCCameraControls ---------------------------
EXTENDS CameraControls, TLC

Control(type, extent, min, max, def) ==
  [type |-> type, extent |-> extent, min |-> min, max |-> max, def |-> def]

Square(x, width) == [array |-> FALSE, v |-> <<x, width>>]

(* Scalars, with defaults in and out of their bounds, ... *)
Scalars ==
  {Control("Integer32", 0, Scalar(-1), Scalar(2), Scalar(3)),
   Control("Integer64", 0, Scalar(1), Scalar(5), NoValue),
   Control("Unsigned32", 0, Scalar(1), Scalar(2), Scalar(0)),
   Control("Byte", 0, Scalar(0), Scalar(2), Scalar(1)),
   Control("Float", 0, Scalar(0), Scalar(4), Scalar(6)),
   Control("Rectangle", 0, Square(0, 1), Square(0, 5), Square(1, 6))}

(* ... arrays with bounds for each element or for all, defaults that are   *)
(* dropped or do not fit, ...                                              *)
Arrays ==
  {Control("Integer32", 2, Array(<<0, 1>>), Array(<<1, 3>>), Array(<<3, 0>>)),
   Control("Integer32", 2, Scalar(0), Scalar(2), Scalar(1)),
   Control("Integer32", Dynamic, Scalar(0), Scalar(2), Array(<<1>>)),
   Control("Integer32", Dynamic, Scalar(0), Scalar(2), Array(<<>>)),
   Control("Unsigned32", 2, Scalar(0), Scalar(2), NoValue),
   Control("Float", 2, Array(<<0, 2>>), Array(<<2, 4>>), Array(<<4, 0>>)),
   Control("Byte", Dynamic, Scalar(0), Scalar(2), Array(<<1, 2>>))}

(* ... and controls that are not offered. *)
Unsupported ==
  {Control("Integer32", 2, Array(<<0, 1>>), Scalar(2), NoValue),
   Control("Integer32", 1, Array(<<0>>), Scalar(2), NoValue),
   Control("Unsigned32", Dynamic, Scalar(0), Scalar(2), Array(<<1, 2>>)),
   Control("Rectangle", Dynamic, Square(0, 1), Square(0, 5), NoValue)}

Candidates == Scalars \cup Arrays \cup Unsupported
MCCameras  == [Names -> Candidates]

MCInputs ==
  {NotSet} \cup {Parameter("integer", <<x>>) : x \in {-6, -1, 0, 2, 3, 9}}
    \cup {Parameter("integers", s) : s \in {<<>>, <<1>>, <<1, 2>>, <<1, 6>>, <<0, 7>>, <<9, 9>>}}
    \cup {Parameter("double", <<x>>) : x \in {NaN, -1, 3, 5}}
    \cup {Parameter("doubles", s) : s \in {<<NaN, 2>>, <<1, 3>>, <<2, 6>>}}

Symmetry == Permutations(Names)
=============================================================================
