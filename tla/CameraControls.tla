---------------------------- MODULE CameraControls ----------------------------
(***************************************************************************)
(* ParameterHandler.cpp with the conversions it stands on (clamp.cpp,      *)
(* cv_to_pv.cpp, pv_to_cv.cpp, type_extent.cpp): what a value goes through *)
(* from a ROS parameter to a libcamera control and back.  CameraParameters *)
(* has the conflicts between controls and the threads; here the controls   *)
(* are independent, the values have types, bounds and a width, and there   *)
(* is one worker.                                                          *)
(*                                                                         *)
(* The types kept are four kinds of integers, Float and Rectangle.  An     *)
(* integer of Width values stands for a 32-bit one, or for a byte; a       *)
(* parameter is a wide one.  A float is an even number, or NaN; a double,  *)
(* what its parameter holds, any number, or NaN.  A rectangle is a square  *)
(* on the diagonal, <<x, width>>: every test of its two axes is the same.  *)
(* Unsigned16 is Unsigned32 of another width.  Bool, String, Size and Point *)
(* are left out; Point has comparisons of its own, by the distance from    *)
(* the origin (clamp.cpp:201-219).                                         *)
(***************************************************************************)
EXTENDS Integers, Sequences, FiniteSetsExt

CONSTANTS
  Names,      \* names of controls
  Cameras,    \* controls a camera may offer, functions from Names
  Inputs,     \* values a user may give a parameter
  Width,      \* how many values a narrow integer has
  NaN         \* the float and the double that is not a number

Dynamic == -1        \* dynamic_extent
Types == {"Byte", "Integer32", "Integer64", "Unsigned32", "Float", "Rectangle"}

VARIABLES
  ctl,        \* the camera's controls: type, extent, min, max and default
  offered,    \* camera_controls: the ones that became parameters
  declared,   \* of a parameter: "ranged", "bare" (no range) or "no"
  param,      \* the parameters' values
  pending,    \* control_values
  sent,       \* the controls of the worker's request
  pc,         \* where the worker is
  defaultsSet \* history: declare() set the parameters as it meant to

vars == <<ctl, offered, declared, param, pending, sent, pc, defaultsSet>>

(* Control values; NoValue is ControlTypeNone. *)
Scalar(x) == [array |-> FALSE, v |-> <<x>>]
Array(s)  == [array |-> TRUE, v |-> s]
NoValue   == [array |-> FALSE, v |-> <<>>]

(* Parameter values. *)
Parameter(kind, s) == [kind |-> kind, v |-> s]
NotSet == Parameter("not set", <<>>)

Number == Int \cup {NaN}
Values == [array : BOOLEAN, v : Seq(Number)]
Kinds  == {"not set", "integer", "integers", "double", "doubles", "bytes"}

ParamValues ==
  {p \in [kind : Kinds, v : Seq(Number)] :
     /\ p.kind \in {"integer", "double"} => Len(p.v) = 1
     /\ p.kind \notin {"double", "doubles"} => p.v \in Seq(Int)}

-----------------------------------------------------------------------------
(* clamp.cpp.                                                              *)

(* Element i of an array; a scalar stands for each of them. *)
At(value, i) == IF value.array THEN value.v[i] ELSE value.v[1]

(* The elements two values are compared at. *)
Places(l, r) == IF l.array THEN DOMAIN l.v ELSE DOMAIN r.v

(* A NaN is neither less nor greater than anything. *)
Below(x, y) == x # NaN /\ y # NaN /\ x < y

Encloses(l, r) == l.v[1] < r.v[1] /\ l.v[1] + l.v[2] > r.v[1] + r.v[2]

(* Variant: an array is less when all of its elements are. *)
LessAll(type, l, r) ==
  IF type = "Rectangle" THEN Encloses(r, l)
  ELSE \A i \in Places(l, r) : Below(At(l, i), At(r, i))

(* operator<: an array is less when one element is, a rectangle when the   *)
(* other encloses it.                                                      *)
Less(type, l, r) ==
  IF type = "Rectangle" THEN Encloses(r, l)
  ELSE \E i \in Places(l, r) : Below(At(l, i), At(r, i))

Greater(type, l, r) == Less(type, r, l)

Clamped(x, lo, hi) == Max({lo, Min({x, hi})})

ClampRectangle(value, lo, hi) ==
  LET x == Clamped(value[1], lo[1], hi[1])
  IN  <<x, Clamped(x + value[2], lo[1] + lo[2], hi[1] + hi[2]) - x>>

(* Variant: the default is taken as it is. *)
ClampNot(c) == c.def

(* clamp() of a control's default to its bounds.  A scalar default of a    *)
(* control with a fixed extent has been dropped.                           *)
Clamp(c) ==
  IF c.def = NoValue \/ (c.extent > 0 /\ ~c.def.array) THEN NoValue
  ELSE [c.def EXCEPT !.v =
         IF c.type = "Rectangle" THEN ClampRectangle(@, c.min.v, c.max.v)
         ELSE [i \in DOMAIN @ |-> Clamped(@[i], At(c.min, i), At(c.max, i))]]

-----------------------------------------------------------------------------
(* What a camera offers and a user gives (external).                       *)

InType(type, x) ==
  CASE type = "Integer64" -> x \in Int
    [] type = "Integer32" -> x \in Int /\ -(Width \div 2) <= x /\ x < Width \div 2
    [] type = "Float"     -> x = NaN \/ (x \in Int /\ x % 2 = 0)
    [] OTHER              -> x \in Int /\ 0 <= x /\ x < Width

Extents == Nat \cup {Dynamic}
Limits  == [array : BOOLEAN, v : Seq(Int)]
Controls ==
  [type : Types, extent : Extents, min : Limits, max : Limits, def : Limits]

(* A bound is one value, or one for each element of a fixed extent; it is  *)
(* of the control's type.                                                  *)
BoundFits(c, b) ==
  IF c.type = "Rectangle" THEN ~b.array /\ Len(b.v) = 2
  ELSE /\ IF b.array THEN c.extent > 0 /\ Len(b.v) = c.extent ELSE Len(b.v) = 1
       /\ \A i \in DOMAIN b.v : InType(c.type, b.v[i])

(* std::clamp() and the ranges of rclcpp ask for a minimum that is not     *)
(* above the maximum; the edges of a rectangle's are so ordered.           *)
BoundsOrdered(c) ==
  IF c.type = "Rectangle"
    THEN c.min.v[1] <= c.max.v[1] /\ c.min.v[1] + c.min.v[2] <= c.max.v[1] + c.max.v[2]
    ELSE \A i \in DOMAIN c.min.v \cap DOMAIN c.max.v : c.min.v[i] <= c.max.v[i]

(* A default is missing, or of the control's type and shape: a control of  *)
(* a fixed extent may have a scalar one.                                   *)
DefaultFits(c) ==
  \/ c.def = NoValue
  \/ IF c.type = "Rectangle" THEN ~c.def.array /\ Len(c.def.v) = 2
     ELSE /\ \A i \in DOMAIN c.def.v : InType(c.type, c.def.v[i])
          /\ IF c.def.array THEN c.extent # 0 /\ (c.extent > 0 => Len(c.def.v) = c.extent)
             ELSE c.extent # Dynamic /\ Len(c.def.v) = 1

ASSUME ControlsAssumption ==
  /\ Width \in Nat \ {0} /\ Width % 2 = 0
  /\ NaN \notin Int
  /\ \A camera \in Cameras : camera \in [Names -> Controls]
  /\ \A camera \in Cameras, n \in Names :
       /\ BoundFits(camera[n], camera[n].min) /\ BoundFits(camera[n], camera[n].max)
       /\ BoundsOrdered(camera[n]) /\ DefaultFits(camera[n])
  /\ \A p \in Inputs : p \in ParamValues

-----------------------------------------------------------------------------
(* cv_to_pv.cpp and pv_to_cv.cpp.                                          *)

(* cv_to_pv_type(): arrays of rectangles are not supported. *)
PvTypeKnown(c) == ~(c.type = "Rectangle" /\ c.extent # 0)

ScalarKind(type) == IF type = "Float" THEN "double" ELSE "integer"
ArrayKind(type)  == IF type = "Float" THEN "doubles" ELSE "integers"

PvType(c) ==
  IF c.extent = 0 /\ c.type # "Rectangle" THEN ScalarKind(c.type) ELSE ArrayKind(c.type)

(* The type of array cannot be a parameter: the conversion throws. *)
CvThrows(c, value) == value.array /\ Len(value.v) > 1 /\ c.type = "Unsigned32"

(* Variant: a scalar stays the vector it was extracted into. *)
CvToPvVector(c, value) ==
  IF value.v = <<>> THEN NotSet
  ELSE Parameter(IF c.type = "Byte" THEN "bytes" ELSE ArrayKind(c.type), value.v)

(* cv_to_pv(): an array of one element becomes a scalar, an empty one no   *)
(* value; an array of bytes becomes one.                                   *)
CvToPv(c, value) ==
  IF value.v = <<>> THEN NotSet
  ELSE Parameter(CASE Len(value.v) = 1 /\ c.type # "Rectangle" -> ScalarKind(c.type)
                   [] Len(value.v) # 1 /\ c.type = "Byte"      -> "bytes"
                   [] OTHER                                    -> ArrayKind(c.type), value.v)

(* The conversion of a 64-bit integer, or of a double, to a control's      *)
(* type.  What a double has more than a float is rounded off.              *)
Narrow(type, x) ==
  CASE type = "Integer64" -> x
    [] type = "Integer32" -> ((x + Width \div 2) % Width) - Width \div 2
    [] type = "Float"     -> IF x = NaN THEN NaN ELSE 2 * (x \div 2)
    [] OTHER              -> x % Width

(* The conversions of pv_to_cv() that throw, of a parameter of the type    *)
(* that the control expects.                                               *)
PvThrows(c, p) ==
  p.kind = "integers" /\ (c.type = "Byte" \/ (c.type = "Rectangle" /\ Len(p.v) # 2))

(* pv_to_cv(); the edges of a rectangle that is used are small. *)
PvToCv(c, p) ==
  [array |-> p.kind \in {"integers", "doubles"} /\ c.type # "Rectangle",
   v     |-> IF c.type = "Rectangle" THEN p.v ELSE [i \in DOMAIN p.v |-> Narrow(c.type, p.v[i])]]

-----------------------------------------------------------------------------
(* Setting parameters.                                                     *)

Unset(p) == p.kind = "not set"

(* validate_new_parameters(), of one of them. *)
Valid(n, p) ==
  LET c == ctl[n] value == PvToCv(ctl[n], p)
  IN  \/ Unset(p) \/ n \notin offered
      \/ /\ p.kind = PvType(c) /\ ~PvThrows(c, p)
         /\ value.array /\ c.extent # Dynamic => Len(value.v) = c.extent
         /\ ~Less(c.type, value, c.min) /\ ~Greater(c.type, value, c.max)

InRange(c, x) == ~Below(x, c.min.v[1]) /\ ~Below(c.max.v[1], x)

(* Variant: unsigned controls have no range. *)
RangeOKSigned(n, p) ==
  /\ declared[n] = "ranged" /\ p.kind = PvType(ctl[n]) /\ p.kind \in {"integer", "double"}
  /\ ctl[n].type \in {"Integer32", "Integer64", "Float"}
  => InRange(ctl[n], p.v[1])

(* CASE_RANGE gives the descriptor the bounds of the control, and rclcpp   *)
(* (external) checks a scalar of its type against them before it asks the  *)
(* node.                                                                   *)
RangeOK(n, p) ==
  /\ declared[n] = "ranged" /\ p.kind = PvType(ctl[n]) /\ p.kind \in {"integer", "double"}
  /\ ctl[n].type \in {"Integer32", "Integer64", "Unsigned32", "Float"}
  => InRange(ctl[n], p.v[1])

(* PostSetApply(): what has not been applied yet is dropped. *)
PostSetApply(list) ==
  pending' = [n \in Names |->
    IF n \in DOMAIN list /\ n \in offered /\ ~Unset(list[n]) THEN PvToCv(ctl[n], list[n]) ELSE NoValue]

Accepted(list) == \A n \in DOMAIN list : RangeOK(n, list[n]) /\ Valid(n, list[n])

(* set_parameters_atomically() on declared parameters stores all of them   *)
(* or none; a parameter whose value is taken away is no longer declared.   *)
Store(list) ==
  IF Accepted(list)
    THEN /\ param' = [n \in Names |-> IF n \in DOMAIN list THEN list[n] ELSE param[n]]
         /\ declared' = [n \in Names |->
              IF n \in DOMAIN list /\ Unset(list[n]) /\ ~Unset(param[n]) THEN "no" ELSE declared[n]]
    ELSE UNCHANGED <<param, declared>>

SetAtomically(list) ==
  /\ Store(list)
  /\ IF Accepted(list) THEN PostSetApply(list) ELSE UNCHANGED pending

-----------------------------------------------------------------------------
(* Declaring them.                                                         *)

Empty == [n \in Names |-> NoValue]

Init ==
  /\ ctl \in Cameras
  /\ offered = {}
  /\ declared = [n \in Names |-> "no"]
  /\ param = [n \in Names |-> NotSet]
  /\ pending = Empty /\ sent = Empty
  /\ pc = "declare" /\ defaultsSet = FALSE

(* The controls that become parameters: the type has a counterpart, the    *)
(* bounds have one shape and the default can be converted.                 *)
Supported(c) ==
  /\ Len(c.min.v) = Len(c.max.v) /\ PvTypeKnown(c)
  /\ c.min.array = c.max.array /\ ~CvThrows(c, Clamp(c))

(* declare(), the first half: parameters with the range of their control. *)
Declare ==
  /\ pc = "declare"
  /\ offered' = {n \in Names : Supported(ctl[n])}
  /\ declared' = [n \in Names |-> IF n \in offered' THEN "ranged" ELSE "no"]
  /\ pc' = "defaults"
  /\ UNCHANGED <<ctl, param, pending, sent, defaultsSet>>

(* The second half: their defaults, or an override in the place of one,    *)
(* set at once.                                                            *)
SetDefaults ==
  /\ pc = "defaults"
  /\ \E over \in SUBSET offered : \E p \in IF over = {} THEN {NotSet} ELSE Inputs :
       LET list == [n \in offered |-> IF n \in over THEN p ELSE CvToPv(ctl[n], Clamp(ctl[n]))]
       IN  /\ SetAtomically(list)
           /\ defaultsSet' = (over # {} \/ Accepted(list))
  /\ pc' = "redeclare"
  /\ UNCHANGED <<ctl, offered, sent>>

(* validate_new_parameters() reads all the controls' parameters first, and *)
(* rclcpp throws when one of them is not declared.                         *)
Readable == \A n \in offered : declared[n] # "no"

(* A user sets a parameter, or takes its value away.  What is thrown goes  *)
(* to the user and changes nothing.                                        *)
Set(n, p) ==
  /\ pc \notin {"declare", "defaults", "gone"}
  /\ declared[n] # "no" /\ Readable
  /\ SetAtomically([m \in {n} |-> p])
  /\ UNCHANGED <<ctl, offered, sent, pc, defaultsSet>>

-----------------------------------------------------------------------------
(* The worker: process() of a completed request.                           *)

(* redeclare(): the descriptor was stored before it had a range. *)
Redeclare ==
  /\ pc = "redeclare" /\ pc' = "move"
  /\ declared' = [n \in Names |-> IF n \in offered /\ declared[n] = "no" THEN "bare" ELSE declared[n]]
  /\ UNCHANGED <<ctl, offered, param, pending, sent, defaultsSet>>

(* move_control_values(), and the request is queued. *)
Move ==
  /\ pc = "move" /\ pc' = "sync"
  /\ sent' = pending
  /\ pending' = Empty
  /\ UNCHANGED <<ctl, offered, declared, param, defaultsSet>>

InRequest == {n \in Names : sent[n] # NoValue}

(* sync_control_values(): the request's controls become the parameters'    *)
(* values again, and what that makes pending is dropped.  The conversion   *)
(* or the validation may throw, which ends the worker.                     *)
Sync ==
  /\ pc = "sync"
  /\ IF InRequest # {} /\ (~Readable \/ \E n \in InRequest : CvThrows(ctl[n], sent[n]))
       THEN pc' = "gone" /\ UNCHANGED <<declared, param, pending>>
       ELSE /\ pc' = "redeclare"
            /\ IF InRequest = {} THEN UNCHANGED <<declared, param, pending>>
               ELSE /\ Store([n \in InRequest |-> CvToPv(ctl[n], sent[n])])
                    /\ pending' = Empty
  /\ UNCHANGED <<ctl, offered, sent, defaultsSet>>

Worker == Redeclare \/ Move \/ Sync

Next == Declare \/ SetDefaults \/ Worker \/ (\E n \in Names, p \in Inputs : Set(n, p))

Spec == Init /\ [][Next]_vars

-----------------------------------------------------------------------------
(* Properties.                                                             *)

Within(c, value) ==
  \A i \in DOMAIN value.v :
    \/ c.type = "Float" /\ value.v[i] = NaN
    \/ At(c.min, i) <= value.v[i] /\ value.v[i] <= At(c.max, i)

(* Whatever a user writes into a parameter, however wide, with its range   *)
(* or without, as a scalar or an array, and whatever the camera's defaults *)
(* are: a control is given only elements in its bounds, or a NaN that a    *)
(* user wrote, if it is a Float ("value < ci.min() || value > ci.max()",   *)
(* ParameterHandler.cpp:414, is false of it).  (A rectangle may be out of  *)
(* them: only one that encloses the largest, or that the smallest encloses, *)
(* is refused.)                                                            *)
AppliedInRange ==
  \A n \in Names : ctl[n].type # "Rectangle" =>
    Within(ctl[n], pending[n]) /\ Within(ctl[n], sent[n])

(* The defaults that cannot come back as a parameter of their control: an  *)
(* array of one element becomes a scalar, one of bytes a byte array.       *)
Misfit(c) == c.def.array /\ (Len(c.def.v) = 1 \/ c.type = "Byte")

(* All of a camera's defaults, clamped, converted and validated, are set,  *)
(* also those outside of their bounds.  One that is a misfit has all of    *)
(* them rejected, as they are set at once.                                 *)
DefaultsAccepted ==
  pc \notin {"declare", "defaults"} /\ (\A n \in offered : ~Misfit(ctl[n])) => defaultsSet

(* What was accepted survives the way to the control and back: once a      *)
(* request has been synchronised, the parameters stand for what the camera *)
(* was given, also where a wide integer was narrowed on its way.  (An array of *)
(* one element is rejected, and all of the request's controls with it.)    *)
SyncShowsSent ==
  [][pc = "sync" /\ pc' = "redeclare" /\ (\A n \in InRequest : ~(sent[n].array /\ Len(sent[n].v) = 1))
       => \A n \in InRequest : sent[n].v # <<>> => PvToCv(ctl[n], param'[n]) = sent[n]]_vars

(* While a scalar's parameter has its range, the value that waits for the  *)
(* camera is the one the parameter reads.  Taking the value away loses the *)
(* range: a wide integer is then accepted when its low bits are in bounds. *)
(* A byte never has a range; a double may be finer than its float.         *)
PendingIsShown ==
  \A n \in Names :
    declared[n] = "ranged" /\ ctl[n].type \notin {"Byte", "Float"} /\ pending[n] # NoValue /\ ~pending[n].array
      => param[n] = CvToPv(ctl[n], pending[n])
=============================================================================
