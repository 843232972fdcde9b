------------------------ MODULE CameraControls_proofs ------------------------
(***************************************************************************)
(* Theorems about CameraControls, for all cameras, users and widths that   *)
(* ControlsAssumption admits: a control is given no number out of its      *)
(* bounds, a pending value is the one its parameter shows, what was sent   *)
(* comes back, and a camera's defaults are accepted.                       *)
(***************************************************************************)
EXTENDS CameraControls, TLAPS

-----------------------------------------------------------------------------
(* The inductive invariant.                                                *)

Declarations == {"ranged", "bare", "no"}

(* A value with the extent of its control, ... *)
Formed(c, value) ==
  /\ value.array <=> c.extent # 0
  /\ ~value.array => Len(value.v) = 1
  /\ value.array /\ c.extent # Dynamic => Len(value.v) = c.extent

(* ... also with its type, ... *)
Shaped(c, value) ==
  IF c.type = "Rectangle" THEN ~value.array /\ value.v \in Seq(Int) /\ Len(value.v) = 2
  ELSE /\ Formed(c, value)
       /\ value.array => c.type # "Byte"
       /\ \A i \in DOMAIN value.v : InType(c.type, value.v[i])

(* ... and one that the validation lets through: compared to both bounds.  *)

Admitted(c, value) ==
  /\ value \in Values /\ PvTypeKnown(c) /\ Shaped(c, value)
  /\ ~Less(c.type, value, c.min) /\ ~Greater(c.type, value, c.max)

Carried(values) ==
  \A n \in Names : values[n] = NoValue \/ (n \in offered /\ Admitted(ctl[n], values[n]))

(* Before the declaration nothing is offered, then what can be. *)
TypesInv ==
  /\ ctl \in Cameras
  /\ declared \in [Names -> Declarations] /\ param \in [Names -> ParamValues]
  /\ pending \in [Names -> Values] /\ sent \in [Names -> Values]
  /\ offered = IF pc = "declare" THEN {} ELSE {n \in Names : Supported(ctl[n])}

Inv ==
  TypesInv /\ Carried(pending) /\ Carried(sent) /\ PendingIsShown /\ DefaultsAccepted

-----------------------------------------------------------------------------
(* Numbers: the conversion to a narrow type, and std::clamp().             *)

LEMMA Numbers ==
  /\ NaN \notin Int /\ NaN \in Number /\ Int \subseteq Number
  /\ Seq(Int) \subseteq Seq(Number) /\ Limits \subseteq Values
<1>1. NaN \notin Int /\ NaN \in Number /\ Int \subseteq Number
  BY ControlsAssumption DEF Number
<1>2. ASSUME NEW q \in Seq(Int) PROVE q \in Seq(Number)
  <2>1. Len(q) \in Nat /\ q \in [1..Len(q) -> Int]
    OBVIOUS
  <2>2. q \in [1..Len(q) -> Number]
    BY <1>1, <2>1
  <2>3. QED
    BY <2>1, <2>2
<1>3. Limits \subseteq Values
  <2>1. ASSUME NEW x \in Limits PROVE x \in Values
    <3>1. x = [array |-> x.array, v |-> x.v] /\ x.array \in BOOLEAN /\ x.v \in Seq(Int)
      BY DEF Limits
    <3>2. x.v \in Seq(Number)
      BY <1>2, <3>1
    <3>3. QED
      BY <3>1, <3>2 DEF Values
  <2>2. QED
    BY <2>1
<1>4. QED
  BY <1>1, <1>2, <1>3

LEMMA HalfWidth ==
  /\ Width \in Nat \ {0} /\ Width \div 2 \in Nat
  /\ Width = 2 * (Width \div 2)
BY ControlsAssumption

LEMMA RemainderRange ==
  ASSUME NEW x \in Int, NEW w \in Nat \ {0}
  PROVE  x % w \in Int /\ 0 <= x % w /\ x % w < w
OBVIOUS

LEMMA RemainderOfSmall ==
  ASSUME NEW w \in Nat \ {0}, NEW x \in Int, 0 <= x, x < w
  PROVE  x % w = x
OBVIOUS

(* A narrowed value is one of the narrow type. *)
LEMMA NarrowFits ==
  ASSUME NEW type, NEW x \in Number, type # "Float" => x \in Int
  PROVE  Narrow(type, x) \in Number /\ InType(type, Narrow(type, x))
<1> DEFINE half == Width \div 2
<1>1. CASE type = "Integer64"
  BY <1>1 DEF Narrow, InType, Number
<1>2. CASE type = "Integer32"
  <2>1. (x + half) % Width \in Int /\ 0 <= (x + half) % Width /\ (x + half) % Width < Width
    BY <1>2, HalfWidth, RemainderRange
  <2>2. QED
    BY <1>2, <2>1, HalfWidth DEF Narrow, InType, Number
<1>3. CASE type = "Float"
  <2>1. CASE x = NaN
    BY <1>3, <2>1 DEF Narrow, InType, Number
  <2>2. CASE x # NaN
    <3>1. x \in Int /\ Narrow(type, x) = 2 * (x \div 2)
      BY <1>3, <2>2 DEF Narrow, Number
    <3>2. 2 * (x \div 2) \in Int /\ (2 * (x \div 2)) % 2 = 0
      BY <3>1
    <3>3. QED
      BY <1>3, <3>1, <3>2 DEF InType, Number
  <2>3. QED
    BY <2>1, <2>2
<1>4. CASE type \notin {"Integer64", "Integer32", "Float"}
  <2>1. x % Width \in Int /\ 0 <= x % Width /\ x % Width < Width
    BY <1>4, HalfWidth, RemainderRange
  <2>2. QED
    BY <1>4, <2>1 DEF Narrow, InType, Number
<1>5. QED
  BY <1>1, <1>2, <1>3, <1>4

(* A value of the narrow type is not changed. *)
LEMMA FitsNarrow ==
  ASSUME NEW type, NEW x, InType(type, x)
  PROVE  Narrow(type, x) = x
<1> DEFINE half == Width \div 2
<1>1. CASE type = "Integer64"
  BY <1>1 DEF Narrow
<1>2. CASE type = "Integer32"
  <2>1. x \in Int /\ x + half \in Int /\ 0 <= x + half /\ x + half < Width
    BY <1>2, HalfWidth DEF InType
  <2>2. (x + half) % Width = x + half
    BY <2>1, HalfWidth, RemainderOfSmall
  <2>3. QED
    BY <1>2, <2>1, <2>2, HalfWidth DEF Narrow
<1>3. CASE type = "Float"
  <2>1. x = NaN \/ (x \in Int /\ x = 2 * (x \div 2))
    BY <1>3 DEF InType
  <2>2. QED
    BY <1>3, <2>1 DEF Narrow
<1>4. CASE type \notin {"Integer64", "Integer32", "Float"}
  BY <1>4, HalfWidth, RemainderOfSmall DEF Narrow, InType
<1>5. QED
  BY <1>1, <1>2, <1>3, <1>4

(* A value of any other type than Float is a number. *)
LEMMA TypedIsInt ==
  ASSUME NEW type, type # "Float", NEW x, InType(type, x)
  PROVE  x \in Int
BY DEF InType

LEMMA MaxOfTwo ==
  ASSUME NEW x \in Int, NEW y \in Int
  PROVE  Max({x, y}) = IF x >= y THEN x ELSE y
BY DEF Max

LEMMA MinOfTwo ==
  ASSUME NEW x \in Int, NEW y \in Int
  PROVE  Min({x, y}) = IF x <= y THEN x ELSE y
BY DEF Min

(* What is clamped to ordered bounds is between them. *)
LEMMA ClampedBetween ==
  ASSUME NEW x \in Int, NEW lo \in Int, NEW hi \in Int
  PROVE  /\ Clamped(x, lo, hi) \in Int
         /\ Clamped(x, lo, hi) \in {x, lo, hi}
         /\ lo <= hi => lo <= Clamped(x, lo, hi) /\ Clamped(x, lo, hi) <= hi
<1> DEFINE m == Min({x, hi})
<1>1. m \in Int /\ m <= hi /\ m \in {x, hi}
  BY MinOfTwo
<1>2. Max({lo, m}) = IF lo >= m THEN lo ELSE m
  <2> HIDE DEF m
  <2> QED
    BY <1>1, MaxOfTwo
<1>3. Clamped(x, lo, hi) = IF lo >= m THEN lo ELSE m
  BY <1>2 DEF Clamped
<1> HIDE DEF m
<1>4. QED
  BY <1>1, <1>3

-----------------------------------------------------------------------------
(* Values and bounds.                                                      *)

(* What ControlsAssumption says of one control. *)
Checked(c) ==
  /\ c \in Controls /\ BoundFits(c, c.min) /\ BoundFits(c, c.max)
  /\ BoundsOrdered(c) /\ DefaultFits(c)

LEMMA CameraChecked ==
  ASSUME ctl \in Cameras, NEW n \in Names
  PROVE  Checked(ctl[n])
BY ControlsAssumption DEF Checked

(* There is a bound for each element, ... *)
LEMMA BoundAt ==
  ASSUME NEW c \in Controls, c.type # "Rectangle",
         NEW b \in Limits, BoundFits(c, b),
         NEW value \in Values, Formed(c, value), NEW i \in DOMAIN value.v
  PROVE  /\ At(b, i) \in Int /\ InType(c.type, At(b, i))
         /\ value.v[i] \in Number /\ At(value, i) = value.v[i]
<1>1. /\ b.array \in BOOLEAN /\ b.v \in Seq(Int) /\ value.array \in BOOLEAN
      /\ value.v \in Seq(Number) /\ c.extent \in Extents
  BY DEF Values, Limits, Controls
<1>2. i \in 1..Len(value.v) /\ value.v[i] \in Number
  BY <1>1
<1>3. At(b, i) \in Int /\ InType(c.type, At(b, i))
  <2>1. CASE b.array
    <3>1. /\ c.extent > 0 /\ Len(b.v) = c.extent
          /\ \A j \in DOMAIN b.v : InType(c.type, b.v[j])
      BY <2>1 DEF BoundFits
    <3>2. c.extent # 0 /\ c.extent # Dynamic
      BY <3>1, <1>1 DEF Dynamic, Extents
    <3>3. Len(value.v) = c.extent
      BY <3>2 DEF Formed
    <3>4. QED
      BY <1>1, <1>2, <2>1, <3>1, <3>3 DEF At
  <2>2. CASE ~b.array
    BY <1>1, <2>2 DEF BoundFits, At
  <2>3. QED
    BY <2>1, <2>2
<1>4. At(value, i) = value.v[i]
  BY <1>1, <1>2 DEF Formed, At
<1>5. QED
  BY <1>2, <1>3, <1>4

(* ... and the two values are compared at all of them. *)
LEMMA BoundPlaces ==
  ASSUME NEW c \in Controls, c.type # "Rectangle",
         NEW b \in Limits, BoundFits(c, b),
         NEW value \in Values, Formed(c, value)
  PROVE  Places(value, b) = DOMAIN value.v /\ Places(b, value) = DOMAIN value.v
<1>1. /\ b.array \in BOOLEAN /\ b.v \in Seq(Int) /\ value.array \in BOOLEAN
      /\ value.v \in Seq(Number) /\ c.extent \in Extents
  BY DEF Values, Limits, Controls
<1>2. DOMAIN value.v = 1..Len(value.v) /\ DOMAIN b.v = 1..Len(b.v)
  BY <1>1
<1>3. CASE b.array
  <2>1. c.extent > 0 /\ Len(b.v) = c.extent
    BY <1>3 DEF BoundFits
  <2>2. c.extent # 0 /\ c.extent # Dynamic
    BY <2>1, <1>1 DEF Dynamic, Extents
  <2>3. value.array /\ Len(value.v) = c.extent
    BY <2>2, <1>1 DEF Formed
  <2>4. QED
    BY <1>2, <1>3, <2>1, <2>3 DEF Places
<1>4. CASE ~b.array
  <2>1. Len(b.v) = 1
    BY <1>4 DEF BoundFits
  <2>2. ~value.array => Len(value.v) = 1
    BY DEF Formed
  <2>3. QED
    BY <1>1, <1>2, <1>4, <2>1, <2>2 DEF Places
<1>5. QED
  BY <1>1, <1>3, <1>4

(* The two comparisons of the validation mean: every element is in bounds, *)
(* or a NaN.                                                               *)
LEMMA ComparedIsWithin ==
  ASSUME NEW c, Checked(c), c.type # "Rectangle", NEW value \in Values, Shaped(c, value)
  PROVE  ~Less(c.type, value, c.min) /\ ~Greater(c.type, value, c.max) <=> Within(c, value)
<1>1. c \in Controls /\ c.min \in Limits /\ c.max \in Limits
      /\ BoundFits(c, c.min) /\ BoundFits(c, c.max) /\ Formed(c, value)
  BY DEF Checked, Controls, Shaped
<1>2. \A i \in DOMAIN value.v :
        /\ At(c.min, i) \in Int /\ At(c.max, i) \in Int
        /\ value.v[i] \in Number /\ At(value, i) = value.v[i]
  BY <1>1, BoundAt
<1>3. Places(value, c.min) = DOMAIN value.v /\ Places(c.max, value) = DOMAIN value.v
  BY <1>1, BoundPlaces
<1>4. Less(c.type, value, c.min) <=> \E i \in DOMAIN value.v : Below(value.v[i], At(c.min, i))
  BY <1>2, <1>3 DEF Less
<1>5. Greater(c.type, value, c.max) <=> \E i \in DOMAIN value.v : Below(At(c.max, i), value.v[i])
  BY <1>2, <1>3 DEF Less, Greater
<1>6. ASSUME NEW i \in DOMAIN value.v
      PROVE  ~Below(value.v[i], At(c.min, i)) /\ ~Below(At(c.max, i), value.v[i])
               <=> \/ c.type = "Float" /\ value.v[i] = NaN
                   \/ At(c.min, i) <= value.v[i] /\ value.v[i] <= At(c.max, i)
  <2>1. value.v[i] = NaN => c.type = "Float"
    <3>1. InType(c.type, value.v[i])
      BY DEF Shaped
    <3>2. QED
      BY <3>1, Numbers, TypedIsInt
  <2>2. value.v[i] = NaN => ~Below(value.v[i], At(c.min, i)) /\ ~Below(At(c.max, i), value.v[i])
    BY DEF Below
  <2>3. ASSUME value.v[i] # NaN
        PROVE  ~Below(value.v[i], At(c.min, i)) /\ ~Below(At(c.max, i), value.v[i])
                 <=> At(c.min, i) <= value.v[i] /\ value.v[i] <= At(c.max, i)
    <3>1. value.v[i] \in Int /\ At(c.min, i) # NaN /\ At(c.max, i) # NaN
      BY <1>2, <2>3, Numbers DEF Number
    <3>2. QED
      BY <1>2, <2>3, <3>1 DEF Below
  <2>4. QED
    BY <2>1, <2>2, <2>3
<1>7. QED
  BY <1>4, <1>5, <1>6 DEF Within

-----------------------------------------------------------------------------
(* Conversions.                                                            *)

LEMMA NoValueWithin ==
  /\ NoValue \in Values /\ NoValue \in Limits
  /\ \A c : Within(c, NoValue)
<1>1. NoValue \in Values /\ NoValue \in Limits /\ NoValue.v = <<>>
  BY DEF NoValue, Values, Limits
<1>2. DOMAIN NoValue.v = {}
  BY <1>1
<1>3. QED
  BY <1>1, <1>2 DEF Within

LEMMA NotSetValue ==
  NotSet.kind = "not set" /\ NotSet \in ParamValues
<1>1. <<>> \in Seq(Int) /\ <<>> \in Seq(Number)
  OBVIOUS
<1>2. NotSet = [kind |-> "not set", v |-> <<>>]
  BY DEF NotSet, Parameter
<1>3. QED
  BY <1>1, <1>2 DEF ParamValues, Kinds

(* The conversion of a parameter to a control keeps the length, and gives  *)
(* values of the control's type.                                           *)
LEMMA PvToCvValue ==
  ASSUME NEW c \in Controls, NEW p \in ParamValues, c.type # "Float" => p.v \in Seq(Int)
  PROVE  /\ PvToCv(c, p) \in Values /\ Len(PvToCv(c, p).v) = Len(p.v)
         /\ DOMAIN PvToCv(c, p).v = DOMAIN p.v
         /\ PvToCv(c, p).array <=> p.kind \in {"integers", "doubles"} /\ c.type # "Rectangle"
         /\ c.type = "Rectangle" => PvToCv(c, p).v = p.v
         /\ c.type # "Rectangle" =>
              \A i \in DOMAIN p.v : /\ PvToCv(c, p).v[i] = Narrow(c.type, p.v[i])
                                   /\ InType(c.type, PvToCv(c, p).v[i])
<1> DEFINE value == PvToCv(c, p)
           narrowed == [i \in DOMAIN p.v |-> Narrow(c.type, p.v[i])]
<1>1. p.v \in Seq(Number) /\ DOMAIN p.v = 1..Len(p.v)
  BY DEF ParamValues
<1>2. \A i \in DOMAIN p.v : p.v[i] \in Number /\ (c.type # "Float" => p.v[i] \in Int)
  BY <1>1
<1>3. \A i \in DOMAIN p.v :
        Narrow(c.type, p.v[i]) \in Number /\ InType(c.type, Narrow(c.type, p.v[i]))
  BY <1>2, NarrowFits
<1>4. /\ value.array = (p.kind \in {"integers", "doubles"} /\ c.type # "Rectangle")
      /\ value.array \in BOOLEAN
  BY DEF PvToCv
<1>5. CASE c.type = "Rectangle"
  <2>1. value = [array |-> FALSE, v |-> p.v]
    BY <1>5 DEF PvToCv
  <2>2. QED
    BY <1>1, <1>5, <2>1 DEF Values
<1>6. CASE c.type # "Rectangle"
  <2>1. narrowed \in Seq(Number) /\ Len(narrowed) = Len(p.v) /\ DOMAIN narrowed = DOMAIN p.v
    BY <1>1, <1>3
  <2>2. value = [array |-> p.kind \in {"integers", "doubles"}, v |-> narrowed]
    BY <1>6 DEF PvToCv
  <2>3. value.v = narrowed /\ value \in Values
    BY <2>1, <2>2 DEF Values
  <2>4. QED
    BY <1>3, <1>4, <1>6, <2>1, <2>3
<1>7. QED
  BY <1>5, <1>6

(* A parameter of the type that the control expects. *)
LEMMA Expected ==
  ASSUME NEW c, NEW p \in ParamValues, p.kind = PvType(c)
  PROVE  /\ c.type # "Float" => p.v \in Seq(Int)
         /\ p.kind \in {"integer", "double"} <=> c.extent = 0 /\ c.type # "Rectangle"
         /\ p.kind \in {"integers", "doubles"} <=> ~(c.extent = 0 /\ c.type # "Rectangle")
         /\ p.kind \in {"integer", "double"} => Len(p.v) = 1
BY DEF PvType, ScalarKind, ArrayKind, ParamValues

(* What the validation lets through is admitted. *)
LEMMA ValidAdmitted ==
  ASSUME ctl \in Cameras, NEW n \in Names, n \in offered, PvTypeKnown(ctl[n]),
         NEW p \in ParamValues, Valid(n, p), ~Unset(p)
  PROVE  Admitted(ctl[n], PvToCv(ctl[n], p))
<1> DEFINE c == ctl[n]
           value == PvToCv(c, p)
<1>1. Checked(c) /\ c \in Controls
  BY CameraChecked DEF Checked
<1>2. /\ p.kind = PvType(c) /\ ~PvThrows(c, p)
      /\ value.array /\ c.extent # Dynamic => Len(value.v) = c.extent
      /\ ~Less(c.type, value, c.min) /\ ~Greater(c.type, value, c.max)
  BY DEF Valid
<1>3. /\ c.type # "Float" => p.v \in Seq(Int)
      /\ p.kind \in {"integers", "doubles"} <=> ~(c.extent = 0 /\ c.type # "Rectangle")
      /\ c.extent = 0 /\ c.type # "Rectangle" => Len(p.v) = 1
  BY <1>2, Expected
<1>4. Shaped(c, value)
  <2>1. CASE c.type = "Rectangle"
    <3>1. p.kind = "integers"
      BY <1>2, <2>1 DEF PvType, ArrayKind
    <3>2. Len(p.v) = 2
      BY <1>2, <2>1, <3>1 DEF PvThrows
    <3>3. QED
      BY <1>1, <1>3, <2>1, <3>2, PvToCvValue DEF Shaped
  <2>2. CASE c.type # "Rectangle"
    <3>1. value.array <=> c.extent # 0
      BY <1>1, <1>3, <2>2, PvToCvValue
    <3>2. ~value.array => Len(value.v) = 1
      BY <1>1, <1>3, <2>2, <3>1, PvToCvValue
    <3>3. value.array => c.type # "Byte"
      BY <1>2, <2>2, <3>1 DEF PvThrows, PvType, ArrayKind
    <3>4. \A i \in DOMAIN value.v : InType(c.type, value.v[i])
      BY <1>1, <1>3, <2>2, PvToCvValue
    <3>5. QED
      BY <1>2, <2>2, <3>1, <3>2, <3>3, <3>4 DEF Shaped, Formed
  <2>3. QED
    BY <2>1, <2>2
<1>5. QED
  BY <1>1, <1>2, <1>3, <1>4, PvToCvValue DEF Admitted

(* An admitted value is in bounds. *)
LEMMA AdmittedWithin ==
  ASSUME NEW c, Checked(c), c.type # "Rectangle", NEW value, Admitted(c, value)
  PROVE  Within(c, value)
BY ComparedIsWithin DEF Admitted

(* It holds numbers, unless its control is a Float. *)
LEMMA AdmittedNumbers ==
  ASSUME NEW c, NEW value, Admitted(c, value)
  PROVE  /\ value \in Values
         /\ c.type # "Float" => value.v \in Seq(Int)
<1>1. value \in Values /\ value.v \in Seq(Number)
  BY DEF Admitted, Values
<1>2. CASE c.type \notin {"Rectangle", "Float"}
  <2>1. \A i \in DOMAIN value.v : value.v[i] \in Int
    BY <1>2, TypedIsInt DEF Admitted, Shaped
  <2>2. Len(value.v) \in Nat /\ DOMAIN value.v = 1..Len(value.v)
        /\ value.v \in [1..Len(value.v) -> Number]
    BY <1>1
  <2>3. value.v \in [1..Len(value.v) -> Int]
    BY <2>1, <2>2
  <2>4. QED
    BY <1>1, <2>2, <2>3
<1>3. CASE c.type = "Rectangle"
  BY <1>1, <1>3 DEF Admitted, Shaped
<1>4. QED
  BY <1>1, <1>2, <1>3

(* Its way back to a parameter: nothing when it is empty, otherwise, unless *)
(* an array of one element, a parameter of the type that the control        *)
(* expects, with the same numbers.                                          *)
LEMMA AdmittedParameter ==
  ASSUME NEW c, Checked(c), NEW value, Admitted(c, value), value.v # <<>>,
         ~(value.array /\ Len(value.v) = 1)
  PROVE  /\ CvToPv(c, value) = Parameter(PvType(c), value.v)
         /\ CvToPv(c, value) \in ParamValues /\ ~Unset(CvToPv(c, value))
         /\ ~PvThrows(c, CvToPv(c, value))
         /\ PvToCv(c, CvToPv(c, value)) = value
<1> DEFINE p == Parameter(PvType(c), value.v)
<1>1. /\ value \in Values /\ value.array \in BOOLEAN /\ value.v \in Seq(Number)
      /\ value = [array |-> value.array, v |-> value.v]
  BY DEF Admitted, Values
<1>2. p.kind = PvType(c) /\ p.v = value.v /\ p = [kind |-> PvType(c), v |-> value.v]
  BY DEF Parameter
<1>3. c.type # "Float" => value.v \in Seq(Int)
  BY AdmittedNumbers
<1>4. CASE c.type = "Rectangle"
  <2>1. ~value.array /\ Len(value.v) = 2 /\ PvType(c) = "integers"
    BY <1>4 DEF Admitted, Shaped, PvType, ArrayKind
  <2>2. CvToPv(c, value) = p
    BY <1>4, <2>1 DEF CvToPv, ArrayKind
  <2>3. PvToCv(c, p) = value
    BY <1>1, <1>2, <1>4, <2>1 DEF PvToCv
  <2>4. p \in ParamValues /\ ~Unset(p) /\ ~PvThrows(c, p)
    BY <1>1, <1>2, <1>3, <1>4, <2>1 DEF ParamValues, Kinds, Unset, PvThrows
  <2>5. QED
    BY <2>2, <2>3, <2>4
<1>5. CASE c.type # "Rectangle"
  <2>1. /\ value.array <=> c.extent # 0
        /\ ~value.array => Len(value.v) = 1
        /\ value.array => c.type # "Byte"
        /\ \A i \in DOMAIN value.v : InType(c.type, value.v[i])
    BY <1>5 DEF Admitted, Shaped, Formed
  <2>2. PvType(c) = IF value.array THEN ArrayKind(c.type) ELSE ScalarKind(c.type)
    BY <1>5, <2>1 DEF PvType
  <2>3. CvToPv(c, value) = p
    BY <1>1, <1>5, <2>1, <2>2 DEF CvToPv
  <2>4. \A i \in DOMAIN value.v : Narrow(c.type, value.v[i]) = value.v[i]
    BY <2>1, FitsNarrow
  <2>5. [i \in DOMAIN value.v |-> Narrow(c.type, value.v[i])] = value.v
    BY <1>1, <2>4
  <2>6. p.kind \in {"integers", "doubles"} <=> value.array
    BY <1>2, <2>2 DEF ArrayKind, ScalarKind
  <2>7. PvToCv(c, p) = value
    <3>1. PvToCv(c, p) = [array |-> p.kind \in {"integers", "doubles"}, v |-> value.v]
      BY <1>2, <1>5, <2>5 DEF PvToCv
    <3>2. QED
      BY <1>1, <2>6, <3>1
  <2>8. p \in ParamValues /\ ~Unset(p)
    BY <1>1, <1>2, <1>3, <2>1, <2>2 DEF ParamValues, Kinds, Unset, ArrayKind, ScalarKind
  <2>9. ~PvThrows(c, p)
    BY <1>2, <1>5, <2>1, <2>2 DEF PvThrows, ArrayKind, ScalarKind
  <2>10. QED
    BY <2>3, <2>7, <2>8, <2>9
<1>6. QED
  BY <1>4, <1>5

(* A value that goes back to a parameter is accepted when it is set. *)
LEMMA AdmittedAccepted ==
  ASSUME ctl \in Cameras, NEW n \in Names, NEW value, Admitted(ctl[n], value),
         ~(value.array /\ Len(value.v) = 1)
  PROVE  LET p == CvToPv(ctl[n], value) IN p \in ParamValues /\ RangeOK(n, p) /\ Valid(n, p)
<1> DEFINE c == ctl[n]
           p == CvToPv(c, value)
<1>1. Checked(c) /\ c \in Controls /\ c.type \in Types
  BY CameraChecked DEF Checked, Controls
<1>2. CASE value.v = <<>>
  <2>1. p = NotSet
    BY <1>2 DEF CvToPv
  <2>2. p.kind = "not set" /\ p \in ParamValues
    BY <2>1, NotSetValue
  <2>3. QED
    BY <2>2 DEF RangeOK, Valid, Unset
<1>3. CASE value.v # <<>>
  <2>1. /\ p = Parameter(PvType(c), value.v) /\ p \in ParamValues /\ ~PvThrows(c, p)
        /\ PvToCv(c, p) = value
    BY <1>1, <1>3, AdmittedParameter
  <2>2. p.kind = PvType(c) /\ p.v = value.v
    BY <2>1 DEF Parameter
  <2>3. Valid(n, p)
    <3>1. value.array /\ c.extent # Dynamic => Len(value.v) = c.extent
      BY DEF Admitted, Shaped, Formed
    <3>2. QED
      BY <2>1, <2>2, <3>1 DEF Valid, Admitted
  <2>4. ASSUME p.kind \in {"integer", "double"}
        PROVE  InRange(c, p.v[1])
    <3>1. c.extent = 0 /\ c.type # "Rectangle"
      BY <2>1, <2>2, <2>4, Expected
    <3>2. ~Less(c.type, value, c.min) /\ ~Greater(c.type, value, c.max)
      BY DEF Admitted
    <3>3. ~value.array /\ Len(value.v) = 1 /\ value \in Values /\ Formed(c, value)
      BY <3>1 DEF Admitted, Shaped, Formed
    <3>4. ~c.min.array /\ ~c.max.array /\ c.min \in Limits /\ c.max \in Limits
      BY <1>1, <3>1 DEF Checked, BoundFits, Controls
    <3>5. Places(value, c.min) = DOMAIN value.v /\ Places(c.max, value) = DOMAIN value.v
      BY <1>1, <3>1, <3>3, <3>4, BoundPlaces DEF Checked
    <3>6. 1 \in DOMAIN value.v
      BY <3>3 DEF Values
    <3>7. QED
      BY <2>2, <3>1, <3>2, <3>3, <3>4, <3>5, <3>6 DEF Less, Greater, At, InRange
  <2>5. QED
    BY <2>1, <2>3, <2>4 DEF RangeOK
<1>4. QED
  BY <1>2, <1>3

-----------------------------------------------------------------------------
(* Defaults.                                                               *)

(* A default is taken when it is not missing and has its control's extent. *)
Taken(c) == ~(c.def = NoValue \/ (c.extent > 0 /\ ~c.def.array))

(* A clamped rectangle encloses neither bound the wrong way. *)
LEMMA RectangleClamped ==
  ASSUME NEW c, Checked(c), c.type = "Rectangle", Taken(c)
  PROVE  /\ Clamp(c) \in Limits /\ Clamp(c) \in Values /\ Shaped(c, Clamp(c))
         /\ ~Less(c.type, Clamp(c), c.min) /\ ~Greater(c.type, Clamp(c), c.max)
<1>1. /\ c.def \in Limits /\ c.min \in Limits /\ c.max \in Limits
      /\ ~c.def.array /\ Len(c.def.v) = 2 /\ Len(c.min.v) = 2 /\ Len(c.max.v) = 2
  BY DEF Checked, Controls, BoundFits, DefaultFits, Taken
<1>2. /\ c.def.v[1] \in Int /\ c.def.v[2] \in Int /\ c.min.v[1] \in Int
      /\ c.min.v[2] \in Int /\ c.max.v[1] \in Int /\ c.max.v[2] \in Int
  BY <1>1 DEF Limits
<1>3. c.min.v[1] <= c.max.v[1] /\ c.min.v[1] + c.min.v[2] <= c.max.v[1] + c.max.v[2]
  BY DEF Checked, BoundsOrdered
<1> DEFINE x == Clamped(c.def.v[1], c.min.v[1], c.max.v[1])
           edge == Clamped(x + c.def.v[2], c.min.v[1] + c.min.v[2], c.max.v[1] + c.max.v[2])
<1>4. x \in Int /\ c.min.v[1] <= x /\ x <= c.max.v[1]
  BY <1>2, <1>3, ClampedBetween
<1>5. /\ edge \in Int
      /\ c.min.v[1] + c.min.v[2] <= edge /\ edge <= c.max.v[1] + c.max.v[2]
  <2> HIDE DEF x
  <2>1. /\ x + c.def.v[2] \in Int /\ c.min.v[1] + c.min.v[2] \in Int
        /\ c.max.v[1] + c.max.v[2] \in Int
    BY <1>2, <1>4
  <2>2. QED
    BY <1>3, <2>1, ClampedBetween
<1>6. Clamp(c) = [array |-> FALSE, v |-> <<x, edge - x>>]
  <2>1. ClampRectangle(c.def.v, c.min.v, c.max.v) = <<x, edge - x>>
    BY DEF ClampRectangle
  <2>2. /\ c.def = [array |-> c.def.array, v |-> c.def.v]
        /\ c.def.array = FALSE
    BY <1>1 DEF Limits
  <2> DEFINE clamped == ClampRectangle(c.def.v, c.min.v, c.max.v)
  <2>3. Clamp(c) = [c.def EXCEPT !.v = clamped]
    BY DEF Clamp, Taken
  <2> HIDE DEF clamped
  <2>4. Clamp(c) = [array |-> c.def.array, v |-> clamped]
    BY <2>2, <2>3
  <2>5. QED
    BY <2>1, <2>2, <2>4 DEF clamped
<1> HIDE DEF x, edge
<1>7. /\ Clamp(c).v[1] = x /\ Clamp(c).v[2] = edge - x
      /\ Clamp(c) \in Limits /\ Clamp(c) \in Values /\ Shaped(c, Clamp(c))
  <2>1. <<x, edge - x>> \in Seq(Int) /\ Len(<<x, edge - x>>) = 2
    BY <1>4, <1>5
  <2>2. Clamp(c) \in Limits /\ Shaped(c, Clamp(c))
    BY <1>6, <2>1 DEF Limits, Shaped
  <2>3. QED
    BY <1>6, <2>2, Numbers
<1>8. ~Encloses(c.min, Clamp(c)) /\ ~Encloses(Clamp(c), c.max)
  BY <1>2, <1>4, <1>5, <1>7 DEF Encloses
<1>9. QED
  BY <1>7, <1>8 DEF Less, Greater

(* Any other clamped default has the default's shape and is in bounds. *)
LEMMA ScalarsClamped ==
  ASSUME NEW c, Checked(c), Supported(c), c.type # "Rectangle", Taken(c)
  PROVE  /\ Clamp(c) \in Limits /\ Clamp(c) \in Values /\ Formed(c, Clamp(c)) /\ Within(c, Clamp(c))
         /\ Clamp(c).array = c.def.array /\ Len(Clamp(c).v) = Len(c.def.v)
         /\ \A i \in DOMAIN Clamp(c).v : InType(c.type, Clamp(c).v[i])
<1> DEFINE clamped == [i \in DOMAIN c.def.v |-> Clamped(c.def.v[i], At(c.min, i), At(c.max, i))]
<1>1. /\ c \in Controls /\ c.def \in Limits /\ c.min \in Limits /\ c.max \in Limits
      /\ BoundFits(c, c.min) /\ BoundFits(c, c.max) /\ c.extent \in Extents
      /\ c.def.array \in BOOLEAN /\ c.def.v \in Seq(Int) /\ c.def \in Values
  BY Numbers DEF Checked, Controls, Limits
<1>2. Formed(c, c.def)
  <2>1. /\ c.def.array => c.extent # 0 /\ (c.extent > 0 => Len(c.def.v) = c.extent)
        /\ ~c.def.array => c.extent # Dynamic /\ Len(c.def.v) = 1 /\ ~(c.extent > 0)
    BY DEF Checked, DefaultFits, Taken
  <2>2. QED
    BY <1>1, <2>1 DEF Formed, Extents, Dynamic
<1>3. \A i \in DOMAIN c.def.v :
        /\ At(c.min, i) \in Int /\ At(c.max, i) \in Int /\ c.def.v[i] \in Int
        /\ InType(c.type, At(c.min, i)) /\ InType(c.type, At(c.max, i))
        /\ InType(c.type, c.def.v[i])
  <2>1. \A i \in DOMAIN c.def.v : c.def.v[i] \in Int /\ InType(c.type, c.def.v[i])
    BY <1>1 DEF Checked, DefaultFits, Taken
  <2>2. QED
    BY <1>1, <1>2, <2>1, BoundAt
<1>4. \A i \in DOMAIN c.def.v : At(c.min, i) <= At(c.max, i)
  <2>1. c.min.array = c.max.array /\ DOMAIN c.min.v = DOMAIN c.max.v
    BY <1>1 DEF Supported, Limits
  <2>2. \A i \in DOMAIN c.min.v : c.min.v[i] <= c.max.v[i]
    BY <2>1 DEF Checked, BoundsOrdered
  <2>3. CASE c.min.array
    <3>1. Places(c.min, c.def) = DOMAIN c.def.v
      BY <1>1, <1>2, BoundPlaces
    <3>2. DOMAIN c.min.v = DOMAIN c.def.v
      BY <2>3, <3>1 DEF Places
    <3>3. QED
      BY <2>1, <2>2, <2>3, <3>2 DEF At
  <2>4. CASE ~c.min.array
    <3>1. 1 \in DOMAIN c.min.v
      BY <1>1, <2>4 DEF BoundFits, Limits
    <3>2. QED
      BY <2>1, <2>2, <2>4, <3>1 DEF At
  <2>5. QED
    BY <2>3, <2>4
<1>5. \A i \in DOMAIN c.def.v :
        LET y == Clamped(c.def.v[i], At(c.min, i), At(c.max, i))
        IN  /\ y \in Int /\ At(c.min, i) <= y /\ y <= At(c.max, i)
            /\ y \in {c.def.v[i], At(c.min, i), At(c.max, i)}
  BY <1>3, <1>4, ClampedBetween
<1>6. /\ clamped \in Seq(Int) /\ Len(clamped) = Len(c.def.v)
      /\ DOMAIN clamped = DOMAIN c.def.v
  BY <1>1, <1>5
<1>7. \A i \in DOMAIN c.def.v :
        /\ clamped[i] \in Int /\ At(c.min, i) <= clamped[i] /\ clamped[i] <= At(c.max, i)
        /\ clamped[i] \in {c.def.v[i], At(c.min, i), At(c.max, i)}
  BY <1>5
<1>8. Clamp(c) = [array |-> c.def.array, v |-> clamped]
  <2>1. c.def = [array |-> c.def.array, v |-> c.def.v]
    BY <1>1 DEF Limits
  <2>2. Clamp(c) = [c.def EXCEPT !.v = clamped]
    BY DEF Clamp, Taken
  <2> HIDE DEF clamped
  <2>3. QED
    BY <2>1, <2>2
<1> HIDE DEF clamped
<1>9. /\ Clamp(c).array = c.def.array /\ Clamp(c).v = clamped
      /\ Clamp(c) \in Limits /\ Clamp(c) \in Values
  BY <1>1, <1>6, <1>8, Numbers DEF Limits
<1>10. \A i \in DOMAIN clamped : InType(c.type, clamped[i])
  BY <1>3, <1>6, <1>7
<1>11. Formed(c, Clamp(c)) /\ Within(c, Clamp(c))
  BY <1>2, <1>6, <1>7, <1>9 DEF Formed, Within
<1>12. QED
  BY <1>6, <1>9, <1>10, <1>11

LEMMA CvToPvValue ==
  ASSUME NEW c, NEW value \in Values, c.type # "Float" => value.v \in Seq(Int)
  PROVE  CvToPv(c, value) \in ParamValues
<1>1. value.v \in Seq(Number)
  BY DEF Values
<1>2. CASE value.v = <<>>
  BY <1>2, NotSetValue DEF CvToPv
<1>3. CASE value.v # <<>>
  <2> DEFINE kind == CvToPv(c, value).kind
  <2>1. /\ CvToPv(c, value) = [kind |-> kind, v |-> value.v]
        /\ kind \in Kinds
        /\ kind \in {"integer", "double"} => Len(value.v) = 1
        /\ kind \notin {"double", "doubles"} => c.type # "Float"
    BY <1>3 DEF CvToPv, Parameter, Kinds, ScalarKind, ArrayKind
  <2> HIDE DEF kind
  <2>2. QED
    BY <1>1, <2>1 DEF ParamValues
<1>4. QED
  BY <1>2, <1>3

(* The default of an offered control is a value, ... *)
LEMMA ClampValue ==
  ASSUME NEW c, Checked(c), Supported(c)
  PROVE  Clamp(c) \in Values /\ CvToPv(c, Clamp(c)) \in ParamValues
<1>1. Clamp(c) \in Limits /\ Clamp(c) \in Values
  <2>1. CASE Taken(c)
    BY <2>1, RectangleClamped, ScalarsClamped
  <2>2. CASE ~Taken(c)
    BY <2>2, NoValueWithin DEF Clamp, Taken
  <2>3. QED
    BY <2>1, <2>2
<1>2. Clamp(c).v \in Seq(Int)
  BY <1>1 DEF Limits
<1>3. QED
  BY <1>1, <1>2, CvToPvValue

(* ... and an admitted one, unless it is missing or a misfit. *)
LEMMA ClampAdmitted ==
  ASSUME NEW c, Checked(c), Supported(c), ~Misfit(c), Taken(c)
  PROVE  /\ Admitted(c, Clamp(c))
         /\ ~(Clamp(c).array /\ Len(Clamp(c).v) = 1)
<1>1. PvTypeKnown(c)
  BY DEF Supported
<1>2. CASE c.type = "Rectangle"
  <2>1. Shaped(c, Clamp(c)) => ~Clamp(c).array
    BY <1>2 DEF Shaped
  <2>2. QED
    BY <1>1, <1>2, <2>1, RectangleClamped DEF Admitted
<1>3. CASE c.type # "Rectangle"
  <2>1. Shaped(c, Clamp(c)) /\ ~(Clamp(c).array /\ Len(Clamp(c).v) = 1)
    BY <1>3, ScalarsClamped DEF Shaped, Misfit
  <2>2. QED
    BY <1>1, <1>3, <2>1, ScalarsClamped, ComparedIsWithin DEF Admitted
<1>4. QED
  BY <1>2, <1>3

-----------------------------------------------------------------------------
(* Setting parameters.                                                     *)

Lists == UNION {[S -> ParamValues] : S \in SUBSET Names}

LEMMA OfferedKnown ==
  ASSUME TypesInv, NEW n \in offered
  PROVE  /\ n \in Names /\ Supported(ctl[n]) /\ PvTypeKnown(ctl[n]) /\ Checked(ctl[n])
         /\ ctl[n] \in Controls
BY CameraChecked DEF TypesInv, Supported, Checked

(* What a list that is accepted makes pending is admitted. *)
LEMMA SetCarried ==
  ASSUME TypesInv, Carried(pending), NEW list \in Lists, SetAtomically(list)
  PROVE  /\ pending' \in [Names -> Values]
         /\ \A n \in Names :
              pending'[n] = NoValue \/ (n \in offered /\ Admitted(ctl[n], pending'[n]))
<1>1. CASE ~Accepted(list)
  BY <1>1 DEF SetAtomically, TypesInv, Carried
<1>2. CASE Accepted(list)
  <2>1. pending' = [n \in Names |->
          IF n \in DOMAIN list /\ n \in offered /\ ~Unset(list[n])
            THEN PvToCv(ctl[n], list[n]) ELSE NoValue]
    BY <1>2 DEF SetAtomically, PostSetApply
  <2>2. ASSUME NEW n \in Names, n \in DOMAIN list, n \in offered, ~Unset(list[n])
        PROVE  Admitted(ctl[n], PvToCv(ctl[n], list[n]))
    <3>1. list[n] \in ParamValues
      BY <2>2 DEF Lists
    <3>2. Valid(n, list[n])
      BY <1>2, <2>2 DEF Accepted
    <3>3. QED
      BY <2>2, <3>1, <3>2, OfferedKnown, ValidAdmitted DEF TypesInv
  <2>3. \A n \in Names : pending'[n] = NoValue \/ (n \in offered /\ Admitted(ctl[n], pending'[n]))
    BY <2>1, <2>2
  <2>4. \A n \in Names : pending'[n] \in Values
    BY <2>3, NoValueWithin DEF Admitted
  <2>5. QED
    BY <2>1, <2>3, <2>4
<1>3. QED
  BY <1>1, <1>2

LEMMA StoreTypes ==
  ASSUME TypesInv, NEW list \in Lists, Store(list)
  PROVE  declared' \in [Names -> Declarations] /\ param' \in [Names -> ParamValues]
<1>1. CASE ~Accepted(list)
  BY <1>1 DEF Store, TypesInv
<1>2. CASE Accepted(list)
  <2>1. \A n \in DOMAIN list : list[n] \in ParamValues
    BY DEF Lists
  <2>2. param' = [n \in Names |-> IF n \in DOMAIN list THEN list[n] ELSE param[n]]
    BY <1>2 DEF Store
  <2>3. param' \in [Names -> ParamValues]
    BY <2>1, <2>2 DEF TypesInv
  <2>4. declared' = [n \in Names |->
          IF n \in DOMAIN list /\ Unset(list[n]) /\ ~Unset(param[n]) THEN "no" ELSE declared[n]]
    BY <1>2 DEF Store
  <2>5. declared' \in [Names -> Declarations]
    BY <2>4 DEF TypesInv, Declarations
  <2>6. QED
    BY <2>3, <2>5
<1>3. QED
  BY <1>1, <1>2

(* A value in the range of its parameter comes back as it was: in range, a *)
(* wide integer is one of the narrow type.                                 *)
LEMMA RangedReturns ==
  ASSUME TypesInv, NEW n \in offered, NEW p \in ParamValues, Valid(n, p), RangeOK(n, p), ~Unset(p),
         declared[n] = "ranged", ctl[n].type \notin {"Byte", "Float"}, ~PvToCv(ctl[n], p).array
  PROVE  CvToPv(ctl[n], PvToCv(ctl[n], p)) = p
<1> DEFINE c == ctl[n]
           value == PvToCv(c, p)
<1>1. Checked(c) /\ c \in Controls /\ PvTypeKnown(c)
  BY OfferedKnown
<1>2. /\ c.type \in Types /\ c.min \in Limits /\ c.max \in Limits
      /\ p = [kind |-> p.kind, v |-> p.v]
  BY <1>1 DEF Controls, ParamValues
<1>3. p.kind = PvType(c) /\ ~PvThrows(c, p) /\ p.v \in Seq(Int)
  <2>1. p.kind = PvType(c) /\ ~PvThrows(c, p)
    BY DEF Valid
  <2>2. QED
    BY <2>1, Expected
<1>4. CASE c.type = "Rectangle"
  <2>1. p.kind = "integers"
    BY <1>3, <1>4 DEF PvType, ArrayKind
  <2>2. Len(p.v) = 2
    BY <1>3, <1>4, <2>1 DEF PvThrows
  <2>3. value.v = p.v
    BY <1>1, <1>3, <1>4, PvToCvValue
  <2>4. p.v # <<>>
    <3>1. Len(p.v) # Len(<<>>)
      BY <2>2
    <3>2. QED
      BY <3>1, Zenon
  <2> HIDE DEF value
  <2>5. CvToPv(c, value) = Parameter("integers", p.v)
    BY <1>4, <2>3, <2>4 DEF CvToPv, ArrayKind
  <2>6. QED
    BY <1>2, <2>1, <2>5 DEF Parameter, value
<1>5. CASE c.type # "Rectangle"
  <2>1. p.kind = "integer" /\ c.extent = 0 /\ Len(p.v) = 1
    <3>1. p.kind \notin {"integers", "doubles"}
      BY <1>1, <1>3, <1>5, PvToCvValue
    <3>2. QED
      BY <1>3, <3>1, Expected DEF PvType, ScalarKind
  <2>2. p.v[1] \in Int /\ DOMAIN p.v = 1..1
    BY <1>3, <2>1
  <2>3. Len(c.min.v) = 1 /\ Len(c.max.v) = 1
    BY <1>1, <1>5, <2>1 DEF Checked, BoundFits
  <2>4. 1 \in DOMAIN c.min.v /\ 1 \in DOMAIN c.max.v
    BY <1>2, <2>3 DEF Limits
  <2>5. /\ c.min.v[1] \in Int /\ InType(c.type, c.min.v[1])
        /\ c.max.v[1] \in Int /\ InType(c.type, c.max.v[1])
    BY <1>1, <1>2, <1>5, <2>4 DEF Checked, BoundFits, Limits
  <2>6. c.min.v[1] <= p.v[1] /\ p.v[1] <= c.max.v[1]
    <3>1. InRange(c, p.v[1])
      BY <1>2, <1>3, <1>5, <2>1 DEF RangeOK, Types
    <3>2. QED
      BY <2>2, <2>5, <3>1, Numbers DEF InRange, Below
  <2>7. InType(c.type, p.v[1])
    BY <2>2, <2>5, <2>6, HalfWidth DEF InType
  <2>8. Narrow(c.type, p.v[1]) = p.v[1]
    BY <2>7, FitsNarrow
  <2>9. value.v[1] = p.v[1] /\ value.v \in Seq(Number) /\ Len(value.v) = 1
    BY <1>1, <1>3, <1>5, <2>1, <2>2, <2>8, PvToCvValue DEF Values
  <2>10. value.v = p.v
    BY <1>3, <2>1, <2>9
  <2>11. p.v # <<>>
    <3>1. Len(p.v) # Len(<<>>)
      BY <2>1
    <3>2. QED
      BY <3>1, Zenon
  <2> HIDE DEF value
  <2>12. CvToPv(c, value) = Parameter("integer", p.v)
    BY <1>5, <2>9, <2>10, <2>11 DEF CvToPv, ScalarKind
  <2>13. QED
    BY <1>2, <2>1, <2>12 DEF Parameter, value
<1>6. QED
  BY <1>4, <1>5

LEMMA SetShown ==
  ASSUME Inv, NEW list \in Lists, SetAtomically(list), ctl' = ctl
  PROVE  PendingIsShown'
<1>1. CASE ~Accepted(list)
  BY <1>1 DEF SetAtomically, Store, Inv, PendingIsShown
<1>2. CASE Accepted(list)
  <2> SUFFICES ASSUME NEW n \in Names, declared'[n] = "ranged", ctl[n].type \notin {"Byte", "Float"},
                      pending'[n] # NoValue, ~pending'[n].array
               PROVE  param'[n] = CvToPv(ctl[n], pending'[n])
    BY DEF PendingIsShown
  <2>1. /\ n \in DOMAIN list /\ n \in offered /\ ~Unset(list[n])
        /\ pending'[n] = PvToCv(ctl[n], list[n])
    BY <1>2 DEF SetAtomically, PostSetApply
  <2>2. param'[n] = list[n] /\ declared[n] = "ranged"
    BY <1>2, <2>1 DEF SetAtomically, Store
  <2>3. list[n] \in ParamValues
    BY <2>1 DEF Lists
  <2>4. Valid(n, list[n]) /\ RangeOK(n, list[n])
    BY <1>2, <2>1 DEF Accepted
  <2>5. QED
    BY <2>1, <2>2, <2>3, <2>4, RangedReturns DEF Inv
<1>3. QED
  BY <1>1, <1>2

LEMMA InputValues == \A p \in Inputs : p \in ParamValues
BY ControlsAssumption

DefaultList(over, p) ==
  [n \in offered |-> IF n \in over THEN p ELSE CvToPv(ctl[n], Clamp(ctl[n]))]

LEMMA DefaultLists ==
  ASSUME TypesInv, NEW over, NEW p \in IF over = {} THEN {NotSet} ELSE Inputs
  PROVE  DefaultList(over, p) \in Lists
<1>1. p \in ParamValues
  BY NotSetValue, InputValues
<1>2. \A n \in offered : CvToPv(ctl[n], Clamp(ctl[n])) \in ParamValues
  BY OfferedKnown, ClampValue
<1>3. DefaultList(over, p) \in [offered -> ParamValues]
  BY <1>1, <1>2 DEF DefaultList
<1>4. offered \in SUBSET Names
  BY OfferedKnown
<1>5. QED
  BY <1>3, <1>4 DEF Lists

(* Without overrides and misfits the defaults are accepted. *)
LEMMA DefaultListAccepted ==
  ASSUME TypesInv, \A n \in offered : ~Misfit(ctl[n]), NEW p
  PROVE  Accepted(DefaultList({}, p))
<1> SUFFICES ASSUME NEW n \in offered
             PROVE  LET q == CvToPv(ctl[n], Clamp(ctl[n])) IN RangeOK(n, q) /\ Valid(n, q)
  BY DEF Accepted, DefaultList
<1>1. n \in Names /\ Checked(ctl[n]) /\ Supported(ctl[n]) /\ ~Misfit(ctl[n])
  BY OfferedKnown
<1>2. CASE Taken(ctl[n])
  BY <1>1, <1>2, ClampAdmitted, AdmittedAccepted DEF TypesInv
<1>3. CASE ~Taken(ctl[n])
  <2>1. CvToPv(ctl[n], Clamp(ctl[n])) = NotSet
    BY <1>3 DEF Clamp, Taken, CvToPv, NoValue
  <2>2. QED
    BY <2>1, NotSetValue DEF RangeOK, Valid, Unset
<1>4. QED
  BY <1>2, <1>3

-----------------------------------------------------------------------------
(* The invariant.                                                          *)

LEMMA CarriedKept ==
  ASSUME TypesInv, Carried(sent), UNCHANGED <<ctl, offered, sent>>
  PROVE  Carried(sent)'
BY DEF Carried

LEMMA EmptyValue ==
  Empty \in [Names -> Values] /\ \A n \in Names : Empty[n] = NoValue
BY NoValueWithin DEF Empty

LEMMA Initially == Init => Inv
<1> SUFFICES ASSUME Init PROVE Inv
  OBVIOUS
<1>1. TypesInv
  BY EmptyValue, NotSetValue DEF Init, TypesInv, Declarations
<1>2. Carried(pending) /\ Carried(sent) /\ PendingIsShown /\ DefaultsAccepted
  BY EmptyValue DEF Init, Carried, PendingIsShown, DefaultsAccepted
<1>3. QED
  BY <1>1, <1>2 DEF Inv

LEMMA Inductive == Inv /\ [Next]_vars => Inv'
<1> SUFFICES ASSUME Inv, [Next]_vars PROVE Inv'
  OBVIOUS
<1>1. TypesInv /\ Carried(pending) /\ Carried(sent) /\ PendingIsShown /\ DefaultsAccepted
  BY DEF Inv
<1>2. CASE Declare
  <2>1. TypesInv'
    BY <1>1, <1>2 DEF Declare, TypesInv, Declarations
  <2>2. \A n \in Names : pending[n] = NoValue /\ sent[n] = NoValue
    BY <1>1, <1>2 DEF Declare, TypesInv, Carried
  <2>3. Carried(pending)' /\ Carried(sent)' /\ PendingIsShown' /\ DefaultsAccepted'
    BY <1>2, <2>2 DEF Declare, Carried, PendingIsShown, DefaultsAccepted
  <2>4. QED
    BY <2>1, <2>3 DEF Inv
<1>3. CASE SetDefaults
  <2>1. PICK over \in SUBSET offered : \E p \in IF over = {} THEN {NotSet} ELSE Inputs :
          /\ SetAtomically(DefaultList(over, p))
          /\ defaultsSet' = (over # {} \/ Accepted(DefaultList(over, p)))
    BY <1>3 DEF SetDefaults, DefaultList
  <2>2. PICK p \in IF over = {} THEN {NotSet} ELSE Inputs :
          /\ SetAtomically(DefaultList(over, p))
          /\ defaultsSet' = (over # {} \/ Accepted(DefaultList(over, p)))
    BY <2>1
  <2>3. DefaultList(over, p) \in Lists
    BY <1>1, DefaultLists
  <2>4. pc = "defaults" /\ pc' = "redeclare" /\ UNCHANGED <<ctl, offered, sent>>
    BY <1>3 DEF SetDefaults
  <2>5. /\ pending' \in [Names -> Values]
        /\ \A n \in Names :
             pending'[n] = NoValue \/ (n \in offered /\ Admitted(ctl[n], pending'[n]))
    BY <1>1, <2>2, <2>3, SetCarried
  <2>6. declared' \in [Names -> Declarations] /\ param' \in [Names -> ParamValues]
    BY <1>1, <2>2, <2>3, StoreTypes DEF SetAtomically
  <2>7. TypesInv'
    BY <1>1, <2>4, <2>5, <2>6 DEF TypesInv
  <2>8. Carried(pending)' /\ Carried(sent)'
    BY <1>1, <2>4, <2>5, CarriedKept DEF Carried
  <2>9. PendingIsShown'
    BY <2>2, <2>3, <2>4, SetShown
  <2>10. ASSUME \A n \in offered : ~Misfit(ctl[n])
         PROVE  defaultsSet'
    <3>1. over = {} => Accepted(DefaultList(over, p))
      BY <1>1, <2>10, DefaultListAccepted
    <3>2. QED
      BY <2>2, <3>1
  <2>11. DefaultsAccepted'
    BY <2>4, <2>10 DEF DefaultsAccepted
  <2>12. QED
    BY <2>7, <2>8, <2>9, <2>11 DEF Inv
<1>4. CASE Redeclare
  <2>1. TypesInv'
    BY <1>1, <1>4 DEF Redeclare, TypesInv, Declarations
  <2>2. Carried(pending)' /\ Carried(sent)' /\ DefaultsAccepted'
    BY <1>1, <1>4 DEF Redeclare, Carried, DefaultsAccepted
  <2>3. \A n \in Names : declared'[n] = "ranged" => declared[n] = "ranged"
    BY <1>4 DEF Redeclare
  <2>4. PendingIsShown'
    BY <1>1, <1>4, <2>3 DEF Redeclare, PendingIsShown
  <2>5. QED
    BY <2>1, <2>2, <2>4 DEF Inv
<1>5. CASE Move
  <2>1. TypesInv'
    BY <1>1, <1>5, EmptyValue DEF Move, TypesInv
  <2>2. Carried(pending)' /\ Carried(sent)' /\ PendingIsShown' /\ DefaultsAccepted'
    BY <1>1, <1>5, EmptyValue DEF Move, Carried, PendingIsShown, DefaultsAccepted
  <2>3. QED
    BY <2>1, <2>2 DEF Inv
<1>6. CASE Sync
  <2>1. CASE UNCHANGED <<declared, param, pending>>
    <3>1. /\ pc = "sync" /\ pc' \in {"gone", "redeclare"}
          /\ UNCHANGED <<ctl, offered, sent, defaultsSet>>
      BY <1>6 DEF Sync
    <3>2. TypesInv'
      BY <1>1, <2>1, <3>1 DEF TypesInv
    <3>3. Carried(pending)' /\ Carried(sent)' /\ PendingIsShown' /\ DefaultsAccepted'
      BY <1>1, <2>1, <3>1 DEF Carried, PendingIsShown, DefaultsAccepted
    <3>4. QED
      BY <3>2, <3>3 DEF Inv
  <2>2. CASE ~UNCHANGED <<declared, param, pending>>
    <3> DEFINE list == [n \in InRequest |-> CvToPv(ctl[n], sent[n])]
    <3>1. /\ pc = "sync" /\ pc' = "redeclare" /\ Store(list) /\ pending' = Empty
          /\ UNCHANGED <<ctl, offered, sent, defaultsSet>>
      BY <1>6, <2>2 DEF Sync
    <3>2. list \in Lists
      <4>1. \A n \in InRequest : CvToPv(ctl[n], sent[n]) \in ParamValues
        BY <1>1, AdmittedNumbers, CvToPvValue DEF InRequest, Carried
      <4>2. list \in [InRequest -> ParamValues] /\ InRequest \in SUBSET Names
        BY <4>1 DEF InRequest
      <4>3. QED
        BY <4>2 DEF Lists
    <3>3. declared' \in [Names -> Declarations] /\ param' \in [Names -> ParamValues]
      <4> HIDE DEF list
      <4> QED
        BY <1>1, <3>1, <3>2, StoreTypes
    <3>4. TypesInv'
      BY <1>1, <3>1, <3>3, EmptyValue DEF TypesInv
    <3>5. Carried(pending)' /\ Carried(sent)' /\ PendingIsShown' /\ DefaultsAccepted'
      BY <1>1, <3>1, EmptyValue DEF Carried, PendingIsShown, DefaultsAccepted
    <3>6. QED
      BY <3>4, <3>5 DEF Inv
  <2>3. QED
    BY <2>1, <2>2
<1>7. ASSUME NEW m \in Names, NEW p \in Inputs, Set(m, p)
      PROVE  Inv'
  <2> DEFINE list == [k \in {m} |-> p]
  <2>1. list \in Lists
    <3>1. list \in [{m} -> ParamValues] /\ {m} \in SUBSET Names
      BY InputValues
    <3>2. QED
      BY <3>1 DEF Lists
  <2>2. SetAtomically(list) /\ UNCHANGED <<ctl, offered, sent, pc, defaultsSet>>
    BY <1>7 DEF Set
  <2> HIDE DEF list
  <2>3. /\ pending' \in [Names -> Values]
        /\ \A n \in Names :
             pending'[n] = NoValue \/ (n \in offered /\ Admitted(ctl[n], pending'[n]))
    BY <1>1, <2>1, <2>2, SetCarried
  <2>4. declared' \in [Names -> Declarations] /\ param' \in [Names -> ParamValues]
    BY <1>1, <2>1, <2>2, StoreTypes DEF SetAtomically
  <2>5. TypesInv'
    BY <1>1, <2>2, <2>3, <2>4 DEF TypesInv
  <2>6. Carried(pending)' /\ Carried(sent)' /\ DefaultsAccepted'
    BY <1>1, <2>2, <2>3, CarriedKept DEF Carried, DefaultsAccepted
  <2>7. PendingIsShown'
    BY <2>1, <2>2, SetShown
  <2>8. QED
    BY <2>5, <2>6, <2>7 DEF Inv
<1>8. CASE UNCHANGED vars
  <2>1. TypesInv'
    BY <1>1, <1>8 DEF vars, TypesInv
  <2>2. Carried(pending)' /\ Carried(sent)' /\ PendingIsShown' /\ DefaultsAccepted'
    BY <1>1, <1>8 DEF vars, Carried, PendingIsShown, DefaultsAccepted
  <2>3. QED
    BY <2>1, <2>2 DEF Inv
<1>9. QED
  BY <1>2, <1>3, <1>4, <1>5, <1>6, <1>7, <1>8 DEF Next, Worker

(* The strengthened invariant of declaring, setting and synchronising.     *)
THEOREM Invariance == Spec => []Inv
BY Initially, Inductive, PTL DEF Spec

(* No control is ever given a number out of its bounds, whatever a user    *)
(* writes and whatever the camera's defaults are (PostSetApply and         *)
(* move_control_values).  The one thing else that reaches a control is a   *)
(* NaN, and only a Float: no comparison refuses it.                        *)
THEOREM ControlsInRange == Spec => []AppliedInRange
<1>1. Inv => AppliedInRange
  <2> SUFFICES ASSUME Inv, NEW n \in Names, ctl[n].type # "Rectangle"
               PROVE  Within(ctl[n], pending[n]) /\ Within(ctl[n], sent[n])
    BY DEF AppliedInRange
  <2>1. Checked(ctl[n])
    BY CameraChecked DEF Inv, TypesInv
  <2>2. QED
    BY <2>1, AdmittedWithin, NoValueWithin DEF Inv, Carried
<1>2. QED
  BY <1>1, Invariance, PTL

(* A pending value is the one that its ranged parameter reads              *)
(* (PostSetApply, sync_control_values and redeclare).                      *)
THEOREM PendingShown == Spec => []PendingIsShown
<1>1. Inv => PendingIsShown
  BY DEF Inv
<1>2. QED
  BY <1>1, Invariance, PTL

(* A camera without misfits has all its defaults set, clamped and          *)
(* converted (the second half of declare).                                 *)
THEOREM DefaultsFit == Spec => []DefaultsAccepted
<1>1. Inv => DefaultsAccepted
  BY DEF Inv
<1>2. QED
  BY <1>1, Invariance, PTL

(* What was sent to the camera is what the parameters stand for once it    *)
(* has been synchronised (sync_control_values).                            *)
THEOREM SentReturns == Spec => SyncShowsSent
<1>1. ASSUME Inv, [Next]_vars, pc = "sync", pc' = "redeclare",
             \A n \in InRequest : ~(sent[n].array /\ Len(sent[n].v) = 1),
             NEW n \in InRequest, sent[n].v # <<>>
      PROVE  PvToCv(ctl[n], param'[n]) = sent[n]
  <2> DEFINE list == [k \in InRequest |-> CvToPv(ctl[k], sent[k])]
  <2>1. Store(list)
    BY <1>1 DEF Next, Worker, Declare, SetDefaults, Redeclare, Move, Sync, Set, vars
  <2>2. ASSUME NEW k \in InRequest
        PROVE  k \in Names /\ Checked(ctl[k]) /\ Admitted(ctl[k], sent[k])
    BY <1>1, <2>2, CameraChecked DEF Inv, TypesInv, Carried, InRequest
  <2>3. Accepted(list)
    <3>1. ASSUME NEW k \in InRequest
          PROVE  RangeOK(k, CvToPv(ctl[k], sent[k])) /\ Valid(k, CvToPv(ctl[k], sent[k]))
      BY <1>1, <2>2, AdmittedAccepted DEF Inv, TypesInv
    <3>2. QED
      BY <3>1 DEF Accepted
  <2>4. param'[n] = CvToPv(ctl[n], sent[n])
    BY <2>1, <2>2, <2>3 DEF Store
  <2>5. QED
    BY <1>1, <2>2, <2>4, AdmittedParameter
<1>2. Inv /\ [Next]_vars => [pc = "sync" /\ pc' = "redeclare"
        /\ (\A n \in InRequest : ~(sent[n].array /\ Len(sent[n].v) = 1))
       => \A n \in InRequest : sent[n].v # <<>> => PvToCv(ctl[n], param'[n]) = sent[n]]_vars
  BY <1>1
<1>3. QED
  BY <1>2, Invariance, PTL DEF Spec, SyncShowsSent
=============================================================================
