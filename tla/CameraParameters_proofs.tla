----------------------- MODULE CameraParameters_proofs -----------------------
(***************************************************************************)
(* For any exposure times, threads, defaults, overrides and sets: without  *)
(* an unset parameter, no thread throws and tmp_store is empty between     *)
(* sets.                                                                   *)
(*                                                                         *)
(* OnlyUnsetBreaks is not inductive: it has to be known that the lists the *)
(* threads write back never unset anything (the type of ctl), that every   *)
(* parameter is then declared and that no thread is about to declare one.  *)
(*                                                                         *)
(* The pending values never fix a time in automatic mode, and the values   *)
(* accepted last are never lost on their way to the camera (WayInv).       *)
(***************************************************************************)
EXTENDS CameraParameters, TLAPS

DeclaredInv ==
  ~unset =>
    /\ ~crashed /\ tmpStore = None
    /\ \A n \in Names : params[n] # None
    /\ \A w \in Workers : pc[w] # "declare"

IInv == TypeOK /\ DeclaredInv

Distinct == None # NotSet /\ NotSet \notin Times /\ \A n \in Names : None \notin Values[n]

LEMMA EntriesDistinct == Distinct
  <1>1. None # NotSet /\ NotSet \notin Times
    BY ParametersAssumption
  <1>2. None \notin Values["AeEnable"] /\ None \notin Values["ExposureTimeMode"]
    BY ParametersAssumption DEF Values
  <1>3. None \notin Values["ExposureTime"]
    BY ParametersAssumption DEF Values
  <1> QED BY <1>1, <1>2, <1>3 DEF Distinct, Names

(* Taking over the entries of a new list. *)
LEMMA UpdateTypes ==
  ASSUME NEW old, NEW new
  PROVE  /\ IsControls(old) /\ IsControls(new) => IsControls(Update(old, new))
         /\ IsParameters(old) /\ IsParameters(new) => IsParameters(Update(old, new))
         /\ IsControls(new) => IsParameters(new)
  BY DEF IsControls, IsParameters, Update

LEMMA ValuesType ==
  ASSUME NEW p, IsParameters(p)
  PROVE  IsControls(SetValues(p))
  BY DEF IsControls, IsParameters, SetValues, IsSet

LEMMA PatchType ==
  ASSUME NEW c, IsControls(c)
  PROVE  IsControls(Patch(c))
  BY DEF IsControls, Patch, Values, Names

LEMMA EmptyType == IsControls(Empty) /\ IsParameters(Empty)
  BY DEF IsControls, IsParameters, Empty

LEMMA ResolvedType ==
  ASSUME NEW l, IsParameters(l), store \in Times \cup {None}
  PROVE  IsParameters(Resolved(l))
  BY DEF IsParameters, Resolved, Restores, Values, Names

(* What a set leaves of the types, and that it keeps every parameter       *)
(* declared unless it unsets one or finds one missing.                     *)
LEMMA SetTypes ==
  ASSUME NEW l, IsParameters(l), IsParameters(params), IsControls(values),
         store \in Times \cup {None}, tmpStore \in Times \cup {None},
         SetAccepted(l) \/ SetRejected(l) \/ SetThrows(l)
  PROVE  /\ IsParameters(params)' /\ IsControls(values)'
         /\ store' \in Times \cup {None} /\ tmpStore' \in Times \cup {None}
  <1>1. IsParameters(Resolved(l))
    BY ResolvedType
  <1>2. CASE SetAccepted(l)
    <2>1. IsControls(values)'
      BY <1>1, <1>2 DEF SetAccepted, IsControls, IsParameters, IsSet
    <2>2. IsParameters(params)'
      BY <1>2, UpdateTypes DEF SetAccepted, IsParameters
    <2>3. store' \in Times \cup {None} /\ tmpStore' \in Times \cup {None}
      BY <1>2 DEF SetAccepted, TmpStore
    <2> QED BY <2>1, <2>2, <2>3
  <1>3. CASE SetRejected(l)
    BY <1>3 DEF SetRejected, IsParameters, IsControls
  <1>4. CASE SetThrows(l)
    BY <1>4 DEF SetThrows, TmpStore, IsParameters, IsControls
  <1> QED BY <1>2, <1>3, <1>4

LEMMA SyncDeclared ==
  ASSUME NEW l, IsControls(l), IsParameters(params), \A n \in Names : params[n] # None
  PROVE  /\ ~SetThrows(l)
         /\ SetAccepted(l) \/ SetRejected(l) =>
              tmpStore' = None /\ \A n \in Names : params'[n] # None
  <1>1. ~Incomplete /\ ~Unknown(l)
    BY DEF Incomplete, Unknown
  <1>2. \A n \in Names : l[n] # NotSet
    BY EntriesDistinct, ParametersAssumption DEF Distinct, IsControls, Values, Names, NotSet
  <1>3. ASSUME SetAccepted(l) PROVE \A n \in Names : params'[n] # None
    BY <1>2, <1>3 DEF SetAccepted, Update
  <1> QED BY <1>1, <1>3 DEF SetThrows, SetAccepted, SetRejected

LEMMA InitInv == Init => IInv
  <1> SUFFICES ASSUME Init PROVE IInv
    OBVIOUS
  <1>1. PICK d \in Defaults, o \in Overrides :
          params = InitialParams(d, o) /\ store = InitialStore(d, o)
    BY DEF Init
  <1>2. IsParameters(d) /\ (\A n \in Names : d[n] # None) /\ IsControls(o)
    BY ParametersAssumption
  <1>3. IsParameters(WithMode(d)) /\ \A n \in Names : WithMode(d)[n] # None
    BY <1>2, EntriesDistinct DEF WithMode, IsParameters, Values, Names, Distinct
  <1>4. IsParameters(ResolvedDefaults(d)) /\ \A n \in Names : ResolvedDefaults(d)[n] # None
    BY <1>3, EntriesDistinct DEF ResolvedDefaults, IsParameters, Distinct, Names
  <1>5. DefaultStore(d) \in Times \cup {None}
    BY <1>2, EntriesDistinct
    DEF DefaultStore, Exposed, WithMode, IsParameters, IsSet, Values, Names
  <1>6. IsParameters(Overridden(d, o)) /\ \A n \in Names : Overridden(d, o)[n] # None
    <2>1. IsParameters(Overridden(d, o))
      BY <1>2, <1>4, UpdateTypes DEF Overridden
    <2>2. \A n \in Names : Overridden(d, o)[n] # None
      BY <1>4 DEF Overridden, Update
    <2> QED BY <2>1, <2>2
  <1>7. IsParameters(params) /\ \A n \in Names : params[n] # None
    BY <1>1, <1>5, <1>6, EntriesDistinct
    DEF InitialParams, RestoresDefault, IsParameters, Values, Names, Distinct
  <1>8. store \in Times \cup {None}
    BY <1>1, <1>5 DEF InitialStore
  <1>9. IsControls(values) /\ IsControls(camera) /\ IsParameters(last)
    BY <1>7, ValuesType, PatchType, EmptyType DEF Init
  <1>10. TypeOK
    <2>1. /\ pc \in [Workers -> {"wait", "redeclare", "declare", "queue", "sync", "clear"}]
          /\ todo \in [Workers -> SUBSET Names] /\ item \in [Workers -> Names \cup {None}]
      BY DEF Init
    <2>2. DOMAIN ctl = Workers /\ \A w \in Workers : IsControls(ctl[w])
      BY EmptyType DEF Init
    <2>3. tmpStore \in Times \cup {None} /\ crashed \in BOOLEAN /\ raced \in BOOLEAN
          /\ unset \in BOOLEAN
      BY DEF Init
    <2>4. sets \in 0 .. MaxSets
      <3>1. MaxSets \in Nat /\ sets = 0
        BY ParametersAssumption DEF Init
      <3> QED BY <3>1
    <2> QED BY <1>7, <1>8, <1>9, <2>1, <2>2, <2>3, <2>4 DEF TypeOK
  <1>11. DeclaredInv
    BY <1>7 DEF Init, DeclaredInv
  <1> QED BY <1>10, <1>11 DEF IInv

LEMMA UserStep ==
  ASSUME IInv, UserSet
  PROVE  IInv'
  <1>1. PICK l \in UserSets :
          \/ UserAccepted(l)
          \/ (SetThrows(l) \/ SetRejected(l)) /\ UNCHANGED <<last, raced, unset>>
    BY DEF UserSet
  <1>2. IsParameters(l)
    BY ParametersAssumption
  <1>3. /\ IsParameters(params)' /\ IsControls(values)'
        /\ store' \in Times \cup {None} /\ tmpStore' \in Times \cup {None}
    BY <1>1, <1>2, SetTypes DEF IInv, TypeOK, UserAccepted
  <1>4. IsParameters(last)' /\ raced' \in BOOLEAN /\ unset' \in BOOLEAN /\ sets' \in 0 .. MaxSets
    <2>1. IsParameters(last)'
      BY <1>1, <1>2 DEF IInv, TypeOK, UserAccepted, IsParameters
    <2>2. raced' \in BOOLEAN
      BY <1>1 DEF IInv, TypeOK, UserAccepted, Synchronising
    <2>3. unset' \in BOOLEAN
      BY <1>1 DEF IInv, TypeOK, UserAccepted
    <2>4. sets' \in 0 .. MaxSets
      <3>1. MaxSets \in Nat /\ sets \in 0 .. MaxSets /\ sets < MaxSets /\ sets' = sets + 1
        BY ParametersAssumption DEF IInv, TypeOK, UserSet
      <3> QED BY <3>1
    <2> QED BY <2>1, <2>2, <2>3, <2>4
  <1>5. TypeOK'
    BY <1>3, <1>4 DEF IInv, TypeOK, UserSet, workerVars, IsControls
  <1>6. DeclaredInv'
    <2> SUFFICES ASSUME ~unset'
                 PROVE  /\ ~crashed' /\ tmpStore' = None
                        /\ \A n \in Names : params'[n] # None
                        /\ \A w \in Workers : pc'[w] # "declare"
      BY DEF DeclaredInv
    <2>1. ~unset
      BY <1>1 DEF UserAccepted
    <2>2. /\ ~crashed /\ tmpStore = None
          /\ \A n \in Names : params[n] # None
          /\ \A w \in Workers : pc[w] # "declare"
      BY <2>1 DEF IInv, DeclaredInv
    <2>3. ~crashed' /\ \A w \in Workers : pc'[w] # "declare"
      BY <2>2 DEF UserSet, workerVars
    <2>4. CASE UserAccepted(l)
      BY <2>3, <2>4 DEF UserAccepted, SetAccepted
    <2>5. CASE SetThrows(l)
      BY <2>2, <2>5 DEF SetThrows, Unknown, Incomplete
    <2>6. CASE SetRejected(l)
      BY <2>2, <2>3, <2>6 DEF SetRejected
    <2> QED BY <1>1, <2>4, <2>5, <2>6
  <1> QED BY <1>5, <1>6 DEF IInv

(* Steps of a thread that set nothing. *)
LEMMA PlainWorkerStep ==
  ASSUME NEW w \in Workers, IInv, ~crashed,
         Begin(w) \/ RedeclareLook(w) \/ Move(w) \/ Queue(w) \/ SyncClear(w)
  PROVE  IInv'
  <1> USE DEF IInv, TypeOK, Goto, handlerVars, historyVars
  <1>1. CASE Begin(w)
    BY <1>1 DEF Begin, DeclaredInv
  <1>2. CASE RedeclareLook(w)
    <2>1. TypeOK'
      BY <1>2 DEF RedeclareLook
    <2>2. DeclaredInv'
      BY <1>2 DEF RedeclareLook, DeclaredInv
    <2> QED BY <2>1, <2>2
  <1>3. CASE Move(w)
    <2>1. TypeOK'
      BY <1>3, EmptyType DEF Move
    <2>2. DeclaredInv'
      BY <1>3 DEF Move, DeclaredInv
    <2> QED BY <2>1, <2>2
  <1>4. CASE Queue(w)
    <2>1. IsControls(ctl[w]) /\ IsControls(Patch(ctl[w]))
      BY PatchType
    <2>2. ctl'[w] = Patch(ctl[w]) /\ DOMAIN ctl' = Workers
          /\ \A v \in Workers \ {w} : ctl'[v] = ctl[v]
      BY <1>4 DEF Queue
    <2>3. IsControls(camera')
      BY <1>4, <2>1, <2>2, UpdateTypes DEF Queue
    <2>4. TypeOK'
      BY <1>4, <2>1, <2>2, <2>3 DEF Queue
    <2>5. DeclaredInv'
      BY <1>4 DEF Queue, DeclaredInv
    <2> QED BY <2>4, <2>5
  <1>5. CASE SyncClear(w)
    <2>1. TypeOK'
      BY <1>5, EmptyType DEF SyncClear
    <2>2. DeclaredInv'
      BY <1>5 DEF SyncClear, DeclaredInv
    <2> QED BY <2>1, <2>2
  <1> QED BY <1>1, <1>2, <1>3, <1>4, <1>5

LEMMA RedeclareOneStep ==
  ASSUME NEW w \in Workers, IInv, RedeclareOne(w)
  PROVE  IInv'
  <1> USE DEF IInv, TypeOK, Goto, historyVars
  <1>1. IsParameters(params)'
    BY DEF RedeclareOne, IsParameters
  <1>2. TypeOK'
    BY <1>1 DEF RedeclareOne
  <1>3. DeclaredInv'
    BY DEF RedeclareOne, DeclaredInv
  <1> QED BY <1>2, <1>3

LEMMA SyncStep ==
  ASSUME NEW w \in Workers, IInv, ~crashed, Sync(w)
  PROVE  IInv'
  <1>1. IsControls(ctl[w]) /\ IsParameters(ctl[w])
    BY UpdateTypes DEF IInv, TypeOK
  <1>2. SetAccepted(ctl[w]) \/ SetRejected(ctl[w]) \/ SetThrows(ctl[w])
    BY DEF Sync
  <1>3. /\ IsParameters(params)' /\ IsControls(values)'
        /\ store' \in Times \cup {None} /\ tmpStore' \in Times \cup {None}
    BY <1>1, <1>2, SetTypes DEF IInv, TypeOK
  <1>4. TypeOK'
    BY <1>3 DEF IInv, TypeOK, Sync, Goto, historyVars, IsControls, IsParameters
  <1>5. DeclaredInv'
    <2> SUFFICES ASSUME ~unset
                 PROVE  /\ ~crashed' /\ tmpStore' = None
                        /\ \A n \in Names : params'[n] # None
                        /\ \A v \in Workers : pc'[v] # "declare"
      BY DEF DeclaredInv, Sync, historyVars
    <2>1. \A n \in Names : params[n] # None
      BY DEF IInv, DeclaredInv
    <2>2. /\ ~SetThrows(ctl[w])
          /\ tmpStore' = None /\ \A n \in Names : params'[n] # None
      BY <1>1, <1>2, <2>1, SyncDeclared DEF IInv, TypeOK
    <2>3. ~crashed'
      BY <2>2 DEF Sync
    <2>4. \A v \in Workers : pc'[v] # "declare"
      BY DEF IInv, TypeOK, DeclaredInv, Sync, Goto
    <2> QED BY <2>2, <2>3, <2>4
  <1> QED BY <1>4, <1>5 DEF IInv

LEMMA StutterStep ==
  ASSUME IInv, UNCHANGED vars
  PROVE  IInv'
  BY DEF IInv, TypeOK, DeclaredInv, IsControls, IsParameters,
     vars, handlerVars, workerVars, historyVars

(* The invariant is inductive. *)
LEMMA StepInv == IInv /\ [Next]_vars => IInv'
  <1> SUFFICES ASSUME IInv, [Next]_vars PROVE IInv'
    OBVIOUS
  <1>1. CASE UserSet
    BY <1>1, UserStep
  <1>2. ASSUME NEW w \in Workers, Worker(w) PROVE IInv'
    BY <1>2, PlainWorkerStep, RedeclareOneStep, SyncStep DEF Worker
  <1>3. CASE UNCHANGED vars
    BY <1>3, StutterStep
  <1> QED BY <1>1, <1>2, <1>3 DEF Next

(* Every variable keeps its type; in particular no control list ever holds *)
(* an unset value.                                                         *)
THEOREM TypeCorrect == Spec => []TypeOK
  <1>1. IInv => TypeOK
    BY DEF IInv
  <1> QED BY InitInv, StepInv, <1>1, PTL DEF Spec

(* Unless a user unsets a parameter, no thread throws and every set starts *)
(* with an empty tmp_store.                                                *)
THEOREM SetsNeverThrow == Spec => []OnlyUnsetBreaks
  <1>1. IInv => OnlyUnsetBreaks
    BY DEF IInv, DeclaredInv, OnlyUnsetBreaks
  <1> QED BY InitInv, StepInv, <1>1, PTL DEF Spec

(* The control values that wait for the next request never fix the         *)
(* exposure time while the mode parameter is automatic.                    *)
THEOREM NeverTimeInAuto == Spec => []NoTimeInAuto
  <1> USE EntriesDistinct DEF NoTimeInAuto, Names, Distinct, NotSet
  <1>1. Init => NoTimeInAuto
    <2> SUFFICES ASSUME Init PROVE NoTimeInAuto
      OBVIOUS
    <2>1. PICK d \in Defaults, o \in Overrides : params = InitialParams(d, o)
      BY DEF Init
    <2>2. /\ IsParameters(params)
          /\ values = SetValues(params)
      BY InitInv DEF IInv, TypeOK, Init
    <2>3. ~Exposed(params)
      BY <2>1 DEF InitialParams, RestoresDefault, Exposed, IsSet, Overridden, Update
    <2> QED BY <2>2, <2>3 DEF SetValues, Exposed
  <1>2. ASSUME NEW l, NoTimeInAuto, SetAccepted(l) PROVE NoTimeInAuto'
    <2>1. None # "auto"
      BY ParametersAssumption
    <2>2. CASE IsSet(l, "ExposureTimeMode")
      <3>1. params'["ExposureTimeMode"] = l["ExposureTimeMode"]
        BY <1>2, <2>2 DEF SetAccepted, IsSet, Update
      <3> QED BY <1>2, <2>2, <3>1 DEF SetAccepted, Conflict, IsSet
    <2>3. CASE ~IsSet(l, "ExposureTimeMode")
      <3>1. params'["ExposureTimeMode"] \in {None, NotSet, params["ExposureTimeMode"]}
        BY <1>2, <2>3 DEF SetAccepted, IsSet, Update
      <3> QED BY <1>2, <2>1, <2>3, <3>1 DEF SetAccepted, Conflict, IsSet
    <2> QED BY <2>2, <2>3
  <1>3. ASSUME NEW l, NoTimeInAuto, SetRejected(l) \/ SetThrows(l) PROVE NoTimeInAuto'
    BY <1>3 DEF SetRejected, SetThrows
  <1>4. ASSUME NEW w \in Workers, IInv, NoTimeInAuto, Worker(w) PROVE NoTimeInAuto'
    <2>1. CASE Move(w) \/ SyncClear(w)
      BY <2>1 DEF Move, SyncClear, Empty
    <2>2. CASE RedeclareOne(w)
      BY <1>4, <2>2 DEF RedeclareOne, IInv, TypeOK, IsParameters
    <2>3. CASE Begin(w) \/ RedeclareLook(w) \/ Queue(w)
      BY <1>4, <2>3 DEF Begin, RedeclareLook, Queue, handlerVars
    <2>4. CASE Sync(w)
      BY <1>2, <1>3, <1>4, <2>4 DEF Sync
    <2> QED BY <1>4, <2>1, <2>2, <2>3, <2>4 DEF Worker
  <1>5. NoTimeInAuto /\ UserSet => NoTimeInAuto'
    BY <1>2, <1>3 DEF UserSet, UserAccepted
  <1>6. IInv /\ NoTimeInAuto /\ [Next]_vars => NoTimeInAuto'
    BY <1>4, <1>5 DEF Next, vars, handlerVars
  <1> QED BY InitInv, StepInv, <1>1, <1>6, PTL DEF Spec
-----------------------------------------------------------------------------
(* The values accepted last.                                               *)

(* The list has all the values accepted last. *)
Carries(c) == \A n \in Names : IsSet(last, n) => c[n] = last[n]

OnItsWay ==
  \/ values # Empty /\ Carries(values)
  \/ \E w \in Workers : pc[w] = "queue" /\ ctl[w] # Empty /\ Carries(ctl[w])

(* Whatever is pending or in a request carries them, and only what the     *)
(* camera has got is written back, so that nothing else is cleared.        *)
WayInv ==
  /\ \A w \in Workers : pc[w] \notin {"queue", "sync", "clear"} => ctl[w] = Empty
  /\ \A w \in Workers : pc[w] \in {"sync", "clear"} => ctl[w] # Empty
  /\ ~raced =>
       /\ values = Empty \/ Carries(values)
       /\ \A w \in Workers : ctl[w] = Empty \/ Carries(ctl[w])
       /\ \A w \in Workers : pc[w] \in {"sync", "clear"} => Applied(last)
       /\ Applied(last) \/ OnItsWay

(* Resolving a list or patching it changes no value that is set. *)
LEMMA ResolvedKeeps ==
  ASSUME NEW l, NEW n \in Names, IsParameters(l), IsSet(l, n)
  PROVE  Resolved(l)[n] = l[n]
  BY DEF Resolved, Restores, IsParameters

LEMMA PatchKeeps ==
  ASSUME NEW c, IsControls(c)
  PROVE  /\ c # Empty => Patch(c) # Empty
         /\ c = Empty => Patch(c) = Empty
         /\ Carries(c) => Carries(Patch(c))
  <1> USE ParametersAssumption DEF Patch, IsControls, Names
  <1>1. c = Empty => c["AeEnable"] = None
    BY DEF Empty
  <1>2. ASSUME Patch(c) # c
        PROVE  c["ExposureTimeMode"] = None /\ Patch(c)["ExposureTimeMode"] # None
    BY <1>2
  <1>3. Patch(c) # c => Patch(c) # Empty
    BY <1>2 DEF Empty
  <1>4. ASSUME Carries(c) PROVE Carries(Patch(c))
    BY <1>4 DEF Carries, IsSet
  <1> QED BY <1>1, <1>3, <1>4

LEMMA EmptyUpdate == \A n \in Names : Update(camera, Empty)[n] = camera[n]
  BY DEF Update, Empty

(* A set that is accepted has its values pending. *)
LEMMA AcceptedPending ==
  ASSUME NEW l, IsParameters(l), SetAccepted(l)
  PROVE  \A n \in Names : IsSet(l, n) => values'[n] = l[n]
  <1> SUFFICES ASSUME NEW n \in Names, IsSet(l, n) PROVE values'[n] = l[n]
    OBVIOUS
  <1>1. Resolved(l)[n] = l[n]
    BY ResolvedKeeps
  <1> QED BY <1>1 DEF SetAccepted, IsSet

LEMMA UserWay ==
  ASSUME IInv, WayInv, UserSet
  PROVE  WayInv'
  <1>1. PICK l \in UserSets :
          \/ UserAccepted(l)
          \/ (SetThrows(l) \/ SetRejected(l)) /\ UNCHANGED <<last, raced, unset>>
    BY DEF UserSet
  <1>2. UNCHANGED <<pc, ctl, camera>>
    BY DEF UserSet, workerVars
  <1>3. CASE (SetThrows(l) \/ SetRejected(l)) /\ UNCHANGED <<last, raced, unset>>
    <2>1. UNCHANGED <<values, last, raced>>
      BY <1>3 DEF SetThrows, SetRejected
    <2> QED BY <1>2, <2>1 DEF WayInv, OnItsWay, Carries, Applied
  <1>4. CASE UserAccepted(l)
    <2>1. /\ IsParameters(l) /\ SetAccepted(l) /\ last' = l
          /\ raced' = Synchronising
      BY <1>4, ParametersAssumption DEF UserAccepted
    <2>2. ASSUME ~raced'
          PROVE  /\ \A w \in Workers : ctl'[w] = Empty /\ pc'[w] \notin {"sync", "clear"}
                 /\ values' = Empty \/ Carries(values)'
                 /\ Applied(last)' \/ OnItsWay'
      <3>1. \A w \in Workers : ctl'[w] = Empty /\ pc'[w] \notin {"sync", "clear"}
        BY <1>2, <2>1, <2>2 DEF Synchronising, WayInv
      <3>2. Carries(values)'
        BY <2>1, AcceptedPending DEF Carries
      <3>3. Applied(last)' \/ values' # Empty
        <4>1. CASE \E n \in Names : IsSet(l, n)
          BY <2>1, <4>1, AcceptedPending DEF IsSet, Empty
        <4>2. CASE \A n \in Names : ~IsSet(l, n)
          BY <2>1, <4>2 DEF Applied
        <4> QED BY <4>1, <4>2
      <3> QED BY <3>1, <3>2, <3>3 DEF OnItsWay
    <2>3. /\ \A w \in Workers : pc'[w] \notin {"queue", "sync", "clear"} => ctl'[w] = Empty
          /\ \A w \in Workers : pc'[w] \in {"sync", "clear"} => ctl'[w] # Empty
      BY <1>2 DEF WayInv
    <2> QED BY <2>2, <2>3 DEF WayInv
  <1> QED BY <1>1, <1>3, <1>4

LEMMA MoveWay ==
  ASSUME NEW w \in Workers, IInv, WayInv, Move(w)
  PROVE  WayInv'
  <1> USE DEF IInv, TypeOK
  <1>1. /\ pc[w] = "redeclare" /\ pc' = [pc EXCEPT ![w] = "queue"]
        /\ ctl' = [ctl EXCEPT ![w] = values] /\ values' = Empty
        /\ UNCHANGED <<camera, last, raced>>
    BY DEF Move, Goto, historyVars
  <1>2. ctl'[w] = values /\ \A v \in Workers \ {w} : ctl'[v] = ctl[v] /\ pc'[v] = pc[v]
    BY <1>1
  <1>3. pc'[w] = "queue"
    BY <1>1
  <1>4. ASSUME ~raced PROVE Applied(last)' \/ OnItsWay'
    <2>1. CASE Applied(last)
      BY <1>1, <2>1 DEF Applied
    <2>2. CASE values # Empty /\ Carries(values)
      BY <1>1, <1>2, <1>3, <2>2 DEF OnItsWay, Carries
    <2>3. ASSUME NEW v \in Workers, pc[v] = "queue", ctl[v] # Empty, Carries(ctl[v])
          PROVE  OnItsWay'
      BY <1>1, <1>2, <2>3 DEF OnItsWay, Carries
    <2> QED BY <1>4, <2>1, <2>2, <2>3 DEF WayInv, OnItsWay
  <1>5. ASSUME ~raced
        PROVE  /\ \A v \in Workers : ctl'[v] = Empty \/ Carries(ctl'[v])
               /\ \A v \in Workers : pc'[v] \in {"sync", "clear"} => Applied(last)
    BY <1>2, <1>3, <1>5 DEF WayInv
  <1>6. (\A v \in Workers : ctl'[v] = Empty \/ Carries(ctl'[v]))
          => \A v \in Workers : (ctl[v] = Empty \/ Carries(ctl[v]))'
    BY <1>1 DEF Carries
  <1>7. Applied(last) => Applied(last)'
    BY <1>1 DEF Applied
  <1> QED BY <1>1, <1>2, <1>3, <1>4, <1>5, <1>6, <1>7 DEF WayInv

LEMMA QueueWay ==
  ASSUME NEW w \in Workers, IInv, WayInv, Queue(w)
  PROVE  WayInv' /\ (~raced /\ Applied(last) => Applied(last)')
  <1> USE DEF IInv, TypeOK
  <1>1. /\ pc[w] = "queue" /\ IsControls(ctl[w])
        /\ pc' = [pc EXCEPT ![w] = IF ctl[w] = Empty THEN "wait" ELSE "sync"]
        /\ ctl' = [ctl EXCEPT ![w] = Patch(@)] /\ camera' = Update(camera, ctl'[w])
        /\ UNCHANGED <<values, last, raced>>
    BY DEF Queue, Goto, handlerVars, historyVars
  <1>2. /\ ctl'[w] = Patch(ctl[w]) /\ pc'[w] = IF ctl[w] = Empty THEN "wait" ELSE "sync"
        /\ \A v \in Workers \ {w} : ctl'[v] = ctl[v] /\ pc'[v] = pc[v]
    BY <1>1
  <1>3. /\ ctl[w] # Empty => Patch(ctl[w]) # Empty
        /\ ctl[w] = Empty => Patch(ctl[w]) = Empty
        /\ Carries(ctl[w]) => Carries(Patch(ctl[w]))
    BY <1>1, PatchKeeps
  <1>4. ASSUME ~raced, ctl[w] # Empty PROVE Applied(last)'
    <2>1. Carries(Patch(ctl[w]))
      BY <1>3, <1>4 DEF WayInv
    <2> QED BY <1>1, <1>2, <2>1 DEF Applied, Carries, Update, IsSet
  <1>5. ASSUME ctl[w] = Empty, Applied(last) PROVE Applied(last)'
    BY <1>1, <1>2, <1>3, <1>5, EmptyUpdate DEF Applied
  <1>6. ~raced /\ Applied(last) => Applied(last)'
    BY <1>4, <1>5
  <1>7. ASSUME ~raced PROVE Applied(last)' \/ OnItsWay'
    <2>1. CASE ctl[w] # Empty \/ Applied(last)
      BY <1>4, <1>6, <1>7, <2>1
    <2>2. CASE ctl[w] = Empty /\ OnItsWay
      BY <1>1, <1>2, <2>2 DEF OnItsWay, Carries
    <2> QED BY <1>7, <2>1, <2>2 DEF WayInv
  <1>8. ASSUME ~raced
        PROVE  \A v \in Workers : (ctl[v] = Empty \/ Carries(ctl[v]))'
    <2> SUFFICES ASSUME NEW v \in Workers PROVE ctl'[v] = Empty \/ Carries(ctl'[v])
      BY <1>1 DEF Carries
    <2> QED BY <1>2, <1>3, <1>8 DEF WayInv
  <1>9. ASSUME ~raced, NEW v \in Workers, pc'[v] \in {"sync", "clear"}
        PROVE  Applied(last)'
    <2>1. CASE v = w
      BY <1>2, <1>4, <1>9, <2>1
    <2>2. CASE v # w
      BY <1>2, <1>6, <1>9, <2>2 DEF WayInv
    <2> QED BY <2>1, <2>2
  <1>10. /\ \A v \in Workers : pc'[v] \notin {"queue", "sync", "clear"} => ctl'[v] = Empty
         /\ \A v \in Workers : pc'[v] \in {"sync", "clear"} => ctl'[v] # Empty
    BY <1>1, <1>2, <1>3 DEF WayInv
  <1>11. ~raced => values' = Empty \/ Carries(values)'
    BY <1>1 DEF WayInv, Carries
  <1> QED BY <1>1, <1>6, <1>7, <1>8, <1>9, <1>10, <1>11 DEF WayInv

LEMMA SyncWay ==
  ASSUME NEW w \in Workers, IInv, WayInv, Sync(w) \/ SyncClear(w)
  PROVE  WayInv'
  <1> USE DEF IInv, TypeOK
  <1>1. /\ pc[w] \in {"sync", "clear"} /\ UNCHANGED <<camera, last, raced>>
        /\ \A v \in Workers \ {w} : ctl'[v] = ctl[v] /\ pc'[v] = pc[v]
        /\ \/ pc'[w] = "clear" /\ ctl'[w] = ctl[w]
           \/ pc'[w] = "wait" /\ ctl'[w] = Empty
    BY DEF Sync, SyncClear, Goto, historyVars
  <1>2. Applied(last)' = Applied(last)
    BY <1>1 DEF Applied
  <1>3. ASSUME ~raced PROVE Applied(last)
    BY <1>1, <1>3 DEF WayInv
  <1>4. ASSUME ~raced PROVE values' = Empty \/ Carries(values)'
    <2>1. CASE SyncClear(w)
      BY <2>1 DEF SyncClear
    <2>2. CASE values' = values
      BY <1>1, <1>4, <2>2 DEF WayInv, Carries
    <2>3. CASE Sync(w) /\ SetAccepted(ctl[w])
      <3>1. Carries(ctl[w]) /\ IsParameters(ctl[w])
        BY <1>1, <1>4, UpdateTypes DEF WayInv
      <3>2. \A n \in Names : IsSet(ctl[w], n) => values'[n] = ctl[w][n]
        BY <2>3, <3>1, AcceptedPending
      <3> QED BY <1>1, <3>1, <3>2 DEF Carries, IsSet
    <2> QED BY <2>1, <2>2, <2>3 DEF Sync, SetRejected, SetThrows
  <1>5. ASSUME ~raced PROVE \A v \in Workers : (ctl[v] = Empty \/ Carries(ctl[v]))'
    BY <1>1, <1>5 DEF WayInv, Carries
  <1>6. /\ \A v \in Workers : pc'[v] \notin {"queue", "sync", "clear"} => ctl'[v] = Empty
        /\ \A v \in Workers : pc'[v] \in {"sync", "clear"} => ctl'[v] # Empty
    BY <1>1 DEF WayInv
  <1> QED BY <1>1, <1>2, <1>3, <1>4, <1>5, <1>6 DEF WayInv

LEMMA WayStep ==
  ASSUME IInv, WayInv, [Next]_vars
  PROVE  WayInv' /\ (Applied(last) /\ ~raced /\ last' = last => Applied(last)')
  <1>1. CASE UserSet
    <2>1. Applied(last) /\ last' = last => Applied(last)'
      BY <1>1 DEF UserSet, Applied
    <2> QED BY <1>1, <2>1, UserWay
  <1>2. ASSUME NEW w \in Workers, Worker(w)
        PROVE  WayInv' /\ (Applied(last) /\ ~raced => Applied(last)')
    <2>1. CASE Queue(w)
      BY <2>1, QueueWay
    <2>2. CASE Move(w) \/ Sync(w) \/ SyncClear(w)
      <3>1. Applied(last) => Applied(last)'
        BY <2>2 DEF Move, Sync, SyncClear, historyVars, Applied
      <3> QED BY <2>2, <3>1, MoveWay, SyncWay
    <2>3. CASE Begin(w) \/ RedeclareLook(w) \/ RedeclareOne(w)
      <3>1. /\ UNCHANGED <<values, ctl, camera, last, raced>>
            /\ \A v \in Workers :
                 \/ pc'[v] = pc[v]
                 \/ /\ pc[v] \notin {"queue", "sync", "clear"}
                    /\ pc'[v] \notin {"queue", "sync", "clear"}
        BY <2>3 DEF IInv, TypeOK, Begin, RedeclareLook, RedeclareOne, Goto, handlerVars, historyVars
      <3> QED BY <3>1 DEF WayInv, OnItsWay, Carries, Applied
    <2> QED BY <1>2, <2>1, <2>2, <2>3 DEF Worker
  <1>3. CASE UNCHANGED vars
    BY <1>3 DEF WayInv, OnItsWay, Carries, Applied, vars, handlerVars, workerVars, historyVars
  <1> QED BY <1>1, <1>2, <1>3 DEF Next

LEMMA WayInductive == Spec => [](IInv /\ WayInv)
  <1>1. Init => WayInv
    BY DEF Init, WayInv, Applied, IsSet, Empty, Carries
  <1> QED BY <1>1, InitInv, StepInv, WayStep, PTL DEF Spec

(* "only ever apply the most recent parameter values": the values accepted *)
(* last are never lost.  Unless a thread was synchronising when they were  *)
(* accepted, they are pending, travel with a request, or are executed,     *)
(* however many threads move, queue and write back in whatever order.      *)
THEOREM AcceptedNeverLost == Spec => [](~raced => OnItsWay \/ Applied(last))
  <1>1. WayInv => (~raced => OnItsWay \/ Applied(last))
    BY DEF WayInv
  <1> QED BY <1>1, WayInductive, PTL

(* Once executed they stay so until others are accepted: no older request  *)
(* and no value that a thread writes back takes their place.               *)
THEOREM AppliedUntilNext ==
  Spec => [][Applied(last) /\ ~raced /\ last' = last => Applied(last)']_vars
  <1>1. IInv /\ WayInv /\ [Next]_vars =>
          [Applied(last) /\ ~raced /\ last' = last => Applied(last)']_vars
    BY WayStep
  <1> QED BY <1>1, WayInductive, PTL DEF Spec
=============================================================================
