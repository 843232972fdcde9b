--------------------------- MODULE CameraParameters ---------------------------
(***************************************************************************)
(* ParameterHandler.cpp and ParameterConflictHandler.cpp: libcamera        *)
(* controls offered as ROS parameters, as built here (ROS 2 Humble: one    *)
(* validation callback and no other; libcamera 0.7: ExposureTimeMode).     *)
(*                                                                         *)
(*   User    sets parameters, a list at a time                             *)
(*   Worker  the thread of a request (CameraRequests): declares missing    *)
(*           parameters, moves the pending control values into the request,*)
(*           queues it and writes its controls back to the parameters      *)
(*                                                                         *)
(* rclcpp (external) runs a set and its callback under one mutex.  Three   *)
(* controls are modelled: the ones the conflict handler is about.          *)
(***************************************************************************)
EXTENDS Integers

CONSTANTS
  Times,      \* exposure times
  Workers,    \* request threads
  Defaults,   \* default values of the controls the camera may report
  Overrides,  \* parameter overrides the node may be started with
  UserSets,   \* lists of parameters the user may set
  MaxSets,    \* bound: sets by the user
  None        \* no entry

Names  == {"AeEnable", "ExposureTimeMode", "ExposureTime"}
NotSet == "not set"

Values ==
  [AeEnable |-> {"on", "off"}, ExposureTimeMode |-> {"auto", "manual"}, ExposureTime |-> Times]

(* A list of controls has a value or no entry for every name; in a list of *)
(* parameters a value may also be PARAMETER_NOT_SET.                       *)
IsControls(l)   == DOMAIN l = Names /\ \A n \in Names : l[n] \in Values[n] \cup {None}
IsParameters(l) == DOMAIN l = Names /\ \A n \in Names : l[n] \in Values[n] \cup {None, NotSet}

ASSUME ParametersAssumption ==
  /\ NotSet \notin Times /\ None \notin Times \cup {NotSet, "on", "off", "auto", "manual"}
  /\ \A l \in Defaults : IsParameters(l) /\ \A n \in Names : l[n] # None
  /\ \A l \in Overrides : IsControls(l)
  /\ \A l \in UserSets : IsParameters(l)
  /\ MaxSets \in Nat

VARIABLES
  params,    \* the ROS parameters; None is undeclared
  store,     \* the exposure time kept while it is disabled
  tmpStore,  \* the store while a set is being checked
  values,    \* control_values: to be moved into the next request
  pc,        \* where each worker is
  todo,      \* names its redeclare() has not come to yet
  item,      \* the name it is about to declare
  ctl,       \* the controls of its request
  camera,    \* the control values queued last
  crashed,   \* an exception left a worker: the process is terminated
  sets,      \* sets by the user so far
  last,      \* history: the list accepted last from the user
  raced,     \* history: accepted while a request with controls was being synchronised
  unset      \* history: the user unset a parameter

handlerVars == <<params, store, tmpStore, values>>
workerVars  == <<pc, todo, item, ctl>>
historyVars == <<sets, last, raced, unset>>
vars == <<handlerVars, workerVars, camera, crashed, historyVars>>

Empty == [n \in Names |-> None]

IsSet(l, n) == l[n] \notin {None, NotSet}

Update(old, new) == [n \in Names |-> IF new[n] = None THEN old[n] ELSE new[n]]

-----------------------------------------------------------------------------
(* Setting parameters: rclcpp's set_parameters_atomically() around         *)
(* OnSetValidate().  Without the extended callbacks of later releases the  *)
(* list is resolved in a copy, and rclcpp stores the original.             *)

(* restore(): switching to manual brings the stored exposure time back.    *)
(* (Switching to auto adds an unset exposure time to the copy, which       *)
(* nothing reads.)                                                         *)
Restores(l) ==
  /\ l["ExposureTimeMode"] = "manual" /\ ~IsSet(l, "ExposureTime")
  /\ store # None

Resolved(l) == IF Restores(l) THEN [l EXCEPT !["ExposureTime"] = store] ELSE l

TmpStore(l) == IF l = Empty THEN tmpStore ELSE IF Restores(l) THEN None ELSE store

(* Variant: the new values are not merged with the present ones. *)
ConflictUnmerged(l) ==
  l["ExposureTimeMode"] = "auto" /\ IsSet(Resolved(l), "ExposureTime")

(* check() on the resolved list and the present parameters. *)
Conflict(l) ==
  /\ (IF IsSet(l, "ExposureTimeMode") THEN l ELSE params)["ExposureTimeMode"] = "auto"
  /\ IsSet(Resolved(l), "ExposureTime")

(* rclcpp refuses a parameter that is not declared. *)
Unknown(l) == \E n \in Names : l[n] # None /\ params[n] = None

(* get_parameters() throws as long as any control is not declared. *)
Incomplete == \E n \in Names : params[n] = None

SetThrows(l) ==
  /\ Unknown(l) \/ Incomplete
  /\ tmpStore' = IF Unknown(l) THEN tmpStore ELSE TmpStore(l)
  /\ UNCHANGED <<params, store, values>>

SetRejected(l) ==
  /\ ~Incomplete /\ Conflict(l)
  /\ tmpStore' = None
  /\ UNCHANGED <<params, store, values>>

(* Variant: values that are pending are not replaced. *)
SetAcceptedFirstWins(l) ==
  /\ ~Incomplete /\ ~Conflict(l)
  /\ values' = IF values # Empty THEN values
                ELSE [n \in Names |-> IF IsSet(Resolved(l), n) THEN Resolved(l)[n] ELSE None]
  /\ store' = TmpStore(l)
  /\ tmpStore' = None
  /\ params' = [n \in Names |->
       IF l[n] = NotSet /\ params[n] # NotSet THEN None ELSE Update(params, l)[n]]

(* PostSetApply() replaces the control values that are pending; then the   *)
(* store is committed and rclcpp stores the values, and undeclares what    *)
(* was unset.                                                              *)
SetAccepted(l) ==
  /\ ~Incomplete /\ ~Conflict(l)
  /\ values' = [n \in Names |-> IF IsSet(Resolved(l), n) THEN Resolved(l)[n] ELSE None]
  /\ store' = TmpStore(l)
  /\ tmpStore' = None
  /\ params' = [n \in Names |->
       IF l[n] = NotSet /\ params[n] # NotSet THEN None ELSE Update(params, l)[n]]

-----------------------------------------------------------------------------
(* declare(), the start of the camera with the initial values, and the     *)
(* first requests, queued without controls.                                *)

Exposed(p) == p["ExposureTimeMode"] = "auto" /\ IsSet(p, "ExposureTime")

(* resolve_defaults(): auto exposure is preferred, the time goes to the    *)
(* store.                                                                  *)
WithMode(d) ==
  IF IsSet(d, "ExposureTimeMode") THEN d ELSE [d EXCEPT !["ExposureTimeMode"] = "auto"]

DefaultStore(d) == IF Exposed(WithMode(d)) THEN d["ExposureTime"] ELSE None

ResolvedDefaults(d) ==
  IF Exposed(WithMode(d)) THEN [WithMode(d) EXCEPT !["ExposureTime"] = NotSet] ELSE WithMode(d)

(* resolve_overrides(): a given exposure time is preferred. *)
Overridden(d, o) == Update(ResolvedDefaults(d), o)

RestoresDefault(d, o) ==
  /\ Overridden(d, o)["ExposureTimeMode"] = "manual"
  /\ ~IsSet(Overridden(d, o), "ExposureTime") /\ DefaultStore(d) # None

InitialStore(d, o) == IF RestoresDefault(d, o) THEN None ELSE DefaultStore(d)

InitialParams(d, o) ==
  IF Exposed(Overridden(d, o))
  THEN [Overridden(d, o) EXCEPT !["ExposureTimeMode"] = "manual"]
  ELSE IF RestoresDefault(d, o)
  THEN [Overridden(d, o) EXCEPT !["ExposureTime"] = DefaultStore(d)]
  ELSE Overridden(d, o)

SetValues(p) == [n \in Names |-> IF IsSet(p, n) THEN p[n] ELSE None]

(* libcamera derives ExposureTimeMode from AeEnable where it is not given. *)
Patch(c) ==
  IF c["AeEnable"] # None /\ c["ExposureTimeMode"] = None
  THEN [c EXCEPT !["ExposureTimeMode"] = IF c["AeEnable"] = "on" THEN "auto" ELSE "manual"]
  ELSE c

Init ==
  /\ \E d \in Defaults, o \in Overrides :
       /\ params = InitialParams(d, o)
       /\ store = InitialStore(d, o)
  /\ tmpStore = None
  /\ values = SetValues(params)
  /\ camera = Patch(values)
  /\ pc = [w \in Workers |-> "wait"]
  /\ todo = [w \in Workers |-> {}] /\ item = [w \in Workers |-> None]
  /\ ctl = [w \in Workers |-> Empty]
  /\ crashed = FALSE /\ sets = 0 /\ last = Empty /\ raced = FALSE /\ unset = FALSE

-----------------------------------------------------------------------------
(* The user.                                                               *)

Synchronising ==
  \E w \in Workers : pc[w] \in {"queue", "sync", "clear"} /\ ctl[w] # Empty

UserAccepted(l) ==
  /\ SetAccepted(l)
  /\ last' = l
  /\ raced' = Synchronising
  /\ unset' = (unset \/ \E n \in Names : params'[n] = None)

UserSet ==
  /\ ~crashed /\ sets < MaxSets
  /\ sets' = sets + 1
  /\ \E l \in UserSets :
       \/ UserAccepted(l)
       \/ (SetThrows(l) \/ SetRejected(l)) /\ UNCHANGED <<last, raced, unset>>
  /\ UNCHANGED <<workerVars, camera, crashed>>

-----------------------------------------------------------------------------
(* A worker, from the completion of its request to the next wait.          *)

Goto(w, label) == pc' = [pc EXCEPT ![w] = label]

Begin(w) ==
  /\ pc[w] = "wait"
  /\ Goto(w, "redeclare")
  /\ todo' = [todo EXCEPT ![w] = Names]
  /\ UNCHANGED <<handlerVars, item, ctl, camera, crashed, historyVars>>

(* Variant: parameters are declared without looking whether they are. *)
RedeclareBlindly(w) ==
  /\ pc[w] = "redeclare"
  /\ \E n \in todo[w] :
       /\ todo' = [todo EXCEPT ![w] = @ \ {n}]
       /\ Goto(w, "declare") /\ item' = [item EXCEPT ![w] = n]
  /\ UNCHANGED <<handlerVars, ctl, camera, crashed, historyVars>>

(* redeclare() looks whether the next parameter is declared, ... *)
RedeclareLook(w) ==
  /\ pc[w] = "redeclare"
  /\ \E n \in todo[w] :
       /\ todo' = [todo EXCEPT ![w] = @ \ {n}]
       /\ \/ /\ params[n] = None
             /\ Goto(w, "declare") /\ item' = [item EXCEPT ![w] = n]
          \/ /\ params[n] # None
             /\ UNCHANGED <<pc, item>>
  /\ UNCHANGED <<handlerVars, ctl, camera, crashed, historyVars>>

(* ... and declares it, which throws if it is declared meanwhile. *)
RedeclareOne(w) ==
  /\ pc[w] = "declare"
  /\ Goto(w, "redeclare")
  /\ item' = [item EXCEPT ![w] = None]
  /\ crashed' = (params[item[w]] # None)
  /\ params' = [params EXCEPT ![item[w]] = IF @ = None THEN NotSet ELSE @]
  /\ UNCHANGED <<store, tmpStore, values, todo, ctl, camera, historyVars>>

(* reuse() empties the controls of the request; move_control_values().     *)
Move(w) ==
  /\ pc[w] = "redeclare" /\ todo[w] = {}
  /\ Goto(w, "queue")
  /\ ctl' = [ctl EXCEPT ![w] = values]
  /\ values' = Empty
  /\ UNCHANGED <<params, store, tmpStore, todo, item, camera, crashed, historyVars>>

Queue(w) ==
  /\ pc[w] = "queue"
  /\ ctl' = [ctl EXCEPT ![w] = Patch(@)]
  /\ camera' = Update(camera, ctl'[w])
  /\ Goto(w, IF ctl[w] = Empty THEN "wait" ELSE "sync")
  /\ UNCHANGED <<handlerVars, todo, item, crashed, historyVars>>

(* sync_control_values(): the controls of the request are set as           *)
(* parameters, ...                                                         *)
Sync(w) ==
  /\ pc[w] = "sync"
  /\ Goto(w, "clear")
  /\ \/ SetAccepted(ctl[w]) /\ UNCHANGED crashed
     \/ SetRejected(ctl[w]) /\ UNCHANGED crashed
     \/ SetThrows(ctl[w]) /\ crashed' = TRUE
  /\ UNCHANGED <<todo, item, ctl, camera, historyVars>>

(* ... and the control values that this set are cleared. *)
SyncClear(w) ==
  /\ pc[w] = "clear"
  /\ Goto(w, "wait")
  /\ values' = Empty
  /\ ctl' = [ctl EXCEPT ![w] = Empty]
  /\ UNCHANGED <<params, store, tmpStore, todo, item, camera, crashed, historyVars>>

Worker(w) ==
  /\ ~crashed
  /\ \/ Begin(w) \/ RedeclareLook(w) \/ RedeclareOne(w)
     \/ Move(w) \/ Queue(w) \/ Sync(w) \/ SyncClear(w)

-----------------------------------------------------------------------------
Next == UserSet \/ \E w \in Workers : Worker(w)

Spec == Init /\ [][Next]_vars

(* The camera completes requests and their threads are scheduled. *)
Fairness == \A w \in Workers : WF_vars(Worker(w))

FairSpec == Spec /\ Fairness

-----------------------------------------------------------------------------
(* Properties.                                                             *)

(* Every variable holds a value of its type. *)
TypeOK ==
  /\ IsParameters(params) /\ IsControls(values) /\ IsControls(camera) /\ IsParameters(last)
  /\ store \in Times \cup {None} /\ tmpStore \in Times \cup {None}
  /\ pc \in [Workers -> {"wait", "redeclare", "declare", "queue", "sync", "clear"}]
  /\ todo \in [Workers -> SUBSET Names] /\ item \in [Workers -> Names \cup {None}]
  /\ DOMAIN ctl = Workers /\ \A w \in Workers : IsControls(ctl[w])
  /\ crashed \in BOOLEAN /\ raced \in BOOLEAN /\ unset \in BOOLEAN
  /\ sets \in 0 .. MaxSets

(* As long as nobody unsets a parameter, whatever the users set and the    *)
(* threads write back in whatever order, no thread throws and every set    *)
(* starts with an empty tmp_store.                                         *)
OnlyUnsetBreaks == ~unset => ~crashed /\ tmpStore = None

Applied(l) == \A n \in Names : IsSet(l, n) => camera[n] = l[n]

(* "only ever apply the most recent parameter values" (line 314): the last *)
(* values that were accepted are executed by the camera in the end, unless *)
(* a thread was synchronising at that moment or one has thrown since.      *)
LoneSetApplied == <>[](~raced /\ ~crashed) => <>[](Applied(last))

(* "ExposureTime must not be set while AeEnable is true" (line 148 of the  *)
(* conflict handler; ExposureTimeMode takes the place of AeEnable), the    *)
(* part that holds: the control values that wait for the next request      *)
(* never fix the exposure time while the mode parameter is automatic,      *)
(* although the parameters themselves may show both.                       *)
NoTimeInAuto == values["ExposureTime"] # None => params["ExposureTimeMode"] # "auto"
=============================================================================
