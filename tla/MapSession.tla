------------------------------ MODULE MapSession ------------------------------
(***************************************************************************)
(* slam_manager.py and qr_marker_node.py together: starting slam_toolbox   *)
(* is one step of the two, which share the number of the newest map        *)
(* through the message on /slam/new_map.                                   *)
(***************************************************************************)
EXTENDS QrMarkers

VARIABLES mpc, call, proc, lastMap, alive, killed, inbox, saved, late   \* as in SlamManager

Manager == INSTANCE SlamManager WITH started <- map, MaxStarts <- MaxMaps

(* What the marker node alone sees and changes. *)
markerVars == <<signal, tf, nextId, rxVars, pubVars, history>>
managerOnly == <<mpc, call, proc, lastMap, alive, killed, inbox, saved, late>>
sessionVars == <<vars, managerOnly>>

SessionInit == Init /\ Manager!ManagerInit

(* _start_slam() announces the map it starts. *)
StartSession == Manager!Start /\ StartMap

ManagerStep == Manager!ManagerRest /\ UNCHANGED markerVars

(* Transforms are those of an instance that runs. *)
MarkerStep ==
  /\ Expire \/ NewMap \/ Rx \/ (map \in alive /\ Transform)
  /\ UNCHANGED managerOnly

SessionNext == StartSession \/ ManagerStep \/ MarkerStep

SessionSpec == SessionInit /\ [][SessionNext]_sessionVars

-----------------------------------------------------------------------------
(* The properties of the manager, over the maps that the marker node sees. *)

(* slam_toolbox runs once at most, whatever became of the instance before. *)
OneSlam == Manager!OneSlam

(* An exported map was drawn by the newest instance, unless a /map of the  *)
(* one before was waiting when it started.                                 *)
ExportOwnMap == Manager!ExportOwnMap

(* However the node ended, it leaves no slam_toolbox that nothing stops.   *)
NoOrphan == Manager!NoOrphan

(* A stop is answered only when no slam_toolbox runs. *)
StopAnswered == Manager!StopAnswered
=============================================================================
