----------------------------- MODULE SlamManager -----------------------------
(***************************************************************************)
(* slam_manager.py: starts and stops slam_toolbox as a child process and   *)
(* exports the map it last heard on /map.                                  *)
(*                                                                         *)
(* The node has one thread: a service call holds it from its first line to *)
(* its answer.  Its program counter follows what the world can see of the  *)
(* call, and slam_toolbox may publish or end between any two steps.  An    *)
(* exception that no handler takes leaves spin(), and main's finally stops *)
(* slam_toolbox once more and ends the node.  An instance of slam_toolbox  *)
(* is known by its number, a map by the instance that published it.        *)
(***************************************************************************)
EXTENDS Integers

CONSTANT MaxStarts   \* bound: instances of slam_toolbox

VARIABLES
  mpc,       \* where the node's thread is
  call,      \* the service whose handler runs, or "destroy"
  proc,      \* _slam_proc, an instance or 0
  lastMap,   \* the instance whose map is in _last_map; 0 is None
  started,   \* instances so far
  alive,     \* the ones that run
  killed,    \* the ones that were sent SIGKILL
  inbox,     \* the instance of the undelivered /map, of which one is kept; 0 is none
  saved,     \* history: <<its instance, newest instance, late>> of the last exported map
  late       \* history: a /map of an earlier instance waited when the newest one started

managerVars == <<mpc, call, proc, lastMap>>
worldVars   == <<started, alive, killed, inbox>>
managerHistory == <<saved, late>>
managerAll  == <<managerVars, worldVars, managerHistory>>

Instances == 1 .. MaxStarts

ManagerInit ==
  /\ mpc = "spin" /\ call = "none" /\ proc = 0 /\ lastMap = 0
  /\ started = 0 /\ alive = {} /\ killed = {} /\ inbox = 0
  /\ saved = <<0, 0, FALSE>> /\ late = FALSE

-----------------------------------------------------------------------------
(* slam_toolbox (external).                                                *)

PublishMap ==
  /\ \E i \in alive : inbox' = i
  /\ UNCHANGED <<managerVars, started, alive, killed, managerHistory>>

(* An instance ends: by itself, or because of a signal. *)
End(i) ==
  /\ i \in alive
  /\ alive' = alive \ {i}
  /\ UNCHANGED <<managerVars, started, killed, inbox, managerHistory>>

-----------------------------------------------------------------------------
(* The node.                                                               *)

Running == proc # 0 /\ proc \in alive

(* _on_map(). *)
TakeMap ==
  /\ mpc = "spin" /\ inbox # 0
  /\ lastMap' = inbox
  /\ inbox' = 0
  /\ UNCHANGED <<mpc, call, proc, started, alive, killed, managerHistory>>

(* Variant: the map of the instance before is kept. *)
SpawnKeepsMap ==
  /\ mpc = "spin" /\ started < MaxStarts
  /\ started' = started + 1
  /\ alive' = alive \cup {started'}
  /\ proc' = started'
  /\ late' = (inbox # 0)
  /\ UNCHANGED <<mpc, call, killed, inbox, saved, lastMap>>

(* _start_slam(); when Popen raises, nothing has changed. *)
Spawn ==
  /\ mpc = "spin" /\ started < MaxStarts
  /\ started' = started + 1
  /\ alive' = alive \cup {started'}
  /\ proc' = started'
  /\ lastMap' = 0
  /\ late' = (inbox # 0)
  /\ UNCHANGED <<mpc, call, killed, inbox, saved>>

(* _srv_start(): a no-op while slam_toolbox runs. *)
Start == ~Running /\ Spawn

(* _srv_stop() and _srv_save_map() begin with the export. *)
Request(service) ==
  /\ mpc = "spin"
  /\ mpc' = "export" /\ call' = service
  /\ UNCHANGED <<proc, lastMap, worldVars, managerHistory>>

AfterExport == IF call = "stop" THEN "stop" ELSE "spin"

(* _export_map(): the map is written as GeoTIFF, or as PGM in its place, ... *)
Export ==
  /\ mpc = "export" /\ lastMap # 0
  /\ saved' = <<lastMap, started, late>>
  /\ mpc' = "upload"
  /\ UNCHANGED <<call, proc, lastMap, worldVars, late>>

(* ... and posted to the PC: whatever becomes of that, the export is done. *)
Upload ==
  /\ mpc = "upload"
  /\ mpc' = AfterExport
  /\ UNCHANGED <<call, proc, lastMap, worldVars, managerHistory>>

(* There is no map yet, it is empty, or neither format could be written. *)
ExportFails ==
  /\ mpc = "export"
  /\ mpc' = AfterExport
  /\ UNCHANGED <<call, proc, lastMap, worldVars, managerHistory>>

(* An exception in a service, or a signal to the node at any point of one: *)
(* spin() ends and destroy_node() stops slam_toolbox.                      *)
Destroy ==
  /\ call' = "destroy"
  /\ mpc' = "stop"
  /\ UNCHANGED <<proc, lastMap, worldVars, managerHistory>>

(* The directory cannot be made, the cells do not fit the size, or GDAL is *)
(* not installed and the PGM cannot be written either.                     *)
ExportRaises == mpc = "export" /\ lastMap # 0 /\ Destroy

Interrupt == mpc # "gone" /\ call # "destroy" /\ Destroy

-----------------------------------------------------------------------------
(* _stop_slam().                                                           *)

(* Where its caller goes on. *)
Stopped ==
  /\ mpc' = IF call = "destroy" THEN "gone" ELSE "spin"
  /\ proc' = 0

StopNothing ==
  /\ mpc = "stop" /\ ~Running
  /\ Stopped
  /\ UNCHANGED <<call, lastMap, worldVars, managerHistory>>

SendSigint ==
  /\ mpc = "stop" /\ Running
  /\ mpc' = "wait8"
  /\ UNCHANGED <<call, proc, lastMap, worldVars, managerHistory>>

(* One of the two waits ends with the process. *)
WaitReturns ==
  /\ mpc \in {"wait8", "wait5"} /\ ~Running
  /\ Stopped
  /\ UNCHANGED <<call, lastMap, worldVars, managerHistory>>

(* Variant: no SIGKILL, the process is given up. *)
GiveUp ==
  /\ mpc = "wait8" /\ Running
  /\ Stopped
  /\ UNCHANGED <<call, lastMap, worldVars, managerHistory>>

SendSigkill ==
  /\ mpc = "wait8" /\ Running
  /\ killed' = killed \cup {proc}
  /\ mpc' = "wait5"
  /\ UNCHANGED <<call, proc, lastMap, started, alive, inbox, managerHistory>>

(* Variant: the exception is swallowed and the process forgotten. *)
Wait5Forgets ==
  /\ mpc = "wait5" /\ Running
  /\ Stopped
  /\ UNCHANGED <<call, lastMap, worldVars, managerHistory>>

(* The second wait raises: out of a service into destroy_node(), and out   *)
(* of that to the end of the node.                                         *)
Wait5Raises ==
  /\ mpc = "wait5" /\ Running
  /\ IF call = "destroy"
       THEN mpc' = "gone" /\ UNCHANGED <<call, proc, lastMap, worldVars, managerHistory>>
       ELSE Destroy

StopSlam == StopNothing \/ SendSigint \/ WaitReturns \/ SendSigkill \/ Wait5Raises

Serve == Export \/ Upload \/ ExportFails \/ ExportRaises \/ StopSlam

(* All but the start, which other nodes hear of. *)
ManagerRest ==
  \/ PublishMap \/ (\E i \in Instances : End(i))
  \/ TakeMap \/ Request("stop") \/ Request("save") \/ Interrupt \/ Serve

ManagerNext == Start \/ ManagerRest

ManagerSpec == ManagerInit /\ [][ManagerNext]_managerAll

-----------------------------------------------------------------------------
(* Properties.                                                             *)

(* Every variable holds a value of its type: what is known of an instance  *)
(* is known of one that was started.                                       *)
ManagerTypeOK ==
  /\ mpc \in {"spin", "export", "upload", "stop", "wait8", "wait5", "gone"}
  /\ call \in {"none", "stop", "save", "destroy"}
  /\ started \in Nat
  /\ proc \in 0 .. started /\ lastMap \in 0 .. started /\ inbox \in 0 .. started
  /\ alive \subseteq 1 .. started /\ killed \subseteq 1 .. started
  /\ saved \in (0 .. started) \X (0 .. started) \X BOOLEAN
  /\ late \in BOOLEAN

(* slam_toolbox runs once at most, whatever became of the instance before: *)
(* crashed, stopped, or still there after a wait that expired.             *)
OneSlam == \A i, j \in alive : i = j

(* "start ... begins a fresh map": an exported map was drawn by the newest *)
(* instance, however long the old one's map was cached, unless a /map of   *)
(* the old one was waiting when the new one started (line 116 takes it     *)
(* after line 129 has emptied the cache).                                  *)
ExportOwnMap == saved[1] = saved[2] \/ saved[3]

(* The node leaves no slam_toolbox behind that would go on drawing and     *)
(* hold the next one's topics, however the node ended, except one that a   *)
(* SIGKILL is already on its way to.  (A second signal, while destroy_node *)
(* waits, is not modelled: it ends the node at once.)                      *)
NoOrphan == mpc = "gone" => alive \subseteq killed

(* "SLAM stopped" (lines 174 and 178): a stop is answered, whatever became *)
(* of the export and however the process ended, only when no slam_toolbox  *)
(* runs.                                                                   *)
StopAnswered ==
  [][call = "stop" /\ mpc # "spin" /\ mpc' = "spin" => alive = {}]_managerAll
=============================================================================
