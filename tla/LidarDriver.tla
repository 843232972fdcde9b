----------------------------- MODULE LidarDriver -----------------------------
(***************************************************************************)
(* ydlidar_ros2_driver_node.cpp: one thread that takes a revolution from   *)
(* the lidar, publishes it as a LaserScan and then lets at most one        *)
(* service call through.  The subscriber keeps the newest scan only.  A    *)
(* scan is known by the time and the robot's heading it was taken at, and  *)
(* by whether enough of its ranges are valid to be compared with another.  *)
(***************************************************************************)
EXTENDS Integers

CONSTANTS
  MaxTime,    \* bound: revolutions of the lidar
  MaxTurn     \* bound: what the robot turns during one

ASSUME LidarAssumption == MaxTime \in Nat /\ MaxTurn \in Nat

VARIABLES
  now,        \* time, in revolutions
  heading,    \* the robot's true heading, not wrapped
  running,    \* ret: the node's loop was entered
  spinning,   \* the lidar is turned on
  inbox       \* the undelivered scan, or NoScan

lidarVars == <<now, heading, running, spinning, inbox>>

Scan(t, h, clear) == [t |-> t, heading |-> h, clear |-> clear]
NoScan == Scan(-1, 0, FALSE)

(* initialize() and turnOn() may fail: then the node ends. *)
LidarInit ==
  /\ now = 0 /\ heading = 0 /\ inbox = NoScan
  /\ running \in BOOLEAN /\ spinning = running

(* A revolution, in which the robot turns.  The driver may fail to get it, *)
(* which it says and goes on from; it always does when the lidar is off.   *)
Revolution ==
  /\ running /\ now < MaxTime
  /\ now' = now + 1
  /\ \E turn \in -MaxTurn .. MaxTurn : heading' = heading + turn
  /\ \/ UNCHANGED inbox
     \/ spinning /\ \E clear \in BOOLEAN : inbox' = Scan(now', heading', clear)
  /\ UNCHANGED <<running, spinning>>

(* /start_scan and /stop_scan: what the lidar makes of turnOn() and        *)
(* turnOff(), either of which may fail.                                    *)
Service ==
  /\ running
  /\ \E on \in BOOLEAN : spinning' = on
  /\ UNCHANGED <<now, heading, running, inbox>>
=============================================================================
