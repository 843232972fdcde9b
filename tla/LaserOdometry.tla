---------------------------- MODULE LaserOdometry ----------------------------
(***************************************************************************)
(* rf2o: CLaserOdometry2DNode.cpp and CLaserOdometry2D.cpp, fed by the     *)
(* lidar driver.  Every turn of main's loop runs the callbacks that wait   *)
(* and then process(), which matches the newest scan with the one before,  *)
(* adds the increment to the pose and publishes pose and speed.            *)
(*                                                                         *)
(* The motion is a turn, and a pose a heading: the shift along x goes the  *)
(* same way.  What the numerical part makes of two scans with enough valid *)
(* ranges is the true turn between them, or a failure of the eigenvalue    *)
(* solver.  Angles are counted in Circle parts of the full circle.         *)
(***************************************************************************)
EXTENDS LidarDriver

CONSTANTS
  Circle,     \* a full turn
  StartPoses  \* initial poses that may come on init_pose_from_topic

ASSUME CircleAssumption == Circle \in Nat \ {0} /\ StartPoses \subseteq Int

VARIABLES
  pc,          \* "spin": callbacks run; "process"
  posed,       \* GT_pose_initialized
  start,       \* initial_robot_pose
  first,       \* first_laser_scan, and not module_initialized
  available,   \* new_scan_available, which nothing initializes
  scan,        \* last_scan, with current_scan_time
  old,         \* the scan in the pyramid: range before the next swap
  pose,        \* laser_pose_ and robot_pose_
  oldPose,     \* robot_oldpose_
  lastOdom,    \* last_odom_time
  speed,       \* ang_speed as <<ang_inc, time_inc_sec>>
  lost,        \* history: what the robot turned that is not in the pose
  failed       \* history: the last match failed

nodeVars == <<posed, start, first, available, scan>>
coreVars == <<old, pose, oldPose, lastOdom, speed>>
historyVars == <<lost, failed>>
vars == <<lidarVars, pc, nodeVars, coreVars, historyVars>>

(* An empty topic name stands for the pose 0. *)
Init ==
  /\ LidarInit
  /\ pc = "spin" /\ posed \in BOOLEAN /\ start = 0
  /\ first = TRUE /\ available \in BOOLEAN /\ scan = NoScan
  /\ old = NoScan /\ pose = 0 /\ oldPose = 0 /\ lastOdom = 0 /\ speed = <<0, 1>>
  /\ lost = 0 /\ failed = FALSE

-----------------------------------------------------------------------------
(* The callbacks. *)

InitPose ==
  /\ pc = "spin" /\ ~posed
  /\ start' \in StartPoses
  /\ posed' = TRUE
  /\ UNCHANGED <<lidarVars, pc, first, available, scan, coreVars, historyVars>>

(* init(): the pyramid is made of zeros, not of the scan. *)
FirstScan ==
  /\ first' = FALSE
  /\ pose' = start
  /\ lastOdom' = inbox.t
  /\ old' = [inbox EXCEPT !.clear = FALSE]
  /\ lost' = inbox.heading
  /\ UNCHANGED <<available, oldPose, speed, failed>>

LaserCallBack ==
  /\ pc = "spin" /\ inbox # NoScan
  /\ inbox' = NoScan
  /\ IF posed
       THEN /\ scan' = inbox
            /\ IF first THEN FirstScan
                        ELSE available' = TRUE /\ UNCHANGED <<first, coreVars, historyVars>>
       ELSE UNCHANGED <<first, available, scan, coreVars, historyVars>>
  /\ pc' = "process"
  /\ UNCHANGED <<now, heading, running, spinning, posed, start>>

(* No scan has come since the last turn of the loop. *)
SpinSome ==
  /\ pc = "spin" /\ inbox = NoScan
  /\ pc' = "process"
  /\ UNCHANGED <<lidarVars, nodeVars, coreVars, historyVars>>

-----------------------------------------------------------------------------
(* process(). *)

(* Variant: an angle below minus half a circle stays. *)
WrapAbove(a) == IF 2 * a > Circle THEN a - Circle ELSE a

Wrap(a) ==
  IF 2 * a > Circle THEN a - Circle
  ELSE IF 2 * a < -Circle THEN a + Circle
  ELSE a

(* getYaw(): between minus and plus half a circle. *)
Yaw(a) == LET m == a % Circle IN IF 2 * m > Circle THEN m - Circle ELSE m

(* createImagePyramid(): the scan becomes the one to match the next with. *)
PushScan == old' = scan

(* The valid points that both scans have, at the levels of the pyramid. *)
Overlap == old.clear /\ scan.clear

(* Variant: the increment is added to robot_oldpose_. *)
PoseUpdateOnOld(increment) ==
  /\ pose' = oldPose + increment
  /\ speed' = <<Wrap(Yaw(pose') - Yaw(oldPose)), scan.t - lastOdom>>
  /\ lastOdom' = scan.t
  /\ oldPose' = pose'

(* Variant: last_odom_time is set by init() only. *)
PoseUpdateSinceFirst(increment) ==
  /\ pose' = pose + increment
  /\ speed' = <<Wrap(Yaw(pose') - Yaw(oldPose)), scan.t - lastOdom>>
  /\ oldPose' = pose'
  /\ UNCHANGED lastOdom

PoseUpdate(increment) ==
  /\ pose' = pose + increment
  /\ speed' = <<Wrap(Yaw(pose') - Yaw(oldPose)), scan.t - lastOdom>>
  /\ lastOdom' = scan.t
  /\ oldPose' = pose'

(* Levels with enough valid points are solved, the others skipped. *)
Match ==
  /\ PoseUpdate(IF Overlap THEN scan.heading - old.heading ELSE 0)
  /\ lost' = IF Overlap THEN lost ELSE lost + scan.heading - old.heading
  /\ failed' = FALSE

(* filterLevelSolution() finds no solution. *)
MatchFails ==
  /\ Overlap
  /\ lost' = lost + scan.heading - old.heading
  /\ failed' = TRUE
  /\ UNCHANGED <<pose, oldPose, lastOdom, speed>>

OdometryCalculation == PushScan /\ (Match \/ MatchFails)

(* What is there is published, whether the match failed or not. *)
Process ==
  /\ pc = "process" /\ ~first /\ available
  /\ OdometryCalculation
  /\ available' = FALSE
  /\ pc' = "spin"
  /\ UNCHANGED <<lidarVars, posed, start, first, scan>>

ProcessNothing ==
  /\ pc = "process" /\ (first \/ ~available)
  /\ pc' = "spin"
  /\ UNCHANGED <<lidarVars, nodeVars, coreVars, historyVars>>

-----------------------------------------------------------------------------
Lidar == (Revolution \/ Service) /\ UNCHANGED <<pc, nodeVars, coreVars, historyVars>>

Next == Lidar \/ InitPose \/ LaserCallBack \/ SpinSome \/ Process \/ ProcessNothing

Spec == Init /\ [][Next]_vars

-----------------------------------------------------------------------------
(* Properties.                                                             *)

(* The pose is the start and all that the robot turned up to the scan in   *)
(* the pyramid, through any number of scans that the queue dropped and     *)
(* wherever the lidar was stopped, but for what it turned between the two  *)
(* scans of a match that failed or had nothing to compare, as the first    *)
(* match never has.                                                        *)
MotionAccounted == ~first => pose - start + lost = old.heading

(* "last_odom_time -> The time of the previous scan lasser used to         *)
(* estimate the pose" (CLaserOdometry2D.cpp line 984), the part that       *)
(* holds: an increment and the time it is divided by belong to the same    *)
(* two scans unless the match before failed.                               *)
SpeedOverItsInterval == ~first /\ ~failed => lastOdom = old.t

(* The speed that is published has the direction and the size of the turn  *)
(* that was added to the pose, across the cut at half a circle, if that is *)
(* less than half a circle.  (A pose of init_pose_from_topic is taken for  *)
(* a turn once: robot_oldpose_ does not start from it.)                    *)
TurnReported ==
  [][start = 0 /\ lastOdom' # lastOdom /\ 2 * (pose' - pose) \in -Circle + 1 .. Circle - 1 =>
       (~first => speed'[1] = pose' - pose)]_vars
=============================================================================
