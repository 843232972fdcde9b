------------------------- MODULE LaserOdometry_proofs -------------------------
(***************************************************************************)
(* For any circle, any turns, any number of scans and any initial poses:   *)
(* the pose accounts for all of the robot's motion, the speed is divided   *)
(* by the time of its own scans unless a match failed, and what it reports *)
(* is the turn that was added to the pose, across the cut at half a circle.*)
(*                                                                         *)
(* The first two are inductive with the fact that a node without a pose    *)
(* has taken no scan (Posed).  The third needs that robot_oldpose_ agrees  *)
(* with the pose when the start is 0 (Follows), and arithmetic: two yaws   *)
(* differ from two headings by whole circles.                              *)
(***************************************************************************)
EXTENDS LaserOdometry, TLAPS

Scans == [t : Int, heading : Int, clear : BOOLEAN]

LidarTypeOK == now \in Int /\ heading \in Int /\ inbox \in Scans

CoreTypeOK ==
  /\ scan \in Scans /\ old \in Scans
  /\ start \in Int /\ pose \in Int /\ oldPose \in Int /\ lastOdom \in Int /\ lost \in Int

Posed == ~first => posed

Follows ==
  /\ first => pose = 0 /\ oldPose = 0
  /\ start = 0 => oldPose = pose

IInv == LidarTypeOK /\ CoreTypeOK /\ Posed /\ Follows /\ MotionAccounted /\ SpeedOverItsInterval

LEMMA ScanType ==
  ASSUME NEW s \in Scans
  PROVE  s.t \in Int /\ s.heading \in Int
  BY DEF Scans

(* What goes on outside of the node touches nothing that the invariant is  *)
(* about but the types of the lidar's own variables.                       *)
LEMMA LidarStep ==
  ASSUME IInv, Lidar
  PROVE  IInv'
  <1>1. UNCHANGED <<posed, start, first, scan, old, pose, oldPose, lastOdom, lost, failed>>
    BY DEF Lidar, nodeVars, coreVars, historyVars
  <1>2. LidarTypeOK'
    <2>1. CASE Revolution
      <3>1. now' \in Int /\ heading' \in Int
        BY <2>1, LidarAssumption DEF Revolution, IInv, LidarTypeOK
      <3>2. inbox' \in Scans
        BY <2>1, <3>1 DEF Revolution, IInv, LidarTypeOK, Scan, Scans
      <3> QED BY <3>1, <3>2 DEF LidarTypeOK
    <2>2. CASE Service
      BY <2>2 DEF Service, IInv, LidarTypeOK
    <2> QED BY <2>1, <2>2 DEF Lidar
  <1> QED
    BY <1>1, <1>2 DEF IInv, CoreTypeOK, Posed, Follows, MotionAccounted, SpeedOverItsInterval

LEMMA InitPoseStep ==
  ASSUME IInv, InitPose
  PROVE  IInv'
  <1>1. first
    BY DEF InitPose, IInv, Posed
  <1>2. UNCHANGED <<now, heading, inbox, first, scan, old, pose, oldPose, lastOdom, lost, failed>>
    BY DEF InitPose, lidarVars, coreVars, historyVars
  <1>3. start' \in Int /\ posed'
    BY CircleAssumption DEF InitPose
  <1> QED
    BY <1>1, <1>2, <1>3 DEF IInv, LidarTypeOK, CoreTypeOK, Posed, Follows, MotionAccounted, SpeedOverItsInterval

LEMMA LaserCallBackStep ==
  ASSUME IInv, LaserCallBack
  PROVE  IInv'
  <1>1. NoScan \in Scans
    BY DEF NoScan, Scan, Scans
  <1>2. LidarTypeOK'
    BY <1>1 DEF LaserCallBack, IInv, LidarTypeOK
  <1>3. CASE posed /\ first
    <2>1. /\ scan' = inbox /\ first' = FALSE /\ pose' = start /\ lastOdom' = inbox.t
          /\ old' = [inbox EXCEPT !.clear = FALSE] /\ lost' = inbox.heading
          /\ UNCHANGED <<posed, start, oldPose, failed>>
      BY <1>3 DEF LaserCallBack, FirstScan
    <2>2. inbox \in Scans
      BY DEF IInv, LidarTypeOK
    <2>3. old' \in Scans /\ old'.t = inbox.t /\ old'.heading = inbox.heading
      BY <2>1, <2>2 DEF Scans
    <2>4. CoreTypeOK'
      BY <2>1, <2>2, <2>3, ScanType DEF IInv, CoreTypeOK
    <2>5. (Posed /\ Follows)'
      BY <1>3, <2>1 DEF IInv, CoreTypeOK, Posed, Follows
    <2>6. (MotionAccounted /\ SpeedOverItsInterval)'
      BY <2>1, <2>2, <2>3, ScanType DEF IInv, CoreTypeOK, MotionAccounted, SpeedOverItsInterval
    <2> QED BY <1>2, <2>4, <2>5, <2>6 DEF IInv
  <1>4. CASE ~(posed /\ first)
    <2>1. UNCHANGED <<first, posed, start, old, pose, oldPose, lastOdom, lost, failed>>
      BY <1>4 DEF LaserCallBack, coreVars, historyVars
    <2>2. scan' \in Scans
      BY <1>4 DEF LaserCallBack, IInv, LidarTypeOK, CoreTypeOK
    <2> QED
      BY <1>2, <2>1, <2>2 DEF IInv, CoreTypeOK, Posed, Follows, MotionAccounted, SpeedOverItsInterval
  <1> QED BY <1>3, <1>4

(* SpinSome and ProcessNothing move the loop on and nothing else. *)
LEMMA LoopStep ==
  ASSUME IInv, SpinSome \/ ProcessNothing \/ UNCHANGED vars
  PROVE  IInv'
  <1>1. UNCHANGED <<lidarVars, nodeVars, coreVars, historyVars>>
    BY DEF SpinSome, ProcessNothing, vars
  <1> QED
    BY <1>1 DEF lidarVars, nodeVars, coreVars, historyVars, IInv, LidarTypeOK, CoreTypeOK, Posed,
                Follows, MotionAccounted, SpeedOverItsInterval

(* What a match adds to the pose, and what it leaves to lost. *)
LEMMA MatchStep ==
  ASSUME IInv, PushScan, Match
  PROVE  \E increment \in Int :
           /\ pose' = pose + increment /\ oldPose' = pose'
           /\ lost' = lost + (scan.heading - old.heading) - increment
           /\ lastOdom' = scan.t /\ old' = scan /\ ~failed'
           /\ speed'[1] = Wrap(Yaw(pose') - Yaw(oldPose))
  <1> DEFINE increment == IF Overlap THEN scan.heading - old.heading ELSE 0
  <1>1. scan.heading \in Int /\ old.heading \in Int /\ lost \in Int
    BY ScanType DEF IInv, CoreTypeOK
  <1>2. increment \in Int
    BY <1>1
  <1>3. PoseUpdate(increment) /\ ~failed'
    BY DEF Match
  <1>4. lost' = lost + (scan.heading - old.heading) - increment
    <2>1. CASE Overlap
      BY <1>1, <2>1 DEF Match
    <2>2. CASE ~Overlap
      BY <1>1, <2>2 DEF Match
    <2> QED BY <2>1, <2>2
  <1> HIDE DEF increment
  <1> WITNESS increment \in Int
  <1> QED BY <1>3, <1>4 DEF PoseUpdate, PushScan

LEMMA ProcessStep ==
  ASSUME IInv, Process
  PROVE  IInv'
  <1>1. UNCHANGED <<now, heading, inbox, posed, start, first, scan>> /\ ~first
    BY DEF Process, lidarVars
  <1>2. scan \in Scans /\ old \in Scans
    BY DEF IInv, CoreTypeOK
  <1>3. CASE Match
    <2>1. PushScan
      BY DEF Process, OdometryCalculation
    <2>2. PICK increment \in Int :
           /\ pose' = pose + increment /\ oldPose' = pose'
           /\ lost' = lost + (scan.heading - old.heading) - increment
           /\ lastOdom' = scan.t /\ old' = scan /\ ~failed'
      BY <1>3, <2>1, MatchStep
    <2>3. CoreTypeOK'
      BY <1>1, <1>2, <2>2, ScanType DEF IInv, CoreTypeOK
    <2>4. (MotionAccounted /\ SpeedOverItsInterval)'
      BY <1>1, <1>2, <2>2, ScanType DEF IInv, CoreTypeOK, MotionAccounted, SpeedOverItsInterval
    <2> QED
      BY <1>1, <2>2, <2>3, <2>4 DEF IInv, LidarTypeOK, Posed, Follows
  <1>4. CASE MatchFails
    <2>1. /\ old' = scan /\ lost' = lost + scan.heading - old.heading /\ failed'
          /\ UNCHANGED <<pose, oldPose, lastOdom>>
      BY <1>4 DEF Process, OdometryCalculation, PushScan, MatchFails
    <2>2. CoreTypeOK'
      BY <1>1, <1>2, <2>1, ScanType DEF IInv, CoreTypeOK
    <2>3. (MotionAccounted /\ SpeedOverItsInterval)'
      BY <1>1, <1>2, <2>1, ScanType DEF IInv, CoreTypeOK, MotionAccounted, SpeedOverItsInterval
    <2> QED
      BY <1>1, <2>1, <2>2, <2>3 DEF IInv, LidarTypeOK, Posed, Follows
  <1> QED BY <1>3, <1>4 DEF Process, OdometryCalculation

(* The strengthened invariant of the odometry: every scan, dropped, failed *)
(* or matched, keeps the accounts of heading, interval and pose.           *)
THEOREM Invariance == Spec => []IInv
  <1>1. ASSUME Init
        PROVE  IInv
    <2>1. NoScan \in Scans /\ NoScan.t = -1 /\ NoScan.heading = 0
      BY DEF NoScan, Scan, Scans
    <2>2. LidarTypeOK
      BY <1>1, <2>1 DEF Init, LidarInit, LidarTypeOK
    <2>3. CoreTypeOK
      BY <1>1, <2>1 DEF Init, CoreTypeOK
    <2>4. Posed /\ Follows /\ MotionAccounted /\ SpeedOverItsInterval
      BY <1>1 DEF Init, Posed, Follows, MotionAccounted, SpeedOverItsInterval
    <2> QED BY <2>2, <2>3, <2>4 DEF IInv
  <1>2. IInv /\ [Next]_vars => IInv'
    BY LidarStep, InitPoseStep, LaserCallBackStep, LoopStep, ProcessStep DEF Next
  <1> QED BY <1>1, <1>2, PTL DEF Spec

(* Whichever scans the queue drops, the driver fails to get or the solver  *)
(* fails on, the pose and what the failed matches lost add up to where the *)
(* robot faced at the scan in the pyramid.                                 *)
THEOREM AccountsForMotion == Spec => []MotionAccounted
  <1>1. IInv => MotionAccounted
    BY DEF IInv
  <1> QED BY <1>1, Invariance, PTL

(* last_odom_time is the time of the scan that the next one is matched     *)
(* with, unless the match before failed.                                   *)
THEOREM SpeedHasItsInterval == Spec => []SpeedOverItsInterval
  <1>1. IInv => SpeedOverItsInterval
    BY DEF IInv
  <1> QED BY <1>1, Invariance, PTL

(* A yaw is the heading but for whole circles, and at most half of one. *)
LEMMA YawOf ==
  ASSUME NEW a \in Int
  PROVE  /\ Yaw(a) \in Int /\ -Circle < 2 * Yaw(a) /\ 2 * Yaw(a) <= Circle
         /\ \E k \in Int : Yaw(a) = a + Circle * k
  <1> DEFINE q == a \div Circle
             m == a % Circle
  <1>1. q \in Int /\ m \in Int /\ 0 <= m /\ m < Circle /\ a = Circle * q + m
    BY CircleAssumption
  <1>2. Yaw(a) = IF 2 * m > Circle THEN m - Circle ELSE m
    BY DEF Yaw
  <1> HIDE DEF q, m
  <1>3. Yaw(a) \in Int /\ -Circle < 2 * Yaw(a) /\ 2 * Yaw(a) <= Circle
    BY <1>1, <1>2, CircleAssumption
  <1>4. \E k \in Int : Yaw(a) = a + Circle * k
    <2>1. m = a + Circle * (-q)
      BY <1>1, CircleAssumption
    <2>2. m - Circle = a + Circle * (-q - 1)
      BY <1>1, CircleAssumption
    <2>3. -q \in Int /\ -q - 1 \in Int
      BY <1>1
    <2> QED BY <1>2, <2>1, <2>2, <2>3
  <1> QED BY <1>3, <1>4

(* The difference of two yaws, wrapped, is that of the headings if it is   *)
(* less than half a circle.                                                *)
LEMMA WrapOf ==
  ASSUME NEW a \in Int, NEW d \in Int, -Circle < 2 * d, 2 * d < Circle
  PROVE  Wrap(Yaw(a + d) - Yaw(a)) = d
  <1>1. PICK k \in Int : Yaw(a) = a + Circle * k
    BY YawOf
  <1>2. PICK l \in Int : Yaw(a + d) = a + d + Circle * l
    BY YawOf
  <1> DEFINE n == l - k
             w == Yaw(a + d) - Yaw(a)
  <1>3. n \in Int /\ Circle \in Int /\ Circle > 0
    BY CircleAssumption
  <1>4. w \in Int /\ w = d + Circle * n
    BY <1>1, <1>2, <1>3
  <1>5. -Circle < w /\ w < Circle
    BY YawOf, <1>3
  <1> HIDE DEF n, w
  <1>6. n \in {-1, 0, 1}
    <2>1. ~(n >= 2)
      <3>1. n >= 2 => Circle * n >= 2 * Circle
        BY <1>3
      <3> QED BY <3>1, <1>3, <1>4, <1>5
    <2>2. ~(n <= -2)
      <3>1. n <= -2 => Circle * n <= -2 * Circle
        BY <1>3
      <3> QED BY <3>1, <1>3, <1>4, <1>5
    <2> QED BY <1>3, <2>1, <2>2
  <1>7. Wrap(w) = d
    <2>1. CASE n = 0
      BY <1>3, <1>4, <2>1 DEF Wrap
    <2>2. CASE n = 1
      BY <1>3, <1>4, <2>2 DEF Wrap
    <2>3. CASE n = -1
      BY <1>3, <1>4, <2>3 DEF Wrap
    <2> QED BY <1>6, <2>1, <2>2, <2>3
  <1> QED BY <1>7 DEF w

(* For a node that starts at 0: a turn of less than half a circle that     *)
(* enters the pose is the one that the speed reports, also where the yaw   *)
(* passes from plus to minus half a circle.                                *)
THEOREM ReportsTurn == Spec => TurnReported
  <1> DEFINE Small == 2 * (pose' - pose) \in -Circle + 1 .. Circle - 1
             Report == start = 0 /\ lastOdom' # lastOdom /\ Small => (~first => speed'[1] = pose' - pose)
  <1>1. ASSUME IInv, [Next]_vars
        PROVE  Report
    <2> SUFFICES ASSUME start = 0, lastOdom' # lastOdom, Small, ~first
                 PROVE  speed'[1] = pose' - pose
      OBVIOUS
    <2>1. Process
      BY <1>1 DEF Next, Lidar, InitPose, LaserCallBack, SpinSome, ProcessNothing, vars, coreVars
    <2>2. PushScan /\ Match
      BY <2>1 DEF Process, OdometryCalculation, MatchFails
    <2>3. PICK increment \in Int :
            pose' = pose + increment /\ speed'[1] = Wrap(Yaw(pose') - Yaw(oldPose))
      BY <1>1, <2>2, MatchStep
    <2>4. pose \in Int /\ oldPose = pose
      BY <1>1 DEF IInv, CoreTypeOK, Follows
    <2>5. increment = pose' - pose /\ -Circle < 2 * increment /\ 2 * increment < Circle
      BY <2>3, <2>4, CircleAssumption
    <2> QED BY <2>3, <2>4, <2>5, WrapOf
  <1> QED BY <1>1, Invariance, PTL DEF Spec, TurnReported
=============================================================================
