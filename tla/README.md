# rescue_pi: formal models

TLA+ models of the software that runs on the Raspberry Pi of a tracked rescue
robot, the TLC runs that check them on small instances, and theorems that TLAPS
proves for every value of the constants. Paths are relative to `src/`; `slam/`
abbreviates `src/lidar_slam_bringup/lidar_slam_bringup/` and `cam/`
`src/camera_ros/src/` inside it.

## 1. The system

The Pi is a hub. A control PC sends joystick and arm commands over UDP and shows
video, map and orientation; the tracks hang on an ESP32, the arm on an Arduino
Mega, both over USB serial lines; a lidar, an IMU and a CSI camera feed ROS 2
nodes.

    PC --UDP 3390--> UDP.py  --serial--> ESP32 (tracks)
    PC --UDP 3391--> UDPS.py --serial--> Mega  (arm) --angle lines--> UDPS.py
                        |                                              |
                        +--UDP--> PC            UDP 127.0.0.1 ---------+--> arm_home_guard
    arm_home_guard --pause service--> slam_toolbox <--process-- slam_manager
                                          |                        |
                                          +--TF, /map              +--/slam/new_map
                                          v                        v
    PC --UDP 3393 (QR detections)--> qr_marker_node --/qr_markers--> viewers
    lidar -> ydlidar node -> /scan -> rf2o, slam_toolbox
    WT901 -> imu_node -> imu/data -> imu_udp_bridge --UDP--> PC
    camera -> camera_ros -> compressed images -> mjpeg_bridge --HTTP--> PC

| Component | State | Operations | What is hard |
|---|---|---|---|
| Drive bridge, `UDP.py` | `_is_locked`, `_last_recv`, `_running`, the port | receive a burst, relay locks in order and the newest motion, watchdog stop, shutdown | three threads and no lock, a kernel queue that is flushed in the middle of a line, silence against a late packet |
| Arm bridge, `UDPS.py` | `_ser`, `pc_addr` | forward to the Mega, read angles, reconnect | two threads clear and set `_ser`, each with a handle it took before |
| Arm guard, `slam/arm_home_guard.py` | wished and believed pause state, home timer, call in flight | judge angle frames, reconcile, toggle, publish `/slam/active` | the pause state is never queried, only toggled; slam_toolbox comes and goes |
| SLAM manager, `slam/slam_manager.py` | the process, the cached map | start, stop, save, upload | a map of the old process after the start of the new one, a process that will not die |
| QR markers, `slam/qr_marker_node.py` | marker array, id counter | detect, append, wipe | pose and ids are taken outside the lock |
| IMU, `slam/imu_node.py` | last acceleration and rate | resynchronise on frames, publish | lost bytes |
| IMU to PC, `slam/imu_udp_bridge.py` | `_last_sent` | rate-limited send | clock steps |
| Camera requests, `cam/CameraNode.cpp` | one thread, mutex and condition per request, `running` | fill, publish, queue again, shut down | waits without predicate, notification without the mutex |
| Camera parameters, `cam/ParameterHandler.cpp`, `cam/ParameterConflictHandler.cpp` | pending control values, stored exposure time | validate, apply, synchronise after a request | a set by the user between two steps of a request thread |
| Camera conversions, `cam/clamp.cpp`, `cam/cv_to_pv.cpp`, `cam/pv_to_cv.cpp` | none | clamp, compare and convert values | arrays against scalars, narrowing, types that do not come back |
| Video, `src/camera_bridge/camera_bridge/mjpeg_bridge.py` | the last frame and its number | publish, wait for the next | slow clients, timeouts |
| Laser odometry, `src/rf2o_laser_odometry/src/` | last scan, initial pose, flags | take a scan, match, publish | first-scan initialisation, dropped scans, failed matches, wrap of angles |
| Lidar node, `src/ydlidar_ros2_driver-humble/src/` | scanning or not | scan, publish, start, stop | failures of the vendor's library |
| Lens, `deps/kernel/dw9807-vcm/dw9807-vcm.c` | focus position, power state | ramp, suspend, resume | an I2C write that fails in the middle of a ramp |
| Sensor, `deps/kernel/imx708/imx708.c` | mode, exposure, blanking, streaming | control updates, start, stop | limits that depend on each other |
| Launch files, device tree, tuning | none | - | data |

What makes each component correct:

* drive bridge: the motors obey the newest command or stop; locks are not lost;
  silence stops the robot; a shutdown stops it;
* arm bridge: a port that works is kept, the Mega's angles reach the guard;
* arm guard: what it believes and publishes is true, a toggle never does the
  opposite of what it is for, the wanted state is reached;
* SLAM manager: one slam_toolbox at most, none left behind, a stop stops it, and
  the map exported is the map of the running one;
* QR markers: ids are unique, late viewers see what early ones see, no marker of
  an old map survives;
* camera requests: a frame buffer has one owner, nobody waits for ever;
* camera parameters: the last values the user set reach the camera, within the
  camera's bounds, no thread throws, a fixed exposure time and the automatic mode
  exclude each other;
* video: no viewer misses a wakeup, goes back, or waits for another viewer;
* odometry: the pose accounts for the motion, the speed for its own interval;
* IMU: lost bytes cost few packets, the datagrams keep their period.

The hazards, each at the line where it bites, and the properties that would catch
it are in `PROJECT.json`.

## 2. Modules

| Module | Models |
|---|---|
| `TrackMixer` | the conversion of a twist to two track speeds, with truncation and clamp |
| `MotorCommands` | the promise of the drive bridge about motion, abstractly |
| `DriveBridge` (EXTENDS `TrackMixer`, INSTANCE `MotorCommands`) | the three threads of `UDP.py`, the serial queue, the ESP32's line assembler |
| `MCDriveBridge` | packets for the runs |
| `ServoBridge` | the reader and the sender of `UDPS.py` around the port of the Mega |
| `ArmHomeGuard` | `arm_home_guard.py` with slam_toolbox behind its pause service |
| `SlamManager` | `slam_manager.py` with the process it starts and the topic /map |
| `QrMarkers` | `qr_marker_node.py` with the maps, the transforms and two viewers |
| `MapSession` (EXTENDS `QrMarkers`, INSTANCE `SlamManager`) | the two together: a map exists because the manager started it |
| `ImuNode`, `ImuUdpBridge` (EXTENDS `ImuNode`) | the frame parser of `imu_node.py`; the rate limiter behind it |
| `CameraRequests` | the request threads, the camera's thread, the first queueing and the destructor |
| `CameraParameters`, `MCCameraParameters` | the parameter handler's threads and the conflict handler; default values, overrides and user sets for the runs |
| `CameraControls`, `MCCameraControls` | the way of one value from a parameter to a control and back: types, bounds, conversions; the controls and inputs for the run |
| `MjpegBridge` | `FrameHub` and the threads of the HTTP clients |
| `LidarDriver`, `LaserOdometry` (EXTENDS `LidarDriver`), `MCLaserOdometry` | the lidar's loop; the loop, callbacks and pose of rf2o |
| `MapSession_proofs` | theorems about `QrMarkers`, `SlamManager` and `MapSession` |
| `Bridges_proofs` | theorems about the bridges with one small proof each: `MjpegBridge`, `ServoBridge`, `ImuUdpBridge` |
| the other `*_proofs` | theorems about the module they extend |

Definitions with a comment that begins "Variant:" are deliberate mistakes in one
step of the code: they show that a property is able to fail.

### DriveBridge

A program counter per thread follows the loops of `udp_receiver`, `watchdog`
and `run`/`stop`. One action is what happens between two points where another
thread can be seen: a `recvfrom`, a read of a shared field, a `write`, the flush.
`RxRecv`, `RxDrainOne` and `RxDrained` take a burst; `RxLock`/`RxSendLock`,
`RxDefer` and `RxSkip` walk through it; `RxMotion`, `RxFlush` and `RxSendMotion`
handle `latest_motion`. A packet is known by its index in `log`, so that "newer"
is a comparison of numbers, and any sequence of packets may arrive, which covers
loss, duplication and reordering on the network. `tty` is the kernel's output
queue: `write()` blocks when it is full, `reset_output_buffer()` empties it, and a
line whose first bytes are on the wire is cut and spoils the one after it
(`residue`). `Unplug` takes the adapter away. Time is `silence`, the ticks since
`_last_recv`.

### ArmHomeGuard

The rx thread judges a frame in one step (it holds the lock); the angle
arithmetic is reduced to its verdict. The reconcile timer is two steps, since it
releases the lock before it decides about the toggle: `Reconcile` reads the wish,
then `NotReady`, `Hold` or `SendToggle` acts on it. `Done` is the callback of the
call; it runs on the same executor, so not between the two steps.
slam_toolbox toggles on each request, starts unpaused, and may end at any moment;
a request is then lost and the future never completes, as with rclpy, while a reply
on its way may still arrive (`call` is "late") or not. Another client may toggle
too, and the callback may find an exception in the future (`DoneFailed`).

The guard polls `service_is_ready()` (`svcReady`): true when its client is matched
with the running process (`known`, from `Discover` on) or when discovery still
keeps an ended one (`stale`, until `Withdraw`: an announcement, or the end of the
lease after a crash or the SIGKILL of `slam/slam_manager.py:145`). Nothing makes a
start wait for that, so a process may replace another *unnoticed*: the guard never
sees the service gone and keeps what it believed. The history variable `unnoticed`
holds until the guard takes the service for new or the running process answers it;
the properties say what goes wrong in that state and that nothing else does.

### CameraRequests

A request has a thread whose program counter follows `CameraNode::process`. The
wait on the condition variable has no predicate in the code, and none in the
model: `RequestComplete` wakes a thread only if it is waiting already, and
`SpuriousWakeup` wakes it for no reason. A mutex is held from the return of the
wait to the end of the loop body (`Locked`). libcamera fills requests in order and
signals them one at a time. `Shutdown`, `MainHalt`, `MainNotify`, `MainJoin` and
`MainStop` are the destructor, step by step.

### CameraParameters

The three controls of the conflict handler are modelled, since only they depend
on each other: `AeEnable`, `ExposureTimeMode`, `ExposureTime`. A set is one step,
because rclcpp runs it and its callback under one mutex; what a request thread
does outside that mutex is a step each: `redeclare()` looks and declares in two,
`move_control_values()`, the queueing, the set of `sync_control_values()`, its
clear. The build is the one of the repository's instructions, ROS 2 Humble and
libcamera 0.7: Humble has no pre- and post-set callbacks, so the list that the
conflict handler resolves is a copy and rclcpp stores the original.

### QrMarkers

A map is a number, a pose is the number of the map it is expressed in. The rx
thread looks the pose up, numbers the sphere and the text (read and increment are
separate, the setter of the message lies between them), then appends and publishes
under the lock; `NewMap` wipes under the lock. A viewer keys markers by namespace
and id: a message covers what it deletes or replaces. `Replay` is what a viewer sees
that connects now and is sent the messages the publisher keeps, `screen` what one
sees that received them all.

### ServoBridge

A handle is known by the time the Mega was plugged in that it was opened at, so
that a handle of an earlier time is dead for good. The reader takes the handle,
reads or reconnects, and stores what it opened after the pause in which the Mega
restarts; the sender takes a handle, writes, and clears `_ser` if the write raised.
Each reading of `_ser` is a step of its own, since the lock is released after it.
A read ends with a line, without one, or with an exception.

### SlamManager and MapSession

The node has one thread; `mpc` follows what the world can see of a service call:
export, upload, the two waits for the process. slam_toolbox may end or publish
between any two steps, and whether it obeys a signal is left open. `Interrupt` is a
signal to the node, `ExportRaises` and `Wait5Raises` are exceptions that no handler
takes: both lead to `destroy_node()`. In `MapSession` the start is one step of both
nodes (`StartSession`), the instance's number is the map's, and transforms only
come from an instance that runs.

### ImuNode and ImuUdpBridge

The sensor's stream is a packet number and an offset; a byte is a header or not,
and data may look like one. `collected` is how far the packet being read is and
`whole` whether its bytes are those of one packet; the checksum is taken to be
right for these only. `Lose` drops a byte, and with it the wholeness of what is
collected, `Pause` is a read that ends short. The
bridge's clock is the system clock, which `StepClock` sets back or forth.

### CameraControls

The controls are independent here and there is one worker, so that types, bounds
and widths can be varied instead: every pair of seventeen controls, six scalars
(integers of four types, a float, a rectangle), seven arrays, with bounds for each
element or for all and defaults in and out of bounds, and four that cannot be
supported. An integer of `Width` values stands for one of 32 bits or a byte. A
float is an even number or `NaN`, a double, which its parameter holds, any number
or `NaN`, so that a double is rounded on its way to the control. `Below` is false
of a NaN, on either side, as `<` is. `Less`, `Clamp`, `CvToPv`, `PvToCv` and `Valid`
are the functions of the same names in the code; `validate_new_parameters()` throws
while any control's parameter is undeclared (`Readable`), to the user who sets one
or out of the worker, which ends it. `ControlsAssumption` says what libcamera and
rclcpp promise of a camera and an input: bounds and defaults that are numbers of the
control's type, one for all elements or one for each of a fixed extent, a minimum
not above its maximum, a default of the control's shape or none, a scalar parameter
of one number.

### MjpegBridge

`get()` holds the lock from its comparison to its wait, and again from the wakeup
to its return, hence `Get`, `Sleep`, `Wake` and `Timeout`. The frame is written
outside the lock; a client that does not read stays in `write` for ever.

### LidarDriver and LaserOdometry

A scan is the time and the true heading it was taken at and whether it has enough
valid ranges. What the numerical part makes of two such scans is the true turn
between them, or a failure of the eigenvalue solver; everything around it is
modelled: the flag that nothing initialises, the first scan, the zeros that the
first pyramid holds, the swap of the pyramids before the match, the early return
after a failure, the pose, the wrapped difference of yaws and the time it is
divided by. The shift along x goes the same way as the turn and is left out.

## 3. Runs

| Run | Bounds | Shows |
|---|---|---|
| `drive_bridge` | 3 packets out of 6 kinds, queue of 2 lines, watchdog at 1 tick | the motors obey the newest motion or stop (`ImplementsMotorCommands`); a line cut by the flush spoils only a stop; locks are lost only to a stop; without stops, a motion takes effect after the locks that preceded it |
| `drive_watchdog` | 2 packets out of 5 kinds, fairness | a silent PC ends with stopped tracks while the bridge is unlocked, also when a NaN ended the receive thread |
| `servo_bridge` | 3 times plugged in, 2 refused opens, fairness | a working port is dropped only by a write to an earlier one that failed late; a Mega that stays feeds the guard for ever |
| `arm_guard` | 2 starts of slam_toolbox, 1 external toggle, 2 ticks to settle, fairness | belief, toggles and `/slam/active` are right and the wanted state is reached, but for a paused process that was replaced unnoticed; resuming takes the full settling time |
| `map_session` | 2 maps, 2 detections, 1 message kept | one slam_toolbox; exports of the newest map only; nothing left behind; a stop is answered when it has stopped; ids increase unless a wipe raced a numbering; late and early viewers agree; one pair at most outlives its map |
| `imu_stream` | 6 packets of 4 bytes, 2 gaps, 2 lookalikes, queue of 2, 2 steps of the clock | each gap or lookalike costs one intact packet at most; datagrams are a period apart, dropped messages within one |
| `camera_requests` | 3 requests, 1 spurious wakeup, 1 failed call, fairness | one owner per buffer until a wakeup is spurious; the camera's thread is never blocked for good; a shutdown that finds all threads asleep ends |
| `camera_parameters` | 2 threads, 2 user sets out of 10, 2 exposure times, 9 starts, fairness | no thread throws until a parameter is unset; pending values never fix a time in automatic mode; a set that no synchronisation overlaps reaches the camera |
| `camera_controls` | 2 controls of 17 kinds, 20 inputs, integers of 8 values | no number out of bounds reaches the camera, but a NaN may reach a float; fitting defaults are all set; parameters and controls agree after a synchronisation and, where a parameter has a range, while values wait |
| `mjpeg_bridge` | 2 clients, one of which may stall, 3 frames, fairness | no lost wakeup, no step back, and the newest frame to whoever reads |
| `laser_odometry` | 5 revolutions, turns of 1 in a circle of 5, 2 initial poses | pose and failed matches add up to the heading; the speed has its own interval; the reported turn is the one taken, across the wrap |
| `drive_shutdown` | as small as the counterexample allows | a disagreement between the code and what it says, section 5 |

Why the bounds are enough for the cases that matter:

* *3 packets*: a burst, or a lock and a motion, or two motions with a lock between
  them, each split over bursts in every way. Two lines fill the queue, so that a
  `write()` blocks behind a line that is being transmitted. The speeds (at most 2,
  unit 1/2) reach the clamp, the truncation to zero and a NaN.
* *3 times plugged in*: the sender's handle, the port opened meanwhile and the one
  after are three different ones.
* *2 starts* are a restart; with an external toggle between them every stage of a
  call meets every state of the process. The first process may be there before the
  guard is, so that two replacements follow each other, each of them noticed or not.
* *2 maps and 2 detections*: the second start wipes the markers and finds the first
  instance gone, dying or hanging; a detection may be held across the wipe and
  meet one of the new map. An array of two exceeds the depth of one, which is what
  a late viewer needs.
* *6 packets* are each kind twice. Two gaps and two lookalikes within a packet's
  length of each other compound before the parser is back in step.
* *3 requests*: one being signalled, one queued, one in its thread at once.
* *2 threads and 2 sets*: a set before, between and after two overlapping
  synchronisations. The ten sets are each control alone, the pairs that conflict
  or restore, and unsetting.
* *2 controls* are set together, so that one may spoil the other's; 8 values of a
  narrow integer make the inputs -6 and 9 wrap into bounds and others not. The
  doubles are a NaN, one below and one above the bounds of the float, and one that
  is rounded.
* *2 clients and 3 frames*: a frame that is awaited, one that comes while the first
  is written, and one that is never followed by another.
* *5 revolutions*: the first scan, two matches around a failed or empty one, and a
  dropped scan. Five turns of one take the heading around the circle.

Clocks and histories are bounded by construction (a clock stops at the value that
decides the comparison) or by the constants named `Max...`, which are the bounds of
the environment, in the guards. Deadlock checking is off where the system may stop:
the drive bridge and the camera node after their shutdown, the parameter handler
and the conversion of controls after an exception, the SLAM manager after its end,
and the IMU's stream and the session at the end of the bounded environment. The
other runs are checked for deadlock.

## 4. Fairness

Weak fairness of a thread stands for an operating system that schedules it. The
drive bridge also assumes that the UART transmits and that time passes; nothing
makes a packet arrive, the user press Ctrl+C or the plug come out. The guard's
timer fires, a running process is discovered and an ended one withdrawn, requests
and replies travel, and its reply callback, whatever the future holds, gets
*strong* fairness: it is enabled only between timer callbacks, and the executor
serves every ready callback. A frame, a start or an end of slam_toolbox, the loss
of a late reply or an external toggle is never assumed. The camera completes a
queued request (it streams), each request thread runs, and a mutex that stays free
is taken by its waiter; no spurious wakeup and no shutdown is assumed. The arm
bridge's reader and a write that began go on, no packet need come, and a Mega that
is read again and again sends angles now and then (strong fairness of that line:
it sends them periodically). The threads of the video clients that read run; those
of a client that stalls, and timeouts, are not assumed. `MapSession`,
`ImuUdpBridge`, `CameraControls` and `LaserOdometry` have no liveness property and
no fairness.

## 5. Findings

`drive_shutdown` is a run that TLC ends with a counterexample, and a line of the
repository that says otherwise: `stop()` does not join the receive thread, which
may write a motion after the last stop (`UDP.py:257`, "stop motors before
closing").

Other disagreements with what the code or a comment says, which the models show
where a property has to make an exception:

* A burst with a lock and a stop: the lock line is written, the flush before the
  stop discards it (`UDP.py:143`); the bridge believes itself locked, switches its
  watchdog off, and the ESP32's brake is as before. Line 169 says that locks must
  never be dropped. `LockLostOnlyByStop` and `WatchdogStops` state the rest.
* slam_toolbox ends while a toggle is under way, or the toggle is sent to a process
  that has ended and is not yet withdrawn: `_call_in_flight` stays set and no later
  instance is paused (`slam/arm_home_guard.py:30`, "when SLAM comes up (or
  restarts)"). `WantedStateReached` is about calls that were not lost.
* A slam_toolbox that replaces a paused one before the guard's timer sees the
  service gone, as after a crash and a quick start, runs and is believed paused:
  `slam/arm_home_guard.py:224` ("forces a re-pause after a slam restart while the
  arm is still deployed") is true only of restarts that the timer saw. With the
  arm out the new process goes on measuring; when the arm is home the guard
  resumes it, which pauses it, and only the reply puts that right.
  `BeliefCorrect`, `ToggleLandsOnGoal`, `ActiveHonest` and `WantedStateReached`
  except exactly this.
* A pause by another client is not reflected in `/slam/active`; the guard's
  properties are stated up to such a toggle (`disturbed`).
* The camera's destructor clears `running` and notifies without the mutex: a thread
  that publishes at that moment sleeps afterwards and `join()` never returns
  (`cam/CameraNode.cpp:618`). A completion that is signalled before its thread waits
  is lost and the request is never queued again; a spurious wakeup gives a buffer
  two owners.
* Values set while a request thread synchronises are cleared before any request
  took them (`cam/ParameterHandler.cpp:314` promises the most recent ones).
* On Humble, `restore()` edits a copy: the parameters may show a fixed exposure
  time together with the automatic mode although the control values never combine
  them (`NoTimeInAuto`), and the stored time is used up by the thread's own set.
* A set by the user to "not set" undeclares a parameter; the thread that then sets
  its controls throws. In this state `tmp_store` may stay filled, against the
  assertion at `cam/ParameterConflictHandler.cpp:164`, which the Release build of
  `deps/do_colcon.sh` compiles out.
* A parameter that was unset comes back without its range
  (`cam/ParameterHandler.cpp:135` keeps the descriptor before `CASE_RANGE`): a
  64-bit value is then accepted when its low bits are in bounds. An array default
  of one element, or of bytes, has all defaults rejected, and an array of one
  element in a request has all of its controls rejected when they are shown again.
* A NaN that a user writes to a float control is neither below its minimum nor above
  its maximum: rclcpp's range and `cam/ParameterHandler.cpp:414` let it through, and
  it is sent to the camera (`AppliedInRange` makes the exception; so does an array
  with a NaN in it).
* An array of unsigned integers is accepted from a user and sent, but cannot be
  converted back (`cam/cv_to_pv.cpp:53`): the request thread ends with an exception
  that nothing catches (`Sync`, to "gone").
* A wipe between the reading of a marker's id and the append leaves two markers
  with one id (`slam/qr_marker_node.py:27`).
* A `/map` of the old slam_toolbox that still waits when the new one starts is
  cached after `_last_map` was emptied, and a stop exports it as the new map
  (`ExportOwnMap` makes the exception). A failing export ends the whole node
  before slam_toolbox is stopped; only `destroy_node()` still stops it.
* A failed match makes the next speed twice too large or more, since the pyramids
  are swapped but `last_odom_time` is not set (`CLaserOdometry2D.cpp:271`); the
  motion of the failed match is lost. A pose from `init_pose_from_topic` is
  reported as a turn once.

## 6. Properties

Besides type invariants, each property takes several steps to violate. Where the
code keeps a promise only in part, the exact part is stated, with the exception in
the property: `LockLostOnlyByStop` (no stop among the packets), `BeliefCorrect`,
`ToggleLandsOnGoal` and `ActiveHonest` (nobody else toggled, no exception came for
a reply, and what follows a restart that went unnoticed), `WantedStateReached` (no
call was lost, and the same), `BufferExclusive` (no spurious wakeup),
`QuietShutdownEnds` (all threads asleep or not yet past their check of `running`),
`OnlyUnsetBreaks`, `LoneSetApplied` (no overlap with a synchronisation),
`IdsIncrease` (the last wipe did not fall between a numbering and its append),
`AtMostOneStale` (the signal is taken and the transforms did not lag at the wipe),
`ExportOwnMap` (no late map), `LivePortKept` (a write to an earlier handle),
`NeverBack` (a timeout may repeat a frame), `SpeedOverItsInterval` (the match
before did not fail), `TurnReported` (no initial pose), `RateLimit` (up to the
steps of the clock), `AppliedInRange` (a NaN), `DefaultsAccepted`, `SyncShowsSent`
and `PendingIsShown` (values that fit, integers' parameters with a range). What an
exception leaves out is the code's fault and in section 5; the hazards in
`PROJECT.json` say in a note which part of them no property covers.

`raced`, `lagging`, `disturbed`, `unnoticed`, `unset`, `last`, `sinceAway`,
`espSeq`, `espLockSeq`, `saved`, `late`, `sent` and `expired` of `MjpegBridge`,
`lost`, `failed`, `missed`, `quiet`, `stepped` and `defaultsSet` are history
variables: no step of the code depends on them.

## 7. Theorems

All constants are arbitrary within the named assumptions of each module (types,
positive sizes, packets of the three kinds, `None` distinct from every value). The
argument is always an inductive invariant, `IInv` or `Inv` in most modules:
`Init => IInv`, `IInv /\ [Next]_vars => IInv'` with one lemma per action or group of
actions, and the property from `IInv`. Only `CameraControls` needs more of its
constants than types (`ControlsAssumption`, section 2); TLC evaluates every
assumption with the constants of its run.

| Module | Theorems | Why the property is not inductive, and what is added |
|---|---|---|
| `DriveBridge_proofs` | `TypeCorrect`, `OnlyStopsGarbled`, `BridgeRefinesMotorCommands`, `SpeedsInRange`, `LocksReachTheBrake`, `LocksBeforeLaterMotions`, `OwnStopDecides`, `QuietEndsStopped`, `QuietStaysStopped` | a queued motion must be newer than what the ESP32 took and queued motions must be in order (`LineInv`, `OrderInv`); a flush is only reached for a stop, which is the first line written after it (`RxInv`, `GarbledInv`); a queued lock is newer than the one in force and than every line before it (`LockOrderInv`); without stops, a lock packet that was handled is in the queue or the ESP32 took it or a newer one (`RelayInv`), and the last lock of the queue, or the brake when there is none, is what the bridge believes (`BrakeInv`). A flush is followed by the stop it was made for before the receive thread waits again, so a stop of the other threads meets no cut-off line (`GarbledInv`) and the last motion that the ESP32 will obey is one (`EndsStopped`) |
| `ArmHomeGuard_proofs` | `TypeCorrect`, `GuardKnowsPauseState`, `TogglesHitTheirGoal`, `ActiveTellsTruth`, `ResumesOnlySettled`, `WantedStateKept` | one toggle at most is under way, to a process the guard is matched with (`CallInv`), a running process that may still get its predecessor's reply is unnoticed (`InstanceInv`), and each stage of a toggle fixes what is known: a process that the guard has not seen, or not noticed to be new, got no toggle from it (`KnowledgeInv`); the time at home is never more than the time since the arm was seen away (`AgeInv`); a reached wish is kept because the guard believes what it asked for and wishes it (`Agrees`) |
| `CameraRequests_proofs` | `TypeCorrect`, `RequestHasOneOwner`, `NobodySleepsThroughTheJoin` | who is notified while the node runs was notified for a completion (`HandedInv`), the signalled request is not queued (`DistinctInv`), the first queueing is done once (`FirstInv`), notifications of the destructor come after `running` is cleared (`RunInv`); from a quiet shutdown on no thread is in its body and who was notified does not sleep (`Leaving`) |
| `CameraParameters_proofs` | `TypeCorrect`, `SetsNeverThrow`, `NeverTimeInAuto`, `AcceptedNeverLost`, `AppliedUntilNext` | the lists that threads write back never unset anything (types), hence all parameters are declared and no thread is about to declare one (`DeclaredInv`); every list that is pending or travels with a request carries all values accepted last, and a thread writes back and clears only once the camera has them (`WayInv`) |
| `CameraControls_proofs` | `ControlsInRange`, `PendingShown`, `DefaultsFit`, `SentReturns` | a value on its way was let through by the validation: it has its control's shape and type and was compared to both bounds (`Admitted`, `Carried`). The lemmas are about the operators: a comparison is at every element and tells nothing of a NaN (`ComparedIsWithin`), narrowing gives a value of the type and keeps one (`NarrowFits`, `FitsNarrow`), clamping gives an admitted value (`ClampAdmitted`), and an admitted value comes back and is accepted (`AdmittedParameter`, `AdmittedAccepted`) |
| `MapSession_proofs`, the markers | `TypeCorrect`, `IdsOrdered`, `OneOutlivesItsMap`, `EveryViewerSeesTheArray` | the ids in the thread's hands lie between the array's and the counter (`HandInv`); a pair of an old map in its hands is the only one (`StaleInv`); the counter is bounded by the detections (`CountInv`); each message kept covers every marker of the one before it, and the last one shows the array (`Chained`), so that nothing is lost with the messages that are dropped |
| `MapSession_proofs`, the manager | `ManagerTypeCorrect`, `OneAtATime`, `ExportsOwnMap`, `LeavesNoOrphan`, `StopsAnswered` | an instance that runs is the one in `_slam_proc`, and each wait fixes what was sent to it; the cached and the waiting map are the newest instance's unless one was late |
| `MapSession_proofs`, the composition | `SessionImplementsMarkers`, `SessionImplementsManager`, `SessionKeepsMarkers`, `SessionOneSlam`, `SessionExportsOwnMap`, `SessionLeavesNoOrphan`, `SessionStopsAnswered` | the two refinements, see below |
| `Bridges_proofs`, `MjpegBridge` | `TypeCorrect`, `NoLostWakeup`, `PictureNeverJumpsBack` | what a thread passes to `get()` is what it wrote last, and a notified thread has a newer frame to return |
| `Bridges_proofs`, `ServoBridge` | `OnlyStaleWriteDrops` | a reader that reads has the open port or the other thread dropped it, and a sender that is about to drop it failed on an earlier handle or the Mega is unplugged (`HandleInv`) |
| `Bridges_proofs`, `ImuUdpBridge` | `GapsCostOnePacket`, `DatagramsKeepPeriod` | an account of packets: while the parser is not in step with the stream (`InStep`), the packets it is about to miss are a `Debt`, and debt and missed packets are paid for by gaps and by data that look like a header (`Account`); the clock is ahead of the last datagram by the time that passed and the steps it was set by (`ClockInv`) |
| `LaserOdometry_proofs` | `AccountsForMotion`, `SpeedHasItsInterval`, `ReportsTurn` | a node without a pose has taken no scan (`Posed`), the old pose follows the pose (`Follows`); two yaws differ from two headings by whole circles (`YawOf`, `WrapOf`) |

There are two kinds of refinement. `BridgeRefinesMotorCommands`: every step of the
bridge is, on `log`, the executed speeds and the executed packet, a step of
`MotorCommands` or a stutter. `SessionImplementsMarkers` and
`SessionImplementsManager`: every step of `MapSession` is a step or a stutter of
each of the two nodes, so that what is proved of a node alone holds in the
composition: the markers' properties (`SessionKeepsMarkers`) and the manager's
(`SessionOneSlam` and its siblings, which use the theorems about the manager with
the map's number for the instances).

That something good happens is a question for TLC; that it is not undone, or not
lost on the way, is proved for the liveness properties where that is the delicate
half:

* `WatchdogStops`: a stop of the watchdog or of `stop()` decides the end of the
  queue if the receive thread has no packet in hand (`OwnStopDecides`), and while
  none is handled an empty queue means stopped tracks (`QuietEndsStopped`) which
  stay so (`QuietStaysStopped`). This is also how far `ShutdownStops` holds: the
  run `drive_shutdown` is the case of a packet in hand.
* `WantedStateReached`: the guard does not toggle back (`WantedStateKept`).
* `QuietShutdownEnds`: nobody sleeps when the destructor joins
  (`NobodySleepsThroughTheJoin`).
* `LoneSetApplied`: the values accepted last are somewhere on their way or executed
  (`AcceptedNeverLost`), and once executed stay so (`AppliedUntilNext`).

These are theorems of the form `Spec => [](P /\ []Q => []R)`, or `[]` of the part
that holds all the time; `P` is a state that the runs reach, and `Q` the premise of
the liveness property.

## 8. What is only model-checked, and what is not modelled

Every invariant and action property of a passing run is proved. Liveness under
fairness is outside the prover's reach and stays with TLC: `WatchdogStops`,
`WantedStateReached`, `CameraNeverStuck`, `QuietShutdownEnds`, `LoneSetApplied`,
`GuardFed`, `NewestDelivered`. What it takes besides the theorems above is
progress: that a thread that can go on does, which is what fairness says. The
theorems `NoLostWakeup` and `OnlyStaleWriteDrops` are the safety that
`NewestDelivered` and `GuardFed` rest on.

Abstractions inside the modelled components: floats are fixed-point numbers; the
JSON, binary and message encodings are their meaning; the T:3 feedback that
`UDP.py` forwards to the PC is left out (nothing reads it back); the ESP32's
adapter is unplugged once and for all; the camera node's configuration in the
constructor is left out; booleans, strings, sizes and points are left out of
`CameraControls` (points have comparisons of their own, by the distance from the
origin, `cam/clamp.cpp:201-219`, which could refuse a default in bounds; no control
that the repository sets or names is a point); the pixels of the exported
map, the CSV file of the QR node and the angles in the IMU's datagrams are written
and never read. The firmware of the ESP32 and the Mega, slam_toolbox, tf2, rclcpp,
libcamera and the YDLidar SDK are modelled only as the code uses them.

Not modelled:

* the numerics of scan matching (derivatives, weights, least squares, warping,
  filter of the solution): floating-point arithmetic, out of TLC's reach;
* an IMU that is unplugged, and a second signal to the SLAM manager while it waits:
  the code makes no promise to check;
* `dw9807-vcm.c` and `imx708.c`: Linux drivers that the repository carries along to
  build them as modules;
* launch files, device tree, tuning data and pixel-format tables: data without
  state.
