----------------------------- MODULE ImuUdpBridge -----------------------------
(***************************************************************************)
(* imu_udp_bridge.py: sends what imu_node publishes to the PC, at most one *)
(* datagram in min_period of the system clock, which may be stepped.       *)
(***************************************************************************)
EXTENDS ImuNode

CONSTANTS
  MinPeriod,   \* min_period
  MaxClock,    \* bound: time
  MaxSteps     \* bound: times the clock is stepped

ASSUME BridgeAssumption == MinPeriod \in Nat /\ MaxClock \in Nat /\ MaxSteps \in Nat

VARIABLES
  clock,      \* the system clock
  lastSent,   \* _last_sent
  quiet,      \* history: the time since the last datagram
  stepped,    \* history: what the clock was stepped by since then
  steps       \* history: times it was stepped

bridgeVars == <<clock, lastSent, quiet, stepped, steps>>
streamVars == <<imuVars, bridgeVars>>

(* The clock has run for long when _last_sent is set to 0. *)
StreamInit ==
  /\ ImuInit
  /\ clock = MinPeriod /\ lastSent = 0
  /\ quiet = MinPeriod /\ stepped = 0 /\ steps = 0

Tick ==
  /\ clock < MaxClock
  /\ clock' = clock + 1
  /\ quiet' = quiet + 1
  /\ UNCHANGED <<imuVars, lastSent, stepped, steps>>

(* The clock is set, back or forth, by the time service. *)
StepClock ==
  /\ steps < MaxSteps
  /\ \E by \in {-1, 1} : clock' = clock + by /\ stepped' = stepped + by
  /\ steps' = steps + 1
  /\ UNCHANGED <<imuVars, lastSent, quiet>>

TooSoon == clock - lastSent < MinPeriod

Take == topic # <<>> /\ topic' = Tail(topic)

imuRest == <<packet, offset, parserVars, accel, gyro, intact, gaps, lookalikes, missed>>

(* _on_imu(): a message that comes too soon is dropped, ... *)
Drop ==
  /\ Take /\ TooSoon
  /\ UNCHANGED <<imuRest, bridgeVars>>

(* Variant: the periods are counted from the first datagram. *)
SendOnSchedule ==
  /\ Take /\ ~TooSoon
  /\ lastSent' = lastSent + MinPeriod
  /\ quiet' = 0 /\ stepped' = 0
  /\ UNCHANGED <<imuRest, clock, steps>>

(* ... any other is sent, or lost with an OSError. *)
Send ==
  /\ Take /\ ~TooSoon
  /\ lastSent' = clock
  /\ quiet' = 0 /\ stepped' = 0
  /\ UNCHANGED <<imuRest, clock, steps>>

StreamNext ==
  \/ ImuNext /\ UNCHANGED bridgeVars
  \/ Tick \/ StepClock \/ Drop \/ Send

StreamSpec == StreamInit /\ [][StreamNext]_streamVars

-----------------------------------------------------------------------------
(* Properties.                                                             *)

(* "Throttle so we don't flood the UI" (lines 80-81): whatever waited on   *)
(* the topic, datagrams are a period apart, and a message is dropped only  *)
(* within a period of a datagram, as long as the clock is not stepped; a   *)
(* step back silences the bridge by as much more.                          *)
RateLimit ==
  [][/\ Send => quiet + stepped >= MinPeriod
     /\ Drop => quiet + stepped < MinPeriod]_streamVars
=============================================================================
