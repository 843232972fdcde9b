---------------------------- MODULE MotorCommands ----------------------------
(***************************************************************************)
(* What the drive bridge promises about motion, seen from the two ends of  *)
(* the cable: the PC issues packets, the motor controller executes one     *)
(* command at a time.  A command it executes is either one the PC really   *)
(* issued, later than every command executed before it, or a stop.  Packets *)
(* may be skipped (the newest wins); none is executed twice or out of      *)
(* order, and no command is invented.                                      *)
(***************************************************************************)
EXTENDS TrackMixer, Sequences

CONSTANT Packets

VARIABLES
  log,    \* the packets issued so far, in arrival order
  cmd,    \* the track speeds being executed
  seq     \* the index in log of the last command executed, 0 if none

vars == <<log, cmd, seq>>

Init == log = <<>> /\ cmd = Zero /\ seq = 0

Issue(pkt) == log' = Append(log, pkt) /\ UNCHANGED <<cmd, seq>>

Execute(n) ==
  /\ n > seq
  /\ log[n].kind = "motion" /\ log[n].twist # NonFinite
  /\ cmd' = TwistToLR(log[n].twist)
  /\ seq' = n
  /\ UNCHANGED log

Failsafe == cmd' = Zero /\ UNCHANGED <<log, seq>>

Next ==
  \/ \E pkt \in Packets : Issue(pkt)
  \/ \E n \in 1 .. Len(log) : Execute(n)
  \/ Failsafe

Spec == Init /\ [][Next]_vars
=============================================================================
