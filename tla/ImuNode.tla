------------------------------- MODULE ImuNode -------------------------------
(***************************************************************************)
(* imu_node.py: a thread cuts the sensor's byte stream into packets and    *)
(* publishes a message for every third kind of packet.                     *)
(*                                                                         *)
(* Packets are numbered.  A packet begins with the header byte, and its    *)
(* data may hold a byte that looks like one.  The serial line keeps the    *)
(* order of the bytes; it may lose some, and pause.  A checksum is taken   *)
(* to be right for the bytes of one packet from its header on only.        *)
(***************************************************************************)
EXTENDS Integers, Sequences

CONSTANTS
  PacketLen,      \* bytes of a packet: header, kind, data, checksum
  MaxPackets,     \* bound: packets of the sensor
  MaxGaps,        \* bound: bytes lost and pauses
  MaxLookalikes,  \* bound: data bytes equal to the header
  Depth           \* messages the topic keeps for its subscriber

ASSUME ImuAssumption == /\ PacketLen \in Nat \ {0, 1} /\ MaxPackets \in Nat
                        /\ MaxGaps \in Nat /\ MaxLookalikes \in Nat /\ Depth \in Nat \ {0}

VARIABLES
  packet, offset,   \* the sensor's next byte
  collected,        \* bytes of the packet being read; 0 is the hunt for a header
  whole,            \* they are one packet's, from its header on
  accel, gyro,      \* the packets that the cached values are from
  topic,            \* undelivered messages, a packet's number each
  intact,           \* history: every byte of the sensor's packet arrived so far
  gaps, lookalikes, missed   \* history: counts; intact packets not handled

parserVars == <<collected, whole>>
cacheVars  == <<accel, gyro, topic>>
imuVars == <<packet, offset, parserVars, cacheVars, intact, gaps, lookalikes, missed>>

(* The port is opened at any time. *)
ImuInit ==
  /\ packet = 1 /\ offset \in 0 .. PacketLen - 1
  /\ collected = 0 /\ whole = FALSE
  /\ accel = 0 /\ gyro = 0 /\ topic = <<>>
  /\ intact = (offset = 0) /\ gaps = 0 /\ lookalikes = 0 /\ missed = 0

-----------------------------------------------------------------------------
(* _handle() and _publish(): acceleration and rate are kept for the        *)
(* message that the angle makes.                                           *)

Kind(n) == <<"accel", "gyro", "angle">>[((n - 1) % 3) + 1]

Keep(queue, m) == IF Len(queue) < Depth THEN Append(queue, m) ELSE Append(Tail(queue), m)

Handle(n) ==
  /\ accel' = IF Kind(n) = "accel" THEN n ELSE accel
  /\ gyro' = IF Kind(n) = "gyro" THEN n ELSE gyro
  /\ topic' = IF Kind(n) = "angle" THEN Keep(topic, n) ELSE topic

(* _read_loop(): hunting, all but a header is skipped; then the bytes of a *)
(* packet's length are taken, and all thrown away if they are not one.     *)

Complete == collected = PacketLen - 1

(* Variant: bytes are taken a packet's length at a time. *)
NoHunt(header) ==
  /\ collected' = (collected + 1) % PacketLen
  /\ whole' = IF collected = 0 THEN offset = 0 ELSE whole

ReadByte(header) ==
  /\ collected' = IF collected = 0 THEN (IF header THEN 1 ELSE 0)
                  ELSE (collected + 1) % PacketLen
  /\ whole' = IF collected = 0 THEN offset = 0 ELSE whole

Handled == Complete /\ whole

-----------------------------------------------------------------------------
(* The sensor and the line (external).                                     *)

NextByte ==
  /\ packet <= MaxPackets
  /\ packet' = IF offset = PacketLen - 1 THEN packet + 1 ELSE packet
  /\ offset' = (offset + 1) % PacketLen

Arrive(header) ==
  /\ NextByte
  /\ IF offset = 0 THEN header ELSE header => offset > 1 /\ lookalikes < MaxLookalikes
  /\ lookalikes' = IF header /\ offset # 0 THEN lookalikes + 1 ELSE lookalikes
  /\ ReadByte(header)
  /\ IF Handled THEN Handle(packet) ELSE UNCHANGED cacheVars
  /\ intact' = (intact \/ offset = PacketLen - 1)
  /\ missed' = IF offset = PacketLen - 1 /\ intact /\ ~Handled THEN missed + 1 ELSE missed
  /\ UNCHANGED gaps

Lose ==
  /\ NextByte
  /\ gaps < MaxGaps /\ gaps' = gaps + 1
  /\ whole' = FALSE
  /\ intact' = (offset = PacketLen - 1)
  /\ UNCHANGED <<collected, cacheVars, lookalikes, missed>>

(* A read of more than a second, or one that raises, ends short. *)
Pause ==
  /\ gaps < MaxGaps /\ gaps' = gaps + 1
  /\ collected' = 0
  /\ UNCHANGED <<packet, offset, whole, cacheVars, intact, lookalikes, missed>>

ImuNext == (\E header \in BOOLEAN : Arrive(header)) \/ Lose \/ Pause

-----------------------------------------------------------------------------
(* Properties.                                                             *)

(* The reader finds its place again: a lost byte or a pause costs one      *)
(* intact packet at most, and each data byte that looks like a header one  *)
(* more, wherever in the stream the port was opened (lines 121-128, which  *)
(* throw a packet away as a whole).                                        *)
ResyncBound == missed <= gaps + lookalikes
=============================================================================
