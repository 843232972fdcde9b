------------------------------ MODULE QrMarkers ------------------------------
(***************************************************************************)
(* The node of qr_marker_node.py: every QR code the PC detects becomes a   *)
(* pair of markers at the robot's pose on the SLAM map.                    *)
(*                                                                         *)
(*   Rx    the UDP thread: looks the pose up, numbers the two markers,     *)
(*         appends them and publishes the whole array, adds a CSV row      *)
(*   Exec  the ROS executor: wipes the markers when a new map is started   *)
(*   Slam  slam_manager and slam_toolbox (external): start maps, announce  *)
(*         them on a topic that keeps one message, provide the transform   *)
(*                                                                         *)
(* The lock covers the append and the wipe, not the lookup of the pose and *)
(* the numbering.  The interpreter switches threads at calls, the setter   *)
(* of a message's id is one: an id is read and the counter incremented in  *)
(* two steps, the increment itself is one.  A map is known by its number,  *)
(* a pose by the map it is expressed in, a pair by its detection.          *)
(***************************************************************************)
EXTENDS Integers, Sequences

CONSTANTS
  Depth,          \* messages the publisher keeps for late subscribers
  MaxMaps,        \* bound: maps started
  MaxDetections   \* bound: detections

ASSUME QrAssumption == Depth \in Nat \ {0} /\ MaxMaps \in Nat /\ MaxDetections \in Nat

VARIABLES
  map,        \* the map slam_toolbox works on; 0 before the first
  signal,     \* a new-map message waits to be taken
  tf,         \* the map of the transforms in the buffer; 0 is none
  markers,    \* _markers, a pair at a time
  nextId,     \* _next_id
  pc,         \* where the rx thread is
  pose,       \* the map of the pose it looked up
  sphereId,   \* the id it gave the sphere
  textId,     \* the id it gave the text
  detected,   \* detections so far, the last one in the thread's hands
  published,  \* the last Depth messages on /qr_markers
  screen,     \* what a viewer shows that was there from the start
  raced,      \* history: the last wipe came between a numbering and its append
  lagging     \* history: at the last wipe the transforms were of another map

slamVars == <<map, signal, tf>>
rxVars   == <<pc, pose, sphereId, textId, detected>>
pubVars  == <<markers, published, screen>>
history  == <<raced, lagging>>
vars == <<slamVars, nextId, rxVars, pubVars, history>>

-----------------------------------------------------------------------------
(* What a viewer (external) makes of the messages: a marker replaces the   *)
(* one with the same namespace and id.                                     *)

ClearAll   == [clear |-> TRUE, pairs |-> <<>>]
Array(ms)  == [clear |-> FALSE, pairs |-> ms]

Spheres(ms) ==
  {<<"qr", ms[i].sphere, ms[i].n>> :
     i \in {k \in DOMAIN ms : \A j \in DOMAIN ms : j > k => ms[j].sphere # ms[k].sphere}}

Texts(ms) ==
  {<<"qr_text", ms[i].text, ms[i].n>> :
     i \in {k \in DOMAIN ms : \A j \in DOMAIN ms : j > k => ms[j].text # ms[k].text}}

New(msg) == IF msg.clear THEN {} ELSE Spheres(msg.pairs) \cup Texts(msg.pairs)

(* The message removes what is shown as e, or puts a marker in its place. *)
Covers(msg, e) == msg.clear \/ \E d \in New(msg) : d[1] = e[1] /\ d[2] = e[2]

Show(shown, msg) == New(msg) \cup {e \in shown : ~Covers(msg, e)}

(* A viewer that connects now is sent what the publisher keeps: it shows   *)
(* what a message brought and none after it covered.                       *)
Replay(messages) ==
  UNION {{e \in New(messages[i]) :
            \A k \in DOMAIN messages : k > i => ~Covers(messages[k], e)} :
           i \in DOMAIN messages}

Publish(msg) ==
  /\ published' = IF Len(published) < Depth THEN Append(published, msg)
                  ELSE Append(Tail(published), msg)
  /\ screen' = Show(screen, msg)

Init ==
  /\ map = 0 /\ signal = FALSE /\ tf = 0
  /\ markers = <<>> /\ nextId = 0 /\ published = <<>> /\ screen = {}
  /\ pc = "recv" /\ pose = 0 /\ sphereId = 0 /\ textId = 0 /\ detected = 0
  /\ raced = FALSE /\ lagging = FALSE

-----------------------------------------------------------------------------
(* Maps and transforms.                                                    *)

(* slam_manager starts slam_toolbox and publishes on /slam/new_map. *)
StartMap ==
  /\ map < MaxMaps
  /\ map' = map + 1
  /\ signal' = TRUE
  /\ UNCHANGED <<tf, nextId, rxVars, pubVars, history>>

(* The transforms of the map arrive; the buffer holds those of the map     *)
(* before until then, ...                                                  *)
Transform ==
  /\ map # 0 /\ tf # map
  /\ tf' = map
  /\ UNCHANGED <<map, signal, nextId, rxVars, pubVars, history>>

(* ... or until they are too old. *)
Expire ==
  /\ tf # 0
  /\ tf' = 0
  /\ UNCHANGED <<map, signal, nextId, rxVars, pubVars, history>>

-----------------------------------------------------------------------------
(* The executor: _on_new_map().                                            *)

Numbering == pc \in {"bump", "text", "bump2", "append"}

(* Variant: the array is not emptied. *)
NewMapKeepsArray ==
  /\ signal
  /\ signal' = FALSE
  /\ Publish(ClearAll)
  /\ nextId' = 0
  /\ raced' = Numbering
  /\ lagging' = (tf \notin {0, map})
  /\ UNCHANGED <<map, tf, rxVars, markers>>

NewMap ==
  /\ signal
  /\ signal' = FALSE
  /\ Publish(ClearAll)
  /\ markers' = <<>>
  /\ nextId' = 0
  /\ raced' = Numbering
  /\ lagging' = (tf \notin {0, map})
  /\ UNCHANGED <<map, tf, rxVars>>

-----------------------------------------------------------------------------
(* The rx thread: _on_qr().  Without a transform it skips the detection.   *)

Goto(label) == pc' = label

Lookup ==
  /\ pc = "recv" /\ detected < MaxDetections
  /\ tf # 0
  /\ pose' = tf
  /\ detected' = detected + 1
  /\ Goto("sphere")
  /\ UNCHANGED <<slamVars, nextId, sphereId, textId, pubVars, history>>

NumberSphere ==
  /\ pc = "sphere"
  /\ sphereId' = nextId
  /\ Goto("bump")
  /\ UNCHANGED <<slamVars, nextId, pose, textId, detected, pubVars, history>>

BumpSphere ==
  /\ pc = "bump"
  /\ nextId' = nextId + 1
  /\ Goto("text")
  /\ UNCHANGED <<slamVars, pose, sphereId, textId, detected, pubVars, history>>

NumberText ==
  /\ pc = "text"
  /\ textId' = nextId
  /\ Goto("bump2")
  /\ UNCHANGED <<slamVars, nextId, pose, sphereId, detected, pubVars, history>>

(* Variant: the counter is not incremented for the text. *)
BumpTextNot ==
  /\ pc = "bump2"
  /\ Goto("append")
  /\ UNCHANGED <<slamVars, nextId, pose, sphereId, textId, detected, pubVars, history>>

BumpText ==
  /\ pc = "bump2"
  /\ nextId' = nextId + 1
  /\ Goto("append")
  /\ UNCHANGED <<slamVars, pose, sphereId, textId, detected, pubVars, history>>

Pair == [n |-> detected, sphere |-> sphereId, text |-> textId, map |-> pose]

(* Variant: only the new pair is published. *)
AppendPublishesNew ==
  /\ pc = "append"
  /\ markers' = Append(markers, Pair)
  /\ Publish(Array(<<Pair>>))
  /\ Goto("csv")
  /\ UNCHANGED <<slamVars, nextId, pose, sphereId, textId, detected, history>>

AppendMarkers ==
  /\ pc = "append"
  /\ markers' = Append(markers, Pair)
  /\ Publish(Array(markers'))
  /\ Goto("csv")
  /\ UNCHANGED <<slamVars, nextId, pose, sphereId, textId, detected, history>>

(* A row is added to the file, which nothing reads, or an OSError is       *)
(* swallowed.                                                              *)
AppendCsv ==
  /\ pc = "csv"
  /\ Goto("recv")
  /\ UNCHANGED <<slamVars, nextId, pose, sphereId, textId, detected, pubVars, history>>

Rx ==
  \/ Lookup \/ NumberSphere \/ BumpSphere \/ NumberText \/ BumpText
  \/ AppendMarkers \/ AppendCsv

-----------------------------------------------------------------------------
Next == StartMap \/ Transform \/ Expire \/ NewMap \/ Rx

Spec == Init /\ [][Next]_vars

-----------------------------------------------------------------------------
(* Properties.                                                             *)

Pairs == [n : 1 .. MaxDetections, sphere : Nat, text : Nat, map : 1 .. MaxMaps]

Messages == [clear : BOOLEAN, pairs : Seq(Pairs)]

Entries == {"qr", "qr_text"} \X Nat \X (1 .. MaxDetections)

SlamTypeOK == map \in 0 .. MaxMaps /\ tf \in 0 .. MaxMaps

RxTypeOK ==
  /\ pc \in {"recv", "sphere", "bump", "text", "bump2", "append", "csv"}
  /\ detected \in 0 .. MaxDetections /\ nextId \in 0 .. 2 * detected
  /\ pose \in 0 .. MaxMaps /\ sphereId \in Nat /\ textId \in Nat

PubTypeOK ==
  /\ markers \in Seq(Pairs)
  /\ published \in Seq(Messages) /\ Len(published) <= Depth
  /\ \A e \in screen : e \in Entries

(* Every variable holds a value of its type: the counter runs at most two  *)
(* ahead per detection, and no more messages are kept than the depth.      *)
TypeOK ==
  /\ SlamTypeOK /\ RxTypeOK /\ PubTypeOK
  /\ signal \in BOOLEAN /\ raced \in BOOLEAN /\ lagging \in BOOLEAN

(* "unique, incrementing ids" (lines 27-28), the part that holds: the ids  *)
(* of the array increase, through any number of wipes, unless the last     *)
(* wipe came between the numbering of a pair and its append.               *)
IdsIncrease ==
  ~raced =>
    /\ \A i \in DOMAIN markers : markers[i].sphere < markers[i].text
    /\ \A i, j \in DOMAIN markers : i < j => markers[i].text < markers[j].sphere

(* While the ids were not raced, a viewer that was there from the start    *)
(* shows both markers of every pair of the array and nothing else.         *)
ArrayShown ==
  ~raced =>
    screen = UNION {{<<"qr", markers[i].sphere, markers[i].n>>,
                     <<"qr_text", markers[i].text, markers[i].n>>} : i \in DOMAIN markers}

(* "a client that connects later still receives every marker" (lines       *)
(* 26-27): however few messages the publisher keeps, a viewer that connects *)
(* now shows what one shows that was there from the start, and unless the  *)
(* ids were raced that is every marker of the array and nothing else.      *)
EveryMarkerShown == Replay(published) = screen /\ ArrayShown

(* "the old markers belong to the previous map's frame, so drop them"      *)
(* (lines 107-108), the part that holds: once the executor has taken the   *)
(* signal, at most one pair in the array lies on an earlier map, the one   *)
(* the rx thread was handling, unless the transforms lagged behind.        *)
AtMostOneStale ==
  ~signal /\ ~lagging =>
    \A i, j \in DOMAIN markers :
      markers[i].map # map /\ markers[j].map # map => i = j
=============================================================================
