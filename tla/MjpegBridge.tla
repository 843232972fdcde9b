----------------------------- MODULE MjpegBridge -----------------------------
(***************************************************************************)
(* mjpeg_bridge.py: the newest camera frame is kept in a FrameHub, and     *)
(* every HTTP client is served by a thread of its own, which waits in      *)
(* get() for a frame it has not sent yet.  A frame is known by its number; *)
(* frame 0 is None, there before the camera's first.                       *)
(***************************************************************************)
EXTENDS Integers

CONSTANTS
  Clients,    \* HTTP connections
  Slow,       \* the ones that may stop reading from their socket
  MaxFrames   \* bound: frames of the camera

ASSUME MjpegAssumption == Slow \subseteq Clients /\ MaxFrames \in Nat

VARIABLES
  seq,      \* the hub's seq and frame
  pc,       \* where each thread is
  asked,    \* what its client has asked for
  last,     \* the seq it passes to get()
  woken,    \* the waiting threads that were notified
  sent,     \* history: the last frame written to the client
  expired   \* history: the thread's last wait timed out

vars == <<seq, pc, asked, last, woken, sent, expired>>

Pages == {"stream", "snapshot"}

Init ==
  /\ seq = 0 /\ woken = {}
  /\ pc = [c \in Clients |-> "closed"]
  /\ asked = [c \in Clients |-> "stream"]
  /\ last = [c \in Clients |-> -1]
  /\ sent = [c \in Clients |-> 0]
  /\ expired = [c \in Clients |-> FALSE]

-----------------------------------------------------------------------------
(* The camera's topic. *)

Waiting == {c \in Clients : pc[c] = "wait"}

Publish ==
  /\ seq < MaxFrames
  /\ seq' = seq + 1
  /\ woken' = Waiting
  /\ UNCHANGED <<pc, asked, last, sent, expired>>

-----------------------------------------------------------------------------
(* A client's thread: do_GET(). *)

Connect(c, page) ==
  /\ pc[c] = "closed"
  /\ pc' = [pc EXCEPT ![c] = "get"]
  /\ asked' = [asked EXCEPT ![c] = page]
  /\ last' = [last EXCEPT ![c] = -1]
  /\ sent' = [sent EXCEPT ![c] = 0]
  /\ UNCHANGED <<seq, woken, expired>>

(* get() returns to the handler: without a frame the stream asks again and *)
(* the snapshot is answered 503.                                           *)
Return(c) ==
  /\ last' = [last EXCEPT ![c] = seq]
  /\ pc' = [pc EXCEPT ![c] = IF seq # 0 THEN "write"
                             ELSE IF asked[c] = "stream" THEN "get" ELSE "closed"]
  /\ UNCHANGED <<seq, asked, sent>>

(* Variant: the frame is written with the lock held. *)
GetLocked(c) ==
  /\ pc[c] = "get" /\ last[c] # seq /\ \A d \in Clients : pc[d] # "write"
  /\ expired' = [expired EXCEPT ![c] = FALSE]
  /\ Return(c)
  /\ UNCHANGED woken

(* get() holds the lock from the comparison to the wait, ... *)
Get(c) ==
  /\ pc[c] = "get" /\ last[c] # seq
  /\ expired' = [expired EXCEPT ![c] = FALSE]
  /\ Return(c)
  /\ UNCHANGED woken

(* Variant: the comparison is made outside the lock. *)
SleepLate(c) ==
  /\ pc[c] = "get" /\ last[c] \in {seq, seq - 1}
  /\ pc' = [pc EXCEPT ![c] = "wait"]
  /\ UNCHANGED <<seq, asked, last, woken, sent, expired>>

Sleep(c) ==
  /\ pc[c] = "get" /\ last[c] = seq
  /\ pc' = [pc EXCEPT ![c] = "wait"]
  /\ UNCHANGED <<seq, asked, last, woken, sent, expired>>

(* ... waits once, and returns what is there when it has the lock again.   *)
Wake(c) ==
  /\ pc[c] = "wait" /\ c \in woken
  /\ expired' = [expired EXCEPT ![c] = FALSE]
  /\ woken' = woken \ {c}
  /\ Return(c)

(* Variant: the wait may also end without a frame or a timeout. *)
TimeoutSpurious(c) ==
  /\ pc[c] = "wait"
  /\ expired' = [expired EXCEPT ![c] = FALSE]
  /\ woken' = woken \ {c}
  /\ Return(c)

Timeout(c) ==
  /\ pc[c] = "wait"
  /\ expired' = [expired EXCEPT ![c] = TRUE]
  /\ woken' = woken \ {c}
  /\ Return(c)

(* The frame that get() returned is written. *)
Write(c) ==
  /\ pc[c] = "write"
  /\ sent' = [sent EXCEPT ![c] = last[c]]
  /\ pc' = [pc EXCEPT ![c] = IF asked[c] = "stream" THEN "get" ELSE "closed"]
  /\ UNCHANGED <<seq, asked, last, woken, expired>>

(* The client has left: the write raises. *)
Broken(c) ==
  /\ pc[c] = "write"
  /\ pc' = [pc EXCEPT ![c] = "closed"]
  /\ UNCHANGED <<seq, asked, last, woken, sent, expired>>

Thread(c) == Get(c) \/ Sleep(c) \/ Wake(c) \/ Write(c)

Next ==
  \/ Publish
  \/ \E c \in Clients :
       (\E page \in Pages : Connect(c, page)) \/ Thread(c) \/ Timeout(c) \/ Broken(c)

(* The threads of the clients that read run.  No wait need time out. *)
Fairness == \A c \in Clients \ Slow : WF_vars(Thread(c))

Spec == Init /\ [][Next]_vars /\ Fairness

-----------------------------------------------------------------------------
(* Properties.                                                             *)

(* Every variable holds a value of its type. *)
TypeOK ==
  /\ seq \in 0 .. MaxFrames /\ woken \subseteq Clients
  /\ pc \in [Clients -> {"closed", "get", "wait", "write"}]
  /\ asked \in [Clients -> Pages]
  /\ last \in [Clients -> -1 .. MaxFrames]
  /\ sent \in [Clients -> 0 .. MaxFrames]
  /\ expired \in [Clients -> BOOLEAN]

(* No wakeup is lost between the comparison and the wait: a thread that    *)
(* sleeps and is not notified has seen the newest frame (lines 48-58).     *)
SleeperIsCurrent ==
  \A c \in Clients : pc[c] = "wait" /\ c \notin woken => last[c] = seq

(* A viewer never sees the picture jump back, and sees a frame twice only  *)
(* after a wait of five seconds without a new one.                         *)
NeverBack ==
  [][\A c \in Clients :
       pc[c] = "write" /\ pc'[c] = "get" =>
         sent'[c] > sent[c] \/ (sent'[c] = sent[c] /\ expired[c])]_vars

(* A client that reads is sent the frame that is there, or a newer one,    *)
(* whatever the other clients do and without any wait timing out.          *)
NewestDelivered ==
  \A c \in Clients \ Slow, n \in 1 .. MaxFrames :
    (pc[c] # "closed" /\ seq = n) ~> (sent[c] >= n \/ pc[c] = "closed")
=============================================================================
