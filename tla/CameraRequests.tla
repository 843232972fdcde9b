---------------------------- MODULE CameraRequests ----------------------------
(***************************************************************************)
(* The request threads of CameraNode.cpp: every libcamera request has a    *)
(* thread of its own, which sleeps on a condition variable until the       *)
(* camera has filled the request, publishes the frame and queues the       *)
(* request again.                                                          *)
(*                                                                         *)
(*   Worker  process(): one thread per request                             *)
(*   Camera  libcamera's thread (external): fills the queued requests in   *)
(*           order and calls requestComplete() for each, one at a time     *)
(*   Main    the constructor's first queueing and the destructor           *)
(*                                                                         *)
(* The wait has no predicate: a notification counts only for a thread that *)
(* is already waiting.                                                     *)
(***************************************************************************)
EXTENDS Integers, Sequences

CONSTANTS
  N,            \* number of requests, one per frame buffer
  MaxSpurious,  \* bound: wakeups of a condition variable nobody notified
  MaxFails      \* bound: queueRequest() calls that fail

ASSUME RequestsAssumption ==
  N \in Nat \ {0} /\ MaxSpurious \in Nat /\ MaxFails \in Nat

Requests == 1 .. N

VARIABLES
  pc,          \* where the thread of each request is
  queue,       \* requests queued in the camera, in order
  delivering,  \* the request whose completion is being signalled; 0 is none
  connected,   \* requestComplete is connected to the camera's signal
  running,     \* CameraNode::running
  mainPc,      \* where the constructor or the destructor is
  next,        \* the next request it queues or notifies
  spurious,    \* spurious wakeups so far
  fails        \* failed calls of queueRequest() so far

mainVars == <<connected, running, mainPc, next>>
vars == <<pc, queue, delivering, mainVars, spurious, fails>>

InBody == {"woken", "publish", "requeue", "sync"}

(* Variant: the thread sleeps without giving the mutex up. *)
LockedWhileWaiting(r) == pc[r] \in InBody \cup {"waiting"}

(* request_mutexes[r] is held by the thread of r, from the return of wait()*)
(* to the end of the loop body.  The other holder, requestComplete(), is   *)
(* one step.                                                               *)
Locked(r) == pc[r] \in InBody

Queued(r) == \E i \in 1 .. Len(queue) : queue[i] = r

Goto(r, label) == pc' = [pc EXCEPT ![r] = label]

(* The threads run before the camera is started. *)
Init ==
  /\ pc = [r \in Requests |-> "top"]
  /\ queue = <<>> /\ delivering = 0
  /\ connected = TRUE /\ running = TRUE
  /\ mainPc = "queue" /\ next = 1
  /\ spurious = 0 /\ fails = 0

(* camera->queueRequest(): a failure is logged and the request left alone. *)
QueueRequest(r) ==
  \/ /\ queue' = Append(queue, r)
     /\ UNCHANGED fails
  \/ /\ fails < MaxFails
     /\ fails' = fails + 1
     /\ UNCHANGED queue

-----------------------------------------------------------------------------
(* The thread of a request.                                                *)

(* Takes the mutex and waits, which gives the mutex back. *)
Wait(r) ==
  /\ pc[r] = "top"
  /\ Goto(r, "waiting")
  /\ UNCHANGED <<queue, delivering, mainVars, spurious, fails>>

SpuriousWakeup(r) ==
  /\ pc[r] = "waiting" /\ spurious < MaxSpurious
  /\ Goto(r, "notified")
  /\ spurious' = spurious + 1
  /\ UNCHANGED <<queue, delivering, mainVars, fails>>

Wake(r) ==
  /\ pc[r] = "notified"
  /\ Goto(r, "woken")
  /\ UNCHANGED <<queue, delivering, mainVars, spurious, fails>>

CheckRunning(r) ==
  /\ pc[r] = "woken"
  /\ Goto(r, IF running THEN "publish" ELSE "exit")
  /\ UNCHANGED <<queue, delivering, mainVars, spurious, fails>>

(* Reads status, metadata and buffer of the request, publishes the image   *)
(* and the diagnostics.                                                    *)
Publish(r) ==
  /\ pc[r] = "publish"
  /\ Goto(r, "requeue")
  /\ UNCHANGED <<queue, delivering, mainVars, spurious, fails>>

(* reuse() and queueRequest(). *)
Requeue(r) ==
  /\ pc[r] = "requeue"
  /\ QueueRequest(r)
  /\ Goto(r, "sync")
  /\ UNCHANGED <<delivering, mainVars, spurious>>

(* Variant: the loop goes on to the next frame without waiting for it. *)
SyncWithoutWait(r) ==
  /\ pc[r] = "sync"
  /\ Goto(r, "publish")
  /\ UNCHANGED <<queue, delivering, mainVars, spurious, fails>>

(* sync_control_values() and the end of the loop body. *)
Sync(r) ==
  /\ pc[r] = "sync"
  /\ Goto(r, "top")
  /\ UNCHANGED <<queue, delivering, mainVars, spurious, fails>>

Worker(r) ==
  \/ Wait(r) \/ Wake(r) \/ CheckRunning(r)
  \/ Publish(r) \/ Requeue(r) \/ Sync(r)

-----------------------------------------------------------------------------
(* libcamera.                                                              *)

(* The oldest request is complete, or cancelled: both are signalled.       *)
Complete ==
  /\ queue # <<>> /\ delivering = 0
  /\ queue' = Tail(queue)
  /\ delivering' = IF connected THEN Head(queue) ELSE 0
  /\ UNCHANGED <<pc, mainVars, spurious, fails>>

(* requestComplete(): takes the mutex of the request and notifies one. *)
RequestComplete ==
  /\ delivering # 0 /\ ~Locked(delivering)
  /\ delivering' = 0
  /\ pc' = IF pc[delivering] = "waiting"
             THEN [pc EXCEPT ![delivering] = "notified"] ELSE pc
  /\ UNCHANGED <<queue, mainVars, spurious, fails>>

-----------------------------------------------------------------------------
(* The constructor's last loop and the destructor.                         *)

(* Variant: the loop runs once too often. *)
MainQueueTooFar ==
  /\ mainPc = "queue"
  /\ QueueRequest(next)
  /\ next' = next + 1
  /\ mainPc' = IF next > N THEN "spin" ELSE "queue"
  /\ UNCHANGED <<pc, delivering, connected, running, spurious>>

MainQueue ==
  /\ mainPc = "queue"
  /\ QueueRequest(next)
  /\ next' = IF next = N THEN 1 ELSE next + 1
  /\ mainPc' = IF next = N THEN "spin" ELSE "queue"
  /\ UNCHANGED <<pc, delivering, connected, running, spurious>>

(* The node is shut down: the destructor disconnects the callback. *)
Shutdown ==
  /\ mainPc = "spin"
  /\ connected' = FALSE
  /\ mainPc' = "halt"
  /\ UNCHANGED <<pc, queue, delivering, running, next, spurious, fails>>

MainHalt ==
  /\ mainPc = "halt"
  /\ running' = FALSE
  /\ mainPc' = "notify"
  /\ UNCHANGED <<pc, queue, delivering, connected, next, spurious, fails>>

(* Variant: the last condition variable is left out. *)
MainNotifyButLast ==
  /\ mainPc = "notify"
  /\ pc' = IF pc[next] = "waiting" /\ next < N THEN [pc EXCEPT ![next] = "notified"] ELSE pc
  /\ next' = IF next = N THEN 1 ELSE next + 1
  /\ mainPc' = IF next = N THEN "join" ELSE "notify"
  /\ UNCHANGED <<queue, delivering, connected, running, spurious, fails>>

(* notify_all(), without the mutex, on one condition variable after the    *)
(* other.                                                                  *)
MainNotify ==
  /\ mainPc = "notify"
  /\ pc' = IF pc[next] = "waiting" THEN [pc EXCEPT ![next] = "notified"] ELSE pc
  /\ next' = IF next = N THEN 1 ELSE next + 1
  /\ mainPc' = IF next = N THEN "join" ELSE "notify"
  /\ UNCHANGED <<queue, delivering, connected, running, spurious, fails>>

MainJoin ==
  /\ mainPc = "join"
  /\ \A r \in Requests : pc[r] = "exit"
  /\ mainPc' = "stop"
  /\ UNCHANGED <<pc, queue, delivering, connected, running, next, spurious, fails>>

(* camera->stop() waits for the camera's thread and cancels what is        *)
(* queued; buffers, camera and manager are released.                       *)
MainStop ==
  /\ mainPc = "stop" /\ delivering = 0
  /\ queue' = <<>>
  /\ mainPc' = "done"
  /\ UNCHANGED <<pc, delivering, connected, running, next, spurious, fails>>

Main == MainQueue \/ MainHalt \/ MainNotify \/ MainJoin \/ MainStop

-----------------------------------------------------------------------------
Next ==
  \/ \E r \in Requests : Worker(r) \/ SpuriousWakeup(r)
  \/ Complete \/ RequestComplete
  \/ Main \/ Shutdown

Spec == Init /\ [][Next]_vars

(* Threads are scheduled and the camera delivers frames; nothing makes a   *)
(* spurious wakeup or a shutdown happen.                                   *)
Fairness ==
  /\ \A r \in Requests : WF_vars(Worker(r))
  /\ WF_vars(Complete) /\ WF_vars(RequestComplete) /\ WF_vars(Main)

FairSpec == Spec /\ Fairness

-----------------------------------------------------------------------------
(* Properties.                                                             *)

(* Every variable holds a value of its type. *)
TypeOK ==
  /\ pc \in [Requests -> {"top", "waiting", "notified", "exit"} \cup InBody]
  /\ queue \in Seq(Requests)
  /\ delivering \in 0 .. N
  /\ connected \in BOOLEAN /\ running \in BOOLEAN
  /\ mainPc \in {"queue", "spin", "halt", "notify", "join", "stop", "done"}
  /\ next \in Requests
  /\ spurious \in 0 .. MaxSpurious /\ fails \in 0 .. MaxFails

Working(r) == pc[r] \in {"publish", "requeue"}

(* "block until request is available" (line 652): a thread reads the       *)
(* buffer and reuses the request only while the camera has not got it and  *)
(* is not signalling it, and the camera never has it twice, until a wakeup *)
(* is spurious (the wait has no predicate, line 654).                      *)
BufferExclusive ==
  spurious = 0 =>
    /\ \A r \in Requests : Working(r) => ~Queued(r) /\ delivering # r
    /\ \A i, j \in 1 .. Len(queue) : queue[i] = queue[j] => i = j

(* requestComplete() takes a mutex that a thread holds while it compresses *)
(* and publishes a frame, and the camera signals one request at a time:    *)
(* the camera's thread is nevertheless never blocked for good, also not    *)
(* during the shutdown.                                                    *)
CameraNeverStuck == delivering # 0 ~> delivering = 0

(* A shutdown that finds every thread asleep, or awake before its check of *)
(* running, ends.                                                          *)
QuietShutdownEnds ==
  (/\ mainPc = "notify" /\ next = 1
   /\ \A r \in Requests : pc[r] \in {"waiting", "notified", "woken", "exit"})
     ~> mainPc = "done"
=============================================================================
