------------------------ MODULE CameraRequests_proofs ------------------------
(***************************************************************************)
(* For every number of requests: until a wakeup is spurious, a request     *)
(* belongs either to its thread or to the camera.                          *)
(*                                                                         *)
(* BufferExclusive is not inductive: it has to be known that a thread that *)
(* was notified while the node runs was notified for a completion          *)
(* (HandedInv), that the request being signalled is no longer queued       *)
(* (DistinctInv), that the constructor queues every request once           *)
(* (FirstInv), and that the destructor's notifications come after running  *)
(* was cleared (RunInv).  The last section is about the shutdown: whom the *)
(* destructor's notifications leave asleep.                                *)
(***************************************************************************)
EXTENDS CameraRequests, TLAPS

Away(r) == ~Queued(r) /\ delivering # r

DistinctInv ==
  /\ \A i, j \in 1 .. Len(queue) : queue[i] = queue[j] => i = j
  /\ delivering # 0 => ~Queued(delivering)

HandedInv ==
  \A r \in Requests :
    Working(r) \/ (running /\ pc[r] \in {"notified", "woken"}) => Away(r)

FirstInv ==
  mainPc = "queue" =>
    \A r \in Requests : r >= next => Away(r) /\ pc[r] \in {"top", "waiting"}

RunInv == mainPc \in {"queue", "spin", "halt"} <=> running

OwnedInv == TypeOK /\ DistinctInv /\ HandedInv /\ FirstInv /\ RunInv

(* A spurious wakeup ends the ownership, not the types. *)
IInv == TypeOK /\ RunInv /\ (spurious = 0 => OwnedInv)

(* Queueing a request that is away keeps the queue free of duplicates and  *)
(* concerns no other request.                                              *)
LEMMA QueueOne ==
  ASSUME NEW r \in Requests, TypeOK, DistinctInv, Away(r),
         queue' = Append(queue, r), UNCHANGED delivering
  PROVE  /\ queue' \in Seq(Requests)
         /\ DistinctInv'
         /\ \A s \in Requests : s # r /\ Away(s) => Away(s)'
  <1> USE DEF TypeOK, Away, Queued
  <1>1. queue' \in Seq(Requests) /\ Len(queue') = Len(queue) + 1
    OBVIOUS
  <1>2. \A i \in 1 .. Len(queue) : queue'[i] = queue[i]
    OBVIOUS
  <1>3. queue'[Len(queue) + 1] = r
    OBVIOUS
  <1>4. \A i, j \in 1 .. Len(queue') : queue'[i] = queue'[j] => i = j
    BY <1>1, <1>2, <1>3 DEF DistinctInv
  <1>5. delivering' # 0 => ~Queued(delivering)'
    BY <1>1, <1>2, <1>3 DEF DistinctInv
  <1> QED BY <1>1, <1>2, <1>3, <1>4, <1>5 DEF DistinctInv

(* The head of the queue leaves it for good. *)
LEMMA TakeHead ==
  ASSUME TypeOK, DistinctInv, queue # <<>>, queue' = Tail(queue)
  PROVE  /\ queue' \in Seq(Requests)
         /\ Head(queue) \in Requests
         /\ Queued(Head(queue))
         /\ \A i \in 1 .. Len(queue') : queue'[i] # Head(queue)
         /\ \A i, j \in 1 .. Len(queue') : queue'[i] = queue'[j] => i = j
         /\ \A s \in Requests : ~Queued(s) => ~Queued(s)'
  <1> USE DEF TypeOK, Queued, DistinctInv
  <1>1. /\ queue' \in Seq(Requests)
        /\ Len(queue') = Len(queue) - 1
        /\ Len(queue) \in Nat \ {0}
    OBVIOUS
  <1>2. \A i \in 1 .. Len(queue') : queue'[i] = queue[i + 1]
    OBVIOUS
  <1>3. Head(queue) = queue[1] /\ queue[1] \in Requests
    OBVIOUS
  <1>4. \A i, j \in 1 .. Len(queue') : queue'[i] = queue'[j] => i = j
    <2> SUFFICES ASSUME NEW i \in 1 .. Len(queue'), NEW j \in 1 .. Len(queue'),
                        queue'[i] = queue'[j]
                 PROVE  i = j
      OBVIOUS
    <2>1. /\ i + 1 \in 1 .. Len(queue) /\ j + 1 \in 1 .. Len(queue)
          /\ queue[i + 1] = queue[j + 1]
      BY <1>1, <1>2
    <2> QED BY <1>1, <2>1
  <1>5. \A i \in 1 .. Len(queue') : queue'[i] # Head(queue)
    <2> SUFFICES ASSUME NEW i \in 1 .. Len(queue'), queue'[i] = queue[1]
                 PROVE  FALSE
      BY <1>3
    <2>1. i + 1 \in 1 .. Len(queue) /\ queue[i + 1] = queue[1]
      BY <1>1, <1>2
    <2> QED BY <1>1, <2>1
  <1>6. Queued(Head(queue))
    BY <1>1, <1>3
  <1>7. \A s \in Requests : ~Queued(s) => ~Queued(s)'
    BY <1>1, <1>2
  <1> QED BY <1>1, <1>3, <1>4, <1>5, <1>6, <1>7

LEMMA InitInv == Init => IInv
  BY RequestsAssumption
  DEF Init, IInv, OwnedInv, TypeOK, DistinctInv, HandedInv, FirstInv, RunInv, Away, Queued, Working,
      InBody, Requests

(* A step of a thread that leaves its request where it is. *)
LEMMA ThreadStep ==
  ASSUME NEW r \in Requests, OwnedInv,
         \/ Wait(r) \/ Wake(r) \/ CheckRunning(r)
         \/ Publish(r) \/ Sync(r)
  PROVE  OwnedInv'
  <1> USE RequestsAssumption
      DEF Goto, OwnedInv, TypeOK, InBody, mainVars, Requests
  <1>1. TypeOK' /\ RunInv' /\ UNCHANGED <<queue, delivering, mainVars>>
    BY SMTT(30) DEF Wait, Wake, CheckRunning, Publish, Sync, RunInv
  <1>2. DistinctInv' /\ \A s \in Requests : Away(s)' <=> Away(s)
    BY <1>1 DEF DistinctInv, Away, Queued
  <1>3. HandedInv'
    BY <1>1, <1>2 DEF HandedInv, Working,
       Wait, Wake, CheckRunning, Publish, Sync
  <1>4. FirstInv'
    BY <1>1, <1>2 DEF FirstInv, Wait, Wake, CheckRunning, Publish, Sync
  <1> QED BY <1>1, <1>2, <1>3, <1>4

LEMMA RequeueStep ==
  ASSUME NEW r \in Requests, OwnedInv, Requeue(r)
  PROVE  OwnedInv'
  <1> USE RequestsAssumption
      DEF Requeue, Goto, OwnedInv, TypeOK, InBody, mainVars, Requests
  <1>1. Away(r)
    BY DEF HandedInv, Working
  <1>2. /\ queue' \in Seq(Requests)
        /\ DistinctInv'
        /\ \A s \in Requests : s # r /\ Away(s) => Away(s)'
    <2>1. CASE queue' = Append(queue, r)
      BY <1>1, <2>1, QueueOne
    <2>2. CASE UNCHANGED queue
      BY <2>2 DEF DistinctInv, Away, Queued
    <2> QED BY <2>1, <2>2 DEF QueueRequest
  <1>3. TypeOK' /\ RunInv'
    BY <1>2 DEF RunInv, QueueRequest
  <1>4. HandedInv'
    BY <1>2 DEF HandedInv, Working
  <1>5. FirstInv'
    BY <1>2 DEF FirstInv
  <1> QED BY <1>2, <1>3, <1>4, <1>5

LEMMA CompleteStep ==
  ASSUME OwnedInv, Complete
  PROVE  OwnedInv'
  <1> USE RequestsAssumption DEF Complete, OwnedInv, mainVars
  <1>1. /\ queue' \in Seq(Requests)
        /\ Head(queue) \in Requests
        /\ Queued(Head(queue))
        /\ \A i \in 1 .. Len(queue') : queue'[i] # Head(queue)
        /\ \A i, j \in 1 .. Len(queue') : queue'[i] = queue'[j] => i = j
        /\ \A s \in Requests : ~Queued(s) => ~Queued(s)'
    BY TakeHead
  <1>2. TypeOK' /\ RunInv'
    BY <1>1 DEF TypeOK, RunInv, Requests
  <1>3. DistinctInv'
    BY <1>1 DEF DistinctInv, Queued
  <1>4. \A s \in Requests : Away(s) => Away(s)'
    BY <1>1 DEF Away, Requests
  <1>5. HandedInv' /\ FirstInv'
    BY <1>4 DEF HandedInv, FirstInv, Working, TypeOK
  <1> QED BY <1>2, <1>3, <1>5

LEMMA RequestCompleteStep ==
  ASSUME OwnedInv, RequestComplete
  PROVE  OwnedInv'
  <1> USE RequestsAssumption DEF RequestComplete, OwnedInv, mainVars
  <1>1. delivering \in Requests
    BY DEF TypeOK, Requests
  <1>2. TypeOK' /\ RunInv'
    BY <1>1 DEF TypeOK, RunInv, InBody
  <1>3. \A s \in Requests : Queued(s)' <=> Queued(s)
    BY DEF Queued
  <1>4. DistinctInv' /\ \A s \in Requests : s = delivering => Away(s)'
    BY <1>1, <1>3 DEF DistinctInv, Away, Requests
  <1>5. \A s \in Requests : Away(s) => Away(s)'
    BY <1>3 DEF Away, Requests
  <1>6. HandedInv'
    BY <1>1, <1>4, <1>5 DEF HandedInv, Working, TypeOK
  <1>7. FirstInv'
    <2>1. delivering < next \/ mainPc # "queue"
      BY <1>1 DEF FirstInv, Away, Requests, TypeOK
    <2> QED BY <1>1, <1>5, <2>1 DEF FirstInv, TypeOK, Requests
  <1> QED BY <1>2, <1>4, <1>6, <1>7

LEMMA MainQueueStep ==
  ASSUME OwnedInv, MainQueue
  PROVE  OwnedInv'
  <1> USE RequestsAssumption DEF MainQueue, OwnedInv, mainVars
  <1>1. next \in Requests /\ Away(next) /\ pc[next] \in {"top", "waiting"}
    BY DEF FirstInv, TypeOK, Requests
  <1>2. /\ queue' \in Seq(Requests)
        /\ DistinctInv'
        /\ \A s \in Requests : s # next /\ Away(s) => Away(s)'
    <2>1. CASE queue' = Append(queue, next)
      BY <1>1, <2>1, QueueOne
    <2>2. CASE UNCHANGED queue
      BY <2>2 DEF DistinctInv, Away, Queued, TypeOK
    <2> QED BY <2>1, <2>2 DEF QueueRequest
  <1>3. TypeOK' /\ RunInv'
    BY <1>1, <1>2 DEF TypeOK, RunInv, QueueRequest, Requests
  <1>4. HandedInv'
    BY <1>1, <1>2 DEF HandedInv, Working
  <1>5. FirstInv'
    BY <1>1, <1>2 DEF FirstInv, Requests
  <1> QED BY <1>2, <1>3, <1>4, <1>5

LEMMA OtherMainStep ==
  ASSUME OwnedInv, Shutdown \/ MainHalt \/ MainNotify \/ MainJoin \/ MainStop
  PROVE  OwnedInv'
  <1> USE RequestsAssumption DEF OwnedInv, mainVars
  <1>1. TypeOK' /\ RunInv'
    <2>1. pc' \in [Requests -> {"top", "waiting", "notified", "exit"} \cup InBody]
      BY DEF TypeOK, InBody, Shutdown, MainHalt, MainNotify, MainJoin, MainStop
    <2>2. queue' \in Seq(Requests)
      <3>1. <<>> \in Seq(Requests)
        OBVIOUS
      <3> QED BY <3>1 DEF TypeOK, Shutdown, MainHalt, MainNotify, MainJoin, MainStop
    <2>3. next' \in Requests
      BY DEF TypeOK, Requests, Shutdown, MainHalt, MainNotify, MainJoin, MainStop
    <2>4. /\ delivering' = delivering /\ spurious' = spurious /\ fails' = fails
          /\ connected' \in BOOLEAN /\ running' \in BOOLEAN
          /\ mainPc' \in {"halt", "notify", "join", "stop", "done"}
          /\ (mainPc' = "halt") <=> running'
      <3>1. CASE Shutdown
        BY <3>1 DEF TypeOK, RunInv, Shutdown
      <3>2. CASE MainHalt
        BY <3>2 DEF TypeOK, RunInv, MainHalt
      <3>3. CASE MainNotify
        BY <3>3 DEF TypeOK, RunInv, MainNotify
      <3>4. CASE MainJoin \/ MainStop
        BY <3>4 DEF TypeOK, RunInv, MainJoin, MainStop
      <3> QED BY <3>1, <3>2, <3>3, <3>4
    <2> QED BY <2>1, <2>2, <2>3, <2>4 DEF TypeOK, RunInv
  <1>2. DistinctInv' /\ \A s \in Requests : Away(s) => Away(s)'
    BY DEF DistinctInv, Away, Queued, TypeOK,
       Shutdown, MainHalt, MainNotify, MainJoin, MainStop
  <1>3. HandedInv'
    BY <1>2 DEF HandedInv, Working, RunInv, TypeOK,
       Shutdown, MainHalt, MainNotify, MainJoin, MainStop
  <1>4. FirstInv'
    BY DEF FirstInv, Shutdown, MainHalt, MainNotify, MainJoin, MainStop
  <1> QED BY <1>1, <1>2, <1>3, <1>4

LEMMA StutterStep ==
  ASSUME OwnedInv, UNCHANGED vars
  PROVE  OwnedInv'
  BY DEF OwnedInv, TypeOK, DistinctInv, HandedInv, FirstInv, RunInv, Away, Queued, Working,
     InBody, vars, mainVars

(* A spurious wakeup keeps the types. *)
LEMMA SpuriousStep ==
  ASSUME NEW r \in Requests, TypeOK, RunInv, SpuriousWakeup(r)
  PROVE  TypeOK' /\ RunInv' /\ spurious' # 0
  BY RequestsAssumption DEF SpuriousWakeup, Goto, TypeOK, RunInv, InBody, mainVars

(* So does every other step, whoever owns the requests. *)
LEMMA TypeStep ==
  ASSUME TypeOK, RunInv, [Next]_vars
  PROVE  TypeOK' /\ RunInv'
  <1> USE RequestsAssumption DEF TypeOK, RunInv, mainVars
  <1>1. ASSUME NEW r \in Requests, Worker(r) PROVE TypeOK' /\ RunInv'
    <2>1. CASE Requeue(r)
      <3>1. queue' \in Seq(Requests) /\ fails' \in 0 .. MaxFails
        BY <2>1, SMTT(30) DEF Requeue, QueueRequest
      <3> QED BY <2>1, <3>1 DEF Requeue, Goto, InBody
    <2>2. CASE Wait(r) \/ Wake(r) \/ CheckRunning(r) \/ Publish(r) \/ Sync(r)
      BY <2>2 DEF Wait, Wake, CheckRunning, Publish, Sync, Goto, InBody
    <2> QED BY <1>1, <2>1, <2>2 DEF Worker
  <1>2. CASE Complete
    <2>1. queue' \in Seq(Requests) /\ Head(queue) \in Requests
      BY <1>2 DEF Complete
    <2> QED BY <1>2, <2>1 DEF Complete, Requests
  <1>3. CASE RequestComplete
    BY <1>3 DEF RequestComplete, InBody, Requests
  <1>4. CASE MainQueue
    <2>1. queue' \in Seq(Requests) /\ fails' \in 0 .. MaxFails
      BY <1>4, SMTT(30) DEF MainQueue, QueueRequest
    <2>2. next' \in Requests /\ mainPc' \in {"queue", "spin"}
      BY <1>4 DEF MainQueue, Requests
    <2> QED BY <1>4, <2>1, <2>2 DEF MainQueue
  <1>5. CASE Shutdown
    BY <1>5 DEF Shutdown
  <1>6. CASE MainHalt
    BY <1>6 DEF MainHalt
  <1>7. CASE MainNotify
    BY <1>7 DEF MainNotify, Requests, InBody
  <1>8. CASE MainJoin
    BY <1>8 DEF MainJoin
  <1>9. CASE MainStop
    <2>1. queue' \in Seq(Requests)
      <3>1. <<>> \in Seq(Requests)
        OBVIOUS
      <3> QED BY <1>9, <3>1 DEF MainStop
    <2> QED BY <1>9, <2>1 DEF MainStop
  <1>10. ASSUME NEW r \in Requests, SpuriousWakeup(r) PROVE TypeOK' /\ RunInv'
    BY <1>10, SpuriousStep
  <1>11. CASE UNCHANGED vars
    BY <1>11 DEF vars
  <1> QED BY <1>1, <1>2, <1>3, <1>4, <1>5, <1>6, <1>7, <1>8, <1>9, <1>10, <1>11 DEF Next, Main

(* Without a spurious wakeup the owners stay who they are. *)
LEMMA OwnedStep ==
  ASSUME OwnedInv, [Next]_vars, \A r \in Requests : ~SpuriousWakeup(r)
  PROVE  OwnedInv'
  <1>1. ASSUME NEW r \in Requests, Worker(r) PROVE OwnedInv'
    BY <1>1, ThreadStep, RequeueStep DEF Worker
  <1>2. CASE Complete \/ RequestComplete
    BY <1>2, CompleteStep, RequestCompleteStep
  <1>3. CASE Main \/ Shutdown
    BY <1>3, MainQueueStep, OtherMainStep DEF Main
  <1>4. CASE UNCHANGED vars
    BY <1>4, StutterStep
  <1> QED BY <1>1, <1>2, <1>3, <1>4 DEF Next

(* Nothing takes a spurious wakeup back. *)
LEMMA SpuriousGrows ==
  ASSUME TypeOK, [Next]_vars, spurious' = 0
  PROVE  spurious = 0
  BY RequestsAssumption DEF TypeOK, Next, vars, mainVars, Worker, SpuriousWakeup, Wait, Wake,
     CheckRunning, Publish, Requeue, Sync, Complete, RequestComplete, Main, MainQueue,
     MainHalt, MainNotify, MainJoin, MainStop, Shutdown

(* The invariant is inductive. *)
LEMMA StepInv == IInv /\ [Next]_vars => IInv'
  <1> SUFFICES ASSUME IInv, [Next]_vars PROVE IInv'
    OBVIOUS
  <1>1. TypeOK' /\ RunInv'
    BY TypeStep DEF IInv
  <1>2. ASSUME spurious' = 0 PROVE OwnedInv'
    <2>1. OwnedInv /\ TypeOK /\ RunInv
      BY <1>2, SpuriousGrows DEF IInv
    <2>2. \A r \in Requests : ~SpuriousWakeup(r)
      BY <1>2, <2>1, SpuriousStep
    <2> QED BY <2>1, <2>2, OwnedStep
  <1> QED BY <1>1, <1>2 DEF IInv

(* Every variable keeps its type, for any number of requests and of        *)
(* spurious wakeups.                                                       *)
THEOREM TypeCorrect == Spec => []TypeOK
  <1>1. IInv => TypeOK
    BY DEF IInv
  <1> QED BY InitInv, StepInv, <1>1, PTL DEF Spec

(* With any number of requests, until a wakeup is spurious: a thread works *)
(* on a request only while the camera neither has nor signals it, and no   *)
(* request is queued twice.                                                *)
THEOREM RequestHasOneOwner == Spec => []BufferExclusive
  <1>1. IInv => BufferExclusive
    BY DEF IInv, OwnedInv, DistinctInv, HandedInv, BufferExclusive, Away, Working
  <1> QED BY InitInv, StepInv, <1>1, PTL DEF Spec
-----------------------------------------------------------------------------
(* The shutdown.                                                           *)

(* The premise of QuietShutdownEnds. *)
QuietStart ==
  /\ mainPc = "notify" /\ next = 1
  /\ \A r \in Requests : pc[r] \in {"waiting", "notified", "woken", "exit"}

(* The destructor has notified the thread of r. *)
Called(r) == mainPc = "notify" => r < next

(* No thread is in its body, and none that was called sleeps. *)
Leaving ==
  /\ ~running /\ mainPc \in {"notify", "join", "stop", "done"}
  /\ \A r \in Requests :
       \/ pc[r] \in {"notified", "woken", "exit"}
       \/ pc[r] = "waiting" /\ ~Called(r)

LEMMA LeavingStep ==
  ASSUME TypeOK, Leaving, [Next]_vars
  PROVE  Leaving'
  <1> USE RequestsAssumption DEF TypeOK, Leaving, Called, Requests, mainVars, InBody
  <1>1. ASSUME NEW r \in Requests, Worker(r) \/ SpuriousWakeup(r) PROVE Leaving'
    <2>1. pc[r] \in {"waiting", "notified", "woken", "exit"} /\ UNCHANGED mainVars
      BY <1>1 DEF Worker, Wait, Wake, CheckRunning, Publish, Requeue, Sync, SpuriousWakeup
    <2>2. pc' \in {[pc EXCEPT ![r] = "notified"], [pc EXCEPT ![r] = "woken"],
                   [pc EXCEPT ![r] = "exit"]}
      BY <1>1, <2>1 DEF Worker, Wait, Wake, CheckRunning, Publish, Requeue, Sync, SpuriousWakeup,
         Goto
    <2> QED BY <2>1, <2>2
  <1>2. CASE RequestComplete
    BY <1>2 DEF RequestComplete
  <1>3. CASE MainNotify
    BY <1>3 DEF MainNotify
  <1>4. CASE Complete \/ MainJoin \/ MainStop \/ UNCHANGED vars
    BY <1>4 DEF Complete, MainJoin, MainStop, vars
  <1>5. ~(MainQueue \/ MainHalt \/ Shutdown)
    BY DEF MainQueue, MainHalt, Shutdown
  <1> QED BY <1>1, <1>2, <1>3, <1>4, <1>5 DEF Next, Main

(* A shutdown that finds every thread asleep or before its check of        *)
(* running leaves none asleep: no thread returns to its wait, whatever     *)
(* frames are signalled and whoever wakes up spuriously, and when the      *)
(* destructor joins them each has been woken or is over (what              *)
(* QuietShutdownEnds promises, without the progress).                      *)
THEOREM NobodySleepsThroughTheJoin ==
  Spec => [](QuietStart =>
               [](mainPc # "notify" => \A r \in Requests : pc[r] \in {"notified", "woken", "exit"}))
  <1>1. IInv /\ QuietStart => Leaving
    BY DEF IInv, RunInv, QuietStart, Leaving, Called, Requests
  <1>2. IInv /\ Leaving /\ [Next]_vars => Leaving'
    BY LeavingStep DEF IInv
  <1>3. Leaving => (mainPc # "notify" => \A r \in Requests : pc[r] \in {"notified", "woken", "exit"})
    BY DEF Leaving, Called
  <1> QED BY InitInv, StepInv, <1>1, <1>2, <1>3, PTL DEF Spec
=============================================================================
