------------------------- MODULE ArmHomeGuard_proofs -------------------------
(***************************************************************************)
(* Theorems about ArmHomeGuard: what the guard believes, sends and         *)
(* publishes about slam_toolbox although it never asks for the pause       *)
(* state, for any number of restarts, noticed or not, and of toggles by    *)
(* other clients, and that the state the arm asks for is kept once it is   *)
(* reached.                                                                *)
(***************************************************************************)
EXTENDS ArmHomeGuard, TLAPS

-----------------------------------------------------------------------------
(* The inductive invariant.                                                *)

(* At most one toggle is under way, and the guard knows of it.  It is on   *)
(* its way to, or answered by, a process that the guard has seen, unless   *)
(* that has ended since.                                                   *)
CallInv ==
  /\ call # "none" => inFlight
  /\ call \in {"request", "reply"} => known /\ wasReady

(* The client is matched with running processes only; a running one that   *)
(* may still get its predecessor's reply is unnoticed.                     *)
InstanceInv ==
  /\ known => slamUp
  /\ slamUp /\ call = "late" => unnoticed

(* What is known of the pause state at each stage of a toggle: a process   *)
(* that the guard has not seen, or not noticed to be new, has received no  *)
(* toggle from it.                                                         *)
KnowledgeInv ==
  slamUp /\ ~disturbed =>
    /\ ~wasReady \/ ~known \/ (unnoticed /\ call # "reply") => ~slamPaused
    /\ wasReady /\ ~inFlight /\ ~unnoticed => applied = StateOf(slamPaused)
    /\ call = "request" => slamPaused # asked \/ (unnoticed /\ ~asked)
    /\ call = "reply" => reply = slamPaused

(* What was published last is what the guard believes. *)
PublishedInv ==
  /\ lastActive = Active(wasReady, applied)
  /\ wasReady => applied # "unknown"

IInv == TypeOK /\ CallInv /\ InstanceInv /\ KnowledgeInv /\ PublishedInv

-----------------------------------------------------------------------------
LEMMA InitIInv == Init => IInv
<1> SUFFICES ASSUME Init PROVE IInv
  OBVIOUS
<1>1. /\ homeAge \in -1 .. Stable /\ sinceAway \in 0 .. Stable
      /\ starts \in 0 .. MaxRestarts /\ external \in 0 .. MaxExternal
  BY GuardAssumption DEF Init
<1>2. TypeOK
  BY <1>1 DEF Init, TypeOK
<1>3. CallInv /\ InstanceInv /\ KnowledgeInv /\ PublishedInv
  BY DEF Init, CallInv, InstanceInv, KnowledgeInv, PublishedInv, Active, StateOf
<1> QED BY <1>2, <1>3 DEF IInv

(* The rx thread and the clock touch nothing the guard believes. *)
LEMMA RxStep == IInv /\ (FrameAway \/ FrameHome \/ Tick) => IInv'
<1> SUFFICES ASSUME IInv, FrameAway \/ FrameHome \/ Tick PROVE IInv'
  OBVIOUS
<1>1. UNCHANGED <<guardVars, callVars, slamVars>>
  BY DEF FrameAway, FrameHome, Tick
<1>2. /\ desiredPaused' \in BOOLEAN /\ isHome' \in {"unknown", "home", "away"}
      /\ homeAge' \in -1 .. Stable /\ sinceAway' \in 0 .. Stable
  <2>1. CASE FrameAway
    BY <2>1, GuardAssumption DEF FrameAway
  <2>2. CASE FrameHome
    BY <2>2, GuardAssumption DEF FrameHome, IInv, TypeOK
  <2>3. CASE Tick
    BY <2>3, GuardAssumption DEF Tick, IInv, TypeOK
  <2> QED BY <2>1, <2>2, <2>3
<1>3. TypeOK'
  BY <1>1, <1>2 DEF IInv, TypeOK, guardVars, callVars, slamVars
<1>4. CallInv' /\ InstanceInv' /\ KnowledgeInv' /\ PublishedInv'
  BY <1>1 DEF IInv, CallInv, InstanceInv, KnowledgeInv, PublishedInv, StateOf, Active,
              guardVars, callVars, slamVars
<1> QED BY <1>3, <1>4 DEF IInv

LEMMA ReconcileStep == IInv /\ Reconcile => IInv'
<1> SUFFICES ASSUME IInv, Reconcile PROVE IInv'
  OBVIOUS
<1>1. TypeOK'
  BY DEF IInv, TypeOK, Reconcile, callVars, slamVars
<1>2. CallInv' /\ InstanceInv' /\ KnowledgeInv' /\ PublishedInv'
  BY DEF Reconcile, IInv, CallInv, InstanceInv, KnowledgeInv, PublishedInv, StateOf, Active,
         callVars, slamVars
<1> QED BY <1>1, <1>2 DEF IInv

LEMMA NotReadyStep == IInv /\ NotReady => IInv'
<1> SUFFICES ASSUME IInv, NotReady PROVE IInv'
  OBVIOUS
<1>1. /\ pc' = "spin" /\ wasReady' = FALSE /\ applied' = "unknown" /\ lastActive' = FALSE
      /\ ~known
      /\ unnoticed' = (unnoticed /\ call = "late")
      /\ UNCHANGED <<rxVars, goal, inFlight, callVars>>
      /\ UNCHANGED <<slamUp, slamPaused, known, stale, starts, external, disturbed>>
  BY DEF NotReady, Notice, svcReady
<1>2. TypeOK'
  <2>1. unnoticed' \in BOOLEAN
    BY <1>1
  <2> QED BY <1>1, <2>1, ZenonT(180) DEF IInv, TypeOK, rxVars, callVars
<1>3. CallInv' /\ InstanceInv' /\ KnowledgeInv' /\ PublishedInv'
  BY <1>1 DEF IInv, CallInv, InstanceInv, KnowledgeInv, PublishedInv, Active, StateOf, callVars
<1> QED BY <1>2, <1>3 DEF IInv

(* The belief with which a ready tick goes on, and what is known of it.    *)
LEMMA BeliefStep ==
  ASSUME IInv
  PROVE  /\ slamUp /\ ~disturbed /\ ~inFlight =>
              \/ Belief = StateOf(slamPaused)
              \/ unnoticed /\ wasReady /\ Belief = "paused" /\ ~slamPaused
         /\ Belief = IF wasReady THEN applied ELSE "running"
         /\ Belief \in {"paused", "running"}
<1>1. /\ Belief = IF wasReady THEN applied ELSE "running"
      /\ Belief \in {"paused", "running"}
  BY DEF IInv, TypeOK, PublishedInv, Belief
<1>2. ASSUME slamUp, ~disturbed, ~inFlight
      PROVE  \/ Belief = StateOf(slamPaused)
             \/ unnoticed /\ wasReady /\ Belief = "paused" /\ ~slamPaused
  BY <1>1, <1>2 DEF IInv, CallInv, KnowledgeInv, StateOf
<1> QED BY <1>1, <1>2

LEMMA HoldStep == IInv /\ Hold => IInv'
<1> SUFFICES ASSUME IInv, Hold PROVE IInv'
  OBVIOUS
<1>1. /\ wasReady' = TRUE /\ applied' = Belief
      /\ lastActive' = IF wasReady THEN lastActive ELSE TRUE
      /\ unnoticed' = (unnoticed /\ (wasReady \/ call = "late"))
      /\ UNCHANGED <<rxVars, goal, inFlight, callVars>> /\ pc' = "spin"
      /\ UNCHANGED <<slamUp, slamPaused, known, stale, starts, external, disturbed>>
  BY DEF Hold, Publish, Notice
<1>2. lastActive' = Active(TRUE, Belief) /\ applied' # "unknown"
  BY <1>1, BeliefStep DEF IInv, PublishedInv, Active
<1>3. TypeOK'
  <2>1. lastActive' \in BOOLEAN /\ unnoticed' \in BOOLEAN
    BY <1>1 DEF IInv, TypeOK
  <2>2. applied' \in {"unknown", "paused", "running"}
    BY <1>1, BeliefStep
  <2>3. wasReady' \in BOOLEAN
    BY <1>1
  <2> QED BY <1>1, <2>1, <2>2, <2>3, ZenonT(180) DEF IInv, TypeOK, rxVars, callVars
<1>4. CallInv' /\ InstanceInv'
  BY <1>1 DEF IInv, CallInv, InstanceInv, callVars
<1>5. KnowledgeInv'
  BY <1>1, BeliefStep DEF IInv, CallInv, KnowledgeInv, StateOf, callVars
<1>6. PublishedInv'
  BY <1>1, <1>2 DEF PublishedInv, Active
<1> QED BY <1>3, <1>4, <1>5, <1>6 DEF IInv

LEMMA SendToggleStep == IInv /\ SendToggle => IInv'
<1> SUFFICES ASSUME IInv, SendToggle PROVE IInv'
  OBVIOUS
<1>1. /\ wasReady' = TRUE /\ applied' = Belief
      /\ lastActive' = IF wasReady THEN lastActive ELSE TRUE
      /\ ~inFlight /\ Belief # StateOf(goal)
      /\ unnoticed' = (unnoticed /\ (wasReady \/ call = "late"))
      /\ inFlight' = TRUE /\ call' = (IF known THEN "request" ELSE "none") /\ asked' = goal
      /\ UNCHANGED <<rxVars, goal, reply>> /\ pc' = "spin"
      /\ UNCHANGED <<slamUp, slamPaused, known, stale, starts, external, disturbed>>
  BY DEF SendToggle, Publish, Notice
<1>2. lastActive' = Active(TRUE, Belief) /\ applied' # "unknown"
  BY <1>1, BeliefStep DEF IInv, PublishedInv, Active
<1>3. TypeOK'
  <2>1. lastActive' \in BOOLEAN /\ unnoticed' \in BOOLEAN
    BY <1>1 DEF IInv, TypeOK
  <2>2. applied' \in {"unknown", "paused", "running"}
    BY <1>1, BeliefStep
  <2>3. call' \in {"none", "request", "reply", "late"}
    BY <1>1
  <2> QED BY <1>1, <2>1, <2>2, <2>3, ZenonT(180) DEF IInv, TypeOK, rxVars
<1>4. call = "none"
  BY <1>1 DEF IInv, CallInv, TypeOK
<1>5. CallInv' /\ InstanceInv'
  BY <1>1, <1>4 DEF IInv, CallInv, InstanceInv
<1>6. KnowledgeInv'
  <2>1. slamUp /\ ~disturbed => slamPaused # goal \/ (unnoticed /\ wasReady /\ ~goal)
    BY <1>1, BeliefStep DEF IInv, TypeOK, StateOf
  <2> QED BY <1>1, <1>4, <2>1 DEF IInv, KnowledgeInv
<1>7. PublishedInv'
  BY <1>1, <1>2 DEF PublishedInv, Active
<1> QED BY <1>3, <1>5, <1>6, <1>7 DEF IInv

LEMMA DoneStep == IInv /\ Done => IInv'
<1> SUFFICES ASSUME IInv, Done PROVE IInv'
  OBVIOUS
<1>1. /\ call' = "none" /\ inFlight' = FALSE /\ call \in {"reply", "late"}
      /\ applied' = StateOf(reply) /\ lastActive' = Active(wasReady, applied')
      /\ unnoticed' = (unnoticed /\ call = "late")
      /\ UNCHANGED <<rxVars, pc, goal, wasReady, asked, reply, slamUp, slamPaused, known, stale,
                     starts, external, disturbed>>
  BY DEF Done, Answered
<1>2. TypeOK'
  <2>1. /\ applied' \in {"unknown", "paused", "running"}
        /\ lastActive' \in BOOLEAN /\ unnoticed' \in BOOLEAN
    BY <1>1 DEF StateOf, Active, IInv, TypeOK
  <2> QED BY <1>1, <2>1, ZenonT(180) DEF IInv, TypeOK, rxVars
<1>3. CallInv' /\ InstanceInv' /\ PublishedInv'
  BY <1>1 DEF IInv, CallInv, InstanceInv, PublishedInv, Active, StateOf
<1>4. KnowledgeInv'
  <2>1. slamUp /\ call = "late" => unnoticed'
    BY <1>1 DEF IInv, InstanceInv
  <2>2. slamUp /\ call = "reply" => ~unnoticed' /\ known /\ wasReady
    BY <1>1 DEF IInv, CallInv
  <2>3. slamUp /\ ~disturbed /\ (~wasReady \/ ~known \/ unnoticed') => ~slamPaused
    BY <1>1, <2>1, <2>2 DEF IInv, KnowledgeInv
  <2>4. slamUp /\ ~disturbed /\ ~unnoticed' => reply = slamPaused
    BY <1>1, <2>1, <2>2 DEF IInv, KnowledgeInv
  <2> QED BY <1>1, <2>3, <2>4 DEF KnowledgeInv, StateOf
<1> QED BY <1>2, <1>3, <1>4 DEF IInv

LEMMA DoneFailedStep == IInv /\ DoneFailed => IInv'
<1> SUFFICES ASSUME IInv, DoneFailed PROVE IInv'
  OBVIOUS
<1>1. /\ call' = "none" /\ inFlight' = FALSE /\ disturbed' = TRUE
      /\ UNCHANGED <<rxVars, pc, goal, applied, wasReady, lastActive, asked, reply, slamUp,
                     slamPaused, known, stale, starts, external, unnoticed>>
  BY DEF DoneFailed, Answered
<1>2. TypeOK'
  <2>1. UNCHANGED <<desiredPaused, isHome, homeAge, sinceAway>>
    BY <1>1 DEF rxVars
  <2>2. /\ call' \in {"none", "request", "reply", "late"}
        /\ inFlight' \in BOOLEAN /\ disturbed' \in BOOLEAN
    BY <1>1
  <2> QED BY <1>1, <2>1, <2>2, SMTT(30) DEF IInv, TypeOK
<1>3. CallInv' /\ InstanceInv' /\ KnowledgeInv' /\ PublishedInv'
  BY <1>1 DEF IInv, CallInv, InstanceInv, KnowledgeInv, PublishedInv, Active
<1> QED BY <1>2, <1>3 DEF IInv

(* slam_toolbox and the middleware. *)
LEMMA SlamStep ==
  IInv /\ (SlamStart \/ SlamStop \/ Discover \/ Withdraw \/ Serve \/ Lose \/ ExternalToggle)
    => IInv'
<1> SUFFICES ASSUME IInv,
                    \/ SlamStart \/ SlamStop \/ Discover \/ Withdraw
                    \/ Serve \/ Lose \/ ExternalToggle
             PROVE  IInv'
  OBVIOUS
<1>1. UNCHANGED <<rxVars, guardVars, asked>>
  BY DEF SlamStart, SlamStop, Discover, Withdraw, Serve, Lose, ExternalToggle, callVars
<1>2. TypeOK'
  <2>1. starts' \in 0 .. MaxRestarts /\ external' \in 0 .. MaxExternal
    BY GuardAssumption
       DEF IInv, TypeOK, SlamStart, SlamStop, Discover, Withdraw, Serve, Lose, ExternalToggle,
           slamVars
  <2>2. /\ slamUp' \in BOOLEAN /\ slamPaused' \in BOOLEAN /\ known' \in BOOLEAN
        /\ stale' \in BOOLEAN /\ disturbed' \in BOOLEAN /\ unnoticed' \in BOOLEAN
        /\ reply' \in BOOLEAN /\ call' \in {"none", "request", "reply", "late"}
    BY DEF IInv, TypeOK, SlamStart, SlamStop, Discover, Withdraw, Serve, Lose, ExternalToggle,
           slamVars, callVars
  <2> QED BY <1>1, <2>1, <2>2 DEF IInv, TypeOK, rxVars, guardVars
<1>3. PublishedInv'
  BY <1>1 DEF IInv, PublishedInv, Active, guardVars
<1>4. CallInv' /\ InstanceInv' /\ KnowledgeInv'
  <2>1. CASE SlamStart
    <3>1. /\ ~slamUp /\ slamUp' = TRUE /\ slamPaused' = FALSE
          /\ unnoticed' = (wasReady \/ call = "late")
          /\ UNCHANGED <<guardVars, callVars, known>>
      BY <2>1 DEF SlamStart
    <3>2. ~known /\ call \notin {"request", "reply"}
      BY <3>1 DEF IInv, CallInv, InstanceInv
    <3>3. wasReady => unnoticed'
      BY <3>1
    <3> QED BY <3>1, <3>2, <3>3
            DEF IInv, TypeOK, CallInv, InstanceInv, KnowledgeInv, StateOf, guardVars, callVars
  <2>2. CASE SlamStop
    <3>1. /\ slamUp' = FALSE /\ known' = FALSE /\ UNCHANGED guardVars
          /\ call' \in {"none", "late", call} /\ call' \notin {"request", "reply"}
      BY <2>2 DEF SlamStop, IInv, TypeOK
    <3>2. call' # "none" => call # "none"
      BY <2>2 DEF SlamStop, IInv, TypeOK
    <3> QED BY <3>1, <3>2 DEF IInv, CallInv, InstanceInv, KnowledgeInv, guardVars
  <2>3. CASE Discover
    BY <2>3 DEF Discover, IInv, CallInv, InstanceInv, KnowledgeInv, StateOf, guardVars, callVars
  <2>4. CASE Withdraw \/ Lose
    <3>1. /\ UNCHANGED <<guardVars, slamUp, slamPaused, known, disturbed, unnoticed>>
          /\ UNCHANGED callVars \/ (call = "late" /\ call' = "none")
      BY <2>4 DEF Withdraw, Lose, slamVars
    <3> QED BY <3>1 DEF IInv, CallInv, InstanceInv, KnowledgeInv, StateOf, guardVars, callVars
  <2>5. CASE Serve
    <3>1. /\ call = "request" /\ call' = "reply" /\ reply' = slamPaused'
          /\ UNCHANGED <<guardVars, slamUp, known, unnoticed>>
      BY <2>5 DEF Serve
    <3>2. inFlight /\ known /\ wasReady
      BY <3>1 DEF IInv, CallInv
    <3> QED BY <3>1, <3>2 DEF IInv, CallInv, InstanceInv, KnowledgeInv, guardVars
  <2>6. CASE ExternalToggle
    BY <2>6 DEF ExternalToggle, IInv, CallInv, InstanceInv, KnowledgeInv, guardVars, callVars
  <2> QED BY <2>1, <2>2, <2>3, <2>4, <2>5, <2>6
<1> QED BY <1>2, <1>3, <1>4 DEF IInv

LEMMA NextIInv == IInv /\ [Next]_vars => IInv'
<1> SUFFICES ASSUME IInv, [Next]_vars PROVE IInv'
  OBVIOUS
<1>1. CASE FrameAway \/ FrameHome \/ Tick
  BY <1>1, RxStep
<1>2. CASE Exec \/ Done \/ DoneFailed
  BY <1>2, ReconcileStep, NotReadyStep, HoldStep, SendToggleStep, DoneStep, DoneFailedStep
     DEF Exec
<1>3. CASE \/ SlamStart \/ SlamStop \/ Discover \/ Withdraw
           \/ Serve \/ Lose \/ ExternalToggle
  BY <1>3, SlamStep
<1>4. CASE UNCHANGED vars
  BY <1>4 DEF IInv, TypeOK, CallInv, InstanceInv, KnowledgeInv, PublishedInv, Active, StateOf,
              vars, rxVars, guardVars, callVars, slamVars
<1> QED BY <1>1, <1>2, <1>3, <1>4 DEF Next

LEMMA Inductive == Spec => []IInv
<1>1. Init => IInv
  BY InitIInv
<1>2. IInv /\ [Next]_vars => IInv'
  BY NextIInv
<1> QED BY <1>1, <1>2, PTL DEF Spec

(* The variables keep their types. *)
THEOREM TypeCorrect == Spec => []TypeOK
<1>1. IInv => TypeOK
  BY DEF IInv
<1> QED BY <1>1, Inductive, PTL

(* The guard never asks slam_toolbox for its pause state, and yet knows it *)
(* while no toggle is under way and nobody else toggled since the last     *)
(* restart or reply (_applied, lines 87, 215, 226 and 246), wherever the   *)
(* process ends and starts; only of one that replaced a paused one         *)
(* unnoticed does it believe, wrongly, that it is paused.                  *)
THEOREM GuardKnowsPauseState == Spec => []BeliefCorrect
<1>1. IInv => BeliefCorrect
  <2> SUFFICES ASSUME IInv, ~disturbed, slamUp, wasReady, ~inFlight
               PROVE  \/ applied = StateOf(slamPaused)
                      \/ unnoticed /\ applied = "paused" /\ ~slamPaused
    BY DEF BeliefCorrect
  <2> QED BY BeliefStep
<1> QED BY <1>1, Inductive, PTL

(* A toggle lands on the state it was sent for, unless it was sent to      *)
(* resume a process that replaced a paused one unnoticed; one that is to   *)
(* pause slam_toolbox always does, whatever restarts the guard missed.     *)
THEOREM TogglesHitTheirGoal == Spec => []ToggleLandsOnGoal
<1>1. IInv => ToggleLandsOnGoal
  <2> SUFFICES ASSUME IInv, ~disturbed, call = "request"
               PROVE  \/ slamPaused # asked
                      \/ unnoticed /\ ~asked /\ ~slamPaused
    BY DEF ToggleLandsOnGoal
  <2>1. slamUp
    BY DEF IInv, CallInv, InstanceInv
  <2> QED BY <2>1 DEF IInv, KnowledgeInv
<1> QED BY <1>1, Inductive, PTL

(* /slam/active never says that a paused slam_toolbox maps, and says that  *)
(* a mapping one does not only after an unnoticed restart.                 *)
THEOREM ActiveTellsTruth == Spec => []ActiveHonest
<1>1. IInv => ActiveHonest
  <2> SUFFICES ASSUME IInv, ~disturbed, slamUp, wasReady, ~inFlight
               PROVE  /\ lastActive => ~slamPaused
                      /\ ~slamPaused => lastActive \/ unnoticed
    BY DEF ActiveHonest
  <2>1. lastActive <=> applied = "running"
    BY DEF IInv, PublishedInv, Active
  <2>2. \/ applied = StateOf(slamPaused)
        \/ unnoticed /\ applied = "paused" /\ ~slamPaused
    BY BeliefStep
  <2> QED BY <2>1, <2>2 DEF StateOf
<1> QED BY <1>1, Inductive, PTL

-----------------------------------------------------------------------------
(* The wish to pause.                                                      *)

(* The arm has been home, as the guard counts it, for no longer than the   *)
(* last frame that showed it away is old.                                  *)
AgeInv == homeAge <= sinceAway

LEMMA InitAge == Init => AgeInv
BY GuardAssumption DEF Init, AgeInv

LEMMA NextAge == TypeOK /\ AgeInv /\ [Next]_vars => AgeInv'
<1> SUFFICES ASSUME TypeOK, AgeInv, [Next]_vars PROVE AgeInv'
  OBVIOUS
<1>1. CASE FrameAway
  BY <1>1 DEF FrameAway, AgeInv
<1>2. CASE FrameHome
  BY <1>2 DEF FrameHome, AgeInv, TypeOK
<1>3. CASE Tick
  BY <1>3, GuardAssumption DEF Tick, AgeInv, TypeOK
<1>4. CASE UNCHANGED <<homeAge, sinceAway>>
  BY <1>4 DEF AgeInv
<1> QED BY <1>1, <1>2, <1>3, <1>4
        DEF Next, Exec, Reconcile, NotReady, Hold, SendToggle, Done, DoneFailed, Answered, SlamStart,
            SlamStop, Discover, Withdraw, Serve, Lose, ExternalToggle, vars, rxVars

(* The two places that give the wish up look at that age. *)
LEMMA ResumeStep ==
  TypeOK /\ AgeInv /\ [Next]_vars => (desiredPaused /\ ~desiredPaused' => sinceAway >= Stable)
<1> SUFFICES ASSUME TypeOK, AgeInv, [Next]_vars, desiredPaused, ~desiredPaused'
             PROVE  sinceAway >= Stable
  OBVIOUS
<1>1. CASE FrameHome
  <2>1. ~(homeAge' < Stable)
    BY <1>1, Zenon DEF FrameHome
  <2>2. homeAge \in -1 .. Stable /\ sinceAway \in 0 .. Stable
    BY DEF TypeOK
  <2>3. homeAge' = IF homeAge = -1 THEN 0 ELSE homeAge
    BY <1>1 DEF FrameHome
  <2> QED BY <2>1, <2>2, <2>3, GuardAssumption DEF AgeInv
<1>2. CASE Reconcile
  <2>1. Settled
    BY <1>2, Zenon DEF Reconcile
  <2>2. homeAge \in -1 .. Stable /\ sinceAway \in 0 .. Stable
    BY DEF TypeOK
  <2> QED BY <2>1, <2>2, GuardAssumption DEF Settled, AgeInv
<1>3. CASE FrameAway \/ UNCHANGED desiredPaused
  BY <1>3 DEF FrameAway
<1> QED BY <1>1, <1>2, <1>3
        DEF Next, Tick, Exec, NotReady, Hold, SendToggle, Done, DoneFailed, Answered, SlamStart,
            SlamStop, Discover, Withdraw, Serve, Lose, ExternalToggle, vars, rxVars

(* However the timer and the frames interleave, and however often the arm  *)
(* leaves home and returns, the guard resumes only when the arm has not    *)
(* been seen away for resume_stable_sec.                                   *)
THEOREM ResumesOnlySettled == Spec => ResumeOnlyAfterSettled
<1>1. Spec => []AgeInv
  BY InitAge, NextAge, TypeCorrect, PTL DEF Spec
<1> QED BY <1>1, ResumeStep, TypeCorrect, PTL DEF Spec, ResumeOnlyAfterSettled
-----------------------------------------------------------------------------
(* The wish that is reached.                                               *)

(* ArmRests, at one moment, without regard to lost calls. *)
Rests(arm) == ~disturbed /\ slamUp /\ isHome = arm

(* slam_toolbox is as the arm asks for, and the guard has seen it, the     *)
(* process that runs and not its predecessor, wishes nothing else and has  *)
(* no toggle under way.                                                    *)
Agrees(arm) ==
  /\ wasReady /\ known /\ ~unnoticed /\ ~inFlight
  /\ slamPaused <=> arm = "away"
  /\ desiredPaused <=> arm = "away"
  /\ pc = "drive" => (goal <=> arm = "away")

LEMMA AgreesStep ==
  ASSUME NEW arm \in {"away", "home"}, IInv, Agrees(arm), Rests(arm), [Next]_vars, Rests(arm)'
  PROVE  Agrees(arm)'
<1>1. /\ call = "none" /\ svcReady
      /\ applied = StateOf(arm = "away")
  BY DEF Agrees, Rests, IInv, TypeOK, CallInv, KnowledgeInv, StateOf, svcReady
<1> USE DEF Agrees, Rests
<1>2. CASE FrameAway \/ FrameHome \/ Tick
  <2>1. UNCHANGED <<guardVars, slamVars>>
    BY <1>2 DEF FrameAway, FrameHome, Tick
  <2>2. desiredPaused' <=> arm = "away"
    <3>1. CASE FrameAway
      BY <3>1 DEF FrameAway
    <3>2. CASE FrameHome
      BY <3>2, Zenon DEF FrameHome
    <3>3. CASE Tick
      BY <3>3, Zenon DEF Tick
    <3> QED BY <1>2, <3>1, <3>2, <3>3
  <2> QED BY <2>1, <2>2, Zenon DEF guardVars, slamVars
<1>3. CASE Reconcile
  <2>1. /\ goal' = desiredPaused' /\ desiredPaused' = (desiredPaused /\ ~Settled)
        /\ UNCHANGED <<inFlight, wasReady, slamVars>>
    BY <1>3 DEF Reconcile
  <2>2. desiredPaused' <=> arm = "away"
    BY <2>1 DEF Settled
  <2> QED BY <2>1, <2>2, Zenon DEF slamVars
<1>4. CASE Hold
  <2>1. /\ pc' = "spin" /\ wasReady' = TRUE /\ ~unnoticed'
        /\ UNCHANGED <<desiredPaused, inFlight, slamPaused, known>>
    BY <1>4 DEF Hold, Notice, rxVars
  <2> QED BY <2>1, Zenon
<1>5. ~SendToggle
  BY <1>1 DEF SendToggle, Belief, StateOf
<1>6. ~(Done \/ DoneFailed \/ Serve \/ Lose \/ SlamStart \/ SlamStop \/ ExternalToggle)
  BY <1>1 DEF Done, DoneFailed, Answered, Serve, Lose, SlamStart, SlamStop, ExternalToggle
<1>7. ~NotReady
  BY <1>1 DEF NotReady
<1>8. CASE Discover \/ Withdraw \/ UNCHANGED vars
  <2>1. ~Discover
    BY DEF Discover
  <2>2. UNCHANGED <<wasReady, inFlight, slamPaused, known, unnoticed, desiredPaused, pc, goal>>
    BY <1>8, <2>1 DEF Withdraw, vars, rxVars, guardVars, slamVars
  <2> QED BY <2>2, Zenon
<1> QED BY <1>2, <1>3, <1>4, <1>5, <1>6, <1>7, <1>8 DEF Next, Exec

(* "otherwise the next reconcile tick toggles again" (line 245): it does   *)
(* not.  Once slam_toolbox is as a resting arm asks for, and the guard has *)
(* seen this process, it stays so and /slam/active says so, through any    *)
(* number of ticks, frames and changes of discovery (what                  *)
(* WantedStateReached promises, without the progress).                     *)
THEOREM WantedStateKept ==
  ASSUME NEW arm \in {"away", "home"}
  PROVE  Spec => [](Agrees(arm) /\ []Rests(arm) =>
                      []((slamPaused <=> arm = "away") /\ (lastActive <=> arm = "home")))
<1>1. IInv /\ Agrees(arm) /\ Rests(arm) /\ Rests(arm)' /\ [Next]_vars => Agrees(arm)'
  BY AgreesStep
<1>2. IInv /\ Agrees(arm) /\ Rests(arm) =>
        (slamPaused <=> arm = "away") /\ (lastActive <=> arm = "home")
  BY DEF IInv, TypeOK, Agrees, Rests, KnowledgeInv, PublishedInv, Active, StateOf
<1> QED BY <1>1, <1>2, Inductive, PTL DEF Spec
=============================================================================
