----------------------------- MODULE ArmHomeGuard -----------------------------
(***************************************************************************)
(* The node of arm_home_guard.py: it pauses the measurements of            *)
(* slam_toolbox while the robot arm is out of its home pose.               *)
(*                                                                         *)
(*   Rx    the thread that judges the arm's pose from the angle lines      *)
(*   Exec  the ROS executor: the reconcile timer and the reply callback    *)
(*   Slam  slam_toolbox (external): a process that comes and goes, whose   *)
(*         pause service toggles the measurements and answers the new      *)
(*         state; a request dies with the process, a reply it has sent     *)
(*         may still arrive                                                *)
(*                                                                         *)
(* The timer callback is split where it releases its lock: the rx thread   *)
(* may change the desired state before the call is made.                   *)
(*                                                                         *)
(* The guard sees slam_toolbox only through service_is_ready(), which it   *)
(* polls.  Discovery keeps an ended process until it announces its end or, *)
(* after a crash or the SIGKILL of slam_manager.py:145, until its lease    *)
(* ends; a process started before the guard has seen the service gone      *)
(* replaces the old one unnoticed.                                         *)
(***************************************************************************)
EXTENDS Integers

CONSTANTS
  Stable,       \* resume_stable_sec, in ticks
  MaxRestarts,  \* bound: starts of slam_toolbox
  MaxExternal   \* bound: toggles by another client of the pause service

ASSUME GuardAssumption ==
  Stable \in Nat /\ MaxRestarts \in Nat /\ MaxExternal \in Nat

VARIABLES
  desiredPaused,  \* _desired_paused
  isHome,         \* _is_home: "unknown", "home" or "away"
  homeAge,        \* ticks since _home_since, at most Stable; -1 is None
  pc,             \* the executor: "spin", or "drive" inside _reconcile
  goal,           \* the local `desired` of _reconcile
  applied,        \* _applied: "unknown", "paused" or "running"
  inFlight,       \* _call_in_flight
  wasReady,       \* _was_ready
  lastActive,     \* _last_active, what /slam/active holds
  call,           \* the toggle on its way: "none", "request", "reply", or "late",
                  \* the reply of a process that has ended since
  asked,          \* `desired` of the call, kept by its callback
  reply,          \* the status the reply carries
  slamUp,         \* slam_toolbox runs
  slamPaused,     \* its measurements are paused
  known,          \* the client is matched with the service of the running process
  stale,          \* discovery still lists the service of an ended process
  starts,         \* starts of slam_toolbox so far
  external,       \* external toggles so far
  disturbed,      \* history: since the last start or reply, the pause state was
                  \* changed by another client or by a call that failed
  unnoticed,      \* history: the running process replaced another unseen by the
                  \* guard, and no reply of it has arrived since
  sinceAway       \* history: ticks since the last frame out of home

rxVars    == <<desiredPaused, isHome, homeAge, sinceAway>>
guardVars == <<pc, goal, applied, inFlight, wasReady, lastActive>>
callVars  == <<call, asked, reply>>
slamVars  == <<slamUp, slamPaused, known, stale, starts, external, disturbed, unnoticed>>
vars == <<rxVars, guardVars, callVars, slamVars>>

StateOf(paused) == IF paused THEN "paused" ELSE "running"

(* service_is_ready() *)
svcReady == known \/ stale

(* _publish_active() *)
Active(ready, state) == ready /\ state = "running"

(* slam_toolbox may have been started, paused or ended before the guard.   *)
Init ==
  /\ desiredPaused = FALSE /\ isHome = "unknown" /\ homeAge = -1
  /\ pc = "spin" /\ goal = FALSE
  /\ applied = "unknown" /\ inFlight = FALSE /\ wasReady = FALSE /\ lastActive = FALSE
  /\ call = "none" /\ asked = FALSE /\ reply = FALSE
  /\ slamUp \in BOOLEAN /\ slamPaused \in BOOLEAN /\ (slamPaused => slamUp)
  /\ known = FALSE /\ stale \in BOOLEAN
  /\ starts = 0 /\ external = 0 /\ disturbed = slamPaused /\ unnoticed = FALSE
  /\ sinceAway = Stable

-----------------------------------------------------------------------------
(* The rx thread, one complete angle frame at a time; garbled frames leave *)
(* the state alone.                                                        *)

(* Variant: _home_since is kept when the arm leaves home. *)
FrameAwayKeepsAge ==
  /\ isHome' = "away"
  /\ desiredPaused' = TRUE
  /\ sinceAway' = 0
  /\ UNCHANGED <<homeAge, guardVars, callVars, slamVars>>

FrameAway ==
  /\ isHome' = "away"
  /\ homeAge' = -1
  /\ desiredPaused' = TRUE
  /\ sinceAway' = 0
  /\ UNCHANGED <<guardVars, callVars, slamVars>>

FrameHome ==
  /\ isHome' = "home"
  /\ homeAge' = IF homeAge = -1 THEN 0 ELSE homeAge
  /\ desiredPaused' = (desiredPaused /\ homeAge' < Stable)
  /\ UNCHANGED <<sinceAway, guardVars, callVars, slamVars>>

Tick ==
  /\ homeAge' = IF homeAge \in 0 .. Stable - 1 THEN homeAge + 1 ELSE homeAge
  /\ sinceAway' = IF sinceAway < Stable THEN sinceAway + 1 ELSE sinceAway
  /\ UNCHANGED <<desiredPaused, isHome, guardVars, callVars, slamVars>>

-----------------------------------------------------------------------------
(* The executor.                                                           *)

Settled == isHome = "home" /\ homeAge >= Stable

(* Variant: the timer does not look at the age; only a new frame resumes.  *)
ReconcileWithoutResume ==
  /\ pc = "spin"
  /\ goal' = desiredPaused
  /\ pc' = "drive"
  /\ UNCHANGED <<rxVars, applied, inFlight, wasReady, lastActive, callVars, slamVars>>

(* _reconcile up to the end of its locked section. *)
Reconcile ==
  /\ pc = "spin"
  /\ desiredPaused' = (desiredPaused /\ ~Settled)
  /\ goal' = desiredPaused'
  /\ pc' = "drive"
  /\ UNCHANGED <<isHome, homeAge, sinceAway, applied, inFlight, wasReady, lastActive,
                 callVars, slamVars>>

(* History: a guard that takes the service for new knows the running       *)
(* process, unless the reply of another may still arrive.                  *)
Notice(seen) ==
  /\ unnoticed' = (unnoticed /\ (seen \/ call = "late"))
  /\ UNCHANGED <<slamUp, slamPaused, known, stale, starts, external, disturbed>>

(* The service is gone: its pause state is no longer known. *)
NotReady ==
  /\ pc = "drive" /\ ~svcReady
  /\ pc' = "spin"
  /\ wasReady' = FALSE
  /\ applied' = "unknown"
  /\ lastActive' = FALSE
  /\ Notice(FALSE)
  /\ UNCHANGED <<rxVars, goal, inFlight, callVars>>

(* What the guard takes the pause state to be: slam_toolbox starts with    *)
(* its measurements on.                                                    *)
Belief == IF wasReady THEN applied ELSE "running"

Publish == lastActive' = IF wasReady THEN lastActive ELSE TRUE

(* Ready, and nothing to change or a toggle still under way. *)
Hold ==
  /\ pc = "drive" /\ svcReady
  /\ inFlight \/ Belief = StateOf(goal)
  /\ pc' = "spin"
  /\ wasReady' = TRUE /\ applied' = Belief /\ Publish
  /\ Notice(wasReady)
  /\ UNCHANGED <<rxVars, goal, inFlight, callVars>>

(* Variant: a toggle is sent although one is under way. *)
SendToggleAgain ==
  /\ pc = "drive" /\ svcReady
  /\ Belief # StateOf(goal)
  /\ pc' = "spin"
  /\ wasReady' = TRUE /\ applied' = Belief /\ Publish
  /\ Notice(wasReady)
  /\ inFlight' = TRUE
  /\ call' = (IF known THEN "request" ELSE "none") /\ asked' = goal
  /\ UNCHANGED <<rxVars, goal, reply>>

(* What is sent to an ended process, or before the client is matched with  *)
(* the running one, reaches nobody.                                        *)
SendToggle ==
  /\ pc = "drive" /\ svcReady
  /\ ~inFlight /\ Belief # StateOf(goal)
  /\ pc' = "spin"
  /\ wasReady' = TRUE /\ applied' = Belief /\ Publish
  /\ Notice(wasReady)
  /\ inFlight' = TRUE
  /\ call' = (IF known THEN "request" ELSE "none") /\ asked' = goal
  /\ UNCHANGED <<rxVars, goal, reply>>

(* _done(): the callback of the call. *)
Answered ==
  /\ pc = "spin" /\ call \in {"reply", "late"}
  /\ call' = "none"
  /\ inFlight' = FALSE
  /\ UNCHANGED <<rxVars, pc, goal, wasReady, asked, reply, slamUp, slamPaused, known, stale,
                 starts, external>>

(* Variant: the callback trusts that the toggle did what was asked. *)
DoneTrusting ==
  /\ Answered
  /\ applied' = StateOf(asked)
  /\ lastActive' = Active(wasReady, applied')
  /\ unnoticed' = (unnoticed /\ call = "late")
  /\ UNCHANGED disturbed

(* Variant: the callback does not publish. *)
DoneSilent ==
  /\ Answered
  /\ applied' = StateOf(reply)
  /\ unnoticed' = (unnoticed /\ call = "late")
  /\ UNCHANGED <<lastActive, disturbed>>

Done ==
  /\ Answered
  /\ applied' = StateOf(reply)
  /\ lastActive' = Active(wasReady, applied')
  /\ unnoticed' = (unnoticed /\ call = "late")
  /\ UNCHANGED disturbed

(* The future carries an exception: the guard keeps what it believed.      *)
DoneFailed ==
  /\ Answered
  /\ disturbed' = TRUE
  /\ UNCHANGED <<applied, lastActive, unnoticed>>

Exec == Reconcile \/ NotReady \/ Hold \/ SendToggle

-----------------------------------------------------------------------------
(* slam_toolbox and the middleware.                                        *)

(* Nothing makes a start wait until the guard has seen the service gone.   *)
SlamStart ==
  /\ ~slamUp /\ starts < MaxRestarts
  /\ slamUp' = TRUE /\ slamPaused' = FALSE
  /\ starts' = starts + 1
  /\ disturbed' = FALSE
  /\ unnoticed' = (wasReady \/ call = "late")
  /\ UNCHANGED <<rxVars, guardVars, callVars, known, stale, external>>

(* The process ends, by a signal or by itself. *)
SlamStop ==
  /\ slamUp
  /\ slamUp' = FALSE
  /\ known' = FALSE /\ stale' = (stale \/ known)
  /\ call' = CASE call = "request" -> "none" [] call = "reply" -> "late" [] OTHER -> call
  /\ UNCHANGED <<rxVars, guardVars, asked, reply, slamPaused, starts, external, disturbed,
                 unnoticed>>

Discover ==
  /\ slamUp /\ ~known
  /\ known' = TRUE
  /\ UNCHANGED <<rxVars, guardVars, callVars, slamUp, slamPaused, stale, starts, external,
                 disturbed, unnoticed>>

(* The end of a process is announced, or its lease ends. *)
Withdraw ==
  /\ stale
  /\ stale' = FALSE
  /\ UNCHANGED <<rxVars, guardVars, callVars, slamUp, slamPaused, known, starts, external,
                 disturbed, unnoticed>>

Serve ==
  /\ call = "request"
  /\ slamPaused' = ~slamPaused
  /\ reply' = slamPaused'
  /\ call' = "reply"
  /\ disturbed' = FALSE
  /\ UNCHANGED <<rxVars, guardVars, asked, slamUp, known, stale, starts, external, unnoticed>>

(* The reply of an ended process does not arrive: its future never         *)
(* completes, like that of a request nobody got.                           *)
Lose ==
  /\ call = "late"
  /\ call' = "none"
  /\ UNCHANGED <<rxVars, guardVars, asked, reply, slamVars>>

ExternalToggle ==
  /\ slamUp /\ external < MaxExternal
  /\ slamPaused' = ~slamPaused
  /\ external' = external + 1
  /\ disturbed' = TRUE
  /\ UNCHANGED <<rxVars, guardVars, callVars, slamUp, known, stale, starts, unnoticed>>

-----------------------------------------------------------------------------
Next ==
  \/ FrameAway \/ FrameHome \/ Tick
  \/ Exec \/ Done \/ DoneFailed
  \/ SlamStart \/ SlamStop \/ Discover \/ Withdraw \/ Serve \/ Lose \/ ExternalToggle

Spec == Init /\ [][Next]_vars

(* The timer fires, callbacks run, slam_toolbox serves and discovery and   *)
(* the clock advance; nothing makes a frame arrive or slam_toolbox start.  *)
Fairness ==
  /\ WF_vars(Exec) /\ SF_vars(Done \/ DoneFailed)
  /\ WF_vars(Discover) /\ WF_vars(Withdraw) /\ WF_vars(Serve) /\ WF_vars(Tick)

FairSpec == Spec /\ Fairness

-----------------------------------------------------------------------------
(* Properties.                                                             *)

(* Every variable holds a value of its type. *)
TypeOK ==
  /\ desiredPaused \in BOOLEAN /\ isHome \in {"unknown", "home", "away"}
  /\ homeAge \in -1 .. Stable /\ sinceAway \in 0 .. Stable
  /\ pc \in {"spin", "drive"} /\ goal \in BOOLEAN
  /\ applied \in {"unknown", "paused", "running"}
  /\ inFlight \in BOOLEAN /\ wasReady \in BOOLEAN /\ lastActive \in BOOLEAN
  /\ call \in {"none", "request", "reply", "late"} /\ asked \in BOOLEAN /\ reply \in BOOLEAN
  /\ slamUp \in BOOLEAN /\ slamPaused \in BOOLEAN /\ known \in BOOLEAN /\ stale \in BOOLEAN
  /\ starts \in 0 .. MaxRestarts /\ external \in 0 .. MaxExternal
  /\ disturbed \in BOOLEAN /\ unnoticed \in BOOLEAN

(* The guard never queries the pause state: it infers it from the toggles  *)
(* it sent and from restarts.  While no toggle is under way and nobody else *)
(* changed the state since the last restart or reply, what it believes is  *)
(* true of the running slam_toolbox, with one exception: a process that    *)
(* replaced a paused one unnoticed runs and is believed paused.            *)
BeliefCorrect ==
  ~disturbed /\ slamUp /\ wasReady /\ ~inFlight =>
    \/ applied = StateOf(slamPaused)
    \/ unnoticed /\ applied = "paused" /\ ~slamPaused

(* A toggle that reaches slam_toolbox lands on the state it was sent for   *)
(* ("so we drive it toward the state we want", line 27).  The only one that *)
(* lands on the opposite is sent to resume a process that replaced a paused *)
(* one unnoticed: a toggle sent to pause always pauses.                    *)
ToggleLandsOnGoal ==
  ~disturbed /\ call = "request" =>
    \/ slamPaused # asked
    \/ unnoticed /\ ~asked /\ ~slamPaused

(* /slam/active ("actively mapping", lines 93-94) is never true of a       *)
(* slam_toolbox whose measurements are paused, and false of one that maps  *)
(* only after an unnoticed restart; as soon as the guard has seen the      *)
(* service and while no toggle is under way.                               *)
ActiveHonest ==
  ~disturbed /\ slamUp /\ wasReady /\ ~inFlight =>
    /\ lastActive => ~slamPaused
    /\ ~slamPaused => lastActive \/ unnoticed

(* "Resume only after the arm has held home long enough" (line 187): the   *)
(* wish to pause is given up only Stable ticks after the last frame that   *)
(* showed the arm out of home.                                             *)
ResumeOnlyAfterSettled ==
  [][desiredPaused /\ ~desiredPaused' => sinceAway >= Stable]_vars

Orphaned == inFlight /\ call = "none"

ArmRests(arm) == <>[](~disturbed /\ slamUp /\ isHome = arm /\ ~Orphaned)

(* If slam_toolbox stays up, no call was lost and nobody else changed the  *)
(* pause state since the guard's last reply, an arm that stays home ends   *)
(* with the measurements running, whatever the guard believed before       *)
(* ("otherwise the next reconcile tick toggles again", line 245), one that *)
(* stays deployed with them paused unless the restart went unnoticed, and  *)
(* /slam/active says what the arm asks for.                                *)
WantedStateReached ==
  /\ ArmRests("away") => <>[]((slamPaused \/ unnoticed) /\ ~lastActive)
  /\ ArmRests("home") => <>[](~slamPaused /\ lastActive)
=============================================================================
