-------------------------- MODULE DriveBridge_proofs --------------------------
(***************************************************************************)
(* Theorems about DriveBridge, for every value of its constants: types,    *)
(* the fate of a line that was cut off by the flush, the refinement of     *)
(* MotorCommands (a motion is never executed twice or out of order), the   *)
(* locks, and the stops that the bridge sends of its own account.          *)
(***************************************************************************)
EXTENDS DriveBridge, TLAPS

-----------------------------------------------------------------------------
(* The inductive invariant.                                                *)

(* The receive thread writes a lock only for a lock packet of its batch,   *)
(* and a motion only for a finite one; it flushes only before a stop.      *)
RxInv ==
  /\ latest < nextPkt
  /\ latest # 0 => log[latest].kind = "motion"
  /\ rxPc = "sendlock" => nextPkt <= nread /\ IsGoodLock(nextPkt)
  /\ rxPc \in {"flush", "sendmotion"} => latest # 0 /\ IsMotion(latest)
  /\ rxPc = "flush" => IsStop(latest)

(* Every queued motion answers a packet already handled and newer than the *)
(* last one the ESP32 took, or it is a stop of the bridge itself.          *)
LineInv ==
  /\ txHead => tty # <<>>
  /\ \A i \in 1 .. Len(tty) :
       /\ tty[i].n < nextPkt
       /\ tty[i].kind = "motion" /\ tty[i].n = 0 => tty[i].cmd = Zero
       /\ tty[i].kind = "motion" /\ tty[i].n # 0 =>
            /\ IsMotion(tty[i].n)
            /\ tty[i].cmd = TwistToLR(log[tty[i].n].twist)
            /\ espSeq < tty[i].n

(* Queued motions are in arrival order, and latest_motion of the batch in  *)
(* hand is newer than all of them.                                         *)
OrderInv ==
  /\ espSeq < nextPkt
  /\ espLockSeq < nextPkt
  /\ \A i, j \in 1 .. Len(tty) :
       /\ i < j
       /\ tty[i].kind = "motion" /\ tty[j].kind = "motion"
       /\ tty[i].n # 0 /\ tty[j].n # 0
       => tty[i].n < tty[j].n
  /\ rxPc \in {"apply", "sendlock", "flush", "sendmotion"} /\ latest # 0 =>
       /\ espSeq < latest
       /\ \A i \in 1 .. Len(tty) : tty[i].kind = "motion" => tty[i].n < latest

(* The rest of a cut-off line waits for a stop: the one that is first in   *)
(* the queue, or the one the receive thread is about to write.             *)
GarbledInv ==
  residue =>
    \/ tty # <<>> /\ IsStopLine(Head(tty))
    \/ tty = <<>> /\ ~PortOk
    \/ tty = <<>> /\ rxPc = "sendmotion" /\ IsStop(latest)

IInv == TypeOK /\ RxInv /\ LineInv /\ OrderInv /\ GarbledInv

-----------------------------------------------------------------------------
(* The conversion of a twist.                                              *)

LEMMA ClampRange ==
  ASSUME NEW v \in Int
  PROVE  Clamp(v) \in Speeds
BY MixerAssumption DEF Clamp, Speeds

LEMMA TruncDivInt ==
  ASSUME NEW a \in Int, NEW b \in Nat \ {0}
  PROVE  TruncDiv(a, b) \in Int
BY DEF TruncDiv

(* Every finite twist gives two speeds that the motors take (_twist_to_lr, *)
(* lines 125-130), however large its components.                           *)
THEOREM SpeedsInRange ==
  ASSUME NEW twist \in Int \X Int
  PROVE  TwistToLR(twist) \in Commands
<1> DEFINE lin == twist[1]
           ang == twist[2]
<1>1. lin \in Int /\ ang \in Int /\ MaxSpeed \in Int /\ 2 * Scale \in Nat \ {0}
  BY MixerAssumption
<1>2. (2 * lin - ang) * MaxSpeed \in Int /\ (2 * lin + ang) * MaxSpeed \in Int
  <2> HIDE DEF lin, ang
  <2>1. 2 * lin - ang \in Int /\ 2 * lin + ang \in Int
    BY <1>1
  <2> QED BY <1>1, <2>1
<1>3. /\ Clamp(TruncDiv((2 * lin - ang) * MaxSpeed, 2 * Scale)) \in Speeds
      /\ Clamp(TruncDiv((2 * lin + ang) * MaxSpeed, 2 * Scale)) \in Speeds
  BY <1>1, <1>2, ClampRange, TruncDivInt
<1> QED BY <1>3 DEF TwistToLR, Commands

LEMMA ZeroIsCommand == Zero \in Commands
BY MixerAssumption DEF Zero, Commands, Speeds

LEMMA MotionIsCommand ==
  ASSUME TypeOK, NEW n \in 1 .. Len(log), IsMotion(n)
  PROVE  TwistToLR(log[n].twist) \in Commands
<1>1. log[n] \in Packets
  BY DEF TypeOK
<1>2. log[n] \in MotionPacket
  BY <1>1, BridgeAssumption DEF IsMotion, LockPacket, OtherPacket, MotionPacket
<1>3. log[n].twist \in Int \X Int
  BY <1>2 DEF MotionPacket, IsMotion
<1> QED BY <1>3, SpeedsInRange

-----------------------------------------------------------------------------
(* The invariant is inductive.                                             *)

Lines == MotionLine \cup LockLine

LEMMA LineFields ==
  ASSUME NEW line \in Lines
  PROVE  /\ line.kind \in {"motion", "lock"}
         /\ line.n \in Nat
         /\ line.kind = "motion" => line.cmd \in Commands
         /\ line.kind = "lock" => line.lock \in BOOLEAN
BY DEF Lines, MotionLine, LockLine

(* What a write that succeeds does to the queue. *)
LEMMA WriteEffect ==
  ASSUME TypeOK, NEW line \in Lines, Write(line)
  PROVE  /\ tty' \in Seq(Lines) /\ tty' # <<>>
         /\ Len(tty') = Len(tty) + 1 /\ Len(tty') <= TtyCap
         /\ \A i \in 1 .. Len(tty) : tty'[i] = tty[i]
         /\ tty'[Len(tty) + 1] = line
         /\ Head(tty') = IF tty = <<>> THEN line ELSE Head(tty)
         /\ txHead' = txHead /\ attached' = attached
         /\ PortOk
BY BridgeAssumption DEF TypeOK, Write, Lines

LEMMA TailEffect ==
  ASSUME TypeOK, tty # <<>>, tty' = Tail(tty)
  PROVE  /\ tty' \in Seq(Lines)
         /\ Len(tty') = Len(tty) - 1
         /\ \A i \in 1 .. Len(tty') : tty'[i] = tty[i + 1]
         /\ Head(tty) = tty[1] /\ tty[1] \in Lines /\ 1 \in 1 .. Len(tty)
BY DEF TypeOK, Lines

(* An arriving packet changes none of those already in the log. *)
LEMMA ArriveKeepsLog ==
  ASSUME TypeOK, Arrive
  PROVE  /\ log' \in Seq(Packets)
         /\ Len(log') = Len(log) + 1
         /\ \A n \in 1 .. Len(log) :
              /\ log'[n] = log[n]
              /\ IsMotion(n)' = IsMotion(n)
              /\ IsStop(n)' = IsStop(n)
              /\ IsGoodLock(n)' = IsGoodLock(n)
<1>1. PICK pkt \in Packets : log' = Append(log, pkt)
  BY DEF Arrive
<1>2. \A n \in 1 .. Len(log) : log'[n] = log[n]
  BY <1>1 DEF TypeOK
<1> QED BY <1>1, <1>2 DEF TypeOK, IsMotion, IsStop, IsGoodLock

LEMMA InitIInv == Init => IInv
<1> SUFFICES ASSUME Init PROVE IInv
  OBVIOUS
<1>1. TypeOK
  <2>1. log \in Seq(Packets) /\ tty \in Seq(MotionLine \cup LockLine) /\ Len(log) = 0 /\ Len(tty) = 0
    BY DEF Init
  <2>2. espCmd \in Commands
    BY ZeroIsCommand DEF Init
  <2>3. /\ nread \in 0 .. Len(log) /\ nextPkt \in 1 .. nread + 1 /\ latest \in 0 .. nread
        /\ silence \in 0 .. WatchdogTicks + 1 /\ Len(tty) <= TtyCap
        /\ espSeq \in 0 .. nread /\ espLockSeq \in 0 .. nread
    BY <2>1, BridgeAssumption DEF Init
  <2> QED BY <2>1, <2>2, <2>3 DEF Init, TypeOK
<1>2. RxInv /\ LineInv /\ OrderInv /\ GarbledInv
  BY DEF Init, RxInv, LineInv, OrderInv, GarbledInv
<1> QED BY <1>1, <1>2 DEF IInv

LEMMA ArriveStep == IInv /\ Arrive => IInv'
<1> SUFFICES ASSUME IInv, Arrive PROVE IInv'
  OBVIOUS
<1>0. TypeOK /\ RxInv /\ LineInv /\ OrderInv /\ GarbledInv
  BY DEF IInv
<1>1. /\ log' \in Seq(Packets) /\ Len(log') = Len(log) + 1
      /\ \A n \in 1 .. Len(log) :
           /\ log'[n] = log[n]
           /\ IsMotion(n)' = IsMotion(n)
           /\ IsStop(n)' = IsStop(n)
           /\ IsGoodLock(n)' = IsGoodLock(n)
  BY <1>0, ArriveKeepsLog
<1>2. UNCHANGED <<rxVars, silence, wdPc, mainPc, txVars, espVars>>
  BY DEF Arrive
<1> USE DEF rxVars, txVars, espVars
<1>3. TypeOK'
  BY <1>0, <1>1, <1>2 DEF TypeOK
<1>4. RxInv'
  <2>1. latest # 0 => latest \in 1 .. Len(log)
    BY <1>0 DEF TypeOK
  <2>2. nextPkt <= nread => nextPkt \in 1 .. Len(log)
    BY <1>0 DEF TypeOK
  <2> QED BY <1>0, <1>1, <1>2, <2>1, <2>2 DEF RxInv
<1>5. LineInv'
  <2>1. \A i \in 1 .. Len(tty) : tty[i].n # 0 /\ tty[i].n < nextPkt => tty[i].n \in 1 .. Len(log)
    BY <1>0, LineFields, SMTT(30) DEF TypeOK, Lines
  <2> QED BY <1>0, <1>1, <1>2, <2>1 DEF LineInv
<1>6. OrderInv'
  BY <1>0, <1>2 DEF OrderInv
<1>7. GarbledInv'
  <2>1. rxPc = "sendmotion" => latest \in 1 .. Len(log)
    BY <1>0 DEF TypeOK, RxInv
  <2> QED BY <1>0, <1>1, <1>2, <2>1 DEF GarbledInv, IsStopLine, PortOk
<1> QED BY <1>3, <1>4, <1>5, <1>6, <1>7 DEF IInv

(* Steps of the clock, of the watchdog's and main's control, of TxBegin:   *)
(* no line is written, and the receive thread does not move.               *)
LEMMA ControlStep ==
  IInv /\ (Tick \/ WdLook \/ WdCheck \/ WdDies \/ Interrupt \/ MainClose \/ TxBegin) => IInv'
<1> SUFFICES ASSUME IInv,
                    Tick \/ WdLook \/ WdCheck \/ WdDies \/ Interrupt \/ MainClose \/ TxBegin
             PROVE  IInv'
  OBVIOUS
<1>0. TypeOK /\ RxInv /\ LineInv /\ OrderInv /\ GarbledInv
  BY DEF IInv
<1>1. UNCHANGED <<log, nread, nextPkt, latest, rxPc, isLocked, tty, attached, residue,
                  espCmd, espLock, espSeq, espLockSeq>>
  BY DEF Tick, WdLook, WdCheck, WdDies, Interrupt, MainClose, TxBegin, rxVars, txVars, espVars
<1>2. TypeOK'
  <2>1. silence' \in 0 .. WatchdogTicks + 1
    BY <1>0, BridgeAssumption
       DEF TypeOK, Tick, WdLook, WdCheck, WdDies, Interrupt, MainClose, TxBegin
  <2>2. wdPc' \in {"sleep", "check", "send", "exit", "dead"}
    BY <1>0 DEF TypeOK, LoopHead, Tick, WdLook, WdCheck, WdDies, Interrupt, MainClose, TxBegin
  <2>3. mainPc' \in {"run", "stop", "close", "closed"} /\ txHead' \in BOOLEAN
    BY <1>0 DEF TypeOK, Tick, WdLook, WdCheck, WdDies, Interrupt, MainClose, TxBegin, txVars
  <2> QED BY <1>0, <1>1, <2>1, <2>2, <2>3 DEF TypeOK
<1>3. RxInv'
  BY <1>0, <1>1 DEF RxInv, IsMotion, IsStop, IsGoodLock
<1>4. LineInv'
  <2>1. txHead' => tty # <<>>
    BY <1>0 DEF LineInv, Tick, WdLook, WdCheck, WdDies, Interrupt, MainClose, TxBegin, txVars
  <2> QED BY <1>0, <1>1, <2>1 DEF LineInv, IsMotion
<1>5. OrderInv'
  BY <1>0, <1>1 DEF OrderInv
<1>6. GarbledInv'
  <2>1. ~PortOk => ~PortOk'
    BY DEF PortOk, Tick, WdLook, WdCheck, WdDies, Interrupt, MainClose, TxBegin, txVars
  <2> QED BY <1>0, <1>1, <2>1 DEF GarbledInv, IsStopLine, IsStop, IsMotion
<1> QED BY <1>2, <1>3, <1>4, <1>5, <1>6 DEF IInv

LEMMA UnplugStep == IInv /\ Unplug => IInv'
<1> SUFFICES ASSUME IInv, Unplug PROVE IInv'
  OBVIOUS
<1>0. TypeOK /\ RxInv /\ LineInv /\ OrderInv /\ GarbledInv
  BY DEF IInv
<1>1. /\ UNCHANGED <<log, nread, nextPkt, latest, rxPc, isLocked, silence, wdPc, mainPc,
                     residue, espCmd, espLock, espSeq, espLockSeq>>
      /\ tty' = <<>> /\ txHead' = FALSE /\ attached' = FALSE
  BY DEF Unplug, rxVars, espVars
<1>2. TypeOK'
  <2>1. tty' \in Seq(MotionLine \cup LockLine) /\ Len(tty') <= TtyCap
    BY <1>1, BridgeAssumption
  <2> QED BY <1>0, <1>1, <2>1, ZenonT(60) DEF TypeOK
<1>3. RxInv'
  BY <1>0, <1>1 DEF RxInv, IsMotion, IsStop, IsGoodLock
<1>4. LineInv' /\ OrderInv'
  BY <1>0, <1>1 DEF LineInv, OrderInv
<1>5. GarbledInv'
  BY <1>1 DEF GarbledInv, PortOk
<1> QED BY <1>2, <1>3, <1>4, <1>5 DEF IInv

(* Steps of the receive thread that write nothing.                         *)
RxQuiet == RxRecv \/ RxDrainOne \/ RxDrained \/ RxLock \/ RxDefer \/ RxSkip
             \/ RxMotion \/ RxDies \/ RxExit

LEMMA RxQuietStep == IInv /\ RxQuiet => IInv'
<1> SUFFICES ASSUME IInv, RxQuiet PROVE IInv'
  OBVIOUS
<1>0. TypeOK /\ RxInv /\ LineInv /\ OrderInv /\ GarbledInv
  BY DEF IInv
<1>1. UNCHANGED <<log, wdPc, mainPc, tty, txHead, attached, residue, espCmd, espLock,
                  espSeq, espLockSeq>>
  BY DEF RxQuiet, RxRecv, RxDrainOne, RxDrained, RxLock, RxDefer, RxSkip, RxMotion, RxDies,
         RxExit, txVars, espVars
<1> USE DEF RxQuiet, InBatch, BatchDone
<1>2. nread' \in 0 .. Len(log) /\ nread <= nread'
  BY <1>0 DEF TypeOK, RxRecv, RxDrainOne, RxDrained, RxLock, RxDefer, RxSkip, RxMotion, RxDies, RxExit
<1>3. nextPkt' \in 1 .. nread' + 1 /\ nextPkt <= nextPkt'
  BY <1>0 DEF TypeOK, RxRecv, RxDrainOne, RxDrained, RxLock, RxDefer, RxSkip, RxMotion, RxDies, RxExit
<1>4. latest' \in 0 .. nread' /\ latest' < nextPkt'
  BY <1>0 DEF TypeOK, RxInv, RxRecv, RxDrainOne, RxDrained, RxLock, RxDefer, RxSkip, RxMotion,
              RxDies, RxExit
<1>5. rxPc' \in {"recv", "drain", "apply", "sendlock", "flush", "sendmotion", "exit", "dead"}
  BY <1>0 DEF TypeOK, AfterBatch, LoopHead, RxRecv, RxDrainOne, RxDrained, RxLock, RxDefer,
              RxSkip, RxMotion, RxDies, RxExit
<1>6. TypeOK'
  <2>1. silence' \in 0 .. WatchdogTicks + 1
    BY <1>0, BridgeAssumption
       DEF TypeOK, RxRecv, RxDrainOne, RxDrained, RxLock, RxDefer, RxSkip, RxMotion, RxDies, RxExit
  <2>2. isLocked' \in BOOLEAN
    <3>1. CASE RxLock
      <4>1. log[nextPkt] \in Packets /\ log[nextPkt].kind = "lock"
        BY <1>0, <3>1 DEF TypeOK, RxLock, IsGoodLock
      <4>2. log[nextPkt] \in LockPacket
        BY <4>1, BridgeAssumption DEF MotionPacket, OtherPacket, LockPacket
      <4> QED BY <3>1, <4>2 DEF RxLock, LockPacket
    <3> QED BY <1>0, <3>1
            DEF TypeOK, RxRecv, RxDrainOne, RxDrained, RxDefer, RxSkip, RxMotion, RxDies, RxExit
  <2>3. espSeq' \in 0 .. nread' /\ espLockSeq' \in 0 .. nread'
    BY <1>0, <1>1, <1>2 DEF TypeOK
  <2> QED BY <1>0, <1>1, <1>2, <1>3, <1>4, <1>5, <2>1, <2>2, <2>3 DEF TypeOK
<1>7. RxInv'
  <2>1. latest' # 0 => log'[latest'].kind = "motion"
    BY <1>0, <1>1 DEF RxInv, RxRecv, RxDrainOne, RxDrained, RxLock, RxDefer, RxSkip, RxMotion,
                      RxDies, RxExit
  <2>2. rxPc' = "sendlock" => nextPkt' <= nread' /\ log'[nextPkt'].kind = "lock" /\ log'[nextPkt'].marker
    BY <1>0, <1>1 DEF RxInv, IsGoodLock, AfterBatch, LoopHead, RxRecv, RxDrainOne, RxDrained,
                      RxLock, RxDefer, RxSkip, RxMotion, RxDies, RxExit
  <2>3. rxPc' \in {"flush", "sendmotion"} =>
          latest' # 0 /\ log'[latest'].kind = "motion" /\ log'[latest'].twist # NonFinite
    BY <1>0, <1>1 DEF RxInv, IsMotion, AfterBatch, LoopHead, RxRecv, RxDrainOne, RxDrained,
                      RxLock, RxDefer, RxSkip, RxMotion, RxDies, RxExit
  <2>4. rxPc' = "flush" => TwistToLR(log'[latest'].twist) = Zero
    BY <1>0, <1>1 DEF RxInv, IsMotion, IsStop, AfterBatch, LoopHead, RxRecv, RxDrainOne,
                      RxDrained, RxLock, RxDefer, RxSkip, RxMotion, RxDies, RxExit
  <2> QED BY <1>4, <2>1, <2>2, <2>3, <2>4 DEF RxInv, IsMotion, IsStop, IsGoodLock
<1>8. LineInv'
  <2>1. \A i \in 1 .. Len(tty) : tty[i].n < nextPkt'
    <3> SUFFICES ASSUME NEW i \in 1 .. Len(tty) PROVE tty[i].n < nextPkt'
      OBVIOUS
    <3>1. tty[i].n \in Nat
      BY <1>0, LineFields DEF TypeOK, Lines
    <3> QED BY <1>0, <1>3, <3>1, SMTT(30) DEF TypeOK, LineInv
  <2> QED BY <1>0, <1>1, <2>1 DEF LineInv, IsMotion
<1>9. OrderInv'
  <2>1. espSeq' < nextPkt' /\ espLockSeq' < nextPkt'
    BY <1>0, <1>1, <1>3 DEF TypeOK, OrderInv
  <2>2. ASSUME rxPc' \in {"apply", "sendlock", "flush", "sendmotion"}, latest' # 0
        PROVE  /\ espSeq' < latest'
               /\ \A i \in 1 .. Len(tty') : tty'[i].kind = "motion" => tty'[i].n < latest'
    <3>1. CASE RxDefer
      BY <1>0, <1>1, <3>1 DEF RxDefer, OrderInv, LineInv
    <3>2. CASE RxDrained
      BY <2>2, <3>2 DEF RxDrained
    <3>3. CASE RxLock \/ RxSkip \/ RxMotion
      BY <1>0, <1>1, <2>2, <3>3 DEF RxLock, RxSkip, RxMotion, OrderInv
    <3>4. ~(RxRecv \/ RxDrainOne \/ RxDies \/ RxExit)
      BY <2>2 DEF RxRecv, RxDrainOne, RxDies, RxExit
    <3> QED BY <3>1, <3>2, <3>3, <3>4
  <2> QED BY <1>0, <1>1, <2>1, <2>2 DEF OrderInv
<1>10. GarbledInv'
  <2>1. rxPc = "sendmotion" => RxDies
    BY DEF RxRecv, RxDrainOne, RxDrained, RxLock, RxDefer, RxSkip, RxMotion, RxDies, RxExit
  <2>2. RxDies => ~PortOk
    BY DEF RxDies
  <2> QED BY <1>0, <1>1, <2>1, <2>2 DEF GarbledInv, PortOk, IsStopLine
<1> QED BY <1>6, <1>7, <1>8, <1>9, <1>10 DEF IInv

LEMMA RxFlushStep == IInv /\ RxFlush => IInv'
<1> SUFFICES ASSUME IInv, RxFlush PROVE IInv'
  OBVIOUS
<1>0. TypeOK /\ RxInv /\ LineInv /\ OrderInv /\ GarbledInv
  BY DEF IInv
<1>1. /\ UNCHANGED <<log, nread, nextPkt, latest, isLocked, silence, wdPc, mainPc, attached,
                     espCmd, espLock, espSeq, espLockSeq>>
      /\ tty' = <<>> /\ txHead' = FALSE /\ residue' = (residue \/ txHead)
      /\ rxPc = "flush" /\ rxPc' = "sendmotion"
  BY DEF RxFlush
<1>2. TypeOK'
  <2>1. tty' \in Seq(MotionLine \cup LockLine) /\ Len(tty') <= TtyCap
    BY <1>1, BridgeAssumption
  <2>2. residue' \in BOOLEAN
    BY <1>1
  <2> QED BY <1>0, <1>1, <2>1, <2>2 DEF TypeOK
<1>3. RxInv'
  BY <1>0, <1>1 DEF RxInv, IsMotion, IsStop, IsGoodLock
<1>4. LineInv'
  BY <1>0, <1>1 DEF LineInv
<1>5. OrderInv'
  BY <1>0, <1>1 DEF OrderInv
<1>6. GarbledInv'
  BY <1>0, <1>1 DEF GarbledInv, RxInv, IsStop, IsMotion
<1> QED BY <1>2, <1>3, <1>4, <1>5, <1>6 DEF IInv

(* A write of any thread.  What the writer must show is that its line is a *)
(* stop if the queue is empty and the ESP32 holds the rest of a cut-off    *)
(* line, and that a motion it writes is that of a packet already handled,  *)
(* newer than all the queued ones.                                         *)
LEMMA WriteKeepsQueue ==
  ASSUME TypeOK, LineInv, OrderInv, GarbledInv,
         NEW line \in Lines, Write(line),
         UNCHANGED <<log, espSeq, residue>>,
         nextPkt' \in Nat, nextPkt <= nextPkt', line.n < nextPkt',
         line.kind = "motion" /\ line.n = 0 => line.cmd = Zero,
         line.kind = "motion" /\ line.n # 0 =>
           /\ IsMotion(line.n)
           /\ line.cmd = TwistToLR(log[line.n].twist)
           /\ espSeq < line.n
           /\ \A i \in 1 .. Len(tty) : tty[i].kind = "motion" => tty[i].n < line.n,
         rxPc = "sendmotion" /\ IsStop(latest) => IsStopLine(line)
  PROVE  /\ LineInv'
         /\ \A i, j \in 1 .. Len(tty') :
              /\ i < j
              /\ tty'[i].kind = "motion" /\ tty'[j].kind = "motion"
              /\ tty'[i].n # 0 /\ tty'[j].n # 0
              => tty'[i].n < tty'[j].n
         /\ GarbledInv'
<1>1. /\ tty' \in Seq(Lines) /\ tty' # <<>>
      /\ Len(tty') = Len(tty) + 1
      /\ \A i \in 1 .. Len(tty) : tty'[i] = tty[i]
      /\ tty'[Len(tty) + 1] = line
      /\ Head(tty') = IF tty = <<>> THEN line ELSE Head(tty)
      /\ txHead' = txHead /\ attached' = attached
      /\ PortOk
  BY WriteEffect
<1>2. Len(tty) \in Nat /\ nextPkt \in Nat
  BY DEF TypeOK
<1>3. \A i \in 1 .. Len(tty') : i = Len(tty) + 1 \/ i \in 1 .. Len(tty)
  BY <1>1, <1>2
<1>4. \A i \in 1 .. Len(tty) : tty[i].n \in Nat
  BY LineFields DEF TypeOK, Lines
<1>5. LineInv'
  <2>1. ASSUME NEW i \in 1 .. Len(tty)
        PROVE  tty'[i].n < nextPkt'
    BY <1>1, <1>2, <1>4, <2>1 DEF LineInv
  <2> QED BY <1>1, <1>3, <2>1 DEF LineInv, IsMotion
<1>6. \A i, j \in 1 .. Len(tty') :
              /\ i < j
              /\ tty'[i].kind = "motion" /\ tty'[j].kind = "motion"
              /\ tty'[i].n # 0 /\ tty'[j].n # 0
              => tty'[i].n < tty'[j].n
  <2> SUFFICES ASSUME NEW i \in 1 .. Len(tty'), NEW j \in 1 .. Len(tty'), i < j,
                      tty'[i].kind = "motion", tty'[j].kind = "motion",
                      tty'[i].n # 0, tty'[j].n # 0
               PROVE  tty'[i].n < tty'[j].n
    OBVIOUS
  <2>1. i \in 1 .. Len(tty)
    BY <1>1, <1>2
  <2>2. CASE j = Len(tty) + 1
    BY <1>1, <2>1, <2>2
  <2>3. CASE j \in 1 .. Len(tty)
    BY <1>1, <2>1, <2>3 DEF OrderInv
  <2> QED BY <1>3, <2>2, <2>3
<1>7. GarbledInv'
  BY <1>1 DEF GarbledInv, IsStopLine
<1> QED BY <1>5, <1>6, <1>7

LEMMA RxSendLockStep == IInv /\ RxSendLock => IInv'
<1> SUFFICES ASSUME IInv, RxSendLock PROVE IInv'
  OBVIOUS
<1>0. TypeOK /\ RxInv /\ LineInv /\ OrderInv /\ GarbledInv
  BY DEF IInv
<1> DEFINE line == [kind |-> "lock", lock |-> log[nextPkt].state, n |-> nextPkt]
<1>1. /\ Write(line)
      /\ UNCHANGED <<log, nread, latest, isLocked, silence, wdPc, mainPc, residue,
                     espCmd, espLock, espSeq, espLockSeq>>
      /\ nextPkt' = nextPkt + 1 /\ rxPc = "sendlock" /\ rxPc' = "apply"
  BY DEF RxSendLock, espVars
<1>2. nextPkt \in 1 .. nread /\ nread \in 0 .. Len(log) /\ IsGoodLock(nextPkt)
  BY <1>0, <1>1 DEF TypeOK, RxInv
<1>3. line \in Lines /\ line.kind = "lock" /\ line.n = nextPkt
  <2>1. log[nextPkt] \in Packets /\ log[nextPkt].kind = "lock"
    BY <1>0, <1>2 DEF TypeOK, IsGoodLock
  <2>2. log[nextPkt] \in LockPacket
    BY <2>1, BridgeAssumption DEF MotionPacket, OtherPacket, LockPacket
  <2> QED BY <1>2, <2>2 DEF LockPacket, Lines, LockLine
<1> HIDE DEF line
<1>4. /\ tty' \in Seq(Lines) /\ Len(tty') <= TtyCap /\ Len(tty') = Len(tty) + 1
      /\ \A i \in 1 .. Len(tty) : tty'[i] = tty[i]
      /\ tty'[Len(tty) + 1] = line
      /\ txHead' = txHead /\ attached' = attached
  BY <1>0, <1>1, <1>3, WriteEffect
<1>5. /\ LineInv' /\ GarbledInv'
      /\ \A i, j \in 1 .. Len(tty') :
           /\ i < j
           /\ tty'[i].kind = "motion" /\ tty'[j].kind = "motion"
           /\ tty'[i].n # 0 /\ tty'[j].n # 0
           => tty'[i].n < tty'[j].n
  BY <1>0, <1>1, <1>2, <1>3, WriteKeepsQueue
<1>6. TypeOK'
  BY <1>0, <1>1, <1>2, <1>4 DEF TypeOK, Lines
<1>7. RxInv'
  BY <1>0, <1>1, <1>2 DEF RxInv, TypeOK
<1>8. OrderInv'
  <2>1. espSeq' < nextPkt' /\ espLockSeq' < nextPkt'
    BY <1>0, <1>1, <1>2 DEF TypeOK, OrderInv
  <2>2. latest # 0 =>
          /\ espSeq < latest
          /\ \A i \in 1 .. Len(tty) : tty[i].kind = "motion" => tty[i].n < latest
    BY <1>0, <1>1 DEF OrderInv
  <2>3. Len(tty) \in Nat /\ Len(tty') = Len(tty) + 1
    BY <1>0, <1>4 DEF TypeOK
  <2>4. \A i \in 1 .. Len(tty') : tty'[i].kind = "motion" => i \in 1 .. Len(tty) /\ tty'[i] = tty[i]
    BY <1>3, <1>4, <2>3
  <2>5. latest' # 0 =>
          /\ espSeq' < latest'
          /\ \A i \in 1 .. Len(tty') : tty'[i].kind = "motion" => tty'[i].n < latest'
    <3>1. latest' = latest /\ espSeq' = espSeq
      BY <1>1
    <3> QED BY <2>2, <2>4, <3>1
  <2> QED BY <1>5, <2>1, <2>5 DEF OrderInv
<1> QED BY <1>5, <1>6, <1>7, <1>8 DEF IInv

LEMMA RxSendMotionStep == IInv /\ RxSendMotion => IInv'
<1> SUFFICES ASSUME IInv, RxSendMotion PROVE IInv'
  OBVIOUS
<1>0. TypeOK /\ RxInv /\ LineInv /\ OrderInv /\ GarbledInv
  BY DEF IInv
<1> DEFINE line == [kind |-> "motion", cmd |-> TwistToLR(log[latest].twist), n |-> latest]
<1>1. /\ Write(line)
      /\ UNCHANGED <<log, nread, nextPkt, latest, isLocked, silence, wdPc, mainPc, residue,
                     espCmd, espLock, espSeq, espLockSeq>>
      /\ rxPc = "sendmotion" /\ rxPc' \in {"recv", "exit"}
  BY DEF RxSendMotion, espVars, LoopHead
<1>2. latest \in 1 .. Len(log) /\ IsMotion(latest) /\ latest < nextPkt
  BY <1>0, <1>1 DEF TypeOK, RxInv
<1>3. /\ line \in Lines /\ line.kind = "motion" /\ line.n = latest
      /\ line.cmd = TwistToLR(log[latest].twist)
  BY <1>0, <1>2, MotionIsCommand DEF Lines, MotionLine
<1> HIDE DEF line
<1>4. /\ tty' \in Seq(Lines) /\ Len(tty') <= TtyCap
      /\ txHead' = txHead /\ attached' = attached
  BY <1>0, <1>1, <1>3, WriteEffect
<1>5. /\ LineInv' /\ GarbledInv'
      /\ \A i, j \in 1 .. Len(tty') :
           /\ i < j
           /\ tty'[i].kind = "motion" /\ tty'[j].kind = "motion"
           /\ tty'[i].n # 0 /\ tty'[j].n # 0
           => tty'[i].n < tty'[j].n
  <2>1. /\ espSeq < latest
        /\ \A i \in 1 .. Len(tty) : tty[i].kind = "motion" => tty[i].n < latest
    BY <1>0, <1>1, <1>2 DEF OrderInv
  <2>2. IsStop(latest) => IsStopLine(line)
    BY <1>3 DEF IsStop, IsStopLine
  <2>3. nextPkt \in Nat /\ nextPkt' = nextPkt
    BY <1>0, <1>1 DEF TypeOK
  <2> QED BY <1>0, <1>1, <1>2, <1>3, <2>1, <2>2, <2>3, WriteKeepsQueue
<1>6. TypeOK'
  BY <1>0, <1>1, <1>4 DEF TypeOK, Lines
<1>7. RxInv'
  BY <1>0, <1>1 DEF RxInv
<1>8. OrderInv'
  BY <1>0, <1>1, <1>5 DEF OrderInv
<1> QED BY <1>5, <1>6, <1>7, <1>8 DEF IInv

(* The stops the bridge sends on its own account: watchdog and shutdown.   *)
LEMMA StopStep == IInv /\ (WdSend \/ MainStop) => IInv'
<1> SUFFICES ASSUME IInv, WdSend \/ MainStop PROVE IInv'
  OBVIOUS
<1>0. TypeOK /\ RxInv /\ LineInv /\ OrderInv /\ GarbledInv
  BY DEF IInv
<1>1. /\ UNCHANGED <<log, nread, nextPkt, latest, rxPc, isLocked, silence, residue,
                     espCmd, espLock, espSeq, espLockSeq>>
      /\ wdPc' \in {"sleep", "check", "send", "exit", "dead"}
      /\ mainPc' \in {"run", "stop", "close", "closed"}
      /\ Write(StopLine) \/ UNCHANGED txVars
  BY <1>0 DEF TypeOK, WdSend, MainStop, LoopHead, rxVars, espVars
<1>2. RxInv'
  BY <1>0, <1>1 DEF RxInv, IsMotion, IsStop, IsGoodLock
<1>3. ~PortOk => ~PortOk'
  BY DEF PortOk, WdSend, MainStop, Write, txVars
<1>4. CASE UNCHANGED txVars
  BY <1>0, <1>1, <1>2, <1>3, <1>4
     DEF IInv, TypeOK, LineInv, OrderInv, GarbledInv, txVars, IsMotion, IsStop, IsStopLine
<1>5. CASE Write(StopLine)
  <2>1. /\ StopLine \in Lines /\ IsStopLine(StopLine)
        /\ StopLine.n = 0 /\ StopLine.cmd = Zero /\ StopLine.kind = "motion"
    BY ZeroIsCommand DEF StopLine, Lines, MotionLine, IsStopLine
  <2>2. /\ tty' \in Seq(Lines) /\ Len(tty') <= TtyCap
        /\ Len(tty') = Len(tty) + 1
        /\ \A i \in 1 .. Len(tty) : tty'[i] = tty[i]
        /\ tty'[Len(tty) + 1] = StopLine
        /\ txHead' = txHead /\ attached' = attached
    BY <1>0, <1>5, <2>1, WriteEffect
  <2>3. nextPkt \in Nat /\ 0 < nextPkt /\ nextPkt' = nextPkt
    BY <1>0, <1>1 DEF TypeOK
  <2>4. /\ LineInv' /\ GarbledInv'
        /\ \A i, j \in 1 .. Len(tty') :
             /\ i < j
             /\ tty'[i].kind = "motion" /\ tty'[j].kind = "motion"
             /\ tty'[i].n # 0 /\ tty'[j].n # 0
             => tty'[i].n < tty'[j].n
    BY <1>0, <1>1, <1>5, <2>1, <2>3, WriteKeepsQueue
  <2>5. TypeOK'
    BY <1>0, <1>1, <2>2 DEF TypeOK, Lines
  <2>6. OrderInv'
    <3>1. latest # 0 => 0 < latest
      BY <1>0 DEF TypeOK
    <3>2. ASSUME rxPc \in {"apply", "sendlock", "flush", "sendmotion"}, latest # 0,
                 NEW i \in 1 .. Len(tty'), tty'[i].kind = "motion"
          PROVE  tty'[i].n < latest
      <4>1. CASE i \in 1 .. Len(tty)
        BY <1>0, <2>2, <3>2, <4>1 DEF OrderInv
      <4>2. CASE i = Len(tty) + 1
        BY <2>1, <2>2, <3>1, <3>2, <4>2
      <4>3. Len(tty) \in Nat
        BY <1>0 DEF TypeOK
      <4> QED BY <2>2, <4>1, <4>2, <4>3
    <3> QED BY <1>0, <1>1, <2>4, <3>2 DEF OrderInv
  <2> QED BY <1>2, <2>4, <2>5, <2>6 DEF IInv
<1> QED BY <1>1, <1>4, <1>5

LEMMA TxEndStep == IInv /\ TxEnd => IInv'
<1> SUFFICES ASSUME IInv, TxEnd PROVE IInv'
  OBVIOUS
<1>0. TypeOK /\ RxInv /\ LineInv /\ OrderInv /\ GarbledInv
  BY DEF IInv
<1>1. /\ UNCHANGED <<log, nread, nextPkt, latest, rxPc, isLocked, silence, wdPc, mainPc, attached>>
      /\ Obey(Head(tty)) /\ residue' = FALSE /\ tty' = Tail(tty) /\ txHead' = FALSE
      /\ tty # <<>>
  BY <1>0 DEF TxEnd, LineInv, rxVars
<1>2. /\ tty' \in Seq(Lines) /\ Len(tty') = Len(tty) - 1
      /\ \A i \in 1 .. Len(tty') : tty'[i] = tty[i + 1]
      /\ Head(tty) = tty[1] /\ tty[1] \in Lines /\ 1 \in 1 .. Len(tty)
  BY <1>0, <1>1, TailEffect
<1>3. \A i \in 1 .. Len(tty') : i + 1 \in 1 .. Len(tty) /\ 1 < i + 1
  BY <1>0, <1>2 DEF TypeOK
<1> DEFINE line == tty[1]
<1>4. /\ line.kind \in {"motion", "lock"} /\ line.n \in Nat /\ line.n < nextPkt
      /\ line.kind = "motion" => line.cmd \in Commands
      /\ line.kind = "lock" => line.lock \in BOOLEAN
  BY <1>0, <1>2, LineFields DEF LineInv
<1>5. /\ espCmd' = espCmd \/ (line.kind = "motion" /\ espCmd' = line.cmd)
      /\ espSeq' = espSeq \/ (line.kind = "motion" /\ line.n # 0 /\ espSeq' = line.n)
      /\ espLockSeq' = espLockSeq \/ (line.kind = "lock" /\ espLockSeq' = line.n)
      /\ espLock' = espLock \/ (line.kind = "lock" /\ espLock' = line.lock)
  BY <1>1, <1>2 DEF Obey
<1>6. TypeOK'
  <2>1. Len(tty') <= TtyCap
    BY <1>0, <1>2, BridgeAssumption DEF TypeOK
  <2>2. espSeq' \in 0 .. nread' /\ espLockSeq' \in 0 .. nread'
    BY <1>0, <1>1, <1>4, <1>5, SMTT(30) DEF TypeOK
  <2>3. espCmd' \in Commands /\ espLock' \in BOOLEAN
    BY <1>0, <1>4, <1>5 DEF TypeOK
  <2> QED BY <1>0, <1>1, <1>2, <2>1, <2>2, <2>3, ZenonT(60) DEF TypeOK, Lines
<1>7. RxInv'
  BY <1>0, <1>1 DEF RxInv, IsMotion, IsStop, IsGoodLock
<1>8. LineInv'
  <2> SUFFICES ASSUME NEW i \in 1 .. Len(tty')
               PROVE  /\ tty'[i].n < nextPkt'
                      /\ tty'[i].kind = "motion" /\ tty'[i].n = 0 => tty'[i].cmd = Zero
                      /\ tty'[i].kind = "motion" /\ tty'[i].n # 0 =>
                           /\ log'[tty'[i].n].kind = "motion"
                           /\ log'[tty'[i].n].twist # NonFinite
                           /\ tty'[i].cmd = TwistToLR(log'[tty'[i].n].twist)
                           /\ espSeq' < tty'[i].n
    BY <1>1 DEF LineInv, IsMotion
  <2>1. i + 1 \in 1 .. Len(tty) /\ 1 < i + 1 /\ tty'[i] = tty[i + 1]
    BY <1>2, <1>3
  <2>2. ASSUME tty[i + 1].kind = "motion", tty[i + 1].n # 0
        PROVE  espSeq' < tty[i + 1].n
    <3>1. espSeq < tty[i + 1].n
      BY <1>0, <2>1, <2>2 DEF LineInv
    <3>2. ASSUME line.kind = "motion", line.n # 0
          PROVE  line.n < tty[i + 1].n
      BY <1>0, <1>2, <2>1, <2>2, <3>2 DEF OrderInv
    <3> QED BY <1>5, <3>1, <3>2
  <2> QED BY <1>0, <1>1, <2>1, <2>2 DEF LineInv, IsMotion
<1>9. OrderInv'
  <2>1. espSeq' < nextPkt' /\ espLockSeq' < nextPkt'
    BY <1>0, <1>1, <1>4, <1>5 DEF OrderInv
  <2>2. ASSUME NEW i \in 1 .. Len(tty'), NEW j \in 1 .. Len(tty'), i < j,
               tty'[i].kind = "motion", tty'[j].kind = "motion",
               tty'[i].n # 0, tty'[j].n # 0
        PROVE  tty'[i].n < tty'[j].n
    <3>1. /\ i + 1 \in 1 .. Len(tty) /\ j + 1 \in 1 .. Len(tty) /\ i + 1 < j + 1
          /\ tty'[i] = tty[i + 1] /\ tty'[j] = tty[j + 1]
      BY <1>2, <1>3, <2>2
    <3> QED BY <1>0, <2>2, <3>1 DEF OrderInv
  <2>3. ASSUME rxPc' \in {"apply", "sendlock", "flush", "sendmotion"}, latest' # 0
        PROVE  /\ espSeq' < latest'
               /\ \A i \in 1 .. Len(tty') : tty'[i].kind = "motion" => tty'[i].n < latest'
    <3>1. /\ espSeq < latest
          /\ \A i \in 1 .. Len(tty) : tty[i].kind = "motion" => tty[i].n < latest
      BY <1>0, <1>1, <2>3 DEF OrderInv
    <3> QED BY <1>1, <1>2, <1>3, <1>5, <3>1
  <2> QED BY <2>1, <2>2, <2>3 DEF OrderInv
<1>10. GarbledInv'
  BY <1>1 DEF GarbledInv
<1> QED BY <1>6, <1>7, <1>8, <1>9, <1>10 DEF IInv

LEMMA StutterStep == IInv /\ UNCHANGED vars => IInv'
BY DEF IInv, TypeOK, RxInv, LineInv, OrderInv, GarbledInv, vars, rxVars, espVars, txVars,
       IsMotion, IsStop, IsGoodLock, IsStopLine, PortOk

LEMMA NextIInv == IInv /\ [Next]_vars => IInv'
<1> SUFFICES ASSUME IInv, [Next]_vars PROVE IInv'
  OBVIOUS
<1>1. CASE Arrive
  BY <1>1, ArriveStep
<1>2. CASE Unplug
  BY <1>2, UnplugStep
<1>3. CASE Tick \/ WdLook \/ WdCheck \/ WdDies \/ Interrupt \/ MainClose \/ TxBegin
  BY <1>3, ControlStep
<1>4. CASE RxQuiet
  BY <1>4, RxQuietStep
<1>5. CASE RxFlush
  BY <1>5, RxFlushStep
<1>6. CASE RxSendLock
  BY <1>6, RxSendLockStep
<1>7. CASE RxSendMotion
  BY <1>7, RxSendMotionStep
<1>8. CASE WdSend \/ MainStop
  BY <1>8, StopStep
<1>9. CASE TxEnd
  BY <1>9, TxEndStep
<1>10. CASE UNCHANGED vars
  BY <1>10, StutterStep
<1> QED BY <1>1, <1>2, <1>3, <1>4, <1>5, <1>6, <1>7, <1>8, <1>9, <1>10
        DEF Next, Rx, Wd, Main, Tx, RxQuiet

LEMMA Inductive == Spec => []IInv
<1>1. Init => IInv
  BY InitIInv
<1>2. IInv /\ [Next]_vars => IInv'
  BY NextIInv
<1> QED BY <1>1, <1>2, PTL DEF Spec

(* The variables keep their types, for any packets, any queue length, any  *)
(* watchdog delay and however many packets arrive.                         *)
THEOREM TypeCorrect == Spec => []TypeOK
<1>1. IInv => TypeOK
  BY DEF IInv
<1> QED BY <1>1, Inductive, PTL

(* The line the ESP32 loses because reset_output_buffer() cut the one      *)
(* before it is always a stop.                                             *)
THEOREM OnlyStopsGarbled == Spec => []GarbledOnlyStop
<1>1. IInv => GarbledOnlyStop
  BY DEF IInv, GarbledInv, GarbledOnlyStop
<1> QED BY <1>1, Inductive, PTL

-----------------------------------------------------------------------------
(* The refinement of MotorCommands.                                        *)

LEMMA StepRefines == IInv /\ [Next]_vars => [MC!Next]_(MC!vars)
<1> SUFFICES ASSUME IInv, [Next]_vars PROVE [MC!Next]_(MC!vars)
  OBVIOUS
<1>0. TypeOK /\ LineInv
  BY DEF IInv
<1>1. CASE Arrive
  <2>1. PICK pkt \in Packets : log' = Append(log, pkt)
    BY <1>1 DEF Arrive
  <2>2. MC!Issue(pkt)
    BY <1>1, <2>1 DEF Arrive, espVars, MC!Issue
  <2> QED BY <2>2 DEF MC!Next
<1>2. CASE TxEnd
  <2>1. tty # <<>> /\ Head(tty) = tty[1] /\ 1 \in 1 .. Len(tty) /\ tty[1] \in Lines
    BY <1>0, <1>2, TailEffect DEF TxEnd, LineInv
  <2> DEFINE line == tty[1]
  <2>2. UNCHANGED log /\ Obey(line)
    BY <1>2, <2>1 DEF TxEnd
  <2>3. CASE residue \/ line.kind # "motion"
    BY <2>2, <2>3 DEF Obey, MC!vars
  <2>4. CASE ~residue /\ line.kind = "motion" /\ line.n = 0
    <3>1. espCmd' = Zero /\ espSeq' = espSeq
      BY <1>0, <2>1, <2>2, <2>4 DEF Obey, LineInv
    <3> QED BY <2>2, <3>1 DEF MC!Next, MC!Failsafe, MC!Zero, Zero
  <2>5. CASE ~residue /\ line.kind = "motion" /\ line.n # 0
    <3>1. espCmd' = TwistToLR(log[line.n].twist) /\ espSeq' = line.n
      BY <1>0, <2>1, <2>2, <2>5 DEF Obey, LineInv
    <3>2. IsMotion(line.n) /\ espSeq < line.n /\ line.n \in 1 .. Len(log)
      <4>1. line.n \in Nat /\ line.n < nextPkt
        BY <1>0, <2>1, LineFields DEF LineInv
      <4> QED BY <1>0, <2>1, <2>5, <4>1, SMTT(30) DEF LineInv, TypeOK
    <3>3. MC!Execute(line.n)
      BY <2>2, <3>1, <3>2 DEF MC!Execute, IsMotion, MC!TwistToLR, TwistToLR, MC!Clamp, Clamp,
                              MC!TruncDiv, TruncDiv
    <3> QED BY <3>2, <3>3 DEF MC!Next
  <2> QED BY <2>3, <2>4, <2>5
<1>3. CASE ~Arrive /\ ~TxEnd
  <2>1. UNCHANGED <<log, espCmd, espSeq>>
    BY <1>3 DEF Next, Tick, Unplug, Rx, RxRecv, RxDrainOne, RxDrained, RxLock, RxSendLock, RxDefer,
                RxSkip, RxMotion, RxFlush, RxSendMotion, RxDies, RxExit, Wd, WdLook, WdCheck,
                WdSend, WdDies, Interrupt, Main, MainStop, MainClose, Tx, TxBegin, vars, espVars
  <2> QED BY <2>1 DEF MC!vars
<1> QED BY <1>1, <1>2, <1>3

(* The drive bridge implements MotorCommands: whatever burst, coalescing,  *)
(* flush or watchdog stop happens in between, the motors execute only      *)
(* motions the PC sent, each at most once and never an older one after a   *)
(* newer one, or stop.                                                     *)
THEOREM BridgeRefinesMotorCommands == Spec => ImplementsMotorCommands
<1>1. Init => MC!Init
  BY DEF Init, MC!Init, Zero, MC!Zero
<1>2. IInv /\ [Next]_vars => [MC!Next]_(MC!vars)
  BY StepRefines
<1> QED BY <1>1, <1>2, Inductive, PTL DEF Spec, MC!Spec, ImplementsMotorCommands

-----------------------------------------------------------------------------
(* The fate of the lock lines, while no stop motion makes the receive      *)
(* thread flush the queue.                                                 *)

(* A queued lock is newer than the one the ESP32 took last and than every  *)
(* line before it in the queue, motions included.                          *)
LockOrderInv ==
  /\ ~attached => tty = <<>>
  /\ rxPc = "sendlock" => isLocked = log[nextPkt].state
  /\ \A j \in 1 .. Len(tty) : tty[j].kind = "lock" =>
       /\ espLockSeq < tty[j].n
       /\ \A i \in 1 .. Len(tty) : i < j => tty[i].n < tty[j].n

(* A lock packet that was handled is in the queue, or the ESP32 took it or *)
(* a newer one; nothing cuts a line off.                                   *)
RelayInv ==
  NoStopIn(log) =>
    /\ ~residue
    /\ rxPc # "flush"
    /\ attached => \A n \in 1 .. nextPkt - 1 : IsGoodLock(n) =>
         \/ n <= espLockSeq
         \/ \E i \in 1 .. Len(tty) : tty[i].kind = "lock" /\ tty[i].n = n

(* Except between the assignment of _is_locked and the write that follows  *)
(* it, the last lock of the queue, or the brake when there is none, is     *)
(* what the bridge believes.                                               *)
BrakeInv ==
  NoStopIn(log) /\ PortOk /\ rxPc # "sendlock" =>
    \/ /\ espLock = isLocked
       /\ \A i \in 1 .. Len(tty) : tty[i].kind # "lock"
    \/ \E i \in 1 .. Len(tty) :
         /\ tty[i].kind = "lock" /\ tty[i].lock = isLocked
         /\ \A j \in 1 .. Len(tty) : i < j => tty[j].kind # "lock"

LockInv == LockOrderInv /\ RelayInv /\ BrakeInv

LEMMA InitLockInv == Init => LockInv
<1> SUFFICES ASSUME Init PROVE LockInv
  OBVIOUS
<1>1. Len(tty) = 0 /\ \A n \in 1 .. nextPkt - 1 : FALSE
  BY DEF Init
<1>2. \A i \in 1 .. Len(tty) : FALSE
  BY <1>1
<1>3. LockOrderInv /\ RelayInv
  BY <1>1, <1>2 DEF Init, LockOrderInv, RelayInv
<1>4. BrakeInv
  BY <1>2 DEF Init, BrakeInv
<1> QED BY <1>3, <1>4 DEF LockInv

(* The log only grows: what is free of stops now always was.               *)
LEMMA NoStopEarlier ==
  ASSUME TypeOK, Arrive \/ UNCHANGED log, NoStopIn(log)'
  PROVE  NoStopIn(log)
<1>1. CASE Arrive
  <2>1. /\ log' \in Seq(Packets) /\ Len(log') = Len(log) + 1
        /\ \A n \in 1 .. Len(log) : IsStop(n)' = IsStop(n)
    BY <1>1, ArriveKeepsLog
  <2>2. Len(log) \in Nat /\ DOMAIN log = 1 .. Len(log) /\ DOMAIN log' = 1 .. Len(log')
    BY <2>1 DEF TypeOK
  <2>3. \A n \in 1 .. Len(log) : n \in 1 .. Len(log')
    BY <2>1, <2>2
  <2> QED BY <2>1, <2>2, <2>3 DEF NoStopIn
<1>2. CASE UNCHANGED log
  BY <1>2 DEF NoStopIn, IsStop, IsMotion
<1> QED BY <1>1, <1>2

(* Steps that leave the queue and the ESP32 alone.                         *)
LEMMA QueueIdleStep ==
  ASSUME IInv, LockInv,
         Arrive \/ RxQuiet
           \/ Tick \/ WdLook \/ WdCheck \/ WdDies \/ Interrupt \/ MainClose \/ TxBegin
           \/ (MainStop /\ UNCHANGED txVars) \/ UNCHANGED vars
  PROVE  LockInv'
<1>0. TypeOK /\ RxInv /\ LockOrderInv /\ RelayInv /\ BrakeInv
  BY DEF IInv, LockInv
<1>1. /\ UNCHANGED <<tty, attached, residue, espLock, espLockSeq>>
      /\ Arrive \/ UNCHANGED log
  BY DEF RxQuiet, RxRecv, RxDrainOne, RxDrained, RxLock, RxDefer, RxSkip, RxMotion, RxDies, RxExit,
         Arrive, Tick, WdLook, WdCheck, WdDies, Interrupt, MainClose, TxBegin, MainStop, vars,
         txVars, espVars
<1>2. /\ Len(log) \in Nat /\ nread \in 0 .. Len(log)
      /\ nextPkt \in 1 .. nread + 1 /\ latest \in 0 .. nread /\ isLocked \in BOOLEAN
  BY <1>0 DEF TypeOK
<1>3. \A n \in 1 .. Len(log) :
        log'[n] = log[n] /\ IsStop(n)' = IsStop(n) /\ IsGoodLock(n)' = IsGoodLock(n)
  BY <1>0, <1>1, ArriveKeepsLog DEF IsStop, IsMotion, IsGoodLock
<1>4. PortOk' => PortOk
  BY <1>1 DEF PortOk, RxQuiet, RxRecv, RxDrainOne, RxDrained, RxLock, RxDefer, RxSkip, RxMotion,
         RxDies, RxExit, Arrive, Tick, WdLook, WdCheck, WdDies, Interrupt, MainClose, TxBegin,
         MainStop, vars
<1>5. \/ RxLock
      \/ /\ isLocked' = isLocked
         /\ rxPc' = "sendlock" => rxPc = "sendlock" /\ nextPkt' = nextPkt
         /\ rxPc = "sendlock" => rxPc' = "sendlock" \/ ~PortOk
  BY DEF RxQuiet, InBatch, BatchDone, AfterBatch, LoopHead, RxRecv, RxDrainOne, RxDrained, RxDefer,
         RxSkip, RxMotion, RxDies, RxExit, Arrive, Tick, WdLook, WdCheck, WdDies, Interrupt,
         MainClose, TxBegin, MainStop, vars, rxVars
<1>6. \/ nextPkt' = nextPkt
      \/ nextPkt' = nextPkt + 1 /\ nextPkt \in 1 .. Len(log) /\ ~IsGoodLock(nextPkt)
  <2>1. CASE RxDefer
    BY <1>2, <2>1 DEF RxDefer, InBatch, IsGoodLock
  <2>2. CASE RxSkip
    BY <1>2, <2>2 DEF RxSkip, InBatch
  <2>3. CASE ~RxDefer /\ ~RxSkip
    BY <2>3 DEF RxQuiet, RxRecv, RxDrainOne, RxDrained, RxLock, RxMotion, RxDies, RxExit, Arrive,
         Tick, WdLook, WdCheck, WdDies, Interrupt, MainClose, TxBegin, MainStop, vars, rxVars
  <2> QED BY <2>1, <2>2, <2>3
<1>7. LockOrderInv'
  <2>1. ASSUME rxPc' = "sendlock" PROVE isLocked' = log'[nextPkt'].state
    <3>1. CASE RxLock
      BY <3>1 DEF RxLock
    <3>2. CASE ~RxLock
      <4>1. rxPc = "sendlock" /\ nextPkt' = nextPkt /\ isLocked' = isLocked
        BY <1>5, <2>1, <3>2
      <4>2. nextPkt \in 1 .. Len(log)
        BY <1>0, <1>2, <4>1 DEF RxInv
      <4> QED BY <1>0, <1>3, <4>1, <4>2 DEF LockOrderInv
    <3> QED BY <3>1, <3>2
  <2> QED BY <1>0, <1>1, <2>1 DEF LockOrderInv
<1>8. RelayInv'
  <2> SUFFICES ASSUME NoStopIn(log)'
               PROVE  /\ ~residue'
                      /\ rxPc' # "flush"
                      /\ attached' => \A n \in 1 .. nextPkt' - 1 : IsGoodLock(n)' =>
                           \/ n <= espLockSeq'
                           \/ \E i \in 1 .. Len(tty') : tty'[i].kind = "lock" /\ tty'[i].n = n
    BY DEF RelayInv
  <2>1. NoStopIn(log)
    BY <1>0, <1>1, NoStopEarlier
  <2>2. rxPc' # "flush"
    <3>1. CASE RxMotion
      <4>1. latest # 0 => ~IsStop(latest)
        BY <1>0, <1>2, <2>1 DEF NoStopIn, TypeOK
      <4> QED BY <3>1, <4>1 DEF RxMotion, AfterBatch, LoopHead
    <3>2. CASE ~RxMotion
      <4>1. rxPc # "flush"
        BY <1>0, <2>1 DEF RelayInv
      <4> QED BY <3>2, <4>1 DEF RxQuiet, RxRecv, RxDrainOne, RxDrained, RxLock, RxDefer, RxSkip,
           RxDies, RxExit, Arrive, Tick, WdLook, WdCheck, WdDies, Interrupt, MainClose, TxBegin,
           MainStop, vars, rxVars
    <3> QED BY <3>1, <3>2
  <2>3. ASSUME attached, NEW n \in 1 .. nextPkt' - 1, IsGoodLock(n)'
        PROVE  n \in 1 .. nextPkt - 1 /\ IsGoodLock(n)
    <3>1. n \in 1 .. Len(log)
      BY <1>2, <1>6
    <3> QED BY <1>2, <1>3, <1>6, <2>3, <3>1
  <2> QED BY <1>0, <1>1, <2>1, <2>2, <2>3 DEF RelayInv
<1>9. BrakeInv'
  <2> SUFFICES ASSUME NoStopIn(log)', PortOk', rxPc' # "sendlock"
               PROVE  \/ /\ espLock' = isLocked'
                         /\ \A i \in 1 .. Len(tty') : tty'[i].kind # "lock"
                      \/ \E i \in 1 .. Len(tty') :
                           /\ tty'[i].kind = "lock" /\ tty'[i].lock = isLocked'
                           /\ \A j \in 1 .. Len(tty') : i < j => tty'[j].kind # "lock"
    BY DEF BrakeInv
  <2>1. NoStopIn(log) /\ PortOk
    BY <1>0, <1>1, <1>4, NoStopEarlier
  <2>2. isLocked' = isLocked /\ rxPc # "sendlock"
    BY <1>5, <2>1 DEF RxLock
  <2> QED BY <1>0, <1>1, <2>1, <2>2 DEF BrakeInv
<1> QED BY <1>7, <1>8, <1>9 DEF LockInv

LEMMA QueueDropStep ==
  ASSUME IInv, LockInv, Unplug \/ RxFlush
  PROVE  LockInv'
<1>0. TypeOK /\ RxInv /\ LockOrderInv /\ RelayInv /\ BrakeInv
  BY DEF IInv, LockInv
<1>1. tty' = <<>> /\ log' = log /\ isLocked' = isLocked /\ nextPkt' = nextPkt
  BY DEF Unplug, RxFlush, rxVars
<1>2. RxFlush => ~NoStopIn(log)'
  BY <1>0, <1>1 DEF RxFlush, RelayInv, NoStopIn, IsStop, IsMotion
<1>3. Unplug => ~attached' /\ ~PortOk' /\ residue' = residue /\ rxPc' = rxPc
  BY DEF Unplug, PortOk, rxVars, espVars
<1>4. NoStopIn(log)' => NoStopIn(log)
  BY <1>0, <1>1, NoStopEarlier
<1>5. LockOrderInv'
  <2>1. rxPc' = "sendlock" => rxPc = "sendlock"
    BY DEF Unplug, RxFlush, rxVars
  <2> QED BY <1>0, <1>1, <2>1 DEF LockOrderInv
<1>6. RelayInv' /\ BrakeInv'
  BY <1>0, <1>2, <1>3, <1>4 DEF RelayInv, BrakeInv
<1> QED BY <1>5, <1>6 DEF LockInv

(* A motion appended to the queue: of the PC, of the watchdog, of main.    *)
LEMMA MotionWriteStep ==
  ASSUME IInv, LockInv, RxSendMotion \/ WdSend \/ (MainStop /\ Write(StopLine))
  PROVE  LockInv'
<1>0. TypeOK /\ RxInv /\ LockOrderInv /\ RelayInv /\ BrakeInv
  BY DEF IInv, LockInv
<1>1. PICK line \in Lines : Write(line) /\ line.kind = "motion"
  <2>1. CASE RxSendMotion
    <3>1. latest \in 1 .. Len(log) /\ IsMotion(latest)
      BY <1>0, <2>1 DEF RxSendMotion, TypeOK, RxInv
    <3>2. TwistToLR(log[latest].twist) \in Commands
      BY <1>0, <3>1, MotionIsCommand
    <3> QED BY <2>1, <3>1, <3>2 DEF RxSendMotion, Lines, MotionLine
  <2>2. CASE WdSend \/ (MainStop /\ Write(StopLine))
    BY <2>2, ZeroIsCommand DEF WdSend, StopLine, Lines, MotionLine
  <2> QED BY <2>1, <2>2
<1>2. /\ Len(tty') = Len(tty) + 1
      /\ \A i \in 1 .. Len(tty) : tty'[i] = tty[i]
      /\ tty'[Len(tty) + 1] = line
      /\ attached' = attached /\ PortOk
  BY <1>0, <1>1, WriteEffect
<1>3. Len(tty) \in Nat
  BY <1>0 DEF TypeOK
<1>4. \A i \in 1 .. Len(tty') : i = Len(tty) + 1 \/ i \in 1 .. Len(tty)
  BY <1>2, <1>3
<1>5. \A i \in 1 .. Len(tty') : tty'[i].kind = "lock" => i \in 1 .. Len(tty) /\ tty'[i] = tty[i]
  BY <1>1, <1>2, <1>4
<1>6. /\ UNCHANGED <<log, nextPkt, isLocked, residue, espLock, espLockSeq>>
      /\ \/ rxPc' \in {"recv", "exit"} /\ rxPc # "sendlock"
         \/ rxPc' = rxPc
  BY DEF RxSendMotion, WdSend, MainStop, LoopHead, rxVars, espVars
<1>7. NoStopIn(log)' => NoStopIn(log)
  BY <1>0, <1>6, NoStopEarlier
<1>8. LockOrderInv'
  <2>1. ~attached' => FALSE
    BY <1>2 DEF PortOk
  <2>2. rxPc' = "sendlock" => isLocked' = log'[nextPkt'].state
    BY <1>0, <1>6 DEF LockOrderInv
  <2>3. ASSUME NEW j \in 1 .. Len(tty'), tty'[j].kind = "lock"
        PROVE  /\ espLockSeq' < tty'[j].n
               /\ \A i \in 1 .. Len(tty') : i < j => tty'[i].n < tty'[j].n
    <3>1. j \in 1 .. Len(tty) /\ tty'[j] = tty[j]
      BY <1>5, <2>3
    <3>2. \A i \in 1 .. Len(tty') : i < j => i \in 1 .. Len(tty) /\ tty'[i] = tty[i]
      BY <1>2, <1>3, <1>4, <3>1
    <3> QED BY <1>0, <1>6, <2>3, <3>1, <3>2 DEF LockOrderInv
  <2> QED BY <2>1, <2>2, <2>3 DEF LockOrderInv
<1>9. RelayInv'
  <2>1. \A n : IsGoodLock(n)' = IsGoodLock(n)
    BY <1>6 DEF IsGoodLock
  <2>2. \A i \in 1 .. Len(tty) : i \in 1 .. Len(tty')
    BY <1>2, <1>3
  <2> QED BY <1>0, <1>2, <1>6, <1>7, <2>1, <2>2 DEF RelayInv
<1>10. BrakeInv'
  <2> SUFFICES ASSUME NoStopIn(log)', rxPc' # "sendlock"
               PROVE  \/ /\ espLock' = isLocked'
                         /\ \A i \in 1 .. Len(tty') : tty'[i].kind # "lock"
                      \/ \E i \in 1 .. Len(tty') :
                           /\ tty'[i].kind = "lock" /\ tty'[i].lock = isLocked'
                           /\ \A j \in 1 .. Len(tty') : i < j => tty'[j].kind # "lock"
    BY DEF BrakeInv
  <2>1. NoStopIn(log) /\ PortOk /\ rxPc # "sendlock"
    BY <1>2, <1>6, <1>7
  <2>2. CASE espLock = isLocked /\ \A i \in 1 .. Len(tty) : tty[i].kind # "lock"
    BY <1>5, <1>6, <2>2
  <2>3. CASE \E i \in 1 .. Len(tty) :
               /\ tty[i].kind = "lock" /\ tty[i].lock = isLocked
               /\ \A j \in 1 .. Len(tty) : i < j => tty[j].kind # "lock"
    <3>1. PICK i \in 1 .. Len(tty) :
               /\ tty[i].kind = "lock" /\ tty[i].lock = isLocked
               /\ \A j \in 1 .. Len(tty) : i < j => tty[j].kind # "lock"
      BY <2>3
    <3>2. i \in 1 .. Len(tty') /\ tty'[i] = tty[i]
      BY <1>2, <1>3
    <3> QED BY <1>5, <1>6, <3>1, <3>2
  <2> QED BY <1>0, <2>1, <2>2, <2>3 DEF BrakeInv
<1> QED BY <1>8, <1>9, <1>10 DEF LockInv

LEMMA LockWriteStep ==
  ASSUME IInv, LockInv, RxSendLock
  PROVE  LockInv'
<1>0. TypeOK /\ RxInv /\ LineInv /\ OrderInv /\ LockOrderInv /\ RelayInv /\ BrakeInv
  BY DEF IInv, LockInv
<1> DEFINE line == [kind |-> "lock", lock |-> log[nextPkt].state, n |-> nextPkt]
<1>1. /\ Write(line)
      /\ UNCHANGED <<log, isLocked, residue, espLock, espLockSeq>>
      /\ nextPkt' = nextPkt + 1 /\ rxPc = "sendlock" /\ rxPc' = "apply"
  BY DEF RxSendLock, espVars
<1>2. nextPkt \in 1 .. Len(log) /\ IsGoodLock(nextPkt)
  BY <1>0, <1>1 DEF TypeOK, RxInv
<1>3. line \in Lines
  <2>1. log[nextPkt] \in Packets /\ log[nextPkt].kind = "lock"
    BY <1>0, <1>2 DEF TypeOK, IsGoodLock
  <2>2. log[nextPkt] \in LockPacket
    BY <2>1, BridgeAssumption DEF MotionPacket, OtherPacket, LockPacket
  <2> QED BY <1>2, <2>2 DEF LockPacket, Lines, LockLine
<1>4. line.kind = "lock" /\ line.n = nextPkt /\ line.lock = isLocked
  BY <1>0, <1>1 DEF LockOrderInv
<1> HIDE DEF line
<1>5. /\ Len(tty') = Len(tty) + 1
      /\ \A i \in 1 .. Len(tty) : tty'[i] = tty[i]
      /\ tty'[Len(tty) + 1] = line
      /\ attached' = attached /\ PortOk
  BY <1>0, <1>1, <1>3, WriteEffect
<1>6. Len(tty) \in Nat
  BY <1>0 DEF TypeOK
<1>7. \A i \in 1 .. Len(tty') : i = Len(tty) + 1 \/ i \in 1 .. Len(tty)
  BY <1>5, <1>6
<1>8. Len(tty) + 1 \in 1 .. Len(tty') /\ \A i \in 1 .. Len(tty) : i \in 1 .. Len(tty')
  BY <1>5, <1>6
<1>9. NoStopIn(log)' => NoStopIn(log)
  BY <1>0, <1>1, NoStopEarlier
<1>10. LockOrderInv'
  <2>1. ASSUME NEW j \in 1 .. Len(tty'), tty'[j].kind = "lock"
        PROVE  /\ espLockSeq' < tty'[j].n
               /\ \A i \in 1 .. Len(tty') : i < j => tty'[i].n < tty'[j].n
    <3>1. CASE j = Len(tty) + 1
      <4>1. \A i \in 1 .. Len(tty') : i < j => i \in 1 .. Len(tty) /\ tty'[i] = tty[i]
        BY <1>5, <1>6, <1>7, <3>1
      <4>2. tty'[j].n = nextPkt /\ espLockSeq' = espLockSeq
        BY <1>1, <1>4, <1>5, <3>1
      <4> QED BY <1>0, <4>1, <4>2 DEF LineInv, OrderInv
    <3>2. CASE j \in 1 .. Len(tty)
      <4>1. \A i \in 1 .. Len(tty') : i < j => i \in 1 .. Len(tty) /\ tty'[i] = tty[i]
        BY <1>5, <1>6, <1>7, <3>2
      <4> QED BY <1>0, <1>1, <1>5, <2>1, <3>2, <4>1 DEF LockOrderInv
    <3> QED BY <1>7, <3>1, <3>2
  <2> QED BY <1>1, <1>5, <2>1 DEF LockOrderInv, PortOk
<1>11. RelayInv'
  <2> SUFFICES ASSUME NoStopIn(log)', NEW n \in 1 .. nextPkt' - 1, IsGoodLock(n)
               PROVE  /\ ~residue'
                      /\ \/ n <= espLockSeq'
                         \/ \E i \in 1 .. Len(tty') : tty'[i].kind = "lock" /\ tty'[i].n = n
    <3>1. \A n : IsGoodLock(n)' = IsGoodLock(n)
      BY <1>1 DEF IsGoodLock
    <3>2. RelayInv => ~residue \/ ~NoStopIn(log)
      BY DEF RelayInv
    <3> QED BY <1>0, <1>1, <1>9, <3>1, <3>2 DEF RelayInv
  <2>1. ~residue /\ attached /\ \A m \in 1 .. nextPkt - 1 : IsGoodLock(m) =>
           \/ m <= espLockSeq
           \/ \E i \in 1 .. Len(tty) : tty[i].kind = "lock" /\ tty[i].n = m
    BY <1>0, <1>5, <1>9 DEF RelayInv, PortOk
  <2>2. n = nextPkt \/ n \in 1 .. nextPkt - 1
    BY <1>1, <1>2
  <2> QED BY <1>1, <1>4, <1>5, <1>8, <2>1, <2>2
<1>12. BrakeInv'
  <2>1. \A j \in 1 .. Len(tty') : ~(Len(tty) + 1 < j)
    BY <1>5, <1>6
  <2> QED BY <1>1, <1>4, <1>5, <1>8, <2>1 DEF BrakeInv
<1> QED BY <1>10, <1>11, <1>12 DEF LockInv

(* The ESP32 obeys the first line of the queue.                            *)
LEMMA ObeyStep ==
  ASSUME IInv, LockInv, TxEnd
  PROVE  LockInv'
<1>0. TypeOK /\ LineInv /\ LockOrderInv /\ RelayInv /\ BrakeInv
  BY DEF IInv, LockInv
<1>1. /\ UNCHANGED <<log, nextPkt, rxPc, isLocked, mainPc, attached>>
      /\ Obey(Head(tty)) /\ residue' = FALSE /\ tty' = Tail(tty) /\ tty # <<>>
  BY <1>0 DEF TxEnd, LineInv, rxVars
<1>2. /\ Len(tty') = Len(tty) - 1
      /\ \A i \in 1 .. Len(tty') : tty'[i] = tty[i + 1]
      /\ Head(tty) = tty[1] /\ tty[1] \in Lines /\ 1 \in 1 .. Len(tty)
  BY <1>0, <1>1, TailEffect
<1>3. \A i \in 1 .. Len(tty') : i + 1 \in 1 .. Len(tty) /\ 1 < i + 1
  BY <1>0, <1>2 DEF TypeOK
<1>4. \A i \in 1 .. Len(tty) : i = 1 \/ (i - 1 \in 1 .. Len(tty') /\ tty'[i - 1] = tty[i])
  BY <1>0, <1>2, SMTT(30) DEF TypeOK
<1>5. NoStopIn(log)' => NoStopIn(log) /\ ~residue
  BY <1>0, <1>1, NoStopEarlier DEF RelayInv
<1>6. \/ espLockSeq' = espLockSeq /\ espLock' = espLock /\ (residue \/ tty[1].kind # "lock")
      \/ espLockSeq' = tty[1].n /\ espLock' = tty[1].lock /\ tty[1].kind = "lock" /\ ~residue
  BY <1>1, <1>2, LineFields DEF Obey
<1>7. LockOrderInv'
  <2>1. ASSUME NEW j \in 1 .. Len(tty'), tty'[j].kind = "lock"
        PROVE  /\ espLockSeq' < tty'[j].n
               /\ \A i \in 1 .. Len(tty') : i < j => tty'[i].n < tty'[j].n
    <3>1. /\ j + 1 \in 1 .. Len(tty) /\ 1 < j + 1 /\ tty'[j] = tty[j + 1]
          /\ \A i \in 1 .. Len(tty') :
               i + 1 \in 1 .. Len(tty) /\ tty'[i] = tty[i + 1] /\ (i < j => i + 1 < j + 1)
      BY <1>2, <1>3
    <3>2. /\ espLockSeq < tty[j + 1].n
          /\ \A i \in 1 .. Len(tty) : i < j + 1 => tty[i].n < tty[j + 1].n
      BY <1>0, <2>1, <3>1 DEF LockOrderInv
    <3> QED BY <1>2, <1>6, <3>1, <3>2
  <2>2. attached
    BY <1>0, <1>1 DEF LockOrderInv
  <2> QED BY <1>0, <1>1, <2>1, <2>2 DEF LockOrderInv
<1>8. RelayInv'
  <2> SUFFICES ASSUME NoStopIn(log)', attached, NEW n \in 1 .. nextPkt - 1, IsGoodLock(n)
               PROVE  \/ n <= espLockSeq'
                      \/ \E i \in 1 .. Len(tty') : tty'[i].kind = "lock" /\ tty'[i].n = n
    <3>1. \A n : IsGoodLock(n)' = IsGoodLock(n)
      BY <1>1 DEF IsGoodLock
    <3> QED BY <1>0, <1>1, <1>5, <3>1 DEF RelayInv
  <2>1. \/ n <= espLockSeq
        \/ \E i \in 1 .. Len(tty) : tty[i].kind = "lock" /\ tty[i].n = n
    BY <1>0, <1>5 DEF RelayInv
  <2>2. CASE n <= espLockSeq
    <3>1. tty[1].kind = "lock" => espLockSeq < tty[1].n
      BY <1>0, <1>2 DEF LockOrderInv
    <3>2. n \in Int /\ espLockSeq \in Int /\ tty[1].n \in Int
      BY <1>0, <1>2, LineFields DEF TypeOK
    <3> QED BY <1>6, <2>2, <3>1, <3>2
  <2>3. CASE \E i \in 1 .. Len(tty) : tty[i].kind = "lock" /\ tty[i].n = n
    <3>1. PICK i \in 1 .. Len(tty) : tty[i].kind = "lock" /\ tty[i].n = n
      BY <2>3
    <3>2. CASE i = 1
      BY <1>5, <1>6, <3>1, <3>2
    <3>3. CASE i - 1 \in 1 .. Len(tty') /\ tty'[i - 1] = tty[i]
      BY <3>1, <3>3
    <3> QED BY <1>4, <3>2, <3>3
  <2> QED BY <2>1, <2>2, <2>3
<1>9. BrakeInv'
  <2> SUFFICES ASSUME NoStopIn(log)', PortOk', rxPc' # "sendlock"
               PROVE  \/ /\ espLock' = isLocked
                         /\ \A i \in 1 .. Len(tty') : tty'[i].kind # "lock"
                      \/ \E i \in 1 .. Len(tty') :
                           /\ tty'[i].kind = "lock" /\ tty'[i].lock = isLocked
                           /\ \A j \in 1 .. Len(tty') : i < j => tty'[j].kind # "lock"
    BY <1>1 DEF BrakeInv
  <2>1. NoStopIn(log) /\ PortOk /\ rxPc # "sendlock" /\ ~residue
    BY <1>1, <1>5 DEF PortOk
  <2>2. CASE espLock = isLocked /\ \A i \in 1 .. Len(tty) : tty[i].kind # "lock"
    BY <1>2, <1>3, <1>6, <2>2
  <2>3. CASE \E i \in 1 .. Len(tty) :
               /\ tty[i].kind = "lock" /\ tty[i].lock = isLocked
               /\ \A j \in 1 .. Len(tty) : i < j => tty[j].kind # "lock"
    <3>1. PICK i \in 1 .. Len(tty) :
               /\ tty[i].kind = "lock" /\ tty[i].lock = isLocked
               /\ \A j \in 1 .. Len(tty) : i < j => tty[j].kind # "lock"
      BY <2>3
    <3>2. CASE i = 1
      BY <1>2, <1>3, <1>6, <2>1, <3>1, <3>2
    <3>3. CASE i - 1 \in 1 .. Len(tty') /\ tty'[i - 1] = tty[i]
      <4>1. ASSUME NEW j \in 1 .. Len(tty'), i - 1 < j
            PROVE  tty'[j].kind # "lock"
        <5>1. j + 1 \in 1 .. Len(tty) /\ i < j + 1 /\ tty'[j] = tty[j + 1]
          BY <1>2, <1>3, <4>1
        <5> QED BY <3>1, <5>1
      <4> QED BY <3>1, <3>3, <4>1
    <3> QED BY <1>4, <3>2, <3>3
  <2> QED BY <1>0, <2>1, <2>2, <2>3 DEF BrakeInv
<1> QED BY <1>7, <1>8, <1>9 DEF LockInv

LEMMA NextLockInv == IInv /\ LockInv /\ [Next]_vars => LockInv'
<1> SUFFICES ASSUME IInv, LockInv, [Next]_vars PROVE LockInv'
  OBVIOUS
<1>1. CASE \/ Arrive \/ RxQuiet
           \/ Tick \/ WdLook \/ WdCheck \/ WdDies \/ Interrupt \/ MainClose \/ TxBegin
           \/ (MainStop /\ UNCHANGED txVars) \/ UNCHANGED vars
  BY <1>1, QueueIdleStep
<1>2. CASE Unplug \/ RxFlush
  BY <1>2, QueueDropStep
<1>3. CASE RxSendMotion \/ WdSend \/ (MainStop /\ Write(StopLine))
  BY <1>3, MotionWriteStep
<1>4. CASE RxSendLock
  BY <1>4, LockWriteStep
<1>5. CASE TxEnd
  BY <1>5, ObeyStep
<1>6. MainStop => Write(StopLine) \/ UNCHANGED txVars
  BY DEF MainStop
<1> QED BY <1>1, <1>2, <1>3, <1>4, <1>5, <1>6 DEF Next, Rx, Wd, Main, Tx, RxQuiet

LEMMA LockInductive == Spec => [](IInv /\ LockInv)
<1>1. Init => LockInv
  BY InitLockInv
<1>2. IInv /\ LockInv /\ [Next]_vars => LockInv'
  BY NextLockInv
<1> QED BY <1>1, <1>2, Inductive, PTL DEF Spec

(* Locks are lost only to the flush before a stop: without a stop motion,  *)
(* once every line is transmitted the brake is what the last lock packet   *)
(* asked, for any burst, any watchdog stop and any shutdown in between.    *)
THEOREM LocksReachTheBrake == Spec => []LockLostOnlyByStop
<1>1. IInv /\ LockInv => LockLostOnlyByStop
  <2> SUFFICES ASSUME IInv, LockInv, AllSent, NoStopIn(log)
               PROVE  /\ espLock = isLocked
                      /\ \A n \in 1 .. nextPkt - 1 : IsGoodLock(n) => n <= espLockSeq
    BY DEF LockLostOnlyByStop
  <2>1. PortOk /\ rxPc # "sendlock" /\ attached /\ Len(tty) = 0
    BY DEF AllSent, PortOk
  <2>2. ~ \E i \in 1 .. Len(tty) : TRUE
    BY <2>1
  <2>3. espLock = isLocked
    BY <2>1, <2>2 DEF LockInv, BrakeInv
  <2>4. \A n \in 1 .. nextPkt - 1 : IsGoodLock(n) => n <= espLockSeq
    BY <2>1, <2>2 DEF LockInv, RelayInv
  <2> QED BY <2>3, <2>4
<1> QED BY <1>1, LockInductive, PTL

(* "unlock-then-move sequences apply correctly": without a stop motion, no *)
(* motion takes effect before a lock packet that arrived earlier.          *)
THEOREM LocksBeforeLaterMotions == Spec => UnlockThenMove
<1>1. IInv /\ LockInv /\ [Next]_vars =>
        [espSeq' # espSeq /\ NoStopIn(log) =>
           \A n \in 1 .. espSeq' : IsGoodLock(n) => n <= espLockSeq]_vars
  <2> SUFFICES ASSUME IInv, LockInv, [Next]_vars, espSeq' # espSeq, NoStopIn(log),
                      NEW n \in 1 .. espSeq', IsGoodLock(n)
               PROVE  n <= espLockSeq
    OBVIOUS
  <2>0. TypeOK /\ LineInv /\ LockOrderInv /\ RelayInv
    BY DEF IInv, LockInv
  <2>1. TxEnd
    BY DEF Next, Arrive, Tick, Unplug, Rx, RxRecv, RxDrainOne, RxDrained, RxLock, RxSendLock,
           RxDefer, RxSkip, RxMotion, RxFlush, RxSendMotion, RxDies, RxExit, Wd, WdLook, WdCheck,
           WdSend, WdDies, Interrupt, Main, MainStop, MainClose, Tx, TxBegin, vars, espVars
  <2>2. tty # <<>> /\ Head(tty) = tty[1] /\ 1 \in 1 .. Len(tty) /\ tty[1] \in Lines
    BY <2>0, <2>1, TailEffect DEF TxEnd, LineInv
  <2>3. tty[1].kind = "motion" /\ tty[1].n # 0 /\ espSeq' = tty[1].n
    BY <2>1, <2>2 DEF TxEnd, Obey
  <2>4. IsMotion(tty[1].n) /\ tty[1].n < nextPkt /\ tty[1].n \in Nat
    BY <2>0, <2>2, <2>3, LineFields DEF LineInv
  <2>5. n # tty[1].n
    BY <2>4 DEF IsMotion, IsGoodLock
  <2>6. n \in 1 .. nextPkt - 1 /\ n < tty[1].n
    BY <2>0, <2>3, <2>4, <2>5 DEF TypeOK
  <2>7. attached
    BY <2>0, <2>2 DEF LockOrderInv
  <2>8. \/ n <= espLockSeq
        \/ \E i \in 1 .. Len(tty) : tty[i].kind = "lock" /\ tty[i].n = n
    BY <2>0, <2>6, <2>7 DEF RelayInv
  <2>9. ASSUME NEW i \in 1 .. Len(tty), tty[i].kind = "lock", tty[i].n = n
        PROVE  FALSE
    <3>1. i # 1
      BY <2>3, <2>9
    <3>2. 1 < i
      BY <3>1
    <3>3. tty[1].n < tty[i].n
      BY <2>0, <2>2, <2>9, <3>2 DEF LockOrderInv
    <3> QED BY <2>4, <2>6, <2>9, <3>3
  <2> QED BY <2>8, <2>9
<1> QED BY <1>1, LockInductive, PTL DEF Spec, UnlockThenMove
-----------------------------------------------------------------------------
(* The stop that the bridge sends of its own account.                      *)

(* The receive thread has no packet in hand. *)
RxIdle == rxPc \in {"recv", "drain", "exit", "dead"}

(* The PC is silent, or the receive thread is over. *)
Quiet == attached /\ (silence > WatchdogTicks \/ rxPc \in {"exit", "dead"})

(* Line i is a motion that the ESP32 will not lose to the rest of a line.  *)
Obeyed(i) == tty[i].kind = "motion" /\ (i = 1 => ~residue)

(* Once the queue is transmitted the tracks are stopped. *)
EndsStopped ==
  /\ espCmd = Zero \/ \E i \in 1 .. Len(tty) : Obeyed(i)
  /\ \A i \in 1 .. Len(tty) :
       Obeyed(i) /\ (\A j \in 1 .. Len(tty) : j > i => ~Obeyed(j)) => tty[i].cmd = Zero

(* They are stopped, and nothing in the queue moves them. *)
StandsStill == espCmd = Zero /\ \A i \in 1 .. Len(tty) : Obeyed(i) => tty[i].cmd = Zero

(* While it is quiet only the bridge's own stops are written. *)
LEMMA QuietSteps ==
  ASSUME IInv, RxIdle, Quiet', [Next]_vars
  PROVE  /\ RxIdle'
         /\ \/ UNCHANGED <<tty, residue, espCmd>>
            \/ Write(StopLine) /\ UNCHANGED <<residue, espCmd>>
            \/ TxEnd
<1>1. ASSUME Rx PROVE RxIdle' /\ UNCHANGED <<tty, residue, espCmd>>
  <2>1. silence' > WatchdogTicks \/ rxPc' \in {"exit", "dead"}
    BY DEF Quiet
  <2>2. RxRecv \/ RxDrainOne \/ RxDrained \/ RxExit
    BY <1>1 DEF RxIdle, Rx, RxLock, InBatch, RxSendLock, RxDefer, RxSkip, RxMotion, BatchDone,
                RxFlush, RxSendMotion, RxDies
  <2>3. ~RxDrained
    BY <2>1, BridgeAssumption DEF RxDrained
  <2> QED BY <2>2, <2>3 DEF RxIdle, RxRecv, RxDrainOne, RxExit, txVars, espVars
<1>2. CASE Wd \/ Main
  <2>1. rxPc' = rxPc
    BY <1>2 DEF Wd, WdLook, WdCheck, WdSend, WdDies, Main, MainStop, MainClose, rxVars
  <2>2. UNCHANGED <<residue, espCmd>> /\ (Write(StopLine) \/ UNCHANGED tty)
    BY <1>2 DEF Wd, WdLook, WdCheck, WdSend, WdDies, Main, MainStop, MainClose, txVars, espVars
  <2> QED BY <2>1, <2>2 DEF RxIdle
<1>3. CASE Arrive \/ Tick \/ Interrupt \/ TxBegin \/ UNCHANGED vars
  BY <1>3 DEF RxIdle, Arrive, Tick, Interrupt, TxBegin, vars, rxVars, txVars, espVars
<1>4. CASE TxEnd
  BY <1>4 DEF RxIdle, TxEnd, rxVars
<1>5. ~Unplug
  BY DEF Quiet, Unplug
<1> QED BY <1>1, <1>2, <1>3, <1>4, <1>5 DEF Next, Tx

LEMMA StopLineWritten ==
  ASSUME TypeOK, Write(StopLine), UNCHANGED residue
  PROVE  /\ Len(tty) \in Nat /\ Len(tty') = Len(tty) + 1
         /\ \A i \in 1 .. Len(tty) : tty'[i] = tty[i] /\ Obeyed(i)' = Obeyed(i)
         /\ \A k \in 1 .. Len(tty') : k = Len(tty) + 1 =>
              tty'[k].cmd = Zero /\ (Obeyed(k)' \/ (residue /\ tty = <<>>))
<1>1. StopLine \in Lines /\ StopLine.cmd = Zero /\ StopLine.kind = "motion"
  BY ZeroIsCommand DEF StopLine, Lines, MotionLine
<1>2. /\ Len(tty) \in Nat /\ Len(tty') = Len(tty) + 1
      /\ \A i \in 1 .. Len(tty) : tty'[i] = tty[i]
      /\ tty'[Len(tty) + 1] = StopLine
  BY <1>1, WriteEffect DEF TypeOK
<1>3. Len(tty) = 0 => tty = <<>>
  BY DEF TypeOK
<1>4. \A i \in 1 .. Len(tty) : Obeyed(i)' = Obeyed(i)
  BY <1>2, Zenon DEF Obeyed
<1>5. ASSUME NEW k \in 1 .. Len(tty'), k = Len(tty) + 1
      PROVE  tty'[k].cmd = Zero /\ (Obeyed(k)' \/ (residue /\ tty = <<>>))
  <2>1. tty'[k] = StopLine /\ (k = 1 => tty = <<>>)
    BY <1>2, <1>3, <1>5
  <2>2. ASSUME ~(residue /\ tty = <<>>) PROVE Obeyed(k)'
    BY <1>1, <2>1, <2>2, Zenon DEF Obeyed
  <2> QED BY <1>1, <2>1, <2>2
<1> QED BY <1>2, <1>4, <1>5

(* A stop at the end of the queue decides, unless it is the line that the  *)
(* ESP32 loses.                                                            *)
LEMMA StopDecides ==
  ASSUME TypeOK, Write(StopLine), UNCHANGED residue, ~(residue /\ tty = <<>>)
  PROVE  EndsStopped'
<1>1. /\ Len(tty) \in Nat /\ Len(tty') = Len(tty) + 1
      /\ \A k \in 1 .. Len(tty') : k = Len(tty) + 1 => tty'[k].cmd = Zero /\ Obeyed(k)'
  BY StopLineWritten
<1>2. PICK k \in 1 .. Len(tty') : k = Len(tty) + 1
  BY <1>1
<1>3. \A i \in 1 .. Len(tty') : i = k \/ k > i
  BY <1>1, <1>2
<1> QED BY <1>1, <1>2, <1>3 DEF EndsStopped

LEMMA StopKeeps ==
  ASSUME TypeOK, Write(StopLine), UNCHANGED <<residue, espCmd>>
  PROVE  (EndsStopped => EndsStopped') /\ (StandsStill => StandsStill')
<1>1. /\ Len(tty) \in Nat /\ Len(tty') = Len(tty) + 1
      /\ \A i \in 1 .. Len(tty) : tty'[i] = tty[i] /\ Obeyed(i)' = Obeyed(i)
      /\ \A k \in 1 .. Len(tty') : k = Len(tty) + 1 => tty'[k].cmd = Zero
  BY StopLineWritten
<1>2. ASSUME EndsStopped PROVE EndsStopped'
  <2>1. CASE residue /\ tty = <<>>
    <3>1. Len(tty) = 0
      BY <2>1
    <3>2. \A i \in 1 .. Len(tty') : i = Len(tty) + 1
      BY <1>1, <3>1
    <3>3. espCmd' = Zero
      BY <1>2, <3>1 DEF EndsStopped
    <3> QED BY <1>1, <3>2, <3>3 DEF EndsStopped
  <2> QED BY <2>1, StopDecides
<1>3. ASSUME StandsStill PROVE StandsStill'
  <2>1. \A i \in 1 .. Len(tty') : i \in 1 .. Len(tty) \/ i = Len(tty) + 1
    BY <1>1
  <2> QED BY <1>1, <1>3, <2>1 DEF StandsStill
<1> QED BY <1>2, <1>3

(* The line that is transmitted is obeyed or lost; the others move up. *)
LEMMA TransmitKeeps ==
  ASSUME IInv, TxEnd
  PROVE  (EndsStopped => EndsStopped') /\ (StandsStill => StandsStill')
<1>0. TypeOK /\ tty # <<>>
  BY DEF IInv, TxEnd, LineInv
<1>1. /\ Len(tty) \in Nat \ {0} /\ Len(tty') = Len(tty) - 1
      /\ \A i \in 1 .. Len(tty') : tty'[i] = tty[i + 1]
      /\ Head(tty) = tty[1] /\ tty[1] \in Lines
  <2>1. Len(tty) \in Nat \ {0}
    BY <1>0 DEF TypeOK
  <2> QED BY <1>0, <2>1, TailEffect DEF TxEnd
<1>2. tty[1].kind \in {"motion", "lock"}
  BY <1>1, LineFields
<1>3. residue' = FALSE /\ Obey(tty[1])
  BY <1>1 DEF TxEnd
<1>4. \A i \in 1 .. Len(tty') : Obeyed(i)' = Obeyed(i + 1) /\ i + 1 \in 1 .. Len(tty)
  <2> SUFFICES ASSUME NEW i \in 1 .. Len(tty')
               PROVE  Obeyed(i)' = Obeyed(i + 1) /\ i + 1 \in 1 .. Len(tty)
    OBVIOUS
  <2>1. i + 1 # 1 /\ i + 1 \in 1 .. Len(tty) /\ tty'[i] = tty[i + 1]
    BY <1>1
  <2> QED BY <1>3, <2>1 DEF Obeyed
<1>5. \A i \in 1 .. Len(tty) : i # 1 => \E k \in 1 .. Len(tty') : k + 1 = i
  <2> SUFFICES ASSUME NEW i \in 1 .. Len(tty), i # 1 PROVE i - 1 \in 1 .. Len(tty') /\ (i - 1) + 1 = i
    OBVIOUS
  <2> QED BY <1>1
<1>6. espCmd' = IF Obeyed(1) THEN tty[1].cmd ELSE espCmd
  BY <1>2, <1>3 DEF Obey, Obeyed
<1>7. 1 \in 1 .. Len(tty)
  BY <1>1
<1>8. ASSUME EndsStopped PROVE EndsStopped'
  <2>1. espCmd' = Zero \/ \E k \in 1 .. Len(tty') : Obeyed(k)'
    <3>1. CASE \E i \in 1 .. Len(tty) : i # 1 /\ Obeyed(i)
      BY <1>4, <1>5, <3>1
    <3>2. CASE \A i \in 1 .. Len(tty) : i # 1 => ~Obeyed(i)
      <4>1. Obeyed(1) => tty[1].cmd = Zero
        <5>1. \A j \in 1 .. Len(tty) : j > 1 => ~Obeyed(j)
          BY <1>1, <3>2
        <5> QED BY <1>7, <1>8, <5>1 DEF EndsStopped
      <4>2. Obeyed(1) \/ espCmd = Zero
        BY <1>8, <3>2 DEF EndsStopped
      <4> QED BY <1>6, <4>1, <4>2
    <3> QED BY <3>1, <3>2
  <2>2. ASSUME NEW k \in 1 .. Len(tty'), Obeyed(k)',
               \A j \in 1 .. Len(tty') : j > k => ~Obeyed(j)'
        PROVE  tty'[k].cmd = Zero
    <3>1. Obeyed(k + 1) /\ k + 1 \in 1 .. Len(tty) /\ tty'[k] = tty[k + 1]
      BY <1>1, <1>4, <2>2
    <3>2. ASSUME NEW j \in 1 .. Len(tty), j > k + 1 PROVE ~Obeyed(j)
      <4>1. j - 1 \in 1 .. Len(tty') /\ j - 1 > k /\ (j - 1) + 1 = j
        BY <1>1, <3>2
      <4> QED BY <1>4, <2>2, <4>1
    <3> QED BY <1>8, <3>1, <3>2 DEF EndsStopped
  <2> QED BY <2>1, <2>2 DEF EndsStopped
<1>9. ASSUME StandsStill PROVE StandsStill'
  <2>1. espCmd' = Zero
    BY <1>6, <1>7, <1>9 DEF StandsStill
  <2>2. \A k \in 1 .. Len(tty') : Obeyed(k)' => tty'[k].cmd = Zero
    BY <1>1, <1>4, <1>9 DEF StandsStill
  <2> QED BY <2>1, <2>2 DEF StandsStill
<1> QED BY <1>8, <1>9

LEMMA QuietKeeps ==
  ASSUME IInv, RxIdle, Quiet', [Next]_vars
  PROVE  RxIdle' /\ (EndsStopped => EndsStopped') /\ (StandsStill => StandsStill')
<1>1. TypeOK
  BY DEF IInv
<1>2. /\ RxIdle'
      /\ \/ UNCHANGED <<tty, residue, espCmd>>
         \/ Write(StopLine) /\ UNCHANGED <<residue, espCmd>>
         \/ TxEnd
  BY QuietSteps
<1>3. ASSUME UNCHANGED <<tty, residue, espCmd>>
      PROVE  (EndsStopped => EndsStopped') /\ (StandsStill => StandsStill')
  BY <1>3 DEF EndsStopped, StandsStill, Obeyed
<1>4. ASSUME Write(StopLine), UNCHANGED <<residue, espCmd>>
      PROVE  (EndsStopped => EndsStopped') /\ (StandsStill => StandsStill')
  BY <1>1, <1>4, StopKeeps
<1>5. ASSUME TxEnd
      PROVE  (EndsStopped => EndsStopped') /\ (StandsStill => StandsStill')
  BY <1>5, TransmitKeeps
<1> QED BY <1>2, <1>3, <1>4, <1>5

(* A stop of the watchdog or of the shutdown, sent while the receive       *)
(* thread has no packet in hand, is never the line that the ESP32 loses to *)
(* a cut-off one: when the queue is transmitted the tracks are stopped.    *)
THEOREM OwnStopDecides ==
  Spec => [][(WdSend \/ MainStop) /\ RxIdle /\ attached => EndsStopped']_vars
<1>1. IInv /\ [Next]_vars => [(WdSend \/ MainStop) /\ RxIdle /\ attached => EndsStopped']_vars
  <2> SUFFICES ASSUME IInv, WdSend \/ MainStop, RxIdle, attached PROVE EndsStopped'
    OBVIOUS
  <2>1. Write(StopLine) /\ UNCHANGED residue
    BY DEF WdSend, MainStop, espVars
  <2>2. ~(residue /\ tty = <<>>)
    BY <2>1 DEF IInv, GarbledInv, Write, RxIdle
  <2> QED BY <2>1, <2>2, StopDecides DEF IInv
<1> QED BY <1>1, Inductive, PTL DEF Spec

(* From then on, as long as the PC is silent or the receive thread is      *)
(* over, whatever else happens: when the queue is transmitted the tracks   *)
(* are stopped (what WatchdogStops promises, without the progress, and     *)
(* ShutdownStops where the receive thread has no packet in hand).          *)
THEOREM QuietEndsStopped ==
  Spec => [](RxIdle /\ EndsStopped /\ []Quiet => [](tty = <<>> => espCmd = Zero))
<1>1. IInv /\ RxIdle /\ EndsStopped /\ Quiet' /\ [Next]_vars => RxIdle' /\ EndsStopped'
  BY QuietKeeps
<1>2. EndsStopped => (tty = <<>> => espCmd = Zero)
  <2> SUFFICES ASSUME EndsStopped, tty = <<>> PROVE espCmd = Zero
    OBVIOUS
  <2>1. Len(tty) = 0
    OBVIOUS
  <2> QED BY <2>1 DEF EndsStopped
<1> QED BY <1>1, <1>2, Inductive, PTL DEF Spec

(* Tracks that stand still do so until a packet is handled: no line in the *)
(* queue, no flush, no shutdown and no rest of a line moves them.          *)
THEOREM QuietStaysStopped ==
  Spec => [](RxIdle /\ StandsStill /\ []Quiet => [](espCmd = Zero))
<1>1. IInv /\ RxIdle /\ StandsStill /\ Quiet' /\ [Next]_vars => RxIdle' /\ StandsStill'
  BY QuietKeeps
<1>2. StandsStill => espCmd = Zero
  BY DEF StandsStill
<1> QED BY <1>1, <1>2, Inductive, PTL DEF Spec
=============================================================================
