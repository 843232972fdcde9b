----------------------------- MODULE DriveBridge -----------------------------
(***************************************************************************)
(* ESP32Bridge of UDP.py: the process between the PC's joystick packets    *)
(* (UDP, port 3390) and the ESP32 that drives the tracks (serial line).    *)
(*                                                                         *)
(*   Rx    the receive thread: takes a burst of packets, relays the locks  *)
(*         in order and then the newest motion of the burst                *)
(*   Wd    the watchdog thread: sends a stop once the PC is silent         *)
(*   Main  waits for Ctrl+C, then sends a stop and closes the port         *)
(*   Tx    the kernel's serial output queue and the UART behind it         *)
(*   Esp   the motor controller: a line assembler and a command state      *)
(*                                                                         *)
(* The three threads share _is_locked, _last_recv, _running and the port,  *)
(* without a lock.  A packet is known by its index in log, the sequence of *)
(* the packets that reached the socket: any sequence may arrive, which     *)
(* covers what UDP loses, repeats and reorders on the way.                 *)
(***************************************************************************)
EXTENDS TrackMixer, Sequences

CONSTANTS
  Packets,        \* the datagrams the PC may send
  WatchdogTicks,  \* WATCHDOG_SEC in ticks of the model's clock
  TtyCap,         \* lines the serial output queue holds before write() blocks
  MaxPkts         \* bound: datagrams that arrive in a behaviour

MotionPacket == [kind : {"motion"}, twist : (Int \X Int) \cup {NonFinite}]
LockPacket   == [kind : {"lock"}, state : BOOLEAN, marker : BOOLEAN]
OtherPacket  == [kind : {"other"}]

ASSUME BridgeAssumption ==
  /\ Packets \subseteq (MotionPacket \cup LockPacket \cup OtherPacket)
  /\ WatchdogTicks \in Nat
  /\ TtyCap \in Nat \ {0}
  /\ MaxPkts \in Nat

VARIABLES
  log,        \* datagrams that reached the socket, in arrival order
  nread,      \* how many of them recvfrom() returned
  nextPkt,    \* the next one of the batch to handle: the batch ends at nread
  latest,     \* latest_motion, as an index in log; 0 is None
  rxPc,       \* where the receive thread is
  isLocked,   \* self._is_locked
  silence,    \* time.time() - self._last_recv, in ticks
  wdPc,       \* where the watchdog thread is
  mainPc,     \* where the main thread is
  tty,        \* lines written to the port and not wholly transmitted
  txHead,     \* part of the first line of tty is on the wire
  attached,   \* the adapter is plugged in
  residue,    \* the ESP32 holds the beginning of a line that was cut off
  espCmd,     \* the track speeds the ESP32 executes
  espLock,    \* the brake state of the ESP32
  espSeq,     \* history: the packet whose motion the ESP32 took last
  espLockSeq  \* history: the packet whose lock the ESP32 took last

rxVars  == <<nread, nextPkt, latest, rxPc, isLocked>>
espVars == <<residue, espCmd, espLock, espSeq, espLockSeq>>
txVars  == <<tty, txHead, attached>>
vars == <<log, rxVars, silence, wdPc, mainPc, txVars, espVars>>

-----------------------------------------------------------------------------
(* The lines written to the ESP32: {"T": 1, "l", "r"} and {"T": 2, "lock"}.*)
(* n is the packet a line answers, 0 for the stops the bridge sends on its *)
(* own account.                                                            *)

MotionLine == [kind : {"motion"}, cmd : Commands, n : Nat]
LockLine   == [kind : {"lock"}, lock : BOOLEAN, n : Nat]

StopLine == [kind |-> "motion", cmd |-> Zero, n |-> 0]

IsStopLine(line) == line.kind = "motion" /\ line.cmd = Zero

IsMotion(n)   == log[n].kind = "motion" /\ log[n].twist # NonFinite
IsStop(n)     == IsMotion(n) /\ TwistToLR(log[n].twist) = Zero
IsGoodLock(n) == log[n].kind = "lock" /\ log[n].marker

running == mainPc = "run"                    \* self._running
PortOk  == attached /\ mainPc # "closed"     \* write() does not raise

(* self.ser.write(): blocks while the queue is full. *)
Write(line) ==
  /\ PortOk
  /\ Len(tty) < TtyCap
  /\ tty' = Append(tty, line)
  /\ UNCHANGED <<txHead, attached>>

LoopHead(top) == IF running THEN top ELSE "exit"

Init ==
  /\ log = <<>> /\ nread = 0 /\ nextPkt = 1 /\ latest = 0
  /\ rxPc = "recv" /\ wdPc = "sleep" /\ mainPc = "run"
  /\ isLocked = FALSE /\ silence = 0
  /\ tty = <<>> /\ txHead = FALSE /\ attached = TRUE
  /\ residue = FALSE /\ espCmd = Zero /\ espLock = FALSE
  /\ espSeq = 0 /\ espLockSeq = 0

-----------------------------------------------------------------------------
(* The environment: the network, the clock, the USB plug.                  *)

Arrive ==
  /\ Len(log) < MaxPkts
  /\ \E pkt \in Packets : log' = Append(log, pkt)
  /\ UNCHANGED <<rxVars, silence, wdPc, mainPc, txVars, espVars>>

Tick ==
  /\ silence <= WatchdogTicks
  /\ silence' = silence + 1
  /\ UNCHANGED <<log, rxVars, wdPc, mainPc, txVars, espVars>>

Unplug ==
  /\ attached
  /\ attached' = FALSE /\ tty' = <<>> /\ txHead' = FALSE
  /\ UNCHANGED <<log, rxVars, silence, wdPc, mainPc, espVars>>

-----------------------------------------------------------------------------
(* The receive thread.                                                     *)

(* recvfrom() returns the first packet of a burst. *)
RxRecv ==
  /\ rxPc = "recv" /\ nread < Len(log)
  /\ nread' = nread + 1
  /\ rxPc' = "drain"
  /\ UNCHANGED <<log, nextPkt, latest, isLocked, silence, wdPc, mainPc, txVars, espVars>>

(* Variant: only the newest packet of the burst is kept, locks included. *)
RxDrainOneDropsOlder ==
  /\ rxPc = "drain" /\ nread < Len(log)
  /\ nread' = nread + 1
  /\ nextPkt' = nread + 1
  /\ UNCHANGED <<log, latest, rxPc, isLocked, silence, wdPc, mainPc, txVars, espVars>>

(* The drain loop takes whatever else has arrived meanwhile. *)
RxDrainOne ==
  /\ rxPc = "drain" /\ nread < Len(log)
  /\ nread' = nread + 1
  /\ UNCHANGED <<log, nextPkt, latest, rxPc, isLocked, silence, wdPc, mainPc, txVars, espVars>>

(* Variant: latest_motion survives from one burst to the next. *)
RxDrainedKeepsLatest ==
  /\ rxPc = "drain" /\ nread = Len(log)
  /\ silence' = 0
  /\ rxPc' = "apply"
  /\ UNCHANGED <<log, nread, nextPkt, latest, isLocked, wdPc, mainPc, txVars, espVars>>

(* BlockingIOError ends the burst. *)
RxDrained ==
  /\ rxPc = "drain" /\ nread = Len(log)
  /\ silence' = 0
  /\ latest' = 0
  /\ rxPc' = "apply"
  /\ UNCHANGED <<log, nread, nextPkt, isLocked, wdPc, mainPc, txVars, espVars>>

InBatch == rxPc = "apply" /\ nextPkt <= nread

RxLock ==
  /\ InBatch /\ IsGoodLock(nextPkt)
  /\ isLocked' = log[nextPkt].state
  /\ rxPc' = "sendlock"
  /\ UNCHANGED <<log, nread, nextPkt, latest, silence, wdPc, mainPc, txVars, espVars>>

RxSendLock ==
  /\ rxPc = "sendlock"
  /\ Write([kind |-> "lock", lock |-> log[nextPkt].state, n |-> nextPkt])
  /\ nextPkt' = nextPkt + 1
  /\ rxPc' = "apply"
  /\ UNCHANGED <<log, nread, latest, isLocked, silence, wdPc, mainPc, espVars>>

RxDefer ==
  /\ InBatch /\ log[nextPkt].kind = "motion"
  /\ latest' = nextPkt
  /\ nextPkt' = nextPkt + 1
  /\ UNCHANGED <<log, nread, rxPc, isLocked, silence, wdPc, mainPc, txVars, espVars>>

(* A bad lock marker or a datagram of another size. *)
RxSkip ==
  /\ InBatch /\ log[nextPkt].kind # "motion" /\ ~IsGoodLock(nextPkt)
  /\ nextPkt' = nextPkt + 1
  /\ UNCHANGED <<log, nread, latest, rxPc, isLocked, silence, wdPc, mainPc, txVars, espVars>>

BatchDone == rxPc = "apply" /\ nextPkt > nread

(* Variant: the output queue is flushed before every motion. *)
AfterBatchFlushesAll ==
  IF latest = 0 THEN LoopHead("recv")
  ELSE IF ~IsMotion(latest) THEN "dead"
  ELSE "flush"

(* Where the thread goes with latest_motion; int() of a NaN or an infinity *)
(* raises and nothing catches it.                                          *)
AfterBatch ==
  IF latest = 0 THEN LoopHead("recv")
  ELSE IF ~IsMotion(latest) THEN "dead"
  ELSE IF IsStop(latest) THEN "flush"
  ELSE "sendmotion"

RxMotion ==
  /\ BatchDone
  /\ rxPc' = AfterBatch
  /\ UNCHANGED <<log, nread, nextPkt, latest, isLocked, silence, wdPc, mainPc, txVars, espVars>>

(* reset_output_buffer(), tcflush(TCOFLUSH): what is queued is dropped, and *)
(* a line whose first bytes are already out is cut short.                  *)
RxFlush ==
  /\ rxPc = "flush" /\ PortOk
  /\ tty' = <<>>
  /\ txHead' = FALSE
  /\ residue' = (residue \/ txHead)
  /\ rxPc' = "sendmotion"
  /\ UNCHANGED <<log, nread, nextPkt, latest, isLocked, silence, wdPc, mainPc, attached,
                 espCmd, espLock, espSeq, espLockSeq>>

RxSendMotion ==
  /\ rxPc = "sendmotion"
  /\ Write([kind |-> "motion", cmd |-> TwistToLR(log[latest].twist), n |-> latest])
  /\ rxPc' = LoopHead("recv")
  /\ UNCHANGED <<log, nread, nextPkt, latest, isLocked, silence, wdPc, mainPc, espVars>>

(* A write to a port that is gone or closed raises out of the thread. *)
RxDies ==
  /\ rxPc \in {"sendlock", "flush", "sendmotion"} /\ ~PortOk
  /\ rxPc' = "dead"
  /\ UNCHANGED <<log, nread, nextPkt, latest, isLocked, silence, wdPc, mainPc, txVars, espVars>>

(* socket.timeout, then the loop condition. *)
RxExit ==
  /\ rxPc = "recv" /\ ~running
  /\ rxPc' = "exit"
  /\ UNCHANGED <<log, nread, nextPkt, latest, isLocked, silence, wdPc, mainPc, txVars, espVars>>

Rx ==
  \/ RxRecv \/ RxDrainOne \/ RxDrained
  \/ RxLock \/ RxSendLock \/ RxDefer \/ RxSkip
  \/ RxMotion \/ RxFlush \/ RxSendMotion
  \/ RxDies \/ RxExit

-----------------------------------------------------------------------------
(* The watchdog thread.                                                    *)

WdLook ==
  /\ wdPc = "sleep"
  /\ wdPc' = IF isLocked THEN LoopHead("sleep") ELSE "check"
  /\ UNCHANGED <<log, rxVars, silence, mainPc, txVars, espVars>>

WdCheck ==
  /\ wdPc = "check"
  /\ wdPc' = IF silence > WatchdogTicks THEN "send" ELSE LoopHead("sleep")
  /\ UNCHANGED <<log, rxVars, silence, mainPc, txVars, espVars>>

(* Variant: the watchdog stops the motors once and ends. *)
WdSendOnce ==
  /\ wdPc = "send"
  /\ Write(StopLine)
  /\ wdPc' = "exit"
  /\ UNCHANGED <<log, rxVars, silence, mainPc, espVars>>

WdSend ==
  /\ wdPc = "send"
  /\ Write(StopLine)
  /\ wdPc' = LoopHead("sleep")
  /\ UNCHANGED <<log, rxVars, silence, mainPc, espVars>>

WdDies ==
  /\ wdPc = "send" /\ ~PortOk
  /\ wdPc' = "dead"
  /\ UNCHANGED <<log, rxVars, silence, mainPc, txVars, espVars>>

Wd == WdLook \/ WdCheck \/ WdSend \/ WdDies

-----------------------------------------------------------------------------
(* The main thread: run() and stop().                                      *)

Interrupt ==
  /\ mainPc = "run"
  /\ mainPc' = "stop"
  /\ UNCHANGED <<log, rxVars, silence, wdPc, txVars, espVars>>

(* The last stop; an error of the write is swallowed. *)
MainStop ==
  /\ mainPc = "stop"
  /\ \/ Write(StopLine)
     \/ ~attached /\ UNCHANGED txVars
  /\ mainPc' = "close"
  /\ UNCHANGED <<log, rxVars, silence, wdPc, espVars>>

(* Lines already queued are still transmitted after close(). *)
MainClose ==
  /\ mainPc = "close"
  /\ mainPc' = "closed"
  /\ UNCHANGED <<log, rxVars, silence, wdPc, txVars, espVars>>

Main == MainStop \/ MainClose

-----------------------------------------------------------------------------
(* The serial line and the ESP32.                                          *)

TxBegin ==
  /\ attached /\ tty # <<>> /\ ~txHead
  /\ txHead' = TRUE
  /\ UNCHANGED <<log, rxVars, silence, wdPc, mainPc, tty, attached, espVars>>

(* The newline is out: the ESP32 obeys the line, unless what it assembled  *)
(* begins with the rest of a line that was cut off.                        *)
Obey(line) ==
  \/ /\ residue
     /\ UNCHANGED <<espCmd, espLock, espSeq, espLockSeq>>
  \/ /\ ~residue /\ line.kind = "motion"
     /\ espCmd' = line.cmd
     /\ espSeq' = IF line.n = 0 THEN espSeq ELSE line.n
     /\ UNCHANGED <<espLock, espLockSeq>>
  \/ /\ ~residue /\ line.kind = "lock"
     /\ espLock' = line.lock
     /\ espLockSeq' = line.n
     /\ UNCHANGED <<espCmd, espSeq>>

TxEnd ==
  /\ txHead
  /\ Obey(Head(tty))
  /\ residue' = FALSE
  /\ tty' = Tail(tty)
  /\ txHead' = FALSE
  /\ UNCHANGED <<log, rxVars, silence, wdPc, mainPc, attached>>

Tx == TxBegin \/ TxEnd

-----------------------------------------------------------------------------
Next ==
  \/ Arrive \/ Tick \/ Unplug
  \/ Rx \/ Wd \/ Interrupt \/ Main \/ Tx

Spec == Init /\ [][Next]_vars

(* Every thread is scheduled, the UART transmits and time passes.  Nothing *)
(* makes a packet arrive, the user press Ctrl+C or the plug come out.      *)
Fairness ==
  /\ WF_vars(Rx) /\ WF_vars(Wd) /\ WF_vars(Main) /\ WF_vars(Tx) /\ WF_vars(Tick)

FairSpec == Spec /\ Fairness

-----------------------------------------------------------------------------
(* Properties.                                                             *)

(* Every variable holds a value of its type: packets and indices of the    *)
(* log, program counters of the loops, lines the bridge can write.         *)
TypeOK ==
  /\ log \in Seq(Packets)
  /\ nread \in 0 .. Len(log)
  /\ nextPkt \in 1 .. nread + 1
  /\ latest \in 0 .. nread
  /\ rxPc \in {"recv", "drain", "apply", "sendlock", "flush", "sendmotion", "exit", "dead"}
  /\ isLocked \in BOOLEAN
  /\ silence \in 0 .. WatchdogTicks + 1
  /\ wdPc \in {"sleep", "check", "send", "exit", "dead"}
  /\ mainPc \in {"run", "stop", "close", "closed"}
  /\ tty \in Seq(MotionLine \cup LockLine)
  /\ Len(tty) <= TtyCap
  /\ txHead \in BOOLEAN
  /\ attached \in BOOLEAN
  /\ residue \in BOOLEAN
  /\ espCmd \in Commands
  /\ espLock \in BOOLEAN
  /\ espSeq \in 0 .. nread
  /\ espLockSeq \in 0 .. nread

(* The robot obeys the newest packet or stops: through the burst, the      *)
(* coalescing, the queue, the flush and the cut-off line, the ESP32 never  *)
(* executes a motion twice, an older one after a newer one, or one that    *)
(* the PC did not send (lines 167-200).                                    *)
MC == INSTANCE MotorCommands WITH cmd <- espCmd, seq <- espSeq

ImplementsMotorCommands == MC!Spec

(* reset_output_buffer() may cut the line on the wire (line 143), and the  *)
(* ESP32 then loses the line that follows.  The line it loses is always a  *)
(* stop, never a motion or a brake command.                                *)
GarbledOnlyStop == residue /\ tty # <<>> => IsStopLine(Head(tty))

NoStopIn(packets) == \A n \in DOMAIN packets : ~IsStop(n)

(* "unlock-then-move sequences apply correctly" (line 188): without a stop *)
(* motion among the packets, a motion takes effect after every lock packet *)
(* that arrived before it.                                                 *)
UnlockThenMove ==
  [][espSeq' # espSeq /\ NoStopIn(log) =>
       \A n \in 1 .. espSeq' : IsGoodLock(n) => n <= espLockSeq]_vars

AllSent ==
  /\ rxPc \notin {"apply", "sendlock", "flush", "sendmotion"} /\ tty = <<>> /\ attached
  /\ mainPc # "closed"

(* Without a stop motion among the packets, no lock is dropped: when all   *)
(* is handled and transmitted, the brake is what the bridge believes it to *)
(* be, and what the last lock packet asked.                                *)
LockLostOnlyByStop ==
  AllSent /\ NoStopIn(log) =>
    /\ espLock = isLocked
    /\ \A n \in 1 .. nextPkt - 1 : IsGoodLock(n) => n <= espLockSeq

PcSilent == silence > WatchdogTicks /\ attached /\ running

(* Watchdog, the part that holds: once the PC is silent for good and the   *)
(* bridge is not locked, the tracks are eventually commanded to stop and   *)
(* stay stopped, whatever became of the receive thread.                    *)
WatchdogStops == <>[](PcSilent /\ ~isLocked) => <>[](espCmd = Zero)

(* "stop motors before closing" (line 257): after the shutdown, with every *)
(* line transmitted, the tracks are stopped.                               *)
ShutdownStops == mainPc = "closed" /\ tty = <<>> /\ attached => espCmd = Zero
=============================================================================
