---------------------------- MODULE Bridges_proofs ----------------------------
(***************************************************************************)
(* Three bridges between the robot and the PC, each alone: the video       *)
(* (MjpegBridge), the arm's port (ServoBridge), the IMU's stream and       *)
(* datagrams (ImuNode, ImuUdpBridge).                                      *)
(*                                                                         *)
(* The video, for any clients and any number of frames: no wakeup is lost, *)
(* and no viewer sees the picture jump back.  NeverBack needs what a       *)
(* thread knows of its client between two calls of get(): the seq it       *)
(* passes is the frame it wrote last (Behind), a thread that was notified  *)
(* has missed a frame (Missed), and a frame in its hands is newer than the *)
(* one written last, or its wait has timed out (InHand).                   *)
(*                                                                         *)
(* The arm's port, for any number of times it is plugged in: a reader that *)
(* reads has the handle that is in _ser, unless the sender cleared it, and *)
(* a sender that clears it held an earlier one (HandleInv).                *)
(*                                                                         *)
(* The IMU's stream, for any length of a packet: a reader that has lost    *)
(* its step owes the packet on the line, and the next one too if the bytes *)
(* it collects reach into it (Debt); what it owes is paid for by a gap or  *)
(* by a data byte that looked like a header.                               *)
(***************************************************************************)
EXTENDS MjpegBridge, ServoBridge, ImuUdpBridge, TLAPS

-----------------------------------------------------------------------------
(* The video.                                                              *)

Missed == \A c \in Clients : c \in woken => pc[c] = "wait" /\ last[c] < seq

Behind ==
  \A c \in Clients :
    /\ pc[c] # "closed" => last[c] <= seq
    /\ pc[c] = "get" => last[c] = sent[c] \/ (last[c] = -1 /\ sent[c] = 0)
    /\ pc[c] = "wait" => last[c] = sent[c]

InHand ==
  \A c \in Clients :
    pc[c] = "write" => last[c] > sent[c] \/ (last[c] = sent[c] /\ expired[c])

IInv == TypeOK /\ SleeperIsCurrent /\ Missed /\ Behind /\ InHand

(* Ways in which get() comes back with the lock. *)
Back(c) == Get(c) \/ Wake(c) \/ Timeout(c)

LEMMA Steps ==
  ASSUME [Next]_vars
  PROVE  \/ Publish \/ UNCHANGED vars
         \/ \E c \in Clients :
              \/ \E page \in Pages : Connect(c, page)
              \/ Back(c) \/ Sleep(c) \/ Write(c) \/ Broken(c)
  BY DEF Next, Thread, Back

(* What a return from get() does to the thread, whichever way it came. *)
LEMMA BackFrame ==
  ASSUME IInv, NEW c \in Clients, Back(c)
  PROVE  /\ pc[c] \in {"get", "wait"} /\ Return(c)
         /\ woken' = woken \ {c}
         /\ expired' \in [Clients -> BOOLEAN]
         /\ \A d \in Clients \ {c} : expired'[d] = expired[d]
         /\ expired'[c] \/ last[c] < seq
  <1>1. expired \in [Clients -> BOOLEAN] /\ last \in [Clients -> -1 .. MaxFrames]
        /\ seq \in 0 .. MaxFrames
    BY DEF IInv, TypeOK
  <1>2. CASE Get(c)
    <2>1. c \notin woken /\ last[c] <= seq /\ last[c] # seq
      BY <1>2 DEF Get, IInv, Missed, Behind
    <2> QED BY <1>1, <1>2, <2>1, MjpegAssumption DEF Get
  <1>3. CASE Wake(c)
    BY <1>1, <1>3 DEF Wake, IInv, Missed
  <1>4. CASE Timeout(c)
    BY <1>1, <1>4 DEF Timeout
  <1> QED BY <1>2, <1>3, <1>4 DEF Back

LEMMA BackStep ==
  ASSUME IInv, NEW c \in Clients, Back(c)
  PROVE  IInv'
  <1>1. /\ pc[c] \in {"get", "wait"} /\ woken' = woken \ {c}
        /\ expired' \in [Clients -> BOOLEAN]
        /\ \A d \in Clients \ {c} : expired'[d] = expired[d]
        /\ expired'[c] \/ last[c] < seq
        /\ last' = [last EXCEPT ![c] = seq]
        /\ pc' = [pc EXCEPT ![c] = IF seq # 0 THEN "write"
                                   ELSE IF asked[c] = "stream" THEN "get" ELSE "closed"]
        /\ UNCHANGED <<seq, asked, sent>>
    BY BackFrame DEF Return
  <1>2. /\ seq \in 0 .. MaxFrames /\ woken \subseteq Clients
        /\ pc \in [Clients -> {"closed", "get", "wait", "write"}]
        /\ last \in [Clients -> -1 .. MaxFrames] /\ sent \in [Clients -> 0 .. MaxFrames]
        /\ asked \in [Clients -> Pages]
    BY DEF IInv, TypeOK
  <1>3. TypeOK'
    BY <1>1, <1>2, MjpegAssumption DEF TypeOK
  <1>4. pc'[c] \in {"closed", "get", "write"} /\ (pc'[c] = "write" <=> seq # 0)
    BY <1>1, <1>2
  <1>5. \A d \in Clients \ {c} : pc'[d] = pc[d] /\ last'[d] = last[d]
    BY <1>1, <1>2
  <1>6. (SleeperIsCurrent /\ Missed)'
    BY <1>1, <1>2, <1>4, <1>5 DEF IInv, SleeperIsCurrent, Missed
  <1>7. last[c] = sent[c] \/ (last[c] = -1 /\ sent[c] = 0)
    BY <1>1 DEF IInv, Behind
  <1>8. last'[c] = seq /\ last[c] <= seq
    BY <1>1, <1>2 DEF IInv, Behind
  <1>9. Behind'
    BY <1>1, <1>2, <1>4, <1>5, <1>7, <1>8, MjpegAssumption DEF IInv, Behind
  <1>10. InHand'
    BY <1>1, <1>2, <1>4, <1>5, <1>7, <1>8, MjpegAssumption DEF IInv, InHand
  <1> QED BY <1>3, <1>6, <1>9, <1>10 DEF IInv

LEMMA PublishStep ==
  ASSUME IInv, Publish
  PROVE  IInv'
  <1>1. seq' = seq + 1 /\ seq < MaxFrames /\ woken' = Waiting
        /\ UNCHANGED <<pc, asked, last, sent, expired>>
    BY DEF Publish
  <1>2. seq \in 0 .. MaxFrames /\ last \in [Clients -> -1 .. MaxFrames]
    BY DEF IInv, TypeOK
  <1>3. TypeOK'
    BY <1>1, <1>2, MjpegAssumption DEF IInv, TypeOK, Waiting
  <1>4. (SleeperIsCurrent /\ Missed /\ Behind)'
    BY <1>1, <1>2, MjpegAssumption DEF IInv, SleeperIsCurrent, Missed, Behind, Waiting
  <1> QED BY <1>1, <1>3, <1>4 DEF IInv, InHand

LEMMA ConnectStep ==
  ASSUME IInv, NEW c \in Clients, NEW page \in Pages, Connect(c, page)
  PROVE  IInv'
  <1>1. pc[c] = "closed" /\ seq \in 0 .. MaxFrames
    BY DEF Connect, IInv, TypeOK
  <1>2. TypeOK'
    BY MjpegAssumption DEF Connect, IInv, TypeOK
  <1>3. (SleeperIsCurrent /\ Missed)'
    BY <1>1 DEF Connect, IInv, TypeOK, SleeperIsCurrent, Missed
  <1>4. (Behind /\ InHand)'
    BY <1>1, MjpegAssumption DEF Connect, IInv, TypeOK, Behind, InHand
  <1> QED BY <1>2, <1>3, <1>4 DEF IInv

LEMMA SleepStep ==
  ASSUME IInv, NEW c \in Clients, Sleep(c)
  PROVE  IInv'
  <1>1. pc[c] = "get" /\ last[c] = seq /\ seq \in 0 .. MaxFrames
    BY DEF Sleep, IInv, TypeOK
  <1>2. TypeOK'
    BY DEF Sleep, IInv, TypeOK
  <1>3. (SleeperIsCurrent /\ Missed)'
    BY <1>1 DEF Sleep, IInv, TypeOK, SleeperIsCurrent, Missed
  <1>4. (Behind /\ InHand)'
    BY <1>1, MjpegAssumption DEF Sleep, IInv, TypeOK, Behind, InHand
  <1> QED BY <1>2, <1>3, <1>4 DEF IInv

LEMMA WriteStep ==
  ASSUME IInv, NEW c \in Clients, Write(c) \/ Broken(c)
  PROVE  IInv'
  <1>1. pc[c] = "write" /\ last[c] >= 0
    BY MjpegAssumption DEF Write, Broken, IInv, TypeOK, InHand
  <1>2. TypeOK'
    BY <1>1, MjpegAssumption DEF Write, Broken, IInv, TypeOK
  <1>3. (SleeperIsCurrent /\ Missed)'
    BY <1>1 DEF Write, Broken, IInv, TypeOK, SleeperIsCurrent, Missed
  <1>4. (Behind /\ InHand)'
    BY <1>1, MjpegAssumption DEF Write, Broken, IInv, TypeOK, Behind, InHand
  <1> QED BY <1>2, <1>3, <1>4 DEF IInv

(* The strengthened invariant of the video bridge: its lock, its waiters   *)
(* and the frames in their hands.                                          *)
THEOREM Invariance == Spec => []IInv
  <1>1. ASSUME Init
        PROVE  IInv
    <2>1. TypeOK
      BY <1>1, MjpegAssumption DEF Init, TypeOK, Pages
    <2>2. SleeperIsCurrent /\ Missed /\ Behind /\ InHand
      BY <1>1 DEF Init, SleeperIsCurrent, Missed, Behind, InHand
    <2> QED BY <2>1, <2>2 DEF IInv
  <1>2. ASSUME IInv, UNCHANGED vars
        PROVE  IInv'
    BY <1>2 DEF vars, IInv, TypeOK, SleeperIsCurrent, Missed, Behind, InHand
  <1>3. IInv /\ [Next]_vars => IInv'
    BY <1>2, Steps, PublishStep, ConnectStep, BackStep, SleepStep, WriteStep
  <1> QED BY <1>1, <1>3, PTL DEF Spec

(* Every variable holds a value of its type. *)
THEOREM TypeCorrect == Spec => []TypeOK
  <1>1. IInv => TypeOK
    BY DEF IInv
  <1> QED BY <1>1, Invariance, PTL

(* publish() and get() compare, wait and notify under one lock: a thread   *)
(* that goes on sleeping has the newest frame.                             *)
THEOREM NoLostWakeup == Spec => []SleeperIsCurrent
  <1>1. IInv => SleeperIsCurrent
    BY DEF IInv
  <1> QED BY <1>1, Invariance, PTL

(* Between two boundaries of a stream the frame number grows, or a wait of *)
(* five seconds passed without a new frame.                                *)
THEOREM PictureNeverJumpsBack == Spec => NeverBack
  <1> DEFINE Forward(c) ==
        pc[c] = "write" /\ pc'[c] = "get" =>
          sent'[c] > sent[c] \/ (sent'[c] = sent[c] /\ expired[c])
  <1>1. ASSUME IInv, [Next]_vars, NEW c \in Clients
        PROVE  Forward(c)
    <2> SUFFICES ASSUME pc[c] = "write", pc'[c] = "get"
                 PROVE  sent'[c] > sent[c] \/ (sent'[c] = sent[c] /\ expired[c])
      OBVIOUS
    <2>1. PICK d \in Clients :
            \/ \E page \in Pages : Connect(d, page)
            \/ Back(d) \/ Sleep(d) \/ Write(d) \/ Broken(d)
      BY <1>1, Steps DEF Publish, vars
    <2>2. pc \in [Clients -> {"closed", "get", "wait", "write"}] /\ sent \in [Clients -> 0 .. MaxFrames]
      BY <1>1 DEF IInv, TypeOK
    <2>3. d = c
      BY <2>1, <2>2 DEF Connect, Back, Get, Wake, Timeout, Return, Sleep, Write, Broken
    <2>4. Write(c)
      BY <1>1, <2>1, <2>2, <2>3 DEF Connect, Back, Get, Wake, Timeout, Sleep, Broken
    <2>5. sent'[c] = last[c]
      BY <2>2, <2>4 DEF Write
    <2> QED BY <1>1, <2>5 DEF IInv, InHand
  <1>2. IInv /\ [Next]_vars => \A c \in Clients : Forward(c)
    BY <1>1
  <1> QED BY <1>2, Invariance, PTL DEF Spec, NeverBack

-----------------------------------------------------------------------------
(* The arm's port.                                                         *)

HandleInv ==
  /\ plugged \in BOOLEAN /\ gen \in Nat
  /\ ser \in 0 .. gen /\ rh \in 0 .. gen /\ sh \in 0 .. gen
  /\ rpc = "read" => ser \in {rh, 0}
  /\ rpc = "settle" => rh # 0
  /\ plugged => gen # 0
  /\ spc = "drop" => sh < gen \/ ~plugged

LEMMA HandleInit == ServoInit => HandleInv
BY DEF ServoInit, HandleInv

LEMMA CableStep ==
  ASSUME HandleInv, Plug \/ Unplug
  PROVE  HandleInv'
<1>1. CASE Plug
  BY <1>1 DEF HandleInv, Plug, readerVars, senderVars
<1>2. CASE Unplug
  BY <1>2 DEF HandleInv, Unplug, readerVars, senderVars
<1> QED BY <1>1, <1>2

LEMMA ReaderStep ==
  ASSUME HandleInv, Reader
  PROVE  HandleInv'
<1> USE DEF HandleInv, deviceVars, senderVars
<1>1. CASE TakeHandle
  BY <1>1 DEF TakeHandle
<1>2. CASE ConnectFails
  BY <1>2 DEF ConnectFails
<1>3. CASE Open
  BY <1>3 DEF Open
<1>4. CASE Settle
  BY <1>4 DEF Settle
<1>5. CASE \E kind \in {"angles", "typed", "debug"} : ReadLine(kind)
  BY <1>5 DEF ReadLine
<1>6. CASE ReadTimeout \/ ReadFails
  BY <1>6 DEF ReadTimeout, ReadFails
<1> QED BY <1>1, <1>2, <1>3, <1>4, <1>5, <1>6 DEF Reader

LEMMA SenderStep ==
  ASSUME HandleInv, Sender
  PROVE  HandleInv'
<1> USE DEF HandleInv, deviceVars, readerVars
<1>1. CASE \E servo \in BOOLEAN : Recv(servo)
  BY <1>1 DEF Recv
<1>2. CASE WritePort
  BY <1>2 DEF WritePort, Live
<1>3. CASE DropPort
  BY <1>3 DEF DropPort
<1> QED BY <1>1, <1>2, <1>3 DEF Sender

LEMMA HandlesKept == ServoSpec => []HandleInv
<1>1. HandleInv /\ [ServoNext]_servoVars => HandleInv'
  <2>1. HandleInv /\ UNCHANGED servoVars => HandleInv'
    BY DEF HandleInv, servoVars, deviceVars, readerVars, senderVars
  <2> QED BY <2>1, CableStep, ReaderStep, SenderStep DEF ServoNext
<1> QED BY <1>1, HandleInit, PTL DEF ServoSpec

(* However often the Mega is unplugged and plugged in again, a port that   *)
(* works is given up in one case only: the sender's write to an earlier    *)
(* handle failed and the reader has opened the port again since.           *)
THEOREM OnlyStaleWriteDrops == ServoSpec => LivePortKept
<1>1. HandleInv /\ [ServoNext]_servoVars =>
        [ser # 0 /\ Live(ser) /\ ser' = 0 => spc = "drop" /\ sh < ser]_servoVars
  <2> SUFFICES ASSUME HandleInv, ServoNext, ser # 0, Live(ser), ser' = 0
               PROVE  spc = "drop" /\ sh < ser
    BY DEF servoVars
  <2>1. plugged /\ ser = gen
    BY DEF Live
  <2>2. CASE Settle
    BY <2>2 DEF Settle, HandleInv
  <2>3. CASE ReadFails
    BY <2>1, <2>3 DEF ReadFails, HandleInv, Live
  <2>4. CASE DropPort
    BY <2>1, <2>4 DEF DropPort, HandleInv
  <2>5. CASE ~Settle /\ ~ReadFails /\ ~DropPort
    BY <2>5 DEF ServoNext, Plug, Unplug, Reader, TakeHandle, ConnectFails, Open, ReadLine,
         ReadTimeout, Sender, Recv, WritePort
  <2> QED BY <2>2, <2>3, <2>4, <2>5
<1> QED BY <1>1, HandlesKept, PTL DEF ServoSpec, LivePortKept

-----------------------------------------------------------------------------
(* The IMU's stream.                                                       *)

(* The reader's next byte is the one it expects. *)
InStep == IF collected = 0 THEN offset = 0 ELSE whole

Debt ==
  IF InStep THEN 0
  ELSE (IF intact THEN 1 ELSE 0) + (IF 0 < collected /\ collected < offset THEN 1 ELSE 0)

ParserTypes ==
  /\ offset \in 0 .. PacketLen - 1 /\ collected \in 0 .. PacketLen - 1
  /\ whole \in BOOLEAN /\ intact \in BOOLEAN
  /\ gaps \in Nat /\ lookalikes \in Nat /\ missed \in Nat

Account ==
  /\ whole /\ collected # 0 => collected = offset
  /\ offset = 0 => intact
  /\ missed + Debt <= gaps + lookalikes

ParserInv == ParserTypes /\ Account

LEMMA NextPlace ==
  ASSUME NEW k \in 0 .. PacketLen - 1
  PROVE  (k + 1) % PacketLen = IF k = PacketLen - 1 THEN 0 ELSE k + 1
BY ImuAssumption

LEMMA ParserInit == ImuInit => ParserInv
<1> SUFFICES ASSUME ImuInit PROVE ParserInv
  OBVIOUS
<1>1. ParserTypes
  <2>1. whole \in BOOLEAN /\ intact \in BOOLEAN
    BY Zenon DEF ImuInit
  <2>2. /\ offset \in 0 .. PacketLen - 1 /\ collected \in 0 .. PacketLen - 1
        /\ gaps \in Nat /\ lookalikes \in Nat /\ missed \in Nat
    BY ImuAssumption DEF ImuInit
  <2> QED BY <2>1, <2>2 DEF ParserTypes
<1>2. /\ offset \in 0 .. PacketLen - 1 /\ collected = 0 /\ ~whole /\ (intact <=> offset = 0)
      /\ gaps = 0 /\ lookalikes = 0 /\ missed = 0
  BY DEF ImuInit
<1>3. Account
  BY <1>2 DEF Account, Debt, InStep
<1> QED BY <1>1, <1>3 DEF ParserInv

LEMMA TypesStep ==
  ASSUME ParserTypes, (\E header \in BOOLEAN : Arrive(header)) \/ Lose \/ Pause
  PROVE  ParserTypes'
<1>1. CASE \E header \in BOOLEAN : Arrive(header)
  <2>1. PICK header \in BOOLEAN : Arrive(header)
    BY <1>1
  <2>2. /\ offset' \in 0 .. PacketLen - 1 /\ collected' \in 0 .. PacketLen - 1
        /\ gaps' \in Nat /\ lookalikes' \in Nat /\ missed' \in Nat
    BY <2>1, NextPlace, ImuAssumption DEF ParserTypes, Arrive, NextByte, ReadByte
  <2>3. whole' \in BOOLEAN /\ intact' \in BOOLEAN
    BY <2>1, Zenon DEF ParserTypes, Arrive, ReadByte
  <2> QED BY <2>2, <2>3 DEF ParserTypes
<1>2. CASE Lose
  <2>1. /\ offset' \in 0 .. PacketLen - 1 /\ collected' \in 0 .. PacketLen - 1
        /\ gaps' \in Nat /\ lookalikes' \in Nat /\ missed' \in Nat
    BY <1>2, NextPlace, ImuAssumption DEF ParserTypes, Lose, NextByte
  <2>2. whole' \in BOOLEAN /\ intact' \in BOOLEAN
    BY <1>2, Zenon DEF ParserTypes, Lose
  <2> QED BY <2>1, <2>2 DEF ParserTypes
<1>3. CASE Pause
  BY <1>3, ImuAssumption DEF ParserTypes, Pause
<1> QED BY <1>1, <1>2, <1>3

(* A byte that begins a packet, or is skipped in the hunt for one.         *)
LEMMA HuntStep ==
  ASSUME ParserTypes, Account, NEW header \in BOOLEAN, Arrive(header), collected = 0
  PROVE  Account'
<1>1. /\ offset \in 0 .. PacketLen - 1 /\ PacketLen \in Nat \ {0, 1}
      /\ gaps \in Nat /\ lookalikes \in Nat /\ missed \in Nat
  BY ImuAssumption DEF ParserTypes
<1>2. /\ offset' = IF offset = PacketLen - 1 THEN 0 ELSE offset + 1
      /\ collected' = IF header THEN 1 ELSE 0
      /\ lookalikes' = IF header /\ offset # 0 THEN lookalikes + 1 ELSE lookalikes
      /\ missed' = IF offset = PacketLen - 1 /\ intact THEN missed + 1 ELSE missed
      /\ gaps' = gaps
  BY <1>1, NextPlace DEF Arrive, NextByte, ReadByte, Handled, Complete
<1>3. /\ whole' <=> offset = 0
      /\ intact' <=> intact \/ offset = PacketLen - 1
      /\ offset = 0 => header
      /\ header /\ offset # 0 => offset > 1
  BY DEF Arrive, ReadByte
<1> QED BY <1>1, <1>2, <1>3 DEF Account, Debt, InStep

(* A byte of a packet's length. *)
LEMMA CollectStep ==
  ASSUME ParserTypes, Account, NEW header \in BOOLEAN, Arrive(header), collected # 0
  PROVE  Account'
<1>1. /\ offset \in 0 .. PacketLen - 1 /\ collected \in 1 .. PacketLen - 1
      /\ PacketLen \in Nat \ {0, 1}
      /\ gaps \in Nat /\ lookalikes \in Nat /\ missed \in Nat
  BY ImuAssumption DEF ParserTypes
<1>2. /\ offset' = IF offset = PacketLen - 1 THEN 0 ELSE offset + 1
      /\ collected' = IF collected = PacketLen - 1 THEN 0 ELSE collected + 1
      /\ lookalikes' = lookalikes \/ lookalikes' = lookalikes + 1
      /\ gaps' = gaps
  BY <1>1, NextPlace DEF Arrive, NextByte, ReadByte
<1>3. /\ whole' <=> whole
      /\ intact' <=> intact \/ offset = PacketLen - 1
      /\ missed' = IF offset = PacketLen - 1 /\ intact /\ ~(collected = PacketLen - 1 /\ whole)
                   THEN missed + 1 ELSE missed
  BY DEF Arrive, ReadByte, Handled, Complete
<1>4. CASE whole
  BY <1>1, <1>2, <1>3, <1>4 DEF Account, Debt, InStep
<1>5. CASE ~whole
  BY <1>1, <1>2, <1>3, <1>5 DEF Account, Debt, InStep
<1> QED BY <1>4, <1>5

LEMMA GapStep ==
  ASSUME ParserTypes, Account, Lose \/ Pause
  PROVE  Account'
<1>1. /\ offset \in 0 .. PacketLen - 1 /\ collected \in 0 .. PacketLen - 1
      /\ PacketLen \in Nat \ {0, 1}
      /\ gaps \in Nat /\ lookalikes \in Nat /\ missed \in Nat
  BY ImuAssumption DEF ParserTypes
<1>2. CASE Lose
  <2>1. /\ offset' = IF offset = PacketLen - 1 THEN 0 ELSE offset + 1
        /\ collected' = collected
        /\ lookalikes' = lookalikes /\ missed' = missed /\ gaps' = gaps + 1
    BY <1>1, <1>2, NextPlace DEF Lose, NextByte
  <2>2. ~whole' /\ (intact' <=> offset = PacketLen - 1)
    BY <1>2 DEF Lose
  <2> QED BY <1>1, <2>1, <2>2 DEF Account, Debt, InStep
<1>3. CASE Pause
  <2>1. /\ offset' = offset /\ collected' = 0
        /\ lookalikes' = lookalikes /\ missed' = missed /\ gaps' = gaps + 1
        /\ (whole' <=> whole) /\ (intact' <=> intact)
    BY <1>3 DEF Pause
  <2> QED BY <1>1, <2>1 DEF Account, Debt, InStep
<1> QED BY <1>2, <1>3

(* Neither the clock nor the bridge touches the parser. *)
LEMMA BridgeStep ==
  ASSUME ParserInv,
         Tick \/ StepClock \/ Drop \/ Send \/ UNCHANGED streamVars
  PROVE  ParserInv'
<1>1. UNCHANGED <<offset, collected, whole, intact, gaps, lookalikes, missed>>
  BY DEF Tick, StepClock, Drop, Send, streamVars, imuVars, parserVars, imuRest
<1> QED BY <1>1 DEF ParserInv, ParserTypes, Account, Debt, InStep

(* For any length of a packet, wherever the port is opened: a lost byte or *)
(* a pause costs one intact packet at most, and so does each data byte     *)
(* that looks like a header.                                               *)
THEOREM GapsCostOnePacket == StreamSpec => []ResyncBound
<1>1. StreamInit => ParserInv
  BY ParserInit DEF StreamInit
<1>2. ParserInv /\ [StreamNext]_streamVars => ParserInv'
  BY TypesStep, HuntStep, CollectStep, GapStep, BridgeStep DEF ParserInv, StreamNext, ImuNext
<1>3. ParserInv => ResyncBound
  <2>1. missed \in Nat /\ gaps \in Nat /\ lookalikes \in Nat => missed <= missed + Debt
    BY DEF Debt
  <2> QED BY <2>1 DEF ParserInv, ParserTypes, Account, ResyncBound, Debt
<1> QED BY <1>1, <1>2, <1>3, PTL DEF StreamSpec

-----------------------------------------------------------------------------
(* The IMU's datagrams.                                                    *)

(* What the clock shows since the last datagram is the time that passed    *)
(* and the steps it was set by.                                            *)
ClockInv ==
  /\ clock \in Int /\ lastSent \in Int /\ quiet \in Int /\ stepped \in Int
  /\ clock - lastSent = quiet + stepped

(* However the clock is stepped, a message is sent when a period and the   *)
(* steps have passed since the last datagram, and dropped before.          *)
THEOREM DatagramsKeepPeriod == StreamSpec => RateLimit
<1>1. StreamInit => ClockInv
  BY BridgeAssumption DEF StreamInit, ClockInv
<1>2. ClockInv /\ [StreamNext]_streamVars => ClockInv'
  <2> SUFFICES ASSUME ClockInv, [StreamNext]_streamVars PROVE ClockInv'
    OBVIOUS
  <2>1. CASE Tick
    BY <2>1 DEF Tick, ClockInv
  <2>2. CASE StepClock
    BY <2>2 DEF StepClock, ClockInv
  <2>3. CASE Send
    BY <2>3 DEF Send, ClockInv
  <2>4. CASE UNCHANGED bridgeVars \/ UNCHANGED streamVars \/ Drop
    BY <2>4 DEF bridgeVars, streamVars, Drop, ClockInv
  <2> QED BY <2>1, <2>2, <2>3, <2>4 DEF StreamNext
<1>3. ClockInv =>
        [/\ Send => quiet + stepped >= MinPeriod
         /\ Drop => quiet + stepped < MinPeriod]_streamVars
  BY BridgeAssumption DEF ClockInv, Send, Drop, TooSoon
<1> QED BY <1>1, <1>2, <1>3, PTL DEF StreamSpec, RateLimit
===============================================================================
