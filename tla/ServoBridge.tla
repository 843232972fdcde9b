----------------------------- MODULE ServoBridge -----------------------------
(***************************************************************************)
(* UDPS.py: carries servo packets from the PC to the Mega on a USB serial  *)
(* port, and the Mega's lines to the PC and to arm_home_guard.             *)
(*                                                                         *)
(*   reader  the thread of _read_loop(): reads lines, reopens the port     *)
(*   sender  the thread of run(): receives UDP packets, writes to the port *)
(*                                                                         *)
(* They share _ser, and each uses the handle it last took from it after    *)
(* the lock is released.  A handle is known by the time the Mega was       *)
(* plugged in that it was opened at: a handle of an earlier time is dead   *)
(* for good.                                                               *)
(***************************************************************************)
EXTENDS Integers

CONSTANTS
  MaxPlugs,    \* bound: times the Mega is plugged in
  MaxRefused   \* bound: times the port is there and cannot be opened

VARIABLES
  plugged,     \* /dev/... exists
  gen,         \* times the Mega was plugged in
  refused,     \* opens that failed
  ser,         \* _ser, a handle or 0
  rpc, rh,     \* the reader: where it is, its handle
  heard,       \* who was sent the line the reader last read
  spc, sh,     \* the sender: where it is, its handle
  discovered   \* pc_addr holds an address

deviceVars == <<plugged, gen>>
readerVars == <<rpc, rh, heard, refused>>
senderVars == <<spc, sh, discovered>>
servoVars == <<deviceVars, ser, readerVars, senderVars>>

Live(h) == plugged /\ h = gen

(* The constructor has tried the port once, before there are threads. *)
ServoInit ==
  /\ plugged \in BOOLEAN
  /\ gen = IF plugged THEN 1 ELSE 0
  /\ ser \in {0, gen} /\ refused = 0
  /\ rpc = "get" /\ rh = 0 /\ heard = {}
  /\ spc = "recv" /\ sh = 0 /\ discovered = FALSE

-----------------------------------------------------------------------------
(* The cable (external). *)

Plug ==
  /\ ~plugged /\ gen < MaxPlugs
  /\ plugged' = TRUE
  /\ gen' = gen + 1
  /\ UNCHANGED <<ser, readerVars, senderVars>>

Unplug ==
  /\ plugged
  /\ plugged' = FALSE
  /\ UNCHANGED <<gen, ser, readerVars, senderVars>>

-----------------------------------------------------------------------------
(* The reader. *)

TakeHandle ==
  /\ rpc = "get"
  /\ rh' = ser
  /\ rpc' = IF ser = 0 THEN "connect" ELSE "read"
  /\ heard' = {}
  /\ UNCHANGED <<deviceVars, ser, refused, senderVars>>

(* _connect(): the port is not there, cannot be opened, ... *)
ConnectFails ==
  /\ rpc = "connect"
  /\ IF plugged THEN refused < MaxRefused /\ refused' = refused + 1
                ELSE UNCHANGED refused
  /\ rpc' = "get"
  /\ UNCHANGED <<deviceVars, ser, rh, heard, senderVars>>

(* ... or is opened, and given time while the Mega restarts. *)
Open ==
  /\ rpc = "connect" /\ plugged
  /\ rh' = gen
  /\ rpc' = "settle"
  /\ UNCHANGED <<deviceVars, ser, heard, refused, senderVars>>

Settle ==
  /\ rpc = "settle"
  /\ ser' = rh
  /\ rpc' = "get"
  /\ UNCHANGED <<deviceVars, rh, heard, refused, senderVars>>

(* Angles go to the guard, and like every typed line to the PC once it is  *)
(* known (a network error loses them); other lines go nowhere.             *)
Receivers(kind) ==
  {r \in {"guard", "pc"} : IF r = "guard" THEN kind = "angles"
                                          ELSE kind # "debug" /\ discovered}

ReadLine(kind) ==
  /\ rpc = "read" /\ Live(rh)
  /\ heard' \in {Receivers(kind), Receivers(kind) \ {"pc"}}
  /\ rpc' = "get"
  /\ UNCHANGED <<deviceVars, ser, rh, refused, senderVars>>

(* Variant: a read without a line is taken for an error. *)
TimeoutDrops ==
  /\ rpc = "read" /\ Live(rh)
  /\ ser' = 0
  /\ rpc' = "get"
  /\ UNCHANGED <<deviceVars, rh, heard, refused, senderVars>>

ReadTimeout ==
  /\ rpc = "read" /\ Live(rh)
  /\ rpc' = "get"
  /\ UNCHANGED <<deviceVars, ser, rh, heard, refused, senderVars>>

(* Variant: the handle is kept after an error. *)
ReadFailsKeeps ==
  /\ rpc = "read" /\ ~Live(rh)
  /\ rpc' = "get"
  /\ UNCHANGED <<deviceVars, ser, rh, heard, refused, senderVars>>

ReadFails ==
  /\ rpc = "read" /\ ~Live(rh)
  /\ ser' = 0
  /\ rpc' = "get"
  /\ UNCHANGED <<deviceVars, rh, heard, refused, senderVars>>

Reader ==
  \/ TakeHandle \/ ConnectFails \/ Open \/ Settle
  \/ (\E kind \in {"angles", "typed", "debug"} : ReadLine(kind))
  \/ ReadTimeout \/ ReadFails

-----------------------------------------------------------------------------
(* The sender. *)

(* run() has received a packet: any tells the PC's address, a servo packet *)
(* is sent on unless there is no port.                                     *)
Recv(servo) ==
  /\ spc = "recv"
  /\ discovered' = TRUE
  /\ sh' = IF servo THEN ser ELSE sh
  /\ spc' = IF servo /\ ser # 0 THEN "write" ELSE "recv"
  /\ UNCHANGED <<deviceVars, ser, readerVars>>

WritePort ==
  /\ spc = "write"
  /\ spc' = IF Live(sh) THEN "recv" ELSE "drop"
  /\ UNCHANGED <<deviceVars, ser, readerVars, sh, discovered>>

(* The write raised: _ser is cleared, whatever it holds by now. *)
DropPort ==
  /\ spc = "drop"
  /\ ser' = 0
  /\ spc' = "recv"
  /\ UNCHANGED <<deviceVars, readerVars, sh, discovered>>

Sender == (\E servo \in BOOLEAN : Recv(servo)) \/ WritePort \/ DropPort

ServoNext == Plug \/ Unplug \/ Reader \/ Sender

(* Both threads run, packets or not; a Mega that is there sends angles. *)
ServoFairness ==
  /\ WF_servoVars(Reader) /\ WF_servoVars(WritePort \/ DropPort)
  /\ SF_servoVars(ReadLine("angles"))

ServoSpec == ServoInit /\ [][ServoNext]_servoVars /\ ServoFairness

-----------------------------------------------------------------------------
(* Properties.                                                             *)

(* Opening the port restarts the Mega, so a port that works is given up in *)
(* one case only: the sender's write to an earlier handle failed, and by   *)
(* the time it clears _ser the reader has opened the port again (lines     *)
(* 124-127).                                                               *)
LivePortKept ==
  [][ser # 0 /\ Live(ser) /\ ser' = 0 => spc = "drop" /\ sh < ser]_servoVars

(* "Independent of PC discovery (always on)" (lines 26-28): a Mega that    *)
(* stays plugged in feeds arm_home_guard again and again, whether or not   *)
(* the PC is known, and however the threads dropped each other's port      *)
(* before.                                                                 *)
GuardFed == <>[]plugged => []<>("guard" \in heard)
=============================================================================
