------------------------------ MODULE UsbTrans ------------------------------
(***************************************************************************)
(* The transaction layer of the no2usb core: rtl/usb_trans.v running the   *)
(* program of utils/microcode.py, together with the registers the soft     *)
(* core shares with it (the end point status RAM, the buffer descriptors,  *)
(* the data buffers, the Control Endpoint Lockout and the event counter).  *)
(*                                                                         *)
(* A transaction is a few steps: the token packet (which captures the CEL  *)
(* flag and fetches the status and the buffer descriptor), the data or     *)
(* handshake packet that follows it, and the answer.  The soft core may    *)
(* access any register between two of them.                                *)
(*                                                                         *)
(* Two orders are fixed by the hardware and are one step here: the fetch   *)
(* of status and descriptor takes a dozen clock cycles after the token,    *)
(* and a write back takes three cycles after the EP instruction, while     *)
(* one access of the soft core takes more; the NOTIFY of a completion is   *)
(* raised in the middle of the write back.                                 *)
(*                                                                         *)
(* There is no time out: the counter EVT_RTO loads never runs (UsbRto), so *)
(* a transaction that waits does so until the next packet, whatever it is. *)
(***************************************************************************)
EXTENDS Integers, Sequences

CONSTANTS
  EpNum,        \* end point numbers
  Unit,         \* units of data a packet is made of
  CrcUnit,      \* the unit that stands for one byte of a CRC, or for garbage
  IgnoreRxErr,  \* the IGNORE_RX_ERR build of the microcode
  EvtMod        \* the event counter counts modulo EvtMod (4 bits: 16)

ASSUME UnitAssumption   == CrcUnit \in Unit
ASSUME EvtModAssumption == EvtMod \in Nat /\ EvtMod > 1
ASSUME BuildAssumption  == IgnoreRxErr \in BOOLEAN

VARIABLES
  eps,  \* end point status words
  bd,   \* buffer descriptors
  buf,  \* contents of the data buffer each descriptor points to
  cel,  \* Control Endpoint Lockout
  evt,  \* events notified since the soft core last read the event register
  sie   \* the registers of a transaction in progress

transVars == <<eps, bd, buf, cel, evt, sie>>

Ep   == EpNum \X {"out", "in"}
BdId == EpNum \X {"out", "in"} \X {0, 1}

EpType  == {"none", "int", "bulk", "ctrl"}
BdState == {"none", "rdy_data", "rdy_stall", "done_ok", "done_err"}
Ready   == {"rdy_data", "rdy_stall"}

EpStatus   == [type: EpType, halt: BOOLEAN, mode: {"single", "dual", "ctrl"},
               bdi: {0, 1}, dt: {0, 1}]
Descriptor == [state: BdState, len: Nat, setup: BOOLEAN]

(* A token waits for a packet (wait_setup, wait_out, wait_ack, discard) or *)
(* makes the core transmit one (tx_...).                                   *)
Waiting == {"wait_setup", "wait_out", "wait_ack", "discard"}
SiePc   == {"idle", "stall_bd", "tx_data", "tx_ack", "tx_nak", "tx_stall"} \cup Waiting

\* zl: bd_length is zero, or the address is past what was received or sent;
\* otherwise the next bytes received go to the start of the buffer.
\* past: a write back has reloaded bd_length, and the next bytes received go to
\* memory that many bytes from the start of the buffer; 0 if that is not so, or
\* if what is there is not modelled.

Sie == [pc: SiePc, n: EpNum, d: {"out", "in"}, setup: BOOLEAN, cel: BOOLEAN,
        st: EpStatus, cur: {0, 1}, bd: Descriptor, zl: BOOLEAN,
        past: Nat]

Crc      == <<CrcUnit, CrcUnit>>
CrcLen   == 2
NoBd     == [state |-> "none", len |-> 0, setup |-> FALSE]
NoStatus == [type |-> "none", halt |-> FALSE, mode |-> "single", bdi |-> 0, dt |-> 0]

TransTypeOK ==
  /\ eps \in [Ep -> EpStatus]
  /\ bd \in [BdId -> Descriptor]
  /\ buf \in [BdId -> Seq(Unit)]
  /\ cel \in BOOLEAN
  /\ evt \in 0 .. EvtMod - 1
  /\ sie \in Sie

-----------------------------------------------------------------------------
(* The fetch that a token starts and the branches the microcode takes on   *)
(* what it fetched.                                                        *)

DirOf(pid) == IF pid = "IN" THEN "in" ELSE "out"

\* A control end point (with its CEL flag set) refuses IN and OUT.
Locked(st, c) == st.type = "ctrl" /\ c

\* In control mode the second descriptor is reserved for SETUP packets.
CurBd(st, setup) ==
  IF st.mode = "ctrl" THEN (IF setup THEN 1 ELSE 0) ELSE st.bdi

\* Faulty: the lockout does not hold IN transactions back.
Faulty_DispatchIn(st, c, b) ==
  IF st.type = "none" THEN "idle"
  ELSE IF st.halt THEN "tx_stall"
  ELSE CASE b.state = "rdy_stall" -> "stall_bd"
         [] b.state = "rdy_data"  -> "tx_data"
         [] OTHER                 -> "tx_nak"

DispatchIn(st, c, b) ==
  IF st.type = "none" THEN "idle"
  ELSE IF st.halt THEN "tx_stall"
  ELSE IF Locked(st, c) THEN "tx_nak"
  ELSE CASE b.state = "rdy_stall" -> "stall_bd"
         [] b.state = "rdy_data"  -> "tx_data"
         [] OTHER                 -> "tx_nak"

DispatchSetup(st, c, b) ==
  IF st.type = "ctrl" /\ ~c /\ b.state = "rdy_data" THEN "wait_setup" ELSE "discard"

DispatchOut(st) == IF st.type = "none" THEN "idle" ELSE "wait_out"

\* Faulty: data is stored although no buffer is ready.
Faulty_DropsData(st, c, b) == st.halt \/ Locked(st, c)

\* _DO_OUT_BCI_DROP_DATA: the length is zeroed, the data will not be stored.
DropsData(st, c, b) == st.halt \/ Locked(st, c) \/ b.state # "rdy_data"

\* What a token captures and fetches.
Captured(n, pid) ==
  LET d == DirOf(pid)
      st == eps[<<n, d>>]
      cur == CurBd(st, pid = "SETUP")
  IN [pc |-> "idle", n |-> n, d |-> d, setup |-> pid = "SETUP", cel |-> cel,
      st |-> [st EXCEPT !.dt = IF pid = "SETUP" THEN 0 ELSE @],
      cur |-> cur, bd |-> bd[<<n, d, cur>>], zl |-> FALSE, past |-> 0]

Dispatch(s, pid) ==
  CASE pid = "IN"    -> DispatchIn(s.st, s.cel, s.bd)
    [] pid = "SETUP" -> DispatchSetup(s.st, s.cel, s.bd)
    [] pid = "OUT"   -> DispatchOut(s.st)

\* Faulty: the data of a SETUP packet that is ignored is stored.
Faulty_StoresData(s, next) == next # "wait_out" \/ ~DropsData(s.st, s.cel, s.bd)

StoresData(s, next) ==
  \/ next \in {"idle", "wait_setup"}
  \/ next = "wait_out" /\ ~DropsData(s.st, s.cel, s.bd)

Dispatched(s, pid) ==
  LET next == Dispatch(s, pid)
  IN [s EXCEPT !.pc = next, !.zl = ~StoresData(s, next)]

\* What the transaction that waits does when another packet ends the wait.
FailWrites   == \/ ~IgnoreRxErr /\ sie.pc = "wait_setup"
                \/ ~IgnoreRxErr /\ sie.pc = "wait_out" /\ sie.bd.state \in Ready
FailNotifies == FailWrites \/ sie.pc = "wait_ack"

FlipBdi(st) == [st EXCEPT !.bdi = IF st.mode = "dual" THEN 1 - @ ELSE @]

(* A token that ends a wait is captured while the fail handler of the old  *)
(* transaction runs, so that the handler writes to the end point and the   *)
(* descriptor of the new one, with no bytes received.  The DONE_ERR of the *)
(* handler is overwritten by the state fetched, unless it comes late: the  *)
(* loop that waits in an OUT transaction may see the token a cycle later.  *)
(* A write back makes the core take the word it read last, the address of  *)
(* the buffer, for a descriptor: that is what the new token is dispatched  *)
(* on, and its bits 15:13 are zero (the length stays here, it is 9:0).     *)
Late == IF sie.pc = "wait_out" THEN BOOLEAN ELSE {FALSE}

FailInto(s, late) ==
  /\ IF FailWrites
       THEN /\ eps' = [eps EXCEPT ![<<s.n, s.d>>] = FlipBdi(s.st)]
            /\ bd' = [bd EXCEPT ![<<s.n, s.d, s.cur>>] =
                         [state |-> IF late THEN "done_err" ELSE s.bd.state,
                          len |-> 0, setup |-> s.setup]]
       ELSE UNCHANGED <<eps, bd>>
  /\ evt' = IF FailNotifies THEN (evt + 1) % EvtMod ELSE evt

AfterFail(s) ==
  IF FailWrites THEN [s EXCEPT !.st = FlipBdi(@), !.bd = [@ EXCEPT !.state = "none"]]
                ELSE s

\* A token for this device.
Token(n, pid) ==
  /\ sie.pc \in Waiting \cup {"idle"}
  /\ \E late \in Late : FailInto(Captured(n, pid), late)
  /\ sie' = Dispatched(AfterFail(Captured(n, pid)), pid)
  /\ UNCHANGED <<buf, cel>>

\* A token for another device is captured too, but not dispatched.
OtherToken(n, pid) ==
  /\ sie.pc \in Waiting \cup {"idle"}
  /\ \E late \in Late : FailInto(Captured(n, pid), late)
  /\ sie' = AfterFail(Captured(n, pid))
  /\ UNCHANGED <<buf, cel>>

-----------------------------------------------------------------------------
(* The EP and NOTIFY instructions.                                         *)

SieEp == <<sie.n, sie.d>>
SieBd == <<sie.n, sie.d, sie.cur>>

\* The status word goes back as it was fetched, with the toggle and, for a
\* dual buffered end point, the buffer index flipped; the descriptor gets the
\* new state, the SETUP flag and the count of the bytes received.  What it does
\* to the registers comes some cycles later: see Reload.
WriteBack(state, flip, count) ==
  /\ eps' = [eps EXCEPT ![SieEp] =
               [sie.st EXCEPT !.dt  = IF flip THEN 1 - @ ELSE @,
                              !.bdi = IF sie.st.mode = "dual" THEN 1 - @ ELSE @]]
  /\ bd' = [bd EXCEPT ![SieBd] =
               [state |-> state, len |-> count, setup |-> sie.setup]]

Notify == evt' = (evt + 1) % EvtMod

\* A packet was received, sent or is to be sent with ZL.
Goto(pc) == sie' = [sie EXCEPT !.pc = pc, !.zl = TRUE]

\* The two buffers of a dual buffered OUT end point lie side by side.  What
\* follows another buffer belongs to another end point.
Followed == sie.d = "out" /\ sie.st.mode = "dual" /\ sie.cur = 0
Behind   == <<sie.n, sie.d, 1>>

\* A write back also loads bd_length with the word that was read last, the
\* address of the buffer, some cycles after the ZL of the answer: what comes
\* without a token is stored again, from where the packet ended.
Reload(pc, past) ==
  sie' = [sie EXCEPT !.pc = pc, !.zl = TRUE, !.past = IF Followed THEN past ELSE 0]

Prefix(s, n) == IF Len(s) <= n THEN s ELSE SubSeq(s, 1, n)

\* The buffer keeps what is not overwritten.
Overwrite(old, new) ==
  IF Len(old) <= Len(new) THEN new ELSE new \o SubSeq(old, Len(new) + 1, Len(old))

\* Bytes that go to memory ofs bytes from the start of a buffer.
OverwriteFrom(old, ofs, new) ==
  [i \in 1 .. Len(old) |-> IF i - ofs \in 1 .. Len(new) THEN new[i - ofs] ELSE old[i]]

\* What is received is stored up to the length of the descriptor, while it is
\* received; nothing is stored once ZL zeroed that length.
Store(bytes) ==
  buf' = IF sie.zl THEN buf
                   ELSE [buf EXCEPT ![SieBd] =
                           Overwrite(@, Prefix(bytes, sie.bd.len))]

\* Stored after a Reload.  How many bytes depends on the address that serves as
\* a length, and on the packets that came since.  What they leave of the rest
\* of the buffer of sie.bd does not matter: it is behind the packet in there.
StoreBehind(bytes) ==
  \E n \in 0 .. Len(bytes) :
    buf' = [buf EXCEPT ![Behind] =
              OverwriteFrom(@, sie.past - sie.bd.len, Prefix(bytes, n))]

-----------------------------------------------------------------------------
(* Packets received after the token.                                       *)

\* Faulty: the EP instruction lacks cel_set.
Faulty_SetupAccepted(dt, p) ==
  /\ sie.pc = "wait_setup"
  /\ dt = 0
  /\ Store(p \o Crc)
  /\ WriteBack("done_ok", TRUE, Len(p) + CrcLen)
  /\ Notify
  /\ Goto("tx_ack")
  /\ UNCHANGED cel

SetupAccepted(dt, p) ==
  /\ sie.pc = "wait_setup"
  /\ dt = 0
  /\ Store(p \o Crc)
  /\ WriteBack("done_ok", TRUE, Len(p) + CrcLen)
  /\ cel' = TRUE
  /\ Notify
  /\ Goto("tx_ack")

\* An error or a packet that is not DATA0; what came is stored.
SetupFailed(bytes) ==
  /\ sie.pc = "wait_setup"
  /\ Store(bytes)
  /\ IF IgnoreRxErr
       THEN UNCHANGED <<eps, bd, evt>>
       ELSE WriteBack("done_err", FALSE, Len(bytes)) /\ Notify
  /\ Goto("idle")
  /\ UNCHANGED cel

\* Faulty: a repeated packet is taken again.
Faulty_OutAccepts(dt) ==
  ~sie.st.halt /\ ~Locked(sie.st, sie.cel) /\ sie.bd.state \in Ready
\* Faulty: the lockout does not hold OUT transactions back.
Unlocked_OutAccepts(dt) ==
  ~sie.st.halt /\ dt = sie.st.dt /\ sie.bd.state \in Ready

OutAccepts(dt) ==
  /\ ~sie.st.halt
  /\ ~Locked(sie.st, sie.cel)
  /\ dt = sie.st.dt
  /\ sie.bd.state \in Ready

OutAnswer(dt) ==
  IF sie.st.halt THEN "tx_stall"
  ELSE IF Locked(sie.st, sie.cel) THEN "tx_nak"
  ELSE IF dt # sie.st.dt THEN "tx_ack" ELSE "tx_nak"

\* A good data packet, with the toggle dt, that fills or stalls a descriptor.
\* The answer moves the address on by one.
OutAccepted(dt, p) ==
  /\ sie.pc = "wait_out"
  /\ OutAccepts(dt)
  /\ Store(p \o Crc)
  /\ WriteBack("done_ok", sie.bd.state = "rdy_data", Len(p) + CrcLen)
  /\ Notify
  /\ Reload(IF sie.bd.state = "rdy_data" THEN "tx_ack" ELSE "tx_stall", Len(p) + CrcLen + 1)
  /\ UNCHANGED cel

\* A good data packet that is answered without being taken.
OutRefused(dt, p) ==
  /\ sie.pc = "wait_out"
  /\ ~OutAccepts(dt)
  /\ Store(p \o Crc)
  /\ Goto(OutAnswer(dt))
  /\ UNCHANGED <<eps, bd, cel, evt>>

\* _DO_OUT_BCI_FAIL: the error is reported if there was a ready descriptor.
OutFailed(bytes) ==
  /\ sie.pc = "wait_out"
  /\ Store(bytes)
  /\ IF IgnoreRxErr \/ sie.bd.state \notin Ready
       THEN Goto("idle") /\ UNCHANGED <<eps, bd, evt>>
       ELSE WriteBack("done_err", FALSE, Len(bytes)) /\ Notify /\ Reload("idle", Len(bytes))
  /\ UNCHANGED cel

\* RX_DISCARD_NEXT, and packets after a token that was not dispatched, or was
\* not received: they are stored if the length was not zeroed.
Discarded(bytes) ==
  /\ sie.pc \in {"discard", "idle"}
  /\ IF sie.past = 0 THEN Store(bytes) /\ Goto("idle")
                     ELSE StoreBehind(bytes) /\ Reload("idle", sie.past + Len(bytes))
  /\ UNCHANGED <<eps, bd, cel, evt>>

\* _DO_IN_BCI_FAIL: only the event tells the soft core.
RxNoAck ==
  /\ sie.pc = "wait_ack"
  /\ Notify
  /\ Goto("idle")
  /\ UNCHANGED <<eps, bd, buf, cel>>

RxData(dt, p) ==
  \/ SetupAccepted(dt, p)
  \/ dt # 0 /\ SetupFailed(p \o Crc)
  \/ OutAccepted(dt, p)
  \/ OutRefused(dt, p)
  \/ Discarded(p \o Crc)
  \/ RxNoAck

\* A damaged packet, or one that is neither token, data nor ACK (SOF).
RxFail(bytes) ==
  \/ SetupFailed(bytes)
  \/ OutFailed(bytes)
  \/ Discarded(bytes)
  \/ RxNoAck

RxAck ==
  /\ sie.pc = "wait_ack"
  /\ WriteBack("done_ok", TRUE, 0)
  /\ Notify
  /\ Goto("idle")
  /\ UNCHANGED <<buf, cel>>

-----------------------------------------------------------------------------
(* Packets sent.                                                           *)

\* TX_STALL_BD for an IN token: the descriptor is used up before the STALL.
StallBd ==
  /\ sie.pc = "stall_bd"
  /\ WriteBack("done_ok", FALSE, 0)
  /\ Notify
  /\ Goto("tx_stall")
  /\ UNCHANGED <<buf, cel>>

TxPayload == Prefix(buf[SieBd], sie.bd.len)

TxData ==
  /\ sie.pc = "tx_data"
  /\ Goto("wait_ack")
  /\ UNCHANGED <<eps, bd, buf, cel, evt>>

Handshake == [tx_ack |-> "ACK", tx_nak |-> "NAK", tx_stall |-> "STALL"]

TxHandshake ==
  /\ sie.pc \in DOMAIN Handshake
  /\ Goto("idle")
  /\ UNCHANGED <<eps, bd, buf, cel, evt>>

-----------------------------------------------------------------------------
(* Accesses of the soft core.                                              *)

WriteStatus(ep, st) ==
  eps' = [eps EXCEPT ![ep] = st] /\ UNCHANGED <<bd, buf, cel, evt, sie>>

WriteBd(id, b) ==
  bd' = [bd EXCEPT ![id] = b] /\ UNCHANGED <<eps, buf, cel, evt, sie>>

WriteBuf(id, data) ==
  buf' = [buf EXCEPT ![id] = data] /\ UNCHANGED <<eps, bd, cel, evt, sie>>

CelRelease == cel' = FALSE /\ UNCHANGED <<eps, bd, buf, evt, sie>>

\* Reading the event register returns the counter and clears it.
ReadEvt == evt' = 0 /\ UNCHANGED <<eps, bd, buf, cel, sie>>
=============================================================================
