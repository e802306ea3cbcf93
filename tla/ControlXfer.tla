---------------------------- MODULE ControlXfer -----------------------------
(***************************************************************************)
(* Control transfers end to end: the host (UsbHost), the transaction layer *)
(* (UsbTrans) and the firmware (UsbCtrlEp0) on a bus that may lose or      *)
(* corrupt a packet.                                                       *)
(***************************************************************************)
EXTENDS UsbCtrlEp0, FiniteSets

CONSTANTS
  MaxLoss,   \* bound on the packets the bus loses or corrupts
  MaxOther   \* bound on the tokens for other devices

ASSUME MaxLossAssumption  == MaxLoss \in Nat
ASSUME MaxOtherAssumption == MaxOther \in Nat

VARIABLES
  host,
  losses,  \* packets lost or damaged so far
  others   \* tokens for other devices so far

INSTANCE UsbHost WITH HostRequest <- Request, HostNoReq <- NoReq,
                      HostPktLen <- PktLen, HostUnit <- Unit

vars == <<transVars, fwVars, host, losses, others>>

Init ==
  /\ Ep0Reset
  /\ buf = [id \in BdId |-> <<>>]
  /\ cel = FALSE
  /\ evt = 0
  /\ sie = [pc |-> "idle", n |-> 0, d |-> "out", setup |-> FALSE, cel |-> FALSE,
            st |-> NoStatus, cur |-> 0, bd |-> NoBd, zl |-> TRUE,
            past |-> 0]
  /\ FwInit
  /\ HostInit
  /\ losses = 0
  /\ others = 0

-----------------------------------------------------------------------------
(* The bus.  The host sends a packet when none is on the bus and none is   *)
(* to be expected from the device.  A damaged token has the effect of a    *)
(* SOF before a lost one, and is not an action of its own.                 *)

Lose     == losses < MaxLoss /\ losses' = losses + 1 /\ UNCHANGED others
LoseNone == UNCHANGED <<losses, others>>

NewTransfer == /\ \E r \in Request : Start(r)
               /\ LoseNone /\ UNCHANGED <<transVars, fwVars>>

SetupOrOutToken == \E pid \in {"SETUP", "OUT"} :
                     SendToken(pid) /\ Token(0, pid) /\ LoseNone /\ UNCHANGED fwVars
InToken == SendToken("IN") /\ Token(0, "IN") /\ LoseNone /\ UNCHANGED fwVars
TokenLost == \E pid \in {"SETUP", "OUT", "IN"} :
               SendToken(pid) /\ Lose /\ UNCHANGED <<transVars, fwVars>>

DataToggle == IF host.stage = "setup" THEN 0 ELSE host.dt
Garbage    == <<CrcUnit>>

HostData == DataSent /\ RxData(DataToggle, HostPayload) /\ LoseNone /\ UNCHANGED fwVars
HostDataDamaged == DataSent /\ RxFail(Garbage) /\ Lose /\ UNCHANGED fwVars
HostDataLost == DataSent /\ Lose /\ UNCHANGED <<transVars, fwVars>>

StallByBd == StallBd /\ LoseNone /\ UNCHANGED <<fwVars, host>>

Answer == /\ TxHandshake /\ GetHandshake(Handshake[sie.pc])
          /\ LoseNone /\ UNCHANGED fwVars
AnswerLost == TxHandshake /\ NoAnswer /\ Lose /\ UNCHANGED fwVars
Silence == /\ sie.pc \in Waiting \cup {"idle"} /\ NoAnswer
           /\ LoseNone /\ UNCHANGED <<transVars, fwVars>>

DeviceData == TxData /\ GetData(sie.st.dt, TxPayload) /\ LoseNone /\ UNCHANGED fwVars
DeviceDataLost == TxData /\ NoAnswer /\ Lose /\ UNCHANGED fwVars

HostAck == AckSent /\ RxAck /\ LoseNone /\ UNCHANGED fwVars
HostAckDamaged == AckSent /\ RxNoAck /\ Lose /\ UNCHANGED fwVars
HostAckLost == AckSent /\ Lose /\ UNCHANGED <<transVars, fwVars>>

\* A SOF matters only to a transaction that waits.
Sof == /\ host.phase = "ready" /\ sie.pc \in Waiting /\ RxFail(<<>>)
       /\ LoseNone /\ UNCHANGED <<fwVars, host>>

OtherTokens == /\ others < MaxOther /\ others' = others + 1
               /\ \E pid \in {"SETUP", "OUT", "IN"} :
                    OtherTokenSent(pid) /\ OtherToken(0, pid)
               /\ UNCHANGED <<fwVars, losses>>
OtherData == /\ OtherDataSent /\ Discarded(Garbage)
             /\ LoseNone /\ UNCHANGED fwVars

Transaction == \/ SetupOrOutToken \/ InToken
               \/ HostData \/ StallByBd \/ Answer \/ Silence
               \/ DeviceData \/ HostAck \/ OtherData
Loss        == \/ TokenLost \/ HostDataDamaged \/ HostDataLost \/ AnswerLost
               \/ DeviceDataLost \/ HostAckDamaged \/ HostAckLost
Firmware    == FwNext /\ UNCHANGED <<host, losses, others>>

Next == NewTransfer \/ Transaction \/ Loss \/ Sof \/ OtherTokens \/ Firmware

Spec == Init /\ [][Next]_vars

(* The main loop of the application calls usb_poll() for ever, and the     *)
(* host keeps on with the transfer it started.  Nothing makes it start     *)
(* one, give one up, or the bus lose a packet.                             *)
Fairness == WF_vars(Firmware) /\ WF_vars(Transaction)
FairSpec == Spec /\ Fairness

-----------------------------------------------------------------------------
(* Properties.                                                             *)

\* Every variable keeps its type.
TypeOK ==
  /\ TransTypeOK
  /\ FwTypeOK
  /\ HostTypeOK
  /\ losses \in 0 .. MaxLoss
  /\ others \in 0 .. MaxOther

\* From the SETUP descriptor being seen done until the lockout is released,
\* usb_ep0_poll() works under the lockout and the core cannot take another
\* SETUP packet: the request it reads and answers does not change under it.
Handling == {"setup_in_clear", "setup_in_status", "setup_read", "handle", "stall_out"}
InHandler == \/ pc \in Handling
             \/ InSetup /\ pc \in {"in_fill", "in_queue", "in_status", "out_peek",
                                   "out_read", "out_clear", "out_next", "release"}
LockoutCoversHandling == InHandler => cel /\ sie.pc # "wait_setup"

(* What makes the two properties above inductive.                          *)

\* The firmware's transfer: which state a handler runs in, and the bounds of
\* the offset of a read.
TransferOK ==
  /\ pc \in {"in_fill", "in_queue"} => ctrl.state = "DATA_IN"
  /\ pc \in {"out_peek", "out_read", "out_clear", "out_next"} => ctrl.state = "DATA_OUT"
  /\ pc = "handle" => ctrl.ofs = 0
  /\ ctrl.state = "DATA_IN" => ctrl.ofs \in 0 .. ctrl.len /\ Len(ctrl.data) = ctrl.len

\* The host's transfer: what it may be sending.
HostXferOK ==
  /\ host.phase = "data" => host.stage \in {"setup", "data_out", "status_out"}
  /\ host.ofs <= host.req.len

\* Control end point 0 keeps its set up.
Ep0OK ==
  /\ eps[<<0, "out">>].type = "ctrl" /\ eps[<<0, "out">>].mode = "ctrl"
  /\ eps[<<0, "in">>].type = "ctrl" /\ eps[<<0, "in">>].mode = "single"
  /\ eps[<<0, "in">>].bdi = 0

\* The transaction in progress uses the descriptor that belongs to it, and
\* while a SETUP packet is expected its descriptor is ready and the lockout is
\* not set.  What lies behind a buffer of end point 0 is not modelled.
SieOK ==
  /\ sie.pc # "idle" =>
       /\ sie.n = 0
       /\ sie.st.type = "ctrl"
       /\ sie.st.mode = IF sie.d = "out" THEN "ctrl" ELSE "single"
       /\ sie.d = "in" => sie.st.bdi = 0
  /\ sie.pc = "wait_setup" =>
       sie.d = "out" /\ sie.cur = 1 /\ ~cel /\ bd[SetupBd].state = "rdy_data"
  /\ sie.pc = "wait_out" => sie.d = "out" /\ sie.cur = 0
  /\ sie.pc \in {"wait_ack", "stall_bd", "tx_data"} => sie.d = "in" /\ sie.cur = 0
  /\ sie.past = 0

\* Where usb_poll() is when what it read of the descriptors no longer counts.
Unread == {"poll", "drain", "drain_check", "peek_setup"}

\* A SETUP packet that is done has set the lockout, and once the firmware saw
\* it done the lockout stays until the firmware releases it.
LockoutOK ==
  /\ bd[SetupBd].state = "done_ok" => cel \/ pc = "setup_queue"
  /\ pc \notin Unread \cup {"setup_queue"} /\ InSetup => cel
  /\ pc \in Handling \cup {"release", "setup_queue"} => InSetup

IndInv == TypeOK /\ TransferOK /\ HostXferOK /\ Ep0OK /\ SieOK /\ LockoutOK

\* While the core may store into the OUT buffer, or transmit or use up what is
\* in the IN buffer, its descriptor is not one the firmware takes for done; and
\* the firmware accesses these buffers only when it is, or under the lockout.
DoneState == {"done_ok", "done_err"}
BuffersOK ==
  /\ sie.pc = "wait_out" /\ sie.bd.state \in Ready => bd[OutBd].state \notin DoneState
  /\ sie.pc = "wait_out" /\ ~sie.zl => sie.bd.state = "rdy_data"
  /\ sie.pc = "discard" => sie.zl
  /\ sie.pc = "idle" /\ others = 0 => sie.zl
  /\ sie.pc \in {"tx_data", "wait_ack", "stall_bd"} => bd[InBd].state \notin DoneState
  /\ sie.pc = "tx_data" => ~cel
  /\ pc = "act" /\ seen.in = "done_ok" => bd[InBd].state \in DoneState
  /\ pc = "in_fill" => InSetup \/ bd[InBd].state \in DoneState
  /\ pc = "out_read" => bd[OutBd].state \in DoneState

\* The core never stores into, or transmits from, a buffer the firmware is
\* reading or filling.
StoresInto(id) ==
  sie.pc \in {"idle", "wait_setup", "wait_out"} /\ ~sie.zl /\ SieBd = id
NoBufferRace ==
  /\ pc = "setup_read" => ~StoresInto(SetupBd)
  /\ pc = "out_read"   => ~StoresInto(OutBd)
  /\ pc = "in_fill"    => sie.pc # "tx_data"

\* doc/architecture.md: the lockout is there "to make sure that the soft core /
\* usb stack has time to properly analyze the received SETUP packet", so that
\* the packet is not overwritten before the lockout is released.
SetupKept == [][cel => buf'[SetupBd] = buf[SetupBd]]_vars

\* The data of a read reaches the host in order, without a gap or a
\* repetition, and none of it belongs to another request: not to one the
\* host gave up, whose buffer was still queued.
NoStaleData ==
  \A i \in 1 .. Len(host.got) : host.got[i] = [req |-> host.req, pos |-> i]

\* When the host takes the data stage of a read for complete, it has all that
\* the driver supplied.
ReadComplete ==
  host.stage = "status_out" =>
    ctrl.req = host.req /\ host.got = DataOf(host.req, 0, ctrl.len)

\* What the firmware has of the data of a write is what the host sent for that
\* request, in order, nothing twice; when it takes the data stage for complete,
\* it has all of it.
WriteIntact ==
  ctrl.state \in {"DATA_OUT", "STATUS_DONE_IN"} /\ pc # "handle" =>
    /\ ctrl.data = DataOf(ctrl.req, 0, ctrl.ofs)
    /\ ctrl.state = "STATUS_DONE_IN" => ctrl.ofs = ctrl.req.len

\* A transfer the host saw succeed is one the firmware handled: it was not a
\* status packet left over from another transfer that ended it.
NoFalseSuccess ==
  host.req.id \in host.finished =>
    ctrl.req = host.req /\ ctrl.state \in {"STATUS_DONE_IN", "STATUS_DONE_OUT", "IDLE"}

\* cb_done is called once for a request, and for a write only after the host
\* has its status packet: an address set by it is not used too early.
CallbackSound ==
  pc = "cb_done" =>
    /\ ctrl.req.id \notin done
    /\ ctrl.req.dir = "out" => ctrl.req.id \in host.finished
    /\ ctrl.req = host.req => host.stage \in {"status_out", "idle"}

\* No wake up is lost: when usb_poll() finds no event, no descriptor waits to
\* be handled, although it is handled long after its event was read, and no
\* lockout waits to be released.
NoLostWakeup ==
  pc = "poll" /\ evt = 0 =>
    /\ ~cel
    /\ bd[SetupBd].state = "rdy_data"
    /\ bd[OutBd].state \notin DoneState
    /\ bd[InBd].state \notin DoneState

\* The core's write back never destroys what the firmware wrote to the
\* descriptor since the core fetched it.
NoLostDescriptor ==
  [][sie' # sie /\ bd' # bd => bd[SieBd] = sie.bd]_vars

\* microcode.py, DO_SETUP: "if no-space, don't NAK, just ignore", so a SETUP
\* packet that is acknowledged is in the buffer.
SetupStored == sie.pc = "tx_ack" /\ sie.setup => RequestIn(buf[SetupBd]) = host.req

\* doc/mem-map.md: "evt" in the CSR is "Event pending" and the counter one of
\* "events since last read"; usb_poll() takes it that there was no activity
\* when none is pending, so that no packet of a read was sent that the
\* firmware has not seen.
ActivityPending ==
  pc = "poll" /\ bd[InBd].state \in DoneState => evt # 0

\* The ACK of a packet that is full and the last of a read is lost: the host
\* turns to the status stage, and the core waits for the packet to be asked for
\* again.  The firmware queues the answer to the status stage only with a
\* packet that is not full.
LastAckLost == /\ host.stage = "status_out"
               /\ ctrl.state = "DATA_IN" /\ ctrl.ofs = ctrl.len
               /\ bd[InBd].state = "rdy_data"

\* A transfer ends: with success, with a STALL, or because the host turned to
\* another one, which it does finitely often here; in that one case it does not.
TransferEnds == []<>(host.stage = "idle" \/ LastAckLost)

\* usb_ctrl_ep0.c:111 "If we're done, setup the OUT ack": when all the data of a
\* read was sent, the transfer can end.
EveryTransferEnds == []<>(host.stage = "idle")
=============================================================================
