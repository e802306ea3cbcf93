------------------------------ MODULE BulkXfer ------------------------------
(***************************************************************************)
(* Transfers on one bulk or interrupt end point end to end: the driver     *)
(* (DcdNo2usb), the transaction layer (UsbTrans) and a host, on a bus that *)
(* may lose or corrupt packets and that the host may reset.                *)
(*                                                                         *)
(* The host is not part of the repository.  It sends a packet again, with  *)
(* the same toggle, until it is acknowledged, and takes a packet it has    *)
(* seen before for a repetition.                                           *)
(***************************************************************************)
EXTENDS DcdNo2usb, FiniteSets

CONSTANTS
  PktLen,   \* lengths of the packets the host sends
  MaxLoss,  \* bound on the packets the bus loses or corrupts
  MaxOther  \* bound on the events of other end points

ASSUME LenAssumption     == PktLen \subseteq 0 .. Mps
ASSUME BoundAssumption   == MaxLoss \in Nat /\ MaxOther \in Nat

VARIABLES
  host,   \* phase of the transaction, toggle, packets acknowledged
  losses,
  others,  \* events of other end points
  spoilt   \* the packets of the session whose bytes were overwritten (history)

stepVars == <<transVars, fifoVars, dcdVars, logVars, host, losses, others>>
vars     == <<stepVars, spoilt>>

Host     == [phase: {"ready", "data", "answer", "ack"}, dt: {0, 1}, acked: Nat]
HostIdle == [phase |-> "ready", dt |-> 0, acked |-> 0]

Init ==
  /\ eps = [ep \in Ep |-> NoStatus]
  /\ bd = [id \in BdId |-> NoBd]
  /\ buf = [id \in BdId |-> <<>>]
  /\ cel = FALSE /\ evt = 0
  /\ \E n \in EpNum :
     sie = [pc |-> "idle", n |-> n, d |-> "out", setup |-> FALSE, cel |-> FALSE,
            st |-> NoStatus, cur |-> 0, bd |-> NoBd, zl |-> TRUE, past |-> 0]
  /\ FifoInit
  /\ drv = Closed /\ fifo \in BOOLEAN /\ rst = "none"
  /\ cpu = Idle
  /\ sent = <<>> /\ got = <<>>
  /\ host = HostIdle /\ losses = 0 /\ others = 0 /\ spoilt = {}

-----------------------------------------------------------------------------
(* The bus, as in ControlXfer.  The host knows the end point once it is    *)
(* configured, and leaves the device time to recover from a reset.         *)

Lose     == losses < MaxLoss /\ losses' = losses + 1 /\ UNCHANGED others
LoseNone == UNCHANGED <<losses, others>>

\* The event counter and the event FIFO of a step of the core.
Events == IF fifo /\ evt' # evt THEN Cycle(TRUE, ThisEp, FALSE) ELSE NoFifo
Cpu_   == UNCHANGED <<dcdVars>>
Core   == Events /\ Cpu_
Silent == NoAccess /\ NoFifo /\ Cpu_

Phase(p) == host' = [host EXCEPT !.phase = p]
Sends    == host.phase = "ready" /\ rst = "none" /\ drv.ep # NoEp

\* The host sends the packet that is not acknowledged yet, or a new one.
Offers ==
  \/ host.acked < Len(sent) /\ UNCHANGED logVars
  \/ /\ host.acked = Len(sent) /\ Len(sent) < MaxPkt
     /\ \E n \in PktLen : sent' = Append(sent, DataAt(Len(sent) + 1, 0, n))
     /\ UNCHANGED got

OutToken == /\ Sends /\ IsOut /\ Offers
            /\ Token(drv.ep[1], "OUT") /\ Phase("data")
            /\ LoseNone /\ Core
InToken  == /\ Sends /\ IsIn
            /\ Token(drv.ep[1], "IN") /\ Phase("answer")
            /\ LoseNone /\ Core /\ UNCHANGED logVars
TokenLost == /\ Sends
             /\ \/ IsOut /\ Offers /\ Phase("data")
                \/ IsIn /\ UNCHANGED logVars /\ Phase("answer")
             /\ Lose /\ Silent

DataSent == host.phase = "data" /\ Phase("answer")
HostData == /\ DataSent /\ RxData(host.dt, sent[host.acked + 1])
            /\ LoseNone /\ Core /\ UNCHANGED logVars
HostDataDamaged == /\ DataSent /\ RxFail(<<CrcUnit>>)
                   /\ Lose /\ Core /\ UNCHANGED logVars
HostDataLost == DataSent /\ Lose /\ Silent /\ UNCHANGED logVars

Answer == /\ host.phase = "answer" /\ TxHandshake
          /\ host' = IF sie.pc = "tx_ack"
                       THEN [phase |-> "ready", dt |-> 1 - host.dt, acked |-> host.acked + 1]
                       ELSE [host EXCEPT !.phase = "ready"]
          /\ LoseNone /\ Core /\ UNCHANGED logVars
AnswerLost == /\ host.phase = "answer" /\ TxHandshake /\ Phase("ready")
              /\ Lose /\ Core /\ UNCHANGED logVars
Silence == /\ host.phase = "answer" /\ sie.pc \in Waiting \cup {"idle"}
           /\ Phase("ready") /\ LoseNone /\ Silent /\ UNCHANGED logVars

\* Data with the toggle the host expects is new.
DeviceData ==
  /\ host.phase = "answer" /\ TxData
  /\ LET new == sie.st.dt = host.dt
     IN /\ host' = [host EXCEPT !.phase = "ack", !.dt = IF new THEN 1 - @ ELSE @]
        /\ got' = IF new THEN Append(got, TxPayload) ELSE got
  /\ LoseNone /\ Core /\ UNCHANGED sent
DeviceDataLost == /\ host.phase = "answer" /\ TxData /\ Phase("ready")
                  /\ Lose /\ Core /\ UNCHANGED logVars

HostAck == /\ host.phase = "ack" /\ RxAck /\ Phase("ready")
           /\ LoseNone /\ Core /\ UNCHANGED logVars
HostAckDamaged == /\ host.phase = "ack" /\ RxNoAck /\ Phase("ready")
                  /\ Lose /\ Core /\ UNCHANGED logVars
HostAckLost == /\ host.phase = "ack" /\ Phase("ready")
               /\ Lose /\ Silent /\ UNCHANGED logVars

Sof == /\ host.phase = "ready" /\ sie.pc \in Waiting /\ RxFail(<<>>)
       /\ LoseNone /\ Core /\ UNCHANGED <<host, logVars>>

\* An event of another end point, in a burst that counts as one disturbance;
\* with the event counter it only makes the driver poll once more.
OtherEvent == /\ fifo /\ others < MaxOther /\ others' = others + 1
              /\ losses' = IF others = 0 THEN losses + 1 ELSE losses
              /\ losses' <= MaxLoss
              /\ \E e \in Entry \ {ThisEp} : Cycle(TRUE, e, FALSE)
              /\ UNCHANGED <<dcdVars, logVars, host>> /\ NoAccess

\* The host resets the bus, and forgets the session before it.
ResetStart == /\ host.phase = "ready" /\ rst = "none" /\ drv.ep # NoEp
              /\ rst' = "on" /\ host' = HostIdle
              /\ Lose /\ UNCHANGED <<drv, cpu, fifo, logVars>> /\ NoAccess /\ NoFifo
ResetEnd == /\ rst = "on" /\ rst' = "pending"
            /\ LoseNone /\ UNCHANGED <<drv, cpu, fifo, host, logVars>> /\ NoAccess /\ NoFifo

Transaction == \/ OutToken \/ InToken \/ HostData \/ Answer \/ Silence
               \/ DeviceData \/ HostAck
Loss        == \/ TokenLost \/ HostDataDamaged \/ HostDataLost \/ AnswerLost
               \/ DeviceDataLost \/ HostAckDamaged \/ HostAckLost
\* An end point is opened on a SET_CONFIGURATION, whose packets ended whatever
\* transaction of the session before still waited for one.
Function    == /\ \/ /\ sie.pc = "idle"
                     /\ \E n \in EpNum, d \in {"in", "out"}, dual \in BOOLEAN :
                          Open(<<n, d>>, dual)
                  \/ \E len \in XferLen : Xfer(len)
               /\ UNCHANGED <<host, losses, others>>
Firmware    == DcdNext /\ UNCHANGED <<host, losses, others>>

StepNext == \/ Transaction \/ Loss \/ Sof \/ OtherEvent \/ Function \/ Firmware
            \/ ResetStart \/ ResetEnd

\* A buffer that holds a packet which the driver has not read, or is reading.
Unread(id) == bd[id].state = "done_ok" \/ (cpu.at = "read" /\ id = Reg(drv.retire))

\* Data whose token the core has not seen is stored, over such a packet.
Spoils == /\ host.phase = "data" /\ sie.pc = "idle"
          /\ \E id \in BdId : Unread(id) /\ buf'[id] # buf[id]

\* The packet that is overwritten is the one the driver reads next.
History == spoilt' = IF rst = "pending" /\ rst' = "none" THEN {}
                     ELSE IF Spoils THEN spoilt \cup {Len(got) + 1}
                     ELSE spoilt

Next == StepNext /\ History

Spec == Init /\ [][Next]_vars

(* The interrupt is taken and its handler goes on, and the host polls the  *)
(* end point.  Nothing makes a transfer start or a packet get lost.        *)
Fairness == WF_stepVars(Firmware) /\ WF_stepVars(Transaction)
FairSpec == Spec /\ Fairness

-----------------------------------------------------------------------------
(* Properties.                                                             *)

TypeOK ==
  /\ TransTypeOK
  /\ DcdTypeOK
  /\ host \in Host
  /\ losses \in 0 .. MaxLoss
  /\ others \in 0 .. MaxOther
  /\ spoilt \subseteq 1 .. Len(sent)

\* What was received, with the bytes that were overwritten put right.
Repaired ==
  [k \in 1 .. Len(got) |-> IF k \in spoilt THEN Prefix(sent[k], Len(got[k])) ELSE got[k]]

\* The end point is a pipe of packets: the toggles, the two descriptors and
\* the indices by which core and driver take turns lose, repeat and reorder
\* nothing.  Only the bytes of a packet that is overwritten by data without a
\* token (DataIgnored) may be wrong; its place and its length are not.
Pipe == INSTANCE BulkPipe WITH
  Packet <- {DataAt(k, 0, n) : k \in 1 .. MaxPkt, n \in PktLen},
  Cut    <- PacketsOf,
  dir    <- IF rst # "none" THEN "none" ELSE drv.ep[2],
  sent   <- IF rst # "none" THEN <<>> ELSE sent,
  got    <- IF rst # "none" THEN <<>> ELSE Repaired,
  room   <- IF rst = "none" /\ IsOut /\ drv.busy THEN drv.len - drv.ofs ELSE -1
IsPipe == Pipe!Spec

\* The core never transmits from, or stores the data of an OUT transaction into,
\* a buffer that the driver is filling or reading.
NoRace ==
  /\ cpu.at = "load" => ~(sie.pc = "tx_data" /\ SieBd = Reg(drv.fill))
  /\ cpu.at = "read" =>
       ~(sie.pc \in {"idle", "wait_out"} /\ ~sie.zl /\ SieBd = Reg(drv.retire))

\* In IDLE the microcode says "invalid PID / not token, ignore packet": data
\* whose token was lost leaves alone what the driver has not read.
DataIgnored == [][~Spoils]_vars

\* The core writes back a descriptor as it fetched it: the driver never wrote
\* to it since.
NoLostWrite ==
  [][drv.ep # NoEp /\ rst = "none" /\ sie' # sie /\ bd' # bd => bd[SieBd] = sie.bd]_vars

\* Whatever was sent arrives, unless the function driver stops reading or the
\* bus is reset: no
\* event is lost on the way to the driver for good, and the core and the driver
\* never wait on each other.
Moves == []<>(Len(got) = Len(sent) \/ (IsOut /\ ~drv.busy) \/ rst # "none")
=============================================================================
