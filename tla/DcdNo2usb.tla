----------------------------- MODULE DcdNo2usb ------------------------------
(***************************************************************************)
(* fw/tinyusb/dcd_no2usb.c: the device controller driver that tinyusb uses *)
(* instead of the firmware of fw/v0, for one bulk or interrupt end point.  *)
(* Every access to a register of the core is a step, and the core goes on  *)
(* between two of them.                                                    *)
(*                                                                         *)
(* A function driver calls dcd_edpt_open() and dcd_edpt_xfer(), which runs *)
(* with the interrupt disabled; the interrupt handler interrupts nothing   *)
(* else here, so that one place (cpu.at) tells what the processor does.    *)
(* The driver is built for the event counter or for the event FIFO.        *)
(***************************************************************************)
EXTENDS UsbTrans, UsbEvents

CONSTANTS
  ThisEp,   \* the entry of the event FIFO for an event of the end point
  Mps,      \* mps, the packet size of the end point, in units
  XferLen,  \* lengths of the transfers the function driver starts
  MaxPkt    \* bound on the packets of one session

ASSUME EntryAssumption == ThisEp \in Entry
ASSUME MpsAssumption  == Mps \in Nat /\ Mps > 0
ASSUME XferAssumption == XferLen \subseteq Nat
\* Units are told apart by their packet and their place in it.
ASSUME PktAssumption  == MaxPkt \in Nat /\ (1 .. MaxPkt) \X (1 .. Mps) \subseteq Unit

VARIABLES
  drv,   \* g_usb.ep[][] of the end point, and which one it is
  cpu,   \* where the processor is
  fifo,  \* the core and the driver are built with the event FIFO
  rst,   \* the bus is being reset (on); the driver does not know yet (pending)
  sent,  \* the packets that one side sent since the last reset, in order
  got    \* the packets that the other side received

dcdVars == <<drv, cpu, fifo, rst>>
logVars == <<sent, got>>

NoEp   == <<0, "none">>
Closed == [ep |-> NoEp, busy |-> FALSE, dual |-> FALSE, fill |-> 0, retire |-> 0,
           first |-> 0, len |-> 0, ofs |-> 0, plen |-> 0]

\* first: xfer.buf, as the number of the first packet of the transfer, which
\* tells what data it holds; 0 is the null pointer.
Driver == [ep: Ep \cup {NoEp}, busy: BOOLEAN, dual: BOOLEAN, fill: {0, 1},
           retire: {0, 1}, first: Nat, len: Nat, ofs: Nat, plen: Nat]

CpuAt == {"idle", "retire", "reset", "read", "fill", "load", "submit", "drain", "event"}

\* isr: in the interrupt handler; poll: do_ep_poll; failed: the descriptor to
\* be retired is DONE_ERR.
Cpu == [at: CpuAt, isr: BOOLEAN, poll: BOOLEAN, failed: BOOLEAN]

DcdTypeOK ==
  /\ drv \in Driver
  /\ cpu \in Cpu
  /\ fifo \in BOOLEAN
  /\ rst \in {"none", "on", "pending"}
  /\ FifoInv
  /\ sent \in Seq(Seq(Unit))
  /\ got \in Seq(Seq(Unit))

IsIn  == drv.ep[2] = "in"
IsOut == drv.ep[2] = "out"
Reg(b) == <<drv.ep[1], drv.ep[2], b>>
Other(b) == IF drv.dual THEN 1 - b ELSE b

MinOf(a, b) == IF a <= b THEN a ELSE b

\* The units from o on of a transfer, in packets of Mps units.
DataAt(first, o, n) ==
  [i \in 1 .. n |-> <<first + (o + i - 1) \div Mps, ((o + i - 1) % Mps) + 1>>]

\* The packets a transfer of len units is sent in; one of length 0 is a packet.
PacketsOf(first, len) ==
  LET n == IF len = 0 THEN 1 ELSE (len + Mps - 1) \div Mps
  IN [k \in 1 .. n |-> DataAt(first, (k - 1) * Mps, MinOf(Mps, len - (k - 1) * Mps))]

RdyBd(n) == [state |-> "rdy_data", len |-> n, setup |-> FALSE]

Idle     == [at |-> "idle", isr |-> FALSE, poll |-> FALSE, failed |-> FALSE]
At(a)    == cpu' = IF a = "idle" THEN Idle ELSE [cpu EXCEPT !.at = a]
NoFifo   == UNCHANGED fifoVars
NoAccess == UNCHANGED transVars
Keep     == UNCHANGED <<fifo, rst, logVars>> /\ NoFifo

-----------------------------------------------------------------------------
(* dcd_edpt_open() and dcd_edpt_xfer().                                    *)

\* The status word is written last: the core ignores the end point until then.
\* What its buffers hold does not matter, and is left out; the packets of the
\* request that makes the driver open it are the last the core has seen.
Open(ep, dual) ==
  /\ cpu.at = "idle" /\ drv = Closed /\ rst = "none"
  /\ drv' = [Closed EXCEPT !.ep = ep, !.dual = dual]
  /\ bd' = [id \in BdId |->
              IF <<id[1], id[2]>> # ep THEN bd[id]
              ELSE IF ep[2] = "out" THEN RdyBd(Mps) ELSE NoBd]
  /\ eps' = [eps EXCEPT ![ep] =
               [type |-> IF dual THEN "bulk" ELSE "int", halt |-> FALSE,
                mode |-> IF dual THEN "dual" ELSE "single", bdi |-> 0, dt |-> 0]]
  /\ buf' = [id \in BdId |-> <<>>]
  /\ sie' = [sie EXCEPT !.past = 0]
  /\ UNCHANGED <<cel, evt, cpu>> /\ Keep

\* tinyusb starts a transfer when the one before is complete.
Xfer(len) ==
  /\ cpu.at = "idle" /\ drv.ep # NoEp /\ ~drv.busy
  /\ IsIn => Len(sent) + Len(PacketsOf(1, len)) <= MaxPkt
  /\ drv' = [drv EXCEPT !.busy = TRUE, !.first = Len(sent) + 1,
                        !.len = len, !.ofs = 0, !.plen = 0]
  /\ sent' = IF IsIn THEN sent \o PacketsOf(Len(sent) + 1, len) ELSE sent
  /\ At("retire")
  /\ UNCHANGED <<got, fifo, rst>> /\ NoFifo /\ NoAccess

-----------------------------------------------------------------------------
(* _usb_ep_advance_xfer_in() and _out().                                   *)

\* Back in dcd_edpt_xfer(), in the loop over the events or at its end.
Return == IF cpu.isr /\ ~cpu.poll THEN "drain" ELSE "idle"

Complete(d) == [d EXCEPT !.busy = FALSE, !.first = 0, !.len = 0, !.ofs = 0, !.plen = 0]

Retired == [drv EXCEPT !.retire = Other(@)]

RetireIn ==
  /\ cpu.at = "retire" /\ IsIn
  /\ At(IF bd[Reg(drv.retire)].state \in {"done_ok", "done_err"} THEN "reset"
        ELSE IF drv.busy THEN "fill" ELSE Return)
  /\ UNCHANGED drv /\ Keep /\ NoAccess

ResetIn ==
  /\ cpu.at = "reset" /\ IsIn
  /\ WriteBd(Reg(drv.retire), NoBd)
  /\ drv' = Retired
  /\ At("retire") /\ Keep

\* Faulty: a descriptor that is done is not waited for.
Faulty_FillIn ==
  /\ cpu.at = "fill" /\ IsIn
  /\ drv' = [drv EXCEPT !.plen = MinOf(drv.len - drv.ofs, Mps)]
  /\ At("load") /\ Keep /\ NoAccess

FillIn ==
  /\ cpu.at = "fill" /\ IsIn
  /\ IF bd[Reg(drv.fill)].state = "none"
       THEN drv' = [drv EXCEPT !.plen = MinOf(drv.len - drv.ofs, Mps)] /\ At("load")
       ELSE At(Return) /\ UNCHANGED drv
  /\ Keep /\ NoAccess

LoadIn ==
  /\ cpu.at = "load"
  /\ WriteBuf(Reg(drv.fill),
              Overwrite(buf[Reg(drv.fill)], DataAt(drv.first, drv.ofs, drv.plen)))
  /\ At("submit") /\ UNCHANGED drv /\ Keep

\* The last packet is queued: dcd_event_xfer_complete().
SubmitIn ==
  /\ cpu.at = "submit"
  /\ WriteBd(Reg(drv.fill), RdyBd(drv.plen))
  /\ LET d == [drv EXCEPT !.ofs = @ + drv.plen, !.fill = Other(@)]
     IN IF d.ofs = d.len THEN drv' = Complete(d) /\ At(Return)
                         ELSE drv' = d /\ At("fill")
  /\ Keep

\* A packet that no transfer asked for stays in its buffer.
RetireOut ==
  /\ cpu.at = "retire" /\ IsOut
  /\ LET b == bd[Reg(drv.retire)]
     IN \/ /\ b.state = "done_ok" /\ drv.busy
           /\ drv' = [drv EXCEPT !.plen = MinOf(b.len - CrcLen, drv.len - drv.ofs)]
           /\ At("reset")
        \/ /\ b.state = "done_err"
           /\ cpu' = [cpu EXCEPT !.at = "reset", !.failed = TRUE]
           /\ UNCHANGED drv
        \/ /\ b.state # "done_err" /\ ~(b.state = "done_ok" /\ drv.busy)
           /\ At("fill") /\ UNCHANGED drv
  /\ Keep /\ NoAccess

\* Faulty: the descriptor is queued again before the data is read.
Faulty_ResetOut ==
  /\ cpu.at = "reset" /\ IsOut
  /\ WriteBd(Reg(drv.retire), RdyBd(Mps)) /\ UNCHANGED drv /\ At("read")
  /\ Keep

\* After an error descriptor 0 is queued again, whichever it was that failed.
ResetOut ==
  /\ cpu.at = "reset" /\ IsOut
  /\ IF cpu.failed
       THEN /\ WriteBd(Reg(0), RdyBd(Mps)) /\ drv' = Retired
            /\ cpu' = [cpu EXCEPT !.at = "retire", !.failed = FALSE]
       ELSE WriteBd(Reg(drv.retire), NoBd) /\ UNCHANGED drv /\ At("read")
  /\ Keep

\* A short packet, or the last that was asked for, completes the transfer.
ReadOut ==
  /\ cpu.at = "read"
  /\ got' = Append(got, Prefix(buf[Reg(drv.retire)], drv.plen))
  /\ LET d == [Retired EXCEPT !.ofs = @ + drv.plen]
     IN drv' = IF d.plen < Mps \/ d.ofs = d.len THEN Complete(d) ELSE d
  /\ At("retire")
  /\ UNCHANGED <<sent, fifo, rst>> /\ NoFifo /\ NoAccess

FillOut ==
  /\ cpu.at = "fill" /\ IsOut
  /\ IF bd[Reg(drv.fill)].state = "none"
       THEN /\ WriteBd(Reg(drv.fill), RdyBd(Mps))
            /\ drv' = [drv EXCEPT !.fill = Other(@)] /\ UNCHANGED cpu
       ELSE At(Return) /\ UNCHANGED drv /\ NoAccess
  /\ Keep

Advance == \/ RetireIn \/ ResetIn \/ FillIn \/ LoadIn \/ SubmitIn
           \/ RetireOut \/ ResetOut \/ ReadOut \/ FillOut

-----------------------------------------------------------------------------
(* dcd_int_handler().                                                      *)

Pending == IF fifo THEN EventPending ELSE evt # 0

\* Until the reset is over, the handler returns at once.
Interrupt ==
  /\ cpu.at = "idle" /\ rst = "none" /\ Pending
  /\ cpu' = [Idle EXCEPT !.at = "drain", !.isr = TRUE]
  /\ UNCHANGED drv /\ Keep /\ NoAccess

\* What the driver keeps, and the session that ends.
ClearState == drv' = Closed /\ sent' = <<>> /\ got' = <<>>

\* _usb_bus_reset(); the events read afterwards are older.
BusReset ==
  /\ cpu.at = "idle" /\ rst = "pending"
  /\ rst' = "none"
  /\ eps' = [ep \in Ep |-> NoStatus]
  /\ bd' = [id \in BdId |-> NoBd]
  /\ cel' = FALSE
  /\ ClearState
  /\ cpu' = IF Pending THEN [Idle EXCEPT !.at = "drain", !.isr = TRUE] ELSE Idle
  /\ UNCHANGED <<buf, evt, sie, fifo>> /\ NoFifo

\* Faulty: an overflow is ignored.
Faulty_AfterEvent(lost, ours) ==
  IF cpu.poll THEN At("drain")
  ELSE IF ~fifo THEN cpu' = [cpu EXCEPT !.at = "drain", !.poll = TRUE]
  ELSE At(IF ours /\ drv.ep # NoEp THEN "retire" ELSE "drain")

\* With the FIFO the event names its end point, one that was reset perhaps
\* (what it does there is undone by dcd_edpt_open()); after an overflow, and
\* without the FIFO, every end point that is busy is polled.
AfterEvent(lost, ours) ==
  IF cpu.poll THEN At("drain")
  ELSE IF ~fifo \/ lost THEN cpu' = [cpu EXCEPT !.at = "drain", !.poll = TRUE]
  ELSE At(IF ours /\ drv.ep # NoEp THEN "retire" ELSE "drain")

\* Reads the register of pending events; at the end it starts the poll.
Drain ==
  /\ cpu.at = "drain"
  /\ At(IF Pending THEN "event"
        ELSE IF cpu.poll /\ drv.busy THEN "retire" ELSE "idle")
  /\ UNCHANGED drv /\ Keep /\ NoAccess

ReadEvent ==
  /\ cpu.at = "event"
  /\ AfterEvent(overflow, fifo /\ Head(entries) = ThisEp)
  /\ ReadEvt
  /\ IF fifo THEN Cycle(FALSE, ThisEp, TRUE) ELSE NoFifo
  /\ UNCHANGED <<drv, fifo, rst, logVars>>

DcdNext == Advance \/ Interrupt \/ BusReset \/ Drain \/ ReadEvent
=============================================================================
