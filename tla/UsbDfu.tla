------------------------------- MODULE UsbDfu -------------------------------
(***************************************************************************)
(* The DFU function driver, fw/v0/src/usb_dfu.c: requests of a host tool   *)
(* that downloads an image, and the flash operations that every start of   *)
(* frame pushes on.  Addresses count units, a few of which make a page and *)
(* a sector of the flash.                                                  *)
(*                                                                         *)
(* A DNLOAD request reaches the driver three times: when its SETUP packet  *)
(* is handled, while its data is copied into the buffer, and when cb_done  *)
(* reports that the status packet was acknowledged.  Another request may   *)
(* come in between, and the last may be lost.                              *)
(***************************************************************************)
EXTENDS Integers, Sequences

CONSTANTS
  Zone,      \* the zones, by alternate setting: [start, end]
  Sector,    \* what an erase command erases, and the size of the buffer
  Page,      \* what a program command may write
  BlockLen,  \* lengths of the blocks the host sends
  MaxImage   \* bound on the sessions of the host

Alt == DOMAIN Zone
Aligned(x) == \E k \in 0 .. x : x = k * Sector

ASSUME PageAssumption   == Page \in Nat /\ Page > 0
ASSUME SectorAssumption == Sector \in Nat /\ Sector > 0
\* The host keeps to a transfer size of a sector; the driver does not check it.
ASSUME BlockAssumption  == BlockLen \subseteq 1 .. Sector
ASSUME ZoneAssumption   ==
  /\ 0 \in Alt
  /\ \A a \in Alt : /\ Zone[a].start \in Nat /\ Aligned(Zone[a].start)
                    /\ Zone[a].end \in Nat /\ Aligned(Zone[a].end)
                    /\ Zone[a].start < Zone[a].end
ASSUME ImageAssumption  == MaxImage \in Nat

VARIABLES
  state,   \* g_dfu.state
  status,  \* g_dfu.status
  alt,     \* g_dfu.alt
  armed,   \* g_dfu.armed
  fl,      \* g_dfu.flash
  buf,     \* g_dfu.buf
  xfer,    \* the DNLOAD transfer in progress: its length and what is copied
  flash,   \* contents of the flash
  busy,    \* the flash executes a command
  host     \* the tool on the host

dfuVars  == <<state, status, alt, armed, fl>>
vars     == <<dfuVars, buf, xfer, flash, busy, host>>

DfuState == {"appDETACH", "dfuIDLE", "dfuDNLOAD_SYNC", "dfuDNLOAD_IDLE", "dfuERROR"}

\* dfu_valid_req, for the states that are ever entered.
ValidReq == [
  appDETACH      |-> {"GETSTATUS", "GETSTATE"},
  dfuIDLE        |-> {"DETACH", "DNLOAD", "UPLOAD", "GETSTATUS", "GETSTATE", "ABORT"},
  dfuDNLOAD_SYNC |-> {"DNLOAD", "GETSTATUS", "GETSTATE", "ABORT"},
  dfuDNLOAD_IDLE |-> {"DNLOAD", "GETSTATUS", "GETSTATE", "ABORT"},
  dfuERROR       |-> {"GETSTATUS", "CLRSTATUS", "GETSTATE"}]

\* A unit of the flash or the buffer: as delivered, erased, of an image, or
\* written without having been erased.
Cell    == [kind: {"old", "erased", "mixed", "data"}, img: 0 .. MaxImage, pos: Nat]
NoData(kind)   == [kind |-> kind, img |-> 0, pos |-> 0]
Data(img, pos) == [kind |-> "data", img |-> img, pos |-> pos]
Address == UNION {Zone[a].start .. Zone[a].end - 1 : a \in Alt}
NoXfer  == [len |-> 0, got |-> 0]

\* What the host believes: the session, which is an image of its own, what it
\* sent and what of it the device reported done; lost: the device missed an
\* acknowledgement.
Phase == {"reset", "idle", "data", "wait", "ended", "gone"}

\* Every variable keeps its type: dfuDNBUSY, which GETSTATUS reports, is never
\* a state of the driver, where no request would be valid.
TypeOK ==
  /\ state \in DfuState
  /\ status \in {"OK", "errUNKNOWN"}
  /\ alt \in Alt
  /\ armed \in BOOLEAN
  /\ fl \in [read: Nat, prog: Nat, erase: Nat, end: Nat,
             ofs: 0 .. Sector, len: 0 .. Sector, op: {"idle", "erase", "program"}]
  /\ buf \in [0 .. Sector - 1 -> Cell]
  /\ xfer \in [len: 0 .. Sector, got: 0 .. Sector]
  /\ flash \in [Address -> Cell]
  /\ busy \in BOOLEAN
  /\ host \in [phase: Phase, img: 0 .. MaxImage, sent: Nat, good: Nat, lost: BOOLEAN]

Init ==
  /\ state = "appDETACH" /\ status = "OK" /\ alt = 0 /\ armed = FALSE
  /\ fl = [read |-> 0, prog |-> 0, erase |-> 0, end |-> 0,
           ofs |-> 0, len |-> 0, op |-> "idle"]
  /\ buf = [i \in 0 .. Sector - 1 |-> NoData("old")]
  /\ xfer = NoXfer
  /\ flash = [a \in Address |-> NoData("old")]
  /\ busy = FALSE
  /\ host = [phase |-> "reset", img |-> 0, sent |-> 0, good |-> 0, lost |-> FALSE]

-----------------------------------------------------------------------------
(* _dfu_tick(), called for a start of frame.                               *)

NoRequest == UNCHANGED <<status, alt, buf, xfer, host>>
CanTick   == host.phase # "gone" /\ fl.op # "idle" /\ ~busy

\* Faulty: one sector is enough for a block.
Faulty_EraseDone == fl.erase > fl.prog

EraseDone == fl.erase >= fl.prog + fl.len

TickErase ==
  /\ CanTick /\ fl.op = "erase" /\ ~EraseDone
  /\ flash' = [a \in Address |->
                 IF a \in fl.erase .. fl.erase + Sector - 1 THEN NoData("erased")
                 ELSE flash[a]]
  /\ fl' = [fl EXCEPT !.erase = @ + Sector]
  /\ busy' = TRUE
  /\ UNCHANGED <<state, armed>> /\ NoRequest

\* Faulty: does not wait for the data.
Faulty_MayProgram == TRUE

MayProgram == state = "dfuDNLOAD_SYNC"

Programming == CanTick /\ (fl.op = "erase" => EraseDone)

\* The sectors are erased before the data has arrived.
TickErased ==
  /\ Programming /\ ~MayProgram
  /\ fl' = [fl EXCEPT !.op = "program"]
  /\ UNCHANGED <<state, armed, flash, busy>> /\ NoRequest

\* Faulty: only a full block is ever done.
Faulty_BlockDone == fl.ofs = Sector

BlockDone == fl.ofs = fl.len

TickDone ==
  /\ Programming /\ MayProgram /\ BlockDone
  /\ fl' = [fl EXCEPT !.op = "idle", !.prog = @ + fl.len]
  /\ state' = "dfuDNLOAD_IDLE"
  /\ armed' = TRUE
  /\ UNCHANGED <<flash, busy>> /\ NoRequest

MinOf(a, b) == IF a <= b THEN a ELSE b
PageLen == MinOf(fl.len - fl.ofs, Page - ((fl.prog + fl.ofs) % Page))

TickPage ==
  /\ Programming /\ MayProgram /\ ~BlockDone
  /\ LET at == fl.prog + fl.ofs
     IN flash' = [a \in Address |->
                    IF a \notin at .. at + PageLen - 1 THEN flash[a]
                    ELSE IF flash[a].kind = "erased" THEN buf[a - fl.prog]
                    ELSE NoData("mixed")]
  /\ fl' = [fl EXCEPT !.op = "program", !.ofs = @ + PageLen]
  /\ busy' = TRUE
  /\ UNCHANGED <<state, armed>> /\ NoRequest

Tick == TickErase \/ TickErased \/ TickDone \/ TickPage

FlashReady ==
  busy /\ busy' = FALSE /\ UNCHANGED <<dfuVars, buf, xfer, flash, host>>

-----------------------------------------------------------------------------
(* _dfu_ctrl_req().  A request takes the place of a transfer in progress;  *)
(* the host that gives one up, or is told of an error, ends its session.   *)

Requests(r) == host.phase \notin {"reset", "gone"} /\ r \in ValidReq[state]
Ended       == host' = [host EXCEPT !.phase = "ended"]
NoFlash     == UNCHANGED <<flash, busy>>

Refuse ==
  /\ state' = "dfuERROR" /\ status' = "errUNKNOWN"
  /\ xfer' = NoXfer /\ Ended
  /\ UNCHANGED <<alt, armed, fl, buf>> /\ NoFlash

Invalid ==
  /\ host.phase \in {"idle", "ended"}
  /\ \E r \in {"DNLOAD", "UPLOAD", "ABORT", "CLRSTATUS"} : r \notin ValidReq[state]
  /\ Refuse

\* Faulty: the length of the block is left out.
Faulty_Overflows(len) == fl.erase > fl.end

Overflows(len) == fl.erase + len > fl.end

DnloadRefused(len) ==
  /\ Requests("DNLOAD") /\ host.phase = "idle"
  /\ Overflows(len)
  /\ Refuse

Dnload(len) ==
  /\ Requests("DNLOAD") /\ host.phase = "idle"
  /\ ~Overflows(len)
  /\ xfer' = [len |-> len, got |-> 0]
  /\ fl' = [fl EXCEPT !.ofs = 0, !.len = len, !.op = "erase"]
  /\ host' = [host EXCEPT !.phase = "data"]
  /\ UNCHANGED <<state, status, alt, armed, buf>> /\ NoFlash

\* The data stage copies a packet to the buffer.
DnloadData ==
  /\ xfer.got < xfer.len
  /\ xfer' = [xfer EXCEPT !.got = @ + 1]
  /\ buf' = [buf EXCEPT ![xfer.got] = Data(host.img, host.sent + xfer.got)]
  /\ UNCHANGED <<dfuVars, host>> /\ NoFlash

Sent == host' = [host EXCEPT !.phase = "wait", !.sent = @ + xfer.len]

\* _dfu_dnload_done_cb()
DnloadDone ==
  /\ xfer # NoXfer /\ xfer.got = xfer.len
  /\ state' = "dfuDNLOAD_SYNC"
  /\ xfer' = NoXfer /\ Sent
  /\ UNCHANGED <<status, alt, armed, fl, buf>> /\ NoFlash

\* The host's acknowledgement of the status packet is lost: cb_done will not
\* be called, and the transfer ends with the next request.  (At most once in a
\* session: a bound.)
DoneLost ==
  /\ ~host.lost
  /\ xfer # NoXfer /\ xfer.got = xfer.len
  /\ xfer' = NoXfer
  /\ host' = [host EXCEPT !.phase = "wait", !.sent = @ + xfer.len, !.lost = TRUE]
  /\ UNCHANGED <<dfuVars, buf>> /\ NoFlash

\* A block of length 0 ends the download.
DnloadEnd ==
  /\ Requests("DNLOAD") /\ host.phase = "idle"
  /\ state' = "dfuIDLE" /\ Ended
  /\ UNCHANGED <<status, alt, armed, fl, buf, xfer>> /\ NoFlash

\* The state GETSTATUS reports; it is entered, unless the device is busy.
Reported ==
  IF state # "dfuDNLOAD_SYNC" THEN state
  ELSE IF fl.op = "idle" THEN "dfuDNLOAD_IDLE" ELSE "dfuDNBUSY"

\* The host takes what it sent for done.
Accepted == host' = [host EXCEPT !.phase = "idle", !.good = host.sent]

\* Faulty: the state reported is entered.
Faulty_GetStatus ==
  /\ Requests("GETSTATUS") /\ host.phase = "wait"
  /\ state' = Reported
  /\ \/ Reported = "dfuDNBUSY" /\ UNCHANGED host
     \/ Reported = "dfuDNLOAD_IDLE" /\ Accepted
     \/ Reported \notin {"dfuDNBUSY", "dfuDNLOAD_IDLE"} /\ Ended
  /\ UNCHANGED <<status, alt, armed, fl, buf, xfer>> /\ NoFlash

\* The host asks for the status until the block is done.
GetStatus ==
  /\ Requests("GETSTATUS") /\ host.phase = "wait"
  /\ \/ Reported = "dfuDNBUSY" /\ UNCHANGED <<state, host>>
     \/ Reported = "dfuDNLOAD_IDLE" /\ state' = Reported /\ Accepted
     \/ /\ Reported \notin {"dfuDNBUSY", "dfuDNLOAD_IDLE"}
        /\ state' = Reported /\ Ended
  /\ UNCHANGED <<status, alt, armed, fl, buf, xfer>> /\ NoFlash

\* GETSTATE in place of what the host was waiting for.
GiveUp ==
  /\ Requests("GETSTATE") /\ host.phase \in {"data", "wait"}
  /\ xfer' = NoXfer /\ Ended
  /\ UNCHANGED <<dfuVars, buf>> /\ NoFlash

ClrStatus ==
  /\ Requests("CLRSTATUS")
  /\ state' = "dfuIDLE" /\ status' = "OK"
  /\ UNCHANGED <<alt, armed, fl, buf, xfer, host>> /\ NoFlash

Abort ==
  /\ Requests("ABORT")
  /\ state' = "dfuIDLE"
  /\ xfer' = NoXfer /\ Ended
  /\ UNCHANGED <<status, alt, armed, fl, buf>> /\ NoFlash

Upload(len) ==
  /\ Requests("UPLOAD") /\ host.phase \in {"idle", "ended"}
  /\ LET n == MinOf(len, fl.end - fl.read)
     IN /\ buf' = [i \in 0 .. Sector - 1 |-> IF i < n THEN flash[fl.read + i] ELSE buf[i]]
        /\ fl' = [fl EXCEPT !.read = @ + n]
  /\ Ended
  /\ UNCHANGED <<state, status, alt, armed, xfer>> /\ NoFlash

\* _dfu_detach_done_cb()
Detach ==
  /\ Requests("DETACH") /\ host.phase \in {"idle", "ended"}
  /\ host' = [host EXCEPT !.phase = "gone"]
  /\ UNCHANGED <<dfuVars, buf, xfer>> /\ NoFlash

-----------------------------------------------------------------------------
(* The other callbacks: interface selected, configured, bus reset.         *)

\* _dfu_set_intf()
Select(a) ==
  /\ alt' = a
  /\ fl' = [fl EXCEPT !.read = Zone[a].start, !.prog = Zone[a].start,
                      !.erase = Zone[a].start, !.end = Zone[a].end]
Session == /\ host.img < MaxImage
           /\ host' = [phase |-> "idle", img |-> host.img + 1,
                       sent |-> 0, good |-> 0, lost |-> FALSE]

\* The tool, perhaps restarted in the middle of a block, selects a zone.
SetIntf(a) ==
  /\ host.phase \notin {"reset", "gone"} /\ Session
  /\ state' = "dfuIDLE" /\ Select(a)
  /\ xfer' = NoXfer
  /\ UNCHANGED <<status, armed, buf>> /\ NoFlash

\* SET_CONFIGURATION: _dfu_state_chg(), then interface 0 is set implicitly.
SetConf ==
  /\ host.phase = "reset" /\ Session
  /\ state' = "dfuIDLE" /\ Select(0)
  /\ UNCHANGED <<status, armed, buf, xfer>> /\ NoFlash

\* Resuming from suspend is a change to the configured state, too.
Resume ==
  /\ host.phase \notin {"reset", "gone"}
  /\ state' = "dfuIDLE"
  /\ UNCHANGED <<status, alt, armed, fl, buf, xfer, host>> /\ NoFlash

\* usb_bus_reset() and _dfu_bus_reset(), which reboots after a download.
BusReset ==
  /\ host.phase \notin {"reset", "gone"}
  /\ xfer' = NoXfer
  /\ host' = [host EXCEPT !.phase = IF armed THEN "gone" ELSE "reset"]
  /\ UNCHANGED <<dfuVars, buf>> /\ NoFlash

Download == \/ \E len \in BlockLen : Dnload(len) \/ DnloadRefused(len)
            \/ DnloadData \/ DnloadDone \/ DoneLost \/ DnloadEnd \/ GetStatus
Other    == \/ Invalid \/ GiveUp \/ ClrStatus \/ Abort \/ Detach
            \/ \E len \in BlockLen : Upload(len)
Stack    == SetConf \/ Resume \/ BusReset \/ \E a \in Alt : SetIntf(a)

Next == Tick \/ FlashReady \/ Download \/ Other \/ Stack

(* Frames start for ever, the flash finishes its commands, and a host that *)
(* waits for a block goes on asking.                                       *)
Fairness == WF_vars(Tick) /\ WF_vars(FlashReady) /\ WF_vars(GetStatus)
Spec     == Init /\ [][Next]_vars
FairSpec == Spec /\ Fairness

-----------------------------------------------------------------------------
(* Properties.                                                             *)

\* What the device reported done is in the flash, in its place, whatever
\* sessions were cut off before; unless an acknowledgement was lost.
Delivered ==
  ~host.lost =>
    \A p \in 0 .. host.good - 1 :
      flash[Zone[alt].start + p] = Data(host.img, p)

\* No unit is programmed that was not erased since it was last programmed.
ErasedFirst == \A a \in Address : flash[a].kind # "mixed"

\* Flash commands stay in the zone that is selected, even those a session
\* that was cut off left to be done.
InZone ==
  [][\A a \in Address :
       flash'[a] # flash[a] => a \in Zone[alt].start .. Zone[alt].end - 1]_vars

\* A host that polls for a block gets an answer.
BlockEnds == host.phase = "wait" ~> host.phase # "wait"

\* usb_dfu.c, DNLOAD, "Check length doesn't overflow": a block that fits the
\* zone is not refused.
RefusesOnlyOverflow ==
  [][\A len \in BlockLen :
       DnloadRefused(len) => fl.prog + len > fl.end]_vars
=============================================================================
