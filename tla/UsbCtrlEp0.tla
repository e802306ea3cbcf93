----------------------------- MODULE UsbCtrlEp0 -----------------------------
(***************************************************************************)
(* The firmware's control end point: usb_poll() of fw/v0/src/usb.c as far  *)
(* as events go, and fw/v0/src/usb_ctrl_ep0.c.  One step is one access to  *)
(* a register or a buffer of the core (UsbTrans), with the local work up   *)
(* to the next one, so that transactions interleave with the firmware at   *)
(* every point where the hardware lets them.                               *)
(*                                                                         *)
(* A request is answered by the function drivers; what they decide is a    *)
(* choice here: an error, or a success and the amount of data a read has.  *)
(***************************************************************************)
EXTENDS UsbTrans

CONSTANTS
  PktLen,   \* EP0_PKT_LEN, in units
  Request,  \* SETUP requests: [id, dir, len]
  NoReq,    \* the request before the first one
  MaxLen    \* bound on the length of a transfer, in units

ASSUME PktLenAssumption  == PktLen \in Nat /\ PktLen > 0
ASSUME MaxLenAssumption  == MaxLen \in Nat
ASSUME RequestAssumption ==
  /\ NoReq \in Request
  /\ \A r \in Request : /\ DOMAIN r = {"id", "dir", "len"}
                        /\ r.id \in Nat
                        /\ r.dir \in {"in", "out"}
                        /\ r.len \in 0 .. MaxLen
ASSUME DataAssumption    == Unit = [req: Request, pos: 0 .. MaxLen]
ASSUME Ep0Assumption     == 0 \in EpNum

VARIABLES
  pc,    \* where the firmware is
  seen,  \* the descriptor states usb_ep0_poll() read last (bds_setup, ...)
  ctrl,  \* g_usb.ctrl: state, request and transfer
  done   \* identifiers of the requests whose cb_done was called

fwVars == <<pc, seen, ctrl, done>>

SetupBd == <<0, "out", 1>>
OutBd   == <<0, "out", 0>>
InBd    == <<0, "in", 0>>

CtrlState == {"IDLE", "DATA_IN", "DATA_OUT", "STATUS_DONE_IN",
              "STATUS_DONE_OUT", "STALL"}

FwPc == {"poll", "drain", "drain_check",
         "peek_setup", "peek_out", "peek_in", "act", "act_out", "cb_done",
         "setup_in_clear", "setup_in_status", "setup_read", "handle",
         "stall_out", "release", "setup_queue",
         "in_fill", "in_queue", "in_status",
         "out_peek", "out_read", "out_clear", "out_next"}

Ctrl == [state: CtrlState, req: Request, len: 0 .. MaxLen, ofs: Int, data: Seq(Unit)]

FwTypeOK ==
  /\ pc \in FwPc
  /\ seen \in [setup: BdState, out: BdState, in: BdState]
  /\ ctrl \in Ctrl
  /\ done \subseteq Nat

\* Units from position a + 1 to b of the data of request r.
DataOf(r, a, b) == [i \in 1 .. b - a |-> [req |-> r, pos |-> a + i]]

\* The request a SETUP packet carries.
RequestIn(p) == IF p = <<>> THEN NoReq ELSE p[1].req

\* Faulty: the length field holds the index of the last unit.
Faulty_DataBd(n) == [state |-> "rdy_data", len |-> n - 1, setup |-> FALSE]

DataBd(n) == [state |-> "rdy_data", len |-> n, setup |-> FALSE]
StallBdOf == [state |-> "rdy_stall", len |-> 0, setup |-> FALSE]

\* The state usb_ep0_reset() leaves end point 0 in.
Ep0Status(d) == [type |-> "ctrl", halt |-> FALSE,
                 mode |-> IF d = "out" THEN "ctrl" ELSE "single",
                 bdi |-> 0, dt |-> IF d = "in" THEN 1 ELSE 0]

Ep0Reset ==
  /\ eps = [ep \in Ep |-> IF ep[1] = 0 THEN Ep0Status(ep[2]) ELSE NoStatus]
  /\ bd = [id \in BdId |-> IF id = SetupBd THEN DataBd(PktLen) ELSE NoBd]
  /\ ctrl = [state |-> "IDLE", req |-> NoReq, len |-> 0, ofs |-> 0, data |-> <<>>]

FwInit ==
  /\ pc = "poll"
  /\ seen = [setup |-> "none", out |-> "none", in |-> "none"]
  /\ done = {}

-----------------------------------------------------------------------------
(* usb_poll(): nothing to do without an event; otherwise the event         *)
(* register is read until the pending flag is clear, then end point 0 is   *)
(* polled.                                                                 *)

At(p)       == pc = p
Go(p)       == pc' = p
NoAccess    == UNCHANGED transVars
KeepLocal   == UNCHANGED <<seen, ctrl, done>>

Poll       == At("poll") /\ evt # 0 /\ Go("drain") /\ NoAccess /\ KeepLocal
Drain      == At("drain") /\ ReadEvt /\ Go("drain_check") /\ KeepLocal
DrainCheck == /\ At("drain_check")
              /\ Go(IF evt # 0 THEN "drain" ELSE "peek_setup")
              /\ NoAccess /\ KeepLocal

(* usb_ep0_poll(): one pass of its loop reads the three descriptors ...    *)

PeekSetup == /\ At("peek_setup") /\ Go("peek_out")
             /\ seen' = [seen EXCEPT !.setup = bd[SetupBd].state]
             /\ NoAccess /\ UNCHANGED <<ctrl, done>>
PeekOut   == /\ At("peek_out") /\ Go("peek_in")
             /\ seen' = [seen EXCEPT !.out = bd[OutBd].state]
             /\ NoAccess /\ UNCHANGED <<ctrl, done>>
PeekIn    == /\ At("peek_in") /\ Go("act")
             /\ seen' = [seen EXCEPT !.in = bd[InBd].state]
             /\ NoAccess /\ UNCHANGED <<ctrl, done>>

(* ... then acts on the first of the following that applies.               *)

NextPass == "peek_setup"

\* Faulty: a status packet that is queued counts as sent.
Faulty_StatusInDone ==
  /\ At("act")
  /\ ctrl.state = "STATUS_DONE_IN" /\ seen.in # "none"
  /\ ctrl' = [ctrl EXCEPT !.state = "IDLE"]
  /\ WriteBd(InBd, NoBd)
  /\ Go("cb_done")
  /\ UNCHANGED <<seen, done>>

StatusInDone ==
  /\ At("act")
  /\ ctrl.state = "STATUS_DONE_IN" /\ seen.in = "done_ok"
  /\ ctrl' = [ctrl EXCEPT !.state = "IDLE"]
  /\ WriteBd(InBd, NoBd)
  /\ Go("cb_done")
  /\ UNCHANGED <<seen, done>>

LastInDone ==
  /\ At("act")
  /\ ctrl.state = "STATUS_DONE_OUT" /\ seen.in = "done_ok"
  /\ WriteBd(InBd, NoBd)
  /\ Go(IF seen.out = "done_ok" THEN "act_out" ELSE NextPass)
  /\ KeepLocal

StatusOutDone ==
  /\ At("act_out") \/ (At("act") /\ seen.in # "done_ok")
  /\ ctrl.state = "STATUS_DONE_OUT" /\ seen.out = "done_ok"
  /\ ctrl' = [ctrl EXCEPT !.state = "IDLE"]
  /\ WriteBd(OutBd, NoBd)
  /\ Go("cb_done")
  /\ UNCHANGED <<seen, done>>

CbDone == /\ At("cb_done") /\ Go(NextPass)
          /\ done' = done \cup {ctrl.req.id}
          /\ NoAccess /\ UNCHANGED <<seen, ctrl>>

StallIn ==
  /\ At("act")
  /\ ctrl.state = "STALL" /\ seen.in # "rdy_stall"
  /\ WriteBd(InBd, StallBdOf)
  /\ Go(IF seen.out # "rdy_stall" THEN "act_out" ELSE NextPass)
  /\ KeepLocal

StallOut ==
  /\ At("act_out") \/ (At("act") /\ seen.in = "rdy_stall")
  /\ ctrl.state = "STALL" /\ seen.out # "rdy_stall"
  /\ WriteBd(OutBd, StallBdOf)
  /\ Go(NextPass)
  /\ KeepLocal

\* Neither a status stage nor a stall descriptor to act upon.
Quiet ==
  /\ At("act")
  /\ ctrl.state = "STATUS_DONE_IN" => seen.in # "done_ok"
  /\ ctrl.state = "STATUS_DONE_OUT" => seen.in # "done_ok" /\ seen.out # "done_ok"
  /\ ctrl.state = "STALL" => seen.in = "rdy_stall" /\ seen.out = "rdy_stall"

RetrySetup ==
  /\ Quiet /\ seen.setup = "done_err"
  /\ WriteBd(SetupBd, DataBd(PktLen))
  /\ Go(NextPass)
  /\ KeepLocal

RetryOut ==
  /\ Quiet /\ seen.setup # "done_err" /\ seen.out = "done_err"
  /\ WriteBd(OutBd, DataBd(PktLen))
  /\ Go(NextPass)
  /\ KeepLocal

NoError == Quiet /\ seen.setup # "done_err" /\ seen.out # "done_err"
InSetup == seen.setup = "done_ok"

-----------------------------------------------------------------------------
(* A SETUP packet: the left overs of the last transfer are cleared, the    *)
(* IN toggle is set, the request is read and handled, the lockout is       *)
(* released and the SETUP buffer is queued again.                          *)

SetupOutClear == /\ NoError /\ InSetup /\ Go("setup_in_clear")
                 /\ WriteBd(OutBd, NoBd) /\ KeepLocal
\* Faulty: the IN descriptor of the last transfer is left queued.
Faulty_SetupInClear == /\ At("setup_in_clear") /\ Go("setup_in_status")
                       /\ NoAccess /\ KeepLocal
SetupInClear  == /\ At("setup_in_clear") /\ Go("setup_in_status")
                 /\ WriteBd(InBd, NoBd) /\ KeepLocal
\* Faulty: the IN data toggle stays where the last transfer left it.
Faulty_SetupInStatus == /\ At("setup_in_status") /\ Go("setup_read")
                        /\ NoAccess /\ KeepLocal
SetupInStatus == /\ At("setup_in_status") /\ Go("setup_read")
                 /\ WriteStatus(<<0, "in">>, Ep0Status("in")) /\ KeepLocal
SetupRead     == /\ At("setup_read") /\ Go("handle")
                 /\ ctrl' = [ctrl EXCEPT !.req = RequestIn(buf[SetupBd]),
                                         !.len = 0, !.ofs = 0, !.data = <<>>]
                 /\ NoAccess /\ UNCHANGED <<seen, done>>

\* A driver refuses, nobody answers, or a write does not fit the buffer.
HandleError ==
  /\ At("handle") /\ Go("stall_out")
  /\ ctrl' = [ctrl EXCEPT !.state = "STALL"]
  /\ WriteBd(InBd, StallBdOf)
  /\ UNCHANGED <<seen, done>>
HandleStallOut == /\ At("stall_out") /\ Go("release")
                  /\ WriteBd(OutBd, StallBdOf) /\ KeepLocal

\* A read gets the n units the driver has, at most those asked for.
HandleRead(n) ==
  /\ At("handle") /\ Go("in_fill")
  /\ ctrl.req.dir = "in" /\ n <= ctrl.req.len
  /\ ctrl' = [ctrl EXCEPT !.state = "DATA_IN", !.len = n,
                          !.data = DataOf(ctrl.req, 0, n)]
  /\ NoAccess /\ UNCHANGED <<seen, done>>
HandleWrite ==
  /\ At("handle") /\ Go("out_peek")
  /\ ctrl.req.dir = "out"
  /\ ctrl' = [ctrl EXCEPT !.state = "DATA_OUT", !.len = ctrl.req.len]
  /\ NoAccess /\ UNCHANGED <<seen, done>>

Release    == /\ At("release") /\ Go("setup_queue")
              /\ CelRelease /\ KeepLocal
SetupQueue == /\ At("setup_queue") /\ Go("poll")
              /\ WriteBd(SetupBd, DataBd(PktLen)) /\ KeepLocal

-----------------------------------------------------------------------------
(* usb_handle_control_data(): called for a new request and for a data      *)
(* buffer that was transferred.                                            *)

AfterData == IF InSetup THEN "release" ELSE NextPass

MinOf(a, b) == IF a <= b THEN a ELSE b
Chunk == MinOf(ctrl.len - ctrl.ofs, PktLen)

InFill ==
  /\ At("in_fill") /\ Go("in_queue")
  /\ IF Chunk > 0
       THEN WriteBuf(InBd, SubSeq(ctrl.data, ctrl.ofs + 1, ctrl.ofs + Chunk))
       ELSE NoAccess
  /\ KeepLocal
\* Faulty: a full last packet ends the data, no empty one follows it.
Faulty_InQueue ==
  /\ At("in_queue")
  /\ WriteBd(InBd, DataBd(Chunk))
  /\ ctrl' = [ctrl EXCEPT !.ofs = @ + Chunk]
  /\ Go(IF ctrl'.ofs = ctrl.len THEN "in_status" ELSE AfterData)
  /\ UNCHANGED <<seen, done>>
InQueue ==
  /\ At("in_queue")
  /\ WriteBd(InBd, DataBd(Chunk))
  /\ ctrl' = [ctrl EXCEPT !.ofs = @ + Chunk]
  /\ Go(IF Chunk < PktLen THEN "in_status" ELSE AfterData)
  /\ UNCHANGED <<seen, done>>
\* A short packet ends the data: the status stage is an OUT packet.
InStatus ==
  /\ At("in_status") /\ Go(AfterData)
  /\ WriteBd(OutBd, DataBd(PktLen))
  /\ ctrl' = [ctrl EXCEPT !.state = "STATUS_DONE_OUT"]
  /\ UNCHANGED <<seen, done>>

OutPeek ==
  /\ At("out_peek")
  /\ seen' = [seen EXCEPT !.out = bd[OutBd].state]
  /\ Go(IF seen'.out = "done_ok" THEN "out_read" ELSE "out_next")
  /\ NoAccess /\ UNCHANGED <<ctrl, done>>
\* The length in the descriptor counts the two bytes of the CRC.
OutRead ==
  /\ At("out_read") /\ Go("out_clear")
  /\ LET n == bd[OutBd].len - CrcLen
     IN ctrl' = [ctrl EXCEPT !.ofs = @ + n,
                             !.data = @ \o Prefix(buf[OutBd], n)]
  /\ NoAccess /\ UNCHANGED <<seen, done>>
OutClear == /\ At("out_clear") /\ Go("out_next")
            /\ WriteBd(OutBd, NoBd) /\ KeepLocal
OutStatus ==
  /\ At("out_next") /\ Go(AfterData)
  /\ ctrl.ofs = ctrl.len
  /\ WriteBd(InBd, DataBd(0))
  /\ ctrl' = [ctrl EXCEPT !.state = "STATUS_DONE_IN"]
  /\ UNCHANGED <<seen, done>>
OutMore ==
  /\ At("out_next") /\ Go(AfterData)
  /\ ctrl.ofs # ctrl.len
  /\ IF seen.out # "rdy_data" THEN WriteBd(OutBd, DataBd(PktLen)) ELSE NoAccess
  /\ KeepLocal

-----------------------------------------------------------------------------
(* A data buffer was transferred, or nothing is left to do.                *)

DataEvent(dir, state, handler) ==
  /\ NoError /\ ~InSetup
  /\ seen[dir] = "done_ok"
  /\ ctrl.state = state
  /\ Go(handler)
  /\ NoAccess /\ KeepLocal
Unexpected(dir, state, id) ==
  /\ NoError /\ ~InSetup
  /\ seen[dir] = "done_ok"
  /\ ctrl.state # state
  /\ WriteBd(id, NoBd)
  /\ Go(NextPass)
  /\ KeepLocal

DataOutEvent  == DataEvent("out", "DATA_OUT", "out_peek")
UnexpectedOut == Unexpected("out", "DATA_OUT", OutBd)
DataInEvent   == seen.out # "done_ok" /\ DataEvent("in", "DATA_IN", "in_fill")
UnexpectedIn  == seen.out # "done_ok" /\ Unexpected("in", "DATA_IN", InBd)

\* Faulty: the events are read after the descriptors were handled.
Faulty_PollDone ==
  /\ NoError /\ ~InSetup /\ seen.out # "done_ok" /\ seen.in # "done_ok"
  /\ Go("poll")
  /\ ReadEvt /\ KeepLocal

PollDone ==
  /\ NoError /\ ~InSetup /\ seen.out # "done_ok" /\ seen.in # "done_ok"
  /\ Go("poll")
  /\ NoAccess /\ KeepLocal

FwPoll  == Poll \/ Drain \/ DrainCheck \/ PeekSetup \/ PeekOut \/ PeekIn \/ PollDone
FwState == \/ StatusInDone \/ LastInDone \/ StatusOutDone \/ CbDone
           \/ StallIn \/ StallOut \/ RetrySetup \/ RetryOut
FwSetup == \/ SetupOutClear \/ SetupInClear \/ SetupInStatus \/ SetupRead
           \/ HandleError \/ HandleStallOut \/ HandleWrite
           \/ \E n \in 0 .. MaxLen : HandleRead(n)
           \/ Release \/ SetupQueue
FwData  == \/ InFill \/ InQueue \/ InStatus
           \/ OutPeek \/ OutRead \/ OutClear \/ OutStatus \/ OutMore
           \/ DataOutEvent \/ UnexpectedOut \/ DataInEvent \/ UnexpectedIn

FwNext == FwPoll \/ FwState \/ FwSetup \/ FwData
=============================================================================
