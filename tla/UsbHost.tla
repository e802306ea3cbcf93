------------------------------ MODULE UsbHost -------------------------------
(***************************************************************************)
(* The other end of the cable: a host that runs control transfers on end   *)
(* point 0, as the core and the firmware expect one to.  It is not part of *)
(* the repository; it is what sim/usb_tb.v plays from a capture and what   *)
(* doc/architecture.md assumes.                                            *)
(*                                                                         *)
(* A transfer is a SETUP transaction, data transactions and a status       *)
(* transaction in the other direction.  A transaction that gets no answer  *)
(* or a NAK is tried again; the host may give a transfer up at any time    *)
(* between two transactions and start another.                             *)
(***************************************************************************)
EXTENDS Integers, Sequences

CONSTANTS
  HostRequest,  \* requests the host may make: [id, dir, len]
  HostNoReq,    \* the request before the first one, id 0
  HostPktLen,   \* the packet size of end point 0, in units
  HostUnit

VARIABLE host

Stage == {"idle", "setup", "data_in", "data_out", "status_in", "status_out"}
\* ready: the next token may be sent;  data: the data of a SETUP or OUT token
\* follows;  answer: the device answers next;  ack: data was received;
\* other: another device was sent a SETUP or OUT token, its data follows.
Phase == {"ready", "data", "answer", "ack", "other"}

Host == [stage: Stage, phase: Phase, req: HostRequest, dt: {0, 1},
         ofs: Nat, got: Seq(HostUnit), finished: SUBSET Nat]

HostTypeOK == host \in Host

HostInit == host = [stage |-> "idle", phase |-> "ready", req |-> HostNoReq,
                    dt |-> 0, ofs |-> 0, got |-> <<>>, finished |-> {}]

\* The stage that follows the SETUP, or the last data packet.
StatusStage(r) == IF r.dir = "in" /\ r.len > 0 THEN "status_out" ELSE "status_in"
AfterSetup(r)  == IF r.len = 0 THEN "status_in"
                  ELSE IF r.dir = "in" THEN "data_in" ELSE "data_out"

\* Transfers are numbered, so that what belongs to one can be told from what
\* belongs to another.
Start(r) ==
  /\ host.phase = "ready"
  /\ r.id = host.req.id + 1
  /\ host' = [host EXCEPT !.stage = "setup", !.req = r, !.dt = 0, !.ofs = 0,
                          !.got = <<>>]

TokenPid ==
  CASE host.stage = "setup"                       -> "SETUP"
    [] host.stage \in {"data_out", "status_out"}  -> "OUT"
    [] host.stage \in {"data_in", "status_in"}    -> "IN"

SendToken(pid) ==
  /\ host.stage # "idle" /\ host.phase = "ready"
  /\ pid = TokenPid
  /\ host' = [host EXCEPT !.phase = IF pid = "IN" THEN "answer" ELSE "data"]

\* The payload of a SETUP or OUT packet.
SendLen == IF host.req.len - host.ofs < HostPktLen THEN host.req.len - host.ofs
                                                   ELSE HostPktLen
HostPayload ==
  CASE host.stage = "setup"    -> <<[req |-> host.req, pos |-> 0]>>
    [] host.stage = "data_out" ->
         [i \in 1 .. SendLen |-> [req |-> host.req, pos |-> host.ofs + i]]
    [] host.stage = "status_out" -> <<>>

DataSent == host.phase = "data" /\ host' = [host EXCEPT !.phase = "answer"]

Finish(h) == [h EXCEPT !.stage = "idle", !.phase = "ready",
                       !.finished = @ \cup {h.req.id}]

GetAck ==
  LET h == [host EXCEPT !.phase = "ready", !.dt = 1 - @] IN
  CASE host.stage = "setup"    -> [h EXCEPT !.stage = AfterSetup(h.req), !.dt = 1]
    [] host.stage = "data_out" ->
         IF host.ofs + SendLen = host.req.len
           THEN [h EXCEPT !.stage = "status_in", !.dt = 1]
           ELSE [h EXCEPT !.ofs = @ + SendLen]
    [] host.stage = "status_out" -> Finish(h)
    [] OTHER -> h

GetHandshake(hs) ==
  /\ host.phase = "answer"
  /\ host' = CASE hs = "ACK"   -> GetAck
               [] hs = "STALL" -> [host EXCEPT !.stage = "idle", !.phase = "ready"]
               [] hs = "NAK"   -> [host EXCEPT !.phase = "ready"]

NoAnswer == host.phase = "answer" /\ host' = [host EXCEPT !.phase = "ready"]

\* Data with the wrong toggle was seen before: it is acknowledged again.
\* A short packet, or all that was asked for, ends the data stage.
GetData(dt, p) ==
  /\ host.phase = "answer"
  /\ LET h == [host EXCEPT !.phase = "ack"]
         n == Len(host.got) + Len(p)
     IN host' = IF dt # host.dt THEN h
                ELSE IF host.stage = "status_in"
                       THEN [Finish(h) EXCEPT !.phase = "ack"]
                ELSE IF Len(p) < HostPktLen \/ n >= host.req.len
                       THEN [h EXCEPT !.stage = "status_out", !.dt = 1,
                                      !.got = @ \o p]
                       ELSE [h EXCEPT !.dt = 1 - @, !.got = @ \o p]

OtherTokenSent(pid) ==
  /\ host.phase = "ready"
  /\ host' = [host EXCEPT !.phase = IF pid = "IN" THEN "ready" ELSE "other"]
OtherDataSent == host.phase = "other" /\ host' = [host EXCEPT !.phase = "ready"]

AckSent == host.phase = "ack" /\ host' = [host EXCEPT !.phase = "ready"]
=============================================================================
