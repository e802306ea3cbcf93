-------------------------- MODULE ControlXferProofs --------------------------
(***************************************************************************)
(* Proofs about control transfers, for every packet size, every set of     *)
(* requests, any number of losses and both builds of the microcode.  What  *)
(* is proved of the data buffers is proved for a bus of one device: with   *)
(* others on it, it does not hold.  What is proved of the descriptors is   *)
(* proved for the build that ignores reception errors: in the other one a  *)
(* packet with an error is written back even under the lockout.  What is   *)
(* proved of the transfers end to end needs both, and that no SETUP token  *)
(* is lost while the core waits for the packet of an OUT transaction: it   *)
(* waits without a limit, and takes the data of the SETUP for that packet. *)
(***************************************************************************)
EXTENDS ControlXfer, UsbTransProofs

-----------------------------------------------------------------------------
(* Data and requests.                                                      *)

\* The data of a request is made of units.
LEMMA DataOfType ==
  ASSUME NEW r \in Request, NEW a \in Nat, NEW b \in 0 .. MaxLen, a <= b
  PROVE  DataOf(r, a, b) \in Seq(Unit) /\ Len(DataOf(r, a, b)) = b - a
<1>1. \A i \in 1 .. b - a : [req |-> r, pos |-> a + i] \in Unit
  BY MaxLenAssumption, DataAssumption
<1> QED BY <1>1 DEF DataOf

\* A request is read from any contents of the SETUP buffer.
LEMMA RequestInType ==
  ASSUME NEW p \in Seq(Unit)
  PROVE  RequestIn(p) \in Request
<1>1. CASE p = <<>>
  BY <1>1, RequestAssumption DEF RequestIn
<1>2. CASE p # <<>>
  <2>1. p[1] \in Unit
    BY <1>2, ElementOfSeq, LenProperties, EmptySeq
  <2> QED BY <1>2, <2>1, DataAssumption DEF RequestIn
<1> QED BY <1>1, <1>2

\* The requests are records of an identifier, a direction and a length.
LEMMA RequestFields ==
  ASSUME NEW r \in Request
  PROVE  r.id \in Nat /\ r.dir \in {"in", "out"} /\ r.len \in 0 .. MaxLen
  BY RequestAssumption

-----------------------------------------------------------------------------
(* Registers keep their types under the accesses of the firmware.          *)

\* End point 0 has these three descriptors.
LEMMA Descriptors ==
  /\ SetupBd \in BdId /\ OutBd \in BdId /\ InBd \in BdId
  /\ SetupBd # OutBd /\ SetupBd # InBd /\ OutBd # InBd
  /\ <<0, "in">> \in Ep /\ <<0, "out">> \in Ep
  BY Ep0Assumption DEF SetupBd, OutBd, InBd, BdId, Ep

\* The descriptors the firmware writes are descriptors.
LEMMA DescriptorValues ==
  /\ NoBd \in Descriptor /\ NoBd.state = "none"
  /\ StallBdOf \in Descriptor /\ StallBdOf.state = "rdy_stall"
  /\ \A n \in Nat : DataBd(n) \in Descriptor /\ DataBd(n).state = "rdy_data"
  BY DEF NoBd, StallBdOf, DataBd, Descriptor, BdState

-----------------------------------------------------------------------------
(* Every step of the firmware keeps the types.                             *)

\* usb_poll() and the reading of the descriptors.
LEMMA FwPollType ==
  ASSUME TypeOK, FwPoll
  PROVE  TransTypeOK' /\ FwTypeOK'
<1> USE DEF TypeOK, FwTypeOK, FwPc, At, Go, KeepLocal
<1>1. \A id \in BdId : bd[id].state \in BdState
  BY DEF TransTypeOK, Descriptor
<1>2. CASE Poll
  BY <1>2, OtherAccessType DEF NoAccess, Poll
<1>3. CASE Drain
  BY <1>3, OtherAccessType DEF NoAccess, Drain
<1>4. CASE DrainCheck
  BY <1>4, OtherAccessType DEF NoAccess, DrainCheck
<1>5. CASE PeekSetup
  BY <1>1, <1>5, OtherAccessType, Descriptors DEF NoAccess, PeekSetup
<1>6. CASE PeekOut
  BY <1>1, <1>6, OtherAccessType, Descriptors DEF NoAccess, PeekOut
<1>7. CASE PeekIn
  BY <1>1, <1>7, OtherAccessType, Descriptors DEF NoAccess, PeekIn
<1>8. CASE PollDone
  BY <1>8, OtherAccessType DEF NoAccess, PollDone
<1> QED BY <1>2, <1>3, <1>4, <1>5, <1>6, <1>7, <1>8 DEF FwPoll

\* The status stage, stalls and errors.
LEMMA FwStateType ==
  ASSUME TypeOK, FwState
  PROVE  TransTypeOK' /\ FwTypeOK'
<1> USE Descriptors, DescriptorValues, WriteBdType
    DEF TypeOK, FwTypeOK, FwPc, Ctrl, CtrlState, At, Go, KeepLocal, NextPass
<1>1. CASE StatusInDone
  BY <1>1 DEF StatusInDone
<1>2. CASE LastInDone
  BY <1>2 DEF LastInDone
<1>3. CASE StatusOutDone
  BY <1>3 DEF StatusOutDone
<1>4. CASE CbDone
  <2>1. ctrl.req.id \in Nat
    BY RequestFields
  <2>2. TransTypeOK'
    BY <1>4, OtherAccessType DEF NoAccess, CbDone
  <2> QED BY <1>4, <2>1, <2>2 DEF CbDone
<1>5. CASE StallIn
  BY <1>5 DEF StallIn
<1>6. CASE StallOut
  BY <1>6 DEF StallOut
<1>7. CASE RetrySetup
  BY <1>7, PktLenAssumption DEF RetrySetup
<1>8. CASE RetryOut
  BY <1>8, PktLenAssumption DEF RetryOut
<1> QED BY <1>1, <1>2, <1>3, <1>4, <1>5, <1>6, <1>7, <1>8 DEF FwState

\* A new request starts a transfer.
LEMMA NewCtrlType ==
  ASSUME NEW c \in Ctrl, NEW q \in Request, NEW n \in 0 .. MaxLen, NEW o \in Int,
         NEW s \in Seq(Unit)
  PROVE  [c EXCEPT !.req = q, !.len = n, !.ofs = o, !.data = s] \in Ctrl
  BY DEF Ctrl

\* A SETUP packet and the request in it.
LEMMA FwSetupType ==
  ASSUME TypeOK, TransferOK, FwSetup
  PROVE  TransTypeOK' /\ FwTypeOK'
<1> USE Descriptors, DescriptorValues, WriteBdType
    DEF TypeOK, FwTypeOK, FwPc, Ctrl, CtrlState, At, Go, KeepLocal
<1>1. CASE SetupOutClear
  BY <1>1 DEF SetupOutClear
<1>2. CASE SetupInClear
  BY <1>2 DEF SetupInClear
<1>3. CASE SetupInStatus
  BY <1>3, WriteStatusType DEF SetupInStatus, Ep0Status, EpStatus, EpType
<1>4. CASE SetupRead
  <2>1. RequestIn(buf[SetupBd]) \in Request
    BY RequestInType DEF TransTypeOK
  <2> DEFINE q == RequestIn(buf[SetupBd])
  <2> HIDE DEF q
  <2>3. ctrl' = [ctrl EXCEPT !.req = q, !.len = 0, !.ofs = 0, !.data = <<>>]
    BY <1>4 DEF SetupRead, q
  <2>4. ctrl' \in Ctrl
    <3>1. q \in Request
      BY <2>1 DEF q
    <3> DEFINE zero == 0
               empty == <<>>
    <3>2. zero \in 0 .. MaxLen /\ zero \in Int /\ empty \in Seq(Unit)
      BY MaxLenAssumption
    <3>3. ctrl' = [ctrl EXCEPT !.req = q, !.len = zero, !.ofs = zero, !.data = empty]
      BY <2>3
    <3>4. ctrl \in Ctrl
      OBVIOUS
    <3> HIDE DEF zero, empty, Ctrl
    <3> QED BY <3>1, <3>2, <3>3, <3>4, NewCtrlType
  <2>5. TransTypeOK'
    BY <1>4, OtherAccessType DEF NoAccess, SetupRead
  <2> QED BY <1>4, <2>4, <2>5 DEF SetupRead
<1>5. CASE HandleError
  BY <1>5 DEF HandleError
<1>6. CASE HandleStallOut
  BY <1>6 DEF HandleStallOut
<1>7. CASE HandleWrite
  <2>1. ctrl.req.len \in 0 .. MaxLen
    BY RequestFields
  <2> QED BY <1>7, <2>1, OtherAccessType DEF NoAccess, HandleWrite
<1>8. ASSUME NEW n \in 0 .. MaxLen, HandleRead(n)
      PROVE  TransTypeOK' /\ FwTypeOK'
  <2>1. DataOf(ctrl.req, 0, n) \in Seq(Unit)
    BY DataOfType
  <2> QED BY <1>8, <2>1, OtherAccessType DEF NoAccess, HandleRead
<1>9. CASE Release
  BY <1>9, OtherAccessType DEF NoAccess, Release
<1>10. CASE SetupQueue
  BY <1>10, PktLenAssumption DEF SetupQueue
<1> QED BY <1>1, <1>2, <1>3, <1>4, <1>5, <1>6, <1>7, <1>8, <1>9, <1>10 DEF FwSetup

\* What a chunk of a read is.
LEMMA ChunkFacts ==
  ASSUME TypeOK, TransferOK, pc \in {"in_fill", "in_queue"}
  PROVE  /\ Chunk \in Nat /\ ctrl.ofs + Chunk <= ctrl.len
         /\ ctrl.ofs \in Nat /\ ctrl.len \in Nat /\ ctrl.ofs <= ctrl.len
         /\ Len(ctrl.data) = ctrl.len
  BY MaxLenAssumption, PktLenAssumption DEF TypeOK, FwTypeOK, Ctrl, TransferOK, Chunk, MinOf

\* The data stages.
LEMMA FwDataType ==
  ASSUME TypeOK, TransferOK, FwData
  PROVE  TransTypeOK' /\ FwTypeOK'
<1> USE Descriptors, DescriptorValues, WriteBdType
    DEF TypeOK, FwTypeOK, FwPc, Ctrl, CtrlState, At, Go, KeepLocal, NextPass, AfterData
<1>1. CASE InFill
  <2>1. \A i \in ctrl.ofs + 1 .. ctrl.ofs + Chunk : ctrl.data[i] \in Unit
    BY <1>1, ChunkFacts, ElementOfSeq DEF InFill
  <2>2. SubSeq(ctrl.data, ctrl.ofs + 1, ctrl.ofs + Chunk) \in Seq(Unit)
    BY <1>1, <2>1, ChunkFacts, SubSeqProperties DEF InFill
  <2>3. TransTypeOK'
    BY <1>1, <2>2, WriteBufType, OtherAccessType DEF NoAccess, InFill
  <2> QED BY <1>1, <2>3 DEF InFill
<1>2. CASE InQueue
  <2>1. Chunk \in Nat
    BY <1>2, ChunkFacts DEF InQueue
  <2>2. ctrl' \in Ctrl
    <3>1. ctrl.ofs + Chunk \in Int
      BY <2>1
    <3> QED BY <1>2, <3>1 DEF InQueue
  <2>3. TransTypeOK'
    BY <1>2, <2>1 DEF InQueue
  <2> QED BY <1>2, <2>2, <2>3 DEF InQueue
<1>3. CASE InStatus
  BY <1>3, PktLenAssumption DEF InStatus
<1>4. CASE OutPeek
  <2>1. bd[OutBd].state \in BdState
    BY DEF TransTypeOK, Descriptor
  <2> QED BY <1>4, <2>1, OtherAccessType DEF NoAccess, OutPeek
<1>5. CASE OutRead
  <2>1. bd[OutBd].len \in Nat /\ buf[OutBd] \in Seq(Unit)
    BY DEF TransTypeOK, Descriptor
  <2>2. Prefix(buf[OutBd], bd[OutBd].len - CrcLen) \in Seq(Unit)
    <3>1. bd[OutBd].len - CrcLen \in Int
      BY <2>1 DEF CrcLen
    <3> QED BY <2>1, <3>1, PrefixType
  <2>3. TransTypeOK'
    BY <1>5, OtherAccessType DEF NoAccess, OutRead
  <2> DEFINE n == bd[OutBd].len - CrcLen
             got == ctrl.data \o Prefix(buf[OutBd], n)
  <2>4. ctrl.ofs + n \in Int
    BY <2>1 DEF CrcLen
  <2>5. got \in Seq(Unit)
    BY <2>2, ConcatProperties
  <2>6. ctrl' = [ctrl EXCEPT !.ofs = ctrl.ofs + n, !.data = got]
    BY <1>5 DEF OutRead
  <2> HIDE DEF n, got
  <2>7. ctrl' \in Ctrl
    BY <2>4, <2>5, <2>6
  <2> QED BY <1>5, <2>3, <2>7 DEF OutRead
<1>6. CASE OutClear
  BY <1>6 DEF OutClear
<1>7. CASE OutStatus
  BY <1>7 DEF OutStatus
<1>8. CASE OutMore
  BY <1>8, PktLenAssumption, OtherAccessType DEF NoAccess, OutMore
<1>9. CASE DataOutEvent \/ DataInEvent
  BY <1>9, OtherAccessType DEF NoAccess, DataOutEvent, DataInEvent, DataEvent
<1>10. CASE UnexpectedOut \/ UnexpectedIn
  BY <1>10 DEF UnexpectedOut, UnexpectedIn, Unexpected
<1> QED BY <1>1, <1>2, <1>3, <1>4, <1>5, <1>6, <1>7, <1>8, <1>9, <1>10 DEF FwData

-----------------------------------------------------------------------------
(* Every step of the host keeps its types and its bounds.                  *)

HostOK == HostTypeOK /\ HostXferOK

\* What the host may send next fits the transfer.
LEMMA SendLenFacts ==
  ASSUME HostOK
  PROVE  SendLen \in Nat /\ host.ofs + SendLen <= host.req.len /\ host.ofs \in Nat
<1>1. host.req \in Request /\ host.ofs \in Nat
  BY DEF HostOK, HostTypeOK, Host
<1>2. host.req.len \in 0 .. MaxLen
  BY <1>1, RequestFields
<1>3. host.ofs <= host.req.len
  BY DEF HostOK, HostXferOK
<1> QED BY <1>1, <1>2, <1>3, MaxLenAssumption, PktLenAssumption DEF SendLen

\* The payload of a packet the host sends is made of units.
LEMMA HostPayloadType ==
  ASSUME HostOK, host.phase = "data"
  PROVE  HostPayload \in Seq(Unit)
<1>1. host.req \in Request /\ host.req.len \in 0 .. MaxLen
  BY RequestFields DEF HostOK, HostTypeOK, Host
<1>2. CASE host.stage = "setup"
  <2>1. [req |-> host.req, pos |-> 0] \in Unit
    BY <1>1, MaxLenAssumption, DataAssumption
  <2> QED BY <1>2, <2>1 DEF HostPayload
<1>3. CASE host.stage = "data_out"
  <2>1. \A i \in 1 .. SendLen : [req |-> host.req, pos |-> host.ofs + i] \in Unit
    BY <1>1, SendLenFacts, MaxLenAssumption, DataAssumption
  <2>2. [i \in 1 .. SendLen |-> [req |-> host.req, pos |-> host.ofs + i]] \in Seq(Unit)
    BY <2>1, SendLenFacts
  <2> QED BY <1>3, <2>2 DEF HostPayload
<1>4. CASE host.stage = "status_out"
  BY <1>4 DEF HostPayload
<1> QED BY <1>2, <1>3, <1>4 DEF HostOK, HostXferOK

\* A host with the same request.
SameXfer(k, h, ph, o, f) ==
  k \in Host /\ k.req = h.req /\ k.ofs = o /\ k.phase = ph /\ k.finished = f

\* Some fields of the host replaced.
LEMMA HostUpdate ==
  \A h \in Host :
    /\ \A ph \in Phase, t \in {0, 1} :
         SameXfer([h EXCEPT !.phase = ph, !.dt = t], h, ph, h.ofs, h.finished)
    /\ \A st \in Stage, t \in {0, 1} :
         SameXfer([h EXCEPT !.stage = st, !.dt = t], h, h.phase, h.ofs, h.finished)
    /\ \A o \in Nat : SameXfer([h EXCEPT !.ofs = o], h, h.phase, o, h.finished)
    /\ \A ph \in Phase : SameXfer([h EXCEPT !.phase = ph], h, ph, h.ofs, h.finished)
    /\ \A st \in Stage, ph \in Phase, f \in SUBSET Nat :
         SameXfer([h EXCEPT !.stage = st, !.phase = ph, !.finished = f], h, ph, h.ofs, f)
    /\ \A t \in {0, 1}, g \in Seq(Unit) :
         SameXfer([h EXCEPT !.dt = t, !.got = g], h, h.phase, h.ofs, h.finished)
    /\ \A st \in Stage, t \in {0, 1}, g \in Seq(Unit) :
         SameXfer([h EXCEPT !.stage = st, !.dt = t, !.got = g],
                  h, h.phase, h.ofs, h.finished)
<1> USE DEF Host, SameXfer
<1> TAKE h \in Host
<1>1. \A ph \in Phase, t \in {0, 1} :
        SameXfer([h EXCEPT !.phase = ph, !.dt = t], h, ph, h.ofs, h.finished)
  OBVIOUS
<1>2. \A st \in Stage, t \in {0, 1} :
        SameXfer([h EXCEPT !.stage = st, !.dt = t], h, h.phase, h.ofs, h.finished)
  OBVIOUS
<1>3. /\ \A o \in Nat : SameXfer([h EXCEPT !.ofs = o], h, h.phase, o, h.finished)
      /\ \A ph \in Phase : SameXfer([h EXCEPT !.phase = ph], h, ph, h.ofs, h.finished)
  OBVIOUS
<1>4. \A st \in Stage, ph \in Phase, f \in SUBSET Nat :
        SameXfer([h EXCEPT !.stage = st, !.phase = ph, !.finished = f], h, ph, h.ofs, f)
  OBVIOUS
<1>5. \A t \in {0, 1}, g \in Seq(Unit) :
        SameXfer([h EXCEPT !.dt = t, !.got = g], h, h.phase, h.ofs, h.finished)
  OBVIOUS
<1>6. \A st \in Stage, t \in {0, 1}, g \in Seq(Unit) :
        SameXfer([h EXCEPT !.stage = st, !.dt = t, !.got = g],
                 h, h.phase, h.ofs, h.finished)
  OBVIOUS
<1> QED BY <1>1, <1>2, <1>3, <1>4, <1>5, <1>6, Zenon

\* A new transfer.
LEMMA StartType ==
  ASSUME HostOK, NEW r \in Request, Start(r)
  PROVE  HostOK'
<1>1. r.len \in 0 .. MaxLen /\ r \in Request
  BY RequestFields
<1>2. <<>> \in Seq(Unit)
  OBVIOUS
<1>3. /\ host' = [host EXCEPT !.stage = "setup", !.req = r, !.dt = 0, !.ofs = 0,
                             !.got = <<>>]
      /\ host.phase = "ready" /\ host \in Host
  BY DEF Start, HostOK, HostTypeOK
<1>4. /\ host'.stage = "setup" /\ host'.req = r /\ host'.ofs = 0
      /\ host'.phase = "ready"
      /\ host' \in Host
  BY <1>1, <1>2, <1>3 DEF Host, Stage
<1> QED BY <1>1, <1>4 DEF HostOK, HostTypeOK, HostXferOK

\* A token, a data packet, an acknowledge, or no answer.
LEMMA PhaseType ==
  ASSUME HostOK,
         \/ \E pid \in {"IN", "OUT", "SETUP"} : SendToken(pid)
         \/ \E pid \in {"IN", "OUT", "SETUP"} : OtherTokenSent(pid)
         \/ DataSent \/ NoAnswer \/ AckSent \/ OtherDataSent
  PROVE  HostOK'
<1>1. PICK ph \in Phase :
        /\ host' = [host EXCEPT !.phase = ph]
        /\ ph = "data" => host.stage \in {"setup", "data_out", "status_out"}
  <2>1. CASE \E pid \in {"IN", "OUT", "SETUP"} : SendToken(pid)
    <3>1. PICK pid \in {"IN", "OUT", "SETUP"} : SendToken(pid)
      BY <2>1
    <3>2. host.stage \in Stage
      BY DEF HostOK, HostTypeOK, Host
    <3> QED BY <3>1, <3>2 DEF SendToken, TokenPid, Stage, Phase
  <2>2. CASE \E pid \in {"IN", "OUT", "SETUP"} : OtherTokenSent(pid)
    <3>1. PICK pid \in {"IN", "OUT", "SETUP"} : OtherTokenSent(pid)
      BY <2>2
    <3>2. host' = [host EXCEPT !.phase = IF pid = "IN" THEN "ready" ELSE "other"]
      BY <3>1 DEF OtherTokenSent
    <3> QED BY <3>2 DEF Phase
  <2>3. CASE DataSent \/ NoAnswer \/ AckSent \/ OtherDataSent
    BY <2>3 DEF DataSent, NoAnswer, AckSent, OtherDataSent, Phase
  <2> QED BY <2>1, <2>2, <2>3
<1>2. host' \in Host /\ host'.stage = host.stage /\ host'.phase = ph
      /\ host'.ofs = host.ofs /\ host'.req = host.req
  BY <1>1 DEF HostOK, HostTypeOK, Host
<1> QED BY <1>1, <1>2 DEF HostOK, HostTypeOK, HostXferOK

\* A handshake.
LEMMA HandshakeType ==
  ASSUME HostOK, NEW hs \in {"ACK", "NAK", "STALL"}, GetHandshake(hs)
  PROVE  HostOK'
<1> USE DEF HostOK, HostTypeOK, HostXferOK
<1>1. /\ host \in Host /\ host.stage \in Stage /\ host.dt \in {0, 1} /\ host.ofs \in Nat
      /\ host.req \in Request /\ host.req.id \in Nat /\ host.finished \in SUBSET Nat
  BY RequestFields DEF Host
<1>2. CASE hs \in {"NAK", "STALL"}
  <2>1. PICK st \in Stage :
          /\ host' = [host EXCEPT !.stage = st, !.phase = "ready"]
    BY <1>1, <1>2 DEF GetHandshake, Host, Stage, Phase
  <2> QED BY <1>1, <2>1 DEF Host, Phase
<1>3. CASE hs = "ACK"
  <2> DEFINE h == [host EXCEPT !.phase = "ready", !.dt = 1 - @]
  <2>1. SameXfer(h, host, "ready", host.ofs, host.finished)
    <3>1. 1 - host.dt \in {0, 1} /\ "ready" \in Phase
      BY <1>1 DEF Phase
    <3> QED BY <1>1, <3>1, HostUpdate, Zenon
  <2>2. host' = GetAck
    BY <1>3 DEF GetHandshake
  <2>3. host' \in Host /\ host'.phase = "ready" /\ host'.req = host.req
        /\ host'.ofs <= host.req.len
    <3> HIDE DEF h
    <3>1. CASE host.stage = "setup"
      <4>1. host' = [h EXCEPT !.stage = AfterSetup(h.req), !.dt = 1]
        BY <2>2, <3>1 DEF GetAck, h
      <4>2. AfterSetup(h.req) \in Stage
        BY DEF AfterSetup, Stage
      <4> QED BY <2>1, <4>1, <4>2, HostUpdate, Zenon DEF SameXfer
    <3>2. CASE host.stage = "data_out"
      <4>1. h.ofs = host.ofs
        BY <2>1 DEF SameXfer
      <4>2. \/ host' = [h EXCEPT !.stage = "status_in", !.dt = 1]
            \/ host' = [h EXCEPT !.ofs = host.ofs + SendLen]
        BY <2>2, <3>2, <4>1 DEF GetAck, h
      <4>3. host.ofs + SendLen \in Nat /\ "status_in" \in Stage
        BY SendLenFacts DEF Stage
      <4>4. h \in Host
        BY <2>1 DEF SameXfer
      <4>5. CASE host' = [h EXCEPT !.stage = "status_in", !.dt = 1]
        <5>1. 1 \in {0, 1}
          OBVIOUS
        <5>2. SameXfer(host', h, h.phase, h.ofs, h.finished)
          BY <4>3, <4>4, <4>5, <5>1, HostUpdate, Zenon
        <5> QED BY <2>1, <5>2, SendLenFacts DEF SameXfer
      <4>6. CASE host' = [h EXCEPT !.ofs = host.ofs + SendLen]
        <5>1. SameXfer(host', h, h.phase, host.ofs + SendLen, h.finished)
          BY <4>3, <4>4, <4>6, HostUpdate, Zenon
        <5> QED BY <2>1, <5>1, SendLenFacts DEF SameXfer
      <4> QED BY <4>2, <4>5, <4>6
    <3>3. CASE host.stage = "status_out"
      <4>1. host' = [h EXCEPT !.stage = "idle", !.phase = "ready",
                              !.finished = h.finished \cup {h.req.id}]
        BY <2>2, <3>3 DEF GetAck, Finish, h
      <4>2. h.finished \cup {h.req.id} \in SUBSET Nat
        BY <1>1, <2>1 DEF SameXfer
      <4>3. h \in Host /\ "idle" \in Stage /\ "ready" \in Phase
        BY <2>1 DEF SameXfer, Stage, Phase
      <4>4. SameXfer(host', h, "ready", h.ofs, h.finished \cup {h.req.id})
        BY <4>1, <4>2, <4>3, HostUpdate, Zenon
      <4> QED BY <2>1, <4>4 DEF SameXfer
    <3>4. CASE host.stage \notin {"setup", "data_out", "status_out"}
      BY <2>1, <2>2, <3>4 DEF GetAck, h, SameXfer
    <3> QED BY <3>1, <3>2, <3>3, <3>4
  <2> QED BY <2>3
<1> QED BY <1>2, <1>3

\* A data packet.
LEMMA GetDataType ==
  ASSUME HostOK, NEW dt, NEW p \in Seq(Unit), GetData(dt, p)
  PROVE  HostOK'
<1> USE DEF HostOK, HostTypeOK, HostXferOK
<1>1. /\ host \in Host /\ host.dt \in {0, 1} /\ host.got \in Seq(Unit)
      /\ host.req \in Request /\ host.req.id \in Nat /\ host.finished \in SUBSET Nat
  BY RequestFields DEF Host
<1> DEFINE h   == [host EXCEPT !.phase = "ack"]
           got == host.got \o p
           fin == host.finished \cup {host.req.id}
<1>2. SameXfer(h, host, "ack", host.ofs, host.finished) /\ h.got = host.got /\ h.dt = host.dt
  BY <1>1 DEF Host, Phase, SameXfer
<1>3. got \in Seq(Unit) /\ fin \in SUBSET Nat /\ 1 - host.dt \in {0, 1}
  BY <1>1, ConcatProperties
<1>4. /\ "idle" \in Stage /\ "status_out" \in Stage /\ "ready" \in Phase /\ "ack" \in Phase
  BY DEF Stage, Phase
<1> DEFINE k == [h EXCEPT !.stage = "idle", !.phase = "ready", !.finished = fin]
<1>5. \/ host' = h
      \/ host' = [k EXCEPT !.phase = "ack"]
      \/ host' = [h EXCEPT !.stage = "status_out", !.dt = 1, !.got = got]
      \/ host' = [h EXCEPT !.dt = 1 - host.dt, !.got = got]
  BY <1>2 DEF GetData, Finish, SameXfer
<1> HIDE DEF h, got, fin
<1>6. h \in Host
  BY <1>2 DEF SameXfer
<1>7. SameXfer(k, h, "ready", h.ofs, fin)
  BY <1>3, <1>4, <1>6, HostUpdate, Zenon
<1> HIDE DEF k
<1>8. k \in Host
  BY <1>7 DEF SameXfer
<1>9. SameXfer(host', host, "ack", host.ofs, host'.finished)
  <2>1. CASE host' = h
    BY <1>2, <2>1 DEF SameXfer
  <2>2. CASE host' = [k EXCEPT !.phase = "ack"]
    <3>1. SameXfer(host', k, "ack", k.ofs, k.finished)
      BY <1>4, <1>8, <2>2, HostUpdate, Zenon
    <3> QED BY <1>2, <1>7, <3>1 DEF SameXfer
  <2>3. CASE host' = [h EXCEPT !.stage = "status_out", !.dt = 1, !.got = got]
    <3>1. 1 \in {0, 1}
      OBVIOUS
    <3>2. SameXfer(host', h, h.phase, h.ofs, h.finished)
      BY <1>3, <1>4, <1>6, <2>3, <3>1, HostUpdate, Zenon
    <3> QED BY <1>2, <3>2 DEF SameXfer
  <2>4. CASE host' = [h EXCEPT !.dt = 1 - host.dt, !.got = got]
    <3>1. SameXfer(host', h, h.phase, h.ofs, h.finished)
      BY <1>3, <1>6, <2>4, HostUpdate, Zenon
    <3> QED BY <1>2, <3>1 DEF SameXfer
  <2> QED BY <1>5, <2>1, <2>2, <2>3, <2>4
<1> QED BY <1>1, <1>9 DEF SameXfer

-----------------------------------------------------------------------------
(* Types and the host's bounds are inductive.                              *)

\* The initial state.
LEMMA InitOK == Init => IndInv
<1> SUFFICES ASSUME Init PROVE IndInv
  OBVIOUS
<1>1. cel \in BOOLEAN /\ evt \in 0 .. EvtMod - 1
  <2>1. cel \in BOOLEAN
    BY DEF Init
  <2>2. evt = 0
    BY DEF Init
  <2>3. evt \in 0 .. EvtMod - 1
    BY <2>2, EvtModAssumption
  <2> QED BY <2>1, <2>3
<1> USE DEF Init, Ep0Reset, FwInit
<1>2. TransTypeOK
  <2>1. eps \in [Ep -> EpStatus]
    <3>1. NoStatus \in EpStatus /\ \A d \in {"in", "out"} : Ep0Status(d) \in EpStatus
      BY DEF Ep0Status, NoStatus, EpStatus, EpType
    <3>2. \A ep \in Ep : ep[2] \in {"in", "out"}
      BY DEF Ep
    <3> QED BY <3>1, <3>2
  <2>2. bd \in [BdId -> Descriptor]
    BY DescriptorValues, PktLenAssumption
  <2>3. buf \in [BdId -> Seq(Unit)]
    <3>1. <<>> \in Seq(Unit)
      OBVIOUS
    <3> QED BY <3>1, Zenon
  <2>4. cel \in BOOLEAN /\ evt \in 0 .. EvtMod - 1
    BY <1>1
  <2>5. sie \in Sie
    BY Ep0Assumption, DescriptorValues DEF Sie, SiePc, NoStatus, EpStatus, EpType
  <2> QED BY <2>1, <2>2, <2>3, <2>4, <2>5 DEF TransTypeOK
<1>3. FwTypeOK
  BY RequestAssumption, MaxLenAssumption DEF FwTypeOK, FwPc, BdState, Ctrl, CtrlState
<1>4. HostOK
  <2>1. NoReq \in Request /\ NoReq.len \in 0 .. MaxLen
    BY RequestAssumption, RequestFields
  <2>2. host \in Host
    BY <2>1 DEF HostInit, Host, Stage, Phase
  <2> QED BY <2>1, <2>2 DEF HostOK, HostTypeOK, HostXferOK, HostInit
<1>5. losses \in 0 .. MaxLoss /\ others \in 0 .. MaxOther
  BY MaxLossAssumption, MaxOtherAssumption
<1>6. TransferOK
  BY DEF TransferOK
<1>7. Ep0OK /\ SieOK
  BY Descriptors DEF Ep0OK, SieOK, Ep0Status
<1>8. LockoutOK
  BY Descriptors, DescriptorValues, PktLenAssumption DEF LockoutOK, Unread, Handling
<1> QED BY <1>2, <1>3, <1>4, <1>5, <1>6, <1>7, <1>8 DEF IndInv, TypeOK, HostOK

\* What is left of a damaged packet.
LEMMA GarbageType == Garbage \in Seq(Unit) /\ <<>> \in Seq(Unit)
  BY UnitAssumption DEF Garbage

\* What a transaction does to the core.
LEMMA TransactionType ==
  ASSUME HostOK, TransTypeOK, Transaction
  PROVE  TransTypeOK'
<1>1. CASE SetupOrOutToken \/ InToken
  BY <1>1, TokenType, Ep0Assumption DEF SetupOrOutToken, InToken
<1>2. CASE HostData
  BY <1>2, HostPayloadType, RxType DEF HostData, DataSent
<1>3. CASE StallByBd \/ Answer \/ DeviceData \/ HostAck
  BY <1>3, TxType DEF StallByBd, Answer, DeviceData, HostAck
<1>4. CASE Silence
  BY <1>4 DEF Silence, TransTypeOK, transVars
<1>5. CASE OtherData
  BY <1>5, GarbageType, RxType DEF OtherData, RxFail
<1> QED BY <1>1, <1>2, <1>3, <1>4, <1>5 DEF Transaction

\* What a transaction does to the host.
LEMMA HandoverType ==
  ASSUME HostOK, TransTypeOK, Transaction
  PROVE  HostOK'
<1>1. CASE SetupOrOutToken \/ InToken \/ HostData \/ Silence \/ HostAck \/ OtherData
  BY <1>1, PhaseType DEF SetupOrOutToken, InToken, HostData, Silence, HostAck, OtherData
<1>2. CASE StallByBd
  BY <1>2 DEF StallByBd, HostOK, HostTypeOK, HostXferOK
<1>3. CASE Answer
  <2>1. Handshake[sie.pc] \in {"ACK", "NAK", "STALL"}
    BY <1>3 DEF Answer, TxHandshake, Handshake
  <2> QED BY <1>3, <2>1, HandshakeType DEF Answer
<1>4. CASE DeviceData
  <2>1. TxPayload \in Seq(Unit)
    <3>1. buf[SieBd] \in Seq(Unit) /\ sie.bd.len \in Int
      BY DEF TransTypeOK, Sie, SieBd, BdId, Descriptor
    <3> QED BY <3>1, PrefixType DEF TxPayload
  <2> QED BY <1>4, <2>1, GetDataType DEF DeviceData
<1> QED BY <1>1, <1>2, <1>3, <1>4 DEF Transaction

\* Every step keeps the types and the bounds of the host.
LEMMA NextType ==
  ASSUME TypeOK, TransferOK, HostXferOK, [Next]_vars
  PROVE  TypeOK' /\ HostXferOK'
<1> USE DEF TypeOK
<1>1. HostOK /\ TransTypeOK /\ FwTypeOK
  BY DEF HostOK
<1>2. CASE NewTransfer
  <2>1. HostOK'
    BY <1>1, <1>2, StartType DEF NewTransfer
  <2> QED BY <1>1, <1>2, <2>1
      DEF NewTransfer, LoseNone, HostOK, TransTypeOK, FwTypeOK, transVars, fwVars
<1>3. CASE Transaction
  <2>1. UNCHANGED <<fwVars, losses, others>>
    BY <1>3 DEF Transaction, SetupOrOutToken, InToken, HostData, StallByBd, Answer, Silence,
                DeviceData, HostAck, OtherData, LoseNone
  <2>2. HostOK'
    BY <1>1, <1>3, HandoverType
  <2>3. TransTypeOK'
    BY <1>1, <1>3, TransactionType
  <2> QED BY <1>1, <2>1, <2>2, <2>3 DEF HostOK, FwTypeOK, fwVars
<1>4. CASE Loss
  <2>1. UNCHANGED <<fwVars, others>> /\ losses' \in 0 .. MaxLoss
    BY <1>4, MaxLossAssumption
       DEF Loss, TokenLost, HostDataDamaged, HostDataLost, AnswerLost, DeviceDataLost,
           HostAckDamaged, HostAckLost, Lose
  <2>2. HostOK'
    BY <1>1, <1>4, PhaseType
       DEF Loss, TokenLost, HostDataDamaged, HostDataLost, AnswerLost, DeviceDataLost,
           HostAckDamaged, HostAckLost
  <2>3. TransTypeOK'
    <3>1. CASE HostDataDamaged
      BY <1>1, <3>1, GarbageType, RxType DEF HostDataDamaged
    <3>2. CASE AnswerLost \/ DeviceDataLost \/ HostAckDamaged
      BY <1>1, <3>2, TxType DEF AnswerLost, DeviceDataLost, HostAckDamaged
    <3>3. CASE TokenLost \/ HostDataLost \/ HostAckLost
      BY <1>1, <3>3 DEF TokenLost, HostDataLost, HostAckLost, TransTypeOK, transVars
    <3> QED BY <1>4, <3>1, <3>2, <3>3 DEF Loss
  <2> QED BY <1>1, <2>1, <2>2, <2>3 DEF HostOK, FwTypeOK, fwVars
<1>5. CASE Firmware
  <2>1. TransTypeOK' /\ FwTypeOK'
    BY <1>5, FwPollType, FwStateType, FwSetupType, FwDataType DEF Firmware, FwNext
  <2> QED BY <1>1, <1>5, <2>1 DEF Firmware, HostOK, HostTypeOK, HostXferOK
<1>6. CASE Sof
  <2>1. TransTypeOK'
    BY <1>1, <1>6, GarbageType, RxType DEF Sof
  <2> QED BY <1>1, <1>6, <2>1 DEF Sof, LoseNone, HostTypeOK, HostXferOK, FwTypeOK, fwVars
<1>7. CASE OtherTokens
  <2>1. TransTypeOK'
    BY <1>1, <1>7, TokenType, Ep0Assumption DEF OtherTokens
  <2>2. HostOK'
    BY <1>1, <1>7, PhaseType DEF OtherTokens
  <2>3. UNCHANGED <<fwVars, losses>> /\ others' \in 0 .. MaxOther
    BY <1>7, MaxOtherAssumption DEF OtherTokens
  <2> QED BY <1>1, <2>1, <2>2, <2>3 DEF HostOK, FwTypeOK, fwVars
<1>8. CASE UNCHANGED vars
  BY <1>1, <1>8 DEF vars, transVars, fwVars, TransTypeOK, FwTypeOK, HostTypeOK, HostXferOK
<1> QED BY <1>2, <1>3, <1>4, <1>5, <1>6, <1>7, <1>8 DEF Next

-----------------------------------------------------------------------------
(* The lockout.                                                            *)

BusStep == NewTransfer \/ Transaction \/ Loss \/ Sof \/ OtherTokens

\* What a step of the host or of the core does to the core.
LEMMA BusSteps ==
  ASSUME BusStep
  PROVE  /\ UNCHANGED fwVars
         /\ \/ /\ others < MaxOther
               /\ \E pid \in {"IN", "OUT", "SETUP"} : OtherToken(0, pid)
            \/ /\ UNCHANGED others
               /\ \/ UNCHANGED transVars
                  \/ \E pid \in {"IN", "OUT", "SETUP"} : Token(0, pid)
                  \/ \E dt, p : RxData(dt, p)
                  \/ \E bytes : RxFail(bytes)
                  \/ StallBd \/ TxData \/ TxHandshake \/ RxAck \/ RxNoAck
<1>1. CASE NewTransfer \/ Silence \/ TokenLost \/ HostDataLost \/ HostAckLost
  BY <1>1 DEF NewTransfer, Silence, TokenLost, HostDataLost, HostAckLost, Lose, LoseNone
<1>2. CASE SetupOrOutToken \/ InToken
  BY <1>2 DEF SetupOrOutToken, InToken, LoseNone
<1>3. CASE HostData
  BY <1>3 DEF HostData, LoseNone
<1>4. CASE HostDataDamaged \/ Sof
  BY <1>4 DEF HostDataDamaged, Sof, Lose, LoseNone
<1>5. CASE OtherData
  <2>1. RxFail(Garbage)
    BY <1>5 DEF OtherData, RxFail
  <2> QED BY <1>5, <2>1 DEF OtherData, LoseNone
<1>6. CASE \/ StallByBd \/ Answer \/ DeviceData \/ HostAck
           \/ AnswerLost \/ DeviceDataLost \/ HostAckDamaged
  BY <1>6 DEF StallByBd, Answer, DeviceData, HostAck, AnswerLost, DeviceDataLost,
              HostAckDamaged, Lose, LoseNone
<1>7. CASE OtherTokens
  BY <1>7 DEF OtherTokens
<1> QED BY <1>1, <1>2, <1>3, <1>4, <1>5, <1>6, <1>7 DEF BusStep, Transaction, Loss

\* The firmware's transfer changes in steps of the firmware only.
LEMMA TransferStep ==
  ASSUME TypeOK, TransferOK, [Next]_vars
  PROVE  TransferOK'
<1> USE DEF TransferOK
<1>1. CASE FwPoll
  BY <1>1 DEF FwPoll, Poll, Drain, DrainCheck, PeekSetup, PeekOut, PeekIn, PollDone,
              KeepLocal, At, Go
<1>2. CASE FwState
  BY <1>2 DEF FwState, StatusInDone, LastInDone, StatusOutDone, CbDone, StallIn, StallOut,
              RetrySetup, RetryOut, KeepLocal, At, Go, NextPass, TypeOK, FwTypeOK, Ctrl
<1>3. CASE FwSetup
  <2> USE DEF KeepLocal, At, Go, TypeOK, FwTypeOK, Ctrl
  <2>1. CASE SetupOutClear \/ SetupInClear \/ SetupInStatus \/ HandleStallOut \/ Release
             \/ SetupQueue
    BY <2>1 DEF SetupOutClear, SetupInClear, SetupInStatus, HandleStallOut, Release, SetupQueue
  <2>2. CASE SetupRead
    BY <2>2, MaxLenAssumption DEF SetupRead
  <2>3. CASE HandleError \/ HandleWrite
    BY <2>3 DEF HandleError, HandleWrite
  <2>4. ASSUME NEW n \in 0 .. MaxLen, HandleRead(n) PROVE TransferOK'
    <3>1. Len(DataOf(ctrl.req, 0, n)) = n
      BY DataOfType
    <3> QED BY <2>4, <3>1, MaxLenAssumption DEF HandleRead
  <2> QED BY <1>3, <2>1, <2>2, <2>3, <2>4 DEF FwSetup
<1>4. CASE FwData
  <2> USE DEF KeepLocal, At, Go, NextPass, AfterData
  <2>1. CASE InFill \/ OutPeek \/ OutClear \/ OutMore
    BY <2>1 DEF InFill, OutPeek, OutClear, OutMore
  <2>2. CASE DataOutEvent \/ UnexpectedOut \/ DataInEvent \/ UnexpectedIn
    BY <2>2 DEF DataOutEvent, UnexpectedOut, DataInEvent, UnexpectedIn, DataEvent, Unexpected
  <2>3. CASE InQueue
    BY <2>3, ChunkFacts DEF InQueue, TypeOK, FwTypeOK, Ctrl
  <2>4. CASE InStatus \/ OutStatus
    BY <2>4 DEF InStatus, OutStatus, TypeOK, FwTypeOK, Ctrl
  <2>5. CASE OutRead
    BY <2>5 DEF OutRead, TypeOK, FwTypeOK, Ctrl
  <2> QED BY <1>4, <2>1, <2>2, <2>3, <2>4, <2>5 DEF FwData
<1>5. CASE UNCHANGED fwVars
  BY <1>5 DEF fwVars
<1>6. UNCHANGED fwVars \/ FwPoll \/ FwState \/ FwSetup \/ FwData
  BY BusSteps DEF Next, BusStep, Firmware, FwNext, vars
<1> QED BY <1>1, <1>2, <1>3, <1>4, <1>5, <1>6

\* A write back keeps the set up of end point 0 and changes one descriptor.
LEMMA WriteBackKeeps ==
  ASSUME TransTypeOK, Ep0OK, SieOK, sie.pc # "idle",
         NEW state, NEW flip, NEW count, WriteBack(state, flip, count)
  PROVE  /\ Ep0OK'
         /\ bd' = [bd EXCEPT ![SieBd] = [state |-> state, len |-> count,
                                         setup |-> sie.setup]]
<1> DEFINE st == [sie.st EXCEPT !.dt  = IF flip THEN 1 - @ ELSE @,
                                !.bdi = IF sie.st.mode = "dual" THEN 1 - @ ELSE @]
<1>1. SieEp \in {<<0, "out">>, <<0, "in">>} /\ SieEp \in Ep /\ sie.st \in EpStatus
  BY DEF TransTypeOK, SieOK, Sie, SieEp, Ep
<1>2. /\ sie.st.type = "ctrl"
      /\ SieEp = <<0, "out">> => sie.st.mode = "ctrl"
      /\ SieEp = <<0, "in">> => sie.st.mode = "single" /\ sie.st.bdi = 0
  BY <1>1 DEF SieOK, SieEp, TransTypeOK, Sie
<1>3. /\ st.type = sie.st.type /\ st.mode = sie.st.mode
      /\ sie.st.mode # "dual" => st.bdi = sie.st.bdi
  BY <1>1 DEF EpStatus
<1>4. eps' = [eps EXCEPT ![SieEp] = st]
  BY DEF WriteBack
<1> HIDE DEF st
<1>5. Ep0OK'
  BY <1>1, <1>2, <1>3, <1>4, Descriptors DEF Ep0OK, TransTypeOK
<1> QED BY <1>5 DEF WriteBack

\* What a transaction does to the SETUP descriptor and to the lockout: a
\* descriptor that is marked as done has set the lockout.
SieStepOK ==
  /\ Ep0OK' /\ SieOK'
  /\ cel => cel'
  /\ bd'[SetupBd].state = "done_ok" => cel' \/ bd[SetupBd].state = "done_ok"

\* What a token captures of control end point 0.
LEMMA CapturedEp0 ==
  ASSUME TransTypeOK, Ep0OK, NEW pid \in {"IN", "OUT", "SETUP"}
  PROVE  LET c == Captured(0, pid)
         IN /\ c.d = (IF pid = "IN" THEN "in" ELSE "out")
            /\ c.cur = (IF pid = "SETUP" THEN 1 ELSE 0)
            /\ c.st.type = "ctrl" /\ c.st.mode = (IF pid = "IN" THEN "single" ELSE "ctrl")
            /\ pid = "IN" => c.st.bdi = 0
            /\ <<c.n, c.d, c.cur>> = (CASE pid = "IN"    -> InBd
                                        [] pid = "OUT"   -> OutBd
                                        [] pid = "SETUP" -> SetupBd)
            /\ c.bd = bd[<<c.n, c.d, c.cur>>]
<1>1. DirOf(pid) = (IF pid = "IN" THEN "in" ELSE "out")
  BY DEF DirOf
<1> DEFINE st == eps[<<0, DirOf(pid)>>]
<1>2. st.type = "ctrl" /\ st.mode = (IF pid = "IN" THEN "single" ELSE "ctrl")
      /\ (pid = "IN" => st.bdi = 0)
  BY <1>1 DEF Ep0OK
<1>3. CurBd(st, pid = "SETUP") = (IF pid = "SETUP" THEN 1 ELSE 0)
  BY <1>1, <1>2 DEF CurBd
<1> DEFINE d   == DirOf(pid)
           cur == CurBd(eps[<<0, d>>], pid = "SETUP")
           c   == Captured(0, pid)
<1>4. /\ c.n = 0 /\ c.d = d /\ c.cur = cur /\ c.bd = bd[<<0, d, cur>>]
      /\ c.st.type = st.type /\ c.st.mode = st.mode /\ c.st.bdi = st.bdi
  BY CapturedFacts, Ep0Assumption
<1> HIDE DEF c, st
<1>5. <<c.n, c.d, c.cur>> = (CASE pid = "IN"    -> InBd
                               [] pid = "OUT"   -> OutBd
                               [] pid = "SETUP" -> SetupBd)
  BY <1>1, <1>3, <1>4 DEF InBd, OutBd, SetupBd, st
<1>6. /\ c.d = (IF pid = "IN" THEN "in" ELSE "out")
      /\ c.cur = (IF pid = "SETUP" THEN 1 ELSE 0)
  BY <1>1, <1>3, <1>4 DEF st
<1>7. /\ c.st.type = "ctrl" /\ c.st.mode = (IF pid = "IN" THEN "single" ELSE "ctrl")
      /\ pid = "IN" => c.st.bdi = 0
  BY <1>2, <1>4
<1>8. c.bd = bd[<<c.n, c.d, c.cur>>]
  BY <1>4
<1> QED BY <1>5, <1>6, <1>7, <1>8, Zenon DEF c

\* What a fail handler, which runs into the transaction of the next token, does
\* to end point 0.
LEMMA FailIntoKeeps ==
  ASSUME TransTypeOK, Ep0OK, NEW pid \in {"IN", "OUT", "SETUP"}, NEW late \in BOOLEAN,
         FailInto(Captured(0, pid), late)
  PROVE  /\ Ep0OK'
         /\ \A id \in BdId : bd'[id].state \in {bd[id].state, "done_err"}
         /\ ~FailWrites => UNCHANGED bd
<1> DEFINE c  == Captured(0, pid)
           id == <<c.n, c.d, c.cur>>
<1>1. /\ c \in Sie /\ c.n = 0 /\ c.d = (IF pid = "IN" THEN "in" ELSE "out")
      /\ c.st.type = "ctrl" /\ c.st.mode = (IF pid = "IN" THEN "single" ELSE "ctrl")
      /\ pid = "IN" => c.st.bdi = 0
      /\ id \in BdId /\ c.bd = bd[id]
  BY CapturedFacts, CapturedEp0, Ep0Assumption
<1>2. FailInto(c, late)
  OBVIOUS
<1>3. bd \in [BdId -> Descriptor] /\ eps \in [Ep -> EpStatus]
  BY DEF TransTypeOK
<1> HIDE DEF c
<1>4. CASE FailWrites
  <2> DEFINE f == FlipBdi(c.st)
             b == [state |-> IF late THEN "done_err" ELSE c.bd.state,
                   len |-> 0, setup |-> c.setup]
  <2>1. /\ eps' = [eps EXCEPT ![<<c.n, c.d>>] = f]
        /\ bd' = [bd EXCEPT ![id] = b]
    BY <1>2, <1>4, Zenon DEF FailInto
  <2>2. /\ f.type = "ctrl" /\ f.mode = (IF pid = "IN" THEN "single" ELSE "ctrl")
        /\ pid = "IN" => f.bdi = 0
    <3>1. c.st \in EpStatus
      BY <1>1 DEF Sie
    <3>2. f.type = c.st.type /\ f.mode = c.st.mode
          /\ (c.st.mode # "dual" => f.bdi = c.st.bdi)
      BY <3>1, FlipBdiFacts
    <3> QED BY <1>1, <3>2
  <2>3. b.state \in {bd[id].state, "done_err"}
    BY <1>1
  <2> HIDE DEF f, b
  <2>4. Ep0OK'
    BY <1>1, <1>3, <2>1, <2>2, Descriptors DEF Ep0OK
  <2>5. \A i \in BdId : bd'[i].state \in {bd[i].state, "done_err"}
    BY <1>3, <2>1, <2>3
  <2> QED BY <1>4, <2>4, <2>5
<1>5. CASE ~FailWrites
  <2>1. UNCHANGED <<eps, bd>>
    BY <1>2, <1>5, Zenon DEF FailInto
  <2> QED BY <2>1 DEF Ep0OK
<1> QED BY <1>4, <1>5

\* A token, for this device or for another one.
LEMMA TokenKeeps ==
  ASSUME TypeOK, Ep0OK, SieOK, NEW pid \in {"IN", "OUT", "SETUP"},
         Token(0, pid) \/ OtherToken(0, pid)
  PROVE  SieStepOK
<1> DEFINE c == Captured(0, pid)
           a == AfterFail(c)
<1>1. TransTypeOK /\ cel' = cel
  BY DEF TypeOK, Token, OtherToken
<1>2. PICK late \in BOOLEAN : FailInto(c, late)
  BY DEF Token, OtherToken, Late
<1>3. /\ Ep0OK'
      /\ bd'[SetupBd].state \in {bd[SetupBd].state, "done_err"}
      /\ ~FailWrites => UNCHANGED bd
  BY <1>1, <1>2, FailIntoKeeps, Descriptors
<1>4. /\ c \in Sie /\ c.n = 0 /\ c.cel = cel
      /\ c.d = (IF pid = "IN" THEN "in" ELSE "out")
      /\ c.cur = (IF pid = "SETUP" THEN 1 ELSE 0)
      /\ c.st.type = "ctrl" /\ c.st.mode = (IF pid = "IN" THEN "single" ELSE "ctrl")
      /\ pid = "IN" => c.st.bdi = 0
      /\ pid = "SETUP" => c.bd = bd[SetupBd]
      /\ c.pc = "idle" /\ c.past = 0
  BY <1>1, CapturedFacts, CapturedEp0, Ep0Assumption
<1>5. sie' = Dispatched(a, pid) \/ sie' = a
  BY DEF Token, OtherToken
<1> HIDE DEF c
<1>6. /\ a \in Sie /\ a.pc = c.pc /\ a.n = c.n /\ a.d = c.d /\ a.cel = c.cel /\ a.cur = c.cur
      /\ a.st.type = c.st.type /\ a.st.mode = c.st.mode /\ a.past = 0
      /\ c.st.mode # "dual" => a.st.bdi = c.st.bdi
      /\ IF FailWrites THEN a.bd.state = "none" ELSE a = c
  BY <1>4, AfterFailFacts
<1> HIDE DEF a
<1>7. SieOK'
  <2>1. CASE sie' = a
    BY <1>4, <1>6, <2>1 DEF SieOK
  <2>2. CASE sie' = Dispatched(a, pid)
    <3>1. /\ sie'.pc = Dispatch(a, pid) /\ sie'.n = 0 /\ sie'.d = c.d /\ sie'.cur = c.cur
          /\ sie'.st = a.st /\ sie'.past = 0
      BY <1>4, <1>6, <2>2, DispatchedFacts
    <3>2. /\ sie'.pc = "wait_setup" =>
               pid = "SETUP" /\ ~cel /\ a.bd.state = "rdy_data"
          /\ sie'.pc = "wait_out" => pid = "OUT"
          /\ sie'.pc \in {"wait_ack", "stall_bd", "tx_data"} => pid = "IN"
      BY <1>4, <1>6, <3>1 DEF Dispatch, DispatchIn, DispatchSetup, DispatchOut
    <3>3. sie'.pc = "wait_setup" => bd'[SetupBd].state = "rdy_data"
      BY <1>3, <1>4, <1>6, <3>2
    <3> QED BY <1>1, <1>4, <1>6, <3>1, <3>2, <3>3 DEF SieOK
  <2> QED BY <1>5, <2>1, <2>2
<1> QED BY <1>1, <1>3, <1>7 DEF SieStepOK

\* The descriptor of an OUT or IN transaction is not that of the SETUP packets.
LEMMA SieBdFacts ==
  ASSUME TransTypeOK, SieOK
  PROVE  /\ sie.pc = "wait_setup" => SieBd = SetupBd
         /\ sie.pc \in {"wait_out", "wait_ack", "stall_bd", "tx_data"} => SieBd # SetupBd
         /\ SieBd \in BdId
  BY DEF TransTypeOK, SieOK, Sie, SieBd, SetupBd, BdId

\* A jump to the end of a transaction, or to its answer.
LEMMA GotoKeeps ==
  ASSUME TransTypeOK, SieOK, NEW p \in {"idle", "tx_ack", "tx_nak", "tx_stall", "wait_ack"},
         p # "idle" => sie.pc # "idle",
         p = "wait_ack" => sie.pc = "tx_data",
         Goto(p)
  PROVE  SieOK'
<1>1. sie' = [sie EXCEPT !.pc = p, !.zl = TRUE] /\ sie \in Sie
  BY DEF Goto, TransTypeOK
<1>2. /\ sie'.pc = p /\ sie'.n = sie.n /\ sie'.st = sie.st /\ sie'.d = sie.d
      /\ sie'.cur = sie.cur /\ sie'.past = sie.past
  BY <1>1 DEF Sie
<1> QED BY <1>2 DEF SieOK

\* What the core does with a packet at end point 0, where nothing that is modelled
\* lies behind a buffer.
AcceptedAtEp0(dt, p) ==
  /\ sie.pc = "wait_out"
  /\ OutAccepts(dt)
  /\ Store(p \o Crc)
  /\ WriteBack("done_ok", sie.bd.state = "rdy_data", Len(p) + CrcLen)
  /\ Goto(IF sie.bd.state = "rdy_data" THEN "tx_ack" ELSE "tx_stall")
  /\ UNCHANGED cel

FailedAtEp0(bytes) ==
  /\ sie.pc = "wait_out"
  /\ Store(bytes)
  /\ IF IgnoreRxErr \/ sie.bd.state \notin Ready
       THEN UNCHANGED <<eps, bd, evt>>
       ELSE WriteBack("done_err", FALSE, Len(bytes))
  /\ Goto("idle")
  /\ UNCHANGED cel

DiscardedAtEp0(bytes) ==
  /\ sie.pc \in {"discard", "idle"}
  /\ Store(bytes)
  /\ Goto("idle")
  /\ UNCHANGED <<eps, bd, cel, evt>>

RxDataAtEp0(dt, p) ==
  \/ SetupAccepted(dt, p)
  \/ dt # 0 /\ SetupFailed(p \o Crc)
  \/ AcceptedAtEp0(dt, p)
  \/ OutRefused(dt, p)
  \/ DiscardedAtEp0(p \o Crc)
  \/ RxNoAck

RxFailAtEp0(bytes) ==
  \/ SetupFailed(bytes)
  \/ FailedAtEp0(bytes)
  \/ DiscardedAtEp0(bytes)
  \/ RxNoAck

\* A transaction of end point 0 is never dual buffered.
LEMMA RxAtEp0 ==
  ASSUME TransTypeOK, SieOK
  PROVE  /\ \A dt, p : OutAccepted(dt, p) => AcceptedAtEp0(dt, p)
         /\ \A bytes : OutFailed(bytes) => FailedAtEp0(bytes)
         /\ \A bytes : Discarded(bytes) => DiscardedAtEp0(bytes)
         /\ \A dt, p : RxData(dt, p) => RxDataAtEp0(dt, p)
         /\ \A bytes : RxFail(bytes) => RxFailAtEp0(bytes)
<1>1. sie.past = 0 /\ (sie.pc # "idle" => ~Followed)
  BY DEF SieOK, Followed
<1>2. ASSUME NEW p, NEW n, sie.pc # "idle", Reload(p, n) PROVE Goto(p)
  BY <1>1, <1>2, ReloadIsGoto
<1>3. ASSUME NEW dt, NEW p, OutAccepted(dt, p) PROVE AcceptedAtEp0(dt, p)
  <2>1. sie.pc # "idle"
    BY <1>3 DEF OutAccepted
  <2> QED BY <1>2, <1>3, <2>1 DEF OutAccepted, AcceptedAtEp0
<1>4. ASSUME NEW bytes, OutFailed(bytes) PROVE FailedAtEp0(bytes)
  <2>1. sie.pc # "idle"
    BY <1>4 DEF OutFailed
  <2> QED BY <1>2, <1>4, <2>1 DEF OutFailed, FailedAtEp0
<1>5. ASSUME NEW bytes, Discarded(bytes) PROVE DiscardedAtEp0(bytes)
  BY <1>1, <1>5 DEF Discarded, DiscardedAtEp0
<1>6. ASSUME NEW dt, NEW p, RxData(dt, p) PROVE RxDataAtEp0(dt, p)
  BY <1>3, <1>5, <1>6 DEF RxData, RxDataAtEp0
<1>7. ASSUME NEW bytes, RxFail(bytes) PROVE RxFailAtEp0(bytes)
  BY <1>4, <1>5, <1>7 DEF RxFail, RxFailAtEp0
<1> QED BY <1>3, <1>4, <1>5, <1>6, <1>7

\* A packet that arrives or fails to.
LEMMA RxKeeps ==
  ASSUME TypeOK, Ep0OK, SieOK, NEW dt, NEW p, NEW bytes, RxData(dt, p) \/ RxFail(bytes)
  PROVE  SieStepOK
<1> USE DEF TypeOK
<1>1. TransTypeOK /\ bd \in [BdId -> Descriptor]
  BY DEF TransTypeOK
<1>2. CASE SetupAccepted(dt, p)
  <2>1. Ep0OK' /\ bd' = [bd EXCEPT ![SieBd] =
                  [state |-> "done_ok", len |-> Len(p) + CrcLen, setup |-> sie.setup]]
    BY <1>1, <1>2, WriteBackKeeps DEF SetupAccepted
  <2>2. SieOK' /\ sie.pc = "wait_setup"
    BY <1>1, <1>2, GotoKeeps DEF SetupAccepted
  <2> QED BY <1>1, <1>2, <2>1, <2>2, SieBdFacts DEF SetupAccepted, SieStepOK, SieOK
<1>3. ASSUME NEW s, SetupFailed(s) PROVE SieStepOK
  <2>1. SieOK' /\ sie.pc = "wait_setup" /\ UNCHANGED cel
    BY <1>1, <1>3, GotoKeeps DEF SetupFailed
  <2>2. CASE IgnoreRxErr
    BY <1>3, <2>1, <2>2 DEF SetupFailed, SieStepOK, Ep0OK
  <2>3. CASE ~IgnoreRxErr
    <3>1. Ep0OK' /\ bd' = [bd EXCEPT ![SieBd] =
                    [state |-> "done_err", len |-> Len(s), setup |-> sie.setup]]
      BY <1>1, <1>3, <2>1, <2>3, WriteBackKeeps DEF SetupFailed
    <3> QED BY <1>1, <2>1, <3>1, SieBdFacts DEF SieStepOK, SieOK
  <2> QED BY <2>2, <2>3
<1>4. CASE OutAccepted(dt, p)
  <2>1. Ep0OK' /\ bd' = [bd EXCEPT ![SieBd] =
                  [state |-> "done_ok", len |-> Len(p) + CrcLen, setup |-> sie.setup]]
    BY <1>1, <1>4, WriteBackKeeps DEF OutAccepted
  <2>2. SieOK' /\ sie.pc = "wait_out" /\ UNCHANGED cel
    BY <1>1, <1>4, GotoKeeps, RxAtEp0 DEF AcceptedAtEp0
  <2> QED BY <1>1, <2>1, <2>2, SieBdFacts, Descriptors DEF SieStepOK
<1>5. CASE OutRefused(dt, p)
  <2>1. SieOK' /\ UNCHANGED <<eps, bd, cel>>
    BY <1>1, <1>5, GotoKeeps DEF OutRefused, OutAnswer
  <2> QED BY <2>1 DEF SieStepOK, Ep0OK
<1>6. ASSUME NEW s, OutFailed(s) PROVE SieStepOK
  <2>1. SieOK' /\ sie.pc = "wait_out" /\ UNCHANGED cel
    BY <1>1, <1>6, GotoKeeps, RxAtEp0 DEF FailedAtEp0
  <2>2. CASE IgnoreRxErr \/ sie.bd.state \notin Ready
    <3>1. UNCHANGED <<eps, bd, evt>>
      BY <1>6, <2>2, Zenon DEF OutFailed
    <3> QED BY <2>1, <3>1 DEF SieStepOK, Ep0OK
  <2>3. CASE ~(IgnoreRxErr \/ sie.bd.state \notin Ready)
    <3>1. Ep0OK' /\ bd' = [bd EXCEPT ![SieBd] =
                    [state |-> "done_err", len |-> Len(s), setup |-> sie.setup]]
      BY <1>1, <1>6, <2>1, <2>3, WriteBackKeeps DEF OutFailed
    <3> QED BY <1>1, <2>1, <3>1, SieBdFacts, Descriptors DEF SieStepOK
  <2> QED BY <2>2, <2>3
<1>7. ASSUME NEW s, Discarded(s) PROVE SieStepOK
  <2>1. SieOK' /\ UNCHANGED <<eps, bd, cel>>
    BY <1>1, <1>7, GotoKeeps, RxAtEp0 DEF DiscardedAtEp0
  <2> QED BY <2>1 DEF SieStepOK, Ep0OK
<1>8. ASSUME RxNoAck PROVE SieStepOK
  <2>1. SieOK' /\ UNCHANGED <<eps, bd, cel>>
    BY <1>1, <1>8, GotoKeeps DEF RxNoAck
  <2> QED BY <2>1 DEF SieStepOK, Ep0OK
<1> QED BY <1>2, <1>3, <1>4, <1>5, <1>6, <1>7, <1>8 DEF RxData, RxFail

\* A packet the core sends, and the answer to it.
LEMMA TxKeeps ==
  ASSUME TypeOK, Ep0OK, SieOK, StallBd \/ TxData \/ TxHandshake \/ RxAck \/ RxNoAck
  PROVE  SieStepOK
<1> USE DEF TypeOK
<1>1. TransTypeOK /\ bd \in [BdId -> Descriptor]
  BY DEF TransTypeOK
<1>2. CASE StallBd \/ RxAck
  <2>1. /\ sie.pc \in {"stall_bd", "wait_ack"} /\ UNCHANGED cel
        /\ SieOK'
    BY <1>1, <1>2, GotoKeeps DEF StallBd, RxAck
  <2>2. Ep0OK' /\ bd' = [bd EXCEPT ![SieBd] =
                  [state |-> "done_ok", len |-> 0, setup |-> sie.setup]]
    BY <1>1, <1>2, WriteBackKeeps DEF StallBd, RxAck
  <2> QED BY <1>1, <2>1, <2>2, SieBdFacts, Descriptors DEF SieStepOK
<1>3. CASE TxData \/ TxHandshake \/ RxNoAck
  <2>1. SieOK' /\ UNCHANGED <<eps, bd, cel>>
    BY <1>1, <1>3, GotoKeeps DEF TxData, TxHandshake, RxNoAck
  <2> QED BY <2>1 DEF SieStepOK, Ep0OK
<1> QED BY <1>2, <1>3

\* A step of the host or of the core.
LEMMA BusKeeps ==
  ASSUME TypeOK, Ep0OK, SieOK, BusStep
  PROVE  SieStepOK /\ UNCHANGED fwVars
<1>1. CASE UNCHANGED transVars
  BY <1>1, BusSteps DEF SieStepOK, Ep0OK, SieOK, transVars
<1>2. CASE \E pid \in {"IN", "OUT", "SETUP"} : Token(0, pid) \/ OtherToken(0, pid)
  BY <1>2, TokenKeeps, BusSteps
<1>3. CASE (\E dt, p : RxData(dt, p)) \/ (\E bytes : RxFail(bytes))
  BY <1>3, RxKeeps, BusSteps
<1>4. CASE StallBd \/ TxData \/ TxHandshake \/ RxAck \/ RxNoAck
  BY <1>4, TxKeeps, BusSteps
<1> QED BY <1>1, <1>2, <1>3, <1>4, BusSteps

\* What an access of the firmware does to end point 0.
LEMMA FirmwareKeeps ==
  ASSUME TypeOK, Ep0OK, SieOK, FwNext
  PROVE  /\ UNCHANGED sie
         /\ Ep0OK'
         /\ ~cel => ~cel'
         /\ bd'[SetupBd] \in {bd[SetupBd], DataBd(PktLen)}
<1>1. CASE FwPoll
  BY <1>1 DEF FwPoll, Poll, Drain, DrainCheck, PeekSetup, PeekOut, PeekIn, PollDone,
              NoAccess, transVars, ReadEvt, Ep0OK
<1>2. CASE FwState
  BY <1>2, Descriptors
     DEF FwState, StatusInDone, LastInDone, StatusOutDone, CbDone, StallIn, StallOut,
         RetrySetup, RetryOut, NoAccess, transVars, WriteBd, Ep0OK, TypeOK, TransTypeOK
<1>3. CASE FwSetup
  <2>1. CASE SetupInStatus
    BY <2>1, Descriptors
       DEF SetupInStatus, WriteStatus, Ep0Status, Ep0OK, TypeOK, TransTypeOK
  <2>2. CASE Release
    BY <2>2 DEF Release, CelRelease, Ep0OK
  <2>3. CASE SetupOutClear \/ SetupInClear \/ HandleError \/ HandleStallOut \/ SetupQueue
    BY <2>3, Descriptors
       DEF SetupOutClear, SetupInClear, HandleError, HandleStallOut, SetupQueue, WriteBd,
           Ep0OK, TypeOK, TransTypeOK
  <2>4. CASE SetupRead \/ HandleWrite \/ \E n \in 0 .. MaxLen : HandleRead(n)
    <3>1. NoAccess
      BY <2>4 DEF SetupRead, HandleWrite, HandleRead
    <3> QED BY <3>1 DEF NoAccess, transVars, Ep0OK
  <2> QED BY <1>3, <2>1, <2>2, <2>3, <2>4 DEF FwSetup
<1>4. CASE FwData
  BY <1>4, Descriptors
     DEF FwData, InFill, InQueue, InStatus, OutPeek, OutRead, OutClear, OutStatus, OutMore,
         DataOutEvent, UnexpectedOut, DataInEvent, UnexpectedIn, DataEvent, Unexpected,
         NoAccess, transVars, WriteBd, WriteBuf, Ep0OK, TypeOK, TransTypeOK
<1> QED BY <1>1, <1>2, <1>3, <1>4 DEF FwNext

\* LockoutOK under a step of the firmware.  All but four of its steps leave the
\* SETUP descriptor, what was read of it and the lockout alone.
LEMMA FirmwareLockout ==
  ASSUME TypeOK, LockoutOK, FwNext
  PROVE  LockoutOK'
<1> USE DEF At, Go, KeepLocal, NextPass
<1> DEFINE Same == UNCHANGED <<bd[SetupBd], cel, seen.setup>>
<1>1. bd \in [BdId -> Descriptor] /\ seen \in [setup: BdState, out: BdState, in: BdState]
  BY DEF TypeOK, TransTypeOK, FwTypeOK
<1>2. ASSUME Same, pc # "setup_queue",
             pc' \in Unread \/ pc \notin Unread,
             pc' \in Handling \cup {"release", "setup_queue"} => InSetup
      PROVE  LockoutOK'
  BY <1>2 DEF LockoutOK, InSetup, Unread
<1>3. CASE PeekSetup
  BY <1>1, <1>3 DEF PeekSetup, NoAccess, transVars, LockoutOK, Unread, Handling, InSetup
<1>4. CASE RetrySetup \/ SetupQueue
  BY <1>1, <1>4, Descriptors, DescriptorValues, PktLenAssumption
     DEF RetrySetup, SetupQueue, Quiet, WriteBd, LockoutOK, Unread, Handling
<1>5. CASE Release
  BY <1>5 DEF Release, CelRelease, LockoutOK, Unread, Handling, InSetup
<1>6. CASE Poll \/ Drain \/ DrainCheck \/ PeekOut \/ PeekIn \/ PollDone
  <2>1. Same
    BY <1>1, <1>6 DEF Poll, Drain, DrainCheck, PeekOut, PeekIn, PollDone, NoAccess, transVars,
                      ReadEvt
  <2> QED BY <1>2, <1>6, <2>1 DEF Poll, Drain, DrainCheck, PeekOut, PeekIn, PollDone, NoError,
                                  Quiet, Unread, Handling
<1>7. CASE StatusInDone \/ LastInDone \/ StatusOutDone \/ CbDone \/ StallIn \/ StallOut
           \/ RetryOut
  <2>1. Same
    BY <1>1, <1>7, Descriptors
       DEF StatusInDone, LastInDone, StatusOutDone, CbDone, StallIn, StallOut, RetryOut,
           NoAccess, transVars, WriteBd
  <2> QED BY <1>2, <1>7, <2>1
          DEF StatusInDone, LastInDone, StatusOutDone, CbDone, StallIn, StallOut, RetryOut,
              Quiet, Unread, Handling
<1>8. CASE \/ SetupOutClear \/ SetupInClear \/ SetupInStatus \/ SetupRead
           \/ HandleError \/ HandleStallOut \/ HandleWrite
           \/ \E n \in 0 .. MaxLen : HandleRead(n)
  <2>1. Same
    BY <1>1, <1>8, Descriptors
       DEF SetupOutClear, SetupInClear, SetupInStatus, SetupRead, HandleError, HandleStallOut,
           HandleWrite, HandleRead, NoAccess, transVars, WriteBd, WriteStatus
  <2>2. /\ pc # "setup_queue" /\ pc' \in Handling \cup {"release", "in_fill", "out_peek"}
        /\ pc \in Handling \cup {"act"}
        /\ InSetup
    BY <1>8 DEF SetupOutClear, SetupInClear, SetupInStatus, SetupRead, HandleError,
                HandleStallOut, HandleWrite, HandleRead, Handling, NoError, Quiet, LockoutOK
  <2> QED BY <1>2, <2>1, <2>2 DEF Unread, Handling
<1>9. CASE FwData
  <2> USE DEF FwData, InFill, InQueue, InStatus, OutPeek, OutRead, OutClear, OutStatus, OutMore,
              DataOutEvent, UnexpectedOut, DataInEvent, UnexpectedIn, DataEvent, Unexpected
  <2>1. Same
    BY <1>1, <1>9, Descriptors DEF NoAccess, transVars, WriteBd, WriteBuf
  <2>2. /\ pc \in {"in_fill", "in_queue", "in_status", "out_peek", "out_read", "out_clear",
                   "out_next", "act"}
        /\ \/ pc' \in {"in_fill", "in_queue", "in_status", "out_peek", "out_read", "out_clear",
                      "out_next", "peek_setup"}
           \/ pc' = "release" /\ InSetup
    BY <1>9 DEF AfterData, NoError, Quiet
  <2> HIDE DEF FwData
  <2> QED BY <1>2, <2>1, <2>2 DEF Unread, Handling
<1> QED BY <1>3, <1>4, <1>5, <1>6, <1>7, <1>8, <1>9 DEF FwNext, FwPoll, FwState, FwSetup

-----------------------------------------------------------------------------
(* The theorems.                                                           *)

\* IndInv is inductive.
LEMMA NextIndInv == IndInv /\ [Next]_vars => IndInv'
<1> SUFFICES ASSUME IndInv, [Next]_vars PROVE IndInv'
  OBVIOUS
<1>1. TypeOK' /\ HostXferOK' /\ TransferOK'
  BY NextType, TransferStep DEF IndInv
<1>2. CASE BusStep
  <2>1. SieStepOK /\ UNCHANGED fwVars
    BY <1>2, BusKeeps DEF IndInv
  <2>2. LockoutOK'
    BY <2>1 DEF SieStepOK, IndInv, LockoutOK, fwVars, InSetup
  <2> QED BY <1>1, <2>1, <2>2 DEF SieStepOK, IndInv
<1>3. CASE Firmware
  <2>1. UNCHANGED sie /\ Ep0OK' /\ (~cel => ~cel') /\ bd'[SetupBd] \in {bd[SetupBd], DataBd(PktLen)}
    BY <1>3, FirmwareKeeps DEF Firmware, IndInv
  <2>2. SieOK'
    BY <2>1, DescriptorValues, PktLenAssumption DEF SieOK, IndInv
  <2>3. LockoutOK'
    BY <1>3, FirmwareLockout DEF Firmware, IndInv
  <2> QED BY <1>1, <2>1, <2>2, <2>3 DEF IndInv
<1>4. CASE UNCHANGED vars
  BY <1>1, <1>4 DEF IndInv, vars, transVars, fwVars, Ep0OK, SieOK, LockoutOK, InSetup
<1> QED BY <1>2, <1>3, <1>4 DEF Next, BusStep

\* IndInv holds throughout.
THEOREM Inductive == Spec => []IndInv
  BY InitOK, NextIndInv, PTL DEF Spec

\* Every variable keeps its type, for every packet size, set of requests and
\* number of losses, with either build of the microcode.
THEOREM TypeCorrect == Spec => []TypeOK
<1>1. IndInv => TypeOK
  BY DEF IndInv
<1> QED BY <1>1, Inductive, PTL

\* usb_ep0_poll() handles a SETUP packet under the lockout, and no other SETUP
\* packet is taken meanwhile.
THEOREM LockoutCorrect == Spec => []LockoutCoversHandling
<1>1. IndInv => LockoutCoversHandling
  BY DEF IndInv, LockoutOK, SieOK, LockoutCoversHandling, InHandler, InSetup, Handling, Unread
<1> QED BY <1>1, Inductive, PTL

-----------------------------------------------------------------------------
(* The data buffers.                                                       *)

\* Done descriptors and ready ones.
LEMMA StateFacts ==
  /\ DoneState \cap Ready = {} /\ "rdy_data" \in Ready
  /\ NoBd.state \notin DoneState /\ StallBdOf.state \notin DoneState
  /\ \A n \in Nat : DataBd(n).state \notin DoneState
  BY DEF DoneState, Ready, NoBd, StallBdOf, DataBd

\* BuffersOK once a token is fetched.
LEMMA TokenBuffers ==
  ASSUME IndInv, BuffersOK, NEW pid \in {"IN", "OUT", "SETUP"}, Token(0, pid),
         UNCHANGED fwVars
  PROVE  BuffersOK'
<1> DEFINE c == Captured(0, pid)
           a == AfterFail(c)
<1>1. TransTypeOK /\ Ep0OK /\ SieOK
  BY DEF IndInv, TypeOK
<1>2. PICK late \in BOOLEAN : FailInto(c, late)
  BY DEF Token, Late
<1>3. /\ \A id \in BdId : bd[id].state \in DoneState => bd'[id].state \in DoneState
      /\ ~FailWrites => UNCHANGED bd
  BY <1>1, <1>2, FailIntoKeeps DEF DoneState
<1>4. /\ c \in Sie /\ c.cel = cel /\ c.st.type = "ctrl"
      /\ pid = "OUT" => c.bd = bd[OutBd]
      /\ pid = "IN" => c.bd = bd[InBd]
  BY <1>1, CapturedFacts, CapturedEp0, Ep0Assumption
<1>5. sie' = Dispatched(a, pid) /\ UNCHANGED cel
  BY DEF Token
<1> HIDE DEF c
<1>6. /\ a \in Sie /\ a.cel = cel /\ a.st.type = "ctrl"
      /\ IF FailWrites THEN a.bd.state = "none" ELSE a = c
  BY <1>4, AfterFailFacts
<1> HIDE DEF a
<1>7. /\ sie'.pc = Dispatch(a, pid) /\ sie'.zl = ~StoresData(a, sie'.pc)
      /\ sie'.bd = a.bd
  BY <1>5, <1>6, DispatchedFacts
<1>8. a.bd.state \in Ready => ~FailWrites /\ a.bd = c.bd /\ UNCHANGED bd
  BY <1>3, <1>6 DEF Ready
<1>9. /\ sie'.pc \notin {"idle", "wait_ack"}
      /\ sie'.pc = "wait_out" => pid = "OUT"
      /\ sie'.pc = "tx_data" => ~cel
      /\ sie'.pc \in {"tx_data", "stall_bd"} => pid = "IN" /\ a.bd.state \in Ready
  BY <1>6, <1>7 DEF Dispatch, DispatchIn, DispatchSetup, DispatchOut, Locked, Ready
<1>10. sie'.pc = "discard" => sie'.zl
  BY <1>7 DEF StoresData
<1>11. sie'.pc = "wait_out" /\ ~sie'.zl => sie'.bd.state = "rdy_data"
  BY <1>7 DEF StoresData, DropsData
<1>12. sie'.pc = "wait_out" /\ sie'.bd.state \in Ready => bd'[OutBd].state \notin DoneState
  BY <1>4, <1>7, <1>8, <1>9, StateFacts
<1>13. sie'.pc \in {"tx_data", "wait_ack", "stall_bd"} => bd'[InBd].state \notin DoneState
  BY <1>4, <1>8, <1>9, StateFacts
<1>14. pc' = pc /\ seen' = seen
  BY DEF fwVars
<1> QED BY <1>3, <1>5, <1>9, <1>10, <1>11, <1>12, <1>13, <1>14, Descriptors
        DEF BuffersOK, InSetup

\* BuffersOK under the rest of a transaction: a descriptor that is done is not
\* written, and a transaction only goes on to the answer of its packet.
LEMMA PacketBuffers ==
  ASSUME IndInv, BuffersOK, UNCHANGED fwVars,
         \/ \E dt, p : RxData(dt, p)
         \/ \E bytes : RxFail(bytes)
         \/ StallBd \/ TxData \/ TxHandshake \/ RxAck \/ RxNoAck
  PROVE  BuffersOK'
<1>1. TransTypeOK /\ bd \in [BdId -> Descriptor] /\ sie \in Sie
  BY DEF IndInv, TypeOK, TransTypeOK
<1>8. \/ \E dt, p : RxDataAtEp0(dt, p)
      \/ \E bytes : RxFailAtEp0(bytes)
      \/ StallBd \/ TxData \/ TxHandshake \/ RxAck \/ RxNoAck
  BY <1>1, RxAtEp0 DEF IndInv
<1>2. ASSUME NEW p, Goto(p) PROVE sie'.pc = p
  BY <1>1, <1>2 DEF Goto, Sie
<1>3. /\ sie'.pc \in {"idle", "tx_ack", "tx_nak", "tx_stall", "wait_ack"}
      /\ sie'.pc = "wait_ack" => sie.pc = "tx_data"
  BY <1>2, <1>8
     DEF RxDataAtEp0, RxFailAtEp0, SetupAccepted, SetupFailed, AcceptedAtEp0, OutRefused,
         FailedAtEp0, OutAnswer, DiscardedAtEp0, StallBd, TxData, TxHandshake, RxAck, RxNoAck
<1>4. \/ UNCHANGED bd
      \/ /\ \/ sie.pc \in {"wait_setup", "wait_ack", "stall_bd"}
            \/ sie.pc = "wait_out" /\ sie.bd.state \in Ready
         /\ \A id \in BdId \ {SieBd} : bd'[id] = bd[id]
         /\ sie'.pc # "wait_ack"
  <2>1. ASSUME NEW state, NEW flip, NEW count, WriteBack(state, flip, count)
        PROVE  \A id \in BdId \ {SieBd} : bd'[id] = bd[id]
    BY <1>1, <2>1 DEF WriteBack
  <2> QED BY <1>2, <1>8, <2>1
          DEF RxDataAtEp0, RxFailAtEp0, SetupAccepted, SetupFailed, AcceptedAtEp0, OutAccepts,
              OutRefused, FailedAtEp0, DiscardedAtEp0, StallBd, TxData, TxHandshake, RxAck,
              RxNoAck, Ready
<1>5. /\ bd[OutBd].state \in DoneState => bd'[OutBd] = bd[OutBd]
      /\ bd[InBd].state \in DoneState => bd'[InBd] = bd[InBd]
      /\ sie'.pc = "wait_ack" => bd' = bd
  <2> USE <1>1, Descriptors
  <2>1. CASE UNCHANGED bd
    BY <2>1
  <2>2. CASE /\ sie.pc = "wait_setup"
             /\ sie'.pc # "wait_ack" /\ \A id \in BdId \ {SieBd} : bd'[id] = bd[id]
    <3>1. SieBd = SetupBd
      BY <2>2, SieBdFacts DEF IndInv
    <3> QED BY <2>2, <3>1
  <2>3. CASE /\ sie.pc = "wait_out" /\ sie.bd.state \in Ready
             /\ sie'.pc # "wait_ack" /\ \A id \in BdId \ {SieBd} : bd'[id] = bd[id]
    <3>1. SieBd = OutBd /\ bd[OutBd].state \notin DoneState
      BY <2>3 DEF IndInv, SieOK, SieBd, OutBd, BuffersOK
    <3> QED BY <2>3, <3>1
  <2>4. CASE /\ sie.pc \in {"wait_ack", "stall_bd"}
             /\ sie'.pc # "wait_ack" /\ \A id \in BdId \ {SieBd} : bd'[id] = bd[id]
    <3>1. SieBd = InBd /\ bd[InBd].state \notin DoneState
      BY <2>4 DEF IndInv, SieOK, SieBd, InBd, BuffersOK
    <3> QED BY <2>4, <3>1
  <2> QED BY <1>3, <1>4, <2>1, <2>2, <2>3, <2>4
<1>6. pc' = pc /\ seen' = seen
  BY DEF fwVars
<1>7. sie'.zl
  <2>1. \E p : Goto(p)
    BY <1>8
       DEF RxDataAtEp0, RxFailAtEp0, SetupAccepted, SetupFailed, AcceptedAtEp0, OutRefused,
           FailedAtEp0, DiscardedAtEp0, StallBd, TxData, TxHandshake, RxAck, RxNoAck
  <2> QED BY <1>1, <2>1 DEF Goto, Sie
<1> QED BY <1>3, <1>5, <1>6, <1>7 DEF BuffersOK, InSetup, DoneState

\* BuffersOK under a step of the firmware.
LEMMA FirmwareBuffers ==
  ASSUME IndInv, BuffersOK, FwNext, UNCHANGED others
  PROVE  BuffersOK'
<1> USE DEF At, Go, KeepLocal, NextPass
<1>1. /\ bd \in [BdId -> Descriptor]
      /\ seen \in [setup: BdState, out: BdState, in: BdState]
  BY DEF IndInv, TypeOK, TransTypeOK, FwTypeOK
<1> DEFINE Kept(id) == \/ bd'[id] = bd[id]
                       \/ bd'[id].state \notin DoneState
           Writes  == /\ UNCHANGED <<sie, cel>>
                      /\ Kept(OutBd) /\ Kept(InBd)
                      /\ pc' \notin {"act", "in_fill", "out_read"}
<1>2. ASSUME Writes PROVE BuffersOK'
  BY <1>2 DEF BuffersOK
<1>3. ASSUME NEW id \in {SetupBd, OutBd, InBd}, NEW b, b.state \notin DoneState,
             WriteBd(id, b), pc' \notin {"act", "in_fill", "out_read"}
      PROVE  BuffersOK'
  <2>1. Kept(OutBd) /\ Kept(InBd)
    BY <1>1, <1>3, Descriptors DEF WriteBd
  <2> QED BY <1>2, <1>3, <2>1 DEF WriteBd
<1>4. ASSUME UNCHANGED <<sie, bd, cel>>, pc' \notin {"act", "in_fill", "out_read"}
      PROVE  BuffersOK'
  BY <1>2, <1>4
<1> HIDE DEF Kept, Writes
<1>5. CASE FwPoll
  <2>1. CASE PeekIn
    BY <1>1, <2>1 DEF PeekIn, NoAccess, transVars, BuffersOK, DoneState
  <2>2. CASE Poll \/ Drain \/ DrainCheck \/ PeekSetup \/ PeekOut \/ PollDone
    BY <1>4, <2>2 DEF Poll, Drain, DrainCheck, PeekSetup, PeekOut, PollDone, NoAccess, transVars,
                      ReadEvt
  <2> QED BY <1>5, <2>1, <2>2 DEF FwPoll
<1>6. CASE FwState
  <2>1. CASE CbDone
    BY <1>4, <2>1 DEF CbDone, NoAccess, transVars
  <2>2. CASE StatusInDone \/ LastInDone \/ StatusOutDone \/ StallIn \/ StallOut
             \/ RetrySetup \/ RetryOut
    BY <1>3, <2>2, StateFacts, PktLenAssumption
       DEF StatusInDone, LastInDone, StatusOutDone, StallIn, StallOut, RetrySetup, RetryOut
  <2> QED BY <1>6, <2>1, <2>2 DEF FwState
<1>7. CASE FwSetup
  <2>1. CASE SetupOutClear \/ SetupInClear \/ HandleError \/ HandleStallOut \/ SetupQueue
    BY <1>3, <2>1, StateFacts, PktLenAssumption
       DEF SetupOutClear, SetupInClear, HandleError, HandleStallOut, SetupQueue
  <2>2. CASE SetupInStatus \/ SetupRead \/ HandleWrite
    BY <1>4, <2>2 DEF SetupInStatus, WriteStatus, SetupRead, HandleWrite, NoAccess, transVars
  <2>3. CASE \E n \in 0 .. MaxLen : HandleRead(n)
    BY <2>3 DEF HandleRead, NoAccess, transVars, BuffersOK, InSetup, IndInv, LockoutOK, Handling
  <2>4. CASE Release
    BY <2>4 DEF Release, CelRelease, BuffersOK
  <2> QED BY <1>7, <2>1, <2>2, <2>3, <2>4 DEF FwSetup
<1>8. CASE FwData
  <2> USE DEF AfterData
  <2>1. CASE InFill
    BY <1>4, <2>1 DEF InFill, WriteBuf, NoAccess, transVars
  <2>2. CASE InQueue
    <3>1. Chunk \in Nat
      BY <2>2, ChunkFacts DEF InQueue, IndInv
    <3> QED BY <1>3, <2>2, <3>1, StateFacts DEF InQueue
  <2>3. CASE InStatus \/ OutClear \/ OutStatus
    BY <1>3, <2>3, StateFacts, PktLenAssumption DEF InStatus, OutClear, OutStatus
  <2>4. CASE OutPeek
    BY <1>1, <2>4 DEF OutPeek, NoAccess, transVars, BuffersOK, DoneState
  <2>5. CASE OutRead
    BY <1>4, <2>5 DEF OutRead, NoAccess, transVars
  <2>6. CASE OutMore
    BY <1>3, <1>4, <2>6, StateFacts, PktLenAssumption DEF OutMore, NoAccess, transVars
  <2>7. CASE DataOutEvent
    BY <1>4, <2>7 DEF DataOutEvent, DataEvent, NoAccess, transVars
  <2>8. CASE DataInEvent
    BY <2>8 DEF DataInEvent, DataEvent, NoError, Quiet, NoAccess, transVars, BuffersOK
  <2>9. CASE UnexpectedOut \/ UnexpectedIn
    BY <1>3, <2>9, StateFacts DEF UnexpectedOut, UnexpectedIn, Unexpected
  <2> QED BY <1>8, <2>1, <2>2, <2>3, <2>4, <2>5, <2>6, <2>7, <2>8, <2>9 DEF FwData
<1> QED BY <1>5, <1>6, <1>7, <1>8 DEF FwNext

\* BuffersOK is inductive, given IndInv, when the device is alone on the bus.
LEMMA BuffersStep ==
  ASSUME MaxOther = 0
  PROVE  IndInv /\ BuffersOK /\ [Next]_vars => BuffersOK'
<1> SUFFICES ASSUME IndInv, BuffersOK, [Next]_vars PROVE BuffersOK'
  OBVIOUS
<1>1. CASE BusStep
  <2>1. ~(others < MaxOther)
    BY MaxOtherAssumption DEF IndInv, TypeOK
  <2>2. UNCHANGED <<fwVars, others>>
    BY <1>1, <2>1, BusSteps
  <2>3. CASE UNCHANGED transVars
    BY <2>2, <2>3 DEF transVars, fwVars, BuffersOK, InSetup
  <2>4. CASE \E pid \in {"IN", "OUT", "SETUP"} : Token(0, pid)
    BY <2>2, <2>4, TokenBuffers
  <2>5. CASE \/ \E dt, p : RxData(dt, p)
             \/ \E bytes : RxFail(bytes)
             \/ StallBd \/ TxData \/ TxHandshake \/ RxAck \/ RxNoAck
    BY <2>2, <2>5, PacketBuffers
  <2> QED BY <1>1, <2>1, <2>3, <2>4, <2>5, BusSteps
<1>2. CASE Firmware
  BY <1>2, FirmwareBuffers DEF Firmware
<1>3. CASE UNCHANGED vars
  BY <1>3 DEF vars, transVars, fwVars, BuffersOK, InSetup
<1> QED BY <1>1, <1>2, <1>3 DEF Next, BusStep

\* BuffersOK holds throughout.
LEMMA BuffersInvariant == ASSUME MaxOther = 0 PROVE Spec => [](IndInv /\ BuffersOK)
<1>1. Init => BuffersOK
  BY DEF Init, FwInit, BuffersOK
<1>2. IndInv /\ BuffersOK /\ [Next]_vars => BuffersOK'
  BY BuffersStep
<1> QED BY <1>1, <1>2, Inductive, PTL DEF Spec

\* The core and the firmware never access the same data buffer at one time, as
\* long as no other device is on the bus.
THEOREM BuffersCorrect == ASSUME MaxOther = 0 PROVE Spec => []NoBufferRace
<1>1. IndInv /\ BuffersOK => NoBufferRace
  <2> SUFFICES ASSUME IndInv, BuffersOK PROVE NoBufferRace
    OBVIOUS
  <2>1. others = 0
    BY MaxOtherAssumption DEF IndInv, TypeOK
  <2>2. ASSUME NEW id, StoresInto(id)
        PROVE  \/ sie.pc = "wait_setup" /\ ~cel
               \/ sie.pc = "wait_out" /\ id = OutBd /\ bd[OutBd].state \notin DoneState
    BY <2>1, <2>2 DEF StoresInto, BuffersOK, IndInv, SieOK, SieBd, OutBd, Ready
  <2>3. pc = "setup_read" => cel
    BY DEF IndInv, LockoutOK, Handling, InSetup, Unread
  <2>4. pc = "out_read" => bd[OutBd].state \in DoneState /\ (InSetup => cel)
    BY DEF IndInv, LockoutOK, BuffersOK, Unread
  <2>5. pc = "in_fill" => sie.pc # "tx_data"
    BY DEF IndInv, LockoutOK, BuffersOK, InSetup, Unread
  <2>6. pc = "setup_read" => ~StoresInto(SetupBd)
    BY <2>2, <2>3, Descriptors
  <2>7. pc = "out_read" => ~StoresInto(OutBd)
    <3>1. StoresInto(OutBd) => sie.pc # "wait_setup"
      BY SieBdFacts, Descriptors DEF StoresInto, IndInv, TypeOK
    <3> QED BY <2>2, <2>4, <3>1
  <2> QED BY <2>5, <2>6, <2>7 DEF NoBufferRace
<1> QED BY <1>1, BuffersInvariant, PTL

\* Under the lockout the SETUP packet in the buffer is not overwritten, as long as
\* no other device is on the bus.
THEOREM SetupKeptCorrect == ASSUME MaxOther = 0 PROVE Spec => SetupKept
<1> DEFINE Kept == cel => buf'[SetupBd] = buf[SetupBd]
<1>1. IndInv /\ BuffersOK /\ [Next]_vars => [Kept]_vars
  <2> SUFFICES ASSUME IndInv, BuffersOK, Next, cel PROVE buf'[SetupBd] = buf[SetupBd]
    OBVIOUS
  <2>1. /\ TransTypeOK /\ SieOK /\ others = 0 /\ ~(others < MaxOther)
        /\ buf \in [BdId -> Seq(Unit)]
    BY MaxOtherAssumption DEF IndInv, TypeOK, TransTypeOK
  <2>2. ASSUME NEW bytes, Store(bytes),
               sie.pc \in {"wait_setup", "wait_out", "discard", "idle"}
        PROVE  buf'[SetupBd] = buf[SetupBd]
    <3>1. sie.zl \/ SieBd # SetupBd
      BY <2>1, <2>2, SieBdFacts DEF BuffersOK, SieOK
    <3> QED BY <2>1, <2>2, <3>1 DEF Store
  <2>3. CASE BusStep
    <3>1. CASE \/ UNCHANGED transVars
               \/ \E pid \in {"IN", "OUT", "SETUP"} : Token(0, pid)
               \/ StallBd \/ TxData \/ TxHandshake \/ RxAck \/ RxNoAck
      BY <3>1 DEF transVars, Token, StallBd, TxData, TxHandshake, RxAck, RxNoAck
    <3>2. CASE (\E dt, p : RxData(dt, p)) \/ (\E bytes : RxFail(bytes))
      <4>1. (\E dt, p : RxDataAtEp0(dt, p)) \/ (\E bytes : RxFailAtEp0(bytes))
        BY <2>1, <3>2, RxAtEp0
      <4>2. (\E bytes : Store(bytes)
                /\ sie.pc \in {"wait_setup", "wait_out", "discard", "idle"}) \/ UNCHANGED buf
        BY <4>1 DEF RxDataAtEp0, RxFailAtEp0, SetupAccepted, SetupFailed, AcceptedAtEp0,
                    OutRefused, FailedAtEp0, DiscardedAtEp0, RxNoAck
      <4> QED BY <2>2, <4>2
    <3> QED BY <2>1, <2>3, <3>1, <3>2, BusSteps
  <2>4. CASE Firmware
    <3>1. UNCHANGED buf \/ \E data : WriteBuf(InBd, data)
      BY <2>4 DEF Firmware, FwNext, FwPoll, FwState, FwSetup, FwData,
           Poll, Drain, DrainCheck, PeekSetup, PeekOut, PeekIn, PollDone,
           StatusInDone, LastInDone, StatusOutDone, CbDone, StallIn, StallOut,
           RetrySetup, RetryOut, SetupOutClear, SetupInClear, SetupInStatus, SetupRead,
           HandleError, HandleStallOut, HandleWrite, HandleRead, Release, SetupQueue,
           InFill, InQueue, InStatus, OutPeek, OutRead, OutClear, OutStatus, OutMore,
           DataOutEvent, UnexpectedOut, DataInEvent, UnexpectedIn, DataEvent, Unexpected,
           NoAccess, transVars, WriteBd, WriteStatus, CelRelease, ReadEvt
    <3> QED BY <2>1, <3>1, Descriptors DEF WriteBuf
  <2> QED BY <2>3, <2>4 DEF Next, BusStep
<1> QED BY <1>1, BuffersInvariant, PTL DEF Spec, SetupKept
-----------------------------------------------------------------------------
(* The descriptors.  The core writes a descriptor back a while after it    *)
(* fetched it; the firmware left it alone meanwhile.                       *)

\* The descriptor in the registers of a transaction that may write it back is
\* the one in the RAM, and it is ready.
FetchOK ==
  /\ bd[SetupBd].state = "rdy_data" => bd[SetupBd] = DataBd(PktLen)
  /\ sie.pc = "wait_setup" => sie.bd = DataBd(PktLen)
  /\ sie.pc = "wait_out" /\ ~sie.cel /\ sie.bd.state \in Ready =>
       sie.bd = bd[OutBd] /\ ~cel
  /\ sie.pc \in {"tx_data", "wait_ack", "stall_bd"} =>
       sie.bd = bd[InBd] /\ sie.bd.state \in Ready /\ ~cel

\* What the firmware read of a descriptor that was not ready is still true when it
\* acts on it.
SeenOK ==
  /\ pc \in {"peek_in", "act", "act_out"} /\ seen.out \notin Ready =>
       bd[OutBd].state = seen.out
  /\ pc = "act" /\ seen.in \notin Ready => bd[InBd].state = seen.in
  /\ ~InSetup /\ pc \in {"in_fill", "in_queue"} => bd[InBd].state = "done_ok"
  /\ ~InSetup /\ pc \in {"out_peek", "out_read", "out_clear"} =>
       bd[OutBd].state = "done_ok"
  /\ ~InSetup /\ pc = "out_next" => bd[OutBd].state \notin Ready

\* In each state of the firmware's transfer the descriptor of the other direction
\* is not queued.
StagesOK ==
  /\ bd[OutBd].state # "done_err" /\ bd[InBd].state # "done_err"
  /\ pc = "in_status" => ctrl.state = "DATA_IN"
  /\ pc = "stall_out" => ctrl.state = "STALL"
  /\ ctrl.state = "DATA_IN" => bd[OutBd].state = "none"
  /\ ctrl.state = "DATA_OUT" => bd[InBd].state = "none"
  /\ ctrl.state = "STALL" =>
       /\ bd[InBd].state # "rdy_data" /\ bd[OutBd].state # "rdy_data"
       /\ pc \in {"peek_in", "act", "act_out"} => seen.out # "rdy_data"
       /\ pc = "act" => seen.in # "rdy_data"
  /\ pc \in Handling => bd[OutBd].state = "none"
  /\ pc \in {"setup_in_status", "setup_read", "handle"} => bd[InBd].state = "none"

FirmwareOK    == SeenOK /\ StagesOK
DescriptorsOK == FetchOK /\ FirmwareOK

\* A write back of the core uses up the descriptor it fetched, which is still
\* in the RAM as it was.
WritesFetched ==
  \/ UNCHANGED bd
  \/ /\ bd[SieBd] = sie.bd /\ sie.bd.state \in Ready
     /\ \E b : b.state = "done_ok" /\ bd' = [bd EXCEPT ![SieBd] = b]

\* A token, for this device or for another one, fetches the descriptor, and the
\* fail handler writes nothing in this build.
LEMMA TokenFetch ==
  ASSUME IgnoreRxErr, IndInv, FetchOK, NEW pid \in {"IN", "OUT", "SETUP"},
         Token(0, pid) \/ OtherToken(0, pid)
  PROVE  UNCHANGED bd /\ FetchOK'
<1> DEFINE c == Captured(0, pid)
           a == AfterFail(c)
<1>1. TransTypeOK /\ Ep0OK /\ ~FailWrites /\ cel' = cel
  BY DEF IndInv, TypeOK, Token, OtherToken, FailWrites
<1>2. UNCHANGED bd
  <2>1. PICK late \in BOOLEAN : FailInto(c, late)
    BY DEF Token, OtherToken, Late
  <2> QED BY <1>1, <2>1, FailIntoKeeps
<1>3. /\ c \in Sie /\ c.cel = cel /\ c.pc = "idle" /\ c.st.type = "ctrl"
      /\ c.bd = bd[CASE pid = "IN"    -> InBd
                     [] pid = "OUT"   -> OutBd
                     [] pid = "SETUP" -> SetupBd]
  BY <1>1, CapturedFacts, CapturedEp0, Ep0Assumption
<1>4. sie' = Dispatched(a, pid) \/ sie' = a
  BY DEF Token, OtherToken
<1> HIDE DEF c
<1>5. a = c
  BY <1>1, <1>3, AfterFailFacts
<1> HIDE DEF a
<1>6. CASE sie' = c
  BY <1>1, <1>2, <1>3, <1>6 DEF FetchOK
<1>7. CASE sie' = Dispatched(c, pid)
  <2>1. sie'.pc = Dispatch(c, pid) /\ sie'.cel = cel /\ sie'.bd = c.bd
    BY <1>3, <1>7, DispatchedFacts
  <2>2. /\ sie'.pc = "wait_setup" => pid = "SETUP" /\ c.bd.state = "rdy_data"
        /\ sie'.pc = "wait_out" => pid = "OUT"
        /\ sie'.pc \in {"wait_ack", "stall_bd", "tx_data"} =>
             pid = "IN" /\ ~cel /\ c.bd.state \in Ready
    BY <1>3, <2>1 DEF Dispatch, DispatchIn, DispatchSetup, DispatchOut, Locked, Ready
  <2>3. /\ pid = "IN" => c.bd = bd[InBd]
        /\ pid = "OUT" => c.bd = bd[OutBd]
        /\ pid = "SETUP" => c.bd = bd[SetupBd]
    BY <1>3
  <2> QED BY <1>1, <1>2, <2>1, <2>2, <2>3 DEF FetchOK
<1> QED BY <1>2, <1>4, <1>5, <1>6, <1>7

\* The rest of a transaction: the write back ends it.
LEMMA PacketFetch ==
  ASSUME IgnoreRxErr, IndInv, FetchOK,
         \/ \E dt, p : RxData(dt, p)
         \/ \E bytes : RxFail(bytes)
         \/ StallBd \/ TxData \/ TxHandshake \/ RxAck \/ RxNoAck
  PROVE  WritesFetched /\ FetchOK'
<1>1. /\ TransTypeOK /\ SieOK /\ bd \in [BdId -> Descriptor] /\ sie \in Sie
      /\ SieBd \in BdId
  BY SieBdFacts DEF IndInv, TypeOK, TransTypeOK
<1>2. ASSUME NEW p, Goto(p) PROVE sie'.pc = p
  BY <1>1, <1>2 DEF Goto, Sie
<1>9. \/ \E dt, p : RxDataAtEp0(dt, p)
      \/ \E bytes : RxFailAtEp0(bytes)
      \/ StallBd \/ TxData \/ TxHandshake \/ RxAck \/ RxNoAck
  BY <1>1, RxAtEp0
<1>3. CASE UNCHANGED <<bd, cel>>
  <2>1. /\ sie'.pc \in {"idle", "tx_ack", "tx_nak", "tx_stall", "wait_ack"}
        /\ sie'.pc = "wait_ack" => sie.pc = "tx_data"
    BY <1>2, <1>9
       DEF RxDataAtEp0, RxFailAtEp0, SetupAccepted, SetupFailed, AcceptedAtEp0, OutRefused,
           FailedAtEp0, OutAnswer, DiscardedAtEp0, StallBd, TxData, TxHandshake, RxAck, RxNoAck
  <2>2. \E p : Goto(p)
    BY <1>9
       DEF RxDataAtEp0, RxFailAtEp0, SetupAccepted, SetupFailed, AcceptedAtEp0, OutRefused,
           FailedAtEp0, DiscardedAtEp0, StallBd, TxData, TxHandshake, RxAck, RxNoAck
  <2>3. sie'.bd = sie.bd
    BY <1>1, <2>2 DEF Goto, Sie
  <2> QED BY <1>3, <2>1, <2>3 DEF WritesFetched, FetchOK
<1>4. ASSUME NEW flip, NEW count, WriteBack("done_ok", flip, count),
             NEW p \in {"idle", "tx_ack", "tx_stall"}, Goto(p),
             bd[SieBd] = sie.bd, sie.bd.state \in Ready
      PROVE  WritesFetched /\ FetchOK'
  <2> DEFINE b == [state |-> "done_ok", len |-> count, setup |-> sie.setup]
  <2>1. b.state = "done_ok" /\ bd' = [bd EXCEPT ![SieBd] = b]
    BY <1>4 DEF WriteBack
  <2> HIDE DEF b
  <2>2. WritesFetched
    BY <1>4, <2>1 DEF WritesFetched
  <2>3. bd'[SetupBd].state = "rdy_data" => bd'[SetupBd] = bd[SetupBd]
    BY <1>1, <2>1, Descriptors
  <2> QED BY <1>2, <1>4, <2>2, <2>3 DEF FetchOK
<1>5. ASSUME NEW dt, NEW p, SetupAccepted(dt, p) PROVE WritesFetched /\ FetchOK'
  <2>1. SieBd = SetupBd /\ bd[SetupBd].state = "rdy_data" /\ sie.pc = "wait_setup"
    BY <1>1, <1>5, SieBdFacts DEF SetupAccepted, SieOK
  <2>2. bd[SieBd] = sie.bd /\ sie.bd.state \in Ready
    BY <2>1, StateFacts DEF FetchOK
  <2> QED BY <1>4, <1>5, <2>2 DEF SetupAccepted
<1>6. ASSUME NEW dt, NEW p, AcceptedAtEp0(dt, p) PROVE WritesFetched /\ FetchOK'
  <2>1. sie.pc = "wait_out" /\ ~sie.cel /\ sie.bd.state \in Ready
    BY <1>6 DEF AcceptedAtEp0, OutAccepts, Locked, IndInv, SieOK
  <2>2. SieBd = OutBd
    BY <1>1, <2>1 DEF SieOK, SieBd, OutBd
  <2>3. bd[SieBd] = sie.bd
    BY <2>1, <2>2 DEF FetchOK
  <2> QED BY <1>4, <1>6, <2>1, <2>3 DEF AcceptedAtEp0
<1>7. ASSUME StallBd \/ RxAck PROVE WritesFetched /\ FetchOK'
  <2>1. sie.pc \in {"stall_bd", "wait_ack"} /\ SieBd = InBd
    BY <1>1, <1>7 DEF StallBd, RxAck, SieOK, SieBd, InBd
  <2>2. bd[SieBd] = sie.bd /\ sie.bd.state \in Ready
    BY <2>1 DEF FetchOK
  <2> QED BY <1>4, <1>7, <2>2 DEF StallBd, RxAck
<1>8. \/ UNCHANGED <<bd, cel>>
      \/ \E dt, p : SetupAccepted(dt, p) \/ AcceptedAtEp0(dt, p)
      \/ StallBd \/ RxAck
  BY <1>9 DEF RxDataAtEp0, RxFailAtEp0, SetupFailed, OutRefused, FailedAtEp0, DiscardedAtEp0,
         TxData, TxHandshake, RxNoAck
<1> QED BY <1>3, <1>5, <1>6, <1>7, <1>8

\* A step of the host or of the core.
LEMMA BusFetch ==
  ASSUME IgnoreRxErr, IndInv, FetchOK, BusStep
  PROVE  WritesFetched /\ FetchOK' /\ UNCHANGED fwVars
<1>1. CASE UNCHANGED transVars
  BY <1>1, BusSteps DEF transVars, WritesFetched, FetchOK
<1>2. CASE \E pid \in {"IN", "OUT", "SETUP"} : Token(0, pid) \/ OtherToken(0, pid)
  BY <1>2, TokenFetch, BusSteps DEF WritesFetched
<1>3. CASE \/ \E dt, p : RxData(dt, p)
           \/ \E bytes : RxFail(bytes)
           \/ StallBd \/ TxData \/ TxHandshake \/ RxAck \/ RxNoAck
  BY <1>3, PacketFetch, BusSteps
<1> QED BY <1>1, <1>2, <1>3, BusSteps

\* What the firmware knows of the descriptors stays true while the core uses one
\* up.
LEMMA BusFirmware ==
  ASSUME IndInv, FirmwareOK, WritesFetched, UNCHANGED fwVars
  PROVE  FirmwareOK'
<1>1. bd \in [BdId -> Descriptor]
  BY DEF IndInv, TypeOK, TransTypeOK
<1>2. ASSUME NEW id \in BdId
      PROVE  \/ bd'[id] = bd[id]
             \/ bd[id].state \in Ready /\ bd'[id].state = "done_ok"
  BY <1>1 DEF WritesFetched
<1>3. /\ \/ bd'[OutBd] = bd[OutBd]
         \/ bd[OutBd].state \in Ready /\ bd'[OutBd].state = "done_ok"
      /\ \/ bd'[InBd] = bd[InBd]
         \/ bd[InBd].state \in Ready /\ bd'[InBd].state = "done_ok"
  BY <1>2, Descriptors
<1>4. "none" \notin Ready /\ "done_ok" \notin Ready
  BY DEF Ready
<1>5. pc' = pc /\ seen' = seen /\ ctrl' = ctrl /\ InSetup' = InSetup
  BY DEF fwVars, InSetup
<1>6. SeenOK'
  BY <1>3, <1>4, <1>5 DEF FirmwareOK, SeenOK
<1>7. StagesOK'
  BY <1>3, <1>4, <1>5 DEF FirmwareOK, StagesOK
<1> QED BY <1>6, <1>7 DEF FirmwareOK
\* The firmware writes a descriptor only while the core cannot write it back: under
\* the lockout, or when it is not ready.
LEMMA FirmwareAccess ==
  ASSUME IndInv, FirmwareOK, FwNext
  PROVE  \A id \in {OutBd, InBd} :
           bd'[id] = bd[id] \/ cel \/ bd[id].state \notin Ready
<1> DEFINE Safe(id) == bd'[id] = bd[id] \/ cel \/ bd[id].state \notin Ready
<1> SUFFICES Safe(OutBd) /\ Safe(InBd)
  OBVIOUS
<1>1. /\ bd \in [BdId -> Descriptor]
      /\ seen \in [setup: BdState, out: BdState, in: BdState]
      /\ "none" \notin Ready /\ "done_ok" \notin Ready /\ "done_err" \notin Ready
  BY DEF IndInv, TypeOK, TransTypeOK, FwTypeOK, Ready
<1>2. pc \notin Unread \cup {"setup_queue"} /\ InSetup => cel
  BY DEF IndInv, LockoutOK
<1>3. ASSUME UNCHANGED bd \/ cel PROVE Safe(OutBd) /\ Safe(InBd)
  BY <1>3
<1>4. ASSUME NEW id \in BdId, NEW b, WriteBd(id, b), bd[id].state \notin Ready \/ id = SetupBd
      PROVE  Safe(OutBd) /\ Safe(InBd)
  BY <1>1, <1>4, Descriptors DEF WriteBd
<1> HIDE DEF Safe
<1> USE Descriptors DEF At, Go, KeepLocal, NextPass, FirmwareOK, SeenOK
<1>5. CASE FwPoll
  BY <1>3, <1>5 DEF FwPoll, Poll, Drain, DrainCheck, PeekSetup, PeekOut, PeekIn, PollDone,
                    NoAccess, transVars, ReadEvt
<1>6. CASE FwState
  <2>1. CASE StatusInDone \/ LastInDone
    BY <1>1, <1>4, <2>1 DEF StatusInDone, LastInDone
  <2>2. CASE StatusOutDone
    BY <1>1, <1>4, <2>2 DEF StatusOutDone
  <2>3. CASE StallIn
    <3>1. pc = "act" /\ seen.in \notin Ready
      BY <2>3 DEF StallIn, StagesOK, Ready
    <3> QED BY <1>4, <2>3, <3>1 DEF StallIn
  <2>4. CASE StallOut
    <3>1. pc \in {"act", "act_out"} /\ seen.out \notin Ready
      BY <2>4 DEF StallOut, StagesOK, Ready
    <3> QED BY <1>4, <2>4, <3>1 DEF StallOut
  <2>5. CASE RetrySetup \/ RetryOut
    BY <1>1, <1>4, <2>5 DEF RetrySetup, RetryOut, Quiet
  <2>6. CASE CbDone
    BY <1>3, <2>6 DEF CbDone, NoAccess, transVars
  <2> QED BY <1>6, <2>1, <2>2, <2>3, <2>4, <2>5, <2>6 DEF FwState
<1>7. CASE FwSetup
  <2>1. CASE SetupOutClear \/ SetupInClear \/ HandleError \/ HandleStallOut
    <3>1. pc \notin Unread \cup {"setup_queue"} /\ InSetup
      BY <2>1 DEF SetupOutClear, SetupInClear, HandleError, HandleStallOut, NoError, Quiet,
                  Unread, IndInv, LockoutOK, Handling
    <3> QED BY <1>2, <1>3, <3>1
  <2>2. CASE SetupInStatus \/ SetupRead \/ HandleWrite \/ Release
    BY <1>3, <2>2 DEF SetupInStatus, SetupRead, HandleWrite, Release, NoAccess, transVars,
                      WriteStatus, CelRelease
  <2>3. CASE \E n \in 0 .. MaxLen : HandleRead(n)
    BY <1>3, <2>3 DEF HandleRead, NoAccess, transVars
  <2>4. CASE SetupQueue
    BY <1>4, <2>4 DEF SetupQueue
  <2> QED BY <1>7, <2>1, <2>2, <2>3, <2>4 DEF FwSetup
<1>8. CASE FwData
  <2>1. CASE InFill \/ OutPeek \/ OutRead \/ DataOutEvent \/ DataInEvent
    BY <1>3, <2>1 DEF InFill, OutPeek, OutRead, DataOutEvent, DataInEvent, DataEvent, NoAccess,
                      transVars, WriteBuf
  <2>2. CASE InQueue
    <3>1. pc = "in_queue" /\ pc \notin Unread \cup {"setup_queue"}
      BY <2>2 DEF InQueue, Unread
    <3> QED BY <1>1, <1>2, <1>3, <1>4, <2>2, <3>1 DEF InQueue
  <2>3. CASE InStatus
    BY <1>1, <1>4, <2>3 DEF InStatus, StagesOK
  <2>4. CASE OutClear
    <3>1. pc = "out_clear" /\ pc \notin Unread \cup {"setup_queue"}
      BY <2>4 DEF OutClear, Unread
    <3> QED BY <1>1, <1>2, <1>3, <1>4, <2>4, <3>1 DEF OutClear
  <2>5. CASE OutStatus
    BY <1>1, <1>4, <2>5 DEF OutStatus, StagesOK, IndInv, TransferOK
  <2>6. CASE OutMore
    <3>1. pc = "out_next" /\ pc \notin Unread \cup {"setup_queue"}
      BY <2>6 DEF OutMore, Unread
    <3> QED BY <1>1, <1>2, <1>3, <1>4, <2>6, <3>1 DEF OutMore, NoAccess, transVars
  <2>7. CASE UnexpectedOut \/ UnexpectedIn
    BY <1>1, <1>4, <2>7 DEF UnexpectedOut, UnexpectedIn, Unexpected, NoError, Quiet
  <2> QED BY <1>8, <2>1, <2>2, <2>3, <2>4, <2>5, <2>6, <2>7 DEF FwData
<1> QED BY <1>5, <1>6, <1>7, <1>8 DEF FwNext

\* FetchOK under a step of the firmware.
LEMMA FirmwareFetch ==
  ASSUME IndInv, FetchOK, FirmwareOK, FwNext
  PROVE  FetchOK'
<1>1. \A id \in {OutBd, InBd} : bd'[id] = bd[id] \/ cel \/ bd[id].state \notin Ready
  BY FirmwareAccess
<1>2. /\ UNCHANGED sie
      /\ ~cel => ~cel'
      /\ bd'[SetupBd] \in {bd[SetupBd], DataBd(PktLen)}
  BY FirmwareKeeps DEF IndInv
<1> QED BY <1>1, <1>2 DEF FetchOK

\* SeenOK under a step of the firmware: it acts on what it read before it reads
\* again.
LEMMA FirmwareSeen ==
  ASSUME IndInv, FirmwareOK, FwNext
  PROVE  SeenOK'
<1>1. /\ bd \in [BdId -> Descriptor]
      /\ seen \in [setup: BdState, out: BdState, in: BdState]
      /\ "none" \notin Ready /\ "done_ok" \notin Ready /\ "done_err" \notin Ready
  BY DEF IndInv, TypeOK, TransTypeOK, FwTypeOK, Ready
<1> USE Descriptors DEF At, Go, KeepLocal, NextPass, AfterData, FirmwareOK
<1> DEFINE Reads == {"peek_in", "act", "act_out", "in_fill", "in_queue", "out_peek",
                     "out_read", "out_clear", "out_next"}
<1>2. ASSUME pc' \notin Reads PROVE SeenOK'
  BY <1>2 DEF SeenOK
<1>3. ASSUME UNCHANGED seen, InSetup, pc' \notin {"peek_in", "act", "act_out"} PROVE SeenOK'
  BY <1>3 DEF SeenOK, InSetup
<1>4. CASE FwPoll
  <2>1. CASE PeekOut
    BY <1>1, <2>1 DEF PeekOut, NoAccess, transVars, SeenOK, InSetup
  <2>2. CASE PeekIn
    BY <1>1, <2>2 DEF PeekIn, NoAccess, transVars, SeenOK, InSetup
  <2>3. CASE Poll \/ Drain \/ DrainCheck \/ PeekSetup \/ PollDone
    BY <1>2, <2>3 DEF Poll, Drain, DrainCheck, PeekSetup, PollDone
  <2> QED BY <1>4, <2>1, <2>2, <2>3 DEF FwPoll
<1>5. CASE FwState
  <2>1. CASE LastInDone \/ StallIn
    <3>1. bd'[OutBd] = bd[OutBd] /\ seen' = seen /\ pc = "act"
          /\ pc' \in {"act_out", "peek_setup"}
      BY <1>1, <2>1 DEF LastInDone, StallIn, WriteBd
    <3> QED BY <3>1 DEF SeenOK
  <2>2. CASE StatusInDone \/ StatusOutDone \/ StallOut \/ CbDone \/ RetrySetup \/ RetryOut
    BY <1>2, <2>2 DEF StatusInDone, StatusOutDone, StallOut, CbDone, RetrySetup, RetryOut
  <2> QED BY <1>5, <2>1, <2>2 DEF FwState
<1>6. CASE FwSetup
  <2>1. CASE HandleWrite \/ \E n \in 0 .. MaxLen : HandleRead(n)
    <3>1. pc = "handle" /\ UNCHANGED seen /\ pc' \in {"in_fill", "out_peek"}
      <4>1. CASE HandleWrite
        BY <4>1 DEF HandleWrite
      <4>2. ASSUME NEW n, HandleRead(n)
            PROVE  pc = "handle" /\ UNCHANGED seen /\ pc' \in {"in_fill", "out_peek"}
        BY <4>2 DEF HandleRead
      <4> QED BY <2>1, <4>1, <4>2
    <3>2. InSetup
      BY <3>1 DEF IndInv, LockoutOK, Handling
    <3> QED BY <1>3, <3>1, <3>2
  <2>2. CASE SetupOutClear \/ SetupInClear \/ SetupInStatus \/ SetupRead \/ HandleError
             \/ HandleStallOut \/ Release \/ SetupQueue
    BY <1>2, <2>2 DEF SetupOutClear, SetupInClear, SetupInStatus, SetupRead, HandleError,
                      HandleStallOut, Release, SetupQueue
  <2> QED BY <1>6, <2>1, <2>2 DEF FwSetup
<1>7. CASE FwData
  <2>1. CASE InFill
    BY <2>1 DEF InFill, WriteBuf, NoAccess, transVars, SeenOK, InSetup
  <2>2. CASE InQueue \/ InStatus \/ OutStatus \/ OutMore \/ UnexpectedOut \/ UnexpectedIn
    BY <1>2, <2>2 DEF InQueue, InStatus, OutStatus, OutMore, UnexpectedOut, UnexpectedIn,
                      Unexpected
  <2>3. CASE OutPeek
    BY <1>1, <2>3 DEF OutPeek, NoAccess, transVars, SeenOK, InSetup
  <2>4. CASE OutRead
    BY <2>4 DEF OutRead, NoAccess, transVars, SeenOK, InSetup
  <2>5. CASE OutClear
    <3>1. bd'[OutBd].state = "none" /\ pc' = "out_next"
      BY <1>1, <2>5 DEF OutClear, WriteBd, NoBd
    <3> QED BY <1>1, <3>1 DEF SeenOK
  <2>6. CASE DataOutEvent
    <3>1. bd'[OutBd].state = "done_ok" /\ pc' = "out_peek"
      BY <1>1, <2>6 DEF DataOutEvent, DataEvent, NoError, Quiet, NoAccess, transVars, SeenOK
    <3> QED BY <3>1 DEF SeenOK
  <2>7. CASE DataInEvent
    <3>1. bd'[InBd].state = "done_ok" /\ pc' = "in_fill"
      BY <1>1, <2>7 DEF DataInEvent, DataEvent, NoError, Quiet, NoAccess, transVars, SeenOK
    <3> QED BY <3>1 DEF SeenOK
  <2> QED BY <1>7, <2>1, <2>2, <2>3, <2>4, <2>5, <2>6, <2>7 DEF FwData
<1> QED BY <1>4, <1>5, <1>6, <1>7 DEF FwNext


\* StagesOK under a step of the firmware.
LEMMA FirmwareStages ==
  ASSUME IndInv, FirmwareOK, FwNext
  PROVE  StagesOK'
<1>1. /\ bd \in [BdId -> Descriptor]
      /\ seen \in [setup: BdState, out: BdState, in: BdState]
      /\ ctrl \in Ctrl
  BY DEF IndInv, TypeOK, TransTypeOK, FwTypeOK
<1>2. /\ NoBd.state = "none" /\ StallBdOf.state = "rdy_stall"
      /\ \A n : DataBd(n).state = "rdy_data"
      /\ "none" \notin Ready /\ "done_ok" \notin Ready /\ "done_err" \notin Ready
  BY DEF NoBd, StallBdOf, DataBd, Ready
<1> DEFINE Out == bd[OutBd].state
           In  == bd[InBd].state
<1>3. ASSUME NEW id \in BdId, NEW b, WriteBd(id, b)
      PROVE  /\ id = OutBd => Out' = b.state /\ In' = In
             /\ id = InBd => Out' = Out /\ In' = b.state
             /\ id = SetupBd => Out' = Out /\ In' = In
  BY <1>1, <1>3, Descriptors DEF WriteBd
<1>4. ASSUME UNCHANGED transVars PROVE Out' = Out /\ In' = In
  BY <1>4 DEF transVars
<1>5. StagesOK
  BY DEF FirmwareOK
<1> DEFINE Seen == {"peek_in", "act", "act_out"}
           Local == {"in_status"} \cup Seen \cup Handling
\* The state stays, and nothing is queued that the state does not allow.
<1>6. ASSUME UNCHANGED ctrl, pc' \notin Local,
             Out' \in {Out, "none"}, In' \in {In, "none"}
      PROVE  StagesOK'
  BY <1>5, <1>6 DEF StagesOK, Handling
<1> USE Descriptors DEF At, Go, KeepLocal, NextPass, AfterData
<1>7. CASE FwPoll
  <2>1. CASE PeekOut
    BY <1>1, <1>5, <2>1 DEF PeekOut, NoAccess, transVars, StagesOK, Handling
  <2>2. CASE PeekIn
    BY <1>1, <1>5, <2>2 DEF PeekIn, NoAccess, transVars, StagesOK, Handling
  <2>3. CASE Poll \/ Drain \/ DrainCheck \/ PeekSetup \/ PollDone
    <3>1. Out' = Out /\ In' = In /\ UNCHANGED ctrl
      BY <1>4, <2>3 DEF Poll, Drain, DrainCheck, PeekSetup, PollDone, NoAccess, ReadEvt
    <3>2. pc' \notin Local
      BY <2>3 DEF Poll, Drain, DrainCheck, PeekSetup, PollDone, Handling
    <3> QED BY <1>6, <3>1, <3>2
  <2> QED BY <1>7, <2>1, <2>2, <2>3 DEF FwPoll
<1>8. CASE FwState
  <2>1. CASE StatusInDone \/ StatusOutDone
    <3>1. /\ Out' \in {Out, "none"} /\ In' \in {In, "none"}
          /\ ctrl'.state = "IDLE" /\ pc' = "cb_done"
      BY <1>1, <1>2, <1>3, <2>1 DEF StatusInDone, StatusOutDone, Ctrl
    <3> QED BY <1>5, <3>1 DEF StagesOK, Handling
  <2>2. CASE LastInDone
    <3>1. /\ Out' = Out /\ In' = "none" /\ ctrl' = ctrl /\ ctrl.state = "STATUS_DONE_OUT"
          /\ pc' \in {"act_out", "peek_setup"}
      BY <1>2, <1>3, <2>2 DEF LastInDone
    <3> QED BY <1>5, <3>1 DEF StagesOK, Handling
  <2>3. CASE StallIn
    <3>1. /\ Out' = Out /\ In' = "rdy_stall" /\ ctrl' = ctrl /\ ctrl.state = "STALL"
          /\ pc = "act" /\ pc' \in {"act_out", "peek_setup"} /\ seen' = seen
      BY <1>2, <1>3, <2>3 DEF StallIn
    <3> QED BY <1>5, <3>1 DEF StagesOK, Handling
  <2>4. CASE StallOut
    <3>1. /\ Out' = "rdy_stall" /\ In' = In /\ ctrl' = ctrl /\ ctrl.state = "STALL"
          /\ pc' = "peek_setup"
      BY <1>2, <1>3, <2>4 DEF StallOut
    <3> QED BY <1>5, <3>1 DEF StagesOK, Handling
  <2>5. CASE RetrySetup \/ CbDone
    <3>1. Out' = Out /\ In' = In /\ UNCHANGED ctrl /\ pc' = "peek_setup"
      BY <1>3, <1>4, <2>5 DEF RetrySetup, CbDone, NoAccess
    <3> QED BY <1>6, <3>1 DEF Handling
  <2>6. ~RetryOut
    BY <1>2 DEF RetryOut, Quiet, FirmwareOK, SeenOK, StagesOK
  <2> QED BY <1>8, <2>1, <2>2, <2>3, <2>4, <2>5, <2>6 DEF FwState
<1>9. CASE FwSetup
  <2>1. CASE SetupOutClear
    <3>1. Out' = "none" /\ In' = In /\ ctrl' = ctrl /\ pc' = "setup_in_clear"
      BY <1>2, <1>3, <2>1 DEF SetupOutClear
    <3> QED BY <1>5, <3>1 DEF StagesOK, Handling
  <2>2. CASE SetupInClear
    <3>1. /\ Out' = Out /\ In' = "none" /\ ctrl' = ctrl
          /\ pc = "setup_in_clear" /\ pc' = "setup_in_status"
      BY <1>2, <1>3, <2>2 DEF SetupInClear
    <3> QED BY <1>5, <3>1 DEF StagesOK, Handling
  <2>3. CASE SetupInStatus \/ SetupRead
    <3>1. /\ Out' = Out /\ In' = In /\ ctrl'.state = ctrl.state
          /\ \/ pc = "setup_in_status" /\ pc' = "setup_read"
             \/ pc = "setup_read" /\ pc' = "handle"
      BY <1>1, <1>4, <2>3 DEF SetupInStatus, SetupRead, WriteStatus, NoAccess, Ctrl
    <3> QED BY <1>5, <3>1 DEF StagesOK, Handling
  <2>4. CASE HandleError
    <3>1. /\ Out' = Out /\ In' = "rdy_stall" /\ ctrl'.state = "STALL"
          /\ pc = "handle" /\ pc' = "stall_out"
      BY <1>1, <1>2, <1>3, <2>4 DEF HandleError, Ctrl
    <3> QED BY <1>5, <3>1 DEF StagesOK, Handling
  <2>5. CASE HandleStallOut
    <3>1. Out' = "rdy_stall" /\ In' = In /\ ctrl' = ctrl /\ pc' = "release"
      BY <1>2, <1>3, <2>5 DEF HandleStallOut
    <3>2. Out = "none" /\ pc = "stall_out" /\ ctrl.state = "STALL"
      BY <1>5, <2>5 DEF HandleStallOut, StagesOK, Handling
    <3> QED BY <1>5, <3>1, <3>2 DEF StagesOK, Handling
  <2>6. CASE HandleWrite \/ \E n \in 0 .. MaxLen : HandleRead(n)
    <3> DEFINE Handled == /\ Out' = Out /\ In' = In
                          /\ ctrl'.state \in {"DATA_IN", "DATA_OUT"}
                          /\ pc = "handle" /\ pc' \in {"in_fill", "out_peek"}
    <3>1. Handled
      <4>1. CASE HandleWrite
        BY <1>1, <1>4, <4>1 DEF HandleWrite, NoAccess, Ctrl
      <4>2. ASSUME NEW n \in 0 .. MaxLen, HandleRead(n) PROVE Handled
        BY <1>1, <1>4, <4>2 DEF HandleRead, NoAccess, Ctrl
      <4> QED BY <2>6, <4>1, <4>2
    <3> QED BY <1>5, <3>1 DEF StagesOK, Handling
  <2>7. CASE Release \/ SetupQueue
    <3>1. Out' = Out /\ In' = In /\ UNCHANGED ctrl /\ pc' \in {"setup_queue", "poll"}
      BY <1>3, <2>7 DEF Release, SetupQueue, CelRelease
    <3> QED BY <1>6, <3>1 DEF Handling
  <2> QED BY <1>9, <2>1, <2>2, <2>3, <2>4, <2>5, <2>6, <2>7 DEF FwSetup
<1>10. CASE FwData
  <2>1. CASE InFill \/ OutClear \/ DataOutEvent \/ UnexpectedOut \/ DataInEvent \/ UnexpectedIn
    <3>1. Out' \in {Out, "none"} /\ In' \in {In, "none"} /\ UNCHANGED ctrl
      BY <1>2, <1>3, <1>4, <2>1
         DEF InFill, OutClear, DataOutEvent, UnexpectedOut, DataInEvent, UnexpectedIn,
             DataEvent, Unexpected, WriteBuf, NoAccess
    <3>2. pc' \in {"in_queue", "out_next", "out_peek", "in_fill", "peek_setup"}
      BY <2>1 DEF InFill, OutClear, DataOutEvent, UnexpectedOut, DataInEvent, UnexpectedIn,
                  DataEvent, Unexpected
    <3> QED BY <1>6, <3>1, <3>2 DEF Handling
  <2>2. CASE InQueue
    <3>1. /\ Out' = Out /\ In' = "rdy_data" /\ ctrl.state = "DATA_IN"
          /\ ctrl'.state = "DATA_IN" /\ pc' \in {"in_status", "release", "peek_setup"}
      BY <1>1, <1>2, <1>3, <2>2 DEF InQueue, Ctrl, IndInv, TransferOK
    <3> QED BY <1>5, <3>1 DEF StagesOK, Handling
  <2>3. CASE InStatus
    <3>1. /\ Out' = "rdy_data" /\ In' = In /\ ctrl'.state = "STATUS_DONE_OUT"
          /\ pc' \in {"release", "peek_setup"}
      BY <1>1, <1>2, <1>3, <2>3 DEF InStatus, Ctrl
    <3> QED BY <1>5, <3>1 DEF StagesOK, Handling
  <2>4. CASE OutPeek \/ OutRead
    <3>1. /\ Out' = Out /\ In' = In /\ ctrl'.state = ctrl.state
          /\ pc' \in {"out_read", "out_next", "out_clear"}
      BY <1>1, <1>4, <2>4 DEF OutPeek, OutRead, NoAccess, Ctrl
    <3> QED BY <1>5, <3>1 DEF StagesOK, Handling
  <2>5. CASE OutStatus
    <3>1. /\ Out' = Out /\ In' = "rdy_data" /\ ctrl'.state = "STATUS_DONE_IN"
          /\ pc' \in {"release", "peek_setup"}
      BY <1>1, <1>2, <1>3, <2>5 DEF OutStatus, Ctrl
    <3> QED BY <1>5, <3>1 DEF StagesOK, Handling
  <2>6. CASE OutMore
    <3>1. /\ Out' \in {Out, "rdy_data"} /\ In' = In /\ ctrl' = ctrl
          /\ ctrl.state = "DATA_OUT" /\ pc' \in {"release", "peek_setup"}
      BY <1>2, <1>3, <1>4, <2>6 DEF OutMore, NoAccess, IndInv, TransferOK
    <3> QED BY <1>5, <3>1 DEF StagesOK, Handling
  <2> QED BY <1>10, <2>1, <2>2, <2>3, <2>4, <2>5, <2>6 DEF FwData
<1> QED BY <1>7, <1>8, <1>9, <1>10 DEF FwNext

\* DescriptorsOK is inductive, given IndInv, in the build that ignores reception
\* errors, and every write back hits what was fetched.
LEMMA DescriptorsStep ==
  ASSUME IgnoreRxErr
  PROVE  IndInv /\ DescriptorsOK /\ [Next]_vars =>
           DescriptorsOK' /\ (sie' # sie => WritesFetched)
<1> SUFFICES ASSUME IndInv, DescriptorsOK, [Next]_vars
             PROVE  DescriptorsOK' /\ (sie' # sie => WritesFetched)
  OBVIOUS
<1> USE DEF DescriptorsOK
<1>1. CASE BusStep
  BY <1>1, BusFetch, BusFirmware
<1>2. CASE Firmware
  BY <1>2, FirmwareFetch, FirmwareSeen, FirmwareStages, FirmwareKeeps
     DEF Firmware, FirmwareOK, IndInv
<1>3. CASE UNCHANGED vars
  BY <1>3 DEF vars, transVars, fwVars, FetchOK, FirmwareOK, SeenOK, StagesOK, InSetup
<1> QED BY <1>1, <1>2, <1>3 DEF Next, BusStep

\* At the start only the SETUP descriptor is queued.
LEMMA DescriptorsInit == Init => DescriptorsOK
<1> SUFFICES ASSUME Init PROVE DescriptorsOK
  OBVIOUS
<1>1. bd[SetupBd] = DataBd(PktLen) /\ bd[OutBd] = NoBd /\ bd[InBd] = NoBd
  BY Descriptors DEF Init, Ep0Reset
<1>2. sie.pc = "idle" /\ pc = "poll" /\ ctrl.state = "IDLE"
  BY DEF Init, FwInit, Ep0Reset
<1> QED BY <1>1, <1>2 DEF DescriptorsOK, FetchOK, FirmwareOK, SeenOK, StagesOK, NoBd,
                          Handling

\* A write back of the core never destroys what the firmware wrote to the
\* descriptor since the core fetched it, in the build that ignores reception
\* errors: on any bus, with any number of losses and of tokens for other devices.
THEOREM DescriptorCorrect == ASSUME IgnoreRxErr PROVE Spec => NoLostDescriptor
<1>1. Init => DescriptorsOK
  BY DescriptorsInit
<1>2. /\ IndInv /\ DescriptorsOK /\ [Next]_vars => DescriptorsOK'
      /\ IndInv /\ DescriptorsOK /\ [Next]_vars =>
           [sie' # sie /\ bd' # bd => bd[SieBd] = sie.bd]_vars
  BY DescriptorsStep DEF WritesFetched
<1> QED BY <1>1, <1>2, Inductive, PTL DEF Spec, NoLostDescriptor

-----------------------------------------------------------------------------
(* Control transfers end to end.  Of a transfer the invariant says what    *)
(* host, core and firmware each have of it: which stage the host is in,    *)
(* which packet is in a descriptor and whether the other side knows of it, *)
(* told by the data toggles.                                               *)

\* A SETUP token is lost while the OUT transaction before it, whose data was lost,
\* still waits for its packet: that transaction takes the data of the SETUP.
SetupMissed == TokenLost /\ host.stage = "setup" /\ sie.pc = "wait_out"

\* The two descriptors of the data and status stages, their buffers and toggles,
\* and the state of the descriptor for SETUP packets.
OutB    == bd[OutBd]
InB     == bd[InBd]
OutBuf  == buf[OutBd]
InBuf   == buf[InBd]
OutDt   == eps[<<0, "out">>].dt
InDt    == eps[<<0, "in">>].dt
SetupSt == bd[SetupBd].state

\* A SETUP packet that was taken and not read yet, and its request.
ReadPlaces == {"handle", "stall_out", "in_fill", "in_queue", "in_status", "out_peek",
               "out_read", "out_clear", "out_next", "release", "setup_queue"}
Unhandled == SetupSt = "done_ok" /\ ~(InSetup /\ pc \in ReadPlaces)
Pending   == RequestIn(buf[SetupBd])

\* The SETUP descriptor is not done before the firmware sees it, and stays so
\* until the firmware queues it again.
SeenSetupOK ==
  /\ SetupSt \in {"rdy_data", "done_ok"}
  /\ seen.setup # "done_err"
  /\ InSetup /\ pc \notin Unread => SetupSt = "done_ok"

\* The status in the registers of a transaction is the one in the RAM, and what
\* is received is dropped exactly when the descriptor cannot take it.
StatusOK ==
  /\ ~eps[<<0, "out">>].halt /\ ~eps[<<0, "in">>].halt
  /\ sie.pc # "idle" => ~sie.st.halt
  /\ sie.pc = "wait_out" => sie.st = eps[<<0, "out">>]
  /\ sie.pc \in {"tx_data", "wait_ack", "stall_bd"} => sie.st = eps[<<0, "in">>]
  /\ sie.pc = "wait_setup" => sie.st.dt = 0 /\ ~sie.zl
  /\ sie.pc = "wait_out" => (sie.zl <=> sie.cel \/ sie.bd.state # "rdy_data")
  /\ sie.pc \in {"tx_data", "wait_ack"} => sie.bd.state = "rdy_data"
  /\ sie.pc = "stall_bd" => sie.bd.state = "rdy_stall"

\* Which transactions belong to which stage and phase of the host.
BusOK ==
  /\ host.phase # "other"
  /\ host.phase \in {"ready", "data"} => sie.pc \in Waiting \cup {"idle"}
  /\ host.phase = "answer" => host.stage # "idle"
  /\ host.phase = "ack" =>
       /\ sie.pc = "wait_ack"
       /\ host.stage \in {"data_in", "status_out", "idle"}
       /\ host.stage = "data_in" => host.dt # InDt
  /\ sie.pc = "wait_setup" => host.stage = "setup"
  /\ sie.pc = "tx_ack" =>
       /\ host.stage \in {"setup", "data_out", "status_out"}
       /\ host.stage # "setup" => host.dt # OutDt
  /\ sie.pc \in {"tx_data", "stall_bd"} => host.stage \in {"data_in", "status_in"}
  /\ host.stage = "setup" =>
       /\ sie.pc \notin {"tx_nak", "tx_stall"}
       /\ host.phase \in {"data", "answer"} => sie.pc # "wait_out"
       /\ host.ofs = 0 /\ host.got = <<>>

\* Requests are numbered in the order the host makes them; cb_done was called
\* for none that is still to be handled.
Numbered(r) == r.id <= host.req.id /\ (r.id = host.req.id => r = host.req)
NumbersOK ==
  /\ Numbered(ctrl.req)
  /\ Unhandled => Numbered(Pending) /\ Pending.id \notin done
  /\ \A i \in done : i <= host.req.id
                     /\ (i = host.req.id => host.stage \in {"status_out", "idle"})
  /\ \A i \in host.finished : i <= host.req.id /\ (i = host.req.id => host.stage = "idle")
  /\ ctrl.req.id \in done => ctrl.state = "IDLE" /\ pc \notin {"handle", "cb_done"}
  /\ pc = "cb_done" => ctrl.state = "IDLE"

\* A SETUP packet whose ACK was lost is sent again: of the first one no stage
\* after the SETUP was answered.
Fresh == pc # "cb_done" /\ InB.state # "done_ok" /\ OutB.state # "done_ok"
FreshOK ==
  /\ ctrl.req = host.req /\ host.stage = "setup" => Fresh
  /\ Unhandled /\ Pending.id = ctrl.req.id => Fresh

\* The descriptors in the places of the firmware that use them.
PlacesOK ==
  /\ OutB.state = "rdy_stall" \/ InB.state = "rdy_stall" => ctrl.state = "STALL"
  /\ OutB.state = "rdy_data" => OutB = DataBd(PktLen)
  /\ pc = "out_peek" => OutB.state = IF InSetup THEN "none" ELSE "done_ok"
  /\ pc \in {"out_read", "out_clear"} => ~InSetup /\ OutB.state = "done_ok"
  /\ pc = "out_next" => OutB.state = "none"
  /\ pc \in {"in_fill", "in_queue"} => InB.state = IF InSetup THEN "none" ELSE "done_ok"
  /\ pc \in {"setup_read", "handle"} => InDt = 1
  /\ pc = "handle" => ctrl.data = <<>>

\* The data of a read: what is queued is the part before the offset, and the
\* data ends with a packet that is not full.
Sends  == ctrl.state \in {"DATA_IN", "STATUS_DONE_OUT"} /\ pc # "handle"
Queued == InB.state = "rdy_data"
First  == InSetup /\ pc \in {"in_fill", "in_queue", "in_status"}
InDataOK ==
  Sends =>
    /\ ctrl.req.dir = "in" /\ ctrl.len <= ctrl.req.len /\ ctrl.ofs \in 0 .. ctrl.len
    /\ ctrl.data = DataOf(ctrl.req, 0, ctrl.len)
    /\ pc = "in_queue" /\ Chunk > 0 =>
         InBuf = DataOf(ctrl.req, ctrl.ofs, ctrl.ofs + Chunk)
    /\ Queued =>
         /\ InB.len \in 0 .. PktLen /\ InB.len <= ctrl.ofs
         /\ Prefix(InBuf, InB.len) = DataOf(ctrl.req, ctrl.ofs - InB.len, ctrl.ofs)
         /\ InB.len < PktLen => ctrl.ofs = ctrl.len
    /\ ctrl.state = "STATUS_DONE_OUT" \/ pc = "in_status" => ctrl.ofs = ctrl.len
    /\ ctrl.state = "DATA_IN" /\ ~First => ctrl.ofs > 0

\* The data of a write: what the firmware has, and what is in the buffer that
\* was filled and not read yet.
Takes == ctrl.state \in {"DATA_OUT", "STATUS_DONE_IN"} /\ pc # "handle"
Held  == IF ctrl.state = "DATA_OUT" /\ OutB.state = "done_ok" /\ pc # "out_clear"
           THEN OutB.len - CrcLen ELSE 0
Recv  == ctrl.ofs + Held
OutDataOK ==
  Takes =>
    /\ ctrl.req.dir = "out" /\ ctrl.len = ctrl.req.len
    /\ Held \in 0 .. PktLen /\ ctrl.ofs \in Nat /\ Recv <= ctrl.len
    /\ ctrl.data = DataOf(ctrl.req, 0, ctrl.ofs)
    /\ Held > 0 => Prefix(OutBuf, Held) = DataOf(ctrl.req, ctrl.ofs, Recv)
    /\ ctrl.state = "STATUS_DONE_IN" => ctrl.ofs = ctrl.len

\* The host's transfer from the moment its SETUP packet is taken, before the
\* host has the ACK as after it.
Begun  == \/ host.stage \notin {"idle", "setup"}
          \/ host.stage = "setup" /\ sie.pc = "tx_ack"
HStage == IF host.stage = "setup" THEN AfterSetup(host.req) ELSE host.stage
HDt    == IF host.stage = "setup" THEN 1 ELSE host.dt
Got    == Len(host.got)
AtStart == /\ HStage = AfterSetup(host.req) /\ HDt = 1 /\ OutDt = 1
           /\ host.ofs = 0 /\ Got = 0

\* Host and firmware run the same transfer: where each is in it, told by the
\* toggles.
ReadGoing ==
  /\ HStage \in {"data_in", "status_in", "status_out"}
  /\ HStage = "data_in" =>
       \/ HDt = InDt /\ Got = ctrl.ofs - (IF Queued THEN InB.len ELSE 0)
       \/ HDt # InDt /\ Queued /\ Got = ctrl.ofs
  /\ HStage = "status_in" => HDt = 1 /\ InDt = 1 /\ Got = 0 /\ host.req.len = 0
  /\ HStage = "status_out" => HDt = 1 /\ Got = ctrl.len
  /\ \/ OutDt = 1
     \/ HStage = "status_out" /\ ctrl.state = "STATUS_DONE_OUT" /\ OutB.state = "done_ok"
  /\ HStage # "status_out" => OutB.state # "done_ok"
WriteGoing ==
  /\ HStage \in {"data_out", "status_in"}
  /\ InDt = 1 /\ InB.state # "done_ok"
  /\ HStage = "data_out" =>
       /\ host.ofs < host.req.len
       /\ Recv = IF HDt = OutDt THEN host.ofs ELSE host.ofs + SendLen
  /\ HStage = "status_in" => HDt = 1 /\ Recv = host.req.len
Going ==
  /\ pc = "handle" => AtStart
  /\ ctrl.state = "STALL" => AtStart
  /\ Sends => ReadGoing
  /\ Takes => WriteGoing
  /\ ctrl.state = "IDLE" /\ pc # "handle" => HStage = "status_out" /\ Got = ctrl.len
BegunOK ==
  Begun => IF Unhandled THEN Pending = host.req /\ AtStart
                        ELSE ctrl.req = host.req /\ Going

\* A transfer that ended with success is one the firmware handled, and a status
\* packet that was acknowledged ended the transfer it belongs to.
FinishedOK ==
  /\ host.req.id \in host.finished =>
       /\ ctrl.req = host.req /\ ~Unhandled /\ pc # "handle"
       /\ ctrl.state \in {"STATUS_DONE_IN", "STATUS_DONE_OUT", "IDLE"}
  /\ ctrl.state = "STATUS_DONE_IN" /\ (InB.state = "done_ok" \/ host.phase = "ack") =>
       ctrl.req.id \in host.finished
  /\ pc = "cb_done" /\ ctrl.req.dir = "out" => ctrl.req.id \in host.finished

\* What the host has is the first part of the data of its request.
GotOK == Got \in 0 .. MaxLen /\ host.got = DataOf(host.req, 0, Got)

\* The invariants of the control flow, the buffers, the descriptors and the bus;
\* and all of them.
Regs == IndInv /\ BuffersOK /\ DescriptorsOK /\ StatusOK /\ BusOK
XferInv == /\ Regs /\ SeenSetupOK /\ NumbersOK /\ FreshOK /\ PlacesOK
           /\ InDataOK /\ OutDataOK /\ BegunOK /\ FinishedOK /\ GotOK

-----------------------------------------------------------------------------
\* The data of a request, by its elements.
LEMMA DataOfElements ==
  ASSUME NEW r \in Request, NEW a \in Nat, NEW b \in 0 .. MaxLen, a <= b
  PROVE  /\ DataOf(r, a, b) \in Seq(Unit) /\ Len(DataOf(r, a, b)) = b - a
         /\ \A i \in 1 .. b - a : DataOf(r, a, b)[i] = [req |-> r, pos |-> a + i]
<1>1. DataOf(r, a, b) \in Seq(Unit) /\ Len(DataOf(r, a, b)) = b - a
  BY DataOfType
<1>2. \A i \in 1 .. b - a : DataOf(r, a, b)[i] = [req |-> r, pos |-> a + i]
  BY DEF DataOf
<1> QED BY <1>1, <1>2

\* No data at all.
LEMMA DataOfNone ==
  ASSUME NEW r \in Request, NEW a \in 0 .. MaxLen
  PROVE  DataOf(r, a, a) = <<>>
<1>1. DataOf(r, a, a) \in Seq(Unit) /\ Len(DataOf(r, a, a)) = 0
  BY DataOfType
<1> QED BY <1>1, EmptySeq

\* A part of the data of a request.
LEMMA DataOfPart ==
  ASSUME NEW r \in Request, NEW b \in 0 .. MaxLen, NEW a \in Nat, NEW n \in Nat, a + n <= b
  PROVE  SubSeq(DataOf(r, 0, b), a + 1, a + n) = DataOf(r, a, a + n)
<1> DEFINE s == DataOf(r, 0, b)
           t == DataOf(r, a, a + n)
           u == SubSeq(s, a + 1, a + n)
<1>1. /\ s \in Seq(Unit) /\ Len(s) = b
      /\ \A i \in 1 .. b : s[i] = [req |-> r, pos |-> i]
  <2> DEFINE z == 0
  <2>1. z \in Nat /\ z <= b /\ b - z = b /\ \A i \in 1 .. b : z + i = i
    BY MaxLenAssumption
  <2>2. s = DataOf(r, z, b)
    OBVIOUS
  <2> HIDE DEF z, s
  <2>3. /\ s \in Seq(Unit) /\ Len(s) = b - z
        /\ \A i \in 1 .. b - z : s[i] = [req |-> r, pos |-> z + i]
    BY <2>1, <2>2, DataOfElements
  <2> QED BY <2>1, <2>3
<1>2. /\ t \in Seq(Unit) /\ Len(t) = n
      /\ \A i \in 1 .. n : t[i] = [req |-> r, pos |-> a + i]
  <2>1. a + n \in 0 .. MaxLen /\ a <= a + n /\ (a + n) - a = n
    BY MaxLenAssumption
  <2> QED BY <2>1, DataOfElements
<1>3. /\ u \in Seq(Unit) /\ Len(u) = n
      /\ \A i \in 1 .. n : u[i] = s[a + i]
  <2>1. \A i \in a + 1 .. a + n : s[i] \in Unit
    BY <1>1, ElementOfSeq
  <2> HIDE DEF s
  <2>2. /\ SubSeq(s, a + 1, a + n) \in Seq(Unit)
        /\ Len(SubSeq(s, a + 1, a + n)) = (IF a + 1 <= a + n THEN (a + n) - (a + 1) + 1 ELSE 0)
        /\ \A i \in 1 .. (a + n) - (a + 1) + 1 : SubSeq(s, a + 1, a + n)[i] = s[(a + 1) + i - 1]
    BY <1>1, <2>1, SubSeqProperties
  <2> QED BY <2>2
<1> HIDE DEF s, t, u
<1>4. \A i \in 1 .. n : u[i] = t[i]
  <2> TAKE i \in 1 .. n
  <2>1. a + i \in 1 .. b
    BY MaxLenAssumption
  <2> QED BY <1>1, <1>2, <1>3, <2>1
<1>5. u = t
  BY <1>2, <1>3, <1>4, SeqEqual
<1> QED BY <1>5 DEF s, t, u

\* Two parts of it that follow one another.
LEMMA DataOfJoin ==
  ASSUME NEW r \in Request, NEW a \in Nat, NEW b \in Nat, NEW c \in 0 .. MaxLen,
         a <= b, b <= c
  PROVE  DataOf(r, a, b) \o DataOf(r, b, c) = DataOf(r, a, c)
<1>0. b \in 0 .. MaxLen /\ c \in Nat /\ a <= c
  BY MaxLenAssumption
<1> DEFINE s == DataOf(r, a, b)
           t == DataOf(r, b, c)
           u == DataOf(r, a, c)
           v == s \o t
<1>1. /\ s \in Seq(Unit) /\ Len(s) = b - a
      /\ \A i \in 1 .. b - a : s[i] = [req |-> r, pos |-> a + i]
  BY <1>0, DataOfElements
<1>2. /\ t \in Seq(Unit) /\ Len(t) = c - b
      /\ \A i \in 1 .. c - b : t[i] = [req |-> r, pos |-> b + i]
  BY <1>0, DataOfElements
<1>3. /\ u \in Seq(Unit) /\ Len(u) = c - a
      /\ \A i \in 1 .. c - a : u[i] = [req |-> r, pos |-> a + i]
  BY <1>0, DataOfElements
<1> HIDE DEF s, t, u
<1>4. /\ v \in Seq(Unit) /\ Len(v) = c - a
      /\ \A i \in 1 .. c - a : v[i] = IF i <= b - a THEN s[i] ELSE t[i - (b - a)]
  <2>1. /\ v \in Seq(Unit) /\ Len(v) = Len(s) + Len(t)
        /\ \A i \in 1 .. Len(s) + Len(t) : v[i] = IF i <= Len(s) THEN s[i] ELSE t[i - Len(s)]
    BY <1>1, <1>2, ConcatProperties, Zenon
  <2>2. Len(s) = b - a /\ Len(s) + Len(t) = c - a
    BY <1>1, <1>2
  <2> HIDE DEF v
  <2> QED BY <2>1, <2>2
<1> HIDE DEF v
<1>5. \A i \in 1 .. c - a : v[i] = u[i]
  <2> TAKE i \in 1 .. c - a
  <2>1. CASE i <= b - a
    <3>1. i \in 1 .. b - a
      BY <1>0, <2>1
    <3> QED BY <1>1, <1>3, <1>4, <2>1, <3>1
  <2>2. CASE ~(i <= b - a)
    <3>1. i - (b - a) \in 1 .. c - b /\ b + (i - (b - a)) = a + i
      BY <2>2
    <3>2. v[i] = t[i - (b - a)] /\ t[i - (b - a)] = [req |-> r, pos |-> b + (i - (b - a))]
      BY <1>2, <1>4, <2>2, <3>1
    <3>3. v[i] = [req |-> r, pos |-> a + i]
      BY <3>1, <3>2
    <3> QED BY <1>3, <3>3
  <2> QED BY <2>1, <2>2
<1>6. v = u
  BY <1>3, <1>4, <1>5, SeqEqual
<1> QED BY <1>6 DEF s, t, u, v

\* A buffer that holds exactly a packet, and no packet.
LEMMA PrefixWhole ==
  ASSUME NEW s \in Seq(Unit)
  PROVE  Prefix(s, Len(s)) = s /\ Prefix(s, 0) = <<>>
<1>1. Len(s) \in Nat
  BY LenProperties
<1>2. Prefix(s, 0) \in Seq(Unit) /\ Len(Prefix(s, 0)) = 0
  BY <1>1, PrefixElements
<1> QED BY <1>1, <1>2, EmptySeq DEF Prefix

\* The request is found in the buffer of a SETUP packet that was stored.
LEMMA RequestStored ==
  ASSUME NEW r \in Request, NEW old \in Seq(Unit), NEW m \in Nat, m > 0
  PROVE  RequestIn(Overwrite(old, Prefix(<<[req |-> r, pos |-> 0]>> \o Crc, m))) = r
<1> DEFINE u == [req |-> r, pos |-> 0]
           p == <<u>>
           new == Overwrite(old, Prefix(p \o Crc, m))
<1>1. u \in Unit
  BY MaxLenAssumption, DataAssumption
<1> HIDE DEF u
<1>2. p \in Seq(Unit) /\ Len(p) = 1 /\ p[1] = u
  BY <1>1
<1> HIDE DEF p
<1>3. new \in Seq(Unit) /\ Prefix(new, Len(p)) = p
  <2>1. Len(p) <= m
    BY <1>2
  <2> QED BY <1>2, <2>1, StoredPacket
<1> HIDE DEF new
<1>4. /\ Len(Prefix(new, 1)) = (IF Len(new) <= 1 THEN Len(new) ELSE 1)
      /\ \A i \in 1 .. Len(Prefix(new, 1)) : Prefix(new, 1)[i] = new[i]
  BY <1>3, PrefixElements
<1>5. new[1] = u /\ new # <<>>
  <2>1. Prefix(new, 1) = p
    BY <1>2, <1>3
  <2>2. Len(new) \in Nat
    BY <1>3, LenProperties
  <2> DEFINE q == Prefix(new, 1)
  <2>3. Len(q) = 1 /\ q[1] = u
    BY <1>2, <2>1
  <2>4. /\ Len(q) = (IF Len(new) <= 1 THEN Len(new) ELSE 1)
        /\ \A i \in 1 .. Len(q) : q[i] = new[i]
    BY <1>4
  <2> HIDE DEF q
  <2>5. Len(new) # 0 /\ new[1] = u
    BY <2>2, <2>3, <2>4
  <2> QED BY <1>3, <2>5, EmptySeq
<1>6. RequestIn(new) = r
  BY <1>5 DEF RequestIn, u
<1> QED BY <1>6 DEF new, p, u

-----------------------------------------------------------------------------
(* What a step of the host or of the core does to both, in terms of what   *)
(* the invariant is about.                                                 *)

\* The status a token captures.
LEMMA CapturedStatus ==
  ASSUME TransTypeOK, NEW pid \in {"IN", "OUT", "SETUP"}
  PROVE  LET st == Captured(0, pid).st
             ep == <<0, DirOf(pid)>>
         IN /\ st.halt = eps[ep].halt
            /\ pid # "SETUP" => st = eps[ep]
            /\ pid = "SETUP" => st.dt = 0
<1> DEFINE st == eps[<<0, DirOf(pid)>>]
           dt == IF pid = "SETUP" THEN 0 ELSE st.dt
<1>1. st \in EpStatus
  BY Descriptors DEF DirOf, TransTypeOK
<1>2. Captured(0, pid).st = [st EXCEPT !.dt = dt]
  BY DEF Captured
<1>3. /\ dt \in {0, 1}
      /\ pid # "SETUP" => dt = st.dt
      /\ pid = "SETUP" => dt = 0
  BY <1>1 DEF EpStatus
<1> DEFINE c == Captured(0, pid).st
<1>4. c = [st EXCEPT !.dt = dt]
  BY <1>2
<1> HIDE DEF c, st, dt
<1>5. c.halt = st.halt /\ c.dt = dt /\ (dt = st.dt => c = st)
  BY <1>1, <1>3, <1>4 DEF EpStatus
<1>6. c.halt = st.halt /\ (pid # "SETUP" => c = st) /\ (pid = "SETUP" => c.dt = 0)
  BY <1>3, <1>5
<1> QED BY <1>6 DEF c, st

\* A token for this device only starts a transaction.
LEMMA TokenDoes ==
  ASSUME IgnoreRxErr, IndInv, StatusOK, NEW pid \in {"IN", "OUT", "SETUP"}, Token(0, pid)
  PROVE  /\ UNCHANGED <<eps, bd, buf, cel>>
         /\ StatusOK'
         /\ sie.pc \in Waiting \cup {"idle"}
         /\ pid = "SETUP" => sie'.pc \in {"wait_setup", "discard"}
         /\ pid = "OUT" => sie'.pc = "wait_out"
         /\ pid = "IN" => sie'.pc \in {"stall_bd", "tx_data", "tx_nak"}
<1> DEFINE c == Captured(0, pid)
           a == AfterFail(c)
<1>1. TransTypeOK /\ Ep0OK /\ ~FailWrites
  BY DEF IndInv, TypeOK, FailWrites
<1>2. UNCHANGED <<eps, bd, buf, cel>> /\ sie.pc \in Waiting \cup {"idle"}
  <2>1. PICK late \in BOOLEAN : FailInto(c, late)
    BY DEF Token, Late
  <2>2. UNCHANGED <<eps, bd>>
    BY <1>1, <2>1, Zenon DEF FailInto
  <2> QED BY <2>2 DEF Token
<1>3. /\ c \in Sie /\ c.cel = cel /\ c.st.type = "ctrl"
      /\ c.st.halt = eps[<<0, DirOf(pid)>>].halt
      /\ pid # "SETUP" => c.st = eps[<<0, DirOf(pid)>>]
      /\ pid = "SETUP" => c.st.dt = 0
  BY <1>1, CapturedFacts, CapturedEp0, CapturedStatus, Ep0Assumption
<1>4. sie' = Dispatched(a, pid)
  BY DEF Token
<1> HIDE DEF c
<1>5. a = c
  BY <1>1, <1>3, AfterFailFacts
<1>6. /\ sie'.pc = Dispatch(c, pid) /\ sie'.zl = ~StoresData(c, sie'.pc)
      /\ sie'.cel = c.cel /\ sie'.st = c.st /\ sie'.bd = c.bd
  BY <1>3, <1>4, <1>5, DispatchedFacts
<1>7. ~c.st.halt /\ (pid = "IN" => c.st = eps[<<0, "in">>])
      /\ (pid = "OUT" => c.st = eps[<<0, "out">>])
  BY <1>3 DEF DirOf, StatusOK
<1>8. /\ pid = "SETUP" => sie'.pc \in {"wait_setup", "discard"}
      /\ pid = "OUT" => sie'.pc = "wait_out"
      /\ pid = "IN" =>
           \/ sie'.pc = "stall_bd" /\ c.bd.state = "rdy_stall"
           \/ sie'.pc = "tx_data" /\ c.bd.state = "rdy_data"
           \/ sie'.pc = "tx_nak"
  BY <1>3, <1>6, <1>7 DEF Dispatch, DispatchIn, DispatchSetup, DispatchOut
<1>9. /\ sie'.pc = "wait_setup" => ~sie'.zl
      /\ sie'.pc = "wait_out" => (sie'.zl <=> sie'.cel \/ sie'.bd.state # "rdy_data")
  BY <1>3, <1>6, <1>7 DEF StoresData, DropsData, Locked
<1>10. StatusOK'
  BY <1>2, <1>3, <1>6, <1>7, <1>8, <1>9 DEF StatusOK
<1> QED BY <1>2, <1>8, <1>10

\* A jump of the microcode.
LEMMA GotoFields ==
  ASSUME TransTypeOK, NEW p, Goto(p)
  PROVE  /\ sie'.pc = p /\ sie'.zl /\ sie'.st = sie.st /\ sie'.bd = sie.bd
         /\ sie'.cel = sie.cel /\ sie'.d = sie.d /\ sie'.cur = sie.cur
  BY DEF Goto, TransTypeOK, Sie

\* What the core stores changes neither the buffer of the IN end point, nor that
\* of a descriptor which is not ready.
BuffersKept ==
  /\ UNCHANGED InBuf
  /\ SetupSt = "done_ok" => UNCHANGED Pending
  /\ OutB.state # "rdy_data" => UNCHANGED OutBuf

\* A buffer changes only while the core receives into it.
LEMMA StoreKeeps ==
  ASSUME IndInv, BuffersOK, DescriptorsOK, StatusOK, others = 0, NEW bytes, Store(bytes),
         sie.pc \in {"wait_setup", "wait_out", "discard", "idle"}
  PROVE  BuffersKept
<1>1. TransTypeOK /\ SieOK /\ buf \in [BdId -> Seq(Unit)]
  BY DEF IndInv, TypeOK, TransTypeOK
<1>2. CASE sie.zl
  BY <1>2 DEF Store, BuffersKept, InBuf, Pending, OutBuf
<1>3. CASE ~sie.zl
  <2>1. buf' = [buf EXCEPT ![SieBd] = Overwrite(@, Prefix(bytes, sie.bd.len))]
    BY <1>3 DEF Store
  <2>2. \/ sie.pc = "wait_setup" /\ SieBd = SetupBd /\ SetupSt = "rdy_data"
        \/ sie.pc = "wait_out" /\ SieBd = OutBd /\ OutB.state = "rdy_data"
    <3>1. sie.pc \in {"wait_setup", "wait_out"}
      BY <1>3 DEF BuffersOK
    <3>2. CASE sie.pc = "wait_setup"
      BY <1>1, <3>2, SieBdFacts DEF SieOK, SetupSt
    <3>3. CASE sie.pc = "wait_out"
      <4>1. SieBd = OutBd
        BY <1>1, <3>3 DEF SieOK, SieBd, OutBd
      <4>2. ~sie.cel /\ sie.bd.state = "rdy_data"
        BY <1>3, <3>3 DEF StatusOK
      <4> QED BY <3>3, <4>1, <4>2, StateFacts DEF DescriptorsOK, FetchOK, OutB
    <3> QED BY <3>1, <3>2, <3>3
  <2>3. \A id \in BdId : id # SieBd => buf'[id] = buf[id]
    BY <1>1, <2>1
  <2> QED BY <2>2, <2>3, Descriptors DEF BuffersKept, InBuf, Pending, OutBuf
<1> QED BY <1>2, <1>3

\* A step of the host or of the core.
LEMMA BusBuffers ==
  ASSUME MaxOther = 0, IndInv, BuffersOK, DescriptorsOK, StatusOK, BusStep
  PROVE  BuffersKept
<1>1. others = 0 /\ ~(others < MaxOther)
  BY MaxOtherAssumption DEF IndInv, TypeOK
<1>2. CASE UNCHANGED buf
  BY <1>2 DEF BuffersKept, InBuf, Pending, OutBuf
<1>3. CASE \/ UNCHANGED transVars
           \/ \E pid \in {"IN", "OUT", "SETUP"} : Token(0, pid)
           \/ StallBd \/ TxData \/ TxHandshake \/ RxAck \/ RxNoAck
  <2>1. UNCHANGED buf
    BY <1>3 DEF transVars, Token, StallBd, TxData, TxHandshake, RxAck, RxNoAck
  <2> QED BY <1>2, <2>1
<1>4. CASE (\E dt, p : RxData(dt, p)) \/ (\E bytes : RxFail(bytes))
  <2>1. (\E dt, p : RxDataAtEp0(dt, p)) \/ (\E bytes : RxFailAtEp0(bytes))
    BY <1>4, RxAtEp0 DEF IndInv, TypeOK
  <2>2. (\E bytes : Store(bytes)
            /\ sie.pc \in {"wait_setup", "wait_out", "discard", "idle"}) \/ UNCHANGED buf
    BY <2>1 DEF RxDataAtEp0, RxFailAtEp0, SetupAccepted, SetupFailed, AcceptedAtEp0,
                OutRefused, FailedAtEp0, DiscardedAtEp0, RxNoAck
  <2> QED BY <1>1, <1>2, <2>2, StoreKeeps
<1> QED BY <1>1, <1>3, <1>4, BusSteps

\* The write back of a transaction.
LEMMA WriteBackDoes ==
  ASSUME TransTypeOK, SieOK, StatusOK, sie.pc # "idle",
         NEW state, NEW flip \in BOOLEAN, NEW count, WriteBack(state, flip, count)
  PROVE  /\ ~eps'[<<0, "out">>].halt /\ ~eps'[<<0, "in">>].halt
         /\ sie.d = "out" => /\ OutDt' = (IF flip THEN 1 - sie.st.dt ELSE sie.st.dt)
                             /\ InDt' = InDt /\ InB' = InB
         /\ sie.d = "in" =>  /\ InDt' = (IF flip THEN 1 - sie.st.dt ELSE sie.st.dt)
                             /\ OutDt' = OutDt /\ OutB' = OutB
         /\ SieBd = SetupBd => SetupSt' = state /\ InB' = InB /\ OutB' = OutB
         /\ SieBd = OutBd => /\ OutB'.state = state /\ OutB'.len = count
                             /\ SetupSt' = SetupSt
         /\ SieBd = InBd => InB'.state = state /\ SetupSt' = SetupSt
<1> DEFINE st == [sie.st EXCEPT !.dt  = IF flip THEN 1 - @ ELSE @,
                                !.bdi = IF sie.st.mode = "dual" THEN 1 - @ ELSE @]
           b  == [state |-> state, len |-> count, setup |-> sie.setup]
<1>1. /\ SieEp = <<0, sie.d>> /\ sie.d \in {"in", "out"} /\ SieBd \in BdId
      /\ sie.st \in EpStatus /\ ~sie.st.halt
      /\ eps \in [Ep -> EpStatus] /\ bd \in [BdId -> Descriptor]
  BY SieBdFacts DEF TransTypeOK, SieOK, Sie, SieEp, StatusOK
<1>2. eps' = [eps EXCEPT ![SieEp] = st] /\ bd' = [bd EXCEPT ![SieBd] = b]
  BY DEF WriteBack
<1>3. ~st.halt /\ st.dt = (IF flip THEN 1 - sie.st.dt ELSE sie.st.dt)
  <2> DEFINE dt  == IF flip THEN 1 - sie.st.dt ELSE sie.st.dt
             bdi == IF sie.st.mode = "dual" THEN 1 - sie.st.bdi ELSE sie.st.bdi
  <2>1. st = [sie.st EXCEPT !.dt = dt, !.bdi = bdi]
    OBVIOUS
  <2> HIDE DEF st, dt, bdi
  <2>2. ~st.halt /\ st.dt = dt
    BY <1>1, <2>1 DEF EpStatus
  <2> QED BY <2>2 DEF dt
<1>4. b.state = state /\ b.len = count
  OBVIOUS
<1> HIDE DEF st, b
<1>5. \A ep \in Ep : eps'[ep] = IF ep = SieEp THEN st ELSE eps[ep]
  BY <1>1, <1>2
<1>6. \A id \in BdId : bd'[id] = IF id = SieBd THEN b ELSE bd[id]
  BY <1>1, <1>2
<1>7. ~eps[<<0, "out">>].halt /\ ~eps[<<0, "in">>].halt
  BY DEF StatusOK
<1>8. ~eps'[<<0, "out">>].halt /\ ~eps'[<<0, "in">>].halt
  BY <1>3, <1>5, <1>7, Descriptors
<1>9. /\ sie.d = "out" => /\ OutDt' = (IF flip THEN 1 - sie.st.dt ELSE sie.st.dt)
                          /\ InDt' = InDt
      /\ sie.d = "in" =>  /\ InDt' = (IF flip THEN 1 - sie.st.dt ELSE sie.st.dt)
                          /\ OutDt' = OutDt
  BY <1>1, <1>3, <1>5, Descriptors DEF OutDt, InDt
<1>10. /\ sie.d = "out" => SieBd # InBd
       /\ sie.d = "in" => SieBd # OutBd
  BY DEF SieBd, InBd, OutBd
<1>11. /\ SieBd # InBd => InB' = InB
       /\ SieBd # OutBd => OutB' = OutB
       /\ SieBd # SetupBd => SetupSt' = SetupSt
       /\ SieBd = SetupBd => SetupSt' = state
       /\ SieBd = OutBd => OutB'.state = state /\ OutB'.len = count
       /\ SieBd = InBd => InB'.state = state
  BY <1>4, <1>6, Descriptors DEF InB, OutB, SetupSt
<1> QED BY <1>8, <1>9, <1>10, <1>11, Descriptors

\* The status in the registers once a transaction is over, or goes on to its
\* handshake.
LEMMA StatusKept ==
  ASSUME TransTypeOK, StatusOK,
         NEW p \in {"idle", "tx_ack", "tx_nak", "tx_stall", "wait_ack"}, Goto(p),
         p # "idle" => sie.pc # "idle",
         p = "wait_ack" => sie.pc = "tx_data" /\ UNCHANGED eps,
         ~eps'[<<0, "out">>].halt, ~eps'[<<0, "in">>].halt
  PROVE  StatusOK'
<1>1. sie'.pc = p /\ sie'.st = sie.st /\ sie'.bd = sie.bd
  BY GotoFields
<1> QED BY <1>1 DEF StatusOK

\* The host's transfer does not change.
HostKept == /\ host'.stage = host.stage /\ host'.req = host.req /\ host'.dt = host.dt
            /\ host'.ofs = host.ofs /\ host'.got = host.got
            /\ host'.finished = host.finished

\* A step of the host that changes its phase only.
LEMMA PhaseOnly ==
  ASSUME HostTypeOK, NEW ph, host' = [host EXCEPT !.phase = ph]
  PROVE  HostKept /\ host'.phase = ph
  BY DEF HostTypeOK, Host, HostKept

\* Neither descriptors nor toggles change.
RegsKept == UNCHANGED <<OutB, InB, SetupSt, OutDt, InDt>>

\* A step that writes neither the status RAM nor a descriptor.
LEMMA RegsSame ==
  ASSUME UNCHANGED <<eps, bd>>
  PROVE  /\ RegsKept
         /\ StatusOK => ~eps'[<<0, "out">>].halt /\ ~eps'[<<0, "in">>].halt
  BY DEF RegsKept, OutB, InB, SetupSt, OutDt, InDt, StatusOK

(* The steps of the bus that change more than the transaction in progress. *)

\* The SETUP packet is taken.
TakesSetup ==
  /\ host.phase = "data" /\ host.stage = "setup" /\ HostKept /\ host'.phase = "answer"
  /\ ~cel /\ cel' /\ sie.pc = "wait_setup" /\ sie'.pc = "tx_ack"
  /\ SetupSt = "rdy_data" /\ SetupSt' = "done_ok" /\ Pending' = host.req
  /\ OutDt' = 1 /\ UNCHANGED <<InDt, InB, OutB>>

\* A packet is taken into the OUT buffer.
TakesOut ==
  /\ host.phase = "data" /\ host.stage \in {"data_out", "status_out"}
  /\ HostKept /\ host'.phase = "answer"
  /\ ~cel /\ ~cel' /\ sie'.pc = "tx_ack"
  /\ OutB.state = "rdy_data" /\ OutB'.state = "done_ok"
  /\ OutB'.len = Len(HostPayload) + CrcLen
  /\ OutB = DataBd(PktLen) /\ Len(HostPayload) <= PktLen =>
       Prefix(OutBuf', Len(HostPayload)) = HostPayload
  /\ host.dt = OutDt /\ OutDt' = 1 - OutDt /\ UNCHANGED <<SetupSt, InDt, InB>>

\* A packet uses up the OUT descriptor that stalls.
StallsOut ==
  /\ host.phase = "data" /\ host.stage \in {"data_out", "status_out"}
  /\ HostKept /\ host'.phase = "answer"
  /\ ~cel /\ ~cel' /\ sie'.pc = "tx_stall"
  /\ OutB.state = "rdy_stall" /\ OutB'.state = "done_ok"
  /\ UNCHANGED <<SetupSt, OutDt, InDt, InB>>

\* An IN token uses up the IN descriptor that stalls.
StallsIn ==
  /\ host.phase = "answer" /\ host.stage \in {"data_in", "status_in"}
  /\ HostKept /\ host'.phase = "answer"
  /\ ~cel /\ ~cel' /\ sie'.pc = "tx_stall"
  /\ InB.state = "rdy_stall" /\ InB'.state = "done_ok"
  /\ UNCHANGED <<SetupSt, OutDt, InDt, OutB>>

\* The packet of the IN descriptor is acknowledged.
SentIn ==
  /\ host.phase = "ack" /\ HostKept /\ host'.phase = "ready"
  /\ ~cel /\ ~cel' /\ sie'.pc = "idle"
  /\ InB.state = "rdy_data" /\ InB'.state = "done_ok"
  /\ InDt' = 1 - InDt /\ UNCHANGED <<SetupSt, OutDt, OutB>>

\* The host gets the data of the IN descriptor.
SendsIn ==
  /\ host.phase = "answer" /\ host.stage \in {"data_in", "status_in"}
  /\ GetData(InDt, Prefix(InBuf, InB.len))
  /\ ~cel /\ ~cel' /\ sie'.pc = "wait_ack"
  /\ InB.state = "rdy_data" /\ RegsKept

\* It gets the ACK of what it sent, or a STALL.
Acks   == /\ host.phase = "answer" /\ sie.pc = "tx_ack" /\ host' = GetAck
          /\ sie'.pc = "idle" /\ RegsKept /\ UNCHANGED cel
Stalls == /\ host.phase = "answer" /\ sie.pc = "tx_stall"
          /\ host' = [host EXCEPT !.stage = "idle", !.phase = "ready"]
          /\ sie'.pc = "idle" /\ RegsKept /\ UNCHANGED cel

\* It starts a transfer.
Begins == /\ host.phase = "ready" /\ (\E r \in Request : Start(r))
          /\ RegsKept /\ UNCHANGED <<cel, sie>>

\* Nothing but the transaction in progress and the phase changes.
Passes == /\ HostKept /\ RegsKept /\ UNCHANGED cel
          /\ host'.phase = "ack" => host.phase = "ack"
          /\ host.stage = "setup" /\ sie'.pc = "tx_ack" => sie.pc = "tx_ack"

BusCases == \/ TakesSetup \/ TakesOut \/ StallsOut \/ StallsIn \/ SentIn
            \/ SendsIn \/ Acks \/ Stalls \/ Begins \/ Passes

\* The types of the variables the steps of the bus change.
LEMMA RegsFacts ==
  ASSUME Regs
  PROVE  /\ TransTypeOK /\ SieOK /\ StatusOK /\ HostTypeOK /\ HostOK
         /\ sie \in Sie /\ host.dt \in {0, 1} /\ OutDt \in {0, 1} /\ InDt \in {0, 1}
         /\ buf \in [BdId -> Seq(Unit)]
<1>1. /\ TransTypeOK /\ SieOK /\ StatusOK /\ HostTypeOK /\ HostOK
  BY DEF Regs, IndInv, TypeOK, HostOK
<1>2. sie \in Sie /\ buf \in [BdId -> Seq(Unit)] /\ eps \in [Ep -> EpStatus]
  BY <1>1 DEF TransTypeOK
<1>3. host.dt \in {0, 1}
  BY <1>1 DEF HostTypeOK, Host
<1>4. OutDt \in {0, 1} /\ InDt \in {0, 1}
  BY <1>2, Descriptors DEF OutDt, InDt, EpStatus
<1> QED BY <1>1, <1>2, <1>3, <1>4

\* What follows the data of the host: the packet arrives.
LEMMA HostDataDoes ==
  ASSUME MaxOther = 0, IgnoreRxErr, Regs, HostData
  PROVE  StatusOK' /\ BusOK' /\ BusCases
<1>1. /\ host.phase = "data" /\ HostKept /\ host'.phase = "answer"
      /\ RxData(DataToggle, HostPayload)
      /\ host.stage \in {"setup", "data_out", "status_out"}
      /\ sie.pc \in Waiting \cup {"idle"}
      /\ sie.pc = "wait_out" => host.stage # "setup"
      /\ sie.pc = "wait_setup" => host.stage = "setup"
  <2>1. HostTypeOK /\ HostXferOK
    BY RegsFacts DEF HostOK
  <2>2. host.phase = "data" /\ host' = [host EXCEPT !.phase = "answer"]
    BY DEF HostData, DataSent
  <2> QED BY <2>1, <2>2, PhaseOnly DEF HostData, HostXferOK, Regs, BusOK
<1>2. TransTypeOK /\ SieOK /\ StatusOK /\ sie \in Sie /\ BusOK
  BY RegsFacts DEF Regs
<1>3. ASSUME NEW p \in {"idle", "tx_nak"}, Goto(p), UNCHANGED <<eps, bd, cel>>,
             host.stage = "setup" => p = "idle", p # "idle" => sie.pc # "idle"
      PROVE  StatusOK' /\ BusOK' /\ BusCases
  <2>1. sie'.pc = p /\ RegsKept /\ StatusOK'
    BY <1>2, <1>3, GotoFields, RegsSame, StatusKept
  <2>2. BusOK'
    BY <1>1, <1>2, <1>3, <2>1 DEF BusOK, HostKept, RegsKept
  <2>3. Passes
    BY <1>1, <1>3, <2>1 DEF Passes
  <2> QED BY <2>1, <2>2, <2>3 DEF BusCases
<1>4. CASE SetupAccepted(DataToggle, HostPayload)
  <2>1. /\ sie.pc = "wait_setup" /\ host.stage = "setup" /\ cel' /\ ~cel
        /\ sie.d = "out" /\ SieBd = SetupBd /\ SetupSt = "rdy_data"
        /\ sie.st.dt = 0 /\ ~sie.zl /\ sie.bd = DataBd(PktLen)
    BY <1>1, <1>2, <1>4, SieBdFacts
       DEF SetupAccepted, SieOK, StatusOK, SetupSt, Regs, DescriptorsOK, FetchOK
  <2>2. /\ ~eps'[<<0, "out">>].halt /\ ~eps'[<<0, "in">>].halt
        /\ OutDt' = 1 /\ InDt' = InDt /\ InB' = InB /\ OutB' = OutB /\ SetupSt' = "done_ok"
    <3> DEFINE flip == TRUE
               n == Len(HostPayload) + CrcLen
    <3>1. WriteBack("done_ok", flip, n) /\ flip = TRUE /\ flip \in BOOLEAN
      BY <1>4 DEF SetupAccepted
    <3> HIDE DEF flip, n
    <3>2. sie.pc # "idle" /\ SetupBd # OutBd /\ SetupBd # InBd
      BY <2>1, Descriptors
    <3>3. /\ ~eps'[<<0, "out">>].halt /\ ~eps'[<<0, "in">>].halt
          /\ OutDt' = (IF flip THEN 1 - sie.st.dt ELSE sie.st.dt) /\ InDt' = InDt
          /\ InB' = InB /\ OutB' = OutB /\ SetupSt' = "done_ok"
      BY <1>2, <2>1, <3>1, <3>2, WriteBackDoes
    <3> QED BY <2>1, <3>1, <3>3
  <2>3. Goto("tx_ack") /\ sie'.pc = "tx_ack"
    BY <1>2, <1>4, GotoFields DEF SetupAccepted
  <2>4. StatusOK'
    BY <1>2, <2>1, <2>2, <2>3, StatusKept
  <2>5. Pending' = host.req
    <3>1. buf[SetupBd] \in Seq(Unit) /\ buf \in [BdId -> Seq(Unit)]
      BY RegsFacts, Descriptors
    <3>2. host.req \in Request
      BY RegsFacts DEF HostTypeOK, Host
    <3>3. sie.bd.len = PktLen
      BY <2>1 DEF DataBd
    <3>4. HostPayload = <<[req |-> host.req, pos |-> 0]>>
      BY <2>1 DEF HostPayload
    <3>5. buf'[SetupBd] = Overwrite(buf[SetupBd], Prefix(HostPayload \o Crc, PktLen))
      BY <1>4, <2>1, <3>1, <3>3, Descriptors DEF SetupAccepted, Store
    <3> QED BY <3>1, <3>2, <3>4, <3>5, RequestStored, PktLenAssumption DEF Pending
  <2>6. BusOK'
    BY <1>1, <1>2, <2>1, <2>2, <2>3 DEF BusOK, HostKept
  <2>7. TakesSetup
    BY <1>1, <2>1, <2>2, <2>3, <2>5 DEF TakesSetup
  <2> QED BY <2>4, <2>6, <2>7 DEF BusCases
<1>5. CASE DataToggle # 0 /\ SetupFailed(HostPayload \o Crc)
  BY <1>1, <1>5 DEF DataToggle, SetupFailed
<1>6. CASE OutAccepted(DataToggle, HostPayload)
  <2>1. /\ sie.pc = "wait_out" /\ host.stage \in {"data_out", "status_out"}
        /\ sie.d = "out" /\ SieBd = OutBd /\ sie.st = eps[<<0, "out">>] /\ ~sie.cel
        /\ sie.bd = OutB /\ OutB.state \in Ready /\ ~cel /\ cel' = cel
        /\ sie.zl <=> sie.bd.state # "rdy_data"
    BY <1>1, <1>2, <1>6
       DEF OutAccepted, OutAccepts, Locked, SieOK, SieBd, OutBd, StatusOK, OutB, Regs,
           DescriptorsOK, FetchOK
  <2>2. host.dt = OutDt
    BY <1>6, <2>1 DEF OutAccepted, OutAccepts, DataToggle, OutDt
  <2> DEFINE flip == sie.bd.state = "rdy_data"
             n == Len(HostPayload) + CrcLen
             p == IF sie.bd.state = "rdy_data" THEN "tx_ack" ELSE "tx_stall"
  <2>3. WriteBack("done_ok", flip, n) /\ Goto(p) /\ flip \in BOOLEAN
    BY <1>2, <1>6, RxAtEp0 DEF AcceptedAtEp0
  <2>4. p \in {"tx_ack", "tx_stall"}
    OBVIOUS
  <2> HIDE DEF flip, n, p
  <2>5. /\ ~eps'[<<0, "out">>].halt /\ ~eps'[<<0, "in">>].halt
        /\ OutDt' = (IF flip THEN 1 - OutDt ELSE OutDt)
        /\ InDt' = InDt /\ InB' = InB /\ SetupSt' = SetupSt
        /\ OutB'.state = "done_ok" /\ OutB'.len = n
    <3>1. OutDt = sie.st.dt
      BY <2>1 DEF OutDt
    <3> QED BY <1>2, <2>1, <2>3, <3>1, WriteBackDoes
  <2>6. sie'.pc = p /\ StatusOK'
    BY <1>2, <2>1, <2>3, <2>4, <2>5, GotoFields, StatusKept
  <2>7. CASE sie.bd.state = "rdy_data"
    <3>1. flip = TRUE /\ p = "tx_ack"
      BY <2>7 DEF flip, p
    <3>2. OutB = DataBd(PktLen) /\ Len(HostPayload) <= PktLen =>
            Prefix(OutBuf', Len(HostPayload)) = HostPayload
      <4> SUFFICES ASSUME OutB = DataBd(PktLen), Len(HostPayload) <= PktLen
                   PROVE  Prefix(OutBuf', Len(HostPayload)) = HostPayload
        OBVIOUS
      <4>1. buf[OutBd] \in Seq(Unit) /\ buf \in [BdId -> Seq(Unit)]
        BY RegsFacts, Descriptors
      <4>2. HostPayload \in Seq(Unit)
        BY <1>1, RegsFacts, HostPayloadType
      <4>3. sie.bd.len = PktLen
        BY <2>1 DEF DataBd
      <4>4. buf'[OutBd] = Overwrite(buf[OutBd], Prefix(HostPayload \o Crc, PktLen))
        BY <1>6, <2>1, <2>7, <4>1, <4>3, Descriptors DEF OutAccepted, Store
      <4> QED BY <4>1, <4>2, <4>4, StoredPacket, PktLenAssumption DEF OutBuf
    <3>3. OutDt' = 1 - OutDt /\ OutDt \in {0, 1}
      BY <2>5, <3>1, RegsFacts
    <3>4. BusOK'
      BY <1>1, <1>2, <2>1, <2>2, <2>6, <3>1, <3>3 DEF BusOK, HostKept
    <3>5. TakesOut
      BY <1>1, <2>1, <2>2, <2>5, <2>6, <2>7, <3>1, <3>2, <3>3 DEF TakesOut, n
    <3> QED BY <2>6, <3>4, <3>5 DEF BusCases
  <2>8. CASE sie.bd.state # "rdy_data"
    <3>1. flip = FALSE /\ p = "tx_stall" /\ OutB.state = "rdy_stall"
      BY <2>1, <2>8 DEF flip, p, Ready
    <3>2. BusOK'
      BY <1>1, <1>2, <2>1, <2>6, <3>1 DEF BusOK, HostKept
    <3>3. StallsOut
      BY <1>1, <2>1, <2>5, <2>6, <3>1 DEF StallsOut
    <3> QED BY <2>6, <3>2, <3>3 DEF BusCases
  <2> QED BY <2>7, <2>8
<1>7. CASE OutRefused(DataToggle, HostPayload)
  <2> DEFINE p == OutAnswer(DataToggle)
  <2>1. /\ sie.pc = "wait_out" /\ host.stage \in {"data_out", "status_out"}
        /\ UNCHANGED <<eps, bd, cel>> /\ Goto(p)
        /\ sie.st = eps[<<0, "out">>] /\ ~sie.st.halt
    BY <1>1, <1>2, <1>7 DEF OutRefused, StatusOK
  <2>2. p \in {"tx_nak", "tx_ack"} /\ (p = "tx_ack" => host.dt # OutDt)
    BY <2>1 DEF OutAnswer, DataToggle, OutDt
  <2> HIDE DEF p
  <2>3. sie'.pc = p /\ RegsKept /\ StatusOK'
    BY <1>2, <2>1, <2>2, GotoFields, RegsSame, StatusKept
  <2>4. BusOK'
    BY <1>1, <1>2, <2>1, <2>2, <2>3 DEF BusOK, HostKept, RegsKept
  <2>5. Passes
    BY <1>1, <2>1, <2>3 DEF Passes
  <2> QED BY <2>3, <2>4, <2>5 DEF BusCases
<1>8. CASE Discarded(HostPayload \o Crc)
  BY <1>2, <1>3, <1>8, RxAtEp0 DEF DiscardedAtEp0
<1>9. CASE RxNoAck
  BY <1>3, <1>9 DEF RxNoAck
<1> QED BY <1>1, <1>4, <1>5, <1>6, <1>7, <1>8, <1>9 DEF RxData

\* Nothing but the transaction in progress, which ends or still waits, and the phase
\* of the host changes.
LEMMA RestsDoes ==
  ASSUME Regs, UNCHANGED <<eps, bd, cel>>, HostKept,
         \/ Goto("idle")
         \/ sie.pc = "tx_data" /\ Goto("wait_ack")
         \/ UNCHANGED sie /\ sie.pc \in Waiting \cup {"idle"},
         \/ host'.phase = "ready"
         \/ host'.phase = "answer" /\ host.phase = "data"
  PROVE  StatusOK' /\ BusOK' /\ BusCases
<1>1. TransTypeOK /\ StatusOK /\ BusOK /\ HostXferOK
  BY RegsFacts DEF Regs, HostOK
<1>2. RegsKept /\ ~eps'[<<0, "out">>].halt /\ ~eps'[<<0, "in">>].halt
  BY <1>1, RegsSame
<1>3. CASE Goto("idle")
  <2>1. sie'.pc = "idle" /\ StatusOK'
    BY <1>1, <1>2, <1>3, GotoFields, StatusKept
  <2>2. BusOK'
    BY <1>1, <1>2, <2>1 DEF BusOK, HostKept, RegsKept, HostXferOK
  <2>3. Passes
    BY <1>2, <2>1 DEF Passes
  <2> QED BY <2>1, <2>2, <2>3 DEF BusCases
<1>4. CASE sie.pc = "tx_data" /\ Goto("wait_ack")
  <2>1. sie'.pc = "wait_ack" /\ StatusOK'
    BY <1>1, <1>2, <1>4, GotoFields, StatusKept
  <2>2. host'.phase = "ready"
    BY <1>1, <1>4 DEF BusOK, Waiting
  <2>3. BusOK'
    BY <1>1, <1>2, <2>1, <2>2 DEF BusOK, HostKept, RegsKept, Waiting
  <2>4. Passes
    BY <1>2, <2>1, <2>2 DEF Passes
  <2> QED BY <2>1, <2>3, <2>4 DEF BusCases
<1>5. CASE UNCHANGED sie /\ sie.pc \in Waiting \cup {"idle"}
  <2>1. StatusOK'
    BY <1>1, <1>5 DEF StatusOK
  <2>2. BusOK'
    BY <1>1, <1>2, <1>5 DEF BusOK, HostKept, RegsKept, HostXferOK, Waiting
  <2>3. Passes
    BY <1>2, <1>5 DEF Passes
  <2> QED BY <2>1, <2>2, <2>3 DEF BusCases
<1> QED BY <1>3, <1>4, <1>5

\* In the build that ignores reception errors a packet that is not good only ends
\* the transaction.
LEMMA RxFailDoes ==
  ASSUME IgnoreRxErr, TransTypeOK, SieOK, NEW bytes, RxFail(bytes)
  PROVE  UNCHANGED <<eps, bd, cel>> /\ Goto("idle")
  BY RxAtEp0 DEF RxFailAtEp0, SetupFailed, FailedAtEp0, DiscardedAtEp0, RxNoAck

\* The host sends a token, or gives up waiting.
LEMMA HostPhases ==
  ASSUME HostTypeOK
  PROVE  /\ \A pid \in {"IN", "OUT", "SETUP"} :
              SendToken(pid) =>
                /\ HostKept /\ host.phase = "ready" /\ host.stage # "idle"
                /\ host'.phase = IF pid = "IN" THEN "answer" ELSE "data"
                /\ pid = "SETUP" => host.stage = "setup"
                /\ pid = "OUT" => host.stage \in {"data_out", "status_out"}
                /\ pid = "IN" => host.stage \in {"data_in", "status_in"}
         /\ DataSent => HostKept /\ host.phase = "data" /\ host'.phase = "answer"
         /\ NoAnswer => HostKept /\ host.phase = "answer" /\ host'.phase = "ready"
         /\ AckSent => HostKept /\ host.phase = "ack" /\ host'.phase = "ready"
<1>1. ASSUME NEW pid \in {"IN", "OUT", "SETUP"}, SendToken(pid)
      PROVE  /\ HostKept /\ host.phase = "ready" /\ host.stage # "idle"
             /\ host'.phase = IF pid = "IN" THEN "answer" ELSE "data"
             /\ pid = "SETUP" => host.stage = "setup"
             /\ pid = "OUT" => host.stage \in {"data_out", "status_out"}
             /\ pid = "IN" => host.stage \in {"data_in", "status_in"}
  <2> DEFINE ph == IF pid = "IN" THEN "answer" ELSE "data"
  <2>1. host' = [host EXCEPT !.phase = ph] /\ pid = TokenPid
        /\ host.phase = "ready" /\ host.stage # "idle"
    BY <1>1 DEF SendToken
  <2> HIDE DEF ph
  <2>2. HostKept /\ host'.phase = ph
    BY <2>1, PhaseOnly
  <2>3. host.stage \in Stage
    BY DEF HostTypeOK, Host
  <2>4. /\ pid = "SETUP" => host.stage = "setup"
        /\ pid = "OUT" => host.stage \in {"data_out", "status_out"}
        /\ pid = "IN" => host.stage \in {"data_in", "status_in"}
    BY <2>1, <2>3 DEF TokenPid, Stage
  <2> QED BY <2>1, <2>2, <2>4 DEF ph
<1>2. DataSent => HostKept /\ host.phase = "data" /\ host'.phase = "answer"
  BY PhaseOnly DEF DataSent
<1>3. NoAnswer => HostKept /\ host.phase = "answer" /\ host'.phase = "ready"
  BY PhaseOnly DEF NoAnswer
<1>4. AckSent => HostKept /\ host.phase = "ack" /\ host'.phase = "ready"
  BY PhaseOnly DEF AckSent
<1> QED BY <1>1, <1>2, <1>3, <1>4

\* Tokens.
LEMMA TokensDo ==
  ASSUME IgnoreRxErr, Regs, ~SetupMissed, SetupOrOutToken \/ InToken \/ TokenLost
  PROVE  StatusOK' /\ BusOK' /\ BusCases
<1>1. TransTypeOK /\ StatusOK /\ BusOK /\ HostTypeOK /\ IndInv
  BY RegsFacts DEF Regs
<1>2. CASE SetupOrOutToken \/ InToken
  <2>1. PICK pid \in {"IN", "OUT", "SETUP"} : SendToken(pid) /\ Token(0, pid)
    BY <1>2 DEF SetupOrOutToken, InToken
  <2>2. /\ HostKept /\ host.phase = "ready" /\ host.stage # "idle"
        /\ host'.phase = IF pid = "IN" THEN "answer" ELSE "data"
        /\ pid = "SETUP" => host.stage = "setup"
        /\ pid = "OUT" => host.stage \in {"data_out", "status_out"}
        /\ pid = "IN" => host.stage \in {"data_in", "status_in"}
    BY <1>1, <2>1, HostPhases
  <2>3. /\ UNCHANGED <<eps, bd, buf, cel>> /\ StatusOK'
        /\ pid = "SETUP" => sie'.pc \in {"wait_setup", "discard"}
        /\ pid = "OUT" => sie'.pc = "wait_out"
        /\ pid = "IN" => sie'.pc \in {"stall_bd", "tx_data", "tx_nak"}
    BY <1>1, <2>1, TokenDoes
  <2>4. RegsKept
    BY <2>3, RegsSame
  <2>5. BusOK'
    BY <1>1, <2>2, <2>3, <2>4 DEF BusOK, HostKept, RegsKept, Waiting
  <2>6. Passes
    BY <2>2, <2>3, <2>4 DEF Passes
  <2> QED BY <2>3, <2>5, <2>6 DEF BusCases
<1>3. CASE TokenLost
  <2>1. PICK pid \in {"IN", "OUT", "SETUP"} : SendToken(pid)
    BY <1>3 DEF TokenLost
  <2>2. /\ HostKept /\ host.phase = "ready" /\ host.stage # "idle"
        /\ host'.phase = IF pid = "IN" THEN "answer" ELSE "data"
        /\ pid = "SETUP" => host.stage = "setup"
        /\ pid = "OUT" => host.stage \in {"data_out", "status_out"}
        /\ pid = "IN" => host.stage \in {"data_in", "status_in"}
    BY <1>1, <2>1, HostPhases
  <2>3. UNCHANGED <<eps, bd, cel, sie>> /\ (host.stage = "setup" => sie.pc # "wait_out")
    BY <1>3 DEF TokenLost, SetupMissed, transVars
  <2>4. RegsKept
    BY <2>3, RegsSame
  <2>5. StatusOK'
    BY <1>1, <2>3 DEF StatusOK
  <2>6. BusOK'
    BY <1>1, <2>2, <2>3, <2>4 DEF BusOK, HostKept, RegsKept, Waiting
  <2>7. Passes
    BY <2>2, <2>3, <2>4 DEF Passes
  <2> QED BY <2>5, <2>6, <2>7 DEF BusCases
<1> QED BY <1>2, <1>3

\* Packets that are lost or damaged, no answer, and SOFs.
LEMMA QuietDoes ==
  ASSUME IgnoreRxErr, Regs,
         \/ HostDataDamaged \/ HostDataLost \/ AnswerLost \/ Silence
         \/ DeviceDataLost \/ HostAckDamaged \/ HostAckLost \/ Sof
  PROVE  StatusOK' /\ BusOK' /\ BusCases
<1>1. HostTypeOK /\ BusOK /\ TransTypeOK /\ SieOK
  BY RegsFacts DEF Regs
<1>2. CASE HostDataDamaged
  <2>1. HostKept /\ host.phase = "data" /\ host'.phase = "answer"
    BY <1>1, <1>2, HostPhases DEF HostDataDamaged
  <2>2. UNCHANGED <<eps, bd, cel>> /\ Goto("idle")
    BY <1>1, <1>2, RxFailDoes DEF HostDataDamaged
  <2> QED BY <2>1, <2>2, RestsDoes
<1>3. CASE HostDataLost
  <2>1. HostKept /\ host.phase = "data" /\ host'.phase = "answer"
    BY <1>1, <1>3, HostPhases DEF HostDataLost
  <2>2. UNCHANGED <<eps, bd, cel, sie>> /\ sie.pc \in Waiting \cup {"idle"}
    BY <1>1, <1>3, <2>1 DEF HostDataLost, transVars, BusOK
  <2> QED BY <2>1, <2>2, RestsDoes
<1>4. CASE AnswerLost
  <2>1. HostKept /\ host'.phase = "ready"
    BY <1>1, <1>4, HostPhases DEF AnswerLost
  <2>2. UNCHANGED <<eps, bd, cel>> /\ Goto("idle")
    BY <1>4 DEF AnswerLost, TxHandshake
  <2> QED BY <2>1, <2>2, RestsDoes
<1>5. CASE Silence
  <2>1. HostKept /\ host'.phase = "ready"
    BY <1>1, <1>5, HostPhases DEF Silence
  <2>2. UNCHANGED <<eps, bd, cel, sie>> /\ sie.pc \in Waiting \cup {"idle"}
    BY <1>5 DEF Silence, transVars
  <2> QED BY <2>1, <2>2, RestsDoes
<1>6. CASE DeviceDataLost
  <2>1. HostKept /\ host'.phase = "ready"
    BY <1>1, <1>6, HostPhases DEF DeviceDataLost
  <2>2. UNCHANGED <<eps, bd, cel>> /\ sie.pc = "tx_data" /\ Goto("wait_ack")
    BY <1>6 DEF DeviceDataLost, TxData
  <2> QED BY <2>1, <2>2, RestsDoes
<1>7. CASE HostAckDamaged
  <2>1. HostKept /\ host'.phase = "ready"
    BY <1>1, <1>7, HostPhases DEF HostAckDamaged
  <2>2. UNCHANGED <<eps, bd, cel>> /\ Goto("idle")
    BY <1>7 DEF HostAckDamaged, RxNoAck
  <2> QED BY <2>1, <2>2, RestsDoes
<1>8. CASE HostAckLost
  <2>1. HostKept /\ host.phase = "ack" /\ host'.phase = "ready"
    BY <1>1, <1>8, HostPhases DEF HostAckLost
  <2>2. UNCHANGED <<eps, bd, cel, sie>> /\ sie.pc \in Waiting \cup {"idle"}
    BY <1>1, <1>8, <2>1 DEF HostAckLost, transVars, BusOK, Waiting
  <2> QED BY <2>1, <2>2, RestsDoes
<1>9. CASE Sof
  <2>1. HostKept /\ host'.phase = "ready"
    BY <1>9 DEF Sof, HostKept
  <2>2. UNCHANGED <<eps, bd, cel>> /\ Goto("idle")
    BY <1>1, <1>9, RxFailDoes DEF Sof
  <2> QED BY <2>1, <2>2, RestsDoes
<1> QED BY <1>2, <1>3, <1>4, <1>5, <1>6, <1>7, <1>8, <1>9

\* A new transfer.
LEMMA StartDoes ==
  ASSUME HostTypeOK, NEW r \in Request, Start(r)
  PROVE  /\ host.phase = "ready" /\ r.id = host.req.id + 1
         /\ host'.stage = "setup" /\ host'.phase = "ready" /\ host'.req = r
         /\ host'.dt = 0 /\ host'.ofs = 0 /\ host'.got = <<>>
         /\ host'.finished = host.finished
  BY DEF HostTypeOK, Host, Start

\* The host gets an ACK.
LEMMA AckDoes ==
  ASSUME HostTypeOK, host.stage \in {"setup", "data_out", "status_out"}, host' = GetAck
  PROVE  /\ host'.phase = "ready" /\ host'.req = host.req /\ host'.got = host.got
         /\ host.stage = "setup" =>
              /\ host'.stage = AfterSetup(host.req) /\ host'.dt = 1
              /\ host'.ofs = host.ofs /\ host'.finished = host.finished
         /\ host.stage = "data_out" =>
              /\ host'.finished = host.finished
              /\ host.ofs + SendLen = host.req.len =>
                   host'.stage = "status_in" /\ host'.dt = 1 /\ host'.ofs = host.ofs
              /\ host.ofs + SendLen # host.req.len =>
                   /\ host'.stage = "data_out" /\ host'.dt = 1 - host.dt
                   /\ host'.ofs = host.ofs + SendLen
         /\ host.stage = "status_out" =>
              /\ host'.stage = "idle" /\ host'.finished = host.finished \cup {host.req.id}
              /\ host'.ofs = host.ofs
<1> DEFINE t == 1 - host.dt
           h == [host EXCEPT !.phase = "ready", !.dt = t]
           s == AfterSetup(host.req)
           n == host.ofs + SendLen
           f == host.finished \cup {host.req.id}
<1>1. /\ h.stage = host.stage /\ h.phase = "ready" /\ h.req = host.req /\ h.dt = t
      /\ h.ofs = host.ofs /\ h.got = host.got /\ h.finished = host.finished
      /\ DOMAIN h = DOMAIN host
      /\ DOMAIN host = {"stage", "phase", "req", "dt", "ofs", "got", "finished"}
  <2> HIDE DEF t
  <2> QED BY DEF HostTypeOK, Host
<1>2. CASE host.stage = "setup"
  <2>1. host' = [h EXCEPT !.stage = s, !.dt = 1]
    BY <1>1, <1>2 DEF GetAck
  <2> HIDE DEF h, s
  <2>2. host'.stage = s /\ host'.dt = 1 /\ host'.phase = h.phase /\ host'.req = h.req
        /\ host'.got = h.got /\ host'.ofs = h.ofs /\ host'.finished = h.finished
    BY <1>1, <2>1
  <2> QED BY <1>1, <1>2, <2>2 DEF s
<1>3. CASE host.stage = "data_out" /\ host.ofs + SendLen = host.req.len
  <2>1. host' = [h EXCEPT !.stage = "status_in", !.dt = 1]
    BY <1>3 DEF GetAck
  <2> HIDE DEF h
  <2>2. host'.stage = "status_in" /\ host'.dt = 1 /\ host'.phase = h.phase /\ host'.req = h.req
        /\ host'.got = h.got /\ host'.ofs = h.ofs /\ host'.finished = h.finished
    BY <1>1, <2>1
  <2> QED BY <1>1, <1>3, <2>2
<1>4. CASE host.stage = "data_out" /\ host.ofs + SendLen # host.req.len
  <2>1. host' = [h EXCEPT !.ofs = @ + SendLen]
    BY <1>4 DEF GetAck
  <2>2. host' = [h EXCEPT !.ofs = n]
    BY <1>1, <2>1
  <2> HIDE DEF h, n
  <2>3. host'.stage = h.stage /\ host'.dt = h.dt /\ host'.phase = h.phase /\ host'.req = h.req
        /\ host'.got = h.got /\ host'.ofs = n /\ host'.finished = h.finished
    BY <1>1, <2>2
  <2> QED BY <1>1, <1>4, <2>3 DEF n
<1>5. CASE host.stage = "status_out"
  <2>1. host' = Finish(h)
    BY <1>5 DEF GetAck
  <2>2. host' = [h EXCEPT !.stage = "idle", !.phase = "ready", !.finished = f]
    BY <1>1, <2>1 DEF Finish
  <2> HIDE DEF h, f
  <2>3. host'.stage = "idle" /\ host'.dt = h.dt /\ host'.phase = "ready" /\ host'.req = h.req
        /\ host'.got = h.got /\ host'.ofs = h.ofs /\ host'.finished = f
    BY <1>1, <2>2
  <2> QED BY <1>1, <1>5, <2>3 DEF f
<1> QED BY <1>2, <1>3, <1>4, <1>5

\* The host gets data.
LEMMA DataDoes ==
  ASSUME HostTypeOK, NEW dt, NEW p, GetData(dt, p),
         host.stage \in {"data_in", "status_in"}
  PROVE  /\ host.phase = "answer" /\ host'.phase = "ack" /\ host'.req = host.req
         /\ host'.ofs = host.ofs
         /\ dt # host.dt =>
              /\ host'.stage = host.stage /\ host'.dt = host.dt /\ host'.got = host.got
              /\ host'.finished = host.finished
         /\ dt = host.dt /\ host.stage = "status_in" =>
              /\ host'.stage = "idle" /\ host'.got = host.got
              /\ host'.finished = host.finished \cup {host.req.id}
         /\ dt = host.dt /\ host.stage = "data_in" =>
              /\ host'.got = host.got \o p /\ host'.finished = host.finished
              /\ IF Len(p) < PktLen \/ Len(host.got) + Len(p) >= host.req.len
                   THEN host'.stage = "status_out" /\ host'.dt = 1
                   ELSE host'.stage = "data_in" /\ host'.dt = 1 - host.dt
<1> DEFINE h == [host EXCEPT !.phase = "ack"]
           f == host.finished \cup {host.req.id}
           g == host.got \o p
           t == 1 - host.dt
           full == Len(p) < PktLen \/ Len(host.got) + Len(p) >= host.req.len
<1>1. /\ h.stage = host.stage /\ h.phase = "ack" /\ h.req = host.req /\ h.dt = host.dt
      /\ h.ofs = host.ofs /\ h.got = host.got /\ h.finished = host.finished
      /\ DOMAIN h = DOMAIN host
      /\ DOMAIN host = {"stage", "phase", "req", "dt", "ofs", "got", "finished"}
  BY DEF HostTypeOK, Host
<1>2. host.phase = "answer"
  BY DEF GetData
<1>3. CASE dt # host.dt
  <2>1. host' = h
    BY <1>3 DEF GetData
  <2> QED BY <1>1, <1>2, <1>3, <2>1
<1>4. CASE dt = host.dt /\ host.stage = "status_in"
  <2>1. host' = [Finish(h) EXCEPT !.phase = "ack"]
    BY <1>4 DEF GetData
  <2> DEFINE k == Finish(h)
  <2>2. k = [h EXCEPT !.stage = "idle", !.phase = "ready", !.finished = f]
    BY <1>1 DEF Finish
  <2> HIDE DEF h, f
  <2>3. /\ k.stage = "idle" /\ k.req = h.req /\ k.ofs = h.ofs /\ k.got = h.got
        /\ k.finished = f /\ DOMAIN k = DOMAIN host
    BY <1>1, <2>2
  <2>4. host' = [k EXCEPT !.phase = "ack"]
    BY <2>1
  <2> HIDE DEF k
  <2>5. /\ host'.stage = k.stage /\ host'.req = k.req /\ host'.ofs = k.ofs
        /\ host'.got = k.got /\ host'.finished = k.finished /\ host'.phase = "ack"
    BY <1>1, <2>3, <2>4
  <2> QED BY <1>1, <1>2, <1>4, <2>3, <2>5 DEF f
<1>5. CASE dt = host.dt /\ host.stage = "data_in" /\ full
  <2>1. host' = [h EXCEPT !.stage = "status_out", !.dt = 1, !.got = g]
    BY <1>1, <1>5 DEF GetData
  <2>2. full
    BY <1>5
  <2> HIDE DEF h, g, full
  <2>3. /\ host'.stage = "status_out" /\ host'.req = h.req /\ host'.ofs = h.ofs
        /\ host'.got = g /\ host'.finished = h.finished /\ host'.phase = h.phase
        /\ host'.dt = 1
    BY <1>1, <2>1
  <2> QED BY <1>1, <1>2, <1>5, <2>2, <2>3 DEF g, full
<1>6. CASE dt = host.dt /\ host.stage = "data_in" /\ ~full
  <2>1. host' = [h EXCEPT !.dt = 1 - @, !.got = @ \o p]
    BY <1>1, <1>6 DEF GetData
  <2>2. host' = [h EXCEPT !.dt = t, !.got = g] /\ ~full
    BY <1>1, <1>6, <2>1
  <2> HIDE DEF h, g, t, full
  <2>3. /\ host'.stage = h.stage /\ host'.req = h.req /\ host'.ofs = h.ofs
        /\ host'.got = g /\ host'.finished = h.finished /\ host'.phase = h.phase
        /\ host'.dt = t
    BY <1>1, <2>2
  <2> QED BY <1>1, <1>2, <1>6, <2>2, <2>3 DEF g, t, full
<1> QED BY <1>3, <1>4, <1>5, <1>6

\* The host ends a transfer that was refused.
LEMMA StallDoes ==
  ASSUME HostTypeOK, host' = [host EXCEPT !.stage = "idle", !.phase = "ready"]
  PROVE  /\ host'.stage = "idle" /\ host'.phase = "ready" /\ host'.req = host.req
         /\ host'.dt = host.dt /\ host'.ofs = host.ofs /\ host'.got = host.got
         /\ host'.finished = host.finished
  BY DEF HostTypeOK, Host

\* While the core answers from the descriptors of the data and status stages, no
\* SETUP packet waits to be read.
LEMMA NoneUnhandled ==
  ASSUME IndInv, ~cel
  PROVE  ~Unhandled /\ pc # "handle" /\ (InSetup => pc \in Unread \cup {"setup_queue"})
<1>1. /\ bd[SetupBd].state = "done_ok" => cel \/ pc = "setup_queue"
      /\ pc \notin Unread \cup {"setup_queue"} /\ InSetup => cel
      /\ pc \in Handling \cup {"release", "setup_queue"} => InSetup
  BY DEF IndInv, LockoutOK
<1>2. ~Unhandled
  BY <1>1 DEF Unhandled, SetupSt, ReadPlaces
<1>3. pc # "handle"
  BY <1>1 DEF Handling, Unread
<1> QED BY <1>1, <1>2, <1>3

\* The status packet of a read without data, or of a write, has the toggle the host
\* expects.
LEMMA StatusToggle ==
  ASSUME Regs, BegunOK, ~cel, host.stage = "status_in", InB.state = "rdy_data"
  PROVE  host.dt = InDt
<1>1. ~Unhandled /\ pc # "handle"
  BY NoneUnhandled DEF Regs
<1>2. Going /\ HStage = "status_in" /\ HDt = host.dt
  BY <1>1 DEF BegunOK, Begun, HStage, HDt
<1>3. ctrl.state \in CtrlState /\ ctrl.state # "STALL"
  BY DEF Regs, IndInv, TypeOK, FwTypeOK, Ctrl, DescriptorsOK, FirmwareOK, StagesOK, InB
<1>4. CASE Sends
  BY <1>2, <1>4 DEF Going, ReadGoing
<1>5. CASE Takes
  BY <1>2, <1>5 DEF Going, WriteGoing
<1>6. CASE ctrl.state = "IDLE"
  BY <1>1, <1>2, <1>6 DEF Going
<1> QED BY <1>1, <1>3, <1>4, <1>5, <1>6 DEF Sends, Takes, CtrlState

\* The steps in which the host starts a transfer or gets an answer.
LEMMA HostActs ==
  ASSUME Regs, BegunOK, NewTransfer \/ StallByBd \/ Answer \/ DeviceData \/ HostAck
  PROVE  StatusOK' /\ BusOK' /\ BusCases
<1>1. /\ TransTypeOK /\ SieOK /\ StatusOK /\ BusOK /\ HostTypeOK /\ HostOK /\ FetchOK
      /\ IndInv /\ sie \in Sie
  BY RegsFacts DEF Regs, DescriptorsOK
<1>2. CASE NewTransfer
  <2>1. PICK r \in Request : Start(r)
    BY <1>2 DEF NewTransfer
  <2>2. UNCHANGED <<eps, bd, buf, cel, sie>>
    BY <1>2 DEF NewTransfer, transVars
  <2>3. /\ host.phase = "ready" /\ host'.stage = "setup" /\ host'.phase = "ready"
        /\ host'.ofs = 0 /\ host'.got = <<>>
    BY <1>1, <2>1, StartDoes
  <2>4. RegsKept
    BY <2>2, RegsSame
  <2>5. StatusOK'
    BY <1>1, <2>2 DEF StatusOK
  <2>6. BusOK'
    BY <1>1, <2>2, <2>3, <2>4 DEF BusOK, RegsKept, Waiting
  <2>7. Begins
    BY <2>1, <2>2, <2>3, <2>4 DEF Begins
  <2> QED BY <2>5, <2>6, <2>7 DEF BusCases
<1>3. CASE StallByBd
  <2>1. StallBd /\ UNCHANGED host /\ sie.pc = "stall_bd" /\ UNCHANGED <<buf, cel>>
    BY <1>3 DEF StallByBd, StallBd
  <2>2. /\ sie.d = "in" /\ SieBd = InBd /\ ~cel /\ InB = sie.bd /\ InB.state = "rdy_stall"
        /\ host.stage \in {"data_in", "status_in"}
    BY <1>1, <2>1 DEF SieOK, SieBd, InBd, FetchOK, InB, StatusOK, BusOK
  <2>3. host.phase = "answer"
    BY <1>1, <2>1 DEF HostTypeOK, Host, Phase, BusOK, Waiting
  <2> DEFINE flip == FALSE
  <2>4. WriteBack("done_ok", flip, 0) /\ flip = FALSE /\ flip \in BOOLEAN /\ Goto("tx_stall")
    BY <2>1 DEF StallBd
  <2> HIDE DEF flip
  <2>5. /\ ~eps'[<<0, "out">>].halt /\ ~eps'[<<0, "in">>].halt
        /\ InDt' = sie.st.dt /\ OutDt' = OutDt /\ OutB' = OutB
        /\ InB'.state = "done_ok" /\ SetupSt' = SetupSt
    BY <1>1, <2>1, <2>2, <2>4, WriteBackDoes
  <2>6. InDt' = InDt
    BY <1>1, <2>1, <2>5 DEF StatusOK, InDt
  <2>7. sie'.pc = "tx_stall" /\ StatusOK'
    BY <1>1, <2>1, <2>4, <2>5, GotoFields, StatusKept
  <2>8. BusOK'
    BY <1>1, <2>1, <2>2, <2>3, <2>6, <2>7 DEF BusOK
  <2>9. StallsIn
    BY <2>1, <2>2, <2>3, <2>5, <2>6, <2>7 DEF StallsIn, HostKept
  <2> QED BY <2>7, <2>8, <2>9 DEF BusCases
<1>4. CASE Answer
  <2>1. /\ UNCHANGED <<eps, bd, buf, cel>> /\ Goto("idle")
        /\ sie.pc \in {"tx_ack", "tx_nak", "tx_stall"}
        /\ GetHandshake(Handshake[sie.pc])
    BY <1>4 DEF Answer, TxHandshake, Handshake
  <2>2. RegsKept /\ ~eps'[<<0, "out">>].halt /\ ~eps'[<<0, "in">>].halt
    BY <1>1, <2>1, RegsSame
  <2>3. sie'.pc = "idle" /\ StatusOK'
    BY <1>1, <2>1, <2>2, GotoFields, StatusKept
  <2>4. CASE sie.pc = "tx_ack"
    <3>1. GetHandshake("ACK")
      BY <2>1, <2>4 DEF Handshake
    <3>2. host.phase = "answer" /\ host' = GetAck
      BY <3>1 DEF GetHandshake
    <3>3. host.stage \in {"setup", "data_out", "status_out"}
      BY <1>1, <2>4 DEF BusOK
    <3>4. host'.phase = "ready" /\ host'.stage \in {"status_in", "data_in", "data_out", "idle"}
      BY <1>1, <3>2, <3>3, AckDoes DEF AfterSetup
    <3>5. BusOK'
      BY <2>3, <3>4 DEF BusOK
    <3>6. Acks
      BY <2>1, <2>2, <2>3, <2>4, <3>2 DEF Acks
    <3> QED BY <2>3, <3>5, <3>6 DEF BusCases
  <2>5. CASE sie.pc = "tx_stall"
    <3>1. GetHandshake("STALL")
      BY <2>1, <2>5 DEF Handshake
    <3>2. host.phase = "answer" /\ host' = [host EXCEPT !.stage = "idle", !.phase = "ready"]
      BY <3>1 DEF GetHandshake
    <3>3. host'.phase = "ready" /\ host'.stage = "idle"
      BY <1>1, <3>2, StallDoes
    <3>4. BusOK'
      BY <2>3, <3>3 DEF BusOK
    <3>5. Stalls
      BY <2>1, <2>2, <2>3, <2>5, <3>2 DEF Stalls
    <3> QED BY <2>3, <3>4, <3>5 DEF BusCases
  <2>6. CASE sie.pc = "tx_nak"
    <3>1. GetHandshake("NAK")
      BY <2>1, <2>6 DEF Handshake
    <3>2. host' = [host EXCEPT !.phase = "ready"]
      BY <3>1 DEF GetHandshake
    <3>3. HostKept /\ host'.phase = "ready"
      BY <1>1, <3>2, PhaseOnly
    <3> QED BY <2>1, <3>3, RestsDoes
  <2> QED BY <2>1, <2>4, <2>5, <2>6
<1>5. CASE DeviceData
  <2>1. /\ sie.pc = "tx_data" /\ Goto("wait_ack") /\ UNCHANGED <<eps, bd, buf, cel>>
        /\ GetData(sie.st.dt, TxPayload)
    BY <1>5 DEF DeviceData, TxData
  <2>2. /\ SieBd = InBd /\ ~cel /\ InB = sie.bd /\ InB.state = "rdy_data"
        /\ host.stage \in {"data_in", "status_in"} /\ InDt = sie.st.dt
    BY <1>1, <2>1 DEF SieOK, SieBd, InBd, FetchOK, InB, StatusOK, BusOK, InDt
  <2>3. GetData(InDt, Prefix(InBuf, InB.len))
    BY <2>1, <2>2 DEF TxPayload, InBuf
  <2>4. RegsKept /\ ~eps'[<<0, "out">>].halt /\ ~eps'[<<0, "in">>].halt
    BY <1>1, <2>1, RegsSame
  <2>5. sie'.pc = "wait_ack" /\ StatusOK'
    BY <1>1, <2>1, <2>4, GotoFields, StatusKept
  <2>6. host.stage = "status_in" => InDt = host.dt
    BY <2>2, StatusToggle
  <2> DEFINE p == Prefix(InBuf, InB.len)
  <2>7. /\ host.phase = "answer" /\ host'.phase = "ack"
        /\ host'.stage \in {"data_in", "status_out", "idle"}
        /\ host'.stage = "data_in" => host'.dt # InDt
    <3>1. InDt \in {0, 1}
      BY RegsFacts
    <3> HIDE DEF p
    <3>2. /\ host.phase = "answer" /\ host'.phase = "ack"
          /\ InDt # host.dt => host'.stage = host.stage /\ host'.dt = host.dt
          /\ InDt = host.dt /\ host.stage = "status_in" => host'.stage = "idle"
          /\ InDt = host.dt /\ host.stage = "data_in" =>
               \/ host'.stage = "status_out" /\ host'.dt = 1
               \/ host'.stage = "data_in" /\ host'.dt = 1 - host.dt
      BY <1>1, <2>2, <2>3, DataDoes DEF p
    <3> QED BY <2>2, <2>6, <3>1, <3>2
  <2>8. BusOK'
    BY <2>4, <2>5, <2>7 DEF BusOK, RegsKept
  <2>9. SendsIn
    BY <2>1, <2>2, <2>3, <2>4, <2>5, <2>7 DEF SendsIn
  <2> QED BY <2>5, <2>8, <2>9 DEF BusCases
<1>6. CASE HostAck
  <2>1. RxAck /\ AckSent /\ sie.pc = "wait_ack" /\ UNCHANGED <<buf, cel>>
    BY <1>6 DEF HostAck, RxAck
  <2>2. sie.d = "in" /\ SieBd = InBd /\ ~cel /\ InB = sie.bd /\ InB.state = "rdy_data"
    BY <1>1, <2>1 DEF SieOK, SieBd, InBd, FetchOK, InB, StatusOK
  <2>3. HostKept /\ host.phase = "ack" /\ host'.phase = "ready"
    BY <1>1, <2>1, HostPhases
  <2> DEFINE flip == TRUE
  <2>4. WriteBack("done_ok", flip, 0) /\ flip = TRUE /\ flip \in BOOLEAN /\ Goto("idle")
    BY <2>1 DEF RxAck
  <2> HIDE DEF flip
  <2>5. /\ ~eps'[<<0, "out">>].halt /\ ~eps'[<<0, "in">>].halt
        /\ InDt' = 1 - sie.st.dt /\ OutDt' = OutDt /\ OutB' = OutB
        /\ InB'.state = "done_ok" /\ SetupSt' = SetupSt
    BY <1>1, <2>1, <2>2, <2>4, WriteBackDoes
  <2>6. InDt' = 1 - InDt
    BY <1>1, <2>1, <2>5 DEF StatusOK, InDt
  <2>7. sie'.pc = "idle" /\ StatusOK'
    BY <1>1, <2>1, <2>4, <2>5, GotoFields, StatusKept
  <2>8. BusOK'
    BY <1>1, <2>1, <2>3, <2>7 DEF BusOK, HostKept
  <2>9. SentIn
    BY <2>1, <2>2, <2>3, <2>5, <2>6, <2>7 DEF SentIn
  <2> QED BY <2>7, <2>8, <2>9 DEF BusCases
<1> QED BY <1>2, <1>3, <1>4, <1>5, <1>6

\* Every step of the host and of the core.
LEMMA BusDoes ==
  ASSUME MaxOther = 0, IgnoreRxErr, Regs, BegunOK, BusStep, ~SetupMissed
  PROVE  StatusOK' /\ BusOK' /\ BusCases /\ BuffersKept /\ UNCHANGED fwVars
<1>1. BuffersKept /\ UNCHANGED fwVars
  BY BusBuffers, BusSteps DEF Regs
<1>2. ~OtherTokens /\ ~OtherData
  <2>1. ~(others < MaxOther)
    BY MaxOtherAssumption DEF Regs, IndInv, TypeOK
  <2>2. host.phase # "other"
    BY DEF Regs, BusOK
  <2> QED BY <2>1, <2>2 DEF OtherTokens, OtherData, OtherDataSent
<1>3. CASE \/ NewTransfer \/ StallByBd \/ Answer \/ DeviceData \/ HostAck
  BY <1>1, <1>3, HostActs
<1>4. CASE SetupOrOutToken \/ InToken \/ TokenLost
  BY <1>1, <1>4, TokensDo
<1>5. CASE \/ HostDataDamaged \/ HostDataLost \/ AnswerLost \/ Silence
           \/ DeviceDataLost \/ HostAckDamaged \/ HostAckLost \/ Sof
  BY <1>1, <1>5, QuietDoes
<1>6. CASE HostData
  BY <1>1, <1>6, HostDataDoes
<1> QED BY <1>2, <1>3, <1>4, <1>5, <1>6 DEF BusStep, Transaction, Loss

-----------------------------------------------------------------------------
(* The steps of the host and of the core.                                  *)

BusMove == XferInv /\ BusCases /\ BuffersKept /\ UNCHANGED fwVars

\* What a step of the bus leaves alone, and when a SETUP packet comes to wait for
\* the firmware.
LEMMA BusFacts ==
  ASSUME BusMove
  PROVE  /\ UNCHANGED <<pc, seen, ctrl, done>> /\ InSetup' = InSetup
         /\ IndInv /\ StatusOK /\ BusOK /\ HostTypeOK /\ HostOK /\ StagesOK
         /\ TakesSetup => ~Unhandled /\ Unhandled'
         /\ ~TakesSetup => /\ SetupSt' = SetupSt /\ (Unhandled' <=> Unhandled)
                           /\ Unhandled => Pending' = Pending
         /\ ~cel => ~Unhandled /\ pc # "handle" /\ ~First
<1>1. /\ UNCHANGED <<pc, seen, ctrl, done>> /\ InSetup' = InSetup
      /\ IndInv /\ StatusOK /\ BusOK /\ HostTypeOK /\ HostOK /\ StagesOK
  BY RegsFacts DEF BusMove, fwVars, InSetup, XferInv, Regs, DescriptorsOK, FirmwareOK
<1>2. ~cel => ~Unhandled /\ pc # "handle" /\ ~First
  BY <1>1, NoneUnhandled DEF First, Unread
<1>3. TakesSetup => ~Unhandled /\ Unhandled'
  <2> SUFFICES ASSUME TakesSetup PROVE ~Unhandled /\ Unhandled'
    OBVIOUS
  <2>1. ~Unhandled /\ (InSetup => pc \in Unread \cup {"setup_queue"})
    BY <1>1, NoneUnhandled DEF TakesSetup
  <2>2. InSetup /\ pc \notin Unread => SetupSt = "done_ok"
    BY DEF BusMove, XferInv, SeenSetupOK
  <2>3. SetupSt # "done_ok" /\ SetupSt' = "done_ok"
    BY DEF TakesSetup
  <2>4. ~(InSetup' /\ pc' \in ReadPlaces)
    BY <1>1, <2>1, <2>2, <2>3 DEF Unread, ReadPlaces
  <2> QED BY <2>1, <2>3, <2>4 DEF Unhandled
<1>4. ~TakesSetup => /\ SetupSt' = SetupSt /\ (Unhandled' <=> Unhandled)
                     /\ Unhandled => Pending' = Pending
  <2> SUFFICES ASSUME ~TakesSetup
               PROVE  /\ SetupSt' = SetupSt /\ (Unhandled' <=> Unhandled)
                      /\ Unhandled => Pending' = Pending
    OBVIOUS
  <2>1. SetupSt' = SetupSt
    BY DEF BusMove, BusCases, TakesOut, StallsOut, StallsIn, SentIn, SendsIn, Acks, Stalls,
           Begins, Passes, RegsKept
  <2>2. SetupSt = "done_ok" => Pending' = Pending
    BY DEF BusMove, BuffersKept
  <2> QED BY <1>1, <2>1, <2>2 DEF Unhandled
<1> QED BY <1>1, <1>2, <1>3, <1>4

\* The descriptors of the data and status stages in a step of the bus.
LEMMA BusDescriptors ==
  ASSUME BusMove
  PROVE  /\ OutB' = OutB \/ TakesOut \/ StallsOut
         /\ InB' = InB \/ StallsIn \/ SentIn
         /\ InDt' = InDt \/ SentIn
         /\ OutDt' = OutDt \/ TakesSetup \/ TakesOut
  BY DEF BusMove, BusCases, TakesSetup, TakesOut, StallsOut, StallsIn, SentIn, SendsIn,
         Acks, Stalls, Begins, Passes, RegsKept

\* The host's transfer in a step of the bus.
LEMMA BusHost ==
  ASSUME BusMove
  PROVE  HostKept \/ SendsIn \/ Acks \/ Stalls \/ Begins
  BY DEF BusMove, BusCases, TakesSetup, TakesOut, StallsOut, StallsIn, SentIn, Passes

\* SETUP packets and the lockout, in a step of the bus.
LEMMA BusSeenSetup == BusMove => SeenSetupOK'
<1> SUFFICES ASSUME BusMove PROVE SeenSetupOK'
  OBVIOUS
<1>1. SeenSetupOK
  BY DEF BusMove, XferInv
<1> QED BY <1>1, BusFacts DEF SeenSetupOK, TakesSetup

\* The host's request, stage and finished transfers.
LEMMA BusStages ==
  ASSUME BusMove
  PROVE  /\ host.req.id \in Nat
         /\ host.finished \subseteq host'.finished
         /\ \/ /\ host'.stage = "setup" /\ host'.req.id = host.req.id + 1
               /\ host'.finished = host.finished
            \/ /\ host'.req = host.req
               /\ host'.stage = host.stage \/ host.stage \notin {"idle"}
               /\ host'.stage = "setup" => host.stage = "setup"
               /\ host.stage \in {"status_out", "idle"} => host'.stage \in {"status_out", "idle"}
               /\ \/ host'.finished = host.finished
                  \/ /\ host'.finished = host.finished \cup {host.req.id}
                     /\ host'.stage = "idle"
               /\ host.stage = "idle" => host'.stage = "idle" /\ host'.finished = host.finished
<1>1. HostTypeOK /\ host.req \in Request /\ host.req.id \in Nat /\ BusOK
  <2>1. HostTypeOK /\ BusOK
    BY BusFacts
  <2> QED BY <2>1, RequestFields DEF HostTypeOK, Host
<1>2. CASE HostKept
  BY <1>1, <1>2 DEF HostKept
<1>3. CASE SendsIn
  <2>1. host.stage \in {"data_in", "status_in"} /\ GetData(InDt, Prefix(InBuf, InB.len))
    BY <1>3 DEF SendsIn
  <2> DEFINE p == Prefix(InBuf, InB.len)
  <2>2. GetData(InDt, p)
    BY <2>1
  <2> HIDE DEF p
  <2>3. /\ host'.req = host.req
        /\ InDt # host.dt => host'.stage = host.stage /\ host'.finished = host.finished
        /\ InDt = host.dt /\ host.stage = "status_in" =>
             host'.stage = "idle" /\ host'.finished = host.finished \cup {host.req.id}
        /\ InDt = host.dt /\ host.stage = "data_in" =>
             host'.stage \in {"data_in", "status_out"} /\ host'.finished = host.finished
    BY <1>1, <2>1, <2>2, DataDoes
  <2> QED BY <1>1, <2>1, <2>3
<1>4. CASE Acks
  <2>1. host.stage \in {"setup", "data_out", "status_out"} /\ host' = GetAck
    BY <1>1, <1>4 DEF Acks, BusOK
  <2> QED BY <1>1, <2>1, AckDoes DEF AfterSetup
<1>5. CASE Stalls
  <2>1. host.stage # "idle"
    BY <1>1, <1>5 DEF Stalls, BusOK
  <2> QED BY <1>1, <1>5, <2>1, StallDoes DEF Stalls
<1>6. CASE Begins
  BY <1>1, <1>6, StartDoes DEF Begins
<1> QED BY <1>2, <1>3, <1>4, <1>5, <1>6, BusHost

\* The numbers of the requests, in a step of the bus.
LEMMA BusNumbers == BusMove => NumbersOK'
<1> SUFFICES ASSUME BusMove PROVE NumbersOK'
  OBVIOUS
<1>1. NumbersOK /\ ctrl' = ctrl /\ pc' = pc /\ done' = done
  BY BusFacts DEF BusMove, XferInv
<1>2. ctrl.req \in Request /\ ctrl.req.id \in Nat /\ done \subseteq Nat
  <2>1. ctrl.req \in Request /\ done \subseteq Nat
    BY BusFacts DEF IndInv, TypeOK, FwTypeOK, Ctrl
  <2> QED BY <2>1, RequestFields
<1>3. \A r : r.id \in Nat /\ Numbered(r) => Numbered(r)'
  BY BusStages DEF Numbered
<1>4. Numbered(ctrl.req)'
  BY <1>1, <1>2, <1>3 DEF NumbersOK, Numbered
<1>5. Unhandled' => Numbered(Pending)' /\ Pending'.id \notin done'
  <2>1. CASE TakesSetup
    <3>1. Pending' = host.req /\ host'.req = host.req /\ host.stage = "setup"
      BY <2>1 DEF TakesSetup, HostKept
    <3>2. Numbered(Pending)'
      BY <3>1, BusStages DEF Numbered
    <3>3. host.req.id \notin done
      BY <1>1, <3>1 DEF NumbersOK
    <3> QED BY <1>1, <3>1, <3>2, <3>3
  <2>2. CASE ~TakesSetup /\ Unhandled
    <3>1. Pending \in Request /\ Pending.id \in Nat
      <4>1. buf[SetupBd] \in Seq(Unit)
        BY BusFacts, Descriptors DEF IndInv, TypeOK, TransTypeOK
      <4> QED BY <4>1, RequestInType, RequestFields DEF Pending
    <3>2. Pending' = Pending
      BY <2>2, BusFacts
    <3>3. Numbered(Pending) /\ Pending.id \notin done
      BY <1>1, <2>2 DEF NumbersOK
    <3>4. Numbered(Pending)'
      BY <3>1, <3>2, <3>3, BusStages DEF Numbered
    <3> QED BY <1>1, <3>2, <3>3, <3>4
  <2> QED BY <2>1, <2>2, BusFacts
<1>6. \A i \in done' : i <= host'.req.id
                       /\ (i = host'.req.id => host'.stage \in {"status_out", "idle"})
  BY <1>1, <1>2, BusStages DEF NumbersOK
<1>7. \A i \in host'.finished : i <= host'.req.id /\ (i = host'.req.id => host'.stage = "idle")
  <2>1. host.finished \subseteq Nat
    BY BusFacts DEF HostTypeOK, Host
  <2> QED BY <1>1, <2>1, BusStages DEF NumbersOK
<1>8. /\ ctrl'.req.id \in done' => ctrl'.state = "IDLE" /\ pc' \notin {"handle", "cb_done"}
      /\ pc' = "cb_done" => ctrl'.state = "IDLE"
  BY <1>1 DEF NumbersOK
<1> QED BY <1>4, <1>5, <1>6, <1>7, <1>8 DEF NumbersOK

\* A SETUP packet sent again, in a step of the bus.
LEMMA BusFresh == BusMove => FreshOK'
<1> SUFFICES ASSUME BusMove PROVE FreshOK'
  OBVIOUS
<1>1. /\ FreshOK /\ NumbersOK /\ BusOK /\ ctrl' = ctrl /\ pc' = pc
      /\ ctrl.req.id <= host.req.id /\ (ctrl.req.id = host.req.id => ctrl.req = host.req)
      /\ ctrl.req.id \in Nat
  <2>1. ctrl.req \in Request
    BY BusFacts DEF IndInv, TypeOK, FwTypeOK, Ctrl
  <2> QED BY <2>1, BusFacts, RequestFields DEF BusMove, XferInv, NumbersOK, Numbered
<1>2. CASE TakesOut \/ StallsOut \/ StallsIn \/ SentIn
  <2>1. ~cel /\ host'.stage = host.stage /\ host.stage # "setup" /\ ~TakesSetup
    BY <1>1, <1>2 DEF TakesOut, StallsOut, StallsIn, SentIn, BusOK, HostKept, TakesSetup
  <2>2. ~Unhandled'
    BY <2>1, BusFacts
  <2> QED BY <2>1, <2>2 DEF FreshOK
<1>3. CASE ~(TakesOut \/ StallsOut \/ StallsIn \/ SentIn)
  <2>1. Fresh => Fresh'
    BY <1>1, <1>3, BusDescriptors DEF Fresh
  <2>2. ctrl'.req = host'.req /\ host'.stage = "setup" => Fresh
    BY <1>1, BusStages DEF FreshOK
  <2>3. Unhandled' /\ Pending'.id = ctrl'.req.id => Fresh
    <3>1. CASE TakesSetup
      BY <1>1, <3>1 DEF TakesSetup, FreshOK
    <3>2. CASE ~TakesSetup
      BY <1>1, <3>2, BusFacts DEF FreshOK
    <3> QED BY <3>1, <3>2
  <2> QED BY <2>1, <2>2, <2>3 DEF FreshOK
<1> QED BY <1>2, <1>3

\* The descriptors the firmware is at, in a step of the bus.
LEMMA BusPlaces == BusMove => PlacesOK'
<1> SUFFICES ASSUME BusMove PROVE PlacesOK'
  OBVIOUS
<1>1. /\ PlacesOK /\ UNCHANGED <<pc, ctrl>> /\ InSetup' = InSetup
  BY BusFacts DEF BusMove, XferInv
<1>2. OutB' = OutB \/ (OutB.state \in Ready /\ OutB'.state = "done_ok")
  BY BusDescriptors DEF TakesOut, StallsOut, Ready
<1>3. InB' = InB \/ (InB.state \in Ready /\ InB'.state = "done_ok")
  BY BusDescriptors DEF StallsIn, SentIn, Ready
<1>4. pc \in {"setup_read", "handle"} => InDt' = InDt
  <2> SUFFICES ASSUME pc \in {"setup_read", "handle"} PROVE ~SentIn
    BY BusDescriptors
  <2>1. IndInv /\ pc \in Handling /\ pc \notin Unread \cup {"setup_queue"}
    BY BusFacts DEF Handling, Unread
  <2>2. cel
    BY <2>1 DEF IndInv, LockoutOK
  <2> QED BY <2>2 DEF SentIn
<1>5. "none" \notin Ready /\ "done_ok" \notin Ready
  BY DEF Ready
<1> QED BY <1>1, <1>2, <1>3, <1>4, <1>5 DEF PlacesOK

\* What is queued of a read, in a step of the bus: a packet that was sent stays
\* behind the offset.
LEMMA BusInData == BusMove => InDataOK'
<1> SUFFICES ASSUME BusMove PROVE InDataOK'
  OBVIOUS
<1>1. /\ InDataOK /\ UNCHANGED <<pc, ctrl>> /\ InSetup' = InSetup /\ InBuf' = InBuf
  BY BusFacts DEF BusMove, XferInv, BuffersKept
<1>2. InB' = InB \/ InB'.state = "done_ok"
  BY BusDescriptors DEF StallsIn, SentIn
<1>3. Queued' => Queued /\ InB' = InB
  BY <1>2 DEF Queued
<1>4. Sends' = Sends /\ First' = First /\ Chunk' = Chunk
  BY <1>1 DEF Sends, First, Chunk
<1> QED BY <1>1, <1>3, <1>4 DEF InDataOK

\* What the firmware knows of the transfer is the host's, for what the core does
\* without the lockout.
LEMMA BusGoing ==
  ASSUME BusMove, Begun, ~cel
  PROVE  /\ ctrl.req = host.req /\ Going /\ pc # "handle" /\ ~First
         /\ ctrl.state \in CtrlState
  BY BusFacts DEF BusMove, XferInv, BegunOK, IndInv, TypeOK, FwTypeOK, Ctrl

\* A packet that is taken into the OUT buffer is the next one of the write, or ends
\* a read.
LEMMA TakenPacket ==
  ASSUME BusMove, TakesOut
  PROVE  /\ Begun /\ HStage = host.stage /\ HDt = host.dt
         /\ ctrl.state # "STALL" /\ ctrl.state # "DATA_IN" /\ ctrl.state # "STATUS_DONE_IN"
         /\ Sends => ReadGoing /\ HStage = "status_out"
         /\ Takes => /\ ctrl.state = "DATA_OUT" /\ WriteGoing /\ host.stage = "data_out"
                     /\ pc # "out_clear" /\ Held = 0 /\ ctrl.ofs = host.ofs
                     /\ OutB'.len = SendLen + CrcLen /\ SendLen \in 0 .. PktLen
                     /\ host.ofs + SendLen <= host.req.len
                     /\ Prefix(OutBuf', SendLen) =
                          DataOf(host.req, host.ofs, host.ofs + SendLen)
<1>1. Begun /\ HStage = host.stage /\ HDt = host.dt /\ ~cel /\ OutB.state = "rdy_data"
      /\ host.stage \in {"data_out", "status_out"} /\ host.dt = OutDt
  BY DEF TakesOut, Begun, HStage, HDt
<1>2. /\ ctrl.req = host.req /\ Going /\ pc # "handle" /\ ctrl.state \in CtrlState
  BY <1>1, BusGoing
<1>3. ctrl.state # "STALL" /\ ctrl.state # "DATA_IN"
  BY <1>1, BusFacts DEF StagesOK, OutB
<1>4. Sends => ReadGoing /\ HStage = "status_out"
  BY <1>1, <1>2 DEF Going, ReadGoing
<1>5. ASSUME Takes
      PROVE  /\ WriteGoing /\ host.stage = "data_out" /\ pc # "out_clear" /\ Held = 0
             /\ ctrl.ofs = host.ofs /\ host.ofs < host.req.len
             /\ ctrl.state = "DATA_OUT"
  <2>1. WriteGoing /\ host.stage = "data_out"
    BY <1>1, <1>2, <1>5 DEF Going, WriteGoing
  <2>2. Held = 0
    BY <1>1 DEF Held
  <2>3. ctrl.ofs \in Nat /\ Recv = ctrl.ofs /\ Recv = host.ofs /\ host.ofs < host.req.len
    <3>1. ctrl.ofs \in Nat
      BY <1>5 DEF BusMove, XferInv, OutDataOK
    <3>2. Recv = host.ofs /\ host.ofs < host.req.len
      BY <1>1, <2>1 DEF WriteGoing
    <3> QED BY <2>2, <3>1, <3>2 DEF Recv
  <2>4. pc # "out_clear"
    BY <1>1 DEF BusMove, XferInv, PlacesOK
  <2>5. ctrl.state # "STATUS_DONE_IN"
    <3> SUFFICES ASSUME ctrl.state = "STATUS_DONE_IN" PROVE FALSE
      OBVIOUS
    <3>1. ctrl.ofs = ctrl.len /\ ctrl.len = ctrl.req.len
      BY <1>5 DEF BusMove, XferInv, OutDataOK
    <3>2. host.ofs = host.req.len
      BY <1>2, <2>3, <3>1
    <3>3. host.req.len \in Nat
      BY BusFacts, RequestFields, MaxLenAssumption DEF HostTypeOK, Host
    <3> QED BY <2>3, <3>2, <3>3
  <2>6. ctrl.state = "DATA_OUT"
    BY <1>5, <2>5 DEF Takes
  <2> QED BY <2>1, <2>2, <2>3, <2>4, <2>6
<1>6. ctrl.state # "STATUS_DONE_IN"
  BY <1>2, <1>5 DEF Takes
<1>7. ASSUME host.stage = "data_out"
      PROVE  /\ OutB'.len = SendLen + CrcLen /\ SendLen \in 0 .. PktLen
             /\ host.ofs + SendLen <= host.req.len
             /\ Prefix(OutBuf', SendLen) = DataOf(host.req, host.ofs, host.ofs + SendLen)
  <2>1. /\ host.req \in Request /\ host.req.len \in 0 .. MaxLen
        /\ SendLen \in Nat /\ host.ofs + SendLen <= host.req.len /\ host.ofs \in Nat
    BY BusFacts, RequestFields, SendLenFacts DEF HostTypeOK, Host
  <2>2. SendLen <= PktLen
    BY <2>1, MaxLenAssumption, PktLenAssumption DEF SendLen
  <2> DEFINE b == host.ofs + SendLen
  <2>3. HostPayload = DataOf(host.req, host.ofs, b)
    <3>1. b - host.ofs = SendLen
      BY <2>1
    <3> QED BY <1>7, <3>1 DEF HostPayload, DataOf
  <2>4. b \in 0 .. MaxLen /\ host.ofs <= b /\ b - host.ofs = SendLen
    BY <2>1, MaxLenAssumption
  <2> HIDE DEF b
  <2>5. Len(HostPayload) = SendLen
    BY <2>1, <2>3, <2>4, DataOfElements
  <2>6. OutB'.len = SendLen + CrcLen /\ Prefix(OutBuf', SendLen) = HostPayload
    <3>1. OutB = DataBd(PktLen)
      BY <1>1 DEF BusMove, XferInv, PlacesOK
    <3> QED BY <2>2, <2>5, <3>1 DEF TakesOut
  <2> QED BY <2>1, <2>2, <2>3, <2>6, PktLenAssumption DEF b
<1> QED BY <1>1, <1>3, <1>4, <1>5, <1>6, <1>7

\* What is received of a write, in a step of the bus: a packet that is taken adds to
\* what is held.
LEMMA BusOutData == BusMove => OutDataOK'
<1> SUFFICES ASSUME BusMove PROVE OutDataOK'
  OBVIOUS
<1>1. /\ OutDataOK /\ UNCHANGED <<pc, ctrl>> /\ InSetup' = InSetup /\ Takes' = Takes
  BY BusFacts DEF BusMove, XferInv, Takes
<1>2. CASE OutB' = OutB
  <2>1. Held' = Held /\ Recv' = Recv
    BY <1>1, <1>2 DEF Held, Recv
  <2>2. Held > 0 => OutBuf' = OutBuf
    <3>1. Held > 0 => OutB.state # "rdy_data"
      BY DEF Held
    <3> QED BY <3>1 DEF BusMove, BuffersKept
  <2> QED BY <1>1, <2>1, <2>2 DEF OutDataOK
<1>3. CASE TakesOut
  <2> SUFFICES ASSUME Takes PROVE OutDataOK'
    BY <1>1 DEF OutDataOK
  <2>1. /\ ctrl.state = "DATA_OUT" /\ ctrl.req = host.req /\ pc # "out_clear" /\ Held = 0
        /\ ctrl.ofs = host.ofs
        /\ OutB'.len = SendLen + CrcLen /\ SendLen \in 0 .. PktLen
        /\ host.ofs + SendLen <= host.req.len
        /\ Prefix(OutBuf', SendLen) = DataOf(host.req, host.ofs, host.ofs + SendLen)
    <3>1. ~cel /\ Begun
      BY <1>3, TakenPacket DEF TakesOut
    <3> QED BY <1>3, <3>1, BusGoing, TakenPacket
  <2>2. OutB'.state = "done_ok"
    BY <1>3 DEF TakesOut
  <2>3. Held' = SendLen
    <3>1. Held' = OutB'.len - CrcLen
      BY <1>1, <2>1, <2>2 DEF Held
    <3>2. SendLen \in Int /\ CrcLen \in Int
      BY <2>1, PktLenAssumption DEF CrcLen
    <3> QED BY <2>1, <3>1, <3>2
  <2>4. Recv' = host.ofs + SendLen
    BY <1>1, <2>1, <2>3 DEF Recv
  <2> QED BY <1>1, <2>1, <2>3, <2>4 DEF OutDataOK
<1>4. CASE StallsOut
  <2>1. ctrl.state = "STALL"
    BY <1>4 DEF StallsOut, BusMove, XferInv, PlacesOK
  <2> QED BY <1>1, <2>1 DEF Takes, OutDataOK
<1> QED BY <1>2, <1>3, <1>4, BusDescriptors

\* The host's side of the transfer is the same.
LEMMA SameStages ==
  ASSUME HostKept, host.stage # "setup"
  PROVE  /\ HStage' = HStage /\ HDt' = HDt /\ Got' = Got /\ SendLen' = SendLen
         /\ Begun' => Begun
         /\ OutDt' = OutDt => AtStart' = AtStart
<1>1. HStage' = HStage /\ HDt' = HDt /\ Got' = Got /\ SendLen' = SendLen /\ (Begun' => Begun)
  BY DEF HostKept, HStage, HDt, Got, SendLen, Begun
<1>2. OutDt' = OutDt => AtStart' = AtStart
  BY <1>1 DEF AtStart, HostKept
<1> QED BY <1>1, <1>2

\* What Going says, while nothing it is about changes.
LEMMA GoingKept ==
  ASSUME UNCHANGED <<pc, ctrl, InDt, OutDt, InB, OutB>>,
         host'.req = host.req, host'.ofs = host.ofs,
         HStage' = HStage, HDt' = HDt, Got' = Got, Going
  PROVE  Going' /\ AtStart' = AtStart
<1>1. Sends' = Sends /\ Takes' = Takes /\ Queued' = Queued /\ Recv' = Recv
      /\ SendLen' = SendLen
  BY DEF Sends, Takes, Queued, Recv, Held, SendLen
<1>2. AtStart' = AtStart /\ ReadGoing' = ReadGoing /\ WriteGoing' = WriteGoing
  BY <1>1 DEF AtStart, ReadGoing, WriteGoing
<1> QED BY <1>1, <1>2 DEF Going

\* Host and firmware stay in step: a packet is taken, sent or acknowledged.
LEMMA BusBegun == BusMove => BegunOK'
<1> SUFFICES ASSUME BusMove PROVE BegunOK'
  OBVIOUS
<1>1. /\ BegunOK /\ BusOK /\ StagesOK /\ UNCHANGED <<pc, ctrl>> /\ HostTypeOK
      /\ OutDt \in {0, 1} /\ InDt \in {0, 1} /\ host.dt \in {0, 1}
      /\ NumbersOK /\ PlacesOK /\ InDataOK /\ OutDataOK
  BY BusFacts, RegsFacts DEF BusMove, XferInv
<1>2. CASE TakesSetup
  <2>1. /\ host.stage = "setup" /\ host'.stage = "setup" /\ host'.req = host.req
        /\ host'.ofs = 0 /\ host'.got = <<>> /\ sie'.pc = "tx_ack"
        /\ Pending' = host.req /\ OutDt' = 1
    BY <1>1, <1>2 DEF TakesSetup, HostKept, BusOK
  <2>2. AtStart'
    BY <2>1 DEF AtStart, HStage, HDt, Got
  <2> QED BY <1>2, <2>1, <2>2, BusFacts DEF BegunOK
<1>3. CASE TakesOut
  <2>1. /\ HostKept /\ host.stage # "setup" /\ ~cel /\ ~TakesSetup
        /\ host.dt = OutDt /\ OutDt' = 1 - OutDt /\ UNCHANGED <<InDt, InB>>
        /\ OutB'.state = "done_ok"
    BY <1>3 DEF TakesOut, TakesSetup
  <2>2. /\ HStage' = HStage /\ HDt' = HDt /\ Got' = Got /\ SendLen' = SendLen
        /\ host'.req = host.req /\ host'.ofs = host.ofs
    BY <2>1, SameStages DEF HostKept
  <2>3. /\ Begun /\ ctrl.state # "STALL"
        /\ HStage = host.stage /\ HDt = host.dt
        /\ Sends => ReadGoing /\ HStage = "status_out"
        /\ Takes => /\ ctrl.state = "DATA_OUT" /\ WriteGoing /\ host.stage = "data_out"
                    /\ pc # "out_clear" /\ Held = 0 /\ ctrl.ofs = host.ofs
                    /\ OutB'.len = SendLen + CrcLen /\ SendLen \in 0 .. PktLen
        /\ ctrl.state # "DATA_IN"
    BY <1>3, TakenPacket
  <2>4. ctrl.req = host.req /\ Going /\ pc # "handle" /\ ~Unhandled'
    BY <2>1, <2>3, BusGoing, BusFacts
  <2>5. Sends' = Sends /\ Takes' = Takes /\ Queued' = Queued
    BY <1>1, <2>1 DEF Sends, Takes, Queued
  <2>6. Sends => ReadGoing'
    <3>1. ASSUME Sends PROVE ReadGoing'
      <4>1. ctrl.state = "STATUS_DONE_OUT"
        BY <2>3, <3>1 DEF Sends
      <4> QED BY <1>1, <2>1, <2>2, <2>3, <3>1, <4>1 DEF ReadGoing
    <3> QED BY <3>1
  <2>7. Takes => WriteGoing'
    <3>1. ASSUME Takes PROVE WriteGoing'
      <4>1. Held' = OutB'.len - CrcLen
        BY <1>1, <2>1, <2>3, <3>1 DEF Held
      <4>2. SendLen \in Int /\ CrcLen \in Int
        BY <2>3, <3>1, PktLenAssumption DEF CrcLen
      <4>3. Held' = SendLen
        BY <2>3, <3>1, <4>1, <4>2
      <4>4. Recv' = host.ofs + SendLen
        BY <1>1, <2>3, <3>1, <4>3 DEF Recv
      <4>5. HDt' # OutDt'
        BY <1>1, <2>1, <2>2, <2>3
      <4> QED BY <2>1, <2>2, <2>3, <3>1, <4>4, <4>5 DEF WriteGoing
    <3> QED BY <3>1
  <2>8. Going'
    BY <1>1, <2>2, <2>3, <2>4, <2>5, <2>6, <2>7 DEF Going
  <2> QED BY <1>1, <2>2, <2>4, <2>8 DEF BegunOK
<1>4. CASE StallsOut \/ StallsIn
  <2>1. /\ HostKept /\ host.stage # "setup" /\ ~cel /\ ctrl.state = "STALL" /\ ~TakesSetup
        /\ UNCHANGED <<OutDt, InDt>> /\ Begun
    BY <1>1, <1>4 DEF StallsOut, StallsIn, PlacesOK, TakesSetup, Begun
  <2>2. /\ AtStart' = AtStart /\ host'.req = host.req
    BY <2>1, SameStages DEF HostKept
  <2>3. ctrl.req = host.req /\ Going /\ ~Unhandled'
    BY <2>1, BusGoing, BusFacts
  <2>4. Going'
    BY <1>1, <2>1, <2>2, <2>3 DEF Going, Sends, Takes
  <2> QED BY <1>1, <2>2, <2>3, <2>4 DEF BegunOK
<1>5. CASE SentIn
  <2>1. /\ HostKept /\ host.stage \in {"data_in", "status_out", "idle"} /\ ~cel /\ ~TakesSetup
        /\ InB.state = "rdy_data" /\ InB'.state = "done_ok"
        /\ InDt' = 1 - InDt /\ UNCHANGED <<OutDt, OutB>>
        /\ host.stage = "data_in" => host.dt # InDt
    BY <1>1, <1>5 DEF SentIn, TakesSetup, BusOK
  <2> SUFFICES ASSUME Begun' PROVE host.stage # "idle" /\ BegunOK'
    BY DEF BegunOK
  <2>2. /\ HStage' = HStage /\ HDt' = HDt /\ Got' = Got /\ SendLen' = SendLen /\ Begun
        /\ AtStart' = AtStart /\ host'.req = host.req
    BY <2>1, SameStages DEF HostKept
  <2>3. HStage = host.stage /\ HDt = host.dt /\ host.stage # "idle"
    BY <2>1, <2>2 DEF HStage, HDt, Begun
  <2>4. ctrl.req = host.req /\ Going /\ pc # "handle" /\ ~Unhandled'
    BY <2>1, <2>2, BusGoing, BusFacts
  <2>5. Sends' = Sends /\ Takes' = Takes /\ ctrl.state # "STALL"
    BY <1>1, <2>1 DEF Sends, Takes, StagesOK, InB
  <2>6. ~Takes
    BY <2>1, <2>3, <2>4 DEF Going, WriteGoing
  <2>7. Sends => ReadGoing'
    <3>1. ASSUME Sends PROVE ReadGoing'
      <4>1. ReadGoing
        BY <2>4, <3>1 DEF Going
      <4>2. HStage = "data_in" => HDt = InDt' /\ Got = ctrl.ofs
        BY <1>1, <2>1, <2>3, <4>1 DEF ReadGoing
      <4>3. ~Queued' /\ ctrl.ofs - 0 = ctrl.ofs
        <5>1. ctrl.ofs \in Int
          BY BusFacts DEF IndInv, TypeOK, FwTypeOK, Ctrl
        <5> QED BY <2>1, <5>1 DEF Queued
      <4> QED BY <1>1, <2>1, <2>2, <2>3, <4>1, <4>2, <4>3 DEF ReadGoing
    <3> QED BY <3>1
  <2>8. Going'
    BY <1>1, <2>2, <2>4, <2>5, <2>6, <2>7 DEF Going
  <2> QED BY <1>1, <2>2, <2>3, <2>4, <2>8 DEF BegunOK
<1>6. CASE SendsIn
  <2>1. /\ host.stage \in {"data_in", "status_in"} /\ ~cel /\ ~TakesSetup /\ Begun
        /\ InB.state = "rdy_data" /\ UNCHANGED <<OutB, InB, OutDt, InDt>>
        /\ GetData(InDt, Prefix(InBuf, InB.len))
    BY <1>1, <1>6 DEF SendsIn, TakesSetup, RegsKept, Begun
  <2>2. HStage = host.stage /\ HDt = host.dt
    BY <2>1 DEF HStage, HDt
  <2>3. /\ ctrl.req = host.req /\ Going /\ pc # "handle" /\ ~Unhandled'
        /\ ctrl.state \in CtrlState
    BY <2>1, BusGoing, BusFacts
  <2>4. Sends' = Sends /\ Takes' = Takes /\ Queued' /\ Queued /\ ctrl.state # "STALL"
    BY <1>1, <2>1 DEF Sends, Takes, Queued, StagesOK, InB
  <2> DEFINE p == Prefix(InBuf, InB.len)
  <2>5. GetData(InDt, p)
    BY <2>1
  <2>6. CASE host.stage = "status_in"
    <3>1. InDt = host.dt
      BY <2>1, <2>6, StatusToggle DEF BusMove, XferInv
    <3> HIDE DEF p
    <3>2. host'.stage = "idle"
      BY <1>1, <2>1, <2>5, <2>6, <3>1, DataDoes
    <3> QED BY <3>2 DEF BegunOK, Begun
  <2>7. CASE host.stage = "data_in"
    <3>1. Sends /\ ReadGoing
      <4>1. ~Takes
        BY <2>2, <2>3, <2>7 DEF Going, WriteGoing
      <4>2. ctrl.state # "IDLE"
        BY <2>2, <2>3, <2>7 DEF Going
      <4> QED BY <2>3, <2>4, <4>1, <4>2 DEF Sends, Takes, CtrlState, Going
    <3>2. /\ OutDt = 1 /\ OutB.state # "done_ok"
          /\ \/ HDt = InDt /\ Got = ctrl.ofs - InB.len
             \/ HDt # InDt /\ Got = ctrl.ofs
      BY <2>2, <2>4, <2>7, <3>1 DEF ReadGoing
    <3>3. CASE InDt # host.dt
      <4> HIDE DEF p
      <4>1. /\ host'.req = host.req /\ host'.ofs = host.ofs /\ host'.stage = host.stage
            /\ host'.dt = host.dt /\ host'.got = host.got
        BY <1>1, <2>1, <2>5, <3>3, DataDoes
      <4>2. HStage' = HStage /\ HDt' = HDt /\ Got' = Got
        BY <2>7, <4>1 DEF HStage, HDt, Got
      <4>3. Going'
        BY <1>1, <2>1, <2>3, <4>1, <4>2, GoingKept
      <4> QED BY <1>1, <2>3, <4>1, <4>3 DEF BegunOK
    <3>4. CASE InDt = host.dt
      <4>1. /\ InB.len \in 0 .. PktLen /\ InB.len <= ctrl.ofs /\ ctrl.ofs \in 0 .. ctrl.len
            /\ p = DataOf(ctrl.req, ctrl.ofs - InB.len, ctrl.ofs)
            /\ InB.len < PktLen => ctrl.ofs = ctrl.len
            /\ ctrl.len <= ctrl.req.len
        BY <1>1, <2>4, <3>1 DEF InDataOK
      <4> HIDE DEF p
      <4>2. ctrl.req \in Request /\ ctrl.len \in 0 .. MaxLen /\ ctrl.req.len \in 0 .. MaxLen
        <5>1. ctrl.req \in Request /\ ctrl.len \in 0 .. MaxLen
          BY BusFacts DEF IndInv, TypeOK, FwTypeOK, Ctrl
        <5> QED BY <5>1, RequestFields
      <4>3. /\ ctrl.ofs - InB.len \in Nat /\ ctrl.ofs \in 0 .. MaxLen
            /\ ctrl.ofs - InB.len <= ctrl.ofs
            /\ ctrl.ofs - (ctrl.ofs - InB.len) = InB.len
        BY <4>1, <4>2, PktLenAssumption, MaxLenAssumption
      <4>4. p \in Seq(Unit) /\ Len(p) = InB.len
        <5> DEFINE a == ctrl.ofs - InB.len
        <5>1. a \in Nat /\ a <= ctrl.ofs /\ ctrl.ofs - a = InB.len
          BY <4>3
        <5>2. p = DataOf(ctrl.req, a, ctrl.ofs)
          BY <4>1
        <5> HIDE DEF a
        <5> QED BY <4>2, <4>3, <5>1, <5>2, DataOfElements
      <4>5. Got = ctrl.ofs - InB.len
        BY <2>2, <3>2, <3>4
      <4>6. Len(host.got) + Len(p) = ctrl.ofs
        <5>1. Len(host.got) = ctrl.ofs - InB.len
          BY <4>5 DEF Got
        <5> QED BY <4>1, <4>2, <4>4, <5>1, PktLenAssumption, MaxLenAssumption
      <4>7. /\ host'.req = host.req /\ host'.ofs = host.ofs /\ host'.got = host.got \o p
            /\ IF Len(p) < PktLen \/ Len(host.got) + Len(p) >= host.req.len
                 THEN host'.stage = "status_out" /\ host'.dt = 1
                 ELSE host'.stage = "data_in" /\ host'.dt = 1 - host.dt
        BY <1>1, <2>1, <2>5, <2>7, <3>4, DataDoes
      <4>8. Got' = ctrl.ofs
        <5>1. host.got \in Seq(Unit)
          BY <1>1 DEF HostTypeOK, Host
        <5> QED BY <4>4, <4>6, <4>7, <5>1 DEF Got
      <4>9. HStage' = host'.stage /\ HDt' = host'.dt
        BY <4>7 DEF HStage, HDt
      <4>10. ReadGoing'
        <5>1. CASE Len(p) < PktLen \/ Len(host.got) + Len(p) >= host.req.len
          <6>1. HStage' = "status_out" /\ HDt' = 1
            BY <4>7, <4>9, <5>1
          <6>2. ctrl.ofs = ctrl.len
            <7>1. CASE Len(p) < PktLen
              BY <4>1, <4>4, <7>1
            <7>2. CASE ctrl.ofs >= ctrl.req.len
              BY <4>1, <4>2, <7>2, MaxLenAssumption
            <7> QED BY <2>3, <4>6, <5>1, <7>1, <7>2
          <6>3. OutDt' = 1 /\ Got' = ctrl'.len
            BY <1>1, <2>1, <3>2, <4>8, <6>2
          <6> QED BY <6>1, <6>3 DEF ReadGoing
        <5>2. CASE ~(Len(p) < PktLen \/ Len(host.got) + Len(p) >= host.req.len)
          <6>1. HStage' = "data_in" /\ HDt' = 1 - host.dt
            BY <4>7, <4>9, <5>2
          <6>2. HDt' # InDt' /\ OutDt' = 1 /\ Got' = ctrl'.ofs /\ OutB'.state # "done_ok"
            BY <1>1, <2>1, <3>2, <3>4, <4>8, <6>1
          <6> QED BY <2>4, <6>1, <6>2 DEF ReadGoing
        <5> QED BY <5>1, <5>2
      <4>11. Going' /\ host'.req = host.req
        BY <1>1, <2>3, <2>4, <3>1, <4>7, <4>10 DEF Going, Sends, Takes
      <4> QED BY <1>1, <2>3, <4>11 DEF BegunOK
    <3> QED BY <3>3, <3>4
  <2> QED BY <2>1, <2>6, <2>7
<1>7. CASE Acks
  <2>1. /\ host.stage \in {"setup", "data_out", "status_out"} /\ host' = GetAck /\ ~TakesSetup
        /\ UNCHANGED <<OutB, InB, OutDt, InDt>> /\ Begun
        /\ host.stage # "setup" => host.dt # OutDt
    BY <1>1, <1>7 DEF Acks, BusOK, TakesSetup, RegsKept, Begun
  <2>2. (Unhandled' <=> Unhandled) /\ (Unhandled => Pending' = Pending)
    BY <2>1, BusFacts
  <2>3. CASE host.stage = "setup"
    <3>1. /\ host'.req = host.req /\ host'.got = host.got /\ host'.ofs = host.ofs
          /\ host'.stage = AfterSetup(host.req) /\ host'.dt = 1
      BY <1>1, <2>1, <2>3, AckDoes
    <3>2. HStage' = HStage /\ HDt' = HDt /\ Got' = Got
      BY <2>3, <3>1 DEF HStage, HDt, Got, AfterSetup
    <3>3. AtStart' = AtStart
      BY <2>1, <3>1, <3>2 DEF AtStart
    <3>4. Going => Going'
      BY <1>1, <2>1, <3>1, <3>2, GoingKept
    <3> QED BY <1>1, <2>1, <2>2, <3>1, <3>3, <3>4 DEF BegunOK
  <2>4. CASE host.stage = "data_out"
    <3>1. HStage = "data_out" /\ HDt = host.dt /\ ~AtStart
      BY <2>1, <2>4 DEF HStage, HDt, AtStart
    <3>2. ~Unhandled /\ ctrl.req = host.req /\ Going
      BY <1>1, <2>1, <3>1 DEF BegunOK
    <3>3. /\ pc # "handle" /\ ctrl.state # "STALL" /\ ~Sends
          /\ ctrl.state # "IDLE" /\ Takes => WriteGoing
      BY <3>1, <3>2 DEF Going, ReadGoing
    <3>4. Takes /\ WriteGoing /\ ~Sends /\ ctrl.state # "IDLE"
      <4>1. ctrl.state \in CtrlState
        BY BusFacts DEF IndInv, TypeOK, FwTypeOK, Ctrl
      <4>2. ctrl.state # "IDLE" /\ ~Sends
        BY <3>1, <3>2, <3>3 DEF Going, ReadGoing
      <4> QED BY <3>2, <3>3, <4>1, <4>2 DEF Takes, Sends, CtrlState, Going
    <3>5. Recv = host.ofs + SendLen /\ InDt = 1 /\ InB.state # "done_ok"
      BY <2>1, <2>4, <3>1, <3>4 DEF WriteGoing
    <3>6. Recv' = Recv /\ Takes' /\ ~Sends'
      BY <1>1, <2>1, <3>4 DEF Recv, Held, Takes, Sends
    <3>7. SendLen \in Nat /\ host.ofs + SendLen <= host.req.len /\ host.ofs \in Nat
          /\ host.req.len \in Nat
      BY BusFacts, SendLenFacts, RequestFields, MaxLenAssumption DEF HostTypeOK, Host
    <3>8. host'.req = host.req
      BY <1>1, <2>1, AckDoes
    <3>9. WriteGoing'
      <4>1. CASE host.ofs + SendLen = host.req.len
        <5>1. host'.stage = "status_in" /\ host'.dt = 1
          BY <1>1, <2>1, <2>4, <4>1, AckDoes
        <5>2. HStage' = "status_in" /\ HDt' = 1
          BY <5>1 DEF HStage, HDt
        <5> QED BY <2>1, <3>5, <3>6, <3>8, <4>1, <5>2 DEF WriteGoing
      <4>2. CASE host.ofs + SendLen # host.req.len
        <5>1. /\ host'.stage = "data_out" /\ host'.dt = 1 - host.dt
              /\ host'.ofs = host.ofs + SendLen
          BY <1>1, <2>1, <2>4, <4>2, AckDoes
        <5>2. HStage' = "data_out" /\ HDt' = OutDt'
          BY <1>1, <2>1, <2>4, <5>1 DEF HStage, HDt
        <5>3. host'.ofs < host'.req.len
          BY <3>7, <3>8, <4>2, <5>1
        <5> QED BY <2>1, <3>5, <3>6, <5>1, <5>2, <5>3 DEF WriteGoing
      <4> QED BY <4>1, <4>2
    <3>10. Going'
      BY <1>1, <3>3, <3>4, <3>6, <3>9 DEF Going
    <3> QED BY <1>1, <2>2, <3>2, <3>8, <3>10 DEF BegunOK
  <2>5. CASE host.stage = "status_out"
    <3>1. host'.stage = "idle"
      BY <1>1, <2>1, <2>5, AckDoes
    <3> QED BY <3>1 DEF BegunOK, Begun
  <2> QED BY <2>1, <2>3, <2>4, <2>5
<1>8. CASE Stalls
  <2>1. host'.stage = "idle"
    BY <1>1, <1>8, StallDoes DEF Stalls
  <2> QED BY <2>1 DEF BegunOK, Begun
<1>9. CASE Begins
  <2>1. host'.stage = "setup" /\ sie'.pc # "tx_ack"
    BY <1>1, <1>9, StartDoes DEF Begins, BusOK, Waiting
  <2> QED BY <2>1 DEF BegunOK, Begun
<1>10. CASE Passes
  <2>1. /\ HostKept /\ ~TakesSetup /\ UNCHANGED <<OutB, InB, OutDt, InDt>>
        /\ host.stage = "setup" /\ sie'.pc = "tx_ack" => sie.pc = "tx_ack"
    <3>1. HostKept /\ UNCHANGED <<cel, OutB, InB, OutDt, InDt>>
      BY <1>10 DEF Passes, RegsKept
    <3> QED BY <1>10, <3>1 DEF Passes, TakesSetup
  <2>2. /\ HStage' = HStage /\ HDt' = HDt /\ Got' = Got /\ host'.req = host.req
        /\ host'.ofs = host.ofs /\ (Begun' => Begun)
    BY <2>1 DEF HostKept, HStage, HDt, Got, Begun
  <2>3. (Unhandled' <=> Unhandled) /\ (Unhandled => Pending' = Pending)
    BY <2>1, BusFacts
  <2>4. AtStart' = AtStart
    BY <2>1, <2>2 DEF AtStart
  <2>5. Going => Going'
    BY <1>1, <2>1, <2>2, GoingKept
  <2> QED BY <1>1, <2>2, <2>3, <2>4, <2>5 DEF BegunOK
<1> QED BY <1>2, <1>3, <1>4, <1>5, <1>6, <1>7, <1>8, <1>9, <1>10 DEF BusMove, BusCases

\* The data of the host.
LEMMA BusGot == BusMove => GotOK'
<1> SUFFICES ASSUME BusMove PROVE GotOK'
  OBVIOUS
<1>1. GotOK /\ HostTypeOK /\ BusOK
  BY BusFacts DEF BusMove, XferInv
<1>2. CASE host'.got = host.got /\ host'.req = host.req
  BY <1>1, <1>2 DEF GotOK, Got
<1>3. CASE HostKept
  BY <1>2, <1>3 DEF HostKept
<1>4. CASE Stalls
  BY <1>1, <1>2, <1>4, StallDoes DEF Stalls
<1>5. CASE Acks
  <2>1. host.stage \in {"setup", "data_out", "status_out"} /\ host' = GetAck
    BY <1>1, <1>5 DEF Acks, BusOK
  <2> QED BY <1>1, <1>2, <2>1, AckDoes
<1>6. CASE Begins
  <2>1. host'.got = <<>> /\ host'.req \in Request
    BY <1>1, <1>6, StartDoes DEF Begins
  <2>2. Got' = 0 /\ 0 \in 0 .. MaxLen
    BY <2>1, MaxLenAssumption DEF Got
  <2> QED BY <2>1, <2>2, DataOfNone DEF GotOK
<1>7. CASE SendsIn
  <2>1. /\ host.stage \in {"data_in", "status_in"} /\ ~cel /\ Begun
        /\ InB.state = "rdy_data" /\ GetData(InDt, Prefix(InBuf, InB.len))
    BY <1>7 DEF SendsIn, Begun
  <2> DEFINE p == Prefix(InBuf, InB.len)
  <2>2. GetData(InDt, p)
    BY <2>1
  <2>3. CASE InDt # host.dt \/ host.stage = "status_in"
    <3> HIDE DEF p
    <3>1. host'.got = host.got /\ host'.req = host.req
      BY <1>1, <2>1, <2>2, <2>3, DataDoes
    <3> QED BY <1>2, <3>1
  <2>4. CASE InDt = host.dt /\ host.stage = "data_in"
    <3>1. /\ ctrl.req = host.req /\ Going /\ pc # "handle" /\ ctrl.state \in CtrlState
          /\ HStage = "data_in" /\ HDt = host.dt /\ ctrl.state # "STALL"
      BY <2>1, <2>4, BusGoing, BusFacts DEF HStage, HDt, StagesOK, InB
    <3>2. Sends /\ ReadGoing
      <4>1. ~Takes
        BY <3>1 DEF Going, WriteGoing
      <4>2. ctrl.state # "IDLE"
        BY <3>1 DEF Going
      <4> QED BY <3>1, <4>1, <4>2 DEF Sends, Takes, CtrlState, Going
    <3>3. Queued /\ Got = ctrl.ofs - InB.len
      BY <2>1, <2>4, <3>1, <3>2 DEF ReadGoing, Queued
    <3>4. /\ InB.len \in 0 .. PktLen /\ InB.len <= ctrl.ofs /\ ctrl.ofs \in 0 .. ctrl.len
          /\ p = DataOf(ctrl.req, ctrl.ofs - InB.len, ctrl.ofs)
      BY <3>2, <3>3 DEF InDataOK, BusMove, XferInv
    <3> HIDE DEF p
    <3>5. ctrl.req \in Request /\ ctrl.len \in 0 .. MaxLen
      BY BusFacts DEF IndInv, TypeOK, FwTypeOK, Ctrl
    <3>6. ctrl.ofs \in 0 .. MaxLen /\ ctrl.ofs \in Nat /\ Got \in Nat /\ Got <= ctrl.ofs
      BY <3>3, <3>4, <3>5, PktLenAssumption, MaxLenAssumption
    <3>7. host'.got = host.got \o p /\ host'.req = host.req
      BY <1>1, <2>1, <2>2, <2>4, DataDoes
    <3>8. host.got = DataOf(ctrl.req, 0, Got) /\ p = DataOf(ctrl.req, Got, ctrl.ofs)
      BY <1>1, <3>1, <3>3, <3>4 DEF GotOK
    <3>9. host'.got = DataOf(ctrl.req, 0, ctrl.ofs)
      <4> DEFINE z == 0
                 g == Got
                 c == ctrl.ofs
                 r == ctrl.req
      <4>1. z \in Nat /\ g \in Nat /\ z <= g /\ g <= c /\ c \in 0 .. MaxLen /\ r \in Request
        BY <3>5, <3>6
      <4>2. host'.got = DataOf(r, z, g) \o DataOf(r, g, c)
        BY <3>7, <3>8
      <4> HIDE DEF z, g, c, r
      <4>3. DataOf(r, z, g) \o DataOf(r, g, c) = DataOf(r, z, c)
        BY <4>1, DataOfJoin
      <4> QED BY <4>2, <4>3 DEF z, c, r
    <3>10. Got' = ctrl.ofs
      <4> DEFINE z == 0
      <4>1. z \in Nat /\ z <= ctrl.ofs /\ ctrl.ofs - z = ctrl.ofs
        BY <3>6
      <4>2. host'.got = DataOf(ctrl.req, z, ctrl.ofs)
        BY <3>9
      <4> HIDE DEF z
      <4>3. Len(host'.got) = ctrl.ofs
        BY <3>5, <3>6, <4>1, <4>2, DataOfElements
      <4> QED BY <4>3 DEF Got
    <3> QED BY <3>1, <3>6, <3>7, <3>9, <3>10 DEF GotOK
  <2> QED BY <2>1, <2>3, <2>4
<1> QED BY <1>3, <1>4, <1>5, <1>6, <1>7, BusHost

\* A transfer ends with success: the firmware has done its part.
LEMMA FinishDone ==
  ASSUME BusMove,
         \/ Acks /\ host.stage = "status_out"
         \/ SendsIn /\ host.stage = "status_in"
  PROVE  /\ ctrl.req = host.req /\ ~Unhandled /\ pc # "handle"
         /\ ctrl.state \in {"STATUS_DONE_IN", "STATUS_DONE_OUT", "IDLE"}
<1>1. /\ BegunOK /\ BusOK /\ StagesOK /\ InDataOK
      /\ ctrl.state \in CtrlState /\ HStage = host.stage /\ HDt = host.dt /\ Begun
      /\ host.stage \in {"status_out", "status_in"}
  BY BusFacts DEF BusMove, XferInv, IndInv, TypeOK, FwTypeOK, Ctrl, HStage, HDt, Begun
<1>2. CASE Acks /\ host.stage = "status_out"
  <2>1. host.dt # OutDt /\ ~AtStart
    BY <1>1, <1>2 DEF Acks, BusOK, AtStart
  <2>2. ~Unhandled /\ ctrl.req = host.req /\ Going /\ pc # "handle" /\ ctrl.state # "STALL"
    BY <1>1, <2>1 DEF BegunOK, Going
  <2>3. ~Takes
    BY <1>1, <1>2, <2>2 DEF Going, WriteGoing
  <2>4. ctrl.state # "DATA_IN"
    <3> SUFFICES ASSUME ctrl.state = "DATA_IN" PROVE FALSE
      OBVIOUS
    <3>1. Sends
      BY <2>2 DEF Sends
    <3>2. HDt = 1 /\ OutDt = 1
      BY <1>1, <1>2, <2>2, <3>1 DEF Going, ReadGoing
    <3> QED BY <1>1, <2>1, <3>2
  <2> QED BY <1>1, <2>2, <2>3, <2>4 DEF Takes, CtrlState
<1>3. CASE SendsIn /\ host.stage = "status_in"
  <2>1. ~cel /\ InB.state = "rdy_data"
    BY <1>3 DEF SendsIn
  <2>2. ~Unhandled /\ ctrl.req = host.req /\ Going /\ pc # "handle" /\ ~First
    BY <1>1, <2>1, BusGoing, BusFacts
  <2>3. ctrl.state # "STALL" /\ ctrl.state # "DATA_OUT"
    BY <1>1, <2>1 DEF StagesOK, InB
  <2>4. ctrl.state # "DATA_IN"
    <3> SUFFICES ASSUME ctrl.state = "DATA_IN" PROVE FALSE
      OBVIOUS
    <3>1. Sends
      BY <2>2 DEF Sends
    <3>2. host.req.len = 0
      BY <1>1, <1>3, <2>2, <3>1 DEF Going, ReadGoing
    <3>3. ctrl.len <= ctrl.req.len /\ ctrl.ofs \in 0 .. ctrl.len /\ ctrl.ofs > 0
      BY <1>1, <2>2, <3>1 DEF InDataOK
    <3>4. ctrl.len \in 0 .. MaxLen
      BY BusFacts DEF IndInv, TypeOK, FwTypeOK, Ctrl
    <3> QED BY <2>2, <3>2, <3>3, <3>4, MaxLenAssumption
  <2> QED BY <1>1, <2>2, <2>3, <2>4 DEF CtrlState
<1> QED BY <1>2, <1>3

\* Transfers that ended with success, in a step of the bus.
LEMMA BusFinished == BusMove => FinishedOK'
<1> SUFFICES ASSUME BusMove PROVE FinishedOK'
  OBVIOUS
<1>1. /\ FinishedOK /\ NumbersOK /\ UNCHANGED <<pc, ctrl>> /\ BusOK /\ HostTypeOK
      /\ host.req.id \in Nat /\ host.finished \subseteq host'.finished
  BY BusFacts, BusStages DEF BusMove, XferInv
<1>2. host'.req.id \in host'.finished =>
        /\ ctrl'.req = host'.req /\ ~Unhandled' /\ pc' # "handle"
        /\ ctrl'.state \in {"STATUS_DONE_IN", "STATUS_DONE_OUT", "IDLE"}
  <2> SUFFICES ASSUME host'.req.id \in host'.finished
               PROVE  /\ ctrl'.req = host'.req /\ ~Unhandled' /\ pc' # "handle"
                      /\ ctrl'.state \in {"STATUS_DONE_IN", "STATUS_DONE_OUT", "IDLE"}
    OBVIOUS
  <2>1. host'.req = host.req
    <3>1. \A i \in host.finished : i <= host.req.id /\ i \in Nat
      BY <1>1 DEF NumbersOK, HostTypeOK, Host
    <3> QED BY <1>1, <3>1, BusStages
  <2>2. /\ ctrl.req = host.req /\ ~Unhandled /\ pc # "handle"
        /\ ctrl.state \in {"STATUS_DONE_IN", "STATUS_DONE_OUT", "IDLE"}
    <3>1. CASE host.req.id \in host.finished
      BY <1>1, <3>1 DEF FinishedOK
    <3>2. CASE host.req.id \notin host.finished
      <4>1. host'.finished # host.finished
        BY <2>1, <3>2
      <4>2. CASE SendsIn
        <5>1. host.stage = "status_in"
          <6> DEFINE p == Prefix(InBuf, InB.len)
          <6>1. GetData(InDt, p) /\ host.stage \in {"data_in", "status_in"}
            BY <4>2 DEF SendsIn
          <6> HIDE DEF p
          <6> QED BY <1>1, <4>1, <6>1, DataDoes
        <5> QED BY <4>2, <5>1, FinishDone
      <4>3. CASE Acks
        <5>1. host.stage \in {"setup", "data_out", "status_out"} /\ host' = GetAck
          BY <1>1, <4>3 DEF Acks, BusOK
        <5>2. host.stage = "status_out"
          BY <1>1, <4>1, <5>1, AckDoes
        <5> QED BY <4>3, <5>2, FinishDone
      <4>4. CASE HostKept \/ Stalls \/ Begins
        BY <1>1, <4>1, <4>4, StallDoes, StartDoes DEF HostKept, Stalls, Begins
      <4> QED BY <4>2, <4>3, <4>4, BusHost
    <3> QED BY <3>1, <3>2
  <2>3. ~Unhandled'
    <3>1. ~TakesSetup
      <4> SUFFICES ASSUME TakesSetup PROVE FALSE
        OBVIOUS
      <4>1. host.stage = "setup" /\ host'.stage = "setup" /\ host'.finished = host.finished
        BY DEF TakesSetup, HostKept
      <4> QED BY <1>1, <2>1, <4>1 DEF NumbersOK
    <3> QED BY <2>2, <3>1, BusFacts
  <2> QED BY <1>1, <2>1, <2>2, <2>3
<1>3. ctrl'.state = "STATUS_DONE_IN" /\ (InB'.state = "done_ok" \/ host'.phase = "ack") =>
        ctrl'.req.id \in host'.finished
  <2> SUFFICES ASSUME ctrl.state = "STATUS_DONE_IN",
                      InB'.state = "done_ok" \/ host'.phase = "ack"
               PROVE  ctrl.req.id \in host'.finished
    BY <1>1
  <2>1. CASE InB.state = "done_ok" \/ host.phase = "ack"
    BY <1>1, <2>1 DEF FinishedOK
  <2>2. CASE SendsIn
    <3>1. host.stage \in {"data_in", "status_in"} /\ ~cel /\ Begun /\ HStage = host.stage
          /\ HDt = host.dt
      BY <2>2 DEF SendsIn, Begun, HStage, HDt
    <3>2. Takes /\ WriteGoing /\ ctrl.req = host.req
      BY <3>1, BusGoing DEF Going, Takes
    <3>3. host.stage = "status_in" /\ host.dt = 1 /\ InDt = 1
      BY <3>1, <3>2 DEF WriteGoing
    <3> DEFINE p == Prefix(InBuf, InB.len)
    <3>4. GetData(InDt, p)
      BY <2>2 DEF SendsIn
    <3> HIDE DEF p
    <3>5. host'.finished = host.finished \cup {host.req.id}
      BY <1>1, <3>1, <3>3, <3>4, DataDoes
    <3> QED BY <3>2, <3>5
  <2>3. CASE StallsIn \/ SentIn
    <3>1. ~StallsIn
      BY DEF StallsIn, BusMove, XferInv, PlacesOK
    <3> QED BY <2>1, <2>3, <3>1 DEF SentIn
  <2>4. ~(SendsIn \/ StallsIn \/ SentIn) =>
          InB' = InB /\ (host'.phase = "ack" => host.phase = "ack")
    <3>1. ~(StallsIn \/ SentIn) => InB' = InB
      BY BusDescriptors
    <3>2. CASE TakesSetup \/ TakesOut \/ StallsOut \/ Passes
      BY <3>1, <3>2 DEF TakesSetup, TakesOut, StallsOut, Passes
    <3>3. CASE Acks
      <4>1. host.stage \in {"setup", "data_out", "status_out"} /\ host' = GetAck
        BY <1>1, <3>3 DEF Acks, BusOK
      <4> QED BY <1>1, <3>1, <4>1, AckDoes
    <3>4. CASE Stalls \/ Begins
      BY <1>1, <3>1, <3>4, StallDoes, StartDoes DEF Stalls, Begins
    <3> QED BY <3>2, <3>3, <3>4 DEF BusMove, BusCases
  <2> QED BY <2>1, <2>2, <2>3, <2>4
<1>4. pc' = "cb_done" /\ ctrl'.req.dir = "out" => ctrl'.req.id \in host'.finished
  BY <1>1 DEF FinishedOK
<1> QED BY <1>2, <1>3, <1>4 DEF FinishedOK

\* All of it.
LEMMA BusXfer ==
  ASSUME MaxOther = 0, IgnoreRxErr, XferInv, BusStep, ~SetupMissed
  PROVE  XferInv'
<1>1. StatusOK' /\ BusOK' /\ BusCases /\ BuffersKept /\ UNCHANGED fwVars
  BY BusDoes DEF XferInv
<1>2. BusMove
  BY <1>1 DEF BusMove
<1>3. [Next]_vars
  BY DEF BusStep, Next
<1>4. IndInv' /\ BuffersOK' /\ DescriptorsOK'
  BY <1>3, NextIndInv, BuffersStep, DescriptorsStep DEF XferInv, Regs
<1>5. Regs'
  BY <1>1, <1>4 DEF Regs
<1> QED BY <1>2, <1>5, BusSeenSetup, BusNumbers, BusFresh, BusPlaces, BusInData, BusOutData,
           BusBegun, BusFinished, BusGot DEF XferInv

-----------------------------------------------------------------------------
(* The steps of the firmware.                                              *)

\* What a write of a descriptor does.
LEMMA WroteBd ==
  ASSUME bd \in [BdId -> Descriptor], NEW id \in {SetupBd, OutBd, InBd}, NEW b, WriteBd(id, b)
  PROVE  /\ UNCHANGED <<OutDt, InDt, OutBuf, InBuf, Pending>>
         /\ id = SetupBd => SetupSt' = b.state /\ OutB' = OutB /\ InB' = InB
         /\ id = OutBd => SetupSt' = SetupSt /\ OutB' = b /\ InB' = InB
         /\ id = InBd => SetupSt' = SetupSt /\ OutB' = OutB /\ InB' = b
  BY Descriptors DEF WriteBd, OutDt, InDt, OutBuf, InBuf, Pending, SetupSt, OutB, InB

\* Neither descriptors, toggles nor buffers change.
Accessed == UNCHANGED <<OutDt, InDt, OutBuf, InBuf, Pending, SetupSt, OutB, InB>>

\* A step that writes neither the status RAM, a descriptor nor a buffer.
LEMMA NothingWritten ==
  ASSUME UNCHANGED <<eps, bd, buf>>
  PROVE  Accessed
  BY DEF Accessed, OutDt, InDt, OutBuf, InBuf, Pending, SetupSt, OutB, InB

\* The places a step leaves and enters.
From(S) == pc \in S
To(S)   == pc' \in S

\* Nothing the invariant is about changes but the place, the toggle of the IN end
\* point before a request is read, and the descriptor for SETUP packets after it
\* was handled.
PassOn ==
  /\ UNCHANGED <<ctrl, done, OutDt, OutBuf, InBuf, Pending, OutB, InB>>
  /\ InDt' = InDt \/ (To({"setup_read"}) /\ InDt' = 1 /\ Unhandled)
  /\ pc \notin {"setup_read", "handle", "cb_done", "in_fill", "in_queue", "in_status",
                "out_read", "out_clear", "out_next"}
  /\ pc' \notin {"handle", "cb_done", "in_queue", "in_status", "out_clear"}
  /\ To({"setup_read"}) => InDt' = 1
  /\ To({"out_peek"}) => ~InSetup' /\ OutB.state = "done_ok"
  /\ To({"out_read"}) => ~InSetup' /\ OutB.state = "done_ok"
  /\ To({"out_next"}) => OutB.state = "none"
  /\ To({"in_fill"}) => ~InSetup' /\ InB.state = "done_ok"

\* A descriptor is taken back.
DropIn == /\ UNCHANGED <<ctrl, done, OutDt, InDt, OutBuf, InBuf, Pending, OutB>>
          /\ InB' = NoBd /\ From({"act", "setup_in_clear"})
          /\ InB.state = "done_ok" \/ (From({"setup_in_clear"}) /\ Unhandled)
          /\ To({"act_out", "peek_setup", "setup_in_status"})
DropOut == /\ UNCHANGED <<ctrl, done, OutDt, InDt, OutBuf, InBuf, Pending, InB>>
           /\ OutB' = NoBd
           /\ \/ From({"act"}) /\ To({"setup_in_clear"}) /\ Unhandled
              \/ From({"act"}) /\ To({"peek_setup"})
                 /\ ctrl.state \notin {"DATA_OUT", "DATA_IN", "STATUS_DONE_OUT"}
              \/ From({"out_clear"}) /\ To({"out_next"})

\* The end of a transfer.
EndIn == /\ UNCHANGED <<done, OutDt, InDt, OutBuf, InBuf, Pending, OutB>>
         /\ ctrl.state = "STATUS_DONE_IN" /\ ctrl' = [ctrl EXCEPT !.state = "IDLE"]
         /\ InB.state = "done_ok" /\ InB' = NoBd /\ From({"act"}) /\ To({"cb_done"})
EndOut == /\ UNCHANGED <<done, OutDt, InDt, OutBuf, InBuf, Pending, InB>>
          /\ ctrl.state = "STATUS_DONE_OUT" /\ ctrl' = [ctrl EXCEPT !.state = "IDLE"]
          /\ OutB.state = "done_ok" /\ OutB' = NoBd
          /\ From({"act", "act_out"}) /\ To({"cb_done"})
Calls == /\ UNCHANGED <<ctrl, OutDt, InDt, OutBuf, InBuf, Pending, OutB, InB>>
         /\ From({"cb_done"}) /\ To({"peek_setup"}) /\ done' = done \cup {ctrl.req.id}

\* A stall descriptor is written.
PutStall == /\ UNCHANGED <<ctrl, done, OutDt, InDt, OutBuf, InBuf, Pending>>
            /\ ctrl.state = "STALL"
            /\ From({"act", "act_out", "stall_out"}) /\ To({"act_out", "peek_setup", "release"})
            /\ \/ OutB' = StallBdOf /\ InB' = InB
               \/ OutB' = OutB /\ InB' = StallBdOf

\* The request is read, and handled.
Reads == /\ UNCHANGED <<done, OutDt, InDt, OutBuf, InBuf, Pending, OutB, InB>>
         /\ ctrl' = [ctrl EXCEPT !.req = Pending, !.len = 0, !.ofs = 0, !.data = <<>>]
         /\ From({"setup_read"}) /\ To({"handle"})
Refuses == /\ UNCHANGED <<done, OutDt, InDt, OutBuf, InBuf, Pending, OutB>>
           /\ ctrl' = [ctrl EXCEPT !.state = "STALL"]
           /\ InB' = StallBdOf /\ From({"handle"}) /\ To({"stall_out"})
Gives(n) == /\ UNCHANGED <<done, OutDt, InDt, OutBuf, InBuf, Pending, OutB, InB>>
            /\ ctrl.req.dir = "in" /\ n <= ctrl.req.len
            /\ ctrl' = [ctrl EXCEPT !.state = "DATA_IN", !.len = n,
                                    !.data = DataOf(ctrl.req, 0, n)]
            /\ From({"handle"}) /\ To({"in_fill"})
Asks == /\ UNCHANGED <<done, OutDt, InDt, OutBuf, InBuf, Pending, OutB, InB>>
        /\ ctrl.req.dir = "out"
        /\ ctrl' = [ctrl EXCEPT !.state = "DATA_OUT", !.len = ctrl.req.len]
        /\ From({"handle"}) /\ To({"out_peek"})

\* The data of a read.
Fills == /\ UNCHANGED <<ctrl, done, OutDt, InDt, OutBuf, Pending, OutB, InB>>
         /\ Chunk > 0 => InBuf' = SubSeq(ctrl.data, ctrl.ofs + 1, ctrl.ofs + Chunk)
         /\ From({"in_fill"}) /\ To({"in_queue"})
Queues == /\ UNCHANGED <<done, OutDt, InDt, OutBuf, InBuf, Pending, OutB>>
          /\ ctrl' = [ctrl EXCEPT !.ofs = @ + Chunk]
          /\ InB' = DataBd(Chunk) /\ From({"in_queue"})
          /\ pc' = IF Chunk < PktLen THEN "in_status" ELSE AfterData
AsksStatus == /\ UNCHANGED <<done, OutDt, InDt, OutBuf, InBuf, Pending, InB>>
              /\ ctrl' = [ctrl EXCEPT !.state = "STATUS_DONE_OUT"]
              /\ OutB' = DataBd(PktLen) /\ From({"in_status"}) /\ pc' = AfterData

\* The data of a write.
Copies == /\ UNCHANGED <<done, OutDt, InDt, OutBuf, InBuf, Pending, OutB, InB>>
          /\ ctrl' = [ctrl EXCEPT !.ofs = @ + (OutB.len - CrcLen),
                                  !.data = @ \o Prefix(OutBuf, OutB.len - CrcLen)]
          /\ From({"out_read"}) /\ To({"out_clear"})
GivesStatus == /\ UNCHANGED <<done, OutDt, InDt, OutBuf, InBuf, Pending, OutB>>
               /\ ctrl.ofs = ctrl.len /\ ctrl' = [ctrl EXCEPT !.state = "STATUS_DONE_IN"]
               /\ InB' = DataBd(0) /\ From({"out_next"}) /\ pc' = AfterData
AsksMore == /\ UNCHANGED <<ctrl, done, OutDt, InDt, OutBuf, InBuf, Pending, InB>>
            /\ OutB' = DataBd(PktLen) \/ OutB' = OutB
            /\ From({"out_next"}) /\ pc' = AfterData

FwCases == \/ PassOn \/ DropIn \/ DropOut \/ EndIn \/ EndOut \/ Calls \/ PutStall
           \/ Reads \/ Refuses \/ (\E n \in 0 .. MaxLen : Gives(n)) \/ Asks
           \/ Fills \/ Queues \/ AsksStatus \/ Copies \/ GivesStatus \/ AsksMore

\* What the steps of the firmware start from.
LEMMA FwFacts ==
  ASSUME XferInv
  PROVE  /\ bd \in [BdId -> Descriptor] /\ buf \in [BdId -> Seq(Unit)]
         /\ eps \in [Ep -> EpStatus]
         /\ seen \in [setup: BdState, out: BdState, in: BdState] /\ ctrl \in Ctrl
         /\ SeenOK /\ StagesOK /\ FetchOK /\ SeenSetupOK /\ LockoutOK /\ TransferOK
         /\ PlacesOK /\ StatusOK /\ BusOK /\ IndInv /\ TypeOK
         /\ NoBd.state = "none" /\ StallBdOf.state = "rdy_stall"
         /\ \A n : DataBd(n).state = "rdy_data" /\ DataBd(n).len = n
  BY DEF XferInv, Regs, IndInv, TypeOK, TransTypeOK, FwTypeOK, DescriptorsOK, FirmwareOK,
         NoBd, StallBdOf, DataBd

\* Where a SETUP packet waits to be read, and when the wait ends.
LEMMA FwUnhandled ==
  ASSUME XferInv, FwNext
  PROVE  /\ SeenSetupOK'
         /\ pc \in Handling \ {"handle", "stall_out"} => Unhandled
         /\ pc = "setup_read" => ~Unhandled'
         /\ pc # "setup_read" => (Unhandled' <=> Unhandled)
         /\ NoError /\ InSetup => Unhandled
         /\ ~RetrySetup /\ ~RetryOut
<1> USE DEF At, Go, KeepLocal, NextPass
<1> DEFINE Same == UNCHANGED <<bd[SetupBd], seen.setup>>
           Known == /\ SeenSetupOK'
                    /\ pc = "setup_read" => ~Unhandled'
                    /\ pc # "setup_read" => (Unhandled' <=> Unhandled)
<1>1. /\ bd \in [BdId -> Descriptor]
      /\ seen \in [setup: BdState, out: BdState, in: BdState]
      /\ SeenSetupOK /\ LockoutOK /\ SeenOK /\ StagesOK
  BY FwFacts
<1>2. pc \in Handling \ {"handle", "stall_out"} => Unhandled
  BY <1>1 DEF LockoutOK, SeenSetupOK, Unhandled, ReadPlaces, Handling, Unread
<1>3. NoError /\ InSetup => Unhandled
  BY <1>1 DEF NoError, Quiet, SeenSetupOK, Unhandled, ReadPlaces, Unread
<1>4. ~RetrySetup /\ ~RetryOut
  <2>1. ~RetrySetup
    BY <1>1 DEF RetrySetup, SeenSetupOK
  <2>2. ~RetryOut
    BY <1>1 DEF RetryOut, Quiet, SeenOK, StagesOK, Ready
  <2> QED BY <2>1, <2>2
<1>5. ASSUME Same, pc # "setup_read",
             pc' \in Unread \/ pc \notin Unread,
             ~InSetup \/ (pc \in ReadPlaces <=> pc' \in ReadPlaces)
      PROVE  Known
  <2>1. SetupSt' = SetupSt /\ InSetup' = InSetup
    BY <1>5 DEF SetupSt, InSetup
  <2>2. Unhandled' <=> Unhandled
    BY <1>5, <2>1 DEF Unhandled
  <2>3. SeenSetupOK'
    BY <1>1, <1>5, <2>1 DEF SeenSetupOK
  <2> QED BY <1>5, <2>2, <2>3
<1>6. ASSUME PeekSetup PROVE Known
  <2>1. /\ SetupSt' = SetupSt /\ seen'.setup = SetupSt /\ pc' = "peek_out"
        /\ pc = "peek_setup"
    BY <1>1, <1>6 DEF PeekSetup, NoAccess, transVars, SetupSt
  <2>2. Unhandled' <=> Unhandled
    BY <2>1 DEF Unhandled, ReadPlaces
  <2>3. SeenSetupOK'
    BY <1>1, <2>1 DEF SeenSetupOK, InSetup
  <2> QED BY <2>1, <2>2, <2>3
<1>7. ASSUME SetupQueue PROVE Known
  <2>1. SetupSt' = "rdy_data" /\ seen' = seen /\ pc' = "poll" /\ pc = "setup_queue"
    BY <1>1, <1>7, Descriptors, DescriptorValues, PktLenAssumption
       DEF SetupQueue, WriteBd, SetupSt
  <2>2. ~Unhandled' /\ ~Unhandled
    BY <1>1, <2>1 DEF Unhandled, ReadPlaces, LockoutOK
  <2>3. SeenSetupOK'
    BY <1>1, <2>1 DEF SeenSetupOK, InSetup, Unread
  <2> QED BY <2>1, <2>2, <2>3
<1>8. ASSUME SetupRead PROVE Known
  <2>1. Same /\ pc = "setup_read" /\ pc' = "handle" /\ InSetup
    BY <1>1, <1>8 DEF SetupRead, NoAccess, transVars, LockoutOK, Handling
  <2>2. SetupSt' = SetupSt /\ InSetup'
    BY <2>1 DEF SetupSt, InSetup
  <2>3. ~Unhandled'
    BY <2>1, <2>2 DEF Unhandled, ReadPlaces
  <2>4. SeenSetupOK'
    BY <1>1, <2>1, <2>2 DEF SeenSetupOK, InSetup, Unread
  <2> QED BY <2>1, <2>3, <2>4
<1> HIDE DEF Known
<1>9. ASSUME Poll \/ Drain \/ DrainCheck \/ PeekOut \/ PeekIn \/ PollDone \/ Release
      PROVE  Known
  <2>1. Same
    BY <1>1, <1>9 DEF Poll, Drain, DrainCheck, PeekOut, PeekIn, PollDone, NoAccess, transVars,
                      ReadEvt, Release, CelRelease
  <2>2. /\ pc \in {"poll", "drain", "drain_check", "peek_out", "peek_in", "act", "release"}
        /\ pc' \in {"poll", "drain", "drain_check", "peek_setup", "peek_in", "act",
                    "setup_queue"}
        /\ pc = "release" <=> pc' = "setup_queue"
        /\ pc' \in Unread \/ pc \notin Unread
    BY <1>9 DEF Poll, Drain, DrainCheck, PeekOut, PeekIn, PollDone, NoError, Quiet, Unread,
                Release
  <2>3. pc \in ReadPlaces <=> pc' \in ReadPlaces
    BY <2>2 DEF ReadPlaces
  <2> QED BY <1>5, <2>1, <2>2, <2>3
<1>10. ASSUME StatusInDone \/ LastInDone \/ StatusOutDone \/ CbDone \/ StallIn \/ StallOut
       PROVE  Known
  <2>1. Same
    BY <1>1, <1>10, Descriptors
       DEF StatusInDone, LastInDone, StatusOutDone, CbDone, StallIn, StallOut,
           NoAccess, transVars, WriteBd
  <2>2. /\ pc \in {"act", "act_out", "cb_done"} /\ pc' \in {"act_out", "peek_setup", "cb_done"}
    BY <1>10
       DEF StatusInDone, LastInDone, StatusOutDone, CbDone, StallIn, StallOut
  <2> QED BY <1>5, <2>1, <2>2 DEF Unread, ReadPlaces
<1>11. ASSUME \/ SetupOutClear \/ SetupInClear \/ SetupInStatus
              \/ HandleError \/ HandleStallOut \/ HandleWrite
              \/ \E n \in 0 .. MaxLen : HandleRead(n)
       PROVE  Known
  <2>1. Same
    BY <1>1, <1>11, Descriptors
       DEF SetupOutClear, SetupInClear, SetupInStatus, HandleError, HandleStallOut,
           HandleWrite, HandleRead, NoAccess, transVars, WriteBd, WriteStatus
  <2>2. \/ /\ pc \in {"act", "setup_in_clear", "setup_in_status"}
           /\ pc' \in {"setup_in_clear", "setup_in_status", "setup_read"}
        \/ /\ pc \in {"handle", "stall_out"}
           /\ pc' \in {"stall_out", "release", "in_fill", "out_peek"}
    BY <1>11 DEF SetupOutClear, SetupInClear, SetupInStatus, HandleError,
                 HandleStallOut, HandleWrite, HandleRead, NoError, Quiet
  <2> QED BY <1>5, <2>1, <2>2 DEF Unread, ReadPlaces
<1>12. ASSUME FwData PROVE Known
  <2> USE DEF FwData, InFill, InQueue, InStatus, OutPeek, OutRead, OutClear, OutStatus, OutMore,
              DataOutEvent, UnexpectedOut, DataInEvent, UnexpectedIn, DataEvent, Unexpected
  <2>1. Same
    BY <1>1, <1>12, Descriptors DEF NoAccess, transVars, WriteBd, WriteBuf
  <2>2. \/ /\ pc \in {"in_fill", "in_queue", "in_status", "out_peek", "out_read", "out_clear",
                      "out_next"}
           /\ pc' \in {"in_fill", "in_queue", "in_status", "out_peek", "out_read", "out_clear",
                       "out_next", "release"}
        \/ /\ pc \in {"in_fill", "in_queue", "in_status", "out_peek", "out_read", "out_clear",
                      "out_next", "act"} /\ ~InSetup
           /\ pc' \in {"in_fill", "out_peek", "peek_setup"}
    BY <1>12 DEF AfterData, NoError, Quiet
  <2> HIDE DEF FwData
  <2> QED BY <1>5, <2>1, <2>2 DEF Unread, ReadPlaces
<1>13. Known
  BY <1>4, <1>6, <1>7, <1>8, <1>9, <1>10, <1>11, <1>12 DEF FwNext, FwPoll, FwState, FwSetup
<1> QED BY <1>2, <1>3, <1>4, <1>13 DEF Known

\* usb_poll(), up to where it acts on what it read.
LEMMA FwPollCases == ASSUME XferInv, FwPoll PROVE FwCases
<1>1. NoAccess \/ ReadEvt
  BY DEF FwPoll, Poll, Drain, DrainCheck, PeekSetup, PeekOut, PeekIn, PollDone
<1>2. Accessed
  BY <1>1, NothingWritten DEF NoAccess, transVars, ReadEvt
<1>3. /\ UNCHANGED <<ctrl, done>>
      /\ pc \in {"poll", "drain", "drain_check", "peek_setup", "peek_out", "peek_in", "act"}
      /\ pc' \in {"poll", "drain", "drain_check", "peek_setup", "peek_out", "peek_in", "act"}
  BY DEF FwPoll, Poll, Drain, DrainCheck, PeekSetup, PeekOut, PeekIn, PollDone, KeepLocal,
         At, Go, NextPass, NoError, Quiet
<1> QED BY <1>2, <1>3 DEF FwCases, PassOn, Accessed, To

\* The status stage and the stall descriptors.
LEMMA FwStateCases == ASSUME XferInv, FwNext, FwState PROVE FwCases
<1> USE DEF At, Go, KeepLocal, NextPass, To, From
<1>1. ~RetrySetup /\ ~RetryOut
  BY FwUnhandled
<1>2. /\ bd \in [BdId -> Descriptor] /\ SeenOK /\ "done_ok" \notin Ready
  BY FwFacts DEF Ready
<1>3. CASE StatusInDone
  <2>1. WriteBd(InBd, NoBd) /\ UNCHANGED done
    BY <1>3 DEF StatusInDone
  <2>2. /\ UNCHANGED <<OutDt, InDt, OutBuf, InBuf, Pending>> /\ OutB' = OutB /\ InB' = NoBd
    BY <1>2, <2>1, WroteBd
  <2>3. InB.state = "done_ok"
    BY <1>2, <1>3 DEF StatusInDone, SeenOK, InB
  <2>4. EndIn
    BY <1>3, <2>1, <2>2, <2>3 DEF StatusInDone, EndIn
  <2> QED BY <2>4 DEF FwCases
<1>4. CASE LastInDone
  <2>1. WriteBd(InBd, NoBd) /\ UNCHANGED <<ctrl, done>>
    BY <1>4 DEF LastInDone
  <2>2. /\ UNCHANGED <<OutDt, InDt, OutBuf, InBuf, Pending>> /\ OutB' = OutB /\ InB' = NoBd
    BY <1>2, <2>1, WroteBd
  <2>3. InB.state = "done_ok"
    BY <1>2, <1>4, <2>1 DEF LastInDone, SeenOK, InB
  <2>4. pc = "act" /\ pc' \in {"act_out", "peek_setup"}
    BY <1>4 DEF LastInDone
  <2>5. DropIn
    BY <2>1, <2>2, <2>3, <2>4 DEF DropIn
  <2> QED BY <2>5 DEF FwCases
<1>5. CASE StatusOutDone
  <2>1. WriteBd(OutBd, NoBd) /\ UNCHANGED done
    BY <1>5 DEF StatusOutDone
  <2>2. /\ UNCHANGED <<OutDt, InDt, OutBuf, InBuf, Pending>> /\ InB' = InB /\ OutB' = NoBd
    BY <1>2, <2>1, WroteBd
  <2>3. OutB.state = "done_ok"
    BY <1>2, <1>5 DEF StatusOutDone, SeenOK, OutB
  <2>4. EndOut
    BY <1>5, <2>1, <2>2, <2>3 DEF StatusOutDone, EndOut
  <2> QED BY <2>4 DEF FwCases
<1>6. CASE CbDone
  <2>1. Accessed
    BY <1>6, NothingWritten DEF CbDone, NoAccess, transVars
  <2>2. Calls
    BY <1>6, <2>1 DEF CbDone, Calls, Accessed
  <2> QED BY <2>2 DEF FwCases
<1>7. CASE StallIn
  <2>1. WriteBd(InBd, StallBdOf) /\ UNCHANGED <<ctrl, done>>
    BY <1>7 DEF StallIn
  <2>2. /\ UNCHANGED <<OutDt, InDt, OutBuf, InBuf, Pending>> /\ OutB' = OutB
        /\ InB' = StallBdOf
    BY <1>2, <2>1, WroteBd
  <2>3. PutStall
    BY <1>7, <2>1, <2>2 DEF StallIn, PutStall
  <2> QED BY <2>3 DEF FwCases
<1>8. CASE StallOut
  <2>1. WriteBd(OutBd, StallBdOf) /\ UNCHANGED <<ctrl, done>>
    BY <1>8 DEF StallOut
  <2>2. /\ UNCHANGED <<OutDt, InDt, OutBuf, InBuf, Pending>> /\ InB' = InB
        /\ OutB' = StallBdOf
    BY <1>2, <2>1, WroteBd
  <2>3. PutStall
    BY <1>8, <2>1, <2>2 DEF StallOut, PutStall
  <2> QED BY <2>3 DEF FwCases
<1> QED BY <1>1, <1>3, <1>4, <1>5, <1>6, <1>7, <1>8 DEF FwState

\* A SETUP packet.
LEMMA FwSetupCases == ASSUME XferInv, FwNext, FwSetup PROVE FwCases
<1> USE DEF At, Go, KeepLocal, NextPass, To, From
<1>1. /\ bd \in [BdId -> Descriptor] /\ eps \in [Ep -> EpStatus]
  BY FwFacts
<1>2. CASE SetupOutClear
  <2>1. WriteBd(OutBd, NoBd) /\ UNCHANGED <<ctrl, done>> /\ pc = "act"
        /\ pc' = "setup_in_clear"
    BY <1>2 DEF SetupOutClear, NoError, Quiet
  <2>2. /\ UNCHANGED <<OutDt, InDt, OutBuf, InBuf, Pending>> /\ InB' = InB /\ OutB' = NoBd
    BY <1>1, <2>1, WroteBd
  <2>3. Unhandled
    BY <1>2, FwUnhandled DEF SetupOutClear
  <2>4. DropOut
    BY <2>1, <2>2, <2>3 DEF DropOut
  <2> QED BY <2>4 DEF FwCases
<1>3. CASE SetupInClear
  <2>1. WriteBd(InBd, NoBd) /\ UNCHANGED <<ctrl, done>> /\ pc = "setup_in_clear"
        /\ pc' = "setup_in_status"
    BY <1>3 DEF SetupInClear
  <2>2. /\ UNCHANGED <<OutDt, InDt, OutBuf, InBuf, Pending>> /\ OutB' = OutB /\ InB' = NoBd
    BY <1>1, <2>1, WroteBd
  <2>3. Unhandled
    BY <2>1, FwUnhandled DEF Handling
  <2>4. DropIn
    BY <2>1, <2>2, <2>3 DEF DropIn
  <2> QED BY <2>4 DEF FwCases
<1>4. CASE SetupInStatus
  <2>1. /\ UNCHANGED <<ctrl, done, bd, buf>> /\ pc = "setup_in_status" /\ pc' = "setup_read"
        /\ eps' = [eps EXCEPT ![<<0, "in">>] = Ep0Status("in")]
    BY <1>4 DEF SetupInStatus, WriteStatus
  <2>2. Unhandled
    BY <2>1, FwUnhandled DEF Handling
  <2>3. OutDt' = OutDt /\ InDt' = 1
    BY <1>1, <2>1, Descriptors DEF OutDt, InDt, Ep0Status
  <2>4. PassOn
    BY <2>1, <2>2, <2>3 DEF PassOn, OutBuf, InBuf, Pending, OutB, InB
  <2> QED BY <2>4 DEF FwCases
<1>5. CASE SetupRead
  <2>1. Accessed
    BY <1>5, NothingWritten DEF SetupRead, NoAccess, transVars
  <2>2. Reads
    BY <1>5, <2>1 DEF SetupRead, Reads, Accessed, Pending
  <2> QED BY <2>2 DEF FwCases
<1>6. CASE HandleError
  <2>1. WriteBd(InBd, StallBdOf) /\ UNCHANGED done
    BY <1>6 DEF HandleError
  <2>2. /\ UNCHANGED <<OutDt, InDt, OutBuf, InBuf, Pending>> /\ OutB' = OutB
        /\ InB' = StallBdOf
    BY <1>1, <2>1, WroteBd
  <2>3. Refuses
    BY <1>6, <2>1, <2>2 DEF HandleError, Refuses
  <2> QED BY <2>3 DEF FwCases
<1>7. CASE HandleStallOut
  <2>1. WriteBd(OutBd, StallBdOf) /\ UNCHANGED <<ctrl, done>> /\ pc = "stall_out"
        /\ pc' = "release"
    BY <1>7 DEF HandleStallOut
  <2>2. /\ UNCHANGED <<OutDt, InDt, OutBuf, InBuf, Pending>> /\ InB' = InB
        /\ OutB' = StallBdOf
    BY <1>1, <2>1, WroteBd
  <2>3. ctrl.state = "STALL"
    BY <2>1, FwFacts DEF StagesOK
  <2>4. PutStall
    BY <2>1, <2>2, <2>3 DEF PutStall
  <2> QED BY <2>4 DEF FwCases
<1>8. CASE HandleWrite
  <2>1. Accessed
    BY <1>8, NothingWritten DEF HandleWrite, NoAccess, transVars
  <2>2. Asks
    BY <1>8, <2>1 DEF HandleWrite, Asks, Accessed
  <2> QED BY <2>2 DEF FwCases
<1>9. CASE \E n \in 0 .. MaxLen : HandleRead(n)
  <2>1. PICK n \in 0 .. MaxLen : HandleRead(n)
    BY <1>9
  <2>2. Accessed
    BY <2>1, NothingWritten DEF HandleRead, NoAccess, transVars
  <2>3. Gives(n)
    BY <2>1, <2>2 DEF HandleRead, Gives, Accessed
  <2> QED BY <2>3 DEF FwCases
<1>10. CASE Release
  <2>1. Accessed
    BY <1>10, NothingWritten DEF Release, CelRelease
  <2>2. PassOn
    BY <1>10, <2>1 DEF Release, PassOn, Accessed
  <2> QED BY <2>2 DEF FwCases
<1>11. CASE SetupQueue
  <2> DEFINE b == DataBd(PktLen)
  <2>1. WriteBd(SetupBd, b) /\ UNCHANGED <<ctrl, done>> /\ pc = "setup_queue" /\ pc' = "poll"
    BY <1>11 DEF SetupQueue
  <2> HIDE DEF b
  <2>2. /\ UNCHANGED <<OutDt, InDt, OutBuf, InBuf, Pending>> /\ InB' = InB /\ OutB' = OutB
    BY <1>1, <2>1, WroteBd
  <2>3. PassOn
    BY <2>1, <2>2 DEF PassOn
  <2> QED BY <2>3 DEF FwCases
<1> QED BY <1>2, <1>3, <1>4, <1>5, <1>6, <1>7, <1>8, <1>9, <1>10, <1>11 DEF FwSetup

\* The data stage.
LEMMA FwDataCases == ASSUME XferInv, FwNext, FwData PROVE FwCases
<1> USE DEF At, Go, KeepLocal, NextPass, To, From
<1>1. /\ bd \in [BdId -> Descriptor] /\ buf \in [BdId -> Seq(Unit)]
      /\ seen \in [setup: BdState, out: BdState, in: BdState]
      /\ SeenOK /\ StagesOK /\ PlacesOK /\ TransferOK /\ "done_ok" \notin Ready
      /\ ctrl.state \in CtrlState
  BY FwFacts DEF Ready, Ctrl
<1>2. CASE InFill
  <2>1. /\ UNCHANGED <<ctrl, done, eps, bd>> /\ pc = "in_fill" /\ pc' = "in_queue"
        /\ IF Chunk > 0
             THEN buf' = [buf EXCEPT ![InBd] = SubSeq(ctrl.data, ctrl.ofs + 1, ctrl.ofs + Chunk)]
             ELSE UNCHANGED buf
    BY <1>2 DEF InFill, WriteBuf, NoAccess, transVars
  <2> DEFINE s == SubSeq(ctrl.data, ctrl.ofs + 1, ctrl.ofs + Chunk)
  <2>2. /\ Chunk > 0 => buf' = [buf EXCEPT ![InBd] = s]
        /\ ~(Chunk > 0) => UNCHANGED buf
    BY <2>1
  <2> HIDE DEF s
  <2>3. /\ Chunk > 0 => InBuf' = s
        /\ OutBuf' = OutBuf /\ Pending' = Pending
    BY <1>1, <2>2, Descriptors DEF InBuf, OutBuf, Pending
  <2>4. UNCHANGED <<OutDt, InDt, OutB, InB>>
    BY <2>1 DEF OutDt, InDt, OutB, InB
  <2>5. Fills
    BY <2>1, <2>3, <2>4 DEF Fills, s
  <2> QED BY <2>5 DEF FwCases
<1>3. CASE InQueue
  <2> DEFINE b == DataBd(Chunk)
  <2>1. WriteBd(InBd, b) /\ UNCHANGED done /\ pc = "in_queue"
    BY <1>3 DEF InQueue
  <2> HIDE DEF b
  <2>2. /\ UNCHANGED <<OutDt, InDt, OutBuf, InBuf, Pending>> /\ OutB' = OutB /\ InB' = b
    BY <1>1, <2>1, WroteBd
  <2>3. Queues
    BY <1>3, <2>1, <2>2 DEF InQueue, Queues, b
  <2> QED BY <2>3 DEF FwCases
<1>4. CASE InStatus
  <2> DEFINE b == DataBd(PktLen)
  <2>1. WriteBd(OutBd, b) /\ UNCHANGED done
    BY <1>4 DEF InStatus
  <2> HIDE DEF b
  <2>2. /\ UNCHANGED <<OutDt, InDt, OutBuf, InBuf, Pending>> /\ InB' = InB /\ OutB' = b
    BY <1>1, <2>1, WroteBd
  <2>3. AsksStatus
    BY <1>4, <2>1, <2>2 DEF InStatus, AsksStatus, b
  <2> QED BY <2>3 DEF FwCases
<1>5. CASE OutPeek
  <2>1. Accessed /\ UNCHANGED <<ctrl, done>> /\ pc = "out_peek"
    BY <1>5, NothingWritten DEF OutPeek, NoAccess, transVars
  <2>2. /\ pc' = IF OutB.state = "done_ok" THEN "out_read" ELSE "out_next"
        /\ InSetup' = InSetup
    <3> DEFINE st == bd[OutBd].state
    <3>1. seen' = [seen EXCEPT !.out = st]
          /\ pc' = IF seen'.out = "done_ok" THEN "out_read" ELSE "out_next"
      BY <1>5 DEF OutPeek
    <3> HIDE DEF st
    <3>2. seen'.out = st /\ seen'.setup = seen.setup
      BY <1>1, <3>1
    <3> QED BY <3>1, <3>2 DEF st, OutB, InSetup
  <2>3. OutB.state = IF InSetup THEN "none" ELSE "done_ok"
    BY <1>1, <2>1 DEF PlacesOK
  <2>4. PassOn
    BY <2>1, <2>2, <2>3 DEF PassOn, Accessed
  <2> QED BY <2>4 DEF FwCases
<1>6. CASE OutRead
  <2>1. Accessed
    BY <1>6, NothingWritten DEF OutRead, NoAccess, transVars
  <2>2. Copies
    BY <1>6, <2>1 DEF OutRead, Copies, Accessed, OutB, OutBuf
  <2> QED BY <2>2 DEF FwCases
<1>7. CASE OutClear
  <2>1. WriteBd(OutBd, NoBd) /\ UNCHANGED <<ctrl, done>>
    BY <1>7 DEF OutClear
  <2>2. /\ UNCHANGED <<OutDt, InDt, OutBuf, InBuf, Pending>> /\ InB' = InB /\ OutB' = NoBd
    BY <1>1, <2>1, WroteBd
  <2>3. DropOut
    BY <1>7, <2>1, <2>2 DEF OutClear, DropOut
  <2> QED BY <2>3 DEF FwCases
<1>8. CASE OutStatus
  <2> DEFINE b == DataBd(0)
  <2>1. WriteBd(InBd, b) /\ UNCHANGED done
    BY <1>8 DEF OutStatus
  <2> HIDE DEF b
  <2>2. /\ UNCHANGED <<OutDt, InDt, OutBuf, InBuf, Pending>> /\ OutB' = OutB /\ InB' = b
    BY <1>1, <2>1, WroteBd
  <2>3. GivesStatus
    BY <1>8, <2>1, <2>2 DEF OutStatus, GivesStatus, b
  <2> QED BY <2>3 DEF FwCases
<1>9. CASE OutMore
  <2> DEFINE b == DataBd(PktLen)
  <2>1. WriteBd(OutBd, b) \/ NoAccess
    BY <1>9 DEF OutMore
  <2> HIDE DEF b
  <2>2. /\ UNCHANGED <<OutDt, InDt, OutBuf, InBuf, Pending>> /\ InB' = InB
        /\ OutB' = b \/ OutB' = OutB
    BY <1>1, <2>1, WroteBd, NothingWritten DEF NoAccess, transVars, Accessed
  <2>3. AsksMore
    BY <1>9, <2>2 DEF OutMore, AsksMore, b
  <2> QED BY <2>3 DEF FwCases
<1>10. CASE DataOutEvent \/ DataInEvent
  <2>1. /\ Accessed /\ UNCHANGED <<ctrl, done, seen>> /\ pc = "act" /\ ~InSetup
        /\ \/ pc' = "out_peek" /\ seen.out = "done_ok"
           \/ pc' = "in_fill" /\ seen.in = "done_ok"
    BY <1>10, NothingWritten
       DEF DataOutEvent, DataInEvent, DataEvent, NoAccess, transVars, NoError, Quiet
  <2>2. /\ pc' = "out_peek" => OutB.state = "done_ok"
        /\ pc' = "in_fill" => InB.state = "done_ok"
        /\ ~InSetup'
    BY <1>1, <2>1 DEF SeenOK, OutB, InB, InSetup
  <2>3. PassOn
    BY <2>1, <2>2 DEF PassOn, Accessed
  <2> QED BY <2>3 DEF FwCases
<1>11. CASE UnexpectedOut
  <2>1. /\ WriteBd(OutBd, NoBd) /\ UNCHANGED <<ctrl, done>> /\ pc = "act"
        /\ pc' = "peek_setup" /\ seen.out = "done_ok"
        /\ ctrl.state \notin {"DATA_OUT", "STATUS_DONE_OUT"}
    BY <1>11 DEF UnexpectedOut, Unexpected, NoError, Quiet
  <2>2. /\ UNCHANGED <<OutDt, InDt, OutBuf, InBuf, Pending>> /\ InB' = InB /\ OutB' = NoBd
    BY <1>1, <2>1, WroteBd
  <2>3. ctrl.state # "DATA_IN"
    BY <1>1, <2>1 DEF SeenOK, StagesOK
  <2>4. DropOut
    BY <2>1, <2>2, <2>3 DEF DropOut
  <2> QED BY <2>4 DEF FwCases
<1>12. CASE UnexpectedIn
  <2>1. /\ WriteBd(InBd, NoBd) /\ UNCHANGED <<ctrl, done>> /\ pc = "act"
        /\ pc' = "peek_setup" /\ seen.in = "done_ok"
    BY <1>12 DEF UnexpectedIn, Unexpected, NoError, Quiet
  <2>2. /\ UNCHANGED <<OutDt, InDt, OutBuf, InBuf, Pending>> /\ OutB' = OutB /\ InB' = NoBd
    BY <1>1, <2>1, WroteBd
  <2>3. InB.state = "done_ok"
    BY <1>1, <2>1 DEF SeenOK, InB
  <2>4. DropIn
    BY <2>1, <2>2, <2>3 DEF DropIn
  <2> QED BY <2>4 DEF FwCases
<1> QED BY <1>2, <1>3, <1>4, <1>5, <1>6, <1>7, <1>8, <1>9, <1>10, <1>11, <1>12 DEF FwData

\* Every step of the firmware is one of these.
LEMMA FwMoves == ASSUME XferInv, FwNext PROVE FwCases
  BY FwPollCases, FwStateCases, FwSetupCases, FwDataCases DEF FwNext

\* When the firmware reads the descriptor of a SETUP packet again.
LEMMA FwInSetup ==
  ASSUME XferInv, FwNext
  PROVE  InSetup' = InSetup \/ (pc = "peek_setup" /\ pc' = "peek_out")
<1> USE DEF At, Go, KeepLocal
<1>1. seen \in [setup: BdState, out: BdState, in: BdState]
  BY FwFacts
<1>2. CASE PeekSetup
  BY <1>2 DEF PeekSetup
<1>3. ASSUME NEW s, seen' = [seen EXCEPT !.out = s] \/ seen' = [seen EXCEPT !.in = s]
      PROVE  InSetup' = InSetup
  BY <1>1, <1>3 DEF InSetup
<1>4. CASE PeekOut \/ PeekIn \/ OutPeek
  BY <1>3, <1>4 DEF PeekOut, PeekIn, OutPeek
<1>5. CASE UNCHANGED seen
  BY <1>5 DEF InSetup
<1>6. PeekSetup \/ PeekOut \/ PeekIn \/ UNCHANGED seen
  \/ OutPeek
  <2>1. FwPoll => PeekSetup \/ PeekOut \/ PeekIn \/ UNCHANGED seen
    BY DEF FwPoll, Poll, Drain, DrainCheck, PollDone
  <2>2. FwState => UNCHANGED seen
    BY DEF FwState, StatusInDone, LastInDone, StatusOutDone, CbDone, StallIn, StallOut,
           RetrySetup, RetryOut
  <2>3. FwSetup => UNCHANGED seen
    BY DEF FwSetup, SetupOutClear, SetupInClear, SetupInStatus, SetupRead, HandleError,
           HandleStallOut, HandleWrite, HandleRead, Release, SetupQueue
  <2>4. FwData => OutPeek \/ UNCHANGED seen
    BY DEF FwData, InFill, InQueue, InStatus, OutRead, OutClear, OutStatus, OutMore,
           DataOutEvent, UnexpectedOut, DataInEvent, UnexpectedIn, DataEvent, Unexpected
  <2> QED BY <2>1, <2>2, <2>3, <2>4 DEF FwNext
<1> QED BY <1>2, <1>4, <1>5, <1>6

\* The firmware writes the status RAM only under the lockout.
LEMMA FwStatusRam ==
  ASSUME XferInv, FwNext
  PROVE  \/ UNCHANGED eps
         \/ /\ pc = "setup_in_status" /\ cel
            /\ eps' = [eps EXCEPT ![<<0, "in">>] = Ep0Status("in")]
<1> USE DEF NoAccess, transVars, ReadEvt, WriteBd, WriteBuf, CelRelease
<1>1. CASE SetupInStatus
  <2>1. pc = "setup_in_status" /\ pc \in Handling /\ pc \notin Unread \cup {"setup_queue"}
    BY <1>1 DEF SetupInStatus, At, Handling, Unread
  <2>2. cel
    BY <2>1, FwFacts DEF LockoutOK
  <2> QED BY <1>1, <2>1, <2>2 DEF SetupInStatus, WriteStatus
<1>2. SetupInStatus \/ UNCHANGED eps
  <2>1. FwPoll => UNCHANGED eps
    BY DEF FwPoll, Poll, Drain, DrainCheck, PeekSetup, PeekOut, PeekIn, PollDone
  <2>2. FwState => UNCHANGED eps
    BY DEF FwState, StatusInDone, LastInDone, StatusOutDone, CbDone, StallIn, StallOut,
           RetrySetup, RetryOut
  <2>3. FwSetup => SetupInStatus \/ UNCHANGED eps
    BY DEF FwSetup, SetupOutClear, SetupInClear, SetupRead, HandleError,
           HandleStallOut, HandleWrite, HandleRead, Release, SetupQueue
  <2>4. FwData => UNCHANGED eps
    BY DEF FwData, InFill, InQueue, InStatus, OutPeek, OutRead, OutClear, OutStatus, OutMore,
           DataOutEvent, UnexpectedOut, DataInEvent, UnexpectedIn, DataEvent, Unexpected
  <2> QED BY <2>1, <2>2, <2>3, <2>4 DEF FwNext
<1> QED BY <1>1, <1>2

\* A step of the firmware.
FwMove == XferInv /\ FwNext /\ FwCases /\ UNCHANGED <<host, sie>>

\* What it leaves alone.
LEMMA FwKept ==
  ASSUME FwMove
  PROVE  /\ HostKept /\ host' = host /\ sie' = sie
         /\ HStage' = HStage /\ HDt' = HDt /\ Got' = Got /\ SendLen' = SendLen
         /\ Begun' = Begun
         /\ OutDt' = OutDt /\ (AtStart' <=> AtStart)
         /\ InSetup' = InSetup \/ (pc = "peek_setup" /\ pc' = "peek_out")
         /\ ctrl \in Ctrl /\ HostTypeOK
<1>1. host' = host /\ sie' = sie /\ XferInv /\ FwNext /\ FwCases
  BY DEF FwMove
<1>2. InSetup' = InSetup \/ (pc = "peek_setup" /\ pc' = "peek_out")
  BY <1>1, FwInSetup
<1>3. /\ HostKept
      /\ HStage' = HStage /\ HDt' = HDt /\ Got' = Got /\ SendLen' = SendLen
      /\ Begun' = Begun
  BY <1>1 DEF HostKept, HStage, HDt, Got, SendLen, Begun
<1>4. OutDt' = OutDt
  BY <1>1 DEF FwCases, PassOn, DropIn, DropOut, EndIn, EndOut, Calls, PutStall, Reads,
              Refuses, Gives, Asks, Fills, Queues, AsksStatus, Copies, GivesStatus, AsksMore
<1>5. AtStart' <=> AtStart
  BY <1>1, <1>3, <1>4 DEF AtStart
<1>6. ctrl \in Ctrl /\ HostTypeOK
  BY <1>1, FwFacts DEF TypeOK
<1> QED BY <1>1, <1>2, <1>3, <1>4, <1>5, <1>6

\* The status RAM, in a step of the firmware.
LEMMA FwStatus == FwMove => StatusOK'
<1> SUFFICES ASSUME FwMove PROVE StatusOK'
  OBVIOUS
<1>1. /\ StatusOK /\ sie' = sie /\ eps \in [Ep -> EpStatus]
      /\ sie.pc \in {"tx_data", "wait_ack", "stall_bd"} => ~cel
  BY FwFacts DEF FwMove, FetchOK
<1>2. \/ UNCHANGED eps
      \/ cel /\ eps' = [eps EXCEPT ![<<0, "in">>] = Ep0Status("in")]
  BY FwStatusRam DEF FwMove
<1>3. /\ eps'[<<0, "out">>] = eps[<<0, "out">>]
      /\ eps'[<<0, "in">>] = eps[<<0, "in">>] \/ (cel /\ ~eps'[<<0, "in">>].halt)
  BY <1>1, <1>2, Descriptors DEF Ep0Status
<1> QED BY <1>1, <1>3 DEF StatusOK

\* The transaction in progress, in a step of the firmware.
LEMMA FwBus == FwMove => BusOK'
<1> SUFFICES ASSUME FwMove PROVE BusOK'
  OBVIOUS
<1>1. /\ BusOK /\ sie' = sie /\ host' = host /\ eps \in [Ep -> EpStatus]
      /\ sie.pc = "wait_ack" => ~cel
  BY FwFacts DEF FwMove, FetchOK
<1>2. \/ UNCHANGED eps
      \/ cel /\ eps' = [eps EXCEPT ![<<0, "in">>] = Ep0Status("in")]
  BY FwStatusRam DEF FwMove
<1>3. OutDt' = OutDt /\ (InDt' = InDt \/ cel)
  BY <1>1, <1>2, Descriptors DEF OutDt, InDt
<1> QED BY <1>1, <1>3 DEF BusOK

\* SETUP packets and the lockout, in a step of the firmware.
LEMMA FwSeenSetup == FwMove => SeenSetupOK'
  BY FwUnhandled DEF FwMove

\* What the host got, in a step of the firmware.
LEMMA FwGot == FwMove => GotOK'
<1> SUFFICES ASSUME FwMove PROVE GotOK'
  OBVIOUS
<1>1. GotOK /\ host' = host /\ Got' = Got
  BY FwKept DEF FwMove, XferInv
<1> QED BY <1>1 DEF GotOK

\* The request, the places and the descriptors that a step of the firmware changes.
LEMMA FwChanges ==
  ASSUME FwMove
  PROVE  /\ Pending' = Pending
         /\ done' = done \/ Calls
         /\ Reads \/ ctrl'.req = ctrl.req
         /\ Reads => /\ Unhandled /\ ~Unhandled' /\ OutB.state = "none" /\ InB.state = "none"
                     /\ pc' = "handle" /\ ctrl'.req = Pending /\ UNCHANGED <<OutB, InB>>
         /\ ~Reads => (Unhandled' => Unhandled)
         /\ pc' = "handle" => Reads
         /\ pc' = "cb_done" => /\ EndIn \/ EndOut
                               /\ ctrl'.state = "IDLE"
         /\ InB'.state = "done_ok" => InB' = InB
         /\ OutB'.state = "done_ok" => OutB' = OutB
         /\ AfterData \in {"release", "peek_setup"}
<1> USE DEF FwCases, PassOn, DropIn, DropOut, EndIn, EndOut, Calls, PutStall, Reads,
            Refuses, Gives, Asks, Fills, Queues, AsksStatus, Copies, GivesStatus, AsksMore,
            From, To
<1>1. /\ ctrl \in Ctrl /\ FwCases /\ AfterData \in {"release", "peek_setup"}
      /\ NoBd.state = "none" /\ StallBdOf.state = "rdy_stall"
      /\ \A n : DataBd(n).state = "rdy_data"
  BY FwKept, FwFacts DEF FwMove, AfterData, NextPass
<1>2. Pending' = Pending /\ (done' = done \/ Calls)
  BY <1>1
<1>3. Reads \/ ctrl'.req = ctrl.req
  BY <1>1 DEF Ctrl
<1>4. Reads => /\ Unhandled /\ ~Unhandled' /\ OutB.state = "none" /\ InB.state = "none"
               /\ pc' = "handle" /\ ctrl'.req = Pending /\ UNCHANGED <<OutB, InB>>
  <2> SUFFICES ASSUME Reads
               PROVE  /\ Unhandled /\ ~Unhandled' /\ OutB.state = "none" /\ InB.state = "none"
                      /\ pc' = "handle" /\ ctrl'.req = Pending /\ UNCHANGED <<OutB, InB>>
    OBVIOUS
  <2>1. pc = "setup_read" /\ pc \in Handling \ {"handle", "stall_out"} /\ pc \in Handling
    BY DEF Handling
  <2>2. Unhandled /\ ~Unhandled'
    BY <2>1, FwUnhandled DEF FwMove
  <2>3. OutB.state = "none" /\ InB.state = "none"
    BY <2>1, FwFacts DEF FwMove, StagesOK, OutB, InB
  <2>4. ctrl'.req = Pending
    BY <1>1 DEF Ctrl
  <2> QED BY <2>2, <2>3, <2>4
<1>5. pc' = "handle" => Reads
  BY <1>1
<1>6. pc' = "cb_done" => /\ EndIn \/ EndOut
                         /\ ctrl'.state = "IDLE"
  <2>1. pc' = "cb_done" => EndIn \/ EndOut
    BY <1>1
  <2>2. EndIn \/ EndOut => ctrl'.state = "IDLE"
    BY <1>1 DEF Ctrl
  <2> QED BY <2>1, <2>2
<1>7. ~Reads => (Unhandled' => Unhandled)
  <2>1. pc = "setup_read" => ~Unhandled'
    BY FwUnhandled DEF FwMove
  <2>2. pc # "setup_read" => (Unhandled' <=> Unhandled)
    BY FwUnhandled DEF FwMove
  <2> QED BY <2>1, <2>2
<1>8. InB'.state = "done_ok" => InB' = InB
  BY <1>1
<1>9. OutB'.state = "done_ok" => OutB' = OutB
  BY <1>1
<1> QED BY <1>1, <1>2, <1>3, <1>4, <1>5, <1>6, <1>7, <1>8, <1>9

\* cb_done is called only for a request the host is done with.
LEMMA CalledBack ==
  ASSUME XferInv, pc = "cb_done"
  PROVE  /\ Unhandled => Pending.id # ctrl.req.id
         /\ ctrl.req = host.req => host.stage \in {"status_out", "idle"}
         /\ ctrl.state = "IDLE"
<1>1. FreshOK /\ NumbersOK /\ BegunOK /\ ctrl.state = "IDLE" /\ ~Fresh
  BY DEF XferInv, NumbersOK, Fresh
<1>2. Unhandled => Pending.id # ctrl.req.id
  BY <1>1 DEF FreshOK
<1>3. ASSUME ctrl.req = host.req, host.stage \notin {"status_out", "idle"} PROVE FALSE
  <2>1. host.stage # "setup"
    BY <1>1, <1>3 DEF FreshOK
  <2>2. Begun /\ HStage = host.stage
    BY <1>3, <2>1 DEF Begun, HStage
  <2>3. ~Unhandled
    BY <1>1, <1>2, <1>3, <2>2 DEF BegunOK
  <2>4. Going
    BY <1>1, <2>2, <2>3 DEF BegunOK
  <2> QED BY <1>1, <1>3, <2>2, <2>4 DEF Going
<1> QED BY <1>1, <1>2, <1>3

\* cb_done is called for no request a second time.
LEMMA FwCalls ==
  ASSUME FwMove, Calls
  PROVE  /\ Unhandled => Pending.id # ctrl.req.id
         /\ ctrl.req = host.req => host.stage \in {"status_out", "idle"}
         /\ ctrl.state = "IDLE" /\ pc' = "peek_setup"
         /\ done' = done \cup {ctrl.req.id} /\ ctrl' = ctrl
<1>1. /\ pc = "cb_done" /\ pc' = "peek_setup" /\ done' = done \cup {ctrl.req.id}
      /\ ctrl' = ctrl
  BY DEF Calls, From, To
<1> QED BY <1>1, CalledBack DEF FwMove

\* The numbers of the requests, in a step of the firmware.
LEMMA FwNumbers == FwMove => NumbersOK'
<1> SUFFICES ASSUME FwMove PROVE NumbersOK'
  OBVIOUS
<1>1. NumbersOK /\ host' = host /\ ctrl \in Ctrl
  BY FwKept DEF FwMove, XferInv
<1>2. \A r : Numbered(r) => Numbered(r)'
  BY <1>1 DEF Numbered
<1>3. Numbered(ctrl'.req)
  BY <1>1, FwChanges DEF NumbersOK
<1>4. Unhandled' => Numbered(Pending') /\ Pending'.id \notin done'
  <2> SUFFICES ASSUME Unhandled' PROVE Numbered(Pending') /\ Pending'.id \notin done'
    OBVIOUS
  <2>1. Unhandled /\ Pending' = Pending
    BY FwChanges
  <2>2. CASE Calls
    BY <1>1, <2>1, <2>2, FwCalls DEF NumbersOK
  <2>3. CASE done' = done
    BY <1>1, <2>1, <2>3 DEF NumbersOK
  <2> QED BY <2>2, <2>3, FwChanges
<1>5. \A i \in done' : i <= host.req.id
                       /\ (i = host.req.id => host.stage \in {"status_out", "idle"})
  <2>1. CASE Calls
    <3>1. ctrl.req.id <= host.req.id /\ (ctrl.req.id = host.req.id => ctrl.req = host.req)
      BY <1>1 DEF NumbersOK, Numbered
    <3>2. done' = done \cup {ctrl.req.id}
          /\ (ctrl.req = host.req => host.stage \in {"status_out", "idle"})
      BY <2>1, FwCalls
    <3> QED BY <1>1, <3>1, <3>2 DEF NumbersOK
  <2>2. CASE done' = done
    BY <1>1, <2>2 DEF NumbersOK
  <2> QED BY <2>1, <2>2, FwChanges
<1>6. ctrl'.req.id \in done' => ctrl'.state = "IDLE" /\ pc' \notin {"handle", "cb_done"}
  <2>1. CASE Calls
    BY <2>1, FwCalls
  <2>2. CASE done' = done /\ Reads
    <3>1. Unhandled /\ ctrl'.req = Pending
      BY <2>2, FwChanges
    <3> QED BY <1>1, <2>2, <3>1 DEF NumbersOK
  <2>3. CASE done' = done /\ ~Reads
    <3> SUFFICES ASSUME ctrl.req.id \in done
                 PROVE  ctrl'.state = "IDLE" /\ pc' \notin {"handle", "cb_done"}
      BY <2>3, FwChanges
    <3>1. ctrl.state = "IDLE" /\ pc \notin {"handle", "cb_done"}
      BY <1>1 DEF NumbersOK
    <3>2. pc' \notin {"handle", "cb_done"}
      BY <2>3, <3>1, FwChanges DEF EndIn, EndOut
    <3>3. TransferOK /\ StagesOK /\ FwCases
      BY FwFacts DEF FwMove
    <3>4. pc \notin {"in_fill", "in_queue", "in_status", "out_peek", "out_read", "out_clear",
                     "out_next"}
      BY <3>1, <3>3 DEF TransferOK, StagesOK
    <3>5. ctrl' = ctrl
      BY <2>3, <3>1, <3>3, <3>4
         DEF FwCases, PassOn, DropIn, DropOut, EndIn, EndOut, Calls, PutStall,
             Refuses, Gives, Asks, Fills, Queues, AsksStatus, Copies, GivesStatus, AsksMore, From
    <3> QED BY <3>1, <3>2, <3>5
  <2> QED BY <2>1, <2>2, <2>3, FwChanges
<1>7. pc' = "cb_done" => ctrl'.state = "IDLE"
  BY FwChanges
<1> QED BY <1>1, <1>2, <1>3, <1>4, <1>5, <1>6, <1>7 DEF NumbersOK, Numbered

\* A SETUP packet sent again, in a step of the firmware: it is a new request that is
\* handled afresh.
LEMMA FwFresh == FwMove => FreshOK'
<1> SUFFICES ASSUME FwMove PROVE FreshOK'
  OBVIOUS
<1>1. FreshOK /\ host' = host
  BY FwKept DEF FwMove, XferInv
<1>2. CASE Reads
  <2>1. Fresh'
    BY <1>2, FwChanges DEF Fresh
  <2> QED BY <2>1 DEF FreshOK
<1>3. CASE ~Reads
  <2>1. Fresh => Fresh'
    <3>1. pc' = "cb_done" => ~Fresh
      BY FwChanges DEF EndIn, EndOut, Fresh
    <3> QED BY <3>1, FwChanges DEF Fresh
  <2>2. ctrl'.req = ctrl.req /\ Pending' = Pending /\ (Unhandled' => Unhandled)
    BY <1>3, FwChanges
  <2> QED BY <1>1, <2>1, <2>2 DEF FreshOK
<1> QED BY <1>2, <1>3

\* The descriptors the firmware is at, in a step of the firmware.
LEMMA FwPlaces == FwMove => PlacesOK'
<1> SUFFICES ASSUME FwMove PROVE PlacesOK'
  OBVIOUS
<1> USE DEF FwCases, PassOn, DropIn, DropOut, EndIn, EndOut, Calls, PutStall, Reads,
            Refuses, Gives, Asks, Fills, Queues, AsksStatus, Copies, GivesStatus, AsksMore,
            From, To
<1>1. /\ ctrl \in Ctrl /\ FwCases /\ AfterData \in {"release", "peek_setup"}
      /\ NoBd.state = "none" /\ StallBdOf.state = "rdy_stall" /\ PlacesOK
      /\ \A n : DataBd(n).state = "rdy_data"
      /\ InSetup' = InSetup \/ pc' = "peek_out"
      /\ pc = "handle" => InSetup /\ OutB.state = "none" /\ InB.state = "none"
      /\ pc = "setup_read" => InDt = 1
  BY FwKept, FwFacts, FwChanges
     DEF FwMove, LockoutOK, StagesOK, PlacesOK, Handling, OutB, InB
<1>2. OutB'.state = "rdy_stall" \/ InB'.state = "rdy_stall" => ctrl'.state = "STALL"
  <2> SUFFICES ASSUME OutB'.state = "rdy_stall" \/ InB'.state = "rdy_stall"
               PROVE  ctrl'.state = "STALL"
    OBVIOUS
  <2>1. CASE Refuses \/ PutStall
    BY <1>1, <2>1 DEF Ctrl
  <2>2. CASE ~(Refuses \/ PutStall)
    <3>1. OutB' = OutB \/ OutB'.state \in {"none", "rdy_data"}
      BY <1>1, <2>2
    <3>2. InB' = InB \/ InB'.state \in {"none", "rdy_data"}
      BY <1>1, <2>2
    <3>3. OutB.state = "rdy_stall" \/ InB.state = "rdy_stall"
      BY <3>1, <3>2
    <3>4. ctrl.state = "STALL" /\ pc # "handle"
      BY <1>1, <3>3 DEF PlacesOK
    <3>5. pc \notin {"in_fill", "in_queue", "in_status", "out_peek", "out_read", "out_clear",
                     "out_next"}
      BY <3>4, FwFacts DEF FwMove, TransferOK, StagesOK
    <3>6. ctrl'.state = ctrl.state
      BY <1>1, <2>2, <3>4, <3>5 DEF Ctrl
    <3> QED BY <3>4, <3>6
  <2> QED BY <2>1, <2>2
<1>3. OutB'.state = "rdy_data" => OutB' = DataBd(PktLen)
  <2>1. OutB' = OutB \/ OutB' = DataBd(PktLen) \/ OutB' = NoBd \/ OutB' = StallBdOf
    BY <1>1
  <2> QED BY <1>1, <2>1 DEF PlacesOK
<1>4. pc' = "out_peek" => OutB'.state = IF InSetup' THEN "none" ELSE "done_ok"
  <2> SUFFICES ASSUME pc' = "out_peek" PROVE OutB'.state = IF InSetup' THEN "none" ELSE "done_ok"
    OBVIOUS
  <2>1. PassOn \/ Asks
    BY <1>1
  <2> QED BY <1>1, <2>1
<1>5. pc' \in {"out_read", "out_clear"} => ~InSetup' /\ OutB'.state = "done_ok"
  <2> SUFFICES ASSUME pc' \in {"out_read", "out_clear"}
               PROVE  ~InSetup' /\ OutB'.state = "done_ok"
    OBVIOUS
  <2>1. PassOn \/ Copies
    BY <1>1
  <2>2. CASE PassOn
    BY <2>2
  <2>3. CASE Copies
    <3>1. ~InSetup /\ OutB.state = "done_ok" /\ InSetup' = InSetup
      BY <1>1, <2>3 DEF PlacesOK
    <3> QED BY <2>3, <3>1
  <2> QED BY <2>1, <2>2, <2>3
<1>6. pc' = "out_next" => OutB'.state = "none"
  BY <1>1
<1>7. pc' \in {"in_fill", "in_queue"} => InB'.state = IF InSetup' THEN "none" ELSE "done_ok"
  <2> SUFFICES ASSUME pc' \in {"in_fill", "in_queue"}
               PROVE  InB'.state = IF InSetup' THEN "none" ELSE "done_ok"
    OBVIOUS
  <2>1. PassOn \/ (\E n \in 0 .. MaxLen : Gives(n)) \/ Fills
    BY <1>1
  <2>2. CASE PassOn
    BY <2>2
  <2>3. CASE \E n \in 0 .. MaxLen : Gives(n)
    <3>1. pc = "handle" /\ pc' = "in_fill" /\ InB' = InB
      BY <2>3
    <3>2. InSetup /\ InB.state = "none"
      BY <1>1, <3>1
    <3>3. InSetup' = InSetup
      BY <1>1, <3>1
    <3>4. InSetup'
      BY <3>2, <3>3, Zenon
    <3>5. InB'.state = "none"
      BY <3>1, <3>2
    <3> QED BY <3>4, <3>5
  <2>4. CASE Fills
    <3>1. InB.state = (IF InSetup THEN "none" ELSE "done_ok") /\ InSetup' = InSetup
      BY <1>1, <2>4 DEF PlacesOK
    <3> QED BY <2>4, <3>1
  <2> QED BY <2>1, <2>2, <2>3, <2>4
<1>8. pc' \in {"setup_read", "handle"} => InDt' = 1
  <2>1. pc' = "handle" => pc = "setup_read" /\ InDt' = InDt
    BY <1>1
  <2>2. pc' = "setup_read" => InDt' = 1
    BY <1>1
  <2> QED BY <1>1, <2>1, <2>2
<1>9. pc' = "handle" => ctrl'.data = <<>>
  <2>1. pc' = "handle" => Reads
    BY FwChanges
  <2> QED BY <1>1, <2>1 DEF Ctrl
<1> QED BY <1>2, <1>3, <1>4, <1>5, <1>6, <1>7, <1>8, <1>9 DEF PlacesOK

\* The state of the transfer in the places that handle it.
LEMMA FwPlaceState ==
  ASSUME FwMove
  PROVE  /\ pc \in {"in_fill", "in_queue", "in_status"} => ctrl.state = "DATA_IN"
         /\ pc \in {"out_peek", "out_read", "out_clear", "out_next"} => ctrl.state = "DATA_OUT"
         /\ pc = "stall_out" => ctrl.state = "STALL"
         /\ pc = "handle" => /\ ctrl.ofs = 0 /\ ctrl.data = <<>> /\ InDt = 1 /\ InSetup
                             /\ OutB.state = "none" /\ InB.state = "none"
         /\ ctrl.state \in CtrlState /\ ctrl.req \in Request /\ ctrl.len \in 0 .. MaxLen
         /\ ctrl.ofs \in Int /\ ctrl.data \in Seq(Unit)
         /\ InBuf \in Seq(Unit) /\ OutBuf \in Seq(Unit)
<1>1. /\ TransferOK /\ StagesOK /\ PlacesOK /\ LockoutOK /\ ctrl \in Ctrl
      /\ buf \in [BdId -> Seq(Unit)]
  BY FwFacts DEF FwMove
<1>2. pc = "handle" => /\ ctrl.ofs = 0 /\ ctrl.data = <<>> /\ InDt = 1 /\ InSetup
                       /\ OutB.state = "none" /\ InB.state = "none"
  BY <1>1 DEF TransferOK, StagesOK, PlacesOK, LockoutOK, Handling, OutB, InB
<1>3. /\ pc \in {"in_fill", "in_queue", "in_status"} => ctrl.state = "DATA_IN"
      /\ pc \in {"out_peek", "out_read", "out_clear", "out_next"} => ctrl.state = "DATA_OUT"
      /\ pc = "stall_out" => ctrl.state = "STALL"
  BY <1>1 DEF TransferOK, StagesOK
<1> QED BY <1>1, <1>2, <1>3, Descriptors DEF Ctrl, InBuf, OutBuf

\* The steps that leave the transfer as it is.
Steady == PassOn \/ DropIn \/ DropOut \/ Calls \/ PutStall \/ AsksMore

\* They change no data and no stage.
LEMMA FwSteady ==
  ASSUME FwMove, Steady
  PROVE  /\ UNCHANGED <<ctrl, OutBuf, InBuf, Pending>>
         /\ pc \notin {"handle", "in_fill", "in_queue", "in_status", "out_read"}
         /\ pc' \notin {"handle", "in_queue", "in_status", "out_clear"}
         /\ InB' = InB \/ InB'.state \in {"none", "rdy_stall"}
         /\ (Sends' <=> Sends) /\ (Takes' <=> Takes) /\ ~First
<1>1. /\ UNCHANGED <<ctrl, OutBuf, InBuf, Pending>>
      /\ pc \notin {"handle", "in_fill", "in_queue", "in_status", "out_read"}
      /\ pc' \notin {"handle", "in_queue", "in_status", "out_clear"}
      /\ InB' = InB \/ InB' = NoBd \/ InB' = StallBdOf
  <2>1. AfterData \in {"release", "peek_setup"}
    BY DEF AfterData, NextPass
  <2> QED BY <2>1 DEF Steady, PassOn, DropIn, DropOut, Calls, PutStall, AsksMore, From, To
<1>2. NoBd.state = "none" /\ StallBdOf.state = "rdy_stall"
  BY FwFacts DEF FwMove
<1>3. (Sends' <=> Sends) /\ (Takes' <=> Takes) /\ ~First
  BY <1>1 DEF Sends, Takes, First
<1> QED BY <1>1, <1>2, <1>3

\* What is queued of a read, in a step of the firmware.
LEMMA FwInData == FwMove => InDataOK'
<1> SUFFICES ASSUME FwMove PROVE InDataOK'
  OBVIOUS
<1>1. /\ InDataOK /\ PlacesOK /\ TypeOK /\ TransferOK /\ FwCases
      /\ InSetup' = InSetup \/ pc' = "peek_out"
  BY FwFacts, FwKept DEF FwMove, XferInv
<1>2. /\ ctrl \in Ctrl /\ ctrl.state \in CtrlState /\ ctrl.req \in Request
      /\ ctrl.len \in 0 .. MaxLen /\ ctrl.ofs \in Int
  BY FwPlaceState, FwKept
<1>3. CASE Steady
  <2>1. /\ UNCHANGED <<ctrl, InBuf>> /\ pc' \notin {"in_queue", "in_status"}
        /\ (Sends' <=> Sends) /\ ~First
        /\ Queued' => Queued /\ InB' = InB
    BY <1>3, FwSteady DEF Queued
  <2>2. Chunk' = Chunk
    BY <2>1 DEF Chunk
  <2> QED BY <1>1, <2>1, <2>2 DEF InDataOK
<1>4. CASE EndIn \/ EndOut \/ Refuses \/ Asks \/ GivesStatus \/ Reads \/ Copies
  <2>1. ctrl.state = "DATA_OUT" \/ ~Copies
    BY FwPlaceState DEF Copies, From
  <2>2. ctrl'.state \notin {"DATA_IN", "STATUS_DONE_OUT"} \/ pc' = "handle"
    BY <1>2, <1>4, <2>1 DEF EndIn, EndOut, Refuses, Asks, GivesStatus, Reads, Copies, Ctrl, To
  <2> QED BY <2>2 DEF InDataOK, Sends
<1>5. CASE \E n \in 0 .. MaxLen : Gives(n)
  <2>1. PICK n \in 0 .. MaxLen : Gives(n)
    BY <1>5
  <2>2. /\ ctrl'.req = ctrl.req /\ ctrl.req.dir = "in" /\ n <= ctrl.req.len
        /\ ctrl'.len = n /\ ctrl'.ofs = ctrl.ofs /\ ctrl'.state = "DATA_IN"
        /\ ctrl'.data = DataOf(ctrl.req, 0, n)
        /\ pc = "handle" /\ pc' = "in_fill" /\ InB' = InB
    <3> DEFINE d == DataOf(ctrl.req, 0, n)
    <3>1. ctrl' = [ctrl EXCEPT !.state = "DATA_IN", !.len = n, !.data = d]
      BY <2>1 DEF Gives
    <3> HIDE DEF d
    <3>2. /\ ctrl'.req = ctrl.req /\ ctrl'.len = n /\ ctrl'.ofs = ctrl.ofs
          /\ ctrl'.state = "DATA_IN" /\ ctrl'.data = d
      BY <1>2, <3>1 DEF Ctrl
    <3> QED BY <2>1, <3>2 DEF Gives, From, To, d
  <2>3. ctrl.ofs = 0 /\ InSetup /\ InSetup' = InSetup /\ InB.state = "none"
    BY <1>1, <2>2, FwPlaceState
  <2>4. First'
    <3>1. InSetup'
      BY <2>3, Zenon
    <3> QED BY <2>2, <3>1 DEF First
  <2>5. ~Queued'
    BY <2>2, <2>3 DEF Queued
  <2> QED BY <2>2, <2>3, <2>4, <2>5 DEF InDataOK
<1>6. CASE Fills
  <2>1. /\ UNCHANGED <<ctrl, InB>> /\ pc = "in_fill" /\ pc' = "in_queue"
        /\ Chunk > 0 => InBuf' = SubSeq(ctrl.data, ctrl.ofs + 1, ctrl.ofs + Chunk)
    BY <1>6 DEF Fills, From, To
  <2>2. Chunk' = Chunk /\ Sends /\ ctrl.state = "DATA_IN" /\ ~Queued' /\ InSetup' = InSetup
        /\ (~First' => ~First)
    <3>1. ctrl.state = "DATA_IN" /\ InSetup' = InSetup
      BY <1>1, <2>1, FwPlaceState
    <3>2. InB.state \in {"none", "done_ok"}
      BY <1>1, <2>1 DEF PlacesOK
    <3>3. ~First' => ~First
      <4>1. First' <=> InSetup'
        BY <2>1 DEF First
      <4>2. First <=> InSetup
        BY <2>1 DEF First
      <4> QED BY <3>1, <4>1, <4>2, Zenon
    <3> QED BY <2>1, <3>1, <3>2, <3>3 DEF Chunk, Sends, Queued
  <2>3. /\ Chunk \in Nat /\ ctrl.ofs + Chunk <= ctrl.len /\ ctrl.ofs \in Nat
    BY <1>1, <2>1, ChunkFacts
  <2>4. Chunk > 0 => InBuf' = DataOf(ctrl.req, ctrl.ofs, ctrl.ofs + Chunk)
    <3>1. ctrl.data = DataOf(ctrl.req, 0, ctrl.len)
      BY <1>1, <2>2 DEF InDataOK
    <3>2. SubSeq(DataOf(ctrl.req, 0, ctrl.len), ctrl.ofs + 1, ctrl.ofs + Chunk) =
            DataOf(ctrl.req, ctrl.ofs, ctrl.ofs + Chunk)
      BY <1>2, <2>3, DataOfPart
    <3> QED BY <2>1, <3>1, <3>2
  <2> QED BY <1>1, <2>1, <2>2, <2>4 DEF InDataOK
<1>7. CASE Queues
  <2> DEFINE n == Chunk
  <2>1. /\ UNCHANGED InBuf /\ ctrl' = [ctrl EXCEPT !.ofs = @ + n] /\ InB' = DataBd(n)
        /\ pc = "in_queue" /\ pc' = IF n < PktLen THEN "in_status" ELSE AfterData
    BY <1>7 DEF Queues, From
  <2>2. /\ n \in Nat /\ ctrl.ofs + n <= ctrl.len /\ ctrl.ofs \in Nat /\ n <= PktLen
        /\ n < PktLen => ctrl.ofs + n = ctrl.len
    <3>1. Chunk \in Nat /\ ctrl.ofs + Chunk <= ctrl.len /\ ctrl.ofs \in Nat
      BY <1>1, <2>1, ChunkFacts
    <3> QED BY <1>2, <3>1, PktLenAssumption, MaxLenAssumption DEF Chunk, MinOf
  <2>3. ctrl.state = "DATA_IN" /\ Sends
    BY <2>1, FwPlaceState DEF Sends
  <2>4. n > 0 => InBuf = DataOf(ctrl.req, ctrl.ofs, ctrl.ofs + n)
    BY <1>1, <2>1, <2>3 DEF InDataOK
  <2>5. AfterData \in {"release", "peek_setup"} /\ InSetup' = InSetup
    BY <1>1, <2>1 DEF AfterData, NextPass
  <2>6. ~First => ctrl.ofs > 0
    BY <1>1, <2>3 DEF InDataOK
  <2>7. First <=> InSetup
    BY <2>1 DEF First
  <2>8. /\ ctrl.req.dir = "in" /\ ctrl.len <= ctrl.req.len
        /\ ctrl.data = DataOf(ctrl.req, 0, ctrl.len)
    BY <1>1, <2>3 DEF InDataOK
  <2> HIDE DEF n
  <2>9. /\ ctrl'.ofs = ctrl.ofs + n /\ ctrl'.len = ctrl.len /\ ctrl'.req = ctrl.req
        /\ ctrl'.data = ctrl.data /\ ctrl'.state = ctrl.state
    BY <1>2, <2>1 DEF Ctrl
  <2>10. Prefix(InBuf, n) = DataOf(ctrl.req, ctrl.ofs, ctrl.ofs + n)
    <3>1. CASE n > 0
      <4>1. ctrl.ofs + n \in 0 .. MaxLen /\ ctrl.ofs <= ctrl.ofs + n
        BY <1>2, <2>2, MaxLenAssumption
      <4>2. Len(InBuf) = (ctrl.ofs + n) - ctrl.ofs /\ InBuf \in Seq(Unit)
        BY <1>2, <2>2, <2>4, <3>1, <4>1, DataOfType
      <4>3. Len(InBuf) = n
        BY <2>2, <4>2
      <4> QED BY <2>4, <3>1, <4>2, <4>3, PrefixWhole
    <3>2. CASE n = 0
      <4>1. ctrl.ofs \in 0 .. MaxLen /\ ctrl.ofs + n = ctrl.ofs
        BY <1>2, <2>2, <3>2, MaxLenAssumption
      <4>2. Prefix(InBuf, 0) = <<>>
        BY FwPlaceState, PrefixWhole
      <4> QED BY <1>2, <3>2, <4>1, <4>2, DataOfNone
    <3> QED BY <2>2, <3>1, <3>2
  <2>11. InB'.state = "rdy_data" /\ InB'.len = n
    BY <2>1, FwFacts DEF FwMove
  <2>12. ~First' => ctrl'.ofs > 0
    <3>1. CASE n < PktLen
      <4>1. pc' = "in_status"
        BY <2>1, <3>1
      <4>2. First' <=> InSetup'
        BY <4>1 DEF First
      <4>3. ~First' => ~First
        BY <2>5, <2>7, <4>2, Zenon
      <4> QED BY <2>2, <2>6, <2>9, <4>3
    <3>2. CASE ~(n < PktLen)
      BY <2>2, <2>9, <3>2, PktLenAssumption
    <3> QED BY <3>1, <3>2
  <2>13. pc' = "in_status" => ctrl'.ofs = ctrl'.len
    BY <2>1, <2>2, <2>5, <2>9
  <2>14. pc' # "in_queue" /\ ctrl'.state # "STATUS_DONE_OUT"
    BY <2>1, <2>3, <2>5, <2>9
  <2>15. /\ InB'.len \in 0 .. PktLen /\ InB'.len <= ctrl'.ofs
         /\ Prefix(InBuf', InB'.len) = DataOf(ctrl'.req, ctrl'.ofs - InB'.len, ctrl'.ofs)
         /\ InB'.len < PktLen => ctrl'.ofs = ctrl'.len
    <3>1. ctrl'.ofs - InB'.len = ctrl.ofs
      BY <2>2, <2>9, <2>11
    <3>2. Prefix(InBuf', InB'.len) = DataOf(ctrl'.req, ctrl'.ofs - InB'.len, ctrl'.ofs)
      BY <2>1, <2>9, <2>10, <2>11, <3>1
    <3> QED BY <2>2, <2>9, <2>11, <3>2, PktLenAssumption
  <2>16. ctrl'.ofs \in 0 .. ctrl'.len
    BY <1>2, <2>2, <2>9, MaxLenAssumption
  <2> QED BY <2>8, <2>9, <2>12, <2>13, <2>14, <2>15, <2>16 DEF InDataOK
<1>8. CASE AsksStatus
  <2>1. /\ UNCHANGED <<InBuf, InB>> /\ ctrl' = [ctrl EXCEPT !.state = "STATUS_DONE_OUT"]
        /\ pc = "in_status" /\ pc' = AfterData
    BY <1>8 DEF AsksStatus, From
  <2>2. /\ ctrl'.ofs = ctrl.ofs /\ ctrl'.len = ctrl.len /\ ctrl'.req = ctrl.req
        /\ ctrl'.data = ctrl.data /\ ctrl'.state = "STATUS_DONE_OUT"
    BY <1>2, <2>1 DEF Ctrl
  <2>3. Sends /\ pc' \notin {"in_queue", "in_status"}
    BY <2>1, FwPlaceState DEF Sends, AfterData, NextPass
  <2>4. ctrl.ofs = ctrl.len /\ (Queued' <=> Queued)
    BY <1>1, <2>1, <2>3 DEF InDataOK, Queued
  <2> QED BY <1>1, <2>1, <2>2, <2>3, <2>4 DEF InDataOK
<1> QED BY <1>1, <1>3, <1>4, <1>5, <1>6, <1>7, <1>8 DEF FwCases, Steady

\* What waits in the OUT buffer, after a step that leaves the transfer as it is.
LEMMA SteadyHeld ==
  ASSUME FwMove, Steady
  PROVE  /\ Held' = Held \/ Held' = 0
         /\ (PassOn \/ DropIn \/ Calls \/ AsksMore) => Held' = Held
<1>1. UNCHANGED ctrl
  BY FwSteady
<1>2. CASE PassOn \/ DropIn \/ Calls
  <2>1. OutB' = OutB /\ pc # "out_clear" /\ pc' # "out_clear"
    BY <1>2 DEF PassOn, DropIn, Calls, From, To
  <2> QED BY <1>1, <2>1 DEF Held
<1>3. CASE PutStall
  BY <1>3 DEF PutStall, Held
<1>4. CASE AsksMore
  <2>1. OutB.state = "none" /\ OutB'.state # "done_ok"
    BY <1>4, FwFacts DEF FwMove, PlacesOK, AsksMore, From
  <2> QED BY <1>1, <2>1 DEF Held
<1>5. CASE DropOut /\ ~(PassOn \/ DropIn \/ Calls \/ AsksMore)
  <2>1. OutB'.state = "none"
    BY <1>5, FwFacts DEF FwMove, DropOut
  <2> QED BY <1>5, <2>1 DEF Held
<1> QED BY <1>2, <1>3, <1>4, <1>5 DEF Steady, PutStall

\* What is received of a write, in a step of the firmware.
LEMMA FwOutData == FwMove => OutDataOK'
<1> SUFFICES ASSUME FwMove PROVE OutDataOK'
  OBVIOUS
<1>1. OutDataOK /\ PlacesOK /\ FwCases
  BY FwFacts DEF FwMove, XferInv
<1>2. /\ ctrl \in Ctrl /\ ctrl.state \in CtrlState /\ ctrl.req \in Request
      /\ ctrl.len \in 0 .. MaxLen /\ ctrl.ofs \in Int /\ OutBuf \in Seq(Unit)
  BY FwPlaceState, FwKept
<1>3. CASE Steady
  <2>1. UNCHANGED <<ctrl, OutBuf>> /\ (Takes' <=> Takes)
    BY <1>3, FwSteady
  <2>2. CASE Held' = Held
    BY <1>1, <2>1, <2>2 DEF OutDataOK, Recv
  <2>3. CASE Held' = 0
    <3> SUFFICES ASSUME Takes PROVE OutDataOK'
      BY <2>1 DEF OutDataOK
    <3>1. /\ ctrl.req.dir = "out" /\ ctrl.len = ctrl.req.len /\ Held \in 0 .. PktLen
          /\ ctrl.ofs \in Nat /\ ctrl.ofs + Held <= ctrl.len
          /\ ctrl.data = DataOf(ctrl.req, 0, ctrl.ofs)
          /\ ctrl.state = "STATUS_DONE_IN" => ctrl.ofs = ctrl.len
      BY <1>1 DEF OutDataOK, Recv
    <3>2. ctrl.ofs + 0 <= ctrl.len /\ 0 \in 0 .. PktLen
      BY <1>2, <3>1, PktLenAssumption, MaxLenAssumption
    <3> QED BY <2>1, <2>3, <3>1, <3>2 DEF OutDataOK, Recv
  <2> QED BY <1>3, <2>2, <2>3, SteadyHeld
<1>4. CASE \/ EndIn \/ EndOut \/ Reads \/ Refuses \/ (\E n \in 0 .. MaxLen : Gives(n))
           \/ Fills \/ Queues \/ AsksStatus
  <2>1. Fills \/ Queues => ctrl.state = "DATA_IN"
    BY FwPlaceState DEF Fills, Queues, From
  <2>2. ctrl'.state \notin {"DATA_OUT", "STATUS_DONE_IN"} \/ pc' = "handle"
    <3>1. CASE Fills \/ Queues
      BY <1>2, <2>1, <3>1 DEF Fills, Queues, Ctrl
    <3>2. CASE EndIn \/ EndOut \/ Reads \/ Refuses \/ AsksStatus
      BY <1>2, <3>2 DEF EndIn, EndOut, Reads, Refuses, AsksStatus, Ctrl, To
    <3>3. CASE \E n \in 0 .. MaxLen : Gives(n)
      BY <1>2, <3>3 DEF Gives, Ctrl
    <3> QED BY <1>4, <3>1, <3>2, <3>3
  <2> QED BY <2>2 DEF OutDataOK, Takes
<1>5. CASE Asks
  <2>1. /\ ctrl' = [ctrl EXCEPT !.state = "DATA_OUT", !.len = ctrl.req.len]
        /\ pc = "handle" /\ OutB' = OutB /\ ctrl.req.dir = "out"
    BY <1>5 DEF Asks, From
  <2>2. /\ ctrl'.state = "DATA_OUT" /\ ctrl'.len = ctrl.req.len /\ ctrl'.req = ctrl.req
        /\ ctrl'.ofs = ctrl.ofs /\ ctrl'.data = ctrl.data
    BY <1>2, <2>1 DEF Ctrl
  <2>3. ctrl.ofs = 0 /\ ctrl.data = <<>> /\ OutB.state = "none"
    BY <2>1, FwPlaceState
  <2>4. Held' = 0 /\ Recv' = 0
    <3>1. Held' = 0
      BY <2>1, <2>3 DEF Held
    <3> QED BY <2>2, <2>3, <3>1 DEF Recv
  <2>5. ctrl.req.len \in 0 .. MaxLen /\ DataOf(ctrl.req, 0, 0) = <<>>
    <3>1. 0 \in 0 .. MaxLen
      BY MaxLenAssumption
    <3> QED BY <1>2, <3>1, RequestFields, DataOfNone
  <2>6. ctrl'.data = DataOf(ctrl'.req, 0, ctrl'.ofs)
    BY <2>2, <2>3, <2>5
  <2> QED BY <2>1, <2>2, <2>3, <2>4, <2>5, <2>6, PktLenAssumption, MaxLenAssumption
          DEF OutDataOK
<1>6. CASE Copies
  <2> DEFINE n == OutB.len - CrcLen
             d == Prefix(OutBuf, n)
  <2>1. /\ ctrl' = [ctrl EXCEPT !.ofs = @ + n, !.data = @ \o d]
        /\ pc = "out_read" /\ pc' = "out_clear"
    BY <1>6 DEF Copies, From, To
  <2>2. ctrl.state = "DATA_OUT" /\ Takes /\ OutB.state = "done_ok"
    BY <1>1, <2>1, FwPlaceState DEF Takes, PlacesOK
  <2>3. Held = n
    BY <2>1, <2>2 DEF Held
  <2>4. /\ ctrl.req.dir = "out" /\ ctrl.len = ctrl.req.len /\ n \in 0 .. PktLen
        /\ ctrl.ofs \in Nat /\ ctrl.ofs + n <= ctrl.len
        /\ ctrl.data = DataOf(ctrl.req, 0, ctrl.ofs)
        /\ n > 0 => d = DataOf(ctrl.req, ctrl.ofs, ctrl.ofs + n)
    BY <1>1, <2>2, <2>3 DEF OutDataOK, Recv
  <2>5. n = 0 => d = <<>>
    BY <1>2, PrefixWhole
  <2> HIDE DEF n, d
  <2>6. /\ ctrl'.state = "DATA_OUT" /\ ctrl'.len = ctrl.len /\ ctrl'.req = ctrl.req
        /\ ctrl'.ofs = ctrl.ofs + n /\ ctrl'.data = ctrl.data \o d
    BY <1>2, <2>1, <2>2 DEF Ctrl
  <2>7. Held' = 0
    BY <2>1 DEF Held
  <2>8. ctrl.ofs + n \in 0 .. MaxLen /\ ctrl.ofs <= ctrl.ofs + n /\ n \in Nat
    BY <1>2, <2>4, PktLenAssumption, MaxLenAssumption
  <2>9. d = DataOf(ctrl.req, ctrl.ofs, ctrl.ofs + n)
    <3>1. CASE n > 0
      BY <2>4, <3>1
    <3>2. CASE n = 0
      <4>1. ctrl.ofs \in 0 .. MaxLen /\ ctrl.ofs + n = ctrl.ofs
        BY <2>4, <2>8, <3>2
      <4> QED BY <1>2, <2>5, <3>2, <4>1, DataOfNone
    <3> QED BY <2>8, <3>1, <3>2
  <2>10. ctrl'.data = DataOf(ctrl'.req, 0, ctrl'.ofs)
    <3> DEFINE z == 0
               o == ctrl.ofs
               e == ctrl.ofs + n
               r == ctrl.req
    <3>1. z \in Nat /\ z <= o /\ o \in Nat /\ o <= e /\ e \in 0 .. MaxLen /\ r \in Request
      BY <1>2, <2>4, <2>8
    <3>2. ctrl'.data = DataOf(r, z, o) \o DataOf(r, o, e)
      BY <2>4, <2>6, <2>9
    <3>3. ctrl'.req = r /\ ctrl'.ofs = e
      BY <2>6
    <3> HIDE DEF z, o, e, r
    <3>4. ctrl'.data = DataOf(r, z, e)
      BY <3>1, <3>2, DataOfJoin
    <3> QED BY <3>3, <3>4 DEF z
  <2>11. Recv' = ctrl.ofs + n
    BY <2>6, <2>7, <2>8, <2>4 DEF Recv
  <2> QED BY <2>4, <2>6, <2>7, <2>8, <2>10, <2>11, PktLenAssumption DEF OutDataOK
<1>7. CASE GivesStatus
  <2>1. /\ ctrl' = [ctrl EXCEPT !.state = "STATUS_DONE_IN"] /\ pc = "out_next"
        /\ ctrl.ofs = ctrl.len
    BY <1>7 DEF GivesStatus, From
  <2>2. /\ ctrl'.state = "STATUS_DONE_IN" /\ ctrl'.len = ctrl.len /\ ctrl'.req = ctrl.req
        /\ ctrl'.ofs = ctrl.ofs /\ ctrl'.data = ctrl.data
    BY <1>2, <2>1 DEF Ctrl
  <2>3. Takes /\ Held' = 0
    BY <2>1, <2>2, FwPlaceState DEF Takes, Held
  <2>4. Recv' = ctrl.len
    BY <1>2, <2>1, <2>2, <2>3, MaxLenAssumption DEF Recv
  <2>5. /\ ctrl.req.dir = "out" /\ ctrl.len = ctrl.req.len /\ ctrl.ofs \in Nat
        /\ ctrl.data = DataOf(ctrl.req, 0, ctrl.ofs)
    BY <1>1, <2>3 DEF OutDataOK
  <2> QED BY <1>2, <2>1, <2>2, <2>3, <2>4, <2>5, PktLenAssumption, MaxLenAssumption
          DEF OutDataOK
<1> QED BY <1>1, <1>3, <1>4, <1>5, <1>6, <1>7 DEF FwCases, Steady

\* A firmware that leaves its transfer as it is stays in step with the host.
LEMMA SteadyGoing ==
  ASSUME FwMove, Steady, Begun, ~Unhandled, Going
  PROVE  Going'
<1>1. /\ UNCHANGED ctrl /\ pc # "handle" /\ pc' # "handle"
      /\ InB' = InB \/ InB'.state \in {"none", "rdy_stall"}
      /\ (Sends' <=> Sends) /\ (Takes' <=> Takes)
      /\ Held' = Held \/ Held' = 0
      /\ (PassOn \/ DropIn \/ Calls \/ AsksMore) => Held' = Held
  BY FwSteady, SteadyHeld
<1>2. /\ HStage' = HStage /\ HDt' = HDt /\ Got' = Got /\ SendLen' = SendLen /\ host' = host
      /\ OutDt' = OutDt /\ (AtStart' <=> AtStart) /\ NoBd.state = "none"
  BY FwKept, FwFacts DEF FwMove
<1>3. InDt' = InDt
  BY DEF Steady, PassOn, DropIn, DropOut, Calls, PutStall, AsksMore
<1>4. Sends => ReadGoing'
  <2> SUFFICES ASSUME Sends PROVE ReadGoing'
    OBVIOUS
  <2>1. ctrl.state \in {"DATA_IN", "STATUS_DONE_OUT"} /\ ReadGoing
    BY DEF Sends, Going
  <2>2. pc \notin {"out_clear", "out_next"}
    BY <2>1, FwPlaceState
  <2>3. OutB' = OutB
    BY <2>1, <2>2 DEF Steady, PassOn, DropIn, DropOut, Calls, PutStall, AsksMore, From
  <2>4. (Queued' <=> Queued) /\ (Queued => InB' = InB)
    <3>1. InB' = InB \/ (InB.state = "done_ok" /\ InB' = NoBd)
      BY <2>1 DEF Steady, PassOn, DropIn, DropOut, Calls, PutStall, AsksMore
    <3> QED BY <1>2, <3>1 DEF Queued
  <2> QED BY <1>1, <1>2, <1>3, <2>1, <2>3, <2>4 DEF ReadGoing
<1>5. Takes => WriteGoing'
  <2> SUFFICES ASSUME Takes PROVE WriteGoing'
    OBVIOUS
  <2>1. ctrl.state \in {"DATA_OUT", "STATUS_DONE_IN"} /\ WriteGoing
    BY DEF Takes, Going
  <2>2. Held' = Held
    <3>1. CASE PassOn \/ DropIn \/ Calls \/ AsksMore
      BY <1>1, <3>1
    <3>2. CASE PutStall
      BY <2>1, <3>2 DEF PutStall
    <3>3. CASE DropOut
      <4>1. ctrl.state = "STATUS_DONE_IN" \/ pc = "out_clear"
        BY <2>1, <3>3 DEF DropOut, From
      <4>2. Held = 0
        BY <4>1 DEF Held
      <4> QED BY <1>1, <4>2
    <3> QED BY <3>1, <3>2, <3>3 DEF Steady
  <2>3. Recv' = Recv
    BY <1>1, <2>2 DEF Recv
  <2>4. InB'.state # "done_ok"
    BY <1>1, <2>1 DEF WriteGoing
  <2> QED BY <1>1, <1>2, <1>3, <2>1, <2>3, <2>4 DEF WriteGoing
<1> QED BY <1>1, <1>2, <1>4, <1>5 DEF Going

\* The end of a transfer, and the refusal of a request.
LEMMA EndGoing ==
  ASSUME FwMove, EndIn \/ EndOut \/ Refuses, Begun, ~Unhandled, Going
  PROVE  Going'
<1>1. /\ HStage' = HStage /\ Got' = Got /\ (AtStart' <=> AtStart)
      /\ ctrl \in Ctrl
  BY FwKept
<1>2. CASE EndIn
  <2>1. Takes /\ InB.state = "done_ok"
    BY <1>2 DEF EndIn, Takes, From
  <2> QED BY <2>1 DEF Going, WriteGoing
<1>3. CASE EndOut
  <2>1. Sends /\ OutB.state = "done_ok"
    BY <1>3 DEF EndOut, Sends, From
  <2>2. HStage = "status_out" /\ Got = ctrl.len
    BY <2>1 DEF Going, ReadGoing
  <2>3. ctrl'.state = "IDLE" /\ ctrl'.len = ctrl.len /\ pc' = "cb_done"
    BY <1>1, <1>3 DEF EndOut, Ctrl, To
  <2> QED BY <1>1, <2>2, <2>3 DEF Going, Sends, Takes
<1>4. CASE Refuses
  <2>1. AtStart /\ ctrl'.state = "STALL" /\ pc' = "stall_out"
    BY <1>1, <1>4 DEF Refuses, Going, From, To, Ctrl
  <2> QED BY <1>1, <2>1 DEF Going, Sends, Takes
<1> QED BY <1>2, <1>3, <1>4

\* The start of a data stage.
LEMMA StartGoing ==
  ASSUME FwMove, (\E n \in 0 .. MaxLen : Gives(n)) \/ Asks, Begun, ~Unhandled, Going,
         ctrl.req = host.req
  PROVE  Going'
<1>1. /\ HStage' = HStage /\ HDt' = HDt /\ Got' = Got /\ SendLen' = SendLen /\ host' = host
      /\ OutDt' = OutDt /\ (AtStart' <=> AtStart) /\ ctrl \in Ctrl
  BY FwKept
<1>2. pc = "handle" /\ UNCHANGED <<OutB, InB, InDt>>
  BY DEF Gives, Asks, From
<1>3. /\ AtStart /\ ctrl.ofs = 0 /\ InDt = 1 /\ OutB.state = "none" /\ InB.state = "none"
      /\ ctrl.req \in Request
  BY <1>2, FwPlaceState DEF Going
<1>4. /\ HStage = AfterSetup(host.req) /\ HDt = 1 /\ OutDt = 1 /\ host.ofs = 0 /\ Got = 0
  BY <1>3 DEF AtStart
<1>5. host.req.len \in 0 .. MaxLen
  BY <1>3, RequestFields
<1>6. CASE \E n \in 0 .. MaxLen : Gives(n)
  <2>1. ctrl'.state = "DATA_IN" /\ ctrl'.ofs = 0 /\ ctrl.req.dir = "in" /\ pc' = "in_fill"
    BY <1>1, <1>3, <1>6 DEF Gives, Ctrl, To
  <2>2. HStage \in {"data_in", "status_in"} /\ (HStage = "status_in" => host.req.len = 0)
    BY <1>4, <2>1 DEF AfterSetup
  <2>3. ~Queued'
    BY <1>2, <1>3 DEF Queued
  <2>4. ReadGoing'
    BY <1>1, <1>2, <1>3, <1>4, <2>1, <2>2, <2>3 DEF ReadGoing
  <2> QED BY <2>1, <2>4 DEF Going, Takes
<1>7. CASE Asks
  <2>1. ctrl'.state = "DATA_OUT" /\ ctrl'.ofs = 0 /\ ctrl.req.dir = "out" /\ pc' = "out_peek"
    BY <1>1, <1>3, <1>7 DEF Asks, Ctrl, To
  <2>2. HStage \in {"data_out", "status_in"} /\ (HStage = "status_in" <=> host.req.len = 0)
    BY <1>4, <2>1 DEF AfterSetup
  <2>3. Recv' = 0
    BY <1>2, <1>3, <2>1 DEF Recv, Held
  <2>4. WriteGoing'
    BY <1>1, <1>2, <1>3, <1>4, <1>5, <2>1, <2>2, <2>3, MaxLenAssumption DEF WriteGoing
  <2> QED BY <2>1, <2>4 DEF Going, Sends
<1> QED BY <1>6, <1>7

\* The data of a read.
LEMMA ReadGoes ==
  ASSUME FwMove, Fills \/ Queues \/ AsksStatus, Begun, ~Unhandled, Going
  PROVE  Going'
<1>1. /\ HStage' = HStage /\ HDt' = HDt /\ Got' = Got /\ host' = host
      /\ OutDt' = OutDt /\ ctrl \in Ctrl
  BY FwKept
<1>2. /\ pc \in {"in_fill", "in_queue", "in_status"} /\ pc' # "handle" /\ InDt' = InDt
  BY DEF Fills, Queues, AsksStatus, From, To, AfterData, NextPass
<1>3. ctrl.state = "DATA_IN" /\ Sends /\ ReadGoing
  BY <1>2, FwPlaceState DEF Sends, Going
<1>4. ReadGoing'
  <2>1. CASE Fills
    <3>1. UNCHANGED <<ctrl, OutB, InB>> /\ (Queued' <=> Queued)
      BY <2>1 DEF Fills, Queued
    <3> QED BY <1>1, <1>2, <1>3, <3>1 DEF ReadGoing
  <2>2. CASE Queues
    <3> DEFINE n == Chunk
    <3>1. /\ ctrl' = [ctrl EXCEPT !.ofs = @ + n] /\ InB' = DataBd(n) /\ pc = "in_queue"
          /\ OutB' = OutB
      BY <2>2 DEF Queues, From
    <3>2. n \in Nat /\ ctrl.ofs \in Nat
      BY <3>1, FwFacts, ChunkFacts DEF FwMove
    <3>3. InB'.state = "rdy_data" /\ InB'.len = n
      <4> HIDE DEF n
      <4> QED BY <3>1, FwFacts DEF FwMove
    <3> HIDE DEF n
    <3>4. ctrl'.ofs = ctrl.ofs + n /\ ctrl'.len = ctrl.len /\ ctrl'.state = "DATA_IN"
      BY <1>1, <1>3, <3>1 DEF Ctrl
    <3>5. ~Queued /\ Queued'
      BY <3>1, <3>3, FwFacts DEF FwMove, PlacesOK, Queued
    <3>6. HStage = "data_in" => HDt' = InDt' /\ Got' = ctrl'.ofs - InB'.len
      <4>1. HStage = "data_in" => HDt = InDt /\ Got = ctrl.ofs - 0
        BY <1>3, <3>5 DEF ReadGoing
      <4> QED BY <1>1, <1>2, <3>2, <3>3, <3>4, <4>1
    <3> QED BY <1>1, <1>2, <1>3, <3>1, <3>4, <3>5, <3>6 DEF ReadGoing
  <2>3. CASE AsksStatus
    <3>1. /\ ctrl' = [ctrl EXCEPT !.state = "STATUS_DONE_OUT"] /\ InB' = InB
          /\ OutB' = DataBd(PktLen) /\ (Queued' <=> Queued)
      BY <2>3 DEF AsksStatus, Queued
    <3>2. ctrl'.ofs = ctrl.ofs /\ ctrl'.len = ctrl.len
      BY <1>1, <3>1 DEF Ctrl
    <3>3. OutB'.state # "done_ok" /\ OutDt = 1
      BY <1>3, <3>1, FwFacts DEF FwMove, ReadGoing
    <3> QED BY <1>1, <1>2, <1>3, <3>1, <3>2, <3>3 DEF ReadGoing
  <2> QED BY <2>1, <2>2, <2>3
<1>5. ctrl'.state \in {"DATA_IN", "STATUS_DONE_OUT"}
  BY <1>1, <1>3 DEF Fills, Queues, AsksStatus, Ctrl
<1> QED BY <1>2, <1>4, <1>5 DEF Going, Takes

\* The data of a write.
LEMMA WriteGoes ==
  ASSUME FwMove, Copies \/ GivesStatus, Begun, ~Unhandled, Going
  PROVE  Going'
<1>1. /\ HStage' = HStage /\ HDt' = HDt /\ SendLen' = SendLen /\ host' = host
      /\ OutDt' = OutDt /\ ctrl \in Ctrl
  BY FwKept
<1>2. /\ pc \in {"out_read", "out_next"} /\ pc' # "handle" /\ InDt' = InDt
  BY DEF Copies, GivesStatus, From, To, AfterData, NextPass
<1>3. ctrl.state = "DATA_OUT" /\ Takes /\ WriteGoing
  BY <1>2, FwPlaceState DEF Takes, Going
<1>4. ctrl'.state \in {"DATA_OUT", "STATUS_DONE_IN"} /\ Recv' = Recv /\ InB'.state # "done_ok"
  <2>1. CASE Copies
    <3> DEFINE n == OutB.len - CrcLen
               d == Prefix(OutBuf, n)
    <3>1. /\ ctrl' = [ctrl EXCEPT !.ofs = @ + n, !.data = @ \o d] /\ InB' = InB
          /\ pc = "out_read" /\ pc' = "out_clear"
      BY <2>1 DEF Copies, From, To
    <3>2. Held = n
      <4>1. OutB.state = "done_ok"
        BY <3>1, FwFacts DEF FwMove, PlacesOK
      <4> QED BY <1>3, <3>1, <4>1 DEF Held
    <3>3. n \in Int /\ ctrl.ofs \in Int
      BY <1>1, <1>3, <3>2 DEF FwMove, XferInv, OutDataOK, Ctrl
    <3> HIDE DEF n, d
    <3>4. ctrl'.ofs = ctrl.ofs + n /\ ctrl'.state = "DATA_OUT"
      BY <1>1, <1>3, <3>1 DEF Ctrl
    <3>5. Held' = 0
      BY <3>1 DEF Held
    <3>6. Recv' = Recv
      BY <3>2, <3>3, <3>4, <3>5 DEF Recv
    <3> QED BY <1>3, <3>1, <3>4, <3>6 DEF WriteGoing
  <2>2. CASE GivesStatus
    <3>1. /\ ctrl' = [ctrl EXCEPT !.state = "STATUS_DONE_IN"] /\ InB' = DataBd(0)
          /\ pc = "out_next"
      BY <2>2 DEF GivesStatus, From
    <3>2. ctrl'.state = "STATUS_DONE_IN" /\ ctrl'.ofs = ctrl.ofs
      BY <1>1, <3>1 DEF Ctrl
    <3>3. Held = 0 /\ Held' = 0
      <4>1. OutB.state = "none"
        BY <3>1, FwFacts DEF FwMove, PlacesOK
      <4> QED BY <3>2, <4>1 DEF Held
    <3>4. InB'.state # "done_ok"
      BY <3>1, FwFacts DEF FwMove
    <3> QED BY <3>2, <3>3, <3>4 DEF Recv
  <2> QED BY <2>1, <2>2
<1>5. WriteGoing'
  BY <1>1, <1>2, <1>3, <1>4 DEF WriteGoing
<1> QED BY <1>2, <1>4, <1>5 DEF Going, Sends

\* Host and firmware stay in step, in a step of the firmware.
LEMMA FwBegun == FwMove => BegunOK'
<1> SUFFICES ASSUME FwMove, Begun PROVE BegunOK'
  BY FwKept DEF BegunOK
<1>1. /\ BegunOK /\ host' = host /\ (AtStart' <=> AtStart) /\ ctrl \in Ctrl /\ FwCases
  BY FwKept DEF FwMove, XferInv
<1>2. CASE Reads
  <2>1. /\ ~Unhandled' /\ pc' = "handle" /\ ctrl'.req = Pending /\ Unhandled
    BY <1>2, FwChanges
  <2>2. Pending = host.req /\ AtStart
    BY <1>1, <2>1 DEF BegunOK
  <2>3. Going'
    BY <1>1, <2>1, <2>2 DEF Going, Sends, Takes
  <2> QED BY <1>1, <2>1, <2>2, <2>3 DEF BegunOK
<1>3. CASE ~Reads
  <2>1. ctrl'.req = ctrl.req /\ Pending' = Pending /\ (Unhandled' => Unhandled)
    BY <1>3, FwChanges
  <2>2. CASE Unhandled'
    BY <1>1, <2>1, <2>2 DEF BegunOK
  <2>3. CASE ~Unhandled'
    <3>1. pc # "setup_read"
      BY <1>1, <1>3
         DEF FwCases, PassOn, DropIn, DropOut, EndIn, EndOut, Calls, PutStall, Refuses,
             Gives, Asks, Fills, Queues, AsksStatus, Copies, GivesStatus, AsksMore, From
    <3>2. ~Unhandled
      BY <2>3, <3>1, FwUnhandled DEF FwMove
    <3>3. ctrl.req = host.req /\ Going
      BY <1>1, <3>2 DEF BegunOK
    <3>4. Going'
      BY <1>1, <1>3, <3>2, <3>3, SteadyGoing, EndGoing, StartGoing, ReadGoes, WriteGoes
         DEF FwCases, Steady
    <3> QED BY <1>1, <2>1, <2>3, <3>3, <3>4 DEF BegunOK
  <2> QED BY <2>2, <2>3
<1> QED BY <1>2, <1>3

\* Transfers that ended with success, in a step of the firmware.
LEMMA FwFinished == FwMove => FinishedOK'
<1> SUFFICES ASSUME FwMove PROVE FinishedOK'
  OBVIOUS
<1>1. /\ FinishedOK /\ InDataOK /\ StagesOK /\ FetchOK /\ BusOK /\ host' = host
      /\ FwCases /\ ctrl \in Ctrl
  BY FwFacts, FwKept DEF FwMove, XferInv
<1>2. Reads \/ GivesStatus => host.phase # "ack"
  <2>1. Reads \/ GivesStatus => InB.state = "none"
    <3>1. GivesStatus => ctrl.state = "DATA_OUT"
      BY FwPlaceState DEF GivesStatus, From
    <3>2. GivesStatus => InB.state = "none"
      BY <1>1, <3>1 DEF StagesOK, InB
    <3> QED BY <3>2, FwChanges
  <2>2. host.phase = "ack" => InB.state \in Ready
    BY <1>1 DEF BusOK, FetchOK, InB
  <2>3. "none" \notin Ready
    BY DEF Ready
  <2> QED BY <2>1, <2>2, <2>3
<1>3. host.req.id \in host.finished =>
        /\ ctrl'.req = host.req /\ ~Unhandled' /\ pc' # "handle"
        /\ ctrl'.state \in {"STATUS_DONE_IN", "STATUS_DONE_OUT", "IDLE"}
  <2> SUFFICES ASSUME host.req.id \in host.finished
               PROVE  /\ ctrl'.req = host.req /\ ~Unhandled' /\ pc' # "handle"
                      /\ ctrl'.state \in {"STATUS_DONE_IN", "STATUS_DONE_OUT", "IDLE"}
    OBVIOUS
  <2>1. /\ ctrl.req = host.req /\ ~Unhandled /\ pc # "handle"
        /\ ctrl.state \in {"STATUS_DONE_IN", "STATUS_DONE_OUT", "IDLE"}
    BY <1>1 DEF FinishedOK
  <2>2. ctrl'.req = host.req /\ ~Unhandled' /\ pc' # "handle" /\ ~Reads
    BY <2>1, FwChanges
  <2>3. pc \notin {"in_fill", "in_queue", "in_status", "out_peek", "out_read", "out_clear",
                   "out_next"}
    BY <2>1, FwPlaceState
  <2>4. ctrl' = ctrl \/ EndIn \/ EndOut
    BY <1>1, <2>1, <2>2, <2>3
       DEF FwCases, PassOn, DropIn, DropOut, Calls, PutStall, Refuses, Gives, Asks,
           Fills, Queues, AsksStatus, Copies, GivesStatus, AsksMore, From
  <2>5. EndIn \/ EndOut => ctrl'.state = "IDLE"
    BY <1>1 DEF EndIn, EndOut, Ctrl
  <2> QED BY <2>1, <2>2, <2>4, <2>5
<1>4. ctrl'.state = "STATUS_DONE_IN" /\ (InB'.state = "done_ok" \/ host.phase = "ack") =>
        ctrl'.req.id \in host.finished
  <2> SUFFICES ASSUME ctrl'.state = "STATUS_DONE_IN",
                      InB'.state = "done_ok" \/ host.phase = "ack"
               PROVE  ctrl'.req.id \in host.finished
    OBVIOUS
  <2>1. ~Reads /\ ~GivesStatus
    <3>1. GivesStatus => InB'.state # "done_ok"
      BY FwFacts DEF FwMove, GivesStatus
    <3> QED BY <1>2, <3>1, FwChanges
  <2>2. ctrl'.req = ctrl.req /\ (InB.state = "done_ok" \/ host.phase = "ack")
    BY <2>1, FwChanges
  <2>3. ctrl.state = "STATUS_DONE_IN"
    <3>1. CASE Steady
      BY <3>1, FwSteady
    <3>2. CASE EndIn \/ EndOut \/ Refuses \/ Asks \/ AsksStatus \/ Fills \/ Queues \/ Copies
      BY <1>1, <3>2
         DEF EndIn, EndOut, Refuses, Asks, AsksStatus, Fills, Queues, Copies, Ctrl
    <3>3. CASE \E n \in 0 .. MaxLen : Gives(n)
      BY <1>1, <3>3 DEF Gives, Ctrl
    <3> QED BY <1>1, <2>1, <3>1, <3>2, <3>3 DEF FwCases, Steady
  <2> QED BY <1>1, <2>2, <2>3 DEF FinishedOK
<1>5. pc' = "cb_done" /\ ctrl'.req.dir = "out" => ctrl'.req.id \in host.finished
  <2> SUFFICES ASSUME pc' = "cb_done", ctrl'.req.dir = "out"
               PROVE  ctrl'.req.id \in host.finished
    OBVIOUS
  <2>1. (EndIn \/ EndOut) /\ ctrl'.req = ctrl.req
    BY FwChanges
  <2>2. CASE EndIn
    BY <1>1, <2>1, <2>2 DEF EndIn, FinishedOK
  <2>3. CASE EndOut
    <3>1. Sends
      BY <2>3 DEF EndOut, Sends, From
    <3> QED BY <1>1, <2>1, <3>1 DEF InDataOK
  <2> QED BY <2>1, <2>2, <2>3
<1> QED BY <1>1, <1>3, <1>4, <1>5 DEF FinishedOK

\* Every step of the firmware keeps the invariant.
LEMMA FwXfer ==
  ASSUME MaxOther = 0, IgnoreRxErr, XferInv, Firmware
  PROVE  XferInv'
<1>1. IndInv /\ BuffersOK /\ DescriptorsOK /\ TypeOK /\ Ep0OK /\ SieOK
  BY DEF XferInv, Regs, IndInv
<1>2. sie' = sie /\ host' = host /\ FwNext
  BY <1>1, FirmwareKeeps DEF Firmware
<1>3. FwMove
  BY <1>2, FwMoves DEF FwMove
<1>4. [Next]_vars
  BY DEF Next
<1>5. IndInv' /\ BuffersOK' /\ DescriptorsOK'
  BY <1>1, <1>4, NextIndInv, BuffersStep, DescriptorsStep
<1>6. Regs'
  BY <1>3, <1>5, FwStatus, FwBus DEF Regs
<1> QED BY <1>3, <1>6, FwSeenSetup, FwNumbers, FwFresh, FwPlaces, FwInData, FwOutData,
           FwBegun, FwFinished, FwGot DEF XferInv

\* A step that changes nothing keeps it.
LEMMA StutterXfer ==
  ASSUME MaxOther = 0, IgnoreRxErr, XferInv, UNCHANGED vars
  PROVE  XferInv'
<1>1. UNCHANGED <<eps, bd, buf, cel, sie, pc, seen, ctrl, done, host>>
  BY DEF vars, transVars, fwVars
<1>2. IndInv' /\ BuffersOK' /\ DescriptorsOK'
  BY NextIndInv, BuffersStep, DescriptorsStep DEF XferInv, Regs
<1>3. UNCHANGED <<OutB, InB, OutBuf, InBuf, OutDt, InDt, SetupSt, Pending>>
  BY <1>1 DEF OutB, InB, OutBuf, InBuf, OutDt, InDt, SetupSt, Pending
<1>4. /\ InSetup' = InSetup /\ Unhandled' = Unhandled /\ Begun' = Begun /\ HStage' = HStage
      /\ HDt' = HDt /\ Got' = Got /\ SendLen' = SendLen /\ Chunk' = Chunk
  BY <1>1, <1>3 DEF InSetup, Unhandled, Begun, HStage, HDt, Got, SendLen, Chunk
<1>5. StatusOK' /\ BusOK'
  BY <1>1, <1>3 DEF XferInv, Regs, StatusOK, BusOK
<1>6. SeenSetupOK' /\ GotOK'
  BY <1>1, <1>3, <1>4 DEF XferInv, SeenSetupOK, GotOK
<1>7. NumbersOK' /\ FreshOK'
  BY <1>1, <1>3, <1>4 DEF XferInv, NumbersOK, Numbered, FreshOK, Fresh
<1>8. PlacesOK'
  BY <1>1, <1>3, <1>4 DEF XferInv, PlacesOK
<1>9. InDataOK' /\ OutDataOK'
  BY <1>1, <1>3, <1>4 DEF XferInv, InDataOK, OutDataOK, Sends, Queued, First, Takes, Held, Recv
<1>10. AtStart' = AtStart /\ (Going => Going')
  BY <1>1, <1>3, <1>4, GoingKept DEF AtStart
<1>11. BegunOK'
  BY <1>1, <1>3, <1>4, <1>10 DEF XferInv, BegunOK
<1>12. FinishedOK'
  BY <1>1, <1>3, <1>4 DEF XferInv, FinishedOK
<1> QED BY <1>2, <1>5, <1>6, <1>7, <1>8, <1>9, <1>11, <1>12 DEF XferInv, Regs

\* The invariant holds at the start.
LEMMA XferInit == ASSUME Init, BuffersOK, DescriptorsOK PROVE XferInv
<1>1. /\ OutB = NoBd /\ InB = NoBd /\ SetupSt = "rdy_data" /\ NoBd.state = "none"
  BY Descriptors, DescriptorValues, PktLenAssumption
     DEF Init, Ep0Reset, OutB, InB, SetupSt
<1>2. /\ sie.pc = "idle" /\ pc = "poll" /\ ctrl.state = "IDLE" /\ done = {}
      /\ ctrl.req = NoReq /\ seen.setup = "none"
  BY DEF Init, FwInit, Ep0Reset
<1>3. /\ host.stage = "idle" /\ host.phase = "ready" /\ host.req = NoReq
      /\ host.finished = {} /\ host.got = <<>>
  BY DEF Init, HostInit
<1>4. ~Begun /\ ~Unhandled /\ ~Sends /\ ~Takes
  BY <1>1, <1>2, <1>3 DEF Begun, Unhandled, Sends, Takes
<1>5. NoReq \in Request /\ NoReq.id \in Nat
  BY RequestAssumption
<1>6. StatusOK
  <2>1. ~eps[<<0, "out">>].halt /\ ~eps[<<0, "in">>].halt
    BY Descriptors DEF Init, Ep0Reset, Ep0Status
  <2> QED BY <1>2, <2>1 DEF StatusOK
<1>7. BusOK
  BY <1>2, <1>3 DEF BusOK
<1>8. Regs
  BY <1>6, <1>7, InitOK DEF Regs
<1>9. SeenSetupOK
  BY <1>1, <1>2 DEF SeenSetupOK, InSetup
<1>10. NumbersOK
  BY <1>2, <1>3, <1>4, <1>5 DEF NumbersOK, Numbered
<1>11. FreshOK
  BY <1>3, <1>4 DEF FreshOK
<1>12. PlacesOK
  BY <1>1, <1>2 DEF PlacesOK
<1>13. InDataOK /\ OutDataOK /\ BegunOK
  BY <1>4 DEF InDataOK, OutDataOK, BegunOK
<1>14. FinishedOK
  BY <1>2, <1>3 DEF FinishedOK
<1>15. GotOK
  <2>1. Got = 0 /\ 0 \in 0 .. MaxLen
    BY <1>3, MaxLenAssumption DEF Got
  <2>2. DataOf(NoReq, 0, 0) = <<>>
    BY <1>5, <2>1, DataOfNone
  <2> QED BY <1>3, <2>1, <2>2 DEF GotOK
<1> QED BY <1>8, <1>9, <1>10, <1>11, <1>12, <1>13, <1>14, <1>15 DEF XferInv

\* So it does with what the other invariants say of the start.
LEMMA XferStart == ASSUME MaxOther = 0, IgnoreRxErr PROVE Init => XferInv
<1> SUFFICES ASSUME Init PROVE XferInv
  OBVIOUS
<1>1. BuffersOK
  BY DEF Init, FwInit, BuffersOK
<1>2. DescriptorsOK
  BY DescriptorsInit
<1> QED BY <1>1, <1>2, XferInit

\* Every step keeps it, but the loss of a SETUP token while the core waits for the
\* packet of an OUT transaction.
LEMMA XferStep ==
  ASSUME MaxOther = 0, IgnoreRxErr, XferInv, [Next]_vars, [~SetupMissed]_vars
  PROVE  XferInv'
<1>1. CASE UNCHANGED vars
  BY <1>1, StutterXfer
<1>2. CASE Next /\ ~SetupMissed
  BY <1>2, BusXfer, FwXfer DEF Next, BusStep
<1> QED BY <1>1, <1>2

\* The invariant holds throughout, as long as no SETUP token is lost while the core
\* waits for the packet of an OUT transaction.
THEOREM XferInvariant ==
  ASSUME MaxOther = 0, IgnoreRxErr
  PROVE  Spec /\ [][~SetupMissed]_vars => []XferInv
<1>1. Init => XferInv
  BY XferStart
<1>2. XferInv /\ [Next]_vars /\ [~SetupMissed]_vars => XferInv'
  BY XferStep
<1> QED BY <1>1, <1>2, PTL DEF Spec

-----------------------------------------------------------------------------
(* With one loss at most, no SETUP token is lost like this: the packet the *)
(* core still waits for would have to be a loss of its own.                *)

\* As long as nothing was lost, host and core take part in the same transaction.
LossOK ==
  losses = 0 =>
    /\ host.phase = "ready" => sie.pc = "idle"
    /\ host.phase = "data" => sie.pc # "wait_ack"
    /\ host.phase = "answer" => sie.pc \notin Waiting

\* Each step keeps it, or is the first loss.
LEMMA LossStep ==
  ASSUME MaxOther = 0, IgnoreRxErr, XferInv, LossOK, [Next]_vars
  PROVE  LossOK'
<1>1. /\ TransTypeOK /\ BusOK /\ StatusOK /\ HostTypeOK /\ IndInv /\ Regs
      /\ losses \in Nat /\ others \in 0 .. MaxOther
  BY RegsFacts, MaxLossAssumption DEF XferInv, Regs, IndInv, TypeOK
<1> SUFFICES ASSUME losses' = 0 PROVE LossOK'
  BY DEF LossOK
<1>2. ASSUME NEW p, Goto(p), p \notin Waiting \cup {"idle"}, host'.phase \in {"answer", "ack"}
      PROVE  LossOK'
  <2>1. sie'.pc = p
    BY <1>1, <1>2, GotoFields
  <2> QED BY <1>2, <2>1 DEF LossOK
<1>3. ASSUME Goto("idle") PROVE LossOK'
  <2>1. sie'.pc = "idle"
    BY <1>1, <1>3, GotoFields
  <2> QED BY <2>1 DEF LossOK, Waiting
<1>4. CASE UNCHANGED <<sie, host>> /\ losses = 0
  BY <1>4 DEF LossOK
<1>5. CASE Loss
  BY <1>1, <1>5
     DEF Loss, TokenLost, HostDataDamaged, HostDataLost, AnswerLost, DeviceDataLost,
         HostAckDamaged, HostAckLost, Lose
<1>6. CASE OtherTokens \/ OtherData
  BY <1>1, <1>6 DEF OtherTokens, OtherData, OtherDataSent, BusOK
<1>7. CASE NewTransfer
  <2>1. PICK r \in Request : Start(r)
    BY <1>7 DEF NewTransfer
  <2>2. host.phase = "ready" /\ host'.phase = "ready"
    BY <1>1, <2>1, StartDoes
  <2>3. UNCHANGED <<sie, losses>>
    BY <1>7 DEF NewTransfer, LoseNone, transVars
  <2> QED BY <2>2, <2>3 DEF LossOK
<1>8. CASE SetupOrOutToken \/ InToken
  <2>1. PICK pid \in {"IN", "OUT", "SETUP"} : SendToken(pid) /\ Token(0, pid)
    BY <1>8 DEF SetupOrOutToken, InToken
  <2>2. host'.phase = IF pid = "IN" THEN "answer" ELSE "data"
    BY <1>1, <2>1, HostPhases
  <2>3. /\ pid = "SETUP" => sie'.pc \in {"wait_setup", "discard"}
        /\ pid = "OUT" => sie'.pc = "wait_out"
        /\ pid = "IN" => sie'.pc \in {"stall_bd", "tx_data", "tx_nak"}
    BY <1>1, <2>1, TokenDoes
  <2> QED BY <2>2, <2>3 DEF LossOK, Waiting
<1>9. CASE HostData
  <2>1. host'.phase = "answer" /\ RxData(DataToggle, HostPayload)
    BY <1>1, <1>9, HostPhases DEF HostData
  <2>2. \/ Goto("idle") \/ Goto("tx_ack") \/ Goto("tx_nak") \/ Goto("tx_stall")
    <3>1. RxDataAtEp0(DataToggle, HostPayload)
      BY <1>1, <2>1, RxAtEp0 DEF IndInv
    <3> QED BY <3>1 DEF RxDataAtEp0, SetupAccepted, SetupFailed, AcceptedAtEp0, OutRefused,
                OutAnswer, DiscardedAtEp0, RxNoAck
  <2> QED BY <1>2, <1>3, <2>1, <2>2 DEF Waiting
<1>10. CASE StallByBd
  <2>1. Goto("tx_stall") /\ sie.pc = "stall_bd" /\ host' = host
    BY <1>10 DEF StallByBd, StallBd
  <2>2. host.phase \in {"answer", "ack"}
    <3>1. host.phase \in {"ready", "data", "answer", "ack", "other"}
      BY <1>1 DEF HostTypeOK, Host, Phase
    <3> QED BY <1>1, <2>1, <3>1 DEF BusOK, Waiting
  <2> QED BY <1>2, <2>1, <2>2 DEF Waiting
<1>11. CASE Answer \/ HostAck \/ Sof
  <2>1. Goto("idle")
    <3>1. CASE Answer \/ HostAck
      BY <3>1 DEF Answer, HostAck, TxHandshake, RxAck
    <3>2. CASE Sof
      BY <1>1, <3>2, RxFailDoes DEF Sof, IndInv
    <3> QED BY <1>11, <3>1, <3>2
  <2> QED BY <1>3, <2>1
<1>12. CASE Silence
  <2>1. host.phase = "answer" /\ UNCHANGED <<sie, losses>>
        /\ sie.pc \in Waiting \cup {"idle"}
    BY <1>12 DEF Silence, NoAnswer, LoseNone, transVars
  <2> QED BY <2>1 DEF LossOK, Waiting
<1>13. CASE DeviceData
  <2>1. GetData(sie.st.dt, TxPayload) /\ sie.pc = "tx_data"
    BY <1>13 DEF DeviceData, TxData
  <2>2. host.stage \in {"data_in", "status_in"}
    BY <1>1, <2>1 DEF BusOK
  <2>3. host'.phase = "ack"
    BY <1>1, <2>1, <2>2, DataDoes
  <2> QED BY <2>3 DEF LossOK
<1>14. CASE Firmware
  <2>1. sie' = sie
    BY <1>14, FirmwareKeeps DEF Firmware, XferInv, Regs, IndInv
  <2> QED BY <1>4, <1>14, <2>1 DEF Firmware
<1>15. CASE UNCHANGED vars
  BY <1>4, <1>15 DEF vars, transVars
<1> QED BY <1>5, <1>6, <1>7, <1>8, <1>9, <1>10, <1>11, <1>12, <1>13, <1>14, <1>15
        DEF Next, Transaction

\* The first loss never hits a SETUP token while the core waits for a packet.
LEMMA NoneMissed ==
  ASSUME MaxLoss <= 1, TypeOK, LossOK PROVE ~SetupMissed
<1> SUFFICES ASSUME SetupMissed PROVE FALSE
  OBVIOUS
<1>1. losses < MaxLoss /\ host.phase = "ready" /\ sie.pc = "wait_out"
  BY DEF SetupMissed, TokenLost, Lose, SendToken
<1>2. losses = 0
  BY <1>1, MaxLossAssumption DEF TypeOK
<1> QED BY <1>1, <1>2 DEF LossOK

\* So that the invariant needs no assumption but the bound on the losses.
LEMMA OneLossInvariant ==
  ASSUME MaxOther = 0, IgnoreRxErr, MaxLoss <= 1
  PROVE  Spec => []XferInv
<1>1. Init => XferInv /\ LossOK
  <2>1. Init => LossOK
    BY DEF Init, HostInit, LossOK
  <2> QED BY <2>1, XferStart
<1>2. XferInv /\ LossOK /\ [Next]_vars => XferInv' /\ LossOK'
  <2> SUFFICES ASSUME XferInv, LossOK, [Next]_vars PROVE XferInv' /\ LossOK'
    OBVIOUS
  <2>1. ~SetupMissed
    BY NoneMissed DEF XferInv, Regs, IndInv
  <2> QED BY <2>1, XferStep, LossStep
<1> QED BY <1>1, <1>2, PTL DEF Spec

-----------------------------------------------------------------------------
(* What the invariant says of the transfers.                               *)

\* The data the host got is that of its request.
LEMMA XferNoStaleData == XferInv => NoStaleData
<1> SUFFICES ASSUME XferInv, NEW i \in 1 .. Len(host.got)
             PROVE  host.got[i] = [req |-> host.req, pos |-> i]
  BY DEF NoStaleData
<1> DEFINE z == 0
<1>1. /\ Got \in 0 .. MaxLen /\ host.got = DataOf(host.req, z, Got) /\ i \in 1 .. Got
      /\ host.req \in Request
  BY FwFacts DEF XferInv, GotOK, Got, TypeOK, HostTypeOK, Host
<1>2. z \in Nat /\ z <= Got /\ i \in 1 .. Got - z /\ z + i = i
  BY <1>1, MaxLenAssumption
<1> HIDE DEF z
<1>3. \A k \in 1 .. Got - z : DataOf(host.req, z, Got)[k] = [req |-> host.req, pos |-> z + k]
  BY <1>1, <1>2, DataOfElements
<1>4. host.got[i] = [req |-> host.req, pos |-> z + i]
  BY <1>1, <1>2, <1>3
<1> QED BY <1>2, <1>4

\* In the status stage of a read, it has all of it.
LEMMA XferReadComplete == XferInv => ReadComplete
<1> SUFFICES ASSUME XferInv, host.stage = "status_out"
             PROVE  ctrl.req = host.req /\ host.got = DataOf(host.req, 0, ctrl.len)
  BY DEF ReadComplete
<1>1. Begun /\ HStage = "status_out" /\ ~AtStart
  BY DEF Begun, HStage, AtStart, AfterSetup
<1>2. ctrl.req = host.req /\ Going
  BY <1>1 DEF XferInv, BegunOK
<1>3. ctrl.state \in CtrlState
  BY FwFacts DEF Ctrl
<1>4. pc # "handle" /\ ctrl.state # "STALL" /\ ~Takes
  BY <1>1, <1>2 DEF Going, WriteGoing
<1>5. Got = ctrl.len
  BY <1>1, <1>2, <1>3, <1>4 DEF Going, ReadGoing, Sends, Takes, CtrlState
<1> QED BY <1>2, <1>5 DEF XferInv, GotOK

\* The data the firmware has is what the host sent.
LEMMA XferWriteIntact == XferInv => WriteIntact
  BY DEF XferInv, OutDataOK, Takes, WriteIntact

\* A transfer that ended with success was handled.
LEMMA XferNoFalseSuccess == XferInv => NoFalseSuccess
  BY DEF XferInv, FinishedOK, NoFalseSuccess

\* cb_done comes once, after the status stage.
LEMMA XferCallbackSound == XferInv => CallbackSound
  BY CalledBack DEF XferInv, NumbersOK, FinishedOK, CallbackSound

\* Whatever the number of losses, of requests given up and the interleaving of host,
\* core and firmware, the data of a read reaches the host in order, without a gap
\* or a repetition, and none of it belongs to another request.
THEOREM NoStaleDataCorrect ==
  ASSUME MaxOther = 0, IgnoreRxErr
  PROVE  Spec /\ [][~SetupMissed]_vars => []NoStaleData
  BY XferInvariant, XferNoStaleData, PTL

\* When the host takes the data stage of a read for complete, it has all that the
\* driver supplied.
THEOREM ReadCompleteCorrect ==
  ASSUME MaxOther = 0, IgnoreRxErr
  PROVE  Spec /\ [][~SetupMissed]_vars => []ReadComplete
  BY XferInvariant, XferReadComplete, PTL

\* What the firmware has of the data of a write is what the host sent for that
\* request, in order, and all of it when it queues the status packet.
THEOREM WriteIntactCorrect ==
  ASSUME MaxOther = 0, IgnoreRxErr
  PROVE  Spec /\ [][~SetupMissed]_vars => []WriteIntact
  BY XferInvariant, XferWriteIntact, PTL

\* A transfer the host saw succeed is one the firmware handled.
THEOREM NoFalseSuccessCorrect ==
  ASSUME MaxOther = 0, IgnoreRxErr
  PROVE  Spec /\ [][~SetupMissed]_vars => []NoFalseSuccess
  BY XferInvariant, XferNoFalseSuccess, PTL

\* cb_done is called once for a request, and for a write only after the host has its
\* status packet.
THEOREM CallbackSoundCorrect ==
  ASSUME MaxOther = 0, IgnoreRxErr
  PROVE  Spec /\ [][~SetupMissed]_vars => []CallbackSound
  BY XferInvariant, XferCallbackSound, PTL

\* On a bus that loses one packet at most, all five hold of every behaviour.
THEOREM OneLossCorrect ==
  ASSUME MaxOther = 0, IgnoreRxErr, MaxLoss <= 1
  PROVE  Spec => [](/\ NoStaleData /\ ReadComplete /\ WriteIntact
                    /\ NoFalseSuccess /\ CallbackSound)
  BY OneLossInvariant, XferNoStaleData, XferReadComplete, XferWriteIntact,
     XferNoFalseSuccess, XferCallbackSound, PTL

-----------------------------------------------------------------------------
(* Wake ups.  The event counter has to be other than zero whenever a       *)
(* descriptor waits that usb_poll() will not look at before it is done.    *)

\* The counter wraps: it is zero, although nobody read it.
EventsWrap == evt # 0 /\ evt' = 0 /\ UNCHANGED fwVars

\* Where usb_poll() is before it looks at any descriptor, and where it is about to
\* look at all of them once more.
Unlooked == {"drain", "drain_check", "peek_setup"}
Returns  == \/ pc \in {"act_out", "cb_done"}
            \/ ~InSetup /\ pc \in {"in_fill", "in_queue", "in_status",
                                   "out_peek", "out_read", "out_clear", "out_next"}

\* What is done, and the lockout, has an event that was not read, or is still looked
\* at, or was seen and is handled before the firmware looks again.
WakeSetup ==
  /\ SetupSt \in {"rdy_data", "done_ok"} /\ seen.setup # "done_err"
  /\ cel => SetupSt = "done_ok"
  /\ pc = "setup_queue" => ~cel
  /\ InSetup /\ pc \notin Unread => SetupSt = "done_ok"
  /\ SetupSt = "done_ok" => evt # 0 \/ pc \in Unlooked \/ (InSetup /\ pc # "poll")
WakeOut ==
  OutB.state = "done_ok" =>
    \/ evt # 0 \/ Returns \/ pc \in Unlooked \cup {"peek_out"}
    \/ pc \in {"peek_in", "act"} /\ seen.out = "done_ok"
WakeIn ==
  InB.state = "done_ok" =>
    \/ evt # 0 \/ Returns
    \/ pc \in Unlooked \cup {"peek_out", "peek_in", "setup_in_clear"}
    \/ pc = "act" /\ seen.in = "done_ok"
WakeOK  == WakeSetup /\ WakeOut /\ WakeIn
WakeInv == IndInv /\ DescriptorsOK /\ WakeOK

\* A write back notifies, and a SETUP packet that sets the lockout is written back.
LEMMA WriteNotifies ==
  ASSUME IgnoreRxErr, IndInv, FetchOK, BusStep
  PROVE  /\ evt' = evt \/ Notify
         /\ UNCHANGED bd \/ Notify
         /\ cel' = cel \/ (SetupSt = "rdy_data" /\ cel' /\ SetupSt' = "done_ok")
<1>1. /\ TransTypeOK /\ SieOK /\ bd \in [BdId -> Descriptor] /\ sie \in Sie
      /\ SieBd \in BdId
  BY SieBdFacts DEF IndInv, TypeOK, TransTypeOK
<1>2. CASE UNCHANGED transVars
  BY <1>2 DEF transVars
<1>3. CASE \E pid \in {"IN", "OUT", "SETUP"} : Token(0, pid) \/ OtherToken(0, pid)
  <2>1. PICK pid \in {"IN", "OUT", "SETUP"} : Token(0, pid) \/ OtherToken(0, pid)
    BY <1>3
  <2>2. UNCHANGED <<bd, cel>>
    BY <2>1, TokenFetch DEF Token, OtherToken
  <2>3. \E late, s : FailInto(s, late)
    BY <2>1 DEF Token, OtherToken
  <2> QED BY <2>2, <2>3 DEF FailInto, Notify
<1>4. CASE \/ \E dt, p : RxData(dt, p)
           \/ \E bytes : RxFail(bytes)
           \/ StallBd \/ TxData \/ TxHandshake \/ RxAck \/ RxNoAck
  <2>1. ASSUME NEW dt, NEW p, SetupAccepted(dt, p)
        PROVE  SetupSt = "rdy_data" /\ cel' /\ SetupSt' = "done_ok"
    <3>1. SieBd = SetupBd /\ SetupSt = "rdy_data" /\ cel'
      BY <1>1, <2>1, SieBdFacts DEF SetupAccepted, SieOK, SetupSt
    <3> QED BY <1>1, <2>1, <3>1 DEF SetupAccepted, WriteBack, SetupSt
  <2>2. \/ cel' = cel \/ \E dt, p : SetupAccepted(dt, p)
    BY <1>4 DEF RxData, RxFail, SetupFailed, OutAccepted, OutRefused, OutFailed, Discarded,
                StallBd, TxData, TxHandshake, RxAck, RxNoAck
  <2>3. evt' = evt \/ Notify
    BY <1>4 DEF RxData, RxFail, SetupAccepted, SetupFailed, OutAccepted, OutRefused,
                OutFailed, Discarded, StallBd, TxData, TxHandshake, RxAck, RxNoAck
  <2>4. UNCHANGED bd \/ Notify
    BY <1>4 DEF RxData, RxFail, SetupAccepted, SetupFailed, OutAccepted, OutRefused,
                OutFailed, Discarded, StallBd, TxData, TxHandshake, RxAck, RxNoAck
  <2> QED BY <2>1, <2>2, <2>3, <2>4
<1> QED BY <1>2, <1>3, <1>4, BusSteps

\* A step of the host or of the core keeps what waits announced.
LEMMA BusWake ==
  ASSUME IgnoreRxErr, WakeInv, BusStep, ~EventsWrap
  PROVE  WakeOK'
<1>1. /\ IndInv /\ FetchOK /\ bd \in [BdId -> Descriptor] /\ evt \in 0 .. EvtMod - 1
  BY DEF WakeInv, DescriptorsOK, IndInv, TypeOK, TransTypeOK
<1>2. WritesFetched /\ UNCHANGED fwVars
  BY <1>1, BusFetch
<1>3. /\ evt' = evt \/ Notify
      /\ UNCHANGED bd \/ Notify
      /\ cel' = cel \/ (SetupSt = "rdy_data" /\ cel' /\ SetupSt' = "done_ok")
  BY <1>1, WriteNotifies
<1>4. Notify => evt' # 0
  <2>1. CASE evt = 0
    BY <2>1, EvtModAssumption DEF Notify
  <2>2. CASE evt # 0
    BY <1>2, <2>2 DEF EventsWrap
  <2> QED BY <2>1, <2>2
<1>5. evt # 0 => evt' # 0
  BY <1>3, <1>4
<1>6. ASSUME NEW id \in BdId
      PROVE  bd'[id] = bd[id] \/ (evt' # 0 /\ bd'[id].state = "done_ok")
  BY <1>1, <1>2, <1>3, <1>4 DEF WritesFetched
<1>7. /\ SetupSt' = SetupSt \/ (evt' # 0 /\ SetupSt' = "done_ok")
      /\ OutB' = OutB \/ evt' # 0
      /\ InB' = InB \/ evt' # 0
  BY <1>6, Descriptors DEF SetupSt, OutB, InB
<1>8. pc' = pc /\ seen' = seen /\ (InSetup' <=> InSetup) /\ (Returns' <=> Returns)
  BY <1>2 DEF fwVars, InSetup, Returns
<1>9. WakeSetup /\ WakeOut /\ WakeIn
  BY DEF WakeInv, WakeOK
<1>10. WakeSetup'
  <2>1. pc = "setup_queue" => SetupSt = "done_ok" /\ ~cel
    BY <1>9 DEF WakeSetup, Unread, WakeInv, IndInv, LockoutOK
  <2>2. pc = "setup_queue" => ~cel'
    BY <1>3, <2>1
  <2> QED BY <1>3, <1>5, <1>7, <1>8, <1>9, <2>2 DEF WakeSetup
<1>11. WakeOut' /\ WakeIn'
  BY <1>5, <1>7, <1>8, <1>9 DEF WakeOut, WakeIn
<1> QED BY <1>10, <1>11 DEF WakeOK

\* What the steps of the firmware start from.
LEMMA WakeFacts ==
  ASSUME WakeInv
  PROVE  /\ bd \in [BdId -> Descriptor]
         /\ seen \in [setup: BdState, out: BdState, in: BdState]
         /\ WakeSetup /\ WakeOut /\ WakeIn /\ LockoutOK
  BY DEF WakeInv, WakeOK, IndInv, TypeOK, TransTypeOK, FwTypeOK

\* The firmware writes no descriptor that is done.
LEMMA WritesUndone ==
  ASSUME bd \in [BdId -> Descriptor], NEW id \in {SetupBd, OutBd, InBd}, NEW b, WriteBd(id, b),
         b.state # "done_ok"
  PROVE  /\ evt' = evt /\ cel' = cel
         /\ id # SetupBd => SetupSt' = SetupSt
         /\ OutB' = OutB \/ (id = OutBd /\ OutB'.state # "done_ok")
         /\ InB' = InB \/ (id = InBd /\ InB'.state # "done_ok")
  BY Descriptors DEF WriteBd, SetupSt, OutB, InB

\* Each step of the firmware, by what it does to events and descriptors.
FwWakeMove ==
  /\ evt' = evt \/ (pc = "drain" /\ pc' = "drain_check")
  /\ OutB' = OutB \/ OutB'.state # "done_ok"
  /\ InB' = InB \/ InB'.state # "done_ok"

\* A step before the firmware acts.
PollMove ==
  /\ pc \in Unread \cup {"peek_out", "peek_in", "act"}
  /\ UNCHANGED <<SetupSt, cel>>
  /\ UNCHANGED <<OutB, InB>>
  /\ pc \in Unread \ {"peek_setup"} => pc' \in Unlooked /\ seen' = seen
  /\ pc = "peek_setup" => pc' = "peek_out" /\ seen'.setup = SetupSt
  /\ pc = "peek_out" => pc' = "peek_in" /\ seen'.setup = seen.setup
                        /\ seen'.out = OutB.state
  /\ pc = "peek_in" => pc' = "act" /\ seen'.setup = seen.setup /\ seen'.out = seen.out
                       /\ seen'.in = InB.state
  /\ pc = "act" => pc' = "poll" /\ seen' = seen /\ ~InSetup
                   /\ seen.out # "done_ok" /\ seen.in # "done_ok"

\* A step that acts, and goes on to look at the descriptors again.
ActMove ==
  /\ pc \in {"act", "act_out", "cb_done", "in_fill", "in_queue", "in_status",
             "out_peek", "out_read", "out_clear", "out_next"}
  /\ UNCHANGED <<SetupSt, cel>> /\ seen'.setup = seen.setup
  /\ \/ pc' \in {"act_out", "cb_done", "peek_setup"}
     \/ ~InSetup /\ pc' \in {"in_fill", "in_queue", "in_status",
                             "out_peek", "out_read", "out_clear", "out_next"}

\* A step of the handling of a SETUP packet.
SetupMove ==
  /\ InSetup /\ seen'.setup = seen.setup
  /\ \/ pc = "act" /\ pc' = "setup_in_clear" /\ OutB'.state # "done_ok"
     \/ pc = "setup_in_clear" /\ InB'.state # "done_ok"
     \/ pc \in (Handling \ {"setup_in_clear"}) \cup
               {"release", "setup_queue", "in_fill", "in_queue", "in_status",
                "out_peek", "out_read", "out_clear", "out_next"}
  /\ IF pc = "setup_queue"
       THEN pc' = "poll" /\ SetupSt' = "rdy_data" /\ cel' = cel
       ELSE /\ pc' \notin Unread /\ SetupSt' = SetupSt
            /\ IF pc' = "setup_queue" THEN ~cel' ELSE cel' = cel

\* Such steps keep what waits announced.
LEMMA PollWake ==
  ASSUME WakeInv, FwWakeMove, PollMove
  PROVE  WakeOK'
<1>1. WakeSetup /\ WakeOut /\ WakeIn
  BY WakeFacts
<1>2. WakeSetup'
  BY <1>1 DEF FwWakeMove, PollMove, WakeSetup, Unread, Unlooked, InSetup
<1>3. WakeOut'
  BY <1>1 DEF FwWakeMove, PollMove, WakeOut, Unread, Unlooked, Returns
<1>4. WakeIn'
  BY <1>1 DEF FwWakeMove, PollMove, WakeIn, Unread, Unlooked, Returns
<1> QED BY <1>2, <1>3, <1>4 DEF WakeOK

\* A step that acts keeps it.
LEMMA ActWake ==
  ASSUME WakeInv, FwWakeMove, ActMove
  PROVE  WakeOK'
<1>1. WakeSetup /\ WakeOut /\ WakeIn
  BY WakeFacts
<1>2. InSetup' <=> InSetup
  BY DEF ActMove, InSetup
<1>3. WakeSetup'
  BY <1>1, <1>2 DEF FwWakeMove, ActMove, WakeSetup, Unread, Unlooked
<1>4. pc' \in Unlooked \/ Returns'
  BY <1>2 DEF ActMove, Unlooked, Returns
<1>5. WakeOut' /\ WakeIn'
  BY <1>4 DEF WakeOut, WakeIn
<1> QED BY <1>3, <1>5 DEF WakeOK

\* So does a step of the handling of a SETUP packet.
LEMMA SetupWake ==
  ASSUME WakeInv, FwWakeMove, SetupMove
  PROVE  WakeOK'
<1>1. WakeSetup /\ WakeOut /\ WakeIn
  BY WakeFacts
<1>2. (InSetup' <=> InSetup) /\ InSetup
  BY DEF SetupMove, InSetup
<1>3. evt' = evt
  BY DEF FwWakeMove, SetupMove, Handling
<1>4. WakeSetup'
  BY <1>1, <1>2, <1>3 DEF SetupMove, WakeSetup, Unread, Unlooked, Handling
<1>5. WakeOut'
  BY <1>1, <1>2, <1>3 DEF FwWakeMove, SetupMove, WakeOut, Unlooked, Returns, Handling
<1>6. WakeIn'
  BY <1>1, <1>2, <1>3 DEF FwWakeMove, SetupMove, WakeIn, Unlooked, Returns, Handling
<1> QED BY <1>4, <1>5, <1>6 DEF WakeOK

\* Every step of the firmware is one of these three.
FwWakeMoves == FwWakeMove /\ (PollMove \/ ActMove \/ SetupMove)

\* A step that accesses nothing but the event register, or nothing at all.
LEMMA NothingWoken ==
  ASSUME NoAccess \/ ReadEvt
  PROVE  UNCHANGED <<OutB, InB, SetupSt, cel>> /\ (NoAccess => evt' = evt)
  BY DEF NoAccess, transVars, ReadEvt, OutB, InB, SetupSt

\* usb_poll(), up to where it acts.
LEMMA PollMoves ==
  ASSUME WakeInv, FwPoll
  PROVE  FwWakeMoves
<1>1. seen \in [setup: BdState, out: BdState, in: BdState]
  BY WakeFacts
<1>2. NoAccess \/ (ReadEvt /\ pc = "drain" /\ pc' = "drain_check")
  BY DEF FwPoll, Poll, Drain, DrainCheck, PeekSetup, PeekOut, PeekIn, PollDone, At, Go
<1>3. UNCHANGED <<OutB, InB, SetupSt, cel>> /\ FwWakeMove
  BY <1>2, NothingWoken DEF FwWakeMove
<1>4. PollMove
  BY <1>1, <1>3
     DEF FwPoll, Poll, Drain, DrainCheck, PeekSetup, PeekOut, PeekIn, PollDone, At, Go,
         KeepLocal, NoError, Quiet, PollMove, Unread, Unlooked, OutB, InB, SetupSt
<1> QED BY <1>3, <1>4 DEF FwWakeMoves

\* The status stage and the stall descriptors.
LEMMA StateMoves ==
  ASSUME WakeInv, FwState
  PROVE  FwWakeMoves
<1> USE DEF At, Go, KeepLocal, NextPass
<1>1. bd \in [BdId -> Descriptor] /\ ~RetrySetup
  BY WakeFacts DEF WakeSetup, RetrySetup
<1>2. /\ pc \in {"act", "act_out", "cb_done"} /\ pc' \in {"act_out", "cb_done", "peek_setup"}
      /\ seen' = seen
  BY <1>1 DEF FwState, StatusInDone, LastInDone, StatusOutDone, CbDone, StallIn, StallOut,
              RetryOut, Quiet
<1>3. \/ NoAccess
      \/ \E id \in {OutBd, InBd} : \E b : b.state # "done_ok" /\ WriteBd(id, b)
  <2>1. /\ NoBd.state # "done_ok" /\ StallBdOf.state # "done_ok"
        /\ DataBd(PktLen).state # "done_ok"
    BY DescriptorValues, PktLenAssumption
  <2> QED BY <1>1, <2>1 DEF FwState, StatusInDone, LastInDone, StatusOutDone, CbDone, StallIn,
                            StallOut, RetryOut
<1>4. FwWakeMove /\ UNCHANGED <<SetupSt, cel>>
  BY <1>1, <1>3, NothingWoken, WritesUndone, Descriptors DEF FwWakeMove
<1>5. ActMove
  BY <1>2, <1>4 DEF ActMove
<1> QED BY <1>4, <1>5 DEF FwWakeMoves

\* The handling of a SETUP packet.
LEMMA SetupMoves ==
  ASSUME WakeInv, FwSetup
  PROVE  FwWakeMoves
<1> USE DEF At, Go, KeepLocal
<1>1. /\ bd \in [BdId -> Descriptor] /\ LockoutOK
      /\ NoBd.state = "none" /\ StallBdOf.state = "rdy_stall"
      /\ DataBd(PktLen).state = "rdy_data"
  BY WakeFacts, DescriptorValues, PktLenAssumption
<1>2. seen' = seen /\ InSetup
  BY <1>1 DEF FwSetup, SetupOutClear, SetupInClear, SetupInStatus, SetupRead, HandleError,
              HandleStallOut, HandleWrite, HandleRead, Release, SetupQueue, LockoutOK, Handling
<1>3. CASE SetupOutClear \/ SetupInClear \/ HandleError \/ HandleStallOut
  <2>1. \/ WriteBd(OutBd, NoBd) \/ WriteBd(InBd, NoBd)
        \/ WriteBd(OutBd, StallBdOf) \/ WriteBd(InBd, StallBdOf)
    BY <1>3 DEF SetupOutClear, SetupInClear, HandleError, HandleStallOut
  <2>2. FwWakeMove /\ UNCHANGED <<SetupSt, cel>>
    BY <1>1, <2>1, WritesUndone, Descriptors DEF FwWakeMove
  <2>3. SetupOutClear => OutB'.state # "done_ok"
    BY <1>1, Descriptors DEF SetupOutClear, WriteBd, OutB
  <2>4. SetupInClear => InB'.state # "done_ok"
    BY <1>1, Descriptors DEF SetupInClear, WriteBd, InB
  <2>5. SetupMove
    BY <1>2, <1>3, <2>2, <2>3, <2>4
       DEF SetupMove, SetupOutClear, SetupInClear, HandleError, HandleStallOut, NoError, Quiet,
           Handling, Unread
  <2> QED BY <2>2, <2>5 DEF FwWakeMoves
<1>4. CASE SetupInStatus \/ SetupRead \/ HandleWrite \/ (\E n \in 0 .. MaxLen : HandleRead(n))
  <2>1. /\ UNCHANGED <<bd, evt, cel>>
        /\ pc \in {"setup_in_status", "setup_read", "handle"}
        /\ pc' \in {"setup_read", "handle", "in_fill", "out_peek"}
    BY <1>4 DEF SetupInStatus, SetupRead, HandleWrite, HandleRead, WriteStatus, NoAccess,
                transVars
  <2> QED BY <1>2, <2>1 DEF FwWakeMoves, FwWakeMove, SetupMove, OutB, InB, SetupSt, Handling,
                            Unread
<1>5. CASE Release
  BY <1>2, <1>5 DEF Release, CelRelease, FwWakeMoves, FwWakeMove, SetupMove, OutB, InB, SetupSt,
                    Handling, Unread
<1>6. CASE SetupQueue
  <2>1. FwWakeMove /\ cel' = cel
    BY <1>1, <1>6, WritesUndone DEF SetupQueue, FwWakeMove
  <2>2. SetupSt' = "rdy_data"
    BY <1>1, <1>6, Descriptors DEF SetupQueue, WriteBd, SetupSt
  <2> QED BY <1>2, <1>6, <2>1, <2>2 DEF SetupQueue, FwWakeMoves, SetupMove
<1> QED BY <1>3, <1>4, <1>5, <1>6 DEF FwSetup

\* A data buffer that was transferred.
LEMMA DataMoves ==
  ASSUME WakeInv, FwData
  PROVE  FwWakeMoves
<1> USE DEF At, Go, KeepLocal
<1>1. /\ bd \in [BdId -> Descriptor] /\ seen \in [setup: BdState, out: BdState, in: BdState]
      /\ NoBd.state = "none" /\ \A n : DataBd(n).state = "rdy_data"
  BY WakeFacts, DescriptorValues DEF DataBd
<1>2. /\ pc \in {"act", "in_fill", "in_queue", "in_status", "out_peek", "out_read",
                 "out_clear", "out_next"}
      /\ pc = "act" => ~InSetup
      /\ pc' \in {"in_fill", "in_queue", "in_status", "out_peek", "out_read", "out_clear",
                  "out_next", AfterData, "peek_setup"}
      /\ pc' = "peek_setup" => ~InSetup
      /\ seen'.setup = seen.setup
  <2>1. CASE DataOutEvent \/ UnexpectedOut \/ DataInEvent \/ UnexpectedIn
    BY <2>1 DEF DataOutEvent, UnexpectedOut, DataInEvent, UnexpectedIn, DataEvent, Unexpected,
                NoError, Quiet, NextPass
  <2>2. CASE InFill \/ InQueue \/ InStatus \/ OutPeek \/ OutRead \/ OutClear \/ OutStatus
             \/ OutMore
    BY <1>1, <2>2 DEF InFill, InQueue, InStatus, OutPeek, OutRead, OutClear, OutStatus, OutMore,
                      AfterData
  <2> QED BY <2>1, <2>2 DEF FwData
<1>3. \/ NoAccess \/ (\E id, d : WriteBuf(id, d))
      \/ \E id \in {OutBd, InBd} : \E b : b.state # "done_ok" /\ WriteBd(id, b)
  BY <1>1 DEF FwData, InFill, InQueue, InStatus, OutPeek, OutRead, OutClear, OutStatus, OutMore,
              DataOutEvent, UnexpectedOut, DataInEvent, UnexpectedIn, DataEvent, Unexpected
<1>4. FwWakeMove /\ UNCHANGED <<SetupSt, cel>>
  <2>1. CASE NoAccess
    BY <2>1, NothingWoken DEF FwWakeMove
  <2>2. CASE \E id, d : WriteBuf(id, d)
    BY <2>2 DEF WriteBuf, FwWakeMove, SetupSt, OutB, InB
  <2>3. CASE \E id \in {OutBd, InBd} : \E b : b.state # "done_ok" /\ WriteBd(id, b)
    BY <1>1, <2>3, WritesUndone, Descriptors DEF FwWakeMove
  <2> QED BY <1>3, <2>1, <2>2, <2>3
<1>5. AfterData = IF InSetup THEN "release" ELSE "peek_setup"
  BY DEF AfterData, NextPass
<1>6. CASE InSetup
  <2>1. SetupMove
    BY <1>2, <1>4, <1>5, <1>6 DEF SetupMove, Unread
  <2> QED BY <1>4, <2>1 DEF FwWakeMoves
<1>7. CASE ~InSetup
  <2>1. ActMove
    BY <1>2, <1>4, <1>5, <1>7 DEF ActMove
  <2> QED BY <1>4, <2>1 DEF FwWakeMoves
<1> QED BY <1>6, <1>7

\* The invariant holds at the start, and every step keeps it but one with which the
\* counter wraps.
LEMMA WakeStep ==
  ASSUME IgnoreRxErr, WakeInv, [Next]_vars, [~EventsWrap]_vars
  PROVE  WakeInv'
<1>1. IndInv' /\ DescriptorsOK'
  BY NextIndInv, DescriptorsStep DEF WakeInv
<1>2. CASE UNCHANGED vars
  <2>1. /\ UNCHANGED <<SetupSt, OutB, InB, cel, evt, pc, seen>>
        /\ InSetup' <=> InSetup
    BY <1>2 DEF vars, transVars, fwVars, SetupSt, OutB, InB, InSetup
  <2>2. Returns' <=> Returns
    BY <2>1 DEF Returns
  <2>3. WakeSetup /\ WakeOut /\ WakeIn
    BY WakeFacts
  <2>4. WakeOK'
    BY <2>1, <2>2, <2>3 DEF WakeOK, WakeSetup, WakeOut, WakeIn
  <2> QED BY <1>1, <2>4 DEF WakeInv
<1>3. CASE BusStep /\ ~EventsWrap
  BY <1>1, <1>3, BusWake DEF WakeInv
<1>4. CASE Firmware
  <2>1. FwWakeMoves
    BY <1>4, PollMoves, StateMoves, SetupMoves, DataMoves DEF Firmware, FwNext
  <2> QED BY <1>1, <2>1, PollWake, ActWake, SetupWake DEF FwWakeMoves, WakeInv
<1> QED BY <1>2, <1>3, <1>4 DEF Next, BusStep

\* What it says where usb_poll() looks for an event.
LEMMA WakeSays == WakeInv => NoLostWakeup
<1> SUFFICES ASSUME WakeInv, pc = "poll", evt = 0
             PROVE  /\ ~cel /\ SetupSt = "rdy_data"
                    /\ OutB.state \notin DoneState /\ InB.state \notin DoneState
  BY DEF NoLostWakeup, SetupSt, OutB, InB
<1>1. WakeSetup /\ WakeOut /\ WakeIn
  BY WakeFacts
<1>2. OutB.state # "done_err" /\ InB.state # "done_err"
  BY DEF WakeInv, DescriptorsOK, FirmwareOK, StagesOK, OutB, InB
<1> QED BY <1>1, <1>2 DEF WakeSetup, WakeOut, WakeIn, Unlooked, Returns, DoneState

\* When usb_poll() finds no event pending, no descriptor waits to be handled and the
\* lockout is released, as long as the counter does not wrap: however an event meets
\* the reading of the register and of the descriptors, on any bus, in the build that
\* ignores reception errors.
THEOREM WakeupCorrect ==
  ASSUME IgnoreRxErr
  PROVE  Spec /\ [][~EventsWrap]_vars => []NoLostWakeup
<1>1. Init => WakeInv
  <2> SUFFICES ASSUME Init PROVE WakeOK
    BY InitOK, DescriptorsInit DEF WakeInv
  <2>1. bd[SetupBd] = DataBd(PktLen) /\ bd[OutBd] = NoBd /\ bd[InBd] = NoBd
    BY Descriptors DEF Init, Ep0Reset
  <2>2. SetupSt = "rdy_data" /\ OutB.state = "none" /\ InB.state = "none"
    BY <2>1, DescriptorValues, PktLenAssumption DEF SetupSt, OutB, InB
  <2> QED BY <2>2 DEF Init, FwInit, WakeOK, WakeSetup, WakeOut, WakeIn, InSetup, Unread
<1>2. WakeInv /\ [Next]_vars /\ [~EventsWrap]_vars => WakeInv'
  BY WakeStep
<1> QED BY <1>1, <1>2, WakeSays, PTL DEF Spec
=============================================================================
