--------------------------- MODULE BulkXferProofs ---------------------------
(***************************************************************************)
(* Proofs about BulkXfer in the mini build of the microcode, which ignores *)
(* reception errors: after one the default build lets the driver queue     *)
(* descriptor 0 again whichever it was that failed (dcd_no2usb.c:365), and  *)
(* what is proved here does not hold.                                      *)
(*                                                                         *)
(* The inductive invariant BulkInv says where each packet of the session   *)
(* is: the descriptors form a ring that core and driver go round (RingOK), *)
(* those that are ready or done hold successive packets (QueueOK,           *)
(* ArrivedOK), and host and core differ by at most one packet, which the   *)
(* two data toggles tell (Ahead).  Data whose token was lost may go over a *)
(* packet, but only over the bytes of the one the driver reads next, and   *)
(* the history spoilt has its number (SpillOK).  The rest says what core,  *)
(* driver and host know where they stand in a transaction.  From it follow *)
(* the safety properties of BulkXfer, and that BulkXfer implements         *)
(* BulkPipe but for the bytes of the packets in spoilt.                    *)
(***************************************************************************)
EXTENDS BulkXfer, UsbTransProofs

-----------------------------------------------------------------------------
(* Packets and buffers.                                                    *)

\* A prefix of a packet is the same taken from the buffer that holds it.
LEMMA PrefixOfPrefix ==
  ASSUME NEW b \in Seq(Unit), NEW p \in Seq(Unit), Prefix(b, Len(p)) = p,
         NEW n \in Nat, n <= Len(p)
  PROVE  Prefix(b, n) = Prefix(p, n)
<1>1. Len(p) \in Nat /\ Len(b) \in Nat
  BY LenProperties
<1>2. /\ Len(p) = (IF Len(b) <= Len(p) THEN Len(b) ELSE Len(p))
      /\ \A i \in 1 .. Len(p) : p[i] = b[i]
  BY <1>1, PrefixElements
<1>3. /\ Prefix(b, n) \in Seq(Unit) /\ Prefix(p, n) \in Seq(Unit)
      /\ Len(Prefix(b, n)) = n /\ Len(Prefix(p, n)) = n
      /\ \A i \in 1 .. n : Prefix(b, n)[i] = b[i]
      /\ \A i \in 1 .. n : Prefix(p, n)[i] = p[i]
  BY <1>1, <1>2, PrefixElements
<1> QED BY <1>1, <1>2, <1>3, SeqEqual

-----------------------------------------------------------------------------
(* The data of a transfer, cut into packets.                               *)

\* Products with the packet size.
LEMMA Products ==
  ASSUME NEW a \in Nat, NEW b \in Nat
  PROVE  /\ a * Mps \in Nat
         /\ (a + 1) * Mps = a * Mps + Mps
         /\ a <= b => a * Mps <= b * Mps
         /\ a < b => a * Mps + Mps <= b * Mps
  BY MpsAssumption

\* A unit's packet and its place in it.
LEMMA Places ==
  ASSUME NEW j \in Nat, NEW r \in 0 .. Mps - 1
  PROVE  (j * Mps + r) \div Mps = j /\ (j * Mps + r) % Mps = r
  BY MpsAssumption

\* Packet j of a transfer is made of the units of packet number first + j.
LEMMA DataAtType ==
  ASSUME NEW first \in Nat, NEW j \in Nat, NEW n \in 0 .. Mps,
         first >= 1, first + j <= MaxPkt
  PROVE  DataAt(first, j * Mps, n) \in Seq(Unit) /\ Len(DataAt(first, j * Mps, n)) = n
<1> DEFINE f == DataAt(first, j * Mps, n)
           u(i) == <<first + (j * Mps + i - 1) \div Mps, ((j * Mps + i - 1) % Mps) + 1>>
<1>1. ASSUME NEW i \in 1 .. n PROVE u(i) \in Unit
  <2>1. j * Mps \in Int /\ i - 1 \in 0 .. Mps - 1
    BY MpsAssumption
  <2>2. /\ (j * Mps + (i - 1)) \div Mps = j
        /\ (j * Mps + (i - 1)) % Mps = i - 1
    BY <2>1, Places
  <2>3. j * Mps + (i - 1) = j * Mps + i - 1
    BY <2>1
  <2>4. u(i) = <<first + j, i>>
    BY <2>2, <2>3
  <2> QED BY <2>4, PktAssumption, MpsAssumption
<1>2. f = [i \in 1 .. n |-> u(i)]
  BY DEF DataAt
<1> HIDE DEF u
<1>3. f \in Seq(Unit) /\ Len(f) = n
  BY <1>1, <1>2, MpsAssumption
<1> QED BY <1>3

\* The packets of a transfer, the last of which may be short or empty.
LEMMA PacketsOfFacts ==
  ASSUME NEW first \in Nat, NEW len \in Nat, first >= 1,
         NEW ps, ps = PacketsOf(first, len), first + Len(ps) - 1 <= MaxPkt
  PROVE  /\ ps \in Seq(Seq(Unit)) /\ Len(ps) >= 1
         /\ (Len(ps) - 1) * Mps <= len /\ len <= (Len(ps) - 1) * Mps + Mps
         /\ Len(ps) # 1 => (Len(ps) - 1) * Mps < len
         /\ \A k \in 1 .. Len(ps) :
              ps[k] = DataAt(first, (k - 1) * Mps, MinOf(Mps, len - (k - 1) * Mps))
<1> DEFINE n == IF len = 0 THEN 1 ELSE (len + Mps - 1) \div Mps
           p(k) == DataAt(first, (k - 1) * Mps, MinOf(Mps, len - (k - 1) * Mps))
<1>1. /\ n \in Nat /\ n >= 1
      /\ (n - 1) * Mps <= len /\ len <= (n - 1) * Mps + Mps
      /\ n # 1 => (n - 1) * Mps < len
  BY MpsAssumption
<1>2. ps = [k \in 1 .. n |-> p(k)]
  BY DEF PacketsOf
<1> HIDE DEF n, p
<1>3. Len(ps) = n
  <2>1. n \in Nat
    BY <1>1
  <2> QED BY <1>2, <2>1
<1>4. ASSUME NEW k \in 1 .. n PROVE p(k) \in Seq(Unit)
  <2> DEFINE j == k - 1
             size == MinOf(Mps, len - (k - 1) * Mps)
  <2>1. j \in Nat /\ n - 1 \in Nat /\ j <= n - 1 /\ first + j <= MaxPkt
    BY <1>1, <1>3, PktAssumption
  <2>2. j * Mps \in Nat /\ j * Mps <= len
    <3> HIDE DEF j
    <3>1. j * Mps \in Nat /\ (n - 1) * Mps \in Nat /\ j * Mps <= (n - 1) * Mps
      BY <2>1, Products
    <3> QED BY <1>1, <3>1
  <2>3. size \in 0 .. Mps
    BY <2>2, MpsAssumption DEF MinOf
  <2> HIDE DEF size, j
  <2>4. DataAt(first, j * Mps, size) \in Seq(Unit)
    BY <2>1, <2>3, DataAtType
  <2> QED BY <2>4 DEF size, j, p
<1>5. ps \in Seq(Seq(Unit))
  BY <1>1, <1>2, <1>4
<1> QED BY <1>1, <1>2, <1>3, <1>5 DEF p

-----------------------------------------------------------------------------
(* The ring of descriptors.  Core and driver go round it, each with an      *)
(* index of its own: the driver fills, the core takes, the driver retires.  *)

Opened == drv.ep # NoEp
Status == eps[drv.ep]

SlotState == {"none", "rdy_data", "done_ok"}

\* The states of the descriptors of the end point.  One that the driver took
\* over but has not read yet counts as done.
Slots == [b \in {0, 1} |-> IF cpu.at = "read" /\ b = drv.retire THEN "done_ok"
                           ELSE bd[Reg(b)].state]

\* From the index r where the driver retires to the index c of the core the
\* descriptors are done, from there to the index f where the driver fills they
\* are ready, and the others are empty.
Ring(dual, s, r, c, f) ==
  IF dual
    THEN LET o == 1 - r
         IN \/ s[r] = "none" /\ s[o] = "none" /\ c = r /\ f = r
            \/ s[r] = "rdy_data" /\ s[o] = "none" /\ c = r /\ f = o
            \/ s[r] = "rdy_data" /\ s[o] = "rdy_data" /\ c = r /\ f = r
            \/ s[r] = "done_ok" /\ s[o] = "none" /\ c = o /\ f = o
            \/ s[r] = "done_ok" /\ s[o] = "rdy_data" /\ c = o /\ f = r
            \/ s[r] = "done_ok" /\ s[o] = "done_ok" /\ c = r /\ f = r
    ELSE r = 0 /\ c = 0 /\ f = 0 /\ s[0] \in SlotState

One(p) == IF p THEN 1 ELSE 0

\* How many descriptors are in the state x.
Count(dual, s, x) == One(s[0] = x) + One(dual /\ s[1] = x)

Step(dual, b) == IF dual THEN 1 - b ELSE b

Slotted(s) == s \in [{0, 1} -> BdState]

\* The core takes the descriptor at its index.
LEMMA RingTakes ==
  ASSUME NEW dual \in BOOLEAN, NEW s, Slotted(s), NEW t, Slotted(t), NEW r \in {0, 1},
         NEW c \in {0, 1}, NEW f \in {0, 1}, Ring(dual, s, r, c, f),
         s[c] = "rdy_data", t[c] = "done_ok", t[1 - c] = s[1 - c]
  PROVE  /\ Ring(dual, t, r, Step(dual, c), f)
         /\ Count(dual, t, "rdy_data") = Count(dual, s, "rdy_data") - 1
         /\ Count(dual, t, "done_ok") = Count(dual, s, "done_ok") + 1
<1>2. CASE dual
  BY <1>2 DEF Ring, Count, One, Step
<1>3. CASE ~dual
  BY <1>3 DEF Ring, Count, One, Step, SlotState
<1> QED BY <1>2, <1>3

\* The driver retires the descriptor at its index.
LEMMA RingRetires ==
  ASSUME NEW dual \in BOOLEAN, NEW s, Slotted(s), NEW t, Slotted(t), NEW r \in {0, 1},
         NEW c \in {0, 1}, NEW f \in {0, 1}, Ring(dual, s, r, c, f),
         s[r] = "done_ok", t[r] = "none", t[1 - r] = s[1 - r]
  PROVE  /\ Ring(dual, t, Step(dual, r), c, f)
         /\ Count(dual, t, "rdy_data") = Count(dual, s, "rdy_data")
         /\ Count(dual, t, "done_ok") = Count(dual, s, "done_ok") - 1
<1>2. CASE dual
  BY <1>2 DEF Ring, Count, One, Step
<1>3. CASE ~dual
  BY <1>3 DEF Ring, Count, One, Step, SlotState
<1> QED BY <1>2, <1>3

\* The driver fills the descriptor at its index.
LEMMA RingFills ==
  ASSUME NEW dual \in BOOLEAN, NEW s, Slotted(s), NEW t, Slotted(t), NEW r \in {0, 1},
         NEW c \in {0, 1}, NEW f \in {0, 1}, Ring(dual, s, r, c, f),
         s[f] = "none", t[f] = "rdy_data", t[1 - f] = s[1 - f]
  PROVE  /\ Ring(dual, t, r, c, Step(dual, f))
         /\ Count(dual, t, "rdy_data") = Count(dual, s, "rdy_data") + 1
         /\ Count(dual, t, "done_ok") = Count(dual, s, "done_ok")
         /\ Count(dual, s, "rdy_data") = 0 => f = c
         /\ Count(dual, s, "rdy_data") = 1 => f = 1 - c /\ s[c] = "rdy_data"
         /\ Count(dual, s, "rdy_data") # 2
<1>2. CASE dual
  BY <1>2 DEF Ring, Count, One, Step
<1>3. CASE ~dual
  BY <1>3 DEF Ring, Count, One, Step, SlotState
<1> QED BY <1>2, <1>3

\* Where the descriptors that are ready, or done, are.
LEMMA RingFacts ==
  ASSUME NEW dual \in BOOLEAN, NEW s, Slotted(s), NEW r \in {0, 1},
         NEW c \in {0, 1}, NEW f \in {0, 1}, Ring(dual, s, r, c, f)
  PROVE  /\ s[c] \in SlotState /\ s[r] \in SlotState
         /\ \A x \in SlotState : Count(dual, s, x) \in 0 .. 2
         /\ Count(dual, s, "rdy_data") >= 1 <=> s[c] = "rdy_data"
         /\ Count(dual, s, "done_ok") >= 1 <=> s[r] = "done_ok"
         /\ Count(dual, s, "rdy_data") = 2 => dual /\ s[1 - c] = "rdy_data"
         /\ Count(dual, s, "done_ok") = 2 => dual /\ s[1 - r] = "done_ok"
         /\ s[c] = "rdy_data" =>
              IF Count(dual, s, "done_ok") = 0 THEN c = r
              ELSE c = 1 - r /\ dual /\ Count(dual, s, "done_ok") = 1
<1>1. CASE dual
  BY <1>1 DEF Ring, Count, One, Step, SlotState
<1>2. CASE ~dual
  BY <1>2 DEF Ring, Count, One, Step, SlotState
<1> QED BY <1>1, <1>2

-----------------------------------------------------------------------------
(* The inductive invariant.                                                *)

\* The types of the variables, but for the history.
Typed == /\ TransTypeOK /\ DcdTypeOK /\ host \in Host
         /\ losses \in 0 .. MaxLoss /\ others \in 0 .. MaxOther

\* The indices of core and driver agree with the states of the descriptors.
RingOK == Opened => Ring(drv.dual, Slots, drv.retire, Status.bdi, drv.fill)

\* There is no session until the driver opens the end point.
ClosedOK == ~Opened =>
  /\ drv = Closed /\ eps = [ep \in Ep |-> NoStatus] /\ rst = "none"
  /\ cpu.at \in {"idle", "drain", "event"}
  /\ host = HostIdle /\ sent = <<>> /\ got = <<>>

\* The status word is the one the driver wrote, but for toggle and index.
OpenOK == Opened =>
  /\ drv.ep \in Ep
  /\ Status.type \in {"bulk", "int"} /\ ~Status.halt
  /\ Status.mode = IF drv.dual THEN "dual" ELSE "single"

\* What the driver knows where it stands.
PlaceOK ==
  /\ ~cpu.failed
  /\ drv.busy => drv.ofs <= drv.len
  /\ IsIn /\ cpu.at = "fill" => drv.busy
  /\ cpu.at \in {"load", "submit"} =>
       /\ IsIn /\ drv.busy
       /\ bd[Reg(drv.fill)].state = "none"
       /\ drv.plen = MinOf(drv.len - drv.ofs, Mps)
  /\ cpu.at = "submit" =>
       Prefix(buf[Reg(drv.fill)], drv.plen) = DataAt(drv.first, drv.ofs, drv.plen)
  /\ cpu.at = "reset" => bd[Reg(drv.retire)].state = "done_ok"
  /\ cpu.at = "reset" /\ IsOut =>
       drv.busy /\ drv.plen = MinOf(bd[Reg(drv.retire)].len - CrcLen, drv.len - drv.ofs)
  /\ cpu.at = "read" =>
       /\ IsOut /\ drv.busy
       /\ bd[Reg(drv.retire)].state = "none"
       /\ drv.plen = MinOf(Len(sent[Len(got) + 1]), drv.len - drv.ofs)

\* What the core fetched is what the registers hold: nobody but the core
\* changes the status word, or a descriptor that is ready.
FetchedOK ==
  sie.pc \in {"wait_out", "tx_data", "wait_ack"} =>
    /\ sie.st = Status /\ sie.cur = Status.bdi
    /\ sie.bd.state = "rdy_data" => bd[SieBd] = sie.bd
    /\ sie.pc = "wait_out" => sie.bd.state \in SlotState /\ IsOut
    /\ sie.pc # "wait_out" => sie.bd.state = "rdy_data" /\ IsIn
    /\ sie.pc = "wait_out" => (sie.zl <=> sie.bd.state # "rdy_data")

\* A transaction that goes on is one of the end point of this session.
CoreOK ==
  /\ sie.pc = "idle" => sie.zl
  /\ sie.past # 0 => sie.pc \in {"idle", "tx_ack"}
  /\ sie.pc \in {"idle", "wait_out", "wait_ack", "tx_data", "tx_ack", "tx_nak"}
  /\ Opened => /\ sie.pc # "idle" => SieEp = drv.ep
               /\ FetchedOK
               /\ sie.pc = "tx_ack" => IsOut

\* The host and the core are in the same transaction, unless a packet is lost.
PhaseOK ==
  /\ rst # "none" => host = HostIdle
  /\ host.phase \in {"ready", "data"} => sie.pc \in {"idle", "wait_out", "wait_ack"}
  /\ host.phase = "data" => IsOut
  /\ host.phase = "ack" => sie.pc = "wait_ack" /\ IsIn /\ host.dt # Status.dt
  /\ sie.pc = "tx_ack" => host.dt # Status.dt

\* The host is one packet ahead of the core, or behind it: it received a packet
\* whose acknowledgement the core waits for, or the other way round.
Ahead == One(host.dt # Status.dt)

\* The buffer of a descriptor holds packet k of the session, or what was made
\* of it.
Holds(b, k) ==
  /\ k \in 1 .. Len(sent)
  /\ IF k \in spoilt THEN Len(sent[k]) <= Len(buf[Reg(b)])
                       ELSE Prefix(buf[Reg(b)], Len(sent[k])) = sent[k]

\* The transfer to the host that is in progress: its packets before number q
\* are with the core or beyond, and q + 1 is to be filled in next.
InProgress(q) ==
  /\ drv.first \in 1 .. q + 1 /\ q < Len(sent)
  /\ drv.ofs = ((q + 1) - drv.first) * Mps
  /\ (Len(sent) - drv.first) * Mps <= drv.len
  /\ drv.len <= (Len(sent) - drv.first) * Mps + Mps
  /\ Len(sent) # drv.first => (Len(sent) - drv.first) * Mps < drv.len
  /\ \A k \in drv.first .. Len(sent) :
       sent[k] = DataAt(drv.first, (k - drv.first) * Mps,
                        MinOf(Mps, drv.len - (k - drv.first) * Mps))

Filled == Count(drv.dual, Slots, "rdy_data")
Taken  == Count(drv.dual, Slots, "done_ok")

\* The descriptors that are ready hold the last of the q packets queued.
Queued(q) ==
  /\ IF drv.busy THEN InProgress(q) ELSE q = Len(sent)
  /\ Filled <= q
  /\ LET c == Status.bdi
         k == q - Filled + 1
     IN /\ Filled >= 1 => Holds(c, k) /\ bd[Reg(c)].len = Len(sent[k])
        /\ Filled = 2 => Holds(1 - c, k + 1) /\ bd[Reg(1 - c)].len = Len(sent[k + 1])

\* The host got those before, and the next one if it is ahead.
Delivered(q) ==
  rst = "none" => /\ Len(got) = q - Filled + Ahead
                  /\ Ahead = 1 => Filled >= 1

QueueOK == IsIn => \E q \in 0 .. Len(sent) : Queued(q) /\ Delivered(q)

\* The descriptors that are done hold the packets after those the driver read.
Stored ==
  /\ \A k \in 1 .. Len(sent) : Len(sent[k]) <= Mps
  /\ LET r == drv.retire
         k == Len(got) + 1
     IN /\ Taken >= 1 =>
             /\ Holds(r, k)
             /\ cpu.at # "read" => bd[Reg(r)].len = Len(sent[k]) + CrcLen
        /\ Taken = 2 => Holds(1 - r, k + 1) /\ bd[Reg(1 - r)].len = Len(sent[k + 1]) + CrcLen
  /\ \A b \in {0, 1} : bd[Reg(b)].state = "rdy_data" => bd[Reg(b)].len = Mps

\* They are those the host knows to be acknowledged, and the next one if the
\* core is ahead.
Acked ==
  rst = "none" => /\ Len(got) + Taken = host.acked + Ahead
                  /\ host.acked + Ahead <= Len(sent) /\ Len(sent) <= host.acked + 1
                  /\ host.phase = "data" => host.acked < Len(sent)

ArrivedOK == IsOut => Stored /\ Acked

\* Data without a token goes to the second of two buffers, if anywhere; if there
\* is a packet in it, it is the one that the driver reads next.
PastOK == Opened /\ sie.past # 0 =>
  /\ IsOut /\ drv.dual /\ SieEp = drv.ep
  /\ Slots[1] = "done_ok" => drv.retire = 1

\* Only packets of the host are overwritten.
SpoiltOK == /\ spoilt \subseteq 1 .. Len(sent)
            /\ ~IsOut => spoilt = {}

SpillOK == PastOK /\ SpoiltOK

BulkInv == /\ Typed /\ RingOK /\ ClosedOK /\ OpenOK /\ PlaceOK /\ CoreOK /\ PhaseOK
           /\ QueueOK /\ ArrivedOK /\ SpillOK

-----------------------------------------------------------------------------
(* Facts about a session.                                                  *)

\* An end point that is open has two descriptors and a status word.
LEMMA OpenFacts ==
  ASSUME Typed, OpenOK, Opened
  PROVE  /\ drv.ep \in Ep /\ drv.ep[1] \in EpNum /\ drv.ep[2] \in {"out", "in"}
         /\ drv.ep = <<drv.ep[1], drv.ep[2]>>
         /\ Reg(0) \in BdId /\ Reg(1) \in BdId /\ Reg(0) # Reg(1)
         /\ Reg(drv.retire) \in BdId /\ Reg(drv.fill) \in BdId
         /\ Status \in EpStatus /\ Status.bdi \in {0, 1} /\ Status.dt \in {0, 1}
         /\ Reg(Status.bdi) \in BdId
         /\ drv.dual \in BOOLEAN /\ drv.retire \in {0, 1} /\ drv.fill \in {0, 1}
<1>1. drv \in Driver /\ drv.ep \in Ep
  BY DEF Typed, DcdTypeOK, OpenOK
<1>2. /\ drv.ep[1] \in EpNum /\ drv.ep[2] \in {"out", "in"}
      /\ drv.ep = <<drv.ep[1], drv.ep[2]>>
  BY <1>1 DEF Ep
<1>3. \A b \in {0, 1} : Reg(b) \in BdId
  BY <1>2 DEF Reg, BdId
<1>4. drv.dual \in BOOLEAN /\ drv.retire \in {0, 1} /\ drv.fill \in {0, 1}
  BY <1>1 DEF Driver
<1>5. Status \in EpStatus
  BY <1>1 DEF Typed, TransTypeOK, Status
<1>6. Status.bdi \in {0, 1} /\ Status.dt \in {0, 1}
  BY <1>5 DEF EpStatus
<1>7. Reg(0) # Reg(1)
  BY DEF Reg
<1> QED BY <1>1, <1>2, <1>3, <1>4, <1>5, <1>6, <1>7

\* The end point is closed, or has a direction.
LEMMA OpenOrClosed ==
  ASSUME Typed, OpenOK, ClosedOK
  PROVE  /\ IsIn \/ IsOut => Opened
         /\ Opened => (IsIn \/ IsOut) /\ ~(IsIn /\ IsOut)
         /\ drv.busy => Opened
         /\ cpu.at \notin {"idle", "drain", "event"} => Opened
         /\ rst # "none" => Opened
<1>1. NoEp[2] = "none" /\ Closed.busy = FALSE
  BY DEF NoEp, Closed
<1>2. IsIn \/ IsOut => Opened
  BY <1>1 DEF IsIn, IsOut, Opened
<1>3. Opened => (IsIn \/ IsOut) /\ ~(IsIn /\ IsOut)
  BY OpenFacts DEF IsIn, IsOut
<1> QED BY <1>1, <1>2, <1>3 DEF ClosedOK

\* The slots are states of descriptors.
LEMMA SlotsFacts ==
  ASSUME Typed, OpenOK, Opened
  PROVE  /\ Slotted(Slots)
         /\ \A b \in {0, 1} : Slots[b] = IF cpu.at = "read" /\ b = drv.retire THEN "done_ok"
                                         ELSE bd[Reg(b)].state
<1>1. Reg(0) \in BdId /\ Reg(1) \in BdId
  BY OpenFacts
<1>2. \A b \in {0, 1} : bd[Reg(b)].state \in BdState
  BY <1>1 DEF Typed, TransTypeOK, Descriptor
<1> QED BY <1>2 DEF Slots, Slotted, BdState

\* What the ring says of an open end point.
LEMMA SessionFacts ==
  ASSUME Typed, OpenOK, Opened, RingOK
  PROVE  /\ Slots[Status.bdi] \in SlotState /\ Slots[drv.retire] \in SlotState
         /\ Filled \in 0 .. 2 /\ Taken \in 0 .. 2
         /\ Filled >= 1 <=> Slots[Status.bdi] = "rdy_data"
         /\ Taken >= 1 <=> Slots[drv.retire] = "done_ok"
         /\ Filled = 2 => drv.dual /\ Slots[1 - Status.bdi] = "rdy_data"
         /\ Taken = 2 => drv.dual /\ Slots[1 - drv.retire] = "done_ok"
         /\ Slots[Status.bdi] = "rdy_data" =>
              IF Taken = 0 THEN Status.bdi = drv.retire
              ELSE Status.bdi = 1 - drv.retire /\ drv.dual /\ Taken = 1
         /\ Ahead \in 0 .. 1 /\ (Ahead = 0 <=> host.dt = Status.dt)
<1>1. /\ Slotted(Slots) /\ drv.dual \in BOOLEAN /\ drv.retire \in {0, 1}
      /\ drv.fill \in {0, 1} /\ Status.bdi \in {0, 1}
  BY OpenFacts, SlotsFacts
<1>2. Ring(drv.dual, Slots, drv.retire, Status.bdi, drv.fill)
  BY DEF RingOK
<1>3. Ahead \in 0 .. 1 /\ (Ahead = 0 <=> host.dt = Status.dt)
  BY DEF Ahead, One
<1>4. "rdy_data" \in SlotState /\ "done_ok" \in SlotState
  BY DEF SlotState
<1> QED BY <1>1, <1>2, <1>3, <1>4, RingFacts DEF Filled, Taken

-----------------------------------------------------------------------------
(* The event FIFO, in either build of the microcode.                       *)

\* An event of the core, if there is one.
LEMMA EventsFifo == ASSUME FifoInv, Events \/ NoFifo PROVE FifoInv'
<1>1. CASE NoFifo
  BY <1>1 DEF FifoInv, NoFifo, fifoVars, EventPending
<1>2. CASE ~NoFifo
  BY <1>2, CycleKeeps, EntryAssumption DEF Events
<1> QED BY <1>1, <1>2

\* The driver only reads it.
LEMMA FirmwareFifo == ASSUME FifoInv, Firmware PROVE FifoInv'
<1>1. CASE ReadEvent
  BY <1>1, EventsFifo, CycleKeeps, EntryAssumption DEF ReadEvent
<1>2. CASE DcdNext /\ ~ReadEvent
  BY <1>2, EventsFifo DEF DcdNext, Advance, RetireIn, ResetIn, FillIn, LoadIn, SubmitIn,
     RetireOut, ResetOut, ReadOut, FillOut, Interrupt, BusReset, Drain, Keep
<1> QED BY <1>1, <1>2 DEF Firmware

\* Every step keeps the FIFO and its flag together.
LEMMA NextFifo == FifoInv /\ [StepNext]_stepVars => FifoInv'
<1> SUFFICES ASSUME FifoInv, [StepNext]_stepVars PROVE FifoInv'
  OBVIOUS
<1>1. CASE Transaction
  BY <1>1, EventsFifo DEF Transaction, OutToken, InToken, HostData, Answer, Silence,
     DeviceData, HostAck, Core, Silent
<1>2. CASE Loss
  BY <1>2, EventsFifo DEF Loss, TokenLost, HostDataDamaged, HostDataLost, AnswerLost,
     DeviceDataLost, HostAckDamaged, HostAckLost, Core, Silent
<1>3. CASE Sof \/ ResetStart \/ ResetEnd
  BY <1>3, EventsFifo DEF Sof, ResetStart, ResetEnd, Core
<1>4. CASE OtherEvent
  BY <1>4, CycleKeeps DEF OtherEvent
<1>5. CASE Function
  BY <1>5, EventsFifo DEF Function, Open, Xfer, Keep
<1>6. CASE Firmware
  BY <1>6, FirmwareFifo
<1>7. CASE UNCHANGED stepVars
  <2>1. NoFifo
    BY <1>7 DEF stepVars, NoFifo
  <2> QED BY <2>1, EventsFifo
<1> QED BY <1>1, <1>2, <1>3, <1>4, <1>5, <1>6, <1>7 DEF StepNext

-----------------------------------------------------------------------------
(* Every step keeps the types.                                             *)

\* The packet whose data the host sends.
LEMMA PacketSent ==
  ASSUME BulkInv, host.phase = "data"
  PROVE  /\ IsOut /\ Opened /\ rst = "none" /\ host.acked + 1 \in 1 .. Len(sent)
         /\ sent[host.acked + 1] \in Seq(Unit)
         /\ Len(sent[host.acked + 1]) <= Mps
<1>1. IsOut /\ Opened /\ rst = "none"
  BY OpenOrClosed DEF BulkInv, PhaseOK, HostIdle
<1>2. host.acked \in Nat /\ Len(sent) \in Nat /\ sent \in Seq(Seq(Unit))
  BY DEF BulkInv, Typed, Host, DcdTypeOK
<1>3. host.acked < Len(sent) /\ \A k \in 1 .. Len(sent) : Len(sent[k]) <= Mps
  BY <1>1 DEF BulkInv, ArrivedOK, Acked, Stored
<1> QED BY <1>1, <1>2, <1>3

\* The registers of the core.
LEMMA CoreTypes ==
  ASSUME BulkInv, Transaction \/ Loss \/ Sof
  PROVE  TransTypeOK'
<1> USE DEF BulkInv
<1>1. TransTypeOK
  BY DEF Typed
<1>2. CASE OutToken \/ InToken
  <2>1. drv.ep[1] \in EpNum
    BY <1>2, OpenFacts DEF OutToken, InToken, Sends, Opened
  <2> QED BY <1>1, <1>2, <2>1, TokenType DEF OutToken, InToken
<1>3. CASE HostData
  BY <1>1, <1>3, PacketSent, RxType DEF HostData, DataSent
<1>4. CASE HostDataDamaged \/ Sof
  <2>1. <<CrcUnit>> \in Seq(Unit) /\ <<>> \in Seq(Unit)
    BY UnitAssumption
  <2> QED BY <1>1, <1>4, <2>1, RxType DEF HostDataDamaged, Sof
<1>5. CASE Answer \/ AnswerLost \/ DeviceData \/ DeviceDataLost \/ HostAck \/ HostAckDamaged
  BY <1>1, <1>5, TxType DEF Answer, AnswerLost, DeviceData, DeviceDataLost, HostAck,
     HostAckDamaged
<1>6. CASE TokenLost \/ HostDataLost \/ HostAckLost \/ Silence
  BY <1>1, <1>6, OtherAccessType DEF TokenLost, HostDataLost, HostAckLost, Silence, Silent,
     NoAccess
<1> QED BY <1>2, <1>3, <1>4, <1>5, <1>6 DEF Transaction, Loss

\* The packets of the session.
LEMMA LogTypes ==
  ASSUME BulkInv, Transaction \/ Loss \/ Sof
  PROVE  sent' \in Seq(Seq(Unit)) /\ got' \in Seq(Seq(Unit))
<1>1. sent \in Seq(Seq(Unit)) /\ got \in Seq(Seq(Unit))
  BY DEF BulkInv, Typed, DcdTypeOK
<1>2. ASSUME Offers PROVE sent' \in Seq(Seq(Unit)) /\ got' = got
  <2>1. CASE UNCHANGED logVars
    BY <1>1, <2>1 DEF logVars
  <2>2. ASSUME Len(sent) < MaxPkt, NEW n \in PktLen,
               sent' = Append(sent, DataAt(Len(sent) + 1, 0, n))
        PROVE  sent' \in Seq(Seq(Unit))
    <3>1. Len(sent) + 1 \in Nat /\ 0 * Mps = 0 /\ Len(sent) + 1 + 0 <= MaxPkt
      BY <1>1, <2>2, MpsAssumption, PktAssumption
    <3>2. DataAt(Len(sent) + 1, 0, n) \in Seq(Unit)
      BY <3>1, DataAtType, LenAssumption
    <3> HIDE DEF DataAt
    <3> QED BY <1>1, <2>2, <3>2
  <2> QED BY <1>2, <2>1, <2>2 DEF Offers
<1>3. CASE DeviceData
  <2>1. buf[SieBd] \in Seq(Unit) /\ sie.bd.len \in Int
    BY DEF BulkInv, Typed, TransTypeOK, Sie, SieBd, BdId, Descriptor
  <2>2. TxPayload \in Seq(Unit)
    BY <2>1, PrefixType DEF TxPayload
  <2> QED BY <1>1, <1>3, <2>2 DEF DeviceData
<1>4. CASE OutToken \/ TokenLost
  BY <1>1, <1>2, <1>4 DEF OutToken, TokenLost, logVars
<1>5. CASE ~(OutToken \/ TokenLost \/ DeviceData)
  BY <1>1, <1>5 DEF Transaction, Loss, InToken, HostData, Answer, Silence,
     HostAck, HostDataDamaged, HostDataLost, AnswerLost,
     DeviceDataLost, HostAckDamaged, HostAckLost, Sof, logVars
<1> QED BY <1>3, <1>4, <1>5

\* The host.
LEMMA HostTypes ==
  ASSUME BulkInv, Transaction \/ Loss \/ Sof
  PROVE  host' \in Host
<1>1. host \in Host
  BY DEF BulkInv, Typed
<1>2. ASSUME NEW p \in {"ready", "data", "answer", "ack"}, Phase(p) PROVE host' \in Host
  BY <1>1, <1>2 DEF Phase, Host
<1>3. CASE Answer
  BY <1>1, <1>3 DEF Answer, Host
<1>4. CASE DeviceData
  <2> DEFINE dt == IF sie.st.dt = host.dt THEN 1 - host.dt ELSE host.dt
  <2>1. dt \in {0, 1} /\ host' = [host EXCEPT !.phase = "ack", !.dt = dt]
    BY <1>1, <1>4 DEF DeviceData, Host
  <2> HIDE DEF dt
  <2> QED BY <1>1, <2>1 DEF Host
<1>5. CASE ~Answer /\ ~DeviceData
  BY <1>1, <1>2, <1>5 DEF Transaction, Loss, OutToken, InToken, HostData, Silence,
     HostAck, TokenLost, HostDataDamaged, HostDataLost, AnswerLost,
     DeviceDataLost, HostAckDamaged, HostAckLost, Sof, DataSent
<1> QED BY <1>3, <1>4, <1>5

\* The bus.
LEMMA BusTypes ==
  ASSUME BulkInv, Transaction \/ Loss \/ Sof
  PROVE  Typed' /\ UNCHANGED dcdVars
<1>1. /\ UNCHANGED dcdVars /\ UNCHANGED others
      /\ losses' = losses \/ (losses < MaxLoss /\ losses' = losses + 1)
  BY DEF Transaction, Loss, OutToken, InToken, HostData, Silence, Answer, DeviceData,
     HostAck, TokenLost, HostDataDamaged, HostDataLost, AnswerLost,
     DeviceDataLost, HostAckDamaged, HostAckLost, Sof, LoseNone, Lose, Core, Silent, Cpu_
<1>2. losses' \in 0 .. MaxLoss /\ others' \in 0 .. MaxOther
  BY <1>1, BoundAssumption DEF BulkInv, Typed
<1>3. FifoInv'
  BY NextFifo DEF BulkInv, Typed, DcdTypeOK, StepNext
<1>4. DcdTypeOK'
  BY <1>1, <1>3, LogTypes DEF BulkInv, Typed, DcdTypeOK, dcdVars
<1> QED BY <1>1, <1>2, <1>4, CoreTypes, HostTypes DEF Typed

\* The other steps of host and bus.
LEMMA ResetTypes ==
  ASSUME BulkInv, ResetStart \/ ResetEnd \/ OtherEvent
  PROVE  Typed'
<1> USE DEF BulkInv, Typed
<1>1. TransTypeOK'
  BY OtherAccessType DEF ResetStart, ResetEnd, OtherEvent, NoAccess
<1>2. FifoInv'
  BY NextFifo DEF DcdTypeOK, StepNext
<1>3. drv' = drv /\ cpu' = cpu /\ fifo' = fifo /\ sent' = sent /\ got' = got
      /\ rst' \in {"none", "on", "pending"}
  BY DEF ResetStart, ResetEnd, OtherEvent, logVars, dcdVars, DcdTypeOK
<1>4. DcdTypeOK'
  BY <1>2, <1>3 DEF DcdTypeOK
<1>5. HostIdle \in Host
  BY DEF HostIdle, Host
<1>6. host' \in Host
  BY <1>5 DEF ResetStart, ResetEnd, OtherEvent
<1>7. losses' \in 0 .. MaxLoss /\ others' \in 0 .. MaxOther
  <2>1. CASE ResetStart \/ ResetEnd
    BY <2>1, BoundAssumption DEF ResetStart, ResetEnd, Lose, LoseNone
  <2>2. CASE OtherEvent
    BY <2>2, BoundAssumption DEF OtherEvent
  <2> QED BY <2>1, <2>2
<1> QED BY <1>1, <1>4, <1>6, <1>7

\* The steps of the driver do not disturb these.
LEMMA FirmwareFrame ==
  ASSUME BulkInv, Firmware \/ Function
  PROVE  /\ FifoInv' /\ fifo' \in BOOLEAN /\ host' \in Host
         /\ losses' \in 0 .. MaxLoss /\ others' \in 0 .. MaxOther
<1>1. FifoInv'
  BY NextFifo DEF BulkInv, Typed, DcdTypeOK, StepNext
<1>2. fifo' = fifo /\ UNCHANGED <<host, losses, others>>
  BY DEF Firmware, Function, DcdNext, Advance, RetireIn, ResetIn, FillIn, LoadIn, SubmitIn,
     RetireOut, ResetOut, ReadOut, FillOut, Interrupt, BusReset, Drain, ReadEvent, Open, Xfer, Keep
<1> QED BY <1>1, <1>2 DEF BulkInv, Typed, DcdTypeOK

\* The values the driver writes.
LEMMA DriverValues ==
  /\ NoBd \in Descriptor /\ NoBd.state = "none"
  /\ \A n \in Nat : RdyBd(n) \in Descriptor /\ RdyBd(n).state = "rdy_data" /\ RdyBd(n).len = n
  /\ NoStatus \in EpStatus /\ NoStatus.type = "none"
  /\ Idle \in Cpu /\ Closed \in Driver /\ ~Closed.busy /\ Closed.ep = NoEp
  /\ Mps \in Nat
  BY MpsAssumption DEF NoBd, RdyBd, Descriptor, BdState, NoStatus, EpStatus, EpType, Idle, Cpu,
     CpuAt, Closed, Driver, NoEp

\* Where the processor goes on.
LEMMA AtTypes ==
  ASSUME cpu \in Cpu, NEW a \in CpuAt, At(a)
  PROVE  /\ cpu' \in Cpu /\ cpu'.at = a
         /\ cpu'.failed = (IF a = "idle" THEN FALSE ELSE cpu.failed)
<1>1. CASE a = "idle"
  BY <1>1, DriverValues DEF At, Idle
<1>2. CASE a # "idle"
  BY <1>2 DEF At, Cpu
<1> QED BY <1>1, <1>2

\* Returning from the handling of one end point.
LEMMA ReturnAt == Return \in {"drain", "idle"} /\ Return \in CpuAt
  BY DEF Return, CpuAt

\* What the driver keeps of a transfer.
LEMMA DriverFields ==
  ASSUME Typed
  PROVE  /\ drv \in Driver /\ cpu \in Cpu /\ drv.busy \in BOOLEAN /\ drv.dual \in BOOLEAN
         /\ drv.len \in Nat /\ drv.ofs \in Nat /\ drv.plen \in Nat /\ drv.first \in Nat
         /\ drv.retire \in {0, 1} /\ drv.fill \in {0, 1}
         /\ sent \in Seq(Seq(Unit)) /\ got \in Seq(Seq(Unit))
         /\ Len(sent) \in Nat /\ Len(got) \in Nat
         /\ TransTypeOK
  BY DEF Typed, DcdTypeOK, Driver

\* The length of the data of a packet.
LEMMA DataAtLen ==
  ASSUME NEW first, NEW o, NEW n \in Nat
  PROVE  Len(DataAt(first, o, n)) = n
<1> DEFINE u(i) == <<first + (o + i - 1) \div Mps, ((o + i - 1) % Mps) + 1>>
<1>1. DataAt(first, o, n) = [i \in 1 .. n |-> u(i)]
  BY DEF DataAt
<1> HIDE DEF u
<1> QED BY <1>1

\* The packet that is filled in next, and what there is left of the transfer.
LEMMA NextPacket ==
  ASSUME BulkInv, NEW q \in 0 .. Len(sent), InProgress(q), drv.ofs <= drv.len,
         NEW n, n = MinOf(drv.len - drv.ofs, Mps)
  PROVE  /\ n \in Nat /\ drv.ofs + n <= drv.len
         /\ DataAt(drv.first, drv.ofs, n) = sent[q + 1]
         /\ sent[q + 1] \in Seq(Unit) /\ Len(sent[q + 1]) = n
         /\ drv.ofs + n = drv.len => q + 1 = Len(sent)
         /\ drv.ofs + n # drv.len => q + 1 < Len(sent) /\ drv.ofs + n = ((q + 2) - drv.first) * Mps
<1> DEFINE j == (q + 1) - drv.first
           m == Len(sent) - drv.first
<1>1. /\ drv.len \in Nat /\ drv.ofs \in Nat /\ drv.first \in Nat /\ Len(sent) \in Nat
      /\ sent \in Seq(Seq(Unit))
  BY DriverFields DEF BulkInv
<1>2. /\ j \in Nat /\ m \in Nat /\ j <= m
      /\ q + 1 \in drv.first .. Len(sent)
      /\ j = m => q + 1 = Len(sent)
      /\ j < m => q + 1 < Len(sent)
      /\ (q + 2) - drv.first = j + 1
      /\ m # 0 => Len(sent) # drv.first
  <2>1. drv.first \in 1 .. q + 1 /\ q < Len(sent)
    BY DEF InProgress
  <2>2. q \in Nat
    BY <1>1
  <2>3. j \in Nat /\ m \in Nat /\ j <= m
    BY <1>1, <2>1, <2>2
  <2>4. q + 1 \in drv.first .. Len(sent)
    BY <1>1, <2>1, <2>2
  <2>5. (j = m => q + 1 = Len(sent)) /\ (j < m => q + 1 < Len(sent))
    BY <1>1, <2>1, <2>2
  <2>6. (q + 2) - drv.first = j + 1 /\ (m # 0 => Len(sent) # drv.first)
    BY <1>1, <2>1, <2>2
  <2> QED BY <2>3, <2>4, <2>5, <2>6
<1>3. /\ drv.ofs = j * Mps /\ m * Mps <= drv.len /\ drv.len <= m * Mps + Mps
      /\ m # 0 => m * Mps < drv.len
      /\ sent[q + 1] = DataAt(drv.first, drv.ofs, MinOf(Mps, drv.len - drv.ofs))
  <2>1. Len(sent) # drv.first => m * Mps < drv.len
    BY DEF InProgress
  <2>2. sent[q + 1] = DataAt(drv.first, drv.ofs, MinOf(Mps, drv.len - drv.ofs))
    <3> DEFINE P(k) == sent[k] = DataAt(drv.first, (k - drv.first) * Mps,
                                       MinOf(Mps, drv.len - (k - drv.first) * Mps))
    <3>1. \A k \in drv.first .. Len(sent) : P(k)
      BY Zenon DEF InProgress
    <3> HIDE DEF P
    <3>2. P(q + 1)
      BY <1>2, <3>1
    <3>3. drv.ofs = ((q + 1) - drv.first) * Mps
      BY Zenon DEF InProgress
    <3> QED BY <3>2, <3>3, Zenon DEF P
  <2>3. drv.ofs = j * Mps /\ m * Mps <= drv.len /\ drv.len <= m * Mps + Mps
    BY Zenon DEF InProgress
  <2> HIDE DEF j, m
  <2> QED BY <1>2, <2>1, <2>2, <2>3, Zenon
<1> HIDE DEF j, m
<1> DEFINE done == j * Mps
           most == m * Mps
<1>4. /\ done \in Nat /\ most \in Nat
      /\ (j + 1) * Mps = done + Mps /\ (j < m => done + Mps <= most)
      /\ drv.ofs = done /\ most <= drv.len /\ drv.len <= most + Mps
      /\ m # 0 => most < drv.len
  <2>1. done \in Nat /\ (j + 1) * Mps = done + Mps
    BY <1>2, Products
  <2>2. most \in Nat
    BY <1>2, Products
  <2>3. j < m => done + Mps <= most
    BY <1>2, Products
  <2>4. drv.ofs = done /\ most <= drv.len /\ drv.len <= most + Mps /\ (m # 0 => most < drv.len)
    BY <1>3, Zenon
  <2> QED BY <2>1, <2>2, <2>3, <2>4, Zenon
<1> HIDE DEF done, most
<1>5. n \in Nat /\ n = MinOf(Mps, drv.len - drv.ofs) /\ drv.ofs + n <= drv.len
  BY <1>1, MpsAssumption DEF MinOf
<1>6. drv.ofs + n = drv.len => j = m
  <2>1. ASSUME j < m PROVE drv.ofs + n # drv.len
    <3>1. done + Mps <= most /\ most < drv.len
      BY <1>2, <1>4, <2>1
    <3> QED BY <1>1, <1>4, <3>1, MpsAssumption DEF MinOf
  <2> QED BY <1>2, <2>1
<1>7. drv.ofs + n # drv.len => j < m /\ n = Mps
  <2>1. ASSUME j = m PROVE drv.ofs + n = drv.len
    <3>1. drv.len <= done + Mps
      BY <1>4, <2>1 DEF done, most
    <3> QED BY <1>1, <1>4, <3>1, MpsAssumption DEF MinOf
  <2>2. drv.ofs + n # drv.len => n = Mps
    BY <1>1, <1>5, MpsAssumption DEF MinOf
  <2> QED BY <1>2, <2>1, <2>2
<1>8. sent[q + 1] \in Seq(Unit)
  BY <1>1, <1>2
<1>9. DataAt(drv.first, drv.ofs, n) = sent[q + 1]
  BY <1>3, <1>5, Zenon
<1>10. Len(DataAt(drv.first, drv.ofs, n)) = n
  BY <1>5, DataAtLen
<1>11. drv.ofs + n # drv.len => drv.ofs + n = ((q + 2) - drv.first) * Mps
  BY <1>2, <1>4, <1>7
<1>12. (drv.ofs + n = drv.len => q + 1 = Len(sent)) /\ (drv.ofs + n # drv.len => q + 1 < Len(sent))
  BY <1>2, <1>6, <1>7
<1> QED BY <1>5, <1>8, <1>9, <1>10, <1>11, <1>12

\* A transfer that is complete.
LEMMA CompleteFacts ==
  ASSUME NEW d \in Driver
  PROVE  /\ Complete(d) \in Driver /\ Complete(d).busy = FALSE
         /\ Complete(d).ep = d.ep /\ Complete(d).dual = d.dual
         /\ Complete(d).fill = d.fill /\ Complete(d).retire = d.retire
  BY DEF Complete, Driver

\* What the driver keeps after a packet to the host is queued.
LEMMA SubmitInDriver ==
  ASSUME Typed, SubmitIn
  PROVE  /\ drv' \in Driver /\ drv'.ep = drv.ep /\ drv'.dual = drv.dual
         /\ drv'.retire = drv.retire /\ drv'.fill = Other(drv.fill)
         /\ IF drv.ofs + drv.plen = drv.len
              THEN ~drv'.busy /\ At(Return)
              ELSE /\ At("fill") /\ drv'.busy = drv.busy /\ drv'.first = drv.first
                   /\ drv'.len = drv.len /\ drv'.ofs = drv.ofs + drv.plen
<1> DEFINE ofs == drv.ofs + drv.plen
           fill == Other(drv.fill)
           d == [drv EXCEPT !.ofs = ofs, !.fill = fill]
<1>1. drv \in Driver /\ ofs \in Nat /\ fill \in {0, 1}
  BY DriverFields DEF Other
<1>2. IF d.ofs = d.len THEN drv' = Complete(d) /\ At(Return) ELSE drv' = d /\ At("fill")
  BY Zenon DEF SubmitIn
<1> HIDE DEF ofs, fill
<1>3. /\ d \in Driver /\ d.ep = drv.ep /\ d.dual = drv.dual /\ d.retire = drv.retire
      /\ d.fill = fill /\ d.busy = drv.busy /\ d.first = drv.first /\ d.len = drv.len
      /\ d.ofs = ofs
  BY <1>1 DEF Driver
<1> HIDE DEF d
<1>4. CASE d.ofs = d.len
  BY <1>2, <1>3, <1>4, CompleteFacts DEF ofs, fill
<1>5. CASE d.ofs # d.len
  BY <1>2, <1>3, <1>5 DEF ofs, fill
<1> QED BY <1>4, <1>5

\* What the driver keeps after a packet of the host is read.
LEMMA ReadOutDriver ==
  ASSUME Typed, ReadOut
  PROVE  /\ drv' \in Driver /\ drv'.ep = drv.ep /\ drv'.dual = drv.dual
         /\ drv'.retire = Other(drv.retire) /\ drv'.fill = drv.fill
         /\ IF drv.plen < Mps \/ drv.ofs + drv.plen = drv.len
              THEN ~drv'.busy
              ELSE /\ drv'.busy = drv.busy /\ drv'.len = drv.len
                   /\ drv'.ofs = drv.ofs + drv.plen
<1> DEFINE ofs == drv.ofs + drv.plen
           retire == Other(drv.retire)
           d == [Retired EXCEPT !.ofs = @ + drv.plen]
           e == [drv EXCEPT !.ofs = ofs, !.retire = retire]
<1>1. drv \in Driver /\ ofs \in Nat /\ retire \in {0, 1}
  BY DriverFields DEF Other
<1>2. d = e
  BY <1>1 DEF Retired, Driver
<1>3. drv' = IF d.plen < Mps \/ d.ofs = d.len THEN Complete(d) ELSE d
  BY Zenon DEF ReadOut
<1> HIDE DEF ofs, retire, d
<1>4. /\ e \in Driver /\ e.ep = drv.ep /\ e.dual = drv.dual /\ e.retire = retire
      /\ e.fill = drv.fill /\ e.busy = drv.busy /\ e.len = drv.len
      /\ e.ofs = ofs /\ e.plen = drv.plen
  BY <1>1 DEF Driver
<1> HIDE DEF e
<1>5. CASE d.plen < Mps \/ d.ofs = d.len
  BY <1>2, <1>3, <1>4, <1>5, CompleteFacts DEF ofs, retire
<1>6. CASE ~(d.plen < Mps \/ d.ofs = d.len)
  BY <1>2, <1>3, <1>4, <1>6 DEF ofs, retire
<1> QED BY <1>5, <1>6

\* The driver's steps on a transfer to the host.
LEMMA InTypes ==
  ASSUME BulkInv, RetireIn \/ ResetIn \/ FillIn \/ LoadIn \/ SubmitIn
  PROVE  /\ TransTypeOK' /\ drv' \in Driver /\ cpu' \in Cpu
         /\ UNCHANGED <<rst, sent, got>>
<1>1. /\ drv \in Driver /\ cpu \in Cpu /\ TransTypeOK
      /\ drv.len \in Nat /\ drv.ofs \in Nat /\ drv.plen \in Nat
      /\ drv.retire \in {0, 1} /\ drv.fill \in {0, 1}
  BY DriverFields DEF BulkInv
<1>2. Opened /\ Reg(drv.retire) \in BdId /\ Reg(drv.fill) \in BdId
  <2>1. cpu.at \notin {"idle", "drain", "event"}
    BY DEF RetireIn, ResetIn, FillIn, LoadIn, SubmitIn
  <2> QED BY <2>1, OpenOrClosed, OpenFacts DEF BulkInv
<1>3. Other(drv.retire) \in {0, 1} /\ Other(drv.fill) \in {0, 1}
  BY <1>1 DEF Other
<1>4. UNCHANGED <<rst, sent, got>>
  BY DEF RetireIn, ResetIn, FillIn, LoadIn, SubmitIn, Keep, logVars
<1>5. CASE RetireIn
  <2>1. TransTypeOK' /\ drv' = drv
    BY <1>1, <1>5, OtherAccessType DEF RetireIn, NoAccess
  <2>2. cpu' \in Cpu
    BY <1>1, <1>5, AtTypes, ReturnAt DEF RetireIn, CpuAt
  <2> QED BY <1>1, <1>4, <2>1, <2>2
<1>6. CASE ResetIn
  <2>1. TransTypeOK'
    BY <1>1, <1>2, <1>6, WriteBdType, DriverValues DEF ResetIn
  <2>2. cpu' \in Cpu
    BY <1>1, <1>6, AtTypes DEF ResetIn, CpuAt
  <2>3. drv' = [drv EXCEPT !.retire = Other(drv.retire)]
    BY <1>6 DEF ResetIn, Retired
  <2> QED BY <1>1, <1>3, <1>4, <2>1, <2>2, <2>3 DEF Driver
<1>7. CASE FillIn
  <2>1. TransTypeOK'
    BY <1>1, <1>7, OtherAccessType DEF FillIn, NoAccess
  <2>2. cpu' \in Cpu
    BY <1>1, <1>7, AtTypes, ReturnAt DEF FillIn, CpuAt
  <2> DEFINE n == MinOf(drv.len - drv.ofs, Mps)
  <2>3. drv' = [drv EXCEPT !.plen = n] \/ drv' = drv
    BY <1>7 DEF FillIn
  <2>4. n \in Nat
    <3>1. drv.ofs <= drv.len
      BY <1>1, <1>2, <1>7 DEF BulkInv, PlaceOK, FillIn
    <3> QED BY <1>1, <3>1, MpsAssumption DEF MinOf
  <2> HIDE DEF n
  <2>5. drv' \in Driver
    BY <1>1, <2>3, <2>4 DEF Driver
  <2> QED BY <1>4, <2>1, <2>2, <2>5
<1>8. CASE LoadIn
  <2>1. PICK q \in 0 .. Len(sent) : Queued(q)
    BY <1>8 DEF BulkInv, PlaceOK, LoadIn, QueueOK
  <2>2. /\ drv.busy /\ drv.ofs <= drv.len
        /\ drv.plen = MinOf(drv.len - drv.ofs, Mps)
    BY <1>8 DEF BulkInv, PlaceOK, LoadIn
  <2>3. InProgress(q)
    BY <2>1, <2>2, Zenon DEF Queued
  <2>4. DataAt(drv.first, drv.ofs, drv.plen) \in Seq(Unit)
    BY <2>2, <2>3, NextPacket
  <2>5. buf[Reg(drv.fill)] \in Seq(Unit)
    BY <1>1, <1>2 DEF TransTypeOK
  <2>6. TransTypeOK'
    BY <1>1, <1>2, <1>8, <2>4, <2>5, OverwriteType, WriteBufType DEF LoadIn
  <2>7. cpu' \in Cpu /\ drv' = drv
    BY <1>1, <1>8, AtTypes DEF LoadIn, CpuAt
  <2> QED BY <1>1, <1>4, <2>6, <2>7
<1>9. CASE SubmitIn
  <2>1. TransTypeOK'
    BY <1>1, <1>2, <1>9, WriteBdType, DriverValues DEF SubmitIn
  <2>2. drv' \in Driver /\ (At(Return) \/ At("fill"))
    BY <1>9, SubmitInDriver DEF BulkInv
  <2>3. cpu' \in Cpu
    BY <1>1, <2>2, AtTypes, ReturnAt DEF CpuAt
  <2> QED BY <1>4, <2>1, <2>2, <2>3
<1> QED BY <1>5, <1>6, <1>7, <1>8, <1>9

\* The driver's steps on a transfer from the host.
LEMMA OutTypes ==
  ASSUME BulkInv, RetireOut \/ ResetOut \/ ReadOut \/ FillOut
  PROVE  /\ TransTypeOK' /\ drv' \in Driver /\ cpu' \in Cpu
         /\ rst' = rst /\ sent' = sent /\ got' \in Seq(Seq(Unit))
<1>1. /\ drv \in Driver /\ cpu \in Cpu /\ TransTypeOK
      /\ drv.len \in Nat /\ drv.ofs \in Nat /\ drv.plen \in Nat
      /\ drv.retire \in {0, 1} /\ drv.fill \in {0, 1}
      /\ got \in Seq(Seq(Unit)) /\ Len(got) \in Nat /\ sent \in Seq(Seq(Unit))
  BY DriverFields DEF BulkInv
<1>2. Opened /\ Reg(drv.retire) \in BdId /\ Reg(drv.fill) \in BdId /\ Reg(0) \in BdId
  <2>1. cpu.at \notin {"idle", "drain", "event"}
    BY DEF RetireOut, ResetOut, ReadOut, FillOut
  <2> QED BY <2>1, OpenOrClosed, OpenFacts DEF BulkInv
<1>3. Other(drv.retire) \in {0, 1} /\ Other(drv.fill) \in {0, 1}
  BY <1>1 DEF Other
<1>4. rst' = rst /\ sent' = sent
  BY DEF RetireOut, ResetOut, ReadOut, FillOut, Keep, logVars
<1>5. ~ReadOut => got' = got
  BY DEF RetireOut, ResetOut, FillOut, Keep, logVars
<1>6. CASE RetireOut
  <2> DEFINE b == bd[Reg(drv.retire)]
             n == MinOf(b.len - CrcLen, drv.len - drv.ofs)
  <2>1. TransTypeOK'
    BY <1>1, <1>6, OtherAccessType DEF RetireOut, NoAccess
  <2>2. cpu' \in Cpu
    <3>1. ASSUME cpu' = [cpu EXCEPT !.at = "reset", !.failed = TRUE] PROVE cpu' \in Cpu
      BY <1>1, <3>1 DEF Cpu, CpuAt
    <3>2. At("reset") \/ At("fill") => cpu' \in Cpu
      BY <1>1, AtTypes DEF CpuAt
    <3> QED BY <1>6, <3>1, <3>2 DEF RetireOut
  <2>3. drv' = drv \/ (b.state = "done_ok" /\ drv.busy /\ drv' = [drv EXCEPT !.plen = n])
    BY <1>6 DEF RetireOut
  <2>4. ASSUME b.state = "done_ok", drv.busy PROVE n \in Nat
    <3>1. Slots[drv.retire] = "done_ok"
      BY <1>1, <1>2, <2>4, SlotsFacts DEF BulkInv
    <3>2. Taken >= 1
      BY <1>2, <3>1, SessionFacts DEF BulkInv
    <3>3. /\ Holds(drv.retire, Len(got) + 1)
          /\ b.len = Len(sent[Len(got) + 1]) + CrcLen
      BY <1>6, <3>2 DEF BulkInv, ArrivedOK, Stored, RetireOut
    <3>4. sent[Len(got) + 1] \in Seq(Unit)
      BY <1>1, <3>3 DEF Holds
    <3>5. drv.ofs <= drv.len
      BY <2>4 DEF BulkInv, PlaceOK
    <3> QED BY <1>1, <3>3, <3>4, <3>5 DEF MinOf, CrcLen
  <2> HIDE DEF n, b
  <2>5. drv' \in Driver
    BY <1>1, <2>3, <2>4 DEF Driver
  <2> QED BY <1>1, <1>4, <1>5, <1>6, <2>1, <2>2, <2>5 DEF RetireOut, ReadOut
<1>7. CASE ResetOut
  <2>1. ~cpu.failed
    BY DEF BulkInv, PlaceOK
  <2>2. WriteBd(Reg(drv.retire), NoBd) /\ drv' = drv /\ At("read")
    BY <1>7, <2>1 DEF ResetOut
  <2>3. TransTypeOK' /\ cpu' \in Cpu
    BY <1>1, <1>2, <2>2, WriteBdType, DriverValues, AtTypes DEF CpuAt
  <2> QED BY <1>1, <1>4, <1>5, <1>7, <2>2, <2>3 DEF ResetOut, ReadOut
<1>8. CASE ReadOut
  <2> DEFINE p == Prefix(buf[Reg(drv.retire)], drv.plen)
  <2>1. TransTypeOK'
    BY <1>1, <1>8, OtherAccessType DEF ReadOut, NoAccess
  <2>2. cpu' \in Cpu
    BY <1>1, <1>8, AtTypes DEF ReadOut, CpuAt
  <2>3. drv' \in Driver
    BY <1>8, ReadOutDriver DEF BulkInv
  <2>4. buf[Reg(drv.retire)] \in Seq(Unit) /\ drv.plen \in Int
    BY <1>1, <1>2 DEF TransTypeOK
  <2>5. p \in Seq(Unit)
    BY <2>4, PrefixType
  <2>6. got' = Append(got, p)
    BY <1>8 DEF ReadOut
  <2> HIDE DEF p
  <2>7. got' \in Seq(Seq(Unit))
    BY <1>1, <2>5, <2>6
  <2> QED BY <1>4, <2>1, <2>2, <2>3, <2>7
<1>9. CASE FillOut
  <2>1. TransTypeOK'
    <3>1. WriteBd(Reg(drv.fill), RdyBd(Mps)) \/ NoAccess
      BY <1>9 DEF FillOut
    <3> QED BY <1>1, <1>2, <3>1, WriteBdType, OtherAccessType, DriverValues DEF NoAccess
  <2>2. cpu' \in Cpu
    BY <1>1, <1>9, AtTypes, ReturnAt DEF FillOut
  <2>3. drv' = [drv EXCEPT !.fill = Other(drv.fill)] \/ drv' = drv
    BY <1>9 DEF FillOut
  <2>4. drv' \in Driver
    BY <1>1, <1>3, <2>3 DEF Driver
  <2> QED BY <1>1, <1>4, <1>5, <1>9, <2>1, <2>2, <2>4 DEF FillOut, ReadOut
<1> QED BY <1>6, <1>7, <1>8, <1>9

\* The steps of the interrupt handler outside the handling of an end point.
LEMMA HandlerTypes ==
  ASSUME BulkInv, Interrupt \/ BusReset \/ Drain \/ ReadEvent
  PROVE  /\ TransTypeOK' /\ drv' \in Driver /\ cpu' \in Cpu
         /\ rst' \in {"none", "on", "pending"}
         /\ sent' \in Seq(Seq(Unit)) /\ got' \in Seq(Seq(Unit))
<1>1. /\ drv \in Driver /\ cpu \in Cpu /\ TransTypeOK /\ rst \in {"none", "on", "pending"}
      /\ sent \in Seq(Seq(Unit)) /\ got \in Seq(Seq(Unit))
  BY DriverFields DEF BulkInv, Typed, DcdTypeOK
<1>2. [Idle EXCEPT !.at = "drain", !.isr = TRUE] \in Cpu /\ Idle \in Cpu
  BY DEF Idle, Cpu, CpuAt
<1>3. CASE Interrupt
  BY <1>1, <1>2, <1>3, OtherAccessType DEF Interrupt, Keep, NoAccess, logVars
<1>4. CASE BusReset
  <2>1. TransTypeOK'
    BY <1>1, <1>4, DriverValues DEF BusReset, TransTypeOK
  <2>2. drv' = Closed /\ sent' = <<>> /\ got' = <<>> /\ rst' = "none" /\ cpu' \in Cpu
    BY <1>2, <1>4 DEF BusReset, ClearState
  <2> QED BY <2>1, <2>2, DriverValues
<1>5. CASE Drain
  <2>1. cpu' \in Cpu
    BY <1>1, <1>5, AtTypes DEF Drain, CpuAt
  <2> QED BY <1>1, <1>5, <2>1, OtherAccessType DEF Drain, Keep, NoAccess, logVars
<1>6. CASE ReadEvent
  <2>1. cpu' \in Cpu
    <3>1. \/ At("drain") \/ At("retire")
          \/ cpu' = [cpu EXCEPT !.at = "drain", !.poll = TRUE]
      BY <1>6 DEF ReadEvent, AfterEvent
    <3>2. [cpu EXCEPT !.at = "drain", !.poll = TRUE] \in Cpu
      BY <1>1 DEF Cpu, CpuAt
    <3> QED BY <1>1, <3>1, <3>2, AtTypes DEF CpuAt
  <2>2. TransTypeOK'
    BY <1>1, <1>6, EvtModAssumption DEF ReadEvent, ReadEvt, TransTypeOK
  <2> QED BY <1>1, <1>6, <2>1, <2>2 DEF ReadEvent, logVars
<1> QED BY <1>3, <1>4, <1>5, <1>6

\* The function driver's calls.
LEMMA OpenTypes ==
  ASSUME BulkInv, NEW ep \in Ep, NEW dual \in BOOLEAN, Open(ep, dual)
  PROVE  /\ TransTypeOK' /\ drv' \in Driver /\ cpu' \in Cpu
         /\ UNCHANGED <<rst, sent, got>>
<1>1. /\ cpu \in Cpu /\ TransTypeOK
  BY DriverFields DEF BulkInv
<1>2. eps' \in [Ep -> EpStatus]
  <2> DEFINE st == [type |-> IF dual THEN "bulk" ELSE "int", halt |-> FALSE,
                    mode |-> IF dual THEN "dual" ELSE "single", bdi |-> 0, dt |-> 0]
  <2>1. st \in EpStatus
    BY DEF EpStatus, EpType
  <2>2. eps' = [eps EXCEPT ![ep] = st]
    BY DEF Open
  <2> HIDE DEF st
  <2> QED BY <1>1, <2>1, <2>2 DEF TransTypeOK
<1>3. bd' \in [BdId -> Descriptor]
  <2>1. NoBd \in Descriptor /\ RdyBd(Mps) \in Descriptor
    BY DriverValues
  <2>2. \A id \in BdId : bd'[id] \in Descriptor
    BY <1>1, <2>1 DEF Open, TransTypeOK
  <2> QED BY <2>2 DEF Open
<1>4. buf' \in [BdId -> Seq(Unit)]
  BY DEF Open
<1>5. drv' \in Driver
  BY DriverValues DEF Open, Driver
<1>6. sie' \in Sie /\ UNCHANGED <<cel, evt>>
  BY <1>1 DEF Open, TransTypeOK, Sie
<1> QED BY <1>1, <1>2, <1>3, <1>4, <1>5, <1>6 DEF Open, TransTypeOK, Keep, logVars

\* The packets of a transfer to the host that is started.
LEMMA XferPackets ==
  ASSUME BulkInv, NEW len \in XferLen, Xfer(len), IsIn,
         NEW ps, ps = PacketsOf(Len(sent) + 1, len)
  PROVE  /\ ps \in Seq(Seq(Unit)) /\ Len(ps) >= 1 /\ len \in Nat
         /\ Len(sent) + Len(ps) <= MaxPkt
         /\ sent' = sent \o ps
         /\ (Len(ps) - 1) * Mps <= len /\ len <= (Len(ps) - 1) * Mps + Mps
         /\ Len(ps) # 1 => (Len(ps) - 1) * Mps < len
         /\ \A k \in 1 .. Len(ps) :
              ps[k] = DataAt(Len(sent) + 1, (k - 1) * Mps, MinOf(Mps, len - (k - 1) * Mps))
<1> DEFINE first == Len(sent) + 1
<1>1. first \in Nat /\ first >= 1 /\ Len(sent) \in Nat /\ len \in Nat
  BY DriverFields, XferAssumption DEF BulkInv
<1>2. Len(PacketsOf(1, len)) = Len(ps)
  <2> DEFINE n == IF len = 0 THEN 1 ELSE (len + Mps - 1) \div Mps
             p(f, k) == DataAt(f, (k - 1) * Mps, MinOf(Mps, len - (k - 1) * Mps))
  <2>1. PacketsOf(1, len) = [k \in 1 .. n |-> p(1, k)] /\ ps = [k \in 1 .. n |-> p(first, k)]
    BY Zenon DEF PacketsOf
  <2>2. n \in Nat
    BY <1>1, MpsAssumption
  <2> HIDE DEF n, p
  <2> QED BY <2>1, <2>2
<1>3. Len(sent) + Len(PacketsOf(1, len)) <= MaxPkt /\ sent' = sent \o ps
  BY DEF Xfer
<1>4. Len(sent) + Len(ps) <= MaxPkt
  BY <1>2, <1>3
<1>5. first + Len(ps) - 1 = Len(sent) + Len(ps)
  <2>1. Len(ps) \in Nat
    <3> DEFINE n == IF len = 0 THEN 1 ELSE (len + Mps - 1) \div Mps
               p(k) == DataAt(first, (k - 1) * Mps, MinOf(Mps, len - (k - 1) * Mps))
    <3>1. ps = [k \in 1 .. n |-> p(k)]
      BY Zenon DEF PacketsOf
    <3>2. n \in Nat
      BY <1>1, MpsAssumption
    <3> HIDE DEF n, p
    <3> QED BY <3>1, <3>2
  <2> QED BY <1>1, <2>1
<1>6. first + Len(ps) - 1 <= MaxPkt
  BY <1>4, <1>5
<1> HIDE DEF first
<1>7. /\ ps \in Seq(Seq(Unit)) /\ Len(ps) >= 1
      /\ (Len(ps) - 1) * Mps <= len /\ len <= (Len(ps) - 1) * Mps + Mps
      /\ Len(ps) # 1 => (Len(ps) - 1) * Mps < len
      /\ \A k \in 1 .. Len(ps) :
           ps[k] = DataAt(first, (k - 1) * Mps, MinOf(Mps, len - (k - 1) * Mps))
  <2>1. ps = PacketsOf(first, len)
    BY DEF first
  <2>2. first \in Nat /\ first >= 1 /\ len \in Nat /\ first + Len(ps) - 1 <= MaxPkt
    BY <1>1, <1>6
  <2>3. /\ ps \in Seq(Seq(Unit)) /\ Len(ps) >= 1
    BY <2>1, <2>2, PacketsOfFacts, Zenon
  <2>4. \A k \in 1 .. Len(ps) :
           ps[k] = DataAt(first, (k - 1) * Mps, MinOf(Mps, len - (k - 1) * Mps))
    BY <2>1, <2>2, PacketsOfFacts, Zenon
  <2> QED BY <2>1, <2>2, <2>3, <2>4, PacketsOfFacts, Zenon
<1>8. \A k \in 1 .. Len(ps) :
        ps[k] = DataAt(Len(sent) + 1, (k - 1) * Mps, MinOf(Mps, len - (k - 1) * Mps))
  BY <1>7, Zenon DEF first
<1> QED BY <1>1, <1>3, <1>4, <1>7, <1>8

LEMMA XferTypes ==
  ASSUME BulkInv, NEW len \in XferLen, Xfer(len)
  PROVE  /\ TransTypeOK' /\ drv' \in Driver /\ cpu' \in Cpu
         /\ sent' \in Seq(Seq(Unit)) /\ UNCHANGED <<rst, got>>
         /\ drv'.ep = drv.ep /\ drv'.dual = drv.dual /\ drv'.retire = drv.retire
         /\ drv'.fill = drv.fill /\ drv'.busy /\ drv'.first = Len(sent) + 1
         /\ drv'.len = len /\ drv'.ofs = 0
<1>1. /\ cpu \in Cpu /\ drv \in Driver /\ TransTypeOK /\ sent \in Seq(Seq(Unit))
      /\ Len(sent) + 1 \in Nat /\ len \in Nat
  BY DriverFields, XferAssumption DEF BulkInv
<1>2. TransTypeOK' /\ UNCHANGED <<rst, got>>
  BY <1>1, OtherAccessType DEF Xfer, NoAccess
<1>3. cpu' \in Cpu
  BY <1>1, AtTypes DEF Xfer, CpuAt
<1>4. /\ drv' \in Driver /\ drv'.ep = drv.ep /\ drv'.dual = drv.dual
      /\ drv'.retire = drv.retire /\ drv'.fill = drv.fill /\ drv'.busy
      /\ drv'.first = Len(sent) + 1 /\ drv'.len = len /\ drv'.ofs = 0
  <2> DEFINE first == Len(sent) + 1
  <2>1. drv' = [drv EXCEPT !.busy = TRUE, !.first = first,
                           !.len = len, !.ofs = 0, !.plen = 0]
    BY DEF Xfer
  <2> HIDE DEF first
  <2>2. first \in Nat
    BY <1>1 DEF first
  <2>3. /\ drv' \in Driver /\ drv'.ep = drv.ep /\ drv'.dual = drv.dual
        /\ drv'.retire = drv.retire /\ drv'.fill = drv.fill /\ drv'.busy
        /\ drv'.first = first /\ drv'.len = len /\ drv'.ofs = 0
    BY <1>1, <2>1, <2>2 DEF Driver
  <2> QED BY <2>3 DEF first
<1>5. sent' \in Seq(Seq(Unit))
  <2>1. CASE IsIn
    <3> DEFINE ps == PacketsOf(Len(sent) + 1, len)
    <3>1. ps \in Seq(Seq(Unit)) /\ sent' = sent \o ps
      BY <2>1, XferPackets
    <3> HIDE DEF ps
    <3> QED BY <1>1, <3>1
  <2>2. CASE ~IsIn
    BY <1>1, <2>2 DEF Xfer
  <2> QED BY <2>1, <2>2
<1> QED BY <1>2, <1>3, <1>4, <1>5

LEMMA TypeNext == BulkInv /\ [StepNext]_stepVars => Typed'
<1> SUFFICES ASSUME BulkInv, [StepNext]_stepVars PROVE Typed'
  OBVIOUS
<1>1. CASE Transaction \/ Loss \/ Sof
  BY <1>1, BusTypes
<1>2. CASE ResetStart \/ ResetEnd \/ OtherEvent
  BY <1>2, ResetTypes
<1>3. ASSUME Firmware \/ Function,
             TransTypeOK', drv' \in Driver, cpu' \in Cpu, rst' \in {"none", "on", "pending"},
             sent' \in Seq(Seq(Unit)), got' \in Seq(Seq(Unit))
      PROVE  Typed'
  BY <1>3, FirmwareFrame DEF Typed, DcdTypeOK
<1>4. rst \in {"none", "on", "pending"} /\ sent \in Seq(Seq(Unit)) /\ got \in Seq(Seq(Unit))
  BY DEF BulkInv, Typed, DcdTypeOK
<1>5. CASE Function
  <2>1. CASE \E n \in EpNum, d \in {"in", "out"}, dual \in BOOLEAN : Open(<<n, d>>, dual)
    <3>1. PICK n \in EpNum, d \in {"in", "out"}, dual \in BOOLEAN : Open(<<n, d>>, dual)
      BY <2>1
    <3>2. <<n, d>> \in Ep
      BY DEF Ep
    <3> QED BY <1>3, <1>4, <1>5, <3>1, <3>2, OpenTypes
  <2>2. CASE \E len \in XferLen : Xfer(len)
    BY <1>3, <1>4, <1>5, <2>2, XferTypes
  <2> QED BY <1>5, <2>1, <2>2 DEF Function
<1>6. CASE Firmware
  <2>1. CASE RetireIn \/ ResetIn \/ FillIn \/ LoadIn \/ SubmitIn
    BY <1>3, <1>4, <1>6, <2>1, InTypes
  <2>2. CASE RetireOut \/ ResetOut \/ ReadOut \/ FillOut
    BY <1>3, <1>4, <1>6, <2>2, OutTypes
  <2>3. CASE Interrupt \/ BusReset \/ Drain \/ ReadEvent
    BY <1>3, <1>6, <2>3, HandlerTypes
  <2> QED BY <1>6, <2>1, <2>2, <2>3 DEF Firmware, DcdNext, Advance
<1>7. CASE UNCHANGED stepVars
  BY <1>7 DEF BulkInv, Typed, TransTypeOK, DcdTypeOK, stepVars, transVars, fifoVars, dcdVars,
     logVars, FifoInv, EventPending
<1> QED BY <1>1, <1>2, <1>5, <1>6, <1>7 DEF StepNext

-----------------------------------------------------------------------------
(* Steps that leave the descriptors alone.                                 *)

\* The driver's record, but for the packet it is at.
SameDriver ==
  /\ drv'.ep = drv.ep /\ drv'.dual = drv.dual /\ drv'.fill = drv.fill
  /\ drv'.retire = drv.retire /\ drv'.busy = drv.busy /\ drv'.first = drv.first
  /\ drv'.len = drv.len /\ drv'.ofs = drv.ofs

\* A packet that is with the core, or arrived, stays in its buffer; only the one
\* that the driver reads next may be overwritten.
SameBuffers ==
  /\ spoilt \subseteq spoilt'
  /\ \A b \in {0, 1} :
       /\ IsIn /\ Slots[b] = "rdy_data" => buf'[Reg(b)] = buf[Reg(b)]
       /\ IsOut /\ Slots[b] = "done_ok" =>
            \/ buf'[Reg(b)] = buf[Reg(b)]
            \/ /\ b = drv.retire /\ Len(got) + 1 \in spoilt'
               /\ Len(buf'[Reg(b)]) = Len(buf[Reg(b)])

\* The host sends one packet more.
Longer ==
  \/ sent' = sent
  \/ IsOut /\ \E p \in Seq(Unit) : Len(p) <= Mps /\ sent' = Append(sent, p)

\* A session that goes on keeps its packets.
LEMMA LongerFacts ==
  ASSUME sent \in Seq(Seq(Unit)), Longer
  PROVE  /\ sent' \in Seq(Seq(Unit)) /\ Len(sent') \in Nat /\ Len(sent) <= Len(sent')
         /\ \A k \in 1 .. Len(sent) : k \in 1 .. Len(sent') /\ sent'[k] = sent[k]
         /\ IsIn => sent' = sent
<1>1. CASE sent' = sent
  BY <1>1
<1>2. CASE IsOut /\ \E p \in Seq(Unit) : Len(p) <= Mps /\ sent' = Append(sent, p)
  BY <1>2 DEF IsIn, IsOut
<1> QED BY <1>1, <1>2 DEF Longer

\* A packet that is whole has room in its buffer.
LEMMA HoldsLen ==
  ASSUME sent \in Seq(Seq(Unit)), buf \in [BdId -> Seq(Unit)], NEW b, Reg(b) \in BdId,
         NEW k \in 1 .. Len(sent)
  PROVE  /\ Prefix(buf[Reg(b)], Len(sent[k])) = sent[k] => Holds(b, k)
         /\ Holds(b, k) => Len(sent[k]) <= Len(buf[Reg(b)])
<1>1. sent[k] \in Seq(Unit) /\ buf[Reg(b)] \in Seq(Unit)
  OBVIOUS
<1>2. Len(sent[k]) \in Nat /\ Len(buf[Reg(b)]) \in Nat
  BY <1>1, LenProperties
<1>3. ASSUME Prefix(buf[Reg(b)], Len(sent[k])) = sent[k]
      PROVE  Len(sent[k]) <= Len(buf[Reg(b)])
  <2>1. Len(Prefix(buf[Reg(b)], Len(sent[k])))
          = (IF Len(buf[Reg(b)]) <= Len(sent[k]) THEN Len(buf[Reg(b)]) ELSE Len(sent[k]))
    BY <1>1, <1>2, PrefixElements
  <2> QED BY <1>2, <1>3, <2>1
<1> QED BY <1>3 DEF Holds

LEMMA SameHolds ==
  ASSUME BulkInv, Opened, Longer, drv'.ep = drv.ep, NEW b \in {0, 1}, NEW k,
         spoilt \subseteq spoilt',
         \/ buf'[Reg(b)] = buf[Reg(b)]
         \/ k \in spoilt' /\ Len(buf'[Reg(b)]) = Len(buf[Reg(b)]),
         Holds(b, k)
  PROVE  Holds(b, k)' /\ sent'[k] = sent[k]
<1>1. Reg(b)' = Reg(b)
  BY DEF Reg
<1>2. k \in 1 .. Len(sent)
  BY DEF Holds
<1>3. k \in 1 .. Len(sent') /\ sent'[k] = sent[k]
  BY <1>2, LongerFacts, DriverFields DEF BulkInv
<1>4. Reg(b) \in BdId /\ buf \in [BdId -> Seq(Unit)] /\ sent \in Seq(Seq(Unit))
  BY OpenFacts, DriverFields DEF BulkInv, TransTypeOK
<1>5. Len(sent[k]) <= Len(buf[Reg(b)])
  BY <1>2, <1>4, HoldsLen
<1>6. CASE k \in spoilt'
  BY <1>1, <1>3, <1>5, <1>6 DEF Holds
<1>7. CASE k \notin spoilt'
  BY <1>1, <1>3, <1>7 DEF Holds
<1> QED BY <1>6, <1>7

\* The descriptors and what they hold.
LEMMA SameDevice ==
  ASSUME BulkInv, Opened, SameDriver, UNCHANGED <<eps, bd>>, SameBuffers, Longer,
         cpu.at = "read" <=> cpu'.at = "read", IsOut => got' = got
  PROVE  /\ Opened' /\ RingOK' /\ OpenOK'
         /\ IsIn' = IsIn /\ IsOut' = IsOut /\ Status' = Status
         /\ Slots' = Slots /\ Filled' = Filled /\ Taken' = Taken
         /\ \A b : Reg(b)' = Reg(b)
         /\ IsIn => \A q : Queued(q) => Queued(q)'
         /\ IsOut => Stored'
<1> USE DEF SameDriver
<1>1. Typed /\ OpenOK /\ RingOK /\ sent \in Seq(Seq(Unit)) /\ drv.retire \in {0, 1}
  BY DriverFields DEF BulkInv
<1>2. /\ Opened' /\ IsIn' = IsIn /\ IsOut' = IsOut /\ Status' = Status
      /\ \A b : Reg(b)' = Reg(b)
  BY DEF Opened, IsIn, IsOut, Status, Reg
<1>3. Slots' = Slots
  BY <1>2 DEF Slots
<1>4. RingOK' /\ Filled' = Filled /\ Taken' = Taken
  BY <1>1, <1>2, <1>3 DEF RingOK, Filled, Taken
<1>5. OpenOK'
  BY <1>1, <1>2 DEF OpenOK
<1>6. /\ Status.bdi \in {0, 1} /\ 1 - Status.bdi \in {0, 1}
      /\ 1 - drv.retire \in {0, 1}
  BY <1>1, OpenFacts
<1>7. ASSUME IsIn, NEW q, Queued(q) PROVE Queued(q)'
  <2>1. sent' = sent
    BY <1>1, <1>7, LongerFacts
  <2>2. IF drv'.busy THEN InProgress(q)' ELSE q = Len(sent')
    <3>1. IF drv.busy THEN InProgress(q) ELSE q = Len(sent)
      BY <1>7, Zenon DEF Queued
    <3>2. InProgress(q) => InProgress(q)'
      BY <2>1 DEF InProgress
    <3> QED BY <2>1, <3>1, <3>2
  <2>3. ASSUME NEW b \in {0, 1}, NEW k, Slots[b] = "rdy_data", Holds(b, k)
        PROVE  Holds(b, k)'
    BY <1>7, <2>3, SameHolds DEF SameBuffers
  <2>4. /\ Filled >= 1 => Slots[Status.bdi] = "rdy_data"
        /\ Filled = 2 => Slots[1 - Status.bdi] = "rdy_data"
    BY <1>1, SessionFacts
  <2> QED BY <1>2, <1>4, <1>6, <1>7, <2>1, <2>2, <2>3, <2>4 DEF Queued
<1>8. ASSUME IsOut PROVE Stored'
  <2>1. Stored /\ got' = got
    BY <1>8 DEF BulkInv, ArrivedOK
  <2>2. ASSUME NEW k \in 1 .. Len(sent') PROVE Len(sent'[k]) <= Mps
    <3>1. CASE sent' = sent
      BY <2>1, <3>1 DEF Stored
    <3>2. CASE \E p \in Seq(Unit) : Len(p) <= Mps /\ sent' = Append(sent, p)
      <4>1. PICK p \in Seq(Unit) : Len(p) <= Mps /\ sent' = Append(sent, p)
        BY <3>2
      <4>2. (k \in 1 .. Len(sent) /\ sent'[k] = sent[k]) \/ sent'[k] = p
        BY <1>1, <4>1
      <4> QED BY <2>1, <4>1, <4>2 DEF Stored
    <3> QED BY <3>1, <3>2 DEF Longer
  <2>3. ASSUME NEW b \in {0, 1}, NEW k, Slots[b] = "done_ok", Holds(b, k),
               b = drv.retire => k = Len(got) + 1
        PROVE  Holds(b, k)' /\ sent'[k] = sent[k]
    BY <1>8, <2>3, SameHolds DEF SameBuffers
  <2>4. /\ Taken >= 1 => Slots[drv.retire] = "done_ok"
        /\ Taken = 2 => Slots[1 - drv.retire] = "done_ok"
    BY <1>1, SessionFacts
  <2> QED BY <1>1, <1>2, <1>4, <1>6, <2>1, <2>2, <2>3, <2>4 DEF Stored
<1> QED BY <1>2, <1>3, <1>4, <1>5, <1>7, <1>8

\* The packets are where they were.
LEMMA SamePackets ==
  ASSUME BulkInv, Opened, SameDriver, UNCHANGED <<eps, bd, sent, got, host, rst>>,
         SameBuffers, cpu.at = "read" <=> cpu'.at = "read"
  PROVE  /\ RingOK' /\ OpenOK' /\ QueueOK' /\ ArrivedOK'
<1>1. /\ RingOK' /\ OpenOK' /\ IsIn' = IsIn /\ IsOut' = IsOut /\ Status' = Status
      /\ Slots' = Slots /\ Filled' = Filled /\ Taken' = Taken
      /\ IsIn => \A q : Queued(q) => Queued(q)'
      /\ IsOut => Stored'
  BY SameDevice DEF Longer
<1>2. QueueOK'
  BY <1>1 DEF BulkInv, QueueOK, Delivered, Ahead
<1>3. ArrivedOK'
  BY <1>1 DEF BulkInv, ArrivedOK, Acked, Ahead
<1> QED BY <1>1, <1>2, <1>3

-----------------------------------------------------------------------------
(* The driver and the core: neither disturbs the other.                    *)

\* The steps of the driver in a session that goes on.
Driving == Advance \/ Interrupt \/ Drain \/ ReadEvent \/ \E len \in XferLen : Xfer(len)

\* The descriptor at the driver's index is not with the core.
LEMMA DriverWrites ==
  ASSUME BulkInv, Opened, cpu.at # "read"
  PROVE  /\ bd[Reg(drv.retire)].state \in SlotState
         /\ bd[Reg(Status.bdi)].state \in SlotState
         /\ cpu.at = "reset" => bd[Reg(drv.retire)].state = "done_ok"
         /\ cpu.at = "submit" => bd[Reg(drv.fill)].state = "none"
<1>1. \A b \in {0, 1} : Slots[b] = bd[Reg(b)].state
  BY SlotsFacts DEF BulkInv
<1>2. Slots[Status.bdi] \in SlotState /\ Slots[drv.retire] \in SlotState
  BY SessionFacts DEF BulkInv
<1>3. Status.bdi \in {0, 1} /\ drv.retire \in {0, 1}
  BY OpenFacts DEF BulkInv
<1> QED BY <1>1, <1>2, <1>3 DEF BulkInv, PlaceOK

\* The driver leaves the status word, and a descriptor that is ready.
LEMMA DrivingKeeps ==
  ASSUME BulkInv, Driving, host' = host
  PROVE  /\ UNCHANGED <<eps, cel, sie, rst, host, fifo>> /\ ~cpu'.failed
         /\ drv'.ep = drv.ep /\ drv'.dual = drv.dual
         /\ \A id \in BdId : bd[id].state = "rdy_data" => bd'[id] = bd[id]
<1>1. drv \in Driver /\ cpu \in Cpu /\ TransTypeOK /\ Typed /\ ~cpu.failed
  BY DriverFields DEF BulkInv, PlaceOK
<1>2. UNCHANGED <<eps, cel, sie, rst, host, fifo>>
  BY DEF Driving, Advance, RetireIn, ResetIn, FillIn, LoadIn, SubmitIn, RetireOut, ResetOut,
     ReadOut, FillOut, Interrupt, Drain, ReadEvent, Xfer, Keep, NoAccess, transVars, WriteBd,
     WriteBuf, ReadEvt
<1>3. ASSUME NEW a \in CpuAt, At(a) PROVE ~cpu'.failed
  BY <1>1, <1>3, AtTypes
<1>4. cpu.at \notin {"idle", "drain", "event"} => Opened
  BY OpenOrClosed DEF BulkInv
<1>5. CASE \E len \in XferLen : Xfer(len)
  <2>1. PICK len \in XferLen : Xfer(len)
    BY <1>5
  <2>2. drv'.ep = drv.ep /\ drv'.dual = drv.dual
    BY <2>1, XferTypes
  <2>3. bd' = bd /\ At("retire")
    BY <2>1 DEF Xfer, NoAccess, transVars
  <2>4. ~cpu'.failed
    BY <1>3, <2>3 DEF CpuAt
  <2> QED BY <1>2, <2>2, <2>3, <2>4
<1>6. CASE RetireIn \/ FillIn \/ LoadIn \/ Drain \/ Interrupt \/ ReadEvent \/ ReadOut
  <2>1. bd' = bd
    BY <1>6 DEF RetireIn, FillIn, LoadIn, Drain, Interrupt, ReadEvent, ReadOut, NoAccess,
       transVars, WriteBuf, ReadEvt
  <2>2. drv'.ep = drv.ep /\ drv'.dual = drv.dual
    <3>1. CASE ReadOut
      BY <1>1, <3>1, ReadOutDriver
    <3>2. CASE FillIn
      <4> DEFINE n == MinOf(drv.len - drv.ofs, Mps)
      <4>1. drv' = [drv EXCEPT !.plen = n] \/ drv' = drv
        BY <3>2 DEF FillIn
      <4> HIDE DEF n
      <4> QED BY <1>1, <4>1 DEF Driver
    <3> QED BY <1>6, <3>1, <3>2 DEF RetireIn, LoadIn, Drain, Interrupt, ReadEvent
  <2>3. ~cpu'.failed
    <3>1. CASE Interrupt
      BY <3>1 DEF Interrupt, Idle
    <3>2. CASE ReadEvent
      <4>1. \/ At("drain") \/ At("retire")
            \/ cpu' = [cpu EXCEPT !.at = "drain", !.poll = TRUE]
        BY <3>2 DEF ReadEvent, AfterEvent
      <4> QED BY <1>1, <1>3, <4>1 DEF Cpu, CpuAt
    <3> QED BY <1>3, <1>6, <3>1, <3>2, ReturnAt DEF RetireIn, FillIn, LoadIn, Drain, ReadOut,
              CpuAt
  <2> QED BY <1>2, <2>1, <2>2, <2>3
<1>7. ASSUME NEW id \in BdId, NEW b, WriteBd(id, b), bd[id].state # "rdy_data"
      PROVE  \A i \in BdId : bd[i].state = "rdy_data" => bd'[i] = bd[i]
  BY <1>1, <1>7 DEF WriteBd, TransTypeOK
<1>8. Opened => Reg(drv.retire) \in BdId /\ Reg(drv.fill) \in BdId
  BY <1>1, OpenFacts DEF BulkInv
<1>9. CASE ResetIn \/ ResetOut
  <2>1. bd[Reg(drv.retire)].state # "rdy_data" /\ Opened
    BY <1>4, <1>9, DriverWrites DEF ResetIn, ResetOut
  <2>2. \A i \in BdId : bd[i].state = "rdy_data" => bd'[i] = bd[i]
    BY <1>1, <1>7, <1>8, <1>9, <2>1 DEF ResetIn, ResetOut
  <2>3. drv'.ep = drv.ep /\ drv'.dual = drv.dual
    <3>1. drv' = drv \/ drv' = [drv EXCEPT !.retire = Other(drv.retire)]
      BY <1>9 DEF ResetIn, ResetOut, Retired
    <3> QED BY <1>1, <3>1 DEF Driver
  <2>4. ~cpu'.failed
    BY <1>1, <1>3, <1>9 DEF ResetIn, ResetOut, CpuAt
  <2> QED BY <1>2, <2>2, <2>3, <2>4
<1>10. CASE SubmitIn
  <2>1. bd[Reg(drv.fill)].state # "rdy_data" /\ Opened
    BY <1>4, <1>10, DriverWrites DEF SubmitIn
  <2>2. \A i \in BdId : bd[i].state = "rdy_data" => bd'[i] = bd[i]
    BY <1>7, <1>8, <1>10, <2>1 DEF SubmitIn
  <2>3. /\ drv'.ep = drv.ep /\ drv'.dual = drv.dual
        /\ At(Return) \/ At("fill")
    BY <1>1, <1>10, SubmitInDriver
  <2>4. ~cpu'.failed
    BY <1>3, <2>3, ReturnAt DEF CpuAt
  <2> QED BY <1>2, <2>2, <2>3, <2>4
<1>11. CASE RetireOut
  <2>1. bd[Reg(drv.retire)].state # "done_err"
    BY <1>4, <1>11, DriverWrites DEF RetireOut, SlotState
  <2>2. bd' = bd /\ ~cpu'.failed
    BY <1>3, <1>11, <2>1 DEF RetireOut, NoAccess, transVars, CpuAt
  <2>3. drv'.ep = drv.ep /\ drv'.dual = drv.dual
    <3> DEFINE n == MinOf(bd[Reg(drv.retire)].len - CrcLen, drv.len - drv.ofs)
    <3>1. drv' = drv \/ drv' = [drv EXCEPT !.plen = n]
      BY <1>11, <2>1 DEF RetireOut
    <3> HIDE DEF n
    <3> QED BY <1>1, <3>1 DEF Driver
  <2> QED BY <1>2, <2>2, <2>3
<1>12. CASE FillOut
  <2>1. CASE WriteBd(Reg(drv.fill), RdyBd(Mps)) /\ bd[Reg(drv.fill)].state = "none"
    <3>1. Opened
      BY <1>4, <1>12 DEF FillOut
    <3>2. \A i \in BdId : bd[i].state = "rdy_data" => bd'[i] = bd[i]
      BY <1>7, <1>8, <2>1, <3>1
    <3>3. drv'.ep = drv.ep /\ drv'.dual = drv.dual /\ cpu' = cpu
      <4>1. drv' = [drv EXCEPT !.fill = Other(drv.fill)] /\ cpu' = cpu
        BY <1>12, <2>1 DEF FillOut
      <4> QED BY <1>1, <4>1 DEF Driver
    <3> QED BY <1>1, <1>2, <3>2, <3>3
  <2>2. CASE At(Return) /\ UNCHANGED drv /\ NoAccess
    BY <1>2, <1>3, <2>2, ReturnAt DEF NoAccess, transVars
  <2> QED BY <1>12, <2>1, <2>2 DEF FillOut
<1> QED BY <1>5, <1>6, <1>9, <1>10, <1>11, <1>12 DEF Driving, Advance

\* What the driver does is none of the core's and the host's business.
LEMMA DrivingCore ==
  ASSUME BulkInv, Driving, host' = host
  PROVE  OpenOK' /\ CoreOK' /\ PhaseOK' /\ ClosedOK'
<1>1. /\ UNCHANGED <<eps, sie, rst, host>> /\ ~cpu'.failed
      /\ drv'.ep = drv.ep /\ drv'.dual = drv.dual
      /\ \A id \in BdId : bd[id].state = "rdy_data" => bd'[id] = bd[id]
  BY DrivingKeeps
<1>2. /\ Opened' = Opened /\ Status' = Status /\ IsIn' = IsIn /\ IsOut' = IsOut
      /\ SieEp' = SieEp /\ SieBd' = SieBd
  BY <1>1 DEF Opened, Status, IsIn, IsOut, SieEp, SieBd
<1>3. SieBd \in BdId
  BY DEF BulkInv, Typed, TransTypeOK, Sie, SieBd, BdId
<1>4. OpenOK'
  BY <1>1, <1>2 DEF BulkInv, OpenOK
<1>5. FetchedOK => FetchedOK'
  BY <1>1, <1>2, <1>3 DEF FetchedOK
<1>6. CoreOK'
  BY <1>1, <1>2, <1>5 DEF BulkInv, CoreOK
<1>7. PhaseOK'
  BY <1>1, <1>2 DEF BulkInv, PhaseOK
<1>8. ClosedOK'
  <2> SUFFICES ASSUME ~Opened' PROVE ClosedOK'
    BY DEF ClosedOK
  <2>1. ~Opened /\ ~drv.busy /\ drv.ep = NoEp /\ cpu.at \in {"idle", "drain", "event"}
    BY <1>2, OpenOrClosed DEF BulkInv, ClosedOK, Opened
  <2>2. Interrupt \/ Drain \/ ReadEvent
    BY <2>1 DEF Driving, Advance, RetireIn, ResetIn, FillIn, LoadIn, SubmitIn, RetireOut,
       ResetOut, ReadOut, FillOut, Xfer
  <2>3. drv' = drv /\ sent' = sent /\ got' = got
    BY <2>2 DEF Interrupt, Drain, ReadEvent, Keep, logVars
  <2>4. cpu'.at \in {"idle", "drain", "event"}
    <3>1. cpu \in Cpu
      BY DriverFields DEF BulkInv
    <3>2. CASE Interrupt
      BY <3>2 DEF Interrupt, Idle
    <3>3. CASE Drain
      BY <2>1, <3>1, <3>3, AtTypes DEF Drain, CpuAt
    <3>4. CASE ReadEvent
      <4>1. \/ At("drain")
            \/ cpu' = [cpu EXCEPT !.at = "drain", !.poll = TRUE]
        BY <2>1, <3>4 DEF ReadEvent, AfterEvent
      <4> QED BY <3>1, <4>1, AtTypes DEF CpuAt, Cpu
    <3> QED BY <2>2, <3>2, <3>3, <3>4
  <2> QED BY <1>1, <2>1, <2>3, <2>4 DEF BulkInv, ClosedOK
<1> QED BY <1>4, <1>6, <1>7, <1>8

\* The steps of the driver that only look, or fill a buffer.
Looking == \/ RetireIn \/ FillIn \/ LoadIn \/ RetireOut \/ (FillOut /\ NoAccess)
           \/ Interrupt \/ Drain \/ ReadEvent

LEMMA LookingFacts ==
  ASSUME BulkInv, Looking
  PROVE  /\ Driving /\ cpu.at # "read" /\ cpu'.at # "read" /\ ~cpu'.failed
         /\ UNCHANGED <<eps, bd, sent, got, rst>> /\ SameDriver
         /\ (RetireIn \/ FillIn \/ LoadIn \/ RetireOut \/ FillOut => Opened)
         /\ (Interrupt \/ Drain \/ ReadEvent => drv' = drv /\ cpu'.at \in {"idle", "drain", "event", "retire"})
<1>1. Driving
  BY DEF Looking, Driving, Advance
<1>2. drv \in Driver /\ cpu \in Cpu /\ ~cpu.failed
  BY DriverFields DEF BulkInv, PlaceOK
<1>3. ASSUME NEW a \in CpuAt, At(a) PROVE cpu'.at = a /\ ~cpu'.failed
  BY <1>2, <1>3, AtTypes
<1>4. UNCHANGED <<eps, bd, sent, got, rst>>
  BY DEF Looking, RetireIn, FillIn, LoadIn, RetireOut, FillOut, Interrupt, Drain, ReadEvent,
     Keep, NoAccess, transVars, logVars, WriteBuf, ReadEvt
<1>5. cpu.at # "read"
  BY DEF Looking, RetireIn, FillIn, LoadIn, RetireOut, FillOut, Interrupt, Drain, ReadEvent
<1>6. RetireIn \/ FillIn \/ LoadIn \/ RetireOut \/ FillOut => Opened
  <2>1. RetireIn \/ FillIn \/ LoadIn \/ RetireOut \/ FillOut
          => cpu.at \notin {"idle", "drain", "event"}
    BY DEF RetireIn, FillIn, LoadIn, RetireOut, FillOut
  <2> QED BY <2>1, OpenOrClosed DEF BulkInv
<1>7. ASSUME NEW n, drv' = [drv EXCEPT !.plen = n] \/ drv' = drv PROVE SameDriver
  BY <1>2, <1>7 DEF Driver, SameDriver
<1>8. CASE Interrupt \/ Drain \/ ReadEvent
  <2>1. drv' = drv /\ SameDriver
    BY <1>8 DEF Interrupt, Drain, ReadEvent, SameDriver
  <2>2. cpu'.at \in {"idle", "drain", "event", "retire"} /\ ~cpu'.failed
    <3>1. CASE Interrupt
      BY <3>1 DEF Interrupt, Idle
    <3>2. CASE Drain
      BY <1>3, <3>2 DEF Drain, CpuAt
    <3>3. CASE ReadEvent
      <4>1. \/ At("drain") \/ At("retire")
            \/ cpu' = [cpu EXCEPT !.at = "drain", !.poll = TRUE]
        BY <3>3 DEF ReadEvent, AfterEvent
      <4> QED BY <1>2, <1>3, <4>1 DEF CpuAt, Cpu
    <3> QED BY <1>8, <3>1, <3>2, <3>3
  <2>3. cpu'.at # "read"
    BY <2>2
  <2> QED BY <1>1, <1>4, <1>5, <1>6, <2>1, <2>2, <2>3
<1>9. CASE RetireIn \/ LoadIn \/ (FillOut /\ NoAccess)
  <2>1. SameDriver
    <3>1. drv' = drv
      <4>1. CASE (FillOut /\ NoAccess)
        <5>1. Opened /\ cpu.at = "fill"
          BY <1>6, <4>1 DEF FillOut
        <5>2. bd[Reg(drv.fill)].state # "none"
          <6> SUFFICES ASSUME bd[Reg(drv.fill)].state = "none" PROVE FALSE
            OBVIOUS
          <6>1. bd' = [bd EXCEPT ![Reg(drv.fill)] = RdyBd(Mps)] /\ bd' = bd
            BY <4>1 DEF FillOut, WriteBd, NoAccess, transVars
          <6>2. Reg(drv.fill) \in BdId /\ bd \in [BdId -> Descriptor]
            BY <5>1, OpenFacts, DriverFields DEF BulkInv, TransTypeOK
          <6> QED BY <6>1, <6>2, DriverValues
        <5> QED BY <4>1, <5>2 DEF FillOut
      <4> QED BY <1>9, <4>1 DEF RetireIn, LoadIn
    <3> QED BY <3>1 DEF SameDriver
  <2>2. cpu'.at # "read" /\ ~cpu'.failed
    BY <1>2, <1>3, <1>9, ReturnAt DEF RetireIn, LoadIn, FillOut, CpuAt
  <2>3. ~(Interrupt \/ Drain \/ ReadEvent)
    BY <1>9 DEF Interrupt, Drain, ReadEvent, RetireIn, LoadIn, FillOut
  <2> QED BY <1>1, <1>4, <1>5, <1>6, <2>1, <2>2, <2>3
<1>10. CASE FillIn
  <2>1. SameDriver
    BY <1>7, <1>10 DEF FillIn
  <2>2. cpu'.at # "read" /\ ~cpu'.failed
    BY <1>3, <1>10, ReturnAt DEF FillIn, CpuAt
  <2>3. ~(Interrupt \/ Drain \/ ReadEvent)
    BY <1>10 DEF Interrupt, Drain, ReadEvent, FillIn
  <2> QED BY <1>1, <1>4, <1>5, <1>6, <2>1, <2>2, <2>3
<1>11. CASE RetireOut
  <2>1. bd[Reg(drv.retire)].state # "done_err"
    BY <1>5, <1>6, <1>11, DriverWrites DEF SlotState
  <2>2. SameDriver
    BY <1>7, <1>11, <2>1 DEF RetireOut
  <2>3. cpu'.at # "read" /\ ~cpu'.failed
    BY <1>3, <1>11, <2>1 DEF RetireOut, CpuAt
  <2>4. ~(Interrupt \/ Drain \/ ReadEvent)
    BY <1>11 DEF Interrupt, Drain, ReadEvent, RetireOut
  <2> QED BY <1>1, <1>4, <1>5, <1>6, <2>2, <2>3, <2>4
<1> QED BY <1>8, <1>9, <1>10, <1>11 DEF Looking

\* They leave the packets where they are.
LEMMA LookingPackets ==
  ASSUME BulkInv, Looking, host' = host, spoilt' = spoilt
  PROVE  RingOK' /\ QueueOK' /\ ArrivedOK'
<1>1. /\ cpu.at # "read" /\ cpu'.at # "read" /\ UNCHANGED <<eps, bd, sent, got, rst>>
      /\ SameDriver
  BY LookingFacts
<1>2. CASE Opened
  <2>1. SameBuffers
    <3>1. CASE ~LoadIn
      <4>1. buf' = buf
        BY <3>1 DEF Looking, RetireIn, FillIn, RetireOut, FillOut, Interrupt, Drain,
           ReadEvent, NoAccess, transVars, WriteBd, ReadEvt
      <4> QED BY <4>1 DEF SameBuffers
    <3>2. CASE LoadIn
      <4>1. Slots[drv.fill] = "none"
        BY <1>1, <1>2, <3>2, SlotsFacts, OpenFacts DEF BulkInv, PlaceOK, LoadIn
      <4>2. drv.fill \in {0, 1} /\ buf \in [BdId -> Seq(Unit)] /\ Reg(0) # Reg(1)
            /\ IsIn /\ ~IsOut
        BY <1>2, <3>2, OpenFacts, DriverFields, OpenOrClosed DEF BulkInv, TransTypeOK,
           PlaceOK, LoadIn
      <4>3. \A b \in {0, 1} : b # drv.fill => buf'[Reg(b)] = buf[Reg(b)]
        BY <1>2, <3>2, <4>2, OpenFacts DEF LoadIn, WriteBuf, BulkInv
      <4> QED BY <4>1, <4>2, <4>3 DEF SameBuffers
    <3> QED BY <3>1, <3>2
  <2> QED BY <1>1, <1>2, <2>1, SamePackets
<1>3. CASE ~Opened
  <2>1. ~Opened' /\ ~IsIn' /\ ~IsOut'
    BY <1>1, <1>3, OpenOrClosed DEF SameDriver, Opened, IsIn, IsOut, BulkInv
  <2> QED BY <2>1 DEF RingOK, QueueOK, ArrivedOK
<1> QED BY <1>2, <1>3

\* They note what they see.
LEMMA LookingPlace ==
  ASSUME BulkInv, Looking
  PROVE  PlaceOK'
<1>1. /\ cpu'.at # "read" /\ ~cpu'.failed /\ UNCHANGED <<eps, bd, sent, got, rst>>
      /\ SameDriver /\ cpu.at # "read"
  BY LookingFacts
<1>2. /\ drv \in Driver /\ cpu \in Cpu /\ PlaceOK /\ drv.len \in Nat /\ drv.ofs \in Nat
      /\ drv.fill \in {0, 1} /\ drv.retire \in {0, 1}
  BY DriverFields DEF BulkInv
<1>3. /\ IsIn' = IsIn /\ IsOut' = IsOut /\ \A b : Reg(b)' = Reg(b)
      /\ drv'.busy => drv'.ofs <= drv'.len
  BY <1>1, <1>2 DEF SameDriver, IsIn, IsOut, Reg, PlaceOK
<1>4. ASSUME NEW a \in CpuAt, At(a) PROVE cpu'.at = a
  BY <1>2, <1>4, AtTypes
<1>5. CASE Interrupt \/ Drain \/ ReadEvent
  BY <1>1, <1>3, <1>5, LookingFacts DEF PlaceOK
<1>6. CASE RetireIn
  <2>1. Opened /\ IsIn /\ ~IsOut /\ drv' = drv
    BY <1>6, LookingFacts, OpenOrClosed DEF RetireIn, BulkInv
  <2>2. bd[Reg(drv.retire)].state \in SlotState
    BY <1>1, <2>1, DriverWrites
  <2>3. \/ cpu'.at = "reset" /\ bd[Reg(drv.retire)].state = "done_ok"
        \/ cpu'.at = "fill" /\ drv.busy
        \/ cpu'.at \in {"drain", "idle"}
    BY <1>4, <1>6, <2>2, ReturnAt DEF RetireIn, CpuAt, SlotState
  <2> QED BY <1>1, <1>3, <2>1, <2>3 DEF PlaceOK
<1>7. CASE FillIn
  <2>1. IsIn /\ drv.busy /\ cpu.at = "fill"
    BY <1>2, <1>7 DEF FillIn, PlaceOK
  <2> DEFINE n == MinOf(drv.len - drv.ofs, Mps)
  <2>2. \/ cpu'.at = "load" /\ bd[Reg(drv.fill)].state = "none"
            /\ drv' = [drv EXCEPT !.plen = n]
        \/ cpu'.at \in {"drain", "idle"}
    BY <1>4, <1>7, ReturnAt DEF FillIn, CpuAt
  <2>3. cpu'.at = "load" => drv'.plen = n /\ drv'.busy
    <3> HIDE DEF n
    <3> QED BY <1>2, <2>1, <2>2 DEF Driver
  <2>4. n = MinOf(drv'.len - drv'.ofs, Mps)
    BY <1>1 DEF SameDriver
  <2> HIDE DEF n
  <2> QED BY <1>1, <1>3, <2>1, <2>2, <2>3, <2>4 DEF PlaceOK, SameDriver
<1>8. CASE LoadIn
  <2>1. cpu'.at = "submit" /\ drv' = drv /\ cpu.at = "load"
    BY <1>4, <1>8 DEF LoadIn, CpuAt
  <2>2. Opened /\ IsIn /\ drv.busy /\ drv.ofs <= drv.len /\ drv.plen = MinOf(drv.len - drv.ofs, Mps)
    BY <1>2, <1>8, <2>1, LookingFacts DEF PlaceOK
  <2> DEFINE p == DataAt(drv.first, drv.ofs, drv.plen)
  <2>3. PICK q \in 0 .. Len(sent) : Queued(q)
    BY <2>2 DEF BulkInv, QueueOK
  <2>4. InProgress(q)
    BY <2>2, <2>3, Zenon DEF Queued
  <2>5. p \in Seq(Unit) /\ Len(p) = drv.plen
    BY <2>2, <2>4, NextPacket
  <2>6. /\ buf \in [BdId -> Seq(Unit)] /\ Reg(drv.fill) \in BdId
    BY <2>2, OpenFacts, DriverFields DEF BulkInv, TransTypeOK
  <2>7. buf'[Reg(drv.fill)] = Overwrite(buf[Reg(drv.fill)], p)
    <3>1. buf' = [buf EXCEPT ![Reg(drv.fill)] = Overwrite(buf[Reg(drv.fill)], p)]
      BY <1>8 DEF LoadIn, WriteBuf
    <3> HIDE DEF p
    <3> QED BY <2>6, <3>1
  <2>8. Prefix(buf'[Reg(drv.fill)], drv.plen) = p
    <3> HIDE DEF p
    <3> QED BY <2>5, <2>6, <2>7, PrefixOfOverwrite
  <2> QED BY <1>1, <1>2, <1>3, <2>1, <2>2, <2>8 DEF PlaceOK
<1>9. CASE RetireOut
  <2>1. Opened /\ ~IsIn /\ IsOut
    BY <1>9, LookingFacts, OpenOrClosed DEF RetireOut, BulkInv
  <2>2. bd[Reg(drv.retire)].state \in SlotState
    BY <1>1, <2>1, DriverWrites
  <2> DEFINE n == MinOf(bd[Reg(drv.retire)].len - CrcLen, drv.len - drv.ofs)
  <2>3. \/ /\ cpu'.at = "reset" /\ bd[Reg(drv.retire)].state = "done_ok" /\ drv.busy
           /\ drv' = [drv EXCEPT !.plen = n]
        \/ cpu'.at = "fill"
    BY <1>4, <1>9, <2>2 DEF RetireOut, CpuAt, SlotState
  <2>4. cpu'.at = "reset" => drv'.plen = n
    <3> HIDE DEF n
    <3> QED BY <1>2, <2>3 DEF Driver
  <2>5. n = MinOf(bd[Reg(drv.retire)].len - CrcLen, drv'.len - drv'.ofs)
    BY <1>1 DEF SameDriver
  <2> HIDE DEF n
  <2> QED BY <1>1, <1>3, <2>1, <2>3, <2>4, <2>5 DEF PlaceOK, SameDriver
<1>10. CASE (FillOut /\ NoAccess)
  <2>1. ~IsIn /\ (cpu' = cpu \/ cpu'.at \in {"drain", "idle"})
    BY <1>4, <1>10, ReturnAt, LookingFacts, OpenOrClosed DEF FillOut, BulkInv
  <2> QED BY <1>1, <1>3, <1>10, <2>1 DEF PlaceOK, FillOut
<1> QED BY <1>5, <1>6, <1>7, <1>8, <1>9, <1>10 DEF Looking

\* A descriptor is written.
LEMMA SlotWritten ==
  ASSUME BulkInv, Opened, NEW b \in {0, 1}, NEW x, x.state \in BdState,
         WriteBd(Reg(b), x), drv'.ep = drv.ep,
         cpu.at # "read", cpu'.at # "read"
  PROVE  /\ bd'[Reg(b)] = x /\ \A c \in {0, 1} : c # b => bd'[Reg(c)] = bd[Reg(c)]
         /\ Slots'[b] = x.state /\ Slots'[1 - b] = Slots[1 - b]
         /\ Slotted(Slots) /\ Slotted(Slots')
         /\ UNCHANGED <<eps, buf>> /\ Status' = Status
         /\ \A c : Reg(c)' = Reg(c)
<1>1. Reg(0) \in BdId /\ Reg(1) \in BdId /\ Reg(0) # Reg(1) /\ bd \in [BdId -> Descriptor]
  BY OpenFacts, DriverFields DEF BulkInv, TransTypeOK
<1>2. \A c : Reg(c)' = Reg(c)
  BY DEF Reg
<1>3. UNCHANGED <<eps, buf>> /\ Status' = Status
  BY DEF WriteBd, Status
<1>4. bd'[Reg(b)] = x /\ \A c \in {0, 1} : c # b => bd'[Reg(c)] = bd[Reg(c)]
  BY <1>1 DEF WriteBd
<1>5. Slotted(Slots) /\ \A c \in {0, 1} : Slots[c] = bd[Reg(c)].state
  BY SlotsFacts DEF BulkInv
<1>6. Slots' = [c \in {0, 1} |-> bd'[Reg(c)].state]
  BY <1>2 DEF Slots
<1>7. Slots'[b] = x.state /\ Slots'[1 - b] = Slots[1 - b]
  BY <1>4, <1>5, <1>6
<1>8. Slotted(Slots')
  <2>1. \A c \in {0, 1} : bd'[Reg(c)].state \in BdState
    BY <1>1, <1>4 DEF Descriptor
  <2> QED BY <1>6, <2>1 DEF Slotted
<1> QED BY <1>2, <1>3, <1>4, <1>5, <1>7, <1>8

\* A packet to the host that was sent is retired.
LEMMA ResetInKeeps ==
  ASSUME BulkInv, ResetIn, host' = host, spoilt' = spoilt
  PROVE  RingOK' /\ PlaceOK' /\ QueueOK' /\ ArrivedOK'
<1>1. /\ Opened /\ IsIn /\ ~IsOut /\ drv \in Driver /\ cpu \in Cpu /\ Typed /\ OpenOK /\ RingOK
      /\ cpu.at = "reset" /\ ~cpu.failed /\ PlaceOK
  BY OpenOrClosed, DriverFields DEF BulkInv, ResetIn, PlaceOK
<1>2. drv.dual \in BOOLEAN /\ drv.retire \in {0, 1} /\ drv.fill \in {0, 1} /\ Status.bdi \in {0, 1}
  BY <1>1, OpenFacts
<1>3. /\ drv'.ep = drv.ep /\ drv'.dual = drv.dual /\ drv'.fill = drv.fill
      /\ drv'.retire = Step(drv.dual, drv.retire) /\ drv'.busy = drv.busy
      /\ drv'.first = drv.first /\ drv'.len = drv.len /\ drv'.ofs = drv.ofs
  <2>1. drv' = [drv EXCEPT !.retire = Other(drv.retire)]
    BY DEF ResetIn, Retired
  <2> QED BY <1>1, <2>1 DEF Driver, Other, Step
<1>4. cpu'.at = "retire" /\ ~cpu'.failed
  BY <1>1, AtTypes DEF ResetIn, CpuAt
<1>5. UNCHANGED <<sent, got, rst>> /\ WriteBd(Reg(drv.retire), NoBd)
  BY DEF ResetIn, Keep, logVars
<1>6. /\ bd'[Reg(drv.retire)] = NoBd
      /\ \A c \in {0, 1} : c # drv.retire => bd'[Reg(c)] = bd[Reg(c)]
      /\ Slots'[drv.retire] = "none" /\ Slots'[1 - drv.retire] = Slots[1 - drv.retire]
      /\ Slotted(Slots) /\ Slotted(Slots')
      /\ UNCHANGED <<eps, buf>> /\ Status' = Status /\ \A c : Reg(c)' = Reg(c)
  <2>1. NoBd.state = "none" /\ NoBd.state \in BdState
    BY DriverValues DEF BdState
  <2> HIDE DEF NoBd
  <2> QED BY <1>1, <1>2, <1>3, <1>4, <1>5, <2>1, SlotWritten
<1>7. Slots[drv.retire] = "done_ok"
  BY <1>1, <1>2, SlotsFacts DEF PlaceOK
<1>8. Slotted(Slots) /\ Slotted(Slots')
  BY <1>6
<1>9. /\ Ring(drv.dual, Slots', Step(drv.dual, drv.retire), Status.bdi, drv.fill)
      /\ Count(drv.dual, Slots', "rdy_data") = Count(drv.dual, Slots, "rdy_data")
  <2>1. Ring(drv.dual, Slots, drv.retire, Status.bdi, drv.fill)
    BY <1>1 DEF RingOK
  <2> QED BY <1>2, <1>6, <1>7, <1>8, <2>1, RingRetires
<1>10. RingOK' /\ Filled' = Filled
  BY <1>3, <1>6, <1>9 DEF RingOK, Filled
<1>11. IsIn' /\ ~IsOut' /\ PlaceOK'
  BY <1>1, <1>3, <1>4 DEF IsIn, IsOut, PlaceOK
<1>12. QueueOK'
  <2>1. PICK q \in 0 .. Len(sent) : Queued(q) /\ Delivered(q)
    BY <1>1 DEF BulkInv, QueueOK
  <2>2. Delivered(q)'
    BY <1>5, <1>6, <1>10, <2>1 DEF Delivered, Ahead
  <2>3. IF drv'.busy THEN InProgress(q)' ELSE q = Len(sent')
    <3>1. IF drv.busy THEN InProgress(q) ELSE q = Len(sent)
      BY <2>1, Zenon DEF Queued
    <3>2. InProgress(q) => InProgress(q)'
      BY <1>3, <1>5 DEF InProgress
    <3> QED BY <1>3, <1>5, <3>1, <3>2
  <2>4. /\ Filled >= 1 => Status.bdi # drv.retire
        /\ Filled = 2 => 1 - Status.bdi # drv.retire
    BY <1>1, <1>7, SessionFacts
  <2>5. ASSUME NEW b \in {0, 1}, NEW k, Holds(b, k) PROVE Holds(b, k)'
    BY <1>5, <1>6, <2>5 DEF Holds
  <2>6. Queued(q)'
    BY <1>2, <1>5, <1>6, <1>10, <2>1, <2>3, <2>4, <2>5 DEF Queued
  <2> QED BY <1>5, <2>1, <2>2, <2>6 DEF QueueOK
<1>13. ArrivedOK'
  BY <1>11 DEF ArrivedOK
<1> QED BY <1>10, <1>11, <1>12, <1>13

\* A packet to the host is queued.
LEMMA SubmitInKeeps ==
  ASSUME BulkInv, SubmitIn, host' = host, spoilt' = spoilt
  PROVE  RingOK' /\ PlaceOK' /\ QueueOK' /\ ArrivedOK'
<1>1. /\ Opened /\ IsIn /\ ~IsOut /\ drv \in Driver /\ cpu \in Cpu /\ Typed /\ OpenOK /\ RingOK
      /\ cpu.at = "submit" /\ ~cpu.failed /\ PlaceOK /\ drv.busy /\ drv.ofs <= drv.len
  BY OpenOrClosed, DriverFields DEF BulkInv, SubmitIn, PlaceOK
<1>2. /\ drv.dual \in BOOLEAN /\ drv.retire \in {0, 1} /\ drv.fill \in {0, 1}
      /\ Status.bdi \in {0, 1} /\ Len(sent) \in Nat /\ drv.plen \in Nat
  BY <1>1, OpenFacts, DriverFields
<1>3. /\ drv'.ep = drv.ep /\ drv'.dual = drv.dual /\ drv'.retire = drv.retire
      /\ drv'.fill = Step(drv.dual, drv.fill)
      /\ IF drv.ofs + drv.plen = drv.len
           THEN ~drv'.busy /\ At(Return)
           ELSE /\ At("fill") /\ drv'.busy = drv.busy /\ drv'.first = drv.first
                /\ drv'.len = drv.len /\ drv'.ofs = drv.ofs + drv.plen
  BY <1>1, SubmitInDriver DEF Other, Step
<1>4. /\ ~cpu'.failed
      /\ IF drv'.busy THEN cpu'.at = "fill" ELSE cpu'.at \in {"drain", "idle"}
  BY <1>1, <1>3, AtTypes, ReturnAt DEF CpuAt
<1>5. UNCHANGED <<sent, got, rst>> /\ WriteBd(Reg(drv.fill), RdyBd(drv.plen))
  BY DEF SubmitIn, Keep, logVars
<1>6. /\ bd'[Reg(drv.fill)] = RdyBd(drv.plen)
      /\ \A c \in {0, 1} : c # drv.fill => bd'[Reg(c)] = bd[Reg(c)]
      /\ Slots'[drv.fill] = "rdy_data" /\ Slots'[1 - drv.fill] = Slots[1 - drv.fill]
      /\ Slotted(Slots) /\ Slotted(Slots')
      /\ UNCHANGED <<eps, buf>> /\ Status' = Status /\ \A c : Reg(c)' = Reg(c)
      /\ RdyBd(drv.plen).len = drv.plen
  <2>1. /\ RdyBd(drv.plen).state = "rdy_data" /\ RdyBd(drv.plen).len = drv.plen
        /\ RdyBd(drv.plen).state \in BdState
    BY DEF RdyBd, BdState
  <2>2. cpu'.at # "read"
    BY <1>4
  <2> QED BY <1>1, <1>2, <1>3, <1>5, <2>1, <2>2, SlotWritten
<1>7. Slots[drv.fill] = "none"
  BY <1>1, <1>2, SlotsFacts DEF PlaceOK
<1>8. Slotted(Slots) /\ Slotted(Slots')
  BY <1>6
<1>9. /\ Ring(drv.dual, Slots', drv.retire, Status.bdi, Step(drv.dual, drv.fill))
      /\ Count(drv.dual, Slots', "rdy_data") = Count(drv.dual, Slots, "rdy_data") + 1
      /\ Count(drv.dual, Slots, "rdy_data") = 0 => drv.fill = Status.bdi
      /\ Count(drv.dual, Slots, "rdy_data") = 1
           => drv.fill = 1 - Status.bdi /\ Slots[Status.bdi] = "rdy_data"
      /\ Count(drv.dual, Slots, "rdy_data") # 2
  <2>1. Ring(drv.dual, Slots, drv.retire, Status.bdi, drv.fill)
    BY <1>1 DEF RingOK
  <2> QED BY <1>2, <1>6, <1>7, <1>8, <2>1, RingFills
<1>10. RingOK' /\ Filled' = Filled + 1
  BY <1>3, <1>6, <1>9 DEF RingOK, Filled
<1>11. PICK q \in 0 .. Len(sent) : Queued(q) /\ Delivered(q)
  BY <1>1 DEF BulkInv, QueueOK
<1>12. InProgress(q)
  BY <1>1, <1>11, Zenon DEF Queued
<1>13. drv.plen = MinOf(drv.len - drv.ofs, Mps)
  BY <1>1 DEF PlaceOK
<1>14. /\ drv.ofs + drv.plen <= drv.len
       /\ DataAt(drv.first, drv.ofs, drv.plen) = sent[q + 1]
       /\ Len(sent[q + 1]) = drv.plen
       /\ drv.ofs + drv.plen = drv.len => q + 1 = Len(sent)
       /\ drv.ofs + drv.plen # drv.len
            => q + 1 < Len(sent) /\ drv.ofs + drv.plen = ((q + 2) - drv.first) * Mps
  BY <1>1, <1>12, <1>13, NextPacket
<1>15. IsIn' /\ ~IsOut'
  BY <1>1, <1>3 DEF IsIn, IsOut
<1>16. PlaceOK'
  BY <1>1, <1>3, <1>4, <1>14, <1>15 DEF PlaceOK
<1>17. q \in Nat /\ q + 1 \in 0 .. Len(sent')
  BY <1>2, <1>5, <1>12 DEF InProgress
<1>18. Filled \in 0 .. 2 /\ Ahead \in 0 .. 1
  BY <1>1, SessionFacts
<1>19. Delivered(q + 1)'
  <2>1. Ahead' = Ahead
    BY <1>6 DEF Ahead
  <2>2. rst = "none" => Len(got) = q - Filled + Ahead /\ (Ahead = 1 => Filled >= 1)
    BY <1>11 DEF Delivered
  <2> QED BY <1>5, <1>10, <1>17, <1>18, <2>1, <2>2 DEF Delivered
<1>20. IF drv'.busy THEN InProgress(q + 1)' ELSE q + 1 = Len(sent')
  <2>1. CASE drv.ofs + drv.plen = drv.len
    BY <1>3, <1>5, <1>14, <2>1
  <2>2. CASE drv.ofs + drv.plen # drv.len
    <3>1. /\ drv'.busy /\ drv'.first = drv.first /\ drv'.len = drv.len
          /\ drv'.ofs = ((q + 2) - drv.first) * Mps /\ q + 1 < Len(sent)
      BY <1>1, <1>3, <1>14, <2>2
    <3>2. ((q + 1) + 1) - drv.first = (q + 2) - drv.first /\ drv.first \in 1 .. (q + 1) + 1
      <4>1. drv.first \in 1 .. q + 1
        BY <1>12 DEF InProgress
      <4> QED BY <1>17, <4>1
    <3>3. InProgress(q + 1)'
      BY <1>5, <1>12, <3>1, <3>2 DEF InProgress
    <3> QED BY <3>1, <3>3
  <2> QED BY <2>1, <2>2
<1> PICK f \in {0, 1} : f = drv.fill
  BY <1>2
<1>21. Holds(f, q + 1)' /\ bd'[Reg(f)].len = Len(sent[q + 1])
  <2>1. Prefix(buf[Reg(f)], Len(sent[q + 1])) = sent[q + 1]
    BY <1>1, <1>14 DEF PlaceOK
  <2>2. q + 1 \in 1 .. Len(sent)
    BY <1>5, <1>17
  <2>3. sent \in Seq(Seq(Unit)) /\ buf \in [BdId -> Seq(Unit)] /\ Reg(f) \in BdId
    BY <1>1, OpenFacts, DriverFields DEF TransTypeOK
  <2>4. Holds(f, q + 1)
    BY <2>1, <2>2, <2>3, HoldsLen
  <2> QED BY <1>5, <1>6, <1>14, <2>4 DEF Holds
<1>22. Queued(q + 1)'
  <2> PICK c \in {0, 1}, k \in Int : c = Status.bdi /\ k = q - Filled + 1
    BY <1>2, <1>17, <1>18
  <2>1. /\ Filled <= q
        /\ Filled >= 1 => Holds(c, k) /\ bd[Reg(c)].len = Len(sent[k])
    BY <1>11 DEF Queued
  <2>2. /\ Filled = 0 => f = c
        /\ Filled = 1 => f = 1 - c /\ c # f
        /\ Filled \in {0, 1}
    BY <1>2, <1>9, <1>18 DEF Filled
  <2>3. (q + 1) - (Filled + 1) + 1 = k /\ Filled + 1 <= q + 1
    BY <1>17, <1>18, <2>1
  <2>4. Holds(c, k) => Holds(c, k)'
    BY <1>5, <1>6 DEF Holds
  <2>5. /\ Holds(c, k)' /\ bd'[Reg(c)].len = Len(sent[k])
        /\ Filled + 1 = 2 => Holds(1 - c, k + 1)' /\ bd'[Reg(1 - c)].len = Len(sent[k + 1])
    <3>1. CASE Filled = 0
      <4>1. k = q + 1
        BY <1>17, <3>1
      <4> QED BY <1>21, <2>2, <3>1, <4>1
    <3>2. CASE Filled = 1
      <4>1. k + 1 = q + 1
        BY <1>17, <3>2
      <4>2. 1 - c = f /\ Holds(c, k)' /\ bd'[Reg(c)].len = Len(sent[k])
        BY <1>2, <1>6, <2>1, <2>2, <2>4, <3>2
      <4> QED BY <1>21, <4>1, <4>2
    <3> QED BY <2>2, <3>1, <3>2
  <2>6. /\ Filled' <= q + 1
        /\ (q + 1) - Filled' + 1 = k /\ Status'.bdi = c /\ Filled' = Filled + 1
    BY <1>6, <1>10, <2>3
  <2>7. /\ Filled' >= 1 => Holds(c, k)' /\ bd'[Reg(c)'].len = Len(sent'[k])
        /\ Filled' = 2 => Holds(1 - c, k + 1)' /\ bd'[Reg(1 - c)'].len = Len(sent'[k + 1])
    BY <1>5, <1>6, <2>5, <2>6
  <2> QED BY <1>20, <2>6, <2>7 DEF Queued
<1>23. QueueOK'
  BY <1>17, <1>19, <1>22 DEF QueueOK
<1>24. ArrivedOK'
  BY <1>15 DEF ArrivedOK
<1> QED BY <1>10, <1>16, <1>23, <1>24

\* A packet that a descriptor still holds, after a descriptor is written.
LEMMA HoldsSame ==
  ASSUME UNCHANGED <<buf, sent, spoilt>>, drv'.ep = drv.ep, NEW b, NEW k
  PROVE  Holds(b, k)' = Holds(b, k)
  BY DEF Holds, Reg

\* A descriptor is queued for a packet of the host.
LEMMA FillOutKeeps ==
  ASSUME BulkInv, FillOut, ~NoAccess, host' = host, spoilt' = spoilt
  PROVE  RingOK' /\ PlaceOK' /\ QueueOK' /\ ArrivedOK'
<1>1. /\ Opened /\ IsOut /\ ~IsIn /\ drv \in Driver /\ cpu \in Cpu /\ Typed /\ OpenOK /\ RingOK
      /\ cpu.at = "fill" /\ ~cpu.failed /\ PlaceOK
  BY OpenOrClosed, DriverFields DEF BulkInv, FillOut, PlaceOK
<1>2. drv.dual \in BOOLEAN /\ drv.retire \in {0, 1} /\ drv.fill \in {0, 1} /\ Status.bdi \in {0, 1}
  BY <1>1, OpenFacts
<1>3. /\ bd[Reg(drv.fill)].state = "none" /\ WriteBd(Reg(drv.fill), RdyBd(Mps))
      /\ drv' = [drv EXCEPT !.fill = Other(drv.fill)] /\ cpu' = cpu
  BY DEF FillOut
<1>4. /\ drv'.ep = drv.ep /\ drv'.dual = drv.dual /\ drv'.retire = drv.retire
      /\ drv'.fill = Step(drv.dual, drv.fill) /\ drv'.busy = drv.busy
      /\ drv'.len = drv.len /\ drv'.ofs = drv.ofs
  BY <1>1, <1>3 DEF Driver, Other, Step
<1>5. UNCHANGED <<sent, got, rst>>
  BY DEF FillOut, Keep, logVars
<1>6. /\ bd'[Reg(drv.fill)] = RdyBd(Mps) /\ RdyBd(Mps).len = Mps
      /\ \A c \in {0, 1} : c # drv.fill => bd'[Reg(c)] = bd[Reg(c)]
      /\ Slots'[drv.fill] = "rdy_data" /\ Slots'[1 - drv.fill] = Slots[1 - drv.fill]
      /\ Slotted(Slots) /\ Slotted(Slots')
      /\ UNCHANGED <<eps, buf>> /\ Status' = Status /\ \A c : Reg(c)' = Reg(c)
  <2>1. /\ RdyBd(Mps).state = "rdy_data" /\ RdyBd(Mps).len = Mps
        /\ RdyBd(Mps).state \in BdState
    BY DEF RdyBd, BdState
  <2> QED BY <1>1, <1>2, <1>3, <1>4, <2>1, SlotWritten
<1>7. Slots[drv.fill] = "none"
  BY <1>1, <1>2, <1>3, SlotsFacts
<1>8. Slotted(Slots) /\ Slotted(Slots')
  BY <1>6
<1>9. /\ Ring(drv.dual, Slots', drv.retire, Status.bdi, Step(drv.dual, drv.fill))
      /\ Count(drv.dual, Slots', "done_ok") = Count(drv.dual, Slots, "done_ok")
  <2>1. Ring(drv.dual, Slots, drv.retire, Status.bdi, drv.fill)
    BY <1>1 DEF RingOK
  <2> QED BY <1>2, <1>6, <1>7, <1>8, <2>1, RingFills
<1>10. RingOK' /\ Taken' = Taken
  BY <1>4, <1>6, <1>9 DEF RingOK, Taken
<1>11. ~IsIn' /\ IsOut' /\ PlaceOK' /\ QueueOK'
  BY <1>1, <1>3, <1>4 DEF IsIn, IsOut, PlaceOK, QueueOK
<1>12. Stored'
  <2>1. Stored
    BY <1>1 DEF BulkInv, ArrivedOK
  <2>2. /\ Taken >= 1 => drv.retire # drv.fill
        /\ Taken = 2 => 1 - drv.retire # drv.fill
    BY <1>1, <1>7, SessionFacts
  <2> PICK r, k : r \in {0, 1} /\ r = drv.retire /\ k = Len(got) + 1
    BY <1>2
  <2>3. \A b, j : Holds(b, j)' = Holds(b, j)
    BY <1>4, <1>5, <1>6, HoldsSame
  <2>4. /\ Taken >= 1 =>
             /\ Holds(r, k)'
             /\ bd'[Reg(r)].len = Len(sent[k]) + CrcLen
        /\ Taken = 2 => /\ Holds(1 - r, k + 1)'
                        /\ bd'[Reg(1 - r)].len = Len(sent[k + 1]) + CrcLen
    BY <1>1, <1>6, <2>1, <2>2, <2>3 DEF Stored
  <2>5. \A b \in {0, 1} : bd'[Reg(b)].state = "rdy_data" => bd'[Reg(b)].len = Mps
    BY <1>6, <2>1 DEF Stored
  <2>6. drv'.retire = r /\ Len(got') + 1 = k
    BY <1>4, <1>5
  <2>7. \A j \in 1 .. Len(sent') : Len(sent'[j]) <= Mps
    BY <1>5, <2>1 DEF Stored
  <2> QED BY <1>5, <1>6, <1>10, <2>4, <2>5, <2>6, <2>7 DEF Stored
<1>13. Acked'
  BY <1>1, <1>5, <1>6, <1>10 DEF BulkInv, ArrivedOK, Acked, Ahead
<1> QED BY <1>10, <1>11, <1>12, <1>13 DEF ArrivedOK

\* The driver takes over a descriptor with a packet of the host.
LEMMA ResetOutKeeps ==
  ASSUME BulkInv, ResetOut, host' = host, spoilt' = spoilt
  PROVE  RingOK' /\ PlaceOK' /\ QueueOK' /\ ArrivedOK'
<1>1. /\ Opened /\ IsOut /\ ~IsIn /\ drv \in Driver /\ cpu \in Cpu /\ Typed /\ OpenOK /\ RingOK
      /\ cpu.at = "reset" /\ ~cpu.failed /\ PlaceOK
  BY OpenOrClosed, DriverFields DEF BulkInv, ResetOut, PlaceOK
<1>2. drv.dual \in BOOLEAN /\ drv.retire \in {0, 1} /\ drv.fill \in {0, 1} /\ Status.bdi \in {0, 1}
  BY <1>1, OpenFacts
<1>3. /\ WriteBd(Reg(drv.retire), NoBd) /\ drv' = drv /\ At("read")
      /\ UNCHANGED <<sent, got, rst>>
  BY <1>1 DEF ResetOut, Keep, logVars
<1>4. cpu'.at = "read" /\ ~cpu'.failed
  BY <1>1, <1>3, AtTypes DEF CpuAt
<1>5. /\ \A c : Reg(c)' = Reg(c)
      /\ UNCHANGED <<eps, buf>> /\ Status' = Status
      /\ bd'[Reg(drv.retire)].state = "none"
      /\ \A c \in {0, 1} : c # drv.retire => bd'[Reg(c)] = bd[Reg(c)]
  <2>1. Reg(0) \in BdId /\ Reg(1) \in BdId /\ Reg(0) # Reg(1) /\ bd \in [BdId -> Descriptor]
    BY <1>1, OpenFacts, DriverFields DEF TransTypeOK
  <2>2. bd' = [bd EXCEPT ![Reg(drv.retire)] = NoBd] /\ UNCHANGED <<eps, buf>>
    BY <1>3 DEF WriteBd
  <2> QED BY <1>2, <1>3, <2>1, <2>2, DriverValues DEF Status, Reg
<1>6. Slots[drv.retire] = "done_ok" /\ \A b \in {0, 1} : Slots[b] = bd[Reg(b)].state
  BY <1>1, <1>2, SlotsFacts DEF PlaceOK
<1>7. Slots' = Slots
  <2>1. Slots' = [b \in {0, 1} |-> IF b = drv.retire THEN "done_ok" ELSE bd'[Reg(b)].state]
    BY <1>3, <1>4, <1>5 DEF Slots
  <2>2. Slots = [b \in {0, 1} |-> bd[Reg(b)].state]
    BY <1>1 DEF Slots
  <2> QED BY <1>5, <1>6, <2>1, <2>2
<1>8. RingOK' /\ Taken' = Taken /\ Opened'
  BY <1>1, <1>3, <1>5, <1>7 DEF RingOK, Taken, Opened
<1>9. ~IsIn' /\ IsOut' /\ QueueOK'
  BY <1>1, <1>3 DEF IsIn, IsOut, QueueOK
<1>10. Stored /\ Acked
  BY <1>1 DEF BulkInv, ArrivedOK
<1>11. Taken >= 1 /\ Holds(drv.retire, Len(got) + 1)
       /\ bd[Reg(drv.retire)].len = Len(sent[Len(got) + 1]) + CrcLen
  <2>1. Taken >= 1
    BY <1>1, <1>6, SessionFacts
  <2> QED BY <1>1, <1>10, <2>1 DEF Stored
<1>12. PlaceOK'
  <2>1. /\ drv.busy
        /\ drv.plen = MinOf(bd[Reg(drv.retire)].len - CrcLen, drv.len - drv.ofs)
        /\ drv.ofs <= drv.len
    BY <1>1 DEF PlaceOK
  <2>2. Len(sent[Len(got) + 1]) \in Int
    <3>1. sent[Len(got) + 1] \in Seq(Unit)
      BY <1>1, <1>11, DriverFields DEF Holds
    <3> QED BY <3>1
  <2>3. bd[Reg(drv.retire)].len - CrcLen = Len(sent[Len(got) + 1])
    BY <1>11, <2>2 DEF CrcLen
  <2> QED BY <1>3, <1>4, <1>5, <1>9, <2>1, <2>3 DEF PlaceOK
<1>13. Stored'
  <2> PICK r, k : r \in {0, 1} /\ r = drv.retire /\ k = Len(got) + 1
    BY <1>2
  <2>1. \A b, j : Holds(b, j)' = Holds(b, j)
    BY <1>3, <1>5, HoldsSame
  <2>2. 1 - r # r /\ 1 - r \in {0, 1}
    OBVIOUS
  <2>3. /\ Taken >= 1 => Holds(r, k)'
        /\ Taken = 2 => /\ Holds(1 - r, k + 1)'
                        /\ bd'[Reg(1 - r)].len = Len(sent[k + 1]) + CrcLen
    BY <1>5, <1>10, <2>1, <2>2 DEF Stored
  <2>4. \A b \in {0, 1} : bd'[Reg(b)].state = "rdy_data" => bd'[Reg(b)].len = Mps
    BY <1>5, <1>10 DEF Stored
  <2>5. drv'.retire = r /\ Len(got') + 1 = k
    BY <1>3
  <2>6. \A j \in 1 .. Len(sent') : Len(sent'[j]) <= Mps
    BY <1>3, <1>10 DEF Stored
  <2> QED BY <1>3, <1>4, <1>5, <1>8, <2>3, <2>4, <2>5, <2>6 DEF Stored
<1>14. Acked'
  BY <1>3, <1>5, <1>8, <1>10 DEF Acked, Ahead
<1> QED BY <1>8, <1>9, <1>12, <1>13, <1>14 DEF ArrivedOK

\* The driver reads a packet of the host.
LEMMA ReadOutKeeps ==
  ASSUME BulkInv, ReadOut, host' = host, spoilt' = spoilt
  PROVE  RingOK' /\ PlaceOK' /\ QueueOK' /\ ArrivedOK'
<1>1. /\ Opened /\ IsOut /\ ~IsIn /\ drv \in Driver /\ cpu \in Cpu /\ Typed /\ OpenOK /\ RingOK
      /\ cpu.at = "read" /\ ~cpu.failed /\ PlaceOK
      /\ bd[Reg(drv.retire)].state = "none" /\ drv.ofs <= drv.len
      /\ drv.plen = MinOf(Len(sent[Len(got) + 1]), drv.len - drv.ofs)
  BY OpenOrClosed, DriverFields DEF BulkInv, ReadOut, PlaceOK
<1>2. drv.dual \in BOOLEAN /\ drv.retire \in {0, 1} /\ drv.fill \in {0, 1} /\ Status.bdi \in {0, 1}
  BY <1>1, OpenFacts
<1>3. /\ drv'.ep = drv.ep /\ drv'.dual = drv.dual /\ drv'.fill = drv.fill
      /\ drv'.retire = Step(drv.dual, drv.retire)
      /\ drv'.busy => drv'.len = drv.len /\ drv'.ofs = drv.ofs + drv.plen
  BY <1>1, ReadOutDriver DEF Other, Step
<1>4. cpu'.at = "retire" /\ ~cpu'.failed
  BY <1>1, AtTypes DEF ReadOut, CpuAt
<1>5. /\ UNCHANGED <<sent, rst, eps, bd, buf>> /\ Len(got') = Len(got) + 1
      /\ \A c : Reg(c)' = Reg(c) /\ Status' = Status
  BY <1>3, DriverFields DEF ReadOut, BulkInv, NoAccess, transVars, Reg, Status
<1>6. /\ \A b \in {0, 1} : Slots[b] = IF b = drv.retire THEN "done_ok" ELSE bd[Reg(b)].state
      /\ Slotted(Slots)
  BY <1>1, SlotsFacts
<1>7. \A b \in {0, 1} : Slots'[b] = bd[Reg(b)].state
  BY <1>4, <1>5 DEF Slots
<1>8. Slotted(Slots')
  <2>1. \A b \in {0, 1} : bd[Reg(b)].state \in BdState
    BY <1>1, OpenFacts, DriverFields DEF TransTypeOK, Descriptor
  <2> QED BY <1>4, <1>5, <2>1 DEF Slots, Slotted
<1>9. /\ Slots[drv.retire] = "done_ok" /\ Slots'[drv.retire] = "none"
      /\ Slots'[1 - drv.retire] = Slots[1 - drv.retire]
  BY <1>1, <1>2, <1>6, <1>7
<1>10. /\ Ring(drv.dual, Slots', Step(drv.dual, drv.retire), Status.bdi, drv.fill)
       /\ Count(drv.dual, Slots', "done_ok") = Count(drv.dual, Slots, "done_ok") - 1
  <2>1. Ring(drv.dual, Slots, drv.retire, Status.bdi, drv.fill)
    BY <1>1 DEF RingOK
  <2> QED BY <1>2, <1>6, <1>8, <1>9, <2>1, RingRetires
<1>11. RingOK' /\ Taken' = Taken - 1
  BY <1>3, <1>5, <1>10 DEF RingOK, Taken
<1>12. ~IsIn' /\ IsOut' /\ QueueOK'
  BY <1>1, <1>3 DEF IsIn, IsOut, QueueOK
<1>13. Stored /\ Acked /\ Taken \in 1 .. 2
       /\ (Taken = 2 => drv.dual)
  BY <1>1, <1>9, SessionFacts DEF BulkInv, ArrivedOK
<1>14. PlaceOK'
  <2>1. drv'.busy => drv'.ofs <= drv'.len
    <3>1. Len(sent[Len(got) + 1]) \in Int
      <4>1. Len(got) + 1 \in 1 .. Len(sent)
        BY <1>13 DEF Stored, Holds
      <4>2. sent[Len(got) + 1] \in Seq(Unit)
        BY <1>1, <4>1, DriverFields
      <4> QED BY <4>2
    <3>2. drv.plen <= drv.len - drv.ofs /\ drv.len \in Nat /\ drv.ofs \in Nat /\ drv.plen \in Nat
      BY <1>1, <3>1, DriverFields DEF MinOf
    <3> QED BY <1>3, <3>2
  <2> QED BY <1>4, <1>12, <2>1 DEF PlaceOK
<1>15. Stored'
  <2> PICK r \in {0, 1}, k \in Int : r = drv.retire /\ k = Len(got) + 1
    BY <1>1, <1>2, DriverFields
  <2>1. \A b, j : Holds(b, j)' = Holds(b, j)
    BY <1>3, <1>5, HoldsSame
  <2>2. ASSUME Taken = 2
        PROVE  /\ Holds(1 - r, k + 1)' /\ drv'.retire = 1 - r
               /\ bd[Reg(1 - r)].len = Len(sent[k + 1]) + CrcLen
    <3>1. Holds(1 - r, k + 1) /\ bd[Reg(1 - r)].len = Len(sent[k + 1]) + CrcLen
      BY <1>13, <2>2 DEF Stored
    <3> QED BY <1>3, <1>13, <2>1, <2>2, <3>1 DEF Step
  <2>3. /\ Taken' = IF Taken = 2 THEN 1 ELSE 0
        /\ Len(got') + 1 = k + 1
    BY <1>1, <1>5, <1>11, <1>13, DriverFields
  <2>4. \A b \in {0, 1} : bd'[Reg(b)].state = "rdy_data" => bd'[Reg(b)].len = Mps
    BY <1>5, <1>13 DEF Stored
  <2>5. \A j \in 1 .. Len(sent') : Len(sent'[j]) <= Mps
    BY <1>5, <1>13 DEF Stored
  <2>6. Taken' >= 1 => /\ Holds(drv.retire, Len(got) + 1)'
                       /\ bd'[Reg(drv'.retire)].len = Len(sent'[Len(got') + 1]) + CrcLen
    BY <1>5, <2>2, <2>3 DEF Holds
  <2>7. Taken' # 2
    BY <2>3
  <2> QED BY <1>5, <2>4, <2>5, <2>6, <2>7 DEF Stored
<1>16. Acked'
  <2>1. Ahead' = Ahead /\ Ahead \in 0 .. 1
    BY <1>1, <1>5, SessionFacts DEF Ahead
  <2>2. Len(got') + Taken' = Len(got) + Taken
    BY <1>1, <1>5, <1>11, <1>13, DriverFields
  <2> QED BY <1>5, <1>13, <2>1, <2>2 DEF Acked
<1> QED BY <1>11, <1>12, <1>14, <1>15, <1>16 DEF ArrivedOK

\* A transfer is started.
LEMMA XferKeeps ==
  ASSUME BulkInv, NEW len \in XferLen, Xfer(len), host' = host, spoilt' = spoilt
  PROVE  RingOK' /\ PlaceOK' /\ QueueOK' /\ ArrivedOK'
<1>1. /\ Opened /\ drv \in Driver /\ cpu \in Cpu /\ Typed /\ OpenOK /\ RingOK /\ PlaceOK
      /\ ~drv.busy /\ cpu.at = "idle" /\ ~cpu.failed /\ len \in Nat /\ Len(sent) \in Nat
      /\ sent \in Seq(Seq(Unit))
  BY DriverFields, XferAssumption DEF BulkInv, Xfer, Opened, PlaceOK
<1>2. drv.dual \in BOOLEAN /\ drv.retire \in {0, 1} /\ drv.fill \in {0, 1} /\ Status.bdi \in {0, 1}
  BY <1>1, OpenFacts
<1>3. /\ drv'.ep = drv.ep /\ drv'.dual = drv.dual /\ drv'.retire = drv.retire
      /\ drv'.fill = drv.fill /\ drv'.busy /\ drv'.first = Len(sent) + 1
      /\ drv'.len = len /\ drv'.ofs = 0
  BY XferTypes
<1>4. cpu'.at = "retire" /\ ~cpu'.failed
  BY <1>1, AtTypes DEF Xfer, CpuAt
<1>5. UNCHANGED <<got, rst, eps, bd, buf>>
  BY DEF Xfer, NoAccess, transVars
<1>6. /\ \A c : Reg(c)' = Reg(c)
      /\ Status' = Status /\ IsIn' = IsIn /\ IsOut' = IsOut
  BY <1>3, <1>5 DEF Reg, Status, IsIn, IsOut
<1>7. Slots' = Slots
  BY <1>1, <1>4, <1>5, <1>6 DEF Slots
<1>8. RingOK' /\ Filled' = Filled /\ Taken' = Taken /\ Ahead' = Ahead
  BY <1>1, <1>3, <1>6, <1>7 DEF RingOK, Filled, Taken, Ahead
<1>9. PlaceOK'
  BY <1>1, <1>3, <1>4 DEF PlaceOK
<1>10. QueueOK'
  <2> SUFFICES ASSUME IsIn PROVE QueueOK'
    BY <1>6 DEF QueueOK
  <2>1. PICK q \in 0 .. Len(sent) : Queued(q) /\ Delivered(q)
    BY DEF BulkInv, QueueOK
  <2>2. q = Len(sent)
    BY <1>1, <2>1 DEF Queued
  <2> PICK ps : ps = PacketsOf(Len(sent) + 1, len)
    OBVIOUS
  <2>3. /\ ps \in Seq(Seq(Unit)) /\ Len(ps) >= 1
        /\ sent' = sent \o ps
        /\ (Len(ps) - 1) * Mps <= len /\ len <= (Len(ps) - 1) * Mps + Mps
        /\ Len(ps) # 1 => (Len(ps) - 1) * Mps < len
        /\ \A k \in 1 .. Len(ps) :
              ps[k] = DataAt(Len(sent) + 1, (k - 1) * Mps, MinOf(Mps, len - (k - 1) * Mps))
    <3> HIDE DEF PacketsOf
    <3> QED BY XferPackets
  <2>4. /\ Len(sent') = Len(sent) + Len(ps) /\ Len(ps) \in Nat
        /\ \A k \in 1 .. Len(sent) : sent'[k] = sent[k]
        /\ \A k \in Len(sent) + 1 .. Len(sent') : sent'[k] = ps[k - Len(sent)]
    BY <1>1, <2>3
  <2>5. InProgress(q)'
    <3> PICK f \in Nat, n \in Nat : f = Len(sent) + 1 /\ n = Len(ps)
      BY <1>1, <2>4
    <3>1. Len(sent') - f = n - 1 /\ f \in 1 .. q + 1 /\ q < Len(sent') /\ (q + 1) - f = 0
      BY <1>1, <2>2, <2>3, <2>4
    <3>2. drv'.ofs = ((q + 1) - f) * Mps
      BY <1>3, <3>1, MpsAssumption
    <3>3. /\ (Len(sent') - f) * Mps <= len
          /\ len <= (Len(sent') - f) * Mps + Mps
          /\ Len(sent') # f => (Len(sent') - f) * Mps < len
      <4>1. Len(sent') # f => n # 1
        BY <1>1, <2>4
      <4>2. (n - 1) * Mps <= len /\ len <= (n - 1) * Mps + Mps /\ (n # 1 => (n - 1) * Mps < len)
        BY <2>3, Zenon
      <4> QED BY <3>1, <4>1, <4>2, Zenon
    <3>4. ASSUME NEW k \in f .. Len(sent')
          PROVE  sent'[k] = DataAt(f, (k - f) * Mps, MinOf(Mps, len - (k - f) * Mps))
      <4> PICK j \in Int : j = k - Len(sent)
        <5>1. k \in Int
          BY <1>1, <2>4
        <5>2. k - Len(sent) \in Int
          BY <1>1, <5>1
        <5> QED BY <5>2, Zenon
      <4>1. j \in 1 .. Len(ps) /\ sent'[k] = ps[j] /\ k - f = j - 1
        BY <1>1, <2>4
      <4>2. ps[j] = DataAt(f, (j - 1) * Mps, MinOf(Mps, len - (j - 1) * Mps))
        <5> DEFINE P(i) == ps[i] = DataAt(f, (i - 1) * Mps, MinOf(Mps, len - (i - 1) * Mps))
        <5>1. \A i \in 1 .. Len(ps) : P(i)
          BY <2>3, Zenon
        <5> HIDE DEF P
        <5>2. P(j)
          BY <4>1, <5>1
        <5> QED BY <5>2, Zenon DEF P
      <4> QED BY <4>1, <4>2, Zenon
    <3>5. drv'.first = f /\ drv'.len = len
      BY <1>3
    <3> QED BY <3>1, <3>2, <3>3, <3>4, <3>5, Zenon DEF InProgress
  <2>6. ASSUME NEW b \in {0, 1}, NEW k, Holds(b, k)
        PROVE  Holds(b, k)' /\ sent'[k] = sent[k]
    BY <1>1, <1>5, <1>6, <2>4, <2>6 DEF Holds
  <2>7. Queued(q)'
    <3> PICK c, k : c \in {0, 1} /\ c = Status.bdi /\ k = q - Filled + 1
      BY <1>2
    <3>1. /\ Filled <= q
          /\ Filled >= 1 => Holds(c, k) /\ bd[Reg(c)].len = Len(sent[k])
          /\ Filled = 2 => Holds(1 - c, k + 1) /\ bd[Reg(1 - c)].len = Len(sent[k + 1])
      BY <2>1 DEF Queued
    <3>2. Filled' <= q /\ Status'.bdi = c /\ q - Filled' + 1 = k /\ 1 - c \in {0, 1}
      BY <1>6, <1>8, <3>1
    <3>3. Filled' >= 1 => Holds(c, k)' /\ bd'[Reg(c)'].len = Len(sent'[k])
      BY <1>5, <1>6, <1>8, <2>6, <3>1
    <3>4. Filled' = 2 => Holds(1 - c, k + 1)' /\ bd'[Reg(1 - c)'].len = Len(sent'[k + 1])
      BY <1>5, <1>6, <1>8, <2>6, <3>1, <3>2
    <3> QED BY <1>3, <2>5, <3>2, <3>3, <3>4 DEF Queued
  <2>8. Delivered(q)'
    BY <1>5, <1>8, <2>1 DEF Delivered
  <2>9. q \in 0 .. Len(sent')
    BY <1>1, <2>4
  <2> QED BY <2>7, <2>8, <2>9 DEF QueueOK
<1>11. ArrivedOK'
  <2> SUFFICES ASSUME IsOut PROVE ArrivedOK'
    BY <1>6 DEF ArrivedOK
  <2>1. sent' = sent /\ ~IsIn
    BY <1>1, OpenOrClosed DEF Xfer, BulkInv
  <2>2. Stored /\ Acked
    BY DEF BulkInv, ArrivedOK
  <2>3. \A b, j : Holds(b, j)' = Holds(b, j)
    BY <1>3, <1>5, <2>1, HoldsSame
  <2>4. Stored'
    <3> PICK r, k : r \in {0, 1} /\ r = drv.retire /\ k = Len(got) + 1
      BY <1>2
    <3>1. /\ Taken >= 1 => Holds(r, k)' /\ bd'[Reg(r)].len = Len(sent[k]) + CrcLen
          /\ Taken = 2 => Holds(1 - r, k + 1)' /\ bd'[Reg(1 - r)].len = Len(sent[k + 1]) + CrcLen
          /\ drv'.retire = r /\ Len(got') + 1 = k
      BY <1>1, <1>3, <1>5, <2>2, <2>3 DEF Stored
    <3> QED BY <1>5, <1>6, <1>8, <2>1, <2>2, <3>1 DEF Stored
  <2>5. Acked'
    BY <1>5, <1>8, <2>1, <2>2 DEF Acked
  <2> QED BY <2>4, <2>5 DEF ArrivedOK
<1> QED BY <1>8, <1>9, <1>10, <1>11

\* Nothing is, unless data comes in.
LEMMA NotSpoilt ==
  ASSUME History, rst' # "none" \/ rst # "pending",
         host.phase = "data" /\ sie.pc = "idle" => buf' = buf
  PROVE  spoilt' = spoilt
  BY DEF History, Spoils

\* The driver overwrites no packet of the host.
LEMMA DrivingMarks ==
  ASSUME BulkInv, Driving, host' = host, History
  PROVE  spoilt' = spoilt
<1>1. rst' = rst
  BY DrivingKeeps
<1>2. ASSUME host.phase = "data" PROVE buf' = buf
  <2>1. ~LoadIn
    BY <1>2, OpenOrClosed DEF BulkInv, PhaseOK, PlaceOK, LoadIn
  <2> QED BY <2>1 DEF Driving, Advance, RetireIn, ResetIn, FillIn, SubmitIn, RetireOut,
     ResetOut, ReadOut, FillOut, Interrupt, Drain, ReadEvent, Xfer, NoAccess, transVars,
     WriteBd, ReadEvt
<1> QED BY <1>1, <1>2, NotSpoilt

\* The driver goes on to the first of two buffers when the second is empty.
LEMMA DrivingSpill ==
  ASSUME BulkInv, Driving, host' = host, spoilt' = spoilt
  PROVE  SpillOK'
<1>1. /\ sie' = sie /\ drv'.ep = drv.ep /\ drv'.dual = drv.dual
      /\ drv \in Driver /\ cpu \in Cpu /\ ~cpu.failed /\ SpillOK /\ Typed /\ OpenOK
  BY DrivingKeeps, DriverFields DEF BulkInv, PlaceOK
<1>2. Opened' = Opened /\ IsOut' = IsOut /\ SieEp' = SieEp /\ \A b : Reg(b)' = Reg(b)
  BY <1>1 DEF Opened, IsOut, SieEp, Reg
<1>3. ASSUME IsOut PROVE sent' = sent
  <2>1. ~IsIn
    BY <1>3 DEF IsIn, IsOut
  <2> QED BY <2>1 DEF Driving, Advance, RetireIn, ResetIn, FillIn, LoadIn, SubmitIn, RetireOut,
     ResetOut, ReadOut, FillOut, Interrupt, Drain, ReadEvent, Xfer, Keep, logVars
<1>4. SpoiltOK'
  BY <1>1, <1>2, <1>3 DEF SpillOK, SpoiltOK
<1>5. PastOK'
  <2> SUFFICES ASSUME Opened, sie.past # 0, Slots'[1] = "done_ok"
               PROVE  drv'.retire = 1
    BY <1>1, <1>2 DEF SpillOK, PastOK
  <2>1. /\ IsOut /\ drv.dual /\ SieEp = drv.ep /\ ~IsIn
        /\ Slots[1] = "done_ok" => drv.retire = 1
    BY <1>1, OpenOrClosed DEF SpillOK, PastOK, BulkInv
  <2>2. /\ Reg(0) \in BdId /\ Reg(1) \in BdId /\ Reg(0) # Reg(1)
        /\ bd \in [BdId -> Descriptor] /\ drv.retire \in {0, 1} /\ drv.fill \in {0, 1}
    BY <1>1, OpenFacts, DriverFields DEF TransTypeOK
  <2>3. Slots[1] = IF cpu.at = "read" /\ 1 = drv.retire THEN "done_ok" ELSE bd[Reg(1)].state
    BY <1>1, SlotsFacts
  <2>4. Slots'[1] = IF cpu'.at = "read" /\ 1 = drv'.retire THEN "done_ok" ELSE bd'[Reg(1)].state
    BY <1>2 DEF Slots
  <2>5. CASE Looking
    <3>1. cpu.at # "read" /\ cpu'.at # "read" /\ bd' = bd /\ drv'.retire = drv.retire
      BY <2>5, LookingFacts DEF SameDriver
    <3> QED BY <2>1, <2>3, <2>4, <3>1
  <2>6. CASE ReadOut
    <3>1. /\ drv'.retire = 1 - drv.retire /\ cpu'.at = "retire" /\ bd' = bd
          /\ cpu.at = "read" /\ bd[Reg(drv.retire)].state = "none"
      BY <1>1, <2>1, <2>6, ReadOutDriver, AtTypes
         DEF Other, ReadOut, CpuAt, NoAccess, transVars, BulkInv, PlaceOK
    <3> QED BY <2>1, <2>2, <2>3, <2>4, <3>1
  <2>7. CASE ResetOut
    <3>1. cpu'.at = "read" /\ drv' = drv /\ bd' = [bd EXCEPT ![Reg(drv.retire)] = NoBd]
      BY <1>1, <2>7, AtTypes DEF ResetOut, CpuAt, WriteBd
    <3> QED BY <2>1, <2>2, <2>3, <2>4, <3>1, DriverValues
  <2>8. CASE FillOut /\ ~NoAccess
    <3>1. /\ cpu' = cpu /\ cpu.at = "fill" /\ bd' = [bd EXCEPT ![Reg(drv.fill)] = RdyBd(Mps)]
          /\ drv' = [drv EXCEPT !.fill = Other(drv.fill)]
      BY <2>8 DEF FillOut, WriteBd
    <3>2. drv'.retire = drv.retire
      BY <1>1, <3>1 DEF Driver
    <3> QED BY <2>1, <2>2, <2>3, <2>4, <3>1, <3>2, DriverValues
  <2>9. CASE \E len \in XferLen : Xfer(len)
    <3>1. /\ cpu'.at = "retire" /\ cpu.at = "idle" /\ bd' = bd /\ drv'.retire = drv.retire
      BY <1>1, <2>9, AtTypes, XferTypes DEF Xfer, CpuAt, NoAccess, transVars
    <3> QED BY <2>1, <2>3, <2>4, <3>1
  <2>10. \/ Looking \/ ReadOut \/ ResetOut \/ (FillOut /\ ~NoAccess)
         \/ \E len \in XferLen : Xfer(len)
    BY <2>1 DEF Driving, Advance, Looking, ResetIn, SubmitIn, BulkInv, PlaceOK
  <2> QED BY <2>1, <2>5, <2>6, <2>7, <2>8, <2>9, <2>10
<1> QED BY <1>4, <1>5 DEF SpillOK

\* An end point is opened.
LEMMA OpenKeeps ==
  ASSUME BulkInv, NEW ep \in Ep, NEW dual \in BOOLEAN, Open(ep, dual), sie.pc = "idle",
         host' = host, spoilt' = spoilt
  PROVE  /\ RingOK' /\ ClosedOK' /\ OpenOK' /\ PlaceOK' /\ CoreOK' /\ PhaseOK'
         /\ QueueOK' /\ ArrivedOK' /\ SpillOK'
         /\ drv'.ep = ep /\ ~drv'.busy
<1>1. /\ drv' = [Closed EXCEPT !.ep = ep, !.dual = dual] /\ cpu' = cpu /\ cpu.at = "idle"
      /\ UNCHANGED <<sent, got, rst>> /\ sie' = [sie EXCEPT !.past = 0]
      /\ drv = Closed /\ rst = "none" /\ ~cpu.failed
  BY DEF Open, Keep, logVars, BulkInv, PlaceOK
<1>16. sie'.pc = "idle" /\ sie'.zl = sie.zl /\ sie'.past = 0
  <2>1. sie \in Sie
    BY DriverFields DEF BulkInv, TransTypeOK
  <2> QED BY <1>1, <2>1 DEF Sie
<1>2. /\ drv'.ep = ep /\ drv'.dual = dual /\ drv'.fill = 0 /\ drv'.retire = 0 /\ ~drv'.busy
  BY <1>1 DEF Closed
<1>3. host = HostIdle /\ sent = <<>> /\ got = <<>> /\ ~Opened
  BY <1>1, DriverValues DEF BulkInv, ClosedOK, Opened
<1>4. PICK n \in EpNum, d \in {"out", "in"} : ep = <<n, d>>
  BY DEF Ep
<1>5. ep # NoEp
  BY <1>4 DEF NoEp
<1>6. Opened' /\ (IsIn' <=> d = "in") /\ (IsOut' <=> d = "out")
  BY <1>2, <1>4, <1>5 DEF Opened, IsIn, IsOut
<1>7. /\ Status'.type \in {"bulk", "int"} /\ Status'.halt = FALSE
      /\ Status'.mode = (IF dual THEN "dual" ELSE "single")
      /\ Status'.bdi = 0 /\ Status'.dt = 0
  <2> DEFINE st == [type |-> IF dual THEN "bulk" ELSE "int", halt |-> FALSE,
                    mode |-> IF dual THEN "dual" ELSE "single", bdi |-> 0, dt |-> 0]
  <2>1. eps' = [eps EXCEPT ![ep] = st]
    BY DEF Open
  <2>2. eps \in [Ep -> EpStatus]
    BY DriverFields DEF BulkInv, TransTypeOK
  <2>3. eps'[ep] = st
    <3> HIDE DEF st
    <3> QED BY <2>1, <2>2
  <2>4. Status' = st
    <3> HIDE DEF st
    <3> QED BY <1>2, <2>3 DEF Status
  <2> QED BY <2>4
<1>8. \A b \in {0, 1} : bd'[Reg(b)'] = IF d = "out" THEN RdyBd(Mps) ELSE NoBd
  <2> SUFFICES ASSUME NEW b \in {0, 1} PROVE bd'[Reg(b)'] = IF d = "out" THEN RdyBd(Mps) ELSE NoBd
    OBVIOUS
  <2>1. Reg(b)' = <<n, d, b>> /\ <<n, d, b>> \in BdId
    BY <1>2, <1>4 DEF Reg, BdId
  <2> DEFINE id == <<n, d, b>>
  <2>2. bd'[id] = IF <<id[1], id[2]>> # ep THEN bd[id]
                  ELSE IF ep[2] = "out" THEN RdyBd(Mps) ELSE NoBd
    <3> HIDE DEF RdyBd, NoBd
    <3> QED BY <2>1, Zenon DEF Open
  <2>3. id[1] = n /\ id[2] = d /\ ep[2] = d
    BY <1>4
  <2> QED BY <1>4, <2>1, <2>2, <2>3
<1>9. \A b \in {0, 1} : Slots'[b] = IF d = "out" THEN "rdy_data" ELSE "none"
  <2>1. Slots' = [b \in {0, 1} |-> bd'[Reg(b)'].state]
    BY <1>1 DEF Slots
  <2>2. RdyBd(Mps).state = "rdy_data" /\ NoBd.state = "none"
    BY DriverValues
  <2> HIDE DEF NoBd
  <2> QED BY <1>8, <2>1, <2>2
<1>10. RingOK'
  <2>1. Ring(dual, Slots', 0, 0, 0)
    BY <1>4, <1>9 DEF Ring, SlotState
  <2> QED BY <1>2, <1>7, <2>1 DEF RingOK
<1>11. /\ d = "in" => Filled' = 0
       /\ d = "out" => Taken' = 0
       /\ Ahead' = 0
  BY <1>2, <1>3, <1>7, <1>9 DEF Filled, Taken, Ahead, Count, One, HostIdle
<1>12. ClosedOK' /\ OpenOK' /\ PlaceOK'
  BY <1>1, <1>2, <1>6, <1>7 DEF ClosedOK, OpenOK, PlaceOK
<1>13. CoreOK' /\ PhaseOK'
  BY <1>1, <1>3, <1>16 DEF BulkInv, CoreOK, FetchedOK, PhaseOK, HostIdle
<1>17. SpillOK'
  <2>1. spoilt = {}
    BY <1>3, OpenOrClosed DEF BulkInv, SpillOK, SpoiltOK
  <2> QED BY <1>16, <2>1 DEF SpillOK, PastOK, SpoiltOK
<1>14. QueueOK'
  <2>1. ASSUME IsIn' PROVE Queued(0)' /\ Delivered(0)' /\ 0 \in 0 .. Len(sent')
    BY <1>1, <1>2, <1>3, <1>6, <1>11, <2>1 DEF Queued, Delivered
  <2> QED BY <2>1 DEF QueueOK
<1>15. ArrivedOK'
  <2> SUFFICES ASSUME IsOut' PROVE ArrivedOK'
    BY DEF ArrivedOK
  <2>1. Stored'
    BY <1>1, <1>3, <1>6, <1>8, <1>11, DriverValues DEF Stored
  <2>2. Acked'
    BY <1>1, <1>3, <1>6, <1>11 DEF Acked, HostIdle
  <2> QED BY <2>1, <2>2 DEF ArrivedOK
<1> QED BY <1>2, <1>10, <1>12, <1>13, <1>14, <1>15, <1>17

\* The driver learns of the reset.
LEMMA BusResetKeeps ==
  ASSUME BulkInv, BusReset, host' = host, spoilt' = {}
  PROVE  /\ RingOK' /\ ClosedOK' /\ OpenOK' /\ PlaceOK' /\ CoreOK' /\ PhaseOK'
         /\ QueueOK' /\ ArrivedOK' /\ SpillOK'
         /\ ~Opened'
<1>1. /\ drv' = Closed /\ sent' = <<>> /\ got' = <<>> /\ rst' = "none" /\ sie' = sie
      /\ eps' = [ep \in Ep |-> NoStatus] /\ rst = "pending"
  BY DEF BusReset, ClearState
<1>2. cpu'.at \in {"idle", "drain"} /\ ~cpu'.failed
  BY DEF BusReset, Idle
<1>3. ~Opened' /\ ~IsIn' /\ ~IsOut' /\ ~drv'.busy
  BY <1>1, DriverValues DEF Opened, IsIn, IsOut, NoEp
<1>4. host = HostIdle
  BY <1>1 DEF BulkInv, PhaseOK
<1>5. RingOK' /\ OpenOK' /\ QueueOK' /\ ArrivedOK' /\ PlaceOK'
  BY <1>2, <1>3 DEF RingOK, OpenOK, QueueOK, ArrivedOK, PlaceOK
<1>6. ClosedOK'
  BY <1>1, <1>2, <1>4 DEF ClosedOK
<1>7. CoreOK'
  BY <1>1, <1>3 DEF BulkInv, CoreOK
<1>8. PhaseOK'
  BY <1>1, <1>4 DEF BulkInv, PhaseOK, HostIdle
<1>9. SpillOK'
  BY <1>3 DEF SpillOK, PastOK, SpoiltOK
<1> QED BY <1>3, <1>5, <1>6, <1>7, <1>8, <1>9

\* Every step of the firmware keeps the invariant.
LEMMA FirmwareKeeps ==
  ASSUME BulkInv, Firmware \/ Function, History
  PROVE  BulkInv'
<1>1. host' = host /\ Typed'
  BY TypeNext DEF Firmware, Function, StepNext
<1>2. CASE Driving
  <2>1. OpenOK' /\ CoreOK' /\ PhaseOK' /\ ClosedOK'
    BY <1>1, <1>2, DrivingCore
  <2>3. spoilt' = spoilt /\ SpillOK'
    BY <1>1, <1>2, DrivingMarks, DrivingSpill
  <2>2. RingOK' /\ PlaceOK' /\ QueueOK' /\ ArrivedOK'
    <3>1. CASE Looking
      BY <1>1, <2>3, <3>1, LookingPackets, LookingPlace
    <3>2. CASE ResetIn \/ SubmitIn
      BY <1>1, <2>3, <3>2, ResetInKeeps, SubmitInKeeps
    <3>3. CASE ResetOut \/ ReadOut \/ (FillOut /\ ~NoAccess)
      BY <1>1, <2>3, <3>3, ResetOutKeeps, ReadOutKeeps, FillOutKeeps
    <3>4. CASE \E len \in XferLen : Xfer(len)
      BY <1>1, <2>3, <3>4, XferKeeps
    <3>5. \/ Looking \/ ResetIn \/ SubmitIn \/ ResetOut \/ ReadOut \/ (FillOut /\ ~NoAccess)
          \/ \E len \in XferLen : Xfer(len)
      BY <1>2, Zenon DEF Driving, Advance, Looking
    <3> QED BY <3>1, <3>2, <3>3, <3>4, <3>5
  <2> QED BY <1>1, <2>1, <2>2, <2>3 DEF BulkInv
<1>3. CASE BusReset
  <2>1. spoilt' = {}
    BY <1>3 DEF BusReset, History
  <2> QED BY <1>1, <1>3, <2>1, BusResetKeeps DEF BulkInv
<1>4. CASE sie.pc = "idle" /\ \E n \in EpNum, d \in {"in", "out"}, dual \in BOOLEAN :
                                 Open(<<n, d>>, dual)
  <2>1. PICK n \in EpNum, d \in {"in", "out"}, dual \in BOOLEAN : Open(<<n, d>>, dual)
    BY <1>4
  <2>2. <<n, d>> \in Ep
    BY DEF Ep
  <2>3. spoilt' = spoilt
    <3>1. rst = "none" /\ ~Opened
      BY <2>1, DriverValues DEF Open, Opened
    <3>2. host.phase # "data"
      BY <3>1, OpenOrClosed DEF BulkInv, PhaseOK
    <3> QED BY <3>1, <3>2, NotSpoilt
  <2> QED BY <1>1, <1>4, <2>1, <2>2, <2>3, OpenKeeps DEF BulkInv
<1> QED BY <1>2, <1>3, <1>4 DEF Firmware, Function, DcdNext, Driving

-----------------------------------------------------------------------------
(* The core's steps that write no descriptor back.                         *)

\* The core goes on at p, with what it fetched, and stores nothing more.
Moved(p) ==
  /\ sie'.pc = p /\ sie'.zl /\ sie'.st = sie.st /\ sie'.cur = sie.cur
  /\ sie'.bd = sie.bd /\ SieEp' = SieEp /\ SieBd' = SieBd

\* The core goes on with a transaction.
LEMMA GotoFacts ==
  ASSUME TransTypeOK, NEW p \in SiePc, Goto(p)
  PROVE  Moved(p) /\ sie'.past = sie.past
<1>1. sie \in Sie /\ sie' = [sie EXCEPT !.pc = p, !.zl = TRUE]
  BY DEF TransTypeOK, Goto
<1>2. /\ sie'.pc = p /\ sie'.zl /\ sie'.st = sie.st /\ sie'.cur = sie.cur
      /\ sie'.bd = sie.bd /\ sie'.n = sie.n /\ sie'.d = sie.d /\ sie'.past = sie.past
  BY <1>1 DEF Sie
<1> QED BY <1>2 DEF Moved, SieEp, SieBd

\* The core goes on after a write back, which reloads the length.
LEMMA ReloadFacts ==
  ASSUME TransTypeOK, NEW p \in SiePc, NEW n \in Nat, Reload(p, n)
  PROVE  Moved(p) /\ sie'.past = (IF Followed THEN n ELSE 0)
<1> DEFINE past == IF Followed THEN n ELSE 0
<1>1. sie \in Sie /\ sie' = [sie EXCEPT !.pc = p, !.zl = TRUE, !.past = past]
  BY DEF TransTypeOK, Reload
<1> HIDE DEF past
<1>2. /\ sie'.pc = p /\ sie'.zl /\ sie'.st = sie.st /\ sie'.cur = sie.cur
      /\ sie'.bd = sie.bd /\ sie'.n = sie.n /\ sie'.d = sie.d /\ sie'.past = past
  BY <1>1 DEF Sie
<1>3. Moved(p) /\ sie'.past = past
  BY <1>2 DEF Moved, SieEp, SieBd
<1> QED BY <1>3 DEF past

\* What a token for the end point fetches, and where the core goes on.
LEMMA TokenFacts ==
  ASSUME BulkInv, IgnoreRxErr, Opened, NEW pid \in {"IN", "OUT"}, DirOf(pid) = drv.ep[2],
         Token(drv.ep[1], pid)
  PROVE  /\ UNCHANGED <<eps, bd, buf>> /\ SieEp' = drv.ep /\ SieBd' = Reg(Status.bdi)
         /\ sie'.st = Status /\ sie'.cur = Status.bdi /\ sie'.bd = bd[Reg(Status.bdi)]
         /\ sie'.bd.state \in SlotState /\ sie'.past = 0
         /\ pid = "OUT" => sie'.pc = "wait_out" /\ (sie'.zl <=> sie'.bd.state # "rdy_data")
         /\ pid = "IN" => sie'.pc = (IF sie'.bd.state = "rdy_data" THEN "tx_data" ELSE "tx_nak")
<1> DEFINE n == drv.ep[1]
           d == drv.ep[2]
           c == Captured(n, pid)
           st == eps[<<n, d>>]
<1>1. /\ TransTypeOK /\ n \in EpNum /\ drv.ep = <<n, d>> /\ drv.ep \in Ep
      /\ drv.retire \in {0, 1} /\ Status.bdi \in {0, 1} /\ Status \in EpStatus
  BY OpenFacts, DriverFields DEF BulkInv
<1>2. st = Status
  BY <1>1 DEF Status
<1>3. /\ Status.type \in {"bulk", "int"} /\ ~Status.halt /\ Status.mode \in {"dual", "single"}
  BY DEF BulkInv, OpenOK
<1>4. pid # "SETUP" /\ CurBd(st, pid = "SETUP") = Status.bdi /\ DirOf(pid) = d
  BY <1>2, <1>3 DEF CurBd
<1>5. /\ c \in Sie /\ c.n = n /\ c.d = d /\ c.cur = Status.bdi
      /\ c.bd = bd[<<n, d, Status.bdi>>] /\ c.past = 0
  <2> HIDE DEF n, d
  <2>1. n \in EpNum /\ DirOf(pid) = d /\ CurBd(eps[<<n, d>>], pid = "SETUP") = Status.bdi
    BY <1>1, <1>4
  <2>2. /\ c \in Sie /\ c.n = n /\ c.d = DirOf(pid)
        /\ c.cur = CurBd(eps[<<n, DirOf(pid)>>], pid = "SETUP")
        /\ c.bd = bd[<<n, DirOf(pid), CurBd(eps[<<n, DirOf(pid)>>], pid = "SETUP")>>]
        /\ c.past = 0
    <3>1. TransTypeOK /\ n \in EpNum /\ pid \in {"IN", "OUT", "SETUP"}
      BY <1>1
    <3>2. LET e   == DirOf(pid)
              t   == eps[<<n, e>>]
              cur == CurBd(t, pid = "SETUP")
          IN /\ c \in Sie /\ c.n = n /\ c.d = e /\ c.cur = cur /\ c.bd = bd[<<n, e, cur>>]
             /\ c.past = 0
      <4> HIDE DEF n
      <4> QED BY <3>1, CapturedFacts
    <3> QED BY <3>2, Zenon
  <2> HIDE DEF c
  <2> QED BY <2>1, <2>2
<1>6. c.st = Status
  <2>1. c.st = [st EXCEPT !.dt = IF pid = "SETUP" THEN 0 ELSE @]
    BY <1>4 DEF Captured
  <2>2. Status = [Status EXCEPT !.dt = Status.dt]
    BY <1>1 DEF EpStatus
  <2> QED BY <1>2, <1>4, <2>1, <2>2
<1>7. ~FailWrites
  BY DEF FailWrites
<1>8. UNCHANGED <<eps, bd, buf>> /\ sie' = Dispatched(c, pid)
  <2>1. \E late \in Late : FailInto(c, late)
    BY DEF Token
  <2>2. sie' = Dispatched(AfterFail(c), pid) /\ buf' = buf
    BY DEF Token
  <2> HIDE DEF c
  <2> QED BY <1>7, <2>1, <2>2 DEF FailInto, AfterFail
<1> HIDE DEF c
<1>9. /\ sie'.pc = Dispatch(c, pid) /\ sie'.zl = ~StoresData(c, Dispatch(c, pid))
      /\ sie'.n = n /\ sie'.d = d /\ sie'.st = Status /\ sie'.cur = Status.bdi
      /\ sie'.bd = c.bd /\ sie'.past = 0
  BY <1>5, <1>6, <1>8, DispatchedFacts
<1>10. c.bd = bd[Reg(Status.bdi)] /\ SieEp' = drv.ep /\ SieBd' = Reg(Status.bdi)
  BY <1>1, <1>5, <1>9 DEF Reg, SieEp, SieBd
<1>11. c.bd.state \in SlotState
  <2>1. Slots[Status.bdi] \in SlotState
    BY SessionFacts DEF BulkInv
  <2>2. \/ Slots[Status.bdi] = bd[Reg(Status.bdi)].state
        \/ cpu.at = "read" /\ Status.bdi = drv.retire
    BY <1>1, SlotsFacts DEF BulkInv
  <2>3. cpu.at = "read" => bd[Reg(drv.retire)].state = "none"
    BY DEF BulkInv, PlaceOK
  <2> QED BY <1>10, <2>1, <2>2, <2>3 DEF SlotState
<1>12. ~Locked(Status, c.cel)
  BY <1>3 DEF Locked
<1>13. pid = "OUT" => sie'.pc = "wait_out" /\ (sie'.zl <=> sie'.bd.state # "rdy_data")
  <2> SUFFICES ASSUME pid = "OUT"
               PROVE  sie'.pc = "wait_out" /\ (sie'.zl <=> sie'.bd.state # "rdy_data")
    OBVIOUS
  <2>1. Dispatch(c, pid) = "wait_out"
    BY <1>3, <1>6 DEF Dispatch, DispatchOut
  <2>2. DropsData(c.st, c.cel, c.bd) <=> sie'.bd.state # "rdy_data"
    BY <1>3, <1>6, <1>9, <1>12 DEF DropsData
  <2>3. StoresData(c, "wait_out") <=> ~DropsData(c.st, c.cel, c.bd)
    BY DEF StoresData
  <2> QED BY <1>9, <2>1, <2>2, <2>3, Zenon
<1>14. pid = "IN" => sie'.pc = (IF sie'.bd.state = "rdy_data" THEN "tx_data" ELSE "tx_nak")
  <2> SUFFICES ASSUME pid = "IN"
               PROVE  sie'.pc = (IF sie'.bd.state = "rdy_data" THEN "tx_data" ELSE "tx_nak")
    OBVIOUS
  <2>1. sie'.pc = DispatchIn(Status, c.cel, c.bd)
    BY <1>6, <1>9 DEF Dispatch
  <2> QED BY <1>3, <1>9, <1>11, <1>12, <2>1 DEF DispatchIn, SlotState
<1> QED BY <1>8, <1>9, <1>10, <1>11, <1>13, <1>14

\* The core writes only where the driver is not, but for data without a token
\* that goes over the packet the driver reads next.
Undisturbed ==
  /\ SameBuffers
  /\ IsIn => buf' = buf /\ spoilt' = spoilt
  /\ spoilt' \subseteq 1 .. Len(sent)
  /\ sie'.past # 0 => sie.past # 0 /\ SieEp' = SieEp

\* A step that stores nothing.
LEMMA SameMemory ==
  ASSUME BulkInv, buf' = buf, spoilt' = spoilt,
         sie'.past # 0 => sie.past # 0 /\ SieEp' = SieEp
  PROVE  Undisturbed
  BY DEF Undisturbed, SameBuffers, BulkInv, SpillOK, SpoiltOK

\* A packet that comes after a token is stored where a packet is expected.
LEMMA StoreFacts ==
  ASSUME BulkInv, Opened, NEW bytes, Store(bytes), sie.pc \in {"idle", "wait_out"},
         History, rst' = rst, sie'.past # 0 => sie.past # 0 /\ SieEp' = SieEp
  PROVE  Undisturbed
<1>1. sie.pc = "idle" => buf' = buf
  BY DEF BulkInv, CoreOK, Store
<1>2. spoilt' = spoilt
  BY <1>1, NotSpoilt
<1>3. CASE sie.zl
  BY <1>2, <1>3, SameMemory DEF Store
<1>4. CASE ~sie.zl
  <2>1. /\ sie.pc = "wait_out" /\ IsOut /\ SieEp = drv.ep /\ sie.cur = Status.bdi
        /\ sie.bd.state = "rdy_data" /\ bd[SieBd] = sie.bd
    BY <1>4 DEF BulkInv, CoreOK, FetchedOK
  <2>2. SieBd = Reg(Status.bdi) /\ Status.bdi \in {0, 1} /\ ~IsIn
    BY <2>1, OpenFacts, OpenOrClosed DEF BulkInv, SieBd, SieEp, Reg
  <2>3. ASSUME NEW b \in {0, 1}, Slots[b] = "done_ok" PROVE buf'[Reg(b)] = buf[Reg(b)]
    <3>1. b # Status.bdi
      BY <2>1, <2>2, <2>3, SlotsFacts DEF BulkInv, PlaceOK
    <3>2. Reg(b) # Reg(Status.bdi)
      BY <3>1 DEF Reg
    <3>3. Reg(b) \in BdId /\ buf \in [BdId -> Seq(Unit)]
      BY OpenFacts, DriverFields DEF BulkInv, TransTypeOK
    <3> QED BY <1>4, <2>2, <3>2, <3>3 DEF Store
  <2>4. SameBuffers
    BY <1>2, <2>2, <2>3 DEF SameBuffers
  <2> QED BY <1>2, <2>2, <2>4 DEF Undisturbed, BulkInv, SpillOK, SpoiltOK
<1> QED BY <1>3, <1>4

\* Data without a token is marked if it goes over a packet that is not read yet.
LEMMA StoreBehindFacts ==
  ASSUME BulkInv, Opened, History, rst' = rst, host.phase = "data", sie.pc = "idle",
         sie.past # 0, NEW bytes \in Seq(Unit), StoreBehind(bytes), SieEp' = SieEp
  PROVE  Undisturbed
<1>1. /\ IsOut /\ ~IsIn /\ SieEp = drv.ep
      /\ Slots[1] = "done_ok" => drv.retire = 1
      /\ Typed /\ OpenOK /\ RingOK /\ TransTypeOK /\ spoilt \subseteq 1 .. Len(sent)
  BY OpenOrClosed, DriverFields DEF BulkInv, SpillOK, PastOK, SpoiltOK
<1>2. Behind = Reg(1) /\ Reg(0) \in BdId /\ Reg(1) \in BdId /\ Reg(0) # Reg(1)
  BY <1>1, OpenFacts DEF SieEp, Behind, Reg
<1>3. /\ Len(buf'[Reg(1)]) = Len(buf[Reg(1)])
      /\ \A id \in BdId \ {Reg(1)} : buf'[id] = buf[id]
  BY <1>1, <1>2, StoreBehindType
<1>4. spoilt' = IF Spoils THEN spoilt \cup {Len(got) + 1} ELSE spoilt
  BY DEF History
<1>5. Slots[1] = IF cpu.at = "read" /\ 1 = drv.retire THEN "done_ok" ELSE bd[Reg(1)].state
  BY <1>1, SlotsFacts
<1>6. Slots[1] = "done_ok" <=> Unread(Reg(1))
  <2>1. Reg(1) = Reg(drv.retire) <=> 1 = drv.retire
    BY DEF Reg
  <2> QED BY <1>5, <2>1 DEF Unread
<1>7. ASSUME Slots[1] = "done_ok", buf'[Reg(1)] # buf[Reg(1)]
      PROVE  1 = drv.retire /\ Len(got) + 1 \in spoilt'
  <2>1. Spoils
    BY <1>2, <1>6, <1>7 DEF Spoils
  <2> QED BY <1>1, <1>4, <1>7, <2>1
<1>8. SameBuffers
  BY <1>1, <1>2, <1>3, <1>4, <1>7 DEF SameBuffers
<1>9. ASSUME Spoils PROVE Len(got) + 1 \in 1 .. Len(sent)
  <2>1. Slots[1] = "done_ok" /\ drv.retire = 1
    BY <1>1, <1>3, <1>6, <1>9 DEF Spoils
  <2>2. Taken >= 1
    BY <1>1, <2>1, SessionFacts
  <2> QED BY <1>1, <2>2 DEF BulkInv, ArrivedOK, Stored, Holds
<1> QED BY <1>1, <1>4, <1>8, <1>9 DEF Undisturbed

\* The core goes on with, or ends, the transaction it is in.
LEMMA GotoCore ==
  ASSUME BulkInv, UNCHANGED <<eps, bd, drv>>, NEW p, Moved(p),
         sie'.past # 0 => p \in {"idle", "tx_ack"},
         \/ p = "idle"
         \/ p = "wait_ack" /\ sie.pc = "tx_data"
         \/ p \in {"tx_ack", "tx_nak"} /\ sie.pc = "wait_out"
  PROVE  CoreOK'
<1>1. /\ sie'.pc = p /\ sie'.zl /\ sie'.st = sie.st /\ sie'.cur = sie.cur
      /\ sie'.bd = sie.bd /\ SieEp' = SieEp /\ SieBd' = SieBd
  BY DEF Moved
<1>2. Opened' = Opened /\ Status' = Status /\ IsIn' = IsIn /\ IsOut' = IsOut
  BY DEF Opened, Status, IsIn, IsOut
<1>3. CASE p = "idle"
  BY <1>1, <1>3 DEF CoreOK, FetchedOK
<1>4. CASE p = "wait_ack" /\ sie.pc = "tx_data"
  BY <1>1, <1>2, <1>4 DEF BulkInv, CoreOK, FetchedOK
<1>5. CASE p \in {"tx_ack", "tx_nak"} /\ sie.pc = "wait_out"
  BY <1>1, <1>2, <1>5 DEF BulkInv, CoreOK, FetchedOK
<1> QED BY <1>3, <1>4, <1>5

\* An OUT packet that is not taken.
LEMMA RefusedFacts ==
  ASSUME BulkInv, Opened, OutRefused(host.dt, sent[host.acked + 1]), UNCHANGED drv,
         History, rst' = rst
  PROVE  /\ UNCHANGED <<eps, bd>> /\ Undisturbed /\ CoreOK'
         /\ sie'.pc \in {"tx_ack", "tx_nak"} /\ (sie'.pc = "tx_ack" => host.dt # Status.dt)
<1>1. sie.pc = "wait_out" /\ sie.st = Status /\ sie.past = 0
  BY DEF OutRefused, BulkInv, CoreOK, FetchedOK
<1>2. ~Status.halt /\ Status.type # "ctrl"
  BY DEF BulkInv, OpenOK
<1> DEFINE p == OutAnswer(host.dt)
<1>3. p = (IF host.dt # Status.dt THEN "tx_ack" ELSE "tx_nak")
  BY <1>1, <1>2 DEF OutAnswer, Locked
<1>4. UNCHANGED <<eps, bd>> /\ Goto(p)
  BY DEF OutRefused
<1> HIDE DEF p
<1>5. p \in SiePc
  BY <1>3 DEF SiePc
<1>6. Moved(p) /\ sie'.past = 0
  BY <1>1, <1>4, <1>5, GotoFacts, DriverFields DEF BulkInv
<1>7. Undisturbed
  BY <1>1, <1>6, StoreFacts DEF OutRefused
<1>8. CoreOK'
  BY <1>1, <1>3, <1>4, <1>6, GotoCore
<1> QED BY <1>3, <1>4, <1>6, <1>7, <1>8 DEF Moved

\* A packet that ends the transaction without a result, or comes without one.
LEMMA EndedFacts ==
  ASSUME BulkInv, IgnoreRxErr, History, UNCHANGED <<drv, cpu, rst>>,
         \/ /\ \E bytes \in Seq(Unit) : RxFail(bytes) \/ Discarded(bytes)
            /\ sie.pc = "idle" => host.phase = "data"
         \/ RxNoAck \/ TxHandshake
  PROVE  /\ UNCHANGED <<eps, bd>> /\ CoreOK' /\ sie'.pc = "idle"
         /\ Opened => Undisturbed
         /\ ~Opened => spoilt' = spoilt
<1>1. /\ sie.pc \in {"idle", "wait_out", "wait_ack", "tx_data", "tx_ack", "tx_nak"}
      /\ TransTypeOK /\ "idle" \in SiePc
  BY DriverFields DEF BulkInv, CoreOK, SiePc
<1>2. /\ UNCHANGED <<eps, bd>>
      /\ \/ buf' = buf /\ Goto("idle") /\ sie.pc # "idle"
         \/ (\E bytes : Store(bytes)) /\ Goto("idle") /\ sie.pc \in {"idle", "wait_out"}
         \/ /\ sie.pc = "idle" /\ sie.past # 0 /\ host.phase = "data"
            /\ \E bytes \in Seq(Unit) :
                 StoreBehind(bytes) /\ Reload("idle", sie.past + Len(bytes))
  <2>1. ASSUME NEW bytes \in Seq(Unit), Discarded(bytes), sie.pc = "idle" => host.phase = "data"
        PROVE  /\ UNCHANGED <<eps, bd>>
               /\ \/ Store(bytes) /\ Goto("idle") /\ sie.pc = "idle"
                  \/ /\ sie.pc = "idle" /\ sie.past # 0 /\ host.phase = "data"
                     /\ StoreBehind(bytes) /\ Reload("idle", sie.past + Len(bytes))
    BY <1>1, <2>1 DEF Discarded
  <2>2. ASSUME NEW bytes, OutFailed(bytes)
        PROVE  UNCHANGED <<eps, bd>> /\ Store(bytes) /\ Goto("idle") /\ sie.pc = "wait_out"
    BY <2>2 DEF OutFailed
  <2>3. ASSUME RxNoAck \/ TxHandshake
        PROVE  UNCHANGED <<eps, bd>> /\ buf' = buf /\ Goto("idle") /\ sie.pc # "idle"
    BY <2>3 DEF RxNoAck, TxHandshake, Handshake
  <2>4. ~\E bytes : SetupFailed(bytes)
    BY <1>1 DEF SetupFailed
  <2>5. CASE RxNoAck \/ TxHandshake
    BY <2>3, <2>5
  <2>6. CASE /\ \E bytes \in Seq(Unit) : RxFail(bytes) \/ Discarded(bytes)
             /\ sie.pc = "idle" => host.phase = "data"
    <3> PICK bytes \in Seq(Unit) : RxFail(bytes) \/ Discarded(bytes)
      BY <2>6
    <3>1. CASE Discarded(bytes)
      BY <2>1, <2>6, <3>1
    <3>2. CASE OutFailed(bytes)
      BY <2>2, <3>2
    <3>3. CASE RxNoAck
      BY <2>3, <3>3
    <3> QED BY <2>4, <3>1, <3>2, <3>3 DEF RxFail
  <2> QED BY <2>5, <2>6
<1>3. CASE buf' = buf /\ Goto("idle") /\ sie.pc # "idle"
  <2>1. Moved("idle") /\ sie'.past = sie.past
    BY <1>1, <1>3, GotoFacts
  <2>2. spoilt' = spoilt
    BY <1>3, NotSpoilt
  <2>3. Undisturbed
    BY <1>3, <2>1, <2>2, SameMemory DEF Moved
  <2> QED BY <1>2, <2>1, <2>2, <2>3, GotoCore DEF Moved
<1>4. CASE (\E bytes : Store(bytes)) /\ Goto("idle") /\ sie.pc \in {"idle", "wait_out"}
  <2>1. Moved("idle") /\ sie'.past = sie.past
    BY <1>1, <1>4, GotoFacts
  <2>2. sie.pc = "idle" => buf' = buf
    BY <1>4 DEF BulkInv, CoreOK, Store
  <2>3. spoilt' = spoilt
    BY <2>2, NotSpoilt
  <2>4. Opened => Undisturbed
    BY <1>4, <2>1, StoreFacts DEF Moved
  <2> QED BY <1>2, <2>1, <2>3, <2>4, GotoCore DEF Moved
<1>5. CASE /\ sie.pc = "idle" /\ sie.past # 0 /\ host.phase = "data"
           /\ \E bytes \in Seq(Unit) :
                StoreBehind(bytes) /\ Reload("idle", sie.past + Len(bytes))
  <2> PICK bytes \in Seq(Unit) :
        StoreBehind(bytes) /\ Reload("idle", sie.past + Len(bytes))
    BY <1>5
  <2>1. Moved("idle")
    <3>1. sie.past + Len(bytes) \in Nat
      BY <1>1, LenProperties DEF TransTypeOK, Sie
    <3> QED BY <1>1, <3>1, ReloadFacts
  <2>2. Opened
    BY <1>5, PacketSent
  <2>3. Undisturbed
    BY <1>5, <2>1, <2>2, StoreBehindFacts DEF Moved
  <2> QED BY <1>2, <2>1, <2>2, <2>3, GotoCore DEF Moved
<1> QED BY <1>2, <1>3, <1>4, <1>5

\* A step that writes no descriptor, and after which the host has, or knows to
\* be acknowledged, what it should.
LEMMA QuietStep ==
  ASSUME BulkInv, Opened, UNCHANGED <<eps, bd, drv, cpu>>, Undisturbed, Longer,
         IsOut /\ rst' = "none" =>
           /\ rst = "none"
           /\ host'.acked + Ahead' = host.acked + Ahead
           /\ Len(sent') <= host'.acked + 1
           /\ host'.phase = "data" => host'.acked < Len(sent'),
         IsOut => got' = got,
         IsIn /\ rst' = "none" =>
           /\ rst = "none"
           /\ Len(got') = (Len(got) - Ahead) + Ahead'
           /\ Ahead' # Ahead => Filled >= 1
  PROVE  /\ RingOK' /\ ClosedOK' /\ OpenOK' /\ PlaceOK' /\ QueueOK' /\ ArrivedOK'
         /\ SpillOK'
<1>1. Typed /\ OpenOK /\ RingOK /\ sent \in Seq(Seq(Unit)) /\ Len(sent) \in Nat
      /\ Len(got) \in Nat /\ PlaceOK
  BY DriverFields DEF BulkInv
<1>2. SameDriver
  BY DEF SameDriver
<1>3. /\ Opened' /\ RingOK' /\ OpenOK'
      /\ IsIn' = IsIn /\ IsOut' = IsOut /\ Status' = Status
      /\ Slots' = Slots /\ Filled' = Filled /\ Taken' = Taken
      /\ \A b : Reg(b)' = Reg(b)
      /\ IsIn => \A q : Queued(q) => Queued(q)'
      /\ IsOut => Stored'
  BY <1>2, SameDevice DEF Undisturbed
<1>4. /\ Filled \in 0 .. 2 /\ Taken \in 0 .. 2 /\ Ahead \in 0 .. 1 /\ Ahead' \in 0 .. 1
  BY <1>1, SessionFacts DEF Ahead, One
<1>5. IsOut \/ IsIn
  BY OpenOrClosed DEF BulkInv
<1>6. QueueOK'
  <2> SUFFICES ASSUME IsIn PROVE QueueOK'
    BY <1>3 DEF QueueOK
  <2>1. PICK q \in 0 .. Len(sent) : Queued(q) /\ Delivered(q)
    BY DEF BulkInv, QueueOK
  <2>2. sent' = sent
    BY <1>1, LongerFacts
  <2>3. Delivered(q)'
    <3> SUFFICES ASSUME rst' = "none"
                 PROVE  Len(got') = q - Filled + Ahead' /\ (Ahead' = 1 => Filled >= 1)
      BY <1>3 DEF Delivered
    <3>1. Len(got) = q - Filled + Ahead /\ (Ahead = 1 => Filled >= 1)
      BY <2>1 DEF Delivered
    <3>2. Len(got') = (Len(got) - Ahead) + Ahead' /\ (Ahead' # Ahead => Filled >= 1)
      OBVIOUS
    <3>3. Ahead' = 1 => Filled >= 1
      BY <3>1, <3>2
    <3> PICK f \in Int, a \in Int, g \in Int, l \in Int :
               f = Filled /\ a = Ahead /\ g = Len(got) /\ l = Ahead'
      BY <1>1, <1>4
    <3>4. q - f + l = (g - a) + l
      BY <3>1
    <3> QED BY <3>2, <3>3, <3>4
  <2> QED BY <1>3, <2>1, <2>2, <2>3 DEF QueueOK
<1>7. ArrivedOK'
  <2> SUFFICES ASSUME IsOut PROVE Acked'
    BY <1>3 DEF ArrivedOK
  <2> SUFFICES ASSUME rst' = "none"
               PROVE  /\ Len(got') + Taken = host'.acked + Ahead'
                      /\ host'.acked + Ahead' <= Len(sent') /\ Len(sent') <= host'.acked + 1
                      /\ host'.phase = "data" => host'.acked < Len(sent')
    BY <1>3 DEF Acked
  <2>1. Len(got) + Taken = host.acked + Ahead /\ host.acked + Ahead <= Len(sent)
    BY DEF BulkInv, ArrivedOK, Acked
  <2>2. Len(sent) <= Len(sent') /\ Len(sent') \in Nat
    BY <1>1, LongerFacts
  <2>3. Len(got) + Taken \in Nat
    BY <1>1, <1>4
  <2> QED BY <1>1, <2>1, <2>2, <2>3
<1>8. PlaceOK'
  <2>1. cpu.at = "submit" => Prefix(buf'[Reg(drv.fill)], drv.plen) = DataAt(drv.first, drv.ofs, drv.plen)
    BY <1>1 DEF PlaceOK, Undisturbed
  <2>2. cpu.at = "read" => drv.plen = MinOf(Len(sent'[Len(got') + 1]), drv.len - drv.ofs)
    <3> SUFFICES ASSUME cpu.at = "read"
                 PROVE  drv.plen = MinOf(Len(sent'[Len(got') + 1]), drv.len - drv.ofs)
      OBVIOUS
    <3>1. IsOut /\ drv.plen = MinOf(Len(sent[Len(got) + 1]), drv.len - drv.ofs)
      BY <1>1 DEF PlaceOK
    <3>2. Slots[drv.retire] = "done_ok"
      BY <1>1, SlotsFacts, OpenFacts
    <3>3. Taken >= 1
      BY <1>1, <3>2, SessionFacts
    <3>4. Len(got) + 1 \in 1 .. Len(sent)
      BY <3>1, <3>3 DEF BulkInv, ArrivedOK, Stored, Holds
    <3>5. sent'[Len(got) + 1] = sent[Len(got) + 1]
      BY <1>1, <3>4, LongerFacts
    <3> QED BY <3>1, <3>5
  <2> QED BY <1>1, <1>3, <2>1, <2>2 DEF PlaceOK
<1>9. ClosedOK'
  BY <1>3 DEF ClosedOK
<1>10. SpillOK'
  <2>1. /\ SpillOK /\ spoilt' \subseteq 1 .. Len(sent) /\ (IsIn => spoilt' = spoilt)
        /\ sie'.past # 0 => sie.past # 0 /\ SieEp' = SieEp
    BY DEF Undisturbed, BulkInv
  <2>2. 1 .. Len(sent) \subseteq 1 .. Len(sent')
    BY <1>1, LongerFacts
  <2>3. SpoiltOK'
    BY <1>3, <1>5, <2>1, <2>2, OpenOrClosed DEF SpillOK, SpoiltOK, BulkInv
  <2>4. PastOK'
    BY <1>3, <2>1 DEF SpillOK, PastOK
  <2> QED BY <2>3, <2>4 DEF SpillOK
<1> QED BY <1>3, <1>6, <1>7, <1>8, <1>9, <1>10

\* A step that changes no more of the host than its phase.
LEMMA QuietPhase ==
  ASSUME BulkInv, Opened, UNCHANGED <<eps, bd, drv, cpu, rst, sent, got>>, Undisturbed,
         host'.dt = host.dt, host'.acked = host.acked, host'.phase # "data" \/ host' = host
  PROVE  /\ RingOK' /\ ClosedOK' /\ OpenOK' /\ PlaceOK' /\ QueueOK' /\ ArrivedOK'
         /\ SpillOK'
<1>1. Ahead' = Ahead /\ Ahead \in 0 .. 1
  BY SessionFacts DEF Ahead, Status, BulkInv
<1>2. Len(got) = (Len(got) - Ahead) + Ahead
  BY <1>1, DriverFields DEF BulkInv
<1>3. IsOut /\ rst = "none" => Len(sent) <= host.acked + 1
                             /\ (host.phase = "data" => host.acked < Len(sent))
  BY DEF BulkInv, ArrivedOK, Acked
<1> QED BY <1>1, <1>2, <1>3, QuietStep DEF Longer

\* While the host is in a transaction, there is a session.
LEMMA HostFacts ==
  ASSUME BulkInv, host.phase # "ready"
  PROVE  Opened /\ rst = "none"
  BY DEF BulkInv, ClosedOK, PhaseOK, HostIdle

\* The host goes on.
LEMMA PhaseFacts ==
  ASSUME Typed, NEW p \in {"ready", "data", "answer", "ack"}, Phase(p)
  PROVE  host'.phase = p /\ host'.dt = host.dt /\ host'.acked = host.acked
  BY DEF Typed, Host, Phase

\* A token, received or lost.
LEMMA TokenKeeps ==
  ASSUME BulkInv, IgnoreRxErr, OutToken \/ InToken \/ TokenLost, UNCHANGED dcdVars, History
  PROVE  BulkInv'
<1>1. /\ Opened /\ rst = "none" /\ host.phase = "ready" /\ Typed /\ UNCHANGED <<drv, cpu, rst>>
      /\ host \in Host /\ Len(sent) \in Nat /\ Len(got) \in Nat /\ sent \in Seq(Seq(Unit))
      /\ sie.pc \in {"idle", "wait_out", "wait_ack"}
  BY DriverFields DEF OutToken, InToken, TokenLost, Sends, Opened, dcdVars, BulkInv, Typed,
     PhaseOK
<1>2. Typed' /\ spoilt' = spoilt
  BY <1>1, NotSpoilt, BusTypes DEF Transaction, Loss
<1>3. /\ UNCHANGED <<eps, bd>> /\ Undisturbed /\ CoreOK'
      /\ OutToken => sie'.pc = "wait_out"
      /\ InToken => sie'.pc \in {"tx_data", "tx_nak"}
      /\ TokenLost => sie' = sie
  <2>1. ASSUME OutToken \/ InToken
        PROVE  /\ UNCHANGED <<eps, bd>> /\ Undisturbed /\ CoreOK'
               /\ OutToken => sie'.pc = "wait_out"
               /\ InToken => sie'.pc \in {"tx_data", "tx_nak"}
    <3>1. PICK pid \in {"IN", "OUT"} :
                /\ DirOf(pid) = drv.ep[2] /\ Token(drv.ep[1], pid)
                /\ pid = "OUT" => IsOut
                /\ pid = "IN" => IsIn
                /\ OutToken => pid = "OUT"
                /\ InToken => pid = "IN"
      <4>1. ~(IsIn /\ IsOut)
        BY <1>1, OpenOrClosed DEF BulkInv
      <4>2. CASE OutToken
        <5>1. IsOut /\ Token(drv.ep[1], "OUT") /\ ~InToken /\ DirOf("OUT") = drv.ep[2]
          BY <4>1, <4>2 DEF OutToken, InToken, IsOut, DirOf
        <5> QED BY <5>1
      <4>3. CASE InToken
        <5>1. IsIn /\ Token(drv.ep[1], "IN") /\ ~OutToken /\ DirOf("IN") = drv.ep[2]
          BY <4>1, <4>3 DEF OutToken, InToken, IsIn, DirOf
        <5> QED BY <5>1
      <4> QED BY <2>1, <4>2, <4>3
    <3>2. /\ UNCHANGED <<eps, bd, buf>> /\ SieEp' = drv.ep /\ SieBd' = Reg(Status.bdi)
          /\ sie'.st = Status /\ sie'.cur = Status.bdi /\ sie'.bd = bd[Reg(Status.bdi)]
          /\ sie'.bd.state \in SlotState /\ sie'.past = 0
          /\ pid = "OUT" => sie'.pc = "wait_out" /\ (sie'.zl <=> sie'.bd.state # "rdy_data")
          /\ pid = "IN" => sie'.pc = (IF sie'.bd.state = "rdy_data" THEN "tx_data" ELSE "tx_nak")
      BY <1>1, <3>1, TokenFacts
    <3>3. Status' = Status /\ IsIn' = IsIn /\ IsOut' = IsOut /\ Opened' = Opened
      BY <1>1, <3>2 DEF Status, IsIn, IsOut, Opened
    <3>4. FetchedOK'
      BY <3>1, <3>2, <3>3 DEF FetchedOK
    <3>5. CoreOK'
      BY <1>1, <3>1, <3>2, <3>3, <3>4 DEF CoreOK
    <3>6. Undisturbed
      BY <1>2, <3>2, SameMemory
    <3> QED BY <3>1, <3>2, <3>5, <3>6
  <2>2. ASSUME TokenLost
        PROVE  UNCHANGED <<eps, bd>> /\ Undisturbed /\ CoreOK' /\ sie' = sie
    <3>1. UNCHANGED <<eps, bd, buf, sie>>
      BY <2>2 DEF TokenLost, Silent, NoAccess, transVars
    <3>2. CoreOK'
      BY <1>1, <3>1 DEF BulkInv, CoreOK, FetchedOK, Opened, Status, IsIn, IsOut, SieEp, SieBd
    <3>3. Undisturbed
      BY <1>2, <3>1, SameMemory DEF SieEp
    <3> QED BY <3>1, <3>2, <3>3
  <2>3. TokenLost => ~OutToken /\ ~InToken
    <3>1. losses \in Nat
      BY <1>1, BoundAssumption DEF Typed
    <3> QED BY <3>1 DEF TokenLost, OutToken, InToken, Lose, LoseNone
  <2> QED BY <2>1, <2>2, <2>3
<1>4. /\ \/ IsOut /\ Offers /\ Phase("data")
         \/ IsIn /\ UNCHANGED logVars /\ Phase("answer")
      /\ OutToken => Phase("data") /\ IsOut
  BY DEF OutToken, InToken, TokenLost
<1>5. Status' = Status /\ IsIn' = IsIn /\ IsOut' = IsOut /\ ~(IsIn /\ IsOut)
  BY <1>1, <1>3, OpenOrClosed DEF Status, IsIn, IsOut, BulkInv
<1>6. host'.dt = host.dt /\ host'.acked = host.acked /\ Ahead' = Ahead /\ Ahead \in 0 .. 1
  BY <1>1, <1>4, <1>5, PhaseFacts, SessionFacts DEF Ahead, BulkInv
<1>7. PhaseOK'
  <2>1. CASE IsOut /\ Phase("data")
    <3>1. host'.phase = "data"
      BY <1>1, <2>1, PhaseFacts
    <3>2. sie'.pc \in {"idle", "wait_out", "wait_ack"}
      <4>1. ~InToken
        BY <1>5, <2>1 DEF InToken
      <4> QED BY <1>1, <1>3, <4>1
    <3> QED BY <1>1, <1>5, <2>1, <3>1, <3>2 DEF PhaseOK
  <2>2. CASE IsIn /\ Phase("answer")
    <3>1. host'.phase = "answer"
      BY <1>1, <2>2, PhaseFacts
    <3>2. sie'.pc # "tx_ack"
      <4>1. ~OutToken
        BY <1>5, <2>2 DEF OutToken
      <4> QED BY <1>1, <1>3, <4>1
    <3> QED BY <1>1, <3>1, <3>2 DEF PhaseOK
  <2> QED BY <1>4, <2>1, <2>2
<1>8. RingOK' /\ ClosedOK' /\ OpenOK' /\ PlaceOK' /\ QueueOK' /\ ArrivedOK' /\ SpillOK'
  <2>1. CASE IsIn /\ UNCHANGED logVars /\ Phase("answer")
    <3>1. host'.phase # "data"
      BY <1>1, <2>1, PhaseFacts
    <3> QED BY <1>1, <1>3, <1>6, <2>1, <3>1, QuietPhase DEF logVars
  <2>2. CASE IsOut /\ Offers /\ Phase("data")
    <3>1. /\ host.acked \in Nat /\ host.acked + Ahead <= Len(sent) /\ Len(sent) <= host.acked + 1
      BY <1>1, <2>2 DEF BulkInv, ArrivedOK, Acked, Host
    <3>2. Longer /\ got' = got /\ Len(sent') <= host.acked + 1 /\ host.acked < Len(sent')
      <4>1. CASE host.acked < Len(sent) /\ UNCHANGED logVars
        BY <3>1, <4>1 DEF logVars, Longer
      <4>2. ASSUME host.acked = Len(sent), Len(sent) < MaxPkt, NEW l \in PktLen, got' = got,
                   sent' = Append(sent, DataAt(Len(sent) + 1, 0, l))
            PROVE  Longer /\ Len(sent') <= host.acked + 1 /\ host.acked < Len(sent')
        <5> DEFINE p == DataAt(Len(sent) + 1, 0, l)
        <5>1. p \in Seq(Unit) /\ Len(p) <= Mps
          <6>1. Len(sent) + 1 \in Nat /\ 0 * Mps = 0 /\ Len(sent) + 1 + 0 <= MaxPkt /\ l \in 0 .. Mps
            BY <1>1, <4>2, MpsAssumption, PktAssumption, LenAssumption
          <6>2. p \in Seq(Unit) /\ Len(p) = l
            BY <6>1, DataAtType
          <6> HIDE DEF p
          <6> QED BY <6>1, <6>2, MpsAssumption
        <5>2. sent' = Append(sent, p)
          BY <4>2
        <5> HIDE DEF p
        <5> QED BY <1>1, <2>2, <4>2, <5>1, <5>2 DEF Longer
      <4> QED BY <2>2, <4>1, <4>2 DEF Offers
    <3> QED BY <1>1, <1>3, <1>5, <1>6, <2>2, <3>2, QuietStep
  <2> QED BY <1>4, <2>1, <2>2
<1> QED BY <1>2, <1>3, <1>7, <1>8 DEF BulkInv

\* Host and core go on, and no more of the host changes than its phase.
LEMMA QuietInv ==
  ASSUME BulkInv, Opened, Typed', UNCHANGED <<eps, bd, drv, cpu, rst, sent, got>>,
         Undisturbed, CoreOK', NEW p \in {"ready", "answer"}, Phase(p), rst = "none",
         sie'.pc = "tx_ack" => host.dt # Status.dt,
         p = "ready" => sie'.pc \in {"idle", "wait_out", "wait_ack"}
  PROVE  BulkInv'
<1>1. host'.phase = p /\ host'.dt = host.dt /\ host'.acked = host.acked
  BY PhaseFacts DEF BulkInv
<1>2. RingOK' /\ ClosedOK' /\ OpenOK' /\ PlaceOK' /\ QueueOK' /\ ArrivedOK' /\ SpillOK'
  BY <1>1, QuietPhase
<1>3. PhaseOK'
  <2>1. Status' = Status
    BY DEF Status
  <2> QED BY <1>1, <2>1 DEF PhaseOK
<1> QED BY <1>2, <1>3 DEF BulkInv

\* The core sends data and waits for the acknowledgement.
LEMMA DataSentFacts ==
  ASSUME BulkInv, History, rst = "none", sie.pc = "tx_data", Goto("wait_ack"),
         UNCHANGED <<eps, bd, buf, drv>>
  PROVE  CoreOK' /\ sie'.pc = "wait_ack" /\ Undisturbed
<1>1. "wait_ack" \in SiePc /\ sie.past = 0
  BY DEF SiePc, Waiting, BulkInv, CoreOK
<1>2. Moved("wait_ack") /\ sie'.past = 0
  BY <1>1, GotoFacts, DriverFields DEF BulkInv
<1>3. spoilt' = spoilt
  BY NotSpoilt
<1> QED BY <1>2, <1>3, SameMemory, GotoCore DEF Moved

\* Packets of the host that the core does not take, and lost ones.
LEMMA RefusedKeeps ==
  ASSUME BulkInv, IgnoreRxErr, UNCHANGED dcdVars, History,
         \/ HostData /\ ~OutAccepted(host.dt, sent[host.acked + 1])
         \/ HostDataDamaged \/ HostDataLost \/ Silence \/ AnswerLost \/ DeviceDataLost
         \/ HostAckDamaged \/ HostAckLost
  PROVE  BulkInv'
<1>1. Opened /\ rst = "none"
  <2>1. host.phase # "ready"
    BY DEF HostData, HostDataDamaged, HostDataLost, DataSent, Silence, AnswerLost,
       DeviceDataLost, HostAckDamaged, HostAckLost
  <2> QED BY <2>1, HostFacts
<1>2. Typed' /\ UNCHANGED <<drv, cpu, rst, sent, got>>
  <2>1. Typed'
    BY BusTypes DEF Transaction, Loss
  <2>2. UNCHANGED logVars
    BY DEF HostData, HostDataDamaged, HostDataLost, DataSent, Silence, AnswerLost,
       DeviceDataLost, HostAckDamaged, HostAckLost
  <2> QED BY <2>1, <2>2 DEF dcdVars, logVars
<1>3. /\ sie.pc \in {"idle", "wait_out", "wait_ack", "tx_data", "tx_ack", "tx_nak"}
      /\ host.phase = "data" => sie.pc \in {"idle", "wait_out", "wait_ack"}
      /\ host.phase = "ack" => sie.pc = "wait_ack"
      /\ sie.pc = "tx_ack" => host.dt # Status.dt
  BY DEF BulkInv, CoreOK, PhaseOK
<1>4. CASE HostData /\ ~OutAccepted(host.dt, sent[host.acked + 1])
  <2> DEFINE p == sent[host.acked + 1]
  <2>1. Phase("answer") /\ host.phase = "data"
    BY <1>4 DEF HostData, DataSent
  <2>2. \/ OutRefused(host.dt, p) \/ (\E bytes \in Seq(Unit) : Discarded(bytes)) \/ RxNoAck
    <3>1. ~\E bytes : SetupFailed(bytes)
      BY <1>3 DEF SetupFailed
    <3>2. ~SetupAccepted(host.dt, p)
      BY <1>3 DEF SetupAccepted
    <3>3. RxData(host.dt, p)
      BY <1>4 DEF HostData
    <3> HIDE DEF p
    <3>4. ~OutAccepted(host.dt, p)
      BY <1>4 DEF p
    <3>5. p \o Crc \in Seq(Unit)
      BY <2>1, PacketSent, CrcType, ConcatProperties DEF p
    <3> QED BY <3>1, <3>2, <3>3, <3>4, <3>5 DEF RxData
  <2>3. CASE OutRefused(host.dt, p)
    BY <1>1, <1>2, <2>1, <2>3, RefusedFacts, QuietInv
  <2>4. CASE (\E bytes \in Seq(Unit) : Discarded(bytes)) \/ RxNoAck
    BY <1>1, <1>2, <2>1, <2>4, EndedFacts, QuietInv
  <2> QED BY <2>2, <2>3, <2>4
<1>5. CASE HostDataDamaged
  <2>1. Phase("answer") /\ RxFail(<<CrcUnit>>) /\ host.phase = "data"
    BY <1>5 DEF HostDataDamaged, DataSent
  <2>2. \E bytes \in Seq(Unit) : RxFail(bytes)
    <3>1. <<CrcUnit>> \in Seq(Unit)
      BY UnitAssumption
    <3> QED BY <2>1, <3>1
  <2> QED BY <1>1, <1>2, <2>1, <2>2, EndedFacts, QuietInv
<1>6. CASE AnswerLost \/ HostAckDamaged
  <2>1. Phase("ready") /\ (TxHandshake \/ RxNoAck)
    BY <1>6 DEF AnswerLost, HostAckDamaged
  <2> QED BY <1>1, <1>2, <2>1, EndedFacts, QuietInv
<1>7. CASE HostDataLost \/ Silence \/ HostAckLost
  <2>1. UNCHANGED <<eps, bd, buf, sie>>
    BY <1>7 DEF HostDataLost, Silence, HostAckLost, Silent, NoAccess, transVars
  <2>2. CoreOK' /\ Undisturbed
    <3>1. spoilt' = spoilt
      BY <1>1, <2>1, NotSpoilt
    <3>2. Undisturbed
      BY <2>1, <3>1, SameMemory DEF SieEp
    <3> QED BY <1>2, <2>1, <3>2 DEF BulkInv, CoreOK, FetchedOK, Opened, Status, IsIn, IsOut,
            SieEp, SieBd
  <2>3. /\ Phase("answer") \/ Phase("ready")
        /\ Silence \/ HostAckLost => sie.pc \in {"idle", "wait_out", "wait_ack"}
        /\ HostDataLost => Phase("answer")
        /\ Silence \/ HostAckLost => Phase("ready")
    BY <1>3, <1>7 DEF HostDataLost, DataSent, Silence, HostAckLost, Waiting
  <2> QED BY <1>1, <1>2, <1>3, <1>7, <2>1, <2>2, <2>3, QuietInv
<1>8. CASE DeviceDataLost
  <2>1. sie.pc = "tx_data" /\ Goto("wait_ack") /\ UNCHANGED <<eps, bd, buf>> /\ Phase("ready")
    BY <1>8 DEF DeviceDataLost, TxData
  <2>2. "wait_ack" \in SiePc
    BY DEF SiePc, Waiting
  <2>3. CoreOK' /\ sie'.pc = "wait_ack" /\ Undisturbed
    BY <1>1, <1>2, <2>1, <2>2, DataSentFacts
  <2> QED BY <1>1, <1>2, <2>1, <2>3, QuietInv
<1> QED BY <1>4, <1>5, <1>6, <1>7, <1>8

\* The host learns that its packet arrived, or that it did not.
LEMMA AnswerKeeps ==
  ASSUME BulkInv, IgnoreRxErr, UNCHANGED dcdVars, Answer, History
  PROVE  BulkInv'
<1>1. Opened /\ rst = "none" /\ Typed
  BY HostFacts DEF Answer, BulkInv
<1>2. Typed' /\ UNCHANGED <<drv, cpu, rst, sent, got>>
  <2>1. Typed'
    BY BusTypes DEF Transaction
  <2> QED BY <2>1 DEF Answer, dcdVars, logVars
<1>3. UNCHANGED <<eps, bd>> /\ Undisturbed /\ CoreOK' /\ sie'.pc = "idle"
  BY <1>1, <1>2, EndedFacts DEF Answer
<1>4. CASE sie.pc = "tx_ack"
  <2>1. IsOut /\ ~IsIn /\ host.dt # Status.dt /\ host.dt \in {0, 1} /\ host.acked \in Nat
        /\ Status.dt \in {0, 1}
    BY <1>1, <1>4, OpenOrClosed, OpenFacts DEF BulkInv, CoreOK, PhaseOK, Typed, Host
  <2>2. host'.phase = "ready" /\ host'.dt = 1 - host.dt /\ host'.acked = host.acked + 1
    BY <1>4 DEF Answer
  <2>3. Status' = Status /\ IsOut' = IsOut
    BY <1>2, <1>3 DEF Status, IsOut
  <2>4. Ahead = 1 /\ Ahead' = 0
    BY <2>1, <2>2, <2>3 DEF Ahead, One
  <2>5. Len(sent) <= host.acked + 1 /\ Len(sent) \in Nat
    BY <1>1, <2>1, DriverFields DEF BulkInv, ArrivedOK, Acked
  <2>6. RingOK' /\ ClosedOK' /\ OpenOK' /\ PlaceOK' /\ QueueOK' /\ ArrivedOK' /\ SpillOK'
    BY <1>1, <1>2, <1>3, <2>1, <2>2, <2>4, <2>5, QuietStep DEF Longer
  <2>7. PhaseOK'
    BY <1>1, <1>2, <1>3, <2>2 DEF PhaseOK
  <2> QED BY <1>2, <1>3, <2>6, <2>7 DEF BulkInv
<1>5. CASE sie.pc # "tx_ack"
  <2>1. Phase("ready")
    BY <1>5 DEF Answer, Phase
  <2> QED BY <1>1, <1>2, <1>3, <2>1, QuietInv
<1> QED BY <1>4, <1>5

\* The host receives a packet.
LEMMA DeviceDataKeeps ==
  ASSUME BulkInv, IgnoreRxErr, UNCHANGED dcdVars, DeviceData, History
  PROVE  BulkInv'
<1>1. Opened /\ rst = "none" /\ Typed /\ RingOK /\ OpenOK /\ sie.pc = "tx_data"
      /\ Len(got) \in Nat
  BY HostFacts, DriverFields DEF DeviceData, BulkInv, TxData
<1>2. Typed' /\ UNCHANGED <<drv, cpu, rst, sent, eps, bd, buf>> /\ Goto("wait_ack")
  <2>1. Typed'
    BY BusTypes DEF Transaction
  <2> QED BY <2>1 DEF DeviceData, dcdVars, TxData
<1>3. IsIn /\ ~IsOut /\ sie.st = Status /\ SieBd = Reg(Status.bdi) /\ bd[SieBd].state = "rdy_data"
  <2>1. IsIn /\ sie.st = Status /\ sie.cur = Status.bdi /\ SieEp = drv.ep
        /\ bd[SieBd].state = "rdy_data"
    BY <1>1 DEF BulkInv, CoreOK, FetchedOK
  <2> QED BY <1>1, <2>1, OpenOrClosed DEF BulkInv, SieBd, SieEp, Reg
<1>4. CoreOK' /\ sie'.pc = "wait_ack" /\ Undisturbed
  BY <1>1, <1>2, DataSentFacts
<1>5. Filled >= 1
  <2>1. cpu.at # "read"
    BY <1>3 DEF BulkInv, PlaceOK
  <2>2. Slots[Status.bdi] = "rdy_data"
    BY <1>1, <1>3, <2>1, SlotsFacts, OpenFacts
  <2> QED BY <1>1, <2>2, SessionFacts
<1>6. /\ host'.phase = "ack" /\ host'.dt # Status.dt
      /\ IF host.dt = Status.dt THEN Len(got') = Len(got) + 1 ELSE got' = got
  <2> DEFINE dt == IF Status.dt = host.dt THEN 1 - host.dt ELSE host.dt
  <2>1. /\ host' = [host EXCEPT !.phase = "ack", !.dt = dt]
        /\ got' = IF Status.dt = host.dt THEN Append(got, TxPayload) ELSE got
    BY <1>3 DEF DeviceData
  <2>2. host \in Host /\ host.dt \in {0, 1} /\ got \in Seq(Seq(Unit))
    BY <1>1, DriverFields DEF Typed, Host
  <2>3. dt # Status.dt
    BY <2>2
  <2> HIDE DEF dt
  <2>4. host'.phase = "ack" /\ host'.dt = dt
    BY <2>1, <2>2 DEF Host
  <2>5. Len(Append(got, TxPayload)) = Len(got) + 1
    BY <2>2
  <2> QED BY <2>1, <2>3, <2>4, <2>5
<1>7. Status' = Status /\ IsIn' = IsIn
  BY <1>2 DEF Status, IsIn
<1>8. Ahead' = 1 /\ Ahead = (IF host.dt = Status.dt THEN 0 ELSE 1)
  BY <1>6, <1>7 DEF Ahead, One
<1>9. Len(got') = (Len(got) - Ahead) + Ahead'
  BY <1>1, <1>6, <1>8
<1>10. RingOK' /\ ClosedOK' /\ OpenOK' /\ PlaceOK' /\ QueueOK' /\ ArrivedOK' /\ SpillOK'
  BY <1>1, <1>2, <1>3, <1>4, <1>5, <1>9, QuietStep DEF Longer
<1>11. PhaseOK'
  BY <1>1, <1>2, <1>3, <1>4, <1>6, <1>7 DEF PhaseOK
<1> QED BY <1>2, <1>4, <1>10, <1>11 DEF BulkInv

\* A packet for others ends a transaction that waits.
LEMMA SofKeeps ==
  ASSUME BulkInv, IgnoreRxErr, UNCHANGED dcdVars, Sof, History
  PROVE  BulkInv'
<1>1. Typed' /\ UNCHANGED <<drv, cpu, rst, sent, got, host>> /\ host.phase = "ready"
  <2>1. Typed'
    BY BusTypes
  <2> QED BY <2>1 DEF Sof, dcdVars, logVars
<1>2. /\ UNCHANGED <<eps, bd>> /\ CoreOK' /\ sie'.pc = "idle"
      /\ Opened => Undisturbed
      /\ ~Opened => spoilt' = spoilt
  <2>1. (\E bytes \in Seq(Unit) : RxFail(bytes)) /\ sie.pc # "idle"
    <3>1. RxFail(<<>>) /\ sie.pc # "idle"
      BY DEF Sof, Waiting
    <3>2. <<>> \in Seq(Unit)
      OBVIOUS
    <3> QED BY <3>1, <3>2
  <2> QED BY <1>1, <2>1, EndedFacts
<1>3. PhaseOK'
  BY <1>1, <1>2 DEF BulkInv, PhaseOK
<1>4. CASE Opened
  BY <1>1, <1>2, <1>3, <1>4, QuietPhase DEF BulkInv
<1>5. CASE ~Opened
  <2>1. ~Opened' /\ ~IsIn' /\ ~IsOut' /\ ~drv'.busy
    BY <1>1, <1>5, OpenOrClosed DEF Opened, IsIn, IsOut, BulkInv
  <2>2. cpu'.at \in {"idle", "drain", "event"} /\ ~cpu'.failed
    BY <1>1, <1>5 DEF BulkInv, ClosedOK, PlaceOK
  <2>3. RingOK' /\ OpenOK' /\ QueueOK' /\ ArrivedOK' /\ PlaceOK'
    BY <2>1, <2>2 DEF RingOK, OpenOK, QueueOK, ArrivedOK, PlaceOK
  <2>4. ClosedOK'
    BY <1>1, <1>2, <1>5 DEF BulkInv, ClosedOK
  <2>5. SpillOK'
    BY <1>1, <1>2, <1>5, <2>1, OpenOrClosed DEF BulkInv, SpillOK, PastOK, SpoiltOK
  <2> QED BY <1>1, <1>2, <1>3, <2>3, <2>4, <2>5 DEF BulkInv
<1> QED BY <1>4, <1>5

\* An event of another end point, a reset of the bus, and nothing at all.
LEMMA ResetKeeps ==
  ASSUME BulkInv, ((ResetStart \/ ResetEnd \/ OtherEvent) /\ History) \/ UNCHANGED vars
  PROVE  BulkInv'
<1>1. Typed' /\ UNCHANGED <<eps, bd, buf, sie, drv, cpu, sent, got, spoilt>>
  <2>1. Typed'
    BY TypeNext DEF StepNext, vars
  <2>2. UNCHANGED <<eps, bd, buf, sie, drv, cpu, sent, got>>
    BY DEF ResetStart, ResetEnd, OtherEvent, NoAccess, vars, stepVars, transVars, dcdVars, logVars
  <2>3. spoilt' = spoilt
    BY <2>2, NotSpoilt DEF ResetStart, ResetEnd, OtherEvent, dcdVars, vars
  <2> QED BY <2>1, <2>2, <2>3
<1>2. /\ IsIn' = IsIn /\ IsOut' = IsOut /\ Status' = Status /\ Opened' = Opened
      /\ SieEp' = SieEp /\ SieBd' = SieBd /\ \A b : Reg(b)' = Reg(b)
  BY <1>1 DEF IsIn, IsOut, Status, Opened, SieEp, SieBd, Reg
<1>3. Slots' = Slots /\ Filled' = Filled /\ Taken' = Taken
  <2>1. Slots' = Slots
    BY <1>1, <1>2 DEF Slots
  <2> QED BY <1>1, <2>1 DEF Filled, Taken
<1>4. RingOK' /\ OpenOK' /\ PlaceOK' /\ CoreOK'
  BY <1>1, <1>2, <1>3 DEF BulkInv, RingOK, OpenOK, PlaceOK, CoreOK, FetchedOK
<1>5. /\ \A q : Queued(q)' = Queued(q)
      /\ Stored' = Stored
  <2>1. \A b, k : Holds(b, k)' = Holds(b, k)
    BY <1>1, HoldsSame
  <2>2. \A q : InProgress(q)' = InProgress(q)
    BY <1>1 DEF InProgress
  <2> QED BY <1>1, <1>2, <1>3, <2>1, <2>2 DEF Queued, Stored
<1>6. SpillOK'
  BY <1>1, <1>2, <1>3 DEF BulkInv, SpillOK, PastOK, SpoiltOK
<1>7. CASE OtherEvent \/ UNCHANGED vars
  <2>1. UNCHANGED <<host, rst>>
    BY <1>7 DEF OtherEvent, vars, stepVars, dcdVars
  <2>2. Ahead' = Ahead
    BY <1>2, <2>1 DEF Ahead
  <2> QED BY <1>1, <1>2, <1>3, <1>4, <1>5, <1>6, <2>1, <2>2 DEF BulkInv, ClosedOK, PhaseOK,
          QueueOK, ArrivedOK, Delivered, Acked
<1>8. CASE ResetStart \/ ResetEnd
  <2>1. Opened /\ rst' # "none" /\ host' = HostIdle
    <3>1. CASE ResetStart
      BY <3>1 DEF ResetStart, Opened
    <3>2. CASE ResetEnd
      BY <3>2, OpenOrClosed DEF ResetEnd, BulkInv, PhaseOK
    <3> QED BY <1>8, <3>1, <3>2
  <2>2. ClosedOK'
    BY <1>2, <2>1 DEF ClosedOK
  <2>3. PhaseOK'
    <3>1. sie.pc \in {"idle", "wait_out", "wait_ack"}
      BY <1>8 DEF ResetStart, ResetEnd, BulkInv, PhaseOK, HostIdle
    <3> QED BY <1>1, <2>1, <3>1 DEF PhaseOK, HostIdle
  <2>4. QueueOK' /\ ArrivedOK'
    BY <1>1, <1>2, <1>5, <2>1 DEF BulkInv, QueueOK, ArrivedOK, Delivered, Acked
  <2> QED BY <1>1, <1>4, <1>6, <2>2, <2>3, <2>4 DEF BulkInv
<1> QED BY <1>7, <1>8

-----------------------------------------------------------------------------
(* The core's steps that write a descriptor back.                          *)

\* The descriptor at the core's index is done, and the core goes on to the next.
LEMMA WrittenBack ==
  ASSUME BulkInv, Opened, UNCHANGED <<drv, cpu>>, sie.pc \in {"wait_out", "wait_ack"},
         sie.bd.state = "rdy_data", NEW n, WriteBack("done_ok", TRUE, n),
         NEW p \in {"idle", "tx_ack"}, Moved(p), p = "tx_ack" => IsOut,
         sie'.past # 0 => p = "tx_ack"
  PROVE  /\ SieBd = Reg(Status.bdi) /\ bd[SieBd] = sie.bd
         /\ Slots[Status.bdi] = "rdy_data"
         /\ Slots'[1 - Status.bdi] = Slots[1 - Status.bdi]
         /\ bd'[Reg(Status.bdi)].state = "done_ok" /\ bd'[Reg(Status.bdi)].len = n
         /\ bd'[Reg(1 - Status.bdi)] = bd[Reg(1 - Status.bdi)]
         /\ Status'.dt = 1 - Status.dt /\ Status'.bdi = Step(drv.dual, Status.bdi)
         /\ Opened' /\ OpenOK' /\ RingOK' /\ ClosedOK' /\ CoreOK' /\ sie'.pc = p
         /\ Filled' = Filled - 1 /\ Taken' = Taken + 1
         /\ IsIn' = IsIn /\ IsOut' = IsOut /\ \A b : Reg(b)' = Reg(b)
<1>1. Typed /\ TransTypeOK /\ OpenOK /\ RingOK /\ PlaceOK /\ sie \in Sie
  BY DriverFields DEF BulkInv, TransTypeOK
<1>2. PICK c \in {0, 1} : c = Status.bdi
  BY <1>1, OpenFacts
<1>3. /\ drv.ep \in Ep /\ Reg(c) \in BdId /\ Reg(1 - c) \in BdId /\ Reg(c) # Reg(1 - c)
      /\ Status \in EpStatus /\ drv.dual \in BOOLEAN /\ drv.retire \in {0, 1}
      /\ drv.fill \in {0, 1} /\ drv.ep = <<drv.ep[1], drv.ep[2]>>
  BY <1>1, <1>2, OpenFacts DEF Reg
<1>4. /\ SieEp = drv.ep /\ sie.st = Status /\ sie.cur = c /\ bd[SieBd] = sie.bd
      /\ sie.pc # "idle"
  BY <1>2 DEF BulkInv, CoreOK, FetchedOK
<1>5. SieBd = Reg(c)
  BY <1>4 DEF SieBd, SieEp, Reg
<1>6. /\ eps' = [eps EXCEPT ![drv.ep] = Status']
      /\ Status' = [Status EXCEPT !.dt = 1 - @,
                                  !.bdi = IF Status.mode = "dual" THEN 1 - @ ELSE @]
  <2> DEFINE s == [Status EXCEPT !.dt = 1 - @,
                                 !.bdi = IF Status.mode = "dual" THEN 1 - @ ELSE @]
  <2>1. eps' = [eps EXCEPT ![drv.ep] = s]
    BY <1>4 DEF WriteBack
  <2> HIDE DEF s
  <2>2. Status' = s
    BY <1>1, <1>3, <2>1 DEF Status, TransTypeOK
  <2> QED BY <2>1, <2>2 DEF s
<1>7. /\ Status'.type = Status.type /\ Status'.halt = Status.halt /\ Status'.mode = Status.mode
      /\ Status'.dt = 1 - Status.dt
      /\ Status'.bdi = IF Status.mode = "dual" THEN 1 - c ELSE c
  BY <1>2, <1>3, <1>6 DEF EpStatus
<1>8. Status'.bdi = Step(drv.dual, c)
  BY <1>1, <1>3, <1>7 DEF OpenOK, Step
<1>9. /\ bd'[Reg(c)].state = "done_ok" /\ bd'[Reg(c)].len = n
      /\ bd'[Reg(1 - c)] = bd[Reg(1 - c)]
  <2> PICK x : x = [state |-> "done_ok", len |-> n, setup |-> sie.setup]
    BY Zenon
  <2>1. bd' = [bd EXCEPT ![Reg(c)] = x]
    BY <1>5 DEF WriteBack
  <2>2. bd'[Reg(c)] = x /\ bd'[Reg(1 - c)] = bd[Reg(1 - c)]
    BY <1>1, <1>3, <2>1 DEF TransTypeOK
  <2> QED BY <2>1, <2>2
<1>10. /\ IsIn' = IsIn /\ IsOut' = IsOut /\ Opened' /\ \A b : Reg(b)' = Reg(b)
  BY DEF IsIn, IsOut, Opened, Reg
<1>11. c # drv.retire \/ cpu.at # "read"
  BY <1>1, <1>4, <1>5 DEF PlaceOK
<1>12. /\ Slotted(Slots)
       /\ \A b \in {0, 1} : Slots[b] = IF cpu.at = "read" /\ b = drv.retire THEN "done_ok"
                                       ELSE bd[Reg(b)].state
  BY <1>1, SlotsFacts
<1>13. \A b \in {0, 1} : Slots'[b] = IF cpu.at = "read" /\ b = drv.retire THEN "done_ok"
                                     ELSE bd'[Reg(b)].state
  BY <1>10 DEF Slots
<1>14. /\ Slots[c] = "rdy_data" /\ Slots'[c] = "done_ok" /\ Slots'[1 - c] = Slots[1 - c]
  BY <1>4, <1>5, <1>9, <1>11, <1>12, <1>13
<1>15. Slotted(Slots')
  <2>1. \A b \in {0, 1} : Slots'[b] \in BdState
    BY <1>12, <1>14 DEF Slotted, BdState
  <2>2. Slots' = [b \in {0, 1} |-> Slots'[b]]
    BY DEF Slots
  <2> QED BY <2>1, <2>2 DEF Slotted
<1>16. /\ Ring(drv.dual, Slots', drv.retire, Step(drv.dual, c), drv.fill)
       /\ Count(drv.dual, Slots', "rdy_data") = Count(drv.dual, Slots, "rdy_data") - 1
       /\ Count(drv.dual, Slots', "done_ok") = Count(drv.dual, Slots, "done_ok") + 1
  <2>1. Ring(drv.dual, Slots, drv.retire, c, drv.fill)
    BY <1>1, <1>2 DEF RingOK
  <2> QED BY <1>3, <1>12, <1>14, <1>15, <2>1, RingTakes
<1>17. RingOK' /\ Filled' = Filled - 1 /\ Taken' = Taken + 1
  BY <1>8, <1>16 DEF RingOK, Filled, Taken
<1>18. OpenOK' /\ ClosedOK'
  BY <1>1, <1>7, <1>10 DEF OpenOK, ClosedOK
<1>19. CoreOK' /\ sie'.pc = p
  <2>1. sie'.pc = p /\ sie'.zl /\ SieEp' = SieEp
    BY DEF Moved
  <2> QED BY <1>4, <1>10, <2>1 DEF CoreOK, FetchedOK
<1> QED BY <1>2, <1>4, <1>5, <1>7, <1>8, <1>9, <1>10, <1>14, <1>17, <1>18, <1>19

\* A packet of the host is taken.
LEMMA AcceptedKeeps ==
  ASSUME BulkInv, IgnoreRxErr, UNCHANGED dcdVars, HostData, History,
         OutAccepted(host.dt, sent[host.acked + 1])
  PROVE  BulkInv'
<1>1. /\ Opened /\ rst = "none" /\ Typed /\ RingOK /\ OpenOK /\ PlaceOK /\ IsOut /\ ~IsIn
      /\ sie.pc = "wait_out" /\ Phase("answer") /\ host.phase = "data"
  BY PacketSent, OpenOrClosed DEF HostData, DataSent, OutAccepted, BulkInv
<1>2. Typed' /\ UNCHANGED <<drv, cpu, rst, sent, got, spoilt>>
  <2>1. Typed'
    BY BusTypes DEF Transaction
  <2>2. spoilt' = spoilt
    BY <1>1, NotSpoilt
  <2> QED BY <2>1, <2>2 DEF HostData, dcdVars, logVars
<1>3. /\ sie.st = Status /\ sie.bd.state = "rdy_data" /\ host.dt = Status.dt
      /\ sie.bd.state = "rdy_data"
  BY <1>1 DEF BulkInv, CoreOK, FetchedOK, OutAccepted, OutAccepts, Ready, SlotState
<1> PICK p, a : a \in Int /\ p = sent[host.acked + 1] /\ a = host.acked
  BY <1>1 DEF Typed, Host
<1>4. /\ a + 1 \in 1 .. Len(sent) /\ p \in Seq(Unit) /\ Len(p) <= Mps /\ Len(p) \in Nat
      /\ sent \in Seq(Seq(Unit)) /\ Len(got) \in Nat /\ Len(sent) \in Nat
  BY <1>1, PacketSent, DriverFields DEF BulkInv
<1>5. /\ Store(p \o Crc) /\ WriteBack("done_ok", TRUE, Len(p) + CrcLen)
      /\ Moved("tx_ack") /\ (sie'.past # 0 => Followed)
  <2>1. /\ Store(p \o Crc) /\ WriteBack("done_ok", TRUE, Len(p) + CrcLen)
        /\ Reload("tx_ack", Len(p) + CrcLen + 1)
    BY <1>3 DEF OutAccepted
  <2>2. Len(p) + CrcLen + 1 \in Nat /\ "tx_ack" \in SiePc
    BY <1>4 DEF CrcLen, SiePc
  <2>3. Moved("tx_ack") /\ (sie'.past # 0 => Followed)
    BY <1>1, <2>1, <2>2, ReloadFacts, DriverFields
  <2> QED BY <2>1, <2>3
<1> PICK c, r : c \in {0, 1} /\ r \in {0, 1} /\ c = Status.bdi /\ r = drv.retire
  BY <1>1, OpenFacts
<1>6. /\ SieBd = Reg(c) /\ bd[SieBd] = sie.bd /\ Slots[c] = "rdy_data"
      /\ Slots'[1 - c] = Slots[1 - c]
      /\ bd'[Reg(c)].state = "done_ok" /\ bd'[Reg(c)].len = Len(p) + CrcLen
      /\ bd'[Reg(1 - c)] = bd[Reg(1 - c)]
      /\ Status'.dt = 1 - Status.dt /\ Status'.bdi = Step(drv.dual, c)
      /\ Opened' /\ OpenOK' /\ RingOK' /\ ClosedOK' /\ CoreOK' /\ sie'.pc = "tx_ack"
      /\ Taken' = Taken + 1
      /\ IsIn' = IsIn /\ IsOut' = IsOut /\ \A b : Reg(b)' = Reg(b)
  BY <1>1, <1>2, <1>3, <1>5, WrittenBack
<1>7. /\ host'.phase = "answer" /\ host'.dt = host.dt /\ host'.acked = a
  BY <1>1, PhaseFacts
<1>8. /\ Ahead = 0 /\ Ahead' = 1 /\ host.dt # Status'.dt
  <2>1. Status.dt \in {0, 1}
    BY <1>1, OpenFacts
  <2> QED BY <1>3, <1>6, <1>7, <2>1 DEF Ahead, One
<1>9. /\ Stored /\ Acked
  BY <1>1 DEF BulkInv, ArrivedOK
<1>10. /\ Len(got) + Taken = a /\ Len(sent) <= a + 1 /\ Taken \in 0 .. 1
       /\ IF Taken = 0 THEN c = r ELSE c = 1 - r /\ drv.dual /\ Taken = 1
  <2>1. IF Taken = 0 THEN c = r ELSE c = 1 - r /\ drv.dual /\ Taken = 1
    BY <1>1, <1>6, SessionFacts
  <2>2. Len(got) + Taken = a + 0 /\ Len(sent) <= a + 1
    BY <1>1, <1>8, <1>9 DEF Acked
  <2>3. Taken \in 0 .. 1
    BY <2>1
  <2> QED BY <2>1, <2>2, <2>3
\* The buffer holds the packet, and the other one what it held.
<1>11. /\ buf \in [BdId -> Seq(Unit)] /\ buf' \in [BdId -> Seq(Unit)]
       /\ Prefix(buf'[Reg(c)], Len(p)) = p /\ Len(p) <= Len(buf'[Reg(c)])
       /\ buf'[Reg(1 - c)] = buf[Reg(1 - c)]
  <2>1. /\ buf \in [BdId -> Seq(Unit)] /\ buf' \in [BdId -> Seq(Unit)]
    BY <1>1, <1>2 DEF Typed, TransTypeOK
  <2>2. /\ Reg(c) \in BdId /\ Reg(1 - c) \in BdId /\ Reg(c) # Reg(1 - c)
    BY <1>1, OpenFacts DEF Reg
  <2>3. sie.bd.len = Mps
    BY <1>3, <1>6, <1>9 DEF Stored
  <2> PICK old \in Seq(Unit) : old = buf[Reg(c)]
    BY <2>1, <2>2
  <2> PICK new : new = Overwrite(old, Prefix(p \o Crc, Mps))
    OBVIOUS
  <2>4. new \in Seq(Unit) /\ Prefix(new, Len(p)) = p
    <3>1. Mps \in Nat /\ Len(p) <= Mps
      BY <1>4, MpsAssumption
    <3>2. LET s == Overwrite(old, Prefix(p \o Crc, Mps))
          IN  s \in Seq(Unit) /\ Prefix(s, Len(p)) = p
      BY <1>4, <3>1, StoredPacket
    <3> QED BY <3>2, Zenon
  <2>5. ~sie.zl
    BY <1>1, <1>3 DEF BulkInv, CoreOK, FetchedOK
  <2>6. buf' = [buf EXCEPT ![Reg(c)] = new]
    BY <1>5, <1>6, <2>3, <2>5 DEF Store
  <2>7. Len(p) <= Len(new)
    <3>1. Len(Prefix(new, Len(p))) = (IF Len(new) <= Len(p) THEN Len(new) ELSE Len(p))
      BY <1>4, <2>4, PrefixElements
    <3> QED BY <1>4, <2>4, <3>1, LenProperties
  <2> QED BY <2>1, <2>2, <2>4, <2>6, <2>7

\* It is the packet after those that arrived before.
<1>12. Stored'
  <2>1. Len(got) + Taken + 1 = a + 1 /\ sent'[a + 1] = p /\ a + 1 \in 1 .. Len(sent')
    BY <1>2, <1>4, <1>10
  <2>2. /\ Prefix(buf'[Reg(c)], Len(p)) = p /\ Len(p) <= Len(buf'[Reg(c)])
        /\ p = sent'[a + 1]
    BY <1>2, <1>11
  <2>3. \A b, k : Holds(b, k)' <=>
          /\ k \in 1 .. Len(sent)
          /\ IF k \in spoilt THEN Len(sent[k]) <= Len(buf'[Reg(b)])
                             ELSE Prefix(buf'[Reg(b)], Len(sent[k])) = sent[k]
    BY <1>2, <1>6 DEF Holds
  <2>4. Holds(c, a + 1)'
    BY <1>2, <1>4, <2>2, <2>3
  <2>5. ASSUME NEW k, Holds(1 - c, k) PROVE Holds(1 - c, k)'
    BY <1>11, <2>3, <2>5 DEF Holds
  <2>6. \A k \in 1 .. Len(sent') : Len(sent'[k]) <= Mps
    BY <1>2, <1>9 DEF Stored
  <2>7. \A b \in {0, 1} : bd'[Reg(b)].state = "rdy_data" => bd'[Reg(b)].len = Mps
    <3>1. \A b \in {0, 1} : b = c \/ b = 1 - c
      OBVIOUS
    <3> QED BY <1>6, <1>9, <3>1 DEF Stored
  <2>8. drv'.retire = r /\ Len(got') = Len(got) /\ Taken' = Taken + 1
    BY <1>2, <1>6
  <2>9. CASE Taken = 0
    <3>1. c = r /\ Len(got') + 1 = a + 1 /\ Taken' = 1
      BY <1>4, <1>10, <2>8, <2>9
    <3>2. Holds(r, Len(got) + 1)'
      BY <2>4, <2>8, <3>1
    <3>3. bd'[Reg(r)].len = Len(sent'[Len(got') + 1]) + CrcLen
      BY <1>6, <2>1, <3>1
    <3>4. Holds(drv.retire, Len(got) + 1)'
      BY <2>8, <3>2
    <3>5. \A b : Reg(b)' = Reg(b)
      BY <1>6
    <3> QED BY <2>6, <2>7, <2>8, <3>1, <3>3, <3>4, <3>5 DEF Stored
  <2>10. CASE Taken = 1
    <3>1. c = 1 - r /\ 1 - c = r /\ (Len(got') + 1) + 1 = a + 1 /\ Taken' = 2
      BY <1>4, <1>10, <2>8, <2>10
    <3>2. /\ Holds(r, Len(got) + 1)
          /\ cpu.at # "read" => bd[Reg(r)].len = Len(sent[Len(got) + 1]) + CrcLen
      BY <1>9, <2>10 DEF Stored
    <3> PICK k : k \in Int /\ k = Len(got) + 1 /\ k + 1 = a + 1
      BY <1>4, <2>8, <3>1
    <3>3. Holds(r, k)' /\ Holds(1 - r, k + 1)'
      BY <2>4, <2>5, <3>1, <3>2
    <3>4. bd'[Reg(1 - r)].len = Len(sent'[k + 1]) + CrcLen
      BY <1>6, <2>1, <3>1
    <3>5. cpu'.at # "read" => bd'[Reg(r)].len = Len(sent'[k]) + CrcLen
      BY <1>2, <1>6, <3>1, <3>2
    <3>6. Holds(drv.retire, Len(got) + 1)' /\ Holds(1 - drv.retire, Len(got) + 2)'
      BY <2>8, <3>3
    <3> QED BY <1>6, <2>6, <2>7, <2>8, <3>1, <3>3, <3>4, <3>5, <3>6 DEF Stored
  <2> QED BY <1>10, <2>9, <2>10
<1>13. Acked'
  BY <1>1, <1>2, <1>4, <1>6, <1>7, <1>8, <1>10 DEF Acked
<1>14. PlaceOK'
  <2>1. cpu.at \notin {"load", "submit"}
    BY <1>1 DEF PlaceOK
  <2>2. bd[Reg(r)].state \in {"none", "done_ok"} => c # r /\ r = 1 - c
    BY <1>3, <1>6
  <2> QED BY <1>1, <1>2, <1>6, <2>1, <2>2 DEF PlaceOK
<1>15. PhaseOK'
  BY <1>1, <1>2, <1>6, <1>7, <1>8 DEF PhaseOK
\* What comes next without a token would go to the descriptor that is done.
<1>16. SpillOK'
  <2>1. SpoiltOK'
    BY <1>1, <1>2, <1>6 DEF BulkInv, SpillOK, SpoiltOK
  <2>2. ASSUME sie'.past # 0
        PROVE  /\ IsOut /\ drv.dual /\ SieEp = drv.ep /\ SieEp' = SieEp
               /\ Slots'[1] = "done_ok" => r = 1
    <3>1. Followed /\ SieEp' = SieEp /\ SieEp = drv.ep /\ sie.cur = c
      BY <1>1, <1>5, <2>2 DEF Moved, BulkInv, CoreOK, FetchedOK
    <3>2. Status.mode = "dual" /\ c = 0
      BY <1>3, <3>1 DEF Followed
    <3>3. drv.dual
      BY <1>1, <3>2 DEF OpenOK
    <3>4. Slots'[1] = Slots[1]
      BY <1>6, <3>2
    <3>5. ASSUME Slots[1] = "done_ok" PROVE Taken # 0
      BY <3>3, <3>5 DEF Taken, Count, One
    <3> QED BY <1>1, <1>10, <3>1, <3>2, <3>3, <3>4, <3>5
  <2>3. PastOK'
    BY <1>2, <1>6, <2>2 DEF PastOK
  <2> QED BY <2>1, <2>3 DEF SpillOK
<1> QED BY <1>1, <1>2, <1>6, <1>12, <1>13, <1>14, <1>15, <1>16 DEF BulkInv, QueueOK, ArrivedOK

\* The core learns that the host has the packet.
LEMMA HostAckKeeps ==
  ASSUME BulkInv, IgnoreRxErr, UNCHANGED dcdVars, HostAck, History
  PROVE  BulkInv'
<1>1. /\ Opened /\ rst = "none" /\ Typed /\ RingOK /\ OpenOK /\ PlaceOK
      /\ sie.pc = "wait_ack" /\ Phase("ready") /\ host.dt # Status.dt /\ IsIn /\ ~IsOut
  BY HostFacts, OpenOrClosed DEF HostAck, BulkInv, PhaseOK
<1>2. Typed' /\ UNCHANGED <<drv, cpu, rst, sent, got, buf, spoilt>>
  <2>1. Typed'
    BY BusTypes DEF Transaction
  <2>2. spoilt' = spoilt
    BY <1>1, NotSpoilt DEF HostAck, dcdVars
  <2> QED BY <2>1, <2>2 DEF HostAck, dcdVars, logVars, RxAck
<1>3. /\ sie.bd.state = "rdy_data" /\ WriteBack("done_ok", TRUE, 0)
      /\ Moved("idle") /\ sie'.past = 0
  <2>1. sie.bd.state = "rdy_data" /\ sie.past = 0
    BY <1>1 DEF BulkInv, CoreOK, FetchedOK
  <2>2. WriteBack("done_ok", TRUE, 0) /\ Goto("idle")
    BY DEF HostAck, RxAck
  <2>3. "idle" \in SiePc
    BY DEF SiePc
  <2> QED BY <1>1, <2>1, <2>2, <2>3, GotoFacts, DriverFields
<1> PICK c : c \in {0, 1} /\ c = Status.bdi
  BY <1>1, OpenFacts
<1>4. /\ SieBd = Reg(c) /\ bd[SieBd] = sie.bd /\ Slots[c] = "rdy_data"
      /\ bd'[Reg(c)].state = "done_ok" /\ bd'[Reg(1 - c)] = bd[Reg(1 - c)]
      /\ Status'.dt = 1 - Status.dt /\ Status'.bdi = Step(drv.dual, c)
      /\ Opened' /\ OpenOK' /\ RingOK' /\ ClosedOK' /\ CoreOK' /\ sie'.pc = "idle"
      /\ Filled' = Filled - 1
      /\ IsIn' = IsIn /\ IsOut' = IsOut /\ \A b : Reg(b)' = Reg(b)
  BY <1>1, <1>2, <1>3, WrittenBack
<1>5. host'.phase = "ready" /\ host'.dt = host.dt
  BY <1>1, PhaseFacts
<1>6. Ahead = 1 /\ Ahead' = 0
  <2>1. Status.dt \in {0, 1} /\ host.dt \in {0, 1}
    BY <1>1, OpenFacts DEF Typed, Host
  <2> QED BY <1>1, <1>4, <1>5, <2>1 DEF Ahead, One
<1>7. Filled \in 1 .. 2 /\ (Filled = 2 => drv.dual)
  BY <1>1, <1>4, SessionFacts
<1> PICK q \in 0 .. Len(sent) : Queued(q) /\ Delivered(q)
  BY <1>1 DEF BulkInv, QueueOK
<1> PICK n : n \in Int /\ n = Filled
  BY <1>7
<1>8. Delivered(q)'
  <2>1. Len(got) = q - n + 1
    BY <1>1, <1>6 DEF Delivered
  <2>2. Len(got') = q - (n - 1) + 0
    BY <1>2, <2>1
  <2> QED BY <1>2, <1>4, <1>6, <2>2 DEF Delivered
<1>9. Queued(q)'
  <2>1. IF drv'.busy THEN InProgress(q)' ELSE q = Len(sent')
    <3>1. IF drv.busy THEN InProgress(q) ELSE q = Len(sent)
      BY Zenon DEF Queued
    <3>2. InProgress(q) => InProgress(q)'
      BY <1>2 DEF InProgress
    <3> QED BY <1>2, <3>1, <3>2
  <2>2. Filled' = n - 1 /\ n <= q /\ Filled' # 2
    BY <1>4, <1>7 DEF Queued
  <2>3. ASSUME n = 2
        PROVE  /\ Status'.bdi = 1 - c
               /\ Holds(1 - c, q)' /\ bd'[Reg(1 - c)].len = Len(sent'[q])
    <3>1. (q - n + 1) + 1 = q
      BY <2>3
    <3>2. Holds(1 - c, q) /\ bd[Reg(1 - c)].len = Len(sent[q])
      BY <2>3, <3>1 DEF Queued
    <3>3. Holds(1 - c, q)'
      BY <1>2, <3>2, HoldsSame
    <3> QED BY <1>2, <1>4, <1>7, <2>3, <3>2, <3>3 DEF Step
  <2>4. ASSUME Filled' >= 1
        PROVE  LET e == Status'.bdi
                   k == q - Filled' + 1
               IN Holds(Status.bdi, q - Filled + 1)' /\ bd'[Reg(e)].len = Len(sent'[k])
    <3>1. n = 2 /\ q - (n - 1) + 1 = q
      BY <1>7, <2>2, <2>4
    <3>2. q - Filled' + 1 = q
      BY <2>2, <3>1
    <3>3. Status'.bdi = 1 - c
      BY <2>3, <3>1
    <3> QED BY <2>3, <3>1, <3>2, <3>3
  <2>5. Filled' <= q
    BY <1>7, <2>2
  <2> QED BY <1>4, <2>1, <2>2, <2>4, <2>5 DEF Queued
<1>10. QueueOK'
  BY <1>2, <1>8, <1>9 DEF QueueOK
<1>11. PlaceOK'
  <2>1. cpu.at \in {"load", "submit"} => Reg(drv.fill) = Reg(1 - c)
    <3>1. cpu.at \in {"load", "submit"} => bd[Reg(drv.fill)].state = "none"
      BY <1>1 DEF PlaceOK
    <3>2. cpu.at \in {"load", "submit"} => drv.fill # c
      BY <1>3, <1>4, <3>1
    <3> QED BY <1>1, <3>2, OpenFacts
  <2>2. bd[Reg(drv.retire)].state = "done_ok" => bd'[Reg(drv.retire)].state = "done_ok"
    BY <1>1, <1>4, OpenFacts
  <2> QED BY <1>1, <1>2, <1>4, <2>1, <2>2 DEF PlaceOK
<1>12. PhaseOK'
  BY <1>1, <1>2, <1>4, <1>5 DEF PhaseOK
<1>13. SpillOK'
  BY <1>1, <1>2, <1>3, <1>4 DEF BulkInv, SpillOK, PastOK, SpoiltOK
<1> QED BY <1>1, <1>2, <1>4, <1>10, <1>11, <1>12, <1>13 DEF BulkInv, ArrivedOK

-----------------------------------------------------------------------------
(* The invariant, and what it says.                                        *)

\* Without an end point there is nothing to keep.
LEMMA ClosedSession ==
  ASSUME Typed, ~Opened, ClosedOK, drv = Closed, ~cpu.failed
  PROVE  RingOK /\ OpenOK /\ PlaceOK /\ QueueOK /\ ArrivedOK
<1>1. ~IsIn /\ ~IsOut /\ ~drv.busy
  BY DEF IsIn, IsOut, Closed, NoEp
<1>2. cpu.at \in {"idle", "drain", "event"}
  BY DEF ClosedOK
<1> QED BY <1>1, <1>2 DEF RingOK, OpenOK, PlaceOK, QueueOK, ArrivedOK

LEMMA InitOK == Init => BulkInv
<1> SUFFICES ASSUME Init PROVE BulkInv
  OBVIOUS
<1>1. TransTypeOK
  <2>1. sie \in Sie
    BY DriverValues DEF Init, Sie, SiePc
  <2>2. evt \in 0 .. EvtMod - 1
    BY EvtModAssumption DEF Init
  <2>3. eps \in [Ep -> EpStatus] /\ bd \in [BdId -> Descriptor] /\ buf \in [BdId -> Seq(Unit)]
    BY DriverValues DEF Init
  <2> QED BY <2>1, <2>2, <2>3 DEF Init, TransTypeOK
<1>2. DcdTypeOK
  BY FifoInitOK, DriverValues DEF Init, DcdTypeOK
<1>3. Typed
  BY <1>1, <1>2, BoundAssumption DEF Init, Typed, Host, HostIdle
<1>4. ~Opened /\ drv = Closed /\ cpu = Idle /\ Idle.at = "idle" /\ ~Idle.failed
  BY DEF Init, Opened, Closed, Idle
<1>5. ClosedOK
  BY <1>4 DEF Init, ClosedOK
<1>6. RingOK /\ OpenOK /\ PlaceOK /\ QueueOK /\ ArrivedOK
  BY <1>3, <1>4, <1>5, ClosedSession
<1>7. CoreOK /\ PhaseOK /\ SpillOK
  BY <1>4 DEF Init, CoreOK, PhaseOK, HostIdle, SpillOK, PastOK, SpoiltOK
<1> QED BY <1>3, <1>5, <1>6, <1>7 DEF BulkInv

LEMMA NextKeeps == ASSUME IgnoreRxErr, BulkInv, [Next]_vars PROVE BulkInv'
<1>1. CASE (Transaction \/ Loss \/ Sof) /\ History
  <2>1. UNCHANGED dcdVars
    BY <1>1, BusTypes
  <2>2. CASE OutToken \/ InToken \/ TokenLost
    BY <1>1, <2>1, <2>2, TokenKeeps
  <2>3. CASE \/ HostData /\ ~OutAccepted(host.dt, sent[host.acked + 1])
             \/ HostDataDamaged \/ HostDataLost \/ Silence \/ AnswerLost \/ DeviceDataLost
             \/ HostAckDamaged \/ HostAckLost
    BY <1>1, <2>1, <2>3, RefusedKeeps
  <2>4. CASE HostData /\ OutAccepted(host.dt, sent[host.acked + 1])
    BY <1>1, <2>1, <2>4, AcceptedKeeps
  <2>5. CASE Answer
    BY <1>1, <2>1, <2>5, AnswerKeeps
  <2>6. CASE DeviceData
    BY <1>1, <2>1, <2>6, DeviceDataKeeps
  <2>7. CASE HostAck
    BY <1>1, <2>1, <2>7, HostAckKeeps
  <2>8. CASE Sof
    BY <1>1, <2>1, <2>8, SofKeeps
  <2> QED BY <1>1, <2>2, <2>3, <2>4, <2>5, <2>6, <2>7, <2>8, Zenon DEF Transaction, Loss
<1>2. CASE ((ResetStart \/ ResetEnd \/ OtherEvent) /\ History) \/ UNCHANGED vars
  BY <1>2, ResetKeeps
<1>3. CASE (Firmware \/ Function) /\ History
  BY <1>3, FirmwareKeeps
<1> QED BY <1>1, <1>2, <1>3 DEF Next, StepNext

\* The invariant of the mini build, whatever packets are lost, with the data
\* that OUT_BCI's write back lets the core store after a token is lost.
THEOREM Inductive == ASSUME IgnoreRxErr PROVE Spec => []BulkInv
<1>1. BulkInv /\ [Next]_vars => BulkInv'
  BY NextKeeps
<1> QED BY <1>1, InitOK, PTL DEF Spec

\* Every variable keeps its type, for every packet size, set of transfers and
\* number of losses, with either kind of event register.
THEOREM TypeCorrect == ASSUME IgnoreRxErr PROVE Spec => []TypeOK
<1>1. BulkInv => TypeOK
  BY DEF BulkInv, Typed, SpillOK, SpoiltOK, TypeOK
<1> QED BY <1>1, Inductive, PTL

\* The core never transmits from a buffer the driver is filling, nor stores the
\* data of an OUT transaction into one it is reading: _usb_ep_advance_xfer_in()
\* fills in a descriptor only while it is USB_BD_STATE_NONE, and _out() reads one
\* after it put it there.  Of data without a transaction it says nothing: that
\* may go into the buffer which is read (DataIgnored, which the code violates).
THEOREM RaceFree == ASSUME IgnoreRxErr PROVE Spec => []NoRace
<1>1. BulkInv => NoRace
  <2> SUFFICES ASSUME BulkInv PROVE NoRace
    OBVIOUS
  <2>1. PlaceOK /\ CoreOK /\ (cpu.at \in {"load", "read"} => Opened)
    BY OpenOrClosed DEF BulkInv
  <2>2. cpu.at = "load" => bd[Reg(drv.fill)].state = "none"
    BY <2>1 DEF PlaceOK
  <2>3. cpu.at = "read" => bd[Reg(drv.retire)].state = "none"
    BY <2>1 DEF PlaceOK
  <2>4. Opened /\ sie.pc = "tx_data" => bd[SieBd].state = "rdy_data"
    BY <2>1 DEF CoreOK, FetchedOK
  <2>5. Opened /\ sie.pc \in {"idle", "wait_out"} /\ ~sie.zl => bd[SieBd].state = "rdy_data"
    BY <2>1 DEF CoreOK, FetchedOK
  <2> QED BY <2>1, <2>2, <2>3, <2>4, <2>5 DEF NoRace
<1> QED BY <1>1, Inductive, PTL

\* The core writes the whole descriptor back, with what it fetched when the
\* transaction began: the driver wrote nothing to it in the meantime.
THEOREM NoWriteLost == ASSUME IgnoreRxErr PROVE Spec => NoLostWrite
<1> DEFINE Same == drv.ep # NoEp /\ rst = "none" /\ sie' # sie /\ bd' # bd => bd[SieBd] = sie.bd
<1>1. BulkInv /\ [Next]_vars => [Same]_vars
  <2> SUFFICES ASSUME BulkInv, StepNext, drv.ep # NoEp, sie' # sie, bd' # bd
               PROVE  bd[SieBd] = sie.bd
    BY DEF Next
  <2>1. ~\E ep \in Ep, dual \in BOOLEAN : Open(ep, dual)
    BY DriverValues DEF Open
  <2>2. Transaction \/ Loss \/ Sof
    <3>1. CASE Function
      <4>1. ~\E n \in EpNum, d \in {"in", "out"}, dual \in BOOLEAN : Open(<<n, d>>, dual)
        BY <2>1 DEF Ep
      <4> QED BY <3>1, <4>1 DEF Function, Xfer, NoAccess, transVars
    <3> QED BY <3>1 DEF StepNext, ResetStart, ResetEnd, OtherEvent, NoAccess, transVars,
            Firmware, DcdNext, Advance, RetireIn, ResetIn, FillIn, LoadIn, SubmitIn,
            RetireOut, ResetOut, ReadOut, FillOut, Interrupt, BusReset, Drain, ReadEvent,
            WriteBd, WriteBuf, ReadEvt
  <2>3. UNCHANGED <<drv, cpu>>
    BY <2>2, BusTypes DEF dcdVars
  <2>4. CASE HostData /\ OutAccepted(host.dt, sent[host.acked + 1])
    <3>1. Opened /\ sie.pc = "wait_out" /\ IsOut
      BY <2>4, PacketSent DEF HostData, DataSent, OutAccepted
    <3> QED BY <3>1, <2>4 DEF BulkInv, CoreOK, FetchedOK, OutAccepted, OutAccepts, Ready,
            SlotState
  <2>5. CASE HostAck
    <3>1. Opened /\ sie.pc = "wait_ack"
      BY <2>5, HostFacts DEF HostAck, RxAck
    <3> QED BY <3>1 DEF BulkInv, CoreOK, FetchedOK
  <2>6. CASE \/ HostData /\ ~OutAccepted(host.dt, sent[host.acked + 1])
             \/ HostDataDamaged \/ HostDataLost \/ Silence \/ AnswerLost \/ DeviceDataLost
             \/ HostAckDamaged \/ HostAckLost \/ Answer \/ DeviceData \/ Sof \/ TokenLost
    <3>1. bd' = bd
      <4>1. ~\E bytes : SetupFailed(bytes)
        BY DEF BulkInv, CoreOK, SetupFailed
      <4>2. ~SetupAccepted(host.dt, sent[host.acked + 1])
        BY DEF BulkInv, CoreOK, SetupAccepted
      <4> QED BY <2>6, <4>1, <4>2 DEF HostData, HostDataDamaged, HostDataLost, Silence, AnswerLost,
              DeviceDataLost, HostAckDamaged, HostAckLost, Answer, DeviceData, Sof, TokenLost,
              Silent, NoAccess, transVars, RxData, RxFail, OutFailed, OutRefused, Discarded,
              RxNoAck, TxData, TxHandshake
    <3> QED BY <3>1
  <2>7. CASE OutToken \/ InToken
    <3>1. bd' = bd
      BY <2>7 DEF OutToken, InToken, Token, FailInto, FailWrites
    <3> QED BY <3>1
  <2> QED BY <2>2, <2>4, <2>5, <2>6, <2>7, Zenon DEF Transaction, Loss
<1> QED BY <1>1, Inductive, PTL DEF Spec, NoLostWrite

\* For either build of the microcode: no event is dropped without the driver
\* being told, whatever core and driver do.
THEOREM EventsCorrect == Spec => []NoSilentDrop
<1>1. Init => FifoInv
  BY FifoInitOK DEF Init
<1>2. FifoInv => NoSilentDrop
  BY DEF FifoInv, NoSilentDrop
<1>3. FifoInv /\ [Next]_vars => FifoInv'
  BY NextFifo DEF Next, vars
<1> QED BY <1>1, <1>2, <1>3, PTL DEF Spec

-----------------------------------------------------------------------------
(* The end point is a pipe of packets: every step is one of BulkPipe, or    *)
(* changes nothing there.                                                  *)

PipeDir  == IF rst # "none" THEN "none" ELSE drv.ep[2]
PipeSent == IF rst # "none" THEN <<>> ELSE sent
PipeGot  == IF rst # "none" THEN <<>> ELSE Repaired
PipeRoom == IF rst = "none" /\ IsOut /\ drv.busy THEN drv.len - drv.ofs ELSE -1

PipeStep == [Pipe!Next]_(Pipe!pipeVars)

\* A history without packets.
LEMMA NothingRepaired == ASSUME got = <<>> PROVE Repaired = <<>>
  BY DEF Repaired

LEMMA PipeInit == Init => Pipe!Init
  BY NothingRepaired DEF Init, Pipe!Init, Pipe!NoRead, Closed, NoEp, IsOut

\* The bytes of a packet that is still to be read are marked, those of the ones
\* received stay as they are.
LEMMA SameRepaired ==
  ASSUME BulkInv, History, rst' = rst, got' = got,
         \A k \in 1 .. Len(sent) : sent'[k] = sent[k]
  PROVE  PipeGot' = PipeGot /\ (rst = "none" => Repaired' = Repaired)
<1> SUFFICES ASSUME rst = "none" PROVE Repaired' = Repaired
  BY DEF PipeGot
<1>1. Len(got) \in Nat /\ Len(sent) \in Nat /\ spoilt \subseteq 1 .. Len(sent)
  BY DriverFields DEF BulkInv, SpillOK, SpoiltOK
<1>2. \A k \in 1 .. Len(got) : k \in spoilt' <=> k \in spoilt
  BY <1>1 DEF History
<1>3. \A k \in 1 .. Len(got) : k \in spoilt => sent'[k] = sent[k]
  BY <1>1
<1> QED BY <1>2, <1>3 DEF Repaired

\* A packet is received.
LEMMA MoreRepaired ==
  ASSUME BulkInv, spoilt' = spoilt, sent' = sent, NEW x \in Seq(Unit), got' = Append(got, x),
         NEW y, y = IF Len(got) + 1 \in spoilt THEN Prefix(sent[Len(got) + 1], Len(x)) ELSE x
  PROVE  Repaired' = Append(Repaired, y) /\ Len(Repaired) = Len(got)
<1> PICK n : n \in Nat /\ n = Len(got)
  BY DriverFields DEF BulkInv
<1> DEFINE z(g, k) == IF k \in spoilt THEN Prefix(sent[k], Len(g[k])) ELSE g[k]
<1>1. got \in Seq(Seq(Unit)) /\ got' \in Seq(Seq(Unit)) /\ Len(got') = n + 1
  BY DriverFields DEF BulkInv
<1>2. /\ \A k \in 1 .. n : got'[k] = got[k]
      /\ got'[n + 1] = x
  BY <1>1
<1>3. spoilt \subseteq 1 .. Len(sent) /\ sent \in Seq(Seq(Unit))
  BY DriverFields DEF BulkInv, SpillOK, SpoiltOK
<1>4. ASSUME NEW g \in Seq(Seq(Unit)), NEW k \in 1 .. Len(g) PROVE z(g, k) \in Seq(Unit)
  <2>1. g[k] \in Seq(Unit) /\ Len(g[k]) \in Int
    BY <1>4, ElementOfSeq, LenProperties
  <2>2. k \in spoilt => sent[k] \in Seq(Unit)
    BY <1>3
  <2> QED BY <2>1, <2>2, PrefixType
<1>5. Repaired = [k \in 1 .. n |-> z(got, k)] /\ Repaired' = [k \in 1 .. n + 1 |-> z(got', k)]
  BY <1>1 DEF Repaired
<1>6. \A k \in 1 .. n : z(got', k) = z(got, k)
  BY <1>2
<1>7. z(got', n + 1) = y
  BY <1>2
<1>8. /\ \A k \in 1 .. n : z(got, k) \in Seq(Unit)
      /\ \A k \in 1 .. n + 1 : z(got', k) \in Seq(Unit)
  BY <1>1, <1>4
<1> HIDE DEF z
<1>9. Repaired \in Seq(Seq(Unit)) /\ Len(Repaired) = n /\ y \in Seq(Unit)
  BY <1>5, <1>7, <1>8
<1>10. Repaired' \in Seq(Seq(Unit)) /\ Len(Repaired') = n + 1
  BY <1>5, <1>8
<1>11. \A k \in 1 .. n + 1 : Repaired'[k] = Append(Repaired, y)[k]
  BY <1>5, <1>6, <1>7, <1>9
<1>12. Append(Repaired, y) \in Seq(Seq(Unit)) /\ Len(Append(Repaired, y)) = n + 1
  BY <1>9
<1>13. Repaired' = Append(Repaired, y)
  BY <1>10, <1>11, <1>12, SeqEqual
<1> QED BY <1>9, <1>13

\* A step that the pipe does not see.
LEMMA PipeSilent ==
  ASSUME PipeDir' = PipeDir, PipeSent' = PipeSent, PipeGot' = PipeGot, PipeRoom' = PipeRoom
  PROVE  PipeStep
  BY DEF PipeStep, Pipe!pipeVars, PipeDir, PipeSent, PipeGot, PipeRoom

\* The function driver starts a transfer.
LEMMA PipeXfer ==
  ASSUME BulkInv, NEW len \in XferLen, Xfer(len), host' = host, History
  PROVE  PipeStep
<1>1. /\ Opened /\ (IsIn \/ IsOut) /\ ~(IsIn /\ IsOut) /\ ~drv.busy /\ drv \in Driver
      /\ UNCHANGED <<got, rst>>
  BY OpenOrClosed, DriverFields DEF BulkInv, Xfer, Opened
<1>2. PipeGot' = PipeGot /\ (rst = "none" => Repaired' = Repaired)
  <2>1. spoilt' = spoilt
    BY DrivingMarks DEF Driving
  <2>2. Repaired' = Repaired
    <3>1. CASE IsOut
      BY <1>1, <2>1, <3>1 DEF Xfer, Repaired
    <3>2. CASE IsIn
      <4>1. spoilt = {}
        BY <1>1, <3>2 DEF BulkInv, SpillOK, SpoiltOK
      <4> QED BY <1>1, <2>1, <4>1 DEF Repaired
    <3> QED BY <1>1, <3>1, <3>2
  <2> QED BY <1>1, <2>2 DEF PipeGot
<1>3. len \in Nat
  BY XferAssumption
<1>4. /\ drv'.ep = drv.ep /\ drv'.busy /\ drv'.len = len /\ drv'.ofs = 0
  BY <1>1 DEF Xfer, Driver
<1>5. CASE rst # "none"
  BY <1>1, <1>5, <1>2, PipeSilent DEF PipeDir, PipeSent, PipeRoom
<1>6. CASE rst = "none" /\ IsIn
  <2>1. Pipe!Write(len)
    BY <1>1, <1>4, <1>6, <1>2 DEF Xfer, Pipe!Write, IsIn, IsOut
  <2> QED BY <2>1 DEF PipeStep, Pipe!Next
<1>7. CASE rst = "none" /\ IsOut
  <2>1. Pipe!Read(len)
    BY <1>1, <1>3, <1>4, <1>7, <1>2 DEF Xfer, Pipe!Read, Pipe!NoRead, IsIn, IsOut
  <2> QED BY <2>1 DEF PipeStep, Pipe!Next
<1> QED BY <1>1, <1>5, <1>6, <1>7

\* An end point is opened.
LEMMA PipeOpen ==
  ASSUME BulkInv, NEW n \in EpNum, NEW d \in {"in", "out"}, NEW dual \in BOOLEAN,
         Open(<<n, d>>, dual), History
  PROVE  PipeStep
<1>1. /\ drv = Closed /\ rst = "none" /\ UNCHANGED <<rst, sent, got>>
      /\ Repaired' = Repaired
  BY SameRepaired DEF Open, Keep, logVars
<1>2. drv.ep[2] = "none" /\ ~drv.busy /\ drv'.ep[2] = d /\ ~drv'.busy
  BY <1>1 DEF Open, Closed, NoEp
<1>3. Pipe!Connect(d)
  BY <1>1, <1>2 DEF Pipe!Connect
<1> QED BY <1>3 DEF PipeStep, Pipe!Next

\* The host offers a packet, a new one or one that was not acknowledged.
LEMMA PipeOffers ==
  ASSUME BulkInv, Opened, rst = "none", IsOut, Offers, UNCHANGED <<drv, rst>>, History
  PROVE  PipeStep
<1>1. CASE UNCHANGED logVars
  BY <1>1, SameRepaired, PipeSilent DEF PipeDir, PipeSent, PipeRoom, IsOut, logVars
<1>2. ASSUME NEW n \in PktLen, Len(sent) < MaxPkt, got' = got,
             sent' = Append(sent, DataAt(Len(sent) + 1, 0, n))
      PROVE  PipeStep
  <2>1. Len(sent) + 1 \in 1 .. MaxPkt
    BY <1>2, DriverFields, PktAssumption DEF BulkInv
  <2> PICK p : p = DataAt(Len(sent) + 1, 0, n)
    OBVIOUS
  <2>2. p \in {DataAt(k, 0, l) : k \in 1 .. MaxPkt, l \in PktLen}
    BY <2>1
  <2>3. sent' = Append(sent, p)
    BY <1>2
  <2>4. Repaired' = Repaired
    <3>1. \A k \in 1 .. Len(sent) : sent'[k] = sent[k]
      BY <2>3, DriverFields DEF BulkInv
    <3> QED BY <1>2, <3>1, SameRepaired
  <2>5. Pipe!HostSends(p)
    BY <1>2, <2>3, <2>4 DEF Pipe!HostSends, IsOut
  <2> QED BY <2>2, <2>5 DEF PipeStep, Pipe!Next
<1> QED BY <1>1, <1>2 DEF Offers

\* The host receives a packet, which is new to it or not.
LEMMA PipeDeviceData ==
  ASSUME BulkInv, DeviceData, History
  PROVE  PipeStep
<1>1. /\ Opened /\ rst = "none" /\ Typed /\ RingOK /\ OpenOK /\ PlaceOK /\ sie.pc = "tx_data"
      /\ UNCHANGED <<drv, rst, sent>>
  <2>1. UNCHANGED dcdVars
    BY BusTypes DEF Transaction
  <2> QED BY <2>1, HostFacts DEF DeviceData, BulkInv, TxData, dcdVars
<1>2. /\ IsIn /\ ~IsOut /\ sie.st = Status /\ sie.cur = Status.bdi /\ SieEp = drv.ep
      /\ bd[SieBd] = sie.bd /\ sie.bd.state = "rdy_data"
  BY <1>1, OpenOrClosed DEF BulkInv, CoreOK, FetchedOK
<1>3. CASE host.dt # Status.dt
  <2>1. got' = got
    BY <1>2, <1>3 DEF DeviceData
  <2> QED BY <1>1, <2>1, SameRepaired, PipeSilent DEF PipeDir, PipeSent, PipeRoom, IsOut
<1>4. CASE host.dt = Status.dt
  <2> PICK c : c \in {0, 1} /\ c = Status.bdi
    BY <1>1, OpenFacts
  <2>1. SieBd = Reg(c) /\ Reg(c) \in BdId
    BY <1>1, <1>2, OpenFacts DEF SieBd, SieEp, Reg
  <2>2. Filled \in 1 .. 2 /\ Ahead = 0
    <3>1. Slots[c] = "rdy_data"
      BY <1>1, <1>2, <2>1, SlotsFacts DEF PlaceOK
    <3> QED BY <1>1, <1>4, <3>1, SessionFacts
  <2> PICK q \in 0 .. Len(sent) : Queued(q) /\ Delivered(q)
    BY <1>2 DEF BulkInv, QueueOK
  <2> PICK k : k \in Int /\ k = Len(got) + 1
    BY <1>1, DriverFields
  <2>3. k = q - Filled + 1
    BY <1>1, <2>2 DEF Delivered
  <2>4. Holds(c, k) /\ bd[Reg(c)].len = Len(sent[k])
    BY <2>2, <2>3 DEF Queued
  <2>5. spoilt' = spoilt /\ spoilt = {}
    BY <1>1, <1>2, NotSpoilt DEF DeviceData, BulkInv, SpillOK, SpoiltOK
  <2>6. k \in 1 .. Len(sent) /\ TxPayload = sent[k]
    BY <1>2, <2>1, <2>4, <2>5 DEF Holds, TxPayload
  <2>7. got' = Append(got, sent[Len(got) + 1])
    BY <1>2, <1>4, <2>6 DEF DeviceData
  <2>8. Len(got) < Len(sent)
    BY <1>1, <2>6, DriverFields
  <2>9. Repaired' = Append(Repaired, sent[Len(got) + 1]) /\ Len(Repaired) = Len(got)
    <3>1. sent[k] \in Seq(Unit)
      BY <1>1, <2>6, DriverFields
    <3> QED BY <1>1, <2>5, <2>7, <3>1, MoreRepaired
  <2>10. Pipe!HostGets
    BY <1>1, <1>2, <2>8, <2>9 DEF Pipe!HostGets, Pipe!Arriving, IsIn, IsOut
  <2> QED BY <2>10 DEF PipeStep, Pipe!Next
<1> QED BY <1>3, <1>4

\* The function driver gets a packet of the host.
LEMMA PipeRead ==
  ASSUME BulkInv, ReadOut, host' = host, History
  PROVE  PipeStep
<1>1. /\ Opened /\ IsOut /\ Typed /\ RingOK /\ OpenOK /\ PlaceOK /\ drv.busy
      /\ drv.ofs <= drv.len
      /\ drv.plen = MinOf(Len(sent[Len(got) + 1]), drv.len - drv.ofs)
      /\ UNCHANGED <<rst, sent>>
  BY OpenOrClosed DEF BulkInv, PlaceOK, ReadOut
<1>2. /\ drv'.ep = drv.ep
      /\ IF drv.plen < Mps \/ drv.ofs + drv.plen = drv.len
           THEN ~drv'.busy
           ELSE drv'.busy /\ drv'.len = drv.len /\ drv'.ofs = drv.ofs + drv.plen
  BY <1>1, ReadOutDriver
<1>3. CASE rst # "none"
  BY <1>1, <1>2, <1>3, PipeSilent DEF PipeDir, PipeSent, PipeGot, PipeRoom
<1>4. CASE rst = "none"
  <2> PICK r, k : r \in {0, 1} /\ k \in Int /\ r = drv.retire /\ k = Len(got) + 1
    BY <1>1, DriverFields
  <2>1. Taken >= 1
    <3>1. Slots[drv.retire] = "done_ok"
      BY <1>1, SlotsFacts, DriverFields DEF ReadOut
    <3> QED BY <1>1, <3>1, SessionFacts
  <2>2. Holds(r, k) /\ Stored
    BY <1>1, <2>1 DEF BulkInv, ArrivedOK, Stored
  <2>3. /\ k \in 1 .. Len(sent) /\ Len(sent[k]) <= Len(buf[Reg(r)])
        /\ k \notin spoilt => Prefix(buf[Reg(r)], Len(sent[k])) = sent[k]
    BY <1>1, <2>2, HoldsLen, OpenFacts, DriverFields DEF Holds, TransTypeOK
  <2> PICK p, room : p = sent[k] /\ room = drv.len - drv.ofs
    OBVIOUS
  <2>4. /\ p \in Seq(Unit) /\ Len(p) \in Nat /\ Len(p) <= Mps /\ room \in Nat
        /\ drv.plen = MinOf(Len(p), room) /\ drv.plen \in Nat /\ drv.plen <= Len(p)
        /\ drv.len \in Nat /\ drv.ofs \in Nat
    <3>1. p \in Seq(Unit) /\ Len(p) \in Nat
      BY <1>1, <2>3, DriverFields
    <3>2. room \in Nat /\ drv.len \in Nat /\ drv.ofs \in Nat
      BY <1>1, DriverFields
    <3>3. Len(p) <= Mps
      BY <2>2, <2>3 DEF Stored
    <3>4. drv.plen = MinOf(Len(p), room)
      BY <1>1
    <3> QED BY <3>1, <3>2, <3>3, <3>4 DEF MinOf
  <2> PICK x : x = Prefix(buf[Reg(r)], drv.plen)
    OBVIOUS
  <2>5. /\ x \in Seq(Unit) /\ Len(x) = drv.plen /\ got' = Append(got, x)
        /\ k \notin spoilt => x = Prefix(p, drv.plen)
    <3>1. buf[Reg(r)] \in Seq(Unit) /\ Len(buf[Reg(r)]) \in Nat
      BY <1>1, OpenFacts, DriverFields, LenProperties DEF TransTypeOK
    <3>2. x \in Seq(Unit) /\ Len(x) = drv.plen
      BY <2>3, <2>4, <3>1, PrefixElements
    <3>3. k \notin spoilt => x = Prefix(p, drv.plen)
      BY <2>3, <2>4, <3>1, PrefixOfPrefix
    <3> QED BY <3>2, <3>3 DEF ReadOut
  <2>6. Prefix(p, drv.plen) = Pipe!Start(p, room) /\ Len(Pipe!Start(p, room)) = drv.plen
    <3>1. Prefix(p, drv.plen) = Pipe!Start(p, room)
      BY <2>4 DEF Prefix, Pipe!Start, MinOf
    <3>2. Len(Prefix(p, drv.plen)) = drv.plen
      BY <2>4, PrefixElements
    <3> QED BY <3>1, <3>2
  <2>7. /\ Repaired' = Append(Repaired, Pipe!Start(p, room)) /\ Len(Repaired) = Len(got)
    <3>1. spoilt' = spoilt
      BY DrivingMarks DEF Driving, Advance
    <3>2. Prefix(p, drv.plen) = IF Len(got) + 1 \in spoilt THEN Prefix(sent[Len(got) + 1], Len(x))
                                ELSE x
      BY <2>5
    <3>3. Repaired' = Append(Repaired, Prefix(p, drv.plen)) /\ Len(Repaired) = Len(got)
      BY <1>1, <2>5, <3>1, <3>2, MoreRepaired
    <3> QED BY <2>6, <3>3
  <2>8. PipeRoom = room /\ PipeRoom' = (IF drv.plen < Mps \/ drv.plen = room THEN -1
                                        ELSE room - drv.plen)
    <3>1. IsOut' /\ rst' = "none"
      BY <1>1, <1>2, <1>4 DEF IsOut
    <3>2. drv.ofs + drv.plen = drv.len <=> drv.plen = room
      BY <2>4
    <3>3. room - drv.plen = drv.len - (drv.ofs + drv.plen)
      BY <2>4
    <3> QED BY <1>1, <1>2, <1>4, <3>1, <3>2, <3>3 DEF PipeRoom
  <2>9. Len(got) < Len(sent) /\ room # -1
    BY <1>1, <2>3, <2>4, DriverFields
  <2>10. /\ PipeDir = "out" /\ PipeDir' = "out" /\ PipeSent = sent /\ PipeSent' = sent
         /\ PipeGot = Repaired /\ PipeGot' = Repaired'
    BY <1>1, <1>2, <1>4 DEF PipeDir, PipeSent, PipeGot, IsOut
  <2>11. Pipe!Take
    BY <2>6, <2>7, <2>8, <2>9, <2>10 DEF Pipe!Take, Pipe!Arriving, Pipe!NoRead, PipeDir,
       PipeSent, PipeGot, PipeRoom
  <2> QED BY <2>11 DEF PipeStep, Pipe!Next
<1> QED BY <1>3, <1>4

\* A step of the driver.
LEMMA PipeDriver ==
  ASSUME BulkInv, Firmware, History
  PROVE  PipeStep
<1>1. CASE ReadOut
  BY <1>1, PipeRead DEF Firmware
<1>2. CASE BusReset
  <2>1. /\ rst = "pending" /\ rst' = "none" /\ drv' = Closed /\ sent' = <<>> /\ got' = <<>>
    BY <1>2 DEF BusReset, ClearState
  <2>2. Repaired' = <<>>
    BY <2>1 DEF Repaired
  <2> QED BY <2>1, <2>2, PipeSilent DEF PipeDir, PipeSent, PipeGot, PipeRoom, Closed, NoEp
<1>3. CASE Looking
  <2>1. SameDriver /\ UNCHANGED <<sent, got, rst>>
    BY <1>3, LookingFacts
  <2> QED BY <2>1, SameRepaired, PipeSilent DEF SameDriver, PipeDir, PipeSent, PipeRoom, IsOut
<1>4. CASE ResetIn \/ SubmitIn
  <2>1. IsIn /\ ~IsOut
    BY <1>4, OpenOrClosed DEF ResetIn, SubmitIn, BulkInv, PlaceOK
  <2>2. drv'.ep = drv.ep
    <3>1. CASE ResetIn
      BY <3>1, DriverFields DEF BulkInv, ResetIn, Retired, Driver
    <3>2. CASE SubmitIn
      BY <3>2, SubmitInDriver DEF BulkInv
    <3> QED BY <1>4, <3>1, <3>2
  <2>3. UNCHANGED <<sent, got, rst>>
    BY <1>4 DEF ResetIn, SubmitIn, Keep, logVars
  <2> QED BY <2>1, <2>2, <2>3, SameRepaired, PipeSilent DEF PipeDir, PipeSent, PipeRoom, IsOut,
          IsIn
<1>5. CASE ResetOut \/ (FillOut /\ ~NoAccess)
  <2>1. drv \in Driver /\ ~cpu.failed
    BY DriverFields DEF BulkInv, PlaceOK
  <2>2. drv' = drv \/ drv' = [drv EXCEPT !.fill = Other(drv.fill)]
    BY <1>5, <2>1 DEF ResetOut, FillOut
  <2>3. /\ drv'.ep = drv.ep /\ drv'.busy = drv.busy /\ drv'.len = drv.len
        /\ drv'.ofs = drv.ofs
    BY <2>1, <2>2 DEF Driver
  <2>4. UNCHANGED <<sent, got, rst>>
    BY <1>5 DEF ResetOut, FillOut, Keep, logVars
  <2> QED BY <2>3, <2>4, SameRepaired, PipeSilent DEF PipeDir, PipeSent, PipeRoom, IsOut
<1>6. \/ Looking \/ ResetIn \/ SubmitIn \/ ResetOut \/ ReadOut \/ (FillOut /\ ~NoAccess)
      \/ BusReset
  BY Zenon DEF Firmware, DcdNext, Advance, Looking
<1> QED BY <1>1, <1>2, <1>3, <1>4, <1>5, <1>6

\* A step of the host and the bus.
LEMMA PipeBus ==
  ASSUME BulkInv, StepNext, ~Firmware, ~Function, History
  PROVE  PipeStep
<1>1. CASE OutToken \/ InToken \/ TokenLost
  <2>1. Opened /\ rst = "none" /\ UNCHANGED <<drv, rst>>
    BY <1>1, BusTypes DEF OutToken, InToken, TokenLost, Sends, Opened, Transaction, Loss, dcdVars
  <2>2. CASE IsOut /\ Offers
    BY <2>1, <2>2, PipeOffers
  <2>3. CASE UNCHANGED logVars
    BY <2>1, <2>3, SameRepaired, PipeSilent DEF logVars, PipeDir, PipeSent, PipeRoom, IsOut
  <2> QED BY <1>1, <2>2, <2>3 DEF OutToken, InToken, TokenLost
<1>2. CASE DeviceData
  BY <1>2, PipeDeviceData
<1>3. CASE ResetStart
  <2>1. Pipe!Reset
    BY <1>3 DEF ResetStart, Pipe!Reset, Pipe!NoRead
  <2> QED BY <2>1 DEF PipeStep, Pipe!Next
<1>4. CASE ResetEnd
  <2>1. rst # "none" /\ rst' # "none"
    BY <1>4 DEF ResetEnd
  <2> QED BY <2>1, PipeSilent DEF PipeDir, PipeSent, PipeGot, PipeRoom
<1>5. CASE OtherEvent
  <2>1. UNCHANGED <<drv, rst, sent, got>>
    BY <1>5 DEF OtherEvent, dcdVars, logVars
  <2> QED BY <2>1, SameRepaired, PipeSilent DEF PipeDir, PipeSent, PipeRoom, IsOut
<1>6. CASE \/ HostData \/ HostDataDamaged \/ HostDataLost \/ Silence \/ AnswerLost
           \/ DeviceDataLost \/ HostAckDamaged \/ HostAckLost \/ Answer \/ HostAck \/ Sof
  <2>1. UNCHANGED dcdVars
    BY <1>6, BusTypes DEF Transaction, Loss
  <2>2. UNCHANGED logVars
    BY <1>6 DEF HostData, HostDataDamaged, HostDataLost, Silence, AnswerLost,
       DeviceDataLost, HostAckDamaged, HostAckLost, Answer, HostAck, Sof
  <2> QED BY <2>1, <2>2, SameRepaired, PipeSilent DEF dcdVars, logVars, PipeDir, PipeSent,
          PipeRoom, IsOut
<1> QED BY <1>1, <1>2, <1>3, <1>4, <1>5, <1>6, Zenon DEF StepNext, Transaction, Loss

LEMMA PipeNext == ASSUME BulkInv, [Next]_vars PROVE PipeStep
<1>1. CASE Firmware /\ History
  BY <1>1, PipeDriver
<1>2. CASE Function /\ History
  BY <1>2, PipeXfer, PipeOpen DEF Function
<1>3. CASE StepNext /\ History /\ ~Firmware /\ ~Function
  BY <1>3, PipeBus
<1>4. CASE UNCHANGED vars
  BY <1>4, PipeSilent DEF vars, stepVars, Repaired, dcdVars, logVars, PipeDir, PipeSent, PipeGot, PipeRoom, IsOut
<1> QED BY <1>1, <1>2, <1>3, <1>4 DEF Next

\* _usb_ep_advance_xfer_in() and _out(), with the toggles and the buffer index
\* of the core, make the end point a pipe of packets: they arrive in order, once
\* each and in full length, for every packet size, every set of transfers, any
\* number of losses, single or dual buffered, with the event counter or the event
\* FIFO.  Their bytes are the ones sent, but for those of a packet in spoilt: on a
\* dual buffered OUT end point, data whose token was lost went over it.
THEOREM PipeImplemented == ASSUME IgnoreRxErr PROVE Spec => IsPipe
<1>1. BulkInv /\ [Next]_vars => [Pipe!Next]_(Pipe!pipeVars)
  BY PipeNext DEF PipeStep
<1> QED BY <1>1, PipeInit, Inductive, PTL DEF Spec, IsPipe, Pipe!Spec
=============================================================================
