--------------------------- MODULE UsbTransProofs ---------------------------
(***************************************************************************)
(* What the operators of the transaction layer return, for the proofs of   *)
(* the modules that use it: every step of the core, and every access of    *)
(* the soft core, keeps the types of the registers, in both builds.        *)
(***************************************************************************)
EXTENDS UsbTrans, SequenceTheorems, TLAPS

-----------------------------------------------------------------------------
(* Packets.                                                                *)

\* The CRC is two units.
LEMMA CrcType == Crc \in Seq(Unit) /\ Len(Crc) = 2
  BY UnitAssumption DEF Crc

\* A prefix of a packet is made of units of the packet.
LEMMA PrefixType ==
  ASSUME NEW s \in Seq(Unit), NEW n \in Int
  PROVE  Prefix(s, n) \in Seq(Unit)
<1>1. CASE Len(s) <= n
  BY <1>1 DEF Prefix
<1>2. CASE ~(Len(s) <= n)
  <2>1. \A i \in 1 .. n : s[i] \in Unit
    BY <1>2, ElementOfSeq, LenProperties
  <2>2. SubSeq(s, 1, n) \in Seq(Unit)
    BY <2>1, SubSeqProperties
  <2> QED BY <1>2, <2>2 DEF Prefix
<1> QED BY <1>1, <1>2

\* What is left of a buffer after a packet was stored is made of units.
LEMMA OverwriteType ==
  ASSUME NEW old \in Seq(Unit), NEW new \in Seq(Unit)
  PROVE  Overwrite(old, new) \in Seq(Unit)
<1>1. CASE Len(old) <= Len(new)
  BY <1>1 DEF Overwrite
<1>2. CASE ~(Len(old) <= Len(new))
  <2>1. \A i \in Len(new) + 1 .. Len(old) : old[i] \in Unit
    BY ElementOfSeq, LenProperties
  <2>2. SubSeq(old, Len(new) + 1, Len(old)) \in Seq(Unit)
    BY <2>1, LenProperties, SubSeqProperties
  <2>3. new \o SubSeq(old, Len(new) + 1, Len(old)) \in Seq(Unit)
    BY <2>2, ConcatProperties
  <2> QED BY <1>2, <2>3 DEF Overwrite
<1> QED BY <1>1, <1>2

\* A packet that was stored is found again at the start of the buffer.
LEMMA PrefixOfOverwrite ==
  ASSUME NEW old \in Seq(Unit), NEW new \in Seq(Unit)
  PROVE  Prefix(Overwrite(old, new), Len(new)) = new
<1>1. CASE Len(old) <= Len(new)
  BY <1>1 DEF Overwrite, Prefix
<1>2. CASE ~(Len(old) <= Len(new))
  <2> DEFINE rest == SubSeq(old, Len(new) + 1, Len(old))
             both == new \o rest
  <2>1. \A i \in Len(new) + 1 .. Len(old) : old[i] \in Unit
    BY ElementOfSeq, LenProperties
  <2>2. rest \in Seq(Unit) /\ Len(rest) = Len(old) - Len(new)
    BY <1>2, <2>1, LenProperties, SubSeqProperties
  <2> HIDE DEF rest
  <2>3. /\ both \in Seq(Unit) /\ Len(both) = Len(old)
        /\ \A i \in 1 .. Len(new) : both[i] = new[i]
    BY <2>2, ConcatProperties, LenProperties
  <2> HIDE DEF both
  <2>4. SubSeq(both, 1, Len(new)) = new
    BY <1>2, <2>3, LenProperties
  <2> QED BY <1>2, <2>3, <2>4, LenProperties DEF Overwrite, Prefix, rest, both
<1> QED BY <1>1, <1>2

\* The part of a packet that a descriptor leaves room for.
LEMMA PrefixElements ==
  ASSUME NEW s \in Seq(Unit), NEW n \in Nat
  PROVE  /\ Prefix(s, n) \in Seq(Unit)
         /\ Len(Prefix(s, n)) = (IF Len(s) <= n THEN Len(s) ELSE n)
         /\ \A i \in 1 .. Len(Prefix(s, n)) : Prefix(s, n)[i] = s[i]
<1>1. CASE Len(s) <= n
  BY <1>1 DEF Prefix
<1>2. CASE ~(Len(s) <= n)
  <2>1. \A i \in 1 .. n : s[i] \in Unit
    BY <1>2, ElementOfSeq, LenProperties
  <2>2. /\ SubSeq(s, 1, n) \in Seq(Unit) /\ Len(SubSeq(s, 1, n)) = n
        /\ \A i \in 1 .. n : SubSeq(s, 1, n)[i] = s[i]
    BY <2>1, SubSeqProperties
  <2> QED BY <1>2, <2>2 DEF Prefix
<1> QED BY <1>1, <1>2

\* A prefix is told by its elements.
LEMMA PrefixIs ==
  ASSUME NEW s \in Seq(Unit), NEW p \in Seq(Unit), Len(p) <= Len(s),
         \A i \in 1 .. Len(p) : s[i] = p[i]
  PROVE  Prefix(s, Len(p)) = p
<1>1. /\ Prefix(s, Len(p)) \in Seq(Unit)
      /\ Len(Prefix(s, Len(p))) = Len(p)
      /\ \A i \in 1 .. Len(p) : Prefix(s, Len(p))[i] = s[i]
  BY PrefixElements, LenProperties
<1> QED BY <1>1, SeqEqual

\* What a packet with its CRC leaves in a buffer, if the packet fits.
LEMMA StoredPacket ==
  ASSUME NEW old \in Seq(Unit), NEW p \in Seq(Unit), NEW m \in Nat, Len(p) <= m
  PROVE  LET new == Overwrite(old, Prefix(p \o Crc, m))
         IN  new \in Seq(Unit) /\ Prefix(new, Len(p)) = p
<1> DEFINE full == p \o Crc
           new  == Overwrite(old, Prefix(full, m))
<1>1. /\ full \in Seq(Unit) /\ Len(full) = Len(p) + 2
      /\ \A i \in 1 .. Len(p) : full[i] = p[i]
  <2>1. Crc \in Seq(Unit) /\ Len(Crc) = 2 /\ Len(p) \in Nat
    BY CrcType, LenProperties
  <2>2. full \in Seq(Unit) /\ Len(full) = Len(p) + Len(Crc)
    BY <2>1, ConcatProperties, Zenon
  <2>3. \A i \in 1 .. Len(p) : full[i] = p[i]
    BY <2>1
  <2> QED BY <2>1, <2>2, <2>3
<1> HIDE DEF full
<1> DEFINE cut == Prefix(full, m)
<1>2. /\ cut \in Seq(Unit) /\ Len(p) <= Len(cut)
      /\ \A i \in 1 .. Len(p) : cut[i] = p[i]
  BY <1>1, PrefixElements, LenProperties
<1> HIDE DEF cut
<1>3. new \in Seq(Unit) /\ Prefix(new, Len(cut)) = cut
  <2>1. new = Overwrite(old, cut)
    BY DEF cut
  <2> HIDE DEF new
  <2> QED BY <1>2, <2>1, OverwriteType, PrefixOfOverwrite
<1> HIDE DEF new
<1>4. /\ Len(cut) \in Nat /\ Len(new) \in Nat /\ Len(p) \in Nat
      /\ Len(Prefix(new, Len(cut))) = (IF Len(new) <= Len(cut) THEN Len(new) ELSE Len(cut))
      /\ \A i \in 1 .. Len(Prefix(new, Len(cut))) : Prefix(new, Len(cut))[i] = new[i]
  BY <1>2, <1>3, LenProperties, PrefixElements
<1>5. Len(p) <= Len(new) /\ \A i \in 1 .. Len(p) : new[i] = p[i]
  BY <1>2, <1>3, <1>4
<1>6. Prefix(new, Len(p)) = p
  BY <1>3, <1>5, PrefixIs
<1> QED BY <1>3, <1>6 DEF new, full

\* Bytes that go to memory from somewhere in a buffer on replace as many of it.
LEMMA OverwriteFromType ==
  ASSUME NEW old \in Seq(Unit), NEW new \in Seq(Unit), NEW ofs \in Int
  PROVE  /\ OverwriteFrom(old, ofs, new) \in Seq(Unit)
         /\ Len(OverwriteFrom(old, ofs, new)) = Len(old)
<1> DEFINE e(i) == IF i - ofs \in 1 .. Len(new) THEN new[i - ofs] ELSE old[i]
<1>1. Len(old) \in Nat
  BY LenProperties
<1>2. \A i \in 1 .. Len(old) : e(i) \in Unit
  BY ElementOfSeq, LenProperties
<1>3. OverwriteFrom(old, ofs, new) = [i \in 1 .. Len(old) |-> e(i)]
  BY DEF OverwriteFrom
<1> HIDE DEF e
<1> QED BY <1>1, <1>2, <1>3

-----------------------------------------------------------------------------
(* Accesses of the soft core.                                              *)

\* A write to a descriptor.
LEMMA WriteBdType ==
  ASSUME TransTypeOK, NEW id \in BdId, NEW b \in Descriptor, WriteBd(id, b)
  PROVE  TransTypeOK'
  BY DEF TransTypeOK, WriteBd

\* A write to a buffer.
LEMMA WriteBufType ==
  ASSUME TransTypeOK, NEW id \in BdId, NEW data \in Seq(Unit), WriteBuf(id, data)
  PROVE  TransTypeOK'
  BY DEF TransTypeOK, WriteBuf

\* A write to a status word.
LEMMA WriteStatusType ==
  ASSUME TransTypeOK, NEW ep \in Ep, NEW st \in EpStatus, WriteStatus(ep, st)
  PROVE  TransTypeOK'
  BY DEF TransTypeOK, WriteStatus

\* The other accesses.
LEMMA OtherAccessType ==
  ASSUME TransTypeOK, ReadEvt \/ CelRelease \/ UNCHANGED transVars
  PROVE  TransTypeOK'
<1>1. CASE ReadEvt
  BY <1>1, EvtModAssumption DEF TransTypeOK, ReadEvt
<1>2. CASE CelRelease
  BY <1>2 DEF TransTypeOK, CelRelease
<1>3. CASE UNCHANGED transVars
  BY <1>3 DEF TransTypeOK, transVars
<1> QED BY <1>1, <1>2, <1>3
-----------------------------------------------------------------------------
(* The steps of a transaction.                                             *)

\* The write back of the transaction in progress.
LEMMA WriteBackType ==
  ASSUME TransTypeOK, NEW state \in BdState, NEW flip \in BOOLEAN, NEW count \in Nat,
         WriteBack(state, flip, count)
  PROVE  eps' \in [Ep -> EpStatus] /\ bd' \in [BdId -> Descriptor]
<1>1. SieEp \in Ep /\ SieBd \in BdId
  BY DEF TransTypeOK, Sie, SieEp, SieBd, Ep, BdId
<1>2. sie.st \in EpStatus /\ sie.setup \in BOOLEAN
  BY DEF TransTypeOK, Sie
<1>3. [state |-> state, len |-> count, setup |-> sie.setup] \in Descriptor
  BY <1>2 DEF Descriptor
<1>4. [sie.st EXCEPT !.dt  = IF flip THEN 1 - @ ELSE @,
                     !.bdi = IF sie.st.mode = "dual" THEN 1 - @ ELSE @] \in EpStatus
  <2> DEFINE dt  == IF flip THEN 1 - sie.st.dt ELSE sie.st.dt
             bdi == IF sie.st.mode = "dual" THEN 1 - sie.st.bdi ELSE sie.st.bdi
  <2>1. dt \in {0, 1} /\ bdi \in {0, 1}
    BY <1>2 DEF EpStatus
  <2> HIDE DEF dt, bdi
  <2>2. [sie.st EXCEPT !.dt = dt, !.bdi = bdi] \in EpStatus
    BY <1>2, <2>1 DEF EpStatus
  <2> QED BY <2>2 DEF dt, bdi
<1> QED BY <1>1, <1>3, <1>4 DEF WriteBack, TransTypeOK

\* The storing of what is received.
LEMMA StoreType ==
  ASSUME TransTypeOK, NEW bytes \in Seq(Unit), Store(bytes)
  PROVE  buf' \in [BdId -> Seq(Unit)]
<1>1. SieBd \in BdId
  BY DEF TransTypeOK, Sie, SieBd, BdId
<1>2. sie.bd.len \in Int
  BY DEF TransTypeOK, Sie, Descriptor
<1>3. buf[SieBd] \in Seq(Unit)
  BY <1>1 DEF TransTypeOK
<1>4. Overwrite(buf[SieBd], Prefix(bytes, sie.bd.len)) \in Seq(Unit)
  BY <1>2, <1>3, PrefixType, OverwriteType
<1> QED BY <1>1, <1>4 DEF Store, TransTypeOK

\* The storing of what comes without a token.
LEMMA StoreBehindType ==
  ASSUME TransTypeOK, NEW bytes \in Seq(Unit), StoreBehind(bytes)
  PROVE  /\ buf' \in [BdId -> Seq(Unit)]
         /\ Behind \in BdId
         /\ \A id \in BdId : Len(buf'[id]) = Len(buf[id])
         /\ \A id \in BdId \ {Behind} : buf'[id] = buf[id]
<1>1. Behind \in BdId /\ sie.past - sie.bd.len \in Int
  BY DEF TransTypeOK, Sie, Descriptor, Behind, BdId
<1> PICK n \in 0 .. Len(bytes) :
       buf' = [buf EXCEPT ![Behind] =
                 OverwriteFrom(@, sie.past - sie.bd.len, Prefix(bytes, n))]
  BY DEF StoreBehind
<1> DEFINE new == OverwriteFrom(buf[Behind], sie.past - sie.bd.len, Prefix(bytes, n))
<1>2. new \in Seq(Unit) /\ Len(new) = Len(buf[Behind])
  <2>1. buf[Behind] \in Seq(Unit) /\ Prefix(bytes, n) \in Seq(Unit)
    BY <1>1, PrefixType DEF TransTypeOK
  <2> QED BY <1>1, <2>1, OverwriteFromType
<1>3. buf' = [buf EXCEPT ![Behind] = new]
  OBVIOUS
<1> HIDE DEF new
<1> QED BY <1>1, <1>2, <1>3 DEF TransTypeOK

\* The event counter.
LEMMA NotifyType == ASSUME TransTypeOK, Notify PROVE evt' \in 0 .. EvtMod - 1
  BY EvtModAssumption DEF TransTypeOK, Notify

\* A jump of the microcode.
LEMMA GotoType ==
  ASSUME TransTypeOK, NEW p \in SiePc, Goto(p)
  PROVE  sie' \in Sie
  BY DEF TransTypeOK, Sie, Goto

\* A jump after which the core goes on with a reloaded length.
LEMMA ReloadType ==
  ASSUME TransTypeOK, NEW p \in SiePc, NEW n \in Nat, Reload(p, n)
  PROVE  sie' \in Sie
<1> DEFINE past == IF Followed THEN n ELSE 0
<1>1. past \in Nat
  OBVIOUS
<1>2. sie' = [sie EXCEPT !.pc = p, !.zl = TRUE, !.past = past]
  BY DEF Reload
<1> HIDE DEF past
<1> QED BY <1>1, <1>2 DEF TransTypeOK, Sie

\* Nothing is reloaded that is modelled, unless two buffers lie side by side.
LEMMA ReloadIsGoto ==
  ASSUME TransTypeOK, sie.past = 0, ~Followed, NEW p, NEW n
  PROVE  Reload(p, n) <=> Goto(p)
<1>1. [sie EXCEPT !.pc = p, !.zl = TRUE, !.past = 0] = [sie EXCEPT !.pc = p, !.zl = TRUE]
  BY DEF TransTypeOK, Sie
<1>2. Reload(p, n) <=> sie' = [sie EXCEPT !.pc = p, !.zl = TRUE, !.past = 0]
  BY DEF Reload
<1> QED BY <1>1, <1>2 DEF Goto

\* What a token captures.
LEMMA CapturedFacts ==
  ASSUME TransTypeOK, NEW n \in EpNum, NEW pid \in {"IN", "OUT", "SETUP"}
  PROVE  LET c   == Captured(n, pid)
             d   == DirOf(pid)
             st  == eps[<<n, d>>]
             cur == CurBd(st, pid = "SETUP")
         IN /\ c \in Sie
            /\ c.pc = "idle" /\ c.n = n /\ c.d = d
            /\ c.cel = cel /\ c.cur = cur /\ c.bd = bd[<<n, d, cur>>] /\ c.past = 0
            /\ c.st.type = st.type /\ c.st.mode = st.mode /\ c.st.bdi = st.bdi
            /\ <<n, d>> \in Ep /\ <<n, d, cur>> \in BdId
<1> DEFINE d   == DirOf(pid)
           st  == eps[<<n, d>>]
           cur == CurBd(st, pid = "SETUP")
           setup == pid = "SETUP"
           zl  == FALSE
           b   == bd[<<n, d, cur>>]
           s   == [st EXCEPT !.dt = IF pid = "SETUP" THEN 0 ELSE @]
<1>1. d \in {"in", "out"}
  BY DEF DirOf
<1>2. <<n, d>> \in Ep
  BY <1>1 DEF Ep
<1>3. st \in EpStatus
  BY <1>2 DEF TransTypeOK
<1>4. cur \in {0, 1}
  BY <1>3 DEF CurBd, EpStatus
<1>5. <<n, d, cur>> \in BdId
  BY <1>1, <1>4 DEF BdId
<1>6. b \in Descriptor /\ cel \in BOOLEAN /\ setup \in BOOLEAN /\ zl \in BOOLEAN
  BY <1>5 DEF TransTypeOK
<1>7. s \in EpStatus /\ s.type = st.type /\ s.mode = st.mode /\ s.bdi = st.bdi
  <2>1. s = [st EXCEPT !.dt = IF pid = "SETUP" THEN 0 ELSE st.dt]
    OBVIOUS
  <2> QED BY <1>3, <2>1 DEF EpStatus
<1>8. Captured(n, pid) =
        [pc |-> "idle", n |-> n, d |-> d, setup |-> setup, cel |-> cel,
         st |-> s, cur |-> cur, bd |-> b, zl |-> zl,
         past |-> 0]
  BY DEF Captured
<1> HIDE DEF d, st, cur, setup, zl, b, s
<1>9. Captured(n, pid) \in Sie
  BY <1>1, <1>4, <1>6, <1>7, <1>8 DEF Sie, SiePc
<1> DEFINE c == Captured(n, pid)
<1>10. /\ c.pc = "idle" /\ c.n = n /\ c.d = d /\ c.cel = cel
       /\ c.cur = cur /\ c.bd = b /\ c.past = 0
       /\ c.st.type = st.type /\ c.st.mode = st.mode /\ c.st.bdi = st.bdi
  BY <1>6, <1>7, <1>8
<1> QED BY <1>2, <1>5, <1>9, <1>10, Zenon DEF d, st, cur, b

\* The status after a fail handler.
LEMMA FlipBdiFacts ==
  ASSUME NEW st \in EpStatus
  PROVE  /\ FlipBdi(st) \in EpStatus
         /\ FlipBdi(st).type = st.type /\ FlipBdi(st).mode = st.mode
         /\ st.mode # "dual" => FlipBdi(st).bdi = st.bdi
<1> DEFINE bdi == IF st.mode = "dual" THEN 1 - st.bdi ELSE st.bdi
<1>1. bdi \in {0, 1} /\ (st.mode # "dual" => bdi = st.bdi)
  BY DEF EpStatus
<1>2. FlipBdi(st) = [st EXCEPT !.bdi = bdi]
  BY DEF FlipBdi
<1> HIDE DEF bdi
<1> QED BY <1>1, <1>2 DEF EpStatus

\* What a fail handler writes.
LEMMA FailIntoType ==
  ASSUME TransTypeOK, NEW s \in Sie, NEW late \in BOOLEAN, FailInto(s, late),
         <<s.n, s.d>> \in Ep, <<s.n, s.d, s.cur>> \in BdId
  PROVE  /\ eps' \in [Ep -> EpStatus] /\ bd' \in [BdId -> Descriptor]
         /\ evt' \in 0 .. EvtMod - 1
<1>1. s.st \in EpStatus /\ s.bd.state \in BdState /\ s.setup \in BOOLEAN
  BY DEF Sie, Descriptor
<1> DEFINE b == [state |-> IF late THEN "done_err" ELSE s.bd.state,
                 len |-> 0, setup |-> s.setup]
<1>2. b \in Descriptor
  BY <1>1 DEF Descriptor, BdState
<1>3. FlipBdi(s.st) \in EpStatus
  BY <1>1, FlipBdiFacts
<1>4. evt' \in 0 .. EvtMod - 1
  BY EvtModAssumption DEF FailInto, TransTypeOK
<1>5. CASE FailWrites
  <2>1. eps' = [eps EXCEPT ![<<s.n, s.d>>] = FlipBdi(s.st)]
    BY <1>5, Zenon DEF FailInto
  <2>2. bd' = [bd EXCEPT ![<<s.n, s.d, s.cur>>] = b]
    BY <1>5, Zenon DEF FailInto
  <2> HIDE DEF b
  <2> QED BY <1>2, <1>3, <1>4, <2>1, <2>2 DEF TransTypeOK
<1>6. CASE ~FailWrites
  <2>1. UNCHANGED <<eps, bd>>
    BY <1>6, Zenon DEF FailInto
  <2> QED BY <1>4, <2>1 DEF TransTypeOK
<1> QED BY <1>5, <1>6

\* What a new transaction goes on with.
LEMMA AfterFailFacts ==
  ASSUME NEW s \in Sie
  PROVE  LET a == AfterFail(s)
         IN /\ a \in Sie
            /\ a.pc = s.pc /\ a.n = s.n /\ a.d = s.d /\ a.cel = s.cel /\ a.cur = s.cur
            /\ a.past = s.past
            /\ a.st.type = s.st.type /\ a.st.mode = s.st.mode
            /\ s.st.mode # "dual" => a.st.bdi = s.st.bdi
            /\ IF FailWrites THEN a.bd.state = "none" ELSE a = s
<1>1. CASE FailWrites
  <2> DEFINE f == FlipBdi(s.st)
             b == [s.bd EXCEPT !.state = "none"]
  <2>1. b \in Descriptor /\ b.state = "none"
    BY DEF Sie, Descriptor, BdState
  <2>2. /\ f \in EpStatus /\ f.type = s.st.type /\ f.mode = s.st.mode
        /\ s.st.mode # "dual" => f.bdi = s.st.bdi
    BY FlipBdiFacts DEF Sie
  <2>3. AfterFail(s) = [s EXCEPT !.st = f, !.bd = b]
    BY <1>1, Zenon DEF AfterFail
  <2> HIDE DEF f, b
  <2> QED BY <1>1, <2>1, <2>2, <2>3 DEF Sie
<1>2. CASE ~FailWrites
  <2>1. AfterFail(s) = s
    BY <1>2, Zenon DEF AfterFail
  <2> QED BY <1>2, <2>1
<1> QED BY <1>1, <1>2

\* What a token is dispatched to.
LEMMA DispatchedFacts ==
  ASSUME NEW a \in Sie, NEW pid \in {"IN", "OUT", "SETUP"}
  PROVE  LET s == Dispatched(a, pid)
         IN /\ s \in Sie
            /\ s.pc = Dispatch(a, pid) /\ s.zl = ~StoresData(a, Dispatch(a, pid))
            /\ s.n = a.n /\ s.d = a.d /\ s.cel = a.cel /\ s.st = a.st /\ s.cur = a.cur
            /\ s.bd = a.bd /\ s.setup = a.setup /\ s.past = a.past
<1> DEFINE next == Dispatch(a, pid)
           zl   == ~StoresData(a, next)
<1>1. next \in SiePc
  BY DEF Dispatch, DispatchIn, DispatchSetup, DispatchOut, SiePc, Waiting
<1>2. zl \in BOOLEAN
  OBVIOUS
<1>3. Dispatched(a, pid) = [a EXCEPT !.pc = next, !.zl = zl]
  BY DEF Dispatched
<1> HIDE DEF next, zl
<1>4. [a EXCEPT !.pc = next, !.zl = zl] \in Sie
  BY <1>1, <1>2 DEF Sie
<1>5. Dispatched(a, pid).pc = next /\ Dispatched(a, pid).zl = zl
  BY <1>3 DEF Sie
<1>6. LET s == Dispatched(a, pid)
      IN /\ s.n = a.n /\ s.d = a.d /\ s.cel = a.cel /\ s.st = a.st /\ s.cur = a.cur
         /\ s.bd = a.bd /\ s.setup = a.setup /\ s.past = a.past
  BY <1>3 DEF Sie
<1> QED BY <1>3, <1>4, <1>5, <1>6, Zenon DEF next, zl

\* A token, for this device or for another one.
LEMMA TokenType ==
  ASSUME TransTypeOK, NEW n \in EpNum, NEW pid \in {"IN", "OUT", "SETUP"},
         Token(n, pid) \/ OtherToken(n, pid)
  PROVE  TransTypeOK'
<1> DEFINE c == Captured(n, pid)
           a == AfterFail(c)
<1>1. c \in Sie /\ <<c.n, c.d>> \in Ep /\ <<c.n, c.d, c.cur>> \in BdId
  BY CapturedFacts
<1>2. PICK late \in BOOLEAN : FailInto(c, late)
  BY DEF Token, OtherToken, Late
<1>3. UNCHANGED <<buf, cel>> /\ (sie' = Dispatched(a, pid) \/ sie' = a)
  BY DEF Token, OtherToken
<1> HIDE DEF c
<1>4. a \in Sie
  BY <1>1, AfterFailFacts
<1> HIDE DEF a
<1>5. sie' \in Sie
  BY <1>3, <1>4, DispatchedFacts
<1>6. /\ eps' \in [Ep -> EpStatus] /\ bd' \in [BdId -> Descriptor]
      /\ evt' \in 0 .. EvtMod - 1
  BY <1>1, <1>2, FailIntoType
<1> QED BY <1>3, <1>5, <1>6 DEF TransTypeOK

\* A packet that arrives or fails to.
LEMMA RxType ==
  ASSUME TransTypeOK,
         NEW dt, NEW p \in Seq(Unit), NEW bytes \in Seq(Unit),
         RxData(dt, p) \/ RxFail(bytes)
  PROVE  TransTypeOK'
<1> USE DEF BdState, SiePc, Waiting
<1>1. p \o Crc \in Seq(Unit) /\ Len(p) + CrcLen \in Nat
  BY CrcType, ConcatProperties, LenProperties DEF CrcLen
<1>2. ASSUME SetupAccepted(dt, p) PROVE TransTypeOK'
  <2>1. eps' \in [Ep -> EpStatus] /\ bd' \in [BdId -> Descriptor]
    BY <1>1, <1>2, WriteBackType DEF SetupAccepted
  <2>2. buf' \in [BdId -> Seq(Unit)] /\ evt' \in 0 .. EvtMod - 1 /\ sie' \in Sie
    BY <1>1, <1>2, StoreType, NotifyType, GotoType DEF SetupAccepted
  <2> QED BY <1>2, <2>1, <2>2 DEF SetupAccepted, TransTypeOK
<1>3. ASSUME NEW s \in Seq(Unit), SetupFailed(s) \/ OutFailed(s) PROVE TransTypeOK'
  <2>1. eps' \in [Ep -> EpStatus] /\ bd' \in [BdId -> Descriptor]
    <3>1. Len(s) \in Nat
      BY LenProperties
    <3> QED BY <1>3, <3>1, WriteBackType DEF SetupFailed, OutFailed, TransTypeOK
  <2>2. evt' \in 0 .. EvtMod - 1
    BY <1>3, NotifyType DEF SetupFailed, OutFailed, TransTypeOK
  <2>3. buf' \in [BdId -> Seq(Unit)] /\ sie' \in Sie
    BY <1>3, StoreType, GotoType, ReloadType, LenProperties DEF SetupFailed, OutFailed
  <2> QED BY <1>3, <2>1, <2>2, <2>3 DEF SetupFailed, OutFailed, TransTypeOK
<1>4. ASSUME OutAccepted(dt, p) PROVE TransTypeOK'
  <2>1. eps' \in [Ep -> EpStatus] /\ bd' \in [BdId -> Descriptor]
    BY <1>1, <1>4, WriteBackType DEF OutAccepted
  <2>2. buf' \in [BdId -> Seq(Unit)] /\ evt' \in 0 .. EvtMod - 1
    BY <1>1, <1>4, StoreType, NotifyType DEF OutAccepted
  <2>3. sie' \in Sie
    <3>1. Len(p) + CrcLen + 1 \in Nat
      BY <1>1
    <3> QED BY <3>1, <1>4, ReloadType DEF OutAccepted
  <2> QED BY <1>4, <2>1, <2>2, <2>3 DEF OutAccepted, TransTypeOK
<1>5. ASSUME OutRefused(dt, p) PROVE TransTypeOK'
  <2>1. buf' \in [BdId -> Seq(Unit)] /\ sie' \in Sie
    BY <1>1, <1>5, StoreType, GotoType DEF OutRefused, OutAnswer
  <2> QED BY <1>5, <2>1 DEF OutRefused, TransTypeOK
<1>6. ASSUME NEW s \in Seq(Unit), Discarded(s) PROVE TransTypeOK'
  <2>1. buf' \in [BdId -> Seq(Unit)] /\ sie' \in Sie
    <3>1. sie.past + Len(s) \in Nat
      BY LenProperties DEF TransTypeOK, Sie
    <3> QED BY <1>6, <3>1, StoreType, StoreBehindType, GotoType, ReloadType DEF Discarded
  <2> QED BY <1>6, <2>1 DEF Discarded, TransTypeOK
<1>7. ASSUME RxNoAck PROVE TransTypeOK'
  BY <1>7, GotoType, NotifyType DEF RxNoAck, TransTypeOK
<1> QED BY <1>1, <1>2, <1>3, <1>4, <1>5, <1>6, <1>7 DEF RxData, RxFail

\* A packet the core sends, and the answer to it.
LEMMA TxType ==
  ASSUME TransTypeOK, StallBd \/ TxData \/ TxHandshake \/ RxAck \/ RxNoAck
  PROVE  TransTypeOK'
<1> USE DEF BdState, SiePc, Waiting
<1>1. CASE StallBd \/ RxAck
  <2>1. eps' \in [Ep -> EpStatus] /\ bd' \in [BdId -> Descriptor]
    BY <1>1, WriteBackType DEF StallBd, RxAck
  <2>2. evt' \in 0 .. EvtMod - 1 /\ sie' \in Sie
    BY <1>1, NotifyType, GotoType DEF StallBd, RxAck
  <2> QED BY <1>1, <2>1, <2>2 DEF StallBd, RxAck, TransTypeOK
<1>2. CASE TxData \/ TxHandshake
  BY <1>2, GotoType DEF TxData, TxHandshake, TransTypeOK
<1>3. CASE RxNoAck
  BY <1>3, GotoType, NotifyType DEF RxNoAck, TransTypeOK
<1> QED BY <1>1, <1>2, <1>3
=============================================================================
