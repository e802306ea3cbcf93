---------------------------- MODULE UsbDfuProofs ----------------------------
(* For all zones that consist of sectors: flash commands stay in the zone  *)
(* that is selected, nothing is programmed that was not erased, and what   *)
(* is reported done is in the flash.                                       *)
EXTENDS UsbDfu, TLAPS

Fl == [read: Nat, prog: Nat, erase: Nat, end: Nat,
       ofs: Nat, len: 0 .. Sector, op: {"idle", "erase", "program"}]

FlashType ==
  /\ alt \in Alt
  /\ fl \in Fl
  /\ fl.ofs <= fl.len
  /\ xfer \in [len: 0 .. Sector, got: Nat]

\* Where the driver's addresses are in the zone it selected.  A session that
\* was cut off leaves an operation of at most a sector behind; only one that
\* has a transfer or waits for the flash relies on what it erased.
FlashInv ==
  /\ host.phase \in {"reset", "idle", "data", "wait", "ended", "gone"}
  /\ xfer # NoXfer => host.phase = "data"
  /\ fl.read <= fl.end
  /\ \/ host.img = 0 /\ fl.op = "idle" /\ host.phase = "reset"
     \/ /\ fl.end = Zone[alt].end
        /\ Zone[alt].start <= fl.prog /\ fl.prog <= fl.erase /\ fl.erase <= fl.end
        /\ Aligned(fl.erase)
        /\ fl.op # "idle" => fl.prog + fl.len <= fl.end
        /\ fl.op = "program" /\ (state = "dfuDNLOAD_SYNC" \/ xfer # NoXfer) =>
             fl.prog + fl.len <= fl.erase

Host == [phase: Phase, img: 0 .. MaxImage, sent: Nat, good: Nat, lost: BOOLEAN]

\* The types FlashType leaves out, and where UPLOAD reads.
DataType ==
  /\ state \in DfuState /\ status \in {"OK", "errUNKNOWN"}
  /\ armed \in BOOLEAN /\ busy \in BOOLEAN
  /\ buf \in [0 .. Sector - 1 -> Cell] /\ flash \in [Address -> Cell]
  /\ xfer.got <= xfer.len
  /\ host \in Host
  /\ host.img = 0 => host.phase = "reset" /\ host.good = 0
  /\ host.phase # "reset" => Zone[alt].start <= fl.read

\* From Fresh up to fl.erase the flash is erased.  A block that was begun and
\* not finished keeps a session from going on, unless nothing is erased for it.
Fresh == IF fl.op = "program" THEN fl.prog + fl.ofs ELSE fl.prog
Unfinished == fl.op = "program" /\ fl.ofs > 0 /\ fl.erase # fl.prog
EraseInv ==
  /\ host.phase \in {"idle", "data"} => state # "dfuDNLOAD_SYNC"
  /\ Unfinished => host.phase \notin {"idle", "data"} /\ state # "dfuDNLOAD_IDLE"
  /\ fl.op = "erase" => fl.ofs = 0
  /\ \A a \in Address : Fresh <= a /\ a < fl.erase => flash[a].kind = "erased"
  /\ ErasedFirst
  /\ \A i \in 0 .. Sector - 1 : buf[i].kind # "mixed"

\* How much of the image is in the flash, and of the block in the buffer.
Start == Zone[alt].start
Programmed(n) == \A p \in 0 .. n - 1 : flash[Start + p] = Data(host.img, p)
Filled(n) == \A i \in 0 .. n - 1 : buf[i] = Data(host.img, fl.prog - Start + i)
ImageInv ==
  ~host.lost /\ host.img # 0 =>
    /\ Start + host.good <= fl.prog /\ Programmed(host.good)
    /\ host.phase \in {"idle", "data"} =>
         host.sent = fl.prog - Start /\ Programmed(host.sent)
    /\ host.phase = "data" =>
         fl.op # "idle" /\ fl.ofs = 0 /\ xfer.len = fl.len /\ Filled(xfer.got)
    /\ host.phase = "wait" /\ fl.op = "idle" =>
         host.sent = fl.prog - Start /\ Programmed(host.sent)
    /\ host.phase = "wait" /\ fl.op # "idle" =>
         /\ state # "dfuDNLOAD_IDLE" /\ host.sent = fl.prog - Start + fl.len
         /\ Filled(fl.len) /\ Programmed(Fresh - Start)

-----------------------------------------------------------------------------
\* A sector that begins before an aligned address ends no later.
LEMMA NextSector ==
  ASSUME NEW a \in Nat, NEW b \in Nat, Aligned(a), Aligned(b), a < b
  PROVE  Aligned(a + Sector) /\ a + Sector <= b
<1>1. PICK k \in 0 .. a : a = k * Sector
  BY DEF Aligned
<1>2. PICK m \in 0 .. b : b = m * Sector
  BY DEF Aligned
<1>3. k + 1 <= m
  <2> SUFFICES ASSUME m <= k PROVE FALSE
    OBVIOUS
  <2>1. m * Sector <= k * Sector
    BY SectorAssumption, SMT
  <2> QED BY <2>1, <1>1, <1>2
<1>4. (k + 1) * Sector <= m * Sector
  BY <1>3, SectorAssumption, SMT
<1>5. a + Sector = (k + 1) * Sector
  BY <1>1, SectorAssumption, SMT
<1>6. k + 1 \in 0 .. a + Sector
  BY SectorAssumption
<1> QED BY <1>2, <1>4, <1>5, <1>6 DEF Aligned

\* A zone is made of sectors, so that it has room for one.
LEMMA ZoneFacts ==
  ASSUME NEW a \in Alt
  PROVE  /\ Zone[a].start \in Nat /\ Zone[a].end \in Nat
         /\ Aligned(Zone[a].start) /\ Aligned(Zone[a].end)
         /\ Zone[a].start + Sector <= Zone[a].end
BY ZoneAssumption, NextSector

\* What is written at once fits the page, and is part of the block.
LEMMA PageFacts ==
  ASSUME FlashType, fl.ofs # fl.len
  PROVE  PageLen \in Nat /\ fl.ofs + PageLen <= fl.len
<1> DEFINE at == fl.prog + fl.ofs
<1>1. at \in Nat
  BY DEF Fl, FlashType
<1>2. at % Page \in 0 .. Page - 1
  BY <1>1, PageAssumption
<1> HIDE DEF at
<1>3. PageLen = MinOf(fl.len - fl.ofs, Page - (at % Page))
  BY DEF PageLen, at
<1>4. fl.len - fl.ofs \in Nat /\ fl.ofs \in Nat /\ fl.len \in Nat
  BY SectorAssumption DEF Fl, FlashType
<1> QED BY <1>2, <1>3, <1>4, PageAssumption DEF MinOf

\* An assignment to one field of g_dfu.flash.
LEMMA FlTypes ==
  ASSUME NEW f \in Fl
  PROVE  /\ \A x \in Nat : /\ [f EXCEPT !.read = x] \in Fl /\ [f EXCEPT !.prog = x] \in Fl
                           /\ [f EXCEPT !.erase = x] \in Fl /\ [f EXCEPT !.end = x] \in Fl
                           /\ [f EXCEPT !.ofs = x] \in Fl
         /\ \A x \in 0 .. Sector : [f EXCEPT !.len = x] \in Fl
         /\ \A x \in {"idle", "erase", "program"} : [f EXCEPT !.op = x] \in Fl
BY DEF Fl

\* What the handlers that assign several fields make of g_dfu.flash.
Done(f, n) == [f EXCEPT !.op = "idle", !.prog = n]
PageDone(f, n) == [f EXCEPT !.op = "program", !.ofs = n]
Begun(f, n) == [f EXCEPT !.ofs = 0, !.len = n, !.op = "erase"]
Selected(f, s, e) == [f EXCEPT !.read = s, !.prog = s, !.erase = s, !.end = e]

\* Done(f, n), field by field.
LEMMA FlDone ==
  ASSUME NEW f \in Fl, NEW n \in Nat
  PROVE  /\ Done(f, n) \in Fl /\ Done(f, n).read = f.read
         /\ Done(f, n).prog = n /\ Done(f, n).erase = f.erase
         /\ Done(f, n).end = f.end /\ Done(f, n).ofs = f.ofs
         /\ Done(f, n).len = f.len /\ Done(f, n).op = "idle"
<1> DEFINE h == [f EXCEPT !.op = "idle"]
<1>1. Done(f, n) = [h EXCEPT !.prog = n]
  BY DEF Done
<1>2. /\ h \in Fl /\ h.read = f.read /\ h.prog = f.prog
      /\ h.erase = f.erase /\ h.end = f.end /\ h.ofs = f.ofs
      /\ h.len = f.len /\ h.op = "idle"
  BY FlTypes DEF Fl
<1> HIDE DEF h
<1>3. /\ Done(f, n) \in Fl /\ Done(f, n).read = h.read
      /\ Done(f, n).prog = n /\ Done(f, n).erase = h.erase
      /\ Done(f, n).end = h.end /\ Done(f, n).ofs = h.ofs
      /\ Done(f, n).len = h.len /\ Done(f, n).op = h.op
  BY <1>1, <1>2, FlTypes DEF Fl
<1> QED BY <1>2, <1>3

\* PageDone(f, n), field by field.
LEMMA FlPage ==
  ASSUME NEW f \in Fl, NEW n \in Nat
  PROVE  /\ PageDone(f, n) \in Fl /\ PageDone(f, n).read = f.read
         /\ PageDone(f, n).prog = f.prog /\ PageDone(f, n).erase = f.erase
         /\ PageDone(f, n).end = f.end /\ PageDone(f, n).ofs = n
         /\ PageDone(f, n).len = f.len /\ PageDone(f, n).op = "program"
<1> DEFINE h == [f EXCEPT !.op = "program"]
<1>1. PageDone(f, n) = [h EXCEPT !.ofs = n]
  BY DEF PageDone
<1>2. /\ h \in Fl /\ h.read = f.read /\ h.prog = f.prog
      /\ h.erase = f.erase /\ h.end = f.end /\ h.ofs = f.ofs
      /\ h.len = f.len /\ h.op = "program"
  BY FlTypes DEF Fl
<1> HIDE DEF h
<1>3. /\ PageDone(f, n) \in Fl /\ PageDone(f, n).read = h.read
      /\ PageDone(f, n).prog = h.prog /\ PageDone(f, n).erase = h.erase
      /\ PageDone(f, n).end = h.end /\ PageDone(f, n).ofs = n
      /\ PageDone(f, n).len = h.len /\ PageDone(f, n).op = h.op
  BY <1>1, <1>2, FlTypes DEF Fl
<1> QED BY <1>2, <1>3

\* Begun(f, n), field by field.
LEMMA FlDnload ==
  ASSUME NEW f \in Fl, NEW n \in 0 .. Sector
  PROVE  /\ Begun(f, n) \in Fl /\ Begun(f, n).read = f.read
         /\ Begun(f, n).prog = f.prog /\ Begun(f, n).erase = f.erase
         /\ Begun(f, n).end = f.end /\ Begun(f, n).ofs = 0
         /\ Begun(f, n).len = n /\ Begun(f, n).op = "erase"
<1> DEFINE h == [f EXCEPT !.ofs = 0]
           i == [h EXCEPT !.len = n]
<1>1. Begun(f, n) = [i EXCEPT !.op = "erase"]
  BY DEF Begun
<1>2. /\ h \in Fl /\ h.read = f.read /\ h.prog = f.prog
      /\ h.erase = f.erase /\ h.end = f.end /\ h.ofs = 0 /\ h.len = f.len
      /\ h.op = f.op
  BY FlTypes DEF Fl
<1> HIDE DEF h
<1>3. /\ i \in Fl /\ i.read = h.read /\ i.prog = h.prog
      /\ i.erase = h.erase /\ i.end = h.end /\ i.ofs = h.ofs /\ i.len = n
      /\ i.op = h.op
  BY <1>2, FlTypes DEF Fl
<1> HIDE DEF i
<1>4. /\ Begun(f, n) \in Fl /\ Begun(f, n).read = i.read
      /\ Begun(f, n).prog = i.prog /\ Begun(f, n).erase = i.erase
      /\ Begun(f, n).end = i.end /\ Begun(f, n).ofs = i.ofs
      /\ Begun(f, n).len = i.len /\ Begun(f, n).op = "erase"
  BY <1>1, <1>3, FlTypes DEF Fl
<1> QED BY <1>2, <1>3, <1>4

\* Selected(f, s, e), field by field.
LEMMA FlSelect ==
  ASSUME NEW f \in Fl, NEW s \in Nat, NEW e \in Nat
  PROVE  /\ Selected(f, s, e) \in Fl /\ Selected(f, s, e).read = s
         /\ Selected(f, s, e).prog = s /\ Selected(f, s, e).erase = s
         /\ Selected(f, s, e).end = e /\ Selected(f, s, e).ofs = f.ofs
         /\ Selected(f, s, e).len = f.len /\ Selected(f, s, e).op = f.op
<1> DEFINE h == [f EXCEPT !.read = s]
           i == [h EXCEPT !.prog = s]
           j == [i EXCEPT !.erase = s]
<1>1. Selected(f, s, e) = [j EXCEPT !.end = e]
  BY DEF Selected
<1>2. /\ h \in Fl /\ h.read = s /\ h.prog = f.prog /\ h.erase = f.erase
      /\ h.end = f.end /\ h.ofs = f.ofs /\ h.len = f.len /\ h.op = f.op
  BY FlTypes DEF Fl
<1> HIDE DEF h
<1>3. /\ i \in Fl /\ i.read = h.read /\ i.prog = s /\ i.erase = h.erase
      /\ i.end = h.end /\ i.ofs = h.ofs /\ i.len = h.len /\ i.op = h.op
  BY <1>2, FlTypes DEF Fl
<1> HIDE DEF i
<1>4. /\ j \in Fl /\ j.read = i.read /\ j.prog = i.prog /\ j.erase = s
      /\ j.end = i.end /\ j.ofs = i.ofs /\ j.len = i.len /\ j.op = i.op
  BY <1>3, FlTypes DEF Fl
<1> HIDE DEF j
<1>5. /\ Selected(f, s, e) \in Fl /\ Selected(f, s, e).read = j.read
      /\ Selected(f, s, e).prog = j.prog
      /\ Selected(f, s, e).erase = j.erase /\ Selected(f, s, e).end = e
      /\ Selected(f, s, e).ofs = j.ofs /\ Selected(f, s, e).len = j.len
      /\ Selected(f, s, e).op = j.op
  BY <1>1, <1>4, FlTypes DEF Fl
<1> QED BY <1>2, <1>3, <1>4, <1>5

\* dfu_init() leaves nothing for the flash to do.
LEMMA InitFlash == Init => FlashType /\ FlashInv
BY ZoneAssumption, SectorAssumption DEF Init, Fl, FlashType, FlashInv, NoXfer

-----------------------------------------------------------------------------
(* The ticks.                                                              *)

\* _dfu_tick() preserves the invariant.
LEMMA TickFlash ==
  ASSUME FlashType, FlashInv, Tick
  PROVE  FlashType' /\ FlashInv'
<1> USE DEF NoRequest, CanTick
<1>0. /\ fl.op # "idle"
      /\ fl.end = Zone[alt].end /\ fl.end \in Nat /\ Aligned(fl.end)
      /\ fl.prog \in Nat /\ fl.erase \in Nat /\ fl.len \in Nat /\ fl.ofs \in Nat
      /\ fl.read \in Nat /\ Zone[alt].start \in Nat
      /\ UNCHANGED <<alt, xfer, host>>
  BY ZoneFacts, SectorAssumption
     DEF Fl, FlashType, FlashInv, Tick, TickErase, TickErased, TickDone, TickPage, Programming
<1>1. CASE TickErase
  <2>1. fl.erase < fl.end
    BY <1>0, <1>1 DEF TickErase, EraseDone, FlashInv, Fl, FlashType
  <2>2. Aligned(fl.erase + Sector) /\ fl.erase + Sector <= fl.end
    BY <1>0, <2>1, NextSector DEF FlashInv
  <2>3. fl' = [fl EXCEPT !.erase = @ + Sector]
    BY <1>1 DEF TickErase
  <2>4. FlashType'
    BY <1>0, <2>3, SectorAssumption DEF Fl, FlashType
  <2>5. FlashInv'
    BY <1>0, <1>1, <2>2, <2>3, SectorAssumption DEF Fl, FlashType, FlashInv, TickErase
  <2> QED BY <2>4, <2>5
<1>2. CASE TickErased
  <2>1. fl' = [fl EXCEPT !.op = "program"] /\ UNCHANGED state
    BY <1>2 DEF TickErased
  <2>2. fl.op = "erase" => fl.prog + fl.len <= fl.erase
    BY <1>0, <1>2 DEF TickErased, Programming, EraseDone
  <2>3. FlashType'
    BY <1>0, <2>1 DEF Fl, FlashType
  <2>4. FlashInv'
    BY <1>0, <2>1, <2>2 DEF FlashInv, Fl, FlashType
  <2> QED BY <2>3, <2>4
<1>3. CASE TickDone
  <2>1. fl' = [fl EXCEPT !.op = "idle", !.prog = @ + fl.len]
    BY <1>3 DEF TickDone
  <2>2. fl.prog + fl.len <= fl.erase
    BY <1>0, <1>3 DEF TickDone, Programming, EraseDone, MayProgram, FlashInv, Fl, FlashType
  <2>3. /\ fl' \in Fl /\ fl'.op = "idle" /\ fl'.prog = fl.prog + fl.len
        /\ fl'.read = fl.read /\ fl'.erase = fl.erase /\ fl'.end = fl.end
        /\ fl'.ofs = fl.ofs /\ fl'.len = fl.len
    <3>1. fl' = Done(fl, fl.prog + fl.len)
      BY <2>1, <1>0 DEF Done, Fl, FlashType
    <3>2. fl \in Fl /\ fl.prog + fl.len \in Nat
      BY <1>0 DEF FlashType
    <3> QED BY <3>1, <3>2, FlDone
  <2>4. FlashType'
    BY <1>0, <2>3 DEF FlashType
  <2>5. /\ fl'.read <= fl'.end /\ fl'.end = Zone[alt'].end
        /\ Zone[alt'].start <= fl'.prog /\ fl'.prog <= fl'.erase /\ fl'.erase <= fl'.end
        /\ Aligned(fl'.erase)
    BY <1>0, <2>2, <2>3 DEF FlashInv
  <2>6. FlashInv'
    BY <1>0, <2>3, <2>5 DEF FlashInv
  <2> QED BY <2>4, <2>6
<1>4. CASE TickPage
  <2>1. fl' = [fl EXCEPT !.op = "program", !.ofs = @ + PageLen] /\ UNCHANGED state
    BY <1>4 DEF TickPage
  <2>2. PageLen \in Nat /\ fl.ofs + PageLen <= fl.len
    BY <1>4, PageFacts DEF TickPage, BlockDone
  <2>3. fl.prog + fl.len <= fl.erase
    BY <1>0, <1>4 DEF TickPage, Programming, EraseDone, MayProgram, FlashInv, Fl, FlashType
  <2>4. /\ fl' \in Fl /\ fl'.op = "program" /\ fl'.ofs = fl.ofs + PageLen
        /\ fl'.read = fl.read /\ fl'.prog = fl.prog /\ fl'.erase = fl.erase
        /\ fl'.end = fl.end /\ fl'.len = fl.len
    <3>1. fl' = PageDone(fl, fl.ofs + PageLen)
      BY <2>1, <1>0 DEF PageDone, Fl, FlashType
    <3>2. fl \in Fl /\ fl.ofs + PageLen \in Nat
      BY <1>0, <2>2 DEF FlashType
    <3> QED BY <3>1, <3>2, FlPage
  <2>5. FlashType'
    BY <1>0, <2>2, <2>4 DEF FlashType
  <2>6. FlashInv'
    BY <1>0, <2>1, <2>3, <2>4 DEF FlashInv
  <2> QED BY <2>5, <2>6
<1> QED BY <1>1, <1>2, <1>3, <1>4 DEF Tick

-----------------------------------------------------------------------------
(* The requests and the other callbacks.                                   *)

\* The requests of a download, and its data, preserve the invariant.
LEMMA DownloadFlash ==
  ASSUME FlashType, FlashInv, Download
  PROVE  FlashType' /\ FlashInv'
<1> USE DEF NoFlash, Ended, Sent, Requests
<1>1. ASSUME NEW len \in BlockLen, Dnload(len)
      PROVE  FlashType' /\ FlashInv'
  <2>1. len \in 1 .. Sector /\ Sector \in Nat
    BY BlockAssumption, SectorAssumption
  <2>2. /\ xfer' = [len |-> len, got |-> 0]
        /\ fl' = [fl EXCEPT !.ofs = 0, !.len = len, !.op = "erase"]
        /\ host' = [host EXCEPT !.phase = "data"]
        /\ UNCHANGED <<alt, state>> /\ host.phase = "idle"
        /\ fl.erase + len <= fl.end
    BY <1>1, <2>1, ZoneFacts DEF Dnload, Overflows, Fl, FlashType
  <2>3. /\ fl' \in Fl /\ fl'.op = "erase" /\ fl'.ofs = 0 /\ fl'.len = len
        /\ fl'.read = fl.read /\ fl'.prog = fl.prog /\ fl'.erase = fl.erase
        /\ fl'.end = fl.end
    <3>1. fl' = Begun(fl, len) /\ len \in 0 .. Sector /\ fl \in Fl
      BY <2>1, <2>2 DEF Begun, FlashType
    <3> QED BY <3>1, FlDnload
  <2>4. /\ fl.end = Zone[alt].end /\ Zone[alt].start <= fl.prog /\ fl.prog <= fl.erase
        /\ fl.erase <= fl.end /\ Aligned(fl.erase)
        /\ fl.prog \in Nat /\ fl.erase \in Nat /\ fl.end \in Nat
    BY <2>2 DEF FlashInv, Fl, FlashType
  <2>5. FlashType'
    BY <2>1, <2>2, <2>3 DEF FlashType
  <2>6. host'.phase = "data"
    BY <1>1 DEF Dnload
  <2>7. FlashInv'
    BY <2>1, <2>3, <2>4, <2>2, <2>6 DEF FlashInv
  <2> QED BY <2>5, <2>7
<1>2. ASSUME NEW len \in BlockLen, DnloadRefused(len)
      PROVE  FlashType' /\ FlashInv'
  BY <1>2, SectorAssumption DEF DnloadRefused, Refuse, Fl, FlashType, FlashInv, NoXfer
<1>3. CASE DnloadData
  BY <1>3, SectorAssumption DEF DnloadData, dfuVars, Fl, FlashType, FlashInv, NoXfer
<1>4. CASE DnloadDone
  BY <1>4, SectorAssumption DEF DnloadDone, Fl, FlashType, FlashInv, NoXfer
<1>5. CASE DoneLost
  BY <1>5, SectorAssumption DEF DoneLost, dfuVars, Fl, FlashType, FlashInv, NoXfer
<1>6. CASE DnloadEnd
  BY <1>6 DEF DnloadEnd, Fl, FlashType, FlashInv, NoXfer
<1>7. CASE GetStatus
  <2>1. xfer = NoXfer /\ UNCHANGED <<alt, fl, xfer>>
    BY <1>7 DEF GetStatus, FlashInv
  <2>2. host'.phase \in {"wait", "idle", "ended"}
    <3>1. UNCHANGED host \/ Accepted \/ Ended
      BY <1>7 DEF GetStatus
    <3>2. CASE UNCHANGED host
      BY <1>7, <3>2 DEF GetStatus
    <3>3. CASE Accepted
      BY <3>3 DEF Accepted, FlashInv
    <3>4. CASE Ended
      BY <3>4 DEF FlashInv
    <3> QED BY <3>1, <3>2, <3>3, <3>4
  <2>3. state' = "dfuDNLOAD_SYNC" => state = "dfuDNLOAD_SYNC"
    BY <1>7 DEF GetStatus, Reported
  <2>4. host.phase = "wait"
    BY <1>7 DEF GetStatus
  <2> QED BY <2>1, <2>2, <2>3, <2>4 DEF FlashType, FlashInv
<1> QED BY <1>1, <1>2, <1>3, <1>4, <1>5, <1>6, <1>7 DEF Download

\* So do the other requests.
LEMMA OtherFlash ==
  ASSUME FlashType, FlashInv, Other
  PROVE  FlashType' /\ FlashInv'
<1> USE SectorAssumption DEF NoFlash, Ended, Requests
<1>1. CASE Invalid
  BY <1>1 DEF Invalid, Refuse, Fl, FlashType, FlashInv, NoXfer
<1>2. CASE GiveUp
  BY <1>2 DEF GiveUp, dfuVars, Fl, FlashType, FlashInv, NoXfer
<1>3. CASE ClrStatus
  BY <1>3 DEF ClrStatus, Fl, FlashType, FlashInv, NoXfer
<1>4. CASE Abort
  BY <1>4 DEF Abort, Fl, FlashType, FlashInv, NoXfer
<1>5. CASE Detach
  BY <1>5 DEF Detach, dfuVars, Fl, FlashType, FlashInv, NoXfer
<1>6. ASSUME NEW len \in BlockLen, Upload(len)
      PROVE  FlashType' /\ FlashInv'
  <2> DEFINE n == MinOf(len, fl.end - fl.read)
  <2>1. n \in Nat /\ fl.read + n \in Nat /\ fl.read + n <= fl.end
    BY BlockAssumption DEF MinOf, Fl, FlashType, FlashInv
  <2>2. fl' = [fl EXCEPT !.read = fl.read + n] /\ UNCHANGED <<state, alt, xfer>>
    BY <1>6 DEF Upload
  <2>3. host'.phase = "ended" /\ host.phase \in {"idle", "ended"}
    BY <1>6 DEF Upload, FlashInv
  <2> HIDE DEF n
  <2>4. FlashType'
    BY <2>1, <2>2 DEF Fl, FlashType
  <2>5. FlashInv'
    BY <2>1, <2>2, <2>3 DEF Fl, FlashType, FlashInv
  <2> QED BY <2>4, <2>5
<1> QED BY <1>1, <1>2, <1>3, <1>4, <1>5, <1>6 DEF Other

\* So do the callbacks of the USB stack, which may find an operation unfinished.
LEMMA StackFlash ==
  ASSUME FlashType, FlashInv, Stack
  PROVE  FlashType' /\ FlashInv'
<1> USE SectorAssumption DEF NoFlash
<1>1. ASSUME NEW a \in Alt, Select(a), Session, state' = "dfuIDLE", xfer' = NoXfer
      PROVE  FlashType' /\ FlashInv'
  <2> DEFINE s == Zone[a].start
             e == Zone[a].end
  <2>1. s \in Nat /\ e \in Nat /\ Aligned(s) /\ s + Sector <= e
    BY ZoneFacts
  <2>2. alt' = a /\ fl' = Selected(fl, s, e)
    BY <1>1 DEF Select, Selected
  <2>3. e = Zone[alt'].end /\ s = Zone[alt'].start
    BY <2>2
  <2>4. fl \in Fl /\ fl.len \in 0 .. Sector /\ fl.ofs <= fl.len
    BY DEF Fl, FlashType
  <2>5. host'.phase = "idle"
    BY <1>1 DEF Session
  <2> HIDE DEF s, e
  <2>6. /\ fl' \in Fl /\ fl'.read = s /\ fl'.prog = s /\ fl'.erase = s /\ fl'.end = e
        /\ fl'.ofs = fl.ofs /\ fl'.len = fl.len /\ fl'.op = fl.op
    <3>1. fl \in Fl /\ s \in Nat /\ e \in Nat
      BY <2>1, <2>4
    <3>2. LET g == Selected(fl, s, e)
          IN  /\ g \in Fl /\ g.read = s /\ g.prog = s /\ g.erase = s /\ g.end = e
              /\ g.ofs = fl.ofs /\ g.len = fl.len /\ g.op = fl.op
      BY <3>1, FlSelect
    <3> QED BY <2>2, <3>2
  <2>7. FlashType'
    BY <1>1, <2>2, <2>4, <2>6 DEF FlashType, NoXfer
  <2>8. fl'.read <= fl'.end /\ fl'.prog + fl'.len <= fl'.end
    BY <2>1, <2>4, <2>6
  <2>9. fl'.op = "program" /\ (state' = "dfuDNLOAD_SYNC" \/ xfer' # NoXfer) =>
           fl'.prog + fl'.len <= fl'.erase
    BY <1>1
  <2> QED
    BY <1>1, <2>1, <2>3, <2>5, <2>6, <2>7, <2>8, <2>9 DEF FlashInv
<1>2. ASSUME NEW a \in Alt, SetIntf(a)
      PROVE  FlashType' /\ FlashInv'
  BY <1>1, <1>2 DEF SetIntf
<1>3. CASE SetConf
  BY <1>1, <1>3, ZoneAssumption DEF SetConf, FlashInv
<1>4. CASE Resume
  BY <1>4 DEF Resume, Fl, FlashType, FlashInv, NoXfer
<1>5. CASE BusReset
  BY <1>5 DEF BusReset, dfuVars, Fl, FlashType, FlashInv, NoXfer
<1> QED BY <1>2, <1>3, <1>4, <1>5 DEF Stack

\* Every step preserves the invariant.
LEMMA FlashStep ==
  ASSUME FlashType, FlashInv, [Next]_vars
  PROVE  FlashType' /\ FlashInv'
<1>1. CASE FlashReady
  BY <1>1 DEF FlashReady, dfuVars, Fl, FlashType, FlashInv, NoXfer
<1>2. CASE UNCHANGED vars
  BY <1>2 DEF vars, dfuVars, Fl, FlashType, FlashInv, NoXfer
<1> QED BY <1>1, <1>2, TickFlash, DownloadFlash, OtherFlash, StackFlash DEF Next

-----------------------------------------------------------------------------
\* _dfu_tick() and _dfu_ctrl_req(): whatever request comes while the flash is
\* at work, the addresses stay within the zone.
THEOREM FlashInductive == Spec => [](FlashType /\ FlashInv)
<1>1. FlashType /\ FlashInv /\ [Next]_vars => (FlashType /\ FlashInv)'
  BY FlashStep
<1> QED BY InitFlash, <1>1, PTL DEF Spec

\* What a tick erases or programs is of the zone.
LEMMA StepInZone ==
  ASSUME FlashType, FlashInv, [Next]_vars, NEW a \in Address, flash'[a] # flash[a]
  PROVE  a \in Zone[alt].start .. Zone[alt].end - 1
<1>1. TickErase \/ TickPage
  BY DEF Next, Tick, TickErased, TickDone, FlashReady, Download, Dnload, DnloadRefused,
         DnloadData, DnloadDone, DoneLost, DnloadEnd, GetStatus, Other, Invalid, Refuse,
         GiveUp, ClrStatus, Abort, Upload, Detach, Stack, SetConf, SetIntf, Resume,
         BusReset, NoFlash, vars
<1>2. /\ fl.op # "idle"
      /\ fl.end = Zone[alt].end /\ fl.end \in Nat /\ Aligned(fl.end)
      /\ fl.prog \in Nat /\ fl.erase \in Nat /\ fl.len \in Nat /\ fl.ofs \in Nat
      /\ Zone[alt].start \in Nat /\ Zone[alt].start <= fl.prog
      /\ fl.prog <= fl.erase /\ fl.prog + fl.len <= fl.end
  BY <1>1, ZoneFacts, SectorAssumption
     DEF Fl, FlashType, FlashInv, TickErase, TickPage, Programming, CanTick
<1>3. CASE TickErase
  <2>1. a \in fl.erase .. fl.erase + Sector - 1
    BY <1>3 DEF TickErase
  <2>2. fl.erase + Sector <= fl.end
    BY <1>2, <1>3, NextSector DEF TickErase, EraseDone, FlashInv
  <2> QED BY <1>2, <2>1, <2>2, SectorAssumption
<1>4. CASE TickPage
  <2>1. a \in fl.prog + fl.ofs .. fl.prog + fl.ofs + PageLen - 1
    BY <1>4 DEF TickPage
  <2>2. PageLen \in Nat /\ fl.ofs + PageLen <= fl.len
    BY <1>4, PageFacts DEF TickPage, BlockDone
  <2> QED BY <1>2, <2>1, <2>2
<1> QED BY <1>1, <1>3, <1>4

\* usb_dfu.c: no flash command leaves the zone that is selected, whichever way
\* a session was cut off, if blocks are no longer than a sector: a longer one
\* left by such a session could pass the end of a smaller zone.
THEOREM InZoneCorrect == Spec => InZone
<1>1. FlashType /\ FlashInv /\ [Next]_vars =>
        [\A a \in Address :
           flash'[a] # flash[a] => a \in Zone[alt].start .. Zone[alt].end - 1]_vars
  BY StepInZone
<1> QED BY FlashInductive, <1>1, PTL DEF Spec, InZone

-----------------------------------------------------------------------------
(* The contents of the flash.                                              *)

\* What is known of the flash, the buffer and the host.
ContentInv == FlashType /\ FlashInv /\ DataType /\ EraseInv /\ ImageInv

\* The addresses of a session, or of an operation that it left.
LEMMA Live ==
  ASSUME FlashType, FlashInv, host.img # 0 \/ host.phase # "reset" \/ fl.op # "idle"
  PROVE  /\ Start \in Nat /\ fl.prog \in Nat /\ fl.erase \in Nat /\ fl.end \in Nat
         /\ fl.ofs \in Nat /\ fl.len \in Nat /\ fl.read \in Nat /\ fl.len <= Sector
         /\ fl.end = Zone[alt].end /\ Start <= fl.prog /\ fl.prog <= fl.erase
         /\ fl.erase <= fl.end /\ fl.ofs <= fl.len
         /\ \A n \in Nat : Start <= n /\ n < fl.end => n \in Address
<1>1. /\ fl.prog \in Nat /\ fl.erase \in Nat /\ fl.end \in Nat
      /\ fl.ofs \in Nat /\ fl.len \in Nat /\ fl.read \in Nat /\ fl.len <= Sector
      /\ fl.ofs <= fl.len /\ alt \in Alt /\ Sector \in Nat
  BY SectorAssumption DEF FlashType, Fl
<1>2. /\ fl.end = Zone[alt].end /\ Zone[alt].start <= fl.prog /\ fl.prog <= fl.erase
      /\ fl.erase <= fl.end
  BY DEF FlashInv
<1>3. Zone[alt].start \in Nat /\ Zone[alt].end \in Nat
  BY <1>1, ZoneFacts
<1>4. ASSUME NEW n \in Nat, Zone[alt].start <= n, n < fl.end PROVE n \in Address
  <2>1. n \in Zone[alt].start .. Zone[alt].end - 1
    BY <1>2, <1>3, <1>4
  <2> QED BY <1>1, <2>1 DEF Address
<1> QED BY <1>1, <1>2, <1>3, <1>4 DEF Start

\* Addresses are numbers.
LEMMA AddressType == Address \subseteq Int
<1> SUFFICES ASSUME NEW a \in Alt PROVE Zone[a].start .. Zone[a].end - 1 \subseteq Int
  BY DEF Address
<1> QED OBVIOUS

\* What is programmed stays when it is not written.
LEMMA ProgrammedKept ==
  ASSUME FlashType, FlashInv, host.img # 0, NEW n \in Int, Start + n <= fl.end, Programmed(n),
         \A a \in Address : a < Start + n => flash'[a] = flash[a],
         alt' = alt, host'.img = host.img
  PROVE  Programmed(n)'
<1> SUFFICES ASSUME NEW p \in 0 .. n - 1
             PROVE  flash'[Start + p] = Data(host.img, p)
  BY DEF Programmed, Start
<1>1. Start + p \in Address /\ Start + p < Start + n
  BY Live
<1> QED BY <1>1 DEF Programmed

\* _dfu_tick() erases a sector.
LEMMA EraseContent ==
  ASSUME ContentInv, FlashType', FlashInv', TickErase
  PROVE  DataType' /\ EraseInv' /\ ImageInv'
<1>1. /\ fl.op = "erase" /\ busy' = TRUE
      /\ flash' = [a \in Address |->
                     IF a \in fl.erase .. fl.erase + Sector - 1 THEN NoData("erased")
                     ELSE flash[a]]
      /\ fl' = [fl EXCEPT !.erase = @ + Sector]
      /\ UNCHANGED <<state, armed, status, alt, buf, xfer, host>>
  BY DEF TickErase, CanTick, NoRequest
<1>2. /\ fl'.op = "erase" /\ fl'.ofs = fl.ofs /\ fl'.len = fl.len /\ fl'.prog = fl.prog
      /\ fl'.read = fl.read /\ fl'.erase = fl.erase + Sector /\ Sector \in Nat
  BY <1>1, SectorAssumption DEF ContentInv, FlashType, Fl
<1>3. NoData("erased") \in Cell /\ NoData("erased").kind = "erased"
  BY ImageAssumption DEF NoData, Cell
<1>4. \A a \in Address : /\ flash'[a] \in {flash[a], NoData("erased")}
                         /\ a < fl.erase => flash'[a] = flash[a]
                         /\ a >= fl.erase /\ a < fl.erase + Sector => flash'[a].kind = "erased"
  <2> SUFFICES ASSUME NEW a \in Address
               PROVE  /\ flash'[a] \in {flash[a], NoData("erased")}
                      /\ a < fl.erase => flash'[a] = flash[a]
                      /\ a >= fl.erase /\ a < fl.erase + Sector => flash'[a].kind = "erased"
    OBVIOUS
  <2>1. a \in Int /\ fl.erase \in Nat
    BY AddressType DEF ContentInv, FlashType, Fl
  <2> QED BY <1>1, <1>2, <1>3, <2>1
<1>5. DataType'
  <2>1. flash' \in [Address -> Cell]
    BY <1>1, <1>3 DEF ContentInv, DataType
  <2> QED BY <1>1, <1>2, <2>1 DEF ContentInv, DataType
<1>6. EraseInv'
  <2>1. ~Unfinished'
    BY <1>2 DEF Unfinished
  <2>2. Fresh' = fl.prog /\ Fresh = fl.prog
    BY <1>1, <1>2 DEF Fresh
  <2>3. ASSUME NEW a \in Address, Fresh' <= a, a < fl'.erase
        PROVE  flash'[a].kind = "erased"
    <3>1. a \in Int /\ fl.erase \in Nat
      BY AddressType DEF ContentInv, FlashType, Fl
    <3>2. CASE a < fl.erase
      BY <1>4, <2>2, <2>3, <3>2 DEF ContentInv, EraseInv
    <3>3. CASE a >= fl.erase
      BY <1>2, <1>4, <2>3, <3>3
    <3> QED BY <3>1, <3>2, <3>3
  <2>4. ErasedFirst'
    BY <1>3, <1>4 DEF ContentInv, EraseInv, ErasedFirst
  <2> QED BY <1>1, <1>2, <2>1, <2>3, <2>4 DEF ContentInv, EraseInv
<1>7. ImageInv'
  <2> SUFFICES ASSUME ~host.lost, host.img # 0
               PROVE  ImageInv'
    BY <1>1 DEF ImageInv
  <2>1. /\ Start \in Nat /\ fl.prog \in Nat /\ fl.erase \in Nat /\ fl.end \in Nat
        /\ fl.prog <= fl.erase /\ fl.erase <= fl.end
    BY Live DEF ContentInv
  <2>2. ASSUME NEW n \in Int, Start + n <= fl.prog, Programmed(n)
        PROVE  Programmed(n)'
    <3>1. \A a \in Address : a < Start + n => flash'[a] = flash[a]
      BY <1>4, <2>1, <2>2, AddressType
    <3> QED BY <1>1, <2>1, <2>2, <3>1, ProgrammedKept DEF ContentInv
  <2>3. Fresh' = fl.prog /\ Fresh = fl.prog /\ Start' = Start
    BY <1>1, <1>2 DEF Fresh, Start
  <2>4. \A n : Filled(n)' <=> Filled(n)
    BY <1>1, <1>2, <2>3 DEF Filled
  <2>5. host.sent \in Nat /\ host.good \in Nat
    BY DEF ContentInv, DataType, Host
  <2> QED BY <1>1, <1>2, <2>1, <2>2, <2>3, <2>4, <2>5 DEF ContentInv, ImageInv
<1> QED BY <1>5, <1>6, <1>7

\* What was to be erased is.
LEMMA ErasedContent ==
  ASSUME ContentInv, FlashType', FlashInv', TickErased
  PROVE  DataType' /\ EraseInv' /\ ImageInv'
<1>1. /\ fl' = [fl EXCEPT !.op = "program"] /\ fl.op # "idle"
      /\ UNCHANGED <<state, armed, flash, busy, status, alt, buf, xfer, host>>
  BY DEF TickErased, Programming, CanTick, NoRequest
<1>2. /\ fl'.op = "program" /\ fl'.ofs = fl.ofs /\ fl'.len = fl.len /\ fl'.prog = fl.prog
      /\ fl'.read = fl.read /\ fl'.erase = fl.erase /\ fl.op \in {"erase", "program"}
      /\ fl.prog \in Nat /\ fl.ofs \in Nat
  BY <1>1, SectorAssumption DEF ContentInv, FlashType, Fl
<1>3. Fresh' = Fresh /\ (Unfinished' => Unfinished)
  BY <1>2 DEF ContentInv, EraseInv, Fresh, Unfinished
<1>4. Start' = Start
  BY <1>1 DEF Start
<1>5. DataType'
  BY <1>1, <1>2 DEF ContentInv, DataType
<1>6. EraseInv'
  BY <1>1, <1>2, <1>3 DEF ContentInv, EraseInv, ErasedFirst
<1>7. ImageInv'
  <2>1. \A n : (Filled(n)' <=> Filled(n)) /\ (Programmed(n)' <=> Programmed(n))
    BY <1>1, <1>2, <1>4 DEF Filled, Programmed
  <2> QED BY <1>1, <1>2, <1>3, <1>4, <2>1 DEF ContentInv, ImageInv
<1> QED BY <1>5, <1>6, <1>7

\* A block is done.
LEMMA DoneContent ==
  ASSUME ContentInv, FlashType', FlashInv', TickDone
  PROVE  DataType' /\ EraseInv' /\ ImageInv'
<1>1. /\ fl' = [fl EXCEPT !.op = "idle", !.prog = @ + fl.len] /\ fl.op # "idle"
      /\ fl.ofs = fl.len /\ state = "dfuDNLOAD_SYNC" /\ state' = "dfuDNLOAD_IDLE"
      /\ armed' = TRUE /\ UNCHANGED <<flash, busy, status, alt, buf, xfer, host>>
  BY DEF TickDone, Programming, MayProgram, BlockDone, CanTick, NoRequest
<1>2. /\ fl.prog \in Nat /\ fl.ofs \in Nat /\ fl.len \in Nat /\ Start \in Nat /\ Start <= fl.prog
      /\ fl.erase \in Nat
  BY <1>1, Live DEF ContentInv
<1>3. /\ fl'.op = "idle" /\ fl'.ofs = fl.ofs /\ fl'.len = fl.len /\ fl'.prog = fl.prog + fl.len
      /\ fl'.read = fl.read /\ fl'.erase = fl.erase /\ fl.op \in {"erase", "program"}
  <2>1. fl' = Done(fl, fl.prog + fl.len) /\ fl \in Fl /\ fl.prog + fl.len \in Nat
    BY <1>1, <1>2 DEF Done, ContentInv, FlashType
  <2> QED BY <1>1, <2>1, FlDone DEF Fl
<1>4. Fresh' = fl.prog + fl.len /\ Fresh = fl.prog + fl.len /\ ~Unfinished' /\ Start' = Start
  BY <1>1, <1>2, <1>3 DEF ContentInv, EraseInv, Fresh, Unfinished, Start
<1>5. DataType'
  BY <1>1, <1>3 DEF ContentInv, DataType, DfuState
<1>6. EraseInv'
  BY <1>1, <1>3, <1>4 DEF ContentInv, EraseInv, ErasedFirst
<1>7. ImageInv'
  <2>1. \A n : Programmed(n)' <=> Programmed(n)
    BY <1>1, <1>4 DEF Programmed
  <2>2. host.phase \notin {"idle", "data"}
    BY <1>1 DEF ContentInv, EraseInv
  <2>3. host.good \in Nat /\ host.sent \in Nat
    BY DEF ContentInv, DataType, Host
  <2>4. fl'.prog - Start = Fresh - Start /\ fl'.prog - Start = fl.prog - Start + fl.len
    BY <1>2, <1>3, <1>4
  <2> QED BY <1>1, <1>2, <1>3, <1>4, <2>1, <2>2, <2>3, <2>4 DEF ContentInv, ImageInv
<1> QED BY <1>5, <1>6, <1>7

\* A part of a block is programmed, up to the end of a page.
LEMMA PageContent ==
  ASSUME ContentInv, FlashType', FlashInv', TickPage
  PROVE  DataType' /\ EraseInv' /\ ImageInv'
<1> DEFINE at == fl.prog + fl.ofs
           n == PageLen
<1>1. /\ flash' = [a \in Address |->
                    IF a \notin at .. at + n - 1 THEN flash[a]
                    ELSE IF flash[a].kind = "erased" THEN buf[a - fl.prog]
                    ELSE NoData("mixed")]
      /\ fl' = [fl EXCEPT !.op = "program", !.ofs = @ + n]
      /\ busy' = TRUE /\ fl.op # "idle" /\ state = "dfuDNLOAD_SYNC"
      /\ UNCHANGED <<state, armed, status, alt, buf, xfer, host>>
  BY DEF TickPage, Programming, MayProgram, CanTick, NoRequest
<1>2. /\ fl.prog \in Nat /\ fl.ofs \in Nat /\ fl.len \in Nat /\ Start \in Nat /\ Start <= fl.prog
      /\ fl.erase \in Nat /\ fl.len <= Sector /\ Sector \in Nat /\ fl.erase <= fl.end /\ fl.end \in Nat
  BY <1>1, Live, SectorAssumption DEF ContentInv
<1>3. n \in Nat /\ fl.ofs + n <= fl.len
  BY PageFacts DEF TickPage, BlockDone, ContentInv
<1>4. fl.prog + fl.len <= fl.erase
  <2>1. fl.op = "erase" => fl.erase >= fl.prog + fl.len
    BY DEF TickPage, Programming, EraseDone
  <2>2. fl.op = "program" => fl.prog + fl.len <= fl.erase
    BY <1>1 DEF ContentInv, FlashInv
  <2>3. fl.op \in {"erase", "program"}
    BY <1>1 DEF ContentInv, FlashType, Fl
  <2> QED BY <1>2, <2>1, <2>2, <2>3
<1> HIDE DEF n
<1>5. /\ fl'.op = "program" /\ fl'.ofs = fl.ofs + n /\ fl'.len = fl.len /\ fl'.prog = fl.prog
      /\ fl'.read = fl.read /\ fl'.erase = fl.erase
  <2>1. fl' = PageDone(fl, fl.ofs + n) /\ fl \in Fl /\ fl.ofs + n \in Nat
    BY <1>1, <1>2, <1>3 DEF PageDone, ContentInv, FlashType
  <2> QED BY <2>1, FlPage
<1>6. Fresh' = at + n /\ Fresh <= at /\ Start' = Start
  <2>1. Fresh' = at + n
    BY <1>2, <1>3, <1>5 DEF Fresh
  <2>2. Fresh <= at
    BY <1>2 DEF Fresh
  <2> QED BY <1>1, <2>1, <2>2 DEF Start
<1>7. \A a \in Address : /\ (a < at \/ a >= at + n) => flash'[a] = flash[a]
                         /\ a >= at /\ a < at + n => flash'[a] = buf[a - fl.prog]
                                                     /\ a - fl.prog \in 0 .. Sector - 1
  <2> SUFFICES ASSUME NEW a \in Address
               PROVE  /\ (a < at \/ a >= at + n) => flash'[a] = flash[a]
                      /\ a >= at /\ a < at + n => flash'[a] = buf[a - fl.prog]
                                                  /\ a - fl.prog \in 0 .. Sector - 1
    OBVIOUS
  <2>1. a \in Int /\ at \in Nat /\ (a \in at .. at + n - 1 <=> a >= at /\ a < at + n)
    BY <1>2, <1>3, AddressType
  <2>2. a >= at /\ a < at + n => flash[a].kind = "erased"
    <3>1. a >= at /\ a < at + n => Fresh <= a /\ a < fl.erase
      BY <1>2, <1>3, <1>4, <1>6, <2>1 DEF Fresh
    <3> QED BY <3>1 DEF ContentInv, EraseInv
  <2>3. a >= at /\ a < at + n => a - fl.prog \in 0 .. Sector - 1
    BY <1>2, <1>3, <2>1
  <2>4. flash'[a] = IF a \notin at .. at + n - 1 THEN flash[a]
                    ELSE IF flash[a].kind = "erased" THEN buf[a - fl.prog]
                    ELSE NoData("mixed")
    BY <1>1
  <2> HIDE DEF at
  <2>5. (a < at \/ a >= at + n) => flash'[a] = flash[a]
    BY <1>3, <2>1, <2>4
  <2>6. a >= at /\ a < at + n => flash'[a] = buf[a - fl.prog]
    BY <2>1, <2>2, <2>4
  <2> QED BY <2>3, <2>5, <2>6
<1> HIDE DEF at
<1>8. at = fl.prog + fl.ofs /\ at \in Nat
  BY <1>2 DEF at
<1>9. \A a \in Address : flash'[a] = flash[a]
                         \/ \E i \in 0 .. Sector - 1 : flash'[a] = buf[i]
  BY <1>3, <1>7, <1>8, AddressType
<1>10. DataType'
  <2>1. flash' = [a \in Address |-> flash'[a]]
    BY <1>1
  <2>2. \A a \in Address : flash'[a] \in Cell
    BY <1>9 DEF ContentInv, DataType
  <2>3. flash' \in [Address -> Cell]
    BY <2>1, <2>2
  <2> QED BY <1>1, <1>5, <2>3 DEF ContentInv, DataType
<1>11. EraseInv'
  <2>1. host.phase \notin {"idle", "data"}
    BY <1>1 DEF ContentInv, EraseInv
  <2>2. ASSUME NEW a \in Address, Fresh' <= a, a < fl'.erase
        PROVE  flash'[a].kind = "erased"
    <3>1. a \in Int /\ flash'[a] = flash[a] /\ Fresh <= a /\ a < fl.erase
      BY <1>2, <1>3, <1>5, <1>6, <1>7, <1>8, <2>2, AddressType DEF Fresh
    <3> QED BY <3>1 DEF ContentInv, EraseInv
  <2>3. ErasedFirst'
    BY <1>9 DEF ContentInv, EraseInv, ErasedFirst
  <2> QED BY <1>1, <1>5, <2>1, <2>2, <2>3 DEF ContentInv, EraseInv
<1>12. ImageInv'
  <2> SUFFICES ASSUME ~host.lost, host.img # 0 PROVE ImageInv'
    BY <1>1 DEF ImageInv
  <2>1. host.good \in Nat /\ host.phase \notin {"idle", "data"}
    BY <1>1 DEF ContentInv, DataType, Host, EraseInv
  <2>2. Start + host.good <= fl.prog /\ Programmed(host.good)
    BY DEF ContentInv, ImageInv
  <2>3. Programmed(host.good)'
    <3>1. \A a \in Address : a < Start + host.good => flash'[a] = flash[a]
      BY <1>2, <1>7, <1>8, <2>1, <2>2, AddressType
    <3>2. Programmed(host.good) /\ host'.good = host.good
      BY <1>1, <2>2
    <3> DEFINE g == host.good
    <3>3. g \in Int /\ Start + g <= fl.end /\ Programmed(g)
          /\ \A a \in Address : a < Start + g => flash'[a] = flash[a]
      BY <1>2, <2>1, <2>2, <3>1, Live DEF ContentInv
    <3>4. \A p \in 0 .. g - 1 : flash'[Start + p] = flash[Start + p]
      <4> SUFFICES ASSUME NEW p \in 0 .. g - 1 PROVE flash'[Start + p] = flash[Start + p]
        OBVIOUS
      <4>1. Start + p \in Nat /\ Start <= Start + p /\ Start + p < fl.end /\ Start + p < Start + g
        BY <1>2, <2>1, <3>3
      <4> QED BY <3>3, <4>1, Live DEF ContentInv
    <3> QED BY <1>1, <1>6, <2>1, <2>2, <3>4 DEF Programmed
  <2>4. ASSUME host.phase = "wait"
        PROVE  /\ host.sent = fl.prog - Start + fl.len /\ Filled(fl.len)'
               /\ Programmed(Fresh - Start)'
    <3>1. /\ host.sent = fl.prog - Start + fl.len /\ Filled(fl.len)
          /\ Programmed(Fresh - Start)
      BY <1>1, <2>4 DEF ContentInv, ImageInv
    <3>2. Filled(fl.len)'
      BY <1>1, <1>5, <1>6, <3>1 DEF Filled
    <3>3. Fresh = at
      BY <1>1, <1>8 DEF ContentInv, EraseInv, Fresh, FlashType, Fl
    <3>4. ASSUME NEW p \in 0 .. (at + n - Start) - 1
          PROVE  flash'[Start + p] = Data(host.img, p)
      <4>1. Start + p \in Nat /\ Start + p \in Address /\ p \in Int
        <5>1. Start + p \in Nat /\ Start <= Start + p /\ Start + p < fl.end
          BY <1>2, <1>3, <1>4, <1>8
        <5> QED BY <5>1, Live DEF ContentInv
      <4>2. CASE Start + p < at
        <5>1. flash'[Start + p] = flash[Start + p]
          BY <1>7, <4>1, <4>2
        <5>2. p \in 0 .. (Fresh - Start) - 1
          BY <1>2, <1>8, <3>3, <4>2
        <5> QED BY <3>1, <5>1, <5>2 DEF Programmed
      <4>3. CASE Start + p >= at
        <5> DEFINE i == Start + p - fl.prog
        <5>1. flash'[Start + p] = buf[i]
          BY <1>2, <1>3, <1>7, <1>8, <4>1, <4>3
        <5>2. i \in 0 .. fl.len - 1 /\ fl.prog - Start + i = p
          BY <1>2, <1>3, <1>8, <4>1, <4>3
        <5> HIDE DEF i
        <5>3. buf[i] = Data(host.img, p)
          BY <3>1, <5>2 DEF Filled
        <5> QED BY <5>1, <5>3
      <4> QED BY <1>2, <1>8, <4>1, <4>2, <4>3
    <3>5. Programmed(Fresh - Start)'
      <4> SUFFICES ASSUME NEW p \in 0 .. (Fresh' - Start') - 1
                   PROVE  flash'[Start' + p] = Data(host'.img, p)
        BY DEF Programmed
      <4>1. Fresh' \in Int /\ Start' \in Int /\ at \in Int /\ n \in Int
        BY <1>2, <1>3, <1>6, <1>8
      <4>2. p \in 0 .. (at + n - Start) - 1
        BY <1>6, <4>1
      <4> QED BY <1>1, <1>6, <3>4, <4>2
    <3> QED BY <3>1, <3>2, <3>5
  <2> QED BY <1>1, <1>5, <1>6, <2>1, <2>2, <2>3, <2>4 DEF ImageInv
<1> QED BY <1>10, <1>11, <1>12

\* _dfu_tick() keeps what is known of the contents.
LEMMA TickContent ==
  ASSUME ContentInv, FlashType', FlashInv', Tick
  PROVE  DataType' /\ EraseInv' /\ ImageInv'
BY EraseContent, ErasedContent, DoneContent, PageContent DEF Tick

\* An assignment to fields of the host's record.
LEMMA HostTypes ==
  ASSUME NEW h \in Host
  PROVE  /\ \A x \in Phase :
              LET g == [h EXCEPT !.phase = x]
              IN  /\ g \in Host /\ g.phase = x /\ g.img = h.img /\ g.sent = h.sent
                  /\ g.good = h.good /\ g.lost = h.lost
         /\ \A x \in Nat :
              LET g == [h EXCEPT !.sent = x]
              IN  /\ g \in Host /\ g.phase = h.phase /\ g.img = h.img /\ g.sent = x
                  /\ g.good = h.good /\ g.lost = h.lost
         /\ \A x \in Nat :
              LET g == [h EXCEPT !.good = x]
              IN  /\ g \in Host /\ g.phase = h.phase /\ g.img = h.img /\ g.sent = h.sent
                  /\ g.good = x /\ g.lost = h.lost
         /\ LET g == [h EXCEPT !.lost = TRUE]
            IN  /\ g \in Host /\ g.phase = h.phase /\ g.img = h.img /\ g.sent = h.sent
                /\ g.good = h.good /\ g.lost = TRUE
BY DEF Host

\* A step that leaves the flash and what is known of the image.
LEMMA SameImage ==
  ASSUME UNCHANGED <<alt, flash>>, host'.img = host.img
  PROVE  Start' = Start /\ \A n : Programmed(n)' <=> Programmed(n)
<1>1. Start' = Start
  BY DEF Start
<1> QED BY <1>1 DEF Programmed

\* A session that ends, or is cut off, keeps what was programmed.
LEMMA Ending ==
  ASSUME ContentInv, FlashType', FlashInv', UNCHANGED <<alt, flash>>,
         fl'.prog = fl.prog, fl'.erase = fl.erase, fl'.ofs = fl.ofs, fl'.op = fl.op,
         fl.read <= fl'.read,
         host' \in Host, host'.phase \in {"ended", "gone", "reset"}, host.phase # "reset",
         host'.img = host.img, host'.good = host.good, host'.lost = host.lost,
         state' \in DfuState, state' = state \/ state' # "dfuDNLOAD_IDLE",
         status' \in {"OK", "errUNKNOWN"}, armed' = armed, busy' = busy,
         buf' \in [0 .. Sector - 1 -> Cell], \A i \in 0 .. Sector - 1 : buf'[i].kind # "mixed",
         xfer'.got <= xfer'.len
  PROVE  DataType' /\ EraseInv' /\ ImageInv'
<1>1. DataType'
  <2>1. Zone[alt].start <= fl'.read
    <3>1. alt \in Alt /\ fl.read \in Nat /\ fl'.read \in Nat
      BY DEF ContentInv, FlashType, Fl
    <3>2. Zone[alt].start \in Nat
      BY <3>1, ZoneFacts
    <3> QED BY <3>1, <3>2 DEF ContentInv, DataType
  <2>2. host'.img # 0
    BY DEF ContentInv, DataType
  <2>3. flash' \in [Address -> Cell] /\ armed' \in BOOLEAN /\ busy' \in BOOLEAN
    BY DEF ContentInv, DataType
  <2> QED BY <2>1, <2>2, <2>3 DEF DataType
<1>2. EraseInv'
  <2>1. (Unfinished' => Unfinished) /\ Fresh' = Fresh
    BY DEF Unfinished, Fresh
  <2>2. ErasedFirst'
    BY DEF ContentInv, EraseInv, ErasedFirst
  <2>3. \A a \in Address : Fresh' <= a /\ a < fl'.erase => flash'[a].kind = "erased"
    BY <2>1 DEF ContentInv, EraseInv
  <2>4. Unfinished' => state' # "dfuDNLOAD_IDLE"
    BY <2>1 DEF ContentInv, EraseInv
  <2> QED BY <2>2, <2>3, <2>4 DEF ContentInv, EraseInv
<1>3. ImageInv'
  BY SameImage DEF ContentInv, ImageInv
<1> QED BY <1>1, <1>2, <1>3

\* The states that Resume, CLRSTATUS and a busy GETSTATUS leave for.
LEMMA Restated ==
  ASSUME ContentInv, FlashType', FlashInv', UNCHANGED <<alt, armed, fl, buf, xfer, flash, host>>,
         state' \in {state, "dfuIDLE"}, status' \in {status, "OK"}, busy' \in BOOLEAN
  PROVE  DataType' /\ EraseInv' /\ ImageInv'
<1>1. DataType'
  BY DEF ContentInv, DataType, DfuState
<1>2. EraseInv'
  <2>1. (Unfinished' <=> Unfinished) /\ Fresh' = Fresh /\ (ErasedFirst' <=> ErasedFirst)
    BY DEF Unfinished, Fresh, ErasedFirst
  <2> QED BY <2>1 DEF ContentInv, EraseInv
<1>3. ImageInv'
  <2>1. Start' = Start /\ \A n : Programmed(n)' <=> Programmed(n)
    BY SameImage
  <2>2. \A n : Filled(n)' <=> Filled(n)
    BY <2>1 DEF Filled
  <2>3. Fresh' = Fresh
    BY DEF Fresh
  <2> QED BY <2>1, <2>2, <2>3 DEF ContentInv, ImageInv
<1> QED BY <1>1, <1>2, <1>3

\* A session begins with nothing sent, whatever the last one left to be done.
LEMMA SessionContent ==
  ASSUME ContentInv, FlashType', FlashInv', NEW a \in Alt, Select(a), Session,
         state' = "dfuIDLE", xfer' \in {xfer, NoXfer},
         UNCHANGED <<status, armed, buf, flash, busy>>
  PROVE  DataType' /\ EraseInv' /\ ImageInv'
<1>1. host' \in Host /\ host'.phase = "idle" /\ host'.img # 0 /\ host'.sent = 0 /\ host'.good = 0
  BY ImageAssumption DEF ContentInv, DataType, Host, Phase, Session
<1>2. Zone[a].start \in Nat /\ Zone[a].end \in Nat
  BY ZoneFacts
<1>3. /\ fl'.read = Zone[a].start /\ fl'.prog = Zone[a].start /\ fl'.erase = Zone[a].start
      /\ fl'.ofs = fl.ofs /\ fl'.op = fl.op /\ alt' = a /\ fl.ofs \in Nat
  <2>1. fl' = Selected(fl, Zone[a].start, Zone[a].end) /\ alt' = a
    BY DEF Select, Selected
  <2>2. fl \in Fl /\ fl.ofs \in Nat
    BY DEF ContentInv, FlashType, Fl
  <2> DEFINE s == Zone[a].start
             e == Zone[a].end
  <2>3. s \in Nat /\ e \in Nat
    BY <1>2
  <2>4. fl' = Selected(fl, s, e)
    BY <2>1
  <2> HIDE DEF s, e
  <2>5. LET g == Selected(fl, s, e)
        IN  g.read = s /\ g.prog = s /\ g.erase = s /\ g.ofs = fl.ofs /\ g.op = fl.op
    BY <2>2, <2>3, FlSelect
  <2> QED BY <2>1, <2>2, <2>4, <2>5 DEF s
<1>4. DataType'
  BY <1>1, <1>2, <1>3 DEF ContentInv, DataType, DfuState, NoXfer
<1>5. EraseInv'
  <2>1. ~Unfinished'
    BY <1>3 DEF Unfinished
  <2>2. ASSUME NEW b \in Address PROVE ~(Fresh' <= b /\ b < fl'.erase)
    <3>1. Fresh' \in Nat /\ Fresh' >= fl'.erase /\ fl'.erase \in Nat
      BY <1>2, <1>3 DEF Fresh
    <3> QED BY <2>2, <3>1, AddressType
  <2>3. ErasedFirst'
    BY DEF ContentInv, EraseInv, ErasedFirst
  <2> QED BY <1>1, <1>3, <2>1, <2>2, <2>3 DEF ContentInv, EraseInv
<1>6. ImageInv'
  <2>1. Start' = Zone[a].start
    BY <1>3 DEF Start
  <2>2. Programmed(0)'
    BY DEF Programmed
  <2> QED BY <1>1, <1>2, <1>3, <2>1, <2>2 DEF ImageInv
<1> QED BY <1>4, <1>5, <1>6

\* A request that begins a block.
LEMMA DnloadContent ==
  ASSUME ContentInv, FlashType', FlashInv', NEW len \in BlockLen, Dnload(len)
  PROVE  DataType' /\ EraseInv' /\ ImageInv'
<1>1. /\ xfer' = [len |-> len, got |-> 0] /\ host.phase = "idle"
      /\ fl' = [fl EXCEPT !.ofs = 0, !.len = len, !.op = "erase"]
      /\ host' = [host EXCEPT !.phase = "data"]
      /\ UNCHANGED <<state, status, alt, armed, buf, flash, busy>>
  BY DEF Dnload, NoFlash
<1>2. len \in 1 .. Sector /\ Sector \in Nat
  BY BlockAssumption, SectorAssumption
<1>3. /\ fl'.op = "erase" /\ fl'.ofs = 0 /\ fl'.len = len /\ fl'.read = fl.read
      /\ fl'.prog = fl.prog /\ fl'.erase = fl.erase
  <2>1. fl' = Begun(fl, len) /\ len \in 0 .. Sector /\ fl \in Fl
    BY <1>1, <1>2 DEF Begun, ContentInv, FlashType
  <2>2. LET g == Begun(fl, len)
        IN  /\ g.op = "erase" /\ g.ofs = 0 /\ g.len = len /\ g.read = fl.read
            /\ g.prog = fl.prog /\ g.erase = fl.erase
    BY <2>1, FlDnload
  <2> QED BY <2>1, <2>2
<1>4. /\ host' \in Host /\ host'.phase = "data" /\ host'.img = host.img
      /\ host'.sent = host.sent /\ host'.good = host.good /\ host'.lost = host.lost
  <2>1. host \in Host /\ "data" \in Phase
    BY DEF ContentInv, DataType, Phase
  <2> QED BY <1>1, <2>1, HostTypes
<1>5. /\ fl.prog \in Nat /\ fl.ofs \in Nat /\ fl.erase \in Nat
  BY <1>1, Live DEF ContentInv
<1>6. DataType'
  BY <1>1, <1>2, <1>3, <1>4 DEF ContentInv, DataType
<1>7. EraseInv'
  <2>1. ~Unfinished' /\ Fresh' = fl.prog
    BY <1>3 DEF Unfinished, Fresh
  <2>2. ~Unfinished
    BY <1>1 DEF ContentInv, EraseInv
  <2>3. Fresh = fl.prog \/ fl.erase = fl.prog
    BY <1>5, <2>2 DEF Unfinished, Fresh
  <2>4. \A a \in Address : fl.prog <= a /\ a < fl.erase => flash[a].kind = "erased"
    <3> SUFFICES ASSUME NEW a \in Address, fl.prog <= a, a < fl.erase
                 PROVE  flash[a].kind = "erased"
      OBVIOUS
    <3>1. a \in Int /\ Fresh = fl.prog
      BY <1>5, <2>3, AddressType
    <3> QED BY <3>1 DEF ContentInv, EraseInv
  <2>5. ErasedFirst'
    BY <1>1 DEF ContentInv, EraseInv, ErasedFirst
  <2> QED BY <1>1, <1>3, <2>1, <2>4, <2>5 DEF ContentInv, EraseInv
<1>8. ImageInv'
  <2>1. Start' = Start /\ \A n : Programmed(n)' <=> Programmed(n)
    BY <1>1, <1>4, SameImage
  <2>2. Filled(0)'
    BY DEF Filled
  <2> QED BY <1>1, <1>3, <1>4, <2>1, <2>2 DEF ContentInv, ImageInv
<1> QED BY <1>6, <1>7, <1>8

\* A packet of the data stage.
LEMMA DataContent ==
  ASSUME ContentInv, FlashType', FlashInv', DnloadData
  PROVE  DataType' /\ EraseInv' /\ ImageInv'
<1>1. /\ xfer.got < xfer.len /\ xfer' = [xfer EXCEPT !.got = @ + 1]
      /\ buf' = [buf EXCEPT ![xfer.got] = Data(host.img, host.sent + xfer.got)]
      /\ UNCHANGED <<state, status, alt, armed, fl, flash, busy, host>>
  BY DEF DnloadData, NoFlash, dfuVars
<1>2. /\ xfer.got \in 0 .. Sector - 1 /\ xfer'.got = xfer.got + 1 /\ xfer'.len = xfer.len
      /\ xfer.len \in Nat
  BY <1>1, SectorAssumption DEF ContentInv, FlashType
<1>3. host.phase = "data"
  BY <1>1 DEF ContentInv, FlashInv, NoXfer
<1>4. Data(host.img, host.sent + xfer.got) \in Cell
  BY <1>2 DEF ContentInv, DataType, Host, Data, Cell
<1>5. \A i \in 0 .. Sector - 1 :
        /\ i = xfer.got => buf'[i] = Data(host.img, host.sent + xfer.got)
        /\ i # xfer.got => buf'[i] = buf[i]
  BY <1>1 DEF ContentInv, DataType
<1>6. DataType'
  <2>1. buf' \in [0 .. Sector - 1 -> Cell]
    BY <1>1, <1>4 DEF ContentInv, DataType
  <2> QED BY <1>1, <1>2, <2>1 DEF ContentInv, DataType
<1>7. EraseInv'
  <2>1. (Unfinished' <=> Unfinished) /\ Fresh' = Fresh /\ (ErasedFirst' <=> ErasedFirst)
    BY <1>1 DEF Unfinished, Fresh, ErasedFirst
  <2>2. \A i \in 0 .. Sector - 1 : buf'[i].kind # "mixed"
    BY <1>5 DEF ContentInv, EraseInv, Data
  <2> QED BY <1>1, <2>1, <2>2 DEF ContentInv, EraseInv
<1>8. ImageInv'
  <2> SUFFICES ASSUME ~host.lost, host.img # 0 PROVE ImageInv'
    BY <1>1 DEF ImageInv
  <2>1. Start' = Start /\ \A n : Programmed(n)' <=> Programmed(n)
    BY <1>1, SameImage
  <2>2. /\ host.sent = fl.prog - Start /\ xfer.len = fl.len /\ Filled(xfer.got)
        /\ fl.prog \in Nat /\ Start \in Nat
    BY <1>3, Live DEF ContentInv, ImageInv
  <2>3. ASSUME NEW i \in 0 .. (xfer.got + 1) - 1
        PROVE  buf'[i] = Data(host.img, fl.prog - Start + i)
    <3>1. i \in 0 .. Sector - 1 /\ (i = xfer.got \/ i \in 0 .. xfer.got - 1)
      BY <1>2, SectorAssumption
    <3> QED BY <1>5, <2>2, <3>1 DEF Filled
  <2>4. Filled(xfer.got)'
    <3> SUFFICES ASSUME NEW i \in 0 .. xfer'.got - 1
                 PROVE  buf'[i] = Data(host'.img, fl'.prog - Start' + i)
      BY DEF Filled
    <3> QED BY <1>1, <1>2, <2>1, <2>3
  <2> QED BY <1>1, <1>2, <1>3, <2>1, <2>4 DEF ContentInv, ImageInv
<1> QED BY <1>6, <1>7, <1>8

\* The status packet is acknowledged, or the device misses that.
LEMMA SentContent ==
  ASSUME ContentInv, FlashType', FlashInv', DnloadDone \/ DoneLost
  PROVE  DataType' /\ EraseInv' /\ ImageInv'
<1>1. /\ xfer # NoXfer /\ xfer.got = xfer.len /\ xfer' = NoXfer
      /\ UNCHANGED <<status, alt, armed, fl, buf, flash, busy>>
      /\ state' \in {state, "dfuDNLOAD_SYNC"}
  BY DEF DnloadDone, DoneLost, NoFlash, dfuVars
<1>2. host.phase = "data" /\ xfer.len \in Nat
  BY <1>1, SectorAssumption DEF ContentInv, FlashInv, FlashType
<1>3. /\ host' \in Host /\ host'.phase = "wait" /\ host'.sent = host.sent + xfer.len
      /\ host'.img = host.img /\ host'.good = host.good
      /\ (host'.lost = host.lost /\ state' = "dfuDNLOAD_SYNC") \/ host'.lost
  <2>1. host \in Host /\ "wait" \in Phase /\ host.sent + xfer.len \in Nat
    BY <1>2 DEF ContentInv, DataType, Host, Phase
  <2> DEFINE g == [host EXCEPT !.phase = "wait"]
             h == [g EXCEPT !.sent = host.sent + xfer.len]
             k == [h EXCEPT !.lost = TRUE]
  <2>2. (host' = h /\ state' = "dfuDNLOAD_SYNC") \/ host' = k
    BY DEF DnloadDone, DoneLost, Sent
  <2>3. /\ g \in Host /\ g.phase = "wait" /\ g.img = host.img /\ g.sent = host.sent
        /\ g.good = host.good /\ g.lost = host.lost
    BY <2>1, HostTypes
  <2> HIDE DEF g
  <2>4. /\ h \in Host /\ h.phase = g.phase /\ h.img = g.img /\ h.sent = host.sent + xfer.len
        /\ h.good = g.good /\ h.lost = g.lost
    BY <2>1, <2>3, HostTypes
  <2> HIDE DEF h
  <2>5. /\ k \in Host /\ k.phase = h.phase /\ k.img = h.img /\ k.sent = h.sent
        /\ k.good = h.good /\ k.lost = TRUE
    BY <2>4, HostTypes
  <2> HIDE DEF k
  <2> QED BY <2>2, <2>3, <2>4, <2>5
<1>4. DataType'
  BY <1>1, <1>2, <1>3 DEF ContentInv, DataType, DfuState, NoXfer
<1>5. EraseInv'
  <2>1. (Unfinished' <=> Unfinished) /\ Fresh' = Fresh /\ (ErasedFirst' <=> ErasedFirst)
    BY <1>1 DEF Unfinished, Fresh, ErasedFirst
  <2> QED BY <1>1, <1>2, <1>3, <2>1 DEF ContentInv, EraseInv
<1>6. ImageInv'
  <2> SUFFICES ASSUME ~host'.lost, host'.img # 0 PROVE ImageInv'
    BY DEF ImageInv
  <2>1. Start' = Start /\ \A n : Programmed(n)' <=> Programmed(n)
    BY <1>1, <1>3, SameImage
  <2>2. \A n : Filled(n)' <=> Filled(n)
    BY <1>1, <1>3, <2>1 DEF Filled
  <2>3. /\ Start + host.good <= fl.prog /\ Programmed(host.good)
        /\ host.sent = fl.prog - Start /\ Programmed(host.sent)
        /\ fl.op # "idle" /\ fl.ofs = 0 /\ xfer.len = fl.len /\ Filled(fl.len)
    BY <1>1, <1>2, <1>3 DEF ContentInv, ImageInv
  <2>4. Fresh = fl.prog /\ Fresh' = Fresh
    <3>1. fl.prog \in Nat
      BY DEF ContentInv, FlashType, Fl
    <3> QED BY <1>1, <2>3, <3>1 DEF Fresh
  <2> QED BY <1>1, <1>3, <2>1, <2>2, <2>3, <2>4 DEF ImageInv
<1> QED BY <1>4, <1>5, <1>6

\* GETSTATUS: busy, done or refused.
LEMMA StatusContent ==
  ASSUME ContentInv, FlashType', FlashInv', GetStatus
  PROVE  DataType' /\ EraseInv' /\ ImageInv'
<1>1. host.phase = "wait" /\ UNCHANGED <<status, alt, armed, fl, buf, xfer, flash, busy>>
  BY DEF GetStatus, NoFlash
<1>2. CASE Reported = "dfuDNBUSY" /\ UNCHANGED <<state, host>>
  BY <1>1, <1>2, Restated DEF ContentInv, DataType
<1>3. CASE /\ Reported \notin {"dfuDNBUSY", "dfuDNLOAD_IDLE"}
           /\ state' = Reported /\ Ended
  <2>1. state' = state
    BY <1>3 DEF Reported
  <2>2. /\ host' \in Host /\ host'.phase = "ended" /\ host'.img = host.img
        /\ host'.good = host.good /\ host'.lost = host.lost
    <3>1. host \in Host /\ "ended" \in Phase
      BY DEF ContentInv, DataType, Phase
    <3> QED BY <1>3, <3>1, HostTypes DEF Ended
  <2>3. fl.read \in Nat
    BY DEF ContentInv, FlashType, Fl
  <2> QED BY <1>1, <2>1, <2>2, <2>3, Ending DEF ContentInv, DataType, EraseInv
<1>4. CASE Reported = "dfuDNLOAD_IDLE" /\ state' = Reported /\ Accepted
  <2>1. /\ host' \in Host /\ host'.phase = "idle" /\ host'.img = host.img
        /\ host'.sent = host.sent /\ host'.good = host.sent /\ host'.lost = host.lost
    <3> DEFINE g == [host EXCEPT !.phase = "idle"]
    <3>1. host \in Host /\ "idle" \in Phase /\ host.sent \in Nat
      BY DEF ContentInv, DataType, Host, Phase
    <3>2. host' = [g EXCEPT !.good = host.sent]
      BY <1>4 DEF Accepted
    <3>3. /\ g \in Host /\ g.phase = "idle" /\ g.img = host.img /\ g.sent = host.sent
          /\ g.good = host.good /\ g.lost = host.lost
      BY <3>1, HostTypes
    <3> HIDE DEF g
    <3> QED BY <3>1, <3>2, <3>3, HostTypes
  <2>2. state = "dfuDNLOAD_IDLE" \/ fl.op = "idle"
    BY <1>4 DEF Reported
  <2>3. ~Unfinished
    BY <2>2 DEF ContentInv, EraseInv, Unfinished
  <2>4. DataType'
    BY <1>1, <1>4, <2>1 DEF ContentInv, DataType, DfuState
  <2>5. EraseInv'
    <3>1. (Unfinished' <=> Unfinished) /\ Fresh' = Fresh /\ (ErasedFirst' <=> ErasedFirst)
      BY <1>1 DEF Unfinished, Fresh, ErasedFirst
    <3> QED BY <1>1, <1>4, <2>3, <3>1 DEF ContentInv, EraseInv
  <2>6. ImageInv'
    <3> SUFFICES ASSUME ~host.lost, host.img # 0 PROVE ImageInv'
      BY <2>1 DEF ImageInv
    <3>1. Start' = Start /\ \A n : Programmed(n)' <=> Programmed(n)
      BY <1>1, <2>1, SameImage
    <3>2. fl.op = "idle"
      BY <1>1, <2>2 DEF ContentInv, ImageInv
    <3>3. host.sent = fl.prog - Start /\ Programmed(host.sent)
      BY <1>1, <3>2 DEF ContentInv, ImageInv
    <3>4. fl.prog \in Nat /\ Start \in Nat
      BY Live DEF ContentInv
    <3> QED BY <1>1, <2>1, <3>1, <3>3, <3>4 DEF ImageInv
  <2> QED BY <2>4, <2>5, <2>6
<1> QED BY <1>2, <1>3, <1>4 DEF GetStatus

\* The requests that end a session, by the host's choice or an error, and what
\* the other requests of a download leave.
LEMMA EndedContent ==
  ASSUME ContentInv, FlashType', FlashInv',
         Ended \/ host' = [host EXCEPT !.phase = "gone"], host.phase # "reset",
         state' \in {state, "dfuIDLE", "dfuERROR"}, status' \in {status, "errUNKNOWN"},
         xfer' \in {xfer, NoXfer}, UNCHANGED <<alt, armed, fl, buf, flash, busy>>
  PROVE  DataType' /\ EraseInv' /\ ImageInv'
<1>1. /\ host' \in Host /\ host'.phase \in {"ended", "gone"} /\ host'.img = host.img
      /\ host'.good = host.good /\ host'.lost = host.lost
  <2>1. host \in Host
    BY DEF ContentInv, DataType
  <2>2. PICK x \in {"ended", "gone"} : host' = [host EXCEPT !.phase = x]
    BY DEF Ended
  <2>3. x \in Phase
    BY DEF Phase
  <2>4. LET g == [host EXCEPT !.phase = x]
        IN  /\ g \in Host /\ g.phase = x /\ g.img = host.img
            /\ g.good = host.good /\ g.lost = host.lost
    BY <2>1, <2>3, HostTypes
  <2> QED BY <2>2, <2>4
<1>2. fl.read \in Nat
  BY DEF ContentInv, FlashType, Fl
<1>3. state' \in DfuState /\ status' \in {"OK", "errUNKNOWN"} /\ xfer'.got <= xfer'.len
  BY DEF ContentInv, DataType, DfuState, NoXfer
<1> QED BY <1>1, <1>2, <1>3, Ending DEF ContentInv, DataType, EraseInv

\* The requests of a download, and its data, keep what is known.
LEMMA DownloadContent ==
  ASSUME ContentInv, FlashType', FlashInv', Download
  PROVE  DataType' /\ EraseInv' /\ ImageInv'
<1>1. ASSUME NEW len \in BlockLen, DnloadRefused(len)
      PROVE  DataType' /\ EraseInv' /\ ImageInv'
  BY <1>1, EndedContent DEF DnloadRefused, Refuse, NoFlash
<1>2. CASE DnloadEnd
  BY <1>2, EndedContent DEF DnloadEnd, Requests, NoFlash
<1> QED BY <1>1, <1>2, DnloadContent, DataContent, SentContent, StatusContent DEF Download

\* UPLOAD copies the flash to the buffer.
LEMMA UploadContent ==
  ASSUME ContentInv, FlashType', FlashInv', NEW len \in BlockLen, Upload(len)
  PROVE  DataType' /\ EraseInv' /\ ImageInv'
<1> DEFINE n == MinOf(len, fl.end - fl.read)
<1>1. /\ host.phase \in {"idle", "ended"} /\ Ended
      /\ buf' = [i \in 0 .. Sector - 1 |-> IF i < n THEN flash[fl.read + i] ELSE buf[i]]
      /\ fl' = [fl EXCEPT !.read = @ + n]
      /\ UNCHANGED <<state, status, alt, armed, xfer, flash, busy>>
  BY DEF Upload, NoFlash
<1>2. fl.read \in Nat /\ fl.end \in Nat /\ fl.read <= fl.end /\ Start <= fl.read /\ Start \in Nat
  BY <1>1, Live DEF ContentInv, FlashInv, DataType, Start
<1>3. len \in Nat
  BY BlockAssumption, SectorAssumption
<1>4. n \in Nat /\ fl.read + n <= fl.end
  BY <1>2, <1>3 DEF MinOf
<1> HIDE DEF n
<1>5. \A i \in 0 .. Sector - 1 : i < n => fl.read + i \in Address
  <2> SUFFICES ASSUME NEW i \in 0 .. Sector - 1, i < n PROVE fl.read + i \in Address
    OBVIOUS
  <2>1. fl.read + i \in Nat /\ Start <= fl.read + i /\ fl.read + i < fl.end
    BY <1>2, <1>4, SectorAssumption
  <2> QED BY <1>1, <2>1, Live DEF ContentInv
<1>6. buf' \in [0 .. Sector - 1 -> Cell] /\ \A i \in 0 .. Sector - 1 : buf'[i].kind # "mixed"
  <2>1. \A a \in Address : flash[a] \in Cell /\ flash[a].kind # "mixed"
    BY DEF ContentInv, DataType, EraseInv, ErasedFirst
  <2>2. \A i \in 0 .. Sector - 1 : buf[i] \in Cell /\ buf[i].kind # "mixed"
    BY DEF ContentInv, DataType, EraseInv
  <2>3. \A i \in 0 .. Sector - 1 : buf'[i] \in Cell /\ buf'[i].kind # "mixed"
    <3> SUFFICES ASSUME NEW i \in 0 .. Sector - 1 PROVE buf'[i] \in Cell /\ buf'[i].kind # "mixed"
      OBVIOUS
    <3>1. buf'[i] = IF i < n THEN flash[fl.read + i] ELSE buf[i]
      BY <1>1
    <3> QED BY <1>5, <2>1, <2>2, <3>1
  <2> QED BY <1>1, <2>3
<1>7. /\ fl'.prog = fl.prog /\ fl'.erase = fl.erase /\ fl'.ofs = fl.ofs /\ fl'.op = fl.op
      /\ fl.read <= fl'.read
  BY <1>1, <1>2, <1>4 DEF ContentInv, FlashType, Fl
<1>8. /\ host' \in Host /\ host'.phase = "ended" /\ host'.img = host.img
      /\ host'.good = host.good /\ host'.lost = host.lost
  <2>1. host \in Host /\ "ended" \in Phase
    BY DEF ContentInv, DataType, Phase
  <2> QED BY <1>1, <2>1, HostTypes DEF Ended
<1> QED BY <1>1, <1>6, <1>7, <1>8, Ending DEF ContentInv, DataType

\* The other requests keep what is known.
LEMMA OtherContent ==
  ASSUME ContentInv, FlashType', FlashInv', Other
  PROVE  DataType' /\ EraseInv' /\ ImageInv'
<1>1. CASE Invalid
  BY <1>1, EndedContent DEF Invalid, Refuse, NoFlash
<1>2. CASE GiveUp
  BY <1>2, EndedContent DEF GiveUp, Requests, NoFlash, dfuVars
<1>3. CASE ClrStatus
  BY <1>3, Restated DEF ClrStatus, NoFlash, ContentInv, DataType
<1>4. CASE Abort
  BY <1>4, EndedContent DEF Abort, Requests, NoFlash
<1>5. CASE Detach
  BY <1>5, EndedContent DEF Detach, Requests, NoFlash, dfuVars
<1> QED BY <1>1, <1>2, <1>3, <1>4, <1>5, UploadContent DEF Other

\* The callbacks of the USB stack keep what is known.
LEMMA StackContent ==
  ASSUME ContentInv, FlashType', FlashInv', Stack
  PROVE  DataType' /\ EraseInv' /\ ImageInv'
<1>1. ASSUME NEW a \in Alt, SetIntf(a)
      PROVE  DataType' /\ EraseInv' /\ ImageInv'
  BY <1>1, SessionContent DEF SetIntf, NoFlash
<1>2. CASE SetConf
  BY <1>2, SessionContent, ZoneAssumption DEF SetConf, NoFlash
<1>3. CASE Resume
  BY <1>3, Restated DEF Resume, NoFlash, ContentInv, DataType
<1>4. CASE BusReset
  <2>1. /\ xfer' = NoXfer /\ host.phase # "reset"
        /\ UNCHANGED <<dfuVars, buf, flash, busy>>
        /\ host' = [host EXCEPT !.phase = IF armed THEN "gone" ELSE "reset"]
    BY <1>4 DEF BusReset, NoFlash
  <2>2. /\ host' \in Host /\ host'.phase \in {"gone", "reset"} /\ host'.img = host.img
        /\ host'.good = host.good /\ host'.lost = host.lost
    <3> DEFINE x == IF armed THEN "gone" ELSE "reset"
    <3>1. host \in Host /\ x \in Phase /\ x \in {"gone", "reset"}
      BY DEF ContentInv, DataType, Phase
    <3>2. host' = [host EXCEPT !.phase = x]
      BY <2>1
    <3> HIDE DEF x
    <3> QED BY <3>1, <3>2, HostTypes
  <2>3. fl.read \in Nat
    BY DEF ContentInv, FlashType, Fl
  <2> QED BY <2>1, <2>2, <2>3, Ending DEF ContentInv, DataType, EraseInv, NoXfer, dfuVars
<1> QED BY <1>1, <1>2, <1>3, <1>4 DEF Stack

\* dfu_init() finds the flash as it was delivered.
LEMMA InitContent == Init => DataType /\ EraseInv /\ ImageInv
<1> SUFFICES ASSUME Init PROVE DataType /\ EraseInv /\ ImageInv
  OBVIOUS
<1>1. DataType
  <2>1. NoData("old") \in Cell
    BY ImageAssumption DEF NoData, Cell
  <2>2. buf \in [0 .. Sector - 1 -> Cell] /\ flash \in [Address -> Cell]
    BY <2>1 DEF Init
  <2>3. host \in Host /\ host.img = 0 /\ host.good = 0 /\ host.phase = "reset"
    BY ImageAssumption DEF Init, Host, Phase
  <2>4. state \in DfuState /\ status \in {"OK", "errUNKNOWN"} /\ xfer.got <= xfer.len
    BY DEF Init, DfuState, NoXfer
  <2>5. armed \in BOOLEAN /\ busy \in BOOLEAN
    BY DEF Init
  <2> QED BY <2>2, <2>3, <2>4, <2>5 DEF DataType
<1>2. EraseInv
  <2>1. NoData("old").kind # "mixed"
    BY DEF NoData
  <2>2. ErasedFirst
    BY <2>1 DEF Init, ErasedFirst
  <2>3. ASSUME NEW a \in Address PROVE ~(Fresh <= a /\ a < fl.erase)
    BY AddressType DEF Init, Fresh
  <2> QED BY <2>1, <2>2, <2>3 DEF Init, EraseInv, Unfinished
<1>3. ImageInv
  BY DEF Init, ImageInv
<1> QED BY <1>1, <1>2, <1>3

\* What is known of the flash, the buffer and the host holds throughout.
THEOREM ContentInductive == Spec => []ContentInv
<1>1. Init => ContentInv
  BY InitFlash, InitContent DEF ContentInv
<1>2. ContentInv /\ [Next]_vars => ContentInv'
  <2> SUFFICES ASSUME ContentInv, [Next]_vars, FlashType', FlashInv'
               PROVE  DataType' /\ EraseInv' /\ ImageInv'
    BY FlashStep DEF ContentInv
  <2>1. CASE FlashReady
    BY <2>1, Restated DEF FlashReady, dfuVars
  <2>2. CASE UNCHANGED vars
    BY <2>2, Restated DEF vars, dfuVars, ContentInv, DataType
  <2> QED BY <2>1, <2>2, TickContent, DownloadContent, OtherContent, StackContent DEF Next
<1> QED BY <1>1, <1>2, PTL DEF Spec

\* Every variable of g_dfu keeps its type: no address goes below zero.
\* That a block fits g_dfu.buf is not shown but assumed (BlockAssumption), since
\* usb_dfu.c:233-242 does not check it.
THEOREM TypeCorrect == Spec => []TypeOK
<1>1. ContentInv => TypeOK
  <2> SUFFICES ASSUME ContentInv PROVE TypeOK
    OBVIOUS
  <2>1. fl.ofs \in 0 .. Sector /\ fl.len \in 0 .. Sector
    BY SectorAssumption DEF ContentInv, FlashType, Fl
  <2>2. xfer \in [len: 0 .. Sector, got: 0 .. Sector]
    BY SectorAssumption DEF ContentInv, FlashType, DataType
  <2>3. fl \in [read: Nat, prog: Nat, erase: Nat, end: Nat,
                ofs: 0 .. Sector, len: 0 .. Sector, op: {"idle", "erase", "program"}]
    BY <2>1 DEF ContentInv, FlashType, Fl
  <2> QED BY <2>2, <2>3 DEF ContentInv, FlashType, DataType, Host, TypeOK
<1> QED BY ContentInductive, <1>1, PTL

\* _dfu_tick() programs nothing that was not erased before, whichever session
\* left an operation to be done.
THEOREM ErasedFirstCorrect == Spec => []ErasedFirst
<1>1. ContentInv => ErasedFirst
  BY DEF ContentInv, EraseInv
<1> QED BY ContentInductive, <1>1, PTL

\* What GETSTATUS reported done is in the flash, in its place.
THEOREM DeliveredCorrect == Spec => []Delivered
<1>1. ContentInv => Delivered
  <2> SUFFICES ASSUME ContentInv, ~host.lost, NEW p \in 0 .. host.good - 1
               PROVE  flash[Zone[alt].start + p] = Data(host.img, p)
    BY DEF Delivered
  <2>1. host.img # 0
    BY DEF ContentInv, DataType
  <2> QED BY <2>1 DEF ContentInv, ImageInv, Programmed, Start
<1> QED BY ContentInductive, <1>1, PTL
=============================================================================
