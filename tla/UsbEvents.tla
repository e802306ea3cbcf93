----------------------------- MODULE UsbEvents ------------------------------
(***************************************************************************)
(* The event FIFO of the core, rtl/usb.v for EVT_DEPTH > 1, one clock      *)
(* cycle per step: the transaction layer notifies an event (evt_stb), the  *)
(* bus reads the event register (evt_rd_ack), or both.                     *)
(***************************************************************************)
EXTENDS Integers, Sequences, TLAPS

CONSTANTS
  Depth,  \* EVT_DEPTH
  Entry   \* what an event says: the end point it is about

ASSUME DepthAssumption == Depth \in Nat /\ Depth > 1

VARIABLES
  entries,   \* of the FIFO
  overflow,  \* ef_overflow
  missed     \* an event was dropped and no read has told so since

fifoVars == <<entries, overflow, missed>>

EventPending == entries # <<>>
Full         == Len(entries) = Depth

\* Faulty: the flag only stays set.
Faulty_NextOverflow(stb, ack) == overflow /\ ~ack

NextOverflow(stb, ack) == (overflow /\ ~ack) \/ (stb /\ Full)

Written(stb, e) == IF stb /\ ~Full THEN Append(entries, e) ELSE entries

\* Faulty: an entry is written to a FIFO that is full.
Faulty_Cycle(stb, e, ack) ==
  /\ ack => EventPending
  /\ entries' = LET w == IF stb THEN Append(entries, e) ELSE entries
                IN IF ack THEN Tail(w) ELSE w
  /\ overflow' = NextOverflow(stb, ack)
  /\ missed' = missed

\* A read is acknowledged only when there is an entry (evt_rd_rdy).
Cycle(stb, e, ack) ==
  /\ ack => EventPending
  /\ entries' = IF ack THEN Tail(Written(stb, e)) ELSE Written(stb, e)
  /\ overflow' = NextOverflow(stb, ack)
  /\ missed' = \/ missed /\ ~(ack /\ overflow)
               \/ stb /\ Full

FifoInit == entries = <<>> /\ overflow = FALSE /\ missed = FALSE
FifoNext == \E stb, ack \in BOOLEAN, e \in Entry : Cycle(stb, e, ack)
FifoSpec == FifoInit /\ [][FifoNext]_fifoVars

\* A reader that reads until nothing is pending learns of every event: each is
\* either in the FIFO, or a read before that reports an overflow.
NoSilentDrop == missed => overflow /\ EventPending

FifoInv == /\ entries \in Seq(Entry)
           /\ Len(entries) <= Depth
           /\ overflow \in BOOLEAN
           /\ missed \in BOOLEAN
           /\ overflow => EventPending
           /\ missed => overflow

-----------------------------------------------------------------------------
\* The FIFO starts empty.
LEMMA FifoInitOK == FifoInit => FifoInv
<1>1. FifoInit => entries \in Seq(Entry) /\ Len(entries) <= Depth
  BY DepthAssumption DEF FifoInit
<1>2. QED BY <1>1, Zenon DEF FifoInit, FifoInv

\* One clock cycle keeps the FIFO and its flag together.
LEMMA CycleKeeps ==
  ASSUME FifoInv, NEW stb \in BOOLEAN, NEW ack \in BOOLEAN, NEW e \in Entry,
         Cycle(stb, e, ack)
  PROVE  FifoInv'
<1>1. /\ Written(stb, e) \in Seq(Entry)
      /\ Len(Written(stb, e)) <= Depth
      /\ EventPending => Written(stb, e) # <<>>
      /\ stb /\ Full => Len(Written(stb, e)) = Depth
  BY DepthAssumption DEF FifoInv, Written, Full, EventPending
<1>2. /\ entries' \in Seq(Entry)
      /\ Len(entries') <= Depth
  <2>1. CASE ack
    <3>1. Written(stb, e) # <<>> /\ entries' = Tail(Written(stb, e))
      BY <2>1, <1>1 DEF Cycle
    <3>2. QED BY <3>1, <1>1, DepthAssumption
  <2>2. CASE ~ack
    BY <2>2, <1>1 DEF Cycle
  <2>3. QED BY <2>1, <2>2
<1>3. overflow' \in BOOLEAN /\ missed' \in BOOLEAN
  BY DEF FifoInv, Cycle, NextOverflow
<1>4. overflow' => EventPending'
  <2>1. CASE stb /\ Full
    <3>1. Len(Written(stb, e)) = Depth
      BY <2>1, <1>1
    <3>2. CASE ack
      <4>1. entries' = Tail(Written(stb, e))
        BY <3>2 DEF Cycle
      <4>2. Len(entries') = Depth - 1
        BY <4>1, <3>1, <1>1, DepthAssumption
      <4>3. QED BY <4>2, DepthAssumption DEF EventPending
    <3>3. CASE ~ack
      <4>1. entries' = Written(stb, e)
        BY <3>3 DEF Cycle
      <4>2. QED BY <4>1, <3>1, DepthAssumption DEF EventPending
    <3>4. QED BY <3>2, <3>3
  <2>2. CASE ~(stb /\ Full)
    <3>1. overflow' => overflow /\ ~ack
      BY <2>2 DEF Cycle, NextOverflow
    <3>2. overflow' => EventPending /\ entries' = Written(stb, e)
      BY <3>1 DEF FifoInv, Cycle
    <3>3. QED BY <3>2, <1>1 DEF EventPending
  <2>3. QED BY <2>1, <2>2
<1>5. missed' => overflow'
  BY DEF FifoInv, Cycle, NextOverflow
<1>6. QED BY <1>2, <1>3, <1>4, <1>5 DEF FifoInv

\* For every depth of the FIFO above 1, the ones usb.v builds it for: no event
\* is lost without the reader being told.  With a depth of 1 an event dropped
\* in the cycle of a read would leave an empty FIFO and the flag unread.
THEOREM NoSilentDropCorrect == FifoSpec => []NoSilentDrop
<1>1. FifoInit => FifoInv
  BY FifoInitOK
<1>2. FifoInv /\ [FifoNext]_fifoVars => FifoInv'
  <2>1. FifoInv /\ UNCHANGED fifoVars => FifoInv'
    BY DEF FifoInv, fifoVars, EventPending
  <2>2. QED BY <2>1, CycleKeeps DEF FifoNext
<1>3. FifoInv => NoSilentDrop
  BY DEF FifoInv, NoSilentDrop
<1>4. QED BY <1>1, <1>2, <1>3, PTL DEF FifoSpec
=============================================================================
