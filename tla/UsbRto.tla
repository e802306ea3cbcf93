------------------------------- MODULE UsbRto -------------------------------
(***************************************************************************)
(* The receive time out counter of rtl/usb_trans.v, clock cycle by clock   *)
(* cycle.  Bit 9 lets it count; it counts down until bit 8 is clear, which *)
(* raises EVT_TIMEOUT, and a packet that starts stops it.                  *)
(***************************************************************************)
EXTENDS Integers, TLAPS

VARIABLE rto_cnt  \* the counter register, 10 bits

Operand == 0 .. 255

Bit9(c)  == (c \div 512) % 2
Bit8(c)  == (c \div 256) % 2
rto_now  == Bit9(rto_cnt) = 1 /\ Bit8(rto_cnt) = 0

Init == rto_cnt = 0

\* EVT_RTO loads { 2'b01, operand }.
EvtRto(t) == rto_cnt' = 256 + t

\* A clock cycle without an EVT_RTO; start: the PID of a packet was received.
Tick(start) ==
  LET on == Bit9(rto_cnt)
      go == IF Bit8(rto_cnt) = 1 /\ ~start THEN on ELSE 0
  IN rto_cnt' = (512 * go) + ((rto_cnt - on) % 512)

Next == \/ \E t \in Operand : EvtRto(t)
        \/ \E start \in BOOLEAN : Tick(start)

Spec == Init /\ [][Next]_rto_cnt

\* No EVT_TIMEOUT is ever raised, although doc/microcode.md calls EVT_RTO
\* "EVenT Receive Time Out" and every wait of the microcode asks for it.
NeverTimesOut == ~rto_now

CounterOff == rto_cnt \in 0 .. 511

-----------------------------------------------------------------------------
LEMMA BitsOff ==
  ASSUME NEW c \in 0 .. 511
  PROVE  Bit9(c) = 0 /\ (c - 0) % 512 = c
BY DEF Bit9

\* usb_trans.v: the counter is loaded with bit 9 clear and so never counts:
\* EVT_TIMEOUT is never raised, whatever the operands and the packets.
THEOREM NoTimeout == Spec => []NeverTimesOut
<1>1. Init => CounterOff
  BY DEF Init, CounterOff
<1>2. CounterOff /\ [Next]_rto_cnt => CounterOff'
  <2> SUFFICES ASSUME CounterOff, [Next]_rto_cnt PROVE CounterOff'
    OBVIOUS
  <2>1. ASSUME NEW t \in Operand, EvtRto(t) PROVE CounterOff'
    BY <2>1 DEF Operand, EvtRto, CounterOff
  <2>2. ASSUME NEW start \in BOOLEAN, Tick(start) PROVE CounterOff'
    <3>1. Bit9(rto_cnt) = 0 /\ (rto_cnt - 0) % 512 = rto_cnt
      BY BitsOff DEF CounterOff
    <3>2. rto_cnt' = rto_cnt
      BY <2>2, <3>1 DEF Tick, CounterOff
    <3> QED BY <3>2 DEF CounterOff
  <2>3. CASE UNCHANGED rto_cnt
    BY <2>3 DEF CounterOff
  <2> QED BY <2>1, <2>2, <2>3 DEF Next
<1>3. CounterOff => NeverTimesOut
  BY BitsOff DEF CounterOff, NeverTimesOut, rto_now
<1> QED BY <1>1, <1>2, <1>3, PTL DEF Spec
=============================================================================
