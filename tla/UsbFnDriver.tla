---------------------------- MODULE UsbFnDriver -----------------------------
(***************************************************************************)
(* What the stack promises a function driver: in which order its callbacks *)
(* bus_reset(), state_chg(), set_conf() and set_intf() come.               *)
(***************************************************************************)
EXTENDS Integers

CONSTANTS
  Conf,   \* values of bConfigurationValue
  Intf,   \* interface numbers
  Alt     \* alternate settings

NoConf == 0
NoAlt  == -1

VARIABLES
  state,  \* what the last state_chg() said
  under,  \* the state that a suspended device goes back to
  reset,  \* bus_reset() was called, the default state is still to be told
  conf,   \* the configuration selected since the last bus reset
  alt     \* the alternate setting of each interface

view == <<state, under, reset, conf, alt>>

Base == {"default", "configured"}
NoAlts == [i \in Intf |-> NoAlt]

Init == /\ state = "disconnected" /\ under = "disconnected" /\ reset = FALSE
        /\ conf = NoConf /\ alt = NoAlts

ToState(s) == state' = s /\ under' = s

Connect    == state = "disconnected" /\ ToState("connected") /\ UNCHANGED <<reset, conf, alt>>
Disconnect == state # "disconnected" /\ ~reset /\ ToState("disconnected")
              /\ UNCHANGED <<reset, conf, alt>>
Restart    == state' = "disconnected" /\ under' = "disconnected" /\ reset' = FALSE
              /\ conf' = NoConf /\ alt' = NoAlts

\* A bus reset is told before the state it leads to, and ends the selection.
BusReset == /\ state # "disconnected" /\ ~reset /\ reset'
            /\ conf' = NoConf /\ alt' = NoAlts
            /\ UNCHANGED <<state, under>>
ResetDone == reset /\ reset' = FALSE /\ ToState("default") /\ UNCHANGED <<conf, alt>>

\* Resuming restores the state the device was suspended in.
Suspend == /\ state \in Base /\ ~reset /\ state' = "suspended"
           /\ UNCHANGED <<under, reset, conf, alt>>
Resume  == /\ state = "suspended" /\ ~reset /\ state' = under
           /\ UNCHANGED <<under, reset, conf, alt>>

\* The state is told first, then the configuration, then the settings: those
\* with number 0 first, and only while configured.
Configure   == state \in Base /\ ~reset /\ ToState("configured") /\ UNCHANGED <<reset, conf, alt>>
Deconfigure == state \in Base /\ ~reset /\ ToState("default") /\ UNCHANGED <<reset, conf, alt>>
SetConf == \E c \in Conf \cup {NoConf} :
  /\ ~reset /\ state = (IF c = NoConf THEN "default" ELSE "configured")
  /\ conf' = c /\ alt' = NoAlts
  /\ UNCHANGED <<state, under, reset>>
SetIntf == \E i \in Intf, a \in Alt :
  /\ ~reset /\ state = "configured" /\ conf # NoConf
  /\ a # 0 => alt[i] # NoAlt
  /\ alt' = [alt EXCEPT ![i] = a]
  /\ UNCHANGED <<state, under, reset, conf>>

Next == \/ Connect \/ Disconnect \/ Restart \/ BusReset \/ ResetDone
        \/ Suspend \/ Resume \/ Configure \/ Deconfigure \/ SetConf \/ SetIntf

Spec == Init /\ [][Next]_view
=============================================================================
