----------------------------- MODULE UsbDevice ------------------------------
(***************************************************************************)
(* A device on the bus: the stack (UsbStack) and a host that resets it,    *)
(* gives it an address, selects configurations and settings, halts and     *)
(* uses its end points, suspends it and loses it.                          *)
(***************************************************************************)
EXTENDS UsbStack

CONSTANTS
  Address,   \* addresses the host gives
  BadConf,   \* a value that is no configuration
  MaxConf    \* bound on the configurations selected in a session

ASSUME HostAssumption == /\ Address \subseteq Nat \ {0}
                         /\ BadConf \in Nat \ (Conf \cup {NoConf})
                         /\ MaxConf \in Nat

VARIABLE host

vars == <<core, eps, ctl, st, fw, drv, host>>

HostReset(stage) ==
  [stage |-> stage, addr |-> 0, conf |-> NoConf, confs |-> 0,
   alt |-> [i \in Intf |-> 0], dt |-> [e \in Ep |-> 0], halted |-> {}, req |-> NoReq]

HostState ==
  [stage : {"detached", "attached", "reset", "recovery", "up"},
   addr : Address \cup {0}, conf : Conf \cup {NoConf}, confs : 0 .. MaxConf,
   alt : [Intf -> Alt], dt : [Ep -> {0, 1}], halted : SUBSET Ep,
   req : Request \cup {NoReq}]

DeviceInit == Init /\ host = HostReset("detached")

-----------------------------------------------------------------------------
(* What the host asks for; descriptors and the like only before it selects *)
(* a configuration.                                                        *)

Settings == IF host.conf = NoConf THEN {}
            ELSE {s \in Desc[host.conf] : s.alt = host.alt[s.intf]}
InUse == UNION {DOMAIN s.ep : s \in Settings}

Req(name, i, v) == [name |-> name, index |-> i, value |-> v]

HostRequest ==
  {Req("get_configuration", 0, 0)}
  \cup (IF host.conf = NoConf
        THEN {Req(n, 0, 0) : n \in {"get_status_dev", "other_feature"}}
             \cup {Req("get_descriptor", 0, d) : d \in Descriptor \cup {0}}
        ELSE {})
  \cup {Req("set_address", 0, a) : a \in IF host.addr = 0 THEN Address ELSE {}}
  \cup {Req("set_configuration", 0, c) :
           c \in IF host.addr # 0 THEN Conf \cup {NoConf, BadConf} ELSE {}}
  \cup {Req(n, s.intf, 0) : n \in {"get_status_intf", "get_interface"}, s \in Settings}
  \cup {Req(n, s.intf, 0) : n \in {"dfu_detach", "dfu_getstatus"},
                            s \in {t \in Settings : t.intf = RtIntf}}
  \cup {Req("set_interface", s.intf, a) : s \in Settings, a \in Alt}
  \cup {Req(n, e, 0) : n \in {"get_status_ep", "clear_feature_ep", "set_feature_ep"},
                       e \in InUse}

\* The end points that a request for configuration, setting or halt is about:
\* the host does not use them until it is done.
Affected(r) ==
  CASE r.name = "set_configuration" -> InUse
    [] r.name = "set_interface" -> UNION {DOMAIN s.ep : s \in {t \in Settings : t.intf = r.index}}
    [] r.name \in {"clear_feature_ep", "set_feature_ep"} -> {r.index}
    [] OTHER -> {}

\* A request that was not answered in time may be sent again, but nothing else.
SendSetup ==
  /\ host.stage = "up" /\ ~core.susp
  /\ \E r \in IF host.req = NoReq THEN HostRequest ELSE {host.req} :
       LET sets == r.name = "set_configuration" /\ r.value # BadConf
       IN /\ sets => host.confs < MaxConf
          /\ SetupReceived(host.addr, r)
          /\ host' = [host EXCEPT !.req = r, !.confs = IF sets THEN @ + 1 ELSE @]
  /\ UNCHANGED <<eps, st, fw, drv>>

\* What a request that succeeded tells the host of the device.
Learn(r) ==
  CASE r.name = "set_address" -> [host EXCEPT !.addr = r.value]
    [] r.name = "set_configuration" ->
         [host EXCEPT !.conf = r.value, !.alt = [i \in Intf |-> 0],
                      !.dt = [e \in Ep |-> 0], !.halted = {}]
    [] r.name = "set_interface" ->
         LET new == UNION {DOMAIN s.ep : s \in FindIntf(host.conf, r.index, r.value)}
         IN [host EXCEPT !.alt[r.index] = r.value, !.halted = @ \ new,
                         !.dt = [e \in Ep |-> IF e \in new THEN 0 ELSE @[e]]]
    [] r.name = "set_feature_ep" -> [host EXCEPT !.halted = @ \cup {r.index}]
    [] r.name = "clear_feature_ep" ->
         [host EXCEPT !.halted = @ \ {r.index}, !.dt[r.index] = 0]
    [] OTHER -> host

CanComplete == /\ host.stage = "up" /\ ~core.susp /\ host.req # NoReq
               /\ StatusStage(host.addr, host.req)
Concluded == host' = [IF ctl.phase = "answer" THEN Learn(host.req) ELSE host
                        EXCEPT !.req = NoReq]

Complete == CanComplete /\ (StatusAcked \/ Stalled) /\ Concluded /\ UNCHANGED <<eps, st, fw, drv>>

\* The host acknowledged the status of a request without data, and the core
\* did not see it.
Read(r) == r.name \in {"get_status_dev", "get_status_intf", "get_status_ep",
                      "get_configuration", "get_interface", "get_descriptor", "dfu_getstatus"}
CompleteAckLost == /\ CanComplete /\ ctl.phase = "answer" /\ ~Read(host.req)
                   /\ Concluded
                   /\ UNCHANGED <<core, eps, ctl, st, fw, drv>>

\* A transaction on an end point.  A halted one answers with STALL.
Transaction ==
  /\ host.stage = "up" /\ ~core.susp
  /\ \E e \in InUse \ Affected(host.req) :
       /\ eps[e].type = "bci" /\ ~eps[e].halt
       /\ Moved(e)
       /\ host' = [host EXCEPT !.dt[e] = 1 - @]
  /\ UNCHANGED <<core, ctl, st, fw, drv>>

-----------------------------------------------------------------------------
(* The state of the bus.                                                   *)

ResetStart ==
  /\ host.stage \in {"attached", "recovery", "up"} /\ core.pu
  /\ BusResetOn
  /\ host' = HostReset("reset")
  /\ UNCHANGED <<eps, ctl, st, fw, drv>>

ResetEnd ==
  /\ host.stage = "reset" /\ BusResetOff
  /\ host' = [host EXCEPT !.stage = "recovery"]
  /\ UNCHANGED <<eps, ctl, st, fw, drv>>

\* A host leaves the device 10 ms after a reset: the poll that was in progress
\* has returned, but the reset need not be handled.
Recovered ==
  /\ host.stage = "recovery" /\ fw.pc = "poll"
  /\ host' = [host EXCEPT !.stage = "up"]
  /\ UNCHANGED <<core, eps, ctl, st, fw, drv>>

\* Without its pull up the bus is low, which the core takes for a reset too.
LineLow ==
  /\ ~core.pu /\ ~core.reset /\ BusResetOn
  /\ UNCHANGED <<eps, ctl, st, fw, drv, host>>
LineHigh ==
  /\ core.pu /\ host.stage = "attached" /\ BusResetOff
  /\ UNCHANGED <<eps, ctl, st, fw, drv, host>>

Suspend == /\ host.stage \in {"attached", "recovery", "up"} /\ SuspendOn
           /\ UNCHANGED <<eps, ctl, st, fw, drv, host>>
Sof     == /\ host.stage \in {"recovery", "up"} /\ SofSeen
           /\ UNCHANGED <<eps, ctl, st, fw, drv, host>>

\* The host notices the pull up.
Attach == Connect /\ host' = HostReset("attached")
Detach == Disconnect /\ host' = HostReset("detached")
Reboot == Detached /\ host' = HostReset("detached")

FirmwareStep == \/ Firmware /\ UNCHANGED host
                \/ Reboot

DeviceNext == \/ FirmwareStep \/ Attach \/ Detach
              \/ SendSetup \/ Complete \/ CompleteAckLost \/ Transaction
              \/ ResetStart \/ ResetEnd \/ Recovered \/ LineLow \/ LineHigh \/ Suspend \/ Sof

(* The application calls usb_poll() for ever.                              *)
Spec == DeviceInit /\ [][DeviceNext]_vars
FairSpec == Spec /\ WF_vars(FirmwareStep)

-----------------------------------------------------------------------------
(* Properties.                                                             *)

\* Every variable keeps its type.
TypeOK == StackTypeOK /\ host \in HostState

\* Once the flag of a bus reset is cleared, no end point of the session before
\* is left, and the device is not configured: whatever usb_poll() was doing when
\* the reset came, and however many resets came meanwhile.
SessionClean ==
  host.stage = "up" /\ ~core.pend /\ host.confs = 0 =>
    /\ \A e \in Ep : eps[e].type = "none"
    /\ fw.pc = "poll" => st.state = "default"

\* The device answers at the address the host believes, unless a bus reset or
\* an acknowledged SET_ADDRESS is still to be handled, or the acknowledgement
\* of that SET_ADDRESS was lost.
AddressAgrees ==
  host.stage = "up" =>
    \/ core.addr = host.addr
    \/ core.pend
    \/ ctl.req = Req("set_address", 0, host.addr) /\ ctl.phase \in {"acked", "answer"}

\* Host and device agree on every end point in use: that it exists, whether it
\* is halted, and on the data toggle, after any selection, halt and resumption.
EndPointsAgree ==
  host.stage = "up" =>
    \A s \in Settings : \A e \in DOMAIN s.ep \ Affected(host.req) :
      /\ eps[e].type = s.ep[e].type /\ eps[e].ml = s.ep[e].mps
      /\ eps[e].halt = (e \in host.halted)
      /\ eps[e].dt = host.dt[e]

\* The answers the host gets are about what it selected: the configuration
\* of this session if it selected one, the setting of an interface, the halt of
\* an end point; and what the device can do is not refused.
AnswersTrue ==
  host.stage = "up" /\ host.req # NoReq /\ ctl.req = host.req =>
    LET r == host.req
    IN /\ ctl.phase = "answer" =>
            /\ r.name = "get_configuration" /\ host.confs > 0 => ctl.data = host.conf
            /\ r.name = "get_interface" => ctl.data = host.alt[r.index]
            /\ r.name = "get_status_ep" => ctl.data = IF r.index \in host.halted THEN 1 ELSE 0
       /\ ctl.phase = "stall" =>
            \/ r.name \in {"get_status_intf", "other_feature"}
            \/ r.name = "get_descriptor" /\ r.value \notin Descriptor
            \/ r.name = "set_configuration" /\ r.value = BadConf
            \/ r.name = "set_interface" /\ FindIntf(host.conf, r.index, r.value) = {}
            \/ /\ r.name \in {"set_feature_ep", "clear_feature_ep"}
               /\ eps[r.index].type = "isoc"

\* The buffers of end points, and those of end point 0, do not overlap, though
\* they are written in whole words; and each has room for the packets of the
\* setting that is selected.
Allocated(e) == {i \in {0, 1} : eps[e].ptr[i] # 0}
Overlap(e, i, f, j) == /\ eps[e].ptr[i] < eps[f].ptr[j] + Round4(eps[f].size)
                       /\ eps[f].ptr[j] < eps[e].ptr[i] + Round4(eps[e].size)
BuffersApart ==
  /\ \A e \in Ep : \A i \in Allocated(e) : eps[e].ptr[i] >= MemReset[Dir(e)]
  /\ \A e, f \in Ep : Dir(e) = Dir(f) =>
       \A i \in Allocated(e), j \in Allocated(f) :
         <<e, i>> # <<f, j>> => ~Overlap(e, i, f, j)
RoomForPackets ==
  \A e \in Ep : eps[e].type # "none" => 0 \in Allocated(e) /\ eps[e].ml <= eps[e].size

\* The function drivers are called as UsbFnDriver promises.
Promised == INSTANCE UsbFnDriver WITH
  state <- drv.state, under <- st.state, reset <- fw.pc = "default",
  conf <- drv.conf, alt <- drv.alt
DriversCalledInOrder == Promised!Spec

\* The stack catches up with the bus: a bus reset is handled, suspend and
\* resume are noticed, and the lockout is released, unless the search through
\* the null pointer hangs.
Excused == Off \/ core.reset \/ fw.pc = "hung"
KeepsUp == /\ []<>(Excused \/ ~core.pend)
           /\ []<>(Excused \/ core.susp = st.susp)
           /\ []<>(Excused \/ core.susp \/ ~core.cel)
=============================================================================
