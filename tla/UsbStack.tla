------------------------------ MODULE UsbStack ------------------------------
(***************************************************************************)
(* The device side of the stack: the main loop, the device states and the  *)
(* end point configuration of usb.c, the standard requests of              *)
(* usb_ctrl_std.c, and the registers and flags of usb.v they work on.  The *)
(* control end point is reduced to what it gives them: a request, and the  *)
(* acknowledgement of its status.                                          *)
(***************************************************************************)
EXTENDS Integers, FiniteSets

CONSTANTS
  Ep,         \* end point addresses other than 0; 128 is the direction bit
  DualEp,     \* those the function driver boots with two descriptors
  Desc,       \* for each configuration, its settings
  Descriptor, \* the descriptors that exist, in the form of wValue
  RtIntf      \* the interface of the DFU run time driver

Conf == DOMAIN Desc
Intf == {s.intf : s \in UNION {Desc[c] : c \in Conf}}
Alt  == {s.alt : s \in UNION {Desc[c] : c \in Conf}}
NoConf == 0
NoAlt  == -1
NoIntf == -1

\* A setting names its end points, their kind ("bci": bulk, control or
\* interrupt) and packet size.  The settings of an interface follow each other,
\* number 0 first.
EpDesc == [type : {"bci", "isoc"}, mps : Nat \ {0}]
ASSUME EpAssumption   == Ep \subseteq (0 .. 255) \ {0, 128} /\ DualEp \subseteq Ep
ASSUME DescAssumption ==
  /\ Conf \subseteq Nat \ {NoConf}
  /\ \A c \in Conf : IsFiniteSet(Desc[c]) /\ \A s \in Desc[c] :
       /\ s.intf \in Nat /\ s.alt \in Nat
       /\ DOMAIN s.ep \subseteq Ep /\ \A e \in DOMAIN s.ep : s.ep[e] \in EpDesc
       /\ \E b \in Desc[c] : b.intf = s.intf /\ b.alt = 0
\* As the descriptors of a device must: a setting is described once, and an end
\* point belongs to one interface.
ASSUME SettingAssumption == \A c \in Conf : \A s, t \in Desc[c] :
  /\ s.intf = t.intf /\ s.alt = t.alt => s = t
  /\ DOMAIN s.ep \cap DOMAIN t.ep # {} => s.intf = t.intf
ASSUME DescriptorAssumption == Descriptor \subseteq Nat

RequestName == {"get_status_dev", "get_status_intf", "get_status_ep",
                "clear_feature_ep", "set_feature_ep", "set_address",
                "get_configuration", "set_configuration",
                "get_interface", "set_interface", "get_descriptor",
                "other_feature", "dfu_detach", "dfu_getstatus"}
Request == [name : RequestName, index : Nat, value : Nat]
NoReq   == [name |-> "none", index |-> 0, value |-> 0]

VARIABLES
  core,  \* registers and flags of the core
  eps,   \* status word, packet size and buffers of the end points other than 0
  ctl,   \* the control end point
  st,    \* g_usb
  fw,    \* where usb_poll() is
  drv    \* what the function drivers were told

stackVars == <<core, eps, ctl, st, fw, drv>>

Dir(e) == IF e >= 128 THEN "in" ELSE "out"
Round4(n) == 4 * ((n + 3) \div 4)

\* The buffers of end point 0: two OUT, one IN.
MemReset == [out |-> 128, in |-> 64]

NoEp == [type |-> "none", halt |-> FALSE, dt |-> 0, dual |-> FALSE, ml |-> 0,
         ptr |-> [i \in {0, 1} |-> 0], size |-> 0]
NoTodo == {}
Idle == [up |-> FALSE, setup |-> NoReq, req |-> NoReq, phase |-> "idle", data |-> 0]
DrvInit == [state |-> "disconnected", conf |-> NoConf, alt |-> [i \in Intf |-> NoAlt]]
StInit == [state |-> "disconnected", susp |-> FALSE, conf |-> NoConf, intf_alt |-> {},
           mem |-> [out |-> 0, in |-> 0], rt |-> NoIntf]
NoCsr == [susp |-> FALSE, evt |-> FALSE]

Init ==
  /\ core = [pu |-> FALSE, reset |-> FALSE, pend |-> FALSE, susp |-> FALSE,
             evt |-> FALSE, cel |-> FALSE, addr |-> 0]
  /\ eps = [e \in Ep |-> NoEp]
  /\ ctl = Idle
  /\ st = StInit
  /\ fw = [pc |-> "poll", csr |-> NoCsr, todo |-> NoTodo]
  /\ drv = DrvInit

-----------------------------------------------------------------------------
(* The core.                                                               *)

BusResetOn  == core' = [core EXCEPT !.reset = TRUE, !.pend = TRUE, !.susp = FALSE]
BusResetOff == core.reset /\ core' = [core EXCEPT !.reset = FALSE]
SuspendOn   == ~core.susp /\ ~core.reset /\ core' = [core EXCEPT !.susp = TRUE]
SofSeen     == core.susp /\ ~core.reset /\ core' = [core EXCEPT !.susp = FALSE]

\* A SETUP packet for the address of the device, which end point 0 can take.
SetupReceived(a, r) ==
  /\ ctl.up /\ ~core.cel /\ core.addr = a
  /\ core' = [core EXCEPT !.cel = TRUE, !.evt = TRUE]
  /\ ctl'  = [ctl EXCEPT !.setup = r]

\* The data and status stage of the request r: the lockout is released, and the
\* status is acknowledged, or its acknowledgement is lost.
StatusStage(a, r) ==
  /\ ctl.up /\ ~core.cel /\ core.addr = a /\ ctl.req = r /\ ctl.phase \in {"answer", "stall"}
StatusAcked == ctl.phase = "answer" /\ core' = [core EXCEPT !.evt = TRUE]
               /\ ctl' = [ctl EXCEPT !.phase = "acked", !.data = 0]
Stalled     == ctl.phase = "stall" /\ core' = [core EXCEPT !.evt = TRUE]
               /\ ctl' = [ctl EXCEPT !.req = NoReq]

\* A transaction of a bulk or interrupt end point that moves a packet.
Moved(e) == eps' = [eps EXCEPT ![e].dt = 1 - @]

-----------------------------------------------------------------------------
(* Device states.                                                          *)

Told(s) == IF s.susp THEN "suspended" ELSE s.state

\* The callbacks of the function drivers: bus_reset(), state_chg(), set_conf(),
\* set_intf() and get_intf(), which answers with the setting given last.
ToldReset    == [drv EXCEPT !.conf = NoConf, !.alt = [i \in Intf |-> NoAlt]]
ToldState(s) == [drv EXCEPT !.state = s]
ToldConf(c)  == [drv EXCEPT !.conf = c, !.alt = [i \in Intf |-> NoAlt]]
ToldIntf(s)  == [drv EXCEPT !.alt[s.intf] = s.alt]
AskedIntf(i) == drv.alt[i]

\* usb_set_state(): g_usb becomes s, and the drivers are told if the state is new.
SetState(s) ==
  /\ st' = s
  /\ drv' = IF <<s.state, s.susp>> # <<st.state, st.susp>> THEN ToldState(Told(s)) ELSE drv

Off == st.state \in {"disconnected", "connected"}

Goto(p) == fw' = [fw EXCEPT !.pc = p]
GotoWithout(p) == fw' = [fw EXCEPT !.pc = p, !.csr = NoCsr]  \* csr is not used any more

Connect ==
  /\ fw.pc = "poll" /\ st.state = "disconnected"
  /\ core' = [core EXCEPT !.pu = TRUE]
  /\ SetState([st EXCEPT !.state = "connected"])
  /\ UNCHANGED <<eps, ctl, fw>>

Disconnect ==
  /\ fw.pc = "poll" /\ st.state # "disconnected"
  /\ core' = [core EXCEPT !.pu = FALSE]
  /\ SetState([st EXCEPT !.state = "disconnected", !.susp = FALSE])
  /\ UNCHANGED <<eps, ctl, fw>>

-----------------------------------------------------------------------------
(* usb_poll().  The control register is read once.                         *)

Poll ==
  /\ fw.pc = "poll" /\ st.state # "disconnected"
  /\ ~(core.pend /\ core.reset)
  /\ core.pend \/ st.state # "connected"
  /\ fw' = [fw EXCEPT !.pc = IF core.pend THEN "hw_reset" ELSE "suspend",
                      !.csr = [susp |-> core.susp, evt |-> core.evt]]
  /\ UNCHANGED <<core, eps, ctl, st, drv>>

\* usb_bus_reset(): the end points, the control register, the pending flag and
\* the lockout, end point 0, and at last the state.
Faulty_HwReset == fw.pc = "hw_reset" /\ ctl' = Idle /\ Goto("csr") /\ UNCHANGED <<core, eps, st, drv>>
HwReset ==
  /\ fw.pc = "hw_reset"
  /\ eps' = [e \in Ep |-> NoEp]
  /\ ctl' = Idle
  /\ Goto("csr")
  /\ UNCHANGED <<core, st, drv>>

ResetCsr ==
  /\ fw.pc = "csr"
  /\ core' = [core EXCEPT !.pu = TRUE, !.addr = 0]
  /\ Goto("ar")
  /\ UNCHANGED <<eps, ctl, st, drv>>

Faulty_ResetAr ==
  /\ fw.pc = "ar"
  /\ core' = [core EXCEPT !.pend = core.reset]
  /\ Goto("ep0_reset")
  /\ UNCHANGED <<eps, ctl, st, drv>>
ResetAr ==
  /\ fw.pc = "ar"
  /\ core' = [core EXCEPT !.pend = core.reset, !.cel = FALSE]
  /\ Goto("ep0_reset")
  /\ UNCHANGED <<eps, ctl, st, drv>>

ResetEp0 ==
  /\ fw.pc = "ep0_reset"
  /\ st' = [st EXCEPT !.mem = MemReset]
  /\ ctl' = [Idle EXCEPT !.up = TRUE]
  /\ drv' = ToldReset
  /\ Goto("default")
  /\ UNCHANGED <<core, eps>>

SetDefault ==
  /\ fw.pc = "default"
  /\ SetState([st EXCEPT !.state = "default", !.susp = FALSE])
  /\ Goto("suspend")
  /\ UNCHANGED <<core, eps, ctl>>

\* A suspended device ends its poll here.  SOF ticks are left to the drivers.
Faulty_Resumed == [st EXCEPT !.susp = FALSE, !.state = "default"]
Resumed == [st EXCEPT !.susp = FALSE]

Suspended ==
  /\ fw.pc = "suspend" /\ fw.csr.susp
  /\ SetState([st EXCEPT !.susp = TRUE])
  /\ GotoWithout("poll")
  /\ UNCHANGED <<core, eps, ctl>>

Active ==
  /\ fw.pc = "suspend" /\ ~fw.csr.susp
  /\ SetState(Resumed)
  /\ GotoWithout(IF fw.csr.evt THEN "drain" ELSE "poll")
  /\ UNCHANGED <<core, eps, ctl>>

Drain ==
  /\ fw.pc = "drain"
  /\ core' = [core EXCEPT !.evt = FALSE]
  /\ Goto("ep0")
  /\ UNCHANGED <<eps, ctl, st, drv>>

Polled ==
  /\ fw.pc = "ep0" /\ ctl.setup = NoReq /\ ctl.phase # "acked"
  /\ Goto("poll")
  /\ UNCHANGED <<core, eps, ctl, st, drv>>

-----------------------------------------------------------------------------
(* Completed requests.                                                     *)

Done == /\ fw.pc = "ep0" /\ ctl.phase = "acked"
        /\ ctl' = [ctl EXCEPT !.phase = "idle", !.req = NoReq]

SetAddrDone ==
  /\ Done /\ ctl.req.name = "set_address"
  /\ core' = [core EXCEPT !.pu = TRUE, !.addr = ctl.req.value]
  /\ UNCHANGED <<eps, st, fw, drv>>

OtherDone ==
  /\ Done /\ ctl.req.name \notin {"set_address", "dfu_detach"}
  /\ UNCHANGED <<core, eps, st, fw, drv>>

\* The firmware restarts: usb_init() with the pull up off.
Detached ==
  /\ fw.pc = "ep0" /\ ctl.phase = "acked" /\ ctl.req.name = "dfu_detach"
  /\ core' = [core EXCEPT !.pu = FALSE, !.addr = 0, !.pend = core.reset, !.cel = FALSE]
  /\ eps' = [e \in Ep |-> NoEp]
  /\ ctl' = Idle
  /\ st' = StInit
  /\ fw' = [pc |-> "poll", csr |-> NoCsr, todo |-> NoTodo]
  /\ drv' = DrvInit

-----------------------------------------------------------------------------
(* End point configuration.                                                *)

FindIntf(c, i, a) == {s \in (IF c = NoConf THEN {} ELSE Desc[c]) : s.intf = i /\ s.alt = a}
EpsOf(c) == UNION {DOMAIN s.ep : s \in Desc[c]}

\* _usb_ep_conf(): what a setting makes of end point e; its toggle is reset.
EpConf(e, s, w) ==
  IF e \in DOMAIN s.ep
  THEN [w EXCEPT !.type = s.ep[e].type, !.ml = s.ep[e].mps, !.halt = FALSE, !.dt = 0]
  ELSE [w EXCEPT !.type = "none", !.ml = 0, !.halt = FALSE, !.dt = 0]

\* usb_ep_reconf(), for each end point of the setting.
Reconf(s) == eps' = [e \in Ep |-> IF e \in DOMAIN s.ep THEN EpConf(e, s, eps[e]) ELSE eps[e]]

\* The buffer has room for a packet of any setting of the interface.
Mps(c, e) == {s.ep[e].mps : s \in {t \in Desc[c] : e \in DOMAIN t.ep}}
Faulty_LargestMps(c, e, n) == n \in Mps(c, e) /\ \A m \in Mps(c, e) : n <= m
LargestMps(c, e, n) == n \in Mps(c, e) /\ \A m \in Mps(c, e) : m <= n

Base(c, e) == CHOOSE s \in Desc[c] :
  s.alt = 0 /\ \E t \in Desc[c] : t.intf = s.intf /\ e \in DOMAIN t.ep

\* _usb_alloc_buf()
Faulty_Claim(e, size) == size * (IF e \in DualEp THEN 2 ELSE 1)
Claim(e, size) == Round4(size) * (IF e \in DualEp THEN 2 ELSE 1)

\* usb_ep_boot()
Booted(e, w, size, mem) ==
  [w EXCEPT !.dual = e \in DualEp, !.size = size,
            !.ptr = [i \in {0, 1} |-> IF i = 0 THEN mem
                                      ELSE IF e \in DualEp THEN mem + Round4(size) ELSE w.ptr[1]]]
Boot(c, e) == \E size \in Mps(c, e) :
  /\ LargestMps(c, e, size)
  /\ eps' = [eps EXCEPT ![e] = EpConf(e, Base(c, e), Booted(e, @, size, st.mem[Dir(e)]))]
  /\ st'  = [st EXCEPT !.mem[Dir(e)] = @ + Claim(e, size)]

-----------------------------------------------------------------------------
(* Requests.  The lockout is released once a request is answered.          *)

Handle(name) == fw.pc = "ep0" /\ ctl.phase # "acked" /\ ctl.setup.name = name

Answer(phase, data) ==
  /\ ctl'  = [ctl EXCEPT !.setup = NoReq, !.req = ctl.setup, !.phase = phase, !.data = data]
  /\ core' = [core EXCEPT !.cel = FALSE]

Reply(ok, data) == Answer(IF ok THEN "answer" ELSE "stall", IF ok THEN data ELSE 0)

Local == UNCHANGED <<eps, st, fw, drv>>

GetStatusDev  == Handle("get_status_dev") /\ Reply(TRUE, 0) /\ Local
GetStatusIntf == /\ Handle("get_status_intf")
                 /\ Reply(FindIntf(st.conf, ctl.setup.index, 0) = {}, 0) /\ Local
GetStatusEp   == /\ Handle("get_status_ep")
                 /\ LET w == eps[ctl.setup.index]
                    IN Reply(w.type # "none", IF w.type = "bci" /\ w.halt THEN 1 ELSE 0)
                 /\ Local

Faulty_SetAddress ==
  /\ Handle("set_address")
  /\ ctl'  = [ctl EXCEPT !.setup = NoReq, !.req = ctl.setup, !.phase = "answer"]
  /\ core' = [core EXCEPT !.cel = FALSE, !.addr = ctl.setup.value]
  /\ Local
SetAddress == Handle("set_address") /\ Reply(TRUE, 0) /\ Local

GetConfiguration == Handle("get_configuration") /\ Reply(TRUE, st.conf) /\ Local

\* The setting 0 is answered without asking, until another was selected.
GetInterface ==
  /\ Handle("get_interface")
  /\ LET i == ctl.setup.index
     IN Reply(FindIntf(st.conf, i, 0) # {}, IF i \in st.intf_alt THEN AskedIntf(i) ELSE 0)
  /\ Local

GetDescriptor == /\ Handle("get_descriptor")
                 /\ Reply(ctl.setup.value \in Descriptor, ctl.setup.value) /\ Local

\* The features of the device and of interfaces.
OtherFeature == Handle("other_feature") /\ Reply(FALSE, 0) /\ Local

DfuDetach    == Handle("dfu_detach") /\ Reply(st.rt = ctl.setup.index, 0) /\ Local
DfuGetStatus == Handle("dfu_getstatus") /\ Reply(st.rt = ctl.setup.index, 0) /\ Local

\* Only a bulk, control or interrupt end point can be halted.
Faulty_CanHalt(e) == Told(st) \in {"configured", "suspended"} /\ eps[e].type # "none"
CanHalt(e) == Told(st) \in {"configured", "suspended"} /\ eps[e].type = "bci"

SetFeatureEp ==
  /\ Handle("set_feature_ep")
  /\ LET e == ctl.setup.index
     IN /\ Reply(CanHalt(e), 0)
        /\ eps' = IF CanHalt(e) THEN [eps EXCEPT ![e].halt = TRUE] ELSE eps
  /\ UNCHANGED <<st, fw, drv>>

Faulty_EpResume(w) == [w EXCEPT !.halt = FALSE]
EpResume(w) == [w EXCEPT !.halt = FALSE, !.dt = 0]

ClearFeatureEp ==
  /\ Handle("clear_feature_ep")
  /\ LET e == ctl.setup.index
     IN /\ Reply(CanHalt(e), 0)
        /\ eps' = IF CanHalt(e) THEN [eps EXCEPT ![e] = EpResume(@)] ELSE eps
  /\ UNCHANGED <<st, fw, drv>>

\* The fast path of GET_INTERFACE is left for good by a setting other than 0.
Faulty_AltSet(bits, s) == bits
AltSet(bits, s) == IF s.alt # 0 THEN bits \cup {s.intf} ELSE bits

SetInterface ==
  /\ Handle("set_interface")
  /\ \E s \in FindIntf(st.conf, ctl.setup.index, ctl.setup.value) :
       /\ Reconf(s)
       /\ drv' = ToldIntf(s)
       /\ st' = [st EXCEPT !.intf_alt = AltSet(@, s),
                           !.rt = IF s.intf = RtIntf THEN s.intf ELSE @]
  /\ Reply(TRUE, 0)
  /\ UNCHANGED fw

SetInterfaceRefused ==
  /\ Handle("set_interface")
  /\ FindIntf(st.conf, ctl.setup.index, ctl.setup.value) = {}
  /\ Reply(FALSE, 0) /\ Local

SetConfigurationRefused ==
  /\ Handle("set_configuration")
  /\ ctl.setup.value \notin Conf \cup {NoConf}
  /\ Reply(FALSE, 0) /\ Local

\* SET_CONFIGURATION: the state, then the drivers, which boot their end points,
\* then setting 0 of each interface.
SetConfiguration ==
  /\ Handle("set_configuration")
  /\ LET c == ctl.setup.value
     IN /\ c \in Conf \cup {NoConf}
        /\ SetState([st EXCEPT !.conf = c, !.intf_alt = {}, !.susp = FALSE,
                               !.state = IF c = NoConf THEN "default" ELSE "configured"])
  /\ Goto("set_conf")
  /\ UNCHANGED <<core, eps, ctl>>

DispatchSetConf ==
  /\ fw.pc = "set_conf"
  /\ drv' = ToldConf(st.conf)
  /\ fw' = [fw EXCEPT !.pc = IF st.conf = NoConf THEN "null" ELSE "boot",
                      !.todo = IF st.conf = NoConf THEN NoTodo ELSE EpsOf(st.conf)]
  /\ UNCHANGED <<core, eps, ctl, st>>

EpBoot == /\ fw.pc = "boot"
          /\ \E e \in fw.todo : /\ \A f \in fw.todo : e <= f
                                /\ Boot(st.conf, e)
                                /\ fw' = [fw EXCEPT !.todo = @ \ {e}]
          /\ UNCHANGED <<core, ctl, drv>>

EpsBooted == /\ fw.pc = "boot" /\ fw.todo = {}
             /\ fw' = [fw EXCEPT !.pc = "set_intf", !.todo = {s.intf : s \in Desc[st.conf]}]
             /\ UNCHANGED <<core, eps, ctl, st, drv>>

DispatchSetIntf ==
  /\ fw.pc = "set_intf"
  /\ \E i \in fw.todo : /\ \A j \in fw.todo : i <= j
                        /\ \E s \in FindIntf(st.conf, i, 0) : Reconf(s) /\ drv' = ToldIntf(s)
                        /\ st' = [st EXCEPT !.rt = IF i = RtIntf THEN i ELSE @]
                        /\ fw' = [fw EXCEPT !.todo = @ \ {i}]
  /\ UNCHANGED <<core, ctl>>

Configured == /\ fw.pc = "set_intf" /\ fw.todo = {}
              /\ Reply(TRUE, 0) /\ Goto("ep0")
              /\ UNCHANGED <<eps, st, drv>>

\* Configuration 0: the length of the descriptor is read through a null pointer,
\* and whatever lies there searched for interfaces.  Nothing is found, or the
\* search meets a length of 0 and does not end.
NullEnds == /\ fw.pc = "null"
            /\ Reply(TRUE, 0) /\ Goto("ep0")
            /\ UNCHANGED <<eps, st, drv>>
NullHangs == fw.pc = "null" /\ Goto("hung") /\ UNCHANGED <<core, eps, ctl, st, drv>>

Requests == \/ GetStatusDev \/ GetStatusIntf \/ GetStatusEp
            \/ SetFeatureEp \/ ClearFeatureEp \/ SetAddress
            \/ GetConfiguration \/ SetConfiguration \/ SetConfigurationRefused
            \/ GetInterface \/ SetInterface \/ SetInterfaceRefused
            \/ GetDescriptor \/ OtherFeature \/ DfuDetach \/ DfuGetStatus

Firmware == \/ Poll \/ HwReset \/ ResetCsr \/ ResetAr \/ ResetEp0 \/ SetDefault
            \/ Suspended \/ Active \/ Drain \/ Polled
            \/ SetAddrDone \/ OtherDone \/ Requests
            \/ DispatchSetConf \/ EpBoot \/ EpsBooted \/ DispatchSetIntf \/ Configured
            \/ NullEnds \/ NullHangs

(* What the variables hold.                                                *)

CoreRegs == [pu : BOOLEAN, reset : BOOLEAN, pend : BOOLEAN, susp : BOOLEAN,
             evt : BOOLEAN, cel : BOOLEAN, addr : Nat]
EpRegs == [type : {"none", "bci", "isoc"}, halt : BOOLEAN, dt : {0, 1},
           dual : BOOLEAN, ml : Nat, ptr : [{0, 1} -> Nat], size : Nat]
Control == [up : BOOLEAN, setup : Request \cup {NoReq}, req : Request \cup {NoReq},
            phase : {"idle", "answer", "stall", "acked"}, data : Int]
Stack == [state : {"disconnected", "connected", "default", "configured"},
          susp : BOOLEAN, conf : Conf \cup {NoConf}, intf_alt : SUBSET Intf,
          mem : [{"out", "in"} -> Nat], rt : Intf \cup {NoIntf}]
FwPc == {"poll", "hw_reset", "csr", "ar", "ep0_reset", "default", "suspend", "drain",
         "ep0", "set_conf", "boot", "set_intf", "null", "hung"}
Place == [pc : FwPc, csr : [susp : BOOLEAN, evt : BOOLEAN], todo : SUBSET (Ep \cup Intf)]
Drivers == [state : {"disconnected", "connected", "default", "configured", "suspended"},
            conf : Conf \cup {NoConf}, alt : [Intf -> Alt \cup {NoAlt}]]

\* The bit that halts a bulk, control or interrupt end point means another type
\* on others.
StackTypeOK ==
  /\ core \in CoreRegs
  /\ eps \in [Ep -> EpRegs] /\ \A e \in Ep : eps[e].halt => eps[e].type = "bci"
  /\ ctl \in Control /\ st \in Stack /\ fw \in Place /\ drv \in Drivers
=============================================================================
