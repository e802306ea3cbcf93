-------------------------- MODULE UsbDeviceProofs --------------------------
(***************************************************************************)
(* Proofs about the device on the bus, for every set of end points,        *)
(* configurations, descriptors and addresses.                              *)
(***************************************************************************)
EXTENDS UsbDevice, TLAPS

-----------------------------------------------------------------------------
(* The descriptors and what the stack makes of them.                       *)

\* A setting is one of an interface, and describes end points.
LEMMA SettingType ==
  ASSUME NEW c \in Conf, NEW s \in Desc[c]
  PROVE  /\ s.intf \in Intf /\ s.alt \in Alt /\ s.intf \in Nat /\ s.alt \in Nat
         /\ DOMAIN s.ep \subseteq Ep
         /\ \A e \in DOMAIN s.ep : /\ s.ep[e].type \in {"bci", "isoc"}
                                   /\ s.ep[e].mps \in Nat
  BY DescAssumption DEF Intf, Alt, Conf, EpDesc

\* What is found is a setting of the configuration.
LEMMA FindIntfType ==
  ASSUME NEW c \in Conf \cup {NoConf}, NEW i, NEW a, NEW s \in FindIntf(c, i, a)
  PROVE  c \in Conf /\ s \in Desc[c] /\ s.intf = i /\ s.alt = a
  BY DEF FindIntf

\* The configuration of an end point leaves its buffers alone.
LEMMA EpConfType ==
  ASSUME NEW c \in Conf, NEW s \in Desc[c], NEW e \in Ep, NEW w \in EpRegs
  PROVE  LET v == EpConf(e, s, w)
         IN /\ v \in EpRegs /\ v.halt = FALSE /\ v.dt = 0
            /\ v.ptr = w.ptr /\ v.size = w.size /\ v.dual = w.dual
            /\ v.type = IF e \in DOMAIN s.ep THEN s.ep[e].type ELSE "none"
            /\ v.ml = IF e \in DOMAIN s.ep THEN s.ep[e].mps ELSE 0
<1>1. CASE e \in DOMAIN s.ep
  <2> DEFINE t == s.ep[e].type
             n == s.ep[e].mps
  <2>1. t \in {"bci", "isoc"} /\ n \in Nat
    BY <1>1, SettingType
  <2>2. EpConf(e, s, w) = [w EXCEPT !.type = t, !.ml = n, !.halt = FALSE, !.dt = 0]
    BY <1>1 DEF EpConf
  <2> HIDE DEF t, n
  <2>3. LET v == [w EXCEPT !.type = t, !.ml = n, !.halt = FALSE, !.dt = 0]
        IN /\ v \in EpRegs /\ v.halt = FALSE /\ v.dt = 0
           /\ v.ptr = w.ptr /\ v.size = w.size /\ v.dual = w.dual
           /\ v.type = t /\ v.ml = n
    BY <2>1 DEF EpRegs
  <2> QED BY <1>1, <2>2, <2>3 DEF t, n
<1>2. CASE e \notin DOMAIN s.ep
  <2>2. EpConf(e, s, w) = [w EXCEPT !.type = "none", !.ml = 0, !.halt = FALSE, !.dt = 0]
    BY <1>2 DEF EpConf
  <2>3. LET v == [w EXCEPT !.type = "none", !.ml = 0, !.halt = FALSE, !.dt = 0]
        IN /\ v \in EpRegs /\ v.halt = FALSE /\ v.dt = 0
           /\ v.ptr = w.ptr /\ v.size = w.size /\ v.dual = w.dual
           /\ v.type = "none" /\ v.ml = 0
    BY DEF EpRegs
  <2> QED BY <1>2, <2>2, <2>3
<1> QED BY <1>1, <1>2

\* A new buffer, or two, of a size.
LEMMA BootedType ==
  ASSUME NEW w \in EpRegs, NEW size \in Nat, NEW mem \in Nat, NEW e \in Ep
  PROVE  LET v == Booted(e, w, size, mem)
         IN /\ v \in EpRegs /\ v.size = size /\ v.ptr[0] = mem
            /\ v.ptr[1] = IF e \in DualEp THEN mem + Round4(size) ELSE w.ptr[1]
<1> DEFINE dual == e \in DualEp
<1>0. dual \in BOOLEAN
  OBVIOUS
<1> DEFINE p == [i \in {0, 1} |-> IF i = 0 THEN mem
                                  ELSE IF dual THEN mem + Round4(size) ELSE w.ptr[1]]
<1>1. Round4(size) \in Nat
  BY DEF Round4
<1>2. p \in [{0, 1} -> Nat] /\ p[0] = mem
      /\ p[1] = IF dual THEN mem + Round4(size) ELSE w.ptr[1]
  BY <1>1 DEF EpRegs
<1>3. Booted(e, w, size, mem) = [w EXCEPT !.dual = dual, !.size = size, !.ptr = p]
  BY DEF Booted, dual, p
<1> HIDE DEF p, dual
<1>4. LET v == [w EXCEPT !.dual = dual, !.size = size, !.ptr = p]
      IN v \in EpRegs /\ v.size = size /\ v.ptr = p
  BY <1>0, <1>2 DEF EpRegs
<1> QED BY <1>2, <1>3, <1>4 DEF dual

\* An end point of a configuration has an interface with a setting 0.
LEMMA BaseType ==
  ASSUME NEW c \in Conf, NEW e \in EpsOf(c)
  PROVE  Base(c, e) \in Desc[c] /\ e \in Ep
<1>1. PICK t \in Desc[c] : e \in DOMAIN t.ep
  BY DEF EpsOf
<1>2. PICK s \in Desc[c] : s.intf = t.intf /\ s.alt = 0
  BY DescAssumption DEF Conf
<1>3. \E r \in Desc[c] : r.alt = 0 /\ \E u \in Desc[c] : u.intf = r.intf /\ e \in DOMAIN u.ep
  BY <1>1, <1>2
<1>4. Base(c, e) \in Desc[c]
  BY <1>3 DEF Base
<1> QED BY <1>1, <1>4, SettingType
-----------------------------------------------------------------------------
(* The inductive invariant.                                                *)

\* What the host asks for.
Sound(r) ==
  /\ r \in Request
  /\ r.name = "set_address" => r.index = 0 /\ r.value \in Address
  /\ r.name = "set_configuration" => r.value \in Conf \cup {NoConf, BadConf}
  /\ r.name = "set_interface" => r.index \in Intf /\ r.value \in Alt
  /\ r.name \in {"get_status_ep", "clear_feature_ep", "set_feature_ep"} => r.index \in Ep

\* Where usb_poll() handles a bus reset, and where SET_CONFIGURATION.
Resetting   == {"csr", "ar", "ep0_reset"}
Configuring == {"set_conf", "boot", "set_intf", "null"}

\* Requests come from the host, a SETUP packet sets the lockout, and a
\* configuration that does not exist is never accepted.
RequestsOK ==
  /\ \A r \in {ctl.setup, ctl.req, host.req} : r # NoReq => Sound(r)
  /\ ctl.setup # NoReq => core.cel /\ ctl.up
  /\ ctl.req.name = "set_configuration" /\ ctl.req.value = BadConf =>
       ctl.phase \notin {"answer", "acked"}

\* While a configuration is selected, its request and its end points are known.
ConfiguringOK ==
  /\ fw.pc \in Configuring =>
       /\ ctl.setup.name = "set_configuration" /\ ctl.setup.value = st.conf
       /\ st.state = IF st.conf = NoConf THEN "default" ELSE "configured"
  /\ fw.pc \in {"boot", "set_intf"} => st.conf # NoConf
  /\ fw.pc = "boot" => fw.todo \subseteq EpsOf(st.conf)
  /\ fw.pc = "set_intf" => fw.todo \subseteq Intf

TypeInv == TypeOK /\ RequestsOK /\ ConfiguringOK

\* Without end point 0 there is no end point and no request.
Blank == eps = [e \in Ep |-> NoEp]
ResettingOK ==
  /\ fw.pc \in Resetting => ctl = Idle /\ Blank
  /\ ~ctl.up => ctl = Idle
  /\ fw.pc \in Configuring => ctl.up

\* Every buffer lies between those of end point 0 and the memory not given away.
MemoryOK ==
  /\ ctl.up => \A d \in {"in", "out"} : st.mem[d] >= MemReset[d]
  /\ \A e \in Ep : \A i \in Allocated(e) :
       /\ eps[e].ptr[i] >= MemReset[Dir(e)]
       /\ eps[e].ptr[i] + Round4(eps[e].size) <= st.mem[Dir(e)]
  /\ \A e \in Ep \ DualEp : 1 \notin Allocated(e)

\* What the host knows after a bus reset, and what it cannot have asked for
\* before it selects a configuration.
Quiet(r) == /\ r.name # "set_interface"
            /\ r.name = "set_configuration" => r.value = BadConf
HostOK ==
  /\ host.stage # "up" => host = HostReset(host.stage)
  /\ host.stage \notin {"detached"} => core.pu
  /\ host.stage = "reset" => core.reset /\ core.pend
  /\ host.stage \in {"recovery", "up"} => ~core.reset
  /\ host.confs = 0 => host.conf = NoConf /\ Quiet(host.req)
  /\ host.req.name = "set_interface" => host.conf # NoConf

\* A host that does not wait for the reset to be handled gets no answer.
UnhandledOK ==
  host.stage = "up" /\ core.pend =>
    /\ fw.pc \in {"poll", "hw_reset", "csr", "ar"}
    /\ host.addr = 0 /\ host.confs = 0
    /\ host.req # NoReq => core.cel \/ ~ctl.up

\* After the reset was handled everything is of this session.
Handled == host.stage \in {"recovery", "up"} /\ ~core.pend
SessionOK ==
  /\ fw.pc = "ar" => core.addr = 0
  /\ Handled =>
       /\ fw.pc \notin {"hw_reset", "csr", "ar"}
       /\ fw.pc \notin {"ep0_reset", "default"} => st.state \in {"default", "configured"}
       /\ ctl.setup # NoReq => ctl.setup = host.req
  /\ Handled /\ host.confs = 0 =>
       /\ Blank /\ fw.pc \notin Configuring \cup {"hung"}
       /\ fw.pc \notin {"ep0_reset", "default"} => st.state = "default"
AddressOK ==
  Handled =>
    /\ \/ core.addr = host.addr
       \/ /\ ctl.req = Req("set_address", 0, host.addr) /\ ctl.phase \in {"acked", "answer"}
          /\ ctl.setup = NoReq
    /\ ctl.req.name = "set_address" /\ ctl.phase = "acked" => ctl.req.value = host.addr

\* The requests that select a configuration, or none.
Selects(r) == r.name = "set_configuration" /\ r.value # BadConf

\* A host that selected a configuration finds the device configured: a request
\* for a setting never meets the default state.
ConfiguredOK ==
  /\ st.state = "configured" => st.conf \in Conf
  /\ fw.pc \in {"suspend", "drain", "ep0"} => st.state \in {"default", "configured"}
  /\ ctl.setup.name = "set_interface" => st.state # "default"
  /\ fw.pc = "hung" => ctl.setup # NoReq
  /\ fw.pc = "default" => ctl.req = NoReq /\ ctl.setup.name # "set_interface"
  /\ Handled /\ fw.pc \in {"ep0_reset", "default"} => host.addr = 0 /\ host.confs = 0
  /\ Handled /\ host.conf # NoConf /\ ~Selects(host.req) => st.state = "configured"
  /\ Selects(ctl.req) =>
       /\ ctl.phase # "stall"
       /\ ctl.req.value # NoConf /\ ctl.phase = "answer"
          /\ fw.pc \notin Configuring \cup {"hung"} => st.state # "default"

\* The end points of the selected configuration have room for any setting.
Roomy(e) == 0 \in Allocated(e) /\ \A m \in Mps(st.conf, e) : m <= eps[e].size
Ready == st.state = "configured" /\ fw.pc \notin Resetting \cup {"set_conf", "default"}
Unbooted == IF fw.pc = "boot" THEN fw.todo ELSE {}
AllRoomy == Ready => \A e \in EpsOf(st.conf) \ Unbooted : Roomy(e)
RoomOK == RoomForPackets /\ AllRoomy

\* The drivers know the state, the configuration, and a setting of each
\* interface once it is selected.
Sleeping == Resetting \cup {"poll", "hw_reset", "default", "suspend"}
Undone == IF fw.pc = "boot" THEN Intf ELSE IF fw.pc = "set_intf" THEN fw.todo ELSE {}
SelectionTold ==
  st.state = "configured" /\ fw.pc \notin {"set_conf", "default"} =>
    /\ drv.conf = st.conf
    /\ \A s \in Desc[st.conf] : s.intf \in Undone \/ drv.alt[s.intf] # NoAlt
DriversOK ==
  /\ drv.state = Told(st)
  /\ st.susp => st.state \in {"default", "configured"} /\ fw.pc \in Sleeping
  /\ st.state = "disconnected" => fw.pc = "poll"
  /\ SelectionTold

-----------------------------------------------------------------------------
(* Every step keeps the types.                                             *)

\* What the host asks for, it may ask for.
LEMMA HostRequestSound ==
  ASSUME TypeOK, NEW r \in HostRequest
  PROVE  Sound(r) /\ r # NoReq
<1> USE DEF Req, Request, RequestName, Sound, NoReq
<1>1. /\ Ep \subseteq Nat /\ Conf \subseteq Nat /\ Address \subseteq Nat /\ BadConf \in Nat
      /\ Intf \subseteq Nat /\ Alt \subseteq Nat /\ NoConf \in Nat /\ Descriptor \subseteq Nat
  BY EpAssumption, DescAssumption, HostAssumption, DescriptorAssumption DEF NoConf, Intf, Alt, Conf
<1>2. \A s \in Settings : s.intf \in Intf /\ DOMAIN s.ep \subseteq Ep
  <2>1. host.conf \in Conf \cup {NoConf}
    BY DEF TypeOK, HostState
  <2> QED BY <2>1, SettingType DEF Settings
<1>3. InUse \subseteq Ep
  BY <1>2 DEF InUse
<1>4. CASE r = Req("get_configuration", 0, 0)
  BY <1>4
<1>5. CASE \E n \in {"get_status_dev", "other_feature"} : r = Req(n, 0, 0)
  BY <1>5
<1>6. CASE \E d \in Descriptor \cup {0} : r = Req("get_descriptor", 0, d)
  BY <1>1, <1>6
<1>7. CASE \E a \in Address : r = Req("set_address", 0, a)
  BY <1>1, <1>7
<1>8. CASE \E c \in Conf \cup {NoConf, BadConf} : r = Req("set_configuration", 0, c)
  BY <1>1, <1>8
<1>9. CASE \E n \in {"get_status_intf", "get_interface", "dfu_detach", "dfu_getstatus"},
            s \in Settings : r = Req(n, s.intf, 0)
  <2>1. PICK n \in {"get_status_intf", "get_interface", "dfu_detach", "dfu_getstatus"},
             s \in Settings : r = Req(n, s.intf, 0)
    BY <1>9
  <2> DEFINE i == s.intf
  <2>2. r = Req(n, i, 0) /\ i \in Nat
    BY <1>1, <1>2, <2>1
  <2> HIDE DEF i
  <2> QED BY <2>2
<1>10. CASE \E s \in Settings, a \in Alt : r = Req("set_interface", s.intf, a)
  <2>1. PICK s \in Settings, a \in Alt : r = Req("set_interface", s.intf, a)
    BY <1>10
  <2> DEFINE i == s.intf
  <2>2. r = Req("set_interface", i, a) /\ i \in Intf /\ i \in Nat /\ a \in Nat
    BY <1>1, <1>2, <2>1
  <2> HIDE DEF i
  <2> QED BY <2>2
<1>11. CASE \E n \in {"get_status_ep", "clear_feature_ep", "set_feature_ep"}, e \in InUse :
              r = Req(n, e, 0)
  BY <1>1, <1>3, <1>11
<1> HIDE DEF Req, Request, Sound, NoReq
<1>12. \/ r = Req("get_configuration", 0, 0)
       \/ \E n \in {"get_status_dev", "other_feature"} : r = Req(n, 0, 0)
       \/ \E d \in Descriptor \cup {0} : r = Req("get_descriptor", 0, d)
       \/ \E a \in Address : r = Req("set_address", 0, a)
       \/ \E c \in Conf \cup {NoConf, BadConf} : r = Req("set_configuration", 0, c)
       \/ \E n \in {"get_status_intf", "get_interface", "dfu_detach", "dfu_getstatus"},
             s \in Settings : r = Req(n, s.intf, 0)
       \/ \E s \in Settings, a \in Alt : r = Req("set_interface", s.intf, a)
       \/ \E n \in {"get_status_ep", "clear_feature_ep", "set_feature_ep"}, e \in InUse :
             r = Req(n, e, 0)
  BY Z3 DEF HostRequest
<1> QED
  BY <1>4, <1>5, <1>6, <1>7, <1>8, <1>9, <1>10, <1>11, <1>12, Zenon

\* A new state of the device, and what the drivers are told of it.
LEMMA SetStateType ==
  ASSUME drv \in Drivers, NEW s \in Stack, SetState(s)
  PROVE  /\ st' = s /\ drv' \in Drivers
         /\ drv'.conf = drv.conf /\ drv'.alt = drv.alt
<1>1. Told(s) \in {"disconnected", "connected", "default", "configured", "suspended"}
  BY DEF Told, Stack
<1> QED BY <1>1 DEF SetState, ToldState, Drivers

\* Where usb_poll() goes on.
LEMMA GotoType ==
  ASSUME fw \in Place, NEW p \in FwPc, Goto(p) \/ GotoWithout(p)
  PROVE  fw' \in Place /\ fw'.pc = p /\ fw'.todo = fw.todo
<1>1. NoCsr \in [susp : BOOLEAN, evt : BOOLEAN]
  BY DEF NoCsr
<1>2. CASE Goto(p)
  BY <1>2 DEF Goto, Place
<1>3. CASE GotoWithout(p)
  BY <1>1, <1>3 DEF GotoWithout, Place
<1> QED BY <1>2, <1>3

\* Without end points.
LEMMA BlankType ==
  LET b == [e \in Ep |-> NoEp]
  IN b \in [Ep -> EpRegs] /\ \A e \in Ep : b[e] = NoEp /\ b[e].type = "none" /\ ~b[e].halt
  BY DEF NoEp, EpRegs

\* End point 0 without a request.
LEMMA IdleType ==
  /\ Idle \in Control /\ Idle.setup = NoReq /\ Idle.req = NoReq /\ ~Idle.up
  /\ Idle.phase = "idle" /\ NoReq.name = "none"
  /\ [Idle EXCEPT !.up = TRUE] \in Control
  /\ [Idle EXCEPT !.up = TRUE].setup = NoReq /\ [Idle EXCEPT !.up = TRUE].req = NoReq
  /\ [Idle EXCEPT !.up = TRUE].phase = "idle" /\ [Idle EXCEPT !.up = TRUE].up
<1>1. NoReq.name = "none"
  BY DEF NoReq
<1>2. Idle \in Control
  BY DEF Idle, Control
<1>3. [Idle EXCEPT !.up = TRUE] \in Control
  BY <1>2 DEF Control
<1> QED BY <1>1, <1>2, <1>3 DEF Idle

\* A setting of every interface has number 0.
LEMMA AltZero == Intf # {} => 0 \in Alt
<1>1. SUFFICES ASSUME NEW c \in Conf, NEW s \in Desc[c] PROVE 0 \in Alt
  BY DEF Intf
<1>2. PICK b \in Desc[c] : b.alt = 0
  BY DescAssumption
<1> QED BY <1>2 DEF Alt

\* A host that knows nothing.
LEMMA HostResetType ==
  ASSUME NEW stage \in {"detached", "attached", "reset", "recovery", "up"},
         host' = HostReset(stage), StackTypeOK'
  PROVE  TypeOK'
<1>1. [i \in Intf |-> 0] \in [Intf -> Alt]
  BY AltZero
<1> QED BY <1>1, HostAssumption DEF TypeOK, HostReset, HostState

\* What is left to show of a step that leaves the host alone.
LEMMA TypeInvKept ==
  ASSUME TypeInv, UNCHANGED host, StackTypeOK', RequestsOK', ConfiguringOK'
  PROVE  TypeInv'
  BY DEF TypeInv, TypeOK

\* Requests that do not change, or are forgotten.
LEMMA RequestsKept ==
  ASSUME RequestsOK, UNCHANGED <<host, ctl>>, core'.cel = core.cel
  PROVE  RequestsOK'
  BY DEF RequestsOK, Sound
LEMMA RequestsForgotten ==
  ASSUME RequestsOK, UNCHANGED host, ctl'.setup = NoReq, ctl'.req = NoReq
  PROVE  RequestsOK'
  BY DEF RequestsOK, NoReq, Sound

\* Elsewhere than in SET_CONFIGURATION.
LEMMA NotConfiguring ==
  ASSUME fw'.pc \notin Configuring
  PROVE  ConfiguringOK'
  BY DEF ConfiguringOK, Configuring

\* usb_poll() up to the requests.
LEMMA PollTypes ==
  ASSUME TypeInv, ResettingOK,
         \/ Poll \/ HwReset \/ ResetCsr \/ ResetAr \/ ResetEp0 \/ SetDefault
         \/ Suspended \/ Active \/ Drain \/ Polled,
         UNCHANGED host
  PROVE  TypeInv'
<1>1. StackTypeOK /\ RequestsOK /\ fw \in Place /\ core \in CoreRegs /\ ctl \in Control
      /\ st \in Stack /\ drv \in Drivers
  BY DEF TypeInv, TypeOK, StackTypeOK
<1>2. SUFFICES fw' \in Place /\ fw'.pc \notin Configuring /\ StackTypeOK' /\ RequestsOK'
  BY TypeInvKept, NotConfiguring
<1>3. CASE Poll
  <2>1. fw' \in Place /\ fw'.pc \in {"hw_reset", "suspend"}
    BY <1>1, <1>3 DEF Poll, Place, FwPc, CoreRegs
  <2> QED BY <1>1, <1>3, <2>1, RequestsKept DEF Poll, StackTypeOK, Configuring
<1>4. CASE HwReset
  <2>1. fw' \in Place /\ fw'.pc = "csr"
    BY <1>1, <1>4, GotoType DEF HwReset, FwPc
  <2>2. RequestsOK'
    BY <1>1, <1>4, RequestsForgotten, IdleType DEF HwReset
  <2> QED BY <1>1, <1>4, <2>1, <2>2, IdleType, BlankType DEF HwReset, StackTypeOK, Configuring
<1>5. CASE ResetCsr
  <2>1. fw' \in Place /\ fw'.pc = "ar"
    BY <1>1, <1>5, GotoType DEF ResetCsr, FwPc
  <2>2. core' \in CoreRegs /\ core'.cel = core.cel
    BY <1>1, <1>5 DEF ResetCsr, CoreRegs
  <2>3. UNCHANGED <<eps, ctl, st, drv>>
    BY <1>5 DEF ResetCsr
  <2>4. RequestsOK'
    BY <1>1, <2>2, <2>3, RequestsKept
  <2> QED BY <1>1, <2>1, <2>2, <2>3, <2>4 DEF StackTypeOK, Configuring
<1>6. CASE ResetAr
  <2>1. fw' \in Place /\ fw'.pc = "ep0_reset"
    BY <1>1, <1>6, GotoType DEF ResetAr, FwPc
  <2>2. core' \in CoreRegs
    BY <1>1, <1>6 DEF ResetAr, CoreRegs
  <2>3. UNCHANGED <<eps, ctl, st, drv>> /\ ctl = Idle
    BY <1>6 DEF ResetAr, ResettingOK, Resetting
  <2>4. RequestsOK'
    BY <1>1, <2>3, IdleType, RequestsForgotten
  <2> QED BY <1>1, <2>1, <2>2, <2>3, <2>4 DEF StackTypeOK, Configuring
<1>7. CASE Drain
  <2>1. fw' \in Place /\ fw'.pc = "ep0"
    BY <1>1, <1>7, GotoType DEF Drain, FwPc
  <2>2. core' \in CoreRegs /\ core'.cel = core.cel
    BY <1>1, <1>7 DEF Drain, CoreRegs
  <2>3. UNCHANGED <<eps, ctl, st, drv>>
    BY <1>7 DEF Drain
  <2>4. RequestsOK'
    BY <1>1, <2>2, <2>3, RequestsKept
  <2> QED BY <1>1, <2>1, <2>2, <2>3, <2>4 DEF StackTypeOK, Configuring
<1>8. CASE ResetEp0
  <2>1. fw' \in Place /\ fw'.pc = "default"
    BY <1>1, <1>8, GotoType DEF ResetEp0, FwPc
  <2>2. ctl' \in Control /\ ctl'.setup = NoReq /\ ctl'.req = NoReq
    BY <1>8, IdleType DEF ResetEp0
  <2>3. st' \in Stack
    BY <1>1, <1>8 DEF ResetEp0, Stack, MemReset
  <2>4. drv' \in Drivers
    BY <1>1, <1>8 DEF ResetEp0, ToldReset, Drivers
  <2>5. RequestsOK'
    BY <1>1, <2>2, RequestsForgotten
  <2> QED BY <1>1, <1>8, <2>1, <2>2, <2>3, <2>4, <2>5 DEF ResetEp0, StackTypeOK, Configuring
<1>9. CASE SetDefault \/ Suspended \/ Active
  <2>1. fw' \in Place /\ fw'.pc \in {"suspend", "poll", "drain"}
    BY <1>1, <1>9, GotoType DEF SetDefault, Suspended, Active, FwPc
  <2>2. PICK s : s \in Stack /\ SetState(s)
    <3>1. /\ [st EXCEPT !.state = "default", !.susp = FALSE] \in Stack
          /\ [st EXCEPT !.susp = TRUE] \in Stack
          /\ Resumed \in Stack
      BY <1>1 DEF Stack, Resumed
    <3> QED BY <1>9, <3>1 DEF SetDefault, Suspended, Active
  <2>3. st' \in Stack /\ drv' \in Drivers
    BY <1>1, <2>2, SetStateType
  <2>4. UNCHANGED <<core, eps, ctl>>
    BY <1>9 DEF SetDefault, Suspended, Active
  <2>5. RequestsOK'
    BY <1>1, <2>4, RequestsKept
  <2> QED BY <1>1, <2>1, <2>3, <2>4, <2>5 DEF StackTypeOK, Configuring
<1>10. CASE Polled
  <2>1. fw' \in Place /\ fw'.pc = "poll"
    BY <1>1, <1>10, GotoType DEF Polled, FwPc
  <2>2. UNCHANGED <<core, eps, ctl, st, drv>>
    BY <1>10 DEF Polled
  <2>3. RequestsOK'
    BY <1>1, <2>2, RequestsKept
  <2> QED BY <1>1, <2>1, <2>2, <2>3 DEF StackTypeOK, Configuring
<1> QED BY <1>3, <1>4, <1>5, <1>6, <1>7, <1>8, <1>9, <1>10

\* A request ends.
LEMMA DoneType ==
  ASSUME ctl \in Control, Done
  PROVE  ctl' \in Control /\ ctl'.setup = ctl.setup /\ ctl'.req = NoReq
         /\ ctl'.phase = "idle" /\ ctl'.up = ctl.up
  BY DEF Done, Control

\* What end requests.
LEMMA DoneTypes ==
  ASSUME TypeInv, (SetAddrDone \/ OtherDone) /\ UNCHANGED host
  PROVE  TypeInv'
<1>1. StackTypeOK /\ RequestsOK /\ core \in CoreRegs /\ ctl \in Control
  BY DEF TypeInv, TypeOK, StackTypeOK
<1>2. Done /\ UNCHANGED <<eps, st, fw, drv, host>> /\ fw.pc = "ep0"
  BY DEF SetAddrDone, OtherDone, Done
<1>3. core' \in CoreRegs /\ core'.cel = core.cel
  <2>1. ctl.req.value \in Nat
    BY <1>1 DEF Control, Request, NoReq
  <2> QED BY <1>1, <2>1 DEF SetAddrDone, OtherDone, CoreRegs
<1>4. ctl' \in Control /\ ctl'.setup = ctl.setup /\ ctl'.req = NoReq /\ ctl'.up = ctl.up
  BY <1>1, <1>2, DoneType
<1>5. RequestsOK'
  BY <1>1, <1>2, <1>3, <1>4, IdleType DEF RequestsOK, Sound
<1>6. ConfiguringOK'
  BY <1>2, NotConfiguring DEF Configuring
<1> QED BY <1>1, <1>2, <1>3, <1>4, <1>5, <1>6, TypeInvKept DEF StackTypeOK

\* The firmware restarts.
LEMMA RebootTypes ==
  ASSUME TypeInv, Reboot
  PROVE  TypeInv'
<1>1. StackTypeOK /\ RequestsOK /\ core \in CoreRegs
  BY DEF TypeInv, TypeOK, StackTypeOK
<1>2. core' \in CoreRegs
  BY <1>1 DEF Reboot, Detached, CoreRegs
<1>3. ctl' \in Control /\ ctl' = Idle /\ eps' = [e \in Ep |-> NoEp]
  BY IdleType DEF Reboot, Detached
<1>4. st' \in Stack /\ drv' \in Drivers /\ fw' \in Place /\ fw'.pc = "poll"
  BY DEF Reboot, Detached, StInit, DrvInit, NoCsr, NoTodo, Stack, Drivers, Place, FwPc
<1>5. StackTypeOK'
  BY <1>2, <1>3, <1>4, BlankType DEF StackTypeOK
<1>6. ConfiguringOK'
  BY <1>4, NotConfiguring DEF Configuring
<1>7. host' = HostReset("detached")
  BY DEF Reboot
<1>8. RequestsOK'
  BY <1>3, <1>7, IdleType DEF RequestsOK, HostReset
<1> QED BY <1>5, <1>6, <1>7, <1>8, HostResetType DEF TypeInv, TypeOK

\* The answer to a request.
LEMMA ReplyType ==
  ASSUME core \in CoreRegs, ctl \in Control, NEW ok \in BOOLEAN, NEW data \in Int,
         Reply(ok, data)
  PROVE  /\ core' \in CoreRegs /\ ctl' \in Control
         /\ core'.pu = core.pu /\ core'.reset = core.reset /\ core'.pend = core.pend
         /\ core'.addr = core.addr /\ ~core'.cel
         /\ ctl'.setup = NoReq /\ ctl'.req = ctl.setup /\ ctl'.up = ctl.up
         /\ ctl'.phase = IF ok THEN "answer" ELSE "stall"
<1> DEFINE phase == IF ok THEN "answer" ELSE "stall"
           n == IF ok THEN data ELSE 0
<1>1. Answer(phase, n) /\ phase \in {"answer", "stall"} /\ n \in Int
  BY DEF Reply
<1> HIDE DEF phase, n
<1>2. core' = [core EXCEPT !.cel = FALSE]
  BY <1>1 DEF Answer
<1>3. ctl' = [ctl EXCEPT !.setup = NoReq, !.req = ctl.setup, !.phase = phase, !.data = n]
  BY <1>1 DEF Answer
<1>4. /\ ctl' \in Control /\ ctl'.setup = NoReq /\ ctl'.req = ctl.setup /\ ctl'.up = ctl.up
      /\ ctl'.phase = phase
  BY <1>1, <1>3 DEF Control
<1> QED BY <1>2, <1>4 DEF CoreRegs, phase

\* A request that is answered.
LEMMA ReplyRequests ==
  ASSUME core \in CoreRegs, ctl \in Control, RequestsOK, UNCHANGED host,
         NEW ok \in BOOLEAN, NEW data \in Int, Reply(ok, data), ctl.setup # NoReq,
         ok => ~(ctl.setup.name = "set_configuration" /\ ctl.setup.value = BadConf)
  PROVE  RequestsOK'
<1>1. /\ ctl'.setup = NoReq /\ ctl'.req = ctl.setup /\ ctl'.up = ctl.up
      /\ ctl'.phase = IF ok THEN "answer" ELSE "stall"
  BY ReplyType
<1> QED BY <1>1 DEF RequestsOK, Sound

\* A request, and what it is.
LEMMA HandleType ==
  ASSUME RequestsOK, ctl \in Control, NEW name \in RequestName, Handle(name)
  PROVE  ctl.setup # NoReq /\ Sound(ctl.setup) /\ ctl.setup.name = name /\ ctl.setup \in Request
         /\ fw.pc = "ep0" /\ ctl.phase # "acked"
<1>1. name # "none"
  BY DEF RequestName
<1> QED BY <1>1, IdleType DEF Handle, RequestsOK, Sound

\* Requests that only report.
LEMMA ReportTypes ==
  ASSUME TypeInv, UNCHANGED host,
         \/ GetStatusDev \/ GetStatusIntf \/ GetStatusEp \/ SetAddress
         \/ GetConfiguration \/ GetInterface \/ GetDescriptor \/ OtherFeature
         \/ DfuDetach \/ DfuGetStatus \/ SetInterfaceRefused \/ SetConfigurationRefused
  PROVE  TypeInv'
<1>1. StackTypeOK /\ RequestsOK /\ core \in CoreRegs /\ ctl \in Control /\ st \in Stack
      /\ drv \in Drivers
  BY DEF TypeInv, TypeOK, StackTypeOK
<1>2. PICK ok \in BOOLEAN, data \in Int, name \in RequestName :
        /\ Handle(name) /\ Reply(ok, data) /\ Local
        /\ ok => name # "set_configuration"
  <2>1. CASE GetStatusDev \/ SetAddress
    <3>1. \E name \in {"get_status_dev", "set_address"} :
            Handle(name) /\ Reply(TRUE, 0) /\ Local
      BY <2>1 DEF GetStatusDev, SetAddress
    <3>2. TRUE \in BOOLEAN /\ 0 \in Int
      OBVIOUS
    <3> QED BY <3>1, <3>2 DEF RequestName
  <2>8. CASE OtherFeature \/ SetInterfaceRefused \/ SetConfigurationRefused
    <3>1. \E name \in {"other_feature", "set_interface", "set_configuration"} :
            Handle(name) /\ Reply(FALSE, 0) /\ Local
      BY <2>8 DEF OtherFeature, SetInterfaceRefused, SetConfigurationRefused
    <3>2. FALSE \in BOOLEAN /\ 0 \in Int
      OBVIOUS
    <3> QED BY <3>1, <3>2 DEF RequestName
  <2>2. CASE GetStatusIntf
    <3> DEFINE ok == FindIntf(st.conf, ctl.setup.index, 0) = {}
    <3>1. Handle("get_status_intf") /\ Reply(ok, 0) /\ Local /\ ok \in BOOLEAN
      BY <2>2 DEF GetStatusIntf
    <3> HIDE DEF ok
    <3> QED BY <3>1 DEF RequestName
  <2>3. CASE GetStatusEp
    <3> DEFINE w == eps[ctl.setup.index]
               ok == w.type # "none"
               n == IF w.type = "bci" /\ w.halt THEN 1 ELSE 0
    <3>1. Handle("get_status_ep") /\ Reply(ok, n) /\ Local /\ ok \in BOOLEAN /\ n \in Int
      BY <2>3 DEF GetStatusEp
    <3> HIDE DEF ok, n
    <3> QED BY <3>1 DEF RequestName
  <2>4. CASE GetConfiguration
    <3>1. st.conf \in Int
      <4>1. st.conf \in Conf \cup {NoConf}
        BY <1>1 DEF Stack
      <4>2. \A x \in Conf \cup {NoConf} : x \in Int
        BY DescAssumption DEF NoConf
      <4> QED BY <4>1, <4>2
    <3> DEFINE c == st.conf
    <3>2. Handle("get_configuration") /\ Reply(TRUE, c) /\ Local /\ c \in Int
      BY <2>4, <3>1 DEF GetConfiguration
    <3>3. TRUE \in BOOLEAN
      OBVIOUS
    <3> HIDE DEF c
    <3> QED BY <3>1, <3>2, <3>3 DEF RequestName
  <2>5. CASE GetInterface
    <3> DEFINE i == ctl.setup.index
               ok == FindIntf(st.conf, i, 0) # {}
               n == IF i \in st.intf_alt THEN AskedIntf(i) ELSE 0
    <3>1. Handle("get_interface") /\ Reply(ok, n) /\ Local /\ ok \in BOOLEAN
      BY <2>5 DEF GetInterface
    <3>2. n \in Int
      <4>1. SUFFICES ASSUME i \in Intf PROVE drv.alt[i] \in Int
        BY <1>1 DEF AskedIntf, Stack
      <4>2. \A a \in Alt \cup {NoAlt} : a \in Int
        BY SettingType DEF Alt, NoAlt
      <4>3. drv.alt \in [Intf -> Alt \cup {NoAlt}]
        BY <1>1 DEF Drivers
      <4>4. drv.alt[i] \in Alt \cup {NoAlt}
        BY <4>1, <4>3
      <4> QED BY <4>2, <4>4
    <3> HIDE DEF ok, n
    <3> QED BY <3>1, <3>2 DEF RequestName
  <2>6. CASE GetDescriptor
    <3>1. Handle("get_descriptor")
      BY <2>6 DEF GetDescriptor
    <3>2. ctl.setup.value \in Int
      BY <1>1, <3>1, HandleType DEF RequestName, Request
    <3> DEFINE ok == ctl.setup.value \in Descriptor
    <3>3. Reply(ok, ctl.setup.value) /\ Local /\ ok \in BOOLEAN
      BY <2>6 DEF GetDescriptor
    <3> HIDE DEF ok
    <3> QED BY <3>1, <3>2, <3>3 DEF RequestName
  <2>7. CASE DfuDetach \/ DfuGetStatus
    <3> DEFINE ok == st.rt = ctl.setup.index
    <3>1. \E name \in {"dfu_detach", "dfu_getstatus"} : Handle(name) /\ Reply(ok, 0) /\ Local
      BY <2>7 DEF DfuDetach, DfuGetStatus
    <3>2. ok \in BOOLEAN
      OBVIOUS
    <3> HIDE DEF ok
    <3> QED BY <3>1, <3>2 DEF RequestName
  <2> QED BY <2>1, <2>2, <2>3, <2>4, <2>5, <2>6, <2>7, <2>8
<1>3. UNCHANGED <<eps, st, fw, drv, host>>
  BY <1>2 DEF Local
<1>4. /\ ctl.setup # NoReq /\ ctl.setup.name = name /\ fw.pc = "ep0"
  BY <1>1, <1>2, HandleType
<1>5. core' \in CoreRegs /\ ctl' \in Control
  BY <1>1, <1>2, ReplyType
<1>6. RequestsOK'
  BY <1>1, <1>2, <1>3, <1>4, ReplyRequests
<1>7. ConfiguringOK'
  BY <1>3, <1>4, NotConfiguring DEF Configuring
<1> QED BY <1>1, <1>3, <1>5, <1>6, <1>7, TypeInvKept DEF StackTypeOK

\* The end points as they may be, and those that keep their buffers.
EpsOK == eps \in [Ep -> EpRegs] /\ \A e \in Ep : eps[e].halt => eps[e].type = "bci"
SameBuffers == \A e \in Ep : /\ eps'[e].ptr = eps[e].ptr /\ eps'[e].size = eps[e].size
                             /\ eps'[e].dual = eps[e].dual

\* Halting and resuming leaves everything else as it is.
LEMMA HaltType ==
  ASSUME EpsOK, TypeInv, SetFeatureEp \/ ClearFeatureEp
  PROVE  /\ EpsOK' /\ SameBuffers
         /\ \A f \in Ep : eps'[f].type = eps[f].type /\ eps'[f].ml = eps[f].ml
<1> DEFINE e == ctl.setup.index
<1>1. CASE UNCHANGED eps
  BY <1>1 DEF EpsOK, SameBuffers
<1>2. CASE CanHalt(e) /\ eps' = [eps EXCEPT ![e].halt = TRUE]
  <2>1. ~(e \in Ep) => UNCHANGED eps
    BY <1>2 DEF EpsOK
  <2>2. ASSUME e \in Ep PROVE eps'[e] = [eps[e] EXCEPT !.halt = TRUE] /\ eps[e].type = "bci"
    BY <1>2, <2>2 DEF EpsOK, CanHalt
  <2>3. ASSUME NEW w \in EpRegs
        PROVE  LET v == [w EXCEPT !.halt = TRUE]
               IN v \in EpRegs /\ v.type = w.type /\ v.ml = w.ml /\ v.ptr = w.ptr
                  /\ v.size = w.size /\ v.dual = w.dual
    BY DEF EpRegs
  <2>4. \A f \in Ep \ {e} : eps'[f] = eps[f]
    BY <1>2 DEF EpsOK
  <2>5. eps' \in [Ep -> EpRegs]
    BY <1>1, <1>2, <2>1, <2>2, <2>3 DEF EpsOK
  <2>6. ASSUME NEW f \in Ep
        PROVE  /\ eps'[f].type = eps[f].type /\ eps'[f].ml = eps[f].ml
               /\ eps'[f].ptr = eps[f].ptr /\ eps'[f].size = eps[f].size
               /\ eps'[f].dual = eps[f].dual /\ (eps'[f].halt => eps'[f].type = "bci")
    <3>1. eps[f] \in EpRegs
      BY DEF EpsOK
    <3>2. CASE f = e
      BY <2>2, <2>3, <3>1, <3>2
    <3>3. CASE f # e
      BY <2>4, <3>3 DEF EpsOK
    <3> QED BY <3>2, <3>3
  <2> QED BY <2>5, <2>6 DEF EpsOK, SameBuffers
<1>3. CASE CanHalt(e) /\ eps' = [eps EXCEPT ![e] = EpResume(@)]
  <2>1. ~(e \in Ep) => UNCHANGED eps
    BY <1>3 DEF EpsOK
  <2>2. ASSUME e \in Ep PROVE eps'[e] = EpResume(eps[e])
    BY <1>3, <2>2 DEF EpsOK
  <2>3. ASSUME NEW w \in EpRegs
        PROVE  LET v == EpResume(w)
               IN v \in EpRegs /\ v.type = w.type /\ v.ml = w.ml /\ v.ptr = w.ptr
                  /\ v.size = w.size /\ v.dual = w.dual /\ ~v.halt
    BY DEF EpRegs, EpResume
  <2>4. \A f \in Ep \ {e} : eps'[f] = eps[f]
    BY <1>3 DEF EpsOK
  <2>5. eps' \in [Ep -> EpRegs]
    BY <1>1, <1>3, <2>1, <2>2, <2>3 DEF EpsOK
  <2>6. ASSUME NEW f \in Ep
        PROVE  /\ eps'[f].type = eps[f].type /\ eps'[f].ml = eps[f].ml
               /\ eps'[f].ptr = eps[f].ptr /\ eps'[f].size = eps[f].size
               /\ eps'[f].dual = eps[f].dual /\ (eps'[f].halt => eps'[f].type = "bci")
    <3>1. eps[f] \in EpRegs
      BY DEF EpsOK
    <3>2. CASE f = e
      BY <2>2, <2>3, <3>1, <3>2
    <3>3. CASE f # e
      BY <2>4, <3>3 DEF EpsOK
    <3> QED BY <3>2, <3>3
  <2> QED BY <2>5, <2>6 DEF EpsOK, SameBuffers
<1> QED BY <1>1, <1>2, <1>3 DEF SetFeatureEp, ClearFeatureEp

\* A setting configures its end points.
LEMMA ReconfType ==
  ASSUME EpsOK, NEW c \in Conf, NEW s \in Desc[c], Reconf(s)
  PROVE  /\ EpsOK' /\ SameBuffers
         /\ \A e \in Ep : \/ eps'[e].type = eps[e].type /\ eps'[e].ml = eps[e].ml
                          \/ e \in DOMAIN s.ep /\ eps'[e].ml = s.ep[e].mps
<1>1. \A e \in Ep : eps'[e] = IF e \in DOMAIN s.ep THEN EpConf(e, s, eps[e]) ELSE eps[e]
  BY DEF Reconf
<1>2. \A e \in Ep : /\ eps'[e] \in EpRegs /\ (eps'[e].halt => eps'[e].type = "bci")
                    /\ eps'[e].ptr = eps[e].ptr /\ eps'[e].size = eps[e].size
                    /\ eps'[e].dual = eps[e].dual
                    /\ \/ eps'[e].type = eps[e].type /\ eps'[e].ml = eps[e].ml
                       \/ e \in DOMAIN s.ep /\ eps'[e].ml = s.ep[e].mps
  <2> SUFFICES ASSUME NEW e \in Ep
               PROVE  /\ eps'[e] \in EpRegs /\ (eps'[e].halt => eps'[e].type = "bci")
                      /\ eps'[e].ptr = eps[e].ptr /\ eps'[e].size = eps[e].size
                      /\ eps'[e].dual = eps[e].dual
                      /\ \/ eps'[e].type = eps[e].type /\ eps'[e].ml = eps[e].ml
                         \/ e \in DOMAIN s.ep /\ eps'[e].ml = s.ep[e].mps
    OBVIOUS
  <2>1. eps[e] \in EpRegs
    BY DEF EpsOK
  <2> DEFINE v == EpConf(e, s, eps[e])
  <2>2. /\ v \in EpRegs /\ v.halt = FALSE
        /\ v.ptr = eps[e].ptr /\ v.size = eps[e].size /\ v.dual = eps[e].dual
        /\ e \in DOMAIN s.ep => v.ml = s.ep[e].mps
    BY <2>1, EpConfType
  <2>3. eps'[e] = IF e \in DOMAIN s.ep THEN v ELSE eps[e]
    BY <1>1
  <2> HIDE DEF v
  <2>4. CASE e \in DOMAIN s.ep
    BY <2>2, <2>3, <2>4
  <2>5. CASE e \notin DOMAIN s.ep
    BY <2>1, <2>3, <2>5 DEF EpsOK
  <2> QED BY <2>4, <2>5
<1>3. eps' = [e \in Ep |-> IF e \in DOMAIN s.ep THEN EpConf(e, s, eps[e]) ELSE eps[e]]
  BY DEF Reconf
<1> QED BY <1>2, <1>3 DEF EpsOK, SameBuffers

\* The parts of the type invariant that steps of the stack are shown to keep.
LEMMA TypeParts ==
  ASSUME TypeInv
  PROVE  /\ StackTypeOK /\ RequestsOK /\ ConfiguringOK /\ EpsOK /\ core \in CoreRegs
         /\ ctl \in Control /\ st \in Stack /\ fw \in Place /\ drv \in Drivers
  BY DEF TypeInv, TypeOK, StackTypeOK, EpsOK
LEMMA StackParts ==
  ASSUME core' \in CoreRegs, EpsOK', ctl' \in Control, st' \in Stack, fw' \in Place,
         drv' \in Drivers
  PROVE  StackTypeOK'
  BY DEF StackTypeOK, EpsOK

\* Halting and resuming.
LEMMA HaltTypes ==
  ASSUME TypeInv, SetFeatureEp \/ ClearFeatureEp, UNCHANGED host
  PROVE  TypeInv'
<1> DEFINE ok == CanHalt(ctl.setup.index)
<1>1. PICK name \in {"set_feature_ep", "clear_feature_ep"} : Handle(name) /\ Reply(ok, 0)
  BY DEF SetFeatureEp, ClearFeatureEp
<1>2. ok \in BOOLEAN /\ UNCHANGED <<st, fw, drv>>
  BY DEF CanHalt, SetFeatureEp, ClearFeatureEp
<1>3. ctl.setup # NoReq /\ ctl.setup.name = name /\ fw.pc = "ep0"
  BY <1>1, TypeParts, HandleType DEF RequestName
<1> HIDE DEF ok
<1>4. core' \in CoreRegs /\ ctl' \in Control /\ RequestsOK'
  BY <1>1, <1>2, <1>3, TypeParts, ReplyType, ReplyRequests
<1>5. ConfiguringOK'
  BY <1>2, <1>3, NotConfiguring DEF Configuring
<1> QED BY <1>2, <1>4, <1>5, TypeParts, StackParts, HaltType, TypeInvKept

\* What a setting tells the drivers and leaves of it in the state.
LEMMA ToldIntfType ==
  ASSUME drv \in Drivers, NEW c \in Conf, NEW s \in Desc[c]
  PROVE  ToldIntf(s) \in Drivers /\ s.intf \in Intf
<1>1. s.intf \in Intf /\ s.alt \in Alt
  BY SettingType
<1> QED BY <1>1 DEF ToldIntf, Drivers

\* SET_INTERFACE.
LEMMA SetInterfaceTypes ==
  ASSUME TypeInv, SetInterface, UNCHANGED host
  PROVE  TypeInv'
<1>1. Handle("set_interface") /\ Reply(TRUE, 0) /\ UNCHANGED fw
  BY DEF SetInterface
<1>2. ctl.setup # NoReq /\ ctl.setup.name = "set_interface" /\ fw.pc = "ep0"
  BY <1>1, TypeParts, HandleType DEF RequestName
<1>3. core' \in CoreRegs /\ ctl' \in Control /\ RequestsOK'
  <2>1. TRUE \in BOOLEAN /\ 0 \in Int
    OBVIOUS
  <2> QED BY <1>1, <1>2, <2>1, TypeParts, ReplyType, ReplyRequests
<1>4. ConfiguringOK'
  BY <1>1, <1>2, NotConfiguring DEF Configuring
<1>5. PICK s \in FindIntf(st.conf, ctl.setup.index, ctl.setup.value) :
        /\ Reconf(s) /\ drv' = ToldIntf(s)
        /\ st' = [st EXCEPT !.intf_alt = AltSet(@, s),
                            !.rt = IF s.intf = RtIntf THEN s.intf ELSE @]
  BY DEF SetInterface
<1>6. st.conf \in Conf /\ s \in Desc[st.conf]
  BY <1>5, TypeParts, FindIntfType DEF Stack
<1>7. EpsOK' /\ drv' \in Drivers /\ s.intf \in Intf
  BY <1>5, <1>6, TypeParts, ReconfType, ToldIntfType
<1>8. st' \in Stack
  <2>1. AltSet(st.intf_alt, s) \in SUBSET Intf
        /\ (IF s.intf = RtIntf THEN s.intf ELSE st.rt) \in Intf \cup {NoIntf}
    BY <1>7, TypeParts DEF AltSet, Stack
  <2> QED BY <1>5, <2>1, TypeParts DEF Stack
<1> QED BY <1>1, <1>3, <1>4, <1>7, <1>8, TypeParts, StackParts, TypeInvKept

\* The end points and interfaces of a configuration.
LEMMA ConfParts ==
  ASSUME NEW c \in Conf
  PROVE  EpsOf(c) \subseteq Ep /\ {s.intf : s \in Desc[c]} \subseteq Intf
  BY SettingType DEF EpsOf

\* A multiple of the word size is enough, and not less.
LEMMA Round4Type ==
  ASSUME NEW n \in Nat
  PROVE  Round4(n) \in Nat /\ Round4(n) >= n
  BY DEF Round4

\* The packet sizes of an end point.
LEMMA MpsType ==
  ASSUME NEW c \in Conf, NEW e
  PROVE  Mps(c, e) \subseteq Nat
<1>1. SUFFICES ASSUME NEW s \in Desc[c], e \in DOMAIN s.ep PROVE s.ep[e].mps \in Nat
  BY DEF Mps
<1> QED BY <1>1, SettingType

\* Booting an end point: it gets a buffer, or two, for the largest of its
\* packets, and the memory behind the last one starts further on.
LEMMA BootType ==
  ASSUME EpsOK, st \in Stack, NEW c \in Conf, NEW e \in EpsOf(c), Boot(c, e)
  PROVE  /\ EpsOK' /\ st' \in Stack
         /\ st'.state = st.state /\ st'.conf = st.conf /\ st'.susp = st.susp
         /\ \A f \in Ep \ {e} : eps'[f] = eps[f]
         /\ st'.mem[IF Dir(e) = "in" THEN "out" ELSE "in"]
              = st.mem[IF Dir(e) = "in" THEN "out" ELSE "in"]
         /\ \E size \in Nat :
              /\ \A m \in Mps(c, e) : m <= size
              /\ eps'[e].size = size /\ eps'[e].ptr[0] = st.mem[Dir(e)]
              /\ eps'[e].ptr[1] = IF e \in DualEp THEN st.mem[Dir(e)] + Round4(size)
                                                  ELSE eps[e].ptr[1]
              /\ eps'[e].ml <= size
              /\ st'.mem[Dir(e)] = st.mem[Dir(e)] + Round4(size)
                                   + (IF e \in DualEp THEN Round4(size) ELSE 0)
<1> DEFINE s == Base(c, e)
           d == Dir(e)
           mem == st.mem[d]
<1>1. PICK size \in Mps(c, e) :
        /\ LargestMps(c, e, size)
        /\ eps' = [eps EXCEPT ![e] = EpConf(e, s, Booted(e, @, size, mem))]
        /\ st'  = [st EXCEPT !.mem[d] = @ + Claim(e, size)]
  BY DEF Boot
<1>2. size \in Nat /\ e \in Ep /\ s \in Desc[c] /\ Round4(size) \in Nat
  BY MpsType, BaseType, Round4Type
<1>3. d \in {"in", "out"} /\ mem \in Nat
  BY DEF Dir, Stack
<1>4. \A m \in Mps(c, e) : m <= size
  BY <1>1 DEF LargestMps
<1> DEFINE b == Booted(e, eps[e], size, mem)
<1>5. /\ b \in EpRegs /\ b.size = size /\ b.ptr[0] = mem
      /\ b.ptr[1] = IF e \in DualEp THEN mem + Round4(size) ELSE eps[e].ptr[1]
  <2>1. eps[e] \in EpRegs
    BY <1>2 DEF EpsOK
  <2> HIDE DEF mem, s, d
  <2> DEFINE w == eps[e]
  <2>2. w \in EpRegs
    BY <2>1
  <2> HIDE DEF w
  <2>3. LET v == Booted(e, w, size, mem)
        IN /\ v \in EpRegs /\ v.size = size /\ v.ptr[0] = mem
           /\ v.ptr[1] = IF e \in DualEp THEN mem + Round4(size) ELSE w.ptr[1]
    BY <1>2, <1>3, <2>2, BootedType
  <2> QED BY <2>3 DEF b, w
<1>6. eps'[e] = EpConf(e, s, b)
  BY <1>1, <1>2 DEF EpsOK
<1> DEFINE v == EpConf(e, s, b)
<1> HIDE DEF b
<1>7. /\ v \in EpRegs /\ v.halt = FALSE /\ v.ptr = b.ptr /\ v.size = b.size
      /\ v.ml = IF e \in DOMAIN s.ep THEN s.ep[e].mps ELSE 0
  BY <1>2, <1>5, EpConfType
<1>8. v.ml <= size
  <2>1. CASE e \in DOMAIN s.ep
    <3>1. s.ep[e].mps \in Mps(c, e)
      BY <1>2, <2>1 DEF Mps
    <3> HIDE DEF v
    <3> QED BY <1>4, <1>7, <2>1, <3>1
  <2>2. CASE e \notin DOMAIN s.ep
    <3> HIDE DEF v
    <3> QED BY <1>2, <1>7, <2>2
  <2> QED BY <2>1, <2>2
<1>9. Claim(e, size) = Round4(size) + (IF e \in DualEp THEN Round4(size) ELSE 0)
  BY <1>2 DEF Claim
<1> HIDE DEF v, s
<1>10. \A f \in Ep \ {e} : eps'[f] = eps[f]
  BY <1>1, <1>2 DEF EpsOK
<1>11. EpsOK'
  <2>1. eps' \in [Ep -> EpRegs]
    BY <1>1, <1>2, <1>5, <1>6, <1>7, <1>10 DEF EpsOK, v, b
  <2> QED BY <1>6, <1>7, <1>10, <2>1 DEF EpsOK, v
<1> DEFINE n == Claim(e, size)
<1>12. n \in Nat
  BY <1>2, <1>9
<1> HIDE DEF n, d
<1>13. /\ st' \in Stack /\ st'.state = st.state /\ st'.conf = st.conf /\ st'.susp = st.susp
       /\ st'.mem[d] = mem + n
       /\ \A x \in {"in", "out"} \ {d} : st'.mem[x] = st.mem[x]
  BY <1>1, <1>3, <1>12 DEF Stack, n
<1> QED
  <2>1. (IF d = "in" THEN "out" ELSE "in") \in {"in", "out"} \ {d}
    BY <1>3
  <2>2. st'.mem[d] = mem + Round4(size) + (IF e \in DualEp THEN Round4(size) ELSE 0)
    BY <1>2, <1>3, <1>9, <1>13 DEF n
  <2>3. /\ eps'[e].size = size /\ eps'[e].ptr[0] = mem /\ eps'[e].ml <= size
        /\ eps'[e].ptr[1] = IF e \in DualEp THEN mem + Round4(size) ELSE eps[e].ptr[1]
    BY <1>5, <1>6, <1>7, <1>8 DEF v
  <2> QED BY <1>2, <1>4, <1>10, <1>11, <1>13, <2>1, <2>2, <2>3 DEF d

\* SET_CONFIGURATION until the end points are booted.
LEMMA ConfigureTypes ==
  ASSUME TypeInv, SetConfiguration \/ DispatchSetConf \/ EpsBooted, UNCHANGED host
  PROVE  TypeInv'
<1>1. CASE SetConfiguration
  <2> DEFINE c == ctl.setup.value
             s == [st EXCEPT !.conf = c, !.intf_alt = {}, !.susp = FALSE,
                             !.state = IF c = NoConf THEN "default" ELSE "configured"]
  <2>1. /\ Handle("set_configuration") /\ c \in Conf \cup {NoConf} /\ SetState(s)
        /\ Goto("set_conf") /\ UNCHANGED <<core, eps, ctl>>
    BY <1>1 DEF SetConfiguration
  <2>2. s \in Stack /\ s.conf = c /\ s.state = IF c = NoConf THEN "default" ELSE "configured"
    BY <2>1, TypeParts DEF Stack
  <2> HIDE DEF s
  <2>3. st' = s /\ drv' \in Drivers
    BY <2>1, <2>2, TypeParts, SetStateType
  <2>4. fw' \in Place /\ fw'.pc = "set_conf"
    BY <2>1, TypeParts, GotoType DEF FwPc
  <2>5. ctl.setup.name = "set_configuration"
    BY <2>1 DEF Handle
  <2>6. ConfiguringOK'
    BY <2>1, <2>2, <2>3, <2>4, <2>5 DEF ConfiguringOK
  <2>7. RequestsOK'
    BY <2>1, TypeParts, RequestsKept
  <2>8. EpsOK'
    BY <2>1, TypeParts DEF EpsOK
  <2> QED BY <2>1, <2>2, <2>3, <2>4, <2>6, <2>7, <2>8, TypeParts, StackParts, TypeInvKept
<1>2. CASE DispatchSetConf
  <2>1. /\ fw.pc = "set_conf" /\ drv' = ToldConf(st.conf)
        /\ fw' = [fw EXCEPT !.pc = IF st.conf = NoConf THEN "null" ELSE "boot",
                            !.todo = IF st.conf = NoConf THEN NoTodo ELSE EpsOf(st.conf)]
        /\ UNCHANGED <<core, eps, ctl, st>>
    BY <1>2 DEF DispatchSetConf
  <2>2. st.conf \in Conf \cup {NoConf}
    BY TypeParts DEF Stack
  <2>3. drv' \in Drivers
    BY <2>1, <2>2, TypeParts DEF ToldConf, Drivers
  <2> DEFINE p == IF st.conf = NoConf THEN "null" ELSE "boot"
             todo == IF st.conf = NoConf THEN NoTodo ELSE EpsOf(st.conf)
  <2>4. p \in FwPc /\ todo \in SUBSET (Ep \cup Intf)
    BY <2>2, ConfParts DEF NoTodo, FwPc
  <2>5. fw' = [fw EXCEPT !.pc = p, !.todo = todo]
    BY <2>1
  <2> HIDE DEF p, todo
  <2>6. fw' \in Place /\ fw'.pc = p /\ fw'.todo = todo
    BY <2>4, <2>5, TypeParts DEF Place
  <2>7. ConfiguringOK'
    <3>1. /\ ctl.setup.name = "set_configuration" /\ ctl.setup.value = st.conf
          /\ st.state = IF st.conf = NoConf THEN "default" ELSE "configured"
      BY <2>1, TypeParts DEF ConfiguringOK, Configuring
    <3> QED BY <2>1, <2>6, <3>1 DEF ConfiguringOK, p, todo
  <2>8. RequestsOK' /\ EpsOK'
    BY <2>1, TypeParts, RequestsKept DEF EpsOK
  <2> QED BY <2>1, <2>3, <2>6, <2>7, <2>8, TypeParts, StackParts, TypeInvKept
<1>3. CASE EpsBooted
  <2> DEFINE todo == {s.intf : s \in Desc[st.conf]}
  <2>1. fw.pc = "boot" /\ fw' = [fw EXCEPT !.pc = "set_intf", !.todo = todo]
        /\ UNCHANGED <<core, eps, ctl, st, drv>>
    BY <1>3 DEF EpsBooted
  <2>2. st.conf \in Conf
    BY <2>1, TypeParts DEF Stack, ConfiguringOK
  <2>3. todo \subseteq Intf
    BY <2>2, ConfParts
  <2> HIDE DEF todo
  <2>4. fw' \in Place /\ fw'.pc = "set_intf" /\ fw'.todo = todo
    BY <2>1, <2>3, TypeParts DEF Place, FwPc
  <2>5. ConfiguringOK'
    <3>1. /\ ctl.setup.name = "set_configuration" /\ ctl.setup.value = st.conf
          /\ st.state = (IF st.conf = NoConf THEN "default" ELSE "configured")
          /\ st.conf # NoConf
      BY <2>1, TypeParts DEF ConfiguringOK, Configuring
    <3> QED BY <2>1, <2>3, <2>4, <3>1 DEF ConfiguringOK
  <2>6. RequestsOK' /\ EpsOK'
    BY <2>1, TypeParts, RequestsKept DEF EpsOK
  <2> QED BY <2>1, <2>4, <2>5, <2>6, TypeParts, StackParts, TypeInvKept
<1> QED BY <1>1, <1>2, <1>3

\* The next end point is booted, the next interface gets its setting 0.
LEMMA BootTypes ==
  ASSUME TypeInv, EpBoot \/ DispatchSetIntf, UNCHANGED host
  PROVE  TypeInv'
<1>1. CASE EpBoot
  <2>1. PICK e \in fw.todo : Boot(st.conf, e) /\ fw' = [fw EXCEPT !.todo = @ \ {e}]
    BY <1>1 DEF EpBoot
  <2>2. fw.pc = "boot" /\ UNCHANGED <<core, ctl, drv>>
    BY <1>1 DEF EpBoot
  <2>3. st.conf \in Conf /\ e \in EpsOf(st.conf)
    BY <2>1, <2>2, TypeParts DEF Stack, ConfiguringOK
  <2>4. EpsOK' /\ st' \in Stack /\ st'.conf = st.conf /\ st'.state = st.state
    BY <2>1, <2>3, TypeParts, BootType
  <2>5. fw' \in Place /\ fw'.pc = "boot" /\ fw'.todo = fw.todo \ {e}
    BY <2>1, <2>2, TypeParts DEF Place
  <2>6. ConfiguringOK'
    BY <2>2, <2>4, <2>5, TypeParts DEF ConfiguringOK, Configuring
  <2>7. RequestsOK'
    BY <2>2, TypeParts, RequestsKept
  <2> QED BY <2>2, <2>4, <2>5, <2>6, <2>7, TypeParts, StackParts, TypeInvKept
<1>2. CASE DispatchSetIntf
  <2>1. PICK i \in fw.todo :
          /\ \E s \in FindIntf(st.conf, i, 0) : Reconf(s) /\ drv' = ToldIntf(s)
          /\ st' = [st EXCEPT !.rt = IF i = RtIntf THEN i ELSE @]
          /\ fw' = [fw EXCEPT !.todo = @ \ {i}]
    BY <1>2 DEF DispatchSetIntf
  <2>2. PICK s \in FindIntf(st.conf, i, 0) : Reconf(s) /\ drv' = ToldIntf(s)
    BY <2>1
  <2>3. fw.pc = "set_intf" /\ UNCHANGED <<core, ctl>>
    BY <1>2 DEF DispatchSetIntf
  <2>4. st.conf \in Conf /\ s \in Desc[st.conf] /\ i \in Intf
    BY <2>1, <2>2, <2>3, TypeParts, FindIntfType DEF Stack, ConfiguringOK
  <2>5. EpsOK' /\ drv' \in Drivers
    BY <2>2, <2>4, TypeParts, ReconfType, ToldIntfType
  <2> DEFINE rt == IF i = RtIntf THEN i ELSE st.rt
  <2>6. rt \in Intf \cup {NoIntf} /\ st' = [st EXCEPT !.rt = rt]
    BY <2>1, <2>4, TypeParts DEF Stack
  <2> HIDE DEF rt
  <2>7. st' \in Stack /\ st'.conf = st.conf /\ st'.state = st.state
    BY <2>6, TypeParts DEF Stack
  <2>8. fw' \in Place /\ fw'.pc = "set_intf" /\ fw'.todo = fw.todo \ {i}
    BY <2>1, <2>3, TypeParts DEF Place
  <2>9. ConfiguringOK'
    BY <2>3, <2>7, <2>8, TypeParts DEF ConfiguringOK, Configuring
  <2>10. RequestsOK'
    BY <2>3, TypeParts, RequestsKept
  <2> QED BY <2>3, <2>5, <2>7, <2>8, <2>9, <2>10, TypeParts, StackParts, TypeInvKept
<1> QED BY <1>1, <1>2

\* SET_CONFIGURATION is answered, or hangs.
LEMMA ConfiguredTypes ==
  ASSUME TypeInv, Configured \/ NullEnds \/ NullHangs, UNCHANGED host
  PROVE  TypeInv'
<1>1. CASE Configured \/ NullEnds
  <2>1. /\ fw.pc \in {"set_intf", "null"} /\ Reply(TRUE, 0) /\ Goto("ep0")
        /\ UNCHANGED <<eps, st, drv>>
    BY <1>1 DEF Configured, NullEnds
  <2>2. /\ ctl.setup.name = "set_configuration" /\ ctl.setup.value = st.conf
    BY <2>1, TypeParts DEF ConfiguringOK, Configuring
  <2>3. ctl.setup # NoReq /\ ctl.setup.value # BadConf
    <3>1. st.conf \in Conf \cup {NoConf}
      BY TypeParts DEF Stack
    <3> QED BY <2>2, <3>1, IdleType, HostAssumption
  <2>4. fw' \in Place /\ fw'.pc = "ep0"
    BY <2>1, TypeParts, GotoType DEF FwPc
  <2>5. core' \in CoreRegs /\ ctl' \in Control /\ RequestsOK'
    <3>1. TRUE \in BOOLEAN /\ 0 \in Int
      OBVIOUS
    <3> QED BY <2>1, <2>3, <3>1, TypeParts, ReplyType, ReplyRequests
  <2>6. ConfiguringOK'
    BY <2>4, NotConfiguring DEF Configuring
  <2>7. EpsOK'
    BY <2>1, TypeParts DEF EpsOK
  <2> QED BY <2>1, <2>4, <2>5, <2>6, <2>7, TypeParts, StackParts, TypeInvKept
<1>2. CASE NullHangs
  <2>1. Goto("hung") /\ UNCHANGED <<core, eps, ctl, st, drv>>
    BY <1>2 DEF NullHangs
  <2>2. fw' \in Place /\ fw'.pc = "hung"
    BY <2>1, TypeParts, GotoType DEF FwPc
  <2>3. ConfiguringOK' /\ RequestsOK' /\ EpsOK'
    BY <2>1, <2>2, TypeParts, NotConfiguring, RequestsKept DEF Configuring, EpsOK
  <2> QED BY <2>1, <2>2, <2>3, TypeParts, StackParts, TypeInvKept
<1> QED BY <1>1, <1>2

\* Every step of the firmware.
LEMMA FirmwareTypes ==
  ASSUME TypeInv, ResettingOK, FirmwareStep
  PROVE  TypeInv'
  BY PollTypes, DoneTypes, RebootTypes, ReportTypes, HaltTypes, SetInterfaceTypes,
     ConfigureTypes, BootTypes, ConfiguredTypes DEF FirmwareStep, Firmware, Requests

\* What the host knows, and how a transaction changes a toggle.
LEMMA HostFields ==
  ASSUME TypeInv
  PROVE  /\ host \in HostState /\ host.addr \in Address \cup {0}
         /\ host.conf \in Conf \cup {NoConf} /\ host.confs \in 0 .. MaxConf
         /\ host.alt \in [Intf -> Alt] /\ host.dt \in [Ep -> {0, 1}]
         /\ host.halted \subseteq Ep /\ host.req \in Request \cup {NoReq}
  BY DEF TypeInv, TypeOK, HostState

\* What is left to show of a step that leaves the firmware where it is.
LEMMA HostStepKept ==
  ASSUME TypeInv, core' \in CoreRegs, EpsOK', ctl' \in Control, host' \in HostState,
         RequestsOK', UNCHANGED <<st, fw, drv>>,
         ctl'.setup = ctl.setup \/ fw.pc \notin Configuring
  PROVE  TypeInv'
<1>1. ConfiguringOK'
  BY TypeParts DEF ConfiguringOK, Configuring
<1> QED BY <1>1, TypeParts, StackParts DEF TypeInv, TypeOK

\* Something new is asked, or the same again.
LEMMA SendSetupTypes ==
  ASSUME TypeInv, SendSetup
  PROVE  TypeInv'
<1>1. PICK r \in IF host.req = NoReq THEN HostRequest ELSE {host.req} :
        LET sets == r.name = "set_configuration" /\ r.value # BadConf
        IN /\ sets => host.confs < MaxConf
           /\ SetupReceived(host.addr, r)
           /\ host' = [host EXCEPT !.req = r, !.confs = IF sets THEN @ + 1 ELSE @]
  BY DEF SendSetup
<1>2. Sound(r) /\ r # NoReq
  BY <1>1, TypeParts, HostRequestSound DEF RequestsOK, TypeInv
<1>3. /\ ctl.up /\ ~core.cel
      /\ core' = [core EXCEPT !.cel = TRUE, !.evt = TRUE]
      /\ ctl'  = [ctl EXCEPT !.setup = r]
  BY <1>1 DEF SetupReceived
<1>4. core' \in CoreRegs /\ core'.cel
  BY <1>3, TypeParts DEF CoreRegs
<1>5. r \in Request
  BY <1>2 DEF Sound
<1>6. /\ ctl' \in Control /\ ctl'.setup = r /\ ctl'.req = ctl.req /\ ctl'.phase = ctl.phase
      /\ ctl'.up = ctl.up
  BY <1>3, <1>5, TypeParts DEF Control
<1>7. host' \in HostState /\ host'.req = r
  <2> DEFINE sets == r.name = "set_configuration" /\ r.value # BadConf
             n == IF sets THEN host.confs + 1 ELSE host.confs
  <2>1. n \in 0 .. MaxConf
    BY <1>1, HostFields, HostAssumption
  <2>2. host' = [host EXCEPT !.req = r, !.confs = n]
    BY <1>1
  <2> HIDE DEF n
  <2> QED BY <1>5, <2>1, <2>2, HostFields DEF HostState
<1>8. RequestsOK'
  BY <1>2, <1>3, <1>4, <1>6, <1>7, TypeParts DEF RequestsOK, Sound
<1>9. fw.pc \notin Configuring
  BY <1>3, TypeParts, IdleType DEF ConfiguringOK, RequestsOK
<1> QED BY <1>4, <1>6, <1>7, <1>8, <1>9, TypeParts, HostStepKept DEF SendSetup, EpsOK

\* The end points in use are end points.
LEMMA InUseType ==
  ASSUME TypeInv
  PROVE  /\ \A s \in Settings : host.conf \in Conf /\ s \in Desc[host.conf] /\ s.intf \in Intf
         /\ InUse \subseteq Ep
<1>1. \A s \in Settings : /\ host.conf \in Conf /\ s \in Desc[host.conf] /\ s.intf \in Intf
                          /\ DOMAIN s.ep \subseteq Ep
  BY HostFields, SettingType DEF Settings
<1> QED BY <1>1 DEF InUse

\* What the host learns is what it may know.
LEMMA LearnType ==
  ASSUME TypeInv, Sound(host.req),
         ~(host.req.name = "set_configuration" /\ host.req.value = BadConf)
  PROVE  /\ Learn(host.req) \in HostState
         /\ Learn(host.req).stage = host.stage /\ Learn(host.req).req = host.req
         /\ Learn(host.req).confs = host.confs
         /\ Learn(host.req).conf = IF host.req.name = "set_configuration"
                                   THEN host.req.value ELSE host.conf
         /\ Learn(host.req).addr = IF host.req.name = "set_address"
                                   THEN host.req.value ELSE host.addr
<1> DEFINE r == host.req
<1>1. CASE r.name = "set_address"
  <2>1. r.value \in Address
    BY <1>1 DEF Sound
  <2> QED BY <1>1, <2>1, HostFields DEF Learn, HostState
<1>2. CASE r.name = "set_configuration"
  <2>1. r.value \in Conf \cup {NoConf} /\ [i \in Intf |-> 0] \in [Intf -> Alt]
        /\ [e \in Ep |-> 0] \in [Ep -> {0, 1}]
    BY <1>2, AltZero DEF Sound
  <2> DEFINE a == [i \in Intf |-> 0]
             d == [e \in Ep |-> 0]
             c == r.value
  <2>2. Learn(r) = [host EXCEPT !.conf = c, !.alt = a, !.dt = d, !.halted = {}]
    BY <1>2 DEF Learn
  <2>3. c \in Conf \cup {NoConf} /\ a \in [Intf -> Alt] /\ d \in [Ep -> {0, 1}]
    BY <2>1
  <2> HIDE DEF a, d, c
  <2>4. LET g == Learn(r)
        IN /\ g \in HostState /\ g.stage = host.stage /\ g.req = host.req
           /\ g.confs = host.confs /\ g.conf = c /\ g.addr = host.addr
    BY <2>2, <2>3, HostFields DEF HostState
  <2> QED BY <1>2, <2>4 DEF c
<1>3. CASE r.name = "set_interface"
  <2> DEFINE new == UNION {DOMAIN s.ep : s \in FindIntf(host.conf, r.index, r.value)}
             a == [host.alt EXCEPT ![r.index] = r.value]
             h == host.halted \ new
             d == [e \in Ep |-> IF e \in new THEN 0 ELSE host.dt[e]]
  <2>1. Learn(r) = [host EXCEPT !.alt[r.index] = r.value, !.halted = h, !.dt = d]
    BY <1>3 DEF Learn
  <2>2. a \in [Intf -> Alt]
    BY <1>3, HostFields DEF Sound
  <2>3. h \subseteq Ep /\ d \in [Ep -> {0, 1}]
    BY HostFields
  <2>4. Learn(r) = [host EXCEPT !.alt = a, !.halted = h, !.dt = d]
    BY <2>1
  <2> HIDE DEF a, h, d
  <2>5. LET n == Learn(r)
        IN /\ n \in HostState /\ n.stage = host.stage /\ n.req = host.req
           /\ n.confs = host.confs /\ n.conf = host.conf /\ n.addr = host.addr
    BY <2>2, <2>3, <2>4, HostFields DEF HostState
  <2> QED BY <1>3, <2>5
<1>4. CASE r.name \in {"set_feature_ep", "clear_feature_ep"}
  <2> DEFINE d == [host.dt EXCEPT ![r.index] = 0]
             h == host.halted \cup {r.index}
             g == host.halted \ {r.index}
  <2>1. r.index \in Ep
    BY <1>4 DEF Sound
  <2>2. d \in [Ep -> {0, 1}] /\ h \subseteq Ep /\ g \subseteq Ep
    BY <2>1, HostFields
  <2>3. \/ Learn(r) = [host EXCEPT !.halted = h]
        \/ Learn(r) = [host EXCEPT !.halted = g, !.dt = d]
    BY <1>4 DEF Learn
  <2> HIDE DEF d, h, g
  <2>4. LET n == Learn(r)
        IN /\ n \in HostState /\ n.stage = host.stage /\ n.req = host.req
           /\ n.confs = host.confs /\ n.conf = host.conf /\ n.addr = host.addr
    BY <2>2, <2>3, HostFields DEF HostState
  <2> QED BY <1>4, <2>4
<1>5. CASE r.name \notin {"set_address", "set_configuration", "set_interface",
                          "set_feature_ep", "clear_feature_ep"}
  BY <1>5, HostFields DEF Learn
<1> QED BY <1>1, <1>2, <1>3, <1>4, <1>5

\* A request is complete for the host.
LEMMA CompleteTypes ==
  ASSUME TypeInv, Complete \/ CompleteAckLost
  PROVE  TypeInv'
<1>1. /\ CanComplete /\ Concluded /\ UNCHANGED <<eps, st, fw, drv>>
      /\ StatusAcked \/ Stalled \/ (UNCHANGED <<core, ctl>> /\ ctl.phase = "answer")
  BY DEF Complete, CompleteAckLost
<1>2. host.req # NoReq /\ ctl.req = host.req /\ ctl.phase \in {"answer", "stall"}
  BY <1>1 DEF CanComplete, StatusStage
<1>3. Sound(host.req)
  BY <1>2, TypeParts DEF RequestsOK
<1>4. host' \in HostState /\ host'.req = NoReq
  <2> DEFINE g == IF ctl.phase = "answer" THEN Learn(host.req) ELSE host
  <2>1. ctl.phase = "answer" =>
          ~(host.req.name = "set_configuration" /\ host.req.value = BadConf)
    BY <1>2, TypeParts DEF RequestsOK
  <2>2. g \in HostState
    BY <1>3, <2>1, LearnType, HostFields
  <2>3. host' = [g EXCEPT !.req = NoReq]
    BY <1>1 DEF Concluded
  <2> HIDE DEF g
  <2> QED BY <2>2, <2>3 DEF HostState
<1>5. /\ core' \in CoreRegs /\ core'.cel = core.cel
      /\ ctl' \in Control /\ ctl'.setup = ctl.setup /\ ctl'.up = ctl.up
      /\ \/ ctl'.req = ctl.req /\ ctl.phase = "answer" /\ ctl'.phase \in {"answer", "acked"}
         \/ ctl'.req = NoReq
  <2>1. CASE StatusAcked
    <3>1. core' \in CoreRegs /\ core'.cel = core.cel
      BY <2>1, TypeParts DEF StatusAcked, CoreRegs
    <3>2. ctl' = [ctl EXCEPT !.phase = "acked", !.data = 0] /\ ctl.phase = "answer"
      BY <2>1 DEF StatusAcked
    <3>3. /\ ctl' \in Control /\ ctl'.setup = ctl.setup /\ ctl'.up = ctl.up
          /\ ctl'.req = ctl.req /\ ctl'.phase = "acked"
      <4> DEFINE p == "acked"
                 n == 0
      <4>1. ctl \in Control /\ p \in {"idle", "answer", "stall", "acked"} /\ n \in Int
        BY TypeParts
      <4>2. ctl' = [ctl EXCEPT !.phase = p, !.data = n]
        BY <3>2
      <4> HIDE DEF p, n
      <4>3. /\ ctl' \in Control /\ ctl'.setup = ctl.setup /\ ctl'.up = ctl.up
            /\ ctl'.req = ctl.req /\ ctl'.phase = p
        BY <4>1, <4>2 DEF Control
      <4> QED BY <4>3 DEF p
    <3> QED BY <3>1, <3>2, <3>3
  <2>2. CASE Stalled
    BY <2>2, TypeParts DEF Stalled, CoreRegs, Control
  <2>3. CASE UNCHANGED <<core, ctl>> /\ ctl.phase = "answer"
    BY <2>3, TypeParts
  <2> QED BY <1>1, <2>1, <2>2, <2>3
<1>6. RequestsOK'
  BY <1>4, <1>5, TypeParts, IdleType DEF RequestsOK, Sound
<1> QED BY <1>1, <1>4, <1>5, <1>6, TypeParts, HostStepKept DEF EpsOK

\* A packet moves the toggles of the device and of the host.
LEMMA TransactionTypes ==
  ASSUME TypeInv, Transaction
  PROVE  TypeInv' /\ SameBuffers /\ \A f \in Ep : eps'[f].type = eps[f].type /\ eps'[f].ml = eps[f].ml
<1>1. PICK e \in InUse : /\ eps[e].type = "bci" /\ Moved(e)
                         /\ host' = [host EXCEPT !.dt[e] = 1 - @]
  BY DEF Transaction
<1>2. e \in Ep /\ UNCHANGED <<core, ctl, st, fw, drv>>
  BY <1>1, InUseType DEF Transaction
<1> DEFINE n == 1 - eps[e].dt
           d == [host.dt EXCEPT ![e] = 1 - @]
<1>3. n \in {0, 1} /\ eps[e] \in EpRegs
  BY <1>2, TypeParts DEF EpsOK, EpRegs
<1>4. eps' = [eps EXCEPT ![e] = [eps[e] EXCEPT !.dt = n]]
  BY <1>1, <1>2, TypeParts DEF Moved, EpsOK
<1>5. d \in [Ep -> {0, 1}] /\ host' = [host EXCEPT !.dt = d]
  BY <1>1, <1>2, HostFields
<1> HIDE DEF n, d
<1> DEFINE v == [eps[e] EXCEPT !.dt = n]
<1>6. /\ v \in EpRegs /\ v.type = eps[e].type /\ v.ml = eps[e].ml /\ v.ptr = eps[e].ptr
      /\ v.size = eps[e].size /\ v.dual = eps[e].dual /\ v.halt = eps[e].halt
  BY <1>3 DEF EpRegs
<1>7. eps' = [eps EXCEPT ![e] = v]
  BY <1>4
<1> HIDE DEF v
<1>8. EpsOK' /\ SameBuffers /\ \A f \in Ep : eps'[f].type = eps[f].type /\ eps'[f].ml = eps[f].ml
  BY <1>2, <1>6, <1>7, TypeParts DEF EpsOK, SameBuffers
<1>9. host' \in HostState /\ host'.req = host.req
  BY <1>5, HostFields DEF HostState
<1>10. RequestsOK'
  BY <1>2, <1>9, TypeParts DEF RequestsOK, Sound
<1> QED BY <1>2, <1>8, <1>9, <1>10, TypeParts, HostStepKept

\* The bus.
LEMMA BusTypes ==
  ASSUME TypeInv,
         \/ ResetStart \/ ResetEnd \/ Recovered \/ LineLow \/ LineHigh \/ Suspend \/ Sof
  PROVE  TypeInv'
<1>1. UNCHANGED <<eps, ctl, st, fw, drv>>
  BY DEF ResetStart, ResetEnd, Recovered, LineLow, LineHigh, Suspend, Sof
<1>2. core' \in CoreRegs /\ core'.cel = core.cel
  <2>1. CASE BusResetOn
    BY <2>1, TypeParts DEF BusResetOn, CoreRegs
  <2>2. CASE BusResetOff
    BY <2>2, TypeParts DEF BusResetOff, CoreRegs
  <2>3. CASE SuspendOn
    BY <2>3, TypeParts DEF SuspendOn, CoreRegs
  <2>4. CASE SofSeen
    BY <2>4, TypeParts DEF SofSeen, CoreRegs
  <2>5. CASE UNCHANGED core
    BY <2>5, TypeParts
  <2> QED BY <2>1, <2>2, <2>3, <2>4, <2>5
          DEF ResetStart, ResetEnd, Recovered, LineLow, LineHigh, Suspend, Sof
<1>3. host' \in HostState /\ host'.req \in {host.req, NoReq}
  <2>1. CASE ResetStart
    <3>1. HostReset("reset") \in HostState
      BY AltZero, HostAssumption DEF HostReset, HostState
    <3> QED BY <2>1, <3>1 DEF ResetStart, HostReset
  <2>2. CASE ResetEnd \/ Recovered
    BY <2>2, HostFields DEF ResetEnd, Recovered, HostState
  <2>3. CASE UNCHANGED host
    BY <2>3, HostFields
  <2> QED BY <2>1, <2>2, <2>3 DEF LineLow, LineHigh, Suspend, Sof
<1>4. RequestsOK'
  BY <1>1, <1>2, <1>3, TypeParts DEF RequestsOK, Sound
<1> QED BY <1>1, <1>2, <1>3, <1>4, TypeParts, HostStepKept DEF EpsOK

\* The application connects and disconnects.
LEMMA AttachTypes ==
  ASSUME TypeInv, Attach \/ Detach
  PROVE  TypeInv'
<1>1. /\ fw.pc = "poll" /\ UNCHANGED <<eps, ctl, fw>>
      /\ \E b \in BOOLEAN : core' = [core EXCEPT !.pu = b]
      /\ \E s : /\ s \in {[st EXCEPT !.state = "connected"],
                          [st EXCEPT !.state = "disconnected", !.susp = FALSE]}
                /\ SetState(s)
      /\ \E stage \in {"attached", "detached"} : host' = HostReset(stage)
  <2>1. CASE Attach
    BY <2>1 DEF Attach, Connect
  <2>2. CASE Detach
    BY <2>2 DEF Detach, Disconnect
  <2> QED BY <2>1, <2>2
<1>2. core' \in CoreRegs /\ core'.cel = core.cel
  BY <1>1, TypeParts DEF CoreRegs
<1>3. st' \in Stack /\ drv' \in Drivers
  <2>1. [st EXCEPT !.state = "connected"] \in Stack
    BY TypeParts DEF Stack
  <2>2. [st EXCEPT !.state = "disconnected", !.susp = FALSE] \in Stack
    BY TypeParts DEF Stack
  <2> QED BY <1>1, <2>1, <2>2, TypeParts, SetStateType
<1>4. host'.req = NoReq
  BY <1>1 DEF HostReset
<1>5. RequestsOK'
  BY <1>1, <1>2, <1>4, TypeParts DEF RequestsOK, Sound
<1>6. ConfiguringOK'
  BY <1>1, NotConfiguring DEF Configuring
<1>7. EpsOK'
  BY <1>1, TypeParts DEF EpsOK
<1>8. StackTypeOK'
  BY <1>1, <1>2, <1>3, <1>7, TypeParts, StackParts
<1> QED BY <1>1, <1>5, <1>6, <1>8, HostResetType DEF TypeInv

-----------------------------------------------------------------------------
(* Nothing is left of a session while a reset is handled, and end point 0   *)
(* is there for what needs it.                                              *)

\* A step that keeps end point 0 and stays out of the handling of a reset.
LEMMA ResettingKept ==
  ASSUME ResettingOK, ctl' = ctl \/ (ctl.up /\ ctl'.up), fw'.pc \notin Resetting,
         fw'.pc \in Configuring => ctl.up
  PROVE  ResettingOK'
  BY DEF ResettingOK, Resetting, Configuring

\* Handling a request.
LEMMA RequestsUp ==
  ASSUME TypeInv, ResettingOK, Requests
  PROVE  ctl.up /\ ctl'.up /\ fw.pc = "ep0" /\ (UNCHANGED fw \/ fw'.pc = "set_conf")
<1>1. PICK name \in RequestName : Handle(name)
  BY DEF Requests, GetStatusDev, GetStatusIntf, GetStatusEp, SetFeatureEp, ClearFeatureEp,
         SetAddress, GetConfiguration, SetConfiguration, SetConfigurationRefused,
         GetInterface, SetInterface, SetInterfaceRefused, GetDescriptor, OtherFeature,
         DfuDetach, DfuGetStatus, RequestName
<1>2. fw.pc = "ep0" /\ ctl.setup # NoReq
  BY <1>1, TypeParts, HandleType
<1>3. ctl.up
  BY <1>2, TypeParts DEF RequestsOK
<1>4. UNCHANGED ctl \/ ctl'.up = ctl.up
  <2>1. UNCHANGED ctl \/ \E phase, data : ctl' = [ctl EXCEPT !.setup = NoReq, !.req = ctl.setup,
                                             !.phase = phase, !.data = data]
    BY DEF Requests, GetStatusDev, GetStatusIntf, GetStatusEp, SetFeatureEp, ClearFeatureEp,
         SetAddress, GetConfiguration, SetConfiguration, SetConfigurationRefused,
         GetInterface, SetInterface, SetInterfaceRefused, GetDescriptor, OtherFeature,
         DfuDetach, DfuGetStatus, Reply, Answer
  <2> QED BY <2>1, TypeParts DEF Control
<1>5. UNCHANGED fw \/ Goto("set_conf")
  BY DEF Requests, GetStatusDev, GetStatusIntf, GetStatusEp, SetFeatureEp, ClearFeatureEp,
         SetAddress, GetConfiguration, SetConfiguration, SetConfigurationRefused,
         GetInterface, SetInterface, SetInterfaceRefused, GetDescriptor, OtherFeature,
         DfuDetach, DfuGetStatus, Local
<1>6. UNCHANGED fw \/ fw'.pc = "set_conf"
  BY <1>5, TypeParts, GotoType DEF FwPc
<1> QED BY <1>2, <1>3, <1>4, <1>6

\* Every step keeps it.
LEMMA ResettingStep ==
  ASSUME TypeInv, ResettingOK, DeviceNext
  PROVE  ResettingOK'
<1>1. CASE Requests
  <2>1. fw.pc = "ep0" /\ (fw'.pc = "ep0" \/ fw'.pc = "set_conf") /\ ctl.up /\ ctl'.up
    BY <1>1, RequestsUp
  <2> QED BY <2>1, ResettingKept DEF Resetting, Configuring
<1>2. CASE Poll \/ SetDefault \/ Suspended \/ Active \/ Drain \/ Polled
  <2>1. UNCHANGED ctl
    BY <1>2 DEF Poll, SetDefault, Suspended, Active, Drain, Polled
  <2>2. fw'.pc \in {"hw_reset", "suspend", "poll", "drain", "ep0"}
    <3>1. CASE Poll
      BY <3>1, TypeParts DEF Poll, Place
    <3>2. CASE SetDefault \/ Suspended \/ Active \/ Drain \/ Polled
      BY <3>2, TypeParts, GotoType
         DEF SetDefault, Suspended, Active, Drain, Polled, FwPc
    <3> QED BY <1>2, <3>1, <3>2
  <2> QED BY <2>1, <2>2, ResettingKept DEF Resetting, Configuring
<1>3. CASE HwReset
  <2>1. eps' = [e \in Ep |-> NoEp] /\ ctl' = Idle /\ fw'.pc = "csr"
    BY <1>3, TypeParts, GotoType DEF HwReset, FwPc
  <2> QED BY <2>1 DEF ResettingOK, Resetting, Configuring, Blank
<1>4. CASE ResetCsr \/ ResetAr
  <2>1. UNCHANGED <<eps, ctl>> /\ fw.pc \in {"csr", "ar"} /\ fw'.pc \in {"ar", "ep0_reset"}
    BY <1>4, TypeParts, GotoType DEF ResetCsr, ResetAr, FwPc
  <2> QED BY <2>1 DEF ResettingOK, Resetting, Configuring, Blank
<1>5. CASE ResetEp0
  <2>1. ctl'.up /\ fw'.pc = "default"
    BY <1>5, TypeParts, GotoType, IdleType DEF ResetEp0, FwPc
  <2> QED BY <2>1 DEF ResettingOK, Resetting, Configuring
<1>6. CASE SetAddrDone \/ OtherDone
  <2>1. ctl.up
    BY <1>6, IdleType DEF ResettingOK, SetAddrDone, OtherDone, Done
  <2>2. ctl'.up /\ UNCHANGED fw /\ fw.pc = "ep0"
    BY <1>6, <2>1, TypeParts, DoneType DEF SetAddrDone, OtherDone, Done
  <2> QED BY <2>1, <2>2, ResettingKept DEF Resetting, Configuring
<1>7. CASE Reboot
  <2>1. ctl' = Idle /\ fw'.pc = "poll"
    BY <1>7 DEF Reboot, Detached
  <2> QED BY <2>1, IdleType DEF ResettingOK, Resetting, Configuring
<1>8. CASE DispatchSetConf \/ EpBoot \/ EpsBooted \/ DispatchSetIntf \/ NullHangs
  <2>1. UNCHANGED ctl /\ fw.pc \in Configuring
    BY <1>8 DEF DispatchSetConf, EpBoot, EpsBooted, DispatchSetIntf, NullHangs, Configuring
  <2>2. fw'.pc \in {"null", "boot", "set_intf", "hung"}
    BY <1>8, TypeParts
       DEF DispatchSetConf, EpBoot, EpsBooted, DispatchSetIntf, NullHangs, Goto, Place
  <2> QED BY <2>1, <2>2 DEF ResettingOK, Resetting, Configuring
<1>9. CASE Configured \/ NullEnds
  <2>1. fw.pc \in Configuring /\ Reply(TRUE, 0) /\ fw'.pc = "ep0"
    BY <1>9, TypeParts, GotoType DEF Configured, NullEnds, Configuring, FwPc
  <2>2. TRUE \in BOOLEAN /\ 0 \in Int
    OBVIOUS
  <2>3. ctl.up /\ ctl'.up
    BY <2>1, <2>2, TypeParts, ReplyType DEF ResettingOK
  <2> QED BY <2>1, <2>3, ResettingKept DEF Resetting, Configuring
<1>10. CASE Attach \/ Detach
  <2>1. UNCHANGED <<eps, ctl, fw>>
    BY <1>10 DEF Attach, Detach, Connect, Disconnect
  <2> QED BY <2>1 DEF ResettingOK, Resetting, Configuring, Blank
<1>11. CASE SendSetup
  <2>1. ctl.up /\ UNCHANGED <<eps, fw>> /\ \E r : ctl' = [ctl EXCEPT !.setup = r]
    BY <1>11 DEF SendSetup, SetupReceived
  <2>2. ctl'.up
    BY <2>1, TypeParts DEF Control
  <2>3. fw.pc \notin Resetting
    BY <2>1, IdleType DEF ResettingOK
  <2> QED BY <2>1, <2>2, <2>3 DEF ResettingOK
<1>12. CASE Complete \/ CompleteAckLost
  <2>1. ctl.up /\ UNCHANGED <<eps, fw>>
    BY <1>12 DEF Complete, CompleteAckLost, CanComplete, StatusStage
  <2>2. ctl'.up
    <3>1. CASE StatusAcked \/ Stalled
      BY <2>1, <3>1, TypeParts DEF StatusAcked, Stalled, Control
    <3>2. CASE UNCHANGED ctl
      BY <2>1, <3>2
    <3> QED BY <1>12, <3>1, <3>2 DEF Complete, CompleteAckLost
  <2>3. fw.pc \notin Resetting
    BY <2>1, IdleType DEF ResettingOK
  <2> QED BY <2>1, <2>2, <2>3 DEF ResettingOK
<1>13. CASE Transaction
  <2>1. UNCHANGED <<ctl, fw>> /\ \E e \in InUse : eps[e].type = "bci"
    BY <1>13 DEF Transaction
  <2>2. ~Blank
    BY <2>1, InUseType, BlankType DEF Blank
  <2> QED BY <2>1, <2>2 DEF ResettingOK
<1>14. CASE ResetStart \/ ResetEnd \/ Recovered \/ LineLow \/ LineHigh \/ Suspend \/ Sof
  <2>1. UNCHANGED <<eps, ctl, fw>>
    BY <1>14 DEF ResetStart, ResetEnd, Recovered, LineLow, LineHigh, Suspend, Sof
  <2> QED BY <2>1 DEF ResettingOK, Blank
<1> QED BY <1>1, <1>2, <1>3, <1>4, <1>5, <1>6, <1>7, <1>8, <1>9, <1>10, <1>11, <1>12, <1>13,
           <1>14 DEF DeviceNext, FirmwareStep, Firmware

\* Every step of the device and of the host keeps the types.
LEMMA TypeStep ==
  ASSUME TypeInv, ResettingOK, DeviceNext
  PROVE  TypeInv'
  BY FirmwareTypes, SendSetupTypes, CompleteTypes, TransactionTypes, BusTypes, AttachTypes
     DEF DeviceNext

\* And so do the initial states.
LEMMA TypeInit ==
  ASSUME DeviceInit
  PROVE  TypeInv /\ ResettingOK
<1>1. core \in CoreRegs /\ EpsOK /\ ctl \in Control
  BY BlankType, IdleType DEF DeviceInit, Init, CoreRegs, EpsOK
<1>2. st \in Stack /\ drv \in Drivers
  BY DEF DeviceInit, Init, StInit, DrvInit, Stack, Drivers
<1>3. fw \in Place /\ fw.pc = "poll"
  BY DEF DeviceInit, Init, NoCsr, NoTodo, Place, FwPc
<1>4. host \in HostState /\ host.req = NoReq
  BY AltZero, HostAssumption DEF DeviceInit, HostReset, HostState
<1>5. ctl = Idle
  BY DEF DeviceInit, Init
<1>6. RequestsOK
  BY <1>4, <1>5, IdleType DEF RequestsOK
<1>7. ConfiguringOK /\ ResettingOK
  BY <1>3, <1>5, IdleType DEF ConfiguringOK, ResettingOK, Resetting, Configuring
<1> QED BY <1>1, <1>2, <1>3, <1>4, <1>6, <1>7
        DEF TypeInv, TypeOK, StackTypeOK, EpsOK

\* Nothing happens.
LEMMA TypeStutter ==
  ASSUME TypeInv, ResettingOK, UNCHANGED vars
  PROVE  TypeInv' /\ ResettingOK'
<1>1. TypeOK'
  BY DEF TypeInv, TypeOK, StackTypeOK, vars
<1>2. RequestsOK'
  BY DEF TypeInv, RequestsOK, Sound, vars
<1>3. ConfiguringOK' /\ ResettingOK'
  BY DEF TypeInv, ConfiguringOK, ResettingOK, Resetting, Configuring, Blank, vars
<1> QED BY <1>1, <1>2, <1>3 DEF TypeInv

\* The type invariant of the device and its host, whatever the end points, the
\* configurations, the descriptors and the addresses are, and however many
\* configurations the host selects.
THEOREM TypeCorrect == Spec => []TypeOK
<1>1. DeviceInit => TypeInv /\ ResettingOK
  BY TypeInit
<1>2. TypeInv /\ ResettingOK /\ [DeviceNext]_vars => (TypeInv /\ ResettingOK)'
  BY TypeStep, ResettingStep, TypeStutter
<1>3. TypeInv => TypeOK
  BY DEF TypeInv
<1> QED BY <1>1, <1>2, <1>3, PTL DEF Spec

-----------------------------------------------------------------------------
(* The allocator.                                                          *)

\* A step that neither gives away memory nor takes it back.
LEMMA MemoryKept ==
  ASSUME MemoryOK, BuffersApart, SameBuffers, st'.mem = st.mem, ctl'.up => ctl.up
  PROVE  MemoryOK' /\ BuffersApart'
<1>1. \A e \in Ep : Allocated(e)' = Allocated(e)
  BY DEF SameBuffers, Allocated
<1>2. MemoryOK'
  BY <1>1 DEF MemoryOK, SameBuffers
<1>3. BuffersApart'
  BY <1>1 DEF BuffersApart, SameBuffers, Overlap
<1> QED BY <1>2, <1>3

\* Without end points nothing is allocated.
LEMMA MemoryBlank ==
  ASSUME Blank'
  PROVE  /\ BuffersApart'
         /\ (ctl'.up => \A d \in {"in", "out"} : st'.mem[d] >= MemReset[d]) => MemoryOK'
<1>1. \A e \in Ep : Allocated(e)' = {}
  BY DEF Blank, NoEp, Allocated
<1> QED BY <1>1 DEF MemoryOK, BuffersApart

\* The buffers of an end point that is booted lie behind all others.
LEMMA MemoryBoot ==
  ASSUME TypeInv, TypeInv', MemoryOK, BuffersApart, ctl.up, UNCHANGED ctl,
         NEW e \in EpsOf(st.conf), st.conf \in Conf, Boot(st.conf, e)
  PROVE  MemoryOK' /\ BuffersApart'
<1> DEFINE d == Dir(e)
           o == IF d = "in" THEN "out" ELSE "in"
<1>1. PICK size \in Nat :
        /\ eps'[e].size = size /\ eps'[e].ptr[0] = st.mem[d]
        /\ eps'[e].ptr[1] = IF e \in DualEp THEN st.mem[d] + Round4(size) ELSE eps[e].ptr[1]
        /\ st'.mem[d] = st.mem[d] + Round4(size)
                        + (IF e \in DualEp THEN Round4(size) ELSE 0)
  BY TypeParts, BootType
<1>2. /\ \A f \in Ep \ {e} : eps'[f] = eps[f]
      /\ st'.mem[o] = st.mem[o]
  BY TypeParts, BootType
<1>3. e \in Ep /\ Round4(size) \in Nat
  BY ConfParts, Round4Type
<1>4. /\ d \in {"in", "out"} /\ o \in {"in", "out"} /\ d # o
      /\ \A f \in Ep : Dir(f) \in {d, o}
  BY DEF Dir
<1>5. /\ st.mem[d] \in Nat /\ st.mem[o] \in Nat /\ MemReset[d] \in Nat /\ MemReset[o] \in Nat
      /\ MemReset[d] > 0 /\ st.mem[d] >= MemReset[d] /\ st.mem[o] >= MemReset[o]
  BY <1>4, TypeParts DEF Stack, MemoryOK, MemReset
<1> HIDE DEF d, o
<1>6. st'.mem[d] \in Nat /\ st'.mem[d] >= st.mem[d]
  BY <1>1, <1>3, <1>5
<1>7. \A f \in Ep \ {e} : Allocated(f)' = Allocated(f)
  BY <1>2 DEF Allocated
<1>8. 1 \in Allocated(e)' => e \in DualEp
  BY <1>1, <1>3 DEF Allocated, MemoryOK
\* The new buffers, between the old and the new end.
<1>9. ASSUME NEW i \in Allocated(e)'
      PROVE  /\ eps'[e].ptr[i] >= st.mem[d] /\ eps'[e].ptr[i] \in Nat
             /\ eps'[e].ptr[i] + Round4(size) <= st'.mem[d]
  <2>1. i \in {0, 1} /\ (i = 1 => e \in DualEp)
    BY <1>8 DEF Allocated
  <2> QED BY <1>1, <1>3, <1>5, <2>1
\* The old ones.
<1>10. ASSUME NEW f \in Ep \ {e}, NEW i \in Allocated(f)'
       PROVE  /\ eps'[f].ptr[i] = eps[f].ptr[i] /\ eps'[f].size = eps[f].size
              /\ eps[f].ptr[i] \in Nat /\ Round4(eps[f].size) \in Nat
              /\ eps[f].ptr[i] >= MemReset[Dir(f)]
              /\ eps[f].ptr[i] + Round4(eps[f].size) <= st.mem[Dir(f)]
  <2>1. i \in Allocated(f) /\ i \in {0, 1}
    BY <1>7 DEF Allocated
  <2>2. eps[f] \in EpRegs
    BY TypeParts DEF EpsOK
  <2>3. eps[f].ptr[i] \in Nat /\ Round4(eps[f].size) \in Nat
    BY <2>1, <2>2, Round4Type DEF EpRegs
  <2> QED BY <1>2, <2>1, <2>3 DEF MemoryOK
<1>11. MemoryOK'
  <2>1. \A x \in {"in", "out"} : st'.mem[x] >= MemReset[x]
    BY <1>2, <1>4, <1>5, <1>6
  <2>2. ASSUME NEW f \in Ep, NEW i \in Allocated(f)'
        PROVE  /\ eps'[f].ptr[i] >= MemReset[Dir(f)]
               /\ eps'[f].ptr[i] + Round4(eps'[f].size) <= st'.mem[Dir(f)]
    <3>1. CASE f = e
      BY <1>1, <1>5, <1>9, <2>2, <3>1 DEF d
    <3>2. CASE f # e
      <4>1. Dir(f) = d \/ Dir(f) = o
        BY <1>4
      <4> QED BY <1>2, <1>5, <1>6, <1>10, <2>2, <3>2, <4>1
    <3> QED BY <3>1, <3>2
  <2>3. \A f \in Ep \ DualEp : 1 \notin Allocated(f)'
    BY <1>7, <1>8 DEF MemoryOK
  <2> QED BY <2>1, <2>2, <2>3 DEF MemoryOK
<1>12. BuffersApart'
  <2>1. \A f \in Ep : \A i \in Allocated(f)' : eps'[f].ptr[i] >= MemReset[Dir(f)]
    BY <1>11 DEF MemoryOK
  <2>2. ASSUME NEW f \in Ep, NEW g \in Ep, Dir(f) = Dir(g),
               NEW i \in Allocated(f)', NEW j \in Allocated(g)', <<f, i>> # <<g, j>>
        PROVE  ~Overlap(f, i, g, j)'
    <3>1. CASE f # e /\ g # e
      <4>1. i \in Allocated(f) /\ j \in Allocated(g)
        BY <1>7, <2>2, <3>1
      <4>2. ~Overlap(f, i, g, j)
        BY <2>2, <4>1 DEF BuffersApart
      <4> QED BY <1>2, <3>1, <4>2 DEF Overlap
    <3>2. CASE f = e /\ g # e
      BY <1>1, <1>3, <1>5, <1>9, <1>10, <2>2, <3>2 DEF Overlap, d
    <3>3. CASE f # e /\ g = e
      BY <1>1, <1>3, <1>5, <1>9, <1>10, <2>2, <3>3 DEF Overlap, d
    <3>4. CASE f = e /\ g = e
      <4>1. i \in {0, 1} /\ j \in {0, 1} /\ i # j /\ e \in DualEp
        BY <1>8, <2>2, <3>4 DEF Allocated
      <4> QED BY <1>1, <1>3, <1>5, <3>4, <4>1 DEF Overlap
    <3> QED BY <3>1, <3>2, <3>3, <3>4
  <2> QED BY <2>1, <2>2 DEF BuffersApart
<1> QED BY <1>11, <1>12

\* A new state of the device leaves the memory alone.
LEMMA SameMemory ==
  ASSUME st \in Stack, NEW s,
         s \in {[st EXCEPT !.state = "connected"],
                [st EXCEPT !.state = "disconnected", !.susp = FALSE],
                [st EXCEPT !.state = "default", !.susp = FALSE],
                [st EXCEPT !.susp = TRUE], [st EXCEPT !.susp = FALSE]}
  PROVE  s.mem = st.mem
  BY DEF Stack

\* Requests leave the buffers alone.
LEMMA RequestsMemory ==
  ASSUME TypeInv, Requests
  PROVE  SameBuffers /\ st'.mem = st.mem
<1>1. CASE UNCHANGED <<eps, st>>
  BY <1>1 DEF SameBuffers
<1>2. CASE SetFeatureEp \/ ClearFeatureEp
  <2>1. SameBuffers
    BY <1>2, TypeParts, HaltType
  <2> QED BY <1>2, <2>1 DEF SetFeatureEp, ClearFeatureEp
<1>3. CASE SetInterface
  <2>1. PICK s \in FindIntf(st.conf, ctl.setup.index, ctl.setup.value) :
          /\ Reconf(s)
          /\ st' = [st EXCEPT !.intf_alt = AltSet(@, s),
                              !.rt = IF s.intf = RtIntf THEN s.intf ELSE @]
    BY <1>3 DEF SetInterface
  <2>2. st.conf \in Conf /\ s \in Desc[st.conf]
    BY <2>1, TypeParts, FindIntfType DEF Stack
  <2>3. SameBuffers
    BY <2>1, <2>2, TypeParts, ReconfType
  <2>4. st'.mem = st.mem
    BY <2>1, TypeParts DEF Stack
  <2> QED BY <2>3, <2>4
<1>4. CASE SetConfiguration
  <2>1. UNCHANGED eps
    BY <1>4 DEF SetConfiguration
  <2>2. st'.mem = st.mem
    BY <1>4, TypeParts DEF SetConfiguration, SetState, Stack
  <2> QED BY <2>1, <2>2 DEF SameBuffers
<1> QED BY <1>1, <1>2, <1>3, <1>4
        DEF Requests, GetStatusDev, GetStatusIntf, GetStatusEp, SetAddress,
            GetConfiguration, SetConfigurationRefused, GetInterface, SetInterfaceRefused,
            GetDescriptor, OtherFeature, DfuDetach, DfuGetStatus, Local

\* Every step keeps the allocator right.
LEMMA MemoryStep ==
  ASSUME TypeInv, TypeInv', ResettingOK, ResettingOK', MemoryOK, BuffersApart, DeviceNext
  PROVE  MemoryOK' /\ BuffersApart'
<1>1. CASE Requests
  BY <1>1, RequestsUp, RequestsMemory, MemoryKept
<1>2. CASE HwReset \/ Reboot
  <2>1. Blank' /\ ctl' = Idle
    BY <1>2 DEF HwReset, Reboot, Detached, Blank
  <2> QED BY <2>1, MemoryBlank, IdleType
<1>3. CASE ResetEp0
  <2>1. Blank'
    BY <1>3 DEF ResetEp0, ResettingOK, Resetting, Blank
  <2>2. st'.mem = MemReset
    BY <1>3, TypeParts DEF ResetEp0, Stack
  <2>3. \A d \in {"in", "out"} : st'.mem[d] >= MemReset[d]
    BY <2>2 DEF MemReset
  <2> QED BY <2>1, <2>3, MemoryBlank
<1>4. CASE Poll \/ ResetCsr \/ ResetAr \/ Drain \/ Polled \/ DispatchSetConf \/ EpsBooted
           \/ NullHangs
  <2>1. UNCHANGED <<eps, ctl, st>>
    BY <1>4 DEF Poll, ResetCsr, ResetAr, Drain, Polled, DispatchSetConf, EpsBooted, NullHangs
  <2> QED BY <2>1, MemoryKept DEF SameBuffers
<1>5. CASE SetDefault \/ Suspended \/ Active \/ Attach \/ Detach
  <2>1. UNCHANGED <<eps, ctl>>
    BY <1>5 DEF SetDefault, Suspended, Active, Attach, Detach, Connect, Disconnect
  <2>2. st' \in {[st EXCEPT !.state = "connected"],
                 [st EXCEPT !.state = "disconnected", !.susp = FALSE],
                 [st EXCEPT !.state = "default", !.susp = FALSE],
                 [st EXCEPT !.susp = TRUE], [st EXCEPT !.susp = FALSE]}
    BY <1>5 DEF SetDefault, Suspended, Active, Attach, Detach, Connect, Disconnect,
                SetState, Resumed
  <2>3. st'.mem = st.mem
    BY <2>2, TypeParts, SameMemory
  <2> QED BY <2>1, <2>3, MemoryKept DEF SameBuffers
<1>6. CASE SetAddrDone \/ OtherDone
  <2>1. UNCHANGED <<eps, st>> /\ ctl'.up = ctl.up
    BY <1>6, TypeParts, DoneType DEF SetAddrDone, OtherDone
  <2> QED BY <2>1, MemoryKept DEF SameBuffers
<1>7. CASE EpBoot
  <2>1. PICK e \in fw.todo : Boot(st.conf, e)
    BY <1>7 DEF EpBoot
  <2>2. fw.pc = "boot" /\ UNCHANGED ctl
    BY <1>7 DEF EpBoot
  <2>3. st.conf \in Conf /\ e \in EpsOf(st.conf) /\ ctl.up
    BY <2>1, <2>2, TypeParts DEF Stack, ConfiguringOK, ResettingOK, Configuring
  <2> QED BY <2>1, <2>2, <2>3, MemoryBoot
<1>8. CASE DispatchSetIntf
  <2>1. PICK i \in fw.todo :
          /\ \E s \in FindIntf(st.conf, i, 0) : Reconf(s)
          /\ st' = [st EXCEPT !.rt = IF i = RtIntf THEN i ELSE @]
    BY <1>8 DEF DispatchSetIntf
  <2>2. PICK s \in FindIntf(st.conf, i, 0) : Reconf(s)
    BY <2>1
  <2>3. st.conf \in Conf /\ s \in Desc[st.conf] /\ UNCHANGED ctl
    BY <1>8, <2>2, TypeParts, FindIntfType DEF Stack, DispatchSetIntf
  <2>4. SameBuffers
    BY <2>2, <2>3, TypeParts, ReconfType
  <2>5. st'.mem = st.mem
    BY <2>1, TypeParts DEF Stack
  <2> QED BY <2>3, <2>4, <2>5, MemoryKept
<1>9. CASE Configured \/ NullEnds
  <2>1. UNCHANGED <<eps, st>> /\ Reply(TRUE, 0)
    BY <1>9 DEF Configured, NullEnds
  <2>2. TRUE \in BOOLEAN /\ 0 \in Int
    OBVIOUS
  <2>3. ctl'.up = ctl.up
    BY <2>1, <2>2, TypeParts, ReplyType
  <2> QED BY <2>1, <2>3, MemoryKept DEF SameBuffers
<1>10. CASE SendSetup \/ Complete \/ CompleteAckLost
  <2>1. UNCHANGED <<eps, st>> /\ ctl.up
    BY <1>10 DEF SendSetup, SetupReceived, Complete, CompleteAckLost, CanComplete, StatusStage
  <2> QED BY <2>1, MemoryKept DEF SameBuffers
<1>11. CASE Transaction
  <2>1. SameBuffers
    BY <1>11, TransactionTypes
  <2>2. UNCHANGED <<ctl, st>>
    BY <1>11 DEF Transaction
  <2> QED BY <2>1, <2>2, MemoryKept
<1>12. CASE ResetStart \/ ResetEnd \/ Recovered \/ LineLow \/ LineHigh \/ Suspend \/ Sof
  <2>1. UNCHANGED <<eps, ctl, st>>
    BY <1>12 DEF ResetStart, ResetEnd, Recovered, LineLow, LineHigh, Suspend, Sof
  <2> QED BY <2>1, MemoryKept DEF SameBuffers
<1> QED BY <1>1, <1>2, <1>3, <1>4, <1>5, <1>6, <1>7, <1>8, <1>9, <1>10, <1>11, <1>12
        DEF DeviceNext, FirmwareStep, Firmware

\* The buffers of end points do not overlap each other or those of end point 0:
\* not with packet sizes that are no multiple of a word, not with two
\* descriptors, and not after any sequence of resets and selections.
THEOREM BuffersApartCorrect == Spec => []BuffersApart
<1> DEFINE Inv == TypeInv /\ ResettingOK /\ MemoryOK /\ BuffersApart
<1>1. DeviceInit => Inv
  <2> SUFFICES ASSUME DeviceInit PROVE Inv
    OBVIOUS
  <2>1. eps = [e \in Ep |-> NoEp] /\ ~ctl.up
    BY IdleType DEF DeviceInit, Init
  <2>2. \A e \in Ep : Allocated(e) = {}
    BY <2>1 DEF NoEp, Allocated
  <2> QED BY <2>1, <2>2, TypeInit DEF MemoryOK, BuffersApart
<1>2. Inv /\ [DeviceNext]_vars => Inv'
  <2>1. ASSUME Inv, DeviceNext PROVE Inv'
    BY <2>1, TypeStep, ResettingStep, MemoryStep
  <2>2. ASSUME Inv, UNCHANGED vars PROVE Inv'
    <3>1. UNCHANGED <<eps, st, ctl>>
      BY <2>2 DEF vars
    <3> QED BY <2>2, <3>1, TypeStutter, MemoryKept DEF SameBuffers
  <2> QED BY <2>1, <2>2
<1> QED BY <1>1, <1>2, PTL DEF Spec

-----------------------------------------------------------------------------
(* What host and device know of each other after a bus reset.              *)

\* What the firmware does to the registers of the core.
LEMMA FirmwareCore ==
  ASSUME TypeInv, Firmware
  PROVE  /\ core'.reset = core.reset
         /\ core.pu => core'.pu
         /\ core'.pend = core.pend \/ (ResetAr /\ core'.pend = core.reset)
         /\ core'.addr = core.addr \/ ResetCsr \/ SetAddrDone
<1>1. CASE UNCHANGED core
  BY <1>1
<1>2. CASE core' = [core EXCEPT !.cel = FALSE]
  BY <1>2, TypeParts DEF CoreRegs
<1>3. CASE ResetCsr \/ ResetAr \/ Drain
  BY <1>3, TypeParts DEF ResetCsr, ResetAr, Drain, CoreRegs
<1>4. CASE SetAddrDone
  BY <1>4, TypeParts DEF SetAddrDone, CoreRegs
<1>5. Requests => UNCHANGED core \/ core' = [core EXCEPT !.cel = FALSE]
  BY DEF Requests, GetStatusDev, GetStatusIntf, GetStatusEp, SetFeatureEp, ClearFeatureEp,
         SetAddress, GetConfiguration, SetConfiguration, SetConfigurationRefused,
         GetInterface, SetInterface, SetInterfaceRefused, GetDescriptor, OtherFeature,
         DfuDetach, DfuGetStatus, Reply, Answer
<1>6. Configured \/ NullEnds => core' = [core EXCEPT !.cel = FALSE]
  BY DEF Configured, NullEnds, Reply, Answer
<1>7. \/ Poll \/ HwReset \/ ResetEp0 \/ SetDefault \/ Suspended \/ Active \/ Polled \/ OtherDone
      \/ DispatchSetConf \/ EpBoot \/ EpsBooted \/ DispatchSetIntf \/ NullHangs
      => UNCHANGED core
  BY DEF Poll, HwReset, ResetEp0, SetDefault, Suspended, Active, Polled, OtherDone,
         DispatchSetConf, EpBoot, EpsBooted, DispatchSetIntf, NullHangs
<1> QED BY <1>1, <1>2, <1>3, <1>4, <1>5, <1>6, <1>7 DEF Firmware

\* What is reset of the host.
LEMMA HostResetFields ==
  ASSUME NEW stage
  PROVE  LET h == HostReset(stage)
         IN /\ h.stage = stage /\ h.addr = 0 /\ h.conf = NoConf /\ h.confs = 0
            /\ h.req = NoReq
  BY DEF HostReset

\* A host that has selected nothing asks for no setting and selects nothing.
LEMMA QuietRequest ==
  ASSUME TypeInv, HostOK, host.confs = 0, host.addr = 0,
         NEW r \in IF host.req = NoReq THEN HostRequest ELSE {host.req}
  PROVE  Quiet(r)
<1>1. CASE host.req # NoReq
  BY <1>1 DEF HostOK
<1>2. CASE host.req = NoReq
  <2>1. host.conf = NoConf
    BY DEF HostOK
  <2>2. Settings = {} /\ InUse = {}
    BY <2>1 DEF Settings, InUse
  <2>3. r.name \notin {"set_interface", "set_configuration"}
    <3>1. \/ r = Req("get_configuration", 0, 0)
          \/ \E n \in {"get_status_dev", "other_feature"} : r = Req(n, 0, 0)
          \/ \E d \in Descriptor \cup {0} : r = Req("get_descriptor", 0, d)
          \/ \E a \in Address : r = Req("set_address", 0, a)
      BY <1>2, <2>2, Z3 DEF HostRequest
    <3> QED BY <3>1 DEF Req
  <2> QED BY <2>3 DEF Quiet
<1> QED BY <1>1, <1>2

\* What a new request is when no configuration is selected.
LEMMA NewRequest ==
  ASSUME TypeInv, HostOK, NEW r \in IF host.req = NoReq THEN HostRequest ELSE {host.req}
  PROVE  /\ r.name = "set_interface" => host.conf # NoConf
         /\ host.req # NoReq => r = host.req
<1>1. CASE host.req # NoReq
  BY <1>1 DEF HostOK
<1>2. CASE host.req = NoReq
  <2>1. SUFFICES ASSUME host.conf = NoConf PROVE r.name # "set_interface"
    BY <1>2
  <2>2. Settings = {} /\ InUse = {}
    BY <2>1 DEF Settings, InUse
  <2>3. \/ r = Req("get_configuration", 0, 0)
        \/ \E n \in {"get_status_dev", "other_feature"} : r = Req(n, 0, 0)
        \/ \E d \in Descriptor \cup {0} : r = Req("get_descriptor", 0, d)
        \/ \E a \in Address : r = Req("set_address", 0, a)
        \/ \E c \in Conf \cup {NoConf, BadConf} : r = Req("set_configuration", 0, c)
    BY <1>2, <2>2, Z3 DEF HostRequest
  <2> QED BY <2>3 DEF Req
<1> QED BY <1>1, <1>2

\* A request that is complete for the host.
LEMMA CompleteHost ==
  ASSUME TypeInv, Complete \/ CompleteAckLost
  PROVE  /\ host.stage = "up" /\ host'.stage = "up" /\ UNCHANGED <<eps, st, fw>>
         /\ host.req # NoReq /\ Sound(host.req) /\ ctl.req = host.req /\ host'.req = NoReq
         /\ ctl.up /\ ~core.cel /\ ctl.setup = NoReq /\ core.addr = host.addr
         /\ ctl.phase \in {"answer", "stall"}
         /\ host'.confs = host.confs
         /\ host'.conf = IF host.req.name = "set_configuration" /\ ctl.phase = "answer"
                         THEN host.req.value ELSE host.conf
         /\ host'.addr = IF host.req.name = "set_address" /\ ctl.phase = "answer"
                         THEN host.req.value ELSE host.addr
<1>1. /\ host.stage = "up" /\ UNCHANGED <<eps, st, fw>> /\ host.req # NoReq
      /\ ctl.req = host.req /\ ctl.up /\ ~core.cel /\ core.addr = host.addr
      /\ ctl.phase \in {"answer", "stall"} /\ Concluded
  BY DEF Complete, CompleteAckLost, CanComplete, StatusStage
<1>2. Sound(host.req) /\ ctl.setup = NoReq
  BY <1>1, TypeParts DEF RequestsOK
<1> DEFINE g == IF ctl.phase = "answer" THEN Learn(host.req) ELSE host
<1>3. ctl.phase = "answer" =>
        ~(host.req.name = "set_configuration" /\ host.req.value = BadConf)
  BY <1>1, TypeParts DEF RequestsOK
<1>4. /\ g \in HostState /\ g.stage = host.stage /\ g.confs = host.confs
      /\ g.conf = IF host.req.name = "set_configuration" /\ ctl.phase = "answer"
                  THEN host.req.value ELSE host.conf
      /\ g.addr = IF host.req.name = "set_address" /\ ctl.phase = "answer"
                  THEN host.req.value ELSE host.addr
  <2>1. CASE ctl.phase = "answer"
    BY <1>2, <1>3, <2>1, LearnType
  <2>2. CASE ctl.phase # "answer"
    BY <2>2, HostFields
  <2> QED BY <2>1, <2>2
<1>5. host' = [g EXCEPT !.req = NoReq]
  BY <1>1 DEF Concluded
<1> HIDE DEF g
<1>6. /\ host'.stage = g.stage /\ host'.confs = g.confs /\ host'.conf = g.conf
      /\ host'.addr = g.addr /\ host'.req = NoReq
  BY <1>4, <1>5 DEF HostState
<1> QED BY <1>1, <1>2, <1>4, <1>6

\* A request that is sent.
LEMMA SendSetupHost ==
  ASSUME TypeInv, SendSetup
  PROVE  \E r \in IF host.req = NoReq THEN HostRequest ELSE {host.req} :
           /\ host.stage = "up" /\ host'.stage = "up" /\ host'.req = r /\ r # NoReq /\ Sound(r)
           /\ host'.addr = host.addr /\ host'.conf = host.conf
           /\ host'.confs = IF Selects(r) THEN host.confs + 1 ELSE host.confs
           /\ ctl.up /\ ~core.cel /\ core.addr = host.addr /\ ctl.setup = NoReq
           /\ ctl'.setup = r /\ ctl'.req = ctl.req /\ ctl'.phase = ctl.phase /\ ctl'.up
           /\ core'.cel /\ core'.addr = core.addr /\ core'.pend = core.pend
           /\ core'.reset = core.reset /\ core'.pu = core.pu
           /\ UNCHANGED <<eps, st, fw>>
<1>1. PICK r \in IF host.req = NoReq THEN HostRequest ELSE {host.req} :
        /\ SetupReceived(host.addr, r)
        /\ host' = [host EXCEPT !.req = r,
                                !.confs = IF Selects(r) THEN @ + 1 ELSE @]
  BY DEF SendSetup, Selects
<1>2. Sound(r) /\ r # NoReq
  BY <1>1, TypeParts, HostRequestSound DEF RequestsOK, TypeInv
<1>3. /\ ctl.up /\ ~core.cel /\ core.addr = host.addr /\ ctl' = [ctl EXCEPT !.setup = r]
      /\ core' = [core EXCEPT !.cel = TRUE, !.evt = TRUE]
  BY <1>1 DEF SetupReceived
<1>4. ctl.setup = NoReq
  BY <1>3, TypeParts DEF RequestsOK
<1>5. ctl'.setup = r /\ ctl'.req = ctl.req /\ ctl'.phase = ctl.phase /\ ctl'.up = ctl.up
  BY <1>3, TypeParts DEF Control
<1>6. /\ core'.cel /\ core'.addr = core.addr /\ core'.pend = core.pend
      /\ core'.reset = core.reset /\ core'.pu = core.pu
  BY <1>3, TypeParts DEF CoreRegs
<1> DEFINE n == IF Selects(r) THEN host.confs + 1 ELSE host.confs
<1>7. host' = [host EXCEPT !.req = r, !.confs = n]
  BY <1>1
<1> HIDE DEF n
<1>8. /\ host'.stage = host.stage /\ host'.req = r /\ host'.addr = host.addr
      /\ host'.conf = host.conf /\ host'.confs = n
  BY <1>7, HostFields DEF HostState
<1>9. host.stage = "up" /\ UNCHANGED <<eps, st, fw>>
  BY DEF SendSetup
<1> QED BY <1>1, <1>2, <1>3, <1>4, <1>5, <1>6, <1>8, <1>9 DEF n

\* What the states of the bus change.
LEMMA BusHost ==
  ASSUME TypeInv
  PROVE  /\ ResetStart => /\ host' = HostReset("reset") /\ core'.reset /\ core'.pend
                          /\ core.pu /\ core'.pu = core.pu
         /\ ResetEnd \/ Recovered =>
              /\ host.stage = (IF ResetEnd THEN "reset" ELSE "recovery")
              /\ host'.stage = (IF ResetEnd THEN "recovery" ELSE "up")
              /\ host'.addr = host.addr /\ host'.conf = host.conf /\ host'.confs = host.confs
              /\ host'.req = host.req
              /\ core'.pu = core.pu /\ core'.pend = core.pend /\ core'.addr = core.addr
              /\ core'.reset = (IF ResetEnd THEN FALSE ELSE core.reset)
         /\ LineLow => ~core.pu /\ core'.pu = core.pu
         /\ LineHigh => host.stage = "attached" /\ core'.pu = core.pu
         /\ Suspend \/ Sof => /\ core'.pu = core.pu /\ core'.pend = core.pend
                              /\ core'.addr = core.addr /\ core'.reset = core.reset
<1>1. ResetStart => /\ host' = HostReset("reset") /\ core'.reset /\ core'.pend
                    /\ core.pu /\ core'.pu = core.pu
  BY TypeParts DEF ResetStart, BusResetOn, CoreRegs
<1>2. ASSUME ResetEnd
      PROVE  /\ host.stage = "reset" /\ host'.stage = "recovery"
             /\ host'.addr = host.addr /\ host'.conf = host.conf /\ host'.confs = host.confs
             /\ host'.req = host.req
             /\ core'.pu = core.pu /\ core'.pend = core.pend /\ core'.addr = core.addr
             /\ core'.reset = FALSE
  <2>1. /\ host.stage = "reset" /\ host' = [host EXCEPT !.stage = "recovery"]
        /\ core' = [core EXCEPT !.reset = FALSE]
    BY <1>2 DEF ResetEnd, BusResetOff
  <2>2. /\ core'.pu = core.pu /\ core'.pend = core.pend /\ core'.addr = core.addr
        /\ core'.reset = FALSE
    BY <2>1, TypeParts DEF CoreRegs
  <2> QED BY <2>1, <2>2, HostFields DEF HostState
<1>3. ASSUME Recovered
      PROVE  /\ host.stage = "recovery" /\ host'.stage = "up"
             /\ host'.addr = host.addr /\ host'.conf = host.conf /\ host'.confs = host.confs
             /\ host'.req = host.req /\ UNCHANGED core
  BY <1>3, HostFields DEF HostState, Recovered
<1>4. ResetEnd => ~Recovered
  BY DEF ResetEnd, Recovered
<1>5. LineLow => ~core.pu /\ core'.pu = core.pu
  BY TypeParts DEF LineLow, BusResetOn, CoreRegs
<1>6. LineHigh => host.stage = "attached" /\ core'.pu = core.pu
  BY TypeParts DEF LineHigh, BusResetOff, CoreRegs
<1>7. Suspend \/ Sof => /\ core'.pu = core.pu /\ core'.pend = core.pend
                        /\ core'.addr = core.addr /\ core'.reset = core.reset
  BY TypeParts DEF Suspend, Sof, SuspendOn, SofSeen, CoreRegs
<1> QED BY <1>1, <1>2, <1>3, <1>4, <1>5, <1>6, <1>7

\* Every step keeps what the host knows.
LEMMA HostStep ==
  ASSUME TypeInv, TypeInv', HostOK, DeviceNext
  PROVE  HostOK'
<1>0. NoReq.name = "none"
  BY DEF NoReq
<1>1. CASE Firmware /\ UNCHANGED host
  <2>1. \/ core'.pend = core.pend
        \/ core'.pend = core.reset
    BY <1>1, FirmwareCore
  <2>2. core'.reset = core.reset /\ (core.pu => core'.pu)
    BY <1>1, FirmwareCore
  <2> QED BY <1>1, <2>1, <2>2 DEF HostOK, Quiet
<1>2. CASE Reboot \/ Detach
  <2>1. host' = HostReset("detached")
    BY <1>2 DEF Reboot, Detach
  <2> QED BY <1>0, <2>1, HostResetFields DEF HostOK, Quiet
<1>3. CASE Attach
  <2>1. host' = HostReset("attached") /\ core'.pu
    BY <1>3, TypeParts DEF Attach, Connect, CoreRegs
  <2> QED BY <1>0, <2>1, HostResetFields DEF HostOK, Quiet
<1>4. CASE SendSetup
  <2>1. PICK r \in IF host.req = NoReq THEN HostRequest ELSE {host.req} :
           /\ host.stage = "up" /\ host'.stage = "up" /\ host'.req = r
           /\ host'.addr = host.addr /\ host'.conf = host.conf
           /\ host'.confs = IF Selects(r) THEN host.confs + 1 ELSE host.confs
           /\ core'.reset = core.reset /\ core'.pu = core.pu
    BY <1>4, SendSetupHost
  <2>2. /\ r.name = "set_interface" => host.conf # NoConf
    BY NewRequest
  <2>3. host'.confs = 0 => host.confs = 0 /\ ~Selects(r)
    BY <2>1, HostFields
  <2> QED BY <2>1, <2>2, <2>3 DEF HostOK, Quiet, Selects
<1>5. CASE Complete \/ CompleteAckLost
  <2>1. /\ core'.reset = core.reset /\ core'.pu = core.pu
    BY <1>5, TypeParts DEF Complete, CompleteAckLost, StatusAcked, Stalled, CoreRegs
  <2>2. host.confs = 0 => host'.conf = NoConf
    <3>1. SUFFICES ASSUME host.confs = 0, host.req.name = "set_configuration",
                          ctl.phase = "answer"
                   PROVE  FALSE
      BY <1>5, CompleteHost DEF HostOK
    <3>2. ctl.req.value = BadConf /\ ctl.req.name = "set_configuration"
      BY <1>5, <3>1, CompleteHost DEF HostOK, Quiet
    <3> QED BY <3>1, <3>2, TypeParts DEF RequestsOK
  <2> QED BY <1>0, <1>5, <2>1, <2>2, CompleteHost DEF HostOK, Quiet
<1>6. CASE Transaction
  <2>1. /\ host.stage = "up" /\ host'.stage = host.stage /\ host'.addr = host.addr
        /\ host'.conf = host.conf /\ host'.confs = host.confs /\ host'.req = host.req
        /\ UNCHANGED core
    BY <1>6, HostFields DEF Transaction, HostState
  <2> QED BY <2>1 DEF HostOK, Quiet
<1>7. CASE ResetStart
  <2>1. host' = HostReset("reset") /\ core'.reset /\ core'.pend /\ core'.pu
    BY <1>7, BusHost
  <2> QED BY <1>0, <2>1, HostResetFields DEF HostOK, Quiet
<1>8. CASE ResetEnd
  <2>1. host = HostReset("reset") /\ host' = [host EXCEPT !.stage = "recovery"]
    BY <1>8 DEF ResetEnd, HostOK
  <2>2. host' = HostReset("recovery")
    BY <2>1 DEF HostReset
  <2>3. core'.pu /\ core'.reset = FALSE
    BY <1>8, BusHost DEF HostOK
  <2> QED BY <1>0, <2>2, <2>3, HostResetFields DEF HostOK, Quiet
<1>9. CASE Recovered
  <2>1. host.stage = "recovery" /\ host'.stage = "up" /\ UNCHANGED core
    BY <1>9, BusHost DEF Recovered
  <2>2. host'.conf = NoConf /\ host'.confs = 0 /\ host'.req = NoReq
    BY <1>9, <2>1, BusHost, HostResetFields DEF HostOK
  <2> QED BY <1>0, <2>1, <2>2 DEF HostOK, Quiet
<1>10. CASE LineLow \/ LineHigh \/ Suspend \/ Sof
  <2>1. UNCHANGED host /\ core'.pu = core.pu
    BY <1>10, BusHost DEF LineLow, LineHigh, Suspend, Sof
  <2>2. \/ host.stage \in {"detached", "attached"}
        \/ core'.pend = core.pend /\ core'.reset = core.reset
    <3>1. LineLow => host.stage = "detached"
      BY BusHost DEF HostOK
    <3> QED BY <1>10, <3>1, BusHost
  <2> QED BY <2>1, <2>2 DEF HostOK, Quiet
<1> QED BY <1>1, <1>2, <1>3, <1>4, <1>5, <1>6, <1>7, <1>8, <1>9, <1>10
        DEF DeviceNext, FirmwareStep

\* Where a step of the firmware leads.
LEMMA FirmwarePlaces ==
  ASSUME TypeInv, Firmware
  PROVE  /\ fw.pc = "poll" => Poll /\ fw'.pc = IF core.pend THEN "hw_reset" ELSE "suspend"
         /\ fw.pc = "hw_reset" => HwReset /\ fw'.pc = "csr"
         /\ fw.pc = "csr" => ResetCsr /\ fw'.pc = "ar"
         /\ fw.pc = "ar" => ResetAr /\ fw'.pc = "ep0_reset"
         /\ fw.pc = "ep0_reset" => ResetEp0 /\ fw'.pc = "default"
         /\ fw.pc = "default" => SetDefault /\ fw'.pc = "suspend"
         /\ fw.pc \notin {"poll", "hw_reset", "csr", "ar", "ep0_reset", "default"} =>
              fw'.pc \notin {"hw_reset", "csr", "ar", "ep0_reset", "default"}
<1>1. CASE Poll
  <2>1. fw.pc = "poll" /\ fw'.pc = IF core.pend THEN "hw_reset" ELSE "suspend"
    BY <1>1, TypeParts DEF Poll, Place
  <2> QED BY <1>1, <2>1
<1>2. CASE HwReset \/ ResetCsr \/ ResetAr \/ ResetEp0 \/ SetDefault
  <2>1. \/ HwReset /\ fw.pc = "hw_reset" /\ Goto("csr")
        \/ ResetCsr /\ fw.pc = "csr" /\ Goto("ar")
        \/ ResetAr /\ fw.pc = "ar" /\ Goto("ep0_reset")
        \/ ResetEp0 /\ fw.pc = "ep0_reset" /\ Goto("default")
        \/ SetDefault /\ fw.pc = "default" /\ Goto("suspend")
    BY <1>2 DEF HwReset, ResetCsr, ResetAr, ResetEp0, SetDefault
  <2>2. \A p \in {"csr", "ar", "ep0_reset", "default", "suspend"} : Goto(p) => fw'.pc = p
    BY TypeParts, GotoType DEF FwPc
  <2> QED BY <2>1, <2>2
<1>3. CASE Suspended \/ Active \/ Drain \/ Polled \/ NullHangs \/ Configured \/ NullEnds
  <2>1. fw.pc \in {"suspend", "drain", "ep0", "null", "set_intf"}
    BY <1>3 DEF Suspended, Active, Drain, Polled, NullHangs, Configured, NullEnds
  <2>2. \E p \in {"poll", "drain", "ep0", "hung"} : Goto(p) \/ GotoWithout(p)
    BY <1>3 DEF Suspended, Active, Drain, Polled, NullHangs, Configured, NullEnds
  <2>3. fw'.pc \in {"poll", "drain", "ep0", "hung"}
    BY <2>2, TypeParts, GotoType DEF FwPc
  <2> QED BY <2>1, <2>3
<1>4. CASE SetAddrDone \/ OtherDone
  <2>1. fw.pc = "ep0" /\ UNCHANGED fw
    BY <1>4 DEF SetAddrDone, OtherDone, Done
  <2> QED BY <2>1
<1>5. CASE Requests
  <2>1. fw.pc = "ep0" /\ (UNCHANGED fw \/ fw'.pc = "set_conf")
    <3>1. PICK name \in RequestName : Handle(name)
      BY <1>5 DEF Requests, GetStatusDev, GetStatusIntf, GetStatusEp, SetFeatureEp,
         ClearFeatureEp, SetAddress, GetConfiguration, SetConfiguration,
         SetConfigurationRefused, GetInterface, SetInterface, SetInterfaceRefused,
         GetDescriptor, OtherFeature, DfuDetach, DfuGetStatus, RequestName
    <3>2. UNCHANGED fw \/ Goto("set_conf")
      BY <1>5 DEF Requests, GetStatusDev, GetStatusIntf, GetStatusEp, SetFeatureEp,
         ClearFeatureEp, SetAddress, GetConfiguration, SetConfiguration,
         SetConfigurationRefused, GetInterface, SetInterface, SetInterfaceRefused,
         GetDescriptor, OtherFeature, DfuDetach, DfuGetStatus, Local
    <3> QED BY <3>1, <3>2, TypeParts, GotoType DEF FwPc, Handle
  <2> QED BY <2>1
<1>6. CASE DispatchSetConf \/ EpBoot \/ EpsBooted \/ DispatchSetIntf
  <2>1. fw.pc \in {"set_conf", "boot", "set_intf"}
    BY <1>6 DEF DispatchSetConf, EpBoot, EpsBooted, DispatchSetIntf
  <2>2. fw'.pc \in {"null", "boot", "set_intf"}
    BY <1>6, <2>1, TypeParts DEF DispatchSetConf, EpBoot, EpsBooted, DispatchSetIntf, Place
  <2> QED BY <2>1, <2>2
<1> QED BY <1>1, <1>2, <1>3, <1>4, <1>5, <1>6 DEF Firmware

\* Every step keeps that a reset which is not handled yet is not answered to.
LEMMA UnhandledStep ==
  ASSUME TypeInv, TypeInv', ResettingOK, HostOK, HostOK', UnhandledOK, DeviceNext
  PROVE  UnhandledOK'
<1> SUFFICES ASSUME host'.stage = "up", core'.pend
             PROVE  /\ fw'.pc \in {"poll", "hw_reset", "csr", "ar"}
                    /\ host'.addr = 0 /\ host'.confs = 0
                    /\ host'.req # NoReq => core'.cel \/ ~ctl'.up
  BY DEF UnhandledOK
<1>1. CASE Firmware /\ UNCHANGED host
  <2>1. core.pend /\ ~core.reset
    BY <1>1, FirmwareCore DEF HostOK
  <2>2. /\ fw.pc \in {"poll", "hw_reset", "csr", "ar"} /\ host.addr = 0 /\ host.confs = 0
        /\ host.req # NoReq => core.cel \/ ~ctl.up
    BY <1>1, <2>1 DEF UnhandledOK
  <2>3. fw.pc # "ar"
    <3>1. fw.pc = "ar" => core'.pend = core.reset
      BY <1>1, FirmwarePlaces, TypeParts DEF ResetAr, CoreRegs
    <3> QED BY <2>1, <3>1
  <2>4. fw'.pc \in {"hw_reset", "csr", "ar"}
    BY <1>1, <2>1, <2>2, <2>3, FirmwarePlaces
  <2>5. host.req # NoReq => core'.cel \/ ~ctl'.up
    <3>1. CASE fw.pc = "poll"
      BY <1>1, <2>2, <3>1, FirmwarePlaces DEF Poll
    <3>2. CASE fw.pc = "hw_reset"
      BY <1>1, <3>2, FirmwarePlaces, IdleType DEF HwReset
    <3>3. CASE fw.pc = "csr"
      BY <1>1, <3>3, FirmwarePlaces, IdleType DEF ResetCsr, ResettingOK, Resetting
    <3> QED BY <2>2, <2>3, <3>1, <3>2, <3>3
  <2> QED BY <1>1, <2>2, <2>4, <2>5
<1>2. CASE Attach \/ Detach \/ Reboot \/ ResetStart \/ ResetEnd \/ LineHigh
  <2>1. host'.stage # "up"
    <3>1. CASE Attach \/ Detach \/ Reboot \/ ResetStart
      <4>1. \E stage \in {"attached", "detached", "reset"} : host' = HostReset(stage)
        BY <3>1 DEF Attach, Detach, Reboot, ResetStart
      <4> QED BY <4>1, HostResetFields
    <3>2. CASE ResetEnd
      BY <3>2, BusHost
    <3>3. CASE LineHigh
      BY <3>3 DEF LineHigh
    <3> QED BY <1>2, <3>1, <3>2, <3>3
  <2> QED BY <2>1
<1>3. CASE SendSetup
  <2>1. PICK r \in IF host.req = NoReq THEN HostRequest ELSE {host.req} :
           /\ host.stage = "up" /\ host'.addr = host.addr
           /\ host'.confs = IF Selects(r) THEN host.confs + 1 ELSE host.confs
           /\ core'.cel /\ core'.pend = core.pend /\ UNCHANGED fw
    BY <1>3, SendSetupHost
  <2>2. fw.pc \in {"poll", "hw_reset", "csr", "ar"} /\ host.addr = 0 /\ host.confs = 0
    BY <2>1 DEF UnhandledOK
  <2>3. ~Selects(r)
    BY <2>2, QuietRequest DEF Quiet, Selects
  <2> QED BY <2>1, <2>2, <2>3
<1>4. CASE Complete \/ CompleteAckLost
  <2>1. /\ host.stage = "up" /\ host.req # NoReq /\ ctl.up /\ ~core.cel
    BY <1>4, CompleteHost
  <2>2. core'.pend = core.pend
    BY <1>4, TypeParts DEF Complete, CompleteAckLost, StatusAcked, Stalled, CoreRegs
  <2> QED BY <2>1, <2>2 DEF UnhandledOK
<1>5. CASE Transaction
  <2>1. /\ host.stage = "up" /\ UNCHANGED core /\ InUse # {}
    BY <1>5 DEF Transaction
  <2>2. host.conf # NoConf
    BY <2>1 DEF InUse, Settings
  <2> QED BY <2>1, <2>2 DEF UnhandledOK, HostOK
<1>6. CASE Recovered
  <2>1. host.stage = "recovery" /\ host'.addr = host.addr /\ host'.confs = host.confs
        /\ host'.req = host.req /\ fw.pc = "poll" /\ UNCHANGED fw
    BY <1>6, BusHost DEF Recovered
  <2> QED BY <2>1, HostResetFields DEF HostOK
<1>7. CASE LineLow \/ Suspend \/ Sof
  <2>1. UNCHANGED <<host, fw, ctl>>
    BY <1>7 DEF LineLow, Suspend, Sof
  <2>2. core'.pend = core.pend /\ core'.cel = core.cel
    <3>1. ~LineLow
      BY <2>1, BusHost DEF HostOK
    <3> QED BY <1>7, <3>1, TypeParts DEF Suspend, Sof, SuspendOn, SofSeen, CoreRegs
  <2> QED BY <2>1, <2>2 DEF UnhandledOK
<1> QED BY <1>1, <1>2, <1>3, <1>4, <1>5, <1>6, <1>7 DEF DeviceNext, FirmwareStep

\* What the firmware does to the state of the device.
LEMMA FirmwareState ==
  ASSUME TypeInv, Firmware
  PROVE  /\ \/ st'.state = st.state
            \/ SetDefault /\ st'.state = "default"
            \/ SetConfiguration
         /\ st'.conf = st.conf \/ SetConfiguration
<1>1. CASE UNCHANGED st
  BY <1>1
<1>2. CASE ResetEp0
  BY <1>2, TypeParts DEF ResetEp0, Stack
<1>3. CASE SetDefault
  <2>1. st' = [st EXCEPT !.state = "default", !.susp = FALSE]
    BY <1>3 DEF SetDefault, SetState
  <2>2. st'.state = "default" /\ st'.conf = st.conf
    BY <2>1, TypeParts DEF Stack
  <2> QED BY <1>3, <2>2
<1>4. CASE Suspended \/ Active
  <2>1. \E b \in BOOLEAN : st' = [st EXCEPT !.susp = b]
    BY <1>4 DEF Suspended, Active, SetState, Resumed
  <2> QED BY <2>1, TypeParts DEF Stack
<1>5. CASE EpBoot
  <2>1. PICK e \in fw.todo : Boot(st.conf, e)
    BY <1>5 DEF EpBoot
  <2>2. \E n, d : st' = [st EXCEPT !.mem[d] = n]
    <3>1. \E n : st' = [st EXCEPT !.mem[Dir(e)] = @ + n]
      BY <2>1 DEF Boot
    <3> QED BY <3>1
  <2> QED BY <2>2, TypeParts DEF Stack
<1>6. CASE DispatchSetIntf
  <2>1. \E n : st' = [st EXCEPT !.rt = n]
    BY <1>6 DEF DispatchSetIntf
  <2> QED BY <2>1, TypeParts DEF Stack
<1>7. CASE SetInterface
  <2>1. \E x, n : st' = [st EXCEPT !.intf_alt = x, !.rt = n]
    BY <1>7 DEF SetInterface
  <2> QED BY <2>1, TypeParts DEF Stack
<1>8. CASE SetConfiguration
  BY <1>8
<1> QED BY <1>1, <1>2, <1>3, <1>4, <1>5, <1>6, <1>7, <1>8
        DEF Firmware, Requests, GetStatusDev, GetStatusIntf, GetStatusEp, SetAddress,
            GetConfiguration, SetConfigurationRefused, GetInterface, SetInterfaceRefused,
            GetDescriptor, OtherFeature, DfuDetach, DfuGetStatus, Local, SetFeatureEp,
            ClearFeatureEp, Poll, HwReset, ResetCsr, ResetAr, Drain, Polled, SetAddrDone,
            OtherDone, DispatchSetConf, EpsBooted, Configured, NullEnds, NullHangs

\* What the firmware does to the end points.
LEMMA FirmwareEps ==
  ASSUME Firmware
  PROVE  \/ UNCHANGED eps
         \/ HwReset \/ SetFeatureEp \/ ClearFeatureEp \/ SetInterface \/ EpBoot
         \/ DispatchSetIntf
  BY DEF Firmware, Requests, GetStatusDev, GetStatusIntf, GetStatusEp, SetAddress,
         GetConfiguration, SetConfiguration, SetConfigurationRefused, GetInterface,
         SetInterfaceRefused, GetDescriptor, OtherFeature, DfuDetach, DfuGetStatus, Local,
         Poll, ResetCsr, ResetAr, ResetEp0, SetDefault, Suspended, Active, Drain, Polled,
         SetAddrDone, OtherDone, DispatchSetConf, EpsBooted, Configured, NullEnds, NullHangs

\* What the firmware does to the control end point: nothing, forget everything, end
\* a request, or answer one.
LEMMA FirmwareCtl ==
  ASSUME TypeInv, Firmware
  PROVE  \/ UNCHANGED ctl
         \/ HwReset /\ ctl' = Idle
         \/ ResetEp0 /\ ctl' = [Idle EXCEPT !.up = TRUE]
         \/ /\ SetAddrDone \/ OtherDone
            /\ ctl'.setup = ctl.setup /\ ctl'.req = NoReq /\ ctl'.phase = "idle"
         \/ /\ ctl.setup # NoReq /\ ctl'.setup = NoReq /\ ctl'.req = ctl.setup
            /\ ctl'.phase \in {"answer", "stall"}
            /\ Requests \/ Configured \/ NullEnds
<1>1. CASE SetAddrDone \/ OtherDone
  <2>1. ctl'.setup = ctl.setup /\ ctl'.req = NoReq /\ ctl'.phase = "idle"
    BY <1>1, TypeParts, DoneType DEF SetAddrDone, OtherDone
  <2> QED BY <1>1, <2>1
<1>2. CASE Requests \/ Configured \/ NullEnds
  <2>1. ctl.setup # NoReq
    <3>1. CASE Requests
      <4>1. PICK name \in RequestName : Handle(name)
        BY <3>1 DEF Requests, GetStatusDev, GetStatusIntf, GetStatusEp, SetFeatureEp,
         ClearFeatureEp, SetAddress, GetConfiguration, SetConfiguration,
         SetConfigurationRefused, GetInterface, SetInterface, SetInterfaceRefused,
         GetDescriptor, OtherFeature, DfuDetach, DfuGetStatus, RequestName
      <4> QED BY <4>1, TypeParts, HandleType
    <3>2. CASE Configured \/ NullEnds
      <4>1. fw.pc \in Configuring
        BY <3>2 DEF Configured, NullEnds, Configuring
      <4> QED BY <4>1, TypeParts, IdleType DEF ConfiguringOK
    <3> QED BY <1>2, <3>1, <3>2
  <2>2. UNCHANGED ctl \/ \E ok, data : Reply(ok, data)
    BY <1>2 DEF Requests, GetStatusDev, GetStatusIntf, GetStatusEp, SetFeatureEp,
         ClearFeatureEp, SetAddress, GetConfiguration, SetConfiguration,
         SetConfigurationRefused, GetInterface, SetInterface, SetInterfaceRefused,
         GetDescriptor, OtherFeature, DfuDetach, DfuGetStatus, Configured, NullEnds
  <2>3. UNCHANGED ctl \/ \E phase \in {"answer", "stall"} : \E n :
          ctl' = [ctl EXCEPT !.setup = NoReq, !.req = ctl.setup, !.phase = phase, !.data = n]
    BY <2>2 DEF Reply, Answer
  <2>4. ASSUME NEW phase \in {"answer", "stall"}, NEW n,
               ctl' = [ctl EXCEPT !.setup = NoReq, !.req = ctl.setup, !.phase = phase,
                                  !.data = n]
        PROVE  ctl'.setup = NoReq /\ ctl'.req = ctl.setup /\ ctl'.phase = phase
    BY <2>4, TypeParts DEF Control
  <2> QED BY <1>2, <2>1, <2>3, <2>4
<1>3. CASE HwReset \/ ResetEp0
  BY <1>3 DEF HwReset, ResetEp0
<1>4. CASE \/ Poll \/ ResetCsr \/ ResetAr \/ SetDefault \/ Suspended \/ Active \/ Drain
           \/ Polled \/ DispatchSetConf \/ EpBoot \/ EpsBooted \/ DispatchSetIntf
           \/ NullHangs
  BY <1>4 DEF Poll, ResetCsr, ResetAr, SetDefault, Suspended, Active, Drain, Polled,
              DispatchSetConf, EpBoot, EpsBooted, DispatchSetIntf, NullHangs
<1> QED BY <1>1, <1>2, <1>3, <1>4 DEF Firmware

\* In a session in which nothing was selected there is nothing to configure.
LEMMA NothingSelected ==
  ASSUME TypeInv, HostOK, SessionOK, Handled, host.confs = 0
  PROVE  /\ ~SetConfiguration /\ ~SetInterface
         /\ SetFeatureEp \/ ClearFeatureEp => UNCHANGED eps
<1>1. ctl.setup # NoReq => ctl.setup = host.req
  BY DEF SessionOK
<1>2. Quiet(host.req)
  BY DEF HostOK
<1>3. ~SetInterface
  BY <1>1, <1>2, IdleType DEF SetInterface, Handle, Quiet
<1>4. ~SetConfiguration
  BY <1>1, <1>2, IdleType, HostAssumption DEF SetConfiguration, Handle, Quiet
<1>5. ASSUME SetFeatureEp \/ ClearFeatureEp PROVE UNCHANGED eps
  <2> DEFINE e == ctl.setup.index
  <2>1. PICK name \in {"set_feature_ep", "clear_feature_ep"} : Handle(name)
    BY <1>5 DEF SetFeatureEp, ClearFeatureEp
  <2>2. e \in Ep
    BY <2>1, TypeParts, HandleType DEF RequestName, Sound
  <2>3. eps[e].type = "none"
    BY <2>2, BlankType DEF SessionOK, Blank
  <2> QED BY <1>5, <2>3 DEF SetFeatureEp, ClearFeatureEp, CanHalt
<1> QED BY <1>3, <1>4, <1>5

\* A step of the firmware in a session: what is there is of this session.
LEMMA SessionFirmware ==
  ASSUME TypeInv, TypeInv', ResettingOK, HostOK, SessionOK, Firmware, UNCHANGED host, Handled'
  PROVE  SessionOK'
<1>1. fw'.pc # "ar" \/ core'.addr = 0
  <2>1. fw'.pc = "ar" => fw.pc = "csr" /\ ResetCsr
    BY FirmwarePlaces
  <2> QED BY <2>1, TypeParts DEF ResetCsr, CoreRegs
<1>2. CASE ResetAr
  <2>1. /\ fw'.pc = "ep0_reset" /\ ctl' = Idle /\ Blank'
    BY <1>2, FirmwarePlaces DEF ResetAr, ResettingOK, Resetting, Blank
  <2> QED BY <2>1, IdleType DEF SessionOK, Configuring
<1>3. CASE ~ResetAr
  <2>1. Handled
    BY <1>3, FirmwareCore DEF Handled
  <2>2. /\ fw.pc \notin {"hw_reset", "csr", "ar"}
        /\ fw.pc \notin {"ep0_reset", "default"} => st.state \in {"default", "configured"}
        /\ ctl.setup # NoReq => ctl.setup = host.req
    BY <2>1 DEF SessionOK
  <2>3. fw'.pc \notin {"hw_reset", "csr", "ar"}
    BY <2>1, <2>2, FirmwarePlaces DEF Handled
  <2>4. fw'.pc \notin {"ep0_reset", "default"} => st'.state \in {"default", "configured"}
    <3>1. CASE SetConfiguration
      BY <3>1, TypeParts DEF SetConfiguration, SetState, Stack
    <3>2. CASE ~SetConfiguration
      <4>1. fw.pc = "default" => SetDefault
        BY FirmwarePlaces
      <4>2. SetDefault => st'.state = "default"
        BY TypeParts DEF SetDefault, SetState, Stack
      <4>3. fw.pc = "ep0_reset" => fw'.pc = "default"
        BY FirmwarePlaces
      <4> QED BY <2>2, <3>2, <4>1, <4>2, <4>3, FirmwareState
    <3> QED BY <3>1, <3>2
  <2>5. ctl'.setup # NoReq => ctl'.setup = host'.req
    BY <2>2, FirmwareCtl, IdleType
  <2>6. ASSUME host.confs = 0
        PROVE  /\ Blank' /\ fw'.pc \notin Configuring \cup {"hung"}
               /\ fw'.pc \notin {"ep0_reset", "default"} => st'.state = "default"
    <3>1. /\ Blank /\ fw.pc \notin Configuring \cup {"hung"}
          /\ fw.pc \notin {"ep0_reset", "default"} => st.state = "default"
      BY <2>1, <2>6 DEF SessionOK
    <3>2. /\ ~SetConfiguration /\ ~SetInterface
          /\ SetFeatureEp \/ ClearFeatureEp => UNCHANGED eps
      BY <2>1, <2>6, NothingSelected
    <3>3. ~EpBoot /\ ~DispatchSetIntf
      BY <3>1 DEF EpBoot, DispatchSetIntf, Configuring
    <3>4. Blank'
      <4>1. HwReset => eps' = [e \in Ep |-> NoEp]
        BY DEF HwReset
      <4> QED BY <3>1, <3>2, <3>3, <4>1, FirmwareEps DEF Blank
    <3>5. fw'.pc \notin Configuring \cup {"hung"}
      <4>1. CASE Requests
        <5>1. UNCHANGED fw
          BY <3>2, <4>1 DEF Requests, GetStatusDev, GetStatusIntf, GetStatusEp, SetFeatureEp,
             ClearFeatureEp, SetAddress, GetConfiguration, SetConfigurationRefused,
             GetInterface, SetInterfaceRefused, GetDescriptor, OtherFeature, DfuDetach,
             DfuGetStatus, Local
        <5> QED BY <3>1, <5>1
      <4>2. CASE \/ Poll \/ HwReset \/ ResetCsr \/ ResetAr \/ ResetEp0 \/ SetDefault
        BY <4>2, FirmwarePlaces
           DEF Poll, HwReset, ResetCsr, ResetAr, ResetEp0, SetDefault, Configuring
      <4>3. CASE Suspended \/ Active \/ Drain \/ Polled
        <5>1. \E p \in {"poll", "drain", "ep0"} : Goto(p) \/ GotoWithout(p)
          BY <4>3 DEF Suspended, Active, Drain, Polled
        <5> QED BY <5>1, TypeParts, GotoType DEF FwPc, Configuring
      <4>4. CASE SetAddrDone \/ OtherDone
        BY <3>1, <4>4 DEF SetAddrDone, OtherDone
      <4>5. ~(DispatchSetConf \/ EpsBooted \/ Configured \/ NullEnds \/ NullHangs)
        BY <3>1 DEF DispatchSetConf, EpsBooted, Configured, NullEnds, NullHangs, Configuring
      <4> QED BY <3>3, <4>1, <4>2, <4>3, <4>4, <4>5 DEF Firmware
    <3>6. fw'.pc \notin {"ep0_reset", "default"} => st'.state = "default"
      <4>1. fw.pc = "default" => SetDefault
        BY FirmwarePlaces
      <4>2. SetDefault => st'.state = "default"
        BY TypeParts DEF SetDefault, SetState, Stack
      <4>3. fw.pc = "ep0_reset" => fw'.pc = "default"
        BY FirmwarePlaces
      <4> QED BY <3>1, <3>2, <4>1, <4>2, <4>3, FirmwareState
    <3> QED BY <3>4, <3>5, <3>6
  <2> QED BY <1>1, <2>3, <2>4, <2>5, <2>6 DEF SessionOK
<1> QED BY <1>2, <1>3

\* A bus reset, its end and a new connection leave a session that is not handled.
LEMMA NotHandled ==
  ASSUME TypeInv, HostOK, HostOK', Handled'
  PROVE  ~(ResetStart \/ ResetEnd \/ LineLow \/ LineHigh \/ Attach \/ Detach \/ Reboot)
<1>1. ~(ResetStart \/ Attach \/ Detach \/ Reboot)
  <2>1. (ResetStart \/ Attach \/ Detach \/ Reboot) =>
          \E stage \in {"reset", "attached", "detached"} : host' = HostReset(stage)
    BY DEF ResetStart, Attach, Detach, Reboot
  <2> QED BY <2>1, HostResetFields DEF Handled
<1>2. ~LineHigh
  BY DEF LineHigh, Handled
<1>3. ~LineLow
  BY BusHost DEF LineLow, Handled, HostOK
<1>4. ~ResetEnd
  BY BusHost DEF Handled, HostOK
<1> QED BY <1>1, <1>2, <1>3, <1>4

\* A step of the host keeps what is of this session.
LEMMA SessionHost ==
  ASSUME TypeInv, TypeInv', ResettingOK, HostOK, HostOK', SessionOK,
         \/ SendSetup \/ Complete \/ CompleteAckLost \/ Transaction
         \/ ResetStart \/ ResetEnd \/ Recovered \/ LineLow \/ LineHigh \/ Suspend \/ Sof
         \/ Attach \/ Detach \/ Reboot
  PROVE  SessionOK'
<1>1. fw'.pc = "ar" => core'.addr = 0
  <2>1. Reboot => fw'.pc = "poll"
    BY DEF Reboot, Detached
  <2>2. ~Reboot => UNCHANGED fw
    BY DEF SendSetup, Complete, CompleteAckLost, Transaction, ResetStart, ResetEnd, Recovered,
           LineLow, LineHigh, Suspend, Sof, Attach, Detach, Connect, Disconnect
  <2>3. ~Reboot => core'.addr = core.addr
    <3>1. SendSetup => core'.addr = core.addr
      BY SendSetupHost
    <3>2. Complete \/ CompleteAckLost => core'.addr = core.addr
      BY TypeParts DEF Complete, CompleteAckLost, StatusAcked, Stalled, CoreRegs
    <3>3. Transaction => core'.addr = core.addr
      BY DEF Transaction
    <3>4. ResetStart \/ LineLow => core'.addr = core.addr
      BY TypeParts DEF ResetStart, LineLow, BusResetOn, CoreRegs
    <3>5. ResetEnd \/ Recovered \/ LineHigh \/ Suspend \/ Sof => core'.addr = core.addr
      BY TypeParts DEF ResetEnd, Recovered, LineHigh, Suspend, Sof, BusResetOff, SuspendOn,
                       SofSeen, CoreRegs
    <3>6. Attach \/ Detach => core'.addr = core.addr
      BY TypeParts DEF Attach, Detach, Connect, Disconnect, CoreRegs
    <3> QED BY <3>1, <3>2, <3>3, <3>4, <3>5, <3>6
  <2> QED BY <2>1, <2>2, <2>3 DEF SessionOK
<1> SUFFICES ASSUME Handled' PROVE SessionOK'
  BY <1>1 DEF SessionOK
<1>2. CASE SendSetup
  <2>1. PICK r \in IF host.req = NoReq THEN HostRequest ELSE {host.req} :
           /\ host.stage = "up" /\ host'.req = r
           /\ host'.confs = IF Selects(r) THEN host.confs + 1 ELSE host.confs
           /\ ctl'.setup = r /\ core'.pend = core.pend
           /\ UNCHANGED <<eps, st, fw>>
    BY <1>2, SendSetupHost
  <2>2. Handled /\ (host'.confs = 0 => host.confs = 0)
    BY <2>1, HostFields DEF Handled
  <2> QED BY <1>1, <2>1, <2>2 DEF SessionOK, Blank
<1>3. CASE Complete \/ CompleteAckLost
  <2>1. core'.pend = core.pend
    BY <1>3, TypeParts DEF Complete, CompleteAckLost, StatusAcked, Stalled, CoreRegs
  <2>2. ctl'.setup = NoReq
    <3>1. ctl'.setup = ctl.setup
      BY <1>3, TypeParts DEF Complete, CompleteAckLost, StatusAcked, Stalled, Control
    <3> QED BY <1>3, <3>1, CompleteHost
  <2>3. Handled /\ host'.confs = host.confs /\ UNCHANGED <<eps, st, fw>>
    BY <1>3, <2>1, CompleteHost DEF Handled
  <2> QED BY <1>1, <2>2, <2>3 DEF SessionOK, Blank
<1>4. CASE Transaction
  <2>1. /\ host.stage = "up" /\ UNCHANGED <<core, ctl, st, fw>> /\ InUse # {}
        /\ host'.confs = host.confs /\ host'.req = host.req
    BY <1>4, HostFields DEF Transaction, HostState
  <2>2. host.confs # 0
    BY <2>1 DEF InUse, Settings, HostOK
  <2> QED BY <1>1, <2>1, <2>2 DEF SessionOK, Handled
<1>5. CASE Recovered
  <2>1. host.stage = "recovery" /\ host'.confs = host.confs /\ host'.req = host.req
        /\ UNCHANGED <<core, eps, ctl, st, fw>>
    BY <1>5, BusHost DEF Recovered
  <2> QED BY <1>1, <2>1 DEF SessionOK, Handled, Blank
<1>6. CASE Suspend \/ Sof
  <2>1. core'.pend = core.pend /\ UNCHANGED <<eps, ctl, st, fw, host>>
    BY <1>6, BusHost DEF Suspend, Sof
  <2> QED BY <1>1, <2>1 DEF SessionOK, Handled, Blank
<1>7. ~(ResetStart \/ ResetEnd \/ LineLow \/ LineHigh \/ Attach \/ Detach \/ Reboot)
  BY NotHandled
<1> QED BY <1>2, <1>3, <1>4, <1>5, <1>6, <1>7

\* A request that asks for an address.
LEMMA AddressRequest ==
  ASSUME NEW r, Sound(r), r.name = "set_address"
  PROVE  r = Req("set_address", 0, r.value)
  BY DEF Sound, Request, Req

\* A step of the firmware keeps the address that host and device agree on.
LEMMA AddressFirmware ==
  ASSUME TypeInv, TypeInv', ResettingOK, HostOK, UnhandledOK, SessionOK, AddressOK,
         Firmware, UNCHANGED host, Handled'
  PROVE  AddressOK'
<1>0. NoReq.name = "none"
  BY DEF NoReq
<1>1. CASE ResetAr
  <2>1. core'.addr = 0 /\ ctl' = Idle
    <3>1. core.addr = 0 /\ core'.addr = core.addr
      BY <1>1, TypeParts DEF ResetAr, CoreRegs, SessionOK
    <3>2. ctl' = Idle
      BY <1>1 DEF ResetAr, ResettingOK, Resetting
    <3> QED BY <3>1, <3>2
  <2>2. host.addr = 0
    <3>1. CASE host.stage = "recovery"
      BY <3>1, HostResetFields DEF HostOK
    <3>2. CASE host.stage = "up" /\ core.pend
      BY <3>2 DEF UnhandledOK
    <3>3. CASE host.stage = "up" /\ ~core.pend
      BY <1>1, <3>3 DEF SessionOK, Handled, ResetAr
    <3> QED BY <3>1, <3>2, <3>3 DEF Handled
  <2> QED BY <1>0, <2>1, <2>2, IdleType DEF AddressOK
<1>2. CASE ~ResetAr
  <2>1. Handled /\ fw.pc # "csr"
    BY <1>2, FirmwareCore DEF Handled, SessionOK
  <2>2. core'.addr = core.addr \/ SetAddrDone
    BY <2>1, FirmwareCore DEF ResetCsr
  <2>3. /\ \/ core.addr = host.addr
           \/ /\ ctl.req = Req("set_address", 0, host.addr) /\ ctl.phase \in {"acked", "answer"}
              /\ ctl.setup = NoReq
        /\ ctl.req.name = "set_address" /\ ctl.phase = "acked" => ctl.req.value = host.addr
    BY <2>1 DEF AddressOK
  <2>4. CASE SetAddrDone
    <3>1. core'.addr = ctl.req.value /\ ctl.req.name = "set_address" /\ ctl.phase = "acked"
      BY <2>4, TypeParts DEF SetAddrDone, Done, CoreRegs
    <3>2. ctl'.req = NoReq
      BY <2>4, TypeParts, DoneType DEF SetAddrDone
    <3> QED BY <1>0, <2>3, <3>1, <3>2 DEF AddressOK
  <2>5. CASE ~SetAddrDone
    <3>1. CASE UNCHANGED ctl
      BY <2>2, <2>3, <2>5, <3>1 DEF AddressOK
    <3>2. CASE ResetEp0 /\ ctl' = [Idle EXCEPT !.up = TRUE]
      <4>1. ctl = Idle
        BY <3>2 DEF ResetEp0, ResettingOK, Resetting
      <4>2. core.addr = host.addr
        BY <1>0, <2>3, <4>1, IdleType DEF Req
      <4> QED BY <1>0, <2>2, <2>5, <3>2, <4>2, IdleType DEF AddressOK
    <3>5. ~HwReset
      BY <2>1 DEF HwReset, SessionOK
    <3>3. CASE OtherDone /\ ctl'.req = NoReq
      <4>1. core.addr = host.addr
        BY <2>3, <3>3 DEF OtherDone, Req
      <4> QED BY <1>0, <2>2, <2>5, <3>3, <4>1 DEF AddressOK
    <3>4. CASE ctl.setup # NoReq /\ ctl'.phase \in {"answer", "stall"}
      BY <2>2, <2>3, <2>5, <3>4 DEF AddressOK
    <3> QED BY <2>5, <3>1, <3>2, <3>3, <3>4, <3>5, FirmwareCtl
  <2> QED BY <2>4, <2>5
<1> QED BY <1>1, <1>2

\* Nor do host and bus part the addresses.
LEMMA AddressHost ==
  ASSUME TypeInv, TypeInv', ResettingOK, HostOK, HostOK', AddressOK,
         \/ SendSetup \/ Complete \/ CompleteAckLost \/ Transaction
         \/ ResetStart \/ ResetEnd \/ Recovered \/ LineLow \/ LineHigh \/ Suspend \/ Sof
         \/ Attach \/ Detach \/ Reboot
  PROVE  AddressOK'
<1>0. NoReq.name = "none"
  BY DEF NoReq
<1> SUFFICES ASSUME Handled' PROVE AddressOK'
  BY DEF AddressOK
<1>1. CASE SendSetup
  <2>1. PICK r \in IF host.req = NoReq THEN HostRequest ELSE {host.req} :
           /\ host.stage = "up" /\ host'.addr = host.addr /\ core.addr = host.addr
           /\ ctl'.req = ctl.req /\ ctl'.phase = ctl.phase
           /\ core'.addr = core.addr /\ core'.pend = core.pend
    BY <1>1, SendSetupHost
  <2>2. Handled
    BY <2>1 DEF Handled
  <2> QED BY <2>1, <2>2 DEF AddressOK
<1>2. CASE Complete \/ CompleteAckLost
  <2>1. core'.pend = core.pend /\ core'.addr = core.addr
    BY <1>2, TypeParts DEF Complete, CompleteAckLost, StatusAcked, Stalled, CoreRegs
  <2>2. /\ Handled /\ core.addr = host.addr /\ ctl.req = host.req /\ ctl.setup = NoReq
        /\ Sound(ctl.req) /\ ctl.phase \in {"answer", "stall"}
        /\ host'.addr = IF ctl.req.name = "set_address" /\ ctl.phase = "answer"
                        THEN ctl.req.value ELSE host.addr
    BY <1>2, <2>1, CompleteHost DEF Handled
  <2>3. \/ ctl.phase = "answer" /\ ctl'.phase = "acked" /\ ctl'.req = ctl.req
           /\ ctl'.setup = ctl.setup
        \/ ctl.phase = "stall" /\ ctl'.req = NoReq
        \/ ctl.phase = "answer" /\ ctl' = ctl
    BY <1>2, TypeParts DEF Complete, CompleteAckLost, StatusAcked, Stalled, Control
  <2>4. CASE ctl.phase = "answer" /\ ctl.req.name = "set_address"
    <3>1. ctl.req = Req("set_address", 0, host'.addr) /\ ctl.req.value = host'.addr
      BY <2>2, <2>4, AddressRequest
    <3>2. ctl'.req = ctl.req /\ ctl'.setup = NoReq /\ ctl'.phase \in {"acked", "answer"}
      BY <2>2, <2>3, <2>4
    <3> QED BY <3>1, <3>2 DEF AddressOK
  <2>5. CASE ~(ctl.phase = "answer" /\ ctl.req.name = "set_address")
    <3>1. core'.addr = host'.addr
      BY <2>1, <2>2, <2>5
    <3>2. ctl'.req.name = "set_address" => ctl'.phase # "acked"
      BY <1>0, <2>2, <2>3, <2>5
    <3> QED BY <3>1, <3>2 DEF AddressOK
  <2> QED BY <2>4, <2>5
<1>3. CASE Transaction
  <2>1. /\ host.stage = "up" /\ UNCHANGED <<core, ctl>> /\ host'.addr = host.addr
    BY <1>3, HostFields DEF Transaction, HostState
  <2> QED BY <2>1 DEF AddressOK, Handled
<1>4. CASE Recovered
  <2>1. /\ host.stage = "recovery" /\ host'.addr = host.addr /\ UNCHANGED <<core, ctl>>
    BY <1>4, BusHost DEF Recovered
  <2> QED BY <2>1 DEF AddressOK, Handled
<1>5. CASE Suspend \/ Sof
  <2>1. /\ core'.pend = core.pend /\ core'.addr = core.addr /\ UNCHANGED <<ctl, host>>
    BY <1>5, BusHost DEF Suspend, Sof
  <2> QED BY <2>1 DEF AddressOK, Handled
<1>6. ~(ResetStart \/ ResetEnd \/ LineLow \/ LineHigh \/ Attach \/ Detach \/ Reboot)
  BY NotHandled
<1> QED BY <1>1, <1>2, <1>3, <1>4, <1>5, <1>6

\* Nothing happens.
LEMMA SessionStutter ==
  ASSUME HostOK, UnhandledOK, SessionOK, AddressOK, UNCHANGED vars
  PROVE  HostOK' /\ UnhandledOK' /\ SessionOK' /\ AddressOK'
<1>1. HostOK' /\ UnhandledOK'
  BY DEF HostOK, UnhandledOK, Quiet, vars
<1>2. SessionOK' /\ AddressOK'
  BY DEF SessionOK, AddressOK, Handled, Blank, vars
<1> QED BY <1>1, <1>2

\* What is known of the session and of the address, with all it rests on.
SessionInv == /\ TypeInv /\ ResettingOK /\ HostOK /\ UnhandledOK
              /\ SessionOK /\ AddressOK

LEMMA SessionInvariant == Spec => []SessionInv
<1>1. DeviceInit => SessionInv
  <2> SUFFICES ASSUME DeviceInit PROVE SessionInv
    OBVIOUS
  <2>1. host = HostReset("detached") /\ fw.pc = "poll"
    BY DEF DeviceInit, Init
  <2>2. host.stage = "detached" /\ host.conf = NoConf /\ host.confs = 0 /\ host.req = NoReq
    BY <2>1, HostResetFields
  <2> QED BY <2>1, <2>2, TypeInit
          DEF SessionInv, HostOK, Quiet, NoReq, UnhandledOK, SessionOK, AddressOK, Handled
<1>2. SessionInv /\ [DeviceNext]_vars => SessionInv'
  <2>1. ASSUME SessionInv, DeviceNext PROVE SessionInv'
    <3>1. TypeInv' /\ ResettingOK'
      BY <2>1, TypeStep, ResettingStep DEF SessionInv
    <3>2. HostOK' /\ UnhandledOK'
      BY <2>1, <3>1, HostStep, UnhandledStep DEF SessionInv
    <3>3. CASE Firmware /\ UNCHANGED host
      <4>1. SessionOK'
        <5>1. CASE Handled'
          BY <2>1, <3>1, <3>3, <5>1, SessionFirmware DEF SessionInv
        <5>2. CASE ~Handled'
          <6>1. fw'.pc = "ar" => core'.addr = 0
            <7>1. fw'.pc = "ar" => fw.pc = "csr" /\ ResetCsr
              BY <2>1, <3>3, FirmwarePlaces DEF SessionInv
            <7> QED BY <2>1, <7>1, TypeParts DEF SessionInv, ResetCsr, CoreRegs
          <6> QED BY <5>2, <6>1 DEF SessionOK
        <5> QED BY <5>1, <5>2
      <4>2. AddressOK'
        BY <2>1, <3>1, <3>3, AddressFirmware DEF SessionInv, AddressOK
      <4> QED BY <3>1, <3>2, <4>1, <4>2 DEF SessionInv
    <3>4. CASE ~(Firmware /\ UNCHANGED host)
      BY <2>1, <3>1, <3>2, <3>4, SessionHost, AddressHost
         DEF SessionInv, DeviceNext, FirmwareStep
    <3> QED BY <3>3, <3>4
  <2>2. ASSUME SessionInv, UNCHANGED vars PROVE SessionInv'
    BY <2>2, TypeStutter, SessionStutter DEF SessionInv
  <2> QED BY <2>1, <2>2
<1> QED BY <1>1, <1>2, PTL DEF Spec

\* Once the flag of a bus reset is cleared nothing is left of the session before:
\* however many resets come, and at whatever step of usb_poll() and of
\* usb_bus_reset().
THEOREM SessionCleanCorrect == Spec => []SessionClean
<1>1. SessionInv => SessionClean
  <2> SUFFICES ASSUME SessionInv, host.stage = "up", ~core.pend, host.confs = 0
               PROVE  /\ \A e \in Ep : eps[e].type = "none"
                      /\ fw.pc = "poll" => st.state = "default"
    BY DEF SessionClean
  <2>1. Handled
    BY DEF Handled
  <2>2. Blank /\ (fw.pc = "poll" => st.state = "default")
    BY <2>1 DEF SessionInv, SessionOK
  <2> QED BY <2>2, BlankType DEF Blank
<1> QED BY <1>1, SessionInvariant, PTL

\* Device and host agree on the address, through resets, lost acknowledgements
\* and requests that are sent again, for any addresses the host gives.
THEOREM AddressAgreesCorrect == Spec => []AddressAgrees
<1>1. SessionInv => AddressAgrees
  BY DEF SessionInv, AddressOK, AddressAgrees, Handled
<1> QED BY <1>1, SessionInvariant, PTL

-----------------------------------------------------------------------------
(* What is configured.                                                     *)

\* How SET_CONFIGURATION begins, and how it ends.
LEMMA ConfigurePlaces ==
  ASSUME TypeInv, Firmware
  PROVE  /\ fw.pc # "hung"
         /\ fw'.pc = "hung" => NullHangs
         /\ fw.pc \in Configuring =>
              fw'.pc \in Configuring \cup {"hung"} \/ Configured \/ NullEnds
         /\ SetConfiguration => fw.pc = "ep0" /\ fw'.pc = "set_conf"
<1>1. CASE Poll \/ HwReset \/ ResetCsr \/ ResetAr \/ ResetEp0 \/ SetDefault
  <2>1. fw.pc \in {"poll", "hw_reset", "csr", "ar", "ep0_reset", "default"}
    BY <1>1 DEF Poll, HwReset, ResetCsr, ResetAr, ResetEp0, SetDefault
  <2>2. fw'.pc # "hung"
    BY <1>1, <2>1, FirmwarePlaces
  <2> QED BY <2>1, <2>2 DEF Configuring, SetConfiguration, Handle
<1>2. CASE Suspended \/ Active \/ Drain \/ Polled
  <2>1. fw.pc \in {"suspend", "drain", "ep0"}
    BY <1>2 DEF Suspended, Active, Drain, Polled
  <2>2. \E p \in {"poll", "drain", "ep0"} : Goto(p) \/ GotoWithout(p)
    BY <1>2 DEF Suspended, Active, Drain, Polled
  <2>3. fw'.pc \in {"poll", "drain", "ep0"}
    BY <2>2, TypeParts, GotoType DEF FwPc
  <2>4. ~SetConfiguration
    <3>1. SetConfiguration => /\ ctl.setup.name = "set_configuration" /\ ctl.phase # "acked"
                              /\ Goto("set_conf")
      BY DEF SetConfiguration, Handle
    <3>2. SetConfiguration => fw'.pc = "set_conf"
      BY <3>1, TypeParts, GotoType DEF FwPc
    <3> QED BY <2>3, <3>2
  <2> QED BY <2>1, <2>3, <2>4 DEF Configuring
<1>3. CASE SetAddrDone \/ OtherDone
  <2>1. fw.pc = "ep0" /\ UNCHANGED fw /\ ctl.phase = "acked"
    BY <1>3 DEF SetAddrDone, OtherDone, Done
  <2> QED BY <2>1 DEF Configuring, SetConfiguration, Handle
<1>4. CASE Requests
  <2>1. fw.pc = "ep0"
    BY <1>4 DEF Requests, GetStatusDev, GetStatusIntf, GetStatusEp, SetFeatureEp,
         ClearFeatureEp, SetAddress, GetConfiguration, SetConfiguration,
         SetConfigurationRefused, GetInterface, SetInterface, SetInterfaceRefused,
         GetDescriptor, OtherFeature, DfuDetach, DfuGetStatus, Handle
  <2>2. UNCHANGED fw \/ Goto("set_conf")
    BY <1>4 DEF Requests, GetStatusDev, GetStatusIntf, GetStatusEp, SetFeatureEp,
         ClearFeatureEp, SetAddress, GetConfiguration, SetConfiguration,
         SetConfigurationRefused, GetInterface, SetInterface, SetInterfaceRefused,
         GetDescriptor, OtherFeature, DfuDetach, DfuGetStatus, Local
  <2>3. Goto("set_conf") => fw'.pc = "set_conf"
    BY TypeParts, GotoType DEF FwPc
  <2>4. SetConfiguration => Goto("set_conf")
    BY DEF SetConfiguration
  <2> QED BY <2>1, <2>2, <2>3, <2>4 DEF Configuring
<1>5. CASE DispatchSetConf \/ EpBoot \/ EpsBooted \/ DispatchSetIntf
  <2>1. fw.pc \in {"set_conf", "boot", "set_intf"}
    BY <1>5 DEF DispatchSetConf, EpBoot, EpsBooted, DispatchSetIntf
  <2>2. fw'.pc \in {"null", "boot", "set_intf"}
    BY <1>5, <2>1, TypeParts DEF DispatchSetConf, EpBoot, EpsBooted, DispatchSetIntf, Place
  <2> QED BY <2>1, <2>2 DEF Configuring, SetConfiguration, Handle
<1>6. CASE Configured \/ NullEnds
  <2>1. fw.pc \in {"set_intf", "null"} /\ Goto("ep0")
    BY <1>6 DEF Configured, NullEnds
  <2>2. fw'.pc = "ep0"
    BY <2>1, TypeParts, GotoType DEF FwPc
  <2> QED BY <1>6, <2>1, <2>2 DEF SetConfiguration, Handle
<1>7. CASE NullHangs
  <2>1. fw.pc = "null" /\ fw'.pc = "hung"
    BY <1>7, TypeParts, GotoType DEF NullHangs, FwPc
  <2> QED BY <1>7, <2>1 DEF SetConfiguration, Handle
<1> QED BY <1>1, <1>2, <1>3, <1>4, <1>5, <1>6, <1>7 DEF Firmware

\* An answer to SET_CONFIGURATION: only what does not exist is refused, and a
\* configuration that is selected is in force.
LEMMA SelectionAnswered ==
  ASSUME TypeInv, Requests \/ Configured \/ NullEnds, ctl'.req = ctl.setup,
         ctl.setup # NoReq, ctl'.setup = NoReq, Selects(ctl.setup)
  PROVE  /\ ctl'.phase = "answer" /\ UNCHANGED st
         /\ ctl.setup.value # NoConf => st.state = "configured"
<1>1. ctl.setup.name = "set_configuration" /\ ctl.setup.value # BadConf
  BY DEF Selects
<1>2. ~Requests
  <2>1. SUFFICES ASSUME Requests PROVE FALSE
    OBVIOUS
  <2>2. SetConfiguration \/ SetConfigurationRefused
    BY <1>1, <2>1 DEF Requests, GetStatusDev, GetStatusIntf, GetStatusEp, SetFeatureEp,
         ClearFeatureEp, SetAddress, GetConfiguration, GetInterface, SetInterface,
         SetInterfaceRefused, GetDescriptor, OtherFeature, DfuDetach, DfuGetStatus, Handle
  <2>3. ~SetConfiguration
    BY DEF SetConfiguration
  <2>4. Sound(ctl.setup)
    BY TypeParts DEF RequestsOK
  <2> QED BY <1>1, <2>2, <2>3, <2>4 DEF SetConfigurationRefused, Sound
<1>3. Configured \/ NullEnds
  BY <1>2
<1>4. fw.pc \in Configuring /\ Reply(TRUE, 0) /\ UNCHANGED st
  BY <1>3 DEF Configured, NullEnds, Configuring
<1>5. ctl' = [ctl EXCEPT !.setup = NoReq, !.req = ctl.setup, !.phase = "answer", !.data = 0]
  BY <1>4 DEF Reply, Answer
<1>6. ctl'.phase = "answer"
  BY <1>5, TypeParts DEF Control
<1>7. ctl.setup.value # NoConf => st.state = "configured"
  BY <1>4, TypeParts DEF ConfiguringOK
<1> QED BY <1>4, <1>6, <1>7

\* A step of the firmware.
LEMMA ConfiguredFirmware ==
  ASSUME TypeInv, TypeInv', ResettingOK, HostOK, UnhandledOK, SessionOK, ConfiguredOK,
         Firmware, UNCHANGED host
  PROVE  ConfiguredOK'
<1>0. NoReq.name = "none" /\ ~Selects(NoReq)
  BY DEF NoReq, Selects
<1>1. \/ st'.state = st.state /\ st'.conf = st.conf /\ ~SetDefault /\ ~SetConfiguration
      \/ SetDefault /\ st'.state = "default" /\ fw.pc = "default" /\ fw'.pc = "suspend"
         /\ UNCHANGED ctl
      \/ SetConfiguration /\ fw.pc = "ep0" /\ fw'.pc = "set_conf" /\ UNCHANGED ctl
         /\ ctl.setup.name = "set_configuration" /\ ctl.setup # NoReq
         /\ ctl.setup.value \in Conf \cup {NoConf}
  <2>1. SetConfiguration => /\ fw.pc = "ep0" /\ fw'.pc = "set_conf" /\ UNCHANGED ctl
                            /\ ctl.setup.name = "set_configuration"
                            /\ ctl.setup.value \in Conf \cup {NoConf}
    BY ConfigurePlaces DEF SetConfiguration, Handle
  <2>2. SetDefault => /\ fw.pc = "default" /\ UNCHANGED ctl
    BY DEF SetDefault
  <2>3. SetDefault => st'.state = "default" /\ fw'.pc = "suspend"
    <3>1. SetDefault => st' = [st EXCEPT !.state = "default", !.susp = FALSE]
      BY DEF SetDefault, SetState
    <3> QED BY <2>2, <3>1, TypeParts, FirmwarePlaces DEF Stack
  <2> QED BY <1>0, <2>1, <2>2, <2>3, FirmwareState
<1>2. st'.state = "configured" => st'.conf \in Conf
  <2>1. CASE fw'.pc = "set_conf"
    <3>1. st'.state = (IF st'.conf = NoConf THEN "default" ELSE "configured")
          /\ st'.conf \in Conf \cup {NoConf}
      BY <2>1, TypeParts DEF TypeInv, TypeOK, StackTypeOK, ConfiguringOK, Configuring, Stack
    <3> QED BY <3>1
  <2> QED BY <1>1, <2>1 DEF ConfiguredOK
<1>3. fw'.pc \in {"suspend", "drain", "ep0"} => st'.state \in {"default", "configured"}
  <2>1. CASE fw.pc = "poll"
    <3>1. Poll /\ fw'.pc = IF core.pend THEN "hw_reset" ELSE "suspend"
      BY <2>1, FirmwarePlaces
    <3> QED BY <3>1, TypeParts DEF Poll, Stack
  <2>2. CASE fw.pc \in {"suspend", "drain", "ep0"}
    BY <1>1, <2>2 DEF ConfiguredOK
  <2>3. CASE fw.pc \in Configuring
    <3>1. st.state \in {"default", "configured"}
      BY <2>3, TypeParts DEF ConfiguringOK
    <3> QED BY <1>1, <2>3, <3>1 DEF Configuring
  <2>4. CASE fw.pc \in {"hw_reset", "csr", "ar", "ep0_reset", "default"}
    BY <1>1, <2>4, FirmwarePlaces
  <2> QED BY <2>1, <2>2, <2>3, <2>4, TypeParts, ConfigurePlaces DEF Place, FwPc, Configuring
<1>4. ctl'.setup.name = "set_interface" => st'.state # "default"
  <2>1. SUFFICES ASSUME ctl'.setup.name = "set_interface" PROVE st'.state # "default"
    OBVIOUS
  <2>2. ctl'.setup = ctl.setup
    BY <1>0, <2>1, IdleType, FirmwareCtl
  <2> QED BY <1>1, <2>1, <2>2 DEF ConfiguredOK
<1>5. fw'.pc = "hung" => ctl'.setup # NoReq
  <2>1. NullHangs => UNCHANGED ctl /\ ctl.setup.name = "set_configuration"
    BY TypeParts DEF NullHangs, ConfiguringOK, Configuring
  <2> QED BY <1>0, <2>1, ConfigurePlaces
<1>6. fw'.pc = "default" => ctl'.req = NoReq /\ ctl'.setup.name # "set_interface"
  <2>1. fw'.pc = "default" => ResetEp0
    BY TypeParts, FirmwarePlaces
  <2> QED BY <1>0, <2>1, IdleType DEF ResetEp0
<1>7. Handled' /\ fw'.pc \in {"ep0_reset", "default"} => host.addr = 0 /\ host.confs = 0
  <2>1. SUFFICES ASSUME Handled', fw'.pc \in {"ep0_reset", "default"}
                 PROVE  host.addr = 0 /\ host.confs = 0
    OBVIOUS
  <2>2. CASE fw.pc = "ar"
    <3>1. CASE host.stage = "recovery"
      BY <3>1, HostResetFields DEF HostOK
    <3>2. CASE host.stage = "up" /\ core.pend
      BY <3>2 DEF UnhandledOK
    <3>3. ~(host.stage = "up" /\ ~core.pend)
      BY <2>2 DEF SessionOK, Handled
    <3> QED BY <2>1, <3>1, <3>2, <3>3 DEF Handled
  <2>3. CASE fw.pc = "ep0_reset"
    <3>1. ~ResetAr
      BY <2>3 DEF ResetAr
    <3>2. Handled
      BY <2>1, <3>1, FirmwareCore DEF Handled
    <3> QED BY <2>3, <3>2 DEF ConfiguredOK
  <2>4. fw.pc \in {"ar", "ep0_reset"}
    BY <2>1, FirmwarePlaces
  <2> QED BY <2>2, <2>3, <2>4
<1>8. Handled' /\ host.conf # NoConf /\ ~Selects(host.req) => st'.state = "configured"
  <2>1. SUFFICES ASSUME Handled', host.conf # NoConf, ~Selects(host.req)
                 PROVE  st'.state = "configured"
    OBVIOUS
  <2>2. host.confs # 0
    BY <2>1 DEF HostOK
  <2>3. ~ResetAr
    <3>1. ResetAr => fw.pc = "ar" /\ fw'.pc = "ep0_reset"
      BY FirmwarePlaces DEF ResetAr
    <3> QED BY <1>7, <2>1, <2>2, <3>1
  <2>4. Handled
    BY <2>1, <2>3, FirmwareCore DEF Handled
  <2>5. st.state = "configured" /\ fw.pc # "default"
    BY <2>1, <2>2, <2>4 DEF ConfiguredOK
  <2>6. ~SetConfiguration
    <3>1. SetConfiguration => ctl.setup = host.req
      BY <1>1, <2>4, <2>5 DEF SessionOK
    <3>2. SetConfiguration => Selects(ctl.setup)
      BY <1>1, <2>5, HostAssumption DEF Selects
    <3> QED BY <2>1, <3>1, <3>2
  <2> QED BY <1>1, <2>5, <2>6
<1>9. Selects(ctl'.req) =>
        /\ ctl'.phase # "stall"
        /\ ctl'.req.value # NoConf /\ ctl'.phase = "answer"
           /\ fw'.pc \notin Configuring \cup {"hung"} => st'.state # "default"
  <2>1. SUFFICES ASSUME Selects(ctl'.req)
                 PROVE  /\ ctl'.phase # "stall"
                        /\ ctl'.req.value # NoConf /\ ctl'.phase = "answer"
                           /\ fw'.pc \notin Configuring \cup {"hung"} => st'.state # "default"
    OBVIOUS
  <2>2. CASE UNCHANGED ctl
    <3>1. fw.pc # "default"
      BY <1>0, <2>1, <2>2 DEF ConfiguredOK
    <3>2. Configured \/ NullEnds => ctl'.setup = NoReq /\ ctl.setup # NoReq
      <4>1. Configured \/ NullEnds => /\ Reply(TRUE, 0) /\ fw.pc \in Configuring
        BY DEF Configured, NullEnds, Configuring
      <4>2. TRUE \in BOOLEAN /\ 0 \in Int
        OBVIOUS
      <4>3. fw.pc \in Configuring => ctl.setup.name = "set_configuration"
        BY TypeParts DEF ConfiguringOK
      <4> QED BY <1>0, <4>1, <4>2, <4>3, TypeParts, ReplyType
    <3>3. fw.pc \in Configuring \cup {"hung"} => fw'.pc \in Configuring \cup {"hung"}
      BY <2>2, <3>2, ConfigurePlaces
    <3>4. "set_conf" \in Configuring
      BY DEF Configuring
    <3> QED BY <1>1, <2>1, <2>2, <3>1, <3>3, <3>4 DEF ConfiguredOK
  <2>3. CASE /\ ctl.setup # NoReq /\ ctl'.setup = NoReq /\ ctl'.req = ctl.setup
             /\ Requests \/ Configured \/ NullEnds
    BY <2>1, <2>3, SelectionAnswered
  <2>4. CASE ctl'.req = NoReq
    BY <1>0, <2>1, <2>4
  <2> QED BY <2>2, <2>3, <2>4, FirmwareCtl, IdleType
<1> QED BY <1>2, <1>3, <1>4, <1>5, <1>6, <1>7, <1>8, <1>9 DEF ConfiguredOK

\* A step of the host or of the bus.
LEMMA ConfiguredHost ==
  ASSUME TypeInv, TypeInv', ResettingOK, HostOK, HostOK', UnhandledOK, SessionOK, ConfiguredOK,
         \/ SendSetup \/ Complete \/ CompleteAckLost \/ Transaction
         \/ ResetStart \/ ResetEnd \/ Recovered \/ LineLow \/ LineHigh \/ Suspend \/ Sof
         \/ Attach \/ Detach \/ Reboot
  PROVE  ConfiguredOK'
<1>0. NoReq.name = "none" /\ ~Selects(NoReq)
  BY DEF NoReq, Selects
<1>1. CASE SendSetup
  <2>1. PICK r \in IF host.req = NoReq THEN HostRequest ELSE {host.req} :
           /\ host.stage = "up" /\ host'.req = r /\ r # NoReq
           /\ host'.addr = host.addr /\ host'.conf = host.conf
           /\ host'.confs = IF Selects(r) THEN host.confs + 1 ELSE host.confs
           /\ ctl.up /\ ctl'.setup = r /\ ctl'.req = ctl.req /\ ctl'.phase = ctl.phase
           /\ core'.pend = core.pend
           /\ UNCHANGED <<st, fw>>
    BY <1>1, SendSetupHost
  <2>2. fw.pc # "ep0_reset"
    BY <2>1, IdleType DEF ResettingOK, Resetting
  <2>3. Handled' => Handled
    BY <2>1 DEF Handled
  <2>4. r.name = "set_interface" => st.state # "default" /\ fw.pc # "default"
    <3>1. SUFFICES ASSUME r.name = "set_interface"
                   PROVE  st.state # "default" /\ fw.pc # "default"
      OBVIOUS
    <3>2. host.conf # NoConf /\ ~Selects(host.req)
      BY <1>0, <3>1, NewRequest DEF Selects
    <3>3. Handled
      BY <2>1, <3>2 DEF Handled, UnhandledOK, HostOK
    <3>4. st.state = "configured" /\ host.confs # 0
      BY <3>2, <3>3 DEF ConfiguredOK, HostOK
    <3> QED BY <3>3, <3>4 DEF ConfiguredOK
  <2>5. fw.pc = "default" => ~Selects(r)
    <3>1. SUFFICES ASSUME fw.pc = "default" PROVE ~Selects(r)
      OBVIOUS
    <3>2. Handled
      BY <2>1, <3>1 DEF Handled, UnhandledOK
    <3>3. host.addr = 0 /\ host.confs = 0
      BY <3>1, <3>2 DEF ConfiguredOK
    <3> QED BY <3>3, QuietRequest DEF Quiet, Selects
  <2>6. ~Selects(r) => ~Selects(host.req)
    BY <1>0, NewRequest
  <2> QED BY <2>1, <2>2, <2>3, <2>4, <2>5, <2>6 DEF ConfiguredOK, Selects
<1>2. CASE Complete \/ CompleteAckLost
  <2>1. core'.pend = core.pend /\ ctl'.setup = ctl.setup
    BY <1>2, TypeParts DEF Complete, CompleteAckLost, StatusAcked, Stalled, CoreRegs, Control
  <2>2. \/ ctl'.req = ctl.req /\ ctl'.phase = "acked"
        \/ ctl'.req = NoReq
        \/ ctl'.req = ctl.req /\ ctl'.phase = ctl.phase
    BY <1>2, TypeParts DEF Complete, CompleteAckLost, StatusAcked, Stalled, Control
  <2>3. /\ host.stage = "up" /\ UNCHANGED <<st, fw>> /\ ctl.req = host.req /\ ctl.req # NoReq
        /\ ctl.setup = NoReq /\ ctl.phase \in {"answer", "stall"} /\ host'.confs = host.confs
        /\ host'.conf = IF host.req.name = "set_configuration" /\ ctl.phase = "answer"
                        THEN host.req.value ELSE host.conf
        /\ host'.addr = IF host.req.name = "set_address" /\ ctl.phase = "answer"
                        THEN host.req.value ELSE host.addr
    BY <1>2, CompleteHost
  <2>4. fw.pc \notin {"ep0_reset", "default", "hung"} \cup Configuring
    <3>1. fw.pc # "ep0_reset"
      BY <2>3, IdleType DEF ResettingOK, Resetting
    <3>2. fw.pc \notin {"default", "hung"}
      BY <2>3 DEF ConfiguredOK
    <3>3. fw.pc \notin Configuring
      BY <1>0, <2>3, TypeParts DEF ConfiguringOK
    <3> QED BY <3>1, <3>2, <3>3
  <2>5. Handled' /\ host'.conf # NoConf => st.state = "configured"
    <3>1. SUFFICES ASSUME Handled', host'.conf # NoConf PROVE st.state = "configured"
      OBVIOUS
    <3>2. Handled
      BY <2>1, <2>3, <3>1 DEF Handled
    <3>3. CASE Selects(ctl.req)
      <4>1. ctl.phase = "answer" /\ ctl.req.value # NoConf
        BY <2>3, <3>1, <3>3 DEF ConfiguredOK, Selects
      <4>2. st.state # "default" /\ st.state \in {"default", "configured"}
        BY <2>4, <3>2, <3>3, <4>1 DEF ConfiguredOK, SessionOK
      <4> QED BY <4>2
    <3>4. CASE ~Selects(ctl.req)
      <4>1. host'.conf = host.conf
        BY <2>3, <3>4, TypeParts DEF RequestsOK, Selects
      <4> QED BY <2>3, <3>1, <3>2, <3>4, <4>1 DEF ConfiguredOK
    <3> QED BY <3>3, <3>4
  <2> QED BY <1>0, <2>1, <2>2, <2>3, <2>4, <2>5 DEF ConfiguredOK
<1>3. CASE Transaction \/ Suspend \/ Sof
  <2>1. /\ core'.pend = core.pend /\ UNCHANGED <<ctl, st, fw>>
        /\ host'.stage = host.stage /\ host'.addr = host.addr /\ host'.conf = host.conf
        /\ host'.confs = host.confs /\ host'.req = host.req
    BY <1>3, BusHost, HostFields DEF Transaction, Suspend, Sof, HostState
  <2> QED BY <2>1 DEF ConfiguredOK, Handled
<1>4. CASE Recovered
  <2>1. /\ host.stage = "recovery" /\ host'.conf = host.conf /\ host'.addr = host.addr
        /\ host'.confs = host.confs /\ UNCHANGED <<core, ctl, st, fw>>
    BY <1>4, BusHost DEF Recovered
  <2>2. host.conf = NoConf
    BY <2>1, HostResetFields DEF HostOK
  <2> QED BY <2>1, <2>2 DEF ConfiguredOK, Handled
<1>5. CASE ResetStart \/ ResetEnd \/ LineLow \/ LineHigh \/ Attach \/ Detach \/ Reboot
  <2>1. ~Handled'
    BY <1>5, NotHandled
  <2>2. CASE ResetStart \/ ResetEnd \/ LineLow \/ LineHigh
    <3>1. UNCHANGED <<ctl, st, fw>>
      BY <2>2 DEF ResetStart, ResetEnd, LineLow, LineHigh
    <3> QED BY <2>1, <3>1 DEF ConfiguredOK
  <2>3. CASE Attach \/ Detach
    <3>1. fw.pc = "poll" /\ UNCHANGED <<ctl, fw>>
      BY <2>3 DEF Attach, Detach, Connect, Disconnect
    <3>2. st' \in {[st EXCEPT !.state = "connected"],
                   [st EXCEPT !.state = "disconnected", !.susp = FALSE]}
      BY <2>3 DEF Attach, Detach, Connect, Disconnect, SetState
    <3>3. st'.state \in {"connected", "disconnected"}
      BY <3>2, TypeParts DEF Stack
    <3> QED BY <2>1, <3>1, <3>3 DEF ConfiguredOK
  <2>4. CASE Reboot
    <3>1. ctl' = Idle /\ fw'.pc = "poll" /\ st'.state = "disconnected"
      BY <2>4 DEF Reboot, Detached, StInit
    <3> QED BY <1>0, <2>1, <3>1, IdleType DEF ConfiguredOK
  <2> QED BY <1>5, <2>2, <2>3, <2>4
<1> QED BY <1>1, <1>2, <1>3, <1>4, <1>5

-----------------------------------------------------------------------------
(* The size of the buffers.                                                *)

\* A step that gives no end point another buffer, and configures no other ones.
LEMMA RoomyKept ==
  ASSUME ConfiguredOK, RoomOK, SameBuffers,
         Ready' => Ready /\ st'.conf = st.conf /\ Unbooted = {}
  PROVE  AllRoomy'
<1> SUFFICES ASSUME Ready', NEW e \in EpsOf(st'.conf) PROVE Roomy(e)'
  BY DEF AllRoomy
<1>1. Ready /\ st'.conf = st.conf /\ Unbooted = {} /\ st.conf \in Conf
  BY DEF ConfiguredOK, Ready
<1>2. Roomy(e) /\ e \in Ep
  BY <1>1, ConfParts DEF RoomOK, AllRoomy
<1> QED BY <1>1, <1>2 DEF Roomy, SameBuffers, Allocated

\* A setting whose end points have their buffers.
LEMMA RoomReconf ==
  ASSUME TypeInv, ConfiguredOK, RoomOK, Ready, Unbooted = {},
         NEW s \in Desc[st.conf], Reconf(s)
  PROVE  RoomForPackets' /\ SameBuffers
<1>1. st.conf \in Conf
  BY DEF ConfiguredOK, Ready
<1>2. /\ SameBuffers
      /\ \A e \in Ep : \/ eps'[e].type = eps[e].type /\ eps'[e].ml = eps[e].ml
                       \/ e \in DOMAIN s.ep /\ eps'[e].ml = s.ep[e].mps
  BY <1>1, TypeParts, ReconfType
<1>3. ASSUME NEW e \in Ep, eps'[e].type # "none"
      PROVE  0 \in Allocated(e)' /\ eps'[e].ml <= eps'[e].size
  <2>1. CASE eps'[e].type = eps[e].type /\ eps'[e].ml = eps[e].ml
    BY <1>2, <1>3, <2>1 DEF RoomOK, RoomForPackets, SameBuffers, Allocated
  <2>2. CASE e \in DOMAIN s.ep /\ eps'[e].ml = s.ep[e].mps
    <3>1. e \in EpsOf(st.conf) /\ s.ep[e].mps \in Mps(st.conf, e)
      BY <2>2 DEF EpsOf, Mps
    <3>2. Roomy(e)
      BY <3>1 DEF RoomOK, AllRoomy
    <3> QED BY <1>2, <2>2, <3>1, <3>2 DEF Roomy, SameBuffers, Allocated
  <2> QED BY <1>2, <2>1, <2>2
<1> QED BY <1>2, <1>3 DEF RoomForPackets

\* Which end points have their buffers changes only while a configuration is
\* selected.
LEMMA ReadyFirmware ==
  ASSUME TypeInv, Firmware, ~DispatchSetConf, ~EpBoot, Ready'
  PROVE  Ready /\ st'.conf = st.conf /\ Unbooted = {}
<1>1. st'.state = "configured" /\ fw'.pc \notin Resetting \cup {"set_conf", "default"}
  BY DEF Ready
<1>2. ~SetConfiguration
  BY <1>1, ConfigurePlaces
<1>3. st.state = "configured" /\ st'.conf = st.conf /\ ~SetDefault
  <2>1. SetDefault => st'.state = "default"
    <3>1. SetDefault => st' = [st EXCEPT !.state = "default", !.susp = FALSE]
      BY DEF SetDefault, SetState
    <3> QED BY <3>1, TypeParts DEF Stack
  <2> QED BY <1>1, <1>2, <2>1, FirmwareState
<1>4. fw.pc \notin Resetting \cup {"default"}
  BY <1>1, <1>3, FirmwarePlaces DEF Resetting
<1>5. fw.pc \in {"set_conf", "boot"} => EpsBooted
  BY DEF Firmware, Requests, GetStatusDev, GetStatusIntf, GetStatusEp, SetAddress,
         GetConfiguration, SetConfiguration, SetConfigurationRefused, GetInterface,
         SetInterface, SetInterfaceRefused, GetDescriptor, OtherFeature, DfuDetach,
         DfuGetStatus, SetFeatureEp, ClearFeatureEp, Handle, Poll, HwReset, ResetCsr,
         ResetAr, ResetEp0, SetDefault, Suspended, Active, Drain, Polled, SetAddrDone,
         OtherDone, Done, DispatchSetIntf, Configured, NullEnds, NullHangs
<1>6. fw.pc # "set_conf" /\ Unbooted = {}
  BY <1>5 DEF EpsBooted, Unbooted
<1> QED BY <1>3, <1>4, <1>6 DEF Ready

\* An end point that is booted gets a buffer with room for each of its settings.
LEMMA RoomBoot ==
  ASSUME TypeInv, ResettingOK, MemoryOK, RoomOK, EpBoot
  PROVE  RoomOK'
<1>1. PICK e \in fw.todo : Boot(st.conf, e) /\ fw' = [fw EXCEPT !.todo = @ \ {e}]
  BY DEF EpBoot
<1>2. fw.pc = "boot"
  BY DEF EpBoot
<1>3. /\ st.conf \in Conf /\ fw.todo \subseteq EpsOf(st.conf) /\ ctl.up
      /\ st.state = "configured"
  BY <1>2, TypeParts DEF Stack, ConfiguringOK, ResettingOK, Configuring
<1>4. e \in EpsOf(st.conf) /\ e \in Ep
  BY <1>1, <1>3, ConfParts
<1>5. st.mem[Dir(e)] # 0
  BY <1>3, TypeParts DEF MemoryOK, MemReset, Dir, Stack
<1>6. /\ \A f \in Ep \ {e} : eps'[f] = eps[f]
      /\ st'.conf = st.conf
      /\ \A m \in Mps(st.conf, e) : m <= eps'[e].size
      /\ eps'[e].ptr[0] = st.mem[Dir(e)] /\ eps'[e].ml <= eps'[e].size
  BY <1>1, <1>3, <1>4, TypeParts, BootType
<1>7. 0 \in Allocated(e)'
  BY <1>5, <1>6 DEF Allocated
<1>8. fw'.pc = "boot" /\ fw'.todo = fw.todo \ {e}
  BY <1>1, <1>2, TypeParts DEF Place
<1>9. RoomForPackets'
  BY <1>6, <1>7 DEF RoomOK, RoomForPackets, Allocated
<1>10. AllRoomy'
  <2> SUFFICES ASSUME NEW f \in EpsOf(st.conf) \ (fw.todo \ {e}) PROVE Roomy(f)'
    BY <1>6, <1>8 DEF AllRoomy, Unbooted
  <2>1. CASE f = e
    BY <1>6, <1>7, <2>1 DEF Roomy
  <2>2. CASE f # e
    <3>1. Ready
      BY <1>2, <1>3 DEF Ready, Resetting
    <3>2. Roomy(f) /\ f \in Ep
      BY <1>2, <1>3, <2>2, <3>1, ConfParts DEF RoomOK, AllRoomy, Unbooted
    <3> QED BY <1>6, <2>2, <3>2 DEF Roomy, Allocated
  <2> QED BY <2>1, <2>2
<1> QED BY <1>9, <1>10 DEF RoomOK

\* Every step keeps the room.
LEMMA RoomStep ==
  ASSUME TypeInv, TypeInv', ResettingOK, MemoryOK, ConfiguredOK, RoomOK, DeviceNext
  PROVE  RoomOK'
<1>1. CASE Firmware /\ ~DispatchSetConf /\ ~EpBoot
  <2>1. Ready' => Ready /\ st'.conf = st.conf /\ Unbooted = {}
    BY <1>1, ReadyFirmware
  <2>2. CASE UNCHANGED eps
    <3>1. SameBuffers /\ RoomForPackets'
      BY <2>2 DEF SameBuffers, RoomOK, RoomForPackets, Allocated
    <3> QED BY <2>1, <3>1, RoomyKept DEF RoomOK
  <2>3. CASE HwReset
    <3>1. Blank' /\ Goto("csr")
      BY <2>3 DEF HwReset, Blank
    <3>2. fw'.pc = "csr"
      BY <3>1, TypeParts, GotoType DEF FwPc
    <3>3. RoomForPackets'
      BY <3>1 DEF Blank, NoEp, RoomForPackets
    <3> QED BY <3>2, <3>3 DEF RoomOK, AllRoomy, Ready, Resetting
  <2>4. CASE SetFeatureEp \/ ClearFeatureEp
    <3>1. SameBuffers /\ \A f \in Ep : eps'[f].type = eps[f].type /\ eps'[f].ml = eps[f].ml
      BY <2>4, TypeParts, HaltType
    <3>2. RoomForPackets'
      BY <3>1 DEF SameBuffers, RoomOK, RoomForPackets, Allocated
    <3> QED BY <2>1, <3>1, <3>2, RoomyKept DEF RoomOK
  <2>5. CASE SetInterface
    <3>1. fw.pc = "ep0" /\ ctl.setup.name = "set_interface"
      BY <2>5 DEF SetInterface, Handle
    <3>2. Ready /\ Unbooted = {}
      BY <3>1 DEF ConfiguredOK, Ready, Resetting, Unbooted
    <3>3. PICK s \in FindIntf(st.conf, ctl.setup.index, ctl.setup.value) : Reconf(s)
      BY <2>5 DEF SetInterface
    <3>4. s \in Desc[st.conf]
      BY <3>3 DEF FindIntf
    <3>5. RoomForPackets' /\ SameBuffers
      BY <3>2, <3>3, <3>4, RoomReconf
    <3> QED BY <2>1, <3>5, RoomyKept DEF RoomOK
  <2>6. CASE DispatchSetIntf
    <3>1. fw.pc = "set_intf"
      BY <2>6 DEF DispatchSetIntf
    <3>2. st.state = "configured"
      BY <3>1, TypeParts DEF ConfiguringOK, Configuring
    <3>3. Ready /\ Unbooted = {}
      BY <3>1, <3>2 DEF Ready, Resetting, Unbooted
    <3>4. PICK i \in fw.todo : \E s \in FindIntf(st.conf, i, 0) : Reconf(s)
      BY <2>6 DEF DispatchSetIntf
    <3>5. PICK s \in FindIntf(st.conf, i, 0) : Reconf(s)
      BY <3>4
    <3>6. s \in Desc[st.conf]
      BY <3>5 DEF FindIntf
    <3>7. RoomForPackets' /\ SameBuffers
      BY <3>3, <3>5, <3>6, RoomReconf
    <3> QED BY <2>1, <3>7, RoomyKept DEF RoomOK
  <2> QED BY <1>1, <2>2, <2>3, <2>4, <2>5, <2>6, FirmwareEps
<1>2. CASE DispatchSetConf
  <2>1. fw.pc = "set_conf" /\ UNCHANGED <<eps, st>>
        /\ fw' = [fw EXCEPT !.pc = IF st.conf = NoConf THEN "null" ELSE "boot",
                            !.todo = IF st.conf = NoConf THEN NoTodo ELSE EpsOf(st.conf)]
    BY <1>2 DEF DispatchSetConf
  <2>2. RoomForPackets'
    BY <2>1 DEF RoomOK, RoomForPackets, Allocated
  <2>3. CASE st.conf = NoConf
    <3>1. st.state = "default"
      BY <2>1, <2>3, TypeParts DEF ConfiguringOK, Configuring
    <3> QED BY <2>1, <2>2, <3>1 DEF RoomOK, AllRoomy, Ready
  <2>4. CASE st.conf # NoConf
    <3>1. fw'.pc = "boot" /\ fw'.todo = EpsOf(st.conf)
      BY <2>1, <2>4, TypeParts DEF Place
    <3>2. \A e \in EpsOf(st'.conf) : e \in Unbooted'
      BY <2>1, <3>1 DEF Unbooted
    <3> QED BY <2>2, <3>2 DEF RoomOK, AllRoomy
  <2> QED BY <2>3, <2>4
<1>3. CASE EpBoot
  BY <1>3, RoomBoot
<1>4. CASE Reboot \/ Attach \/ Detach
  <2>1. CASE Reboot
    <3>1. Blank' /\ st'.state = "disconnected"
      BY <2>1 DEF Reboot, Detached, Blank, StInit
    <3>2. RoomForPackets'
      BY <3>1 DEF Blank, NoEp, RoomForPackets
    <3> QED BY <3>1, <3>2 DEF RoomOK, AllRoomy, Ready
  <2>2. CASE Attach \/ Detach
    <3>1. st' \in {[st EXCEPT !.state = "connected"],
                   [st EXCEPT !.state = "disconnected", !.susp = FALSE]}
      BY <2>2 DEF Attach, Detach, Connect, Disconnect, SetState
    <3>2. st'.state \in {"connected", "disconnected"}
      BY <3>1, TypeParts DEF Stack
    <3>3. UNCHANGED eps
      BY <2>2 DEF Attach, Detach, Connect, Disconnect
    <3>4. RoomForPackets'
      BY <3>3 DEF RoomOK, RoomForPackets, Allocated
    <3> QED BY <3>2, <3>4 DEF RoomOK, AllRoomy, Ready
  <2> QED BY <1>4, <2>1, <2>2
<1>5. CASE \/ SendSetup \/ Complete \/ CompleteAckLost \/ Transaction
           \/ ResetStart \/ ResetEnd \/ Recovered \/ LineLow \/ LineHigh \/ Suspend \/ Sof
  <2>1. UNCHANGED <<st, fw>>
    BY <1>5 DEF SendSetup, Complete, CompleteAckLost, Transaction, ResetStart, ResetEnd,
                Recovered, LineLow, LineHigh, Suspend, Sof
  <2>2. SameBuffers /\ \A f \in Ep : eps'[f].type = eps[f].type /\ eps'[f].ml = eps[f].ml
    <3>1. CASE Transaction
      BY <3>1, TransactionTypes
    <3>2. CASE ~Transaction
      <4>1. UNCHANGED eps
        BY <1>5, <3>2 DEF SendSetup, Complete, CompleteAckLost, ResetStart, ResetEnd,
                          Recovered, LineLow, LineHigh, Suspend, Sof
      <4> QED BY <4>1 DEF SameBuffers
    <3> QED BY <3>1, <3>2
  <2>3. RoomForPackets'
    BY <2>2 DEF SameBuffers, RoomOK, RoomForPackets, Allocated
  <2>4. AllRoomy'
    <3> SUFFICES ASSUME Ready, NEW e \in EpsOf(st.conf) \ Unbooted PROVE Roomy(e)'
      BY <2>1 DEF AllRoomy, Ready, Unbooted
    <3>1. Roomy(e)
      BY DEF RoomOK, AllRoomy
    <3>2. e \in Ep
      BY ConfParts DEF ConfiguredOK, Ready
    <3> QED BY <2>1, <2>2, <3>1, <3>2 DEF Roomy, SameBuffers, Allocated
  <2> QED BY <2>3, <2>4 DEF RoomOK
<1> QED BY <1>1, <1>2, <1>3, <1>4, <1>5 DEF DeviceNext, FirmwareStep

\* What is known of a session and of the configuration, with the buffers.
RoomInv == SessionInv /\ MemoryOK /\ BuffersApart /\ ConfiguredOK /\ RoomOK

LEMMA RoomInvariant == Spec => []RoomInv
<1>1. DeviceInit => MemoryOK /\ BuffersApart /\ ConfiguredOK /\ RoomOK
  <2> SUFFICES ASSUME DeviceInit PROVE MemoryOK /\ BuffersApart /\ ConfiguredOK /\ RoomOK
    OBVIOUS
  <2>1. /\ eps = [e \in Ep |-> NoEp] /\ ctl = Idle /\ st = StInit /\ fw.pc = "poll"
        /\ host = HostReset("detached")
    BY DEF DeviceInit, Init
  <2>2. ~ctl.up /\ ctl.setup.name = "none" /\ ctl.req.name = "none"
    BY <2>1, IdleType DEF NoReq
  <2>3. \A e \in Ep : Allocated(e) = {} /\ eps[e].type = "none"
    BY <2>1 DEF NoEp, Allocated
  <2>4. st.state = "disconnected" /\ host.stage = "detached"
    BY <2>1, HostResetFields DEF StInit
  <2>5. MemoryOK /\ BuffersApart
    BY <2>2, <2>3 DEF MemoryOK, BuffersApart
  <2>6. ConfiguredOK
    BY <2>1, <2>2, <2>4 DEF ConfiguredOK, Handled, Selects
  <2>7. RoomOK
    BY <2>3, <2>4 DEF RoomOK, RoomForPackets, AllRoomy, Ready
  <2> QED BY <2>5, <2>6, <2>7
<1>2. SessionInv /\ SessionInv' /\ RoomInv /\ [DeviceNext]_vars => RoomInv'
  <2>1. ASSUME SessionInv, SessionInv', RoomInv, DeviceNext PROVE RoomInv'
    <3>1. MemoryOK' /\ BuffersApart'
      BY <2>1, MemoryStep DEF SessionInv, RoomInv
    <3>2. ConfiguredOK'
      <4>1. CASE Firmware /\ UNCHANGED host
        BY <2>1, <4>1, ConfiguredFirmware DEF SessionInv, RoomInv
      <4>2. CASE ~(Firmware /\ UNCHANGED host)
        BY <2>1, <4>2, ConfiguredHost DEF SessionInv, RoomInv, DeviceNext, FirmwareStep
      <4> QED BY <4>1, <4>2
    <3>3. RoomOK'
      BY <2>1, RoomStep DEF SessionInv, RoomInv
    <3> QED BY <2>1, <3>1, <3>2, <3>3 DEF RoomInv
  <2>2. ASSUME SessionInv', RoomInv, UNCHANGED vars PROVE RoomInv'
    <3>1. UNCHANGED <<core, eps, ctl, st, fw, host>>
      BY <2>2 DEF vars
    <3>2. MemoryOK' /\ BuffersApart'
      BY <2>2, <3>1, MemoryKept DEF RoomInv, SameBuffers
    <3>3. ConfiguredOK'
      BY <2>2, <3>1 DEF RoomInv, ConfiguredOK, Handled
    <3>4. RoomOK'
      BY <2>2, <3>1 DEF RoomInv, RoomOK, RoomForPackets, AllRoomy, Ready, Unbooted, Roomy,
                        Allocated
    <3> QED BY <2>2, <3>2, <3>3, <3>4 DEF RoomInv
  <2> QED BY <2>1, <2>2
<1>3. DeviceInit /\ SessionInv => RoomInv
  BY <1>1 DEF RoomInv
<1> QED BY <1>2, <1>3, SessionInvariant, PTL DEF Spec

\* Each end point in use has a buffer, with room for the packets of the setting
\* that is selected: whatever the sizes of its other settings, and in which
\* order they are selected.
THEOREM RoomForPacketsCorrect == Spec => []RoomForPackets
<1>1. RoomInv => RoomForPackets
  BY DEF RoomInv, RoomOK
<1> QED BY <1>1, RoomInvariant, PTL

-----------------------------------------------------------------------------
(* What the drivers are told.                                              *)

\* A step that the drivers do not see.
LEMMA NotTold ==
  ASSUME DriversOK, UNCHANGED drv, UNCHANGED <<st.state, st.susp, st.conf>>,
         \/ UNCHANGED fw
         \/ /\ fw.pc \notin {"set_conf", "default"} /\ fw'.pc # "default"
            /\ st.susp => fw'.pc \in Sleeping
            /\ st.state # "disconnected"
            /\ \A s \in Desc[st.conf] : s.intf \in Undone => s.intf \in Undone'
  PROVE  DriversOK' /\ UNCHANGED Promised!view
<1>1. UNCHANGED Promised!view
  BY DEF Promised!view
<1>2. Told(st)' = Told(st)
  BY DEF Told
<1>3. SelectionTold'
  BY DEF DriversOK, SelectionTold, Undone
<1> QED BY <1>1, <1>2, <1>3 DEF DriversOK

\* A new state is told if it is another one.
LEMMA StateTold ==
  ASSUME drv \in Drivers, drv.state = Told(st), NEW s, SetState(s)
  PROVE  st' = s /\ drv'.state = Told(s) /\ drv'.conf = drv.conf /\ drv'.alt = drv.alt
<1>1. CASE <<s.state, s.susp>> = <<st.state, st.susp>>
  <2>1. drv' = drv /\ Told(s) = Told(st)
    BY <1>1 DEF SetState, Told
  <2> QED BY <2>1 DEF SetState
<1>2. CASE <<s.state, s.susp>> # <<st.state, st.susp>>
  <2> DEFINE t == Told(s)
  <2>1. drv' = [drv EXCEPT !.state = t]
    BY <1>2 DEF SetState, ToldState
  <2> HIDE DEF t
  <2>2. drv'.state = t /\ drv'.conf = drv.conf /\ drv'.alt = drv.alt
    BY <2>1 DEF Drivers
  <2> QED BY <2>2 DEF SetState, t
<1> QED BY <1>1, <1>2

\* usb_poll() up to the requests, and what it does without the drivers.
LEMMA QuietDrivers ==
  ASSUME TypeInv, DriversOK,
         \/ Poll \/ HwReset \/ ResetCsr \/ ResetAr \/ Drain \/ Polled \/ EpBoot \/ EpsBooted
         \/ Configured \/ NullEnds \/ NullHangs
  PROVE  DriversOK' /\ UNCHANGED Promised!view
<1>0. UNCHANGED drv
  BY DEF Poll, HwReset, ResetCsr, ResetAr, Drain, Polled, EpBoot, EpsBooted, Configured,
         NullEnds, NullHangs
<1>1. CASE \/ Poll \/ HwReset \/ ResetCsr \/ ResetAr \/ Drain \/ Polled
           \/ Configured \/ NullEnds \/ NullHangs
  <2>1. /\ UNCHANGED st
        /\ fw.pc \in {"poll", "hw_reset", "csr", "ar", "drain", "ep0", "null", "set_intf"}
        /\ fw.pc = "poll" => st.state # "disconnected"
        /\ fw.pc = "set_intf" => fw.todo = {}
    BY <1>1 DEF Poll, HwReset, ResetCsr, ResetAr, Drain, Polled, Configured, NullEnds, NullHangs
  <2>2. /\ fw'.pc \in {"hw_reset", "suspend", "csr", "ar", "ep0_reset", "poll", "ep0", "hung"}
        /\ fw.pc \in {"poll", "hw_reset", "csr", "ar"} =>
             fw'.pc \in {"hw_reset", "suspend", "csr", "ar", "ep0_reset"}
    <3>1. \/ Poll /\ fw.pc = "poll" /\ fw'.pc \in {"hw_reset", "suspend"}
          \/ HwReset /\ fw.pc = "hw_reset" /\ Goto("csr")
          \/ ResetCsr /\ fw.pc = "csr" /\ Goto("ar")
          \/ ResetAr /\ fw.pc = "ar" /\ Goto("ep0_reset")
          \/ /\ fw.pc \notin {"poll", "hw_reset", "csr", "ar"}
             /\ \E p \in {"poll", "ep0", "hung"} : Goto(p)
      <4>1. Poll => fw'.pc \in {"hw_reset", "suspend"}
        BY TypeParts DEF Poll, Place
      <4> QED BY <1>1, <4>1 DEF Poll, HwReset, ResetCsr, ResetAr, Drain, Polled, Configured,
                               NullEnds, NullHangs
    <3>2. \A p \in {"csr", "ar", "ep0_reset", "poll", "ep0", "hung"} : Goto(p) => fw'.pc = p
      BY TypeParts, GotoType DEF FwPc
    <3> QED BY <3>1, <3>2
  <2>3. st.state # "disconnected"
    BY <2>1 DEF DriversOK
  <2>4. st.susp => fw'.pc \in Sleeping
    BY <2>1, <2>2 DEF DriversOK, Sleeping, Resetting
  <2>5. Undone = {}
    BY <2>1 DEF Undone
  <2> QED BY <1>0, <2>1, <2>2, <2>3, <2>4, <2>5, NotTold
<1>2. CASE EpBoot
  <2>1. PICK e \in fw.todo : Boot(st.conf, e) /\ fw' = [fw EXCEPT !.todo = @ \ {e}]
    BY <1>2 DEF EpBoot
  <2>2. fw.pc = "boot" /\ fw'.pc = "boot"
    BY <1>2, <2>1, TypeParts DEF EpBoot, Place
  <2>3. st.conf \in Conf /\ e \in EpsOf(st.conf)
    BY <2>1, <2>2, TypeParts DEF Stack, ConfiguringOK
  <2>4. st'.state = st.state /\ st'.conf = st.conf /\ st'.susp = st.susp
    BY <2>1, <2>3, TypeParts, BootType
  <2>5. ~st.susp /\ st.state # "disconnected"
    BY <2>2 DEF DriversOK, Sleeping, Resetting
  <2>6. Undone' = Undone
    BY <2>2 DEF Undone
  <2> QED BY <1>0, <2>2, <2>4, <2>5, <2>6, NotTold
<1>3. CASE EpsBooted
  <2>1. /\ fw.pc = "boot" /\ UNCHANGED st
        /\ fw' = [fw EXCEPT !.pc = "set_intf", !.todo = {s.intf : s \in Desc[st.conf]}]
    BY <1>3 DEF EpsBooted
  <2>2. fw'.pc = "set_intf" /\ fw'.todo = {s.intf : s \in Desc[st.conf]}
    BY <2>1, TypeParts DEF Place
  <2>3. ~st.susp /\ st.state # "disconnected"
    BY <2>1 DEF DriversOK, Sleeping, Resetting
  <2>4. \A s \in Desc[st.conf] : s.intf \in Undone'
    BY <2>2 DEF Undone
  <2> QED BY <1>0, <2>1, <2>2, <2>3, <2>4, NotTold
<1> QED BY <1>1, <1>2, <1>3

\* The device states.
LEMMA StateDrivers ==
  ASSUME TypeInv, ConfiguredOK, DriversOK, SetDefault \/ Suspended \/ Active \/ Attach \/ Detach
  PROVE  DriversOK' /\ [Promised!Next]_(Promised!view)
<1>0. drv.state = Told(st) /\ drv \in Drivers /\ st \in Stack
  BY TypeParts DEF DriversOK
<1>1. CASE SetDefault
  <2> DEFINE s == [st EXCEPT !.state = "default", !.susp = FALSE]
  <2>1. fw.pc = "default" /\ SetState(s) /\ Goto("suspend")
    BY <1>1 DEF SetDefault
  <2>2. s.state = "default" /\ s.susp = FALSE
    BY <1>0 DEF Stack
  <2> HIDE DEF s
  <2>3. st' = s /\ drv'.state = Told(s) /\ drv'.conf = drv.conf /\ drv'.alt = drv.alt
    BY <1>0, <2>1, StateTold
  <2>4. fw'.pc = "suspend"
    BY <2>1, TypeParts, GotoType DEF FwPc
  <2>5. DriversOK'
    BY <2>2, <2>3, <2>4 DEF DriversOK, SelectionTold, Told
  <2>6. Promised!ResetDone
    BY <2>1, <2>2, <2>3, <2>4 DEF Promised!ResetDone, Promised!ToState, Told
  <2> QED BY <2>5, <2>6 DEF Promised!Next
<1>2. CASE Suspended \/ Active
  <2>1. PICK b \in BOOLEAN : SetState([st EXCEPT !.susp = b]) /\ fw.pc = "suspend"
    BY <1>2 DEF Suspended, Active, Resumed
  <2> DEFINE s == [st EXCEPT !.susp = b]
  <2>2. s.state = st.state /\ s.susp = b /\ s.conf = st.conf
    BY <1>0 DEF Stack
  <2>3. SetState(s)
    BY <2>1
  <2> HIDE DEF s
  <2>4. st' = s /\ drv'.state = Told(s) /\ drv'.conf = drv.conf /\ drv'.alt = drv.alt
    BY <1>0, <2>3, StateTold
  <2>5. /\ fw'.pc \in {"poll", "drain"}
        /\ b => fw'.pc = "poll"
    <3>1. \/ Suspended /\ SetState([st EXCEPT !.susp = TRUE]) /\ GotoWithout("poll")
          \/ Active /\ SetState([st EXCEPT !.susp = FALSE])
             /\ (GotoWithout("poll") \/ GotoWithout("drain"))
      BY <1>2 DEF Suspended, Active, Resumed
    <3>2. \A p \in {"poll", "drain"} : GotoWithout(p) => fw'.pc = p
      BY TypeParts, GotoType DEF FwPc
    <3>3. SetState([st EXCEPT !.susp = FALSE]) => ~st'.susp
      BY <1>0 DEF SetState, Stack
    <3> QED BY <2>2, <2>4, <3>1, <3>2, <3>3
  <2>6. st.state \in {"default", "configured"}
    BY <2>1 DEF ConfiguredOK
  <2>7. DriversOK'
    BY <2>1, <2>2, <2>4, <2>5, <2>6 DEF DriversOK, SelectionTold, Told, Undone, Sleeping
  <2>8. [Promised!Next]_(Promised!view)
    <3>1. CASE b = st.susp
      BY <1>0, <2>1, <2>2, <2>4, <2>5, <3>1 DEF Promised!view, Told
    <3>2. CASE b /\ ~st.susp
      BY <1>0, <2>1, <2>2, <2>4, <2>5, <2>6, <3>2
         DEF Promised!Next, Promised!Suspend, Promised!Base, Told
    <3>3. CASE ~b /\ st.susp
      BY <1>0, <2>1, <2>2, <2>4, <2>5, <3>3 DEF Promised!Next, Promised!Resume, Told
    <3>4. st.susp \in BOOLEAN
      BY <1>0 DEF Stack
    <3> QED BY <3>1, <3>2, <3>3, <3>4
  <2> QED BY <2>7, <2>8
<1>3. CASE Attach
  <2> DEFINE s == [st EXCEPT !.state = "connected"]
  <2>1. fw.pc = "poll" /\ st.state = "disconnected" /\ SetState(s) /\ UNCHANGED fw
    BY <1>3 DEF Attach, Connect
  <2>2. s.state = "connected" /\ s.susp = FALSE
    BY <1>0, <2>1 DEF Stack, DriversOK
  <2> HIDE DEF s
  <2>3. st' = s /\ drv'.state = Told(s) /\ drv'.conf = drv.conf /\ drv'.alt = drv.alt
    BY <1>0, <2>1, StateTold
  <2>4. DriversOK'
    BY <2>2, <2>3 DEF DriversOK, SelectionTold, Told
  <2>5. Promised!Connect
    BY <1>0, <2>1, <2>2, <2>3 DEF Promised!Connect, Promised!ToState, Told, DriversOK
  <2> QED BY <2>4, <2>5 DEF Promised!Next
<1>4. CASE Detach
  <2> DEFINE s == [st EXCEPT !.state = "disconnected", !.susp = FALSE]
  <2>1. fw.pc = "poll" /\ st.state # "disconnected" /\ SetState(s) /\ UNCHANGED fw
    BY <1>4 DEF Detach, Disconnect
  <2>2. s.state = "disconnected" /\ s.susp = FALSE
    BY <1>0 DEF Stack
  <2> HIDE DEF s
  <2>3. st' = s /\ drv'.state = Told(s) /\ drv'.conf = drv.conf /\ drv'.alt = drv.alt
    BY <1>0, <2>1, StateTold
  <2>4. DriversOK'
    BY <2>1, <2>2, <2>3 DEF DriversOK, SelectionTold, Told
  <2>5. Promised!Disconnect
    BY <1>0, <2>1, <2>2, <2>3 DEF Promised!Disconnect, Promised!ToState, Told
  <2> QED BY <2>4, <2>5 DEF Promised!Next
<1> QED BY <1>1, <1>2, <1>3, <1>4

\* Bus reset, restart, and the selections.
LEMMA CalledDrivers ==
  ASSUME TypeInv, ConfiguredOK, DriversOK,
         \/ ResetEp0 \/ Reboot \/ SetConfiguration \/ DispatchSetConf
         \/ DispatchSetIntf \/ SetInterface
  PROVE  DriversOK' /\ [Promised!Next]_(Promised!view)
<1>0. drv.state = Told(st) /\ drv \in Drivers /\ st \in Stack
  BY TypeParts DEF DriversOK
<1>1. CASE ResetEp0
  <2>1. /\ fw.pc = "ep0_reset" /\ drv' = ToldReset /\ Goto("default")
        /\ st' = [st EXCEPT !.mem = MemReset]
    BY <1>1 DEF ResetEp0
  <2>2. fw'.pc = "default"
    BY <2>1, TypeParts, GotoType DEF FwPc
  <2>3. st'.state = st.state /\ st'.susp = st.susp
    BY <1>0, <2>1 DEF Stack
  <2>4. /\ drv'.state = drv.state /\ drv'.conf = NoConf
        /\ drv'.alt = [i \in Intf |-> NoAlt]
    BY <1>0, <2>1 DEF ToldReset, Drivers
  <2>5. st.state # "disconnected"
    BY <2>1 DEF DriversOK
  <2>6. DriversOK'
    BY <1>0, <2>2, <2>3, <2>4, <2>5 DEF DriversOK, SelectionTold, Told, Sleeping
  <2>7. Promised!BusReset
    BY <1>0, <2>1, <2>2, <2>3, <2>4, <2>5
       DEF Promised!BusReset, Promised!NoAlts, Promised!NoAlt, Promised!NoConf, NoAlt, NoConf, Told
  <2> QED BY <2>6, <2>7 DEF Promised!Next
<1>2. CASE Reboot
  <2>1. st' = StInit /\ drv' = DrvInit /\ fw'.pc = "poll"
    BY <1>2 DEF Reboot, Detached
  <2>2. st'.state = "disconnected" /\ ~st'.susp
    BY <2>1 DEF StInit
  <2>3. /\ drv'.state = "disconnected" /\ drv'.conf = NoConf
        /\ drv'.alt = [i \in Intf |-> NoAlt]
    BY <2>1 DEF DrvInit
  <2>4. DriversOK'
    BY <2>1, <2>2, <2>3 DEF DriversOK, SelectionTold, Told
  <2>5. Promised!Restart
    BY <2>1, <2>2, <2>3
       DEF Promised!Restart, Promised!NoAlts, Promised!NoAlt, Promised!NoConf, NoAlt, NoConf
  <2> QED BY <2>4, <2>5 DEF Promised!Next
<1>3. CASE SetConfiguration
  <2> DEFINE c == ctl.setup.value
             s == [st EXCEPT !.conf = c, !.intf_alt = {}, !.susp = FALSE,
                             !.state = IF c = NoConf THEN "default" ELSE "configured"]
  <2>1. fw.pc = "ep0" /\ fw'.pc = "set_conf" /\ SetState(s)
    <3>1. SetState(s) /\ fw.pc = "ep0" /\ Goto("set_conf")
      BY <1>3 DEF SetConfiguration, Handle
    <3> QED BY <3>1, TypeParts, GotoType DEF FwPc
  <2>2. s.state = (IF c = NoConf THEN "default" ELSE "configured") /\ s.susp = FALSE
    BY <1>0 DEF Stack
  <2> HIDE DEF s
  <2>3. st' = s /\ drv'.state = Told(s) /\ drv'.conf = drv.conf /\ drv'.alt = drv.alt
    BY <1>0, <2>1, StateTold
  <2>4. ~st.susp /\ st.state \in {"default", "configured"}
    BY <2>1 DEF DriversOK, ConfiguredOK, Sleeping, Resetting
  <2>5. DriversOK'
    BY <2>1, <2>2, <2>3 DEF DriversOK, SelectionTold, Told
  <2>6. Promised!Configure \/ Promised!Deconfigure
    BY <1>0, <2>1, <2>2, <2>3, <2>4
       DEF Promised!Configure, Promised!Deconfigure, Promised!ToState, Promised!Base, Told
  <2> QED BY <2>5, <2>6 DEF Promised!Next
<1>4. CASE DispatchSetConf
  <2>1. /\ fw.pc = "set_conf" /\ drv' = ToldConf(st.conf) /\ UNCHANGED st
        /\ fw' = [fw EXCEPT !.pc = IF st.conf = NoConf THEN "null" ELSE "boot",
                            !.todo = IF st.conf = NoConf THEN NoTodo ELSE EpsOf(st.conf)]
    BY <1>4 DEF DispatchSetConf
  <2>2. fw'.pc = IF st.conf = NoConf THEN "null" ELSE "boot"
    BY <2>1, TypeParts DEF Place
  <2>3. /\ st.state = (IF st.conf = NoConf THEN "default" ELSE "configured")
        /\ st.conf \in Conf \cup {NoConf} /\ ~st.susp
    BY <2>1, TypeParts DEF ConfiguringOK, Configuring, Stack, DriversOK, Sleeping, Resetting
  <2>4. /\ drv'.state = drv.state /\ drv'.conf = st.conf
        /\ drv'.alt = [i \in Intf |-> NoAlt]
    BY <1>0, <2>1 DEF ToldConf, Drivers
  <2>5. SelectionTold'
    <3>1. st.conf # NoConf => \A s \in Desc[st.conf] : s.intf \in Intf
      BY <2>3, ConfParts
    <3> QED BY <2>1, <2>2, <2>3, <2>4, <3>1 DEF SelectionTold, Undone
  <2>6. DriversOK'
    BY <1>0, <2>1, <2>3, <2>4, <2>5 DEF DriversOK, Told
  <2>7. Promised!SetConf
    <3>1. drv.state = IF st.conf = NoConf THEN "default" ELSE "configured"
      BY <1>0, <2>3 DEF Told
    <3> QED BY <2>1, <2>2, <2>3, <2>4, <3>1
            DEF Promised!SetConf, Promised!NoAlts, Promised!NoAlt, Promised!NoConf, NoAlt, NoConf
  <2> QED BY <2>6, <2>7 DEF Promised!Next
<1>5. CASE DispatchSetIntf \/ SetInterface
  <2>1. PICK s \in Desc[st.conf] :
          /\ drv' = ToldIntf(s) /\ fw.pc \in {"ep0", "set_intf"} /\ fw'.pc = fw.pc
          /\ fw.pc = "set_intf" => s.alt = 0 /\ fw'.todo = fw.todo \ {s.intf}
    <3>1. CASE DispatchSetIntf
      <4>1. PICK i \in fw.todo : /\ \E s \in FindIntf(st.conf, i, 0) : drv' = ToldIntf(s)
                                 /\ fw' = [fw EXCEPT !.todo = @ \ {i}]
        BY <3>1 DEF DispatchSetIntf
      <4>2. PICK s \in FindIntf(st.conf, i, 0) : drv' = ToldIntf(s)
        BY <4>1
      <4>3. s \in Desc[st.conf] /\ s.intf = i /\ s.alt = 0
        BY <4>2 DEF FindIntf
      <4>4. fw.pc = "set_intf" /\ fw'.pc = fw.pc /\ fw'.todo = fw.todo \ {i}
        BY <3>1, <4>1, TypeParts DEF DispatchSetIntf, Place
      <4> QED BY <4>2, <4>3, <4>4
    <3>2. CASE SetInterface
      <4>1. PICK s \in FindIntf(st.conf, ctl.setup.index, ctl.setup.value) : drv' = ToldIntf(s)
        BY <3>2 DEF SetInterface
      <4>2. s \in Desc[st.conf] /\ fw.pc = "ep0" /\ UNCHANGED fw
        BY <3>2, <4>1 DEF SetInterface, Handle, FindIntf
      <4> QED BY <4>1, <4>2
    <3> QED BY <1>5, <3>1, <3>2
  <2>2. st.state = "configured" /\ ~st.susp
    <3>1. SetInterface => fw.pc = "ep0" /\ ctl.setup.name = "set_interface"
      BY DEF SetInterface, Handle
    <3>2. DispatchSetIntf => fw.pc = "set_intf"
      BY DEF DispatchSetIntf
    <3>3. SetInterface => st.state = "configured"
      BY <3>1 DEF ConfiguredOK
    <3>4. DispatchSetIntf => st.state = "configured"
      BY <3>2, TypeParts DEF ConfiguringOK, Configuring
    <3>5. ~st.susp
      BY <2>1 DEF DriversOK, Sleeping, Resetting
    <3> QED BY <1>5, <3>3, <3>4, <3>5
  <2>3. st.conf \in Conf /\ s.intf \in Intf /\ s.alt \in Alt /\ st.conf # NoConf
    <3>1. st.conf \in Conf
      BY <2>2 DEF ConfiguredOK
    <3> QED BY <3>1, SettingType, DescAssumption
  <2>4. st'.state = st.state /\ st'.conf = st.conf /\ st'.susp = st.susp
    <3>1. \E x, n : st' = [st EXCEPT !.intf_alt = x, !.rt = n] \/ st' = [st EXCEPT !.rt = n]
      BY <1>5 DEF DispatchSetIntf, SetInterface
    <3> QED BY <1>0, <3>1 DEF Stack
  <2>5. /\ drv'.state = drv.state /\ drv'.conf = drv.conf
        /\ drv'.alt = [drv.alt EXCEPT ![s.intf] = s.alt]
    BY <1>0, <2>1 DEF ToldIntf, Drivers
  <2>6. /\ drv.conf = st.conf
        /\ \A t \in Desc[st.conf] : t.intf \in Undone \/ drv.alt[t.intf] # NoAlt
    BY <2>1, <2>2 DEF DriversOK, SelectionTold
  <2>7. s.alt # 0 => drv.alt[s.intf] # NoAlt
    BY <2>1, <2>6 DEF Undone
  <2>8. SelectionTold'
    <3> SUFFICES ASSUME NEW t \in Desc[st.conf], drv'.alt[t.intf] = NoAlt
                 PROVE  t.intf \in Undone'
      BY <2>4, <2>5, <2>6 DEF SelectionTold
    <3>1. t.intf \in Intf /\ drv.alt \in [Intf -> Alt \cup {NoAlt}]
      BY <1>0, <2>3, SettingType DEF Drivers
    <3>2. s.alt # NoAlt
      BY <2>3, SettingType DEF NoAlt
    <3>3. t.intf # s.intf /\ drv.alt[t.intf] = NoAlt
      BY <2>3, <2>5, <3>1, <3>2
    <3>4. t.intf \in Undone
      BY <2>6, <3>3
    <3> QED BY <2>1, <3>3, <3>4 DEF Undone
  <2>9. DriversOK'
    BY <1>0, <2>2, <2>4, <2>5, <2>8 DEF DriversOK, Told
  <2>10. Promised!SetIntf
    <3>1. drv.state = "configured" /\ drv.conf # NoConf
      BY <1>0, <2>2, <2>3, <2>6 DEF Told
    <3> QED BY <2>1, <2>3, <2>4, <2>5, <2>7, <3>1
            DEF Promised!SetIntf, Promised!NoAlt, Promised!NoConf, NoAlt, NoConf
  <2> QED BY <2>9, <2>10 DEF Promised!Next
<1> QED BY <1>1, <1>2, <1>3, <1>4, <1>5

\* Every step is one of the promised ones, or one the drivers do not see.
LEMMA DriversStep ==
  ASSUME TypeInv, ConfiguredOK, DriversOK, DeviceNext
  PROVE  DriversOK' /\ [Promised!Next]_(Promised!view)
<1>1. CASE \/ Poll \/ HwReset \/ ResetCsr \/ ResetAr \/ Drain \/ Polled \/ EpBoot \/ EpsBooted
           \/ Configured \/ NullEnds \/ NullHangs
  BY <1>1, QuietDrivers
<1>2. CASE SetDefault \/ Suspended \/ Active \/ Attach \/ Detach
  BY <1>2, StateDrivers
<1>3. CASE \/ ResetEp0 \/ Reboot \/ SetConfiguration \/ DispatchSetConf
           \/ DispatchSetIntf \/ SetInterface
  BY <1>3, CalledDrivers
<1>4. CASE UNCHANGED <<st, fw, drv>>
  BY <1>4, NotTold
<1>5. CASE Requests
  <2>1. UNCHANGED <<st, fw, drv>> \/ SetConfiguration \/ SetInterface
    BY <1>5 DEF Requests, GetStatusDev, GetStatusIntf, GetStatusEp, SetFeatureEp,
         ClearFeatureEp, SetAddress, GetConfiguration, SetConfigurationRefused,
         GetInterface, SetInterfaceRefused, GetDescriptor, OtherFeature, DfuDetach,
         DfuGetStatus, Local
  <2> QED BY <1>3, <1>4, <2>1
<1>6. CASE \/ SetAddrDone \/ OtherDone
           \/ SendSetup \/ Complete \/ CompleteAckLost \/ Transaction
           \/ ResetStart \/ ResetEnd \/ Recovered \/ LineLow \/ LineHigh \/ Suspend \/ Sof
  <2>1. UNCHANGED <<st, fw, drv>>
    BY <1>6 DEF SetAddrDone, OtherDone, SendSetup, Complete, CompleteAckLost, Transaction,
                ResetStart, ResetEnd, Recovered, LineLow, LineHigh, Suspend, Sof
  <2> QED BY <1>4, <2>1
<1> QED BY <1>1, <1>2, <1>3, <1>5, <1>6 DEF DeviceNext, FirmwareStep, Firmware

\* The drivers are called as UsbFnDriver promises: a bus reset before the state
\* it leads to, a configuration once its state is told, a setting only of the
\* configuration they were told, and resuming to the state before, however the
\* requests of the host, bus resets and suspensions come.
THEOREM DriversCalledInOrderCorrect == Spec => DriversCalledInOrder
<1>1. DeviceInit => DriversOK /\ Promised!Init
  <2> SUFFICES ASSUME DeviceInit PROVE DriversOK /\ Promised!Init
    OBVIOUS
  <2>1. st.state = "disconnected" /\ ~st.susp /\ fw.pc = "poll"
        /\ drv.state = "disconnected" /\ drv.conf = NoConf /\ drv.alt = [i \in Intf |-> NoAlt]
    BY DEF DeviceInit, Init, StInit, DrvInit
  <2> QED BY <2>1 DEF DriversOK, SelectionTold, Told, Promised!Init, Promised!NoAlts,
                      Promised!NoAlt, Promised!NoConf, NoAlt, NoConf
<1>2. RoomInv /\ DriversOK /\ [DeviceNext]_vars => DriversOK' /\ [Promised!Next]_(Promised!view)
  <2>1. ASSUME RoomInv, DriversOK, DeviceNext
        PROVE  DriversOK' /\ [Promised!Next]_(Promised!view)
    BY <2>1, DriversStep DEF RoomInv, SessionInv
  <2>2. ASSUME DriversOK, UNCHANGED vars
        PROVE  DriversOK' /\ [Promised!Next]_(Promised!view)
    <3>1. UNCHANGED <<st, fw, drv>>
      BY <2>2 DEF vars
    <3> QED BY <2>2, <3>1, NotTold
  <2> QED BY <2>1, <2>2
<1> QED BY <1>1, <1>2, RoomInvariant, PTL DEF Spec, DriversCalledInOrder, Promised!Spec
=============================================================================
