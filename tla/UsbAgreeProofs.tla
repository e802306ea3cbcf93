--------------------------- MODULE UsbAgreeProofs ---------------------------
(***************************************************************************)
(* What host and device agree on: every end point in use, its halt and its *)
(* data toggle, the configuration and the settings that are selected, and  *)
(* the answers the host gets.  Proved for any descriptors, from what       *)
(* UsbDeviceProofs shows of the session and of the configuration.          *)
(***************************************************************************)
EXTENDS UsbDeviceProofs

-----------------------------------------------------------------------------
(* The inductive invariant.                                                *)

\* The requests that change what the host believes of end points, and those of
\* them that the device refuses.
Halts(r) == r.name \in {"set_feature_ep", "clear_feature_ep"}
Refused(r) ==
  \/ r.name = "set_configuration" /\ r.value = BadConf
  \/ r.name = "set_interface" /\ FindIntf(host.conf, r.index, r.value) = {}
  \/ Halts(r) /\ eps[r.index].type # "bci"

\* An end point as its setting configures it, whatever happened to it before.
KindAgrees(s, e) == eps[e].type = s.ep[e].type /\ eps[e].ml = s.ep[e].mps
Fresh(s) == \A e \in DOMAIN s.ep : KindAgrees(s, e) /\ ~eps[e].halt /\ eps[e].dt = 0
Agrees(s, e) == /\ KindAgrees(s, e)
                /\ eps[e].halt = (e \in host.halted)
                /\ eps[e].dt = host.dt[e]

\* Selecting a configuration: the settings that were dispatched are made, and the
\* DFU run time driver found its interface.
SelectionMade ==
  /\ fw.pc \in Configuring => st.intf_alt = {}
  /\ fw.pc = "null" => st.conf = NoConf
  /\ fw.pc = "set_intf" =>
       \A s \in Desc[st.conf] : s.alt = 0 /\ s.intf \notin fw.todo => Fresh(s)
  /\ st.state = "configured" /\ fw.pc # "set_conf" =>
       \A s \in Desc[st.conf] : s.intf = RtIntf => s.intf \in Undone \/ st.rt = RtIntf

\* What the host asks is about what it uses.
AskedOK ==
  /\ host.req.name \in {"get_status_ep", "set_feature_ep", "clear_feature_ep"} =>
       host.req.index \in InUse
  /\ host.req.name \in {"get_interface", "set_interface", "dfu_detach", "dfu_getstatus"} =>
       \E s \in Settings : s.intf = host.req.index
  /\ host.req.name \in {"dfu_detach", "dfu_getstatus"} => host.req.index = RtIntf

\* What is never refused.
StallOK ==
  ctl.phase = "stall" =>
    /\ ctl.req.name \notin {"get_status_dev", "set_address", "get_configuration"}
    /\ ctl.req.name = "get_descriptor" => ctl.req.value \notin Descriptor

\* While a request waits for its answer, all end points agree that it does not
\* affect, and those too that it would affect if it were not refused.
Unaffected(e) == e \notin Affected(host.req) \/ Refused(host.req)
UsedOK ==
  \A s \in Settings : \A e \in DOMAIN s.ep :
    /\ Unaffected(e) => Agrees(s, e)
    /\ Halts(host.req) => KindAgrees(s, e)
    /\ host.req.name = "set_feature_ep" => eps[e].dt = host.dt[e]

\* Configuration and settings agree, unless they are being selected.
AltOf(i) == IF i \in st.intf_alt THEN drv.alt[i] ELSE 0
Selecting(i) == /\ host.req.name = "set_interface" /\ host.req.index = i
                /\ ~Refused(host.req)
SelectedOK ==
  host.confs # 0 /\ ~Selects(host.req) =>
    /\ st.conf = host.conf
    /\ \A i \in Intf : host.alt[i] = AltOf(i) \/ Selecting(i)

\* A request that was accepted is done: the device is what the host will believe.
Accepted == /\ host.req # NoReq /\ ctl.setup = NoReq
            /\ ctl.req = host.req /\ ctl.phase = "answer"
Carried(r) ==
  /\ Selects(r) =>
       /\ st.conf = r.value /\ st.intf_alt = {}
       /\ r.value # NoConf => \A s \in Desc[r.value] : s.alt = 0 => Fresh(s)
  /\ r.name = "set_interface" =>
       /\ ~Refused(r) /\ AltOf(r.index) = r.value
       /\ \A s \in FindIntf(host.conf, r.index, r.value) : Fresh(s)
  /\ r.name = "set_feature_ep" => eps[r.index].halt
  /\ r.name = "clear_feature_ep" => ~eps[r.index].halt /\ eps[r.index].dt = 0
AcceptedOK == Accepted => Carried(host.req)

\* An answer that is still to be read, or a stall still to be seen, is that of
\* the request the host waits for; and it is true.
Unread == /\ ctl.req # NoReq
          /\ ctl.phase = "stall" \/ (ctl.phase = "answer" /\ Read(ctl.req))
AnswerOK(r) ==
  /\ ctl.phase = "answer" =>
       /\ r.name = "get_configuration" /\ host.confs # 0 => ctl.data = host.conf
       /\ r.name = "get_interface" => ctl.data = host.alt[r.index]
       /\ r.name = "get_status_ep" => ctl.data = IF r.index \in host.halted THEN 1 ELSE 0
  /\ ctl.phase = "stall" =>
       /\ r.name \in {"set_configuration", "set_interface", "set_feature_ep",
                      "clear_feature_ep"} => Refused(r)
       /\ r.name \notin {"get_status_ep", "get_interface", "dfu_detach", "dfu_getstatus"}
UnreadOK == /\ Unread => ctl.req = host.req
            /\ host.req # NoReq /\ ctl.req = host.req => AnswerOK(host.req)

InSession == UsedOK /\ SelectedOK /\ AcceptedOK /\ UnreadOK
AgreeOK == SelectionMade /\ AskedOK /\ StallOK /\ (Handled => InSession)

-----------------------------------------------------------------------------
(* What the steps of the stack do to end points, settings and answers.     *)

\* The settings that the host uses: an end point is in one of them.
LEMMA OneSetting ==
  ASSUME TypeInv, NEW s \in Settings, NEW t \in Settings,
         NEW e \in DOMAIN s.ep, e \in DOMAIN t.ep
  PROVE  s = t
<1>1. /\ host.conf \in Conf /\ s \in Desc[host.conf] /\ t \in Desc[host.conf]
      /\ s.alt = host.alt[s.intf] /\ t.alt = host.alt[t.intf]
  BY InUseType DEF Settings
<1>2. s.intf = t.intf
  BY <1>1, SettingAssumption
<1> QED BY <1>1, <1>2, SettingAssumption

\* A setting that the host uses, or will use.
LEMMA FoundSetting ==
  ASSUME NEW c \in Conf \cup {NoConf}, NEW i, NEW a
  PROVE  /\ \A s \in FindIntf(c, i, a) : /\ c \in Conf /\ s \in Desc[c]
                                         /\ s.intf = i /\ s.alt = a
         /\ \A s, t \in FindIntf(c, i, a) : s = t
<1>1. \A s \in FindIntf(c, i, a) : c \in Conf /\ s \in Desc[c] /\ s.intf = i /\ s.alt = a
  BY DEF FindIntf
<1> QED BY <1>1, SettingAssumption

\* The end points of a setting are as it configures them, the others as before.
LEMMA ReconfFresh ==
  ASSUME EpsOK, NEW c \in Conf, NEW s \in Desc[c], Reconf(s)
  PROVE  /\ Fresh(s)'
         /\ \A e \in Ep : e \notin DOMAIN s.ep => eps'[e] = eps[e]
<1>1. \A e \in Ep : eps'[e] = IF e \in DOMAIN s.ep THEN EpConf(e, s, eps[e]) ELSE eps[e]
  BY DEF Reconf
<1>2. ASSUME NEW e \in DOMAIN s.ep
      PROVE  KindAgrees(s, e)' /\ ~eps'[e].halt /\ eps'[e].dt = 0
  <2>1. e \in Ep /\ eps[e] \in EpRegs
    BY SettingType DEF EpsOK
  <2> DEFINE n == s.ep[e].mps
             t == s.ep[e].type
             w == eps[e]
  <2>2. eps'[e] = [w EXCEPT !.type = t, !.ml = n, !.halt = FALSE, !.dt = 0]
    BY <1>1, <2>1 DEF EpConf
  <2>3. w \in EpRegs
    BY <2>1
  <2> HIDE DEF n, t, w
  <2>4. eps'[e].type = t /\ eps'[e].ml = n /\ eps'[e].halt = FALSE /\ eps'[e].dt = 0
    BY <2>2, <2>3 DEF EpRegs
  <2> QED BY <2>4 DEF n, t, KindAgrees
<1> QED BY <1>1, <1>2 DEF Fresh

\* Settings whose end points keep what they are keep what they were made to be.
LEMMA FreshKept ==
  ASSUME NEW s, Fresh(s), \A e \in DOMAIN s.ep : eps'[e] = eps[e]
  PROVE  Fresh(s)'
  BY DEF Fresh, KindAgrees

\* Halting and resuming: what is accepted changes one end point.
LEMMA HaltEffect ==
  ASSUME TypeInv, SetFeatureEp \/ ClearFeatureEp
  PROVE  LET e == ctl.setup.index
         IN /\ e \in Ep /\ ctl.setup # NoReq /\ Halts(ctl.setup)
            /\ SetFeatureEp => ctl.setup.name = "set_feature_ep"
            /\ ClearFeatureEp => ctl.setup.name = "clear_feature_ep"
            /\ Reply(CanHalt(e), 0) /\ UNCHANGED <<st, fw, drv>>
            /\ ~CanHalt(e) => eps' = eps
            /\ \A f \in Ep : f # e => eps'[f] = eps[f]
            /\ CanHalt(e) => /\ SetFeatureEp => eps'[e].halt /\ eps'[e].dt = eps[e].dt
                             /\ ClearFeatureEp => ~eps'[e].halt /\ eps'[e].dt = 0
<1> DEFINE e == ctl.setup.index
<1>1. PICK name \in {"set_feature_ep", "clear_feature_ep"} :
        /\ Handle(name)
        /\ SetFeatureEp => name = "set_feature_ep"
        /\ ClearFeatureEp => name = "clear_feature_ep"
  BY DEF SetFeatureEp, ClearFeatureEp, Handle
<1>2. ctl.setup # NoReq /\ Sound(ctl.setup) /\ ctl.setup.name = name
  BY <1>1, TypeParts, HandleType DEF RequestName
<1>3. e \in Ep
  BY <1>2 DEF Sound
<1>4. eps \in [Ep -> EpRegs] /\ eps[e] \in EpRegs
  BY <1>3, TypeParts DEF EpsOK
<1>5. ~CanHalt(e) => eps' = eps
  BY DEF SetFeatureEp, ClearFeatureEp
<1>6. Reply(CanHalt(e), 0) /\ UNCHANGED <<st, fw, drv>>
  BY DEF SetFeatureEp, ClearFeatureEp
<1>7. CASE SetFeatureEp /\ CanHalt(e)
  <2>1. eps' = [eps EXCEPT ![e].halt = TRUE]
    BY <1>7 DEF SetFeatureEp
  <2>2. eps'[e] = [eps[e] EXCEPT !.halt = TRUE] /\ \A f \in Ep : f # e => eps'[f] = eps[f]
    BY <1>3, <1>4, <2>1
  <2>3. eps'[e].halt /\ eps'[e].dt = eps[e].dt
    BY <1>4, <2>2 DEF EpRegs
  <2>4. ~ClearFeatureEp
    BY <1>1, <1>7
  <2> QED BY <1>1, <1>2, <1>3, <1>6, <1>7, <2>2, <2>3, <2>4 DEF Halts
<1>8. CASE ClearFeatureEp /\ CanHalt(e)
  <2>1. eps' = [eps EXCEPT ![e] = EpResume(@)]
    BY <1>8 DEF ClearFeatureEp
  <2>2. eps'[e] = EpResume(eps[e]) /\ \A f \in Ep : f # e => eps'[f] = eps[f]
    BY <1>3, <1>4, <2>1
  <2>3. ~eps'[e].halt /\ eps'[e].dt = 0
    BY <1>4, <2>2 DEF EpRegs, EpResume
  <2>4. ~SetFeatureEp
    BY <1>1, <1>8
  <2> QED BY <1>1, <1>2, <1>3, <1>6, <1>8, <2>2, <2>3, <2>4 DEF Halts
<1>9. CASE ~CanHalt(e)
  BY <1>1, <1>2, <1>3, <1>5, <1>6, <1>9 DEF Halts
<1> QED BY <1>7, <1>8, <1>9

\* What an answer carries.
LEMMA ReplyData ==
  ASSUME core \in CoreRegs, ctl \in Control, NEW ok \in BOOLEAN, NEW data \in Int,
         Reply(ok, data)
  PROVE  ctl'.data = IF ok THEN data ELSE 0
<1> DEFINE phase == IF ok THEN "answer" ELSE "stall"
           n == IF ok THEN data ELSE 0
<1>1. ctl' = [ctl EXCEPT !.setup = NoReq, !.req = ctl.setup, !.phase = phase, !.data = n]
  BY DEF Reply, Answer
<1> HIDE DEF phase, n
<1>2. ctl'.data = n
  BY <1>1 DEF Control
<1> QED BY <1>2 DEF n

\* What the firmware knows of settings.
LEMMA FirmwareAlt ==
  ASSUME TypeInv, Firmware
  PROVE  \/ drv'.alt = drv.alt /\ st'.intf_alt = st.intf_alt /\ st'.rt = st.rt
         \/ ResetEp0 \/ SetConfiguration \/ DispatchSetConf \/ DispatchSetIntf \/ SetInterface
<1>1. CASE UNCHANGED <<st, drv>>
  BY <1>1
<1>2. CASE SetDefault \/ Suspended \/ Active
  <2>1. PICK b \in BOOLEAN, q \in {"default", st.state} :
          SetState([st EXCEPT !.state = q, !.susp = b])
    <3>1. SetDefault => SetState([st EXCEPT !.state = "default", !.susp = FALSE])
      BY DEF SetDefault
    <3>2. Suspended \/ Active => \E b \in BOOLEAN : SetState([st EXCEPT !.susp = b])
      BY DEF Suspended, Active, Resumed
    <3>3. \A b \in BOOLEAN : [st EXCEPT !.susp = b] = [st EXCEPT !.state = st.state, !.susp = b]
      BY TypeParts DEF Stack
    <3> QED BY <1>2, <3>1, <3>2, <3>3
  <2> DEFINE s == [st EXCEPT !.state = q, !.susp = b]
  <2>2. s \in Stack /\ s.intf_alt = st.intf_alt /\ s.rt = st.rt
    BY TypeParts DEF Stack
  <2>3. SetState(s)
    BY <2>1
  <2> HIDE DEF s
  <2>4. st' = s /\ drv'.alt = drv.alt
    BY <2>2, <2>3, TypeParts, SetStateType
  <2> QED BY <2>2, <2>4
<1>3. CASE EpBoot
  <2>1. PICK e \in fw.todo : Boot(st.conf, e)
    BY <1>3 DEF EpBoot
  <2>2. \E n, d : st' = [st EXCEPT !.mem[d] = n]
    <3>1. \E n : st' = [st EXCEPT !.mem[Dir(e)] = @ + n]
      BY <2>1 DEF Boot
    <3> QED BY <3>1
  <2>3. UNCHANGED drv
    BY <1>3 DEF EpBoot
  <2> QED BY <2>2, <2>3, TypeParts DEF Stack
<1>4. CASE ResetEp0 \/ SetConfiguration \/ DispatchSetConf \/ DispatchSetIntf \/ SetInterface
  BY <1>4
<1> QED BY <1>1, <1>2, <1>3, <1>4
        DEF Firmware, Requests, GetStatusDev, GetStatusIntf, GetStatusEp, SetAddress,
            GetConfiguration, SetConfigurationRefused, GetInterface, SetInterfaceRefused,
            GetDescriptor, OtherFeature, DfuDetach, DfuGetStatus, Local, SetFeatureEp,
            ClearFeatureEp, Poll, HwReset, ResetCsr, ResetAr, Drain, Polled, SetAddrDone,
            OtherDone, EpsBooted, Configured, NullEnds, NullHangs

-----------------------------------------------------------------------------
(* Selecting a configuration.                                              *)

\* How SET_CONFIGURATION goes on.
LEMMA ConfigureSteps ==
  ASSUME TypeInv, Firmware, fw'.pc \in Configuring
  PROVE  \/ SetConfiguration /\ fw'.pc = "set_conf"
         \/ /\ DispatchSetConf /\ fw.pc = "set_conf"
            /\ fw'.pc = IF st.conf = NoConf THEN "null" ELSE "boot"
         \/ EpBoot /\ fw.pc = "boot" /\ fw'.pc = "boot"
         \/ /\ EpsBooted /\ fw.pc = "boot" /\ fw'.pc = "set_intf"
            /\ fw'.todo = {s.intf : s \in Desc[st.conf]}
         \/ DispatchSetIntf /\ fw.pc = "set_intf" /\ fw'.pc = "set_intf"
<1>1. CASE Poll \/ HwReset \/ ResetCsr \/ ResetAr \/ ResetEp0 \/ SetDefault
  BY <1>1, FirmwarePlaces
     DEF Poll, HwReset, ResetCsr, ResetAr, ResetEp0, SetDefault, Configuring
<1>2. CASE Suspended \/ Active \/ Drain \/ Polled \/ Configured \/ NullEnds \/ NullHangs
  <2>1. \E p \in {"poll", "drain", "ep0", "hung"} : Goto(p) \/ GotoWithout(p)
    BY <1>2 DEF Suspended, Active, Drain, Polled, Configured, NullEnds, NullHangs
  <2> QED BY <2>1, TypeParts, GotoType DEF FwPc, Configuring
<1>3. CASE SetAddrDone \/ OtherDone
  BY <1>3 DEF SetAddrDone, OtherDone, Done, Configuring
<1>4. CASE Requests
  <2>1. SetConfiguration \/ (fw.pc = "ep0" /\ UNCHANGED fw)
    BY <1>4 DEF Requests, GetStatusDev, GetStatusIntf, GetStatusEp, SetFeatureEp,
       ClearFeatureEp, SetAddress, GetConfiguration, SetConfigurationRefused,
       GetInterface, SetInterface, SetInterfaceRefused, GetDescriptor, OtherFeature,
       DfuDetach, DfuGetStatus, Local, Handle
  <2> QED BY <2>1, ConfigurePlaces DEF Configuring
<1>5. CASE DispatchSetConf
  BY <1>5, TypeParts DEF DispatchSetConf, Place
<1>6. CASE EpBoot
  BY <1>6, TypeParts DEF EpBoot, Place
<1>7. CASE EpsBooted
  BY <1>7, TypeParts DEF EpsBooted, Place
<1>8. CASE DispatchSetIntf
  BY <1>8, TypeParts DEF DispatchSetIntf, Place
<1> QED BY <1>1, <1>2, <1>3, <1>4, <1>5, <1>6, <1>7, <1>8 DEF Firmware

\* One interface after the other: what dispatching one of them does.
LEMMA DispatchEffect ==
  ASSUME TypeInv, DispatchSetIntf
  PROVE  /\ fw.pc = "set_intf" /\ fw'.pc = "set_intf" /\ st.conf \in Conf
         /\ st'.conf = st.conf /\ st'.state = st.state /\ st'.intf_alt = st.intf_alt
         /\ UNCHANGED <<core, ctl>>
         /\ \E i \in fw.todo : \E s \in Desc[st.conf] :
              /\ s.intf = i /\ s.alt = 0 /\ Reconf(s) /\ drv' = ToldIntf(s)
              /\ fw'.todo = fw.todo \ {i}
              /\ st'.rt = IF i = RtIntf THEN i ELSE st.rt
<1>1. PICK i \in fw.todo :
        /\ \E s \in FindIntf(st.conf, i, 0) : Reconf(s) /\ drv' = ToldIntf(s)
        /\ st' = [st EXCEPT !.rt = IF i = RtIntf THEN i ELSE @]
        /\ fw' = [fw EXCEPT !.todo = @ \ {i}]
  BY DEF DispatchSetIntf
<1>2. PICK s \in FindIntf(st.conf, i, 0) : Reconf(s) /\ drv' = ToldIntf(s)
  BY <1>1
<1>3. fw.pc = "set_intf" /\ UNCHANGED <<core, ctl>>
  BY DEF DispatchSetIntf
<1>4. st.conf \in Conf /\ s \in Desc[st.conf] /\ s.intf = i /\ s.alt = 0
  BY <1>2, <1>3, TypeParts, FoundSetting DEF Stack, ConfiguringOK
<1>5. /\ st'.conf = st.conf /\ st'.state = st.state /\ st'.intf_alt = st.intf_alt
      /\ st'.rt = IF i = RtIntf THEN i ELSE st.rt
  BY <1>1, TypeParts DEF Stack
<1>6. fw'.todo = fw.todo \ {i} /\ fw'.pc = fw.pc
  BY <1>1, TypeParts DEF Place
<1> QED BY <1>1, <1>2, <1>3, <1>4, <1>5, <1>6

\* The DFU run time driver keeps the interface it found.
LEMMA RtKept ==
  ASSUME TypeInv, Firmware
  PROVE  st'.rt = st.rt \/ st'.rt = RtIntf
<1>1. CASE DispatchSetIntf
  BY <1>1, DispatchEffect
<1>2. CASE SetInterface
  <2>1. PICK s : st' = [st EXCEPT !.intf_alt = AltSet(@, s),
                                  !.rt = IF s.intf = RtIntf THEN s.intf ELSE @]
    BY <1>2 DEF SetInterface
  <2>2. st'.rt = IF s.intf = RtIntf THEN s.intf ELSE st.rt
    BY <2>1, TypeParts DEF Stack
  <2> QED BY <2>2
<1>3. CASE ResetEp0
  BY <1>3, TypeParts DEF ResetEp0, Stack
<1>4. CASE SetConfiguration
  BY <1>4, TypeParts DEF SetConfiguration, SetState, Stack
<1>5. CASE DispatchSetConf
  BY <1>5 DEF DispatchSetConf
<1> QED BY <1>1, <1>2, <1>3, <1>4, <1>5, FirmwareAlt

\* A step of the firmware.
LEMMA SelectionFirmware ==
  ASSUME TypeInv, TypeInv', SelectionMade, Firmware
  PROVE  SelectionMade'
<1>1. fw'.pc \in Configuring => st'.intf_alt = {}
  <2>1. CASE SetConfiguration
    <3>1. st' = [st EXCEPT !.conf = ctl.setup.value, !.intf_alt = {}, !.susp = FALSE,
                  !.state = IF ctl.setup.value = NoConf THEN "default" ELSE "configured"]
      BY <2>1 DEF SetConfiguration, SetState
    <3> QED BY <3>1, TypeParts DEF Stack
  <2>2. CASE DispatchSetConf \/ EpBoot \/ EpsBooted \/ DispatchSetIntf
    <3>1. fw.pc \in Configuring
      BY <2>2 DEF DispatchSetConf, EpBoot, EpsBooted, DispatchSetIntf, Configuring
    <3>2. st'.intf_alt = st.intf_alt
      <4>1. CASE DispatchSetConf
        BY <4>1 DEF DispatchSetConf
      <4>2. CASE DispatchSetIntf
        BY <4>2, DispatchEffect
      <4>3. fw.pc \notin {"ep0", "ep0_reset"}
        BY <3>1 DEF Configuring
      <4> QED BY <4>1, <4>2, <4>3, FirmwareAlt
              DEF ResetEp0, SetConfiguration, SetInterface, Handle
    <3> QED BY <3>1, <3>2 DEF SelectionMade
  <2> QED BY <2>1, <2>2, ConfigureSteps
<1>2. fw'.pc = "null" => st'.conf = NoConf
  <2>1. fw'.pc = "null" => DispatchSetConf /\ st.conf = NoConf
    BY ConfigureSteps DEF Configuring
  <2> QED BY <2>1 DEF DispatchSetConf
<1>3. ASSUME fw'.pc = "set_intf", NEW s \in Desc[st'.conf], s.alt = 0, s.intf \notin fw'.todo
      PROVE  Fresh(s)'
  <2>1. CASE EpsBooted /\ fw'.todo = {t.intf : t \in Desc[st.conf]}
    <3>1. s \in Desc[st.conf]
      BY <1>3, <2>1 DEF EpsBooted
    <3> QED BY <1>3, <2>1, <3>1
  <2>2. CASE DispatchSetIntf
    <3>1. PICK i \in fw.todo, t \in Desc[st.conf] :
            t.intf = i /\ t.alt = 0 /\ Reconf(t) /\ fw'.todo = fw.todo \ {i}
      BY <2>2, DispatchEffect
    <3>2. st.conf \in Conf /\ st'.conf = st.conf /\ fw.pc = "set_intf"
      BY <2>2, DispatchEffect
    <3>3. /\ Fresh(t)'
          /\ \A e \in Ep : e \notin DOMAIN t.ep => eps'[e] = eps[e]
      BY <3>1, <3>2, TypeParts, ReconfFresh
    <3>4. CASE s.intf = i
      BY <1>3, <3>1, <3>2, <3>3, <3>4, SettingAssumption
    <3>5. CASE s.intf # i
      <4>1. Fresh(s)
        BY <1>3, <3>1, <3>2, <3>5 DEF SelectionMade
      <4>2. \A e \in DOMAIN s.ep : e \in Ep /\ e \notin DOMAIN t.ep
        BY <1>3, <3>1, <3>2, <3>5, SettingType, SettingAssumption
      <4> QED BY <3>3, <4>1, <4>2, FreshKept
    <3> QED BY <3>4, <3>5
  <2> QED BY <1>3, <2>1, <2>2, ConfigureSteps DEF Configuring
<1>4. ASSUME st'.state = "configured", fw'.pc # "set_conf",
             NEW s \in Desc[st'.conf], s.intf = RtIntf, st'.rt # RtIntf
      PROVE  s.intf \in Undone'
  <2>1. ~SetConfiguration /\ ~SetDefault
    <3>1. SetDefault => st'.state = "default"
      BY TypeParts DEF SetDefault, SetState, Stack
    <3> QED BY <1>4, <3>1, ConfigurePlaces
  <2>2. st.state = "configured" /\ st'.conf = st.conf /\ st.rt # RtIntf
    BY <1>4, <2>1, FirmwareState, RtKept
  <2>3. st'.conf \in Conf \cup {NoConf} /\ (fw.pc = "set_conf" => st.conf # NoConf)
    BY <2>2, TypeParts DEF Stack, ConfiguringOK, Configuring
  <2>4. s.intf \in Undone \/ fw.pc = "set_conf"
    BY <1>4, <2>2 DEF SelectionMade
  <2>5. CASE fw'.pc \in Configuring
    <3>1. CASE EpBoot /\ fw.pc = "boot" /\ fw'.pc = "boot"
      BY <2>4, <3>1 DEF Undone
    <3>2. CASE DispatchSetConf /\ fw.pc = "set_conf"
               /\ fw'.pc = IF st.conf = NoConf THEN "null" ELSE "boot"
      <4>1. fw'.pc = "boot"
        BY <2>3, <3>2
      <4>2. s.intf \in Intf
        BY <2>2, <2>3, <3>2, SettingType, <1>4
      <4> QED BY <4>1, <4>2 DEF Undone
    <3>3. CASE EpsBooted /\ fw'.pc = "set_intf" /\ fw'.todo = {t.intf : t \in Desc[st.conf]}
      BY <1>4, <2>2, <3>3 DEF Undone
    <3>4. CASE DispatchSetIntf
      <4>1. PICK i \in fw.todo : /\ fw'.todo = fw.todo \ {i}
                                 /\ st'.rt = IF i = RtIntf THEN i ELSE st.rt
        BY <3>4, DispatchEffect
      <4>2. fw.pc = "set_intf" /\ fw'.pc = "set_intf"
        BY <3>4, DispatchEffect
      <4> QED BY <1>4, <2>4, <4>1, <4>2 DEF Undone
    <3> QED BY <2>1, <2>5, <3>1, <3>2, <3>3, <3>4, ConfigureSteps
  <2>6. CASE fw'.pc \notin Configuring
    <3>1. fw.pc \in Configuring
      BY <2>4 DEF Undone, Configuring
    <3>2. Configured \/ NullEnds \/ fw'.pc = "hung"
      BY <2>6, <3>1, ConfigurePlaces
    <3>3. fw'.pc = "hung" => fw.pc = "null"
      BY ConfigurePlaces DEF NullHangs
    <3>4. (fw.pc = "set_intf" /\ fw.todo = {}) \/ fw.pc = "null"
      BY <3>2, <3>3 DEF Configured, NullEnds
    <3> QED BY <2>4, <3>4 DEF Undone
  <2> QED BY <2>5, <2>6
<1> QED BY <1>1, <1>2, <1>3, <1>4 DEF SelectionMade

-----------------------------------------------------------------------------
(* How requests are answered.                                              *)

\* The answer to each request.
AnswerTo(r) ==
  /\ ctl'.req = r /\ ctl'.setup = NoReq /\ ctl'.phase \in {"answer", "stall"}
  /\ r.name \in {"get_status_dev", "set_address", "get_configuration"} => ctl'.phase = "answer"
  /\ r.name = "get_configuration" => ctl'.data = st.conf
  /\ r.name = "get_descriptor" /\ ctl'.phase = "stall" => r.value \notin Descriptor
  /\ r.name = "get_status_ep" =>
       IF eps[r.index].type = "none" THEN ctl'.phase = "stall"
       ELSE /\ ctl'.phase = "answer"
            /\ ctl'.data = IF eps[r.index].type = "bci" /\ eps[r.index].halt THEN 1 ELSE 0
  /\ r.name = "get_interface" =>
       IF FindIntf(st.conf, r.index, 0) = {} THEN ctl'.phase = "stall"
       ELSE ctl'.phase = "answer" /\ ctl'.data = AltOf(r.index)
  /\ r.name \in {"dfu_detach", "dfu_getstatus"} /\ ctl'.phase = "stall" => st.rt # r.index
  /\ r.name = "set_interface" =>
       IF FindIntf(st.conf, r.index, r.value) = {} THEN ctl'.phase = "stall"
       ELSE ctl'.phase = "answer" /\ SetInterface
  /\ Halts(r) =>
       /\ SetFeatureEp \/ ClearFeatureEp
       /\ ctl'.phase = IF CanHalt(r.index) THEN "answer" ELSE "stall"
  /\ r.name = "set_configuration" =>
       IF r.value \in Conf \cup {NoConf} THEN ctl'.phase = "answer" /\ (Configured \/ NullEnds)
       ELSE ctl'.phase = "stall"

LEMMA AnswerKinds ==
  ASSUME TypeInv, Requests \/ Configured \/ NullEnds
  PROVE  SetConfiguration \/ AnswerTo(ctl.setup)
<1> DEFINE r == ctl.setup
<1>1. ASSUME NEW ok \in BOOLEAN, NEW data \in Int, Reply(ok, data)
      PROVE  /\ ctl'.req = r /\ ctl'.setup = NoReq
             /\ ctl'.phase = IF ok THEN "answer" ELSE "stall"
             /\ ctl'.data = IF ok THEN data ELSE 0
  BY <1>1, TypeParts, ReplyType, ReplyData
<1>2. ASSUME NEW name \in RequestName, Handle(name)
      PROVE  r.name = name /\ Sound(r) /\ r \in Request /\ r # NoReq
  BY <1>2, TypeParts, HandleType
<1>3. 0 \in Int /\ 1 \in Int /\ TRUE \in BOOLEAN /\ FALSE \in BOOLEAN
  OBVIOUS
<1>4. CASE GetStatusDev \/ SetAddress
  <2>1. r.name \in {"get_status_dev", "set_address"} /\ Reply(TRUE, 0)
    BY <1>4 DEF GetStatusDev, SetAddress, Handle
  <2> QED BY <1>1, <1>3, <2>1 DEF AnswerTo, Halts
<1>5. CASE OtherFeature \/ GetStatusIntf
  <2>1. r.name \in {"other_feature", "get_status_intf"}
    BY <1>5 DEF OtherFeature, GetStatusIntf, Handle
  <2>2. \E ok \in BOOLEAN : Reply(ok, 0)
    BY <1>5 DEF OtherFeature, GetStatusIntf
  <2> QED BY <1>1, <1>3, <2>1, <2>2 DEF AnswerTo, Halts
<1>6. CASE GetStatusEp
  <2> DEFINE w == eps[r.index]
             data == IF w.type = "bci" /\ w.halt THEN 1 ELSE 0
             ok == w.type # "none"
  <2>1. Reply(ok, data) /\ r.name = "get_status_ep"
    BY <1>6 DEF GetStatusEp, Handle
  <2>2. ok \in BOOLEAN /\ data \in Int
    OBVIOUS
  <2> HIDE DEF ok, data
  <2>3. /\ ctl'.req = r /\ ctl'.setup = NoReq
        /\ ctl'.phase = IF ok THEN "answer" ELSE "stall"
        /\ ctl'.data = IF ok THEN data ELSE 0
    BY <1>1, <2>1, <2>2
  <2> QED BY <2>1, <2>3 DEF AnswerTo, Halts, ok, data
<1>7. CASE GetConfiguration
  <2>1. Reply(TRUE, st.conf) /\ r.name = "get_configuration"
    BY <1>7 DEF GetConfiguration, Handle
  <2>2. st.conf \in Int
    <3>1. Conf \subseteq Int /\ NoConf \in Int
      BY DescAssumption DEF NoConf
    <3>2. st.conf \in Conf \cup {NoConf}
      BY TypeParts DEF Stack
    <3> QED BY <3>1, <3>2
  <2> QED BY <1>1, <1>3, <2>1, <2>2 DEF AnswerTo, Halts
<1>8. CASE GetInterface
  <2> DEFINE ok == FindIntf(st.conf, r.index, 0) # {}
             data == AltOf(r.index)
  <2>1. Handle("get_interface") /\ Reply(ok, data)
    BY <1>8 DEF GetInterface, AltOf, AskedIntf
  <2>2. r.name = "get_interface"
    BY <2>1 DEF Handle
  <2>3. ok \in BOOLEAN
    OBVIOUS
  <2>4. data \in Int
    <3>1. Alt \subseteq Int
      BY DescAssumption DEF Alt, Conf
    <3>2. st.intf_alt \subseteq Intf /\ drv.alt \in [Intf -> Alt \cup {NoAlt}]
      BY TypeParts DEF Stack, Drivers
    <3>3. NoAlt \in Int
      BY DEF NoAlt
    <3>4. CASE r.index \in st.intf_alt
      <4>1. drv.alt[r.index] \in Alt \cup {NoAlt}
        BY <3>2, <3>4
      <4> QED BY <3>1, <3>3, <3>4, <4>1 DEF AltOf
    <3>5. CASE r.index \notin st.intf_alt
      BY <3>5 DEF AltOf
    <3> QED BY <3>4, <3>5
  <2> HIDE DEF ok, data
  <2>5. /\ ctl'.req = r /\ ctl'.setup = NoReq
        /\ ctl'.phase = IF ok THEN "answer" ELSE "stall"
        /\ ctl'.data = IF ok THEN data ELSE 0
    BY <1>1, <2>1, <2>3, <2>4
  <2> QED BY <2>2, <2>5 DEF AnswerTo, Halts, ok, data
<1>9. CASE GetDescriptor
  <2> DEFINE ok == r.value \in Descriptor
  <2>1. Handle("get_descriptor") /\ Reply(ok, r.value)
    BY <1>9 DEF GetDescriptor
  <2>2. r.name = "get_descriptor" /\ r.value \in Int /\ ok \in BOOLEAN
    BY <1>2, <2>1 DEF RequestName, Request
  <2> HIDE DEF ok
  <2>3. /\ ctl'.req = r /\ ctl'.setup = NoReq
        /\ ctl'.phase = IF ok THEN "answer" ELSE "stall"
    BY <1>1, <2>1, <2>2
  <2> QED BY <2>2, <2>3 DEF AnswerTo, Halts, ok
<1>10. CASE DfuDetach \/ DfuGetStatus
  <2> DEFINE ok == st.rt = r.index
  <2>1. r.name \in {"dfu_detach", "dfu_getstatus"} /\ Reply(ok, 0)
    BY <1>10 DEF DfuDetach, DfuGetStatus, Handle
  <2>2. ok \in BOOLEAN
    OBVIOUS
  <2> HIDE DEF ok
  <2>3. /\ ctl'.req = r /\ ctl'.setup = NoReq
        /\ ctl'.phase = IF ok THEN "answer" ELSE "stall"
    BY <1>1, <1>3, <2>1, <2>2
  <2> QED BY <2>1, <2>3 DEF AnswerTo, Halts, ok
<1>11. CASE SetFeatureEp \/ ClearFeatureEp
  <2> DEFINE ok == CanHalt(r.index)
  <2>1. Halts(r) /\ Reply(ok, 0)
    BY <1>11, HaltEffect
  <2>2. ok \in BOOLEAN
    BY DEF CanHalt
  <2> HIDE DEF ok
  <2>3. /\ ctl'.req = r /\ ctl'.setup = NoReq
        /\ ctl'.phase = IF ok THEN "answer" ELSE "stall"
    BY <1>1, <1>3, <2>1, <2>2
  <2> QED BY <1>11, <2>1, <2>3 DEF AnswerTo, Halts, ok
<1>12. CASE SetInterface
  <2>1. /\ r.name = "set_interface" /\ Reply(TRUE, 0)
        /\ FindIntf(st.conf, r.index, r.value) # {}
    BY <1>12 DEF SetInterface, Handle
  <2> QED BY <1>1, <1>3, <1>12, <2>1 DEF AnswerTo, Halts
<1>13. CASE SetInterfaceRefused
  <2>1. /\ r.name = "set_interface" /\ Reply(FALSE, 0)
        /\ FindIntf(st.conf, r.index, r.value) = {}
    BY <1>13 DEF SetInterfaceRefused, Handle
  <2> QED BY <1>1, <1>3, <2>1 DEF AnswerTo, Halts
<1>14. CASE SetConfigurationRefused
  <2>1. /\ r.name = "set_configuration" /\ Reply(FALSE, 0)
        /\ r.value \notin Conf \cup {NoConf}
    BY <1>14 DEF SetConfigurationRefused, Handle
  <2> QED BY <1>1, <1>3, <2>1 DEF AnswerTo, Halts
<1>15. CASE Configured \/ NullEnds
  <2>1. Reply(TRUE, 0) /\ fw.pc \in Configuring
    BY <1>15 DEF Configured, NullEnds, Configuring
  <2>2. r.name = "set_configuration" /\ r.value \in Conf \cup {NoConf}
    BY <2>1, TypeParts DEF ConfiguringOK, Stack
  <2> QED BY <1>1, <1>3, <1>15, <2>1, <2>2 DEF AnswerTo, Halts
<1> QED BY <1>4, <1>5, <1>6, <1>7, <1>8, <1>9, <1>10, <1>11, <1>12, <1>13, <1>14, <1>15
        DEF Requests

\* Firmware that answers nothing leaves the control end point alone, or forgets it.
LEMMA NoAnswer ==
  ASSUME TypeInv, Firmware
  PROVE  \/ UNCHANGED ctl
         \/ HwReset
         \/ ResetEp0 /\ ctl' = [Idle EXCEPT !.up = TRUE]
         \/ /\ SetAddrDone \/ OtherDone
            /\ ctl'.setup = ctl.setup /\ ctl'.req = NoReq /\ ctl'.phase = "idle"
         \/ /\ ctl.setup # NoReq /\ AnswerTo(ctl.setup)
            /\ Requests \/ Configured \/ NullEnds
<1>1. SetConfiguration => UNCHANGED ctl
  BY DEF SetConfiguration
<1> QED BY <1>1, FirmwareCtl, AnswerKinds

-----------------------------------------------------------------------------
(* The steps of the firmware in a session.                                 *)

\* What is known of the session, of the configuration and of the types.
LEMMA RoomParts ==
  ASSUME RoomInv
  PROVE  /\ TypeInv /\ ResettingOK /\ HostOK /\ UnhandledOK /\ SessionOK /\ ConfiguredOK
         /\ ~Selects(NoReq) /\ ~Halts(NoReq) /\ NoReq.name = "none"
  BY DEF RoomInv, SessionInv, NoReq, Selects, Halts

\* A host that uses end points selected a configuration.
LEMMA SettingsSelected ==
  ASSUME HostOK, Settings # {}
  PROVE  host.conf # NoConf /\ host.confs # 0
  BY DEF HostOK, Settings

\* A session begins without a request and without a configuration.
LEMMA SessionBegins ==
  ASSUME ctl'.req = NoReq, host'.confs = 0, host'.conf = NoConf
  PROVE  InSession'
<1>1. Settings' = {}
  BY DEF Settings
<1>2. UsedOK'
  BY <1>1 DEF UsedOK
<1>3. SelectedOK' /\ AcceptedOK' /\ UnreadOK'
  BY DEF SelectedOK, AcceptedOK, Accepted, UnreadOK, Unread
<1> QED BY <1>2, <1>3 DEF InSession

\* What the firmware handles in a session is what the host asks now.
LEMMA FirmwareSession ==
  ASSUME RoomInv, RoomInv', Firmware, UNCHANGED host, Handled'
  PROVE  \/ InSession'
         \/ /\ Handled /\ ~HwReset /\ ~ResetAr
            /\ ctl.setup # NoReq => ctl.setup = host.req
            /\ ResetEp0 => host.confs = 0
            /\ SetConfiguration \/ fw.pc \in Configuring =>
                 Selects(host.req) /\ ctl.setup # NoReq
<1>1. CASE ResetAr
  <2>1. ctl' = Idle /\ fw'.pc = "ep0_reset"
    BY <1>1, RoomParts, FirmwarePlaces DEF ResetAr, ResettingOK, Resetting
  <2>2. ConfiguredOK' /\ HostOK
    BY RoomParts DEF RoomInv
  <2>3. host.confs = 0
    BY <2>1, <2>2 DEF ConfiguredOK
  <2>4. host.conf = NoConf
    BY <2>2, <2>3 DEF HostOK
  <2> QED BY <2>1, <2>3, <2>4, IdleType, SessionBegins
<1>2. CASE ~ResetAr
  <2>1. Handled
    BY <1>2, RoomParts, FirmwareCore DEF Handled
  <2>2. ~HwReset /\ (ctl.setup # NoReq => ctl.setup = host.req)
    BY <2>1, RoomParts DEF SessionOK, HwReset
  <2>3. ResetEp0 => host.confs = 0
    BY <2>1, RoomParts DEF ResetEp0, ConfiguredOK
  <2>4. SetConfiguration \/ fw.pc \in Configuring =>
          /\ ctl.setup.name = "set_configuration" /\ ctl.setup.value \in Conf \cup {NoConf}
    <3>1. st.conf \in Conf \cup {NoConf}
      BY RoomParts, TypeParts DEF Stack
    <3> QED BY <3>1, RoomParts, TypeParts DEF SetConfiguration, Handle, ConfiguringOK
  <2>5. SetConfiguration \/ fw.pc \in Configuring => Selects(ctl.setup) /\ ctl.setup # NoReq
    BY <2>4, RoomParts, HostAssumption DEF Selects
  <2> QED BY <1>2, <2>1, <2>2, <2>3, <2>5
<1> QED BY <1>1, <1>2

\* The end points that the host uses.
LEMMA UsedFirmware ==
  ASSUME RoomInv, UsedOK, SelectedOK, Firmware, UNCHANGED host, ~HwReset,
         ctl.setup # NoReq => ctl.setup = host.req,
         SetConfiguration \/ fw.pc \in Configuring => Selects(host.req) /\ ctl.setup # NoReq
  PROVE  UsedOK'
<1>1. Settings' = Settings /\ InUse' = InUse
  BY DEF Settings, InUse
<1>2. Affected(host.req)' = Affected(host.req)
  BY <1>1 DEF Affected
<1>3. \A f \in Ep : eps'[f].type = eps[f].type => Refused(host.req)' = Refused(host.req)
                      \/ host.req.index # f
  BY DEF Refused, Halts
<1> SUFFICES ASSUME NEW s \in Settings, NEW e \in DOMAIN s.ep
             PROVE  /\ Unaffected(e)' => Agrees(s, e)'
                    /\ Halts(host.req) => KindAgrees(s, e)'
                    /\ host.req.name = "set_feature_ep" => eps'[e].dt = host.dt[e]
  BY <1>1 DEF UsedOK
<1>4. /\ Unaffected(e) => Agrees(s, e)
      /\ Halts(host.req) => KindAgrees(s, e)
      /\ host.req.name = "set_feature_ep" => eps[e].dt = host.dt[e]
  BY DEF UsedOK
<1>5. /\ e \in InUse /\ e \in Ep /\ host.conf \in Conf /\ s \in Desc[host.conf]
      /\ host.confs # 0
  BY RoomParts, InUseType, SettingsSelected DEF InUse
<1>6. ASSUME eps'[e] = eps[e], Unaffected(e)' => Unaffected(e)
      PROVE  /\ Unaffected(e)' => Agrees(s, e)'
             /\ Halts(host.req) => KindAgrees(s, e)'
             /\ host.req.name = "set_feature_ep" => eps'[e].dt = host.dt[e]
  BY <1>4, <1>6 DEF Agrees, KindAgrees
<1>7. CASE UNCHANGED eps
  <2>1. Refused(host.req)' = Refused(host.req)
    BY <1>7 DEF Refused, Halts
  <2>2. Unaffected(e)' => Unaffected(e)
    BY <1>2, <2>1 DEF Unaffected
  <2> QED BY <1>6, <1>7, <2>2
<1>8. CASE SetFeatureEp \/ ClearFeatureEp
  <2> DEFINE f == host.req.index
  <2>1. /\ ctl.setup = host.req /\ f \in Ep /\ Halts(host.req)
        /\ ~CanHalt(f) => eps' = eps
        /\ \A g \in Ep : g # f => eps'[g] = eps[g]
        /\ CanHalt(f) /\ SetFeatureEp => eps'[f].dt = eps[f].dt
        /\ host.req.name = "set_feature_ep" => SetFeatureEp
    <3>1. ctl.setup = host.req
      BY <1>8, RoomParts, HaltEffect
    <3> QED BY <1>8, <3>1, RoomParts, HaltEffect
  <2>2. \A g \in Ep : eps'[g].type = eps[g].type /\ eps'[g].ml = eps[g].ml
    BY <1>8, RoomParts, TypeParts, HaltType
  <2>3. CASE ~CanHalt(f)
    BY <1>7, <2>1, <2>3
  <2>4. CASE CanHalt(f) /\ e # f
    <3>1. Refused(host.req)' = Refused(host.req)
      BY <1>3, <2>1, <2>2
    <3>2. Unaffected(e)' => Unaffected(e)
      BY <1>2, <3>1 DEF Unaffected
    <3> QED BY <1>5, <1>6, <2>1, <2>4, <3>2
  <2>5. CASE CanHalt(f) /\ e = f
    <3>1. eps'[f].type = "bci"
      BY <2>1, <2>2, <2>5 DEF CanHalt
    <3>2. ~Refused(host.req)'
      BY <2>1, <3>1 DEF Refused, Halts
    <3>3. e \in Affected(host.req)
      BY <2>1, <2>5 DEF Affected, Halts
    <3>4. ~Unaffected(e)'
      BY <1>2, <3>2, <3>3 DEF Unaffected
    <3>5. KindAgrees(s, e)'
      BY <1>4, <1>5, <2>1, <2>2 DEF KindAgrees
    <3>6. host.req.name = "set_feature_ep" => eps'[e].dt = host.dt[e]
      BY <1>4, <2>1, <2>5
    <3> QED BY <3>4, <3>5, <3>6
  <2> QED BY <2>3, <2>4, <2>5
<1>9. CASE SetInterface
  <2>1. PICK t \in FindIntf(st.conf, ctl.setup.index, ctl.setup.value) : Reconf(t)
    BY <1>9 DEF SetInterface
  <2>2. ctl.setup.name = "set_interface"
    BY <1>9 DEF SetInterface, Handle
  <2>3. host.req = ctl.setup /\ host.req.name = "set_interface"
    BY <2>2, RoomParts
  <2>4. st.conf = host.conf
    BY <1>5, <2>3 DEF SelectedOK, Selects
  <2>5. t \in Desc[host.conf] /\ t.intf = host.req.index
    BY <1>5, <2>1, <2>3, <2>4, FoundSetting
  <2>6. ~Refused(host.req)
    BY <2>1, <2>3, <2>4 DEF Refused, Halts
  <2>7. ~Refused(host.req)' /\ ~Halts(host.req)
    BY <2>3, <2>6 DEF Refused, Halts
  <2>8. ASSUME Unaffected(e)' PROVE eps'[e] = eps[e] /\ Unaffected(e)
    <3>1. e \notin Affected(host.req)
      BY <1>2, <2>7, <2>8 DEF Unaffected
    <3>2. s.intf # host.req.index
      BY <2>3, <3>1 DEF Affected
    <3>3. e \notin DOMAIN t.ep
      BY <1>5, <2>5, <3>2, SettingAssumption
    <3>4. eps'[e] = eps[e]
      BY <1>5, <2>1, <2>5, <3>3, RoomParts, TypeParts, ReconfFresh
    <3> QED BY <3>1, <3>4 DEF Unaffected
  <2>9. Unaffected(e)' => Agrees(s, e)'
    BY <1>6, <2>8
  <2> QED BY <2>3, <2>7, <2>9
<1>10. CASE EpBoot \/ DispatchSetIntf
  <2>1. Selects(host.req)
    BY <1>10 DEF EpBoot, DispatchSetIntf, Configuring
  <2>2. e \in Affected(host.req)
    BY <1>5, <2>1 DEF Affected, Selects
  <2>3. ~Refused(host.req)' /\ ~Halts(host.req)
    BY <2>1 DEF Refused, Selects, Halts
  <2>4. ~Unaffected(e)'
    BY <1>2, <2>2, <2>3 DEF Unaffected
  <2> QED BY <2>1, <2>3, <2>4 DEF Selects
<1> QED BY <1>7, <1>8, <1>9, <1>10, FirmwareEps

\* The configuration and the settings that are selected.
LEMMA SelectedFirmware ==
  ASSUME RoomInv, SelectedOK, Firmware, UNCHANGED host,
         ctl.setup # NoReq => ctl.setup = host.req,
         ResetEp0 => host.confs = 0,
         SetConfiguration \/ fw.pc \in Configuring => Selects(host.req) /\ ctl.setup # NoReq
  PROVE  SelectedOK'
<1> SUFFICES ASSUME host.confs # 0, ~Selects(host.req)
             PROVE  /\ st'.conf = host.conf
                    /\ \A i \in Intf : host.alt[i] = AltOf(i)' \/ Selecting(i)'
  BY DEF SelectedOK, Selects
<1>1. /\ st.conf = host.conf
      /\ \A i \in Intf : host.alt[i] = AltOf(i) \/ Selecting(i)
  BY DEF SelectedOK
<1>2. st'.conf = host.conf
  BY <1>1, RoomParts, FirmwareState
<1>3. ~(ResetEp0 \/ SetConfiguration \/ DispatchSetConf \/ DispatchSetIntf)
  BY DEF DispatchSetConf, DispatchSetIntf, Configuring
<1>4. CASE SetInterface
  <2>1. PICK t \in FindIntf(st.conf, ctl.setup.index, ctl.setup.value) :
          /\ drv' = ToldIntf(t)
          /\ st' = [st EXCEPT !.intf_alt = AltSet(@, t),
                              !.rt = IF t.intf = RtIntf THEN t.intf ELSE @]
    BY <1>4 DEF SetInterface
  <2>2. ctl.setup.name = "set_interface"
    BY <1>4 DEF SetInterface, Handle
  <2>3. host.req = ctl.setup /\ host.req.name = "set_interface"
    BY <2>2, RoomParts
  <2>4. t.intf = host.req.index
    BY <2>1, <2>3, RoomParts, TypeParts, FoundSetting DEF Stack
  <2>5. ~Refused(host.req)'
    BY <1>1, <2>1, <2>3 DEF Refused, Halts
  <2>6. \A i \in Intf : i = t.intf => Selecting(i)'
    BY <2>3, <2>4, <2>5 DEF Selecting
  <2>7. ASSUME NEW i \in Intf, i # t.intf PROVE host.alt[i] = AltOf(i)'
    <3>1. host.alt[i] = AltOf(i)
      BY <1>1, <2>4, <2>7 DEF Selecting
    <3>2. drv'.alt[i] = drv.alt[i]
      <4>1. drv'.alt = [drv.alt EXCEPT ![t.intf] = t.alt]
        BY <2>1, TypeParts, RoomParts DEF ToldIntf, Drivers
      <4> QED BY <2>7, <4>1, TypeParts, RoomParts DEF Drivers
    <3>3. i \in st'.intf_alt <=> i \in st.intf_alt
      <4>1. st'.intf_alt = AltSet(st.intf_alt, t)
        BY <2>1, TypeParts, RoomParts DEF Stack
      <4> QED BY <2>7, <4>1 DEF AltSet
    <3> QED BY <3>1, <3>2, <3>3 DEF AltOf
  <2> QED BY <1>2, <2>6, <2>7
<1>5. CASE drv'.alt = drv.alt /\ st'.intf_alt = st.intf_alt
  <2>1. \A i \in Intf : AltOf(i)' = AltOf(i)
    BY <1>5 DEF AltOf
  <2>2. Halts(host.req) => host.req.name # "set_interface"
    BY DEF Halts
  <2>3. \A i \in Intf : Selecting(i) => Selecting(i)'
    BY DEF Selecting, Refused, Halts
  <2> QED BY <1>1, <1>2, <2>1, <2>3
<1> QED BY <1>3, <1>4, <1>5, RoomParts, FirmwareAlt

\* A request that is carried out.
LEMMA AcceptedFirmware ==
  ASSUME RoomInv, RoomInv', SelectionMade, SelectedOK, AcceptedOK, Firmware, UNCHANGED host,
         ~HwReset, ctl.setup # NoReq => ctl.setup = host.req,
         ResetEp0 => host.confs = 0,
         SetConfiguration \/ fw.pc \in Configuring => Selects(host.req) /\ ctl.setup # NoReq
  PROVE  AcceptedOK'
<1> DEFINE r == host.req
<1> SUFFICES ASSUME r # NoReq, ctl'.setup = NoReq, ctl'.req = r, ctl'.phase = "answer"
             PROVE  Carried(r)'
  BY DEF AcceptedOK, Accepted
<1>1. CASE UNCHANGED ctl
  <2>1. Carried(r)
    BY <1>1 DEF AcceptedOK, Accepted
  <2>2. fw.pc \notin Configuring /\ ~SetConfiguration
    BY <1>1
  <2>3. ~Requests
    <3>1. ASSUME NEW name \in RequestName, Handle(name) PROVE FALSE
      BY <1>1, <3>1, RoomParts, TypeParts, HandleType
    <3> QED BY <3>1 DEF Requests, GetStatusDev, GetStatusIntf, GetStatusEp, SetFeatureEp,
         ClearFeatureEp, SetAddress, GetConfiguration, SetConfiguration,
         SetConfigurationRefused, GetInterface, SetInterface, SetInterfaceRefused,
         GetDescriptor, OtherFeature, DfuDetach, DfuGetStatus, RequestName
  <2>4. ~(DispatchSetConf \/ DispatchSetIntf \/ EpBoot)
    BY <2>2 DEF DispatchSetConf, DispatchSetIntf, EpBoot, Configuring
  <2>5. UNCHANGED eps
    BY <2>3, <2>4, FirmwareEps DEF Requests
  <2>6. ~ResetEp0
    <3>1. ResetEp0 => ctl'.req = NoReq
      BY IdleType DEF ResetEp0
    <3> QED BY <3>1
  <2>7. drv'.alt = drv.alt /\ st'.intf_alt = st.intf_alt /\ st'.conf = st.conf
    BY <2>2, <2>3, <2>4, <2>6, RoomParts, FirmwareAlt, FirmwareState DEF Requests
  <2> QED BY <2>1, <2>5, <2>7 DEF Carried, Refused, Halts, Fresh, KindAgrees, AltOf, Selects
<1>2. CASE /\ ctl.setup # NoReq /\ AnswerTo(ctl.setup)
           /\ Requests \/ Configured \/ NullEnds
  <2>1. ctl.setup = r /\ AnswerTo(r) /\ Sound(r)
    BY <1>2, RoomParts, TypeParts DEF RequestsOK
  <2>2. ASSUME Selects(r)
        PROVE  /\ st'.conf = r.value /\ st'.intf_alt = {}
               /\ r.value # NoConf => \A s \in Desc[r.value] : s.alt = 0 => Fresh(s)'
    <3>1. Configured \/ NullEnds
      BY <2>1, <2>2 DEF AnswerTo, Selects
    <3>2. fw.pc \in Configuring /\ UNCHANGED <<eps, st, drv>>
      BY <3>1 DEF Configured, NullEnds, Configuring
    <3>3. st.conf = r.value /\ st.intf_alt = {}
      BY <2>1, <3>2, RoomParts, TypeParts DEF ConfiguringOK, SelectionMade
    <3>4. ASSUME r.value # NoConf, NEW s \in Desc[r.value], s.alt = 0 PROVE Fresh(s)'
      <4>1. Configured
        BY <3>1, <3>3, <3>4 DEF NullEnds, SelectionMade
      <4>2. fw.pc = "set_intf" /\ fw.todo = {}
        BY <4>1 DEF Configured
      <4>3. Fresh(s)
        BY <3>3, <3>4, <4>2 DEF SelectionMade
      <4> QED BY <3>2, <4>3 DEF Fresh, KindAgrees
    <3> QED BY <3>2, <3>3, <3>4
  <2>3. ASSUME r.name = "set_interface"
        PROVE  /\ ~Refused(r)' /\ AltOf(r.index)' = r.value
               /\ \A s \in FindIntf(host.conf, r.index, r.value) : Fresh(s)'
    <3>1. SetInterface
      BY <2>1, <2>3 DEF AnswerTo
    <3>2. PICK t \in FindIntf(st.conf, r.index, r.value) :
            /\ Reconf(t) /\ drv' = ToldIntf(t)
            /\ st' = [st EXCEPT !.intf_alt = AltSet(@, t),
                                !.rt = IF t.intf = RtIntf THEN t.intf ELSE @]
      BY <2>1, <3>1 DEF SetInterface
    <3>3. host.confs # 0
      BY <2>3, RoomParts DEF HostOK
    <3>4. st.conf = host.conf
      BY <2>3, <3>3 DEF SelectedOK, Selects
    <3>5. /\ t.intf = r.index /\ t.alt = r.value /\ st.conf \in Conf /\ t \in Desc[st.conf]
          /\ \A s \in FindIntf(host.conf, r.index, r.value) : s = t
      <4>1. st.conf \in Conf \cup {NoConf}
        BY RoomParts, TypeParts DEF Stack
      <4>2. \A s \in FindIntf(st.conf, r.index, r.value) :
              /\ st.conf \in Conf /\ s \in Desc[st.conf]
              /\ s.intf = r.index /\ s.alt = r.value
        BY <4>1, FoundSetting
      <4>3. \A s, u \in FindIntf(st.conf, r.index, r.value) : s = u
        BY <4>1, FoundSetting
      <4> QED BY <3>2, <3>4, <4>2, <4>3
    <3>6. ~Refused(r)'
      BY <2>3, <3>2, <3>4 DEF Refused, Halts
    <3>7. Fresh(t)'
      BY <3>2, <3>5, RoomParts, TypeParts, ReconfFresh
    <3>8. AltOf(r.index)' = r.value
      <4>1. r.index \in Intf
        BY <2>1, <2>3 DEF Sound
      <4>2. drv'.alt = [drv.alt EXCEPT ![t.intf] = t.alt]
        BY <3>2, TypeParts, RoomParts DEF ToldIntf, Drivers
      <4>3. drv'.alt[r.index] = r.value
        BY <3>5, <4>1, <4>2, TypeParts, RoomParts DEF Drivers
      <4>4. st'.intf_alt = AltSet(st.intf_alt, t)
        BY <3>2, TypeParts, RoomParts DEF Stack
      <4>5. r.value # 0 => r.index \in st'.intf_alt
        BY <3>5, <4>4 DEF AltSet
      <4> QED BY <4>3, <4>5 DEF AltOf
    <3> QED BY <3>5, <3>6, <3>7, <3>8
  <2>4. ASSUME Halts(r)
        PROVE  /\ r.name = "set_feature_ep" => eps'[r.index].halt
               /\ r.name = "clear_feature_ep" => ~eps'[r.index].halt /\ eps'[r.index].dt = 0
    <3>1. SetFeatureEp \/ ClearFeatureEp
      BY <2>1, <2>4 DEF AnswerTo
    <3>2. CanHalt(r.index)
      BY <2>1, <2>4 DEF AnswerTo
    <3> QED BY <2>1, <3>1, <3>2, RoomParts, HaltEffect
  <2> QED BY <2>2, <2>3, <2>4 DEF Carried, Halts, Selects
<1>3. CASE ctl'.req = NoReq
  BY <1>3
<1> QED BY <1>1, <1>2, <1>3, RoomParts, NoAnswer, IdleType

\* The settings that a request is about are there.
LEMMA AskedFound ==
  ASSUME RoomInv, AskedOK, UsedOK, SelectedOK
  PROVE  /\ host.req.name \in {"get_status_ep", "set_feature_ep", "clear_feature_ep",
                               "get_interface", "set_interface", "dfu_detach",
                               "dfu_getstatus"} =>
              host.confs # 0 /\ host.conf # NoConf /\ st.conf = host.conf
         /\ host.req.name = "get_status_ep" =>
              LET e == host.req.index
              IN /\ eps[e].type \in {"bci", "isoc"}
                 /\ eps[e].halt = (e \in host.halted) /\ (eps[e].halt => eps[e].type = "bci")
         /\ Halts(host.req) => eps[host.req.index].type \in {"bci", "isoc"}
         /\ host.req.name = "get_interface" => FindIntf(st.conf, host.req.index, 0) # {}
<1> DEFINE r == host.req
<1>1. r.name \in {"get_status_ep", "set_feature_ep", "clear_feature_ep",
                  "get_interface", "set_interface", "dfu_detach", "dfu_getstatus"} =>
        host.confs # 0 /\ host.conf # NoConf /\ st.conf = host.conf
  <2>1. SUFFICES ASSUME r.name \in {"get_status_ep", "set_feature_ep", "clear_feature_ep",
                   "get_interface", "set_interface", "dfu_detach", "dfu_getstatus"}
                 PROVE  host.confs # 0 /\ host.conf # NoConf /\ st.conf = host.conf
    OBVIOUS
  <2>2. Settings # {}
    BY <2>1 DEF AskedOK, InUse
  <2>3. ~Selects(r)
    BY <2>1 DEF Selects
  <2> QED BY <2>2, <2>3, RoomParts, SettingsSelected DEF SelectedOK
<1>2. ASSUME r.name \in {"get_status_ep", "set_feature_ep", "clear_feature_ep"}
      PROVE  /\ eps[r.index].type \in {"bci", "isoc"}
             /\ r.name = "get_status_ep" => eps[r.index].halt = (r.index \in host.halted)
  <2>1. PICK s \in Settings : r.index \in DOMAIN s.ep
    BY <1>2 DEF AskedOK, InUse
  <2>2. KindAgrees(s, r.index)
    <3>1. CASE Halts(r)
      BY <2>1, <3>1 DEF UsedOK
    <3>2. CASE r.name = "get_status_ep"
      <4>1. Unaffected(r.index)
        BY <3>2 DEF Unaffected, Affected
      <4> QED BY <2>1, <4>1 DEF UsedOK, Agrees
    <3> QED BY <1>2, <3>1, <3>2 DEF Halts
  <2>3. s.ep[r.index].type \in {"bci", "isoc"}
    <3>1. host.conf \in Conf /\ s \in Desc[host.conf]
      BY <2>1, RoomParts, InUseType
    <3> QED BY <2>1, <3>1, SettingType DEF EpDesc
  <2>4. r.name = "get_status_ep" => eps[r.index].halt = (r.index \in host.halted)
    <3>1. r.name = "get_status_ep" => Unaffected(r.index)
      BY DEF Unaffected, Affected
    <3> QED BY <2>1, <3>1 DEF UsedOK, Agrees
  <2> QED BY <2>2, <2>3, <2>4 DEF KindAgrees
<1>3. ASSUME r.name = "get_status_ep"
      PROVE  eps[r.index].halt => eps[r.index].type = "bci"
  <2>1. r.index \in Ep
    BY <1>3, RoomParts, InUseType DEF AskedOK
  <2> QED BY <2>1, RoomParts, TypeParts DEF EpsOK
<1>4. ASSUME r.name = "get_interface" PROVE FindIntf(st.conf, r.index, 0) # {}
  <2>1. PICK s \in Settings : s.intf = r.index
    BY <1>4 DEF AskedOK
  <2>2. host.conf \in Conf /\ s \in Desc[host.conf] /\ st.conf = host.conf
        /\ host.conf # NoConf
    BY <1>1, <1>4, <2>1, RoomParts, InUseType
  <2>3. PICK b \in Desc[host.conf] : b.intf = s.intf /\ b.alt = 0
    BY <2>2, DescAssumption
  <2>4. b \in FindIntf(st.conf, r.index, 0)
    BY <2>1, <2>2, <2>3 DEF FindIntf
  <2> QED BY <2>4
<1> QED BY <1>1, <1>2, <1>3, <1>4 DEF Halts

\* What is answered is true.
LEMMA AnswersFirmware ==
  ASSUME RoomInv, RoomInv', SelectionMade, AskedOK, StallOK, UsedOK, SelectedOK, UnreadOK,
         Firmware, UNCHANGED host, ~HwReset, Handled,
         ctl.setup # NoReq => ctl.setup = host.req,
         SetConfiguration \/ fw.pc \in Configuring => Selects(host.req) /\ ctl.setup # NoReq
  PROVE  UnreadOK'
<1> DEFINE r == host.req
<1>1. ASSUME ctl'.req = NoReq PROVE UnreadOK'
  BY <1>1 DEF UnreadOK, Unread
<1>2. CASE UNCHANGED ctl
  <2>1. Unread' = Unread
    BY <1>2 DEF Unread
  <2>2. ASSUME r # NoReq, ctl.req = r PROVE AnswerOK(r)'
    <3>1. AnswerOK(r)
      BY <2>2 DEF UnreadOK
    <3>2. Refused(r) => Refused(r)'
      <4>1. Halts(r) => r.index \in Ep
        BY <2>2, RoomParts, TypeParts DEF RequestsOK, Sound, Halts
      <4>2. ASSUME Halts(r) PROVE eps'[r.index].type = eps[r.index].type
        <5>1. ~SetInterface
          BY <2>2, <4>2, RoomParts DEF SetInterface, Handle, Halts
        <5>2. ~EpBoot /\ ~DispatchSetIntf
          BY <4>2 DEF EpBoot, DispatchSetIntf, Configuring, Halts, Selects
        <5>3. SetFeatureEp \/ ClearFeatureEp => eps'[r.index].type = eps[r.index].type
          BY <4>1, <4>2, RoomParts, TypeParts, HaltType
        <5> QED BY <5>1, <5>2, <5>3, FirmwareEps
      <4> QED BY <4>2 DEF Refused, Halts
    <3> QED BY <1>2, <3>1, <3>2 DEF AnswerOK
  <2> QED BY <1>2, <2>1, <2>2 DEF UnreadOK
<1>3. CASE /\ ctl.setup # NoReq /\ AnswerTo(ctl.setup)
           /\ Requests \/ Configured \/ NullEnds
  <2>1. ctl.setup = r /\ AnswerTo(r) /\ Sound(r) /\ ctl'.req = r
    BY <1>3, RoomParts, TypeParts DEF RequestsOK, AnswerTo
  <2>2. /\ r.name \in {"get_status_ep", "set_feature_ep", "clear_feature_ep",
                       "get_interface", "set_interface", "dfu_detach", "dfu_getstatus"} =>
             host.confs # 0 /\ host.conf # NoConf /\ st.conf = host.conf
        /\ r.name = "get_status_ep" =>
             LET e == r.index
             IN /\ eps[e].type \in {"bci", "isoc"}
                /\ eps[e].halt = (e \in host.halted) /\ (eps[e].halt => eps[e].type = "bci")
        /\ Halts(r) => eps[r.index].type \in {"bci", "isoc"}
        /\ r.name = "get_interface" => FindIntf(st.conf, r.index, 0) # {}
    BY AskedFound
  <2>3. ASSUME ctl'.phase = "answer"
        PROVE  /\ r.name = "get_configuration" /\ host.confs # 0 => ctl'.data = host.conf
               /\ r.name = "get_interface" => ctl'.data = host.alt[r.index]
               /\ r.name = "get_status_ep" =>
                    ctl'.data = IF r.index \in host.halted THEN 1 ELSE 0
    <3>1. r.name = "get_configuration" /\ host.confs # 0 => ctl'.data = host.conf
      BY <2>1 DEF AnswerTo, SelectedOK, Selects
    <3>2. r.name = "get_interface" => ctl'.data = host.alt[r.index]
      <4>1. SUFFICES ASSUME r.name = "get_interface" PROVE ctl'.data = host.alt[r.index]
        OBVIOUS
      <4>2. ctl'.data = AltOf(r.index)
        BY <2>1, <2>2, <4>1 DEF AnswerTo
      <4>3. PICK s \in Settings : s.intf = r.index
        BY <4>1 DEF AskedOK
      <4>4. r.index \in Intf
        BY <4>3, RoomParts, InUseType
      <4> QED BY <2>2, <4>1, <4>2, <4>4 DEF SelectedOK, Selects, Selecting
    <3>3. r.name = "get_status_ep" => ctl'.data = IF r.index \in host.halted THEN 1 ELSE 0
      BY <2>1, <2>2 DEF AnswerTo
    <3> QED BY <3>1, <3>2, <3>3
  <2>4. ASSUME ctl'.phase = "stall"
        PROVE  /\ r.name \in {"set_configuration", "set_interface", "set_feature_ep",
                              "clear_feature_ep"} => Refused(r)'
               /\ r.name \notin {"get_status_ep", "get_interface", "dfu_detach",
                                 "dfu_getstatus"}
    <3>1. r.name = "set_configuration" => Refused(r)'
      BY <2>1, <2>4 DEF AnswerTo, Refused, Sound, Halts
    <3>2. r.name = "set_interface" => Refused(r)'
      BY <2>1, <2>2, <2>4 DEF AnswerTo, Refused
    <3>3. Halts(r) => Refused(r)'
      <4>1. SUFFICES ASSUME Halts(r) PROVE eps'[r.index].type # "bci"
        BY DEF Refused, Halts
      <4>2. ~CanHalt(r.index)
        BY <2>1, <2>4, <4>1 DEF AnswerTo
      <4>3. r.index \in Ep /\ UNCHANGED eps
        BY <2>1, <4>1, <4>2, RoomParts, HaltEffect DEF AnswerTo
      <4>4. Told(st) \in {"configured", "suspended"}
        <5>1. ~Selects(r) /\ host.conf # NoConf
          BY <2>2, <4>1 DEF Halts, Selects
        <5>2. st.state = "configured"
          BY <5>1, RoomParts DEF ConfiguredOK
        <5> QED BY <5>2 DEF Told
      <4> QED BY <4>2, <4>3, <4>4 DEF CanHalt
    <3>4. r.name \notin {"get_status_ep", "get_interface"}
      BY <2>1, <2>2, <2>4 DEF AnswerTo
    <3>5. r.name \notin {"dfu_detach", "dfu_getstatus"}
      <4>1. SUFFICES ASSUME r.name \in {"dfu_detach", "dfu_getstatus"} PROVE FALSE
        OBVIOUS
      <4>2. PICK s \in Settings : s.intf = r.index
        BY <4>1 DEF AskedOK
      <4>3. r.index = RtIntf /\ st.conf = host.conf /\ s \in Desc[st.conf]
        BY <2>2, <4>1, <4>2, RoomParts, InUseType DEF AskedOK
      <4>4. st.state = "configured"
        BY <2>2, <4>1, RoomParts DEF ConfiguredOK, Selects
      <4>5. fw.pc \notin Configuring
        BY <4>1 DEF Selects
      <4>6. fw.pc # "set_conf" /\ Undone = {}
        BY <4>5 DEF Undone, Configuring
      <4>7. st.rt = RtIntf
        BY <4>2, <4>3, <4>4, <4>6 DEF SelectionMade
      <4> QED BY <2>1, <2>4, <4>1, <4>3, <4>7 DEF AnswerTo
    <3> QED BY <3>1, <3>2, <3>3, <3>4, <3>5 DEF Halts
  <2>5. AnswerOK(r)'
    BY <2>3, <2>4 DEF AnswerOK
  <2> QED BY <2>1, <2>5 DEF UnreadOK
<1> QED BY <1>1, <1>2, <1>3, RoomParts, NoAnswer, IdleType

\* What is never refused, whatever the session.
LEMMA StallFirmware ==
  ASSUME TypeInv, StallOK, Firmware
  PROVE  StallOK'
<1>1. CASE UNCHANGED ctl
  BY <1>1 DEF StallOK
<1>2. CASE ctl'.req = NoReq
  BY <1>2, IdleType DEF StallOK
<1>3. CASE AnswerTo(ctl.setup)
  BY <1>3 DEF StallOK, AnswerTo
<1>4. CASE HwReset
  BY <1>4, IdleType DEF HwReset, StallOK
<1> QED BY <1>1, <1>2, <1>3, <1>4, NoAnswer, IdleType

\* A step of the firmware keeps what is agreed on.
LEMMA AgreeFirmware ==
  ASSUME RoomInv, RoomInv', AgreeOK, Firmware, UNCHANGED host
  PROVE  AgreeOK'
<1>1. SelectionMade' /\ StallOK'
  <2>1. TypeInv'
    BY DEF RoomInv, SessionInv
  <2> QED BY <2>1, RoomParts, SelectionFirmware, StallFirmware DEF AgreeOK
<1>2. AskedOK'
  <2>1. Settings' = Settings /\ InUse' = InUse
    BY DEF Settings, InUse
  <2> QED BY <2>1 DEF AgreeOK, AskedOK
<1>3. ASSUME Handled' PROVE InSession'
  <2>1. CASE /\ Handled /\ ~HwReset /\ ~ResetAr
             /\ ctl.setup # NoReq => ctl.setup = host.req
             /\ ResetEp0 => host.confs = 0
             /\ SetConfiguration \/ fw.pc \in Configuring =>
                  Selects(host.req) /\ ctl.setup # NoReq
    <3>1. /\ SelectionMade /\ AskedOK /\ StallOK /\ UsedOK /\ SelectedOK /\ AcceptedOK
          /\ UnreadOK
      BY <2>1 DEF AgreeOK, InSession
    <3>2. UsedOK'
      BY <2>1, <3>1, UsedFirmware
    <3>3. SelectedOK'
      BY <2>1, <3>1, SelectedFirmware
    <3>4. AcceptedOK'
      BY <2>1, <3>1, AcceptedFirmware
    <3>5. UnreadOK'
      BY <2>1, <3>1, AnswersFirmware
    <3> QED BY <3>2, <3>3, <3>4, <3>5 DEF InSession
  <2> QED BY <1>3, <2>1, FirmwareSession
<1> QED BY <1>1, <1>2, <1>3 DEF AgreeOK

-----------------------------------------------------------------------------
(* The steps of the host and of the bus.                                   *)

\* What a new request is about.
LEMMA RequestAsked ==
  ASSUME TypeInv, NEW r \in HostRequest
  PROVE  /\ r.name \in {"get_status_ep", "set_feature_ep", "clear_feature_ep"} =>
              r.index \in InUse
         /\ r.name \in {"get_interface", "set_interface", "dfu_detach", "dfu_getstatus"} =>
              \E s \in Settings : s.intf = r.index
         /\ r.name \in {"dfu_detach", "dfu_getstatus"} => r.index = RtIntf
<1>1. \/ r = Req("get_configuration", 0, 0)
      \/ \E n \in {"get_status_dev", "other_feature"} : r = Req(n, 0, 0)
      \/ \E d \in Descriptor \cup {0} : r = Req("get_descriptor", 0, d)
      \/ \E a \in Address : r = Req("set_address", 0, a)
      \/ \E c \in Conf \cup {NoConf, BadConf} : r = Req("set_configuration", 0, c)
      \/ \E n \in {"get_status_intf", "get_interface"}, s \in Settings : r = Req(n, s.intf, 0)
      \/ \E n \in {"dfu_detach", "dfu_getstatus"}, s \in Settings :
           s.intf = RtIntf /\ r = Req(n, s.intf, 0)
      \/ \E s \in Settings, a \in Alt : r = Req("set_interface", s.intf, a)
      \/ \E n \in {"get_status_ep", "clear_feature_ep", "set_feature_ep"}, e \in InUse :
            r = Req(n, e, 0)
  BY Z3 DEF HostRequest
<1>2. CASE r = Req("get_configuration", 0, 0)
  BY <1>2 DEF Req
<1>3. CASE \E n \in {"get_status_dev", "other_feature"} : r = Req(n, 0, 0)
  BY <1>3 DEF Req
<1>4. CASE \E d \in Descriptor \cup {0} : r = Req("get_descriptor", 0, d)
  BY <1>4 DEF Req
<1>5. CASE \E a \in Address : r = Req("set_address", 0, a)
  BY <1>5 DEF Req
<1>6. CASE \E c \in Conf \cup {NoConf, BadConf} : r = Req("set_configuration", 0, c)
  BY <1>6 DEF Req
<1>7. CASE \E n \in {"get_status_intf", "get_interface"}, s \in Settings : r = Req(n, s.intf, 0)
  BY <1>7 DEF Req
<1>8. CASE \E n \in {"dfu_detach", "dfu_getstatus"}, s \in Settings :
             s.intf = RtIntf /\ r = Req(n, s.intf, 0)
  BY <1>8 DEF Req
<1>9. CASE \E s \in Settings, a \in Alt : r = Req("set_interface", s.intf, a)
  BY <1>9 DEF Req
<1>10. CASE \E n \in {"get_status_ep", "clear_feature_ep", "set_feature_ep"}, e \in InUse :
              r = Req(n, e, 0)
  BY <1>10 DEF Req
<1> QED BY <1>1, <1>2, <1>3, <1>4, <1>5, <1>6, <1>7, <1>8, <1>9, <1>10

\* A request is sent, for the first time or again.
LEMMA AgreeSend ==
  ASSUME RoomInv, RoomInv', AgreeOK, SendSetup
  PROVE  AskedOK' /\ StallOK' /\ (Handled' => InSession')
<1>1. PICK r \in IF host.req = NoReq THEN HostRequest ELSE {host.req} :
        /\ SetupReceived(host.addr, r)
        /\ host' = [host EXCEPT !.req = r, !.confs = IF Selects(r) THEN @ + 1 ELSE @]
  BY DEF SendSetup, Selects
<1>2. Sound(r) /\ r # NoReq
  BY <1>1, RoomParts, TypeParts, HostRequestSound DEF RequestsOK, TypeInv
<1>3. /\ ctl'.setup = r /\ ctl'.req = ctl.req /\ ctl'.phase = ctl.phase /\ ctl'.data = ctl.data
  <2>1. ctl' = [ctl EXCEPT !.setup = r]
    BY <1>1 DEF SetupReceived
  <2> QED BY <2>1, RoomParts, TypeParts DEF Control
<1> DEFINE n == IF Selects(r) THEN host.confs + 1 ELSE host.confs
<1>4. /\ host'.req = r /\ host'.conf = host.conf /\ host'.alt = host.alt /\ host'.dt = host.dt
      /\ host'.halted = host.halted /\ host'.confs = n /\ host'.stage = host.stage
  <2>1. host' = [host EXCEPT !.req = r, !.confs = n]
    BY <1>1
  <2> HIDE DEF n
  <2> QED BY <2>1, RoomParts, HostFields DEF HostState
<1>5. ~Selects(r) => host'.confs = host.confs
  BY <1>4
<1> HIDE DEF n
<1>6. UNCHANGED <<eps, st, fw, drv>>
  BY DEF SendSetup
<1>7. host.req # NoReq => r = host.req
  BY <1>1
<1>8. Settings' = Settings /\ InUse' = InUse
  BY <1>4 DEF Settings, InUse
<1>9. AskedOK'
  <2>1. CASE host.req = NoReq
    BY <1>1, <1>4, <1>8, <2>1, RoomParts, RequestAsked DEF AskedOK
  <2>2. CASE host.req # NoReq
    BY <1>4, <1>7, <1>8, <2>2 DEF AgreeOK, AskedOK
  <2> QED BY <2>1, <2>2
<1>10. StallOK'
  BY <1>3 DEF AgreeOK, StallOK
<1>11. ASSUME Handled' PROVE InSession'
  <2>1. Handled
    <3>1. core'.pend = core.pend
      BY RoomParts, SendSetupHost
    <3> QED BY <1>4, <1>11, <3>1 DEF Handled
  <2>2. UsedOK /\ SelectedOK /\ UnreadOK
    BY <2>1 DEF AgreeOK, InSession
  <2>3. Affected(r)' = Affected(r) /\ Refused(r)' = Refused(r) /\ Affected(NoReq) = {}
    <3>1. Affected(r)' = Affected(r)
      BY <1>8 DEF Affected
    <3>2. Refused(r)' = Refused(r)
      BY <1>4, <1>6 DEF Refused, Halts
    <3>3. Affected(NoReq) = {}
      BY DEF Affected, NoReq
    <3> QED BY <3>1, <3>2, <3>3
  <2>4. UsedOK'
    <3> SUFFICES ASSUME NEW s \in Settings, NEW e \in DOMAIN s.ep
                 PROVE  /\ Unaffected(e)' => Agrees(s, e)'
                        /\ Halts(r) => KindAgrees(s, e)'
                        /\ r.name = "set_feature_ep" => eps'[e].dt = host'.dt[e]
      BY <1>4, <1>8 DEF UsedOK, Halts
    <3>1. /\ Agrees(s, e)' <=> Agrees(s, e)
          /\ KindAgrees(s, e)' <=> KindAgrees(s, e)
      BY <1>4, <1>6 DEF Agrees, KindAgrees
    <3>2. CASE host.req = NoReq
      <4>1. Agrees(s, e)
        BY <2>2, <2>3, <3>2 DEF UsedOK, Unaffected
      <4> QED BY <1>4, <1>6, <3>1, <4>1 DEF Agrees
    <3>3. CASE host.req # NoReq
      <4>1. Unaffected(e)' => Unaffected(e)
        BY <1>4, <1>7, <2>3, <3>3 DEF Unaffected
      <4> QED BY <1>4, <1>6, <1>7, <2>2, <3>1, <3>3, <4>1 DEF UsedOK
    <3> QED BY <3>2, <3>3
  <2>5. SelectedOK'
    <3> SUFFICES ASSUME host'.confs # 0, ~Selects(r)
                 PROVE  /\ st.conf = host.conf
                        /\ \A i \in Intf : host.alt[i] = AltOf(i) \/ Selecting(i)'
      BY <1>4, <1>6 DEF SelectedOK, AltOf, Selects
    <3>1. ~Selects(host.req)
      BY <1>7, RoomParts
    <3>2. st.conf = host.conf /\ \A i \in Intf : host.alt[i] = AltOf(i) \/ Selecting(i)
      BY <1>5, <2>2, <3>1 DEF SelectedOK
    <3>3. ASSUME NEW i \in Intf, Selecting(i) PROVE Selecting(i)'
      <4>1. host.req # NoReq
        BY <3>3, RoomParts DEF Selecting
      <4> QED BY <1>4, <1>7, <2>3, <3>3, <4>1 DEF Selecting
    <3> QED BY <3>2, <3>3
  <2>6. AcceptedOK'
    BY <1>2, <1>3 DEF AcceptedOK, Accepted
  <2>7. UnreadOK'
    <3>1. Unread' = Unread
      BY <1>3 DEF Unread
    <3>2. Unread' => ctl'.req = r
      BY <1>3, <1>7, <2>2, <3>1 DEF UnreadOK, Unread
    <3>3. ASSUME ctl.req = r PROVE AnswerOK(r)'
      <4>1. CASE host.req # NoReq
        <5>1. AnswerOK(r)
          BY <1>7, <2>2, <3>3, <4>1 DEF UnreadOK
        <5>2. r.name = "get_configuration" => host'.confs = host.confs
          BY <1>5 DEF Selects
        <5> QED BY <1>3, <1>4, <2>3, <5>1, <5>2 DEF AnswerOK
      <4>2. CASE host.req = NoReq
        <5>1. ~Unread
          BY <1>2, <2>2, <3>3, <4>2 DEF UnreadOK
        <5>2. ctl.phase # "stall" /\ ~(ctl.phase = "answer" /\ Read(r))
          BY <1>2, <3>3, <5>1 DEF Unread
        <5> QED BY <1>3, <5>2 DEF AnswerOK, Read
      <4> QED BY <4>1, <4>2
    <3> QED BY <1>3, <1>4, <3>2, <3>3 DEF UnreadOK
  <2> QED BY <2>4, <2>5, <2>6, <2>7 DEF InSession
<1> QED BY <1>9, <1>10, <1>11


\* A flag that is off, and an element that is not in a set.
LEMMA BothOff ==
  ASSUME NEW b \in BOOLEAN, ~b, NEW a, NEW S, a \notin S
  PROVE  b = (a \in S)
<1>1. b = FALSE
  OBVIOUS
<1>2. (a \in S) = FALSE
  OBVIOUS
<1> QED BY <1>1, <1>2

\* What a request that is complete changes of what the host believes.
LEMMA LearnFields ==
  ASSUME TypeInv, Complete \/ CompleteAckLost
  PROVE  LET r == host.req
             new == UNION {DOMAIN s.ep : s \in FindIntf(host.conf, r.index, r.value)}
         IN /\ \/ ctl.phase = "stall"
               \/ r.name # "set_configuration" /\ r.name # "set_interface" /\ ~Halts(r)
               =>
                 host'.alt = host.alt /\ host'.dt = host.dt /\ host'.halted = host.halted
            /\ ctl.phase = "answer" /\ r.name = "set_configuration" =>
                 /\ host'.alt = [i \in Intf |-> 0] /\ host'.dt = [e \in Ep |-> 0]
                 /\ host'.halted = {}
            /\ ctl.phase = "answer" /\ r.name = "set_interface" =>
                 /\ host'.alt = [host.alt EXCEPT ![r.index] = r.value]
                 /\ host'.dt = [e \in Ep |-> IF e \in new THEN 0 ELSE host.dt[e]]
                 /\ host'.halted = host.halted \ new
            /\ ctl.phase = "answer" /\ r.name = "set_feature_ep" =>
                 /\ host'.alt = host.alt /\ host'.dt = host.dt
                 /\ host'.halted = host.halted \cup {r.index}
            /\ ctl.phase = "answer" /\ r.name = "clear_feature_ep" =>
                 /\ host'.alt = host.alt /\ host'.dt = [host.dt EXCEPT ![r.index] = 0]
                 /\ host'.halted = host.halted \ {r.index}
<1> DEFINE r == host.req
           new == UNION {DOMAIN s.ep : s \in FindIntf(host.conf, r.index, r.value)}
           g == IF ctl.phase = "answer" THEN Learn(r) ELSE host
<1>1. /\ ctl.phase \in {"answer", "stall"} /\ Sound(r) /\ ctl.req = r
      /\ host' = [g EXCEPT !.req = NoReq]
  BY CompleteHost DEF Complete, CompleteAckLost, Concluded
<1>2. g \in HostState
  BY <1>1, TypeParts, LearnType, HostFields DEF RequestsOK
<1>3. host'.alt = g.alt /\ host'.dt = g.dt /\ host'.halted = g.halted
  <2> HIDE DEF g
  <2> QED BY <1>1, <1>2 DEF HostState
<1>4. CASE ctl.phase = "stall"
  BY <1>3, <1>4
<1>5. CASE ctl.phase = "answer" /\ r.name # "set_configuration" /\ r.name # "set_interface"
           /\ ~Halts(r)
  <2>1. g = host \/ \E a : g = [host EXCEPT !.addr = a]
    BY <1>5 DEF Learn, Halts
  <2>2. g.alt = host.alt /\ g.dt = host.dt /\ g.halted = host.halted
    BY <2>1, HostFields DEF HostState
  <2> QED BY <1>3, <1>5, <2>2 DEF Halts
<1>6. CASE ctl.phase = "answer" /\ r.name = "set_configuration"
  <2> DEFINE a == [i \in Intf |-> 0]
             d == [e \in Ep |-> 0]
             c == r.value
  <2>1. g = [host EXCEPT !.conf = c, !.alt = a, !.dt = d, !.halted = {}]
    BY <1>6 DEF Learn
  <2> HIDE DEF a, d, c
  <2>2. g.alt = a /\ g.dt = d /\ g.halted = {}
    BY <2>1, HostFields DEF HostState
  <2> QED BY <1>3, <1>6, <2>2 DEF Halts, a, d
<1>7. CASE ctl.phase = "answer" /\ r.name = "set_interface"
  <2> DEFINE a == [host.alt EXCEPT ![r.index] = r.value]
             h == host.halted \ new
             d == [e \in Ep |-> IF e \in new THEN 0 ELSE host.dt[e]]
  <2>1. g = [host EXCEPT !.alt[r.index] = r.value, !.halted = h, !.dt = d]
    BY <1>7 DEF Learn
  <2>2. g = [host EXCEPT !.alt = a, !.halted = h, !.dt = d]
    BY <2>1
  <2> HIDE DEF a, h, d
  <2>3. g.alt = a /\ g.dt = d /\ g.halted = h
    BY <2>2, HostFields DEF HostState
  <2> QED BY <1>3, <1>7, <2>3 DEF Halts, a, h, d
<1>8. CASE ctl.phase = "answer" /\ Halts(r)
  <2> DEFINE d == [host.dt EXCEPT ![r.index] = 0]
             h == host.halted \cup {r.index}
             k == host.halted \ {r.index}
  <2>1. /\ r.name = "set_feature_ep" => g = [host EXCEPT !.halted = h]
        /\ r.name = "clear_feature_ep" => g = [host EXCEPT !.halted = k, !.dt = d]
    BY <1>8 DEF Learn
  <2> HIDE DEF d, h, k
  <2>2. /\ r.name = "set_feature_ep" => g.alt = host.alt /\ g.dt = host.dt /\ g.halted = h
        /\ r.name = "clear_feature_ep" => g.alt = host.alt /\ g.dt = d /\ g.halted = k
    <3> HIDE DEF g
    <3> QED BY <2>1, HostFields DEF HostState
  <2> QED BY <1>3, <1>8, <2>2 DEF Halts, d, h, k
<1> QED BY <1>1, <1>4, <1>5, <1>6, <1>7, <1>8

\* A request that was answered or refused: the host believes of the device what is so.
LEMMA CompleteUsed ==
  ASSUME RoomInv, RoomInv', Complete \/ CompleteAckLost, InSession
  PROVE  UsedOK' /\ SelectedOK'
<1> DEFINE r == host.req
           new == UNION {DOMAIN s.ep : s \in FindIntf(host.conf, r.index, r.value)}
<1>1. /\ UNCHANGED <<eps, st, drv>> /\ r # NoReq /\ Sound(r) /\ ctl.req = r /\ host'.req = NoReq
      /\ ctl.setup = NoReq /\ ctl.phase \in {"answer", "stall"} /\ host'.confs = host.confs
      /\ host'.conf = IF r.name = "set_configuration" /\ ctl.phase = "answer"
                      THEN r.value ELSE host.conf
  BY RoomParts, CompleteHost DEF Complete, CompleteAckLost
<1>2. /\ UsedOK /\ SelectedOK /\ AnswerOK(r) /\ (ctl.phase = "answer" => Carried(r))
  BY <1>1 DEF InSession, UnreadOK, AcceptedOK, Accepted
<1>3. Affected(NoReq)' = {} /\ ~Halts(NoReq) /\ ~Selects(NoReq)
  BY RoomParts DEF Affected, NoReq
<1>4. ASSUME \A s \in Settings' : \A e \in DOMAIN s.ep : Agrees(s, e)' PROVE UsedOK'
  <2> SUFFICES ASSUME NEW s \in Settings', NEW e \in DOMAIN s.ep
               PROVE  /\ Unaffected(e)' => Agrees(s, e)'
                      /\ Halts(host'.req) => KindAgrees(s, e)'
                      /\ host'.req.name = "set_feature_ep" => eps'[e].dt = host'.dt[e]
    BY DEF UsedOK, Halts
  <2> QED BY <1>1, <1>3, <1>4, RoomParts
<1>5. ASSUME host'.confs # 0 => st.conf = host'.conf /\ \A i \in Intf : host'.alt[i] = AltOf(i)
      PROVE  SelectedOK'
  BY <1>1, <1>5 DEF SelectedOK, AltOf
<1>6. CASE \/ ctl.phase = "stall"
           \/ r.name # "set_configuration" /\ r.name # "set_interface" /\ ~Halts(r)
  <2>1. host'.alt = host.alt /\ host'.dt = host.dt /\ host'.halted = host.halted
    BY <1>6, RoomParts, LearnFields
  <2>2. host'.conf = host.conf
    BY <1>1, <1>6
  <2>3. \A e : Unaffected(e)
    <3>1. CASE ctl.phase = "stall"
      BY <1>2, <3>1 DEF AnswerOK, Unaffected, Affected, Halts
    <3>2. CASE r.name # "set_configuration" /\ r.name # "set_interface" /\ ~Halts(r)
      BY <3>2 DEF Unaffected, Affected, Halts
    <3> QED BY <1>6, <3>1, <3>2
  <2>4. ~Selects(r) /\ \A i : ~Selecting(i)
    <3>1. CASE ctl.phase = "stall"
      BY <1>1, <1>2, <3>1, RoomParts DEF AnswerOK, Selecting, ConfiguredOK
    <3>2. CASE r.name # "set_configuration" /\ r.name # "set_interface"
      BY <3>2 DEF Selecting, Selects
    <3> QED BY <1>6, <3>1, <3>2
  <2>5. Settings' = Settings
    BY <2>1, <2>2 DEF Settings
  <2>6. \A s \in Settings' : \A e \in DOMAIN s.ep : Agrees(s, e)'
    BY <1>1, <1>2, <2>1, <2>3, <2>5 DEF UsedOK, Agrees, KindAgrees
  <2>7. host'.confs # 0 => st.conf = host'.conf /\ \A i \in Intf : host'.alt[i] = AltOf(i)
    BY <1>1, <1>2, <2>1, <2>2, <2>4 DEF SelectedOK
  <2> QED BY <1>4, <1>5, <2>6, <2>7
<1>7. CASE ctl.phase = "answer" /\ r.name = "set_configuration"
  <2>1. /\ host'.alt = [i \in Intf |-> 0] /\ host'.dt = [e \in Ep |-> 0] /\ host'.halted = {}
        /\ host'.conf = r.value
    BY <1>1, <1>7, RoomParts, LearnFields
  <2>2. Selects(r)
    BY <1>1, <1>7, RoomParts, TypeParts DEF RequestsOK, Selects
  <2>3. /\ st.conf = r.value /\ st.intf_alt = {}
        /\ r.value # NoConf => \A s \in Desc[r.value] : s.alt = 0 => Fresh(s)
    BY <1>2, <1>7, <2>2 DEF Carried
  <2>4. ASSUME NEW s \in Settings', NEW e \in DOMAIN s.ep PROVE Agrees(s, e)'
    <3>1. /\ r.value # NoConf /\ s \in Desc[r.value] /\ s.alt = host'.alt[s.intf]
      BY <2>1 DEF Settings
    <3>2. r.value \in Conf
      BY <1>1, <1>7, <2>2, <3>1 DEF Sound, Selects
    <3>3. s.intf \in Intf /\ e \in Ep
      BY <3>1, <3>2, SettingType
    <3>4. Fresh(s)
      BY <2>1, <2>3, <3>1, <3>3
    <3>5. KindAgrees(s, e) /\ ~eps[e].halt /\ eps[e].dt = 0
      BY <3>4 DEF Fresh
    <3>6. eps[e].halt \in BOOLEAN
      BY <3>3, RoomParts, TypeParts DEF EpsOK, EpRegs
    <3>7. KindAgrees(s, e)' /\ eps'[e].dt = host'.dt[e]
      BY <1>1, <2>1, <3>3, <3>5 DEF KindAgrees
    <3>8. eps'[e].halt = (e \in host'.halted)
      <4>1. eps[e].halt = (e \in host'.halted)
        BY <2>1, <3>5, <3>6, BothOff
      <4> QED BY <1>1, <4>1
    <3> QED BY <3>7, <3>8 DEF Agrees
  <2>5. st.conf = host'.conf /\ \A i \in Intf : host'.alt[i] = AltOf(i)
    BY <2>1, <2>3 DEF AltOf
  <2> QED BY <1>4, <1>5, <2>4, <2>5
<1>8. CASE ctl.phase = "answer" /\ r.name = "set_interface"
  <2>1. /\ host'.alt = [host.alt EXCEPT ![r.index] = r.value]
        /\ host'.dt = [e \in Ep |-> IF e \in new THEN 0 ELSE host.dt[e]]
        /\ host'.halted = host.halted \ new
        /\ host'.conf = host.conf
    BY <1>1, <1>8, RoomParts, LearnFields
  <2>2. /\ ~Refused(r) /\ AltOf(r.index) = r.value
        /\ \A s \in FindIntf(host.conf, r.index, r.value) : Fresh(s)
    BY <1>2, <1>8 DEF Carried
  <2>3. /\ \A i \in Intf : host'.alt[i] = IF i = r.index THEN r.value ELSE host.alt[i]
        /\ host.conf \in Conf \cup {NoConf}
    BY <1>1, <1>8, <2>1, RoomParts, HostFields DEF Sound
  <2>4. ASSUME NEW s \in Settings', NEW e \in DOMAIN s.ep PROVE Agrees(s, e)'
    <3>1. /\ host.conf \in Conf /\ s \in Desc[host.conf] /\ s.alt = host'.alt[s.intf]
          /\ host.conf # NoConf
      BY <2>1, <2>3 DEF Settings
    <3>2. s.intf \in Intf /\ e \in Ep
      BY <3>1, SettingType
    <3>3. CASE s.intf = r.index
      <4>1. s \in FindIntf(host.conf, r.index, r.value)
        BY <2>3, <3>1, <3>2, <3>3 DEF FindIntf
      <4>2. Fresh(s) /\ e \in new
        BY <2>2, <4>1
      <4>3. KindAgrees(s, e) /\ ~eps[e].halt /\ eps[e].dt = 0
        BY <4>2 DEF Fresh
      <4>4. eps[e].halt \in BOOLEAN
        BY <3>2, RoomParts, TypeParts DEF EpsOK, EpRegs
      <4>5. KindAgrees(s, e)' /\ eps'[e].dt = host'.dt[e]
        BY <1>1, <2>1, <3>2, <4>2, <4>3 DEF KindAgrees
      <4>6. e \notin host'.halted
        BY <2>1, <4>2
      <4>7. eps'[e].halt = (e \in host'.halted)
        <5>1. eps[e].halt = (e \in host'.halted)
          BY <4>3, <4>4, <4>6, BothOff
        <5> QED BY <1>1, <5>1
      <4> QED BY <4>5, <4>7 DEF Agrees
    <3>4. CASE s.intf # r.index
      <4>1. s \in Settings
        BY <2>3, <3>1, <3>2, <3>4 DEF Settings
      <4>2. e \notin Affected(r)
        <5>1. \A t \in Settings : t.intf = r.index => e \notin DOMAIN t.ep
          BY <3>1, <3>4, RoomParts, InUseType, SettingAssumption
        <5> QED BY <1>8, <5>1 DEF Affected
      <4>3. Agrees(s, e)
        BY <1>2, <4>1, <4>2 DEF UsedOK, Unaffected
      <4>4. e \notin new
        <5>1. \A t \in FindIntf(host.conf, r.index, r.value) :
                t \in Desc[host.conf] /\ t.intf = r.index
          BY <2>3, FoundSetting
        <5> QED BY <3>1, <3>4, <5>1, SettingAssumption
      <4>5. host'.dt[e] = host.dt[e] /\ (e \in host'.halted <=> e \in host.halted)
        BY <2>1, <3>2, <4>4
      <4> QED BY <1>1, <4>3, <4>5 DEF Agrees, KindAgrees
    <3> QED BY <3>3, <3>4
  <2>5. host'.confs # 0 => st.conf = host'.conf /\ \A i \in Intf : host'.alt[i] = AltOf(i)
    <3>1. ~Selects(r) /\ \A i : i # r.index => ~Selecting(i)
      BY <1>8 DEF Selects, Selecting
    <3> QED BY <1>1, <1>2, <2>1, <2>2, <2>3, <3>1 DEF SelectedOK
  <2> QED BY <1>4, <1>5, <2>4, <2>5
<1>9. CASE ctl.phase = "answer" /\ Halts(r)
  <2>1. /\ host'.alt = host.alt /\ host'.conf = host.conf
        /\ r.name = "set_feature_ep" =>
             host'.dt = host.dt /\ host'.halted = host.halted \cup {r.index}
        /\ r.name = "clear_feature_ep" =>
             host'.dt = [host.dt EXCEPT ![r.index] = 0] /\ host'.halted = host.halted \ {r.index}
    BY <1>1, <1>9, RoomParts, LearnFields DEF Halts
  <2>2. /\ r.name = "set_feature_ep" => eps[r.index].halt
        /\ r.name = "clear_feature_ep" => ~eps[r.index].halt /\ eps[r.index].dt = 0
    BY <1>2, <1>9 DEF Carried
  <2>3. Settings' = Settings /\ r.index \in Ep
    BY <1>1, <1>9, <2>1 DEF Settings, Sound, Halts
  <2>4. host.dt \in [Ep -> {0, 1}]
    BY RoomParts, HostFields
  <2>5. ASSUME NEW s \in Settings, NEW e \in DOMAIN s.ep PROVE Agrees(s, e)'
    <3>1. e \in Ep /\ eps[e].halt \in BOOLEAN
      <4>1. e \in Ep
        BY RoomParts, InUseType DEF InUse
      <4> QED BY <4>1, RoomParts, TypeParts DEF EpsOK, EpRegs
    <3>2. CASE e = r.index
      <4>1. KindAgrees(s, e)'
        BY <1>1, <1>2, <1>9 DEF UsedOK, KindAgrees
      <4>2. eps'[e].dt = host'.dt[e]
        <5>1. CASE r.name = "set_feature_ep"
          BY <1>1, <1>2, <2>1, <5>1 DEF UsedOK
        <5>2. CASE r.name = "clear_feature_ep"
          BY <1>1, <2>1, <2>2, <2>3, <2>4, <3>2, <5>2
        <5> QED BY <1>9, <5>1, <5>2 DEF Halts
      <4>3. eps'[e].halt = (e \in host'.halted)
        <5>1. CASE r.name = "set_feature_ep"
          <6>1. e \in host'.halted /\ eps[e].halt
            BY <2>1, <2>2, <3>2, <5>1
          <6> QED BY <1>1, <3>1, <6>1, Zenon
        <5>2. CASE r.name = "clear_feature_ep"
          <6>1. e \notin host'.halted /\ ~eps[e].halt
            BY <2>1, <2>2, <3>2, <5>2
          <6>2. eps[e].halt = (e \in host'.halted)
            BY <3>1, <6>1, BothOff
          <6> QED BY <1>1, <6>2
        <5> QED BY <1>9, <5>1, <5>2 DEF Halts
      <4> QED BY <4>1, <4>2, <4>3 DEF Agrees
    <3>3. CASE e # r.index
      <4>1. Agrees(s, e)
        BY <1>2, <1>9, <3>3 DEF UsedOK, Unaffected, Affected, Halts
      <4>2. host'.dt[e] = host.dt[e] /\ (e \in host'.halted <=> e \in host.halted)
        BY <1>9, <2>1, <2>4, <3>1, <3>3 DEF Halts
      <4> QED BY <1>1, <4>1, <4>2 DEF Agrees, KindAgrees
    <3> QED BY <3>2, <3>3
  <2>6. host'.confs # 0 => st.conf = host'.conf /\ \A i \in Intf : host'.alt[i] = AltOf(i)
    <3>1. ~Selects(r) /\ \A i : ~Selecting(i)
      BY <1>9 DEF Selects, Selecting, Halts
    <3> QED BY <1>1, <1>2, <2>1, <3>1 DEF SelectedOK
  <2> QED BY <1>4, <1>5, <2>3, <2>5, <2>6
<1> QED BY <1>1, <1>6, <1>7, <1>8, <1>9

\* A request is complete.
LEMMA AgreeComplete ==
  ASSUME RoomInv, RoomInv', AgreeOK, Complete \/ CompleteAckLost
  PROVE  AskedOK' /\ StallOK' /\ (Handled' => InSession')
<1>1. /\ host.req # NoReq /\ host'.req = NoReq /\ host.stage = "up"
      /\ ctl.req = host.req /\ ctl.setup = NoReq
  BY RoomParts, CompleteHost
<1>2. \/ ctl'.phase = "acked"
      \/ ctl'.req = NoReq
      \/ UNCHANGED ctl /\ ctl.phase = "answer" /\ ~Read(host.req)
  <2>1. CASE StatusAcked
    <3> DEFINE p == "acked"
    <3>1. ctl' = [ctl EXCEPT !.phase = p, !.data = 0]
      BY <2>1 DEF StatusAcked
    <3> HIDE DEF p
    <3>2. ctl'.phase = p
      BY <3>1, RoomParts, TypeParts DEF Control
    <3> QED BY <3>2 DEF p
  <2>2. CASE Stalled
    BY <2>2, RoomParts, TypeParts DEF Stalled, Control
  <2> QED BY <2>1, <2>2 DEF Complete, CompleteAckLost
<1>3. core'.pend = core.pend
  BY RoomParts, TypeParts DEF Complete, CompleteAckLost, StatusAcked, Stalled, CoreRegs
<1>4. AskedOK'
  BY <1>1, RoomParts DEF AskedOK
<1>5. StallOK'
  BY <1>2, RoomParts DEF AgreeOK, StallOK
<1>6. ASSUME Handled' PROVE InSession'
  <2>1. InSession
    BY <1>1, <1>3, <1>6 DEF Handled, AgreeOK
  <2>2. UsedOK' /\ SelectedOK'
    BY <2>1, CompleteUsed
  <2>3. AcceptedOK'
    BY <1>1 DEF AcceptedOK, Accepted
  <2>4. UnreadOK'
    BY <1>1, <1>2 DEF UnreadOK, Unread
  <2> QED BY <2>2, <2>3, <2>4 DEF InSession
<1> QED BY <1>4, <1>5, <1>6

\* A packet is moved: both toggles change, and nothing that is being selected.
LEMMA AgreeTransaction ==
  ASSUME RoomInv, RoomInv', AgreeOK, Transaction
  PROVE  AgreeOK'
<1> DEFINE r == host.req
<1>1. PICK x \in InUse \ Affected(r) : Moved(x) /\ host' = [host EXCEPT !.dt[x] = 1 - @]
  BY DEF Transaction
<1>2. /\ host.stage = "up" /\ UNCHANGED <<core, ctl, st, fw, drv>> /\ x \in Ep
  BY <1>1, RoomParts, InUseType DEF Transaction
<1> DEFINE n == 1 - eps[x].dt
           d == [host.dt EXCEPT ![x] = 1 - @]
<1>3. /\ host'.stage = host.stage /\ host'.conf = host.conf /\ host'.confs = host.confs
      /\ host'.alt = host.alt /\ host'.halted = host.halted /\ host'.req = r /\ host'.dt = d
  <2>1. host' = [host EXCEPT !.dt = d]
    BY <1>1, <1>2, RoomParts, HostFields
  <2> HIDE DEF d
  <2> QED BY <2>1, RoomParts, HostFields DEF HostState
<1>4. /\ \A f \in Ep : f # x => eps'[f] = eps[f]
      /\ eps'[x].halt = eps[x].halt /\ eps'[x].dt = n
      /\ \A f \in Ep : eps'[f].type = eps[f].type /\ eps'[f].ml = eps[f].ml
  <2>1. eps \in [Ep -> EpRegs] /\ eps[x] \in EpRegs
    BY <1>2, RoomParts, TypeParts DEF EpsOK
  <2>2. eps' = [eps EXCEPT ![x] = [eps[x] EXCEPT !.dt = n]]
    BY <1>1, <1>2, <2>1 DEF Moved
  <2> HIDE DEF n
  <2>3. eps'[x] = [eps[x] EXCEPT !.dt = n] /\ \A f \in Ep : f # x => eps'[f] = eps[f]
    BY <1>2, <2>1, <2>2
  <2>4. eps'[x].halt = eps[x].halt /\ eps'[x].dt = n
    BY <2>1, <2>3 DEF EpRegs
  <2> QED BY <2>3, <2>4, RoomParts, TransactionTypes
<1>5. \A f \in Ep : (f # x => host'.dt[f] = host.dt[f]) /\ host'.dt[x] = 1 - host.dt[x]
  BY <1>2, <1>3, RoomParts, HostFields
<1> HIDE DEF d
<1>6. Settings' = Settings /\ InUse' = InUse
  BY <1>3 DEF Settings, InUse
<1>7. Affected(r)' = Affected(r)
  BY <1>3, <1>6 DEF Affected
<1>8. r = NoReq \/ Sound(r)
  BY RoomParts, TypeParts DEF RequestsOK
<1>9. Refused(r)' = Refused(r)
  <2>1. Halts(r) => r.index \in Ep
    BY <1>8, RoomParts DEF Halts, Sound
  <2>2. Halts(r) => eps'[r.index].type = eps[r.index].type
    BY <1>4, <2>1
  <2> QED BY <1>3, <2>2 DEF Refused
<1>10. ~Selects(r)
  BY <1>1 DEF Selects, Affected
<1>11. Handled
  BY <1>1, <1>2, RoomParts DEF Handled, UnhandledOK, HostOK, InUse, Settings
<1>12. UsedOK /\ SelectedOK /\ AcceptedOK /\ UnreadOK
  BY <1>11 DEF AgreeOK, InSession
<1>13. SelectionMade'
  <2>1. fw.pc # "set_intf"
    <3>1. SUFFICES ASSUME fw.pc = "set_intf" PROVE FALSE
      OBVIOUS
    <3>2. ctl.setup.name = "set_configuration" /\ ctl.setup.value \in Conf \cup {NoConf}
      BY <3>1, RoomParts, TypeParts DEF ConfiguringOK, Configuring, Stack
    <3>3. ctl.setup = r
      BY <1>11, <3>2, RoomParts DEF SessionOK
    <3> QED BY <1>10, <3>2, <3>3, HostAssumption DEF Selects
  <2> QED BY <1>2, <2>1 DEF AgreeOK, SelectionMade, Undone
<1>14. AskedOK' /\ StallOK'
  BY <1>2, <1>3, <1>6 DEF AgreeOK, AskedOK, StallOK
<1>15. UsedOK'
  <2> SUFFICES ASSUME NEW s \in Settings, NEW e \in DOMAIN s.ep
               PROVE  /\ Unaffected(e)' => Agrees(s, e)'
                      /\ Halts(r) => KindAgrees(s, e)'
                      /\ r.name = "set_feature_ep" => eps'[e].dt = host'.dt[e]
    BY <1>3, <1>6 DEF UsedOK, Halts
  <2>1. /\ Unaffected(e) => Agrees(s, e)
        /\ Halts(r) => KindAgrees(s, e)
        /\ r.name = "set_feature_ep" => eps[e].dt = host.dt[e]
    BY <1>12 DEF UsedOK
  <2>2. e \in Ep
    BY RoomParts, InUseType DEF InUse
  <2>3. Unaffected(e)' => Unaffected(e)
    BY <1>3, <1>7, <1>9 DEF Unaffected
  <2>4. KindAgrees(s, e)' <=> KindAgrees(s, e)
    BY <1>4, <2>2 DEF KindAgrees
  <2>5. eps[e].dt = host.dt[e] => eps'[e].dt = host'.dt[e]
    <3>1. CASE e = x
      BY <1>4, <1>5, <2>2, <3>1
    <3>2. CASE e # x
      BY <1>4, <1>5, <2>2, <3>2
    <3> QED BY <3>1, <3>2
  <2>6. eps'[e].halt = eps[e].halt
    BY <1>4, <2>2
  <2> QED BY <1>3, <2>1, <2>3, <2>4, <2>5, <2>6 DEF Agrees
<1>16. SelectedOK'
  BY <1>2, <1>3, <1>9, <1>12 DEF SelectedOK, AltOf, Selecting, Selects
<1>17. AcceptedOK'
  <2> SUFFICES ASSUME Accepted PROVE Carried(r)'
    BY <1>2, <1>3 DEF AcceptedOK, Accepted, Carried, Selects, AltOf, Refused, Halts, Fresh,
                      KindAgrees
  <2>1. Carried(r) /\ Sound(r)
    BY <1>8, <1>12 DEF AcceptedOK, Accepted
  <2>2. ASSUME r.name = "set_interface"
        PROVE  \A t \in FindIntf(host.conf, r.index, r.value) : Fresh(t)'
    <3>1. PICK s \in Settings : x \in DOMAIN s.ep
      BY <1>1 DEF InUse
    <3>2. s.intf # r.index
      BY <1>1, <2>2, <3>1 DEF Affected
    <3>3. host.conf \in Conf \cup {NoConf}
      BY RoomParts, HostFields
    <3> SUFFICES ASSUME NEW t \in FindIntf(host.conf, r.index, r.value) PROVE Fresh(t)'
      OBVIOUS
    <3>4. host.conf \in Conf /\ t \in Desc[host.conf] /\ t.intf = r.index
      BY <3>3, FoundSetting
    <3>5. s \in Desc[host.conf]
      BY RoomParts, InUseType
    <3>6. x \notin DOMAIN t.ep /\ DOMAIN t.ep \subseteq Ep
      BY <3>1, <3>2, <3>4, <3>5, SettingAssumption, SettingType
    <3>7. \A e \in DOMAIN t.ep : eps'[e] = eps[e]
      BY <1>4, <3>6
    <3> QED BY <2>1, <2>2, <3>7, FreshKept DEF Carried
  <2>3. r.name = "set_interface" => ~Refused(r)' /\ AltOf(r.index)' = r.value
    BY <1>2, <1>3, <1>9, <2>1 DEF Carried, AltOf
  <2>4. Halts(r) => eps'[r.index] = eps[r.index]
    BY <1>1, <1>4, <2>1 DEF Halts, Affected, Sound
  <2> QED BY <1>3, <1>10, <2>1, <2>2, <2>3, <2>4 DEF Carried, Selects, Halts
<1>18. UnreadOK'
  <2>1. Unread' = Unread
    BY <1>2 DEF Unread
  <2>2. AnswerOK(r) => AnswerOK(r)'
    BY <1>2, <1>3, <1>9 DEF AnswerOK
  <2> QED BY <1>2, <1>3, <1>12, <2>1, <2>2 DEF UnreadOK
<1> QED BY <1>13, <1>14, <1>15, <1>16, <1>17, <1>18 DEF AgreeOK, InSession

\* What is not touched stays agreed on.
LEMMA SessionKept ==
  ASSUME InSession, UNCHANGED <<eps, ctl, st, drv, host>>
  PROVE  InSession'
<1>1. /\ Settings' = Settings /\ \A r : Refused(r)' = Refused(r)
      /\ Affected(host.req)' = Affected(host.req)
  BY DEF Settings, Refused, Affected, InUse, Halts
<1>2. UsedOK'
  BY <1>1 DEF InSession, UsedOK, Unaffected, Agrees, KindAgrees
<1>3. SelectedOK'
  BY <1>1 DEF InSession, SelectedOK, AltOf, Selecting
<1>4. AcceptedOK'
  BY <1>1 DEF InSession, AcceptedOK, Accepted, Carried, AltOf, Fresh, KindAgrees
<1>5. UnreadOK'
  BY <1>1 DEF InSession, UnreadOK, Unread, AnswerOK
<1> QED BY <1>2, <1>3, <1>4, <1>5 DEF InSession

\* The bus, and the application.
LEMMA AgreeBus ==
  ASSUME RoomInv, RoomInv', AgreeOK,
         \/ ResetStart \/ ResetEnd \/ Recovered \/ LineLow \/ LineHigh \/ Suspend \/ Sof
         \/ Attach \/ Detach \/ Reboot
  PROVE  AgreeOK'
<1>1. SelectionMade' /\ StallOK'
  <2>1. CASE UNCHANGED <<eps, ctl, st, fw>>
    BY <2>1 DEF AgreeOK, SelectionMade, StallOK, Fresh, KindAgrees, Undone
  <2>2. CASE Attach \/ Detach
    <3>1. fw'.pc = "poll" /\ UNCHANGED ctl
      BY <2>2 DEF Attach, Detach, Connect, Disconnect
    <3>2. st'.state \in {"connected", "disconnected"}
      <4>1. /\ [st EXCEPT !.state = "connected"].state = "connected"
            /\ [st EXCEPT !.state = "disconnected", !.susp = FALSE].state = "disconnected"
        BY RoomParts, TypeParts DEF Stack
      <4> QED BY <2>2, <4>1 DEF Attach, Detach, Connect, Disconnect, SetState
    <3> QED BY <3>1, <3>2 DEF AgreeOK, SelectionMade, StallOK, Configuring
  <2>3. CASE Reboot
    <3>1. fw'.pc = "poll" /\ ctl'.phase = "idle" /\ st'.state = "disconnected"
      BY <2>3 DEF Reboot, Detached, Idle, StInit
    <3> QED BY <3>1 DEF SelectionMade, StallOK, Configuring
  <2> QED BY <2>1, <2>2, <2>3
          DEF ResetStart, ResetEnd, Recovered, LineLow, LineHigh, Suspend, Sof
<1>2. AskedOK'
  <2>1. CASE UNCHANGED host
    BY <2>1 DEF AgreeOK, AskedOK, Settings, InUse
  <2>2. CASE ResetStart \/ Attach \/ Detach \/ Reboot
    <3>1. host'.req = NoReq
      BY <2>2 DEF ResetStart, Attach, Detach, Reboot, HostReset
    <3> QED BY <3>1, RoomParts DEF AskedOK
  <2>3. CASE ResetEnd \/ Recovered
    <3>1. host.req = NoReq
      BY <2>3, RoomParts, HostResetFields DEF HostOK, ResetEnd, Recovered
    <3>2. host'.req = NoReq
      BY <2>3, <3>1, RoomParts, BusHost
    <3> QED BY <3>2, RoomParts DEF AskedOK
  <2> QED BY <2>1, <2>2, <2>3 DEF LineLow, LineHigh, Suspend, Sof
<1>3. ASSUME Handled' PROVE InSession'
  <2>1. HostOK'
    BY DEF RoomInv, SessionInv
  <2>2. Recovered \/ Suspend \/ Sof
    BY <1>3, <2>1, RoomParts, NotHandled
  <2>3. CASE Recovered
    <3>1. /\ UNCHANGED <<core, eps, ctl, st, drv>> /\ host.stage = "recovery"
          /\ host.req = NoReq /\ host.confs = 0 /\ host.conf = NoConf
      BY <2>3, RoomParts, HostResetFields DEF Recovered, HostOK
    <3>2. host'.req = NoReq /\ host'.confs = 0 /\ host'.conf = NoConf
      BY <2>3, <3>1, RoomParts, BusHost
    <3>3. ~Unread
      BY <1>3, <3>1 DEF Handled, AgreeOK, InSession, UnreadOK, Unread
    <3>4. ~Unread' /\ Settings' = {}
      BY <3>1, <3>2, <3>3 DEF Unread, Settings
    <3>5. UsedOK'
      BY <3>4 DEF UsedOK
    <3>6. SelectedOK' /\ AcceptedOK' /\ UnreadOK'
      BY <3>2, <3>4 DEF SelectedOK, AcceptedOK, Accepted, UnreadOK
    <3> QED BY <3>5, <3>6 DEF InSession
  <2>4. CASE Suspend \/ Sof
    <3>1. core'.pend = core.pend /\ UNCHANGED <<eps, ctl, st, drv, host>>
      BY <2>4, RoomParts, BusHost DEF Suspend, Sof
    <3>2. InSession
      BY <1>3, <3>1 DEF Handled, AgreeOK
    <3> QED BY <3>1, <3>2, SessionKept
  <2> QED BY <2>2, <2>3, <2>4
<1> QED BY <1>1, <1>2, <1>3 DEF AgreeOK

-----------------------------------------------------------------------------
(* The invariant, and what follows from it.                                *)

AgreeInv == RoomInv /\ AgreeOK

LEMMA AgreeInvariant == Spec => []AgreeInv
<1>1. DeviceInit => AgreeOK
  <2> SUFFICES ASSUME DeviceInit PROVE AgreeOK
    OBVIOUS
  <2>1. /\ fw.pc = "poll" /\ st.state = "disconnected" /\ ctl.phase = "idle"
        /\ host.stage = "detached" /\ host.req = NoReq
    BY HostResetFields DEF DeviceInit, Init, StInit, Idle
  <2> QED BY <2>1 DEF AgreeOK, SelectionMade, Configuring, AskedOK, StallOK, Handled, NoReq
<1>2. RoomInv /\ RoomInv' /\ AgreeOK /\ [DeviceNext]_vars => AgreeOK'
  <2>1. ASSUME RoomInv, RoomInv', AgreeOK, DeviceNext PROVE AgreeOK'
    <3>1. CASE Firmware /\ UNCHANGED host
      BY <2>1, <3>1, AgreeFirmware
    <3>2. CASE SendSetup \/ Complete \/ CompleteAckLost
      <4>1. UNCHANGED <<eps, st, fw>>
        BY <3>2 DEF SendSetup, Complete, CompleteAckLost
      <4>2. SelectionMade'
        BY <2>1, <4>1 DEF AgreeOK, SelectionMade, Fresh, KindAgrees, Undone
      <4> QED BY <2>1, <3>2, <4>2, AgreeSend, AgreeComplete DEF AgreeOK
    <3>3. CASE Transaction
      BY <2>1, <3>3, AgreeTransaction
    <3>4. CASE \/ ResetStart \/ ResetEnd \/ Recovered \/ LineLow \/ LineHigh \/ Suspend \/ Sof
               \/ Attach \/ Detach \/ Reboot
      BY <2>1, <3>4, AgreeBus
    <3> QED BY <2>1, <3>1, <3>2, <3>3, <3>4 DEF DeviceNext, FirmwareStep
  <2>2. ASSUME AgreeOK, UNCHANGED vars PROVE AgreeOK'
    <3>1. UNCHANGED <<core, eps, ctl, st, fw, drv, host>>
      BY <2>2 DEF vars
    <3>2. SelectionMade' /\ StallOK' /\ AskedOK'
      BY <2>2, <3>1 DEF AgreeOK, SelectionMade, Fresh, KindAgrees, Undone, StallOK, AskedOK,
                        Settings, InUse
    <3>3. Handled' => InSession'
      BY <2>2, <3>1, SessionKept DEF AgreeOK, Handled
    <3> QED BY <3>2, <3>3 DEF AgreeOK
  <2> QED BY <2>1, <2>2
<1> QED BY <1>1, <1>2, RoomInvariant, PTL DEF Spec, AgreeInv

\* What a host uses that waits for a bus reset to be handled: nothing.
LEMMA NothingUsed ==
  ASSUME RoomInv, host.stage = "up", core.pend
  PROVE  Settings = {} /\ InUse = {} /\ host.confs = 0 /\ Quiet(host.req)
<1>1. host.confs = 0 /\ host.conf = NoConf /\ Quiet(host.req)
  BY RoomParts DEF UnhandledOK, HostOK
<1> QED BY <1>1 DEF Settings, InUse

\* Host and device agree on type, packet size, halt and data toggle of every end
\* point in use: through selections of configurations and settings, halts,
\* resumptions, lost acknowledgements, requests sent again, suspend and bus
\* resets at any step of the firmware, for any descriptors.
THEOREM EndPointsAgreeCorrect == Spec => []EndPointsAgree
<1>1. AgreeInv => EndPointsAgree
  <2> SUFFICES ASSUME AgreeInv, host.stage = "up", NEW s \in Settings,
                      NEW e \in DOMAIN s.ep \ Affected(host.req)
               PROVE  /\ eps[e].type = s.ep[e].type /\ eps[e].ml = s.ep[e].mps
                      /\ eps[e].halt = (e \in host.halted)
                      /\ eps[e].dt = host.dt[e]
    BY DEF EndPointsAgree
  <2>1. Handled
    BY NothingUsed DEF AgreeInv, Handled
  <2>2. Agrees(s, e)
    BY <2>1 DEF AgreeInv, AgreeOK, InSession, UsedOK, Unaffected
  <2> QED BY <2>2 DEF Agrees, KindAgrees
<1> QED BY <1>1, AgreeInvariant, PTL

\* The answers are those of what the host selected, and what the device can do
\* is not refused: for any descriptors, and whatever was asked before.
THEOREM AnswersTrueCorrect == Spec => []AnswersTrue
<1>1. AgreeInv => AnswersTrue
  <2> SUFFICES ASSUME AgreeInv, host.stage = "up", host.req # NoReq, ctl.req = host.req
               PROVE  AnswersTrue
    BY DEF AnswersTrue
  <2> DEFINE r == host.req
  <2>1. /\ RoomInv /\ AskedOK /\ StallOK /\ Sound(r) /\ (Handled => InSession)
    BY RoomParts, TypeParts DEF AgreeInv, AgreeOK, RequestsOK
  <2>2. r.name \in RequestName
    BY <2>1 DEF Sound, Request
  <2>3. host.confs \in Nat
    BY <2>1, RoomParts, HostFields, HostAssumption
  <2>4. CASE ~core.pend
    <3>1. AnswerOK(r) /\ UsedOK /\ SelectedOK
      BY <2>1, <2>4 DEF Handled, InSession, UnreadOK
    <3>2. Halts(r) => eps[r.index].type \in {"bci", "isoc"}
      BY <2>1, <3>1, AskedFound
    <3>3. ASSUME ctl.phase = "answer"
          PROVE  /\ r.name = "get_configuration" /\ host.confs > 0 => ctl.data = host.conf
                 /\ r.name = "get_interface" => ctl.data = host.alt[r.index]
                 /\ r.name = "get_status_ep" =>
                      ctl.data = IF r.index \in host.halted THEN 1 ELSE 0
      BY <2>3, <3>1, <3>3 DEF AnswerOK
    <3>4. ASSUME ctl.phase = "stall"
          PROVE  \/ r.name \in {"get_status_intf", "other_feature"}
                 \/ r.name = "get_descriptor" /\ r.value \notin Descriptor
                 \/ r.name = "set_configuration" /\ r.value = BadConf
                 \/ r.name = "set_interface" /\ FindIntf(host.conf, r.index, r.value) = {}
                 \/ /\ r.name \in {"set_feature_ep", "clear_feature_ep"}
                    /\ eps[r.index].type = "isoc"
      BY <2>1, <2>2, <3>1, <3>2, <3>4 DEF AnswerOK, StallOK, RequestName, Refused, Halts
    <3> QED BY <3>3, <3>4 DEF AnswersTrue
  <2>5. CASE core.pend
    <3>1. Settings = {} /\ InUse = {} /\ host.confs = 0 /\ Quiet(r)
      BY <2>1, <2>5, NothingUsed
    <3>2. r.name \notin {"get_status_ep", "set_feature_ep", "clear_feature_ep", "get_interface",
                         "set_interface", "dfu_detach", "dfu_getstatus"}
      BY <2>1, <3>1 DEF AskedOK
    <3>3. ASSUME ctl.phase = "stall"
          PROVE  \/ r.name \in {"get_status_intf", "other_feature"}
                 \/ r.name = "get_descriptor" /\ r.value \notin Descriptor
                 \/ r.name = "set_configuration" /\ r.value = BadConf
      BY <2>1, <2>2, <3>1, <3>2, <3>3 DEF StallOK, RequestName, Quiet
    <3> QED BY <3>1, <3>2, <3>3 DEF AnswersTrue
  <2> QED BY <2>4, <2>5
<1> QED BY <1>1, AgreeInvariant, PTL

=============================================================================
