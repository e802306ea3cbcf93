# Verification of no2usb

TLA+ modules, TLC configurations and TLAPS proofs for the no2usb USB full speed device
core: the Verilog core (`rtl/`), its transaction microcode (`utils/microcode.py`) and the
firmware that drives it (`fw/v0/`). Every definition is a translation of that code;
`PROJECT.json` says which lines each of them stands for.

## The system

```
 host --packets--> line layer --> packet layer --> transaction engine <--> EP status RAM <--> firmware
                   (usb_phy,      (usb_rx_pkt,      (usb_trans.v run-       data buffers       (usb.c,
                    usb_rx_ll,     usb_tx_pkt,       ning microcode.py)     events, CEL        usb_ctrl_ep0.c,
                    usb_tx_ll)     usb_crc)                                 (usb.v)            drivers)
```

| component | state | operations | interacts with | what makes it correct |
|---|---|---|---|---|
| line layer: `usb_phy.v`, `usb_rx_ll.v`, `usb_tx_ll.v` | samples, bit stuffing counters, line state | bit in, bit out, EOP | packet layer (bit strobes) | what one side encodes the other decodes; a seventh 1 is an error |
| packet layer: `usb_rx_pkt.v`, `usb_tx_pkt.v`, `usb_crc.v` | FSM, shift register, CRC, PID | start, byte, done_ok, done_err | transaction engine (pulses) | a packet is done exactly once, and ok only if complete with a good CRC |
| transaction engine: `usb_trans.v` + `microcode.py` | captured token, status word, descriptor, lengths, time out | token capture, fetch, dispatch, write back, store, NOTIFY | packet layer, status RAM, buffers, events | each transaction changes the descriptor that belongs to it, once; NAK, STALL and ACK tell the truth |
| EP status RAM, data buffers: `usb_ep_status.v`, `usb_ep_buf.v` | status words, descriptors, payload | reads and writes of both sides | engine, firmware | no access is lost |
| events, CEL, bus interface: `usb.v`, `usb_trans.v` | event counter or FIFO, lockout, pending flags | NOTIFY, read, release, reset, suspend, SOF | engine, firmware | no wake up is lost; the lockout holds until released |
| main loop: `usb.c` | device state, tick, end point configuration | `usb_poll`, bus reset, connect, end point set up | registers, drivers | states follow the bus |
| control end point: `usb_ctrl_ep0.c` | `g_usb.ctrl`: state, request, transfer | SETUP, data and status stages, stall, retry | registers, drivers (`cb_data`, `cb_done`) | each transfer gives both ends the same result |
| drivers: `usb_ctrl_std.c`, `usb_dfu*.c`, `usb_msos20.c` | configuration, DFU state and flash operation | requests, tick | control end point | answers fit the state; flash operations complete |
| tinyusb driver: `dcd_no2usb.c` | per end point transfer and descriptor indices | open, transfer, stall, interrupt | registers, tinyusb | bulk transfers in order over two descriptors |

What is hard here is that three parties share the descriptors without a lock: the host
decides when a token comes, the core fetches a descriptor at the token and writes it back
after the data or the ACK, and the firmware reads and writes the same words one at a time
in between. Packets get lost, the host retries or gives up and starts another transfer, and
the only exclusion is the Control Endpoint Lockout (CEL), sampled when a token is captured.
Above that, a bus reset comes at any step of the main loop and of the handling of the reset
before it, and host, stack and function drivers each keep an idea of the address, the
configuration, the settings and the data toggles that must stay the same idea.
`PROJECT.json` lists the hazards with their lines.

## Modules

| module | models | correspondence |
|---|---|---|
| `UsbTrans` | the transaction engine and the registers it shares with the firmware | `eps`, `bd`, `buf`, `cel`, `evt` are the registers; `sie` is the captured token, the fetched words and the point of the microcode where a transaction waits. One action per packet received or sent (`Token`, `SetupAccepted`, `OutAccepted`, `OutRefused`, `OutFailed`, `RxAck`, `TxData`, ...) and one operator per access of the firmware |
| `UsbCtrlEp0` | `usb_poll()` as far as events go and `usb_ctrl_ep0.c` | extends `UsbTrans`. `pc` is the place in `usb_ep0_poll()`; one action per access to a register or buffer, with the local work up to the next access |
| `UsbHost` | a host that runs control transfers (external: not in the repository) | the three attempts a host makes are not counted: it may retry for ever, or turn to another transfer between any two transactions |
| `ControlXfer` | the composition on a bus that loses and damages packets and carries tokens of other devices | host action and core action of a packet in one step; every loss its own action |
| `MCControlXfer` | the instance for TLC | requests are numbered, a transfer of an id is started at most once |
| `UsbTransProofs`, `ControlXferProofs` | the lemmas about the transaction engine that the proofs of both compositions use, and the proofs about `ControlXfer` | |
| `UsbRto` | the receive time out counter of `usb_trans.v:249-261`, clock cycle by clock cycle, with its proof | `EvtRto` is the instruction, `Tick` any other cycle |
| `UsbDfu` | the DFU function driver `usb_dfu.c` with its flash and a host tool | `state`, `status`, `alt`, `armed`, `fl`, `buf` are the fields of `g_dfu`; `xfer` is what the control end point knows of a DNLOAD. One action per branch of `_dfu_tick()`, per request of `_dfu_ctrl_req()` and per callback |
| `MCUsbDfu`, `UsbDfuProofs` | its instance for TLC, and its proofs | |
| `UsbEvents` | the event FIFO of `usb.v` for `EVT_DEPTH > 1`, clock cycle by clock cycle, and the event counter's pending flag, with the proof about the FIFO | `entries` is the FIFO, `overflow` its flag; a cycle has a NOTIFY, a read, both or neither. `missed` is a history variable |
| `DcdNo2usb` | the tinyusb driver `dcd_no2usb.c` on one bulk or interrupt end point | extends `UsbTrans` and `UsbEvents`. `drv` is `struct dcd_ep`, `cpu` the place in `_usb_ep_advance_xfer_in/out()` or `dcd_int_handler()`; one action per access to the core |
| `BulkPipe` | abstract: what such an end point promises, a pipe of packets in order, once each | |
| `BulkXfer` | the driver, the engine and a host (external) on a bus that loses and damages packets and is reset | shown to implement `BulkPipe` (`IsPipe`): `sent` and `got` are history variables of what either end wrote and received, `spoilt` of the packets whose bytes were overwritten by data without a token |
| `MCBulkXfer`, `BulkXferProofs` | its instance for TLC, and its proofs | |
| `UsbStack` | `usb_init()`, `usb_poll()`, device states, configuration of end points and the buffer allocator of `usb.c`, all of `usb_ctrl_std.c` and `usb_dfu_rt.c`, and the reset and suspend flags of `usb.v` | `core` are the control register and the flags, `st` is `g_usb`, `eps` the status words, buffer pointers and sizes, `fw.pc` the place in `usb_poll()`, `usb_bus_reset()` or `_set_configuration()`, `fw.csr` the copy of the control register that a poll works with. One action per register access of the reset, per callback and per request |
| `UsbFnDriver` | abstract: in which order a function driver's callbacks come | |
| `UsbDevice` | the stack and a host (external) that enumerates, selects, halts, uses, resets, suspends and unplugs the device | shown to implement `UsbFnDriver` (`DriversCalledInOrder`). `host` is what the host believes |
| `MCUsbDevice`, `UsbDeviceProofs`, `UsbAgreeProofs` | its instance for TLC, and its proofs: what the stack keeps, and what it agrees on with the host | |

`IgnoreRxErr` selects the build of the microcode: `FALSE` is the default build, `TRUE` the one
with `IGNORE_RX_ERR`, the *mini* build below. Data is a sequence of units `[req, pos]`: to which
request a unit belongs and its place in it, which is all the properties tell apart. `CrcUnit`
stands for a byte of a CRC or of a damaged packet.

Definitions named `Faulty_...` and `Unlocked_...` are no part of the model: each is a plausible
bug in the definition that follows it, and shows that some property notices it.

### What a step is

* The fetch after a token takes a dozen clock cycles and a write back three after its EP
  instruction. One access of the soft core takes longer, so each is one step. So is the NOTIFY
  in the middle of a write back.
* A token that ends the wait of an earlier transaction is captured while the failure handler of
  that one runs (`usb_trans.v:281-381`): the handler writes into the end point and descriptor of
  the *new* token. `FailInto` and `AfterFail` say what is written and what the new token is then
  dispatched on; `Late` is the one cycle by which the loop of an OUT transaction may see the
  token later, which decides whether DONE_ERR survives the fetch.
* A write back also reloads `bd_length`, some cycles after the microcode closed the buffer with ZL
  (`usb_trans.v:343-353`, `usb_trans.v:425-432`), with the address of the buffer for a length. Data
  that comes without a token is then stored from where the packet ended. `Reload` keeps that place
  in `sie.past`, and `StoreBehind` stores any number of the bytes, which covers whatever the
  address is as a length. What is modelled is the case where something of the same end point is
  there: the second buffer of a dual buffered OUT end point, behind the first (`Followed`).
* In `UsbDfu` a request is one step, since `usb_poll()` calls ticks and requests one after the
  other. A DNLOAD is several: SETUP (`Dnload`), each packet of data (`DnloadData`), `cb_done`
  (`DnloadDone`), between which ticks go on and another request may take its place. That
  `cb_done` comes at most once, and not at all after another SETUP, is what `CallbackSound` of
  `ControlXfer` says; that it may be missing although the host has its status is `DoneLost`.
* In `DcdNo2usb` a copy of a packet is one step, before and after which the core goes on; `NoRace`
  says that no transaction goes on in the same buffer in between. The driver's interrupt handler is not
  interrupted, and `dcd_edpt_xfer()` runs with the interrupt off, so one place in the code is
  enough.
* In `UsbStack` the control end point is reduced to what `ControlXfer` shows of it: a SETUP packet
  is accepted only with the lockout clear and sets it, `usb_poll()` answers or stalls, the host
  gets the answer once, and the device may see the acknowledgement of its status or not
  (`CompleteAckLost`). The bus goes on between any two steps of `usb_poll()` and of
  `usb_bus_reset()`. The steps of one request that touch end points no transaction can be on
  (see the host below) are one action, but SET_CONFIGURATION is one action per callback.
* There is no time out. `UsbRto` shows why, and the transaction that waits does so until the
  next packet.

## Runs

The instances of `ControlXfer` have one end point, packets of 2 units and transfers of 0 to 3 units (nothing, a
full packet, a full and a short one; 2 = a multiple of the packet length), and two transfers, so
that what one left behind meets the next. `Reads` and `Writes` are the lengths of either
direction. `MaxLoss` bounds packets lost or damaged, `MaxOther` tokens for other devices.
Transfers are numbered up to `MaxXfer`: after the last one the host stops, so deadlock is not
checked. `MaxXfer`, `MaxLoss`, `MaxOther` and `MaxLen` are all the bounds; the event counter keeps
its 16 values.

| run | build | bounds | shows |
|---|---|---|---|
| `control_mini` | mini | 1 loss, reads of 2, 3, writes of 0, 3 | `TypeOK`; no data of another request or place reaches the host (`NoStaleData`), reads are complete (`ReadComplete`), writes arrive in order, once and whole (`WriteIntact`), no status of an old transfer ends a new one (`NoFalseSuccess`), `cb_done` is called at most once and not before the host has its status (`CallbackSound`), transfers of a few packets lose no wake up (`NoLostWakeup`; see finding 3 for longer ones), and every transfer ends, except where `status_out` shows that it does not (`TransferEnds`) |
| `control_full` | default | 1 loss, lengths 0, 3 | a SETUP is handled under the lockout (`LockoutCoversHandling`), core and firmware never use one buffer at a time (`NoBufferRace`), the SETUP packet stays (`SetupKept`) |
| `control_shared` | mini | 1 loss, 1 foreign token, length 3 | `NoStaleData` still holds, and no write back destroys what the firmware wrote (`NoLostDescriptor`) |
| `bulk` | mini | 1 loss, 2 foreign events, 4 packets | the end point is a pipe, but for the bytes of a packet that data without a token went over (`IsPipe`, see finding 6); no transaction is in a buffer that the driver is using (`NoRace`), no write back meets a descriptor the driver wrote (`NoLostWrite`), a dropped event is reported (`NoSilentDrop`), and packets keep moving (`Moves`) |
| `device` | | 2 selections per session | host, stack and drivers agree: after a reset nothing is left of the session before (`SessionClean`), on the address (`AddressAgrees`), on type, size, halt and toggle of every end point in use (`EndPointsAgree`), on what was selected (`AnswersTrue`); buffers do not overlap (`BuffersApart`) and have room for the packets of the setting (`RoomForPackets`); callbacks come in order (`DriversCalledInOrder`), and the stack catches up with the bus (`KeepsUp`) |
| `dfu` | | see below | what the device reported done is in the flash (`Delivered`), nothing is programmed that was not erased (`ErasedFirst`), no command leaves the selected zone (`InZone`), polling for a block ends (`BlockEnds`) |
| `bulk_spill` | mini | as `bulk` | data whose token was lost goes over a packet the driver has not read (`DataIgnored`, finding 6) |
| `event_wrap`, `setup_stored`, `setup_kept`, `status_out`, `dfu_room` | | | findings 2 to 5 and 7 |

About 0.85, 1.1, 1.8, 0.8, 1.1 and 0.5 million distinct states for those that pass; up to three
minutes each with two workers.

`bulk` takes both directions, one descriptor and two, the event counter and the FIFO (`Depth` = 2,
the smallest that is one). Packets of the host have 4 units, those to it up to 4; a transfer of the
function driver has 5 (a full packet and a short one) or none. A full packet and its CRC take the
core to 3 units behind the start of the second buffer (the two of the CRC and the one by which the
answer moves the address), so with 4 there is one left to go over. `MaxPkt` = 4 packets cross the
end point after a reset: two more than two descriptors hold, so that the ring comes round with one
packet unread, another taken and a third lost. `MaxLoss` and
`MaxOther` bound lost or damaged packets and events of other end points. The host may stop, so
deadlock is not checked.

`device` has one configuration. Interface 0 has a setting with an IN end point of 6 bytes and one
with 9 bytes and an isochronous IN end point of 5: sizes that are no multiple of a word, that differ
between settings, and an end point that exists in one setting only. Interface 1 is DFU run time.
The first end point has two descriptors. `MaxConf` = 2 selections in a session reach selecting
again and selecting 0 in between; a bus reset begins a new session, any number of times. The
host asks every standard request, at the end points it knows, and one for a configuration that
does not exist (`BadConf`). It behaves as a USB host does:

* It waits after a reset until the poll that was in progress has returned (`Recovered`; USB gives
  the device 10 ms) but not until the reset is handled.
* A request without an answer is repeated or followed by a reset, not by another request, and
  while one is outstanding the host does not use the end points it is about (`Affected`). With
  transactions on them, the reads and writes of the status word in `usb_ep_halt()` and
  `usb_ep_resume()` (`usb.c:546-566`) would race with the core.
* It reads descriptors and the device status before it selects a configuration.

The function driver is external too: it boots every end point in `set_conf()`, in the order of
addresses, and `usb_ep_reconf()`s the setting's in `set_intf()`; no driver in the repository has end
points of its own.

`dfu` has two adjacent zones, of two sectors and of one; a sector has 4 units, a page 2. Blocks of
4 units (a sector) and 3 (neither a sector nor whole pages) reach every branch of the ticks and
make erasing run ahead of programming. `MaxImage` = 2 sessions are enough for what one that was
cut off at any point leaves to the next, in the same zone or the other; each session may lose one
acknowledgement (`host.lost`), after which its `Delivered` promises nothing, because the driver
programs a block only once the status packet is acknowledged. That blocks fit the buffer, which
has the size of a sector, is an assumption about the host (`BlockAssumption`): it keeps to the
transfer size that the application's DFU descriptor names. The code compares the length with the
zone alone (`usb_dfu.c:233-242`). A longer block would run past `g_dfu.buf`; and `InZone` needs
the assumption too, since a longer block given up and a smaller zone selected after it would let the
erase commands pass the end of that zone. The host ends its session
at an error or an ABORT. It may stop at any time, so deadlock is not checked.

The split between the builds is itself a result, and why `bulk` is of the mini build. With one loss the default build breaks
`NoStaleData`, `ReadComplete`, `WriteIntact`, `NoFalseSuccess`, `CallbackSound` and
`TransferEnds`: all of them follow from the failure handler writing into the next token's
descriptor (finding 2). With a third transfer it breaks `NoLostWakeup` too: the lockout of finding 2
is never released. The mini build has no such handler and keeps them with one loss; with
two, `ReadComplete`, `WriteIntact`, `NoFalseSuccess` and `CallbackSound` fail there too, and with
three `NoStaleData`, because a transaction whose data was lost still waits when the data of a
SETUP comes whose token was lost, and takes it (finding 1). That this is the only way, with any
number of losses, is proved (see `XferInvariant` below). On bulk end points the default build writes DONE_ERR
into a descriptor of another transaction in the same way; and where the descriptor is the right
one, `_usb_ep_advance_xfer_out()` queues descriptor 0 again whichever of the two failed
(`dcd_no2usb.c:364-365`).

### Fairness

`TransferEnds` assumes weak fairness of `Firmware` (the application calls `usb_poll()` for ever,
and an access to a register completes) and of `Transaction` (the host goes on with the transfer it
has begun and the core answers). Nothing makes the host begin or give up a transfer or the bus
lose a packet: losses are bounded and otherwise unconstrained.

`BlockEnds` assumes weak fairness of `Tick` (a start of frame every millisecond), `FlashReady` (the
flash finishes a command) and `GetStatus` (the host that waits goes on polling); nothing makes the
host send data, start a session or reset the bus.

`Moves` assumes weak fairness of the driver's steps and of the transactions of the host, which polls
an IN end point and repeats an OUT packet for ever. Nothing makes the function driver read or
write, or the bus be reset.

`KeepsUp` assumes weak fairness of `FirmwareStep` alone: the application calls `usb_poll()` for ever.
Neither the host nor the bus has to do anything.

## Findings

1. `EVT_RTO` loads the counter with bit 9 clear (`usb_trans.v:254`), which is the bit that lets it
   count (`usb_trans.v:257-258`) and which `EVT_TIMEOUT` needs (`usb_trans.v:261`): the receive time
   out never fires, although the microcode arms it at every wait for a packet ("Default timeout
   value for waiting for a packet from the host", `microcode.py:164`). No run is needed to see it:
   `NoTimeout` of `UsbRto` proves it for all operands and packets.
2. `setup_stored`: when the data of a SETUP is lost, the core later acknowledges a SETUP packet
   that it did not store (default build), against `microcode.py:294`. The handler that does this
   can also leave the end point deaf. The device refuses a request and queues STALL in both
   descriptors; the host sends the next one, a write, which sets the lockout, and its first OUT
   data packet is lost; the host gives up and sends SETUP again. That token ends the wait, the handler
   of the OUT transaction runs under the lockout and marks the SETUP descriptor DONE_ERR, and the
   firmware queues it again (`usb_ctrl_ep0.c:306-312`) without releasing the lockout, which it
   does only for a SETUP that was received. From then on every SETUP is ignored, up to a bus reset.
   TLC finds this in an instance like `control_full` with `MaxXfer` = 3 (`NoLostWakeup`, 39 states).
3. `event_wrap`: the event counter has 4 bits and wraps (`usb.v:534-545`). `usb_poll()` reads it
   before it calls `usb_ep0_poll()` (`usb.c:424-433`), whose loop goes on as long as it finds a
   packet done (`usb_ctrl_ep0.c:238-381`). A read of 17 packets that the host fetches as fast as
   the loop queues them ends with the counter at zero and a packet the firmware has not seen:
   "Event pending" (`mem-map.md`) is clear, `usb_poll()` returns at once from then on, and the
   transfer hangs without any loss on the bus. With a read of 15 packets TLC finds no such state,
   and a loop that finds nothing to do in between returns, so that the next poll reads the counter.
4. `setup_kept`: a SETUP or OUT token for another device fetches a descriptor too, and the data
   after it is stored in its buffer, lockout or not (`usb_trans.v:282`, `usb_trans.v:450`). In
   the model that overwrites a SETUP packet the firmware has not read yet.
5. `dfu_room`: the check that a block "doesn't overflow" the zone (`usb_dfu.c:236-238`) counts from
   the erase address instead of the programming address. With blocks smaller than a sector,
   the last sector of a zone takes one block and no more.
6. `bulk_spill`: what comes in IDLE without a token is "not token, ignore packet"
   (`microcode.py:194`), but after a packet was accepted its bytes are stored from the end of that
   packet on, since the write back opens the buffer again after the ZL of the answer
   (`usb_trans.v:343-353`, `usb_trans.v:425-432`, `usb_trans.v:450-452`). `dcd_edpt_open()` puts the
   two buffers of an OUT end point side by side (`dcd_no2usb.c:206`, `dcd_no2usb.c:722-723`): with a packet unread in the second, one
   taken in the first and the next OUT token lost, the data after that token goes over the unread
   packet, and the driver hands it on as the host's. In the model nothing else goes wrong: the
   descriptors, the lengths and the order stay right, and the host, which got no answer, sends
   the packet again.
7. `status_out`: "If we're done, setup the OUT ack" (`usb_ctrl_ep0.c:111`) is asked as whether the
   packet just queued is short. After a read of a multiple of the packet length whose last
   acknowledgement is lost, the host goes on to its status stage and the device waits for it to
   fetch the last packet: the transfer never ends.
8. GET_STATUS of an interface: "Check interface exits" (`usb_ctrl_std.c:32`) is above a test the wrong
   way round (`usb_ctrl_std.c:33`): an interface that exists is refused, one that does not is
   answered. This is seen by reading one line and has no run; `AnswersTrue` exempts this request.

## Proofs

`ControlXferProofs` proves for every set of requests, packet length, bound and, where nothing
else is said, either build:

* `Inductive`, `TypeCorrect`: `IndInv` is inductive, so `TypeOK` always holds.
* `LockoutCorrect`: `LockoutCoversHandling`.
* `BuffersCorrect`, `SetupKeptCorrect`: `NoBufferRace` and `SetupKept`, when `MaxOther = 0`.
  With tokens for other devices both are false (finding 4).
* `DescriptorCorrect`: `NoLostDescriptor`, when `IgnoreRxErr`, with any number of tokens for other
  devices. In the default build it is false: an OUT packet with an error is written back as DONE_ERR
  (`microcode.py:391-401`) although the lockout is set, which is there to keep such
  transactions away from the firmware (`architecture.md:44-50`), and the firmware may have changed
  the descriptor.
* `XferInvariant`, and from it `NoStaleDataCorrect`, `ReadCompleteCorrect`, `WriteIntactCorrect`,
  `NoFalseSuccessCorrect` and `CallbackSoundCorrect`: control transfers end to end, when
  `IgnoreRxErr` and `MaxOther = 0`, with any number of losses and transfers given up anywhere, as
  long as no SETUP token is lost while the core waits for the packet of an OUT transaction
  (`[][~SetupMissed]_vars`).
* `OneLossCorrect`: all five, without that condition, when `MaxLoss <= 1`.
* `WakeupCorrect`: `NoLostWakeup`, when `IgnoreRxErr`, on any bus, as long as the event counter does
  not wrap (`[][~EventsWrap]_vars`).

The argument: `IndInv` adds to the types what the parties know of each other. A core that expects
a SETUP packet was dispatched with the lockout clear, on a ready SETUP descriptor, and only an
accepted SETUP sets it (`SieOK`). A SETUP descriptor that is done therefore means that the
lockout is set, and it stays until the firmware, which saw it done, releases it (`LockoutOK`);
`Unread` are the places where what the firmware saw is out of date. The proof is by actions:
`BusSteps` for packets, `FirmwareLockout` for the firmware, with one lemma for the effect of a
failure handler (`FailIntoKeeps`, `TokenKeeps`). `BuffersOK` adds that a descriptor the core is
using is not one the firmware takes for done, and that outside a transaction nothing can be
stored: `TokenBuffers`, `PacketBuffers`, `FirmwareBuffers`, `BuffersStep`. TLC checked `IndInv`,
`BuffersOK` and `DescriptorsOK` as invariants of these instances first.

`DescriptorsOK` says why a write back hits the descriptor as it was fetched. `FetchOK`: a transaction
that may still write has the descriptor of the RAM in its registers, ready, and the lockout, clear
at its token, is clear still: a SETUP packet would have ended the transaction. `SeenOK`: what the firmware read of a descriptor that was not ready, and so is its own,
still holds when it acts on it. `StagesOK`: the descriptor it queues without having looked at it (a
status stage, a STALL) is not queued already. So the firmware writes a descriptor only under the
lockout or when it is not ready (`FirmwareAccess`), and the core writes only ready ones, without the
lockout (`TokenFetch`, `PacketFetch`, `BusFetch`); from this each side keeps the other's part of the
invariant (`FirmwareFetch`, `BusFirmware`).

The two conditions on the behaviour are what the code does wrong, no more. `SetupMissed` is a step
of the bus: since there is no time out (finding 1), a core whose OUT packet was lost takes the next
data packet for it, and if a SETUP token is lost, that is the data of the SETUP. It needs two
losses, which `LossOK` says: as long as nothing was lost, the core waits for a packet only when the
host is about to send it. `EventsWrap` is the step of finding 3.

`XferInv` ties the end to end state of a transfer together; none of the five is inductive, since each
depends on what the packets still queued would do. Its parts:

* `StatusOK`, `BusOK`: what the core decided at a token is what the status and the descriptors say,
  and when the host and the core are in the middle of the same packet.
* `SeenSetupOK`, `NumbersOK`, `FreshOK`: a SETUP packet the firmware saw is the last one, no one
  knows of a request that the host has not sent, and of a SETUP packet that is sent again, since its
  acknowledgement was lost, no stage has gone on yet.
* `PlacesOK`, `InDataOK`, `OutDataOK`: between the packets that the host has (or sent) and those of the
  request block there is one at most, in the descriptor, and the data toggles of host, core
  and descriptor tell whether the other side has it. This is what a retransmission after a lost
  acknowledgement rests on.
* `BegunOK`: `ReadGoing` and `WriteGoing`, the stages of host and firmware that may meet, and what is
  queued in each. `FinishedOK`, `GotOK`: the host finished only what the firmware carried through, and
  has the beginning of its data.

The bus keeps them by the cases of a packet (`BusCases`: what a step of host and core leaves alone,
in terms of the transfer), the firmware by the cases of `usb_ep0_poll()` (`FwCases`), so that each part
is proved against a few lines instead of the whole of the core. TLC checked `XferInv` and its parts first.

`WakeInv` adds to `IndInv` and `DescriptorsOK` when a descriptor may be done with no event pending: the
firmware has still to look at it in this pass (`Unlooked`), saw it done and is about to handle it, or
goes round the loop again because it handled another (`Returns`, `usb_ctrl_ep0.c:376-381`). `WakeSetup` also
says that the lockout is set only with a SETUP packet to be read. The core raises an event with every
descriptor it finishes (`usb_trans.v`, NOTIFY) and the lemmas for the firmware (`PollMove`,
`ActMove`, `SetupMove`) follow the loop. In the default build it is false (finding 2).

`UsbDfuProofs` proves for all zones that consist of sectors, every size of sector and page, and blocks of
up to a sector:

* `FlashInductive`: the addresses keep `start <= prog <= erase <= end`, `erase` stays aligned, an
  operation in progress ends within the zone, and programming stays behind what was erased as
  long as the operation belongs to the session.
* `InZoneCorrect`: `InZone`.
* `ContentInductive`, and from it `ErasedFirstCorrect` and `DeliveredCorrect`: what the flash, the buffer
  and the host hold. `TypeCorrect` follows as well; that no offset passes the buffer is what
  `BlockAssumption` supplies, not what the code sees to.

`InZone` alone is not inductive: that an erase command ends in the zone needs the alignment of
`erase` and of the zone's end (`NextSector`), and that a block does, across a `SET_INTERFACE` that
leaves the old operation running, needs that a block is no longer than a sector and a zone no
shorter. The proof has one lemma per group of actions (`TickFlash`, `DownloadFlash`, `OtherFlash`,
`StackFlash`).

Neither are `ErasedFirst` and `Delivered`. `EraseInv` says that the flash is erased from what the
running block has programmed (`Fresh`) up to `fl.erase`, and that a block which was begun and not
finished, and for which something is erased, keeps the session from beginning another: only a
`SET_INTERFACE`, which starts over at the zone's beginning, follows it. `ImageInv` says what of the
image is in the flash and what of the block in the buffer, by what the host waits for. The
actions that end a session are one case (`Ending`), as are those that change the state only
(`Restated`) and those that start one (`SessionContent`).

`UsbEvents` proves `NoSilentDropCorrect` for every depth above 1: a FIFO that is full has its pending
flag set, the flag of an overflow is set in the cycle after the drop and cleared only by the read
that reports it, and a read and an event in one cycle keep the level.

`BulkXferProofs` proves for the mini build and every packet size, set of transfers, number of packets,
losses and resets, either direction, one descriptor or two, event counter or FIFO:

* `PipeImplemented`: `IsPipe`, the refinement of `BulkPipe`. It maps what was received with the bytes
  of the packets in `spoilt` put right (`Repaired`), so it claims the content of every packet but those,
  and place and length of those too; `spoilt` gains a number only in a step that stores data
  without a token over an unread packet (`Spoils`). Opening is `Connect`, `dcd_edpt_xfer()` is
  `Write` or `Read`, a packet the host offers for the first time `HostSends`, one it receives for the
  first time `HostGets`, the driver's copy of a packet `Take`, the start of a bus reset `Reset`; every
  other step is one the pipe does not see.
* `RaceFree` and `NoWriteLost`: `NoRace`, which is about transactions and not about data without a
  token (finding 6), and `NoLostWrite`; `TypeCorrect`: `TypeOK`.
* `EventsCorrect`: `NoSilentDrop` with every step of core, driver and bus, in either build.

None of them is inductive, and what makes them so is one invariant, `BulkInv` (`Inductive`):

* `RingOK`: the driver's two indices and the core's agree with the states of the two descriptors, which
  are done, then ready, then empty in the order of the ring. `RingTakes`, `RingRetires` and `RingFills`
  say what one turn of core or driver does to it.
* `QueueOK` (to the host): there is a number `q` such that packets up to `q` are queued, the last ones
  of them in the descriptors that are ready, and what is left of the transfer is cut as `PacketsOf`
  says (`InProgress`). `ArrivedOK` (from the host): the descriptors that are done hold the packets
  after those that the driver copied.
* `Ahead`, one if the toggles of host and core differ: the host has a packet that the core does not
  know to be acknowledged, or the other way round. A lost packet changes nothing but the phase of the
  host (`QuietInv`), and a repeated one is told by its toggle.
* `FetchedOK`: what the core fetched at the token is still what the registers hold when it writes back,
  since the driver writes only to descriptors that are not ready (`DriverWrites`).
* `SpillOK`: data without a token goes to the second buffer, if anywhere, and if a packet is in there it is
  the one that the driver reads next (`PastOK`): this is why `spoilt` names the right packet, and
  why `Holds` need not say what is left of a packet in it.
* `PlaceOK`, `CoreOK`, `PhaseOK`, `ClosedOK`, `OpenOK`: where driver, core and host are, and what each
  knows there.

`IgnoreRxErr` is a hypothesis of all of them but `EventsCorrect`: the default build breaks them, as said
under Runs. One conjunct of `Function` matters here: an end point is opened while no transaction of
an earlier session waits, because the packets of the SET_CONFIGURATION that opens it have ended it. For the same reason `sie.past` is
cleared there: the last packet that the core saw was one of end point 0.

`UsbDeviceProofs` proves for any end points, configurations, settings, descriptors, addresses and
number of selections:

* `TypeCorrect`: `TypeOK`. It needs to know what requests there are (`RequestsOK`: the host asks
  only for what exists or for `BadConf`, and a SETUP packet that is not answered holds the lockout)
  and what a selection in progress works on (`ConfiguringOK`).
* `BuffersApartCorrect`: `BuffersApart`. `MemoryOK` says that each buffer lies between those of end
  point 0 and the memory not given away yet; `ResettingOK` that there is no end point while
  `usb_bus_reset()` runs, so that resetting the allocator in the middle of it is safe.
* `SessionCleanCorrect`, `AddressAgreesCorrect`: `SessionClean` and `AddressAgrees`. Both rest on
  `SessionInv`: what the host believes since its reset (`HostOK`); that a host which does not wait
  for the reset to be handled gets no answer until it is (`UnhandledOK`), since the old address
  or the missing end point 0 stand in the way; and what is left once it is handled (`SessionOK`,
  `AddressOK`).
* `RoomForPacketsCorrect`: `RoomForPackets`, with any sizes in any order of settings. `AllRoomy`: each
  end point of the selected configuration has a buffer for the largest packet of any of its
  settings, as soon as it is booted; `ConfiguredOK`: a setting is only ever selected while
  the device is configured.
* `DriversCalledInOrderCorrect`: `DriversCalledInOrder`, the refinement of `UsbFnDriver`. Each step of
  the device is one the drivers do not see (`QuietDrivers`) or the promised call (`StateDrivers`,
  `CalledDrivers`). `DriversOK` says that what the drivers were told is what `g_usb` holds, and
  that an interface has a setting as soon as its selection is done.

The proofs go by groups of actions, firmware and host apart. TLC checked `ConfiguredOK`, `RoomOK` and
`DriversOK` as invariants of the `device` instance first.

`UsbAgreeProofs` proves `EndPointsAgreeCorrect` and `AnswersTrueCorrect`: `EndPointsAgree` and
`AnswersTrue`, for any descriptors, on top of what `UsbDeviceProofs` shows. `AgreeOK` is what makes them
inductive:

* `UsedOK`: what the host uses is configured as the host believes, except for the end points that the
  request it waits for is about; and for those as well if that request is one the device refuses. A
  halt leaves type and packet size alone while it is asked for.
* `AcceptedOK`: between the answer of the firmware and its acknowledgement, which may be lost and
  asked for again, the device is already what the host will believe (`Carried`). This is why a host
  that completes a request learns the truth (`CompleteUsed`), whether the core saw the acknowledgement
  or not.
* `SelectionMade`: the order in which `_set_configuration()` calls the drivers and boots end points.
  Settings already dispatched have their end points fresh, and the DFU run time driver found its
  interface, so `DFU_DETACH` is not refused.
* `SelectedOK`, `AskedOK`, `UnreadOK`, `StallOK`: configuration and settings agree unless they are being
  selected; requests are about what is used; an answer still to be read is that of the request the
  host waits for, and it is true.

They need one assumption more on descriptors than the other proofs, `SettingAssumption`: a setting is
described once, and an end point belongs to one interface. USB demands both, and the stack
relies on them: `usb_desc_find_intf()` takes the first descriptor of a setting, and
`usb_ep_reconf()` resets the end points of a setting without asking who else has them. TLC checked
`AgreeOK` as an invariant of the `device` instance, and its parts on one with two configurations, first.

Assumptions: those on the constants, which TLC evaluates in every run. `UsbRto` proves `NoTimeout`
from the fact that bit 9 stays clear.

Model-checked only: `TransferEnds`, `BlockEnds`, `Moves` and `KeepsUp`. Liveness under fairness is out
of the prover's reach, as is induction over data and anything that uses a RECURSIVE operator. Every
other property of a passing run has a theorem.

## Not modelled

* The line and packet layers. What outlives a packet there is nothing; what they do to one is that
  it is good, damaged or missing, and those are actions of `UsbTrans`. CRC and bit stuffing are
  functions of bit strings, on which a model would repeat the Verilog.
* The instruction sequencer and the fetch pipeline of `usb_trans.v` and the arbitration of the status
  RAM (`usb.v:384-395`) clock by clock; races of single cycles between a write back and an
  access of the soft core to the same word.
* Isochronous transactions, packets longer than a descriptor (what is stored is cut, the transaction
  is not), the copy loops word by word.
* Where data without a token goes other than to the buffer behind on the same end point (finding 6).
  After a packet of an OUT end point's last or only buffer that is what was allocated next, the
  buffer of another end point; after an IN packet it is the receive memory at the address of the
  IN buffer; on end point 0 of `usb_ctrl_ep0.c` the descriptors for data have address 0, so nothing is
  stored after them, and after a SETUP packet that was accepted it is the memory behind that packet. An
  application with several OUT end points has to reckon with the same loss on each of them. Nor is
  the transfer that opens an end point: what its packets leave in `addr` is not modelled.
  A damaged token is a SOF followed by a lost token.
* SOF ticks (`usb_get_tick()`, the `sof` callback) other than as what ends a suspension and a wait; the
  counters of bus reset and suspend, which are a choice.
* End point 0, halts, the allocator and `dcd_set_address()` of the tinyusb driver. Its end point 0 runs
  on the same core as `ControlXfer`, but the transfers are tinyusb's, which is not in the
  repository. By inspection: `dcd_set_address()` waits with interrupts off for the host
  (`dcd_no2usb.c:644`), `dcd_edpt_clear_stall()` leaves the data toggle (`dcd_no2usb.c:824`).
* DFU vendor requests (`usb_dfu_vendor.c` shares the buffer), what UPLOAD returns to the host, a
  host that goes on with a download after an ABORT without selecting the interface again, and
  Microsoft descriptors, which are data.
* `usb_unregister_function_driver()`, which nothing calls (its loop skips drivers, `usb.c:517`).
* The test benches drive stimuli without checking anything; descriptor tables and
  `usb_gen_strings.py` are data.

What the code does that the properties leave room for, since no doc says otherwise:

* GET_CONFIGURATION between a bus reset and the first selection answers with the configuration of
  the session before (`usb_ctrl_std.c:177`); `AnswersTrue` speaks of sessions that selected.
* SET_CONFIGURATION 0 leaves a null pointer that the following search goes through
  (`usb_ctrl_std.c:217`): it finds nothing (`NullEnds`) or does not return (`NullHangs`), which
  `KeepsUp` excuses. The end points of the configuration stay as they were
  (the FIXME of `usb_ctrl_std.c:207`), and so do those a new setting does not have.
* The state USB_DS_ADDRESS is never entered. After `usb_connect()` the reset flag that is still set
  from before the pull up makes the state DEFAULT without a reset of the host.
* The allocator only grows until the next bus reset (`usb.c:574`): `BuffersApart` says that buffers
  are disjoint, not that they end within the memory.
