# Crazyradio 2 firmware in TLA+

Models, model-checking runs and proofs for the firmware in `src/`. Source lines
are those of `src/src/esb.c`, `src/src/legacy_usb.c` and their neighbours.

The firmware is a USB dongle with a radio. A host configures it by vendor
requests and sends packets through a bulk endpoint. Three contexts share the
work, and most of what can go wrong lies between them:

- the **USB stack's thread** runs `crazyradio_vendor_handler()` and
  `crazyradio_out_cb()`, queues what the host asks for and scans channels itself;
- **`usb_thread()`** takes commands from the queue and calls the driver;
- **`radio_isr()`** preempts both, and runs while the radio goes on by itself
  through shortcuts and PPI channels.

## Inventory

| Component | State | Operations | What makes it correct |
|---|---|---|---|
| Radio driver, `esb.c` | `radio_busy`, `radioXferDone`, `sending`, `timeout`, `pid`, mode flags, settings, radio and timer registers | `esb_send_packet`, setters, carrier, sniffer start/stop/send, `radio_isr` | an ack is reported only if a receiver sent one; modes exclude each other; nothing is left over between calls; calls return |
| USB commands, `legacy_usb.c` | `command_queue`, `usb_radio_mutex`, `state`, the IN endpoint | vendor requests, OUT transfers, `usb_thread`, `fw_scan` | packets go out with the settings before them; each gets its answer; a full queue clears |
| Sniffer queue, `legacy_usb.c` | `sniffer_queue`, `sniffer_drop_count` | `sniffer_rx_callback`, the poll, purge | every packet delivered, queued or counted; no packet of an older session |
| OUT framing, `crazyradio_out_cb` | `accumulating`, a partial command | one call per transfer | a command is what the host sent as one message |
| Data path, `usb_thread` | `packet`, `ack`, `arc_counter`, `usb_answer` | split, header, send, answer | packets carry the message and nothing else; an answer is the one to this packet |
| Link | `pid` and pipe 0's address here, the last PID in each receiver | send, retry, broadcast, receive | a packet is passed on at most once, in order, to the one it is for |
| Front end, `fem.c` | two pins, SPI registers | set pins, power | a packet goes out through the amplifier alone, an ack comes in through the receive path alone (the sniffer may receive with both pins set, see *Findings*) |
| LEDs, `led.c` | three pins, three timers | set, pulse | the blue LED is on while sniffing |
| `main.c`, `system.c` | — | start-up, reset | — |

They interact by calls (`usb_thread` and `fw_scan` into the driver, under
`usb_radio_mutex`), by the two message queues, by the semaphore the ISR gives,
and by the sniffer's callback in the ISR. The hazards, each at its line, are in
`PROJECT.json`.

## Modules

How they are composed (`->` extends, `=>` implements):

```
Esb -> RadioHw            Esb       => Driver       (atomic calls)
LegacyUsb                 LegacyUsb => InOrder      (one FIFO server)
                          LegacyUsb => Driver       (asks no more of it)
DataPath -> OutFraming    DataPath  => OutFraming   (its framing)
DataPath -> EsbLink
```

The firmware is seen three times, each time with the detail of one question:
`Esb` has the driver's instructions between two interrupts and knows nothing of
contents; `LegacyUsb` has the threads, the queue and the settings, with a call of
the driver as one step; `DataPath` has the bytes and the packets, with the
settings still while a message is under way. What one leaves out the other has,
and the abstract modules are the seams: `Driver` is implemented from below by `Esb` and
kept to from above by `LegacyUsb`, which justifies that module's single step for a
call, and `InOrder` justifies the settled settings of `DataPath`.

### `RadioHw` — the peripherals

`RADIO` with the shortcuts `READY_START`, `END_DISABLE` and `DISABLED_RXEN`,
`TIMER0` with `CC[1]` and `CC[2]`, and PPI channels 22, 26 and 27. It is not code
of the repository: every register is one `esb.c` uses. Time is order:
`cc1 = "ahead"` means a compare is still to come. Two constants say what may
overtake what, a third whether the hardware may fail:

- `LateIsr = FALSE`: the radio waits for its interrupt to be served. The code is
  written for this: `radio_isr()` has the 40–130 us of a ramp-up to take the
  `DISABLED_RXEN` shortcut away. `TRUE` lets the radio go on.
- `SlowDisable = FALSE`: a DISABLE (up to 140 us) that a call leaves running is over
  before the next call starts the radio. This is an assumption, not a promise of the
  code: ten commands may be queued and are executed back to back, and `fw_scan()`
  loops. Only two calls return with a DISABLE running (`QuietWhenIdle` allows it to
  them): the carrier's switching off (453) and the recovery from a stuck radio (385);
  a window of microseconds after each. Without the assumption (`TRUE`) a packet sent
  directly after SET_CONT_CARRIER 0 may find its TXEN ignored and take the carrier's
  DISABLED for its own end, and TLC violates `AckSound`; a sniffer started there is
  set going by its own shortcut, and calls return all the same (`CallsReturn` was
  checked). Within a call no such thing is assumed: the code sleeps 200 us
  (`SleepElapsed`).
- `MayStick = TRUE`: a ramp-up may not end (`Stick`), which only a DISABLE task
  gets the radio out of. This is what the two time-outs of the code are for
  (lines 365 and 581); `esb_late` and `esb_stuck` run with it.

### `Esb` — the driver

One action per stretch of code between two points where another context may act.
`Threads` are the callers, `UsbThread` one of them; the others scan.

| Code | Actions |
|---|---|
| `esb_send_packet` 311–430 | `SendCheck` (flags, before the lock), `SendLock`, `SendDropped`, `SendStart`, then per try `SendArm`, `SendFire`, `SendTake`, `SendClean`, at last `SendEnd`; `SendStuck`, `StuckIrqOn` when the semaphore times out |
| setters 233–243, 303–309 | `SetArc`, `SetAckEnabled`, `SetPacketLossSimulation` |
| carrier 432–463 | `CarrierCheck`, `CarrierSet` |
| `esb_sniffer_start` 476–528 | `StartCheck`, `StartLock`, `StartRx` |
| `esb_sniffer_send` 539–617 | `SnifSendCheck`, `SnifSendLock`, `SnifSendOff`, `SnifSendFire`, `SnifSendTake` or `SnifSendTimeout` and `SnifSendReset`, `SnifSendRestart` |
| `esb_sniffer_stop` 619–663 | `StopCheck`, `StopLock`, `StopDone` |
| `radio_isr` 65–143 | `IsrSniffer`, `IsrSent`, `IsrSentNoAck`, `IsrReceived` |
| `usb_radio_mutex` (`legacy_usb.c`) | `Acquire`, `Release` |

The history variables `heard` (a receiver heard the current packet) and `fresh`
(a good packet arrived that nobody has read) belong to `RadioHw`; no code reads
them. Packet contents, PIDs, channels, bitrates and addresses are abstracted.
`fem_txen` and `fem_rxen` are the front end's two pins, switched where the code
calls `fem_txen_set()` and `fem_rxen_set()`, each of which sets its own pin only.
The ISR clears `END` as well as `DISABLED`; only the latter matters.

### `Driver` — what the driver promises

Four variables and one action per call. `Esb` implements it (`CallsAreAtomic`)
with `sniffing` true while the sniffer pauses for a broadcast: the code clears
`sniffer_active` then, and a caller that looked would be let in. `LegacyUsb` makes
only such calls (`UsesDriver`), with the answer in the IN endpoint as the outcome.

### `LegacyUsb` — the command pipeline

Here a call of the driver is one step. The host is part of the module: it makes
the requests of `Setups`, sends the sizes of `Datas` with the inline headers of
`Headers`, and scans `Scans`. It remembers what it has asked for, by the
documentation (`Asked`), and each data command carries those settings as `want`.
That is the specification the pipeline is held to: *commands take effect in the
order the host sent them*.

`HostSetup`, `HostData`, `HostScan` hand a request to the USB stack's thread;
`StackPut` is `k_msgq_put(K_FOREVER)`; `ScanLock` and `ScanChannel` are
`fw_scan()` on that thread. `usb_thread()` is `GetCommand`, `NoCommand`,
`LockMutex`, then by command `Configure`, `StartSniffer`, `StopSniffer`,
`Broadcast`, or `Prepare`, `SendFirst`, `SendPacket`, `RefusePacket`, and in
sniffer mode `PollSniffer`. `SnifferRx` is the ISR's callback.

Not told apart: answer layouts (plain, inline, with RSSI), power, ARD, ARC, loss
simulation, and the requests that only read. `HostRead` frees the IN endpoint;
`usb_write()` to a busy one is lost (`Write`).

`CarefulHost` restricts the host to a use in which the code keeps its promises:
it lets a scan wait for its commands and uses it with valid settings only; after
sniffer mode it waits until the dongle has left it, and empties the endpoint; it
sends no unanswered packet with settings it knows to be invalid (the code answers
those anyway, line 569). What happens without that care is findings; that the two
threads do not lock each other out does not need it, and is checked with a host that
takes none (`usb_contention`).

`StartSniffer` joins the purge of the queue (680), the reset of the count (681) and the
start of reception (682). On a first entry the sniffer is off until the last. On a
re-entry it is on, and a packet put in between would belong to either session, with
the same settings; for a wrong count the queue's eight places would have to fill
within a few instructions.

### `InOrder` — what the pipeline promises

A queue of commands and the settings in force. A request takes effect when it is
served, a packet is sent only if those settings are the ones the host had asked
for when it submitted it. `LegacyUsb` implements it (`ServesInOrder`): `ToDo` is
the command `usb_thread()` works on, the queue, and the one the USB stack's
thread is waiting to put; `InForce` joins the two copies of the settings
(`state` and the driver's), since a channel or rate the driver refuses is kept in
`state` only.

### `OutFraming` — transfers into commands

`crazyradio_out_cb()`, one action (`OutCb`) with both its branches. The host's
message is cut into transfers of `Mps` bytes and one shorter, possibly empty. A
byte is the pair of its message and its place there, so a command tells where
each byte came from. `HostGivesUp` is the fault model: a host whose program dies
between two transfers. `crazyradio_status_cb()` is empty, so the callback keeps
its half command. `k_msgq_put(K_FOREVER)` is the guard of `Put`.

### `EsbLink` — packets on the air

The driver's PID, addresses, retry loop and loss simulation against receivers
that drop repetitions (external: Nordic's ESB in PRX mode). A try (`Try`) has an
outcome: the packet is not heard, its ack is lost, damaged, or arrives. `Stuck`
is the recovery of esb.c:365; `SnifferSend` and `SnifferSent` are the broadcast
with another address. Packets of one length have equal contents: the worst case
for the receiver's filter, which compares PID and CRC.

### `DataPath` — from endpoint to endpoint

| Code | Actions |
|---|---|
| `crazyradio_out_cb` | `Transfer` |
| `usb_thread`, normal 446–464 | `TakeNormal`, for long broadcasts `FirstSent` |
| inline 427–443 | `TakeInline`: the header's address and ack setting first |
| sniffer 372–397 | `TakeSniffer`, `SnifferEnd` |
| 469 | `SendCall`, `Radio` (a turn of the driver's loop) |
| 471–537 | `Sent`, with `Answer` in the IN endpoint |
| host | `HostMessage`, `HostDies`, `HostRead`, `Configure`, `SetMode` |

The host sends lengths the documentation allows, an answered message after it has
read the last answer, and changes settings and modes between messages. The bytes
of a command that follows a torn one are arbitrary: `HeadsOf` then gives any
header. A header's length field is the message's own. `handed` is history.

## Runs

| Run | Result | Bounds | Shows |
|---|---|---|---|
| `esb_prompt` | pass, 977k states | two threads, ARC 3 then 0 and 15, loss none or some | all safety properties of the driver, and that it implements `Driver`; `CallsProgress`, why its calls end |
| `esb_late` | pass, 804k states | one thread, ARC 1, `LateIsr`, `MayStick` | under fairness, a call returns even from a stuck radio, by the recovery paths (`CallsReturn`), and a broadcast that timed out leaves the sniffer receiving (`BroadcastRecovers`) |
| `usb_commands` | pass, 2.1M states | queue of 1, channels 42/2/101, three rates, scans of two channels, scan result of 1 | settings, answers, scans; implements `InOrder` and keeps to `Driver` |
| `usb_modes` | pass, 1.0M states | queue of 1, sniffer queue of 1, 2 unread packets | inline and sniffer mode, no answer lost between them; implements `InOrder` |
| `usb_contention` | pass, 61k states | queue of 1, scans of two channels, a host that waits for nothing | the threads meet at the mutex and at a full queue and never both wait (`NeverBothBlocked`, `StackServed`) |
| `data_path` | pass, 2.6M states | three messages of 1, 3, 4 or 5 bytes, two receivers, ARC 1, both losses | framing, contents, addresses, repetitions, answers |
| `esb_stuck`, `esb_stale_compare`, `esb_carrier`, `usb_leftover`, `usb_scan_overtakes`, `stale_answer` | violation | — | the findings below |

Why these bounds are enough: one queue place, the command being put and the one
being executed are three commands in the pipeline, and a command only interacts
with the one before it through the settings; a queue of one is full and empty
often. ARC 3, set to 0 and 15 at any time, makes the counter pass,
meet and stay below the limit, at both edges. An
overflow of the sniffer's queue needs one packet more than fits, a wrong count
one more again. A third caller of the driver would wait for `usb_radio_mutex`
like the second; the theorems hold for any number.

The sizes of `data_path` are scaled: transfers of 4 for 64, a buffer of 8 for
128, packets of 2 for 32, headers and addresses of 1 for 8 and 5, a sniffer's
packet of 4 for 63. The relations the code depends on are kept and named
(`SizeAssumption`): a header and a packet fit into one transfer, a pair of packets
into the buffer, and an address with a sniffer's packet does not fit into one
transfer. Lengths 1, 3, 4, 5 give a short transfer, an odd pair of broadcasts, a full
transfer with its empty one, and two transfers; torn messages make the buffer
overflow (4 + 4 + 1). Three messages are one torn, one spoilt by it and one after
that; in normal mode, three messages are up to six packets, so the PID wraps.
The theorems hold for all sizes.

`usb_modes` keeps the data rate at 2M in inline headers: that is the one rate
which the wrong enumeration (`InlineRate`; see *Findings*) does not disturb.

`usb_commands` has a careful host, whose scans run alone; `usb_contention` has the
other one, so a scan may begin while a command is executed, find the mutex held, hold
it while commands wait, and come between a full queue and the thread that empties it.
`esb_late` was also checked with `SlowDisable` true, in which both its properties hold.

**Fairness.** `Esb`: a thread inside a call goes on infinitely often when it can
(strong fairness: the ISR preempts it again and again while packets are sniffed,
but is short against a packet); the interrupt is served; the radio finishes what
it has started, unless it sticks. Nothing makes an address match, and no thread has to call.
`LegacyUsb`: both threads are scheduled; the host need do nothing.

### Properties

Each is stated in words above its definition, and for each `PROJECT.json` names a
plausible bug that breaks it.

- Driver: `ModeExclusion`, `AckSound`, `QuietWhenIdle`, `NoStaleCompletion`,
  `SnifferListens`, `AckWindow`, `AllTriesMade`, `FrontEndFollows`,
  `TimeoutSparesAck`, `CallbackPerPacket`, `NoPacketOverwritten`, `CallsReturn`,
  `BroadcastRecovers`, `CallsProgress`, and the refinement `CallsAreAtomic`.
- Pipeline: `SentAsConfigured`, `AnswersMatch`, `ScanUsesSettings`,
  `AnswersArrive`, `AnswerOwed`, `StackServed`, `NeverBothBlocked`, `DropsCounted`,
  `StreamOfThisSession`, and the refinements `ServesInOrder` and `UsesDriver`.
- Data path: `FramesIntact`, `CarriesMessage`, `OwnAnswer`, `PassedInOrder`,
  `SwallowedOnlyAtWrap`.

Three of them are the safety halves of liveness properties, which the prover can
reach: a call makes progress with every step its thread takes (`CallsProgress`, of
`CallsReturn`), one of the two threads can always go on (`NeverBothBlocked`, of
`StackServed`), and what will become the answer is never lost (`AnswerOwed`, of
`AnswersArrive`). What is left of each is fairness.

### Findings

1. `esb_stuck` (the interrupt prompt, a ramp-up stuck): after "radio state machine is stuck" (esb.c:385) the semaphore is
   reset before the DISABLE it waits for completes; the late ISR completes the
   next exchange before its packet is sent, which then reports an ack.
2. `esb_stale_compare`: `COMPARE[1]` latched before an exchange turns a received
   ack into a timeout.
3. `esb_carrier`: sniffer mode can be entered, and packets sent, with the carrier on.
4. `usb_leftover`: after sniffer mode a sniffed packet answers the next packet.
5. `usb_scan_overtakes`: scans overtake settings queued before them.
6. `stale_answer`: an inline answer that says "not acked" is as long as the last
   ack, damaged or dropped, and its bytes are those of an earlier answer.

Read but without a run of their own, first where the repository says otherwise:

- **Inline data rate** (legacy_usb.c:433): a header's rate, 0 for 250K, 1 for 1M and 2
  for 2M, is given to `esb_set_bitrate()`, whose enumeration begins with 1M. A header
  asking for 1M selects 2M, and one asking for 2M changes nothing;
  compatible-usb-protocol.md:349 has the settings "applied in the same way as if they
  were set using setup commands". `InlineRate` models it.
- **Packets without ack** (esb.c:414): `esb.h:54` says that a "no-ack packet will always
  be sent "arc" times in a row"; `esb_send_packet()` leaves its loop after the first.
  `SendClean` models it, and `AllTriesMade` speaks of packets that want an ack only.
- **Scans at 2 Mbps**: compatible-usb-protocol.md:269 says "If the data rate is set to
  2MBPs the scan is done every second channel"; `fw_scan()` (607) visits every channel
  from start to stop at any rate, as `ScanChannel` does. `ScanUsesSettings` is about
  the settings of each transmission, not about which channels are visited.
- **Default channel**: the documentation has 2, the code 42.

And behaviour that a property excepts or a run avoids:

- the transmit pin stays set after a packet without ack, and `esb_sniffer_start()`
  (519) then sets the receive pin too: the sniffer receives with both set
  (`FrontEndFollows` is about packets on the air, and the receive pin at rest);
- `esb_sniffer_stop()` disables the radio with the sniffer still on, and the interrupt
  hands the last packet out once more (`CallbackPerPacket` excepts it; the host has left
  sniffer mode by then, and the queue is purged when it is entered again);
- a packet that ends just as a broadcast clears `sniffer_active` (552) is neither
  delivered nor counted as dropped;
- with the carrier on, the radio receives into the sniffer's buffer before the interrupt
  is enabled (`NoPacketOverwritten` excepts it);
- the last byte of a broadcast of odd length above 32 is not sent (450; `CarriesMessage`
  excepts it);
- a new packet is lost to a receiver's filter when the dongle has sent a multiple of four
  packets since (335; `SwallowedOnlyAtWrap` says never otherwise);
- a message given up half-way is glued to the next one (`FramesIntact` says to no other);
- channels of 256 and up are truncated to valid ones, and packets are sent on the channel
  set before (legacy_usb.c:628);
- the first half of a long broadcast is sent with invalid settings (452), and packets
  refused are answered with acks disabled (570);
- a scan above channel 100 reports acks from the last valid channel (607), though
  compatible-usb-protocol.md:265 allows scans up to 125;
- the zero-length packet after a 64-byte record is written to a busy endpoint (415).

## Proofs

Every theorem holds for all values of the constants; the assumptions are those on
the constants (`ThreadAssumption`, `SettingAssumption`, `TimingAssumption`,
`FramingAssumption`, `LinkAssumption`, `SizeAssumption` and those of `LegacyUsb`),
evaluated by TLC on the runs. Two modules assume more, each in one named
definition: `EsbRadioProofs` an interrupt and a radio that keep up (`Prompt`), and
`LegacyUsbOrderProofs` a host the code keeps its promises to (`LawfulHost`).

**`EsbProofs`**, for every set of threads, every setting, and all values of
`LateIsr`, `SlowDisable` and `MayStick`: `TypeCorrect`, `NoExchangeInOtherMode`
(`ModeExclusion`), `RetriesAsSet` (`AllTriesMade`), `CallsImplementDriver`
(`Spec => Driver!Spec`), `CallsAreBounded` (`CallsProgress`).

`TypeOK` is not inductive: `arc_counter <= 16` needs that a try is left when one
is started, and that ARC and the ack setting stand still meanwhile. `LockInv`
(theorem `LockInvariant`) adds the reason: whoever is inside a call owns
`usb_radio_mutex` (`MutexOwner`), so the flags tested before `radio_busy` stay as
tested (`FlagsStayClear`) and the loop's bound stays (`TriesLeft`). `Typing` and
`Exclusion` are the inductive step, one case per action; `HwStaysTyped` is its
part about registers. The refinement needs the same invariant: a step that sets
an outcome or a flag is taken by the owner with the flags as it tested them.

`CallsAreBounded` is a termination argument without liveness. The measure is
`StepsLeft`, at most 4 steps a try for the tries left, and 6 around them. A step of
the thread takes at least one off (`MovesOn`); a step of anybody else leaves it
(`StaysPut`), because both the retry limit and the counter belong to the one call
inside (`LockInv` again). It holds with a late interrupt and a stuck radio too: there
the thread's step is the semaphore's time-out.

**`LegacyUsbProofs`**: `EveryDropCounted` (`DropsCounted`) and `NoStalePacket`
(`StreamOfThisSession`), from `SnifferInv`, which relates the queue's packets to
the session and to what was received, delivered and dropped in it.

**`LegacyUsbTypeProofs`**: `TypesHold` (`TypeOK`), which says that neither queue
nor the scan's result overruns its array and that the driver only ever holds
channels and rates the radio has, although both threads write them. It needs
`SnifferInv` and that the commands in the queue, and those the USB stack's thread
waits to put, are the host's (`Typed`), and that a scan under way has room for one
more channel and one to go to (`StackTyped`): `fw_scan()` tests for room after it
has stored. The host's values are assumed to be of their type (`SetupAssumption`,
`FlagAssumption`, `HeaderAssumption`).

The same module proves two things about the pipeline as a whole, for every host.
`NoDeadlock` (`NeverBothBlocked`): the two threads never wait for each other. `Holders`
(theorem `OneCaller`) ties `usb_radio_mutex` to the places of the code between its lock
and unlock: if `usb_thread()` waits for it, the USB stack has it, and is then in a scan,
which does not wait for the queue. `PipelineUsesDriver` (`UsesDriver`) is the upper half
of the seam with `esb.c`: each step is a call `Driver` offers or none, and what the
host is told was acked comes from a call that `Driver` lets be acked. It needs
that the mode flags are Booleans (`ModesTyped`): a request for the mode in force is then
a stutter of `Driver`, any other a switch. `CallsImplementDriver` is the lower half.

**`DataPathProofs`**: `Framing` (`FramesIntact`) from `FramingInv`: what has
accumulated is the beginning of the message under way (`WholeSoFar`), or ends with
it after the remains of a torn one (`TornSoFar`). `DataPathImplementsOut` carries
it to the whole path. `EachPassedOnceInOrder` (`PassedInOrder`) and `LossOnlyAtWrap`
(`SwallowedOnlyAtWrap`) from `LinkInv`: PIDs are packet numbers modulo four
(`ReceiverInv`), and a receiver that has heard the number on the air has heard
that packet (`CallInv`), so a repetition is always taken for one.

**`AnswerProofs`**: `AnswersAreOwn` (`OwnAnswer`). On top of these it takes that
the thread and the driver's calls keep step (`FlowInv`), that an answered message
is alone in the path (`Alone`), that the address on the air is the message's
(`Addressed`), and that an acked call has its own ack (`AckedInv`).

**`CarryingProofs`**: `PacketsCarryTheirMessage` (`CarriesMessage`). The lengths
under way are lawful in the mode, which does not change while anything is under way
(`LawfulInv`); what the thread works on is a message, or is marked torn (`ItemInv`);
and the packet, and the bytes handed to the driver so far, are the piece of it that
the mode and the packets before ask for (`HandInv`). The arithmetic of the pieces is
in `PieceLengths`, and `PieceCarries` and `HandedOver` follow the bytes.

**`EsbRadioProofs`**: what the driver and the radio do together, event by event,
for every set of threads and every setting: `AckedWasHeard` (`AckSound`),
`NothingLeftOver` (`QuietWhenIdle`), `CompletionsMatch` (`NoStaleCompletion`),
`SnifferReceives` (`SnifferListens`), `AckWindowOpen` (`AckWindow`),
`FrontEndSwitched` (`FrontEndFollows`), `AckNotCutOff` (`TimeoutSparesAck`),
`NoRepeatedCallback` (`CallbackPerPacket`), `BufferReadInTime` (`NoPacketOverwritten`),
and `RadioAnswers`: the recoveries of
esb.c:365 and 581 are never reached. None of these is inductive: each speaks of one
place of the code, and what makes it true there was armed several events before.
`RadioInv` (theorem `RadioInvariant`), on top of `LockInv`, has for each place the
one call inside may be at the states of the radio, the shortcuts and PPI channels
armed, the interrupt, the semaphore, and from which packet CRC and time-out come
(`AtRest`, `Sniffing`, `Exchanging`, `Pausing`, ...). `BufferReadInTime` needs one thing
more, `Unread`: while the sniffer is on, a packet nobody has read is there only
while the radio switches off after it or the interrupt is pending.

The assumption is `Prompt`: `LateIsr`, `SlowDisable` and `MayStick` all false.
It cannot be weakened: with any one of the three true, TLC violates each of the
nine run-checked properties. So it is the list of what the driver's timing
counts on; findings 1 and 2 are two ways in which it matters.

**`LegacyUsbOrderProofs`**: the refinement of `InOrder`, `CommandsServedInOrder`
(`ServesInOrder`), and `PacketsSentAsConfigured` (`SentAsConfigured`),
`AnswersAreExpected` (`AnswersMatch`), `AnswerNotLost` (`AnswerOwed`) and
`ScanKeepsSettings` (`ScanUsesSettings`), for every set of requests, packets and scans and all lengths
of the queues. The host's belief (`HostView`) and the settings in force (`InForce`)
differ while commands wait. The invariant `OrderInv` relates them by a chain of
views along the line of commands to do (`Linked`): each command turns the view
before it into the one after it, and each packet fits the view before it. Serving
takes the first link off (`LinkedTail`), a submission adds one (`LinkedAppend`), and
an inline header exchanges the beginning (`LinkedFrom`). The other parts: the copies of a
setting agree where a packet is past the tests (`Control`); at most one answer is
awaited, its packet or itself is always somewhere, and no record of the sniffer can
come before it (`Answering`); a scan runs
alone (`Scanning`). TLC checked `OrderInv` before the proof, with the chain computed
by recursion.

The assumption is `LawfulHost`: a `CarefulHost` that asks for channels of one byte,
scans up to channel 100, and, if it uses inline mode, stays with 2 Mbps. Each part
leaves out behaviour listed under *Findings* in which the firmware does not do what
the host asked. The constants of the two runs that check these properties satisfy it, `usb_commands`
without inline mode and `usb_modes` with one rate.

`ScanUsesSettings` used to be stated of every step while a scan is under way; the
proof attempt failed on steps of the host that leave the radio alone, and it is now
stated of the scan's transmissions, which is what the documentation speaks of.

Model-checked only: liveness (`CallsReturn`, `BroadcastRecovers`, `AnswersArrive`,
`StackServed`), which is beyond the prover; what becomes of a radio that is not
`Prompt` is checked in `esb_late` only, and proved to be no way for a call to loop.

## Plan

Done: all modules above. Left:

1. the transfers of the IN endpoint with the zero-length packet after a 64-byte
   record (legacy_usb.c:414);
2. the address bit order (`swap_bits`) against a reference.

## Not modelled

- `fem.c`'s SPI registers, power and antenna (I/O), `system.c` (two writes that
  end the program), `main.c` beyond the initial state it sets up, `esb_deinit()`
  (never called), descriptors, board and build files, log output.
- `led.c`: nothing reads a LED. Its one hazard, the blue LED's timer started at
  boot that may switch it off under a sniffer, is listed.
- RSSI values, transmit power, ARD, pipe 1's address, and answer layouts beyond
  what `Answer` tells apart.
- Inline headers whose length field is not the message's own, and messages longer
  than the documentation allows in their mode.
- The bytes of sniffed packets: the models know whether the one buffer was read
  before the next packet came (`NoPacketOverwritten`), not what is in it.
- Between settings: `DataPath` changes them with nothing under way; `LegacyUsb`
  changes them at any time.
