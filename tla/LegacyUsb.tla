----------------------------- MODULE LegacyUsb -----------------------------
(***************************************************************************)
(* The command pipeline of src/legacy_usb.c: the host, the USB stack's     *)
(* thread (crazyradio_vendor_handler() and crazyradio_out_cb()), the       *)
(* command queue, usb_thread(), the sniffer queue and the IN endpoint.     *)
(*                                                                         *)
(* A call of the driver is one step, which sets its registers (rf) or has  *)
(* an outcome; what happens inside is module Esb.  Packets have no         *)
(* contents.  Requests that set what no property here tells apart (power,  *)
(* ARD, ARC, loss simulation) and those answered without a side effect are *)
(* left out.  The host remembers what it asked for: each data command      *)
(* carries, as `want', the settings in force when the host sent it.        *)
(***************************************************************************)
EXTENDS Naturals, Sequences

CONSTANTS
  QueueLength,        \* of command_queue, 10
  SnifferQueueLength, \* of sniffer_queue, 8
  ScanLength,         \* of state.scan_result, ESB_MAX_PAYLOAD_LENGTH
  Setups,             \* the queued requests the host makes: [request |-> , value |-> ]
  Headers,            \* the settings it puts in inline headers
  Datas,              \* the sizes of the data it sends: see HostData
  Scans,              \* the scans it makes: [start |-> , stop |-> ]
  MaxUnread,          \* bound: packets sniffed and not yet taken from the queue
  CarefulHost         \* see Careful, HostSettled and HostScan

Requests == {"channel", "address", "datarate", "ack_enable", "cont_carrier",
             "inline_mode", "radio_mode", "sniffer_address"}

ASSUME LengthAssumption ==
  QueueLength \in Nat \ {0} /\ SnifferQueueLength \in Nat \ {0}
    /\ ScanLength \in Nat \ {0} /\ MaxUnread \in Nat
ASSUME SetupAssumption ==
  \A s \in Setups :
    /\ s.request \in Requests
    /\ s.request = "channel" => s.value \in Nat
    /\ s.request = "datarate" => s.value \in 0..2
ASSUME FlagAssumption ==
  \A s \in Setups :
    s.request \in {"ack_enable", "cont_carrier", "inline_mode", "radio_mode"} =>
      s.value \in BOOLEAN
ASSUME HeaderAssumption ==
  \A h \in Headers :
    h \in [channel : 0..255, datarate : 0..2, ack : BOOLEAN, address : {h.address}]
ASSUME HostAssumption ==
  /\ \A s \in Scans : s.start \in 0..255 /\ s.stop \in 0..255
  /\ Datas \subseteq {"tiny", "short", "long"}
  /\ CarefulHost \in BOOLEAN

VARIABLES
  host,            \* the settings and the mode the host believes it has set
  awaiting,        \* the host has sent a packet and wants its answer
  stack,           \* what the USB stack's thread is doing
  command_queue,
  usb_radio_mutex, \* "none", "usb" or "stack"
  pc, command,     \* usb_thread(), and the command it works on
  sniffer_loop,    \* this turn of its loop is the sniffer's
  state,           \* legacy_usb.c's state
  rf,              \* the driver's settings
  continuous_carrier_enabled, sniffer_active,
  sniffer_queue, sniffer_drop_count,
  session, unread, \* history: the sniffing session's parity, and how many of its
                   \* packets usb_thread() has not taken from the queue
  in_ep            \* the IN endpoint's buffer

hostVars    == <<host, awaiting>>
threadVars  == <<pc, command, sniffer_loop>>
driverVars  == <<rf, continuous_carrier_enabled, sniffer_active>>
snifferVars == <<sniffer_queue, sniffer_drop_count, session, unread>>
vars == <<hostVars, stack, command_queue, usb_radio_mutex, threadVars, state,
          driverVars, snifferVars, in_ep>>

Nothing == [type |-> "nothing"]
Idle    == [at |-> "idle"]

Settings(c, d, a, x) == [channel |-> c, datarate |-> d, ack |-> a, address |-> x]
Valid(s) == s.datarate # 0 /\ s.channel <= 100

TypeOK ==
  /\ host.mode \in {"off", "on", "left"} /\ host.inline \in BOOLEAN
  /\ awaiting \in BOOLEAN
  /\ stack.at \in {"idle", "put", "scanLock", "scan"}
  /\ Len(command_queue) <= QueueLength
  /\ usb_radio_mutex \in {"none", "usb", "stack"}
  /\ pc \in {"top", "lock", "run", "sendFirst", "check", "poll"}
  /\ command.type \in {"nothing", "setup", "data"}
  /\ state.channel \in 0..255 /\ rf.channel \in 0..100
  /\ state.datarate \in 0..2 /\ rf.datarate \in 1..2
  /\ Len(state.scan_result) <= ScanLength
  /\ Len(sniffer_queue) <= SnifferQueueLength
  /\ in_ep.type \in {"nothing", "answer", "record"}

Init ==
  /\ host = [set |-> Settings(42, 2, TRUE, "e7"), inline |-> FALSE, mode |-> "off"]
  /\ awaiting = FALSE
  /\ stack = Idle
  /\ command_queue = << >>
  /\ usb_radio_mutex = "none"
  /\ pc = "top" /\ command = Nothing /\ sniffer_loop = FALSE
  /\ state = [channel |-> 42, datarate |-> 2, ack_enabled |-> TRUE,
              inline_mode |-> FALSE, sniffer_mode |-> FALSE, scan_result |-> << >>]
  /\ rf = Settings(42, 2, TRUE, "e7")
  /\ continuous_carrier_enabled = FALSE /\ sniffer_active = FALSE
  /\ sniffer_queue = << >> /\ sniffer_drop_count = 0
  /\ session = 0 /\ unread = 0
  /\ in_ep = Nothing

-----------------------------------------------------------------------------
\* The host.  A request or a transfer reaches the USB stack's thread when it is
\* done with the one before.

\* What the documentation says a request does.
Asked(h, s) ==
  CASE s.request = "channel"  -> [h EXCEPT !.set.channel = s.value, !.inline = FALSE]
    [] s.request = "address"  -> [h EXCEPT !.set.address = s.value, !.inline = FALSE]
    [] s.request = "datarate" -> [h EXCEPT !.set.datarate = s.value, !.inline = FALSE]
    [] s.request = "ack_enable" -> [h EXCEPT !.set.ack = s.value, !.inline = FALSE]
    [] s.request = "sniffer_address" -> [h EXCEPT !.set.address = s.value]
    [] s.request = "inline_mode" -> [h EXCEPT !.inline = s.value]
    [] s.request = "radio_mode" /\ s.value -> [h EXCEPT !.mode = "on", !.inline = FALSE]
    [] s.request = "radio_mode" /\ ~s.value ->
         [h EXCEPT !.mode = IF h.mode = "on" THEN "left" ELSE h.mode]
    [] OTHER -> h

AllDone == stack = Idle /\ command_queue = << >> /\ pc = "top" /\ ~state.sniffer_mode

\* A careful host sends nothing between leaving sniffer mode and finding the
\* dongle out of it and the IN endpoint empty, and nothing unanswered with
\* settings it knows to be invalid.
Careful(want, answered) == host.mode # "left" /\ (answered \/ Valid(want))

HostSetup(s) ==
  /\ stack = Idle
  /\ host' = Asked(host, s)
  /\ stack' = [at |-> "put", cmd |-> [type |-> "setup", setup |-> s]]
  /\ UNCHANGED <<awaiting, command_queue, usb_radio_mutex, threadVars, state,
                 driverVars, snifferVars, in_ep>>

\* "tiny": too short for a broadcast, < 6 bytes; "long": > 32 bytes.  Outside
\* inline mode the header is void.  The answer is read before the next packet is
\* sent.
HostData(d, h) ==
  LET inline   == host.inline /\ host.mode # "on"
      want     == IF inline THEN h ELSE host.set
      answered == host.mode # "on" /\ (inline \/ want.ack)
  IN /\ stack = Idle /\ ~awaiting
     /\ CarefulHost => Careful(want, answered)
     /\ host' = [host EXCEPT !.set = want]
     /\ awaiting' = answered
     /\ stack' = [at |-> "put",
                  cmd |-> [type |-> "data", data |-> d, want |-> want,
                           inline |-> inline, broadcast |-> host.mode = "on",
                           awaited |-> answered]]
     /\ UNCHANGED <<command_queue, usb_radio_mutex, threadVars, state, driverVars,
                    snifferVars, in_ep>>

\* A careful host scans when its commands are done and its settings are valid.
HostScan(s) ==
  /\ stack = Idle /\ ~awaiting
  /\ CarefulHost => AllDone /\ Valid(host.set)
  /\ stack' = [at |-> "scanLock", next |-> s.start, stop |-> s.stop, want |-> host.set]
  /\ UNCHANGED <<hostVars, command_queue, usb_radio_mutex, threadVars, state,
                 driverVars, snifferVars, in_ep>>

\* The host reads when it wants an answer, sniffs or, careful, clears up.
HostRead ==
  /\ in_ep # Nothing
  /\ awaiting \/ host.mode = "on" \/ (CarefulHost /\ host.mode = "left")
  /\ in_ep' = Nothing
  /\ awaiting' = FALSE
  /\ UNCHANGED <<host, stack, command_queue, usb_radio_mutex, threadVars, state,
                 driverVars, snifferVars>>

HostSettled ==
  /\ host.mode = "left" /\ (CarefulHost => AllDone /\ in_ep = Nothing)
  /\ host' = [host EXCEPT !.mode = "off"]
  /\ UNCHANGED <<awaiting, stack, command_queue, usb_radio_mutex, threadVars, state,
                 driverVars, snifferVars, in_ep>>

Host ==
  \/ \E s \in Setups : HostSetup(s)
  \/ \E d \in Datas, h \in Headers : HostData(d, h)
  \/ \E s \in Scans : HostScan(s)
  \/ HostRead \/ HostSettled
-----------------------------------------------------------------------------
\* The USB stack's thread: crazyradio_vendor_handler() and crazyradio_out_cb().
NeverFull == FALSE                          \* mutant: the put does not wait
QueueFull == Len(command_queue) = QueueLength

\* k_msgq_put(&command_queue, &command, K_FOREVER)
StackPut ==
  /\ stack.at = "put" /\ ~QueueFull
  /\ command_queue' = Append(command_queue, stack.cmd)
  /\ stack' = Idle
  /\ UNCHANGED <<hostVars, usb_radio_mutex, threadVars, state, driverVars,
                 snifferVars, in_ep>>

MutexFree == usb_radio_mutex = "none"
KeepMutex == UNCHANGED usb_radio_mutex      \* mutant: an unlock is forgotten
Unlock    == usb_radio_mutex' = "none"

ScanLock ==
  /\ stack.at = "scanLock" /\ MutexFree
  /\ state' = [state EXCEPT !.scan_result = << >>]
  /\ IF stack.stop < stack.next
     THEN stack' = Idle /\ UNCHANGED usb_radio_mutex
     ELSE stack' = [stack EXCEPT !.at = "scan"] /\ usb_radio_mutex' = "stack"
  /\ UNCHANGED <<hostVars, command_queue, threadVars, driverVars, snifferVars, in_ep>>

\* esb_set_channel()
KeepChannel(c) == rf                        \* mutant: the scan stays where it is
OnChannel(c) == IF c <= 100 THEN [rf EXCEPT !.channel = c] ELSE rf

\* esb_send_packet() returns at once in these modes.
CarrierUnseen == ~sniffer_active            \* mutant
Transmits == ~continuous_carrier_enabled /\ ~sniffer_active

\* One turn of fw_scan()'s loop.  "After scanning, the channel will be set to the
\* last scanned channel": the host knows.
ScanChannel ==
  /\ stack.at = "scan"
  /\ host' = [host EXCEPT !.set.channel = stack.next]
  /\ rf' = OnChannel(stack.next)
  /\ \E acked \in IF Transmits /\ rf.ack THEN BOOLEAN ELSE {FALSE} :
       /\ state' = IF acked
                   THEN [state EXCEPT !.scan_result = Append(@, stack.next)] ELSE state
       /\ IF stack.next = stack.stop \/ (acked /\ Len(state'.scan_result) = ScanLength)
          THEN stack' = Idle /\ Unlock
          ELSE stack' = [stack EXCEPT !.next = @ + 1] /\ UNCHANGED usb_radio_mutex
  /\ UNCHANGED <<awaiting, command_queue, threadVars, continuous_carrier_enabled,
                 sniffer_active, snifferVars, in_ep>>

UsbStack == StackPut \/ ScanLock \/ ScanChannel

-----------------------------------------------------------------------------
\* usb_thread().  It blocks on the command queue in normal mode and polls it in
\* sniffer mode, where a short data command skips the rest of the turn.
GetCommand ==
  /\ pc = "top" /\ command_queue # << >>
  /\ command' = Head(command_queue) /\ command_queue' = Tail(command_queue)
  /\ IF state.sniffer_mode /\ command'.type = "data" /\ command'.data = "tiny"
     THEN pc' = "top" /\ sniffer_loop' = FALSE
     ELSE pc' = "lock" /\ sniffer_loop' = state.sniffer_mode
  /\ UNCHANGED <<hostVars, stack, usb_radio_mutex, state, driverVars, snifferVars, in_ep>>

NoCommand ==
  /\ pc = "top" /\ command_queue = << >> /\ state.sniffer_mode
  /\ pc' = "poll" /\ sniffer_loop' = TRUE
  /\ UNCHANGED <<hostVars, stack, command_queue, command, usb_radio_mutex, state,
                 driverVars, snifferVars, in_ep>>

LockMutex ==
  /\ pc = "lock" /\ MutexFree
  /\ usb_radio_mutex' = "usb"
  /\ pc' = "run"
  /\ UNCHANGED <<hostVars, stack, command_queue, command, sniffer_loop, state,
                 driverVars, snifferVars, in_ep>>

\* The mutex is released; the sniffer's turn goes on to poll its queue.
EndCommand ==
  /\ Unlock
  /\ command' = Nothing
  /\ pc' = IF sniffer_loop THEN "poll" ELSE "top"
  /\ UNCHANGED sniffer_loop

\* usb_write() fails, and nobody looks, when the endpoint is busy.
Write(record) == in_ep' = IF in_ep = Nothing THEN record ELSE in_ep

\* handle_vendor_command(), the requests that configure.
InlineSticks(s) ==                          \* mutant: inline mode is not reset
  CASE s.request = "ack_enable"  -> [state EXCEPT !.ack_enabled = s.value]
    [] s.request = "inline_mode" -> [state EXCEPT !.inline_mode = s.value]
    [] OTHER -> state
StateAfter(s) ==
  LET outOfInline == [state EXCEPT !.inline_mode = FALSE]
  IN CASE s.request = "channel"  -> [outOfInline EXCEPT !.channel = s.value % 256]
       [] s.request = "address"  -> outOfInline
       [] s.request = "datarate" -> [outOfInline EXCEPT !.datarate = s.value]
       [] s.request = "ack_enable"  -> [outOfInline EXCEPT !.ack_enabled = s.value]
       [] s.request = "inline_mode" -> [state EXCEPT !.inline_mode = s.value]
       [] OTHER -> state

RateNotSet(s) ==                            \* mutant: the rate is not passed on
  CASE s.request = "channel"    -> OnChannel(s.value)
    [] s.request = "ack_enable" -> [rf EXCEPT !.ack = s.value]
    [] s.request \in {"address", "sniffer_address"} -> [rf EXCEPT !.address = s.value]
    [] OTHER -> rf
RfAfter(s) ==
  CASE s.request = "channel"    -> OnChannel(s.value)
    [] s.request = "datarate" /\ s.value # 0 -> [rf EXCEPT !.datarate = s.value]
    [] s.request = "ack_enable" -> [rf EXCEPT !.ack = s.value]
    [] s.request \in {"address", "sniffer_address"} -> [rf EXCEPT !.address = s.value]
    [] OTHER -> rf

Configure ==
  /\ pc = "run" /\ command.type = "setup" /\ command.setup.request # "radio_mode"
  /\ state' = StateAfter(command.setup)
  /\ rf' = RfAfter(command.setup)
  /\ continuous_carrier_enabled' =
       IF command.setup.request = "cont_carrier" /\ ~sniffer_active
       THEN command.setup.value ELSE continuous_carrier_enabled
  /\ EndCommand
  /\ UNCHANGED <<hostVars, stack, command_queue, sniffer_active, snifferVars, in_ep>>

NotPurged == sniffer_queue                  \* mutants
NotZeroed == sniffer_drop_count
Purged == << >>
Zeroed == 0

\* The purge, the reset of the count (legacy_usb.c:680, 681) and the start of reception
\* are one step.  On a first entry no packet can come between them, since the sniffer is
\* off until the last; on a re-entry it is on, and the three take far less time than a
\* packet, let alone the eight that would fill the queue.
StartSniffer ==
  /\ pc = "run" /\ command.type = "setup"
  /\ command.setup.request = "radio_mode" /\ command.setup.value
  /\ state' = [state EXCEPT !.sniffer_mode = TRUE, !.inline_mode = FALSE]
  /\ sniffer_queue' = Purged /\ sniffer_drop_count' = Zeroed
  /\ sniffer_active' = TRUE
  /\ session' = 1 - session /\ unread' = 0
  /\ EndCommand
  /\ UNCHANGED <<hostVars, stack, command_queue, rf, continuous_carrier_enabled, in_ep>>

StopSniffer ==
  /\ pc = "run" /\ command.type = "setup"
  /\ command.setup.request = "radio_mode" /\ ~command.setup.value
  /\ sniffer_active' = FALSE
  /\ state' = [state EXCEPT !.sniffer_mode = FALSE]
  /\ EndCommand
  /\ UNCHANGED <<hostVars, stack, command_queue, rf, continuous_carrier_enabled,
                 snifferVars, in_ep>>

\* esb_sniffer_send()
Broadcast ==
  /\ pc = "run" /\ command.type = "data" /\ sniffer_loop
  /\ EndCommand
  /\ UNCHANGED <<hostVars, stack, command_queue, state, driverVars, snifferVars, in_ep>>

\* esb_set_bitrate() on the inline header's field: the field counts from 250K,
\* enum bitrate from 1M, and 2 is no bitrate.
InlineRate(r) == IF r < 2 THEN r + 1 ELSE rf.datarate

\* Inline settings stick; a long broadcast is split.  SentAsConfigured says that
\* only a packet sent with an inline header is read as one.
Prepare ==
  /\ pc = "run" /\ command.type = "data" /\ ~sniffer_loop
  /\ IF state.inline_mode
     THEN LET h == [command.want EXCEPT !.channel = @ % 256]
          IN /\ state' = [state EXCEPT !.channel = h.channel, !.datarate = h.datarate,
                                       !.ack_enabled = h.ack]
             /\ rf' = [OnChannel(h.channel) EXCEPT !.datarate = InlineRate(h.datarate),
                                                   !.ack = h.ack, !.address = h.address]
     ELSE UNCHANGED <<state, rf>>
  /\ pc' = IF ~state.inline_mode /\ ~state.ack_enabled /\ command.data = "long"
           THEN "sendFirst" ELSE "check"
  /\ UNCHANGED <<hostVars, stack, command_queue, usb_radio_mutex, command, sniffer_loop,
                 continuous_carrier_enabled, sniffer_active, snifferVars, in_ep>>

SendFirst ==
  /\ pc = "sendFirst"
  /\ pc' = "check"
  /\ UNCHANGED <<hostVars, stack, command_queue, usb_radio_mutex, command, sniffer_loop,
                 state, driverVars, snifferVars, in_ep>>

Handled == state.datarate # 0 /\ state.channel <= 100

Answer(acked) == [type |-> "answer", awaited |-> command.awaited, acked |-> acked]

Always  == TRUE                             \* mutants
OnlyInline == state.inline_mode
Answers == state.inline_mode \/ state.ack_enabled

SendPacket ==
  /\ pc = "check" /\ Handled
  /\ \E acked \in IF Transmits /\ rf.ack THEN BOOLEAN ELSE {FALSE} :
       IF Answers THEN Write(Answer(acked)) ELSE UNCHANGED in_ep
  /\ EndCommand
  /\ UNCHANGED <<hostVars, stack, command_queue, state, driverVars, snifferVars>>

\* "Not sending, radio settings not handled!"
NoWrite(record) == UNCHANGED in_ep          \* mutant: the refusal is not answered
Refuse(record) == Write(record)

RefusePacket ==
  /\ pc = "check" /\ ~Handled
  /\ Refuse(Answer(FALSE))
  /\ EndCommand
  /\ UNCHANGED <<hostVars, stack, command_queue, state, driverVars, snifferVars>>

\* The sniffer queue is polled for a millisecond.
PollSniffer ==
  /\ pc = "poll"
  /\ IF sniffer_queue = << >>
     THEN UNCHANGED <<sniffer_queue, unread, in_ep>>
     ELSE /\ Write([type |-> "record", session |-> Head(sniffer_queue)])
          /\ sniffer_queue' = Tail(sniffer_queue) /\ unread' = unread - 1
  /\ pc' = "top" /\ sniffer_loop' = FALSE
  /\ UNCHANGED <<hostVars, stack, command_queue, command, usb_radio_mutex, state,
                 driverVars, sniffer_drop_count, session>>

UsbThread ==
  \/ GetCommand \/ NoCommand \/ LockMutex
  \/ Configure \/ StartSniffer \/ StopSniffer
  \/ Broadcast \/ Prepare \/ SendFirst \/ SendPacket \/ RefusePacket
  \/ PollSniffer

-----------------------------------------------------------------------------
\* sniffer_rx_callback(), in the radio ISR.
SnifferRx ==
  /\ sniffer_active /\ unread < MaxUnread
  /\ unread' = unread + 1
  /\ IF Len(sniffer_queue) < SnifferQueueLength
     THEN sniffer_queue' = Append(sniffer_queue, session) /\ UNCHANGED sniffer_drop_count
     ELSE sniffer_drop_count' = sniffer_drop_count + 1 /\ UNCHANGED sniffer_queue
  /\ UNCHANGED <<hostVars, stack, command_queue, usb_radio_mutex, threadVars, state,
                 driverVars, session, in_ep>>

Next == Host \/ UsbStack \/ UsbThread \/ SnifferRx

Spec == Init /\ [][Next]_vars

\* The kernel schedules both threads; the host need do nothing.
FairSpec == Spec /\ WF_vars(UsbStack) /\ WF_vars(UsbThread)

-----------------------------------------------------------------------------
\* Whatever is queued, overtaken or blocked, a packet is taken for what it was
\* when the host sent it (plain, inline or broadcast), goes on the air with the
\* settings the host had made by then, and only if the radio can handle them ("If
\* channel >100 used, packets will be ignored", legacy_usb.c:627).
AsWanted == Valid(command.want) /\ (Transmits => rf = command.want)

SentAsConfigured ==
  /\ pc = "sendFirst" => AsWanted
  /\ pc = "check" => IF Handled THEN AsWanted ELSE ~Valid(command.want)
  /\ pc = "run" /\ command.type = "data" =>
       IF sniffer_loop
       THEN command.broadcast /\ Valid(command.want) /\ rf = command.want
       ELSE ~command.broadcast /\ command.inline = state.inline_mode

\* A scan reports a channel only if the packet was acked on that channel, with
\* the host's settings for the rest ("All parameters, except the channel, are
\* used unmodified", compatible-usb-protocol.md:268).
ScanUsesSettings ==
  [][ScanChannel /\ Transmits => rf' = [stack.want EXCEPT !.channel = stack.next]]_vars

\* What the host finds in the IN endpoint outside sniffer mode is the answer to
\* the packet it has just sent, and nothing is there when it sent none.
AnswersMatch ==
  host.mode = "off" /\ in_ep # Nothing =>
    awaiting /\ in_ep.type = "answer" /\ in_ep.awaited

\* "Exiting sniffer mode: [...] Normal TX/ACK operation is restored" (compatible-
\* usb-protocol.md:377): the next packet's answer is read, not a sniffed packet.
ReadsItsAnswer ==
  awaiting /\ host.mode = "off" /\ in_ep # Nothing => in_ep.type = "answer"

\* Every packet that asks for an answer gets one, sendable or not.
AnswersArrive == awaiting ~> in_ep.type = "answer"

\* A request is never left in the USB stack's hands: neither a full queue nor the
\* mutex blocks its thread for ever.
StackServed == stack # Idle ~> stack = Idle

\* The command queue and usb_radio_mutex make the two threads wait for each other.
\* They never do both at once, with usb_thread() waiting for a command or for the
\* mutex and the USB stack's thread for a free slot or for the mutex: the scan
\* takes the mutex (legacy_usb.c:300) without being queued and, while it has it, queues
\* nothing (:297), and usb_thread() takes it (:374, :392, :424) with its command already
\* in hand and, while it has it, waits for no other (:372, :422).
StackBlocked ==
  (stack.at = "put" /\ QueueFull) \/ (stack.at = "scanLock" /\ ~MutexFree)
ThreadBlocked ==
  \/ pc = "top" /\ command_queue = << >> /\ ~state.sniffer_mode
  \/ pc = "lock" /\ ~MutexFree
NeverBothBlocked == ~(StackBlocked /\ ThreadBlocked)

\* GET_SNIFFER_DROP_COUNT: every packet sniffed in this session is in the queue,
\* taken from it, or counted as dropped.
DropsCounted == unread = Len(sniffer_queue) + sniffer_drop_count

\* What the device writes while sniffing was heard in this session, with its
\* settings, and not left over from the session before.
StreamOfThisSession ==
  [][in_ep'.type = "record" /\ in_ep' # in_ep => in_ep'.session = session]_vars

-----------------------------------------------------------------------------
\* The two copies of the settings as one: the driver does not follow to a channel or
\* a rate it has not.
InForce ==
  [set |-> [rf EXCEPT !.channel = IF state.channel > 100 THEN state.channel ELSE @,
                      !.datarate = IF state.datarate = 0 THEN 0 ELSE @],
   inline |-> state.inline_mode, sniffing |-> state.sniffer_mode]

ToDo ==
  (IF pc \in {"lock", "run", "sendFirst", "check"} THEN <<command>> ELSE << >>)
    \o command_queue \o (IF stack.at = "put" THEN <<stack.cmd>> ELSE << >>)

\* What AnswersArrive rests on: as long as the host waits for an answer, its packet is
\* somewhere on the way or the answer is in the endpoint.  No change of mode, queue
\* purged, command skipped or busy endpoint loses either.
AnswerOwed ==
  awaiting =>
    \/ in_ep.type = "answer"
    \/ \E i \in 1..Len(ToDo) : ToDo[i].type = "data" /\ ToDo[i].awaited

O == INSTANCE InOrder WITH todo <- ToDo, force <- InForce

\* Two threads, the queue and the mutex serve the host in order, each command once,
\* and each packet with the settings in force when it was submitted (module InOrder).
ServesInOrder == O!Spec

\* What the driver has last told the host, as long as the host has not read it.
LastAnswer ==
  IF in_ep.type # "answer" THEN "none" ELSE IF in_ep.acked THEN "acked" ELSE "failed"

D == INSTANCE Driver WITH ack_enabled <- rf.ack, sniffing <- sniffer_active,
                          carrier <- continuous_carrier_enabled, outcome <- LastAnswer

\* The seam with esb.c: the pipeline asks of the driver only what module Driver
\* offers, one call at a time, and passes its outcomes on: what the host reads as an
\* ack comes from a driver that could receive one, with ACKs on and in neither of
\* the modes in which it does not transmit (legacy_usb.c:666).  Esb!CallsAreAtomic
\* is the other half.
UsesDriver == D!Spec
=============================================================================
