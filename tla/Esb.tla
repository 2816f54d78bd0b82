-------------------------------- MODULE Esb --------------------------------
(***************************************************************************)
(* The Enhanced ShockBurst driver, src/esb.c, and the two contexts of      *)
(* src/legacy_usb.c that call it: the USB thread, which executes queued    *)
(* commands, and the USB stack's callback, which scans channels.  Both     *)
(* hold usb_radio_mutex around their calls; the driver itself holds        *)
(* radio_busy, but tests its mode flags BEFORE taking it.  The radio ISR   *)
(* preempts both.                                                          *)
(*                                                                         *)
(* Configuration registers (channel, bitrate, addresses), the packet's     *)
(* contents and its PID are data no property here tells apart.  isInit is  *)
(* TRUE: main() runs esb_init() before it enables USB, and nothing calls   *)
(* esb_deinit().                                                           *)
(***************************************************************************)
EXTENDS RadioHw

CONSTANTS
  UsbThread,  \* usb_thread(), which executes the queued commands
  Threads,    \* it, and those that scan: crazyradio_vendor_handler() runs on
              \* the USB stack's thread
  NoThread,
  DefaultArc, \* the retry count esb_init() sets, 3
  Arcs,       \* the retry counts a host may set
  Losses      \* loss simulation settings: 0 %, 1..99 %, >= 100 %

ASSUME ThreadAssumption == UsbThread \in Threads /\ NoThread \notin Threads
ASSUME SettingAssumption ==
  /\ DefaultArc \in 0..15 /\ Arcs \subseteq 0..15
  /\ Losses \subseteq {"none", "some", "all"}

VARIABLES
  usb_radio_mutex, radio_busy,  \* owners
  radioXferDone,                \* the semaphore's count
  sending, timeout,
  ack_enabled, arc, packet_loss_percent, ack_loss_percent,
  continuous_carrier_enabled, sniffer_active,
  sniffer_mode,                 \* legacy_usb.c's state.sniffer_mode
  fem_txen, fem_rxen,           \* the front-end module's two pins
  arc_counter, ack_received,    \* locals of esb_send_packet()
  pc,                           \* where each thread is
  result                        \* what esb_send_packet() returned to its caller

lockVars    == <<usb_radio_mutex, radio_busy>>
isrVars     == <<sending, timeout>>
settingVars == <<ack_enabled, arc, packet_loss_percent, ack_loss_percent>>
modeVars    == <<continuous_carrier_enabled, sniffer_active, sniffer_mode>>
femVars     == <<fem_txen, fem_rxen>>
callVars    == <<arc_counter, ack_received, result>>
vars == <<hwVars, lockVars, radioXferDone, isrVars, settingVars, modeVars,
          femVars, callVars, pc>>

SendPcs    == {"sendArm", "sendFire", "sendWait", "sendClean", "sendEnd"}
SnifferPcs == {"snifSendOff", "snifSendSleep", "snifSendWait", "snifSendReset",
               "snifSendRestart", "startRx", "stopSleep"}
\* Inside radio_busy; before it, the mode flags have been tested already.
BusyPcs    == {"sendLoss"} \cup SendPcs \cup SnifferPcs
LockPcs    == {"sendLock", "snifSendLock", "startLock", "stopLock", "carrierLock"}
Pcs        == {"idle", "held", "stuckIrqOn"} \cup LockPcs \cup BusyPcs

TypeOK ==
  /\ HwTypeOK
  /\ usb_radio_mutex \in Threads \cup {NoThread}
  /\ radio_busy \in Threads \cup {NoThread}
  /\ radioXferDone \in 0..1
  /\ sending \in BOOLEAN /\ timeout \in BOOLEAN
  /\ ack_enabled \in BOOLEAN /\ arc \in 0..15
  /\ packet_loss_percent \in {"none", "some", "all"}
  /\ ack_loss_percent \in {"none", "some", "all"}
  /\ continuous_carrier_enabled \in BOOLEAN
  /\ sniffer_active \in BOOLEAN /\ sniffer_mode \in BOOLEAN
  /\ fem_txen \in BOOLEAN /\ fem_rxen \in BOOLEAN
  /\ arc_counter \in 0..16 /\ ack_received \in BOOLEAN
  /\ result \in {"none", "acked", "failed"}
  /\ pc \in [Threads -> Pcs]

\* After esb_init(), fem_init() and main()'s test of the front end.
Init ==
  /\ radio = "Disabled" /\ shorts = {}
  /\ ev_disabled = FALSE /\ int_disabled = FALSE /\ irq_on = TRUE
  /\ packet_ptr = "packet" /\ rx_into = "none" /\ crc_ok = FALSE
  /\ cc1 = "behind" /\ cc2_fresh = FALSE /\ compare1 = FALSE /\ ppi = {}
  /\ ack_due = FALSE /\ heard = FALSE /\ fresh = FALSE
  /\ usb_radio_mutex = NoThread /\ radio_busy = NoThread
  /\ radioXferDone = 0
  /\ sending = FALSE /\ timeout = FALSE
  /\ ack_enabled = TRUE /\ arc = DefaultArc
  /\ packet_loss_percent = "none" /\ ack_loss_percent = "none"
  /\ continuous_carrier_enabled = FALSE
  /\ sniffer_active = FALSE /\ sniffer_mode = FALSE
  /\ fem_txen = FALSE /\ fem_rxen = FALSE
  /\ arc_counter = 0 /\ ack_received = FALSE
  /\ pc = [t \in Threads |-> "idle"]
  /\ result = "none"

-----------------------------------------------------------------------------
\* A thread runs unless the ISR is due: the interrupt preempts it.
Runs(t, at) == pc[t] = at /\ ~IsrPending

TxShorts == {"READY_START", "END_DISABLE"}

Goto(t, at) == pc' = [pc EXCEPT ![t] = at]

\* k_mutex_lock(&radio_busy, K_FOREVER) ... k_mutex_unlock(&radio_busy)
Lock(t)   == radio_busy = NoThread /\ radio_busy' = t
Unlock    == radio_busy' = NoThread

\* A call that starts the radio finds the DISABLE of the previous command done.  The
\* code does not see to it: this is an assumption about the few microseconds between
\* two commands of the queue, which SlowDisable = TRUE takes away.
DisableElapsed == SlowDisable \/ radio \notin Disabling

\* k_sleep(K_USEC(200)) outlasts the DISABLE it follows.
NoSleep      == TRUE                        \* mutant: the sleep is left out
SleepElapsed == radio \notin Disabling

\* radioXferDone is a binary semaphore: give, take, reset.
XferDone  == radioXferDone' = 1
TakeXfer  == radioXferDone = 1 /\ radioXferDone' = 0
KeepXfer  == UNCHANGED radioXferDone        \* mutant: the reset is left out
ResetXfer == radioXferDone' = 0

\* A wait of K_MSEC(200) ends only when the hardware has nothing left to do.
WaitsForever == FALSE                       \* mutant: a wait of K_FOREVER
XferTimedOut == radioXferDone = 0 /\ HwQuiet

-----------------------------------------------------------------------------
\* usb_radio_mutex, which legacy_usb.c holds around every use of the driver.
NoMutex   == TRUE                           \* mutant: the scan forgets the mutex
MutexFree == usb_radio_mutex = NoThread

Acquire(t) ==
  /\ Runs(t, "idle") /\ MutexFree
  /\ usb_radio_mutex' = t
  /\ Goto(t, "held")
  /\ UNCHANGED <<hwVars, radio_busy, radioXferDone, isrVars, settingVars,
                 modeVars, femVars, callVars>>

Release(t) ==
  /\ Runs(t, "held")
  /\ usb_radio_mutex' = NoThread
  /\ result' = "none" /\ heard' = FALSE
  /\ Goto(t, "idle")
  /\ UNCHANGED <<radioVars, timerVars, ack_due, fresh, radio_busy, radioXferDone,
                 isrVars, settingVars, modeVars, femVars, arc_counter, ack_received>>

-----------------------------------------------------------------------------
\* esb_send_packet().  The USB thread calls it outside sniffer mode; a channel
\* scan calls it in any mode.
SendCheck(t) ==
  /\ Runs(t, "held") /\ DisableElapsed
  /\ t # UsbThread \/ ~sniffer_mode
  /\ heard' = FALSE
  /\ IF continuous_carrier_enabled \/ sniffer_active
     THEN result' = "failed" /\ UNCHANGED pc
     ELSE result' = "none" /\ Goto(t, "sendLock")
  /\ UNCHANGED <<radioVars, timerVars, ack_due, fresh, lockVars, radioXferDone,
                 isrVars, settingVars, modeVars, femVars, arc_counter,
                 ack_received>>

SendLock(t) ==
  /\ Runs(t, "sendLock")
  /\ Lock(t)
  /\ Goto(t, "sendLoss")
  /\ UNCHANGED <<hwVars, usb_radio_mutex, radioXferDone, isrVars, settingVars,
                 modeVars, femVars, callVars>>

SendDropped(t) ==
  /\ Runs(t, "sendLoss") /\ packet_loss_percent # "none"
  /\ Unlock
  /\ result' = "failed"
  /\ Goto(t, "held")
  /\ UNCHANGED <<hwVars, usb_radio_mutex, radioXferDone, isrVars, settingVars,
                 modeVars, femVars, arc_counter, ack_received>>

SendStart(t) ==
  /\ Runs(t, "sendLoss") /\ packet_loss_percent # "all"
  /\ arc_counter' = 0 /\ ack_received' = FALSE
  /\ Goto(t, "sendArm")
  /\ UNCHANGED <<hwVars, lockVars, radioXferDone, isrVars, settingVars, modeVars,
                 femVars, result>>

\* One turn of the retry loop: clear the event and enable the interrupt ...
SendArm(t) ==
  /\ Runs(t, "sendArm")
  /\ ev_disabled' = FALSE /\ int_disabled' = TRUE
  /\ Goto(t, "sendFire")
  /\ UNCHANGED <<radio, shorts, irq_on, packet_ptr, rx_into, crc_ok, timerVars,
                 airVars, lockVars, radioXferDone, isrVars, settingVars,
                 modeVars, femVars, callVars>>

\* ... then set the shortcuts up, empty the ack buffer and start the radio.
SendFire(t) ==
  /\ Runs(t, "sendFire")
  /\ shorts' = shorts \cup TxShorts \cup (IF ack_enabled THEN {"DISABLED_RXEN"} ELSE {})
  /\ ppi' = ppi \cup {"CH26", "CH27"}
  /\ packet_ptr' = "packet"
  /\ fresh' = FALSE /\ ack_due' = FALSE
  /\ fem_txen' = TRUE
  /\ sending' = TRUE
  /\ radio' = TaskTxen(radio)
  /\ Goto(t, "sendWait")
  /\ UNCHANGED <<ev_disabled, int_disabled, irq_on, rx_into, crc_ok, cc1, cc2_fresh,
                 compare1, heard, lockVars, radioXferDone, timeout, settingVars,
                 modeVars, fem_rxen, callVars>>

SendTake(t) ==
  /\ Runs(t, "sendWait") /\ TakeXfer
  /\ Goto(t, "sendClean")
  /\ UNCHANGED <<hwVars, lockVars, isrVars, settingVars, modeVars, femVars,
                 callVars>>

AckIgnoringTimeout == crc_ok /\ ack_enabled     \* mutant
AckReceived == ~timeout /\ crc_ok /\ ack_enabled

OneTryShort(tries) == tries >= arc              \* mutants of the loop's end
TriesForever(tries) == FALSE
OutOfTries(tries) == tries > arc

SendClean(t) ==
  /\ Runs(t, "sendClean")
  /\ int_disabled' = FALSE
  /\ shorts' = shorts \ (TxShorts \cup (IF ack_enabled THEN {"DISABLED_RXEN"} ELSE {}))
  /\ ppi' = ppi \ {"CH26", "CH27"}
  /\ ack_received' = AckReceived
  /\ arc_counter' = arc_counter + 1
  /\ Goto(t, IF ack_received' \/ ~ack_enabled \/ OutOfTries(arc_counter')
             THEN "sendEnd" ELSE "sendArm")
  /\ fresh' = FALSE
  /\ UNCHANGED <<radio, ev_disabled, irq_on, packet_ptr, rx_into, crc_ok, cc1,
                 cc2_fresh, compare1, ack_due, heard, lockVars, radioXferDone, isrVars,
                 settingVars, modeVars, femVars, result>>

SendEnd(t) ==
  /\ Runs(t, "sendEnd")
  /\ \/ ack_loss_percent # "all"  /\ result' = IF ack_received THEN "acked" ELSE "failed"
     \/ ack_loss_percent # "none" /\ result' = "failed"
  /\ arc_counter' = 0 /\ ack_received' = FALSE
  /\ Unlock
  /\ Goto(t, "held")
  /\ UNCHANGED <<hwVars, usb_radio_mutex, radioXferDone, isrVars, settingVars,
                 modeVars, femVars>>

\* "The radio state machine is stuck!"
SendStuck(t) ==
  /\ Runs(t, "sendWait") /\ XferTimedOut
  /\ irq_on' = FALSE
  /\ radio' = TaskDisable(radio)
  /\ ResetXfer
  /\ Unlock
  /\ result' = "failed" /\ arc_counter' = 0 /\ ack_received' = FALSE
  /\ Goto(t, "stuckIrqOn")
  /\ UNCHANGED <<shorts, ev_disabled, int_disabled, packet_ptr, rx_into, crc_ok,
                 timerVars, airVars, usb_radio_mutex, isrVars, settingVars,
                 modeVars, femVars>>

StuckIrqOn(t) ==
  /\ Runs(t, "stuckIrqOn")
  /\ irq_on' = TRUE
  /\ Goto(t, "held")
  /\ UNCHANGED <<radio, shorts, ev_disabled, int_disabled, packet_ptr, rx_into,
                 crc_ok, timerVars, airVars, lockVars, radioXferDone, isrVars,
                 settingVars, modeVars, femVars, callVars>>

Send(t) ==
  \/ SendCheck(t) \/ SendLock(t) \/ SendDropped(t) \/ SendStart(t) \/ SendArm(t)
  \/ SendFire(t) \/ SendTake(t) \/ SendClean(t) \/ SendEnd(t) \/ SendStuck(t)
  \/ StuckIrqOn(t)

-----------------------------------------------------------------------------
\* esb_set_arc(), esb_set_ack_enabled() and esb_set_packet_loss_simulation():
\* only the USB thread executes these commands.
SetArc ==
  /\ Runs(UsbThread, "held") /\ radio_busy = NoThread
  /\ arc' \in Arcs
  /\ UNCHANGED <<hwVars, lockVars, radioXferDone, isrVars, ack_enabled,
                 packet_loss_percent, ack_loss_percent, modeVars, femVars,
                 callVars, pc>>

SetAckEnabled ==
  /\ Runs(UsbThread, "held") /\ radio_busy = NoThread
  /\ ack_enabled' \in BOOLEAN
  /\ UNCHANGED <<hwVars, lockVars, radioXferDone, isrVars, arc,
                 packet_loss_percent, ack_loss_percent, modeVars, femVars,
                 callVars, pc>>

SetPacketLossSimulation ==
  /\ Runs(UsbThread, "held") /\ radio_busy = NoThread
  /\ packet_loss_percent' \in Losses /\ ack_loss_percent' \in Losses
  /\ UNCHANGED <<hwVars, lockVars, radioXferDone, isrVars, ack_enabled, arc,
                 modeVars, femVars, callVars, pc>>

\* esb_set_continuous_carrier(), called with a value it does not have yet.
CarrierCheck ==
  /\ Runs(UsbThread, "held") /\ ~sniffer_active /\ DisableElapsed
  /\ Goto(UsbThread, "carrierLock")
  /\ UNCHANGED <<hwVars, lockVars, radioXferDone, isrVars, settingVars, modeVars,
                 femVars, callVars>>

CarrierSet ==
  /\ Runs(UsbThread, "carrierLock") /\ radio_busy = NoThread
  /\ continuous_carrier_enabled' = ~continuous_carrier_enabled
  /\ radio' = IF continuous_carrier_enabled' THEN TaskTxen(radio) ELSE TaskDisable(radio)
  /\ fem_txen' = continuous_carrier_enabled'
  /\ Goto(UsbThread, "held")
  /\ UNCHANGED <<shorts, ev_disabled, int_disabled, irq_on, packet_ptr, rx_into,
                 crc_ok, timerVars, airVars, lockVars, radioXferDone, isrVars,
                 settingVars, sniffer_active, sniffer_mode, fem_rxen, callVars>>

-----------------------------------------------------------------------------
\* SET_RADIO_MODE 1: sniffer_mode is set first, then esb_sniffer_start().
StartCheck ==
  /\ Runs(UsbThread, "held") /\ DisableElapsed
  /\ sniffer_mode' = TRUE
  /\ IF sniffer_active THEN UNCHANGED pc ELSE Goto(UsbThread, "startLock")
  /\ UNCHANGED <<hwVars, lockVars, radioXferDone, isrVars, settingVars,
                 continuous_carrier_enabled, sniffer_active, femVars, callVars>>

NormalShorts  == TxShorts                       \* mutant: RX is not chained
SnifferShorts == Shorts

StartLock ==
  /\ Runs(UsbThread, "startLock")
  /\ Lock(UsbThread)
  /\ sniffer_active' = TRUE
  /\ packet_ptr' = "sniffer_rx_buffer"
  /\ shorts' = SnifferShorts
  /\ Goto(UsbThread, "startRx")
  /\ UNCHANGED <<radio, ev_disabled, int_disabled, irq_on, rx_into, crc_ok,
                 timerVars, airVars, usb_radio_mutex, radioXferDone, isrVars,
                 settingVars, continuous_carrier_enabled, sniffer_mode, femVars,
                 callVars>>

\* Clearing TIMER0 puts the last CC[1] ahead of the counter again.
NoInterrupt == FALSE                        \* mutant: DISABLED is not enabled
Interrupt   == TRUE

StartRx ==
  /\ Runs(UsbThread, "startRx")
  /\ ev_disabled' = FALSE /\ int_disabled' = Interrupt
  /\ fem_rxen' = TRUE
  /\ cc1' = "ahead"
  /\ radio' = TaskRxen(radio)
  /\ Unlock
  /\ Goto(UsbThread, "held")
  /\ UNCHANGED <<shorts, irq_on, packet_ptr, rx_into, crc_ok, cc2_fresh, compare1,
                 ppi, airVars, usb_radio_mutex, radioXferDone, isrVars,
                 settingVars, modeVars, fem_txen, callVars>>

\* SET_RADIO_MODE 0: esb_sniffer_stop(), then sniffer_mode is cleared.
StopCheck ==
  /\ Runs(UsbThread, "held")
  /\ IF sniffer_active
     THEN Goto(UsbThread, "stopLock") /\ UNCHANGED sniffer_mode
     ELSE sniffer_mode' = FALSE /\ UNCHANGED pc
  /\ UNCHANGED <<hwVars, lockVars, radioXferDone, isrVars, settingVars,
                 continuous_carrier_enabled, sniffer_active, femVars, callVars>>

StopLock ==
  /\ Runs(UsbThread, "stopLock")
  /\ Lock(UsbThread)
  /\ shorts' = shorts \ {"DISABLED_RXEN"}
  /\ radio' = TaskDisable(radio)
  /\ Goto(UsbThread, "stopSleep")
  /\ UNCHANGED <<ev_disabled, int_disabled, irq_on, packet_ptr, rx_into, crc_ok,
                 timerVars, airVars, usb_radio_mutex, radioXferDone, isrVars,
                 settingVars, modeVars, femVars, callVars>>

StopDone ==
  /\ Runs(UsbThread, "stopSleep") /\ SleepElapsed
  /\ shorts' = {}
  /\ int_disabled' = FALSE /\ ev_disabled' = FALSE
  /\ fem_rxen' = FALSE
  /\ sniffer_active' = FALSE /\ sniffer_mode' = FALSE
  /\ Unlock
  /\ Goto(UsbThread, "held")
  /\ UNCHANGED <<radio, irq_on, packet_ptr, rx_into, crc_ok, timerVars, airVars,
                 usb_radio_mutex, radioXferDone, isrVars, settingVars,
                 continuous_carrier_enabled, fem_txen, callVars>>

-----------------------------------------------------------------------------
\* esb_sniffer_send(), for a data command received in sniffer mode.  Its caller
\* ignores what it returns.
SnifSendCheck ==
  /\ Runs(UsbThread, "held") /\ sniffer_mode /\ sniffer_active
  /\ Goto(UsbThread, "snifSendLock")
  /\ UNCHANGED <<hwVars, lockVars, radioXferDone, isrVars, settingVars, modeVars,
                 femVars, callVars>>

StillActive == TRUE                         \* mutant: the callback stays on
Paused      == FALSE

SnifSendLock ==
  /\ Runs(UsbThread, "snifSendLock")
  /\ Lock(UsbThread)
  /\ sniffer_active' = Paused
  /\ Goto(UsbThread, "snifSendOff")
  /\ UNCHANGED <<hwVars, usb_radio_mutex, radioXferDone, isrVars, settingVars,
                 continuous_carrier_enabled, sniffer_mode, femVars, callVars>>

SnifSendOff ==
  /\ Runs(UsbThread, "snifSendOff")
  /\ shorts' = shorts \ {"DISABLED_RXEN"}
  /\ radio' = TaskDisable(radio)
  /\ Goto(UsbThread, "snifSendSleep")
  /\ UNCHANGED <<ev_disabled, int_disabled, irq_on, packet_ptr, rx_into, crc_ok,
                 timerVars, airVars, lockVars, radioXferDone, isrVars,
                 settingVars, modeVars, femVars, callVars>>

\* The front end turns from receiving to transmitting.
FemBoth == fem_txen' = TRUE /\ UNCHANGED fem_rxen   \* mutant
FemToTx == fem_rxen' = FALSE /\ fem_txen' = TRUE

SnifSendFire ==
  /\ Runs(UsbThread, "snifSendSleep") /\ SleepElapsed
  /\ ResetXfer
  /\ shorts' = TxShorts
  /\ packet_ptr' = "broadcast"
  /\ ev_disabled' = FALSE /\ int_disabled' = TRUE
  /\ FemToTx
  /\ radio' = TaskTxen(radio)
  /\ Goto(UsbThread, "snifSendWait")
  /\ UNCHANGED <<irq_on, rx_into, crc_ok, timerVars, airVars, lockVars, isrVars,
                 settingVars, modeVars, callVars>>

SnifSendTake ==
  /\ Runs(UsbThread, "snifSendWait") /\ TakeXfer
  /\ Goto(UsbThread, "snifSendRestart")
  /\ UNCHANGED <<hwVars, lockVars, isrVars, settingVars, modeVars, femVars,
                 callVars>>

SnifSendTimeout ==
  /\ Runs(UsbThread, "snifSendWait") /\ XferTimedOut
  /\ radio' = TaskDisable(radio)
  /\ Goto(UsbThread, "snifSendReset")
  /\ UNCHANGED <<shorts, ev_disabled, int_disabled, irq_on, packet_ptr, rx_into,
                 crc_ok, timerVars, airVars, lockVars, radioXferDone, isrVars,
                 settingVars, modeVars, femVars, callVars>>

SnifSendReset ==
  /\ Runs(UsbThread, "snifSendReset") /\ SleepElapsed
  /\ ResetXfer
  /\ Goto(UsbThread, "snifSendRestart")
  /\ UNCHANGED <<hwVars, lockVars, isrVars, settingVars, modeVars, femVars,
                 callVars>>

\* A packet received while the callback was off is gone.
SnifSendRestart ==
  /\ Runs(UsbThread, "snifSendRestart")
  /\ fresh' = FALSE
  /\ sniffer_active' = TRUE
  /\ packet_ptr' = "sniffer_rx_buffer"
  /\ shorts' = SnifferShorts
  /\ ev_disabled' = FALSE /\ int_disabled' = TRUE
  /\ fem_txen' = FALSE /\ fem_rxen' = TRUE
  /\ radio' = TaskRxen(radio)
  /\ Unlock
  /\ Goto(UsbThread, "held")
  /\ UNCHANGED <<irq_on, rx_into, crc_ok, timerVars, ack_due, heard, usb_radio_mutex,
                 radioXferDone, isrVars, settingVars, continuous_carrier_enabled,
                 sniffer_mode, callVars>>

Sniffer ==
  \/ StartCheck \/ StartLock \/ StartRx \/ StopCheck \/ StopLock \/ StopDone
  \/ SnifSendCheck \/ SnifSendLock \/ SnifSendOff \/ SnifSendFire \/ SnifSendTake
  \/ SnifSendTimeout \/ SnifSendReset \/ SnifSendRestart

-----------------------------------------------------------------------------
\* radio_isr().  A callback with nothing newly received repeats the packet left
\* in sniffer_rx_buffer.
IsrSniffer ==
  /\ IsrPending /\ sniffer_active
  /\ ev_disabled' = FALSE
  /\ fresh' = FALSE
  /\ packet_ptr' = "sniffer_rx_buffer"
  /\ UNCHANGED <<radio, shorts, int_disabled, irq_on, rx_into, crc_ok, timerVars,
                 ack_due, heard, lockVars, radioXferDone, isrVars, settingVars,
                 modeVars, femVars, callVars, pc>>

\* While the ack is awaited CH26 stays enabled and CH22 joins it.
WindowNotTimed  == (ppi \ {"CH27"}) \cup {"CH26"}           \* mutants
WindowNotSpared == (ppi \ {"CH26", "CH27"}) \cup {"CH22"}
WindowPpi       == (ppi \ {"CH27"}) \cup {"CH26", "CH22"}

\* CC[1] becomes the captured END + 500: ahead, if that END was captured just now.
IsrSent ==
  /\ IsrPending /\ ~sniffer_active /\ sending /\ ack_enabled
  /\ ev_disabled' = FALSE
  /\ fem_txen' = FALSE /\ fem_rxen' = TRUE
  /\ packet_ptr' = "ack"
  /\ cc1' \in (IF cc2_fresh /\ ~LateIsr THEN {"ahead"} ELSE {"ahead", "behind"})
  /\ cc2_fresh' = FALSE
  /\ ppi' = WindowPpi
  /\ shorts' = shorts \ {"DISABLED_RXEN"}
  /\ sending' = FALSE /\ timeout' = FALSE
  /\ UNCHANGED <<radio, int_disabled, irq_on, rx_into, crc_ok, compare1, airVars,
                 lockVars, radioXferDone, settingVars, modeVars, callVars, pc>>

IsrSentNoAck ==
  /\ IsrPending /\ ~sniffer_active /\ sending /\ ~ack_enabled
  /\ ev_disabled' = FALSE
  /\ XferDone
  /\ UNCHANGED <<radio, shorts, int_disabled, irq_on, packet_ptr, rx_into, crc_ok,
                 timerVars, airVars, lockVars, isrVars, settingVars, modeVars,
                 femVars, callVars, pc>>

IsrReceived ==
  /\ IsrPending /\ ~sniffer_active /\ ~sending
  /\ ev_disabled' = FALSE
  /\ fem_rxen' = FALSE
  /\ timeout' = compare1 /\ compare1' = FALSE
  /\ ppi' = ppi \ {"CH26", "CH22"}
  /\ XferDone
  /\ UNCHANGED <<radio, shorts, int_disabled, irq_on, packet_ptr, rx_into, crc_ok,
                 cc1, cc2_fresh, airVars, lockVars, sending, settingVars, modeVars,
                 fem_txen, callVars, pc>>

Isr == IsrSniffer \/ IsrSent \/ IsrSentNoAck \/ IsrReceived

Hardware ==
  /\ HwNext
  /\ UNCHANGED <<lockVars, radioXferDone, isrVars, settingVars, modeVars, femVars,
                 callVars, pc>>

\* Left alone for 71 minutes, the 32-bit microsecond counter comes round to CC[1].
TimerWrap ==
  /\ \A t \in Threads : Runs(t, "idle")
  /\ cc1' = "ahead"
  /\ UNCHANGED <<radioVars, cc2_fresh, compare1, ppi, airVars, lockVars,
                 radioXferDone, isrVars, settingVars, modeVars, femVars, callVars,
                 pc>>

Next ==
  \/ \E t \in Threads : Acquire(t) \/ Release(t) \/ Send(t)
  \/ SetArc \/ SetAckEnabled \/ SetPacketLossSimulation
  \/ CarrierCheck \/ CarrierSet
  \/ Sniffer
  \/ Isr \/ Hardware \/ TimerWrap

Spec == Init /\ [][Next]_vars
-----------------------------------------------------------------------------
\* Fairness.  The kernel always comes back to a ready thread and the radio's
\* interrupt is always served.  A thread may be preempted again and again while
\* packets are sniffed, but an ISR is short against the packet that precedes it,
\* so it gets to run in between: hence strong fairness.  The radio finishes what
\* it started; nothing says an address ever matches.  No thread has to call.
CallStep(t) ==
  \/ SendLock(t) \/ SendDropped(t) \/ SendStart(t) \/ SendArm(t) \/ SendFire(t)
  \/ SendTake(t) \/ SendClean(t) \/ SendEnd(t) \/ SendStuck(t) \/ StuckIrqOn(t)
  \/ /\ t = UsbThread
     /\ \/ CarrierSet \/ StartLock \/ StartRx \/ StopLock \/ StopDone
        \/ SnifSendLock \/ SnifSendOff \/ SnifSendFire \/ SnifSendTake
        \/ SnifSendTimeout \/ SnifSendReset \/ SnifSendRestart

HwFinishes ==
  /\ TxReady \/ TxEnd \/ Disabled \/ RxReady \/ RxEnd \/ TimerMatch
  /\ UNCHANGED <<lockVars, radioXferDone, isrVars, settingVars, modeVars, femVars,
                 callVars, pc>>

Fairness ==
  /\ \A t \in Threads : SF_vars(CallStep(t))
  /\ WF_vars(Isr)
  /\ WF_vars(HwFinishes)

FairSpec == Spec /\ Fairness

-----------------------------------------------------------------------------
\* A packet is never exchanged with the sniffer or the carrier on.  The mode
\* flags are tested before radio_busy is taken (esb.c:317), so that lock does not
\* give this: only usb_radio_mutex, held by both callers, does.
ModeExclusion ==
  \A t \in Threads : pc[t] \in SendPcs => ~sniffer_active /\ ~continuous_carrier_enabled

\* esb_send_packet() says "acked" only of a packet its receiver heard, as long as the
\* ISR keeps up: CRCSTATUS and the timeout flag never come from an earlier exchange,
\* nor from the sniffer's.
AckSound == result = "acked" => heard

\* "Clean up after ourselves" (esb.c:395): between two calls the radio is off or
\* switching off, with no interrupt, shortcut, PPI channel or completion left
\* over for the next call.
QuietWhenIdle ==
  radio_busy = NoThread /\ ~sniffer_active /\ ~continuous_carrier_enabled =>
    /\ radio \in {"Disabled", "TxDisable"}
    /\ ~int_disabled /\ shorts = {} /\ ppi = {} /\ radioXferDone = 0

\* A completion only waits for the thread whose transfer it ends: a transfer
\* never starts with the previous one's completion already in the semaphore.
NoStaleCompletion ==
  radioXferDone = 1 =>
    \E t \in Threads :
      pc[t] \in {"sendWait", "snifSendOff", "snifSendSleep", "snifSendWait"}

\* Between two calls an active sniffer receives: whatever was sent in between,
\* the radio goes round its RX cycle into the sniffer's buffer, interrupt on.
Listening ==
  /\ radio \in RxStates \cup {"RxDisable"}
  /\ int_disabled /\ shorts = Shorts /\ packet_ptr = "sniffer_rx_buffer"
  /\ fem_rxen
SnifferListens ==
  sniffer_active /\ radio_busy = NoThread /\ ~continuous_carrier_enabled => Listening

\* The ack window: reception goes to the caller's buffer through a front end
\* switched to receive, and until an address matches a timeout is set to end it.
AckWindow ==
  \A t \in Threads : pc[t] = "sendWait" /\ radio \in {"Rx", "RxBusy"} =>
    /\ rx_into = "ack" /\ fem_rxen /\ ~fem_txen
    /\ radio = "Rx" => cc1 = "ahead" /\ "CH22" \in ppi

\* The timeout never cuts off a packet whose address has matched: "RADIO_ADDR ->
\* T0[1] (Disables timeout!)" (esb.c:114).
TimeoutSparesAck ==
  [][TimerMatch => radio # "RxBusy" \/ radio' = "RxBusy"]_vars

\* The sniffer's callback is for received packets: shutting reception down ends in
\* the same interrupt, which must not hand the packet in sniffer_rx_buffer out
\* again.  A broadcast is safe; esb_sniffer_stop() is not.  (With the carrier on the
\* sniffer transmits: CarrierSendsNoPacket.)
CallbackPerPacket ==
  [][IsrSniffer /\ crc_ok /\ ~continuous_carrier_enabled =>
       fresh \/ pc[UsbThread] = "stopSleep"]_vars

\* sniffer_rx_buffer is the only one, and the radio restarts into it by itself: as
\* long as the ISR keeps up, the address that lets a packet into it comes after the
\* callback has had the packet before, whatever was sent in between.  (With the carrier
\* on, reception is under way before the sniffer's interrupt is enabled.)
NoPacketOverwritten ==
  [][RxAddress /\ sniffer_active /\ ~continuous_carrier_enabled => ~fresh]_vars

\* A packet goes out through the power amplifier alone, and no call leaves the LNA
\* on but for the sniffer: four functions and the ISR switch the two pins.
FrontEndFollows ==
  ~continuous_carrier_enabled =>
    /\ radio = "Tx" => fem_txen /\ ~fem_rxen
    /\ radio_busy = NoThread /\ ~sniffer_active => ~fem_rxen

\* An exchange given up for want of an ack has made all the tries the host set, even
\* if it sets another number in the meantime.  It says nothing of a packet that wants
\* no ack: "no-ack packet will always be sent "arc" times in a row" (esb.h:54), but the
\* code leaves the loop after the first (esb.c:414).
AllTriesMade ==
  \A t \in Threads : pc[t] = "sendEnd" /\ ack_enabled /\ ~ack_received =>
    arc_counter = arc + 1

\* Whatever the ISR's delays, a call that was started returns: "Reset the radio
\* and returns that the packet is lost" (esb.c:366).
CallsReturn ==
  \A t \in Threads : (pc[t] \notin {"idle", "held"}) ~> (pc[t] = "held")

\* A broadcast that times out ("Sniffer TX timeout, resetting radio", esb.c:582)
\* ends like any other: after the forced DISABLE, the sniffer receives again between
\* two calls, whatever state the radio stuck in and however late its interrupt.
BroadcastRecovers ==
  pc[UsbThread] = "snifSendReset" ~> sniffer_active /\ radio_busy = NoThread /\ Listening

\* How many steps a call has left at most; a try of esb_send_packet() has four.
StepsFrom(at, max, tried) ==
  LET tries == 4 * (max + 1 - tried)
  IN CASE at = "sendLock"      -> 4 * (max + 1) + 6
       [] at = "sendLoss"      -> 4 * (max + 1) + 5
       [] at = "sendArm"       -> tries + 4
       [] at = "sendFire"      -> tries + 3
       [] at = "sendWait"      -> tries + 2
       [] at = "sendClean"     -> tries + 1
       [] at = "snifSendLock"  -> 6
       [] at = "snifSendOff"   -> 5
       [] at = "snifSendSleep" -> 4
       [] at = "snifSendWait"  -> 3
       [] at \in {"snifSendReset", "startLock", "stopLock"} -> 2
       [] at \in {"idle", "held"} -> 0
       [] OTHER -> 1
StepsLeft(t) == StepsFrom(pc[t], arc, arc_counter)

\* Why a call returns: every step its thread takes uses one up, and nothing gives any
\* back, neither the ISR nor a late completion nor the other thread, though that one
\* may set another number of tries at any time (esb.c:334).
CallsProgress ==
  [][\A t \in Threads : pc[t] \notin {"idle", "held"} =>
       /\ StepsLeft(t) > 0
       /\ IF pc'[t] = pc[t] THEN StepsLeft(t)' = StepsLeft(t)
          ELSE StepsLeft(t)' < StepsLeft(t)]_vars

\* Seen by its callers the driver is one step per call: what happens inside, the
\* pause of the sniffer for a broadcast above all, shows in no outcome and lets
\* no mode be entered.
Broadcasting == pc[UsbThread] \in SnifferPcs \ {"startRx", "stopSleep"}

D == INSTANCE Driver WITH carrier  <- continuous_carrier_enabled,
                          sniffing <- sniffer_active \/ Broadcasting,
                          outcome  <- result
CallsAreAtomic == D!Spec

-----------------------------------------------------------------------------
\* What the documentation says and the code does not do.

\* esb.h:98: "true if an ack has been properly received".
ReceivedAckIsReported ==
  \A t \in Threads : pc[t] = "sendClean" /\ ack_enabled /\ fresh => ~timeout

\* "When this mode is activated the radio dongle does not transmit any packets"
\* (docs/development/compatible-usb-protocol.md:242).
CarrierSendsNoPacket == 
  continuous_carrier_enabled => ~(radio = "Tx" /\ packet_ptr \in {"packet", "broadcast"})
=============================================================================
