--------------------------- MODULE EsbRadioProofs ---------------------------
(***************************************************************************)
(* Proofs of what the driver and the radio do together, one interrupt and  *)
(* one hardware event at a time, for every set of threads and every        *)
(* setting.                                                                *)
(*                                                                         *)
(* LockInv (EsbProofs) says who is inside the driver.  RadioInv adds, for  *)
(* each place the one call inside may be at, what the peripherals are      *)
(* doing: which shortcuts and PPI channels are armed, which states of the  *)
(* radio they allow, whether the interrupt is enabled or pending and       *)
(* whether the completion semaphore has been given, and from what the      *)
(* call's result will come.                                                *)
(***************************************************************************)
EXTENDS EsbProofs

\* What the driver's waits count on: the radio's interrupt is served before its next
\* event, the radio is off when the driver's pauses end, and it always ends what it
\* began.  TLC violates each of the nine properties below without any one of these.
Prompt == ~LateIsr /\ ~SlowDisable /\ ~MayStick

\* Where the one thread inside the driver is.
At == IF usb_radio_mutex = NoThread THEN "idle" ELSE pc[usb_radio_mutex]

\* Outside an exchange, a start, a stop and a pause of the sniffer; the radio's states
\* in reception; and the PPI channels armed for an ACK's window and for a transmission.
RestPcs == {"idle", "held"} \cup LockPcs \cup {"sendLoss", "sendArm", "sendEnd"}
OnAir   == {"RxRu", "Rx", "RxBusy", "RxDisable"}
AckPpi  == {"CH22", "CH26"}
SendPpi == {"CH26", "CH27"}

\* The calls that need the sniffer on or off, once past the test, find it so.
Control ==
  /\ irq_on /\ At \notin {"stuckIrqOn", "snifSendReset"}
  /\ At \in BusyPcs => radio_busy # NoThread
  /\ At \in {"snifSendLock", "stopLock", "startRx", "stopSleep"} => sniffer_active
  /\ At \in {"carrierLock", "startLock", "snifSendOff", "snifSendSleep", "snifSendWait",
             "snifSendRestart"} => ~sniffer_active
  /\ At = "stopSleep" => usb_radio_mutex = UsbThread

\* Nothing is armed, nothing is left over.
AtRest ==
  At \in RestPcs /\ ~sniffer_active =>
    /\ ~int_disabled /\ shorts = {} /\ ppi = {} /\ radioXferDone = 0 /\ ~fem_rxen
    /\ continuous_carrier_enabled => radio \in {"Disabled", "TxRu", "TxIdle"}
    /\ ~continuous_carrier_enabled => radio \in {"Disabled", "TxDisable"}
    /\ ~continuous_carrier_enabled /\ At \notin {"idle", "held"} => radio = "Disabled"

\* The RX cycle of the sniffer; a DISABLED event is that of a packet just received.
Sniffing ==
  At \in RestPcs /\ sniffer_active =>
    /\ int_disabled /\ shorts = Shorts /\ ppi = {} /\ radioXferDone = 0
    /\ packet_ptr = "sniffer_rx_buffer" /\ fem_rxen
    /\ ~continuous_carrier_enabled =>
         /\ radio \in OnAir
         /\ crc_ok /\ (ev_disabled \/ radio = "RxDisable") => fresh

\* esb_start_sniffer() starts a radio that is at rest.
Starting ==
  At = "startRx" =>
    /\ ~int_disabled /\ shorts = Shorts /\ ppi = {} /\ radioXferDone = 0
    /\ packet_ptr = "sniffer_rx_buffer"
    /\ ~continuous_carrier_enabled => radio = "Disabled"

\* esb_stop_sniffer() has broken the cycle and lets the last event come.
Stopping ==
  At = "stopSleep" =>
    /\ int_disabled /\ shorts = TxShorts /\ ppi = {} /\ radioXferDone = 0
    /\ radio \in Disabling \cup {"Disabled"}

\* A try of esb_send_packet(): armed, on the air (sending), waiting for the ACK (the
\* receiver ready, receiving, done or timed out), and its completion taken.  Whenever
\* the radio has stopped without a timeout and with a good CRC, the ACK was heard.
Exchanging ==
  /\ At = "sendFire" =>
       /\ int_disabled /\ ~ev_disabled /\ shorts = {} /\ ppi = {} /\ radioXferDone = 0
       /\ radio = "Disabled" /\ ~fem_rxen
  /\ At = "sendWait" => int_disabled /\ (ack_due => heard)
  /\ At = "sendWait" /\ sending =>
       /\ shorts = (IF ack_enabled THEN Shorts ELSE TxShorts)
       /\ ppi = SendPpi /\ fem_txen /\ ~fem_rxen
       /\ \/ radio \in {"TxRu", "Tx"} /\ ~ev_disabled /\ radioXferDone = 0
          \/ radio = "TxDisable" /\ ~ev_disabled /\ radioXferDone = 0 /\ cc2_fresh
          \/ /\ ack_enabled /\ ev_disabled /\ radioXferDone = 0 /\ cc2_fresh
             /\ radio = "RxRu"
          \/ ~ack_enabled /\ radio = "Disabled" /\ (ev_disabled <=> radioXferDone = 0)
  /\ At = "sendWait" /\ ~sending =>
       /\ ack_enabled /\ shorts = TxShorts
       /\ \/ /\ radio \in OnAir /\ ~ev_disabled /\ radioXferDone = 0
             /\ ppi = AckPpi /\ packet_ptr = "ack" /\ fem_rxen /\ ~fem_txen
             /\ radio \in {"Rx", "RxBusy"} => rx_into = "ack"
             /\ radio \in {"RxRu", "Rx"} => cc1 = "ahead"
             /\ radio = "RxDisable" /\ ~compare1 /\ crc_ok => heard
          \/ /\ radio = "Disabled" /\ ev_disabled /\ radioXferDone = 0 /\ ppi = AckPpi
             /\ ~compare1 /\ crc_ok => heard
          \/ /\ radio = "Disabled" /\ ~ev_disabled /\ radioXferDone = 1 /\ ppi = {}
             /\ ~fem_rxen
             /\ ~timeout /\ crc_ok => heard
  /\ At = "sendClean" =>
       /\ shorts = TxShorts /\ ppi \subseteq SendPpi /\ radioXferDone = 0
       /\ radio = "Disabled" /\ ~ev_disabled /\ ~fem_rxen
       /\ ~timeout /\ crc_ok /\ ack_enabled => heard

\* esb_sniffer_send(): the cycle is broken, the radio falls silent, and the broadcast
\* completes once, without a window for an ACK.
Pausing ==
  /\ At \in {"snifSendOff", "snifSendSleep", "snifSendWait"} =>
       int_disabled /\ ppi \in {{}, AckPpi} /\ (ppi # {} => ~sending)
  /\ At = "snifSendOff" =>
       /\ shorts = Shorts \/ (shorts = TxShorts /\ ~sending)
       /\ ~continuous_carrier_enabled =>
            \/ radio \in OnAir
            \/ radio = "Disabled" /\ shorts = TxShorts /\ (ev_disabled \/ ppi = {})
  /\ At = "snifSendSleep" =>
       /\ shorts = TxShorts /\ radio \in Disabling \cup {"Disabled"}
       /\ radio = "Disabled" /\ ~ev_disabled => ~(sending /\ ack_enabled)
  /\ At = "snifSendWait" =>
       /\ shorts = TxShorts /\ fem_txen /\ ~fem_rxen /\ ~(sending /\ ack_enabled)
       /\ \/ radio \in {"TxRu", "Tx", "TxDisable"} /\ ~ev_disabled /\ radioXferDone = 0
          \/ radio = "Disabled" /\ ev_disabled /\ radioXferDone = 0
          \/ radio = "Disabled" /\ ~ev_disabled /\ radioXferDone = 1 /\ ppi = {}
  /\ At = "snifSendRestart" =>
       ppi = {} /\ radioXferDone = 0 /\ radio = "Disabled" /\ ~ev_disabled

\* DISABLED events are pending only where they are taken, and the timer's match is
\* past whenever a packet is being received in an ACK's window.
Timing ==
  /\ ev_disabled /\ int_disabled => radio \in {"RxRu", "Disabled"}
  /\ "CH22" \in ppi => "CH26" \in ppi /\ (radio = "RxBusy" => cc1 = "behind")

\* An ACK reported, or about to be, was heard.
AckOrigin ==
  /\ At = "sendEnd" /\ ack_received => heard
  /\ AckSound

\* The inductive invariant, on top of LockInv.
RadioInv == /\ Control /\ AtRest /\ Sniffing /\ Starting /\ Stopping /\ Exchanging
            /\ Pausing /\ Timing /\ AckOrigin

USE DEF hwVars, radioVars, timerVars, airVars, lockVars, isrVars, settingVars,
        modeVars, femVars, callVars

-----------------------------------------------------------------------------
\* The shortcuts the driver arms, clears and rearms.
LEMMA ShortFacts ==
  /\ {"READY_START", "END_DISABLE"} \subseteq TxShorts /\ "DISABLED_RXEN" \notin TxShorts
  /\ {"READY_START", "END_DISABLE", "DISABLED_RXEN"} \subseteq Shorts
  /\ {} \cup TxShorts \cup {"DISABLED_RXEN"} = Shorts
  /\ {} \cup TxShorts \cup {} = TxShorts
  /\ Shorts \ {"DISABLED_RXEN"} = TxShorts /\ TxShorts \ {"DISABLED_RXEN"} = TxShorts
  /\ \A S : TxShorts \ (TxShorts \cup S) = {}
  /\ SnifferShorts = Shorts
  /\ Shorts # {} /\ TxShorts # {} /\ TxShorts # Shorts
  BY DEF Shorts, TxShorts, SnifferShorts

\* The PPI channels it enables and disables.
LEMMA PpiFacts ==
  /\ {"CH22", "CH26"} \subseteq AckPpi /\ {"CH26", "CH27"} \subseteq SendPpi
  /\ "CH22" \notin SendPpi
  /\ {} \cup {"CH26", "CH27"} = SendPpi
  /\ \A S \in {{}, SendPpi, AckPpi} : (S \ {"CH27"}) \cup {"CH26", "CH22"} = AckPpi
  /\ AckPpi \ {"CH26", "CH22"} = {} /\ {} \ {"CH26", "CH22"} = {}
  /\ \A S : S \subseteq SendPpi => S \ {"CH26", "CH27"} = {}
  /\ AckPpi # {} /\ SendPpi # {} /\ AckPpi # SendPpi
  BY DEF AckPpi, SendPpi

\* A call that takes a step is the one inside the driver, and no interrupt is pending.
LEMMA Where ==
  ASSUME LockInv, NEW t \in Threads, NEW at, Runs(t, at), at # "idle"
  PROVE  usb_radio_mutex = t /\ At = at /\ ~IsrPending
  BY ThreadAssumption DEF LockInv, TypeOK, CallInv, MutexOwner, Runs, At

\* Where it is after the step.
LEMMA Goes ==
  ASSUME LockInv, NEW t \in Threads, NEW at, usb_radio_mutex = t, Goto(t, at),
         usb_radio_mutex' = usb_radio_mutex
  PROVE  At' = at
  BY ThreadAssumption DEF LockInv, TypeOK, Goto, At

\* Where it is after a step of the hardware or of the interrupt.
LEMMA Stays ==
  ASSUME UNCHANGED <<usb_radio_mutex, pc>>
  PROVE  At' = At
  BY DEF At

\* An exchange goes on only with the sniffer and the carrier off.
LEMMA Tests ==
  ASSUME LockInv
  PROVE  At \in {"sendLock", "sendLoss"} \cup SendPcs =>
           ~sniffer_active /\ ~continuous_carrier_enabled
  BY DEF LockInv, CallInv, FlagsStayClear, TypeOK, At, SendPcs

\* Whatever the radio, the air and the timer do, a step at a time, the peripherals stay
\* in a state that the driver's place allows.
LEMMA HwKeeps ==
  ASSUME LockInv, RadioInv, Prompt, Hardware
  PROVE  RadioInv'
<1> USE DEF RadioInv, Control, AtRest, Sniffing, Starting, Stopping, Exchanging, Pausing,
            Timing, AckOrigin, AckSound, RestPcs, LockPcs, BusyPcs, SendPcs, SnifferPcs,
            OnAir, IsrPending, HwRuns
<1>0. At' = At
  BY Stays DEF Hardware
<1>1. CASE TxReady
  BY <1>1, <1>0, ShortFacts DEF TxReady, Hardware, Disabling
<1>2. CASE TxEnd
  <2>1. UNCHANGED <<shorts, ev_disabled, int_disabled, irq_on, packet_ptr, rx_into, crc_ok,
                    cc1, compare1, ppi, fresh, usb_radio_mutex, radio_busy,
                    radioXferDone, sending, timeout, ack_enabled, ack_received, result,
                    continuous_carrier_enabled, sniffer_active, fem_txen, fem_rxen, pc>>
    BY <1>2 DEF TxEnd, Hardware
  <2>2. radio = "Tx" /\ (cc2_fresh' <=> "CH27" \in ppi)
    BY <1>2 DEF TxEnd
  <2>3. (heard => heard') /\ (ack_due' => heard')
    <3>1. CASE ack_due' = FALSE /\ heard' = heard
      BY <3>1
    <3>2. CASE ack_due' \in BOOLEAN /\ heard' = (heard \/ ack_due')
      BY ONLY <3>2, Zenon
    <3> QED BY <1>2, <3>1, <3>2, Zenon DEF TxEnd
  <2>4. radio' \in {"TxDisable", "TxIdle"}
        /\ ("END_DISABLE" \in shorts => radio' = "TxDisable")
    BY <1>2 DEF TxEnd, AfterEnd, TaskDisable, Disabling, RxStates
  <2> QED BY <1>0, <2>1, <2>2, <2>3, <2>4, Tests, PpiFacts, ShortFacts DEF Disabling
<1>3. CASE Disabled
  BY <1>3, <1>0, ShortFacts DEF Disabled, Hardware, Disabling
<1>4. CASE RxReady
  BY <1>4, <1>0, ShortFacts DEF RxReady, Hardware, Prompt, Disabling
<1>5. CASE RxAddress
  BY <1>5, <1>0 DEF RxAddress, Hardware, Captured, Disabling
<1>6. CASE RxEnd
  BY <1>6, <1>0, ShortFacts
     DEF RxEnd, Hardware, AfterEnd, TaskDisable, RxStates, Disabling
<1>7. CASE TimerMatch
  <2>1. UNCHANGED <<shorts, ev_disabled, int_disabled, irq_on, packet_ptr, rx_into, crc_ok,
                    cc2_fresh, ppi, ack_due, heard, fresh, usb_radio_mutex, radio_busy,
                    radioXferDone, sending, timeout, ack_enabled, ack_received, result,
                    continuous_carrier_enabled, sniffer_active, fem_txen, fem_rxen, pc>>
    BY <1>7 DEF TimerMatch, Hardware
  <2>2. cc1 = "ahead" /\ cc1' = "behind" /\ compare1' = TRUE /\ ~IsrPending
    BY <1>7 DEF TimerMatch, Prompt
  <2>3. CASE "CH22" \notin ppi
    <3>1. radio' = radio
      BY <1>7, <2>3 DEF TimerMatch
    <3> QED BY <1>0, <2>1, <2>2, <2>3, <3>1, PpiFacts
  <2>4. CASE "CH22" \in ppi
    <3>1. radio' = TaskDisable(radio) /\ radio # "RxBusy"
      BY <1>7, <2>2, <2>4 DEF TimerMatch
    <3> QED
      BY <1>0, <2>1, <2>2, <2>4, <3>1, PpiFacts DEF TaskDisable, Disabling, RxStates
  <2> QED BY <2>3, <2>4
<1>8. CASE Stick
  BY <1>8 DEF Stick, Prompt
<1> QED BY <1>1, <1>2, <1>3, <1>4, <1>5, <1>6, <1>7, <1>8 DEF Hardware, HwNext

\* The same for every step of the driver, its ISR and its hardware.
LEMMA Keeps ==
  ASSUME LockInv, RadioInv, Prompt, [Next]_vars
  PROVE  RadioInv'
<1> USE DEF RadioInv, Control, AtRest, Sniffing, Starting, Stopping, Exchanging, Pausing,
            Timing, AckOrigin, AckSound, RestPcs, LockPcs, BusyPcs, SendPcs, SnifferPcs,
            OnAir, IsrPending
<1>1. ASSUME NEW t \in Threads, Acquire(t) PROVE RadioInv'
  BY <1>1 DEF Acquire, MutexFree, At, LockInv, TypeOK, Goto
<1>2. ASSUME NEW t \in Threads, Release(t) PROVE RadioInv'
  BY <1>2, Where DEF Release, At
<1>3. ASSUME NEW t \in Threads, SendCheck(t) PROVE RadioInv'
  BY <1>3, Where, Goes, Stays DEF SendCheck, DisableElapsed, Prompt, Disabling
<1>4. ASSUME NEW t \in Threads, SendLock(t) PROVE RadioInv'
  BY <1>4, Where, Goes, ThreadAssumption DEF SendLock, Lock
<1>5. ASSUME NEW t \in Threads, SendDropped(t) PROVE RadioInv'
  BY <1>5, Where, Goes DEF SendDropped
<1>6. ASSUME NEW t \in Threads, SendStart(t) PROVE RadioInv'
  BY <1>6, Where, Goes DEF SendStart
<1>7. ASSUME NEW t \in Threads, SendArm(t) PROVE RadioInv'
  BY <1>7, Where, Goes, Tests DEF SendArm
<1>8. ASSUME NEW t \in Threads, SendFire(t) PROVE RadioInv'
  BY <1>8, Where, Goes, ShortFacts, PpiFacts DEF SendFire, TaskTxen
<1>9. ASSUME NEW t \in Threads, SendTake(t) PROVE RadioInv'
  BY <1>9, Where, Goes DEF SendTake, TakeXfer
<1>10. ASSUME NEW t \in Threads, SendClean(t) PROVE RadioInv'
  <2>1. At = "sendClean" /\ usb_radio_mutex = t
    BY <1>10, Where DEF SendClean
  <2>2. At' \in {"sendEnd", "sendArm"} /\ (At' = "sendArm" => ~ack_received')
    BY <1>10, <2>1, Goes DEF SendClean
  <2>3. shorts' = {} /\ ppi' = {} /\ int_disabled' = FALSE
    BY <1>10, <2>1, ShortFacts, PpiFacts DEF SendClean
  <2>4. ack_received' => heard
    BY <1>10, <2>1 DEF SendClean, AckReceived
  <2>5. UNCHANGED <<irq_on, radio, radioXferDone, fem_rxen, sniffer_active, ev_disabled,
                    heard, result, continuous_carrier_enabled, radio_busy, usb_radio_mutex>>
    BY <1>10 DEF SendClean
  <2>6. ~sniffer_active /\ ~continuous_carrier_enabled
    BY <2>1, Tests
  <2> QED
    BY <2>1, <2>2, <2>3, <2>4, <2>5, <2>6, PpiFacts
<1>11. ASSUME NEW t \in Threads, SendEnd(t) PROVE RadioInv'
  BY <1>11, Where, Goes DEF SendEnd
<1>12. ASSUME NEW t \in Threads, SendStuck(t) PROVE RadioInv'
  BY <1>12, Where, PpiFacts DEF SendStuck, XferTimedOut, HwQuiet
<1>13. ASSUME NEW t \in Threads, StuckIrqOn(t) PROVE RadioInv'
  BY <1>13, Where DEF StuckIrqOn
<1>14. CASE SetArc
  BY <1>14, Stays DEF SetArc
<1>15. CASE SetAckEnabled
  BY <1>15, Stays DEF SetAckEnabled
<1>16. CASE SetPacketLossSimulation
  BY <1>16, Stays DEF SetPacketLossSimulation
<1>17. CASE CarrierCheck
  BY <1>17, Where, Goes, ThreadAssumption
     DEF CarrierCheck, DisableElapsed, Prompt, Disabling
<1>18. CASE CarrierSet
  BY <1>18, Where, Goes, ThreadAssumption
     DEF CarrierSet, TaskDisable, TaskTxen, RxStates, Disabling
<1>19. CASE StartCheck
  BY <1>19, Where, Goes, Stays, ThreadAssumption
     DEF StartCheck, DisableElapsed, Prompt, Disabling
<1>20. CASE StartLock
  BY <1>20, Where, Goes, ShortFacts, ThreadAssumption DEF StartLock, Lock
<1>21. CASE StartRx
  BY <1>21, Where, Goes, ThreadAssumption DEF StartRx, Interrupt, TaskRxen
<1>22. CASE StopCheck
  BY <1>22, Where, Goes, Stays, ThreadAssumption DEF StopCheck
<1>23. CASE StopLock
  BY <1>23, Where, Goes, ShortFacts, ThreadAssumption
     DEF StopLock, Lock, TaskDisable, Disabling
<1>24. CASE StopDone
  BY <1>24, Where, Goes, ThreadAssumption DEF StopDone, SleepElapsed
<1>25. CASE SnifSendCheck
  BY <1>25, Where, Goes, ThreadAssumption DEF SnifSendCheck
<1>26. CASE SnifSendLock
  BY <1>26, Where, Goes, ThreadAssumption DEF SnifSendLock, Lock, Paused
<1>27. CASE SnifSendOff
  BY <1>27, Where, Goes, ShortFacts, ThreadAssumption
     DEF SnifSendOff, TaskDisable, Disabling
<1>28. CASE SnifSendFire
  BY <1>28, Where, Goes, ThreadAssumption
     DEF SnifSendFire, SleepElapsed, ResetXfer, FemToTx, TaskTxen
<1>29. CASE SnifSendTake
  BY <1>29, Where, Goes, ThreadAssumption DEF SnifSendTake, TakeXfer
<1>30. CASE SnifSendTimeout
  BY <1>30, Where, ThreadAssumption DEF SnifSendTimeout, XferTimedOut, HwQuiet
<1>31. CASE SnifSendReset
  BY <1>31, Where, ThreadAssumption DEF SnifSendReset
<1>32. CASE SnifSendRestart
  BY <1>32, Where, Goes, ShortFacts, ThreadAssumption DEF SnifSendRestart, TaskRxen
<1>33. CASE IsrSniffer
  BY <1>33, Stays, Tests DEF IsrSniffer
<1>34. CASE IsrSent
  BY <1>34, Stays, ShortFacts, PpiFacts DEF IsrSent, WindowPpi, Prompt
<1>35. CASE IsrSentNoAck
  BY <1>35, Stays DEF IsrSentNoAck, XferDone
<1>36. CASE IsrReceived
  BY <1>36, Stays, PpiFacts DEF IsrReceived, XferDone
<1>37. CASE Hardware
  BY <1>37, HwKeeps
<1>38. CASE TimerWrap
  BY <1>38, Stays, ThreadAssumption DEF TimerWrap, Runs, At, LockInv, TypeOK
<1>39. CASE UNCHANGED vars
  BY <1>39, Stays DEF vars
<1> QED
  BY <1>1, <1>2, <1>3, <1>4, <1>5, <1>6, <1>7, <1>8, <1>9, <1>10, <1>11, <1>12, <1>13,
     <1>14, <1>15, <1>16, <1>17, <1>18, <1>19, <1>20, <1>21, <1>22, <1>23, <1>24, <1>25,
     <1>26, <1>27, <1>28, <1>29, <1>30, <1>31, <1>32, <1>33, <1>34, <1>35, <1>36, <1>37,
     <1>38, <1>39 DEF Next, Send, Sniffer, Isr

-----------------------------------------------------------------------------
\* The invariant everything below follows from.
THEOREM RadioInvariant ==
  ASSUME Prompt
  PROVE  Spec => []RadioInv
<1>1. Init => RadioInv
  BY ThreadAssumption
     DEF Init, RadioInv, Control, AtRest, Sniffing, Starting, Stopping, Exchanging, Pausing,
         Timing, AckOrigin, AckSound, At, RestPcs, LockPcs, BusyPcs, SendPcs, SnifferPcs
<1>2. LockInv /\ RadioInv /\ [Next]_vars => RadioInv'
  BY Keeps
<1> QED
  BY <1>1, <1>2, LockInvariant, PTL DEF Spec

\* A thread inside the driver is where the invariant speaks of.
LEMMA Inside ==
  ASSUME LockInv
  PROVE  /\ At \in Pcs
         /\ \A t \in Threads : pc[t] # "idle" => At = pc[t]
  BY ThreadAssumption DEF LockInv, CallInv, MutexOwner, TypeOK, At, Pcs

\* esb_send_packet() reports an ACK only if one was heard for that packet: no stale CRC
\* status, timeout or completion is taken for it.
THEOREM AckedWasHeard ==
  ASSUME Prompt
  PROVE  Spec => []AckSound
<1>1. Spec => []RadioInv
  BY RadioInvariant
<1>2. RadioInv => AckSound
  BY DEF RadioInv, AckOrigin
<1> QED
  BY <1>1, <1>2, PTL

\* Between two calls the radio is off or transmits the carrier, or sniffs: no shortcut,
\* PPI channel, interrupt or completion is left over for the next call.
THEOREM NothingLeftOver ==
  ASSUME Prompt
  PROVE  Spec => []QuietWhenIdle
<1>1. Spec => []RadioInv
  BY RadioInvariant
<1>2. LockInv /\ RadioInv => QuietWhenIdle
  BY Inside DEF RadioInv, Control, AtRest, QuietWhenIdle, RestPcs, Pcs, LockPcs, BusyPcs
<1> QED
  BY <1>1, <1>2, LockInvariant, PTL

\* The completion semaphore is given only to a call that waits for it.
THEOREM CompletionsMatch ==
  ASSUME Prompt
  PROVE  Spec => []NoStaleCompletion
<1>1. Spec => []RadioInv
  BY RadioInvariant
<1>2. LockInv /\ RadioInv => NoStaleCompletion
  <2> SUFFICES ASSUME LockInv, RadioInv, radioXferDone = 1
               PROVE  \E t \in Threads :
                   pc[t] \in {"sendWait", "snifSendOff", "snifSendSleep", "snifSendWait"}
    BY DEF NoStaleCompletion
  <2>1. At \in {"sendWait", "snifSendOff", "snifSendSleep", "snifSendWait"}
    BY Inside
       DEF RadioInv, Control, AtRest, Sniffing, Starting, Stopping, Exchanging, Pausing,
           RestPcs, Pcs, LockPcs, BusyPcs, SendPcs, SnifferPcs
  <2>2. usb_radio_mutex \in Threads /\ At = pc[usb_radio_mutex]
    BY <2>1 DEF At, LockInv, TypeOK
  <2> QED BY <2>1, <2>2
<1> QED
  BY <1>1, <1>2, LockInvariant, PTL

\* A sniffer that no call is working on is in its reception cycle.
THEOREM SnifferReceives ==
  ASSUME Prompt
  PROVE  Spec => []SnifferListens
<1>1. Spec => []RadioInv
  BY RadioInvariant
<1>2. LockInv /\ RadioInv => SnifferListens
  BY Inside
     DEF RadioInv, Control, Sniffing, SnifferListens, Listening, RestPcs, Pcs, LockPcs, BusyPcs, OnAir,
         RxStates
<1> QED
  BY <1>1, <1>2, LockInvariant, PTL

\* While the driver waits for an ACK, the receiver is on, it writes to the ACK's buffer
\* and the timer that ends the wait has yet to match.
THEOREM AckWindowOpen ==
  ASSUME Prompt
  PROVE  Spec => []AckWindow
<1>1. Spec => []RadioInv
  BY RadioInvariant
<1>2. LockInv /\ RadioInv => AckWindow
  BY Inside, PpiFacts DEF RadioInv, Exchanging, AckWindow, OnAir
<1> QED
  BY <1>1, <1>2, LockInvariant, PTL

\* The front end amplifies in the direction the radio works in.
THEOREM FrontEndSwitched ==
  ASSUME Prompt
  PROVE  Spec => []FrontEndFollows
<1>1. Spec => []RadioInv
  BY RadioInvariant
<1>2. LockInv /\ RadioInv => FrontEndFollows
  BY Inside
     DEF RadioInv, Control, AtRest, Sniffing, Starting, Stopping, Exchanging, Pausing,
         FrontEndFollows, OnAir, Disabling, RestPcs, Pcs, LockPcs,
         BusyPcs, SendPcs, SnifferPcs
<1> QED
  BY <1>1, <1>2, LockInvariant, PTL

\* The timeout never disables the radio in the middle of a packet.
THEOREM AckNotCutOff ==
  ASSUME Prompt
  PROVE  Spec => TimeoutSparesAck
<1>1. Spec => []RadioInv
  BY RadioInvariant
<1>2. RadioInv /\ [Next]_vars
        => [TimerMatch => radio # "RxBusy" \/ radio' = "RxBusy"]_vars
  BY DEF RadioInv, Timing, TimerMatch
<1> QED
  BY <1>1, <1>2, PTL DEF Spec, TimeoutSparesAck

\* The sniffer's callback is made once for a packet received, and for nothing else.
THEOREM NoRepeatedCallback ==
  ASSUME Prompt
  PROVE  Spec => CallbackPerPacket
<1>1. Spec => []RadioInv
  BY RadioInvariant
<1>2. LockInv /\ RadioInv /\ [Next]_vars
        => [IsrSniffer /\ crc_ok /\ ~continuous_carrier_enabled =>
              fresh \/ pc[UsbThread] = "stopSleep"]_vars
  <2> SUFFICES ASSUME LockInv, RadioInv, IsrSniffer, crc_ok, ~continuous_carrier_enabled
               PROVE  fresh \/ pc[UsbThread] = "stopSleep"
    OBVIOUS
  <2>1. ev_disabled /\ int_disabled /\ sniffer_active
    BY DEF IsrSniffer, IsrPending
  <2>2. At \in RestPcs \cup {"stopSleep"}
    BY <2>1, Inside, Tests
       DEF RadioInv, Control, Starting, Pcs, LockPcs, BusyPcs, SendPcs, SnifferPcs, RestPcs
  <2>3. CASE At = "stopSleep"
    BY <2>3, ThreadAssumption DEF RadioInv, Control, At
  <2>4. CASE At \in RestPcs
    BY <2>1, <2>4 DEF RadioInv, Sniffing
  <2> QED BY <2>2, <2>3, <2>4
<1> QED
  BY <1>1, <1>2, LockInvariant, PTL DEF Spec, CallbackPerPacket

\* No packet waits in sniffer_rx_buffer but for the interrupt that is due, or is about
\* to be; and none does when nobody sniffs.
Unread ==
  /\ At \in RestPcs /\ ~sniffer_active => ~fresh
  /\ At = "startRx" /\ ~continuous_carrier_enabled => ~fresh
  /\ At \in RestPcs /\ sniffer_active /\ ~continuous_carrier_enabled /\ fresh =>
       ev_disabled \/ radio = "RxDisable"
  /\ At = "stopSleep" /\ fresh => ev_disabled \/ radio \in Disabling

\* What the radio receives it hands over at once, or it is not sniffing.
LEMMA HwKeepsUnread ==
  ASSUME LockInv, RadioInv, Prompt, Unread, Hardware
  PROVE  Unread'
<1> USE DEF Unread, RestPcs, LockPcs
<1>1. At' = At /\ UNCHANGED <<sniffer_active, continuous_carrier_enabled>>
  BY Stays DEF Hardware
<1>2. CASE TxReady
  BY <1>1, <1>2 DEF TxReady, Disabling
<1>3. CASE TxEnd
  <2>1. UNCHANGED <<fresh, ev_disabled>> /\ radio = "Tx"
    BY <1>3 DEF TxEnd
  <2> QED BY <1>1, <2>1 DEF Disabling
<1>4. CASE Disabled
  BY <1>1, <1>4 DEF Disabled
<1>5. CASE RxReady
  BY <1>1, <1>5 DEF RxReady, Disabling
<1>6. CASE RxAddress
  BY <1>1, <1>6 DEF RxAddress, Disabling
<1>7. CASE RxEnd
  <2>1. radio = "RxBusy" /\ ("END_DISABLE" \in shorts => radio' = "RxDisable")
    BY <1>7 DEF RxEnd, AfterEnd, TaskDisable, RxStates
  <2>2. ~(At \in RestPcs /\ ~sniffer_active)
    BY <2>1 DEF RadioInv, AtRest
  <2>3. ~(At = "startRx" /\ ~continuous_carrier_enabled) /\ At # "stopSleep"
    BY <2>1 DEF RadioInv, Starting, Stopping, Disabling
  <2>4. At \in RestPcs /\ sniffer_active => radio' = "RxDisable"
    BY <2>1, ShortFacts DEF RadioInv, Sniffing
  <2> QED BY <1>1, <2>2, <2>3, <2>4
<1>8. CASE TimerMatch
  <2>1. UNCHANGED <<fresh, ev_disabled>> /\ ("CH22" \notin ppi => radio' = radio)
    BY <1>8 DEF TimerMatch
  <2>2. At \in RestPcs \cup {"startRx", "stopSleep"} => ppi = {}
    BY DEF RadioInv, AtRest, Sniffing, Starting, Stopping
  <2> QED BY <1>1, <2>1, <2>2
<1>9. CASE Stick
  BY <1>9 DEF Stick, Prompt
<1> QED
  BY <1>2, <1>3, <1>4, <1>5, <1>6, <1>7, <1>8, <1>9 DEF Hardware, HwNext

\* A step that receives nothing and takes the thread from one call's outside to another's.
LEMMA UnreadStays ==
  ASSUME Unread, UNCHANGED <<sniffer_active, continuous_carrier_enabled, fresh, ev_disabled,
                             radio>>,
         At' = At \/ (At \in RestPcs /\ At' \in RestPcs)
  PROVE  Unread'
BY DEF Unread, RestPcs, LockPcs

\* A step to where nothing is claimed: into an exchange or a pause.
LEMMA UnreadElsewhere ==
  ASSUME At' \notin RestPcs \cup {"startRx", "stopSleep"}
  PROVE  Unread'
BY DEF Unread

\* The driver starts the radio with nothing unread, and the callback reads.
LEMMA KeepsUnread ==
  ASSUME LockInv, RadioInv, Prompt, Unread, [Next]_vars
  PROVE  Unread'
<1>1. ASSUME NEW t \in Threads, Acquire(t) PROVE Unread'
  <2>1. At = "idle" /\ At' = "held"
    BY <1>1, ThreadAssumption DEF Acquire, MutexFree, At, LockInv, TypeOK, Goto
  <2> QED BY <1>1, <2>1, UnreadStays DEF Acquire, RestPcs
<1>2. ASSUME NEW t \in Threads, Release(t) PROVE Unread'
  <2>1. At = "held" /\ At' = "idle"
    BY <1>2, Where DEF Release, At
  <2> QED BY <1>2, <2>1, UnreadStays DEF Release, RestPcs
<1>3. ASSUME NEW t \in Threads, SendCheck(t) PROVE Unread'
  <2>1. At = "held" /\ At' \in {"held", "sendLock"}
    BY <1>3, Where, Goes, Stays DEF SendCheck
  <2> QED BY <1>3, <2>1, UnreadStays DEF SendCheck, RestPcs, LockPcs
<1>4. ASSUME NEW t \in Threads, SendLock(t) PROVE Unread'
  <2>1. At = "sendLock" /\ At' = "sendLoss"
    BY <1>4, Where, Goes DEF SendLock
  <2> QED BY <1>4, <2>1, UnreadStays DEF SendLock, RestPcs, LockPcs
<1>5. ASSUME NEW t \in Threads, SendDropped(t) PROVE Unread'
  <2>1. At = "sendLoss" /\ At' = "held"
    BY <1>5, Where, Goes DEF SendDropped
  <2> QED BY <1>5, <2>1, UnreadStays DEF SendDropped, RestPcs
<1>6. ASSUME NEW t \in Threads, SendStart(t) PROVE Unread'
  <2>1. At = "sendLoss" /\ At' = "sendArm"
    BY <1>6, Where, Goes DEF SendStart
  <2> QED BY <1>6, <2>1, UnreadStays DEF SendStart, RestPcs
<1>7. ASSUME NEW t \in Threads, SendArm(t) \/ SendFire(t) \/ SendTake(t) PROVE Unread'
  <2>1. At' \in {"sendFire", "sendWait", "sendClean"}
    <3>1. CASE SendArm(t)
      BY <3>1, Where, Goes DEF SendArm
    <3>2. CASE SendFire(t)
      BY <3>2, Where, Goes DEF SendFire
    <3>3. CASE SendTake(t)
      BY <3>3, Where, Goes DEF SendTake
    <3> QED BY <1>7, <3>1, <3>2, <3>3
  <2> QED BY <2>1, UnreadElsewhere DEF RestPcs, LockPcs
<1>8. ASSUME NEW t \in Threads, SendClean(t) PROVE Unread'
  <2>1. At' \in {"sendEnd", "sendArm"} /\ fresh' = FALSE
    BY <1>8, Where, Goes DEF SendClean
  <2> QED BY <2>1 DEF Unread
<1>9. ASSUME NEW t \in Threads, SendEnd(t) PROVE Unread'
  <2>1. At = "sendEnd" /\ At' = "held"
    BY <1>9, Where, Goes DEF SendEnd
  <2> QED BY <1>9, <2>1, UnreadStays DEF SendEnd, RestPcs
<1>10. ASSUME NEW t \in Threads, SendStuck(t) PROVE Unread'
  <2>1. At' = "stuckIrqOn"
    BY <1>10, Where, Goes DEF SendStuck
  <2> QED BY <2>1, UnreadElsewhere DEF RestPcs, LockPcs
<1>11. ASSUME NEW t \in Threads, StuckIrqOn(t) PROVE Unread'
  BY <1>11, Where DEF StuckIrqOn, RadioInv, Control
<1>12. CASE SetArc \/ SetAckEnabled \/ SetPacketLossSimulation
  <2>1. UNCHANGED <<usb_radio_mutex, pc, sniffer_active, continuous_carrier_enabled, fresh,
                    ev_disabled, radio>>
    BY <1>12 DEF SetArc, SetAckEnabled, SetPacketLossSimulation
  <2> QED BY <2>1, Stays, UnreadStays
<1>13. CASE CarrierCheck
  <2>1. At = "held" /\ At' = "carrierLock"
    BY <1>13, Where, Goes, ThreadAssumption DEF CarrierCheck
  <2> QED BY <1>13, <2>1, UnreadStays DEF CarrierCheck, RestPcs, LockPcs
<1>14. CASE CarrierSet
  <2>1. At = "carrierLock" /\ At' = "held" /\ UNCHANGED <<sniffer_active, fresh>>
    BY <1>14, Where, Goes, ThreadAssumption DEF CarrierSet
  <2>2. ~sniffer_active
    BY <2>1 DEF RadioInv, Control
  <2> QED BY <2>1, <2>2 DEF Unread, RestPcs, LockPcs
<1>15. CASE StartCheck
  <2>1. At = "held" /\ At' \in {"held", "startLock"}
    BY <1>15, Where, Goes, Stays, ThreadAssumption DEF StartCheck
  <2> QED BY <1>15, <2>1, UnreadStays DEF StartCheck, RestPcs, LockPcs
<1>16. CASE StartLock
  <2>1. At = "startLock" /\ At' = "startRx" /\ fresh' = fresh
    BY <1>16, Where, Goes, ThreadAssumption DEF StartLock
  <2>2. ~sniffer_active
    BY <2>1 DEF RadioInv, Control
  <2> QED BY <2>1, <2>2 DEF Unread, RestPcs, LockPcs
<1>17. CASE StartRx
  <2>1. /\ At = "startRx" /\ At' = "held"
        /\ UNCHANGED <<fresh, sniffer_active, continuous_carrier_enabled>>
    BY <1>17, Where, Goes, ThreadAssumption DEF StartRx
  <2>2. sniffer_active
    BY <2>1 DEF RadioInv, Control
  <2> QED BY <2>1, <2>2 DEF Unread, RestPcs, LockPcs
<1>18. CASE StopCheck
  <2>1. At = "held" /\ At' \in {"held", "stopLock"}
    BY <1>18, Where, Goes, Stays, ThreadAssumption DEF StopCheck
  <2> QED BY <1>18, <2>1, UnreadStays DEF StopCheck, RestPcs, LockPcs
<1>19. CASE StopLock
  <2>1. At' = "stopSleep" /\ radio' = TaskDisable(radio)
    BY <1>19, Where, Goes, ThreadAssumption DEF StopLock
  <2> QED BY <2>1 DEF Unread, RestPcs, LockPcs, TaskDisable, Disabling
<1>20. CASE StopDone
  <2>1. /\ At = "stopSleep" /\ At' = "held" /\ fresh' = fresh /\ sniffer_active' = FALSE
        /\ ~IsrPending /\ radio \notin Disabling
    BY <1>20, Where, Goes, ThreadAssumption DEF StopDone, SleepElapsed
  <2>2. int_disabled /\ irq_on
    BY <2>1 DEF RadioInv, Control, Stopping
  <2> QED BY <2>1, <2>2 DEF Unread, IsrPending
<1>21. CASE SnifSendCheck
  <2>1. At = "held" /\ At' = "snifSendLock"
    BY <1>21, Where, Goes, ThreadAssumption DEF SnifSendCheck
  <2> QED BY <1>21, <2>1, UnreadStays DEF SnifSendCheck, RestPcs, LockPcs
<1>22. CASE SnifSendLock \/ SnifSendOff \/ SnifSendFire \/ SnifSendTake
  <2>1. At' \in {"snifSendOff", "snifSendSleep", "snifSendWait", "snifSendRestart"}
    <3>1. CASE SnifSendLock
      BY <3>1, Where, Goes, ThreadAssumption DEF SnifSendLock
    <3>2. CASE SnifSendOff
      BY <3>2, Where, Goes, ThreadAssumption DEF SnifSendOff
    <3>3. CASE SnifSendFire
      BY <3>3, Where, Goes, ThreadAssumption DEF SnifSendFire
    <3>4. CASE SnifSendTake
      BY <3>4, Where, Goes, ThreadAssumption DEF SnifSendTake
    <3> QED BY <1>22, <3>1, <3>2, <3>3, <3>4
  <2> QED BY <2>1, UnreadElsewhere DEF RestPcs, LockPcs
<1>23. CASE SnifSendTimeout \/ SnifSendReset
  <2>1. At' \in {"snifSendReset", "snifSendRestart"}
    <3>1. CASE SnifSendTimeout
      BY <3>1, Where, Goes, ThreadAssumption DEF SnifSendTimeout
    <3>2. CASE SnifSendReset
      BY <3>2, Where, Goes, ThreadAssumption DEF SnifSendReset
    <3> QED BY <1>23, <3>1, <3>2
  <2> QED BY <2>1, UnreadElsewhere DEF RestPcs, LockPcs
<1>24. CASE SnifSendRestart
  <2>1. fresh' = FALSE
    BY <1>24 DEF SnifSendRestart
  <2> QED BY <2>1 DEF Unread
<1>25. CASE IsrSniffer
  <2>1. fresh' = FALSE
    BY <1>25 DEF IsrSniffer
  <2> QED BY <2>1 DEF Unread
<1>26. CASE IsrSent \/ IsrSentNoAck \/ IsrReceived
  <2>1. /\ UNCHANGED <<usb_radio_mutex, pc, sniffer_active, fresh>>
        /\ ~sniffer_active /\ int_disabled
    BY <1>26 DEF IsrSent, IsrSentNoAck, IsrReceived, IsrPending
  <2>2. At \notin RestPcs /\ At \notin {"startRx", "stopSleep"}
    BY <2>1 DEF RadioInv, Control, AtRest
  <2> QED BY <2>1, <2>2, Stays, UnreadElsewhere
<1>27. CASE Hardware
  BY <1>27, HwKeepsUnread
<1>28. CASE TimerWrap \/ UNCHANGED vars
  <2>1. UNCHANGED <<usb_radio_mutex, pc, sniffer_active, continuous_carrier_enabled, fresh,
                    ev_disabled, radio>>
    BY <1>28 DEF TimerWrap, vars
  <2> QED BY <2>1, Stays, UnreadStays
<1> QED
  BY <1>1, <1>2, <1>3, <1>4, <1>5, <1>6, <1>7, <1>8, <1>9, <1>10, <1>11, <1>12, <1>13,
     <1>14, <1>15, <1>16, <1>17, <1>18, <1>19, <1>20, <1>21, <1>22, <1>23, <1>24, <1>25,
     <1>26, <1>27, <1>28 DEF Next, Send, Sniffer, Isr

\* The radio restarts into the sniffer's one buffer by itself, but it lets no packet
\* into it before the callback has had the one before.
THEOREM BufferReadInTime ==
  ASSUME Prompt
  PROVE  Spec => NoPacketOverwritten
<1>1. Spec => []RadioInv
  BY RadioInvariant
<1>2. Init => Unread
  BY DEF Init, Unread
<1>3. LockInv /\ RadioInv /\ Unread /\ [Next]_vars => Unread'
  BY KeepsUnread
<1>4. LockInv /\ RadioInv /\ Unread /\ [Next]_vars
        => [RxAddress /\ sniffer_active /\ ~continuous_carrier_enabled => ~fresh]_vars
  <2> SUFFICES ASSUME LockInv, RadioInv, Unread, RxAddress, sniffer_active,
                      ~continuous_carrier_enabled
               PROVE  ~fresh
    OBVIOUS
  <2>1. radio = "Rx" /\ ~IsrPending
    BY DEF RxAddress, HwRuns, Prompt
  <2>2. At \in RestPcs \cup {"startRx", "stopSleep"}
    BY Inside, Tests
       DEF RadioInv, Control, Pcs, LockPcs, BusyPcs, SendPcs, SnifferPcs, RestPcs
  <2>3. CASE At \in RestPcs
    BY <2>1, <2>3 DEF Unread, RadioInv, Control, Sniffing, IsrPending
  <2>4. CASE At = "startRx"
    BY <2>4 DEF Unread
  <2>5. CASE At = "stopSleep"
    BY <2>1, <2>5 DEF RadioInv, Stopping, Disabling
  <2> QED BY <2>2, <2>3, <2>4, <2>5
<1> QED
  BY <1>1, <1>2, <1>3, <1>4, LockInvariant, PTL DEF Spec, NoPacketOverwritten

\* The recoveries after 200 ms without a completion (esb_send_packet()'s and
\* esb_sniffer_send()'s) are for a radio that sticks: no interleaving reaches them.
RecoveryUnused ==
  [][(\A t \in Threads : ~SendStuck(t)) /\ ~SnifSendTimeout /\ ~SnifSendReset]_vars

\* Every exchange and every broadcast completes by the interrupt.
THEOREM RadioAnswers ==
  ASSUME Prompt
  PROVE  Spec => RecoveryUnused
<1>1. Spec => []RadioInv
  BY RadioInvariant
<1>2. LockInv /\ RadioInv
        => (\A t \in Threads : ~SendStuck(t)) /\ ~SnifSendTimeout /\ ~SnifSendReset
  <2> SUFFICES ASSUME LockInv, RadioInv
               PROVE  /\ \A t \in Threads : ~SendStuck(t)
                      /\ ~SnifSendTimeout /\ ~SnifSendReset
    OBVIOUS
  <2>1. At = "sendWait" \/ At = "snifSendWait" => ~XferTimedOut
    BY PpiFacts
       DEF RadioInv, Control, Exchanging, Pausing, OnAir, XferTimedOut, HwQuiet, IsrPending
  <2>2. ASSUME NEW t \in Threads PROVE ~SendStuck(t)
    BY <2>1, Inside DEF SendStuck, Runs
  <2>3. ~SnifSendTimeout /\ ~SnifSendReset
    BY <2>1, Inside, ThreadAssumption
       DEF SnifSendTimeout, SnifSendReset, Runs, RadioInv, Control
  <2> QED BY <2>2, <2>3
<1> QED
  BY <1>1, <1>2, LockInvariant, PTL DEF Spec, RecoveryUnused
=============================================================================
