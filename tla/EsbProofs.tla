----------------------------- MODULE EsbProofs -----------------------------
(***************************************************************************)
(* What the two locks around esb.c give, for every set of threads, every   *)
(* setting a host may choose, and whatever the delays of the ISR and of    *)
(* the radio, or even when the radio gets stuck.                           *)
(*                                                                         *)
(* TypeOK is not inductive: the retry counter stays in its range because   *)
(* the retry count cannot change under the loop, which is so because       *)
(* usb_radio_mutex has one owner.  LockInv adds exactly that.              *)
(***************************************************************************)
EXTENDS Esb, TLAPS

\* Every thread inside a call of the driver holds usb_radio_mutex.
MutexOwner == \A t \in Threads : pc[t] # "idle" => usb_radio_mutex = t

\* The outcome of the test of the mode flags, which precedes the lock, lasts
\* until the end of the exchange.
FlagsStayClear ==
  \A t \in Threads : pc[t] \in {"sendLock", "sendLoss"} \cup SendPcs =>
    ~sniffer_active /\ ~continuous_carrier_enabled

\* Inside the retry loop there is a try left.
TriesLeft ==
  \A t \in Threads : pc[t] \in {"sendArm", "sendFire", "sendWait", "sendClean"} =>
    arc_counter <= arc /\ (~ack_enabled => arc_counter = 0)

\* An ack counts only if one was asked for, and the carrier is switched only with
\* the sniffer off: what was tested still holds where it is used.
TestsHold ==
  /\ \A t \in Threads : pc[t] = "sendEnd" /\ ack_received => ack_enabled
  /\ pc[UsbThread] = "carrierLock" => ~sniffer_active

CallInv == MutexOwner /\ FlagsStayClear /\ TriesLeft /\ AllTriesMade /\ TestsHold
LockInv == TypeOK /\ CallInv

USE DEF hwVars, radioVars, timerVars, airVars, lockVars, isrVars, settingVars,
        modeVars, femVars, callVars

-----------------------------------------------------------------------------
\* The operators the actions are built from stay in the registers' ranges.
LEMMA TaskTyping ==
  ASSUME NEW r \in RadioStates
  PROVE  /\ TaskTxen(r) \in RadioStates /\ TaskRxen(r) \in RadioStates
         /\ TaskDisable(r) \in RadioStates
  BY DEF RadioStates, TxStates, RxStates, Disabling, TaskTxen, TaskRxen, TaskDisable

LEMMA Ranges ==
  /\ {"packet", "ack", "broadcast", "sniffer_rx_buffer"} \subseteq Buffers
  /\ TxShorts \in SUBSET Shorts /\ SnifferShorts \in SUBSET Shorts
  /\ {"DISABLED_RXEN"} \in SUBSET Shorts
  /\ {"CH26", "CH27"} \in SUBSET Channels /\ {"CH26", "CH22"} \in SUBSET Channels
  BY DEF Buffers, Shorts, SnifferShorts, TxShorts, Channels

LEMMA PcRange ==
  {"idle", "held", "stuckIrqOn", "sendLock", "snifSendLock", "startLock", "stopLock",
   "carrierLock", "sendLoss", "sendArm", "sendFire", "sendWait", "sendClean", "sendEnd",
   "snifSendOff", "snifSendSleep", "snifSendWait", "snifSendReset", "snifSendRestart",
   "startRx", "stopSleep"} \subseteq Pcs
  BY DEF Pcs, LockPcs, BusyPcs, SendPcs, SnifferPcs

LEMMA Numbers == 0 \in 0..1 /\ 1 \in 0..1 /\ 0 \in 0..16
  OBVIOUS

\* The hardware's own steps keep the registers in their ranges.
LEMMA HwTyping == 
  ASSUME HwTypeOK, HwNext
  PROVE  HwTypeOK'
  <1>1. CASE TxReady
    BY <1>1
       DEF HwTypeOK, TxReady, Captured, RadioStates, TxStates, Shorts, Buffers, Channels
  <1>2. CASE TxEnd
    <2>1. cc2_fresh' \in BOOLEAN
      BY <1>2 DEF TxEnd
    <2>2. ack_due' \in BOOLEAN /\ heard' \in BOOLEAN
      BY <1>2, Zenon DEF TxEnd, HwTypeOK
    <2>3. radio' \in RadioStates
      BY <1>2
         DEF TxEnd, AfterEnd, TaskDisable, RadioStates, TxStates, RxStates, Disabling
    <2>4. UNCHANGED <<shorts, ev_disabled, int_disabled, irq_on, packet_ptr, rx_into,
                      crc_ok, cc1, compare1, ppi, fresh>>
      BY <1>2 DEF TxEnd
    <2>5. QED BY <2>1, <2>2, <2>3, <2>4 DEF HwTypeOK
  <1>3. CASE Disabled
    BY <1>3 DEF HwTypeOK, Disabled, RadioStates, TxStates, RxStates, Disabling
  <1>4. CASE RxReady
    BY <1>4 DEF HwTypeOK, RxReady, RadioStates, TxStates, RxStates, Disabling
  <1>5. CASE RxAddress
    BY <1>5 DEF HwTypeOK, RxAddress, Captured, RadioStates, RxStates
  <1>6. CASE RxEnd
    <2>1. cc2_fresh' \in BOOLEAN
      BY <1>6 DEF RxEnd
    <2>2. crc_ok' \in BOOLEAN /\ fresh' \in BOOLEAN
      BY <1>6, Zenon DEF RxEnd
    <2>3. radio' \in RadioStates
      BY <1>6
         DEF RxEnd, AfterEnd, TaskDisable, RadioStates, TxStates, RxStates, Disabling
    <2>4. ack_due' \in BOOLEAN /\ rx_into' = "none"
      BY <1>6 DEF RxEnd
    <2>5. UNCHANGED <<shorts, ev_disabled, int_disabled, irq_on, packet_ptr, cc1,
                      compare1, ppi, heard>>
      BY <1>6 DEF RxEnd
    <2>6. QED BY <2>1, <2>2, <2>3, <2>4, <2>5 DEF HwTypeOK
  <1>7. CASE TimerMatch
    BY <1>7, TaskTyping
       DEF HwTypeOK, TimerMatch, RadioStates, TxStates, RxStates, Disabling
  <1>8. CASE Stick
    BY <1>8 DEF HwTypeOK, Stick, RadioStates
  <1>9. QED BY <1>1, <1>2, <1>3, <1>4, <1>5, <1>6, <1>7, <1>8 DEF HwNext

\* The driver and the ISR write them within their ranges.
LEMMA HwStaysTyped ==
  ASSUME HwTypeOK, [Next]_vars
  PROVE  HwTypeOK'
  <1>1. ASSUME NEW t \in Threads, Acquire(t) PROVE HwTypeOK'
    BY <1>1 DEF Acquire, HwTypeOK
  <1>2. ASSUME NEW t \in Threads, Release(t) PROVE HwTypeOK'
    BY <1>2 DEF Release, HwTypeOK
  <1>3. ASSUME NEW t \in Threads, SendCheck(t) PROVE HwTypeOK'
    BY <1>3 DEF SendCheck, HwTypeOK
  <1>4. ASSUME NEW t \in Threads, SendLock(t) PROVE HwTypeOK'
    BY <1>4 DEF SendLock, HwTypeOK
  <1>5. ASSUME NEW t \in Threads, SendDropped(t) PROVE HwTypeOK'
    BY <1>5 DEF SendDropped, HwTypeOK
  <1>6. ASSUME NEW t \in Threads, SendStart(t) PROVE HwTypeOK'
    BY <1>6 DEF SendStart, HwTypeOK
  <1>7. ASSUME NEW t \in Threads, SendArm(t) PROVE HwTypeOK'
    BY <1>7 DEF SendArm, HwTypeOK
  <1>8. ASSUME NEW t \in Threads, SendFire(t) PROVE HwTypeOK'
    BY <1>8, TaskTyping, Ranges DEF SendFire, HwTypeOK
  <1>9. ASSUME NEW t \in Threads, SendTake(t) PROVE HwTypeOK'
    BY <1>9 DEF SendTake, HwTypeOK
  <1>10. ASSUME NEW t \in Threads, SendClean(t) PROVE HwTypeOK'
    BY <1>10, Ranges DEF SendClean, HwTypeOK
  <1>11. ASSUME NEW t \in Threads, SendEnd(t) PROVE HwTypeOK'
    BY <1>11 DEF SendEnd, HwTypeOK
  <1>12. ASSUME NEW t \in Threads, SendStuck(t) PROVE HwTypeOK'
    BY <1>12, TaskTyping DEF SendStuck, HwTypeOK
  <1>13. ASSUME NEW t \in Threads, StuckIrqOn(t) PROVE HwTypeOK'
    BY <1>13 DEF StuckIrqOn, HwTypeOK
  <1>14. CASE SetArc
    BY <1>14 DEF SetArc, HwTypeOK
  <1>15. CASE SetAckEnabled
    BY <1>15 DEF SetAckEnabled, HwTypeOK
  <1>16. CASE SetPacketLossSimulation
    BY <1>16 DEF SetPacketLossSimulation, HwTypeOK
  <1>17. CASE CarrierCheck
    BY <1>17 DEF CarrierCheck, HwTypeOK
  <1>18. CASE CarrierSet
    BY <1>18, TaskTyping DEF CarrierSet, HwTypeOK
  <1>19. CASE StartCheck
    BY <1>19 DEF StartCheck, HwTypeOK
  <1>20. CASE StartLock
    BY <1>20, Ranges DEF StartLock, HwTypeOK
  <1>21. CASE StartRx
    BY <1>21, TaskTyping DEF StartRx, Interrupt, HwTypeOK
  <1>22. CASE StopCheck
    BY <1>22 DEF StopCheck, HwTypeOK
  <1>23. CASE StopLock
    BY <1>23, TaskTyping, Ranges DEF StopLock, HwTypeOK
  <1>24. CASE StopDone
    BY <1>24, Ranges DEF StopDone, HwTypeOK
  <1>25. CASE SnifSendCheck
    BY <1>25 DEF SnifSendCheck, HwTypeOK
  <1>26. CASE SnifSendLock
    BY <1>26 DEF SnifSendLock, HwTypeOK
  <1>27. CASE SnifSendOff
    BY <1>27, TaskTyping, Ranges DEF SnifSendOff, HwTypeOK
  <1>28. CASE SnifSendFire
    BY <1>28, TaskTyping, Ranges DEF SnifSendFire, HwTypeOK
  <1>29. CASE SnifSendTake
    BY <1>29 DEF SnifSendTake, HwTypeOK
  <1>30. CASE SnifSendTimeout
    BY <1>30, TaskTyping DEF SnifSendTimeout, HwTypeOK
  <1>31. CASE SnifSendReset
    BY <1>31 DEF SnifSendReset, HwTypeOK
  <1>32. CASE SnifSendRestart
    BY <1>32, TaskTyping, Ranges DEF SnifSendRestart, HwTypeOK
  <1>33. CASE IsrSniffer
    BY <1>33, Ranges DEF IsrSniffer, HwTypeOK
  <1>34. CASE IsrSent
    BY <1>34, Ranges DEF IsrSent, HwTypeOK, WindowPpi
  <1>35. CASE IsrSentNoAck
    BY <1>35 DEF IsrSentNoAck, HwTypeOK
  <1>36. CASE IsrReceived
    BY <1>36, Ranges DEF IsrReceived, HwTypeOK
  <1>37. CASE Hardware
    BY <1>37, HwTyping DEF Hardware
  <1>38. CASE TimerWrap
    BY <1>38 DEF TimerWrap, HwTypeOK
  <1>39. CASE UNCHANGED vars
    BY <1>39 DEF vars, HwTypeOK
  <1>40. QED
    BY <1>1, <1>2, <1>3, <1>4, <1>5, <1>6, <1>7, <1>8, <1>9, <1>10, <1>11, <1>12,
       <1>13, <1>14, <1>15, <1>16, <1>17, <1>18, <1>19, <1>20, <1>21, <1>22, <1>23,
       <1>24, <1>25, <1>26, <1>27, <1>28, <1>29, <1>30, <1>31, <1>32, <1>33, <1>34,
       <1>35, <1>36, <1>37, <1>38, <1>39
       DEF Next, Send, Sniffer, Isr

-----------------------------------------------------------------------------
\* So does the driver its own state; its retry counter, since a try is left.
LEMMA Typing ==
  ASSUME TypeOK, TriesLeft, [Next]_vars
  PROVE  TypeOK'
  <1>0. HwTypeOK'
    BY HwStaysTyped DEF TypeOK
  <1>1. ASSUME NEW t \in Threads, Acquire(t) PROVE TypeOK'
    BY <1>0, <1>1, PcRange, ThreadAssumption, Numbers DEF Acquire, TypeOK, Runs, Goto
  <1>2. ASSUME NEW t \in Threads, Release(t) PROVE TypeOK'
    BY <1>0, <1>2, PcRange, Numbers DEF Release, TypeOK, Runs, Goto
  <1>3. ASSUME NEW t \in Threads, SendCheck(t) PROVE TypeOK'
    BY <1>0, <1>3, PcRange, Numbers DEF SendCheck, TypeOK, Runs, Goto
  <1>4. ASSUME NEW t \in Threads, SendLock(t) PROVE TypeOK'
    BY <1>0, <1>4, PcRange, ThreadAssumption, Numbers
       DEF SendLock, TypeOK, Lock, Runs, Goto
  <1>5. ASSUME NEW t \in Threads, SendDropped(t) PROVE TypeOK'
    BY <1>0, <1>5, PcRange, Numbers DEF SendDropped, TypeOK, Unlock, Runs, Goto
  <1>6. ASSUME NEW t \in Threads, SendStart(t) PROVE TypeOK'
    <2>1. pc' \in [Threads -> Pcs]
      BY <1>6, PcRange DEF SendStart, Goto, TypeOK
    <2>2. ack_received' \in BOOLEAN
      BY <1>6 DEF SendStart
    <2>3. arc_counter' \in 0..16
      BY <1>6, Numbers DEF SendStart
    <2>4. UNCHANGED <<usb_radio_mutex, radio_busy, radioXferDone, sending, timeout,
                     ack_enabled, arc, packet_loss_percent,
                     ack_loss_percent, continuous_carrier_enabled,
                     sniffer_active, sniffer_mode, fem_txen,
                     fem_rxen, result>>
      BY <1>6 DEF SendStart
    <2>5. QED
      BY <1>0, <2>1, <2>2, <2>3, <2>4 DEF TypeOK
  <1>7. ASSUME NEW t \in Threads, SendArm(t) PROVE TypeOK'
    BY <1>0, <1>7, PcRange, Numbers DEF SendArm, TypeOK, Runs, Goto
  <1>8. ASSUME NEW t \in Threads, SendFire(t) PROVE TypeOK'
    BY <1>0, <1>8, PcRange, Numbers DEF SendFire, TypeOK, Runs, Goto
  <1>9. ASSUME NEW t \in Threads, SendTake(t) PROVE TypeOK'
    BY <1>0, <1>9, PcRange, Numbers DEF SendTake, TypeOK, TakeXfer, Runs, Goto
  <1>10. ASSUME NEW t \in Threads, SendClean(t) PROVE TypeOK'
    BY <1>0, <1>10, PcRange
       DEF SendClean, TypeOK, Runs, Goto, OutOfTries, AckReceived, TriesLeft
  <1>11. ASSUME NEW t \in Threads, SendEnd(t) PROVE TypeOK'
    <2>1. pc' \in [Threads -> Pcs]
      BY <1>11, PcRange DEF SendEnd, Goto, TypeOK
    <2>2. result' \in {"none", "acked", "failed"}
      BY <1>11 DEF SendEnd
    <2>3. radio_busy' \in Threads \cup {NoThread}
      BY <1>11 DEF SendEnd, Unlock
    <2>4. ack_received' \in BOOLEAN
      BY <1>11 DEF SendEnd
    <2>5. arc_counter' \in 0..16
      BY <1>11, Numbers DEF SendEnd
    <2>6. UNCHANGED <<usb_radio_mutex, radioXferDone, sending, timeout, ack_enabled,
                     arc, packet_loss_percent, ack_loss_percent,
                     continuous_carrier_enabled, sniffer_active,
                     sniffer_mode, fem_txen, fem_rxen>>
      BY <1>11 DEF SendEnd
    <2>7. QED
      BY <1>0, <2>1, <2>2, <2>3, <2>4, <2>5, <2>6 DEF TypeOK
  <1>12. ASSUME NEW t \in Threads, SendStuck(t) PROVE TypeOK'
    <2>1. pc' \in [Threads -> Pcs]
      BY <1>12, PcRange DEF SendStuck, Goto, TypeOK
    <2>2. result' \in {"none", "acked", "failed"}
      BY <1>12 DEF SendStuck
    <2>3. radio_busy' \in Threads \cup {NoThread}
      BY <1>12 DEF SendStuck, Unlock
    <2>4. ack_received' \in BOOLEAN
      BY <1>12 DEF SendStuck
    <2>5. arc_counter' \in 0..16 /\ radioXferDone' \in 0..1
      BY <1>12, Numbers DEF SendStuck, ResetXfer
    <2>6. UNCHANGED <<usb_radio_mutex, sending, timeout, ack_enabled, arc,
                     packet_loss_percent, ack_loss_percent,
                     continuous_carrier_enabled, sniffer_active,
                     sniffer_mode, fem_txen, fem_rxen>>
      BY <1>12 DEF SendStuck
    <2>7. QED
      BY <1>0, <2>1, <2>2, <2>3, <2>4, <2>5, <2>6 DEF TypeOK
  <1>13. ASSUME NEW t \in Threads, StuckIrqOn(t) PROVE TypeOK'
    BY <1>0, <1>13, PcRange, Numbers DEF StuckIrqOn, TypeOK, Runs, Goto
  <1>14. CASE SetArc
    BY <1>0, <1>14, ThreadAssumption, Numbers, SettingAssumption
       DEF SetArc, TypeOK, Runs
  <1>15. CASE SetAckEnabled
    BY <1>0, <1>15, ThreadAssumption, Numbers DEF SetAckEnabled, TypeOK, Runs
  <1>16. CASE SetPacketLossSimulation
    BY <1>0, <1>16, ThreadAssumption, Numbers, SettingAssumption
       DEF SetPacketLossSimulation, TypeOK, Runs
  <1>17. CASE CarrierCheck
    BY <1>0, <1>17, PcRange, ThreadAssumption, Numbers
       DEF CarrierCheck, TypeOK, Runs, Goto
  <1>18. CASE CarrierSet
    BY <1>0, <1>18, PcRange, ThreadAssumption, Numbers
       DEF CarrierSet, TypeOK, Runs, Goto
  <1>19. CASE StartCheck
    BY <1>0, <1>19, PcRange, ThreadAssumption, Numbers
       DEF StartCheck, TypeOK, Runs, Goto
  <1>20. CASE StartLock
    BY <1>0, <1>20, PcRange, ThreadAssumption, Numbers
       DEF StartLock, TypeOK, Lock, Runs, Goto
  <1>21. CASE StartRx
    BY <1>0, <1>21, PcRange, ThreadAssumption, Numbers
       DEF StartRx, TypeOK, Unlock, Runs, Goto
  <1>22. CASE StopCheck
    <2>1. pc' \in [Threads -> Pcs]
      BY <1>22, PcRange DEF StopCheck, Goto, TypeOK
    <2>2. sniffer_mode' \in BOOLEAN
      BY <1>22 DEF StopCheck, TypeOK
    <2>3. UNCHANGED <<usb_radio_mutex, radio_busy, radioXferDone, sending, timeout,
                     ack_enabled, arc, packet_loss_percent,
                     ack_loss_percent, continuous_carrier_enabled,
                     sniffer_active, fem_txen, fem_rxen,
                     arc_counter, ack_received, result>>
      BY <1>22 DEF StopCheck
    <2>4. QED
      BY <1>0, <2>1, <2>2, <2>3 DEF TypeOK
  <1>23. CASE StopLock
    BY <1>0, <1>23, PcRange, ThreadAssumption, Numbers
       DEF StopLock, TypeOK, Lock, Runs, Goto
  <1>24. CASE StopDone
    <2>1. pc' \in [Threads -> Pcs]
      BY <1>24, PcRange DEF StopDone, Goto, TypeOK
    <2>2. radio_busy' \in Threads \cup {NoThread}
      BY <1>24 DEF StopDone, Unlock
    <2>3. fem_rxen' \in BOOLEAN /\ sniffer_active' \in BOOLEAN /\ sniffer_mode' \in BOOLEAN
      BY <1>24 DEF StopDone
    <2>4. UNCHANGED <<usb_radio_mutex, radioXferDone, sending, timeout, ack_enabled,
                     arc, packet_loss_percent, ack_loss_percent,
                     continuous_carrier_enabled, fem_txen, arc_counter,
                     ack_received, result>>
      BY <1>24 DEF StopDone
    <2>5. QED
      BY <1>0, <2>1, <2>2, <2>3, <2>4 DEF TypeOK
  <1>25. CASE SnifSendCheck
    BY <1>0, <1>25, PcRange, ThreadAssumption, Numbers
       DEF SnifSendCheck, TypeOK, Runs, Goto
  <1>26. CASE SnifSendLock
    <2>1. pc' \in [Threads -> Pcs]
      BY <1>26, PcRange DEF SnifSendLock, Goto, TypeOK
    <2>2. sniffer_active' \in BOOLEAN /\ radio_busy' \in Threads \cup {NoThread}
      BY <1>26, ThreadAssumption DEF SnifSendLock, Lock, Paused
    <2>3. UNCHANGED <<usb_radio_mutex, radioXferDone, sending, timeout, ack_enabled,
                     arc, packet_loss_percent, ack_loss_percent,
                     continuous_carrier_enabled, sniffer_mode,
                     fem_txen, fem_rxen, arc_counter,
                     ack_received, result>>
      BY <1>26 DEF SnifSendLock
    <2>4. QED
      BY <1>0, <2>1, <2>2, <2>3 DEF TypeOK
  <1>27. CASE SnifSendOff
    BY <1>0, <1>27, PcRange, ThreadAssumption, Numbers
       DEF SnifSendOff, TypeOK, Runs, Goto
  <1>28. CASE SnifSendFire
    <2>1. fem_txen' \in BOOLEAN /\ fem_rxen' \in BOOLEAN
      BY <1>28 DEF SnifSendFire, FemToTx
    <2>2. pc' \in [Threads -> Pcs]
      BY <1>28, PcRange DEF SnifSendFire, Goto, TypeOK
    <2>3. radioXferDone' \in 0..1
      BY <1>28 DEF SnifSendFire, ResetXfer
    <2>4. UNCHANGED <<usb_radio_mutex, radio_busy, sending, timeout, ack_enabled, arc,
                     packet_loss_percent, ack_loss_percent,
                     continuous_carrier_enabled, sniffer_active,
                     sniffer_mode, arc_counter, ack_received,
                     result>>
      BY <1>28 DEF SnifSendFire
    <2>5. QED
      BY <1>0, <2>1, <2>2, <2>3, <2>4 DEF TypeOK
  <1>29. CASE SnifSendTake
    BY <1>0, <1>29, PcRange, ThreadAssumption, Numbers
       DEF SnifSendTake, TypeOK, TakeXfer, Runs, Goto
  <1>30. CASE SnifSendTimeout
    BY <1>0, <1>30, PcRange, ThreadAssumption, Numbers
       DEF SnifSendTimeout, TypeOK, Runs, Goto
  <1>31. CASE SnifSendReset
    <2>1. pc' \in [Threads -> Pcs]
      BY <1>31, PcRange DEF SnifSendReset, Goto, TypeOK
    <2>2. radioXferDone' \in 0..1
      BY <1>31 DEF SnifSendReset, ResetXfer
    <2>3. UNCHANGED <<usb_radio_mutex, radio_busy, sending, timeout, ack_enabled, arc,
                     packet_loss_percent, ack_loss_percent,
                     continuous_carrier_enabled, sniffer_active, sniffer_mode,
                     fem_txen, fem_rxen, arc_counter, ack_received, result>>
      BY <1>31 DEF SnifSendReset
    <2>4. QED
      BY <1>0, <2>1, <2>2, <2>3 DEF TypeOK
  <1>32. CASE SnifSendRestart
    <2>1. pc' \in [Threads -> Pcs]
      BY <1>32, PcRange DEF SnifSendRestart, Goto, TypeOK
    <2>2. radio_busy' \in Threads \cup {NoThread}
      BY <1>32 DEF SnifSendRestart, Unlock
    <2>3. sniffer_active' \in BOOLEAN /\ fem_txen' \in BOOLEAN /\ fem_rxen' \in BOOLEAN
      BY <1>32 DEF SnifSendRestart
    <2>4. UNCHANGED <<usb_radio_mutex, radioXferDone, sending, timeout, ack_enabled,
                     arc, packet_loss_percent, ack_loss_percent,
                     continuous_carrier_enabled, sniffer_mode, arc_counter,
                     ack_received, result>>
      BY <1>32 DEF SnifSendRestart
    <2>5. QED
      BY <1>0, <2>1, <2>2, <2>3, <2>4 DEF TypeOK
  <1>33. CASE IsrSniffer
    BY <1>0, <1>33, ThreadAssumption, Numbers DEF IsrSniffer, TypeOK
  <1>34. CASE IsrSent
    BY <1>0, <1>34, ThreadAssumption, Numbers DEF IsrSent, TypeOK
  <1>35. CASE IsrSentNoAck
    BY <1>0, <1>35, ThreadAssumption, Numbers DEF IsrSentNoAck, TypeOK, XferDone
  <1>36. CASE IsrReceived
    <2>1. timeout' \in BOOLEAN
      BY <1>36 DEF IsrReceived, TypeOK, HwTypeOK
    <2>2. fem_rxen' \in BOOLEAN
      BY <1>36 DEF IsrReceived
    <2>3. radioXferDone' \in 0..1
      BY <1>36 DEF IsrReceived, XferDone
    <2>4. UNCHANGED <<usb_radio_mutex, radio_busy, sending, ack_enabled, arc,
                     packet_loss_percent, ack_loss_percent,
                     continuous_carrier_enabled, sniffer_active,
                     sniffer_mode, fem_txen, arc_counter,
                     ack_received, pc, result>>
      BY <1>36 DEF IsrReceived
    <2>5. QED
      BY <1>0, <2>1, <2>2, <2>3, <2>4 DEF TypeOK
  <1>37. CASE Hardware
    BY <1>0, <1>37 DEF Hardware, TypeOK
  <1>38. CASE TimerWrap
    BY <1>0, <1>38 DEF TimerWrap, TypeOK
  <1>39. CASE UNCHANGED vars
    BY <1>0, <1>39 DEF vars, TypeOK
  <1>40. QED
    BY <1>1, <1>2, <1>3, <1>4, <1>5, <1>6, <1>7, <1>8, <1>9, <1>10, <1>11, <1>12,
       <1>13, <1>14, <1>15, <1>16, <1>17, <1>18, <1>19, <1>20, <1>21, <1>22, <1>23,
       <1>24, <1>25, <1>26, <1>27, <1>28, <1>29, <1>30, <1>31, <1>32, <1>33, <1>34,
       <1>35, <1>36, <1>37, <1>38, <1>39
       DEF Next, Send, Sniffer, Isr

-----------------------------------------------------------------------------
\* One owner of the mutex: while it is inside an exchange no other thread turns
\* the sniffer or the carrier on, nor sets another number of retries.
LEMMA Exclusion ==
  ASSUME TypeOK, CallInv, [Next]_vars
  PROVE  CallInv'
  <1> USE DEF TypeOK, CallInv, MutexOwner, FlagsStayClear, TriesLeft, AllTriesMade,
              TestsHold, SendPcs, Runs, Goto
  <1>1. ASSUME NEW t \in Threads, Acquire(t) PROVE CallInv'
    BY <1>1, ThreadAssumption DEF Acquire, MutexFree
  <1>2. ASSUME NEW t \in Threads, Release(t) PROVE CallInv'
    BY <1>2, ThreadAssumption DEF Release
  <1>3. ASSUME NEW t \in Threads, SendCheck(t) PROVE CallInv'
    BY <1>3, ThreadAssumption DEF SendCheck
  <1>4. ASSUME NEW t \in Threads, SendLock(t) PROVE CallInv'
    BY <1>4, ThreadAssumption DEF SendLock
  <1>5. ASSUME NEW t \in Threads, SendDropped(t) PROVE CallInv'
    BY <1>5, ThreadAssumption DEF SendDropped
  <1>6. ASSUME NEW t \in Threads, SendStart(t) PROVE CallInv'
    BY <1>6, ThreadAssumption DEF SendStart
  <1>7. ASSUME NEW t \in Threads, SendArm(t) PROVE CallInv'
    BY <1>7, ThreadAssumption DEF SendArm
  <1>8. ASSUME NEW t \in Threads, SendFire(t) PROVE CallInv'
    BY <1>8, ThreadAssumption DEF SendFire
  <1>9. ASSUME NEW t \in Threads, SendTake(t) PROVE CallInv'
    BY <1>9, ThreadAssumption DEF SendTake
  <1>10. ASSUME NEW t \in Threads, SendClean(t) PROVE CallInv'
    BY <1>10, ThreadAssumption DEF SendClean, OutOfTries, AckReceived
  <1>11. ASSUME NEW t \in Threads, SendEnd(t) PROVE CallInv'
    BY <1>11, ThreadAssumption DEF SendEnd
  <1>12. ASSUME NEW t \in Threads, SendStuck(t) PROVE CallInv'
    BY <1>12, ThreadAssumption DEF SendStuck
  <1>13. ASSUME NEW t \in Threads, StuckIrqOn(t) PROVE CallInv'
    BY <1>13, ThreadAssumption DEF StuckIrqOn
  <1>14. CASE SetArc
    BY <1>14, ThreadAssumption DEF SetArc
  <1>15. CASE SetAckEnabled
    BY <1>15, ThreadAssumption DEF SetAckEnabled
  <1>16. CASE SetPacketLossSimulation
    BY <1>16, ThreadAssumption DEF SetPacketLossSimulation
  <1>17. CASE CarrierCheck
    BY <1>17, ThreadAssumption DEF CarrierCheck
  <1>18. CASE CarrierSet
    BY <1>18, ThreadAssumption DEF CarrierSet
  <1>19. CASE StartCheck
    BY <1>19, ThreadAssumption DEF StartCheck
  <1>20. CASE StartLock
    BY <1>20, ThreadAssumption DEF StartLock
  <1>21. CASE StartRx
    BY <1>21, ThreadAssumption DEF StartRx
  <1>22. CASE StopCheck
    BY <1>22, ThreadAssumption DEF StopCheck
  <1>23. CASE StopLock
    BY <1>23, ThreadAssumption DEF StopLock
  <1>24. CASE StopDone
    BY <1>24, ThreadAssumption DEF StopDone
  <1>25. CASE SnifSendCheck
    BY <1>25, ThreadAssumption DEF SnifSendCheck
  <1>26. CASE SnifSendLock
    BY <1>26, ThreadAssumption DEF SnifSendLock, Paused
  <1>27. CASE SnifSendOff
    BY <1>27, ThreadAssumption DEF SnifSendOff
  <1>28. CASE SnifSendFire
    BY <1>28, ThreadAssumption DEF SnifSendFire
  <1>29. CASE SnifSendTake
    BY <1>29, ThreadAssumption DEF SnifSendTake
  <1>30. CASE SnifSendTimeout
    BY <1>30, ThreadAssumption DEF SnifSendTimeout
  <1>31. CASE SnifSendReset
    BY <1>31, ThreadAssumption DEF SnifSendReset
  <1>32. CASE SnifSendRestart
    BY <1>32, ThreadAssumption DEF SnifSendRestart
  <1>33. CASE IsrSniffer
    BY <1>33, ThreadAssumption DEF IsrSniffer
  <1>34. CASE IsrSent
    BY <1>34, ThreadAssumption DEF IsrSent
  <1>35. CASE IsrSentNoAck
    BY <1>35, ThreadAssumption DEF IsrSentNoAck
  <1>36. CASE IsrReceived
    BY <1>36, ThreadAssumption DEF IsrReceived
  <1>37. CASE Hardware
    BY <1>37 DEF Hardware
  <1>38. CASE TimerWrap
    BY <1>38 DEF TimerWrap
  <1>39. CASE UNCHANGED vars
    BY <1>39 DEF vars
  <1>40. QED
    BY <1>1, <1>2, <1>3, <1>4, <1>5, <1>6, <1>7, <1>8, <1>9, <1>10, <1>11, <1>12,
       <1>13, <1>14, <1>15, <1>16, <1>17, <1>18, <1>19, <1>20, <1>21, <1>22, <1>23,
       <1>24, <1>25, <1>26, <1>27, <1>28, <1>29, <1>30, <1>31, <1>32, <1>33, <1>34,
       <1>35, <1>36, <1>37, <1>38, <1>39
       DEF Next, Send, Sniffer, Isr

-----------------------------------------------------------------------------
\* The invariant the theorems below follow from.
THEOREM LockInvariant == Spec => []LockInv
  <1>1. Init => TypeOK
    BY ThreadAssumption, SettingAssumption, Numbers, PcRange
    DEF Init, TypeOK, HwTypeOK, RadioStates, Buffers
  <1>2. Init => CallInv
    BY ThreadAssumption
    DEF Init, CallInv, MutexOwner, FlagsStayClear, TriesLeft, AllTriesMade, TestsHold,
        SendPcs
  <1>3. LockInv /\ [Next]_vars => LockInv'
    BY Typing, Exclusion DEF LockInv, CallInv
  <1>4. QED
    BY <1>1, <1>2, <1>3, PTL DEF Spec, LockInv

\* Every variable keeps its type, the retry counter and the semaphore their
\* bounds, whatever the delays.
THEOREM TypeCorrect == Spec => []TypeOK
  BY LockInvariant, PTL DEF LockInv

\* esb_send_packet() tests the mode flags before it takes radio_busy; even so no
\* packet is exchanged with the sniffer or the carrier on, since both callers
\* hold usb_radio_mutex.
THEOREM NoExchangeInOtherMode == Spec => []ModeExclusion
  <1>1. LockInv => ModeExclusion
    BY DEF LockInv, CallInv, FlagsStayClear, ModeExclusion
  <1>2. QED
    BY <1>1, LockInvariant, PTL

\* A packet given up has been tried as often as the host asked, though the host
\* may set another number at any time.
THEOREM RetriesAsSet == Spec => []AllTriesMade
  BY LockInvariant, PTL DEF LockInv, CallInv

-----------------------------------------------------------------------------
\* While a thread is inside a call no other thread does anything in the driver.
LEMMA Alone ==
  ASSUME LockInv, NEW t \in Threads, NEW u \in Threads,
         pc[t] \notin {"idle", "held"}, pc[u] # "idle"
  PROVE  u = t
  BY DEF LockInv, CallInv, MutexOwner

\* The count, place by place.
LEMMA Counts ==
  ASSUME NEW a, NEW n
  PROVE  /\ StepsFrom("idle", a, n) = 0 /\ StepsFrom("held", a, n) = 0
         /\ StepsFrom("sendLock", a, n) = 4 * (a + 1) + 6
         /\ StepsFrom("sendLoss", a, n) = 4 * (a + 1) + 5
         /\ StepsFrom("sendArm", a, n) = 4 * (a + 1 - n) + 4
         /\ StepsFrom("sendFire", a, n) = 4 * (a + 1 - n) + 3
         /\ StepsFrom("sendWait", a, n) = 4 * (a + 1 - n) + 2
         /\ StepsFrom("sendClean", a, n) = 4 * (a + 1 - n) + 1
         /\ StepsFrom("snifSendLock", a, n) = 6 /\ StepsFrom("snifSendOff", a, n) = 5
         /\ StepsFrom("snifSendSleep", a, n) = 4 /\ StepsFrom("snifSendWait", a, n) = 3
         /\ \A p \in {"snifSendReset", "startLock", "stopLock"} : StepsFrom(p, a, n) = 2
         /\ \A p \in {"sendEnd", "stuckIrqOn", "snifSendRestart", "carrierLock", "startRx",
                      "stopSleep"} : StepsFrom(p, a, n) = 1
  BY DEF StepsFrom

\* A call in its retry loop has a try left, so none is without a step.
LEMMA StepIsLeft ==
  ASSUME LockInv, NEW t \in Threads, pc[t] \notin {"idle", "held"}
  PROVE  StepsLeft(t) > 0
<1> DEFINE p == pc[t]
<1>1. arc \in 0..15 /\ arc_counter \in 0..16 /\ p \in Pcs \ {"idle", "held"}
  BY DEF LockInv, TypeOK
<1>2. p \in {"sendArm", "sendFire", "sendWait", "sendClean"} => arc_counter <= arc
  BY DEF LockInv, CallInv, TriesLeft
<1> HIDE DEF p
<1>3. CASE p \in {"sendArm", "sendFire", "sendWait", "sendClean"}
  BY <1>1, <1>2, <1>3, Counts DEF StepsLeft, p
<1>4. CASE p \in {"sendLock", "sendLoss"}
  BY <1>1, <1>4, Counts DEF StepsLeft, p
<1>5. CASE p \notin {"sendArm", "sendFire", "sendWait", "sendClean", "sendLock", "sendLoss"}
  BY <1>1, <1>5, Counts DEF StepsLeft, p, Pcs, LockPcs, BusyPcs, SendPcs, SnifferPcs
<1> QED BY <1>3, <1>4, <1>5

Progress(t) ==
  IF pc'[t] = pc[t] THEN StepsLeft(t)' = StepsLeft(t) ELSE StepsLeft(t)' < StepsLeft(t)

\* A step that moves a thread on, or leaves it and its tries where they are.
LEMMA MovesOn ==
  ASSUME LockInv, NEW t \in Threads, NEW next, Goto(t, next),
         StepsFrom(next, arc', arc_counter') < StepsLeft(t), next # pc[t]
  PROVE  Progress(t)
  BY DEF LockInv, TypeOK, Goto, Progress, StepsLeft

LEMMA StaysPut ==
  ASSUME NEW t \in Threads, UNCHANGED <<pc, arc, arc_counter>>
  PROVE  Progress(t)
  BY DEF Progress, StepsLeft

\* The thread inside, step by step; a try that fails gives way to one less.
LEMMA EachStepCounts ==
  ASSUME LockInv, [Next]_vars, NEW u \in Threads, pc[u] \notin {"idle", "held"}
  PROVE  Progress(u)
<1> DEFINE a == arc
           n == arc_counter
<1>0. a \in 0..15 /\ n \in 0..16 /\ pc \in [Threads -> Pcs]
  BY DEF LockInv, TypeOK
<1> USE DEF Runs, StepsLeft
<1>1. ASSUME NEW t \in Threads, Acquire(t) \/ Release(t) \/ SendCheck(t) PROVE FALSE
  <2>1. pc[t] \in {"idle", "held"} /\ (pc[t] = "idle" => usb_radio_mutex = NoThread)
    BY <1>1 DEF Acquire, Release, SendCheck, MutexFree
  <2>2. usb_radio_mutex = u /\ (pc[t] = "held" => u = t)
    BY <2>1, Alone DEF LockInv, CallInv, MutexOwner
  <2> QED BY <2>1, <2>2, ThreadAssumption
<1>2. ASSUME NEW t \in Threads, SendLock(t) PROVE Progress(u)
  <2>1. pc[t] = "sendLock" /\ Goto(t, "sendLoss") /\ arc' = a /\ arc_counter' = n /\ u = t
    BY <1>2, Alone DEF SendLock
  <2> QED BY <1>0, <2>1, Counts, MovesOn
<1>3. ASSUME NEW t \in Threads, SendDropped(t) PROVE Progress(u)
  <2>1. pc[t] = "sendLoss" /\ Goto(t, "held") /\ arc' = a /\ arc_counter' = n /\ u = t
    BY <1>3, Alone DEF SendDropped
  <2> QED BY <1>0, <2>1, Counts, MovesOn
<1>4. ASSUME NEW t \in Threads, SendStart(t) PROVE Progress(u)
  <2>1. pc[t] = "sendLoss" /\ Goto(t, "sendArm") /\ arc' = a /\ arc_counter' = 0 /\ u = t
    BY <1>4, Alone DEF SendStart
  <2> QED BY <1>0, <2>1, Counts, MovesOn
<1>5. ASSUME NEW t \in Threads, SendArm(t) PROVE Progress(u)
  <2>1. pc[t] = "sendArm" /\ Goto(t, "sendFire") /\ arc' = a /\ arc_counter' = n /\ u = t
    BY <1>5, Alone DEF SendArm
  <2> QED BY <1>0, <2>1, Counts, MovesOn
<1>6. ASSUME NEW t \in Threads, SendFire(t) PROVE Progress(u)
  <2>1. pc[t] = "sendFire" /\ Goto(t, "sendWait") /\ arc' = a /\ arc_counter' = n /\ u = t
    BY <1>6, Alone DEF SendFire
  <2> QED BY <1>0, <2>1, Counts, MovesOn
<1>7. ASSUME NEW t \in Threads, SendTake(t) PROVE Progress(u)
  <2>1. pc[t] = "sendWait" /\ Goto(t, "sendClean") /\ arc' = a /\ arc_counter' = n /\ u = t
    BY <1>7, Alone DEF SendTake
  <2> QED BY <1>0, <2>1, Counts, MovesOn
<1>8. ASSUME NEW t \in Threads, SendClean(t) PROVE Progress(u)
  <2>1. pc[t] = "sendClean" /\ arc' = a /\ arc_counter' = n + 1 /\ u = t
    BY <1>8, Alone DEF SendClean
  <2>2. n <= a
    BY <2>1 DEF LockInv, CallInv, TriesLeft
  <2>3. StepsLeft(t) = 4 * (a + 1 - n) + 1
    BY <2>1, Counts
  <2>4. CASE Goto(t, "sendEnd")
    <3>1. StepsFrom("sendEnd", arc', arc_counter') = 1
      BY Counts
    <3>2. 1 < StepsLeft(t)
      BY ONLY <1>0, <2>2, <2>3
    <3> QED BY <2>1, <2>4, <3>1, <3>2, MovesOn
  <2>5. CASE Goto(t, "sendArm")
    <3>1. StepsFrom("sendArm", arc', arc_counter') = 4 * (a + 1 - (n + 1)) + 4
      BY <2>1, Counts
    <3>2. 4 * (a + 1 - (n + 1)) + 4 < StepsLeft(t)
      BY ONLY <1>0, <2>2, <2>3
    <3> QED BY <2>1, <2>5, <3>1, <3>2, MovesOn
  <2> QED BY <1>8, <2>1, <2>4, <2>5 DEF SendClean
<1>9. ASSUME NEW t \in Threads, SendEnd(t) PROVE Progress(u)
  <2>1. pc[t] = "sendEnd" /\ Goto(t, "held") /\ u = t
    BY <1>9, Alone DEF SendEnd
  <2> QED BY <2>1, Counts, MovesOn
<1>10. ASSUME NEW t \in Threads, SendStuck(t) PROVE Progress(u)
  <2>1. pc[t] = "sendWait" /\ Goto(t, "stuckIrqOn") /\ u = t
    BY <1>10, Alone DEF SendStuck
  <2>2. n <= a
    BY <2>1 DEF LockInv, CallInv, TriesLeft
  <2> QED BY <1>0, <2>1, <2>2, Counts, MovesOn
<1>11. ASSUME NEW t \in Threads, StuckIrqOn(t) PROVE Progress(u)
  <2>1. pc[t] = "stuckIrqOn" /\ Goto(t, "held") /\ u = t
    BY <1>11, Alone DEF StuckIrqOn
  <2> QED BY <2>1, Counts, MovesOn
\* What the USB thread calls from "held" is not inside yet.
<1>12. ASSUME \/ SetArc \/ SetAckEnabled \/ SetPacketLossSimulation \/ CarrierCheck
              \/ StartCheck \/ StopCheck \/ SnifSendCheck
       PROVE  FALSE
  <2>1. pc[UsbThread] = "held"
    BY <1>12 DEF SetArc, SetAckEnabled, SetPacketLossSimulation, CarrierCheck, StartCheck,
                 StopCheck, SnifSendCheck
  <2>2. u = UsbThread
    BY <2>1, ThreadAssumption, Alone
  <2> QED BY <2>1, <2>2
<1>13. ASSUME CarrierSet \/ StartLock \/ StartRx \/ StopLock \/ StopDone PROVE Progress(u)
  <2>1. /\ arc' = a /\ arc_counter' = n
        /\ \/ pc[UsbThread] = "carrierLock" /\ Goto(UsbThread, "held")
           \/ pc[UsbThread] = "startLock" /\ Goto(UsbThread, "startRx")
           \/ pc[UsbThread] = "startRx" /\ Goto(UsbThread, "held")
           \/ pc[UsbThread] = "stopLock" /\ Goto(UsbThread, "stopSleep")
           \/ pc[UsbThread] = "stopSleep" /\ Goto(UsbThread, "held")
    BY <1>13 DEF CarrierSet, StartLock, StartRx, StopLock, StopDone
  <2>2. u = UsbThread
    BY <2>1, ThreadAssumption, Alone
  <2> QED BY <2>1, <2>2, ThreadAssumption, Counts, MovesOn
<1>14. ASSUME \/ SnifSendLock \/ SnifSendOff \/ SnifSendFire \/ SnifSendTake
              \/ SnifSendTimeout \/ SnifSendReset \/ SnifSendRestart
       PROVE  Progress(u)
  <2>1. /\ arc' = a /\ arc_counter' = n
        /\ \/ pc[UsbThread] = "snifSendLock" /\ Goto(UsbThread, "snifSendOff")
           \/ pc[UsbThread] = "snifSendOff" /\ Goto(UsbThread, "snifSendSleep")
           \/ pc[UsbThread] = "snifSendSleep" /\ Goto(UsbThread, "snifSendWait")
           \/ pc[UsbThread] = "snifSendWait" /\ Goto(UsbThread, "snifSendReset")
           \/ pc[UsbThread] = "snifSendReset" /\ Goto(UsbThread, "snifSendRestart")
           \/ pc[UsbThread] = "snifSendWait" /\ Goto(UsbThread, "snifSendRestart")
           \/ pc[UsbThread] = "snifSendRestart" /\ Goto(UsbThread, "held")
    BY <1>14 DEF SnifSendLock, SnifSendOff, SnifSendFire, SnifSendTake, SnifSendTimeout,
                 SnifSendReset, SnifSendRestart
  <2>2. u = UsbThread
    BY <2>1, ThreadAssumption, Alone
  <2> QED BY <2>1, <2>2, ThreadAssumption, Counts, MovesOn
<1>15. ASSUME Isr \/ Hardware \/ TimerWrap \/ UNCHANGED vars PROVE Progress(u)
  BY <1>15, StaysPut
     DEF Isr, IsrSniffer, IsrSent, IsrSentNoAck, IsrReceived, Hardware, TimerWrap, vars
<1> QED
  BY <1>1, <1>2, <1>3, <1>4, <1>5, <1>6, <1>7, <1>8, <1>9, <1>10, <1>11, <1>12, <1>13,
     <1>14, <1>15 DEF Next, Send, Sniffer

\* A call of the driver takes a bounded number of its thread's steps, whatever the
\* delays and whatever the other thread, the ISR and the radio do in between.
THEOREM CallsAreBounded == Spec => CallsProgress
<1>1. LockInv /\ [Next]_vars =>
        [\A t \in Threads : pc[t] \notin {"idle", "held"} =>
           /\ StepsLeft(t) > 0
           /\ IF pc'[t] = pc[t] THEN StepsLeft(t)' = StepsLeft(t)
              ELSE StepsLeft(t)' < StepsLeft(t)]_vars
  BY StepIsLeft, EachStepCounts DEF Progress
<1> QED
  BY <1>1, LockInvariant, PTL DEF Spec, CallsProgress

-----------------------------------------------------------------------------
\* Refinement.  Most steps show the callers nothing: no mode and no outcome.
LEMMA Hidden ==
  ASSUME UNCHANGED <<ack_enabled, continuous_carrier_enabled, sniffer_active, result>>,
         Broadcasting' <=> Broadcasting
  PROVE  UNCHANGED D!vars
  BY DEF D!vars

\* A thread that calls esb_send_packet() is in no broadcast before or after.
LEMMA SendsNoBroadcast ==
  ASSUME TypeOK, NEW t \in Threads, NEW at,
         pc[t] \in {"idle", "held", "stuckIrqOn", "sendLock", "sendLoss"} \cup SendPcs,
         at \in {"idle", "held", "stuckIrqOn", "sendLock", "sendLoss"} \cup SendPcs,
         pc' = pc \/ Goto(t, at)
  PROVE  Broadcasting' <=> Broadcasting
  BY ThreadAssumption DEF TypeOK, Goto, Broadcasting, SendPcs, SnifferPcs

\* The steps that show: where the outcome is set and where a mode changes.
LEMMA CallStepImplements ==
  ASSUME LockInv, Next
  PROVE  D!Next \/ UNCHANGED D!vars
  <1> USE DEF LockInv
  <1> DEFINE Shown == <<ack_enabled, continuous_carrier_enabled, sniffer_active, result>>
  <1>1. ASSUME NEW t \in Threads, Acquire(t) PROVE UNCHANGED D!vars
    BY <1>1, Hidden, SendsNoBroadcast DEF Acquire, Runs
  <1>2. ASSUME NEW t \in Threads, Release(t) PROVE D!Forget
    BY <1>2, SendsNoBroadcast DEF Release, Runs, D!Forget
  <1>3. ASSUME NEW t \in Threads, SendCheck(t) PROVE D!Send \/ D!Forget
    BY <1>3, SendsNoBroadcast DEF SendCheck, Runs, D!Send, D!Forget
  <1>4. ASSUME NEW t \in Threads, Send(t), ~SendCheck(t), ~SendDropped(t), ~SendEnd(t),
               ~SendStuck(t)
        PROVE  UNCHANGED D!vars
    <2>1. UNCHANGED Shown
      BY <1>4 DEF Send, SendLock, SendStart, SendArm, SendFire, SendTake, SendClean,
                  StuckIrqOn
    <2>2. Broadcasting' <=> Broadcasting
      BY <1>4, SendsNoBroadcast
         DEF Send, SendLock, SendStart, SendArm, SendFire, SendTake, SendClean,
             StuckIrqOn, Runs, SendPcs
    <2>3. QED BY <2>1, <2>2, Hidden
  <1>5. ASSUME NEW t \in Threads, SendDropped(t) PROVE D!Send
    BY <1>5, SendsNoBroadcast DEF SendDropped, Runs, D!Send
  <1>6. ASSUME NEW t \in Threads, SendEnd(t) PROVE D!Send
    <2>1. ~sniffer_active /\ ~continuous_carrier_enabled /\ (ack_received => ack_enabled)
      BY <1>6 DEF SendEnd, Runs, CallInv, FlagsStayClear, TestsHold, SendPcs
    <2>2. ~Broadcasting
      BY <1>6, ThreadAssumption
         DEF SendEnd, Runs, CallInv, MutexOwner, TypeOK, Broadcasting, SnifferPcs
    <2>3. Broadcasting' <=> Broadcasting
      BY <1>6, SendsNoBroadcast DEF SendEnd, Runs, SendPcs
    <2>4. QED
      BY <1>6, <2>1, <2>2, <2>3 DEF SendEnd, D!Send
  <1>7. ASSUME NEW t \in Threads, SendStuck(t) PROVE D!Send
    BY <1>7, SendsNoBroadcast DEF SendStuck, Runs, SendPcs, D!Send
  <1>8. CASE SetArc \/ SetPacketLossSimulation \/ Isr \/ Hardware \/ TimerWrap
    BY <1>8, Hidden
       DEF SetArc, SetPacketLossSimulation, Isr, IsrSniffer, IsrSent, IsrSentNoAck,
           IsrReceived, Hardware, TimerWrap, Broadcasting
  <1>9. CASE SetAckEnabled
    <2>1. UNCHANGED <<sniffer_active, continuous_carrier_enabled, result, pc>>
      BY <1>9 DEF SetAckEnabled
    <2>2. ack_enabled' \in BOOLEAN
      BY <1>9 DEF SetAckEnabled
    <2>3. Broadcasting' <=> Broadcasting
      BY <2>1 DEF Broadcasting
    <2>4. (sniffer_active \/ Broadcasting)' = (sniffer_active \/ Broadcasting)
      BY <2>1, <2>3
    <2>5. QED BY <2>1, <2>2, <2>4 DEF D!Next, D!SetAckEnabled
  <1>10. CASE CarrierCheck
    BY <1>10, ThreadAssumption, Hidden
       DEF CarrierCheck, Goto, Runs, TypeOK, Broadcasting, SnifferPcs
  <1>11. CASE CarrierSet
    <2>1. ~sniffer_active /\ ~Broadcasting /\ ~Broadcasting'
      BY <1>11, ThreadAssumption
         DEF CarrierSet, Goto, Runs, CallInv, TestsHold, TypeOK, Broadcasting, SnifferPcs
    <2>2. QED
      BY <1>11, <2>1 DEF CarrierSet, D!Next, D!SwitchCarrier
  <1>12. ASSUME StartCheck \/ StopCheck \/ StopLock \/ StartRx
         PROVE  UNCHANGED D!vars
    <2>1. UNCHANGED Shown
      BY <1>12 DEF StartCheck, StopCheck, StopLock, StartRx
    <2>2. ~Broadcasting /\ ~Broadcasting'
      BY <1>12, ThreadAssumption
         DEF StartCheck, StopCheck, StopLock, StartRx, Goto, Runs, TypeOK, Broadcasting,
             SnifferPcs
    <2>3. QED BY <2>1, <2>2, Hidden
  <1>13. CASE StartLock
    <2>1. ~Broadcasting /\ ~Broadcasting' /\ sniffer_active'
      BY <1>13, ThreadAssumption
         DEF StartLock, Goto, Runs, TypeOK, Broadcasting, SnifferPcs
    <2>2. QED
      BY <1>13, <2>1, Hidden DEF StartLock, D!Next, D!SwitchSniffer, D!vars
  <1>14. CASE StopDone
    <2>1. ~Broadcasting /\ ~Broadcasting' /\ ~sniffer_active'
      BY <1>14, ThreadAssumption
         DEF StopDone, Goto, Runs, TypeOK, Broadcasting, SnifferPcs
    <2>2. QED
      BY <1>14, <2>1, Hidden DEF StopDone, D!Next, D!SwitchSniffer, D!vars
  <1>15. CASE SnifSendCheck
    BY <1>15, ThreadAssumption, Hidden
       DEF SnifSendCheck, Goto, Runs, TypeOK, Broadcasting, SnifferPcs
  <1>16. CASE SnifSendLock
    BY <1>16, ThreadAssumption
       DEF SnifSendLock, Goto, Runs, TypeOK, Broadcasting, SnifferPcs, Paused,
           D!Next, D!SwitchSniffer, D!vars
  <1>17. ASSUME SnifSendOff \/ SnifSendFire \/ SnifSendTake \/ SnifSendTimeout
                  \/ SnifSendReset
         PROVE  UNCHANGED D!vars
    <2>1. UNCHANGED Shown
      BY <1>17
         DEF SnifSendOff, SnifSendFire, SnifSendTake, SnifSendTimeout, SnifSendReset
    <2>2. Broadcasting /\ Broadcasting'
      BY <1>17, ThreadAssumption
         DEF SnifSendOff, SnifSendFire, SnifSendTake, SnifSendTimeout, SnifSendReset,
             Goto, Runs, TypeOK, Broadcasting, SnifferPcs
    <2>3. QED BY <2>1, <2>2, Hidden
  <1>18. CASE SnifSendRestart
    BY <1>18, ThreadAssumption
       DEF SnifSendRestart, Goto, Runs, TypeOK, Broadcasting, SnifferPcs, D!vars
  <1>19. QED
    BY <1>1, <1>2, <1>3, <1>4, <1>5, <1>6, <1>7, <1>8, <1>9, <1>10, <1>11, <1>12, <1>13,
       <1>14, <1>15, <1>16, <1>17, <1>18
       DEF Next, Send, Sniffer, D!Next

\* Whatever happens inside, a call of the driver is one step of what Driver
\* promises: an acked packet had its ack enabled and no other mode on, and the
\* sniffer's pause for a broadcast is seen by nobody.
THEOREM CallsImplementDriver == Spec => CallsAreAtomic
  <1>1. Init => D!Init
    BY ThreadAssumption DEF Init, D!Init, Broadcasting, SnifferPcs
  <1>2. LockInv /\ [Next]_vars => [D!Next]_(D!vars)
    <2>1. CASE UNCHANGED vars
      BY <2>1 DEF vars, D!vars, Broadcasting
    <2>2. QED BY <2>1, CallStepImplements
  <1>3. QED
    BY <1>1, <1>2, LockInvariant, PTL DEF Spec, CallsAreAtomic, D!Spec
=============================================================================
