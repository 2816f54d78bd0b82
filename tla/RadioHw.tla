------------------------------ MODULE RadioHw ------------------------------
(***************************************************************************)
(* The nRF52840 peripherals that esb.c programs: RADIO with its shortcuts, *)
(* TIMER0 with the two capture/compare registers the driver uses, and the  *)
(* three PPI channels between them.  External to the repository: every     *)
(* register here is one esb.c writes or reads, and every transition is one *)
(* that its comments and its shortcuts rely on.                            *)
(*                                                                         *)
(* Time is abstracted to order.  A hardware step takes micro- to           *)
(* milliseconds; what may overtake what is decided by two constants, and   *)
(* whether the hardware may fail by a third:                               *)
(*   LateIsr      the radio may go on while its interrupt is pending (the  *)
(*                ISR is delayed past a ramp-up or past the ack window);   *)
(*   SlowDisable  a DISABLE task may still be in progress when the next    *)
(*                command starts ("It can take up to 140us for the radio   *)
(*                to disable itself", esb.c);                              *)
(*   MayStick     a ramp-up may not end ("The radio state machine is       *)
(*                stuck!", esb.c).                                         *)
(***************************************************************************)
EXTENDS Naturals

CONSTANTS LateIsr, SlowDisable, MayStick

ASSUME TimingAssumption ==
  LateIsr \in BOOLEAN /\ SlowDisable \in BOOLEAN /\ MayStick \in BOOLEAN

VARIABLES
  radio,        \* STATE, by the names of esb.c's radio_states
  shorts,       \* SHORTS: READY_START, END_DISABLE, DISABLED_RXEN
  ev_disabled,  \* EVENTS_DISABLED
  int_disabled, \* INTENSET.DISABLED
  irq_on,       \* the NVIC lets RADIO_IRQn through
  packet_ptr,   \* PACKETPTR
  rx_into,      \* the buffer a reception under way fills, or "none"
  crc_ok,       \* CRCSTATUS of the last packet received
  cc1,          \* CC[1] lies "ahead" of or "behind" the counter
  cc2_fresh,    \* CC[2] holds the time of the END just passed
  compare1,     \* EVENTS_COMPARE[1]
  ppi,          \* enabled channels
  ack_due,      \* the receiver heard the last transmission and answers it
  heard,        \* the receiver heard a transmission of the current packet
  fresh         \* a packet with a good CRC arrived and nobody has read it yet

radioVars == <<radio, shorts, ev_disabled, int_disabled, irq_on, packet_ptr,
               rx_into, crc_ok>>
timerVars == <<cc1, cc2_fresh, compare1, ppi>>
airVars   == <<ack_due, heard, fresh>>
hwVars    == <<radioVars, timerVars, airVars>>

TxStates  == {"TxRu", "Tx", "TxIdle"}
Disabling == {"TxDisable", "RxDisable"}
RxStates  == {"RxRu", "RxIdle", "Rx", "RxBusy"} \* RxBusy: Rx after ADDRESS
RadioStates == {"Disabled", "Stuck"} \cup TxStates \cup RxStates \cup Disabling

Shorts  == {"READY_START", "END_DISABLE", "DISABLED_RXEN"}
Buffers == {"packet", "ack", "broadcast", "sniffer_rx_buffer"}

\* CH27: RADIO END -> capture CC[2];  CH26: RADIO ADDRESS -> capture CC[1];
\* CH22: COMPARE[1] -> RADIO DISABLE.
Channels == {"CH22", "CH26", "CH27"}

HwTypeOK ==
  /\ radio \in RadioStates
  /\ shorts \in SUBSET Shorts
  /\ ev_disabled \in BOOLEAN /\ int_disabled \in BOOLEAN /\ irq_on \in BOOLEAN
  /\ packet_ptr \in Buffers /\ rx_into \in Buffers \cup {"none"}
  /\ crc_ok \in BOOLEAN
  /\ cc1 \in {"ahead", "behind"} /\ cc2_fresh \in BOOLEAN
  /\ compare1 \in BOOLEAN
  /\ ppi \in SUBSET Channels
  /\ ack_due \in BOOLEAN /\ heard \in BOOLEAN /\ fresh \in BOOLEAN

-----------------------------------------------------------------------------
\* Tasks, as functions of the radio state they are triggered in.  TXEN and RXEN
\* do nothing unless the radio is disabled; DISABLE always ends in a DISABLED
\* event.
TaskTxen(r) == IF r = "Disabled" THEN "TxRu" ELSE r
TaskRxen(r) == IF r = "Disabled" THEN "RxRu" ELSE r
TaskDisable(r) == IF r \in RxStates THEN "RxDisable"
                  ELSE IF r \in Disabling THEN r ELSE "TxDisable"

AfterEnd(r) == IF "END_DISABLE" \in shorts THEN TaskDisable(r)
               ELSE IF r = "Tx" THEN "TxIdle" ELSE "RxIdle"

\* ADDRESS captures the counter into CC[1]: the compare it held cannot match.
Captured == IF "CH26" \in ppi THEN "behind" ELSE cc1

IsrPending == ev_disabled /\ int_disabled /\ irq_on

\* The radio waits for its interrupt to be served unless the ISR is late.
HwRuns == LateIsr \/ ~IsrPending

-----------------------------------------------------------------------------
TxReady ==
  /\ HwRuns /\ radio = "TxRu"
  /\ IF "READY_START" \in shorts
     THEN radio' = "Tx" /\ cc1' = Captured
     ELSE radio' = "TxIdle" /\ UNCHANGED cc1
  /\ UNCHANGED <<shorts, ev_disabled, int_disabled, irq_on, packet_ptr, rx_into,
                 crc_ok, cc2_fresh, compare1, ppi, airVars>>

\* The packet is on the air; the receiver of a PTX packet hears it or does not.
TxEnd ==
  /\ HwRuns /\ radio = "Tx"
  /\ radio' = AfterEnd(radio)
  /\ cc2_fresh' = ("CH27" \in ppi)
  /\ \/ /\ packet_ptr = "packet"
        /\ ack_due' \in BOOLEAN
        /\ heard' = (heard \/ ack_due')
     \/ packet_ptr # "packet" /\ ack_due' = FALSE /\ UNCHANGED heard
  /\ UNCHANGED <<shorts, ev_disabled, int_disabled, irq_on, packet_ptr, rx_into,
                 crc_ok, cc1, compare1, ppi, fresh>>

Disabled ==
  /\ HwRuns /\ radio \in Disabling
  /\ ev_disabled' = TRUE
  /\ radio' = IF "DISABLED_RXEN" \in shorts THEN "RxRu" ELSE "Disabled"
  /\ rx_into' = "none"
  /\ UNCHANGED <<shorts, int_disabled, irq_on, packet_ptr, crc_ok, timerVars,
                 airVars>>

RxReady ==
  /\ HwRuns /\ radio = "RxRu"
  /\ IF "READY_START" \in shorts
     THEN radio' = "Rx" /\ rx_into' = packet_ptr
     ELSE radio' = "RxIdle" /\ UNCHANGED rx_into
  /\ UNCHANGED <<shorts, ev_disabled, int_disabled, irq_on, packet_ptr, crc_ok,
                 timerVars, airVars>>

\* An address matches: an ack, a sniffed packet, or noise.
RxAddress ==
  /\ HwRuns /\ radio = "Rx"
  /\ radio' = "RxBusy"
  /\ cc1' = Captured
  /\ UNCHANGED <<shorts, ev_disabled, int_disabled, irq_on, packet_ptr, rx_into,
                 crc_ok, cc2_fresh, compare1, ppi, airVars>>

\* On the link's own address only the receiver's ack has a good CRC; the
\* sniffer receives the packets of others.
RxEnd ==
  /\ HwRuns /\ radio = "RxBusy"
  /\ radio' = AfterEnd(radio)
  /\ cc2_fresh' = ("CH27" \in ppi)
  /\ crc_ok' \in BOOLEAN
  /\ crc_ok' => ack_due \/ rx_into = "sniffer_rx_buffer"
  /\ fresh' = crc_ok'
  /\ ack_due' = FALSE
  /\ rx_into' = "none"
  /\ UNCHANGED <<shorts, ev_disabled, int_disabled, irq_on, packet_ptr, cc1,
                 compare1, ppi, heard>>

\* The counter reaches CC[1].  The event latches whether or not CH22 acts on it.
TimerMatch ==
  /\ HwRuns /\ cc1 = "ahead"
  /\ cc1' = "behind"
  /\ compare1' = TRUE
  /\ radio' = IF "CH22" \in ppi THEN TaskDisable(radio) ELSE radio
  /\ UNCHANGED <<shorts, ev_disabled, int_disabled, irq_on, packet_ptr, rx_into,
                 crc_ok, cc2_fresh, ppi, airVars>>

\* Only a DISABLE gets the radio out of this.
Stick ==
  /\ MayStick /\ HwRuns /\ radio = "TxRu"
  /\ radio' = "Stuck"
  /\ UNCHANGED <<shorts, ev_disabled, int_disabled, irq_on, packet_ptr, rx_into,
                 crc_ok, timerVars, airVars>>

HwNext == TxReady \/ TxEnd \/ Disabled \/ RxReady \/ RxAddress \/ RxEnd \/ TimerMatch
          \/ Stick

\* Nothing the hardware has started is left to finish.  An RX with no compare
\* ahead to stop it may last for ever.
HwQuiet ==
  /\ ~IsrPending
  /\ radio \in {"Disabled", "TxIdle", "RxIdle", "Rx", "Stuck"}
  /\ ~(cc1 = "ahead" /\ "CH22" \in ppi)
=============================================================================
