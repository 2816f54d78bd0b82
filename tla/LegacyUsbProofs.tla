-------------------------- MODULE LegacyUsbProofs --------------------------
(***************************************************************************)
(* Proofs about the sniffer's queue between the radio's interrupt and      *)
(* usb_thread(), for every length of the queues, every host and any number *)
(* of packets and sessions.                                                *)
(***************************************************************************)
EXTENDS LegacyUsb, TLAPS

\* The queue holds packets of this session only, and with the drop count it accounts
\* for all of them.
SnifferInv ==
  /\ session \in {0, 1}
  /\ sniffer_queue \in Seq({0, 1})
  /\ sniffer_drop_count \in Nat /\ unread \in Nat
  /\ unread = Len(sniffer_queue) + sniffer_drop_count
  /\ Len(sniffer_queue) <= SnifferQueueLength
  /\ \A i \in 1..Len(sniffer_queue) : sniffer_queue[i] = session

\* What a step may write to the IN endpoint.
WritesThisSession ==
  in_ep'.type = "record" /\ in_ep' # in_ep => in_ep'.session = session

LEMMA SnifferInit == Init => SnifferInv
  BY LengthAssumption DEF Init, SnifferInv

\* Everything but the sniffer's own steps leaves its queue alone.
LEMMA SnifferUntouched == SnifferInv /\ UNCHANGED snifferVars => SnifferInv'
  BY DEF SnifferInv, snifferVars

\* sniffer_rx_callback()
LEMMA CallbackCounts == SnifferInv /\ SnifferRx => SnifferInv' /\ WritesThisSession
<1> SUFFICES ASSUME SnifferInv, SnifferRx PROVE SnifferInv' /\ WritesThisSession
  OBVIOUS
<1>1. in_ep' = in_ep /\ session' = session /\ unread' = unread + 1
  BY DEF SnifferRx
<1>2. CASE Len(sniffer_queue) < SnifferQueueLength
  <2>1. sniffer_queue' = Append(sniffer_queue, session)
        /\ sniffer_drop_count' = sniffer_drop_count
    BY <1>2 DEF SnifferRx
  <2>2. /\ sniffer_queue' \in Seq({0, 1})
        /\ Len(sniffer_queue') = Len(sniffer_queue) + 1
        /\ \A i \in 1..Len(sniffer_queue') : sniffer_queue'[i] = session
    BY <2>1 DEF SnifferInv
  <2> QED BY <1>1, <1>2, <2>1, <2>2, LengthAssumption DEF SnifferInv, WritesThisSession
<1>3. CASE ~(Len(sniffer_queue) < SnifferQueueLength)
  BY <1>1, <1>3 DEF SnifferRx, SnifferInv, WritesThisSession
<1> QED BY <1>2, <1>3

\* usb_thread() takes a packet from the queue.
LEMMA PollDelivers == SnifferInv /\ PollSniffer => SnifferInv' /\ WritesThisSession
<1> SUFFICES ASSUME SnifferInv, PollSniffer PROVE SnifferInv' /\ WritesThisSession
  OBVIOUS
<1>1. session' = session /\ sniffer_drop_count' = sniffer_drop_count
  BY DEF PollSniffer
<1>2. CASE sniffer_queue = << >>
  BY <1>1, <1>2 DEF PollSniffer, SnifferInv, WritesThisSession
<1>3. CASE sniffer_queue # << >>
  <2>1. /\ sniffer_queue' = Tail(sniffer_queue) /\ unread' = unread - 1
        /\ in_ep' = in_ep \/ in_ep' = [type |-> "record", session |-> Head(sniffer_queue)]
    BY <1>3 DEF PollSniffer, Write
  <2>2. /\ sniffer_queue' \in Seq({0, 1})
        /\ Len(sniffer_queue') = Len(sniffer_queue) - 1 /\ Len(sniffer_queue) > 0
        /\ \A i \in 1..Len(sniffer_queue') : sniffer_queue'[i] = sniffer_queue[i + 1]
        /\ Head(sniffer_queue) = session
    BY <1>3, <2>1 DEF SnifferInv
  <2>3. SnifferInv'
    BY <1>1, <2>1, <2>2, LengthAssumption DEF SnifferInv
  <2>4. WritesThisSession
    BY <2>1, <2>2 DEF WritesThisSession
  <2> QED BY <2>3, <2>4
<1> QED BY <1>2, <1>3

\* Sniffer mode is entered, again perhaps.
LEMMA StartForgets == SnifferInv /\ StartSniffer => SnifferInv' /\ WritesThisSession
  BY LengthAssumption
     DEF SnifferInv, StartSniffer, Purged, Zeroed, WritesThisSession

LEMMA OthersLeaveSniffer ==
  Host \/ UsbStack \/ GetCommand \/ NoCommand \/ LockMutex \/ Configure \/ StopSniffer
    \/ Broadcast \/ Prepare \/ SendFirst \/ SendPacket \/ RefusePacket
  => UNCHANGED snifferVars /\ WritesThisSession
<1>1. Host => UNCHANGED snifferVars /\ WritesThisSession
  BY DEF Host, HostSetup, HostData, HostScan, HostRead, HostSettled, WritesThisSession,
         Nothing
<1>2. UsbStack => UNCHANGED snifferVars /\ WritesThisSession
  <2>1. StackPut => UNCHANGED snifferVars /\ in_ep' = in_ep
    BY DEF StackPut
  <2>2. ScanLock => UNCHANGED snifferVars /\ in_ep' = in_ep
    BY DEF ScanLock
  <2>3. ScanChannel => UNCHANGED snifferVars /\ in_ep' = in_ep
    BY DEF ScanChannel
  <2> QED BY <2>1, <2>2, <2>3 DEF UsbStack, WritesThisSession
<1>3. GetCommand \/ NoCommand \/ LockMutex => UNCHANGED snifferVars /\ WritesThisSession
  BY DEF GetCommand, NoCommand, LockMutex, WritesThisSession
<1>4. Configure \/ StopSniffer \/ Broadcast => UNCHANGED snifferVars /\ WritesThisSession
  BY DEF Configure, StopSniffer, Broadcast, WritesThisSession
<1>5. Prepare \/ SendFirst => UNCHANGED snifferVars /\ WritesThisSession
  BY DEF Prepare, SendFirst, WritesThisSession
<1>6. SendPacket => UNCHANGED snifferVars /\ WritesThisSession
  BY DEF SendPacket, Write, Answer, WritesThisSession
<1>7. RefusePacket => UNCHANGED snifferVars /\ WritesThisSession
  BY DEF RefusePacket, Refuse, Write, Answer, WritesThisSession
<1> QED BY <1>1, <1>2, <1>3, <1>4, <1>5, <1>6, <1>7

LEMMA SnifferStep == SnifferInv /\ [Next]_vars => SnifferInv' /\ [WritesThisSession]_vars
<1> SUFFICES ASSUME SnifferInv, [Next]_vars PROVE SnifferInv' /\ [WritesThisSession]_vars
  OBVIOUS
<1>1. CASE UNCHANGED vars
  BY <1>1, SnifferUntouched DEF vars
<1>2. CASE Next
  BY <1>2, SnifferUntouched, CallbackCounts, PollDelivers, StartForgets, OthersLeaveSniffer
     DEF Next, UsbThread
<1> QED BY <1>1, <1>2

\* GET_SNIFFER_DROP_COUNT: no packet sniffed is lost without being counted, whatever
\* the order of callbacks, polls, purges and resets.
THEOREM EveryDropCounted == Spec => []DropsCounted
<1>1. SnifferInv => DropsCounted
  BY DEF SnifferInv, DropsCounted
<1> QED BY <1>1, SnifferInit, SnifferStep, PTL DEF Spec

\* The stream of a sniffing session never shows a packet of an earlier one.
THEOREM NoStalePacket == Spec => StreamOfThisSession
<1>1. [WritesThisSession]_vars =>
        [in_ep'.type = "record" /\ in_ep' # in_ep => in_ep'.session = session]_vars
  BY DEF WritesThisSession
<1> QED BY <1>1, SnifferInit, SnifferStep, PTL DEF Spec, StreamOfThisSession
=============================================================================
