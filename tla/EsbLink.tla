------------------------------ MODULE EsbLink ------------------------------
(***************************************************************************)
(* The radio link as src/esb.c drives it: addresses, packet identifiers,   *)
(* retries and simulated losses, over the air and to the receivers.  What  *)
(* the radio and its interrupt do during a try is module Esb; here a try   *)
(* has an outcome.                                                         *)
(*                                                                         *)
(* The receivers are external (Nordic's Enhanced ShockBurst in PRX mode):  *)
(* each has its address, takes a packet whose PID and CRC are those of the *)
(* last one it heard for a repetition, and acks it all the same.  Packets  *)
(* of one length are taken to have equal contents, the worst case for that *)
(* filter, and the usual one when copters are polled with empty packets.   *)
(***************************************************************************)
EXTENDS Naturals

CONSTANTS
  Receivers,        \* the addresses somebody listens to
  DefaultAddress,
  Arc,              \* the retry count set
  PacketLoss, AckLoss  \* is the loss simulation on?

ASSUME LinkAssumption ==
  /\ DefaultAddress \in Receivers /\ Arc \in 0..15
  /\ PacketLoss \in BOOLEAN /\ AckLoss \in BOOLEAN

VARIABLES
  pid,                     \* modulo 4, which divides 2^8
  base0,                   \* the address in the radio's registers for pipe 0
  current_pipe0_address,
  ack_enabled,
  call,                    \* the call of the driver in progress
  ack, retry,              \* the out-parameters of esb_send_packet()
  numbered,                \* history: the packets given a PID
  heard, passed            \* by receiver: the last packet heard, and passed on

outVars      == <<ack, retry>>
addressVars  == <<base0, current_pipe0_address>>
receiverVars == <<heard, passed>>
linkVars == <<pid, addressVars, ack_enabled, call, outVars, numbered, receiverVars>>

NoCall   == [at |-> "none"]
NoPacket == [n |-> 0]
Garbage  == [by |-> "nobody", n |-> 0]      \* never received, or with a bad CRC
Uninitialised == 255

LinkInit ==
  /\ pid = 0 /\ numbered = 0
  /\ base0 = DefaultAddress /\ current_pipe0_address = DefaultAddress
  /\ ack_enabled = TRUE
  /\ call = NoCall
  /\ ack = [length |-> 0, data |-> Garbage] /\ retry = Uninitialised
  /\ heard = [r \in Receivers |-> NoPacket] /\ passed = [r \in Receivers |-> NoPacket]

-----------------------------------------------------------------------------
\* A packet on the air is heard at its address.
SamePacket(p, q) == q.n > 0 /\ p.pid = q.pid /\ p.length = q.length

Heard(p) ==
  /\ heard' = [heard EXCEPT ![base0] = p]
  /\ passed' = IF SamePacket(p, heard[base0]) THEN passed
               ELSE [passed EXCEPT ![base0] = p]

\* "packet->s1 = ((pid & 0x03)<<1) | 1; pid++"
KeepPid == pid' = pid                       \* mutant: the PID does not advance
NextPid == pid' = (pid + 1) % 4

Numbered(length) == [n |-> numbered + 1, pid |-> pid, length |-> length]

Number == NextPid /\ numbered' = numbered + 1

\* esb_send_packet(): the packet is dropped, or numbered, once for all its tries.
SendPacket(length) ==
  /\ call = NoCall
  /\ \/ /\ PacketLoss
        /\ call' = [at |-> "returned", acked |-> FALSE]
        /\ UNCHANGED <<pid, numbered>>
     \/ /\ call' = [at |-> "try", packet |-> Numbered(length), tries |-> 0]
        /\ Number
  /\ UNCHANGED <<addressVars, ack_enabled, outVars, receiverVars>>

\* What a try may bring: nothing, an ack received with a bad CRC, or the ack.
Outcomes ==
  IF base0 \in Receivers
  THEN {"nothing", "unheard"} \cup IF ack_enabled THEN {"damaged", "ack"} ELSE {}
  ELSE {"unheard"}

AnyAck(outcome) == outcome \in {"damaged", "ack"}   \* mutant: any CRC will do
AckReceived(outcome) == outcome = "ack"

RenumberedRetry(c) == [c EXCEPT !.packet.pid = (@ + 1) % 4]  \* mutant
SameRetry(c) == c

\* One turn of the retry loop.  Acks have one byte, which tells who acked what.
Try(outcome) ==
  /\ call.at = "try" /\ outcome \in Outcomes
  /\ IF outcome = "unheard" THEN UNCHANGED receiverVars ELSE Heard(call.packet)
  /\ ack' = CASE outcome = "ack" ->
                   [length |-> 1, data |-> [by |-> base0, n |-> call.packet.n]]
              [] outcome = "damaged" -> [length |-> 1, data |-> Garbage]
              [] OTHER -> [ack EXCEPT !.length = 0]
  /\ IF AckReceived(outcome) \/ ~ack_enabled \/ call.tries = Arc
     THEN /\ retry' = call.tries
          /\ \E acked \in {AckReceived(outcome)} \cup IF AckLoss THEN {FALSE} ELSE {} :
               call' = [at |-> "returned", acked |-> acked]
     ELSE /\ call' = SameRetry([call EXCEPT !.tries = @ + 1])
          /\ UNCHANGED retry
  /\ UNCHANGED <<pid, addressVars, ack_enabled, numbered>>

\* "The radio state machine is stuck!": the caller's retry count is not written.
Stuck ==
  /\ call.at = "try"
  /\ \/ base0 \in Receivers /\ Heard(call.packet)
     \/ UNCHANGED receiverVars
  /\ call' = [at |-> "returned", acked |-> FALSE]
  /\ ack' = [ack EXCEPT !.length = 0]
  /\ UNCHANGED <<pid, addressVars, ack_enabled, retry, numbered>>

Return == call.at = "returned" /\ call' = NoCall

-----------------------------------------------------------------------------
\* esb_sniffer_send(): to another address, which is then put back.
SnifferSend(length, address) ==
  /\ call = NoCall
  /\ call' = [at |-> "sniffer", packet |-> Numbered(length),
              saved |-> current_pipe0_address]
  /\ base0' = address
  /\ Number
  /\ UNCHANGED <<current_pipe0_address, ack_enabled, outVars, receiverVars>>

NotRestored(address) == UNCHANGED base0     \* mutant: the address is not put back
Restored(address) == base0' = address

SnifferSent ==
  /\ call.at = "sniffer"
  /\ \/ base0 \in Receivers /\ Heard(call.packet)
     \/ UNCHANGED receiverVars
  /\ Restored(call.saved)
  /\ call' = NoCall
  /\ UNCHANGED <<pid, current_pipe0_address, ack_enabled, outVars, numbered>>

\* esb_set_address(), esb_set_ack_enabled()
Set(address, enabled) ==
  /\ base0' = address /\ current_pipe0_address' = address
  /\ ack_enabled' = enabled

OnAir == call.at \in {"try", "sniffer"}

-----------------------------------------------------------------------------
\* A receiver passes packets on in the order they were sent, each once, however
\* often the dongle repeats it for want of an ack.
PassedInOrder ==
  [][\A r \in Receivers : passed'[r] # passed[r] => passed'[r].n > passed[r].n]_linkVars

\* The PID is counted for all receivers together and has two bits: a new packet is
\* taken for a repetition only if it looks like the last one and the number of
\* packets sent since then, to anybody, is a multiple of four.
SwallowedOnlyAtWrap ==
  [][\A r \in Receivers :
       heard'[r].n > heard[r].n /\ passed'[r] = passed[r] =>
         (heard'[r].n - heard[r].n) % 4 = 0]_linkVars
=============================================================================
