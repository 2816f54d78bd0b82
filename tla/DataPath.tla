------------------------------ MODULE DataPath ------------------------------
(***************************************************************************)
(* What becomes of the data a host sends: from the transfers of the OUT    *)
(* endpoint (module OutFraming), through usb_thread() of legacy_usb.c,     *)
(* which makes one or two packets of a command or none, over the air       *)
(* (module EsbLink) and back to the IN endpoint.                           *)
(*                                                                         *)
(* The host sets the mode and the settings while nothing is under way; how *)
(* they are ordered with the packets is the subject of module LegacyUsb,   *)
(* as are invalid settings.  Sizes are scaled: the relations between them  *)
(* are named in the assumption.                                            *)
(***************************************************************************)
EXTENDS OutFraming, EsbLink

CONSTANTS
  PacketMax,        \* 32 bytes in normal mode
  HeaderLength,     \* sizeof(inline_mode_out_header), 8
  AddressLength,    \* 5
  SnifferMax        \* ESB_MAX_PAYLOAD_LENGTH, 63

ASSUME SizeAssumption ==
  /\ PacketMax \in Nat /\ HeaderLength \in Nat /\ AddressLength \in Nat
  /\ SnifferMax \in Nat
  /\ HeaderLength + PacketMax <= Mps /\ 2 * PacketMax <= PayloadMax
  /\ AddressLength + SnifferMax <= PayloadMax
  /\ \A head \in Heads : head.to \in Receivers /\ head.ack \in BOOLEAN

VARIABLES
  mode,             \* "normal", "inline" or "sniffer"
  awaiting,         \* the host waits for the answer to its last message
  pc, item, packet, \* usb_thread(), the queue's element it works on, its packet
  handed,           \* history: the bytes of the message handed to the driver
  in_ep             \* the IN endpoint's buffer

threadVars == <<pc, item, packet, handed>>
dataVars == <<framingVars, linkVars, mode, awaiting, threadVars, in_ep>>

Empty == [type |-> "empty"]
NoItem == [type |-> "none"]
OldByte == << >>                            \* what the buffer held before

DataInit ==
  /\ OutInit /\ LinkInit
  /\ mode = "normal" /\ awaiting = FALSE
  /\ pc = "top" /\ item = NoItem /\ packet = [length |-> 0, bytes |-> << >>]
  /\ handed = << >>
  /\ in_ep = Empty

-----------------------------------------------------------------------------
\* The host.
Settled ==
  /\ ~within /\ command_queue = << >> /\ pc = "top" /\ call = NoCall
  /\ ~awaiting /\ in_ep = Empty

\* Settings end inline mode, and so does the sniffer.
Configure(address, enabled) ==
  /\ Settled
  /\ mode' = IF mode = "inline" THEN "normal" ELSE mode
  /\ Set(address, enabled)
  /\ UNCHANGED <<framingVars, pid, call, outVars, numbered, receiverVars, awaiting,
                 threadVars, in_ep>>

SetMode(m) ==
  /\ Settled
  /\ mode = "sniffer" => m = "normal"
  /\ mode' = m
  /\ UNCHANGED <<framingVars, linkVars, awaiting, threadVars, in_ep>>

\* The documented lengths: packets with their inline header or address, and the
\* pairs of broadcasts.  The head is what the bytes say in the last two modes, and
\* what the settings are in normal mode.
Lawful(n, head) ==
  CASE mode = "normal"  -> head.to = current_pipe0_address /\ head.ack = ack_enabled
                             /\ n <= IF ack_enabled THEN Mps + 1 ELSE 2 * PacketMax
    [] mode = "inline"  -> n \in HeaderLength..(HeaderLength + PacketMax)
    [] mode = "sniffer" -> n <= AddressLength + SnifferMax /\ head.ack

\* An answered message is sent when the last answer has been read.
HostMessage(n, head) ==
  /\ Lawful(n, head) /\ ~awaiting
  /\ HostSends(n, head)
  /\ awaiting' = (mode = "inline" \/ (mode = "normal" /\ ack_enabled))
  /\ UNCHANGED <<linkVars, mode, threadVars, in_ep>>

HostDies ==
  /\ HostGivesUp
  /\ awaiting' = FALSE
  /\ UNCHANGED <<linkVars, mode, threadVars, in_ep>>

Transfer ==
  /\ OutCb
  /\ UNCHANGED <<linkVars, mode, awaiting, threadVars, in_ep>>

HostRead ==
  /\ in_ep # Empty
  /\ in_ep' = Empty /\ awaiting' = FALSE
  /\ UNCHANGED <<framingVars, linkVars, mode, threadVars>>

-----------------------------------------------------------------------------
\* usb_thread().
Piece(c, from, length) ==
  [length |-> length,
   bytes |-> [i \in 0..(length - 1) |->
                IF from + i < c.length THEN c.payload[from + i] ELSE OldByte]]

\* The header or the address a command begins with.
HeadsOf(q) == IF q.torn THEN Heads ELSE {q.last.head}

SecondFrom(half) == half

InOrder(p) == [i \in 1..p.length |-> p.bytes[i - 1]]

Take(q, p, next) ==
  /\ TakeCommand
  /\ item' = q /\ packet' = p /\ pc' = next
  /\ handed' = IF next = "sniffer" THEN InOrder(p) ELSE << >>
  /\ UNCHANGED <<mode, awaiting, in_ep>>

TakeNormal ==
  LET q == Head(command_queue)
      n == q.sent.length
  IN /\ pc = "top" /\ command_queue # << >> /\ mode = "normal"
     /\ IF ~ack_enabled /\ n > PacketMax
        THEN Take(q, Piece(q.sent, 0, n \div 2), "first")
        ELSE Take(q, Piece(q.sent, 0, Least(n, PacketMax)), "send")
     /\ UNCHANGED linkVars

\* The header's length is the message's own.
TakeInline ==
  LET q == Head(command_queue)
  IN /\ pc = "top" /\ command_queue # << >> /\ mode = "inline"
     /\ \E head \in HeadsOf(q),
          n \in IF q.torn THEN 0..PacketMax ELSE {q.last.length - HeaderLength} :
          /\ Set(head.to, head.ack)
          /\ Take(q, Piece(q.sent, HeaderLength, n), "send")
     /\ UNCHANGED <<pid, call, outVars, numbered, receiverVars>>

TakeSniffer ==
  LET q == Head(command_queue)
      n == q.sent.length
  IN /\ pc = "top" /\ command_queue # << >> /\ mode = "sniffer"
     /\ IF n < AddressLength + 1
        THEN Take(NoItem, packet, "top") /\ UNCHANGED linkVars
        ELSE \E head \in HeadsOf(q) :
               LET p == Piece(q.sent, AddressLength, Least(n - AddressLength, SnifferMax))
               IN Take(q, p, "sniffer") /\ SnifferSend(p.length, head.to)

SnifferEnd ==
  /\ pc = "sniffer"
  /\ SnifferSent
  /\ pc' = "top" /\ item' = NoItem
  /\ UNCHANGED <<framingVars, mode, awaiting, packet, handed, in_ep>>

SendCall ==
  /\ pc \in {"first", "send"}
  /\ SendPacket(packet.length)
  /\ handed' = handed \o InOrder(packet)
  /\ UNCHANGED <<framingVars, mode, awaiting, pc, item, packet, in_ep>>

Radio ==
  /\ Stuck \/ \E outcome \in Outcomes : Try(outcome)
  /\ UNCHANGED <<framingVars, mode, awaiting, threadVars, in_ep>>

\* The first of two broadcasts is over, and the other is prepared.
FirstSent ==
  LET half == item.sent.length \div 2
  IN /\ pc = "first"
     /\ Return
     /\ packet' = Piece(item.sent, SecondFrom(half), half)
     /\ pc' = "send"
     /\ UNCHANGED <<framingVars, pid, addressVars, ack_enabled, outVars, numbered,
                    receiverVars, mode, awaiting, item, handed, in_ep>>

\* What is written to the IN endpoint: in inline mode a header, with the ack's length
\* whether or not there was one, else the status byte and the ack, or a zero.
Answers == mode = "inline" \/ ack_enabled

Answer ==
  [type |-> "answer", acked |-> call.acked,
   to |-> IF item.torn THEN base0 ELSE item.last.head.to,
   length |-> IF mode = "inline" \/ call.acked THEN ack.length ELSE 0,
   data |-> IF call.acked THEN ack.data ELSE Garbage,
   retry |-> IF call.acked \/ (mode = "inline" /\ ack_enabled) THEN retry ELSE 0]

Sent ==
  /\ pc = "send"
  /\ Return
  /\ in_ep' = IF Answers /\ in_ep = Empty THEN Answer ELSE in_ep
  /\ pc' = "top" /\ item' = NoItem
  /\ UNCHANGED <<framingVars, pid, addressVars, ack_enabled, outVars, numbered,
                 receiverVars, mode, awaiting, packet, handed>>

UsbThread ==
  \/ TakeNormal \/ TakeInline \/ TakeSniffer \/ SnifferEnd
  \/ SendCall \/ Radio \/ FirstSent \/ Sent

DataNext ==
  \/ \E a \in Receivers, enabled \in BOOLEAN : Configure(a, enabled)
  \/ \E m \in {"normal", "inline", "sniffer"} : SetMode(m)
  \/ \E n \in Lengths, head \in Heads : HostMessage(n, head)
  \/ HostDies \/ Transfer \/ HostRead
  \/ UsbThread

DataSpec == DataInit /\ [][DataNext]_dataVars

-----------------------------------------------------------------------------
Skip == CASE mode = "normal" -> 0 [] mode = "inline" -> HeaderLength
          [] mode = "sniffer" -> AddressLength

\* The packets made of a message carry it, to the address it was meant for: each
\* byte once, in order, and none of another message or of the buffer's earlier
\* contents.  Missing is what exceeds a packet, and the last byte of an odd pair.
CarriesMessage ==
  LET m == item.last
      missing == m.length - (Skip + Len(handed))
  IN call # NoCall /\ pc # "first" /\ ~item.torn =>
       /\ OnAir => base0 = m.head.to
       /\ packet.length <= IF mode = "sniffer" THEN SnifferMax ELSE PacketMax
       /\ \A i \in 1..Len(handed) : handed[i] = <<m, Skip + i - 1>>
       /\ \/ missing = 0
          \/ mode = "normal" /\ ack_enabled /\ Len(handed) = PacketMax
          \/ mode = "normal" /\ ~ack_enabled /\ m.length > PacketMax
               /\ m.length % 2 = 1 /\ missing = 1

\* An answer that says acked carries the ack that the receiver the message was for
\* made for that very packet, however many tries, lost, damaged or simulated to be
\* lost, went before.
OwnAnswer ==
  in_ep # Empty /\ in_ep.acked =>
    /\ in_ep.length = 1 /\ in_ep.data = [by |-> in_ep.to, n |-> numbered]
    /\ heard[in_ep.to].n = numbered /\ in_ep.retry \in 0..Arc

\* "Both case will look the same on the PC side: the packet is reported as not
\* acked" (compatible-usb-protocol.md:471), and an ack's payload follows only if
\* there was an ack: an answer that says not acked is no longer than its header.
NotAckedIsEmpty == in_ep # Empty /\ ~in_ep.acked => in_ep.length = 0
=============================================================================
