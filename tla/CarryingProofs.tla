--------------------------- MODULE CarryingProofs ---------------------------
(***************************************************************************)
(* Proof that the packets made of a message carry it (CarriesMessage), for *)
(* all sizes, lengths and receivers.  The lengths under way are lawful in  *)
(* the mode under way (LawfulInv), what the thread works on is a message   *)
(* (ItemInv), and the packet and the bytes handed to the driver are the    *)
(* piece of it that the mode and the packets before ask for (HandInv).     *)
(***************************************************************************)
EXTENDS AnswerProofs

\* The messages under way: in transfer, in the queue, in the thread's hands.
UnderWay ==
  {m \in {message} : within}
    \cup {command_queue[k].last : k \in 1..Len(command_queue)}
    \cup {m \in {item.last} : pc # "top"}

LawfulLength(n) ==
  /\ mode = "normal" /\ ~ack_enabled => n <= 2 * PacketMax
  /\ mode = "inline" => n \in HeaderLength..(HeaderLength + PacketMax)
  /\ mode = "sniffer" => n <= AddressLength + SnifferMax

LawfulInv == \A m \in UnderWay : LawfulLength(m.length)

ItemInv ==
  pc # "top" =>
    /\ item.last \in Messages
    /\ ~item.torn => IsMessage(item.sent, item.last)

\* A broadcast of two packets, the length of a packet, and of those before it.
Pair == mode = "normal" /\ ~ack_enabled /\ item.last.length > PacketMax

PacketLength ==
  LET n == item.last.length
  IN CASE mode = "normal"  -> IF Pair THEN n \div 2 ELSE Least(n, PacketMax)
       [] mode = "inline"  -> n - HeaderLength
       [] mode = "sniffer" -> n - AddressLength

Before == IF pc = "send" /\ Pair THEN item.last.length \div 2 ELSE 0

Carried(s, from, length, m) ==
  /\ s.length = length
  /\ \A i \in 0..(length - 1) : s.bytes[i] = <<m, from + i>>

HandInv ==
  /\ call.at = "none" => call = NoCall
  /\ pc # "top" /\ ~item.torn =>
       /\ Carried(packet, Skip + Before, PacketLength, item.last)
       /\ handed \in Seq(Bytes)
       /\ Len(handed) = IF call.at = "none" THEN Before ELSE Before + PacketLength
       /\ \A i \in 1..Len(handed) : handed[i] = <<item.last, Skip + i - 1>>
       /\ pc = "first" => Pair
       /\ pc = "sniffer" => /\ mode = "sniffer" /\ item.last.length > AddressLength
                            /\ base0 = item.last.head.to

-----------------------------------------------------------------------------
\* Only the host adds to what is under way.
LEMMA UnderWayStep ==
  ASSUME FramingInv, FlowInv, [DataNext]_dataVars, NEW m \in UnderWay'
  PROVE  m \in UnderWay \/ (m = message' /\ \E n \in Lengths, head \in Heads : HostMessage(n, head))
<1> USE DEF UnderWay
<1>q. command_queue \in Seq(Elements)
  BY DEF FramingInv, FramingType
<1>1. CASE \E n \in Lengths, head \in Heads : HostMessage(n, head)
  BY <1>1 DEF HostMessage, HostSends, threadVars
<1>2. CASE HostDies
  BY <1>2 DEF HostDies, HostGivesUp, threadVars
<1>3. CASE Transfer
  <2>1. /\ UNCHANGED <<message, pc, item>> /\ within
        /\ \/ UNCHANGED <<within, command_queue>>
           \/ ~within' /\ Put(Received)
    BY <1>3 DEF Transfer, OutCb, threadVars
  <2>2. CASE UNCHANGED <<within, command_queue>>
    BY <2>1, <2>2
  <2>3. ASSUME NEW e, e.last = message, command_queue' = Append(command_queue, e), ~within'
        PROVE  m \in UnderWay
    <3>1. \A k \in 1..Len(command_queue') :
            \/ k \in 1..Len(command_queue) /\ command_queue'[k] = command_queue[k]
            \/ command_queue'[k] = e
      BY <2>3, <1>q
    <3> QED BY <2>1, <2>3, <3>1
  <2> QED BY <2>1, <2>2, <2>3 DEF Put
<1>4. CASE TakeNormal \/ TakeInline \/ TakeSniffer
  <2>1. /\ UNCHANGED <<message, within>> /\ command_queue # << >>
        /\ command_queue' = Tail(command_queue)
        /\ pc' # "top" => item' = Head(command_queue)
    BY <1>4 DEF TakeNormal, TakeInline, TakeSniffer, Take, TakeCommand, hostOutVars
  <2>2. /\ \A k \in 1..Len(command_queue') :
             k + 1 \in 1..Len(command_queue) /\ command_queue'[k] = command_queue[k + 1]
        /\ 1 \in 1..Len(command_queue) /\ Head(command_queue) = command_queue[1]
    BY <2>1, <1>q
  <2> QED BY <2>1, <2>2
<1>5. CASE Radio \/ SendCall \/ FirstSent
  <2>1. UNCHANGED <<message, within, command_queue, item>> /\ (pc' # "top" => pc # "top")
    BY <1>5 DEF Radio, SendCall, FirstSent, framingVars, hostOutVars, threadVars
  <2> QED BY <2>1
<1>6. CASE SnifferEnd \/ Sent
  <2>1. UNCHANGED <<message, within, command_queue>> /\ pc' = "top"
    BY <1>6 DEF SnifferEnd, Sent, framingVars, hostOutVars
  <2> QED BY <2>1
<1>7. CASE \/ \E a \in Receivers, enabled \in BOOLEAN : Configure(a, enabled)
           \/ \E mo \in {"normal", "inline", "sniffer"} : SetMode(mo)
           \/ HostRead \/ UNCHANGED dataVars
  <2>1. UNCHANGED <<message, within, command_queue, pc, item>>
    BY <1>7 DEF Configure, SetMode, HostRead, dataVars, framingVars, hostOutVars, threadVars
  <2> QED BY <2>1
<1> QED BY <1>1, <1>2, <1>3, <1>4, <1>5, <1>6, <1>7 DEF DataNext, UsbThread

\* The mode and the settings that a length depends on stay while anything is.
LEMMA ModeStep ==
  ASSUME FramingInv, FlowInv, [DataNext]_dataVars, NEW m \in UnderWay'
  PROVE  UNCHANGED mode /\ (mode = "normal" => UNCHANGED ack_enabled)
<1>1. CASE \/ \E a \in Receivers, enabled \in BOOLEAN : Configure(a, enabled)
           \/ \E mo \in {"normal", "inline", "sniffer"} : SetMode(mo)
  <2>1. ~within' /\ command_queue' = << >> /\ pc' = "top"
    BY <1>1 DEF Configure, SetMode, Settled, framingVars, hostOutVars, threadVars
  <2> QED BY <2>1 DEF UnderWay
<1>2. CASE TakeInline
  BY <1>2 DEF TakeInline, Take
<1>3. CASE TakeSniffer
  BY <1>3 DEF TakeSniffer, Take
<1>4. CASE TakeNormal
  BY <1>4 DEF TakeNormal, Take, linkVars
<1>5. CASE Radio
  BY <1>5, TryStep, Zenon DEF Radio, Stuck
<1>6. CASE \/ \E n \in Lengths, head \in Heads : HostMessage(n, head)
           \/ HostDies \/ Transfer \/ HostRead \/ UNCHANGED dataVars
  BY <1>6 DEF HostMessage, HostDies, Transfer, HostRead, dataVars, linkVars
<1>7. CASE SendCall \/ FirstSent \/ Sent \/ SnifferEnd
  BY <1>7 DEF SendCall, SendPacket, FirstSent, Sent, SnifferEnd, SnifferSent
<1> QED BY <1>1, <1>2, <1>3, <1>4, <1>5, <1>6, <1>7 DEF DataNext, UsbThread

\* The lengths under way stay lawful.
LEMMA LawfulStep ==
  FramingInv /\ FlowInv /\ LawfulInv /\ [DataNext]_dataVars => LawfulInv'
<1> SUFFICES ASSUME FramingInv, FlowInv, LawfulInv, [DataNext]_dataVars, NEW m \in UnderWay'
             PROVE  LawfulLength(m.length)'
  BY DEF LawfulInv
<1>1. UNCHANGED mode /\ (mode = "normal" => UNCHANGED ack_enabled)
  BY ModeStep
<1>2. CASE m \in UnderWay
  BY <1>1, <1>2 DEF LawfulInv, LawfulLength
<1>3. ASSUME NEW n \in Lengths, NEW head \in Heads, HostMessage(n, head), m = message'
      PROVE  LawfulLength(m.length)'
  <2>1. m.length = n /\ Lawful(n, head)
    BY <1>3 DEF HostMessage, HostSends
  <2>2. LawfulLength(n)
    <3>1. CASE mode = "normal"
      BY <2>1, <3>1 DEF Lawful, LawfulLength
    <3>2. CASE mode = "inline"
      BY <2>1, <3>2 DEF Lawful, LawfulLength
    <3>3. CASE mode = "sniffer"
      BY <2>1, <3>3 DEF Lawful, LawfulLength
    <3> QED BY <3>1, <3>2, <3>3 DEF FlowInv
  <2> QED BY <1>1, <2>1, <2>2 DEF LawfulLength
<1> QED BY <1>2, <1>3, UnderWayStep

\* What the thread works on came whole from the queue, or is marked torn.
LEMMA ItemStep == FramingInv /\ ItemInv /\ [DataNext]_dataVars => ItemInv'
<1> SUFFICES ASSUME FramingInv, ItemInv, [DataNext]_dataVars PROVE ItemInv'
  OBVIOUS
<1>1. CASE TakeNormal \/ TakeInline \/ TakeSniffer
  <2>1. command_queue # << >> /\ (pc' # "top" => item' = Head(command_queue))
    BY <1>1 DEF TakeNormal, TakeInline, TakeSniffer, Take
  <2>2. command_queue \in Seq(Elements)
    BY DEF FramingInv, FramingType
  <2>3. 1 \in 1..Len(command_queue) /\ Head(command_queue) = command_queue[1]
        /\ command_queue[1] \in Elements
    BY <2>1, <2>2
  <2>4. pc' # "top" =>
          /\ item'.last \in Messages
          /\ ~item'.torn => IsMessage(item'.sent, item'.last)
    BY <2>1, <2>3 DEF FramingInv, FramesIntact, Elements
  <2> QED BY <2>4 DEF ItemInv, IsMessage
<1>2. CASE Radio \/ SendCall \/ FirstSent
  <2>1. UNCHANGED item /\ (pc' # "top" => pc # "top")
    BY <1>2 DEF Radio, SendCall, FirstSent, threadVars
  <2> QED BY <2>1 DEF ItemInv, IsMessage
<1>3. CASE SnifferEnd \/ Sent
  BY <1>3 DEF SnifferEnd, Sent, ItemInv
<1>4. CASE \/ \E n \in Lengths, head \in Heads : HostMessage(n, head)
           \/ \E a \in Receivers, enabled \in BOOLEAN : Configure(a, enabled)
           \/ \E m \in {"normal", "inline", "sniffer"} : SetMode(m)
           \/ HostDies \/ Transfer \/ HostRead \/ UNCHANGED dataVars
  <2>1. UNCHANGED <<pc, item>>
    BY <1>4 DEF HostMessage, HostDies, Transfer, Configure, SetMode, HostRead, dataVars,
                threadVars
  <2> QED BY <2>1 DEF ItemInv, IsMessage
<1> QED BY <1>1, <1>2, <1>3, <1>4 DEF DataNext, UsbThread

-----------------------------------------------------------------------------
\* A piece within a message carries that part of it.
LEMMA PieceCarries ==
  ASSUME NEW c, NEW m, NEW from \in Nat, NEW length \in Nat,
         IsMessage(c, m), c.length \in Nat, from + length <= c.length
  PROVE  Carried(Piece(c, from, length), from, length, m)
<1>1. ASSUME NEW i \in 0..(length - 1)
      PROVE  Piece(c, from, length).bytes[i] = <<m, from + i>>
  <2>1. from + i \in 0..(c.length - 1) /\ from + i < c.length
    OBVIOUS
  <2>2. Piece(c, from, length).bytes[i] = c.payload[from + i]
    BY <2>1 DEF Piece
  <2> QED BY <2>1, <2>2 DEF IsMessage
<1> QED BY <1>1 DEF Carried, Piece

\* What a packet adds to the bytes handed over.
LEMMA HandedOver ==
  ASSUME NEW p, NEW m \in Messages, NEW from \in Nat, NEW length \in Nat,
         Carried(p, from, length, m)
  PROVE  /\ InOrder(p) \in Seq(Bytes) /\ Len(InOrder(p)) = length
         /\ \A i \in 1..length : InOrder(p)[i] = <<m, from + i - 1>>
<1>1. p.length = length /\ \A i \in 1..length : p.bytes[i - 1] = <<m, from + i - 1>>
  <2>1. \A i \in 1..length : i - 1 \in 0..(length - 1) /\ from + (i - 1) = from + i - 1
    OBVIOUS
  <2> QED BY <2>1 DEF Carried
<1>2. \A i \in 1..length : InOrder(p)[i] = <<m, from + i - 1>>
  BY <1>1 DEF InOrder
<1>3. \A i \in 1..length : <<m, from + i - 1>> \in Bytes
  BY DEF Bytes
<1>4. InOrder(p) \in [1..length -> Bytes]
  BY <1>1, <1>3 DEF InOrder
<1>5. InOrder(p) \in Seq(Bytes) /\ Len(InOrder(p)) = length
  BY <1>4
<1> QED BY <1>2, <1>5

\* The lengths of pieces, of a message of n bytes of which s are in the command.
LEMMA PieceLengths ==
  ASSUME NEW n \in Nat, NEW s, s = Least(n, PayloadMax)
  PROVE  /\ s \in Nat /\ Least(s, PacketMax) = Least(n, PacketMax)
         /\ Least(n, PacketMax) \in Nat
         /\ Least(n, PacketMax) <= s /\ Least(n, PacketMax) <= PacketMax
         /\ n <= 2 * PacketMax => s = n
         /\ n \div 2 \in Nat /\ n \div 2 + n \div 2 <= n
         /\ n <= 2 * PacketMax => n \div 2 <= PacketMax
         /\ n - (n \div 2 + n \div 2) \in {0, 1}
         /\ n - (n \div 2 + n \div 2) = 1 => n % 2 = 1
         /\ n \in HeaderLength..(HeaderLength + PacketMax) =>
              s = n /\ n - HeaderLength \in Nat /\ n - HeaderLength <= PacketMax
         /\ n <= AddressLength + SnifferMax => s = n
<1>1. \A k \in Nat : /\ k \div 2 \in Nat /\ k \div 2 + k \div 2 <= k
                     /\ k - (k \div 2 + k \div 2) \in {0, 1}
                     /\ k - (k \div 2 + k \div 2) = 1 => k % 2 = 1
  OBVIOUS
<1>2. \A k, p \in Nat : k <= 2 * p => k \div 2 <= p
  OBVIOUS
<1>3. s \in Nat /\ (n <= PayloadMax => s = n) /\ (n > PayloadMax => s = PayloadMax)
  BY FramingAssumption DEF Least
<1>4. /\ PacketMax \in Nat /\ PacketMax <= PayloadMax
      /\ HeaderLength \in Nat /\ HeaderLength + PacketMax <= PayloadMax
      /\ 2 * PacketMax <= PayloadMax
      /\ AddressLength \in Nat /\ SnifferMax \in Nat
      /\ AddressLength + SnifferMax <= PayloadMax /\ PayloadMax \in Nat
  BY FramingAssumption, SizeAssumption
<1>5. /\ Least(s, PacketMax) = Least(n, PacketMax)
      /\ Least(n, PacketMax) \in Nat
      /\ Least(n, PacketMax) <= s /\ Least(n, PacketMax) <= PacketMax
  BY <1>3, <1>4 DEF Least
<1> QED BY <1>1, <1>2, <1>3, <1>4, <1>5

-----------------------------------------------------------------------------
\* The command taken, when it is one message.
LEMMA TakenCommand ==
  ASSUME FramingInv, LawfulInv, command_queue # << >>
  PROVE  LET q == Head(command_queue)
             n == q.last.length
         IN /\ q.last \in Messages /\ n \in Nat /\ LawfulLength(n)
            /\ ~q.torn => IsMessage(q.sent, q.last) /\ q.sent.length = Least(n, PayloadMax)
<1>1. command_queue \in Seq(Elements)
  BY DEF FramingInv, FramingType
<1>2. /\ 1 \in 1..Len(command_queue) /\ Head(command_queue) = command_queue[1]
      /\ command_queue[1] \in Elements
  BY <1>1
<1>3. command_queue[1].last \in UnderWay
  BY <1>2 DEF UnderWay
<1>4. command_queue[1].last \in Messages /\ command_queue[1].last.length \in Nat
  BY <1>2, FramingAssumption DEF Elements, Messages
<1> QED BY <1>2, <1>3, <1>4 DEF LawfulInv, FramingInv, FramesIntact, IsMessage

\* Taking a message: the packet, or its first half, is a piece of it.
LEMMA HandTakeNormal ==
  FramingInv /\ FlowInv /\ LawfulInv /\ HandInv /\ TakeNormal => HandInv'
<1> SUFFICES ASSUME FramingInv, FlowInv, LawfulInv, HandInv, TakeNormal PROVE HandInv'
  OBVIOUS
<1> DEFINE q == Head(command_queue)
           n == q.last.length
<1>1. /\ pc = "top" /\ command_queue # << >> /\ mode = "normal"
      /\ UNCHANGED <<mode, call, ack_enabled>> /\ call.at = "none"
      /\ item' = q /\ handed' = << >>
  BY DEF TakeNormal, Take, linkVars, FlowInv
<1>2. /\ q.last \in Messages /\ n \in Nat /\ (~ack_enabled => n <= 2 * PacketMax)
      /\ ~q.torn => IsMessage(q.sent, q.last) /\ q.sent.length = Least(n, PayloadMax)
  BY <1>1, TakenCommand DEF LawfulLength
<1>3. Skip' = 0
  BY <1>1 DEF Skip
<1>4. CASE ~ack_enabled /\ q.sent.length > PacketMax
  <2>1. packet' = Piece(q.sent, 0, q.sent.length \div 2) /\ pc' = "first"
    BY <1>4 DEF TakeNormal, Take
  <2>2. Before' = 0
    BY <2>1 DEF Before
  <2>3. ASSUME ~q.torn
        PROVE  /\ q.sent.length = n /\ n \div 2 \in Nat /\ n \div 2 <= n
               /\ Pair' /\ PacketLength' = n \div 2
    <3>1. q.sent.length = n /\ n \div 2 \in Nat /\ n \div 2 <= n
      BY <1>2, <1>4, <2>3, PieceLengths
    <3>2. Pair'
      BY <1>1, <1>4, <3>1 DEF Pair
    <3> QED BY <1>1, <3>1, <3>2 DEF PacketLength
  <2>4. ~q.torn => Carried(packet', 0, n \div 2, q.last)
    BY <1>2, <2>1, <2>3, PieceCarries
  <2>5. ~q.torn => Carried(packet', Skip' + Before', PacketLength', item'.last)
    <3> SUFFICES ASSUME ~q.torn PROVE Carried(packet', 0 + 0, PacketLength', item'.last)
      BY <1>3, <2>2
    <3>1. PacketLength' = n \div 2 /\ item'.last = q.last /\ 0 + 0 = 0
      BY <1>1, <2>3
    <3> QED BY <2>4, <3>1
  <2> QED BY <1>1, <2>1, <2>2, <2>3, <2>5 DEF HandInv
<1>5. CASE ~(~ack_enabled /\ q.sent.length > PacketMax)
  <2>1. packet' = Piece(q.sent, 0, Least(q.sent.length, PacketMax)) /\ pc' = "send"
    BY <1>5 DEF TakeNormal, Take
  <2>2. ASSUME ~q.torn
        PROVE  /\ ~Pair' /\ PacketLength' = Least(n, PacketMax) /\ Before' = 0
               /\ Carried(packet', 0, Least(n, PacketMax), q.last)
    <3>1. /\ q.sent.length \in Nat /\ Least(q.sent.length, PacketMax) = Least(n, PacketMax)
          /\ Least(n, PacketMax) \in Nat /\ Least(n, PacketMax) <= q.sent.length
          /\ ~ack_enabled => q.sent.length = n
      BY <1>2, <2>2, PieceLengths
    <3>2. ~Pair'
      BY <1>1, <1>5, <1>2, <3>1, SizeAssumption DEF Pair
    <3>3. PacketLength' = Least(n, PacketMax) /\ Before' = 0
      BY <1>1, <3>2 DEF PacketLength, Before
    <3> QED BY <1>2, <2>1, <2>2, <3>1, <3>2, <3>3, PieceCarries
  <2>3. ASSUME ~q.torn
        PROVE  Carried(packet', Skip' + Before', PacketLength', item'.last)
    <3>1. Skip' + Before' = 0 /\ PacketLength' = Least(n, PacketMax) /\ item'.last = q.last
      BY <1>1, <1>3, <2>2, <2>3
    <3> QED BY <2>2, <2>3, <3>1
  <2> QED BY <1>1, <2>1, <2>2, <2>3 DEF HandInv
<1> QED BY <1>4, <1>5

\* The same with the address in the message.
LEMMA HandTakeInline ==
  FramingInv /\ FlowInv /\ LawfulInv /\ HandInv /\ TakeInline => HandInv'
<1> SUFFICES ASSUME FramingInv, FlowInv, LawfulInv, HandInv, TakeInline PROVE HandInv'
  OBVIOUS
<1> DEFINE q == Head(command_queue)
           n == q.last.length
<1>1. /\ pc = "top" /\ command_queue # << >> /\ mode = "inline"
      /\ UNCHANGED <<mode, call>> /\ call.at = "none"
      /\ item' = q /\ handed' = << >> /\ pc' = "send"
      /\ ~q.torn => packet' = Piece(q.sent, HeaderLength, n - HeaderLength)
  BY DEF TakeInline, Take, FlowInv
<1>2. /\ n \in Nat /\ n \in HeaderLength..(HeaderLength + PacketMax)
      /\ ~q.torn => IsMessage(q.sent, q.last) /\ q.sent.length = Least(n, PayloadMax)
  BY <1>1, TakenCommand DEF LawfulLength
<1>3. Skip' = HeaderLength /\ Before' = 0 /\ PacketLength' = n - HeaderLength
  BY <1>1 DEF Skip, Before, Pair, PacketLength
<1>4. ASSUME ~q.torn PROVE Carried(packet', HeaderLength, n - HeaderLength, q.last)
  <2>1. /\ q.sent.length = n /\ n - HeaderLength \in Nat /\ HeaderLength \in Nat
        /\ HeaderLength + (n - HeaderLength) <= n
    BY <1>2, <1>4, PieceLengths, SizeAssumption
  <2> QED BY <1>1, <1>2, <1>4, <2>1, PieceCarries
<1>5. ~q.torn => Carried(packet', Skip' + Before', PacketLength', item'.last)
  <2>1. Skip' + Before' = HeaderLength /\ item'.last = q.last
    BY <1>1, <1>3, SizeAssumption
  <2> QED BY <1>3, <1>4, <2>1
<1> QED BY <1>1, <1>3, <1>5 DEF HandInv

\* The same in sniffer mode, where the packet is handed over at once.
LEMMA HandTakeSniffer ==
  FramingInv /\ FlowInv /\ LawfulInv /\ HandInv /\ TakeSniffer => HandInv'
<1> SUFFICES ASSUME FramingInv, FlowInv, LawfulInv, HandInv, TakeSniffer PROVE HandInv'
  OBVIOUS
<1> DEFINE q == Head(command_queue)
           n == q.last.length
<1>1. pc = "top" /\ command_queue # << >> /\ mode = "sniffer" /\ UNCHANGED mode
  BY DEF TakeSniffer, Take
<1>2. /\ q.last \in Messages /\ n \in Nat /\ n <= AddressLength + SnifferMax
      /\ ~q.torn => IsMessage(q.sent, q.last) /\ q.sent.length = Least(n, PayloadMax)
  BY <1>1, TakenCommand DEF LawfulLength
<1>3. CASE q.sent.length < AddressLength + 1
  BY <1>3 DEF TakeSniffer, Take, linkVars, HandInv
<1>4. CASE ~(q.sent.length < AddressLength + 1)
  <2> DEFINE p == Piece(q.sent, AddressLength, Least(q.sent.length - AddressLength, SnifferMax))
  <2>1. PICK head \in HeadsOf(q) : Take(q, p, "sniffer") /\ SnifferSend(p.length, head.to)
    BY <1>4 DEF TakeSniffer
  <2>2. /\ item' = q /\ packet' = p /\ pc' = "sniffer" /\ handed' = InOrder(p)
        /\ call'.at = "sniffer" /\ base0' = head.to
    BY <2>1 DEF Take, SnifferSend
  <2>3. Skip' = AddressLength /\ Before' = 0 /\ PacketLength' = n - AddressLength
    BY <1>1, <2>2 DEF Skip, Before, Pair, PacketLength
  <2>4. ASSUME ~q.torn
        PROVE  /\ n > AddressLength /\ base0' = q.last.head.to
               /\ Carried(p, AddressLength, n - AddressLength, q.last)
               /\ n - AddressLength \in Nat
    <3>1. q.sent.length = n /\ AddressLength \in Nat /\ SnifferMax \in Nat
      BY <1>2, <2>4, PieceLengths, SizeAssumption
    <3>2. /\ n > AddressLength /\ n - AddressLength \in Nat
          /\ Least(n - AddressLength, SnifferMax) = n - AddressLength
          /\ AddressLength + (n - AddressLength) <= n
      BY <1>2, <1>4, <3>1 DEF Least
    <3>3. Carried(p, AddressLength, n - AddressLength, q.last)
      BY <1>2, <2>4, <3>1, <3>2, PieceCarries
    <3> QED BY <2>2, <2>4, <3>2, <3>3 DEF HeadsOf
  <2> HIDE DEF p
  <2>5. ~q.torn => /\ InOrder(p) \in Seq(Bytes) /\ Len(InOrder(p)) = n - AddressLength
                   /\ \A i \in 1..(n - AddressLength) :
                        InOrder(p)[i] = <<q.last, AddressLength + i - 1>>
    BY <1>2, <2>4, HandedOver, SizeAssumption
  <2>6. ~q.torn => Carried(packet', Skip' + Before', PacketLength', item'.last)
    <3>1. Skip' + Before' = AddressLength /\ item'.last = q.last
      BY <2>2, <2>3, SizeAssumption
    <3> QED BY <2>2, <2>3, <2>4, <3>1
  <2>7. ~q.torn => /\ handed' \in Seq(Bytes) /\ Len(handed') = Before' + PacketLength'
                   /\ \A i \in 1..Len(handed') : handed'[i] = <<item'.last, Skip' + i - 1>>
    <3> SUFFICES ASSUME ~q.torn
                 PROVE  /\ handed' \in Seq(Bytes) /\ Len(handed') = Before' + PacketLength'
                        /\ \A i \in 1..Len(handed') :
                             handed'[i] = <<item'.last, Skip' + i - 1>>
      OBVIOUS
    <3>1. Before' + PacketLength' = n - AddressLength /\ item' = q /\ handed' = InOrder(p)
      BY <2>2, <2>3, <2>4
    <3> QED BY <2>3, <2>5, <3>1
  <2> QED BY <1>1, <2>2, <2>4, <2>6, <2>7 DEF HandInv
<1> QED BY <1>3, <1>4

\* The lengths of the packet in hand.
LEMMA InHand ==
  ASSUME FlowInv, LawfulInv, ItemInv, HandInv, pc # "top", ~item.torn
  PROVE  LET n == item.last.length
         IN /\ n \in Nat /\ LawfulLength(n) /\ item.last \in Messages
            /\ Skip \in Nat /\ Before \in Nat /\ PacketLength \in Nat
            /\ IsMessage(item.sent, item.last) /\ item.sent.length = Least(n, PayloadMax)
<1>1. item.last \in UnderWay /\ item.last \in Messages /\ item.last.length \in Nat
  BY FramingAssumption DEF UnderWay, ItemInv, Messages
<1>2. LawfulLength(item.last.length) /\ IsMessage(item.sent, item.last)
  BY <1>1 DEF LawfulInv, ItemInv
<1>3. Skip \in Nat
  BY SizeAssumption DEF Skip, FlowInv
<1>4. /\ item.last.length \div 2 \in Nat
      /\ Least(item.last.length, PacketMax) \in Nat
  BY <1>1, PieceLengths
<1>5. Before \in Nat
  BY <1>4 DEF Before
<1>6. PacketLength \in Nat
  <2>1. CASE mode = "normal"
    BY <1>4, <2>1 DEF PacketLength
  <2>2. CASE mode = "inline"
    BY <1>1, <1>2, <2>2, PieceLengths DEF PacketLength, LawfulLength
  <2>3. CASE mode = "sniffer"
    <3>1. item.last.length > AddressLength
      BY <2>3 DEF FlowInv, HandInv
    <3> QED BY <1>1, <2>3, <3>1, SizeAssumption DEF PacketLength
  <2> QED BY <2>1, <2>2, <2>3 DEF FlowInv
<1> QED BY <1>1, <1>2, <1>3, <1>5, <1>6 DEF IsMessage

\* Two sequences one after the other.
LEMMA Joined ==
  ASSUME NEW S, NEW a \in Seq(S), NEW b \in Seq(S)
  PROVE  /\ a \o b \in Seq(S) /\ Len(a \o b) = Len(a) + Len(b)
         /\ \A i \in 1..(Len(a) + Len(b)) :
              (a \o b)[i] = IF i <= Len(a) THEN a[i] ELSE b[i - Len(a)]
OBVIOUS

\* The call to the driver hands the packet over after those before it.
LEMMA HandSendCall ==
  FlowInv /\ LawfulInv /\ ItemInv /\ HandInv /\ SendCall => HandInv'
<1> SUFFICES ASSUME FlowInv, LawfulInv, ItemInv, HandInv, SendCall PROVE HandInv'
  OBVIOUS
<1>1. /\ UNCHANGED <<mode, pc, item, packet, ack_enabled>>
      /\ pc \in {"first", "send"} /\ call.at = "none" /\ call'.at # "none"
      /\ handed' = handed \o InOrder(packet)
  BY DEF SendCall, SendPacket, NoCall
<1>2. UNCHANGED <<Skip, Before, PacketLength, Pair>>
  BY <1>1 DEF Skip, Before, PacketLength, Pair
<1>3. CASE item.torn
  BY <1>1, <1>3 DEF HandInv
<1>4. CASE ~item.torn
  <2>1. /\ item.last \in Messages /\ Skip \in Nat /\ Before \in Nat /\ PacketLength \in Nat
    BY <1>1, <1>4, InHand
  <2>2. /\ Carried(packet, Skip + Before, PacketLength, item.last)
        /\ handed \in Seq(Bytes) /\ Len(handed) = Before
        /\ \A i \in 1..Before : handed[i] = <<item.last, Skip + i - 1>>
    BY <1>1, <1>4 DEF HandInv
  <2>3. /\ InOrder(packet) \in Seq(Bytes) /\ Len(InOrder(packet)) = PacketLength
        /\ \A i \in 1..PacketLength :
             InOrder(packet)[i] = <<item.last, Skip + Before + i - 1>>
    BY <2>1, <2>2, HandedOver
  <2>4. /\ handed' \in Seq(Bytes) /\ Len(handed') = Before + PacketLength
        /\ \A i \in 1..(Before + PacketLength) :
             handed'[i] = IF i <= Before THEN handed[i] ELSE InOrder(packet)[i - Before]
    <3>1. handed' = handed \o InOrder(packet)
      BY <1>1
    <3>2. /\ handed \o InOrder(packet) \in Seq(Bytes)
          /\ Len(handed \o InOrder(packet)) = Len(handed) + Len(InOrder(packet))
          /\ \A i \in 1..(Len(handed) + Len(InOrder(packet))) :
               (handed \o InOrder(packet))[i] =
                 IF i <= Len(handed) THEN handed[i] ELSE InOrder(packet)[i - Len(handed)]
      BY <2>2, <2>3, Joined
    <3>3. Len(handed) = Before /\ Len(InOrder(packet)) = PacketLength
      BY <2>2, <2>3
    <3> QED BY ONLY <3>1, <3>2, <3>3
  <2>5. ASSUME NEW i \in 1..(Before + PacketLength)
        PROVE  handed'[i] = <<item.last, Skip + i - 1>>
    <3>1. CASE i <= Before
      <4>1. i \in 1..Before
        BY <2>1, <3>1
      <4> QED BY <2>2, <2>4, <3>1, <4>1
    <3>2. CASE ~(i <= Before)
      <4>1. i - Before \in 1..PacketLength /\ Skip + Before + (i - Before) - 1 = Skip + i - 1
        BY <2>1, <3>2
      <4> QED BY <2>3, <2>4, <3>2, <4>1
    <3> QED BY <3>1, <3>2
  <2>6. Carried(packet', (Skip + Before)', PacketLength', item'.last)
    BY <1>1, <1>2, <2>2
  <2>7. /\ handed' \in Seq(Bytes) /\ Len(handed') = (Before + PacketLength)'
        /\ \A i \in 1..Len(handed') : handed'[i] = <<item'.last, (Skip + i - 1)'>>
    <3>1. UNCHANGED item
      BY <1>1
    <3> QED BY <1>2, <2>4, <2>5, <3>1
  <2> QED BY <1>1, <1>2, <1>4, <2>6, <2>7 DEF HandInv
<1> QED BY <1>3, <1>4

\* The second half follows the first.
LEMMA HandFirstSent ==
  FlowInv /\ LawfulInv /\ ItemInv /\ HandInv /\ FirstSent => HandInv'
<1> SUFFICES ASSUME FlowInv, LawfulInv, ItemInv, HandInv, FirstSent PROVE HandInv'
  OBVIOUS
<1> DEFINE half == item.sent.length \div 2
           n == item.last.length
<1>1. /\ pc = "first" /\ pc' = "send" /\ mode = "normal" /\ call.at = "returned"
      /\ UNCHANGED <<mode, item, handed, ack_enabled>> /\ call' = NoCall
      /\ packet' = Piece(item.sent, half, half)
  BY DEF FirstSent, Return, FlowInv, SecondFrom
<1>2. CASE item.torn
  BY <1>1, <1>2 DEF HandInv, NoCall
<1>3. CASE ~item.torn
  <2>1. /\ n \in Nat /\ LawfulLength(n)
        /\ IsMessage(item.sent, item.last) /\ item.sent.length = Least(n, PayloadMax)
    BY <1>1, <1>3, InHand
  <2>2. Pair /\ Pair' /\ Before = 0
    BY <1>1, <1>3 DEF HandInv, Pair, Before
  <2>3. /\ item.sent.length = n /\ half = n \div 2 /\ half \in Nat /\ half + half <= n
    BY <1>1, <2>1, <2>2, PieceLengths DEF LawfulLength, Pair
  <2>4. /\ Skip = 0 /\ Skip' = 0 /\ PacketLength = half /\ PacketLength' = half
        /\ Before' = half
    BY <1>1, <2>2, <2>3 DEF Skip, PacketLength, Before
  <2>5. Carried(packet', half, half, item.last)
    BY <1>1, <2>1, <2>3, PieceCarries
  <2>6. /\ handed \in Seq(Bytes) /\ Len(handed) = half
        /\ \A i \in 1..half : handed[i] = <<item.last, 0 + i - 1>>
    <3>1. /\ handed \in Seq(Bytes) /\ Len(handed) = Before + PacketLength
          /\ \A i \in 1..Len(handed) : handed[i] = <<item.last, Skip + i - 1>>
      BY <1>1, <1>3 DEF HandInv
    <3>2. Len(handed) = half
      BY <2>2, <2>3, <2>4, <3>1
    <3> QED BY <2>4, <3>1, <3>2
  <2>7. Carried(packet', Skip' + Before', PacketLength', item'.last)
    <3>1. Skip' + Before' = half /\ item' = item
      BY <1>1, <2>3, <2>4
    <3> QED BY ONLY <2>4, <2>5, <3>1
  <2>8. /\ handed' \in Seq(Bytes) /\ Len(handed') = Before'
        /\ \A i \in 1..Len(handed') : handed'[i] = <<item'.last, Skip' + i - 1>>
    <3>1. handed' = handed /\ item' = item
      BY <1>1
    <3> QED BY ONLY <2>4, <2>6, <3>1
  <2> QED BY <1>1, <2>7, <2>8 DEF HandInv, NoCall
<1> QED BY <1>2, <1>3

\* A step that leaves the packet and its message alone.
LEMMA HandUntouched ==
  ASSUME HandInv, UNCHANGED <<mode, pc, item, packet, handed, ack_enabled>>,
         call' = call \/ (call.at # "none" /\ call'.at # "none"),
         base0' = base0
  PROVE  HandInv'
<1>1. UNCHANGED <<Skip, Before, PacketLength, Pair>>
  BY DEF Skip, Before, PacketLength, Pair
<1> QED BY <1>1 DEF HandInv, Carried

\* Every step keeps what is in hand a piece of the message.
LEMMA HandStep ==
  FramingInv /\ FlowInv /\ LawfulInv /\ ItemInv /\ HandInv /\ [DataNext]_dataVars => HandInv'
<1> SUFFICES ASSUME FramingInv, FlowInv, LawfulInv, ItemInv, HandInv, [DataNext]_dataVars
             PROVE  HandInv'
  OBVIOUS
<1>1. CASE \/ \E a \in Receivers, enabled \in BOOLEAN : Configure(a, enabled)
           \/ \E m \in {"normal", "inline", "sniffer"} : SetMode(m)
  <2>1. pc' = "top" /\ call' = call
    BY <1>1 DEF Configure, SetMode, Settled, threadVars, linkVars
  <2> QED BY <2>1 DEF HandInv
<1>2. CASE \/ \E n \in Lengths, head \in Heads : HostMessage(n, head)
           \/ HostDies \/ Transfer \/ HostRead \/ UNCHANGED dataVars
  <2>1. UNCHANGED <<linkVars, mode, threadVars>>
    BY <1>2 DEF HostMessage, HostDies, Transfer, HostRead, dataVars
  <2> QED BY <2>1, HandUntouched DEF linkVars, addressVars, threadVars
<1>3. CASE TakeNormal
  BY <1>3, HandTakeNormal
<1>4. CASE TakeInline
  BY <1>4, HandTakeInline
<1>5. CASE TakeSniffer
  BY <1>5, HandTakeSniffer
<1>6. CASE SendCall
  BY <1>6, HandSendCall
<1>7. CASE Radio
  <2>1. call.at = "try" /\ call'.at \in {"try", "returned"} /\ UNCHANGED <<base0, ack_enabled>>
    <3>1. CASE Stuck
      BY <3>1 DEF Stuck, addressVars
    <3> QED BY <1>7, <3>1, TryStep DEF Radio, addressVars
  <2>2. UNCHANGED <<mode, pc, item, packet, handed>>
    BY <1>7 DEF Radio, threadVars
  <2> QED BY <2>1, <2>2, HandUntouched
<1>8. CASE FirstSent
  BY <1>8, HandFirstSent
<1>9. CASE SnifferEnd \/ Sent
  <2>1. pc' = "top" /\ call' = NoCall
    BY <1>9 DEF SnifferEnd, SnifferSent, Sent, Return
  <2> QED BY <2>1 DEF HandInv
<1> QED BY <1>1, <1>2, <1>3, <1>4, <1>5, <1>6, <1>7, <1>8, <1>9 DEF DataNext, UsbThread

-----------------------------------------------------------------------------
\* What is in hand once a call is under way is all of the message that fits.
LEMMA HandsCarry ==
  ASSUME FlowInv, Addressed, LawfulInv, ItemInv, HandInv
  PROVE  CarriesMessage
<1> DEFINE m == item.last
           n == m.length
           missing == n - (Skip + Len(handed))
<1> SUFFICES ASSUME call # NoCall, pc # "first", ~item.torn
             PROVE  /\ OnAir => base0 = m.head.to
                    /\ packet.length <= IF mode = "sniffer" THEN SnifferMax ELSE PacketMax
                    /\ \A i \in 1..Len(handed) : handed[i] = <<m, Skip + i - 1>>
                    /\ \/ missing = 0
                       \/ mode = "normal" /\ ack_enabled /\ Len(handed) = PacketMax
                       \/ mode = "normal" /\ ~ack_enabled /\ n > PacketMax
                            /\ n % 2 = 1 /\ missing = 1
  BY DEF CarriesMessage
<1>1. /\ call.at # "none" /\ pc \in {"send", "sniffer"}
      /\ pc = "sniffer" <=> mode = "sniffer"
      /\ pc = "sniffer" <=> call.at = "sniffer"
  BY DEF HandInv, FlowInv
<1>2. OnAir => base0 = m.head.to
  BY <1>1 DEF OnAir, Addressed, HandInv, FlowInv
<1>3. /\ n \in Nat /\ LawfulLength(n)
      /\ Skip \in Nat /\ Before \in Nat /\ PacketLength \in Nat
  BY <1>1, InHand
<1>4. /\ packet.length = PacketLength /\ Len(handed) = Before + PacketLength
      /\ \A i \in 1..Len(handed) : handed[i] = <<m, Skip + i - 1>>
  BY <1>1 DEF HandInv, Carried
<1>5. CASE Pair
  <2>1. /\ mode = "normal" /\ ~ack_enabled /\ n > PacketMax /\ Skip = 0
        /\ PacketLength = n \div 2 /\ Before = n \div 2
    BY <1>1, <1>5 DEF Pair, PacketLength, Before, Skip
  <2>2. /\ n \div 2 <= PacketMax /\ n - (n \div 2 + n \div 2) \in {0, 1}
        /\ n - (n \div 2 + n \div 2) = 1 => n % 2 = 1
    BY <1>3, <2>1, PieceLengths DEF LawfulLength
  <2>3. missing = n - (n \div 2 + n \div 2)
    BY <1>3, <1>4, <2>1
  <2> QED BY <1>2, <1>4, <2>1, <2>2, <2>3
<1>6. CASE ~Pair /\ mode = "normal"
  <2>1. Skip = 0 /\ Before = 0 /\ PacketLength = Least(n, PacketMax)
    BY <1>6 DEF PacketLength, Before, Skip
  <2>2. n > PacketMax => ack_enabled
    BY <1>6 DEF Pair
  <2> QED BY <1>2, <1>3, <1>4, <1>6, <2>1, <2>2, SizeAssumption DEF Least
<1>7. CASE mode = "inline"
  <2>1. Skip = HeaderLength /\ Before = 0 /\ PacketLength = n - HeaderLength
    BY <1>7 DEF PacketLength, Before, Skip, Pair
  <2>2. n \in HeaderLength..(HeaderLength + PacketMax)
    BY <1>3, <1>7 DEF LawfulLength
  <2>3. Len(handed) = n - HeaderLength
    BY <1>3, <1>4, <2>1
  <2>4. missing = 0 /\ packet.length <= PacketMax
    BY <1>3, <1>4, <2>1, <2>2, <2>3, SizeAssumption
  <2> QED BY <1>2, <1>4, <1>7, <2>4
<1>8. CASE mode = "sniffer"
  <2>1. Skip = AddressLength /\ Before = 0 /\ PacketLength = n - AddressLength
    BY <1>8 DEF PacketLength, Before, Skip, Pair
  <2>2. n <= AddressLength + SnifferMax
    BY <1>3, <1>8 DEF LawfulLength
  <2>3. Len(handed) = n - AddressLength
    BY <1>3, <1>4, <2>1
  <2>4. missing = 0 /\ packet.length <= SnifferMax
    BY <1>3, <1>4, <2>1, <2>2, <2>3, SizeAssumption
  <2> QED BY <1>2, <1>4, <1>8, <2>4
<1> QED BY <1>5, <1>6, <1>7, <1>8 DEF FlowInv

CarryingInv ==
  FramingInv /\ FlowInv /\ Addressed /\ LawfulInv /\ ItemInv /\ HandInv

\* The packets made of a message carry all of it that the protocol allows, and
\* nothing else, to the address it was meant for.
THEOREM PacketsCarryTheirMessage == DataSpec => []CarriesMessage
<1>1. DataInit => CarryingInv
  <2> SUFFICES ASSUME DataInit PROVE CarryingInv
    OBVIOUS
  <2>1. UnderWay = {} /\ pc = "top" /\ call = NoCall
    BY DEF DataInit, OutInit, LinkInit, UnderWay
  <2> QED BY <2>1, FlowInit, FramingInit
          DEF CarryingInv, LawfulInv, ItemInv, HandInv, DataInit
<1>2. CarryingInv /\ [DataNext]_dataVars => CarryingInv'
  BY DataPathFrames, FramingInductive, FlowStep, AddressedStep, LawfulStep, ItemStep, HandStep
     DEF CarryingInv
<1>3. CarryingInv => CarriesMessage
  BY HandsCarry DEF CarryingInv
<1> QED BY <1>1, <1>2, <1>3, PTL DEF DataSpec
=============================================================================
