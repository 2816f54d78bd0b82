--------------------------- MODULE DataPathProofs ---------------------------
(***************************************************************************)
(* Proofs about the data path, for all sizes, lengths, receivers and retry *)
(* counts: the framing of the OUT endpoint (FramesIntact), the link's      *)
(* PassedInOrder and SwallowedOnlyAtWrap, and that the composition keeps   *)
(* them.                                                                   *)
(***************************************************************************)
EXTENDS DataPath, TLAPS

Messages == [id : Nat, length : Lengths, head : Heads]
Bytes == Messages \X Nat
CommandsOf(n) == [length : {n}, payload : [0..(n - 1) -> Bytes]]
Commands == UNION {CommandsOf(n) : n \in 0..PayloadMax}
Elements == [sent : Commands, last : Messages, torn : BOOLEAN]

FramingType ==
  /\ message.id \in Nat /\ done \in Nat
  /\ within \in BOOLEAN /\ torn \in BOOLEAN /\ accumulating \in BOOLEAN
  /\ within => message \in Messages /\ done <= message.length
  /\ accumulating => command \in Commands
  /\ command_queue \in Seq(Elements)

\* What has accumulated of the message under way, with and without the remains of
\* another before it.
Accumulated ==
  /\ ~torn => /\ accumulating <=> (within /\ done > 0)
              /\ accumulating =>
                   /\ command.length = Least(done, PayloadMax)
                   /\ \A i \in 0..(command.length - 1) : command.payload[i] = <<message, i>>
  /\ torn => /\ accumulating
             /\ within /\ command.length < PayloadMax =>
                  /\ done <= command.length
                  /\ \A i \in 0..(done - 1) :
                       command.payload[command.length - done + i] = <<message, i>>

FramingInv == FramingType /\ Accumulated /\ FramesIntact

-----------------------------------------------------------------------------
\* What a transfer makes of the command.
LEMMA ReceivedIsCommand ==
  ASSUME FramingType, within
  PROVE  /\ bytes_to_read \in Nat /\ bytes_to_read <= Mps
         /\ bytes_to_read <= message.length - done
         /\ bytes_to_read < Mps => bytes_to_read = message.length - done
         /\ Offset \in 0..PayloadMax
         /\ Kept \in Nat /\ Kept <= bytes_to_read
         /\ Offset + Kept <= PayloadMax
         /\ Offset + Kept < PayloadMax => Kept = bytes_to_read
         /\ Received.length = Offset + Kept
         /\ \A i \in 0..((Offset + Kept) - 1) :
              Received.payload[i] = ReceivedByte(i)
         /\ Received \in Commands
<1>1. /\ message \in Messages /\ message.length \in Nat
      /\ done \in Nat /\ done <= message.length
  BY FramingAssumption DEF FramingType, Messages
<1>2. /\ bytes_to_read \in Nat /\ bytes_to_read <= Mps
      /\ bytes_to_read <= message.length - done
      /\ bytes_to_read < Mps => bytes_to_read = message.length - done
  BY <1>1, FramingAssumption DEF bytes_to_read, Least
<1>3. accumulating =>
        /\ command.length \in 0..PayloadMax
        /\ command.payload \in [0..(command.length - 1) -> Bytes]
  BY DEF FramingType, Commands, CommandsOf
<1>4. Offset \in 0..PayloadMax
  BY <1>3, FramingAssumption DEF Offset
<1>5. /\ Kept \in Nat /\ Kept <= bytes_to_read /\ Offset + Kept <= PayloadMax
      /\ Offset + Kept < PayloadMax => Kept = bytes_to_read
  BY <1>2, <1>4, FramingAssumption DEF Kept, Least
<1>6. /\ Received.length = Offset + Kept
      /\ \A i \in 0..((Offset + Kept) - 1) :
           Received.payload[i] = ReceivedByte(i)
  BY DEF Received
<1>7. ASSUME NEW i \in 0..((Offset + Kept) - 1) PROVE ReceivedByte(i) \in Bytes
  <2>1. CASE i < Offset
    <3>1. accumulating /\ i \in 0..(command.length - 1)
      BY <2>1, <1>3, <1>4, <1>5 DEF Offset
    <3> QED BY <3>1, <2>1, <1>3 DEF ReceivedByte
  <2>2. CASE ~(i < Offset)
    <3>1. done + (i - Offset) \in Nat
      BY <2>2, <1>1, <1>4, <1>5
    <3> QED BY <3>1, <2>2, <1>1 DEF Bytes, ReceivedByte
  <2> QED BY <2>1, <2>2
<1>8. Received \in CommandsOf(Offset + Kept)
  <2> DEFINE f == [i \in 0..((Offset + Kept) - 1) |-> ReceivedByte(i)]
  <2>1. f \in [0..((Offset + Kept) - 1) -> Bytes]
    BY <1>7
  <2>2. Received = [length |-> Offset + Kept, payload |-> f]
    BY DEF Received
  <2> HIDE DEF f
  <2>3. [length |-> Offset + Kept, payload |-> f]
          \in [length : {Offset + Kept}, payload : [0..((Offset + Kept) - 1) -> Bytes]]
    BY <2>1
  <2> QED BY <2>2, <2>3 DEF CommandsOf
<1>9. Offset + Kept \in 0..PayloadMax
  BY <1>4, <1>5
<1> QED BY <1>2, <1>4, <1>5, <1>6, <1>8, <1>9 DEF Commands

\* The accumulated command after a transfer, of a message not torn.
LEMMA WholeSoFar ==
  ASSUME FramingInv, within, ~torn
  PROVE  /\ Received.length = Least(done + bytes_to_read, PayloadMax)
         /\ \A i \in 0..(Received.length - 1) : Received.payload[i] = <<message, i>>
<1>1. Offset = Least(done, PayloadMax)
  BY FramingAssumption DEF FramingInv, FramingType, Accumulated, Offset, Least
<1>2. done \in Nat
  BY DEF FramingInv, FramingType
<1>3. FramingType
  BY DEF FramingInv
<1>4. Received.length = Least(done + bytes_to_read, PayloadMax)
  BY <1>1, <1>2, <1>3, ReceivedIsCommand, FramingAssumption DEF Kept, Least
<1>5. ASSUME NEW i \in 0..(Received.length - 1)
      PROVE  Received.payload[i] = <<message, i>>
  <2>1. i \in 0..((Offset + Kept) - 1)
    BY <1>3, <1>5, ReceivedIsCommand
  <2>4. Received.payload[i] = IF i < Offset THEN command.payload[i]
                              ELSE <<message, done + (i - Offset)>>
    BY <1>3, <2>1, ReceivedIsCommand DEF ReceivedByte
  <2>2. CASE i < Offset
    <3>1. accumulating /\ command.length = Offset
      BY <2>1, <2>2 DEF Offset
    <3>2. command.payload[i] = <<message, i>>
      BY <3>1, <2>1, <2>2, <1>3, ReceivedIsCommand DEF FramingInv, Accumulated
    <3> QED BY <3>2, <2>2, <2>4
  <2>3. CASE ~(i < Offset)
    <3>1. Offset < PayloadMax
      BY <2>1, <2>3, <1>3, ReceivedIsCommand, FramingAssumption
    <3>2. Offset = done
      BY <3>1, <1>1, <1>2, FramingAssumption DEF Least
    <3>3. done + (i - Offset) = i
      BY <3>2, <2>1, <1>2
    <3> QED BY <3>3, <2>3, <2>4
  <2> QED BY <2>2, <2>3
<1> QED BY <1>4, <1>5

\* The same with the remains of another before it.
LEMMA TornSoFar ==
  ASSUME FramingInv, within, torn, Received.length < PayloadMax
  PROVE  /\ done + bytes_to_read <= Received.length
         /\ \A i \in 0..(done + bytes_to_read - 1) :
              Received.payload[Received.length - (done + bytes_to_read) + i] = <<message, i>>
<1>1. accumulating /\ Offset = command.length
  BY DEF FramingInv, Accumulated, Offset
<1>2. FramingType /\ done \in Nat
  BY DEF FramingInv, FramingType
<1>3. /\ Received.length = Offset + bytes_to_read /\ Kept = bytes_to_read
      /\ Offset < PayloadMax
      /\ Offset \in Nat /\ bytes_to_read \in Nat
  BY <1>2, ReceivedIsCommand, FramingAssumption
<1>4. /\ done <= Offset
      /\ \A i \in 0..(done - 1) : command.payload[Offset - done + i] = <<message, i>>
  BY <1>1, <1>3 DEF FramingInv, Accumulated
<1>5. ASSUME NEW i \in 0..(done + bytes_to_read - 1)
      PROVE  Received.payload[Received.length - (done + bytes_to_read) + i] = <<message, i>>
  <2> DEFINE k == Offset - done + i
  <2>1. /\ k \in 0..((Offset + Kept) - 1)
        /\ k = Received.length - (done + bytes_to_read) + i
    BY <1>2, <1>3, <1>4
  <2>2. Received.payload[k] = IF k < Offset THEN command.payload[k]
                              ELSE <<message, done + (k - Offset)>>
    BY <2>1, <1>2, ReceivedIsCommand DEF ReceivedByte
  <2>3. CASE k < Offset
    <3>1. i \in 0..(done - 1)
      BY <2>3, <1>2, <1>3
    <3> QED BY <3>1, <2>1, <2>2, <2>3, <1>4
  <2>4. CASE ~(k < Offset)
    <3>1. done + (k - Offset) = i
      BY <1>2, <1>3
    <3> QED BY <3>1, <2>1, <2>2, <2>4
  <2> QED BY <2>3, <2>4
<1> QED BY <1>2, <1>3, <1>4, <1>5

-----------------------------------------------------------------------------
\* The queue's elements stay intact when one is put or taken.
LEMMA PutIntact ==
  ASSUME FramingInv, NEW e \in Elements,
         IF e.torn THEN EndsWith(e.sent, e.last) ELSE IsMessage(e.sent, e.last),
         command_queue' = Append(command_queue, e)
  PROVE  FramesIntact' /\ command_queue' \in Seq(Elements)
<1>1. command_queue \in Seq(Elements)
  BY DEF FramingInv, FramingType
<1>2. /\ command_queue' \in Seq(Elements)
      /\ Len(command_queue') = Len(command_queue) + 1
      /\ \A k \in 1..Len(command_queue) : command_queue'[k] = command_queue[k]
      /\ command_queue'[Len(command_queue) + 1] = e
  BY <1>1
<1>3. ASSUME NEW k \in 1..Len(command_queue')
      PROVE  IF command_queue'[k].torn
             THEN EndsWith(command_queue'[k].sent, command_queue'[k].last)
             ELSE IsMessage(command_queue'[k].sent, command_queue'[k].last)
  <2>1. CASE k \in 1..Len(command_queue)
    BY <1>2, <2>1 DEF FramingInv, FramesIntact
  <2>2. CASE k = Len(command_queue) + 1
    BY <1>2, <2>2
  <2> QED BY <1>1, <1>2, <2>1, <2>2
<1> QED BY <1>2, <1>3 DEF FramesIntact, EndsWith, IsMessage

LEMMA TakeIntact ==
  ASSUME FramingInv, TakeCommand
  PROVE  FramesIntact' /\ command_queue' \in Seq(Elements)
<1>1. /\ command_queue \in Seq(Elements) /\ command_queue # << >>
      /\ command_queue' = Tail(command_queue)
  BY DEF FramingInv, FramingType, TakeCommand
<1>2. /\ command_queue' \in Seq(Elements)
      /\ Len(command_queue') = Len(command_queue) - 1
      /\ \A k \in 1..Len(command_queue') :
           k + 1 \in 1..Len(command_queue) /\ command_queue'[k] = command_queue[k + 1]
  BY <1>1
<1>3. ASSUME NEW k \in 1..Len(command_queue')
      PROVE  IF command_queue'[k].torn
             THEN EndsWith(command_queue'[k].sent, command_queue'[k].last)
             ELSE IsMessage(command_queue'[k].sent, command_queue'[k].last)
  BY <1>2 DEF FramingInv, FramesIntact
<1> QED BY <1>2, <1>3 DEF FramesIntact, EndsWith, IsMessage

LEMMA FramingInit == OutInit => FramingInv
<1> SUFFICES ASSUME OutInit PROVE FramingInv
  OBVIOUS
<1>1. message.id = 0 /\ command_queue \in Seq(Elements) /\ Len(command_queue) = 0
  BY DEF OutInit
<1>2. FramingType
  BY <1>1 DEF OutInit, FramingType
<1>3. Accumulated
  BY DEF OutInit, Accumulated
<1>4. FramesIntact
  BY <1>1 DEF FramesIntact
<1> QED BY <1>2, <1>3, <1>4 DEF FramingInv

\* A transfer either ends its message, which is put in the queue as it is, or adds
\* to what has accumulated of it.
LEMMA TransferInductive ==
  ASSUME FramingInv, OutCb
  PROVE  FramingInv'
<1> USE DEF FramingInv
<1>1. FramingType /\ within
  BY DEF OutCb
<1>2. /\ message' = message /\ done' = done + bytes_to_read /\ command' = Received
      /\ message \in Messages /\ message.length \in Nat /\ done \in Nat
  BY <1>1, FramingAssumption DEF OutCb, FramingType, Messages
<1>3. /\ bytes_to_read \in Nat /\ bytes_to_read <= message.length - done
      /\ bytes_to_read < Mps => bytes_to_read = message.length - done
      /\ Received \in Commands /\ Received.length \in 0..PayloadMax
  BY <1>1, ReceivedIsCommand, FramingAssumption
<1>4. CASE ShortEnds(bytes_to_read)
  <2> DEFINE e == [sent |-> Received, last |-> message, torn |-> torn]
  <2>1. /\ within' = FALSE /\ accumulating' = FALSE /\ torn' = FALSE
        /\ command_queue' = Append(command_queue, e)
    BY <1>4 DEF OutCb, Put
  <2>2. e \in Elements
    BY <1>1, <1>2, <1>3 DEF Elements, FramingType
  <2>3. done + bytes_to_read = message.length
    BY <1>2, <1>3, <1>4 DEF ShortEnds
  <2>6. IF e.torn THEN EndsWith(e.sent, e.last) ELSE IsMessage(e.sent, e.last)
    <3>1. CASE torn
      <4>1. ASSUME Received.length < PayloadMax
            PROVE  /\ message.length <= Received.length
                   /\ \A i \in 0..(message.length - 1) :
                        Received.payload[Received.length - message.length + i] = <<message, i>>
        <5>1. /\ done + bytes_to_read <= Received.length
              /\ \A i \in 0..(done + bytes_to_read - 1) :
                   Received.payload[Received.length - (done + bytes_to_read) + i]
                     = <<message, i>>
          BY <1>1, <3>1, <4>1, TornSoFar
        <5>2. done + bytes_to_read - 1 = message.length - 1
          BY <2>3, <1>2, <1>3
        <5> QED BY <5>1, <5>2, <2>3
      <4> QED BY <4>1, <3>1 DEF EndsWith
    <3>2. CASE ~torn
      BY <1>1, <2>3, <3>2, WholeSoFar DEF IsMessage
    <3> QED BY <3>1, <3>2
  <2>7. FramesIntact' /\ command_queue' \in Seq(Elements)
    BY <2>1, <2>2, <2>6, PutIntact
  <2>8. FramingType'
    <3>1. message'.id \in Nat /\ done' \in Nat
      BY <1>1, <1>2, <1>3 DEF FramingType
    <3> QED BY <3>1, <2>1, <2>7 DEF FramingType
  <2> QED BY <2>1, <2>7, <2>8 DEF Accumulated
<1>5. CASE ~ShortEnds(bytes_to_read)
  <2>1. /\ within' = within /\ accumulating' = TRUE /\ torn' = torn
        /\ command_queue' = command_queue
    BY <1>5 DEF OutCb
  <2>2. bytes_to_read = Mps
    BY <1>1, <1>3, <1>5, ReceivedIsCommand, FramingAssumption DEF ShortEnds
  <2>3. FramesIntact'
    BY <2>1 DEF FramesIntact, EndsWith, IsMessage
  <2>4. FramingType'
    <3>1. /\ message'.id \in Nat /\ message' \in Messages
          /\ done' \in Nat /\ done' <= message'.length
      BY <1>1, <1>2, <1>3 DEF FramingType
    <3>2. command' \in Commands
      BY <1>2, <1>3
    <3> QED BY <3>1, <3>2, <1>1, <2>1 DEF FramingType
  <2>5. ASSUME torn PROVE Accumulated'
    <3>1. ASSUME command'.length < PayloadMax
          PROVE  /\ done' <= command'.length
                 /\ \A i \in 0..(done' - 1) :
                      command'.payload[command'.length - done' + i] = <<message, i>>
      <4>1. done' - 1 = done + bytes_to_read - 1
        BY <1>2, <1>3
      <4> QED BY <1>1, <1>2, <2>5, <3>1, <4>1, TornSoFar
    <3> QED BY <1>2, <2>1, <2>5, <3>1 DEF Accumulated
  <2>6. ASSUME ~torn PROVE Accumulated'
    <3>1. done' > 0
      BY <1>2, <2>2, FramingAssumption
    <3> QED BY <1>1, <1>2, <2>1, <2>6, <3>1, WholeSoFar DEF Accumulated
  <2> QED BY <1>1, <2>1, <2>3, <2>4, <2>5, <2>6 DEF FramingType
<1> QED BY <1>4, <1>5

LEMMA FramingInductive == FramingInv /\ [OutNext]_framingVars => FramingInv'
<1> SUFFICES ASSUME FramingInv, [OutNext]_framingVars PROVE FramingInv'
  OBVIOUS
<1>1. ASSUME NEW n \in Lengths, NEW head \in Heads, HostSends(n, head)
      PROVE  FramingInv'
  <2>1. message' \in Messages /\ message'.length \in Nat /\ message'.id \in Nat
    BY <1>1, FramingAssumption DEF HostSends, Messages, FramingInv, FramingType
  <2>2. FramesIntact'
    BY <1>1 DEF HostSends, FramingInv, FramesIntact, EndsWith, IsMessage
  <2>3. FramingType'
    BY <1>1, <2>1 DEF HostSends, FramingInv, FramingType
  <2>4. Accumulated'
    BY <1>1 DEF HostSends, FramingInv, FramingType, Accumulated, Commands, CommandsOf
  <2> QED BY <2>2, <2>3, <2>4 DEF FramingInv
<1>2. CASE HostGivesUp
  <2>1. FramesIntact'
    BY <1>2 DEF HostGivesUp, FramingInv, FramesIntact, EndsWith, IsMessage
  <2>2. FramingType'
    BY <1>2 DEF HostGivesUp, FramingInv, FramingType
  <2>3. Accumulated'
    BY <1>2 DEF HostGivesUp, FramingInv, FramingType, Accumulated
  <2> QED BY <2>1, <2>2, <2>3 DEF FramingInv
<1>3. CASE OutCb
  BY <1>3, TransferInductive
<1>4. CASE TakeCommand
  <2>1. FramesIntact' /\ command_queue' \in Seq(Elements)
    BY <1>4, TakeIntact
  <2> QED BY <1>4, <2>1
          DEF TakeCommand, hostOutVars, FramingInv, FramingType, Accumulated
<1>5. CASE UNCHANGED framingVars
  BY <1>5 DEF framingVars, hostOutVars, FramingInv, FramingType, Accumulated,
              FramesIntact, EndsWith, IsMessage
<1> QED BY <1>1, <1>2, <1>3, <1>4, <1>5 DEF OutNext

\* crazyradio_out_cb(): whatever the sizes of the transfers, the buffer and the
\* messages, commands are the host's messages, and one given up spoils one command.
THEOREM Framing == OutSpec => []FramesIntact
<1>1. FramingInv => FramesIntact
  BY DEF FramingInv
<1> QED BY <1>1, FramingInit, FramingInductive, PTL DEF OutSpec

\* The data path drives the endpoint as OutFraming says.
LEMMA DataPathFrames == [DataNext]_dataVars => [OutNext]_framingVars
<1> SUFFICES ASSUME [DataNext]_dataVars PROVE [OutNext]_framingVars
  OBVIOUS
<1>1. CASE \E n \in Lengths, head \in Heads : HostMessage(n, head)
  BY <1>1 DEF HostMessage, OutNext
<1>2. CASE HostDies
  BY <1>2 DEF HostDies, OutNext
<1>3. CASE Transfer
  BY <1>3 DEF Transfer, OutNext
<1>4. CASE TakeNormal \/ TakeInline \/ TakeSniffer
  BY <1>4 DEF TakeNormal, TakeInline, TakeSniffer, Take, OutNext
<1>5. CASE UNCHANGED framingVars
  BY <1>5
<1>6. CASE \/ \E a \in Receivers, enabled \in BOOLEAN : Configure(a, enabled)
          \/ \E m \in {"normal", "inline", "sniffer"} : SetMode(m)
          \/ HostRead \/ SnifferEnd \/ SendCall \/ Radio \/ FirstSent \/ Sent
  BY <1>6 DEF Configure, SetMode, HostRead, SnifferEnd, SendCall, Radio, FirstSent, Sent
<1> QED BY <1>1, <1>2, <1>3, <1>4, <1>5, <1>6 DEF DataNext, UsbThread, dataVars

\* The framing holds in the whole data path: nothing the thread or the radio does
\* disturbs it.
THEOREM DataPathImplementsOut == DataSpec => OutSpec
  BY DataPathFrames, PTL DEF DataSpec, DataInit, OutSpec

-----------------------------------------------------------------------------
\* The link.  A packet on the air has the last number and the PID that goes with it;
\* a receiver that has heard this number has heard this packet.
ReceiverInv ==
  /\ numbered \in Nat /\ pid = numbered % 4
  /\ heard = [r \in Receivers |-> heard[r]]
  /\ passed = [r \in Receivers |-> passed[r]]
  /\ \A r \in Receivers :
       /\ heard[r].n \in Nat /\ passed[r].n \in Nat
       /\ passed[r].n <= heard[r].n /\ heard[r].n <= numbered
       /\ heard[r].n > 0 => heard[r].pid = (heard[r].n - 1) % 4

CallInv ==
  OnAir => /\ call.packet.n = numbered /\ numbered > 0
           /\ call.packet.pid = (numbered - 1) % 4
           /\ \A r \in Receivers : heard[r].n = numbered => heard[r] = call.packet

LinkInv == ReceiverInv /\ CallInv

\* What the data path asks of the link.
LinkNext ==
  \/ /\ \E address, enabled : Set(address, enabled)
     /\ UNCHANGED <<pid, call, outVars, numbered, receiverVars>>
  \/ \E length, address : SnifferSend(length, address)
  \/ \E length : SendPacket(length)
  \/ \E outcome : Try(outcome)
  \/ Stuck \/ SnifferSent
  \/ Return /\ UNCHANGED <<pid, addressVars, ack_enabled, outVars, numbered, receiverVars>>

LEMMA DataPathLinks == [DataNext]_dataVars => [LinkNext]_linkVars
<1> SUFFICES ASSUME [DataNext]_dataVars PROVE [LinkNext]_linkVars
  OBVIOUS
<1>1. CASE \E a \in Receivers, enabled \in BOOLEAN : Configure(a, enabled)
  BY <1>1 DEF Configure, LinkNext
<1>2. CASE TakeInline
  BY <1>2 DEF TakeInline, LinkNext
<1>3. CASE TakeSniffer
  BY <1>3, Zenon DEF TakeSniffer, LinkNext
<1>4. CASE SnifferEnd
  BY <1>4 DEF SnifferEnd, LinkNext
<1>5. CASE SendCall
  BY <1>5 DEF SendCall, LinkNext
<1>6. CASE Radio
  BY <1>6 DEF Radio, LinkNext
<1>7. CASE FirstSent
  BY <1>7 DEF FirstSent, LinkNext
<1>8. CASE Sent
  BY <1>8 DEF Sent, LinkNext
<1>9. CASE UNCHANGED linkVars
  BY <1>9
<1>10. CASE \/ \E n \in Lengths, head \in Heads : HostMessage(n, head)
            \/ \E m \in {"normal", "inline", "sniffer"} : SetMode(m)
            \/ HostDies \/ Transfer \/ HostRead \/ TakeNormal
  BY <1>10 DEF HostMessage, SetMode, HostDies, Transfer, HostRead, TakeNormal
<1> QED BY <1>1, <1>2, <1>3, <1>4, <1>5, <1>6, <1>7, <1>8, <1>9, <1>10
        DEF DataNext, UsbThread, dataVars

\* What hearing the packet on the air does to a receiver.
LEMMA HeardOnAir ==
  ASSUME LinkInv, OnAir, base0 \in Receivers, Heard(call.packet),
         UNCHANGED <<pid, numbered>>
  PROVE  /\ ReceiverInv'
         /\ \A r \in Receivers : heard'[r].n = numbered => heard'[r] = call.packet
         /\ \A r \in Receivers :
              /\ passed'[r] # passed[r] => passed'[r].n > passed[r].n
              /\ heard'[r].n > heard[r].n /\ passed'[r] = passed[r] =>
                   (heard'[r].n - heard[r].n) % 4 = 0
<1> DEFINE p == call.packet
<1>1. /\ p.n = numbered /\ numbered \in Nat /\ numbered > 0
      /\ p.pid = (numbered - 1) % 4
      /\ \A r \in Receivers : heard[r].n = numbered => heard[r] = p
  BY DEF LinkInv, CallInv, ReceiverInv
<1>2. /\ heard' = [heard EXCEPT ![base0] = p]
      /\ passed' = IF SamePacket(p, heard[base0]) THEN passed
                   ELSE [passed EXCEPT ![base0] = p]
  BY DEF Heard
<1> HIDE DEF p
<1>3. /\ heard'[base0] = p
      /\ passed'[base0] = IF SamePacket(p, heard[base0]) THEN passed[base0] ELSE p
      /\ \A r \in Receivers \ {base0} : heard'[r] = heard[r] /\ passed'[r] = passed[r]
      /\ heard' = [r \in Receivers |-> heard'[r]]
      /\ passed' = [r \in Receivers |-> passed'[r]]
  BY <1>2 DEF LinkInv, ReceiverInv
<1>4. /\ heard[base0].n \in Nat /\ passed[base0].n \in Nat
      /\ passed[base0].n <= heard[base0].n /\ heard[base0].n <= numbered
      /\ heard[base0].n > 0 => heard[base0].pid = (heard[base0].n - 1) % 4
  BY DEF LinkInv, ReceiverInv
<1>5. heard[base0].n = numbered => SamePacket(p, heard[base0])
  BY <1>1, <1>4 DEF SamePacket
<1>6. passed'[base0] # passed[base0] => passed'[base0].n > passed[base0].n
  BY <1>1, <1>3, <1>4, <1>5
<1>7. ASSUME p.n > heard[base0].n, passed'[base0] = passed[base0]
      PROVE  (p.n - heard[base0].n) % 4 = 0
  <2>1. p # passed[base0]
    BY <1>1, <1>4, <1>7
  <2>2. heard[base0].n > 0 /\ (numbered - 1) % 4 = (heard[base0].n - 1) % 4
    BY <1>1, <1>3, <1>4, <1>7, <2>1 DEF SamePacket
  <2>3. \A a, b \in Nat : a > 0 /\ b > 0 /\ (a - 1) % 4 = (b - 1) % 4 => (a - b) % 4 = 0
    OBVIOUS
  <2> QED BY <1>1, <1>4, <2>2, <2>3
<1>8. ReceiverInv'
  BY <1>1, <1>3, <1>4 DEF LinkInv, ReceiverInv
<1> QED BY <1>1, <1>3, <1>6, <1>7, <1>8 DEF LinkInv, ReceiverInv, p

LEMMA LinkInitially == LinkInit => LinkInv
  BY DEF LinkInit, LinkInv, ReceiverInv, CallInv, OnAir, NoCall, NoPacket

\* Handing the driver a packet numbers it.
LEMMA NumberInductive ==
  ASSUME LinkInv, Number, NEW length, UNCHANGED receiverVars, call'.packet = Numbered(length)
  PROVE  LinkInv'
<1>1. /\ numbered \in Nat /\ numbered' = numbered + 1 /\ pid = numbered % 4
      /\ pid' = (pid + 1) % 4
      /\ heard' = heard /\ passed' = passed
  BY DEF LinkInv, ReceiverInv, Number, NextPid, receiverVars
<1>2. pid' = numbered' % 4
  <2>1. \A a \in Nat : ((a % 4) + 1) % 4 = (a + 1) % 4
    OBVIOUS
  <2> QED BY <1>1, <2>1
<1>3. /\ call'.packet.n = numbered' /\ numbered' > 0
      /\ call'.packet.pid = (numbered' - 1) % 4
  BY <1>1 DEF Numbered
<1>4. ReceiverInv'
  BY <1>1, <1>2 DEF LinkInv, ReceiverInv
<1>5. \A r \in Receivers : heard'[r].n # numbered'
  BY <1>1 DEF LinkInv, ReceiverInv
<1> QED BY <1>3, <1>4, <1>5 DEF LinkInv, CallInv

StepInOrder ==
  \A r \in Receivers : passed'[r] # passed[r] => passed'[r].n > passed[r].n
StepAtWrap ==
  \A r \in Receivers :
    heard'[r].n > heard[r].n /\ passed'[r] = passed[r] =>
      (heard'[r].n - heard[r].n) % 4 = 0

\* A step that leaves the receivers alone.
LEMMA NothingHeard == LinkInv /\ UNCHANGED receiverVars => StepInOrder /\ StepAtWrap
  BY DEF receiverVars, StepInOrder, StepAtWrap, LinkInv, ReceiverInv

LEMMA LinkStep == LinkInv /\ [LinkNext]_linkVars => LinkInv' /\ StepInOrder /\ StepAtWrap
<1> SUFFICES ASSUME LinkInv, [LinkNext]_linkVars PROVE LinkInv' /\ StepInOrder /\ StepAtWrap
  OBVIOUS
<1>1. CASE /\ \E address, enabled : Set(address, enabled)
           /\ UNCHANGED <<pid, call, outVars, numbered, receiverVars>>
  <2>1. LinkInv'
    BY <1>1 DEF LinkInv, ReceiverInv, CallInv, OnAir, receiverVars
  <2> QED BY <1>1, <2>1, NothingHeard
<1>2. ASSUME NEW length, NEW address, SnifferSend(length, address)
      PROVE  LinkInv' /\ StepInOrder /\ StepAtWrap
  <2>1. /\ Number /\ UNCHANGED receiverVars /\ call'.packet = Numbered(length)
    BY <1>2 DEF SnifferSend
  <2> QED BY <2>1, NumberInductive, NothingHeard
<1>3. ASSUME NEW length, SendPacket(length)
      PROVE  LinkInv' /\ StepInOrder /\ StepAtWrap
  <2>1. UNCHANGED receiverVars
    BY <1>3 DEF SendPacket
  <2>2. CASE call' = [at |-> "returned", acked |-> FALSE] /\ UNCHANGED <<pid, numbered>>
    <3>1. LinkInv'
      BY <2>1, <2>2 DEF LinkInv, ReceiverInv, CallInv, OnAir, receiverVars
    <3> QED BY <2>1, <3>1, NothingHeard
  <2>3. CASE /\ call' = [at |-> "try", packet |-> Numbered(length), tries |-> 0]
             /\ Number
    <3>1. call'.packet = Numbered(length)
      BY <2>3
    <3> QED BY <2>1, <2>3, <3>1, NumberInductive, NothingHeard
  <2> QED BY <1>3, <2>2, <2>3 DEF SendPacket
<1>4. ASSUME NEW outcome, Try(outcome)
      PROVE  LinkInv' /\ StepInOrder /\ StepAtWrap
  <2>1. /\ OnAir /\ UNCHANGED <<pid, numbered>>
        /\ OnAir' => call'.packet = call.packet
    <3>1. call'.at = "returned" \/ call' = [call EXCEPT !.tries = @ + 1]
      <4>1. \/ \E acked : call' = [at |-> "returned", acked |-> acked]
            \/ call' = SameRetry([call EXCEPT !.tries = @ + 1])
        BY <1>4, Zenon DEF Try
      <4> QED BY <4>1 DEF SameRetry
    <3>2. call' = [call EXCEPT !.tries = @ + 1] => call'.packet = call.packet
      OBVIOUS
    <3> QED BY <1>4, <3>1, <3>2 DEF Try, OnAir
  <2>2. CASE UNCHANGED receiverVars
    <3>1. LinkInv'
      BY <2>1, <2>2 DEF LinkInv, ReceiverInv, CallInv, receiverVars
    <3> QED BY <2>2, <3>1, NothingHeard
  <2>3. CASE base0 \in Receivers /\ Heard(call.packet)
    <3>1. /\ ReceiverInv' /\ StepInOrder /\ StepAtWrap
          /\ \A r \in Receivers : heard'[r].n = numbered => heard'[r] = call.packet
      BY <2>1, <2>3, HeardOnAir DEF StepInOrder, StepAtWrap
    <3>2. CallInv'
      BY <2>1, <3>1 DEF LinkInv, CallInv
    <3> QED BY <3>1, <3>2 DEF LinkInv
  <2>4. UNCHANGED receiverVars \/ (base0 \in Receivers /\ Heard(call.packet))
    BY <1>4 DEF Try, Outcomes
  <2> QED BY <2>2, <2>3, <2>4
<1>5. CASE Stuck \/ SnifferSent
  <2>1. /\ OnAir /\ ~OnAir' /\ UNCHANGED <<pid, numbered>>
        /\ UNCHANGED receiverVars \/ (base0 \in Receivers /\ Heard(call.packet))
    BY <1>5 DEF Stuck, SnifferSent, OnAir, NoCall
  <2>2. CASE UNCHANGED receiverVars
    <3>1. LinkInv'
      BY <2>1, <2>2 DEF LinkInv, ReceiverInv, CallInv, receiverVars
    <3> QED BY <2>2, <3>1, NothingHeard
  <2>3. CASE base0 \in Receivers /\ Heard(call.packet)
    <3>1. ReceiverInv' /\ StepInOrder /\ StepAtWrap
      BY <2>1, <2>3, HeardOnAir DEF StepInOrder, StepAtWrap
    <3> QED BY <2>1, <3>1 DEF LinkInv, CallInv
  <2> QED BY <2>1, <2>2, <2>3
<1>6. CASE /\ Return
           /\ UNCHANGED <<pid, addressVars, ack_enabled, outVars, numbered, receiverVars>>
  <2>1. LinkInv'
    BY <1>6 DEF Return, NoCall, LinkInv, ReceiverInv, CallInv, OnAir, receiverVars
  <2> QED BY <1>6, <2>1, NothingHeard
<1>7. CASE UNCHANGED linkVars
  <2>1. LinkInv'
    BY <1>7 DEF linkVars, LinkInv, ReceiverInv, CallInv, OnAir, receiverVars
  <2> QED BY <1>7, <2>1, NothingHeard DEF linkVars
<1> QED BY <1>1, <1>2, <1>3, <1>4, <1>5, <1>6, <1>7 DEF LinkNext

\* esb_send_packet()'s retries: a receiver passes each packet on at most once and in
\* the order of sending, for any number of receivers, retries and losses.
THEOREM EachPassedOnceInOrder == DataSpec => PassedInOrder
<1>1. DataInit => LinkInv
  BY LinkInitially DEF DataInit
<1>2. LinkInv /\ [DataNext]_dataVars => LinkInv' /\ [StepInOrder]_linkVars
  BY DataPathLinks, LinkStep
<1>3. [StepInOrder]_linkVars =>
        [\A r \in Receivers : passed'[r] # passed[r] => passed'[r].n > passed[r].n]_linkVars
  BY DEF StepInOrder
<1> QED BY <1>1, <1>2, <1>3, PTL DEF DataSpec, PassedInOrder

\* The two-bit PID loses a new packet only after a multiple of four packets.
THEOREM LossOnlyAtWrap == DataSpec => SwallowedOnlyAtWrap
<1>1. DataInit => LinkInv
  BY LinkInitially DEF DataInit
<1>2. LinkInv /\ [DataNext]_dataVars => LinkInv' /\ [StepAtWrap]_linkVars
  BY DataPathLinks, LinkStep
<1>3. [StepAtWrap]_linkVars =>
        [\A r \in Receivers :
           heard'[r].n > heard[r].n /\ passed'[r] = passed[r] =>
             (heard'[r].n - heard[r].n) % 4 = 0]_linkVars
  BY DEF StepAtWrap
<1> QED BY <1>1, <1>2, <1>3, PTL DEF DataSpec, SwallowedOnlyAtWrap
=============================================================================
