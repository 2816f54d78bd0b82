---------------------------- MODULE AnswerProofs ----------------------------
(***************************************************************************)
(* Proof that an answer that says acked is the wanted receiver's ack of    *)
(* the host's last packet (OwnAnswer), for all sizes, receivers, retry     *)
(* counts and losses.  It takes four facts: the driver's calls and the     *)
(* thread keep step (FlowInv), an answered message is alone in the data    *)
(* path (Alone), the address on the air is the one the message was meant   *)
(* for (Addressed), and an acked call has its own ack (AckedInv).          *)
(***************************************************************************)
EXTENDS DataPathProofs

FlowInv ==
  /\ mode \in {"normal", "inline", "sniffer"}
  /\ pc \in {"top", "first", "send", "sniffer"}
  /\ call.at \in {"none", "try", "sniffer", "returned"}
  /\ call.at \in {"try", "returned"} => pc \in {"first", "send"}
  /\ call.at = "sniffer" => pc = "sniffer" /\ call.saved = current_pipe0_address
  /\ pc = "sniffer" => call.at = "sniffer"
  /\ pc = "first" => mode = "normal"
  /\ pc = "send" => mode # "sniffer"

Answered == mode = "inline" \/ (mode = "normal" /\ ack_enabled)
NothingUnderWay == ~within /\ command_queue = << >> /\ pc = "top"

Alone ==
  /\ ~Answered => in_ep = Empty /\ ~awaiting
  /\ Answered =>
       /\ ~awaiting => NothingUnderWay /\ in_ep = Empty
       /\ in_ep # Empty => NothingUnderWay
       /\ command_queue # << >> => ~within /\ pc = "top" /\ Tail(command_queue) = << >>
       /\ pc # "top" => ~within /\ command_queue = << >>

Addressed ==
  /\ call.at # "sniffer" => base0 = current_pipe0_address
  /\ mode = "normal" =>
       /\ within => message.head.to = current_pipe0_address
       /\ \A k \in 1..Len(command_queue) :
            command_queue[k].last.head.to = current_pipe0_address
       /\ pc # "top" => item.last.head.to = current_pipe0_address
  /\ mode = "inline" /\ pc # "top" /\ ~item.torn => item.last.head.to = base0

AckedInv ==
  /\ call.at = "try" => call.tries \in 0..Arc
  /\ call.at = "returned" /\ call.acked =>
       /\ ack.length = 1 /\ ack.data = [by |-> base0, n |-> numbered]
       /\ heard[base0].n = numbered /\ retry \in 0..Arc

-----------------------------------------------------------------------------
LEMMA FlowInit == DataInit => FlowInv /\ Alone /\ Addressed /\ AckedInv /\ OwnAnswer
  BY DEF DataInit, OutInit, LinkInit, FlowInv, Alone, Addressed, AckedInv, OwnAnswer,
         Answered, NothingUnderWay, NoCall, Empty

\* What a try does to the call.
LEMMA TryStep ==
  ASSUME NEW outcome, Try(outcome)
  PROVE  /\ call.at = "try" /\ call'.at \in {"try", "returned"}
         /\ UNCHANGED <<pid, addressVars, ack_enabled, numbered>>
         /\ call'.at = "try" =>
              call.tries # Arc /\ call' = [call EXCEPT !.tries = @ + 1]
         /\ call'.at = "returned" /\ call'.acked =>
              outcome = "ack" /\ retry' = call.tries
<1> DEFINE over == AckReceived(outcome) \/ ~ack_enabled \/ call.tries = Arc
<1>1. /\ call.at = "try" /\ UNCHANGED <<pid, addressVars, ack_enabled, numbered>>
      /\ over => /\ retry' = call.tries
                 /\ \E acked \in {AckReceived(outcome)} \cup IF AckLoss THEN {FALSE} ELSE {} :
                      call' = [at |-> "returned", acked |-> acked]
      /\ ~over => call' = [call EXCEPT !.tries = @ + 1]
  BY Zenon DEF Try, SameRetry
<1>2. CASE over
  <2>1. PICK acked \in {AckReceived(outcome)} \cup IF AckLoss THEN {FALSE} ELSE {} :
          call' = [at |-> "returned", acked |-> acked]
    BY <1>1, <1>2
  <2>2. call'.at = "returned" /\ call'.acked = acked /\ (acked => AckReceived(outcome))
    BY <2>1
  <2> QED BY <1>1, <1>2, <2>2 DEF AckReceived
<1>3. CASE ~over
  <2>1. call' = [call EXCEPT !.tries = @ + 1]
    BY <1>1, <1>3
  <2>2. call' = [call EXCEPT !.tries = @ + 1] => call'.at = call.at
    OBVIOUS
  <2> QED BY <1>1, <1>3, <2>1, <2>2
<1> QED BY <1>2, <1>3

LEMMA FlowStep == FlowInv /\ Addressed /\ [DataNext]_dataVars => FlowInv'
<1> SUFFICES ASSUME FlowInv, Addressed, [DataNext]_dataVars PROVE FlowInv'
  OBVIOUS
<1> USE DEF FlowInv
<1>1. CASE \E a \in Receivers, enabled \in BOOLEAN : Configure(a, enabled)
  BY <1>1 DEF Configure, Settled, NoCall, threadVars
<1>2. CASE \E m \in {"normal", "inline", "sniffer"} : SetMode(m)
  BY <1>2 DEF SetMode, Settled, threadVars, linkVars, addressVars, NoCall
<1>3. CASE \/ \E n \in Lengths, head \in Heads : HostMessage(n, head)
           \/ HostDies \/ Transfer \/ HostRead
  BY <1>3 DEF HostMessage, HostDies, Transfer, HostRead, threadVars, linkVars, addressVars
<1>4. CASE TakeNormal
  BY <1>4 DEF TakeNormal, Take, linkVars, addressVars
<1>5. CASE TakeInline
  BY <1>5 DEF TakeInline, Take
<1>6. CASE TakeSniffer
  BY <1>6 DEF TakeSniffer, Take, SnifferSend, linkVars, addressVars
<1>7. CASE SnifferEnd
  BY <1>7 DEF SnifferEnd, SnifferSent, NoCall
<1>8. CASE SendCall
  BY <1>8 DEF SendCall, SendPacket, NoCall, addressVars
<1>9. CASE Radio
  <2>1. call'.at \in {"try", "returned"} /\ call.at = "try"
    <3>1. CASE Stuck
      BY <3>1 DEF Stuck
    <3> QED BY <1>9, <3>1, TryStep DEF Radio
  <2>2. UNCHANGED <<mode, pc, current_pipe0_address>>
    BY <1>9, Zenon DEF Radio, threadVars, Stuck, Try, addressVars
  <2> QED BY <2>1, <2>2
<1>10. CASE FirstSent \/ Sent
  BY <1>10 DEF FirstSent, Sent, Return, NoCall
<1>11. CASE UNCHANGED dataVars
  BY <1>11 DEF dataVars, linkVars, addressVars, threadVars
<1> QED BY <1>1, <1>2, <1>3, <1>4, <1>5, <1>6, <1>7, <1>8, <1>9, <1>10, <1>11
        DEF DataNext, UsbThread

LEMMA AloneStep == FramingInv /\ FlowInv /\ Alone /\ [DataNext]_dataVars => Alone'
<1> SUFFICES ASSUME FramingInv, FlowInv, Alone, [DataNext]_dataVars PROVE Alone'
  OBVIOUS
<1> USE DEF Alone, Answered, NothingUnderWay
<1>1. CASE \E a \in Receivers, enabled \in BOOLEAN : Configure(a, enabled)
  BY <1>1 DEF Configure, Settled, framingVars, hostOutVars, threadVars
<1>2. CASE \E m \in {"normal", "inline", "sniffer"} : SetMode(m)
  <2>1. ~within' /\ command_queue' = << >> /\ pc' = "top" /\ ~awaiting' /\ in_ep' = Empty
    BY <1>2 DEF SetMode, Settled, framingVars, hostOutVars, threadVars
  <2> QED BY <2>1
<1>3. CASE \E n \in Lengths, head \in Heads : HostMessage(n, head)
  <2>1. /\ ~awaiting /\ awaiting' <=> Answered
        /\ UNCHANGED <<command_queue, mode, ack_enabled, pc, in_ep>>
    BY <1>3, Zenon DEF HostMessage, HostSends, threadVars, linkVars
  <2> QED BY <2>1
<1>4. CASE HostDies
  BY <1>4 DEF HostDies, HostGivesUp, threadVars, linkVars
<1>5. CASE Transfer
  <2>1. UNCHANGED <<linkVars, mode, awaiting, threadVars, in_ep>> /\ within
    BY <1>5 DEF Transfer, OutCb
  <2>2. CASE UNCHANGED <<within, command_queue>>
    BY <2>1, <2>2 DEF threadVars, linkVars
  <2>3. ASSUME NEW e, within' = FALSE, command_queue' = Append(command_queue, e)
        PROVE  Alone'
    <3>1. Answered => command_queue = << >>
      BY <2>1
    <3>2. Answered => Tail(command_queue') = << >>
      BY <2>3, <3>1
    <3> QED BY <2>1, <2>3, <3>2 DEF threadVars, linkVars
  <2> QED BY <1>5, <2>2, <2>3 DEF Transfer, OutCb, Put
<1>6. CASE HostRead
  BY <1>6 DEF HostRead, framingVars, hostOutVars, threadVars, linkVars
<1>7. CASE TakeNormal
  BY <1>7 DEF TakeNormal, Take, TakeCommand, hostOutVars, linkVars
<1>8. CASE TakeInline
  BY <1>8 DEF TakeInline, Take, TakeCommand, hostOutVars, linkVars
<1>9. CASE TakeSniffer
  BY <1>9 DEF TakeSniffer, Take, linkVars
<1>10. CASE SnifferEnd
  BY <1>10 DEF SnifferEnd, SnifferSent, framingVars, hostOutVars, FlowInv
<1>11. CASE SendCall
  BY <1>11, Zenon DEF SendCall, SendPacket, framingVars, hostOutVars
<1>12. CASE Radio
  <2>1. UNCHANGED <<within, command_queue, mode, awaiting, pc, in_ep, ack_enabled>>
    <3>1. UNCHANGED ack_enabled
      BY <1>12, TryStep, Zenon DEF Radio, Stuck
    <3> QED BY <1>12, <3>1 DEF Radio, framingVars, hostOutVars, threadVars
  <2> QED BY <2>1
<1>13. CASE FirstSent
  BY <1>13 DEF FirstSent, framingVars, hostOutVars
<1>14. CASE Sent
  BY <1>14 DEF Sent, Answers, FlowInv, framingVars, hostOutVars
<1>15. CASE UNCHANGED dataVars
  BY <1>15 DEF dataVars, framingVars, hostOutVars, linkVars, threadVars
<1> QED BY <1>1, <1>2, <1>3, <1>4, <1>5, <1>6, <1>7, <1>8, <1>9, <1>10, <1>11, <1>12,
           <1>13, <1>14, <1>15
        DEF DataNext, UsbThread

\* The address follows the settings, the header or the sniffer's broadcast, which
\* puts it back.
LEMMA AddressedStep ==
  FramingInv /\ FlowInv /\ Addressed /\ [DataNext]_dataVars => Addressed'
<1> SUFFICES ASSUME FramingInv, FlowInv, Addressed, [DataNext]_dataVars PROVE Addressed'
  OBVIOUS
<1> USE DEF Addressed
<1>1. ASSUME ~within', command_queue' = << >>, pc' = "top",
             call'.at # "sniffer" => base0' = current_pipe0_address'
      PROVE  Addressed'
  BY <1>1
<1>2. CASE \E a \in Receivers, enabled \in BOOLEAN : Configure(a, enabled)
  <2>1. base0' = current_pipe0_address'
    BY <1>2 DEF Configure, Set
  <2> QED BY <1>1, <1>2, <2>1 DEF Configure, Settled, framingVars, hostOutVars, threadVars
<1>3. CASE \E m \in {"normal", "inline", "sniffer"} : SetMode(m)
  BY <1>1, <1>3 DEF SetMode, Settled, framingVars, hostOutVars, threadVars, linkVars,
                    addressVars
<1>4. ASSUME NEW n \in Lengths, NEW head \in Heads, HostMessage(n, head)
      PROVE  Addressed'
  <2>1. /\ message'.head = head
        /\ mode = "normal" => head.to = current_pipe0_address
    BY <1>4 DEF HostMessage, HostSends, Lawful
  <2>2. UNCHANGED <<command_queue, linkVars, mode, threadVars>>
    BY <1>4 DEF HostMessage, HostSends
  <2> QED BY <2>1, <2>2 DEF linkVars, addressVars, threadVars
<1>5. CASE HostDies
  <2>1. UNCHANGED <<message, command_queue, linkVars, mode, threadVars>> /\ ~within'
    BY <1>5 DEF HostDies, HostGivesUp
  <2> QED BY <2>1 DEF linkVars, addressVars, threadVars
<1>6. CASE Transfer
  <2>1. /\ UNCHANGED <<message, linkVars, mode, threadVars>> /\ within
        /\ \/ UNCHANGED <<within, command_queue>>
           \/ ~within' /\ Put(Received)
    BY <1>6 DEF Transfer, OutCb
  <2>2. CASE UNCHANGED <<within, command_queue>>
    BY <2>1, <2>2 DEF linkVars, addressVars, threadVars
  <2>3. ASSUME NEW e, e.last = message, command_queue' = Append(command_queue, e), ~within'
        PROVE  Addressed'
    <3>1. command_queue \in Seq(Elements)
      BY DEF FramingInv, FramingType
    <3>2. ASSUME NEW k \in 1..Len(command_queue')
          PROVE  \/ k \in 1..Len(command_queue) /\ command_queue'[k] = command_queue[k]
                 \/ command_queue'[k] = e
      BY <2>3, <3>1
    <3>3. mode' = "normal" =>
            \A k \in 1..Len(command_queue') :
              command_queue'[k].last.head.to = current_pipe0_address'
      BY <2>1, <2>3, <3>2 DEF linkVars, addressVars
    <3> QED BY <2>1, <2>3, <3>3 DEF linkVars, addressVars, threadVars
  <2> QED BY <2>1, <2>2, <2>3 DEF Put
<1>7. CASE HostRead
  BY <1>7 DEF HostRead, framingVars, hostOutVars, threadVars, linkVars, addressVars
<1>8. CASE TakeNormal \/ TakeInline \/ TakeSniffer
  <2>1. /\ UNCHANGED <<message, within, mode>>
        /\ command_queue' = Tail(command_queue) /\ command_queue # << >>
        /\ command_queue \in Seq(Elements)
    BY <1>8 DEF TakeNormal, TakeInline, TakeSniffer, Take, TakeCommand, hostOutVars,
                FramingInv, FramingType
  <2>2. \A k \in 1..Len(command_queue') :
          k + 1 \in 1..Len(command_queue) /\ command_queue'[k] = command_queue[k + 1]
    BY <2>1
  <2>3. CASE TakeNormal
    <3>1. mode = "normal" /\ item' = command_queue[1] /\ UNCHANGED linkVars
      BY <2>1, <2>3 DEF TakeNormal, Take
    <3>2. 1 \in 1..Len(command_queue)
      BY <2>1
    <3> QED BY <2>1, <2>2, <3>1, <3>2 DEF linkVars, addressVars
  <2>4. CASE TakeInline
    <3>1. /\ mode = "inline" /\ item' = Head(command_queue) /\ UNCHANGED call
          /\ \E head \in HeadsOf(Head(command_queue)) : \E enabled : Set(head.to, enabled)
      BY <2>4, Zenon DEF TakeInline, Take
    <3>2. base0' = current_pipe0_address'
      BY <3>1 DEF Set
    <3>3. ~item'.torn => item'.last.head.to = base0'
      BY <3>1 DEF HeadsOf, Set
    <3> QED BY <2>1, <3>1, <3>2, <3>3
  <2>5. CASE TakeSniffer
    <3>1. mode = "sniffer" /\ (UNCHANGED linkVars \/ call'.at = "sniffer")
      BY <2>5 DEF TakeSniffer, SnifferSend
    <3> QED BY <2>1, <3>1 DEF linkVars, addressVars
  <2> QED BY <1>8, <2>3, <2>4, <2>5
<1>9. CASE SnifferEnd
  <2>1. base0' = current_pipe0_address'
    BY <1>9 DEF SnifferEnd, SnifferSent, Restored, FlowInv
  <2>2. UNCHANGED <<message, within, command_queue, mode, current_pipe0_address>> /\ pc' = "top"
    BY <1>9 DEF SnifferEnd, SnifferSent, framingVars, hostOutVars
  <2> QED BY <2>1, <2>2
<1>10. CASE SendCall
  BY <1>10 DEF SendCall, SendPacket, framingVars, hostOutVars, addressVars, NoCall
<1>11. CASE Radio
  <2>1. UNCHANGED addressVars /\ call.at = "try"
    BY <1>11, TryStep, Zenon DEF Radio, Stuck
  <2>2. UNCHANGED <<message, within, command_queue, mode, pc, item>>
    BY <1>11 DEF Radio, framingVars, hostOutVars, threadVars
  <2> QED BY <2>1, <2>2 DEF addressVars
<1>12. CASE FirstSent \/ Sent
  BY <1>12 DEF FirstSent, Sent, Return, framingVars, hostOutVars, addressVars
<1>13. CASE UNCHANGED dataVars
  BY <1>13 DEF dataVars, framingVars, hostOutVars, linkVars, addressVars, threadVars
<1> QED BY <1>2, <1>3, <1>4, <1>5, <1>6, <1>7, <1>8, <1>9, <1>10, <1>11, <1>12, <1>13
        DEF DataNext, UsbThread

\* An acked call's ack stays what it was until the thread has read it.
LEMMA AckedStep ==
  LinkInv /\ FlowInv /\ AckedInv /\ [DataNext]_dataVars => AckedInv'
<1> SUFFICES ASSUME LinkInv, FlowInv, AckedInv, [DataNext]_dataVars PROVE AckedInv'
  OBVIOUS
<1> USE DEF AckedInv
<1>1. CASE UNCHANGED <<call, ack, retry, base0, numbered, heard>>
  BY <1>1
<1>2. CASE call' = NoCall
  BY <1>2 DEF NoCall
<1>3. CASE \E a \in Receivers, enabled \in BOOLEAN : Configure(a, enabled)
  BY <1>3 DEF Configure, Settled, NoCall
<1>4. CASE TakeInline
  <2>1. call' = call /\ call.at \notin {"try", "returned"}
    BY <1>4 DEF TakeInline, FlowInv
  <2> QED BY <2>1
<1>5. CASE TakeSniffer
  <2>1. UNCHANGED linkVars \/ call'.at = "sniffer"
    BY <1>5 DEF TakeSniffer, SnifferSend
  <2> QED BY <1>1, <2>1 DEF linkVars, outVars, addressVars, receiverVars
<1>6. CASE SendCall
  <2>1. \/ call'.at = "returned" /\ ~call'.acked
        \/ call'.at = "try" /\ call'.tries = 0
    BY <1>6 DEF SendCall, SendPacket
  <2> QED BY <2>1, LinkAssumption
<1>7. ASSUME NEW outcome, Try(outcome)
      PROVE  AckedInv'
  <2>1. CASE call'.at = "try"
    <3>1. /\ call.at = "try" /\ call.tries # Arc
          /\ call' = [call EXCEPT !.tries = @ + 1]
      BY <1>7, <2>1, TryStep
    <3>2. [call EXCEPT !.tries = @ + 1].tries \in {call.tries + 1, call.tries}
      OBVIOUS
    <3> QED BY <2>1, <3>1, <3>2, LinkAssumption
  <2>2. CASE call'.at = "returned" /\ call'.acked
    <3>1. /\ outcome = "ack" /\ retry' = call.tries /\ call.tries \in 0..Arc
          /\ UNCHANGED <<base0, numbered>> /\ call.at = "try"
      BY <1>7, <2>2, TryStep DEF addressVars
    <3>2. /\ ack' = [length |-> 1, data |-> [by |-> base0, n |-> call.packet.n]]
          /\ Heard(call.packet) /\ base0 \in Receivers
      BY <1>7, <3>1 DEF Try, Outcomes
    <3>3. call.packet.n = numbered
      BY <3>1 DEF LinkInv, CallInv, OnAir
    <3>4. heard'[base0] = call.packet
      BY <3>2 DEF Heard, LinkInv, ReceiverInv
    <3> QED BY <2>2, <3>1, <3>2, <3>3, <3>4
  <2> QED BY <1>7, <2>1, <2>2, TryStep
<1>8. CASE Stuck
  BY <1>8 DEF Stuck
<1>9. CASE \/ \E n \in Lengths, head \in Heads : HostMessage(n, head)
           \/ \E m \in {"normal", "inline", "sniffer"} : SetMode(m)
           \/ HostDies \/ Transfer \/ HostRead \/ TakeNormal \/ UNCHANGED dataVars
  <2>1. UNCHANGED linkVars
    BY <1>9 DEF HostMessage, SetMode, HostDies, Transfer, HostRead, TakeNormal, dataVars
  <2> QED BY <1>1, <2>1 DEF linkVars, outVars, addressVars, receiverVars
<1>10. CASE SnifferEnd \/ FirstSent \/ Sent
  BY <1>2, <1>10 DEF SnifferEnd, SnifferSent, FirstSent, Sent, Return
<1> QED BY <1>3, <1>4, <1>5, <1>6, <1>7, <1>8, <1>9, <1>10 DEF DataNext, UsbThread, Radio

\* Nothing is sent while the host has an answer to read.
LEMMA OwnAnswerStep ==
  ASSUME FlowInv, Alone, Addressed, AckedInv, OwnAnswer, [DataNext]_dataVars
  PROVE  OwnAnswer'
<1>1. CASE Sent
  <2>1. pc = "send" /\ mode # "sniffer" /\ call.at = "returned"
    BY <1>1 DEF Sent, Return, FlowInv
  <2>2. UNCHANGED <<base0, numbered, heard>>
    BY <1>1 DEF Sent, addressVars, receiverVars
  <2>3. in_ep = Empty
    BY <2>1 DEF Alone, NothingUnderWay
  <2>4. in_ep' = Empty \/ (Answers /\ in_ep' = Answer)
    BY <1>1, <2>3 DEF Sent
  <2>5. ASSUME Answers, in_ep' = Answer, in_ep'.acked PROVE OwnAnswer'
    <3>1. /\ Answer.acked <=> call.acked
          /\ Answer.to = IF item.torn THEN base0 ELSE item.last.head.to
          /\ call.acked => /\ Answer.length = ack.length /\ Answer.data = ack.data
                           /\ Answer.retry = retry
      BY DEF Answer
    <3>2. item.torn \/ item.last.head.to = base0
      BY <2>1, <2>5 DEF Answers, Addressed, FlowInv
    <3>3. in_ep'.to = base0 /\ call.acked
      BY <2>5, <3>1, <3>2
    <3> QED BY <2>1, <2>2, <2>5, <3>1, <3>3 DEF OwnAnswer, AckedInv
  <2> QED BY <2>4, <2>5 DEF OwnAnswer
<1>2. CASE ~Sent
  <2>1. in_ep' = in_ep \/ in_ep' = Empty
    BY <1>2 DEF DataNext, UsbThread, Configure, SetMode, HostMessage, HostDies, Transfer,
                HostRead, TakeNormal, TakeInline, TakeSniffer, Take, SnifferEnd, SendCall,
                Radio, FirstSent, dataVars
  <2>2. ASSUME in_ep # Empty, in_ep' = in_ep
        PROVE  UNCHANGED <<numbered, heard>>
    <3>1. ~within /\ command_queue = << >> /\ pc = "top" /\ call.at = "none"
      BY <2>2 DEF Alone, NothingUnderWay, FlowInv
    <3> QED BY <1>2, <2>2, <3>1
            DEF DataNext, UsbThread, Configure, SetMode, Settled, HostMessage, HostDies,
                Transfer, HostRead, TakeNormal, TakeInline, TakeSniffer, SnifferEnd,
                SendCall, Radio, Stuck, Try, FirstSent, linkVars, receiverVars, dataVars
  <2> QED BY <2>1, <2>2 DEF OwnAnswer
<1> QED BY <1>1, <1>2

AnswerInv ==
  FramingInv /\ LinkInv /\ FlowInv /\ Alone /\ Addressed /\ AckedInv /\ OwnAnswer

\* An answer that says acked carries the ack the wanted receiver made for that very
\* packet, for any number of receivers, retries, losses and messages given up.
THEOREM AnswersAreOwn == DataSpec => []OwnAnswer
<1>1. DataInit => AnswerInv
  BY FlowInit, FramingInit, LinkInitially DEF AnswerInv, DataInit
<1>2. AnswerInv /\ [DataNext]_dataVars => AnswerInv'
  BY DataPathFrames, FramingInductive, DataPathLinks, LinkStep, FlowStep, AloneStep,
     AddressedStep, AckedStep, OwnAnswerStep DEF AnswerInv
<1>3. AnswerInv => OwnAnswer
  BY DEF AnswerInv
<1> QED BY <1>1, <1>2, <1>3, PTL DEF DataSpec
=============================================================================
