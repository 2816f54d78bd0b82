------------------------ MODULE LegacyUsbOrderProofs ------------------------
(***************************************************************************)
(* Proof that the two queues serve the host's requests and packets in the  *)
(* order it made them, each packet with the settings and modes the host    *)
(* had asked for by then, for every set of requests, packets and scans and *)
(* every length of the queues, as long as the host keeps to LawfulHost.    *)
(*                                                                         *)
(* Requests and packets wait in one line (ToDo): the one in the thread's   *)
(* hands, command_queue, and the one the USB stack is blocked on.  What    *)
(* the radio is set to and what the host believes it set differ while some *)
(* wait.  The invariant, OrderInv, relates the two by a chain of views     *)
(* along the line (Linked): the first is what is in force, each command    *)
(* turns the view before it into the one after it (After) and, if it is a  *)
(* packet, fits the view before it (Fits), and the last is what the host   *)
(* believes.  The rest of OrderInv is what keeps the chain whole: at most  *)
(* one answer on its way, as long as the host waits for one, and none      *)
(* behind a change to sniffer mode (Answering), the copies of a setting in *)
(* the thread, its state and the radio agree where the thread is past      *)
(* testing them (Control), and a scan runs alone (Scanning).               *)
(***************************************************************************)
EXTENDS LegacyUsbTypeProofs, SequenceTheorems

\* No host ever turns inline mode on.
NoInline == \A s \in Setups : s.request = "inline_mode" => ~s.value
\* Every rate asked for, by a request or in a header, is 2 Mbps.
OneRate ==
  /\ \A s \in Setups : s.request = "datarate" => s.value = 2
  /\ \A h \in Headers : h.datarate = 2

\* The host the firmware serves in order.  Each part leaves out a host that a run with
\* an expected violation shows, or that the code treats in a way no documentation
\* promises: one that reuses an IN transfer or scans before its commands are done
\* (usb_leftover, usb_scan_overtakes); a 16-bit channel, of which usb_thread() keeps
\* eight bits; a scan above channel 100, for which esb_set_channel() stays where it
\* was; and inline headers asking for another rate than the one in use, whose field
\* esb_set_bitrate() reads as another (InlineRate).  The hosts of usb_commands and usb_modes, without and with
\* inline mode, are lawful.
LawfulHost ==
  /\ CarefulHost
  /\ \A s \in Setups : s.request = "channel" => s.value \in 0..255
  /\ \A s \in Scans : s.stop \in 0..100
  /\ NoInline \/ OneRate

-----------------------------------------------------------------------------
\* What a command makes of the settings and modes.
SetAfter(w, s) ==
  CASE s.request = "channel" -> [w EXCEPT !.channel = s.value]
    [] s.request = "datarate" -> [w EXCEPT !.datarate = s.value]
    [] s.request = "ack_enable" -> [w EXCEPT !.ack = s.value]
    [] s.request \in {"address", "sniffer_address"} -> [w EXCEPT !.address = s.value]
    [] OTHER -> w
\* Whether inline and sniffer mode are on after a request.
InlineAfter(b, s) ==
  CASE s.request \in {"channel", "datarate", "ack_enable", "address"} -> FALSE
    [] s.request = "inline_mode" -> s.value
    [] s.request = "radio_mode" -> b /\ ~s.value
    [] OTHER -> b
SniffingAfter(b, s) == IF s.request = "radio_mode" THEN s.value ELSE b

\* The settings and modes a packet is sent with, as the driver holds them or as the
\* host believes them, and what a command makes of them.
View(w, i, n) == [set |-> w, inline |-> i, sniffing |-> n]
After(v, c) ==
  IF c.type = "data" THEN View(c.want, v.inline, v.sniffing)
  ELSE View(SetAfter(v.set, c.setup), InlineAfter(v.inline, c.setup),
            SniffingAfter(v.sniffing, c.setup))

\* What the host believes once all its commands are done.
HostView == View(host.set, host.inline, host.mode = "on")

\* A packet fits a view: it is what a host with that view submits.  One no answer is
\* awaited for has settings the radio can handle.
Fits(c, v) ==
  c.type = "data" =>
    /\ c.broadcast = v.sniffing
    /\ c.inline = (v.inline /\ ~v.sniffing)
    /\ c.inline \/ c.want = v.set
    /\ c.awaited = (~c.broadcast /\ (c.inline \/ c.want.ack))
    /\ c.awaited \/ Valid(c.want)
    /\ c.inline => OneRate /\ c.want.datarate = 2 /\ c.want.channel \in 0..255

\* The commands of q lead from view v to view w, and each packet fits its own.
Linked(q, v, w) ==
  \E S : /\ S[0] = v /\ S[Len(q)] = w
         /\ \A i \in 1..Len(q) : Fits(q[i], S[i - 1]) /\ S[i] = After(S[i - 1], q[i])

-----------------------------------------------------------------------------
\* No command, no change.
LEMMA LinkedEmpty ==
  ASSUME NEW v, NEW w
  PROVE  Linked(<< >>, v, w) <=> v = w
<1>1. ASSUME v = w PROVE Linked(<< >>, v, w)
  <2> DEFINE S == [i \in {0} |-> v]
  <2>1. S[0] = v /\ S[Len(<< >>)] = w
    BY <1>1
  <2>2. \A i \in 1..Len(<< >>) :
          Fits(<< >>[i], S[i - 1]) /\ S[i] = After(S[i - 1], << >>[i])
    OBVIOUS
  <2> QED BY <2>1, <2>2 DEF Linked
<1> QED BY <1>1 DEF Linked

\* A host that submits what fits its view moves its view on.
LEMMA LinkedAppend ==
  ASSUME NEW q \in Seq(Commands), NEW c \in Commands, NEW v, NEW w,
         Linked(q, v, w), Fits(c, w)
  PROVE  Linked(Append(q, c), v, After(w, c))
<1> PICK S : /\ S[0] = v /\ S[Len(q)] = w
             /\ \A i \in 1..Len(q) : Fits(q[i], S[i - 1]) /\ S[i] = After(S[i - 1], q[i])
  BY DEF Linked
<1> DEFINE n == Len(q)
           T == [i \in 0..(n + 1) |-> IF i = n + 1 THEN After(w, c) ELSE S[i]]
           r == Append(q, c)
<1>1. n \in Nat /\ Len(r) = n + 1 /\ r[n + 1] = c /\ \A i \in 1..n : r[i] = q[i]
  BY AppendProperties
<1>2. T[0] = v /\ T[Len(r)] = After(w, c)
  BY <1>1
<1>3. ASSUME NEW i \in 1..Len(r)
      PROVE  Fits(r[i], T[i - 1]) /\ T[i] = After(T[i - 1], r[i])
  <2>1. CASE i = n + 1
    <3>1. T[i] = After(w, c) /\ T[i - 1] = w /\ r[i] = c
      BY <1>1, <2>1
    <3> QED BY <3>1
  <2>2. CASE i # n + 1
    <3>1. i \in 1..n
      BY <1>1, <2>2
    <3>2. T[i] = S[i] /\ T[i - 1] = S[i - 1] /\ r[i] = q[i]
      BY <1>1, <3>1
    <3> QED BY <3>1, <3>2
  <2> QED BY <2>1, <2>2
<1> HIDE DEF T, r
<1> QED BY <1>2, <1>3 DEF Linked, r

\* The first command fits what is in force, and serving it moves that on.
LEMMA LinkedTail ==
  ASSUME NEW q \in Seq(Commands), q # << >>, NEW v, NEW w, Linked(q, v, w)
  PROVE  Fits(Head(q), v) /\ Linked(Tail(q), After(v, Head(q)), w)
<1> PICK S : /\ S[0] = v /\ S[Len(q)] = w
             /\ \A i \in 1..Len(q) : Fits(q[i], S[i - 1]) /\ S[i] = After(S[i - 1], q[i])
  BY DEF Linked
<1> DEFINE n == Len(Tail(q))
           T == [i \in 0..n |-> S[i + 1]]
           r == Tail(q)
<1>1. /\ n \in Nat /\ Len(q) = n + 1 /\ r \in Seq(Commands) /\ Len(r) = n
      /\ Head(q) = q[1] /\ \A i \in 1..n : r[i] = q[i + 1]
  BY HeadTailProperties, EmptySeq
<1>2. Fits(Head(q), v) /\ S[1] = After(v, Head(q))
  <2>1. 1 \in 1..Len(q) /\ 1 - 1 = 0
    BY <1>1
  <2> QED BY <1>1, <2>1
<1>3. T[0] = After(v, Head(q)) /\ T[Len(r)] = w
  BY <1>1, <1>2
<1>4. ASSUME NEW i \in 1..Len(r)
      PROVE  Fits(r[i], T[i - 1]) /\ T[i] = After(T[i - 1], r[i])
  <2>1. i + 1 \in 1..Len(q) /\ (i + 1) - 1 = i /\ i \in 1..n
    BY <1>1
  <2>2. T[i] = S[i + 1] /\ T[i - 1] = S[i] /\ r[i] = q[i + 1]
    BY <1>1, <2>1
  <2> QED BY <2>1, <2>2
<1> HIDE DEF T, r
<1> QED BY <1>2, <1>3, <1>4 DEF Linked, r

\* The start of the chain may be exchanged for one that fits the first command as well
\* and on which it has the same effect (the header of an inline packet taken over).
LEMMA LinkedFrom ==
  ASSUME NEW q \in Seq(Commands), q # << >>, NEW v, NEW w, Linked(q, v, w),
         NEW x, Fits(Head(q), x), After(x, Head(q)) = After(v, Head(q))
  PROVE  Linked(q, x, w)
<1> PICK S : /\ S[0] = v /\ S[Len(q)] = w
             /\ \A i \in 1..Len(q) : Fits(q[i], S[i - 1]) /\ S[i] = After(S[i - 1], q[i])
  BY DEF Linked
<1> DEFINE n == Len(q)
           T == [i \in 0..n |-> IF i = 0 THEN x ELSE S[i]]
<1>1. n \in Nat /\ n # 0 /\ Head(q) = q[1]
  BY EmptySeq
<1>2. T[0] = x /\ T[Len(q)] = w
  BY <1>1
<1>3. ASSUME NEW i \in 1..Len(q)
      PROVE  Fits(q[i], T[i - 1]) /\ T[i] = After(T[i - 1], q[i])
  <2>1. CASE i = 1
    <3>1. T[i - 1] = x /\ T[i] = S[i] /\ q[i] = Head(q) /\ S[i - 1] = v
      BY <1>1, <2>1
    <3> QED BY <3>1
  <2>2. CASE i # 1
    <3>1. T[i - 1] = S[i - 1] /\ T[i] = S[i]
      BY <1>1, <2>2
    <3> QED BY <3>1
  <2> QED BY <2>1, <2>2
<1> HIDE DEF T
<1> QED BY <1>2, <1>3 DEF Linked

-----------------------------------------------------------------------------
\* The parts of the line: in the thread's hands, and blocked in the USB stack.
Working == pc \in {"lock", "run", "sendFirst", "check"}
Held    == IF Working THEN <<command>> ELSE << >>
Waiting == IF stack.at = "put" THEN <<stack.cmd>> ELSE << >>

\* The line is made of sequences of commands.
LEMMA ToDoParts ==
  ASSUME Typed, Working => command # Nothing
  PROVE  /\ ToDo = (Held \o command_queue) \o Waiting
         /\ command_queue \in Seq(Commands) /\ Held \in Seq(Commands)
         /\ Waiting \in Seq(Commands) /\ ToDo \in Seq(Commands)
<1>1. ToDo = (Held \o command_queue) \o Waiting
  BY DEF ToDo, Held, Waiting, Working
<1>2. command_queue \in Seq(Commands)
  BY DEF Typed, ThreadTyped
<1>3. Held \in Seq(Commands)
  <2>1. Working => command \in Commands
    BY DEF Typed, ThreadTyped
  <2> QED BY <2>1 DEF Held
<1>4. Waiting \in Seq(Commands)
  <2>1. stack.at = "put" => stack.cmd \in Commands
    BY DEF Typed, StackTyped, Idle
  <2> QED BY <2>1 DEF Waiting
<1> QED BY <1>1, <1>2, <1>3, <1>4, ConcatProperties

\* The line depends on nothing else.
LEMMA ToDoStays ==
  ASSUME UNCHANGED <<command_queue, command>>, Working' <=> Working, Waiting' = Waiting
  PROVE  ToDo' = ToDo
BY DEF ToDo, Working, Waiting

\* A command the host submits is the last of the line.
LEMMA ToDoGrows ==
  ASSUME Typed, Working => command # Nothing,
         UNCHANGED <<pc, command, command_queue>>, stack = Idle,
         NEW c \in Commands, stack' = [at |-> "put", cmd |-> c]
  PROVE  ToDo' = Append(ToDo, c)
<1>1. Held' = Held /\ Waiting = << >> /\ Waiting' = <<c>>
  BY DEF Held, Working, Waiting, Idle
<1>2. ToDo' = (Held \o command_queue) \o <<c>>
  BY <1>1 DEF ToDo, Held, Waiting, Working
<1>3. ToDo = Held \o command_queue
  BY <1>1, ToDoParts, ConcatProperties, ConcatEmptySeq
<1> QED BY <1>2, <1>3, ToDoParts, AppendIsConcat

\* A blocked command that gets its place in the queue keeps its place in the line.
LEMMA ToDoMoves ==
  ASSUME Typed, Working => command # Nothing, StackPut
  PROVE  ToDo' = ToDo
<1> DEFINE c == stack.cmd
<1>1. /\ stack.at = "put" /\ command_queue' = Append(command_queue, c) /\ stack' = Idle
      /\ Held' = Held
  BY DEF StackPut, threadVars, Held, Working
<1>2. Waiting = <<c>> /\ Waiting' = << >> /\ c \in Commands
  BY <1>1 DEF Waiting, Idle, Typed, StackTyped
<1>3. ToDo' = (Held \o Append(command_queue, c)) \o << >>
  BY <1>1, <1>2 DEF ToDo, Held, Waiting, Working
<1>4. <<c>> \in Seq(Commands)
  BY <1>2
<1>5. Append(command_queue, c) = command_queue \o <<c>>
  BY <1>2, ToDoParts, AppendIsConcat
<1>6. (Held \o command_queue) \o <<c>> = Held \o (command_queue \o <<c>>)
  <2>1. Held \in Seq(Commands) /\ command_queue \in Seq(Commands)
    BY ToDoParts
  <2> QED BY ONLY <1>4, <2>1, ConcatAssociative
<1>7. Held \o (command_queue \o <<c>>) \in Seq(Commands)
  BY <1>4, ToDoParts, ConcatProperties
<1> QED BY <1>2, <1>3, <1>5, <1>6, <1>7, ToDoParts, ConcatEmptySeq

\* The thread takes a command from the queue.
LEMMA ToDoTaken ==
  ASSUME Typed, GetCommand
  PROVE  /\ Working' => ToDo' = ToDo
         /\ ~Working' => ToDo' = Tail(ToDo)
         /\ ToDo # << >> /\ Head(ToDo) = command'
<1>1. /\ pc = "top" /\ command_queue # << >> /\ command' = Head(command_queue)
      /\ command_queue' = Tail(command_queue) /\ stack' = stack
  BY DEF GetCommand
<1>2. ~Working /\ Held = << >> /\ Waiting' = Waiting
  BY <1>1 DEF Working, Held, Waiting
<1>3. /\ command_queue \in Seq(Commands) /\ Waiting \in Seq(Commands)
      /\ ToDo = command_queue \o Waiting
  BY <1>2, ToDoParts, ConcatEmptySeq
<1>4. Head(command_queue) \in Commands /\ Tail(command_queue) \in Seq(Commands)
  BY <1>1, <1>3, HeadTailProperties
<1>5. \A q, w \in Seq(Commands) : q # << >> =>
        /\ <<Head(q)>> \o Tail(q) = q
        /\ Head(q \o w) = Head(q) /\ Tail(q \o w) = Tail(q) \o w /\ q \o w # << >>
  OBVIOUS
<1>6. ToDo' = (IF Working' THEN <<Head(command_queue)>> \o Tail(command_queue)
               ELSE << >> \o Tail(command_queue)) \o Waiting
  BY <1>1, <1>2 DEF ToDo, Working, Waiting
<1>7. << >> \o Tail(command_queue) = Tail(command_queue)
  BY <1>4, ConcatEmptySeq
<1>8. /\ <<Head(command_queue)>> \o Tail(command_queue) = command_queue
      /\ Head(ToDo) = Head(command_queue) /\ ToDo # << >>
      /\ Tail(ToDo) = Tail(command_queue) \o Waiting
  BY ONLY <1>1, <1>3, <1>5
<1> QED BY ONLY <1>1, <1>3, <1>6, <1>7, <1>8

\* The thread is done with a command.
LEMMA ToDoDone ==
  ASSUME Typed, Working, command # Nothing, EndCommand, UNCHANGED <<command_queue, stack>>
  PROVE  ToDo # << >> /\ Head(ToDo) = command /\ command \in Commands /\ ToDo' = Tail(ToDo)
<1>1. ~Working' /\ Waiting' = Waiting /\ Held = <<command>> /\ command \in Commands
  BY DEF EndCommand, Working, Waiting, Held, Typed, ThreadTyped
<1>2. \A c \in Commands : \A q, w \in Seq(Commands) :
        /\ Head((<<c>> \o q) \o w) = c /\ Tail((<<c>> \o q) \o w) = (<< >> \o q) \o w
        /\ (<<c>> \o q) \o w # << >>
  OBVIOUS
<1>3. ToDo' = (<< >> \o command_queue) \o Waiting
  BY <1>1 DEF ToDo, Waiting, Working
<1>4. /\ ToDo = (<<command>> \o command_queue) \o Waiting
      /\ command_queue \in Seq(Commands) /\ Waiting \in Seq(Commands)
  BY <1>1, ToDoParts
<1> QED BY ONLY <1>1, <1>2, <1>3, <1>4

\* A command in hand is the first of those to do.
LEMMA ToDoFirst ==
  ASSUME Typed, Working, command # Nothing
  PROVE  ToDo # << >> /\ Head(ToDo) = command /\ command \in Commands
<1>1. Held = <<command>> /\ command \in Commands
  BY DEF Held, Typed, ThreadTyped
<1>2. \A c \in Commands : \A q, w \in Seq(Commands) :
        Head((<<c>> \o q) \o w) = c /\ (<<c>> \o q) \o w # << >>
  OBVIOUS
<1> QED BY <1>1, <1>2, ToDoParts

-----------------------------------------------------------------------------
\* The entry of a request in command_queue.
SetupCommand(s) == [type |-> "setup", setup |-> s]

\* The settings in force: the radio's, or the one the driver refuses to send with.
InSet == [rf EXCEPT !.channel = IF state.channel > 100 THEN state.channel ELSE @,
                    !.datarate = IF state.datarate = 0 THEN 0 ELSE @]

\* The settings in force, field by field.
LEMMA RegistersAsSettings ==
  ASSUME NEW r \in Registers, NEW t
  PROVE  [r EXCEPT !.channel = IF t.channel > 100 THEN t.channel ELSE @,
                   !.datarate = IF t.datarate = 0 THEN 0 ELSE @]
         = Settings(IF t.channel > 100 THEN t.channel ELSE r.channel,
                    IF t.datarate = 0 THEN 0 ELSE r.datarate, r.ack, r.address)
<1> DEFINE c == IF t.channel > 100 THEN t.channel ELSE r.channel
           d == IF t.datarate = 0 THEN 0 ELSE r.datarate
<1>1. [r EXCEPT !.channel = c, !.datarate = d] = Settings(c, d, r.ack, r.address)
  <2> HIDE DEF c, d
  <2> DEFINE x == [r EXCEPT !.channel = c, !.datarate = d]
  <2>1. r = [channel |-> r.channel, datarate |-> r.datarate, ack |-> r.ack,
             address |-> r.address]
    BY DEF Registers
  <2>2. x = [r EXCEPT !.channel = c, !.datarate = d]
    OBVIOUS
  <2> HIDE DEF x
  <2>3. x = Settings(c, d, r.ack, r.address)
    BY <2>1, <2>2 DEF Settings
  <2> QED BY <2>2, <2>3
<1> QED BY <1>1

\* What is in force, as a view with the types of its parts.
LEMMA InForceParts ==
  ASSUME Typed
  PROVE  /\ InForce = View(InSet, state.inline_mode, state.sniffer_mode)
         /\ InForce.set = InSet
         /\ InSet = Settings(IF state.channel > 100 THEN state.channel ELSE rf.channel,
                             IF state.datarate = 0 THEN 0 ELSE rf.datarate,
                             rf.ack, rf.address)
         /\ state.channel \in Nat /\ rf.channel \in 0..100
         /\ state.datarate \in 0..2 /\ rf.datarate \in 1..2
         /\ rf.ack \in BOOLEAN /\ state.inline_mode \in BOOLEAN
         /\ state.sniffer_mode \in BOOLEAN
<1>1. rf \in Registers /\ state \in States
  BY DEF Typed, SettingsTyped
<1>2. InForce = View(InSet, state.inline_mode, state.sniffer_mode)
  BY DEF InForce, InSet, View
<1>3. InForce.set = InSet
  BY <1>2 DEF View
<1>4. /\ rf.channel \in 0..100 /\ rf.datarate \in 1..2 /\ rf.ack \in BOOLEAN
      /\ state.inline_mode \in BOOLEAN /\ state.sniffer_mode \in BOOLEAN
      /\ state.datarate \in 0..2
  BY <1>1 DEF Registers, States
<1>5. state.channel \in Nat
  <2>1. state.channel \in 0..255
    BY <1>1 DEF States
  <2> QED BY <2>1
<1>6. InSet = Settings(IF state.channel > 100 THEN state.channel ELSE rf.channel,
                       IF state.datarate = 0 THEN 0 ELSE rf.datarate,
                       rf.ack, rf.address)
  BY <1>1, RegistersAsSettings DEF InSet
<1> QED BY <1>2, <1>3, <1>4, <1>5, <1>6

\* SetAfter on the settings' fields.
LEMMA SetAfterParts ==
  ASSUME NEW c, NEW d, NEW a, NEW x, NEW s
  PROVE  /\ s.request = "channel" =>
              SetAfter(Settings(c, d, a, x), s) = Settings(s.value, d, a, x)
         /\ s.request = "datarate" =>
              SetAfter(Settings(c, d, a, x), s) = Settings(c, s.value, a, x)
         /\ s.request = "ack_enable" =>
              SetAfter(Settings(c, d, a, x), s) = Settings(c, d, s.value, x)
         /\ s.request \in {"address", "sniffer_address"} =>
              SetAfter(Settings(c, d, a, x), s) = Settings(c, d, a, s.value)
         /\ s.request \notin {"channel", "datarate", "ack_enable", "address",
                             "sniffer_address"} =>
              SetAfter(Settings(c, d, a, x), s) = Settings(c, d, a, x)
BY DEF SetAfter, Settings

\* What the host believes follows the documentation's rules.
LEMMA HostAsks ==
  ASSUME Typed, NEW s \in Setups, host' = Asked(host, s)
  PROVE  HostView' = After(HostView, SetupCommand(s))
<1> DEFINE w == host.set
<1>1. /\ host = [set |-> w, inline |-> host.inline, mode |-> host.mode]
      /\ host.inline \in BOOLEAN
  BY DEF Typed, HostTyped
<1>2. After(HostView, SetupCommand(s)) =
        View(SetAfter(w, s), InlineAfter(host.inline, s),
             SniffingAfter(host.mode = "on", s))
  BY DEF After, HostView, View, SetupCommand
<1> HIDE DEF w
<1>3. CASE s.request \in {"channel", "address", "datarate", "ack_enable"}
  <2>1. host' = [host EXCEPT !.set = SetAfter(w, s), !.inline = FALSE]
    <3>1. CASE s.request = "channel"
      BY <3>1 DEF Asked, SetAfter, w
    <3>2. CASE s.request = "datarate"
      BY <3>2 DEF Asked, SetAfter, w
    <3>3. CASE s.request = "ack_enable"
      BY <3>3 DEF Asked, SetAfter, w
    <3>4. CASE s.request = "address"
      BY <3>4 DEF Asked, SetAfter, w
    <3> QED BY <1>3, <3>1, <3>2, <3>3, <3>4
  <2>2. host'.set = SetAfter(w, s) /\ host'.mode = host.mode /\ host'.inline = FALSE
    BY <1>1, <2>1
  <2>3. SniffingAfter(host.mode = "on", s) = (host.mode = "on")
        /\ InlineAfter(host.inline, s) = FALSE
    BY <1>3 DEF SniffingAfter, InlineAfter
  <2> QED BY <1>2, <2>2, <2>3 DEF HostView
<1>4. CASE s.request \in {"sniffer_address", "inline_mode", "cont_carrier"}
  <2>1. host'.set = SetAfter(w, s) /\ host'.mode = host.mode
        /\ host'.inline = InlineAfter(host.inline, s)
    <3>1. CASE s.request = "inline_mode"
      BY <1>1, <3>1 DEF Asked, SetAfter, InlineAfter
    <3>2. CASE s.request = "cont_carrier"
      BY <1>1, <3>2 DEF Asked, SetAfter, InlineAfter
    <3>3. CASE s.request = "sniffer_address"
      BY <1>1, <3>3 DEF Asked, SetAfter, InlineAfter
    <3> QED BY <1>4, <3>1, <3>2, <3>3
  <2>2. SniffingAfter(host.mode = "on", s) = (host.mode = "on")
    BY <1>4 DEF SniffingAfter
  <2> QED BY <1>2, <2>1, <2>2 DEF HostView
<1>5. CASE s.request = "radio_mode"
  <2>1. s.value \in BOOLEAN /\ SetAfter(w, s) = w
    BY <1>5, FlagTyped DEF SetAfter
  <2>2. CASE s.value = TRUE
    <3>1. host'.set = w /\ host'.mode = "on" /\ host'.inline = FALSE
      BY <1>1, <1>5, <2>2 DEF Asked
    <3>2. InlineAfter(host.inline, s) = FALSE /\ SniffingAfter(host.mode = "on", s) = TRUE
      BY <1>5, <2>2 DEF InlineAfter, SniffingAfter
    <3> QED BY <1>2, <2>1, <3>1, <3>2 DEF HostView
  <2>3. CASE s.value = FALSE
    <3>1. host'.set = w /\ host'.mode # "on" /\ host'.inline = host.inline
      BY <1>1, <1>5, <2>3 DEF Asked
    <3>2. /\ InlineAfter(host.inline, s) = host.inline
          /\ SniffingAfter(host.mode = "on", s) = FALSE
      BY <1>1, <1>5, <2>3 DEF InlineAfter, SniffingAfter
    <3>3. (host'.mode = "on") = FALSE
      BY <3>1
    <3> QED BY <1>2, <2>1, <3>1, <3>2, <3>3 DEF HostView
  <2> QED BY <2>1, <2>2, <2>3
<1> QED BY <1>3, <1>4, <1>5, SetupTyped DEF Requests

\* The requests that configure, once served, have the effect the host expects.
LEMMA ConfigureTakes ==
  ASSUME Typed, Typed', Configure, LawfulHost
  PROVE  InForce' = After(InForce, command)
<1> DEFINE s == command.setup
<1>1. /\ command.type = "setup" /\ s.request # "radio_mode"
      /\ state' = StateAfter(s) /\ rf' = RfAfter(s)
  BY DEF Configure
<1>2. s \in Setups /\ state \in States /\ rf \in Registers
  BY <1>1 DEF Typed, ThreadTyped, Commands, Nothing, SettingsTyped
<1>3. After(InForce, command) =
        View(SetAfter(InSet, s), InlineAfter(state.inline_mode, s), state.sniffer_mode)
  <2>1. InForce = View(InSet, state.inline_mode, state.sniffer_mode)
    BY InForceParts
  <2> QED BY <1>1, <2>1 DEF After, View, SniffingAfter
<1>4. InForce' = View(InSet', state'.inline_mode, state'.sniffer_mode)
  BY DEF InForce, InSet, View
<1> HIDE DEF s
<1>5. state'.sniffer_mode = state.sniffer_mode
      /\ state'.inline_mode = InlineAfter(state.inline_mode, s)
  <2>1. CASE s.request = "channel"
    <3>1. state' = [[state EXCEPT !.inline_mode = FALSE] EXCEPT !.channel = s.value % 256]
      BY <1>1, <2>1 DEF StateAfter
    <3> DEFINE c == s.value % 256
    <3> HIDE DEF c
    <3>2. state' = [[state EXCEPT !.inline_mode = FALSE] EXCEPT !.channel = c]
      BY <3>1 DEF c
    <3> QED BY <1>2, <2>1, <3>2 DEF InlineAfter, States
  <2>2. CASE s.request = "datarate"
    <3>1. state' = [[state EXCEPT !.inline_mode = FALSE] EXCEPT !.datarate = s.value]
      BY <1>1, <2>2 DEF StateAfter
    <3> QED BY <1>2, <2>2, <3>1 DEF InlineAfter, States
  <2>3. CASE s.request = "ack_enable"
    <3>1. state' = [[state EXCEPT !.inline_mode = FALSE] EXCEPT !.ack_enabled = s.value]
      BY <1>1, <2>3 DEF StateAfter
    <3> QED BY <1>2, <2>3, <3>1 DEF InlineAfter, States
  <2>4. CASE s.request = "address"
    <3>1. state' = [state EXCEPT !.inline_mode = FALSE]
      BY <1>1, <2>4 DEF StateAfter
    <3> QED BY <1>2, <2>4, <3>1 DEF InlineAfter, States
  <2>5. CASE s.request = "inline_mode"
    <3>1. state' = [state EXCEPT !.inline_mode = s.value]
      BY <1>1, <2>5 DEF StateAfter
    <3> QED BY <1>2, <2>5, <3>1 DEF InlineAfter, States
  <2>6. CASE s.request \in {"sniffer_address", "cont_carrier"}
    BY <1>1, <2>6 DEF InlineAfter, StateAfter
  <2> QED BY <1>1, <1>2, <2>1, <2>2, <2>3, <2>4, <2>5, <2>6, SetupTyped DEF Requests
<1>6. InSet' = SetAfter(InSet, s)
  <2> DEFINE c == IF state.channel > 100 THEN state.channel ELSE rf.channel
             d == IF state.datarate = 0 THEN 0 ELSE rf.datarate
  <2>1. InSet = Settings(c, d, rf.ack, rf.address)
    BY InForceParts
  <2>2. InSet' = Settings(IF state'.channel > 100 THEN state'.channel ELSE rf'.channel,
                          IF state'.datarate = 0 THEN 0 ELSE rf'.datarate,
                          rf'.ack, rf'.address)
    <3>1. rf' \in Registers
      BY DEF Typed, SettingsTyped
    <3> QED BY <3>1, RegistersAsSettings DEF InSet
  <2>3. rf.channel \in 0..100 /\ state.datarate \in 0..2 /\ rf.datarate \in 1..2
    BY InForceParts
  <2>4. CASE s.request = "channel"
    <3>1. state'.channel = s.value /\ state'.datarate = state.datarate
      <4>1. s.value \in 0..255
        BY <1>2, <2>4 DEF LawfulHost
      <4>2. \A n \in 0..255 : n % 256 = n
        OBVIOUS
      <4>3. state' = [[state EXCEPT !.inline_mode = FALSE] EXCEPT !.channel = s.value]
        BY <1>1, <2>4, <4>1, <4>2 DEF StateAfter
      <4> QED BY <1>2, <4>3 DEF States
    <3>2. /\ rf'.datarate = rf.datarate /\ rf'.ack = rf.ack /\ rf'.address = rf.address
          /\ s.value <= 100 => rf'.channel = s.value
      BY <1>1, <1>2, <2>4 DEF RfAfter, OnChannel, Registers
    <3>3. s.value \in Nat
      BY <1>2, <2>4, SetupTyped
    <3>4. InSet' = Settings(s.value, d, rf.ack, rf.address)
      BY <2>2, <3>1, <3>2, <3>3
    <3> QED BY <2>1, <2>4, <3>4, SetAfterParts
  <2>5. CASE s.request = "datarate"
    <3>1. s.value \in 0..2 /\ state'.channel = state.channel /\ state'.datarate = s.value
      <4>1. state' = [[state EXCEPT !.inline_mode = FALSE] EXCEPT !.datarate = s.value]
        BY <1>1, <2>5 DEF StateAfter
      <4> QED BY <1>2, <2>5, <4>1, SetupTyped DEF States
    <3>2. /\ rf'.channel = rf.channel /\ rf'.ack = rf.ack /\ rf'.address = rf.address
          /\ s.value # 0 => rf'.datarate = s.value
      BY <1>1, <1>2, <2>5 DEF RfAfter, Registers
    <3>3. InSet' = Settings(c, s.value, rf.ack, rf.address)
      BY <2>2, <3>1, <3>2
    <3> QED BY <2>1, <2>5, <3>3, SetAfterParts
  <2>6. CASE s.request = "ack_enable"
    <3>1. state'.channel = state.channel /\ state'.datarate = state.datarate
      <4>1. state' = [[state EXCEPT !.inline_mode = FALSE] EXCEPT !.ack_enabled = s.value]
        BY <1>1, <2>6 DEF StateAfter
      <4> QED BY <1>2, <4>1 DEF States
    <3>2. /\ rf'.channel = rf.channel /\ rf'.ack = s.value /\ rf'.address = rf.address
          /\ rf'.datarate = rf.datarate
      BY <1>1, <1>2, <2>6 DEF RfAfter, Registers
    <3>3. InSet' = Settings(c, d, s.value, rf.address)
      BY <2>2, <3>1, <3>2
    <3> QED BY <2>1, <2>6, <3>3, SetAfterParts
  <2>7. CASE s.request \in {"address", "sniffer_address"}
    <3>1. state'.channel = state.channel /\ state'.datarate = state.datarate
      <4>1. state' \in {state, [state EXCEPT !.inline_mode = FALSE]}
        BY <1>1, <2>7 DEF StateAfter
      <4> QED BY <1>2, <4>1 DEF States
    <3>2. /\ rf'.channel = rf.channel /\ rf'.ack = rf.ack /\ rf'.address = s.value
          /\ rf'.datarate = rf.datarate
      BY <1>1, <1>2, <2>7 DEF RfAfter, Registers
    <3>3. InSet' = Settings(c, d, rf.ack, s.value)
      BY <2>2, <3>1, <3>2
    <3> QED BY <2>1, <2>7, <3>3, SetAfterParts
  <2>8. CASE s.request \in {"inline_mode", "cont_carrier"}
    <3>1. state'.channel = state.channel /\ state'.datarate = state.datarate
      <4>1. state' \in {state, [state EXCEPT !.inline_mode = s.value]}
        BY <1>1, <2>8 DEF StateAfter
      <4> QED BY <1>2, <4>1 DEF States
    <3>2. rf' = rf
      BY <1>1, <2>8 DEF RfAfter
    <3>3. InSet' = InSet
      BY <2>1, <2>2, <3>1, <3>2
    <3> QED BY <2>1, <2>8, <3>3, SetAfterParts
  <2> QED BY <1>1, <1>2, <2>4, <2>5, <2>6, <2>7, <2>8, SetupTyped DEF Requests
<1> QED BY <1>3, <1>4, <1>5, <1>6

\* Sniffer mode, once switched, has the effect the host expects.
LEMMA SnifferModeTakes ==
  ASSUME Typed, StartSniffer \/ StopSniffer
  PROVE  InForce' = After(InForce, command)
<1> DEFINE s == command.setup
<1>1. /\ command.type = "setup" /\ s.request = "radio_mode" /\ rf' = rf
      /\ \/ s.value /\ state' = [state EXCEPT !.sniffer_mode = TRUE, !.inline_mode = FALSE]
         \/ ~s.value /\ state' = [state EXCEPT !.sniffer_mode = FALSE]
  BY DEF StartSniffer, StopSniffer
<1>2. s \in Setups /\ state \in States
  BY <1>1 DEF Typed, ThreadTyped, Commands, Nothing, SettingsTyped
<1>3. s.value \in BOOLEAN
  BY <1>1, <1>2, FlagTyped
<1>4. After(InForce, command) =
        View(SetAfter(InSet, s), InlineAfter(state.inline_mode, s), s.value)
  <2>1. InForce = View(InSet, state.inline_mode, state.sniffer_mode)
    BY InForceParts
  <2> QED BY <1>1, <2>1 DEF After, View, SniffingAfter
<1>5. InForce' = View(InSet', state'.inline_mode, state'.sniffer_mode)
  BY DEF InForce, InSet, View
<1> HIDE DEF s
<1>6. state'.channel = state.channel /\ state'.datarate = state.datarate
  BY <1>1, <1>2 DEF States
<1>7. InSet' = InSet
  BY <1>1, <1>6 DEF InSet
<1>8. SetAfter(InSet, s) = InSet
  BY <1>1 DEF SetAfter
<1>9. CASE s.value = TRUE
  <2>1. state'.inline_mode = FALSE /\ state'.sniffer_mode = TRUE
    BY <1>1, <1>2, <1>9 DEF States
  <2>2. InlineAfter(state.inline_mode, s) = FALSE
    BY <1>1, <1>9 DEF InlineAfter
  <2> QED BY <1>4, <1>5, <1>7, <1>8, <1>9, <2>1, <2>2
<1>10. CASE s.value = FALSE
  <2>1. state'.inline_mode = state.inline_mode /\ state'.sniffer_mode = FALSE
    BY <1>1, <1>2, <1>10 DEF States
  <2>2. InlineAfter(state.inline_mode, s) = state.inline_mode
    <3>1. state.inline_mode \in BOOLEAN
      BY <1>2 DEF States
    <3> QED BY <1>1, <1>10, <3>1 DEF InlineAfter
  <2> QED BY <1>4, <1>5, <1>7, <1>8, <1>10, <2>1, <2>2
<1> QED BY <1>3, <1>9, <1>10

\* A header's settings, adopted, are in force as a whole.
LEMMA HeaderTakes ==
  ASSUME Typed, Typed', Prepare, state.inline_mode, ~state.sniffer_mode,
         Fits(command, InForce), OneRate => rf.datarate = 2
  PROVE  /\ InForce' = View(command.want, TRUE, FALSE) /\ InForce = View(InSet, TRUE, FALSE)
         /\ OneRate /\ command.want.datarate = 2
         /\ state'.ack_enabled = rf'.ack
<1> DEFINE w == command.want
<1>1. command.type = "data" /\ command \in Commands /\ w \in Wants
  BY DEF Prepare, Typed, ThreadTyped, Commands, Nothing
<1>2. InForce = View(InSet, TRUE, FALSE)
  BY InForceParts
<1>3. OneRate /\ w.datarate = 2 /\ w.channel \in 0..255
  <2>1. command.inline = TRUE
    BY <1>1, <1>2 DEF Fits, View
  <2> QED BY <1>1, <2>1 DEF Fits
<1>4. /\ state' = [state EXCEPT !.channel = w.channel, !.datarate = w.datarate,
                                !.ack_enabled = w.ack]
      /\ rf' = [OnChannel(w.channel) EXCEPT !.datarate = InlineRate(w.datarate),
                                            !.ack = w.ack, !.address = w.address]
  <2>1. \A n \in 0..255 : n % 256 = n
    OBVIOUS
  <2>2. [w EXCEPT !.channel = @ % 256] = w
    BY <1>1, <1>3, <2>1 DEF Wants
  <2> QED BY <2>2 DEF Prepare
<1> HIDE DEF w
<1>5. rf \in Registers /\ rf' \in Registers /\ state \in States
  BY DEF Typed, SettingsTyped
<1>6. /\ state'.channel = w.channel /\ state'.datarate = 2 /\ state'.ack_enabled = w.ack
      /\ state'.inline_mode = TRUE /\ state'.sniffer_mode = FALSE
  BY <1>2, <1>3, <1>4, <1>5 DEF States
<1>7. InlineRate(w.datarate) = 2
  BY <1>3 DEF InlineRate
<1>8. /\ rf'.datarate = 2 /\ rf'.ack = w.ack /\ rf'.address = w.address
      /\ w.channel <= 100 => rf'.channel = w.channel
  <2>1. /\ OnChannel(w.channel) \in Registers
        /\ w.channel <= 100 => OnChannel(w.channel).channel = w.channel
    <3>1. w.channel \in Nat
      BY <1>3
    <3>2. w.channel <= 100 => OnChannel(w.channel).channel = w.channel
      BY <1>5 DEF OnChannel, Registers
    <3> QED BY <1>5, <3>1, <3>2, OnChannelTyped
  <2> DEFINE o == OnChannel(w.channel)
  <2>2. rf' = [o EXCEPT !.datarate = 2, !.ack = w.ack, !.address = w.address]
    BY <1>4, <1>7
  <2>3. o \in Registers /\ (w.channel <= 100 => o.channel = w.channel)
    BY <2>1
  <2> HIDE DEF o
  <2> QED BY <2>2, <2>3 DEF Registers
<1>9. InSet' = w
  <2>1. InSet' = Settings(IF state'.channel > 100 THEN state'.channel ELSE rf'.channel,
                          IF state'.datarate = 0 THEN 0 ELSE rf'.datarate,
                          rf'.ack, rf'.address)
    BY <1>5, RegistersAsSettings DEF InSet
  <2>2. w.channel \in Nat
    BY <1>3
  <2>3. InSet' = Settings(w.channel, 2, w.ack, w.address)
    BY <1>6, <1>8, <2>1, <2>2
  <2>4. w = Settings(w.channel, w.datarate, w.ack, w.address)
    BY <1>1 DEF Wants, Settings
  <2> QED BY <1>3, <2>3, <2>4
<1> QED BY <1>2, <1>3, <1>6, <1>8, <1>9 DEF InForce, InSet, View, w

-----------------------------------------------------------------------------
\* A request to enter sniffer mode; a packet whose answer the host awaits; and no
\* sniffer mode now, nor in the first n commands to do.
Enters(c) == c.type = "setup" /\ c.setup.request = "radio_mode" /\ c.setup.value
Awaits(c) == c.type = "data" /\ c.awaited
Unsniffed(n) == /\ ~sniffer_loop /\ ~state.sniffer_mode
                /\ \A j \in 1..n : ~Enters(ToDo[j])

\* What is in the IN endpoint is an answer the host awaits, or a sniffer record.  A host
\* that has left sniffer mode, or never entered it, has no change to it on the way and
\* no record to read.  A packet with an awaited answer is the only such one, no record
\* can come before its answer, and nothing of an earlier transfer is in its way.
Answering ==
  /\ \/ in_ep = Nothing
     \/ in_ep.type = "answer" /\ awaiting /\ in_ep.awaited
     \/ in_ep.type = "record"
  /\ host.mode = "off" => Unsniffed(Len(ToDo)) /\ in_ep.type # "record"
  /\ \A i \in 1..Len(ToDo) : Awaits(ToDo[i]) =>
       /\ Unsniffed(i - 1) /\ awaiting /\ in_ep = Nothing
       /\ \A j \in 1..Len(ToDo) : Awaits(ToDo[j]) => j = i
  /\ AnswerOwed

\* Where the thread is says what mode it found: in its loop (usb_thread()'s while), in
\* the sniffer's, at a command or past the tests of a packet, whose settings are then in
\* force.  ack_enabled is the radio's setting, and without inline mode or with one rate
\* nothing of an inline header can be wrong.
Control ==
  /\ pc = "top" => ~sniffer_loop
  /\ pc = "poll" => sniffer_loop
  /\ pc \in {"lock", "run"} => command # Nothing /\ (sniffer_loop <=> state.sniffer_mode)
  /\ pc \in {"sendFirst", "check"} =>
       /\ command.type = "data" /\ ~sniffer_loop /\ ~state.sniffer_mode
       /\ command.want = InForce.set
  /\ pc = "sendFirst" => ~state.inline_mode /\ ~state.ack_enabled
  /\ state.ack_enabled <=> rf.ack
  /\ OneRate => rf.datarate = 2
  /\ NoInline => ~host.inline

\* A scan runs while nothing else is to do, with the radio able to handle its settings,
\* and changes nothing but the channel of those the host had asked for.
Scanning ==
  stack.at \in {"scanLock", "scan"} =>
    /\ command_queue = << >> /\ pc = "top" /\ ~state.sniffer_mode
    /\ state.channel <= 100 /\ state.datarate # 0
    /\ stack.stop \in 0..100
    /\ rf = [stack.want EXCEPT !.channel = rf.channel]

\* The invariant.
OrderInv == Linked(ToDo, InForce, HostView) /\ Answering /\ Control /\ Scanning

\* A step of InOrder, or none.
Mapped == O!Next \/ UNCHANGED <<ToDo, InForce>>

\* At a command, the thread holds one.
LEMMA InHand ==
  ASSUME Control
  PROVE  Working => command # Nothing
BY DEF Control, Working, Nothing

\* A command added at the end of the line is InOrder's Submit.
LEMMA Submits ==
  ASSUME NEW c \in Commands, ToDo \in Seq(Commands), ToDo' = Append(ToDo, c),
         InForce' = InForce
  PROVE  Mapped
<1>1. ToDo' # << >> /\ ToDo'[Len(ToDo')] = c
  BY AppendProperties
<1> QED BY <1>1 DEF Mapped, O!Next, O!Submit

\* Steps that neither submit, serve nor answer keep the answers in order.
LEMMA AnsweringStays ==
  ASSUME Answering, ToDo' = ToDo, UNCHANGED <<awaiting, in_ep>>,
         host'.mode = "off" => host.mode = "off",
         ~sniffer_loop /\ ~state.sniffer_mode => ~sniffer_loop' /\ ~state'.sniffer_mode
  PROVE  Answering'
<1>1. AnswerOwed'
  BY DEF Answering, AnswerOwed
<1> QED BY <1>1 DEF Answering, Unsniffed

\* So does a command submitted, if its answer is awaited alone and by a host that is
\* not in sniffer mode.
LEMMA AnsweringAsked ==
  ASSUME Answering, ToDo \in Seq(Commands), NEW c \in Commands, ToDo' = Append(ToDo, c),
         UNCHANGED <<in_ep, sniffer_loop, state>>, awaiting => awaiting',
         awaiting' => awaiting \/ Awaits(c),
         host'.mode = "off" => host.mode = "off" /\ ~Enters(c),
         Awaits(c) => host.mode = "off" /\ ~awaiting /\ awaiting'
  PROVE  Answering'
<1> DEFINE n == Len(ToDo)
<1>1. /\ n \in Nat /\ Len(ToDo') = n + 1 /\ ToDo'[n + 1] = c
      /\ \A i \in 1..n : ToDo'[i] = ToDo[i]
  BY AppendProperties
<1>2. \A k \in 0..n : Unsniffed(k) => Unsniffed(k)'
  BY <1>1 DEF Unsniffed
<1>3. host'.mode = "off" => Unsniffed(Len(ToDo))' /\ in_ep'.type # "record"
  BY <1>1 DEF Answering, Unsniffed
<1>4. ASSUME NEW i \in 1..Len(ToDo'), Awaits(ToDo'[i])
      PROVE  /\ Unsniffed(i - 1)' /\ awaiting' /\ in_ep' = Nothing
             /\ \A j \in 1..Len(ToDo') : Awaits(ToDo'[j]) => j = i
  <2>1. CASE i = n + 1
    <3>1. Awaits(c) /\ i - 1 = n
      BY <1>1, <1>4, <2>1
    <3>2. Unsniffed(n) /\ in_ep = Nothing /\ \A j \in 1..n : ~Awaits(ToDo[j])
      BY <3>1 DEF Answering
    <3> QED BY <1>1, <1>2, <2>1, <3>1, <3>2
  <2>2. CASE i # n + 1
    <3>1. i \in 1..n /\ Awaits(ToDo[i])
      BY <1>1, <1>4, <2>2
    <3>2. /\ Unsniffed(i - 1) /\ awaiting /\ in_ep = Nothing
          /\ \A j \in 1..n : Awaits(ToDo[j]) => j = i
      BY <3>1 DEF Answering
    <3>3. ~Awaits(c) /\ i - 1 \in 0..n
      BY <1>1, <3>1, <3>2
    <3> QED BY <1>1, <1>2, <3>2, <3>3
  <2> QED BY <2>1, <2>2
<1>5. \/ in_ep' = Nothing
      \/ in_ep'.type = "answer" /\ awaiting' /\ in_ep'.awaited
      \/ in_ep'.type = "record"
  BY DEF Answering
<1>6. AnswerOwed'
  <2>1. CASE awaiting
    BY <1>1, <2>1 DEF Answering, AnswerOwed, Awaits
  <2>2. CASE awaiting' /\ ~awaiting
    BY <1>1, <2>2 DEF AnswerOwed, Awaits
  <2> QED BY <2>1, <2>2 DEF AnswerOwed
<1> QED BY <1>3, <1>4, <1>5, <1>6 DEF Answering

\* The line, once its first command is served.
LEMMA Shifted ==
  ASSUME ToDo \in Seq(Commands), ToDo # << >>, ToDo' = Tail(ToDo),
         ~sniffer_loop /\ ~state.sniffer_mode /\ ~Enters(Head(ToDo)) =>
           ~sniffer_loop' /\ ~state'.sniffer_mode
  PROVE  /\ Len(ToDo) \in Nat /\ Len(ToDo) = Len(ToDo') + 1 /\ Len(ToDo') \in Nat
         /\ Head(ToDo) = ToDo[1] /\ \A i \in 1..Len(ToDo') : ToDo'[i] = ToDo[i + 1]
         /\ \A k \in 1..Len(ToDo) : Unsniffed(k) => Unsniffed(k - 1)'
<1>1. /\ Len(ToDo) \in Nat /\ Len(ToDo) = Len(ToDo') + 1 /\ Len(ToDo') \in Nat
      /\ Head(ToDo) = ToDo[1] /\ \A i \in 1..Len(ToDo') : ToDo'[i] = ToDo[i + 1]
  BY HeadTailProperties, EmptySeq
<1>2. ASSUME NEW k \in 1..Len(ToDo), Unsniffed(k) PROVE Unsniffed(k - 1)'
  <2>1. 1 \in 1..k /\ \A j \in 1..(k - 1) : j + 1 \in 1..k /\ j \in 1..Len(ToDo')
    BY <1>1
  <2> QED BY <1>1, <1>2, <2>1 DEF Unsniffed
<1> QED BY <1>1, <1>2

\* And so does a command served, if its answer is written when and only when awaited.
LEMMA AnsweringServed ==
  ASSUME Answering, ToDo \in Seq(Commands), ToDo # << >>, ToDo' = Tail(ToDo),
         UNCHANGED awaiting, host'.mode = host.mode,
         ~sniffer_loop /\ ~state.sniffer_mode /\ ~Enters(Head(ToDo)) =>
           ~sniffer_loop' /\ ~state'.sniffer_mode,
         \/ ~Awaits(Head(ToDo)) /\ in_ep' = in_ep
         \/ Awaits(Head(ToDo)) /\ in_ep'.type = "answer" /\ in_ep'.awaited
  PROVE  Answering'
<1>1. Awaits(Head(ToDo)) =>
        awaiting /\ \A j \in 1..Len(ToDo') : ~Awaits(ToDo'[j])
  <2> SUFFICES ASSUME Awaits(Head(ToDo)), NEW j \in 1..Len(ToDo')
               PROVE  awaiting /\ ~Awaits(ToDo'[j])
    BY Shifted DEF Answering
  <2>1. 1 \in 1..Len(ToDo) /\ j + 1 \in 1..Len(ToDo) /\ j + 1 # 1
    BY Shifted
  <2> QED BY <2>1, Shifted DEF Answering
<1>2. host'.mode = "off" => Unsniffed(Len(ToDo))' /\ in_ep'.type # "record"
  <2>1. Len(ToDo) \in 1..Len(ToDo) /\ Len(ToDo) - 1 = Len(ToDo')
    BY Shifted
  <2> QED BY <2>1, Shifted DEF Answering, Unsniffed
<1>3. ASSUME NEW i \in 1..Len(ToDo'), Awaits(ToDo'[i])
      PROVE  /\ Unsniffed(i - 1)' /\ awaiting' /\ in_ep' = Nothing
             /\ \A j \in 1..Len(ToDo') : Awaits(ToDo'[j]) => j = i
  <2>1. /\ i + 1 \in 1..Len(ToDo) /\ (i + 1) - 1 = i /\ i \in 1..Len(ToDo)
        /\ Awaits(ToDo[i + 1])
    BY <1>3, Shifted
  <2>2. /\ Unsniffed(i) /\ awaiting /\ in_ep = Nothing
        /\ \A j \in 1..Len(ToDo) : Awaits(ToDo[j]) => j = i + 1
    BY <2>1 DEF Answering
  <2>3. ~Awaits(Head(ToDo))
    BY <1>1, <1>3
  <2>4. \A j \in 1..Len(ToDo') : j + 1 \in 1..Len(ToDo) /\ (j + 1 = i + 1 => j = i)
    BY Shifted
  <2>5. Unsniffed(i - 1)'
    BY <2>1, <2>2, Shifted
  <2> QED BY <2>2, <2>3, <2>4, <2>5, Shifted
<1>4. \/ in_ep' = Nothing
      \/ in_ep'.type = "answer" /\ awaiting' /\ in_ep'.awaited
      \/ in_ep'.type = "record"
  BY <1>1, Shifted DEF Answering
<1>5. AnswerOwed'
  <2>1. CASE Awaits(Head(ToDo))
    BY <2>1 DEF AnswerOwed
  <2>2. CASE ~Awaits(Head(ToDo)) /\ in_ep.type # "answer" /\ awaiting
    <3>1. PICK i \in 1..Len(ToDo) : Awaits(ToDo[i])
      BY <2>2 DEF Answering, AnswerOwed, Awaits
    <3>2. i # 1
      BY <2>2, <3>1, Shifted
    <3>3. i - 1 \in 1..Len(ToDo') /\ ToDo'[i - 1] = ToDo[i]
      BY <3>2, Shifted
    <3> QED BY <3>1, <3>3 DEF AnswerOwed, Awaits
  <2>3. CASE ~Awaits(Head(ToDo)) /\ (in_ep.type = "answer" \/ ~awaiting)
    BY <2>3 DEF AnswerOwed
  <2> QED BY <2>1, <2>2, <2>3
<1> QED BY <1>2, <1>3, <1>4, <1>5 DEF Answering

-----------------------------------------------------------------------------
\* A host that submits a request keeps the invariant and is InOrder's Submit.
LEMMA SetupSubmitted ==
  ASSUME Typed, OrderInv, NEW s \in Setups, HostSetup(s), LawfulHost
  PROVE  OrderInv' /\ Mapped
<1> DEFINE c == SetupCommand(s)
<1>1. /\ stack = Idle /\ host' = Asked(host, s) /\ stack' = [at |-> "put", cmd |-> c]
      /\ UNCHANGED <<awaiting, command_queue, pc, command, sniffer_loop, state, rf, in_ep>>
  BY DEF HostSetup, threadVars, driverVars, SetupCommand
<1>2. c \in Commands /\ c.type = "setup" /\ c.setup = s
  BY DEF Commands, SetupCommand
<1> HIDE DEF c
<1>3. ToDo' = Append(ToDo, c) /\ ToDo \in Seq(Commands)
  BY <1>1, <1>2, InHand, ToDoGrows, ToDoParts DEF OrderInv
<1>4. InForce' = InForce
  BY <1>1 DEF InForce
<1>5. Linked(ToDo, InForce, HostView)'
  <2>1. HostView' = After(HostView, c)
    BY <1>1, HostAsks DEF c
  <2>2. Fits(c, HostView)
    BY <1>2 DEF Fits
  <2>3. Linked(ToDo, InForce, HostView)
    BY DEF OrderInv
  <2>4. Linked(Append(ToDo, c), InForce, After(HostView, c))
    BY <1>2, <1>3, <2>2, <2>3, LinkedAppend
  <2> QED BY <1>3, <1>4, <2>1, <2>4
<1>6. Answering'
  <2>1. ~Awaits(c)
    BY <1>2 DEF Awaits
  <2>2. host'.mode = "off" => host.mode = "off" /\ ~Enters(c)
    <3>1. host = [set |-> host.set, inline |-> host.inline, mode |-> host.mode]
      BY DEF Typed, HostTyped
    <3>2. CASE s.request = "radio_mode"
      <4>1. s.value \in BOOLEAN
        BY <3>2, FlagTyped
      <4> QED BY <1>1, <1>2, <3>1, <3>2, <4>1 DEF Asked, Enters
    <3>3. CASE s.request # "radio_mode"
      <4>1. host'.mode = host.mode
        BY <1>1, <3>1, <3>3 DEF Asked
      <4> QED BY <1>2, <3>3, <4>1 DEF Enters
    <3> QED BY <3>2, <3>3
  <2> QED BY <1>1, <1>2, <1>3, <2>1, <2>2, AnsweringAsked DEF OrderInv
<1>7. Control'
  <2>1. NoInline => ~host'.inline
    <3>1. host = [set |-> host.set, inline |-> host.inline, mode |-> host.mode]
      BY DEF Typed, HostTyped
    <3>2. \/ host'.inline \in {FALSE, host.inline}
          \/ s.request = "inline_mode" /\ host'.inline = s.value
      BY <1>1, <3>1 DEF Asked
    <3> QED BY <3>2 DEF OrderInv, Control, NoInline
  <2> QED BY <1>1, <1>4, <2>1 DEF OrderInv, Control
<1>8. Scanning'
  BY <1>1 DEF Scanning
<1> QED BY <1>2, <1>3, <1>4, <1>5, <1>6, <1>7, <1>8, Submits DEF OrderInv

\* So does one that submits a packet.
LEMMA DataSubmitted ==
  ASSUME Typed, OrderInv, NEW d \in Datas, NEW h \in Headers, HostData(d, h), LawfulHost
  PROVE  OrderInv' /\ Mapped
<1> DEFINE inline   == host.inline /\ host.mode # "on"
           want     == IF inline THEN h ELSE host.set
           answered == host.mode # "on" /\ (inline \/ want.ack)
           c == [type |-> "data", data |-> d, want |-> want, inline |-> inline,
                 broadcast |-> host.mode = "on", awaited |-> answered]
<1>1. /\ stack = Idle /\ ~awaiting /\ Careful(want, answered)
      /\ host' = [host EXCEPT !.set = want] /\ awaiting' = answered
      /\ stack' = [at |-> "put", cmd |-> c]
      /\ UNCHANGED <<command_queue, pc, command, sniffer_loop, state, rf, in_ep>>
  BY DEF HostData, threadVars, driverVars, LawfulHost
<1>2. host.set \in Wants /\ host.inline \in BOOLEAN /\ h \in Wants
      /\ host \in [set : Wants, inline : BOOLEAN, mode : {"off", "on", "left"}]
  BY HeaderTyped DEF Typed, HostTyped
<1>3. inline \in BOOLEAN /\ want \in Wants /\ answered \in BOOLEAN
  BY <1>2
<1>4. /\ c.type = "data" /\ c.want = want /\ c.inline = inline
      /\ c.broadcast = (host.mode = "on") /\ c.awaited = answered
  OBVIOUS
<1>5. c \in Commands
  <2> HIDE DEF inline, want, answered
  <2> QED BY <1>3 DEF Commands
<1>6. /\ ~inline => want = host.set
      /\ inline => host.inline /\ host.mode # "on" /\ want = h
      /\ inline <=> host.inline /\ host.mode # "on"
      /\ answered <=> host.mode # "on" /\ (inline \/ want.ack)
  OBVIOUS
<1> HIDE DEF c, inline, want, answered
<1>7. ToDo' = Append(ToDo, c) /\ ToDo \in Seq(Commands)
  BY <1>1, <1>5, InHand, ToDoGrows, ToDoParts DEF OrderInv
<1>8. InForce' = InForce
  BY <1>1 DEF InForce
<1>9. Linked(ToDo, InForce, HostView)'
  <2>1. HostView' = After(HostView, c)
    <3>1. host'.set = want /\ host'.inline = host.inline /\ host'.mode = host.mode
      BY <1>1, <1>2
    <3> QED BY <1>4, <3>1 DEF HostView, After, View
  <2>2. Fits(c, HostView)
    <3>1. inline => OneRate /\ want.datarate = 2 /\ want.channel \in 0..255
      <4> SUFFICES ASSUME inline
                   PROVE  OneRate /\ want.datarate = 2 /\ want.channel \in 0..255
        OBVIOUS
      <4>1. OneRate
        BY <1>6 DEF OrderInv, Control, LawfulHost
      <4>2. h.channel \in 0..255
        BY HeaderAssumption
      <4> QED BY <1>6, <4>1, <4>2 DEF OneRate
    <3>2. answered \/ Valid(want)
      BY <1>1 DEF Careful
    <3>3. HostView.set = host.set /\ HostView.inline = host.inline
          /\ HostView.sniffing = (host.mode = "on")
      BY DEF HostView, View
    <3>4. c.inline = (HostView.inline /\ ~HostView.sniffing)
      BY <1>2, <1>3, <1>4, <1>6, <3>3
    <3>5. c.awaited = (~c.broadcast /\ (c.inline \/ c.want.ack))
      BY <1>3, <1>4, <1>6
    <3>6. c.broadcast = HostView.sniffing /\ (c.inline \/ c.want = HostView.set)
      BY <1>4, <1>6, <3>3
    <3> QED BY <1>4, <3>1, <3>2, <3>4, <3>5, <3>6 DEF Fits
  <2>3. Linked(ToDo, InForce, HostView)
    BY DEF OrderInv
  <2>4. Linked(Append(ToDo, c), InForce, After(HostView, c))
    BY <1>5, <1>7, <2>2, <2>3, LinkedAppend
  <2> QED BY <1>7, <1>8, <2>1, <2>4
<1>10. Answering'
  <2>1. (Awaits(c) <=> awaiting') /\ (Awaits(c) => host.mode = "off")
    BY <1>1, <1>2, <1>4, <1>6 DEF Awaits, Careful
  <2>2. ~Enters(c) /\ host'.mode = host.mode
    BY <1>1, <1>2, <1>4 DEF Enters
  <2> QED BY <1>1, <1>5, <1>7, <2>1, <2>2, AnsweringAsked DEF OrderInv
<1>11. Control'
  <2>1. host'.inline = host.inline
    BY <1>1, <1>2
  <2> QED BY <1>1, <1>8, <2>1 DEF OrderInv, Control
<1>12. Scanning'
  BY <1>1 DEF Scanning
<1> QED BY <1>5, <1>7, <1>8, <1>9, <1>10, <1>11, <1>12, Submits DEF OrderInv

\* A scan starts with nothing else to do and the host's settings in force.
LEMMA ScanAsked ==
  ASSUME Typed, OrderInv, NEW s \in Scans, HostScan(s), LawfulHost
  PROVE  OrderInv' /\ Mapped
<1>1. /\ stack = Idle /\ AllDone /\ Valid(host.set)
      /\ stack' = [at |-> "scanLock", next |-> s.start, stop |-> s.stop, want |-> host.set]
      /\ UNCHANGED <<host, awaiting, command_queue, pc, command, sniffer_loop, state, rf,
                     in_ep>>
  BY DEF HostScan, hostVars, threadVars, driverVars, LawfulHost
<1>2. ToDo' = ToDo /\ InForce' = InForce /\ HostView' = HostView
  <2>1. Waiting' = Waiting
    BY <1>1 DEF Waiting, Idle
  <2> QED BY <1>1, <2>1, ToDoStays DEF InForce, HostView, Working
<1>3. ToDo = << >>
  <2>1. Held = << >> /\ Waiting = << >> /\ command_queue = << >>
    BY <1>1 DEF Held, Waiting, Working, AllDone, Idle
  <2>2. ToDo = (<< >> \o << >>) \o << >>
    BY <2>1 DEF ToDo, Held, Working, Waiting
  <2> QED BY <2>2
<1>4. InSet = host.set
  <2>1. InForce = HostView
    BY <1>3, LinkedEmpty DEF OrderInv
  <2> QED BY <2>1, InForceParts DEF HostView, View
<1>5. state.channel <= 100 /\ state.datarate # 0 /\ rf = InSet
  <2>1. /\ ~(state.channel > 100) /\ state.datarate # 0
    BY <1>1, <1>4, InForceParts DEF Valid, Settings
  <2>2. state.channel \in Nat
    BY InForceParts
  <2>3. rf \in Registers
    BY DEF Typed, SettingsTyped
  <2>4. InSet = rf
    BY <2>1, <2>3 DEF InSet, Registers
  <2> QED BY <2>1, <2>2, <2>4
<1>6. Scanning'
  <2>1. s.stop \in 0..100
    BY DEF LawfulHost
  <2>2. rf = [host.set EXCEPT !.channel = rf.channel]
    <3>1. rf \in Registers
      BY DEF Typed, SettingsTyped
    <3>2. [rf EXCEPT !.channel = rf.channel] = rf
      BY <3>1 DEF Registers
    <3> QED BY <1>4, <1>5, <3>2
  <2> QED BY <1>1, <1>5, <2>1, <2>2 DEF Scanning, AllDone
<1>7. Answering'
  BY <1>1, <1>2, AnsweringStays DEF OrderInv
<1>8. Control'
  BY <1>1, <1>2 DEF OrderInv, Control
<1> QED BY <1>2, <1>6, <1>7, <1>8 DEF OrderInv, Mapped

\* Reading an answer, or letting one time out, concerns neither line nor settings.
LEMMA HostWaits ==
  ASSUME Typed, OrderInv, HostRead \/ HostSettled, LawfulHost
  PROVE  OrderInv' /\ Mapped
<1>1. /\ UNCHANGED <<stack, command_queue, pc, command, sniffer_loop, state, rf>>
      /\ host'.set = host.set /\ host'.inline = host.inline
      /\ host.mode = "on" <=> host'.mode = "on"
  <2>1. host \in [set : Wants, inline : BOOLEAN, mode : {"off", "on", "left"}]
    BY DEF Typed, HostTyped
  <2> QED BY <2>1 DEF HostRead, HostSettled, threadVars, driverVars
<1>2. ToDo' = ToDo /\ InForce' = InForce
  BY <1>1, ToDoStays DEF InForce, Waiting, Working
<1>3. HostView' = HostView
  <2>1. (host.mode = "on") = (host'.mode = "on")
    BY <1>1
  <2> QED BY <1>1, <2>1 DEF HostView
<1>4. Answering'
  <2>1. CASE HostRead
    <3>1. in_ep # Nothing /\ in_ep' = Nothing /\ host' = host
      BY <2>1 DEF HostRead
    <3>2. \A i \in 1..Len(ToDo) : ~Awaits(ToDo[i])
      BY <3>1 DEF OrderInv, Answering
    <3>3. AnswerOwed'
      BY <2>1 DEF HostRead, AnswerOwed
    <3> QED BY <1>1, <1>2, <3>1, <3>2, <3>3 DEF OrderInv, Answering, Unsniffed, Nothing
  <2>2. CASE HostSettled
    <3>1. AllDone /\ in_ep = Nothing /\ in_ep' = Nothing
      BY <2>2 DEF HostSettled, LawfulHost
    <3>2. ToDo = << >>
      <4>1. Held = << >> /\ Waiting = << >> /\ command_queue = << >>
        BY <3>1 DEF Held, Waiting, Working, AllDone, Idle
      <4>2. ToDo = (<< >> \o << >>) \o << >>
        BY <4>1 DEF ToDo, Held, Working, Waiting
      <4> QED BY <4>2
    <3>3. ~sniffer_loop /\ ~state.sniffer_mode
      BY <3>1 DEF AllDone, OrderInv, Control
    <3>4. AnswerOwed'
      BY <1>2, <2>2 DEF HostSettled, OrderInv, Answering, AnswerOwed
    <3> QED BY <1>1, <1>2, <3>1, <3>2, <3>3, <3>4 DEF Answering, Unsniffed, Nothing
  <2> QED BY <2>1, <2>2
<1>5. Control'
  BY <1>1, <1>2 DEF OrderInv, Control
<1>6. Scanning'
  BY <1>1 DEF OrderInv, Scanning
<1> QED BY <1>2, <1>3, <1>4, <1>5, <1>6 DEF OrderInv, Mapped

\* The USB stack: a blocked command put in the queue, a scan started, a channel scanned.
LEMMA StackServes ==
  ASSUME Typed, OrderInv, UsbStack
  PROVE  OrderInv' /\ Mapped
<1>1. CASE StackPut
  <2>1. /\ stack' = Idle
        /\ UNCHANGED <<host, awaiting, pc, command, sniffer_loop, state, rf, in_ep>>
    BY <1>1 DEF StackPut, hostVars, threadVars, driverVars
  <2>2. ToDo' = ToDo /\ InForce' = InForce /\ HostView' = HostView
    BY <1>1, <2>1, InHand, ToDoMoves DEF OrderInv, InForce, HostView
  <2>3. Answering' /\ Control' /\ Scanning'
    <3>1. Answering'
      BY <2>1, <2>2, AnsweringStays DEF OrderInv
    <3>2. Control'
      BY <2>1, <2>2 DEF OrderInv, Control
    <3>3. Scanning'
      BY <2>1 DEF Scanning, Idle
    <3> QED BY <3>1, <3>2, <3>3
  <2> QED BY <2>2, <2>3 DEF OrderInv, Mapped
<1>2. CASE ScanLock
  <2>1. /\ stack.at = "scanLock" /\ state' = [state EXCEPT !.scan_result = << >>]
        /\ stack' = Idle \/ stack' = [stack EXCEPT !.at = "scan"]
        /\ UNCHANGED <<host, awaiting, command_queue, pc, command, sniffer_loop, rf, in_ep>>
    BY <1>2 DEF ScanLock, hostVars, threadVars, driverVars
  <2>2. /\ stack'.at \in {"idle", "scan"}
        /\ stack'.at = "scan" => stack'.stop = stack.stop /\ stack'.want = stack.want
    <3>1. stack \in [at : {"scanLock", "scan"}, next : 0..255, stop : 0..255, want : Wants]
      BY <2>1 DEF Typed, StackTyped, Idle
    <3> QED BY <2>1, <3>1 DEF Idle
  <2>3. /\ state'.channel = state.channel /\ state'.datarate = state.datarate
        /\ state'.ack_enabled = state.ack_enabled /\ state'.inline_mode = state.inline_mode
        /\ state'.sniffer_mode = state.sniffer_mode
    <3>1. state \in States
      BY DEF Typed, SettingsTyped
    <3> QED BY <2>1, <3>1 DEF States
  <2>4. ToDo' = ToDo /\ InForce' = InForce /\ HostView' = HostView
    <3>1. Waiting' = Waiting
      BY <2>1, <2>2 DEF Waiting
    <3> QED BY <2>1, <2>3, <3>1, ToDoStays DEF InForce, HostView, Working
  <2>5. Answering'
    BY <2>1, <2>3, <2>4, AnsweringStays DEF OrderInv
  <2>6. Control'
    BY <2>1, <2>3, <2>4 DEF OrderInv, Control
  <2>7. Scanning'
    BY <2>1, <2>2, <2>3 DEF OrderInv, Scanning, Idle
  <2> QED BY <2>4, <2>5, <2>6, <2>7 DEF OrderInv, Mapped
<1>3. CASE ScanChannel
  <2> DEFINE n == stack.next
  <2>1. /\ stack.at = "scan" /\ host' = [host EXCEPT !.set.channel = n]
        /\ rf' = OnChannel(n)
        /\ state' = state \/ state' = [state EXCEPT !.scan_result = Append(@, n)]
        /\ stack' = Idle \/ stack' = [stack EXCEPT !.next = @ + 1]
        /\ UNCHANGED <<awaiting, command_queue, pc, command, sniffer_loop, in_ep>>
    BY <1>3 DEF ScanChannel, threadVars
  <2>2. /\ stack \in [at : {"scanLock", "scan"}, next : 0..255, stop : 0..255, want : Wants]
        /\ n <= stack.stop /\ rf \in Registers /\ state \in States
        /\ host \in [set : Wants, inline : BOOLEAN, mode : {"off", "on", "left"}]
    BY <2>1 DEF Typed, HostTyped, StackTyped, SettingsTyped, Idle
  <2>3. /\ command_queue = << >> /\ pc = "top" /\ ~state.sniffer_mode
        /\ state.channel <= 100 /\ state.datarate # 0 /\ stack.stop \in 0..100
        /\ rf = [stack.want EXCEPT !.channel = rf.channel]
    BY <2>1 DEF OrderInv, Scanning
  <2>4. n \in 0..100
    <3>1. n \in 0..255 /\ n <= stack.stop /\ stack.stop \in 0..100
      BY <2>2, <2>3
    <3>2. \A a \in 0..255, b \in 0..100 : a <= b => a \in 0..100
      OBVIOUS
    <3> HIDE DEF n
    <3> QED BY ONLY <3>1, <3>2
  <2> HIDE DEF n
  <2>5. rf' = [rf EXCEPT !.channel = n]
    <3>1. n <= 100
      BY <2>4
    <3> QED BY <2>1, <3>1 DEF OnChannel
  <2>6. /\ state'.channel = state.channel /\ state'.datarate = state.datarate
        /\ state'.ack_enabled = state.ack_enabled /\ state'.inline_mode = state.inline_mode
        /\ state'.sniffer_mode = state.sniffer_mode
    <3> DEFINE x == Append(state.scan_result, n)
    <3>1. state' = state \/ state' = [state EXCEPT !.scan_result = x]
      BY <2>1
    <3> HIDE DEF x
    <3> QED BY <2>2, <3>1 DEF States
  <2>7. /\ stack'.at \in {"idle", "scan"}
        /\ stack'.at = "scan" => stack'.stop = stack.stop /\ stack'.want = stack.want
    BY <2>1, <2>2 DEF Idle
  <2>8. ToDo' = ToDo /\ ToDo = << >>
    <3>1. Waiting' = Waiting /\ Waiting = << >> /\ Held = << >>
      BY <2>1, <2>3, <2>7 DEF Waiting, Held, Working
    <3>2. ToDo = (<< >> \o << >>) \o << >>
      BY <2>3, <3>1 DEF ToDo, Held, Working, Waiting
    <3> QED BY <2>1, <3>1, <3>2, ToDoStays DEF Working
  <2>9. InForce' = View([InSet EXCEPT !.channel = n], state.inline_mode, state.sniffer_mode)
    <3>0. ~(state.channel > 100)
      BY <2>3, InForceParts
    <3>1. InSet = rf
      BY <2>2, <2>3, <3>0 DEF InSet, Registers
    <3>2. InSet' = rf'
      <4>1. rf' \in Registers
        BY <2>2, <2>4, <2>5 DEF Registers
      <4> QED BY <2>3, <2>6, <3>0, <4>1 DEF InSet, Registers
    <3>3. InForce' = View(InSet', state'.inline_mode, state'.sniffer_mode)
      BY DEF InForce, InSet, View
    <3> QED BY <2>5, <2>6, <3>1, <3>2, <3>3
  <2>10. InForce = HostView /\ HostView.set = InSet /\ HostView.inline = state.inline_mode
         /\ HostView.sniffing = state.sniffer_mode
    <3>1. InForce = HostView
      BY <2>8, LinkedEmpty DEF OrderInv
    <3> QED BY <3>1, InForceParts DEF View
  <2>11. HostView' = InForce'
    <3>1. host'.set = [host.set EXCEPT !.channel = n] /\ host'.inline = host.inline
          /\ host'.mode = host.mode
      <4> DEFINE w == [host.set EXCEPT !.channel = n]
      <4>1. host' = [host EXCEPT !.set = w]
        BY <2>1
      <4> HIDE DEF w
      <4>2. host'.set = w /\ host'.inline = host.inline /\ host'.mode = host.mode
        BY <2>2, <4>1
      <4> QED BY <4>2 DEF w
    <3> QED BY <2>9, <2>10, <3>1 DEF HostView, View
  <2>12. Linked(ToDo, InForce, HostView)'
    BY <2>8, <2>11, LinkedEmpty
  <2>13. Answering'
    <3>1. host'.mode = host.mode
      BY <2>1, <2>2
    <3> QED BY <2>1, <2>6, <2>8, <3>1, AnsweringStays DEF OrderInv
  <2>14. Control'
    <3>1. host'.inline = host.inline
      BY <2>1, <2>2
    <3>2. rf'.ack = rf.ack /\ rf'.datarate = rf.datarate
      BY <2>2, <2>5 DEF Registers
    <3> QED BY <2>1, <2>3, <2>6, <3>1, <3>2 DEF OrderInv, Control
  <2>15. Scanning'
    <3>1. rf' = [stack.want EXCEPT !.channel = rf'.channel]
      <4>1. stack.want \in Wants
        BY <2>2
      <4>2. rf' = [stack.want EXCEPT !.channel = n] /\ rf'.channel = n
        BY <2>3, <2>5, <4>1 DEF Wants
      <4> QED BY <4>2
    <3> QED BY <2>1, <2>3, <2>6, <2>7, <3>1 DEF Scanning
  <2>16. O!Scan
    <3>1. InForce' = [InForce EXCEPT !.set.channel = n]
      <4>1. InForce = View(InSet, state.inline_mode, state.sniffer_mode)
        BY InForceParts
      <4> QED BY <2>9, <4>1 DEF View
    <3> QED BY <2>4, <2>8, <3>1 DEF O!Scan
  <2> QED BY <2>12, <2>13, <2>14, <2>15, <2>16 DEF OrderInv, Mapped, O!Next
<1> QED BY <1>1, <1>2, <1>3 DEF UsbStack

-----------------------------------------------------------------------------
\* InOrder's effect of a request is After's.
LEMMA AppliedAsAfter ==
  ASSUME Typed, NEW c \in Commands, c.type = "setup"
  PROVE  O!Applied(c.setup) = After(InForce, c)
<1> DEFINE s == c.setup
           i == state.inline_mode
           n == state.sniffer_mode
<1>1. InForce = View(InSet, i, n) /\ i \in BOOLEAN /\ n \in BOOLEAN
  BY InForceParts
<1>2. s \in Setups
  BY DEF Commands
<1> HIDE DEF s, i, n
<1>3. After(InForce, c) = View(SetAfter(InSet, s), InlineAfter(i, s), SniffingAfter(n, s))
  BY <1>1 DEF After, View, s
<1>4. O!Setting = [channel |-> "channel", address |-> "address", datarate |-> "datarate",
                   ack_enable |-> "ack"]
      /\ DOMAIN O!Setting = {"channel", "address", "datarate", "ack_enable"}
  BY DEF O!Setting
<1>5. CASE s.request \in {"channel", "address", "datarate", "ack_enable"}
  <2>1. O!Applied(s) =
          [InForce EXCEPT !.set = [@ EXCEPT ![O!Setting[s.request]] = s.value],
                          !.inline = FALSE]
    BY <1>4, <1>5 DEF O!Applied
  <2>2. [InForce.set EXCEPT ![O!Setting[s.request]] = s.value] = SetAfter(InSet, s)
    <3>1. InForce.set = InSet
      BY InForceParts
    <3>2. CASE s.request = "channel"
      BY <1>4, <3>1, <3>2 DEF SetAfter
    <3>3. CASE s.request = "address"
      BY <1>4, <3>1, <3>3 DEF SetAfter
    <3>4. CASE s.request = "datarate"
      BY <1>4, <3>1, <3>4 DEF SetAfter
    <3>5. CASE s.request = "ack_enable"
      BY <1>4, <3>1, <3>5 DEF SetAfter
    <3> QED BY <1>5, <3>2, <3>3, <3>4, <3>5
  <2>3. O!Applied(s) = View(SetAfter(InSet, s), FALSE, n)
    <3> DEFINE x == SetAfter(InSet, s)
    <3>1. O!Applied(s) = [InForce EXCEPT !.set = x, !.inline = FALSE]
      BY <2>1, <2>2
    <3> HIDE DEF x
    <3>2. O!Applied(s) = View(x, FALSE, n)
      BY <1>1, <3>1 DEF View
    <3> QED BY <3>2 DEF x
  <2>4. InlineAfter(i, s) = FALSE /\ SniffingAfter(n, s) = n
    BY <1>5 DEF InlineAfter, SniffingAfter
  <2> QED BY <1>3, <2>3, <2>4 DEF s
<1>6. CASE s.request = "sniffer_address"
  <2>1. O!Applied(s) = [InForce EXCEPT !.set.address = s.value]
    BY <1>4, <1>6 DEF O!Applied
  <2>2. O!Applied(s) = View([InSet EXCEPT !.address = s.value], i, n)
    BY <1>1, <2>1 DEF View
  <2>3. SetAfter(InSet, s) = [InSet EXCEPT !.address = s.value]
        /\ InlineAfter(i, s) = i /\ SniffingAfter(n, s) = n
    BY <1>6 DEF SetAfter, InlineAfter, SniffingAfter
  <2> QED BY <1>3, <2>2, <2>3 DEF s
<1>7. CASE s.request = "inline_mode"
  <2>1. O!Applied(s) = [InForce EXCEPT !.inline = s.value]
    BY <1>4, <1>7 DEF O!Applied
  <2>2. O!Applied(s) = View(InSet, s.value, n)
    BY <1>1, <2>1 DEF View
  <2>3. SetAfter(InSet, s) = InSet /\ InlineAfter(i, s) = s.value /\ SniffingAfter(n, s) = n
    BY <1>7 DEF SetAfter, InlineAfter, SniffingAfter
  <2> QED BY <1>3, <2>2, <2>3 DEF s
<1>8. CASE s.request = "radio_mode"
  <2>1. O!Applied(s) = [InForce EXCEPT !.sniffing = s.value, !.inline = @ /\ ~s.value]
    BY <1>4, <1>8 DEF O!Applied
  <2>2. O!Applied(s) = View(InSet, i /\ ~s.value, s.value)
    <3> DEFINE b == i /\ ~s.value
    <3>1. O!Applied(s) = [InForce EXCEPT !.sniffing = s.value, !.inline = b]
      BY <1>1, <2>1 DEF View
    <3> HIDE DEF b
    <3>2. O!Applied(s) = View(InSet, b, s.value)
      BY <1>1, <3>1 DEF View
    <3> QED BY <3>2 DEF b
  <2>3. SetAfter(InSet, s) = InSet /\ SniffingAfter(n, s) = s.value
        /\ InlineAfter(i, s) = (i /\ ~s.value)
    BY <1>8 DEF SetAfter, InlineAfter, SniffingAfter
  <2> QED BY <1>3, <2>2, <2>3 DEF s
<1>9. CASE s.request = "cont_carrier"
  <2>1. O!Applied(s) = InForce
    BY <1>4, <1>9 DEF O!Applied
  <2>2. SetAfter(InSet, s) = InSet /\ InlineAfter(i, s) = i /\ SniffingAfter(n, s) = n
    BY <1>9 DEF SetAfter, InlineAfter, SniffingAfter
  <2> QED BY <1>1, <1>3, <2>1, <2>2 DEF s
<1> QED BY <1>2, <1>5, <1>6, <1>7, <1>8, <1>9, SetupTyped DEF Requests

\* The thread serves a request.
LEMMA SetupServed ==
  ASSUME Typed, Typed', OrderInv, Configure \/ StartSniffer \/ StopSniffer, LawfulHost
  PROVE  OrderInv' /\ Mapped
<1>1. /\ pc = "run" /\ command.type = "setup" /\ EndCommand
      /\ UNCHANGED <<host, awaiting, stack, command_queue, in_ep>>
  BY DEF Configure, StartSniffer, StopSniffer, hostVars
<1>2. /\ ToDo # << >> /\ Head(ToDo) = command /\ command \in Commands /\ ToDo' = Tail(ToDo)
      /\ ToDo \in Seq(Commands)
  BY <1>1, InHand, ToDoDone, ToDoParts DEF OrderInv, Working
<1>3. InForce' = After(InForce, command)
  BY ConfigureTakes, SnifferModeTakes
<1>4. HostView' = HostView
  BY <1>1 DEF HostView
<1>5. Linked(ToDo, InForce, HostView)'
  BY <1>2, <1>3, <1>4, LinkedTail DEF OrderInv
<1>6. sniffer_loop' = sniffer_loop /\ command' = Nothing
      /\ pc' = IF sniffer_loop THEN "poll" ELSE "top"
  BY <1>1 DEF EndCommand
<1>7. command.setup \in Setups /\ state \in States /\ rf \in Registers
  BY <1>1, <1>2 DEF Commands, Typed, SettingsTyped
<1>8. Answering'
  <2>1. ~state.sniffer_mode /\ ~Enters(command) => ~state'.sniffer_mode
    <3>1. CASE Configure
      <4>1. state'.sniffer_mode = state.sniffer_mode
        <5>1. InForce'.sniffing = InForce.sniffing
          BY <1>1, <1>3, <3>1 DEF Configure, After, View, SniffingAfter
        <5> QED BY <5>1 DEF InForce
      <4> QED BY <4>1
    <3>2. CASE StartSniffer
      BY <3>2 DEF StartSniffer, Enters
    <3>3. CASE StopSniffer
      BY <1>7, <3>3 DEF StopSniffer, States
    <3> QED BY <3>1, <3>2, <3>3
  <2>2. ~Awaits(command)
    BY <1>1 DEF Awaits
  <2> QED BY <1>1, <1>2, <1>6, <2>1, <2>2, AnsweringServed DEF OrderInv
<1>9. Control'
  <2>1. state'.ack_enabled <=> rf'.ack
    <3> DEFINE s == command.setup
    <3>1. CASE Configure /\ s.request = "ack_enable"
      <4>1. /\ state' = [[state EXCEPT !.inline_mode = FALSE]
                           EXCEPT !.ack_enabled = s.value]
            /\ rf' = [rf EXCEPT !.ack = s.value]
        BY <3>1 DEF Configure, StateAfter, RfAfter
      <4> QED BY <1>7, <4>1 DEF States, Registers
    <3>2. CASE ~Configure \/ s.request # "ack_enable"
      <4>1. rf'.ack = rf.ack
        <5>1. InForce'.set.ack = InForce.set.ack
          <6>1. InForce'.set = SetAfter(InSet, s)
            BY <1>1, <1>3, InForceParts DEF After, View
          <6>2. s.request # "ack_enable"
            BY <3>2 DEF Configure, StartSniffer, StopSniffer
          <6>3. InSet = Settings(InSet.channel, InSet.datarate, InSet.ack, InSet.address)
            BY InForceParts DEF Settings
          <6>4. SetAfter(InSet, s).ack = InSet.ack
            BY <6>2, <6>3 DEF SetAfter, Settings
          <6> QED BY <6>1, <6>4, InForceParts
        <5>2. rf \in Registers /\ rf' \in Registers
          BY DEF Typed, SettingsTyped
        <5>3. InForce.set.ack = rf.ack /\ InForce'.set.ack = rf'.ack
          <6>1. InSet.ack = rf.ack /\ InSet'.ack = rf'.ack
            <7>1. \A c, d : [rf EXCEPT !.channel = c, !.datarate = d].ack = rf.ack
                  /\ [rf' EXCEPT !.channel = c, !.datarate = d].ack = rf'.ack
              BY <5>2 DEF Registers
            <7> QED BY <7>1 DEF InSet
          <6>2. InForce.set = InSet /\ InForce'.set = InSet'
            BY DEF InForce, InSet
          <6> QED BY <6>1, <6>2
        <5> QED BY <5>1, <5>3
      <4>2. state'.ack_enabled = state.ack_enabled
        <5>1. CASE Configure
          <6> DEFINE c == s.value % 256
          <6>1. state' \in {state, [state EXCEPT !.inline_mode = s.value],
                            [state EXCEPT !.inline_mode = FALSE],
                            [[state EXCEPT !.inline_mode = FALSE] EXCEPT !.channel = c],
                            [[state EXCEPT !.inline_mode = FALSE]
                               EXCEPT !.datarate = s.value]}
            BY <3>2, <5>1 DEF Configure, StateAfter
          <6> HIDE DEF c
          <6> QED BY <1>7, <6>1 DEF States
        <5>2. CASE StartSniffer \/ StopSniffer
          BY <1>7, <5>2 DEF StartSniffer, StopSniffer, States
        <5> QED BY <5>1, <5>2
      <4> QED BY <4>1, <4>2 DEF OrderInv, Control
    <3> QED BY <3>1, <3>2
  <2>2. OneRate => rf'.datarate = 2
    <3> SUFFICES ASSUME OneRate PROVE rf'.datarate = 2
      OBVIOUS
    <3>1. rf.datarate = 2
      BY DEF OrderInv, Control
    <3>2. CASE Configure
      <4> DEFINE s == command.setup
      <4>1. s.request = "datarate" => s.value = 2
        BY <1>7 DEF OneRate
      <4>2. rf' = RfAfter(s)
        BY <3>2 DEF Configure
      <4> HIDE DEF s
      <4> QED BY <1>7, <3>1, <4>1, <4>2 DEF RfAfter, OnChannel, Registers
    <3>3. CASE StartSniffer \/ StopSniffer
      BY <3>1, <3>3 DEF StartSniffer, StopSniffer
    <3> QED BY <3>2, <3>3
  <2> QED BY <1>1, <1>6, <2>1, <2>2 DEF OrderInv, Control
<1>10. Scanning'
  BY <1>1 DEF OrderInv, Scanning
<1>11. O!Configure
  BY <1>1, <1>2, <1>3, AppliedAsAfter DEF O!Configure, O!Serve
<1> QED BY <1>5, <1>8, <1>9, <1>10, <1>11 DEF OrderInv, Mapped, O!Next

\* The thread takes a command from the queue.  In sniffer mode it drops a packet too
\* short to hold an address, which InOrder counts as broadcast.
LEMMA CommandTaken ==
  ASSUME Typed, OrderInv, GetCommand
  PROVE  OrderInv' /\ Mapped
<1> DEFINE c == Head(ToDo)
<1>1. /\ pc = "top" /\ command_queue # << >>
      /\ UNCHANGED <<host, awaiting, stack, state, rf, in_ep>>
  BY DEF GetCommand, hostVars, driverVars
<1>2. \/ /\ state.sniffer_mode /\ command'.type = "data"
         /\ pc' = "top" /\ sniffer_loop' = FALSE
      \/ pc' = "lock" /\ sniffer_loop' = state.sniffer_mode
  BY DEF GetCommand
<1>3. /\ ToDo # << >> /\ Head(ToDo) = command' /\ ToDo \in Seq(Commands)
      /\ Working' => ToDo' = ToDo
      /\ ~Working' => ToDo' = Tail(ToDo)
  BY InHand, ToDoTaken, ToDoParts DEF OrderInv
<1>4. c \in Commands /\ c # Nothing
  <2>1. c \in Commands
    BY <1>3, HeadTailProperties
  <2> QED BY <2>1 DEF Commands, Nothing
<1>5. InForce' = InForce /\ HostView' = HostView
  BY <1>1 DEF InForce, HostView
<1>6. Scanning'
  BY <1>1 DEF OrderInv, Scanning
<1>7. Control'
  BY <1>1, <1>2, <1>3, <1>4, <1>5 DEF OrderInv, Control
<1>8. CASE pc' = "lock"
  <2>1. ToDo' = ToDo
    BY <1>3, <1>8 DEF Working
  <2>2. Answering'
    BY <1>1, <1>2, <1>8, <2>1, AnsweringStays DEF OrderInv
  <2> QED BY <1>5, <1>6, <1>7, <2>1, <2>2 DEF OrderInv, Mapped
<1>9. CASE pc' # "lock"
  <2>1. ToDo' = Tail(ToDo) /\ state.sniffer_mode /\ c.type = "data"
    BY <1>2, <1>3, <1>9 DEF Working
  <2>2. Fits(c, InForce) /\ Linked(Tail(ToDo), After(InForce, c), HostView)
    BY <1>3, LinkedTail DEF OrderInv
  <2>3. /\ c.broadcast = TRUE /\ c.inline = FALSE /\ c.awaited = FALSE
        /\ c.want = InForce.set /\ After(InForce, c) = InForce
    <3>1. InForce = View(InSet, state.inline_mode, state.sniffer_mode)
          /\ state.sniffer_mode = TRUE /\ InForce.set = InSet
      BY <2>1, InForceParts
    <3>2. c.broadcast = TRUE /\ c.inline = FALSE
      BY <2>1, <2>2, <3>1 DEF Fits, View
    <3>3. c.awaited = FALSE /\ c.want = InForce.set
      BY <2>1, <2>2, <3>2 DEF Fits
    <3> QED BY <2>1, <3>1, <3>2, <3>3 DEF After, View
  <2>4. Answering'
    <3>1. ~Awaits(c)
      BY <2>3 DEF Awaits
    <3> QED BY <1>1, <1>3, <2>1, <3>1, AnsweringServed DEF OrderInv
  <2>5. O!Broadcast
    <3>1. InForce.sniffing = state.sniffer_mode
      BY DEF InForce
    <3> QED BY <1>3, <1>5, <2>1, <2>3, <3>1 DEF O!Broadcast, O!Serve
  <2> QED BY <1>5, <1>6, <1>7, <2>1, <2>2, <2>3, <2>4, <2>5 DEF OrderInv, Mapped, O!Next
<1> QED BY <1>8, <1>9

\* Steps between two tests of the thread, and the sniffer's packets received.
LEMMA ThreadGoesOn ==
  ASSUME Typed, OrderInv,
         NoCommand \/ LockMutex \/ SendFirst \/ SnifferRx \/ UNCHANGED vars
  PROVE  OrderInv' /\ Mapped
<1>1. UNCHANGED <<host, awaiting, stack, command_queue, command, state, rf, in_ep>>
  BY DEF NoCommand, LockMutex, SendFirst, SnifferRx, vars, hostVars, driverVars, threadVars
<1>2. \/ pc = "top" /\ pc' = "poll" /\ state.sniffer_mode /\ sniffer_loop' = TRUE
      \/ pc = "lock" /\ pc' = "run" /\ sniffer_loop' = sniffer_loop
      \/ pc = "sendFirst" /\ pc' = "check" /\ sniffer_loop' = sniffer_loop
      \/ UNCHANGED <<pc, sniffer_loop>>
  BY DEF NoCommand, LockMutex, SendFirst, SnifferRx, vars, threadVars
<1>3. InForce' = InForce /\ HostView' = HostView
  BY <1>1 DEF InForce, HostView
<1>4. ToDo' = ToDo
  <2>1. Waiting' = Waiting /\ (Working' <=> Working)
    BY <1>1, <1>2 DEF Waiting, Working
  <2> QED BY <1>1, <2>1, ToDoStays
<1>5. Answering'
  BY <1>1, <1>2, <1>4, AnsweringStays DEF OrderInv
<1>6. Control'
  BY <1>1, <1>2, <1>3 DEF OrderInv, Control
<1>7. Scanning'
  BY <1>1, <1>2 DEF OrderInv, Scanning
<1> QED BY <1>3, <1>4, <1>5, <1>6, <1>7 DEF OrderInv, Mapped

\* The thread hands a sniffed packet to a host in sniffer mode.
LEMMA SnifferPolled ==
  ASSUME Typed, OrderInv, PollSniffer
  PROVE  OrderInv' /\ Mapped
<1>1. /\ pc = "poll" /\ pc' = "top" /\ sniffer_loop' = FALSE
      /\ in_ep' = in_ep \/ (in_ep = Nothing /\ in_ep'.type = "record")
      /\ UNCHANGED <<host, awaiting, stack, command_queue, command, state, rf>>
  BY DEF PollSniffer, Write, hostVars, driverVars
<1>2. InForce' = InForce /\ HostView' = HostView
  BY <1>1 DEF InForce, HostView
<1>3. ToDo' = ToDo
  BY <1>1, ToDoStays DEF Waiting, Working
<1>4. Answering'
  <2>1. sniffer_loop
    BY <1>1 DEF OrderInv, Control
  <2>2. host.mode # "off" /\ \A i \in 1..Len(ToDo) : ~Awaits(ToDo[i])
    BY <2>1 DEF OrderInv, Answering, Unsniffed
  <2>3. awaiting => in_ep.type = "answer"
    BY <2>2 DEF OrderInv, Answering, AnswerOwed, Awaits
  <2>4. AnswerOwed'
    BY <1>1, <2>3 DEF AnswerOwed, Nothing
  <2> QED BY <1>1, <1>3, <2>2, <2>4 DEF OrderInv, Answering
<1>5. Control'
  BY <1>1, <1>2 DEF OrderInv, Control
<1>6. Scanning'
  BY <1>1 DEF OrderInv, Scanning
<1> QED BY <1>2, <1>3, <1>4, <1>5, <1>6 DEF OrderInv, Mapped

\* The thread takes over an inline header and goes on to send.
LEMMA Prepared ==
  ASSUME Typed, Typed', OrderInv, Prepare
  PROVE  OrderInv' /\ Mapped
<1>1. /\ pc = "run" /\ command.type = "data" /\ ~sniffer_loop
      /\ pc' \in {"sendFirst", "check"}
      /\ pc' = "sendFirst" => ~state.inline_mode /\ ~state.ack_enabled
      /\ UNCHANGED <<host, awaiting, stack, command_queue, command, sniffer_loop, in_ep>>
  BY DEF Prepare, hostVars
<1>2. ~state.sniffer_mode
  BY <1>1 DEF OrderInv, Control
<1>3. /\ ToDo # << >> /\ Head(ToDo) = command /\ command \in Commands
      /\ ToDo \in Seq(Commands) /\ ToDo' = ToDo
  <2>1. Waiting' = Waiting /\ Working' /\ Working
    BY <1>1 DEF Waiting, Working
  <2> QED BY <1>1, <2>1, InHand, ToDoFirst, ToDoParts, ToDoStays DEF OrderInv
<1>4. HostView' = HostView
  BY <1>1 DEF HostView
<1>5. Fits(command, InForce)
  BY <1>3, LinkedTail DEF OrderInv
<1>6. CASE state.inline_mode
  <2>1. /\ InForce' = View(command.want, TRUE, FALSE) /\ InForce = View(InSet, TRUE, FALSE)
        /\ OneRate /\ command.want.datarate = 2 /\ (state'.ack_enabled = rf'.ack)
    BY <1>2, <1>5, <1>6, HeaderTakes DEF OrderInv, Control
  <2>2. /\ InForce'.set = command.want /\ InForce.inline = TRUE /\ InForce.sniffing = FALSE
        /\ InForce'.inline = TRUE /\ InForce'.sniffing = FALSE
        /\ state'.sniffer_mode = FALSE /\ state'.inline_mode = TRUE
    <3>1. state'.sniffer_mode = InForce'.sniffing /\ state'.inline_mode = InForce'.inline
      BY DEF InForce
    <3> QED BY <2>1, <3>1 DEF View
  <2>3. Fits(command, InForce')
    <3>1. /\ command.broadcast = InForce.sniffing
          /\ command.inline = (InForce.inline /\ ~InForce.sniffing)
          /\ command.awaited = (~command.broadcast /\ (command.inline \/ command.want.ack))
          /\ command.awaited \/ Valid(command.want)
          /\ command.inline => OneRate /\ command.want.datarate = 2
                                 /\ command.want.channel \in 0..255
      BY <1>1, <1>5 DEF Fits
    <3> QED BY <2>2, <3>1 DEF Fits
  <2>4. After(InForce', command) = After(InForce, command)
    BY <1>1, <2>2 DEF After
  <2>5. Linked(ToDo, InForce, HostView)'
    BY <1>3, <1>4, <2>3, <2>4, LinkedFrom DEF OrderInv
  <2>6. O!Adopt
    <3>1. command.inline
      BY <1>1, <1>5, <2>2 DEF Fits
    <3>2. InForce' = [InForce EXCEPT !.set = command.want]
      <4> DEFINE w == command.want
                 x == [InForce EXCEPT !.set = w]
      <4>1. x = [InForce EXCEPT !.set = w] /\ InForce = View(InSet, TRUE, FALSE)
        BY <2>1
      <4> HIDE DEF w, x
      <4>2. x = View(w, TRUE, FALSE)
        BY <4>1 DEF View
      <4> QED BY <2>1, <4>1, <4>2 DEF w
    <3> QED BY <1>1, <1>3, <2>2, <3>1, <3>2 DEF O!Adopt
  <2>7. Answering'
    BY <1>1, <1>2, <1>3, <2>2, AnsweringStays DEF OrderInv
  <2>8. Control'
    <3>1. OneRate => rf'.datarate = 2
      <4>1. InForce'.set = InSet' /\ rf' \in Registers
        BY DEF InForce, InSet, Typed, SettingsTyped
      <4>2. InSet'.datarate = IF state'.datarate = 0 THEN 0 ELSE rf'.datarate
        <5>1. \A c, d : [rf' EXCEPT !.channel = c, !.datarate = d].datarate = d
          BY <4>1 DEF Registers
        <5> QED BY <5>1 DEF InSet
      <4> QED BY <2>1, <2>2, <4>1, <4>2
    <3> QED BY <1>1, <1>6, <2>1, <2>2, <3>1 DEF OrderInv, Control
  <2>9. Scanning'
    BY <1>1 DEF OrderInv, Scanning
  <2> QED BY <2>5, <2>6, <2>7, <2>8, <2>9 DEF OrderInv, Mapped, O!Next
<1>7. CASE ~state.inline_mode
  <2>1. state' = state /\ rf' = rf
    BY <1>7 DEF Prepare
  <2>2. InForce' = InForce
    BY <2>1 DEF InForce
  <2>3. Answering'
    BY <1>1, <1>3, <2>1, AnsweringStays DEF OrderInv
  <2>4. command.want = InForce.set
    <3>1. InForce.inline = state.inline_mode
      BY DEF InForce
    <3>2. ~command.inline
      BY <1>1, <1>5, <1>7, <3>1 DEF Fits
    <3> QED BY <1>1, <1>5, <3>2 DEF Fits
  <2>5. Control'
    BY <1>1, <1>2, <2>1, <2>2, <2>4 DEF OrderInv, Control
  <2>6. Scanning'
    BY <1>1 DEF OrderInv, Scanning
  <2> QED BY <1>3, <1>4, <2>2, <2>3, <2>5, <2>6 DEF OrderInv, Mapped
<1> QED BY <1>6, <1>7

\* What the thread works on, when it is a packet.
LEMMA PacketInHand ==
  ASSUME Typed, OrderInv, Working, command.type = "data"
  PROVE  /\ ToDo # << >> /\ Head(ToDo) = command /\ ToDo \in Seq(Commands)
         /\ command \in Commands /\ command # Nothing /\ ~Enters(command)
         /\ command.broadcast = state.sniffer_mode
         /\ command.inline = (state.inline_mode /\ ~state.sniffer_mode)
         /\ command.inline \/ command.want = InSet
         /\ command.awaited = (~command.broadcast /\ (command.inline \/ command.want.ack))
         /\ command.awaited \/ Valid(command.want)
         /\ Linked(Tail(ToDo), After(InForce, command), HostView)
<1>1. command # Nothing /\ ~Enters(command)
  BY DEF Nothing, Enters
<1>2. /\ ToDo # << >> /\ Head(ToDo) = command /\ command \in Commands
      /\ ToDo \in Seq(Commands)
  BY <1>1, InHand, ToDoFirst, ToDoParts DEF OrderInv
<1>3. Fits(command, InForce) /\ Linked(Tail(ToDo), After(InForce, command), HostView)
  BY <1>2, LinkedTail DEF OrderInv
<1>4. InForce.sniffing = state.sniffer_mode /\ InForce.inline = state.inline_mode
      /\ InForce.set = InSet
  BY DEF InForce, InSet
<1> QED BY <1>1, <1>2, <1>3, <1>4 DEF Fits

\* The settings in force are those the radio holds if it can handle them, and
\* otherwise they are invalid.
LEMMA InSetValid ==
  ASSUME Typed
  PROVE  /\ Handled => InSet = rf /\ Valid(InSet)
         /\ ~Handled => ~Valid(InSet)
<1>1. state.channel \in Nat /\ rf \in Registers
  BY InForceParts DEF Typed, SettingsTyped
<1>2. CASE Handled
  <2>1. ~(state.channel > 100) /\ state.datarate # 0
    BY <1>1, <1>2 DEF Handled
  <2>2. InSet = rf
    BY <1>1, <2>1 DEF InSet, Registers
  <2>3. rf.channel <= 100 /\ rf.datarate # 0
    <3>1. rf.channel \in 0..100 /\ rf.datarate \in 1..2
      BY InForceParts
    <3> QED BY <3>1
  <2> QED BY <1>2, <2>2, <2>3 DEF Valid
<1>3. CASE ~Handled
  <2>1. state.channel > 100 \/ state.datarate = 0
    BY <1>1, <1>3 DEF Handled
  <2>2. (state.channel > 100 => ~(state.channel <= 100))
    BY <1>1
  <2>3. /\ state.channel > 100 => InSet.channel = state.channel
        /\ state.datarate = 0 => InSet.datarate = 0
    BY InForceParts DEF Settings
  <2> QED BY <1>3, <2>1, <2>2, <2>3 DEF Valid
<1> QED BY <1>2, <1>3

\* A packet served with the settings it was submitted with changes nothing else.
LEMMA PacketServed ==
  ASSUME Typed, OrderInv, Working, command.type = "data", EndCommand,
         command.want = InSet, pc \in {"run", "check"},
         UNCHANGED <<host, awaiting, stack, command_queue, state, rf>>,
         \/ ~command.awaited /\ in_ep' = in_ep
         \/ command.awaited /\ in_ep'.type = "answer" /\ in_ep'.awaited
  PROVE  OrderInv' /\ ToDo' = Tail(ToDo) /\ InForce' = InForce
<1>1. sniffer_loop' = sniffer_loop /\ pc' = IF sniffer_loop THEN "poll" ELSE "top"
  BY DEF EndCommand
<1>2. InForce' = InForce /\ HostView' = HostView
  BY DEF InForce, HostView
<1>3. ToDo' = Tail(ToDo)
  BY PacketInHand, ToDoDone
<1>4. After(InForce, command) = InForce
  BY InForceParts DEF After, View
<1>5. Linked(ToDo, InForce, HostView)'
  BY <1>2, <1>3, <1>4, PacketInHand
<1>6. Answering'
  BY <1>1, <1>3, PacketInHand, AnsweringServed DEF OrderInv, Awaits
<1>7. Control'
  BY <1>1, <1>2 DEF OrderInv, Control
<1>8. Scanning'
  BY DEF OrderInv, Scanning
<1> QED BY <1>2, <1>3, <1>5, <1>6, <1>7, <1>8 DEF OrderInv

\* A packet is broadcast from sniffer mode.
LEMMA BroadcastServed ==
  ASSUME Typed, OrderInv, Broadcast
  PROVE  OrderInv' /\ Mapped
<1>1. /\ pc = "run" /\ command.type = "data" /\ sniffer_loop /\ EndCommand
      /\ UNCHANGED <<host, awaiting, stack, command_queue, state, rf, in_ep>>
  BY DEF Broadcast, hostVars, driverVars
<1>2. Working /\ state.sniffer_mode
  BY <1>1 DEF OrderInv, Control, Working
<1>3. command.broadcast /\ ~command.awaited /\ command.want = InSet
  <2>1. state.sniffer_mode \in BOOLEAN
    BY InForceParts
  <2> QED BY <1>1, <1>2, <2>1, PacketInHand
<1>4. OrderInv' /\ ToDo' = Tail(ToDo) /\ InForce' = InForce
  BY <1>1, <1>2, <1>3, PacketServed
<1>5. InForce.sniffing = state.sniffer_mode /\ InForce.set = InSet
  BY DEF InForce, InSet
<1>6. O!Broadcast
  BY <1>1, <1>2, <1>3, <1>4, <1>5, PacketInHand DEF O!Broadcast, O!Serve
<1> QED BY <1>4, <1>6 DEF Mapped, O!Next

\* A packet is sent, or refused, and answered if the host awaits it.
LEMMA PacketAnswered ==
  ASSUME Typed, OrderInv, SendPacket \/ RefusePacket
  PROVE  OrderInv' /\ Mapped
<1>1. /\ pc = "check" /\ EndCommand
      /\ UNCHANGED <<host, awaiting, stack, command_queue, state, rf>>
  BY DEF SendPacket, RefusePacket, hostVars, driverVars
<1>2. Working /\ command.type = "data" /\ ~state.sniffer_mode /\ command.want = InSet
  <2>1. InForce.set = InSet
    BY DEF InForce, InSet
  <2> QED BY <1>1, <2>1 DEF OrderInv, Control, Working
<1>3. /\ ~command.broadcast /\ command.inline = state.inline_mode
      /\ command.awaited <=> state.inline_mode \/ state.ack_enabled
  <2>1. /\ state.sniffer_mode \in BOOLEAN /\ state.inline_mode \in BOOLEAN
        /\ InSet.ack = rf.ack
    BY InForceParts DEF Settings
  <2>2. state.ack_enabled <=> rf.ack
    BY DEF OrderInv, Control
  <2> QED BY <1>2, <2>1, <2>2, PacketInHand
<1>4. command.awaited => in_ep = Nothing
  <2>1. Len(ToDo) \in Nat \ {0} /\ Head(ToDo) = ToDo[1]
    BY <1>2, PacketInHand, EmptySeq
  <2>2. 1 \in 1..Len(ToDo) /\ ToDo[1] = command
    BY <1>2, <2>1, PacketInHand
  <2> QED BY <1>2, <2>2 DEF OrderInv, Answering, Awaits
<1>5. \/ ~command.awaited /\ in_ep' = in_ep
      \/ command.awaited /\ in_ep'.type = "answer" /\ in_ep'.awaited
  <2>1. CASE SendPacket
    BY <1>3, <1>4, <2>1 DEF SendPacket, Answers, Write, Answer
  <2>2. CASE RefusePacket
    <3>1. command.awaited
      BY <1>2, <2>2, InSetValid, PacketInHand DEF RefusePacket
    <3> QED BY <1>4, <2>2, <3>1 DEF RefusePacket, Refuse, Write, Answer
  <2> QED BY <2>1, <2>2
<1>6. OrderInv' /\ ToDo' = Tail(ToDo) /\ InForce' = InForce
  BY <1>1, <1>2, <1>5, PacketServed
<1>7. InForce.sniffing = state.sniffer_mode /\ InForce.set = InSet
      /\ InForce.inline = state.inline_mode
  BY DEF InForce, InSet
<1>8. O!Send
  BY <1>2, <1>3, <1>6, <1>7, PacketInHand DEF O!Send, O!Serve
<1> QED BY <1>6, <1>8 DEF Mapped, O!Next

-----------------------------------------------------------------------------
\* The start.
LEMMA OrderInit == Init => OrderInv /\ O!Init
<1> SUFFICES ASSUME Init PROVE OrderInv /\ O!Init
  OBVIOUS
<1> DEFINE w == Settings(42, 2, TRUE, "e7")
<1>1. /\ host = [set |-> w, inline |-> FALSE, mode |-> "off"] /\ awaiting = FALSE
      /\ stack = Idle /\ command_queue = << >> /\ pc = "top" /\ sniffer_loop = FALSE
      /\ rf = w /\ in_ep = Nothing
      /\ state = [channel |-> 42, datarate |-> 2, ack_enabled |-> TRUE,
                  inline_mode |-> FALSE, sniffer_mode |-> FALSE, scan_result |-> << >>]
  BY DEF Init
<1>2. ToDo = << >>
  <2>1. ToDo = (<< >> \o << >>) \o << >>
    BY <1>1 DEF ToDo, Idle
  <2> QED BY <2>1
<1>3. InForce = View(w, FALSE, FALSE)
  <2>1. ~(state.channel > 100) /\ state.datarate # 0
    BY <1>1
  <2>2. InSet = rf
    BY <1>1, <2>1 DEF InSet, Settings
  <2> QED BY <1>1, <2>2 DEF InForce, InSet, View
<1>4. HostView = View(w, FALSE, FALSE)
  BY <1>1 DEF HostView
<1>5. Linked(ToDo, InForce, HostView)
  BY <1>2, <1>3, <1>4, LinkedEmpty
<1>6. Answering
  BY <1>1, <1>2 DEF Answering, Unsniffed, Nothing, AnswerOwed
<1>7. Control
  BY <1>1 DEF Control, Settings
<1>8. Scanning
  BY <1>1 DEF Scanning, Idle
<1>9. O!Init
  BY <1>2, <1>3 DEF O!Init, View, Settings
<1> QED BY <1>5, <1>6, <1>7, <1>8, <1>9 DEF OrderInv

\* Every step keeps the invariant and is a step of InOrder or none.
LEMMA OrderStep ==
  ASSUME Typed, Typed', OrderInv, [Next]_vars, LawfulHost
  PROVE  OrderInv' /\ Mapped
<1>1. CASE Host
  BY <1>1, SetupSubmitted, DataSubmitted, ScanAsked, HostWaits DEF Host
<1>2. CASE UsbStack
  BY <1>2, StackServes
<1>3. CASE UsbThread
  BY <1>3, CommandTaken, ThreadGoesOn, SetupServed, BroadcastServed, Prepared,
     PacketAnswered, SnifferPolled DEF UsbThread
<1>4. CASE SnifferRx \/ UNCHANGED vars
  BY <1>4, ThreadGoesOn
<1> QED BY <1>1, <1>2, <1>3, <1>4 DEF Next

\* For every lawful host and every length of the queues, the commands to do lead from
\* what is in force in the driver to what the host believes.
THEOREM OrderInvariant ==
  ASSUME LawfulHost
  PROVE  Spec => [](Typed /\ OrderInv)
<1>1. Init => Typed /\ OrderInv
  BY TypedInit, OrderInit
<1>2. Typed /\ OrderInv /\ [Next]_vars => (Typed /\ OrderInv)'
  BY TypedStep, OrderStep
<1> QED BY <1>1, <1>2, PTL DEF Spec

\* The two queues, the mutex and the callbacks implement InOrder's single line: requests
\* and packets are served one by one, in the order submitted, each with the whole effect
\* of those before it and none of those after it.
THEOREM CommandsServedInOrder ==
  ASSUME LawfulHost
  PROVE  Spec => ServesInOrder
<1>1. Init => O!Init
  BY OrderInit
<1>2. Typed /\ OrderInv /\ [Next]_vars => [O!Next]_<<ToDo, InForce>>
  BY TypedStep, OrderStep DEF Mapped
<1> QED BY <1>1, <1>2, OrderInvariant, PTL DEF Spec, ServesInOrder, O!Spec

\* Each packet is sent with the settings its host had asked for, and refused only if the
\* radio cannot handle them, whatever is queued before and behind it.
THEOREM PacketsSentAsConfigured ==
  ASSUME LawfulHost
  PROVE  Spec => []SentAsConfigured
<1>1. Typed /\ OrderInv => SentAsConfigured
  <2> SUFFICES ASSUME Typed, OrderInv PROVE SentAsConfigured
    OBVIOUS
  <2>1. state.sniffer_mode \in BOOLEAN /\ state.inline_mode \in BOOLEAN
        /\ InForce.set = InSet /\ InSet.ack = rf.ack
    BY InForceParts DEF Settings
  <2>2. pc = "sendFirst" => AsWanted
    <3> SUFFICES ASSUME pc = "sendFirst" PROVE AsWanted
      OBVIOUS
    <3>1. /\ command.type = "data" /\ command.want = InSet /\ ~state.inline_mode
          /\ ~rf.ack /\ Working
      BY <2>1 DEF OrderInv, Control, Working
    <3>2. ~command.awaited
      BY <2>1, <3>1, PacketInHand
    <3>3. Valid(command.want)
      BY <3>1, <3>2, PacketInHand
    <3> QED BY <3>1, <3>3, InSetValid DEF AsWanted
  <2>3. pc = "check" => IF Handled THEN AsWanted ELSE ~Valid(command.want)
    <3>1. pc = "check" => command.want = InSet
      BY <2>1 DEF OrderInv, Control
    <3> QED BY <3>1, InSetValid DEF AsWanted
  <2>4. pc = "run" /\ command.type = "data" =>
          IF sniffer_loop
          THEN command.broadcast /\ Valid(command.want) /\ rf = command.want
          ELSE ~command.broadcast /\ command.inline = state.inline_mode
    <3> SUFFICES ASSUME pc = "run", command.type = "data"
                 PROVE  IF sniffer_loop
                        THEN command.broadcast /\ Valid(command.want) /\ rf = command.want
                        ELSE ~command.broadcast /\ command.inline = state.inline_mode
      OBVIOUS
    <3>1. Working /\ (sniffer_loop <=> state.sniffer_mode)
      BY DEF OrderInv, Control, Working
    <3>2. CASE sniffer_loop
      <4>1. command.broadcast /\ ~command.awaited /\ command.want = InSet
        BY <2>1, <3>1, <3>2, PacketInHand
      <4>2. Valid(command.want)
        BY <3>1, <4>1, PacketInHand
      <4> QED BY <3>2, <4>1, <4>2, InSetValid
    <3>3. CASE ~sniffer_loop
      BY <2>1, <3>1, <3>3, PacketInHand
    <3> QED BY <3>2, <3>3
  <2> QED BY <2>2, <2>3, <2>4 DEF SentAsConfigured
<1> QED BY <1>1, OrderInvariant, PTL

\* An answer written to the IN endpoint is that of a packet whose answer the host is
\* waiting for, never one left over.
THEOREM AnswersAreExpected ==
  ASSUME LawfulHost
  PROVE  Spec => []AnswersMatch
<1>1. OrderInv => AnswersMatch
  BY DEF OrderInv, Answering, AnswersMatch
<1> QED BY <1>1, OrderInvariant, PTL

\* As long as the host waits for an answer, its packet is on the way or the answer is in
\* the endpoint: no change of mode, queue or command loses either.
THEOREM AnswerNotLost ==
  ASSUME LawfulHost
  PROVE  Spec => []AnswerOwed
<1>1. OrderInv => AnswerOwed
  BY DEF OrderInv, Answering
<1> QED BY <1>1, OrderInvariant, PTL

\* A scan transmits on each of its channels with the rate, ACK and address the host had
\* asked for when it started the scan.
THEOREM ScanKeepsSettings ==
  ASSUME LawfulHost
  PROVE  Spec => ScanUsesSettings
<1>1. Typed /\ OrderInv /\ [Next]_vars =>
        [ScanChannel /\ Transmits => rf' = [stack.want EXCEPT !.channel = stack.next]]_vars
  <2> SUFFICES ASSUME Typed, OrderInv, ScanChannel
               PROVE  rf' = [stack.want EXCEPT !.channel = stack.next]
    OBVIOUS
  <2>1. stack.at = "scan" /\ rf' = OnChannel(stack.next)
    BY DEF ScanChannel
  <2>2. /\ stack.next \in 0..255 /\ stack.want \in Wants /\ stack.next <= stack.stop
        /\ stack.stop \in 0..100 /\ rf = [stack.want EXCEPT !.channel = rf.channel]
    <3>1. stack \in [at : {"scanLock", "scan"}, next : 0..255, stop : 0..255, want : Wants]
          /\ stack.next <= stack.stop
      BY <2>1 DEF Typed, StackTyped, Idle
    <3> QED BY <2>1, <3>1 DEF OrderInv, Scanning
  <2>3. stack.next <= 100
    <3>1. \A a \in 0..255, b \in 0..100 : a <= b => a <= 100
      OBVIOUS
    <3> QED BY ONLY <2>2, <3>1
  <2>4. rf' = [rf EXCEPT !.channel = stack.next]
    BY <2>1, <2>3 DEF OnChannel
  <2> QED BY <2>2, <2>4 DEF Wants
<1> QED BY <1>1, OrderInvariant, PTL DEF Spec, ScanUsesSettings
=============================================================================
