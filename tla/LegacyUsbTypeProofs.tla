------------------------ MODULE LegacyUsbTypeProofs ------------------------
(***************************************************************************)
(* Proof of TypeOK: for every host and every length of the queues, both    *)
(* queues and the scan's result stay within their arrays, and the driver   *)
(* is only ever given a channel and a rate that the radio has, whatever    *)
(* the two threads do to the settings between them.                        *)
(*                                                                         *)
(* From the types follow two seams: with the one owner of usb_radio_mutex  *)
(* (Holders) the two threads never wait for each other, and with the       *)
(* values of the modes (ModesTyped) the pipeline asks of the driver only   *)
(* what module Driver offers.                                              *)
(***************************************************************************)
EXTENDS LegacyUsbProofs

Addresses == {"e7"} \cup {h.address : h \in Headers} \cup {s.value : s \in Setups}

Wants == [channel : Nat, datarate : 0..2, ack : BOOLEAN, address : Addresses]

Commands ==
  [type : {"setup"}, setup : Setups]
    \cup [type : {"data"}, data : Datas, want : Wants, inline : BOOLEAN,
          broadcast : BOOLEAN, awaited : BOOLEAN]

HostTyped ==
  /\ host \in [set : Wants, inline : BOOLEAN, mode : {"off", "on", "left"}]
  /\ awaiting \in BOOLEAN

States ==
  [channel : 0..255, datarate : 0..2, ack_enabled : BOOLEAN, inline_mode : BOOLEAN,
   sniffer_mode : BOOLEAN, scan_result : Seq(0..255)]

Registers == [channel : 0..100, datarate : 1..2, ack : BOOLEAN, address : Addresses]

\* A scan under way has a channel to go to, and room for it in its result.
StackTyped ==
  /\ stack \in {Idle} \cup [at : {"put"}, cmd : Commands]
                      \cup [at : {"scanLock", "scan"}, next : 0..255, stop : 0..255,
                            want : Wants]
  /\ stack.at = "scan" =>
       stack.next <= stack.stop /\ Len(state.scan_result) < ScanLength
  /\ usb_radio_mutex \in {"none", "usb", "stack"}

ThreadTyped ==
  /\ command_queue \in Seq(Commands) /\ Len(command_queue) <= QueueLength
  /\ pc \in {"top", "lock", "run", "sendFirst", "check", "poll"}
  /\ command \in Commands \cup {Nothing}

SettingsTyped ==
  /\ state \in States
  /\ Len(state.scan_result) <= ScanLength
  /\ rf \in Registers

Typed ==
  /\ HostTyped /\ StackTyped /\ ThreadTyped /\ SettingsTyped
  /\ in_ep.type \in {"nothing", "answer", "record"}

\* The initial state is of the type.
LEMMA TypedInit == Init => Typed
<1> SUFFICES ASSUME Init PROVE Typed
  OBVIOUS
<1>1. "e7" \in Addresses
  BY DEF Addresses
<1>2. /\ host = [set |-> Settings(42, 2, TRUE, "e7"), inline |-> FALSE, mode |-> "off"]
      /\ rf = Settings(42, 2, TRUE, "e7")
      /\ state = [channel |-> 42, datarate |-> 2, ack_enabled |-> TRUE,
                  inline_mode |-> FALSE, sniffer_mode |-> FALSE, scan_result |-> << >>]
  BY DEF Init
<1>3. Settings(42, 2, TRUE, "e7") \in Wants /\ Settings(42, 2, TRUE, "e7") \in Registers
  BY <1>1 DEF Wants, Registers, Settings
<1>4. HostTyped
  <2>1. awaiting = FALSE
    BY DEF Init
  <2> QED BY <1>2, <1>3, <2>1 DEF HostTyped
<1>5. StackTyped
  BY DEF Init, StackTyped, Idle
<1>6. ThreadTyped
  BY LengthAssumption DEF Init, ThreadTyped, Nothing
<1>7. SettingsTyped
  <2>1. Len(state.scan_result) <= ScanLength
    BY <1>2, LengthAssumption
  <2>2. state \in States
    BY <1>2 DEF States
  <2> QED BY <1>2, <1>3, <2>1, <2>2 DEF SettingsTyped
<1> QED BY <1>4, <1>5, <1>6, <1>7 DEF Init, Typed, Nothing

\* What a request asks for is of the type of what it sets.
LEMMA SetupTyped ==
  ASSUME NEW s \in Setups
  PROVE  /\ s.request \in Requests /\ s.value \in Addresses
         /\ s.request = "channel" => s.value \in Nat /\ s.value % 256 \in 0..255
         /\ s.request = "datarate" => s.value \in 0..2
<1>1. \A c \in Nat : c % 256 \in 0..255
  OBVIOUS
<1>2. s.value \in Addresses
  BY DEF Addresses
<1> QED BY <1>1, <1>2, SetupAssumption

\* The same for the requests that switch something.
LEMMA FlagTyped ==
  ASSUME NEW s \in Setups,
         s.request \in {"ack_enable", "cont_carrier", "inline_mode", "radio_mode"}
  PROVE  s.value \in BOOLEAN
BY FlagAssumption

\* What the host's assignments make of a record of the type.
LEMMA WantsUpdated ==
  ASSUME NEW w \in Wants
  PROVE  /\ \A c \in Nat : [w EXCEPT !.channel = c] \in Wants
         /\ \A r \in 0..2 : [w EXCEPT !.datarate = r] \in Wants
         /\ \A b \in BOOLEAN : [w EXCEPT !.ack = b] \in Wants
         /\ \A a \in Addresses : [w EXCEPT !.address = a] \in Wants
BY DEF Wants

\* What the thread's assignments make of its state, and the driver's of its registers.
LikeState == {x \in States : x.scan_result = state.scan_result}

LEMMA StateUpdated ==
  ASSUME NEW x \in LikeState
  PROVE  /\ \A c \in 0..255 : [x EXCEPT !.channel = c] \in LikeState
         /\ \A d \in 0..2 : [x EXCEPT !.datarate = d] \in LikeState
         /\ \A b \in BOOLEAN : /\ [x EXCEPT !.ack_enabled = b] \in LikeState
                               /\ [x EXCEPT !.inline_mode = b] \in LikeState
                               /\ [x EXCEPT !.sniffer_mode = b] \in LikeState
<1> DEFINE Results == Seq(0..255)
           r == state.scan_result
<1>1. LikeState = {y \in [channel : 0..255, datarate : 0..2, ack_enabled : BOOLEAN,
                          inline_mode : BOOLEAN, sniffer_mode : BOOLEAN,
                          scan_result : Results] : y.scan_result = r}
  BY DEF LikeState, States
<1> HIDE DEF Results, r
<1>2. \A c \in 0..255 : [x EXCEPT !.channel = c] \in LikeState
  BY ONLY x \in LikeState, <1>1
<1>3. \A d \in 0..2 : [x EXCEPT !.datarate = d] \in LikeState
  BY ONLY x \in LikeState, <1>1
<1>4. \A b \in BOOLEAN : [x EXCEPT !.ack_enabled = b] \in LikeState
  BY ONLY x \in LikeState, <1>1
<1>5. \A b \in BOOLEAN : [x EXCEPT !.inline_mode = b] \in LikeState
  BY ONLY x \in LikeState, <1>1
<1>6. \A b \in BOOLEAN : [x EXCEPT !.sniffer_mode = b] \in LikeState
  BY ONLY x \in LikeState, <1>1
<1> QED BY <1>2, <1>3, <1>4, <1>5, <1>6

\* The settings in a header are settings.
LEMMA HeaderTyped == Headers \subseteq Wants
<1> SUFFICES ASSUME NEW h \in Headers PROVE h \in Wants
  OBVIOUS
<1>1. h \in [channel : 0..255, datarate : 0..2, ack : BOOLEAN, address : {h.address}]
  BY HeaderAssumption
<1>2. h.address \in Addresses
  BY DEF Addresses
<1> QED BY <1>1, <1>2 DEF Wants

\* esb_set_channel() is never given what the radio has not.
LEMMA OnChannelTyped ==
  ASSUME rf \in Registers, NEW c \in Nat
  PROVE  OnChannel(c) \in Registers
<1>1. CASE c <= 100
  <2>1. c \in 0..100 /\ OnChannel(c) = [rf EXCEPT !.channel = c]
    BY <1>1 DEF OnChannel
  <2> QED BY <2>1 DEF Registers
<1>2. CASE ~(c <= 100)
  BY <1>2 DEF OnChannel
<1> QED BY <1>1, <1>2

\* The host's steps: what it believes and what it submits.
LEMMA HostKeepsTyped == Typed /\ Host => Typed'
<1> SUFFICES ASSUME Typed, Host PROVE Typed'
  OBVIOUS
<1>1. CASE \E s \in Setups : HostSetup(s)
  <2> PICK s \in Setups : HostSetup(s)
    BY <1>1
  <2>1. host' = Asked(host, s) /\ stack' = [at |-> "put", cmd |-> [type |-> "setup", setup |-> s]]
        /\ UNCHANGED <<awaiting, command_queue, usb_radio_mutex, pc, command, state, rf, in_ep>>
    BY DEF HostSetup, threadVars, driverVars
  <2>2. host' \in [set : Wants, inline : BOOLEAN, mode : {"off", "on", "left"}]
    <3> DEFINE w == host.set
    <3>1. /\ host \in [set : Wants, inline : BOOLEAN, mode : {"off", "on", "left"}]
          /\ w \in Wants /\ host.inline \in BOOLEAN
      BY DEF Typed, HostTyped
    <3>2. \A x \in Wants, b \in BOOLEAN :
            /\ [host EXCEPT !.set = x] \in [set : Wants, inline : BOOLEAN,
                                            mode : {"off", "on", "left"}]
            /\ [host EXCEPT !.set = x, !.inline = FALSE]
                 \in [set : Wants, inline : BOOLEAN, mode : {"off", "on", "left"}]
            /\ [host EXCEPT !.inline = b] \in [set : Wants, inline : BOOLEAN,
                                               mode : {"off", "on", "left"}]
            /\ [host EXCEPT !.mode = "on", !.inline = FALSE]
                 \in [set : Wants, inline : BOOLEAN, mode : {"off", "on", "left"}]
            /\ [host EXCEPT !.mode = IF host.mode = "on" THEN "left" ELSE host.mode]
                 \in [set : Wants, inline : BOOLEAN, mode : {"off", "on", "left"}]
      BY <3>1
    <3>3. CASE s.request = "channel"
      <4>1. host' = [host EXCEPT !.set = [w EXCEPT !.channel = s.value], !.inline = FALSE]
        BY <2>1, <3>3 DEF Asked
      <4>2. [w EXCEPT !.channel = s.value] \in Wants
        <5>1. s.value \in Nat
          BY <3>3, SetupTyped
        <5> QED BY ONLY <3>1, <5>1, WantsUpdated
      <4> QED BY ONLY <4>1, <4>2, <3>2
    <3>4. CASE s.request \in {"address", "sniffer_address"}
      <4>1. \/ host' = [host EXCEPT !.set = [w EXCEPT !.address = s.value], !.inline = FALSE]
            \/ host' = [host EXCEPT !.set = [w EXCEPT !.address = s.value]]
        BY <2>1, <3>4 DEF Asked
      <4>2. [w EXCEPT !.address = s.value] \in Wants
        <5>1. s.value \in Addresses
          BY SetupTyped
        <5> QED BY ONLY <3>1, <5>1, WantsUpdated
      <4>3. CASE host' = [host EXCEPT !.set = [w EXCEPT !.address = s.value],
                                      !.inline = FALSE]
        BY ONLY <4>2, <4>3, <3>2
      <4>4. CASE host' = [host EXCEPT !.set = [w EXCEPT !.address = s.value]]
        BY ONLY <4>2, <4>4, <3>2
      <4> QED BY ONLY <4>1, <4>3, <4>4
    <3>5. CASE s.request = "datarate"
      <4>1. host' = [host EXCEPT !.set = [w EXCEPT !.datarate = s.value], !.inline = FALSE]
        BY <2>1, <3>5 DEF Asked
      <4>2. [w EXCEPT !.datarate = s.value] \in Wants
        <5>1. s.value \in 0..2
          BY <3>5, SetupTyped
        <5> QED BY ONLY <3>1, <5>1, WantsUpdated
      <4> QED BY ONLY <4>1, <4>2, <3>2
    <3>6. CASE s.request = "ack_enable"
      <4>1. host' = [host EXCEPT !.set = [w EXCEPT !.ack = s.value], !.inline = FALSE]
        BY <2>1, <3>6 DEF Asked
      <4>2. [w EXCEPT !.ack = s.value] \in Wants
        <5>1. s.value \in BOOLEAN
          BY <3>6, FlagTyped
        <5> QED BY ONLY <3>1, <5>1, WantsUpdated
      <4> QED BY ONLY <4>1, <4>2, <3>2
    <3>7. CASE s.request = "inline_mode"
      <4>1. host' = [host EXCEPT !.inline = s.value] /\ s.value \in BOOLEAN
        BY <2>1, <3>7, FlagTyped DEF Asked
      <4> QED BY ONLY <4>1, <3>1, <3>2
    <3>8. CASE s.request = "radio_mode"
      <4>1. s.value \in BOOLEAN
        BY <3>8, FlagTyped
      <4>2. \/ host' = [host EXCEPT !.mode = "on", !.inline = FALSE]
            \/ host' = [host EXCEPT !.mode = IF host.mode = "on" THEN "left" ELSE host.mode]
        BY <2>1, <3>8, <4>1 DEF Asked
      <4> QED BY ONLY <4>2, <3>1, <3>2
    <3>9. CASE s.request = "cont_carrier"
      <4>1. host' = host
        BY <2>1, <3>9 DEF Asked
      <4> QED BY <3>1, <4>1
    <3> QED BY <3>3, <3>4, <3>5, <3>6, <3>7, <3>8, <3>9, SetupTyped DEF Requests
  <2>3. StackTyped'
    BY <2>1 DEF Typed, StackTyped, Commands
  <2> QED BY <2>1, <2>2, <2>3 DEF Typed, HostTyped, ThreadTyped, SettingsTyped
<1>2. CASE \E d \in Datas, h \in Headers : HostData(d, h)
  <2> PICK d \in Datas, h \in Headers : HostData(d, h)
    BY <1>2
  <2>1. PICK want \in Wants, inline \in BOOLEAN, answered \in BOOLEAN :
          /\ host' = [host EXCEPT !.set = want] /\ awaiting' = answered
          /\ stack' = [at |-> "put",
                       cmd |-> [type |-> "data", data |-> d, want |-> want,
                                inline |-> inline, broadcast |-> host.mode = "on",
                                awaited |-> answered]]
    <3> DEFINE inline == host.inline /\ host.mode # "on"
               want == IF inline THEN h ELSE host.set
               answered == host.mode # "on" /\ (inline \/ want.ack)
    <3>1. want \in Wants /\ inline \in BOOLEAN /\ answered \in BOOLEAN
      BY HeaderTyped DEF Typed, HostTyped
    <3>2. /\ host' = [host EXCEPT !.set = want] /\ awaiting' = answered
          /\ stack' = [at |-> "put",
                       cmd |-> [type |-> "data", data |-> d, want |-> want,
                                inline |-> inline, broadcast |-> host.mode = "on",
                                awaited |-> answered]]
      BY DEF HostData
    <3> HIDE DEF inline, want, answered
    <3> QED BY <3>1, <3>2
  <2>2. UNCHANGED <<command_queue, usb_radio_mutex, pc, command, state, rf, in_ep>>
    BY DEF HostData, threadVars, driverVars
  <2>3. HostTyped'
    BY <2>1 DEF Typed, HostTyped
  <2>4. StackTyped'
    BY <2>1, <2>2 DEF Typed, StackTyped, Commands
  <2> QED BY <2>2, <2>3, <2>4 DEF Typed, ThreadTyped, SettingsTyped
<1>3. CASE \E s \in Scans : HostScan(s)
  <2> PICK s \in Scans : HostScan(s)
    BY <1>3
  <2>1. /\ stack' = [at |-> "scanLock", next |-> s.start, stop |-> s.stop, want |-> host.set]
        /\ UNCHANGED <<host, awaiting, command_queue, usb_radio_mutex, pc, command, state,
                       rf, in_ep>>
    BY DEF HostScan, hostVars, threadVars, driverVars
  <2>2. StackTyped'
    BY <2>1, HostAssumption DEF Typed, HostTyped, StackTyped
  <2> QED BY <2>1, <2>2 DEF Typed, HostTyped, ThreadTyped, SettingsTyped
<1>4. CASE HostRead \/ HostSettled
  <2>1. /\ UNCHANGED <<stack, command_queue, usb_radio_mutex, pc, command, state, rf>>
        /\ \/ host' = host /\ awaiting' = FALSE /\ in_ep' = Nothing
           \/ UNCHANGED <<awaiting, in_ep>> /\ host' = [host EXCEPT !.mode = "off"]
    BY <1>4 DEF HostRead, HostSettled, threadVars, driverVars
  <2>2. HostTyped'
    BY <2>1 DEF Typed, HostTyped
  <2> QED BY <2>1, <2>2 DEF Typed, StackTyped, ThreadTyped, SettingsTyped, Nothing
<1> QED BY <1>1, <1>2, <1>3, <1>4 DEF Host

\* The USB stack's thread: the queue has room, and so has the scan's result.
LEMMA StackKeepsTyped == Typed /\ UsbStack => Typed'
<1> SUFFICES ASSUME Typed, UsbStack PROVE Typed'
  OBVIOUS
<1>1. CASE StackPut
  <2>1. /\ stack.at = "put" /\ Len(command_queue) # QueueLength
        /\ command_queue' = Append(command_queue, stack.cmd) /\ stack' = Idle
        /\ UNCHANGED <<host, awaiting, usb_radio_mutex, pc, command, state, rf, in_ep>>
    BY <1>1 DEF StackPut, QueueFull, hostVars, threadVars, driverVars
  <2>2. stack.cmd \in Commands
    BY <2>1 DEF Typed, StackTyped, Idle
  <2>3. ThreadTyped'
    BY <2>1, <2>2, LengthAssumption DEF Typed, ThreadTyped
  <2>4. StackTyped'
    BY <2>1 DEF Typed, StackTyped, Idle
  <2> QED BY <2>1, <2>3, <2>4 DEF Typed, HostTyped, SettingsTyped
<1>2. CASE ScanLock
  <2>1. /\ state' = [state EXCEPT !.scan_result = << >>]
        /\ UNCHANGED <<host, awaiting, command_queue, pc, command, rf, in_ep>>
        /\ stack.at = "scanLock"
        /\ \/ stack' = Idle /\ UNCHANGED usb_radio_mutex
           \/ /\ ~(stack.stop < stack.next) /\ stack' = [stack EXCEPT !.at = "scan"]
              /\ usb_radio_mutex' = "stack"
    BY <1>2 DEF ScanLock, hostVars, threadVars, driverVars
  <2>2. SettingsTyped' /\ Len(state'.scan_result) = 0
    <3>1. state \in States /\ << >> \in Seq(0..255) /\ Len(<< >>) = 0
      BY DEF Typed, SettingsTyped
    <3>2. state' \in States /\ state'.scan_result = << >>
      BY <2>1, <3>1 DEF States
    <3> QED BY <2>1, <3>1, <3>2, LengthAssumption DEF Typed, SettingsTyped
  <2>3. StackTyped'
    <3>1. /\ stack \in [at : {"scanLock", "scan"}, next : 0..255, stop : 0..255, want : Wants]
          /\ usb_radio_mutex \in {"none", "usb", "stack"}
      BY <2>1 DEF Typed, StackTyped, Idle
    <3>2. CASE stack' = Idle /\ UNCHANGED usb_radio_mutex
      BY <3>1, <3>2 DEF StackTyped, Idle
    <3>3. CASE /\ ~(stack.stop < stack.next) /\ stack' = [stack EXCEPT !.at = "scan"]
               /\ usb_radio_mutex' = "stack"
      <4>1. /\ stack' \in [at : {"scanLock", "scan"}, next : 0..255, stop : 0..255,
                            want : Wants]
            /\ stack'.next <= stack'.stop
        <5>1. stack.next \in 0..255 /\ stack.stop \in 0..255
          BY <3>1
        <5>2. stack.next <= stack.stop
          <6>1. ~(stack.stop < stack.next)
            BY <3>3
          <6>2. \A a, b \in 0..255 : ~(b < a) => a <= b
            OBVIOUS
          <6> QED BY <5>1, <6>1, <6>2
        <5>3. stack' \in [at : {"scanLock", "scan"}, next : 0..255, stop : 0..255,
                          want : Wants]
          BY <3>1, <3>3
        <5>4. stack'.next = stack.next /\ stack'.stop = stack.stop
          BY <3>1, <3>3
        <5> QED BY <5>2, <5>3, <5>4
      <4> QED BY <2>2, <3>3, <4>1, LengthAssumption DEF StackTyped
    <3> QED BY <2>1, <3>2, <3>3
  <2> QED BY <2>1, <2>2, <2>3 DEF Typed, HostTyped, ThreadTyped
<1>3. CASE ScanChannel
  <2>1. /\ stack.at = "scan" /\ host' = [host EXCEPT !.set.channel = stack.next]
        /\ rf' = OnChannel(stack.next)
        /\ UNCHANGED <<awaiting, command_queue, pc, command, in_ep>>
    BY <1>3 DEF ScanChannel, threadVars
  <2>2. PICK acked \in BOOLEAN :
          /\ state' = IF acked
                      THEN [state EXCEPT !.scan_result = Append(@, stack.next)] ELSE state
          /\ IF stack.next = stack.stop \/ (acked /\ Len(state'.scan_result) = ScanLength)
             THEN stack' = Idle /\ Unlock
             ELSE stack' = [stack EXCEPT !.next = @ + 1] /\ UNCHANGED usb_radio_mutex
    BY <1>3 DEF ScanChannel
  <2>3. /\ stack \in [at : {"scanLock", "scan"}, next : 0..255, stop : 0..255, want : Wants]
        /\ stack.next <= stack.stop /\ Len(state.scan_result) < ScanLength
    BY <2>1 DEF Typed, StackTyped, Idle
  <2>4. /\ SettingsTyped'
        /\ Len(state'.scan_result) < ScanLength
             \/ (acked /\ Len(state'.scan_result) = ScanLength)
    <3>1. rf' \in Registers
      <4>1. stack.next \in 0..255
        BY <2>3
      <4>2. rf \in Registers
        BY DEF Typed, SettingsTyped
      <4> QED BY <2>1, <4>1, <4>2, OnChannelTyped
    <3>2. CASE acked
      <4>1. /\ state.scan_result \in Seq(0..255) /\ stack.next \in 0..255
            /\ state'.scan_result = Append(state.scan_result, stack.next)
        <5>1. state \in States
          BY DEF Typed, SettingsTyped
        <5>2. state' = [state EXCEPT !.scan_result = Append(state.scan_result, stack.next)]
          BY <2>2, <3>2
        <5> QED BY <2>3, <5>1, <5>2 DEF States
      <4>2. /\ Append(state.scan_result, stack.next) \in Seq(0..255)
            /\ Len(state'.scan_result) = Len(state.scan_result) + 1
            /\ Len(state.scan_result) \in Nat
        BY <4>1
      <4>3. Len(state'.scan_result) <= ScanLength
        BY <2>3, <4>2, LengthAssumption
      <4>4. state' \in States
        <5> DEFINE r == Append(state.scan_result, stack.next)
        <5>1. state \in States /\ r \in Seq(0..255)
          BY <4>2 DEF Typed, SettingsTyped
        <5>2. state' = [state EXCEPT !.scan_result = r]
          BY <2>2, <3>2
        <5> HIDE DEF r
        <5> QED BY <5>1, <5>2 DEF States
      <4> QED BY <3>1, <3>2, <4>2, <4>3, <4>4, LengthAssumption DEF SettingsTyped
    <3>3. CASE ~acked
      BY <2>2, <2>3, <3>1, <3>3 DEF Typed, SettingsTyped
    <3> QED BY <3>2, <3>3
  <2>5. StackTyped'
    <3>1. usb_radio_mutex \in {"none", "usb", "stack"}
      BY DEF Typed, StackTyped
    <3>2. CASE stack' = Idle /\ Unlock
      BY <3>2 DEF StackTyped, Idle, Unlock
    <3>3. CASE /\ stack.next # stack.stop /\ Len(state'.scan_result) < ScanLength
               /\ stack' = [stack EXCEPT !.next = @ + 1] /\ UNCHANGED usb_radio_mutex
      <4>1. /\ stack' \in [at : {"scanLock", "scan"}, next : 0..255, stop : 0..255,
                            want : Wants]
            /\ stack'.next <= stack'.stop
        <5> DEFINE n == stack.next + 1
        <5>1. n \in 0..255 /\ n <= stack.stop
          <6>1. stack.next \in 0..255 /\ stack.stop \in 0..255
            BY <2>3
          <6>2. stack.next <= stack.stop /\ stack.next # stack.stop
            BY <2>3, <3>3
          <6>3. \A a, b \in 0..255 : a <= b /\ a # b => a + 1 \in 0..255 /\ a + 1 <= b
            OBVIOUS
          <6> QED BY <6>1, <6>2, <6>3
        <5>2. stack' = [stack EXCEPT !.next = n]
          BY <3>3
        <5> HIDE DEF n
        <5> QED BY <2>3, <5>1, <5>2
      <4> QED BY <3>1, <3>3, <4>1 DEF StackTyped
    <3> QED BY <2>2, <2>4, <3>2, <3>3
  <2>6. HostTyped'
    <3> DEFINE w == [host.set EXCEPT !.channel = stack.next]
    <3>1. host.set \in Wants /\ stack.next \in Nat
      <4>1. host.set \in Wants
        BY DEF Typed, HostTyped
      <4>2. stack.next \in 0..255
        BY <2>3
      <4> QED BY <4>1, <4>2
    <3>2. w \in Wants
      BY <3>1 DEF Wants
    <3>3. host' = [host EXCEPT !.set = w]
      BY <2>1
    <3> HIDE DEF w
    <3> QED BY <2>1, <3>2, <3>3 DEF Typed, HostTyped
  <2> QED BY <2>1, <2>4, <2>5, <2>6 DEF Typed, ThreadTyped
<1> QED BY <1>1, <1>2, <1>3 DEF UsbStack

\* A step of usb_thread() that leaves the settings and the queue alone.
LEMMA ThreadOnly ==
  ASSUME Typed, UNCHANGED <<host, awaiting, stack, state, rf>>,
         ThreadTyped', usb_radio_mutex' \in {"none", "usb", "stack"},
         in_ep'.type \in {"nothing", "answer", "record"}
  PROVE  Typed'
BY DEF Typed, HostTyped, StackTyped, SettingsTyped

\* A command ends, whatever it did to the settings.
LEMMA CommandEnds ==
  ASSUME Typed, EndCommand, UNCHANGED command_queue
  PROVE  ThreadTyped' /\ usb_radio_mutex' = "none"
BY DEF Typed, ThreadTyped, EndCommand, Unlock

\* usb_thread()'s steps that change a setting.
LEMMA SettingsStep ==
  ASSUME Typed, UNCHANGED <<host, awaiting, stack, in_ep>>, ThreadTyped',
         usb_radio_mutex' \in {"none", "usb", "stack"}, SettingsTyped',
         state'.scan_result = state.scan_result
  PROVE  Typed'
BY DEF Typed, HostTyped, StackTyped

\* The requests that set something, whose values the driver may not have.
LEMMA ConfigureKeepsTyped == Typed /\ Configure => Typed'
<1> SUFFICES ASSUME Typed, Configure PROVE Typed'
  OBVIOUS
<1> DEFINE s == command.setup
<1>1. /\ command.type = "setup" /\ state' = StateAfter(s) /\ rf' = RfAfter(s) /\ EndCommand
      /\ UNCHANGED <<host, awaiting, stack, command_queue, in_ep>>
  BY DEF Configure, hostVars
<1>2. s \in Setups
  BY <1>1 DEF Typed, ThreadTyped, Commands, Nothing
<1> HIDE DEF s
<1>3. state' \in LikeState
  <2>1. state \in LikeState /\ [state EXCEPT !.inline_mode = FALSE] \in LikeState
    <3>1. state \in LikeState
      BY DEF Typed, SettingsTyped, LikeState
    <3> QED BY ONLY <3>1, StateUpdated
  <2> DEFINE plain == [state EXCEPT !.inline_mode = FALSE]
  <2>2. CASE s.request = "channel"
    <3> DEFINE c == s.value % 256
    <3>1. state' = [plain EXCEPT !.channel = c]
      BY <1>1, <2>2 DEF StateAfter
    <3>2. c \in 0..255
      BY <1>2, <2>2, SetupTyped
    <3> HIDE DEF c, plain
    <3> QED BY ONLY <2>1, <3>1, <3>2, StateUpdated DEF plain
  <2>3. CASE s.request = "datarate"
    <3>1. state' = [plain EXCEPT !.datarate = s.value]
      BY <1>1, <2>3 DEF StateAfter
    <3>2. s.value \in 0..2
      BY <1>2, <2>3, SetupTyped
    <3> QED BY ONLY <2>1, <3>1, <3>2, StateUpdated
  <2>4. CASE s.request = "ack_enable"
    <3>1. state' = [plain EXCEPT !.ack_enabled = s.value]
      BY <1>1, <2>4 DEF StateAfter
    <3>2. s.value \in BOOLEAN
      BY <1>2, <2>4, FlagTyped
    <3> QED BY ONLY <2>1, <3>1, <3>2, StateUpdated
  <2>5. CASE s.request = "inline_mode"
    <3>1. state' = [state EXCEPT !.inline_mode = s.value]
      BY <1>1, <2>5 DEF StateAfter
    <3>2. s.value \in BOOLEAN
      BY <1>2, <2>5, FlagTyped
    <3> QED BY ONLY <2>1, <3>1, <3>2, StateUpdated
  <2>6. CASE s.request \notin {"channel", "datarate", "ack_enable", "inline_mode"}
    <3>1. state' = state \/ state' = plain
      BY <1>1, <2>6 DEF StateAfter
    <3> QED BY ONLY <2>1, <3>1
  <2> QED BY <2>2, <2>3, <2>4, <2>5, <2>6
<1>4. rf' \in Registers
  <2>1. rf \in Registers
    BY DEF Typed, SettingsTyped
  <2>2. CASE s.request = "channel"
    <3>1. rf' = OnChannel(s.value)
      BY <1>1, <2>2 DEF RfAfter
    <3> QED BY <1>2, <2>1, <2>2, <3>1, SetupTyped, OnChannelTyped
  <2>3. CASE s.request = "datarate" /\ s.value # 0
    <3>1. rf' = [rf EXCEPT !.datarate = s.value]
      BY <1>1, <2>3 DEF RfAfter
    <3>2. s.value \in 1..2
      BY <1>2, <2>3, SetupTyped
    <3> QED BY <2>1, <3>1, <3>2 DEF Registers
  <2>4. CASE s.request = "ack_enable"
    <3>1. rf' = [rf EXCEPT !.ack = s.value]
      BY <1>1, <2>4 DEF RfAfter
    <3>2. s.value \in BOOLEAN
      BY <1>2, <2>4, FlagTyped
    <3> QED BY <2>1, <3>1, <3>2 DEF Registers
  <2>5. CASE s.request \in {"address", "sniffer_address"}
    <3>1. rf' = [rf EXCEPT !.address = s.value]
      BY <1>1, <2>5 DEF RfAfter
    <3>2. s.value \in Addresses
      BY <1>2, SetupTyped
    <3> QED BY <2>1, <3>1, <3>2 DEF Registers
  <2>6. CASE /\ s.request \notin {"channel", "ack_enable", "address", "sniffer_address"}
             /\ ~(s.request = "datarate" /\ s.value # 0)
    <3>1. rf' = rf
      BY <1>1, <2>6 DEF RfAfter
    <3> QED BY <2>1, <3>1
  <2> QED BY <2>2, <2>3, <2>4, <2>5, <2>6
<1>5. SettingsTyped' /\ state'.scan_result = state.scan_result
  BY <1>3, <1>4 DEF Typed, SettingsTyped, LikeState
<1> QED BY <1>1, <1>5, CommandEnds, SettingsStep

\* Inline settings, which the driver may not have either.
LEMMA PrepareKeepsTyped == Typed /\ Prepare => Typed'
<1> SUFFICES ASSUME Typed, Prepare PROVE Typed'
  OBVIOUS
<1>1. /\ command.type = "data" /\ pc' \in {"sendFirst", "check"}
      /\ UNCHANGED <<host, awaiting, stack, command_queue, command, usb_radio_mutex, in_ep>>
  BY DEF Prepare, hostVars
<1>2. ThreadTyped'
  BY <1>1 DEF Typed, ThreadTyped
<1>3. CASE state.inline_mode
  <2> DEFINE h == [command.want EXCEPT !.channel = @ % 256]
  <2>1. /\ state' = [state EXCEPT !.channel = h.channel, !.datarate = h.datarate,
                                  !.ack_enabled = h.ack]
        /\ rf' = [OnChannel(h.channel) EXCEPT !.datarate = InlineRate(h.datarate),
                                              !.ack = h.ack, !.address = h.address]
    BY <1>3 DEF Prepare
  <2>2. h.channel \in 0..255 /\ h.datarate \in 0..2 /\ h.ack \in BOOLEAN
        /\ h.address \in Addresses
    <3>1. command.want \in Wants
      BY <1>1 DEF Typed, ThreadTyped, Commands, Nothing
    <3>2. \A c \in Nat : c % 256 \in 0..255
      OBVIOUS
    <3> QED BY <3>1, <3>2 DEF Wants
  <2> HIDE DEF h
  <2>3. OnChannel(h.channel) \in Registers
    <3>1. h.channel \in Nat
      BY <2>2
    <3>2. rf \in Registers
      BY DEF Typed, SettingsTyped
    <3> QED BY <3>1, <3>2, OnChannelTyped
  <2>4. InlineRate(h.datarate) \in 1..2
    <3>1. rf.datarate \in 1..2
      BY DEF Typed, SettingsTyped, Registers
    <3> QED BY <2>2, <3>1 DEF InlineRate
  <2>5. rf' \in Registers
    <3> DEFINE r == OnChannel(h.channel)
               d == InlineRate(h.datarate)
    <3>1. r \in Registers /\ d \in 1..2
      BY <2>3, <2>4
    <3>2. rf' = [[[r EXCEPT !.datarate = d] EXCEPT !.ack = h.ack]
                  EXCEPT !.address = h.address]
      BY <2>1
    <3> HIDE DEF r, d
    <3> DEFINE x == [r EXCEPT !.datarate = d]
               y == [x EXCEPT !.ack = h.ack]
    <3>3. x \in Registers
      BY ONLY <3>1 DEF Registers
    <3>4. y \in Registers
      <4> HIDE DEF x
      <4> QED BY ONLY <2>2, <3>3 DEF Registers
    <3>5. [y EXCEPT !.address = h.address] \in Registers
      <4> HIDE DEF x, y
      <4> QED BY ONLY <2>2, <3>4 DEF Registers
    <3> QED BY ONLY <3>2, <3>5
  <2>6. SettingsTyped' /\ state'.scan_result = state.scan_result
    <3> DEFINE x == [state EXCEPT !.channel = h.channel]
               y == [x EXCEPT !.datarate = h.datarate]
    <3>1. state \in LikeState
      BY DEF Typed, SettingsTyped, LikeState
    <3>2. x \in LikeState
      BY ONLY <2>2, <3>1, StateUpdated
    <3>3. y \in LikeState
      <4> HIDE DEF x
      <4> QED BY ONLY <2>2, <3>2, StateUpdated
    <3>4. [y EXCEPT !.ack_enabled = h.ack] \in LikeState
      <4> HIDE DEF x, y
      <4> QED BY ONLY <2>2, <3>3, StateUpdated
    <3>5. state' = [y EXCEPT !.ack_enabled = h.ack]
      BY <2>1
    <3> HIDE DEF x, y
    <3> QED BY <2>5, <3>4, <3>5 DEF Typed, SettingsTyped, LikeState
  <2> QED BY <1>1, <1>2, <2>6, SettingsStep DEF Typed, StackTyped
<1>4. CASE ~state.inline_mode
  BY <1>1, <1>2, <1>4, ThreadOnly DEF Prepare, Typed, StackTyped
<1> QED BY <1>3, <1>4

\* Entering and leaving sniffer mode.
LEMMA SnifferModeKeepsTyped == Typed /\ (StartSniffer \/ StopSniffer) => Typed'
<1> SUFFICES ASSUME Typed, StartSniffer \/ StopSniffer PROVE Typed'
  OBVIOUS
<1>1. /\ EndCommand /\ UNCHANGED <<host, awaiting, stack, command_queue, rf, in_ep>>
      /\ \/ state' = [state EXCEPT !.sniffer_mode = TRUE, !.inline_mode = FALSE]
         \/ state' = [state EXCEPT !.sniffer_mode = FALSE]
  BY DEF StartSniffer, StopSniffer, hostVars
<1>2. SettingsTyped' /\ state'.scan_result = state.scan_result
  <2>1. state \in LikeState
    BY DEF Typed, SettingsTyped, LikeState
  <2>2. [state EXCEPT !.sniffer_mode = TRUE] \in LikeState
    BY ONLY <2>1, StateUpdated
  <2>3. [[state EXCEPT !.sniffer_mode = TRUE] EXCEPT !.inline_mode = FALSE] \in LikeState
    BY ONLY <2>2, StateUpdated
  <2>4. [state EXCEPT !.sniffer_mode = FALSE] \in LikeState
    BY ONLY <2>1, StateUpdated
  <2>5. state' \in LikeState
    BY ONLY <1>1, <2>3, <2>4
  <2> QED BY <1>1, <2>5 DEF Typed, SettingsTyped, LikeState
<1> QED BY <1>1, <1>2, CommandEnds, SettingsStep

\* The rest of usb_thread(), and the radio's callback.
LEMMA OthersKeepTyped ==
  Typed /\ (GetCommand \/ NoCommand \/ LockMutex \/ Broadcast \/ SendFirst \/ SendPacket
              \/ RefusePacket \/ PollSniffer \/ SnifferRx \/ UNCHANGED vars)
  => Typed'
<1> SUFFICES ASSUME Typed PROVE
      GetCommand \/ NoCommand \/ LockMutex \/ Broadcast \/ SendFirst \/ SendPacket
        \/ RefusePacket \/ PollSniffer \/ SnifferRx \/ UNCHANGED vars => Typed'
  OBVIOUS
<1> USE DEF hostVars, driverVars, threadVars
<1>0. usb_radio_mutex \in {"none", "usb", "stack"} /\ ThreadTyped
      /\ in_ep.type \in {"nothing", "answer", "record"}
  BY DEF Typed, StackTyped
<1>1. ASSUME GetCommand PROVE Typed'
  <2>1. /\ command_queue # << >> /\ command' = Head(command_queue)
        /\ command_queue' = Tail(command_queue) /\ pc' \in {"top", "lock"}
        /\ UNCHANGED <<host, awaiting, stack, usb_radio_mutex, state, rf, in_ep>>
    BY <1>1 DEF GetCommand
  <2>2. ThreadTyped'
    <3>1. /\ command' \in Commands /\ command_queue' \in Seq(Commands)
          /\ Len(command_queue') <= QueueLength
      BY <2>1, <1>0, LengthAssumption DEF ThreadTyped
    <3> QED BY <2>1, <3>1 DEF ThreadTyped
  <2> QED BY <1>0, <2>1, <2>2, ThreadOnly
<1>2. ASSUME NoCommand \/ LockMutex \/ SendFirst PROVE Typed'
  <2>1. /\ UNCHANGED <<host, awaiting, stack, state, rf, in_ep, command_queue, command>>
        /\ pc' \in {"poll", "run", "check"} /\ usb_radio_mutex' \in {usb_radio_mutex, "usb"}
    BY <1>2 DEF NoCommand, LockMutex, SendFirst
  <2>2. ThreadTyped'
    BY <2>1, <1>0 DEF ThreadTyped
  <2> QED BY <1>0, <2>1, <2>2, ThreadOnly
<1>3. ASSUME Broadcast \/ SendPacket \/ RefusePacket PROVE Typed'
  <2>1. /\ EndCommand /\ UNCHANGED <<host, awaiting, stack, state, rf, command_queue>>
        /\ in_ep' = in_ep \/ in_ep'.type = "answer"
    <3>1. CASE Broadcast
      BY <3>1 DEF Broadcast
    <3>2. CASE SendPacket
      BY <3>2 DEF SendPacket, Write, Answer
    <3>3. CASE RefusePacket
      BY <3>3 DEF RefusePacket, Refuse, Write, Answer
    <3> QED BY <1>3, <3>1, <3>2, <3>3
  <2> QED BY <1>0, <2>1, CommandEnds, ThreadOnly
<1>4. ASSUME PollSniffer PROVE Typed'
  <2>1. /\ UNCHANGED <<host, awaiting, stack, state, rf, command_queue, command, usb_radio_mutex>>
        /\ pc' = "top" /\ (in_ep' = in_ep \/ in_ep'.type = "record")
    BY <1>4 DEF PollSniffer, Write
  <2>2. ThreadTyped'
    BY <2>1, <1>0 DEF ThreadTyped
  <2> QED BY <1>0, <2>1, <2>2, ThreadOnly
<1>5. ASSUME SnifferRx \/ UNCHANGED vars PROVE Typed'
  <2>1. UNCHANGED <<host, awaiting, stack, state, rf, command_queue, command, usb_radio_mutex,
                    pc, in_ep>>
    BY <1>5 DEF SnifferRx, vars
  <2>2. ThreadTyped'
    BY <2>1, <1>0 DEF ThreadTyped
  <2> QED BY <1>0, <2>1, <2>2, ThreadOnly
<1> QED BY <1>1, <1>2, <1>3, <1>4, <1>5

\* Every step keeps the types.
LEMMA TypedStep == Typed /\ [Next]_vars => Typed'
BY HostKeepsTyped, StackKeepsTyped, ConfigureKeepsTyped, PrepareKeepsTyped,
   SnifferModeKeepsTyped, OthersKeepTyped DEF Next, UsbThread

\* No queue and no array of legacy_usb.c is ever overrun, and the driver's channel
\* and rate are always ones that the radio has.
THEOREM TypesHold == Spec => []TypeOK
<1>1. Typed /\ SnifferInv => TypeOK
  <2> SUFFICES ASSUME Typed, SnifferInv PROVE TypeOK
    OBVIOUS
  <2>1. host.mode \in {"off", "on", "left"} /\ host.inline \in BOOLEAN /\ awaiting \in BOOLEAN
    BY DEF Typed, HostTyped
  <2>2. stack.at \in {"idle", "put", "scanLock", "scan"}
        /\ usb_radio_mutex \in {"none", "usb", "stack"}
    BY DEF Typed, StackTyped, Idle
  <2>3. /\ Len(command_queue) <= QueueLength
        /\ pc \in {"top", "lock", "run", "sendFirst", "check", "poll"}
        /\ command.type \in {"nothing", "setup", "data"}
    BY DEF Typed, ThreadTyped, Commands, Nothing
  <2>4. /\ state.channel \in 0..255 /\ state.datarate \in 0..2
        /\ rf.channel \in 0..100 /\ rf.datarate \in 1..2
        /\ Len(state.scan_result) <= ScanLength
    BY DEF Typed, SettingsTyped, States, Registers
  <2> QED BY <2>1, <2>2, <2>3, <2>4 DEF Typed, SnifferInv, TypeOK
<1> QED BY <1>1, TypedInit, TypedStep, SnifferInit, SnifferStep, PTL DEF Spec

-----------------------------------------------------------------------------
\* usb_radio_mutex is held exactly where legacy_usb.c calls the driver: in a scan, and
\* while usb_thread() runs a command.
Holders ==
  /\ usb_radio_mutex = "usb" <=> pc \in {"run", "sendFirst", "check"}
  /\ usb_radio_mutex = "stack" <=> stack.at = "scan"

\* A step that leaves the mutex alone, and both threads inside or outside of it.
LEMMA HoldersStay ==
  ASSUME Holders, usb_radio_mutex' = usb_radio_mutex,
         pc' \in {"run", "sendFirst", "check"} <=> pc \in {"run", "sendFirst", "check"},
         stack'.at = "scan" <=> stack.at = "scan"
  PROVE  Holders'
BY DEF Holders

\* The end of a command.
LEMMA HoldersEnd ==
  ASSUME Holders, pc \in {"run", "sendFirst", "check"}, EndCommand, stack' = stack
  PROVE  Holders'
BY DEF Holders, EndCommand, Unlock

\* Neither thread enters the driver but by the mutex, nor leaves it but by the unlock.
LEMMA HoldersStep == Typed /\ Holders /\ [Next]_vars => Holders'
<1> SUFFICES ASSUME Typed, Holders, [Next]_vars PROVE Holders'
  OBVIOUS
<1> USE DEF hostVars, threadVars
<1>1. CASE Host
  <2>1. /\ UNCHANGED <<usb_radio_mutex, pc>>
        /\ stack' = stack \/ (stack = Idle /\ stack'.at \in {"put", "scanLock"})
    BY <1>1 DEF Host, HostSetup, HostData, HostScan, HostRead, HostSettled
  <2> QED BY <2>1, HoldersStay DEF Idle
<1>2. CASE StackPut
  BY <1>2, HoldersStay DEF StackPut, Idle
<1>3. CASE ScanLock
  <2>1. /\ stack.at = "scanLock" /\ usb_radio_mutex = "none" /\ pc' = pc
        /\ \/ stack' = Idle /\ usb_radio_mutex' = "none"
           \/ stack' = [stack EXCEPT !.at = "scan"] /\ usb_radio_mutex' = "stack"
    BY <1>3 DEF ScanLock, MutexFree
  <2>2. stack \in [at : {"scanLock", "scan"}, next : 0..255, stop : 0..255, want : Wants]
    BY <2>1 DEF Typed, StackTyped, Idle
  <2> QED BY <2>1, <2>2 DEF Holders, Idle
<1>4. CASE ScanChannel
  <2>1. /\ stack.at = "scan" /\ pc' = pc
        /\ \/ stack' = Idle /\ usb_radio_mutex' = "none"
           \/ stack' = [stack EXCEPT !.next = @ + 1] /\ usb_radio_mutex' = usb_radio_mutex
    BY <1>4 DEF ScanChannel, Unlock
  <2>2. stack \in [at : {"scanLock", "scan"}, next : 0..255, stop : 0..255, want : Wants]
    BY <2>1 DEF Typed, StackTyped, Idle
  <2> QED BY <2>1, <2>2 DEF Holders, Idle
<1>5. CASE GetCommand \/ NoCommand \/ PollSniffer
  <2>1. /\ UNCHANGED <<usb_radio_mutex, stack>>
        /\ pc \in {"top", "poll"} /\ pc' \in {"top", "lock", "poll"}
    BY <1>5 DEF GetCommand, NoCommand, PollSniffer
  <2> QED BY <2>1, HoldersStay
<1>6. CASE LockMutex
  BY <1>6 DEF LockMutex, MutexFree, Holders
<1>7. CASE Configure \/ StartSniffer \/ StopSniffer \/ Broadcast \/ SendPacket \/ RefusePacket
  <2>1. pc \in {"run", "check"} /\ EndCommand /\ stack' = stack
    BY <1>7 DEF Configure, StartSniffer, StopSniffer, Broadcast, SendPacket, RefusePacket
  <2> QED BY <2>1, HoldersEnd
<1>8. CASE Prepare \/ SendFirst
  <2>1. /\ UNCHANGED <<usb_radio_mutex, stack>>
        /\ pc \in {"run", "sendFirst"} /\ pc' \in {"sendFirst", "check"}
    BY <1>8 DEF Prepare, SendFirst
  <2> QED BY <2>1, HoldersStay
<1>9. CASE SnifferRx \/ UNCHANGED vars
  BY <1>9, HoldersStay DEF SnifferRx, vars
<1> QED BY <1>1, <1>2, <1>3, <1>4, <1>5, <1>6, <1>7, <1>8, <1>9 DEF Next, UsbStack, UsbThread

\* The driver never has two callers, and is never called without the mutex.
THEOREM OneCaller == Spec => []Holders
<1>1. Init => Holders
  BY DEF Init, Holders, Idle
<1> QED BY <1>1, TypedInit, TypedStep, HoldersStep, PTL DEF Spec

\* The two threads never wait for each other at once: neither keeps a queue slot or the
\* mutex from the other for good.
THEOREM NoDeadlock == Spec => []NeverBothBlocked
<1>1. Typed /\ Holders => NeverBothBlocked
  <2> SUFFICES ASSUME Typed, Holders, StackBlocked, ThreadBlocked PROVE FALSE
    BY DEF NeverBothBlocked
  <2>1. usb_radio_mutex = "none"
    <3>1. stack.at \in {"put", "scanLock"} /\ pc \in {"top", "lock"}
      BY DEF StackBlocked, ThreadBlocked
    <3> QED BY <3>1 DEF Holders, Typed, StackTyped
  <2>2. Len(command_queue) = QueueLength /\ command_queue = << >>
    BY <2>1 DEF StackBlocked, ThreadBlocked, MutexFree, QueueFull
  <2> QED BY <2>2, LengthAssumption
<1> QED BY <1>1, OneCaller, TypedInit, TypedStep, PTL DEF Spec

-----------------------------------------------------------------------------
\* The driver's modes are flags, whatever a request's value was.
ModesTyped == continuous_carrier_enabled \in BOOLEAN /\ sniffer_active \in BOOLEAN

\* The pipeline's steps that show the driver nothing, and the host no new answer.
LEMMA DriverIdle ==
  ASSUME UNCHANGED driverVars, in_ep' = in_ep \/ (in_ep.type = "nothing"
                                                   /\ in_ep'.type = "record")
  PROVE  UNCHANGED D!vars
BY DEF driverVars, D!vars, LastAnswer

\* Everything the command loop asks of the driver is one of its calls.
LEMMA CallsTheDriver ==
  ASSUME Typed, ModesTyped, [Next]_vars
  PROVE  ModesTyped' /\ (D!Next \/ UNCHANGED D!vars)
<1> USE DEF hostVars, threadVars
<1>1. CASE Host
  <2>1. UNCHANGED driverVars /\ (in_ep' = in_ep \/ in_ep' = Nothing)
    BY <1>1 DEF Host, HostSetup, HostData, HostScan, HostRead, HostSettled
  <2>2. CASE in_ep' = in_ep
    BY <2>1, <2>2, DriverIdle DEF driverVars, ModesTyped
  <2>3. CASE in_ep' = Nothing
    <3>1. LastAnswer' = "none"
      BY <2>3 DEF LastAnswer, Nothing
    <3> QED BY <2>1, <3>1 DEF D!Next, D!Forget, driverVars, ModesTyped
  <2> QED BY <2>1, <2>2, <2>3
<1>2. CASE StackPut \/ ScanLock \/ GetCommand \/ NoCommand \/ LockMutex \/ Broadcast
             \/ SendFirst \/ SnifferRx \/ UNCHANGED vars
  <2>1. UNCHANGED driverVars /\ in_ep' = in_ep
    BY <1>2 DEF StackPut, ScanLock, GetCommand, NoCommand, LockMutex, Broadcast, SendFirst,
                SnifferRx, vars
  <2> QED BY <2>1, DriverIdle DEF driverVars, ModesTyped
<1>3. CASE ScanChannel
  <2>1. UNCHANGED <<continuous_carrier_enabled, sniffer_active, in_ep>>
        /\ (rf' = rf \/ rf' = [rf EXCEPT !.channel = stack.next])
    BY <1>3 DEF ScanChannel, OnChannel
  <2>2. rf \in Registers
    BY DEF Typed, SettingsTyped
  <2>3. rf'.ack = rf.ack
    BY <2>1, <2>2 DEF Registers
  <2> QED BY <2>1, <2>3 DEF D!vars, LastAnswer, ModesTyped
<1>4. CASE PollSniffer
  <2>1. UNCHANGED driverVars
    BY <1>4 DEF PollSniffer
  <2>2. in_ep' = in_ep \/ (in_ep = Nothing /\ in_ep'.type = "record")
    BY <1>4 DEF PollSniffer, Write
  <2> QED BY <2>1, <2>2, DriverIdle DEF driverVars, ModesTyped, Nothing
\* The settings; the carrier is not switched under a sniffer.
<1>5. CASE Configure
  <2> DEFINE s == command.setup
  <2>1. /\ command.type = "setup" /\ UNCHANGED <<sniffer_active, in_ep>>
        /\ continuous_carrier_enabled' =
             IF s.request = "cont_carrier" /\ ~sniffer_active
             THEN s.value ELSE continuous_carrier_enabled
        /\ rf' = RfAfter(s)
    BY <1>5 DEF Configure
  <2>2. s \in Setups
    BY <2>1 DEF Typed, ThreadTyped, Commands, Nothing
  <2>3. rf.ack \in BOOLEAN /\ rf'.ack \in BOOLEAN
    <3>1. rf \in Registers /\ rf' \in Registers
      BY <1>5, ConfigureKeepsTyped DEF Typed, SettingsTyped
    <3> QED BY <3>1 DEF Registers
  <2>4. LastAnswer' = LastAnswer
    BY <2>1 DEF LastAnswer
  <2> HIDE DEF s
  <2>5. CASE s.request = "cont_carrier"
    <3>1. s.value \in BOOLEAN
      BY <2>2, <2>5, FlagTyped
    <3>2. rf' = rf
      BY <2>1, <2>5 DEF RfAfter
    <3>3. ModesTyped'
      BY <2>1, <3>1 DEF ModesTyped
    <3>4. CASE continuous_carrier_enabled' = continuous_carrier_enabled
      BY <2>1, <2>4, <3>2, <3>3, <3>4 DEF D!vars
    <3>5. CASE continuous_carrier_enabled' # continuous_carrier_enabled
      <4>1. ~sniffer_active
            /\ (continuous_carrier_enabled' <=> ~continuous_carrier_enabled)
        BY <2>1, <3>1, <3>5 DEF ModesTyped
      <4> QED BY <2>1, <2>4, <3>2, <3>3, <4>1 DEF D!Next, D!SwitchCarrier
    <3> QED BY <3>4, <3>5
  <2>6. CASE s.request # "cont_carrier"
    <3>1. continuous_carrier_enabled' = continuous_carrier_enabled
      BY <2>1, <2>6
    <3>2. ModesTyped' /\ D!SetAckEnabled
      BY <2>1, <2>3, <2>4, <3>1 DEF ModesTyped, D!SetAckEnabled
    <3> QED BY <3>2 DEF D!Next
  <2> QED BY <2>5, <2>6
<1>6. CASE StartSniffer \/ StopSniffer
  <2>1. /\ UNCHANGED <<rf, continuous_carrier_enabled, in_ep>> /\ sniffer_active' \in BOOLEAN
    BY <1>6 DEF StartSniffer, StopSniffer
  <2>2. ModesTyped' /\ LastAnswer' = LastAnswer
    BY <2>1 DEF ModesTyped, LastAnswer
  <2>3. CASE sniffer_active' = sniffer_active
    BY <2>1, <2>2, <2>3 DEF D!vars
  <2>4. CASE sniffer_active' # sniffer_active
    <3>1. sniffer_active' <=> ~sniffer_active
      BY <2>1, <2>4 DEF ModesTyped
    <3> QED BY <2>1, <2>2, <3>1 DEF D!Next, D!SwitchSniffer
  <2> QED BY <2>3, <2>4
\* An inline header sets ACKs as a request does.
<1>7. CASE Prepare
  <2>1. UNCHANGED <<continuous_carrier_enabled, sniffer_active, in_ep>>
    BY <1>7 DEF Prepare
  <2>2. rf'.ack \in BOOLEAN
    <3>1. rf' \in Registers
      BY <1>7, PrepareKeepsTyped DEF Typed, SettingsTyped
    <3> QED BY <3>1 DEF Registers
  <2>3. ModesTyped' /\ D!SetAckEnabled
    BY <2>1, <2>2 DEF ModesTyped, LastAnswer, D!SetAckEnabled
  <2> QED BY <2>3 DEF D!Next
\* The outcome, if the endpoint takes it.
<1>8. CASE SendPacket \/ RefusePacket
  <2>1. UNCHANGED driverVars
    BY <1>8 DEF SendPacket, RefusePacket
  <2>2. PICK acked \in BOOLEAN :
          /\ acked => Transmits /\ rf.ack
          /\ in_ep' = in_ep \/ in_ep' = Answer(acked)
    BY <1>8 DEF SendPacket, RefusePacket, Refuse, Write
  <2>3. CASE in_ep' = in_ep
    BY <2>1, <2>3, DriverIdle DEF driverVars, ModesTyped
  <2>4. CASE in_ep' = Answer(acked)
    <3>1. LastAnswer' \in {"acked", "failed"} /\ (LastAnswer' = "acked" => acked)
      BY <2>4 DEF LastAnswer, Answer
    <3>2. ModesTyped' /\ D!Send
      BY <2>1, <2>2, <3>1 DEF driverVars, ModesTyped, Transmits, D!Send
    <3> QED BY <3>2 DEF D!Next
  <2> QED BY <2>2, <2>3, <2>4
<1> QED BY <1>1, <1>2, <1>3, <1>4, <1>5, <1>6, <1>7, <1>8 DEF Next, UsbStack, UsbThread

\* Seen through the settings it makes and the answers it gives, the pipeline is a
\* behaviour of module Driver, which esb.c implements (EsbProofs!CallsImplementDriver).
THEOREM PipelineUsesDriver == Spec => UsesDriver
<1>1. Init => ModesTyped /\ D!Init
  <2> SUFFICES ASSUME Init PROVE ModesTyped /\ D!Init
    OBVIOUS
  <2>1. rf = Settings(42, 2, TRUE, "e7") /\ in_ep = Nothing
        /\ continuous_carrier_enabled = FALSE /\ sniffer_active = FALSE
    BY DEF Init
  <2>2. rf.ack = TRUE /\ LastAnswer = "none"
    BY <2>1 DEF Settings, LastAnswer, Nothing
  <2> QED BY <2>1, <2>2 DEF ModesTyped, D!Init
<1>2. Typed /\ ModesTyped /\ [Next]_vars => ModesTyped' /\ [D!Next]_(D!vars)
  BY CallsTheDriver
<1> QED BY <1>1, <1>2, TypedInit, TypedStep, PTL DEF Spec, UsesDriver, D!Spec
=============================================================================
