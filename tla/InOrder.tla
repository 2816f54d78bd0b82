------------------------------ MODULE InOrder ------------------------------
(***************************************************************************)
(* What the command pipeline promises the host: requests and packets are   *)
(* served one at a time and in the order of submission, none twice and     *)
(* none lost; a request takes effect as a whole when it is served, and a   *)
(* packet is sent with the settings in force when the host submitted it    *)
(* ("is set as soon as the USB setup transaction is completed",            *)
(* compatible-usb-protocol.md:110).  Two threads, a queue, a mutex and two *)
(* copies of the settings are hidden; LegacyUsb implements this.           *)
(***************************************************************************)
EXTENDS Naturals, Sequences

VARIABLES
  todo,    \* the commands submitted and not yet served
  force    \* the settings and the modes in force

Init ==
  /\ todo = << >>
  /\ force = [set |-> [channel |-> 42, datarate |-> 2, ack |-> TRUE, address |-> "e7"],
              inline |-> FALSE, sniffing |-> FALSE]

\* The setting a request is about.
Setting == [channel |-> "channel", address |-> "address", datarate |-> "datarate",
            ack_enable |-> "ack"]

Applied(s) ==
  CASE s.request \in DOMAIN Setting ->
         [force EXCEPT !.set[Setting[s.request]] = s.value, !.inline = FALSE]
    [] s.request = "sniffer_address" -> [force EXCEPT !.set.address = s.value]
    [] s.request = "inline_mode" -> [force EXCEPT !.inline = s.value]
    [] s.request = "radio_mode" ->
         [force EXCEPT !.sniffing = s.value, !.inline = @ /\ ~s.value]
    [] OTHER -> force

Submit ==
  /\ todo' # << >>
  /\ todo' = Append(todo, todo'[Len(todo')])
  /\ UNCHANGED force

Serve(type) == todo # << >> /\ Head(todo).type = type /\ todo' = Tail(todo)

Configure == Serve("setup") /\ force' = Applied(Head(todo).setup)

\* A packet's inline header sets everything at once, before the packet is sent.
Adopt ==
  /\ todo # << >> /\ Head(todo).type = "data"
  /\ force.inline /\ Head(todo).inline
  /\ force' = [force EXCEPT !.set = Head(todo).want]
  /\ UNCHANGED todo

Send ==
  /\ Serve("data")
  /\ ~force.sniffing /\ ~Head(todo).broadcast /\ Head(todo).inline = force.inline
  /\ Head(todo).want = force.set
  /\ UNCHANGED force

Broadcast ==
  /\ Serve("data")
  /\ force.sniffing /\ Head(todo).broadcast /\ Head(todo).want = force.set
  /\ UNCHANGED force

\* "After scanning, the channel will be set to the last scanned channel"
\* (compatible-usb-protocol.md:277).
Scan ==
  /\ todo = << >>
  /\ \E c \in 0..100 : force' = [force EXCEPT !.set.channel = c]
  /\ UNCHANGED todo

Next == Submit \/ Configure \/ Adopt \/ Send \/ Broadcast \/ Scan

Spec == Init /\ [][Next]_<<todo, force>>
=============================================================================
