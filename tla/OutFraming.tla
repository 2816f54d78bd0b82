----------------------------- MODULE OutFraming -----------------------------
(***************************************************************************)
(* crazyradio_out_cb() of src/legacy_usb.c: how the transfers of the OUT   *)
(* endpoint become commands.  A message of the host arrives in transfers   *)
(* of Mps bytes, and ends with a shorter one: "the host must send a ZLP to *)
(* terminate the transfer" (compatible-usb-protocol.md:440).  A host may   *)
(* also be killed, or reset the bus, between two transfers of a message;   *)
(* crazyradio_status_cb() does nothing, so the callback never hears of it. *)
(*                                                                         *)
(* A byte is <<message, i>>, byte i of that message: the content of every  *)
(* command says where each of its bytes came from.  Bytes of the static    *)
(* command past its length are not kept.                                   *)
(***************************************************************************)
EXTENDS Naturals, Sequences

CONSTANTS
  Mps,          \* CRAZYRADIO_BULK_EP_MPS, 64
  PayloadMax,   \* sizeof(command.data.payload), USB_ANSWER_MAX_LENGTH
  QueueLength,  \* of command_queue
  Lengths,      \* the lengths of the host's messages
  Heads,        \* what the first bytes of a message may say
  MaxMessages   \* bound: the messages the host sends

ASSUME FramingAssumption ==
  /\ Mps \in Nat \ {0} /\ PayloadMax \in Nat /\ Mps <= PayloadMax
  /\ QueueLength \in Nat \ {0} /\ Lengths \subseteq Nat /\ MaxMessages \in Nat

VARIABLES
  message,       \* the last message the host began
  done,          \* the bytes of it that were transferred
  within,        \* its last transfer is still to come
  torn,          \* history: a message was given up since the last command was put
  accumulating, command,  \* the callback's static variables
  command_queue

hostOutVars == <<message, done, within>>
framingVars == <<hostOutVars, torn, accumulating, command, command_queue>>

NoCommand == [length |-> 0, payload |-> << >>]

OutInit ==
  /\ message = [id |-> 0] /\ done = 0 /\ within = FALSE /\ torn = FALSE
  /\ accumulating = FALSE
  /\ command = NoCommand
  /\ command_queue = << >>

Least(a, b) == IF a < b THEN a ELSE b

-----------------------------------------------------------------------------
HostSends(n, head) ==
  /\ ~within /\ message.id < MaxMessages
  /\ message' = [id |-> message.id + 1, length |-> n, head |-> head]
  /\ done' = 0 /\ within' = TRUE
  /\ UNCHANGED <<torn, accumulating, command, command_queue>>

\* The host's program dies between two transfers; another one starts afresh.
HostGivesUp ==
  /\ within /\ done > 0
  /\ within' = FALSE /\ torn' = TRUE
  /\ UNCHANGED <<message, done, accumulating, command, command_queue>>

\* The transfer that arrives: a full one, or the rest of the message, or nothing.
bytes_to_read == Least(Mps, message.length - done)

FullEnds(n) == TRUE                         \* mutant: every transfer is a command
ShortEnds(n) == n < Mps

Offset == IF accumulating THEN command.length ELSE 0

\* What does not fit is read into `scratch'.
Kept == Least(bytes_to_read, PayloadMax - Offset)

ReceivedByte(i) == IF i < Offset THEN command.payload[i]
                   ELSE <<message, done + (i - Offset)>>

Received ==
  [length  |-> Offset + Kept,
   payload |-> [i \in 0..((Offset + Kept) - 1) |-> ReceivedByte(i)]]

\* k_msgq_put(&command_queue, &command, K_FOREVER): blocks the USB stack's thread,
\* and with it all transfers, while the queue is full.
Put(c) ==
  /\ Len(command_queue) < QueueLength
  /\ command_queue' = Append(command_queue, [sent |-> c, last |-> message, torn |-> torn])
  /\ torn' = FALSE

OutCb ==
  /\ within
  /\ done' = done + bytes_to_read
  /\ command' = Received
  /\ IF ShortEnds(bytes_to_read)
     THEN within' = FALSE /\ accumulating' = FALSE /\ Put(Received)
     ELSE accumulating' = TRUE /\ UNCHANGED <<within, command_queue, torn>>
  /\ UNCHANGED message

\* usb_thread() takes the next command.
TakeCommand ==
  /\ command_queue # << >>
  /\ command_queue' = Tail(command_queue)
  /\ UNCHANGED <<hostOutVars, torn, accumulating, command>>

OutNext ==
  \/ \E n \in Lengths, head \in Heads : HostSends(n, head)
  \/ HostGivesUp \/ OutCb \/ TakeCommand

OutSpec == OutInit /\ [][OutNext]_framingVars

-----------------------------------------------------------------------------
\* The command is message m, whole but for what exceeds the payload.
IsMessage(c, m) ==
  /\ c.length = Least(m.length, PayloadMax)
  /\ \A i \in 0..(c.length - 1) : c.payload[i] = <<m, i>>

\* The last bytes of the command are message m, unless the payload is full.
EndsWith(c, m) ==
  c.length < PayloadMax =>
    /\ m.length <= c.length
    /\ \A i \in 0..(m.length - 1) : c.payload[c.length - m.length + i] = <<m, i>>

\* A command is what the host sent as one message, whatever its length: 64-byte
\* transfers are neither split nor glued together.  A message given up half-way
\* spoils one command, by standing before the next message, and no more.
FramesIntact ==
  \A k \in 1..Len(command_queue) :
    LET q == command_queue[k]
    IN IF q.torn THEN EndsWith(q.sent, q.last) ELSE IsMessage(q.sent, q.last)
=============================================================================
