------------------------------ MODULE Driver ------------------------------
(***************************************************************************)
(* What esb.c promises its callers, whatever its interrupt and the radio   *)
(* do inside: every call is one step.  Module Esb implements it, and       *)
(* module LegacyUsb is written on top of it.                               *)
(***************************************************************************)
VARIABLES
  ack_enabled,
  carrier,   \* the continuous carrier is on
  sniffing,  \* the sniffer is on, even while it pauses for a broadcast
  outcome    \* of the last call of esb_send_packet(), until its caller is done

vars == <<ack_enabled, carrier, sniffing, outcome>>

Init == ack_enabled = TRUE /\ ~carrier /\ ~sniffing /\ outcome = "none"

\* esb_send_packet() "will always return false if ack_enabled has been set to
\* false" (esb.h:101), and in the other two modes.
Send ==
  /\ outcome' \in {"acked", "failed"}
  /\ outcome' = "acked" => ack_enabled /\ ~carrier /\ ~sniffing
  /\ UNCHANGED <<ack_enabled, carrier, sniffing>>

Forget == outcome' = "none" /\ UNCHANGED <<ack_enabled, carrier, sniffing>>

SetAckEnabled == ack_enabled' \in BOOLEAN /\ UNCHANGED <<carrier, sniffing, outcome>>

\* The carrier cannot be switched while sniffing; the sniffer does not look at
\* the carrier.
SwitchCarrier ==
  ~sniffing /\ (carrier' <=> ~carrier) /\ UNCHANGED <<ack_enabled, sniffing, outcome>>

SwitchSniffer ==
  (sniffing' <=> ~sniffing) /\ UNCHANGED <<ack_enabled, carrier, outcome>>

Next == Send \/ Forget \/ SetAckEnabled \/ SwitchCarrier \/ SwitchSniffer

Spec == Init /\ [][Next]_vars
=============================================================================
