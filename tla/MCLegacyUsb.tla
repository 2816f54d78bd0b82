---------------------------- MODULE MCLegacyUsb ----------------------------
\* Instances of LegacyUsb: what the hosts of the runs ask for.
EXTENDS LegacyUsb

Ask(r, values) == [request : {r}, value : values]

\* The settings one by one: 101 and 2 are an invalid and a valid channel, 0 is the
\* rate the radio does not have.
SettingSetups ==
  Ask("channel", {2, 101}) \cup Ask("datarate", {0, 1, 2}) \cup
  Ask("ack_enable", BOOLEAN) \cup Ask("cont_carrier", BOOLEAN)

\* The modes, which change what a transfer means.
ModeSetups ==
  Ask("inline_mode", BOOLEAN) \cup Ask("radio_mode", BOOLEAN) \cup
  Ask("ack_enable", BOOLEAN) \cup Ask("sniffer_address", {"a1"})

\* A host that does not wait: requests of both kinds against scans and packets.
ContentionSetups == Ask("radio_mode", BOOLEAN) \cup Ask("channel", {2})

RadioModeSetups == Ask("radio_mode", BOOLEAN)
AddressSetups   == Ask("address", {"a1"})

DefaultHeader == {Settings(42, 2, TRUE, "e7")}
ModeHeaders   == {Settings(42, 2, TRUE, "e7"), Settings(101, 2, FALSE, "a1")}

NoScan   == {}
LowScans == {[start |-> 0, stop |-> 1], [start |-> 1, stop |-> 0]}
OneScan  == {[start |-> 0, stop |-> 0]}
=============================================================================
