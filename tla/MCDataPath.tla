----------------------------- MODULE MCDataPath -----------------------------
EXTENDS DataPath

\* What an inline header or a destination address may say: broadcasts
\* without ack go to one of the addresses.
AnyHead == {h \in [to : Receivers, ack : BOOLEAN] : h.ack \/ h.to = DefaultAddress}
=============================================================================
