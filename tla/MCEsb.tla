------------------------------- MODULE MCEsb -------------------------------
EXTENDS Esb
=============================================================================
