------------------------- MODULE MCOutgoingMessages -------------------------
EXTENDS OutgoingMessages, TLC
=============================================================================
