------------------------------ MODULE MCCalls ------------------------------
EXTENDS Calls, TLC
=============================================================================
