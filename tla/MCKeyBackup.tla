---------------------------- MODULE MCKeyBackup ----------------------------
EXTENDS KeyBackup, TLC
=============================================================================
