------------------------- MODULE MCMegolmEncryption -------------------------
EXTENDS MegolmEncryption, TLC

DeviceSymmetry == Permutations(Devices)
=============================================================================
