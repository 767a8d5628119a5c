---------------------------- MODULE MCDeviceList ----------------------------
(* Instances of DeviceList for TLC. *)
EXTENDS DeviceList, TLC

Symmetry == Permutations(Users) \cup Permutations(Ops)
=============================================================================
