----------------------------- MODULE MCFileStore -----------------------------
(* Instances of FileStore for TLC. *)
EXTENDS FileStore, TLC

RoomSymmetry == Permutations(Rooms)
=============================================================================
