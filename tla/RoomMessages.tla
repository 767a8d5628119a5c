---------------------------- MODULE RoomMessages ----------------------------
(***************************************************************************)
(* The messages an application sends to a room: each is its place in the   *)
(* order of the calls that send it.                                        *)
(***************************************************************************)
EXTENDS Naturals

CONSTANT MaxMsg   \* BOUND: messages
ASSUME MaxMsgAssumption == MaxMsg \in Nat \ {0}

Msgs == 1..MaxMsg
=============================================================================
