---------------------------- MODULE StreamReader ----------------------------
(***************************************************************************)
(* What a session that is used in an orderly way promises of its event     *)
(* stream: the events of the homeserver reach the store in order, without  *)
(* a gap and without going back, the sync token saying exactly how far;    *)
(* and while the session shows that it runs, it does get there.            *)
(***************************************************************************)
EXTENDS Naturals

CONSTANT MaxPos   \* BOUND: positions of the stream

VARIABLES
  end,        \* the last position of the stream
  on,         \* does the reader say that it is listening?
  read,       \* the token: how far it says it has read
  delivered   \* the positions whose events have been given to the store

vars == <<end, on, read, delivered>>

Init ==
  /\ end \in 0..MaxPos
  /\ on \in BOOLEAN
  /\ read \in {0, end}
  /\ delivered = 1..read

Advance ==
  /\ end < MaxPos
  /\ end' = end + 1
  /\ UNCHANGED <<on, read, delivered>>

Switch ==
  /\ on' = ~on
  /\ UNCHANGED <<end, read, delivered>>

\* One response: it brings what the reader has not read, and all of it.
Read ==
  /\ read < end
  /\ read' \in (read + 1)..end
  /\ delivered' = delivered \cup ((read + 1)..read')
  /\ UNCHANGED <<end, on>>

Next == Advance \/ Switch \/ Read

Spec == Init /\ [][Next]_vars /\ WF_vars(on /\ Read)
=============================================================================
