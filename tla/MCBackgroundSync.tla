--------------------------- MODULE MCBackgroundSync ---------------------------
EXTENDS BackgroundSync, TLC

\* A message whose key comes after it.
MCFeed == << [key |-> FALSE, needs |-> 0], [key |-> FALSE, needs |-> 3],
             [key |-> TRUE, needs |-> 0], [key |-> FALSE, needs |-> 3] >>
ChunkSymmetry == Permutations(Chunks)
\* BOUND: once none of the two properties claims anything, nothing more is followed.
Claimed == ~((raced \/ torn) /\ undone)
=============================================================================
