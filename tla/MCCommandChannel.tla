--------------------------- MODULE MCCommandChannel ---------------------------
(* Two worker processes and two lifecycles; the processes are alike, and so    *)
(* are the lifecycles.                                                         *)
EXTENDS CommandChannel, TLC

CONSTANTS w1, w2, lcA, lcB, nobody

Alike == Permutations({w1, w2}) \cup Permutations({lcA, lcB})

=============================================================================
