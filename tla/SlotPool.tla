------------------------------ MODULE SlotPool ------------------------------
(***************************************************************************)
(* What every mechanism that guards the account's VPC quota promises: a    *)
(* pool of at most Limit slots.  A holder is granted a slot only while one *)
(* is free, and gives back slots it holds.  How the slots are counted (a   *)
(* file shared by processes, a counter under a condition variable, waves   *)
(* cut by the planner) is left to the modules that implement this one:     *)
(* VpcSemaphore and DagScheduler; and LifecycleEngine, which relies on it, *)
(* takes and gives back its slots as this one allows.                      *)
(***************************************************************************)
EXTENDS Naturals, FiniteSets

CONSTANTS Holders,   \* whatever can own one slot: a token, a lifecycle
          Limit      \* slots in the pool

VARIABLE held        \* the holders that own a slot now

Init == held = {}

Grant(h) ==
  /\ h \notin held
  /\ Cardinality(held) < Limit
  /\ held' = held \cup {h}

Free(S) ==
  /\ S # {} /\ S \subseteq held
  /\ held' = held \ S

Next ==
  \/ \E h \in Holders : Grant(h)
  \/ \E S \in SUBSET Holders : Free(S)

Spec == Init /\ [][Next]_held

=============================================================================
