----------------------------- MODULE AccountCap -----------------------------
(***************************************************************************)
(* The two ways to run lifecycles that leave it to counting that the       *)
(* account's limit of VPCs holds: the native runner, by the Budget its     *)
(* threads share, and the waves, by their packing and their one pool.      *)
(***************************************************************************)
EXTENDS NativeRunner, DagWaves

\* The native runner and the waves keep to the account's cap, the one by the Budget
\* its threads share, the other by its packing and its one pool.
CapKept == NativeCap /\ WavesBounded
=============================================================================
