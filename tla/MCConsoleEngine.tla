--------------------------- MODULE MCConsoleEngine ---------------------------
(* Instances of ConsoleEngine for TLC. *)
EXTENDS ConsoleEngine, TLC

CONSTANTS r1, r2, s1, s2, c1

MCLive == {r1, r2}
MCSim == {s1, s2}
MCForced == {c1}
MCPeak == r1 :> 2 @@ r2 :> 1 @@ s1 :> 1 @@ s2 :> 2

Scenario(R, others, stops, restarts, failures, stale) ==
  [runs |-> R, foreign |-> others,
   left |-> [stops |-> stops, restarts |-> restarts, failures |-> failures, stale |-> stale]]

MCScenarios == {
  Scenario({r1, r2}, 1, 0, 0, 0, 1),      \* the page and the schedule race; a full account
  Scenario({r1, r2}, 0, 1, 0, 0, 0),      \* two runs and a stop of one or of both
  Scenario({r1, s1}, 0, 1, 0, 1, 0),      \* a stop and a failure, with room
  Scenario({r1, s1}, 1, 0, 0, 1, 0),      \* and a failure with a queue
  Scenario({r1, s1, s2}, 0, 0, 0, 0, 0),  \* a queue of two
  Scenario({r1, r2}, 1, 0, 1, 0, 0),      \* a restart with pytest going on
  Scenario({r1, s1, c1}, 0, 0, 1, 0, 0)}

\* The forced cleanup meets a run.
MCForcedScenarios == {Scenario({r1, c1}, 0, 0, 0, 0, 0)}
=============================================================================
