------------------------------ MODULE MCRunners ------------------------------
(***************************************************************************)
(* Instances for TLC of what works inside a run: the dynamic scheduler,    *)
(* the native runner, the waves of the planner, one step of a lifecycle,   *)
(* and the stop of a lifecycle by the console.  They share no state, and a *)
(* behaviour is one of a single one, the others staying as they began.     *)
(***************************************************************************)
EXTENDS MCDagScheduler, AccountCap, MCStepRequest

CONSTANTS
  n1, n2, n3, n4,   \* lifecycles of the native runner
  p1, p2, stopA, stopB, nobody    \* processes and lifecycles of a run that is stopped

VARIABLES
  runner,
  \* of CommandChannel
  sStore, sRun, sRows, sCache, sConsumed, sAbort, sCur, sPc, sEffects, sHeard, sBroken

stopVars ==
  <<sStore, sRun, sRows, sCache, sConsumed, sAbort, sCur, sPc, sEffects, sHeard, sBroken>>
everything == <<runner, vars, nativeVars, wavesVars, stepVars, stopVars>>

\* The console's stops: its own queue, room for two stops of two commands.
Stops == INSTANCE CommandChannel WITH
  Workers <- {p1, p2}, Lifecycles <- {stopA, stopB}, Nobody <- nobody,
  Stores <- {"local"}, MaxRows <- 4,
  store <- sStore, run <- sRun, rows <- sRows, cache <- sCache, consumed <- sConsumed,
  abort <- sAbort, cur <- sCur, pc <- sPc, effects <- sEffects, heard <- sHeard,
  broken <- sBroken

Select(creates, adopts, dependent, blind, given) ==
  [creates |-> creates, adopts |-> adopts, dependent |-> dependent,
   lasts |-> [l \in DOMAIN creates |-> CASE l = n1 -> 1 [] l = n2 -> 2 [] l = n3 -> 3 [] l = n4 -> 4],
   blind |-> blind, given |-> given]

MCSelections == {
  \* Two that create, one of them two VPCs, beside an adopter and one that depends.
  Select(n1 :> 1 @@ n2 :> 2 @@ n3 :> 0 @@ n4 :> 0,
         n1 :> "none" @@ n2 :> "none" @@ n3 :> "main" @@ n4 :> "none", {n4}, FALSE, {}),
  \* One networking VPC is needed, two are planned for.
  Select(n1 :> 1 @@ n2 :> 1 @@ n3 :> 0,
         n1 :> "none" @@ n2 :> "none" @@ n3 :> "a", {}, FALSE, {}),
  \* Both, and one that creates a VPC and adopts.
  Select(n1 :> 1 @@ n2 :> 1 @@ n3 :> 0,
         n1 :> "none" @@ n2 :> "a" @@ n3 :> "b", {}, FALSE, {}),
  \* Provisioned by the caller.
  Select(n1 :> 1 @@ n2 :> 2 @@ n3 :> 0,
         n1 :> "none" @@ n2 :> "none" @@ n3 :> "main", {n1}, FALSE, {"main"}),
  \* The scan of the needs failed: nobody waits for what is provisioned.
  Select(n1 :> 1 @@ n2 :> 0, n1 :> "none" @@ n2 :> "none", {}, TRUE, {}),
  \* No shared VPC.
  Select(n1 :> 2 @@ n2 :> 2 @@ n3 :> 1,
         n1 :> "none" @@ n2 :> "none" @@ n3 :> "none", {}, FALSE, {})}

LeafSet(creators, riders, adopters, frees, roots, cap, adaptive) ==
  [creators |-> creators, riders |-> riders, adopters |-> adopters, free |-> frees,
   roots |-> roots, cap |-> cap, adaptive |-> adaptive]

MCLeafSets == {
  \* Two waves of creators and one without a slot, beside the adopters.
  LeafSet({sc1, sc2, sc3}, {n1}, {adopter, n2}, {}, 1, 3, FALSE),
  \* Tracks with one lifecycle each, and the limiter.
  LeafSet({sc1, sc2}, {}, {adopter}, {free}, 1, 2, TRUE),
  LeafSet({sc1, sc2, sc3}, {}, {}, {free, n1}, 0, 2, TRUE),
  \* The roots use up the cap.
  LeafSet({sc1, sc2}, {}, {adopter, n1}, {free}, 3, 3, FALSE)}

RunnersInit ==
  /\ runner \in {"dynamic", "native", "waves", "step", "stops"}
  /\ Init /\ NativeInit /\ WavesInit /\ StepInit /\ Stops!Init
  \* Those that stay have one beginning.
  /\ runner # "native" => sel = CHOOSE s \in Selections : TRUE
  /\ runner # "waves" => leaf = CHOOSE s \in LeafSets : TRUE
  /\ runner # "step" => step = CHOOSE s \in Steps : TRUE

StopsGoOn(A) == A /\ UNCHANGED <<runner, vars, nativeVars, wavesVars, stepVars>>

\* What is bounded: attempts, adjustments, lifecycles and rounds.
BoundedNext ==
  \/ runner = "dynamic" /\ Next /\ UNCHANGED <<runner, nativeVars, wavesVars, stepVars, stopVars>>
  \/ runner = "native" /\ NativeNext /\ UNCHANGED <<runner, vars, wavesVars, stepVars, stopVars>>
  \/ runner = "waves" /\ WavesNext /\ UNCHANGED <<runner, vars, nativeVars, stepVars, stopVars>>
  \/ runner = "step" /\ StepNext /\ UNCHANGED <<runner, vars, nativeVars, wavesVars, stopVars>>

RunnersNext == BoundedNext \/ (runner = "stops" /\ StopsGoOn(Stops!Next))

\* Every step of what is bounded brings its run nearer to its end, so that it is
\* enough that some step is taken: threads are scheduled, and every request and wait
\* has a timeout.  The stops have CommandChannel's fairness.
RunnersSpec ==
  /\ RunnersInit /\ [][RunnersNext]_everything
  /\ WF_everything(BoundedNext)
  /\ \A p \in {p1, p2} :
       /\ WF_everything(runner = "stops" /\ StopsGoOn(Stops!CallEnds(p)))
       /\ WF_everything(runner = "stops" /\
            StopsGoOn(\E v \in Stops!Views(p) : Stops!Checkpoint(p, v)))
       /\ SF_everything(runner = "stops" /\ StopsGoOn(Stops!Checkpoint(p, Stops!Polled(p))))

\* A lifecycle that runs ends after the console's skip, without its waits having to
\* come to their deadlines.
SkipEnds == Stops!SkipEnds

\* Whatever fails, waits for room or is tried again, a run comes to its end with
\* every lifecycle run, or with none where the shared roots could not be provided:
\* all threads, tracks and waits for slots or for shared VPCs end; and so does every
\* step, however often it is tried again.
RunnersEnd ==
  LET begun == IF runner = "dynamic" THEN phase = "run" ELSE runner # "stops"
      over == CASE runner = "dynamic" -> DynamicOver
                [] runner = "native" -> NativeOver
                [] runner = "waves" -> WavesDone
                [] runner = "step" -> StepOver
                [] OTHER -> FALSE
  IN  begun ~> over
=============================================================================
