------------------------------ MODULE DagWaves ------------------------------
(***************************************************************************)
(* dag_planner.plan packs the lifecycles that create a VPC of their own    *)
(* into waves that fit the account's cap; dag_runner.run_plan runs three   *)
(* tracks of waves side by side (free, adopt, self-create), each wave      *)
(* after the one before it, on one pool of threads; dag_runner_live gives  *)
(* the executor, if asked to, a limiter that lets fewer lifecycles run     *)
(* after gateway errors.  Its shared Budget only adds reasons for which a  *)
(* lifecycle ends early, which it may do anyway: it is left out.           *)
(***************************************************************************)
EXTENDS Naturals, Sequences, SequencesExt, FiniteSetsExt

CONSTANTS
  LeafSets,      \* what plan may be asked for
  PoolSize,      \* max_workers
  LimitLo, LimitStart, \* SCP_ADAPTIVE_MIN and _START
  MaxAdjusts     \* bound on the limiter's adjustments

\* A leaf set: the self-creators of a VPC, those of other kinds only, the adopters,
\* the free ones, the shared roots that are VPCs, vpc_cap, SCP_ADAPTIVE.
ASSUME WavesAssumption ==
  /\ {PoolSize, LimitLo, LimitStart} \subseteq Nat \ {0} /\ LimitLo <= PoolSize
  /\ MaxAdjusts \in Nat
  /\ \A s \in LeafSets :
       /\ IsFiniteSet(s.creators \cup s.riders \cup s.adopters \cup s.free)
       /\ s.roots \in Nat /\ s.cap \in Nat /\ s.adaptive \in BOOLEAN
       /\ s.adopters # {} => s.roots > 0
       /\ (s.creators \cup s.riders) \cap (s.adopters \cup s.free) = {}
       /\ s.creators \cap s.riders = {} /\ s.adopters \cap s.free = {}

-----------------------------------------------------------------------------
VARIABLES
  leaf,       \* the leaf set
  waves,      \* the plan, by track as run_plan sorts its waves
  packing,    \* of plan: self-creators still to be packed, the wave under way, its slots
  stage,      \* "plan"; of run_plan: "provision", "tracks", "done", "aborted"
  waveNo,     \* per track: the wave it is at
  lcAt,       \* per lifecycle: "planned", "queued", "gate", "exec", "over"
  pooled,     \* the pool: tasks that wait, in order, and those that have a thread
  limiter     \* limit in eighths (it is halved), active, adjustments so far

planVars == <<leaf, waves, packing>>
runnerVars == <<planVars, stage>>
tasksVars == <<waveNo, lcAt, pooled, limiter>>
wavesVars == <<runnerVars, tasksVars>>

Tracks == {"free", "adopt", "self-create"}
Leaves == leaf.creators \cup leaf.riders \cup leaf.adopters \cup leaf.free
AsWave(S) == IF S = {} THEN <<>> ELSE <<S>>
Within(n) == Max({8 * LimitLo, Min({8 * PoolSize, n})})

WavesInit ==
  /\ leaf \in LeafSets
  /\ waves = [t \in Tracks |-> CASE t = "free" -> AsWave(leaf.free)
                                [] t = "adopt" -> AsWave(leaf.adopters)
                                [] t = "self-create" -> <<>>]
  /\ packing = [todo |-> leaf.creators \cup leaf.riders, wave |-> {}, slots |-> 0]
  /\ stage = "plan"
  /\ waveNo = [t \in Tracks |-> 1]
  /\ lcAt = [l \in Leaves |-> "planned"]
  /\ pooled = [queue |-> <<>>, busy |-> {}]
  /\ limiter = [limit |-> Within(8 * LimitStart), active |-> 0, adjusts |-> 0]

-----------------------------------------------------------------------------
(* The plan *)

SlotOf(l) == IF l \in leaf.creators THEN 1 ELSE 0

\* A cap that the shared roots use up leaves one at a time.
WaveBudget == IF leaf.cap > leaf.roots THEN leaf.cap - leaf.roots ELSE 1

\* _append_self_create_waves: consumers of a slot first, by name, which may be any.
PackNext(l) ==
  packing.todo \cap leaf.creators # {} => l \in leaf.creators

\* One round of its loop.
PackOne(l) ==
  /\ stage = "plan" /\ l \in packing.todo /\ PackNext(l)
  /\ LET full == packing.wave # {} /\ packing.slots + SlotOf(l) > WaveBudget
     IN  /\ waves' = IF full THEN [waves EXCEPT !["self-create"] = Append(@, packing.wave)]
                     ELSE waves
         /\ packing' = [todo |-> packing.todo \ {l},
                        wave |-> (IF full THEN {} ELSE packing.wave) \cup {l},
                        slots |-> (IF full THEN 0 ELSE packing.slots) + SlotOf(l)]
  /\ UNCHANGED <<leaf, stage, tasksVars>>

\* The last wave, and run_plan is called.
PlanMade ==
  /\ stage = "plan" /\ packing.todo = {}
  /\ waves' = [waves EXCEPT !["self-create"] = @ \o AsWave(packing.wave)]
  /\ stage' = "provision"
  /\ UNCHANGED <<leaf, packing, tasksVars>>

-----------------------------------------------------------------------------
(* run_plan *)

\* SharedInfraProvisioner.provision: nothing to do without shared roots; else they
\* are up, or refused (the adopters do without), or it raises and nothing runs.
ProvisionRoots ==
  /\ stage = "provision"
  /\ stage' \in {"tracks"} \cup (IF leaf.roots > 0 THEN {"aborted"} ELSE {})
  /\ UNCHANGED <<planVars, tasksVars>>

WaveAt(t) == waves[t][waveNo[t]]
HasWave(t) == stage = "tracks" /\ waveNo[t] <= Len(waves[t])

\* _run_wave: a wave of one is run by the track's own thread, any other goes to
\* the pool.
StartWave(t) ==
  /\ HasWave(t) /\ \A l \in WaveAt(t) : lcAt[l] = "planned"
  /\ LET alone == Cardinality(WaveAt(t)) = 1
     IN  /\ lcAt' = [l \in Leaves |->
                       IF l \notin WaveAt(t) THEN lcAt[l] ELSE IF alone THEN "gate" ELSE "queued"]
         /\ pooled' = IF alone THEN pooled
                      ELSE [pooled EXCEPT !.queue = @ \o SetToSeq(WaveAt(t))]
  /\ UNCHANGED <<runnerVars, waveNo, limiter>>

PoolTakes ==
  /\ pooled.queue # <<>> /\ Cardinality(pooled.busy) < PoolSize
  /\ LET l == Head(pooled.queue)
     IN  /\ pooled' = [queue |-> Tail(pooled.queue), busy |-> pooled.busy \cup {l}]
         /\ lcAt' = [lcAt EXCEPT ![l] = "gate"]
  /\ UNCHANGED <<runnerVars, waveNo, limiter>>

\* AdaptiveLimiter._adjust, by any thread inside acquire.
AdjustLimit ==
  /\ leaf.adaptive /\ limiter.adjusts < MaxAdjusts
  /\ \E l \in Leaves : lcAt[l] = "gate"
  /\ \E limit \in {limiter.limit \div 2, limiter.limit + 8} :
       limiter' = [limiter EXCEPT !.limit = Within(limit), !.adjusts = @ + 1]
  /\ UNCHANGED <<runnerVars, waveNo, lcAt, pooled>>

\* AdaptiveLimiter.acquire, or none; then run_lifecycle begins.
Acquire(l) ==
  /\ lcAt[l] = "gate"
  /\ IF leaf.adaptive
       THEN /\ 8 * limiter.active < limiter.limit
            /\ limiter' = [limiter EXCEPT !.active = @ + 1]
       ELSE UNCHANGED limiter
  /\ lcAt' = [lcAt EXCEPT ![l] = "exec"]
  /\ UNCHANGED <<runnerVars, waveNo, pooled>>

\* The executor comes back with an outcome, at any step, and never raises: the
\* limiter is released and the pool's thread is free.
ExecutorReturns(l) ==
  /\ lcAt[l] = "exec"
  /\ lcAt' = [lcAt EXCEPT ![l] = "over"]
  /\ pooled' = [pooled EXCEPT !.busy = @ \ {l}]
  /\ limiter' = IF leaf.adaptive THEN [limiter EXCEPT !.active = @ - 1] ELSE limiter
  /\ UNCHANGED <<runnerVars, waveNo>>

\* Mutant of WaveOver: the track goes on when the last future is submitted.
WaveSubmitted(t) ==
  /\ HasWave(t) /\ \A l \in WaveAt(t) : lcAt[l] # "planned"
  /\ waveNo' = [waveNo EXCEPT ![t] = @ + 1]
  /\ UNCHANGED <<runnerVars, lcAt, pooled, limiter>>

WaveOver(t) ==
  /\ HasWave(t) /\ \A l \in WaveAt(t) : lcAt[l] = "over"
  /\ waveNo' = [waveNo EXCEPT ![t] = @ + 1]
  /\ UNCHANGED <<runnerVars, lcAt, pooled, limiter>>

\* The tracks are joined, the pool is shut, the roots are torn down.
TeardownRoots ==
  /\ stage = "tracks" /\ \A t \in Tracks : waveNo[t] > Len(waves[t])
  /\ stage' = "done"
  /\ UNCHANGED <<planVars, tasksVars>>

WavesNext ==
  \/ PlanMade \/ ProvisionRoots \/ PoolTakes \/ AdjustLimit \/ TeardownRoots
  \/ \E t \in Tracks : StartWave(t) \/ WaveOver(t)
  \/ \E l \in Leaves : PackOne(l) \/ Acquire(l) \/ ExecutorReturns(l)

WavesSpec == WavesInit /\ [][WavesNext]_wavesVars

-----------------------------------------------------------------------------
Executing == {l \in Leaves : lcAt[l] = "exec"}

\* The lifecycles that create VPCs leave room for the shared roots under the cap (one
\* is let in even where the roots use it up), counted as the planner counts: one
\* slot for each.
SlotsFit ==
  Cardinality(Executing \cap leaf.creators) + leaf.roots <= Max({leaf.cap, leaf.roots + 1})

\* Lifecycles in flight: one for each thread of the pool, and one for each track
\* whose wave holds a single lifecycle.
InFlightFit ==
  LET alone == {t \in Tracks : HasWave(t) /\ Cardinality(WaveAt(t)) = 1}
  IN  Cardinality(Executing) <= PoolSize + Cardinality(alone)

\* The packing, the order of the waves and the one pool bound what runs at a time,
\* and all of it between the provisioning and the teardown of the roots.
WavesBounded == SlotsFit /\ InFlightFit /\ (Executing # {} => stage = "tracks")

\* Every lifecycle of the plan is run and run_plan returns, or nothing is run.
WavesDone ==
  \/ stage = "aborted" /\ \A l \in Leaves : lcAt[l] = "planned"
  \/ stage = "done" /\ \A l \in Leaves : lcAt[l] = "over"
=============================================================================
