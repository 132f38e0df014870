---------------------------- MODULE DagScheduler ----------------------------
(***************************************************************************)
(* regression/scenarios/dag_scheduler.py, run_dynamic: the lifecycles of a *)
(* plan are run by a pool of worker threads.  A thread takes, under one    *)
(* condition variable, the highest-priority lifecycle whose demand of VPC  *)
(* slots is free; the slots are what the account's cap leaves when the     *)
(* shared VPCs of the plan are up (dag_planner.Plan.self_create_budget).   *)
(* The shared VPCs are provisioned before and torn down after all of it.   *)
(*                                                                         *)
(* The planner derives the kinds a lifecycle creates as a set, so a node's *)
(* demand is 0 or 1 (SlotNodes).  The executor is any function that        *)
(* returns an outcome and does not raise, as dag_runner_live's.  The waits *)
(* of _take have a timeout of 2 s and look again, so a missed notification *)
(* only delays a thread; the model has no step for them.                   *)
(***************************************************************************)
EXTENDS Naturals, FiniteSets

CONSTANTS
  Nodes,        \* the lifecycles of the plan
  SlotNodes,    \* those that create a VPC of their own
  Heavy,        \* those the burst stagger spaces out
  Rank,         \* Rank[n]: place of n in the order longest first
  Workers,      \* worker threads
  NoNode, NoWorker,
  Cap,          \* vpc_cap
  SharedVpcs    \* shared_vpc_count: shared roots of the plan that are VPCs

ASSUME NodesAssumption ==
  /\ IsFiniteSet(Nodes) /\ NoNode \notin Nodes
  /\ SlotNodes \subseteq Nodes /\ Heavy \subseteq Nodes
  /\ Rank \in [Nodes -> Nat]
  /\ \A m, n \in Nodes : Rank[m] = Rank[n] => m = n
ASSUME WorkersAssumption == IsFiniteSet(Workers) /\ NoWorker \notin Workers
ASSUME CapAssumption == Cap \in Nat /\ SharedVpcs \in Nat

\* Mutant of Budget: the shared VPCs are not taken off.
BudgetAll == Cap

Budget == IF Cap > SharedVpcs THEN Cap - SharedVpcs ELSE 0

Demand(n) == IF n \in SlotNodes THEN 1 ELSE 0

VARIABLES
  phase,     \* of run_dynamic: "provision", "run", "done" or "aborted"
  shared,    \* are the shared VPCs up?
  pending,   \* nodes nobody has taken yet
  avail,     \* free VPC slots
  pc,        \* of a thread: "idle", "taken", "stagger", "exec", "giveback", "left"
  job,       \* the node a thread has taken, or NoNode
  runs,      \* outcomes recorded for a node
  stagger    \* holder of stagger_lock, or NoWorker

vars == <<phase, shared, pending, avail, pc, job, runs, stagger>>

Init ==
  /\ phase = "provision"
  /\ shared = FALSE
  /\ pending = Nodes
  /\ avail = Budget
  /\ pc = [w \in Workers |-> "idle"]
  /\ job = [w \in Workers |-> NoNode]
  /\ runs = [n \in Nodes |-> 0]
  /\ stagger = NoWorker

\* provisioner.provision(): when it raises nothing runs.
Provision ==
  /\ phase = "provision"
  /\ \/ phase' = "run" /\ shared' = TRUE
     \/ phase' = "aborted" /\ UNCHANGED shared
  /\ UNCHANGED <<pending, avail, pc, job, runs, stagger>>

-----------------------------------------------------------------------------
(* A worker thread *)

\* Mutant of Fits: one more slot than there is.
FitsOneMore(n) == avail + 1 >= Demand(n)

Fits(n) == avail >= Demand(n)

\* Mutant of Take: the node stays in the list until its thread has run it.
TakeAndLeave(w, n) ==
  /\ phase = "run" /\ pc[w] = "idle"
  /\ n \in pending /\ Fits(n)
  /\ avail' = avail - Demand(n)
  /\ job' = [job EXCEPT ![w] = n]
  /\ pc' = [pc EXCEPT ![w] = "taken"]
  /\ pending' = IF Cardinality(pending) = 1 THEN {} ELSE pending
  /\ UNCHANGED <<phase, shared, runs, stagger>>

\* _take: the first pending node whose slots are free.
Take(w, n) ==
  /\ phase = "run" /\ pc[w] = "idle"
  /\ n \in pending /\ Fits(n)
  /\ \A m \in pending : Fits(m) => Rank[n] <= Rank[m]
  /\ pending' = pending \ {n}
  /\ avail' = avail - Demand(n)
  /\ job' = [job EXCEPT ![w] = n]
  /\ pc' = [pc EXCEPT ![w] = "taken"]
  /\ UNCHANGED <<phase, shared, runs, stagger>>

\* _take returns None: nothing is left to take.
Leave(w) ==
  /\ phase = "run" /\ pc[w] = "idle"
  /\ pending = {}
  /\ pc' = [pc EXCEPT ![w] = "left"]
  /\ UNCHANGED <<phase, shared, pending, avail, job, runs, stagger>>

\* _stagger: a heavy node waits for its turn holding stagger_lock.
StaggerEnter(w) ==
  /\ pc[w] = "taken" /\ job[w] \in Heavy
  /\ stagger = NoWorker
  /\ stagger' = w
  /\ pc' = [pc EXCEPT ![w] = "stagger"]
  /\ UNCHANGED <<phase, shared, pending, avail, job, runs>>

Launch(w) ==
  /\ \/ pc[w] = "taken" /\ job[w] \notin Heavy /\ UNCHANGED stagger
     \/ pc[w] = "stagger" /\ stagger' = NoWorker
  /\ pc' = [pc EXCEPT ![w] = "exec"]
  /\ UNCHANGED <<phase, shared, pending, avail, job, runs>>

\* The executor returns and the outcome is recorded.
Record(w) ==
  /\ pc[w] = "exec"
  /\ runs' = [runs EXCEPT ![job[w]] = @ + 1]
  /\ pc' = [pc EXCEPT ![w] = "giveback"]
  /\ UNCHANGED <<phase, shared, pending, avail, job, stagger>>

\* The finally clause of _worker.
GiveBack(w) ==
  /\ pc[w] = "giveback"
  /\ avail' = avail + Demand(job[w])
  /\ job' = [job EXCEPT ![w] = NoNode]
  /\ pc' = [pc EXCEPT ![w] = "idle"]
  /\ UNCHANGED <<phase, shared, pending, runs, stagger>>

\* Mutant of Teardown: it does not wait for the threads.
TeardownEarly ==
  /\ phase = "run"
  /\ pending = {}
  /\ phase' = "done"
  /\ shared' = FALSE
  /\ UNCHANGED <<pending, avail, pc, job, runs, stagger>>

\* All threads are joined, then provisioner.teardown(); that it may fail, and
\* leave the shared VPCs up, changes nothing for the run.
Teardown ==
  /\ phase = "run"
  /\ \A w \in Workers : pc[w] = "left"
  /\ phase' = "done"
  /\ shared' \in BOOLEAN
  /\ UNCHANGED <<pending, avail, pc, job, runs, stagger>>

Step(w) ==
  \/ \E n \in Nodes : Take(w, n)
  \/ Leave(w) \/ StaggerEnter(w) \/ Launch(w) \/ Record(w) \/ GiveBack(w)

Next == Provision \/ Teardown \/ \E w \in Workers : Step(w)

Spec == Init /\ [][Next]_vars

\* Threads are scheduled, the executor returns (every request and poll of the
\* engine has a timeout), and the provisioner comes back either way.
FairSpec ==
  /\ Spec
  /\ WF_vars(Provision) /\ WF_vars(Teardown)
  /\ \A w \in Workers : WF_vars(Step(w))

-----------------------------------------------------------------------------
(* Properties *)

Creating == {n \in SlotNodes : \E w \in Workers : job[w] = n}

\* Every variable has its type; stagger_lock is held by exactly the thread that
\* is inside _stagger, and a thread has a node from _take to its finally clause.
TypeOK ==
  /\ phase \in {"provision", "run", "done", "aborted"}
  /\ shared \in BOOLEAN
  /\ pending \subseteq Nodes
  /\ avail \in Nat
  /\ pc \in [Workers -> {"idle", "taken", "stagger", "exec", "giveback", "left"}]
  /\ job \in [Workers -> Nodes \cup {NoNode}]
  /\ runs \in [Nodes -> Nat]
  /\ stagger \in Workers \cup {NoWorker}
  /\ \A w \in Workers : pc[w] = "stagger" <=> stagger = w
  /\ \A w \in Workers : pc[w] \in {"idle", "left"} <=> job[w] = NoNode

\* The guarantee of docs/scheduler-system.md: the lifecycles that create a VPC
\* of their own, with the shared VPCs, can never exceed the cap.  (A cap below
\* the shared VPCs is exceeded by the provisioner alone.)
CapSafe == Cap >= SharedVpcs => Cardinality(Creating) + SharedVpcs <= Cap

\* Each node is in exactly one place: waiting, with one thread, or recorded
\* once.  No thread's pop loses a node or hands it out twice.
Running(n) == {w \in Workers : job[w] = n /\ pc[w] # "giveback"}
RunOnce ==
  \A n \in Nodes :
    runs[n] + Cardinality(Running(n)) + (IF n \in pending THEN 1 ELSE 0) = 1

\* No lifecycle is executed before the shared VPCs are up or after their
\* teardown: an adopter never finds its VPC gone.
SharedWhileRunning == \A w \in Workers : pc[w] = "exec" => shared /\ phase = "run"

\* The counter under the condition variable implements the abstract pool.
Pool == INSTANCE SlotPool WITH Holders <- SlotNodes, Limit <- Budget, held <- Creating
PoolSpec == Pool!Spec

\* Once the shared roots are up every lifecycle is run, whatever waits for slots
\* and whatever waits in the stagger, and all slots are back at the end.
DynamicOver == phase = "done" /\ avail = Budget /\ \A n \in Nodes : runs[n] = 1
AllRun == phase = "run" ~> DynamicOver

=============================================================================
