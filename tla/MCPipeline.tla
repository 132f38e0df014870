------------------------------ MODULE MCPipeline ------------------------------
(***************************************************************************)
(* Instances for TLC of the way of a scenario: its node is edited, its     *)
(* lifecycle composed, its run scheduled and carried out, on an account    *)
(* with shared resources or on its own, and the results folded together.   *)
(* These share no state; a behaviour is one of a single stretch of the     *)
(* way, and has the fairness of that stretch.                              *)
(***************************************************************************)
EXTENDS
  Authoring, Composer, ScheduleOptimizer, LocalRun, MCLifecycleEngine, RunRecords

CONSTANTS
  ep, conn, tvpc, tsub, tep, vol, srv,   \* leftovers: an endpoint, a connection, a VPC of a
                               \* test's own, its subnet, an endpoint in that; a volume and
                               \* the server that uses it
  na, nb, nc, nd

VARIABLE stretch

pipelineVars ==
  <<stretch, authoringVars, composerVars, scheduleVars, localVars, vars, resultsVars,
    logVars>>

MCFamily(f) == IF f = "res" THEN {"res"} ELSE {"frag", "oth"}

-----------------------------------------------------------------------------
(* Composer: networking as networking__vpc.yaml has it, and nodes for the   *)
(* refusals.                                                                *)
Simple == [needs |-> <<>>, groups |-> <<>>, options |-> {}, heavy |-> FALSE, soft |-> FALSE,
           deleted |-> TRUE, block |-> "none"]
Needing(needs) == [Simple EXCEPT !.needs = needs]
Choosing(groups) == [Simple EXCEPT !.groups = groups]

MCDeclared ==
  <<"vpc", "subnet", "group", "server", "gateway", "balancer", "peering", "link", "nat",
    "image", "lookup", "member", "ring", "pair", "old">>
MCTask ==
  "vpc" :> [Simple EXCEPT !.block = "unique"]
  @@ "subnet" :> [Needing("vpc" :> 1) EXCEPT !.block = "vpc"]
  @@ "group" :> Simple
  @@ "server" :> [Needing("subnet" :> 1 @@ "image" :> 1) EXCEPT !.options = {"group"},
                                                                !.heavy = TRUE]
  @@ "gateway" :> Needing("vpc" :> 1)
  @@ "balancer" :> Needing("subnet" :> 3)
  @@ "peering" :> Needing("vpc" :> 2)
  @@ "link" :> [Needing("subnet" :> 2) EXCEPT !.groups = <<<<"server", "balancer">>>>]
  @@ "nat" :> [Needing("subnet" :> 1) EXCEPT !.groups = <<<<"balancer", "gateway", "server">>,
                                                          <<"peering", "group">>>>]
  @@ "image" :> [Simple EXCEPT !.deleted = FALSE]
  @@ "lookup" :> [Simple EXCEPT !.soft = TRUE, !.deleted = FALSE]
  @@ "member" :> Choosing(<<<<"group", "lookup">>>>)
  @@ "ring" :> Needing("pair" :> 1)                      \* a cycle of a node and a branch
  @@ "pair" :> Choosing(<<<<"group", "ring">>>>)
  @@ "old" :> Choosing(<<<<"group", "ghost">>>>)         \* a node that is not declared
MCTargets ==
  {T \in SUBSET {"vpc", "server", "balancer", "peering", "link", "nat", "member", "lookup",
                 "ring", "old", "ghost"} : Cardinality(T) \in 1..2}
MCChoices ==
  {<<>>, "link" :> <<"balancer">>, "nat" :> <<"server">>, "nat" :> <<"group", "balancer">>,
   "nat" :> <<"vpc">>, "old" :> <<"ghost">>}
MCOrders == [targets : MCTargets, choices : MCChoices, references : {{}, {"group"}}]

-----------------------------------------------------------------------------
(* ScheduleOptimizer: four lifecycles, the last shape a cycle.              *)
Forecast == {na, nb, nc, nd}
Free == [n \in Forecast |-> {}]
Shapes ==
  {Free,
   [Free EXCEPT ![nb] = {na}],
   [Free EXCEPT ![nb] = {na}, ![nc] = {nb}],
   [Free EXCEPT ![nb] = {na}, ![nc] = {na}, ![nd] = {nb, nc}],
   [Free EXCEPT ![nc] = {na, nb}, ![nd] = {nb}],
   [Free EXCEPT ![nb] = {nc}, ![nc] = {nb}]}
MCWorks ==
  [duration : [Forecast -> {1, 3}], requires : Shapes,
   holds : {{}, {na, nb, nc}, {nb, nc, nd}, Forecast}]

-----------------------------------------------------------------------------
(* LocalRun *)
MCLeftovers == {ep, conn, tvpc, tsub, tep, vol, srv}
MCInsideOf ==
  ep :> {"main", "subnet"} @@ conn :> {"main", "tgw"}
  @@ tvpc :> {} @@ tsub :> {tvpc} @@ tep :> {tsub} @@ vol :> {} @@ srv :> {vol}
\* Servers are none of the collections of _ORDER.
MCReapOrder ==
  ep :> 1 @@ tep :> 1 @@ vol :> 3 @@ conn :> 14 @@ tsub :> 16 @@ tvpc :> 17 @@ srv :> 18

Selection(shared, leaves) == [shared |-> shared, leaves |-> leaves]
MCSelections == {
  Selection({"main", "subnet", "db", "igw"}, {ep}),
  Selection({"main", "subnet", "tgw"}, {conn, ep}),
  Selection({"main", "netA", "netB"}, {vol, srv}),
  Selection({}, {tvpc, tsub, tep})}

-----------------------------------------------------------------------------
\* The stretches that are not gone have one beginning.
PipelineInit ==
  /\ stretch \in {"edit", "compose", "schedule", "local", "engine", "results", "log"}
  /\ stretch = "compose" \/ ordered = [targets |-> {"vpc"}, choices |-> <<>>, references |-> {}]
  /\ stretch = "schedule" \/ work = [duration |-> [n \in Forecast |-> 1], requires |-> Free,
                                     holds |-> {}]
  /\ AuthoringInit /\ ComposerInit /\ ScheduleInit /\ LocalInit /\ Init /\ ResultsInit
  /\ ResourceLogInit
  /\ stretch # "local" => toMake = {} /\ run.destructive
  /\ stretch # "log" => DOMAIN emitter = Emitters
  /\ stretch # "engine" => destructive /\ \A b \in Budgets : used[b] = 0

PipelineNext ==
  /\ UNCHANGED stretch
  /\ \/ /\ stretch = "edit" /\ AuthoringNext
        /\ UNCHANGED <<composerVars, scheduleVars, localVars, vars, resultsVars, logVars>>
     \/ /\ stretch = "compose" /\ ComposerNext
        /\ UNCHANGED <<authoringVars, scheduleVars, localVars, vars, resultsVars, logVars>>
     \/ /\ stretch = "schedule" /\ ScheduleNext
        /\ UNCHANGED <<authoringVars, composerVars, localVars, vars, resultsVars, logVars>>
     \/ /\ stretch = "local" /\ LocalNext
        /\ UNCHANGED <<authoringVars, composerVars, scheduleVars, vars, resultsVars, logVars>>
     \/ /\ stretch = "engine" /\ Next
        /\ UNCHANGED <<authoringVars, composerVars, scheduleVars, localVars, resultsVars, logVars>>
     \/ /\ stretch = "results" /\ ResultsNext
        /\ UNCHANGED <<authoringVars, composerVars, scheduleVars, localVars, vars, logVars>>
     \/ /\ stretch = "log" /\ ResourceLogNext
        /\ UNCHANGED <<authoringVars, composerVars, scheduleVars, localVars, vars, resultsVars>>

\* That of LifecycleEngine, the only stretch that anything is said of how it ends.
LifecyclesProceed ==
  /\ stretch = "engine" /\ \E l \in Lifecycles : Proceed(l)
  /\ UNCHANGED <<stretch, authoringVars, composerVars, scheduleVars, localVars, resultsVars,
                 logVars>>
PipelineSpec == PipelineInit /\ [][PipelineNext]_pipelineVars /\ WF_pipelineVars(LifecyclesProceed)

\* Every lifecycle ends without help from the deadline: whoever waits for a slot
\* gets one, as every slot comes back on every path a lifecycle can take.
LifecyclesEnd == (stretch = "engine") => EveryLifecycleEnds
=============================================================================
