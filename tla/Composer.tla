------------------------------- MODULE Composer -------------------------------
(***************************************************************************)
(* regression/scenarios/composer.py: plan turns targets into an order of   *)
(* instances to create and one to delete them in, and compose writes the   *)
(* steps of a lifecycle from it.                                           *)
(*                                                                         *)
(* An instance is its node and its number.  A step is kept as what it      *)
(* does, its instance, and the instances whose ids its templates take.     *)
(* Options are kept where they decide something: optional references, and  *)
(* address blocks.  A cost is computed anew each time.                     *)
(***************************************************************************)
EXTENDS Naturals, Sequences, SequencesExt, FiniteSetsExt

CONSTANTS
  Declared,       \* the nodes of the model, in the order of their declaration
  Task,           \* Task[n]: needs (how many of each node), groups of branches, optional
                  \* references, heavy, soft, deleted, and block: none, unique, or a parent
  Orders,         \* what is composed: targets, choices for nodes, references taken
  SubBlocks       \* how many blocks can be carved from a block

Nodes == ToSet(Declared)
Declaration(n) == CHOOSE i \in DOMAIN Declared : Declared[i] = n
Infinite == 1000

ASSUME ComposerAssumption ==
  /\ \A i, j \in DOMAIN Declared : Declared[i] = Declared[j] => i = j
  /\ DOMAIN Task = Nodes /\ SubBlocks \in Nat \ {0}
  /\ \A n \in Nodes :
       /\ IsFiniteSet(DOMAIN Task[n].needs) /\ IsFiniteSet(Task[n].options)
       /\ \A d \in DOMAIN Task[n].needs : Task[n].needs[d] \in Nat \ {0}
       /\ \A g \in DOMAIN Task[n].groups : Task[n].groups[g] \in Seq(ToSet(Task[n].groups[g]))

VARIABLES
  ordered,     \* what is composed
  phase,       \* plan, place, use, create, delete, validate, done, or refused
  toExpand,    \* nodes that are needed and not expanded
  pool,        \* instances needed of each node
  consumers,   \* who needs a node, and how many of it
  pending,     \* groups to be resolved: their nodes and their index
  taken,       \* the branch of each group that is resolved
  sequence,    \* instances in the order of their creation
  lastUse,     \* of an instance: the position of the last that uses it, directly or not
  blocks,      \* the address block of each instance that has one: where it is cut from
  steps        \* the steps of the lifecycle

composerVars ==
  <<ordered, phase, toExpand, pool, consumers, pending, taken, sequence, lastUse, blocks, steps>>
closure == <<toExpand, pool, consumers, pending, taken>>

\* A target that is not in the model is refused.
ComposerInit ==
  /\ ordered \in Orders
  /\ phase = IF ordered.targets \subseteq Nodes THEN "plan" ELSE "refused"
  /\ toExpand = ordered.targets
  /\ pool = <<>> /\ consumers = {} /\ pending = {} /\ taken = <<>>
  /\ sequence = <<>> /\ lastUse = <<>> /\ blocks = <<>> /\ steps = <<>>

-----------------------------------------------------------------------------
(* plan: the closure *)

\* As many of a node as the one that needs most of it.
Wanted(d, who) == Max({w.count : w \in {w \in who : w.needs = d}} \cup {1})

Needs(n, d, count) == [node |-> n, needs |-> d, count |-> count]
Expanded(n) ==
  {Needs(n, d, Task[n].needs[d]) : d \in DOMAIN Task[n].needs}
  \cup {Needs(n, d, 1) : d \in Task[n].options \cap ordered.references}

\* _expand, of whatever is to be expanded: its result does not depend on the order.
\* A node that is not in the model is refused.
Expand ==
  /\ phase = "plan" /\ toExpand # {}
  /\ LET n == CHOOSE x \in toExpand : TRUE IN
       IF n \notin Nodes THEN phase' = "refused" /\ UNCHANGED closure
       ELSE /\ consumers' = consumers \cup Expanded(n)
            /\ pool' = [x \in DOMAIN pool \cup {n} |-> Wanted(x, consumers')]
            /\ toExpand' = (toExpand \cup {w.needs : w \in Expanded(n)}) \ DOMAIN pool'
            /\ pending' = pending \cup {<<n, g>> : g \in DOMAIN Task[n].groups}
            /\ UNCHANGED <<phase, taken>>
  /\ UNCHANGED <<ordered, sequence, lastUse, blocks, steps>>

\* What a node may need, in any of its branches.
Branches(n) == UNION {ToSet(Task[n].groups[g]) : g \in DOMAIN Task[n].groups}
Reached(S) ==
  LET Grown(R) == R \cup UNION {DOMAIN Task[n].needs \cup Branches(n) : n \in R \cap Nodes}
      reached[k \in 0 .. Len(Declared)] == IF k = 0 THEN S ELSE Grown(reached[k - 1])
  IN  reached[Len(Declared)]

\* _branch_cost: what is created for a node, and how much of it is heavy; below itself
\* a node costs more than any.
Cheaper(a, b) == a.creates < b.creates \/ (a.creates = b.creates /\ a.heavy < b.heavy)
Cheapest(costs) ==
  CHOOSE i \in DOMAIN costs : \A j \in DOMAIN costs \ {i} :
    Cheaper(costs[i], costs[j]) \/ (~Cheaper(costs[j], costs[i]) /\ i < j)

Cost(node) ==
  LET cost[n \in Nodes, above \in SUBSET Nodes] ==
        IF n \in above THEN [creates |-> Infinite, heavy |-> Infinite]
        ELSE LET needs == Task[n].needs
                 groups == Task[n].groups
                 Needed(d) == cost[d, above \cup {n}]
                 Best(g) == LET costs == [i \in DOMAIN groups[g] |-> Needed(groups[g][i])]
                            IN  costs[Cheapest(costs)]
             IN  [creates |->
                    1 + MapThenSumSet(LAMBDA d : Needed(d).creates + needs[d] - 1, DOMAIN needs)
                      + MapThenSumSet(LAMBDA g : Best(g).creates, DOMAIN groups),
                  heavy |-> (IF Task[n].heavy THEN 1 ELSE 0)
                            + MapThenSumSet(LAMBDA d : Needed(d).heavy, DOMAIN needs)
                            + MapThenSumSet(LAMBDA g : Best(g).heavy, DOMAIN groups)]
  IN  cost[node, {}]

\* Of the choices for a node those that are a branch of a group.
Asked(n) == IF n \in DOMAIN ordered.choices THEN ordered.choices[n] ELSE <<>>
Chosen(branches, n) == {i \in DOMAIN Asked(n) : Asked(n)[i] \in ToSet(branches)}

\* Mutant of InBundle: what is needed anyway is not looked at.
NoBundle(branches) == {}

\* Of the branches of a group those that are needed anyway.
InBundle(branches) == {i \in DOMAIN branches : branches[i] \in DOMAIN pool}

\* The next group, by the declaration of its node, is resolved: to the branch that was
\* chosen, else to one that is needed anyway, else to the cheapest.
ComesNext(p) ==
  \A q \in pending :
    Declaration(p[1]) < Declaration(q[1]) \/ (p[1] = q[1] /\ p[2] <= q[2])

ResolveTo(p, branch) ==
  /\ taken' = [q \in DOMAIN taken \cup {p} |-> IF q = p THEN branch ELSE taken[q]]
  /\ consumers' = consumers \cup {Needs(p[1], branch, 1)}
  /\ toExpand' = {branch} \ DOMAIN pool
  /\ pending' = pending \ {p}

ResolveGroup ==
  /\ phase = "plan" /\ toExpand = {} /\ pending # {}
  /\ \E p \in pending :
       LET branches == Task[p[1]].groups[p[2]]
           chosen == Chosen(branches, p[1])
           present == InBundle(branches)
       IN  /\ ComesNext(p)
           /\ IF chosen # {} THEN ResolveTo(p, Asked(p[1])[Min(chosen)]) /\ UNCHANGED phase
              ELSE IF present # {} THEN ResolveTo(p, branches[Min(present)]) /\ UNCHANGED phase
              ELSE IF Reached(ToSet(branches)) \subseteq Nodes
                   THEN LET costs == [i \in DOMAIN branches |-> Cost(branches[i])]
                        IN  ResolveTo(p, branches[Cheapest(costs)]) /\ UNCHANGED phase
              ELSE phase' = "refused" /\ UNCHANGED <<taken, consumers, toExpand, pending>>
  /\ UNCHANGED <<ordered, pool, sequence, lastUse, blocks, steps>>

\* A choice that is no branch of its node is refused.
Planned ==
  /\ phase = "plan" /\ toExpand = {} /\ pending = {}
  /\ phase' = IF \A n \in DOMAIN pool : ToSet(Asked(n)) \subseteq Branches(n)
              THEN "place" ELSE "refused"
  /\ UNCHANGED <<ordered, closure, sequence, lastUse, blocks, steps>>

-----------------------------------------------------------------------------
(* plan: the orders *)

Instances == UNION {{<<n, i>> : i \in 1..pool[n]} : n \in DOMAIN pool}
NeedsOf(n) == {w \in consumers : w.node = n}
InstDeps(x) == UNION {{<<w.needs, i>> : i \in 1..w.count} : w \in NeedsOf(x[1])}

Remaining == Instances \ ToSet(sequence)
Placeable == {x \in Remaining : InstDeps(x) \subseteq ToSet(sequence)}

Before(x, y) == Declaration(x[1]) < Declaration(y[1]) \/ (x[1] = y[1] /\ x[2] < y[2])

\* The first that is ready comes next; a cycle is refused.
PlaceNext ==
  /\ phase = "place"
  /\ \/ /\ Remaining = {}
        /\ phase' = "use" /\ UNCHANGED sequence
     \/ /\ Remaining # {} /\ Placeable = {}
        /\ phase' = "refused" /\ UNCHANGED sequence
     \/ \E x \in Placeable :
          /\ \A y \in Placeable \ {x} : Before(x, y)
          /\ sequence' = Append(sequence, x) /\ UNCHANGED phase
  /\ UNCHANGED <<ordered, closure, lastUse, blocks, steps>>

Pos(x) == CHOOSE i \in DOMAIN sequence : sequence[i] = x
Users(x) == {y \in Instances : x \in InstDeps(y)}

\* _last_use, from the end of the order on: no user of an instance is before it.
LastUseNext ==
  /\ phase = "use" /\ DOMAIN lastUse # Instances
  /\ LET x == sequence[Len(sequence) - Cardinality(DOMAIN lastUse)]
     IN  lastUse' = [z \in DOMAIN lastUse \cup {x} |->
           IF z = x THEN Max({Pos(x)} \cup {lastUse[y] : y \in Users(x)}) ELSE lastUse[z]]
  /\ UNCHANGED <<ordered, phase, closure, sequence, blocks, steps>>

\* compose: a lookup that may find nothing must not be needed by another node, in any
\* branch.
LookedUp ==
  /\ phase = "use" /\ DOMAIN lastUse = Instances
  /\ phase' = IF \E n \in DOMAIN pool : /\ Task[n].soft
                                        /\ \E m \in DOMAIN pool \ {n} :
                                             n \in DOMAIN Task[m].needs \cup Branches(m)
              THEN "refused" ELSE "create"
  /\ UNCHANGED <<ordered, closure, sequence, lastUse, blocks, steps>>

\* Mutant of DeletedBefore: of those last used together the older first.
DeletedOlder(x, y) ==
  lastUse[x] < lastUse[y] \/ (lastUse[x] = lastUse[y] /\ Pos(x) < Pos(y))

\* By their last use, the younger first.
DeletedBefore(x, y) ==
  lastUse[x] < lastUse[y] \/ (lastUse[x] = lastUse[y] /\ Pos(x) > Pos(y))

-----------------------------------------------------------------------------
(* compose *)

StepFor(does, x, uses) == [does |-> does, what |-> x, uses |-> uses]

Creations == {i \in DOMAIN steps : steps[i].does = "create"}
CutFrom(where) == Cardinality({x \in DOMAIN blocks : blocks[x].from = where})

\* A block is the next of all, or is cut from the first instance of the parent.
Parent(x) == <<Task[x[1]].block, 1>>

\* An instance's creation, and where its node is a target and it the first of it, its
\* verification.  A block that cannot be cut is refused.
Create ==
  /\ phase = "create" /\ Cardinality(Creations) < Len(sequence)
  /\ LET x == sequence[Cardinality(Creations) + 1]
         block == Task[x[1]].block
         from == Parent(x)
         made == <<StepFor("create", x, InstDeps(x))>>
         seen == IF x[1] \in ordered.targets /\ x[2] = 1
                 THEN <<StepFor("verify", x, {x} \cup InstDeps(x))>> ELSE <<>>
     IN  \/ /\ block = "none"
            /\ steps' = steps \o made \o seen
            /\ UNCHANGED <<phase, blocks>>
         \/ /\ block # "none"
            /\ block = "unique" \/ (from \in InstDeps(x) /\ CutFrom(from) < SubBlocks)
            /\ blocks' = [y \in DOMAIN blocks \cup {x} |->
                 IF y = x THEN [from |-> from, index |-> CutFrom(from)] ELSE blocks[y]]
            /\ steps' = steps \o made \o seen
            /\ UNCHANGED phase
         \/ /\ block \notin {"none", "unique"}
            /\ from \notin InstDeps(x) \/ CutFrom(from) = SubBlocks
            /\ phase' = "refused"
            /\ UNCHANGED <<blocks, steps>>
  /\ UNCHANGED <<ordered, closure, sequence, lastUse>>

AllCreated ==
  /\ phase = "create" /\ Cardinality(Creations) = Len(sequence)
  /\ phase' = "delete"
  /\ UNCHANGED <<ordered, closure, sequence, lastUse, blocks, steps>>

\* A deletion, the next of what can be deleted.
DeletedAlready == {steps[i].what : i \in {i \in DOMAIN steps : steps[i].does = "delete"}}
ToTearDown == {x \in ToSet(sequence) : Task[x[1]].deleted} \ DeletedAlready

TearDown ==
  /\ phase = "delete"
  /\ \/ /\ ToTearDown = {}
        /\ phase' = "validate" /\ UNCHANGED steps
     \/ \E x \in ToTearDown :
          /\ \A y \in ToTearDown \ {x} : DeletedBefore(x, y)
          /\ steps' = Append(steps, StepFor("delete", x, {x})) /\ UNCHANGED phase
  /\ UNCHANGED <<ordered, closure, sequence, lastUse, blocks>>

\* _validate_composed: ids are captured before they are used, what is created is deleted.
ValidateComposed ==
  /\ phase = "validate"
  /\ phase' = IF /\ \A i \in DOMAIN steps :
                      steps[i].uses \subseteq {steps[j].what : j \in Creations \cap 1..(i - 1)}
                 /\ \A i \in Creations : LET x == steps[i].what IN
                      Task[x[1]].deleted => \E j \in DOMAIN steps :
                                              steps[j].does = "delete" /\ steps[j].what = x
              THEN "done" ELSE "refused"
  /\ UNCHANGED <<ordered, closure, sequence, lastUse, blocks, steps>>

ComposerNext ==
  \/ Expand \/ ResolveGroup \/ Planned
  \/ PlaceNext \/ LastUseNext \/ LookedUp
  \/ Create \/ AllCreated \/ TearDown \/ ValidateComposed

ComposerSpec == ComposerInit /\ [][ComposerNext]_composerVars

-----------------------------------------------------------------------------
StepOf(does, x) == {i \in DOMAIN steps : steps[i].does = does /\ steps[i].what = x}
IsTarget(x) == x[1] \in ordered.targets /\ x[2] = 1

\* Neither a target nor needed by a node in such a number.
Needless ==
  {x \in Instances : ~IsTarget(x) /\ ~\E w \in consumers : w.needs = x[1] /\ x[2] <= w.count}

\* What the targets need in whatever branches: the least that has what its nodes need.
Needed(n) == {w.needs : w \in Expanded(n)}
Closed(R) == ordered.targets \subseteq R /\ \A n \in R : Needed(n) \subseteq R
Anyway ==
  LET closed == {R \in SUBSET DOMAIN pool : Closed(R)}
  IN  {n \in DOMAIN pool : \A R \in closed : n \in R}

\* The branch of a group is there for this group alone.
MadeFor(p) ==
  /\ taken[p] \notin Anyway \cup Needed(p[1])
  /\ \A w \in consumers : w.needs = taken[p] => w.node = p[1]
  /\ \A q \in DOMAIN taken \ {p} : taken[q] # taken[p]

\* What uses an instance, and what uses that.
AllUsers(x) ==
  LET users[y \in Instances] == UNION {{z} \cup users[z] : z \in Users(y)} IN users[x]

\* The lifecycle that comes out stands on its own, whatever is asked for: each instance
\* is created once and after what it uses, in as many as are needed and no more; a
\* branch is not made where the targets need another of the group anyway; what can be
\* deleted is deleted once, when all that is verified was, and while nothing that can
\* be deleted uses it, directly or not; and no two instances have one address block.
PlanSound ==
  phase = "done" =>
    /\ \A t \in ordered.targets : <<t, 1>> \in Instances
    /\ Needless = {}
    /\ \A p \in DOMAIN taken :
         LET branches == Task[p[1]].groups[p[2]]
         IN  Chosen(branches, p[1]) = {} /\ ToSet(branches) \cap Anyway # {} => ~MadeFor(p)
    /\ \A x \in Instances :
         /\ Cardinality(StepOf("create", x)) = 1
         /\ Cardinality(StepOf("delete", x)) = IF Task[x[1]].deleted THEN 1 ELSE 0
         /\ \A i \in StepOf("create", x), d \in InstDeps(x) : \A j \in StepOf("create", d) : j < i
         /\ \A i \in StepOf("delete", x) :
              /\ \A y \in AllUsers(x) : \A j \in StepOf("delete", y) : j < i
              /\ \A j \in DOMAIN steps : steps[j].does = "verify" => j < i
    /\ \A x, y \in DOMAIN blocks : blocks[x] = blocks[y] => x = y
=============================================================================
