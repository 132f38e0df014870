------------------------------- MODULE LocalRun -------------------------------
(***************************************************************************)
(* regression/scenarios/local_run.py, live_run, with the subprocesses of   *)
(* shared_infra.py and cleanup/run_scoped.py: a run provisions the shared  *)
(* resources, starts the tests, then reaps what its ledger of events says  *)
(* is left, tears the shared resources down in up to four threads, and     *)
(* decides on the sweep.  The account deletes in its own time and refuses  *)
(* to delete what something else is still in.                              *)
(*                                                                         *)
(* Of the tests only what they leave is kept.  The sweep itself is in      *)
(* module Reconciler.                                                      *)
(***************************************************************************)
EXTENDS Naturals, SequencesExt

CONSTANTS
  Leftovers,     \* what tests may leave
  InsideOf,      \* InsideOf[k]: what a leftover is in
  ReapOrder,     \* the place of a leftover's collection in _ORDER
  Nested,        \* leftovers that are deleted by a path below their collection
  LeftVpcs,      \* leftovers that are VPCs
  LeftSubnets,   \* leftovers that are subnets
  LocalSelections,   \* what runs are made of: shared resources needed, and leftovers
  MaxLadder      \* attempts of a _ladder

SharedOrder == <<"main", "netA", "netB", "tgw", "igw", "subnet", "db">>
SharedItems == ToSet(SharedOrder)
Subnets == {"subnet", "db"}
Things == SharedItems \cup Leftovers

Inside(x) ==
  CASE x \in Leftovers -> InsideOf[x]
    [] x \in Subnets \cup {"igw"} -> {"main"}
    [] OTHER -> {}

ASSUME LocalAssumption ==
  /\ Leftovers \cap SharedItems = {} /\ LeftVpcs \cup LeftSubnets \cup Nested \subseteq Leftovers
  /\ InsideOf \in [Leftovers -> SUBSET Things] /\ ReapOrder \in [Leftovers -> Nat]
  \* A subnet is in one VPC.
  /\ \A k \in LeftSubnets : \A x, y \in InsideOf[k] : x = y
  \* What is shared is in the main VPC or beside it.
  /\ \A s \in LocalSelections :
       /\ s.shared \subseteq SharedItems /\ s.leaves \subseteq Leftovers
       /\ s.shared # {} => "main" \in s.shared
  /\ MaxLadder \in Nat \ {0}

VARIABLES
  run,        \* the selection, the gate for deletes, and the place of live_run
  life,       \* of each resource: none, up, deleting, gone
  toMake,     \* provision_shared_vpc: creations to come
  ids,        \* its ids, and from its end the SCP_SHARED_* variables
  ledger,     \* tracked and not deleted, by the events of the run
  reap,       \* reap_run_leftovers: items to come, deletes issued in this collection, its
              \* place, and the VPC whose holders are deleted
  chain,      \* teardown: the place and the attempts of each thread
  issued,     \* subnets whose DELETE was accepted by the teardown
  sweepRun,   \* was the sweep run?
  \* History.
  failed,     \* resources a request about which went wrong, or was left out after one that did
  inTheWay,   \* what a resource's last DELETE was refused for, with its life then
  outlasted   \* deletions that were not over when the wait for them was

localVars ==
  <<run, life, toMake, ids, ledger, reap, chain, issued, sweepRun, failed, inTheWay, outlasted>>
provisioning == <<toMake, ids>>
tearing == <<chain, issued>>
history == <<failed, inTheWay, outlasted>>

RunAt(place) == run.at = place
RunTo(place) == run' = [run EXCEPT !.at = place]

Up(x) == life[x] = "up"
InAccount(x) == life[x] \in {"up", "deleting"}
ThingsIn(x) == {y \in Things : x \in Inside(y) /\ InAccount(y)}

Holding(x) == {[what |-> y, up |-> Up(y)] : y \in ThingsIn(x)}

Chains == {"main", "tgw", "netA", "netB"}
NoChain == [at |-> "end", tries |-> 0]

LocalInit ==
  /\ \E s \in LocalSelections, destructive \in BOOLEAN :
       run = [leaves |-> s.leaves, destructive |-> destructive, at |-> "provision",
              tracked |-> FALSE]
       /\ toMake = s.shared
  /\ life = [x \in Things |-> "none"]
  /\ ids = {} /\ ledger = {} /\ reap = [todo |-> {}, pending |-> {}, at |-> "items", vpc |-> {}]
  /\ chain = [c \in Chains |-> NoChain] /\ issued = {} /\ sweepRun = FALSE
  /\ failed = {} /\ inTheWay = [x \in Things |-> {}] /\ outlasted = {}

-----------------------------------------------------------------------------
(* shared_infra --provision *)

Turn(x) == CHOOSE i \in DOMAIN SharedOrder : SharedOrder[i] = x
NextToMake(x) == x \in toMake /\ \A y \in toMake : Turn(x) <= Turn(y)

\* The next shared resource is created; or refused, or created with no id in the
\* answer, and done without.  With no main VPC there is nothing to adopt.
CreateShared(x) ==
  /\ RunAt("provision") /\ NextToMake(x)
  /\ \/ /\ life' = [life EXCEPT ![x] = "up"]
        /\ ids' = ids \cup {x} /\ toMake' = toMake \ {x}
        /\ UNCHANGED run
     \/ /\ life' \in {life, [life EXCEPT ![x] = "up"]}
        /\ IF x = "main" THEN toMake' = {} /\ RunTo("tests")
                         ELSE toMake' = toMake \ {x} /\ UNCHANGED run
        /\ UNCHANGED ids
  /\ UNCHANGED <<ledger, reap, tearing, sweepRun, history>>

\* A request raises: no id reaches the run, whatever has been created.
ProvisionRaises(x) ==
  /\ RunAt("provision") /\ NextToMake(x)
  /\ life' \in {life, [life EXCEPT ![x] = "up"]}
  /\ toMake' = {} /\ ids' = {}
  /\ RunTo("tests")
  /\ UNCHANGED <<ledger, reap, tearing, sweepRun, history>>

Provisioned ==
  /\ RunAt("provision") /\ toMake = {}
  /\ RunTo("tests")
  /\ UNCHANGED <<life, provisioning, ledger, reap, tearing, sweepRun, history>>

-----------------------------------------------------------------------------
(* The tests *)

\* What the tests leave in the account: tracked and up, up with an id that was never
\* seen, or on its way out.  What is in a leftover comes with it.
TestsEnd ==
  /\ RunAt("tests")
  /\ \E left \in [run.leaves -> {"none", "tracked", "unseen", "deleting"}] :
       /\ \A k \in run.leaves : left[k] # "none" =>
            \A x \in InsideOf[k] : IF x \in Leftovers THEN left[x] \in {"tracked", "unseen"}
                                                      ELSE Up(x) /\ x \in ids
       /\ life' = [x \in Things |->
                     IF x \notin run.leaves \/ left[x] = "none" THEN life[x]
                     ELSE IF left[x] = "deleting" THEN "deleting" ELSE "up"]
       /\ ledger' = {k \in run.leaves : left[k] = "tracked"}
       /\ reap' = [reap EXCEPT !.todo = ledger']
       /\ run' = [run EXCEPT !.at = "reap",
                             !.tracked = \E k \in run.leaves :
                                           left[k] \in {"tracked", "deleting"}]
  /\ UNCHANGED <<provisioning, tearing, sweepRun, history>>

\* pytest_did_not_run: neither reap nor teardown nor sweep.
RunnerMissing ==
  /\ RunAt("tests")
  /\ RunTo("skipped")
  /\ UNCHANGED <<life, provisioning, ledger, reap, tearing, sweepRun, history>>

-----------------------------------------------------------------------------
(* Deletions *)

\* The account takes a DELETE, of what is gone too, unless something is inside.
Accepts(x) ==
  /\ ThingsIn(x) = {}
  /\ life' = [life EXCEPT ![x] = IF InAccount(x) THEN "deleting" ELSE @]
Refuses(x) ==
  /\ InAccount(x) /\ ThingsIn(x) # {}
  /\ inTheWay' = [inTheWay EXCEPT ![x] = Holding(x)]
GoesWrong(x) == failed' = failed \cup {x}

Vanishes(x) ==
  /\ life[x] = "deleting"
  /\ life' = [life EXCEPT ![x] = "gone"]
  /\ UNCHANGED <<run, provisioning, ledger, reap, tearing, sweepRun, history>>

-----------------------------------------------------------------------------
(* run_scoped.reap_run_leftovers *)

Collection == {k \in reap.todo : \A j \in reap.todo : ReapOrder[k] <= ReapOrder[j]}
Later == reap.todo \ Collection

\* Mutant of NextItem: the collections are not ordered.
AnyItem == reap.todo

\* The first collection's items, those with the longer paths first.
NextItem == IF Collection \cap Nested # {} THEN Collection \cap Nested ELSE Collection

\* Mutant of AfterItem: the next collection does not wait for this one.
AfterItemAtOnce(k, taken) ==
  reap' = [todo |-> reap.todo \ {k}, pending |-> {}, at |-> "items", vpc |-> {}]

\* When a collection is through, what was taken of it is waited for, if there are
\* collections to come.
AfterItem(k, taken) ==
  LET pending == reap.pending \cup taken
  IN  reap' = [todo |-> reap.todo \ {k}, pending |-> pending,
               at |-> IF Collection = {k} /\ Later # {} /\ pending # {}
                      THEN "barrier" ELSE "items",
               vpc |-> {}]

\* Its GET fails, or its DELETE does; it is gone already; the DELETE is taken, or
\* refused, after which a VPC's subnets are deleted and it is tried once more.
ReapItem(k) ==
  /\ RunAt("reap") /\ reap.at = "items" /\ k \in NextItem
  /\ \/ GoesWrong(k) /\ AfterItem(k, {}) /\ UNCHANGED <<life, inTheWay>>
     \/ ~InAccount(k) /\ AfterItem(k, {}) /\ UNCHANGED <<life, failed, inTheWay>>
     \/ InAccount(k) /\ Accepts(k) /\ AfterItem(k, {k}) /\ UNCHANGED <<failed, inTheWay>>
     \/ /\ Refuses(k)
        /\ IF k \in LeftVpcs THEN reap' = [reap EXCEPT !.at = "holders", !.vpc = {k}]
                             ELSE AfterItem(k, {})
        /\ UNCHANGED <<life, failed>>
  /\ UNCHANGED <<run, provisioning, ledger, tearing, sweepRun, outlasted>>

\* The subnets the refusal names are deleted and waited for, seen before or not.
ReapHolders(k) ==
  /\ RunAt("reap") /\ reap.at = "holders" /\ k \in reap.vpc
  /\ life' = [x \in Things |->
                IF x \in ThingsIn(k) \cap LeftSubnets /\ ThingsIn(x) = {} THEN "deleting"
                                                                      ELSE life[x]]
  /\ reap' = [reap EXCEPT !.at = "again"]
  /\ UNCHANGED <<run, provisioning, ledger, tearing, sweepRun, history>>

ReapAgain(k) ==
  /\ RunAt("reap") /\ reap.at = "again" /\ k \in reap.vpc
  /\ outlasted' = outlasted \cup {x \in ThingsIn(k) : life[x] = "deleting"}
  /\ \/ Accepts(k) /\ AfterItem(k, {k}) /\ UNCHANGED inTheWay
     \/ Refuses(k) /\ AfterItem(k, {}) /\ UNCHANGED life
  /\ UNCHANGED <<run, provisioning, ledger, tearing, sweepRun, failed>>

\* One of these requests raises: nothing more is reaped.
ReapRaises ==
  /\ RunAt("reap") /\ reap.at \in {"holders", "again"}
  /\ failed' = failed \cup reap.todo
  /\ reap' = [todo |-> {}, pending |-> {}, at |-> "items", vpc |-> {}]
  /\ UNCHANGED <<run, life, provisioning, ledger, tearing, sweepRun, inTheWay, outlasted>>

\* _wait_all_gone: all are gone, or the deadline passes or a GET fails.
BarrierEnds ==
  /\ RunAt("reap") /\ reap.at = "barrier"
  /\ outlasted' = outlasted \cup {k \in reap.pending : InAccount(k)}
  /\ reap' = [reap EXCEPT !.at = "items", !.pending = {}]
  /\ UNCHANGED <<run, life, provisioning, ledger, tearing, sweepRun, failed, inTheWay>>

\* Mutant of Reaped: nothing is reaped before the teardown.
ReapedNot == RunAt("reap")

Reaped == RunAt("reap") /\ reap.todo = {} /\ reap.at = "items"

\* The teardown begins, where the gate is open and there is a main VPC.
TeardownBegins ==
  /\ Reaped
  /\ IF run.destructive /\ "main" \in ids
     THEN /\ RunTo("teardown")
          /\ chain' = [c \in Chains |->
                         IF c \in ids THEN [at |-> IF c = "main" THEN "subnets" ELSE
                                                   IF c = "tgw" THEN "settle" ELSE c,
                                            tries |-> 0]
                                      ELSE NoChain]
     ELSE RunTo("sweep") /\ UNCHANGED chain
  /\ UNCHANGED <<life, provisioning, ledger, reap, issued, sweepRun, history>>

-----------------------------------------------------------------------------
(* shared_infra --teardown *)

ChainAt(c, place) == RunAt("teardown") /\ chain[c].at = place
ChainTo(c, place) == chain' = [chain EXCEPT ![c] = [at |-> place, tries |-> 0]]

\* The shared subnets, once each.
DeleteSubnets ==
  /\ ChainAt("main", "subnets")
  /\ \E result \in [Subnets \cap ids -> {"asked", "wrong"}] :
       LET asked == {x \in Subnets \cap ids : result[x] = "asked"}
           taken == {x \in asked : ThingsIn(x) = {}}
       IN  /\ life' = [x \in Things |->
                         IF x \in taken /\ InAccount(x) THEN "deleting" ELSE life[x]]
           /\ inTheWay' = [x \in Things |->
                             IF x \in asked \ taken THEN Holding(x) ELSE inTheWay[x]]
           /\ failed' = failed \cup ((Subnets \cap ids) \ asked)
           /\ issued' = taken
  /\ ChainTo("main", "wait")
  /\ UNCHANGED <<run, provisioning, ledger, reap, sweepRun, outlasted>>

\* Mutant of AfterSubnets: the VPC is deleted before what is attached to it.
AfterSubnetsVpc == "main"

AfterSubnets == IF "igw" \in ids THEN "igw" ELSE "main"

\* Until they are gone, the deadline passes, or a GET fails, which counts as gone.
SubnetsGone ==
  /\ ChainAt("main", "wait")
  /\ outlasted' = outlasted \cup {x \in issued : InAccount(x)}
  /\ ChainTo("main", AfterSubnets)
  /\ UNCHANGED <<run, life, provisioning, ledger, reap, issued, sweepRun, failed, inTheWay>>

\* The TGW settles, or does not in time.
TgwSettled ==
  /\ ChainAt("tgw", "settle")
  /\ ChainTo("tgw", "tgw")
  /\ UNCHANGED <<run, life, provisioning, ledger, reap, issued, sweepRun, history>>

\* A chain's place in its ladders is named for what is deleted there.
Above(x) == IF x = "igw" THEN "main" ELSE "end"

\* _ladder: a DELETE that is refused is tried again.
Ladder(c) ==
  /\ RunAt("teardown") /\ chain[c].at \in SharedItems
  /\ LET x == chain[c].at IN
       \/ Accepts(x) /\ ChainTo(c, Above(x)) /\ UNCHANGED <<failed, inTheWay>>
       \/ GoesWrong(x) /\ ChainTo(c, Above(x)) /\ UNCHANGED <<life, inTheWay>>
       \/ /\ Refuses(x)
          /\ IF chain[c].tries + 1 = MaxLadder THEN ChainTo(c, Above(x))
             ELSE chain' = [chain EXCEPT ![c].tries = @ + 1]
          /\ UNCHANGED <<life, failed>>
  /\ UNCHANGED <<run, provisioning, ledger, reap, issued, sweepRun, outlasted>>

TeardownEnds ==
  /\ RunAt("teardown") /\ \A c \in Chains : chain[c].at = "end"
  /\ RunTo("sweep")
  /\ UNCHANGED <<life, provisioning, ledger, reap, tearing, sweepRun, history>>

\* The sweep is for runs that have tracked something, unless it is switched off.
SweepDecided ==
  /\ RunAt("sweep")
  /\ sweepRun' \in {run.tracked, FALSE}
  /\ RunTo("over")
  /\ UNCHANGED <<life, provisioning, ledger, reap, tearing, history>>

LocalNext ==
  \/ \E x \in SharedItems : CreateShared(x) \/ ProvisionRaises(x)
  \/ Provisioned \/ TestsEnd \/ RunnerMissing
  \/ \E x \in Things : Vanishes(x)
  \/ \E k \in Leftovers : ReapItem(k) \/ ReapHolders(k) \/ ReapAgain(k)
  \/ ReapRaises \/ BarrierEnds \/ TeardownBegins
  \/ DeleteSubnets \/ SubnetsGone \/ TgwSettled \/ (\E c \in Chains : Ladder(c)) \/ TeardownEnds
  \/ SweepDecided

LocalSpec == LocalInit /\ [][LocalNext]_localVars

-----------------------------------------------------------------------------
Known == ids \cup ledger
\* A resource the run knows of, still there although no request about it went wrong.
Stays(x) == x \in Known /\ Up(x) /\ x \notin failed

\* The reap comes to y before it comes to x.
ReapedBefore(y, x) ==
  \/ ReapOrder[y] < ReapOrder[x]
  \/ ReapOrder[y] = ReapOrder[x] /\ y \in Nested /\ x \notin Nested

\* y was to be gone before x was deleted: the shared subnets before their VPC, and a
\* collection before the next.
AwaitedBefore(y, x) ==
  \/ y \in issued /\ x = "main"
  \/ {x, y} \subseteq ledger /\ ReapOrder[y] < ReapOrder[x]

\* Why y was up when the DELETE of x was refused because of it: it is not known to the
\* run, or left for such a reason itself, or the reap only came to it afterwards.
UpForAReason(y, x) ==
  \/ y \notin Known \/ y \in failed \/ Up(y)
  \/ {x, y} \subseteq ledger /\ ~ReapedBefore(y, x)

Explained(x) ==
  Stays(x) =>
    /\ inTheWay[x] # {}
    /\ \A h \in inTheWay[x] :
         IF h.up THEN UpForAReason(h.what, x)
                 ELSE AwaitedBefore(h.what, x) => h.what \in outlasted

\* What is left stays for a reason, in whatever order the threads and the account
\* work.  When the run is over, something that it knows of is up only because a
\* request about it went wrong or because something was in it to the last.  That was
\* up for a reason too; or it was on its way out, and if the run had been to wait for
\* that, the wait had run out.
LeftForAReason == RunAt("over") /\ run.destructive => \A x \in Things : Explained(x)
=============================================================================
