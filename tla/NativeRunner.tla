---------------------------- MODULE NativeRunner ----------------------------
(***************************************************************************)
(* regression/scenarios/native_runner.py, run: one process, a pool of      *)
(* threads that pop lifecycles from a list in the order of priority, one   *)
(* Budget for all of them, and a thread in the background that provisions  *)
(* the shared VPCs (engine.provision_shared_vpc).  Lifecycles that adopt a *)
(* shared VPC wait for it, the others begin at once, so the Budget is told *)
(* of the VPCs that are planned before and of those that came up after.    *)
(*                                                                         *)
(* Of a lifecycle (engine.run_lifecycle) only its units of the Budget are  *)
(* kept: one is reserved before each VPC it creates, one returned by each  *)
(* successful call on the path of a VPC, a GET included, as long as it     *)
(* holds any, and one for each VPC that a teardown cleans up, held or not. *)
(* Subnets and gateways of the shared VPCs hold no unit and are left out.  *)
(***************************************************************************)
EXTENDS Naturals, Sequences, SequencesExt, FiniteSetsExt

CONSTANTS
  Selections,     \* what run may be asked for
  NativeThreads,
  VpcLimit,       \* budget.limits["vpc"]
  MaxPolls        \* rounds of _VPC_WAIT_POLL until _VPC_WAIT_TIMEOUT

NetVpcs == {"a", "b"}
SharedVpcIds == {"main"} \cup NetVpcs

VARIABLES
  sel,        \* the selection
  todo,       \* queue
  thr,        \* per thread: place, lifecycle, VPCs of this attempt, reserved["vpc"], waits
  ended,      \* results: how many each lifecycle has
  used,       \* budget.used["vpc"]
  prov,       \* _provision: place, net VPCs still to come, ids it has seen
  ctx,        \* the VPCs in shared_ctx
  chains,     \* is shared_teardown the provisioner's?
  up,         \* history: shared VPCs in the account
  stray,      \* history: units of failed creates, which nobody returns
  miscounted, \* history: was the count overwritten or a unit returned twice?
  mainAt      \* run's own thread: joins, teardown, return

nativeVars ==
  <<sel, todo, thr, ended, used, prov, ctx, chains, up, stray, miscounted, mainAt>>
threads == <<todo, thr, ended>>
background == <<prov, ctx, chains>>

Lifecycles == DOMAIN sel.creates
Creator(s, l) == s.creates[l] > 0
Adopter(s, l) == s.adopts[l] # "none"

\* shared_needs
Needs(s) ==
  LET adopted == {s.adopts[l] : l \in DOMAIN s.adopts} \ {"none"}
  IN  [any |-> s.blind \/ adopted # {},
       net |-> IF s.blind THEN NetVpcs ELSE adopted \cap NetVpcs]

\* priority_order: what depends on others last, what creates a VPC first, and the
\* longest first among equals.
Before(s, l, m) ==
  LET last(x) == x \in s.dependent
  IN  \/ last(m) /\ ~last(l)
      \/ /\ last(l) <=> last(m)
         /\ \/ Creator(s, l) /\ ~Creator(s, m)
            \/ (Creator(s, l) <=> Creator(s, m)) /\ s.lasts[l] > s.lasts[m]
PriorityOrder(s) == SetToSortSeq(DOMAIN s.creates, LAMBDA l, m : Before(s, l, m))

\* Mutant of Planned: the Budget is told of the shared VPCs when they are up.
PlannedNone(s) == 0

\* _planned
Planned(s) ==
  IF ~Needs(s).any THEN 0 ELSE 1 + (IF Needs(s).net # {} THEN 2 ELSE 0)

\* A selection: how many VPCs each lifecycle creates and which shared one it adopts,
\* those that depend on another lifecycle's product, the known durations, whether
\* shared_needs failed and asks for everything, and the shared VPCs the environment
\* names, if it was provisioned before.
ASSUME NativeAssumption ==
  /\ IsFiniteSet(NativeThreads) /\ MaxPolls \in Nat
  /\ VpcLimit \in Nat /\ VpcLimit >= Cardinality(SharedVpcIds)
  /\ \A s \in Selections :
       /\ s.creates \in [DOMAIN s.creates -> 0 .. VpcLimit]
       /\ s.adopts \in [DOMAIN s.creates -> SharedVpcIds \cup {"none"}]
       /\ s.dependent \subseteq DOMAIN s.creates
       /\ s.lasts \in [DOMAIN s.creates -> Nat] /\ IsInjective(s.lasts)
       /\ s.blind \in BOOLEAN
       /\ s.given # {} => Needs(s).any /\ "main" \in s.given
       /\ s.given \subseteq {"main"} \cup Needs(s).net

Free == [at |-> "idle", lc |-> "none", made |-> 0, units |-> 0, waits |-> 0]

NativeInit ==
  /\ sel \in Selections
  /\ todo = PriorityOrder(sel)
  /\ thr = [w \in NativeThreads |-> Free]
  /\ ended = [l \in Lifecycles |-> 0]
  /\ used = Planned(sel)
  /\ prov = [at |-> IF Needs(sel).any THEN "main" ELSE "done", net |-> Needs(sel).net, ids |-> {}]
  /\ ctx = {} /\ chains = FALSE
  /\ up = sel.given
  /\ stray = 0 /\ miscounted = FALSE
  /\ mainAt = "threads"

\* The units that lifecycles hold, one by one.
HeldUnits == UNION {{w} \X (1 .. thr[w].units) : w \in NativeThreads}
Units == Cardinality(HeldUnits)
Owed == Cardinality(up) + Units + stray

-----------------------------------------------------------------------------
(* _provision, in the background *)

ProvisionAt(place) == prov.at = place /\ mainAt # "returned"

\* provision_shared_vpc adopts what the environment names: nothing is created, and
\* nothing torn down.
AdoptGiven ==
  /\ ProvisionAt("main") /\ "main" \in sel.given
  /\ ctx' = sel.given
  /\ prov' = [prov EXCEPT !.at = "resync"]
  /\ UNCHANGED <<sel, threads, used, chains, up, stray, miscounted, mainAt>>

\* The main VPC: refused, or created and no id in the answer, ends it with nothing.
CreateMain ==
  /\ ProvisionAt("main") /\ "main" \notin sel.given
  /\ \/ /\ up' = up \cup {"main"}
        /\ prov' = [prov EXCEPT !.at = "net", !.ids = {"main"}]
     \/ /\ up' \in {up, up \cup {"main"}}
        /\ prov' = [prov EXCEPT !.at = "resync"]
  /\ UNCHANGED <<sel, threads, used, ctx, chains, stray, miscounted, mainAt>>

\* A networking VPC, A before B; one that fails is done without, one whose request
\* raises ends the provisioning.
CreateNet(t) ==
  /\ ProvisionAt("net") /\ t \in prov.net
  /\ t = "b" => "a" \notin prov.net
  /\ \/ /\ up' = up \cup {t}
        /\ prov' = [prov EXCEPT !.net = @ \ {t}, !.ids = @ \cup {t}]
     \/ /\ up' \in {up, up \cup {t}}
        /\ prov' \in {[prov EXCEPT !.net = @ \ {t}], [prov EXCEPT !.at = "resync"]}
  /\ UNCHANGED <<sel, threads, used, ctx, chains, stray, miscounted, mainAt>>

\* The wait until the main VPC is ACTIVE, and what is created inside it.  Met, the
\* ids and the teardown reach the runner; unmet, it raises, and they never do.
WaitMain ==
  /\ ProvisionAt("net") /\ prov.net = {}
  /\ prov' = [prov EXCEPT !.at = "resync"]
  /\ \/ ctx' = prov.ids /\ chains' = TRUE
     \/ UNCHANGED <<ctx, chains>>
  /\ UNCHANGED <<sel, threads, used, up, stray, miscounted, mainAt>>

\* Mutant of Resync: an error of the provisioning ends its thread.
ResyncUnlessFailed ==
  /\ ProvisionAt("resync") /\ ctx # {}
  /\ prov' = [prov EXCEPT !.at = "done"]
  /\ used' = Cardinality(ctx)
  /\ miscounted' = (miscounted \/ Owed # Cardinality(ctx))
  /\ UNCHANGED <<sel, threads, ctx, chains, up, stray, mainAt>>

\* The Budget is set to the residents unless there are as many as planned, whoever
\* holds units of it by now; then provision_done.
Resync ==
  /\ ProvisionAt("resync")
  /\ prov' = [prov EXCEPT !.at = "done"]
  /\ IF Cardinality(ctx) = Planned(sel)
       THEN UNCHANGED <<used, miscounted>>
       ELSE /\ used' = Cardinality(ctx)
            /\ miscounted' = (miscounted \/ Owed # Cardinality(ctx))
  /\ UNCHANGED <<sel, threads, ctx, chains, up, stray, mainAt>>

-----------------------------------------------------------------------------
(* The threads *)

Ready(l) == prov.at = "done" \/ ~Adopter(sel, l)

\* The first of the queue that is ready.
Pop(w) ==
  /\ thr[w].at = "idle"
  /\ \E i \in DOMAIN todo :
       /\ Ready(todo[i]) /\ \A j \in 1 .. i - 1 : ~Ready(todo[j])
       /\ thr' = [thr EXCEPT ![w] = [Free EXCEPT !.at = "run", !.lc = todo[i]]]
       /\ todo' = RemoveAt(todo, i)
  /\ UNCHANGED <<sel, ended, used, background, up, stray, miscounted, mainAt>>

LeavePool(w) ==
  /\ thr[w].at = "idle" /\ todo = <<>>
  /\ thr' = [thr EXCEPT ![w].at = "left"]
  /\ UNCHANGED <<sel, todo, ended, used, background, up, stray, miscounted, mainAt>>

\* The VPCs a lifecycle reserves for: an adopter without its shared one creates it.
VpcsOf(l) ==
  sel.creates[l] + (IF Adopter(sel, l) /\ sel.adopts[l] \notin ctx THEN 1 ELSE 0)

ReserveVpc(w) ==
  /\ thr[w].at = "run" /\ thr[w].made < VpcsOf(thr[w].lc)
  /\ used < VpcLimit
  /\ used' = used + 1
  /\ thr' = [thr EXCEPT ![w] = [thr[w] EXCEPT !.made = thr[w].made + 1,
                                             !.units = thr[w].units + 1]]
  /\ UNCHANGED <<sel, todo, ended, background, up, stray, miscounted, mainAt>>

\* Budget.release, which does not go below 0.
Returned(n) == IF used > n THEN used - n ELSE 0

\* A step on the path of a VPC succeeds: its readiness poll, or its own DELETE.
TouchVpc(w) ==
  /\ thr[w].at = "run" /\ thr[w].units > 0
  /\ used' = Returned(1)
  /\ thr' = [thr EXCEPT ![w].units = @ - 1]
  /\ UNCHANGED <<sel, todo, ended, background, up, stray, miscounted, mainAt>>

\* _teardown of an attempt: a unit for each VPC it has registered, also for those
\* whose unit a call has returned before; "lost" is the unit of the create that
\* failed, which nobody returns.
TornDown(w, lost) ==
  /\ used' = Returned(thr[w].made - lost)
  /\ miscounted' = (miscounted \/ thr[w].made > thr[w].units)
  /\ stray' = stray + lost

Result(w) ==
  /\ ended' = [ended EXCEPT ![thr[w].lc] = @ + 1]
  /\ thr' = [thr EXCEPT ![w] = Free]

\* No unit: the attempt is torn down and skipped.  A creator waits and runs again
\* from its first step, until it has waited long enough.
NoRoom(w) ==
  /\ thr[w].at = "run" /\ thr[w].made < VpcsOf(thr[w].lc)
  /\ used >= VpcLimit
  /\ TornDown(w, 0)
  /\ IF Creator(sel, thr[w].lc) /\ thr[w].waits < MaxPolls
       THEN /\ thr' = [thr EXCEPT ![w] = [thr[w] EXCEPT !.made = 0, !.units = 0,
                                                     !.waits = thr[w].waits + 1]]
            /\ UNCHANGED ended
       ELSE Result(w)
  /\ UNCHANGED <<sel, todo, background, up, mainAt>>

\* run_lifecycle returns "passed", without a teardown; every step on its VPCs has
\* succeeded then, and all units are back.
Passed(w) ==
  /\ thr[w].at = "run" /\ thr[w].made = VpcsOf(thr[w].lc) /\ thr[w].units = 0
  /\ Result(w)
  /\ UNCHANGED <<sel, todo, used, background, up, stray, miscounted, mainAt>>

\* It is skipped, or raises, at any step, and is torn down.
NotPassed(w) ==
  /\ thr[w].at = "run"
  /\ \E lost \in {0, 1} : lost <= thr[w].units /\ TornDown(w, lost)
  /\ Result(w)
  /\ UNCHANGED <<sel, todo, background, up, mainAt>>

-----------------------------------------------------------------------------
(* run *)

JoinThreads ==
  /\ mainAt = "threads" /\ \A w \in NativeThreads : thr[w].at = "left"
  /\ mainAt' = "provision"
  /\ UNCHANGED <<sel, threads, used, background, up, stray, miscounted>>

\* _prov_thread.join(timeout=60)
JoinProvision ==
  /\ mainAt = "provision"
  /\ mainAt' = "teardown"
  /\ UNCHANGED <<sel, threads, used, background, up, stray, miscounted>>

\* shared_teardown, as far as it is known by now: a chain for each VPC, of which
\* each may give up (or all, when nothing may be deleted).
SharedTeardown ==
  /\ mainAt = "teardown"
  /\ mainAt' = "returned"
  /\ IF chains THEN \E gone \in SUBSET ctx : up' = up \ gone ELSE UNCHANGED up
  /\ UNCHANGED <<sel, threads, used, background, stray, miscounted>>

NativeNext ==
  \/ AdoptGiven \/ CreateMain \/ (\E t \in NetVpcs : CreateNet(t)) \/ WaitMain \/ Resync
  \/ \E w \in NativeThreads :
       \/ Pop(w) \/ LeavePool(w) \/ ReserveVpc(w) \/ TouchVpc(w)
       \/ NoRoom(w) \/ Passed(w) \/ NotPassed(w)
  \/ JoinThreads \/ JoinProvision \/ SharedTeardown

NativeSpec == NativeInit /\ [][NativeNext]_nativeVars

-----------------------------------------------------------------------------
\* The shared Budget coordinates the account's quota: the shared VPCs that are up, the
\* units of the lifecycles and those of failed creates stay within the limit, although
\* creators start while the shared VPCs still come up, and whoever fails, waits and
\* runs again.  (Until the resynchronisation overwrites units that are held, or a
\* teardown returns a unit for the second time: then it is anyone's.)
NativeCap == ~miscounted => Owed <= VpcLimit

\* Every lifecycle has exactly one result and run returns, whatever fails.
NativeOver == mainAt = "returned" /\ \A l \in Lifecycles : ended[l] = 1
=============================================================================
