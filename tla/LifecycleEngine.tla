--------------------------- MODULE LifecycleEngine ---------------------------
(***************************************************************************)
(* regression/scenarios/engine.py, run_lifecycle with SCP_VPC_SEMAPHORE on: *)
(* several lifecycles run side by side against one account, each a list of *)
(* steps that create, use and delete resources.  A VPC create takes a unit *)
(* of the worker's Budget and a slot of the cross-process semaphore        *)
(* (VpcSemaphore, here by its promise: a slot is granted while fewer than  *)
(* SemLimit are held), a failure tears down what was created in reverse    *)
(* order, and every exit gives the slots back.                             *)
(*                                                                         *)
(* A step is [op, res, group, optional, tolerant]:                         *)
(*   "create"  makes resource res and registers its cleanup                *)
(*   "touch"   any other call on res's own path, as GET /v1/vpcs/{id}      *)
(*   "delete"  the lifecycle's own DELETE of res (destructive)             *)
(*   "check"   a call on some other path                                   *)
(* and is `tolerant' when its expect_status lists an error, as 404 or 409. *)
(* Resources are VPCs and things inside a VPC (InVpc).  The API refuses to *)
(* delete a VPC with something left inside.                                *)
(***************************************************************************)
EXTENDS Integers, Sequences, FiniteSets, SequencesExt

CONSTANTS
  Lifecycles,      \* lifecycles that run at the same time
  Program,         \* Program[l]: the steps of lifecycle l
  Vpcs,            \* resources that are VPCs
  InVpc,           \* InVpc[c]: the VPC a child resource is created in
  NoGroup,         \* group of a step outside any optional group
  BudgetOf,        \* BudgetOf[l]: the Budget that lifecycle l was handed
  UsedBefore,      \* UsedBefore[b]: units that earlier lifecycles left reserved
  Cap,             \* the account's VPC cap, also the limit of every Budget
  Residents        \* VPCs of the shared infrastructure

Children == DOMAIN InVpc
Resources == Vpcs \cup Children
Budgets == {BudgetOf[l] : l \in Lifecycles}
AllSteps == UNION {Range(Program[l]) : l \in Lifecycles}
Groups == {s.group : s \in AllSteps} \ {NoGroup}
Creator(r) == CHOOSE l \in Lifecycles :
                \E s \in Range(Program[l]) : s.op = "create" /\ s.res = r

ASSUME StepsAssumption ==
  \A l \in Lifecycles :
    /\ Program[l] \in Seq(Range(Program[l]))
    /\ \A i \in DOMAIN Program[l] :
         LET s == Program[l][i]
         IN  /\ s.op \in {"create", "touch", "delete", "check"}
             /\ s.op # "check" => s.res \in Resources
             /\ s.optional \in BOOLEAN /\ s.tolerant \in BOOLEAN

ASSUME LimitsAssumption ==
  /\ IsFiniteSet(Lifecycles) /\ IsFiniteSet(Vpcs) /\ Vpcs \cap Children = {}
  /\ Cap \in Nat /\ Residents \in Nat
  /\ \A b \in Budgets : UsedBefore[b] \subseteq 0..Cap

\* What the lifecycles under regression/scenarios are like.  A path or a body names a
\* resource by the id that an earlier create of the same lifecycle has captured
\* (validate.py: a placeholder no earlier step captures is an error); what is created
\* is deleted by a later step (its warning of a leak), of the same group or of none;
\* and to create and delete a VPC is never optional nor in a group.
Makes(l, i) == i \in DOMAIN Program[l] /\ Program[l][i].op = "create"
Unmade(l, i, k) ==
  /\ k \in DOMAIN Program[l] /\ k > i
  /\ Program[l][k].op = "delete" /\ Program[l][k].res = Program[l][i].res
  /\ Program[l][k].group \in {NoGroup, Program[l][i].group}

ASSUME ScenariosAssumption ==
  \A l \in Lifecycles :
    /\ \A i \in DOMAIN Program[l] : Program[l][i].op # "check" =>
         \E j \in 1..i : Makes(l, j) /\ Program[l][j].res = Program[l][i].res
    /\ \A i \in DOMAIN Program[l] : Makes(l, i) =>
         LET s == Program[l][i]
         IN  /\ \A k \in Lifecycles : \A j \in DOMAIN Program[k] :
                  Makes(k, j) /\ Program[k][j].res = s.res => k = l /\ j = i
             /\ s.res \in Children =>
                  /\ InVpc[s.res] \in Vpcs
                  /\ \E j \in 1..(i - 1) : Makes(l, j) /\ Program[l][j].res = InVpc[s.res]
             /\ \E k \in DOMAIN Program[l] :
                  Unmade(l, i, k) /\ (s.res \in Vpcs => ~Program[l][k].optional)
             /\ s.res \in Vpcs => s.group = NoGroup /\ ~s.optional /\ ~s.tolerant

Room == Cap - Residents    \* VPCs the lifecycles may have at a time

\* Mutant of SemLimit: the resident VPCs are not counted, as before 2026-07-16.
SemLimitAll == Cap

\* `max(1, cap - reserved)', one slot reserved for each resident VPC.
SemLimit == IF Cap > Residents THEN Cap - Residents ELSE 1

VARIABLES
  lc,        \* per lifecycle, the local state of run_lifecycle: pc, at (the
             \* step), status, failed (failed_groups), cleanups, todo (cleanup
             \* entries to run; an entry is the step it is for), reserved, pending (_pending_vpc_tok is not
             \* empty), bound (the keys of vpc_tokens_by_id)
  used,      \* per Budget: used["vpc"]
  live,      \* resources that exist in the account
  tracked,   \* resources entered in the manifest (reg.track)
  destructive, \* cfg.allow_destructive, set for the whole run
  stop,      \* lifecycles a skip or the sticky run abort applies to
  unseen,    \* history: created, but the response was lost or had no id
  refused    \* history: the API refused to delete it, or it was left in place

vars == <<lc, used, live, tracked, destructive, stop, unseen, refused>>

Init ==
  /\ lc = [l \in Lifecycles |->
             [pc |-> "ready", at |-> 1, status |-> "running", failed |-> {},
              cleanups |-> {}, todo |-> {}, reserved |-> 0,
              pending |-> FALSE, bound |-> {}]]
  /\ used \in {u \in [Budgets -> 0..Cap] : \A b \in Budgets : u[b] \in UsedBefore[b]}
  /\ live = {}
  /\ tracked = {}
  /\ destructive \in BOOLEAN
  /\ stop = {}
  /\ unseen = {}
  /\ refused = {}

-----------------------------------------------------------------------------
(* Pieces of run_lifecycle, on the local state of one lifecycle *)

Step(l) == Program[l][lc[l].at]
AtStep(l) == lc[l].at <= Len(Program[l])
IsVpcCreate(s) == s.op = "create" /\ s.res \in Vpcs

\* Mutant of Minus1: a count may go below zero.
Less1(n) == n - 1

Minus1(n) == IF n > 0 THEN n - 1 ELSE 0

SlotsHeld ==
  Cardinality({l \in Lifecycles : lc[l].pending})
    + Cardinality({h \in Lifecycles \X Vpcs : h[2] \in lc[h[1]].bound})

\* `continue', or the end of a step.
Advance(r) == [r EXCEPT !.pc = "ready", !.at = @ + 1]

\* Mutant of NextUp: the teardown runs in creation order.
NextUpForward(entries) == {i \in entries : \A j \in entries : i <= j}

\* reversed(cleanups): what was registered last is run first.
NextUp(entries) == {i \in entries : \A j \in entries : j <= i}

\* _teardown of everything, then leave with the status.
Quit(r, status) == [r EXCEPT !.pc = "teardown", !.status = status, !.todo = r.cleanups]

\* failed_groups.add and _teardown_group; a step without a group just goes on.
SkipGroup(l, r, g) ==
  LET ofGroup == {i \in r.cleanups : Program[l][i].group = g}
  IN  IF g = NoGroup THEN Advance(r)
      ELSE [r EXCEPT !.pc = "group", !.failed = @ \cup {g},
                     !.todo = ofGroup, !.cleanups = @ \ ofGroup]

\* `the create did not take effect - give the slot back'.
GiveBack(r, s) ==
  IF IsVpcCreate(s) THEN [r EXCEPT !.reserved = Minus1(@), !.pending = FALSE] ELSE r
BudgetBack(l, s) ==
  IF IsVpcCreate(s) THEN [used EXCEPT ![BudgetOf[l]] = Minus1(@)] ELSE used

\* An environmental outcome: an optional step gives up its group, a required
\* one ends the lifecycle as skipped.
EnvSkip(l, r, s) == IF s.optional THEN SkipGroup(l, r, s.group) ELSE Quit(r, "skipped")

\* A DELETE that is optional and in no group is not tried again if it fails.
LeftInPlace(s) == IF s.op = "delete" /\ s.optional /\ s.group = NoGroup THEN live \cap {s.res} ELSE {}

Set(l, r) == lc' = [lc EXCEPT ![l] = r]

-----------------------------------------------------------------------------
(* The loop over the steps *)

AtBoundary(l) == lc[l].pc = "ready" /\ AtStep(l)
GroupFailed(l) == Step(l).group \in lc[l].failed

\* Mutant of Stopped: the lifecycle is skipped without its teardown.
StoppedAtOnce(l) ==
  /\ AtBoundary(l) /\ l \in stop
  /\ Set(l, [lc[l] EXCEPT !.pc = "done", !.status = "skipped"])
  /\ UNCHANGED <<used, live, tracked, destructive, stop, unseen, refused>>

\* A skip or abort command is seen at the boundary before a step.
Stopped(l) ==
  /\ AtBoundary(l) /\ l \in stop
  /\ Set(l, Quit(lc[l], "skipped"))
  /\ UNCHANGED <<used, live, tracked, destructive, stop, unseen, refused>>

\* A step of a failed group is passed over.
PassOver(l) ==
  /\ AtBoundary(l) /\ l \notin stop /\ GroupFailed(l)
  /\ Set(l, Advance(lc[l]))
  /\ UNCHANGED <<used, live, tracked, destructive, stop, unseen, refused>>

\* A destructive step without permission (or the MutationBlocked of the client,
\* for a DELETE the file does not mark): the teardown deletes nothing either.
Withheld(l) ==
  /\ AtBoundary(l) /\ l \notin stop /\ ~GroupFailed(l)
  /\ Step(l).op = "delete" /\ ~destructive
  /\ Set(l, Quit(lc[l], "skipped"))
  /\ UNCHANGED <<used, live, tracked, destructive, stop, unseen, refused>>

\* Budget.reserve for a VPC create: refused at the limit, else one is reserved
\* and the semaphore is next.  Every other step is sent at once.
Begin(l) ==
  LET s == Step(l)
      b == BudgetOf[l]
  IN  /\ AtBoundary(l) /\ l \notin stop /\ ~GroupFailed(l)
      /\ s.op = "delete" => destructive
      /\ \/ /\ IsVpcCreate(s) /\ used[b] >= Cap
            /\ Set(l, EnvSkip(l, lc[l], s))
            /\ UNCHANGED used
         \/ /\ IsVpcCreate(s) /\ used[b] < Cap
            /\ Set(l, [lc[l] EXCEPT !.pc = "acquire", !.reserved = @ + 1])
            /\ used' = [used EXCEPT ![b] = @ + 1]
         \/ /\ ~IsVpcCreate(s)
            /\ Set(l, [lc[l] EXCEPT !.pc = "send"])
            /\ UNCHANGED used
      /\ UNCHANGED <<live, tracked, destructive, stop, unseen, refused>>

\* The loop is over.
Finish(l) ==
  /\ lc[l].pc = "ready" /\ ~AtStep(l)
  /\ Set(l, [lc[l] EXCEPT !.pc = "done", !.status = "passed"])
  /\ UNCHANGED <<used, live, tracked, destructive, stop, unseen, refused>>

AcquireSlot(l) ==
  /\ lc[l].pc = "acquire"
  /\ SlotsHeld < SemLimit
  /\ Set(l, [lc[l] EXCEPT !.pc = "send", !.pending = TRUE])
  /\ UNCHANGED <<used, live, tracked, destructive, stop, unseen, refused>>

\* The deadline passes while the pool is full.
AcquireTimeout(l) ==
  /\ lc[l].pc = "acquire"
  /\ SlotsHeld >= SemLimit
  /\ Set(l, Quit(GiveBack(lc[l], Step(l)), "skipped"))
  /\ used' = BudgetBack(l, Step(l))
  /\ UNCHANGED <<live, tracked, destructive, stop, unseen, refused>>

-----------------------------------------------------------------------------
(* The response to a step, and all that the engine does about it *)

Sent(l, op) == lc[l].pc = "send" /\ Step(l).op = op
Creatable(r) ==
  /\ r \notin live
  /\ r \in Vpcs => Cardinality(live \cap Vpcs) < Room
  /\ r \in Children => InVpc[r] \in live

\* 2xx with the id: the cleanup is registered and tracked, the slot is bound.
Created(l) ==
  LET s == Step(l)
  IN  /\ Sent(l, "create") /\ Creatable(s.res)
      /\ live' = live \cup {s.res}
      /\ tracked' = tracked \cup {s.res}
      /\ Set(l, [Advance(lc[l]) EXCEPT
                   !.cleanups = @ \cup {lc[l].at},
                   !.pending = FALSE,
                   !.bound = IF s.res \in Vpcs THEN @ \cup {s.res} ELSE @])
      /\ UNCHANGED <<used, destructive, stop, unseen, refused>>

\* It is created, but the request raises or the response has no id to capture:
\* no cleanup, no manifest.  An optional step without its capture skips its
\* group and gives back slot and budget; otherwise the lifecycle fails, the
\* slot is given back and the unit of the budget stays reserved.
CreatedUnseen(l) ==
  LET s == Step(l)
  IN  /\ Sent(l, "create") /\ Creatable(s.res)
      /\ live' = live \cup {s.res}
      /\ unseen' = unseen \cup {s.res}
      /\ \/ /\ Set(l, Quit([lc[l] EXCEPT !.pending = FALSE], "failed"))
            /\ UNCHANGED used
         \/ /\ s.optional
            /\ Set(l, SkipGroup(l, GiveBack(lc[l], s), s.group))
            /\ used' = BudgetBack(l, s)
      /\ UNCHANGED <<tracked, destructive, stop, refused>>

\* Quota, gateway block or a dependency that is going away: not a failure.
EnvLimit(l) ==
  LET s == Step(l)
  IN  /\ lc[l].pc = "send"
      /\ Set(l, EnvSkip(l, GiveBack(lc[l], s), s))
      /\ used' = BudgetBack(l, s)
      /\ refused' = refused \cup LeftInPlace(s)
      /\ UNCHANGED <<live, tracked, destructive, stop, unseen>>

\* Any other unexpected status, a poll that never got there, or no response to
\* a request that had no effect: that one fails the lifecycle at an optional step, too.
Rejected(l) ==
  LET s == Step(l)
  IN  /\ lc[l].pc = "send"
      /\ \/ /\ s.optional
            /\ Set(l, SkipGroup(l, GiveBack(lc[l], s), s.group))
            /\ used' = BudgetBack(l, s)
            /\ refused' = refused \cup LeftInPlace(s)
         \/ /\ Set(l, Quit([lc[l] EXCEPT !.pending = FALSE], "failed"))
            /\ UNCHANGED <<used, refused>>
      /\ UNCHANGED <<live, tracked, destructive, stop, unseen>>

\* The step tolerates a refusal of its create: nothing is made or registered, the
\* slot is given back, the unit of the budget is not.
NotMade(l) ==
  /\ Sent(l, "create") /\ Step(l).tolerant
  /\ Set(l, Advance([lc[l] EXCEPT !.pending = FALSE]))
  /\ UNCHANGED <<used, live, tracked, destructive, stop, unseen, refused>>

\* Mutant of PathReleases: the own DELETE frees no slot, only a teardown does.
PathKeepsSlot(l, r) ==
  IF r \in Vpcs THEN [lc[l] EXCEPT !.reserved = Minus1(@)] ELSE lc[l]

\* After any step whose own path is /v1/vpcs/{id} and that was as expected:
\* _release_vpc_for_path, and a unit of the budget if one is reserved.
PathReleases(l, r) ==
  IF r \in Vpcs
  THEN [lc[l] EXCEPT !.bound = @ \ {r}, !.reserved = Minus1(@)]
  ELSE lc[l]
PathBudget(l, r) ==
  IF r \in Vpcs /\ lc[l].reserved > 0
  THEN [used EXCEPT ![BudgetOf[l]] = Minus1(@)]
  ELSE used

Checked(l) ==
  /\ Sent(l, "check")
  /\ Set(l, Advance(lc[l]))
  /\ UNCHANGED <<used, live, tracked, destructive, stop, unseen, refused>>

Touched(l) ==
  LET r == Step(l).res
  IN  /\ Sent(l, "touch") /\ (r \in live \/ Step(l).tolerant)
      /\ Set(l, Advance(PathReleases(l, r)))
      /\ used' = PathBudget(l, r)
      /\ UNCHANGED <<live, tracked, destructive, stop, unseen, refused>>

Deletable(r) == \A c \in live \cap Children : InVpc[c] # r

\* Deleted, or, when the step tolerates it, refused or already gone.
Deleted(l) ==
  LET s == Step(l)
  IN  /\ Sent(l, "delete")
      /\ \/ /\ s.res \in live /\ Deletable(s.res)
            /\ live' = live \ {s.res}
            /\ UNCHANGED refused
         \/ /\ s.tolerant
            /\ refused' = refused \cup (live \cap {s.res})
            /\ UNCHANGED live
      /\ Set(l, Advance(PathReleases(l, s.res)))
      /\ used' = PathBudget(l, s.res)
      /\ UNCHANGED <<tracked, destructive, stop, unseen>>

-----------------------------------------------------------------------------
(* Teardown *)

\* _run_cleanup of one entry.  Whatever comes of the DELETE, and without one
\* when deleting is not allowed, the budget and the slot are given back.
CleanupOne(l) ==
  \E i \in NextUp(lc[l].todo) :
  LET r == Program[l][i].res
  IN  /\ lc[l].pc \in {"teardown", "group"}
      /\ Set(l, [lc[l] EXCEPT
                   !.todo = @ \ {i},
                   !.bound = @ \ {r},
                   !.reserved = IF r \in Vpcs THEN Minus1(@) ELSE @])
      /\ used' = IF r \in Vpcs THEN [used EXCEPT ![BudgetOf[l]] = Minus1(@)] ELSE used
      /\ \/ /\ destructive /\ (r \in live => Deletable(r))      \* deleted, or gone
            /\ live' = live \ {r}
            /\ UNCHANGED refused
         \/ /\ destructive /\ r \in live /\ ~Deletable(r)       \* still in use
            /\ UNCHANGED <<live, refused>>
         \/ /\ r \in live                                     \* refused, or withheld
            /\ refused' = refused \cup {r}
            /\ UNCHANGED live
      /\ UNCHANGED <<tracked, destructive, stop, unseen>>

GroupCleaned(l) ==
  /\ lc[l].pc = "group" /\ lc[l].todo = {}
  /\ Set(l, Advance(lc[l]))
  /\ UNCHANGED <<used, live, tracked, destructive, stop, unseen, refused>>

\* The end of a lifecycle that did not pass: _release_pending_vpc_tok again.
TornDown(l) ==
  /\ lc[l].pc = "teardown" /\ lc[l].todo = {}
  /\ Set(l, [lc[l] EXCEPT !.pc = "done", !.pending = FALSE])
  /\ UNCHANGED <<used, live, tracked, destructive, stop, unseen, refused>>

-----------------------------------------------------------------------------
\* core.commands: a skip is for one lifecycle, an abort for the run, and sticky.
Command ==
  /\ stop' \in {stop \cup {l} : l \in Lifecycles} \cup {Lifecycles}
  /\ UNCHANGED <<lc, used, live, tracked, destructive, unseen, refused>>

Proceed(l) ==
  \/ Stopped(l) \/ PassOver(l) \/ Withheld(l) \/ Begin(l) \/ Finish(l)
  \/ AcquireSlot(l)
  \/ Created(l) \/ CreatedUnseen(l) \/ NotMade(l) \/ EnvLimit(l) \/ Rejected(l)
  \/ Checked(l) \/ Touched(l) \/ Deleted(l)
  \/ CleanupOne(l) \/ GroupCleaned(l) \/ TornDown(l)

Next == Command \/ \E l \in Lifecycles : Proceed(l) \/ AcquireTimeout(l)

Spec == Init /\ [][Next]_vars

\* Every lifecycle has its own worker and every request is bounded by a timeout,
\* so a lifecycle that can move does.  Each has a bounded number of steps, so that it
\* is enough to ask that one of them moves as long as one can.  Commands need not
\* come, and nothing relies on the deadline of the wait for a slot.
FairSpec == Spec /\ WF_vars(\E l \in Lifecycles : Proceed(l))

-----------------------------------------------------------------------------
(* Properties *)

\* What the engine cannot delete: it never knew of it, its DELETE was refused or
\* withheld, or it is a VPC with such a thing inside.
Left == unseen \cup refused
Stuck(r) == r \in Left \/ \E c \in live \cap Children \cap Left : InVpc[c] = r

\* Types, and no count ever below zero or above its limit.
TypeOK ==
  /\ \A l \in Lifecycles :
       LET r == lc[l]
       IN  /\ r.pc \in {"ready", "acquire", "send", "group", "teardown", "done"}
           /\ r.at \in 1..(Len(Program[l]) + 1)
           /\ r.status \in {"running", "passed", "skipped", "failed"}
           /\ r.failed \subseteq Groups
           /\ \A i \in r.cleanups \cup r.todo : Makes(l, i) /\ i < r.at
           /\ r.reserved \in Nat /\ r.pending \in BOOLEAN /\ r.bound \subseteq Vpcs
  /\ used \in [Budgets -> 0..Cap]
  /\ live \subseteq Resources /\ tracked \subseteq Resources
  /\ destructive \in BOOLEAN /\ stop \subseteq Lifecycles
  /\ unseen \subseteq Resources /\ refused \subseteq Resources

\* What the semaphore is for: the VPCs of the lifecycles and the creates in
\* flight fit in the account, so no lifecycle provokes a quota error ("<= cap
\* concurrent VPCs across all xdist workers").  VPCs that it cannot delete do not
\* count.
CreatesInFlight == {l \in Lifecycles : lc[l].pc = "send" /\ IsVpcCreate(Step(l))}
Fit(vs) == Room > 0 => Cardinality(vs) + Cardinality(CreatesInFlight) <= Room
OwnVpcs == {v \in live \cap Vpcs : ~Stuck(v)}
VpcsWithinCap == Fit(OwnVpcs)

\* What remains of it, as a slot comes back with the first successful call on the
\* VPC's own path: it holds of the VPCs that no step has addressed so far.
Addressed(v) ==
  \E l \in Lifecycles : \E i \in DOMAIN Program[l] :
    i < lc[l].at /\ Program[l][i].res = v /\ Program[l][i].op \in {"touch", "delete"}
UnaddressedWithinCap == Fit({v \in OwnVpcs : ~Addressed(v)})

\* A lifecycle that is over holds no slot, however it ended and whatever step
\* it was in; one that was skipped has no unit of the budget reserved either.
ExitReturnsSlots ==
  \A l \in Lifecycles : lc[l].pc = "done" =>
    /\ ~lc[l].pending /\ lc[l].bound = {}
    /\ lc[l].status = "skipped" => lc[l].reserved = 0

\* A lifecycle that is over leaves behind only what the engine cannot delete, and
\* what it knew of is in the manifest, for the reconciler.
NothingForgotten ==
  \A r \in live : lc[Creator(r)].pc = "done" =>
    /\ Stuck(r)
    /\ r \in unseen \/ r \in tracked

\* However a lifecycle ends, it ends clean: no slot held, nothing left that could have
\* been deleted, and what is left is known to those who clean up later.
ExitClean == ExitReturnsSlots /\ NothingForgotten

\* Every lifecycle ends without help from the deadline: whoever waits for a slot
\* gets one, as every slot comes back on every path a lifecycle can take.
EveryLifecycleEnds == \A l \in Lifecycles : <>(lc[l].pc = "done")

\* A lifecycle that has not begun its next step when it is told to stop ends as
\* skipped, with what it created deleted as far as the API lets it.
Reclaimed(l) ==
  /\ lc[l].pc = "done" /\ lc[l].status = "skipped"
  /\ \A r \in live : Creator(r) = l => Stuck(r)
StopReclaims == \A l \in Lifecycles : (AtBoundary(l) /\ l \in stop) ~> Reclaimed(l)

\* The slots, by who has them and what for: a VPC that is bound to one, or the create at
\* hand.  What the engine does with them is what SlotPool, and so the semaphore, allows:
\* a create is granted a slot while one is free, keeps it for the VPC it makes, and gives
\* it back.
SlotsTaken ==
  {h \in Lifecycles \X Vpcs :
     h[2] \in lc[h[1]].bound \/ (lc[h[1]].pending /\ Step(h[1]).res = h[2])}
Semaphore ==
  INSTANCE SlotPool WITH Holders <- Lifecycles \X Vpcs, Limit <- SemLimit, held <- SlotsTaken
UsesSemaphore == Semaphore!Spec

=============================================================================
