------------------------ MODULE LifecycleEngine_proofs ------------------------
(***************************************************************************)
(* Proofs about LifecycleEngine, for any number of lifecycles with any     *)
(* programs that are like the repository's (ScenariosAssumption), any cap  *)
(* and any VPCs of the shared infrastructure: the types (TypeOK), that a   *)
(* lifecycle ends clean (ExitClean), that the VPCs no step has addressed   *)
(* yet fit in the account (UnaddressedWithinCap), and that slots are taken *)
(* and given back as SlotPool has it (UsesSemaphore).                      *)
(* About StepRequest, the inside of one step, for any steps, attempts,     *)
(* rungs, rounds and refires (RequestsAssumption): a create takes effect   *)
(* twice only where the gateway or a broken connection left it open        *)
(* (MadeOnce), and a wait passes only on what it waits for (PassedIsReady).*)
(*                                                                         *)
(* What the other lifecycles do does not touch a lifecycle: what it makes, *)
(* no other makes, and a step only acts on what its own lifecycle made.  So *)
(* the argument is local.  It is about the record r of a lifecycle l, the  *)
(* positions a of the creates whose resource is in the account, and the    *)
(* positions s of those whose resource the engine cannot delete (Left).    *)
(***************************************************************************)
EXTENDS LifecycleEngine, StepRequest, FiniteSetTheorems, SequenceTheorems, TLAPS

-----------------------------------------------------------------------------
(* The invariant *)

Made(l) == {i \in DOMAIN Program[l] : Makes(l, i)}
Thing(l, i) == Program[l][i].res
Alive(l) == {i \in Made(l) : Thing(l, i) \in live}
Lost(l) == {i \in Made(l) : Thing(l, i) \in Left}

Locals == [pc : {"ready", "acquire", "send", "group", "teardown", "done"},
           at : Nat, status : {"running", "passed", "skipped", "failed"},
           failed : SUBSET Groups, cleanups : SUBSET Nat, todo : SUBSET Nat,
           reserved : Nat, pending : BOOLEAN, bound : SUBSET Vpcs]

Ending(r) == r.pc \in {"teardown", "done"}
OnStep(l, r) == r.at \in DOMAIN Program[l]
At(l, r) == Program[l][r.at]
OnVpcCreate(l, r) == OnStep(l, r) /\ IsVpcCreate(At(l, r))

\* The cleanups that are still to be run.
Filed(r) == IF Ending(r) THEN r.todo ELSE r.cleanups \cup r.todo
VpcEntries(l, r) == {i \in Filed(r) : Thing(l, i) \in Vpcs}

\* Inside the VPC made at i there is a thing that is not going to be deleted.
Inside(l, j, i) == Thing(l, j) \in Children /\ InVpc[Thing(l, j)] = Thing(l, i)
Blocked(l, r, a, s, i) ==
  Ending(r) /\ \E j \in Made(l) : j \in a /\ j \in s /\ j \notin r.todo /\ Inside(l, j, i)

\* Where a lifecycle is, and what its fields are there.
Place(l, r) ==
  /\ r.at \in 1 .. (Len(Program[l]) + 1)
  /\ \A i \in r.cleanups \cup r.todo : Makes(l, i) /\ i < r.at
  /\ r.pc \in {"ready", "acquire", "send", "done"} => r.todo = {}
  /\ r.pc = "acquire" => OnVpcCreate(l, r)
  /\ r.pc = "send" => OnStep(l, r) /\ At(l, r).group \notin r.failed
  /\ r.pc = "group" => /\ OnStep(l, r) /\ At(l, r).group \in r.failed
                       /\ \A i \in r.todo : Program[l][i].group # NoGroup
  /\ r.pending <=> (r.pc = "send" /\ OnVpcCreate(l, r))
  /\ NoGroup \notin r.failed
  /\ \A i \in r.cleanups : Program[l][i].group \notin r.failed
  /\ ~Ending(r) => r.status = "running"

\* What is there and can be deleted has its cleanup, or is a VPC with such a thing.
Kept(l, r, a, s) ==
  \A i \in Made(l) : i \in a /\ i \notin s => i \in Filed(r) \/ Blocked(l, r, a, s, i)

\* What a delete step that was passed is for is gone or lost, and holds no slot.
Passed(l, r, a, s) ==
  ~Ending(r) => \A i \in Made(l) : \A k \in DOMAIN Program[l] :
    (k < r.at /\ Unmade(l, i, k)) =>
      /\ i \in a => i \in s
      /\ (Thing(l, i) \in Vpcs /\ ~Program[l][k].optional) => Thing(l, i) \notin r.bound

\* A slot is held for a VPC whose cleanup is to be run, and for every VPC that no step
\* of the lifecycle has addressed.
Seen(l, r, i) ==
  \E k \in DOMAIN Program[l] :
    k < r.at /\ Program[l][k].res = Thing(l, i) /\ Program[l][k].op \in {"touch", "delete"}
Bound(l, r, a, s) ==
  /\ \A v \in r.bound : \E i \in VpcEntries(l, r) : Thing(l, i) = v
  /\ \A i \in Made(l) :
       (i \in a /\ i \notin s /\ Thing(l, i) \in Vpcs /\ ~Seen(l, r, i)) =>
         Thing(l, i) \in r.bound \/ Blocked(l, r, a, s, i)

\* A unit of the budget is reserved for a VPC with a cleanup or for the create at hand.
InHand(l, r) == IF r.pc \in {"acquire", "send"} /\ OnVpcCreate(l, r) THEN 1 ELSE 0
Budgeted(l, r) ==
  r.status \in {"running", "skipped"} =>
    r.reserved <= Cardinality(VpcEntries(l, r)) + InHand(l, r)

Sound(l, r, a, s) ==
  /\ r \in Locals
  /\ Place(l, r) /\ Kept(l, r, a, s) /\ Passed(l, r, a, s)
  /\ Bound(l, r, a, s) /\ Budgeted(l, r)

Things == UNION {{Thing(l, i) : i \in Made(l)} : l \in Lifecycles}

Shared ==
  /\ used \in [Budgets -> 0..Cap]
  /\ live \subseteq Things /\ live \subseteq unseen \cup tracked
  /\ tracked \subseteq Resources /\ unseen \subseteq Resources /\ refused \subseteq Resources
  /\ destructive \in BOOLEAN /\ stop \subseteq Lifecycles
  /\ SlotsHeld <= SemLimit

EngineInv ==
  /\ lc \in [Lifecycles -> Locals]
  /\ \A l \in Lifecycles : Sound(l, lc[l], Alive(l), Lost(l))
  /\ Shared

-----------------------------------------------------------------------------
(* What the programs are like *)

LEMMA ProgramFacts ==
  ASSUME NEW l \in Lifecycles
  PROVE  /\ Len(Program[l]) \in Nat /\ DOMAIN Program[l] = 1 .. Len(Program[l])
         /\ \A i \in DOMAIN Program[l] :
              LET s == Program[l][i]
              IN  /\ s.op \in {"create", "touch", "delete", "check"}
                  /\ s.op # "check" => s.res \in Resources
                  /\ s.optional \in BOOLEAN /\ s.tolerant \in BOOLEAN
                  /\ s.group # NoGroup => s.group \in Groups
<1>1. /\ Program[l] \in Seq(Range(Program[l]))
      /\ \A i \in DOMAIN Program[l] :
              LET s == Program[l][i]
              IN  /\ s.op \in {"create", "touch", "delete", "check"}
                  /\ s.op # "check" => s.res \in Resources
                  /\ s.optional \in BOOLEAN /\ s.tolerant \in BOOLEAN
  BY StepsAssumption
<1>2. \A i \in DOMAIN Program[l] : Program[l][i].group # NoGroup => Program[l][i].group \in Groups
  <2>1. ASSUME NEW i \in DOMAIN Program[l]
        PROVE  Program[l][i] \in AllSteps
    BY DEF AllSteps, Range
  <2>2. QED
    BY <2>1 DEF Groups
<1>3. Len(Program[l]) \in Nat /\ DOMAIN Program[l] = 1 .. Len(Program[l])
  BY <1>1, LenProperties
<1>4. QED
  BY <1>1, <1>2, <1>3

LEMMA OneMaker ==
  ASSUME NEW l \in Lifecycles, NEW i \in Made(l), NEW k \in Lifecycles, NEW j \in Made(k),
         Thing(k, j) = Thing(l, i)
  PROVE  k = l /\ j = i
<1>1. Makes(l, i) /\ Makes(k, j) /\ i \in DOMAIN Program[l] /\ j \in DOMAIN Program[k]
  BY DEF Made
<1>2. QED
  BY <1>1, ScenariosAssumption DEF Thing

LEMMA VpcCreates ==
  ASSUME NEW l \in Lifecycles, NEW i \in Made(l), Thing(l, i) \in Vpcs
  PROVE  /\ Program[l][i].group = NoGroup
         /\ ~Program[l][i].optional /\ ~Program[l][i].tolerant
BY ScenariosAssumption DEF Made, Makes, Thing

LEMMA InsideIsLater ==
  ASSUME NEW l \in Lifecycles, NEW j \in Made(l), Thing(l, j) \in Children
  PROVE  /\ InVpc[Thing(l, j)] \in Vpcs
         /\ \E i \in Made(l) : i < j /\ Inside(l, j, i)
<1>1. Makes(l, j) /\ j \in DOMAIN Program[l]
  BY DEF Made
<1>2. /\ InVpc[Thing(l, j)] \in Vpcs
      /\ \E i \in 1..(j - 1) : Makes(l, i) /\ Program[l][i].res = InVpc[Thing(l, j)]
  BY <1>1, ScenariosAssumption DEF Thing
<1>3. QED
  BY <1>1, <1>2, ProgramFacts DEF Inside, Thing, Made, Makes

LEMMA DeletedLater ==
  ASSUME NEW l \in Lifecycles, NEW i \in Made(l)
  PROVE  \E k \in DOMAIN Program[l] :
           Unmade(l, i, k) /\ (Thing(l, i) \in Vpcs => ~Program[l][k].optional)
BY ScenariosAssumption DEF Made, Thing

LEMMA OwnSteps ==
  ASSUME NEW l \in Lifecycles, NEW i \in DOMAIN Program[l], Program[l][i].op # "check"
  PROVE  \E j \in Made(l) : j <= i /\ Thing(l, j) = Program[l][i].res
<1>1. \E j \in 1..i : Makes(l, j) /\ Program[l][j].res = Program[l][i].res
  BY ScenariosAssumption
<1>2. QED
  BY <1>1, ProgramFacts DEF Made, Makes, Thing

LEMMA MadeFacts ==
  ASSUME NEW l \in Lifecycles
  PROVE  /\ \A i \in Made(l) : /\ i \in Nat /\ i \in DOMAIN Program[l]
                               /\ Program[l][i].op = "create" /\ Thing(l, i) \in Resources
         /\ \A i : Makes(l, i) <=> i \in Made(l)
         /\ IsFiniteSet(Made(l))
<1>1. Made(l) \subseteq 1 .. Len(Program[l])
  BY ProgramFacts DEF Made
<1>2. IsFiniteSet(1 .. Len(Program[l]))
  <2>1. 1 \in Int /\ Len(Program[l]) \in Int
    BY ProgramFacts
  <2>2. QED
    BY <2>1, FS_Interval
<1>3. IsFiniteSet(Made(l))
  BY <1>1, <1>2, FS_Subset
<1>4. QED
  BY <1>3, ProgramFacts DEF Made, Makes, Thing

-----------------------------------------------------------------------------
(* The pieces of run_lifecycle, field by field *)

LEMMA AdvanceFields ==
  ASSUME NEW r \in Locals
  PROVE  /\ Advance(r) \in Locals
         /\ Advance(r).pc = "ready" /\ Advance(r).at = r.at + 1
         /\ Advance(r).status = r.status /\ Advance(r).failed = r.failed
         /\ Advance(r).cleanups = r.cleanups /\ Advance(r).todo = r.todo
         /\ Advance(r).reserved = r.reserved /\ Advance(r).pending = r.pending
         /\ Advance(r).bound = r.bound
<1>1. r.at \in Nat /\ r.at + 1 \in Nat
  BY DEF Locals
<1>2. Advance(r) = [r EXCEPT !.pc = "ready", !.at = r.at + 1]
  BY DEF Advance
<1>3. QED
  BY <1>1, <1>2 DEF Locals

LEMMA QuitFields ==
  ASSUME NEW r \in Locals, NEW st \in {"skipped", "failed"}
  PROVE  /\ Quit(r, st) \in Locals
         /\ Quit(r, st).pc = "teardown" /\ Quit(r, st).at = r.at
         /\ Quit(r, st).status = st /\ Quit(r, st).failed = r.failed
         /\ Quit(r, st).cleanups = r.cleanups /\ Quit(r, st).todo = r.cleanups
         /\ Quit(r, st).reserved = r.reserved /\ Quit(r, st).pending = r.pending
         /\ Quit(r, st).bound = r.bound
BY DEF Quit, Locals

Held(r) == [r EXCEPT !.pending = FALSE]

LEMMA HeldFields ==
  ASSUME NEW r \in Locals
  PROVE  /\ Held(r) \in Locals
         /\ Held(r).pc = r.pc /\ Held(r).at = r.at
         /\ Held(r).status = r.status /\ Held(r).failed = r.failed
         /\ Held(r).cleanups = r.cleanups /\ Held(r).todo = r.todo
         /\ Held(r).reserved = r.reserved /\ Held(r).pending = FALSE
         /\ Held(r).bound = r.bound
BY DEF Held, Locals

LEMMA Minus1Bounds ==
  ASSUME NEW n \in Nat
  PROVE  Minus1(n) \in Nat /\ Minus1(n) <= n /\ (n > 0 => Minus1(n) = n - 1) /\ (n = 0 => Minus1(n) = 0)
BY DEF Minus1

LEMMA GiveBackFields ==
  ASSUME NEW r \in Locals, NEW s
  PROVE  /\ GiveBack(r, s) \in Locals
         /\ GiveBack(r, s).pc = r.pc /\ GiveBack(r, s).at = r.at
         /\ GiveBack(r, s).status = r.status /\ GiveBack(r, s).failed = r.failed
         /\ GiveBack(r, s).cleanups = r.cleanups /\ GiveBack(r, s).todo = r.todo
         /\ GiveBack(r, s).bound = r.bound
         /\ IsVpcCreate(s) => /\ GiveBack(r, s).reserved = Minus1(r.reserved)
                              /\ GiveBack(r, s).pending = FALSE
         /\ ~IsVpcCreate(s) => GiveBack(r, s) = r
<1>1. CASE IsVpcCreate(s)
  <2>1. Minus1(r.reserved) \in Nat
    BY Minus1Bounds DEF Locals
  <2>2. GiveBack(r, s) = [r EXCEPT !.reserved = Minus1(r.reserved), !.pending = FALSE]
    BY <1>1 DEF GiveBack
  <2>3. QED
    BY <1>1, <2>1, <2>2 DEF Locals
<1>2. CASE ~IsVpcCreate(s)
  BY <1>2 DEF GiveBack
<1>3. QED
  BY <1>1, <1>2

OfGroup(l, r, g) == {i \in r.cleanups : Program[l][i].group = g}

LEMMA SkipGroupFields ==
  ASSUME NEW l, NEW r \in Locals, NEW g, g = NoGroup \/ g \in Groups
  PROVE  /\ g = NoGroup => SkipGroup(l, r, g) = Advance(r)
         /\ SkipGroup(l, r, g) \in Locals
         /\ g # NoGroup =>
              \E q \in Locals :
                  /\ q = SkipGroup(l, r, g) /\ q.pc = "group" /\ q.at = r.at
                  /\ q.status = r.status /\ q.failed = r.failed \cup {g}
                  /\ q.cleanups = r.cleanups \ OfGroup(l, r, g) /\ q.todo = OfGroup(l, r, g)
                  /\ q.reserved = r.reserved /\ q.pending = r.pending /\ q.bound = r.bound
<1>1. CASE g = NoGroup
  BY <1>1, AdvanceFields DEF SkipGroup
<1>2. CASE g # NoGroup
  <2>1. SkipGroup(l, r, g) = [r EXCEPT !.pc = "group", !.failed = r.failed \cup {g},
                     !.todo = OfGroup(l, r, g), !.cleanups = r.cleanups \ OfGroup(l, r, g)]
    BY <1>2 DEF SkipGroup, OfGroup, Locals
  <2>2. OfGroup(l, r, g) \subseteq Nat /\ r.cleanups \ OfGroup(l, r, g) \subseteq Nat
    BY DEF OfGroup, Locals
  <2>3. r.failed \cup {g} \subseteq Groups
    BY <1>2 DEF Locals
  <2>4. QED
    BY <1>2, <2>1, <2>2, <2>3 DEF Locals
<1>3. QED
  BY <1>1, <1>2

LEMMA PathReleasesFields ==
  ASSUME NEW l, NEW x, lc[l] \in Locals
  PROVE  LET q == PathReleases(l, x)
             r == lc[l]
         IN  /\ q \in Locals
             /\ q.pc = r.pc /\ q.at = r.at /\ q.status = r.status /\ q.failed = r.failed
             /\ q.cleanups = r.cleanups /\ q.todo = r.todo /\ q.pending = r.pending
             /\ q.reserved <= r.reserved /\ q.bound = r.bound \ {x}
<1>1. Minus1(lc[l].reserved) \in Nat /\ Minus1(lc[l].reserved) <= lc[l].reserved
  BY Minus1Bounds DEF Locals
<1>2. CASE x \in Vpcs
  <2>1. PathReleases(l, x) =
          [lc[l] EXCEPT !.bound = lc[l].bound \ {x}, !.reserved = Minus1(lc[l].reserved)]
    BY <1>2 DEF PathReleases
  <2>2. QED
    BY <1>1, <2>1 DEF Locals
<1>3. CASE x \notin Vpcs
  <2>1. PathReleases(l, x) = lc[l]
    BY <1>3 DEF PathReleases
  <2>2. QED
    BY <1>1, <1>3, <2>1 DEF Locals
<1>4. QED
  BY <1>2, <1>3

-----------------------------------------------------------------------------
(* Finite counts of the cleanups of VPCs *)

LEMMA EntriesFinite ==
  ASSUME NEW l \in Lifecycles, NEW r \in Locals, Place(l, r)
  PROVE  /\ Filed(r) \subseteq Made(l) /\ VpcEntries(l, r) \subseteq Made(l)
         /\ IsFiniteSet(VpcEntries(l, r)) /\ Cardinality(VpcEntries(l, r)) \in Nat
<1>1. Filed(r) \subseteq Made(l)
  BY MadeFacts DEF Place, Filed
<1>2. VpcEntries(l, r) \subseteq Made(l)
  BY <1>1 DEF VpcEntries
<1>3. IsFiniteSet(Made(l))
  BY MadeFacts
<1>4. IsFiniteSet(VpcEntries(l, r))
  BY <1>2, <1>3, FS_Subset
<1>5. QED
  BY <1>1, <1>2, <1>4, FS_CardinalityType

\* A step of a failed group is for what has no cleanup any more.
LEMMA PassedOverIsGone ==
  ASSUME NEW l \in Lifecycles, NEW r, NEW a, NEW s, Sound(l, r, a, s), r.todo = {},
         ~Ending(r), OnStep(l, r), At(l, r).group \in r.failed,
         NEW i \in Made(l), Unmade(l, i, r.at)
  PROVE  Thing(l, i) \notin Vpcs /\ (i \in a => i \in s)
<1>1. At(l, r).group # NoGroup /\ Program[l][i].group = At(l, r).group
  BY DEF Sound, Place, Unmade, At
<1>2. i \notin r.cleanups
  BY <1>1 DEF Sound, Place
<1>3. i \in a => i \in s
  BY <1>2 DEF Sound, Kept, Filed, Blocked
<1>4. QED
  BY <1>1, <1>3, VpcCreates

-----------------------------------------------------------------------------
(* The ways a lifecycle moves, from r, a, s to q, b, t *)

\* It takes the next step up, and may take a unit of the budget or a slot for it.
Prepares(l, r, a, s, q, b, t) ==
  /\ r.pc \in {"ready", "acquire"} /\ OnStep(l, r) /\ At(l, r).group \notin r.failed
  /\ \/ /\ r.pc = "ready" /\ q.pc = "acquire" /\ OnVpcCreate(l, r)
        /\ q.reserved = r.reserved + 1 /\ q.pending = FALSE
     \/ /\ r.pc = "ready" /\ q.pc = "send" /\ ~OnVpcCreate(l, r)
        /\ q.reserved = r.reserved /\ q.pending = FALSE
     \/ /\ r.pc = "acquire" /\ q.pc = "send"
        /\ q.reserved = r.reserved /\ q.pending = TRUE
  /\ q.at = r.at /\ q.status = r.status /\ q.failed = r.failed
  /\ q.cleanups = r.cleanups /\ q.todo = r.todo /\ q.bound = r.bound
  /\ b = a /\ t = s

LEMMA PreparesSound ==
  ASSUME NEW l \in Lifecycles, NEW r, NEW a, NEW s, NEW q \in Locals, NEW b, NEW t,
         Sound(l, r, a, s), Prepares(l, r, a, s, q, b, t)
  PROVE  Sound(l, q, b, t)
<1>1. /\ Filed(q) = Filed(r) /\ VpcEntries(l, q) = VpcEntries(l, r)
      /\ ~Ending(q) /\ ~Ending(r)
  BY DEF Prepares, Filed, VpcEntries, Ending
<1>2. Place(l, q)
  <2>1. NoGroup \notin r.failed /\ Place(l, r)
    BY DEF Sound, Place
  <2>2. OnVpcCreate(l, q) <=> OnVpcCreate(l, r)
    BY DEF Prepares, OnVpcCreate, OnStep, At
  <2>3. q.pc \in {"acquire", "send"} /\ OnStep(l, q) /\ At(l, q).group \notin q.failed
    BY DEF Prepares, OnStep, At
  <2>4. q.pending <=> (q.pc = "send" /\ OnVpcCreate(l, q))
    BY <2>1, <2>2 DEF Prepares, Place
  <2>5. q.pc = "acquire" => OnVpcCreate(l, q)
    BY <2>2 DEF Prepares
  <2>6. QED
    BY <1>1, <2>1, <2>3, <2>4, <2>5 DEF Prepares, Place
<1>3. Kept(l, q, b, t)
  BY <1>1 DEF Sound, Kept, Blocked, Prepares
<1>4. Passed(l, q, b, t)
  BY <1>1 DEF Sound, Passed, Prepares
<1>5. Bound(l, q, b, t)
  BY <1>1 DEF Sound, Bound, Blocked, Prepares, Seen
<1>6. Budgeted(l, q)
  <2>1. OnVpcCreate(l, q) <=> OnVpcCreate(l, r)
    BY DEF Prepares, OnVpcCreate, OnStep, At
  <2>2. r.reserved \in Nat /\ Cardinality(VpcEntries(l, r)) \in Nat
    BY EntriesFinite DEF Sound, Locals
  <2>3. InHand(l, r) \in {0, 1} /\ InHand(l, q) \in {0, 1}
    BY DEF InHand
  <2>4. q.reserved - InHand(l, q) <= r.reserved - InHand(l, r)
    BY <2>1, <2>2 DEF Prepares, InHand, Sound, Place
  <2>5. q.reserved \in Nat
    BY DEF Locals
  <2>6. q.status = r.status /\ Budgeted(l, r)
    BY DEF Prepares, Sound
  <2>7. QED
    BY <1>1, <2>2, <2>3, <2>4, <2>5, <2>6 DEF Budgeted
<1>7. QED
  BY <1>2, <1>3, <1>4, <1>5, <1>6 DEF Sound

\* It gives up: everything is to be torn down.
Quits(l, r, a, s, q, b, t) ==
  /\ r.pc \in {"ready", "acquire", "send"}
  /\ q.pc = "teardown" /\ q.at = r.at /\ q.failed = r.failed
  /\ q.cleanups = r.cleanups /\ q.todo = r.cleanups /\ q.bound = r.bound
  /\ q.pending = FALSE /\ q.status \in {"skipped", "failed"}
  /\ q.status = "skipped" =>
       /\ q.reserved <= r.reserved
       /\ (InHand(l, r) = 1 /\ r.reserved > 0) => q.reserved = r.reserved - 1
  /\ \A i \in Made(l) : (i \in b /\ i \notin t) => (i \in a /\ i \notin s)

LEMMA QuitsSound ==
  ASSUME NEW l \in Lifecycles, NEW r, NEW a, NEW s, NEW q \in Locals, NEW b, NEW t,
         Sound(l, r, a, s), Quits(l, r, a, s, q, b, t)
  PROVE  Sound(l, q, b, t)
<1>1. /\ Filed(q) = Filed(r) /\ VpcEntries(l, q) = VpcEntries(l, r)
      /\ Ending(q) /\ ~Ending(r) /\ r.todo = {}
  BY DEF Quits, Filed, VpcEntries, Ending, Sound, Place
<1>2. Place(l, q)
  BY <1>1 DEF Quits, Sound, Place
<1>3. Kept(l, q, b, t)
  BY <1>1 DEF Sound, Kept, Blocked, Quits
<1>4. Passed(l, q, b, t)
  BY <1>1 DEF Passed
<1>5. Bound(l, q, b, t)
  <2>1. \A i \in Made(l) : Seen(l, q, i) <=> Seen(l, r, i)
    BY DEF Quits, Seen
  <2>2. QED
    BY <1>1, <2>1 DEF Sound, Bound, Blocked, Quits
<1>6. Budgeted(l, q)
  <2>1. r.reserved \in Nat /\ Cardinality(VpcEntries(l, r)) \in Nat /\ q.reserved \in Nat
    BY EntriesFinite DEF Sound, Locals
  <2>2. InHand(l, r) \in {0, 1} /\ InHand(l, q) = 0
    BY <1>1 DEF InHand, Ending
  <2>3. r.status = "running" /\ Budgeted(l, r)
    BY <1>1 DEF Sound, Place
  <2>4. r.reserved <= Cardinality(VpcEntries(l, r)) + InHand(l, r)
    BY <2>3 DEF Budgeted
  <2>5. q.status = "skipped" => q.reserved <= Cardinality(VpcEntries(l, r))
    BY <2>1, <2>2, <2>4 DEF Quits
  <2>6. QED
    BY <1>1, <2>1, <2>2, <2>5 DEF Budgeted, Quits
<1>7. QED
  BY <1>2, <1>3, <1>4, <1>5, <1>6 DEF Sound

\* It goes on to the next step.
Advances(l, r, a, s, q, b, t) ==
  /\ r.pc \in {"ready", "send", "group"} /\ r.todo = {} /\ OnStep(l, r) /\ InHand(l, r) = 0
  /\ q.pc = "ready" /\ q.at = r.at + 1 /\ q.status = r.status /\ q.failed = r.failed
  /\ q.cleanups = r.cleanups /\ q.todo = {} /\ q.pending = FALSE
  /\ q.reserved <= r.reserved
  /\ q.bound \subseteq r.bound
  /\ \A v \in r.bound \ q.bound : At(l, r).op \in {"touch", "delete"} /\ At(l, r).res = v
  /\ \A i \in Made(l) : (i \in b /\ i \notin t) => (i \in a /\ i \notin s)
  /\ \A i \in Made(l) : Unmade(l, i, r.at) =>
       /\ i \in b => i \in t
       /\ (Thing(l, i) \in Vpcs /\ ~At(l, r).optional) => Thing(l, i) \notin q.bound

LEMMA AdvancesSound ==
  ASSUME NEW l \in Lifecycles, NEW r, NEW a, NEW s, NEW q \in Locals, NEW b, NEW t,
         Sound(l, r, a, s), Advances(l, r, a, s, q, b, t)
  PROVE  Sound(l, q, b, t)
<1>1. /\ Filed(q) = Filed(r) /\ VpcEntries(l, q) = VpcEntries(l, r)
      /\ ~Ending(q) /\ ~Ending(r)
  BY DEF Advances, Filed, VpcEntries, Ending
<1>2. r.at \in Nat /\ r.at \in 1 .. Len(Program[l]) /\ Len(Program[l]) \in Nat
  BY ProgramFacts DEF Advances, OnStep, Sound, Locals
<1>3. Place(l, q)
  <2>1. q.at \in 1 .. (Len(Program[l]) + 1)
    BY <1>2 DEF Advances
  <2>2. \A i \in q.cleanups \cup q.todo : Makes(l, i) /\ i < q.at
    BY <1>2, ProgramFacts DEF Advances, Sound, Place, Makes
  <2>3. QED
    BY <1>1, <2>1, <2>2 DEF Advances, Sound, Place
<1>4. Kept(l, q, b, t)
  BY <1>1 DEF Sound, Kept, Blocked, Advances
<1>5. Passed(l, q, b, t)
  <2>1. SUFFICES ASSUME NEW i \in Made(l), NEW k \in DOMAIN Program[l],
                        k < q.at, Unmade(l, i, k)
                 PROVE  /\ i \in b => i \in t
                        /\ (Thing(l, i) \in Vpcs /\ ~Program[l][k].optional) =>
                             Thing(l, i) \notin q.bound
    BY DEF Passed
  <2>2. CASE k = r.at
    BY <2>1, <2>2 DEF Advances, At
  <2>3. CASE k # r.at
    <3>1. k < r.at
      BY <1>2, <2>1, <2>3, ProgramFacts DEF Advances
    <3>2. QED
      BY <1>1, <2>1, <3>1 DEF Sound, Passed, Advances
  <2>4. QED
    BY <2>2, <2>3
<1>6. Bound(l, q, b, t)
  <2>1. \A v \in q.bound : \E i \in VpcEntries(l, q) : Thing(l, i) = v
    BY <1>1 DEF Sound, Bound, Advances
  <2>2. ASSUME NEW i \in Made(l), i \in b, i \notin t, Thing(l, i) \in Vpcs, ~Seen(l, q, i)
        PROVE  Thing(l, i) \in q.bound
    <3>1. ~Seen(l, r, i)
      BY <1>2, <2>2, ProgramFacts DEF Seen, Advances
    <3>2. Thing(l, i) \in r.bound
      BY <1>1, <2>2, <3>1 DEF Sound, Bound, Blocked, Advances
    <3>3. ~(At(l, r).op \in {"touch", "delete"} /\ At(l, r).res = Thing(l, i))
      BY <1>2, <2>2 DEF Seen, Advances, At, OnStep
    <3>4. QED
      BY <3>2, <3>3 DEF Advances
  <2>3. QED
    BY <2>1, <2>2 DEF Bound
<1>7. Budgeted(l, q)
  <2>1. /\ r.reserved \in Nat /\ Cardinality(VpcEntries(l, r)) \in Nat /\ q.reserved \in Nat
        /\ InHand(l, q) = 0 /\ InHand(l, r) = 0
    BY EntriesFinite DEF Sound, Locals, InHand, Advances
  <2>2. r.status = "running" /\ r.reserved <= Cardinality(VpcEntries(l, r)) + InHand(l, r)
    BY <1>1 DEF Sound, Place, Budgeted
  <2>3. QED
    BY <1>1, <2>1, <2>2 DEF Budgeted, Advances
<1>8. QED
  BY <1>3, <1>4, <1>5, <1>6, <1>7 DEF Sound

\* It gives up the optional group of its step.
Skips(l, r, a, s, q, b, t) ==
  /\ r.pc = "send" /\ ~OnVpcCreate(l, r) /\ At(l, r).group # NoGroup
  /\ q.pc = "group" /\ q.at = r.at /\ q.status = r.status
  /\ q.failed = r.failed \cup {At(l, r).group}
  /\ q.cleanups = r.cleanups \ OfGroup(l, r, At(l, r).group)
  /\ q.todo = OfGroup(l, r, At(l, r).group)
  /\ q.reserved = r.reserved /\ q.pending = FALSE /\ q.bound = r.bound
  /\ \A i \in Made(l) : (i \in b /\ i \notin t) => (i \in a /\ i \notin s)

LEMMA SkipsSound ==
  ASSUME NEW l \in Lifecycles, NEW r, NEW a, NEW s, NEW q \in Locals, NEW b, NEW t,
         Sound(l, r, a, s), Skips(l, r, a, s, q, b, t)
  PROVE  Sound(l, q, b, t)
<1>1. /\ r.todo = {} /\ ~Ending(q) /\ ~Ending(r) /\ OnStep(l, r)
  BY DEF Skips, Ending, Sound, Place
<1>2. Filed(q) = Filed(r) /\ VpcEntries(l, q) = VpcEntries(l, r)
  BY <1>1 DEF Skips, Filed, VpcEntries, OfGroup
<1>3. Place(l, q)
  <2>1. q.cleanups \cup q.todo = r.cleanups
    BY DEF Skips, OfGroup
  <2>2. \A i \in q.cleanups : Program[l][i].group \notin q.failed
    BY DEF Skips, OfGroup, Sound, Place
  <2>3. \A i \in q.todo : Program[l][i].group # NoGroup
    BY DEF Skips, OfGroup
  <2>4. OnStep(l, q) /\ At(l, q).group \in q.failed /\ NoGroup \notin q.failed
    BY <1>1 DEF Skips, OnStep, At, Sound, Place
  <2>5. QED
    BY <1>1, <2>1, <2>2, <2>3, <2>4 DEF Skips, Sound, Place
<1>4. Kept(l, q, b, t)
  BY <1>1, <1>2 DEF Sound, Kept, Blocked, Skips
<1>5. Passed(l, q, b, t)
  BY <1>1 DEF Sound, Passed, Skips
<1>6. Bound(l, q, b, t)
  <2>1. \A i \in Made(l) : Seen(l, q, i) <=> Seen(l, r, i)
    BY DEF Skips, Seen
  <2>2. QED
    BY <1>1, <1>2, <2>1 DEF Sound, Bound, Blocked, Skips
<1>7. Budgeted(l, q)
  <2>1. InHand(l, q) = InHand(l, r)
    BY DEF InHand, Skips
  <2>2. QED
    BY <1>2, <2>1 DEF Sound, Budgeted, Skips
<1>8. QED
  BY <1>3, <1>4, <1>5, <1>6, <1>7 DEF Sound

\* It creates a resource and registers the cleanup.
Creates(l, r, a, s, q, b, t) ==
  /\ r.pc = "send" /\ At(l, r).op = "create"
  /\ q.pc = "ready" /\ q.at = r.at + 1 /\ q.status = r.status /\ q.failed = r.failed
  /\ q.cleanups = r.cleanups \cup {r.at} /\ q.todo = {} /\ q.pending = FALSE
  /\ q.reserved = r.reserved
  /\ q.bound = IF At(l, r).res \in Vpcs THEN r.bound \cup {At(l, r).res} ELSE r.bound
  /\ \A i \in Made(l) : (i # r.at /\ i \in b /\ i \notin t) => (i \in a /\ i \notin s)

LEMMA CreatesSound ==
  ASSUME NEW l \in Lifecycles, NEW r, NEW a, NEW s, NEW q \in Locals, NEW b, NEW t,
         Sound(l, r, a, s), Creates(l, r, a, s, q, b, t)
  PROVE  Sound(l, q, b, t)
<1>1. /\ r.todo = {} /\ ~Ending(q) /\ ~Ending(r) /\ OnStep(l, r)
      /\ r.at \in Nat /\ r.at \in 1 .. Len(Program[l]) /\ Len(Program[l]) \in Nat
      /\ At(l, r).group \notin r.failed
  BY ProgramFacts DEF Creates, Ending, Sound, Place, OnStep, Locals
<1>2. r.at \in Made(l) /\ Thing(l, r.at) = At(l, r).res /\ Makes(l, r.at)
  BY <1>1 DEF Made, Makes, Thing, OnStep, At, Creates
<1>3. Filed(q) = Filed(r) \cup {r.at} /\ r.at \notin Filed(r)
  BY <1>1 DEF Creates, Filed, Sound, Place
<1>4. \A i \in Made(l) : Thing(l, i) = At(l, r).res => i = r.at
  BY <1>2, OneMaker
<1>5. Place(l, q)
  <2>1. q.at \in 1 .. (Len(Program[l]) + 1)
    BY <1>1 DEF Creates
  <2>2. \A i \in q.cleanups \cup q.todo : Makes(l, i) /\ i < q.at
    BY <1>1, <1>2, ProgramFacts DEF Creates, Sound, Place, Makes
  <2>3. \A i \in q.cleanups : Program[l][i].group \notin q.failed
    BY <1>1 DEF Creates, Sound, Place, At
  <2>4. QED
    BY <1>1, <2>1, <2>2, <2>3 DEF Creates, Sound, Place
<1>6. Kept(l, q, b, t)
  BY <1>1, <1>3 DEF Sound, Kept, Blocked, Creates
<1>7. Passed(l, q, b, t)
  <2>1. SUFFICES ASSUME NEW i \in Made(l), NEW k \in DOMAIN Program[l],
                        k < q.at, Unmade(l, i, k)
                 PROVE  /\ i \in b => i \in t
                        /\ (Thing(l, i) \in Vpcs /\ ~Program[l][k].optional) =>
                             Thing(l, i) \notin q.bound
    BY DEF Passed
  <2>2. k # r.at
    BY <2>1 DEF Unmade, Creates, At
  <2>3. k < r.at /\ i < r.at
    BY <1>1, <2>1, <2>2, ProgramFacts, MadeFacts DEF Creates, Unmade
  <2>4. Thing(l, i) # At(l, r).res /\ i # r.at
    BY <1>1, <1>4, <2>3
  <2>5. QED
    BY <1>1, <2>1, <2>3, <2>4 DEF Sound, Passed, Creates
<1>8. VpcEntries(l, q) = IF At(l, r).res \in Vpcs THEN VpcEntries(l, r) \cup {r.at}
                         ELSE VpcEntries(l, r)
  BY <1>2, <1>3 DEF VpcEntries
<1>9. Bound(l, q, b, t)
  <2>1. \A v \in q.bound : \E i \in VpcEntries(l, q) : Thing(l, i) = v
    BY <1>2, <1>8 DEF Sound, Bound, Creates
  <2>2. ASSUME NEW i \in Made(l), i \in b, i \notin t, Thing(l, i) \in Vpcs, ~Seen(l, q, i)
        PROVE  Thing(l, i) \in q.bound
    <3>1. CASE i = r.at
      BY <1>2, <2>2, <3>1 DEF Creates
    <3>2. CASE i # r.at
      <4>1. ~Seen(l, r, i)
        BY <1>1, <2>2, ProgramFacts DEF Seen, Creates
      <4>2. QED
        BY <1>1, <2>2, <3>2, <4>1 DEF Sound, Bound, Blocked, Creates
    <3>3. QED
      BY <3>1, <3>2
  <2>3. QED
    BY <2>1, <2>2 DEF Bound
<1>10. Budgeted(l, q)
  <2>1. /\ r.reserved \in Nat /\ Cardinality(VpcEntries(l, r)) \in Nat
        /\ IsFiniteSet(VpcEntries(l, r)) /\ InHand(l, q) = 0
    BY EntriesFinite DEF Sound, Locals, InHand, Creates
  <2>2. r.status = "running" /\ r.reserved <= Cardinality(VpcEntries(l, r)) + InHand(l, r)
    BY <1>1 DEF Sound, Place, Budgeted
  <2>3. CASE At(l, r).res \in Vpcs
    <3>1. r.at \notin VpcEntries(l, r) /\ VpcEntries(l, q) = VpcEntries(l, r) \cup {r.at}
      BY <1>3, <1>8, <2>3 DEF VpcEntries
    <3>2. Cardinality(VpcEntries(l, q)) = Cardinality(VpcEntries(l, r)) + 1
      BY <2>1, <3>1, FS_AddElement
    <3>3. InHand(l, r) = 1
      BY <1>1, <2>3 DEF InHand, OnVpcCreate, IsVpcCreate, Creates
    <3>4. QED
      BY <2>1, <2>2, <3>2, <3>3 DEF Budgeted, Creates
  <2>4. CASE At(l, r).res \notin Vpcs
    <3>1. InHand(l, r) = 0 /\ VpcEntries(l, q) = VpcEntries(l, r)
      BY <1>8, <2>4 DEF InHand, OnVpcCreate, IsVpcCreate
    <3>2. QED
      BY <2>1, <2>2, <3>1 DEF Budgeted, Creates
  <2>5. QED
    BY <2>3, <2>4
<1>11. QED
  BY <1>5, <1>6, <1>7, <1>9, <1>10 DEF Sound

\* It runs the cleanup registered last: i is deleted, lost, or a VPC still in use.
InUse(l, a, i) == i \in a /\ \E j \in Made(l) : j \in a /\ Inside(l, j, i)
Cleans(l, r, a, s, q, b, t, i) ==
  /\ r.pc \in {"teardown", "group"} /\ i \in NextUp(r.todo)
  /\ q.pc = r.pc /\ q.at = r.at /\ q.status = r.status /\ q.failed = r.failed
  /\ q.cleanups = r.cleanups /\ q.todo = r.todo \ {i} /\ q.pending = r.pending
  /\ q.reserved = IF Thing(l, i) \in Vpcs THEN Minus1(r.reserved) ELSE r.reserved
  /\ q.bound = r.bound \ {Thing(l, i)}
  /\ \A j \in Made(l) : j # i => (j \in b <=> j \in a) /\ (j \in t <=> j \in s)
  /\ (i \in b /\ i \notin t) => i \in a /\ i \notin s /\ InUse(l, a, i)

\* What keeps a VPC in use when its cleanup is run will not be deleted any more: its own
\* cleanup came first.  A cleanup of a group is never for a VPC.
LEMMA InUseIsBlocked ==
  ASSUME NEW l \in Lifecycles, NEW r, NEW a, NEW s, NEW q \in Locals, NEW b, NEW t, NEW i,
         Sound(l, r, a, s), Cleans(l, r, a, s, q, b, t, i), i \in b, i \notin t
  PROVE  Blocked(l, q, b, t, i)
<1>1. PICK j \in Made(l) : j \in a /\ Inside(l, j, i)
  BY DEF Cleans, InUse
<1>2. i \in r.todo /\ i \in Made(l) /\ (\A k \in r.todo : k <= i)
  BY MadeFacts DEF Cleans, NextUp, Sound, Place
<1>3. Thing(l, i) \in Vpcs /\ Thing(l, j) \in Children /\ i < j
  <2>1. Thing(l, j) \in Children /\ InVpc[Thing(l, j)] = Thing(l, i)
    BY <1>1 DEF Inside
  <2>2. PICK m \in Made(l) : m < j /\ Inside(l, j, m)
    BY <1>1, <2>1, InsideIsLater
  <2>3. m = i
    BY <1>2, <2>1, <2>2, OneMaker DEF Inside
  <2>4. InVpc[Thing(l, j)] \in Vpcs
    BY <1>1, <2>1, InsideIsLater
  <2>5. QED
    BY <2>1, <2>2, <2>3, <2>4
<1>4. r.pc = "teardown"
  BY <1>2, <1>3, VpcCreates DEF Cleans, Sound, Place
<1>5. j \notin r.todo
  BY <1>1, <1>2, <1>3, MadeFacts
<1>6. j \in s
  <2>1. SUFFICES ASSUME j \notin s PROVE FALSE
    OBVIOUS
  <2>2. j \in Filed(r) \/ Blocked(l, r, a, s, j)
    BY <1>1, <2>1 DEF Sound, Kept
  <2>3. j \notin Filed(r)
    BY <1>4, <1>5 DEF Filed, Ending
  <2>4. PICK k \in Made(l) : Inside(l, k, j)
    BY <2>2, <2>3 DEF Blocked
  <2>5. Thing(l, j) \in Vpcs
    BY <2>4, InsideIsLater DEF Inside
  <2>6. QED
    BY <1>3, <2>5, LimitsAssumption
<1>7. j # i /\ j \in b /\ j \in t /\ j \notin q.todo /\ Ending(q)
  BY <1>1, <1>2, <1>4, <1>5, <1>6 DEF Cleans, Ending
<1>8. QED
  BY <1>1, <1>7 DEF Blocked

LEMMA CleansSound ==
  ASSUME NEW l \in Lifecycles, NEW r, NEW a, NEW s, NEW q \in Locals, NEW b, NEW t, NEW i,
         Sound(l, r, a, s), Cleans(l, r, a, s, q, b, t, i)
  PROVE  Sound(l, q, b, t)
<1>1. /\ i \in r.todo /\ i \in Made(l) /\ i \in Filed(r)
      /\ Ending(q) <=> Ending(r)
      /\ r.pc = "teardown" <=> Ending(r)
  BY MadeFacts DEF Cleans, NextUp, Sound, Place, Filed, Ending
<1>2. \A j : (j \in Filed(r) /\ j # i) => j \in Filed(q)
  BY <1>1 DEF Cleans, Filed
<1>3. \A j \in Made(l) : Blocked(l, r, a, s, j) => Blocked(l, q, b, t, j)
  BY <1>1 DEF Blocked, Cleans
<1>4. (i \in b /\ i \notin t) => Blocked(l, q, b, t, i)
  BY InUseIsBlocked
<1>5. Place(l, q)
  <2>1. OnVpcCreate(l, q) <=> OnVpcCreate(l, r)
    BY DEF Cleans, OnVpcCreate, OnStep, At
  <2>2. OnStep(l, q) <=> OnStep(l, r)
    BY DEF Cleans, OnStep
  <2>3. At(l, q) = At(l, r)
    BY DEF Cleans, At
  <2>4. q.todo \subseteq r.todo
    BY DEF Cleans
  <2>5. QED
    BY <1>1, <2>1, <2>2, <2>3, <2>4 DEF Cleans, Sound, Place, Ending
<1>6. Kept(l, q, b, t)
  BY <1>2, <1>3, <1>4 DEF Sound, Kept, Cleans
<1>7. Passed(l, q, b, t)
  <2>1. \A j \in Made(l) : (j \in a => j \in s) => (j \in b => j \in t)
    BY DEF Cleans
  <2>2. QED
    BY <1>1, <2>1 DEF Sound, Passed, Cleans
<1>8. Bound(l, q, b, t)
  <2>1. \A v \in q.bound : \E j \in VpcEntries(l, q) : Thing(l, j) = v
    BY <1>2 DEF Sound, Bound, Cleans, VpcEntries
  <2>2. ASSUME NEW j \in Made(l), j \in b, j \notin t, Thing(l, j) \in Vpcs, ~Seen(l, q, j)
        PROVE  Thing(l, j) \in q.bound \/ Blocked(l, q, b, t, j)
    <3>1. CASE j = i
      BY <1>4, <2>2, <3>1
    <3>2. CASE j # i
      <4>1. ~Seen(l, r, j)
        BY <2>2 DEF Seen, Cleans
      <4>2. Thing(l, j) \in r.bound \/ Blocked(l, r, a, s, j)
        BY <2>2, <3>2, <4>1 DEF Sound, Bound, Cleans
      <4>3. Thing(l, j) # Thing(l, i)
        BY <1>1, <3>2, OneMaker
      <4>4. QED
        BY <1>3, <4>2, <4>3 DEF Cleans
    <3>3. QED
      BY <3>1, <3>2
  <2>3. QED
    BY <2>1, <2>2 DEF Bound
<1>9. Budgeted(l, q)
  <2>1. /\ r.reserved \in Nat /\ Cardinality(VpcEntries(l, r)) \in Nat
        /\ IsFiniteSet(VpcEntries(l, r)) /\ InHand(l, q) = 0 /\ InHand(l, r) = 0
    BY EntriesFinite DEF Sound, Locals, InHand, Cleans
  <2>2. /\ Minus1(r.reserved) <= r.reserved
        /\ r.reserved > 0 => Minus1(r.reserved) = r.reserved - 1
        /\ r.reserved = 0 => Minus1(r.reserved) = 0
    BY <2>1, Minus1Bounds
  <2>3. CASE Thing(l, i) \in Vpcs
    <3>1. Program[l][i].group = NoGroup
      BY <1>1, <2>3, VpcCreates
    <3>2. Ending(r) /\ Ending(q)
      BY <1>1, <3>1 DEF Cleans, Sound, Place
    <3>3. VpcEntries(l, q) = VpcEntries(l, r) \ {i} /\ i \in VpcEntries(l, r)
      BY <1>1, <2>3, <3>2 DEF VpcEntries, Filed, Cleans
    <3>4. Cardinality(VpcEntries(l, q)) = Cardinality(VpcEntries(l, r)) - 1
      BY <2>1, <3>3, FS_RemoveElement
    <3>5. VpcEntries(l, r) # {}
      BY <3>3
    <3>6. Cardinality(VpcEntries(l, r)) # 0
      BY <2>1, <3>5, FS_EmptySet
    <3>7. q.reserved = Minus1(r.reserved) /\ q.status = r.status /\ Budgeted(l, r)
      BY <2>3 DEF Cleans, Sound
    <3>8. QED
      BY <2>1, <2>2, <3>4, <3>6, <3>7 DEF Budgeted
  <2>4. CASE Thing(l, i) \notin Vpcs
    <3>1. VpcEntries(l, q) = VpcEntries(l, r)
      <4>1. Filed(q) \subseteq Filed(r)
        BY <1>1 DEF Filed, Cleans
      <4>2. QED
        BY <1>2, <2>4, <4>1 DEF VpcEntries
    <3>2. q.reserved = r.reserved /\ q.status = r.status /\ Budgeted(l, r)
      BY <2>4 DEF Cleans, Sound
    <3>3. QED
      BY <2>1, <3>1, <3>2 DEF Budgeted
  <2>5. QED
    BY <2>3, <2>4
<1>10. QED
  BY <1>5, <1>6, <1>7, <1>8, <1>9 DEF Sound

\* Its loop is over.
Finishes(l, r, a, s, q, b, t) ==
  /\ r.pc = "ready" /\ ~OnStep(l, r)
  /\ q.pc = "done" /\ q.status = "passed" /\ q.at = r.at /\ q.failed = r.failed
  /\ q.cleanups = r.cleanups /\ q.todo = r.todo /\ q.pending = r.pending
  /\ q.reserved = r.reserved /\ q.bound = r.bound
  /\ b = a /\ t = s

\* It has passed the delete step of everything it made.
LEMMA FinishesSound ==
  ASSUME NEW l \in Lifecycles, NEW r, NEW a, NEW s, NEW q \in Locals, NEW b, NEW t,
         Sound(l, r, a, s), Finishes(l, r, a, s, q, b, t)
  PROVE  Sound(l, q, b, t)
<1>1. /\ q.todo = {} /\ r.todo = {} /\ Ending(q) /\ ~Ending(r) /\ Filed(q) = {}
      /\ r.pending = FALSE
  BY DEF Finishes, Filed, Ending, Sound, Place, Locals
<1>2. ASSUME NEW i \in Made(l)
      PROVE  /\ i \in a => i \in s
             /\ Thing(l, i) \in Vpcs => Thing(l, i) \notin r.bound
  <2>1. PICK k \in DOMAIN Program[l] :
          Unmade(l, i, k) /\ (Thing(l, i) \in Vpcs => ~Program[l][k].optional)
    BY DeletedLater
  <2>2. k < r.at
    BY ProgramFacts DEF Finishes, OnStep, Sound, Place
  <2>3. QED
    BY <1>1, <2>1, <2>2 DEF Sound, Passed
<1>3. r.bound = {}
  <2>1. \A v \in r.bound : \E i \in Made(l) : Thing(l, i) \in Vpcs /\ Thing(l, i) = v
    BY EntriesFinite DEF Sound, Bound, VpcEntries
  <2>2. QED
    BY <1>2, <2>1
<1>4. Place(l, q)
  BY <1>1 DEF Finishes, Sound, Place
<1>5. Kept(l, q, b, t)
  BY <1>2 DEF Kept, Finishes
<1>6. Passed(l, q, b, t)
  BY <1>1 DEF Passed
<1>7. Bound(l, q, b, t)
  BY <1>2, <1>3 DEF Bound, Finishes
<1>8. Budgeted(l, q)
  BY DEF Budgeted, Finishes
<1>9. QED
  BY <1>4, <1>5, <1>6, <1>7, <1>8 DEF Sound

\* Its teardown is over.
Leaves(l, r, a, s, q, b, t) ==
  /\ r.pc = "teardown" /\ r.todo = {}
  /\ q.pc = "done" /\ q.status = r.status /\ q.at = r.at /\ q.failed = r.failed
  /\ q.cleanups = r.cleanups /\ q.todo = r.todo /\ q.pending = FALSE
  /\ q.reserved = r.reserved /\ q.bound = r.bound
  /\ b = a /\ t = s

LEMMA LeavesSound ==
  ASSUME NEW l \in Lifecycles, NEW r, NEW a, NEW s, NEW q \in Locals, NEW b, NEW t,
         Sound(l, r, a, s), Leaves(l, r, a, s, q, b, t)
  PROVE  Sound(l, q, b, t)
<1>1. Ending(q) /\ Ending(r) /\ Filed(q) = Filed(r) /\ VpcEntries(l, q) = VpcEntries(l, r)
  BY DEF Leaves, Ending, Filed, VpcEntries
<1>2. Place(l, q)
  BY <1>1 DEF Leaves, Sound, Place
<1>3. Kept(l, q, b, t)
  BY <1>1 DEF Sound, Kept, Blocked, Leaves
<1>4. Passed(l, q, b, t)
  BY <1>1 DEF Passed
<1>5. Bound(l, q, b, t)
  BY <1>1 DEF Sound, Bound, Blocked, Leaves, Seen
<1>6. Budgeted(l, q)
  <2>1. InHand(l, q) = 0 /\ InHand(l, r) = 0
    BY DEF InHand, Leaves
  <2>2. QED
    BY <1>1, <2>1 DEF Sound, Budgeted, Leaves
<1>7. QED
  BY <1>2, <1>3, <1>4, <1>5, <1>6 DEF Sound

-----------------------------------------------------------------------------
(* The slots of the semaphore *)

PendingOf(f) == {l \in Lifecycles : f[l].pending}
BoundOf(f) == {h \in Lifecycles \X Vpcs : h[2] \in f[h[1]].bound}
HeldBy(f) == Cardinality(PendingOf(f)) + Cardinality(BoundOf(f))

LEMMA HeldFinite ==
  ASSUME NEW f
  PROVE  /\ IsFiniteSet(PendingOf(f)) /\ Cardinality(PendingOf(f)) \in Nat
         /\ IsFiniteSet(BoundOf(f)) /\ Cardinality(BoundOf(f)) \in Nat
         /\ HeldBy(f) \in Nat
<1>1. IsFiniteSet(Lifecycles) /\ IsFiniteSet(Vpcs)
  BY LimitsAssumption
<1>2. IsFiniteSet(Lifecycles \X Vpcs)
  BY <1>1, FS_Product
<1>3. PendingOf(f) \subseteq Lifecycles /\ BoundOf(f) \subseteq Lifecycles \X Vpcs
  BY DEF PendingOf, BoundOf
<1>4. IsFiniteSet(PendingOf(f)) /\ IsFiniteSet(BoundOf(f))
  BY <1>1, <1>2, <1>3, FS_Subset
<1>5. Cardinality(PendingOf(f)) \in Nat /\ Cardinality(BoundOf(f)) \in Nat
  BY <1>4, FS_CardinalityType
<1>6. QED
  BY <1>4, <1>5 DEF HeldBy

LEMMA AtMostOneMore ==
  ASSUME NEW S, IsFiniteSet(S), NEW x
  PROVE  IsFiniteSet(S \cup {x}) /\ Cardinality(S \cup {x}) <= Cardinality(S) + 1
<1>1. Cardinality(S) \in Nat
  BY FS_CardinalityType
<1>2. /\ IsFiniteSet(S \cup {x})
      /\ Cardinality(S \cup {x}) = IF x \in S THEN Cardinality(S) ELSE Cardinality(S) + 1
  BY FS_AddElement
<1>3. QED
  BY <1>1, <1>2

\* A move that takes no slot leaves at most as many held.
LEMMA HeldShrinks ==
  ASSUME NEW f \in [Lifecycles -> Locals], NEW l \in Lifecycles, NEW q \in Locals,
         q.pending => f[l].pending, q.bound \subseteq f[l].bound
  PROVE  HeldBy([f EXCEPT ![l] = q]) <= HeldBy(f)
<1> DEFINE g == [f EXCEPT ![l] = q]
<1>1. PendingOf(g) \subseteq PendingOf(f)
  BY DEF PendingOf
<1>2. BoundOf(g) \subseteq BoundOf(f)
  BY DEF BoundOf
<1> HIDE DEF g
<1>3. Cardinality(PendingOf(g)) <= Cardinality(PendingOf(f))
  BY <1>1, HeldFinite, FS_Subset
<1>4. Cardinality(BoundOf(g)) <= Cardinality(BoundOf(f))
  BY <1>2, HeldFinite, FS_Subset
<1>5. HeldBy(g) <= HeldBy(f)
  BY <1>3, <1>4, HeldFinite DEF HeldBy
<1>6. QED
  BY <1>5 DEF g

\* The slot of the create at hand becomes the slot of the VPC.
LEMMA HeldIsBound ==
  ASSUME NEW f \in [Lifecycles -> Locals], NEW l \in Lifecycles, NEW q \in Locals, NEW v,
         f[l].pending, ~q.pending, q.bound \subseteq f[l].bound \cup {v}
  PROVE  HeldBy([f EXCEPT ![l] = q]) <= HeldBy(f)
<1> DEFINE g == [f EXCEPT ![l] = q]
<1>1. PendingOf(g) = PendingOf(f) \ {l} /\ l \in PendingOf(f)
  BY DEF PendingOf
<1>2. BoundOf(g) \subseteq BoundOf(f) \cup {<<l, v>>}
  BY DEF BoundOf
<1> HIDE DEF g
<1>3. Cardinality(PendingOf(g)) = Cardinality(PendingOf(f)) - 1
  BY <1>1, HeldFinite, FS_RemoveElement
<1>4. /\ IsFiniteSet(BoundOf(f) \cup {<<l, v>>})
      /\ Cardinality(BoundOf(f) \cup {<<l, v>>}) <= Cardinality(BoundOf(f)) + 1
  BY HeldFinite, AtMostOneMore
<1>5. Cardinality(BoundOf(g)) <= Cardinality(BoundOf(f) \cup {<<l, v>>})
  BY <1>2, <1>4, FS_Subset
<1>6. Cardinality(BoundOf(f) \cup {<<l, v>>}) \in Nat
  BY <1>4, FS_CardinalityType
<1>7. HeldBy(g) <= HeldBy(f)
  BY <1>3, <1>4, <1>5, <1>6, HeldFinite DEF HeldBy
<1>8. QED
  BY <1>7 DEF g

LEMMA HeldGrows ==
  ASSUME NEW f \in [Lifecycles -> Locals], NEW l \in Lifecycles, NEW q \in Locals,
         q.bound = f[l].bound
  PROVE  HeldBy([f EXCEPT ![l] = q]) <= HeldBy(f) + 1
<1> DEFINE g == [f EXCEPT ![l] = q]
<1>1. PendingOf(g) \subseteq PendingOf(f) \cup {l}
  BY DEF PendingOf
<1>2. BoundOf(g) = BoundOf(f)
  BY DEF BoundOf
<1> HIDE DEF g
<1>3. /\ IsFiniteSet(PendingOf(f) \cup {l})
      /\ Cardinality(PendingOf(f) \cup {l}) <= Cardinality(PendingOf(f)) + 1
  BY HeldFinite, AtMostOneMore
<1>4. Cardinality(PendingOf(g)) <= Cardinality(PendingOf(f) \cup {l})
  BY <1>1, <1>3, FS_Subset
<1>5. Cardinality(PendingOf(f) \cup {l}) \in Nat
  BY <1>3, FS_CardinalityType
<1>6. HeldBy(g) <= HeldBy(f) + 1
  BY <1>2, <1>3, <1>4, <1>5, HeldFinite DEF HeldBy
<1>7. QED
  BY <1>6 DEF g

-----------------------------------------------------------------------------
(* Giving up: what the engine does when a step did not go as expected *)

\* The move of l to q keeps the invariant and takes no slot.
Keeps(l, r, q, b, t) ==
  /\ q \in Locals /\ Sound(l, q, b, t)
  /\ q.pending => r.pending
  /\ q.bound \subseteq r.bound

LEMMA QuittingKeeps ==
  ASSUME NEW l \in Lifecycles, NEW r, NEW a, NEW s, NEW b, NEW t, Sound(l, r, a, s),
         \A i \in Made(l) : (i \in b /\ i \notin t) => (i \in a /\ i \notin s)
  PROVE  /\ r.pc = "ready" => Keeps(l, r, Quit(r, "skipped"), b, t)
         /\ r.pc \in {"acquire", "send"} =>
              Keeps(l, r, Quit(GiveBack(r, At(l, r)), "skipped"), b, t)
         /\ r.pc = "send" => Keeps(l, r, Quit(Held(r), "failed"), b, t)
<1>1. r \in Locals
  BY DEF Sound
<1>2. ASSUME r.pc = "ready"
      PROVE  Keeps(l, r, Quit(r, "skipped"), b, t)
  <2> DEFINE q == Quit(r, "skipped")
  <2>1. /\ q \in Locals /\ q.pc = "teardown" /\ q.at = r.at /\ q.status = "skipped"
        /\ q.failed = r.failed /\ q.cleanups = r.cleanups /\ q.todo = r.cleanups
        /\ q.reserved = r.reserved /\ q.pending = r.pending /\ q.bound = r.bound
    BY <1>1, QuitFields
  <2> HIDE DEF q
  <2>2. r.pending = FALSE /\ InHand(l, r) = 0 /\ r.reserved \in Nat
    BY <1>1, <1>2 DEF Sound, Place, InHand, Locals
  <2>3. Quits(l, r, a, s, q, b, t)
    BY <1>2, <2>1, <2>2 DEF Quits
  <2>4. Keeps(l, r, q, b, t)
    BY <2>1, <2>3, QuitsSound DEF Keeps
  <2>5. QED
    BY <2>4 DEF q
<1>3. ASSUME r.pc \in {"acquire", "send"}
      PROVE  Keeps(l, r, Quit(GiveBack(r, At(l, r)), "skipped"), b, t)
  <2> DEFINE g == GiveBack(r, At(l, r))
             q == Quit(g, "skipped")
  <2>1. /\ g \in Locals /\ g.at = r.at /\ g.failed = r.failed
        /\ g.cleanups = r.cleanups /\ g.bound = r.bound
        /\ IsVpcCreate(At(l, r)) => g.reserved = Minus1(r.reserved) /\ g.pending = FALSE
        /\ ~IsVpcCreate(At(l, r)) => g = r
    BY <1>1, GiveBackFields
  <2> HIDE DEF g
  <2>2. /\ q \in Locals /\ q.pc = "teardown" /\ q.at = r.at /\ q.status = "skipped"
        /\ q.failed = r.failed /\ q.cleanups = r.cleanups /\ q.todo = r.cleanups
        /\ q.reserved = g.reserved /\ q.pending = g.pending /\ q.bound = r.bound
    BY <2>1, QuitFields
  <2> HIDE DEF q
  <2>3. OnStep(l, r) /\ r.reserved \in Nat
    BY <1>1, <1>3 DEF Sound, Place, Locals, OnVpcCreate
  <2>4. q.pending = FALSE
    BY <1>3, <2>1, <2>2, <2>3 DEF Sound, Place, OnVpcCreate, Locals
  <2>5. /\ q.reserved <= r.reserved
        /\ (InHand(l, r) = 1 /\ r.reserved > 0) => q.reserved = r.reserved - 1
    BY <2>1, <2>2, <2>3, Minus1Bounds DEF InHand, OnVpcCreate
  <2>6. Quits(l, r, a, s, q, b, t)
    BY <1>3, <2>2, <2>4, <2>5 DEF Quits
  <2>7. Keeps(l, r, q, b, t)
    BY <2>2, <2>4, <2>6, QuitsSound DEF Keeps
  <2>8. QED
    BY <2>7 DEF q, g
<1>4. ASSUME r.pc = "send"
      PROVE  Keeps(l, r, Quit(Held(r), "failed"), b, t)
  <2> DEFINE g == Held(r)
             q == Quit(g, "failed")
  <2>1. /\ g \in Locals /\ g.at = r.at /\ g.failed = r.failed
        /\ g.cleanups = r.cleanups /\ g.bound = r.bound /\ g.pending = FALSE
    BY <1>1, HeldFields
  <2> HIDE DEF g
  <2>2. /\ q \in Locals /\ q.pc = "teardown" /\ q.at = r.at /\ q.status = "failed"
        /\ q.failed = r.failed /\ q.cleanups = r.cleanups /\ q.todo = r.cleanups
        /\ q.pending = FALSE /\ q.bound = r.bound
    BY <2>1, QuitFields
  <2> HIDE DEF q
  <2>3. Quits(l, r, a, s, q, b, t)
    BY <1>4, <2>2 DEF Quits
  <2>4. Keeps(l, r, q, b, t)
    BY <2>2, <2>3, QuitsSound DEF Keeps
  <2>5. QED
    BY <2>4 DEF q, g
<1>5. QED
  BY <1>2, <1>3, <1>4

\* An optional step is not the create of a VPC, and what it should have deleted either
\* is for a later step of its group or is left in place.
LEMMA SkippingKeeps ==
  ASSUME NEW l \in Lifecycles, NEW r, NEW a, NEW s, NEW b, NEW t, Sound(l, r, a, s),
         r.pc = "send", At(l, r).optional,
         \A i \in Made(l) : (i \in b /\ i \notin t) => (i \in a /\ i \notin s),
         \A i \in Made(l) : (At(l, r).group = NoGroup /\ Unmade(l, i, r.at)) => (i \in b => i \in t)
  PROVE  Keeps(l, r, SkipGroup(l, GiveBack(r, At(l, r)), At(l, r).group), b, t)
<1>1. r \in Locals /\ OnStep(l, r) /\ r.todo = {}
  BY DEF Sound, Place
<1>2. ~OnVpcCreate(l, r) /\ ~IsVpcCreate(At(l, r))
  <2>1. SUFFICES ASSUME IsVpcCreate(At(l, r)) PROVE FALSE
    BY DEF OnVpcCreate
  <2>2. r.at \in Made(l) /\ Thing(l, r.at) \in Vpcs
    BY <1>1, <2>1 DEF Made, Makes, Thing, OnStep, At, IsVpcCreate
  <2>3. QED
    BY <2>2, VpcCreates DEF At
<1>3. GiveBack(r, At(l, r)) = r /\ r.pending = FALSE /\ InHand(l, r) = 0
  BY <1>1, <1>2, GiveBackFields DEF Sound, Place, Locals, InHand
<1>4. At(l, r).group = NoGroup \/ At(l, r).group \in Groups
  BY <1>1, ProgramFacts DEF OnStep, At
<1> DEFINE q == SkipGroup(l, r, At(l, r).group)
<1>5. CASE At(l, r).group = NoGroup
  <2>1. q = Advance(r)
    BY <1>1, <1>4, <1>5, SkipGroupFields
  <2>2. /\ q \in Locals /\ q.pc = "ready" /\ q.at = r.at + 1
        /\ q.status = r.status /\ q.failed = r.failed
        /\ q.cleanups = r.cleanups /\ q.todo = r.todo
        /\ q.reserved = r.reserved /\ q.pending = r.pending /\ q.bound = r.bound
    BY <1>1, <2>1, AdvanceFields
  <2> HIDE DEF q
  <2>3. Advances(l, r, a, s, q, b, t)
    BY <1>1, <1>3, <1>5, <2>2 DEF Advances, Locals
  <2>4. Keeps(l, r, q, b, t)
    BY <2>2, <2>3, AdvancesSound DEF Keeps
  <2>5. QED
    BY <1>3, <2>4 DEF q
<1>6. CASE At(l, r).group # NoGroup
  <2>1. PICK q1 \in Locals :
        /\ q1 = q /\ q1.pc = "group" /\ q1.at = r.at
        /\ q1.status = r.status /\ q1.failed = r.failed \cup {At(l, r).group}
        /\ q1.cleanups = r.cleanups \ OfGroup(l, r, At(l, r).group)
        /\ q1.todo = OfGroup(l, r, At(l, r).group)
        /\ q1.reserved = r.reserved /\ q1.pending = r.pending /\ q1.bound = r.bound
    BY <1>1, <1>4, <1>6, SkipGroupFields
  <2>2. Skips(l, r, a, s, q1, b, t)
    BY <1>2, <1>3, <1>6, <2>1 DEF Skips
  <2>3. Keeps(l, r, q1, b, t)
    BY <2>1, <2>2, SkipsSound DEF Keeps
  <2>4. QED
    BY <1>3, <2>1, <2>3
<1>7. QED
  BY <1>5, <1>6

\* On to the next step from one that is no create of a VPC.
LEMMA AdvancingKeeps ==
  ASSUME NEW l \in Lifecycles, NEW r, NEW a, NEW s, NEW b, NEW t, Sound(l, r, a, s),
         r.pc \in {"ready", "send", "group"}, r.todo = {}, OnStep(l, r), InHand(l, r) = 0,
         NEW g \in Locals,
         g.at = r.at, g.status = r.status, g.failed = r.failed, g.cleanups = r.cleanups,
         g.todo = r.todo, g.pending = FALSE, g.reserved <= r.reserved,
         g.bound = r.bound
           \/ (At(l, r).op \in {"touch", "delete"} /\ g.bound = r.bound \ {At(l, r).res}),
         \A i \in Made(l) : (i \in b /\ i \notin t) => (i \in a /\ i \notin s),
         \A i \in Made(l) : Unmade(l, i, r.at) =>
           /\ i \in b => i \in t
           /\ (Thing(l, i) \in Vpcs /\ ~At(l, r).optional) => Thing(l, i) \notin g.bound
  PROVE  Keeps(l, r, Advance(g), b, t)
<1> DEFINE q == Advance(g)
<1>1. /\ q \in Locals /\ q.pc = "ready" /\ q.at = r.at + 1
      /\ q.status = r.status /\ q.failed = r.failed
      /\ q.cleanups = r.cleanups /\ q.todo = r.todo
      /\ q.reserved = g.reserved /\ q.pending = FALSE /\ q.bound = g.bound
  BY AdvanceFields
<1> HIDE DEF q
<1>2. Advances(l, r, a, s, q, b, t)
  BY <1>1 DEF Advances
<1>3. Keeps(l, r, q, b, t)
  BY <1>1, <1>2, AdvancesSound DEF Keeps
<1>4. QED
  BY <1>3 DEF q

-----------------------------------------------------------------------------
(* The actions, each as such a move *)

LEMMA LocalView ==
  ASSUME EngineInv, NEW l \in Lifecycles
  PROVE  /\ lc \in [Lifecycles -> Locals] /\ lc[l] \in Locals
         /\ Sound(l, lc[l], Alive(l), Lost(l)) /\ Place(l, lc[l])
         /\ AtStep(l) <=> OnStep(l, lc[l])
         /\ Step(l) = At(l, lc[l])
<1>1. /\ lc \in [Lifecycles -> Locals] /\ lc[l] \in Locals
      /\ Sound(l, lc[l], Alive(l), Lost(l)) /\ Place(l, lc[l])
  BY DEF EngineInv, Sound
<1>2. AtStep(l) <=> OnStep(l, lc[l])
  BY <1>1, ProgramFacts DEF AtStep, OnStep, Place
<1>3. QED
  BY <1>1, <1>2 DEF Step, At

\* l has moved, and held on to the invariant.
Settles(l) ==
  /\ lc' = [lc EXCEPT ![l] = lc'[l]]
  /\ Keeps(l, lc[l], lc'[l], Alive(l)', Lost(l)')

LEMMA SettlesBy ==
  ASSUME NEW l \in Lifecycles, NEW q, lc \in [Lifecycles -> Locals],
         lc' = [lc EXCEPT ![l] = q], Keeps(l, lc[l], q, Alive(l)', Lost(l)')
  PROVE  Settles(l)
<1>1. lc'[l] = q
  OBVIOUS
<1>2. QED
  BY <1>1 DEF Settles

LEMMA SameViews ==
  ASSUME live' = live, unseen' = unseen, refused' = refused, NEW l
  PROVE  Alive(l)' = Alive(l) /\ Lost(l)' = Lost(l)
BY DEF Alive, Lost, Left

\* What is lost stays lost; what is there is what was there, or just made.
LEMMA SoonerLost ==
  ASSUME NEW l, unseen \subseteq unseen', refused \subseteq refused',
         NEW i \in Made(l), Thing(l, i) \in live' => Thing(l, i) \in live \cup Left'
  PROVE  (i \in Alive(l)' /\ i \notin Lost(l)') => (i \in Alive(l) /\ i \notin Lost(l))
BY DEF Alive, Lost, Left

LEMMA QuitAtBoundary ==
  ASSUME EngineInv, NEW l \in Lifecycles, Stopped(l) \/ Withheld(l)
  PROVE  Settles(l)
<1>1. /\ lc[l].pc = "ready" /\ lc' = [lc EXCEPT ![l] = Quit(lc[l], "skipped")]
      /\ Alive(l)' = Alive(l) /\ Lost(l)' = Lost(l)
  BY SameViews DEF Stopped, Withheld, AtBoundary, Set
<1>2. Keeps(l, lc[l], Quit(lc[l], "skipped"), Alive(l), Lost(l))
  BY <1>1, LocalView, QuittingKeeps
<1>3. QED
  BY <1>1, <1>2, LocalView, SettlesBy

LEMMA PassingOver ==
  ASSUME EngineInv, NEW l \in Lifecycles, PassOver(l) \/ GroupCleaned(l)
  PROVE  Settles(l)
<1>1. /\ lc' = [lc EXCEPT ![l] = Advance(lc[l])]
      /\ Alive(l)' = Alive(l) /\ Lost(l)' = Lost(l)
  BY SameViews DEF PassOver, GroupCleaned, Set
<1>2. /\ lc[l].pc \in {"ready", "group"} /\ lc[l].todo = {} /\ OnStep(l, lc[l])
      /\ At(l, lc[l]).group \in lc[l].failed /\ lc[l].pending = FALSE /\ ~Ending(lc[l])
      /\ InHand(l, lc[l]) = 0 /\ lc[l].reserved \in Nat
  BY LocalView DEF PassOver, GroupCleaned, AtBoundary, GroupFailed, Place, Ending, InHand, Locals
<1>3. \A i \in Made(l) : Unmade(l, i, lc[l].at) =>
         Thing(l, i) \notin Vpcs /\ (i \in Alive(l) => i \in Lost(l))
  BY <1>2, LocalView, PassedOverIsGone
<1>4. \A i \in Made(l) : Unmade(l, i, lc[l].at) =>
        /\ i \in Alive(l) => i \in Lost(l)
        /\ (Thing(l, i) \in Vpcs /\ ~At(l, lc[l]).optional) => Thing(l, i) \notin lc[l].bound
  BY <1>3
<1>5. lc[l] \in Locals /\ Sound(l, lc[l], Alive(l), Lost(l)) /\ lc[l].reserved <= lc[l].reserved
  BY <1>2, LocalView
<1>6. Keeps(l, lc[l], Advance(lc[l]), Alive(l), Lost(l))
  BY <1>2, <1>4, <1>5, AdvancingKeeps
<1>7. QED
  BY <1>1, <1>6, LocalView, SettlesBy

LEMMA Beginning ==
  ASSUME EngineInv, NEW l \in Lifecycles, Begin(l)
  PROVE  Settles(l)
<1> DEFINE r == lc[l]
           s == Step(l)
<1>1. /\ r.pc = "ready" /\ OnStep(l, r) /\ s = At(l, r) /\ s.group \notin r.failed
      /\ r \in Locals /\ Sound(l, r, Alive(l), Lost(l)) /\ Place(l, r)
      /\ Alive(l)' = Alive(l) /\ Lost(l)' = Lost(l)
      /\ lc \in [Lifecycles -> Locals]
  BY LocalView, SameViews DEF Begin, AtBoundary, GroupFailed
<1>2. r.pending = FALSE /\ r.reserved \in Nat
  BY <1>1 DEF Place, Locals
<1>3. CASE IsVpcCreate(s) /\ lc' = [lc EXCEPT ![l] = EnvSkip(l, r, s)]
  <2>1. r.at \in Made(l) /\ Thing(l, r.at) \in Vpcs
    BY <1>1, <1>3 DEF Made, Makes, Thing, OnStep, At, IsVpcCreate
  <2>2. ~s.optional
    BY <1>1, <2>1, VpcCreates DEF At
  <2>3. EnvSkip(l, r, s) = Quit(r, "skipped")
    BY <2>2 DEF EnvSkip
  <2>4. Keeps(l, r, Quit(r, "skipped"), Alive(l)', Lost(l)')
    BY <1>1, QuittingKeeps
  <2>5. QED
    BY <1>1, <1>3, <2>3, <2>4, SettlesBy
<1>4. CASE IsVpcCreate(s) /\ lc' = [lc EXCEPT ![l] = [r EXCEPT !.pc = "acquire", !.reserved = @ + 1]]
  <2> DEFINE q == [r EXCEPT !.pc = "acquire", !.reserved = r.reserved + 1]
  <2>1. lc' = [lc EXCEPT ![l] = q]
    BY <1>1, <1>4 DEF Locals
  <2>a. r.reserved + 1 \in Nat
    BY <1>2
  <2>2. /\ q \in Locals /\ q.pc = "acquire" /\ q.at = r.at /\ q.status = r.status
        /\ q.failed = r.failed /\ q.cleanups = r.cleanups /\ q.todo = r.todo
        /\ q.reserved = r.reserved + 1 /\ q.pending = r.pending /\ q.bound = r.bound
    BY <1>1, <2>a DEF Locals
  <2> HIDE DEF q
  <2>3. Prepares(l, r, Alive(l), Lost(l), q, Alive(l)', Lost(l)')
    BY <1>1, <1>2, <1>4, <2>2 DEF Prepares, OnVpcCreate
  <2>4. Keeps(l, r, q, Alive(l)', Lost(l)')
    BY <1>1, <2>2, <2>3, PreparesSound DEF Keeps
  <2>5. QED
    BY <1>1, <2>1, <2>4, SettlesBy
<1>5. CASE ~IsVpcCreate(s) /\ lc' = [lc EXCEPT ![l] = [r EXCEPT !.pc = "send"]]
  <2> DEFINE q == [r EXCEPT !.pc = "send"]
  <2>1. lc' = [lc EXCEPT ![l] = q]
    BY <1>5
  <2>2. /\ q \in Locals /\ q.pc = "send" /\ q.at = r.at /\ q.status = r.status
        /\ q.failed = r.failed /\ q.cleanups = r.cleanups /\ q.todo = r.todo
        /\ q.reserved = r.reserved /\ q.pending = r.pending /\ q.bound = r.bound
    BY <1>1 DEF Locals
  <2> HIDE DEF q
  <2>3. Prepares(l, r, Alive(l), Lost(l), q, Alive(l)', Lost(l)')
    BY <1>1, <1>2, <1>5, <2>2 DEF Prepares, OnVpcCreate
  <2>4. Keeps(l, r, q, Alive(l)', Lost(l)')
    BY <1>1, <2>2, <2>3, PreparesSound DEF Keeps
  <2>5. QED
    BY <1>1, <2>1, <2>4, SettlesBy
<1>6. QED
  BY <1>3, <1>4, <1>5 DEF Begin, Set

LEMMA Finishing ==
  ASSUME EngineInv, NEW l \in Lifecycles, Finish(l)
  PROVE  Settles(l)
<1> DEFINE r == lc[l]
           q == [r EXCEPT !.pc = "done", !.status = "passed"]
<1>1. /\ r.pc = "ready" /\ ~OnStep(l, r) /\ lc' = [lc EXCEPT ![l] = q]
      /\ r \in Locals /\ Sound(l, r, Alive(l), Lost(l))
      /\ Alive(l)' = Alive(l) /\ Lost(l)' = Lost(l)
      /\ lc \in [Lifecycles -> Locals]
  BY LocalView, SameViews DEF Finish, Set
<1>2. /\ q \in Locals /\ q.pc = "done" /\ q.at = r.at /\ q.status = "passed"
      /\ q.failed = r.failed /\ q.cleanups = r.cleanups /\ q.todo = r.todo
      /\ q.reserved = r.reserved /\ q.pending = r.pending /\ q.bound = r.bound
  BY <1>1 DEF Locals
<1> HIDE DEF q
<1>3. Finishes(l, r, Alive(l), Lost(l), q, Alive(l)', Lost(l)')
  BY <1>1, <1>2 DEF Finishes
<1>4. Keeps(l, r, q, Alive(l)', Lost(l)')
  BY <1>1, <1>2, <1>3, FinishesSound DEF Keeps
<1>5. QED
  BY <1>1, <1>4, SettlesBy

LEMMA TearingDown ==
  ASSUME EngineInv, NEW l \in Lifecycles, TornDown(l)
  PROVE  Settles(l)
<1> DEFINE r == lc[l]
           q == [r EXCEPT !.pc = "done", !.pending = FALSE]
<1>1. /\ r.pc = "teardown" /\ r.todo = {} /\ lc' = [lc EXCEPT ![l] = q]
      /\ r \in Locals /\ Sound(l, r, Alive(l), Lost(l))
      /\ Alive(l)' = Alive(l) /\ Lost(l)' = Lost(l)
      /\ lc \in [Lifecycles -> Locals]
  BY LocalView, SameViews DEF TornDown, Set
<1>2. /\ q \in Locals /\ q.pc = "done" /\ q.at = r.at /\ q.status = r.status
      /\ q.failed = r.failed /\ q.cleanups = r.cleanups /\ q.todo = r.todo
      /\ q.reserved = r.reserved /\ q.pending = FALSE /\ q.bound = r.bound
  BY <1>1 DEF Locals
<1> HIDE DEF q
<1>3. Leaves(l, r, Alive(l), Lost(l), q, Alive(l)', Lost(l)')
  BY <1>1, <1>2 DEF Leaves
<1>4. Keeps(l, r, q, Alive(l)', Lost(l)')
  BY <1>1, <1>2, <1>3, LeavesSound DEF Keeps
<1>5. QED
  BY <1>1, <1>4, SettlesBy

LEMMA TimingOut ==
  ASSUME EngineInv, NEW l \in Lifecycles, AcquireTimeout(l)
  PROVE  Settles(l)
<1>1. /\ lc[l].pc = "acquire" /\ Step(l) = At(l, lc[l])
      /\ lc' = [lc EXCEPT ![l] = Quit(GiveBack(lc[l], Step(l)), "skipped")]
      /\ Alive(l)' = Alive(l) /\ Lost(l)' = Lost(l)
  BY LocalView, SameViews DEF AcquireTimeout, Set
<1>2. Keeps(l, lc[l], Quit(GiveBack(lc[l], At(l, lc[l])), "skipped"), Alive(l), Lost(l))
  BY <1>1, LocalView, QuittingKeeps
<1>3. QED
  BY <1>1, <1>2, LocalView, SettlesBy

\* A slot is taken only while one is free.
LEMMA Acquiring ==
  ASSUME EngineInv, NEW l \in Lifecycles, AcquireSlot(l)
  PROVE  /\ lc' = [lc EXCEPT ![l] = lc'[l]]
         /\ lc'[l] \in Locals /\ Sound(l, lc'[l], Alive(l)', Lost(l)')
         /\ SlotsHeld' <= SemLimit
<1> DEFINE r == lc[l]
           q == [r EXCEPT !.pc = "send", !.pending = TRUE]
<1>1. /\ r.pc = "acquire" /\ lc' = [lc EXCEPT ![l] = q]
      /\ r \in Locals /\ Sound(l, r, Alive(l), Lost(l)) /\ Place(l, r)
      /\ Alive(l)' = Alive(l) /\ Lost(l)' = Lost(l)
      /\ lc \in [Lifecycles -> Locals]
  BY LocalView, SameViews DEF AcquireSlot, Set
<1>2. /\ q \in Locals /\ q.pc = "send" /\ q.at = r.at /\ q.status = r.status
      /\ q.failed = r.failed /\ q.cleanups = r.cleanups /\ q.todo = r.todo
      /\ q.reserved = r.reserved /\ q.pending = TRUE /\ q.bound = r.bound
  BY <1>1 DEF Locals
<1> HIDE DEF q
<1>3. OnStep(l, r) /\ At(l, r).group = NoGroup /\ NoGroup \notin r.failed
  <2>1. OnVpcCreate(l, r) /\ NoGroup \notin r.failed
    BY <1>1 DEF Place
  <2>2. r.at \in Made(l) /\ Thing(l, r.at) \in Vpcs
    BY <2>1 DEF OnVpcCreate, Made, Makes, Thing, OnStep, At, IsVpcCreate
  <2>3. QED
    BY <2>1, <2>2, VpcCreates DEF OnVpcCreate, At
<1>4. Prepares(l, r, Alive(l), Lost(l), q, Alive(l)', Lost(l)')
  BY <1>1, <1>2, <1>3 DEF Prepares
<1>5. Sound(l, q, Alive(l)', Lost(l)')
  BY <1>1, <1>2, <1>4, PreparesSound
<1>6. lc'[l] = q
  BY <1>1
<1>7. HeldBy(lc') <= HeldBy(lc) + 1
  BY <1>1, <1>2, HeldGrows
<1>8. SlotsHeld' = HeldBy(lc') /\ SlotsHeld = HeldBy(lc)
  BY DEF SlotsHeld, HeldBy, PendingOf, BoundOf
<1>9. SlotsHeld < SemLimit /\ SemLimit \in Nat /\ HeldBy(lc) \in Nat /\ HeldBy(lc') \in Nat
  BY LimitsAssumption, HeldFinite DEF AcquireSlot, SemLimit
<1>10. QED
  BY <1>1, <1>2, <1>5, <1>6, <1>7, <1>8, <1>9

LEMMA AfterResponse ==
  ASSUME EngineInv, NEW l \in Lifecycles, lc[l].pc = "send"
  PROVE  /\ lc[l] \in Locals /\ lc \in [Lifecycles -> Locals] /\ lc[l].todo = {}
         /\ OnStep(l, lc[l]) /\ Step(l) = At(l, lc[l]) /\ lc[l].reserved \in Nat
         /\ Sound(l, lc[l], Alive(l), Lost(l)) /\ Place(l, lc[l]) /\ ~Ending(lc[l])
         /\ ~IsVpcCreate(Step(l)) => /\ lc[l].pending = FALSE /\ InHand(l, lc[l]) = 0
         /\ IsVpcCreate(Step(l)) => lc[l].pending
<1>1. /\ lc[l] \in Locals /\ lc \in [Lifecycles -> Locals] /\ Step(l) = At(l, lc[l])
      /\ Sound(l, lc[l], Alive(l), Lost(l)) /\ Place(l, lc[l])
  BY LocalView
<1>2. lc[l].todo = {} /\ OnStep(l, lc[l]) /\ lc[l].reserved \in Nat /\ ~Ending(lc[l])
  BY <1>1 DEF Place, Locals, Ending
<1>3. /\ ~IsVpcCreate(Step(l)) => /\ lc[l].pending = FALSE /\ InHand(l, lc[l]) = 0
      /\ IsVpcCreate(Step(l)) => lc[l].pending
  BY <1>1, <1>2 DEF Place, Locals, InHand, OnVpcCreate
<1>4. QED
  BY <1>1, <1>2, <1>3

LEMMA CreateIsMade ==
  ASSUME EngineInv, NEW l \in Lifecycles, Sent(l, "create")
  PROVE  /\ lc[l].at \in Made(l) /\ Thing(l, lc[l].at) = Step(l).res
         /\ \A i \in Made(l) : i # lc[l].at => Thing(l, i) # Step(l).res
<1>1. OnStep(l, lc[l]) /\ Step(l) = At(l, lc[l]) /\ Step(l).op = "create"
  BY AfterResponse DEF Sent
<1>2. lc[l].at \in Made(l) /\ Thing(l, lc[l].at) = Step(l).res
  BY <1>1 DEF Made, Makes, Thing, OnStep, At
<1>3. QED
  BY <1>2, OneMaker

LEMMA Creating ==
  ASSUME EngineInv, NEW l \in Lifecycles, Created(l)
  PROVE  /\ lc' = [lc EXCEPT ![l] = lc'[l]]
         /\ lc'[l] \in Locals /\ Sound(l, lc'[l], Alive(l)', Lost(l)')
         /\ HeldBy(lc') <= HeldBy(lc)
<1> DEFINE r == lc[l]
           x == Step(l).res
           bnd == IF x \in Vpcs THEN r.bound \cup {x} ELSE r.bound
           q == [Advance(r) EXCEPT !.cleanups = r.cleanups \cup {r.at},
                                   !.pending = FALSE, !.bound = bnd]
<1>1. /\ r.pc = "send" /\ Step(l).op = "create" /\ x \notin live
      /\ live' = live \cup {x} /\ unseen' = unseen /\ refused' = refused
      /\ lc' = [lc EXCEPT ![l] =
           [Advance(lc[l]) EXCEPT
                   !.cleanups = @ \cup {lc[l].at},
                   !.pending = FALSE,
                   !.bound = IF Step(l).res \in Vpcs THEN @ \cup {Step(l).res} ELSE @]]
  BY DEF Created, Creatable, Sent, Set
<1>2. /\ r \in Locals /\ lc \in [Lifecycles -> Locals] /\ OnStep(l, r) /\ Step(l) = At(l, r)
      /\ Sound(l, r, Alive(l), Lost(l)) /\ r.todo = {}
      /\ IsVpcCreate(Step(l)) => r.pending
  BY <1>1, AfterResponse
<1>3. /\ r.at \in Made(l) /\ Thing(l, r.at) = x
      /\ \A i \in Made(l) : i # r.at => Thing(l, i) # x
  BY <1>1, CreateIsMade DEF Sent
<1>4. lc' = [lc EXCEPT ![l] = q]
  BY <1>1, <1>2, AdvanceFields
<1>5. /\ q \in Locals /\ q.pc = "ready" /\ q.at = r.at + 1 /\ q.status = r.status
      /\ q.failed = r.failed /\ q.cleanups = r.cleanups \cup {r.at} /\ q.todo = r.todo
      /\ q.reserved = r.reserved /\ q.pending = FALSE /\ q.bound = bnd
  <2>1. bnd \subseteq Vpcs /\ r.cleanups \cup {r.at} \subseteq Nat
    BY <1>2 DEF Locals
  <2>2. /\ Advance(r) \in Locals
        /\ Advance(r).pc = "ready" /\ Advance(r).at = r.at + 1
        /\ Advance(r).status = r.status /\ Advance(r).failed = r.failed
        /\ Advance(r).todo = r.todo /\ Advance(r).reserved = r.reserved
    BY <1>2, AdvanceFields
  <2> HIDE DEF bnd
  <2>3. QED
    BY <2>1, <2>2 DEF Locals
<1> HIDE DEF q
<1>6. \A i \in Made(l) :
        (i # r.at /\ i \in Alive(l)' /\ i \notin Lost(l)') => (i \in Alive(l) /\ i \notin Lost(l))
  BY <1>1, <1>3 DEF Alive, Lost, Left
<1>7. Creates(l, r, Alive(l), Lost(l), q, Alive(l)', Lost(l)')
  BY <1>1, <1>2, <1>5, <1>6 DEF Creates
<1>8. Sound(l, q, Alive(l)', Lost(l)')
  BY <1>2, <1>5, <1>7, CreatesSound
<1>9. HeldBy([lc EXCEPT ![l] = q]) <= HeldBy(lc)
  <2>1. CASE x \in Vpcs
    <3>1. r.pending
      BY <1>1, <1>2, <2>1 DEF IsVpcCreate
    <3>2. q.bound \subseteq r.bound \cup {x} /\ ~q.pending
      BY <1>5
    <3>3. QED
      BY <1>2, <1>5, <3>1, <3>2, HeldIsBound
  <2>2. CASE x \notin Vpcs
    <3>1. q.bound = r.bound /\ ~q.pending
      BY <1>5, <2>2
    <3>2. QED
      BY <1>2, <1>5, <3>1, HeldShrinks
  <2>3. QED
    BY <2>1, <2>2
<1>10. lc'[l] = q
  BY <1>2, <1>4
<1>11. QED
  BY <1>4, <1>5, <1>8, <1>9, <1>10

LEMMA CreatingUnseen ==
  ASSUME EngineInv, NEW l \in Lifecycles, CreatedUnseen(l)
  PROVE  Settles(l)
<1> DEFINE r == lc[l]
           s == Step(l)
<1>1. /\ r.pc = "send" /\ s.op = "create"
      /\ live' = live \cup {s.res} /\ unseen' = unseen \cup {s.res} /\ refused' = refused
      /\ \/ lc' = [lc EXCEPT ![l] = Quit([r EXCEPT !.pending = FALSE], "failed")]
         \/ /\ s.optional
            /\ lc' = [lc EXCEPT ![l] = SkipGroup(l, GiveBack(r, s), s.group)]
  BY DEF CreatedUnseen, Sent, Set
<1>2. /\ lc \in [Lifecycles -> Locals] /\ s = At(l, r) /\ Sound(l, r, Alive(l), Lost(l))
  BY <1>1, AfterResponse
<1>3. \A i \in Made(l) :
        (i \in Alive(l)' /\ i \notin Lost(l)') => (i \in Alive(l) /\ i \notin Lost(l))
  BY <1>1 DEF Alive, Lost, Left
<1>4. Keeps(l, r, Quit(Held(r), "failed"), Alive(l)', Lost(l)')
  BY <1>1, <1>2, <1>3, QuittingKeeps
<1>5. s.optional => Keeps(l, r, SkipGroup(l, GiveBack(r, s), s.group), Alive(l)', Lost(l)')
  <2>1. \A i \in Made(l) : ~Unmade(l, i, r.at)
    BY <1>1, <1>2 DEF Unmade, At
  <2>2. QED
    BY <1>1, <1>2, <1>3, <2>1, SkippingKeeps
<1>6. QED
  BY <1>1, <1>2, <1>4, <1>5, SettlesBy DEF Held

\* Not as expected: an optional DELETE in no group leaves its resource to nobody.
LEMMA Refusing ==
  ASSUME EngineInv, NEW l \in Lifecycles, EnvLimit(l) \/ Rejected(l)
  PROVE  Settles(l)
<1> DEFINE r == lc[l]
           s == Step(l)
<1>1. /\ r.pc = "send" /\ live' = live /\ unseen' = unseen /\ refused \subseteq refused'
      /\ \/ /\ refused' = refused \cup LeftInPlace(s)
            /\ \/ lc' = [lc EXCEPT ![l] = EnvSkip(l, GiveBack(r, s), s)]
               \/ /\ s.optional
                  /\ lc' = [lc EXCEPT ![l] = SkipGroup(l, GiveBack(r, s), s.group)]
         \/ lc' = [lc EXCEPT ![l] = Quit([r EXCEPT !.pending = FALSE], "failed")]
  BY DEF EnvLimit, Rejected, Set
<1>2. /\ lc \in [Lifecycles -> Locals] /\ s = At(l, r) /\ Sound(l, r, Alive(l), Lost(l))
  BY <1>1, AfterResponse
<1>3. \A i \in Made(l) :
        (i \in Alive(l)' /\ i \notin Lost(l)') => (i \in Alive(l) /\ i \notin Lost(l))
  BY <1>1 DEF Alive, Lost, Left
<1>4. Keeps(l, r, Quit(Held(r), "failed"), Alive(l)', Lost(l)')
  BY <1>1, <1>2, <1>3, QuittingKeeps
<1>5. Keeps(l, r, Quit(GiveBack(r, s), "skipped"), Alive(l)', Lost(l)')
  BY <1>1, <1>2, <1>3, QuittingKeeps
<1>6. s.optional /\ refused' = refused \cup LeftInPlace(s) =>
        Keeps(l, r, SkipGroup(l, GiveBack(r, s), s.group), Alive(l)', Lost(l)')
  <2>1. SUFFICES ASSUME s.optional, refused' = refused \cup LeftInPlace(s)
                 PROVE Keeps(l, r, SkipGroup(l, GiveBack(r, s), s.group), Alive(l)', Lost(l)')
    OBVIOUS
  <2>2. ASSUME NEW i \in Made(l), s.group = NoGroup, Unmade(l, i, r.at), i \in Alive(l)'
        PROVE  i \in Lost(l)'
    <3>1. s.op = "delete" /\ s.res = Thing(l, i) /\ Thing(l, i) \in live
      BY <1>1, <1>2, <2>2 DEF Unmade, At, Thing, Alive
    <3>2. Thing(l, i) \in refused'
      BY <1>1, <2>1, <2>2, <3>1 DEF LeftInPlace
    <3>3. QED
      BY <3>2 DEF Lost, Left
  <2>3. QED
    BY <1>1, <1>2, <1>3, <2>1, <2>2, SkippingKeeps
<1>7. /\ s.optional => EnvSkip(l, GiveBack(r, s), s) = SkipGroup(l, GiveBack(r, s), s.group)
      /\ ~s.optional => EnvSkip(l, GiveBack(r, s), s) = Quit(GiveBack(r, s), "skipped")
  BY DEF EnvSkip
<1>8. QED
  BY <1>1, <1>2, <1>4, <1>5, <1>6, <1>7, SettlesBy DEF Held

LEMMA GoingOn ==
  ASSUME EngineInv, NEW l \in Lifecycles, NotMade(l) \/ Checked(l)
  PROVE  Settles(l)
<1> DEFINE r == lc[l]
<1>1. /\ r.pc = "send" /\ Step(l).op \in {"create", "check"}
      /\ Step(l).op = "create" => Step(l).tolerant
      /\ Alive(l)' = Alive(l) /\ Lost(l)' = Lost(l)
      /\ \/ lc' = [lc EXCEPT ![l] = Advance(r)] /\ Step(l).op = "check"
         \/ lc' = [lc EXCEPT ![l] = Advance(Held(r))]
  BY SameViews DEF NotMade, Checked, Sent, Set, Held
<1>2. /\ r \in Locals /\ lc \in [Lifecycles -> Locals] /\ Step(l) = At(l, r)
      /\ Sound(l, r, Alive(l), Lost(l)) /\ OnStep(l, r) /\ r.todo = {} /\ r.reserved \in Nat
  BY <1>1, AfterResponse
<1>3. ~IsVpcCreate(Step(l))
  <2>1. SUFFICES ASSUME IsVpcCreate(Step(l)) PROVE FALSE
    OBVIOUS
  <2>2. r.at \in Made(l) /\ Thing(l, r.at) \in Vpcs
    BY <1>2, <2>1 DEF Made, Makes, Thing, OnStep, At, IsVpcCreate
  <2>3. QED
    BY <1>1, <1>2, <2>1, <2>2, VpcCreates DEF IsVpcCreate, At
<1>4. r.pending = FALSE /\ InHand(l, r) = 0
  BY <1>1, <1>3, AfterResponse
<1>5. \A i \in Made(l) : ~Unmade(l, i, r.at)
  BY <1>1, <1>2 DEF Unmade, At
<1>6. \A i \in Made(l) :
        (i \in Alive(l)' /\ i \notin Lost(l)') => (i \in Alive(l) /\ i \notin Lost(l))
  BY <1>1
<1>7. Keeps(l, r, Advance(r), Alive(l)', Lost(l)')
  <2>1. r.reserved <= r.reserved /\ r.pc \in {"ready", "send", "group"}
    BY <1>1, <1>2
  <2>2. QED
    BY <1>2, <1>4, <1>5, <1>6, <2>1, AdvancingKeeps
<1>8. Keeps(l, r, Advance(Held(r)), Alive(l)', Lost(l)')
  <2> DEFINE g == Held(r)
  <2>1. /\ g \in Locals /\ g.at = r.at /\ g.status = r.status /\ g.failed = r.failed
        /\ g.cleanups = r.cleanups /\ g.todo = r.todo /\ g.pending = FALSE
        /\ g.reserved = r.reserved /\ g.bound = r.bound
    BY <1>2, HeldFields
  <2> HIDE DEF g
  <2>2. g.reserved <= r.reserved /\ r.pc \in {"ready", "send", "group"}
    BY <1>1, <1>2, <2>1
  <2>3. Keeps(l, r, Advance(g), Alive(l)', Lost(l)')
    BY <1>2, <1>4, <1>5, <1>6, <2>1, <2>2, AdvancingKeeps
  <2>4. QED
    BY <2>3 DEF g
<1>9. QED
  BY <1>1, <1>2, <1>7, <1>8, SettlesBy

\* After a call on a VPC's own path, its slot is free and the step has addressed it.
LEMMA CallingPath ==
  ASSUME EngineInv, NEW l \in Lifecycles, Touched(l) \/ Deleted(l)
  PROVE  Settles(l)
<1> DEFINE r == lc[l]
           x == Step(l).res
           g == PathReleases(l, x)
<1>1. /\ r.pc = "send" /\ Step(l).op \in {"touch", "delete"}
      /\ unseen' = unseen /\ refused \subseteq refused' /\ live' \subseteq live
      /\ Step(l).op = "delete" => (x \notin live' \/ x \in refused')
      /\ lc' = [lc EXCEPT ![l] = Advance(g)]
  BY DEF Touched, Deleted, Sent, Set
<1>2. /\ r \in Locals /\ lc \in [Lifecycles -> Locals] /\ Step(l) = At(l, r)
      /\ Sound(l, r, Alive(l), Lost(l)) /\ OnStep(l, r) /\ r.todo = {}
  BY <1>1, AfterResponse
<1>3. ~IsVpcCreate(Step(l))
  BY <1>1 DEF IsVpcCreate
<1>4. r.pending = FALSE /\ InHand(l, r) = 0
  BY <1>1, <1>3, AfterResponse
<1>5. /\ g \in Locals /\ g.at = r.at /\ g.status = r.status /\ g.failed = r.failed
      /\ g.cleanups = r.cleanups /\ g.todo = r.todo /\ g.pending = r.pending
      /\ g.reserved <= r.reserved /\ g.bound = r.bound \ {x}
  BY <1>2, PathReleasesFields
<1> HIDE DEF g
<1>6. \A i \in Made(l) :
        (i \in Alive(l)' /\ i \notin Lost(l)') => (i \in Alive(l) /\ i \notin Lost(l))
  BY <1>1 DEF Alive, Lost, Left
<1>7. ASSUME NEW i \in Made(l), Unmade(l, i, r.at)
      PROVE  /\ i \in Alive(l)' => i \in Lost(l)'
             /\ Thing(l, i) \notin g.bound
  <2>1. Step(l).op = "delete" /\ Thing(l, i) = x
    BY <1>2, <1>7 DEF Unmade, At, Thing
  <2>2. QED
    BY <1>1, <1>5, <2>1 DEF Alive, Lost, Left
<1>8. Keeps(l, r, Advance(g), Alive(l)', Lost(l)')
  BY <1>1, <1>2, <1>4, <1>5, <1>6, <1>7, AdvancingKeeps
<1>9. QED
  BY <1>1, <1>2, <1>8, SettlesBy

\* A VPC that cannot be deleted yet has one of the lifecycle's own things inside.
LEMMA InUseByOwn ==
  ASSUME EngineInv, NEW l \in Lifecycles, NEW i \in Made(l), ~Deletable(Thing(l, i))
  PROVE  \E j \in Made(l) : j \in Alive(l) /\ Inside(l, j, i)
<1>1. PICK c \in live \cap Children : InVpc[c] = Thing(l, i)
  BY DEF Deletable
<1>2. PICK k \in Lifecycles : \E j \in Made(k) : Thing(k, j) = c
  BY <1>1 DEF EngineInv, Shared, Things
<1>3. PICK j \in Made(k) : Thing(k, j) = c
  BY <1>2
<1>4. PICK m \in Made(k) : m < j /\ Inside(k, j, m)
  BY <1>1, <1>3, InsideIsLater
<1>5. k = l
  BY <1>1, <1>3, <1>4, OneMaker DEF Inside
<1>6. QED
  BY <1>1, <1>3, <1>5 DEF Alive, Inside

LEMMA CleaningUp ==
  ASSUME EngineInv, NEW l \in Lifecycles, CleanupOne(l)
  PROVE  Settles(l)
<1> DEFINE r == lc[l]
<1>1. PICK i \in NextUp(r.todo) :
        LET x == Program[l][i].res
        IN  /\ r.pc \in {"teardown", "group"}
            /\ lc' = [lc EXCEPT ![l] = [r EXCEPT
                   !.todo = @ \ {i},
                   !.bound = @ \ {x},
                   !.reserved = IF x \in Vpcs THEN Minus1(@) ELSE @]]
            /\ unseen' = unseen
            /\ \/ live' = live \ {x} /\ refused' = refused
               \/ x \in live /\ ~Deletable(x) /\ live' = live /\ refused' = refused
               \/ refused' = refused \cup {x} /\ live' = live
  BY DEF CleanupOne, Set
<1> DEFINE x == Thing(l, i)
           n == IF x \in Vpcs THEN Minus1(r.reserved) ELSE r.reserved
           q == [r EXCEPT !.todo = r.todo \ {i}, !.bound = r.bound \ {x}, !.reserved = n]
<1>2. /\ r \in Locals /\ lc \in [Lifecycles -> Locals] /\ Place(l, r)
      /\ Sound(l, r, Alive(l), Lost(l))
  BY LocalView
<1>3. i \in r.todo /\ i \in Made(l)
  BY <1>2, MadeFacts DEF NextUp, Place
<1>4. lc' = [lc EXCEPT ![l] = q]
  BY <1>1, <1>2 DEF Thing, Locals
<1>5. /\ q \in Locals /\ q.pc = r.pc /\ q.at = r.at /\ q.status = r.status
      /\ q.failed = r.failed /\ q.cleanups = r.cleanups /\ q.todo = r.todo \ {i}
      /\ q.reserved = n /\ q.pending = r.pending /\ q.bound = r.bound \ {x}
  <2>1. n \in Nat
    BY <1>2, Minus1Bounds DEF Locals
  <2> HIDE DEF n
  <2>2. QED
    BY <1>2, <2>1 DEF Locals
<1> HIDE DEF q
<1>6. \A j \in Made(l) : j # i => (j \in Alive(l)' <=> j \in Alive(l))
                               /\ (j \in Lost(l)' <=> j \in Lost(l))
  <2>1. \A j \in Made(l) : j # i => Thing(l, j) # x
    BY <1>3, OneMaker
  <2>2. QED
    BY <1>1, <2>1 DEF Alive, Lost, Left, Thing
<1>7. ASSUME i \in Alive(l)', i \notin Lost(l)'
      PROVE  i \in Alive(l) /\ i \notin Lost(l) /\ InUse(l, Alive(l), i)
  <2>1. x \in live' /\ x \notin unseen' /\ x \notin refused'
    BY <1>3, <1>7 DEF Alive, Lost, Left
  <2>2. x \in live /\ ~Deletable(x) /\ live' = live /\ refused' = refused
    BY <1>1, <2>1 DEF Thing
  <2>3. i \in Alive(l) /\ i \notin Lost(l)
    BY <1>1, <1>3, <2>1, <2>2 DEF Alive, Lost, Left
  <2>4. QED
    BY <1>3, <2>2, <2>3, InUseByOwn DEF InUse
<1>8. Cleans(l, r, Alive(l), Lost(l), q, Alive(l)', Lost(l)', i)
  <2>1. r.pc \in {"teardown", "group"} /\ i \in NextUp(r.todo)
    BY <1>1
  <2>2. /\ q.pc = r.pc /\ q.at = r.at /\ q.status = r.status /\ q.failed = r.failed
        /\ q.cleanups = r.cleanups /\ q.todo = r.todo \ {i} /\ q.pending = r.pending
        /\ q.reserved = IF Thing(l, i) \in Vpcs THEN Minus1(r.reserved) ELSE r.reserved
        /\ q.bound = r.bound \ {Thing(l, i)}
    BY <1>5
  <2>3. (i \in Alive(l)' /\ i \notin Lost(l)') =>
           i \in Alive(l) /\ i \notin Lost(l) /\ InUse(l, Alive(l), i)
    BY <1>7
  <2>4. QED
    BY <2>1, <2>2, <2>3, <1>6 DEF Cleans
<1>9. Keeps(l, r, q, Alive(l)', Lost(l)')
  BY <1>2, <1>5, <1>8, CleansSound DEF Keeps
<1>10. QED
  BY <1>2, <1>4, <1>9, SettlesBy

-----------------------------------------------------------------------------
(* What an action does to the rest *)

Acts(l) == Proceed(l) \/ AcquireTimeout(l)
Own(l) == {Thing(l, i) : i \in Made(l)}

\* What a lifecycle does settles, but for the two steps that take a slot or hand it on.
LEMMA ActsAre ==
  ASSUME EngineInv, NEW l \in Lifecycles, Acts(l)
  PROVE  AcquireSlot(l) \/ Created(l) \/ Settles(l)
<1>1. CASE Stopped(l) \/ Withheld(l)
  BY <1>1, QuitAtBoundary
<1>2. CASE PassOver(l) \/ GroupCleaned(l)
  BY <1>2, PassingOver
<1>3. CASE Begin(l)
  BY <1>3, Beginning
<1>4. CASE Finish(l)
  BY <1>4, Finishing
<1>5. CASE TornDown(l)
  BY <1>5, TearingDown
<1>6. CASE AcquireTimeout(l)
  BY <1>6, TimingOut
<1>7. CASE CreatedUnseen(l)
  BY <1>7, CreatingUnseen
<1>8. CASE EnvLimit(l) \/ Rejected(l)
  BY <1>8, Refusing
<1>9. CASE NotMade(l) \/ Checked(l)
  BY <1>9, GoingOn
<1>10. CASE Touched(l) \/ Deleted(l)
  BY <1>10, CallingPath
<1>11. CASE CleanupOne(l)
  BY <1>11, CleaningUp
<1>12. QED
  BY <1>1, <1>2, <1>3, <1>4, <1>5, <1>6, <1>7, <1>8, <1>9, <1>10, <1>11 DEF Acts, Proceed

LEMMA ActsSettle ==
  ASSUME EngineInv, NEW l \in Lifecycles, Acts(l)
  PROVE  /\ lc' = [lc EXCEPT ![l] = lc'[l]]
         /\ lc'[l] \in Locals /\ Sound(l, lc'[l], Alive(l)', Lost(l)')
         /\ SlotsHeld' <= SemLimit
<1>1. CASE AcquireSlot(l)
  BY <1>1, Acquiring
<1>2. ASSUME lc' = [lc EXCEPT ![l] = lc'[l]], HeldBy(lc') <= HeldBy(lc)
      PROVE  SlotsHeld' <= SemLimit
  <2>1. SlotsHeld' = HeldBy(lc') /\ SlotsHeld = HeldBy(lc)
    BY DEF SlotsHeld, HeldBy, PendingOf, BoundOf
  <2>2. SlotsHeld <= SemLimit /\ SemLimit \in Nat
    BY LimitsAssumption DEF EngineInv, Shared, SemLimit
  <2>3. HeldBy(lc) \in Nat /\ HeldBy(lc') \in Nat
    BY HeldFinite
  <2>4. QED
    BY <1>2, <2>1, <2>2, <2>3
<1>3. CASE Created(l)
  BY <1>2, <1>3, Creating
<1>4. CASE Settles(l)
  <2>1. /\ lc' = [lc EXCEPT ![l] = lc'[l]] /\ lc'[l] \in Locals
        /\ Sound(l, lc'[l], Alive(l)', Lost(l)')
        /\ lc'[l].pending => lc[l].pending
        /\ lc'[l].bound \subseteq lc[l].bound
    BY <1>4 DEF Settles, Keeps
  <2>2. HeldBy([lc EXCEPT ![l] = lc'[l]]) <= HeldBy(lc)
    BY <2>1, LocalView, HeldShrinks
  <2>3. QED
    BY <1>2, <2>1, <2>2
<1>5. QED
  BY <1>1, <1>3, <1>4, ActsAre

\* The budget never leaves 0..Cap.
LEMMA BudgetKept ==
  ASSUME EngineInv, NEW l \in Lifecycles
  PROVE  /\ Begin(l) => used' \in [Budgets -> 0..Cap]
         /\ \A s : BudgetBack(l, s) \in [Budgets -> 0..Cap]
         /\ \A x : PathBudget(l, x) \in [Budgets -> 0..Cap]
         /\ [used EXCEPT ![BudgetOf[l]] = Minus1(@)] \in [Budgets -> 0..Cap]
<1>1. used \in [Budgets -> 0..Cap] /\ BudgetOf[l] \in Budgets /\ Cap \in Nat
  BY LimitsAssumption DEF EngineInv, Shared, Budgets
<1>2. used[BudgetOf[l]] \in 0..Cap
  BY <1>1
<1>3. Minus1(used[BudgetOf[l]]) \in 0..Cap
  BY <1>1, <1>2 DEF Minus1
<1>4. [used EXCEPT ![BudgetOf[l]] = Minus1(@)] \in [Budgets -> 0..Cap]
  BY <1>1, <1>3
<1>5. Begin(l) => used' \in [Budgets -> 0..Cap]
  <2>1. used[BudgetOf[l]] < Cap => used[BudgetOf[l]] + 1 \in 0..Cap
    BY <1>1, <1>2
  <2>2. used[BudgetOf[l]] < Cap => [used EXCEPT ![BudgetOf[l]] = @ + 1] \in [Budgets -> 0..Cap]
    BY <1>1, <2>1
  <2>3. QED
    BY <1>1, <2>2 DEF Begin
<1>6. QED
  BY <1>1, <1>4, <1>5 DEF BudgetBack, PathBudget

Budgeting(l) ==
  /\ used' \in [Budgets -> 0..Cap] /\ destructive' = destructive /\ stop' = stop

LEMMA ActsBudget ==
  ASSUME EngineInv, NEW l \in Lifecycles, Acts(l)
  PROVE  Budgeting(l)
<1>1. used \in [Budgets -> 0..Cap]
  BY DEF EngineInv, Shared
<1>2. CASE Stopped(l) \/ Withheld(l) \/ PassOver(l) \/ GroupCleaned(l) \/ Finish(l) \/ TornDown(l)
             \/ AcquireSlot(l) \/ Created(l) \/ NotMade(l) \/ Checked(l)
  BY <1>1, <1>2 DEF Budgeting, Stopped, Withheld, PassOver, GroupCleaned, Finish, TornDown,
     AcquireSlot, Created, NotMade, Checked
<1>3. CASE Begin(l)
  BY <1>3, BudgetKept DEF Budgeting, Begin
<1>4. CASE AcquireTimeout(l) \/ EnvLimit(l) \/ Rejected(l) \/ CreatedUnseen(l)
  BY <1>1, <1>4, BudgetKept DEF Budgeting, AcquireTimeout, EnvLimit, Rejected, CreatedUnseen
<1>5. CASE Touched(l) \/ Deleted(l)
  BY <1>5, BudgetKept DEF Budgeting, Touched, Deleted
<1>6. CASE CleanupOne(l)
  BY <1>1, <1>6, BudgetKept DEF Budgeting, CleanupOne
<1>7. QED
  BY <1>2, <1>3, <1>4, <1>5, <1>6 DEF Acts, Proceed

\* What is made, deleted, lost or refused is the lifecycle's own, and what is made is
\* tracked unless nobody saw it.
Effects(l) ==
  /\ live' \subseteq live \cup Own(l) /\ live \subseteq live' \cup Own(l)
  /\ unseen \subseteq unseen' /\ unseen' \subseteq unseen \cup Own(l)
  /\ refused \subseteq refused' /\ refused' \subseteq refused \cup Own(l)
  /\ tracked \subseteq tracked' /\ tracked' \subseteq tracked \cup Own(l)
  /\ live' \subseteq live \cup unseen' \cup tracked'

LEMMA ActsEffects ==
  ASSUME EngineInv, NEW l \in Lifecycles, Acts(l)
  PROVE  Effects(l)
<1>1. CASE Stopped(l) \/ Withheld(l) \/ PassOver(l) \/ GroupCleaned(l) \/ Finish(l) \/ TornDown(l)
             \/ AcquireSlot(l) \/ NotMade(l) \/ Checked(l) \/ Begin(l) \/ AcquireTimeout(l)
             \/ Touched(l)
  BY <1>1 DEF Effects, Stopped, Withheld, PassOver, GroupCleaned, Finish, TornDown,
     AcquireSlot, NotMade, Checked, Begin, AcquireTimeout, Touched
<1>2. (lc[l].pc = "send" /\ Step(l).op # "check") => Step(l).res \in Own(l)
  <2>1. SUFFICES ASSUME lc[l].pc = "send", Step(l).op # "check"
                 PROVE  Step(l).res \in Own(l)
    OBVIOUS
  <2>2. OnStep(l, lc[l]) /\ Step(l) = At(l, lc[l])
    BY <2>1, AfterResponse
  <2>3. \E j \in Made(l) : Thing(l, j) = Step(l).res
    BY <2>1, <2>2, OwnSteps DEF OnStep, At
  <2>4. QED
    BY <2>3 DEF Own
<1>3. CASE Created(l) \/ CreatedUnseen(l)
  BY <1>2, <1>3 DEF Effects, Created, CreatedUnseen, Sent
<1>4. CASE EnvLimit(l) \/ Rejected(l)
  <2>1. LeftInPlace(Step(l)) \subseteq Own(l)
    BY <1>2, <1>4 DEF LeftInPlace, EnvLimit, Rejected
  <2>2. QED
    BY <1>4, <2>1 DEF Effects, EnvLimit, Rejected
<1>5. CASE Deleted(l)
  BY <1>2, <1>5 DEF Effects, Deleted, Sent
<1>6. CASE CleanupOne(l)
  <2>1. \A i \in NextUp(lc[l].todo) : Program[l][i].res \in Own(l)
    BY LocalView, MadeFacts DEF NextUp, Place, Own, Thing
  <2>2. QED
    BY <1>6, <2>1 DEF Effects, CleanupOne
<1>7. QED
  BY <1>1, <1>3, <1>4, <1>5, <1>6 DEF Acts, Proceed

LEMMA OthersUntouched ==
  ASSUME EngineInv, NEW l \in Lifecycles, Effects(l), NEW k \in Lifecycles, k # l
  PROVE  Alive(k)' = Alive(k) /\ Lost(k)' = Lost(k)
<1>1. \A i \in Made(k) : Thing(k, i) \notin Own(l)
  BY OneMaker DEF Own
<1>2. QED
  BY <1>1 DEF Effects, Alive, Lost, Left

-----------------------------------------------------------------------------
(* The invariant is inductive *)

LEMMA EngineStarts == Init => EngineInv
<1> SUFFICES ASSUME Init PROVE EngineInv
  OBVIOUS
<1> DEFINE r0 == [pc |-> "ready", at |-> 1, status |-> "running", failed |-> {},
                  cleanups |-> {}, todo |-> {}, reserved |-> 0,
                  pending |-> FALSE, bound |-> {}]
<1>1. r0 \in Locals
  BY DEF Locals
<1>2. lc = [l \in Lifecycles |-> r0] /\ lc \in [Lifecycles -> Locals]
  BY <1>1 DEF Init
<1>3. ASSUME NEW l \in Lifecycles
      PROVE  Sound(l, lc[l], Alive(l), Lost(l))
  <2>1. /\ lc[l] \in Locals /\ lc[l].pc = "ready" /\ lc[l].at = 1
        /\ lc[l].status = "running" /\ lc[l].failed = {} /\ lc[l].cleanups = {}
        /\ lc[l].todo = {} /\ lc[l].reserved = 0 /\ lc[l].pending = FALSE
        /\ lc[l].bound = {} /\ Alive(l) = {}
    BY <1>1, <1>2 DEF Init, Alive
  <2>2. Place(l, lc[l])
    <3>1. 1 \in 1 .. (Len(Program[l]) + 1)
      BY ProgramFacts
    <3>2. QED
      BY <2>1, <3>1 DEF Place
  <2>3. Kept(l, lc[l], Alive(l), Lost(l)) /\ Bound(l, lc[l], Alive(l), Lost(l))
    BY <2>1 DEF Kept, Bound
  <2>4. Passed(l, lc[l], Alive(l), Lost(l))
    BY <2>1, ProgramFacts DEF Passed
  <2>5. Budgeted(l, lc[l])
    BY <2>1, <2>2, EntriesFinite DEF Budgeted, InHand
  <2>6. QED
    BY <2>1, <2>2, <2>3, <2>4, <2>5 DEF Sound
<1>4. SlotsHeld <= SemLimit
  <2>1. PendingOf(lc) = {} /\ BoundOf(lc) = {}
    BY <1>2 DEF PendingOf, BoundOf
  <2>2. SlotsHeld = Cardinality(PendingOf(lc)) + Cardinality(BoundOf(lc))
    BY DEF SlotsHeld, PendingOf, BoundOf
  <2>3. SlotsHeld = 0
    BY <2>1, <2>2, FS_EmptySet
  <2>4. QED
    BY <2>3, LimitsAssumption DEF SemLimit
<1>5. Shared
  BY <1>4 DEF Init, Shared
<1>6. QED
  BY <1>2, <1>3, <1>5 DEF EngineInv

LEMMA ActsKeepInvariant ==
  ASSUME EngineInv, NEW l \in Lifecycles, Acts(l)
  PROVE  EngineInv'
<1>1. /\ lc' = [lc EXCEPT ![l] = lc'[l]]
      /\ lc'[l] \in Locals /\ Sound(l, lc'[l], Alive(l)', Lost(l)')
      /\ SlotsHeld' <= SemLimit
  BY ActsSettle
<1>2. Budgeting(l) /\ Effects(l)
  BY ActsBudget, ActsEffects
<1>3. lc' \in [Lifecycles -> Locals]
  BY <1>1 DEF EngineInv
<1>4. ASSUME NEW k \in Lifecycles
      PROVE  Sound(k, lc'[k], Alive(k)', Lost(k)')
  <2>1. CASE k = l
    BY <1>1, <2>1
  <2>2. CASE k # l
    BY <1>1, <1>2, <2>2, OthersUntouched DEF EngineInv
  <2>3. QED
    BY <2>1, <2>2
<1>5. Own(l) \subseteq Things /\ Things \subseteq Resources
  BY MadeFacts DEF Own, Things
<1>6. Shared'
  BY <1>1, <1>2, <1>5 DEF EngineInv, Shared, Budgeting, Effects
<1>7. QED
  BY <1>3, <1>4, <1>6 DEF EngineInv

LEMMA EngineStays == EngineInv /\ [Next]_vars => EngineInv'
<1> SUFFICES ASSUME EngineInv, [Next]_vars PROVE EngineInv'
  OBVIOUS
<1>1. ASSUME NEW l \in Lifecycles, Acts(l) PROVE EngineInv'
  BY <1>1, ActsKeepInvariant
<1>2. CASE Command \/ UNCHANGED vars
  <2>1. /\ lc' = lc /\ used' = used /\ live' = live /\ tracked' = tracked
        /\ destructive' = destructive /\ unseen' = unseen /\ refused' = refused
        /\ stop' \subseteq Lifecycles
    BY <1>2 DEF Command, vars, EngineInv, Shared
  <2>2. \A l \in Lifecycles : Alive(l)' = Alive(l) /\ Lost(l)' = Lost(l)
    BY <2>1, SameViews
  <2>3. \A l \in Lifecycles : Sound(l, lc'[l], Alive(l)', Lost(l)')
    BY <2>1, <2>2 DEF EngineInv
  <2>4. Shared'
    BY <2>1 DEF EngineInv, Shared, SlotsHeld
  <2>5. QED
    BY <2>1, <2>3, <2>4 DEF EngineInv
<1>3. QED
  BY <1>1, <1>2 DEF Next, Acts

THEOREM EngineInduction == Spec => []EngineInv
BY EngineStarts, EngineStays, PTL DEF Spec

-----------------------------------------------------------------------------
(* What it says of the properties *)

\* The local state, the budgets and what is known of the resources have their types, and
\* no count leaves its range: no budget goes below zero or above the cap.
THEOREM EngineTypesHold == Spec => []TypeOK
<1>1. EngineInv => TypeOK
  <2> SUFFICES ASSUME EngineInv PROVE TypeOK
    OBVIOUS
  <2>1. ASSUME NEW l \in Lifecycles
        PROVE  LET r == lc[l]
               IN  /\ r.pc \in {"ready", "acquire", "send", "group", "teardown", "done"}
                   /\ r.at \in 1..(Len(Program[l]) + 1)
                   /\ r.status \in {"running", "passed", "skipped", "failed"}
                   /\ r.failed \subseteq Groups
                   /\ \A i \in r.cleanups \cup r.todo : Makes(l, i) /\ i < r.at
                   /\ r.reserved \in Nat /\ r.pending \in BOOLEAN /\ r.bound \subseteq Vpcs
    BY LocalView DEF Locals, Place
  <2>2. Things \subseteq Resources
    BY MadeFacts DEF Things
  <2>3. QED
    BY <2>1, <2>2 DEF EngineInv, Shared, TypeOK
<1>2. QED
  BY <1>1, EngineInduction, PTL

LEMMA CreatorIs ==
  ASSUME NEW l \in Lifecycles, NEW i \in Made(l)
  PROVE  Creator(Thing(l, i)) = l
<1> DEFINE P(k) == \E s \in Range(Program[k]) : s.op = "create" /\ s.res = Thing(l, i)
<1>1. P(l)
  BY DEF Made, Makes, Thing, Range
<1>2. Creator(Thing(l, i)) \in Lifecycles /\ P(Creator(Thing(l, i)))
  BY <1>1 DEF Creator
<1>3. \A k \in Lifecycles : P(k) => k = l
  <2>1. SUFFICES ASSUME NEW k \in Lifecycles, P(k) PROVE k = l
    OBVIOUS
  <2>2. PICK j \in DOMAIN Program[k] : Program[k][j].op = "create" /\ Program[k][j].res = Thing(l, i)
    BY <2>1 DEF Range
  <2>3. j \in Made(k) /\ Thing(k, j) = Thing(l, i)
    BY <2>2 DEF Made, Makes, Thing
  <2>4. QED
    BY <2>3, OneMaker
<1>4. QED
  BY <1>2, <1>3

\* Blocked is what makes a VPC Stuck.
LEMMA BlockedIsStuck ==
  ASSUME NEW l \in Lifecycles, NEW i, Blocked(l, lc[l], Alive(l), Lost(l), i)
  PROVE  Stuck(Thing(l, i))
BY DEF Blocked, Inside, Alive, Lost, Stuck

LEMMA LiveIsSomebodys ==
  ASSUME EngineInv, NEW x \in live
  PROVE  \E l \in Lifecycles : \E i \in Made(l) : Thing(l, i) = x /\ i \in Alive(l)
BY DEF EngineInv, Shared, Things, Alive

\* However a lifecycle ends, it holds no slot, has deleted what it could, and what is
\* left is in the manifest or was never seen.
THEOREM LifecyclesEndClean == Spec => []ExitClean
<1>1. EngineInv => ExitReturnsSlots
  <2> SUFFICES ASSUME EngineInv, NEW l \in Lifecycles, lc[l].pc = "done"
               PROVE  /\ ~lc[l].pending /\ lc[l].bound = {}
                      /\ lc[l].status = "skipped" => lc[l].reserved = 0
    BY DEF ExitReturnsSlots
  <2>1. lc[l] \in Locals /\ Place(l, lc[l]) /\ Sound(l, lc[l], Alive(l), Lost(l))
    BY LocalView
  <2>2. Filed(lc[l]) = {} /\ VpcEntries(l, lc[l]) = {}
    BY <2>1 DEF Place, Filed, Ending, VpcEntries
  <2>3. ~lc[l].pending
    BY <2>1 DEF Place
  <2>4. lc[l].bound = {}
    BY <2>1, <2>2 DEF Sound, Bound
  <2>5. lc[l].status = "skipped" => lc[l].reserved = 0
    <3>1. Cardinality(VpcEntries(l, lc[l])) = 0 /\ InHand(l, lc[l]) = 0 /\ lc[l].reserved \in Nat
      BY <2>1, <2>2, FS_EmptySet DEF InHand, Locals
    <3>2. QED
      BY <2>1, <3>1 DEF Sound, Budgeted
  <2>6. QED
    BY <2>3, <2>4, <2>5
<1>2. EngineInv => NothingForgotten
  <2> SUFFICES ASSUME EngineInv, NEW x \in live, lc[Creator(x)].pc = "done"
               PROVE  Stuck(x) /\ (x \in unseen \/ x \in tracked)
    BY DEF NothingForgotten
  <2>1. PICK l \in Lifecycles : \E i \in Made(l) : Thing(l, i) = x /\ i \in Alive(l)
    BY LiveIsSomebodys
  <2>2. PICK i \in Made(l) : Thing(l, i) = x /\ i \in Alive(l)
    BY <2>1
  <2>3. lc[l].pc = "done"
    BY <2>2, CreatorIs
  <2>4. Filed(lc[l]) = {} /\ Sound(l, lc[l], Alive(l), Lost(l))
    BY <2>3, LocalView DEF Place, Filed, Ending
  <2>5. Stuck(x)
    <3>1. CASE i \in Lost(l)
      BY <2>2, <3>1 DEF Lost, Stuck
    <3>2. CASE i \notin Lost(l)
      BY <2>2, <2>4, <3>2, BlockedIsStuck DEF Sound, Kept
    <3>3. QED
      BY <3>1, <3>2
  <2>6. x \in unseen \/ x \in tracked
    BY DEF EngineInv, Shared
  <2>7. QED
    BY <2>5, <2>6
<1>3. EngineInv => ExitClean
  BY <1>1, <1>2 DEF ExitClean
<1>4. QED
  BY <1>3, EngineInduction, PTL

\* The VPCs that no step has addressed and the creates in flight each hold a slot of
\* their own, and there are as many slots as room in the account.
THEOREM UnaddressedVpcsFit == Spec => []UnaddressedWithinCap
<1>1. EngineInv => UnaddressedWithinCap
  <2> DEFINE V == {v \in OwnVpcs : ~Addressed(v)}
  <2> SUFFICES ASSUME EngineInv, Room > 0
               PROVE  Cardinality(V) + Cardinality(CreatesInFlight) <= Room
    BY DEF UnaddressedWithinCap, Fit
  <2>1. \A v \in V : <<Creator(v), v>> \in BoundOf(lc)
    <3>1. SUFFICES ASSUME NEW v \in V PROVE <<Creator(v), v>> \in BoundOf(lc)
      OBVIOUS
    <3>2. v \in live /\ v \in Vpcs /\ ~Stuck(v) /\ ~Addressed(v)
      BY DEF OwnVpcs
    <3>3. PICK l \in Lifecycles : \E i \in Made(l) : Thing(l, i) = v /\ i \in Alive(l)
      BY <3>2, LiveIsSomebodys
    <3>4. PICK i \in Made(l) : Thing(l, i) = v /\ i \in Alive(l)
      BY <3>3
    <3>5. i \notin Lost(l) /\ ~Seen(l, lc[l], i)
      BY <3>2, <3>4 DEF Lost, Stuck, Seen, Addressed
    <3>6. ~Blocked(l, lc[l], Alive(l), Lost(l), i)
      BY <3>2, <3>4, BlockedIsStuck
    <3>7. v \in lc[l].bound
      BY <3>2, <3>4, <3>5, <3>6, LocalView DEF Sound, Bound
    <3>8. Creator(v) = l
      BY <3>4, CreatorIs
    <3>9. QED
      BY <3>2, <3>7, <3>8 DEF BoundOf
  <2>2. Cardinality(V) <= Cardinality(BoundOf(lc)) /\ IsFiniteSet(V)
    <3> DEFINE f == [v \in V |-> <<Creator(v), v>>]
    <3> HIDE DEF V
    <3>1. f \in [V -> BoundOf(lc)]
      BY <2>1
    <3>2. \A v, w \in V : f[v] = f[w] => v = w
      OBVIOUS
    <3>3. DOMAIN f = V
      OBVIOUS
    <3> HIDE DEF f
    <3>4. f \in Injection(V, BoundOf(lc))
      BY <3>1, <3>2, <3>3 DEF Injection, IsInjective
    <3>5. QED
      BY <3>4, HeldFinite, FS_Injection
  <2>3. CreatesInFlight \subseteq PendingOf(lc)
    BY AfterResponse DEF CreatesInFlight, PendingOf
  <2>4. Cardinality(CreatesInFlight) <= Cardinality(PendingOf(lc)) /\ IsFiniteSet(CreatesInFlight)
    BY <2>3, HeldFinite, FS_Subset
  <2>5. HeldBy(lc) <= SemLimit
    BY DEF EngineInv, Shared, SlotsHeld, HeldBy, PendingOf, BoundOf
  <2>6. SemLimit = Room
    BY LimitsAssumption DEF SemLimit, Room
  <2>7. Room \in Int /\ Cardinality(V) \in Nat /\ Cardinality(CreatesInFlight) \in Nat
    BY <2>2, <2>4, LimitsAssumption, FS_CardinalityType DEF Room
  <2> HIDE DEF V
  <2>8. QED
    BY <2>2, <2>4, <2>5, <2>6, <2>7, HeldFinite DEF HeldBy
<1>2. QED
  BY <1>1, EngineInduction, PTL

-----------------------------------------------------------------------------
(* The semaphore by its promise: what the engine does with its slots is what *)
(* SlotPool allows.                                                          *)

\* What a lifecycle has slots for.
Taken(l, r) == {v \in Vpcs : v \in r.bound \/ (r.pending /\ At(l, r).res = v)}

LEMMA TakenByEach ==
  /\ SlotsTaken = {h \in Lifecycles \X Vpcs : h[2] \in Taken(h[1], lc[h[1]])}
  /\ SlotsTaken' = {h \in Lifecycles \X Vpcs : h[2] \in Taken(h[1], lc'[h[1]])}
BY DEF SlotsTaken, Taken, Step, At

\* A move of one lifecycle leaves the others' slots alone.
LEMMA OthersKeepSlots ==
  ASSUME NEW l \in Lifecycles, lc \in [Lifecycles -> Locals], lc' = [lc EXCEPT ![l] = lc'[l]]
  PROVE  \A h \in Lifecycles \X Vpcs : h[1] # l => (h \in SlotsTaken' <=> h \in SlotsTaken)
<1>1. \A k \in Lifecycles : k # l => lc'[k] = lc[k]
  OBVIOUS
<1>2. QED
  BY <1>1, TakenByEach

\* Slots are counted once for each.
LEMMA SlotsAreCounted ==
  ASSUME EngineInv
  PROVE  Cardinality(SlotsTaken) <= SlotsHeld
<1> DEFINE A == {h \in Lifecycles \X Vpcs : lc[h[1]].pending /\ Step(h[1]).res = h[2]}
           P == PendingOf(lc)
           f == [l \in P |-> <<l, Step(l).res>>]
<1>1. ASSUME NEW l \in P
      PROVE  l \in Lifecycles /\ <<l, Step(l).res>> \in A
  <2>1. l \in Lifecycles /\ lc[l].pending
    BY DEF PendingOf
  <2>2. IsVpcCreate(Step(l))
    BY <2>1, LocalView DEF Place, OnVpcCreate
  <2>3. QED
    BY <2>1, <2>2 DEF IsVpcCreate
<1>2. \A h \in A : h[1] \in P /\ h = <<h[1], Step(h[1]).res>>
  BY DEF PendingOf
<1> HIDE DEF A, P
<1>3. f \in [P -> A]
  BY <1>1
<1>4. \A h \in A : \E l \in P : f[l] = h
  BY <1>2
<1> HIDE DEF f
<1>5. f \in Surjection(P, A)
  BY <1>3, <1>4 DEF Surjection
<1>6. IsFiniteSet(P) /\ Cardinality(P) \in Nat
  BY HeldFinite DEF P
<1>7. IsFiniteSet(A) /\ Cardinality(A) <= Cardinality(P)
  BY <1>5, <1>6, FS_Surjection
<1>8. SlotsTaken = A \cup BoundOf(lc)
  BY DEF SlotsTaken, A, BoundOf
<1>9. Cardinality(A \cup BoundOf(lc)) =
        Cardinality(A) + Cardinality(BoundOf(lc)) - Cardinality(A \cap BoundOf(lc))
  BY <1>7, HeldFinite, FS_Union
<1>10. IsFiniteSet(A \cap BoundOf(lc))
  BY <1>7, FS_Intersection
<1>11. Cardinality(A \cap BoundOf(lc)) \in Nat /\ Cardinality(A) \in Nat
  BY <1>7, <1>10, FS_CardinalityType
<1>12. SlotsHeld = Cardinality(P) + Cardinality(BoundOf(lc))
  BY DEF SlotsHeld, PendingOf, BoundOf, P
<1>13. QED
  BY <1>6, <1>7, <1>8, <1>9, <1>11, <1>12, HeldFinite

\* Only a lifecycle with a slot at hand sends the create of a VPC.
LEMMA LeavesTheRequest ==
  ASSUME NEW l \in Lifecycles, NEW r \in Locals, NEW g
  PROVE  /\ Advance(r).pc = "ready"
         /\ \A st : Quit(r, st).pc = "teardown"
         /\ SkipGroup(l, r, g).pc \in {"ready", "group"}
<1>1. Advance(r).pc = "ready"
  BY AdvanceFields
<1>2. \A st : Quit(r, st).pc = "teardown"
  BY DEF Quit, Locals
<1>3. SkipGroup(l, r, g).pc \in {"ready", "group"}
  <2>1. CASE g = NoGroup
    BY <1>1, <2>1 DEF SkipGroup
  <2>2. CASE g # NoGroup
    BY <2>2 DEF SkipGroup, Locals
  <2>3. QED
    BY <2>1, <2>2
<1>4. QED
  BY <1>1, <1>2, <1>3

LEMMA BudgetIsNumber ==
  ASSUME EngineInv, NEW l \in Lifecycles
  PROVE  used[BudgetOf[l]] \in Nat /\ Cap \in Nat
<1>1. BudgetOf[l] \in Budgets
  BY DEF Budgets
<1>2. QED
  BY <1>1, LimitsAssumption DEF EngineInv, Shared

LEMMA NoneAtHand ==
  ASSUME EngineInv, NEW l \in Lifecycles, Acts(l), ~AcquireSlot(l)
  PROVE  lc'[l].pending = FALSE
<1> DEFINE r == lc[l]
           q == lc'[l]
           s == Step(l)
<1>1. /\ lc \in [Lifecycles -> Locals] /\ r \in Locals
      /\ q \in Locals /\ Place(l, q)
      /\ q.pending <=> (q.pc = "send" /\ OnVpcCreate(l, q))
  <2>1. q \in Locals /\ Sound(l, q, Alive(l)', Lost(l)')
    BY ActsSettle
  <2>2. Place(l, q)
    BY <2>1 DEF Sound
  <2>3. QED
    BY <2>1, <2>2, LocalView DEF Place
<1>2. \A p : Set(l, p) => q = p
  BY <1>1 DEF Set
<1>3. GiveBack(r, s) \in Locals /\ Held(r) \in Locals /\ Held(r) = [r EXCEPT !.pending = FALSE]
  BY <1>1, GiveBackFields, HeldFields DEF Held
<1>4. CASE Stopped(l) \/ Withheld(l) \/ AcquireTimeout(l)
  <2>1. q.pc = "teardown"
    BY <1>1, <1>2, <1>3, <1>4, LeavesTheRequest DEF Stopped, Withheld, AcquireTimeout
  <2>2. QED
    BY <1>1, <2>1 DEF Locals
<1>5. CASE PassOver(l) \/ GroupCleaned(l) \/ NotMade(l) \/ Checked(l)
  <2>1. q.pc = "ready"
    BY <1>1, <1>2, <1>3, <1>5, LeavesTheRequest DEF PassOver, GroupCleaned, NotMade, Checked
  <2>2. QED
    BY <1>1, <2>1 DEF Locals
<1>6. CASE Touched(l) \/ Deleted(l)
  <2>1. \A x : PathReleases(l, x) \in Locals
    BY <1>1, PathReleasesFields
  <2>2. q.pc = "ready"
    BY <1>2, <1>6, <2>1, LeavesTheRequest DEF Touched, Deleted
  <2>3. QED
    BY <1>1, <2>2 DEF Locals
<1>7. CASE EnvLimit(l) \/ Rejected(l) \/ CreatedUnseen(l)
  <2>1. q.pc \in {"teardown", "ready", "group"}
    BY <1>2, <1>3, <1>7, LeavesTheRequest DEF EnvLimit, Rejected, CreatedUnseen, EnvSkip
  <2>2. QED
    BY <1>1, <2>1 DEF Locals
<1>8. CASE Created(l) \/ Finish(l) \/ TornDown(l)
  <2>1. Advance(r) \in Locals /\ Advance(r).pc = "ready"
    BY <1>1, AdvanceFields
  <2>2. q.pc \in {"ready", "done"}
    BY <1>1, <1>2, <1>8, <2>1 DEF Created, Finish, TornDown, Locals
  <2>3. QED
    BY <1>1, <2>2 DEF Locals
<1>9. CASE CleanupOne(l)
  <2>1. q.pc = r.pc /\ r.pc \in {"teardown", "group"}
    BY <1>1, <1>2, <1>9 DEF CleanupOne, Locals
  <2>2. QED
    BY <1>1, <2>1 DEF Locals
<1>10. CASE Begin(l)
  <2>1. CASE IsVpcCreate(s) /\ used[BudgetOf[l]] >= Cap
    <3>1. q.pc \in {"teardown", "ready", "group"}
      BY <1>1, <1>2, <1>10, <2>1, BudgetIsNumber, LeavesTheRequest DEF Begin, EnvSkip
    <3>2. QED
      BY <1>1, <3>1 DEF Locals
  <2>2. CASE IsVpcCreate(s) /\ used[BudgetOf[l]] < Cap
    <3>1. q = [r EXCEPT !.pc = "acquire", !.reserved = @ + 1]
      <4>1. ~(used[BudgetOf[l]] >= Cap)
        BY <2>2, BudgetIsNumber
      <4>2. QED
        BY <1>2, <1>10, <2>2, <4>1 DEF Begin
    <3>2. q.pc = "acquire"
      BY <1>1, <3>1 DEF Locals
    <3>3. QED
      BY <1>1, <3>2 DEF Locals
  <2>3. CASE ~IsVpcCreate(s)
    <3>1. q.at = r.at
      BY <1>1, <1>2, <1>10, <2>3 DEF Begin, Locals
    <3>2. ~OnVpcCreate(l, q)
      BY <2>3, <3>1 DEF OnVpcCreate, At, Step
    <3>3. QED
      BY <1>1, <3>2 DEF Locals
  <2>4. used[BudgetOf[l]] >= Cap \/ used[BudgetOf[l]] < Cap
    BY BudgetIsNumber
  <2>5. QED
    BY <2>1, <2>2, <2>3, <2>4
<1>11. QED
  BY <1>4, <1>5, <1>6, <1>7, <1>8, <1>9, <1>10 DEF Acts, Proceed

\* The step that takes a slot.
LEMMA SlotIsGranted ==
  ASSUME EngineInv, NEW l \in Lifecycles, AcquireSlot(l)
  PROVE  /\ <<l, Step(l).res>> \in (Lifecycles \X Vpcs) \ SlotsTaken
         /\ SlotsTaken' = SlotsTaken \cup {<<l, Step(l).res>>}
<1> DEFINE r == lc[l]
           q == [r EXCEPT !.pc = "send", !.pending = TRUE]
           x == Step(l).res
<1>1. /\ r.pc = "acquire" /\ lc' = [lc EXCEPT ![l] = q] /\ Step(l) = At(l, r)
      /\ lc \in [Lifecycles -> Locals] /\ r \in Locals
      /\ Place(l, r) /\ Bound(l, r, Alive(l), Lost(l))
  BY LocalView DEF AcquireSlot, Set, Sound
<1>2. OnVpcCreate(l, r) /\ ~r.pending
  BY <1>1 DEF Place, Locals
<1>3. x \in Vpcs /\ r.at \in Made(l) /\ Thing(l, r.at) = x
  BY <1>1, <1>2 DEF OnVpcCreate, IsVpcCreate, OnStep, Made, Makes, Thing, At
<1>4. x \notin r.bound
  <2>1. SUFFICES ASSUME x \in r.bound PROVE FALSE
    OBVIOUS
  <2>2. PICK i \in VpcEntries(l, r) : Thing(l, i) = x
    BY <1>1, <2>1 DEF Bound
  <2>3. Makes(l, i) /\ i < r.at
    BY <1>1 DEF VpcEntries, Filed, Place
  <2>4. i \in Made(l) /\ i # r.at /\ r.at \in Nat
    BY <1>1, <2>3 DEF Made, Makes, Locals
  <2>5. QED
    BY <1>3, <2>2, <2>4, OneMaker
<1>5. lc'[l] = q /\ q.at = r.at /\ q.pending = TRUE /\ q.bound = r.bound /\ r.pending = FALSE
  BY <1>1, <1>2 DEF Locals
<1> HIDE DEF q
<1>6. Taken(l, lc'[l]) = Taken(l, r) \cup {x} /\ x \notin Taken(l, r)
  BY <1>1, <1>3, <1>4, <1>5 DEF Taken, At
<1>7. lc' = [lc EXCEPT ![l] = lc'[l]]
  BY <1>1, <1>5
<1>8. \A h \in Lifecycles \X Vpcs : h \in SlotsTaken' <=> h \in SlotsTaken \cup {<<l, x>>}
  <2>1. TAKE h \in Lifecycles \X Vpcs
  <2>2. CASE h[1] # l
    <3>1. h # <<l, x>>
      BY <2>2
    <3>2. h \in SlotsTaken' <=> h \in SlotsTaken
      BY <1>1, <1>7, <2>2, OthersKeepSlots
    <3>3. QED
      BY <3>1, <3>2
  <2>3. CASE h[1] = l
    <3>1. h = <<l, h[2]>> /\ (h = <<l, x>> <=> h[2] = x)
      BY <2>3
    <3>2. h \in SlotsTaken' <=> h[2] \in Taken(l, lc'[l])
      BY <2>3, TakenByEach
    <3>3. h \in SlotsTaken <=> h[2] \in Taken(l, r)
      BY <2>3, TakenByEach
    <3> HIDE DEF r, x
    <3>4. QED
      BY <1>6, <3>1, <3>2, <3>3
  <2>4. QED
    BY <2>2, <2>3
<1>9. SlotsTaken \subseteq Lifecycles \X Vpcs /\ SlotsTaken' \subseteq Lifecycles \X Vpcs
  BY DEF SlotsTaken
<1>10. <<l, x>> \notin SlotsTaken
  BY <1>6, TakenByEach
<1>11. QED
  BY <1>3, <1>8, <1>9, <1>10

\* Any other only gives slots back: the one of a create becomes the one of its VPC.
LEMMA SlotsComeBack ==
  ASSUME EngineInv, NEW l \in Lifecycles, Acts(l), ~AcquireSlot(l)
  PROVE  SlotsTaken' \subseteq SlotsTaken
<1> DEFINE r == lc[l]
<1>1. lc \in [Lifecycles -> Locals] /\ lc' = [lc EXCEPT ![l] = lc'[l]] /\ lc'[l].pending = FALSE
  BY ActsSettle, NoneAtHand, LocalView
<1>2. Taken(l, lc'[l]) \subseteq Taken(l, r)
  <2>1. CASE Settles(l)
    <3>1. lc'[l].bound \subseteq r.bound
      BY <2>1 DEF Settles, Keeps
    <3>2. QED
      BY <1>1, <3>1 DEF Taken
  <2>2. CASE Created(l)
    <3> DEFINE x == Step(l).res
    <3>1. r.pc = "send" /\ Step(l).op = "create"
      BY <2>2 DEF Created, Sent
    <3>2. r \in Locals /\ Step(l) = At(l, r) /\ (x \in Vpcs => r.pending)
      BY <3>1, AfterResponse DEF IsVpcCreate
    <3>3. lc'[l].bound \subseteq r.bound \cup ({x} \cap Vpcs)
      <4>1. Advance(r) \in Locals /\ Advance(r).bound = r.bound
        BY <3>2, AdvanceFields
      <4>2. lc'[l] = [Advance(r) EXCEPT
                        !.cleanups = @ \cup {r.at}, !.pending = FALSE,
                        !.bound = IF x \in Vpcs THEN @ \cup {x} ELSE @]
        BY <1>1, <2>2 DEF Created, Set
      <4>3. QED
        BY <4>1, <4>2 DEF Locals
    <3>4. QED
      BY <1>1, <3>2, <3>3 DEF Taken
  <2>3. QED
    BY <2>1, <2>2, ActsAre
<1>3. \A h \in Lifecycles \X Vpcs : h \in SlotsTaken' => h \in SlotsTaken
  <2>1. TAKE h \in Lifecycles \X Vpcs
  <2>2. CASE h[1] # l
    BY <1>1, <2>2, OthersKeepSlots
  <2>3. CASE h[1] = l
    BY <1>2, <2>3, TakenByEach
  <2>4. QED
    BY <2>2, <2>3
<1>4. SlotsTaken' \subseteq Lifecycles \X Vpcs
  BY DEF SlotsTaken
<1>5. QED
  BY <1>3, <1>4

\* What the engine does with its slots is what the abstract pool allows: none is taken
\* but through AcquireSlot and while one is free, none for a VPC that has one already,
\* and the slot of a create is the one that its VPC keeps.
THEOREM EngineUsesSemaphore == Spec => UsesSemaphore
<1>1. Init => Semaphore!Init
  BY DEF Init, SlotsTaken, Semaphore!Init
<1>2. EngineInv /\ [Next]_vars => [Semaphore!Next]_SlotsTaken
  <2> SUFFICES ASSUME EngineInv, [Next]_vars
               PROVE  [Semaphore!Next]_SlotsTaken
    OBVIOUS
  <2>1. ASSUME NEW l \in Lifecycles, AcquireSlot(l)
        PROVE  [Semaphore!Next]_SlotsTaken
    <3> DEFINE h == <<l, Step(l).res>>
    <3>1. /\ h \in Lifecycles \X Vpcs /\ h \notin SlotsTaken
          /\ SlotsTaken' = SlotsTaken \cup {h}
      BY <2>1, SlotIsGranted
    <3>2. SlotsHeld < SemLimit
      BY <2>1 DEF AcquireSlot
    <3> HIDE DEF h
    <3>3. SlotsTaken \subseteq Lifecycles \X Vpcs /\ IsFiniteSet(Lifecycles \X Vpcs)
      BY LimitsAssumption, FS_Product DEF SlotsTaken
    <3>4. Cardinality(SlotsTaken) \in Nat
      BY <3>3, FS_Subset, FS_CardinalityType
    <3>5. SlotsHeld \in Nat /\ SemLimit \in Nat
      BY HeldFinite, LimitsAssumption DEF SlotsHeld, SemLimit, HeldBy, PendingOf, BoundOf
    <3>6. Cardinality(SlotsTaken) < SemLimit
      BY <3>2, <3>4, <3>5, SlotsAreCounted
    <3>7. Semaphore!Cardinality(SlotsTaken) = Cardinality(SlotsTaken)
      BY DEF Semaphore!Cardinality, Cardinality
    <3>8. Semaphore!Grant(h)
      BY <3>1, <3>6, <3>7 DEF Semaphore!Grant
    <3>9. QED
      BY <3>1, <3>8 DEF Semaphore!Next
  <2>2. ASSUME NEW l \in Lifecycles, Acts(l), ~AcquireSlot(l)
        PROVE  [Semaphore!Next]_SlotsTaken
    <3> DEFINE F == SlotsTaken \ SlotsTaken'
    <3>1. SlotsTaken' = SlotsTaken \ F /\ F \subseteq SlotsTaken
      BY <2>2, SlotsComeBack
    <3>2. F \in SUBSET (Lifecycles \X Vpcs)
      BY DEF SlotsTaken
    <3> HIDE DEF F
    <3>3. CASE F = {}
      BY <3>1, <3>3
    <3>4. CASE F # {}
      <4>1. Semaphore!Free(F)
        BY <3>1, <3>4 DEF Semaphore!Free
      <4>2. QED
        BY <3>2, <4>1 DEF Semaphore!Next
    <3>5. QED
      BY <3>3, <3>4
  <2>3. CASE Command \/ UNCHANGED vars
    BY <2>3 DEF Command, vars, SlotsTaken, Step
  <2>4. QED
    BY <2>1, <2>2, <2>3 DEF Next, Acts
<1>3. QED
  BY <1>1, <1>2, EngineInduction, PTL DEF Spec, UsesSemaphore, Semaphore!Spec

-----------------------------------------------------------------------------
(* The requests of a step *)

Places == {"first", "again", "fallback", "varied", "ladder", "decide", "wait", "over"}
NoResp == [status |-> "none", state |-> "none"]
Doubts == {"gateway", "error", "broken", "timeout", "other"}

StepTypeOK ==
  /\ step \in Steps
  /\ place \in Places
  /\ tries \in Nat
  /\ resp \in Answers \cup {NoResp}
  /\ outcome \in {"going", "raised", "returned", "hopeless", "late"}
  /\ effects \in 0 .. 2
  /\ doubts \subseteq Doubts
  /\ place = "wait" => step.waits

\* Nothing will send the request again.
Settled == outcome # "going" \/ (tries = 0 /\ resp.status \in {"ok", "version"})

\* Without a doubt that allows for it, a request that may have taken effect is settled.
SettledInv ==
  NonIdempotent /\ doubts \cap {"gateway", "error", "broken"} = {} =>
    effects = 0 \/ (effects = 1 /\ Settled)

OverInv == outcome # "going" => place = "over" /\ tries = 0

\* The values of the code's variables stay in their sets, and only a step with a wait
\* comes into the loop of _run_step's poll.
THEOREM StepTypes == StepSpec => []StepTypeOK
<1>1. StepInit => StepTypeOK
  BY StepAssumption DEF StepInit, StepTypeOK, Places, NoResp, Doubts
<1>2. StepTypeOK /\ [StepNext]_stepVars => StepTypeOK'
  <2> SUFFICES ASSUME StepTypeOK, [StepNext]_stepVars PROVE StepTypeOK'
    OBVIOUS
  <2> USE DEF StepTypeOK, Places, NoResp, Doubts
  <2>1. CASE Guarded
    BY <2>1 DEF Guarded, End
  <2>2. ASSUME NEW a \in Answers, Answered(a) PROVE StepTypeOK'
    <3>1. effects' \in 0 .. 2 /\ doubts' \subseteq Doubts
      <4>1. PICK yes \in BOOLEAN : TakesEffect(yes, {a.status} \cap {"gateway", "error"})
        BY <2>2 DEF Answered
      <4> QED BY <4>1 DEF TakesEffect, NonIdempotent
    <3>2. CASE TriesAgain
      BY <3>1, <3>2 DEF TriesAgain
    <3>3. CASE Returns(a)
      BY <3>1, <3>3 DEF Returns
    <3>4. CASE tries' = Unpinned /\ UNCHANGED <<step, place, resp, left, outcome>>
      BY <3>1, <3>4, StepAssumption DEF Unpinned
    <3> QED
      BY <2>2, <3>2, <3>3, <3>4 DEF Answered
  <2>3. ASSUME NEW exc \in Exceptions, NoAnswer(exc) PROVE StepTypeOK'
    <3>1. effects' \in 0 .. 2 /\ doubts' \subseteq Doubts
      <4>1. PICK yes \in BOOLEAN : TakesEffect(yes, {exc} \ {"unreached"})
        BY <2>3 DEF NoAnswer
      <4> QED BY <4>1 DEF TakesEffect, Exceptions, NonIdempotent
    <3>2. CASE Returns([status |-> "version", state |-> "none"])
      BY <3>1, <3>2 DEF Returns, Answers, Refusals
    <3>3. CASE TriesAgain
      BY <3>1, <3>3 DEF TriesAgain
    <3>4. CASE place' = "again" /\ tries' = 1 /\ UNCHANGED <<step, resp, left, outcome>>
      BY <3>1, <3>4
    <3>5. CASE End("raised")
      BY <3>1, <3>5 DEF End
    <3> QED
      BY <2>3, <3>2, <3>3, <3>4, <3>5 DEF NoAnswer
  <2>4. CASE Fallback \/ Varied
    <3>1. CASE Varied
      BY <3>1 DEF Varied, Deciding, GoesTo
    <3>2. CASE Fallback /\ step.variant /\ resp.status = "variant"
      <4>1. place' = "varied" /\ tries' = 1 /\ UNCHANGED <<step, resp, left, outcome, effects, doubts>>
        BY <3>2 DEF Fallback, Sends
      <4> QED BY <4>1
    <3>3. CASE Fallback /\ ~(step.variant /\ resp.status = "variant")
      <4>1. GoesTo("ladder")
        BY <3>3 DEF Fallback
      <4> QED BY <4>1 DEF GoesTo
    <3> QED BY <2>4, <3>1, <3>2, <3>3
  <2>5. CASE Rung \/ LadderOver
    BY <2>5 DEF Rung, LadderOver, Deciding, Sends, GoesTo
  <2>6. CASE Waits
    <3>1. CASE step.waits /\ ~step.wait.unresolved
      <4>1. place' = "wait" /\ step' = step /\ step.waits
        BY <2>6, <3>1 DEF Waits, GoesTo
      <4> QED BY <2>6, <3>1, <4>1 DEF Waits, GoesTo
    <3>2. CASE ~(step.waits /\ ~step.wait.unresolved)
      BY <2>6, <3>2 DEF Waits, Deciding, Ends, End
    <3> QED BY <3>1, <3>2
  <2>7. CASE WaitOver \/ NoHope
    BY <2>7 DEF WaitOver, NoHope, Deciding, Ends, End
  <2>8. CASE Round
    BY <2>8 DEF Round, Deciding, Sends
  <2>9. CASE GiveWaitUp
    BY <2>9 DEF GiveWaitUp, Deciding, Ends, End
  <2>10. CASE UNCHANGED stepVars
    BY <2>10 DEF stepVars
  <2> QED
    BY <2>1, <2>2, <2>3, <2>4, <2>5, <2>6, <2>7, <2>8, <2>9, <2>10 DEF StepNext
<1> QED
  BY <1>1, <1>2, PTL DEF StepSpec

-----------------------------------------------------------------------------
(* A create takes effect once *)

Once == StepTypeOK /\ OverInv /\ SettledInv

LEMMA OnceIsKept == Once /\ StepTypeOK' /\ [StepNext]_stepVars => Once'
<1> SUFFICES ASSUME Once, StepTypeOK', [StepNext]_stepVars
             PROVE  OverInv' /\ SettledInv'
  BY DEF Once
<1> USE DEF Once, OverInv, SettledInv, Settled, NonIdempotent
<1>1. CASE Guarded
  BY <1>1 DEF Guarded, End
<1>2. ASSUME NEW a \in Answers, Answered(a) PROVE OverInv' /\ SettledInv'
  <2>1. PICK yes \in BOOLEAN :
          /\ a.status = "ok" => yes
          /\ a.status \notin {"ok", "gateway", "error"} => ~yes
          /\ TakesEffect(yes, {a.status} \cap {"gateway", "error"})
    BY <1>2 DEF Answered
  <2>2. tries > 0 /\ outcome = "going" /\ step' = step
    BY <1>2 DEF Answered, Sending, StepTypeOK, TriesAgain, Returns
  <2>3. outcome' = outcome
    BY <1>2 DEF Answered, TriesAgain, Returns
  <2>4. CASE a.status = "ok"
    <3>1. Returns(a)
      BY <1>2, <2>4 DEF Answered
    <3> QED BY <2>1, <2>2, <2>3, <2>4, <3>1 DEF Returns, TakesEffect, StepTypeOK
  <2>5. CASE a.status \in {"gateway", "error"}
    <3>1. NonIdempotent => a.status \in doubts'
      BY <2>1, <2>5 DEF TakesEffect
    <3> QED BY <2>2, <2>3, <2>5, <3>1
  <2>6. CASE a.status \notin {"ok", "gateway", "error"}
    <3>1. effects' = effects /\ doubts \subseteq doubts'
      BY <2>1, <2>6 DEF TakesEffect
    <3> QED BY <2>2, <2>3, <3>1
  <2> QED BY <2>4, <2>5, <2>6
<1>3. ASSUME NEW exc \in Exceptions, NoAnswer(exc) PROVE OverInv' /\ SettledInv'
  <2>1. PICK yes \in BOOLEAN :
          /\ exc = "unreached" => ~yes
          /\ TakesEffect(yes, {exc} \ {"unreached"})
    BY <1>3 DEF NoAnswer
  <2>2. tries > 0 /\ outcome = "going" /\ step' = step
    BY <1>3 DEF NoAnswer, Sending, StepTypeOK, TriesAgain, Returns, End
  <2>3. OverInv'
    BY <1>3, <2>2 DEF NoAnswer, TriesAgain, Returns, End
  <2>4. CASE exc = "unreached"
    <3>1. effects' = effects /\ doubts \subseteq doubts'
      BY <2>1, <2>4 DEF TakesEffect
    <3> QED BY <2>2, <2>3, <3>1
  <2>5. CASE exc = "broken"
    <3>1. NonIdempotent => "broken" \in doubts'
      BY <2>1, <2>5 DEF TakesEffect
    <3> QED BY <2>2, <2>3, <3>1
  <2>6. CASE exc \in {"timeout", "other"}
    <3>1. doubts \subseteq doubts' /\ effects' \in {effects, effects + 1}
      BY <2>1 DEF TakesEffect, StepTypeOK
    <3>2. NonIdempotent => Settled'
      BY <1>3, <2>6 DEF NoAnswer, RetriesException, SentOnceMore, Returns, End
    <3> QED BY <2>2, <2>3, <3>1, <3>2 DEF StepTypeOK
  <2> QED BY <2>4, <2>5, <2>6 DEF Exceptions
<1>4. CASE Fallback \/ Varied
  BY <1>4 DEF Fallback, Varied, Deciding, Sends, GoesTo
<1>5. CASE Rung \/ LadderOver
  <2>1. CASE Climbs
    <3>1. NonIdempotent => resp.status \notin {"ok", "version"}
      BY <2>1, StepAssumption, RequestsAssumption DEF Climbs, StepTypeOK, Refusals
    <3> QED BY <1>5, <2>1, <3>1 DEF Rung, LadderOver, Deciding, Sends, GoesTo
  <2>2. CASE ~Climbs
    BY <1>5, <2>2 DEF Rung, LadderOver, Deciding, GoesTo
  <2> QED BY <2>1, <2>2
<1>6. CASE Waits
  BY <1>6 DEF Waits, Deciding, GoesTo, Ends, End
<1>7. CASE WaitOver \/ NoHope
  BY <1>7 DEF WaitOver, NoHope, Deciding, Ends, End
<1>8. CASE Round
  <2>1. ~NonIdempotent /\ step' = step /\ outcome = "going" /\ outcome' = outcome
    BY <1>8, RequestsAssumption DEF Round, Deciding, Sends, StepTypeOK
  <2> QED BY <2>1
<1>9. CASE GiveWaitUp
  BY <1>9 DEF GiveWaitUp, Deciding, Ends, End
<1>10. CASE UNCHANGED stepVars
  BY <1>10 DEF stepVars
<1> QED
  BY <1>1, <1>2, <1>3, <1>4, <1>5, <1>6, <1>7, <1>8, <1>9, <1>10 DEF StepNext

\* For all attempts of the client and all places of _run_step that send again, a POST
\* or PATCH takes effect twice only after an answer or a broken connection that left
\* it open, never after an answer that came too late.
THEOREM CreateMadeOnce == StepSpec => []MadeOnce
<1>1. StepInit => Once
  BY StepAssumption DEF StepInit, Once, StepTypeOK, Places, NoResp, Doubts, OverInv, SettledInv
<1>2. Once => MadeOnce
  BY DEF Once, SettledInv, MadeOnce, StepTypeOK
<1> QED
  BY <1>1, <1>2, OnceIsKept, StepTypes, PTL DEF StepSpec

-----------------------------------------------------------------------------
(* A wait passes on what it waits for *)

LEMMA ReadyIsKept ==
  StepTypeOK /\ OverInv /\ PassedIsReady /\ [StepNext]_stepVars => PassedIsReady' /\ OverInv'
<1> SUFFICES ASSUME StepTypeOK, OverInv, PassedIsReady, [StepNext]_stepVars
             PROVE  PassedIsReady' /\ OverInv'
  OBVIOUS
<1> USE DEF PassedIsReady, Passes, WaitsForState, ForStatus, OverInv
<1>1. CASE Guarded
  BY <1>1 DEF Guarded, End
<1>2. ASSUME NEW a \in Answers, Answered(a) PROVE PassedIsReady' /\ OverInv'
  <2>1. outcome = "going" /\ outcome' = outcome
    BY <1>2 DEF Answered, Sending, StepTypeOK, TriesAgain, Returns
  <2> QED BY <2>1
<1>3. ASSUME NEW exc \in Exceptions, NoAnswer(exc) PROVE PassedIsReady' /\ OverInv'
  <2>1. outcome = "going"
    BY <1>3 DEF NoAnswer, Sending, StepTypeOK
  <2> QED BY <1>3, <2>1 DEF NoAnswer, TriesAgain, Returns, End
<1>4. CASE Fallback \/ Varied
  BY <1>4 DEF Fallback, Varied, Deciding, Sends, GoesTo
<1>5. CASE Rung \/ LadderOver
  BY <1>5 DEF Rung, LadderOver, Deciding, Sends, GoesTo
<1>6. CASE Waits
  <2>1. CASE step.waits /\ ~step.wait.unresolved
    BY <1>6, <2>1 DEF Waits, Deciding, GoesTo
  <2>2. CASE ~(step.waits /\ ~step.wait.unresolved)
    BY <1>6, <2>2 DEF Waits, Ends, End
  <2> QED BY <2>1, <2>2
<1>7. CASE WaitOver
  <2>1. Met \/ resp.status # "ok"
    BY <1>7, StepAssumption DEF WaitOver, GivenUp, StepTypeOK, Refusals
  <2> QED BY <1>7, <2>1 DEF WaitOver, Ends, End, Met
<1>8. CASE NoHope
  BY <1>8 DEF NoHope, Ends, End
<1>9. CASE Round
  BY <1>9 DEF Round, Deciding, Sends
<1>10. CASE GiveWaitUp
  <2>1. step' = step /\ resp' = resp /\ place' = "over" /\ tries' = 0
    BY <1>10 DEF GiveWaitUp, Ends, End
  <2>2. CASE Met
    BY <2>1, <2>2 DEF Met
  <2>3. CASE ~Met
    BY <1>10, <2>1, <2>3 DEF GiveWaitUp, Ends, End
  <2> QED BY <2>2, <2>3
<1>11. CASE UNCHANGED stepVars
  BY <1>11 DEF stepVars
<1> QED
  BY <1>1, <1>2, <1>3, <1>4, <1>5, <1>6, <1>7, <1>8, <1>9, <1>10, <1>11 DEF StepNext

\* However a wait for a state ends (its state, deadline, stop, an error state, answers
\* that tell nothing), its step passes only on a resource that has the state; waits
\* that may end unmet and those with a refire apart.
THEOREM WaitPassesReady == StepSpec => []PassedIsReady
<1>1. StepInit => PassedIsReady /\ OverInv
  BY DEF StepInit, PassedIsReady, Passes, OverInv
<1> QED
  BY <1>1, ReadyIsKept, StepTypes, PTL DEF StepSpec
=============================================================================
