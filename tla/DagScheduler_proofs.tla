------------------------ MODULE DagScheduler_proofs ------------------------
(***************************************************************************)
(* Proofs about the three runners of lifecycles.  DagScheduler, for any    *)
(* plan, any number of threads and any cap: its types, the cap, that every *)
(* node is in exactly one place, that nothing runs without the shared      *)
(* VPCs, and that it implements SlotPool.  NativeRunner and DagWaves, for  *)
(* any selections, leaf sets, threads and limits: that what runs keeps     *)
(* within the limit of VPCs, of the one as long as the count was not       *)
(* overwritten, and of the other within the threads there are.             *)
(***************************************************************************)
EXTENDS DagScheduler, AccountCap, FiniteSetTheorems, TLAPS

-----------------------------------------------------------------------------
(* The inductive invariant *)

\* Where a node is, by what the other variables say of it.
PlaceInv ==
  /\ \A v, w \in Workers : job[v] = job[w] /\ job[v] # NoNode => v = w
  /\ \A w \in Workers : job[w] # NoNode =>
       /\ job[w] \notin pending
       /\ runs[job[w]] = IF pc[w] = "giveback" THEN 1 ELSE 0
  /\ \A n \in pending : runs[n] = 0
  /\ \A n \in Nodes \ pending : (\A w \in Workers : job[w] # n) => runs[n] = 1

\* No slot is created or lost.
SlotInv == avail + Cardinality(Creating) = Budget

\* The threads run between the provisioning and the teardown only.
PhaseInv ==
  /\ phase = "run" => shared
  /\ phase \in {"provision", "aborted"} => \A w \in Workers : pc[w] = "idle"
  /\ phase = "done" => \A w \in Workers : pc[w] = "left"

IInv == TypeOK /\ PlaceInv /\ SlotInv /\ PhaseInv

LEMMA BudgetType == Budget \in Nat
BY CapAssumption DEF Budget

LEMMA CreatingFinite ==
  ASSUME NEW S \in SUBSET SlotNodes
  PROVE  IsFiniteSet(S) /\ Cardinality(S) \in Nat
BY NodesAssumption, FS_Subset, FS_CardinalityType

LEMMA Initially == Init => IInv
<1> SUFFICES ASSUME Init PROVE IInv
  OBVIOUS
<1> USE NodesAssumption, WorkersAssumption
<1>1. TypeOK
  BY BudgetType DEF Init, TypeOK
<1>2. PlaceInv /\ PhaseInv
  BY DEF Init, PlaceInv, PhaseInv
<1>3. Creating = {}
  BY DEF Init, Creating
<1>4. SlotInv
  BY <1>3, FS_EmptySet, BudgetType DEF SlotInv, Init
<1> QED BY <1>1, <1>2, <1>4 DEF IInv

\* What _take does to the nodes that hold a slot, and to the free slots.
LEMMA TakeSlots ==
  ASSUME IInv, NEW w \in Workers, NEW n \in Nodes, Take(w, n)
  PROVE  /\ Creating' = Creating \cup ({n} \cap SlotNodes)
         /\ n \notin Creating
         /\ SlotInv' /\ avail' \in Nat
<1>1. job' = [job EXCEPT ![w] = n] /\ job[w] = NoNode /\ n \in pending
      /\ avail' = avail - Demand(n) /\ avail >= Demand(n) /\ avail \in Nat
      /\ job \in [Workers -> Nodes \cup {NoNode}]
  BY DEF Take, Fits, IInv, TypeOK
<1>2. Creating' = Creating \cup ({n} \cap SlotNodes)
  BY <1>1, NodesAssumption DEF Creating
<1>3. n \notin Creating
  BY <1>1, NodesAssumption DEF Creating, IInv, PlaceInv
<1>4. Creating \in SUBSET SlotNodes
  BY DEF Creating
<1>5. CASE n \in SlotNodes
  <2>1. Creating' = Creating \cup {n} /\ avail' = avail - 1 /\ avail >= 1
    BY <1>1, <1>2, <1>5 DEF Demand
  <2>2. Cardinality(Creating') = Cardinality(Creating) + 1
    BY <2>1, <1>3, <1>4, CreatingFinite, FS_AddElement
  <2> QED BY <1>1, <1>2, <1>3, <1>4, <2>1, <2>2, CreatingFinite, BudgetType DEF IInv, SlotInv
<1>6. CASE n \notin SlotNodes
  <2>1. Creating' = Creating /\ avail' = avail
    BY <1>1, <1>2, <1>6 DEF Demand
  <2> QED BY <1>1, <1>2, <1>3, <2>1 DEF IInv, SlotInv
<1> QED BY <1>5, <1>6

\* What the finally clause does to them.
LEMMA GiveBackSlots ==
  ASSUME IInv, NEW w \in Workers, GiveBack(w)
  PROVE  /\ Creating' = Creating \ {job[w]}
         /\ SlotInv' /\ avail' \in Nat
<1>1. job' = [job EXCEPT ![w] = NoNode] /\ job[w] \in Nodes
      /\ avail' = avail + Demand(job[w]) /\ avail \in Nat
      /\ job \in [Workers -> Nodes \cup {NoNode}]
  BY DEF GiveBack, IInv, TypeOK
<1>2. Creating' = Creating \ {job[w]}
  BY <1>1, NodesAssumption DEF Creating, IInv, PlaceInv
<1>3. Creating \in SUBSET SlotNodes
  BY DEF Creating
<1>4. CASE job[w] \in SlotNodes
  <2>1. job[w] \in Creating /\ avail' = avail + 1
    BY <1>1, <1>4 DEF Creating, Demand
  <2>2. Cardinality(Creating') = Cardinality(Creating) - 1
    BY <1>2, <1>3, <2>1, CreatingFinite, FS_RemoveElement
  <2> QED BY <1>1, <1>2, <1>3, <2>1, <2>2, CreatingFinite, BudgetType DEF IInv, SlotInv
<1>5. CASE job[w] \notin SlotNodes
  <2>1. Creating' = Creating /\ avail' = avail
    BY <1>1, <1>2, <1>3, <1>5 DEF Demand
  <2> QED BY <1>1, <1>2, <2>1 DEF IInv, SlotInv
<1> QED BY <1>4, <1>5

LEMMA Inductive == IInv /\ [Next]_vars => IInv'
<1> SUFFICES ASSUME IInv, [Next]_vars PROVE IInv'
  OBVIOUS
<1>t. TypeOK /\ PlaceInv /\ SlotInv /\ PhaseInv
  BY DEF IInv
<1> USE NodesAssumption, WorkersAssumption
<1>1. CASE Provision
  <2>1. TypeOK' /\ PlaceInv' /\ PhaseInv'
    BY <1>1, <1>t DEF Provision, TypeOK, PlaceInv, PhaseInv
  <2>2. SlotInv'
    BY <1>1, <1>t DEF Provision, SlotInv, Creating
  <2> QED BY <2>1, <2>2 DEF IInv
<1>2. CASE Teardown
  <2>1. TypeOK' /\ PlaceInv' /\ PhaseInv'
    BY <1>2, <1>t DEF Teardown, TypeOK, PlaceInv, PhaseInv
  <2>2. SlotInv'
    BY <1>2, <1>t DEF Teardown, SlotInv, Creating
  <2> QED BY <2>1, <2>2 DEF IInv
<1>3. ASSUME NEW w \in Workers, NEW n \in Nodes, Take(w, n)
      PROVE  IInv'
  <2>1. SlotInv' /\ avail' \in Nat
    BY <1>3, TakeSlots
  <2>2. TypeOK'
    BY <1>3, <1>t, <2>1 DEF Take, TypeOK
  <2>3. PlaceInv'
    BY <1>3, <1>t DEF Take, PlaceInv, TypeOK
  <2>4. PhaseInv'
    BY <1>3, <1>t DEF Take, PhaseInv, TypeOK
  <2> QED BY <2>1, <2>2, <2>3, <2>4 DEF IInv
<1>4. ASSUME NEW w \in Workers,
             Leave(w) \/ StaggerEnter(w) \/ Launch(w)
      PROVE  IInv'
  <2>1. TypeOK'
    BY <1>4, <1>t DEF Leave, StaggerEnter, Launch, TypeOK
  <2>2. PlaceInv'
    BY <1>4, <1>t DEF Leave, StaggerEnter, Launch, PlaceInv, TypeOK
  <2>3. PhaseInv'
    BY <1>4, <1>t DEF Leave, StaggerEnter, Launch, PhaseInv, TypeOK
  <2>4. SlotInv'
    BY <1>4, <1>t DEF Leave, StaggerEnter, Launch, SlotInv, Creating
  <2> QED BY <2>1, <2>2, <2>3, <2>4 DEF IInv
<1>5. ASSUME NEW w \in Workers, Record(w)
      PROVE  IInv'
  <2>1. TypeOK'
    BY <1>5, <1>t DEF Record, TypeOK
  <2>2. PlaceInv'
    BY <1>5, <1>t DEF Record, PlaceInv, TypeOK
  <2>3. PhaseInv'
    BY <1>5, <1>t DEF Record, PhaseInv, TypeOK
  <2>4. SlotInv'
    BY <1>5, <1>t DEF Record, SlotInv, Creating
  <2> QED BY <2>1, <2>2, <2>3, <2>4 DEF IInv
<1>6. ASSUME NEW w \in Workers, GiveBack(w)
      PROVE  IInv'
  <2>1. SlotInv' /\ avail' \in Nat
    BY <1>6, GiveBackSlots
  <2>2. TypeOK'
    BY <1>6, <1>t, <2>1 DEF GiveBack, TypeOK
  <2>3. PlaceInv'
    BY <1>6, <1>t DEF GiveBack, PlaceInv, TypeOK
  <2>4. PhaseInv'
    BY <1>6, <1>t DEF GiveBack, PhaseInv, TypeOK
  <2> QED BY <2>1, <2>2, <2>3, <2>4 DEF IInv
<1>7. CASE UNCHANGED vars
  <2>1. TypeOK' /\ PlaceInv' /\ PhaseInv'
    BY <1>7, <1>t DEF vars, TypeOK, PlaceInv, PhaseInv
  <2>2. SlotInv'
    BY <1>7, <1>t DEF vars, SlotInv, Creating
  <2> QED BY <2>1, <2>2 DEF IInv
<1> QED
  BY <1>1, <1>2, <1>3, <1>4, <1>5, <1>6, <1>7 DEF Next, Step

LEMMA Always == Spec => []IInv
BY Initially, Inductive, PTL DEF Spec

-----------------------------------------------------------------------------
(* What follows from it *)

\* Every variable has its type, the free slots never go below zero, and
\* stagger_lock is held by the thread inside _stagger.
THEOREM TypeCorrect == Spec => []TypeOK
<1>1. IInv => TypeOK
  BY DEF IInv
<1> QED BY <1>1, Always, PTL

\* The cap-safety guarantee of docs/scheduler-system.md: with any plan and any
\* number of threads, self-created and shared VPCs together stay within the cap.
THEOREM CapSafety == Spec => []CapSafe
<1>1. IInv => CapSafe
  <2> SUFFICES ASSUME IInv, Cap >= SharedVpcs
               PROVE  Cardinality(Creating) + SharedVpcs <= Cap
    BY DEF CapSafe
  <2>1. Creating \in SUBSET SlotNodes
    BY DEF Creating
  <2>2. avail \in Nat /\ Cardinality(Creating) \in Nat
    BY <2>1, CreatingFinite DEF IInv, TypeOK
  <2> QED BY <2>2, CapAssumption DEF IInv, SlotInv, Budget
<1> QED BY <1>1, Always, PTL

\* No thread's pop loses a lifecycle or hands it out twice: each is waiting, with
\* one thread, or recorded exactly once.
THEOREM EachNodeOnce == Spec => []RunOnce
<1>1. IInv => RunOnce
  <2> SUFFICES ASSUME IInv, NEW n \in Nodes
               PROVE  runs[n] + Cardinality(Running(n))
                        + (IF n \in pending THEN 1 ELSE 0) = 1
    BY DEF RunOnce
  <2>t. TypeOK /\ PlaceInv
    BY DEF IInv
  <2>1. CASE \A w \in Workers : job[w] # n
    <3>1. Running(n) = {}
      BY <2>1 DEF Running
    <3>2. Cardinality(Running(n)) = 0
      BY <3>1, FS_EmptySet
    <3>3. runs[n] = IF n \in pending THEN 0 ELSE 1
      BY <2>1, <2>t DEF PlaceInv
    <3> QED BY <3>2, <3>3
  <2>2. CASE \E w \in Workers : job[w] = n
    <3>1. PICK w \in Workers : job[w] = n
      BY <2>2
    <3>2. n \notin pending /\ runs[n] = IF pc[w] = "giveback" THEN 1 ELSE 0
      BY <3>1, <2>t, NodesAssumption DEF PlaceInv
    <3>3. \A v \in Workers : job[v] = n => v = w
      BY <3>1, <2>t, NodesAssumption DEF PlaceInv
    <3>4. Running(n) = IF pc[w] = "giveback" THEN {} ELSE {w}
      BY <3>1, <3>3 DEF Running
    <3>5. Cardinality(Running(n)) = IF pc[w] = "giveback" THEN 0 ELSE 1
      BY <3>4, FS_EmptySet, FS_Singleton
    <3> QED BY <3>2, <3>5
  <2> QED BY <2>1, <2>2
<1> QED BY <1>1, Always, PTL

\* No lifecycle is executed before the shared VPCs are up or after they are torn
\* down.
THEOREM SharedSafe == Spec => []SharedWhileRunning
<1>1. IInv => SharedWhileRunning
  BY DEF IInv, TypeOK, PhaseInv, SharedWhileRunning
<1> QED BY <1>1, Always, PTL

\* The counter under the condition variable implements the abstract slot pool.
THEOREM ImplementsPool == Spec => PoolSpec
<1>1. Init => Pool!Init
  BY NodesAssumption DEF Init, Creating, Pool!Init
<1>2. IInv /\ [Next]_vars => [Pool!Next]_Creating
  <2> SUFFICES ASSUME IInv, [Next]_vars
               PROVE  [Pool!Next]_Creating
    OBVIOUS
  <2>1. ASSUME NEW w \in Workers, NEW n \in Nodes, Take(w, n)
        PROVE  [Pool!Next]_Creating
    <3>1. Creating' = Creating \cup ({n} \cap SlotNodes) /\ n \notin Creating
          /\ SlotInv' /\ avail' \in Nat
      BY <2>1, TakeSlots
    <3>2. CASE n \in SlotNodes
      <4>1. Creating \in SUBSET SlotNodes /\ Creating' = Creating \cup {n}
        BY <3>1, <3>2 DEF Creating
      <4>2. Cardinality(Creating') = Cardinality(Creating) + 1
            /\ Cardinality(Creating) \in Nat
        BY <3>1, <4>1, CreatingFinite, FS_AddElement
      <4>3. Cardinality(Creating) < Budget
        BY <3>1, <4>2, BudgetType DEF SlotInv
      <4>4. Pool!Cardinality(Creating) = Cardinality(Creating)
        BY DEF Pool!Cardinality, Cardinality
      <4>5. Pool!Grant(n)
        BY <3>1, <4>1, <4>3, <4>4 DEF Pool!Grant
      <4> QED BY <3>2, <4>5 DEF Pool!Next
    <3>3. CASE n \notin SlotNodes
      BY <3>1, <3>3
    <3> QED BY <3>2, <3>3
  <2>2. ASSUME NEW w \in Workers, GiveBack(w)
        PROVE  [Pool!Next]_Creating
    <3>1. Creating' = Creating \ {job[w]} /\ Creating \in SUBSET SlotNodes
      BY <2>2, GiveBackSlots DEF Creating
    <3>2. CASE job[w] \in Creating
      <4>1. Pool!Free({job[w]})
        BY <3>1, <3>2 DEF Pool!Free
      <4> QED BY <3>1, <3>2, <4>1 DEF Pool!Next
    <3>3. CASE job[w] \notin Creating
      BY <3>1, <3>3
    <3> QED BY <3>2, <3>3
  <2>3. ASSUME \/ Provision \/ Teardown \/ UNCHANGED vars
               \/ \E w \in Workers : Leave(w) \/ StaggerEnter(w) \/ Launch(w) \/ Record(w)
        PROVE  Creating' = Creating
    BY <2>3 DEF Provision, Teardown, vars, Leave, StaggerEnter, Launch, Record, Creating
  <2> QED BY <2>1, <2>2, <2>3 DEF Next, Step
<1> QED
  BY <1>1, <1>2, Always, PTL DEF Spec, PoolSpec, Pool!Spec

-----------------------------------------------------------------------------
(* The native runner *)

\* The shared VPCs there may be in a run, all of them planned for.
Wanted == IF Needs(sel).any THEN {"main"} \cup Needs(sel).net ELSE {}

ThreadRecords(L) ==
  [at : {"idle", "run", "left"}, lc : L, made : Nat, units : Nat, waits : Nat]

\* The records of the threads, whatever lifecycles are popped.
ThreadInv ==
  /\ \E L : thr \in [NativeThreads -> ThreadRecords(L)]
  /\ \A w \in NativeThreads :
       /\ thr[w].units <= thr[w].made
       /\ thr[w].at # "run" => thr[w].made = 0

ProvisionInv ==
  /\ sel \in Selections
  /\ prov \in [at : {"main", "net", "resync", "done"}, net : SUBSET NetVpcs,
               ids : SUBSET SharedVpcIds]
  /\ prov.at # "done" => Needs(sel).any
  /\ prov.net \subseteq Needs(sel).net
  /\ prov.ids \subseteq Wanted /\ ctx \subseteq Wanted /\ up \subseteq Wanted

\* The count is what is planned for beside what is held and what was lost, until it is
\* set to what came up; and no more than the limit, whatever is still to come up.
CountInv ==
  /\ used \in Nat /\ stray \in Nat /\ miscounted \in BOOLEAN
  /\ ~miscounted =>
       /\ used <= VpcLimit
       /\ Cardinality(up) + Units + stray <= used
       /\ prov.at # "done" => used = Planned(sel) + Units + stray

NativeInv == ThreadInv /\ ProvisionInv /\ CountInv

LEMMA OwnPairs ==
  ASSUME NEW w, NEW k \in Nat
  PROVE  IsFiniteSet({w} \X (1 .. k)) /\ Cardinality({w} \X (1 .. k)) = k
<1>1. IsFiniteSet({w}) /\ Cardinality({w}) = 1
  BY FS_Singleton
<1>2. IsFiniteSet(1 .. k) /\ Cardinality(1 .. k) = k
  <2>1. 1 \in Int /\ k \in Int
    OBVIOUS
  <2>2. IsFiniteSet(1 .. k) /\ Cardinality(1 .. k) = IF 1 > k THEN 0 ELSE k - 1 + 1
    BY <2>1, FS_Interval
  <2> QED BY <2>2
<1>3. /\ IsFiniteSet({w} \X (1 .. k))
      /\ Cardinality({w} \X (1 .. k)) = Cardinality({w}) * Cardinality(1 .. k)
  BY <1>1, <1>2, FS_Product
<1>4. 1 * k = k
  OBVIOUS
<1> QED BY <1>1, <1>2, <1>3, <1>4

\* A set of pairs, so many for each thread, is finite.
LEMMA PairsFinite ==
  ASSUME NEW T \in SUBSET NativeThreads, NEW n \in [T -> Nat]
  PROVE  IsFiniteSet(UNION {{w} \X (1 .. n[w]) : w \in T})
<1> DEFINE f == [w \in T |-> {w} \X (1 .. n[w])]
<1> DEFINE R == {{w} \X (1 .. n[w]) : w \in T}
<1>1. IsFiniteSet(T)
  BY NativeAssumption, FS_Subset
<1>2. f \in Surjection(T, R)
  BY DEF Surjection
<1>3. IsFiniteSet(R)
  BY <1>1, <1>2, FS_Surjection
<1>4. ASSUME NEW S \in R PROVE IsFiniteSet(S)
  <2>1. PICK w \in T : S = {w} \X (1 .. n[w])
    OBVIOUS
  <2>2. n[w] \in Nat
    OBVIOUS
  <2> QED BY <2>1, <2>2, OwnPairs
<1> HIDE DEF R
<1>5. IsFiniteSet(UNION R)
  BY <1>3, <1>4, FS_UNION
<1> QED BY <1>5 DEF R

\* The pairs of one thread beside those of the others.
LEMMA PairsCounted ==
  ASSUME NEW w \in NativeThreads, NEW n \in [NativeThreads -> Nat]
  PROVE  LET others == UNION {{v} \X (1 .. n[v]) : v \in NativeThreads \ {w}}
             all == UNION {{v} \X (1 .. n[v]) : v \in NativeThreads}
         IN  /\ Cardinality(others) \in Nat
             /\ Cardinality(all) = Cardinality(others) + n[w]
<1> DEFINE T == NativeThreads \ {w}
<1> DEFINE m == [v \in T |-> n[v]]
<1> DEFINE others == UNION {{v} \X (1 .. n[v]) : v \in T}
<1> DEFINE own == {w} \X (1 .. n[w])
<1>1. UNION {{v} \X (1 .. n[v]) : v \in NativeThreads} = others \cup own
  OBVIOUS
<1>2. others \cap own = {}
  OBVIOUS
<1>3. IsFiniteSet(others)
  <2>1. T \in SUBSET NativeThreads /\ m \in [T -> Nat]
    OBVIOUS
  <2>2. IsFiniteSet(UNION {{v} \X (1 .. m[v]) : v \in T})
    BY <2>1, PairsFinite
  <2>3. UNION {{v} \X (1 .. m[v]) : v \in T} = others
    OBVIOUS
  <2> QED BY <2>2, <2>3
<1>4. IsFiniteSet(own) /\ Cardinality(own) = n[w]
  <2>1. n[w] \in Nat
    OBVIOUS
  <2> QED BY <2>1, OwnPairs
<1>5. n[w] \in Nat
  OBVIOUS
<1> HIDE DEF others, own
<1>6. Cardinality(others \cup own) = Cardinality(others) + n[w] - Cardinality({})
  BY <1>2, <1>3, <1>4, FS_Union
<1>7. Cardinality(others) \in Nat
  BY <1>3, FS_CardinalityType
<1>8. Cardinality(others \cup own) = Cardinality(others) + n[w]
  BY <1>5, <1>6, <1>7, FS_EmptySet
<1> QED BY <1>1, <1>7, <1>8 DEF others

\* The units when nobody's change, and when one thread's do.
LEMMA UnitsOf ==
  ASSUME ThreadInv
  PROVE  /\ Units \in Nat
         /\ \A w \in NativeThreads : thr[w].units \in Nat /\ thr[w].made \in Nat
                                     /\ thr[w].units <= Units
<1>1. \A w \in NativeThreads : thr[w].units \in Nat /\ thr[w].made \in Nat
  BY DEF ThreadInv, ThreadRecords
<1> DEFINE n == [w \in NativeThreads |-> thr[w].units]
<1>2. n \in [NativeThreads -> Nat]
  BY <1>1
<1>3. Units = Cardinality(UNION {{w} \X (1 .. n[w]) : w \in NativeThreads})
  BY DEF Units, HeldUnits
<1>4. Units \in Nat
  BY <1>2, <1>3, PairsFinite, FS_CardinalityType
<1>5. ASSUME NEW w \in NativeThreads PROVE thr[w].units <= Units
  <2>1. n[w] = thr[w].units
    OBVIOUS
  <2> DEFINE others == UNION {{v} \X (1 .. n[v]) : v \in NativeThreads \ {w}}
  <2> HIDE DEF n
  <2>2. Cardinality(others) \in Nat /\ Units = Cardinality(others) + n[w]
    BY <1>2, <1>3, PairsCounted
  <2> QED BY <1>1, <2>1, <2>2
<1> QED BY <1>1, <1>4, <1>5

LEMMA UnitsMove ==
  ASSUME ThreadInv, ThreadInv', NEW w \in NativeThreads,
         \A v \in NativeThreads \ {w} : thr'[v].units = thr[v].units
  PROVE  Units' = Units - thr[w].units + thr'[w].units
<1>1. \A v \in NativeThreads : thr[v].units \in Nat /\ thr'[v].units \in Nat
  BY DEF ThreadInv, ThreadRecords
<1> DEFINE n == [v \in NativeThreads |-> thr[v].units]
<1> DEFINE m == [v \in NativeThreads |-> thr'[v].units]
<1> DEFINE others == UNION {{v} \X (1 .. n[v]) : v \in NativeThreads \ {w}}
<1> DEFINE othersNext == UNION {{v} \X (1 .. m[v]) : v \in NativeThreads \ {w}}
<1>2. n \in [NativeThreads -> Nat] /\ m \in [NativeThreads -> Nat]
  BY <1>1
<1>3. n[w] = thr[w].units /\ m[w] = thr'[w].units /\ others = othersNext
  OBVIOUS
<1>4. Units = Cardinality(UNION {{v} \X (1 .. n[v]) : v \in NativeThreads})
  BY DEF Units, HeldUnits
<1>5. Units' = Cardinality(UNION {{v} \X (1 .. m[v]) : v \in NativeThreads})
  BY DEF Units, HeldUnits
<1> HIDE DEF n, m
<1>6. Cardinality(others) \in Nat /\ Units = Cardinality(others) + n[w]
  BY <1>2, <1>4, PairsCounted
<1>7. Units' = Cardinality(othersNext) + m[w]
  BY <1>2, <1>5, PairsCounted
<1>8. Units' = Cardinality(others) + m[w]
  BY <1>3, <1>7
<1>9. n[w] \in Nat /\ m[w] \in Nat
  BY <1>1, <1>3
<1> HIDE DEF others, othersNext
<1>10. Units' = Units - n[w] + m[w]
  BY <1>6, <1>8, <1>9
<1> QED BY <1>3, <1>10

LEMMA UnitsStay ==
  ASSUME \A w \in NativeThreads : thr'[w].units = thr[w].units
  PROVE  Units' = Units
<1>1. HeldUnits' = HeldUnits
  BY DEF HeldUnits
<1> QED BY <1>1 DEF Units

\* What came up is no more than what is planned for, and that fits.
LEMMA PlannedFits ==
  ASSUME sel \in Selections, NEW S \in SUBSET Wanted
  PROVE  /\ Cardinality(S) \in Nat /\ Cardinality(S) <= Planned(sel)
         /\ Planned(sel) \in Nat /\ Planned(sel) <= VpcLimit
<1>1. Needs(sel).net \subseteq NetVpcs
  BY DEF Needs
<1>2. /\ IsFiniteSet({"main", "a", "b"}) /\ Cardinality({"main", "a", "b"}) = 3
      /\ IsFiniteSet({"main"}) /\ Cardinality({"main"}) = 1
  <2>1. IsFiniteSet({"main"}) /\ Cardinality({"main"}) = 1
    BY FS_Singleton
  <2>2. IsFiniteSet({"main"} \cup {"a"}) /\ Cardinality({"main"} \cup {"a"}) = 2
    BY <2>1, FS_AddElement
  <2>3. /\ IsFiniteSet(({"main"} \cup {"a"}) \cup {"b"})
        /\ Cardinality(({"main"} \cup {"a"}) \cup {"b"}) = 3
    BY <2>2, FS_AddElement
  <2>4. ({"main"} \cup {"a"}) \cup {"b"} = {"main", "a", "b"}
    OBVIOUS
  <2> QED BY <2>1, <2>3, <2>4
<1>3. Cardinality(SharedVpcIds) = 3
  <2>1. SharedVpcIds = {"main", "a", "b"}
    BY DEF SharedVpcIds, NetVpcs
  <2> QED BY <1>2, <2>1
<1>4. VpcLimit \in Nat /\ VpcLimit >= 3
  BY <1>3, NativeAssumption
<1>5. CASE ~Needs(sel).any
  <2>1. S = {} /\ Planned(sel) = 0
    BY <1>5 DEF Wanted, Planned
  <2> QED BY <1>4, <2>1, FS_EmptySet
<1>6. CASE Needs(sel).any /\ Needs(sel).net = {}
  <2>1. S \in SUBSET {"main"} /\ Planned(sel) = 1
    BY <1>6 DEF Wanted, Planned
  <2>2. IsFiniteSet(S) /\ Cardinality(S) <= 1
    BY <1>2, <2>1, FS_Subset
  <2>3. Cardinality(S) \in Nat
    BY <2>2, FS_CardinalityType
  <2> QED BY <1>4, <2>1, <2>2, <2>3
<1>7. CASE Needs(sel).any /\ Needs(sel).net # {}
  <2>1. S \in SUBSET {"main", "a", "b"} /\ Planned(sel) = 3
    BY <1>1, <1>7 DEF Wanted, Planned, NetVpcs
  <2> DEFINE All == {"main", "a", "b"}
  <2>2. IsFiniteSet(All) /\ Cardinality(All) = 3 /\ S \in SUBSET All
    BY <1>2, <2>1
  <2> HIDE DEF All
  <2>3. IsFiniteSet(S) /\ Cardinality(S) <= 3
    BY <2>2, FS_Subset
  <2>4. Cardinality(S) \in Nat
    BY <2>3, FS_CardinalityType
  <2> QED BY <1>4, <2>1, <2>3, <2>4
<1> QED BY <1>5, <1>6, <1>7

\* A step of one thread.
LEMMA ThreadMoves ==
  ASSUME ThreadInv, NEW w \in NativeThreads, NEW L, NEW r \in ThreadRecords(L),
         thr' = [thr EXCEPT ![w] = r],
         r.units <= r.made, r.at # "run" => r.made = 0
  PROVE  /\ ThreadInv'
         /\ Units' = Units - thr[w].units + r.units
         /\ Units' \in Nat
<1>1. PICK K : thr \in [NativeThreads -> ThreadRecords(K)]
  BY DEF ThreadInv
<1> DEFINE M == K \cup L
<1>2. \A v \in NativeThreads : thr[v] \in ThreadRecords(M)
  BY <1>1 DEF ThreadRecords
<1>3. r \in ThreadRecords(M)
  BY DEF ThreadRecords
<1> HIDE DEF M
<1>4. /\ thr' \in [NativeThreads -> ThreadRecords(M)] /\ thr'[w] = r
      /\ \A v \in NativeThreads \ {w} : thr'[v] = thr[v]
  BY <1>1, <1>2, <1>3
<1>5. ThreadInv'
  BY <1>4 DEF ThreadInv
<1>6. Units' = Units - thr[w].units + r.units
  BY <1>4, <1>5, UnitsMove
<1>7. thr[w].units \in Nat /\ Units \in Nat /\ thr[w].units <= Units /\ r.units \in Nat
  BY <1>3, UnitsOf DEF ThreadRecords
<1>8. Units' \in Nat
  BY <1>6, <1>7
<1> QED BY <1>5, <1>6, <1>8

\* The count after it, where what is planned for and came up stays.
LEMMA CountMoves ==
  ASSUME NativeInv, ThreadInv', Units' \in Nat, UNCHANGED <<sel, prov, ctx, up>>,
         used' \in Nat, stray' \in Nat, miscounted' \in BOOLEAN,
         ~miscounted' =>
           /\ ~miscounted /\ used' <= VpcLimit
           /\ used' + Units + stray = used + Units' + stray'
  PROVE  NativeInv'
<1>1. ProvisionInv'
  BY DEF NativeInv, ProvisionInv, Wanted
<1>2. Units \in Nat /\ Units' \in Nat
  BY UnitsOf DEF NativeInv
<1>3. Cardinality(up) \in Nat /\ Planned(sel) \in Nat /\ used \in Nat /\ stray \in Nat
  BY PlannedFits DEF NativeInv, ProvisionInv, CountInv
<1>4. CountInv'
  <2> SUFFICES ASSUME ~miscounted'
               PROVE  /\ used' <= VpcLimit
                      /\ Cardinality(up) + Units' + stray' <= used'
                      /\ prov.at # "done" => used' = Planned(sel) + Units' + stray'
    BY <1>1 DEF CountInv, Planned, Needs
  <2>1. /\ Cardinality(up) + Units + stray <= used
        /\ prov.at # "done" => used = Planned(sel) + Units + stray
        /\ used' <= VpcLimit
        /\ used' + Units + stray = used + Units' + stray'
    BY DEF NativeInv, CountInv
  <2>2. Cardinality(up) + Units' + stray' <= used'
    BY <1>2, <1>3, <2>1
  <2>3. prov.at # "done" => used' = Planned(sel) + Units' + stray'
    <3>1. ASSUME used = Planned(sel) + Units + stray
          PROVE  used' = Planned(sel) + Units' + stray'
      BY <1>2, <1>3, <2>1, <3>1
    <3> QED BY <2>1, <3>1
  <2> QED BY <2>1, <2>2, <2>3
<1> QED BY <1>1, <1>4 DEF NativeInv

LEMMA FreeThread == Free \in ThreadRecords({"none"}) /\ Free.units = 0 /\ Free.made = 0
BY DEF Free, ThreadRecords

LEMMA PopKeeps == ASSUME NativeInv, NEW w \in NativeThreads, Pop(w) PROVE NativeInv'
<1>1. PICK i \in DOMAIN todo :
        thr' = [thr EXCEPT ![w] = [Free EXCEPT !.at = "run", !.lc = todo[i]]]
  BY DEF Pop
<1> DEFINE r == [Free EXCEPT !.at = "run", !.lc = todo[i]]
<1>2. \E L : r \in ThreadRecords(L) /\ r.units = 0 /\ r.made = 0 /\ r.at = "run"
  <2>1. r \in ThreadRecords({todo[i]}) /\ r.units = 0 /\ r.made = 0 /\ r.at = "run"
    BY DEF Free, ThreadRecords
  <2> QED BY <2>1
<1>3. thr' = [thr EXCEPT ![w] = r]
  BY <1>1
<1> HIDE DEF r
<1>4. ThreadInv' /\ Units' = Units - thr[w].units + r.units /\ Units' \in Nat
  <2>1. PICK L : r \in ThreadRecords(L) /\ r.units = 0 /\ r.made = 0 /\ r.at = "run"
    BY <1>2
  <2>2. r.units <= r.made
    BY <2>1
  <2> QED BY <1>3, <2>1, <2>2, ThreadMoves DEF NativeInv
<1>5. thr[w].units = 0 /\ Units \in Nat
  BY UnitsOf DEF Pop, NativeInv, ThreadInv
<1>6. Units' = Units
  BY <1>2, <1>4, <1>5
<1> QED BY <1>4, <1>5, <1>6, CountMoves DEF Pop, NativeInv, CountInv, background

LEMMA LeavePoolKeeps ==
  ASSUME NativeInv, NEW w \in NativeThreads, LeavePool(w) PROVE NativeInv'
<1> DEFINE r == [thr[w] EXCEPT !.at = "left"]
<1>1. PICK L : thr[w] \in ThreadRecords(L)
  BY DEF NativeInv, ThreadInv
<1>2. /\ r \in ThreadRecords(L) /\ r.units = thr[w].units /\ r.made = thr[w].made
      /\ r.at = "left" /\ thr[w].at = "idle"
  BY <1>1 DEF ThreadRecords, LeavePool
<1>3. thr' = [thr EXCEPT ![w] = r]
  BY DEF LeavePool
<1> HIDE DEF r
<1>4. thr[w].units <= thr[w].made /\ thr[w].made = 0
  BY <1>2 DEF NativeInv, ThreadInv
<1>5. ThreadInv' /\ Units' = Units - thr[w].units + r.units /\ Units' \in Nat
  BY <1>2, <1>3, <1>4, ThreadMoves DEF NativeInv
<1>6. thr[w].units \in Nat /\ Units \in Nat
  BY UnitsOf DEF NativeInv
<1>7. Units' = Units
  BY <1>2, <1>5, <1>6
<1> QED BY <1>5, <1>6, <1>7, CountMoves DEF LeavePool, NativeInv, CountInv, background

LEMMA ReserveVpcKeeps ==
  ASSUME NativeInv, NEW w \in NativeThreads, ReserveVpc(w) PROVE NativeInv'
<1> DEFINE made == thr[w].made + 1
<1> DEFINE units == thr[w].units + 1
<1> DEFINE r == [thr[w] EXCEPT !.made = made, !.units = units]
<1>1. PICK L : thr[w] \in ThreadRecords(L)
  BY DEF NativeInv, ThreadInv
<1>2. thr[w].units \in Nat /\ thr[w].made \in Nat /\ Units \in Nat
  BY UnitsOf DEF NativeInv
<1>3. thr' = [thr EXCEPT ![w] = r]
  BY DEF ReserveVpc
<1>4. made \in Nat /\ units \in Nat /\ units <= made
  BY <1>2 DEF NativeInv, ThreadInv
<1> HIDE DEF made, units
<1>5. /\ r \in ThreadRecords(L) /\ r.units = units /\ r.made = made /\ r.at = "run"
      /\ r.units <= r.made
  BY <1>1, <1>4 DEF ThreadRecords, ReserveVpc
<1> HIDE DEF r
<1>6. ThreadInv' /\ Units' = Units - thr[w].units + r.units /\ Units' \in Nat
  BY <1>3, <1>4, <1>5, ThreadMoves DEF NativeInv
<1>7. Units' = Units + 1
  BY <1>2, <1>5, <1>6 DEF units
<1>8. used \in Nat /\ used < VpcLimit /\ used' = used + 1 /\ stray \in Nat /\ VpcLimit \in Nat
  BY NativeAssumption DEF ReserveVpc, NativeInv, CountInv
<1>9. used' + Units + stray = used + Units' + stray /\ used' <= VpcLimit /\ used' \in Nat
  BY <1>2, <1>7, <1>8
<1> QED BY <1>6, <1>8, <1>9, CountMoves DEF ReserveVpc, NativeInv, CountInv, background

\* A unit that is held is in the count.
LEMMA TouchVpcKeeps ==
  ASSUME NativeInv, NEW w \in NativeThreads, TouchVpc(w) PROVE NativeInv'
<1> DEFINE r == [thr[w] EXCEPT !.units = @ - 1]
<1>1. PICK L : thr[w] \in ThreadRecords(L)
  BY DEF NativeInv, ThreadInv
<1>2. /\ thr[w].units \in Nat /\ thr[w].made \in Nat /\ Units \in Nat
      /\ thr[w].units <= Units /\ thr[w].units > 0 /\ thr[w].units <= thr[w].made
  BY UnitsOf DEF NativeInv, ThreadInv, TouchVpc
<1>3. /\ r \in ThreadRecords(L) /\ r.units = thr[w].units - 1 /\ r.made = thr[w].made
      /\ r.at = "run"
  BY <1>1, <1>2 DEF ThreadRecords, TouchVpc
<1>4. thr' = [thr EXCEPT ![w] = r]
  BY <1>1 DEF TouchVpc, NativeInv, ThreadInv, ThreadRecords
<1> HIDE DEF r
<1>5. r.units <= r.made
  BY <1>2, <1>3
<1>6. ThreadInv' /\ Units' = Units - thr[w].units + r.units /\ Units' \in Nat
  BY <1>3, <1>4, <1>5, ThreadMoves DEF NativeInv
<1>7. Units' = Units - 1
  BY <1>2, <1>3, <1>6
<1>8. used \in Nat /\ stray \in Nat /\ VpcLimit \in Nat /\ used' = IF used > 1 THEN used - 1 ELSE 0
  BY NativeAssumption DEF TouchVpc, Returned, NativeInv, CountInv
<1>9. ~miscounted => used >= 1 /\ used <= VpcLimit
  <2>1. Cardinality(up) \in Nat
    BY PlannedFits DEF NativeInv, ProvisionInv
  <2> QED BY <1>2, <1>8, <2>1 DEF NativeInv, CountInv
<1>10. used' \in Nat
  BY <1>8
<1>11. ~miscounted => used' = used - 1
  BY <1>8, <1>9
<1>12. ~miscounted => used' + Units + stray = used + Units' + stray /\ used' <= VpcLimit
  BY <1>2, <1>7, <1>8, <1>9, <1>11
<1> QED BY <1>6, <1>8, <1>10, <1>12, CountMoves DEF TouchVpc, NativeInv, CountInv, background

\* A teardown returns what is held, but for what was lost, or the count is off.
LEMMA TornDownCounts ==
  ASSUME NativeInv, NEW w \in NativeThreads, NEW lost \in {0, 1}, lost <= thr[w].units,
         TornDown(w, lost), ThreadInv', Units' \in Nat, Units' = Units - thr[w].units,
         UNCHANGED <<sel, prov, ctx, up>>
  PROVE  NativeInv'
<1>1. /\ thr[w].units \in Nat /\ thr[w].made \in Nat /\ Units \in Nat
      /\ thr[w].units <= Units /\ thr[w].units <= thr[w].made
  BY UnitsOf DEF NativeInv, ThreadInv
<1>2. used \in Nat /\ stray \in Nat /\ VpcLimit \in Nat /\ miscounted \in BOOLEAN
  BY NativeAssumption DEF NativeInv, CountInv
<1> DEFINE n == thr[w].made - lost
<1>3. n \in Nat
  BY <1>1
<1>4. /\ used' = IF used > n THEN used - n ELSE 0
      /\ miscounted' = (miscounted \/ thr[w].made > thr[w].units)
      /\ stray' = stray + lost
  BY DEF TornDown, Returned
<1>5. used' \in Nat /\ stray' \in Nat /\ miscounted' \in BOOLEAN
  BY <1>2, <1>3, <1>4
<1>6. ASSUME ~miscounted'
      PROVE  /\ ~miscounted /\ used' <= VpcLimit
             /\ used' + Units + stray = used + Units' + stray'
  <2>0. ~miscounted /\ ~(thr[w].made > thr[w].units)
    BY <1>4, <1>6
  <2>1. ~miscounted /\ thr[w].made = thr[w].units
    BY <1>1, <2>0
  <2>2. Cardinality(up) \in Nat
    BY PlannedFits DEF NativeInv, ProvisionInv
  <2>3. used <= VpcLimit /\ Cardinality(up) + Units + stray <= used
    BY <2>1 DEF NativeInv, CountInv
  <2>4. used >= n
    BY <1>1, <1>2, <2>1, <2>2, <2>3
  <2>5. used' = used - n
    BY <1>2, <1>3, <1>4, <2>4
  <2>6. used' + thr[w].units = used + lost /\ Units' + thr[w].units = Units
    BY <1>1, <1>2, <1>3, <2>1, <2>4, <2>5
  <2>7. used' + Units + stray = used + Units' + stray'
    BY <1>1, <1>2, <1>4, <1>5, <2>6
  <2>8. used' <= VpcLimit
    BY <1>2, <1>3, <2>3, <2>4, <2>5
  <2> QED BY <2>1, <2>7, <2>8
<1> QED BY <1>5, <1>6, CountMoves

\* A thread that is free again holds nothing.
LEMMA ThreadFree ==
  ASSUME ThreadInv, NEW w \in NativeThreads, thr' = [thr EXCEPT ![w] = Free]
  PROVE  ThreadInv' /\ Units' = Units - thr[w].units /\ Units' \in Nat
<1>1. Free.units <= Free.made
  BY FreeThread
<1>2. ThreadInv' /\ Units' = Units - thr[w].units + Free.units /\ Units' \in Nat
  BY <1>1, FreeThread, ThreadMoves
<1>3. Units \in Nat /\ thr[w].units \in Nat
  BY UnitsOf
<1> QED BY <1>2, <1>3, FreeThread

LEMMA NoRoomKeeps ==
  ASSUME NativeInv, NEW w \in NativeThreads, NoRoom(w) PROVE NativeInv'
<1>1. /\ TornDown(w, 0) /\ UNCHANGED <<sel, prov, ctx, up>> /\ thr[w].at = "run"
      /\ 0 <= thr[w].units
  BY UnitsOf DEF NoRoom, background, NativeInv
<1>2. CASE thr' = [thr EXCEPT ![w] = Free]
  <2>1. ThreadInv' /\ Units' = Units - thr[w].units /\ Units' \in Nat
    BY <1>2, ThreadFree DEF NativeInv
  <2> QED BY <1>1, <2>1, TornDownCounts
<1>3. CASE thr' = [thr EXCEPT ![w] = [thr[w] EXCEPT !.made = 0, !.units = 0,
                                                    !.waits = thr[w].waits + 1]]
  <2> DEFINE waits == thr[w].waits + 1
  <2> DEFINE r == [thr[w] EXCEPT !.made = 0, !.units = 0, !.waits = waits]
  <2>1. PICK L : thr[w] \in ThreadRecords(L)
    BY DEF NativeInv, ThreadInv
  <2>2. waits \in Nat
    BY <2>1 DEF ThreadRecords
  <2>3. thr' = [thr EXCEPT ![w] = r]
    BY <1>3
  <2> HIDE DEF waits
  <2>4. r \in ThreadRecords(L) /\ r.units = 0 /\ r.made = 0
    BY <2>1, <2>2 DEF ThreadRecords
  <2> HIDE DEF r
  <2>5. r.units <= r.made
    BY <2>4
  <2>6. ThreadInv' /\ Units' = Units - thr[w].units + r.units /\ Units' \in Nat
    BY <2>3, <2>4, <2>5, ThreadMoves DEF NativeInv
  <2>7. Units' = Units - thr[w].units
    BY <2>4, <2>6, UnitsOf DEF NativeInv
  <2> QED BY <1>1, <2>6, <2>7, TornDownCounts
<1> QED BY <1>2, <1>3 DEF NoRoom, Result

LEMMA PassedKeeps ==
  ASSUME NativeInv, NEW w \in NativeThreads, Passed(w) PROVE NativeInv'
<1>1. ThreadInv' /\ Units' = Units - thr[w].units /\ Units' \in Nat
  BY ThreadFree DEF Passed, Result, NativeInv
<1>2. Units' = Units
  BY <1>1, UnitsOf DEF Passed, NativeInv
<1> QED BY <1>1, <1>2, CountMoves DEF Passed, NativeInv, CountInv, background

LEMMA NotPassedKeeps ==
  ASSUME NativeInv, NEW w \in NativeThreads, NotPassed(w) PROVE NativeInv'
<1>1. PICK lost \in {0, 1} : lost <= thr[w].units /\ TornDown(w, lost)
  BY DEF NotPassed
<1>2. ThreadInv' /\ Units' = Units - thr[w].units /\ Units' \in Nat
  BY ThreadFree DEF NotPassed, Result, NativeInv
<1> QED BY <1>1, <1>2, TornDownCounts DEF NotPassed, background

-----------------------------------------------------------------------------
\* The provisioning: what comes up was planned for.
LEMMA ProvisionKeeps ==
  ASSUME NativeInv, UNCHANGED <<sel, threads, used, stray, miscounted>>,
         prov.at # "done", prov'.at # "done", ProvisionInv'
  PROVE  NativeInv'
<1>1. ThreadInv'
  BY DEF NativeInv, ThreadInv, threads
<1>2. Units' = Units
  BY UnitsStay DEF threads
<1>3. Planned(sel)' = Planned(sel) /\ Wanted' = Wanted
  BY DEF Planned, Needs, Wanted
<1>4. /\ sel \in Selections /\ up' \in SUBSET Wanted
      /\ CountInv
  BY <1>3 DEF NativeInv, ProvisionInv
<1>5. Cardinality(up') \in Nat /\ Cardinality(up') <= Planned(sel) /\ Planned(sel) \in Nat
  BY <1>4, PlannedFits
<1>6. Units \in Nat /\ stray \in Nat
  BY UnitsOf DEF NativeInv, CountInv
<1>7. ~miscounted => Cardinality(up') + Units + stray <= used
  BY <1>4, <1>5, <1>6 DEF CountInv
<1>8. CountInv'
  BY <1>2, <1>3, <1>4, <1>7 DEF CountInv
<1> QED BY <1>1, <1>8 DEF NativeInv

LEMMA ProvisioningKeeps ==
  ASSUME NativeInv,
         AdoptGiven \/ CreateMain \/ (\E t \in NetVpcs : CreateNet(t)) \/ WaitMain
  PROVE  NativeInv'
<1>1. ProvisionInv /\ prov.at # "done" /\ Needs(sel).any
  BY DEF NativeInv, ProvisionInv, AdoptGiven, CreateMain, CreateNet, WaitMain, ProvisionAt
<1>2. /\ prov \in [at : {"main", "net", "resync", "done"}, net : SUBSET NetVpcs,
                   ids : SUBSET SharedVpcIds]
      /\ prov.ids \subseteq Wanted /\ ctx \subseteq Wanted /\ up \subseteq Wanted
      /\ prov.net \subseteq Needs(sel).net
      /\ Wanted = {"main"} \cup Needs(sel).net /\ sel \in Selections
  BY <1>1 DEF ProvisionInv, Wanted
<1>3. "main" \in SharedVpcIds /\ NetVpcs \subseteq SharedVpcIds
  BY DEF SharedVpcIds
<1>4. CASE AdoptGiven
  <2>1. /\ UNCHANGED <<sel, threads, used, stray, miscounted, up>> /\ ctx' = sel.given
        /\ prov' = [prov EXCEPT !.at = "resync"]
    BY <1>4 DEF AdoptGiven
  <2>2. sel.given \subseteq Wanted
    BY <1>2, NativeAssumption
  <2>3. ProvisionInv' /\ prov'.at # "done"
    BY <1>1, <1>2, <2>1, <2>2 DEF ProvisionInv, Wanted
  <2> QED BY <1>1, <2>1, <2>3, ProvisionKeeps
<1>5. CASE CreateMain
  <2>1. /\ UNCHANGED <<sel, threads, used, stray, miscounted, ctx>>
        /\ up' \subseteq up \cup {"main"}
        /\ prov' \in {[prov EXCEPT !.at = "net", !.ids = {"main"}],
                      [prov EXCEPT !.at = "resync"]}
    BY <1>5 DEF CreateMain
  <2>2. /\ prov' \in [at : {"net", "resync"}, net : SUBSET NetVpcs, ids : SUBSET SharedVpcIds]
        /\ prov'.net = prov.net /\ prov'.ids \subseteq prov.ids \cup {"main"}
    BY <1>2, <1>3, <2>1
  <2>3. ProvisionInv' /\ prov'.at # "done"
    BY <1>1, <1>2, <2>1, <2>2 DEF ProvisionInv, Wanted
  <2> QED BY <1>1, <2>1, <2>3, ProvisionKeeps
<1>6. ASSUME NEW t \in NetVpcs, CreateNet(t) PROVE NativeInv'
  <2>1. /\ UNCHANGED <<sel, threads, used, stray, miscounted, ctx>>
        /\ up' \subseteq up \cup {t} /\ t \in prov.net
        /\ prov' \in {[prov EXCEPT !.net = @ \ {t}, !.ids = @ \cup {t}],
                      [prov EXCEPT !.net = @ \ {t}], [prov EXCEPT !.at = "resync"]}
    BY <1>6 DEF CreateNet
  <2> DEFINE net == prov.net \ {t}
  <2> DEFINE ids == prov.ids \cup {t}
  <2>2. net \in SUBSET NetVpcs /\ net \subseteq prov.net /\ ids \in SUBSET SharedVpcIds
    BY <1>2, <1>3
  <2>3. prov' \in {[prov EXCEPT !.net = net, !.ids = ids], [prov EXCEPT !.net = net],
                   [prov EXCEPT !.at = "resync"]}
    BY <1>2, <2>1
  <2> HIDE DEF net, ids
  <2>4. /\ prov' \in [at : {"main", "net", "resync", "done"}, net : SUBSET NetVpcs,
                      ids : SUBSET SharedVpcIds]
        /\ prov'.net \subseteq prov.net /\ prov'.ids \in {prov.ids, ids}
        /\ prov'.at \in {prov.at, "resync"}
    BY <1>2, <2>2, <2>3
  <2>5. prov'.ids \subseteq prov.ids \cup {t}
    BY <2>4 DEF ids
  <2>6. ProvisionInv' /\ prov'.at # "done"
    BY <1>1, <1>2, <2>1, <2>4, <2>5 DEF ProvisionInv, Wanted
  <2> QED BY <1>1, <2>1, <2>6, ProvisionKeeps
<1>7. CASE WaitMain
  <2>1. /\ UNCHANGED <<sel, threads, used, stray, miscounted, up>> /\ ctx' \in {ctx, prov.ids}
        /\ prov' = [prov EXCEPT !.at = "resync"]
    BY <1>7 DEF WaitMain
  <2>2. ProvisionInv' /\ prov'.at # "done"
    BY <1>1, <1>2, <2>1 DEF ProvisionInv, Wanted
  <2> QED BY <1>1, <2>1, <2>2, ProvisionKeeps
<1> QED BY <1>4, <1>5, <1>6, <1>7

\* The resynchronisation leaves a count that is what is owed, or is marked as off.
LEMMA ResyncKeeps == ASSUME NativeInv, Resync PROVE NativeInv'
<1>1. /\ prov.at # "done" /\ prov' = [prov EXCEPT !.at = "done"]
      /\ UNCHANGED <<sel, threads, ctx, up, stray>>
  BY DEF Resync, ProvisionAt
<1>2. ThreadInv'
  BY <1>1 DEF NativeInv, ThreadInv, threads
<1>3. Units' = Units /\ Units \in Nat /\ stray \in Nat
  BY <1>1, UnitsStay, UnitsOf DEF threads, NativeInv, CountInv
<1>4. ProvisionInv' /\ prov'.at = "done"
  BY <1>1 DEF NativeInv, ProvisionInv, Wanted
<1>5. /\ Cardinality(ctx) \in Nat /\ Cardinality(up) \in Nat
      /\ Cardinality(ctx) <= Planned(sel) /\ Planned(sel) <= VpcLimit /\ Planned(sel) \in Nat
  BY PlannedFits DEF NativeInv, ProvisionInv
<1>6. CountInv'
  <2>1. CASE UNCHANGED <<used, miscounted>>
    BY <1>1, <1>3, <1>4, <2>1 DEF NativeInv, CountInv
  <2>2. CASE /\ used' = Cardinality(ctx)
             /\ miscounted' = (miscounted \/ Owed # Cardinality(ctx))
    <3>1. ~miscounted' => Cardinality(up) + Units + stray = Cardinality(ctx)
      BY <2>2 DEF Owed
    <3>2. Cardinality(ctx) <= VpcLimit
      BY <1>5, NativeAssumption
    <3>3. miscounted' \in BOOLEAN
      BY <2>2 DEF NativeInv, CountInv
    <3>4. ~miscounted' => Cardinality(up) + Units + stray <= used'
      BY <1>5, <2>2, <3>1
    <3> QED BY <1>1, <1>3, <1>4, <1>5, <2>2, <3>2, <3>3, <3>4 DEF CountInv
  <2> QED BY <2>1, <2>2 DEF Resync
<1> QED BY <1>2, <1>4, <1>6 DEF NativeInv

\* The joins, and the teardown, which takes shared VPCs away.
LEMMA ReturnKeeps ==
  ASSUME NativeInv, JoinThreads \/ JoinProvision \/ SharedTeardown
  PROVE  NativeInv'
<1>1. /\ up' \subseteq up /\ UNCHANGED <<sel, threads, used, background, stray, miscounted>>
  BY DEF JoinThreads, JoinProvision, SharedTeardown
<1>2. ThreadInv'
  BY <1>1 DEF NativeInv, ThreadInv, threads
<1>3. Units' = Units /\ Units \in Nat /\ stray \in Nat /\ used \in Nat
  BY <1>1, UnitsStay, UnitsOf DEF threads, NativeInv, CountInv
<1>4. ProvisionInv'
  BY <1>1 DEF NativeInv, ProvisionInv, Wanted, background
<1>5. Cardinality(up') \in Nat /\ Cardinality(up) \in Nat /\ Cardinality(up') <= Cardinality(up)
  <2>1. up \in SUBSET Wanted /\ up' \in SUBSET Wanted /\ sel \in Selections
    BY <1>1 DEF NativeInv, ProvisionInv
  <2>2. IsFiniteSet(up)
    <3>1. up \in SUBSET (({"main"} \cup {"a"}) \cup {"b"})
      BY <2>1 DEF Wanted, Needs, NetVpcs
    <3>2. IsFiniteSet(({"main"} \cup {"a"}) \cup {"b"})
      BY FS_Singleton, FS_AddElement
    <3> QED BY <3>1, <3>2, FS_Subset
  <2> QED BY <1>1, <2>1, <2>2, FS_Subset, PlannedFits
<1>6. ~miscounted => Cardinality(up') + Units + stray <= used
  BY <1>3, <1>5 DEF NativeInv, CountInv
<1>7. CountInv'
  BY <1>1, <1>3, <1>6 DEF NativeInv, CountInv, background, Planned, Needs
<1> QED BY <1>2, <1>4, <1>7 DEF NativeInv

LEMMA NativeInitially == NativeInit => NativeInv
<1> SUFFICES ASSUME NativeInit PROVE NativeInv
  OBVIOUS
<1>1. ThreadInv
  <2>1. thr \in [NativeThreads -> ThreadRecords({"none"})]
    BY FreeThread DEF NativeInit
  <2>2. \A w \in NativeThreads : thr[w] = Free
    BY DEF NativeInit
  <2> QED BY <2>1, <2>2, FreeThread DEF ThreadInv
<1>2. ProvisionInv
  <2>1. Needs(sel).net \subseteq NetVpcs
    BY DEF Needs
  <2>2. sel \in Selections /\ up = sel.given /\ ctx = {}
    BY DEF NativeInit
  <2>3. sel.given \subseteq Wanted
    BY <2>2, NativeAssumption DEF Wanted
  <2> DEFINE place == IF Needs(sel).any THEN "main" ELSE "done"
  <2>4. place \in {"main", "done"} /\ (place # "done" => Needs(sel).any)
    OBVIOUS
  <2>5. prov = [at |-> place, net |-> Needs(sel).net, ids |-> {}]
    BY DEF NativeInit
  <2> HIDE DEF place
  <2> QED BY <2>1, <2>2, <2>3, <2>4, <2>5 DEF ProvisionInv
<1>3. Units = 0
  <2>1. \A w \in NativeThreads : thr[w].units = 0
    BY FreeThread DEF NativeInit
  <2>2. \A w \in NativeThreads : {w} \X (1 .. thr[w].units) = {}
    BY <2>1
  <2>3. HeldUnits = {}
    BY <2>2 DEF HeldUnits
  <2> QED BY <2>3, FS_EmptySet DEF Units
<1>4. CountInv
  <2>1. /\ Cardinality(up) \in Nat /\ Cardinality(up) <= Planned(sel)
        /\ Planned(sel) \in Nat /\ Planned(sel) <= VpcLimit
    BY <1>2, PlannedFits DEF ProvisionInv
  <2>2. used = Planned(sel) /\ stray = 0 /\ miscounted = FALSE
    BY DEF NativeInit
  <2>3. used \in Nat /\ stray \in Nat /\ used <= VpcLimit /\ miscounted \in BOOLEAN
    BY <2>1, <2>2
  <2>4. Cardinality(up) + Units + stray <= used /\ used = Planned(sel) + Units + stray
    BY <1>3, <2>1, <2>2
  <2> QED BY <2>3, <2>4 DEF CountInv
<1> QED BY <1>1, <1>2, <1>4 DEF NativeInv

THEOREM NativeInduction == NativeSpec => []NativeInv
<1>1. NativeInv /\ [NativeNext]_nativeVars => NativeInv'
  <2> SUFFICES ASSUME NativeInv, [NativeNext]_nativeVars PROVE NativeInv'
    OBVIOUS
  <2>1. ASSUME NEW w \in NativeThreads,
               Pop(w) \/ LeavePool(w) \/ ReserveVpc(w) \/ TouchVpc(w)
               \/ NoRoom(w) \/ Passed(w) \/ NotPassed(w)
        PROVE  NativeInv'
    BY <2>1, PopKeeps, LeavePoolKeeps, ReserveVpcKeeps, TouchVpcKeeps, NoRoomKeeps,
       PassedKeeps, NotPassedKeeps
  <2>2. CASE AdoptGiven \/ CreateMain \/ (\E t \in NetVpcs : CreateNet(t)) \/ WaitMain
    BY <2>2, ProvisioningKeeps
  <2>3. CASE Resync
    BY <2>3, ResyncKeeps
  <2>4. CASE JoinThreads \/ JoinProvision \/ SharedTeardown
    BY <2>4, ReturnKeeps
  <2>5. CASE UNCHANGED nativeVars
    <3>1. Units' = Units
      BY <2>5, UnitsStay DEF nativeVars
    <3> QED BY <2>5, <3>1 DEF nativeVars, NativeInv, ThreadInv, ProvisionInv, CountInv, Wanted,
                             Planned, Needs
  <2> QED BY <2>1, <2>2, <2>3, <2>4, <2>5 DEF NativeNext
<1> QED BY <1>1, NativeInitially, PTL DEF NativeSpec

\* NativeCap: whatever is provisioned late or not at all, and whoever fails, waits and
\* runs again, the shared VPCs, the units of the lifecycles and those that were lost stay
\* within the limit, as long as the count was neither overwritten nor returned twice.
THEOREM BudgetKeepsTheCap == NativeSpec => []NativeCap
<1>1. NativeInv => NativeCap
  <2> SUFFICES ASSUME NativeInv, ~miscounted PROVE Owed <= VpcLimit
    BY DEF NativeCap
  <2>1. Cardinality(up) \in Nat /\ Units \in Nat /\ VpcLimit \in Nat
    BY PlannedFits, UnitsOf, NativeAssumption DEF NativeInv, ProvisionInv
  <2>2. used \in Nat /\ stray \in Nat /\ used <= VpcLimit /\ Cardinality(up) + Units + stray <= used
    BY DEF NativeInv, CountInv
  <2> QED BY <2>1, <2>2 DEF Owed
<1> QED BY <1>1, NativeInduction, PTL

-----------------------------------------------------------------------------
(* The waves *)

\* The lifecycles that a track runs.
TrackOwn(t) == CASE t = "free" -> leaf.free
                 [] t = "adopt" -> leaf.adopters
                 [] t = "self-create" -> leaf.creators \cup leaf.riders

WaveTypes ==
  /\ leaf \in LeafSets
  /\ waves \in [Tracks -> Seq(SUBSET Leaves)]
  /\ stage \in {"plan", "provision", "tracks", "done", "aborted"}
  /\ waveNo \in [Tracks -> Nat \ {0}]
  /\ lcAt \in [Leaves -> {"planned", "queued", "gate", "exec", "over"}]
  /\ pooled \in [queue : Seq(Leaves), busy : SUBSET Leaves]

\* A wave is of lifecycles of its track, and those of the self-creators fit the cap, the
\* one that is being packed too, whose slots are counted.
PlanInv ==
  /\ \A t \in Tracks, i \in Nat : i \in DOMAIN waves[t] => waves[t][i] \subseteq TrackOwn(t)
  /\ \A i \in DOMAIN waves["self-create"] :
       Cardinality(waves["self-create"][i] \cap leaf.creators) <= WaveBudget
  /\ packing.todo \subseteq leaf.creators \cup leaf.riders
  /\ packing.wave \subseteq (leaf.creators \cup leaf.riders) \ packing.todo
  /\ packing.slots = Cardinality(packing.wave \cap leaf.creators)
  /\ packing.slots <= WaveBudget

\* What is begun and not over is of the wave its track is at.
BegunInv ==
  \A l \in Leaves : lcAt[l] \in {"queued", "gate", "exec"} =>
    \E t \in Tracks : HasWave(t) /\ l \in WaveAt(t)

\* It waits for a thread of the pool, once, or has one, or is alone in its wave and has
\* that of its track.
ThreadsInv ==
  /\ \A i \in DOMAIN pooled.queue : lcAt[pooled.queue[i]] = "queued"
  /\ \A i, j \in DOMAIN pooled.queue : pooled.queue[i] = pooled.queue[j] => i = j
  /\ \A l \in Leaves : lcAt[l] \in {"gate", "exec"} =>
       l \in pooled.busy \/ \E t \in Tracks : HasWave(t) /\ WaveAt(t) = {l}
  /\ Cardinality(pooled.busy) <= PoolSize

WavesInv == WaveTypes /\ PlanInv /\ BegunInv /\ ThreadsInv

\* The lifecycles of a leaf set, and the numbers its waves are bounded by.
LEMMA LeafFacts ==
  ASSUME leaf \in LeafSets
  PROVE  /\ IsFiniteSet(Leaves)
         /\ leaf.creators \subseteq Leaves /\ leaf.riders \subseteq Leaves
         /\ leaf.adopters \subseteq Leaves /\ leaf.free \subseteq Leaves
         /\ (leaf.creators \cup leaf.riders) \cap (leaf.adopters \cup leaf.free) = {}
         /\ leaf.roots \in Nat /\ leaf.cap \in Nat
         /\ WaveBudget \in Nat /\ WaveBudget >= 1
         /\ WaveBudget + leaf.roots <= Max({leaf.cap, leaf.roots + 1})
<1>1. /\ IsFiniteSet(leaf.creators \cup leaf.riders \cup leaf.adopters \cup leaf.free)
      /\ leaf.roots \in Nat /\ leaf.cap \in Nat
      /\ (leaf.creators \cup leaf.riders) \cap (leaf.adopters \cup leaf.free) = {}
  BY WavesAssumption
<1>2. IsFiniteSet(Leaves)
  BY <1>1 DEF Leaves
<1>3. /\ WaveBudget \in Nat /\ WaveBudget >= 1
      /\ WaveBudget + leaf.roots = IF leaf.cap > leaf.roots THEN leaf.cap ELSE leaf.roots + 1
  BY <1>1 DEF WaveBudget
<1>4. WaveBudget + leaf.roots <= Max({leaf.cap, leaf.roots + 1})
  <2>1. CASE leaf.cap > leaf.roots
    <3>1. leaf.cap >= leaf.cap /\ leaf.cap >= leaf.roots + 1
      BY <2>1, <1>1
    <3>2. \E x \in {leaf.cap, leaf.roots + 1} : \A y \in {leaf.cap, leaf.roots + 1} : x >= y
      BY <3>1
    <3>3. \A y \in {leaf.cap, leaf.roots + 1} : Max({leaf.cap, leaf.roots + 1}) >= y
      BY <3>2 DEF Max
    <3>4. Max({leaf.cap, leaf.roots + 1}) >= leaf.cap
      BY <3>3
    <3>5. Max({leaf.cap, leaf.roots + 1}) \in {leaf.cap, leaf.roots + 1}
      BY <3>2 DEF Max
    <3> QED BY <2>1, <3>4, <3>5, <1>1, <1>3
  <2>2. CASE ~(leaf.cap > leaf.roots)
    <3>1. leaf.roots + 1 >= leaf.cap /\ leaf.roots + 1 >= leaf.roots + 1
      BY <2>2, <1>1
    <3>2. \E x \in {leaf.cap, leaf.roots + 1} : \A y \in {leaf.cap, leaf.roots + 1} : x >= y
      BY <3>1
    <3>3. \A y \in {leaf.cap, leaf.roots + 1} : Max({leaf.cap, leaf.roots + 1}) >= y
      BY <3>2 DEF Max
    <3>4. Max({leaf.cap, leaf.roots + 1}) >= leaf.roots + 1
      BY <3>3
    <3>5. Max({leaf.cap, leaf.roots + 1}) \in {leaf.cap, leaf.roots + 1}
      BY <3>2 DEF Max
    <3> QED BY <2>2, <3>4, <3>5, <1>1, <1>3
  <2> QED BY <2>1, <2>2
<1> QED BY <1>1, <1>2, <1>3, <1>4 DEF Leaves

\* SetToSeq lists the elements of a finite set, each once.
LEMMA ListedOnce ==
  ASSUME NEW S, IsFiniteSet(S)
  PROVE  /\ SetToSeq(S) \in Seq(S)
         /\ \A i, j \in DOMAIN SetToSeq(S) : SetToSeq(S)[i] = SetToSeq(S)[j] => i = j
<1>1. Cardinality(S) \in Nat /\ ExistsBijection(1 .. Cardinality(S), S)
  BY FS_CardinalityType
<1>2. PICK f \in Bijection(1 .. Cardinality(S), S) : TRUE
  BY <1>1 DEF ExistsBijection
<1>3. f \in [1 .. Cardinality(S) -> S] /\ IsInjective(f)
  BY <1>2 DEF Bijection, Injection, IsInjective
<1>4. SetToSeq(S) \in [1 .. Cardinality(S) -> S] /\ IsInjective(SetToSeq(S))
  BY <1>3 DEF SetToSeq
<1> HIDE DEF SetToSeq
<1>5. SetToSeq(S) \in Seq(S)
  BY <1>1, <1>4
<1> QED BY <1>4, <1>5 DEF IsInjective

LEMMA WavesInitially == WavesInit => WavesInv
<1> SUFFICES ASSUME WavesInit PROVE WavesInv
  OBVIOUS
<1>1. leaf \in LeafSets
  BY DEF WavesInit
<1>2. /\ leaf.creators \subseteq Leaves /\ leaf.riders \subseteq Leaves
      /\ leaf.adopters \subseteq Leaves /\ leaf.free \subseteq Leaves
      /\ WaveBudget \in Nat /\ WaveBudget >= 1
  BY <1>1, LeafFacts
<1>3. \A S : DOMAIN AsWave(S) \subseteq {1} /\ \A i \in DOMAIN AsWave(S) : AsWave(S)[i] = S
  BY DEF AsWave
<1>4. \A S \in SUBSET Leaves : AsWave(S) \in Seq(SUBSET Leaves)
  BY DEF AsWave
<1>5. /\ waves["free"] = AsWave(leaf.free) /\ waves["adopt"] = AsWave(leaf.adopters)
      /\ waves["self-create"] = <<>> /\ DOMAIN waves = Tracks
  BY DEF WavesInit, Tracks
<1>6. waves = [t \in Tracks |-> waves[t]]
  <2> DEFINE W(t) == CASE t = "free" -> AsWave(leaf.free)
                       [] t = "adopt" -> AsWave(leaf.adopters)
                       [] t = "self-create" -> <<>>
  <2>1. waves = [t \in Tracks |-> W(t)]
    BY DEF WavesInit
  <2> HIDE DEF W
  <2> QED BY <2>1
<1>7. WaveTypes
  <2>1. waves \in [Tracks -> Seq(SUBSET Leaves)]
    <3>1. <<>> \in Seq(SUBSET Leaves)
      OBVIOUS
    <3>2. AsWave(leaf.free) \in Seq(SUBSET Leaves) /\ AsWave(leaf.adopters) \in Seq(SUBSET Leaves)
      BY <1>2, <1>4
    <3>3. \A t \in Tracks : waves[t] \in Seq(SUBSET Leaves)
      BY <3>1, <3>2, <1>5 DEF Tracks
    <3> QED BY <3>3, <1>6
  <2>2. waveNo \in [Tracks -> Nat \ {0}]
    BY DEF WavesInit
  <2>3. pooled \in [queue : Seq(Leaves), busy : SUBSET Leaves]
    BY DEF WavesInit
  <2> QED BY <1>1, <2>1, <2>2, <2>3 DEF WavesInit, WaveTypes
<1>8. PlanInv
  <2>1. \A t \in Tracks, i \in Nat : i \in DOMAIN waves[t] => waves[t][i] \subseteq TrackOwn(t)
    BY <1>3, <1>5 DEF Tracks, TrackOwn
  <2>2. DOMAIN waves["self-create"] = {}
    BY <1>5
  <2>3. /\ packing.todo = leaf.creators \cup leaf.riders /\ packing.wave = {}
        /\ packing.slots = 0
    BY DEF WavesInit
  <2>4. packing.wave \cap leaf.creators = {} /\ Cardinality({}) = 0
    BY <2>3, FS_EmptySet
  <2> QED BY <1>2, <2>1, <2>2, <2>3, <2>4 DEF PlanInv
<1>9. BegunInv /\ ThreadsInv
  <2>1. Cardinality(pooled.busy) <= PoolSize
    <3>1. Cardinality({}) = 0 /\ pooled.busy = {}
      BY FS_EmptySet DEF WavesInit
    <3> QED BY <3>1, WavesAssumption
  <2>2. pooled.queue = <<>> /\ \A l \in Leaves : lcAt[l] = "planned"
    BY DEF WavesInit
  <2> QED BY <2>1, <2>2 DEF BegunInv, ThreadsInv
<1> QED BY <1>7, <1>8, <1>9 DEF WavesInv

LEMMA NobodyBegun ==
  ASSUME BegunInv, stage # "tracks"
  PROVE  \A l \in Leaves : lcAt[l] \notin {"queued", "gate", "exec"}
<1> QED BY DEF BegunInv, HasWave

\* Before the tracks start and after they are joined the threads have nothing to do.
LEMMA IdleKeeps ==
  ASSUME WavesInv, stage # "tracks", UNCHANGED <<leaf, tasksVars>>
  PROVE  BegunInv' /\ ThreadsInv'
<1>1. \A l \in Leaves : lcAt[l] \notin {"queued", "gate", "exec"}
  BY NobodyBegun DEF WavesInv
<1>2. Leaves' = Leaves /\ lcAt' = lcAt /\ pooled' = pooled
  BY DEF Leaves, tasksVars
<1>3. BegunInv'
  BY <1>1, <1>2 DEF BegunInv
<1>4. ThreadsInv'
  BY <1>1, <1>2 DEF WavesInv, ThreadsInv
<1> QED BY <1>3, <1>4

LEMMA PackKeeps ==
  ASSUME WavesInv, NEW l \in Leaves, PackOne(l)
  PROVE  WavesInv'
<1> DEFINE self == leaf.creators \cup leaf.riders
           full == packing.wave # {} /\ packing.slots + SlotOf(l) > WaveBudget
           base == IF full THEN {} ELSE packing.wave
<1>1. /\ stage = "plan" /\ l \in packing.todo /\ leaf' = leaf /\ stage' = stage
      /\ UNCHANGED tasksVars
  BY DEF PackOne
<1>2. leaf \in LeafSets /\ waves \in [Tracks -> Seq(SUBSET Leaves)]
  BY DEF WavesInv, WaveTypes
<1>3. /\ self \subseteq Leaves /\ IsFiniteSet(Leaves) /\ IsFiniteSet(leaf.creators)
      /\ WaveBudget \in Nat /\ WaveBudget >= 1
  BY <1>2, LeafFacts, FS_Subset
<1>4. Leaves' = Leaves /\ WaveBudget' = WaveBudget /\ (\A t \in Tracks : TrackOwn(t)' = TrackOwn(t))
  BY <1>1 DEF Leaves, WaveBudget, TrackOwn
<1>5. /\ packing.todo \subseteq self /\ packing.wave \subseteq self \ packing.todo
      /\ packing.slots = Cardinality(packing.wave \cap leaf.creators)
      /\ packing.slots <= WaveBudget
  BY DEF WavesInv, PlanInv
<1>6. /\ packing'.todo = packing.todo \ {l} /\ packing'.wave = base \cup {l}
      /\ packing'.slots = (IF full THEN 0 ELSE packing.slots) + SlotOf(l)
  BY DEF PackOne
<1>7. waves' = IF full THEN [waves EXCEPT !["self-create"] =
                               Append(waves["self-create"], packing.wave)]
               ELSE waves
  BY DEF PackOne
<1>8. self = leaf.creators \cup leaf.riders /\ base = IF full THEN {} ELSE packing.wave
  BY DEF self
<1> HIDE DEF self, full, base
<1>9. IsFiniteSet(base \cap leaf.creators) /\ Cardinality(base \cap leaf.creators) \in Nat
  <2>1. base \cap leaf.creators \in SUBSET leaf.creators
    OBVIOUS
  <2> QED BY <2>1, <1>3, FS_Subset, FS_CardinalityType
<1>10. Cardinality(base \cap leaf.creators) = IF full THEN 0 ELSE packing.slots
  <2>1. {} \cap leaf.creators = {} /\ Cardinality({}) = 0
    BY FS_EmptySet
  <2> QED BY <2>1, <1>5, <1>8
<1>11. SlotOf(l) \in {0, 1} /\ SlotOf(l) = IF l \in leaf.creators THEN 1 ELSE 0
  BY DEF SlotOf
<1>12. Cardinality((base \cup {l}) \cap leaf.creators) = Cardinality(base \cap leaf.creators) + SlotOf(l)
  <2>1. l \notin base
    BY <1>1, <1>5, <1>8
  <2>2. CASE l \in leaf.creators
    <3>1. (base \cup {l}) \cap leaf.creators = (base \cap leaf.creators) \cup {l}
      BY <2>2
    <3>2. l \notin base \cap leaf.creators
      BY <2>1
    <3>3. Cardinality((base \cap leaf.creators) \cup {l}) = Cardinality(base \cap leaf.creators) + 1
      BY <3>2, <1>9, FS_AddElement
    <3> QED BY <3>1, <3>3, <2>2, <1>11
  <2>3. CASE l \notin leaf.creators
    <3>1. (base \cup {l}) \cap leaf.creators = base \cap leaf.creators
      BY <2>3
    <3>2. SlotOf(l) = 0
      BY <2>3, <1>11
    <3>3. Cardinality(base \cap leaf.creators) + 0 = Cardinality(base \cap leaf.creators)
      BY <1>9
    <3> QED BY <3>1, <3>2, <3>3
  <2> QED BY <2>2, <2>3
<1>13. Cardinality(base \cap leaf.creators) + SlotOf(l) <= WaveBudget
  <2>1. CASE full
    BY <2>1, <1>3, <1>10, <1>11
  <2>2. CASE ~full /\ packing.wave = {}
    <3>1. base \cap leaf.creators = {}
      BY <2>2, <1>8
    <3>2. Cardinality(base \cap leaf.creators) = 0
      BY <3>1, FS_EmptySet
    <3> QED BY <3>2, <1>3, <1>11
  <2>3. CASE ~full /\ packing.wave # {}
    <3>1. packing.slots + SlotOf(l) <= WaveBudget
      <4>1. ~(packing.slots + SlotOf(l) > WaveBudget)
        BY <2>3 DEF full
      <4>2. packing.slots \in Nat
        BY <2>3, <1>9, <1>10
      <4> QED BY <4>1, <4>2, <1>3, <1>11
    <3> QED BY <3>1, <2>3, <1>10
  <2> QED BY <2>1, <2>2, <2>3
<1>14. packing.wave \in SUBSET Leaves
  BY <1>3, <1>5
<1>15. /\ waves' \in [Tracks -> Seq(SUBSET Leaves)]
       /\ \A t \in Tracks, i \in Nat : i \in DOMAIN waves'[t] => waves'[t][i] \subseteq TrackOwn(t)
       /\ \A i \in DOMAIN waves'["self-create"] :
            Cardinality(waves'["self-create"][i] \cap leaf.creators) <= WaveBudget
  <2> DEFINE old == waves["self-create"]
  <2>1. /\ \A t \in Tracks, i \in Nat : i \in DOMAIN waves[t] => waves[t][i] \subseteq TrackOwn(t)
        /\ \A i \in DOMAIN old : Cardinality(old[i] \cap leaf.creators) <= WaveBudget
    BY DEF WavesInv, PlanInv
  <2>2. CASE full
    <3>1. "self-create" \in Tracks /\ TrackOwn("self-create") = self
      BY <1>8 DEF Tracks, TrackOwn
    <3>2. old \in Seq(SUBSET Leaves)
      BY <3>1, <1>2
    <3>3. /\ waves'["self-create"] = Append(old, packing.wave)
          /\ \A t \in Tracks : t # "self-create" => waves'[t] = waves[t]
          /\ waves' = [t \in Tracks |-> waves'[t]]
      BY <3>1, <2>2, <1>2, <1>7
    <3> HIDE DEF old
    <3>4. /\ Append(old, packing.wave) \in Seq(SUBSET Leaves)
          /\ Len(Append(old, packing.wave)) = Len(old) + 1
          /\ \A i \in DOMAIN Append(old, packing.wave) :
               Append(old, packing.wave)[i] = IF i \in DOMAIN old THEN old[i] ELSE packing.wave
      BY <3>2, <1>14
    <3>5. waves' \in [Tracks -> Seq(SUBSET Leaves)]
      BY <3>3, <3>4, <1>2
    <3>6. \A i \in DOMAIN waves'["self-create"] :
            waves'["self-create"][i] \in {old[j] : j \in DOMAIN old} \cup {packing.wave}
      BY <3>3, <3>4
    <3>7. \A j \in DOMAIN old : old[j] \subseteq self
      BY <2>1, <3>1, <3>2 DEF old
    <3>8. \A t \in Tracks, i \in Nat : i \in DOMAIN waves'[t] => waves'[t][i] \subseteq TrackOwn(t)
      <4> SUFFICES ASSUME NEW t \in Tracks, NEW i \in Nat, i \in DOMAIN waves'[t]
                   PROVE  waves'[t][i] \subseteq TrackOwn(t)
        OBVIOUS
      <4>1. CASE t = "self-create"
        BY <4>1, <3>1, <3>6, <3>7, <1>5
      <4>2. CASE t # "self-create"
        BY <4>2, <3>3, <2>1
      <4> QED BY <4>1, <4>2
    <3>9. \A i \in DOMAIN waves'["self-create"] :
            Cardinality(waves'["self-create"][i] \cap leaf.creators) <= WaveBudget
      BY <3>6, <2>1, <1>5
    <3> QED BY <3>5, <3>8, <3>9
  <2>3. CASE ~full
    BY <2>1, <2>3, <1>2, <1>7
  <2> QED BY <2>2, <2>3
<1>16. WaveTypes'
  BY <1>1, <1>4, <1>15 DEF WavesInv, WaveTypes, tasksVars
<1>17. PlanInv'
  <2>1. packing'.todo \subseteq self /\ packing'.wave \subseteq self \ packing'.todo
    BY <1>1, <1>5, <1>6, <1>8
  <2>2. /\ packing'.slots = Cardinality(packing'.wave \cap leaf.creators)
        /\ packing'.slots <= WaveBudget
    BY <1>6, <1>10, <1>12, <1>13
  <2> QED BY <2>1, <2>2, <1>1, <1>4, <1>8, <1>15 DEF PlanInv
<1>18. BegunInv' /\ ThreadsInv'
  BY <1>1, IdleKeeps
<1> QED BY <1>16, <1>17, <1>18 DEF WavesInv

LEMMA PlanMadeKeeps ==
  ASSUME WavesInv, PlanMade
  PROVE  WavesInv'
<1> DEFINE old == waves["self-create"]
           last == AsWave(packing.wave)
<1>1. /\ stage = "plan" /\ leaf' = leaf /\ packing' = packing /\ stage' = "provision"
      /\ UNCHANGED tasksVars
  BY DEF PlanMade
<1>2. leaf \in LeafSets /\ waves \in [Tracks -> Seq(SUBSET Leaves)]
  BY DEF WavesInv, WaveTypes
<1>3. /\ leaf.creators \subseteq Leaves /\ leaf.riders \subseteq Leaves
  BY <1>2, LeafFacts
<1>4. Leaves' = Leaves /\ WaveBudget' = WaveBudget /\ (\A t \in Tracks : TrackOwn(t)' = TrackOwn(t))
  BY <1>1 DEF Leaves, WaveBudget, TrackOwn
<1>5. /\ \A t \in Tracks, i \in Nat : i \in DOMAIN waves[t] => waves[t][i] \subseteq TrackOwn(t)
      /\ \A i \in DOMAIN old : Cardinality(old[i] \cap leaf.creators) <= WaveBudget
      /\ packing.wave \subseteq leaf.creators \cup leaf.riders
      /\ Cardinality(packing.wave \cap leaf.creators) <= WaveBudget
  BY DEF WavesInv, PlanInv
<1>6. "self-create" \in Tracks /\ TrackOwn("self-create") = leaf.creators \cup leaf.riders
  BY DEF Tracks, TrackOwn
<1>7. old \in Seq(SUBSET Leaves) /\ last \in Seq(SUBSET Leaves)
  <2>1. old \in Seq(SUBSET Leaves)
    BY <1>2, <1>6
  <2>2. packing.wave \in SUBSET Leaves
    BY <1>3, <1>5
  <2>3. <<>> \in Seq(SUBSET Leaves) /\ <<packing.wave>> \in Seq(SUBSET Leaves)
    BY <2>2
  <2>4. last = <<>> \/ last = <<packing.wave>>
    BY DEF AsWave
  <2> HIDE DEF old, last
  <2> QED BY <2>1, <2>3, <2>4
<1>8. /\ waves'["self-create"] = old \o last
      /\ \A t \in Tracks : t # "self-create" => waves'[t] = waves[t]
      /\ waves' = [t \in Tracks |-> waves'[t]]
  BY <1>2, <1>6 DEF PlanMade
<1>9. \A j \in DOMAIN last : last[j] = packing.wave
  BY DEF AsWave
<1>10. \A j \in DOMAIN old : old[j] \subseteq leaf.creators \cup leaf.riders
  BY <1>5, <1>6, <1>7
<1> HIDE DEF old, last
<1>11. /\ old \o last \in Seq(SUBSET Leaves)
       /\ \A i \in DOMAIN (old \o last) :
            \/ i \in DOMAIN old /\ (old \o last)[i] = old[i]
            \/ i - Len(old) \in DOMAIN last /\ (old \o last)[i] = last[i - Len(old)]
  BY <1>7
<1>12. \A i \in DOMAIN waves'["self-create"] :
         waves'["self-create"][i] \in {old[j] : j \in DOMAIN old} \cup {packing.wave}
  BY <1>8, <1>9, <1>11
<1>13. waves' \in [Tracks -> Seq(SUBSET Leaves)]
  BY <1>2, <1>8, <1>11
<1>14. WaveTypes'
  BY <1>1, <1>4, <1>13 DEF WavesInv, WaveTypes, tasksVars
<1>15. PlanInv'
  <2>1. \A t \in Tracks, i \in Nat : i \in DOMAIN waves'[t] => waves'[t][i] \subseteq TrackOwn(t)
    <3> SUFFICES ASSUME NEW t \in Tracks, NEW i \in Nat, i \in DOMAIN waves'[t]
                 PROVE  waves'[t][i] \subseteq TrackOwn(t)
      OBVIOUS
    <3>1. CASE t = "self-create"
      BY <3>1, <1>5, <1>6, <1>10, <1>12
    <3>2. CASE t # "self-create"
      BY <3>2, <1>5, <1>8
    <3> QED BY <3>1, <3>2
  <2>2. \A i \in DOMAIN waves'["self-create"] :
          Cardinality(waves'["self-create"][i] \cap leaf.creators) <= WaveBudget
    BY <1>5, <1>12
  <2> QED BY <2>1, <2>2, <1>1, <1>4 DEF WavesInv, PlanInv
<1>16. BegunInv' /\ ThreadsInv'
  BY <1>1, IdleKeeps
<1> QED BY <1>14, <1>15, <1>16 DEF WavesInv

\* What leaves the plan alone keeps what is said of it.
LEMMA PlanStays ==
  ASSUME WavesInv, UNCHANGED planVars
  PROVE  /\ leaf \in LeafSets /\ leaf' = leaf /\ waves' = waves /\ Leaves' = Leaves
         /\ waves \in [Tracks -> Seq(SUBSET Leaves)]
         /\ PlanInv'
<1>1. leaf' = leaf /\ waves' = waves /\ packing' = packing
  BY DEF planVars
<1>2. Leaves' = Leaves /\ WaveBudget' = WaveBudget /\ (\A t \in Tracks : TrackOwn(t)' = TrackOwn(t))
  BY <1>1 DEF Leaves, WaveBudget, TrackOwn
<1>3. PlanInv'
  BY <1>1, <1>2 DEF WavesInv, PlanInv
<1> QED BY <1>1, <1>2, <1>3 DEF WavesInv, WaveTypes

LEMMA StageKeeps ==
  ASSUME WavesInv, ProvisionRoots \/ TeardownRoots
  PROVE  WavesInv'
<1>1. /\ UNCHANGED <<planVars, tasksVars>>
      /\ stage' \in {"tracks", "aborted", "done"}
      /\ \/ stage = "provision"
         \/ stage = "tracks" /\ \A t \in Tracks : ~HasWave(t)
  BY DEF ProvisionRoots, TeardownRoots, HasWave, WavesInv, WaveTypes
<1>2. /\ leaf \in LeafSets /\ leaf' = leaf /\ waves' = waves /\ Leaves' = Leaves /\ PlanInv'
      /\ waveNo' = waveNo /\ lcAt' = lcAt /\ pooled' = pooled
  BY <1>1, PlanStays DEF tasksVars
<1>3. \A l \in Leaves : lcAt[l] \notin {"queued", "gate", "exec"}
  BY <1>1, NobodyBegun DEF WavesInv, BegunInv
<1>4. WaveTypes'
  BY <1>1, <1>2 DEF WavesInv, WaveTypes
<1>5. BegunInv' /\ ThreadsInv'
  BY <1>2, <1>3 DEF WavesInv, BegunInv, ThreadsInv
<1> QED BY <1>2, <1>4, <1>5 DEF WavesInv

LEMMA StartWaveKeeps ==
  ASSUME WavesInv, NEW t \in Tracks, StartWave(t)
  PROVE  WavesInv'
<1> DEFINE W == WaveAt(t)
           alone == Cardinality(W) = 1
<1>1. /\ UNCHANGED planVars /\ stage' = stage /\ waveNo' = waveNo
      /\ HasWave(t) /\ \A l \in W : lcAt[l] = "planned"
      /\ lcAt' = [l \in Leaves |->
                    IF l \notin W THEN lcAt[l] ELSE IF alone THEN "gate" ELSE "queued"]
      /\ pooled' = IF alone THEN pooled ELSE [pooled EXCEPT !.queue = pooled.queue \o SetToSeq(W)]
  BY DEF StartWave, runnerVars
<1>2. /\ leaf \in LeafSets /\ leaf' = leaf /\ waves' = waves /\ Leaves' = Leaves /\ PlanInv'
      /\ waves \in [Tracks -> Seq(SUBSET Leaves)]
  BY <1>1, PlanStays
<1>3. W \subseteq Leaves /\ IsFiniteSet(W)
  <2>1. waveNo[t] \in DOMAIN waves[t]
    BY <1>1, <1>2 DEF HasWave, WavesInv, WaveTypes
  <2>2. W \in SUBSET Leaves
    BY <2>1, <1>2 DEF WaveAt
  <2> QED BY <2>2, <1>2, LeafFacts, FS_Subset
<1>4. \A u \in Tracks : HasWave(u)' = HasWave(u) /\ WaveAt(u)' = WaveAt(u)
  BY <1>1, <1>2 DEF HasWave, WaveAt
<1> DEFINE list == SetToSeq(W)
<1>5. list \in Seq(W) /\ \A i, j \in DOMAIN list : list[i] = list[j] => i = j
  BY <1>3, ListedOnce
<1> HIDE DEF W, alone, list
<1>6. pooled \in [queue : Seq(Leaves), busy : SUBSET Leaves]
  BY DEF WavesInv, WaveTypes
<1>7. /\ pooled'.busy = pooled.busy
      /\ pooled'.queue = IF alone THEN pooled.queue ELSE pooled.queue \o list
      /\ pooled' \in [queue : Seq(Leaves), busy : SUBSET Leaves]
  <2>1. pooled.queue \o list \in Seq(Leaves)
    <3>1. list \in Seq(Leaves)
      BY <1>3, <1>5
    <3> QED BY <3>1, <1>6
  <2>2. pooled' = IF alone THEN pooled ELSE [pooled EXCEPT !.queue = pooled.queue \o list]
    BY <1>1 DEF list, W
  <2> HIDE DEF list
  <2> QED BY <2>1, <2>2, <1>6
<1>8. WaveTypes'
  BY <1>1, <1>2, <1>7 DEF WavesInv, WaveTypes
<1>9. BegunInv'
  <2> SUFFICES ASSUME NEW l \in Leaves, lcAt'[l] \in {"queued", "gate", "exec"}
               PROVE  \E u \in Tracks : HasWave(u) /\ l \in WaveAt(u)
    BY <1>2, <1>4 DEF BegunInv
  <2>1. CASE l \in W
    BY <2>1, <1>1 DEF W
  <2>2. CASE l \notin W
    BY <2>2, <1>1 DEF WavesInv, BegunInv
  <2> QED BY <2>1, <2>2
<1>10. ThreadsInv'
  <2>1. /\ \A i \in DOMAIN pooled.queue : lcAt[pooled.queue[i]] = "queued"
        /\ \A i, j \in DOMAIN pooled.queue : pooled.queue[i] = pooled.queue[j] => i = j
        /\ \A l \in Leaves : lcAt[l] \in {"gate", "exec"} =>
             l \in pooled.busy \/ \E u \in Tracks : HasWave(u) /\ WaveAt(u) = {l}
        /\ Cardinality(pooled.busy) <= PoolSize
    BY DEF WavesInv, ThreadsInv
  <2>2. \A l \in Leaves : lcAt[l] = "queued" => lcAt'[l] = "queued" /\ l \notin W
    BY <1>1 DEF W
  <2>3. \A i \in DOMAIN pooled.queue : pooled.queue[i] \in Leaves
    BY <1>6
  <2>4. ~alone => \A i \in DOMAIN pooled'.queue :
          \/ i \in DOMAIN pooled.queue /\ pooled'.queue[i] = pooled.queue[i]
          \/ /\ i \notin DOMAIN pooled.queue /\ i - Len(pooled.queue) \in DOMAIN list
             /\ pooled'.queue[i] = list[i - Len(pooled.queue)]
    BY <1>5, <1>6, <1>7
  <2>5. \A i \in DOMAIN list : list[i] \in W
    BY <1>5
  <2>6. ~alone => \A l \in W : lcAt'[l] = "queued"
    BY <1>1, <1>3 DEF W
  <2>7. \A i \in DOMAIN pooled'.queue : lcAt'[pooled'.queue[i]] = "queued"
    <3>1. CASE alone
      BY <3>1, <2>1, <2>2, <2>3, <1>7
    <3>2. CASE ~alone
      BY <3>2, <2>1, <2>2, <2>3, <2>4, <2>5, <2>6
    <3> QED BY <3>1, <3>2
  <2>8. \A i, j \in DOMAIN pooled'.queue : pooled'.queue[i] = pooled'.queue[j] => i = j
    <3>1. CASE alone
      BY <3>1, <2>1, <1>7
    <3>2. CASE ~alone
      <4> SUFFICES ASSUME NEW i \in DOMAIN pooled'.queue, NEW j \in DOMAIN pooled'.queue,
                          pooled'.queue[i] = pooled'.queue[j]
                   PROVE  i = j
        OBVIOUS
      <4>1. i \in Nat /\ j \in Nat /\ Len(pooled.queue) \in Nat
        BY <1>6, <1>7
      <4>2. \A m \in DOMAIN pooled.queue : pooled.queue[m] \notin W
        BY <2>1, <2>2, <2>3
      <4>3. CASE i \in DOMAIN pooled.queue /\ j \in DOMAIN pooled.queue
        BY <4>3, <3>2, <2>1, <2>4
      <4>4. CASE i \in DOMAIN pooled.queue /\ j \notin DOMAIN pooled.queue
        BY <4>2, <4>4, <3>2, <2>4, <2>5
      <4>5. CASE i \notin DOMAIN pooled.queue /\ j \in DOMAIN pooled.queue
        BY <4>2, <4>5, <3>2, <2>4, <2>5
      <4>6. CASE i \notin DOMAIN pooled.queue /\ j \notin DOMAIN pooled.queue
        <5>1. i - Len(pooled.queue) = j - Len(pooled.queue)
          BY <4>6, <3>2, <2>4, <1>5
        <5> QED BY <5>1, <4>1
      <4> QED BY <4>3, <4>4, <4>5, <4>6
    <3> QED BY <3>1, <3>2
  <2>9. \A l \in Leaves : lcAt'[l] \in {"gate", "exec"} =>
          l \in pooled'.busy \/ \E u \in Tracks : HasWave(u)' /\ WaveAt(u)' = {l}
    <3> SUFFICES ASSUME NEW l \in Leaves, lcAt'[l] \in {"gate", "exec"}
                 PROVE  l \in pooled.busy \/ \E u \in Tracks : HasWave(u) /\ WaveAt(u) = {l}
      BY <1>4, <1>7
    <3>1. CASE l \in W
      <4>1. alone
        BY <3>1, <2>6
      <4>2. Cardinality(W) = 1
        BY <4>1 DEF alone
      <4>3. W = {l}
        <5>1. {l} \in SUBSET W /\ Cardinality({l}) = 1
          BY <3>1, FS_Singleton
        <5> QED BY <5>1, <4>2, <1>3, FS_Subset
      <4> QED BY <4>3, <1>1 DEF W
    <3>2. CASE l \notin W
      BY <3>2, <1>1, <2>1
    <3> QED BY <3>1, <3>2
  <2> QED BY <2>1, <2>7, <2>8, <2>9, <1>2, <1>7 DEF ThreadsInv
<1> QED BY <1>2, <1>8, <1>9, <1>10 DEF WavesInv

LEMMA PoolTakesKeeps ==
  ASSUME WavesInv, PoolTakes
  PROVE  WavesInv'
<1> DEFINE l == Head(pooled.queue)
<1>1. /\ UNCHANGED planVars /\ stage' = stage /\ waveNo' = waveNo
      /\ pooled.queue # <<>> /\ Cardinality(pooled.busy) < PoolSize
      /\ pooled' = [queue |-> Tail(pooled.queue), busy |-> pooled.busy \cup {l}]
      /\ lcAt' = [lcAt EXCEPT ![l] = "gate"]
  BY DEF PoolTakes, runnerVars
<1>2. /\ leaf \in LeafSets /\ leaf' = leaf /\ waves' = waves /\ Leaves' = Leaves /\ PlanInv'
  BY <1>1, PlanStays
<1>3. \A u \in Tracks : HasWave(u)' = HasWave(u) /\ WaveAt(u)' = WaveAt(u)
  BY <1>1, <1>2 DEF HasWave, WaveAt
<1>4. /\ pooled \in [queue : Seq(Leaves), busy : SUBSET Leaves]
      /\ lcAt \in [Leaves -> {"planned", "queued", "gate", "exec", "over"}]
      /\ PoolSize \in Nat
  BY WavesAssumption DEF WavesInv, WaveTypes
<1>5. /\ Len(pooled.queue) \in Nat \ {0} /\ l = pooled.queue[1] /\ l \in Leaves
      /\ 1 \in DOMAIN pooled.queue
      /\ Tail(pooled.queue) \in Seq(Leaves)
      /\ \A i \in DOMAIN Tail(pooled.queue) :
           /\ i + 1 \in DOMAIN pooled.queue /\ i \in Nat \ {0}
           /\ Tail(pooled.queue)[i] = pooled.queue[i + 1]
  BY <1>1, <1>4
<1> HIDE DEF l
<1>6. /\ \A i \in DOMAIN pooled.queue : lcAt[pooled.queue[i]] = "queued"
      /\ \A i, j \in DOMAIN pooled.queue : pooled.queue[i] = pooled.queue[j] => i = j
      /\ \A k \in Leaves : lcAt[k] \in {"gate", "exec"} =>
           k \in pooled.busy \/ \E u \in Tracks : HasWave(u) /\ WaveAt(u) = {k}
  BY DEF WavesInv, ThreadsInv
<1>7. WaveTypes'
  BY <1>1, <1>2, <1>4, <1>5 DEF WavesInv, WaveTypes
<1>8. BegunInv'
  <2>1. lcAt[l] = "queued"
    BY <1>5, <1>6
  <2>2. \A k \in Leaves : lcAt'[k] \in {"queued", "gate", "exec"} => lcAt[k] \in {"queued", "gate", "exec"}
    BY <2>1, <1>1, <1>4, <1>5
  <2> QED BY <2>2, <1>2, <1>3 DEF WavesInv, BegunInv
<1>9. ThreadsInv'
  <2>1. \A i \in DOMAIN pooled'.queue : lcAt'[pooled'.queue[i]] = "queued"
    <3> SUFFICES ASSUME NEW i \in DOMAIN Tail(pooled.queue)
                 PROVE  lcAt'[Tail(pooled.queue)[i]] = "queued"
      BY <1>1
    <3>1. i + 1 \in DOMAIN pooled.queue /\ i + 1 # 1
      BY <1>5
    <3>2. pooled.queue[i + 1] # l /\ pooled.queue[i + 1] \in Leaves
      BY <3>1, <1>4, <1>5, <1>6
    <3>3. lcAt'[pooled.queue[i + 1]] = lcAt[pooled.queue[i + 1]]
      BY <3>2, <1>1, <1>4
    <3> QED BY <3>1, <3>3, <1>5, <1>6
  <2>2. \A i, j \in DOMAIN pooled'.queue : pooled'.queue[i] = pooled'.queue[j] => i = j
    <3> SUFFICES ASSUME NEW i \in DOMAIN Tail(pooled.queue), NEW j \in DOMAIN Tail(pooled.queue),
                        Tail(pooled.queue)[i] = Tail(pooled.queue)[j]
                 PROVE  i = j
      BY <1>1
    <3>1. i + 1 = j + 1
      BY <1>5, <1>6
    <3> QED BY <3>1, <1>5
  <2>3. \A k \in Leaves : lcAt'[k] \in {"gate", "exec"} =>
          k \in pooled'.busy \/ \E u \in Tracks : HasWave(u)' /\ WaveAt(u)' = {k}
    BY <1>1, <1>3, <1>4, <1>6
  <2>4. Cardinality(pooled'.busy) <= PoolSize
    <3>1. IsFiniteSet(pooled.busy) /\ Cardinality(pooled.busy) \in Nat
      BY <1>2, <1>4, LeafFacts, FS_Subset, FS_CardinalityType
    <3>2. Cardinality(pooled.busy \cup {l}) =
            IF l \in pooled.busy THEN Cardinality(pooled.busy) ELSE Cardinality(pooled.busy) + 1
      BY <3>1, FS_AddElement
    <3>3. pooled'.busy = pooled.busy \cup {l}
      BY <1>1
    <3> QED BY <3>1, <3>2, <3>3, <1>1, <1>4
  <2> QED BY <2>1, <2>2, <2>3, <2>4, <1>2 DEF ThreadsInv
<1> QED BY <1>2, <1>7, <1>8, <1>9 DEF WavesInv

\* A lifecycle that is begun goes on in its wave, and where it is queued or over the pool
\* need not hold it.
LEMMA GateKeeps ==
  ASSUME WavesInv, NEW l \in Leaves, Acquire(l) \/ ExecutorReturns(l)
  PROVE  WavesInv'
<1>1. /\ UNCHANGED planVars /\ stage' = stage /\ waveNo' = waveNo
      /\ \/ lcAt[l] = "gate" /\ lcAt' = [lcAt EXCEPT ![l] = "exec"] /\ pooled' = pooled
         \/ /\ lcAt[l] = "exec" /\ lcAt' = [lcAt EXCEPT ![l] = "over"]
            /\ pooled' = [pooled EXCEPT !.busy = pooled.busy \ {l}]
  BY DEF Acquire, ExecutorReturns, runnerVars
<1>2. /\ leaf \in LeafSets /\ leaf' = leaf /\ waves' = waves /\ Leaves' = Leaves /\ PlanInv'
  BY <1>1, PlanStays
<1>3. \A u \in Tracks : HasWave(u)' = HasWave(u) /\ WaveAt(u)' = WaveAt(u)
  BY <1>1, <1>2 DEF HasWave, WaveAt
<1>4. /\ pooled \in [queue : Seq(Leaves), busy : SUBSET Leaves]
      /\ lcAt \in [Leaves -> {"planned", "queued", "gate", "exec", "over"}]
      /\ PoolSize \in Nat
  BY WavesAssumption DEF WavesInv, WaveTypes
<1>5. /\ \A i \in DOMAIN pooled.queue : lcAt[pooled.queue[i]] = "queued"
      /\ \A i, j \in DOMAIN pooled.queue : pooled.queue[i] = pooled.queue[j] => i = j
      /\ \A k \in Leaves : lcAt[k] \in {"gate", "exec"} =>
           k \in pooled.busy \/ \E u \in Tracks : HasWave(u) /\ WaveAt(u) = {k}
      /\ Cardinality(pooled.busy) <= PoolSize
  BY DEF WavesInv, ThreadsInv
<1>6. /\ lcAt' \in [Leaves -> {"planned", "queued", "gate", "exec", "over"}]
      /\ lcAt[l] \in {"gate", "exec"} /\ lcAt'[l] \in {"exec", "over"}
      /\ \A k \in Leaves : k # l => lcAt'[k] = lcAt[k]
  BY <1>1, <1>4
<1>7. /\ pooled' \in [queue : Seq(Leaves), busy : SUBSET Leaves]
      /\ pooled'.queue = pooled.queue
      /\ pooled'.busy \subseteq pooled.busy
      /\ \A k \in pooled.busy : k \in pooled'.busy \/ (k = l /\ lcAt'[l] = "over")
  BY <1>1, <1>4
<1>8. WaveTypes'
  BY <1>1, <1>2, <1>6, <1>7 DEF WavesInv, WaveTypes
<1>9. BegunInv'
  <2>1. \A k \in Leaves : lcAt'[k] \in {"queued", "gate", "exec"} => lcAt[k] \in {"queued", "gate", "exec"}
    BY <1>6
  <2> QED BY <2>1, <1>2, <1>3 DEF WavesInv, BegunInv
<1>10. ThreadsInv'
  <2>1. \A i \in DOMAIN pooled'.queue : lcAt'[pooled'.queue[i]] = "queued"
    <3> SUFFICES ASSUME NEW i \in DOMAIN pooled.queue
                 PROVE  lcAt'[pooled.queue[i]] = "queued"
      BY <1>7
    <3>1. pooled.queue[i] \in Leaves /\ lcAt[pooled.queue[i]] = "queued"
      BY <1>4, <1>5
    <3> QED BY <3>1, <1>6
  <2>2. \A i, j \in DOMAIN pooled'.queue : pooled'.queue[i] = pooled'.queue[j] => i = j
    BY <1>5, <1>7
  <2>3. \A k \in Leaves : lcAt'[k] \in {"gate", "exec"} =>
          k \in pooled'.busy \/ \E u \in Tracks : HasWave(u)' /\ WaveAt(u)' = {k}
    <3> SUFFICES ASSUME NEW k \in Leaves, lcAt'[k] \in {"gate", "exec"}
                 PROVE  k \in pooled'.busy \/ \E u \in Tracks : HasWave(u) /\ WaveAt(u) = {k}
      BY <1>3
    <3>1. lcAt[k] \in {"gate", "exec"}
      BY <1>6
    <3>2. k \in pooled.busy => k \in pooled'.busy
      BY <1>7
    <3> QED BY <3>1, <3>2, <1>5
  <2>4. Cardinality(pooled'.busy) <= PoolSize
    <3>1. /\ IsFiniteSet(pooled.busy) /\ Cardinality(pooled.busy) \in Nat
      BY <1>2, <1>4, LeafFacts, FS_Subset, FS_CardinalityType
    <3>2. /\ IsFiniteSet(pooled'.busy) /\ Cardinality(pooled'.busy) <= Cardinality(pooled.busy)
      BY <3>1, <1>7, FS_Subset
    <3>3. Cardinality(pooled'.busy) \in Nat
      BY <3>2, FS_CardinalityType
    <3> QED BY <3>1, <3>2, <3>3, <1>4, <1>5
  <2> QED BY <2>1, <2>2, <2>3, <2>4, <1>2 DEF ThreadsInv
<1> QED BY <1>2, <1>8, <1>9, <1>10 DEF WavesInv

LEMMA WaveOverKeeps ==
  ASSUME WavesInv, NEW t \in Tracks, WaveOver(t)
  PROVE  WavesInv'
<1>1. /\ UNCHANGED planVars /\ stage' = stage /\ lcAt' = lcAt /\ pooled' = pooled
      /\ HasWave(t) /\ \A l \in WaveAt(t) : lcAt[l] = "over"
      /\ waveNo' = [waveNo EXCEPT ![t] = waveNo[t] + 1]
  BY DEF WaveOver, runnerVars
<1>2. /\ leaf \in LeafSets /\ leaf' = leaf /\ waves' = waves /\ Leaves' = Leaves /\ PlanInv'
  BY <1>1, PlanStays
<1>3. waveNo \in [Tracks -> Nat \ {0}]
  BY DEF WavesInv, WaveTypes
<1>4. /\ waveNo' \in [Tracks -> Nat \ {0}]
      /\ \A u \in Tracks : u # t => waveNo'[u] = waveNo[u]
  BY <1>1, <1>3
<1>5. \A u \in Tracks : u # t => HasWave(u)' = HasWave(u) /\ WaveAt(u)' = WaveAt(u)
  BY <1>1, <1>2, <1>4 DEF HasWave, WaveAt
<1>6. WaveTypes'
  BY <1>1, <1>2, <1>4 DEF WavesInv, WaveTypes
<1>7. BegunInv'
  <2> SUFFICES ASSUME NEW l \in Leaves, lcAt[l] \in {"queued", "gate", "exec"}
               PROVE  \E u \in Tracks : HasWave(u)' /\ l \in WaveAt(u)'
    BY <1>1, <1>2 DEF BegunInv
  <2>1. PICK u \in Tracks : HasWave(u) /\ l \in WaveAt(u)
    BY DEF WavesInv, BegunInv
  <2>2. u # t
    BY <2>1, <1>1
  <2> QED BY <2>1, <2>2, <1>5
<1>8. ThreadsInv'
  <2>1. \A l \in Leaves : lcAt[l] \in {"gate", "exec"} =>
          l \in pooled.busy \/ \E u \in Tracks : HasWave(u)' /\ WaveAt(u)' = {l}
    <3> SUFFICES ASSUME NEW l \in Leaves, lcAt[l] \in {"gate", "exec"}, l \notin pooled.busy
                 PROVE  \E u \in Tracks : HasWave(u)' /\ WaveAt(u)' = {l}
      OBVIOUS
    <3>1. PICK u \in Tracks : HasWave(u) /\ WaveAt(u) = {l}
      BY DEF WavesInv, ThreadsInv
    <3>2. u # t
      BY <3>1, <1>1
    <3> QED BY <3>1, <3>2, <1>5
  <2> QED BY <2>1, <1>1, <1>2 DEF WavesInv, ThreadsInv
<1> QED BY <1>2, <1>6, <1>7, <1>8 DEF WavesInv

THEOREM WavesInduction == WavesSpec => []WavesInv
<1>1. WavesInv /\ [WavesNext]_wavesVars => WavesInv'
  <2> SUFFICES ASSUME WavesInv, [WavesNext]_wavesVars PROVE WavesInv'
    OBVIOUS
  <2>1. CASE PlanMade \/ ProvisionRoots \/ TeardownRoots \/ PoolTakes
    BY <2>1, PlanMadeKeeps, StageKeeps, PoolTakesKeeps
  <2>2. CASE AdjustLimit \/ UNCHANGED wavesVars
    <3>1. /\ UNCHANGED planVars /\ stage' = stage /\ waveNo' = waveNo /\ lcAt' = lcAt
          /\ pooled' = pooled
      BY <2>2 DEF AdjustLimit, wavesVars, runnerVars, tasksVars
    <3>2. leaf' = leaf /\ waves' = waves /\ Leaves' = Leaves /\ PlanInv'
      BY <3>1, PlanStays
    <3>3. \A u \in Tracks : HasWave(u)' = HasWave(u) /\ WaveAt(u)' = WaveAt(u)
      BY <3>1, <3>2 DEF HasWave, WaveAt
    <3>4. WaveTypes'
      BY <3>1, <3>2 DEF WavesInv, WaveTypes
    <3>5. BegunInv' /\ ThreadsInv'
      BY <3>1, <3>2, <3>3 DEF WavesInv, BegunInv, ThreadsInv
    <3> QED BY <3>2, <3>4, <3>5 DEF WavesInv
  <2>3. ASSUME NEW t \in Tracks, StartWave(t) \/ WaveOver(t) PROVE WavesInv'
    BY <2>3, StartWaveKeeps, WaveOverKeeps
  <2>4. ASSUME NEW l \in Leaves, PackOne(l) \/ Acquire(l) \/ ExecutorReturns(l) PROVE WavesInv'
    BY <2>4, PackKeeps, GateKeeps
  <2> QED BY <2>1, <2>2, <2>3, <2>4 DEF WavesNext
<1> QED BY <1>1, WavesInitially, PTL DEF WavesSpec

\* SlotsFit: what runs of the self-creators is in the one wave their track is at.
LEMMA SlotsThatFit == WavesInv => SlotsFit
<1> SUFFICES ASSUME WavesInv PROVE SlotsFit
  OBVIOUS
<1> DEFINE S == Executing \cap leaf.creators
<1>1. /\ leaf \in LeafSets /\ waves \in [Tracks -> Seq(SUBSET Leaves)]
      /\ waveNo \in [Tracks -> Nat \ {0}]
  BY DEF WavesInv, WaveTypes
<1>2. /\ IsFiniteSet(Leaves) /\ leaf.creators \subseteq Leaves /\ leaf.roots \in Nat
      /\ WaveBudget \in Nat /\ WaveBudget + leaf.roots <= Max({leaf.cap, leaf.roots + 1})
      /\ Max({leaf.cap, leaf.roots + 1}) \in Nat
  <2>1. leaf.cap \in Nat /\ leaf.roots + 1 \in Nat
    BY <1>1, LeafFacts
  <2>2. \E x \in {leaf.cap, leaf.roots + 1} : \A y \in {leaf.cap, leaf.roots + 1} : x >= y
    BY <2>1
  <2>3. Max({leaf.cap, leaf.roots + 1}) \in {leaf.cap, leaf.roots + 1}
    BY <2>2 DEF Max
  <2> QED BY <2>1, <2>3, <1>1, LeafFacts
<1>3. IsFiniteSet(S) /\ Cardinality(S) \in Nat
  BY <1>2, FS_Subset, FS_CardinalityType
<1>4. Cardinality(S) <= WaveBudget
  <2>1. CASE S = {}
    <3>1. Cardinality(S) = 0
      BY <2>1, FS_EmptySet
    <3> QED BY <3>1, <1>2
  <2>2. CASE S # {}
    <3>1. \A l \in S : HasWave("self-create") /\ l \in WaveAt("self-create")
      <4> SUFFICES ASSUME NEW l \in S
                   PROVE  HasWave("self-create") /\ l \in WaveAt("self-create")
        OBVIOUS
      <4>1. l \in Leaves /\ lcAt[l] = "exec" /\ l \in leaf.creators
        BY DEF Executing
      <4>2. PICK t \in Tracks : HasWave(t) /\ l \in WaveAt(t)
        BY <4>1 DEF WavesInv, BegunInv
      <4>3. waveNo[t] \in DOMAIN waves[t] /\ waveNo[t] \in Nat
        BY <4>2, <1>1 DEF HasWave
      <4>4. l \in TrackOwn(t)
        BY <4>2, <4>3 DEF WaveAt, WavesInv, PlanInv
      <4>5. l \notin leaf.free /\ l \notin leaf.adopters
        BY <4>1, <1>1, LeafFacts
      <4>6. t = "self-create"
        BY <4>4, <4>5 DEF Tracks, TrackOwn
      <4> QED BY <4>2, <4>6
    <3> DEFINE W == WaveAt("self-create") \cap leaf.creators
    <3>2. "self-create" \in Tracks
      BY DEF Tracks
    <3>3. HasWave("self-create")
      BY <3>1, <2>2
    <3>4. waveNo["self-create"] \in DOMAIN waves["self-create"]
      BY <3>2, <3>3, <1>1 DEF HasWave
    <3>5. Cardinality(W) <= WaveBudget
      BY <3>4 DEF WaveAt, WavesInv, PlanInv
    <3>6. IsFiniteSet(W) /\ Cardinality(W) \in Nat
      BY <1>2, FS_Subset, FS_CardinalityType
    <3>7. S \subseteq W
      BY <3>1
    <3>8. Cardinality(S) <= Cardinality(W)
      BY <3>6, <3>7, FS_Subset
    <3> QED BY <3>5, <3>6, <3>8, <1>2, <1>3
  <2> QED BY <2>1, <2>2
<1> HIDE DEF S
<1>5. Cardinality(S) + leaf.roots <= Max({leaf.cap, leaf.roots + 1})
  <2>1. \A a, b, c, d \in Nat : a <= b /\ b + c <= d => a + c <= d
    OBVIOUS
  <2> QED BY <2>1, <1>2, <1>3, <1>4
<1> QED BY <1>5 DEF S, SlotsFit

\* InFlightFit: what runs has a thread of the pool, or is a track's wave by itself.
LEMMA WhatIsInFlight == WavesInv => InFlightFit
<1> SUFFICES ASSUME WavesInv PROVE InFlightFit
  OBVIOUS
<1> DEFINE alone == {t \in Tracks : HasWave(t) /\ Cardinality(WaveAt(t)) = 1}
           single == {t \in alone : \E l \in Leaves : WaveAt(t) = {l}}
           rest == Executing \ pooled.busy
           only == {l \in Leaves : \E t \in single : WaveAt(t) = {l}}
           f == [t \in single |-> CHOOSE l \in Leaves : WaveAt(t) = {l}]
<1>1. IsFiniteSet(Leaves) /\ PoolSize \in Nat
  BY LeafFacts, WavesAssumption DEF WavesInv, WaveTypes
<1>2. /\ IsFiniteSet(pooled.busy) /\ Cardinality(pooled.busy) \in Nat
      /\ Cardinality(pooled.busy) <= PoolSize
  BY <1>1, FS_Subset, FS_CardinalityType DEF WavesInv, WaveTypes, ThreadsInv
<1>3. IsFiniteSet(alone) /\ Cardinality(alone) \in Nat
  <2>1. IsFiniteSet(Tracks)
    <3>1. IsFiniteSet({"free"})
      BY FS_Singleton
    <3>2. IsFiniteSet({"free"} \cup {"adopt"})
      BY <3>1, FS_AddElement
    <3>3. IsFiniteSet(({"free"} \cup {"adopt"}) \cup {"self-create"})
      BY <3>2, FS_AddElement
    <3>4. Tracks = ({"free"} \cup {"adopt"}) \cup {"self-create"}
      BY DEF Tracks
    <3> QED BY <3>3, <3>4
  <2> QED BY <2>1, FS_Subset, FS_CardinalityType
<1>4. IsFiniteSet(single) /\ Cardinality(single) <= Cardinality(alone) /\ Cardinality(single) \in Nat
  BY <1>3, FS_Subset, FS_CardinalityType
<1>5. f \in Surjection(single, only)
  <2>1. \A t \in single : f[t] \in Leaves /\ WaveAt(t) = {f[t]}
    OBVIOUS
  <2>2. \A t \in single : f[t] \in only
    BY <2>1
  <2>3. \A l \in only : \E t \in single : f[t] = l
    BY <2>1
  <2>4. f \in [single -> only]
    BY <2>2
  <2> QED BY <2>3, <2>4 DEF Surjection
<1>6. IsFiniteSet(only) /\ Cardinality(only) <= Cardinality(single) /\ Cardinality(only) \in Nat
  BY <1>4, <1>5, FS_Surjection, FS_CardinalityType
<1>7. rest \subseteq only
  <2> SUFFICES ASSUME NEW l \in Leaves, lcAt[l] = "exec", l \notin pooled.busy
               PROVE  l \in only
    BY DEF Executing
  <2>1. PICK t \in Tracks : HasWave(t) /\ WaveAt(t) = {l}
    BY DEF WavesInv, ThreadsInv
  <2>2. Cardinality(WaveAt(t)) = 1
    BY <2>1, FS_Singleton
  <2> QED BY <2>1, <2>2
<1> HIDE DEF alone, single, only, f
<1>8. /\ IsFiniteSet(pooled.busy \cup only)
      /\ Cardinality(pooled.busy \cup only) <= Cardinality(pooled.busy) + Cardinality(only)
  <2>1. IsFiniteSet(pooled.busy \cap only) /\ Cardinality(pooled.busy \cap only) \in Nat
    BY <1>2, FS_Subset, FS_CardinalityType
  <2>2. /\ IsFiniteSet(pooled.busy \cup only)
        /\ Cardinality(pooled.busy \cup only) =
             Cardinality(pooled.busy) + Cardinality(only) - Cardinality(pooled.busy \cap only)
    BY <1>2, <1>6, FS_Union
  <2>3. \A a, b, c \in Nat : a + b - c <= a + b
    OBVIOUS
  <2> QED BY <2>1, <2>2, <2>3, <1>2, <1>6
<1>9. /\ Executing \subseteq pooled.busy \cup only
      /\ Cardinality(Executing) <= Cardinality(pooled.busy \cup only)
      /\ Cardinality(Executing) \in Nat /\ Cardinality(pooled.busy \cup only) \in Nat
  <2>1. Executing \in SUBSET (pooled.busy \cup only)
    BY <1>7
  <2> QED BY <2>1, <1>8, FS_Subset, FS_CardinalityType
<1>10. Cardinality(Executing) <= PoolSize + Cardinality(alone)
  <2>1. \A a, b, c, d, e, s, p \in Nat :
          a <= b /\ b <= c + d /\ c <= p /\ d <= s /\ s <= e => a <= p + e
    OBVIOUS
  <2> QED BY <2>1, <1>1, <1>2, <1>3, <1>4, <1>6, <1>8, <1>9
<1> QED BY <1>10 DEF alone, InFlightFit

\* WavesBounded, for any leaf sets, pool and limits of the limiter: the packing, the order
\* of the waves and the one pool bound what runs at a time, under whatever orders in which
\* tracks and threads go on.
THEOREM WavesKeepTheBounds == WavesSpec => []WavesBounded
<1>1. WavesInv => WavesBounded
  <2> SUFFICES ASSUME WavesInv PROVE Executing # {} => stage = "tracks"
    BY SlotsThatFit, WhatIsInFlight DEF WavesBounded
  <2> QED BY DEF WavesInv, BegunInv, HasWave, Executing
<1> QED BY <1>1, WavesInduction, PTL

\* CapKept: what runs of the one and of the other keeps to the account's limit, whatever
\* the two do beside each other.
THEOREM CapIsKept == NativeSpec /\ WavesSpec => []CapKept
<1>1. NativeCap /\ WavesBounded => CapKept
  BY DEF CapKept
<1> QED BY <1>1, BudgetKeepsTheCap, WavesKeepTheBounds, PTL
=============================================================================
