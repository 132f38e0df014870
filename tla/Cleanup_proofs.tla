---------------------------- MODULE Cleanup_proofs ----------------------------
(***************************************************************************)
(* Proofs about what cleans up.                                            *)
(*                                                                         *)
(* Reconciler, for any account, collections, answers, number of rounds and *)
(* of failed requests: a sweep leaves alone what is neither its own nor a  *)
(* by-product (OthersSpared), does not end early while a gateway on its    *)
(* way out holds a VPC, and its report names what it leaves (SweepHonest). *)
(* What a sweep says at its end depends on which passes it has been        *)
(* through: behind a pass, whatever of its collection stands and was       *)
(* listed is among its picked or stuck items (SeenInv), and a gateway on   *)
(* its way has made the round report progress (GatewayInv).                *)
(*                                                                         *)
(* LocalRun, for any leftovers, whatever they are in, and any selection:   *)
(* that what a run leaves it leaves for a reason (LeftBehindForAReason).   *)
(***************************************************************************)
EXTENDS Reconciler, LocalRun, FiniteSetTheorems, SequenceTheorems, TLAPS

-----------------------------------------------------------------------------
(* The reconciler: the invariant *)

Mine == {i \in Items : Deletable(i)}

States == {"there", "settling", "deleting", "scheduled", "gone"}
Standing(i) == account[i] \in {"there", "settling"}
Leaving(i) == account[i] \in {"deleting", "scheduled"}

\* The places of a pass, those of the ones without the gate counting with the pass
\* they are behind.
Ungated == {"by-products", "reap"}
PassPlaces == {"delete", "retry", "held", "detect", "purge", "by-products", "reap"}
AtEnd == {"second chance", "over"}
SweepPlaces == PassPlaces \cup AtEnd \cup {"prescan", "aim", "blast", "select"}

Sweeps == [round : Nat \ {0}, todo : Seq(Kinds), at : SweepPlaces, picked : SUBSET Items,
           later : SUBSET Items, vpc : SUBSET Items, tries : Nat, extra : SUBSET Items]
Marks == [converged : SUBSET Kinds, issued : SUBSET Items, stuck : SUBSET Items,
          deleted : SUBSET Items, picked : [Kinds -> SUBSET Items]]
Listings(k) == {L \in UNION {[S -> States] : S \in SUBSET Items} :
                  \A i \in DOMAIN L : Kind[i] = k}

SweepShapes ==
  /\ account \in [Items -> States]
  /\ sweep \in Sweeps
  /\ marks \in Marks
  /\ tally \in [genuine : BOOLEAN, inprog : BOOLEAN, reported : BOOLEAN]
  /\ result \in [why : {"none", "stop", "clear", "cap"}, report : BOOLEAN,
                 names : SUBSET Items]
  /\ DOMAIN cache \subseteq Kinds
  /\ \A k \in DOMAIN cache : cache[k] \in Listings(k)
  /\ unseen \subseteq Kinds

\* The passes that the sweep s has been through in its round, in the order of run_sweep.
Through(s) == IF s.at \in PassPlaces THEN 8 - Len(s.todo) ELSE 7 - Len(s.todo)
Passed(s, k) == \E p \in 1 .. Through(s) : Order[p] = k

\* What is deferred is a subnet, of the subnets' pass or behind a VPC's 409.
LaterOK(s) ==
  s.later # {} =>
    /\ \/ s.at = "purge"
       \/ s.at \in {"delete", "retry"} /\ Head(s.todo) = "subnet"
    /\ \A i \in s.later : Kind[i] = "subnet"

\* The passes to come are the rest of the order, and each place has its items.
PlaceOK(s) ==
  /\ Len(s.todo) <= 7
  /\ \A p \in 1 .. Len(s.todo) : s.todo[p] = Order[(7 - Len(s.todo)) + p]
  /\ s.at \in PassPlaces => s.todo # <<>>
  /\ s.at \in {"prescan", "aim", "blast"} => Len(s.todo) = 7
  /\ s.at \in AtEnd => s.todo = <<>>
  /\ s.at \in {"held", "detect", "purge"} => Head(s.todo) = "vpc"
  /\ s.at = "retry" => Head(s.todo) = "subnet"
  /\ s.at = "blast" => \A i \in s.picked : Kind[i] \notin BlastExclude
  /\ s.at \in PassPlaces \ Ungated => \A i \in s.picked : Kind[i] = Head(s.todo)
  /\ s.at \notin AtEnd => LaterOK(s)

\* Whatever the sweep has in hand is its own, or a by-product where those are deleted;
\* only these are on their way.
HandOK(s) ==
  /\ s.picked \cup s.later \cup s.vpc \subseteq Mine
  /\ \A v \in s.vpc : Kind[v] = "vpc"
ExtraOK == \A i \in sweep.extra : Byproduct(i)
MarksOK(m) ==
  /\ \A i \in m.stuck : (i \in Mine /\ Kind[i] = "volume") \/ Kind[i] = "log group"
  /\ \A i \in m.issued : Kind[i] \in {"volume", "log group"}
AccountOK ==
  /\ \A i \in Items : Leaving(i) => i \in Mine \/ Byproduct(i)
  /\ \A i \in Items : account[i] = "settling" => Kind[i] = "gateway"
  /\ \A i \in Items : account[i] = "scheduled" => Nature[i] = "scheduled"
  /\ \A i \in marks.deleted : Standing(i) => Nature[i] = "sticky"

\* What stands of a collection whose LISTs came through: it is in the prescan's listing
\* until its pass, then stuck or picked; the collection has converged only if it is
\* stuck; and the report names it.
SeenInv ==
  \A i \in Mine : Standing(i) /\ Kind[i] \notin unseen =>
    /\ Kind[i] \in marks.converged => i \in marks.stuck
    /\ Kind[i] \in DOMAIN cache =>
         /\ i \in DOMAIN cache[Kind[i]]
         /\ cache[Kind[i]][i] \in {"there", "settling"}
    /\ sweep.round > 1 \/ Passed(sweep, Kind[i]) =>
         i \in marks.stuck \cup marks.picked[Kind[i]]
    /\ sweep.at = "over" /\ result.report => i \in result.names

CacheInv ==
  \A k \in DOMAIN cache : k \notin marks.converged /\ ~Passed(sweep, k)

\* What is known of a gateway on its way out or not settled: its collection has not
\* converged, the prescan's listing says so, and behind its pass the round knows it.
OnItsWay(g) == Kind[g] = "gateway" /\ account[g] \in {"deleting", "settling"}

GatewayInv ==
  \A g \in Mine : OnItsWay(g) /\ "gateway" \notin unseen =>
    /\ "gateway" \notin marks.converged
    /\ "gateway" \in DOMAIN cache =>
         g \in DOMAIN cache["gateway"] /\ cache["gateway"][g] = account[g]
    /\ Passed(sweep, "gateway") /\ sweep.at \notin AtEnd => tally.genuine \/ tally.inprog
    /\ sweep.at \in AtEnd => result.why # "stop"

ClearInv ==
  sweep.at \in AtEnd /\ result.why = "clear" =>
    \A v \in Mine : Kind[v] = "vpc" => account[v] = "gone"

HeldInv ==
  PlaceOK(sweep) /\ HandOK(sweep) /\ MarksOK(marks) /\ AccountOK
KnownInv == SeenInv /\ CacheInv /\ GatewayInv /\ ClearInv
ReconcilerInv == SweepShapes /\ HeldInv /\ KnownInv

-----------------------------------------------------------------------------
(* The order of the passes *)

LEMMA OrderIs ==
  /\ Kinds = {"server", "group", "volume", "subnet", "gateway", "vpc", "key"}
  /\ Order[1] = "server" /\ Order[2] = "group" /\ Order[3] = "volume"
  /\ Order[4] = "subnet" /\ Order[5] = "gateway" /\ Order[6] = "vpc" /\ Order[7] = "key"
<1>1. DOMAIN Order = {1, 2, 3, 4, 5, 6, 7}
  BY DEF Order
<1>2. QED
  BY <1>1 DEF Kinds, Order

LEMMA Numbers ==
  /\ \A n \in Nat : n # 0 /\ n <= 7 => n \in 1 .. 7
  /\ \A n \in 1 .. 7 : 8 - n \in 1 .. 7 /\ 8 - n \in 1 .. (8 - n)
OBVIOUS

\* The pass at hand, and what is to come behind it.
LEMMA PassIs ==
  ASSUME NEW s \in Sweeps, PlaceOK(s), s.todo # <<>>
  PROVE  /\ Len(s.todo) \in 1 .. 7 /\ Head(s.todo) = Order[8 - Len(s.todo)]
         /\ Tail(s.todo) \in Seq(Kinds) /\ Len(Tail(s.todo)) = Len(s.todo) - 1
         /\ \A p \in 1 .. Len(s.todo) - 1 :
              Tail(s.todo)[p] = Order[(7 - (Len(s.todo) - 1)) + p]
<1>1. s.todo \in Seq(Kinds) /\ Len(s.todo) \in 1 .. 7
  <2>1. s.todo \in Seq(Kinds)
    BY DEF Sweeps
  <2>2. Len(s.todo) \in Nat /\ Len(s.todo) # 0
    BY <2>1, EmptySeq
  <2>3. Len(s.todo) <= 7
    BY DEF PlaceOK
  <2>4. QED
    BY <2>1, <2>2, <2>3, Numbers
<1>2. Head(s.todo) = s.todo[1] /\ s.todo[1] = Order[(7 - Len(s.todo)) + 1]
  <2>1. Head(s.todo) = s.todo[1]
    BY <1>1
  <2>2. 1 \in 1 .. Len(s.todo)
    BY <1>1
  <2>3. QED
    BY <2>1, <2>2 DEF PlaceOK
<1>3. Tail(s.todo) \in Seq(Kinds) /\ Len(Tail(s.todo)) = Len(s.todo) - 1
  BY <1>1
<1>4. ASSUME NEW p \in 1 .. Len(s.todo) - 1
      PROVE  Tail(s.todo)[p] = Order[(7 - (Len(s.todo) - 1)) + p]
  <2>1. Tail(s.todo)[p] = s.todo[p + 1] /\ p + 1 \in 1 .. Len(s.todo)
    BY <1>1
  <2>2. (7 - Len(s.todo)) + (p + 1) = (7 - (Len(s.todo) - 1)) + p
    BY <1>1
  <2>3. QED
    BY <2>1, <2>2 DEF PlaceOK
<1>5. (7 - Len(s.todo)) + 1 = 8 - Len(s.todo)
  BY <1>1
<1>6. QED
  BY <1>1, <1>2, <1>3, <1>4, <1>5

\* At a pass its collection has been passed, and at the one of the VPCs that of the
\* gateways as well; in front of it only those before it.
LEMMA PassedInside ==
  ASSUME NEW s \in Sweeps, PlaceOK(s), s.at \in PassPlaces
  PROVE  /\ Passed(s, Head(s.todo))
         /\ Head(s.todo) = "vpc" => Passed(s, "gateway")
<1>1. /\ Len(s.todo) \in 1 .. 7 /\ Head(s.todo) = Order[8 - Len(s.todo)]
      /\ Through(s) = 8 - Len(s.todo)
  BY PassIs DEF PlaceOK, Through
<1>2. Passed(s, Head(s.todo))
  <2>1. 8 - Len(s.todo) \in 1 .. Through(s)
    BY <1>1, Numbers
  <2>2. QED
    BY <1>1, <2>1 DEF Passed
<1>3. ASSUME Head(s.todo) = "vpc" PROVE Passed(s, "gateway")
  <2>1. 8 - Len(s.todo) = 6
    <3>1. \A p \in 1 .. 7 : Order[p] = "vpc" => p = 6
      BY OrderIs
    <3>2. 8 - Len(s.todo) \in 1 .. 7 /\ Order[8 - Len(s.todo)] = "vpc"
      BY <1>1, <1>3, Numbers
    <3>3. QED
      BY <3>1, <3>2
  <2>2. Through(s) = 6
    BY <1>1, <2>1
  <2>3. QED
    BY <2>2, OrderIs DEF Passed
<1>4. QED
  BY <1>2, <1>3

LEMMA SamePassed ==
  ASSUME NEW s, NEW t, Through(t) = Through(s), NEW k
  PROVE  Passed(t, k) <=> Passed(s, k)
BY DEF Passed

\* A pass more.
LEMMA OnePassMore ==
  ASSUME NEW s \in Sweeps, PlaceOK(s), s.at = "select", s.todo # <<>>,
         NEW t, Through(t) = 8 - Len(s.todo), NEW k
  PROVE  Passed(t, k) <=> Passed(s, k) \/ k = Head(s.todo)
<1>1. /\ Len(s.todo) \in 1 .. 7 /\ Head(s.todo) = Order[8 - Len(s.todo)]
      /\ Through(s) = 7 - Len(s.todo)
  BY PassIs DEF Through, PassPlaces
<1>2. 1 .. (8 - Len(s.todo)) = 1 .. (7 - Len(s.todo)) \cup {8 - Len(s.todo)}
  <2> DEFINE n == Len(s.todo)
  <2>1. n \in 1 .. 7
    BY <1>1
  <2> HIDE DEF n
  <2>2. \A p : p \in 1 .. (8 - n) <=> p \in 1 .. (7 - n) \/ p = 8 - n
    BY <2>1
  <2>3. QED
    BY <2>2 DEF n
<1>3. QED
  BY <1>1, <1>2 DEF Passed

\* A sweep that is through with its passes has been through all of them.
LEMMA AllPassed ==
  ASSUME NEW s, s.todo = <<>>, s.at \notin PassPlaces, NEW k \in Kinds
  PROVE  Passed(s, k)
<1>1. Through(s) = 7
  BY DEF Through
<1>2. \E p \in 1 .. 7 : Order[p] = k
  BY OrderIs
<1>3. QED
  BY <1>1, <1>2 DEF Passed

LEMMA NonePassed ==
  ASSUME NEW s, Len(s.todo) = 7, s.at \notin PassPlaces, NEW k
  PROVE  ~Passed(s, k)
BY DEF Passed, Through

-----------------------------------------------------------------------------
(* The requests *)

LEMMA MineStays ==
  ASSUME mode' = mode
  PROVE  Mine' = Mine
BY DEF Mine, Deletable

\* What is its own belongs to a collection of the passes; by-products do not count.
LEMMA MineIs ==
  ASSUME NEW i \in Mine
  PROVE  i \in Items /\ Kind[i] \in Kinds /\ Nature[i] # "sticky" /\ ~Byproduct(i)
BY ReconcilerAssumption DEF Mine, Deletable, Byproduct

\* A by-product stays one: what held it and is gone does not come back.
LEMMA ByproductStays ==
  ASSUME \A j \in Items : account[j] = "gone" => account'[j] = "gone",
         NEW i, Byproduct(i)
  PROVE  Byproduct(i)'
<1>1. Holders(i)' \subseteq Holders(i)
  BY DEF Holders, Present
<1>2. QED
  BY <1>1 DEF Byproduct

LEMMA AnswerIs ==
  ASSUME NEW i \in Items, NEW a \in Answers(i)
  PROVE  /\ a = "gone" => account[i] = "gone"
         /\ a = "ok" => account[i] # "gone" /\ account[i] # "settling"
<1>1. CASE account[i] = "gone"
  BY <1>1 DEF Answers, Troubled
<1>2. CASE account[i] # "gone" /\ Holders(i) # {}
  BY <1>2 DEF Answers, Troubled
<1>3. CASE account[i] = "settling" /\ Holders(i) = {}
  BY <1>3 DEF Answers, Troubled
<1>4. CASE account[i] # "gone" /\ account[i] # "settling" /\ Holders(i) = {}
  BY <1>4 DEF Answers, Troubled
<1>5. QED
  BY <1>1, <1>2, <1>3, <1>4

\* What a DELETE does to the account.
LEMMA DeleteIs ==
  ASSUME SweepShapes, AccountOK, NEW i \in Items, NEW a, Delete(i, a)
  PROVE  /\ account' \in [Items -> States]
         /\ \A j \in Items \ {i} : account'[j] = account[j]
         /\ \A j \in Items : account[j] = "gone" => account'[j] = "gone"
         /\ a # "ok" => account' = account
         /\ a = "ok" => account'[i] \in {"deleting", "scheduled", "gone"}
                         \/ (Nature[i] = "sticky" /\ account'[i] = "there")
         /\ a = "gone" => account[i] = "gone"
         /\ account'[i] = "scheduled" => Nature[i] = "scheduled"
         /\ account'[i] = "deleting" => account[i] = "deleting" \/ (account[i] = "there" /\ a = "ok")
<1>1. account \in [Items -> States] /\ a \in Answers(i)
  BY DEF SweepShapes, Delete
<1>2. CASE a # "ok"
  BY <1>1, <1>2, AnswerIs DEF Delete, AccountOK
<1>3. CASE a = "ok"
  <2> DEFINE state == CASE Nature[i] = "slow" -> "deleting"
                        [] Nature[i] = "scheduled" -> "scheduled"
                        [] Nature[i] = "sticky" -> "there"
                        [] OTHER -> "gone"
  <2>1. account' = [account EXCEPT ![i] = state]
    BY <1>3 DEF Delete
  <2>2. /\ state \in {"deleting", "scheduled", "gone"}
           \/ (Nature[i] = "sticky" /\ state = "there")
        /\ state = "scheduled" => Nature[i] = "scheduled"
        /\ state = "deleting" => Nature[i] # "scheduled"
    OBVIOUS
  <2> HIDE DEF state
  <2>3. account[i] \in {"there", "deleting", "scheduled"} /\ account[i] # "gone"
    BY <1>1, <1>3, AnswerIs DEF States
  <2>4. account[i] = "scheduled" => Nature[i] = "scheduled"
    BY <1>1 DEF AccountOK
  <2>5. account' \in [Items -> States]
    BY <1>1, <2>1, <2>2 DEF States
  <2>6. account'[i] = state /\ \A j \in Items \ {i} : account'[j] = account[j]
    BY <1>1, <2>1
  <2>7. QED
    BY <1>3, <2>2, <2>3, <2>4, <2>5, <2>6
<1>4. QED
  BY <1>2, <1>3

\* Nothing that did not stand stands after a request, nor what was accepted.
LEMMA DeleteStands ==
  ASSUME SweepShapes, AccountOK, NEW i \in Mine, NEW a, Delete(i, a),
         NEW j \in Items, Standing(j)'
  PROVE  Standing(j) /\ account'[j] = account[j] /\ ~ (j = i /\ a \in Accepted)
<1>1. CASE j # i
  BY <1>1, MineIs, DeleteIs DEF Standing
<1>2. CASE j = i
  BY <1>2, MineIs, DeleteIs DEF Standing, Accepted
<1>3. QED
  BY <1>1, <1>2

LEMMA AccountSame ==
  ASSUME AccountOK, UNCHANGED <<account, mode>>, marks'.deleted = marks.deleted
  PROVE  AccountOK'
<1>1. \A i \in Items : Byproduct(i) => Byproduct(i)'
  BY ByproductStays
<1>2. QED
  BY <1>1, MineStays DEF AccountOK, Leaving, Standing

\* A step with a DELETE of i that is answered a.
Request(i, a) ==
  /\ i \in Mine /\ Delete(i, a)
  /\ UNCHANGED <<mode, unseen, result>>
  /\ sweep'.round = sweep.round /\ Through(sweep') = Through(sweep)
  /\ sweep.at # "over" /\ sweep'.at # "over"
  /\ sweep'.at \in AtEnd <=> sweep.at \in AtEnd
  /\ marks'.converged = marks.converged /\ marks'.picked = marks.picked
  /\ \/ marks'.stuck = marks.stuck
     \/ a \in Accepted /\ marks'.stuck = marks.stuck \ {i}
  /\ marks'.deleted = marks.deleted \/ marks'.deleted = Deleted(i, a)
  /\ tally.genuine => tally'.genuine
  /\ tally.inprog => tally'.inprog
  /\ \/ cache' = cache
     \/ /\ a = "ok" /\ Kind[i] # "gateway"
        /\ cache' = [cache EXCEPT ![Kind[i]] = [j \in DOMAIN @ \ {i} |-> @[j]]]
  /\ Kind[i] = "gateway" =>
       /\ Passed(sweep, "gateway") /\ sweep.at \notin AtEnd
       /\ a = "ok" /\ i \notin marks.deleted => tally'.genuine

\* A listing in the cache loses at most the item that was deleted.
LEMMA RequestCache ==
  ASSUME SweepShapes, NEW i \in Items, NEW a, Request(i, a)
  PROVE  /\ DOMAIN cache' = DOMAIN cache
         /\ \A k \in DOMAIN cache :
              /\ cache'[k] \in Listings(k)
              /\ k = "gateway" => cache'[k] = cache[k]
              /\ \A j \in DOMAIN cache[k] : ~ (j = i /\ a = "ok") =>
                   j \in DOMAIN cache'[k] /\ cache'[k][j] = cache[k][j]
<1>1. \A k \in DOMAIN cache : cache[k] \in Listings(k)
  BY DEF SweepShapes
<1>2. CASE cache' = cache
  BY <1>1, <1>2
<1>3. CASE /\ a = "ok" /\ Kind[i] # "gateway"
           /\ cache' = [cache EXCEPT ![Kind[i]] = [j \in DOMAIN @ \ {i} |-> @[j]]]
  <2> DEFINE rest(k) == [j \in DOMAIN cache[k] \ {i} |-> cache[k][j]]
  <2>1. /\ DOMAIN cache' = DOMAIN cache
        /\ \A k \in DOMAIN cache : cache'[k] = IF k = Kind[i] THEN rest(k) ELSE cache[k]
    BY <1>3
  <2>2. \A k \in DOMAIN cache : rest(k) \in Listings(k)
    <3>1. TAKE k \in DOMAIN cache
    <3>2. PICK S \in SUBSET Items : cache[k] \in [S -> States]
      BY <1>1 DEF Listings
    <3>3. rest(k) \in [S \ {i} -> States] /\ S \ {i} \in SUBSET Items
      BY <3>2
    <3>4. \A j \in DOMAIN rest(k) : Kind[j] = k
      BY <1>1 DEF Listings
    <3> HIDE DEF rest
    <3>5. QED
      BY <3>3, <3>4 DEF Listings
  <2>3. QED
    BY <1>1, <1>3, <2>1, <2>2
<1>4. QED
  BY <1>2, <1>3 DEF Request

LEMMA RequestKnown ==
  ASSUME SweepShapes, AccountOK, MarksOK(marks), KnownInv, NEW i \in Items, NEW a, Request(i, a)
  PROVE  KnownInv' /\ AccountOK'
<1>1. Mine' = Mine /\ unseen' = unseen /\ result' = result /\ i \in Mine /\ Mine \subseteq Items
  BY MineStays DEF Request, Mine
<1>2. \A k : Passed(sweep', k) <=> Passed(sweep, k)
  BY SamePassed DEF Request
<1>3. \A j \in Items : Standing(j)' =>
        Standing(j) /\ account'[j] = account[j] /\ ~ (j = i /\ a \in Accepted)
  BY <1>1, DeleteStands DEF Request
<1>4. SeenInv'
  <2>1. SUFFICES ASSUME NEW j \in Mine, Standing(j)', Kind[j] \notin unseen
                 PROVE  /\ Kind[j] \in marks'.converged => j \in marks'.stuck
                        /\ Kind[j] \in DOMAIN cache' =>
                             /\ j \in DOMAIN cache'[Kind[j]]
                             /\ cache'[Kind[j]][j] \in {"there", "settling"}
                        /\ sweep'.round > 1 \/ Passed(sweep', Kind[j]) =>
                             j \in marks'.stuck \cup marks'.picked[Kind[j]]
                        /\ sweep'.at = "over" /\ result'.report => j \in result'.names
    BY <1>1 DEF SeenInv
  <2>2. Standing(j) /\ ~ (j = i /\ a \in Accepted)
    BY <1>1, <1>3, <2>1
  <2>3. j \in marks.stuck => j \in marks'.stuck
    BY <2>2 DEF Request
  <2>4. Kind[j] \in marks'.converged => j \in marks'.stuck
    BY <2>1, <2>2, <2>3 DEF Request, KnownInv, SeenInv
  <2>5. ASSUME Kind[j] \in DOMAIN cache'
        PROVE  j \in DOMAIN cache'[Kind[j]] /\ cache'[Kind[j]][j] \in {"there", "settling"}
    <3>1. /\ Kind[j] \in DOMAIN cache /\ j \in DOMAIN cache[Kind[j]]
          /\ cache[Kind[j]][j] \in {"there", "settling"}
      BY <2>1, <2>2, <2>5, RequestCache DEF KnownInv, SeenInv
    <3>2. QED
      BY <2>2, <3>1, RequestCache DEF Accepted
  <2>6. sweep'.round > 1 \/ Passed(sweep', Kind[j]) =>
          j \in marks'.stuck \cup marks'.picked[Kind[j]]
    BY <1>2, <2>1, <2>2, <2>3 DEF Request, KnownInv, SeenInv
  <2>7. QED
    BY <2>4, <2>5, <2>6 DEF Request
<1>5. CacheInv'
  BY <1>2, RequestCache DEF Request, KnownInv, CacheInv
<1>6. GatewayInv'
  <2>1. SUFFICES ASSUME NEW g \in Mine, Kind[g] = "gateway",
                        account'[g] \in {"deleting", "settling"}, "gateway" \notin unseen
                 PROVE  /\ "gateway" \notin marks'.converged
                        /\ "gateway" \in DOMAIN cache' =>
                             /\ g \in DOMAIN cache'["gateway"]
                             /\ cache'["gateway"][g] = account'[g]
                        /\ Passed(sweep', "gateway") /\ sweep'.at \notin AtEnd =>
                             tally'.genuine \/ tally'.inprog
                        /\ sweep'.at \in AtEnd => result'.why # "stop"
    BY <1>1 DEF GatewayInv, OnItsWay
  <2>2. \/ account'[g] = account[g]
        \/ g = i /\ a = "ok" /\ account[g] = "there"
    <3>1. CASE g # i
      BY <1>1, <3>1, DeleteIs DEF Request
    <3>2. CASE g = i
      <4>1. CASE account'[g] = "settling"
        BY <1>1, <1>3, <4>1 DEF Standing
      <4>2. CASE account'[g] = "deleting"
        BY <1>1, <3>2, <4>2, DeleteIs DEF Request
      <4>3. QED
        BY <2>1, <4>1, <4>2
    <3>3. QED
      BY <3>1, <3>2
  <2>3. CASE account'[g] = account[g]
    BY <1>1, <1>2, <2>1, <2>3, RequestCache DEF Request, KnownInv, GatewayInv, OnItsWay
  <2>4. CASE g = i /\ a = "ok" /\ account[g] = "there"
    <3>1. Passed(sweep, "gateway") /\ sweep.at \notin AtEnd /\ Standing(g)
      BY <2>1, <2>4 DEF Request, Standing
    <3>2. g \notin marks.stuck
      BY <2>1 DEF MarksOK
    <3>3. "gateway" \notin marks.converged
      BY <2>1, <3>1, <3>2 DEF KnownInv, SeenInv
    <3>4. "gateway" \notin DOMAIN cache
      BY <3>1 DEF KnownInv, CacheInv
    <3>5. g \notin marks.deleted
      BY <3>1, MineIs DEF AccountOK
    <3>6. QED
      BY <2>1, <2>4, <3>1, <3>3, <3>4, <3>5, RequestCache DEF Request
  <2>5. QED
    BY <2>2, <2>3, <2>4
<1>7. ClearInv'
  <2>1. \A v \in Items : account[v] = "gone" => account'[v] = "gone"
    BY DeleteIs DEF Request
  <2>2. QED
    BY <1>1, <2>1 DEF Request, KnownInv, ClearInv
<1>8. AccountOK'
  <2>1. ASSUME NEW j \in Items, Leaving(j)' PROVE j \in Mine' \/ Byproduct(j)'
    <3>1. j \in Mine \/ Byproduct(j)
      BY <1>1, <2>1, DeleteIs DEF Request, AccountOK, Leaving
    <3>2. QED
      BY <1>1, <3>1, ByproductStays, DeleteIs DEF Request
  <2>2. \A j \in Items : account'[j] = "settling" => Kind[j] = "gateway"
    BY <1>3 DEF AccountOK, Standing
  <2>3. \A j \in Items : account'[j] = "scheduled" => Nature[j] = "scheduled"
    BY <1>1, DeleteIs DEF Request, AccountOK
  <2>4. \A j \in marks'.deleted : Standing(j)' => Nature[j] = "sticky"
    <3>1. TAKE j \in marks'.deleted
    <3>2. marks.deleted \subseteq Items
      BY DEF SweepShapes, Marks
    <3>3. j \in Items /\ (j \in marks.deleted \/ (j = i /\ a = "ok"))
      BY <1>1, <3>2 DEF Request, Deleted
    <3>4. QED
      BY <1>3, <3>3 DEF AccountOK, Accepted
  <2>5. QED
    BY <2>1, <2>2, <2>3, <2>4 DEF AccountOK
<1>9. QED
  BY <1>4, <1>5, <1>6, <1>7, <1>8 DEF KnownInv

-----------------------------------------------------------------------------
(* The places of a sweep *)

Tallies == [genuine : BOOLEAN, inprog : BOOLEAN, reported : BOOLEAN]

\* From a pass to the next one, ...
LEMMA NextPassIs ==
  ASSUME NEW t \in Sweeps, PlaceOK(t), t.todo # <<>>,
         NEW s, s.todo = Tail(t.todo), s.at = "select", s.later = {}
  PROVE  PlaceOK(s) /\ Through(s) = 8 - Len(t.todo)
<1>1. /\ Len(t.todo) \in 1 .. 7 /\ Len(s.todo) = Len(t.todo) - 1
      /\ \A p \in 1 .. Len(t.todo) - 1 : s.todo[p] = Order[(7 - (Len(t.todo) - 1)) + p]
  BY PassIs
<1>2. Through(s) = 8 - Len(t.todo)
  BY <1>1 DEF Through, PassPlaces
<1>3. Len(s.todo) <= 7
  <2> DEFINE n == Len(t.todo)
             m == Len(s.todo)
  <2>1. n \in 1 .. 7 /\ m = n - 1
    BY <1>1
  <2> HIDE DEF n, m
  <2>2. m <= 7
    BY <2>1
  <2>3. QED
    BY <2>2 DEF m
<1>4. \A p \in 1 .. Len(s.todo) : s.todo[p] = Order[(7 - Len(s.todo)) + p]
  BY <1>1
<1>5. PlaceOK(s)
  BY <1>3, <1>4 DEF PlaceOK, LaterOK, PassPlaces, AtEnd
<1>6. QED
  BY <1>2, <1>5

\* ... inside a pass, ...
LEMMA SamePassIs ==
  ASSUME NEW t \in Sweeps, PlaceOK(t), t.at \in PassPlaces,
         NEW s, s.todo = t.todo, s.at \in PassPlaces, s.picked \subseteq t.picked,
         s.at \in {"held", "detect", "purge"} => Head(t.todo) = "vpc",
         s.at = "retry" => Head(t.todo) = "subnet",
         s.at \in Ungated \/ t.at \notin Ungated,
         LaterOK(s)
  PROVE  PlaceOK(s) /\ Through(s) = Through(t)
<1>1. Through(s) = Through(t)
  BY DEF Through
<1>2. s.at \notin AtEnd /\ s.at \notin {"prescan", "aim", "blast"}
  BY DEF PassPlaces, AtEnd
<1>3. s.todo # <<>> /\ Len(s.todo) <= 7
  BY DEF PlaceOK
<1>4. \A p \in 1 .. Len(s.todo) : s.todo[p] = Order[(7 - Len(s.todo)) + p]
  BY DEF PlaceOK
<1>5. s.at \notin Ungated => \A i \in s.picked : Kind[i] = Head(s.todo)
  BY DEF PlaceOK
<1>6. PlaceOK(s)
  BY <1>2, <1>3, <1>4, <1>5 DEF PlaceOK
<1>7. QED
  BY <1>1, <1>6

\* ... and at another place outside of the passes.
LEMMA OutsideIs ==
  ASSUME NEW t \in Sweeps, PlaceOK(t), t.at \notin PassPlaces,
         NEW s, s.todo = t.todo, s.at \notin PassPlaces,
         s.at \in {"prescan", "aim", "blast"} => Len(t.todo) = 7,
         s.at \in AtEnd => t.todo = <<>>,
         s.at = "blast" => \A i \in s.picked : Kind[i] \notin BlastExclude,
         s.at \notin AtEnd => s.later = {}
  PROVE  PlaceOK(s) /\ Through(s) = Through(t)
<1>1. Through(s) = Through(t)
  BY DEF Through
<1>2. s.at \notin {"held", "detect", "purge"} /\ s.at # "retry"
  BY DEF PassPlaces
<1>3. Len(s.todo) <= 7
  BY DEF PlaceOK
<1>4. \A p \in 1 .. Len(s.todo) : s.todo[p] = Order[(7 - Len(s.todo)) + p]
  BY DEF PlaceOK
<1>5. PlaceOK(s)
  BY <1>2, <1>3, <1>4 DEF PlaceOK, LaterOK
<1>6. QED
  BY <1>1, <1>5

LEMMA RequestStep ==
  ASSUME ReconcilerInv, NEW i \in Items, NEW a, Request(i, a),
         sweep' \in Sweeps, marks' \in Marks, tally' \in Tallies,
         PlaceOK(sweep'), HandOK(sweep'), MarksOK(marks')
  PROVE  ReconcilerInv'
<1>1. KnownInv' /\ AccountOK'
  BY RequestKnown DEF ReconcilerInv, HeldInv
<1>2. account' \in [Items -> States]
  BY DeleteIs DEF Request, ReconcilerInv, HeldInv
<1>3. DOMAIN cache' \subseteq Kinds /\ \A k \in DOMAIN cache' : cache'[k] \in Listings(k)
  BY RequestCache DEF ReconcilerInv, SweepShapes
<1>4. SweepShapes'
  BY <1>2, <1>3 DEF SweepShapes, Request, ReconcilerInv, Tallies
<1>5. HandOK(sweep)' /\ MarksOK(marks)'
  BY MineStays DEF HandOK, MarksOK, Request
<1>6. QED
  BY <1>1, <1>4, <1>5 DEF ReconcilerInv, HeldInv

-----------------------------------------------------------------------------
(* The ways to a DELETE *)

LEMMA Shapes ==
  ASSUME ReconcilerInv
  PROVE  /\ sweep \in Sweeps /\ marks \in Marks /\ tally \in Tallies
         /\ PlaceOK(sweep) /\ HandOK(sweep) /\ MarksOK(marks) /\ Mine \subseteq Items
BY DEF ReconcilerInv, SweepShapes, HeldInv, Tallies, Mine

LEMMA BlastKeeps ==
  ASSUME ReconcilerInv, NEW i \in Items, NEW a, BlastOne(i, a)
  PROVE  ReconcilerInv' /\ i \in Mine
<1>1. /\ sweep \in Sweeps /\ marks \in Marks /\ tally \in Tallies
      /\ PlaceOK(sweep) /\ HandOK(sweep) /\ MarksOK(marks)
      /\ sweep.at = "blast" /\ i \in sweep.picked
      /\ sweep' = [sweep EXCEPT !.picked = @ \ {i}]
      /\ marks' = [marks EXCEPT !.deleted = Deleted(i, a)]
      /\ tally' = [tally EXCEPT !.reported = @ \/ Status(i, a) = "ok"]
  BY Shapes DEF BlastOne
<1>2. /\ sweep' \in Sweeps /\ sweep'.at = "blast" /\ sweep'.todo = sweep.todo
      /\ sweep'.round = sweep.round /\ sweep'.picked \subseteq sweep.picked
      /\ sweep'.later = sweep.later /\ sweep'.vpc = sweep.vpc
  BY <1>1 DEF Sweeps
<1>3. PlaceOK(sweep') /\ Through(sweep') = Through(sweep) /\ HandOK(sweep')
  <2>1. sweep'.at \notin PassPlaces /\ sweep'.at \notin AtEnd /\ sweep.at \notin PassPlaces
    BY <1>1, <1>2 DEF PassPlaces, AtEnd
  <2>2. Len(sweep.todo) = 7 /\ sweep.at \notin AtEnd
    BY <1>1 DEF PlaceOK, AtEnd
  <2>3. /\ \A j \in sweep'.picked : Kind[j] \notin BlastExclude
        /\ sweep'.later = {}
    BY <1>1, <1>2, <2>2 DEF PlaceOK, LaterOK
  <2>4. PlaceOK(sweep') /\ Through(sweep') = Through(sweep)
    BY <1>1, <1>2, <2>1, <2>2, <2>3, OutsideIs
  <2>5. HandOK(sweep')
    BY <1>1, <1>2 DEF HandOK
  <2>6. QED
    BY <2>4, <2>5
<1>4. /\ marks' \in Marks /\ marks'.stuck = marks.stuck /\ marks'.issued = marks.issued
      /\ marks'.converged = marks.converged /\ marks'.picked = marks.picked
      /\ marks'.deleted = Deleted(i, a)
  BY <1>1 DEF Marks, Deleted
<1>5. /\ tally' \in Tallies /\ tally'.genuine = tally.genuine
      /\ tally'.inprog = tally.inprog
  BY <1>1 DEF Tallies
<1>6. i \in Mine /\ Kind[i] # "gateway"
  BY <1>1 DEF HandOK, PlaceOK, BlastExclude
<1>7. \/ cache' = cache
      \/ /\ a = "ok"
         /\ cache' = [cache EXCEPT ![Kind[i]] = [j \in DOMAIN @ \ {i} |-> @[j]]]
  BY DEF BlastOne, Status
<1>8. Request(i, a)
  BY <1>1, <1>2, <1>3, <1>4, <1>5, <1>6, <1>7 DEF Request, BlastOne, AtEnd
<1>9. MarksOK(marks')
  BY <1>1, <1>4 DEF MarksOK
<1>10. QED
  BY <1>2, <1>3, <1>4, <1>5, <1>6, <1>8, <1>9, RequestStep

LEMMA DeleteOneKeeps ==
  ASSUME ReconcilerInv, NEW i \in Items, NEW a, DeleteOne(i, a)
  PROVE  ReconcilerInv' /\ i \in Mine
<1> DEFINE later == IF Pass = "subnet" /\ Status(i, a) \in {"held", "refused"}
                    THEN sweep.later \cup {i} ELSE sweep.later
           asked == IF Pass \in Marked /\ Status(i, a) \notin Accepted \cup {"held"}
                     THEN marks.issued \cup {i} ELSE marks.issued
           hit == Pass \in Counted /\ Status(i, a) \in Accepted
           said == IF Pass \in Counted THEN Status(i, a) \in Accepted ELSE Status(i, a) # "none"
<1>1. /\ sweep \in Sweeps /\ marks \in Marks /\ tally \in Tallies
      /\ PlaceOK(sweep) /\ HandOK(sweep) /\ MarksOK(marks) /\ Mine \subseteq Items
      /\ sweep.at = "delete" /\ i \in sweep.picked /\ sweep.todo # <<>>
      /\ sweep' = [sweep EXCEPT !.picked = @ \ {i}, !.later = later]
      /\ marks' = [marks EXCEPT !.deleted = Deleted(i, a), !.issued = asked]
      /\ tally' = [tally EXCEPT !.genuine = @ \/ hit, !.reported = @ \/ said]
      /\ Delete(i, a) /\ UNCHANGED <<mode, cache, result, unseen>>
  BY Shapes DEF DeleteOne, InPass
<1>2. i \in Mine /\ Kind[i] = Pass /\ Passed(sweep, Kind[i])
  BY <1>1, PassedInside DEF Ungated, HandOK, PlaceOK, PassPlaces, Pass
<1>3. /\ later \subseteq sweep.later \cup {i}
      /\ i \in later => i \in sweep.later \/ Kind[i] = "subnet"
      /\ later # {} => sweep.later # {} \/ Pass = "subnet"
      /\ asked \subseteq marks.issued \cup {i}
      /\ i \in asked => i \in marks.issued \/ Kind[i] = "volume"
      /\ said \in BOOLEAN
  <2>1. /\ later \subseteq sweep.later \cup {i}
        /\ i \in later => i \in sweep.later \/ Kind[i] = "subnet"
        /\ later # {} => sweep.later # {} \/ Pass = "subnet"
    BY <1>2
  <2>2. /\ asked \subseteq marks.issued \cup {i}
        /\ i \in asked => i \in marks.issued \/ Kind[i] = "volume"
    BY <1>2 DEF Marked
  <2>3. said \in BOOLEAN
    <3>1. CASE Pass \in Counted
      BY <3>1
    <3>2. CASE Pass \notin Counted
      BY <3>2
    <3>3. QED
      BY <3>1, <3>2
  <2>4. QED
    BY <2>1, <2>2, <2>3
<1>4. Kind[i] = "gateway" /\ a = "ok" /\ i \notin marks.deleted => hit
  BY <1>2 DEF Status, Accepted, Counted
<1> HIDE DEF later, asked, hit, said
<1>5. /\ sweep' \in Sweeps /\ sweep'.at = "delete" /\ sweep'.todo = sweep.todo
      /\ sweep'.round = sweep.round /\ sweep'.picked \subseteq sweep.picked
      /\ sweep'.later = later /\ sweep'.vpc = sweep.vpc
  BY <1>1, <1>3 DEF Sweeps
<1>6. (\A j \in later : j \in Mine) /\ LaterOK(sweep')
  BY <1>1, <1>2, <1>3, <1>5 DEF PlaceOK, LaterOK, HandOK, AtEnd, Pass
<1>7. PlaceOK(sweep') /\ Through(sweep') = Through(sweep)
  BY <1>1, <1>5, <1>6, SamePassIs DEF PassPlaces
<1>8. HandOK(sweep')
  BY <1>1, <1>5, <1>6 DEF HandOK
<1>9. /\ marks' \in Marks /\ marks'.stuck = marks.stuck /\ marks'.issued = asked
      /\ marks'.converged = marks.converged /\ marks'.picked = marks.picked
      /\ marks'.deleted = Deleted(i, a)
  BY <1>1, <1>3 DEF Marks, Deleted
<1>10. MarksOK(marks')
  BY <1>1, <1>2, <1>3, <1>9 DEF MarksOK
<1>11. /\ tally' \in Tallies /\ (tally'.genuine <=> tally.genuine \/ hit)
       /\ tally'.inprog = tally.inprog
  BY <1>1, <1>3 DEF Tallies, hit
<1>12. Request(i, a)
  BY <1>1, <1>2, <1>4, <1>5, <1>7, <1>9, <1>11 DEF Request, AtEnd
<1>13. QED
  BY <1>2, <1>5, <1>7, <1>8, <1>9, <1>10, <1>11, <1>12, RequestStep

LEMMA RetrySubnetKeeps ==
  ASSUME ReconcilerInv, NEW i \in Items, NEW a, RetrySubnet(i, a)
  PROVE  ReconcilerInv' /\ i \in Mine
<1> DEFINE hit == Status(i, a) \in Accepted
<1>1. /\ sweep \in Sweeps /\ marks \in Marks /\ tally \in Tallies
      /\ PlaceOK(sweep) /\ HandOK(sweep) /\ MarksOK(marks) /\ Mine \subseteq Items
      /\ sweep.at = "retry" /\ i \in sweep.later /\ sweep.todo # <<>>
      /\ sweep' = [(IF sweep.later = {i} THEN NextPass ELSE sweep) EXCEPT !.later = @ \ {i}]
      /\ marks' = [marks EXCEPT !.deleted = Deleted(i, a)]
      /\ tally' = [tally EXCEPT !.genuine = @ \/ hit, !.reported = @ \/ hit]
      /\ Delete(i, a) /\ UNCHANGED <<mode, cache, result, unseen>>
  BY Shapes DEF RetrySubnet, InPass
<1>2. i \in Mine /\ Kind[i] = "subnet"
  BY <1>1 DEF HandOK, PlaceOK, LaterOK, AtEnd
<1>3. (\A j \in sweep.later : Kind[j] = "subnet") /\ Head(sweep.todo) = "subnet"
  BY <1>1 DEF PlaceOK, LaterOK, AtEnd
<1>4. /\ sweep' \in Sweeps /\ sweep'.round = sweep.round /\ sweep'.at \in {"retry", "select"}
      /\ PlaceOK(sweep') /\ HandOK(sweep') /\ Through(sweep') = Through(sweep)
  <2>1. CASE sweep.later = {i}
    <3>1. /\ sweep'.todo = Tail(sweep.todo) /\ sweep'.at = "select"
          /\ sweep'.later = sweep.later \ {i} /\ sweep'.picked = sweep.picked
          /\ sweep'.vpc = sweep.vpc /\ sweep'.round = sweep.round
      BY <1>1, <2>1 DEF Sweeps, NextPass
    <3>2. PlaceOK(sweep') /\ Through(sweep') = 8 - Len(sweep.todo)
      BY <1>1, <2>1, <3>1, NextPassIs
    <3>3. Through(sweep) = 8 - Len(sweep.todo)
      BY <1>1 DEF Through, PassPlaces
    <3>4. sweep' \in Sweeps
      BY <1>1, <2>1, PassIs DEF Sweeps, NextPass, SweepPlaces
    <3>5. HandOK(sweep')
      BY <1>1, <3>1 DEF HandOK
    <3>6. QED
      BY <3>1, <3>2, <3>3, <3>4, <3>5
  <2>2. CASE sweep.later # {i}
    <3>1. /\ sweep' \in Sweeps /\ sweep'.todo = sweep.todo /\ sweep'.at = "retry"
          /\ sweep'.later = sweep.later \ {i} /\ sweep'.picked = sweep.picked
          /\ sweep'.vpc = sweep.vpc /\ sweep'.round = sweep.round
      BY <1>1, <2>2 DEF Sweeps
    <3>2. sweep.at \in PassPlaces /\ sweep'.at \in PassPlaces /\ Head(sweep.todo) = "subnet"
      BY <1>1, <3>1 DEF PassPlaces, PlaceOK
    <3>3. LaterOK(sweep')
      BY <1>3, <3>1 DEF LaterOK
    <3>4. PlaceOK(sweep') /\ Through(sweep') = Through(sweep)
      BY <1>1, <3>1, <3>2, <3>3, SamePassIs
    <3>5. HandOK(sweep')
      BY <1>1, <3>1 DEF HandOK
    <3>6. QED
      BY <3>1, <3>4, <3>5
  <2>3. QED
    BY <2>1, <2>2
<1>5. /\ marks' \in Marks /\ marks'.stuck = marks.stuck /\ marks'.issued = marks.issued
      /\ marks'.converged = marks.converged /\ marks'.picked = marks.picked
      /\ marks'.deleted = Deleted(i, a)
  BY <1>1 DEF Marks, Deleted
<1>6. MarksOK(marks')
  BY <1>1, <1>5 DEF MarksOK
<1> HIDE DEF hit
<1>7. /\ tally' \in Tallies /\ (tally'.genuine <=> tally.genuine \/ hit)
      /\ tally'.inprog = tally.inprog
  BY <1>1 DEF Tallies, hit
<1>8. Request(i, a)
  BY <1>1, <1>2, <1>4, <1>5, <1>7 DEF Request, AtEnd
<1>9. QED
  BY <1>2, <1>4, <1>5, <1>6, <1>7, <1>8, RequestStep

\* Out of a VPC's 409, to its next attempt or to the next VPC.
LEMMA AgainIs ==
  ASSUME ReconcilerInv, sweep.at \in {"held", "detect", "purge"},
         sweep.later = {}, NEW t, t = GiveUp \/ t = Again
  PROVE  /\ t \in Sweeps /\ PlaceOK(t) /\ HandOK(t) /\ Through(t) = Through(sweep)
         /\ t.round = sweep.round /\ t.at = "delete" /\ t.todo = sweep.todo
<1>1. /\ sweep \in Sweeps /\ PlaceOK(sweep) /\ HandOK(sweep) /\ Mine \subseteq Items
      /\ sweep.at \in PassPlaces
  BY Shapes DEF PassPlaces
<1>2. \/ t = GiveUp
      \/ t = [sweep EXCEPT !.at = "delete", !.tries = @ + 1]
  BY DEF Again
<1>3. /\ t \in Sweeps /\ t.at = "delete" /\ t.todo = sweep.todo /\ t.round = sweep.round
      /\ t.picked \subseteq sweep.picked /\ t.later = sweep.later
      /\ t.vpc \subseteq sweep.vpc
  <2>1. CASE t = GiveUp
    <3> DEFINE picked == sweep.picked \ sweep.vpc
    <3>1. t = [sweep EXCEPT !.at = "delete", !.picked = picked, !.vpc = {}, !.tries = 0]
      BY <1>1, <2>1 DEF GiveUp, Sweeps
    <3>2. picked \subseteq sweep.picked /\ picked \subseteq Items
      BY <1>1 DEF Sweeps
    <3> HIDE DEF picked
    <3>3. t \in Sweeps
      BY <1>1, <3>1, <3>2 DEF Sweeps, SweepPlaces, PassPlaces
    <3>4. /\ t.at = "delete" /\ t.todo = sweep.todo /\ t.round = sweep.round
          /\ t.picked = picked /\ t.later = sweep.later /\ t.vpc = {}
      BY <1>1, <3>1 DEF Sweeps
    <3>5. QED
      BY <3>2, <3>3, <3>4
  <2>2. CASE t = [sweep EXCEPT !.at = "delete", !.tries = @ + 1]
    <3>1. t \in Sweeps
      <4> DEFINE tries == sweep.tries + 1
      <4>1. tries \in Nat /\ t = [sweep EXCEPT !.at = "delete", !.tries = tries]
        BY <1>1, <2>2 DEF Sweeps
      <4> HIDE DEF tries
      <4>2. QED
        BY <1>1, <4>1 DEF Sweeps, SweepPlaces, PassPlaces
    <3>2. /\ t.at = "delete" /\ t.todo = sweep.todo /\ t.round = sweep.round
          /\ t.picked = sweep.picked /\ t.later = sweep.later /\ t.vpc = sweep.vpc
      BY <1>1, <2>2 DEF Sweeps
    <3>3. QED
      BY <3>1, <3>2
  <2>3. QED
    BY <1>2, <2>1, <2>2
<1>4. LaterOK(t)
  BY <1>1, <1>3 DEF PlaceOK, LaterOK, PassPlaces, AtEnd
<1>5. t.at \in PassPlaces /\ t.at # "retry" /\ t.at \notin {"held", "detect", "purge"}
  BY <1>3 DEF PassPlaces
<1>6. PlaceOK(t) /\ Through(t) = Through(sweep)
  BY <1>1, <1>3, <1>4, <1>5, SamePassIs DEF Ungated
<1>7. HandOK(t)
  BY <1>1, <1>3 DEF HandOK
<1>8. QED
  BY <1>3, <1>6, <1>7

LEMMA DeleteVpcKeeps ==
  ASSUME ReconcilerInv, NEW i \in Items, NEW a, DeleteVpc(i, a)
  PROVE  ReconcilerInv' /\ i \in Mine
<1>1. /\ sweep \in Sweeps /\ marks \in Marks /\ tally \in Tallies
      /\ PlaceOK(sweep) /\ HandOK(sweep) /\ MarksOK(marks) /\ Mine \subseteq Items
      /\ sweep.at = "delete" /\ i \in sweep.picked /\ sweep.todo # <<>> /\ Pass = "vpc"
      /\ sweep' = IF a = "held" THEN [Place("held") EXCEPT !.vpc = {i}]
                  ELSE [sweep EXCEPT !.picked = @ \ {i}, !.vpc = {}, !.tries = 0]
      /\ tally' = [tally EXCEPT !.reported = @ \/ a = "ok"]
      /\ Delete(i, a) /\ UNCHANGED <<mode, marks, cache, result, unseen>>
  BY Shapes DEF DeleteVpc, InPass
<1>2. i \in Mine /\ Kind[i] = "vpc" /\ sweep.at \in PassPlaces
  BY <1>1 DEF Ungated, HandOK, PlaceOK, PassPlaces, Pass
<1>3. sweep.later = {}
  BY <1>1 DEF PlaceOK, LaterOK, AtEnd, Pass
<1>4. /\ sweep' \in Sweeps /\ sweep'.round = sweep.round /\ sweep'.at \in {"held", "delete"}
      /\ PlaceOK(sweep') /\ HandOK(sweep') /\ Through(sweep') = Through(sweep)
  <2>1. CASE a = "held"
    <3>1. sweep' = [sweep EXCEPT !.at = "held", !.vpc = {i}]
      BY <1>1, <2>1 DEF Place, Sweeps
    <3>2. /\ sweep' \in Sweeps /\ sweep'.todo = sweep.todo /\ sweep'.at = "held"
          /\ sweep'.later = sweep.later /\ sweep'.picked = sweep.picked
          /\ sweep'.vpc = {i} /\ sweep'.round = sweep.round
      <4> DEFINE held == {i}
      <4>1. held \subseteq Items /\ sweep' = [sweep EXCEPT !.at = "held", !.vpc = held]
        BY <3>1
      <4> HIDE DEF held
      <4>2. sweep' \in Sweeps
        BY <1>1, <4>1 DEF Sweeps, SweepPlaces, PassPlaces
      <4>3. /\ sweep'.todo = sweep.todo /\ sweep'.at = "held"
            /\ sweep'.later = sweep.later /\ sweep'.picked = sweep.picked
            /\ sweep'.vpc = held /\ sweep'.round = sweep.round
        BY <1>1, <4>1 DEF Sweeps
      <4>4. QED
        BY <4>2, <4>3 DEF held
    <3>3. sweep'.at \in PassPlaces /\ Head(sweep.todo) = "vpc"
      BY <1>1, <3>2 DEF PassPlaces, Pass
    <3>4. PlaceOK(sweep') /\ Through(sweep') = Through(sweep)
      BY <1>1, <1>2, <1>3, <3>2, <3>3, SamePassIs DEF Ungated, LaterOK
    <3>5. HandOK(sweep')
      BY <1>1, <1>2, <3>2 DEF HandOK
    <3>6. QED
      BY <3>2, <3>4, <3>5
  <2>2. CASE a # "held"
    <3>1. /\ sweep' \in Sweeps /\ sweep'.todo = sweep.todo /\ sweep'.at = "delete"
          /\ sweep'.later = sweep.later /\ sweep'.picked \subseteq sweep.picked
          /\ sweep'.vpc = {} /\ sweep'.round = sweep.round
      BY <1>1, <2>2 DEF Sweeps
    <3>2. sweep'.at \in PassPlaces
      BY <3>1 DEF PassPlaces
    <3>3. PlaceOK(sweep') /\ Through(sweep') = Through(sweep)
      BY <1>1, <1>2, <1>3, <3>1, <3>2, SamePassIs DEF LaterOK
    <3>4. HandOK(sweep')
      BY <1>1, <3>1 DEF HandOK
    <3>5. QED
      BY <3>1, <3>3, <3>4
  <2>3. QED
    BY <2>1, <2>2
<1>5. tally' \in Tallies /\ tally'.genuine = tally.genuine /\ tally'.inprog = tally.inprog
  BY <1>1 DEF Tallies
<1>6. Request(i, a)
  BY <1>1, <1>2, <1>4, <1>5 DEF Request, AtEnd
<1>7. QED
  BY <1>1, <1>2, <1>4, <1>5, <1>6, RequestStep

\* What holds a VPC of ours is ours: it was made by the run that made the VPC.
LEMMA HoldersMine ==
  ASSUME NEW v \in Mine, Kind[v] = "vpc", NEW h \in Holders(v), Kind[h] # "log group"
  PROVE  h \in Mine
<1>1. h \in Items /\ <<h, v>> \in Holds
  BY DEF Holders, Present
<1>2. Owner[h] = Owner[v]
  BY <1>1, ReconcilerAssumption
<1>3. QED
  BY <1>1, <1>2 DEF Mine, Deletable

LEMMA MovedIs ==
  ASSUME ReconcilerInv, sweep.at \in PassPlaces, sweep.at \notin Ungated,
         NEW at \in PassPlaces, at \in {"held", "detect", "purge"} => Pass = "vpc",
         at = "retry" => Pass = "subnet",
         sweep.later # {} => at = "retry" \/ at = "purge"
  PROVE  /\ Place(at) \in Sweeps /\ PlaceOK(Place(at)) /\ HandOK(Place(at))
         /\ Through(Place(at)) = Through(sweep)
         /\ Place(at).round = sweep.round /\ Place(at).at = at
         /\ Place(at).todo = sweep.todo
<1>1. sweep \in Sweeps /\ PlaceOK(sweep) /\ HandOK(sweep)
  BY Shapes
<1>2. /\ Place(at) \in Sweeps /\ Place(at).todo = sweep.todo /\ Place(at).at = at
      /\ Place(at).round = sweep.round /\ Place(at).picked = sweep.picked
      /\ Place(at).later = sweep.later /\ Place(at).vpc = sweep.vpc
  BY <1>1 DEF Place, Sweeps, SweepPlaces
<1>3. LaterOK(Place(at))
  BY <1>1, <1>2 DEF PlaceOK, LaterOK, PassPlaces, AtEnd, Pass
<1>4. PlaceOK(Place(at)) /\ Through(Place(at)) = Through(sweep)
  BY <1>1, <1>2, <1>3, SamePassIs DEF Pass
<1>5. HandOK(Place(at))
  BY <1>1, <1>2 DEF HandOK
<1>6. QED
  BY <1>2, <1>4, <1>5

LEMMA PurgeHolderKeeps ==
  ASSUME ReconcilerInv, NEW i \in Items, NEW a, PurgeHolder(i, a)
  PROVE  ReconcilerInv' /\ i \in Mine
<1> DEFINE hit == Status(i, a) \in Accepted
<1>1. /\ sweep \in Sweeps /\ marks \in Marks /\ tally \in Tallies
      /\ PlaceOK(sweep) /\ HandOK(sweep) /\ MarksOK(marks) /\ Mine \subseteq Items
      /\ sweep.at = "held" /\ sweep.todo # <<>> /\ Kind[i] \in {"subnet", "gateway"}
      /\ \E v \in sweep.vpc : i \in Holders(v)
      /\ sweep' = IF hit THEN Again ELSE Place("detect")
      /\ marks' = [marks EXCEPT !.deleted = Deleted(i, a)]
      /\ tally' = [tally EXCEPT !.genuine = @ \/ hit]
      /\ Delete(i, a) /\ UNCHANGED <<mode, cache, result, unseen>>
  BY Shapes DEF PurgeHolder, InPass
<1>2. i \in Mine
  BY <1>1, HoldersMine DEF HandOK
<1>3. Pass = "vpc" /\ Passed(sweep, "gateway")
  BY <1>1, PassedInside DEF PlaceOK, PassPlaces, Pass
<1> sweep.later = {}
  BY <1>1 DEF PlaceOK, LaterOK, AtEnd
<1>4. /\ sweep' \in Sweeps /\ sweep'.round = sweep.round /\ sweep'.at \in {"detect", "delete"}
      /\ PlaceOK(sweep') /\ HandOK(sweep') /\ Through(sweep') = Through(sweep)
  <2>1. CASE hit
    BY <1>1, <2>1, AgainIs
  <2>2. CASE ~hit
    BY <1>1, <1>3, <2>2, MovedIs DEF PassPlaces, Ungated
  <2>3. QED
    BY <2>1, <2>2
<1>5. /\ marks' \in Marks /\ marks'.stuck = marks.stuck /\ marks'.issued = marks.issued
      /\ marks'.converged = marks.converged /\ marks'.picked = marks.picked
      /\ marks'.deleted = Deleted(i, a)
  BY <1>1, <1>2 DEF Marks, Deleted
<1>6. MarksOK(marks')
  BY <1>1, <1>5 DEF MarksOK
<1>7. a = "ok" /\ i \notin marks.deleted => hit
  BY DEF Status, Accepted
<1> HIDE DEF hit
<1>8. /\ tally' \in Tallies /\ (tally'.genuine <=> tally.genuine \/ hit)
      /\ tally'.inprog = tally.inprog
  BY <1>1 DEF Tallies, hit
<1>9. Request(i, a)
  BY <1>1, <1>2, <1>3, <1>4, <1>5, <1>7, <1>8 DEF Request, AtEnd
<1>10. QED
  BY <1>2, <1>4, <1>5, <1>6, <1>8, <1>9, RequestStep

LEMMA PurgeChildKeeps ==
  ASSUME ReconcilerInv, NEW i \in Items, NEW a, PurgeChild(i, a)
  PROVE  ReconcilerInv' /\ i \in Mine
<1> DEFINE said == Status(i, a) # "none"
<1>1. /\ sweep \in Sweeps /\ marks \in Marks /\ tally \in Tallies
      /\ PlaceOK(sweep) /\ HandOK(sweep) /\ MarksOK(marks) /\ Mine \subseteq Items
      /\ sweep.at = "purge" /\ sweep.todo # <<>> /\ i \in sweep.later
      /\ sweep' = [sweep EXCEPT !.later = @ \ {i}]
      /\ marks' = [marks EXCEPT !.deleted = Deleted(i, a)]
      /\ tally' = [tally EXCEPT !.reported = @ \/ said]
      /\ Delete(i, a) /\ UNCHANGED <<mode, cache, result, unseen>>
  BY Shapes DEF PurgeChild, InPass
<1>2. i \in Mine /\ Kind[i] = "subnet"
  BY <1>1 DEF HandOK, PlaceOK, LaterOK, AtEnd
<1>3. /\ sweep' \in Sweeps /\ sweep'.at = "purge" /\ sweep'.todo = sweep.todo
      /\ sweep'.round = sweep.round /\ sweep'.picked = sweep.picked
      /\ sweep'.later = sweep.later \ {i} /\ sweep'.vpc = sweep.vpc
  BY <1>1 DEF Sweeps
<1>4. sweep.at \in PassPlaces /\ sweep'.at \in PassPlaces /\ Head(sweep.todo) = "vpc"
  BY <1>1, <1>3 DEF PassPlaces, PlaceOK
<1>5. LaterOK(sweep')
  BY <1>1, <1>3 DEF PlaceOK, LaterOK, AtEnd
<1>6. PlaceOK(sweep') /\ Through(sweep') = Through(sweep)
  BY <1>1, <1>3, <1>4, <1>5, SamePassIs
<1>7. HandOK(sweep')
  BY <1>1, <1>3 DEF HandOK
<1>8. /\ marks' \in Marks /\ marks'.stuck = marks.stuck /\ marks'.issued = marks.issued
      /\ marks'.converged = marks.converged /\ marks'.picked = marks.picked
      /\ marks'.deleted = Deleted(i, a)
  BY <1>1 DEF Marks, Deleted
<1>9. MarksOK(marks')
  BY <1>1, <1>8 DEF MarksOK
<1> HIDE DEF said
<1>10. tally' \in Tallies /\ tally'.genuine = tally.genuine /\ tally'.inprog = tally.inprog
  BY <1>1 DEF Tallies
<1>11. Request(i, a)
  BY <1>1, <1>2, <1>3, <1>6, <1>8, <1>10 DEF Request, AtEnd
<1>12. QED
  BY <1>2, <1>3, <1>6, <1>7, <1>8, <1>9, <1>10, <1>11, RequestStep

LEMMA SecondChanceKeeps ==
  ASSUME ReconcilerInv, NEW i \in Items, NEW a, SecondChance(i, a)
  PROVE  ReconcilerInv' /\ i \in Mine
<1> DEFINE stuck == IF a \in Accepted THEN marks.stuck \ {i} ELSE marks.stuck
<1>1. /\ sweep \in Sweeps /\ marks \in Marks /\ tally \in Tallies
      /\ PlaceOK(sweep) /\ HandOK(sweep) /\ MarksOK(marks) /\ Mine \subseteq Items
      /\ sweep.at = "second chance" /\ i \in marks.stuck /\ Kind[i] # "log group"
      /\ sweep' = [sweep EXCEPT !.later = @ \cup {i}]
      /\ marks' = [marks EXCEPT !.stuck = stuck]
      /\ Delete(i, a) /\ UNCHANGED <<mode, cache, tally, result, unseen>>
  BY Shapes DEF SecondChance, Retriable
<1>2. i \in Mine /\ Kind[i] = "volume"
  BY <1>1 DEF MarksOK
<1>3. /\ sweep' \in Sweeps /\ sweep'.at = "second chance" /\ sweep'.todo = sweep.todo
      /\ sweep'.round = sweep.round /\ sweep'.picked = sweep.picked
      /\ sweep'.later = sweep.later \cup {i} /\ sweep'.vpc = sweep.vpc
  BY <1>1 DEF Sweeps
<1>4. sweep.at \notin PassPlaces /\ sweep'.at \notin PassPlaces /\ sweep'.at \in AtEnd
      /\ sweep.todo = <<>>
  BY <1>1, <1>3 DEF PassPlaces, AtEnd, PlaceOK
<1>5. PlaceOK(sweep') /\ Through(sweep') = Through(sweep)
  BY <1>1, <1>3, <1>4, OutsideIs
<1>6. HandOK(sweep')
  BY <1>1, <1>2, <1>3 DEF HandOK
<1>7. stuck \subseteq marks.stuck /\ (a \notin Accepted => stuck = marks.stuck)
      /\ (a \in Accepted => stuck = marks.stuck \ {i})
  OBVIOUS
<1> HIDE DEF stuck
<1>8. /\ marks' \in Marks /\ marks'.stuck = stuck /\ marks'.issued = marks.issued
      /\ marks'.converged = marks.converged /\ marks'.picked = marks.picked
      /\ marks'.deleted = marks.deleted
  BY <1>1, <1>7 DEF Marks
<1>9. MarksOK(marks')
  BY <1>1, <1>7, <1>8 DEF MarksOK
<1>10. Request(i, a)
  BY <1>1, <1>2, <1>3, <1>5, <1>7, <1>8 DEF Request, AtEnd
<1>11. QED
  BY <1>1, <1>2, <1>3, <1>5, <1>6, <1>8, <1>9, <1>10, RequestStep

-----------------------------------------------------------------------------
(* The steps without a request *)

\* A step that only moves the sweep on, past collections that have converged.
Quiet ==
  /\ UNCHANGED <<account, mode, marks, cache, result, unseen>>
  /\ sweep'.round = sweep.round /\ sweep'.at \notin AtEnd /\ sweep.at \notin AtEnd
  /\ \A k \in Kinds : Passed(sweep', k) => Passed(sweep, k) \/ k \in marks.converged
  /\ tally.genuine => tally'.genuine
  /\ tally.inprog => tally'.inprog

LEMMA QuietKeeps ==
  ASSUME ReconcilerInv, Quiet, sweep' \in Sweeps, tally' \in Tallies,
         PlaceOK(sweep'), HandOK(sweep')
  PROVE  ReconcilerInv'
<1>1. Mine' = Mine /\ Mine \subseteq Items
  BY MineStays DEF Quiet, Mine
<1>2. SweepShapes'
  BY DEF ReconcilerInv, SweepShapes, Quiet, Tallies
<1>3. HandOK(sweep)' /\ MarksOK(marks)' /\ AccountOK'
  BY <1>1, AccountSame DEF ReconcilerInv, HeldInv, HandOK, MarksOK, Quiet
<1>4. SeenInv'
  <2>1. SUFFICES ASSUME NEW i \in Mine, Standing(i), Kind[i] \notin unseen
                 PROVE  /\ Kind[i] \in marks.converged => i \in marks.stuck
                        /\ Kind[i] \in DOMAIN cache =>
                             /\ i \in DOMAIN cache[Kind[i]]
                             /\ cache[Kind[i]][i] \in {"there", "settling"}
                        /\ sweep'.round > 1 \/ Passed(sweep', Kind[i]) =>
                             i \in marks.stuck \cup marks.picked[Kind[i]]
                        /\ sweep'.at = "over" /\ result.report => i \in result.names
    BY <1>1 DEF SeenInv, Quiet, Standing
  <2>2. Kind[i] \in Kinds
    BY <1>1, MineIs
  <2>3. /\ Kind[i] \in marks.converged => i \in marks.stuck
        /\ Kind[i] \in DOMAIN cache =>
             /\ i \in DOMAIN cache[Kind[i]]
             /\ cache[Kind[i]][i] \in {"there", "settling"}
        /\ sweep.round > 1 \/ Passed(sweep, Kind[i]) =>
             i \in marks.stuck \cup marks.picked[Kind[i]]
    BY <2>1 DEF ReconcilerInv, KnownInv, SeenInv
  <2>4. sweep'.at # "over"
    BY DEF Quiet, AtEnd
  <2>5. QED
    BY <2>2, <2>3, <2>4 DEF Quiet
<1>5. CacheInv'
  BY DEF ReconcilerInv, SweepShapes, KnownInv, CacheInv, Quiet
<1>6. GatewayInv'
  <2>1. "gateway" \in Kinds
    BY OrderIs
  <2>2. QED
    BY <1>1, <2>1 DEF ReconcilerInv, KnownInv, GatewayInv, OnItsWay, Quiet
<1>7. ClearInv'
  BY DEF ClearInv, Quiet
<1>8. QED
  BY <1>2, <1>3, <1>4, <1>5, <1>6, <1>7 DEF ReconcilerInv, HeldInv, KnownInv

LEMMA AimKeeps ==
  ASSUME ReconcilerInv, Aim
  PROVE  ReconcilerInv'
<1> DEFINE picked == IF mode.blast
             THEN UNION {{i \in DOMAIN cache[k] : cache[k][i] \notin {"deleting", "scheduled"}
                                                  /\ Deletable(i)} :
                           k \in DOMAIN cache \ BlastExclude}
             ELSE {}
<1>1. /\ sweep \in Sweeps /\ tally \in Tallies /\ PlaceOK(sweep) /\ HandOK(sweep)
      /\ Mine \subseteq Items /\ sweep.at = "aim"
      /\ sweep' = [Place("blast") EXCEPT !.picked = picked]
      /\ UNCHANGED <<account, mode, marks, cache, tally, result, trouble, unseen>>
  BY Shapes DEF Aim
<1>2. ASSUME NEW i \in picked
      PROVE  i \in Mine /\ Kind[i] \notin BlastExclude
  <2>1. PICK k \in DOMAIN cache \ BlastExclude : i \in DOMAIN cache[k] /\ Deletable(i)
    BY <1>2
  <2>2. cache[k] \in Listings(k)
    BY DEF ReconcilerInv, SweepShapes
  <2>3. i \in Items /\ Kind[i] = k
    BY <2>1, <2>2 DEF Listings
  <2>4. QED
    BY <2>1, <2>3 DEF Mine
<1> HIDE DEF picked
<1>3. /\ sweep' \in Sweeps /\ sweep'.todo = sweep.todo /\ sweep'.at = "blast"
      /\ sweep'.round = sweep.round /\ sweep'.picked = picked
      /\ sweep'.later = sweep.later /\ sweep'.vpc = sweep.vpc
  <2>1. picked \subseteq Items
    BY <1>1, <1>2
  <2>2. QED
    BY <1>1, <2>1 DEF Sweeps, SweepPlaces, Place
<1>4. /\ sweep.at \notin PassPlaces /\ sweep'.at \notin PassPlaces /\ sweep'.at \notin AtEnd
      /\ sweep.at \notin AtEnd /\ Len(sweep.todo) = 7
  BY <1>1, <1>3 DEF PassPlaces, AtEnd, PlaceOK
<1>5. sweep'.later = {}
  BY <1>1, <1>3, <1>4 DEF PlaceOK, LaterOK
<1>6. PlaceOK(sweep') /\ Through(sweep') = Through(sweep)
  BY <1>1, <1>2, <1>3, <1>4, <1>5, OutsideIs
<1>7. HandOK(sweep')
  BY <1>1, <1>2, <1>3 DEF HandOK
<1>8. Quiet
  BY <1>1, <1>3, <1>4, <1>6, SamePassed DEF Quiet
<1>9. QED
  BY <1>1, <1>3, <1>6, <1>7, <1>8, QuietKeeps

LEMMA BlastEndsKeeps ==
  ASSUME ReconcilerInv, BlastEnds
  PROVE  ReconcilerInv'
<1>1. /\ sweep \in Sweeps /\ tally \in Tallies /\ PlaceOK(sweep) /\ HandOK(sweep)
      /\ sweep.at = "blast" /\ sweep' = Place("select")
      /\ UNCHANGED <<account, mode, marks, cache, tally, result, trouble, unseen>>
  BY Shapes DEF BlastEnds
<1>2. /\ sweep' \in Sweeps /\ sweep'.todo = sweep.todo /\ sweep'.at = "select"
      /\ sweep'.round = sweep.round /\ sweep'.picked = sweep.picked
      /\ sweep'.later = sweep.later /\ sweep'.vpc = sweep.vpc
  BY <1>1 DEF Sweeps, SweepPlaces, Place
<1>3. /\ sweep.at \notin PassPlaces /\ sweep'.at \notin PassPlaces /\ sweep'.at \notin AtEnd
      /\ sweep.at \notin AtEnd
  BY <1>1, <1>2 DEF PassPlaces, AtEnd
<1>4. sweep'.later = {}
  BY <1>1, <1>2, <1>3 DEF PlaceOK, LaterOK
<1>5. PlaceOK(sweep') /\ Through(sweep') = Through(sweep)
  BY <1>1, <1>2, <1>3, <1>4, OutsideIs
<1>6. HandOK(sweep')
  BY <1>1, <1>2 DEF HandOK
<1>7. Quiet
  BY <1>1, <1>2, <1>3, <1>5, SamePassed DEF Quiet
<1>8. QED
  BY <1>1, <1>2, <1>5, <1>6, <1>7, QuietKeeps

\* To the next pass, from the end of one or past one whose collection has converged.
LEMMA NextPassKeeps ==
  ASSUME ReconcilerInv, sweep' = NextPass, sweep.todo # <<>>, sweep.later = {},
         \/ sweep.at \in PassPlaces
         \/ sweep.at = "select" /\ Pass \in marks.converged,
         UNCHANGED <<account, mode, marks, cache, tally, result, unseen>>
  PROVE  ReconcilerInv'
<1>1. sweep \in Sweeps /\ tally \in Tallies /\ PlaceOK(sweep) /\ HandOK(sweep)
  BY Shapes
<1>2. sweep.at \notin AtEnd
  BY DEF PassPlaces, AtEnd
<1>3. /\ sweep' \in Sweeps /\ sweep'.todo = Tail(sweep.todo) /\ sweep'.at = "select"
      /\ sweep'.round = sweep.round /\ sweep'.picked = sweep.picked
      /\ sweep'.later = sweep.later /\ sweep'.vpc = sweep.vpc
  BY <1>1, PassIs DEF NextPass, Sweeps, SweepPlaces
<1>4. sweep'.later = {}
  BY <1>3
<1>5. PlaceOK(sweep') /\ Through(sweep') = 8 - Len(sweep.todo)
  BY <1>1, <1>3, <1>4, NextPassIs
<1>6. HandOK(sweep')
  BY <1>1, <1>3 DEF HandOK
<1>7. \A k \in Kinds : Passed(sweep', k) => Passed(sweep, k) \/ k \in marks.converged
  <2>1. CASE sweep.at \in PassPlaces
    <3>1. Through(sweep') = Through(sweep)
      BY <1>5, <2>1 DEF Through
    <3>2. QED
      BY <3>1, SamePassed
  <2>2. CASE sweep.at = "select" /\ Pass \in marks.converged
    BY <1>1, <1>5, <2>2, OnePassMore DEF Pass
  <2>3. QED
    BY <2>1, <2>2
<1>8. Quiet
  BY <1>2, <1>3, <1>7 DEF Quiet, AtEnd
<1>9. QED
  BY <1>1, <1>3, <1>5, <1>6, <1>8, QuietKeeps

\* The same by way of the pass without the gate behind it, if there is one.
LEMMA AfterPassKeeps ==
  ASSUME ReconcilerInv, sweep' = AfterPass, sweep.todo # <<>>, sweep.later = {},
         \/ sweep.at \in PassPlaces
         \/ sweep.at = "select" /\ Pass \in marks.converged,
         UNCHANGED <<account, mode, marks, cache, tally, result, unseen>>
  PROVE  ReconcilerInv'
<1>1. CASE sweep' = NextPass
  BY <1>1, NextPassKeeps
<1>2. CASE sweep' = Place("by-products")
  <2>1. sweep \in Sweeps /\ tally \in Tallies /\ PlaceOK(sweep) /\ HandOK(sweep)
    BY Shapes
  <2>2. sweep.at \notin AtEnd
    BY DEF PassPlaces, AtEnd
  <2>3. /\ sweep' \in Sweeps /\ sweep'.todo = sweep.todo /\ sweep'.at = "by-products"
        /\ sweep'.round = sweep.round /\ sweep'.picked = sweep.picked
        /\ sweep'.later = sweep.later /\ sweep'.vpc = sweep.vpc
    BY <1>2, <2>1 DEF Place, Sweeps, SweepPlaces, PassPlaces
  <2>4. PlaceOK(sweep') /\ Through(sweep') = 8 - Len(sweep.todo)
    <3>1. Len(sweep'.todo) <= 7
      BY <2>1, <2>3 DEF PlaceOK
    <3>2. \A p \in 1 .. Len(sweep'.todo) : sweep'.todo[p] = Order[(7 - Len(sweep'.todo)) + p]
      BY <2>1, <2>3 DEF PlaceOK
    <3>3. QED
      BY <2>3, <3>1, <3>2 DEF PlaceOK, LaterOK, Through, PassPlaces, AtEnd, Ungated
  <2>5. HandOK(sweep')
    BY <2>1, <2>3 DEF HandOK
  <2>6. \A k \in Kinds : Passed(sweep', k) => Passed(sweep, k) \/ k \in marks.converged
    <3>1. CASE sweep.at \in PassPlaces
      <4>1. Through(sweep') = Through(sweep)
        BY <2>4, <3>1 DEF Through
      <4>2. QED
        BY <4>1, SamePassed
    <3>2. CASE sweep.at = "select" /\ Pass \in marks.converged
      BY <2>1, <2>4, <3>2, OnePassMore DEF Pass
    <3>3. QED
      BY <3>1, <3>2
  <2>7. Quiet
    BY <2>2, <2>3, <2>6 DEF Quiet, AtEnd
  <2>8. QED
    BY <2>1, <2>3, <2>4, <2>5, <2>7, QuietKeeps
<1>3. QED
  BY <1>1, <1>2 DEF AfterPass

\* To another place of the same pass.
LEMMA SamePassKeeps ==
  ASSUME ReconcilerInv, sweep.at \in PassPlaces,
         sweep' \in Sweeps, PlaceOK(sweep'), HandOK(sweep'), Through(sweep') = Through(sweep),
         sweep'.round = sweep.round, sweep'.at \in PassPlaces, tally' \in Tallies,
         tally.genuine => tally'.genuine, tally.inprog => tally'.inprog,
         UNCHANGED <<account, mode, marks, cache, result, unseen>>
  PROVE  ReconcilerInv'
<1>1. Quiet
  BY SamePassed DEF Quiet, PassPlaces, AtEnd
<1>2. QED
  BY <1>1, QuietKeeps

LEMMA QuietStepsKeep ==
  ASSUME ReconcilerInv,
         \/ SkipConverged \/ DeletesEnd \/ ReapEnds
         \/ NoHolderNamed \/ Defer \/ NotDetected \/ PurgeEnds
  PROVE  ReconcilerInv'
<1>1. CASE SkipConverged
  <2>1. sweep.later = {}
    BY <1>1, Shapes DEF SkipConverged, InPass, PlaceOK, LaterOK, AtEnd
  <2>2. QED
    BY <1>1, <2>1, AfterPassKeeps DEF SkipConverged, InPass
<1>2. CASE DeletesEnd
  <2>1. /\ sweep.at = "delete" /\ sweep.todo # <<>>
        /\ UNCHANGED <<account, mode, marks, cache, tally, result, unseen>>
    BY <1>2 DEF DeletesEnd, InPass
  <2>2. sweep.at \in PassPlaces /\ "retry" \in PassPlaces
    BY <2>1 DEF PassPlaces
  <2>3. CASE sweep.later = {}
    BY <1>2, <2>1, <2>2, <2>3, AfterPassKeeps DEF DeletesEnd
  <2>4. CASE sweep.later # {}
    <3>1. Pass = "subnet"
      BY <2>1, <2>4, Shapes DEF PlaceOK, LaterOK, AtEnd, Pass
    <3>2. QED
      BY <1>2, <2>1, <2>2, <2>4, <3>1, MovedIs, SamePassKeeps, Shapes DEF DeletesEnd, Ungated
  <2>5. QED
    BY <2>3, <2>4
<1>3. CASE NoHolderNamed
  <2>1. /\ sweep.at = "held" /\ sweep' = Place("detect")
        /\ UNCHANGED <<account, mode, marks, cache, tally, result, unseen>>
    BY <1>3 DEF NoHolderNamed, InPass
  <2>2. sweep.at \in PassPlaces /\ "detect" \in PassPlaces /\ Pass = "vpc" /\ sweep.later = {}
    BY <2>1, Shapes DEF PassPlaces, AtEnd, PlaceOK, LaterOK, Pass
  <2>3. QED
    BY <2>1, <2>2, MovedIs, SamePassKeeps, Shapes DEF Ungated
<1>4. CASE Defer
  <2>1. /\ sweep.at = "detect" /\ sweep' = GiveUp
        /\ tally' = [tally EXCEPT !.inprog = TRUE]
        /\ UNCHANGED <<account, mode, marks, cache, result, unseen>>
    BY <1>4 DEF Defer, InPass
  <2>2. sweep.at \in PassPlaces /\ "delete" \in PassPlaces /\ sweep.later = {}
    BY <2>1, Shapes DEF PassPlaces, AtEnd, PlaceOK, LaterOK
  <2>3. tally' \in Tallies /\ tally'.inprog = TRUE /\ tally'.genuine = tally.genuine
    BY <2>1, Shapes DEF Tallies
  <2>4. QED
    BY <2>1, <2>2, <2>3, AgainIs, SamePassKeeps
<1>5. CASE NotDetected
  <2>1. PICK v \in sweep.vpc : sweep' = [Place("purge") EXCEPT !.later = Children(v)]
    BY <1>5 DEF NotDetected
  <2>2. /\ sweep.at = "detect" /\ sweep.todo # <<>>
        /\ UNCHANGED <<account, mode, marks, cache, tally, result, unseen>>
        /\ sweep \in Sweeps /\ tally \in Tallies /\ PlaceOK(sweep) /\ HandOK(sweep)
        /\ Mine \subseteq Items
    BY <1>5, Shapes DEF NotDetected, InPass
  <2>3. \A h \in Children(v) : h \in Mine /\ Kind[h] = "subnet"
    BY <2>2, HoldersMine DEF Children, HandOK
  <2>4. /\ sweep' \in Sweeps /\ sweep'.todo = sweep.todo /\ sweep'.at = "purge"
        /\ sweep'.round = sweep.round /\ sweep'.picked = sweep.picked
        /\ sweep'.later = Children(v) /\ sweep'.vpc = sweep.vpc
    <3> DEFINE children == Children(v)
    <3>1. children \subseteq Items /\ sweep' = [Place("purge") EXCEPT !.later = children]
      BY <2>1, <2>2, <2>3
    <3> HIDE DEF children
    <3>2. sweep' \in Sweeps
      BY <2>2, <3>1 DEF Place, Sweeps, SweepPlaces, PassPlaces
    <3>3. /\ sweep'.todo = sweep.todo /\ sweep'.at = "purge"
          /\ sweep'.round = sweep.round /\ sweep'.picked = sweep.picked
          /\ sweep'.later = children /\ sweep'.vpc = sweep.vpc
      BY <2>2, <3>1 DEF Place, Sweeps
    <3>4. QED
      BY <3>2, <3>3 DEF children
  <2>5. sweep.at \in PassPlaces /\ sweep'.at \in PassPlaces /\ Head(sweep.todo) = "vpc"
    BY <2>2, <2>4 DEF PassPlaces, PlaceOK
  <2>6. LaterOK(sweep')
    BY <2>3, <2>4 DEF LaterOK
  <2>7. PlaceOK(sweep') /\ Through(sweep') = Through(sweep)
    BY <2>2, <2>4, <2>5, <2>6, SamePassIs DEF Ungated
  <2>8. HandOK(sweep')
    BY <2>2, <2>3, <2>4 DEF HandOK
  <2>9. QED
    BY <2>2, <2>4, <2>5, <2>7, <2>8, SamePassKeeps
<1>6. CASE PurgeEnds
  <2>1. /\ sweep.at = "purge" /\ sweep' = Again
        /\ UNCHANGED <<account, mode, marks, cache, tally, result, unseen>>
    BY <1>6 DEF PurgeEnds, InPass
  <2>2. sweep.at \in PassPlaces /\ "delete" \in PassPlaces /\ sweep.later = {}
    BY <1>6, <2>1 DEF PassPlaces, PurgeEnds
  <2>3. QED
    BY <2>1, <2>2, AgainIs, SamePassKeeps, Shapes
<1>7. CASE ReapEnds
  <2>1. /\ sweep.at = "reap" /\ sweep.todo # <<>> /\ sweep' = NextPass
        /\ UNCHANGED <<account, mode, marks, cache, tally, result, unseen>>
    BY <1>7 DEF ReapEnds, InPass
  <2>2. sweep.at \in PassPlaces /\ sweep.later = {}
    BY <2>1, Shapes DEF PassPlaces, AtEnd, PlaceOK, LaterOK
  <2>3. QED
    BY <2>1, <2>2, NextPassKeeps
<1>8. QED
  BY <1>1, <1>2, <1>3, <1>4, <1>5, <1>6, <1>7

-----------------------------------------------------------------------------
(* The passes without the gate *)

\* A step of theirs: only by-products change, and are marked.
Reaping ==
  /\ UNCHANGED <<mode, cache, result, unseen>>
  /\ \A i \in Mine : account'[i] = account[i]
  /\ sweep.at \in PassPlaces /\ sweep'.at \in PassPlaces
  /\ sweep'.round = sweep.round /\ Through(sweep') = Through(sweep)
  /\ marks'.converged = marks.converged /\ marks'.picked = marks.picked
  /\ marks.stuck \subseteq marks'.stuck
  /\ tally.genuine => tally'.genuine
  /\ tally.inprog => tally'.inprog

LEMMA ReapingKeeps ==
  ASSUME ReconcilerInv, Reaping, account' \in [Items -> States], AccountOK',
         sweep' \in Sweeps, marks' \in Marks, tally' \in Tallies,
         PlaceOK(sweep'), HandOK(sweep'), MarksOK(marks')
  PROVE  ReconcilerInv'
<1>1. Mine' = Mine /\ Mine \subseteq Items
  BY MineStays DEF Reaping, Mine
<1>2. \A k : Passed(sweep', k) <=> Passed(sweep, k)
  BY SamePassed DEF Reaping
<1>3. sweep.at \notin AtEnd /\ sweep'.at \notin AtEnd
  BY DEF Reaping, PassPlaces, AtEnd
<1>4. SweepShapes'
  BY DEF ReconcilerInv, SweepShapes, Reaping, Tallies
<1>5. HandOK(sweep)' /\ MarksOK(marks)'
  BY <1>1 DEF HandOK, MarksOK
<1>6. SeenInv'
  <2>1. SUFFICES ASSUME NEW i \in Mine, Standing(i), Kind[i] \notin unseen
                 PROVE  /\ Kind[i] \in marks.converged => i \in marks'.stuck
                        /\ Kind[i] \in DOMAIN cache =>
                             /\ i \in DOMAIN cache[Kind[i]]
                             /\ cache[Kind[i]][i] \in {"there", "settling"}
                        /\ sweep.round > 1 \/ Passed(sweep, Kind[i]) =>
                             i \in marks'.stuck \cup marks.picked[Kind[i]]
    BY <1>1, <1>2, <1>3 DEF SeenInv, Reaping, Standing, AtEnd
  <2>2. QED
    BY <2>1 DEF ReconcilerInv, KnownInv, SeenInv, Reaping
<1>7. CacheInv'
  BY <1>2 DEF ReconcilerInv, KnownInv, CacheInv, Reaping
<1>8. GatewayInv'
  BY <1>1, <1>2, <1>3 DEF ReconcilerInv, KnownInv, GatewayInv, OnItsWay, Reaping
<1>9. ClearInv'
  BY <1>3 DEF ClearInv
<1>10. QED
  BY <1>4, <1>5, <1>6, <1>7, <1>8, <1>9 DEF ReconcilerInv, HeldInv, KnownInv

LEMMA SelectByproductsKeeps ==
  ASSUME ReconcilerInv, SelectByproducts
  PROVE  ReconcilerInv' /\ (ExtraOK => ExtraOK')
<1> DEFINE listed == {i \in Present : Byproduct(i) /\ Kind[i] = Trailing[Pass]}
           stuck == {i \in listed : Kind[i] = "log group" /\ i \in marks.issued}
           extra == listed \ stuck
           marked == marks.stuck \cup stuck
<1>1. /\ sweep \in Sweeps /\ marks \in Marks /\ tally \in Tallies
      /\ PlaceOK(sweep) /\ HandOK(sweep) /\ MarksOK(marks) /\ AccountOK
      /\ sweep.at = "by-products" /\ sweep.todo # <<>>
      /\ account \in [Items -> States]
      /\ UNCHANGED <<account, mode, cache, tally, result, unseen>>
  BY Shapes DEF SelectByproducts, InPass, ReconcilerInv, HeldInv, SweepShapes
<1>2. sweep.at \in PassPlaces /\ sweep.at \notin AtEnd /\ sweep.later = {}
  BY <1>1 DEF PassPlaces, AtEnd, PlaceOK, LaterOK
<1>3. CASE sweep' = NextPass /\ UNCHANGED marks
  <2>1. ReconcilerInv'
    BY <1>1, <1>2, <1>3, NextPassKeeps
  <2>2. sweep'.extra = sweep.extra
    BY <1>1, <1>3 DEF NextPass, Sweeps
  <2>3. \A i \in Items : Byproduct(i) => Byproduct(i)'
    BY <1>1, ByproductStays
  <2>4. QED
    BY <1>1, <2>1, <2>2, <2>3 DEF ExtraOK, Sweeps
<1>4. CASE /\ marks' = [marks EXCEPT !.stuck = marked]
           /\ sweep' = [Place("reap") EXCEPT !.extra = extra]
  <2>1. /\ \A i \in stuck : i \in Items /\ Kind[i] = "log group"
        /\ \A i \in extra : i \in Items /\ Byproduct(i)
    BY DEF Present
  <2>2. marks.stuck \subseteq marked /\ (\A i \in marked : i \in marks.stuck \/ i \in stuck)
    OBVIOUS
  <2> HIDE DEF listed, stuck, extra, marked
  <2>3. /\ marks' \in Marks /\ marks'.stuck = marked /\ marks'.issued = marks.issued
        /\ marks'.converged = marks.converged /\ marks'.picked = marks.picked
        /\ marks'.deleted = marks.deleted
    <3>1. marked \subseteq Items
      BY <1>1, <2>1, <2>2 DEF Marks
    <3>2. QED
      BY <1>1, <1>4, <3>1 DEF Marks
  <2>4. MarksOK(marks')
    BY <1>1, <2>1, <2>2, <2>3 DEF MarksOK
  <2>5. /\ sweep' \in Sweeps /\ sweep'.todo = sweep.todo /\ sweep'.at = "reap"
        /\ sweep'.round = sweep.round /\ sweep'.picked = sweep.picked
        /\ sweep'.later = sweep.later /\ sweep'.vpc = sweep.vpc /\ sweep'.extra = extra
    <3>1. extra \subseteq Items
      BY <2>1
    <3>2. QED
      BY <1>1, <1>4, <3>1 DEF Place, Sweeps, SweepPlaces, PassPlaces
  <2>6. sweep'.at \in PassPlaces
    BY <2>5 DEF PassPlaces
  <2>7. PlaceOK(sweep') /\ Through(sweep') = Through(sweep)
    BY <1>1, <1>2, <2>5, <2>6, SamePassIs DEF Ungated, LaterOK
  <2>8. HandOK(sweep')
    BY <1>1, <2>5 DEF HandOK
  <2>9. AccountOK'
    BY <1>1, <2>3, AccountSame
  <2>10. Reaping
    BY <1>1, <1>2, <2>2, <2>3, <2>5, <2>6, <2>7 DEF Reaping
  <2>11. ReconcilerInv'
    BY <1>1, <2>3, <2>4, <2>5, <2>7, <2>8, <2>9, <2>10, ReapingKeeps
  <2>12. ExtraOK'
    <3>1. \A i \in Items : Byproduct(i) => Byproduct(i)'
      BY <1>1, ByproductStays
    <3>2. QED
      BY <2>1, <2>5, <3>1 DEF ExtraOK
  <2>13. QED
    BY <2>11, <2>12
<1>5. QED
  BY <1>3, <1>4 DEF SelectByproducts

LEMMA ReapByproductKeeps ==
  ASSUME ReconcilerInv, ExtraOK, NEW i \in Items, NEW a, ReapByproduct(i, a)
  PROVE  ReconcilerInv' /\ Byproduct(i)
<1> DEFINE hit == Status(i, a) \in Accepted
           asked == IF Kind[i] = "log group" \/ Status(i, a) \notin Accepted \cup {"held"}
                    THEN marks.issued \cup {i} ELSE marks.issued
<1>1. /\ sweep \in Sweeps /\ marks \in Marks /\ tally \in Tallies
      /\ PlaceOK(sweep) /\ HandOK(sweep) /\ MarksOK(marks) /\ Mine \subseteq Items
      /\ SweepShapes /\ AccountOK
      /\ sweep.at = "reap" /\ i \in sweep.extra /\ sweep.todo # <<>>
      /\ sweep' = [sweep EXCEPT !.extra = @ \ {i}]
      /\ marks' = [marks EXCEPT !.deleted = Deleted(i, a), !.issued = asked]
      /\ tally' = [tally EXCEPT !.genuine = @ \/ hit, !.reported = @ \/ hit]
      /\ Delete(i, a) /\ UNCHANGED <<mode, cache, result, unseen>>
  BY Shapes DEF ReapByproduct, InPass, ReconcilerInv, HeldInv
<1>2. Byproduct(i) /\ i \notin Mine /\ Kind[i] \in {"volume", "log group"}
  BY <1>1, MineIs DEF ExtraOK, Byproduct
<1>3. /\ account' \in [Items -> States] /\ \A j \in Items \ {i} : account'[j] = account[j]
      /\ \A j \in Items : account[j] = "gone" => account'[j] = "gone"
  BY <1>1, DeleteIs
<1>4. \A j \in Items : Byproduct(j) => Byproduct(j)'
  BY <1>3, ByproductStays
<1>5. \A j \in asked : j \in marks.issued \/ j = i
  OBVIOUS
<1> HIDE DEF hit, asked
<1>6. /\ marks' \in Marks /\ marks'.stuck = marks.stuck /\ marks'.issued = asked
      /\ marks'.converged = marks.converged /\ marks'.picked = marks.picked
      /\ marks'.deleted = Deleted(i, a)
  BY <1>1, <1>5 DEF Marks, Deleted
<1>7. MarksOK(marks')
  BY <1>1, <1>2, <1>5, <1>6 DEF MarksOK
<1>8. /\ sweep' \in Sweeps /\ sweep'.at = "reap" /\ sweep'.todo = sweep.todo
      /\ sweep'.round = sweep.round /\ sweep'.picked = sweep.picked
      /\ sweep'.later = sweep.later /\ sweep'.vpc = sweep.vpc
  BY <1>1 DEF Sweeps
<1>9. sweep.at \in PassPlaces /\ sweep'.at \in PassPlaces /\ sweep.later = {}
  BY <1>1, <1>8 DEF PassPlaces, AtEnd, PlaceOK, LaterOK
<1>10. PlaceOK(sweep') /\ Through(sweep') = Through(sweep)
  BY <1>1, <1>8, <1>9, SamePassIs DEF Ungated, LaterOK
<1>11. HandOK(sweep')
  BY <1>1, <1>8 DEF HandOK
<1>12. /\ tally' \in Tallies /\ (tally.genuine => tally'.genuine)
       /\ tally'.inprog = tally.inprog
  BY <1>1 DEF Tallies, hit
<1>13. AccountOK'
  <2>1. Mine' = Mine
    BY <1>1, MineStays
  <2>2. \A j \in Items : Leaving(j)' => j \in Mine' \/ Byproduct(j)'
    BY <1>1, <1>2, <1>3, <1>4, <2>1 DEF AccountOK, Leaving
  <2>3. \A j \in Items : account'[j] = "settling" => Kind[j] = "gateway"
    BY <1>1, <1>3, DeleteIs DEF AccountOK
  <2>4. \A j \in Items : account'[j] = "scheduled" => Nature[j] = "scheduled"
    BY <1>1, <1>3, DeleteIs DEF AccountOK
  <2>5. ASSUME NEW j \in marks'.deleted, Standing(j)' PROVE Nature[j] = "sticky"
    <3>1. j \in Items /\ (j \in marks.deleted \/ (j = i /\ a = "ok"))
      BY <1>1, <1>6 DEF Deleted, Marks
    <3>2. CASE j # i \/ a # "ok"
      BY <1>1, <1>3, <2>5, <3>1, <3>2, DeleteIs DEF AccountOK, Standing
    <3>3. CASE j = i /\ a = "ok"
      BY <1>1, <2>5, <3>3, DeleteIs DEF Standing
    <3>4. QED
      BY <3>2, <3>3
  <2>6. QED
    BY <2>2, <2>3, <2>4, <2>5 DEF AccountOK
<1>14. Reaping
  BY <1>1, <1>2, <1>3, <1>6, <1>8, <1>9, <1>10, <1>12 DEF Reaping
<1>15. QED
  BY <1>2, <1>3, <1>6, <1>7, <1>8, <1>10, <1>11, <1>12, <1>13, <1>14, ReapingKeeps

-----------------------------------------------------------------------------
(* The listings *)

\* The prescan's listing and the one that failed.
LEMMA ListingIs ==
  ASSUME account \in [Items -> States], NEW k
  PROVE  /\ Listed(k) \in Listings(k) /\ <<>> \in Listings(k)
         /\ \A i \in Items : Kind[i] = k /\ account[i] # "gone" =>
              i \in DOMAIN Listed(k) /\ Listed(k)[i] = account[i]
<1> DEFINE S == {j \in Present : Kind[j] = k}
<1>1. S \in SUBSET Items /\ Listed(k) = [i \in S |-> account[i]]
  BY DEF Present, Listed
<1>2. Listed(k) \in [S -> States] /\ DOMAIN Listed(k) = S
  BY <1>1
<1>3. Listed(k) \in Listings(k)
  BY <1>1, <1>2 DEF Listings
<1>4. DOMAIN <<>> = {} /\ <<>> \in [{} -> States]
  OBVIOUS
<1>5. <<>> \in Listings(k)
  BY <1>4 DEF Listings
<1>6. \A i \in Items : Kind[i] = k /\ account[i] # "gone" =>
        i \in DOMAIN Listed(k) /\ Listed(k)[i] = account[i]
  BY <1>1, <1>2 DEF Present
<1>7. QED
  BY <1>3, <1>5, <1>6

\* What the listing L has of the pass at hand, unless its LIST failed.
Faithful(L) ==
  \A i \in Mine : Kind[i] = Pass =>
    /\ Standing(i) => i \in DOMAIN L /\ L[i] \in {"there", "settling"}
    /\ OnItsWay(i) => i \in DOMAIN L /\ L[i] = account[i]

LEMMA SelectedKeeps ==
  ASSUME ReconcilerInv, InPass("select"), Pass \notin marks.converged,
         NEW L, L \in Listings(Pass), Selected(Pass, L),
         cache' = [k \in DOMAIN cache \ {Pass} |-> cache[k]],
         UNCHANGED <<account, mode, result>>,
         unseen' = unseen \/ unseen' = unseen \cup {Pass},
         Pass \notin unseen' => Faithful(L)
  PROVE  ReconcilerInv'
<1> DEFINE mine == {i \in DOMAIN L : Deletable(i)}
           stuck == marks.stuck \cup (mine \cap marks.issued)
           picked == mine \ stuck
           coming == {i \in picked : L[i] = "deleting"}
           settling == {i \in picked : Pass = "gateway" /\ L[i] = "settling"}
           done == coming = {} /\ \A i \in picked : L[i] = "scheduled"
           converged == IF done THEN marks.converged \cup {Pass} ELSE marks.converged
           rest == picked \ Spared(Pass, L)
           awaited == coming \cup settling # {}
<1>1. /\ sweep \in Sweeps /\ marks \in Marks /\ tally \in Tallies
      /\ PlaceOK(sweep) /\ HandOK(sweep) /\ MarksOK(marks) /\ Mine \subseteq Items
      /\ sweep.at = "select" /\ sweep.todo # <<>>
      /\ DOMAIN cache \subseteq Kinds /\ Mine' = Mine
  BY Shapes, MineStays DEF InPass, ReconcilerInv, SweepShapes
<1>2. /\ marks' = [marks EXCEPT !.stuck = stuck, !.picked[Pass] = picked, !.converged = converged]
      /\ sweep' = [Place("delete") EXCEPT !.picked = rest]
      /\ tally' = [tally EXCEPT !.inprog = @ \/ awaited]
  BY DEF Selected
<1>3. Pass \in Kinds
  BY <1>1 DEF Sweeps, Pass
<1>4. mine \subseteq Mine /\ (\A i \in mine : Kind[i] = Pass)
  BY DEF Listings, Mine
<1>5. /\ picked \subseteq mine /\ rest \subseteq picked /\ marks.stuck \subseteq stuck
      /\ stuck \subseteq Items
      /\ \A i \in stuck : (i \in Mine /\ Kind[i] = "volume") \/ Kind[i] = "log group"
      /\ mine \subseteq stuck \cup picked
      /\ Pass # "volume" => mine \subseteq picked
  <2>1. \A i \in mine : Kind[i] # "log group" /\ Kind[i] = Pass
    BY <1>4 DEF Mine, Deletable
  <2>2. \A i \in mine : i \in marks.stuck \/ i \in marks.issued => Kind[i] = "volume"
    BY <1>1, <2>1 DEF MarksOK
  <2>3. \A i \in stuck : i \in marks.stuck \/ (i \in mine /\ Kind[i] = "volume")
    BY <2>2
  <2>4. stuck \subseteq Items
    BY <1>1, <1>4, <2>3 DEF Marks
  <2>5. \A i \in stuck : (i \in Mine /\ Kind[i] = "volume") \/ Kind[i] = "log group"
    BY <1>1, <1>4, <2>3 DEF MarksOK
  <2>6. Pass # "volume" => mine \subseteq picked
    BY <2>1, <2>2
  <2>7. QED
    BY <2>4, <2>5, <2>6
<1>6. converged \subseteq Kinds /\ marks.converged \subseteq converged
      /\ converged \subseteq marks.converged \cup {Pass}
  BY <1>1, <1>3 DEF Marks
<1>7. ASSUME NEW i \in picked, L[i] \in {"there", "settling", "deleting"}
      PROVE  Pass \notin converged
  <2>1. ~done
    BY <1>7
  <2>2. QED
    BY <2>1
<1>8. ASSUME NEW i \in picked, L[i] = "deleting" \/ (L[i] = "settling" /\ Pass = "gateway")
      PROVE  awaited
  BY <1>8
<1>9. \A i \in Mine : i \in DOMAIN L => i \in mine
  BY DEF Mine
<1> HIDE DEF mine, stuck, picked, coming, settling, done, converged, rest, awaited
<1>10. /\ sweep' \in Sweeps /\ sweep'.todo = sweep.todo /\ sweep'.at = "delete"
       /\ sweep'.round = sweep.round /\ sweep'.picked = rest
       /\ sweep'.later = sweep.later /\ sweep'.vpc = sweep.vpc
  <2>1. rest \subseteq Items
    BY <1>1, <1>4, <1>5
  <2>2. QED
    BY <1>1, <1>2, <2>1 DEF Sweeps, SweepPlaces, PassPlaces, Place
<1>11. sweep.later = {}
  BY <1>1 DEF PlaceOK, LaterOK, AtEnd
<1>12. /\ marks' \in Marks /\ marks'.stuck = stuck /\ marks'.converged = converged
       /\ marks'.issued = marks.issued /\ marks'.deleted = marks.deleted
       /\ marks'.picked[Pass] = picked
       /\ \A k \in Kinds \ {Pass} : marks'.picked[k] = marks.picked[k]
  <2>1. stuck \subseteq Items /\ picked \subseteq Items
    BY <1>1, <1>4, <1>5
  <2>2. marks.picked \in [Kinds -> SUBSET Items]
    BY <1>1 DEF Marks
  <2>3. marks' = [marks EXCEPT !.stuck = stuck,
                               !.picked = [marks.picked EXCEPT ![Pass] = picked],
                               !.converged = converged]
    BY <1>1, <1>2 DEF Marks
  <2>4. [marks.picked EXCEPT ![Pass] = picked] \in [Kinds -> SUBSET Items]
    BY <2>1, <2>2
  <2>5. marks' \in Marks
    BY <1>1, <1>6, <2>1, <2>3, <2>4 DEF Marks
  <2>6. /\ marks'.stuck = stuck /\ marks'.converged = converged
        /\ marks'.issued = marks.issued /\ marks'.deleted = marks.deleted
        /\ marks'.picked = [marks.picked EXCEPT ![Pass] = picked]
    BY <1>1, <2>3 DEF Marks
  <2>7. QED
    BY <1>3, <2>2, <2>5, <2>6
<1>13. /\ tally' \in Tallies /\ tally'.genuine = tally.genuine
       /\ tally'.inprog <=> tally.inprog \/ awaited
  <2>1. tally.inprog \in BOOLEAN /\ awaited \in BOOLEAN
    BY <1>1 DEF Tallies, awaited
  <2>2. QED
    BY <1>1, <1>2, <2>1 DEF Tallies
<1>14. PlaceOK(sweep')
  <2>1. \A i \in rest : Kind[i] = Head(sweep.todo)
    BY <1>4, <1>5 DEF Pass
  <2>2. Len(sweep.todo) <= 7
    BY <1>1 DEF PlaceOK
  <2>3. \A p \in 1 .. Len(sweep.todo) : sweep.todo[p] = Order[(7 - Len(sweep.todo)) + p]
    BY <1>1 DEF PlaceOK
  <2>4. QED
    BY <1>1, <1>10, <1>11, <2>1, <2>2, <2>3 DEF PlaceOK, LaterOK, AtEnd
<1>15. HandOK(sweep')
  BY <1>1, <1>4, <1>5, <1>10 DEF HandOK
<1>16. MarksOK(marks')
  BY <1>1, <1>5, <1>12 DEF MarksOK
<1>17. \A k : Passed(sweep', k) <=> Passed(sweep, k) \/ k = Pass
  <2>1. Through(sweep') = 8 - Len(sweep.todo)
    BY <1>10 DEF Through, PassPlaces
  <2>2. QED
    BY <1>1, <2>1, OnePassMore DEF Pass
<1>18. DOMAIN cache' = DOMAIN cache \ {Pass} /\ \A k \in DOMAIN cache' : cache'[k] = cache[k]
  OBVIOUS
<1>19. SeenInv'
  <2>1. SUFFICES ASSUME NEW i \in Mine, Standing(i), Kind[i] \notin unseen'
                 PROVE  /\ Kind[i] \in marks'.converged => i \in marks'.stuck
                        /\ Kind[i] \in DOMAIN cache' =>
                             /\ i \in DOMAIN cache'[Kind[i]]
                             /\ cache'[Kind[i]][i] \in {"there", "settling"}
                        /\ sweep'.round > 1 \/ Passed(sweep', Kind[i]) =>
                             i \in marks'.stuck \cup marks'.picked[Kind[i]]
                        /\ sweep'.at = "over" /\ result'.report => i \in result'.names
    BY <1>1 DEF SeenInv, Standing
  <2>2. CASE Kind[i] = Pass
    <3>1. i \in DOMAIN L /\ L[i] \in {"there", "settling"}
      BY <2>1, <2>2 DEF Faithful
    <3>2. i \in stuck \cup picked
      BY <1>5, <1>9, <3>1
    <3>3. Pass \in converged => i \in stuck
      BY <1>7, <3>1, <3>2
    <3>4. QED
      BY <1>10, <1>12, <1>18, <2>2, <3>2, <3>3
  <2>3. CASE Kind[i] # Pass
    <3>1. /\ Kind[i] \in marks.converged => i \in marks.stuck
          /\ Kind[i] \in DOMAIN cache =>
               /\ i \in DOMAIN cache[Kind[i]]
               /\ cache[Kind[i]][i] \in {"there", "settling"}
          /\ sweep.round > 1 \/ Passed(sweep, Kind[i]) =>
               i \in marks.stuck \cup marks.picked[Kind[i]]
      BY <2>1 DEF ReconcilerInv, KnownInv, SeenInv
    <3>2. Kind[i] \in Kinds
      BY <1>1, MineIs
    <3>3. QED
      BY <1>5, <1>6, <1>10, <1>12, <1>17, <1>18, <2>3, <3>1, <3>2
  <2>4. QED
    BY <2>2, <2>3
<1>20. CacheInv'
  BY <1>6, <1>12, <1>17, <1>18 DEF ReconcilerInv, KnownInv, CacheInv
<1>21. GatewayInv'
  <2>1. SUFFICES ASSUME NEW g \in Mine, OnItsWay(g), "gateway" \notin unseen'
                 PROVE  /\ "gateway" \notin marks'.converged
                        /\ "gateway" \in DOMAIN cache' =>
                             /\ g \in DOMAIN cache'["gateway"]
                             /\ cache'["gateway"][g] = account[g]
                        /\ Passed(sweep', "gateway") /\ sweep'.at \notin AtEnd =>
                             tally'.genuine \/ tally'.inprog
                        /\ sweep'.at \in AtEnd => result'.why # "stop"
    BY <1>1 DEF GatewayInv, OnItsWay
  <2>2. sweep'.at \notin AtEnd /\ sweep.at \notin AtEnd
    BY <1>1, <1>10 DEF AtEnd
  <2>3. CASE Pass = "gateway"
    <3>1. g \in DOMAIN L /\ L[g] \in {"deleting", "settling"}
      BY <2>1, <2>3 DEF Faithful, OnItsWay
    <3>2. g \in picked
      BY <1>5, <1>9, <2>3, <3>1
    <3>3. Pass \notin converged /\ awaited
      BY <1>7, <1>8, <2>3, <3>1, <3>2
    <3>4. QED
      BY <1>12, <1>13, <1>18, <2>2, <2>3, <3>3
  <2>4. CASE Pass # "gateway"
    <3>1. /\ "gateway" \notin marks.converged
          /\ "gateway" \in DOMAIN cache =>
               /\ g \in DOMAIN cache["gateway"]
               /\ cache["gateway"][g] = account[g]
          /\ Passed(sweep, "gateway") => tally.genuine \/ tally.inprog
      BY <2>1, <2>2 DEF ReconcilerInv, KnownInv, GatewayInv
    <3>2. QED
      BY <1>6, <1>12, <1>13, <1>17, <1>18, <2>2, <2>4, <3>1
  <2>5. QED
    BY <2>3, <2>4
<1>22. ClearInv'
  BY <1>10 DEF ClearInv, AtEnd
<1>23. SweepShapes'
  <2>1. unseen' \subseteq Kinds
    BY <1>3 DEF ReconcilerInv, SweepShapes
  <2>2. \A k \in DOMAIN cache' : cache'[k] \in Listings(k)
    BY <1>18 DEF ReconcilerInv, SweepShapes
  <2>3. DOMAIN cache' \subseteq Kinds
    BY <1>1, <1>18
  <2>4. QED
    BY <1>10, <1>12, <1>13, <2>1, <2>2, <2>3 DEF ReconcilerInv, SweepShapes, Tallies
<1>24. HandOK(sweep)' /\ MarksOK(marks)' /\ AccountOK'
  BY <1>1, <1>12, <1>15, <1>16, AccountSame DEF ReconcilerInv, HeldInv, HandOK, MarksOK
<1>25. QED
  BY <1>14, <1>19, <1>20, <1>21, <1>22, <1>23, <1>24 DEF ReconcilerInv, HeldInv, KnownInv

LEMMA SelectKeeps ==
  ASSUME ReconcilerInv, SelectCached \/ SelectLive
  PROVE  ReconcilerInv'
<1>1. /\ InPass("select") /\ Pass \notin marks.converged
      /\ cache' = [k \in DOMAIN cache \ {Pass} |-> cache[k]]
      /\ UNCHANGED <<account, mode, result>>
  BY DEF SelectCached, SelectLive
<1>2. account \in [Items -> States] /\ Mine \subseteq Items
  BY Shapes DEF ReconcilerInv, SweepShapes
<1>3. CASE SelectCached
  <2>1. /\ Pass \in DOMAIN cache /\ Selected(Pass, cache[Pass]) /\ unseen' = unseen
        /\ cache[Pass] \in Listings(Pass)
    BY <1>3 DEF SelectCached, ReconcilerInv, SweepShapes
  <2>2. Pass \notin unseen' => Faithful(cache[Pass])
    BY <2>1 DEF ReconcilerInv, KnownInv, SeenInv, GatewayInv, Faithful, OnItsWay
  <2>3. QED
    BY <1>1, <2>1, <2>2, SelectedKeeps
<1>4. CASE Selected(Pass, Listed(Pass)) /\ UNCHANGED <<trouble, unseen>>
  <2>1. Listed(Pass) \in Listings(Pass)
    BY <1>2, ListingIs
  <2>2. Faithful(Listed(Pass))
    BY <1>2, ListingIs DEF Faithful, OnItsWay, Standing
  <2>3. QED
    BY <1>1, <1>4, <2>1, <2>2, SelectedKeeps
<1>5. CASE Selected(Pass, <<>>) /\ unseen' = unseen \cup {Pass}
  <2>1. <<>> \in Listings(Pass) /\ Pass \in unseen'
    BY <1>2, <1>5, ListingIs
  <2>2. QED
    BY <1>1, <1>5, <2>1, SelectedKeeps
<1>6. QED
  BY <1>3, <1>4, <1>5 DEF SelectLive

\* The prescan leaves out only collections of which nothing of ours is there.
LEMMA PrescanKeeps ==
  ASSUME ReconcilerInv, NEW F \in SUBSET Kinds, Prescan(F)
  PROVE  ReconcilerInv'
<1>1. /\ sweep \in Sweeps /\ marks \in Marks /\ tally \in Tallies
      /\ PlaceOK(sweep) /\ HandOK(sweep) /\ MarksOK(marks) /\ Mine \subseteq Items
      /\ sweep.at = "prescan" /\ sweep' = Place("aim") /\ unseen' = unseen \cup F
      /\ account \in [Items -> States] /\ Mine' = Mine
      /\ UNCHANGED <<account, mode, tally, result>>
  BY Shapes, MineStays DEF Prescan, ReconcilerInv, SweepShapes
<1>2. PICK scope \in {Kinds} \cup (IF Inventory = {} THEN {}
                                   ELSE {Derivative \cup {Kind[i] : i \in Inventory}}) :
        /\ marks' = [marks EXCEPT !.converged = marks.converged \cup (Kinds \ scope)]
        /\ cache' = [k \in Kinds \ (marks.converged \cup (Kinds \ scope)) |->
                       IF k \in F THEN <<>> ELSE Listed(k)]
  BY DEF Prescan
<1> DEFINE converged == marks.converged \cup (Kinds \ scope)
<1>3. ASSUME NEW i \in Mine, account[i] # "gone" PROVE Kind[i] \in scope
  <2>1. i \in Items /\ Kind[i] \in Kinds
    BY <1>1, <1>3, MineIs
  <2>2. i \in Inventory \/ Kind[i] \in Derivative
    BY <1>3, <2>1 DEF Inventory, Present, Mine, Deletable, Derivative
  <2>3. QED
    BY <1>2, <2>1, <2>2
<1>4. /\ marks' = [marks EXCEPT !.converged = converged]
      /\ cache' = [k \in Kinds \ converged |-> IF k \in F THEN <<>> ELSE Listed(k)]
      /\ converged \subseteq Kinds
  BY <1>1, <1>2 DEF Marks
<1>5. \A i \in Mine : account[i] # "gone" /\ Kind[i] \in converged => Kind[i] \in marks.converged
  BY <1>3
<1> HIDE DEF converged
<1>6. /\ marks' \in Marks /\ marks'.stuck = marks.stuck /\ marks'.converged = converged
      /\ marks'.issued = marks.issued /\ marks'.deleted = marks.deleted
      /\ marks'.picked = marks.picked
  BY <1>1, <1>4 DEF Marks
<1>7. /\ sweep' \in Sweeps /\ sweep'.todo = sweep.todo /\ sweep'.at = "aim"
      /\ sweep'.round = sweep.round /\ sweep'.picked = sweep.picked
      /\ sweep'.later = sweep.later /\ sweep'.vpc = sweep.vpc
  BY <1>1 DEF Sweeps, SweepPlaces, Place
<1>8. /\ sweep.at \notin PassPlaces /\ sweep'.at \notin PassPlaces /\ sweep'.at \notin AtEnd
      /\ sweep.at \notin AtEnd /\ Len(sweep.todo) = 7 /\ sweep.later = {}
  BY <1>1, <1>7 DEF PassPlaces, AtEnd, PlaceOK, LaterOK
<1>9. PlaceOK(sweep') /\ Through(sweep') = Through(sweep)
  BY <1>1, <1>7, <1>8, OutsideIs
<1>10. HandOK(sweep') /\ MarksOK(marks')
  BY <1>1, <1>6, <1>7 DEF HandOK, MarksOK
<1>11. \A k : ~Passed(sweep', k)
  BY <1>7, <1>8, NonePassed
<1>12. /\ DOMAIN cache' = Kinds \ converged
       /\ \A k \in DOMAIN cache' : cache'[k] = IF k \in F THEN <<>> ELSE Listed(k)
  BY <1>4
<1>13. \A k \in DOMAIN cache' : cache'[k] \in Listings(k)
  BY <1>1, <1>12, ListingIs
<1>14. \A i \in Mine : Kind[i] \in DOMAIN cache' /\ Kind[i] \notin F /\ account[i] # "gone" =>
         i \in DOMAIN cache'[Kind[i]] /\ cache'[Kind[i]][i] = account[i]
  BY <1>1, <1>12, ListingIs
<1>15. SeenInv'
  <2>1. SUFFICES ASSUME NEW i \in Mine, Standing(i), Kind[i] \notin unseen'
                 PROVE  /\ Kind[i] \in marks'.converged => i \in marks'.stuck
                        /\ Kind[i] \in DOMAIN cache' =>
                             /\ i \in DOMAIN cache'[Kind[i]]
                             /\ cache'[Kind[i]][i] \in {"there", "settling"}
                        /\ sweep'.round > 1 \/ Passed(sweep', Kind[i]) =>
                             i \in marks'.stuck \cup marks'.picked[Kind[i]]
                        /\ sweep'.at = "over" /\ result'.report => i \in result'.names
    BY <1>1 DEF SeenInv, Standing
  <2>2. account[i] \in {"there", "settling"} /\ account[i] # "gone"
    BY <2>1 DEF Standing
  <2>3. Kind[i] \notin unseen /\ Kind[i] \notin F
    BY <1>1, <2>1
  <2>4. /\ Kind[i] \in marks.converged => i \in marks.stuck
        /\ sweep.round > 1 => i \in marks.stuck \cup marks.picked[Kind[i]]
    BY <2>1, <2>3 DEF ReconcilerInv, KnownInv, SeenInv
  <2>5. Kind[i] \in marks'.converged => i \in marks'.stuck
    BY <1>5, <1>6, <2>2, <2>4
  <2>6. Kind[i] \in DOMAIN cache' =>
          i \in DOMAIN cache'[Kind[i]] /\ cache'[Kind[i]][i] \in {"there", "settling"}
    BY <1>14, <2>2, <2>3
  <2>7. sweep'.round > 1 \/ Passed(sweep', Kind[i]) =>
          i \in marks'.stuck \cup marks'.picked[Kind[i]]
    BY <1>6, <1>7, <1>11, <2>4
  <2>8. QED
    BY <1>7, <2>5, <2>6, <2>7
<1>16. CacheInv'
  BY <1>6, <1>11, <1>12 DEF CacheInv
<1>17. GatewayInv'
  <2>1. SUFFICES ASSUME NEW g \in Mine, OnItsWay(g), "gateway" \notin unseen'
                 PROVE  /\ "gateway" \notin marks'.converged
                        /\ "gateway" \in DOMAIN cache' =>
                             /\ g \in DOMAIN cache'["gateway"]
                             /\ cache'["gateway"][g] = account[g]
                        /\ Passed(sweep', "gateway") /\ sweep'.at \notin AtEnd =>
                             tally'.genuine \/ tally'.inprog
                        /\ sweep'.at \in AtEnd => result'.why # "stop"
    BY <1>1 DEF GatewayInv, OnItsWay
  <2>2. Kind[g] = "gateway" /\ account[g] # "gone" /\ "gateway" \notin unseen \cup F
    BY <1>1, <2>1 DEF OnItsWay
  <2>3. "gateway" \notin marks.converged
    BY <2>1, <2>2 DEF ReconcilerInv, KnownInv, GatewayInv
  <2>4. QED
    BY <1>5, <1>6, <1>8, <1>11, <1>14, <2>2, <2>3
<1>18. ClearInv'
  BY <1>8 DEF ClearInv
<1>19. SweepShapes'
  <2>1. unseen' \subseteq Kinds /\ DOMAIN cache' \subseteq Kinds
    BY <1>1, <1>12 DEF ReconcilerInv, SweepShapes
  <2>2. QED
    BY <1>1, <1>6, <1>7, <1>13, <2>1 DEF ReconcilerInv, SweepShapes, Tallies
<1>20. HandOK(sweep)' /\ MarksOK(marks)' /\ AccountOK'
  <2>1. AccountOK' /\ UNCHANGED mode
    BY <1>1, <1>6, AccountSame DEF ReconcilerInv, HeldInv, Prescan
  <2>2. QED
    BY <1>1, <1>10, <2>1 DEF HandOK, MarksOK
<1>21. QED
  BY <1>9, <1>15, <1>16, <1>17, <1>18, <1>19, <1>20 DEF ReconcilerInv, HeldInv, KnownInv

-----------------------------------------------------------------------------
(* The account by itself *)

LEMMA DrainsKeeps ==
  ASSUME ReconcilerInv, NEW i \in Items, Drains(i)
  PROVE  /\ ReconcilerInv'
         /\ \A j \in Items : account[j] = "gone" => account'[j] = "gone"
         /\ \A j \in Items \ Mine : ~Byproduct(j) => account'[j] \in {account[j], "there"}
<1> DEFINE state == IF account[i] = "deleting" THEN "gone" ELSE "there"
<1>1. /\ account \in [Items -> States] /\ Mine' = Mine /\ Mine \subseteq Items
      /\ account[i] \in {"deleting", "settling"}
      /\ account' = [account EXCEPT ![i] = state]
      /\ UNCHANGED <<mode, sweep, marks, cache, tally, result, unseen>>
  BY Shapes, MineStays DEF Drains, ReconcilerInv, SweepShapes
<1>2. /\ account[i] = "deleting" => state = "gone"
      /\ account[i] = "settling" => state = "there"
  BY <1>1
<1>3. account' \in [Items -> States] /\ account'[i] = state
      /\ \A j \in Items \ {i} : account'[j] = account[j]
  BY <1>1, <1>2 DEF States
<1> HIDE DEF state
<1>4. \A j \in Items : Standing(j)' => Standing(j)
  BY <1>1, <1>2, <1>3 DEF Standing
<1>5. \A j \in Items : OnItsWay(j)' => OnItsWay(j) /\ account'[j] = account[j]
  BY <1>1, <1>2, <1>3 DEF OnItsWay
<1>6. \A j \in Items : account[j] = "gone" => account'[j] = "gone"
  BY <1>1, <1>2, <1>3
<1>7. SeenInv'
  BY <1>1, <1>4 DEF ReconcilerInv, KnownInv, SeenInv
<1>8. GatewayInv'
  BY <1>1, <1>5 DEF ReconcilerInv, KnownInv, GatewayInv
<1>9. ClearInv'
  BY <1>1, <1>6 DEF ReconcilerInv, KnownInv, ClearInv
<1>10. CacheInv'
  BY <1>1 DEF ReconcilerInv, KnownInv, CacheInv
<1>11. AccountOK'
  <2>1. \A j \in Items : Leaving(j)' => Leaving(j) /\ account'[j] = account[j]
    BY <1>1, <1>2, <1>3 DEF Leaving
  <2>2. \A j \in Items : account'[j] = "settling" => account[j] = "settling"
    BY <1>1, <1>2, <1>3
  <2>3. marks.deleted \subseteq Items
    BY Shapes DEF Marks
  <2>4. \A j \in Items : Byproduct(j) => Byproduct(j)'
    BY <1>6, ByproductStays
  <2>5. QED
    BY <1>1, <1>4, <2>1, <2>2, <2>3, <2>4 DEF ReconcilerInv, HeldInv, AccountOK, Leaving
<1>12. SweepShapes'
  BY <1>1, <1>3 DEF ReconcilerInv, SweepShapes
<1>13. PlaceOK(sweep)' /\ HandOK(sweep)' /\ MarksOK(marks)'
  BY <1>1 DEF ReconcilerInv, HeldInv, PlaceOK, LaterOK, HandOK, MarksOK
<1>14. \A j \in Items \ Mine : ~Byproduct(j) => account'[j] \in {account[j], "there"}
  <2>1. account[i] = "deleting" => i \in Mine \/ Byproduct(i)
    BY DEF ReconcilerInv, HeldInv, AccountOK, Leaving
  <2>2. QED
    BY <1>1, <1>2, <1>3, <2>1
<1>15. QED
  BY <1>6, <1>7, <1>8, <1>9, <1>10, <1>11, <1>12, <1>13, <1>14
     DEF ReconcilerInv, HeldInv, KnownInv

-----------------------------------------------------------------------------
(* The end of a round and of the sweep *)

LEMMA OrderLength == Order \in Seq(Kinds) /\ Len(Order) = 7
<1>1. Len(Order) = 7
  BY DEF Order
<1>2. Order \in Seq(Kinds)
  BY OrderIs DEF Order
<1>3. QED
  BY <1>1, <1>2

\* What every collection's pass has seen, at the end of a round.
LEMMA RoundSeen ==
  ASSUME ReconcilerInv, RoundEnds
  PROVE  /\ DOMAIN cache = {}
         /\ \A i \in Mine : Standing(i) /\ Kind[i] \notin unseen =>
              i \in marks.stuck \cup marks.picked[Kind[i]]
         /\ \A g \in Mine : OnItsWay(g) /\ "gateway" \notin unseen =>
              tally.genuine \/ tally.inprog
<1>1. /\ sweep.at \notin PassPlaces /\ sweep.todo = <<>> /\ Mine \subseteq Items
      /\ sweep.at \notin AtEnd /\ DOMAIN cache \subseteq Kinds
  BY Shapes DEF RoundEnds, PassPlaces, AtEnd, ReconcilerInv, SweepShapes
<1>2. \A k \in Kinds : Passed(sweep, k)
  BY <1>1, AllPassed
<1>3. DOMAIN cache = {}
  BY <1>1, <1>2 DEF ReconcilerInv, KnownInv, CacheInv
<1>4. ASSUME NEW i \in Mine, Standing(i), Kind[i] \notin unseen
      PROVE  i \in marks.stuck \cup marks.picked[Kind[i]]
  BY <1>1, <1>2, <1>4, MineIs DEF ReconcilerInv, KnownInv, SeenInv
<1>5. "gateway" \in Kinds
  BY OrderIs
<1>6. ASSUME NEW g \in Mine, OnItsWay(g), "gateway" \notin unseen
      PROVE  tally.genuine \/ tally.inprog
  BY <1>1, <1>2, <1>5, <1>6 DEF ReconcilerInv, KnownInv, GatewayInv
<1>7. QED
  BY <1>3, <1>4, <1>6

LEMMA NextRoundKeeps ==
  ASSUME ReconcilerInv, RoundEnds, NextRound,
         UNCHANGED <<account, mode, marks, cache, unseen>>
  PROVE  ReconcilerInv'
<1>1. /\ sweep \in Sweeps /\ PlaceOK(sweep) /\ HandOK(sweep) /\ Mine \subseteq Items
      /\ sweep.at = "select" /\ Mine' = Mine
  BY Shapes, MineStays DEF RoundEnds
<1> DEFINE round == sweep.round + 1
<1>2. round \in Nat \ {0}
  BY <1>1 DEF Sweeps
<1>3. sweep' = [sweep EXCEPT !.round = round, !.todo = Order, !.at = "prescan"]
  BY <1>1 DEF NextRound, Sweeps
<1> HIDE DEF round
<1>4. /\ sweep' \in Sweeps /\ sweep'.todo = Order /\ sweep'.at = "prescan"
      /\ sweep'.picked = sweep.picked /\ sweep'.later = sweep.later
      /\ sweep'.vpc = sweep.vpc
  BY <1>1, <1>2, <1>3, OrderLength DEF Sweeps, SweepPlaces
<1>5. sweep'.at \notin PassPlaces /\ sweep'.at \notin AtEnd /\ sweep.later = {}
  BY <1>1, <1>4 DEF PassPlaces, AtEnd, PlaceOK, LaterOK
<1>6. PlaceOK(sweep')
  <2>1. Len(sweep'.todo) = 7
    BY <1>4, OrderLength
  <2>2. \A p \in 1 .. Len(sweep'.todo) : sweep'.todo[p] = Order[(7 - Len(sweep'.todo)) + p]
    BY <1>4, <2>1
  <2>3. Len(sweep'.todo) <= 7
    BY <2>1
  <2>4. QED
    BY <1>4, <1>5, <2>1, <2>2, <2>3 DEF PlaceOK, LaterOK
<1>7. tally' \in Tallies
  BY DEF NextRound, NoTally, Tallies
<1>8. \A k : ~Passed(sweep', k)
  BY <1>4, <1>5, OrderLength, NonePassed
<1>9. SweepShapes'
  BY <1>4, <1>7 DEF ReconcilerInv, SweepShapes, Tallies, NextRound
<1>10. HandOK(sweep)' /\ MarksOK(marks)' /\ AccountOK'
  BY <1>1, <1>4, AccountSame DEF ReconcilerInv, HeldInv, HandOK, MarksOK
<1>11. SeenInv'
  <2>1. SUFFICES ASSUME NEW i \in Mine, Standing(i), Kind[i] \notin unseen
                 PROVE  /\ Kind[i] \in marks.converged => i \in marks.stuck
                        /\ Kind[i] \in DOMAIN cache =>
                             /\ i \in DOMAIN cache[Kind[i]]
                             /\ cache[Kind[i]][i] \in {"there", "settling"}
                        /\ i \in marks.stuck \cup marks.picked[Kind[i]]
                        /\ sweep'.at # "over"
    BY <1>1 DEF SeenInv, Standing
  <2>2. i \in marks.stuck \cup marks.picked[Kind[i]]
    BY <2>1, RoundSeen
  <2>3. QED
    BY <1>4, <2>1, <2>2 DEF ReconcilerInv, KnownInv, SeenInv
<1>12. CacheInv'
  BY RoundSeen DEF CacheInv
<1>13. GatewayInv'
  BY <1>1, <1>5, <1>8 DEF ReconcilerInv, KnownInv, GatewayInv, OnItsWay
<1>14. ClearInv'
  BY <1>5 DEF ClearInv
<1>15. QED
  BY <1>6, <1>9, <1>10, <1>11, <1>12, <1>13, <1>14 DEF ReconcilerInv, HeldInv, KnownInv

LEMMA EndsKeeps ==
  ASSUME ReconcilerInv, RoundEnds, NEW why \in {"stop", "clear", "cap"}, NEW report \in BOOLEAN,
         Ends(why, report), UNCHANGED <<account, mode, marks, cache, unseen>>,
         why = "stop" => ~tally.genuine /\ ~tally.inprog,
         why = "clear" => ~VpcsPresent
  PROVE  ReconcilerInv'
<1>1. /\ sweep \in Sweeps /\ PlaceOK(sweep) /\ HandOK(sweep) /\ Mine \subseteq Items
      /\ sweep.at = "select" /\ sweep.todo = <<>> /\ sweep' = Place("second chance")
      /\ result' = [result EXCEPT !.why = why, !.report = report] /\ tally' = tally
      /\ result \in [why : {"none", "stop", "clear", "cap"}, report : BOOLEAN,
                     names : SUBSET Items]
      /\ account \in [Items -> States] /\ Mine' = Mine
  BY Shapes, MineStays DEF RoundEnds, Ends, ReconcilerInv, SweepShapes
<1>2. /\ sweep' \in Sweeps /\ sweep'.todo = <<>> /\ sweep'.at = "second chance"
      /\ sweep'.round = sweep.round /\ sweep'.picked = sweep.picked
      /\ sweep'.later = sweep.later /\ sweep'.vpc = sweep.vpc
  BY <1>1 DEF Sweeps, SweepPlaces, AtEnd, Place
<1>3. sweep'.at \notin PassPlaces /\ sweep'.at \in AtEnd /\ sweep.at \notin PassPlaces
  BY <1>1, <1>2 DEF PassPlaces, AtEnd
<1>4. PlaceOK(sweep') /\ Through(sweep') = Through(sweep)
  BY <1>1, <1>2, <1>3, OutsideIs
<1>5. /\ result'.why = why
      /\ result' \in [why : {"none", "stop", "clear", "cap"}, report : BOOLEAN,
                      names : SUBSET Items]
  BY <1>1
<1>6. SweepShapes'
  BY <1>1, <1>2, <1>5 DEF ReconcilerInv, SweepShapes
<1>7. HandOK(sweep)' /\ MarksOK(marks)' /\ AccountOK'
  BY <1>1, <1>2, AccountSame DEF ReconcilerInv, HeldInv, HandOK, MarksOK
<1>8. \A k : Passed(sweep', k) <=> Passed(sweep, k)
  BY <1>4, SamePassed
<1>9. SeenInv'
  BY <1>1, <1>2, <1>8 DEF ReconcilerInv, KnownInv, SeenInv, Standing
<1>10. CacheInv'
  BY RoundSeen DEF CacheInv
<1>11. GatewayInv'
  <2>1. \A g \in Mine : OnItsWay(g) /\ "gateway" \notin unseen => why # "stop"
    BY RoundSeen
  <2>2. QED
    BY <1>1, <1>3, <1>5, <2>1 DEF ReconcilerInv, KnownInv, GatewayInv, OnItsWay
<1>12. ClearInv'
  <2>1. ~VpcsPresent => \A v \in Mine : Kind[v] = "vpc" => account[v] = "gone"
    BY <1>1 DEF VpcsPresent, Present, Mine
  <2>2. QED
    BY <1>1, <1>5, <2>1 DEF ClearInv
<1>13. QED
  BY <1>4, <1>6, <1>7, <1>9, <1>10, <1>11, <1>12 DEF ReconcilerInv, HeldInv, KnownInv

LEMMA RoundKeeps ==
  ASSUME ReconcilerInv, Continue \/ Stop \/ Grant
  PROVE  ReconcilerInv'
<1>1. /\ RoundEnds /\ tally \in Tallies
      /\ UNCHANGED <<account, mode, marks, cache, unseen>>
  BY Shapes DEF Continue, Stop, Grant
<1>2. CASE NextRound
  BY <1>1, <1>2, NextRoundKeeps
<1>3. CASE Ends("cap", FALSE) \/ Ends("cap", TRUE)
  BY <1>1, <1>3, EndsKeeps
<1>4. CASE Stop
  <2>1. Ends("stop", tally.reported) /\ ~tally.genuine /\ ~tally.inprog
    BY <1>4 DEF Stop
  <2>2. tally.reported \in BOOLEAN
    BY <1>1 DEF Tallies
  <2>3. QED
    BY <1>1, <2>1, <2>2, EndsKeeps
<1>5. CASE ~VpcsPresent /\ Ends("clear", TRUE)
  BY <1>1, <1>5, EndsKeeps
<1>6. QED
  BY <1>2, <1>3, <1>4, <1>5 DEF Continue, Grant

LEMMA ReportKeeps ==
  ASSUME ReconcilerInv, Report
  PROVE  ReconcilerInv'
<1> DEFINE report == result.report \/ marks.stuck # {}
           last == UNION {marks.picked[k] : k \in Kinds}
           names == IF ~report THEN {}
                    ELSE marks.stuck \cup (IF last # {} THEN last
                                           ELSE {i \in Present : Deletable(i) \/ Byproduct(i)})
<1>1. /\ sweep \in Sweeps /\ marks \in Marks /\ PlaceOK(sweep) /\ HandOK(sweep)
      /\ Mine \subseteq Items /\ sweep.at = "second chance" /\ sweep' = Place("over")
      /\ result' = [result EXCEPT !.report = report, !.names = names]
      /\ result \in [why : {"none", "stop", "clear", "cap"}, report : BOOLEAN,
                     names : SUBSET Items]
      /\ Mine' = Mine
      /\ UNCHANGED <<account, mode, marks, cache, tally, unseen>>
  BY Shapes, MineStays DEF Report, ReconcilerInv, SweepShapes
<1>2. /\ marks.picked \in [Kinds -> SUBSET Items] /\ marks.stuck \subseteq Items
  BY <1>1 DEF Marks
<1>3. names \subseteq Items
  BY <1>2 DEF Present
<1>4. \A k \in Kinds : marks.picked[k] \subseteq last
  OBVIOUS
<1>5. ASSUME report, NEW k \in Kinds, NEW i \in marks.stuck \cup marks.picked[k]
      PROVE  i \in names
  BY <1>4, <1>5
<1>6. report \in BOOLEAN
  BY <1>1
<1> HIDE DEF report, last, names
<1>7. /\ result' \in [why : {"none", "stop", "clear", "cap"}, report : BOOLEAN,
                      names : SUBSET Items]
      /\ result'.why = result.why /\ result'.report = report /\ result'.names = names
  BY <1>1, <1>3, <1>6
<1>8. /\ sweep' \in Sweeps /\ sweep'.todo = sweep.todo /\ sweep'.at = "over"
      /\ sweep'.round = sweep.round /\ sweep'.picked = sweep.picked
      /\ sweep'.later = sweep.later /\ sweep'.vpc = sweep.vpc
  BY <1>1 DEF Sweeps, SweepPlaces, AtEnd, Place
<1>9. /\ sweep'.at \notin PassPlaces /\ sweep'.at \in AtEnd /\ sweep.at \notin PassPlaces
      /\ sweep.at \in AtEnd /\ sweep.todo = <<>>
  BY <1>1, <1>8 DEF PassPlaces, AtEnd, PlaceOK
<1>10. PlaceOK(sweep') /\ Through(sweep') = Through(sweep)
  BY <1>1, <1>8, <1>9, OutsideIs
<1>11. SweepShapes'
  BY <1>1, <1>7, <1>8 DEF ReconcilerInv, SweepShapes
<1>12. HandOK(sweep)' /\ MarksOK(marks)' /\ AccountOK'
  BY <1>1, <1>8, AccountSame DEF ReconcilerInv, HeldInv, HandOK, MarksOK
<1>13. \A k : Passed(sweep', k) <=> Passed(sweep, k)
  BY <1>10, SamePassed
<1>14. SeenInv'
  <2>1. SUFFICES ASSUME NEW i \in Mine, Standing(i), Kind[i] \notin unseen
                 PROVE  /\ Kind[i] \in marks.converged => i \in marks.stuck
                        /\ Kind[i] \in DOMAIN cache =>
                             /\ i \in DOMAIN cache[Kind[i]]
                             /\ cache[Kind[i]][i] \in {"there", "settling"}
                        /\ sweep.round > 1 \/ Passed(sweep, Kind[i]) =>
                             i \in marks.stuck \cup marks.picked[Kind[i]]
                        /\ report => i \in names
    BY <1>1, <1>7, <1>8, <1>13 DEF SeenInv, Standing
  <2>2. Kind[i] \in Kinds /\ Passed(sweep, Kind[i])
    BY <1>1, <1>9, MineIs, AllPassed
  <2>3. QED
    BY <1>5, <2>1, <2>2 DEF ReconcilerInv, KnownInv, SeenInv
<1>15. CacheInv'
  BY <1>1, <1>13 DEF ReconcilerInv, KnownInv, CacheInv
<1>16. GatewayInv'
  BY <1>1, <1>7, <1>8, <1>9 DEF ReconcilerInv, KnownInv, GatewayInv, OnItsWay
<1>17. ClearInv'
  BY <1>1, <1>7, <1>9 DEF ReconcilerInv, KnownInv, ClearInv
<1>18. QED
  BY <1>10, <1>11, <1>12, <1>14, <1>15, <1>16, <1>17 DEF ReconcilerInv, HeldInv, KnownInv

-----------------------------------------------------------------------------
(* The theorems *)

LEMMA SweepStarts ==
  ASSUME SweepInit
  PROVE  ReconcilerInv
<1>1. PICK A \in Accounts : \E settling \in SUBSET {i \in A : Kind[i] = "gateway"} :
        account = [i \in Items |-> IF i \notin A THEN "gone"
                                   ELSE IF i \in settling THEN "settling" ELSE "there"]
  BY DEF SweepInit
<1>2. PICK settling \in SUBSET {i \in A : Kind[i] = "gateway"} :
        account = [i \in Items |-> IF i \notin A THEN "gone"
                                   ELSE IF i \in settling THEN "settling" ELSE "there"]
  BY <1>1
<1>3. /\ account \in [Items -> {"gone", "settling", "there"}]
      /\ \A i \in Items : account[i] = "settling" => Kind[i] = "gateway"
  BY <1>2
<1>4. /\ sweep = [round |-> 1, todo |-> Order, at |-> "prescan",
                  picked |-> {}, later |-> {}, vpc |-> {}, tries |-> 0, extra |-> {}]
      /\ marks = [converged |-> {}, issued |-> {}, stuck |-> {}, deleted |-> {},
                  picked |-> [k \in Kinds |-> {}]]
      /\ cache = <<>> /\ tally = NoTally /\ unseen = {}
      /\ result = [why |-> "none", report |-> FALSE, names |-> {}]
  BY DEF SweepInit
<1>5. /\ sweep \in Sweeps /\ sweep.todo = Order /\ sweep.at = "prescan" /\ sweep.round = 1
      /\ sweep.picked = {} /\ sweep.later = {} /\ sweep.vpc = {}
  BY <1>4, OrderLength DEF Sweeps, SweepPlaces
<1>6. /\ marks \in Marks /\ marks.converged = {} /\ marks.issued = {}
      /\ marks.stuck = {} /\ marks.deleted = {}
  BY <1>4 DEF Marks
<1>7. DOMAIN cache = {}
  BY <1>4
<1>8. sweep.at \notin PassPlaces /\ sweep.at \notin AtEnd
  BY <1>5 DEF PassPlaces, AtEnd
<1>9. PlaceOK(sweep)
  <2>1. Len(sweep.todo) = 7
    BY <1>5, OrderLength
  <2>2. \A p \in 1 .. Len(sweep.todo) : sweep.todo[p] = Order[(7 - Len(sweep.todo)) + p]
    BY <1>5, <2>1
  <2>3. Len(sweep.todo) <= 7
    BY <2>1
  <2>4. QED
    BY <1>5, <1>8, <2>1, <2>2, <2>3 DEF PlaceOK, LaterOK
<1>10. \A k : ~Passed(sweep, k)
  BY <1>5, <1>8, OrderLength, NonePassed
<1>11. SweepShapes
  <2>1. tally \in [genuine : BOOLEAN, inprog : BOOLEAN, reported : BOOLEAN]
    BY <1>4 DEF NoTally
  <2>2. result \in [why : {"none", "stop", "clear", "cap"}, report : BOOLEAN,
                    names : SUBSET Items]
    BY <1>4
  <2>3. account \in [Items -> States]
    BY <1>3 DEF States
  <2>4. QED
    BY <1>4, <1>5, <1>6, <1>7, <2>1, <2>2, <2>3 DEF SweepShapes
<1>12. HandOK(sweep) /\ MarksOK(marks)
  BY <1>5, <1>6 DEF HandOK, MarksOK
<1>13. AccountOK
  BY <1>3, <1>6 DEF AccountOK, Leaving
<1>14. SeenInv
  BY <1>5, <1>6, <1>7, <1>10 DEF SeenInv
<1>15. CacheInv
  BY <1>7 DEF CacheInv
<1>16. GatewayInv
  BY <1>6, <1>7, <1>8, <1>10 DEF GatewayInv
<1>17. ClearInv
  BY <1>8 DEF ClearInv
<1>18. QED
  BY <1>9, <1>11, <1>12, <1>13, <1>14, <1>15, <1>16, <1>17 DEF ReconcilerInv, HeldInv, KnownInv

\* What is at hand without the gate are by-products, all the time.
LEMMA ExtraStays ==
  ASSUME ReconcilerInv, ExtraOK, SweepNext, ~SelectByproducts,
         \A j \in Items : account[j] = "gone" => account'[j] = "gone"
  PROVE  ExtraOK'
<1> DEFINE Fewer == sweep'.extra \subseteq sweep.extra
<1>1. /\ sweep \in Sweeps
      /\ \A at : Place(at) = [sweep EXCEPT !.at = at] /\ Place(at).extra = sweep.extra
      /\ NextPass.extra = sweep.extra /\ GiveUp.extra = sweep.extra
  BY Shapes DEF Place, NextPass, GiveUp, Sweeps
<1>2. AfterPass.extra = sweep.extra /\ Again.extra = sweep.extra
  BY <1>1 DEF AfterPass, Again, Sweeps
<1>3. ASSUME NEW i \in Items, RequestOn(i) PROVE Fewer
  <2>1. ASSUME NEW a, BlastOne(i, a) PROVE Fewer
    BY <1>1, <2>1 DEF BlastOne, Sweeps
  <2>2. ASSUME NEW a, DeleteOne(i, a) PROVE Fewer
    BY <1>1, <2>2 DEF DeleteOne, Sweeps
  <2>3. ASSUME NEW a, RetrySubnet(i, a) PROVE Fewer
    BY <1>1, <2>3 DEF RetrySubnet, NextPass, Sweeps
  <2>4. ASSUME NEW a, DeleteVpc(i, a) PROVE Fewer
    BY <1>1, <2>4 DEF DeleteVpc, Place, Sweeps
  <2>5. ASSUME NEW a, PurgeHolder(i, a) PROVE Fewer
    BY <1>1, <1>2, <2>5 DEF PurgeHolder
  <2>6. ASSUME NEW a, PurgeChild(i, a) PROVE Fewer
    BY <1>1, <2>6 DEF PurgeChild, Sweeps
  <2>7. ASSUME NEW a, SecondChance(i, a) PROVE Fewer
    BY <1>1, <2>7 DEF SecondChance, Sweeps
  <2>8. ASSUME NEW a, ReapByproduct(i, a) PROVE Fewer
    <3> DEFINE rest == sweep.extra \ {i}
    <3>1. rest \subseteq sweep.extra /\ sweep' = [sweep EXCEPT !.extra = rest]
      BY <1>1, <2>8 DEF ReapByproduct, Sweeps
    <3> HIDE DEF rest
    <3>2. QED
      BY <1>1, <3>1 DEF Sweeps
  <2>9. QED
    BY <1>3, <2>1, <2>2, <2>3, <2>4, <2>5, <2>6, <2>7, <2>8 DEF RequestOn
<1>4. ASSUME NEW F \in SUBSET Kinds, Prescan(F) PROVE Fewer
  BY <1>1, <1>4 DEF Prescan
<1>5. ASSUME Aim \/ SelectCached \/ SelectLive PROVE Fewer
  <2>1. CASE Aim
    BY <1>1, <2>1 DEF Aim, Place, Sweeps
  <2>2. ASSUME NEW k, NEW M, Selected(k, M) PROVE Fewer
    BY <1>1, <2>2 DEF Selected, Place, Sweeps
  <2>3. QED
    BY <1>5, <2>1, <2>2 DEF SelectCached, SelectLive
<1>6. ASSUME \/ BlastEnds \/ SkipConverged \/ DeletesEnd \/ ReapEnds
             \/ NoHolderNamed \/ Defer \/ PurgeEnds
      PROVE  Fewer
  BY <1>1, <1>2, <1>6
     DEF BlastEnds, SkipConverged, DeletesEnd, ReapEnds, NoHolderNamed, Defer, PurgeEnds
<1>7. ASSUME NotDetected PROVE Fewer
  BY <1>1, <1>7 DEF NotDetected, Place, Sweeps
<1>8. ASSUME Continue \/ Stop \/ Grant \/ Report PROVE Fewer
  <2>1. CASE NextRound
    BY <1>1, <2>1 DEF NextRound, Sweeps
  <2>2. ASSUME sweep' \in {Place("second chance"), Place("over")} PROVE Fewer
    BY <1>1, <2>2
  <2>3. QED
    BY <1>8, <2>1, <2>2 DEF Continue, Stop, Grant, Report, Ends
<1>9. ASSUME NEW i \in Items, Drains(i) PROVE Fewer
  BY <1>9 DEF Drains
<1>10. Fewer
  BY <1>3, <1>4, <1>5, <1>6, <1>7, <1>8, <1>9 DEF SweepNext
<1>11. \A i \in Items : Byproduct(i) => Byproduct(i)'
  BY ByproductStays
<1>12. QED
  BY <1>1, <1>10, <1>11 DEF ExtraOK, Sweeps

\* A step keeps the invariant, and leaves alone what is neither the sweep's own nor a
\* by-product.
LEMMA SweepSteps ==
  ASSUME ReconcilerInv, ExtraOK, SweepNext
  PROVE  /\ ReconcilerInv' /\ ExtraOK'
         /\ \A i \in Items : ~Deletable(i) /\ ~Byproduct(i) =>
              account'[i] \in {account[i], "there"}
<1> DEFINE Spares == \A j \in Items : ~Deletable(j) /\ ~Byproduct(j) =>
                                       account'[j] \in {account[j], "there"}
           GoneStays == \A j \in Items : account[j] = "gone" => account'[j] = "gone"
<1>1. ASSUME NEW i \in Items, RequestOn(i)
      PROVE  ReconcilerInv' /\ GoneStays /\ Spares
  <2>1. PICK a \in Answers(i) :
          \/ BlastOne(i, a) \/ DeleteOne(i, a) \/ RetrySubnet(i, a) \/ DeleteVpc(i, a)
          \/ PurgeHolder(i, a) \/ PurgeChild(i, a) \/ SecondChance(i, a)
          \/ ReapByproduct(i, a)
    BY <1>1 DEF RequestOn
  <2>2. ReconcilerInv' /\ (i \in Mine \/ Byproduct(i))
    BY <1>1, <2>1, BlastKeeps, DeleteOneKeeps, RetrySubnetKeeps, DeleteVpcKeeps, PurgeHolderKeeps,
       PurgeChildKeeps, SecondChanceKeeps, ReapByproductKeeps
  <2>3. Delete(i, a)
    BY <2>1 DEF BlastOne, DeleteOne, RetrySubnet, DeleteVpc, PurgeHolder, PurgeChild,
                SecondChance, ReapByproduct
  <2>4. GoneStays /\ \A j \in Items \ {i} : account'[j] = account[j]
    BY <2>3, DeleteIs DEF ReconcilerInv, HeldInv
  <2>5. QED
    BY <2>2, <2>4 DEF Mine
<1>2. ASSUME NEW i \in Items, Drains(i)
      PROVE  ReconcilerInv' /\ GoneStays /\ Spares
  BY <1>2, DrainsKeeps DEF Mine
<1>3. ASSUME \/ \E F \in SUBSET Kinds : Prescan(F)
             \/ Aim \/ BlastEnds
             \/ SkipConverged \/ SelectCached \/ SelectLive \/ DeletesEnd
             \/ SelectByproducts \/ ReapEnds
             \/ NoHolderNamed \/ Defer \/ NotDetected \/ PurgeEnds
             \/ Continue \/ Stop \/ Grant \/ Report
      PROVE  ReconcilerInv' /\ GoneStays /\ Spares
  <2>1. ReconcilerInv'
    BY <1>3, PrescanKeeps, AimKeeps, BlastEndsKeeps, QuietStepsKeep, SelectKeeps,
       SelectByproductsKeeps, RoundKeeps, ReportKeeps
  <2>2. account' = account
    BY <1>3 DEF Prescan, Aim, BlastEnds, SkipConverged, SelectCached, SelectLive, DeletesEnd,
                SelectByproducts, ReapEnds,
                NoHolderNamed, Defer, NotDetected, PurgeEnds, Continue, Stop, Grant, Report
  <2>3. GoneStays /\ Spares
    BY <2>2
  <2>4. QED
    BY <2>1, <2>3
<1> HIDE DEF GoneStays, Spares
<1>4. ReconcilerInv' /\ GoneStays /\ Spares
  BY <1>1, <1>2, <1>3 DEF SweepNext
<1>5. ExtraOK'
  BY <1>4, ExtraStays, SelectByproductsKeeps DEF GoneStays
<1>6. QED
  BY <1>4, <1>5 DEF Spares

LEMMA SweepStutters ==
  ASSUME ReconcilerInv, ExtraOK, UNCHANGED sweepVars
  PROVE  ReconcilerInv' /\ ExtraOK'
<1>1. HandOK(sweep)' /\ MarksOK(marks)' /\ AccountOK' /\ PlaceOK(sweep)' /\ SweepShapes'
  <2>1. HandOK(sweep)' /\ MarksOK(marks)' /\ AccountOK'
    BY MineStays, AccountSame DEF sweepVars, ReconcilerInv, HeldInv, HandOK, MarksOK
  <2>2. PlaceOK(sweep)'
    BY DEF sweepVars, ReconcilerInv, HeldInv, PlaceOK, LaterOK
  <2>3. SweepShapes'
    BY DEF sweepVars, ReconcilerInv, SweepShapes
  <2>4. QED
    BY <2>1, <2>2, <2>3
<1>2. KnownInv'
  BY DEF sweepVars, ReconcilerInv, KnownInv, SeenInv, CacheInv, GatewayInv, ClearInv, OnItsWay,
         Mine, Deletable, Standing, Passed, Through
<1>3. ExtraOK'
  BY DEF sweepVars, ExtraOK, Byproduct, Holders, Present
<1>4. QED
  BY <1>1, <1>2, <1>3 DEF ReconcilerInv, HeldInv

\* What a sweep holds and what it knows of the account, at each of its places.
THEOREM ReconcilerInduction == SweepSpec => [](ReconcilerInv /\ ExtraOK)
<1>1. SweepInit => ReconcilerInv /\ ExtraOK
  <2>1. SweepInit => sweep.extra = {}
    BY DEF SweepInit
  <2>2. QED
    BY <2>1, SweepStarts DEF ExtraOK
<1>2. ReconcilerInv /\ ExtraOK /\ [SweepNext]_sweepVars => (ReconcilerInv /\ ExtraOK)'
  BY SweepSteps, SweepStutters
<1>3. QED
  BY <1>1, <1>2, PTL DEF SweepSpec

\* A sweep does not end while a gateway that is on its way out holds a VPC of ours,
\* nor with a report that leaves out what it could have deleted, unless a LIST failed:
\* the verdict of _round_verdict and the collections of _leftover_report.
THEOREM SweepsAreHonest == SweepSpec => []SweepHonest
<1>1. ReconcilerInv => SweepHonest
  <2>1. SUFFICES ASSUME ReconcilerInv, SweepOver PROVE SweepHonest
    BY DEF SweepHonest, HolderAwaited, SurvivorsReported
  <2>2. sweep.at = "over" /\ sweep.at \in AtEnd
    BY <2>1 DEF SweepOver, AtEnd
  <2>3. HolderAwaited
    <3>1. SUFFICES ASSUME result.why \in {"stop", "clear"}, NEW g \in Items, NEW v \in Items,
                          Kind[g] = "gateway", account[g] \in {"deleting", "settling"},
                          <<g, v>> \in Holds, Kind[v] = "vpc", Left(v)
                   PROVE  unseen # {}
      BY DEF HolderAwaited
    <3>2. v \in Mine /\ account[v] # "gone"
      BY <3>1 DEF Left, Mine
    <3>3. result.why = "stop"
      BY <2>1, <2>2, <3>1, <3>2 DEF ReconcilerInv, KnownInv, ClearInv
    <3>4. g \in Holders(v)
      BY <3>1 DEF Holders, Present
    <3>5. g \in Mine /\ OnItsWay(g)
      BY <3>1, <3>2, <3>4, HoldersMine DEF OnItsWay
    <3>6. QED
      BY <2>1, <2>2, <3>3, <3>5 DEF ReconcilerInv, KnownInv, GatewayInv
  <2>4. SurvivorsReported
    BY <2>1, <2>2 DEF SurvivorsReported, Left, ReconcilerInv, KnownInv, SeenInv, Mine, Standing
  <2>5. QED
    BY <2>3, <2>4 DEF SweepHonest
<1>2. QED
  BY <1>1, ReconcilerInduction, PTL

\* Whatever belongs to another run that may be live, or to nobody known, is left alone
\* by seven ways to a DELETE: what they have in hand has been through _is_deletable, or
\* holds something that has.  The eighth, of the two passes without the gate, reaches
\* nothing but log groups and hex volumes that no server is attached to.
THEOREM OthersAreSpared == SweepSpec => OthersSpared
<1>1. ReconcilerInv /\ ExtraOK /\ [SweepNext]_sweepVars =>
        [\A i \in Items : ~Deletable(i) /\ ~Byproduct(i) =>
           account'[i] \in {account[i], "there"}]_sweepVars
  BY SweepSteps
<1>2. QED
  BY <1>1, ReconcilerInduction, PTL DEF SweepSpec, OthersSpared

-----------------------------------------------------------------------------
(* The local run.  The property is one about the end, and about all that is  *)
(* known; the invariant says the same of each resource from the moment the   *)
(* run is done with it.  Of a leftover that is when it is no longer to be    *)
(* reaped, of a shared one when its chain is past it.                        *)

Lives == {"none", "up", "deleting", "gone"}
PastReap == {"teardown", "sweep", "over"}

ChainPlaces(c) ==
  CASE c = "main" -> {"subnets", "wait", "igw", "main", "end"}
    [] c = "tgw" -> {"settle", "tgw", "end"}
    [] OTHER -> {c, "end"}
LocalTypes ==
  /\ life \in [Things -> Lives]
  /\ run \in [leaves : SUBSET Leftovers, destructive : BOOLEAN, tracked : BOOLEAN,
              at : {"provision", "tests", "skipped", "reap"} \cup PastReap]
  /\ toMake \subseteq SharedItems /\ ids \subseteq SharedItems /\ ledger \subseteq Leftovers
  /\ reap \in [todo : SUBSET ledger, pending : SUBSET Leftovers, vpc : SUBSET LeftVpcs,
               at : {"items", "holders", "again", "barrier"}]
  /\ issued \subseteq Subnets
  /\ inTheWay \in [Things -> SUBSET [what : Things, up : BOOLEAN]]
  /\ DOMAIN chain = Chains
  /\ \A c \in Chains : chain[c] \in [at : ChainPlaces(c), tries : Nat]

\* Nothing is shared but with a main VPC, which is made first.
MainInv ==
  \/ "main" \in ids
  \/ ids = {} /\ (RunAt("provision") => toMake = {} \/ "main" \in toMake)

\* Who is in the way of x is in x.
InTheWayInv == \A x \in Things : \A h \in inTheWay[x] : x \in Inside(h.what)

\* Where the run is.
PhaseInv ==
  /\ run.at \in {"provision", "tests", "skipped"} =>
       ledger = {} /\ reap.pending = {} /\ reap.vpc = {}
  /\ run.at \in PastReap => reap.todo = {}
  /\ reap.at \in {"holders", "again"} => reap.vpc # {}
  /\ \A k \in reap.vpc : reap.at \in {"holders", "again"} /\ k \in NextItem /\ reap.vpc = {k}

\* The reap: a leftover that it is done with is explained, and comes after none of those
\* that are to come.  A deletion it has begun is waited for in this collection, or was.
ReapInv ==
  /\ \A x \in ledger \ reap.todo : Explained(x)
  /\ \A x \in ledger \ reap.todo, y \in reap.todo : ~ReapedBefore(y, x)
  /\ \A y \in ledger : life[y] = "deleting" /\ reap.todo # {} =>
       \/ y \in outlasted \/ y \in reap.pending
       \/ reap.at = "again" /\ \E k \in reap.vpc : k \in Inside(y)
  /\ reap.at # "barrier" /\ reap.todo # {} =>
       \A y \in reap.pending, k \in Collection : ReapOrder[k] <= ReapOrder[y]

\* The teardown: what the chains are past.
Behind ==
  {x \in Subnets : chain["main"].at # "subnets"}
  \cup {x \in {"igw"} : chain["main"].at \in {"main", "end"}}
  \cup {c \in Chains : chain[c].at = "end"}
TeardownRan == run.at \in PastReap /\ run.destructive /\ "main" \in ids
TearInv ==
  /\ TeardownRan => \A x \in ids \cap Behind : Explained(x)
  /\ TeardownRan /\ chain["main"].at \notin {"subnets", "wait"} =>
       \A y \in issued : life[y] = "deleting" => y \in outlasted
  /\ run.at \in {"sweep", "over"} /\ TeardownRan => \A c \in Chains : chain[c].at = "end"
  /\ run.at \notin PastReap => issued = {}

LocalInv == LocalTypes /\ MainInv /\ InTheWayInv /\ PhaseInv /\ ReapInv /\ TearInv

LEMMA SharedIs ==
  SharedItems = {"main", "netA", "netB", "tgw", "igw", "subnet", "db"}
<1>1. DOMAIN SharedOrder = 1 .. 7
  BY DEF SharedOrder
<1>2. 1 .. 7 = {1, 2, 3, 4, 5, 6, 7}
  OBVIOUS
<1> QED BY <1>1, <1>2 DEF SharedItems, ToSet, SharedOrder

\* What a leftover is in; of what is shared, only the main VPC holds another.
LEMMA InsideIs ==
  /\ \A x \in Leftovers : x \notin SharedItems /\ x \in Things /\ Inside(x) = InsideOf[x]
  /\ \A x \in Subnets \cup {"igw"} : Inside(x) = {"main"}
  /\ \A x \in Chains : Inside(x) = {}
  /\ SharedItems = Subnets \cup {"igw"} \cup Chains /\ Things = SharedItems \cup Leftovers
<1>1. Leftovers \cap SharedItems = {}
  BY LocalAssumption
<1> QED BY <1>1, SharedIs DEF Inside, Things, Subnets, Chains

\* The main VPC is made before what else is shared.
LEMMA MainFirst ==
  ASSUME NEW x \in SharedItems, toMake \subseteq SharedItems, "main" \in toMake, NextToMake(x)
  PROVE  x = "main"
<1>1. DOMAIN SharedOrder = 1 .. 7
  BY DEF SharedOrder
<1>2. \E i \in DOMAIN SharedOrder : SharedOrder[i] = x
  BY DEF SharedItems, ToSet
<1>3. Turn(x) \in 1 .. 7 /\ SharedOrder[Turn(x)] = x
  BY <1>1, <1>2 DEF Turn
<1>4. 1 \in DOMAIN SharedOrder /\ SharedOrder[1] = "main"
  BY DEF SharedOrder
<1>5. \A i \in DOMAIN SharedOrder : SharedOrder[i] = "main" => i = 1
  BY DEF SharedOrder
<1>6. Turn("main") = 1
  BY <1>4, <1>5 DEF Turn
<1>7. Turn(x) <= 1
  BY <1>6 DEF NextToMake
<1> QED BY <1>3, <1>4, <1>7

LEMMA LocalInitInv == LocalInit => LocalInv
<1> SUFFICES ASSUME LocalInit PROVE LocalInv
  OBVIOUS
<1>1. PICK s \in LocalSelections, destructive \in BOOLEAN :
        /\ run = [leaves |-> s.leaves, destructive |-> destructive, at |-> "provision",
                  tracked |-> FALSE]
        /\ toMake = s.shared
  BY DEF LocalInit
<1>2. /\ s.shared \subseteq SharedItems /\ s.leaves \subseteq Leftovers
      /\ s.shared # {} => "main" \in s.shared
  BY LocalAssumption
<1>3. \A c \in Chains : NoChain \in [at : ChainPlaces(c), tries : Nat]
  BY DEF NoChain, ChainPlaces
<1>4. LocalTypes
  BY <1>1, <1>2, <1>3 DEF LocalInit, LocalTypes, Lives, PastReap
<1>5. run.at = "provision"
  BY <1>1
<1>6. MainInv /\ PhaseInv
  BY <1>1, <1>2, <1>5 DEF LocalInit, MainInv, PhaseInv, PastReap
<1>7. InTheWayInv
  BY DEF LocalInit, InTheWayInv
<1>8. ReapInv
  BY DEF LocalInit, ReapInv
<1>9. TearInv
  BY <1>5 DEF LocalInit, TearInv, TeardownRan, PastReap
<1> QED BY <1>4, <1>6, <1>7, <1>8, <1>9 DEF LocalInv

\* What was explained stays so, if what was in the way is deleted only where the
\* property allows it.
LEMMA ExplainedKept ==
  ASSUME LocalTypes, InTheWayInv, NEW x \in Things, Explained(x),
         ids' = ids, ledger' = ledger, inTheWay'[x] = inTheWay[x],
         failed \subseteq failed', outlasted \subseteq outlasted',
         Up(x)' => Up(x),
         \A y \in Things : x \in Inside(y) /\ Up(y) /\ y \in Known /\ y \notin failed =>
           Up(y)' \/ ({x, y} \subseteq ledger /\ ~ReapedBefore(y, x)),
         x = "main" => issued' = issued
  PROVE  Explained(x)'
<1> SUFFICES ASSUME Stays(x)'
             PROVE  /\ inTheWay'[x] # {}
                    /\ \A h \in inTheWay'[x] :
                         IF h.up THEN UpForAReason(h.what, x)'
                                 ELSE AwaitedBefore(h.what, x)' => h.what \in outlasted'
  BY DEF Explained
<1>1. Known' = Known
  BY DEF Known
<1>2. Stays(x)
  BY <1>1 DEF Stays
<1>3. /\ inTheWay[x] # {}
      /\ \A h \in inTheWay[x] :
           IF h.up THEN UpForAReason(h.what, x)
                   ELSE AwaitedBefore(h.what, x) => h.what \in outlasted
  BY <1>2 DEF Explained
<1>4. ASSUME NEW h \in inTheWay[x], h.up PROVE UpForAReason(h.what, x)'
  <2>1. h.what \in Things /\ x \in Inside(h.what)
    BY DEF LocalTypes, InTheWayInv
  <2>2. UpForAReason(h.what, x)
    BY <1>3, <1>4
  <2> DEFINE y == h.what
  <2> HIDE DEF y
  <2>3. UpForAReason(y, x) /\ y \in Things /\ x \in Inside(y)
    BY <2>1, <2>2 DEF y
  <2>4. UpForAReason(y, x)'
    BY <2>3, <1>1 DEF UpForAReason, ReapedBefore, Up
  <2> QED BY <2>4 DEF y, UpForAReason, ReapedBefore, Up, Known
<1>5. ASSUME NEW h \in inTheWay[x], ~h.up, AwaitedBefore(h.what, x)' PROVE h.what \in outlasted'
  <2>1. AwaitedBefore(h.what, x)
    BY <1>5 DEF AwaitedBefore
  <2> QED BY <2>1, <1>3, <1>5
<1> QED BY <1>3, <1>4, <1>5

\* What is refused a DELETE is explained, if what was on its way out had been waited for.
LEMMA RefusedExplained ==
  ASSUME NEW x \in Things, life \in [Things -> Lives],
         ThingsIn(x) # {}, inTheWay'[x] = Holding(x),
         \A y \in ThingsIn(x) : Up(y) => Up(y)',
         \A y \in ThingsIn(x) : life[y] = "deleting" /\ AwaitedBefore(y, x)' => y \in outlasted'
  PROVE  Explained(x)'
<1>1. Holding(x) # {}
  BY DEF Holding
<1>2. ASSUME NEW h \in Holding(x)
      PROVE  IF h.up THEN UpForAReason(h.what, x)'
                     ELSE AwaitedBefore(h.what, x)' => h.what \in outlasted'
  <2>1. PICK y \in ThingsIn(x) : h = [what |-> y, up |-> Up(y)]
    BY DEF Holding
  <2>2. h.what = y /\ h.up = Up(y)
    BY <2>1
  <2>3. CASE Up(y)
    BY <2>2, <2>3 DEF UpForAReason
  <2>4. CASE ~Up(y)
    <3>1. life[y] = "deleting"
      BY <2>4 DEF ThingsIn, InAccount, Up
    <3> QED BY <2>2, <2>4, <3>1
  <2> QED BY <2>3, <2>4
<1> QED BY <1>1, <1>2 DEF Explained

LEMMA ReapKept ==
  ASSUME LocalInv, ids' = ids, ledger' = ledger, reap' = reap,
         \A x \in Leftovers : /\ inTheWay'[x] = inTheWay[x] /\ (Up(x)' <=> Up(x))
                              /\ life'[x] = "deleting" => life[x] = "deleting",
         failed \subseteq failed', outlasted \subseteq outlasted'
  PROVE  ReapInv'
<1> USE DEF LocalInv
<1>1. \A x \in ledger \ reap.todo : Explained(x)
  BY DEF ReapInv
<1>2. ASSUME NEW x \in ledger \ reap.todo PROVE Explained(x)'
  <2>1. x \in Leftovers /\ x \in Things /\ x # "main"
    BY InsideIs, SharedIs DEF LocalTypes
  <2>2. \A y \in Things : x \in Inside(y) => y \in Leftovers
    BY <2>1, InsideIs, SharedIs DEF Subnets, Chains
  <2>3. \A y \in Things : x \in Inside(y) /\ Up(y) => Up(y)'
    BY <2>2
  <2>4. Explained(x) /\ inTheWay'[x] = inTheWay[x] /\ (Up(x)' => Up(x))
    BY <1>1, <1>2, <2>1
  <2> QED BY <2>1, <2>3, <2>4, ExplainedKept
<1>3. \A x \in ledger \ reap.todo, y \in reap.todo : ~ReapedBefore(y, x)
  BY DEF ReapInv
<1>4. \A x \in ledger' \ reap'.todo, y \in reap'.todo : ~ReapedBefore(y, x)
  BY <1>3
<1>5. \A y \in ledger' : life'[y] = "deleting" /\ reap'.todo # {} =>
        \/ y \in outlasted' \/ y \in reap'.pending
        \/ reap'.at = "again" /\ \E k \in reap'.vpc : k \in Inside(y)
  BY DEF ReapInv, LocalTypes
<1>6. (reap.at # "barrier" /\ reap.todo # {} =>
         \A y \in reap.pending, k \in Collection : ReapOrder[k] <= ReapOrder[y])'
  BY DEF ReapInv, Collection
<1> QED BY <1>2, <1>4, <1>5, <1>6 DEF ReapInv, ReapedBefore

\* As long as the teardown has not begun, there is nothing to say of it.
LEMMA TearLater ==
  ASSUME issued' = {}, run'.at \notin PastReap
  PROVE  TearInv'
BY DEF TearInv, TeardownRan, PastReap

LEMMA TearKept ==
  ASSUME LocalInv, ids' = ids, ledger' = ledger, chain' = chain, issued' = issued,
         inTheWay' = inTheWay, failed' = failed, outlasted' = outlasted,
         \A x \in Things : /\ Up(x)' <=> Up(x)
                           /\ life'[x] = "deleting" => life[x] = "deleting",
         run'.destructive = run.destructive, run.at \in PastReap <=> run'.at \in PastReap,
         run'.at \in {"sweep", "over"} =>
           run.at \in {"sweep", "over"} \/ \A c \in Chains : chain[c].at = "end"
  PROVE  TearInv'
<1> USE DEF LocalInv
<1>1. TeardownRan' = TeardownRan
  BY DEF TeardownRan, PastReap
<1>2. ASSUME TeardownRan, NEW x \in ids \cap Behind PROVE Explained(x)'
  <2>1. x \in Things /\ Explained(x)
    BY <1>2, InsideIs DEF TearInv, LocalTypes
  <2>2. (Up(x)' => Up(x)) /\ \A y \in Things : x \in Inside(y) /\ Up(y) => Up(y)'
    BY <2>1
  <2> QED BY <2>1, <2>2, ExplainedKept
<1>3. ids' \cap Behind' = ids \cap Behind
  BY DEF Behind
<1>4. (TeardownRan => \A x \in ids \cap Behind : Explained(x))'
  BY <1>1, <1>2, <1>3
<1>5. TeardownRan' /\ chain'["main"].at \notin {"subnets", "wait"} =>
        \A y \in issued' : life'[y] = "deleting" => y \in outlasted'
  <2>1. issued \subseteq Things
    BY InsideIs DEF LocalTypes
  <2> QED BY <1>1, <2>1 DEF TearInv
<1>6. run'.at \in {"sweep", "over"} /\ TeardownRan' => \A c \in Chains : chain'[c].at = "end"
  BY <1>1 DEF TearInv
<1>7. run'.at \notin PastReap => issued' = {}
  BY DEF TearInv, PastReap
<1> QED BY <1>4, <1>5, <1>6, <1>7 DEF TearInv, PastReap

-----------------------------------------------------------------------------
(* provision_shared, and the tests *)

LEMMA CreateInv ==
  ASSUME NEW x \in SharedItems
  PROVE  LocalInv /\ (CreateShared(x) \/ ProvisionRaises(x)) => LocalInv'
<1> SUFFICES ASSUME LocalInv, CreateShared(x) \/ ProvisionRaises(x) PROVE LocalInv'
  OBVIOUS
<1> USE DEF LocalInv
<1>1. /\ run.at = "provision" /\ ledger' = ledger /\ reap' = reap /\ issued' = issued
      /\ chain' = chain /\ failed' = failed /\ inTheWay' = inTheWay /\ outlasted' = outlasted
      /\ run' = run \/ run' = [run EXCEPT !.at = "tests"]
      /\ life' = life \/ life' = [life EXCEPT ![x] = "up"]
  BY DEF CreateShared, ProvisionRaises, RunAt, RunTo, tearing, history
<1>2. run'.at \in {"provision", "tests"}
  BY <1>1 DEF LocalTypes
<1>3. ledger = {} /\ reap.pending = {} /\ reap.vpc = {} /\ issued = {}
  BY <1>1 DEF PhaseInv, TearInv, PastReap
<1>4. x \in toMake /\ ("main" \in toMake => x = "main")
  BY MainFirst DEF LocalTypes, CreateShared, ProvisionRaises, NextToMake
<1>5. /\ toMake' \subseteq SharedItems /\ ids' \subseteq SharedItems
      /\ \/ run' = run /\ toMake' = toMake \ {x} /\ ids' = ids \cup {x}
         \/ run'.at = "tests" /\ ids' = ids /\ toMake' = {} /\ x = "main"
         \/ run' = run /\ toMake' = toMake \ {x} /\ ids' = ids /\ x # "main"
         \/ run'.at = "tests" /\ ids' = {} /\ toMake' = {}
  BY <1>1, <1>2 DEF LocalTypes, CreateShared, ProvisionRaises, RunTo
<1>6. MainInv'
  BY <1>1, <1>2, <1>4, <1>5 DEF MainInv, RunAt
<1>7. LocalTypes'
  <2>1. run' \in [leaves : SUBSET Leftovers, destructive : BOOLEAN, tracked : BOOLEAN,
                  at : {"provision", "tests", "skipped", "reap"} \cup PastReap]
    BY <1>1 DEF LocalTypes
  <2>2. life' \in [Things -> Lives]
    BY <1>1 DEF LocalTypes, Lives
  <2> QED BY <1>1, <1>5, <2>1, <2>2 DEF LocalTypes
<1>8. InTheWayInv'
  BY <1>1 DEF InTheWayInv
<1>9. PhaseInv'
  BY <1>1, <1>2, <1>3 DEF PhaseInv, PastReap
<1>10. ReapInv'
  BY <1>1, <1>3 DEF ReapInv, LocalTypes
<1>11. TearInv'
  BY <1>1, <1>2, <1>3, TearLater DEF PastReap
<1> QED BY <1>6, <1>7, <1>8, <1>9, <1>10, <1>11

LEMMA ProvisionedInv ==
  LocalInv /\ (Provisioned \/ RunnerMissing) => LocalInv'
<1> SUFFICES ASSUME LocalInv, Provisioned \/ RunnerMissing PROVE LocalInv'
  OBVIOUS
<1> USE DEF LocalInv
<1>1. /\ run.at \in {"provision", "tests"} /\ ledger' = ledger /\ reap' = reap /\ issued' = issued
      /\ chain' = chain /\ failed' = failed /\ inTheWay' = inTheWay /\ outlasted' = outlasted
      /\ run' = [run EXCEPT !.at = "tests"] \/ run' = [run EXCEPT !.at = "skipped"]
      /\ life' = life /\ ids' = ids /\ toMake' = toMake
  BY DEF Provisioned, RunnerMissing, RunAt, RunTo, tearing, history, provisioning
<1>2. run'.at \in {"skipped", "tests"}
  BY <1>1 DEF LocalTypes
<1>3. ledger = {} /\ reap.pending = {} /\ reap.vpc = {} /\ issued = {}
  BY <1>1 DEF PhaseInv, TearInv, PastReap
<1>4. MainInv'
  BY <1>1, <1>2 DEF MainInv, RunAt
<1>5. LocalTypes'
  <2>1. run' \in [leaves : SUBSET Leftovers, destructive : BOOLEAN, tracked : BOOLEAN,
                  at : {"provision", "tests", "skipped", "reap"} \cup PastReap]
    BY <1>1 DEF LocalTypes
  <2> QED BY <1>1, <2>1 DEF LocalTypes
<1>6. InTheWayInv'
  BY <1>1 DEF InTheWayInv
<1>7. PhaseInv'
  BY <1>1, <1>2, <1>3 DEF PhaseInv, PastReap
<1>8. ReapInv'
  BY <1>1, <1>3 DEF ReapInv, LocalTypes
<1>9. TearInv'
  BY <1>1, <1>2, <1>3, TearLater DEF PastReap
<1> QED BY <1>4, <1>5, <1>6, <1>7, <1>8, <1>9

LEMMA TestsEndInv ==
  LocalInv /\ TestsEnd => LocalInv'
<1> SUFFICES ASSUME LocalInv, TestsEnd PROVE LocalInv'
  OBVIOUS
<1> USE DEF LocalInv
<1>1. PICK left \in [run.leaves -> {"none", "tracked", "unseen", "deleting"}] :
        /\ life' = [x \in Things |->
                      IF x \notin run.leaves \/ left[x] = "none" THEN life[x]
                      ELSE IF left[x] = "deleting" THEN "deleting" ELSE "up"]
        /\ ledger' = {k \in run.leaves : left[k] = "tracked"}
        /\ reap' = [reap EXCEPT !.todo = ledger']
        /\ run' = [run EXCEPT !.at = "reap",
                              !.tracked = \E k \in run.leaves :
                                            left[k] \in {"tracked", "deleting"}]
  BY DEF TestsEnd
<1>2. /\ run.at = "tests" /\ issued' = issued /\ ids' = ids /\ toMake' = toMake
      /\ chain' = chain /\ failed' = failed /\ inTheWay' = inTheWay /\ outlasted' = outlasted
  BY DEF TestsEnd, RunAt, provisioning, tearing, history
<1>3. ledger = {} /\ reap.pending = {} /\ reap.vpc = {} /\ issued = {}
  BY <1>2 DEF PhaseInv, TearInv, PastReap
<1>4. /\ run.leaves \subseteq Leftovers /\ ledger' \subseteq Leftovers
      /\ \A k \in ledger' : life'[k] = "up"
  BY <1>1, InsideIs DEF LocalTypes
<1>5. /\ run'.at = "reap"
      /\ run' \in [leaves : SUBSET Leftovers, destructive : BOOLEAN, tracked : BOOLEAN,
                   at : {"provision", "tests", "skipped", "reap"} \cup PastReap]
  <2> DEFINE t == \E k \in run.leaves : left[k] \in {"tracked", "deleting"}
  <2>1. t \in BOOLEAN /\ run' = [run EXCEPT !.at = "reap", !.tracked = t]
    BY <1>1
  <2> HIDE DEF t
  <2> QED BY <2>1 DEF LocalTypes
<1>6. /\ reap'.todo = ledger' /\ reap'.pending = {} /\ reap'.vpc = {} /\ reap'.at = reap.at
      /\ reap.at \in {"items", "barrier"}
  BY <1>1, <1>3 DEF LocalTypes, PhaseInv
<1>7. LocalTypes'
  <2>1. life' \in [Things -> Lives]
    BY <1>1 DEF LocalTypes, Lives
  <2>2. reap' \in [todo : SUBSET ledger', pending : SUBSET Leftovers, vpc : SUBSET LeftVpcs,
                   at : {"items", "holders", "again", "barrier"}]
    BY <1>1, <1>3 DEF LocalTypes
  <2> QED BY <1>2, <1>4, <1>5, <2>1, <2>2 DEF LocalTypes
<1>8. MainInv'
  BY <1>2, <1>5 DEF MainInv, RunAt
<1>9. InTheWayInv'
  BY <1>2 DEF InTheWayInv
<1>10. PhaseInv'
  BY <1>5, <1>6 DEF PhaseInv, PastReap
<1>11. ReapInv'
  BY <1>4, <1>6 DEF ReapInv
<1>12. TearInv'
  BY <1>2, <1>3, <1>5, TearLater DEF PastReap
<1> QED BY <1>7, <1>8, <1>9, <1>10, <1>11, <1>12

\* A deletion comes to its end in the account.
LEMMA VanishesInv ==
  ASSUME NEW x \in Things
  PROVE  LocalInv /\ Vanishes(x) => LocalInv'
<1> SUFFICES ASSUME LocalInv, Vanishes(x) PROVE LocalInv'
  OBVIOUS
<1> USE DEF LocalInv
<1>1. /\ run' = run /\ ledger' = ledger /\ reap' = reap /\ issued' = issued
      /\ chain' = chain /\ failed' = failed /\ inTheWay' = inTheWay /\ outlasted' = outlasted
      /\ ids' = ids /\ toMake' = toMake
      /\ life[x] = "deleting" /\ life' = [life EXCEPT ![x] = "gone"]
  BY DEF Vanishes, tearing, history, provisioning
<1>2. \A y \in Things : /\ Up(y)' <=> Up(y)
                        /\ life'[y] = "deleting" => life[y] = "deleting"
  BY <1>1 DEF LocalTypes, Up
<1>3. LocalTypes'
  <2>1. life' \in [Things -> Lives]
    BY <1>1 DEF LocalTypes, Lives
  <2> QED BY <1>1, <2>1 DEF LocalTypes
<1>4. MainInv' /\ InTheWayInv' /\ PhaseInv'
  BY <1>1 DEF MainInv, InTheWayInv, PhaseInv, RunAt, NextItem, Collection
<1>5. ReapInv'
  <2>1. Leftovers \subseteq Things
    BY InsideIs
  <2> QED BY <2>1, <1>1, <1>2, ReapKept
<1>6. TearInv'
  BY <1>1, <1>2, TearKept
<1> QED BY <1>3, <1>4, <1>5, <1>6

-----------------------------------------------------------------------------
(* reap_run_leftovers *)

\* When the reap is through with k, which it has explained, what it said of the others
\* holds on.
LEMMA ReapSettles ==
  ASSUME LocalInv, NEW k \in NextItem, NEW taken \in SUBSET {k},
         reap.at \in {"items", "again"}, AfterItem(k, taken),
         ids' = ids, ledger' = ledger, failed \subseteq failed', outlasted \subseteq outlasted',
         life' = life \/ (life' = [life EXCEPT ![k] = "deleting"] /\ taken = {k}),
         \A x \in Leftovers : x # k => inTheWay'[x] = inTheWay[x],
         Explained(k)',
         reap.at = "again" =>
           \A y \in ledger : life[y] = "deleting" /\ (\E v \in reap.vpc : v \in Inside(y)) =>
             y \in outlasted'
  PROVE  ReapInv' /\ reap' \in [todo : SUBSET ledger, pending : SUBSET Leftovers,
                                vpc : {{}}, at : {"items", "barrier"}]
<1> USE DEF LocalInv
<1>1. /\ k \in Collection /\ k \in reap.todo /\ k \in ledger /\ k \in Leftovers /\ k \in Things
      /\ reap.todo \subseteq ledger /\ ledger \subseteq Leftovers /\ reap.pending \subseteq Leftovers
  BY InsideIs DEF NextItem, Collection, LocalTypes
<1>2. /\ reap'.todo = reap.todo \ {k} /\ reap'.pending = reap.pending \cup taken
      /\ reap'.vpc = {} /\ reap'.at \in {"items", "barrier"}
      /\ reap'.at = "items" => ~(Collection = {k} /\ Later # {} /\ reap'.pending # {})
      /\ reap' \in [todo : SUBSET ledger, pending : SUBSET Leftovers,
                    vpc : {{}}, at : {"items", "barrier"}]
  <2> DEFINE at == IF Collection = {k} /\ Later # {} /\ reap.pending \cup taken # {}
                   THEN "barrier" ELSE "items"
  <2>1. reap' = [todo |-> reap.todo \ {k}, pending |-> reap.pending \cup taken, at |-> at,
                 vpc |-> {}]
    BY DEF AfterItem
  <2>2. /\ at \in {"items", "barrier"}
        /\ at = "items" => ~(Collection = {k} /\ Later # {} /\ reap.pending \cup taken # {})
    OBVIOUS
  <2> HIDE DEF at
  <2> QED BY <1>1, <2>1, <2>2
<1>3. \A y \in Things : y # k => life'[y] = life[y]
  BY DEF LocalTypes
<1>4. ASSUME NEW y \in reap.todo PROVE ~ReapedBefore(y, k)
  <2>1. ReapOrder[k] <= ReapOrder[y] /\ ReapOrder[k] \in Nat /\ ReapOrder[y] \in Nat
    BY <1>1, LocalAssumption DEF Collection
  <2>2. CASE ReapOrder[y] = ReapOrder[k] /\ y \in Nested
    <3>1. y \in Collection
      BY <1>1, <2>2 DEF Collection
    <3>2. k \in Nested
      BY <2>2, <3>1 DEF NextItem
    <3> QED BY <2>1, <3>2 DEF ReapedBefore
  <2> QED BY <2>1, <2>2 DEF ReapedBefore
<1>5. ASSUME NEW x \in ledger' \ reap'.todo PROVE Explained(x)'
  <2>1. CASE x = k
    BY <2>1
  <2>2. CASE x # k
    <3>1. x \in ledger \ reap.todo /\ x \in Leftovers /\ x \in Things /\ x # "main"
      BY <1>1, <1>2, <2>2, InsideIs, SharedIs
    <3>2. Explained(x) /\ ~ReapedBefore(k, x)
      BY <1>1, <3>1 DEF ReapInv
    <3>3. (Up(x)' => Up(x)) /\ inTheWay'[x] = inTheWay[x]
      BY <1>3, <2>2, <3>1 DEF Up
    <3>4. \A y \in Things : Up(y) => Up(y)' \/ ({x, y} \subseteq ledger /\ ~ReapedBefore(y, x))
      BY <1>1, <1>3, <3>1, <3>2 DEF Up
    <3> QED BY <3>1, <3>2, <3>3, <3>4, ExplainedKept
  <2> QED BY <2>1, <2>2
<1>6. \A x \in ledger' \ reap'.todo, y \in reap'.todo : ~ReapedBefore(y, x)
  BY <1>2, <1>4 DEF ReapInv
<1>7. ASSUME NEW y \in ledger', life'[y] = "deleting", reap'.todo # {}
      PROVE  y \in outlasted' \/ y \in reap'.pending
  <2>1. y \in Things /\ reap.todo # {}
    BY <1>1, <1>2, InsideIs
  <2>2. CASE life[y] = "deleting"
    <3>1. \/ y \in outlasted \/ y \in reap.pending
          \/ reap.at = "again" /\ \E v \in reap.vpc : v \in Inside(y)
      BY <2>1, <2>2 DEF ReapInv
    <3> QED BY <3>1, <1>2, <2>2
  <2>3. CASE life[y] # "deleting"
    <3>1. y = k /\ taken = {k}
      BY <2>1, <2>3, <1>3, <1>7
    <3> QED BY <3>1, <1>2
  <2> QED BY <2>2, <2>3
<1>8. ASSUME reap'.at # "barrier", reap'.todo # {}, NEW y \in reap'.pending, NEW j \in reap'.todo,
             \A i \in reap'.todo : ReapOrder[j] <= ReapOrder[i]
      PROVE  ReapOrder[j] <= ReapOrder[y]
  <2>1. ReapOrder \in [Leftovers -> Nat] /\ y \in Leftovers /\ j \in Leftovers
    BY <1>1, <1>2, LocalAssumption
  <2>2. \A i \in reap.todo : ReapOrder[k] <= ReapOrder[i]
    BY <1>1 DEF Collection
  <2>3. reap.todo \ {k} # {} /\ Later = reap.todo \ Collection
    BY <1>2, <1>8 DEF Later
  <2>4. Collection # {k}
    BY <1>2, <1>8, <2>3
  <2>5. PICK i \in Collection : i # k
    BY <1>1, <2>4
  <2>6. i \in reap'.todo /\ ReapOrder[i] <= ReapOrder[k] /\ i \in Leftovers /\ k \in Leftovers
    BY <1>1, <1>2, <2>5 DEF Collection
  <2>7. ReapOrder[k] <= ReapOrder[y]
    <3>1. CASE y \in reap.pending
      BY <1>1, <3>1 DEF ReapInv
    <3>2. CASE y = k
      BY <2>1, <3>2
    <3> QED BY <1>2, <3>1, <3>2
  <2>8. ReapOrder[j] <= ReapOrder[i]
    BY <1>8, <2>6
  <2>9. \A a, b, c, d \in Nat : a <= b /\ b <= c /\ c <= d => a <= d
    OBVIOUS
  <2> QED BY <2>1, <2>6, <2>7, <2>8, <2>9
<1>9. (reap.at # "barrier" /\ reap.todo # {} =>
         \A y \in reap.pending, j \in Collection : ReapOrder[j] <= ReapOrder[y])'
  BY <1>8 DEF Collection
<1>10. ReapInv'
  BY <1>5, <1>6, <1>7, <1>9 DEF ReapInv, ReapedBefore
<1> QED BY <1>2, <1>10

\* While k is the next item, what is inside and on its way out has been waited for, if
\* its collection was to be gone before.
LEMMA AwaitedInTime ==
  ASSUME LocalInv, NEW k \in NextItem, NEW y \in ThingsIn(k),
         life[y] = "deleting", ids' = ids, ledger' = ledger, issued' = issued,
         reap.at \in {"items", "again"}, AwaitedBefore(y, k)'
  PROVE  y \in outlasted \/ (reap.at = "again" /\ \E v \in reap.vpc : v \in Inside(y))
<1> USE DEF LocalInv
<1>1. k \in Collection /\ k \in reap.todo /\ k \in Leftovers /\ k # "main"
  BY InsideIs, SharedIs DEF NextItem, Collection, LocalTypes
<1>2. y \in ledger /\ ReapOrder[y] < ReapOrder[k]
  BY <1>1 DEF AwaitedBefore
<1>3. \/ y \in outlasted \/ y \in reap.pending
      \/ reap.at = "again" /\ \E v \in reap.vpc : v \in Inside(y)
  BY <1>1, <1>2 DEF ReapInv
<1>4. y \notin reap.pending
  <2>1. ReapOrder[y] \in Nat /\ ReapOrder[k] \in Nat
    BY <1>1, <1>2, LocalAssumption DEF LocalTypes
  <2>2. y \in reap.pending => ReapOrder[k] <= ReapOrder[y]
    BY <1>1 DEF ReapInv
  <2> QED BY <1>2, <2>1, <2>2
<1> QED BY <1>3, <1>4

\* The rest of the invariant, when the reap goes on.
LEMMA ReapsOn ==
  ASSUME LocalInv, run.at = "reap", run' = run, ids' = ids, toMake' = toMake, ledger' = ledger,
         issued' = issued, chain' = chain, life' \in [Things -> Lives],
         reap' \in [todo : SUBSET ledger, pending : SUBSET Leftovers, vpc : SUBSET LeftVpcs,
                    at : {"items", "holders", "again", "barrier"}],
         \A x \in Things : inTheWay'[x] = inTheWay[x] \/ inTheWay'[x] = Holding(x),
         DOMAIN inTheWay' = Things, inTheWay' = [x \in Things |-> inTheWay'[x]],
         \/ reap'.vpc = {} /\ reap'.at \in {"items", "barrier"}
         \/ /\ reap'.at \in {"holders", "again"} /\ reap'.todo = reap.todo
            /\ \E k \in NextItem : reap'.vpc = {k}
  PROVE  LocalTypes' /\ MainInv' /\ InTheWayInv' /\ PhaseInv' /\ TearInv'
<1> USE DEF LocalInv
<1>1. \A x \in Things : Holding(x) \in SUBSET [what : Things, up : BOOLEAN]
  <2> SUFFICES ASSUME NEW x \in Things, NEW h \in Holding(x)
               PROVE  h \in [what : Things, up : BOOLEAN]
    OBVIOUS
  <2>1. PICK y \in ThingsIn(x) : h = [what |-> y, up |-> Up(y)]
    BY DEF Holding
  <2>2. y \in Things /\ Up(y) \in BOOLEAN
    BY DEF ThingsIn, Up
  <2> QED BY <2>1, <2>2
<1>2. inTheWay' \in [Things -> SUBSET [what : Things, up : BOOLEAN]]
  BY <1>1 DEF LocalTypes
<1>3. LocalTypes'
  BY <1>2 DEF LocalTypes
<1>4. MainInv'
  BY DEF MainInv, RunAt
<1>5. InTheWayInv'
  <2> SUFFICES ASSUME NEW x \in Things, NEW h \in inTheWay'[x] PROVE x \in Inside(h.what)
    BY DEF InTheWayInv
  <2>1. CASE inTheWay'[x] = inTheWay[x]
    BY <2>1 DEF InTheWayInv
  <2>2. CASE inTheWay'[x] = Holding(x)
    <3>1. PICK y \in ThingsIn(x) : h = [what |-> y, up |-> Up(y)]
      BY <2>2 DEF Holding
    <3> QED BY <3>1 DEF ThingsIn
  <2> QED BY <2>1, <2>2
<1>6. PhaseInv'
  <2>1. \A k \in reap'.vpc :
          reap'.at \in {"holders", "again"} /\ k \in NextItem' /\ reap'.vpc = {k}
    BY DEF NextItem, Collection
  <2> QED BY <2>1 DEF PhaseInv, PastReap
<1>7. TearInv'
  BY TearLater DEF TearInv, PastReap
<1> QED BY <1>3, <1>4, <1>5, <1>6, <1>7

\* What was explained stays so, as far as only what is in other resources is deleted.
LEMMA OthersKept ==
  ASSUME LocalInv, NEW x \in ledger \ reap.todo,
         ids' = ids, ledger' = ledger, inTheWay'[x] = inTheWay[x],
         failed \subseteq failed', outlasted \subseteq outlasted', Up(x)' => Up(x),
         \A y \in Things : x \in Inside(y) /\ Up(y) => Up(y)'
  PROVE  Explained(x)'
<1>1. x \in Things /\ x # "main"
  BY InsideIs, SharedIs DEF LocalInv, LocalTypes
<1>2. Explained(x) /\ LocalTypes /\ InTheWayInv
  BY DEF LocalInv, ReapInv
<1> QED BY <1>1, <1>2, ExplainedKept

\* An item is dealt with, or the holders of a VPC are next.
LEMMA ReapItemInv ==
  ASSUME NEW k \in Leftovers
  PROVE  LocalInv /\ ReapItem(k) => LocalInv'
<1> SUFFICES ASSUME LocalInv, ReapItem(k) PROVE LocalInv'
  OBVIOUS
<1> USE DEF LocalInv
<1>1. /\ run.at = "reap" /\ reap.at = "items" /\ k \in NextItem
      /\ run' = run /\ ids' = ids /\ toMake' = toMake /\ ledger' = ledger
      /\ issued' = issued /\ chain' = chain /\ outlasted' = outlasted
  BY DEF ReapItem, RunAt, provisioning, tearing
<1>2. k \in Things /\ k \in ledger /\ k \in reap.todo
  BY <1>1, InsideIs DEF NextItem, Collection, LocalTypes
<1>3. life \in [Things -> Lives] /\ inTheWay \in [Things -> SUBSET [what : Things, up : BOOLEAN]]
  BY DEF LocalTypes
<1>4. ASSUME NEW taken \in SUBSET {k}, AfterItem(k, taken), failed \subseteq failed',
             life' = life \/ (life' = [life EXCEPT ![k] = "deleting"] /\ taken = {k}),
             inTheWay' = inTheWay \/ inTheWay' = [inTheWay EXCEPT ![k] = Holding(k)],
             Explained(k)'
      PROVE  LocalInv'
  <2>1. \A x \in Leftovers : x # k => inTheWay'[x] = inTheWay[x]
    BY <1>3, <1>4, InsideIs
  <2>2. ReapInv' /\ reap' \in [todo : SUBSET ledger, pending : SUBSET Leftovers,
                               vpc : {{}}, at : {"items", "barrier"}]
    BY <1>1, <1>4, <2>1, ReapSettles
  <2>3. life' \in [Things -> Lives]
    BY <1>3, <1>4 DEF Lives
  <2>4. /\ \A x \in Things : inTheWay'[x] = inTheWay[x] \/ inTheWay'[x] = Holding(x)
        /\ DOMAIN inTheWay' = Things /\ inTheWay' = [x \in Things |-> inTheWay'[x]]
    BY <1>3, <1>4
  <2>5. LocalTypes' /\ MainInv' /\ InTheWayInv' /\ PhaseInv' /\ TearInv'
    BY <1>1, <2>2, <2>3, <2>4, ReapsOn
  <2> QED BY <2>2, <2>5
<1>5. CASE GoesWrong(k) /\ AfterItem(k, {}) /\ UNCHANGED <<life, inTheWay>>
  <2>1. Explained(k)' /\ failed \subseteq failed'
    BY <1>5 DEF GoesWrong, Explained, Stays
  <2> QED BY <1>4, <1>5, <2>1
<1>6. CASE ~InAccount(k) /\ AfterItem(k, {}) /\ UNCHANGED <<life, failed, inTheWay>>
  <2>1. Explained(k)' /\ failed \subseteq failed'
    BY <1>6 DEF InAccount, Explained, Stays, Up
  <2> QED BY <1>4, <1>6, <2>1
<1>7. CASE InAccount(k) /\ Accepts(k) /\ AfterItem(k, {k}) /\ UNCHANGED <<failed, inTheWay>>
  <2>1. life' = [life EXCEPT ![k] = "deleting"]
    BY <1>7 DEF Accepts
  <2>2. Explained(k)' /\ failed \subseteq failed'
    BY <1>2, <1>3, <1>7, <2>1 DEF Explained, Stays, Up
  <2> QED BY <1>4, <1>7, <2>1, <2>2
<1>8. ASSUME Refuses(k), UNCHANGED <<life, failed>>
      PROVE  /\ inTheWay' = [inTheWay EXCEPT ![k] = Holding(k)]
             /\ Explained(k)'
  <2>1. inTheWay' = [inTheWay EXCEPT ![k] = Holding(k)] /\ ThingsIn(k) # {}
    BY <1>8 DEF Refuses
  <2>2. inTheWay'[k] = Holding(k)
    BY <1>2, <1>3, <2>1
  <2>3. \A y \in ThingsIn(k) : life[y] = "deleting" /\ AwaitedBefore(y, k)' => y \in outlasted'
    BY <1>1, AwaitedInTime
  <2>4. \A y \in ThingsIn(k) : Up(y) => Up(y)'
    BY <1>8 DEF Up
  <2> QED BY <1>2, <1>3, <2>1, <2>2, <2>3, <2>4, RefusedExplained
<1>9. CASE Refuses(k) /\ k \notin LeftVpcs /\ AfterItem(k, {}) /\ UNCHANGED <<life, failed>>
  BY <1>4, <1>8, <1>9
<1>10. CASE /\ Refuses(k) /\ k \in LeftVpcs /\ reap' = [reap EXCEPT !.at = "holders", !.vpc = {k}]
            /\ UNCHANGED <<life, failed>>
  <2>1. inTheWay' = [inTheWay EXCEPT ![k] = Holding(k)]
    BY <1>8, <1>10
  <2>2. /\ reap'.todo = reap.todo /\ reap'.pending = reap.pending /\ reap'.at = "holders"
        /\ reap'.vpc = {k}
        /\ reap' \in [todo : SUBSET ledger, pending : SUBSET Leftovers, vpc : SUBSET LeftVpcs,
                      at : {"items", "holders", "again", "barrier"}]
    BY <1>10 DEF LocalTypes
  <2>3. /\ \A x \in Things : inTheWay'[x] = inTheWay[x] \/ inTheWay'[x] = Holding(x)
        /\ DOMAIN inTheWay' = Things /\ inTheWay' = [x \in Things |-> inTheWay'[x]]
    BY <1>3, <2>1
  <2>4. LocalTypes' /\ MainInv' /\ InTheWayInv' /\ PhaseInv' /\ TearInv'
    BY <1>1, <1>3, <1>10, <2>2, <2>3, ReapsOn
  <2>5. ASSUME NEW x \in ledger \ reap.todo PROVE Explained(x)'
    <3>1. x # k /\ x \in Things
      BY <1>2, <2>5, InsideIs DEF LocalTypes
    <3>2. inTheWay'[x] = inTheWay[x]
      BY <1>3, <2>1, <3>1
    <3>3. (Up(x)' => Up(x)) /\ \A y \in Things : x \in Inside(y) /\ Up(y) => Up(y)'
      BY <1>10 DEF Up
    <3> QED BY <1>1, <1>10, <3>2, <3>3, OthersKept
  <2>6. \A x \in ledger' \ reap'.todo, y \in reap'.todo : ~ReapedBefore(y, x)
    BY <1>1, <2>2 DEF ReapInv
  <2>7. \A y \in ledger' : life'[y] = "deleting" /\ reap'.todo # {} =>
          y \in outlasted' \/ y \in reap'.pending
    BY <1>1, <1>10, <2>2 DEF ReapInv
  <2>8. (reap.at # "barrier" /\ reap.todo # {} =>
           \A y \in reap.pending, j \in Collection : ReapOrder[j] <= ReapOrder[y])'
    BY <1>1, <2>2 DEF ReapInv, Collection
  <2>9. ReapInv'
    BY <1>1, <2>2, <2>5, <2>6, <2>7, <2>8 DEF ReapInv, ReapedBefore
  <2> QED BY <2>4, <2>9
<1>11. \/ GoesWrong(k) /\ AfterItem(k, {}) /\ UNCHANGED <<life, inTheWay>>
       \/ ~InAccount(k) /\ AfterItem(k, {}) /\ UNCHANGED <<life, failed, inTheWay>>
       \/ InAccount(k) /\ Accepts(k) /\ AfterItem(k, {k}) /\ UNCHANGED <<failed, inTheWay>>
       \/ Refuses(k) /\ k \notin LeftVpcs /\ AfterItem(k, {}) /\ UNCHANGED <<life, failed>>
       \/ /\ Refuses(k) /\ k \in LeftVpcs /\ reap' = [reap EXCEPT !.at = "holders", !.vpc = {k}]
          /\ UNCHANGED <<life, failed>>
  BY DEF ReapItem
<1> QED BY <1>5, <1>6, <1>7, <1>9, <1>10, <1>11

\* The subnets in k are in nothing else, so that none of what is explained loses a holder.
LEMMA ReapHoldersInv ==
  ASSUME NEW k \in Leftovers
  PROVE  LocalInv /\ ReapHolders(k) => LocalInv'
<1> SUFFICES ASSUME LocalInv, ReapHolders(k) PROVE LocalInv'
  OBVIOUS
<1> USE DEF LocalInv
<1>1. /\ run.at = "reap" /\ reap.at = "holders" /\ k \in reap.vpc
      /\ run' = run /\ ids' = ids /\ toMake' = toMake /\ ledger' = ledger
      /\ issued' = issued /\ chain' = chain /\ outlasted' = outlasted
      /\ failed' = failed /\ inTheWay' = inTheWay
  BY DEF ReapHolders, RunAt, provisioning, tearing, history
<1>2. k \in NextItem /\ reap.vpc = {k} /\ k \in reap.todo
  BY <1>1 DEF PhaseInv, NextItem, Collection
<1>3. /\ reap'.todo = reap.todo /\ reap'.pending = reap.pending /\ reap'.at = "again"
      /\ reap'.vpc = {k}
      /\ reap' \in [todo : SUBSET ledger, pending : SUBSET Leftovers, vpc : SUBSET LeftVpcs,
                    at : {"items", "holders", "again", "barrier"}]
  BY <1>2 DEF LocalTypes, ReapHolders
<1>4. \A y \in Things : life'[y] = IF y \in ThingsIn(k) \cap LeftSubnets /\ ThingsIn(y) = {}
                                   THEN "deleting" ELSE life[y]
  BY DEF ReapHolders
<1>5. life' \in [Things -> Lives]
  BY DEF LocalTypes, ReapHolders, Lives
<1>6. \A y \in ThingsIn(k) \cap LeftSubnets : Inside(y) = {k}
  <2>1. \A y \in ThingsIn(k) \cap LeftSubnets : k \in InsideOf[y] /\ Inside(y) = InsideOf[y]
    BY LocalAssumption, InsideIs DEF ThingsIn
  <2> QED BY <2>1, LocalAssumption
<1>7. LocalTypes' /\ MainInv' /\ InTheWayInv' /\ PhaseInv' /\ TearInv'
  <2>1. /\ \A x \in Things : inTheWay'[x] = inTheWay[x] \/ inTheWay'[x] = Holding(x)
        /\ DOMAIN inTheWay' = Things /\ inTheWay' = [x \in Things |-> inTheWay'[x]]
    BY <1>1 DEF LocalTypes
  <2> QED BY <1>1, <1>2, <1>3, <1>5, <2>1, ReapsOn
<1>8. ASSUME NEW x \in ledger \ reap.todo PROVE Explained(x)'
  <2>1. x # k /\ x \in Things
    BY <1>2, <1>8, InsideIs DEF LocalTypes
  <2>2. Up(x)' => Up(x)
    BY <1>4, <2>1 DEF Up
  <2>3. \A y \in Things : x \in Inside(y) /\ Up(y) => Up(y)'
    BY <1>4, <1>6, <2>1 DEF Up
  <2> QED BY <1>1, <2>2, <2>3, OthersKept
<1>9. \A x \in ledger' \ reap'.todo, y \in reap'.todo : ~ReapedBefore(y, x)
  BY <1>1, <1>3 DEF ReapInv
<1>10. ASSUME NEW y \in ledger', life'[y] = "deleting", reap'.todo # {}
       PROVE  y \in outlasted' \/ y \in reap'.pending \/ k \in Inside(y)
  <2>1. y \in Things
    BY <1>1, InsideIs DEF LocalTypes
  <2>2. CASE life[y] = "deleting"
    BY <1>1, <1>3, <1>10, <2>2 DEF ReapInv
  <2>3. CASE life[y] # "deleting"
    BY <1>4, <1>10, <2>1, <2>3 DEF ThingsIn
  <2> QED BY <2>2, <2>3
<1>11. (reap.at # "barrier" /\ reap.todo # {} =>
          \A y \in reap.pending, j \in Collection : ReapOrder[j] <= ReapOrder[y])'
  BY <1>1, <1>3 DEF ReapInv, Collection
<1>12. ReapInv'
  BY <1>1, <1>3, <1>8, <1>9, <1>10, <1>11 DEF ReapInv, ReapedBefore
<1> QED BY <1>7, <1>12

\* The wait for the subnets is over, and the VPC tried once more.
LEMMA ReapAgainInv ==
  ASSUME NEW k \in Leftovers
  PROVE  LocalInv /\ ReapAgain(k) => LocalInv'
<1> SUFFICES ASSUME LocalInv, ReapAgain(k) PROVE LocalInv'
  OBVIOUS
<1> USE DEF LocalInv
<1>1. /\ run.at = "reap" /\ reap.at = "again" /\ k \in reap.vpc
      /\ run' = run /\ ids' = ids /\ toMake' = toMake /\ ledger' = ledger
      /\ issued' = issued /\ chain' = chain /\ failed' = failed
      /\ outlasted' = outlasted \cup {x \in ThingsIn(k) : life[x] = "deleting"}
  BY DEF ReapAgain, RunAt, provisioning, tearing
<1>2. k \in NextItem /\ reap.vpc = {k} /\ k \in Things
  BY <1>1, InsideIs DEF PhaseInv
<1>3. life \in [Things -> Lives] /\ inTheWay \in [Things -> SUBSET [what : Things, up : BOOLEAN]]
  BY DEF LocalTypes
<1>4. \A y \in ledger : life[y] = "deleting" /\ (\E v \in reap.vpc : v \in Inside(y)) =>
        y \in outlasted'
  <2>1. ledger \subseteq Things
    BY InsideIs DEF LocalTypes
  <2> QED BY <1>1, <1>2, <2>1 DEF ThingsIn, InAccount
<1>5. ASSUME NEW taken \in SUBSET {k}, AfterItem(k, taken),
             life' = life \/ (life' = [life EXCEPT ![k] = "deleting"] /\ taken = {k}),
             inTheWay' = inTheWay \/ inTheWay' = [inTheWay EXCEPT ![k] = Holding(k)],
             Explained(k)'
      PROVE  LocalInv'
  <2>1. \A x \in Leftovers : x # k => inTheWay'[x] = inTheWay[x]
    BY <1>3, <1>5, InsideIs
  <2>2. ReapInv' /\ reap' \in [todo : SUBSET ledger, pending : SUBSET Leftovers,
                               vpc : {{}}, at : {"items", "barrier"}]
    BY <1>1, <1>2, <1>4, <1>5, <2>1, ReapSettles
  <2>3. life' \in [Things -> Lives]
    BY <1>3, <1>5 DEF Lives
  <2>4. /\ \A x \in Things : inTheWay'[x] = inTheWay[x] \/ inTheWay'[x] = Holding(x)
        /\ DOMAIN inTheWay' = Things /\ inTheWay' = [x \in Things |-> inTheWay'[x]]
    BY <1>3, <1>5
  <2>5. LocalTypes' /\ MainInv' /\ InTheWayInv' /\ PhaseInv' /\ TearInv'
    BY <1>1, <2>2, <2>3, <2>4, ReapsOn
  <2> QED BY <2>2, <2>5
<1>6. CASE Accepts(k) /\ AfterItem(k, {k}) /\ UNCHANGED inTheWay
  <2>1. life' = life \/ life' = [life EXCEPT ![k] = "deleting"]
    BY <1>3, <1>6 DEF Accepts
  <2>2. life'[k] # "up"
    BY <1>2, <1>3, <1>6 DEF Accepts, InAccount
  <2>3. Explained(k)'
    BY <2>2 DEF Explained, Stays, Up
  <2> QED BY <1>5, <1>6, <2>1, <2>3
<1>7. CASE Refuses(k) /\ AfterItem(k, {}) /\ UNCHANGED life
  <2>1. inTheWay' = [inTheWay EXCEPT ![k] = Holding(k)] /\ ThingsIn(k) # {}
    BY <1>7 DEF Refuses
  <2>2. inTheWay'[k] = Holding(k)
    BY <1>2, <1>3, <2>1
  <2>3. \A y \in ThingsIn(k) : life[y] = "deleting" /\ AwaitedBefore(y, k)' => y \in outlasted'
    BY <1>1
  <2>4. \A y \in ThingsIn(k) : Up(y) => Up(y)'
    BY <1>7 DEF Up
  <2>5. Explained(k)'
    BY <1>2, <1>3, <2>1, <2>2, <2>3, <2>4, RefusedExplained
  <2> QED BY <1>5, <1>7, <2>1, <2>5
<1> QED BY <1>6, <1>7 DEF ReapAgain

\* The reap breaks off, or goes on after the wait for a collection.
LEMMA ReapEndsInv ==
  LocalInv /\ (ReapRaises \/ BarrierEnds) => LocalInv'
<1> SUFFICES ASSUME LocalInv, ReapRaises \/ BarrierEnds PROVE LocalInv'
  OBVIOUS
<1> USE DEF LocalInv
<1>1. /\ run.at = "reap"
      /\ run' = run /\ ids' = ids /\ toMake' = toMake /\ ledger' = ledger /\ life' = life
      /\ issued' = issued /\ chain' = chain /\ inTheWay' = inTheWay
      /\ failed \subseteq failed' /\ outlasted \subseteq outlasted'
  BY DEF ReapRaises, BarrierEnds, RunAt, provisioning, tearing
<1>2. /\ reap'.pending = {} /\ reap'.at = "items" /\ reap'.vpc = {}
      /\ reap' \in [todo : SUBSET ledger, pending : SUBSET Leftovers, vpc : SUBSET LeftVpcs,
                    at : {"items", "holders", "again", "barrier"}]
  <2>1. CASE ReapRaises
    BY <2>1 DEF ReapRaises
  <2>2. CASE BarrierEnds
    <3>1. reap.at = "barrier" /\ reap' = [reap EXCEPT !.at = "items", !.pending = {}]
      BY <2>2 DEF BarrierEnds
    <3>2. reap.vpc = {}
      BY <3>1 DEF PhaseInv
    <3> QED BY <3>1, <3>2 DEF LocalTypes
  <2> QED BY <2>1, <2>2
<1>3. LocalTypes' /\ MainInv' /\ InTheWayInv' /\ PhaseInv' /\ TearInv'
  <2>1. /\ \A x \in Things : inTheWay'[x] = inTheWay[x] \/ inTheWay'[x] = Holding(x)
        /\ DOMAIN inTheWay' = Things /\ inTheWay' = [x \in Things |-> inTheWay'[x]]
    BY <1>1 DEF LocalTypes
  <2>2. life' \in [Things -> Lives]
    BY <1>1 DEF LocalTypes
  <2> QED BY <1>1, <1>2, <2>1, <2>2, ReapsOn
<1>4. ASSUME NEW x \in ledger \ reap.todo PROVE Explained(x)'
  BY <1>1, OthersKept DEF Up
<1>5. CASE ReapRaises
  <2>1. reap'.todo = {} /\ failed' = failed \cup reap.todo
    BY <1>5 DEF ReapRaises
  <2>2. \A x \in reap.todo : Explained(x)'
    BY <2>1 DEF Explained, Stays
  <2>3. ReapInv'
    BY <1>1, <1>4, <2>1, <2>2 DEF ReapInv
  <2> QED BY <1>3, <2>3
<1>6. CASE BarrierEnds
  <2>1. /\ reap'.todo = reap.todo /\ reap.at = "barrier"
        /\ outlasted' = outlasted \cup {x \in reap.pending : InAccount(x)}
    BY <1>6 DEF BarrierEnds, LocalTypes
  <2>2. \A x \in ledger' \ reap'.todo, y \in reap'.todo : ~ReapedBefore(y, x)
    BY <1>1, <2>1 DEF ReapInv
  <2>3. \A y \in ledger' : life'[y] = "deleting" /\ reap'.todo # {} => y \in outlasted'
    BY <1>1, <2>1 DEF ReapInv, InAccount
  <2>4. ReapInv'
    BY <1>1, <1>2, <1>4, <2>1, <2>2, <2>3 DEF ReapInv, ReapedBefore
  <2> QED BY <1>3, <2>4
<1> QED BY <1>5, <1>6

-----------------------------------------------------------------------------
(* The teardown, and the end *)

LEMMA TeardownBeginsInv ==
  LocalInv /\ TeardownBegins => LocalInv'
<1> SUFFICES ASSUME LocalInv, TeardownBegins PROVE LocalInv'
  OBVIOUS
<1> USE DEF LocalInv
<1>1. /\ run.at = "reap" /\ reap.todo = {} /\ reap.at = "items"
      /\ ids' = ids /\ toMake' = toMake /\ ledger' = ledger /\ life' = life /\ reap' = reap
      /\ issued' = issued /\ failed' = failed /\ inTheWay' = inTheWay /\ outlasted' = outlasted
  BY DEF TeardownBegins, Reaped, RunAt, provisioning, history
<1>2. run' = [run EXCEPT !.at = "teardown"] \/ run' = [run EXCEPT !.at = "sweep"]
  BY DEF TeardownBegins, RunTo
<1>3. /\ run' \in [leaves : SUBSET Leftovers, destructive : BOOLEAN, tracked : BOOLEAN,
                   at : {"provision", "tests", "skipped", "reap"} \cup PastReap]
      /\ run'.at \in PastReap /\ run'.destructive = run.destructive
  BY <1>2 DEF LocalTypes, PastReap
<1>4. issued = {}
  BY <1>1 DEF TearInv, PastReap
<1>5. DOMAIN chain' = Chains /\ \A c \in Chains : chain'[c] \in [at : ChainPlaces(c), tries : Nat]
  BY DEF TeardownBegins, LocalTypes, NoChain, ChainPlaces, Chains
<1>6. LocalTypes'
  BY <1>1, <1>3, <1>5 DEF LocalTypes
<1>7. MainInv'
  BY <1>1, <1>3 DEF MainInv, RunAt, PastReap
<1>8. InTheWayInv'
  BY <1>1 DEF InTheWayInv
<1>9. PhaseInv'
  <2>1. reap.vpc = {}
    BY <1>1 DEF PhaseInv
  <2> QED BY <1>1, <1>3, <2>1 DEF PhaseInv, PastReap
<1>10. ReapInv'
  BY <1>1, ReapKept DEF Up
<1>11. TearInv'
  <2>1. CASE run.destructive /\ "main" \in ids
    <3>1. run'.at = "teardown"
      BY <2>1 DEF TeardownBegins, RunTo, LocalTypes
    <3>2. \A c \in Chains :
            /\ c \in ids => chain'[c].at = IF c = "main" THEN "subnets" ELSE
                                           IF c = "tgw" THEN "settle" ELSE c
            /\ c \notin ids => chain'[c].at = "end"
      BY <2>1 DEF TeardownBegins, NoChain
    <3>3. ids' \cap Behind' = {}
      BY <1>1, <2>1, <3>2 DEF Behind, Chains
    <3>4. chain'["main"].at = "subnets"
      BY <2>1, <3>2 DEF Chains
    <3> QED BY <1>3, <3>1, <3>3, <3>4 DEF TearInv
  <2>2. CASE ~(run.destructive /\ "main" \in ids)
    BY <1>1, <1>3, <2>2 DEF TearInv, TeardownRan
  <2> QED BY <2>1, <2>2
<1> QED BY <1>6, <1>7, <1>8, <1>9, <1>10, <1>11

\* All but what is said of the teardown itself, when it goes on.
LEMMA TearsOn ==
  ASSUME LocalInv, run.at = "teardown", run' = run, ids' = ids, toMake' = toMake,
         ledger' = ledger, reap' = reap, life' \in [Things -> Lives],
         \A x \in Leftovers : life'[x] = life[x] /\ inTheWay'[x] = inTheWay[x],
         issued' \subseteq Subnets, failed \subseteq failed', outlasted \subseteq outlasted',
         DOMAIN inTheWay' = Things, inTheWay' = [x \in Things |-> inTheWay'[x]],
         \A x \in Things : inTheWay'[x] = inTheWay[x] \/ inTheWay'[x] = Holding(x),
         DOMAIN chain' = Chains,
         \A c \in Chains : chain'[c] \in [at : ChainPlaces(c), tries : Nat]
  PROVE  LocalTypes' /\ MainInv' /\ InTheWayInv' /\ PhaseInv' /\ ReapInv'
<1> USE DEF LocalInv
<1>1. \A x \in Things : Holding(x) \in SUBSET [what : Things, up : BOOLEAN]
  <2> SUFFICES ASSUME NEW x \in Things, NEW h \in Holding(x)
               PROVE  h \in [what : Things, up : BOOLEAN]
    OBVIOUS
  <2>1. PICK y \in ThingsIn(x) : h = [what |-> y, up |-> Up(y)]
    BY DEF Holding
  <2>2. y \in Things /\ Up(y) \in BOOLEAN
    BY DEF ThingsIn, Up
  <2> QED BY <2>1, <2>2
<1>2. inTheWay' \in [Things -> SUBSET [what : Things, up : BOOLEAN]]
  BY <1>1 DEF LocalTypes
<1>3. LocalTypes'
  BY <1>2 DEF LocalTypes
<1>4. MainInv'
  BY DEF MainInv, RunAt
<1>5. InTheWayInv'
  <2> SUFFICES ASSUME NEW x \in Things, NEW h \in inTheWay'[x] PROVE x \in Inside(h.what)
    BY DEF InTheWayInv
  <2>1. CASE inTheWay'[x] = inTheWay[x]
    BY <2>1 DEF InTheWayInv
  <2>2. CASE inTheWay'[x] = Holding(x)
    <3>1. PICK y \in ThingsIn(x) : h = [what |-> y, up |-> Up(y)]
      BY <2>2 DEF Holding
    <3> QED BY <3>1 DEF ThingsIn
  <2> QED BY <2>1, <2>2
<1>6. PhaseInv'
  BY DEF PhaseInv, NextItem, Collection
<1>7. ReapInv'
  BY ReapKept DEF Up
<1> QED BY <1>3, <1>4, <1>5, <1>6, <1>7

LEMMA DeleteSubnetsInv ==
  LocalInv /\ DeleteSubnets => LocalInv'
<1> SUFFICES ASSUME LocalInv, DeleteSubnets PROVE LocalInv'
  OBVIOUS
<1> USE DEF LocalInv
<1>1. PICK answer \in [Subnets \cap ids -> {"asked", "wrong"}] :
        LET asked == {x \in Subnets \cap ids : answer[x] = "asked"}
            taken == {x \in asked : ThingsIn(x) = {}}
        IN  /\ life' = [x \in Things |->
                          IF x \in taken /\ InAccount(x) THEN "deleting" ELSE life[x]]
            /\ inTheWay' = [x \in Things |->
                              IF x \in asked \ taken THEN Holding(x) ELSE inTheWay[x]]
            /\ failed' = failed \cup ((Subnets \cap ids) \ asked)
            /\ issued' = taken
  BY DEF DeleteSubnets
<1> DEFINE asked == {x \in Subnets \cap ids : answer[x] = "asked"}
           taken == {x \in asked : ThingsIn(x) = {}}
<1>2. /\ life' = [x \in Things |-> IF x \in taken /\ InAccount(x) THEN "deleting" ELSE life[x]]
      /\ inTheWay' = [x \in Things |-> IF x \in asked \ taken THEN Holding(x) ELSE inTheWay[x]]
      /\ failed' = failed \cup ((Subnets \cap ids) \ asked)
      /\ issued' = taken /\ taken \subseteq asked /\ asked \subseteq Subnets \cap ids
  BY <1>1
<1>3. \A x \in asked : (x \in taken <=> ThingsIn(x) = {})
  OBVIOUS
<1> HIDE DEF asked, taken
<1>4. /\ run.at = "teardown" /\ chain["main"].at = "subnets"
      /\ run' = run /\ ids' = ids /\ toMake' = toMake /\ ledger' = ledger
      /\ reap' = reap /\ outlasted' = outlasted
      /\ chain' = [chain EXCEPT !["main"] = [at |-> "wait", tries |-> 0]]
  BY DEF DeleteSubnets, ChainAt, RunAt, ChainTo, provisioning
<1>5. /\ chain'["main"].at = "wait" /\ \A c \in Chains : c # "main" => chain'[c] = chain[c]
      /\ DOMAIN chain' = Chains
      /\ \A c \in Chains : chain'[c] \in [at : ChainPlaces(c), tries : Nat]
  BY <1>4 DEF LocalTypes, ChainPlaces, Chains
<1>6. \A x \in Leftovers : x \in Things /\ x \notin Subnets
  BY InsideIs DEF Subnets, Chains
<1>7. LocalTypes' /\ MainInv' /\ InTheWayInv' /\ PhaseInv' /\ ReapInv'
  <2>1. life' \in [Things -> Lives]
    BY <1>2 DEF LocalTypes, Lives
  <2>2. \A x \in Leftovers : life'[x] = life[x] /\ inTheWay'[x] = inTheWay[x]
    BY <1>2, <1>6
  <2>3. /\ DOMAIN inTheWay' = Things /\ inTheWay' = [x \in Things |-> inTheWay'[x]]
        /\ \A x \in Things : inTheWay'[x] = inTheWay[x] \/ inTheWay'[x] = Holding(x)
    BY <1>2
  <2>4. issued' \subseteq Subnets /\ failed \subseteq failed' /\ outlasted \subseteq outlasted'
    BY <1>2, <1>4
  <2> QED BY <1>4, <1>5, <2>1, <2>2, <2>3, <2>4, TearsOn
<1>8. ASSUME TeardownRan, NEW x \in ids \cap Behind' PROVE Explained(x)'
  <2>1. x \in Things /\ x # "main" /\ x \in SharedItems /\ x \notin Leftovers
    BY <1>5, <1>8, InsideIs DEF Behind, LocalTypes, Subnets, Chains
  <2>2. \A y \in Things : x \in Inside(y) => y \in Leftovers
    BY <2>1, InsideIs DEF Subnets, Chains
  <2>3. \A y \in Things : x \in Inside(y) => life'[y] = life[y]
    BY <2>2, <1>2, <1>6
  <2>4. CASE x \in Subnets /\ x \in taken
    <3>1. life'[x] # "up"
      BY <1>2, <2>1, <2>4 DEF InAccount
    <3> QED BY <3>1 DEF Explained, Stays, Up
  <2>5. CASE x \in Subnets /\ x \notin asked
    <3>1. x \in failed'
      BY <1>2, <1>8, <2>5
    <3> QED BY <3>1 DEF Explained, Stays
  <2>6. CASE x \in asked /\ x \notin taken
    <3>1. ThingsIn(x) # {} /\ inTheWay'[x] = Holding(x)
      BY <1>2, <1>3, <2>1, <2>6
    <3>2. \A y \in ThingsIn(x) : Up(y) => Up(y)'
      BY <2>3 DEF ThingsIn, Up
    <3>3. \A y \in ThingsIn(x) : ~AwaitedBefore(y, x)'
      BY <1>4, <2>1, <1>7 DEF AwaitedBefore, LocalTypes
    <3>4. life \in [Things -> Lives]
      BY DEF LocalTypes
    <3>5. \A y \in ThingsIn(x) : life[y] = "deleting" /\ AwaitedBefore(y, x)' => y \in outlasted'
      BY <3>3
    <3> QED BY <2>1, <3>1, <3>2, <3>4, <3>5, RefusedExplained
  <2>7. CASE x \notin Subnets
    <3>1. x \in Behind
      BY <1>5, <1>8, <2>1, <2>7 DEF Behind
    <3>2. Explained(x)
      BY <1>8, <3>1 DEF TearInv
    <3>3. inTheWay'[x] = inTheWay[x] /\ life'[x] = life[x]
      BY <1>2, <2>1, <2>7
    <3>4. /\ Up(x)' => Up(x)
          /\ \A y \in Things : x \in Inside(y) /\ Up(y) => Up(y)'
      BY <2>3, <3>3 DEF Up
    <3>5. failed \subseteq failed' /\ outlasted \subseteq outlasted'
      BY <1>2, <1>4
    <3> QED BY <1>4, <2>1, <3>2, <3>3, <3>4, <3>5, ExplainedKept
  <2> QED BY <1>2, <2>4, <2>5, <2>6, <2>7
<1>9. TearInv'
  <2>1. TeardownRan' = TeardownRan
    BY <1>4 DEF TeardownRan
  <2>2. (TeardownRan => \A x \in ids \cap Behind : Explained(x))'
    BY <1>4, <1>8, <2>1
  <2>3. run'.at \in PastReap
    BY <1>4 DEF PastReap
  <2> QED BY <1>4, <1>5, <2>2, <2>3 DEF TearInv
<1> QED BY <1>7, <1>9

LEMMA WaitsInv ==
  LocalInv /\ (SubnetsGone \/ TgwSettled) => LocalInv'
<1> SUFFICES ASSUME LocalInv, SubnetsGone \/ TgwSettled PROVE LocalInv'
  OBVIOUS
<1> USE DEF LocalInv
<1>1. /\ run.at = "teardown" /\ run' = run /\ ids' = ids /\ toMake' = toMake
      /\ ledger' = ledger /\ reap' = reap /\ life' = life /\ issued' = issued
      /\ failed' = failed /\ inTheWay' = inTheWay /\ outlasted \subseteq outlasted'
  BY DEF SubnetsGone, TgwSettled, ChainAt, RunAt, provisioning, history
<1>2. \/ /\ chain["main"].at = "wait"
         /\ chain' = [chain EXCEPT !["main"] = [at |-> AfterSubnets, tries |-> 0]]
         /\ outlasted' = outlasted \cup {x \in issued : InAccount(x)}
      \/ /\ chain["tgw"].at = "settle"
         /\ chain' = [chain EXCEPT !["tgw"] = [at |-> "tgw", tries |-> 0]]
         /\ outlasted' = outlasted
  BY DEF SubnetsGone, TgwSettled, ChainAt, ChainTo, history
<1>3. /\ AfterSubnets \in {"igw", "main"}
      /\ AfterSubnets = "main" => "igw" \notin ids
  BY DEF AfterSubnets
<1>4. DOMAIN chain = Chains /\ {"main", "tgw"} \subseteq Chains
  BY DEF LocalTypes, Chains
<1>5. DOMAIN chain' = Chains /\ \A c \in Chains : chain'[c] \in [at : ChainPlaces(c), tries : Nat]
  BY <1>2, <1>3, <1>4 DEF LocalTypes, ChainPlaces
<1>6. \A c \in Chains : (chain'[c].at = "end") <=> (chain[c].at = "end")
  BY <1>2, <1>3, <1>4
<1>7. /\ chain["main"].at # "subnets" <=> chain'["main"].at # "subnets"
      /\ "igw" \in ids =>
           (chain'["main"].at \in {"main", "end"} <=> chain["main"].at \in {"main", "end"})
  BY <1>2, <1>3, <1>4
<1>8. ids' \cap Behind' = ids \cap Behind
  BY <1>1, <1>6, <1>7 DEF Behind
<1>9. LocalTypes' /\ MainInv' /\ InTheWayInv' /\ PhaseInv' /\ ReapInv'
  <2>1. life' \in [Things -> Lives] /\ issued' \subseteq Subnets
    BY <1>1 DEF LocalTypes
  <2>2. DOMAIN inTheWay' = Things /\ inTheWay' = [x \in Things |-> inTheWay'[x]]
    BY <1>1 DEF LocalTypes
  <2> QED BY <1>1, <1>5, <2>1, <2>2, TearsOn
<1>10. ASSUME TeardownRan, NEW x \in ids \cap Behind PROVE Explained(x)'
  <2>1. x \in Things /\ Explained(x)
    BY <1>10, InsideIs DEF TearInv, LocalTypes
  <2> QED BY <1>1, <2>1, ExplainedKept DEF Up
<1>11. TeardownRan' = TeardownRan /\ run'.at \in PastReap
  BY <1>1 DEF TeardownRan, PastReap
<1>12. (TeardownRan => \A x \in ids \cap Behind : Explained(x))'
  BY <1>8, <1>10, <1>11
<1>13. TeardownRan /\ chain'["main"].at \notin {"subnets", "wait"} =>
         \A y \in issued : life[y] = "deleting" => y \in outlasted'
  BY <1>1, <1>2, <1>4 DEF TearInv, InAccount
<1>14. TearInv'
  BY <1>1, <1>11, <1>12, <1>13 DEF TearInv
<1> QED BY <1>9, <1>14

\* A ladder: when its thread goes on from x, x is explained.
LEMMA LadderInv ==
  ASSUME NEW c \in Chains
  PROVE  LocalInv /\ Ladder(c) => LocalInv'
<1> SUFFICES ASSUME LocalInv, Ladder(c) PROVE LocalInv'
  OBVIOUS
<1> USE DEF LocalInv
<1>0. PICK x \in SharedItems : x = chain[c].at
  BY DEF Ladder
<1>1. /\ run.at = "teardown" /\ x \in SharedItems
      /\ run' = run /\ ids' = ids /\ toMake' = toMake /\ ledger' = ledger
      /\ reap' = reap /\ issued' = issued /\ outlasted' = outlasted
  BY DEF Ladder, RunAt, provisioning
<1>2. \/ Accepts(x) /\ ChainTo(c, Above(x)) /\ UNCHANGED <<failed, inTheWay>>
      \/ GoesWrong(x) /\ ChainTo(c, Above(x)) /\ UNCHANGED <<life, inTheWay>>
      \/ Refuses(x) /\ ChainTo(c, Above(x)) /\ UNCHANGED <<life, failed>>
      \/ /\ Refuses(x) /\ UNCHANGED <<life, failed>>
         /\ chain' = [chain EXCEPT ![c].tries = chain[c].tries + 1]
  BY <1>0 DEF Ladder
<1>3. \/ c = "main" /\ x \in {"igw", "main"}
      \/ c # "main" /\ x = c
  <2>1. x \in ChainPlaces(c)
    BY <1>0 DEF LocalTypes
  <2> QED BY <1>1, <2>1, SharedIs DEF ChainPlaces, Chains
<1>4. chain[c].at = x /\ chain[c].tries \in Nat /\ DOMAIN chain = Chains
  BY <1>0 DEF LocalTypes
<1>5. x \in Things /\ x \notin Leftovers /\ x \notin Subnets
  BY <1>1, <1>3, InsideIs DEF Chains, Subnets
<1>6. /\ life \in [Things -> Lives]
      /\ inTheWay \in [Things -> SUBSET [what : Things, up : BOOLEAN]]
  BY DEF LocalTypes
<1>7. /\ \A y \in Things : y # x => life'[y] = life[y] /\ inTheWay'[y] = inTheWay[y]
      /\ life' \in [Things -> Lives] /\ (Up(x)' => Up(x))
      /\ DOMAIN inTheWay' = Things /\ inTheWay' = [y \in Things |-> inTheWay'[y]]
      /\ \A y \in Things : inTheWay'[y] = inTheWay[y] \/ inTheWay'[y] = Holding(y)
      /\ failed \subseteq failed'
  <2>1. CASE Accepts(x) /\ UNCHANGED <<failed, inTheWay>>
    BY <1>5, <1>6, <2>1 DEF Accepts, InAccount, Lives, Up
  <2>2. CASE GoesWrong(x) /\ UNCHANGED <<life, inTheWay>>
    BY <1>5, <1>6, <2>2 DEF GoesWrong, Up
  <2>3. CASE Refuses(x) /\ UNCHANGED <<life, failed>>
    BY <1>5, <1>6, <2>3 DEF Refuses, Up
  <2> QED BY <1>2, <2>1, <2>2, <2>3
<1>8. \/ /\ chain' = [chain EXCEPT ![c] = [at |-> Above(x), tries |-> 0]]
         /\ \/ Accepts(x) \/ GoesWrong(x)
            \/ Refuses(x) /\ UNCHANGED <<life, failed>>
      \/ chain' = [chain EXCEPT ![c].tries = chain[c].tries + 1]
  BY <1>2 DEF ChainTo
<1>9. /\ \A d \in Chains : d # c => chain'[d] = chain[d]
      /\ DOMAIN chain' = Chains
      /\ chain'[c].at \in {x, Above(x)} /\ chain'[c] \in [at : ChainPlaces(c), tries : Nat]
      /\ chain'[c].at # x =>
           Accepts(x) \/ GoesWrong(x) \/ (Refuses(x) /\ UNCHANGED <<life, failed>>)
  <2>1. Above(x) \in ChainPlaces(c) /\ x \in ChainPlaces(c)
    BY <1>3 DEF Above, ChainPlaces, Chains
  <2>2. chain[c] \in [at : ChainPlaces(c), tries : Nat]
    BY DEF LocalTypes
  <2>3. CASE chain' = [chain EXCEPT ![c] = [at |-> Above(x), tries |-> 0]]
    BY <1>4, <1>8, <2>1, <2>3
  <2>4. CASE chain' = [chain EXCEPT ![c].tries = chain[c].tries + 1]
    <3> DEFINE t == chain[c].tries + 1
    <3>1. t \in Nat /\ chain' = [chain EXCEPT ![c].tries = t]
      BY <1>4, <2>4
    <3> HIDE DEF t
    <3>2. /\ \A d \in Chains : d # c => chain'[d] = chain[d]
          /\ DOMAIN chain' = Chains /\ chain'[c] = [chain[c] EXCEPT !.tries = t]
      BY <1>4, <3>1
    <3>3. chain'[c].at = x /\ chain'[c] \in [at : ChainPlaces(c), tries : Nat]
      BY <1>4, <2>2, <3>1, <3>2
    <3> QED BY <3>2, <3>3
  <2> QED BY <1>8, <2>3, <2>4
<1>10. LocalTypes' /\ MainInv' /\ InTheWayInv' /\ PhaseInv' /\ ReapInv'
  <2>1. \A y \in Leftovers : life'[y] = life[y] /\ inTheWay'[y] = inTheWay[y]
    BY <1>5, <1>7, InsideIs
  <2>2. \A d \in Chains : chain'[d] \in [at : ChainPlaces(d), tries : Nat]
    BY <1>9 DEF LocalTypes
  <2>3. issued' \subseteq Subnets /\ outlasted \subseteq outlasted'
    BY <1>1 DEF LocalTypes
  <2>4. life' \in [Things -> Lives] /\ failed \subseteq failed' /\ DOMAIN inTheWay' = Things
    BY <1>7
  <2>7. inTheWay' = [y \in Things |-> inTheWay'[y]]
    BY <1>7
  <2>5. \A y \in Things : inTheWay'[y] = inTheWay[y] \/ inTheWay'[y] = Holding(y)
    BY <1>7
  <2>6. DOMAIN chain' = Chains
    BY <1>9
  <2> HIDE DEF LocalInv
  <2> QED BY <1>1, <2>1, <2>2, <2>3, <2>4, <2>5, <2>6, <2>7, TearsOn
<1>11. x \notin Behind
  BY <1>3, <1>4, <1>5 DEF Behind, Chains
<1>12. Behind' \subseteq Behind \cup (IF chain'[c].at = x THEN {} ELSE {x})
  BY <1>3, <1>4, <1>9 DEF Behind, Above, Chains
<1>13. ASSUME TeardownRan, NEW z \in ids \cap Behind PROVE Explained(z)'
  <2>1. z \in Things /\ Explained(z) /\ z # x
    BY <1>11, <1>13, InsideIs DEF TearInv, LocalTypes
  <2>2. z \notin Inside(x)
    <3>1. CASE x = "igw"
      <4>1. z # "main"
        BY <1>3, <1>4, <1>13, <3>1, SharedIs DEF Behind, Subnets, Chains
      <4> QED BY <3>1, <4>1, InsideIs
    <3>2. CASE x # "igw"
      BY <1>3, <3>2, InsideIs DEF Chains
    <3> QED BY <3>1, <3>2
  <2>3. /\ inTheWay'[z] = inTheWay[z] /\ (Up(z)' => Up(z))
        /\ \A y \in Things : z \in Inside(y) /\ Up(y) => Up(y)'
    BY <1>7, <2>1, <2>2 DEF Up
  <2>4. LocalTypes /\ InTheWayInv
    OBVIOUS
  <2> QED BY <1>1, <1>7, <2>1, <2>3, <2>4, ExplainedKept
<1>14. ASSUME TeardownRan, chain'[c].at # x PROVE Explained(x)'
  <2>1. CASE Accepts(x)
    <3>1. life'[x] # "up"
      BY <1>5, <1>6, <2>1 DEF Accepts, InAccount
    <3> QED BY <3>1 DEF Explained, Stays, Up
  <2>2. CASE GoesWrong(x)
    BY <2>2 DEF GoesWrong, Explained, Stays
  <2>3. CASE Refuses(x) /\ UNCHANGED <<life, failed>>
    <3>1. ThingsIn(x) # {} /\ inTheWay'[x] = Holding(x)
      BY <1>5, <1>6, <2>3 DEF Refuses
    <3>2. \A y \in ThingsIn(x) : Up(y) => Up(y)'
      BY <2>3 DEF Up
    <3>3. ASSUME NEW y \in ThingsIn(x), life[y] = "deleting", AwaitedBefore(y, x)'
          PROVE  y \in outlasted'
      <4>1. y \in issued /\ x = "main"
        BY <1>1, <1>5, <3>3 DEF AwaitedBefore, LocalTypes
      <4>2. chain["main"].at = "main"
        BY <1>3, <1>4, <4>1 DEF Chains
      <4> QED BY <1>1, <1>14, <3>3, <4>1, <4>2 DEF TearInv
    <3> QED BY <1>5, <1>6, <3>1, <3>2, <3>3, RefusedExplained
  <2> QED BY <1>9, <1>14, <2>1, <2>2, <2>3
<1>15. TeardownRan' = TeardownRan /\ run'.at \in PastReap
  BY <1>1 DEF TeardownRan, PastReap
<1>16. (TeardownRan => \A z \in ids \cap Behind : Explained(z))'
  BY <1>1, <1>12, <1>13, <1>14, <1>15
<1>17. TeardownRan /\ chain'["main"].at \notin {"subnets", "wait"} =>
         \A y \in issued : life'[y] = "deleting" => y \in outlasted
  <2>1. chain'["main"].at \notin {"subnets", "wait"} => chain["main"].at \notin {"subnets", "wait"}
    BY <1>3, <1>4, <1>9 DEF Chains
  <2>2. \A y \in issued : life'[y] = life[y]
    <3>1. issued \subseteq Subnets /\ Subnets \subseteq Things
      BY InsideIs DEF LocalTypes
    <3> QED BY <1>5, <1>7, <3>1
  <2> QED BY <2>1, <2>2 DEF TearInv
<1>18. TearInv'
  BY <1>1, <1>15, <1>16, <1>17 DEF TearInv
<1> QED BY <1>10, <1>18

LEMMA EndsInv ==
  LocalInv /\ (TeardownEnds \/ SweepDecided) => LocalInv'
<1> SUFFICES ASSUME LocalInv, TeardownEnds \/ SweepDecided PROVE LocalInv'
  OBVIOUS
<1> USE DEF LocalInv
<1>1. /\ ids' = ids /\ toMake' = toMake /\ ledger' = ledger /\ life' = life /\ reap' = reap
      /\ issued' = issued /\ chain' = chain
      /\ failed' = failed /\ inTheWay' = inTheWay /\ outlasted' = outlasted
  BY DEF TeardownEnds, SweepDecided, provisioning, tearing, history
<1>2. \/ /\ run.at = "teardown" /\ run' = [run EXCEPT !.at = "sweep"]
         /\ \A c \in Chains : chain[c].at = "end"
      \/ run.at = "sweep" /\ run' = [run EXCEPT !.at = "over"]
  BY DEF TeardownEnds, SweepDecided, RunAt, RunTo
<1>3. /\ run' \in [leaves : SUBSET Leftovers, destructive : BOOLEAN, tracked : BOOLEAN,
                   at : {"provision", "tests", "skipped", "reap"} \cup PastReap]
      /\ run'.at \in PastReap /\ run.at \in PastReap /\ run'.destructive = run.destructive
      /\ run.at \in {"sweep", "over"} \/ \A c \in Chains : chain[c].at = "end"
  BY <1>2 DEF LocalTypes, PastReap
<1>4. LocalTypes'
  BY <1>1, <1>3 DEF LocalTypes
<1>5. MainInv' /\ InTheWayInv'
  BY <1>1, <1>3 DEF MainInv, InTheWayInv, RunAt, PastReap
<1>6. PhaseInv'
  BY <1>1, <1>3 DEF PhaseInv, NextItem, Collection, PastReap
<1>7. ReapInv'
  BY <1>1, ReapKept DEF Up
<1>8. TearInv'
  BY <1>1, <1>3, TearKept DEF Up
<1> QED BY <1>4, <1>5, <1>6, <1>7, <1>8

LEMMA LocalUnchangedInv ==
  LocalInv /\ UNCHANGED localVars => LocalInv'
<1> SUFFICES ASSUME LocalInv, UNCHANGED localVars PROVE LocalInv'
  OBVIOUS
<1> USE DEF LocalInv
<1>1. /\ run' = run /\ ids' = ids /\ toMake' = toMake /\ ledger' = ledger /\ life' = life
      /\ reap' = reap /\ issued' = issued /\ chain' = chain
      /\ failed' = failed /\ inTheWay' = inTheWay /\ outlasted' = outlasted
  BY DEF localVars
<1>2. LocalTypes' /\ MainInv' /\ InTheWayInv' /\ PhaseInv'
  BY <1>1 DEF LocalTypes, MainInv, InTheWayInv, PhaseInv, RunAt, NextItem, Collection
<1>3. ReapInv'
  BY <1>1, ReapKept DEF Up
<1>4. TearInv'
  BY <1>1, TearKept DEF Up
<1> QED BY <1>2, <1>3, <1>4

\* In every step of live_run and of the account, what the run is done with is explained.
THEOREM LocalInduction == LocalSpec => []LocalInv
<1>1. LocalInit => LocalInv
  BY LocalInitInv
<1>2. LocalInv /\ [LocalNext]_localVars => LocalInv'
  <2> SUFFICES ASSUME LocalInv, [LocalNext]_localVars PROVE LocalInv'
    OBVIOUS
  <2>1. ASSUME NEW x \in SharedItems, CreateShared(x) \/ ProvisionRaises(x) PROVE LocalInv'
    BY <2>1, CreateInv
  <2>2. CASE Provisioned \/ RunnerMissing
    BY <2>2, ProvisionedInv
  <2>3. CASE TestsEnd
    BY <2>3, TestsEndInv
  <2>4. ASSUME NEW x \in Things, Vanishes(x) PROVE LocalInv'
    BY <2>4, VanishesInv
  <2>5. ASSUME NEW k \in Leftovers, ReapItem(k) PROVE LocalInv'
    BY <2>5, ReapItemInv
  <2>6. ASSUME NEW k \in Leftovers, ReapHolders(k) PROVE LocalInv'
    BY <2>6, ReapHoldersInv
  <2>7. ASSUME NEW k \in Leftovers, ReapAgain(k) PROVE LocalInv'
    BY <2>7, ReapAgainInv
  <2>8. CASE ReapRaises \/ BarrierEnds
    BY <2>8, ReapEndsInv
  <2>9. CASE TeardownBegins
    BY <2>9, TeardownBeginsInv
  <2>10. CASE DeleteSubnets
    BY <2>10, DeleteSubnetsInv
  <2>11. CASE SubnetsGone \/ TgwSettled
    BY <2>11, WaitsInv
  <2>12. ASSUME NEW c \in Chains, Ladder(c) PROVE LocalInv'
    BY <2>12, LadderInv
  <2>13. CASE TeardownEnds \/ SweepDecided
    BY <2>13, EndsInv
  <2>14. CASE UNCHANGED localVars
    BY <2>14, LocalUnchangedInv
  <2> QED BY <2>1, <2>2, <2>3, <2>4, <2>5, <2>6, <2>7, <2>8, <2>9, <2>10, <2>11, <2>12, <2>13,
             <2>14 DEF LocalNext
<1> QED BY <1>1, <1>2, PTL DEF LocalSpec

\* When a run that may delete is over, what it knows of and is still up is there for a
\* reason: reap_run_leftovers and the teardown have tried all of it, each after what was
\* to go first.
THEOREM LeftBehindForAReason == LocalSpec => []LeftForAReason
<1>1. LocalInv => LeftForAReason
  <2> SUFFICES ASSUME LocalInv, run.at = "over", run.destructive, NEW x \in Things
               PROVE  Explained(x)
    BY DEF LeftForAReason, RunAt
  <2> USE DEF LocalInv
  <2>1. CASE x \in ledger
    <3>1. reap.todo = {}
      BY DEF PhaseInv, PastReap
    <3> QED BY <2>1, <3>1 DEF ReapInv
  <2>2. CASE x \in ids
    <3>1. TeardownRan
      BY <2>2 DEF MainInv, TeardownRan, PastReap
    <3>2. \A c \in Chains : chain[c].at = "end"
      BY <3>1 DEF TearInv
    <3>3. x \in Behind
      <4>1. x \in Subnets \cup {"igw"} \cup Chains
        BY <2>2, InsideIs DEF LocalTypes
      <4> QED BY <3>2, <4>1 DEF Behind, Chains
    <3> QED BY <2>2, <3>1, <3>3 DEF TearInv
  <2>3. CASE x \notin Known
    BY <2>3 DEF Explained, Stays
  <2> QED BY <2>1, <2>2, <2>3 DEF Known
<1> QED BY <1>1, LocalInduction, PTL
=============================================================================
