------------------------------ MODULE Reconciler ------------------------------
(***************************************************************************)
(* cleanup/reconciler.py: rounds of listing what is left in the account and *)
(* deleting what the ownership gate lets through, children before parents,  *)
(* until a round brings nothing more.  A LIST may fail, a DELETE may be     *)
(* refused, held by something that is still there, unanswered, or accepted  *)
(* and carried out later.                                                   *)
(*                                                                          *)
(* The collections are reduced to one of each way a pass treats its items;  *)
(* connections and firewalls of a gateway belong to it.  The barriers end   *)
(* at their deadlines, or at once in the fast mode, so that a deletion may  *)
(* be through before any later step, or not.                                *)
(***************************************************************************)
EXTENDS Naturals, Sequences, FiniteSets

CONSTANTS
  Items,        \* resources of the account
  Kind,         \* Kind[i]: its collection
  Owner,        \* Owner[i]: what tag and name say of it
  Nature,       \* Nature[i]: how it is deleted
  Holds,        \* pairs <<i, j>>: while i is there a DELETE of j is answered 409
  Accounts,     \* which of the items there are at first
  Modes,        \* [force : SCP_SWEEP_IGNORE_TTL, blast : SCP_SWEEP_BLAST]
  Rounds,       \* SCP_SWEEP_ROUNDS
  Attempts,     \* of a VPC's DELETE in a round, 6 in the code
  MaxTrouble    \* bound on requests that fail without any answer of use

\* The order of the passes of run_sweep, with the subnets' second attempt behind
\* their first one.
Order == <<"server", "group", "volume", "subnet", "gateway", "vpc", "key">>
Kinds == {Order[p] : p \in DOMAIN Order}
\* Two passes delete without the gate: behind the one of the volumes a second one
\* (2c-hex), and in the tail, here behind the last, the one of the log groups.
Trailing == [k \in {"volume", "key"} |-> IF k = "volume" THEN "volume" ELSE "log group"]
\* A name of 32 hex digits, or none, without a tag; and what is like neither of these.
Owners == {"this run", "expired", "named", "other run", "hex", "nameless", "foreign"}
\* The DELETE of a sticky one is accepted, and nothing happens.
Natures == {"prompt", "slow", "scheduled", "fickle", "sticky"}

ASSUME ReconcilerAssumption ==
  /\ IsFiniteSet(Items) /\ Accounts \subseteq SUBSET Items
  /\ Kind \in [Items -> Kinds \cup {"log group"}]
  /\ Owner \in [Items -> Owners] /\ Nature \in [Items -> Natures]
  /\ Modes \subseteq [force : BOOLEAN, blast : BOOLEAN]
  /\ Rounds \in Nat \ {0} /\ Attempts \in Nat \ {0} /\ MaxTrouble \in Nat
  /\ \A i \in Items : Nature[i] = "sticky" => Kind[i] = "log group"
  \* What is in a VPC was made by the run that made the VPC.
  /\ \A h \in Holds : h \in Items \X Items /\ (Kind[h[2]] = "vpc" => Owner[h[1]] = Owner[h[2]])

\* Collections the prescan's deletion of everything at once leaves to their passes;
\* passes that say when a DELETE was accepted; that remember a refused item; and
\* collections listed whatever the tag inventory says.
BlastExclude == {"volume", "subnet", "gateway", "vpc"}
Counted == {"volume", "subnet", "gateway"}
Marked == {"volume"}
Derivative == {"volume", "subnet"}

VARIABLES
  account,    \* the state of each item
  mode,       \* the environment of this sweep
  sweep,      \* round, passes to come, place, items of the pass, what it defers,
              \* the VPC at hand and its attempts, the by-products at hand
  marks,      \* _CONVERGED, _DELETE_ISSUED, _STUCK, _DELETED_THIS_SWEEP, _LAST_PICKED
  cache,      \* _LIST_CACHE
  tally,      \* the counters of the round, as far as they are zero or not
  result,     \* how main ended and what its report names
  trouble,    \* requests that failed so far
  unseen      \* collections of which some LIST failed

sweepVars == <<account, mode, sweep, marks, cache, tally, result, trouble, unseen>>

NoTally == [genuine |-> FALSE, inprog |-> FALSE, reported |-> FALSE]
Place(at) == [sweep EXCEPT !.at = at]

SweepInit ==
  /\ \E A \in Accounts : \E settling \in SUBSET {i \in A : Kind[i] = "gateway"} :
       account = [i \in Items |-> IF i \notin A THEN "gone"
                                  ELSE IF i \in settling THEN "settling" ELSE "there"]
  /\ mode \in Modes
  /\ sweep = [round |-> 1, todo |-> Order, at |-> "prescan",
              picked |-> {}, later |-> {}, vpc |-> {}, tries |-> 0, extra |-> {}]
  /\ marks = [converged |-> {}, issued |-> {}, stuck |-> {}, deleted |-> {},
               picked |-> [k \in Kinds |-> {}]]
  /\ cache = <<>>
  /\ tally = NoTally
  /\ result = [why |-> "none", report |-> FALSE, names |-> {}]
  /\ trouble = 0 /\ unseen = {}

-----------------------------------------------------------------------------
(* The account *)

Present == {i \in Items : account[i] # "gone"}
Holders(j) == {i \in Present : <<i, j>> \in Holds}
Listed(k) == [i \in {j \in Present : Kind[j] = k} |-> account[i]]

\* _is_deletable, with the prefix of the item's pass; when forced, _select lets volumes
\* without a name through as well.  Log groups are not put to it.
Deletable(i) ==
  /\ Kind[i] # "log group"
  /\ \/ Owner[i] \in {"this run", "expired", "named"}
     \/ Owner[i] = "other run" /\ mode.force
     \/ Owner[i] = "nameless" /\ Kind[i] = "volume" /\ mode.force

\* What the owner of the account has called by-products of the platform, to be deleted
\* whosever they are: the log groups, and the volumes a shared image leaves behind,
\* with a hex name, without a tag and attached to no server.
Byproduct(i) ==
  \/ Kind[i] = "log group"
  \/ /\ Kind[i] = "volume" /\ Owner[i] = "hex"
     /\ \A s \in Holders(i) : Kind[s] # "server"

Troubled == trouble < MaxTrouble

\* What a DELETE is answered: a 404, a 409, another refusal, a 2xx or nothing.
Answers(i) ==
  (IF Troubled THEN {"none"} ELSE {})
  \cup CASE account[i] = "gone" -> {"gone"}
         [] account[i] # "gone" /\ Holders(i) # {} -> {"held"}
         [] account[i] = "settling" -> {"refused"}
         [] Holders(i) = {} /\ account[i] # "gone" /\ account[i] # "settling" ->
              IF Nature[i] = "fickle" THEN {"ok", "refused"} ELSE {"ok"}

\* A DELETE of i, answered a.
Delete(i, a) ==
  /\ a \in Answers(i)
  /\ account' = IF a # "ok" THEN account
                ELSE [account EXCEPT ![i] = CASE Nature[i] = "slow" -> "deleting"
                                              [] Nature[i] = "scheduled" -> "scheduled"
                                              [] Nature[i] = "sticky" -> "there"
                                              [] OTHER -> "gone"]
  /\ trouble' = IF a = "none" THEN trouble + 1 ELSE trouble

Accepted == {"ok", "gone"}

\* What _delete makes of it: a second 2xx for the same item is no answer.
Status(i, a) == IF a = "ok" /\ i \in marks.deleted THEN "none" ELSE a
Deleted(i, a) == IF a = "ok" THEN marks.deleted \cup {i} ELSE marks.deleted

\* An item that is on its way goes, a gateway settles.
Drains(i) ==
  /\ account[i] \in {"deleting", "settling"}
  /\ account' = [account EXCEPT ![i] = IF @ = "deleting" THEN "gone" ELSE "there"]
  /\ UNCHANGED <<mode, sweep, marks, cache, tally, result, trouble, unseen>>

-----------------------------------------------------------------------------
(* The prescan and the blast *)

Inventory == {i \in Present : Owner[i] \notin {"hex", "nameless", "foreign"}}

\* _prescan, F being the collections whose LIST fails: they are cached as empty.
\* The tag inventory may narrow the collections to those it names and the
\* derivatives; the others are taken for converged.
Prescan(F) ==
  /\ sweep.at = "prescan"
  /\ trouble + Cardinality(F) <= MaxTrouble
  /\ \E scope \in {Kinds} \cup (IF Inventory = {} THEN {}
                                ELSE {Derivative \cup {Kind[i] : i \in Inventory}}) :
       LET converged == marks.converged \cup (Kinds \ scope)
       IN  /\ F \cap converged = {}
           /\ marks' = [marks EXCEPT !.converged = converged]
           /\ cache' = [k \in Kinds \ converged |-> IF k \in F THEN <<>> ELSE Listed(k)]
  /\ trouble' = trouble + Cardinality(F)
  /\ unseen' = unseen \cup F
  /\ sweep' = Place("aim")
  /\ UNCHANGED <<account, mode, tally, result>>

\* _blast_delete: whatever the cache holds that is deletable and not on its way.
Aim ==
  /\ sweep.at = "aim"
  /\ sweep' = [Place("blast") EXCEPT !.picked =
       IF mode.blast
       THEN UNION {{i \in DOMAIN cache[k] : cache[k][i] \notin {"deleting", "scheduled"}
                                            /\ Deletable(i)} :
                     k \in DOMAIN cache \ BlastExclude}
       ELSE {}]
  /\ UNCHANGED <<account, mode, marks, cache, tally, result, trouble, unseen>>

\* One of the deletions, all of which are in flight at once; what is accepted leaves
\* the cache, the round's progress is not told of it.
BlastOne(i, a) ==
  /\ sweep.at = "blast" /\ i \in sweep.picked
  /\ Delete(i, a)
  /\ LET hit == Status(i, a) = "ok"
         k == Kind[i]
     IN  /\ cache' = IF ~hit THEN cache
                     ELSE [cache EXCEPT ![k] = [j \in DOMAIN @ \ {i} |-> @[j]]]
         /\ tally' = [tally EXCEPT !.reported = @ \/ hit]
  /\ marks' = [marks EXCEPT !.deleted = Deleted(i, a)]
  /\ sweep' = [sweep EXCEPT !.picked = @ \ {i}]
  /\ UNCHANGED <<mode, result, unseen>>

BlastEnds ==
  /\ sweep.at = "blast" /\ sweep.picked = {}
  /\ sweep' = Place("select")
  /\ UNCHANGED <<account, mode, marks, cache, tally, result, trouble, unseen>>

-----------------------------------------------------------------------------
(* The passes *)

Pass == Head(sweep.todo)
InPass(at) == sweep.at = at /\ sweep.todo # <<>>
NextPass == [sweep EXCEPT !.todo = Tail(@), !.at = "select"]
AfterPass == IF Pass \in DOMAIN Trailing THEN Place("by-products") ELSE NextPass

\* What the pass leaves alone of what it has picked: a gateway on its way or not
\* settled, a key whose deletion is scheduled.
Spared(k, L) ==
  {i \in DOMAIN L : \/ k = "gateway" /\ L[i] \in {"deleting", "settling"}
                    \/ k = "key" /\ L[i] \in {"deleting", "scheduled"}}

\* Mutant of Selected: what is on its way does not count.
SelectedQuiet(k, L) ==
  LET mine == {i \in DOMAIN L : Deletable(i)}
      stuck == marks.stuck \cup (mine \cap marks.issued)
      picked == mine \ stuck
  IN  /\ marks' = [marks EXCEPT !.stuck = stuck, !.picked[k] = picked]
      /\ sweep' = [Place("delete") EXCEPT !.picked = picked \ Spared(k, L)]
      /\ tally' = tally

\* _select with the listing L: the gate, the stuck items, the counters and the mark
\* of a collection that has nothing more to give.
Selected(k, L) ==
  LET mine == {i \in DOMAIN L : Deletable(i)}
      stuck == marks.stuck \cup (mine \cap marks.issued)
      picked == mine \ stuck
      coming == {i \in picked : L[i] = "deleting"}
      settling == {i \in picked : k = "gateway" /\ L[i] = "settling"}
      converged == coming = {} /\ \A i \in picked : L[i] = "scheduled"
  IN  /\ marks' = [marks EXCEPT
                      !.stuck = stuck, !.picked[k] = picked,
                      !.converged = IF converged THEN @ \cup {k} ELSE @]
      /\ sweep' = [Place("delete") EXCEPT !.picked = picked \ Spared(k, L)]
      /\ tally' = [tally EXCEPT !.inprog = @ \/ coming \cup settling # {}]

SkipConverged ==
  /\ InPass("select") /\ Pass \in marks.converged
  /\ sweep' = AfterPass
  /\ UNCHANGED <<account, mode, marks, cache, tally, result, trouble, unseen>>

\* The prescan's listing, once ...
SelectCached ==
  /\ InPass("select") /\ Pass \notin marks.converged /\ Pass \in DOMAIN cache
  /\ Selected(Pass, cache[Pass])
  /\ cache' = [k \in DOMAIN cache \ {Pass} |-> cache[k]]
  /\ UNCHANGED <<account, mode, result, trouble, unseen>>

\* ... or one of its own, if that is too old by now.  If it fails, nothing is listed.
SelectLive ==
  /\ InPass("select") /\ Pass \notin marks.converged
  /\ \/ Selected(Pass, Listed(Pass)) /\ UNCHANGED <<trouble, unseen>>
     \/ /\ Troubled /\ Selected(Pass, <<>>)
        /\ trouble' = trouble + 1 /\ unseen' = unseen \cup {Pass}
  /\ cache' = [k \in DOMAIN cache \ {Pass} |-> cache[k]]
  /\ UNCHANGED <<account, mode, result>>

\* A pass's DELETE of one of its items.
DeleteOne(i, a) ==
  /\ InPass("delete") /\ Pass # "vpc" /\ i \in sweep.picked
  /\ Delete(i, a)
  /\ LET s == Status(i, a)
     IN  /\ tally' = [tally EXCEPT
              !.genuine = @ \/ (Pass \in Counted /\ s \in Accepted),
              !.reported = @ \/ (IF Pass \in Counted THEN s \in Accepted ELSE s # "none")]
         /\ marks' = [marks EXCEPT
              !.deleted = Deleted(i, a),
              !.issued = IF Pass \in Marked /\ s \notin Accepted \cup {"held"} THEN @ \cup {i} ELSE @]
         /\ sweep' = [sweep EXCEPT
              !.picked = @ \ {i},
              !.later = IF Pass = "subnet" /\ s \in {"held", "refused"} THEN @ \cup {i} ELSE @]
  /\ UNCHANGED <<mode, cache, result, unseen>>

DeletesEnd ==
  /\ InPass("delete") /\ sweep.picked = {}
  /\ sweep' = IF sweep.later = {} THEN AfterPass ELSE Place("retry")
  /\ UNCHANGED <<account, mode, marks, cache, tally, result, trouble, unseen>>

\* The second attempt at the subnets, behind the clusters' barrier.
RetrySubnet(i, a) ==
  /\ InPass("retry") /\ i \in sweep.later
  /\ Delete(i, a)
  /\ LET s == Status(i, a)
     IN  tally' = [tally EXCEPT !.genuine = @ \/ s \in Accepted,
                                !.reported = @ \/ s \in Accepted]
  /\ marks' = [marks EXCEPT !.deleted = Deleted(i, a)]
  /\ sweep' = [(IF sweep.later = {i} THEN NextPass ELSE sweep) EXCEPT !.later = @ \ {i}]
  /\ UNCHANGED <<mode, cache, result, unseen>>

-----------------------------------------------------------------------------
(* The passes without the gate *)

\* They list for themselves, whether or not the pass before them has converged.  A log
\* group of which the DELETE was issued in an earlier round is stuck.
SelectByproducts ==
  /\ InPass("by-products")
  /\ \/ LET listed == {i \in Present : Byproduct(i) /\ Kind[i] = Trailing[Pass]}
             stuck == {i \in listed : Kind[i] = "log group" /\ i \in marks.issued}
        IN  /\ marks' = [marks EXCEPT !.stuck = @ \cup stuck]
            /\ sweep' = [Place("reap") EXCEPT !.extra = listed \ stuck]
            /\ UNCHANGED trouble
     \/ /\ Troubled /\ trouble' = trouble + 1
        /\ sweep' = NextPass
        /\ UNCHANGED marks
  /\ UNCHANGED <<account, mode, cache, tally, result, unseen>>

\* A log group is remembered whatever its DELETE was answered, a volume as in its pass.
ReapByproduct(i, a) ==
  /\ InPass("reap") /\ i \in sweep.extra
  /\ Delete(i, a)
  /\ LET s == Status(i, a)
     IN  /\ tally' = [tally EXCEPT !.genuine = @ \/ s \in Accepted,
                                   !.reported = @ \/ s \in Accepted]
         /\ marks' = [marks EXCEPT
              !.deleted = Deleted(i, a),
              !.issued = IF Kind[i] = "log group" \/ s \notin Accepted \cup {"held"}
                         THEN @ \cup {i} ELSE @]
  /\ sweep' = [sweep EXCEPT !.extra = @ \ {i}]
  /\ UNCHANGED <<mode, cache, result, unseen>>

ReapEnds ==
  /\ InPass("reap") /\ sweep.extra = {}
  /\ sweep' = NextPass
  /\ UNCHANGED <<account, mode, marks, cache, tally, result, trouble, unseen>>

-----------------------------------------------------------------------------
(* The VPCs: a 409 is followed by what the answer or a listing says of its cause *)

GiveUp == [sweep EXCEPT !.at = "delete", !.picked = @ \ sweep.vpc, !.vpc = {}, !.tries = 0]
\* Again, unless this was the last attempt.
Again == IF sweep.tries + 1 = Attempts THEN GiveUp
         ELSE [sweep EXCEPT !.at = "delete", !.tries = @ + 1]

DeleteVpc(v, a) ==
  /\ InPass("delete") /\ Pass = "vpc" /\ v \in sweep.picked
  /\ sweep.vpc \subseteq {v}
  /\ Delete(v, a)
  /\ tally' = [tally EXCEPT !.reported = @ \/ a = "ok"]
  /\ sweep' = IF a = "held" THEN [Place("held") EXCEPT !.vpc = {v}]
              ELSE [sweep EXCEPT !.picked = @ \ {v}, !.vpc = {}, !.tries = 0]
  /\ UNCHANGED <<mode, marks, cache, result, unseen>>

\* _purge_409_holders: the answer names a holder, whose DELETE is progress; or names
\* none that can be deleted.
PurgeHolder(h, a) ==
  /\ InPass("held") /\ Kind[h] \in {"subnet", "gateway"}
  /\ \E v \in sweep.vpc : h \in Holders(v)
  /\ Delete(h, a)
  /\ LET hit == Status(h, a) \in Accepted
     IN  /\ tally' = [tally EXCEPT !.genuine = @ \/ hit]
         /\ sweep' = IF hit THEN Again ELSE Place("detect")
  /\ marks' = [marks EXCEPT !.deleted = Deleted(h, a)]
  /\ UNCHANGED <<mode, cache, result, unseen>>

NoHolderNamed ==
  /\ InPass("held")
  /\ sweep' = Place("detect")
  /\ UNCHANGED <<account, mode, marks, cache, tally, result, trouble, unseen>>

\* _vpc_409_holder finds an owned gateway: the VPC is left to the next round.
Gateways(v) == {h \in Holders(v) : Kind[h] = "gateway" /\ Owner[h] # "foreign"}

Defer ==
  /\ InPass("detect")
  /\ \E v \in sweep.vpc : Gateways(v) # {}
  /\ tally' = [tally EXCEPT !.inprog = TRUE]
  /\ sweep' = GiveUp
  /\ UNCHANGED <<account, mode, marks, cache, result, trouble, unseen>>

\* Mutant of Children: the purge does not look at the VPC of a subnet.
ChildrenOfAll(v) == {h \in Present : Kind[h] = "subnet"}

Children(v) == {h \in Holders(v) : Kind[h] = "subnet"}

\* None is found, or its LIST failed: _purge_vpc_children, whatever their names.
NotDetected ==
  /\ InPass("detect")
  /\ \E v \in sweep.vpc :
       /\ \/ Gateways(v) = {} /\ trouble' = trouble
          \/ Gateways(v) # {} /\ Troubled /\ trouble' = trouble + 1
       /\ sweep' = [Place("purge") EXCEPT !.later = Children(v)]
  /\ UNCHANGED <<account, mode, marks, cache, tally, result, unseen>>

PurgeChild(h, a) ==
  /\ InPass("purge") /\ h \in sweep.later
  /\ Delete(h, a)
  /\ tally' = [tally EXCEPT !.reported = @ \/ Status(h, a) # "none"]
  /\ marks' = [marks EXCEPT !.deleted = Deleted(h, a)]
  /\ sweep' = [sweep EXCEPT !.later = @ \ {h}]
  /\ UNCHANGED <<mode, cache, result, unseen>>

PurgeEnds ==
  /\ InPass("purge") /\ sweep.later = {}
  /\ sweep' = Again
  /\ UNCHANGED <<account, mode, marks, cache, tally, result, trouble, unseen>>

-----------------------------------------------------------------------------
(* main: what comes after a round *)

RoundEnds == sweep.at = "select" /\ sweep.todo = <<>>
NextRound ==
  /\ sweep' = [sweep EXCEPT !.round = @ + 1, !.todo = Order, !.at = "prescan"]
  /\ tally' = NoTally
  /\ UNCHANGED result
Ends(why, report) ==
  /\ result' = [result EXCEPT !.why = why, !.report = report]
  /\ sweep' = Place("second chance")
  /\ UNCHANGED tally

VpcsPresent == {v \in Present : Kind[v] = "vpc" /\ Deletable(v)} # {}

\* _round_verdict and what main makes of it.
Continue ==
  /\ RoundEnds /\ tally.genuine
  /\ IF sweep.round < Rounds THEN NextRound ELSE Ends("cap", FALSE)
  /\ UNCHANGED <<account, mode, marks, cache, trouble, unseen>>

Stop ==
  /\ RoundEnds /\ ~tally.genuine /\ ~tally.inprog
  /\ Ends("stop", tally.reported)
  /\ UNCHANGED <<account, mode, marks, cache, trouble, unseen>>

\* Something is on its way: another round if _owned_vpcs_present, or if nobody knows.
Grant ==
  /\ RoundEnds /\ ~tally.genuine /\ tally.inprog
  /\ \/ /\ ~VpcsPresent
        /\ Ends("clear", TRUE)
        /\ UNCHANGED trouble
     \/ /\ \/ VpcsPresent /\ UNCHANGED trouble
           \/ Troubled /\ trouble' = trouble + 1
        /\ IF sweep.round < Rounds THEN NextRound ELSE Ends("cap", TRUE)
  /\ UNCHANGED <<account, mode, marks, cache, unseen>>

\* The log groups that are stuck have no place on record.
Retriable == {i \in marks.stuck : Kind[i] # "log group"}

\* Mutant of SecondChance: whatever it is answered, the item is off the list.
SecondChanceBlind(i, a) ==
  /\ sweep.at = "second chance" /\ i \in Retriable \ sweep.later
  /\ Delete(i, a)
  /\ marks' = [marks EXCEPT !.stuck = @ \ {i}]
  /\ sweep' = [sweep EXCEPT !.later = @ \cup {i}]
  /\ UNCHANGED <<mode, cache, tally, result, unseen>>

\* _second_chance_stuck: one more DELETE for each stuck item.
SecondChance(i, a) ==
  /\ sweep.at = "second chance" /\ i \in Retriable \ sweep.later
  /\ Delete(i, a)
  /\ marks' = [marks EXCEPT !.stuck = IF a \in Accepted THEN @ \ {i} ELSE @]
  /\ sweep' = [sweep EXCEPT !.later = @ \cup {i}]
  /\ UNCHANGED <<mode, cache, tally, result, unseen>>

\* _leftover_report names what the last listings of the sweep were left with, or what
\* a new one finds if they had nothing; the stuck items are printed as well.
Report ==
  /\ sweep.at = "second chance" /\ Retriable \subseteq sweep.later
  /\ LET report == result.report \/ marks.stuck # {}
         last == UNION {marks.picked[k] : k \in Kinds}
     IN  result' = [result EXCEPT
              !.report = report,
              !.names = IF ~report THEN {}
                        ELSE marks.stuck \cup
                             (IF last # {} THEN last
                              ELSE {i \in Present : Deletable(i) \/ Byproduct(i)})]
  /\ sweep' = Place("over")
  /\ UNCHANGED <<account, mode, marks, cache, tally, trouble, unseen>>

-----------------------------------------------------------------------------
RequestOn(i) ==
  \E a \in Answers(i) :
    \/ BlastOne(i, a) \/ DeleteOne(i, a) \/ RetrySubnet(i, a) \/ DeleteVpc(i, a)
    \/ PurgeHolder(i, a) \/ PurgeChild(i, a) \/ SecondChance(i, a)
    \/ ReapByproduct(i, a)

SweepNext ==
  \/ \E F \in SUBSET Kinds : Prescan(F)
  \/ \E i \in Items : RequestOn(i) \/ Drains(i)
  \/ Aim \/ BlastEnds
  \/ SkipConverged \/ SelectCached \/ SelectLive \/ DeletesEnd
  \/ SelectByproducts \/ ReapEnds
  \/ NoHolderNamed \/ Defer \/ NotDetected \/ PurgeEnds
  \/ Continue \/ Stop \/ Grant \/ Report

SweepSpec == SweepInit /\ [][SweepNext]_sweepVars

-----------------------------------------------------------------------------
(* Properties *)

SweepOver == sweep.at = "over"
Left(i) == Deletable(i) /\ account[i] = "there"

\* What belongs to another run that may be live, or to nobody the sweep knows, is left
\* alone by blast, passes, the purges behind a VPC's 409 and the second chance; and the
\* two passes without the gate touch nothing but by-products, a volume not while a
\* server is left that it is attached to.
OthersSpared ==
  [][\A i \in Items : ~Deletable(i) /\ ~Byproduct(i) =>
       account'[i] \in {account[i], "there"}]_sweepVars

\* The incident of 2026-07-03: main does not stop, rounds left, while a gateway is
\* on its way out or not settled and holds a VPC of ours, unless a LIST has failed.
HolderAwaited ==
  SweepOver /\ result.why \in {"stop", "clear"} =>
    \A g, v \in Items :
      /\ Kind[g] = "gateway" /\ account[g] \in {"deleting", "settling"} /\ <<g, v>> \in Holds
      /\ Kind[v] = "vpc" /\ Left(v)
      => unseen # {}

\* A report, when there is one, names whatever could have been deleted and was not,
\* stuck or picked for the last time in whichever round, as far as it was listed.
SurvivorsReported ==
  SweepOver /\ result.report => \A i \in Items : Left(i) => i \in result.names \/ Kind[i] \in unseen

\* "a collection is marked converged ONLY when _select picked 0 deletable items, so
\* skipping it can never skip a real deletion".
ConvergedHarmless ==
  \A i \in Items : Kind[i] \in marks.converged /\ Left(i) => i \in marks.stuck

\* A sweep that ends by itself has not left too early and says what it leaves.
SweepHonest == HolderAwaited /\ SurvivorsReported
=============================================================================
