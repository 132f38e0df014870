---------------------------- MODULE MCReconciler ----------------------------
(* Instances of Reconciler for TLC. *)
EXTENDS Reconciler, TLC

CONSTANTS
  srv, grp, vol, sub, gw, vpc, key,
  osub, ovpc,      \* another run's
  hex, bare, lg    \* derived by the platform: two volumes, one without a name, a log group

MCItems == {srv, grp, vol, sub, gw, vpc, key, osub, ovpc, hex, bare, lg}
MCKind ==
  srv :> "server" @@ grp :> "group" @@ vol :> "volume" @@ sub :> "subnet" @@ osub :> "subnet"
  @@ gw :> "gateway" @@ vpc :> "vpc" @@ ovpc :> "vpc" @@ key :> "key"
  @@ hex :> "volume" @@ bare :> "volume" @@ lg :> "log group"
MCOwner == [i \in MCItems |->
  CASE i \in {osub, ovpc} -> "other run" [] i = vol -> "named" [] i = hex -> "hex"
    [] i = bare -> "nameless" [] i = lg -> "foreign" [] OTHER -> "this run"]
MCNature == [i \in MCItems |->
  CASE i \in {srv, gw, osub} -> "slow" [] i \in {vol, hex} -> "fickle"
    [] i = key -> "scheduled" [] i = lg -> "sticky" [] OTHER -> "prompt"]
MCHolds == {<<srv, grp>>, <<srv, sub>>, <<sub, vpc>>, <<gw, vpc>>, <<osub, ovpc>>, <<srv, hex>>}
MCAccounts == {
  {srv, grp, sub, vpc},        \* a server holds its group and the subnet of a VPC
  {gw, sub, vpc, osub},        \* a VPC held twice, beside another run's subnet
  {vol, gw, vpc},              \* something that may be stuck
  {vol, key, grp},             \* no VPC; a deletion that is only scheduled
  {sub, vpc, osub, ovpc},
  {srv, hex, bare, lg}}        \* by-products, one of them attached
MCModes == {[force |-> FALSE, blast |-> TRUE], [force |-> TRUE, blast |-> FALSE]}

\* A single subnet, left by this run.
MCConvergedAccounts == {{sub}}
=============================================================================
