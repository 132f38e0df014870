-------------------------- MODULE MCLifecycleEngine --------------------------
(***************************************************************************)
(* Two lifecycles in the shape of the repository's scenarios.  "subnet"    *)
(* creates one VPC and, in an optional group, something inside it;         *)
(* "peering" creates two VPCs.                                             *)
(***************************************************************************)
EXTENDS LifecycleEngine, TLC

CONSTANTS subnet, peering, vS, vA, vB, net, none, grp, b0, b1

Req(op, res) ==
  [op |-> op, res |-> res, group |-> none, optional |-> FALSE, tolerant |-> FALSE]
Opt(op, res) ==
  [op |-> op, res |-> res, group |-> grp, optional |-> TRUE, tolerant |-> FALSE]
Tol(op, res) ==
  [op |-> op, res |-> res, group |-> none, optional |-> FALSE, tolerant |-> TRUE]
OptTol(op, res) ==
  [op |-> op, res |-> res, group |-> grp, optional |-> TRUE, tolerant |-> TRUE]

Try(op, res) ==
  [op |-> op, res |-> res, group |-> none, optional |-> TRUE, tolerant |-> FALSE]

MCLifecycles == {subnet, peering}
MCVpcs == {vS, vA, vB}
MCInVpc == net :> vS
MCBudgetOf == subnet :> b0 @@ peering :> b1
MCUsedBefore == b0 :> {0} @@ b1 :> {0, Cap - 1}

MCProgram ==
     subnet :> << Req("create", vS), OptTol("create", net), Opt("delete", net),
                  Req("touch", vS), Try("delete", net), Req("delete", vS) >>
  @@ peering :> << Req("create", vA), Req("create", vB), Req("check", none),
                   Req("delete", vB), Tol("delete", vA) >>

\* As the VPC scenarios do: once created, the VPC is polled by GET /v1/vpcs/{id}.
PolledProgram ==
     subnet :> << Req("create", vS), Req("touch", vS), Req("delete", vS) >>
  @@ peering :> << Req("create", vA), Req("touch", vA), Req("create", vB),
                   Req("delete", vB), Req("delete", vA) >>
=============================================================================
