--------------------------- MODULE MCDagScheduler ---------------------------
(***************************************************************************)
(* A plan of three lifecycles that create a VPC (two of them heavy), a     *)
(* heavy adopter and a free one, for three threads.                        *)
(***************************************************************************)
EXTENDS DagScheduler, TLC

CONSTANTS sc1, sc2, sc3, adopter, free

MCNodes == {sc1, sc2, sc3, adopter, free}
MCSlotNodes == {sc1, sc2, sc3}
MCHeavy == {sc1, sc2, adopter}
MCRank == sc1 :> 1 @@ adopter :> 2 @@ sc2 :> 3 @@ free :> 4 @@ sc3 :> 5
=============================================================================
