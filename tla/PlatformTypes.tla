---------------------------- MODULE PlatformTypes ----------------------------
(***************************************************************************)
(* The two tables of runs, of the console's engine in one server and of    *)
(* the control plane: the types of both.                                   *)
(***************************************************************************)
EXTENDS ConsoleEngine, RunQueue

\* Types; the console's queue holds each waiting run once and none that is in flight,
\* and no two records of the runs table have one id.
PlatformTypeOK == ConsoleTypeOK /\ RunQueueTypeOK
=============================================================================
