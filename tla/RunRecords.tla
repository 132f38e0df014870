----------------------------- MODULE RunRecords ------------------------------
(***************************************************************************)
(* What a run leaves to be read when it is over: the observations of its   *)
(* tests, and the events of what its lifecycles created and deleted.       *)
(***************************************************************************)
EXTENDS ResultsStore, ResourceLog

\* What a run records can be read: every observation once, every event but for the ways
\* in which the code loses one.
RecordsKept == RecordedOnce /\ StreamKept
=============================================================================
