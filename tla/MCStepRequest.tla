---------------------------- MODULE MCStepRequest ----------------------------
(* The kinds of steps that the repository's scenarios have.                   *)
EXTENDS StepRequest

NoWait == [until |-> {}, statuses |-> {}, giveUp |-> {}, bad |-> {}, refire |-> {},
           lenient |-> FALSE, unresolved |-> FALSE]
WaitReady == [NoWait EXCEPT !.until = {"ready"}, !.bad = {"bad"}]

Call(method, variant, ladder) ==
  [method |-> method, allowed |-> TRUE, variant |-> variant, ladder |-> ladder,
   waits |-> FALSE, wait |-> NoWait]
Wait(wait) == [Call("GET", FALSE, {}) EXCEPT !.waits = TRUE, !.wait = wait]

MCSteps == {
  \* Creates with a second body, with a ladder on codes, or on 500; a change.
  Call("POST", TRUE, {"conflict"}), Call("POST", FALSE, {"again", "error"}),
  Call("PATCH", FALSE, {}), Call("PUT", FALSE, {"conflict"}),
  Call("DELETE", FALSE, {"conflict"}),
  [Call("DELETE", FALSE, {}) EXCEPT !.allowed = FALSE],
  \* Waits: for a state, after a change, without terminal states, with a refire, for
  \* the end of a resource, on a path with an unresolved token, and a PUT that waits.
  Wait(WaitReady), Wait([WaitReady EXCEPT !.giveUp = {"gone", "refused"}]),
  Wait([WaitReady EXCEPT !.bad = {}]),
  Wait([WaitReady EXCEPT !.refire = {"wedged"}]),
  Wait([NoWait EXCEPT !.statuses = {"gone"}, !.refire = {"bad", "wedged"}]),
  Wait([WaitReady EXCEPT !.unresolved = TRUE]),
  [Call("PUT", FALSE, {"conflict"}) EXCEPT !.waits = TRUE, !.wait = [WaitReady EXCEPT !.lenient = TRUE]]}
=============================================================================
