---------------------------- MODULE VpcSemaphore ----------------------------
(***************************************************************************)
(* core/budgets.py, CrossProcessSemaphore: a counting semaphore kept in a  *)
(* JSON file and guarded by an advisory file lock, through which the xdist *)
(* worker processes of one run share the account's VPC quota.              *)
(*                                                                         *)
(* A process is a pid: a worker that xdist restarts is another element of  *)
(* Procs.  A token (a fresh uuid in the code) is <<pid, serial number>>.   *)
(* The lock makes a call atomic for every other process, but not for a     *)
(* crash: `write_text' truncates the file and then writes it, so a call is *)
(* cut into its read, its truncation and its write.                        *)
(*                                                                         *)
(* The engine acquires with n = 1, so a holder counts for one slot, and    *)
(* with the same limit in every process.                                   *)
(***************************************************************************)
EXTENDS Naturals, FiniteSets

CONSTANTS
  Procs,        \* pids
  NoProc,       \* no pid: the lock is free
  Cap,          \* account cap (SCP_VPC_CAP)
  Residents,    \* VPCs of the shared infrastructure, held for the whole run
  MaxHold,      \* VPCs one lifecycle owns at a time
  MaxTokens,    \* BOUND: tokens a process is granted in the run
  CrashTears    \* can a crash fall between the truncation and the write?

ASSUME ProcsAssumption == IsFiniteSet(Procs) /\ NoProc \notin Procs
ASSUME SizesAssumption == /\ Cap \in Nat /\ Residents \in Nat
                          /\ MaxHold \in Nat /\ MaxTokens \in Nat
ASSUME CrashAssumption == CrashTears \in BOOLEAN

\* `max(1, cap - shared)': a degenerate configuration still gets one slot.
Limit == IF Cap > Residents THEN Cap - Residents ELSE 1

Tokens == Procs \X (1..MaxTokens)

VARIABLES
  file,     \* tokens in the state file; {} also when it is missing or empty
  lock,     \* the process inside _flock, or NoProc
  pc,       \* how far a process is in its call
  call,     \* the method a process runs inside _flock
  ret,      \* the token try_acquire is going to return, {} for None
  img,      \* the holders the call is going to write
  own,      \* tokens the process was granted and has not released
  serial    \* tokens the process has been granted so far

vars == <<file, lock, pc, call, ret, img, own, serial>>

Owned == UNION {own[p] : p \in Procs}

\* Mutant of Live: dead holders are not pruned.
LiveUnpruned == file

\* _read: the holders of the file whose pid is still alive.
Live == {t \in file : pc[t[1]] # "dead"}

InFlock(p) == pc[p] \in {"locked", "truncated"}

-----------------------------------------------------------------------------
Init ==
  /\ file = {}
  /\ lock = NoProc
  /\ pc = [p \in Procs |-> "idle"]
  /\ call = [p \in Procs |-> "none"]
  /\ ret = [p \in Procs |-> {}]
  /\ img = [p \in Procs |-> {}]
  /\ own = [p \in Procs |-> {}]
  /\ serial = [p \in Procs |-> 0]

\* acquire is called: from here the process waits for a slot.
Acquire(p) ==
  /\ pc[p] = "idle"
  /\ Cardinality(own[p]) < MaxHold
  /\ serial[p] < MaxTokens
  /\ pc' = [pc EXCEPT ![p] = "waiting"]
  /\ UNCHANGED <<file, lock, call, ret, img, own, serial>>

\* Mutant of Enter: no advisory lock.
EnterUnlocked(p, method, holders) ==
  /\ lock' = p
  /\ pc' = [pc EXCEPT ![p] = "locked"]
  /\ call' = [call EXCEPT ![p] = method]
  /\ img' = [img EXCEPT ![p] = holders]
  /\ UNCHANGED <<file, serial>>

\* A call enters _flock, reads the live holders and settles what it will write.
Enter(p, method, holders) ==
  /\ lock = NoProc
  /\ lock' = p
  /\ pc' = [pc EXCEPT ![p] = "locked"]
  /\ call' = [call EXCEPT ![p] = method]
  /\ img' = [img EXCEPT ![p] = holders]
  /\ UNCHANGED <<file, serial>>

\* Mutant of TryAcquire: the check counts the holders without the new one.
TryAcquireOffByOne(p) ==
  LET granted == IF Cardinality(Live) > Limit THEN {} ELSE {<<p, serial[p] + 1>>}
  IN  /\ pc[p] \in {"waiting", "refused"}
      /\ Enter(p, "acquire", Live \cup granted)
      /\ ret' = [ret EXCEPT ![p] = granted]
      /\ UNCHANGED own

\* The first attempt, or the next one after a refusal and the poll interval.
TryAcquire(p) ==
  LET granted == IF Cardinality(Live) + 1 > Limit THEN {} ELSE {<<p, serial[p] + 1>>}
  IN  /\ pc[p] \in {"waiting", "refused"}
      /\ Enter(p, "acquire", Live \cup granted)
      /\ ret' = [ret EXCEPT ![p] = granted]
      /\ UNCHANGED own

\* Mutant of Release: the holders are filtered by pid instead of by token.
ReleaseByPid(p, t) ==
  /\ pc[p] = "idle"
  /\ t[1] = p /\ t[2] <= serial[p]
  /\ Enter(p, "release", {h \in Live : h[1] # p})
  /\ own' = [own EXCEPT ![p] = @ \ {t}]
  /\ UNCHANGED ret

\* The token may be one that was released before: that call is a no-op.
Release(p, t) ==
  /\ pc[p] = "idle"
  /\ t[1] = p /\ t[2] <= serial[p]
  /\ Enter(p, "release", Live \ {t})
  /\ own' = [own EXCEPT ![p] = @ \ {t}]
  /\ UNCHANGED ret

Used(p) ==
  /\ pc[p] = "idle"
  /\ Enter(p, "used", Live)
  /\ UNCHANGED <<ret, own>>

\* _write, first half: the file is opened for writing, which empties it.
Truncate(p) ==
  /\ pc[p] = "locked"
  /\ pc' = [pc EXCEPT ![p] = "truncated"]
  /\ file' = {}
  /\ UNCHANGED <<lock, call, ret, img, own, serial>>

\* _write, second half, the unlock, and the return: a token to own, or, when
\* try_acquire returned None, another round of acquire's loop.
Write(p) ==
  /\ pc[p] = "truncated"
  /\ file' = img[p]
  /\ lock' = NoProc
  /\ own' = [own EXCEPT ![p] = @ \cup ret[p]]
  /\ serial' = [serial EXCEPT ![p] = @ + Cardinality(ret[p])]
  /\ pc' = [pc EXCEPT ![p] = IF call[p] = "acquire" /\ ret[p] = {}
                             THEN "refused" ELSE "idle"]
  /\ call' = [call EXCEPT ![p] = "none"]
  /\ ret' = [ret EXCEPT ![p] = {}]
  /\ img' = [img EXCEPT ![p] = {}]

\* acquire gives up: its deadline has passed after a refusal.
Timeout(p) ==
  /\ pc[p] = "refused"
  /\ pc' = [pc EXCEPT ![p] = "idle"]
  /\ UNCHANGED <<file, lock, call, ret, img, own, serial>>

\* Mutant of Crash: the lock outlives its owner.
CrashKeepsLock(p) ==
  /\ pc[p] # "dead"
  /\ pc[p] = "truncated" => CrashTears
  /\ pc' = [pc EXCEPT ![p] = "dead"]
  /\ own' = [own EXCEPT ![p] = {}]
  /\ call' = [call EXCEPT ![p] = "none"]
  /\ ret' = [ret EXCEPT ![p] = {}]
  /\ img' = [img EXCEPT ![p] = {}]
  /\ UNCHANGED <<file, serial, lock>>

\* The process dies: the kernel drops its lock and closes its descriptor, the
\* file stays as it is.
Crash(p) ==
  /\ pc[p] # "dead"
  /\ pc[p] = "truncated" => CrashTears
  /\ pc' = [pc EXCEPT ![p] = "dead"]
  /\ lock' = IF lock = p THEN NoProc ELSE lock
  /\ own' = [own EXCEPT ![p] = {}]
  /\ call' = [call EXCEPT ![p] = "none"]
  /\ ret' = [ret EXCEPT ![p] = {}]
  /\ img' = [img EXCEPT ![p] = {}]
  /\ UNCHANGED <<file, serial>>

Step(p) ==
  \/ Acquire(p) \/ TryAcquire(p) \/ Used(p)
  \/ \E t \in Tokens : Release(p, t)
  \/ Truncate(p) \/ Write(p)
  \/ Timeout(p)

Next == \E p \in Procs : Step(p) \/ Crash(p)

Spec == Init /\ [][Next]_vars

\* flock serves its queue in order, so a process that keeps trying gets in; a
\* call inside _flock is carried through; and a lifecycle that waits for nothing
\* ends and releases what it holds.  Nothing is assumed of crashes, of timeouts
\* or of who asks for a slot.
Fairness ==
  \A p \in Procs :
    /\ SF_vars(TryAcquire(p))
    /\ SF_vars(\E t \in own[p] : Release(p, t))
    /\ WF_vars(Truncate(p) \/ Write(p))

FairSpec == Spec /\ Fairness

-----------------------------------------------------------------------------
\* Every variable has its type, and the lock is held by exactly the process
\* that is inside _flock: a process that dies inside does not keep it.
TypeOK ==
  /\ file \subseteq Tokens
  /\ lock \in Procs \cup {NoProc}
  /\ pc \in [Procs -> {"idle", "waiting", "locked", "truncated", "refused", "dead"}]
  /\ call \in [Procs -> {"none", "acquire", "release", "used"}]
  /\ ret \in [Procs -> SUBSET Tokens]
  /\ img \in [Procs -> SUBSET Tokens]
  /\ own \in [Procs -> SUBSET Tokens]
  /\ serial \in [Procs -> 0..MaxTokens]
  /\ \A p \in Procs : InFlock(p) <=> lock = p

\* The processes never own more slots than the pool has: what keeps the VPCs
\* the lifecycles create, with those of the shared infrastructure, within the
\* account's cap, whoever crashes and whenever.
SlotCap == Cardinality(Owned) <= Limit

\* Between two calls the live holders of the file are exactly the tokens in
\* use: none is lost (its slot would be granted twice) and none is left behind
\* (its slot would never be granted again).
\* ("the sum of live holders' n is the current usage", budgets.py.)
LedgerExact == lock = NoProc => Live = Owned

\* The semaphore implements the abstract pool: a token is granted only while a
\* slot is free, and slots come back only by release or death of their owner.
Pool == INSTANCE SlotPool WITH Holders <- Tokens, held <- Owned
PoolSpec == Pool!Spec

\* A process that waits for a slot is served, unless it gives up, dies, or some
\* process waits for a slot while it holds one.  In particular a crash never
\* wedges the pool: no slot stays with a dead process.
Waiting(p) == pc[p] \in {"waiting", "refused"} \/ call[p] = "acquire"
HoldAndWait == \E p \in Procs : Waiting(p) /\ own[p] # {}
NeverWedged == \A p \in Procs : Waiting(p) ~> (~Waiting(p) \/ HoldAndWait)

=============================================================================
