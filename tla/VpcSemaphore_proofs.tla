------------------------ MODULE VpcSemaphore_proofs ------------------------
(***************************************************************************)
(* Proofs about VpcSemaphore, for any number of processes, any cap and any *)
(* number of tokens: the types, the cap on the slots the processes own,    *)
(* and the refinement of SlotPool, as long as no crash falls inside _write *)
(* (~CrashTears).  The run `sem_torn' shows that the assumption is needed. *)
(***************************************************************************)
EXTENDS VpcSemaphore, FiniteSetTheorems, TLAPS

-----------------------------------------------------------------------------
(* Types *)

\* A holder that _read returns is in the file.
LEMMA LiveInFile == Live \subseteq file
BY DEF Live

\* Entering _flock keeps the types, whatever holders the call settles.
LEMMA EnterTypeOK ==
  ASSUME TypeOK, NEW p \in Procs, pc[p] \notin {"locked", "truncated"},
         NEW method \in {"acquire", "release", "used"},
         NEW holders \in SUBSET Tokens,
         Enter(p, method, holders),
         ret' \in [Procs -> SUBSET Tokens],
         own' \in [Procs -> SUBSET Tokens]
  PROVE  TypeOK'
BY ProcsAssumption DEF TypeOK, Enter, InFlock

\* The token a grant makes is a token: no process is granted more than MaxTokens.
\* (serial[p] < MaxTokens holds from the call of acquire to its return.)
SerialInv ==
  \A p \in Procs :
    /\ pc[p] \in {"waiting", "refused"} => serial[p] < MaxTokens
    /\ ret[p] # {} => /\ ret[p] = {<<p, serial[p] + 1>>}
                      /\ serial[p] < MaxTokens
                      /\ call[p] = "acquire"
                      /\ InFlock(p)
    /\ call[p] = "acquire" => serial[p] < MaxTokens

TypeInv == TypeOK /\ SerialInv

LEMMA TypeInit == Init => TypeInv
BY ProcsAssumption, SizesAssumption
   DEF Init, TypeInv, TypeOK, SerialInv, InFlock

\* What a call returns is one token or none.
LEMMA RetCardinality ==
  ASSUME SerialInv, NEW p \in Procs
  PROVE  Cardinality(ret[p]) = IF ret[p] = {} THEN 0 ELSE 1
<1>1. CASE ret[p] = {}
  BY <1>1, FS_EmptySet
<1>2. CASE ret[p] # {}
  <2>1. ret[p] = {<<p, serial[p] + 1>>}
    BY <1>2 DEF SerialInv
  <2> QED BY <1>2, <2>1, FS_Singleton, Zenon
<1> QED BY <1>1, <1>2

LEMMA TypeStep == TypeInv /\ [Next]_vars => TypeInv'
<1> SUFFICES ASSUME TypeInv, [Next]_vars
             PROVE  TypeInv'
  OBVIOUS
<1> USE ProcsAssumption, SizesAssumption DEF TypeInv
<1>1. ASSUME NEW p \in Procs, Acquire(p)
      PROVE  TypeInv'
  BY <1>1 DEF Acquire, TypeOK, SerialInv, InFlock
<1>2. ASSUME NEW p \in Procs, TryAcquire(p)
      PROVE  TypeInv'
  <2> DEFINE granted == IF Cardinality(Live) + 1 > Limit THEN {} ELSE {<<p, serial[p] + 1>>}
  <2>1. serial[p] + 1 \in 1..MaxTokens
    BY <1>2 DEF TryAcquire, TypeOK, SerialInv
  <2>2. granted \in SUBSET Tokens
    BY <2>1 DEF Tokens
  <2>3. Live \cup granted \in SUBSET Tokens
    BY <2>2, LiveInFile DEF TypeOK
  <2>4. Enter(p, "acquire", Live \cup granted) /\ ret' = [ret EXCEPT ![p] = granted]
        /\ own' = own /\ pc[p] \in {"waiting", "refused"}
    BY <1>2 DEF TryAcquire
  <2> HIDE DEF granted
  <2>5. ret' \in [Procs -> SUBSET Tokens]
    BY <2>2, <2>4 DEF TypeOK
  <2>6. TypeOK'
    BY <2>3, <2>4, <2>5, EnterTypeOK DEF TypeOK
  <2>7. SerialInv'
    BY <2>4 DEF SerialInv, TypeOK, Enter, InFlock, granted
  <2> QED BY <2>6, <2>7
<1>3. ASSUME NEW p \in Procs, Used(p)
      PROVE  TypeInv'
  <2>1. Enter(p, "used", Live) /\ ret' = ret /\ own' = own /\ pc[p] = "idle"
    BY <1>3 DEF Used
  <2>2. TypeOK'
    BY <2>1, LiveInFile, EnterTypeOK DEF TypeOK
  <2>3. SerialInv'
    BY <2>1 DEF SerialInv, TypeOK, Enter, InFlock
  <2> QED BY <2>2, <2>3
<1>4. ASSUME NEW p \in Procs, NEW t \in Tokens, Release(p, t)
      PROVE  TypeInv'
  <2>1. Enter(p, "release", Live \ {t}) /\ ret' = ret /\ pc[p] = "idle"
        /\ own' = [own EXCEPT ![p] = @ \ {t}]
    BY <1>4 DEF Release
  <2>2. TypeOK'
    BY <2>1, LiveInFile, EnterTypeOK DEF TypeOK
  <2>3. SerialInv'
    BY <2>1 DEF SerialInv, TypeOK, Enter, InFlock
  <2> QED BY <2>2, <2>3
<1>5. ASSUME NEW p \in Procs, Truncate(p)
      PROVE  TypeInv'
  BY <1>5 DEF Truncate, TypeOK, SerialInv, InFlock
<1>6. ASSUME NEW p \in Procs, Write(p)
      PROVE  TypeInv'
  <2>1. Cardinality(ret[p]) = IF ret[p] = {} THEN 0 ELSE 1
    BY RetCardinality
  <2>2. serial[p] + Cardinality(ret[p]) \in 0..MaxTokens
    BY <2>1 DEF SerialInv, TypeOK
  <2>3. TypeOK'
    BY <1>6, <2>2 DEF Write, TypeOK, InFlock
  <2>4. SerialInv'
    BY <1>6, <2>1 DEF Write, TypeOK, SerialInv, InFlock
  <2> QED BY <2>3, <2>4
<1>7. ASSUME NEW p \in Procs, Timeout(p)
      PROVE  TypeInv'
  BY <1>7 DEF Timeout, TypeOK, SerialInv, InFlock
<1>8. ASSUME NEW p \in Procs, Crash(p)
      PROVE  TypeInv'
  BY <1>8 DEF Crash, TypeOK, SerialInv, InFlock
<1>9. CASE UNCHANGED vars
  BY <1>9 DEF vars, TypeOK, SerialInv, InFlock
<1> QED
  BY <1>1, <1>2, <1>3, <1>4, <1>5, <1>6, <1>7, <1>8, <1>9 DEF Next, Step

\* Every variable has its type in every reachable state, and the advisory lock
\* of _flock is held by exactly the process inside it, crashes included.
THEOREM TypeCorrect == Spec => []TypeOK
<1>1. Spec => []TypeInv
  BY TypeInit, TypeStep, PTL DEF Spec
<1>2. TypeInv => TypeOK
  BY DEF TypeInv
<1> QED
  BY <1>1, <1>2, PTL

-----------------------------------------------------------------------------
(* The cap *)

\* Tokens are told apart by their owner and serial number.
OwnInv == \A p \in Procs : \A t \in own[p] : t[1] = p /\ t[2] <= serial[p]

\* A dead process owns nothing, so _read never forgets a token in use.
DeadInv == \A p \in Procs : pc[p] = "dead" => own[p] = {}

\* The file, while nobody is writing it, and the image a call is about to write
\* both hold every token in use, and neither holds more than Limit.
FileInv ==
  /\ Cardinality(file) <= Limit
  /\ (\A p \in Procs : pc[p] # "truncated") => Owned \subseteq file

ImageInv ==
  \A p \in Procs : InFlock(p) =>
    /\ Cardinality(img[p]) <= Limit
    /\ Owned \subseteq img[p]
    /\ ret[p] \subseteq img[p]

IInv == TypeInv /\ OwnInv /\ DeadInv /\ FileInv /\ ImageInv

LEMMA LimitType == Limit \in Nat /\ Limit >= 1
BY SizesAssumption DEF Limit

LEMMA TokensFinite == IsFiniteSet(Tokens)
<1>1. IsFiniteSet(1..MaxTokens)
  BY SizesAssumption, FS_Interval
<1> QED BY <1>1, ProcsAssumption, FS_Product DEF Tokens

\* Sets of tokens are finite, and a part of one is no larger than the whole.
LEMMA TokenSets ==
  ASSUME NEW S \in SUBSET Tokens
  PROVE  /\ IsFiniteSet(S)
         /\ Cardinality(S) \in Nat
         /\ \A T \in SUBSET S : Cardinality(T) \in Nat /\ Cardinality(T) <= Cardinality(S)
BY TokensFinite, FS_Subset, FS_CardinalityType

\* While the lock is free no file is truncated, so _read sees all tokens in use.
LEMMA OwnedLive == IInv /\ lock = NoProc => Owned \subseteq Live
<1> SUFFICES ASSUME IInv, lock = NoProc
             PROVE  Owned \subseteq Live
  OBVIOUS
<1>1. Owned \subseteq file
  BY ProcsAssumption DEF IInv, FileInv, TypeInv, TypeOK, InFlock
<1>2. \A t \in Owned : t[1] \in Procs /\ pc[t[1]] # "dead"
  BY DEF Owned, IInv, OwnInv, DeadInv
<1> QED BY <1>1, <1>2 DEF Live

\* A call that enters _flock, when it settles holders that fit the pool and
\* include every token in use, keeps the invariants on the file and the image.
LEMMA EnterInv ==
  ASSUME IInv, NEW p \in Procs, NEW method, NEW holders \in SUBSET Tokens,
         pc[p] \notin {"locked", "truncated"},
         Enter(p, method, holders),
         Cardinality(holders) <= Limit, Owned' \subseteq holders,
         Owned' \subseteq Owned, ret'[p] \subseteq holders,
         \A q \in Procs \ {p} : ret'[q] = ret[q]
  PROVE  FileInv' /\ ImageInv'
<1> USE DEF IInv, TypeInv, TypeOK, Enter, InFlock
<1>1. FileInv'
  BY DEF FileInv
<1>2. ImageInv'
  BY DEF ImageInv
<1> QED BY <1>1, <1>2

LEMMA IInvInit == Init => IInv
<1> SUFFICES ASSUME Init PROVE IInv
  OBVIOUS
<1>1. TypeInv
  BY TypeInit
<1>2. OwnInv /\ DeadInv
  BY DEF Init, OwnInv, DeadInv
<1>3. Owned = {} /\ Cardinality(file) = 0
  BY FS_EmptySet DEF Init, Owned
<1>4. FileInv /\ ImageInv
  BY <1>3, LimitType DEF FileInv, ImageInv, Init, InFlock
<1> QED BY <1>1, <1>2, <1>4 DEF IInv

LEMMA IInvStep == IInv /\ ~CrashTears /\ [Next]_vars => IInv'
<1> SUFFICES ASSUME IInv, ~CrashTears, [Next]_vars
             PROVE  OwnInv' /\ DeadInv' /\ FileInv' /\ ImageInv'
  BY TypeStep DEF IInv
<1>t. TypeOK /\ SerialInv /\ OwnInv /\ DeadInv /\ FileInv /\ ImageInv
  BY DEF IInv, TypeInv
<1>1. ASSUME NEW p \in Procs, Acquire(p)
      PROVE  OwnInv' /\ DeadInv' /\ FileInv' /\ ImageInv'
  <2>1. OwnInv' /\ DeadInv'
    BY <1>1, <1>t DEF Acquire, OwnInv, DeadInv, TypeOK
  <2>2. Owned' = Owned
    BY <1>1 DEF Acquire, Owned
  <2>3. FileInv' /\ ImageInv'
    BY <1>1, <1>t, <2>2 DEF Acquire, FileInv, ImageInv, InFlock, TypeOK
  <2> QED BY <2>1, <2>3
<1>2. ASSUME NEW p \in Procs, TryAcquire(p)
      PROVE  OwnInv' /\ DeadInv' /\ FileInv' /\ ImageInv'
  <2> DEFINE token == <<p, serial[p] + 1>>
             granted == IF Cardinality(Live) + 1 > Limit THEN {} ELSE {token}
             holders == Live \cup granted
  <2>1. Enter(p, "acquire", holders) /\ ret' = [ret EXCEPT ![p] = granted]
        /\ own' = own /\ pc[p] \in {"waiting", "refused"} /\ lock = NoProc
    BY <1>2 DEF TryAcquire, Enter
  <2>2. Live \in SUBSET file /\ file \in SUBSET Tokens
    BY <1>t, LiveInFile DEF TypeOK
  <2>3. /\ IsFiniteSet(Live)
        /\ Cardinality(Live) \in Nat /\ Cardinality(file) \in Nat
        /\ Cardinality(Live) <= Cardinality(file)
    BY <2>2, TokenSets
  <2>4. Cardinality(Live \cup {token}) <= Cardinality(Live) + 1
        /\ Cardinality(Live \cup {token}) \in Nat
    <3> HIDE DEF token
    <3>1. IsFiniteSet(Live \cup {token})
          /\ Cardinality(Live \cup {token}) =
               IF token \in Live THEN Cardinality(Live) ELSE Cardinality(Live) + 1
      BY <2>3, FS_AddElement
    <3> QED BY <3>1, <2>3
  <2>5. Cardinality(holders) <= Limit
    <3>1. CASE Cardinality(Live) + 1 > Limit
      BY <3>1, <2>3, <1>t, LimitType DEF FileInv
    <3>2. CASE ~(Cardinality(Live) + 1 > Limit)
      BY <3>2, <2>3, <2>4, LimitType
    <3> QED BY <3>1, <3>2
  <2>6. holders \in SUBSET Tokens
    <3>1. token \in Tokens
      BY <2>1, <1>t, SizesAssumption DEF SerialInv, TypeOK, Tokens
    <3> QED BY <3>1, <2>2
  <2>7. Owned' = Owned /\ Owned \subseteq holders
    BY <2>1, OwnedLive DEF Owned
  <2>8. ret'[p] \subseteq holders /\ \A q \in Procs \ {p} : ret'[q] = ret[q]
    BY <2>1, <1>t DEF TypeOK
  <2>9. FileInv' /\ ImageInv'
    <3> HIDE DEF holders, granted, token
    <3> QED BY <2>1, <2>5, <2>6, <2>7, <2>8, EnterInv
  <2>10. OwnInv' /\ DeadInv'
    BY <2>1, <1>t DEF OwnInv, DeadInv, Enter, TypeOK
  <2> QED BY <2>9, <2>10
<1>3. ASSUME NEW p \in Procs, Used(p)
      PROVE  OwnInv' /\ DeadInv' /\ FileInv' /\ ImageInv'
  <2>1. Enter(p, "used", Live) /\ ret' = ret /\ own' = own /\ pc[p] = "idle"
        /\ lock = NoProc
    BY <1>3 DEF Used, Enter
  <2>2. Live \in SUBSET file /\ Live \in SUBSET Tokens /\ file \in SUBSET Tokens
    BY <1>t, LiveInFile DEF TypeOK
  <2>3. Cardinality(Live) <= Limit
    BY <2>2, <1>t, TokenSets, LimitType DEF FileInv
  <2>4. Owned' = Owned /\ Owned \subseteq Live
    BY <2>1, OwnedLive DEF Owned
  <2>5. ret[p] = {}
    BY <2>1, <1>t DEF SerialInv, InFlock
  <2>6. FileInv' /\ ImageInv'
    BY <2>1, <2>2, <2>3, <2>4, <2>5, EnterInv
  <2>7. OwnInv' /\ DeadInv'
    BY <2>1, <1>t DEF OwnInv, DeadInv, Enter, TypeOK
  <2> QED BY <2>6, <2>7
<1>4. ASSUME NEW p \in Procs, NEW t \in Tokens, Release(p, t)
      PROVE  OwnInv' /\ DeadInv' /\ FileInv' /\ ImageInv'
  <2>1. Enter(p, "release", Live \ {t}) /\ ret' = ret /\ pc[p] = "idle"
        /\ own' = [own EXCEPT ![p] = @ \ {t}] /\ lock = NoProc /\ t[1] = p
    BY <1>4 DEF Release, Enter
  <2>2. Live \ {t} \in SUBSET file /\ Live \ {t} \in SUBSET Tokens
        /\ file \in SUBSET Tokens
    BY <1>t, LiveInFile DEF TypeOK
  <2>3. Cardinality(Live \ {t}) <= Limit
    BY <2>2, <1>t, TokenSets, LimitType DEF FileInv
  <2>4. Owned' \subseteq Owned /\ t \notin Owned'
    BY <2>1, <1>t DEF Owned, TypeOK, OwnInv
  <2>5. Owned' \subseteq Live \ {t}
    BY <2>1, <2>4, OwnedLive
  <2>6. ret[p] = {}
    BY <2>1, <1>t DEF SerialInv, InFlock
  <2>7. FileInv' /\ ImageInv'
    BY <2>1, <2>2, <2>3, <2>4, <2>5, <2>6, EnterInv
  <2>8. OwnInv' /\ DeadInv'
    BY <2>1, <1>t DEF OwnInv, DeadInv, Enter, TypeOK
  <2> QED BY <2>7, <2>8
<1>5. ASSUME NEW p \in Procs, Truncate(p)
      PROVE  OwnInv' /\ DeadInv' /\ FileInv' /\ ImageInv'
  <2>1. OwnInv' /\ DeadInv'
    BY <1>5, <1>t DEF Truncate, OwnInv, DeadInv, TypeOK
  <2>2. Owned' = Owned /\ Cardinality(file') = 0
    BY <1>5, FS_EmptySet DEF Truncate, Owned
  <2>3. FileInv'
    BY <1>5, <1>t, <2>2, LimitType DEF Truncate, FileInv, TypeOK
  <2>4. ImageInv'
    BY <1>5, <1>t, <2>2 DEF Truncate, ImageInv, InFlock, TypeOK
  <2> QED BY <2>1, <2>3, <2>4
<1>6. ASSUME NEW p \in Procs, Write(p)
      PROVE  OwnInv' /\ DeadInv' /\ FileInv' /\ ImageInv'
  <2>1. Cardinality(ret[p]) = IF ret[p] = {} THEN 0 ELSE 1
    BY <1>t, RetCardinality
  <2>2. OwnInv'
    <3>1. serial' = [serial EXCEPT ![p] = serial[p] + Cardinality(ret[p])]
          /\ own' = [own EXCEPT ![p] = own[p] \cup ret[p]]
      BY <1>6 DEF Write
    <3>2. \A t \in ret[p] : t[1] = p /\ t[2] = serial[p] + 1
      BY <1>t DEF SerialInv
    <3>3. \A t \in ret[p] : t[1] = p /\ t[2] <= serial[p] + Cardinality(ret[p])
      BY <3>2, <2>1, <1>t DEF TypeOK
    <3>4. \A t \in own[p] : t[1] = p /\ t[2] <= serial[p] + Cardinality(ret[p])
      <4>1. own[p] \subseteq Tokens /\ serial[p] \in Nat
        BY <1>t DEF TypeOK
      <4>2. \A t \in own[p] : t[2] \in Nat
        BY <4>1, SizesAssumption DEF Tokens
      <4> QED BY <4>1, <4>2, <2>1, <1>t DEF OwnInv
    <3> QED BY <3>1, <3>3, <3>4, <1>t DEF OwnInv, TypeOK
  <2>3. DeadInv'
    BY <1>6, <1>t DEF Write, DeadInv, TypeOK
  <2>4. Owned' \subseteq Owned \cup ret[p]
    BY <1>6, <1>t DEF Write, Owned, TypeOK
  <2>5. FileInv'
    BY <1>6, <1>t, <2>4 DEF Write, FileInv, ImageInv, InFlock, TypeOK
  <2>6. \A q \in Procs : ~InFlock(q)'
    BY <1>6, <1>t DEF Write, TypeOK, InFlock
  <2>7. ImageInv'
    BY <2>6 DEF ImageInv
  <2> QED BY <2>2, <2>3, <2>5, <2>7
<1>7. ASSUME NEW p \in Procs, Timeout(p)
      PROVE  OwnInv' /\ DeadInv' /\ FileInv' /\ ImageInv'
  <2>1. OwnInv' /\ DeadInv'
    BY <1>7, <1>t DEF Timeout, OwnInv, DeadInv, TypeOK
  <2>2. Owned' = Owned
    BY <1>7 DEF Timeout, Owned
  <2>3. FileInv' /\ ImageInv'
    BY <1>7, <1>t, <2>2 DEF Timeout, FileInv, ImageInv, InFlock, TypeOK
  <2> QED BY <2>1, <2>3
<1>8. ASSUME NEW p \in Procs, Crash(p)
      PROVE  OwnInv' /\ DeadInv' /\ FileInv' /\ ImageInv'
  <2>1. OwnInv' /\ DeadInv'
    BY <1>8, <1>t DEF Crash, OwnInv, DeadInv, TypeOK
  <2>2. Owned' \subseteq Owned
    BY <1>8, <1>t DEF Crash, Owned, TypeOK
  <2>3. FileInv' /\ ImageInv'
    BY <1>8, <1>t, <2>2 DEF Crash, FileInv, ImageInv, InFlock, TypeOK
  <2> QED BY <2>1, <2>3
<1>9. CASE UNCHANGED vars
  BY <1>9, <1>t DEF vars, OwnInv, DeadInv, FileInv, ImageInv, Owned, InFlock, TypeOK
<1> QED
  BY <1>1, <1>2, <1>3, <1>4, <1>5, <1>6, <1>7, <1>8, <1>9 DEF Next, Step

LEMMA IInvSlotCap == IInv => SlotCap
<1> SUFFICES ASSUME IInv PROVE SlotCap
  OBVIOUS
<1>1. TypeOK /\ FileInv /\ ImageInv
  BY DEF IInv, TypeInv
<1>2. CASE \E p \in Procs : pc[p] = "truncated"
  <2>1. PICK p \in Procs : pc[p] = "truncated"
    BY <1>2
  <2>2. Owned \in SUBSET img[p] /\ img[p] \in SUBSET Tokens /\ Cardinality(img[p]) <= Limit
    BY <1>1, <2>1 DEF TypeOK, ImageInv, InFlock
  <2> QED BY <2>2, TokenSets, LimitType DEF SlotCap
<1>3. CASE \A p \in Procs : pc[p] # "truncated"
  <2>1. Owned \in SUBSET file /\ file \in SUBSET Tokens /\ Cardinality(file) <= Limit
    BY <1>1, <1>3 DEF TypeOK, FileInv
  <2> QED BY <2>1, TokenSets, LimitType DEF SlotCap
<1> QED BY <1>2, <1>3

\* Unless a crash tears the state file, the processes of a run never own more
\* slots than the pool has, however they interleave and wherever they crash.
THEOREM CapSafe ==
  ASSUME ~CrashTears
  PROVE  Spec => []SlotCap
<1>1. IInv /\ [Next]_vars => IInv'
  BY IInvStep
<1>2. Spec => []IInv
  BY <1>1, IInvInit, PTL DEF Spec
<1> QED
  BY <1>2, IInvSlotCap, PTL

-----------------------------------------------------------------------------
(* The ledger *)

Alive(S) == {t \in S : pc[t[1]] # "dead"}

\* No live token is in the file, or about to be, without being in use.  A process
\* that releases has given its token up while the file still shows it; if it
\* dies there, its tokens are dead ones.
NoLeakInv ==
  /\ lock = NoProc => Live \subseteq Owned
  /\ \A p \in Procs :
       /\ InFlock(p) => Alive(img[p]) \subseteq Owned \cup ret[p]
       /\ pc[p] = "locked" => \A t \in Live : t[1] # p => t \in Owned

LEMMA NoLeakInit == Init => NoLeakInv
BY DEF Init, NoLeakInv, Live, InFlock

LEMMA NoLeakStep == IInv /\ NoLeakInv /\ ~CrashTears /\ [Next]_vars => NoLeakInv'
<1> SUFFICES ASSUME IInv, NoLeakInv, ~CrashTears, [Next]_vars
             PROVE  NoLeakInv'
  OBVIOUS
<1>t. TypeOK /\ SerialInv /\ OwnInv /\ NoLeakInv
  BY DEF IInv, TypeInv
<1> USE ProcsAssumption
<1>p. \A p \in Procs : InFlock(p) <=> lock = p
  BY <1>t DEF TypeOK
<1>1. ASSUME NEW p \in Procs, Acquire(p)
      PROVE  NoLeakInv'
  <2>1. Owned' = Owned /\ pc' = [pc EXCEPT ![p] = "waiting"] /\ pc[p] = "idle"
        /\ file' = file /\ lock' = lock /\ img' = img /\ ret' = ret
    BY <1>1 DEF Acquire, Owned
  <2>2. Live' = Live /\ \A q \in Procs : Alive(img[q])' = Alive(img[q])
    BY <2>1, <1>t DEF Live, Alive, TypeOK, Tokens
  <2> QED BY <2>1, <2>2, <1>t DEF NoLeakInv, InFlock, TypeOK
<1>2. ASSUME NEW p \in Procs, TryAcquire(p)
      PROVE  NoLeakInv'
  <2> DEFINE granted == IF Cardinality(Live) + 1 > Limit THEN {} ELSE {<<p, serial[p] + 1>>}
  <2>1. /\ lock = NoProc /\ lock' = p /\ file' = file /\ own' = own
        /\ pc' = [pc EXCEPT ![p] = "locked"] /\ pc[p] \in {"waiting", "refused"}
        /\ img' = [img EXCEPT ![p] = Live \cup granted]
        /\ ret' = [ret EXCEPT ![p] = granted]
    BY <1>2 DEF TryAcquire, Enter
  <2> HIDE DEF granted
  <2>2. Owned' = Owned /\ Live' = Live /\ Live \subseteq Owned
    BY <2>1, <1>t DEF Owned, Live, TypeOK, Tokens, NoLeakInv
  <2>3. Alive(img[p])' \subseteq Owned' \cup ret'[p]
    BY <2>1, <2>2, <1>t DEF Alive, TypeOK
  <2> QED BY <2>1, <2>2, <2>3, <1>t, <1>p DEF NoLeakInv, InFlock, TypeOK
<1>3. ASSUME NEW p \in Procs, Used(p)
      PROVE  NoLeakInv'
  <2>1. /\ lock = NoProc /\ lock' = p /\ file' = file /\ own' = own /\ ret' = ret
        /\ pc' = [pc EXCEPT ![p] = "locked"] /\ pc[p] = "idle"
        /\ img' = [img EXCEPT ![p] = Live]
    BY <1>3 DEF Used, Enter
  <2>2. Owned' = Owned /\ Live' = Live /\ Live \subseteq Owned
    BY <2>1, <1>t DEF Owned, Live, TypeOK, Tokens, NoLeakInv
  <2>3. Alive(img[p])' \subseteq Owned'
    BY <2>1, <2>2, <1>t DEF Alive, TypeOK
  <2> QED BY <2>1, <2>2, <2>3, <1>t, <1>p DEF NoLeakInv, InFlock, TypeOK
<1>4. ASSUME NEW p \in Procs, NEW t \in Tokens, Release(p, t)
      PROVE  NoLeakInv'
  <2>1. /\ lock = NoProc /\ lock' = p /\ file' = file /\ ret' = ret /\ t[1] = p
        /\ pc' = [pc EXCEPT ![p] = "locked"] /\ pc[p] = "idle"
        /\ img' = [img EXCEPT ![p] = Live \ {t}]
        /\ own' = [own EXCEPT ![p] = @ \ {t}]
    BY <1>4 DEF Release, Enter
  <2>2. Owned' = Owned \ {t}
    BY <2>1, <1>t DEF Owned, OwnInv, TypeOK
  <2>3. Live' = Live /\ Live \subseteq Owned
    BY <2>1, <1>t DEF Live, TypeOK, Tokens, NoLeakInv
  <2>4. Alive(img[p])' \subseteq Owned'
    BY <2>1, <2>2, <2>3, <1>t DEF Alive, TypeOK
  <2> QED BY <2>1, <2>2, <2>3, <2>4, <1>t, <1>p DEF NoLeakInv, InFlock, TypeOK
<1>5. ASSUME NEW p \in Procs, Truncate(p)
      PROVE  NoLeakInv'
  <2>1. /\ lock' = lock /\ file' = {} /\ ret' = ret /\ img' = img /\ own' = own
        /\ pc' = [pc EXCEPT ![p] = "truncated"] /\ pc[p] = "locked"
    BY <1>5 DEF Truncate
  <2>2. Owned' = Owned /\ Live' = {} /\ \A q \in Procs : Alive(img[q])' = Alive(img[q])
    BY <2>1, <1>t DEF Owned, Live, Alive, TypeOK, Tokens
  <2> QED BY <2>1, <2>2, <1>t DEF NoLeakInv, InFlock, TypeOK
<1>6. ASSUME NEW p \in Procs, Write(p)
      PROVE  NoLeakInv'
  <2>1. /\ lock' = NoProc /\ file' = img[p] /\ pc[p] = "truncated"
        /\ pc' = [pc EXCEPT ![p] = IF call[p] = "acquire" /\ ret[p] = {}
                                   THEN "refused" ELSE "idle"]
        /\ own' = [own EXCEPT ![p] = @ \cup ret[p]]
    BY <1>6 DEF Write
  <2>2. Owned' = Owned \cup ret[p]
    BY <2>1, <1>t DEF Owned, TypeOK
  <2>3. Live' = Alive(img[p])
    BY <2>1, <1>t DEF Live, Alive, TypeOK, Tokens
  <2>4. Live' \subseteq Owned'
    BY <2>1, <2>2, <2>3, <1>t DEF NoLeakInv, InFlock
  <2>5. \A q \in Procs : ~InFlock(q)'
    BY <2>1, <1>t, <1>p DEF InFlock, TypeOK
  <2> QED BY <2>4, <2>5 DEF NoLeakInv, InFlock
<1>7. ASSUME NEW p \in Procs, Timeout(p)
      PROVE  NoLeakInv'
  <2>1. Owned' = Owned /\ pc' = [pc EXCEPT ![p] = "idle"] /\ pc[p] = "refused"
        /\ file' = file /\ lock' = lock /\ img' = img /\ ret' = ret
    BY <1>7 DEF Timeout, Owned
  <2>2. Live' = Live /\ \A q \in Procs : Alive(img[q])' = Alive(img[q])
    BY <2>1, <1>t DEF Live, Alive, TypeOK, Tokens
  <2> QED BY <2>1, <2>2, <1>t DEF NoLeakInv, InFlock, TypeOK
<1>8. ASSUME NEW p \in Procs, Crash(p)
      PROVE  NoLeakInv'
  <2>1. /\ pc[p] \notin {"dead", "truncated"} /\ pc' = [pc EXCEPT ![p] = "dead"]
        /\ lock' = IF lock = p THEN NoProc ELSE lock
        /\ own' = [own EXCEPT ![p] = {}] /\ file' = file
        /\ ret' = [ret EXCEPT ![p] = {}] /\ img' = [img EXCEPT ![p] = {}]
    BY <1>8 DEF Crash
  <2>2. Owned' = {t \in Owned : t[1] # p}
    BY <2>1, <1>t DEF Owned, OwnInv, TypeOK
  <2>3. Live' = {t \in Live : t[1] # p}
    BY <2>1, <1>t DEF Live, TypeOK, Tokens
  <2>4. \A q \in Procs \ {p} : Alive(img[q])' = {t \in Alive(img[q]) : t[1] # p}
    BY <2>1, <1>t DEF Alive, TypeOK, Tokens
  <2>5. lock' = NoProc => Live' \subseteq Owned'
    <3>1. CASE lock = p
      <4>1. pc[p] = "locked"
        BY <3>1, <2>1, <1>p DEF InFlock
      <4> QED BY <4>1, <2>2, <2>3, <1>t DEF NoLeakInv
    <3>2. CASE lock # p
      BY <3>2, <2>1, <2>2, <2>3, <1>t DEF NoLeakInv
    <3> QED BY <3>1, <3>2
  <2>6. \A q \in Procs \ {p} :
          /\ InFlock(q)' => Alive(img[q])' \subseteq Owned' \cup ret'[q]
          /\ pc'[q] = "locked" => \A t \in Live' : t[1] # q => t \in Owned'
    BY <2>1, <2>2, <2>3, <2>4, <1>t DEF NoLeakInv, InFlock, TypeOK
  <2>7. ~InFlock(p)' /\ pc'[p] # "locked"
    BY <2>1, <1>t DEF InFlock, TypeOK
  <2> QED BY <2>5, <2>6, <2>7 DEF NoLeakInv
<1>9. CASE UNCHANGED vars
  <2>1. Live' = Live /\ Owned' = Owned /\ \A q \in Procs : Alive(img[q])' = Alive(img[q])
    BY <1>9 DEF vars, Live, Owned, Alive
  <2> QED BY <1>9, <2>1, <1>t DEF vars, NoLeakInv, InFlock
<1> QED
  BY <1>1, <1>2, <1>3, <1>4, <1>5, <1>6, <1>7, <1>8, <1>9 DEF Next, Step

\* Between two calls the file lists exactly the tokens in use: no crash and no
\* interleaving makes it forget one, or keep one whose owner is alive.
THEOREM LedgerCorrect ==
  ASSUME ~CrashTears
  PROVE  Spec => []LedgerExact
<1>1. IInv /\ [Next]_vars => IInv'
  BY IInvStep
<1>2. IInv /\ NoLeakInv /\ [Next]_vars => NoLeakInv'
  BY NoLeakStep
<1>3. IInv /\ NoLeakInv => LedgerExact
  BY OwnedLive DEF NoLeakInv, LedgerExact
<1> QED
  BY <1>1, <1>2, <1>3, IInvInit, NoLeakInit, PTL DEF Spec

-----------------------------------------------------------------------------
(* The abstract pool *)

\* Every step of the semaphore is a step of the pool, or leaves it alone.
LEMMA PoolStep ==
  ASSUME IInv, [Next]_vars
  PROVE  [Pool!Next]_Owned
<1>t. TypeOK /\ SerialInv /\ OwnInv /\ ImageInv
  BY DEF IInv, TypeInv
<1>o. Owned \in SUBSET Tokens
  BY <1>t DEF Owned, TypeOK
<1>1. ASSUME NEW p \in Procs, Write(p)
      PROVE  [Pool!Next]_Owned
  <2>1. Owned' = Owned \cup ret[p]
    BY <1>1, <1>t DEF Write, Owned, TypeOK
  <2>2. CASE ret[p] = {}
    BY <2>1, <2>2
  <2>3. CASE ret[p] # {}
    <3> DEFINE token == <<p, serial[p] + 1>>
    <3>1. ret[p] = {token}
      BY <2>3, <1>t DEF SerialInv
    <3>2. img[p] \in SUBSET Tokens /\ Owned \subseteq img[p] /\ token \in img[p]
          /\ Cardinality(img[p]) <= Limit
      BY <1>1, <1>t, <3>1 DEF Write, ImageInv, InFlock, TypeOK
    <3>3. token \notin Owned
      <4>1. SUFFICES ASSUME NEW q \in Procs, token \in own[q]
                     PROVE  FALSE
        BY DEF Owned
      <4>2. q = p /\ serial[p] + 1 <= serial[p]
        BY <4>1, <1>t DEF OwnInv
      <4> QED BY <4>2, <1>t DEF TypeOK
    <3> HIDE DEF token
    <3>4. Cardinality(Owned \cup {token}) = Cardinality(Owned) + 1
          /\ Cardinality(Owned) \in Nat
      BY <1>o, <3>3, TokenSets, FS_AddElement
    <3>5. Cardinality(Owned \cup {token}) <= Cardinality(img[p])
          /\ Cardinality(img[p]) \in Nat
      BY <3>2, TokenSets
    <3>6. Cardinality(Owned) < Limit
      BY <3>2, <3>4, <3>5, LimitType
    <3>7. Pool!Cardinality(Owned) = Cardinality(Owned)
      BY DEF Pool!Cardinality, Cardinality
    <3>8. Pool!Grant(token)
      BY <2>1, <3>1, <3>3, <3>6, <3>7 DEF Pool!Grant
    <3> QED BY <3>2, <3>8 DEF Pool!Next
  <2> QED BY <2>2, <2>3
<1>2. ASSUME NEW p \in Procs, NEW t \in Tokens, Release(p, t)
      PROVE  [Pool!Next]_Owned
  <2>1. Owned' = Owned \ {t}
    BY <1>2, <1>t DEF Release, Owned, TypeOK, OwnInv
  <2>2. CASE t \in Owned
    BY <2>1, <2>2 DEF Pool!Next, Pool!Free
  <2>3. CASE t \notin Owned
    BY <2>1, <2>3
  <2> QED BY <2>2, <2>3
<1>3. ASSUME NEW p \in Procs, Crash(p)
      PROVE  [Pool!Next]_Owned
  <2>1. Owned' = Owned \ own[p] /\ own[p] \subseteq Owned
    BY <1>3, <1>t DEF Crash, Owned, TypeOK, OwnInv
  <2>2. CASE own[p] # {}
    BY <2>1, <2>2, <1>o DEF Pool!Next, Pool!Free
  <2>3. CASE own[p] = {}
    BY <2>1, <2>3
  <2> QED BY <2>2, <2>3
<1>4. ASSUME NEW p \in Procs,
             Acquire(p) \/ TryAcquire(p) \/ Used(p) \/ Truncate(p) \/ Timeout(p)
      PROVE  Owned' = Owned
  BY <1>4 DEF Acquire, TryAcquire, Used, Truncate, Timeout, Enter, Owned
<1>5. CASE UNCHANGED vars
  BY <1>5 DEF vars, Owned
<1> QED
  BY <1>1, <1>2, <1>3, <1>4, <1>5 DEF Next, Step

\* The file-backed semaphore implements the abstract slot pool: what the engine
\* may rely on is the pool, whatever the file, the lock and the crashes do.
THEOREM ImplementsPool ==
  ASSUME ~CrashTears
  PROVE  Spec => PoolSpec
<1>1. Init => Pool!Init
  BY DEF Init, Owned, Pool!Init
<1>2. IInv /\ [Next]_vars => IInv'
  BY IInvStep
<1>3. IInv /\ [Next]_vars => [Pool!Next]_Owned
  BY PoolStep
<1> QED
  BY <1>1, <1>2, <1>3, IInvInit, PTL DEF Spec, PoolSpec, Pool!Spec

=============================================================================
