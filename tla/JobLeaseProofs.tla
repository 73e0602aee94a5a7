--------------------------- MODULE JobLeaseProofs ---------------------------
(***************************************************************************)
(* Proofs about the job lease, for any number of runners and any TTL.      *)
(***************************************************************************)
EXTENDS JobLease, TLAPS

\* No two runs were granted the same identity.
TokensDiffer ==
    \A r, s \in Runners : Guarded(r) /\ Guarded(s) /\ token[r] = token[s] => r = s

LeaseInv == TypeOK /\ TokensDiffer /\ LeaseKept

LEMMA LeaseInit == Init => LeaseInv
<1>1. ASSUME Init  PROVE TypeOK
  BY <1>1, LeaseAssumption DEF Init, TypeOK
<1>2. Init => TokensDiffer /\ LeaseKept
  BY DEF Init, TokensDiffer, LeaseKept, InTime, Guarded
<1>3. QED BY <1>1, <1>2 DEF LeaseInv

\* What starting and stopping a run does to it and to the others.
LEMMA StartMoves ==
    ASSUME TypeOK, NEW r \in Runners, NEW t \in Tokens \cup {NoOne}, Start(r, t)
    PROVE  /\ pc'[r] = "running" /\ token'[r] = t /\ ran'[r] = 0
           /\ \A s \in Runners \ {r} : pc'[s] = pc[s] /\ token'[s] = token[s] /\ ran'[s] = ran[s]
           /\ pc' \in [Runners -> {"out", "running", "releasing"}]
           /\ token' \in [Runners -> Tokens \cup {NoOne}]
           /\ ran' \in [Runners -> 0 .. TTL + 1]
<1>1. 0 \in 0 .. TTL + 1  BY LeaseAssumption
<1>2. QED BY <1>1 DEF Start, TypeOK

LEMMA StopMoves ==
    ASSUME TypeOK, NEW r \in Runners, Stop(r)
    PROVE  /\ pc'[r] = "out"
           /\ \A s \in Runners \ {r} : pc'[s] = pc[s] /\ token'[s] = token[s] /\ ran'[s] = ran[s]
           /\ pc' \in [Runners -> {"out", "running", "releasing"}]
           /\ token' \in [Runners -> Tokens \cup {NoOne}]
           /\ ran' \in [Runners -> 0 .. TTL + 1]
<1>1. 0 \in 0 .. TTL + 1  BY LeaseAssumption
<1>2. QED BY <1>1 DEF Stop, TypeOK

\* While somebody is inside its time the lease cannot be claimed.
LEMMA HeldIsNotClaimable ==
    ASSUME TypeOK, LeaseKept, NEW r \in Runners, InTime(r)
    PROVE  ~Claimable
<1>1. holder = token[r] /\ left = TTL - ran[r]  BY DEF LeaseKept
<1>2. token[r] # NoOne /\ ran[r] <= TTL  BY DEF InTime, Guarded
<1>3. ran[r] \in 0 .. TTL + 1  BY DEF TypeOK
<1>4. QED BY <1>1, <1>2, <1>3, LeaseAssumption DEF Claimable

\* Every step keeps the invariant.
LEMMA LeaseNext == LeaseInv /\ [Next]_vars => LeaseInv'
<1> SUFFICES ASSUME LeaseInv, [Next]_vars  PROVE LeaseInv'
  OBVIOUS
<1>a. TypeOK /\ TokensDiffer /\ LeaseKept  BY DEF LeaseInv
<1>b. /\ holder \in Tokens \cup {NoOne} /\ left \in -1 .. TTL /\ TTL \in Nat /\ NoOne \notin Tokens
      /\ \A r \in Runners : ran[r] \in 0 .. TTL + 1
  BY <1>a, LeaseAssumption DEF TypeOK
<1>1. ASSUME NEW r \in Runners, Claim(r)  PROVE LeaseInv'
  <2>1. PICK t \in Tokens : Claimable /\ Fresh(t) /\ holder' = t /\ left' = TTL /\ Start(r, t)
    BY <1>1 DEF Claim
  <2>2. TypeOK'  BY <1>a, <1>b, <2>1, StartMoves DEF TypeOK
  <2>3. \A s \in Runners : ~InTime(s)  BY <1>a, <2>1, HeldIsNotClaimable
  <2>4. LeaseKept'  BY <1>a, <1>b, <2>1, <2>3, StartMoves DEF LeaseKept, InTime, Guarded
  <2>5. TokensDiffer'  BY <1>a, <2>1, StartMoves DEF TokensDiffer, Guarded, Fresh
  <2>6. QED BY <2>2, <2>4, <2>5 DEF LeaseInv
<1>2. ASSUME NEW r \in Runners, ClaimErrs(r)  PROVE LeaseInv'
  <2>1. Start(r, NoOne)  BY <1>2 DEF ClaimErrs
  <2>2. UNCHANGED <<holder, left>> \/ (Claimable /\ holder' \in Tokens /\ left' = TTL)
    BY <1>2 DEF ClaimErrs
  <2>3. TypeOK'  BY <1>a, <1>b, <2>1, <2>2, StartMoves DEF TypeOK
  <2>4. \A s \in Runners : InTime(s)' => InTime(s) /\ token'[s] = token[s] /\ ran'[s] = ran[s]
    BY <1>a, <2>1, StartMoves DEF InTime, Guarded
  <2>5. LeaseKept'
    <3>1. CASE UNCHANGED <<holder, left>>  BY <1>a, <2>4, <3>1 DEF LeaseKept
    <3>2. CASE Claimable  BY <1>a, <2>4, <3>2, HeldIsNotClaimable DEF LeaseKept
    <3>3. QED BY <2>2, <3>1, <3>2
  <2>6. TokensDiffer'  BY <1>a, <2>1, StartMoves DEF TokensDiffer, Guarded
  <2>7. QED BY <2>3, <2>5, <2>6 DEF LeaseInv
<1>3. ASSUME NEW r \in Runners, Finish(r)  PROVE LeaseInv'
  <2>1. CASE token[r] = NoOne
    <3>1. Stop(r) /\ UNCHANGED <<holder, left>>  BY <1>3, <2>1 DEF Finish
    <3>2. TypeOK'  BY <1>a, <3>1, StopMoves DEF TypeOK
    <3>3. LeaseKept' /\ TokensDiffer'
      BY <1>a, <3>1, StopMoves DEF LeaseKept, TokensDiffer, InTime, Guarded
    <3>4. QED BY <3>2, <3>3 DEF LeaseInv
  <2>2. CASE token[r] # NoOne
    <3>1. pc[r] = "running" /\ pc' = [pc EXCEPT ![r] = "releasing"]
          /\ UNCHANGED <<token, ran, holder, left>>
      BY <1>3, <2>2 DEF Finish
    <3>2. \A s \in Runners : pc'[s] # "out" => pc[s] # "out"  BY <1>a, <3>1 DEF TypeOK
    <3>3. TypeOK'  BY <1>a, <3>1 DEF TypeOK
    <3>4. LeaseKept' /\ TokensDiffer'
      BY <1>a, <3>1, <3>2 DEF LeaseKept, TokensDiffer, InTime, Guarded
    <3>5. QED BY <3>3, <3>4 DEF LeaseInv
  <2>3. QED BY <2>1, <2>2
<1>4. ASSUME NEW r \in Runners, Release(r)  PROVE LeaseInv'
  <2>1. pc[r] = "releasing" /\ Stop(r) /\ holder' = holder
        /\ left' = IF holder = token[r] THEN 0 ELSE left
    BY <1>4 DEF Release
  <2>2. TypeOK'  BY <1>a, <1>b, <2>1, StopMoves DEF TypeOK
  <2>3. TokensDiffer'  BY <1>a, <2>1, StopMoves DEF TokensDiffer, Guarded
  <2>4. ASSUME NEW s \in Runners, InTime(s)'  PROVE holder' = token'[s] /\ left' = TTL - ran'[s]
    <3>1. s # r  BY <1>a, <2>1, <2>4, StopMoves DEF InTime, Guarded
    <3>2. InTime(s) /\ token'[s] = token[s] /\ ran'[s] = ran[s]
      BY <1>a, <2>1, <2>4, <3>1, StopMoves DEF InTime, Guarded
    <3>3. holder = token[s] /\ left = TTL - ran[s]  BY <1>a, <3>2 DEF LeaseKept
    <3>4. holder # token[r]
      BY <1>a, <2>1, <3>1, <3>2, <3>3 DEF TokensDiffer, InTime, Guarded
    <3>5. QED BY <2>1, <3>2, <3>3, <3>4
  <2>5. QED BY <2>2, <2>3, <2>4 DEF LeaseInv, LeaseKept
<1>5. ASSUME NEW r \in Runners, Crash(r)  PROVE LeaseInv'
  <2>1. Stop(r) /\ UNCHANGED <<holder, left>>  BY <1>5 DEF Crash
  <2>2. TypeOK'  BY <1>a, <2>1, StopMoves DEF TypeOK
  <2>3. LeaseKept' /\ TokensDiffer'
    BY <1>a, <2>1, StopMoves DEF LeaseKept, TokensDiffer, InTime, Guarded
  <2>4. QED BY <2>2, <2>3 DEF LeaseInv
<1>6. CASE Tick
  <2>1. UNCHANGED <<holder, pc, token>> /\ left' = IF left > -1 THEN left - 1 ELSE left
    BY <1>6 DEF Tick
  <2>2. \A s \in Runners :
          ran'[s] = IF pc[s] # "out" /\ ran[s] <= TTL THEN ran[s] + 1 ELSE ran[s]
    BY <1>6 DEF Tick
  <2>3. ran' \in [Runners -> 0 .. TTL + 1]  BY <1>b, <1>6 DEF Tick
  <2>4. left' \in -1 .. TTL  BY <1>b, <2>1
  <2>5. TypeOK'  BY <1>a, <2>1, <2>3, <2>4 DEF TypeOK
  <2>6. TokensDiffer'  BY <1>a, <2>1 DEF TokensDiffer, Guarded
  <2>7. ASSUME NEW s \in Runners, InTime(s)'  PROVE holder' = token'[s] /\ left' = TTL - ran'[s]
    <3>1. pc[s] # "out" /\ token[s] # NoOne /\ ran'[s] <= TTL
      BY <2>1, <2>7 DEF InTime, Guarded
    <3>2. ran[s] <= TTL /\ ran'[s] = ran[s] + 1  BY <1>b, <2>2, <3>1
    <3>3. holder = token[s] /\ left = TTL - ran[s]
      BY <1>a, <3>1, <3>2 DEF LeaseKept, InTime, Guarded
    <3>4. left' = TTL - ran'[s]  BY <1>b, <2>1, <3>1, <3>2, <3>3
    <3>5. QED BY <2>1, <3>3, <3>4
  <2>8. QED BY <2>5, <2>6, <2>7 DEF LeaseInv, LeaseKept
<1>7. CASE UNCHANGED vars
  BY <1>a, <1>7 DEF vars, LeaseInv, TypeOK, TokensDiffer, LeaseKept, InTime, Guarded
<1>8. QED BY <1>1, <1>2, <1>3, <1>4, <1>5, <1>6, <1>7 DEF Next

\* Until its time is over a guarded run owns the lease, whatever the others do.
THEOREM LeaseIsKept == Spec => []LeaseKept
<1>1. LeaseInv => LeaseKept  BY DEF LeaseInv
<1>2. QED BY <1>1, LeaseInit, LeaseNext, PTL DEF Spec

\* Two guarded runs of a job overlap only if one of them has outlived its TTL.
THEOREM GuardedRunsExclude == Spec => []RunsExclude
<1>1. LeaseInv => RunsExclude
  BY DEF LeaseInv, LeaseKept, TokensDiffer, RunsExclude, InTime
<1>2. QED BY <1>1, LeaseInit, LeaseNext, PTL DEF Spec

\* The lease row and the servers' runs stay of their types.
THEOREM JobLeaseTypeCorrect == Spec => []TypeOK
<1>1. LeaseInv => TypeOK  BY DEF LeaseInv
<1>2. QED BY <1>1, LeaseInit, LeaseNext, PTL DEF Spec
=============================================================================
