------------------------------ MODULE JobLease ------------------------------
(***************************************************************************)
(* The lease a scheduled job takes before it works (internal/db/joblock.go)*)
(* and how the health sweep and the instance sync use it                   *)
(* (internal/health/sweep.go, sync.go): several server instances run the   *)
(* same schedule against one database, a run may crash, outlive its lease, *)
(* lose the answer to a statement, or go ahead unguarded when the claim    *)
(* fails.                                                                  *)
(*                                                                         *)
(* One job name is modelled; leases of different names share nothing.      *)
(***************************************************************************)
EXTENDS Integers

CONSTANTS Runners,  \* server instances on the schedule
          Tokens,   \* random holder identities; more than there are runners
          NoOne,    \* no row yet, or a run that holds no lease
          TTL       \* the lease's length, in units of time that are told apart

ASSUME LeaseAssumption == NoOne \notin Tokens /\ TTL \in Nat

VARIABLES holder,  \* job_locks.holder
          left,    \* job_locks.locked_until - now(), -1 once it has passed
          pc,      \* "out", "running" the job, or "releasing" the lease after it
          token,   \* the holder identity a run was granted, NoOne when it runs unguarded
          ran      \* time since the run's claim, TTL + 1 once it is over

vars == <<holder, left, pc, token, ran>>

Init ==
    /\ holder = NoOne /\ left = -1
    /\ pc = [r \in Runners |-> "out"]
    /\ token = [r \in Runners |-> NoOne]
    /\ ran = [r \in Runners |-> 0]

\* The claim's WHERE: no row, or an expired one.  Mutants: a lease can be taken at the very
\* moment it ends; only a row that was never written can be.
ClaimableAtEnd == left <= 0
ClaimableOnce == holder = NoOne
Claimable == holder = NoOne \/ left < 0

\* randomHolder: an identity no row and no run has.
Fresh(t) == t # holder /\ \A r \in Runners : token[r] # t

Start(r, t) ==
    /\ pc' = [pc EXCEPT ![r] = "running"]
    /\ token' = [token EXCEPT ![r] = t]
    /\ ran' = [ran EXCEPT ![r] = 0]

Stop(r) ==
    /\ pc' = [pc EXCEPT ![r] = "out"]
    /\ token' = [token EXCEPT ![r] = NoOne]
    /\ ran' = [ran EXCEPT ![r] = 0]

\* A run fires and its claim wins.  A claim that finds the lease held skips the run.
Claim(r) == \E t \in Tokens :
    /\ pc[r] = "out"
    /\ Claimable /\ Fresh(t)
    /\ holder' = t /\ left' = TTL
    /\ Start(r, t)

\* The claim fails, perhaps after the row was written: the run goes ahead unguarded.
ClaimErrs(r) == \E t \in Tokens :
    /\ pc[r] = "out"
    /\ \/ UNCHANGED <<holder, left>>
       \/ Claimable /\ Fresh(t) /\ holder' = t /\ left' = TTL
    /\ Start(r, NoOne)

\* The job is done.  A guarded run goes on to release its lease.
Finish(r) ==
    /\ pc[r] = "running"
    /\ IF token[r] = NoOne
       THEN Stop(r)
       ELSE pc' = [pc EXCEPT ![r] = "releasing"] /\ UNCHANGED <<token, ran>>
    /\ UNCHANGED <<holder, left>>

\* Release: ends the lease if this run still holds it.  Mutant: whoever holds it.
ReleaseAny(r) ==
    /\ pc[r] = "releasing"
    /\ left' = 0
    /\ Stop(r)
    /\ UNCHANGED holder
Release(r) ==
    /\ pc[r] = "releasing"
    /\ left' = IF holder = token[r] THEN 0 ELSE left
    /\ Stop(r)
    /\ UNCHANGED holder

\* The process dies, or the release never reaches the database.
Crash(r) ==
    /\ pc[r] # "out"
    /\ Stop(r)
    /\ UNCHANGED <<holder, left>>

Tick ==
    /\ left' = IF left > -1 THEN left - 1 ELSE left
    /\ ran' = [r \in Runners |-> IF pc[r] # "out" /\ ran[r] <= TTL THEN ran[r] + 1 ELSE ran[r]]
    /\ UNCHANGED <<holder, pc, token>>

Next ==
    \/ Tick
    \/ \E r \in Runners : Claim(r) \/ ClaimErrs(r) \/ Finish(r) \/ Release(r) \/ Crash(r)

Spec == Init /\ [][Next]_vars

\* Time passes, the job's work and its release end one way or another, and of all the claims the
\* schedule makes while the lease can be had, not every one errs.
FairSpec ==
    /\ Spec /\ WF_vars(Tick)
    /\ SF_vars(\E r \in Runners : Claim(r))
    /\ \A r \in Runners : WF_vars(Finish(r) \/ Release(r) \/ Crash(r))
-----------------------------------------------------------------------------
(* Properties. *)

\* Every variable stays in its range.
TypeOK ==
    /\ holder \in Tokens \cup {NoOne}
    /\ left \in -1 .. TTL
    /\ pc \in [Runners -> {"out", "running", "releasing"}]
    /\ token \in [Runners -> Tokens \cup {NoOne}]
    /\ ran \in [Runners -> 0 .. TTL + 1]

\* A run that was granted the lease and is inside its time.
Guarded(r) == pc[r] # "out" /\ token[r] # NoOne
InTime(r) == Guarded(r) /\ ran[r] <= TTL

\* Why the lease excludes: until its time is over a run owns the row, whatever other runs expire,
\* release late or claim.
LeaseKept == \A r \in Runners : InTime(r) => holder = token[r] /\ left = TTL - ran[r]

\* "exactly one caller per window can win" and "a run whose lease expired underneath it cannot
\* release the run that replaced it": two guarded runs overlap only if one has outlived its TTL.
RunsExclude == \A r, s \in Runners : InTime(r) /\ InTime(s) => r = s

\* "a crashed run self-heals instead of blocking the next scheduled one": the job is granted again
\* and again, although any run may crash holding the lease.
JobKeepsRunning == []<>(\E r \in Runners : InTime(r))
=============================================================================
