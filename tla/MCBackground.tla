----------------------------- MODULE MCBackground -----------------------------
(***************************************************************************)
(* What must go on for ever, each on a small instance and under the        *)
(* fairness its module states: the job lease, the batched sweep, the       *)
(* rotation of leased accounts, and the renewal of an account's login, by  *)
(* two checks, by one while its app's secret is healed, and beside a       *)
(* Deezer cookie's resubmission.  part says which of them runs.            *)
(***************************************************************************)
EXTENDS JobLease, Sequences

CONSTANTS r1, r2, t1, t2, t3, w1, w2

VARIABLES part,
          metered, order, pending, stale, driver, call, spent, reserved, worker, owed, outside,   \* SweepBatch
          tidal, servable, expired, lru, lease, req, credit, faults, overlaps,                    \* Leases
          service, cred, print, secret, claim, live, accepted, appSecret, at, hand, harm          \* Renewal

MCRunners == {r1, r2}
MCTokens == {t1, t2, t3}

\* Three rows, two workers, a budget that a row and a half use up; nobody interferes.
SB == INSTANCE SweepBatch WITH
        Rows <- 1..3, Workers <- {w1, w2}, Parkers <- {}, Limit <- 2, AttemptMax <- 3,
        FetchBudget <- 3, PerEntryFetchMax <- 2, MaxPasses <- 5, MaxOutside <- 0

\* One request at a time, two accounts and an instance.
LE == INSTANCE Leases WITH
        Accounts <- {1, 2}, Instances <- {4}, Premium <- {1, 2}, Keys <- {"k1"}, NoKey <- "none",
        Requests <- {"r1"}, PerCategory <- 1, LeaseTTL <- 1, MaxExpired <- 1, MaxFaults <- 1,
        MaxOverlaps <- 1

Pair == INSTANCE Renewal WITH
        pc <- at, Services <- {"qobuz"}, Checks <- {1, 3}, Submits <- {}, Healers <- {},
        MaxRotations <- 0, MaxHarm <- 1
Heal == INSTANCE Renewal WITH
        pc <- at, Services <- {"qobuz"}, Checks <- {1}, Submits <- {}, Healers <- {4},
        MaxRotations <- 1, MaxHarm <- 2
Cookie == INSTANCE Renewal WITH
        pc <- at, Services <- {"deezer"}, Checks <- {1}, Submits <- {2}, Healers <- {},
        MaxRotations <- 0, MaxHarm <- 2

sweep == <<metered, order, pending, stale, driver, call, spent, reserved, worker, owed, outside>>
leases == <<tidal, servable, expired, lru, lease, req, credit, faults, overlaps>>
renewal == <<service, cred, print, secret, claim, live, accepted, appSecret, at, hand, harm>>

BackgroundInit ==
    /\ part \in {"job", "sweep", "leases", "pair", "heal", "cookie"}
    /\ Init /\ SB!Init /\ LE!Init
    /\ CASE part = "heal" -> Heal!Init [] part = "cookie" -> Cookie!Init [] OTHER -> Pair!Init
    /\ part # "sweep" => ~metered
    /\ part # "leases" => ~tidal

\* A step of one part leaves the others alone.
InJob(A) == part = "job" /\ A /\ UNCHANGED <<part, sweep, leases, renewal>>
InSweep(A) == part = "sweep" /\ A /\ UNCHANGED <<part, vars, leases, renewal>>
InLeases(A) == part = "leases" /\ A /\ UNCHANGED <<part, vars, sweep, renewal>>
InRenewal(p, A) == part = p /\ A /\ UNCHANGED <<part, vars, sweep, leases>>

BackgroundNext ==
    \/ InJob(Next) \/ InSweep(SB!Next) \/ InLeases(LE!Next)
    \/ InRenewal("pair", Pair!Next) \/ InRenewal("heal", Heal!Next) \/ InRenewal("cookie", Cookie!Next)

\* The fairness each module states.  One part runs, so a condition holds of whichever action in
\* it that part has.
all == <<part, vars, sweep, leases, renewal>>
Ends(r) == Finish(r) \/ Release(r) \/ Crash(r)
Fairness ==
    /\ WF_all(\/ InJob(Tick) \/ InSweep(SB!BeginSweep \/ SB!BeginCall \/ SB!Answer) \/ InLeases(LE!Day)
              \/ InRenewal("pair", Pair!Lapse) \/ InRenewal("heal", Heal!Lapse))
    /\ WF_all(\/ InJob(Ends(r1)) \/ InSweep(SB!WorkerNext(w1)) \/ InLeases(LE!RequestNext("r1"))
              \/ InRenewal("pair", Pair!Step(1)) \/ InRenewal("heal", Heal!Step(1)))
    /\ WF_all(InJob(Ends(r2)) \/ InSweep(SB!WorkerNext(w2)) \/ InRenewal("pair", Pair!Step(3)))
    /\ SF_all(\/ InJob(\E r \in Runners : Claim(r)) \/ InLeases(LE!LeaseBegins("r1", "k1"))
              \/ InRenewal("pair", Pair!Issues(1)) \/ InRenewal("heal", Heal!Issues(1)))
    /\ SF_all(\/ InLeases(LE!LeaseBegins("r1", "none"))
              \/ InRenewal("pair", Pair!Stores(1)) \/ InRenewal("heal", Heal!Stores(1)))
    /\ SF_all(InLeases(LE!LeaseInstances("r1")) \/ InRenewal("pair", Pair!Issues(3)))
    /\ SF_all(InRenewal("pair", Pair!Stores(3)))
BackgroundSpec == BackgroundInit /\ [][BackgroundNext]_all /\ Fairness

\* The modules' properties, each of its part.
JobIsGrantedAgain == part = "job" => JobKeepsRunning
DoneMeansAll == SB!DoneMeansAll
NoTaintedVerdict == SB!NoTaintedVerdict
TailIsReached == SB!TailIsReached
RotationReachesAll == part = "leases" => LE!RotationReachesAll
RevivedAgain == part \in {"pair", "heal"} => Pair!RevivedAgain
=============================================================================
