------------------------------- MODULE Services -------------------------------
(***************************************************************************)
(* The smaller parts of the system side by side: part says which of them  *)
(* runs, the others stay as they are: they share no state, and what holds *)
(* of all holds of each.                                                  *)
(***************************************************************************)
EXTENDS Feeds

CONSTANTS \* besides those of Feeds:
          Accounts, PoolInstances, Premium, ReadKeys, NoKey, Requests, PerCategory, LeaseTTL,
          MaxExpired, MaxFaults, MaxOverlaps,                                            \* Leases
          LeaseCallers, CheckCallers, LoserTries, MaxBackoff, MaxGrants,                 \* TidalRefresh
          Sources, Zeros, DevTokens,                                                     \* Checks
          Tabs, BrowserOf, Identities, Candidates, Names, Legacy, Servers, SignupLimit,
          MaxStarts,                                                                     \* SignIn
          MaxCodes,                                                                      \* DeviceLogin
          Rows, Workers, Parkers, BatchLimit, AttemptMax, FetchBudget, PerEntryFetchMax,
          MaxPasses, MaxOutside,                                                         \* SweepBatch
          Ids, RequestLimit, Window, MaxBuckets, MaxTime, MaxAllowed                     \* RateLimiter

VARIABLES part,   \* besides those of Feeds:
          isTidal, servable, expired, lru, lease, req, credit, faults, overlaps,         \* Leases
          token, refresh, claim, live, cooling, backoff, grants, honoured, lost,
          caller, known, cred, got, hold, tries,                                         \* TidalRefresh
          server, source, condition, seen, failed, at, premium, devToken, verdict,       \* Checks
          users, oauth, session, starts, pc, hand, acted,                                \* SignIn, with server
          mounted, phase, device, timers, polls, handle, codes, pool, asked,             \* DeviceLogin
          metered, order, pending, stale, driver, call, spent, reserved, worker, owed, outside, \* SweepBatch
          limiter, clock, inserted, hits, rows, granted, dbGranted, evicted                     \* RateLimiter

LE == INSTANCE Leases WITH tidal <- isTidal, Instances <- PoolInstances, Keys <- ReadKeys
TR == INSTANCE TidalRefresh WITH pc <- caller, Leases <- LeaseCallers, Checks <- CheckCallers
CH == INSTANCE Checks
SI == INSTANCE SignIn
DL == INSTANCE DeviceLogin WITH tidal <- codes
SB == INSTANCE SweepBatch WITH Limit <- BatchLimit
RL == INSTANCE RateLimiter WITH now <- clock, Limit <- RequestLimit, MaxGrants <- MaxAllowed
\* What the parts' constants must be.
ASSUME LeasesAssumption == IsFiniteSet(Requests) /\ NoKey \notin ReadKeys /\ LeaseTTL \in Nat \ {0}
ASSUME RefreshAssumption ==
    /\ NoOne \notin LeaseCallers \cup CheckCallers
    /\ LoserTries \in Nat /\ MaxBackoff \in Nat \ {0} /\ MaxGrants \in Nat
ASSUME ChecksAssumption == CH!ChecksConstants
ASSUME SignInAssumption == SI!SignInConstants /\ IsFiniteSet(Legacy)
ASSUME DeviceAssumption == MaxCodes \in Nat
ASSUME SweepAssumption ==
    /\ Rows \subseteq Nat \ {0} /\ IsFiniteSet(Rows) /\ IsFiniteSet(Workers)
    /\ FetchBudget \in Nat /\ PerEntryFetchMax \in Nat
    /\ MaxPasses \in Nat \ {0} /\ MaxOutside \in Nat
ASSUME LimiterAssumption == RL!RateLimiterConstants

\* The variables of each part.
feeds == vars
leases == <<isTidal, servable, expired, lru, lease, req, credit, faults, overlaps>>
refreshes == <<token, refresh, claim, live, cooling, backoff, grants, honoured, lost,
               caller, known, cred, got, hold, tries>>
checks == <<source, condition, seen, failed, at, premium, devToken, verdict>>
signin == <<users, oauth, session, starts, pc, hand, acted>>
devices == <<mounted, phase, device, timers, polls, handle, codes, pool, asked>>
sweep == <<metered, order, pending, stale, driver, call, spent, reserved, worker, owed, outside>>
limits == <<limiter, clock, inserted, hits, rows, granted, dbGranted, evicted>>
all == <<part, server, feeds, leases, refreshes, checks, signin, devices, sweep, limits>>

ServicesInit ==
    /\ part \in {"feeds", "leases", "refreshes", "checks", "signin", "devices", "sweep", "limits"}
    /\ Init /\ LE!Init /\ TR!Init /\ CH!Init /\ SI!Init /\ DL!Init /\ SB!Init /\ RL!Init
    /\ part # "feeds" => ~configured
    /\ part # "leases" => ~isTidal
    /\ part # "checks" => source = "api" /\ condition = "lossless" /\ devToken = "none"
    /\ part \notin {"checks", "signin"} => server = "ts"
    /\ part # "sweep" => ~metered
    /\ part # "limits" => limiter = "rows"

ServicesNext ==
    /\ UNCHANGED part
    /\ \/ part = "feeds" /\ Next /\ UNCHANGED <<server, leases, refreshes, checks, signin, devices, sweep, limits>>
       \/ part = "leases" /\ LE!Next /\ UNCHANGED <<server, feeds, refreshes, checks, signin, devices, sweep, limits>>
       \/ part = "refreshes" /\ TR!Next /\ UNCHANGED <<server, feeds, leases, checks, signin, devices, sweep, limits>>
       \/ part = "checks" /\ CH!Next /\ UNCHANGED <<feeds, leases, refreshes, signin, devices, sweep, limits>>
       \/ part = "signin" /\ SI!Next /\ UNCHANGED <<feeds, leases, refreshes, checks, devices, sweep, limits>>
       \/ part = "devices" /\ DL!Next /\ UNCHANGED <<server, feeds, leases, refreshes, checks, signin, sweep, limits>>
       \/ part = "sweep" /\ SB!Next /\ UNCHANGED <<server, feeds, leases, refreshes, checks, signin, devices, limits>>
       \/ part = "limits" /\ RL!Next /\ UNCHANGED <<server, feeds, leases, refreshes, checks, signin, devices, sweep>>
ServicesSpec == ServicesInit /\ [][ServicesNext]_all

\* The modules' properties, besides those of Feeds.
ReplacementIsEarned == LE!ReplacementIsEarned
SingleFlight == TR!SingleFlight
VerdictIsEarned == CH!VerdictIsEarned
OwnAccountOrCause == SI!OwnAccountOrCause
WaitingIsPolled == DL!WaitingIsPolled
DoneMeansAll == SB!DoneMeansAll
NoTaintedVerdict == SB!NoTaintedVerdict
WindowHolds == RL!WindowHolds
=============================================================================
