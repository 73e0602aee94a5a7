----------------------------- MODULE EntryHealth -----------------------------
(***************************************************************************)
(* One pool entry under the TypeScript health pipeline: the sweep          *)
(* (lib/health-sweep.ts), single checks, submissions (lib/ingest.ts), the  *)
(* instance sync (lib/instance-sync.ts), app reports                       *)
(* (app/api/report/route.ts) and the administrator, all running at once    *)
(* against one database row.  A check awaits its provider between reading  *)
(* the row and writing it, and a successful write carries the database     *)
(* time at which its transaction began; those are the points at which the  *)
(* processes interleave.                                                   *)
(*                                                                         *)
(* Payloads, labels, latencies, the health log and the counters nothing    *)
(* reads are left out.  Deleting the row (purge-entry) is left out.        *)
(***************************************************************************)
EXTENDS Naturals, FiniteSets

CONSTANTS Kind,                 \* "account" or "api"
          Sweepers,             \* workers of the cron sweep
          Callers,              \* single checks, submissions and instance syncs
          Reporters,            \* requests to /api/report
          Admins,               \* administrators at work
          NoOne,                \* nobody holds the verify lease
          AutoDisableAfter, DisableAfterReports,
          MaxFailures,          \* bound: the failure count saturates here
          MaxClock              \* bound: the database clock saturates here

ASSUME KindAssumption == Kind \in {"account", "api"}
ASSUME ProcessesAssumption ==
    NoOne \notin Reporters /\ Sweepers \cap Callers = {}
ASSUME BoundsAssumption ==
    /\ AutoDisableAfter \in Nat \ {0}
    /\ DisableAfterReports \in Nat \ {0}
    /\ MaxFailures \in Nat
    /\ DisableAfterReports <= AutoDisableAfter   \* 3 and 5 in the code
    /\ AutoDisableAfter <= MaxFailures
    /\ MaxClock \in Nat \ {0}

VARIABLES status, premium, failures, disabled, removed,
          lastOk,       \* last_ok_at: the stamp of the last recorded success, 0 for null
          age,          \* of last_checked_at: 0 inside the report cooldown, 2 past the stale window
          verifyLease,  \* who holds verify_lease_until while it lies in the future
          clock,        \* now() of the database, in stamps that are told apart
          chk,          \* the checks in progress
          rep,          \* the reports in progress
          overtaken     \* history: how successes have outranked this report

policy == <<status, premium, failures, disabled, removed>>
rowVars == <<status, premium, failures, disabled, removed, lastOk, age>>
vars == <<status, premium, failures, disabled, removed, lastOk, age, verifyLease, clock,
          chk, rep, overtaken>>

Checkers == Sweepers \cup Callers
Jobs == {"sweep", "check", "submit", "sync"}
Verdicts == {"premium", "lossy", "failed"}
Status == {"alive", "preview", "dead", "pending"}
Stamps == 0 .. MaxClock

-----------------------------------------------------------------------------
(* Conversions. *)

\* classify: the stored status of a check's outcome.
Classify(v) == CASE v = "premium" -> "alive" [] v = "lossy" -> "preview" [] v = "failed" -> "dead"

\* Mutant of StoredVerdict: a parked row answers with its status.
StoredVerdictIsStatus ==
    IF status \in {"alive", "preview"} THEN IF premium THEN "premium" ELSE "lossy" ELSE status

\* storedVerdict: what the row's last check says, read back for a report.
StoredVerdict ==
    IF status \in {"alive", "preview"} THEN IF premium THEN "premium" ELSE "lossy" ELSE "failed"

\* isFresh: the last check is inside REPORT_VERIFY_COOLDOWN_MS.
Fresh == age = 0

Servable == ~removed /\ ~disabled /\ status \in {"alive", "preview"}

Bump(n) == IF n < MaxFailures THEN n + 1 ELSE n
Tick == IF clock < MaxClock THEN clock + 1 ELSE clock

IdleCheck == [at |-> "idle", job |-> "check", known |-> FALSE, verdict |-> "failed", stamp |-> 0]
IdleReport == [at |-> "idle", type |-> "dead", started |-> 0, claimed |-> FALSE,
               verdict |-> "failed", probed |-> FALSE, seen |-> 0, stamp |-> 0]

Init ==
    /\ status = "alive" /\ premium = TRUE /\ failures = 0
    /\ disabled = FALSE /\ removed = FALSE
    /\ lastOk \in {0, 1} /\ age = 0
    /\ verifyLease = NoOne
    /\ clock = 1
    /\ chk = [c \in Checkers |-> IdleCheck]
    /\ rep = [r \in Reporters |-> IdleReport]
    /\ overtaken = [r \in Reporters |-> {}]
-----------------------------------------------------------------------------
(* What the writers do to the row. *)

\* The count and the flag a check's UPDATE computes in place.  Their mutants: the count of a
\* clean snapshot; a flag recomputed from the count alone; no disable for a lossy source.
FailuresOfSnapshot(v) == IF v = "failed" THEN 1 ELSE 0
FailuresAfter(v) == IF v = "failed" THEN Bump(failures) ELSE 0

DisabledByCountAlone(v) == IF v = "failed" THEN failures + 1 >= AutoDisableAfter ELSE v # "premium"
DisabledNeverWhenOk(v) == v = "failed" /\ (disabled \/ failures + 1 >= AutoDisableAfter)
DisabledAfter(v) ==
    IF v = "failed" THEN disabled \/ failures + 1 >= AutoDisableAfter ELSE v # "premium"

\* The sweep's and the single check's UPDATE.
RecordVerdict(v, stamp) ==
    /\ status' = Classify(v)
    /\ premium' = (v = "premium")
    /\ failures' = FailuresAfter(v)
    /\ disabled' = DisabledAfter(v)
    /\ lastOk' = IF v = "failed" THEN lastOk ELSE stamp
    /\ UNCHANGED removed

\* ingestSource on a fingerprint already stored: only a premium verdict gets here.
RecordSubmission(stamp) ==
    /\ status' = "alive" /\ premium' = TRUE /\ failures' = 0
    /\ removed' = FALSE
    /\ lastOk' = stamp
    /\ UNCHANGED disabled

\* The same two columns in the instance sync.  Mutants: the failure branch re-enables; the lossy
\* branch does not disable; a failure is not counted from the row.
SyncDisabledFails(v) == v = "lossy"
SyncDisabledKeeps(v) == v # "premium" /\ disabled
SyncDisabledAfter(v) ==
    CASE v = "premium" -> FALSE [] v = "lossy" -> TRUE [] v = "failed" -> disabled

SyncFailuresOfSnapshot(v) ==
    CASE v = "premium" -> 0 [] v = "lossy" -> failures [] v = "failed" -> 1
SyncFailuresAfter(v) ==
    CASE v = "premium" -> 0 [] v = "lossy" -> failures [] v = "failed" -> Bump(failures)

\* checkAndUpsert: a failure never disables, a lossy success stamps nothing.
RecordSync(v, stamp) ==
    /\ status' = Classify(v)
    /\ premium' = (v = "premium")
    /\ failures' = SyncFailuresAfter(v)
    /\ disabled' = SyncDisabledAfter(v)
    /\ removed' = IF v = "premium" THEN FALSE ELSE removed
    /\ lastOk' = IF v = "premium" THEN stamp ELSE lastOk

Record(job, v, stamp) ==
    /\ age' = 0
    /\ CASE job = "submit" -> RecordSubmission(stamp)
         [] job = "sync" -> RecordSync(v, stamp)
         [] OTHER -> RecordVerdict(v, stamp)

\* How a success with this stamp, landing now, outranks a report: it began after the report did,
\* or it lands after the report read the verdict it is acting on.
Outranks(stamp, r) ==
    (IF rep[r].at # "idle" /\ stamp > rep[r].started THEN {"began since"} ELSE {})
    \cup (IF rep[r].at \in {"probing", "writing", "decide"} THEN {"landed since"} ELSE {})

Overtake(v, stamp) ==
    overtaken' = IF v = "failed" THEN overtaken
                 ELSE [r \in Reporters |-> overtaken[r] \cup Outranks(stamp, r)]
-----------------------------------------------------------------------------
(* Checks: the sweep, single checks, submissions, the instance sync. *)

\* The rows the sweep selects: parked, or past the stale window.  Mutant: the stale ones only.
DueWhenStale == age = 2
Due == status = "pending" \/ age = 2

\* The cron sweep takes a due row unless it is removed.
StartSweep(c) ==
    /\ c \in Sweepers /\ chk[c].at = "idle"
    /\ ~removed /\ Due
    /\ chk' = [chk EXCEPT ![c] = [IdleCheck EXCEPT !.at = "probing", !.job = "sweep"]]
    /\ UNCHANGED <<rowVars, verifyLease, clock, rep, overtaken>>

\* A check the administrator asks for (a forced sweep is one of these) or a resubmission takes
\* the row in any state; the instance sync skips a listed URL known to be good.
StartCall(c) == \E job \in Jobs \ {"sweep"} :
    /\ c \in Callers /\ chk[c].at = "idle"
    /\ job = "sync" => /\ Kind = "api"
                       /\ removed \/ disabled \/ age = 2 \/ status \notin {"alive", "preview"}
    /\ chk' = [chk EXCEPT ![c] = [IdleCheck EXCEPT !.at = "probing", !.job = job,
                                                   !.known = (job = "sync" /\ ~removed)]]
    /\ UNCHANGED <<rowVars, verifyLease, clock, rep, overtaken>>

\* Whether a verdict of this job is written at all.
Stored(job, v, known) ==
    CASE job = "submit" -> v = "premium"
      [] job = "sync" -> v = "premium" \/ known
      [] OTHER -> TRUE

\* The provider answers.  The writing transaction of a success begins here and takes its stamp.
Answer(c) == \E v \in Verdicts :
    /\ chk[c].at = "probing"
    /\ IF Stored(chk[c].job, v, chk[c].known)
       THEN /\ clock' = IF v = "failed" THEN clock ELSE Tick
            /\ chk' = [chk EXCEPT ![c] = [@ EXCEPT !.at = "writing", !.verdict = v, !.stamp = clock']]
       ELSE UNCHANGED clock /\ chk' = [chk EXCEPT ![c] = IdleCheck]
    /\ UNCHANGED <<rowVars, verifyLease, rep, overtaken>>

\* No verdict: skipped (refresh cooling, claim lost), a fetch budget spent, or the process died.
\* Nothing is written.
GiveUp(c) ==
    /\ chk[c].at # "idle"
    /\ chk' = [chk EXCEPT ![c] = IdleCheck]
    /\ UNCHANGED <<rowVars, verifyLease, clock, rep, overtaken>>

\* The verdict lands on the row as it is now.
Commit(c) ==
    /\ chk[c].at = "writing"
    /\ Record(chk[c].job, chk[c].verdict, chk[c].stamp)
    /\ Overtake(chk[c].verdict, chk[c].stamp)
    /\ chk' = [chk EXCEPT ![c] = IdleCheck]
    /\ UNCHANGED <<verifyLease, clock, rep>>
-----------------------------------------------------------------------------
(* Reports. *)

\* The request arrives and takes the database's now() before it looks at the entry.
Arrive(r) == \E type \in {"dead", "not_premium"} :
    /\ rep[r].at = "idle"
    /\ clock + 1 < MaxClock
    /\ clock' = clock + 1
    /\ rep' = [rep EXCEPT ![r] = [IdleReport EXCEPT !.at = "arrived", !.type = type, !.started = clock']]
    /\ UNCHANGED <<rowVars, verifyLease, chk, overtaken>>

\* The row on record answers, as it reads now.
UseStored(r) ==
    rep' = [rep EXCEPT ![r] = [@ EXCEPT !.at = "decide", !.verdict = StoredVerdict, !.seen = lastOk]]

\* The entry snapshot: a fresh verdict answers the report, a stale one sends it for the lease.
Lookup(r) ==
    /\ rep[r].at = "arrived"
    /\ IF Fresh THEN UseStored(r) ELSE rep' = [rep EXCEPT ![r] = [@ EXCEPT !.at = "claim"]]
    /\ UNCHANGED <<rowVars, verifyLease, clock, chk, overtaken>>

\* The claim's WHERE.  Mutant: every claim wins.
LeaseFreeAlways == TRUE
LeaseFree == verifyLease = NoOne

\* Claim verify_lease_until; only one claim wins until it lapses.
ClaimLease(r) ==
    /\ rep[r].at = "claim"
    /\ rep' = [rep EXCEPT ![r] = [@ EXCEPT !.at = "reread", !.claimed = LeaseFree]]
    /\ verifyLease' = IF LeaseFree THEN r ELSE verifyLease
    /\ UNCHANGED <<rowVars, clock, chk, overtaken>>

\* Read the row again: a loser, or a claimant the row no longer needs, uses it; the claimant of a
\* stale row probes, and remembers the success marker it read.
Reread(r) ==
    /\ rep[r].at = "reread"
    /\ IF rep[r].claimed /\ ~Fresh
       THEN rep' = [rep EXCEPT ![r] = [@ EXCEPT !.at = "probing", !.probed = TRUE, !.seen = lastOk]]
       ELSE UseStored(r)
    /\ UNCHANGED <<rowVars, verifyLease, clock, chk, overtaken>>

\* checkEntryById answers inside the report: a verdict to write, or none ("skipped"), or it threw.
ProbeAnswer(r) == \E v \in Verdicts \cup {"skipped", "unavailable"} :
    /\ rep[r].at = "probing"
    /\ clock' = IF v \in {"premium", "lossy"} THEN Tick ELSE clock
    /\ rep' = [rep EXCEPT ![r] = [@ EXCEPT !.at = IF v \in Verdicts THEN "writing" ELSE "decide",
                                           !.verdict = v, !.stamp = clock']]
    /\ UNCHANGED <<rowVars, verifyLease, chk, overtaken>>

\* Its transaction commits; the acknowledgement may be lost, and then the check appears to throw.
ProbeCommit(r) == \E outcome \in {rep[r].verdict, "unavailable"} :
    /\ rep[r].at = "writing"
    /\ Record("check", rep[r].verdict, rep[r].stamp)
    /\ Overtake(rep[r].verdict, rep[r].stamp)
    /\ rep' = [rep EXCEPT ![r] = [@ EXCEPT !.at = "decide", !.verdict = outcome]]
    /\ UNCHANGED <<verifyLease, clock, chk>>

\* A dead report parks the entry unless the verdict is ok or inconclusive (skipped).
Parks(r) == rep[r].type = "dead" /\ rep[r].verdict \in {"failed", "unavailable"}

\* reportCounts: a probe that ran already recorded its own failure, unless it seems to have thrown.
Counts(r) == ~rep[r].probed \/ rep[r].verdict = "unavailable"

\* The count the threshold is compared with.  Mutant: without the report's own failure.
CountBefore(r) == failures
CountWith(r) == failures + (IF Counts(r) THEN 1 ELSE 0)

\* The park UPDATE's WHERE: the verdict's success marker is still the row's, and predates the
\* report.  Mutant: only the second half.
CurrentByStart(r) == lastOk = 0 \/ lastOk < rep[r].started
Current(r) == lastOk = rep[r].seen /\ (lastOk = 0 \/ lastOk < rep[r].started)

\* The request ends; what it remembered goes with it.
Finish(r) ==
    /\ rep' = [rep EXCEPT ![r] = IdleReport]
    /\ overtaken' = [overtaken EXCEPT ![r] = {}]

\* The guarded UPDATE that counts, parks and disables in one statement.
Park(r) ==
    /\ rep[r].at = "decide" /\ Parks(r)
    /\ IF Current(r)
       THEN /\ status' = "pending"
            /\ failures' = IF Counts(r) THEN Bump(failures) ELSE failures
            /\ disabled' = (disabled \/ CountWith(r) >= DisableAfterReports)
       ELSE UNCHANGED <<status, failures, disabled>>
    /\ Finish(r)
    /\ UNCHANGED <<premium, removed, lastOk, age, verifyLease, clock, chk>>

\* Every other outcome leaves the row alone; so does a request that dies on the way.
Dismiss(r) ==
    /\ rep[r].at = "decide" /\ ~Parks(r)
    /\ Finish(r)
    /\ UNCHANGED <<rowVars, verifyLease, clock, chk>>

Die(r) ==
    /\ rep[r].at # "idle"
    /\ Finish(r)
    /\ UNCHANGED <<rowVars, verifyLease, clock, chk>>
-----------------------------------------------------------------------------
(* Time and the administrator. *)

Age ==
    /\ age < 2
    /\ age' = age + 1
    /\ UNCHANGED <<policy, lastOk, verifyLease, clock, chk, rep, overtaken>>

\* VERIFY_LEASE_SECS is more than twice PROBE_BUDGET_MS: the lease outlives its holder's probe.
Verifying(r) == rep[r].claimed /\ rep[r].at \in {"reread", "probing"}

LeaseLapse ==
    /\ verifyLease # NoOne
    /\ ~Verifying(verifyLease)
    /\ verifyLease' = NoOne
    /\ UNCHANGED <<rowVars, clock, chk, rep, overtaken>>

\* admin/remove hides or restores; admin/purge-dead hides a dead entry.
Moderate(a) ==
    /\ removed' \in BOOLEAN
    /\ UNCHANGED <<status, premium, failures, disabled, lastOk, age,
                   verifyLease, clock, chk, rep, overtaken>>

CheckStep(c) == StartSweep(c) \/ StartCall(c) \/ Answer(c) \/ GiveUp(c) \/ Commit(c)

ReportStep(r) ==
    \/ Arrive(r) \/ Lookup(r) \/ ClaimLease(r) \/ Reread(r) \/ ProbeAnswer(r) \/ ProbeCommit(r)
    \/ Park(r) \/ Dismiss(r) \/ Die(r)

Next ==
    \/ \E c \in Checkers : CheckStep(c)
    \/ \E r \in Reporters : ReportStep(r)
    \/ (\E a \in Admins : Moderate(a)) \/ Age \/ LeaseLapse

Spec == Init /\ [][Next]_vars

\* The cron route sweeps again and again, a sweep's check ends, a verdict it reached is written,
\* and a provider asked over and over answers some time.
Fairness == \A c \in Sweepers :
    /\ WF_vars(StartSweep(c))
    /\ WF_vars(GiveUp(c) \/ Answer(c) \/ Commit(c))
    /\ SF_vars(Answer(c)) /\ SF_vars(Commit(c))

FairSpec == Spec /\ Fairness
-----------------------------------------------------------------------------
(* Properties. *)

CheckState == [at : {"idle", "probing", "writing"}, job : Jobs, known : BOOLEAN,
               verdict : Verdicts, stamp : Stamps]
ReportState == [at : {"idle", "arrived", "claim", "reread", "probing", "writing", "decide"},
                type : {"dead", "not_premium"}, started : Stamps, claimed : BOOLEAN,
                verdict : Verdicts \cup {"skipped", "unavailable"}, probed : BOOLEAN,
                seen : Stamps, stamp : Stamps]

\* Every column, clock and process record stays in its range.
TypeOK ==
    /\ status \in Status /\ premium \in BOOLEAN /\ failures \in 0 .. MaxFailures
    /\ disabled \in BOOLEAN /\ removed \in BOOLEAN
    /\ lastOk \in Stamps /\ age \in 0 .. 2
    /\ verifyLease \in Reporters \cup {NoOne}
    /\ clock \in Stamps
    /\ chk \in [Checkers -> CheckState]
    /\ rep \in [Reporters -> ReportState]
    /\ overtaken \in [Reporters -> SUBSET {"began since", "landed since"}]

\* A report's probe writes only a verdict, and only an API instance is synced.
WorkOK ==
    /\ \A r \in Reporters : rep[r].at = "writing" => rep[r].verdict \in Verdicts
    /\ \A c \in Checkers : chk[c].job = "sync" => Kind = "api"

\* Whatever writers race, an entry that is handed out last passed a premium check with nothing
\* held against it (the premium-only policy of lib/health-sweep.ts and accountServableWhere).
ServableIsPremium == Servable => status = "alive" /\ premium /\ failures = 0

\* Why that is so: what each status says of the other columns.
RowClean ==
    /\ status = "alive" => premium /\ failures = 0
    /\ status = "preview" => disabled

\* An account at the check threshold is disabled, and a parked entry at the report threshold is
\* disabled, whichever mixture of checks and reports brought the count there.
ThresholdsDisable ==
    /\ Kind = "account" /\ failures >= AutoDisableAfter => disabled
    /\ status = "pending" /\ failures >= DisableAfterReports => disabled

\* At most one report is asking the provider about the entry at any time (the verify lease).
SingleReportProbe ==
    \A r, s \in Reporters : rep[r].at = "probing" /\ rep[s].at = "probing" => r = s

\* Why that is so: whoever verifies under a claim is the one the lease names.
LeaseHeld ==
    \A r \in Reporters :
        /\ Verifying(r) => verifyLease = r
        /\ rep[r].at = "probing" => rep[r].claimed

\* "a failed check can only add to the disabled state, never undo one": an entry is re-enabled
\* only by a write that records a premium verdict and clears the failures.
DisableSticks ==
    [][disabled /\ ~disabled' => status' = "alive" /\ premium' /\ failures' = 0]_vars

\* The report in its last step, changing the row.
ParkChanges(r) == rep[r].at = "decide" /\ rep'[r].at = "idle" /\ policy' # policy

\* "A fresh success always outranks a report": no report changes the row when a success has landed
\* since the report read the verdict it is acting on.
FreshSuccessOutranksReport ==
    [][\A r \in Reporters : ParkChanges(r) => "landed since" \notin overtaken[r]]_vars

\* The guarded UPDATE "does nothing when a check that succeeded after the report began already
\* landed" (docs/REPORT_ENDPOINT.md).
SuccessSinceReportOutranksIt ==
    [][\A r \in Reporters : ParkChanges(r) => "began since" \notin overtaken[r]]_vars

\* "recent and dead means the entry is already parked and the park path is a no-op"
\* (app/api/report/route.ts): a report that did not probe leaves a parked row as it is.
FreshDeadReportIsNoOp ==
    [][\A r \in Reporters :
          rep[r].at = "decide" /\ ~rep[r].probed /\ status = "pending" => ~ParkChanges(r)]_vars

\* A parked entry is neither servable nor dead: the sweep re-verifies it before long.
ParkedIsReverified == (status = "pending" /\ ~removed) ~> (status # "pending" \/ removed)

Policy == INSTANCE EntryPolicy

\* Through every interleaving each step changes the row as some verdict applied to the current
\* row would: no snapshot, stale read or lost update shows.
ImplementsPolicy == Policy!Spec
=============================================================================
