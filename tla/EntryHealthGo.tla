---------------------------- MODULE EntryHealthGo ----------------------------
(***************************************************************************)
(* The pool entry of EntryHealth under the Go server: the sweep, single    *)
(* checks, the instance sync and submissions (server/internal/health), and *)
(* app reports (server/internal/httpapi/report.go).  A check computes the  *)
(* row's next count and flag from the row as it read it before it asked    *)
(* the provider, and writes both back when the answer comes; a job lease   *)
(* keeps two sweeps apart, and nothing keeps the other writers apart.      *)
(*                                                                         *)
(* Abstracted: as in EntryHealth; the instance sync's own lease (the model *)
(* lets syncs overlap); the lease's clock (JobLease has it).               *)
(***************************************************************************)
EXTENDS Naturals

CONSTANTS Kind,                 \* "account" or "api"
          Sweepers,             \* runs of the health sweep, cron or forced
          Callers,              \* single checks, submissions and instance syncs
          Reporters,            \* requests to /api/report
          Admins,               \* administrators at work
          NoOne,                \* nobody holds the sweep lease
          Gone,                 \* its holder is gone: it waits for its time to run out
          ClaimCanFail,         \* whether claiming the lease may fail with an error
          AutoDisableAfter, DisableAfterReports,
          MaxFailures           \* bound: the failure count saturates here

ASSUME KindAssumption == Kind \in {"account", "api"}
ASSUME ProcessesAssumption ==
    /\ Sweepers \cap Callers = {} /\ Sweepers \cap Reporters = {} /\ Callers \cap Reporters = {}
    /\ NoOne \notin Sweepers /\ Gone \notin Sweepers /\ NoOne # Gone
    /\ ClaimCanFail \in BOOLEAN
ASSUME BoundsAssumption ==
    /\ AutoDisableAfter \in Nat \ {0}
    /\ DisableAfterReports \in Nat \ {0}
    /\ MaxFailures \in Nat
    /\ DisableAfterReports <= AutoDisableAfter   \* 3 and 5 in the code
    /\ AutoDisableAfter <= MaxFailures

VARIABLES status, premium, failures, disabled, removed,
          stale,         \* last_checked_at is past the sweep's (and the sync's) window
          lease,         \* the holder of the "health-sweep" job lease
          pc,            \* where each process is
          job,           \* what a caller is doing, what a reporter reports
          seenFailures,  \* consecutive_failures as the process read it
          seenDisabled,  \* disabled as the process read it
          known,         \* the sync found the URL listed and not removed
          unchecked,     \* the report's check could not run (live == nil)
          overtaken      \* history: someone else's success was recorded since the report began

policy == <<status, premium, failures, disabled, removed>>
rowVars == <<status, premium, failures, disabled, removed, stale>>
reads == <<job, seenFailures, seenDisabled, known>>
vars == <<status, premium, failures, disabled, removed, stale, lease,
          pc, job, seenFailures, seenDisabled, known, unchecked, overtaken>>

Processes == Sweepers \cup Callers \cup Reporters
Verdicts == {"premium", "lossy", "failed"}
Jobs == {"sweep", "check", "submit", "sync", "dead", "not_premium"}

\* What Classify would be if the outcome were stored as it is; classify.
ClassifyRaw(v) == v
Classify(v) == CASE v = "premium" -> "alive" [] v = "lossy" -> "preview" [] v = "failed" -> "dead"

Servable == ~removed /\ ~disabled /\ status \in {"alive", "preview"}

Bump(n) == IF n < MaxFailures THEN n + 1 ELSE n

IdleJob(p) == IF p \in Sweepers THEN "sweep" ELSE IF p \in Callers THEN "check" ELSE "dead"

Goto(p, place) == pc' = [pc EXCEPT ![p] = place]

\* On to a place where the copy of the row is not needed any more.
Leave(p, place) ==
    /\ Goto(p, place)
    /\ job' = [job EXCEPT ![p] = IdleJob(p)]
    /\ seenFailures' = [seenFailures EXCEPT ![p] = 0]
    /\ seenDisabled' = [seenDisabled EXCEPT ![p] = FALSE]
    /\ known' = [known EXCEPT ![p] = FALSE]

Init ==
    /\ status = "alive" /\ premium = TRUE /\ failures = 0
    /\ disabled = FALSE /\ removed = FALSE /\ stale = FALSE
    /\ lease = NoOne
    /\ pc = [p \in Processes |-> "idle"]
    /\ job = [p \in Processes |-> IdleJob(p)]
    /\ seenFailures = [p \in Processes |-> 0]
    /\ seenDisabled = [p \in Processes |-> FALSE]
    /\ known = [p \in Processes |-> FALSE]
    /\ unchecked = [p \in Reporters |-> FALSE]
    /\ overtaken = [p \in Reporters |-> FALSE]
-----------------------------------------------------------------------------
(* What the writers do to the row. *)

\* The row is read; a check will compute the next row from this copy.
Take(p) ==
    /\ seenFailures' = [seenFailures EXCEPT ![p] = failures]
    /\ seenDisabled' = [seenDisabled EXCEPT ![p] = disabled]

\* nextConsecutive and nextDisabled.  Mutant: a lossy source is left as it was read.
NextConsecutive(p, v) == IF v = "failed" THEN Bump(seenFailures[p]) ELSE 0

NextDisabledLossyKept(p, v) ==
    CASE v = "failed" -> seenDisabled[p] \/ seenFailures[p] + 1 >= AutoDisableAfter
      [] v = "lossy" -> seenDisabled[p]
      [] v = "premium" -> FALSE
NextDisabled(p, v) ==
    CASE v = "failed" -> seenDisabled[p] \/ seenFailures[p] + 1 >= AutoDisableAfter
      [] v = "lossy" -> TRUE
      [] v = "premium" -> FALSE

\* The UPDATE of the sweep and of CheckEntryByID.
WriteCheck(p, v) ==
    /\ status' = Classify(v) /\ premium' = (v = "premium")
    /\ failures' = NextConsecutive(p, v) /\ disabled' = NextDisabled(p, v)
    /\ UNCHANGED removed

\* IngestSource on a fingerprint already stored: only a premium verdict gets here.
WriteSubmission ==
    /\ status' = "alive" /\ premium' = TRUE /\ failures' = 0 /\ removed' = FALSE
    /\ UNCHANGED disabled

\* The three UPDATEs of SyncInstanceURLs, which count in place.
WriteSync(v) ==
    /\ status' = Classify(v) /\ premium' = (v = "premium")
    /\ failures' = CASE v = "premium" -> 0 [] v = "lossy" -> failures [] v = "failed" -> Bump(failures)
    /\ disabled' = CASE v = "premium" -> FALSE [] v = "lossy" -> TRUE [] v = "failed" -> disabled
    /\ removed' = (v # "premium" /\ removed)

\* A success recorded by p outranks the reports that have begun and not parked yet.
Overtake(p, v) ==
    overtaken' = [r \in Reporters |->
        pc'[r] \in {"probing", "park"} /\ (overtaken[r] \/ (r # p /\ v # "failed"))]
-----------------------------------------------------------------------------
(* The sweep. *)

\* ClaimJob's WHERE.  Mutant: every claim wins.
LeaseFreeAlways == TRUE
LeaseFree == lease = NoOne

\* A run that finds the lease taken does nothing; one whose claim fails goes on without it.
ClaimSweep(w) ==
    /\ pc[w] = "idle" /\ LeaseFree
    /\ lease' = w
    /\ Goto(w, "reading")
    /\ UNCHANGED <<rowVars, reads, unchecked, overtaken>>

ClaimError(w) ==
    /\ ClaimCanFail /\ pc[w] = "idle"
    /\ Goto(w, "reading")
    /\ UNCHANGED <<rowVars, lease, reads, unchecked, overtaken>>

\* A row is due when it is parked or past the stale window.  Mutant: past the window only.
DueWhenStale == stale
Due == status = "pending" \/ stale

\* AllPoolEntries and the due filter; a forced sweep takes the row whenever it is not removed.
ReadAll(w) == \E force \in BOOLEAN :
    /\ pc[w] = "reading"
    /\ IF ~removed /\ (force \/ Due)
       THEN Take(w) /\ Goto(w, "probing")
       ELSE Goto(w, "ending") /\ UNCHANGED <<seenFailures, seenDisabled>>
    /\ UNCHANGED <<rowVars, lease, job, known, unchecked, overtaken>>

\* The provider has answered.
SweepWrite(w) == \E v \in Verdicts :
    /\ pc[w] = "probing"
    /\ WriteCheck(w, v) /\ stale' = FALSE
    /\ Leave(w, "ending")
    /\ Overtake(w, v)
    /\ UNCHANGED <<lease, unchecked>>

\* The check panicked or its UPDATE failed: the run goes on with its next row.
SweepSkip(w) ==
    /\ pc[w] = "probing"
    /\ Leave(w, "ending")
    /\ UNCHANGED <<rowVars, lease, unchecked, overtaken>>

\* The deferred release; if it fails the lease runs out by itself.
EndSweep(w) ==
    /\ pc[w] = "ending"
    /\ Goto(w, "idle")
    /\ lease' \in IF lease = w THEN {NoOne, Gone} ELSE {lease}
    /\ UNCHANGED <<rowVars, reads, unchecked, overtaken>>

SweepDies(w) ==
    /\ pc[w] # "idle"
    /\ Leave(w, "idle")
    /\ lease' = IF lease = w THEN Gone ELSE lease
    /\ UNCHANGED <<rowVars, unchecked, overtaken>>

\* "the TTL is longer than any real run": only a lease nobody works under runs out.
LeaseLapse ==
    /\ lease = Gone
    /\ lease' = NoOne
    /\ UNCHANGED <<rowVars, pc, reads, unchecked, overtaken>>
-----------------------------------------------------------------------------
(* Single checks, submissions, the instance sync. *)

Skipped == ~removed /\ ~disabled /\ ~stale /\ status \in {"alive", "preview"}

StartCall(c) == \E j \in {"check", "submit", "sync"} :
    /\ pc[c] = "idle"
    /\ j = "sync" => Kind = "api" /\ ~Skipped
    /\ job' = [job EXCEPT ![c] = j]
    /\ known' = [known EXCEPT ![c] = ~removed]
    /\ Take(c)
    /\ Goto(c, "probing")
    /\ UNCHANGED <<rowVars, lease, unchecked, overtaken>>

CallWrite(c) == \E v \in Verdicts :
    /\ pc[c] = "probing"
    /\ \/ job[c] = "check" /\ WriteCheck(c, v)
       \/ job[c] = "submit" /\ v = "premium" /\ WriteSubmission
       \/ job[c] = "sync" /\ (v = "premium" \/ known[c]) /\ WriteSync(v)
    /\ stale' = FALSE
    /\ Leave(c, "idle")
    /\ Overtake(c, v)
    /\ UNCHANGED <<lease, unchecked>>

\* A verdict that is not stored, a failed UPDATE, or a call that died.
CallEnds(c) ==
    /\ pc[c] = "probing"
    /\ Leave(c, "idle")
    /\ UNCHANGED <<rowVars, lease, unchecked, overtaken>>
-----------------------------------------------------------------------------
(* Reports. *)

\* Every report reads the entry and checks it live.
Arrive(r) == \E j \in {"dead", "not_premium"} :
    /\ pc[r] = "idle"
    /\ job' = [job EXCEPT ![r] = j]
    /\ Take(r)
    /\ Goto(r, "probing")
    /\ UNCHANGED <<rowVars, lease, known, unchecked, overtaken>>

\* CheckEntryByID records its verdict.  Only a dead report that got a failure, or no answer
\* because the statement's acknowledgement was lost, goes on to park the entry.
ReportWrite(r) == \E v \in Verdicts, acknowledged \in BOOLEAN :
    /\ pc[r] = "probing"
    /\ WriteCheck(r, v) /\ stale' = FALSE
    /\ LET parks == job[r] = "dead" /\ (v = "failed" \/ ~acknowledged)
       IN /\ Leave(r, IF parks THEN "park" ELSE "idle")
          /\ unchecked' = [unchecked EXCEPT ![r] = parks /\ ~acknowledged]
    /\ Overtake(r, v)
    /\ UNCHANGED lease

\* The check could not run and recorded nothing.
ReportUnchecked(r) ==
    /\ pc[r] = "probing"
    /\ Leave(r, IF job[r] = "dead" THEN "park" ELSE "idle")
    /\ unchecked' = [unchecked EXCEPT ![r] = (job[r] = "dead")]
    /\ overtaken' = [overtaken EXCEPT ![r] = @ /\ job[r] = "dead"]
    /\ UNCHANGED <<rowVars, lease>>

\* The check's answer has served its purpose.
Forget(r) ==
    /\ unchecked' = [unchecked EXCEPT ![r] = FALSE]
    /\ overtaken' = [overtaken EXCEPT ![r] = FALSE]

\* Three statements: park (counting a failure if the check recorded none), read the count back,
\* disable at the threshold.
Park(r) ==
    /\ pc[r] = "park"
    /\ status' = "pending"
    /\ failures' = IF unchecked[r] THEN Bump(failures) ELSE failures
    /\ Goto(r, "count")
    /\ Forget(r)
    /\ UNCHANGED <<premium, disabled, removed, stale, lease, reads>>

ReadCount(r) ==
    /\ pc[r] = "count"
    /\ Goto(r, IF failures >= DisableAfterReports THEN "disable" ELSE "idle")
    /\ UNCHANGED <<rowVars, lease, reads, unchecked, overtaken>>

Disable(r) ==
    /\ pc[r] = "disable"
    /\ disabled' = TRUE
    /\ Goto(r, "idle")
    /\ UNCHANGED <<status, premium, failures, removed, stale, lease, reads, unchecked, overtaken>>

\* A statement fails, or the client goes away and takes the request's context with it.
ReportDies(r) ==
    /\ pc[r] # "idle"
    /\ Leave(r, "idle")
    /\ Forget(r)
    /\ UNCHANGED <<rowVars, lease>>
-----------------------------------------------------------------------------
(* Time and the administrator. *)

Age ==
    /\ ~stale
    /\ stale' = TRUE
    /\ UNCHANGED <<policy, lease, pc, reads, unchecked, overtaken>>

Moderate(a) ==
    /\ removed' \in BOOLEAN
    /\ UNCHANGED <<status, premium, failures, disabled, stale, lease, pc, reads, unchecked, overtaken>>

SweepStep(w) ==
    ClaimSweep(w) \/ ClaimError(w) \/ ReadAll(w) \/ SweepWrite(w) \/ SweepSkip(w) \/ EndSweep(w)
    \/ SweepDies(w)
CallStep(c) == StartCall(c) \/ CallWrite(c) \/ CallEnds(c)
ReportStep(r) ==
    Arrive(r) \/ ReportWrite(r) \/ ReportUnchecked(r) \/ Park(r) \/ ReadCount(r) \/ Disable(r)
    \/ ReportDies(r)

Next ==
    \/ \E w \in Sweepers : SweepStep(w)
    \/ \E c \in Callers : CallStep(c)
    \/ \E r \in Reporters : ReportStep(r)
    \/ (\E a \in Admins : Moderate(a)) \/ Age \/ LeaseLapse

Spec == Init /\ [][Next]_vars

\* The scheduler starts sweeps again and again; a run proceeds, and among the runs that reach the
\* row not every one dies or fails there; an orphaned lease runs out.
Fairness ==
    /\ WF_vars(LeaseLapse)
    /\ \A w \in Sweepers :
        /\ SF_vars(ClaimSweep(w)) /\ SF_vars(ReadAll(w)) /\ SF_vars(SweepWrite(w))
        /\ WF_vars(EndSweep(w))

FairSpec == Spec /\ Fairness
-----------------------------------------------------------------------------
(* Properties. *)

\* Every column, process and the lease stay in their range.
TypeOK ==
    /\ status \in {"alive", "preview", "dead", "pending"} /\ premium \in BOOLEAN
    /\ failures \in 0 .. MaxFailures /\ disabled \in BOOLEAN /\ removed \in BOOLEAN
    /\ stale \in BOOLEAN
    /\ lease \in Sweepers \cup {NoOne, Gone}
    /\ pc \in [Processes -> {"idle", "reading", "probing", "ending", "park", "count", "disable"}]
    /\ job \in [Processes -> Jobs]
    /\ seenFailures \in [Processes -> 0 .. MaxFailures]
    /\ seenDisabled \in [Processes -> BOOLEAN]
    /\ known \in [Processes -> BOOLEAN]
    /\ unchecked \in [Reporters -> BOOLEAN]
    /\ overtaken \in [Reporters -> BOOLEAN]

\* Although counts and flags are written from old copies, an entry the server hands out
\* (accountServableSQL) last passed a premium check with nothing held against it.
ServableIsPremium == Servable => status = "alive" /\ premium /\ failures = 0

\* Why that is so: what each status says of the other columns.
RowClean ==
    /\ status = "alive" => premium /\ failures = 0
    /\ status = "preview" => disabled

\* Why sweeps do not race: a run inside the sweep holds the lease, so there is one, and the copy
\* it computes from is the row.
LeaseExcludes ==
    \A w \in Sweepers :
        /\ pc[w] # "idle" => lease = w
        /\ pc[w] = "probing" => seenFailures[w] = failures /\ seenDisabled[w] = disabled

\* A parked entry is re-verified by a sweep before long, through crashes and lost leases.
ParkedIsReverified == (status = "pending" /\ ~removed) ~> (status # "pending" \/ removed)

\* "a cron sweep disables entries after repeated failures and re-enables them if they recover"
\* (README.md): a disabled entry is enabled again only by a write that records its recovery.
ReenabledByRecovery ==
    [][disabled /\ ~disabled' => status' = "alive" /\ premium' /\ failures' = 0]_vars

\* The park of a dead report "does nothing when a check that succeeded after the report began
\* already landed" (docs/REPORT_ENDPOINT.md).
SuccessOutranksReport ==
    [][\A r \in Reporters : pc[r] = "park" /\ pc'[r] = "count" => ~overtaken[r]]_vars

Policy == INSTANCE EntryPolicy

\* What the sweep lease is for: where sweeps are the only checks, every step changes the row as
\* some verdict applied to the current row would, although verdicts are computed from copies.
ImplementsPolicy == Policy!Spec
=============================================================================
