-------------------------- MODULE EntryHealthProofs --------------------------
(***************************************************************************)
(* Theorems about EntryHealth for any number of processes, any thresholds  *)
(* and any bounds.                                                         *)
(***************************************************************************)
EXTENDS EntryHealth, TLAPS

\* TypeOK in three parts: the row, its lease with the clock, and the processes.
RowTypeOK ==
    /\ status \in Status /\ premium \in BOOLEAN /\ failures \in 0 .. MaxFailures
    /\ disabled \in BOOLEAN /\ removed \in BOOLEAN
    /\ lastOk \in Stamps /\ age \in 0 .. 2

LeaseTypeOK == verifyLease \in Reporters \cup {NoOne} /\ clock \in Stamps

ProcTypeOK ==
    /\ chk \in [Checkers -> CheckState]
    /\ rep \in [Reporters -> ReportState]
    /\ overtaken \in [Reporters -> SUBSET {"began since", "landed since"}]

LEMMA TypeParts ==
    /\ TypeOK <=> RowTypeOK /\ LeaseTypeOK /\ ProcTypeOK
    /\ TypeOK' <=> RowTypeOK' /\ LeaseTypeOK' /\ ProcTypeOK'
  BY DEF TypeOK, RowTypeOK, LeaseTypeOK, ProcTypeOK
-----------------------------------------------------------------------------
\* Writing a verdict keeps the row well typed, whichever job writes it.
LEMMA RecordTyped ==
    ASSUME RowTypeOK, NEW job \in Jobs, NEW v \in Verdicts, NEW stamp \in Stamps,
           Record(job, v, stamp)
    PROVE  RowTypeOK'
<1>a. age' \in 0 .. 2
  BY DEF Record
<1>1. CASE job = "submit"
  <2>1. RecordSubmission(stamp)  BY <1>1 DEF Record
  <2> USE <2>1 DEF RecordSubmission, RowTypeOK
  <2>2. status' \in Status /\ premium' \in BOOLEAN  BY DEF Status
  <2>3. failures' \in 0 .. MaxFailures  BY BoundsAssumption
  <2>4. disabled' \in BOOLEAN /\ removed' \in BOOLEAN /\ lastOk' \in Stamps  OBVIOUS
  <2>5. QED BY <1>a, <2>2, <2>3, <2>4
<1>2. CASE job = "sync"
  <2>1. RecordSync(v, stamp)  BY <1>2 DEF Record
  <2> USE <2>1 DEF RecordSync, RowTypeOK, Verdicts
  <2>2. status' \in Status  BY DEF Classify, Status
  <2>3. failures' \in 0 .. MaxFailures  BY BoundsAssumption DEF SyncFailuresAfter, Bump
  <2>4. disabled' \in BOOLEAN  BY DEF SyncDisabledAfter
  <2>5. premium' \in BOOLEAN /\ removed' \in BOOLEAN /\ lastOk' \in Stamps  OBVIOUS
  <2>6. QED  BY <1>a, <2>2, <2>3, <2>4, <2>5 DEF RowTypeOK
<1>3. CASE job \in {"sweep", "check"}
  <2>1. RecordVerdict(v, stamp)  BY <1>3 DEF Record
  <2> USE <2>1 DEF RecordVerdict, RowTypeOK, Verdicts
  <2>2. status' \in Status  BY DEF Classify, Status
  <2>3. failures' \in 0 .. MaxFailures  BY BoundsAssumption DEF FailuresAfter, Bump
  <2>4. disabled' \in BOOLEAN  BY DEF DisabledAfter
  <2>5. premium' \in BOOLEAN /\ removed' \in BOOLEAN /\ lastOk' \in Stamps  OBVIOUS
  <2>6. QED  BY <1>a, <2>2, <2>3, <2>4, <2>5 DEF RowTypeOK
<1>4. QED BY <1>1, <1>2, <1>3 DEF Jobs

\* Marking the reports a success outranks keeps the history well typed.
LEMMA OvertakeTyped ==
    ASSUME overtaken \in [Reporters -> SUBSET {"began since", "landed since"}],
           NEW v, NEW stamp, Overtake(v, stamp)
    PROVE  (overtaken \in [Reporters -> SUBSET {"began since", "landed since"}])'
<1>1. \A r \in Reporters : Outranks(stamp, r) \subseteq {"began since", "landed since"}
  BY DEF Outranks
<1>2. QED BY <1>1 DEF Overtake

\* The clock's next stamp is a stamp.
LEMMA TickTyped == ASSUME clock \in Stamps PROVE Tick \in Stamps
  BY BoundsAssumption DEF Stamps, Tick

LEMMA IdleTyped == IdleCheck \in CheckState /\ IdleReport \in ReportState
  BY BoundsAssumption
  DEF IdleCheck, IdleReport, CheckState, ReportState, Jobs, Verdicts, Stamps

\* Each step of a check keeps everything well typed.
LEMMA CheckTyped ==
    ASSUME TypeOK, NEW c \in Checkers, CheckStep(c)
    PROVE  TypeOK'
<1> USE TypeParts
<1>a. RowTypeOK /\ LeaseTypeOK /\ ProcTypeOK  OBVIOUS
<1>b. chk[c] \in CheckState  BY <1>a DEF ProcTypeOK
<1>1. CASE StartSweep(c)
  <2>1. [IdleCheck EXCEPT !.at = "probing", !.job = "sweep"] \in CheckState
    BY IdleTyped DEF CheckState, IdleCheck, Jobs
  <2>2. ProcTypeOK'  BY <1>a, <1>1, <2>1 DEF StartSweep, ProcTypeOK
  <2>3. RowTypeOK' /\ LeaseTypeOK'
    BY <1>a, <1>1 DEF StartSweep, rowVars, RowTypeOK, LeaseTypeOK
  <2>4. QED BY <2>2, <2>3
<1>2. CASE StartCall(c)
  <2>1. PICK job \in Jobs \ {"sweep"} :
           chk' = [chk EXCEPT ![c] = [IdleCheck EXCEPT !.at = "probing", !.job = job,
                                                       !.known = (job = "sync" /\ ~removed)]]
    BY <1>2 DEF StartCall
  <2>2. [IdleCheck EXCEPT !.at = "probing", !.job = job, !.known = (job = "sync" /\ ~removed)]
           \in CheckState
    BY IdleTyped DEF CheckState, IdleCheck
  <2>3. ProcTypeOK'  BY <1>a, <1>2, <2>1, <2>2 DEF StartCall, ProcTypeOK
  <2>4. RowTypeOK' /\ LeaseTypeOK'
    BY <1>a, <1>2 DEF StartCall, rowVars, RowTypeOK, LeaseTypeOK
  <2>5. QED BY <2>3, <2>4
<1>3. CASE Answer(c)
  <2>1. clock' \in Stamps  BY <1>3, <1>a, TickTyped DEF Answer, LeaseTypeOK
  <2>2. PICK v \in Verdicts : \/ chk' = [chk EXCEPT ![c] = IdleCheck]
                              \/ chk' = [chk EXCEPT ![c] = [@ EXCEPT !.at = "writing", !.verdict = v,
                                                                     !.stamp = clock']]
    BY <1>3 DEF Answer
  <2>3. [chk[c] EXCEPT !.at = "writing", !.verdict = v, !.stamp = clock'] \in CheckState
    BY <1>b, <2>1 DEF CheckState
  <2>4. ProcTypeOK'  BY <1>a, <1>3, <2>2, <2>3, IdleTyped DEF Answer, ProcTypeOK
  <2>5. RowTypeOK' /\ LeaseTypeOK'
    BY <1>a, <1>3, <2>1 DEF Answer, rowVars, RowTypeOK, LeaseTypeOK
  <2>6. QED BY <2>4, <2>5
<1>4. CASE GiveUp(c)
  <2>1. ProcTypeOK'  BY <1>a, <1>4, IdleTyped DEF GiveUp, ProcTypeOK
  <2>2. RowTypeOK' /\ LeaseTypeOK'
    BY <1>a, <1>4 DEF GiveUp, rowVars, RowTypeOK, LeaseTypeOK
  <2>3. QED BY <2>1, <2>2
<1>5. CASE Commit(c)
  <2>1. chk[c].job \in Jobs /\ chk[c].verdict \in Verdicts /\ chk[c].stamp \in Stamps
    BY <1>b DEF CheckState
  <2>2. RowTypeOK'  BY <1>a, <1>5, <2>1, RecordTyped DEF Commit
  <2>3. ProcTypeOK'  BY <1>a, <1>5, IdleTyped, OvertakeTyped DEF Commit, ProcTypeOK
  <2>4. LeaseTypeOK'  BY <1>a, <1>5 DEF Commit, LeaseTypeOK
  <2>5. QED BY <2>2, <2>3, <2>4
<1>6. QED BY <1>1, <1>2, <1>3, <1>4, <1>5 DEF CheckStep

\* So does each step of a report.
LEMMA ReportTyped ==
    ASSUME TypeOK, WorkOK, NEW r \in Reporters, ReportStep(r)
    PROVE  TypeOK'
<1> USE TypeParts
<1>a. RowTypeOK /\ LeaseTypeOK /\ ProcTypeOK  OBVIOUS
<1>b. rep[r] \in ReportState  BY <1>a DEF ProcTypeOK
<1>c. lastOk \in Stamps /\ clock \in Stamps  BY <1>a DEF RowTypeOK, LeaseTypeOK
<1>d. ASSUME UseStored(r)  PROVE (rep \in [Reporters -> ReportState])'
  <2>1. [rep[r] EXCEPT !.at = "decide", !.verdict = StoredVerdict, !.seen = lastOk] \in ReportState
    BY <1>b, <1>c DEF ReportState, StoredVerdict, Verdicts
  <2>2. QED BY <1>a, <1>d, <2>1 DEF UseStored, ProcTypeOK
<1>e. ASSUME Finish(r)  PROVE (/\ rep \in [Reporters -> ReportState]
                               /\ overtaken \in [Reporters -> SUBSET {"began since", "landed since"}])'
  BY <1>a, <1>e, IdleTyped DEF Finish, ProcTypeOK
<1>1. CASE Arrive(r)
  <2>1. clock' \in Stamps  BY <1>1, <1>c, BoundsAssumption DEF Arrive, Stamps
  <2>2. PICK type \in {"dead", "not_premium"} :
          rep' = [rep EXCEPT ![r] = [IdleReport EXCEPT !.at = "arrived", !.type = type, !.started = clock']]
    BY <1>1 DEF Arrive
  <2>3. [IdleReport EXCEPT !.at = "arrived", !.type = type, !.started = clock'] \in ReportState
    BY <2>1, IdleTyped DEF ReportState, IdleReport
  <2>4. ProcTypeOK'  BY <1>a, <1>1, <2>2, <2>3 DEF Arrive, ProcTypeOK
  <2>5. RowTypeOK' /\ LeaseTypeOK'
    BY <1>a, <1>1, <2>1 DEF Arrive, rowVars, RowTypeOK, LeaseTypeOK
  <2>6. QED BY <2>4, <2>5
<1>2. CASE Lookup(r)
  <2>1. [rep[r] EXCEPT !.at = "claim"] \in ReportState  BY <1>b DEF ReportState
  <2>2. rep' \in [Reporters -> ReportState]  BY <1>a, <1>2, <1>d, <2>1 DEF Lookup, ProcTypeOK
  <2>3. ProcTypeOK'  BY <1>a, <1>2, <2>2 DEF Lookup, ProcTypeOK
  <2>4. RowTypeOK' /\ LeaseTypeOK'
    BY <1>a, <1>2 DEF Lookup, rowVars, RowTypeOK, LeaseTypeOK
  <2>5. QED BY <2>3, <2>4
<1>3. CASE ClaimLease(r)
  <2>1. [rep[r] EXCEPT !.at = "reread", !.claimed = LeaseFree] \in ReportState
    BY <1>b DEF ReportState, LeaseFree
  <2>2. ProcTypeOK'  BY <1>a, <1>3, <2>1 DEF ClaimLease, ProcTypeOK
  <2>3. RowTypeOK' /\ LeaseTypeOK'
    BY <1>a, <1>3 DEF ClaimLease, rowVars, RowTypeOK, LeaseTypeOK
  <2>4. QED BY <2>2, <2>3
<1>4. CASE Reread(r)
  <2>1. [rep[r] EXCEPT !.at = "probing", !.probed = TRUE, !.seen = lastOk] \in ReportState
    BY <1>b, <1>c DEF ReportState
  <2>2. rep' \in [Reporters -> ReportState]  BY <1>a, <1>4, <1>d, <2>1 DEF Reread, ProcTypeOK
  <2>3. ProcTypeOK'  BY <1>a, <1>4, <2>2 DEF Reread, ProcTypeOK
  <2>4. RowTypeOK' /\ LeaseTypeOK'
    BY <1>a, <1>4 DEF Reread, rowVars, RowTypeOK, LeaseTypeOK
  <2>5. QED BY <2>3, <2>4
<1>5. CASE ProbeAnswer(r)
  <2>1. clock' \in Stamps  BY <1>5, <1>c, TickTyped DEF ProbeAnswer
  <2>2. PICK v \in Verdicts \cup {"skipped", "unavailable"} :
          rep' = [rep EXCEPT ![r] = [@ EXCEPT !.at = IF v \in Verdicts THEN "writing" ELSE "decide",
                                             !.verdict = v, !.stamp = clock']]
    BY <1>5 DEF ProbeAnswer
  <2>3. [rep[r] EXCEPT !.at = IF v \in Verdicts THEN "writing" ELSE "decide",
                       !.verdict = v, !.stamp = clock'] \in ReportState
    BY <1>b, <2>1 DEF ReportState
  <2>4. ProcTypeOK'  BY <1>a, <1>5, <2>2, <2>3 DEF ProbeAnswer, ProcTypeOK
  <2>5. RowTypeOK' /\ LeaseTypeOK'
    BY <1>a, <1>5, <2>1 DEF ProbeAnswer, rowVars, RowTypeOK, LeaseTypeOK
  <2>6. QED BY <2>4, <2>5
<1>6. CASE ProbeCommit(r)
  <2>1. rep[r].verdict \in Verdicts /\ rep[r].stamp \in Stamps
    BY <1>b, <1>6 DEF WorkOK, ProbeCommit, ReportState
  <2>2. Record("check", rep[r].verdict, rep[r].stamp)  BY <1>6 DEF ProbeCommit
  <2>3. RowTypeOK'  BY <1>a, <2>1, <2>2, RecordTyped DEF Jobs
  <2>4. PICK outcome \in {rep[r].verdict, "unavailable"} :
          rep' = [rep EXCEPT ![r] = [@ EXCEPT !.at = "decide", !.verdict = outcome]]
    BY <1>6 DEF ProbeCommit
  <2>5. [rep[r] EXCEPT !.at = "decide", !.verdict = outcome] \in ReportState
    BY <1>b, <2>1 DEF ReportState
  <2>6. rep' \in [Reporters -> ReportState]  BY <1>a, <2>4, <2>5 DEF ProcTypeOK
  <2>7. ProcTypeOK'  BY <1>a, <1>6, <2>6, OvertakeTyped DEF ProbeCommit, ProcTypeOK
  <2>8. LeaseTypeOK'  BY <1>a, <1>6 DEF ProbeCommit, LeaseTypeOK
  <2>9. QED BY <2>3, <2>7, <2>8
<1>7. CASE Park(r)
  <2>1. failures' \in 0 .. MaxFailures
    BY <1>a, <1>7, BoundsAssumption DEF Park, RowTypeOK, Bump
  <2>2. disabled' \in BOOLEAN /\ status' \in Status
    BY <1>a, <1>7 DEF Park, RowTypeOK, Status
  <2>3. RowTypeOK' /\ LeaseTypeOK'
    BY <1>a, <1>7, <2>1, <2>2 DEF Park, RowTypeOK, LeaseTypeOK
  <2>4. ProcTypeOK'  BY <1>a, <1>7, <1>e DEF Park, ProcTypeOK
  <2>5. QED BY <2>3, <2>4
<1>8. CASE Dismiss(r) \/ Die(r)
  <2>1. RowTypeOK' /\ LeaseTypeOK'
    BY <1>a, <1>8 DEF Dismiss, Die, rowVars, RowTypeOK, LeaseTypeOK
  <2>2. ProcTypeOK'  BY <1>a, <1>8, <1>e DEF Dismiss, Die, ProcTypeOK
  <2>3. QED BY <2>1, <2>2
<1>9. QED BY <1>1, <1>2, <1>3, <1>4, <1>5, <1>6, <1>7, <1>8 DEF ReportStep

\* And the steps that are nobody's check or report.
LEMMA OtherTyped ==
    ASSUME TypeOK, Age \/ LeaseLapse \/ (\E a \in Admins : Moderate(a)) \/ UNCHANGED vars
    PROVE  TypeOK'
<1>1. CASE Age
  <2>a. age \in 0 .. 2  BY DEF TypeOK
  <2>1. age' \in 0 .. 2  BY <1>1, <2>a DEF Age
  <2>2. QED BY <1>1, <2>1 DEF TypeOK, Age, policy
<1>2. CASE LeaseLapse
  BY <1>2 DEF TypeOK, LeaseLapse, rowVars
<1>3. CASE \E a \in Admins : Moderate(a)
  BY <1>3 DEF TypeOK, Moderate
<1>4. CASE UNCHANGED vars
  BY <1>4 DEF TypeOK, vars
<1>5. QED BY <1>1, <1>2, <1>3, <1>4

LEMMA TypeInit == Init => TypeOK
<1> SUFFICES ASSUME Init PROVE TypeOK  OBVIOUS
<1>1. RowTypeOK
  <2>1. failures \in 0 .. MaxFailures /\ lastOk \in Stamps /\ age \in 0 .. 2
    BY BoundsAssumption DEF Init, Stamps
  <2>2. status \in Status /\ premium \in BOOLEAN /\ disabled \in BOOLEAN /\ removed \in BOOLEAN
    BY DEF Init, Status
  <2>3. QED BY <2>1, <2>2 DEF RowTypeOK
<1>2. LeaseTypeOK  BY BoundsAssumption DEF Init, LeaseTypeOK, Stamps
<1>3. ProcTypeOK  BY IdleTyped DEF Init, ProcTypeOK
<1>4. QED BY <1>1, <1>2, <1>3, TypeParts
-----------------------------------------------------------------------------
\* What the processes are about to write stays writable.
LEMMA WorkNext ==
    ASSUME TypeOK, WorkOK, [Next]_vars
    PROVE  WorkOK'
<1>a. chk \in [Checkers -> CheckState] /\ rep \in [Reporters -> ReportState]  BY DEF TypeOK
<1>1. ASSUME NEW c \in Checkers, CheckStep(c)  PROVE WorkOK'
  <2>1. rep' = rep
    BY <1>1 DEF CheckStep, StartSweep, StartCall, Answer, GiveUp, Commit
  <2>2. \A d \in Checkers : chk'[d].job = "sync" => Kind = "api"
    <3> SUFFICES ASSUME NEW d \in Checkers, chk'[d].job = "sync", d = c  PROVE Kind = "api"
      BY <1>1, <1>a DEF CheckStep, StartSweep, StartCall, Answer, GiveUp, Commit, WorkOK
    <3>1. CASE StartSweep(c)
      <4>1. chk'[c] = [IdleCheck EXCEPT !.at = "probing", !.job = "sweep"]
        BY <1>a, <3>1 DEF StartSweep
      <4>2. QED BY <4>1 DEF IdleCheck
    <3>2. CASE StartCall(c)
      <4>1. PICK job \in Jobs \ {"sweep"} :
              /\ job = "sync" => Kind = "api"
              /\ chk'[c] = [IdleCheck EXCEPT !.at = "probing", !.job = job,
                                             !.known = (job = "sync" /\ ~removed)]
        BY <1>a, <3>2 DEF StartCall
      <4>2. QED BY <4>1 DEF IdleCheck
    <3>3. CASE Answer(c)
      <4>1. chk'[c].job = chk[c].job \/ chk'[c] = IdleCheck
        BY <1>a, <3>3 DEF Answer, CheckState
      <4>2. QED BY <4>1 DEF IdleCheck, WorkOK
    <3>5. CASE GiveUp(c) \/ Commit(c)
      <4>1. chk'[c] = IdleCheck  BY <1>a, <3>5 DEF GiveUp, Commit
      <4>2. QED BY <4>1 DEF IdleCheck
    <3>4. QED BY <1>1, <3>1, <3>2, <3>3, <3>5 DEF CheckStep
  <2>3. QED BY <2>1, <2>2 DEF WorkOK
<1>2. ASSUME NEW r \in Reporters, ReportStep(r)  PROVE WorkOK'
  <2>1. chk' = chk
    BY <1>2 DEF ReportStep, Arrive, Lookup, ClaimLease, Reread, ProbeAnswer, ProbeCommit, Park, Dismiss, Die
  <2>2. \A q \in Reporters : rep'[q].at = "writing" => rep'[q].verdict \in Verdicts
    <3>1. CASE Arrive(r)  BY <1>a, <3>1 DEF Arrive, WorkOK, IdleReport
    <3>2. CASE Lookup(r) \/ Reread(r)
      BY <1>a, <3>2 DEF Lookup, Reread, UseStored, WorkOK, ReportState
    <3>3. CASE ClaimLease(r)  BY <1>a, <3>3 DEF ClaimLease, WorkOK, ReportState
    <3>4. CASE ProbeAnswer(r)  BY <1>a, <3>4 DEF ProbeAnswer, WorkOK, ReportState
    <3>5. CASE ProbeCommit(r)  BY <1>a, <3>5 DEF ProbeCommit, WorkOK, ReportState
    <3>6. CASE Park(r) \/ Dismiss(r) \/ Die(r)
      BY <1>a, <3>6 DEF Park, Dismiss, Die, Finish, WorkOK, IdleReport
    <3>7. QED BY <1>2, <3>1, <3>2, <3>3, <3>4, <3>5, <3>6 DEF ReportStep
  <2>3. QED BY <2>1, <2>2 DEF WorkOK
<1>3. CASE Age \/ LeaseLapse \/ (\E a \in Admins : Moderate(a)) \/ UNCHANGED vars
  BY <1>3 DEF Age, LeaseLapse, Moderate, vars, WorkOK
<1>4. QED BY <1>1, <1>2, <1>3 DEF Next

\* Every column, clock and process record stays in its range, through every step.
THEOREM TypeCorrect == Spec => [](TypeOK /\ WorkOK)
<1>1. Init => TypeOK /\ WorkOK
  BY TypeInit DEF Init, WorkOK, IdleCheck, IdleReport
<1>2. TypeOK /\ WorkOK /\ [Next]_vars => (TypeOK /\ WorkOK)'
  BY CheckTyped, ReportTyped, OtherTyped, WorkNext DEF Next
<1>3. QED BY <1>1, <1>2, PTL DEF Spec
-----------------------------------------------------------------------------
\* A verdict written to the row, by whichever job, is a step of the policy.
LEMMA RecordIsPolicyStep ==
    ASSUME RowTypeOK, NEW job \in Jobs, NEW v \in Verdicts, NEW stamp \in Stamps,
           Record(job, v, stamp)
    PROVE  Policy!Next
<1>a. failures \in 0 .. MaxFailures /\ disabled \in BOOLEAN  BY DEF RowTypeOK
<1>b. Bump(failures) = Policy!Bump(failures)  BY DEF Bump, Policy!Bump
<1>c. failures + 1 >= AutoDisableAfter <=> Bump(failures) >= AutoDisableAfter
  BY <1>a, BoundsAssumption DEF Bump
<1>1. CASE job = "submit"
  BY <1>1 DEF Record, RecordSubmission, Policy!Next, Policy!Resubmitted
<1>2. CASE job = "sync"
  <2>1. RecordSync(v, stamp)  BY <1>2 DEF Record
  <2> USE <2>1 DEF RecordSync, SyncFailuresAfter, SyncDisabledAfter, Classify
  <2>2. CASE v = "premium"  BY <2>2 DEF Policy!Next, Policy!Relisted
  <2>3. CASE v = "lossy"  BY <2>3 DEF Policy!Next, Policy!Lossy
  <2>4. CASE v = "failed"
    <3>1. status' = "dead" /\ premium' = FALSE /\ failures' = Policy!Bump(failures)
          /\ disabled' = disabled /\ removed' = removed
      BY <2>4, <1>b
    <3>2. QED BY <3>1 DEF Policy!Next, Policy!Failed
  <2>5. QED BY <2>2, <2>3, <2>4 DEF Verdicts
<1>3. CASE job \in {"sweep", "check"}
  <2>1. RecordVerdict(v, stamp)  BY <1>3 DEF Record
  <2> USE <2>1 DEF RecordVerdict, FailuresAfter, DisabledAfter, Classify
  <2>2. CASE v = "premium"  BY <2>2 DEF Policy!Next, Policy!Passed
  <2>3. CASE v = "lossy"  BY <2>3 DEF Policy!Next, Policy!Lossy
  <2>4. CASE v = "failed"
    <3>1. status' = "dead" /\ premium' = FALSE /\ failures' = Policy!Bump(failures)
          /\ disabled' = (disabled \/ failures' >= AutoDisableAfter) /\ removed' = removed
      BY <2>4, <1>b, <1>c
    <3>2. QED BY <3>1 DEF Policy!Next, Policy!Failed
  <2>5. QED BY <2>2, <2>3, <2>4 DEF Verdicts
<1>4. QED BY <1>1, <1>2, <1>3 DEF Jobs

\* So is a park; a report that finds its verdict outdated changes nothing.
LEMMA ParkIsPolicyStep ==
    ASSUME RowTypeOK, NEW r \in Reporters, Park(r)
    PROVE  Policy!Next \/ UNCHANGED Policy!row
<1>a. failures \in 0 .. MaxFailures /\ disabled \in BOOLEAN  BY DEF RowTypeOK
<1>1. CASE Current(r)
  <2>1. status' = "pending" /\ premium' = premium /\ removed' = removed
    BY <1>1 DEF Park
  <2>2. failures' \in {failures, Policy!Bump(failures)}
    BY <1>1 DEF Park, Bump, Policy!Bump
  <2>3. failures' >= DisableAfterReports <=> CountWith(r) >= DisableAfterReports
    BY <1>1, <1>a, BoundsAssumption DEF Park, Bump, CountWith
  <2>4. disabled' = (disabled \/ failures' >= DisableAfterReports)
    BY <1>1, <2>3 DEF Park
  <2>5. QED BY <2>1, <2>2, <2>4 DEF Policy!Next, Policy!Parked
<1>2. CASE ~Current(r)
  BY <1>2 DEF Park, Policy!row
<1>3. QED BY <1>1, <1>2

\* Every step of the system is a step of the policy or leaves its columns alone.
LEMMA StepIsPolicyStep ==
    ASSUME TypeOK, WorkOK, [Next]_vars
    PROVE  Policy!Next \/ UNCHANGED Policy!row
<1>a. RowTypeOK /\ ProcTypeOK  BY TypeParts
<1>1. ASSUME NEW c \in Checkers, CheckStep(c)  PROVE Policy!Next \/ UNCHANGED Policy!row
  <2>1. CASE Commit(c)
    <3>1. chk[c].job \in Jobs /\ chk[c].verdict \in Verdicts /\ chk[c].stamp \in Stamps
      BY <1>a DEF ProcTypeOK, CheckState
    <3>2. QED BY <1>a, <2>1, <3>1, RecordIsPolicyStep DEF Commit
  <2>2. CASE StartSweep(c) \/ StartCall(c) \/ Answer(c) \/ GiveUp(c)
    BY <2>2 DEF StartSweep, StartCall, Answer, GiveUp, rowVars, Policy!row
  <2>3. QED BY <1>1, <2>1, <2>2 DEF CheckStep
<1>2. ASSUME NEW r \in Reporters, ReportStep(r)  PROVE Policy!Next \/ UNCHANGED Policy!row
  <2>1. CASE ProbeCommit(r)
    <3>1. rep[r].verdict \in Verdicts /\ rep[r].stamp \in Stamps
      BY <1>a, <2>1 DEF ProcTypeOK, WorkOK, ProbeCommit, ReportState
    <3>2. Record("check", rep[r].verdict, rep[r].stamp)  BY <2>1 DEF ProbeCommit
    <3>3. QED BY <1>a, <3>1, <3>2, RecordIsPolicyStep DEF Jobs
  <2>2. CASE Park(r)
    BY <1>a, <2>2, ParkIsPolicyStep
  <2>3. CASE \/ Arrive(r) \/ Lookup(r) \/ ClaimLease(r) \/ Reread(r) \/ ProbeAnswer(r)
             \/ Dismiss(r) \/ Die(r)
    BY <2>3 DEF Arrive, Lookup, ClaimLease, Reread, ProbeAnswer, Dismiss, Die, rowVars, Policy!row
  <2>4. QED BY <1>2, <2>1, <2>2, <2>3 DEF ReportStep
<1>3. ASSUME NEW a \in Admins, Moderate(a)  PROVE Policy!Next
  BY <1>3 DEF Moderate, Policy!Next, Policy!Moderated
<1>4. CASE Age \/ LeaseLapse \/ UNCHANGED vars
  BY <1>4 DEF Age, LeaseLapse, policy, rowVars, vars, Policy!row
<1>5. QED BY <1>1, <1>2, <1>3, <1>4 DEF Next

\* The interleaved system implements the policy applied to the current row: no snapshot, stale
\* read or lost update shows in the entry's health.
THEOREM HealthImplementsPolicy == Spec => ImplementsPolicy
<1>1. Init => Policy!Init
  BY DEF Init, Policy!Init
<1>2. TypeOK /\ WorkOK /\ [Next]_vars => [Policy!Next]_(Policy!row)
  BY StepIsPolicyStep
<1>3. QED BY <1>1, <1>2, TypeCorrect, PTL DEF Spec, ImplementsPolicy, Policy!Spec

\* A failed check can only add to the disabled state: an entry is re-enabled only by a write that
\* records a premium verdict and clears the failures.
THEOREM DisableIsSticky == Spec => DisableSticks
<1>1. ASSUME TypeOK, WorkOK, [Next]_vars, disabled, ~disabled'
      PROVE  status' = "alive" /\ premium' /\ failures' = 0
  <2>1. Policy!Next  BY <1>1, StepIsPolicyStep DEF Policy!row
  <2>2. QED
    BY <1>1, <2>1 DEF Policy!Next, Policy!Passed, Policy!Lossy, Policy!Failed, Policy!Parked,
                      Policy!Resubmitted, Policy!Relisted, Policy!Moderated
<1>2. TypeOK /\ WorkOK /\ [Next]_vars =>
        [disabled /\ ~disabled' => status' = "alive" /\ premium' /\ failures' = 0]_vars
  BY <1>1
<1>3. QED BY <1>2, TypeCorrect, PTL DEF Spec, DisableSticks

\* Whatever writers race, an entry that is handed out last passed a premium check with nothing
\* held against it.
THEOREM ServedEntriesArePremium == Spec => []ServableIsPremium
<1>1. Init => RowClean
  BY DEF Init, RowClean
<1>2. ASSUME TypeOK, WorkOK, RowClean, [Next]_vars  PROVE RowClean'
  <2>1. CASE Policy!Next
    BY <1>2, <2>1 DEF RowClean, Policy!Next, Policy!Passed, Policy!Lossy, Policy!Failed,
                      Policy!Parked, Policy!Resubmitted, Policy!Relisted, Policy!Moderated
  <2>2. CASE UNCHANGED Policy!row
    BY <1>2, <2>2 DEF RowClean, Policy!row
  <2>3. QED BY <1>2, <2>1, <2>2, StepIsPolicyStep
<1>3. RowClean => ServableIsPremium
  BY DEF RowClean, ServableIsPremium, Servable
<1>4. QED BY <1>1, <1>2, <1>3, TypeCorrect, PTL DEF Spec
-----------------------------------------------------------------------------
\* A verdict written over a row that keeps the thresholds keeps them.
LEMMA RecordKeepsThresholds ==
    ASSUME RowTypeOK, ThresholdsDisable, NEW job \in Jobs, job = "sync" => Kind = "api",
           NEW v \in Verdicts, NEW stamp \in Stamps, Record(job, v, stamp)
    PROVE  ThresholdsDisable'
<1>a. failures \in 0 .. MaxFailures  BY DEF RowTypeOK
<1>1. CASE job = "submit"
  BY <1>1, BoundsAssumption DEF Record, RecordSubmission, ThresholdsDisable
<1>2. CASE job = "sync"
  <2>1. RecordSync(v, stamp)  BY <1>2 DEF Record
  <2>2. status' # "pending"  BY <2>1 DEF RecordSync, Classify, Verdicts
  <2>3. Kind = "api"  BY <1>2
  <2>4. QED BY <2>2, <2>3 DEF ThresholdsDisable
<1>3. CASE job \in {"sweep", "check"}
  <2>1. RecordVerdict(v, stamp)  BY <1>3 DEF Record
  <2>2. status' # "pending"  BY <2>1 DEF RecordVerdict, Classify, Verdicts
  <2>3. failures' >= AutoDisableAfter => disabled'
    <3>1. CASE v = "failed"
      <4>1. failures' >= AutoDisableAfter => failures + 1 >= AutoDisableAfter
        BY <1>a, <2>1, <3>1, BoundsAssumption DEF RecordVerdict, FailuresAfter, Bump
      <4>2. failures + 1 >= AutoDisableAfter => disabled'
        BY <2>1, <3>1 DEF RecordVerdict, DisabledAfter
      <4>3. QED BY <4>1, <4>2
    <3>2. CASE v # "failed"
      BY <2>1, <3>2, BoundsAssumption DEF RecordVerdict, FailuresAfter
    <3>3. QED BY <3>1, <3>2
  <2>4. QED BY <2>2, <2>3 DEF ThresholdsDisable
<1>4. QED BY <1>1, <1>2, <1>3 DEF Jobs

\* A park disables at its own threshold, which lies below the check's.
LEMMA ParkKeepsThresholds ==
    ASSUME RowTypeOK, ThresholdsDisable, NEW r \in Reporters, Park(r)
    PROVE  ThresholdsDisable'
<1>a. failures \in 0 .. MaxFailures /\ disabled \in BOOLEAN  BY DEF RowTypeOK
<1>1. CASE Current(r)
  <2>1. disabled' = (disabled \/ CountWith(r) >= DisableAfterReports)  BY <1>1 DEF Park
  <2>2. failures' >= DisableAfterReports => CountWith(r) >= DisableAfterReports
    BY <1>1, <1>a, BoundsAssumption DEF Park, CountWith, Bump
  <2>3. failures' \in Nat  BY <1>1, <1>a, BoundsAssumption DEF Park, Bump
  <2>4. failures' >= AutoDisableAfter => failures' >= DisableAfterReports
    BY <2>3, BoundsAssumption
  <2>5. QED BY <2>1, <2>2, <2>4 DEF ThresholdsDisable
<1>2. CASE ~Current(r)
  BY <1>2 DEF Park, ThresholdsDisable
<1>3. QED BY <1>1, <1>2

\* An account at the check threshold is disabled, and a parked entry at the report threshold is
\* disabled, whichever mixture of checks and reports brought the count there.
THEOREM ThresholdsAreEnforced == Spec => []ThresholdsDisable
<1>1. Init => ThresholdsDisable
  BY BoundsAssumption DEF Init, ThresholdsDisable
<1>2. ASSUME TypeOK, WorkOK, ThresholdsDisable, [Next]_vars  PROVE ThresholdsDisable'
  <2>a. RowTypeOK /\ ProcTypeOK  BY <1>2, TypeParts
  <2>1. ASSUME NEW c \in Checkers, Commit(c)  PROVE ThresholdsDisable'
    <3>1. chk[c].job \in Jobs /\ chk[c].verdict \in Verdicts /\ chk[c].stamp \in Stamps
      BY <2>a DEF ProcTypeOK, CheckState
    <3>2. chk[c].job = "sync" => Kind = "api"  BY <1>2 DEF WorkOK
    <3>3. QED BY <1>2, <2>a, <2>1, <3>1, <3>2, RecordKeepsThresholds DEF Commit
  <2>2. ASSUME NEW r \in Reporters, ProbeCommit(r)  PROVE ThresholdsDisable'
    <3>1. rep[r].verdict \in Verdicts /\ rep[r].stamp \in Stamps
      BY <1>2, <2>a, <2>2 DEF ProcTypeOK, WorkOK, ProbeCommit, ReportState
    <3>2. Record("check", rep[r].verdict, rep[r].stamp)  BY <2>2 DEF ProbeCommit
    <3>3. QED BY <1>2, <2>a, <3>1, <3>2, RecordKeepsThresholds DEF Jobs
  <2>3. ASSUME NEW r \in Reporters, Park(r)  PROVE ThresholdsDisable'
    BY <1>2, <2>a, <2>3, ParkKeepsThresholds
  <2>4. CASE UNCHANGED <<status, failures, disabled>>
    BY <1>2, <2>4 DEF ThresholdsDisable
  <2>5. ASSUME NEW c \in Checkers, CheckStep(c)
        PROVE  Commit(c) \/ UNCHANGED <<status, failures, disabled>>
    BY <2>5 DEF CheckStep, StartSweep, StartCall, Answer, GiveUp, rowVars
  <2>6. ASSUME NEW r \in Reporters, ReportStep(r)
        PROVE  ProbeCommit(r) \/ Park(r) \/ UNCHANGED <<status, failures, disabled>>
    BY <2>6 DEF ReportStep, Arrive, Lookup, ClaimLease, Reread, ProbeAnswer, Dismiss, Die, rowVars
  <2>7. ASSUME NEW a \in Admins, Moderate(a)  PROVE UNCHANGED <<status, failures, disabled>>
    BY <2>7 DEF Moderate
  <2>8. ASSUME Age \/ LeaseLapse \/ UNCHANGED vars
        PROVE  UNCHANGED <<status, failures, disabled>>
    BY <2>8 DEF Age, LeaseLapse, policy, rowVars, vars
  <2>9. QED BY <1>2, <2>1, <2>2, <2>3, <2>4, <2>5, <2>6, <2>7, <2>8 DEF Next
<1>3. QED BY <1>1, <1>2, TypeCorrect, PTL DEF Spec
-----------------------------------------------------------------------------
\* A report that verifies under a claim holds the lease, through every step.
LEMMA LeaseHeldNext ==
    ASSUME TypeOK, LeaseHeld, [Next]_vars
    PROVE  LeaseHeld'
<1>a. rep \in [Reporters -> ReportState]  BY DEF TypeOK
<1>1. ASSUME NEW c \in Checkers, CheckStep(c)  PROVE LeaseHeld'
  BY <1>1 DEF CheckStep, StartSweep, StartCall, Answer, GiveUp, Commit, LeaseHeld, Verifying
<1>2. ASSUME NEW r \in Reporters, ReportStep(r)  PROVE LeaseHeld'
  <2>1. CASE Arrive(r)
    <3>1. \A q \in Reporters : q # r => rep'[q] = rep[q]  BY <1>a, <2>1 DEF Arrive
    <3>2. rep'[r].at = "arrived"  BY <1>a, <2>1 DEF Arrive, IdleReport
    <3>3. QED BY <2>1, <3>1, <3>2 DEF Arrive, LeaseHeld, Verifying
  <2>2. CASE Lookup(r)
    <3>1. \A q \in Reporters : q # r => rep'[q] = rep[q]
      BY <1>a, <2>2 DEF Lookup, UseStored
    <3>2. rep'[r].at \in {"decide", "claim"}
      BY <1>a, <2>2 DEF Lookup, UseStored, ReportState
    <3>3. QED BY <2>2, <3>1, <3>2 DEF Lookup, LeaseHeld, Verifying
  <2>3. CASE ClaimLease(r)
    <3>1. \A q \in Reporters : q # r => rep'[q] = rep[q]  BY <1>a, <2>3 DEF ClaimLease
    <3>2. rep'[r].at = "reread" /\ rep'[r].claimed = LeaseFree
      BY <1>a, <2>3 DEF ClaimLease, ReportState
    <3>3. verifyLease # NoOne => verifyLease' = verifyLease
      BY <2>3 DEF ClaimLease, LeaseFree
    <3>4. LeaseFree => verifyLease' = r  BY <2>3 DEF ClaimLease
    <3>5. \A q \in Reporters : Verifying(q) => verifyLease # NoOne
      BY ProcessesAssumption DEF LeaseHeld
    <3>6. QED BY <3>1, <3>2, <3>3, <3>4, <3>5 DEF LeaseHeld, Verifying
  <2>4. CASE Reread(r)
    <3>1. \A q \in Reporters : q # r => rep'[q] = rep[q]
      BY <1>a, <2>4 DEF Reread, UseStored
    <3>2. /\ rep'[r].claimed = rep[r].claimed
          /\ rep'[r].at = "decide" \/ (rep'[r].at = "probing" /\ rep[r].claimed)
      <4>1. CASE rep[r].claimed /\ ~Fresh
        BY <1>a, <2>4, <4>1 DEF Reread, ReportState
      <4>2. CASE ~(rep[r].claimed /\ ~Fresh)
        BY <1>a, <2>4, <4>2 DEF Reread, UseStored, ReportState
      <4>3. QED BY <4>1, <4>2
    <3>3. rep[r].at = "reread" /\ verifyLease' = verifyLease  BY <2>4 DEF Reread
    <3>4. QED BY <3>1, <3>2, <3>3 DEF LeaseHeld, Verifying
  <2>5. CASE ProbeAnswer(r)
    <3>1. \A q \in Reporters : q # r => rep'[q] = rep[q]  BY <1>a, <2>5 DEF ProbeAnswer
    <3>2. rep'[r].at \in {"writing", "decide"}  BY <1>a, <2>5 DEF ProbeAnswer, ReportState
    <3>3. QED BY <2>5, <3>1, <3>2 DEF ProbeAnswer, LeaseHeld, Verifying
  <2>6. CASE ProbeCommit(r)
    <3>1. \A q \in Reporters : q # r => rep'[q] = rep[q]  BY <1>a, <2>6 DEF ProbeCommit
    <3>2. rep'[r].at = "decide"  BY <1>a, <2>6 DEF ProbeCommit, ReportState
    <3>3. QED BY <2>6, <3>1, <3>2 DEF ProbeCommit, LeaseHeld, Verifying
  <2>7. CASE Park(r) \/ Dismiss(r) \/ Die(r)
    <3>1. \A q \in Reporters : q # r => rep'[q] = rep[q]
      BY <1>a, <2>7 DEF Park, Dismiss, Die, Finish
    <3>2. rep'[r].at = "idle"  BY <1>a, <2>7 DEF Park, Dismiss, Die, Finish, IdleReport
    <3>3. verifyLease' = verifyLease  BY <2>7 DEF Park, Dismiss, Die
    <3>4. QED BY <3>1, <3>2, <3>3 DEF LeaseHeld, Verifying
  <2>8. QED BY <1>2, <2>1, <2>2, <2>3, <2>4, <2>5, <2>6, <2>7 DEF ReportStep
<1>3. CASE LeaseLapse
  BY <1>3, ProcessesAssumption DEF LeaseLapse, LeaseHeld, Verifying
<1>4. CASE Age \/ (\E a \in Admins : Moderate(a)) \/ UNCHANGED vars
  BY <1>4 DEF Age, Moderate, vars, LeaseHeld, Verifying
<1>5. QED BY <1>1, <1>2, <1>3, <1>4 DEF Next

\* At most one report is asking the provider about the entry at any time.
THEOREM OneReportProbes == Spec => []SingleReportProbe
<1>1. Init => LeaseHeld
  BY DEF Init, LeaseHeld, Verifying, IdleReport
<1>2. TypeOK /\ LeaseHeld /\ [Next]_vars => LeaseHeld'
  BY LeaseHeldNext
<1>3. LeaseHeld => SingleReportProbe
  BY DEF LeaseHeld, Verifying, SingleReportProbe
<1>4. QED BY <1>1, <1>2, <1>3, TypeCorrect, PTL DEF Spec
-----------------------------------------------------------------------------
(* Reports against successes: which success a report's last step has taken into account. *)

\* A report changes the row in one way only: the guarded UPDATE, with its WHERE true.
LEMMA OnlyParkingChanges ==
    ASSUME TypeOK, [Next]_vars, NEW r \in Reporters, ParkChanges(r)
    PROVE  Park(r) /\ Current(r)
<1>a. rep \in [Reporters -> ReportState]  BY DEF TypeOK
<1>b. rep[r].at = "decide" /\ rep'[r].at = "idle" /\ policy' # policy  BY DEF ParkChanges
<1>1. ASSUME NEW c \in Checkers, CheckStep(c)  PROVE FALSE
  <2>1. rep' = rep  BY <1>1 DEF CheckStep, StartSweep, StartCall, Answer, GiveUp, Commit
  <2>2. QED BY <1>b, <2>1
<1>2. CASE Age \/ LeaseLapse \/ (\E a \in Admins : Moderate(a)) \/ UNCHANGED vars
  <2>1. rep' = rep  BY <1>2 DEF Age, LeaseLapse, Moderate, vars
  <2>2. QED BY <1>b, <2>1
<1>3. ASSUME NEW q \in Reporters, ReportStep(q), q # r  PROVE FALSE
  <2>1. rep'[r] = rep[r]
    BY <1>a, <1>3 DEF ReportStep, Arrive, Lookup, UseStored, ClaimLease, Reread, ProbeAnswer,
                      ProbeCommit, Park, Dismiss, Die, Finish
  <2>2. QED BY <1>b, <2>1
<1>4. ASSUME ReportStep(r)  PROVE Park(r) /\ Current(r)
  <2>1. Park(r) \/ Dismiss(r) \/ Die(r)
    BY <1>b, <1>4 DEF ReportStep, Arrive, Lookup, ClaimLease, Reread, ProbeAnswer, ProbeCommit
  <2>2. UNCHANGED policy => FALSE  BY <1>b
  <2>3. Park(r)  BY <2>1, <2>2 DEF Dismiss, Die, rowVars, policy
  <2>4. Current(r)  BY <2>2, <2>3 DEF Park, policy
  <2>5. QED BY <2>3, <2>4
<1>5. QED BY <1>1, <1>2, <1>3, <1>4 DEF Next

-----------------------------------------------------------------------------
(* "A fresh success always outranks a report": why the success marker tells. *)

\* The report acts on a verdict it has read, and knows which success that verdict came after.
Deciding(r) == rep[r].at \in {"probing", "writing", "decide"}

\* A success whose transaction has its stamp and has still to commit.
CheckLands(c) == chk[c].at = "writing" /\ chk[c].verdict # "failed"
ProbeLands(r) == rep[r].at = "writing" /\ rep[r].verdict # "failed"

\* Two stamps are told apart, as long as the clock has not reached its bound.
Apart(s, t) == s # t \/ s = MaxClock

\* A stamp that no success on the row and none a report has seen bears.
Spare(s) == Apart(s, lastOk) /\ \A r \in Reporters : Deciding(r) => Apart(s, rep[r].seen)

\* Every stamp lies in the past, and a report begins before the clock reaches its bound.
PastOK ==
    /\ lastOk <= clock
    /\ \A c \in Checkers : chk[c].stamp <= clock
    /\ \A r \in Reporters :
          rep[r].seen <= clock /\ rep[r].stamp <= clock /\ rep[r].started < MaxClock

\* A success still to land bears a stamp of its own.
LandingsOK ==
    /\ \A c \in Checkers : CheckLands(c) => Spare(chk[c].stamp)
    /\ \A r \in Reporters : ProbeLands(r) => Spare(rep[r].stamp)
    /\ \A c, d \in Checkers :
          c # d /\ CheckLands(c) /\ CheckLands(d) => Apart(chk[c].stamp, chk[d].stamp)
    /\ \A r, q \in Reporters :
          r # q /\ ProbeLands(r) /\ ProbeLands(q) => Apart(rep[r].stamp, rep[q].stamp)
    /\ \A c \in Checkers, r \in Reporters :
          CheckLands(c) /\ ProbeLands(r) => Apart(chk[c].stamp, rep[r].stamp)

\* ingestSource writes premium verdicts only.
SubmitsPremium ==
    \A c \in Checkers : chk[c].at = "writing" /\ chk[c].job = "submit" => chk[c].verdict = "premium"

\* A success that landed since a report read its verdict shows in the row's marker.
OutrankedSeen ==
    \A r \in Reporters : "landed since" \in overtaken[r] =>
        Deciding(r) /\ Apart(lastOk, rep[r].seen)

MarkersInv == PastOK /\ LandingsOK /\ SubmitsPremium /\ OutrankedSeen

LEMMA MarkersInit == Init => MarkersInv
  BY BoundsAssumption
  DEF Init, MarkersInv, PastOK, LandingsOK, SubmitsPremium, OutrankedSeen, CheckLands, ProbeLands,
      Deciding, IdleCheck, IdleReport

\* Stamps are numbers, up to the bound of the clock.
LEMMA StampsAreNumbers ==
    ASSUME TypeOK
    PROVE  /\ clock \in Nat /\ lastOk \in Nat /\ MaxClock \in Nat /\ clock <= MaxClock
           /\ \A c \in Checkers : chk[c].stamp \in Nat
           /\ \A r \in Reporters : rep[r].seen \in Nat /\ rep[r].stamp \in Nat /\ rep[r].started \in Nat
<1>1. \A n \in Stamps : n \in Nat /\ n <= MaxClock  BY BoundsAssumption DEF Stamps
<1>2. clock \in Stamps /\ lastOk \in Stamps  BY DEF TypeOK
<1>3. \A c \in Checkers : chk[c].stamp \in Stamps  BY DEF TypeOK, CheckState
<1>4. \A r \in Reporters : rep[r].seen \in Stamps /\ rep[r].stamp \in Stamps /\ rep[r].started \in Stamps
  BY DEF TypeOK, ReportState
<1>5. QED BY <1>1, <1>2, <1>3, <1>4, BoundsAssumption

\* A check that moves without a verdict in hand disturbs nothing.
LEMMA CheckMoves ==
    ASSUME TypeOK, MarkersInv, NEW c \in Checkers, NEW x,
           chk' = [chk EXCEPT ![c] = x], x.at # "writing", x.stamp = 0,
           UNCHANGED <<lastOk, rep, overtaken, clock>>
    PROVE  MarkersInv'
<1>a. \A d \in Checkers : chk'[d] = IF d = c THEN x ELSE chk[d]  BY DEF TypeOK
<1>b. \A s : Spare(s) => Spare(s)'  BY DEF Spare, Apart, Deciding
<1>1. PastOK'  BY <1>a, StampsAreNumbers DEF MarkersInv, PastOK
<1>2. LandingsOK'
  <2>1. \A d \in Checkers : CheckLands(d)' => d # c /\ CheckLands(d) /\ chk'[d] = chk[d]
    BY <1>a DEF CheckLands
  <2>2. \A r \in Reporters : ProbeLands(r)' <=> ProbeLands(r)  BY DEF ProbeLands
  <2>3. QED BY <1>b, <2>1, <2>2 DEF MarkersInv, LandingsOK, Apart
<1>3. SubmitsPremium'  BY <1>a DEF MarkersInv, SubmitsPremium
<1>4. OutrankedSeen'  BY DEF MarkersInv, OutrankedSeen, Deciding, Apart
<1>5. QED BY <1>1, <1>2, <1>3, <1>4 DEF MarkersInv

\* A report that moves without a success to land: it goes on with the marker it has seen, or
\* takes the row's, or stops deciding and forgets.
LEMMA ReportMoves ==
    ASSUME TypeOK, MarkersInv, NEW r \in Reporters, NEW x,
           rep' = [rep EXCEPT ![r] = x],
           x.at = "writing" => x.verdict = "failed",
           x.started < MaxClock, x.seen <= clock', x.stamp <= clock',
           clock' \in Nat, clock <= clock', UNCHANGED <<lastOk, chk>>,
           \/ UNCHANGED overtaken /\ Deciding(r)' /\ Deciding(r) /\ x.seen = rep[r].seen
           \/ UNCHANGED overtaken /\ Deciding(r)' /\ ~Deciding(r) /\ x.seen = lastOk
           \/ UNCHANGED overtaken /\ ~Deciding(r)' /\ ~Deciding(r)
           \/ overtaken' = [overtaken EXCEPT ![r] = {}] /\ ~Deciding(r)'
    PROVE  MarkersInv'
<1>a. \A q \in Reporters : rep'[q] = IF q = r THEN x ELSE rep[q]  BY DEF TypeOK
<1>b. \A q \in Reporters \ {r} : overtaken'[q] = overtaken[q] /\ (Deciding(q)' <=> Deciding(q))
  BY <1>a DEF TypeOK, Deciding
<1>c. \A s : Spare(s) => Spare(s)'
  <2> SUFFICES ASSUME NEW s, Spare(s), NEW q \in Reporters, Deciding(q)'
               PROVE  Apart(s, rep'[q].seen)
    BY DEF Spare, Apart
  <2>1. CASE q # r  BY <1>a, <1>b, <2>1 DEF Spare
  <2>2. CASE q = r  BY <1>a, <2>2 DEF Spare
  <2>3. QED BY <2>1, <2>2
<1>1. PastOK'
  <2>1. lastOk' <= clock' /\ \A c \in Checkers : chk'[c].stamp <= clock'
    BY StampsAreNumbers DEF MarkersInv, PastOK
  <2>2. \A q \in Reporters :
          rep'[q].seen <= clock' /\ rep'[q].stamp <= clock' /\ rep'[q].started < MaxClock
    BY <1>a, StampsAreNumbers DEF MarkersInv, PastOK
  <2>3. QED BY <2>1, <2>2 DEF PastOK
<1>2. LandingsOK'
  <2>1. \A q \in Reporters : ProbeLands(q)' => q # r /\ ProbeLands(q) /\ rep'[q] = rep[q]
    BY <1>a DEF ProbeLands
  <2>2. \A c \in Checkers : CheckLands(c)' <=> CheckLands(c)  BY DEF CheckLands
  <2>3. QED BY <1>c, <2>1, <2>2 DEF MarkersInv, LandingsOK, Apart
<1>3. SubmitsPremium'  BY DEF MarkersInv, SubmitsPremium
<1>4. OutrankedSeen'
  <2> SUFFICES ASSUME NEW q \in Reporters, "landed since" \in overtaken'[q]
               PROVE  Deciding(q)' /\ Apart(lastOk, rep'[q].seen)
    BY DEF OutrankedSeen, Apart
  <2>1. CASE q # r  BY <1>a, <1>b, <2>1 DEF MarkersInv, OutrankedSeen
  <2>2. CASE q = r
    <3>1. overtaken'[r] # {}  BY <2>2
    <3>2. overtaken' = overtaken  BY <3>1 DEF TypeOK
    <3>3. Deciding(r) /\ Apart(lastOk, rep[r].seen)  BY <2>2, <3>2 DEF MarkersInv, OutrankedSeen
    <3>4. Deciding(r)' /\ x.seen = rep[r].seen
      <4>1. ~(overtaken' = [overtaken EXCEPT ![r] = {}])  BY <3>1 DEF TypeOK
      <4>2. QED BY <3>3, <4>1
    <3>5. QED BY <1>a, <2>2, <3>3, <3>4
  <2>3. QED BY <2>1, <2>2
<1>5. QED BY <1>1, <1>2, <1>3, <1>4 DEF MarkersInv

\* The stamp a success takes is new, or the clock has reached its bound.
LEMMA NewStamp ==
    ASSUME TypeOK, MarkersInv
    PROVE  /\ Tick \in Nat /\ clock <= Tick /\ Spare(Tick)
           /\ \A c \in Checkers : Apart(chk[c].stamp, Tick) /\ Apart(Tick, chk[c].stamp)
           /\ \A r \in Reporters : Apart(rep[r].stamp, Tick) /\ Apart(Tick, rep[r].stamp)
<1>1. Tick \in Nat /\ clock <= Tick /\ (Tick = MaxClock \/ clock < Tick)
  BY StampsAreNumbers DEF Tick
<1>2. \A n \in Nat : n <= clock => Apart(n, Tick) /\ Apart(Tick, n)
  BY <1>1, StampsAreNumbers DEF Apart
<1>3. QED BY <1>1, <1>2, StampsAreNumbers DEF MarkersInv, PastOK, Spare

\* The provider answers a check: its success takes a stamp of its own.
LEMMA AnswerMoves ==
    ASSUME TypeOK, MarkersInv, NEW c \in Checkers, Answer(c)
    PROVE  MarkersInv'
<1>1. PICK v \in Verdicts :
        /\ IF Stored(chk[c].job, v, chk[c].known)
           THEN /\ clock' = IF v = "failed" THEN clock ELSE Tick
                /\ chk' = [chk EXCEPT ![c] = [@ EXCEPT !.at = "writing", !.verdict = v, !.stamp = clock']]
           ELSE UNCHANGED clock /\ chk' = [chk EXCEPT ![c] = IdleCheck]
        /\ UNCHANGED <<lastOk, rep, overtaken>>
  BY DEF Answer, rowVars
<1>2. CASE ~Stored(chk[c].job, v, chk[c].known)
  <2>1. IdleCheck.at # "writing" /\ IdleCheck.stamp = 0  BY DEF IdleCheck
  <2>2. chk' = [chk EXCEPT ![c] = IdleCheck] /\ UNCHANGED <<lastOk, rep, overtaken, clock>>
    BY <1>1, <1>2
  <2>3. QED BY <2>1, <2>2, CheckMoves
<1>3. CASE Stored(chk[c].job, v, chk[c].known)
  <2> DEFINE x == [chk[c] EXCEPT !.at = "writing", !.verdict = v, !.stamp = clock']
  <2>a. x.at = "writing" /\ x.verdict = v /\ x.stamp = clock' /\ x.job = chk[c].job
    BY DEF TypeOK, CheckState
  <2>b. chk'[c] = x /\ \A d \in Checkers \ {c} : chk'[d] = chk[d]
    BY <1>1, <1>3 DEF TypeOK
  <2>1. /\ chk'[c].at = "writing" /\ chk'[c].verdict = v /\ chk'[c].stamp = clock'
        /\ chk'[c].job = chk[c].job
        /\ \A d \in Checkers \ {c} : chk'[d] = chk[d]
        /\ clock' = IF v = "failed" THEN clock ELSE Tick
    BY <1>1, <1>3, <2>a, <2>b
  <2>2. \A s : Spare(s)' <=> Spare(s)  BY <1>1 DEF Spare, Deciding, Apart
  <2>3. \A r \in Reporters : (ProbeLands(r)' <=> ProbeLands(r)) /\ rep'[r] = rep[r]
    BY <1>1 DEF ProbeLands
  <2>4. \A d \in Checkers \ {c} : CheckLands(d)' <=> CheckLands(d)  BY <2>1 DEF CheckLands
  <2>5. clock' \in Nat /\ clock <= clock'  BY <2>1, NewStamp, StampsAreNumbers
  <2>6. PastOK'
    <3>1. lastOk' <= clock'  BY <1>1, <2>5, StampsAreNumbers DEF MarkersInv, PastOK
    <3>2. \A d \in Checkers : chk'[d].stamp <= clock'
      BY <2>1, <2>5, StampsAreNumbers DEF MarkersInv, PastOK
    <3>3. \A r \in Reporters :
            rep'[r].seen <= clock' /\ rep'[r].stamp <= clock' /\ rep'[r].started < MaxClock
      BY <2>3, <2>5, StampsAreNumbers DEF MarkersInv, PastOK
    <3>4. QED BY <3>1, <3>2, <3>3 DEF PastOK
  <2>7. LandingsOK'
    <3>1. CASE v = "failed"
      <4>1. ~CheckLands(c)'  BY <2>1, <3>1 DEF CheckLands
      <4>2. QED BY <2>1, <2>2, <2>3, <2>4, <4>1 DEF MarkersInv, LandingsOK, Apart
    <3>2. CASE v # "failed"
      <4>1. chk'[c].stamp = Tick  BY <2>1, <3>2
      <4>2. \A d \in Checkers : CheckLands(d)' => Spare(chk[d].stamp)'
        BY <1>1, <2>1, <2>4, <4>1, NewStamp DEF MarkersInv, LandingsOK, Spare, Deciding
      <4>3. \A r \in Reporters : ProbeLands(r)' => Spare(rep[r].stamp)'
        BY <1>1, <2>3 DEF MarkersInv, LandingsOK, Spare, Deciding
      <4>4. \A d, e \in Checkers : d # e /\ CheckLands(d)' /\ CheckLands(e)' =>
              Apart(chk'[d].stamp, chk'[e].stamp)
        BY <2>1, <2>4, <4>1, NewStamp DEF MarkersInv, LandingsOK
      <4>5. \A r, q \in Reporters : r # q /\ ProbeLands(r)' /\ ProbeLands(q)' =>
              Apart(rep'[r].stamp, rep'[q].stamp)
        BY <2>3 DEF MarkersInv, LandingsOK
      <4>6. \A d \in Checkers, r \in Reporters : CheckLands(d)' /\ ProbeLands(r)' =>
              Apart(chk'[d].stamp, rep'[r].stamp)
        BY <2>1, <2>3, <2>4, <4>1, NewStamp DEF MarkersInv, LandingsOK
      <4>7. QED BY <4>2, <4>3, <4>4, <4>5, <4>6 DEF LandingsOK, Apart
    <3>3. QED BY <3>1, <3>2
  <2>8. SubmitsPremium'
    <3>1. chk'[c].job = "submit" => chk'[c].verdict = "premium"  BY <1>3, <2>1 DEF Stored
    <3>2. QED BY <2>1, <3>1 DEF MarkersInv, SubmitsPremium
  <2>9. OutrankedSeen'  BY <1>1 DEF MarkersInv, OutrankedSeen, Deciding, Apart
  <2>10. QED BY <2>6, <2>7, <2>8, <2>9 DEF MarkersInv
<1>4. QED BY <1>2, <1>3

\* So does the provider's answer to a report's probe.
LEMMA ProbeAnswerMoves ==
    ASSUME TypeOK, MarkersInv, NEW r \in Reporters, ProbeAnswer(r)
    PROVE  MarkersInv'
<1>1. PICK v \in Verdicts \cup {"skipped", "unavailable"} :
        /\ rep[r].at = "probing"
        /\ clock' = IF v \in {"premium", "lossy"} THEN Tick ELSE clock
        /\ rep' = [rep EXCEPT ![r] = [@ EXCEPT !.at = IF v \in Verdicts THEN "writing" ELSE "decide",
                                               !.verdict = v, !.stamp = clock']]
        /\ UNCHANGED <<lastOk, chk, overtaken>>
  BY DEF ProbeAnswer, rowVars
<1> DEFINE x == [rep[r] EXCEPT !.at = IF v \in Verdicts THEN "writing" ELSE "decide",
                               !.verdict = v, !.stamp = clock']
<1>2. /\ x.at = (IF v \in Verdicts THEN "writing" ELSE "decide") /\ x.verdict = v
      /\ x.stamp = clock' /\ x.seen = rep[r].seen /\ x.started = rep[r].started
  BY DEF TypeOK, ReportState
<1>3. rep' = [rep EXCEPT ![r] = x] /\ rep'[r] = x /\ \A q \in Reporters \ {r} : rep'[q] = rep[q]
  BY <1>1 DEF TypeOK
<1>4. clock' \in Nat /\ clock <= clock'  BY <1>1, NewStamp, StampsAreNumbers
<1>5. Deciding(r) /\ Deciding(r)'  BY <1>1, <1>2, <1>3 DEF Deciding
<1>6. x.started < MaxClock /\ x.seen <= clock' /\ x.stamp <= clock'
  BY <1>2, <1>4, StampsAreNumbers DEF MarkersInv, PastOK
<1>7. CASE v \notin {"premium", "lossy"}
  <2>1. x.at = "writing" => x.verdict = "failed"  BY <1>2, <1>7 DEF Verdicts
  <2> HIDE DEF x
  <2>2. QED BY <1>1, <1>2, <1>3, <1>4, <1>5, <1>6, <2>1, ReportMoves
<1>8. CASE v \in {"premium", "lossy"}
  <2>1. x.stamp = Tick  BY <1>1, <1>2, <1>8
  <2> HIDE DEF x
  <2>2. \A q \in Reporters : (Deciding(q)' <=> Deciding(q)) /\ rep'[q].seen = rep[q].seen
    BY <1>2, <1>3, <1>5 DEF Deciding
  <2>3. \A s : Spare(s)' <=> Spare(s)  BY <1>1, <2>2 DEF Spare, Apart
  <2>4. \A d \in Checkers : (CheckLands(d)' <=> CheckLands(d)) /\ chk'[d] = chk[d]
    BY <1>1 DEF CheckLands
  <2>5. \A q \in Reporters \ {r} : ProbeLands(q)' <=> ProbeLands(q)  BY <1>3 DEF ProbeLands
  <2>6. PastOK'
    <3>1. lastOk' <= clock' /\ \A d \in Checkers : chk'[d].stamp <= clock'
      BY <1>1, <1>4, StampsAreNumbers DEF MarkersInv, PastOK
    <3>2. \A q \in Reporters :
            rep'[q].seen <= clock' /\ rep'[q].stamp <= clock' /\ rep'[q].started < MaxClock
      BY <1>3, <1>4, <1>6, StampsAreNumbers DEF MarkersInv, PastOK
    <3>3. QED BY <3>1, <3>2 DEF PastOK
  <2>7. LandingsOK'
    <3>1. \A d \in Checkers : CheckLands(d)' => Spare(chk[d].stamp)'
      BY <1>1, <2>2, <2>4 DEF MarkersInv, LandingsOK, Spare
    <3>2. \A q \in Reporters : ProbeLands(q)' => Spare(rep[q].stamp)'
      BY <1>1, <1>3, <2>1, <2>2, <2>5, NewStamp DEF MarkersInv, LandingsOK, Spare
    <3>3. \A d, e \in Checkers : d # e /\ CheckLands(d)' /\ CheckLands(e)' =>
            Apart(chk'[d].stamp, chk'[e].stamp)
      BY <2>4 DEF MarkersInv, LandingsOK
    <3>4. \A p, q \in Reporters : p # q /\ ProbeLands(p)' /\ ProbeLands(q)' =>
            Apart(rep'[p].stamp, rep'[q].stamp)
      BY <1>3, <2>1, <2>5, NewStamp DEF MarkersInv, LandingsOK
    <3>5. \A d \in Checkers, q \in Reporters : CheckLands(d)' /\ ProbeLands(q)' =>
            Apart(chk'[d].stamp, rep'[q].stamp)
      BY <1>3, <2>1, <2>4, <2>5, NewStamp DEF MarkersInv, LandingsOK
    <3>6. QED BY <3>1, <3>2, <3>3, <3>4, <3>5 DEF LandingsOK, Apart
  <2>8. SubmitsPremium'  BY <1>1 DEF MarkersInv, SubmitsPremium
  <2>9. OutrankedSeen'
    BY <1>1, <2>2 DEF MarkersInv, OutrankedSeen, Apart
  <2>10. QED BY <2>6, <2>7, <2>8, <2>9 DEF MarkersInv
<1>9. QED BY <1>7, <1>8

\* A verdict about an account stamps the row if it is a success.
LEMMA SuccessStamps ==
    ASSUME NEW job \in Jobs \ {"sync"}, NEW v \in Verdicts, NEW stamp,
           job = "submit" => v = "premium", Record(job, v, stamp)
    PROVE  lastOk' = IF v = "failed" THEN lastOk ELSE stamp
<1>1. CASE job = "submit"  BY <1>1 DEF Record, RecordSubmission
<1>2. CASE job \in {"sweep", "check"}  BY <1>2 DEF Record, RecordVerdict
<1>3. QED BY <1>1, <1>2 DEF Jobs

\* The reports a landing success is marked on are those that have read their verdict.
LEMMA MarksDeciding ==
    ASSUME TypeOK, NEW v, v # "failed", NEW stamp, Overtake(v, stamp), NEW r \in Reporters,
           "landed since" \in overtaken'[r], OutrankedSeen
    PROVE  Deciding(r)
<1>1. overtaken'[r] = overtaken[r] \cup Outranks(stamp, r)  BY DEF Overtake
<1>2. "landed since" \in Outranks(stamp, r) => Deciding(r)  BY DEF Outranks, Deciding
<1>3. QED BY <1>1, <1>2 DEF OutrankedSeen

LEMMA ApartIsSymmetric == \A s, t : Apart(s, t) => Apart(t, s)
  BY DEF Apart

LEMMA CommitMoves ==
    ASSUME Kind = "account", TypeOK, WorkOK, MarkersInv, NEW c \in Checkers, Commit(c)
    PROVE  MarkersInv'
<1> DEFINE v == chk[c].verdict
           s == chk[c].stamp
<1>1. /\ chk[c].job \in Jobs \ {"sync"} /\ v \in Verdicts /\ chk[c].at = "writing"
      /\ chk[c].job = "submit" => v = "premium"
  BY DEF TypeOK, CheckState, WorkOK, MarkersInv, SubmitsPremium, Commit
<1>2. /\ lastOk' = (IF v = "failed" THEN lastOk ELSE s)
      /\ Overtake(v, s) /\ chk' = [chk EXCEPT ![c] = IdleCheck] /\ UNCHANGED <<clock, rep>>
  BY <1>1, SuccessStamps DEF Commit
<1>3. IdleCheck.at = "idle" /\ IdleCheck.stamp = 0  BY DEF IdleCheck
<1>4. CASE v = "failed"
  <2>1. UNCHANGED <<lastOk, overtaken>>  BY <1>2, <1>4 DEF Overtake
  <2>2. QED BY <1>2, <1>3, <2>1, CheckMoves
<1>5. CASE v # "failed"
  <2>1. chk'[c] = IdleCheck /\ (\A d \in Checkers \ {c} : chk'[d] = chk[d]) /\ lastOk' = s
    BY <1>2, <1>5 DEF TypeOK
  <2>2. CheckLands(c) /\ Spare(s)  BY <1>1, <1>5 DEF CheckLands, MarkersInv, LandingsOK
  <2>3. PastOK'
    BY <1>2, <1>3, <2>1, StampsAreNumbers DEF MarkersInv, PastOK
  <2>4. \A d \in Checkers : CheckLands(d)' =>
          d # c /\ CheckLands(d) /\ chk'[d] = chk[d] /\ Apart(chk[d].stamp, s) /\ Spare(chk[d].stamp)
    BY <1>3, <2>1, <2>2 DEF CheckLands, MarkersInv, LandingsOK
  <2>5. \A r \in Reporters : ProbeLands(r)' =>
          ProbeLands(r) /\ rep'[r] = rep[r] /\ Apart(rep[r].stamp, s) /\ Spare(rep[r].stamp)
    BY <1>2, <2>2, ApartIsSymmetric DEF ProbeLands, MarkersInv, LandingsOK
  <2>6. LandingsOK'
    <3>1. \A d \in Checkers : CheckLands(d)' => Spare(chk[d].stamp)'
      BY <1>2, <2>1, <2>4 DEF Spare, Deciding
    <3>2. \A r \in Reporters : ProbeLands(r)' => Spare(rep[r].stamp)'
      BY <1>2, <2>1, <2>5 DEF Spare, Deciding
    <3>3. QED BY <2>4, <2>5, <3>1, <3>2 DEF MarkersInv, LandingsOK, Apart
  <2>7. SubmitsPremium'  BY <1>3, <2>1 DEF MarkersInv, SubmitsPremium
  <2>8. OutrankedSeen'
    <3> SUFFICES ASSUME NEW r \in Reporters, "landed since" \in overtaken'[r]
                 PROVE  Deciding(r) /\ Apart(s, rep[r].seen)
      BY <1>2, <2>1 DEF OutrankedSeen, Deciding, Apart
    <3>1. Deciding(r)  BY <1>2, <1>5, MarksDeciding DEF MarkersInv
    <3>2. QED BY <2>2, <3>1 DEF Spare
  <2>9. QED BY <2>3, <2>6, <2>7, <2>8 DEF MarkersInv
<1>6. QED BY <1>4, <1>5

LEMMA ProbeCommitMoves ==
    ASSUME TypeOK, WorkOK, MarkersInv, NEW r \in Reporters, ProbeCommit(r)
    PROVE  MarkersInv'
<1> DEFINE v == rep[r].verdict
           s == rep[r].stamp
<1>1. rep[r].at = "writing" /\ v \in Verdicts /\ Deciding(r)
  BY DEF ProbeCommit, WorkOK, Deciding
<1>2. PICK outcome \in {v, "unavailable"} :
        rep' = [rep EXCEPT ![r] = [@ EXCEPT !.at = "decide", !.verdict = outcome]]
  BY DEF ProbeCommit
<1> DEFINE x == [rep[r] EXCEPT !.at = "decide", !.verdict = outcome]
<1>3. /\ lastOk' = (IF v = "failed" THEN lastOk ELSE s)
      /\ Overtake(v, s) /\ UNCHANGED <<clock, chk>>
  BY <1>1, SuccessStamps DEF ProbeCommit, Jobs
<1>4. x.at = "decide" /\ x.seen = rep[r].seen /\ x.started = rep[r].started /\ x.stamp = s
  BY DEF TypeOK, ReportState
<1>5. rep' = [rep EXCEPT ![r] = x] /\ rep'[r] = x /\ \A q \in Reporters \ {r} : rep'[q] = rep[q]
  BY <1>2 DEF TypeOK
<1> HIDE DEF x
<1>6. \A q \in Reporters : (Deciding(q)' <=> Deciding(q)) /\ rep'[q].seen = rep[q].seen
  BY <1>1, <1>4, <1>5 DEF Deciding
<1>7. x.started < MaxClock /\ x.seen <= clock' /\ x.stamp <= clock'
  BY <1>3, <1>4 DEF MarkersInv, PastOK
<1>8. CASE v = "failed"
  <2>1. UNCHANGED <<lastOk, overtaken>>  BY <1>3, <1>8 DEF Overtake
  <2>2. clock' \in Nat /\ clock <= clock'  BY <1>3, StampsAreNumbers
  <2>3. QED BY <1>1, <1>3, <1>4, <1>5, <1>6, <1>7, <2>1, <2>2, ReportMoves
<1>9. CASE v # "failed"
  <2>1. lastOk' = s  BY <1>3, <1>9
  <2>2. ProbeLands(r) /\ Spare(s)  BY <1>1, <1>9 DEF ProbeLands, MarkersInv, LandingsOK
  <2>3. PastOK'
    <3>1. lastOk' <= clock' /\ \A d \in Checkers : chk'[d].stamp <= clock'
      BY <1>3, <2>1 DEF MarkersInv, PastOK
    <3>2. \A q \in Reporters :
            rep'[q].seen <= clock' /\ rep'[q].stamp <= clock' /\ rep'[q].started < MaxClock
      BY <1>3, <1>5, <1>7 DEF MarkersInv, PastOK
    <3>3. QED BY <3>1, <3>2 DEF PastOK
  <2>4. \A d \in Checkers : CheckLands(d)' =>
          CheckLands(d) /\ chk'[d] = chk[d] /\ Apart(chk[d].stamp, s) /\ Spare(chk[d].stamp)
    BY <1>3, <2>2 DEF CheckLands, MarkersInv, LandingsOK
  <2>5. \A q \in Reporters : ProbeLands(q)' =>
          q # r /\ ProbeLands(q) /\ rep'[q] = rep[q] /\ Apart(rep[q].stamp, s) /\ Spare(rep[q].stamp)
    BY <1>4, <1>5, <2>2 DEF ProbeLands, MarkersInv, LandingsOK
  <2>6. LandingsOK'
    <3>1. \A d \in Checkers : CheckLands(d)' => Spare(chk[d].stamp)'
      BY <1>6, <2>1, <2>4 DEF Spare
    <3>2. \A q \in Reporters : ProbeLands(q)' => Spare(rep[q].stamp)'
      BY <1>6, <2>1, <2>5 DEF Spare
    <3>3. QED BY <2>4, <2>5, <3>1, <3>2 DEF MarkersInv, LandingsOK, Apart
  <2>7. SubmitsPremium'  BY <1>3 DEF MarkersInv, SubmitsPremium
  <2>8. OutrankedSeen'
    <3> SUFFICES ASSUME NEW q \in Reporters, "landed since" \in overtaken'[q]
                 PROVE  Deciding(q) /\ Apart(s, rep[q].seen)
      BY <1>6, <2>1 DEF OutrankedSeen, Apart
    <3>1. Deciding(q)  BY <1>3, <1>9, MarksDeciding DEF MarkersInv
    <3>2. QED BY <2>2, <3>1 DEF Spare
  <2>9. QED BY <2>3, <2>6, <2>7, <2>8 DEF MarkersInv
<1>10. QED BY <1>8, <1>9

\* Every step keeps the markers telling.
LEMMA MarkersNext ==
    ASSUME Kind = "account", TypeOK, WorkOK, MarkersInv, [Next]_vars
    PROVE  MarkersInv'
<1>1. ASSUME NEW c \in Checkers, CheckStep(c)  PROVE MarkersInv'
  <2>1. CASE StartSweep(c)
    <3> DEFINE x == [IdleCheck EXCEPT !.at = "probing", !.job = "sweep"]
    <3>1. x.at = "probing" /\ x.stamp = 0  BY DEF IdleCheck
    <3>2. chk' = [chk EXCEPT ![c] = x] /\ UNCHANGED <<lastOk, rep, overtaken, clock>>
      BY <2>1 DEF StartSweep, rowVars
    <3> HIDE DEF x
    <3>3. QED BY <3>1, <3>2, CheckMoves
  <2>2. CASE StartCall(c)
    <3>1. PICK job \in Jobs \ {"sweep"} :
            chk' = [chk EXCEPT ![c] = [IdleCheck EXCEPT !.at = "probing", !.job = job,
                                                        !.known = (job = "sync" /\ ~removed)]]
      BY <2>2 DEF StartCall
    <3> DEFINE x == [IdleCheck EXCEPT !.at = "probing", !.job = job,
                                      !.known = (job = "sync" /\ ~removed)]
    <3>2. x.at = "probing" /\ x.stamp = 0  BY DEF IdleCheck
    <3>3. chk' = [chk EXCEPT ![c] = x] /\ UNCHANGED <<lastOk, rep, overtaken, clock>>
      BY <2>2, <3>1 DEF StartCall, rowVars
    <3> HIDE DEF x
    <3>4. QED BY <3>2, <3>3, CheckMoves
  <2>3. CASE Answer(c)  BY <2>3, AnswerMoves
  <2>4. CASE GiveUp(c)
    <3>1. IdleCheck.at = "idle" /\ IdleCheck.stamp = 0  BY DEF IdleCheck
    <3>2. chk' = [chk EXCEPT ![c] = IdleCheck] /\ UNCHANGED <<lastOk, rep, overtaken, clock>>
      BY <2>4 DEF GiveUp, rowVars
    <3>3. QED BY <3>1, <3>2, CheckMoves
  <2>5. CASE Commit(c)  BY <2>5, CommitMoves
  <2>6. QED BY <1>1, <2>1, <2>2, <2>3, <2>4, <2>5 DEF CheckStep
<1>2. ASSUME NEW r \in Reporters, ReportStep(r)  PROVE MarkersInv'
  <2>a. rep[r].started < MaxClock /\ rep[r].seen <= clock /\ rep[r].stamp <= clock /\ lastOk <= clock
    BY DEF MarkersInv, PastOK
  <2>b. /\ IdleReport.at = "idle" /\ IdleReport.started = 0 /\ IdleReport.seen = 0
        /\ IdleReport.stamp = 0 /\ 0 < MaxClock
    BY BoundsAssumption DEF IdleReport
  \* A step that only moves the report on, leaving the history as it is.
  <2>c. ASSUME NEW x, rep' = [rep EXCEPT ![r] = x], x.at # "writing", x.started = rep[r].started,
               x.stamp = rep[r].stamp, UNCHANGED <<lastOk, chk, clock, overtaken>>, ~Deciding(r),
               x.seen = lastOk \/ (x.seen = rep[r].seen /\ x.at \in {"claim", "reread"})
        PROVE  MarkersInv'
    <3>1. rep'[r] = x  BY <2>c DEF TypeOK
    <3>2. x.seen = lastOk \/ ~Deciding(r)'  BY <2>c, <3>1 DEF Deciding
    <3>3. x.seen <= clock' /\ x.stamp <= clock' /\ x.started < MaxClock  BY <2>a, <2>c
    <3>4. clock' \in Nat /\ clock <= clock'  BY <2>c, StampsAreNumbers
    <3>5. QED BY <2>c, <3>2, <3>3, <3>4, ReportMoves
  <2>d. ASSUME UseStored(r), UNCHANGED <<lastOk, chk, clock, overtaken>>, ~Deciding(r)
        PROVE  MarkersInv'
    <3> DEFINE x == [rep[r] EXCEPT !.at = "decide", !.verdict = StoredVerdict, !.seen = lastOk]
    <3>1. x.at = "decide" /\ x.seen = lastOk /\ x.started = rep[r].started /\ x.stamp = rep[r].stamp
      BY DEF TypeOK, ReportState
    <3>2. rep' = [rep EXCEPT ![r] = x]  BY <2>d DEF UseStored
    <3> HIDE DEF x
    <3>3. QED BY <2>c, <2>d, <3>1, <3>2
  <2>1. CASE Arrive(r)
    <3>1. PICK type \in {"dead", "not_premium"} :
            rep' = [rep EXCEPT ![r] = [IdleReport EXCEPT !.at = "arrived", !.type = type, !.started = clock']]
      BY <2>1 DEF Arrive
    <3> DEFINE x == [IdleReport EXCEPT !.at = "arrived", !.type = type, !.started = clock']
    <3>2. x.at = "arrived" /\ x.seen = 0 /\ x.stamp = 0 /\ x.started = clock'
      BY DEF IdleReport
    <3>3. /\ rep' = [rep EXCEPT ![r] = x] /\ clock' = clock + 1 /\ clock + 1 < MaxClock
          /\ UNCHANGED <<lastOk, chk, overtaken>> /\ rep[r].at = "idle"
      BY <2>1, <3>1 DEF Arrive, rowVars
    <3> HIDE DEF x
    <3>4. clock' \in Nat /\ clock <= clock' /\ 0 <= clock' /\ clock' < MaxClock
      BY <3>3, StampsAreNumbers
    <3>5. ~Deciding(r) /\ ~Deciding(r)'  BY <3>2, <3>3 DEF TypeOK, Deciding
    <3>6. QED BY <3>2, <3>3, <3>4, <3>5, ReportMoves
  <2>2. CASE Lookup(r)
    <3>1. rep[r].at = "arrived" /\ ~Deciding(r) /\ UNCHANGED <<lastOk, chk, clock, overtaken>>
      BY <2>2 DEF Lookup, rowVars, Deciding
    <3>2. CASE UseStored(r)  BY <2>d, <3>1, <3>2
    <3>3. CASE rep' = [rep EXCEPT ![r] = [@ EXCEPT !.at = "claim"]]
      <4> DEFINE x == [rep[r] EXCEPT !.at = "claim"]
      <4>1. x.at = "claim" /\ x.seen = rep[r].seen /\ x.started = rep[r].started /\ x.stamp = rep[r].stamp
        BY DEF TypeOK, ReportState
      <4>2. rep' = [rep EXCEPT ![r] = x]  BY <3>3
      <4> HIDE DEF x
      <4>3. QED BY <2>c, <3>1, <4>1, <4>2
    <3>4. QED BY <2>2, <3>2, <3>3 DEF Lookup
  <2>3. CASE ClaimLease(r)
    <3> DEFINE x == [rep[r] EXCEPT !.at = "reread", !.claimed = LeaseFree]
    <3>1. x.at = "reread" /\ x.seen = rep[r].seen /\ x.started = rep[r].started /\ x.stamp = rep[r].stamp
      BY DEF TypeOK, ReportState
    <3>2. rep' = [rep EXCEPT ![r] = x] /\ ~Deciding(r) /\ UNCHANGED <<lastOk, chk, clock, overtaken>>
      BY <2>3 DEF ClaimLease, rowVars, Deciding
    <3> HIDE DEF x
    <3>3. QED BY <2>c, <3>1, <3>2
  <2>4. CASE Reread(r)
    <3>1. ~Deciding(r) /\ UNCHANGED <<lastOk, chk, clock, overtaken>>
      BY <2>4 DEF Reread, rowVars, Deciding
    <3>2. CASE UseStored(r)  BY <2>d, <3>1, <3>2
    <3>3. CASE rep' = [rep EXCEPT ![r] = [@ EXCEPT !.at = "probing", !.probed = TRUE, !.seen = lastOk]]
      <4> DEFINE x == [rep[r] EXCEPT !.at = "probing", !.probed = TRUE, !.seen = lastOk]
      <4>1. x.at = "probing" /\ x.seen = lastOk /\ x.started = rep[r].started /\ x.stamp = rep[r].stamp
        BY DEF TypeOK, ReportState
      <4>2. rep' = [rep EXCEPT ![r] = x]  BY <3>3
      <4> HIDE DEF x
      <4>3. QED BY <2>c, <3>1, <4>1, <4>2
    <3>4. QED BY <2>4, <3>2, <3>3 DEF Reread
  <2>5. CASE ProbeAnswer(r)  BY <2>5, ProbeAnswerMoves
  <2>6. CASE ProbeCommit(r)  BY <2>6, ProbeCommitMoves
  <2>7. CASE Park(r) \/ Dismiss(r) \/ Die(r)
    <3>1. /\ rep' = [rep EXCEPT ![r] = IdleReport] /\ overtaken' = [overtaken EXCEPT ![r] = {}]
          /\ UNCHANGED <<lastOk, chk, clock>>
      BY <2>7 DEF Park, Dismiss, Die, Finish, rowVars
    <3>2. ~Deciding(r)'  BY <2>b, <3>1 DEF TypeOK, Deciding
    <3>3. clock' \in Nat /\ clock <= clock' /\ 0 <= clock'  BY <3>1, StampsAreNumbers
    <3>4. QED BY <2>b, <3>1, <3>2, <3>3, ReportMoves
  <2>8. QED BY <1>2, <2>1, <2>2, <2>3, <2>4, <2>5, <2>6, <2>7 DEF ReportStep
<1>3. CASE Age \/ LeaseLapse \/ (\E a \in Admins : Moderate(a)) \/ UNCHANGED vars
  <2>1. UNCHANGED <<lastOk, clock, chk, rep, overtaken>>
    BY <1>3 DEF Age, LeaseLapse, Moderate, vars, rowVars
  <2>2. QED BY <2>1 DEF MarkersInv, PastOK, LandingsOK, SubmitsPremium, OutrankedSeen, CheckLands,
                        ProbeLands, Spare, Apart, Deciding
<1>4. QED BY <1>1, <1>2, <1>3 DEF Next

\* An UPDATE whose WHERE holds does not meet the clock's last stamp, nor a success that
\* landed since the verdict was read.
LEMMA CurrentIsEarly ==
    ASSUME TypeOK, MarkersInv, NEW r \in Reporters, Current(r)
    PROVE  lastOk # MaxClock
<1>1. lastOk \in Nat /\ MaxClock \in Nat /\ rep[r].started \in Nat  BY StampsAreNumbers
<1>2. 0 < MaxClock  BY BoundsAssumption
<1>3. rep[r].started < MaxClock  BY DEF MarkersInv, PastOK
<1>4. lastOk = 0 \/ lastOk < rep[r].started  BY DEF Current
<1>5. QED BY <1>1, <1>2, <1>3, <1>4

LEMMA CurrentIsNotOutranked ==
    ASSUME Kind = "account", TypeOK, MarkersInv, NEW r \in Reporters, Current(r)
    PROVE  "landed since" \notin overtaken[r]
  BY CurrentIsEarly DEF Current, MarkersInv, OutrankedSeen, Apart

\* No report changes an account on which a success has landed since the report read the verdict
\* it is acting on, whatever checks, submissions and other reports run against it.  Of an API
\* this is not so: the sync records a lossy source as a success that leaves no marker.
THEOREM FreshSuccessesOutrankReports == ASSUME Kind = "account" PROVE Spec => FreshSuccessOutranksReport
<1> DEFINE Outranked == \A r \in Reporters : ParkChanges(r) => "landed since" \notin overtaken[r]
<1>1. ASSUME TypeOK, MarkersInv, [Next]_vars  PROVE Outranked
  BY <1>1, OnlyParkingChanges, CurrentIsNotOutranked
<1>2. TypeOK /\ WorkOK /\ MarkersInv /\ [Next]_vars => MarkersInv' /\ [Outranked]_vars
  BY <1>1, MarkersNext
<1>3. QED BY <1>2, MarkersInit, TypeCorrect, PTL DEF Spec, FreshSuccessOutranksReport
=============================================================================
