------------------------- MODULE EntryHealthGoProofs -------------------------
(***************************************************************************)
(* Theorems about EntryHealthGo for any number of processes, any           *)
(* thresholds and any bound: what snapshot writers keep, and what the      *)
(* sweep lease buys.                                                       *)
(***************************************************************************)
EXTENDS EntryHealthGo, TLAPS

Places == {"idle", "reading", "probing", "ending", "park", "count", "disable"}

\* TypeOK in parts: the row with its lease, where the processes are, what they read.
RowTyped ==
    /\ status \in {"alive", "preview", "dead", "pending"} /\ premium \in BOOLEAN
    /\ failures \in 0 .. MaxFailures /\ disabled \in BOOLEAN /\ removed \in BOOLEAN
    /\ stale \in BOOLEAN
    /\ lease \in Sweepers \cup {NoOne, Gone}

ReadsTyped ==
    /\ job \in [Processes -> Jobs]
    /\ seenFailures \in [Processes -> 0 .. MaxFailures]
    /\ seenDisabled \in [Processes -> BOOLEAN]
    /\ known \in [Processes -> BOOLEAN]

ReportsTyped ==
    /\ unchecked \in [Reporters -> BOOLEAN]
    /\ overtaken \in [Reporters -> BOOLEAN]

LEMMA TypeParts ==
    /\ TypeOK <=> RowTyped /\ pc \in [Processes -> Places] /\ ReadsTyped /\ ReportsTyped
    /\ TypeOK' <=> RowTyped' /\ (pc \in [Processes -> Places])' /\ ReadsTyped' /\ ReportsTyped'
  BY DEF TypeOK, RowTyped, ReadsTyped, ReportsTyped, Places
-----------------------------------------------------------------------------
(* Types. *)

LEMMA IdleJobTyped == \A p : IdleJob(p) \in Jobs
  BY DEF IdleJob, Jobs

\* A process that leaves for a place drops what it read.
LEMMA LeaveTyped ==
    ASSUME ReadsTyped, pc \in [Processes -> Places],
           NEW p \in Processes, NEW place \in Places, Leave(p, place)
    PROVE  ReadsTyped' /\ (pc \in [Processes -> Places])'
  BY IdleJobTyped, BoundsAssumption DEF Leave, Goto, ReadsTyped

\* A check's UPDATE keeps the row well typed.
LEMMA WriteCheckTyped ==
    ASSUME RowTyped, ReadsTyped, NEW p \in Processes, NEW v \in Verdicts,
           WriteCheck(p, v), stale' = FALSE, lease' = lease
    PROVE  RowTyped'
<1>1. status' \in {"alive", "preview", "dead", "pending"}
  BY DEF WriteCheck, Classify, Verdicts
<1>2. failures' \in 0 .. MaxFailures
  <2>1. seenFailures[p] \in 0 .. MaxFailures  BY DEF ReadsTyped
  <2>2. QED BY <2>1, BoundsAssumption DEF WriteCheck, NextConsecutive, Bump
<1>3. disabled' \in BOOLEAN
  BY DEF WriteCheck, NextDisabled, Verdicts
<1>4. premium' \in BOOLEAN /\ removed' \in BOOLEAN
  BY DEF WriteCheck, RowTyped
<1>5. QED BY <1>1, <1>2, <1>3, <1>4 DEF RowTyped

LEMMA OvertakeTyped ==
    ASSUME NEW p, NEW v, Overtake(p, v)
    PROVE  (overtaken \in [Reporters -> BOOLEAN])'
  BY DEF Overtake

\* The steps of a sweep keep the types.
LEMMA SweepTyped ==
    ASSUME TypeOK, NEW w \in Sweepers, SweepStep(w)
    PROVE  TypeOK'
<1> USE TypeParts
<1>a. RowTyped /\ pc \in [Processes -> Places] /\ ReadsTyped /\ ReportsTyped  OBVIOUS
<1>b. w \in Processes  BY DEF Processes
<1>1. CASE ClaimSweep(w)
  BY <1>1, <1>a, <1>b
  DEF ClaimSweep, Goto, rowVars, reads, RowTyped, ReadsTyped, ReportsTyped, Places
<1>2. CASE ClaimError(w)
  BY <1>2, <1>a, <1>b
  DEF ClaimError, Goto, rowVars, reads, RowTyped, ReadsTyped, ReportsTyped, Places
<1>3. CASE ReadAll(w)
  <2>1. RowTyped' /\ ReportsTyped'
    BY <1>3, <1>a DEF ReadAll, rowVars, RowTyped, ReportsTyped
  <2>2. (pc \in [Processes -> Places])'
    BY <1>3, <1>a DEF ReadAll, Goto, Places
  <2>3. ReadsTyped'
    BY <1>3, <1>a DEF ReadAll, Take, RowTyped, ReadsTyped
  <2>4. QED BY <2>1, <2>2, <2>3
<1>4. CASE SweepWrite(w)
  <2>1. RowTyped'
    BY <1>4, <1>a, <1>b, WriteCheckTyped DEF SweepWrite
  <2>2. ReadsTyped' /\ (pc \in [Processes -> Places])'
    BY <1>4, <1>a, <1>b, LeaveTyped DEF SweepWrite, Places
  <2>3. ReportsTyped'
    BY <1>4, <1>a, OvertakeTyped DEF SweepWrite, ReportsTyped
  <2>4. QED BY <2>1, <2>2, <2>3
<1>5. CASE SweepSkip(w)
  <2>1. RowTyped' /\ ReportsTyped'
    BY <1>5, <1>a DEF SweepSkip, rowVars, RowTyped, ReportsTyped
  <2>2. ReadsTyped' /\ (pc \in [Processes -> Places])'
    BY <1>5, <1>a, <1>b, LeaveTyped DEF SweepSkip, Places
  <2>3. QED BY <2>1, <2>2
<1>6. CASE EndSweep(w)
  BY <1>6, <1>a, <1>b
  DEF EndSweep, Goto, rowVars, reads, RowTyped, ReadsTyped, ReportsTyped, Places
<1>7. CASE SweepDies(w)
  <2>1. RowTyped' /\ ReportsTyped'
    BY <1>7, <1>a DEF SweepDies, rowVars, RowTyped, ReportsTyped
  <2>2. ReadsTyped' /\ (pc \in [Processes -> Places])'
    BY <1>7, <1>a, <1>b, LeaveTyped DEF SweepDies, Places
  <2>3. QED BY <2>1, <2>2
<1>8. QED BY <1>1, <1>2, <1>3, <1>4, <1>5, <1>6, <1>7 DEF SweepStep

\* So do those of a call.
LEMMA CallTyped ==
    ASSUME TypeOK, NEW c \in Callers, CallStep(c)
    PROVE  TypeOK'
<1> USE TypeParts
<1>a. RowTyped /\ pc \in [Processes -> Places] /\ ReadsTyped /\ ReportsTyped  OBVIOUS
<1>b. c \in Processes  BY DEF Processes
<1>1. CASE StartCall(c)
  <2>1. RowTyped' /\ ReportsTyped'
    BY <1>1, <1>a DEF StartCall, rowVars, RowTyped, ReportsTyped
  <2>2. (pc \in [Processes -> Places])'
    BY <1>1, <1>a DEF StartCall, Goto, Places
  <2>3. PICK j \in Jobs : /\ job' = [job EXCEPT ![c] = j]
                          /\ known' = [known EXCEPT ![c] = ~removed]
                          /\ Take(c)
    BY <1>1 DEF StartCall, Jobs
  <2>4. (job \in [Processes -> Jobs])'  BY <2>3, <1>a DEF ReadsTyped
  <2>5. (known \in [Processes -> BOOLEAN])'  BY <2>3, <1>a DEF ReadsTyped, RowTyped
  <2>6. (seenFailures \in [Processes -> 0 .. MaxFailures])'
    BY <2>3, <1>a DEF Take, ReadsTyped, RowTyped
  <2>7. (seenDisabled \in [Processes -> BOOLEAN])'
    BY <2>3, <1>a DEF Take, ReadsTyped, RowTyped
  <2>8. QED BY <2>1, <2>2, <2>4, <2>5, <2>6, <2>7 DEF ReadsTyped
<1>2. CASE CallWrite(c)
  <2>1. PICK v \in Verdicts :
          /\ \/ WriteCheck(c, v)
             \/ v = "premium" /\ WriteSubmission
             \/ WriteSync(v)
          /\ stale' = FALSE /\ lease' = lease
          /\ Leave(c, "idle") /\ Overtake(c, v) /\ unchecked' = unchecked
    <3>1. PICK v \in Verdicts :
            /\ \/ job[c] = "check" /\ WriteCheck(c, v)
               \/ job[c] = "submit" /\ v = "premium" /\ WriteSubmission
               \/ job[c] = "sync" /\ (v = "premium" \/ known[c]) /\ WriteSync(v)
            /\ stale' = FALSE /\ Leave(c, "idle") /\ Overtake(c, v)
            /\ UNCHANGED <<lease, unchecked>>
      BY <1>2 DEF CallWrite
    <3>2. QED BY <3>1
  <2>5. RowTyped'
    <3>1. CASE WriteCheck(c, v)
      BY <2>1, <3>1, <1>a, <1>b, WriteCheckTyped
    <3>2. CASE WriteSubmission
      <4>1. failures' \in 0 .. MaxFailures  BY <3>2, BoundsAssumption DEF WriteSubmission
      <4>2. QED BY <2>1, <3>2, <4>1, <1>a DEF WriteSubmission, RowTyped
    <3>3. CASE WriteSync(v)
      <4>1. status' \in {"alive", "preview", "dead", "pending"}
        BY <3>3 DEF WriteSync, Classify, Verdicts
      <4>2. failures' \in 0 .. MaxFailures
        BY <3>3, <1>a, BoundsAssumption DEF WriteSync, Bump, RowTyped, Verdicts
      <4>3. disabled' \in BOOLEAN
        BY <3>3, <1>a DEF WriteSync, RowTyped, Verdicts
      <4>4. premium' \in BOOLEAN /\ removed' \in BOOLEAN
        BY <3>3, <1>a DEF WriteSync, RowTyped
      <4>5. QED BY <2>1, <1>a, <4>1, <4>2, <4>3, <4>4 DEF RowTyped
    <3>4. QED BY <2>1, <3>1, <3>2, <3>3
  <2>6. ReadsTyped' /\ (pc \in [Processes -> Places])'
    BY <2>1, <1>a, <1>b, LeaveTyped DEF Places
  <2>7. ReportsTyped'
    BY <2>1, <1>a, OvertakeTyped DEF ReportsTyped
  <2>8. QED BY <2>5, <2>6, <2>7
<1>3. CASE CallEnds(c)
  <2>1. RowTyped' /\ ReportsTyped'
    BY <1>3, <1>a DEF CallEnds, rowVars, RowTyped, ReportsTyped
  <2>2. ReadsTyped' /\ (pc \in [Processes -> Places])'
    BY <1>3, <1>a, <1>b, LeaveTyped DEF CallEnds, Places
  <2>3. QED BY <2>1, <2>2
<1>4. QED BY <1>1, <1>2, <1>3 DEF CallStep

\* And those of a report.
LEMMA ReportTyped ==
    ASSUME TypeOK, NEW r \in Reporters, ReportStep(r)
    PROVE  TypeOK'
<1> USE TypeParts
<1>a. RowTyped /\ pc \in [Processes -> Places] /\ ReadsTyped /\ ReportsTyped  OBVIOUS
<1>b. r \in Processes  BY DEF Processes
<1>1. CASE Arrive(r)
  <2>1. RowTyped' /\ ReportsTyped'
    BY <1>1, <1>a DEF Arrive, rowVars, RowTyped, ReportsTyped
  <2>2. (pc \in [Processes -> Places])'
    BY <1>1, <1>a DEF Arrive, Goto, Places
  <2>3. (job \in [Processes -> Jobs])'
    BY <1>1, <1>a DEF Arrive, ReadsTyped, Jobs
  <2>4. ReadsTyped'
    BY <1>1, <1>a, <2>3 DEF Arrive, Take, RowTyped, ReadsTyped
  <2>5. QED BY <2>1, <2>2, <2>4
<1>2. CASE ReportWrite(r)
  <2>1. PICK v \in Verdicts, acknowledged \in BOOLEAN, place \in Places, lost \in BOOLEAN :
          /\ WriteCheck(r, v) /\ stale' = FALSE /\ lease' = lease
          /\ Leave(r, place) /\ Overtake(r, v)
          /\ unchecked' = [unchecked EXCEPT ![r] = lost]
    <3>1. PICK v \in Verdicts, acknowledged \in BOOLEAN :
            /\ WriteCheck(r, v) /\ stale' = FALSE /\ UNCHANGED lease
            /\ LET parks == job[r] = "dead" /\ (v = "failed" \/ ~acknowledged)
               IN /\ Leave(r, IF parks THEN "park" ELSE "idle")
                  /\ unchecked' = [unchecked EXCEPT ![r] = parks /\ ~acknowledged]
            /\ Overtake(r, v)
      BY <1>2 DEF ReportWrite
    <3>2. CASE job[r] = "dead" /\ (v = "failed" \/ ~acknowledged)
      <4>1. Leave(r, "park") /\ unchecked' = [unchecked EXCEPT ![r] = ~acknowledged]
        BY <3>1, <3>2
      <4>2. "park" \in Places /\ (~acknowledged) \in BOOLEAN  BY DEF Places
      <4>3. QED BY <3>1, <4>1, <4>2
    <3>3. CASE ~(job[r] = "dead" /\ (v = "failed" \/ ~acknowledged))
      <4>1. Leave(r, "idle") /\ unchecked' = [unchecked EXCEPT ![r] = FALSE]
        BY <3>1, <3>3
      <4>2. "idle" \in Places  BY DEF Places
      <4>3. QED BY <3>1, <4>1, <4>2
    <3>4. QED BY <3>2, <3>3
  <2>2. RowTyped'
    BY <2>1, <1>a, <1>b, WriteCheckTyped
  <2>3. ReadsTyped' /\ (pc \in [Processes -> Places])'
    BY <2>1, <1>a, <1>b, LeaveTyped
  <2>4. ReportsTyped'
    BY <2>1, <1>a, OvertakeTyped DEF ReportsTyped
  <2>5. QED BY <2>2, <2>3, <2>4
<1>3. CASE ReportUnchecked(r)
  <2>1. RowTyped'
    BY <1>3, <1>a DEF ReportUnchecked, rowVars, RowTyped
  <2>2. ReadsTyped' /\ (pc \in [Processes -> Places])'
    BY <1>3, <1>a, <1>b, LeaveTyped DEF ReportUnchecked, Places
  <2>3. ReportsTyped'
    BY <1>3, <1>a DEF ReportUnchecked, ReportsTyped
  <2>4. QED BY <2>1, <2>2, <2>3
<1>4. CASE Park(r)
  <2>1. RowTyped'
    BY <1>4, <1>a, BoundsAssumption DEF Park, Bump, RowTyped
  <2>2. ReadsTyped' /\ (pc \in [Processes -> Places])' /\ ReportsTyped'
    BY <1>4, <1>a DEF Park, Goto, Forget, reads, ReadsTyped, ReportsTyped, Places
  <2>3. QED BY <2>1, <2>2
<1>5. CASE ReadCount(r)
  BY <1>5, <1>a
  DEF ReadCount, Goto, rowVars, reads, RowTyped, ReadsTyped, ReportsTyped, Places
<1>6. CASE Disable(r)
  BY <1>6, <1>a
  DEF Disable, Goto, reads, RowTyped, ReadsTyped, ReportsTyped, Places
<1>7. CASE ReportDies(r)
  <2>1. RowTyped' /\ ReportsTyped'
    BY <1>7, <1>a DEF ReportDies, Forget, rowVars, RowTyped, ReportsTyped
  <2>2. ReadsTyped' /\ (pc \in [Processes -> Places])'
    BY <1>7, <1>a, <1>b, LeaveTyped DEF ReportDies, Places
  <2>3. QED BY <2>1, <2>2
<1>8. QED BY <1>1, <1>2, <1>3, <1>4, <1>5, <1>6, <1>7 DEF ReportStep

LEMMA InitTyped == Init => TypeOK
<1> SUFFICES ASSUME Init PROVE TypeOK  OBVIOUS
<1> USE TypeParts
<1>0. failures \in 0 .. MaxFailures  BY BoundsAssumption DEF Init
<1>1. RowTyped  BY <1>0 DEF Init, RowTyped
<1>2. pc \in [Processes -> Places] /\ ReportsTyped  BY DEF Init, Places, ReportsTyped
<1>3. ReadsTyped  BY IdleJobTyped, BoundsAssumption DEF Init, ReadsTyped
<1>4. QED BY <1>1, <1>2, <1>3

LEMMA StepTyped == TypeOK /\ [Next]_vars => TypeOK'
<1> SUFFICES ASSUME TypeOK, [Next]_vars PROVE TypeOK'  OBVIOUS
<1>1. ASSUME NEW w \in Sweepers, SweepStep(w) PROVE TypeOK'  BY <1>1, SweepTyped
<1>2. ASSUME NEW c \in Callers, CallStep(c) PROVE TypeOK'  BY <1>2, CallTyped
<1>3. ASSUME NEW r \in Reporters, ReportStep(r) PROVE TypeOK'  BY <1>3, ReportTyped
<1>4. ASSUME NEW a \in Admins, Moderate(a) PROVE TypeOK'
  BY <1>4 DEF Moderate, reads, TypeOK
<1>5. CASE Age  BY <1>5 DEF Age, policy, reads, TypeOK
<1>6. CASE LeaseLapse  BY <1>6 DEF LeaseLapse, rowVars, reads, TypeOK
<1>7. CASE UNCHANGED vars  BY <1>7 DEF vars, TypeOK
<1>8. QED BY <1>1, <1>2, <1>3, <1>4, <1>5, <1>6, <1>7 DEF Next

\* TypeOK holds in every reachable state, whatever the constants.
THEOREM TypeCorrect == Spec => []TypeOK
<1>1. QED BY InitTyped, StepTyped, PTL DEF Spec
-----------------------------------------------------------------------------
(* What every writer keeps, from whatever copy it computes. *)

\* A verdict writes a clean row: "preview" comes with the flag, "alive" with a clear count.
LEMMA WriteCheckClean ==
    ASSUME NEW p, NEW v \in Verdicts, WriteCheck(p, v)
    PROVE  RowClean'
<1>1. CASE v = "premium"  BY <1>1 DEF WriteCheck, Classify, NextConsecutive, RowClean
<1>2. CASE v = "lossy"
  <2>1. disabled'  BY <1>2 DEF WriteCheck, NextDisabled
  <2>2. status' = "preview"  BY <1>2 DEF WriteCheck, Classify
  <2>3. QED BY <2>1, <2>2 DEF RowClean
<1>3. CASE v = "failed"  BY <1>3 DEF WriteCheck, Classify, RowClean
<1>4. QED BY <1>1, <1>2, <1>3 DEF Verdicts

LEMMA WriteSyncClean ==
    ASSUME NEW v \in Verdicts, WriteSync(v)
    PROVE  RowClean'
<1>1. CASE v = "premium"  BY <1>1 DEF WriteSync, Classify, RowClean
<1>2. CASE v = "lossy"  BY <1>2 DEF WriteSync, Classify, RowClean
<1>3. CASE v = "failed"  BY <1>3 DEF WriteSync, Classify, RowClean
<1>4. QED BY <1>1, <1>2, <1>3 DEF Verdicts

LEMMA StepClean == RowClean /\ [Next]_vars => RowClean'
<1> SUFFICES ASSUME RowClean, [Next]_vars PROVE RowClean'  OBVIOUS
<1>1. ASSUME UNCHANGED <<status, premium, failures, disabled>> PROVE RowClean'
  BY <1>1 DEF RowClean
<1>2. ASSUME NEW w \in Sweepers, SweepStep(w) PROVE RowClean'
  <2>1. CASE SweepWrite(w)  BY <2>1, WriteCheckClean DEF SweepWrite
  <2>2. CASE ~SweepWrite(w)
    <3>1. UNCHANGED <<status, premium, failures, disabled>>
      BY <1>2, <2>2
      DEF SweepStep, ClaimSweep, ClaimError, ReadAll, SweepSkip, EndSweep, SweepDies, rowVars
    <3>2. QED BY <1>1, <3>1
  <2>3. QED BY <2>1, <2>2
<1>3. ASSUME NEW c \in Callers, CallStep(c) PROVE RowClean'
  <2>1. CASE CallWrite(c)
    <3>1. PICK v \in Verdicts : WriteCheck(c, v) \/ WriteSubmission \/ WriteSync(v)
      BY <2>1 DEF CallWrite
    <3>2. CASE WriteSubmission  BY <3>2 DEF WriteSubmission, RowClean
    <3>3. QED BY <3>1, <3>2, WriteCheckClean, WriteSyncClean
  <2>2. CASE StartCall(c) \/ CallEnds(c)
    BY <1>1, <2>2 DEF StartCall, CallEnds, rowVars
  <2>3. QED BY <1>3, <2>1, <2>2 DEF CallStep
<1>4. ASSUME NEW r \in Reporters, ReportStep(r) PROVE RowClean'
  <2>1. CASE ReportWrite(r)  BY <2>1, WriteCheckClean DEF ReportWrite
  <2>2. CASE Park(r)  BY <2>2 DEF Park, RowClean
  <2>3. CASE Disable(r)
    <3>1. disabled' /\ UNCHANGED <<status, premium, failures>>  BY <2>3 DEF Disable
    <3>2. QED BY <3>1 DEF RowClean
  <2>4. CASE Arrive(r) \/ ReportUnchecked(r) \/ ReadCount(r) \/ ReportDies(r)
    BY <1>1, <2>4 DEF Arrive, ReportUnchecked, ReadCount, ReportDies, rowVars
  <2>5. QED BY <1>4, <2>1, <2>2, <2>3, <2>4 DEF ReportStep
<1>5. ASSUME NEW a \in Admins, Moderate(a) PROVE RowClean'  BY <1>1, <1>5 DEF Moderate
<1>6. CASE Age \/ LeaseLapse \/ UNCHANGED vars
  BY <1>1, <1>6 DEF Age, LeaseLapse, policy, rowVars, vars
<1>7. QED BY <1>2, <1>3, <1>4, <1>5, <1>6 DEF Next

\* Although checks write counts and flags computed from copies, guarded or not, an entry the
\* server hands out last passed a premium check with nothing held against it.
THEOREM ServedEntriesArePremium == Spec => []ServableIsPremium
<1>1. Init => RowClean  BY DEF Init, RowClean
<1>2. RowClean => ServableIsPremium  BY DEF RowClean, ServableIsPremium, Servable
<1>3. QED BY <1>1, <1>2, StepClean, PTL DEF Spec
-----------------------------------------------------------------------------
(* What the lease buys: sweeps alone, never unguarded. *)

SweepsAlone == Callers = {} /\ Reporters = {} /\ ClaimCanFail = FALSE

\* A run that leaves touches nobody else's place or copy.
LEMMA OthersStay ==
    ASSUME pc \in [Processes -> Places], ReadsTyped,
           NEW p \in Processes, NEW place, Leave(p, place), NEW q \in Processes, q # p
    PROVE  pc'[q] = pc[q] /\ seenFailures'[q] = seenFailures[q] /\ seenDisabled'[q] = seenDisabled[q]
  BY DEF Leave, Goto, ReadsTyped

\* Whoever sweeps holds the lease and works from the row as it is: no step changes that.
LEMMA StepExcludes ==
    ASSUME SweepsAlone, TypeOK, LeaseExcludes, [Next]_vars
    PROVE  LeaseExcludes'
<1>a. Processes = Sweepers  BY DEF SweepsAlone, Processes
<1>b. pc \in [Processes -> Places] /\ ReadsTyped  BY TypeParts
<1>c. ASSUME UNCHANGED <<pc, seenFailures, seenDisabled, failures, disabled>>,
             \A v \in Sweepers : pc[v] # "idle" => lease' = lease
      PROVE  LeaseExcludes'
  BY <1>c DEF LeaseExcludes
<1>1. ASSUME NEW w \in Sweepers, SweepStep(w) PROVE LeaseExcludes'
  <2> SUFFICES ASSUME NEW v \in Sweepers
               PROVE  /\ pc'[v] # "idle" => lease' = v
                      /\ pc'[v] = "probing" => seenFailures'[v] = failures' /\ seenDisabled'[v] = disabled'
    BY DEF LeaseExcludes
  <2>1. CASE ClaimSweep(w)
    <3>1. \A u \in Sweepers : pc[u] = "idle"
      BY <2>1, ProcessesAssumption DEF ClaimSweep, LeaseFree, LeaseExcludes
    <3>2. QED BY <2>1, <3>1, <1>a, <1>b DEF ClaimSweep, Goto
  <2>2. CASE ClaimError(w)  BY <2>2 DEF ClaimError, SweepsAlone
  <2>3. CASE ReadAll(w)
    <3>1. lease = w /\ lease' = lease  BY <2>3 DEF ReadAll, LeaseExcludes
    <3>2. v # w => pc[v] = "idle" /\ pc'[v] = "idle"
      BY <2>3, <3>1, <1>a, <1>b DEF ReadAll, Goto, LeaseExcludes
    <3>3. UNCHANGED <<failures, disabled>>  BY <2>3 DEF ReadAll, rowVars
    <3>4. pc'[w] = "probing" => seenFailures'[w] = failures /\ seenDisabled'[w] = disabled
      BY <2>3, <1>a, <1>b DEF ReadAll, Take, Goto, ReadsTyped
    <3>5. QED BY <3>1, <3>2, <3>3, <3>4
  <2>4. CASE SweepWrite(w) \/ SweepSkip(w)
    <3>1. lease = w /\ lease' = lease /\ Leave(w, "ending")
      BY <2>4 DEF SweepWrite, SweepSkip, LeaseExcludes
    <3>2. v # w => pc'[v] = "idle"
      BY <3>1, <1>a, <1>b DEF Leave, Goto, LeaseExcludes
    <3>3. pc'[w] = "ending"  BY <3>1, <1>a, <1>b DEF Leave, Goto
    <3>4. QED BY <3>1, <3>2, <3>3
  <2>5. CASE EndSweep(w)
    <3>1. lease = w  BY <2>5 DEF EndSweep, LeaseExcludes
    <3>2. v # w => pc[v] = "idle"  BY <3>1 DEF LeaseExcludes
    <3>3. pc'[v] = "idle"  BY <2>5, <3>2, <1>a, <1>b DEF EndSweep, Goto
    <3>4. QED BY <3>3
  <2>6. CASE SweepDies(w)
    <3>1. lease = w /\ Leave(w, "idle")  BY <2>6 DEF SweepDies, LeaseExcludes
    <3>2. v # w => pc[v] = "idle"  BY <3>1 DEF LeaseExcludes
    <3>3. pc'[v] = "idle"  BY <3>1, <3>2, <1>a, <1>b DEF Leave, Goto
    <3>4. QED BY <3>3
  <2>7. QED BY <1>1, <2>1, <2>2, <2>3, <2>4, <2>5, <2>6 DEF SweepStep
<1>2. ASSUME NEW a \in Admins, Moderate(a) PROVE LeaseExcludes'
  BY <1>c, <1>2 DEF Moderate, reads
<1>3. CASE Age  BY <1>c, <1>3 DEF Age, policy, reads
<1>4. CASE LeaseLapse
  <2>1. \A v \in Sweepers : pc[v] = "idle"
    BY <1>4, ProcessesAssumption DEF LeaseLapse, LeaseExcludes
  <2>2. QED BY <1>c, <1>4, <2>1 DEF LeaseLapse, rowVars, reads
<1>5. CASE UNCHANGED vars  BY <1>c, <1>5 DEF vars
<1>6. QED BY <1>1, <1>2, <1>3, <1>4, <1>5 DEF Next, SweepsAlone

\* A verdict computed from a copy that equals the row is a policy step.
LEMMA CurrentWriteIsPolicy ==
    ASSUME TypeOK, NEW w \in Processes, NEW v \in Verdicts, WriteCheck(w, v),
           seenFailures[w] = failures, seenDisabled[w] = disabled
    PROVE  Policy!Next
<1>1. CASE v = "premium"
  <2>1. Policy!Passed
    BY <1>1 DEF Policy!Passed, WriteCheck, Classify, NextConsecutive, NextDisabled
  <2>2. QED BY <2>1 DEF Policy!Next
<1>2. CASE v = "lossy"
  <2>1. Policy!Lossy
    BY <1>2 DEF Policy!Lossy, WriteCheck, Classify, NextConsecutive, NextDisabled
  <2>2. QED BY <2>1 DEF Policy!Next
<1>3. CASE v = "failed"
  <2>1. failures' = Policy!Bump(failures)
    BY <1>3 DEF WriteCheck, NextConsecutive, Bump, Policy!Bump
  <2>2. failures + 1 >= AutoDisableAfter <=> failures' >= AutoDisableAfter
    BY <2>1, BoundsAssumption DEF Policy!Bump, TypeOK
  <2>3. disabled' = (disabled \/ failures + 1 >= AutoDisableAfter)
    BY <1>3 DEF WriteCheck, NextDisabled
  <2>4. disabled' = (disabled \/ failures' >= AutoDisableAfter)  BY <2>2, <2>3
  <2>5. status' = "dead" /\ premium' = FALSE /\ removed' = removed
    BY <1>3 DEF WriteCheck, Classify
  <2>6. Policy!Failed  BY <2>1, <2>4, <2>5 DEF Policy!Failed
  <2>7. QED BY <2>6 DEF Policy!Next
<1>4. QED BY <1>1, <1>2, <1>3 DEF Verdicts

LEMMA StepIsPolicy ==
    ASSUME SweepsAlone, TypeOK, LeaseExcludes, [Next]_vars
    PROVE  [Policy!Next]_(Policy!row)
<1>a. Processes = Sweepers  BY DEF SweepsAlone, Processes
<1>1. ASSUME NEW w \in Sweepers, SweepStep(w) PROVE [Policy!Next]_(Policy!row)
  <2>1. CASE SweepWrite(w)
    <3>1. seenFailures[w] = failures /\ seenDisabled[w] = disabled
      BY <2>1 DEF SweepWrite, LeaseExcludes
    <3>2. QED BY <2>1, <3>1, <1>a, CurrentWriteIsPolicy DEF SweepWrite
  <2>2. CASE ~SweepWrite(w)
    BY <1>1, <2>2
    DEF SweepStep, ClaimSweep, ClaimError, ReadAll, SweepSkip, EndSweep, SweepDies, rowVars,
        Policy!row
  <2>3. QED BY <2>1, <2>2
<1>2. ASSUME NEW a \in Admins, Moderate(a) PROVE [Policy!Next]_(Policy!row)
  BY <1>2 DEF Moderate, Policy!Next, Policy!Moderated
<1>3. CASE Age \/ LeaseLapse \/ UNCHANGED vars
  BY <1>3 DEF Age, LeaseLapse, policy, rowVars, vars, Policy!row
<1>4. QED BY <1>1, <1>2, <1>3 DEF Next, SweepsAlone

\* A sweep at work holds the lease and computes from the row as it is, for any number of sweeps,
\* with crashes, failed releases and the administrator.
THEOREM SweepsExclude ==
    ASSUME SweepsAlone
    PROVE  Spec => []LeaseExcludes
<1>1. Init => TypeOK /\ LeaseExcludes
  <2>1. Init => LeaseExcludes  BY DEF Init, LeaseExcludes, Processes
  <2>2. QED BY <2>1, InitTyped
<1>2. TypeOK /\ LeaseExcludes /\ [Next]_vars => TypeOK' /\ LeaseExcludes'
  BY StepTyped, StepExcludes
<1>3. QED BY <1>1, <1>2, PTL DEF Spec

\* "What it prevents: two sweeps of the same row read-modify-write its consecutive_failures"
\* (server/README.md): where sweeps are the only checks and every claim is answered, any number
\* of sweeps, with crashes and failed releases, changes the row as the policy allows.
THEOREM SweepsImplementPolicy ==
    ASSUME SweepsAlone
    PROVE  Spec => ImplementsPolicy
<1>1. Init => TypeOK /\ LeaseExcludes /\ Policy!Init
  <2>1. Init => LeaseExcludes  BY DEF Init, LeaseExcludes, Processes
  <2>2. Init => Policy!Init  BY DEF Init, Policy!Init
  <2>3. QED BY <2>1, <2>2, InitTyped
<1>2. TypeOK /\ LeaseExcludes /\ [Next]_vars => TypeOK' /\ LeaseExcludes'
  BY StepTyped, StepExcludes
<1>3. TypeOK /\ LeaseExcludes /\ [Next]_vars => [Policy!Next]_(Policy!row)
  BY StepIsPolicy
<1>4. QED BY <1>1, <1>2, <1>3, PTL DEF Spec, ImplementsPolicy, Policy!Spec
=============================================================================
