------------------------- MODULE TidalRefreshProofs -------------------------
(***************************************************************************)
(* Proofs about the refresh of a rotating credential, for any number of    *)
(* callers, polls, backoff steps and grants.                               *)
(***************************************************************************)
EXTENDS TidalRefresh, TLAPS

Places == {"out", "migrate", "gate", "claim", "wait", "post", "abuse",
           "store", "cool", "hold", "free"}

\* The part of the type invariant that a caller's own moves touch.
CallersOK ==
    /\ pc \in [Callers -> Places]
    /\ known \in [Callers -> 0 .. MaxGrants] /\ cred \in [Callers -> 0 .. MaxGrants]
    /\ got \in [Callers -> 0 .. MaxGrants] /\ hold \in [Callers -> 0 .. MaxBackoff]
    /\ tries \in [Callers -> 0 .. LoserTries]

\* The part about the row, the provider and the history.
RowOK ==
    /\ token \in 0 .. MaxGrants /\ refresh \in 0 .. MaxGrants
    /\ claim \in Callers \cup {NoOne}
    /\ live \in BOOLEAN /\ cooling \in BOOLEAN
    /\ backoff \in 0 .. MaxBackoff

ProviderOK == grants \in 0 .. MaxGrants /\ honoured \in 0 .. MaxGrants /\ lost \in BOOLEAN

LEMMA TypeParts == TypeOK <=> CallersOK /\ RowOK /\ ProviderOK
BY DEF TypeOK, CallersOK, RowOK, ProviderOK, Places

-----------------------------------------------------------------------------
(* Moves of one caller. *)

LEMMA GotoMoves ==
    ASSUME CallersOK, NEW p \in Callers, NEW place \in Places, Goto(p, place)
    PROVE  /\ pc' \in [Callers -> Places] /\ pc'[p] = place
           /\ \A q \in Callers \ {p} : pc'[q] = pc[q]
BY DEF CallersOK, Goto

LEMMA LeaveMoves ==
    ASSUME CallersOK, NEW p \in Callers, Leave(p)
    PROVE  /\ CallersOK' /\ pc'[p] = "out"
           /\ \A q \in Callers \ {p} : pc'[q] = pc[q] /\ cred'[q] = cred[q] /\ got'[q] = got[q]
<1>1. 0 \in 0 .. MaxGrants /\ 0 \in 0 .. MaxBackoff /\ 0 \in 0 .. LoserTries
  BY BoundsAssumption
<1>2. pc' \in [Callers -> Places]  BY DEF CallersOK, Leave, Goto, Places
<1>3. known' \in [Callers -> 0 .. MaxGrants] /\ cred' \in [Callers -> 0 .. MaxGrants]
      /\ got' \in [Callers -> 0 .. MaxGrants]
  BY <1>1 DEF CallersOK, Leave
<1>4. hold' \in [Callers -> 0 .. MaxBackoff] /\ tries' \in [Callers -> 0 .. LoserTries]
  BY <1>1 DEF CallersOK, Leave
<1>5. QED BY <1>2, <1>3, <1>4 DEF CallersOK, Leave, Goto

LEMMA NextBackoffInRange == ASSUME NEW b \in 0 .. MaxBackoff
                            PROVE  NextBackoff(b) \in 0 .. MaxBackoff
BY BoundsAssumption DEF NextBackoff

\* A grant names a refresh token in range, and none older than the one it replaces.
LEMMA GrantMoves ==
    ASSUME ProviderOK, NEW p \in Callers, NEW r \in 0 .. MaxGrants, Grant(p, r)
    PROVE  /\ grants + 1 \in 0 .. MaxGrants
           /\ grants' = grants + 1 /\ honoured' = r /\ cred[p] = honoured
           /\ r = honoured \/ r = grants + 1
BY BoundsAssumption DEF ProviderOK, Grant

-----------------------------------------------------------------------------
(* Type correctness. *)

LEMMA TypeInit == Init => TypeOK
<1> SUFFICES ASSUME Init PROVE TypeOK
  OBVIOUS
<1>1. 0 \in 0 .. MaxGrants /\ 0 \in 0 .. MaxBackoff /\ 0 \in 0 .. LoserTries
  BY BoundsAssumption
<1>2. CallersOK  BY <1>1 DEF Init, CallersOK, Places
<1>3. RowOK /\ ProviderOK  BY <1>1 DEF Init, RowOK, ProviderOK
<1>4. QED BY <1>2, <1>3, TypeParts

\* What finishRefresh writes is in range.
LEMMA OutcomeTyped ==
    ASSUME CallersOK, RowOK, NEW p \in Callers, Outcome(p)  PROVE RowOK'
<1>1. cred[p] \in 0 .. MaxGrants /\ got[p] \in 0 .. MaxGrants /\ hold[p] \in 0 .. MaxBackoff
      /\ 0 \in 0 .. MaxBackoff
  BY BoundsAssumption DEF CallersOK
<1>2. claim' \in Callers \cup {NoOne} /\ live' \in BOOLEAN  BY DEF Outcome
<1>3. token' \in 0 .. MaxGrants /\ refresh' \in 0 .. MaxGrants
  BY <1>1 DEF Outcome, RowOK
<1>4. backoff' \in 0 .. MaxBackoff  BY <1>1 DEF Outcome, RowOK
<1>5. cooling' \in BOOLEAN
  <2>1. CASE pc[p] = "store"  BY <2>1 DEF Outcome
  <2>2. CASE pc[p] # "store"
    <3>1. cooling' = (cooling \/ pc[p] \in {"cool", "hold"})  BY <2>2 DEF Outcome
    <3>2. QED BY <3>1
  <2>3. QED BY <2>1, <2>2
<1>6. QED BY <1>2, <1>3, <1>4, <1>5 DEF RowOK

LEMMA TypeNext == TypeOK /\ [Next]_vars => TypeOK'
<1> SUFFICES ASSUME TypeOK, [Next]_vars PROVE TypeOK'
  OBVIOUS
<1>a. CallersOK /\ RowOK /\ ProviderOK  BY TypeParts
<1>b. SUFFICES CallersOK' /\ RowOK' /\ ProviderOK'
  BY DEF TypeOK, CallersOK, RowOK, ProviderOK, Places
<1>1. CASE Lapse \/ CooldownEnds
  <2>1. UNCHANGED <<token, refresh, claim, backoff, provider, lost, pc, hands>>
        /\ live' \in BOOLEAN /\ cooling' \in BOOLEAN
    BY <1>a, <1>1 DEF Lapse, CooldownEnds, RowOK
  <2>2. QED BY <1>a, <2>1 DEF CallersOK, RowOK, ProviderOK, provider, hands
<1>2. ASSUME NEW p \in Callers,
             Start(p) \/ Migrate(p) \/ TurnAway(p) \/ Gate(p)
             \/ LoseClaim(p) \/ PollAgain(p) \/ PollEnds(p)
      PROVE  CallersOK' /\ RowOK' /\ ProviderOK'
  <2>1. CASE Start(p)
    <3>1. Goto(p, "migrate") \/ Goto(p, "gate")  BY <2>1 DEF Start
    <3>2. pc' \in [Callers -> Places]  BY <1>a, <3>1, GotoMoves DEF Places
    <3>3. QED BY <1>a, <2>1, <3>2 DEF Start, CallersOK, RowOK, ProviderOK, row, provider
  <2>2. CASE Migrate(p)
    <3>1. pc' \in [Callers -> Places]  BY <1>a, <2>2, GotoMoves DEF Migrate, Places
    <3>2. QED BY <1>a, <2>2, <3>1 DEF Migrate, CallersOK, RowOK, ProviderOK, provider, hands
  <2>3. CASE TurnAway(p) \/ PollEnds(p)
    <3>1. CallersOK'  BY <1>a, <2>3, LeaveMoves DEF TurnAway, PollEnds
    <3>2. QED BY <1>a, <2>3, <3>1 DEF TurnAway, PollEnds, RowOK, ProviderOK, row, provider
  <2>4. CASE Gate(p) \/ LoseClaim(p)
    <3>1. pc' \in [Callers -> Places]
      BY <1>a, <2>4, GotoMoves DEF Gate, LoseClaim, Places
    <3>2. QED
      BY <1>a, <2>4, <3>1 DEF Gate, LoseClaim, CallersOK, RowOK, ProviderOK, row, provider, hands
  <2>5. CASE PollAgain(p)
    <3>1. tries[p] \in 0 .. LoserTries /\ tries[p] + 1 < LoserTries
      BY <1>a, <2>5 DEF PollAgain, CallersOK
    <3>2. tries[p] + 1 \in 0 .. LoserTries  BY <3>1, BoundsAssumption
    <3>3. tries' \in [Callers -> 0 .. LoserTries]
      BY <1>a, <2>5, <3>2 DEF PollAgain, CallersOK
    <3>4. QED BY <1>a, <2>5, <3>3 DEF PollAgain, CallersOK, RowOK, ProviderOK, row, provider
  <2>6. QED BY <1>2, <2>1, <2>2, <2>3, <2>4, <2>5
<1>3. ASSUME NEW p \in Callers, Claim(p)  PROVE CallersOK' /\ RowOK' /\ ProviderOK'
  <2>1. pc' \in [Callers -> Places]  BY <1>a, <1>3, GotoMoves DEF Claim, ClaimWith, Places
  <2>2. cred' \in [Callers -> 0 .. MaxGrants]
    BY <1>a, <1>3 DEF Claim, ClaimWith, CallersOK, RowOK
  <2>3. CallersOK'  BY <1>a, <1>3, <2>1, <2>2 DEF Claim, ClaimWith, CallersOK
  <2>4. RowOK'  BY <1>a, <1>3 DEF Claim, ClaimWith, RowOK
  <2>5. lost' \in BOOLEAN  BY <1>3 DEF Claim, ClaimWith
  <2>6. QED BY <1>a, <1>3, <2>3, <2>4, <2>5 DEF Claim, ClaimWith, ProviderOK, provider
<1>4. ASSUME NEW p \in Callers, Granted(p)  PROVE CallersOK' /\ RowOK' /\ ProviderOK'
  <2>1. PICK r \in 0 .. MaxGrants :
          /\ pc[p] = "post" /\ Grant(p, r)
          /\ got' = [got EXCEPT ![p] = grants + 1] /\ cred' = [cred EXCEPT ![p] = r]
          /\ Goto(p, "store")
          /\ UNCHANGED <<row, lost, known, hold, tries>>
    BY <1>4 DEF Granted
  <2>2. pc' \in [Callers -> Places]  BY <1>a, <2>1, GotoMoves DEF Places
  <2>3. grants + 1 \in 0 .. MaxGrants /\ grants' = grants + 1 /\ honoured' = r
    BY <1>a, <2>1, GrantMoves
  <2>4. CallersOK'  BY <1>a, <2>1, <2>2, <2>3 DEF CallersOK
  <2>5. QED BY <1>a, <2>1, <2>3, <2>4 DEF RowOK, ProviderOK, row
<1>5. ASSUME NEW p \in Callers, AnswerLost(p)  PROVE CallersOK' /\ RowOK' /\ ProviderOK'
  <2>1. PICK r \in 0 .. MaxGrants :
          /\ pc[p] = "post" /\ Grant(p, r)
          /\ lost' = (lost \/ r # honoured)
          /\ Goto(p, "cool")
          /\ UNCHANGED <<row, hands>>
    BY <1>5 DEF AnswerLost
  <2>2. pc' \in [Callers -> Places]  BY <1>a, <2>1, GotoMoves DEF Places
  <2>3. grants + 1 \in 0 .. MaxGrants /\ grants' = grants + 1 /\ honoured' = r
    BY <1>a, <2>1, GrantMoves
  <2>4. CallersOK'  BY <1>a, <2>1, <2>2 DEF CallersOK, hands
  <2>5. lost' \in BOOLEAN  BY <2>1
  <2>6. QED BY <1>a, <2>1, <2>3, <2>4, <2>5 DEF RowOK, ProviderOK, row
<1>6. ASSUME NEW p \in Callers, NotGranted(p)  PROVE CallersOK' /\ RowOK' /\ ProviderOK'
  <2>1. PICK place \in {"cool", "abuse", "free"} :
          Goto(p, place) /\ UNCHANGED <<row, provider, lost, hands>>
    BY <1>6 DEF NotGranted
  <2>2. pc' \in [Callers -> Places]  BY <1>a, <2>1, GotoMoves DEF Places
  <2>3. QED BY <1>a, <2>1, <2>2 DEF CallersOK, RowOK, ProviderOK, row, provider, hands
<1>7. ASSUME NEW p \in Callers, ReadBackoff(p)  PROVE CallersOK' /\ RowOK' /\ ProviderOK'
  <2>1. PICK b \in {NextBackoff(backoff), 1} :
          /\ pc[p] = "abuse"
          /\ hold' = [hold EXCEPT ![p] = b]
          /\ Goto(p, "hold")
          /\ UNCHANGED <<row, provider, lost, known, cred, got, tries>>
    BY <1>7 DEF ReadBackoff
  <2>2. b \in 0 .. MaxBackoff  BY <1>a, <2>1, NextBackoffInRange, BoundsAssumption DEF RowOK
  <2>3. pc' \in [Callers -> Places]  BY <1>a, <2>1, GotoMoves DEF Places
  <2>4. QED BY <1>a, <2>1, <2>2, <2>3 DEF CallersOK, RowOK, ProviderOK, row, provider
<1>8. ASSUME NEW p \in Callers, Finish(p)  PROVE CallersOK' /\ RowOK' /\ ProviderOK'
  <2>1. CallersOK'
    <3>1. CASE Leave(p)  BY <1>a, <3>1, LeaveMoves
    <3>2. CASE Goto(p, "gate") /\ UNCHANGED hands
      <4>1. pc' \in [Callers -> Places]  BY <1>a, <3>2, GotoMoves DEF Places
      <4>2. QED BY <1>a, <3>2, <4>1 DEF CallersOK, hands
    <3>3. QED BY <1>8, <3>1, <3>2 DEF Finish, FinishIf
  <2>2. RowOK'
    <3>1. CASE Outcome(p)  BY <1>a, <3>1, OutcomeTyped
    <3>2. CASE UNCHANGED row  BY <1>a, <3>2 DEF row, RowOK
    <3>3. QED BY <1>8, <3>1, <3>2 DEF Finish, FinishIf
  <2>3. lost' \in BOOLEAN
    <3>1. lost' = lost \/ lost' = (lost \/ Unstored(p))  BY <1>8 DEF Finish, FinishIf
    <3>2. QED BY <1>a, <3>1 DEF ProviderOK
  <2>4. QED BY <1>a, <1>8, <2>1, <2>2, <2>3 DEF Finish, FinishIf, ProviderOK, provider
<1>9. ASSUME NEW p \in Callers, Crash(p)  PROVE CallersOK' /\ RowOK' /\ ProviderOK'
  <2>1. CallersOK'  BY <1>a, <1>9, LeaveMoves DEF Crash
  <2>2. lost' \in BOOLEAN  BY <1>9 DEF Crash
  <2>3. QED BY <1>a, <1>9, <2>1, <2>2 DEF Crash, RowOK, ProviderOK, row, provider
<1>10. CASE UNCHANGED vars
  BY <1>a, <1>10 DEF vars, CallersOK, RowOK, ProviderOK
<1>11. QED
  BY <1>1, <1>2, <1>3, <1>4, <1>5, <1>6, <1>7, <1>8, <1>9, <1>10 DEF Next, Post

\* Every reachable state is well typed.
THEOREM TypeCorrect == Spec => []TypeOK
BY TypeInit, TypeNext, PTL DEF Spec

-----------------------------------------------------------------------------
(* One POST at a time, and none during a cooldown. *)

\* Whoever talks to the provider owns a live claim, and no cooldown is in force: the claim's WHERE
\* says so when it is won, only its owner ends it or cools the row, and it outlasts the POST.
PostingOwns == \A p \in Callers : pc[p] = "post" => claim = p /\ live /\ ~cooling

\* A step of p that leaves the claim alone and does not bring p to its POST keeps PostingOwns.
LEMMA OwnsFrame ==
    ASSUME PostingOwns, NEW p \in Callers, UNCHANGED <<claim, live, cooling>>,
           pc'[p] # "post", \A q \in Callers \ {p} : pc'[q] = pc[q]
    PROVE  PostingOwns'
BY DEF PostingOwns

LEMMA OwnsNext == TypeOK /\ PostingOwns /\ [Next]_vars => PostingOwns'
<1> SUFFICES ASSUME TypeOK, PostingOwns, [Next]_vars PROVE PostingOwns'
  OBVIOUS
<1>a. CallersOK  BY TypeParts
<1>1. CASE Lapse  BY <1>1 DEF Lapse, PostingOwns
<1>2. CASE CooldownEnds  BY <1>2 DEF CooldownEnds, PostingOwns
<1>3. ASSUME NEW p \in Callers, TurnAway(p) \/ PollEnds(p) \/ Crash(p)  PROVE PostingOwns'
  <2>1. Leave(p) /\ UNCHANGED row  BY <1>3 DEF TurnAway, PollEnds, Crash
  <2>2. QED BY <1>a, <2>1, LeaveMoves, OwnsFrame DEF row
<1>4. ASSUME NEW p \in Callers, Start(p) \/ Migrate(p) \/ Gate(p) \/ LoseClaim(p)
      PROVE  PostingOwns'
  <2>1. UNCHANGED <<claim, live, cooling>>
    BY <1>4 DEF Start, Migrate, Gate, LoseClaim, row
  <2>2. PICK place \in Places \ {"post"} : Goto(p, place)
    BY <1>4 DEF Start, Migrate, Gate, LoseClaim, Places
  <2>3. QED BY <1>a, <2>1, <2>2, GotoMoves, OwnsFrame
<1>5. ASSUME NEW p \in Callers, PollAgain(p)  PROVE PostingOwns'
  BY <1>5 DEF PollAgain, PostingOwns, row
<1>6. ASSUME NEW p \in Callers, Claim(p)  PROVE PostingOwns'
  <2>1. claim' = p /\ live' = TRUE /\ cooling' = cooling /\ Goto(p, "post")
    BY <1>6 DEF Claim, ClaimWith
  <2>2. ~cooling /\ (claim = NoOne \/ ~live)  BY <1>6 DEF Claim, ClaimWith, Claimable
  <2>3. \A q \in Callers : pc[q] # "post"  BY <2>2, CallersAssumption DEF PostingOwns
  <2>4. \A q \in Callers \ {p} : pc'[q] # "post"  BY <1>a, <2>1, <2>3, GotoMoves DEF Places
  <2>5. QED BY <2>1, <2>2, <2>4 DEF PostingOwns
<1>7. ASSUME NEW p \in Callers, Post(p) \/ ReadBackoff(p)  PROVE PostingOwns'
  <2>1. UNCHANGED <<claim, live, cooling>>
    BY <1>7 DEF Post, Granted, AnswerLost, NotGranted, ReadBackoff, row
  <2>2. PICK place \in Places \ {"post"} : Goto(p, place)
    BY <1>7 DEF Post, Granted, AnswerLost, NotGranted, ReadBackoff, Places
  <2>3. QED BY <1>a, <2>1, <2>2, GotoMoves, OwnsFrame
<1>8. ASSUME NEW p \in Callers, Finish(p)  PROVE PostingOwns'
  <2>1. pc'[p] # "post" /\ \A q \in Callers \ {p} : pc'[q] = pc[q]
    <3>1. CASE Leave(p)  BY <1>a, <3>1, LeaveMoves
    <3>2. CASE Goto(p, "gate")  BY <1>a, <3>2, GotoMoves DEF Places
    <3>3. QED BY <1>8, <3>1, <3>2 DEF Finish, FinishIf
  <2>2. CASE UNCHANGED row  BY <2>1, <2>2, OwnsFrame DEF row
  <2>3. CASE claim = p
    <3>1. \A q \in Callers \ {p} : pc'[q] # "post"  BY <2>1, <2>3 DEF PostingOwns
    <3>2. QED BY <2>1, <3>1 DEF PostingOwns
  <2>4. QED BY <1>8, <2>2, <2>3 DEF Finish, FinishIf
<1>9. CASE UNCHANGED vars  BY <1>9 DEF vars, PostingOwns
<1>10. QED
  BY <1>1, <1>2, <1>3, <1>4, <1>5, <1>6, <1>7, <1>8, <1>9 DEF Next

LEMMA PostingAlwaysOwns == Spec => [](TypeOK /\ PostingOwns)
<1>1. Init => PostingOwns  BY DEF Init, PostingOwns
<1>2. QED BY <1>1, TypeInit, TypeNext, OwnsNext, PTL DEF Spec

\* However many callers find the token expired, one POST to the token endpoint is under way.
THEOREM OnePostAtATime == Spec => []SingleFlight
<1>1. PostingOwns => SingleFlight  BY DEF PostingOwns, SingleFlight
<1>2. QED BY <1>1, PostingAlwaysOwns, PTL

\* Nobody talks to the token endpoint while the account's cooldown is in force.
THEOREM CooldownsAreRespected == Spec => []CooldownRespected
<1>1. PostingOwns => CooldownRespected  BY DEF PostingOwns, CooldownRespected
<1>2. QED BY <1>1, PostingAlwaysOwns, PTL

-----------------------------------------------------------------------------
(* Rotation, when every writer of the credential goes through the claim.  A health check does    *)
(* not: its migrating write comes before the gate.                                               *)

NoChecks == Checks = {}

\* What a caller with a POST under way is about to spend is the row's refresh token.
SpendsStored == \A p \in Callers : pc[p] = "post" => cred[p] = refresh

\* A claimant's grant is the latest one: nobody else can have been granted anything since.
StoresLatest == \A p \in Callers : pc[p] = "store" /\ claim = p => cred[p] = honoured

\* Where the refresh token that the provider accepts is: in the row, in the hands of the one
\* caller whose write will put it there, or lost.
Kept == lost \/ refresh = honoured \/ \E p \in Callers : p = claim /\ Unstored(p)

\* Nobody writes the credential without a claim.
NobodyMigrates == \A p \in Callers : pc[p] # "migrate"

InOrder == refresh <= honoured /\ honoured <= grants

RotationInv == SpendsStored /\ StoresLatest /\ Kept /\ NobodyMigrates /\ InOrder

LEMMA RotationInit == Init => RotationInv
BY BoundsAssumption
DEF Init, RotationInv, SpendsStored, StoresLatest, Kept, NobodyMigrates, InOrder

\* A step of p that touches neither row nor provider, and brings p neither to its POST nor to
\* its write, keeps the invariant if p does not drop the only copy of a credential.
LEMMA RotationFrame ==
    ASSUME RotationInv, NEW p \in Callers,
           UNCHANGED <<token, refresh, claim, grants, honoured>>,
           pc'[p] \notin {"post", "store", "migrate"},
           \A q \in Callers \ {p} : pc'[q] = pc[q] /\ cred'[q] = cred[q],
           lost \/ Unstored(p) => lost'
    PROVE  RotationInv'
<1>1. SpendsStored' /\ StoresLatest' /\ NobodyMigrates' /\ InOrder'
  BY DEF RotationInv, SpendsStored, StoresLatest, NobodyMigrates, InOrder
<1>2. Kept'  BY DEF RotationInv, Kept, Unstored
<1>3. QED BY <1>1, <1>2 DEF RotationInv

LEMMA RotationNext ==
    ASSUME NoChecks
    PROVE  TypeOK /\ PostingOwns /\ RotationInv /\ [Next]_vars => RotationInv' /\ refresh' >= refresh
<1> SUFFICES ASSUME TypeOK, PostingOwns, RotationInv, [Next]_vars
             PROVE  RotationInv' /\ refresh' >= refresh
  OBVIOUS
<1>a. CallersOK /\ RowOK /\ ProviderOK  BY TypeParts
<1>b. /\ refresh \in Nat /\ honoured \in Nat /\ grants \in Nat
      /\ \A p \in Callers : cred[p] \in Nat
  BY <1>a, BoundsAssumption DEF CallersOK, RowOK, ProviderOK
<1>c. ASSUME refresh' = refresh PROVE refresh' >= refresh  BY <1>b, <1>c
<1>1. CASE Lapse \/ CooldownEnds
  <2>1. UNCHANGED <<token, refresh, claim, grants, honoured, lost, pc, cred>>
    BY <1>1 DEF Lapse, CooldownEnds, provider, hands
  <2>2. RotationInv'
    BY <2>1 DEF RotationInv, SpendsStored, StoresLatest, Kept, NobodyMigrates, InOrder, Unstored
  <2>3. QED BY <1>c, <2>1, <2>2
<1>2. ASSUME NEW p \in Callers, TurnAway(p) \/ PollEnds(p) \/ Crash(p)
      PROVE  RotationInv' /\ refresh' >= refresh
  <2>1. Leave(p) /\ UNCHANGED <<token, refresh, claim, grants, honoured>>
    BY <1>2 DEF TurnAway, PollEnds, Crash, row, provider
  <2>2. lost \/ Unstored(p) => lost'
    BY <1>2 DEF TurnAway, PollEnds, Crash, Unstored
  <2>3. RotationInv'  BY <1>a, <2>1, <2>2, LeaveMoves, RotationFrame
  <2>4. QED BY <1>c, <2>1, <2>3
<1>3. ASSUME NEW p \in Callers, Start(p) \/ Gate(p) \/ LoseClaim(p)
      PROVE  RotationInv' /\ refresh' >= refresh
  <2>1. UNCHANGED <<token, refresh, claim, grants, honoured, lost>>
    BY <1>3 DEF Start, Gate, LoseClaim, row, provider
  <2>2. PICK place \in Places \ {"post", "store", "migrate"} : Goto(p, place)
    BY <1>3 DEF Start, Gate, LoseClaim, Places, NoChecks
  <2>3. ~Unstored(p)  BY <1>3 DEF Start, Gate, LoseClaim, Unstored
  <2>4. \A q \in Callers \ {p} : cred'[q] = cred[q]
    BY <1>a, <1>3 DEF Start, Gate, LoseClaim, hands, CallersOK
  <2>5. RotationInv'  BY <1>a, <2>1, <2>2, <2>3, <2>4, GotoMoves, RotationFrame
  <2>6. QED BY <1>c, <2>1, <2>5
<1>4. ASSUME NEW p \in Callers, Migrate(p)  PROVE FALSE
  BY <1>4 DEF Migrate, RotationInv, NobodyMigrates
<1>5. ASSUME NEW p \in Callers, PollAgain(p)  PROVE RotationInv' /\ refresh' >= refresh
  <2>1. UNCHANGED <<token, refresh, claim, grants, honoured, lost, pc, cred>>
    BY <1>5 DEF PollAgain, row, provider
  <2>2. RotationInv'
    BY <2>1 DEF RotationInv, SpendsStored, StoresLatest, Kept, NobodyMigrates, InOrder, Unstored
  <2>3. QED BY <1>c, <2>1, <2>2
<1>6. ASSUME NEW p \in Callers, Claim(p)  PROVE RotationInv' /\ refresh' >= refresh
  <2>1. /\ claim' = p /\ cred' = [cred EXCEPT ![p] = refresh] /\ Goto(p, "post")
        /\ lost' = (lost \/ \E q \in Callers : q = claim /\ Unstored(q))
        /\ UNCHANGED <<token, refresh, grants, honoured>>
    BY <1>6 DEF Claim, ClaimWith, provider
  <2>2. /\ pc'[p] = "post" /\ cred'[p] = refresh
        /\ \A q \in Callers \ {p} : pc'[q] = pc[q] /\ cred'[q] = cred[q]
    BY <1>a, <2>1, GotoMoves DEF CallersOK, Places
  <2>3. SpendsStored' /\ StoresLatest'
    BY <2>1, <2>2 DEF RotationInv, SpendsStored, StoresLatest
  <2>4. Kept'  BY <2>1 DEF RotationInv, Kept
  <2>5. NobodyMigrates' /\ InOrder'
    BY <2>1, <2>2 DEF RotationInv, NobodyMigrates, InOrder
  <2>6. QED BY <1>c, <2>1, <2>3, <2>4, <2>5 DEF RotationInv
<1>7. ASSUME NEW p \in Callers, Granted(p) \/ AnswerLost(p)
      PROVE  RotationInv' /\ refresh' >= refresh
  <2>1. PICK r \in 0 .. MaxGrants :
          /\ pc[p] = "post" /\ Grant(p, r)
          /\ UNCHANGED <<token, refresh, claim>>
          /\ \/ /\ cred' = [cred EXCEPT ![p] = r] /\ Goto(p, "store") /\ lost' = lost
             \/ cred' = cred /\ Goto(p, "cool") /\ lost' = (lost \/ r # honoured)
    <3>1. CASE Granted(p)  BY <3>1 DEF Granted, row
    <3>2. CASE AnswerLost(p)  BY <3>2 DEF AnswerLost, row, hands
    <3>3. QED BY <1>7, <3>1, <3>2
  <2>2. /\ grants' = grants + 1 /\ honoured' = r /\ cred[p] = honoured
        /\ r = honoured \/ r = grants + 1
    BY <1>a, <2>1, GrantMoves
  <2>3. claim = p /\ \A q \in Callers \ {p} : pc[q] # "post"
    BY <2>1 DEF PostingOwns
  <2>4. /\ pc'[p] \in {"store", "cool"}
        /\ pc'[p] = "store" => cred'[p] = r
        /\ pc'[p] = "cool" => lost' = (lost \/ r # honoured)
        /\ \A q \in Callers \ {p} : pc'[q] = pc[q] /\ cred'[q] = cred[q]
    BY <1>a, <2>1, GotoMoves DEF CallersOK, Places
  <2>5. SpendsStored' /\ StoresLatest' /\ NobodyMigrates'
    BY <2>1, <2>2, <2>3, <2>4 DEF RotationInv, SpendsStored, StoresLatest, NobodyMigrates
  <2>6. InOrder'  BY <1>b, <2>1, <2>2 DEF RotationInv, InOrder
  <2>7. Kept'
    <3>1. lost \/ refresh = honoured
      BY <2>1, <2>3 DEF RotationInv, Kept, Unstored
    <3>2. CASE lost  BY <2>1, <3>2 DEF Kept
    <3>3. CASE refresh = honoured /\ pc'[p] = "cool"
      BY <2>1, <2>2, <2>4, <3>3 DEF Kept
    <3>4. CASE pc'[p] = "store"
      <4>1. CASE r = refresh  BY <2>1, <2>2, <4>1 DEF Kept
      <4>2. CASE r # refresh  BY <2>1, <2>2, <2>3, <2>4, <3>4, <4>2 DEF Kept, Unstored
      <4>3. QED BY <4>1, <4>2
    <3>5. QED BY <2>4, <3>1, <3>2, <3>3, <3>4
  <2>8. QED BY <1>c, <2>1, <2>5, <2>6, <2>7 DEF RotationInv
<1>8. ASSUME NEW p \in Callers, NotGranted(p) \/ ReadBackoff(p)
      PROVE  RotationInv' /\ refresh' >= refresh
  <2>1. UNCHANGED <<token, refresh, claim, grants, honoured, lost, cred>>
    BY <1>8 DEF NotGranted, ReadBackoff, row, provider, hands
  <2>2. PICK place \in Places \ {"post", "store", "migrate"} : Goto(p, place)
    BY <1>8 DEF NotGranted, ReadBackoff, Places
  <2>3. ~Unstored(p)  BY <1>8 DEF NotGranted, ReadBackoff, Unstored
  <2>4. RotationInv'  BY <1>a, <2>1, <2>2, <2>3, GotoMoves, RotationFrame
  <2>5. QED BY <1>c, <2>1, <2>4
<1>9. ASSUME NEW p \in Callers, Finish(p)  PROVE RotationInv' /\ refresh' >= refresh
  <2>1. Leave(p) /\ UNCHANGED <<grants, honoured>>
    BY <1>9 DEF Finish, FinishIf, provider, NoChecks
  <2>2. /\ pc'[p] = "out"
        /\ \A q \in Callers \ {p} : pc'[q] = pc[q] /\ cred'[q] = cred[q]
    BY <1>a, <2>1, LeaveMoves
  <2>3. CASE UNCHANGED row /\ lost' = (lost \/ Unstored(p))
    <3>1. RotationInv'  BY <2>1, <2>2, <2>3, RotationFrame DEF row
    <3>2. QED BY <1>c, <2>3, <3>1 DEF row
  <2>4. CASE claim = p /\ Outcome(p) /\ UNCHANGED lost
    <3>1. claim' = NoOne /\ \A q \in Callers : q # claim'
      BY <2>4, CallersAssumption DEF Outcome
    <3>2. \A q \in Callers : pc'[q] # "post"  BY <2>2, <2>4 DEF PostingOwns
    <3>3. SpendsStored' /\ StoresLatest' /\ NobodyMigrates'
      BY <2>2, <3>1, <3>2 DEF RotationInv, SpendsStored, StoresLatest, NobodyMigrates
    <3>4. CASE pc[p] = "store"
      <4>1. refresh' = honoured
        BY <2>4, <3>4 DEF Outcome, RotationInv, StoresLatest
      <4>2. Kept' /\ InOrder' /\ refresh' >= refresh
        BY <1>b, <2>1, <4>1 DEF RotationInv, Kept, InOrder
      <4>3. QED BY <3>3, <4>2 DEF RotationInv
    <3>5. CASE pc[p] # "store"
      <4>1. refresh' = refresh  BY <2>4, <3>5 DEF Outcome
      <4>2. lost \/ refresh = honoured
        BY <2>4, <3>5 DEF RotationInv, Kept, Unstored
      <4>3. Kept' /\ InOrder'
        BY <2>1, <2>4, <4>1, <4>2 DEF RotationInv, Kept, InOrder
      <4>4. QED BY <1>c, <3>3, <4>1, <4>3 DEF RotationInv
    <3>6. QED BY <3>4, <3>5
  <2>5. QED BY <1>9, <2>3, <2>4 DEF Finish, FinishIf
<1>10. CASE UNCHANGED vars
  <2>1. UNCHANGED <<token, refresh, claim, grants, honoured, lost, pc, cred>>
    BY <1>10 DEF vars
  <2>2. RotationInv'
    BY <2>1 DEF RotationInv, SpendsStored, StoresLatest, Kept, NobodyMigrates, InOrder, Unstored
  <2>3. QED BY <1>c, <2>1, <2>2
<1>11. QED
  BY <1>1, <1>2, <1>3, <1>4, <1>5, <1>6, <1>7, <1>8, <1>9, <1>10 DEF Next, Post

\* Among callers that all go through the claim, what is spent is what the provider accepts,
\* unless a rotated token was lost with a request, an answer or a write.
THEOREM RotationNeverTurns == ASSUME NoChecks PROVE Spec => []PostsHonoured
<1>1. TypeOK /\ PostingOwns /\ RotationInv => PostsHonoured
  BY DEF PostingOwns, RotationInv, SpendsStored, Kept, Unstored, PostsHonoured
<1>2. TypeOK /\ PostingOwns /\ RotationInv /\ [Next]_vars => RotationInv'
  BY RotationNext
<1>3. QED BY <1>1, <1>2, RotationInit, PostingAlwaysOwns, PTL DEF Spec

\* Among them a stored refresh token is never replaced by an older one.
THEOREM CredentialsNeverGoBack == ASSUME NoChecks PROVE Spec => RotationIsKept
<1>1. TypeOK /\ PostingOwns /\ RotationInv /\ [Next]_vars => RotationInv' /\ [refresh' >= refresh]_vars
  BY RotationNext
<1>2. QED BY <1>1, RotationInit, PostingAlwaysOwns, PTL DEF Spec, RotationIsKept

-----------------------------------------------------------------------------
(* The abuse hold, whoever writes the credential: health checks included.                        *)

\* Every access token in the row or in a payload that was read comes from a grant made.
TokensGranted ==
    /\ token <= grants
    /\ \A p \in Callers : known[p] <= grants /\ got[p] <= grants

\* What a claimant is about to store is newer than every token anybody could store.
GrantIsNew ==
    \A p \in Callers : pc[p] = "store" /\ claim = p =>
        /\ token < got[p]
        /\ \A q \in Callers : known[q] < got[p]

\* The hold a claimant is about to store is the next one after the row's, or the first.
HoldIsNext ==
    \A p \in Callers : pc[p] = "hold" /\ claim = p => hold[p] \in {1, NextBackoff(backoff)}

HoldInv == TokensGranted /\ GrantIsNew /\ HoldIsNext

LEMMA HoldInit == Init => HoldInv
BY BoundsAssumption DEF Init, HoldInv, TokensGranted, GrantIsNew, HoldIsNext

\* A step of p that leaves the claim, the backoff and the grants alone, and brings p to no
\* write, keeps the invariant if the tokens it moves about are ones already there.
LEMMA HoldFrame ==
    ASSUME HoldInv, NEW p \in Callers, UNCHANGED <<claim, backoff, grants>>,
           pc'[p] \notin {"store", "hold"},
           got'[p] = got[p],
           \A q \in Callers \ {p} : /\ pc'[q] = pc[q] /\ got'[q] = got[q]
                                    /\ hold'[q] = hold[q] /\ known'[q] = known[q],
           token' \in {token, known[p]},
           known'[p] \in {token, known[p]}
    PROVE  HoldInv'
<1>1. TokensGranted'  BY DEF HoldInv, TokensGranted
<1>2. GrantIsNew'
  <2> SUFFICES ASSUME NEW q \in Callers, pc'[q] = "store", claim' = q
               PROVE  token' < got'[q] /\ \A s \in Callers : known'[s] < got'[q]
    BY DEF GrantIsNew
  <2>1. q # p /\ pc[q] = "store" /\ claim = q /\ got'[q] = got[q]  OBVIOUS
  <2>2. token < got[q] /\ \A s \in Callers : known[s] < got[q]
    BY <2>1 DEF HoldInv, GrantIsNew
  <2>3. \A s \in Callers : known'[s] \in {token, known[s]}  OBVIOUS
  <2>4. QED BY <2>1, <2>2, <2>3
<1>3. HoldIsNext'  BY DEF HoldInv, HoldIsNext, NextBackoff
<1>4. QED BY <1>1, <1>2, <1>3 DEF HoldInv

\* In particular a caller that leaves, and forgets what it read.
LEMMA LeaveKeepsHold ==
    ASSUME CallersOK, HoldInv, NEW p \in Callers, Leave(p),
           token \in Nat, grants \in Nat, \A q \in Callers : known[q] \in Nat /\ got[q] \in Nat,
           UNCHANGED <<token, claim, backoff, grants>>
    PROVE  HoldInv'
<1>1. /\ pc'[p] = "out" /\ known'[p] = 0 /\ got'[p] = 0
      /\ \A q \in Callers \ {p} : /\ pc'[q] = pc[q] /\ got'[q] = got[q]
                                  /\ hold'[q] = hold[q] /\ known'[q] = known[q]
  BY DEF Leave, Goto, CallersOK
<1>2. TokensGranted'  BY <1>1 DEF HoldInv, TokensGranted
<1>3. GrantIsNew'
  <2> SUFFICES ASSUME NEW q \in Callers, pc'[q] = "store", claim' = q
               PROVE  token' < got'[q] /\ \A s \in Callers : known'[s] < got'[q]
    BY DEF GrantIsNew
  <2>1. q # p /\ pc[q] = "store" /\ claim = q /\ got'[q] = got[q]  BY <1>1
  <2>2. token < got[q] /\ \A s \in Callers : known[s] < got[q]
    BY <2>1 DEF HoldInv, GrantIsNew
  <2>3. \A s \in Callers : known'[s] \in {0, known[s]}  BY <1>1
  <2>4. QED BY <2>1, <2>2, <2>3
<1>4. HoldIsNext'  BY <1>1 DEF HoldInv, HoldIsNext, NextBackoff
<1>5. QED BY <1>2, <1>3, <1>4 DEF HoldInv

\* What a step may do to the abuse hold.
HoldStep ==
    backoff' # backoff => \/ backoff' = 0 /\ token' > token
                          \/ backoff' \in {1, NextBackoff(backoff)}

LEMMA HoldNext == TypeOK /\ PostingOwns /\ HoldInv /\ [Next]_vars => HoldInv' /\ HoldStep
<1> SUFFICES ASSUME TypeOK, PostingOwns, HoldInv, [Next]_vars  PROVE HoldInv' /\ HoldStep
  OBVIOUS
<1>a. CallersOK /\ RowOK /\ ProviderOK  BY TypeParts
<1>b. /\ token \in Nat /\ grants \in Nat /\ backoff \in Nat
      /\ \A p \in Callers : known[p] \in Nat /\ got[p] \in Nat
  BY <1>a, BoundsAssumption DEF CallersOK, RowOK, ProviderOK
<1>c. ASSUME backoff' = backoff  PROVE HoldStep
  BY <1>c DEF HoldStep
<1>1. CASE Lapse \/ CooldownEnds \/ UNCHANGED vars
  <2>1. UNCHANGED <<token, claim, backoff, grants, pc, known, got, hold>>
    BY <1>1 DEF Lapse, CooldownEnds, provider, hands, vars
  <2>2. HoldInv'
    BY <2>1 DEF HoldInv, TokensGranted, GrantIsNew, HoldIsNext, NextBackoff
  <2>3. QED BY <1>c, <2>1, <2>2
<1>2. ASSUME NEW p \in Callers, TurnAway(p) \/ PollEnds(p) \/ Crash(p)
      PROVE  HoldInv' /\ HoldStep
  <2>1. Leave(p) /\ UNCHANGED <<token, claim, backoff, grants>>
    BY <1>2 DEF TurnAway, PollEnds, Crash, row, provider
  <2>2. HoldInv'  BY <1>a, <1>b, <2>1, LeaveKeepsHold
  <2>3. QED BY <1>c, <2>1, <2>2
<1>3. ASSUME NEW p \in Callers, Start(p) \/ Migrate(p) \/ Gate(p) \/ LoseClaim(p)
      PROVE  HoldInv' /\ HoldStep
  <2>1. UNCHANGED <<claim, backoff, grants, got, hold>>
    BY <1>3 DEF Start, Migrate, Gate, LoseClaim, row, provider, hands
  <2>2. PICK place \in Places \ {"store", "hold"} : Goto(p, place)
    BY <1>3 DEF Start, Migrate, Gate, LoseClaim, Places
  <2>3. /\ \A q \in Callers \ {p} : known'[q] = known[q]
        /\ known'[p] \in {token, known[p]} /\ token' \in {token, known[p]}
    BY <1>a, <1>3 DEF Start, Migrate, Gate, LoseClaim, row, hands, CallersOK
  <2>4. HoldInv'  BY <1>a, <2>1, <2>2, <2>3, GotoMoves, HoldFrame
  <2>5. QED BY <1>c, <2>1, <2>4
<1>4. ASSUME NEW p \in Callers, PollAgain(p)  PROVE HoldInv' /\ HoldStep
  <2>1. UNCHANGED <<token, claim, backoff, grants, pc, known, got, hold>>
    BY <1>4 DEF PollAgain, row, provider
  <2>2. HoldInv'
    BY <2>1 DEF HoldInv, TokensGranted, GrantIsNew, HoldIsNext, NextBackoff
  <2>3. QED BY <1>c, <2>1, <2>2
<1>5. ASSUME NEW p \in Callers, Claim(p)  PROVE HoldInv' /\ HoldStep
  <2>1. claim' = p /\ Goto(p, "post") /\ UNCHANGED <<token, backoff, grants, known, got, hold>>
    BY <1>5 DEF Claim, ClaimWith, provider
  <2>2. pc'[p] = "post"  BY <1>a, <2>1, GotoMoves DEF Places
  <2>3. HoldInv'
    BY <2>1, <2>2 DEF HoldInv, TokensGranted, GrantIsNew, HoldIsNext
  <2>4. QED BY <1>c, <2>1, <2>3
<1>6. ASSUME NEW p \in Callers, Granted(p)  PROVE HoldInv' /\ HoldStep
  <2>1. PICK r \in 0 .. MaxGrants :
          /\ pc[p] = "post" /\ Grant(p, r)
          /\ got' = [got EXCEPT ![p] = grants + 1]
          /\ Goto(p, "store")
          /\ UNCHANGED <<token, claim, backoff, known, hold>>
    BY <1>6 DEF Granted, row
  <2>2. claim = p /\ grants' = grants + 1
    BY <1>a, <2>1, GrantMoves DEF PostingOwns
  <2>3. pc'[p] = "store" /\ got'[p] = grants + 1
    BY <1>a, <2>1, GotoMoves DEF Places, CallersOK
  <2>4. TokensGranted'  BY <1>b, <2>1, <2>2 DEF HoldInv, TokensGranted
  <2>5. GrantIsNew'  BY <1>b, <2>1, <2>2, <2>3 DEF HoldInv, TokensGranted, GrantIsNew
  <2>6. HoldIsNext'  BY <2>1, <2>2, <2>3 DEF HoldIsNext
  <2>7. QED BY <1>c, <2>1, <2>4, <2>5, <2>6 DEF HoldInv
<1>7. ASSUME NEW p \in Callers, AnswerLost(p)  PROVE HoldInv' /\ HoldStep
  <2>1. PICK r \in 0 .. MaxGrants :
          /\ pc[p] = "post" /\ Grant(p, r) /\ Goto(p, "cool")
          /\ UNCHANGED <<token, claim, backoff, known, got, hold>>
    BY <1>7 DEF AnswerLost, row, hands
  <2>2. claim = p /\ grants' = grants + 1
    BY <1>a, <2>1, GrantMoves DEF PostingOwns
  <2>3. pc'[p] = "cool"  BY <1>a, <2>1, GotoMoves DEF Places
  <2>4. TokensGranted'  BY <1>b, <2>1, <2>2 DEF HoldInv, TokensGranted
  <2>5. GrantIsNew' /\ HoldIsNext'  BY <2>1, <2>2, <2>3 DEF GrantIsNew, HoldIsNext
  <2>6. QED BY <1>c, <2>1, <2>4, <2>5 DEF HoldInv
<1>8. ASSUME NEW p \in Callers, NotGranted(p)  PROVE HoldInv' /\ HoldStep
  <2>1. UNCHANGED <<token, claim, backoff, grants, known, got, hold>>
    BY <1>8 DEF NotGranted, row, provider, hands
  <2>2. PICK place \in Places \ {"store", "hold"} : Goto(p, place)
    BY <1>8 DEF NotGranted, Places
  <2>3. HoldInv'  BY <1>a, <2>1, <2>2, GotoMoves, HoldFrame
  <2>4. QED BY <1>c, <2>1, <2>3
<1>9. ASSUME NEW p \in Callers, ReadBackoff(p)  PROVE HoldInv' /\ HoldStep
  <2>1. PICK b \in {NextBackoff(backoff), 1} :
          hold' = [hold EXCEPT ![p] = b] /\ Goto(p, "hold")
          /\ UNCHANGED <<token, claim, backoff, grants, known, got>>
    BY <1>9 DEF ReadBackoff, row, provider
  <2>2. /\ pc'[p] = "hold" /\ \A q \in Callers \ {p} : pc'[q] = pc[q]
        /\ hold'[p] = b /\ \A q \in Callers \ {p} : hold'[q] = hold[q]
    BY <1>a, <2>1, GotoMoves DEF Places, CallersOK
  <2>3. TokensGranted' /\ GrantIsNew'
    BY <2>1, <2>2 DEF HoldInv, TokensGranted, GrantIsNew
  <2>4. HoldIsNext'  BY <2>1, <2>2 DEF HoldInv, HoldIsNext, NextBackoff
  <2>5. QED BY <1>c, <2>1, <2>3, <2>4 DEF HoldInv
<1>10. ASSUME NEW p \in Callers, Finish(p)  PROVE HoldInv' /\ HoldStep
  <2>1. /\ Leave(p) \/ (Goto(p, "gate") /\ UNCHANGED hands)
        /\ pc[p] \in {"store", "cool", "hold", "free"}
        /\ UNCHANGED grants
        /\ UNCHANGED row \/ (claim = p /\ Outcome(p))
    BY <1>10 DEF Finish, FinishIf, provider
  <2>2. CASE UNCHANGED row
    <3>1. CASE Leave(p)
      BY <1>a, <1>b, <1>c, <2>1, <2>2, <3>1, LeaveKeepsHold DEF row
    <3>2. CASE Goto(p, "gate") /\ UNCHANGED hands
      <4>1. UNCHANGED <<known, got, hold>>  BY <3>2 DEF hands
      <4>2. HoldInv'  BY <1>a, <2>1, <2>2, <3>2, <4>1, GotoMoves, HoldFrame DEF row, Places
      <4>3. QED BY <1>c, <2>2, <4>2 DEF row
    <3>3. QED BY <2>1, <3>1, <3>2
  <2>3. CASE claim = p /\ Outcome(p)
    <3>1. claim' = NoOne /\ \A q \in Callers : q # claim'
      BY <2>3, CallersAssumption DEF Outcome
    <3>2. GrantIsNew' /\ HoldIsNext'  BY <3>1 DEF GrantIsNew, HoldIsNext
    <3>3. \A q \in Callers : known'[q] \in {0, known[q]} /\ got'[q] \in {0, got[q]}
      BY <1>a, <2>1 DEF Leave, hands, CallersOK
    <3>4. CASE pc[p] = "store"
      <4>1. token' = got[p] /\ backoff' = 0 /\ token < got[p] /\ got[p] <= grants
        BY <2>3, <3>4 DEF Outcome, HoldInv, GrantIsNew, TokensGranted
      <4>2. TokensGranted'
        BY <1>b, <2>1, <3>3, <4>1 DEF HoldInv, TokensGranted
      <4>3. HoldStep  BY <1>b, <4>1 DEF HoldStep
      <4>4. QED BY <3>2, <4>2, <4>3 DEF HoldInv
    <3>5. CASE pc[p] # "store"
      <4>1. token' = token /\ backoff' = IF pc[p] = "hold" THEN hold[p] ELSE backoff
        BY <2>3, <3>5 DEF Outcome
      <4>2. TokensGranted'
        BY <1>b, <2>1, <3>3, <4>1 DEF HoldInv, TokensGranted
      <4>3. HoldStep  BY <2>3, <4>1 DEF HoldStep, HoldInv, HoldIsNext
      <4>4. QED BY <3>2, <4>2, <4>3 DEF HoldInv
    <3>6. QED BY <3>4, <3>5
  <2>4. QED BY <2>1, <2>2, <2>3
<1>11. QED
  BY <1>1, <1>2, <1>3, <1>4, <1>5, <1>6, <1>7, <1>8, <1>9, <1>10 DEF Next, Post

\* The abuse hold outlives the cooldown it caused: it falls only with a newer credential, or to
\* the first step when reading it failed, and it grows one step at a time.
THEOREM AbuseHoldsAreKept == Spec => BackoffIsKept
<1>1. TypeOK /\ PostingOwns /\ HoldInv /\ [Next]_vars => HoldInv' /\ [HoldStep]_vars
  BY HoldNext
<1>2. QED BY <1>1, HoldInit, PostingAlwaysOwns, PTL DEF Spec, BackoffIsKept, HoldStep
=============================================================================
