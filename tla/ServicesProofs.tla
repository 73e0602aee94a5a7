---------------------------- MODULE ServicesProofs ----------------------------
(***************************************************************************)
(* Theorems about the smaller parts of the system, for every value of      *)
(* their constants.  Each part's invariant is proved of that part's own    *)
(* steps, and holds of all parts together because they share no state.     *)
(***************************************************************************)
EXTENDS Services, FiniteSetTheorems, WellFoundedInduction, TLAPS

\* A step of the system is a step of each part, or leaves it as it is.
LEMMA PartsStep ==
    [ServicesNext]_all =>
        /\ [LE!Next]_(LE!vars) /\ [TR!Next]_(TR!vars) /\ [CH!Next]_(CH!vars) /\ [SI!Next]_(SI!vars)
        /\ [DL!Next]_(DL!vars) /\ [SB!Next]_(SB!vars) /\ [RL!Next]_(RL!vars)
<1> USE DEF ServicesNext, all
<1>1. [ServicesNext]_all => [LE!Next]_(LE!vars)  BY DEF leases, LE!vars
<1>2. [ServicesNext]_all => [TR!Next]_(TR!vars)  BY DEF refreshes, TR!vars
<1>a. SI!Next => UNCHANGED server
  BY DEF SI!Next, SI!Begin, SI!Callback, SI!Lookup, SI!InsertCandidate, SI!Winner, SI!Again, SI!Signup,
         SI!CountDevice, SI!CreateUser, SI!Login, SI!Verified, SI!Logout, SI!Me, SI!Close
<1>3. [ServicesNext]_all => [CH!Next]_(CH!vars)  BY <1>a DEF checks, CH!vars
<1>4. CH!Next => UNCHANGED server
  BY DEF CH!Next, CH!Answer, CH!TransitFails, CH!ampDevToken, CH!ConditionChanges
<1>5. [ServicesNext]_all => [SI!Next]_(SI!vars)  BY <1>4 DEF signin, SI!vars
<1>6. [ServicesNext]_all => [DL!Next]_(DL!vars)  BY DEF devices, DL!vars
<1>7. [ServicesNext]_all => [SB!Next]_(SB!vars)  BY DEF sweep, SB!vars
<1>8. [ServicesNext]_all => [RL!Next]_(RL!vars)  BY DEF limits, RL!vars
<1>9. QED BY <1>1, <1>2, <1>3, <1>5, <1>6, <1>7, <1>8

----------------------------------------------------------------------------
(* The device sign-in page (DeviceLogin). *)

\* The page's variables stay in their range, and a code has been asked for when one is shown.
PageTyped ==
    /\ mounted \in BOOLEAN /\ phase \in {"idle", "starting", "waiting", "success", "expired", "error"}
    /\ asked \in 0..MaxCodes /\ (phase = "starting" => asked \in DL!Codes)
    /\ (phase = "waiting" => device \in DL!Codes)
    /\ timers \subseteq DL!Codes
    /\ polls \in [DL!Codes -> {"none", "sent", "ingest", "pending", "slow_down", "expired", "error",
                            "saved", "unsaved"}]

PageInv == PageTyped /\ DL!WaitingIsPolled

LEMMA PageInit == DL!Init => PageInv
  BY DeviceAssumption DEF DL!Init, PageInv, PageTyped, DL!WaitingIsPolled, DL!Polled, DL!Codes, DL!NoCode

\* A code's poll changes nobody else's.
LEMMA AnswerMoves ==
    ASSUME PageTyped, NEW c \in DL!Codes, NEW a, DL!Answer(c, a),
           a \in {"none", "sent", "ingest", "pending", "slow_down", "expired", "error", "saved", "unsaved"}
    PROVE  /\ polls' \in [DL!Codes -> {"none", "sent", "ingest", "pending", "slow_down", "expired", "error",
                                    "saved", "unsaved"}]
           /\ polls'[c] = a
           /\ \A d \in DL!Codes \ {c} : polls'[d] = polls[d]
  BY DEF DL!Answer, PageTyped

\* The poll under way is replaced by a timer: the page goes on polling its code.
LEMMA PolledAgain ==
    ASSUME PageInv, NEW c \in DL!Codes, polls[c] # "none", DL!Answer(c, "none"), DL!Poll(c),
           UNCHANGED <<mounted, phase, device, asked>>
    PROVE  PageInv'
<1>1. /\ polls' \in [DL!Codes -> {"none", "sent", "ingest", "pending", "slow_down", "expired", "error",
                               "saved", "unsaved"}]
      /\ polls'[c] = "none" /\ \A d \in DL!Codes \ {c} : polls'[d] = polls[d]
  BY AnswerMoves DEF PageInv
<1>2. PageTyped'  BY <1>1 DEF PageInv, PageTyped, DL!Poll
<1>3. ASSUME mounted  PROVE DL!WaitingIsPolled'
  <2>1. DL!Polled(c) /\ phase = "waiting" /\ c = device /\ timers \subseteq {c}
    BY <1>3 DEF PageInv, DL!WaitingIsPolled, PageTyped, DL!Polled
  <2>2. timers' = {c} /\ handle' = c  BY <2>1 DEF DL!Poll
  <2>3. QED BY <1>1, <1>3, <2>1, <2>2 DEF PageInv, DL!WaitingIsPolled, DL!Polled
<1>4. QED BY <1>2, <1>3 DEF PageInv, DL!WaitingIsPolled

\* The answer ends the wait: nothing is left to be polled.
LEMMA WaitEnds ==
    ASSUME PageInv, NEW c \in DL!Codes, polls[c] # "none", DL!Answer(c, "none"), DL!ClearTimers,
           phase' \in {"success", "expired", "error"}, UNCHANGED <<mounted, device, asked>>
    PROVE  PageInv'
<1>1. /\ polls' \in [DL!Codes -> {"none", "sent", "ingest", "pending", "slow_down", "expired", "error",
                               "saved", "unsaved"}]
      /\ polls'[c] = "none" /\ \A d \in DL!Codes \ {c} : polls'[d] = polls[d]
  BY AnswerMoves DEF PageInv
<1>2. PageTyped'  BY <1>1 DEF PageInv, PageTyped, DL!ClearTimers
<1>3. ASSUME mounted  PROVE DL!WaitingIsPolled'
  <2>1. c = device /\ timers \subseteq {handle} /\ \A d \in DL!Codes : DL!Polled(d) => d = c
    BY <1>3 DEF PageInv, DL!WaitingIsPolled, DL!Polled
  <2>2. timers' = {}  BY <2>1 DEF DL!ClearTimers
  <2>3. \A d \in DL!Codes : ~DL!Polled(d)'  BY <1>1, <2>1, <2>2 DEF DL!Polled
  <2>4. QED BY <2>2, <2>3 DEF DL!WaitingIsPolled
<1>4. QED BY <1>2, <1>3 DEF PageInv, DL!WaitingIsPolled

\* The poll moves on from one place to the next without leaving the page.
LEMMA PollMoves ==
    ASSUME PageInv, NEW c \in DL!Codes, polls[c] # "none", NEW a, a # "none", DL!Answer(c, a),
           a \in {"ingest", "pending", "slow_down", "expired", "error", "saved", "unsaved"},
           UNCHANGED <<mounted, phase, device, asked, timers, handle>>
    PROVE  PageInv'
<1>1. /\ polls' \in [DL!Codes -> {"none", "sent", "ingest", "pending", "slow_down", "expired", "error",
                               "saved", "unsaved"}]
      /\ polls'[c] = a /\ \A d \in DL!Codes \ {c} : polls'[d] = polls[d]
  BY AnswerMoves DEF PageInv
<1>2. PageTyped'  BY <1>1 DEF PageInv, PageTyped
<1>3. \A d \in DL!Codes : DL!Polled(d)' <=> DL!Polled(d)  BY <1>1 DEF DL!Polled
<1>4. DL!WaitingIsPolled'  BY <1>2, <1>3 DEF PageInv, PageTyped, DL!WaitingIsPolled
<1>5. QED BY <1>2, <1>4 DEF PageInv

LEMMA PageNext == PageInv /\ [DL!Next]_(DL!vars) => PageInv'
<1> SUFFICES ASSUME PageInv, [DL!Next]_(DL!vars)  PROVE PageInv'
  OBVIOUS
<1>a. PageTyped /\ DL!WaitingIsPolled  BY DEF PageInv
<1>1. CASE DL!Start
  <2>0. asked' \in 0..MaxCodes /\ asked' \in DL!Codes  BY DeviceAssumption, <1>1, <1>a DEF DL!Start, PageTyped, DL!Codes
  <2>1. PageTyped'  BY <1>1, <1>a, <2>0 DEF DL!Start, DL!ClearTimers, PageTyped
  <2>2. \A c \in DL!Codes : ~DL!Polled(c)  BY <1>1, <1>a DEF DL!Start, DL!WaitingIsPolled
  <2>3. timers = {}  BY <2>2, <1>a DEF DL!Polled, PageTyped
  <2>4. QED BY <1>1, <2>1, <2>2, <2>3 DEF DL!Start, DL!ClearTimers, DL!WaitingIsPolled, DL!Polled, PageInv
<1>2. CASE DL!Started
  <2>1. asked \in DL!Codes /\ asked' = asked /\ mounted' = mounted /\ polls' = polls
    BY <1>2, <1>a DEF DL!Started, PageTyped
  <2>2. PageTyped'  BY <1>2, <1>a, <2>1 DEF DL!Started, DL!Poll, PageTyped
  <2>3. CASE ~mounted
    BY <2>1, <2>2, <2>3 DEF DL!WaitingIsPolled, PageInv
  <2>4. CASE mounted
    <3>1. \A c \in DL!Codes : ~DL!Polled(c)
      BY <1>2, <1>a, <2>4 DEF DL!Started, DL!WaitingIsPolled
    <3>2. timers = {}  BY <3>1, <1>a DEF DL!Polled, PageTyped
    <3>3. CASE phase' = "waiting"
      <4>1. device' = asked /\ timers' = {asked} /\ handle' = asked
        BY <1>2, <3>2, <3>3 DEF DL!Started, DL!Poll
      <4>2. QED BY <2>1, <2>2, <3>1, <3>3, <4>1 DEF DL!WaitingIsPolled, DL!Polled, PageInv
    <3>4. CASE phase' # "waiting"
      <4>1. timers' = {}  BY <1>2, <3>2, <3>4 DEF DL!Started
      <4>2. QED BY <2>1, <2>2, <3>1, <3>4, <4>1 DEF DL!WaitingIsPolled, DL!Polled, PageInv
    <3>5. QED BY <3>3, <3>4
  <2>5. QED BY <2>3, <2>4
<1>3. CASE DL!Leave
  BY <1>3, <1>a DEF DL!Leave, DL!ClearTimers, PageTyped, DL!WaitingIsPolled, PageInv
<1>4. ASSUME NEW c \in DL!Codes, DL!Fire(c)  PROVE PageInv'
  <2>1. /\ polls' \in [DL!Codes -> {"none", "sent", "ingest", "pending", "slow_down", "expired", "error",
                                 "saved", "unsaved"}]
        /\ polls'[c] = "sent" /\ \A d \in DL!Codes \ {c} : polls'[d] = polls[d]
    BY <1>4, <1>a, AnswerMoves DEF DL!Fire
  <2>2. PageTyped'  BY <1>4, <1>a, <2>1 DEF DL!Fire, DL!page, PageTyped
  <2>3. DL!Polled(c) /\ \A d \in DL!Codes : DL!Polled(d)' <=> DL!Polled(d)
    BY <1>4, <2>1 DEF DL!Fire, DL!Polled
  <2>4. DL!WaitingIsPolled'  BY <1>4, <1>a, <2>3 DEF DL!Fire, DL!page, PageTyped, DL!WaitingIsPolled
  <2>5. QED BY <2>2, <2>4 DEF PageInv
<1>5. ASSUME NEW c \in DL!Codes, DL!Delivered(c)  PROVE PageInv'
  <2>0. polls[c] # "none" /\ DL!Answer(c, "none") /\ UNCHANGED <<mounted, device, asked>>
    BY <1>5 DEF DL!Delivered
  <2>1. CASE polls[c] \in {"pending", "slow_down"}
    BY <1>5, <2>0, <2>1, PolledAgain DEF DL!Delivered
  <2>2. CASE polls[c] \notin {"pending", "slow_down"}
    <3>1. DL!ClearTimers /\ phase' \in {"success", "expired", "error"}
      BY <1>5, <2>2 DEF DL!Delivered
    <3>2. QED BY <2>0, <3>1, WaitEnds
  <2>3. QED BY <2>1, <2>2
<1>6. ASSUME NEW c \in DL!Codes, DL!Lose(c)  PROVE PageInv'
  BY <1>6, PolledAgain DEF DL!Lose, DL!page
<1>7. ASSUME NEW c \in DL!Codes, DL!PollDeviceToken(c)  PROVE PageInv'
  <2>1. PICK a \in {"pending", "slow_down", "expired", "error", "ingest"} : DL!Answer(c, a)
    BY <1>7 DEF DL!PollDeviceToken
  <2>2. polls[c] # "none" /\ UNCHANGED <<mounted, phase, device, asked, timers, handle>>
    BY <1>7 DEF DL!PollDeviceToken, DL!page
  <2>3. QED BY <2>1, <2>2, PollMoves
<1>8. ASSUME NEW c \in DL!Codes, DL!Ingest(c)  PROVE PageInv'
  <2>1. PICK a \in {"saved", "unsaved"} : DL!Answer(c, a)
    BY <1>8 DEF DL!Ingest
  <2>2. polls[c] # "none" /\ UNCHANGED <<mounted, phase, device, asked, timers, handle>>
    BY <1>8 DEF DL!Ingest, DL!page
  <2>3. QED BY <2>1, <2>2, PollMoves
<1>9. ASSUME NEW c \in DL!Codes, DL!Approve(c) \/ DL!Expire(c)  PROVE PageInv'
  BY <1>9, <1>a DEF DL!Approve, DL!Expire, DL!page, PageTyped, DL!WaitingIsPolled, DL!Polled, PageInv
<1>10. CASE UNCHANGED DL!vars
  BY <1>10, <1>a DEF DL!vars, PageTyped, DL!WaitingIsPolled, DL!Polled, PageInv
<1>11. QED
  BY <1>1, <1>2, <1>3, <1>4, <1>5, <1>6, <1>7, <1>8, <1>9, <1>10 DEF DL!Next, DL!CodeNext

\* Whatever polls and answers are lost, a page that shows a code polls that code and no other,
\* through any number of codes asked for one after the other.
THEOREM WaitingPagePolls == ServicesSpec => []WaitingIsPolled
<1>1. ServicesInit => PageInv  BY PageInit DEF ServicesInit
<1>2. PageInv /\ [ServicesNext]_all => PageInv'  BY PageNext, PartsStep
<1>3. PageInv => WaitingIsPolled  BY DEF PageInv, WaitingIsPolled
<1>4. QED BY <1>1, <1>2, <1>3, PTL DEF ServicesSpec

----------------------------------------------------------------------------
(* The refresh of a rotating credential (TidalRefresh), proved in TidalRefreshProofs. *)

TP == INSTANCE TidalRefreshProofs WITH pc <- caller, Leases <- LeaseCallers, Checks <- CheckCallers

\* The part is the module that was proved about.
LEMMA RefreshPart ==
    /\ TR!Init => TP!Init
    /\ [TR!Next]_(TR!vars) => [TP!Next]_(TP!vars)
    /\ TP!SingleFlight => TR!SingleFlight
<1>1. TR!Init => TP!Init  BY DEF TR!Init, TP!Init, TR!Callers, TP!Callers
<1>2. [TR!Next]_(TR!vars) => [TP!Next]_(TP!vars)
  BY DEF
      TR!Lapse, TR!CooldownEnds, TR!Start, TR!Migrate, TR!TurnAway, TR!Gate, TR!Claim, TR!LoseClaim,
      TR!PollAgain, TR!PollEnds, TR!Post, TR!ReadBackoff, TR!Finish, TR!Crash, TR!Goto, TR!Leave,
      TR!ClaimWith, TR!Claimable, TR!Unstored, TR!Granted, TR!NotGranted, TR!AnswerLost, TR!Grant,
      TR!FinishIf, TR!Outcome, TR!NextBackoff, TR!row, TR!provider, TR!hands, TR!vars, TR!Callers,
      TR!Next, TP!Lapse, TP!CooldownEnds, TP!Start, TP!Migrate, TP!TurnAway, TP!Gate, TP!Claim,
      TP!LoseClaim, TP!PollAgain, TP!PollEnds, TP!Post, TP!ReadBackoff, TP!Finish, TP!Crash,
      TP!Goto, TP!Leave, TP!ClaimWith, TP!Claimable, TP!Unstored, TP!Granted, TP!NotGranted,
      TP!AnswerLost, TP!Grant, TP!FinishIf, TP!Outcome, TP!NextBackoff, TP!row, TP!provider,
      TP!hands, TP!vars, TP!Callers, TP!Next
<1>3. TP!SingleFlight => TR!SingleFlight
  BY DEF TR!SingleFlight, TP!SingleFlight, TR!Callers, TP!Callers
<1>4. QED BY <1>1, <1>2, <1>3

\* Leases and health checks together: no two of them POST for one account at once.
THEOREM RefreshesFlySingly == ServicesSpec => []SingleFlight
<1>1. TP!CallersAssumption /\ TP!BoundsAssumption
  BY RefreshAssumption DEF TP!CallersAssumption, TP!BoundsAssumption, TP!Callers
<1>2. ServicesInit => TP!Init  BY RefreshPart DEF ServicesInit
<1>3. [ServicesNext]_all => [TP!Next]_(TP!vars)  BY PartsStep, RefreshPart
<1>4. TP!SingleFlight => SingleFlight  BY RefreshPart DEF SingleFlight
<1>5. TP!Spec => []TP!SingleFlight  BY <1>1, TP!OnePostAtATime
<1>6. QED BY <1>2, <1>3, <1>4, <1>5, PTL DEF ServicesSpec, TP!Spec

----------------------------------------------------------------------------
(* The batched sweep (SweepBatch). *)

\* No two rows have the same place in an order of the rows.
Placings == {f \in [Rows -> 1..Cardinality(Rows)] : \A p, q \in Rows : f[p] = f[q] => p = q}

\* The call's record, whatever is set in it.
Calls == [queue: SUBSET Rows, order: [Rows -> 0..Cardinality(Rows)], pending: SUBSET Rows,
          moved: SUBSET Rows, started: SUBSET Rows, checked: Nat, finished: SUBSET Rows,
          budgetHit: BOOLEAN, headroomHit: BOOLEAN, failed: BOOLEAN]

SweepTyped ==
    /\ order \in Placings
    /\ stale \subseteq Rows /\ pending \subseteq Rows /\ owed \subseteq Rows
    /\ driver \in [phase: {"idle", "call", "answer", "done"}, cursor: SB!Cursors, first: BOOLEAN,
                   pass: Nat]
    /\ call \in Calls
    /\ call.started \subseteq call.queue
    /\ (call.queue # {} => call.order \in Placings)
    /\ worker \in [Workers -> [at: {"out", "pull", "check"}, row: Rows \cup {SB!NoRow}, left: Nat,
                               refused: BOOLEAN]]
    /\ spent \in Nat

\* Workers run only while a call is under way, and who checks has a row.
WorkersAtWork ==
    \A w \in Workers : /\ worker[w].at # "out" => driver.phase = "answer"
                       /\ worker[w].at = "check" => worker[w].row \in Rows

\* A row still owed lies ahead of the cursor; while a call is under way it is in its queue,
\* in the place it has now, and its check has not returned.
OwedIsAhead ==
    /\ driver.phase \in {"call", "answer"} =>
           \A r \in owed : r \in stale \cup pending /\ SB!After(r, driver.cursor)
    /\ driver.phase = "answer" =>
           \A r \in owed : /\ r \in call.queue /\ r \notin call.finished
                           /\ r \in pending <=> r \in call.pending
    /\ driver.phase = "done" => owed = {}

\* A check that had a fetch refused goes on without budget.
RefusedIsSpent ==
    \A w \in Workers : worker[w].refused =>
        /\ worker[w].at = "check" /\ metered
        /\ spent >= FetchBudget \/ worker[w].left = 0

SweepInv == SweepTyped /\ WorkersAtWork /\ OwedIsAhead /\ RefusedIsSpent

\* A finite set has a member of the greatest key.
LEMMA HasGreatest ==
    ASSUME NEW S, IsFiniteSet(S), S # {}, NEW key \in [S -> Int]
    PROVE  \E x \in S : \A y \in S : key[y] <= key[x]
<1> DEFINE Above(x) == {y \in S : key[x] < key[y]}
           F == {Above(x) : x \in S}
<1>1. FiniteSubsetsOf(S) = SUBSET S  BY FS_FiniteSubsetsOfFinite
<1>2. F \subseteq SUBSET S /\ F # {}
  <2>1. \A x \in S : Above(x) \in SUBSET S  OBVIOUS
  <2>2. F \subseteq SUBSET S  BY <2>1
  <2>3. PICK x \in S : TRUE  OBVIOUS
  <2>4. Above(x) \in F  OBVIOUS
  <2>5. QED BY <2>2, <2>4
<1>3. PICK A \in F : \A B \in F : <<B, A>> \notin StrictSubsetOrdering(S)
  <2> HIDE DEF F
  <2>1. IsWellFoundedOn(StrictSubsetOrdering(S), SUBSET S)  BY <1>1, FS_StrictSubsetOrderingWellFounded
  <2>2. QED BY <1>2, <2>1, WFMin
<1>4. PICK x \in S : A = Above(x)  BY <1>3
<1>5. ASSUME NEW y \in S, key[x] < key[y]  PROVE FALSE
  <2>1. \A z \in S : key[y] < key[z] => key[x] < key[z]  BY <1>5
  <2>2. ~(key[y] < key[y])  OBVIOUS
  <2>3. Above(y) \subseteq Above(x) /\ y \in Above(x) /\ y \notin Above(y)  BY <1>5, <2>1, <2>2
  <2>4. <<Above(y), A>> \in StrictSubsetOrdering(S)  BY <1>4, <2>3 DEF StrictSubsetOrdering
  <2>5. Above(y) \in F  OBVIOUS
  <2>6. QED BY <1>3, <2>4, <2>5
<1>6. QED BY <1>5

LEMMA RowsCounted == IsFiniteSet(Rows) /\ Cardinality(Rows) \in Nat /\ Rows \subseteq Nat \ {0}
  BY SweepAssumption, FS_CardinalityType

\* A part counts as this module does.
LEMMA SameCount == \A S : SB!Cardinality(S) = Cardinality(S)
  BY DEF SB!Cardinality, Cardinality

\* The order of the queue is total: of some of its rows one comes first and one comes last.
LEMMA AheadIsTotal ==
    ASSUME SweepTyped, call.order \in Placings, NEW p \in Rows, NEW q \in Rows, p # q
    PROVE  SB!Ahead(p, q) \/ SB!Ahead(q, p)
  BY RowsCounted DEF SB!Ahead, Placings

LEMMA FirstAndLast ==
    ASSUME SweepTyped, call.order \in Placings, NEW S \in SUBSET Rows, S # {}
    PROVE  SB!FirstOf(S) \in S /\ SB!LastOf(S) \in S
<1> DEFINE N == Cardinality(Rows)
           key == [r \in S |-> IF r \in call.pending THEN call.order[r] ELSE N + call.order[r]]
           yek == [r \in S |-> -key[r]]
<1>1. IsFiniteSet(S) /\ N \in Nat  BY RowsCounted, FS_Subset
<1>2. \A r \in S : call.order[r] \in Nat /\ call.order[r] > 0 /\ call.order[r] <= N
  BY <1>1 DEF Placings
<1>3. key \in [S -> Int] /\ yek \in [S -> Int]  BY <1>1, <1>2
<1>4. \A p, q \in S : key[p] <= key[q] => p = q \/ SB!Ahead(p, q)
  <2>1. SUFFICES ASSUME NEW p \in S, NEW q \in S, key[p] <= key[q], p # q  PROVE SB!Ahead(p, q)
    OBVIOUS
  <2>2. call.order[p] # call.order[q]  BY <2>1 DEF Placings
  <2>3. QED BY <1>1, <1>2, <2>1, <2>2 DEF SB!Ahead
<1>5. \E x \in S : \A y \in S : y = x \/ SB!Ahead(y, x)
  <2> HIDE DEF key
  <2>1. PICK x \in S : \A y \in S : key[y] <= key[x]  BY <1>1, <1>3, HasGreatest
  <2>2. QED BY <1>4, <2>1
<1>6. \E x \in S : \A y \in S : x = y \/ SB!Ahead(x, y)
  <2>1. \A x, y \in S : yek[y] <= yek[x] => key[x] <= key[y]  BY <1>3
  <2> HIDE DEF key, yek
  <2>2. PICK x \in S : \A y \in S : yek[y] <= yek[x]  BY <1>1, <1>3, HasGreatest
  <2>3. QED BY <1>4, <2>1, <2>2
<1>7. SB!LastOf(S) \in S  BY <1>5 DEF SB!LastOf
<1>8. SB!FirstOf(S) \in S  BY <1>6 DEF SB!FirstOf
<1>9. QED BY <1>7, <1>8

\* To begin with the rows are in the order of their ids.
LEMMA OrderOfIds == [r \in Rows |-> Cardinality({q \in Rows : q <= r})] \in Placings
<1> DEFINE Upto(r) == {q \in Rows : q <= r}
           f == [r \in Rows |-> Cardinality(Upto(r))]
<1>1. \A r \in Rows : IsFiniteSet(Upto(r)) /\ Cardinality(Upto(r)) \in 1..Cardinality(Rows)
  <2>1. SUFFICES ASSUME NEW r \in Rows
                 PROVE  IsFiniteSet(Upto(r)) /\ Cardinality(Upto(r)) \in 1..Cardinality(Rows)
    OBVIOUS
  <2>2. Upto(r) \subseteq Rows /\ r \in Upto(r)  BY RowsCounted
  <2> HIDE DEF Upto
  <2>3. IsFiniteSet(Upto(r)) /\ Cardinality(Upto(r)) <= Cardinality(Rows)
    BY <2>2, RowsCounted, FS_Subset
  <2>4. Cardinality(Upto(r)) \in Nat /\ Cardinality(Upto(r)) # 0
    BY <2>2, <2>3, FS_CardinalityType, FS_EmptySet
  <2>5. QED BY <2>3, <2>4, RowsCounted
<1>2. ASSUME NEW p \in Rows, NEW q \in Rows, p < q  PROVE f[p] # f[q]
  <2>1. p \in Nat /\ q \in Nat /\ \A x \in Rows : x \in Nat  BY RowsCounted
  <2>2. q <= q /\ ~(q <= p) /\ \A x \in Rows : x <= p => x <= q  BY <1>2, <2>1
  <2>3. Upto(p) \subseteq Upto(q) /\ q \in Upto(q) /\ q \notin Upto(p)  BY <2>2
  <2> HIDE DEF Upto
  <2>4. Cardinality(Upto(p)) # Cardinality(Upto(q))  BY <1>1, <2>3, FS_Subset
  <2>5. QED BY <2>4
<1>3. ASSUME NEW p \in Rows, NEW q \in Rows, f[p] = f[q]  PROVE p = q
  <2>1. p \in Nat /\ q \in Nat  BY RowsCounted
  <2>2. QED BY <1>2, <1>3, <2>1
<1>4. f \in [Rows -> 1..Cardinality(Rows)]  BY <1>1
<1>5. QED BY <1>3, <1>4 DEF Placings

\* A row that is written moves behind all others.
LEMMA MoveLastPlaces ==
    ASSUME order \in Placings, NEW r \in Rows
    PROVE  SB!MoveLast(r) \in Placings
<1> DEFINE N == Cardinality(Rows)
           f == SB!MoveLast(r)
<1>1. N \in Nat  BY RowsCounted
<1>2. \A q \in Rows : order[q] \in Nat /\ order[q] >= 1 /\ order[q] <= N  BY <1>1 DEF Placings
<1>3. \A q \in Rows : f[q] = IF q = r THEN N ELSE IF order[q] > order[r] THEN order[q] - 1 ELSE order[q]
  BY SameCount DEF SB!MoveLast
<1>4. \A q \in Rows : q # r => order[q] # order[r]  BY DEF Placings
<1>5. f \in [Rows -> 1..N]
  <2>1. \A q \in Rows : f[q] \in 1..N  BY <1>1, <1>2, <1>3, <1>4
  <2>2. QED BY <2>1, SameCount DEF SB!MoveLast
<1>6. \A q \in Rows : q # r => f[q] < N
  <2> HIDE DEF f
  <2>1. QED BY <1>1, <1>2, <1>3, <1>4
<1>7. ASSUME NEW p \in Rows, NEW q \in Rows, f[p] = f[q]  PROVE p = q
  <2> HIDE DEF f
  <2>1. CASE p = r \/ q = r
    <3>1. f[r] = N  BY <1>3
    <3>2. QED BY <1>1, <1>6, <1>7, <2>1, <3>1
  <2>2. CASE p # r /\ q # r
    <3>1. order[p] = order[q]  BY <1>2, <1>3, <1>4, <1>7, <2>2
    <3>2. QED BY <3>1 DEF Placings
  <2>3. QED BY <2>1, <2>2
<1>8. QED BY <1>5, <1>7 DEF Placings

LEMMA SweepInit == SB!Init => SweepInv
<1> SUFFICES ASSUME SB!Init  PROVE SweepInv
  OBVIOUS
<1>1. order \in Placings  BY OrderOfIds, SameCount DEF SB!Init
<1>2. driver \in [phase: {"idle", "call", "answer", "done"}, cursor: SB!Cursors, first: BOOLEAN, pass: Nat]
  BY DEF SB!Init, SB!Cursors, SB!Start
<1>3. call \in Calls
  BY RowsCounted DEF SB!Init, SB!NoCall, Calls
<1>4. call.queue = {} /\ call.started = {}  BY DEF SB!Init, SB!NoCall
<1>5. \A w \in Workers : worker[w].at = "out" /\ worker[w].refused = FALSE  BY DEF SB!Init, SB!Out
<1>6. worker \in [Workers -> [at: {"out", "pull", "check"}, row: Rows \cup {SB!NoRow}, left: Nat,
                              refused: BOOLEAN]]
  BY DEF SB!Init, SB!Out
<1>7. stale = {} /\ pending = {} /\ owed = {} /\ spent = 0 /\ driver.phase = "idle"  BY DEF SB!Init
<1>8. SweepTyped  BY <1>1, <1>2, <1>3, <1>4, <1>6, <1>7 DEF SweepTyped
<1>9. WorkersAtWork /\ OwedIsAhead /\ RefusedIsSpent
  BY <1>5, <1>7 DEF WorkersAtWork, OwedIsAhead, RefusedIsSpent
<1>10. QED BY <1>8, <1>9 DEF SweepInv

\* A row that gets a verdict: the others keep their status.
LEMMA WrittenRow ==
    ASSUME SweepTyped, NEW r \in Rows, NEW parked, SB!Written(r, parked)
    PROVE  /\ order' \in Placings /\ stale' \subseteq Rows /\ pending' \subseteq Rows
           /\ \A q \in Rows \ {r} : (q \in stale' <=> q \in stale) /\ (q \in pending' <=> q \in pending)
  BY MoveLastPlaces DEF SB!Written, SweepTyped

\* What is owed stays ahead of the cursor as long as its row and its place in the call do.
LEMMA OwedKept ==
    ASSUME SweepInv, driver' = driver, driver.phase \in {"call", "answer"}, owed' \subseteq owed,
           \A r \in owed' : (r \in stale' <=> r \in stale) /\ (r \in pending' <=> r \in pending),
           call'.queue = call.queue, call'.pending = call.pending,
           \A r \in owed' : r \in call'.finished => r \in call.finished
    PROVE  OwedIsAhead'
  BY DEF SweepInv, OwedIsAhead, SB!After

\* A worker that leaves its check, for good or for the next row.
LEMMA CheckEnds ==
    ASSUME SweepInv, NEW w \in Workers, worker[w].at = "check",
           NEW new \in [at: {"out", "pull"}, row: Rows \cup {SB!NoRow}, left: Nat, refused: {FALSE}],
           worker' = [worker EXCEPT ![w] = new], UNCHANGED <<metered, driver, spent>>
    PROVE  /\ worker' \in [Workers -> [at: {"out", "pull", "check"}, row: Rows \cup {SB!NoRow}, left: Nat,
                                       refused: BOOLEAN]]
           /\ WorkersAtWork' /\ RefusedIsSpent' /\ driver.phase = "answer"
<1>1. worker \in [Workers -> [at: {"out", "pull", "check"}, row: Rows \cup {SB!NoRow}, left: Nat,
                              refused: BOOLEAN]]
  BY DEF SweepInv, SweepTyped
<1>2. worker'[w] = new /\ \A v \in Workers \ {w} : worker'[v] = worker[v]  BY <1>1
<1>3. driver.phase = "answer"  BY DEF SweepInv, WorkersAtWork
<1>4. WorkersAtWork'  BY <1>2, <1>3 DEF SweepInv, WorkersAtWork
<1>5. RefusedIsSpent'  BY <1>2 DEF SweepInv, RefusedIsSpent
<1>6. QED BY <1>1, <1>3, <1>4, <1>5

\* A check that returned or gave up: no row but its own is touched.
LEMMA LeaveKeeps ==
    ASSUME SweepInv, NEW w \in Workers, worker[w].at = "check", NEW r, r = worker[w].row,
           worker' = [worker EXCEPT ![w] = [SB!Out EXCEPT !.at = "pull"]],
           owed' = IF r \in call'.finished THEN owed \ {r} ELSE owed,
           UNCHANGED <<metered, driver, spent>>, call' \in Calls,
           call'.queue = call.queue, call'.order = call.order, call'.pending = call.pending,
           call'.started = call.started,
           call'.finished = call.finished \/ call'.finished = call.finished \cup {r},
           order' \in Placings, stale' \subseteq Rows, pending' \subseteq Rows,
           \A q \in Rows \ {r} : (q \in stale' <=> q \in stale) /\ (q \in pending' <=> q \in pending),
           r \in call'.finished \/ UNCHANGED <<stale, pending>>
    PROVE  SweepInv'
<1>1. /\ worker' \in [Workers -> [at: {"out", "pull", "check"}, row: Rows \cup {SB!NoRow}, left: Nat,
                                  refused: BOOLEAN]]
      /\ WorkersAtWork' /\ RefusedIsSpent' /\ driver.phase = "answer"
  <2> DEFINE new == [SB!Out EXCEPT !.at = "pull"]
  <2>1. new \in [at: {"out", "pull"}, row: Rows \cup {SB!NoRow}, left: Nat, refused: {FALSE}]
    BY DEF SB!Out
  <2>2. worker' = [worker EXCEPT ![w] = new]  OBVIOUS
  <2> HIDE DEF new
  <2>3. QED BY <2>1, <2>2, CheckEnds
<1>2. owed' \subseteq owed /\ (r \in call'.finished => r \notin owed')  OBVIOUS
<1>3. SweepTyped'
  BY <1>1, <1>2 DEF SweepInv, SweepTyped, Calls
<1>4. OwedIsAhead'
  <2>1. \A q \in owed' : (q \in stale' <=> q \in stale) /\ (q \in pending' <=> q \in pending)
    BY <1>2 DEF SweepInv, SweepTyped
  <2>2. \A q \in owed' : q \in call'.finished => q \in call.finished  BY <1>2
  <2>3. QED BY <1>1, <1>2, <2>1, <2>2, OwedKept
<1>5. QED BY <1>1, <1>3, <1>4 DEF SweepInv

LEMMA FinishKeeps ==
    ASSUME SweepInv, NEW w \in Workers,
           SB!GiveUp(w) \/ SB!Starve(w) \/ SB!Skip(w) \/ SB!Persist(w)
    PROVE  SweepInv'
<1> DEFINE r == worker[w].row
<1>1. worker[w].at = "check" /\ r \in Rows /\ call \in Calls /\ SweepTyped
      /\ order \in Placings /\ stale \subseteq Rows /\ pending \subseteq Rows
  BY DEF SB!GiveUp, SB!Starve, SB!Skip, SB!Persist, SweepInv, SweepTyped, WorkersAtWork, Calls
<1>2. CASE SB!GiveUp(w)
  <2> DEFINE c == [call EXCEPT !.budgetHit = TRUE]
  <2>1. c \in Calls /\ c.queue = call.queue /\ c.order = call.order /\ c.pending = call.pending
        /\ c.started = call.started /\ c.finished = call.finished
    BY <1>1 DEF Calls
  <2>2. SB!Leave(w, c) /\ UNCHANGED <<order, stale, pending>>  BY <1>2 DEF SB!GiveUp, SB!rowVars
  <2> HIDE DEF c
  <2>3. QED BY <1>1, <2>1, <2>2, LeaveKeeps DEF SB!Leave
<1>3. CASE SB!Starve(w) \/ SB!Skip(w)
  <2> DEFINE c == SB!Finished(w)
  <2>1. c \in Calls /\ c.queue = call.queue /\ c.order = call.order /\ c.pending = call.pending
        /\ c.started = call.started /\ c.finished = call.finished \cup {r}
    BY <1>1 DEF Calls, SB!Finished
  <2>2. SB!Leave(w, c) /\ UNCHANGED <<order, stale, pending>>
    BY <1>3 DEF SB!Starve, SB!Skip, SB!rowVars
  <2> HIDE DEF c
  <2>3. QED BY <1>1, <2>1, <2>2, LeaveKeeps DEF SB!Leave
<1>4. CASE SB!Persist(w)
  <2> DEFINE f == SB!Finished(w)
             g == [f EXCEPT !.checked = @ + 1]
             c == [g EXCEPT !.moved = @ \cup {r}]
  <2>1. f \in Calls /\ f.queue = call.queue /\ f.order = call.order /\ f.pending = call.pending
        /\ f.started = call.started /\ f.finished = call.finished \cup {r}
    BY <1>1 DEF Calls, SB!Finished
  <2>a. SB!Leave(w, [f EXCEPT !.checked = @ + 1, !.moved = @ \cup {r}])  BY <1>4 DEF SB!Persist
  <2> HIDE DEF f
  <2>b. g \in Calls /\ g.queue = call.queue /\ g.order = call.order /\ g.pending = call.pending
        /\ g.started = call.started /\ g.finished = call.finished \cup {r} /\ g.moved = f.moved
    BY <2>1 DEF Calls
  <2>2. SB!Leave(w, [g EXCEPT !.moved = f.moved \cup {r}])  BY <2>a
  <2> HIDE DEF g
  <2>c. c \in Calls /\ c.queue = call.queue /\ c.order = call.order /\ c.pending = call.pending
        /\ c.started = call.started /\ c.finished = call.finished \cup {r}
    BY <1>1, <2>b DEF Calls
  <2>d. SB!Leave(w, c)  BY <2>2, <2>b
  <2>3. \E parked \in BOOLEAN : SB!Written(r, parked)  BY <1>4 DEF SB!Persist
  <2>4. /\ order' \in Placings /\ stale' \subseteq Rows /\ pending' \subseteq Rows
        /\ \A q \in Rows \ {r} : (q \in stale' <=> q \in stale) /\ (q \in pending' <=> q \in pending)
    BY <1>1, <2>3, WrittenRow
  <2> HIDE DEF c
  <2>5. QED BY <1>1, <2>c, <2>d, <2>4, LeaveKeeps DEF SB!Leave
<1>5. QED BY <1>2, <1>3, <1>4

\* A worker takes the queue's first row that is not started, or stops.
LEMMA PullKeeps == ASSUME SweepInv, NEW w \in Workers, SB!Pull(w)  PROVE SweepInv'
<1> DEFINE row == SB!FirstOf(call.queue \ call.started)
           busy == [at |-> "check", row |-> row, left |-> PerEntryFetchMax, refused |-> FALSE]
           taken == [call EXCEPT !.started = @ \cup {row}]
<1>1. /\ call \in Calls /\ driver.phase = "answer" /\ SweepTyped
      /\ UNCHANGED <<metered, order, stale, pending, driver, spent, owed>>
      /\ PerEntryFetchMax \in Nat /\ ~worker[w].at = "check"
  BY SweepAssumption DEF SB!Pull, SweepInv, SweepTyped, WorkersAtWork, Calls, SB!rowVars
<1>2. CASE worker' = [worker EXCEPT ![w] = busy] /\ call' = taken /\ call.started # call.queue
  <2>1. row \in call.queue /\ row \in Rows
    <3>1. call.queue \ call.started # {} /\ call.order \in Placings
          /\ call.queue \ call.started \in SUBSET Rows
      BY <1>1, <1>2 DEF SweepTyped, Calls
    <3>2. QED BY <1>1, <3>1, FirstAndLast
  <2>2. busy \in [at: {"out", "pull", "check"}, row: Rows \cup {SB!NoRow}, left: Nat, refused: BOOLEAN]
        /\ busy.at = "check" /\ busy.row = row /\ busy.refused = FALSE
    BY <1>1, <2>1
  <2>3. /\ taken \in Calls /\ taken.started = call.started \cup {row} /\ taken.queue = call.queue
        /\ taken.order = call.order /\ taken.pending = call.pending /\ taken.finished = call.finished
    BY <1>1, <2>1 DEF Calls
  <2> HIDE DEF busy, taken, row
  <2>4. /\ worker' \in [Workers -> [at: {"out", "pull", "check"}, row: Rows \cup {SB!NoRow}, left: Nat,
                                    refused: BOOLEAN]]
        /\ worker'[w] = busy /\ \A v \in Workers \ {w} : worker'[v] = worker[v]
    BY <1>1, <1>2, <2>2 DEF SweepTyped
  <2>5. SweepTyped'  BY <1>1, <1>2, <2>1, <2>3, <2>4 DEF SweepTyped, Calls
  <2>6. WorkersAtWork'  BY <1>1, <2>1, <2>2, <2>4 DEF SweepInv, WorkersAtWork
  <2>7. RefusedIsSpent'  BY <1>1, <2>2, <2>4 DEF SweepInv, RefusedIsSpent
  <2>8. OwedIsAhead'  BY <1>1, <1>2, <2>3, OwedKept
  <2>9. QED BY <2>5, <2>6, <2>7, <2>8 DEF SweepInv
<1>3. CASE /\ worker' = [worker EXCEPT ![w] = SB!Out]
           /\ \E h \in BOOLEAN : call' = [call EXCEPT !.headroomHit = h]
  <2>1. PICK h \in BOOLEAN : call' = [call EXCEPT !.headroomHit = h]  BY <1>3
  <2>2. /\ call' \in Calls /\ call'.started = call.started /\ call'.queue = call.queue
        /\ call'.order = call.order /\ call'.pending = call.pending /\ call'.finished = call.finished
    BY <1>1, <2>1 DEF Calls
  <2>3. SB!Out \in [at: {"out", "pull", "check"}, row: Rows \cup {SB!NoRow}, left: Nat, refused: BOOLEAN]
        /\ SB!Out.at = "out" /\ SB!Out.refused = FALSE
    BY DEF SB!Out
  <2>4. /\ worker' \in [Workers -> [at: {"out", "pull", "check"}, row: Rows \cup {SB!NoRow}, left: Nat,
                                    refused: BOOLEAN]]
        /\ worker'[w] = SB!Out /\ \A v \in Workers \ {w} : worker'[v] = worker[v]
    BY <1>1, <1>3, <2>3 DEF SweepTyped
  <2>5. SweepTyped'  BY <1>1, <2>2, <2>4 DEF SweepTyped, Calls
  <2>6. WorkersAtWork'  BY <1>1, <2>3, <2>4 DEF SweepInv, WorkersAtWork
  <2>7. RefusedIsSpent'  BY <1>1, <2>3, <2>4 DEF SweepInv, RefusedIsSpent
  <2>8. OwedIsAhead'  BY <1>1, <2>2, OwedKept
  <2>9. QED BY <2>5, <2>6, <2>7, <2>8 DEF SweepInv
<1>4. QED
  <2> DEFINE more == /\ ~call.budgetHit /\ call.started # call.queue
                     /\ call.checked + SB!Cardinality(SB!Busy) < BatchLimit
                     /\ SB!Cardinality(call.started) < AttemptMax
  <2>1. CASE more /\ SB!Fits
    <3>1. worker' = [worker EXCEPT ![w] = busy] /\ call' = taken  BY <2>1 DEF SB!Pull
    <3>2. QED BY <1>2, <2>1, <3>1
  <2>2. CASE ~(more /\ SB!Fits)
    <3>1. worker' = [worker EXCEPT ![w] = SB!Out] /\ call' = [call EXCEPT !.headroomHit = @ \/ more]
      BY <2>2 DEF SB!Pull
    <3>2. (call.headroomHit \/ more) \in BOOLEAN  BY Zenon
    <3>3. QED BY <1>3, <3>1, <3>2
  <2>3. QED BY <2>1, <2>2

LEMMA FetchKeeps == ASSUME SweepInv, NEW w \in Workers, SB!Fetch(w)  PROVE SweepInv'
<1>1. /\ worker[w].at = "check" /\ metered /\ ~worker[w].refused
      /\ UNCHANGED <<metered, order, stale, pending, driver, call, owed>>
      /\ SweepTyped /\ spent \in Nat /\ driver.phase = "answer" /\ FetchBudget \in Nat
  BY SweepAssumption DEF SB!Fetch, SweepInv, SweepTyped, WorkersAtWork, SB!rowVars
<1>2. PICK new \in [at: {"out", "pull", "check"}, row: Rows \cup {SB!NoRow}, left: Nat, refused: BOOLEAN] :
          /\ worker' = [worker EXCEPT ![w] = new]
          /\ new.at = "check" /\ new.row = worker[w].row
          /\ new.refused => spent' >= FetchBudget \/ new.left = 0
          /\ spent' \in Nat /\ spent' >= spent
  <2>1. CASE spent >= FetchBudget \/ worker[w].left = 0
    <3> DEFINE new == [worker[w] EXCEPT !.refused = TRUE]
    <3>1. worker' = [worker EXCEPT ![w] = new] /\ spent' = spent  BY <1>1, <2>1 DEF SB!Fetch
    <3>2. new \in [at: {"out", "pull", "check"}, row: Rows \cup {SB!NoRow}, left: Nat, refused: BOOLEAN]
          /\ new.at = "check" /\ new.row = worker[w].row /\ new.left = worker[w].left
      BY <1>1 DEF SweepTyped
    <3> HIDE DEF new
    <3>3. /\ new.refused => spent' >= FetchBudget \/ new.left = 0
          /\ spent' \in Nat /\ spent' >= spent
      BY <1>1, <2>1, <3>1, <3>2
    <3>4. QED BY <3>1, <3>2, <3>3
  <2>2. CASE ~(spent >= FetchBudget \/ worker[w].left = 0)
    <3> DEFINE new == [worker[w] EXCEPT !.left = @ - 1]
    <3>1. worker' = [worker EXCEPT ![w] = new] /\ spent' = spent + 1  BY <1>1, <2>2 DEF SB!Fetch
    <3>2. new \in [at: {"out", "pull", "check"}, row: Rows \cup {SB!NoRow}, left: Nat, refused: BOOLEAN]
          /\ new.at = "check" /\ new.row = worker[w].row /\ ~new.refused
      BY <1>1, <2>2 DEF SweepTyped
    <3> HIDE DEF new
    <3>3. spent' \in Nat /\ spent' >= spent  BY <1>1, <3>1
    <3>4. QED BY <1>1, <3>1, <3>2, <3>3
  <2>3. QED BY <2>1, <2>2
<1>3. /\ worker' \in [Workers -> [at: {"out", "pull", "check"}, row: Rows \cup {SB!NoRow}, left: Nat,
                                  refused: BOOLEAN]]
      /\ worker'[w] = new /\ \A v \in Workers \ {w} : worker'[v] = worker[v]
  BY <1>1, <1>2 DEF SweepTyped
<1>4. SweepTyped'  BY <1>1, <1>2, <1>3 DEF SweepTyped, Calls
<1>5. WorkersAtWork'  BY <1>1, <1>2, <1>3 DEF SweepInv, WorkersAtWork
<1>6. RefusedIsSpent'
  <2>1. \A v \in Workers : spent >= FetchBudget => spent' >= FetchBudget  BY <1>1, <1>2
  <2>2. QED BY <1>1, <1>2, <1>3, <2>1 DEF SweepInv, RefusedIsSpent
<1>7. OwedIsAhead'  BY <1>1, OwedKept
<1>8. QED BY <1>4, <1>5, <1>6, <1>7 DEF SweepInv

LEMMA FailKeeps == ASSUME SweepInv, NEW w \in Workers, SB!Fail(w)  PROVE SweepInv'
<1>1. /\ worker[w].at = "check" /\ worker' = [worker EXCEPT ![w] = SB!Out]
      /\ UNCHANGED <<metered, order, stale, pending, driver, spent, owed>>
      /\ call' = [call EXCEPT !.failed = TRUE] /\ SweepTyped
  BY DEF SB!Fail, SweepInv, SB!rowVars
<1>2. /\ call' \in Calls /\ call'.started = call.started /\ call'.queue = call.queue
      /\ call'.order = call.order /\ call'.pending = call.pending /\ call'.finished = call.finished
  BY <1>1 DEF SweepTyped, Calls
<1>3. SB!Out \in [at: {"out", "pull"}, row: Rows \cup {SB!NoRow}, left: Nat, refused: {FALSE}]
  BY DEF SB!Out
<1>4. /\ worker' \in [Workers -> [at: {"out", "pull", "check"}, row: Rows \cup {SB!NoRow}, left: Nat,
                                  refused: BOOLEAN]]
      /\ WorkersAtWork' /\ RefusedIsSpent' /\ driver.phase = "answer"
  BY <1>1, <1>3, CheckEnds
<1>5. SweepTyped'  BY <1>1, <1>2, <1>4 DEF SweepTyped, Calls
<1>6. OwedIsAhead'  BY <1>1, <1>2, <1>4, OwedKept
<1>7. QED BY <1>4, <1>5, <1>6 DEF SweepInv

LEMMA BeginsKeep == ASSUME SweepInv, SB!BeginSweep \/ SB!BeginCall  PROVE SweepInv'
<1>1. CASE SB!BeginSweep
  <2>1. /\ driver' = [phase |-> "call", cursor |-> SB!Start, first |-> TRUE, pass |-> 0]
        /\ stale' = Rows /\ owed' = Rows /\ driver.phase \in {"idle", "done"}
        /\ UNCHANGED <<metered, order, pending, call, spent, worker>>
    BY <1>1 DEF SB!BeginSweep
  <2>2. driver' \in [phase: {"idle", "call", "answer", "done"}, cursor: SB!Cursors, first: BOOLEAN,
                     pass: Nat]
    BY <2>1 DEF SB!Start, SB!Cursors
  <2>3. SweepTyped'  BY <2>1, <2>2 DEF SweepInv, SweepTyped
  <2>4. WorkersAtWork' /\ RefusedIsSpent'  BY <2>1 DEF SweepInv, WorkersAtWork, RefusedIsSpent
  <2>5. OwedIsAhead'  BY <2>1 DEF OwedIsAhead, SB!After, SB!Start
  <2>6. QED BY <2>3, <2>4, <2>5 DEF SweepInv
<1>2. CASE SB!BeginCall
  <2> DEFINE c == [SB!NoCall EXCEPT !.queue = SB!Queue(driver.cursor), !.order = order, !.pending = pending]
             e == [driver EXCEPT !.phase = "answer"]
             d == [e EXCEPT !.pass = driver.pass + 1]
             new == [SB!Out EXCEPT !.at = "pull"]
  <2>1. /\ driver' = d /\ call' = c /\ driver.phase = "call"
        /\ worker' = [v \in Workers |-> new] /\ spent' = 0
        /\ UNCHANGED <<metered, order, stale, pending, owed>>
    BY <1>2 DEF SB!BeginCall, SB!rowVars
  <2>2. SweepTyped /\ order \in [Rows -> 0..Cardinality(Rows)] /\ pending \subseteq Rows
    BY RowsCounted DEF SweepInv, SweepTyped, Placings
  <2>3. SB!Queue(driver.cursor) \subseteq Rows  BY <2>2 DEF SB!Queue, SweepTyped
  <2>4. /\ c \in Calls /\ c.queue = SB!Queue(driver.cursor) /\ c.order = order /\ c.pending = pending
        /\ c.started = {} /\ c.finished = {}
    BY <2>2, <2>3 DEF Calls, SB!NoCall
  <2>5. /\ d \in [phase: {"idle", "call", "answer", "done"}, cursor: SB!Cursors, first: BOOLEAN, pass: Nat]
        /\ d.phase = "answer" /\ d.cursor = driver.cursor
    <3>1. /\ e \in [phase: {"idle", "call", "answer", "done"}, cursor: SB!Cursors, first: BOOLEAN, pass: Nat]
          /\ e.phase = "answer" /\ e.cursor = driver.cursor /\ driver.pass + 1 \in Nat
      BY <2>2 DEF SweepTyped
    <3> HIDE DEF e
    <3>2. QED BY <3>1
  <2>6. /\ new \in [at: {"out", "pull", "check"}, row: Rows \cup {SB!NoRow}, left: Nat, refused: BOOLEAN]
        /\ new.at = "pull" /\ new.refused = FALSE
    BY DEF SB!Out
  <2> HIDE DEF c, d, new
  <2>7. SweepTyped'  BY <2>1, <2>2, <2>4, <2>5, <2>6 DEF SweepTyped, Calls
  <2>8. WorkersAtWork' /\ RefusedIsSpent'  BY <2>1, <2>5, <2>6 DEF WorkersAtWork, RefusedIsSpent
  <2>9. OwedIsAhead'
    <3>1. \A r \in owed : r \in stale \cup pending /\ SB!After(r, driver.cursor)
      BY <2>1 DEF SweepInv, OwedIsAhead
    <3>2. \A r \in owed : r \in SB!Queue(driver.cursor)  BY <3>1 DEF SB!Queue
    <3>3. QED BY <2>1, <2>4, <2>5, <3>1, <3>2 DEF OwedIsAhead, SB!After
  <2>10. QED BY <2>7, <2>8, <2>9 DEF SweepInv
<1>3. QED BY <1>1, <1>2

\* The cursor of an answer lies behind every row that is still owed.
LEMMA CursorIsBehind ==
    ASSUME SweepInv, driver.phase = "answer", SB!Consumed # {}
    PROVE  /\ SB!CursorAt(SB!LastOf(SB!Consumed)) \in SB!Cursors
           /\ \A r \in owed : SB!After(r, SB!CursorAt(SB!LastOf(SB!Consumed)))
<1> DEFINE c == SB!LastOf(SB!Consumed)
<1>1. SweepTyped /\ SB!Consumed \subseteq call.queue /\ call.queue \subseteq Rows /\ call.order \in Placings
  BY DEF SweepInv, SweepTyped, SB!Consumed, Calls
<1>2. c \in SB!Consumed /\ c \in Rows  BY <1>1, FirstAndLast
<1> HIDE DEF c
<1>3. SB!CursorAt(c) \in SB!Cursors  BY DEF SB!CursorAt, SB!Cursors
<1>4. ASSUME NEW r \in owed  PROVE SB!After(r, SB!CursorAt(c))
  <2>1. r \in call.queue /\ r \notin call.finished /\ (r \in pending <=> r \in call.pending) /\ r \in Rows
    BY <1>1 DEF SweepInv, OwedIsAhead
  <2>2. ~SB!Ahead(r, c) /\ r # c  BY <1>2, <2>1 DEF SB!Consumed
  <2>3. SB!Ahead(c, r)  BY <1>1, <1>2, <2>1, <2>2, AheadIsTotal
  <2>4. call.order[c] \in Nat /\ call.order[r] \in Nat  BY <1>1, <1>2, <2>1, RowsCounted DEF Placings
  <2>5. QED BY <2>1, <2>3, <2>4 DEF SB!Ahead, SB!After, SB!CursorAt
<1>5. QED BY <1>3, <1>4 DEF c

LEMMA AnswerKeeps == ASSUME SweepInv, SB!Answer  PROVE SweepInv'
<1> DEFINE cursor == IF SB!Consumed = {} THEN driver.cursor ELSE SB!CursorAt(SB!LastOf(SB!Consumed))
           phs == IF call.failed THEN "idle" ELSE IF SB!Consumed = call.queue THEN "done"
                  ELSE IF SB!Stuck(cursor) \/ driver.pass = MaxPasses THEN "idle" ELSE "call"
           d == [driver EXCEPT !.phase = phs, !.cursor = cursor, !.first = FALSE]
<1>1. /\ driver' = d /\ driver.phase = "answer" /\ call' = SB!NoCall /\ spent' = 0
      /\ \A w \in Workers : worker[w].at = "out"
      /\ UNCHANGED <<metered, order, stale, pending, worker, owed>>
  BY DEF SB!Answer, SB!rowVars
<1>2. SweepTyped /\ call \in Calls /\ driver.cursor \in SB!Cursors  BY DEF SweepInv, SweepTyped, Calls
<1>3. cursor \in SB!Cursors /\ \A r \in owed : SB!After(r, cursor)
  <2>1. CASE SB!Consumed = {}  BY <1>1, <1>2, <2>1 DEF SweepInv, OwedIsAhead
  <2>2. CASE SB!Consumed # {}  BY <1>1, <2>2, CursorIsBehind
  <2>3. QED BY <2>1, <2>2
<1>4. phs \in {"idle", "done", "call"} /\ (phs = "done" => SB!Consumed = call.queue)  OBVIOUS
<1> HIDE DEF cursor, phs
<1>5. /\ d \in [phase: {"idle", "call", "answer", "done"}, cursor: SB!Cursors, first: BOOLEAN, pass: Nat]
      /\ d.phase = phs /\ d.cursor = cursor
  BY <1>2, <1>3, <1>4 DEF SweepTyped
<1> HIDE DEF d
<1>6. SB!NoCall \in Calls /\ SB!NoCall.queue = {} /\ SB!NoCall.started = {}
  BY RowsCounted DEF Calls, SB!NoCall
<1>7. SweepTyped'  BY <1>1, <1>2, <1>5, <1>6 DEF SweepTyped, Calls
<1>8. WorkersAtWork' /\ RefusedIsSpent'  BY <1>1 DEF SweepInv, WorkersAtWork, RefusedIsSpent
<1>9. OwedIsAhead'
  <2>1. phs = "done" => owed = {}
    BY <1>1, <1>4 DEF SweepInv, OwedIsAhead, SB!Consumed
  <2>2. \A r \in owed : r \in stale \cup pending  BY <1>1 DEF SweepInv, OwedIsAhead
  <2>3. QED BY <1>1, <1>3, <1>4, <1>5, <2>1, <2>2 DEF OwedIsAhead, SB!After
<1>10. QED BY <1>7, <1>8, <1>9 DEF SweepInv

\* A report or a single check: its row is not owed any more, the others are not touched.
LEMMA OthersKeep == ASSUME SweepInv, NEW r \in Rows, SB!Park(r) \/ SB!CheckOne(r)  PROVE SweepInv'
<1>1. /\ UNCHANGED <<metered, driver, spent, worker>> /\ owed' = owed \ {r}
      /\ driver.phase \in {"call", "answer"} /\ SweepTyped /\ call \in Calls
  BY DEF SB!Park, SB!CheckOne, SweepInv, SweepTyped
<1>2. /\ order' \in Placings /\ stale' \subseteq Rows /\ pending' \subseteq Rows
      /\ \A q \in Rows \ {r} : (q \in stale' <=> q \in stale) /\ (q \in pending' <=> q \in pending)
  <2>1. CASE SB!Park(r)  BY <1>1, <2>1 DEF SB!Park, SweepTyped
  <2>2. CASE SB!CheckOne(r)  BY <1>1, <2>2, WrittenRow DEF SB!CheckOne
  <2>3. QED BY <2>1, <2>2
<1>3. /\ call' \in Calls /\ call'.started = call.started /\ call'.queue = call.queue
      /\ call'.order = call.order /\ call'.pending = call.pending /\ call'.finished = call.finished
  <2>1. call' = call \/ call' = [call EXCEPT !.moved = @ \cup {r}]  BY DEF SB!Park, SB!CheckOne
  <2>2. CASE call' = call  BY <1>1, <2>2
  <2>3. CASE call' = [call EXCEPT !.moved = @ \cup {r}]  BY <1>1, <2>3 DEF Calls
  <2>4. QED BY <2>1, <2>2, <2>3
<1>4. SweepTyped'  BY <1>1, <1>2, <1>3 DEF SweepTyped, Calls
<1>5. WorkersAtWork' /\ RefusedIsSpent'  BY <1>1 DEF SweepInv, WorkersAtWork, RefusedIsSpent
<1>6. OwedIsAhead'
  <2>1. \A q \in owed' : (q \in stale' <=> q \in stale) /\ (q \in pending' <=> q \in pending)
    BY <1>1, <1>2 DEF SweepTyped
  <2>2. QED BY <1>1, <1>3, <2>1, OwedKept
<1>7. QED BY <1>4, <1>5, <1>6 DEF SweepInv

LEMMA SweepNext == SweepInv /\ [SB!Next]_(SB!vars) => SweepInv'
<1> SUFFICES ASSUME SweepInv, [SB!Next]_(SB!vars)  PROVE SweepInv'
  OBVIOUS
<1>1. ASSUME NEW w \in Workers, SB!WorkerNext(w) \/ SB!Fail(w)  PROVE SweepInv'
  BY <1>1, PullKeeps, FetchKeeps, FinishKeeps, FailKeeps DEF SB!WorkerNext
<1>2. CASE UNCHANGED SB!vars
  BY <1>2 DEF SB!vars, SweepInv, SweepTyped, WorkersAtWork, OwedIsAhead, SB!After, RefusedIsSpent
<1>3. QED BY <1>1, <1>2, BeginsKeep, AnswerKeeps, OthersKeep DEF SB!Next

\* Done means done, whatever the budget cut off, in whatever order the workers finish, whichever
\* rows are parked or checked meanwhile: nothing is owed any more.
THEOREM SweepEndsWithAll == ServicesSpec => []DoneMeansAll
<1>1. ServicesInit => SweepInv  BY SweepInit DEF ServicesInit
<1>2. SweepInv /\ [ServicesNext]_all => SweepInv'  BY SweepNext, PartsStep
<1>3. SweepInv => DoneMeansAll  BY DEF SweepInv, OwedIsAhead, DoneMeansAll, SB!DoneMeansAll
<1>4. QED BY <1>1, <1>2, <1>3, PTL DEF ServicesSpec

\* No verdict is written from a check that had a fetch refused: what the budget cut short is
\* not the provider's answer.
THEOREM VerdictsAreUntainted == ServicesSpec => NoTaintedVerdict
<1>1. ServicesInit => SweepInv  BY SweepInit DEF ServicesInit
<1>2. SweepInv /\ [ServicesNext]_all => SweepInv'  BY SweepNext, PartsStep
<1>3. SweepInv /\ [ServicesNext]_all => [\A w \in Workers : SB!Persist(w) => ~worker[w].refused]_(SB!vars)
  <2>1. SUFFICES ASSUME SweepInv, NEW w \in Workers, SB!Persist(w)  PROVE ~worker[w].refused
    OBVIOUS
  <2>2. spent \in Nat /\ FetchBudget \in Nat /\ worker[w].left \in Nat /\ SB!Reliable(w)
    BY <2>1, SweepAssumption DEF SweepInv, SweepTyped, SB!Persist
  <2>3. QED BY <2>1, <2>2 DEF SweepInv, RefusedIsSpent, SB!Reliable
<1>4. QED BY <1>1, <1>2, <1>3, PTL DEF ServicesSpec, NoTaintedVerdict, SB!NoTaintedVerdict

(* What a call may fetch, and which rows it has checked. *)

Doing == [at: {"out", "pull", "check"}, row: Rows \cup {SB!NoRow}, left: Nat, refused: BOOLEAN]

\* The units of the workers' ceilings, of which worker w has left[w].
Units(left) == {u \in Workers \X (1..PerEntryFetchMax) : u[2] <= left[u[1]]}

\* The units are as many as all workers have left together: one of them changes their number by
\* what it gains or loses.
LEMMA UnitsCounted ==
    ASSUME NEW f \in [Workers -> 0..PerEntryFetchMax], NEW w \in Workers,
           NEW g \in [Workers -> 0..PerEntryFetchMax], \A v \in Workers \ {w} : g[v] = f[v]
    PROVE  /\ Cardinality(Units(f)) \in Nat
           /\ Cardinality(Units(g)) = Cardinality(Units(f)) - f[w] + g[w]
<1> DEFINE rest == {u \in Units(f) : u[1] # w}
           W == Workers \X (1..PerEntryFetchMax)
<1>1. PerEntryFetchMax \in Nat /\ IsFiniteSet(Workers)  BY SweepAssumption
<1>2. IsFiniteSet(W)
  <2>1. IsFiniteSet(1..PerEntryFetchMax)  BY <1>1, FS_Interval
  <2>2. QED BY <1>1, <2>1, FS_Product
<1>3. rest \in SUBSET W /\ Units(f) \in SUBSET W  BY DEF Units
<1>4. IsFiniteSet(rest) /\ Cardinality(rest) \in Nat /\ IsFiniteSet(Units(f)) /\ Cardinality(Units(f)) \in Nat
  BY <1>2, <1>3, FS_Subset, FS_CardinalityType
<1>5. ASSUME NEW h \in [Workers -> 0..PerEntryFetchMax], \A v \in Workers \ {w} : h[v] = f[v]
      PROVE  Cardinality(Units(h)) = Cardinality(rest) + h[w]
  <2> DEFINE own == {w} \X (1..h[w])
  <2>1. h[w] \in Nat /\ h[w] <= PerEntryFetchMax  BY <1>1
  <2>2. IsFiniteSet({w}) /\ Cardinality({w}) = 1  BY FS_Singleton
  <2>3. IsFiniteSet(1..h[w]) /\ Cardinality(1..h[w]) = h[w]  BY <2>1, FS_Interval
  <2>4. IsFiniteSet(own) /\ Cardinality(own) = h[w]
    <3>1. IsFiniteSet(own) /\ Cardinality(own) = Cardinality({w}) * Cardinality(1..h[w])
      BY <2>2, <2>3, FS_Product, Zenon
    <3>2. Cardinality(own) = 1 * h[w]  BY <2>2, <2>3, <3>1
    <3>3. 1 * h[w] = h[w]  BY <2>1
    <3>4. QED BY <3>1, <3>2, <3>3
  <2>5. Units(h) = rest \cup own
    <3>1. ASSUME NEW u \in Units(h)  PROVE u \in rest \cup own
      BY <3>1, <1>5, <2>1 DEF Units
    <3>2. ASSUME NEW u \in own  PROVE u \in Units(h)
      BY <3>2, <1>1, <2>1 DEF Units
    <3>3. ASSUME NEW u \in rest  PROVE u \in Units(h)
      BY <3>3, <1>5 DEF Units
    <3>4. QED BY <3>1, <3>2, <3>3
  <2>6. rest \cap own = {}  OBVIOUS
  <2> HIDE DEF own, rest
  <2>7. Cardinality(rest \cap own) = 0  BY <2>6, FS_EmptySet
  <2>8. Cardinality(rest \cup own) = Cardinality(rest) + Cardinality(own) - Cardinality(rest \cap own)
    BY <1>4, <2>4, FS_Union
  <2>9. Cardinality(rest \cup own) = Cardinality(rest) + h[w] - 0  BY <2>4, <2>7, <2>8
  <2>10. QED BY <1>4, <2>1, <2>5, <2>9
<1>6. Cardinality(Units(f)) = Cardinality(rest) + f[w]  BY <1>5
<1>7. Cardinality(Units(g)) = Cardinality(rest) + g[w]  BY <1>5
<1> HIDE DEF rest
<1>8. f[w] \in Nat /\ g[w] \in Nat  BY <1>1
<1>9. QED BY <1>4, <1>6, <1>7, <1>8

\* What NotOversubscribed counts are these units.
LEMMA UnitsOfCeilings ==
    ASSUME NEW wk \in [Workers -> Doing],
           \A w \in Workers : wk[w].left <= PerEntryFetchMax /\ (wk[w].left > 0 => wk[w].at = "check")
    PROVE  /\ [w \in Workers |-> wk[w].left] \in [Workers -> 0..PerEntryFetchMax]
           /\ {p \in {w \in Workers : wk[w].at = "check"} \X (1..PerEntryFetchMax) : p[2] <= wk[p[1]].left}
                = Units([w \in Workers |-> wk[w].left])
<1>1. \A w \in Workers : wk[w].left \in Nat /\ PerEntryFetchMax \in Nat  BY SweepAssumption DEF Doing
<1>2. QED BY <1>1 DEF Units

\* Reservations are what the checks under way may still fetch, and lie within the budget.
BudgetInv ==
    /\ \A w \in Workers : worker[w].left <= PerEntryFetchMax /\ (worker[w].left > 0 => worker[w].at = "check")
    /\ SB!NotOversubscribed
    /\ spent <= FetchBudget /\ (~metered => spent = 0)

LEMMA BudgetFrame ==
    ASSUME SweepInv, BudgetInv, NEW w \in Workers, NEW new \in Doing,
           worker' = [worker EXCEPT ![w] = new], metered' = metered, spent' \in Nat,
           new.left <= PerEntryFetchMax, new.left > 0 => new.at = "check",
           reserved' = (reserved - worker[w].left) + new.left,
           metered => spent' + reserved' <= FetchBudget, spent' <= FetchBudget, ~metered => spent' = 0
    PROVE  BudgetInv'
<1> DEFINE f == [v \in Workers |-> worker[v].left]
           g == [v \in Workers |-> worker'[v].left]
<1>1. worker \in [Workers -> Doing]  BY DEF SweepInv, SweepTyped, Doing
<1>2. worker' \in [Workers -> Doing] /\ worker'[w] = new /\ \A v \in Workers \ {w} : worker'[v] = worker[v]
  BY <1>1
<1>3. \A v \in Workers : worker'[v].left <= PerEntryFetchMax /\ (worker'[v].left > 0 => worker'[v].at = "check")
  BY <1>2 DEF BudgetInv
<1>4. f \in [Workers -> 0..PerEntryFetchMax] /\ SB!Outstanding = Units(f)
  BY <1>1, UnitsOfCeilings DEF BudgetInv, SB!Outstanding, SB!Busy
<1>5. g \in [Workers -> 0..PerEntryFetchMax] /\ SB!Outstanding' = Units(g)
  BY <1>2, <1>3, UnitsOfCeilings DEF SB!Outstanding, SB!Busy
<1>6. f[w] = worker[w].left /\ g[w] = new.left /\ \A v \in Workers \ {w} : g[v] = f[v]  BY <1>2
<1> HIDE DEF f, g
<1>7. Cardinality(Units(g)) = Cardinality(Units(f)) - f[w] + g[w]  BY <1>4, <1>5, <1>6, UnitsCounted
<1>8. reserved = Cardinality(Units(f))  BY <1>4, SameCount DEF BudgetInv, SB!NotOversubscribed
<1>9. reserved' = Cardinality(Units(g))  BY <1>6, <1>7, <1>8
<1>10. SB!NotOversubscribed'  BY <1>5, <1>9, SameCount DEF SB!NotOversubscribed
<1>11. QED BY <1>3, <1>10 DEF BudgetInv

\* Without a check nothing is reserved.
LEMMA NothingReserved ==
    ASSUME NEW wk \in [Workers -> Doing], \A w \in Workers : wk[w].at # "check"
    PROVE  Cardinality({p \in {w \in Workers : wk[w].at = "check"} \X (1..PerEntryFetchMax) :
                            p[2] <= wk[p[1]].left}) = 0
<1>1. {p \in {w \in Workers : wk[w].at = "check"} \X (1..PerEntryFetchMax) : p[2] <= wk[p[1]].left} = {}
  OBVIOUS
<1>2. QED BY <1>1, FS_EmptySet

LEMMA BudgetInit == SB!Init => BudgetInv
<1> SUFFICES ASSUME SB!Init  PROVE BudgetInv
  OBVIOUS
<1>1. worker = [w \in Workers |-> SB!Out] /\ spent = 0 /\ reserved = 0  BY DEF SB!Init
<1>2. SB!Out \in Doing /\ SB!Out.at = "out" /\ SB!Out.left = 0  BY DEF SB!Out, Doing
<1>3. worker \in [Workers -> Doing] /\ \A w \in Workers : worker[w] = SB!Out  BY <1>1, <1>2
<1>4. Cardinality(SB!Outstanding) = 0  BY <1>2, <1>3, NothingReserved DEF SB!Outstanding, SB!Busy
<1>5. QED BY <1>1, <1>2, <1>3, <1>4, SameCount, SweepAssumption DEF BudgetInv, SB!NotOversubscribed

\* A worker takes a row only if its whole ceiling fits, or stops; it has nothing left over.
LEMMA PullFunds == ASSUME SweepInv, BudgetInv, NEW w \in Workers, SB!Pull(w)  PROVE BudgetInv'
<1> DEFINE row == SB!FirstOf(call.queue \ call.started)
           busy == [at |-> "check", row |-> row, left |-> PerEntryFetchMax, refused |-> FALSE]
<1>1. /\ worker[w].at = "pull" /\ UNCHANGED <<metered, spent>> /\ spent \in Nat /\ worker \in [Workers -> Doing]
      /\ PerEntryFetchMax \in Nat /\ FetchBudget \in Nat /\ SweepTyped
  BY SweepAssumption DEF SB!Pull, SweepInv, SweepTyped, Doing
<1>2. worker[w].left = 0  BY <1>1 DEF BudgetInv, Doing
<1>3. reserved \in Nat /\ (metered => spent + reserved <= FetchBudget) /\ spent <= FetchBudget
      /\ (~metered => spent = 0)
  <2>1. [v \in Workers |-> worker[v].left] \in [Workers -> 0..PerEntryFetchMax]
        /\ SB!Outstanding = Units([v \in Workers |-> worker[v].left])
    BY <1>1, UnitsOfCeilings DEF BudgetInv, SB!Outstanding, SB!Busy
  <2>2. Cardinality(SB!Outstanding) \in Nat  BY <2>1, UnitsCounted
  <2>3. QED BY <2>2, SameCount DEF BudgetInv, SB!NotOversubscribed
<1>4. CASE /\ worker' = [worker EXCEPT ![w] = busy] /\ reserved' = reserved + PerEntryFetchMax
           /\ SB!Fits /\ row \in Rows
  <2>1. busy \in Doing /\ busy.left = PerEntryFetchMax /\ busy.at = "check"  BY <1>1, <1>4 DEF Doing
  <2> HIDE DEF busy
  <2>2. metered => spent + reserved + PerEntryFetchMax <= FetchBudget  BY <1>4 DEF SB!Fits
  <2>3. reserved' = (reserved - worker[w].left) + busy.left  BY <1>1, <1>2, <1>3, <1>4, <2>1
  <2>4. metered => spent' + reserved' <= FetchBudget  BY <1>1, <1>3, <1>4, <2>2
  <2>5. busy.left <= PerEntryFetchMax /\ (busy.left > 0 => busy.at = "check")  BY <1>1, <2>1
  <2>6. metered' = metered /\ spent' \in Nat /\ spent' <= FetchBudget /\ (~metered => spent' = 0)
    BY <1>1, <1>3
  <2>7. worker' = [worker EXCEPT ![w] = busy]  BY <1>4
  <2>8. QED BY <2>1, <2>3, <2>4, <2>5, <2>6, <2>7, BudgetFrame
<1>5. CASE worker' = [worker EXCEPT ![w] = SB!Out] /\ reserved' = reserved
  <2>1. SB!Out \in Doing /\ SB!Out.left = 0  BY DEF SB!Out, Doing
  <2>2. reserved' = (reserved - worker[w].left) + SB!Out.left  BY <1>2, <1>3, <1>5, <2>1
  <2>3. SB!Out.left <= PerEntryFetchMax /\ (SB!Out.left > 0 => SB!Out.at = "check")  BY <1>1, <2>1
  <2>4. metered' = metered /\ spent' \in Nat /\ spent' <= FetchBudget /\ (~metered => spent' = 0)
        /\ (metered => spent' + reserved' <= FetchBudget)
    BY <1>1, <1>3, <1>5
  <2>5. worker' = [worker EXCEPT ![w] = SB!Out]  BY <1>5
  <2>6. QED BY <2>1, <2>2, <2>3, <2>4, <2>5, BudgetFrame
<1>6. QED
  <2> DEFINE more == /\ ~call.budgetHit /\ call.started # call.queue
                     /\ call.checked + SB!Cardinality(SB!Busy) < BatchLimit
                     /\ SB!Cardinality(call.started) < AttemptMax
  <2>1. CASE more /\ SB!Fits
    <3>1. worker' = [worker EXCEPT ![w] = busy] /\ reserved' = reserved + PerEntryFetchMax
      BY <2>1 DEF SB!Pull
    <3>2. row \in Rows
      <4>1. call.queue \ call.started # {} /\ call.order \in Placings
            /\ call.queue \ call.started \in SUBSET Rows
        BY <1>1, <2>1 DEF SweepTyped, Calls
      <4>2. QED BY <1>1, <4>1, FirstAndLast
    <3> HIDE DEF busy, row
    <3>3. QED BY <1>4, <2>1, <3>1, <3>2
  <2>2. CASE ~(more /\ SB!Fits)
    <3>1. worker' = [worker EXCEPT ![w] = SB!Out] /\ reserved' = reserved  BY <2>2 DEF SB!Pull
    <3>2. QED BY <1>5, <3>1
  <2>3. QED BY <2>1, <2>2

\* Each fetch moves one unit from the reservation to what is spent; a check that is over
\* releases what it has left.
LEMMA CheckFunds ==
    ASSUME SweepInv, BudgetInv, NEW w \in Workers,
           \/ SB!Fetch(w) \/ SB!GiveUp(w) \/ SB!Starve(w) \/ SB!Skip(w) \/ SB!Persist(w) \/ SB!Fail(w)
    PROVE  BudgetInv'
<1>1. /\ worker[w].at = "check" /\ metered' = metered /\ spent \in Nat /\ worker \in [Workers -> Doing]
      /\ PerEntryFetchMax \in Nat /\ FetchBudget \in Nat
  BY SweepAssumption
  DEF SB!Fetch, SB!GiveUp, SB!Starve, SB!Skip, SB!Persist, SB!Fail, SB!Leave, SweepInv, SweepTyped, Doing
<1>2. worker[w] \in Doing /\ worker[w].left \in Nat /\ worker[w].left <= PerEntryFetchMax
  BY <1>1 DEF Doing, BudgetInv
<1>3. reserved \in Nat /\ (metered => spent + reserved <= FetchBudget) /\ spent <= FetchBudget
      /\ (~metered => spent = 0)
  <2>1. [v \in Workers |-> worker[v].left] \in [Workers -> 0..PerEntryFetchMax]
        /\ SB!Outstanding = Units([v \in Workers |-> worker[v].left])
    BY <1>1, UnitsOfCeilings DEF BudgetInv, SB!Outstanding, SB!Busy
  <2>2. Cardinality(SB!Outstanding) \in Nat  BY <2>1, UnitsCounted
  <2>3. QED BY <2>2, SameCount DEF BudgetInv, SB!NotOversubscribed
<1>4. CASE SB!Fetch(w)
  <2>1. CASE spent >= FetchBudget \/ worker[w].left = 0
    <3> DEFINE new == [worker[w] EXCEPT !.refused = TRUE]
    <3>1. worker' = [worker EXCEPT ![w] = new] /\ spent' = spent /\ reserved' = reserved
      BY <1>4, <2>1 DEF SB!Fetch
    <3>2. new \in Doing /\ new.left = worker[w].left /\ new.at = "check"  BY <1>1, <1>2 DEF Doing
    <3> HIDE DEF new
    <3>3. reserved' = (reserved - worker[w].left) + new.left  BY <1>2, <1>3, <3>1, <3>2
    <3>4. QED BY <1>1, <1>2, <1>3, <3>1, <3>2, <3>3, BudgetFrame
  <2>2. CASE ~(spent >= FetchBudget \/ worker[w].left = 0)
    <3> DEFINE new == [worker[w] EXCEPT !.left = @ - 1]
    <3>1. worker' = [worker EXCEPT ![w] = new] /\ spent' = spent + 1 /\ reserved' = reserved - 1 /\ metered
      BY <1>4, <2>2 DEF SB!Fetch
    <3>2. new \in Doing /\ new.left = worker[w].left - 1 /\ new.at = "check"
      BY <1>1, <1>2, <2>2 DEF Doing
    <3> HIDE DEF new
    <3>3. reserved' = (reserved - worker[w].left) + new.left  BY <1>2, <1>3, <3>1, <3>2
    <3>4. spent' \in Nat /\ spent' <= FetchBudget /\ spent' + reserved' <= FetchBudget
          /\ new.left <= PerEntryFetchMax
      BY <1>1, <1>2, <1>3, <2>2, <3>1, <3>2
    <3>5. QED BY <1>1, <3>1, <3>2, <3>3, <3>4, BudgetFrame
  <2>3. QED BY <2>1, <2>2
<1>5. CASE SB!GiveUp(w) \/ SB!Starve(w) \/ SB!Skip(w) \/ SB!Persist(w) \/ SB!Fail(w)
  <2>1. PICK new \in Doing : /\ worker' = [worker EXCEPT ![w] = new] /\ new.left = 0
                             /\ spent' = spent /\ reserved' = reserved - worker[w].left
    <3>1. CASE SB!Fail(w)
      <4>1. SB!Out \in Doing /\ SB!Out.left = 0  BY DEF SB!Out, Doing
      <4>2. QED BY <3>1, <4>1 DEF SB!Fail
    <3>2. CASE SB!GiveUp(w) \/ SB!Starve(w) \/ SB!Skip(w) \/ SB!Persist(w)
      <4> DEFINE new == [SB!Out EXCEPT !.at = "pull"]
      <4>1. new \in Doing /\ new.left = 0  BY DEF SB!Out, Doing
      <4>2. worker' = [worker EXCEPT ![w] = new] /\ spent' = spent /\ reserved' = reserved - worker[w].left
        BY <3>2 DEF SB!GiveUp, SB!Starve, SB!Skip, SB!Persist, SB!Leave
      <4> HIDE DEF new
      <4>3. QED BY <4>1, <4>2
    <3>3. QED BY <1>5, <3>1, <3>2
  <2>2. reserved' = (reserved - worker[w].left) + new.left  BY <1>2, <1>3, <2>1
  <2>3. metered => spent' + reserved' <= FetchBudget  BY <1>1, <1>2, <1>3, <2>1
  <2>4. new.left <= PerEntryFetchMax /\ (new.left > 0 => new.at = "check")  BY <1>1, <2>1
  <2>5. metered' = metered /\ spent' \in Nat /\ spent' <= FetchBudget /\ (~metered => spent' = 0)
    BY <1>1, <1>3, <2>1
  <2>6. worker' = [worker EXCEPT ![w] = new]  BY <2>1
  <2>7. QED BY <2>2, <2>3, <2>4, <2>5, <2>6, BudgetFrame
<1>6. QED BY <1>4, <1>5

\* A call begins and ends without reservations.
LEMMA CallFunds == ASSUME SweepInv, BudgetInv, SB!BeginCall \/ SB!Answer  PROVE BudgetInv'
<1>1. /\ spent' = 0 /\ reserved' = 0 /\ metered' = metered /\ FetchBudget \in Nat
      /\ worker \in [Workers -> Doing] /\ PerEntryFetchMax \in Nat
  BY SweepAssumption DEF SB!BeginCall, SB!Answer, SweepInv, SweepTyped, Doing
<1>2. worker' \in [Workers -> Doing] /\ \A w \in Workers : worker'[w].at # "check" /\ worker'[w].left = 0
  <2>1. CASE SB!BeginCall
    <3> DEFINE new == [SB!Out EXCEPT !.at = "pull"]
    <3>1. new \in Doing /\ new.left = 0 /\ new.at = "pull"  BY DEF SB!Out, Doing
    <3>2. worker' = [w \in Workers |-> new]  BY <2>1 DEF SB!BeginCall
    <3> HIDE DEF new
    <3>3. QED BY <3>1, <3>2
  <2>2. CASE SB!Answer
    <3>1. worker' = worker /\ \A w \in Workers : worker[w].at = "out"  BY <2>2 DEF SB!Answer
    <3>2. QED BY <1>1, <3>1 DEF BudgetInv, Doing
  <2>3. QED BY <2>1, <2>2
<1>3. Cardinality(SB!Outstanding') = 0
  <2>1. SB!Outstanding' = {p \in {w \in Workers : worker'[w].at = "check"} \X (1..PerEntryFetchMax) :
                              p[2] <= worker'[p[1]].left}
    BY DEF SB!Outstanding, SB!Busy
  <2>2. QED BY <1>2, <2>1, NothingReserved
<1>4. QED BY <1>1, <1>2, <1>3, SameCount DEF BudgetInv, SB!NotOversubscribed

LEMMA BudgetNext == ASSUME SweepInv, [SB!Next]_(SB!vars)  PROVE BudgetInv => BudgetInv'
<1> SUFFICES ASSUME BudgetInv  PROVE BudgetInv'
  OBVIOUS
<1>1. ASSUME NEW w \in Workers, SB!WorkerNext(w) \/ SB!Fail(w)  PROVE BudgetInv'
  BY <1>1, PullFunds, CheckFunds DEF SB!WorkerNext
<1>2. ASSUME UNCHANGED <<metered, spent, reserved, worker>>  PROVE BudgetInv'
  BY <1>2 DEF BudgetInv, SB!NotOversubscribed, SB!Outstanding, SB!Busy
<1>3. CASE SB!BeginSweep  BY <1>2, <1>3 DEF SB!BeginSweep
<1>4. ASSUME NEW r \in Rows, SB!Park(r) \/ SB!CheckOne(r)  PROVE BudgetInv'
  BY <1>2, <1>4 DEF SB!Park, SB!CheckOne
<1>5. CASE UNCHANGED SB!vars  BY <1>2, <1>5 DEF SB!vars
<1>6. QED BY <1>1, <1>3, <1>4, <1>5, CallFunds DEF SB!Next

\* However many workers pull at once: the reservations are exactly what the checks under way may
\* still fetch, and with what was fetched they never exceed the request's budget.
THEOREM BudgetIsNotOversubscribed == ServicesSpec => []SB!NotOversubscribed
<1>1. ServicesInit => SweepInv /\ BudgetInv  BY SweepInit, BudgetInit DEF ServicesInit
<1>2. SweepInv /\ BudgetInv /\ [ServicesNext]_all => SweepInv' /\ BudgetInv'
  BY SweepNext, BudgetNext, PartsStep
<1>3. BudgetInv => SB!NotOversubscribed  BY DEF BudgetInv
<1>4. QED BY <1>1, <1>2, <1>3, PTL DEF ServicesSpec

\* The verdicts are of rows that finished, and what is checked was started.
OnceInv ==
    /\ SB!CheckedOnce
    /\ call.finished \subseteq call.started /\ call.checked <= Cardinality(call.finished)
    /\ \A w \in SB!Busy : worker[w].row \in call.started

LEMMA FinishedCounted ==
    ASSUME SweepInv, NEW r \in Rows
    PROVE  /\ Cardinality(call.finished) \in Nat /\ call.checked \in Nat /\ Cardinality({}) = 0
           /\ Cardinality(call.finished \cup {r}) =
                 IF r \in call.finished THEN Cardinality(call.finished) ELSE Cardinality(call.finished) + 1
<1>1. call.finished \in SUBSET Rows /\ call.checked \in Nat  BY DEF SweepInv, SweepTyped, Calls
<1>2. IsFiniteSet(call.finished)  BY <1>1, RowsCounted, FS_Subset
<1>3. QED BY <1>1, <1>2, FS_CardinalityType, FS_AddElement, FS_EmptySet

\* The worker takes a row that nobody has started.
LEMMA PullOnce == ASSUME SweepInv, OnceInv, NEW w \in Workers, SB!Pull(w)  PROVE OnceInv'
<1> DEFINE row == SB!FirstOf(call.queue \ call.started)
           busy == [at |-> "check", row |-> row, left |-> PerEntryFetchMax, refused |-> FALSE]
           more == /\ ~call.budgetHit /\ call.started # call.queue
                   /\ call.checked + SB!Cardinality(SB!Busy) < BatchLimit
                   /\ SB!Cardinality(call.started) < AttemptMax
<1>1. worker \in [Workers -> Doing] /\ SweepTyped /\ call \in Calls
  BY DEF SweepInv, SweepTyped, Doing
<1>2. CASE more /\ SB!Fits
  <2>1. worker' = [worker EXCEPT ![w] = busy] /\ call' = [call EXCEPT !.started = @ \cup {row}]
    BY <1>2 DEF SB!Pull
  <2>2. call.queue \ call.started # {} /\ call.order \in Placings /\ call.queue \ call.started \in SUBSET Rows
    BY <1>1, <1>2 DEF SweepTyped, Calls
  <2>3. row \in call.queue \ call.started  BY <1>1, <2>2, FirstAndLast
  <2>4. busy.at = "check" /\ busy.row = row  OBVIOUS
  <2> HIDE DEF busy, row
  <2>5. call'.started = call.started \cup {row} /\ call'.finished = call.finished /\ call'.checked = call.checked
    BY <1>1, <2>1 DEF Calls
  <2>6. worker'[w] = busy /\ \A v \in Workers \ {w} : worker'[v] = worker[v]  BY <1>1, <2>1
  <2>7. SB!Busy' = SB!Busy \cup {w}  BY <2>4, <2>6 DEF SB!Busy
  <2>8. \A v \in SB!Busy' : v # w => v \in SB!Busy /\ worker'[v].row \in call.started
    BY <2>6, <2>7 DEF OnceInv, SB!Busy
  <2>9. row \notin call.finished  BY <2>3 DEF OnceInv
  <2>10. SB!CheckedOnce'  BY <2>3, <2>4, <2>5, <2>6, <2>8, <2>9 DEF OnceInv, SB!CheckedOnce, SB!Busy
  <2>11. QED BY <2>4, <2>5, <2>6, <2>8, <2>10 DEF OnceInv
<1>3. CASE ~(more /\ SB!Fits)
  <2>1. worker' = [worker EXCEPT ![w] = SB!Out] /\ call' = [call EXCEPT !.headroomHit = @ \/ more]
    BY <1>3 DEF SB!Pull
  <2>2. call'.started = call.started /\ call'.finished = call.finished /\ call'.checked = call.checked
    BY <1>1, <2>1 DEF Calls
  <2>3. SB!Busy' \subseteq SB!Busy /\ \A v \in SB!Busy' : worker'[v].row = worker[v].row
    BY <1>1, <2>1 DEF SB!Busy, SB!Out
  <2>4. QED BY <2>2, <2>3 DEF OnceInv, SB!CheckedOnce
<1>4. QED BY <1>2, <1>3

\* A check that goes on keeps its row; one that ends leaves it to nobody, and finishes or not.
LEMMA CheckOnceMore ==
    ASSUME SweepInv, OnceInv, NEW w \in Workers,
           \/ SB!Fetch(w) \/ SB!GiveUp(w) \/ SB!Starve(w) \/ SB!Skip(w) \/ SB!Persist(w) \/ SB!Fail(w)
    PROVE  OnceInv'
<1> DEFINE r == worker[w].row
<1>1. worker \in [Workers -> Doing] /\ call \in Calls /\ w \in SB!Busy /\ r \in Rows /\ r \notin call.finished
      /\ r \in call.started
  BY DEF SB!Fetch, SB!GiveUp, SB!Starve, SB!Skip, SB!Persist, SB!Fail, SB!Busy, SweepInv, SweepTyped,
         WorkersAtWork, Doing, OnceInv, SB!CheckedOnce
<1>2. /\ Cardinality(call.finished) \in Nat /\ call.checked \in Nat
      /\ Cardinality(call.finished \cup {r}) = Cardinality(call.finished) + 1
  BY <1>1, FinishedCounted
<1>3. CASE SB!Fetch(w)
  <2>1. call' = call  BY <1>3 DEF SB!Fetch
  <2>2. worker' = [worker EXCEPT ![w].refused = TRUE] \/ worker' = [worker EXCEPT ![w].left = @ - 1]
    BY <1>3 DEF SB!Fetch
  <2>3. SB!Busy' = SB!Busy /\ \A v \in SB!Busy : worker'[v].row = worker[v].row
    BY <1>1, <2>2 DEF SB!Busy, Doing
  <2>4. QED BY <2>1, <2>3 DEF OnceInv, SB!CheckedOnce
<1>4. CASE SB!GiveUp(w) \/ SB!Starve(w) \/ SB!Skip(w) \/ SB!Persist(w) \/ SB!Fail(w)
  <2>1. /\ call'.started = call.started
        /\ \/ call'.finished = call.finished /\ call'.checked = call.checked
           \/ call'.finished = call.finished \cup {r} /\ call'.checked \in {call.checked, call.checked + 1}
    <3>1. CASE SB!GiveUp(w) \/ SB!Fail(w)
      BY <1>1, <3>1 DEF SB!GiveUp, SB!Fail, SB!Leave, Calls
    <3>2. CASE SB!Starve(w) \/ SB!Skip(w)
      BY <1>1, <3>2 DEF SB!Starve, SB!Skip, SB!Leave, SB!Finished, Calls
    <3>3. CASE SB!Persist(w)
      <4> DEFINE f == SB!Finished(w)
                 g == [f EXCEPT !.checked = @ + 1]
      <4>1. call' = [g EXCEPT !.moved = @ \cup {r}]  BY <3>3 DEF SB!Persist, SB!Leave
      <4>2. f \in Calls /\ f.started = call.started /\ f.finished = call.finished \cup {r}
            /\ f.checked = call.checked
        BY <1>1 DEF Calls, SB!Finished
      <4> HIDE DEF f
      <4>3. g \in Calls /\ g.started = call.started /\ g.finished = call.finished \cup {r}
            /\ g.checked = call.checked + 1
        BY <4>2 DEF Calls
      <4> HIDE DEF g
      <4>4. QED BY <4>1, <4>3 DEF Calls
    <3>4. QED BY <1>4, <3>1, <3>2, <3>3
  <2>2. SB!Busy' = SB!Busy \ {w} /\ \A v \in SB!Busy' : worker'[v].row = worker[v].row
    <3>1. PICK new \in Doing : worker' = [worker EXCEPT ![w] = new] /\ new.at # "check"
      <4>1. SB!Out \in Doing /\ SB!Out.at = "out"  BY DEF SB!Out, Doing
      <4>2. [SB!Out EXCEPT !.at = "pull"] \in Doing /\ [SB!Out EXCEPT !.at = "pull"].at = "pull"
        BY DEF SB!Out, Doing
      <4>3. worker' = [worker EXCEPT ![w] = SB!Out] \/ worker' = [worker EXCEPT ![w] = [SB!Out EXCEPT !.at = "pull"]]
        BY <1>4 DEF SB!GiveUp, SB!Starve, SB!Skip, SB!Persist, SB!Fail, SB!Leave
      <4>4. QED BY <4>1, <4>2, <4>3
    <3>2. QED BY <1>1, <3>1 DEF SB!Busy
  <2>3. \A v \in SB!Busy' : worker[v].row # r /\ worker[v].row \notin call.finished
                            /\ worker[v].row \in call.started
    BY <1>1, <2>2 DEF OnceInv, SB!CheckedOnce
  <2>4. SB!CheckedOnce'  BY <2>1, <2>2, <2>3 DEF OnceInv, SB!CheckedOnce
  <2>5. call'.finished \subseteq call'.started  BY <1>1, <2>1 DEF OnceInv
  <2>6. call'.checked <= Cardinality(call'.finished)
    <3>1. call.checked <= Cardinality(call.finished)  BY DEF OnceInv
    <3>2. CASE call'.finished = call.finished /\ call'.checked = call.checked  BY <3>1, <3>2
    <3>3. CASE call'.finished = call.finished \cup {r} /\ call'.checked \in {call.checked, call.checked + 1}
      <4>1. Cardinality(call'.finished) = Cardinality(call.finished) + 1  BY <1>2, <3>3
      <4>2. QED BY <1>2, <3>1, <3>3, <4>1
    <3>4. QED BY <2>1, <3>2, <3>3
  <2>7. QED BY <2>1, <2>2, <2>3, <2>4, <2>5, <2>6 DEF OnceInv
<1>5. QED BY <1>3, <1>4

LEMMA OnceInit == SB!Init => OnceInv
<1> SUFFICES ASSUME SB!Init  PROVE OnceInv
  OBVIOUS
<1>1. worker = [w \in Workers |-> SB!Out] /\ call = SB!NoCall  BY DEF SB!Init
<1>2. SB!Busy = {}  BY <1>1 DEF SB!Busy, SB!Out
<1>3. call.finished = {} /\ call.checked = 0  BY <1>1 DEF SB!NoCall
<1>4. QED BY <1>2, <1>3, FS_EmptySet DEF OnceInv, SB!CheckedOnce

LEMMA OnceNext == ASSUME SweepInv, [SB!Next]_(SB!vars)  PROVE OnceInv => OnceInv'
<1> SUFFICES ASSUME OnceInv  PROVE OnceInv'
  OBVIOUS
<1>a. call \in Calls  BY DEF SweepInv, SweepTyped
<1>1. ASSUME NEW w \in Workers, SB!WorkerNext(w) \/ SB!Fail(w)  PROVE OnceInv'
  BY <1>1, PullOnce, CheckOnceMore DEF SB!WorkerNext
<1>2. ASSUME worker' = worker, call'.finished = call.finished, call'.started = call.started,
             call'.checked = call.checked
      PROVE  OnceInv'
  BY <1>2 DEF OnceInv, SB!CheckedOnce, SB!Busy
<1>3. CASE SB!BeginSweep \/ UNCHANGED SB!vars  BY <1>2, <1>3 DEF SB!BeginSweep, SB!vars
<1>4. ASSUME NEW r \in Rows, SB!Park(r) \/ SB!CheckOne(r)  PROVE OnceInv'
  <2>1. worker' = worker /\ (call' = call \/ call' = [call EXCEPT !.moved = @ \cup {r}])
    BY <1>4 DEF SB!Park, SB!CheckOne
  <2>2. call'.finished = call.finished /\ call'.started = call.started /\ call'.checked = call.checked
    BY <1>a, <2>1 DEF Calls
  <2>3. QED BY <1>2, <2>1, <2>2
<1>5. CASE SB!BeginCall \/ SB!Answer
  <2>1. call'.finished = {} /\ call'.checked = 0
    <3>1. CASE SB!BeginCall
      <4> DEFINE q == SB!Queue(driver.cursor)
      <4>1. call' = [SB!NoCall EXCEPT !.queue = q, !.order = order, !.pending = pending]
        BY <3>1 DEF SB!BeginCall
      <4> HIDE DEF q
      <4>2. QED BY <4>1 DEF SB!NoCall
    <3>2. CASE SB!Answer
      <4>1. call' = SB!NoCall  BY <3>2 DEF SB!Answer
      <4>2. QED BY <4>1 DEF SB!NoCall
    <3>3. QED BY <1>5, <3>1, <3>2
  <2>2. SB!Busy' = {}
    <3>1. CASE SB!BeginCall
      <4>1. worker' = [w \in Workers |-> [SB!Out EXCEPT !.at = "pull"]]  BY <3>1 DEF SB!BeginCall
      <4>2. \A w \in Workers : worker'[w].at = "pull"  BY <4>1 DEF SB!Out
      <4>3. QED BY <4>2 DEF SB!Busy
    <3>2. CASE SB!Answer  BY <3>2 DEF SB!Answer, SB!Busy
    <3>3. QED BY <1>5, <3>1, <3>2
  <2>3. QED BY <2>1, <2>2, FS_EmptySet DEF OnceInv, SB!CheckedOnce
<1>6. QED BY <1>1, <1>3, <1>4, <1>5 DEF SB!Next

\* In one call no row is checked by two workers, or again after its check has returned.
THEOREM RowsAreCheckedOnce == ServicesSpec => []SB!CheckedOnce
<1>1. ServicesInit => SweepInv /\ OnceInv  BY SweepInit, OnceInit DEF ServicesInit
<1>2. SweepInv /\ OnceInv /\ [ServicesNext]_all => SweepInv' /\ OnceInv'
  BY SweepNext, OnceNext, PartsStep
<1>3. OnceInv => SB!CheckedOnce  BY DEF OnceInv
<1>4. QED BY <1>1, <1>2, <1>3, PTL DEF ServicesSpec

\* The scheduler's calls and what others do stay within their bounds.
CountsInv ==
    /\ driver.pass \in 0..MaxPasses /\ (driver.phase = "call" => driver.pass < MaxPasses)
    /\ outside \in 0..MaxOutside /\ metered \in BOOLEAN

LEMMA CountsNext == ASSUME SweepInv, CountsInv, [SB!Next]_(SB!vars)  PROVE CountsInv'
<1>1. /\ MaxPasses \in Nat \ {0} /\ MaxOutside \in Nat /\ driver.pass \in Nat /\ outside \in Nat
      /\ driver \in [phase: {"idle", "call", "answer", "done"}, cursor: SB!Cursors, first: BOOLEAN, pass: Nat]
  BY SweepAssumption DEF SweepInv, SweepTyped, CountsInv
<1>2. CASE SB!BeginSweep
  <2>1. driver'.pass = 0 /\ outside' = outside /\ metered' = metered  BY <1>2 DEF SB!BeginSweep
  <2>2. QED BY <1>1, <2>1 DEF CountsInv
<1>3. CASE SB!BeginCall
  <2>1. /\ driver' = [driver EXCEPT !.phase = "answer", !.pass = @ + 1] /\ outside' = outside
        /\ driver.phase = "call" /\ metered' = metered
    BY <1>3 DEF SB!BeginCall
  <2>2. driver'.phase = "answer" /\ driver'.pass = driver.pass + 1  BY <1>1, <2>1
  <2>3. QED BY <1>1, <2>1, <2>2 DEF CountsInv
<1>4. CASE SB!Answer
  <2> DEFINE cursor == IF SB!Consumed = {} THEN driver.cursor ELSE SB!CursorAt(SB!LastOf(SB!Consumed))
             phs == IF call.failed THEN "idle" ELSE IF SB!Consumed = call.queue THEN "done"
                    ELSE IF SB!Stuck(cursor) \/ driver.pass = MaxPasses THEN "idle" ELSE "call"
  <2>1. driver' = [driver EXCEPT !.phase = phs, !.cursor = cursor, !.first = FALSE] /\ outside' = outside
        /\ metered' = metered
    BY <1>4 DEF SB!Answer
  <2>2. phs = "call" => driver.pass # MaxPasses  OBVIOUS
  <2> HIDE DEF cursor, phs
  <2>3. driver'.phase = phs /\ driver'.pass = driver.pass  BY <1>1, <2>1
  <2>4. QED BY <1>1, <2>1, <2>2, <2>3 DEF CountsInv
<1>5. ASSUME driver' = driver, outside' = outside \/ SB!Outside, metered' = metered  PROVE CountsInv'
  BY <1>1, <1>5 DEF CountsInv, SB!Outside
<1>6. ASSUME NEW w \in Workers, SB!WorkerNext(w) \/ SB!Fail(w)  PROVE CountsInv'
  <2>1. CASE SB!Pull(w) \/ SB!Fetch(w)  BY <1>5, <2>1 DEF SB!Pull, SB!Fetch
  <2>2. CASE SB!GiveUp(w) \/ SB!Starve(w) \/ SB!Skip(w) \/ SB!Persist(w)
    BY <1>5, <2>2 DEF SB!GiveUp, SB!Starve, SB!Skip, SB!Persist, SB!Leave
  <2>3. CASE SB!Fail(w)  BY <1>5, <2>3 DEF SB!Fail
  <2>4. QED BY <1>6, <2>1, <2>2, <2>3 DEF SB!WorkerNext
<1>7. ASSUME NEW r \in Rows, SB!Park(r) \/ SB!CheckOne(r)  PROVE CountsInv'
  BY <1>5, <1>7 DEF SB!Park, SB!CheckOne
<1>8. CASE UNCHANGED SB!vars  BY <1>5, <1>8 DEF SB!vars
<1>9. QED BY <1>2, <1>3, <1>4, <1>6, <1>7, <1>8 DEF SB!Next

\* A call's rows, what its workers hold and what the budget has left are of their types: nothing
\* finished that was not started, no more verdicts than finished rows, no fetch beyond the budget.
THEOREM SweepTypeCorrect == ServicesSpec => []SB!SweepTypeOK
<1>1. ServicesInit => SweepInv /\ BudgetInv /\ OnceInv /\ CountsInv
  BY SweepInit, BudgetInit, OnceInit, SweepAssumption DEF ServicesInit, SB!Init, CountsInv
<1>2. SweepInv /\ BudgetInv /\ OnceInv /\ CountsInv /\ [ServicesNext]_all
        => SweepInv' /\ BudgetInv' /\ OnceInv' /\ CountsInv'
  BY SweepNext, BudgetNext, OnceNext, CountsNext, PartsStep
<1>3. SweepInv /\ BudgetInv /\ OnceInv /\ CountsInv => SB!SweepTypeOK
  <2>1. SUFFICES ASSUME SweepInv, BudgetInv, OnceInv, CountsInv  PROVE SB!SweepTypeOK
    OBVIOUS
  <2>2. SweepTyped /\ worker \in [Workers -> Doing] /\ call \in Calls
    BY <2>1 DEF SweepInv, SweepTyped, Doing
  <2>3. order \in [Rows -> 1..SB!Cardinality(Rows)]  BY <2>2, SameCount DEF SweepTyped, Placings
  <2>4. driver \in [phase: {"idle", "call", "answer", "done"}, cursor: SB!Cursors, first: BOOLEAN,
                    pass: 0..MaxPasses]
    BY <2>1, <2>2 DEF SweepTyped, CountsInv
  <2>5. call.checked \in 0..SB!Cardinality(call.finished)
    <3>1. call.finished \in SUBSET Rows /\ call.checked \in Nat  BY <2>2 DEF Calls
    <3>2. IsFiniteSet(call.finished)  BY <3>1, RowsCounted, FS_Subset
    <3>3. Cardinality(call.finished) \in Nat  BY <3>2, FS_CardinalityType
    <3>4. call.checked <= Cardinality(call.finished)  BY <2>1 DEF OnceInv
    <3>5. QED BY <3>1, <3>3, <3>4, SameCount
  <2>6. spent \in 0..FetchBudget  BY <2>1, <2>2, SweepAssumption DEF SweepTyped, BudgetInv
  <2>7. reserved \in Nat
    <3>1. [v \in Workers |-> worker[v].left] \in [Workers -> 0..PerEntryFetchMax]
          /\ SB!Outstanding = Units([v \in Workers |-> worker[v].left])
      BY <2>1, <2>2, UnitsOfCeilings DEF BudgetInv, SB!Outstanding, SB!Busy
    <3>2. PICK w : w \in Workers \/ Workers = {}  OBVIOUS
    <3>3. Cardinality(SB!Outstanding) \in Nat
      <4>1. CASE w \in Workers  BY <3>1, <4>1, UnitsCounted
      <4>2. CASE Workers = {}
        <5>1. SB!Outstanding = {}  BY <4>2 DEF SB!Outstanding, SB!Busy
        <5>2. QED BY <5>1, FS_EmptySet
      <4>3. QED BY <3>2, <4>1, <4>2
    <3>4. QED BY <2>1, <3>3, SameCount DEF BudgetInv, SB!NotOversubscribed
  <2>8. worker \in [Workers -> [at: {"out", "pull", "check"}, row: Rows \cup {SB!NoRow},
                                left: 0..PerEntryFetchMax, refused: BOOLEAN]]
    <3>1. \A w \in Workers : worker[w].left \in 0..PerEntryFetchMax
      BY <2>1, <2>2, SweepAssumption DEF BudgetInv, Doing
    <3>2. QED BY <2>2, <3>1 DEF Doing
  <2>9. /\ metered \in BOOLEAN /\ stale \subseteq Rows /\ pending \subseteq Rows /\ owed \subseteq Rows
        /\ call.queue \subseteq Rows /\ call.started \subseteq call.queue
        /\ call.finished \subseteq call.started /\ outside \in 0..MaxOutside
    BY <2>1, <2>2 DEF SweepTyped, Calls, OnceInv, CountsInv
  <2>10. QED BY <2>1, <2>3, <2>4, <2>5, <2>6, <2>7, <2>8, <2>9 DEF SB!SweepTypeOK
<1>4. QED BY <1>1, <1>2, <1>3, PTL DEF ServicesSpec

----------------------------------------------------------------------------
(* The leases of the pool's entries (Leases). *)

LeasePlaces == {"idle", "refresh", "stamp", "record", "pick"}

\* A request is a record of its four fields, whatever is in them.
Shape(x) == [at: {x.at}, key: {x.key}, picked: {x.picked}, reported: {x.reported}]

LeaseTyped ==
    /\ DOMAIN req = Requests
    /\ \A r \in Requests :
          /\ req[r] \in Shape(req[r])
          /\ req[r].at \in LeasePlaces /\ req[r].key \in ReadKeys \cup {NoKey}
    /\ lease \in [ReadKeys -> [Accounts -> LE!Absent..LeaseTTL]]
    /\ credit \in [ReadKeys -> [Accounts -> 0..LE!MaxCredit]]

\* The requests that hand e to k and have not booked it yet.
InFlight(k, e) ==
    {r \in Requests : req[r].key = k /\ req[r].at \in {"stamp", "record"} /\ e \in LE!ToSet(req[r].picked)}

\* The releases that may yet come of e by k: one for each answer on its way, one for the lease.
Releasable(k, e) == Cardinality(InFlight(k, e)) + (IF lease[k][e] # LE!Absent THEN 1 ELSE 0)

\* Each of them is covered by a hand-out, or by as many as there can be requests.
Covered ==
    \A k \in ReadKeys, e \in Accounts :
        \/ credit[k][e] >= Releasable(k, e)
        \/ credit[k][e] = LE!MaxCredit /\ credit[k][e] > 0

LeaseInv == LeaseTyped /\ Covered

LEMMA SameCountOfLeases == \A S : LE!Cardinality(S) = Cardinality(S)
  BY DEF LE!Cardinality, Cardinality

LEMMA RequestsCounted ==
    /\ LE!MaxCredit = Cardinality(Requests) /\ LE!MaxCredit \in Nat
    /\ Requests # {} => LE!MaxCredit > 0
    /\ IsFiniteSet(Requests)
<1>1. IsFiniteSet(Requests) /\ LE!MaxCredit = Cardinality(Requests)
  BY LeasesAssumption, SameCountOfLeases DEF LE!MaxCredit
<1>2. Cardinality(Requests) \in Nat /\ (Cardinality(Requests) = 0 <=> Requests = {})
  BY <1>1, FS_CardinalityType, FS_EmptySet
<1>3. QED BY <1>1, <1>2

LEMMA InFlightCounted ==
    ASSUME NEW k, NEW e
    PROVE  IsFiniteSet(InFlight(k, e)) /\ Cardinality(InFlight(k, e)) \in Nat
  BY RequestsCounted, FS_Subset, FS_CardinalityType DEF InFlight

LEMMA LeaseInit == LE!Init => LeaseInv
<1> SUFFICES ASSUME LE!Init  PROVE LeaseInv
  OBVIOUS
<1>a. /\ lease = [k \in ReadKeys |-> [e \in Accounts |-> LE!Absent]]
      /\ credit = [k \in ReadKeys |-> [e \in Accounts |-> 0]]
      /\ req = [r \in Requests |-> LE!Idle]
  BY Zenon DEF LE!Init
<1>1. \A r \in Requests : req[r] = LE!Idle  BY <1>a
<1>2. LeaseTyped
  <2>1. lease \in [ReadKeys -> [Accounts -> LE!Absent..LeaseTTL]]
    BY <1>a, LeasesAssumption DEF LE!Absent
  <2>2. credit \in [ReadKeys -> [Accounts -> 0..LE!MaxCredit]]  BY <1>a, RequestsCounted
  <2>3. QED BY <1>a, <2>1, <2>2 DEF LE!Idle, LeaseTyped, LeasePlaces, Shape
<1>3. ASSUME NEW k \in ReadKeys, NEW e \in Accounts  PROVE credit[k][e] >= Releasable(k, e)
  <2>1. InFlight(k, e) = {}  BY <1>1 DEF InFlight, LE!Idle
  <2>2. Cardinality(InFlight(k, e)) = 0  BY <2>1, FS_EmptySet
  <2>3. lease[k][e] = LE!Absent /\ credit[k][e] = 0  BY <1>a
  <2>4. QED BY <2>2, <2>3 DEF Releasable
<1>4. QED BY <1>2, <1>3 DEF LeaseInv, Covered

\* A request whose answer is not on its way moves, and no lease or credit with it.
LEMMA QuietMove ==
    ASSUME LeaseInv, NEW r \in Requests, NEW rec, req' = [req EXCEPT ![r] = rec],
           rec \in Shape(rec),
           rec.at \in LeasePlaces, rec.key \in ReadKeys \cup {NoKey},
           \/ rec.at \notin {"stamp", "record"}
           \/ rec.key = NoKey
           \/ req[r].at \in {"stamp", "record"} /\ rec.key = req[r].key /\ rec.picked = req[r].picked,
           UNCHANGED <<lease, credit>>
    PROVE  LeaseInv'
<1>1. req'[r] = rec /\ \A q \in Requests \ {r} : req'[q] = req[q]  BY DEF LeaseInv, LeaseTyped
<1>2. LeaseTyped'  BY <1>1 DEF LeaseInv, LeaseTyped
<1>3. ASSUME NEW k \in ReadKeys, NEW e \in Accounts  PROVE InFlight(k, e)' \subseteq InFlight(k, e)
  <2>1. k # NoKey  BY LeasesAssumption
  <2>2. QED BY <1>1, <2>1 DEF InFlight
<1>4. Covered'
  <2>1. SUFFICES ASSUME NEW k \in ReadKeys, NEW e \in Accounts, credit[k][e] >= Releasable(k, e)
                 PROVE  credit'[k][e] >= Releasable(k, e)'
    BY DEF LeaseInv, Covered
  <2>2. /\ Cardinality(InFlight(k, e))' <= Cardinality(InFlight(k, e))
        /\ Cardinality(InFlight(k, e))' \in Nat /\ Cardinality(InFlight(k, e)) \in Nat
    BY <1>3, InFlightCounted, FS_Subset, FS_CardinalityType
  <2>3. credit[k][e] \in Nat  BY RequestsCounted DEF LeaseInv, LeaseTyped
  <2>4. QED BY <2>1, <2>2, <2>3 DEF Releasable
<1>5. QED BY <1>2, <1>4 DEF LeaseInv

\* An account is handed to a key: one more release may come, and one more is credited.
LEMMA HandOut ==
    ASSUME LeaseInv, NEW r \in Requests, req[r].at \notin {"stamp", "record"}, NEW rec,
           req' = [req EXCEPT ![r] = rec],
           rec \in Shape(rec),
           rec.at = "stamp", rec.key \in ReadKeys \cup {NoKey},
           credit' = LE!Credited(rec.key, rec.picked), lease' = lease
    PROVE  LeaseInv'
<1> DEFINE k == rec.key
           picked == LE!ToSet(rec.picked)
<1>1. req'[r] = rec /\ \A q \in Requests \ {r} : req'[q] = req[q]  BY DEF LeaseInv, LeaseTyped
<1>2. \A j \in ReadKeys, e \in Accounts :
          /\ credit[j][e] \in Nat /\ credit[j][e] <= LE!MaxCredit
          /\ credit'[j][e] = IF j = k /\ e \in picked /\ credit[j][e] < LE!MaxCredit
                             THEN credit[j][e] + 1 ELSE credit[j][e]
  BY RequestsCounted, LeasesAssumption DEF LeaseInv, LeaseTyped, LE!Credited
<1>3. credit' \in [ReadKeys -> [Accounts -> 0..LE!MaxCredit]]
  <2>1. CASE k = NoKey  BY <2>1 DEF LE!Credited, LeaseInv, LeaseTyped
  <2>2. CASE k # NoKey
    <3> DEFINE new == [e \in Accounts |-> IF e \in picked /\ credit[k][e] < LE!MaxCredit
                                          THEN credit[k][e] + 1 ELSE credit[k][e]]
    <3>1. credit' = [credit EXCEPT ![k] = new]  BY <2>2 DEF LE!Credited
    <3>2. new \in [Accounts -> 0..LE!MaxCredit]  BY <1>2, <2>2, RequestsCounted
    <3> HIDE DEF new
    <3>3. QED BY <3>1, <3>2 DEF LeaseInv, LeaseTyped
  <2>3. QED BY <2>1, <2>2
<1>4. LeaseTyped'  BY <1>1, <1>3 DEF LeaseInv, LeaseTyped, LeasePlaces
<1>5. ASSUME NEW j \in ReadKeys, NEW e \in Accounts
      PROVE  \/ credit'[j][e] >= Releasable(j, e)'
             \/ credit'[j][e] = LE!MaxCredit /\ credit'[j][e] > 0
  <2>0. Cardinality(InFlight(j, e)) \in Nat /\ IsFiniteSet(InFlight(j, e)) /\ LE!MaxCredit \in Nat
        /\ LE!MaxCredit > 0 /\ credit[j][e] \in Nat
    BY <1>2, InFlightCounted, RequestsCounted
  <2>1. CASE j = k /\ e \in picked
    <3>1. InFlight(j, e)' = InFlight(j, e) \cup {r} /\ r \notin InFlight(j, e)
      BY <1>1, <2>1 DEF InFlight
    <3>2. Cardinality(InFlight(j, e)') = Cardinality(InFlight(j, e)) + 1
      BY <2>0, <3>1, FS_AddElement
    <3>3. CASE credit[j][e] < LE!MaxCredit
      <4>1. credit'[j][e] = credit[j][e] + 1 /\ credit[j][e] >= Releasable(j, e)
        BY <1>2, <2>0, <2>1, <3>3 DEF LeaseInv, Covered
      <4>2. QED BY <2>0, <3>2, <4>1 DEF Releasable
    <3>4. CASE ~(credit[j][e] < LE!MaxCredit)
      BY <1>2, <2>0, <3>4
    <3>5. QED BY <3>3, <3>4
  <2>2. CASE ~(j = k /\ e \in picked)
    <3>1. InFlight(j, e)' = InFlight(j, e)  BY <1>1, <2>2 DEF InFlight
    <3>2. credit'[j][e] = credit[j][e]  BY <1>2, <2>2
    <3>3. QED BY <3>1, <3>2 DEF LeaseInv, Covered, Releasable
  <2>3. QED BY <2>1, <2>2
<1>6. QED BY <1>4, <1>5 DEF LeaseInv, Covered

\* Every step keeps both.
LEMMA LeaseNext == LeaseInv /\ [LE!Next]_(LE!vars) => LeaseInv'
<1> SUFFICES ASSUME LeaseInv, [LE!Next]_(LE!vars)  PROVE LeaseInv'
  OBVIOUS
<1>a. \A r \in Requests :
         /\ req[r] \in Shape(req[r])
         /\ req[r].at \in LeasePlaces /\ req[r].key \in ReadKeys \cup {NoKey}
  BY DEF LeaseInv, LeaseTyped
<1>1. ASSUME NEW r \in Requests, NEW k \in ReadKeys \cup {NoKey}, LE!BeginTidalLease(r, k)  PROVE LeaseInv'
  <2> DEFINE p == LE!Pick(LE!Ordered(lru.account, k), 2 * PerCategory)
             rec == [LE!Idle EXCEPT !.at = "refresh", !.key = k, !.picked = p]
  <2>1. req' = [req EXCEPT ![r] = rec] /\ UNCHANGED <<lease, credit>>
    BY <1>1 DEF LE!BeginTidalLease
  <2> HIDE DEF p
  <2>2. rec \in Shape(rec)
        /\ rec.at = "refresh" /\ rec.key = k
    BY DEF Shape, LE!Idle
  <2> HIDE DEF rec
  <2>3. QED BY <2>1, <2>2, QuietMove DEF LeasePlaces
<1>2. ASSUME NEW r \in Requests, LE!RefreshCandidates(r)  PROVE LeaseInv'
  <2>1. PICK p : /\ req' = [req EXCEPT ![r].at = "stamp", ![r].picked = p]
                 /\ credit' = LE!Credited(req[r].key, p)
    BY <1>2 DEF LE!RefreshCandidates
  <2> DEFINE rec == [req[r] EXCEPT !.at = "stamp", !.picked = p]
  <2>2. req' = [req EXCEPT ![r] = rec]  BY <2>1
  <2>3. rec \in Shape(rec)
        /\ rec.at = "stamp" /\ rec.key = req[r].key /\ rec.picked = p
    BY <1>a DEF Shape
  <2>4. req[r].at = "refresh" /\ lease' = lease  BY <1>2 DEF LE!RefreshCandidates
  <2> HIDE DEF rec
  <2>5. QED BY <1>a, <2>1, <2>2, <2>3, <2>4, HandOut
<1>3. ASSUME NEW r \in Requests, NEW k \in ReadKeys \cup {NoKey}, LE!BeginLease(r, k)  PROVE LeaseInv'
  <2> DEFINE p == LE!Pick(LE!Ordered(lru.account, k), PerCategory)
             rec == [LE!Idle EXCEPT !.at = "stamp", !.key = k, !.picked = p]
  <2>1. req' = [req EXCEPT ![r] = rec] /\ credit' = LE!Credited(k, p) /\ lease' = lease
        /\ req[r].at = "idle"
    BY <1>3 DEF LE!BeginLease
  <2> HIDE DEF p
  <2>2. rec \in Shape(rec)
        /\ rec.at = "stamp" /\ rec.key = k /\ rec.picked = p
    BY DEF Shape, LE!Idle
  <2> HIDE DEF rec
  <2>3. QED BY <2>1, <2>2, HandOut
<1>4. ASSUME NEW r \in Requests, LE!LeaseInstances(r)  PROVE LeaseInv'
  <2> DEFINE p == LE!Pick(LE!Ordered(lru.instance, NoKey), PerCategory)
             rec == [LE!Idle EXCEPT !.at = "stamp", !.picked = p]
  <2>1. req' = [req EXCEPT ![r] = rec] /\ UNCHANGED <<lease, credit>>
    BY <1>4 DEF LE!LeaseInstances
  <2> HIDE DEF p
  <2>2. rec \in Shape(rec)
        /\ rec.at = "stamp" /\ rec.key = NoKey
    BY DEF Shape, LE!Idle
  <2> HIDE DEF rec
  <2>3. QED BY <2>1, <2>2, QuietMove DEF LeasePlaces
<1>5. ASSUME NEW r \in Requests, LE!StampLeases(r)  PROVE LeaseInv'
  <2> DEFINE rec == [req[r] EXCEPT !.at = "record"]
  <2>1. req' = [req EXCEPT ![r].at = "record"] /\ req[r].at = "stamp" /\ UNCHANGED <<lease, credit>>
    BY <1>5 DEF LE!StampLeases
  <2>2. req' = [req EXCEPT ![r] = rec]  BY <2>1
  <2>3. rec \in Shape(rec)
        /\ rec.at = "record" /\ rec.key = req[r].key /\ rec.picked = req[r].picked
    BY <1>a DEF Shape
  <2> HIDE DEF rec
  <2>4. QED BY <1>a, <2>1, <2>2, <2>3, QuietMove DEF LeasePlaces
<1>i. LE!Idle \in Shape(LE!Idle)
      /\ LE!Idle.at = "idle" /\ LE!Idle.key = NoKey
  BY DEF LE!Idle, Shape
<1>6. ASSUME NEW r \in Requests, LE!RecordKeyLeases(r)  PROVE LeaseInv'
  <2>1. req[r].at = "record" /\ req' = [req EXCEPT ![r] = LE!Idle] /\ credit' = credit
    BY <1>6 DEF LE!RecordKeyLeases
  <2>2. CASE lease' = lease
    BY <1>i, <2>1, <2>2, QuietMove DEF LeasePlaces
  <2>3. CASE lease' # lease
    <3> DEFINE k == req[r].key
               picked == LE!ToSet(req[r].picked)
               new == [e \in Accounts |-> IF e \in picked THEN LeaseTTL ELSE lease[k][e]]
    <3>1. lease' = [lease EXCEPT ![k] = new] /\ k # NoKey  BY <1>6, <2>3 DEF LE!RecordKeyLeases
    <3>2. k \in ReadKeys /\ LeaseTTL \in Nat \ {0}  BY <1>a, <3>1, LeasesAssumption
    <3>3. new \in [Accounts -> LE!Absent..LeaseTTL]  BY <3>2 DEF LeaseInv, LeaseTyped, LE!Absent
    <3>4. \A j \in ReadKeys, e \in Accounts :
              lease'[j][e] = IF j = k /\ e \in picked THEN LeaseTTL ELSE lease[j][e]
      BY <3>1, <3>2 DEF LeaseInv, LeaseTyped
    <3> HIDE DEF new
    <3>5. lease' \in [ReadKeys -> [Accounts -> LE!Absent..LeaseTTL]]
      BY <3>1, <3>3 DEF LeaseInv, LeaseTyped
    <3>6. req'[r] = LE!Idle /\ \A q \in Requests \ {r} : req'[q] = req[q]
      BY <2>1 DEF LeaseInv, LeaseTyped
    <3>7. LeaseTyped'  BY <1>i, <2>1, <3>5, <3>6 DEF LeaseInv, LeaseTyped, LeasePlaces
    <3>8. ASSUME NEW j \in ReadKeys, NEW e \in Accounts  PROVE Releasable(j, e)' <= Releasable(j, e)
      <4>0. Cardinality(InFlight(j, e)) \in Nat /\ IsFiniteSet(InFlight(j, e))  BY InFlightCounted
      <4>1. CASE j = k /\ e \in picked
        <5>1. InFlight(j, e)' = InFlight(j, e) \ {r} /\ r \in InFlight(j, e)
          BY <1>i, <2>1, <3>6, <4>1 DEF InFlight
        <5>2. Cardinality(InFlight(j, e)') = Cardinality(InFlight(j, e)) - 1
          BY <4>0, <5>1, FS_RemoveElement
        <5>3. QED BY <4>0, <5>2 DEF Releasable
      <4>2. CASE ~(j = k /\ e \in picked)
        <5>1. InFlight(j, e)' = InFlight(j, e)  BY <1>i, <3>6, <4>2 DEF InFlight
        <5>2. lease'[j][e] = lease[j][e]  BY <3>4, <4>2
        <5>3. QED BY <4>0, <5>1, <5>2 DEF Releasable
      <4>3. QED BY <4>1, <4>2
    <3>9. ASSUME NEW j \in ReadKeys, NEW e \in Accounts, credit[j][e] >= Releasable(j, e)
          PROVE  credit[j][e] >= Releasable(j, e)'
      <4>1. Releasable(j, e) \in Nat  BY InFlightCounted DEF Releasable
      <4>2. IsFiniteSet(InFlight(j, e)') /\ InFlight(j, e)' \subseteq InFlight(j, e)
        <5>1. InFlight(j, e)' \subseteq InFlight(j, e)  BY <1>i, <3>6 DEF InFlight
        <5>2. QED BY <5>1, InFlightCounted, FS_Subset
      <4>3. Releasable(j, e)' \in Nat  BY <4>2, FS_CardinalityType DEF Releasable
      <4>4. credit[j][e] \in Nat  BY RequestsCounted DEF LeaseInv, LeaseTyped
      <4>5. Releasable(j, e)' <= Releasable(j, e)  BY <3>8
      <4> HIDE DEF k, picked
      <4>6. QED BY <3>9, <4>1, <4>3, <4>4, <4>5
    <3>10. Covered'  BY <2>1, <3>9 DEF LeaseInv, Covered
    <3>11. QED BY <3>7, <3>10 DEF LeaseInv
  <2>4. QED BY <2>2, <2>3
<1>7. ASSUME NEW r \in Requests, NEW k \in ReadKeys, NEW e \in Accounts, LE!ReleaseLease(r, k, e)
      PROVE  LeaseInv'
  <2> DEFINE rec == [LE!Idle EXCEPT !.at = "pick", !.key = k, !.reported = e]
  <2>1. /\ req[r].at = "idle" /\ lease[k][e] # LE!Absent /\ req' = [req EXCEPT ![r] = rec]
        /\ credit' = [credit EXCEPT ![k][e] = IF @ > 0 THEN @ - 1 ELSE 0]
        /\ lease' = [lease EXCEPT ![k][e] = LE!Absent]
    BY <1>7 DEF LE!ReleaseLease, LE!Owes
  <2>2. rec \in Shape(rec)
        /\ rec.at = "pick" /\ rec.key = k
    BY DEF Shape, LE!Idle
  <2> HIDE DEF rec
  <2>3. req'[r] = rec /\ \A q \in Requests \ {r} : req'[q] = req[q]  BY <2>1 DEF LeaseInv, LeaseTyped
  <2>4. /\ lease' \in [ReadKeys -> [Accounts -> LE!Absent..LeaseTTL]] /\ lease'[k][e] = LE!Absent
        /\ \A j \in ReadKeys, f \in Accounts : ~(j = k /\ f = e) => lease'[j][f] = lease[j][f]
    BY <2>1, LeasesAssumption DEF LeaseInv, LeaseTyped, LE!Absent
  <2>5. /\ credit' \in [ReadKeys -> [Accounts -> 0..LE!MaxCredit]]
        /\ credit'[k][e] = IF credit[k][e] > 0 THEN credit[k][e] - 1 ELSE 0
        /\ \A j \in ReadKeys, f \in Accounts : ~(j = k /\ f = e) => credit'[j][f] = credit[j][f]
    BY <2>1, RequestsCounted DEF LeaseInv, LeaseTyped
  <2>6. LeaseTyped'  BY <2>1, <2>2, <2>3, <2>4, <2>5 DEF LeaseInv, LeaseTyped, LeasePlaces
  <2>7. \A j \in ReadKeys, f \in Accounts : InFlight(j, f)' = InFlight(j, f) /\ r \notin InFlight(j, f)
    BY <2>1, <2>2, <2>3 DEF InFlight
  <2>8. credit'[k][e] >= Releasable(k, e)'
    <3>1. Cardinality(InFlight(k, e)) \in Nat /\ credit[k][e] \in Nat  BY InFlightCounted, RequestsCounted
      DEF LeaseInv, LeaseTyped
    <3>2. Cardinality(InFlight(k, e)) < LE!MaxCredit
      <4>1. InFlight(k, e) \subseteq Requests \ {r}  BY <2>7 DEF InFlight
      <4>2. Cardinality(Requests \ {r}) = Cardinality(Requests) - 1 /\ IsFiniteSet(Requests \ {r})
        BY RequestsCounted, FS_RemoveElement
      <4>3. Cardinality(InFlight(k, e)) <= Cardinality(Requests \ {r})  BY <4>1, <4>2, FS_Subset
      <4>4. QED BY <3>1, <4>2, <4>3, RequestsCounted
    <3>3. Releasable(k, e)' = Cardinality(InFlight(k, e))
      <4>1. InFlight(k, e)' = InFlight(k, e)  BY <2>7
      <4>2. Releasable(k, e)' = Cardinality(InFlight(k, e)') + 0  BY <2>4 DEF Releasable
      <4>3. QED BY <3>1, <4>1, <4>2
    <3>4. credit[k][e] >= Cardinality(InFlight(k, e)) + 1 \/ (credit[k][e] = LE!MaxCredit /\ credit[k][e] > 0)
      BY <2>1 DEF LeaseInv, Covered, Releasable
    <3>5. QED BY <2>5, <3>1, <3>2, <3>3, <3>4, RequestsCounted
  <2>9. ASSUME NEW j \in ReadKeys, NEW f \in Accounts, ~(j = k /\ f = e)
        PROVE  credit'[j][f] = credit[j][f] /\ Releasable(j, f)' = Releasable(j, f)
    BY <2>4, <2>5, <2>7, <2>9 DEF Releasable
  <2>10. Covered'
    <3>1. SUFFICES ASSUME NEW j \in ReadKeys, NEW f \in Accounts
                   PROVE  \/ credit'[j][f] >= Releasable(j, f)'
                          \/ credit'[j][f] = LE!MaxCredit /\ credit'[j][f] > 0
      BY DEF Covered
    <3>2. CASE j = k /\ f = e  BY <2>8, <3>2
    <3>3. CASE ~(j = k /\ f = e)  BY <2>9, <3>3 DEF LeaseInv, Covered
    <3>4. QED BY <3>2, <3>3
  <2>11. QED BY <2>6, <2>10 DEF LeaseInv
<1>8. ASSUME NEW r \in Requests, LE!DenyReplacement(r)  PROVE LeaseInv'
  BY <1>8, <1>i, QuietMove DEF LE!DenyReplacement, LeasePlaces
<1>9. ASSUME NEW r \in Requests, LE!LeaseReplacement(r)  PROVE LeaseInv'
  <2>1. PICK p : /\ req[r].at = "pick" /\ lease' = lease /\ credit' = LE!Credited(req[r].key, p)
                 /\ req' = [req EXCEPT ![r] = IF p = <<>> THEN LE!Idle
                                              ELSE [@ EXCEPT !.at = "stamp", !.picked = p]]
    BY <1>9 DEF LE!LeaseReplacement
  <2>2. CASE p = <<>>
    <3>1. credit' = credit
      <4>1. LE!ToSet(<<>>) = {}  BY DEF LE!ToSet
      <4>2. \A k \in ReadKeys : credit[k] = [e \in Accounts |-> credit[k][e]]
        BY DEF LeaseInv, LeaseTyped
      <4>3. req[r].key # NoKey => req[r].key \in ReadKeys  BY <1>a
      <4>4. QED BY <2>1, <2>2, <4>1, <4>2, <4>3 DEF LE!Credited, LeaseInv, LeaseTyped
    <3>2. QED BY <1>i, <2>1, <2>2, <3>1, QuietMove DEF LeasePlaces
  <2>3. CASE p # <<>>
    <3> DEFINE rec == [req[r] EXCEPT !.at = "stamp", !.picked = p]
    <3>2. req' = [req EXCEPT ![r] = rec]  BY <2>1, <2>3
    <3>3. rec \in Shape(rec)
          /\ rec.at = "stamp" /\ rec.key = req[r].key /\ rec.picked = p
      BY <1>a DEF Shape
    <3> HIDE DEF rec
    <3>4. QED BY <1>a, <2>1, <3>2, <3>3, HandOut
  <2>4. QED BY <2>2, <2>3
<1>10. CASE LE!Day
  <2>1. /\ lease' = [k \in ReadKeys |-> [e \in Accounts |->
                        IF lease[k][e] > LE!Expired THEN lease[k][e] - 1 ELSE lease[k][e]]]
        /\ UNCHANGED <<req, credit>>
    BY <1>10 DEF LE!Day
  <2>2. \A k \in ReadKeys, e \in Accounts : lease[k][e] \in LE!Absent..LeaseTTL
    BY DEF LeaseInv, LeaseTyped
  <2>3. \A k \in ReadKeys, e \in Accounts :
            /\ lease'[k][e] \in LE!Absent..LeaseTTL
            /\ lease'[k][e] = LE!Absent <=> lease[k][e] = LE!Absent
    BY <2>1, <2>2, LeasesAssumption DEF LE!Absent, LE!Expired
  <2>4. LeaseTyped'
    <3>1. lease' \in [ReadKeys -> [Accounts -> LE!Absent..LeaseTTL]]  BY <2>1, <2>3
    <3>2. QED BY <2>1, <3>1 DEF LeaseInv, LeaseTyped
  <2>5. \A k \in ReadKeys, e \in Accounts : Releasable(k, e)' = Releasable(k, e)
    BY <2>1, <2>3 DEF Releasable, InFlight
  <2>6. QED BY <2>1, <2>4, <2>5 DEF LeaseInv, Covered
<1>11. CASE UNCHANGED <<lease, req, credit>>
  BY <1>11 DEF LeaseInv, LeaseTyped, Covered, Releasable, InFlight
<1>12. ASSUME NEW e, LE!ServableChanges(e) \/ LE!TokenExpires(e)  PROVE LeaseInv'
  BY <1>11, <1>12 DEF LE!ServableChanges, LE!TokenExpires
<1>13. CASE UNCHANGED LE!vars  BY <1>11, <1>13 DEF LE!vars
<1>14. QED
  BY <1>1, <1>2, <1>3, <1>4, <1>5, <1>6, <1>7, <1>8, <1>9, <1>10, <1>12, <1>13
  DEF LE!Next, LE!LeaseBegins, LE!RequestNext

\* However leases and reports of one key overlap and whatever bookkeeping fails: what a key may
\* release, it was handed before, so it is given no more replacements than hand-outs.
THEOREM ReplacementsAreEarned == ServicesSpec => []ReplacementIsEarned
<1>1. ServicesInit => LeaseInv  BY LeaseInit DEF ServicesInit
<1>2. LeaseInv /\ [ServicesNext]_all => LeaseInv'  BY LeaseNext, PartsStep
<1>3. LeaseInv => ReplacementIsEarned
  <2>1. SUFFICES ASSUME LeaseInv, NEW k \in ReadKeys, NEW e \in Accounts, lease[k][e] # LE!Absent
                 PROVE  credit[k][e] > 0
    BY DEF ReplacementIsEarned, LE!ReplacementIsEarned
  <2>2. Cardinality(InFlight(k, e)) \in Nat /\ credit[k][e] \in Nat
    BY <2>1, InFlightCounted, RequestsCounted DEF LeaseInv, LeaseTyped
  <2>3. QED BY <2>1, <2>2 DEF LeaseInv, Covered, Releasable
<1>4. QED BY <1>1, <1>2, <1>3, PTL DEF ServicesSpec

----------------------------------------------------------------------------
(* Signing in (SignIn). *)

SignPlaces == {"idle", "away", "lookup", "insert", "winner", "again", "count", "create", "verify"}
UserRows == [name: Names, github: Identities \cup {SI!NoId}, closed: BOOLEAN, device: BOOLEAN]
Hands == [state: Nat, id: Identities \cup {SI!NoId}, n: Nat, name: Names \cup {""}, known: BOOLEAN]

SignTyped ==
    /\ users \in Seq(UserRows) /\ starts \in Nat
    /\ session \in [SI!Range(BrowserOf) -> Nat]
    /\ \A b \in SI!Range(BrowserOf) : session[b] <= Len(users)
    /\ pc \in [Tabs -> SignPlaces] /\ hand \in [Tabs -> Hands]

\* Where a tab is tells what it holds and why it got there: the names it passed over are
\* taken, and its insert brought no row because the name or the identity has an account.
TabKnows(t) ==
    /\ pc[t] \in {"lookup", "insert", "winner", "again"} <=> hand[t].id # SI!NoId
    /\ pc[t] \in {"count", "create"} => hand[t].name \in Names
    /\ pc[t] = "verify" => hand[t].n \in 1..Len(users)
    /\ pc[t] \in {"insert", "winner"} =>
           /\ hand[t].n >= 1
           /\ \A i \in 1..Len(Candidates[hand[t].id]) :
                 i < hand[t].n => SI!ByName(Candidates[hand[t].id][i]) # {}
    /\ pc[t] = "winner" =>
           /\ hand[t].n <= Len(Candidates[hand[t].id])
           /\ \/ SI!ByName(Candidates[hand[t].id][hand[t].n]) # {}
              \/ SI!ByGithub(hand[t].id) # {}
    /\ pc[t] = "again" => SI!ByGithub(hand[t].id) # {}

SignInv == SignTyped /\ \A t \in Tabs : TabKnows(t)

LEMMA SignConstants ==
    /\ \A t \in Tabs : BrowserOf[t] \in SI!Range(BrowserOf)
    /\ Candidates \in [Identities -> Seq(Names)] /\ SI!NoId \notin Identities /\ Legacy \subseteq Names
  BY SignInAssumption DEF SI!SignInConstants

LEMMA SignInit == SI!Init => SignInv
<1> SUFFICES ASSUME SI!Init  PROVE SignInv
  OBVIOUS
<1>1. /\ session = [b \in SI!Range(BrowserOf) |-> SI!NoId] /\ starts = 0
      /\ pc = [t \in Tabs |-> "idle"] /\ hand = [t \in Tabs |-> SI!NoHand]
  BY DEF SI!Init, SI!Idle
<1>2. users \in Seq(UserRows)
  <2>1. Cardinality(Legacy) \in Nat  BY SignInAssumption, FS_CardinalityType
  <2>2. SI!Cardinality(Legacy) = Cardinality(Legacy)  BY DEF SI!Cardinality, Cardinality
  <2>3. PICK ids \in [1..Cardinality(Legacy) -> Legacy] :
            users = [i \in DOMAIN ids |-> [name |-> ids[i], github |-> SI!NoId, closed |-> FALSE,
                                           device |-> FALSE]]
    BY <2>2 DEF SI!Init
  <2>4. users \in [1..Cardinality(Legacy) -> UserRows]  BY <2>3, SignConstants DEF UserRows
  <2>5. QED BY <2>1, <2>4
<1>a. SI!NoHand \in Hands  BY DEF SI!NoHand, Hands, SI!NoId
<1>b. session \in [SI!Range(BrowserOf) -> Nat] /\ \A b \in SI!Range(BrowserOf) : session[b] <= Len(users)
  <2>1. Len(users) \in Nat  BY <1>2
  <2>2. QED BY <1>1, <2>1 DEF SI!NoId
<1>c. pc \in [Tabs -> SignPlaces] /\ hand \in [Tabs -> Hands]  BY <1>1, <1>a DEF SignPlaces
<1>3. SignTyped  BY <1>1, <1>2, <1>b, <1>c DEF SignTyped
<1>4. \A t \in Tabs : TabKnows(t)  BY <1>1 DEF TabKnows, SI!NoHand
<1>5. QED BY <1>3, <1>4 DEF SignInv

\* Accounts are added and closed; none changes its name or its identity.
UsersGrow ==
    /\ users' \in Seq(UserRows) /\ Len(users) <= Len(users')
    /\ \A n : SI!ByName(n) # {} => SI!ByName(n)' # {}
    /\ \A g : SI!ByGithub(g) # {} => SI!ByGithub(g)' # {}

LEMMA UsersStay == ASSUME SignTyped, users' = users  PROVE UsersGrow
  BY DEF SignTyped, UsersGrow, SI!ByName, SI!ByGithub

LEMMA UserAdded ==
    ASSUME SignTyped, NEW n \in Names, NEW g \in Identities \cup {SI!NoId}, NEW d \in BOOLEAN,
           SI!NewUser(n, g, d)
    PROVE  /\ UsersGrow /\ Len(users') = Len(users) + 1
           /\ users'[Len(users) + 1].github = g
<1> DEFINE row == [name |-> n, github |-> g, closed |-> FALSE, device |-> d]
<1>1. users' = Append(users, row) /\ row \in UserRows /\ row.github = g  BY DEF SI!NewUser, UserRows
<1> HIDE DEF row
<1>2. /\ users \in Seq(UserRows) /\ users' \in Seq(UserRows) /\ Len(users') = Len(users) + 1
      /\ Len(users) \in Nat
      /\ users'[Len(users) + 1] = row /\ \A i \in 1..Len(users) : users'[i] = users[i]
  BY <1>1 DEF SignTyped
<1>3. DOMAIN users = 1..Len(users) /\ DOMAIN users' = 1..Len(users')  BY <1>2
<1>4. \A i \in DOMAIN users : i \in DOMAIN users' /\ users'[i] = users[i]  BY <1>2, <1>3
<1>5. \A m : SI!ByName(m) # {} => SI!ByName(m)' # {}  BY <1>4 DEF SI!ByName
<1>6. \A h : SI!ByGithub(h) # {} => SI!ByGithub(h)' # {}  BY <1>4 DEF SI!ByGithub
<1>7. QED BY <1>1, <1>2, <1>5, <1>6 DEF UsersGrow

LEMMA UserClosed ==
    ASSUME SignTyped, NEW u \in DOMAIN users, users' = [users EXCEPT ![u].closed = TRUE]
    PROVE  UsersGrow
<1> DEFINE row == [users[u] EXCEPT !.closed = TRUE]
<1>1. users \in Seq(UserRows) /\ users[u] \in UserRows  BY DEF SignTyped
<1>2. row \in UserRows /\ row.name = users[u].name /\ row.github = users[u].github
  BY <1>1 DEF UserRows
<1> HIDE DEF row
<1>3. users' = [users EXCEPT ![u] = row]  BY DEF row
<1>4. users' \in Seq(UserRows) /\ Len(users') = Len(users) /\ DOMAIN users' = DOMAIN users
      /\ Len(users) \in Nat
  <2> DEFINE n == Len(users)
  <2>1. n \in Nat /\ users \in [1..n -> UserRows]  BY <1>1
  <2> HIDE DEF n
  <2>2. users' \in [1..n -> UserRows]  BY <1>2, <1>3, <2>1
  <2>3. users' \in Seq(UserRows) /\ Len(users') = n  BY <2>1, <2>2
  <2>4. QED BY <2>1, <2>2, <2>3 DEF n
<1>5. \A i \in DOMAIN users : users'[i].name = users[i].name /\ users'[i].github = users[i].github
  BY <1>2, <1>3
<1>6. \A m : SI!ByName(m)' = SI!ByName(m)  BY <1>4, <1>5 DEF SI!ByName
<1>7. \A h : SI!ByGithub(h)' = SI!ByGithub(h)  BY <1>4, <1>5 DEF SI!ByGithub
<1>8. QED BY <1>4, <1>6, <1>7 DEF UsersGrow

\* A tab that does not move keeps what it knows.
LEMMA TabStays ==
    ASSUME SignInv, UsersGrow, NEW t \in Tabs, pc'[t] = pc[t], hand'[t] = hand[t]
    PROVE  TabKnows(t)'
<1>1. Len(users) \in Nat /\ Len(users') \in Nat /\ Len(users) <= Len(users')
  BY DEF SignInv, SignTyped, UsersGrow
<1>2. \A i : i \in 1..Len(users) => i \in 1..Len(users')  BY <1>1
<1>3. TabKnows(t)  BY DEF SignInv
<1>4. QED BY <1>2, <1>3 DEF TabKnows, UsersGrow

\* A step of one tab: the others stay, and the accounts grow.
LEMMA TabMoves ==
    ASSUME SignInv, UsersGrow, NEW t \in Tabs, NEW p \in SignPlaces, NEW h \in Hands,
           pc' = [pc EXCEPT ![t] = p], hand' = [hand EXCEPT ![t] = h], TabKnows(t)',
           starts' \in Nat,
           \/ session' = session
           \/ \E u \in Nat : u <= Len(users') /\ session' = [session EXCEPT ![BrowserOf[t]] = u]
    PROVE  SignInv'
<1>1. \A s \in Tabs \ {t} : pc'[s] = pc[s] /\ hand'[s] = hand[s]  BY DEF SignInv, SignTyped
<1>2. \A s \in Tabs : TabKnows(s)'  BY <1>1, TabStays
<1>3. pc' \in [Tabs -> SignPlaces] /\ hand' \in [Tabs -> Hands]  BY DEF SignInv, SignTyped
<1>4. /\ session' \in [SI!Range(BrowserOf) -> Nat]
      /\ \A b \in SI!Range(BrowserOf) : session'[b] <= Len(users')
  <2>1. /\ Len(users) \in Nat /\ Len(users') \in Nat /\ Len(users) <= Len(users')
        /\ session \in [SI!Range(BrowserOf) -> Nat]
        /\ \A b \in SI!Range(BrowserOf) : session[b] <= Len(users)
    BY DEF SignInv, SignTyped, UsersGrow
  <2>2. \A b \in SI!Range(BrowserOf) : session[b] <= Len(users')  BY <2>1
  <2>3. QED BY <2>1, <2>2, SignConstants
<1>5. QED BY <1>2, <1>3, <1>4 DEF SignInv, SignTyped, UsersGrow

\* What OwnAccountOrCause says of one tab in one step.
OpensOwn(t) ==
    hand[t].id # SI!NoId /\ session'[BrowserOf[t]] # session[BrowserOf[t]] /\ pc'[t] # pc[t]
        => users'[session'[BrowserOf[t]]].github = hand[t].id
HasCause(t) ==
    hand[t].id # SI!NoId /\ pc[t] # "idle" /\ pc'[t] = "idle" /\ session' = session
        => \/ \E u \in SI!ByGithub(hand[t].id) : u = session[BrowserOf[t]] \/ ~SI!Live(u)
           \/ \A i \in DOMAIN Candidates[hand[t].id] : SI!ByName(Candidates[hand[t].id][i]) # {}
StepOf(t) == SignInv' /\ OpensOwn(t) /\ HasCause(t) /\ \A s \in Tabs \ {t} : pc'[s] = pc[s]

LEMMA NoHandIsHand ==
    SI!NoHand \in Hands /\ SI!NoHand.id = SI!NoId /\ "idle" \in SignPlaces
  BY DEF SI!NoHand, Hands, SI!NoId, SignPlaces

\* A tab is back where it began.
LEMMA TabIdles ==
    ASSUME SignTyped, NEW t \in Tabs, SI!Goto(t, "idle"), hand' = [hand EXCEPT ![t] = SI!NoHand]
    PROVE  TabKnows(t)' /\ pc'[t] = "idle" /\ \A s \in Tabs \ {t} : pc'[s] = pc[s]
  BY NoHandIsHand DEF SignTyped, SI!Goto, TabKnows

LEMMA SignInFails ==
    ASSUME SignInv, NEW t \in Tabs, SI!Fail(t), UNCHANGED <<users, starts>>
    PROVE  /\ SignInv' /\ session' = session /\ pc'[t] = "idle"
           /\ \A s \in Tabs \ {t} : pc'[s] = pc[s]
<1>1. SignTyped /\ starts' \in Nat /\ session' = session /\ SI!Goto(t, "idle")
      /\ hand' = [hand EXCEPT ![t] = SI!NoHand]
  BY DEF SignInv, SignTyped, SI!Fail, SI!Idle
<1>2. TabKnows(t)' /\ pc'[t] = "idle" /\ \A s \in Tabs \ {t} : pc'[s] = pc[s]  BY <1>1, TabIdles
<1>3. UsersGrow  BY <1>1, UsersStay
<1>4. pc' = [pc EXCEPT ![t] = "idle"]  BY <1>1 DEF SI!Goto
<1>5. SignInv'  BY <1>1, <1>2, <1>3, <1>4, NoHandIsHand, TabMoves
<1>6. QED BY <1>1, <1>2, <1>5

LEMMA SignInSucceeds ==
    ASSUME SignInv, UsersGrow, NEW t \in Tabs, NEW u \in Nat, u <= Len(users'), SI!SignedIn(t, u),
           starts' = starts
    PROVE  /\ SignInv' /\ session'[BrowserOf[t]] = u /\ pc'[t] = "idle"
           /\ \A s \in Tabs \ {t} : pc'[s] = pc[s]
<1>1. /\ SignTyped /\ starts' \in Nat /\ SI!Goto(t, "idle")
      /\ session' = [session EXCEPT ![BrowserOf[t]] = u] /\ hand' = [hand EXCEPT ![t] = SI!NoHand]
  BY DEF SignInv, SignTyped, SI!SignedIn, SI!Idle
<1>2. TabKnows(t)' /\ pc'[t] = "idle" /\ \A s \in Tabs \ {t} : pc'[s] = pc[s]  BY <1>1, TabIdles
<1>3. pc' = [pc EXCEPT ![t] = "idle"]  BY <1>1 DEF SI!Goto
<1>4. SignInv'  BY <1>1, <1>2, <1>3, NoHandIsHand, TabMoves
<1>5. session'[BrowserOf[t]] = u  BY <1>1, SignConstants DEF SignTyped
<1>6. QED BY <1>2, <1>4, <1>5

\* A tab goes on with another place and another hand, and nobody is signed in.
LEMMA SignInGoesOn ==
    ASSUME SignInv, NEW t \in Tabs, NEW p \in SignPlaces, NEW h \in Hands, p # "idle",
           SI!Goto(t, p), hand' = [hand EXCEPT ![t] = h], TabKnows(t)', UNCHANGED <<users, session>>,
           starts' \in Nat
    PROVE  StepOf(t)
<1>1. UsersGrow  BY UsersStay DEF SignInv
<1>2. SignInv'  BY <1>1, TabMoves DEF SI!Goto
<1>3. pc'[t] = p /\ \A s \in Tabs \ {t} : pc'[s] = pc[s]  BY DEF SignInv, SignTyped, SI!Goto
<1>4. QED BY <1>2, <1>3 DEF StepOf, OpensOwn, HasCause

\* The steps of a sign-in with GitHub.
LEMMA GithubStep ==
    ASSUME SignInv, NEW t \in Tabs,
           \/ SI!Begin(t) \/ SI!Callback(t) \/ SI!Lookup(t) \/ SI!InsertCandidate(t)
           \/ SI!Winner(t) \/ SI!Again(t)
    PROVE  StepOf(t)
<1> DEFINE g == hand[t].id
           b == BrowserOf[t]
<1>a. /\ SignTyped /\ TabKnows(t) /\ hand[t] \in Hands /\ Len(users) \in Nat /\ DOMAIN users = 1..Len(users)
      /\ starts \in Nat
  BY DEF SignInv, SignTyped
<1>b. \A u \in SI!ByGithub(g) : u \in Nat /\ u <= Len(users) /\ users[u].github = g
  BY <1>a DEF SI!ByGithub
<1>1. CASE SI!Begin(t)
  <2> DEFINE state == starts + 1
             h == [SI!NoHand EXCEPT !.state = state]
  <2>1. SI!Goto(t, "away") /\ hand' = [hand EXCEPT ![t] = h] /\ starts' = state
        /\ UNCHANGED <<users, session>>
    BY <1>1 DEF SI!Begin
  <2>a. state \in Nat  BY <1>a
  <2> HIDE DEF state
  <2>2. h \in Hands /\ h.id = SI!NoId  BY <2>a, NoHandIsHand DEF Hands
  <2> HIDE DEF h
  <2>3. TabKnows(t)'  BY <1>a, <2>1, <2>2 DEF TabKnows, SI!Goto, SignTyped
  <2>4. "away" \in SignPlaces /\ starts' \in Nat  BY <2>1, <2>a DEF SignPlaces
  <2>5. QED BY <2>1, <2>2, <2>3, <2>4, SignInGoesOn
<1>2. CASE SI!Callback(t)
  <2>1. pc[t] = "away" /\ g = SI!NoId /\ UNCHANGED <<users, starts>>  BY <1>2, <1>a DEF SI!Callback, TabKnows
  <2>2. CASE SI!Fail(t)  BY <2>1, <2>2, SignInFails DEF StepOf, OpensOwn, HasCause
  <2>3. CASE ~SI!Fail(t)
    <3>1. PICK i \in Identities : hand' = [hand EXCEPT ![t].id = i]  BY <1>2, <2>3 DEF SI!Callback
    <3> DEFINE h == [hand[t] EXCEPT !.id = i]
    <3>2. hand' = [hand EXCEPT ![t] = h]  BY <3>1
    <3>3. h \in Hands /\ h.id = i /\ i # SI!NoId  BY <1>a, SignConstants DEF Hands
    <3> HIDE DEF h
    <3>4. SI!Goto(t, "lookup") /\ UNCHANGED session  BY <1>2, <2>3 DEF SI!Callback
    <3>5. TabKnows(t)'  BY <1>a, <3>2, <3>3, <3>4 DEF TabKnows, SI!Goto, SignTyped
    <3>6. QED BY <1>a, <2>1, <3>2, <3>3, <3>4, <3>5, SignInGoesOn DEF SignPlaces
  <2>4. QED BY <2>2, <2>3
<1>3. CASE SI!Lookup(t)
  <2>1. pc[t] = "lookup" /\ g # SI!NoId /\ UNCHANGED <<users, starts>> /\ UsersGrow
    BY <1>3, <1>a, UsersStay DEF SI!Lookup, TabKnows
  <2>2. ASSUME NEW u \in SI!ByGithub(g), SI!Live(u), SI!SignedIn(t, u)  PROVE StepOf(t)
    BY <1>b, <2>1, <2>2, SignInSucceeds DEF StepOf, OpensOwn, HasCause
  <2>3. ASSUME NEW u \in SI!ByGithub(g), ~SI!Live(u), SI!Fail(t)  PROVE StepOf(t)
    BY <2>1, <2>3, SignInFails DEF StepOf, OpensOwn, HasCause
  <2>4. ASSUME SI!Goto(t, "insert"), hand' = [hand EXCEPT ![t].n = 1], UNCHANGED session  PROVE StepOf(t)
    <3> DEFINE h == [hand[t] EXCEPT !.n = 1]
    <3>1. hand' = [hand EXCEPT ![t] = h]  BY <2>4
    <3>2. h \in Hands /\ h.id = g /\ h.n = 1  BY <1>a DEF Hands
    <3> HIDE DEF h
    <3>3. pc'[t] = "insert" /\ hand'[t] = h  BY <1>a, <2>4, <3>1 DEF SI!Goto, SignTyped
    <3>4. \A i \in 1..Len(Candidates[g]) : ~(i < 1)  OBVIOUS
    <3>5. TabKnows(t)'  BY <2>1, <3>2, <3>3, <3>4 DEF TabKnows
    <3>6. QED BY <1>a, <2>1, <2>4, <3>1, <3>2, <3>5, SignInGoesOn DEF SignPlaces
  <2>5. QED BY <1>3, <2>2, <2>3, <2>4 DEF SI!Lookup
<1>4. CASE SI!InsertCandidate(t)
  <2>1. /\ pc[t] = "insert" /\ g # SI!NoId /\ g \in Identities /\ starts' = starts
        /\ Candidates[g] \in Seq(Names) /\ hand[t].n \in Nat /\ hand[t].n >= 1
        /\ DOMAIN Candidates[g] = 1..Len(Candidates[g]) /\ Len(Candidates[g]) \in Nat
        /\ \A i \in 1..Len(Candidates[g]) : i < hand[t].n => SI!ByName(Candidates[g][i]) # {}
    <3>1. pc[t] = "insert" /\ starts' = starts  BY <1>4 DEF SI!InsertCandidate
    <3>2. /\ g # SI!NoId /\ hand[t].n >= 1
          /\ \A i \in 1..Len(Candidates[g]) : i < hand[t].n => SI!ByName(Candidates[g][i]) # {}
      BY <1>a, <3>1 DEF TabKnows
    <3>3. g \in Identities /\ hand[t].n \in Nat  BY <1>a, <3>2 DEF Hands
    <3>4. Candidates[g] \in Seq(Names)  BY <3>3, SignConstants
    <3>5. DOMAIN Candidates[g] = 1..Len(Candidates[g]) /\ Len(Candidates[g]) \in Nat  BY <3>4
    <3>6. QED BY <3>1, <3>2, <3>3, <3>4, <3>5
  <2>2. CASE hand[t].n > Len(Candidates[g])
    <3>1. SI!Fail(t) /\ UNCHANGED users  BY <1>4, <2>2 DEF SI!InsertCandidate
    <3>2. \A i \in DOMAIN Candidates[g] : SI!ByName(Candidates[g][i]) # {}  BY <2>1, <2>2
    <3>3. QED BY <2>1, <3>1, <3>2, SignInFails DEF StepOf, OpensOwn, HasCause
  <2>3. CASE ~(hand[t].n > Len(Candidates[g]))
    <3> DEFINE name == Candidates[g][hand[t].n]
    <3>1. name \in Names  BY <2>1, <2>3
    <3>2. CASE SI!ByName(name) = {} /\ SI!ByGithub(g) = {}
      <4>1. SI!NewUser(name, g, TRUE) /\ SI!SignedIn(t, Len(users) + 1)
        BY <1>4, <2>3, <3>2 DEF SI!InsertCandidate
      <4> HIDE DEF name
      <4>2. UsersGrow /\ Len(users') = Len(users) + 1 /\ users'[Len(users) + 1].github = g
        BY <1>a, <2>1, <3>1, <4>1, UserAdded
      <4>3. Len(users) + 1 \in Nat /\ Len(users) + 1 <= Len(users')  BY <1>a, <4>2
      <4>4. /\ SignInv' /\ session'[b] = Len(users) + 1 /\ pc'[t] = "idle"
            /\ \A s \in Tabs \ {t} : pc'[s] = pc[s]
        BY <1>a, <2>1, <4>1, <4>2, <4>3, SignInSucceeds
      <4>5. session[b] \in Nat /\ session[b] <= Len(users)  BY <1>a, SignConstants DEF SignTyped
      <4>6. session' # session  BY <1>a, <4>4, <4>5
      <4>7. QED BY <4>2, <4>4, <4>6 DEF StepOf, OpensOwn, HasCause
    <3>3. CASE ~(SI!ByName(name) = {} /\ SI!ByGithub(g) = {})
      <4>1. SI!Goto(t, "winner") /\ UNCHANGED <<users, session, hand>>
        BY <1>4, <2>3, <3>3 DEF SI!InsertCandidate
      <4>2. hand' = [hand EXCEPT ![t] = hand[t]]  BY <1>a, <4>1 DEF SignTyped
      <4>3. pc'[t] = "winner"  BY <1>a, <4>1 DEF SI!Goto, SignTyped
      <4>4. hand[t].n <= Len(Candidates[g])  BY <2>1, <2>3
      <4>5. TabKnows(t)'
        BY <1>a, <2>1, <3>3, <4>1, <4>3, <4>4 DEF TabKnows, SI!ByName, SI!ByGithub
      <4>6. QED BY <1>a, <2>1, <4>1, <4>2, <4>5, SignInGoesOn DEF SignPlaces
    <3>4. QED BY <3>2, <3>3
  <2>4. QED BY <2>2, <2>3
<1>5. CASE SI!Winner(t)
  <2>1. pc[t] = "winner" /\ g # SI!NoId /\ UNCHANGED <<users, session, starts>>
    BY <1>5, <1>a DEF SI!Winner, TabKnows
  <2>2. CASE SI!ByGithub(g) # {}
    <3>1. SI!Goto(t, "again") /\ hand' = hand  BY <1>5, <2>2 DEF SI!Winner
    <3>2. hand' = [hand EXCEPT ![t] = hand[t]] /\ pc'[t] = "again"
      BY <1>a, <3>1 DEF SI!Goto, SignTyped
    <3>3. TabKnows(t)'  BY <2>1, <2>2, <3>1, <3>2 DEF TabKnows, SI!ByGithub
    <3>4. QED BY <1>a, <2>1, <3>1, <3>2, <3>3, SignInGoesOn DEF SignPlaces
  <2>3. CASE SI!ByGithub(g) = {}
    <3> DEFINE n == hand[t].n + 1
               h == [hand[t] EXCEPT !.n = n]
    <3>1. SI!Goto(t, "insert") /\ hand' = [hand EXCEPT ![t] = h]  BY <1>5, <2>3 DEF SI!Winner
    <3>a. hand[t].n \in Nat /\ n \in Nat
      <4>1. hand[t].n \in Nat  BY <1>a DEF Hands
      <4>2. QED BY <4>1
    <3>2. h \in Hands /\ h.id = g /\ h.n = hand[t].n + 1 /\ hand[t].n \in Nat
      <4> HIDE DEF n
      <4>1. h \in Hands /\ h.id = g /\ h.n = n  BY <1>a, <3>a DEF Hands
      <4>2. QED BY <3>a, <4>1 DEF n
    <3> HIDE DEF h, n
    <3>3. pc'[t] = "insert" /\ hand'[t] = h  BY <1>a, <3>1 DEF SI!Goto, SignTyped
    <3>4. \A i \in 1..Len(Candidates[g]) : i < hand[t].n + 1 => SI!ByName(Candidates[g][i]) # {}
      <4>1. /\ \A i \in 1..Len(Candidates[g]) : i < hand[t].n => SI!ByName(Candidates[g][i]) # {}
            /\ SI!ByName(Candidates[g][hand[t].n]) # {}
        BY <1>a, <2>1, <2>3 DEF TabKnows
      <4>2. QED BY <3>2, <4>1
    <3>5. hand[t].n + 1 >= 1  BY <3>2
    <3>6. TabKnows(t)'  BY <2>1, <3>2, <3>3, <3>4, <3>5 DEF TabKnows, SI!ByName
    <3>7. QED BY <1>a, <2>1, <3>1, <3>2, <3>6, SignInGoesOn DEF SignPlaces
  <2>4. QED BY <2>2, <2>3
<1>6. CASE SI!Again(t)
  <2>1. /\ pc[t] = "again" /\ g # SI!NoId /\ UNCHANGED <<users, starts>> /\ UsersGrow
        /\ SI!ByGithub(g) # {}
    BY <1>6, <1>a, UsersStay DEF SI!Again, TabKnows
  <2>2. ASSUME NEW u \in SI!ByGithub(g), SI!SignedIn(t, u)  PROVE StepOf(t)
    BY <1>b, <2>1, <2>2, SignInSucceeds DEF StepOf, OpensOwn, HasCause
  <2>3. ASSUME ~(\E u \in SI!ByGithub(g) : SI!Live(u)), SI!Fail(t)  PROVE StepOf(t)
    BY <2>1, <2>3, SignInFails DEF StepOf, OpensOwn, HasCause
  <2>4. QED BY <1>6, <2>2, <2>3 DEF SI!Again
<1>7. QED BY <1>1, <1>2, <1>3, <1>4, <1>5, <1>6

\* The steps of a sign-up and of a login with a password, and what a session is used for.
LEMMA PasswordStep ==
    ASSUME SignInv, NEW t \in Tabs,
           \/ SI!Signup(t) \/ SI!CountDevice(t) \/ SI!CreateUser(t) \/ SI!Login(t) \/ SI!Verified(t)
           \/ SI!Logout(t) \/ SI!Me(t)
    PROVE  StepOf(t)
<1>a. /\ SignTyped /\ TabKnows(t) /\ hand[t] \in Hands /\ Len(users) \in Nat /\ DOMAIN users = 1..Len(users)
      /\ starts \in Nat /\ starts + 1 \in Nat
  BY DEF SignInv, SignTyped
<1>1. CASE SI!Signup(t)
  <2>1. PICK n \in Names, kn \in BOOLEAN :
            hand' = [hand EXCEPT ![t] = [SI!NoHand EXCEPT !.name = n, !.known = kn]]
    BY <1>1 DEF SI!Signup
  <2> DEFINE h == [SI!NoHand EXCEPT !.name = n, !.known = kn]
  <2>2. h \in Hands /\ h.id = SI!NoId /\ h.name = n  BY NoHandIsHand DEF Hands
  <2>3. hand' = [hand EXCEPT ![t] = h]  BY <2>1
  <2> HIDE DEF h
  <2>4. SI!Goto(t, "count") /\ UNCHANGED <<users, session>> /\ starts' \in Nat
    BY <1>1, <1>a DEF SI!Signup
  <2>5. TabKnows(t)'  BY <1>a, <2>2, <2>3, <2>4 DEF TabKnows, SI!Goto, SignTyped
  <2>6. QED BY <2>2, <2>3, <2>4, <2>5, SignInGoesOn DEF SignPlaces
<1>2. CASE SI!CountDevice(t)
  <2>1. pc[t] = "count" /\ hand[t].id = SI!NoId /\ UNCHANGED <<users, starts>>
    BY <1>2, <1>a DEF SI!CountDevice, TabKnows
  <2>2. CASE SI!Fail(t)  BY <2>1, <2>2, SignInFails DEF StepOf, OpensOwn, HasCause
  <2>3. CASE ~SI!Fail(t)
    <3>1. SI!Goto(t, "create") /\ UNCHANGED <<hand, session>>  BY <1>2, <2>3 DEF SI!CountDevice
    <3>2. hand' = [hand EXCEPT ![t] = hand[t]] /\ pc'[t] = "create"
      BY <1>a, <3>1 DEF SI!Goto, SignTyped
    <3>3. TabKnows(t)'  BY <1>a, <2>1, <3>1, <3>2 DEF TabKnows
    <3>4. QED BY <1>a, <2>1, <3>1, <3>2, <3>3, SignInGoesOn DEF SignPlaces
  <2>4. QED BY <2>2, <2>3
<1>3. CASE SI!CreateUser(t)
  <2>1. pc[t] = "create" /\ hand[t].id = SI!NoId /\ hand[t].name \in Names /\ starts' = starts
        /\ hand[t].known \in BOOLEAN
    BY <1>3, <1>a DEF SI!CreateUser, TabKnows, Hands
  <2>2. CASE SI!ByName(hand[t].name) = {}
    <3>1. SI!NewUser(hand[t].name, SI!NoId, hand[t].known) /\ SI!SignedIn(t, Len(users) + 1)
      BY <1>3, <2>2 DEF SI!CreateUser
    <3>2. UsersGrow /\ Len(users') = Len(users) + 1  BY <1>a, <2>1, <3>1, UserAdded
    <3>3. Len(users) + 1 \in Nat /\ Len(users) + 1 <= Len(users')  BY <1>a, <3>2
    <3>4. QED BY <2>1, <3>1, <3>2, <3>3, SignInSucceeds DEF StepOf, OpensOwn, HasCause
  <2>3. CASE SI!ByName(hand[t].name) # {}
    <3>1. SI!Fail(t) /\ UNCHANGED users  BY <1>3, <2>3 DEF SI!CreateUser
    <3>2. QED BY <2>1, <3>1, SignInFails DEF StepOf, OpensOwn, HasCause
  <2>4. QED BY <2>2, <2>3
<1>4. CASE SI!Login(t)
  <2>1. PICK u \in DOMAIN users : hand' = [hand EXCEPT ![t] = [SI!NoHand EXCEPT !.n = u]]
    BY <1>4 DEF SI!Login
  <2> DEFINE h == [SI!NoHand EXCEPT !.n = u]
  <2>2. h \in Hands /\ h.id = SI!NoId /\ h.n \in 1..Len(users)
    <3>1. u \in Nat /\ u \in 1..Len(users)  BY <1>a
    <3>2. QED BY <3>1, NoHandIsHand DEF Hands
  <2>3. hand' = [hand EXCEPT ![t] = h]  BY <2>1
  <2> HIDE DEF h
  <2>4. SI!Goto(t, "verify") /\ UNCHANGED <<users, session>> /\ starts' \in Nat
    BY <1>4, <1>a DEF SI!Login
  <2>5. TabKnows(t)'  BY <1>a, <2>2, <2>3, <2>4 DEF TabKnows, SI!Goto, SignTyped
  <2>6. QED BY <2>2, <2>3, <2>4, <2>5, SignInGoesOn DEF SignPlaces
<1>5. CASE SI!Verified(t)
  <2>1. /\ pc[t] = "verify" /\ hand[t].id = SI!NoId /\ hand[t].n \in 1..Len(users)
        /\ UNCHANGED <<users, starts>> /\ SI!SignedIn(t, hand[t].n) /\ UsersGrow
    BY <1>5, <1>a, UsersStay DEF SI!Verified, TabKnows
  <2>2. hand[t].n \in Nat /\ hand[t].n <= Len(users')  BY <1>a, <2>1
  <2>3. QED BY <2>1, <2>2, SignInSucceeds DEF StepOf, OpensOwn, HasCause
<1>6. CASE SI!Logout(t) \/ SI!Me(t)
  <2>1. UNCHANGED <<users, starts, pc, hand>>
    BY <1>6 DEF SI!Logout, SI!Me, SI!tabVars
  <2>2. UsersGrow /\ \A s \in Tabs : TabKnows(s)'
    <3>1. UsersGrow  BY <1>a, <2>1, UsersStay
    <3>2. QED BY <2>1, <3>1, TabStays
  <2>3. /\ session' \in [SI!Range(BrowserOf) -> Nat]
        /\ \A c \in SI!Range(BrowserOf) : session'[c] <= Len(users)
    <3>1. session' = session \/ session' = [session EXCEPT ![BrowserOf[t]] = 0]
      BY <1>6 DEF SI!Logout, SI!Me, SI!NoId
    <3>2. /\ session \in [SI!Range(BrowserOf) -> Nat] /\ 0 <= Len(users)
          /\ \A c \in SI!Range(BrowserOf) : session[c] <= Len(users)
      BY <1>a DEF SignTyped
    <3>3. CASE session' = session  BY <3>2, <3>3
    <3>4. CASE session' = [session EXCEPT ![BrowserOf[t]] = 0]  BY <3>2, <3>4
    <3>5. QED BY <3>1, <3>3, <3>4
  <2>4. SignInv'  BY <1>a, <2>1, <2>2, <2>3 DEF SignInv, SignTyped
  <2>5. QED BY <2>1, <2>4 DEF StepOf, OpensOwn, HasCause
<1>7. QED BY <1>1, <1>2, <1>3, <1>4, <1>5, <1>6

LEMMA SignNext ==
    SignInv /\ [SI!Next]_(SI!vars) => SignInv' /\ \A t \in Tabs : OpensOwn(t) /\ HasCause(t)
<1> SUFFICES ASSUME SignInv, [SI!Next]_(SI!vars)
             PROVE  SignInv' /\ \A t \in Tabs : OpensOwn(t) /\ HasCause(t)
  OBVIOUS
<1>1. ASSUME NEW t \in Tabs, StepOf(t)
      PROVE  SignInv' /\ \A s \in Tabs : OpensOwn(s) /\ HasCause(s)
  <2>1. \A s \in Tabs \ {t} : OpensOwn(s) /\ HasCause(s)
    BY <1>1 DEF StepOf, OpensOwn, HasCause
  <2>2. QED BY <1>1, <2>1 DEF StepOf
<1>2. ASSUME UsersGrow, UNCHANGED <<pc, hand, session, starts>>
      PROVE  SignInv' /\ \A s \in Tabs : OpensOwn(s) /\ HasCause(s)
  <2>1. \A s \in Tabs : TabKnows(s)'  BY <1>2, TabStays
  <2>2. SignTyped'
    <3>1. /\ Len(users) \in Nat /\ Len(users') \in Nat /\ Len(users) <= Len(users') /\ SignTyped
          /\ \A b \in SI!Range(BrowserOf) : session[b] \in Nat /\ session[b] <= Len(users)
      BY <1>2 DEF SignInv, SignTyped, UsersGrow
    <3>2. \A b \in SI!Range(BrowserOf) : session[b] <= Len(users')  BY <3>1
    <3>3. QED BY <1>2, <3>1, <3>2 DEF SignTyped, UsersGrow
  <2>3. QED BY <1>2, <2>1, <2>2 DEF SignInv, OpensOwn, HasCause
<1>3. CASE SI!Close
  <2>1. UsersGrow  BY <1>3, UserClosed DEF SI!Close, SI!Live, SignInv
  <2>2. QED BY <1>2, <1>3, <2>1 DEF SI!Close, SI!tabVars
<1>4. CASE UNCHANGED SI!vars
  <2>1. UsersGrow  BY <1>4, UsersStay DEF SI!vars, SignInv
  <2>2. QED BY <1>2, <1>4, <2>1 DEF SI!vars
<1>5. QED BY <1>1, <1>3, <1>4, GithubStep, PasswordStep DEF SI!Next

\* Whoever GitHub says has come gets their own account or is turned away for a reason, whatever
\* names are taken, however many tabs sign in at once and whoever closes accounts meanwhile.
THEOREM SignInsAreOwn == ServicesSpec => OwnAccountOrCause
<1>1. ServicesInit => SignInv  BY SignInit DEF ServicesInit
<1>2. SignInv /\ [ServicesNext]_all => SignInv' /\ \A t \in Tabs : OpensOwn(t) /\ HasCause(t)
  BY SignNext, PartsStep
<1> DEFINE Own == \A t \in Tabs :
               hand[t].id # SI!NoId /\ session'[BrowserOf[t]] # session[BrowserOf[t]] /\ pc'[t] # pc[t]
                   => users'[session'[BrowserOf[t]]].github = hand[t].id
           Cause == \A t \in Tabs :
               hand[t].id # SI!NoId /\ pc[t] # SI!Idle /\ pc'[t] = SI!Idle /\ session' = session
                   => \/ \E u \in SI!ByGithub(hand[t].id) : u = session[BrowserOf[t]] \/ ~SI!Live(u)
                      \/ \A i \in DOMAIN Candidates[hand[t].id] :
                            SI!ByName(Candidates[hand[t].id][i]) # {}
<1>3. SignInv /\ [ServicesNext]_all => [Own]_(SI!vars) /\ [Cause]_(SI!vars)
  BY <1>2 DEF OpensOwn, HasCause, SI!Idle
<1>4. QED
  BY <1>1, <1>2, <1>3, PTL
  DEF ServicesSpec, OwnAccountOrCause, SI!OwnAccountOrCause, SI!SignedInAsSelf, SI!TurnedAwayForCause

----------------------------------------------------------------------------
(* The health checks (Checks). *)

\* The requests a check of each source makes: the Go server renews no Qobuz login and asks
\* Apple for no stream.
Asked(s) ==
    CASE s \in CH!Instances -> {"health", "probe"}
      [] s = "tidal" -> {"exchange", "session", "refresh", "session2", "subscription"}
      [] s = "qobuz" -> {"user", "secret"} \cup (IF server = "ts" THEN {"renew", "user2", "heal", "secret2"} ELSE {})
      [] s = "apple" -> {"scrape", "account"} \cup (IF server = "ts" THEN {"song1", "song2"} ELSE {})
      [] OTHER -> {"user"}

\* What a check at request a knows, when the requests fl have failed: p was read from an
\* answer that the source gave, and what it asks next has its reason.
Backed(a, p, fl) ==
    /\ source = "tidal" /\ a = "subscription" => p
    /\ source = "qobuz" /\ a \in {"secret", "heal", "secret2"} =>
           IF p THEN seen \cap {"lossless", "expired", "rotated"} # {} ELSE "lossy" \in seen
    /\ source = "qobuz" /\ a = "heal" => ("secret" \in fl \/ "rotated" \in seen)
    /\ source = "apple" /\ a \in {"song1", "song2"} => seen \cap {"lossless", "ended"} # {}

\* VerdictIsEarned of the verdict v.
Earned(v, fl) ==
    /\ v = "dead" =>
        \/ seen \cap {"refusing", "ended"} # {}
        \/ fl \ CH!Aside # {}
        \/ server = "go" /\ seen \cap {"expired", "rotated"} # {}
    /\ v = "alive" /\ source # "amazon" =>
        \/ seen \cap {"lossless", "expired", "rotated"} # {}
        \/ source = "tidal" /\ (fl # {} \/ "refusing" \in seen)
        \/ source = "apple" /\ (fl \cap {"song1", "song2"} # {} \/ "ended" \in seen)
    /\ v = "preview" =>
        \/ "lossy" \in seen
        \/ source \in CH!Instances /\ (fl # {} \/ "refusing" \in seen)
        \/ source = "tidal" /\ {"subscription", "page"} \subseteq fl
        \/ server = "go" /\ source = "tidal" /\ ("subscription" \in fl \/ "refusing" \in seen)

Sound(a, p, v, fl) ==
    /\ a \in Asked(source) \cup {"done"} /\ p \in BOOLEAN
    /\ v # "none" => a = "done"
    /\ Backed(a, p, fl) /\ Earned(v, fl)

CheckInv ==
    /\ server \in {"ts", "go"} /\ source \in Sources
    /\ condition \in seen /\ seen \subseteq CH!Conditions(source)
    /\ source = "apple" => devToken # "expired"
    /\ Sound(at, premium, verdict, failed)

\* What a request may be answered with, and the requests that failed by then.
Heard(r, fl) ==
    \/ r \in CH!Answers(source, at, condition) /\ fl = failed
    \/ r \in CH!FailedAnswers /\ fl = failed \cup CH!Lost(r)

LEMMA CheckConstants == Sources \subseteq CH!Instances \cup CH!Logins /\ DevTokens \subseteq {"none", "good", "expired"}
  BY ChecksAssumption DEF CH!ChecksConstants

LEMMA Spoken ==
    ASSUME NEW v, NEW fl, Earned(v, fl)
    PROVE  Sound(CH!Say(v).at, CH!Say(v).premium, CH!Say(v).verdict, fl)
  BY DEF CH!Say, Sound, Backed

LEMMA Unspoken ==
    ASSUME NEW e \in Asked(source), NEW p \in BOOLEAN, NEW fl, Backed(e, p, fl)
    PROVE  Sound(CH!Ask(e, p).at, CH!Ask(e, p).premium, CH!Ask(e, p).verdict, fl)
  BY DEF CH!Ask, Sound, Earned

\* Fields a check looks for: a refusal and a request that failed in transit have none of them.
Bare(r) == \A f \in {"user", "hires", "token", "signed", "active", "kbps", "ended", "status", "ok"} : ~CH!Has(r, f)

LEMMA BareAnswers ==
    /\ \A r \in CH!Garbage :
          /\ Bare(r) /\ r.http \in {0, 503, 429, 200} /\ ~CH!Json(r)
          /\ (CH!Ok(r) <=> r.http = 200) /\ (r = CH!None <=> r.http = 0)
    /\ \A r \in {[http |-> 401], [http |-> 403], [http |-> 404]} :
          Bare(r) /\ r.http \in {401, 403, 404} /\ ~CH!Ok(r) /\ r # CH!None /\ ~CH!Json(r)
<1>1. \A r \in CH!Garbage : Bare(r)  BY DEF CH!Garbage, CH!None, Bare, CH!Has
<1>2. \A r \in CH!Garbage :
          /\ r.http \in {0, 503, 429, 200} /\ ~CH!Json(r)
          /\ (CH!Ok(r) <=> r.http = 200) /\ (r = CH!None <=> r.http = 0)
  BY DEF CH!Garbage, CH!None, CH!Json, CH!Ok, CH!Has
<1>3. \A r \in {[http |-> 401], [http |-> 403], [http |-> 404]} : Bare(r)  BY DEF Bare, CH!Has
<1>4. \A r \in {[http |-> 401], [http |-> 403], [http |-> 404]} :
          r.http \in {401, 403, 404} /\ ~CH!Ok(r) /\ r # CH!None /\ ~CH!Json(r)
  BY DEF CH!None, CH!Json, CH!Ok, CH!Has
<1>5. QED BY <1>1, <1>2, <1>3, <1>4

\* What an account's answer about its user says, whoever the provider.
LEMMA UserAnswer ==
    ASSUME NEW h \in BOOLEAN, NEW u \in BOOLEAN, NEW r, r = [http |-> 200, user |-> u, hires |-> h]
    PROVE  /\ CH!Ok(r) /\ r.http = 200 /\ r # CH!None /\ CH!Has(r, "user") /\ CH!Has(r, "hires")
           /\ r.user = u /\ r.hires = h
  BY DEF CH!Ok, CH!None, CH!Has

LEMMA TokenAnswer ==
    ASSUME NEW t \in BOOLEAN, NEW r, r = [http |-> 200, token |-> t] \/ r = [token |-> t]
    PROVE  CH!Has(r, "token") /\ r.token = t
  BY DEF CH!Has

\* A request for a token gets none, is refused, or fails.
LEMMA TokenHears ==
    ASSUME CheckInv, \/ source = "tidal" /\ at \in {"exchange", "refresh"}
                     \/ source = "qobuz" /\ at = "renew",
           NEW r, NEW fl, Heard(r, fl)
    PROVE  \/ fl = failed /\ CH!Has(r, "token") /\ r.token = (condition # "refusing")
           \/ fl = failed \cup CH!Lost(r) /\ ~CH!Has(r, "token")
<1>1. CASE r \in CH!FailedAnswers /\ fl = failed \cup CH!Lost(r)
  BY <1>1 DEF CH!FailedAnswers, CH!None, CH!Has
<1>2. CASE r \in CH!Answers(source, at, condition) /\ fl = failed
  <2>1. source # "api" /\ source \notin CH!Instances  BY DEF CH!Instances
  <2>2. CASE condition = "refusing"
    <3>1. r = [http |-> 200, token |-> FALSE]  BY <1>2, <2>1, <2>2 DEF CH!Answers
    <3>2. QED BY <1>2, <2>2, <3>1, TokenAnswer
  <2>3. CASE condition # "refusing"
    <3>1. r = [http |-> 200, token |-> TRUE]  BY <1>2, <2>1, <2>3 DEF CH!Answers
    <3>2. QED BY <1>2, <2>3, <3>1, TokenAnswer
  <2>4. QED BY <2>2, <2>3
<1>3. QED BY <1>1, <1>2 DEF Heard

\* What the account of a service with expiring logins says when it is asked about its user.
LEMMA LoginHears ==
    ASSUME CheckInv, \/ source = "tidal" /\ at \in {"session", "session2", "subscription"}
                     \/ source = "qobuz" /\ at \in {"user", "user2"},
           NEW r, NEW fl, Heard(r, fl)
    PROVE  \/ /\ fl = failed /\ r \in {[http |-> 401], [http |-> 403]}
              /\ condition = "refusing" \/ (condition = "expired" /\ at \in {"session", "user"} /\ r = [http |-> 401])
           \/ /\ fl = failed /\ condition \in {"lossless", "expired", "rotated"}
              /\ r = [http |-> 200, user |-> TRUE, hires |-> TRUE]
           \/ /\ fl = failed /\ condition = "lossy"
              /\ r = [http |-> 200, user |-> TRUE, hires |-> FALSE]
           \/ fl = failed \cup CH!Lost(r) /\ r \in CH!Garbage
<1>1. CASE r \in CH!FailedAnswers /\ fl = failed \cup CH!Lost(r)
  BY <1>1 DEF CH!FailedAnswers
<1>2. CASE r \in CH!Answers(source, at, condition) /\ fl = failed
  <2>1. source # "api" /\ source \notin CH!Instances /\ source \notin {"deezer", "amazon", "apple"}  BY DEF CH!Instances
  <2>2. CASE condition = "expired" /\ at \in {"session", "user"}  BY <1>2, <2>1, <2>2 DEF CH!Answers
  <2>3. CASE condition = "refusing"  BY <1>2, <2>1, <2>3 DEF CH!Answers
  <2>4. CASE condition # "refusing" /\ ~(condition = "expired" /\ at \in {"session", "user"})
    <3>1. condition \in {"lossless", "expired", "rotated", "lossy"}  BY <2>4 DEF CheckInv, CH!Conditions
    <3>2. r = [http |-> 200, user |-> TRUE, hires |-> CH!HiRes(condition)]  BY <1>2, <2>1, <2>4 DEF CH!Answers
    <3>3. CASE condition = "lossy"
      <4>1. CH!HiRes(condition) = FALSE  BY <3>3 DEF CH!HiRes
      <4>2. QED BY <1>2, <3>2, <3>3, <4>1
    <3>4. CASE condition \in {"lossless", "expired", "rotated"}
      <4>1. CH!HiRes(condition) = TRUE  BY <3>4 DEF CH!HiRes
      <4>2. QED BY <1>2, <3>2, <3>4, <4>1
    <3>5. QED BY <3>1, <3>3, <3>4
  <2>5. QED BY <2>2, <2>3, <2>4
<1>3. QED BY <1>1, <1>2 DEF Heard

LEMMA TidalSound ==
    ASSUME CheckInv, source = "tidal", at # "done", NEW r, NEW fl, Heard(r, fl), NEW n,
           \/ server = "ts" /\ n = CH!checkTidalAccount(at, r, premium)
           \/ server = "go" /\ n = CH!GoTidalAccount(at, r, premium)
    PROVE  Sound(n.at, n.premium, n.verdict, fl)
<1>1. /\ Asked(source) = {"exchange", "session", "refresh", "session2", "subscription"} /\ at \in Asked(source)
      /\ condition \in seen /\ condition \in {"lossless", "lossy", "refusing", "expired"}
      /\ at = "subscription" => premium = TRUE
  BY DEF CheckInv, Sound, Asked, CH!Instances, CH!Conditions, Backed
<1>a. \A a, p : a # "subscription" \/ p => Backed(a, p, fl)  BY DEF Backed
<1>2. CASE at \in {"exchange", "refresh"}
  <2>1. \/ fl = failed /\ CH!Has(r, "token") /\ r.token = (condition # "refusing")
        \/ fl = failed \cup CH!Lost(r) /\ ~CH!Has(r, "token")
    BY <1>2, TokenHears
  <2>2. \/ n = CH!Ask("session", FALSE) \/ n = CH!Ask("session2", FALSE)
        \/ n = CH!Say("pending")
        \/ n = CH!Say("dead") /\ (condition = "refusing" \/ (server = "go" /\ fl = failed \cup CH!Lost(r)))
    BY <1>2, <2>1 DEF CH!checkTidalAccount, CH!GoTidalAccount
  <2>3. Earned("pending", fl)  BY DEF Earned
  <2>4. condition = "refusing" \/ (server = "go" /\ fl = failed \cup CH!Lost(r)) => Earned("dead", fl)
    BY <1>1, <1>2 DEF Earned, CH!Aside, CH!Lost
  <2>5. QED BY <1>1, <1>a, <2>2, <2>3, <2>4, Spoken, Unspoken
<1>3. CASE at \in {"session", "session2", "subscription"}
  <2>1. CASE /\ fl = failed /\ r \in {[http |-> 401], [http |-> 403]}
             /\ condition = "refusing" \/ (condition = "expired" /\ at \in {"session", "user"} /\ r = [http |-> 401])
    <3>1. Bare(r) /\ r.http \in {401, 403} /\ ~CH!Ok(r) /\ r # CH!None  BY <2>1, BareAnswers
    <3>2. \/ n = CH!Ask("refresh", FALSE)
          \/ n = CH!Say("dead") /\ condition = "refusing"
          \/ n = CH!Say("alive") /\ condition = "refusing"
          \/ n = CH!Say("preview") /\ condition = "refusing" /\ server = "go"
      <4>1. CASE at = "session" /\ r.http = 401  BY <3>1, <4>1 DEF CH!checkTidalAccount, CH!GoTidalAccount
      <4>2. CASE at = "session" /\ r.http # 401
        <5>1. condition = "refusing"  BY <2>1, <4>2
        <5>2. QED BY <3>1, <4>2, <5>1 DEF CH!checkTidalAccount, CH!GoTidalAccount
      <4>3. CASE at = "session2"  BY <2>1, <3>1, <4>3 DEF CH!checkTidalAccount, CH!GoTidalAccount
      <4>4. CASE at = "subscription"
        BY <1>1, <2>1, <3>1, <4>4 DEF CH!checkTidalAccount, CH!GoTidalAccount, CH!classify, Bare
      <4>5. QED BY <1>3, <4>1, <4>2, <4>3, <4>4
    <3>3. condition = "refusing" => /\ Earned("dead", fl) /\ Earned("alive", fl)
                                    /\ server = "go" => Earned("preview", fl)
      BY <1>1 DEF Earned
    <3>4. QED BY <1>1, <1>a, <3>2, <3>3, Spoken, Unspoken
  <2>3. ASSUME NEW h \in BOOLEAN, fl = failed, r = [http |-> 200, user |-> TRUE, hires |-> h],
               (h = TRUE /\ condition \in {"lossless", "expired", "rotated"}) \/ (h = FALSE /\ condition = "lossy")
        PROVE  Sound(n.at, n.premium, n.verdict, fl)
    <3>1. /\ CH!Ok(r) /\ r.http = 200 /\ r # CH!None /\ CH!Has(r, "user") /\ CH!Has(r, "hires") /\ r.hires = h
      <4>1. CASE h = TRUE  BY <2>3, <4>1 DEF CH!Ok, CH!None, CH!Has
      <4>2. CASE h = FALSE  BY <2>3, <4>2 DEF CH!Ok, CH!None, CH!Has
      <4>3. QED BY <2>3, <4>1, <4>2
    <3>2. \/ n = CH!Ask("subscription", TRUE)
          \/ n = CH!Say("alive") /\ h = TRUE
          \/ n = CH!Say("preview") /\ h = FALSE
      <4>1. CASE at \in {"session", "session2"}
        <5>1. r.http # 401  BY <3>1
        <5>2. CASE at = "session"  BY <3>1, <5>1, <5>2 DEF CH!checkTidalAccount, CH!GoTidalAccount
        <5>3. CASE at = "session2"  BY <3>1, <5>3 DEF CH!checkTidalAccount, CH!GoTidalAccount
        <5>4. QED BY <4>1, <5>2, <5>3
      <4>2. CASE at = "subscription"
        BY <2>3, <3>1, <4>2 DEF CH!checkTidalAccount, CH!GoTidalAccount, CH!classify
      <4>3. QED BY <1>3, <4>1, <4>2
    <3>3. (h = TRUE => Earned("alive", fl)) /\ (h = FALSE => Earned("preview", fl))
      BY <1>1, <2>3 DEF Earned
    <3>4. QED BY <1>1, <1>a, <3>2, <3>3, Spoken, Unspoken
  <2>4. CASE fl = failed \cup CH!Lost(r) /\ r \in CH!Garbage
    <3>1. Bare(r) /\ r.http # 401 /\ (r = CH!None => ~CH!Ok(r))  BY <2>4, BareAnswers
    <3>2. \/ (n = CH!Say("dead") /\ at # "subscription") \/ n = CH!Say("alive")
          \/ n = CH!Say("preview") /\ at = "subscription" /\ (server = "go" \/ CH!Ok(r))
      BY <1>1, <1>3, <3>1 DEF CH!checkTidalAccount, CH!GoTidalAccount, CH!classify, Bare
    <3>3. /\ at # "subscription" => Earned("dead", fl)
          /\ Earned("alive", fl)
          /\ at = "subscription" /\ (server = "go" \/ CH!Ok(r)) => Earned("preview", fl)
      BY <1>3, <2>4 DEF Earned, CH!Aside, CH!Lost
    <3>4. QED BY <3>2, <3>3, Spoken
  <2>5. CASE /\ fl = failed /\ condition \in {"lossless", "expired", "rotated"}
             /\ r = [http |-> 200, user |-> TRUE, hires |-> TRUE]
    BY <2>3, <2>5
  <2>6. CASE fl = failed /\ condition = "lossy" /\ r = [http |-> 200, user |-> TRUE, hires |-> FALSE]
    BY <2>3, <2>6
  <2>7. QED BY <1>3, <2>1, <2>4, <2>5, <2>6, LoginHears
<1>4. QED BY <1>1, <1>2, <1>3

\* What an answer to a signed request, or none, is taken for.
LEMMA SecretHears ==
    ASSUME CheckInv, source = "qobuz", at \in {"secret", "secret2"}, NEW r, NEW fl, Heard(r, fl)
    PROVE  /\ CH!checkQobuzAppSecret(r) \in BOOLEAN
           /\ CH!GoQobuzAppSecret(r) = CH!checkQobuzAppSecret(r)
           /\ ~CH!checkQobuzAppSecret(r) =>
                  \/ fl = failed \cup CH!Lost(r)
                  \/ fl = failed /\ condition = "rotated" /\ at = "secret"
           /\ fl \in {failed, failed \cup CH!Lost(r)}
<1>a. CH!GoQobuzAppSecret(r) = CH!checkQobuzAppSecret(r)  BY DEF CH!GoQobuzAppSecret, CH!checkQobuzAppSecret
<1>1. CASE r \in CH!FailedAnswers /\ fl = failed \cup CH!Lost(r)
  <2>1. r \in CH!Garbage  BY <1>1 DEF CH!FailedAnswers
  <2>2. Bare(r)  BY <2>1, BareAnswers
  <2>3. CH!checkQobuzAppSecret(r) \in BOOLEAN  BY <2>2 DEF CH!checkQobuzAppSecret, Bare
  <2>4. QED BY <1>1, <1>a, <2>3
<1>2. CASE r \in CH!Answers(source, at, condition) /\ fl = failed
  <2>1. source # "api" /\ source \notin CH!Instances  BY DEF CH!Instances
  <2>2. CASE condition = "rotated" /\ at = "secret"
    <3>1. r = [http |-> 200, signed |-> FALSE]  BY <1>2, <2>1, <2>2 DEF CH!Answers
    <3>2. CH!Has(r, "signed") /\ r.signed = FALSE  BY <3>1 DEF CH!Has
    <3>3. CH!checkQobuzAppSecret(r) = FALSE  BY <3>2 DEF CH!checkQobuzAppSecret
    <3>4. QED BY <1>2, <1>a, <2>2, <3>3
  <2>3. CASE ~(condition = "rotated" /\ at = "secret")
    <3>1. r = [http |-> 200, signed |-> TRUE]  BY <1>2, <2>1, <2>3 DEF CH!Answers
    <3>2. CH!Has(r, "signed") /\ r.signed = TRUE /\ r # CH!None  BY <3>1 DEF CH!Has, CH!None
    <3>3. CH!checkQobuzAppSecret(r) = TRUE  BY <3>2 DEF CH!checkQobuzAppSecret
    <3>4. QED BY <1>2, <1>a, <3>3
  <2>4. QED BY <2>2, <2>3
<1>3. QED BY <1>1, <1>2 DEF Heard

\* A fresh app secret is found only if the entry's was rotated.
LEMMA HealHears ==
    ASSUME CheckInv, source = "qobuz", at = "heal", NEW r, NEW fl, Heard(r, fl)
    PROVE  \/ fl = failed /\ CH!Has(r, "token") /\ r.token = TRUE
           \/ fl = failed /\ CH!Has(r, "token") /\ r.token = FALSE /\ "rotated" \notin seen
           \/ fl = failed \cup CH!Lost(r) /\ ~CH!Has(r, "token")
<1>1. CASE r \in CH!FailedAnswers /\ fl = failed \cup CH!Lost(r)
  BY <1>1 DEF CH!FailedAnswers, CH!None, CH!Has
<1>2. CASE r \in CH!Answers(source, at, condition) /\ fl = failed
  <2>1. source # "api" /\ source \notin CH!Instances  BY DEF CH!Instances
  <2>2. CASE "rotated" \in seen
    <3>1. r = [http |-> 200, token |-> TRUE]  BY <1>2, <2>1, <2>2 DEF CH!Answers
    <3>2. QED BY <1>2, <3>1, TokenAnswer
  <2>3. CASE "rotated" \notin seen
    <3>1. r = [http |-> 200, token |-> "rotated" \in seen]  BY <1>2, <2>1 DEF CH!Answers
    <3>2. ("rotated" \in seen) = FALSE  BY <2>3
    <3>3. r = [http |-> 200, token |-> FALSE]  BY <3>1, <3>2
    <3>4. QED BY <1>2, <2>3, <3>3, TokenAnswer
  <2>4. QED BY <2>2, <2>3
<1>3. QED BY <1>1, <1>2 DEF Heard

LEMMA QobuzSound ==
    ASSUME CheckInv, source = "qobuz", at # "done", NEW r, NEW fl, Heard(r, fl), NEW n,
           \/ server = "ts" /\ n = CH!checkQobuzAccount(at, r, premium)
           \/ server = "go" /\ n = CH!GoQobuzAccount(at, r, premium)
    PROVE  Sound(n.at, n.premium, n.verdict, fl)
<1>1. /\ at \in Asked(source)
      /\ at \in {"user", "secret"} \/ (server = "ts" /\ at \in {"renew", "user2", "heal", "secret2"})
      /\ {"user", "secret"} \subseteq Asked(source)
      /\ server = "ts" => {"renew", "user2", "heal", "secret2"} \subseteq Asked(source)
      /\ condition \in seen /\ condition \in {"lossless", "lossy", "refusing", "expired", "rotated"}
      /\ server \in {"ts", "go"} /\ premium \in BOOLEAN
  BY DEF CheckInv, Sound, Asked, CH!Instances, CH!Conditions
<1>2. at \in {"secret", "heal", "secret2"} =>
          IF premium THEN seen \cap {"lossless", "expired", "rotated"} # {} ELSE "lossy" \in seen
  BY DEF CheckInv, Sound, Backed
<1>3. at = "heal" => ("secret" \in failed \/ "rotated" \in seen)  BY DEF CheckInv, Sound, Backed
<1>4. \A p : Backed("renew", p, fl) /\ Backed("user2", p, fl)  BY DEF Backed
<1>5. CASE at \in {"user", "user2"}
  <2>1. CASE /\ fl = failed /\ r \in {[http |-> 401], [http |-> 403]}
             /\ condition = "refusing" \/ (condition = "expired" /\ at \in {"session", "user"} /\ r = [http |-> 401])
    <3>1. Bare(r) /\ r.http \in {401, 403} /\ ~CH!Ok(r)  BY <2>1, BareAnswers
    <3>2. \/ server = "ts" /\ n = CH!Ask("renew", FALSE)
          \/ n = CH!Say("dead") /\ (condition = "refusing" \/ (condition = "expired" /\ server = "go"))
      <4>1. CASE server = "ts" /\ at = "user"  BY <3>1, <4>1 DEF CH!checkQobuzAccount
      <4>2. CASE server = "ts" /\ at = "user2"  BY <2>1, <3>1, <4>2 DEF CH!checkQobuzAccount
      <4>3. CASE server = "go"  BY <1>1, <1>5, <2>1, <3>1, <4>3 DEF CH!GoQobuzAccount
      <4>4. QED BY <1>1, <1>5, <4>1, <4>2, <4>3
    <3>3. condition = "refusing" \/ (condition = "expired" /\ server = "go") => Earned("dead", fl)
      BY <1>1 DEF Earned
    <3>4. QED BY <1>1, <1>4, <3>2, <3>3, Spoken, Unspoken
  <2>2. ASSUME NEW h \in BOOLEAN, fl = failed, r = [http |-> 200, user |-> TRUE, hires |-> h],
               (h = TRUE /\ condition \in {"lossless", "expired", "rotated"}) \/ (h = FALSE /\ condition = "lossy")
        PROVE  Sound(n.at, n.premium, n.verdict, fl)
    <3>1. CH!Ok(r) /\ r.http = 200 /\ CH!Has(r, "user") /\ r.hires = h
      <4>1. CASE h = TRUE  BY <2>2, <4>1 DEF CH!Ok, CH!Has
      <4>2. CASE h = FALSE  BY <2>2, <4>2 DEF CH!Ok, CH!Has
      <4>3. QED BY <2>2, <4>1, <4>2
    <3>2. n = CH!Ask("secret", h)
      <4>1. r.http \notin {401, 403}  BY <3>1
      <4>2. CASE server = "ts" /\ at = "user"  BY <3>1, <4>1, <4>2 DEF CH!checkQobuzAccount
      <4>3. CASE server = "ts" /\ at = "user2"  BY <3>1, <4>3 DEF CH!checkQobuzAccount
      <4>4. CASE server = "go"  BY <1>1, <1>5, <3>1, <4>4 DEF CH!GoQobuzAccount
      <4>5. QED BY <1>1, <1>5, <4>2, <4>3, <4>4
    <3>3. Backed("secret", h, fl)  BY <1>1, <2>2 DEF Backed
    <3>4. QED BY <1>1, <2>2, <3>2, <3>3, Unspoken
  <2>3. CASE fl = failed \cup CH!Lost(r) /\ r \in CH!Garbage
    <3>1. Bare(r) /\ r.http \notin {401, 403}  BY <2>3, BareAnswers
    <3>2. n = CH!Say("dead")
      <4>1. CASE server = "ts"  BY <1>5, <3>1, <4>1 DEF CH!checkQobuzAccount, Bare
      <4>2. CASE server = "go"  BY <1>1, <1>5, <3>1, <4>2 DEF CH!GoQobuzAccount, Bare
      <4>3. QED BY <1>1, <4>1, <4>2
    <3>3. Earned("dead", fl)  BY <1>5, <2>3 DEF Earned, CH!Aside, CH!Lost
    <3>4. QED BY <3>2, <3>3, Spoken
  <2>4. CASE /\ fl = failed /\ condition \in {"lossless", "expired", "rotated"}
             /\ r = [http |-> 200, user |-> TRUE, hires |-> TRUE]
    BY <2>2, <2>4
  <2>5. CASE fl = failed /\ condition = "lossy" /\ r = [http |-> 200, user |-> TRUE, hires |-> FALSE]
    BY <2>2, <2>5
  <2>6. QED BY <1>5, <2>1, <2>3, <2>4, <2>5, LoginHears
<1>6. CASE at = "renew"
  <2>1. server = "ts"  BY <1>1, <1>6
  <2>2. \/ fl = failed /\ CH!Has(r, "token") /\ r.token = (condition # "refusing")
        \/ fl = failed \cup CH!Lost(r) /\ ~CH!Has(r, "token")
    BY <1>6, TokenHears
  <2>3. \/ n = CH!Ask("user2", FALSE) \/ n = CH!Say("pending")
        \/ n = CH!Say("dead") /\ condition = "refusing"
    BY <1>6, <2>1, <2>2 DEF CH!checkQobuzAccount
  <2>4. Earned("pending", fl) /\ (condition = "refusing" => Earned("dead", fl))  BY <1>1 DEF Earned
  <2>5. QED BY <1>1, <1>4, <2>1, <2>3, <2>4, Spoken, Unspoken
<1>7. CASE at \in {"secret", "secret2"}
  <2> DEFINE ok == CH!checkQobuzAppSecret(r)
  <2>1. /\ ok \in BOOLEAN /\ CH!GoQobuzAppSecret(r) = ok /\ fl \in {failed, failed \cup CH!Lost(r)}
        /\ ~ok => \/ fl = failed \cup CH!Lost(r)
                  \/ fl = failed /\ condition = "rotated" /\ at = "secret"
    BY <1>7, SecretHears
  <2>2. \/ n = CH!classify(premium)
        \/ ~ok /\ server = "ts" /\ at = "secret" /\ n = CH!Ask("heal", premium)
        \/ ~ok /\ ~(server = "ts" /\ at = "secret") /\ n = CH!Say("dead")
    <3> HIDE DEF ok
    <3>1. CASE server = "ts"
      <4>1. at = "secret" => n = IF ok THEN CH!classify(premium) ELSE CH!Ask("heal", premium)
        BY <3>1 DEF CH!checkQobuzAccount, ok
      <4>2. at = "secret2" => n = IF ok THEN CH!classify(premium) ELSE CH!Say("dead")
        BY <3>1 DEF CH!checkQobuzAccount, ok
      <4>3. QED BY <1>7, <2>1, <3>1, <4>1, <4>2
    <3>2. CASE server = "go"
      <4>1. n = IF ok THEN CH!classify(premium) ELSE CH!Say("dead")
        BY <1>7, <2>1, <3>2 DEF CH!GoQobuzAccount
      <4>2. QED BY <2>1, <3>2, <4>1
    <3>3. QED BY <1>1, <3>1, <3>2
  <2> HIDE DEF ok
  <2>3. CASE n = CH!classify(premium)
    <3>1. CASE premium = TRUE
      <4>1. n = CH!Say("alive")  BY <2>3, <3>1 DEF CH!classify
      <4>2. Earned("alive", fl)  BY <1>2, <1>7, <3>1 DEF Earned
      <4>3. QED BY <4>1, <4>2, Spoken
    <3>2. CASE premium = FALSE
      <4>1. n = CH!Say("preview")  BY <2>3, <3>2 DEF CH!classify
      <4>2. Earned("preview", fl)  BY <1>2, <1>7, <3>2 DEF Earned
      <4>3. QED BY <4>1, <4>2, Spoken
    <3>3. QED BY <1>1, <3>1, <3>2
  <2>4. CASE ~ok /\ server = "ts" /\ at = "secret" /\ n = CH!Ask("heal", premium)
    <3>1. Backed("heal", premium, fl)  BY <1>1, <1>2, <1>7, <2>1, <2>4 DEF Backed, CH!Lost
    <3>2. QED BY <1>1, <2>4, <3>1, Unspoken
  <2>5. CASE ~ok /\ ~(server = "ts" /\ at = "secret") /\ n = CH!Say("dead")
    <3>1. Earned("dead", fl)  BY <1>1, <1>7, <2>1, <2>5 DEF Earned, CH!Aside, CH!Lost
    <3>2. QED BY <2>5, <3>1, Spoken
  <2>6. QED BY <2>2, <2>3, <2>4, <2>5
<1>8. CASE at = "heal"
  <2>1. server = "ts"  BY <1>1, <1>8
  <2>2. \/ fl = failed /\ CH!Has(r, "token") /\ r.token = TRUE
        \/ fl = failed /\ CH!Has(r, "token") /\ r.token = FALSE /\ "rotated" \notin seen
        \/ fl = failed \cup CH!Lost(r) /\ ~CH!Has(r, "token")
    BY <1>8, HealHears
  <2>3. \/ n = CH!Ask("secret2", premium)
        \/ n = CH!Say("dead") /\ (("rotated" \notin seen /\ fl = failed) \/ fl = failed \cup CH!Lost(r))
    BY <1>8, <2>1, <2>2 DEF CH!checkQobuzAccount
  <2>4. ("rotated" \notin seen /\ fl = failed) \/ fl = failed \cup CH!Lost(r) => Earned("dead", fl)
    BY <1>3, <1>8 DEF Earned, CH!Aside, CH!Lost
  <2>5. Backed("secret2", premium, fl)  BY <1>2, <1>8 DEF Backed
  <2>6. QED BY <1>1, <2>1, <2>3, <2>4, <2>5, Spoken, Unspoken
<1>9. QED BY <1>1, <1>5, <1>6, <1>7, <1>8

\* What Apple says of the subscription and of a song.
LEMMA AppleHears ==
    ASSUME CheckInv, source = "apple", at \in {"account", "song1", "song2"}, NEW r, NEW fl, Heard(r, fl)
    PROVE  \/ fl = failed /\ r \in {[http |-> 401], [http |-> 403]} /\ condition = "refusing"
           \/ /\ fl = failed /\ at = "account" /\ condition \in {"lossless", "ended"}
              /\ r = [http |-> 200, active |-> TRUE]
           \/ fl = failed /\ at = "account" /\ condition = "lossy" /\ r = [http |-> 200, active |-> FALSE]
           \/ /\ fl = failed /\ at \in {"song1", "song2"} /\ condition = "ended"
              /\ r = [http |-> 200, ended |-> TRUE, kbps |-> 0]
           \/ /\ fl = failed /\ at \in {"song1", "song2"} /\ condition \in {"lossless", "lossy"}
              /\ \E k \in {IF condition = "lossless" THEN 1411 ELSE 256, 0} :
                    r = [http |-> 200, ended |-> FALSE, kbps |-> k]
           \/ fl = failed \cup CH!Lost(r) /\ r \in CH!Garbage
<1>1. CASE r \in CH!FailedAnswers /\ fl = failed \cup CH!Lost(r)
  BY <1>1 DEF CH!FailedAnswers
<1>2. CASE r \in CH!Answers(source, at, condition) /\ fl = failed
  <2>1. source # "api" /\ source \notin CH!Instances /\ source \notin {"deezer", "amazon"}  BY DEF CH!Instances
  <2>2. condition \in {"lossless", "lossy", "refusing", "ended"}  BY DEF CheckInv, CH!Conditions
  <2>3. CASE condition = "refusing"  BY <1>2, <2>1, <2>3 DEF CH!Answers
  <2>4. CASE condition # "refusing" /\ at = "account"
    <3>0. r = [http |-> 200, active |-> condition # "lossy"]  BY <1>2, <2>1, <2>4 DEF CH!Answers
    <3>1. CASE condition = "lossy"
      <4>1. (condition # "lossy") = FALSE  BY <3>1
      <4>2. r = [http |-> 200, active |-> FALSE]  BY <3>0, <4>1
      <4>3. QED BY <1>2, <2>4, <3>1, <4>2
    <3>2. CASE condition # "lossy"
      <4>1. (condition # "lossy") = TRUE  BY <3>2
      <4>2. r = [http |-> 200, active |-> TRUE]  BY <3>0, <4>1
      <4>3. QED BY <1>2, <2>2, <2>4, <3>2, <4>2
    <3>3. QED BY <3>1, <3>2
  <2>5. CASE condition = "ended" /\ at # "account"  BY <1>2, <2>1, <2>5 DEF CH!Answers
  <2>6. CASE condition \in {"lossless", "lossy"} /\ at # "account"
    <3>1. r \in {[http |-> 200, ended |-> FALSE, kbps |-> k] : k \in {IF CH!HiRes(condition) THEN 1411 ELSE 256, 0}}
      BY <1>2, <2>1, <2>6 DEF CH!Answers
    <3>2. CH!HiRes(condition) <=> condition = "lossless"  BY <2>6 DEF CH!HiRes
    <3>3. PICK k \in {IF CH!HiRes(condition) THEN 1411 ELSE 256, 0} : r = [http |-> 200, ended |-> FALSE, kbps |-> k]
      BY <3>1
    <3> DEFINE S == {IF condition = "lossless" THEN 1411 ELSE 256, 0}
    <3>4. k \in S  BY <3>2, <3>3
    <3>5. \E j \in S : r = [http |-> 200, ended |-> FALSE, kbps |-> j]
      <4> HIDE DEF S
      <4> QED BY <3>3, <3>4
    <3>6. at \in {"song1", "song2"}  BY <2>6
    <3>7. QED BY <1>2, <2>6, <3>5, <3>6
  <2>7. QED BY <2>2, <2>3, <2>4, <2>5, <2>6
<1>3. QED BY <1>1, <1>2 DEF Heard

\* A song is worth a verdict only when it is served, or when the session has ended.
LEMMA PlaybackSound ==
    ASSUME CheckInv, source = "apple", at \in {"song1", "song2"}, server = "ts", NEW r, NEW fl, Heard(r, fl),
           NEW n, n = CH!probeAppleWebPlayback(at, r)
    PROVE  Sound(n.at, n.premium, n.verdict, fl)
<1>1. condition \in seen /\ seen \cap {"lossless", "ended"} # {} /\ {"song1", "song2"} \subseteq Asked(source)
  BY DEF CheckInv, Sound, Backed, Asked, CH!Instances
<1>2. Backed("song2", TRUE, fl) /\ Earned("pending", fl) /\ Earned("alive", fl)
  BY <1>1 DEF Backed, Earned
<1>3. CASE fl = failed /\ r \in {[http |-> 401], [http |-> 403]} /\ condition = "refusing"
  <2>1. Bare(r) /\ r.http \in {401, 403} /\ ~CH!Ok(r) /\ r # CH!None  BY <1>3, BareAnswers
  <2>2. r.http # 429 /\ r.http < 500  BY <2>1
  <2>3. n = CH!Say("dead")  BY <2>1, <2>2 DEF CH!probeAppleWebPlayback
  <2>4. Earned("dead", fl)  BY <1>1, <1>3 DEF Earned
  <2>5. QED BY <2>3, <2>4, Spoken
<1>4. CASE fl = failed /\ condition = "ended" /\ r = [http |-> 200, ended |-> TRUE, kbps |-> 0]
  <2>1. CH!Ok(r) /\ r # CH!None /\ CH!Has(r, "kbps") /\ r.kbps = 0 /\ CH!Has(r, "ended") /\ r.ended = TRUE
    BY <1>4 DEF CH!Ok, CH!None, CH!Has
  <2>2. ~(r.kbps > 0)  BY <2>1
  <2>3. n = CH!Say("dead")  BY <2>1, <2>2 DEF CH!probeAppleWebPlayback
  <2>4. Earned("dead", fl)  BY <1>1, <1>4 DEF Earned
  <2>5. QED BY <2>3, <2>4, Spoken
<1>5. CASE /\ fl = failed /\ condition \in {"lossless", "lossy"}
           /\ \E k \in {IF condition = "lossless" THEN 1411 ELSE 256, 0} :
                 r = [http |-> 200, ended |-> FALSE, kbps |-> k]
  <2>a. PICK k \in {IF condition = "lossless" THEN 1411 ELSE 256, 0} : r = [http |-> 200, ended |-> FALSE, kbps |-> k]
    BY <1>5
  <2>b. k \in {1411, 256, 0} /\ (k = 1411 => condition = "lossless") /\ (k = 256 => condition = "lossy")
    BY <1>5, <2>a
  <2>1. CH!Ok(r) /\ r # CH!None /\ CH!Has(r, "kbps") /\ r.kbps = k /\ CH!Has(r, "ended") /\ r.ended = FALSE
    BY <2>a DEF CH!Ok, CH!None, CH!Has
  <2>2. CASE k = 1411
    <3>1. n = CH!Say("alive")  BY <2>1, <2>2 DEF CH!probeAppleWebPlayback, CH!classify
    <3>2. QED BY <1>2, <3>1, Spoken
  <2>3. CASE k = 256
    <3>1. n = CH!Say("preview")  BY <2>1, <2>3 DEF CH!probeAppleWebPlayback, CH!classify
    <3>2. Earned("preview", fl)  BY <1>1, <2>b, <2>3 DEF Earned
    <3>3. QED BY <3>1, <3>2, Spoken
  <2>4. CASE k = 0
    <3>1. ~(r.kbps > 0)  BY <2>1, <2>4
    <3>2. n = CH!Ask("song2", TRUE) \/ n = CH!Say("alive")  BY <2>1, <3>1 DEF CH!probeAppleWebPlayback
    <3>3. QED BY <1>1, <1>2, <3>2, Spoken, Unspoken
  <2>5. QED BY <2>b, <2>2, <2>3, <2>4
<1>6. CASE fl = failed \cup CH!Lost(r) /\ r \in CH!Garbage
  <2>1. Bare(r) /\ r.http \in {0, 503, 429, 200} /\ (CH!Ok(r) <=> r.http = 200) /\ (r = CH!None <=> r.http = 0)
    BY <1>6, BareAnswers
  <2>2. r # CH!None => CH!Ok(r) \/ r.http = 429 \/ ~(r.http < 500)  BY <2>1
  <2>3. ~CH!Has(r, "kbps") /\ ~CH!Has(r, "ended")  BY <2>1 DEF Bare
  <2>4. n = CH!Ask("song2", TRUE) \/ n = CH!Say("alive") \/ n = CH!Say("pending")
    BY <2>2, <2>3 DEF CH!probeAppleWebPlayback
  <2>5. QED BY <1>1, <1>2, <2>4, Spoken, Unspoken
<1>7. QED BY <1>3, <1>4, <1>5, <1>6, AppleHears

LEMMA AppleSound ==
    ASSUME CheckInv, source = "apple", at \notin {"done", "scrape"}, NEW r, NEW fl, Heard(r, fl), NEW n,
           \/ server = "ts" /\ n = CH!checkAppleMusicAccount(at, r)
           \/ server = "go" /\ n = CH!GoAppleMusicAccount(at, r)
    PROVE  Sound(n.at, n.premium, n.verdict, fl)
<1>1. /\ at = "account" \/ (server = "ts" /\ at \in {"song1", "song2"})
      /\ server = "ts" => "song1" \in Asked(source)
      /\ condition \in seen /\ server \in {"ts", "go"}
  BY DEF CheckInv, Sound, Asked, CH!Instances
<1>2. Earned("pending", fl)  BY DEF Earned
<1>3. CASE at \in {"song1", "song2"}
  <2>1. server = "ts" /\ n = CH!probeAppleWebPlayback(at, r)
    BY <1>1, <1>3 DEF CH!checkAppleMusicAccount
  <2>2. QED BY <1>3, <2>1, PlaybackSound
<1>4. CASE at = "account"
  <2>1. CASE fl = failed /\ r \in {[http |-> 401], [http |-> 403]} /\ condition = "refusing"
    <3>1. ~CH!Ok(r) /\ r # CH!None  BY <2>1, BareAnswers
    <3>2. n = CH!Say("dead")  BY <1>4, <3>1 DEF CH!checkAppleMusicAccount, CH!GoAppleMusicAccount
    <3>3. Earned("dead", fl)  BY <1>1, <2>1 DEF Earned
    <3>4. QED BY <3>2, <3>3, Spoken
  <2>2. CASE fl = failed /\ condition \in {"lossless", "ended"} /\ r = [http |-> 200, active |-> TRUE]
    <3>1. CH!Ok(r) /\ r # CH!None /\ CH!Has(r, "active") /\ r.active = TRUE /\ r # [http |-> 200, doc |-> "text"]
      BY <2>2 DEF CH!Ok, CH!None, CH!Has
    <3>2. \/ n = CH!Ask("song1", TRUE) /\ server = "ts"
          \/ n = CH!Say("alive")
      BY <1>4, <3>1 DEF CH!checkAppleMusicAccount, CH!GoAppleMusicAccount, CH!appleSubscriptionVerdict, CH!classify
    <3>3. Earned("alive", fl) /\ Backed("song1", TRUE, fl)  BY <1>1, <2>2 DEF Earned, Backed
    <3>4. QED BY <1>1, <3>2, <3>3, Spoken, Unspoken
  <2>3. CASE fl = failed /\ condition = "lossy" /\ r = [http |-> 200, active |-> FALSE]
    <3>1. CH!Ok(r) /\ r # CH!None /\ CH!Has(r, "active") /\ r.active = FALSE /\ r # [http |-> 200, doc |-> "text"]
      BY <2>3 DEF CH!Ok, CH!None, CH!Has
    <3>2. n = CH!Say("preview")
      BY <1>4, <3>1 DEF CH!checkAppleMusicAccount, CH!GoAppleMusicAccount, CH!appleSubscriptionVerdict, CH!classify
    <3>3. Earned("preview", fl)  BY <1>1, <2>3 DEF Earned
    <3>4. QED BY <3>2, <3>3, Spoken
  <2>4. CASE fl = failed \cup CH!Lost(r) /\ r \in CH!Garbage
    <3>1. Bare(r)  BY <2>4, BareAnswers
    <3>2. n = CH!Say("pending") \/ n = CH!Say("dead")
      BY <1>4, <3>1 DEF CH!checkAppleMusicAccount, CH!GoAppleMusicAccount, CH!appleSubscriptionVerdict, Bare
    <3>3. Earned("dead", fl)  BY <1>4, <2>4 DEF Earned, CH!Aside, CH!Lost
    <3>4. QED BY <1>2, <3>2, <3>3, Spoken
  <2>5. QED BY <1>4, <2>1, <2>2, <2>3, <2>4, AppleHears
<1>5. QED BY <1>1, <1>3, <1>4

\* Deezer says who a login's user is, Amazon's session is looked at.
LEMMA UserHears ==
    ASSUME CheckInv, source \in {"deezer", "amazon"}, at = "user", NEW r, NEW fl, Heard(r, fl)
    PROVE  \/ fl = failed /\ condition = "refusing" /\ r = [http |-> 200, user |-> FALSE, hires |-> FALSE]
           \/ fl = failed /\ condition = "lossless" /\ r = [http |-> 200, user |-> TRUE, hires |-> TRUE]
           \/ fl = failed /\ condition = "lossy" /\ r = [http |-> 200, user |-> TRUE, hires |-> FALSE]
           \/ fl = failed \cup CH!Lost(r) /\ r \in CH!Garbage
<1>1. CASE r \in CH!FailedAnswers /\ fl = failed \cup CH!Lost(r)
  BY <1>1 DEF CH!FailedAnswers
<1>2. CASE r \in CH!Answers(source, at, condition) /\ fl = failed
  <2>1. source # "api" /\ source \notin CH!Instances /\ source # "apple"  BY DEF CH!Instances
  <2>2. condition \in {"lossless", "lossy", "refusing"}  BY DEF CheckInv, CH!Conditions
  <2>3. CASE condition = "refusing"  BY <1>2, <2>1, <2>3 DEF CH!Answers
  <2>4. CASE condition # "refusing"
    <3>1. r = [http |-> 200, user |-> TRUE, hires |-> CH!HiRes(condition)]  BY <1>2, <2>1, <2>2, <2>4 DEF CH!Answers
    <3>2. CASE condition = "lossy"
      <4>1. CH!HiRes(condition) = FALSE  BY <3>2 DEF CH!HiRes
      <4>2. QED BY <1>2, <3>1, <3>2, <4>1
    <3>3. CASE condition = "lossless"
      <4>1. CH!HiRes(condition) = TRUE  BY <3>3 DEF CH!HiRes
      <4>2. QED BY <1>2, <3>1, <3>3, <4>1
    <3>4. QED BY <2>2, <2>4, <3>2, <3>3
  <2>5. QED BY <2>3, <2>4
<1>3. QED BY <1>1, <1>2 DEF Heard

LEMMA DeezerSound ==
    ASSUME CheckInv, source = "deezer", at # "done", NEW r, NEW fl, Heard(r, fl), NEW n,
           n = CH!checkDeezerAccount(r) \/ n = CH!GoDeezerAccount(r)
    PROVE  Sound(n.at, n.premium, n.verdict, fl)
<1>1. at = "user" /\ condition \in seen  BY DEF CheckInv, Sound, Asked, CH!Instances
<1>2. CASE fl = failed /\ condition = "refusing" /\ r = [http |-> 200, user |-> FALSE, hires |-> FALSE]
  <2>1. r.user = FALSE  BY <1>2
  <2>2. n = CH!Say("dead")  BY <2>1 DEF CH!checkDeezerAccount, CH!GoDeezerAccount
  <2>3. Earned("dead", fl)  BY <1>1, <1>2 DEF Earned
  <2>4. QED BY <2>2, <2>3, Spoken
<1>3. CASE fl = failed /\ condition = "lossless" /\ r = [http |-> 200, user |-> TRUE, hires |-> TRUE]
  <2>1. CH!Ok(r) /\ CH!Has(r, "user") /\ r.user = TRUE /\ r.hires = TRUE  BY <1>3 DEF CH!Ok, CH!Has
  <2>2. n = CH!Say("alive")  BY <2>1 DEF CH!checkDeezerAccount, CH!GoDeezerAccount, CH!classify
  <2>3. Earned("alive", fl)  BY <1>1, <1>3 DEF Earned
  <2>4. QED BY <2>2, <2>3, Spoken
<1>4. CASE fl = failed /\ condition = "lossy" /\ r = [http |-> 200, user |-> TRUE, hires |-> FALSE]
  <2>1. CH!Ok(r) /\ CH!Has(r, "user") /\ r.user = TRUE /\ r.hires = FALSE  BY <1>4 DEF CH!Ok, CH!Has
  <2>2. n = CH!Say("preview")  BY <2>1 DEF CH!checkDeezerAccount, CH!GoDeezerAccount, CH!classify
  <2>3. Earned("preview", fl)  BY <1>1, <1>4 DEF Earned
  <2>4. QED BY <2>2, <2>3, Spoken
<1>5. CASE fl = failed \cup CH!Lost(r) /\ r \in CH!Garbage
  <2>1. ~CH!Has(r, "user")  BY <1>5, BareAnswers DEF Bare
  <2>2. n = CH!Say("dead")  BY <2>1 DEF CH!checkDeezerAccount, CH!GoDeezerAccount
  <2>3. Earned("dead", fl)  BY <1>1, <1>5 DEF Earned, CH!Aside, CH!Lost
  <2>4. QED BY <2>2, <2>3, Spoken
<1>6. QED BY <1>1, <1>2, <1>3, <1>4, <1>5, UserHears

LEMMA AmazonSound ==
    ASSUME CheckInv, source = "amazon", at # "done", NEW r, r \in CH!Answers(source, at, condition), NEW n,
           n = CH!checkAmazonMusicAccount(r) \/ n = CH!GoAmazonMusicAccount(r)
    PROVE  Sound(n.at, n.premium, n.verdict, failed)
<1>1. at = "user" /\ condition \in seen  BY DEF CheckInv, Sound, Asked, CH!Instances
<1>2. Heard(r, failed) /\ source \notin CH!Instances  BY DEF Heard, CH!Instances
<1>3. source # "api" /\ source # "apple" /\ condition \in {"lossless", "lossy", "refusing"}
  BY DEF CheckInv, CH!Conditions
<1>4. CASE condition = "refusing"
  <2>1. r = [http |-> 200, user |-> FALSE, hires |-> FALSE]  BY <1>1, <1>2, <1>3, <1>4 DEF CH!Answers
  <2>2. r.user = FALSE  BY <2>1
  <2>3. n = CH!Say("dead")  BY <2>2 DEF CH!checkAmazonMusicAccount, CH!GoAmazonMusicAccount
  <2>4. Earned("dead", failed)  BY <1>1, <1>4 DEF Earned
  <2>5. QED BY <2>3, <2>4, Spoken
<1>5. CASE condition # "refusing"
  <2>1. r = [http |-> 200, user |-> TRUE, hires |-> CH!HiRes(condition)]  BY <1>1, <1>2, <1>3, <1>5 DEF CH!Answers
  <2>2. r.user = TRUE  BY <2>1
  <2>3. n = CH!Say("alive")  BY <2>2 DEF CH!checkAmazonMusicAccount, CH!GoAmazonMusicAccount
  <2>4. Earned("alive", failed)  BY DEF Earned
  <2>5. QED BY <2>3, <2>4, Spoken
<1>6. QED BY <1>4, <1>5

\* A probe's answer, whatever the instance: hi-res markers are seen only in a lossless one.
LEMMA ProbeSound ==
    ASSUME CheckInv, source \in CH!Instances, NEW r, NEW fl,
           CH!Has(r, "hires") => r.hires \in BOOLEAN,
           CH!Has(r, "hires") /\ r.hires = TRUE => condition = "lossless",
           condition \in {"lossy", "refusing"} \/ fl # {} \/ (CH!Has(r, "hires") /\ r.hires = TRUE)
    PROVE  LET n == CH!classify(CH!Has(r, "hires") /\ r.hires) IN Sound(n.at, n.premium, n.verdict, fl)
<1>1. condition \in seen  BY DEF CheckInv
<1>2. CASE CH!Has(r, "hires") /\ r.hires = TRUE
  <2>1. CH!classify(CH!Has(r, "hires") /\ r.hires) = CH!Say("alive")  BY <1>2 DEF CH!classify
  <2>2. Earned("alive", fl)  BY <1>1, <1>2 DEF Earned
  <2>3. QED BY <2>1, <2>2, Spoken
<1>3. CASE ~(CH!Has(r, "hires") /\ r.hires = TRUE)
  <2>1. CH!classify(CH!Has(r, "hires") /\ r.hires) = CH!Say("preview")  BY <1>3 DEF CH!classify
  <2>2. Earned("preview", fl)  BY <1>1, <1>3 DEF Earned
  <2>3. QED BY <2>1, <2>2, Spoken
<1>4. QED BY <1>2, <1>3

LEMMA ApiSound ==
    ASSUME CheckInv, source = "api", at # "done", NEW r, NEW fl, Heard(r, fl), NEW n,
           n = CH!checkApi(at, r) \/ n = CH!checkAPI(at, r)
    PROVE  Sound(n.at, n.premium, n.verdict, fl)
<1>1. /\ source \in CH!Instances /\ condition \in {"lossless", "lossy", "refusing"}
      /\ at \in {"health", "probe"} /\ "probe" \in Asked(source)
  BY DEF CheckInv, Sound, Asked, CH!Instances, CH!Conditions
<1>2. n = CH!checkApi(at, r)  BY DEF CH!checkAPI
<1>3. Backed("probe", FALSE, fl)  BY DEF Backed
<1>4. CASE r \in CH!FailedAnswers /\ fl = failed \cup CH!Lost(r)
  <2>1. r \in CH!Garbage  BY <1>1, <1>4 DEF CH!FailedAnswers
  <2>2. ~CH!Has(r, "hires")  BY <2>1, BareAnswers DEF Bare
  <2>3. CASE at = "health"
    <3>1. n = CH!Say("dead") \/ n = CH!Ask("probe", FALSE)  BY <1>2, <2>3 DEF CH!checkApi
    <3>2. Earned("dead", fl)  BY <1>4, <2>3 DEF Earned, CH!Aside, CH!Lost
    <3>3. QED BY <1>1, <1>3, <3>1, <3>2, Spoken, Unspoken
  <2>4. CASE at = "probe"
    <3>1. n = CH!classify(CH!Has(r, "hires") /\ r.hires)  BY <1>2, <2>4 DEF CH!checkApi
    <3>2. fl # {}  BY <1>4 DEF CH!Lost
    <3>3. QED BY <1>1, <2>2, <3>1, <3>2, ProbeSound
  <2>5. QED BY <1>1, <2>3, <2>4
<1>5. CASE r \in CH!Answers(source, at, condition) /\ fl = failed
  <2>1. r = [http |-> IF condition = "refusing" THEN 404 ELSE 200, doc |-> "text", hires |-> condition = "lossless"]
    BY <1>5 DEF CH!Answers
  <2>2. /\ r # CH!None /\ r.http \in {404, 200} /\ CH!Has(r, "hires")
        /\ r.hires = (condition = "lossless")
    BY <2>1 DEF CH!None, CH!Has
  <2>3. CASE at = "health"
    <3>1. ~(r.http >= 500)  BY <2>2
    <3>2. n = CH!Ask("probe", FALSE)  BY <1>2, <2>2, <2>3, <3>1 DEF CH!checkApi
    <3>3. QED BY <1>1, <1>3, <3>2, Unspoken
  <2>4. CASE at = "probe"
    <3>1. n = CH!classify(CH!Has(r, "hires") /\ r.hires)  BY <1>2, <2>4 DEF CH!checkApi
    <3>2. r.hires \in BOOLEAN /\ (r.hires = TRUE <=> condition = "lossless")  BY <2>2
    <3>3. QED BY <1>1, <2>2, <3>1, <3>2, ProbeSound
  <2>5. QED BY <1>1, <2>3, <2>4
<1>6. QED BY <1>4, <1>5 DEF Heard

\* What an instance's health document leads to, once it says nothing against it.
LEMMA CapabilitySound ==
    ASSUME CheckInv, source \in CH!Instances, NEW r, NEW fl, CH!Has(r, "hires"),
           r.hires \in BOOLEAN, r.hires = TRUE <=> condition = "lossless",
           NEW n \in CH!Capability(r)
    PROVE  Sound(n.at, n.premium, n.verdict, fl)
<1>1. /\ condition \in {"lossless", "lossy", "refusing"} /\ "probe" \in Asked(source)
  BY DEF CheckInv, Asked, CH!Instances, CH!Conditions
<1>2. Backed("probe", FALSE, fl)  BY DEF Backed, CH!Instances
<1>3. CASE n = CH!Ask("probe", FALSE)  BY <1>1, <1>2, <1>3, Unspoken
<1>4. CASE n = CH!classify(r.hires)
  <2>1. n = CH!classify(CH!Has(r, "hires") /\ r.hires)  BY <1>4 DEF CH!classify
  <2>2. QED BY <1>1, <2>1, ProbeSound
<1>5. QED BY <1>3, <1>4 DEF CH!Capability

LEMMA AmazonInstanceSound ==
    ASSUME CheckInv, source = "amazonInstance", at # "done", NEW r, NEW fl, Heard(r, fl), NEW n,
           n \in CH!checkAmazonMusicInstance(at, r) \/ n \in CH!GoAmazonMusicInstance(at, r)
    PROVE  Sound(n.at, n.premium, n.verdict, fl)
<1>1. /\ source \in CH!Instances /\ condition \in {"lossless", "lossy", "refusing"} /\ condition \in seen
      /\ at \in {"health", "probe"} /\ source # "api"
  BY DEF CheckInv, Sound, Asked, CH!Instances, CH!Conditions
<1>2. at = "probe" => n = CH!classify(CH!Has(r, "hires") /\ r.hires)
  BY DEF CH!checkAmazonMusicInstance, CH!GoAmazonMusicInstance
<1>3. at = "health" => IF CH!Json(r) /\ r.status # "error" THEN n \in CH!Capability(r) ELSE n = CH!Say("dead")
  BY DEF CH!checkAmazonMusicInstance, CH!GoAmazonMusicInstance
<1>4. CASE r \in CH!FailedAnswers /\ fl = failed \cup CH!Lost(r)
  <2>1. r \in CH!Garbage  BY <1>1, <1>4 DEF CH!FailedAnswers
  <2>2. ~CH!Has(r, "hires") /\ ~CH!Json(r)  BY <2>1, BareAnswers DEF Bare
  <2>3. CASE at = "health"
    <3>1. Earned("dead", fl)  BY <1>4, <2>3 DEF Earned, CH!Aside, CH!Lost
    <3>2. QED BY <1>3, <2>2, <2>3, <3>1, Spoken
  <2>4. CASE at = "probe"
    <3>1. fl # {}  BY <1>4 DEF CH!Lost
    <3>2. QED BY <1>1, <1>2, <2>2, <2>4, <3>1, ProbeSound
  <2>5. QED BY <1>1, <2>3, <2>4
<1>5. CASE r \in CH!InstanceAnswers(source, condition) /\ fl = failed
  <2>1. CASE condition = "refusing"
    <3>1. r \in {[http |-> 200, doc |-> "json", status |-> "error", hires |-> FALSE], [http |-> 404]}
      BY <1>5, <2>1 DEF CH!InstanceAnswers
    <3>2. CASE r = [http |-> 404]
      <4>1. ~CH!Has(r, "hires") /\ ~CH!Json(r)  BY <3>2, BareAnswers DEF Bare
      <4>2. Earned("dead", fl)  BY <1>1, <2>1 DEF Earned
      <4>3. CASE at = "probe"  BY <1>1, <1>2, <2>1, <4>1, <4>3, ProbeSound
      <4>4. CASE at = "health"  BY <1>3, <4>1, <4>2, <4>4, Spoken
      <4>5. QED BY <1>1, <4>3, <4>4
    <3>3. CASE r = [http |-> 200, doc |-> "json", status |-> "error", hires |-> FALSE]
      <4>1. CH!Has(r, "hires") /\ r.hires = FALSE /\ r.status = "error"  BY <3>3 DEF CH!Has
      <4>2. Earned("dead", fl)  BY <1>1, <2>1 DEF Earned
      <4>3. CASE at = "probe"  BY <1>1, <1>2, <2>1, <4>1, <4>3, ProbeSound
      <4>4. CASE at = "health"  BY <1>3, <4>1, <4>2, <4>4, Spoken
      <4>5. QED BY <1>1, <4>3, <4>4
    <3>4. QED BY <3>1, <3>2, <3>3
  <2>2. CASE condition # "refusing"
    <3>1. r = [http |-> 200, doc |-> "json", status |-> "named", hires |-> CH!HiRes(condition)]
      BY <1>5, <2>2 DEF CH!InstanceAnswers
    <3>2. CH!HiRes(condition) = (condition = "lossless")  BY <1>1 DEF CH!HiRes
    <3>3. CH!Has(r, "hires") /\ r.hires = (condition = "lossless") /\ r.status = "named" /\ CH!Json(r)
      BY <3>1, <3>2 DEF CH!Has, CH!Json, CH!Ok
    <3>4. r.hires \in BOOLEAN /\ (r.hires = TRUE <=> condition = "lossless")  BY <3>3
    <3>5. CASE at = "probe"  BY <1>1, <1>2, <3>3, <3>4, <3>5, ProbeSound
    <3>6. CASE at = "health"  BY <1>1, <1>3, <3>3, <3>4, <3>6, CapabilitySound
    <3>7. QED BY <1>1, <3>5, <3>6
  <2>3. QED BY <2>1, <2>2
<1>6. Heard(r, fl) => \/ r \in CH!FailedAnswers /\ fl = failed \cup CH!Lost(r)
                      \/ r \in CH!InstanceAnswers(source, condition) /\ fl = failed
  BY <1>1 DEF Heard, CH!Answers
<1>7. QED BY <1>4, <1>5, <1>6

\* A Deezer instance's document: only a lossless pool shows hi-res, and one that serves is
\* taken for exhausted or down by neither server.
LEMMA DeezerDocument ==
    ASSUME CheckInv, source = "deezerInstance", NEW r \in CH!InstanceAnswers(source, condition)
    PROVE  /\ CH!Has(r, "hires") => r.hires \in BOOLEAN /\ (r.hires = TRUE <=> condition = "lossless")
           /\ CH!Has(r, "hires") \/ (condition = "refusing" /\ r = [http |-> 503])
           /\ condition # "refusing" =>
                 /\ CH!Json(r) /\ r.ok \in {"true", "absent"}
                 /\ r.accounts \in {<<"1", "'1'", "0">>, <<"1", "absent", "1">>}
                       \/ (r.accounts = <<>> /\ r.user = TRUE)
<1>1. condition \in {"lossless", "lossy", "refusing"}  BY DEF CheckInv, CH!Conditions
<1>2. CH!HiRes(condition) = (condition = "lossless")  BY <1>1 DEF CH!HiRes
<1>3. CASE condition = "refusing"
  <2>a. CH!HiRes(condition) = FALSE  BY <1>2, <1>3
  <2> DEFINE Doc(o, a, u) == [http |-> 200, doc |-> "json", ok |-> o, accounts |-> a, user |-> u,
                              hires |-> CH!HiRes(condition)]
  <2>1. \/ r = [http |-> 503]
        \/ r = Doc("false", <<>>, FALSE)
        \/ \E o \in {"true", "absent"}, a \in Zeros, b \in Zeros : r = Doc(o, <<"1", a, b>>, FALSE)
    BY <1>3 DEF CH!InstanceAnswers
  <2>2. CASE r = [http |-> 503]
    <3>1. ~CH!Has(r, "hires")  BY <2>2 DEF CH!Has
    <3>2. QED BY <1>3, <2>2, <3>1
  <2>3. ASSUME NEW o, NEW a, NEW u, r = Doc(o, a, u)
        PROVE  CH!Has(r, "hires") /\ r.hires = FALSE
    BY <2>a, <2>3 DEF CH!Has
  <2>4. CASE r = Doc("false", <<>>, FALSE)
    <3>1. CH!Has(r, "hires") /\ r.hires = FALSE
      <4> HIDE DEF Doc
      <4> QED BY <2>3, <2>4
    <3>2. QED BY <1>3, <3>1
  <2>5. CASE \E o \in {"true", "absent"}, a \in Zeros, b \in Zeros : r = Doc(o, <<"1", a, b>>, FALSE)
    <3>1. PICK o \in {"true", "absent"}, a \in Zeros, b \in Zeros : r = Doc(o, <<"1", a, b>>, FALSE)
      <4> HIDE DEF Doc
      <4> QED BY <2>5
    <3>2. CH!Has(r, "hires") /\ r.hires = FALSE
      <4> HIDE DEF Doc
      <4> QED BY <2>3, <3>1
    <3>3. QED BY <1>3, <3>2
  <2>6. QED
    <3> HIDE DEF Doc
    <3> QED BY <2>1, <2>2, <2>4, <2>5
<1>4. CASE condition # "refusing"
  <2> DEFINE Doc(o, a, u) == [http |-> 200, doc |-> "json", ok |-> o, accounts |-> a, user |-> u,
                              hires |-> CH!HiRes(condition)]
  <2>1. \/ r = Doc("true", <<>>, TRUE) \/ r = Doc("absent", <<>>, TRUE)
        \/ r = Doc("true", <<"1", "'1'", "0">>, FALSE) \/ r = Doc("absent", <<"1", "absent", "1">>, FALSE)
    BY <1>4 DEF CH!InstanceAnswers
  <2>2. ASSUME NEW o \in {"true", "absent"}, NEW a, NEW u \in BOOLEAN, r = Doc(o, a, u)
        PROVE  /\ CH!Has(r, "hires") /\ r.hires = (condition = "lossless") /\ CH!Json(r)
               /\ r.ok \in {"true", "absent"} /\ r.accounts = a /\ r.user = u
    <3>1. /\ CH!Has(r, "hires") /\ CH!Has(r, "doc") /\ r.http = 200 /\ r.doc = "json"
          /\ r.ok = o /\ r.accounts = a /\ r.user = u /\ r.hires = CH!HiRes(condition)
      BY <2>2 DEF CH!Has
    <3>2. CH!Json(r)  BY <3>1 DEF CH!Json, CH!Ok
    <3>3. QED BY <1>2, <2>2, <3>1, <3>2
  <2> HIDE DEF Doc
  <2>3. CASE r = Doc("true", <<>>, TRUE) \/ r = Doc("absent", <<>>, TRUE)
    <3>1. /\ CH!Has(r, "hires") /\ r.hires = (condition = "lossless") /\ CH!Json(r)
          /\ r.ok \in {"true", "absent"} /\ r.accounts = <<>> /\ r.user = TRUE
      BY <2>2, <2>3
    <3>2. QED BY <1>4, <3>1
  <2>4. CASE r = Doc("true", <<"1", "'1'", "0">>, FALSE)
    <3>1. /\ CH!Has(r, "hires") /\ r.hires = (condition = "lossless") /\ CH!Json(r)
          /\ r.ok \in {"true", "absent"} /\ r.accounts = <<"1", "'1'", "0">>
      BY <2>2, <2>4
    <3>2. QED BY <1>4, <3>1
  <2>5. CASE r = Doc("absent", <<"1", "absent", "1">>, FALSE)
    <3>1. /\ CH!Has(r, "hires") /\ r.hires = (condition = "lossless") /\ CH!Json(r)
          /\ r.ok \in {"true", "absent"} /\ r.accounts = <<"1", "absent", "1">>
      BY <2>2, <2>5
    <3>2. QED BY <1>4, <3>1
  <2>6. QED BY <2>1, <2>3, <2>4, <2>5
<1>5. QED BY <1>3, <1>4

LEMMA DeezerInstanceSound ==
    ASSUME CheckInv, source = "deezerInstance", at # "done", NEW r, NEW fl, Heard(r, fl), NEW n,
           n \in CH!checkDeezerInstance(at, r) \/ n \in CH!GoDeezerInstance(at, r)
    PROVE  Sound(n.at, n.premium, n.verdict, fl)
<1>1. /\ source \in CH!Instances /\ condition \in {"lossless", "lossy", "refusing"} /\ condition \in seen
      /\ at \in {"health", "probe"} /\ source # "api"
  BY DEF CheckInv, Sound, Asked, CH!Instances, CH!Conditions
<1>2. PICK zeros \in {CH!NumberZeros, CH!numAttrZeros} : n \in CH!DeezerVerdict(at, r, zeros)
  BY DEF CH!checkDeezerInstance, CH!GoDeezerInstance
<1>3. at = "probe" => n = CH!classify(CH!Has(r, "hires") /\ r.hires)
  BY <1>2 DEF CH!DeezerVerdict
<1>4. at = "health" /\ ~CH!Json(r) => n = CH!Say("dead")  BY <1>2 DEF CH!DeezerVerdict
<1>5. at = "health" => n = CH!Say("dead") \/ (CH!Json(r) /\ n \in CH!Capability(r))
  BY <1>2 DEF CH!DeezerVerdict
<1>6. CASE r \in CH!FailedAnswers /\ fl = failed \cup CH!Lost(r)
  <2>1. r \in CH!Garbage  BY <1>1, <1>6 DEF CH!FailedAnswers
  <2>2. ~CH!Has(r, "hires") /\ ~CH!Json(r)  BY <2>1, BareAnswers DEF Bare
  <2>3. CASE at = "health"
    <3>1. Earned("dead", fl)  BY <1>6, <2>3 DEF Earned, CH!Aside, CH!Lost
    <3>2. QED BY <1>4, <2>2, <2>3, <3>1, Spoken
  <2>4. CASE at = "probe"
    <3>1. fl # {}  BY <1>6 DEF CH!Lost
    <3>2. QED BY <1>1, <1>3, <2>2, <2>4, <3>1, ProbeSound
  <2>5. QED BY <1>1, <2>3, <2>4
<1>7. CASE r \in CH!InstanceAnswers(source, condition) /\ fl = failed
  <2>1. /\ CH!Has(r, "hires") => r.hires \in BOOLEAN /\ (r.hires = TRUE <=> condition = "lossless")
        /\ CH!Has(r, "hires") \/ condition = "refusing"
    BY <1>7, DeezerDocument
  <2>2. CASE at = "probe"  BY <1>1, <1>3, <2>1, <2>2, ProbeSound
  <2>3. CASE at = "health" /\ condition = "refusing"
    <3>1. Earned("dead", fl)  BY <1>1, <2>3 DEF Earned
    <3>2. CASE CH!Has(r, "hires") /\ n \in CH!Capability(r)
      BY <1>1, <2>1, <3>2, CapabilitySound
    <3>3. CASE ~CH!Has(r, "hires")
      <4>1. r = [http |-> 503]  BY <1>7, <2>3, <3>3, DeezerDocument
      <4>2. ~CH!Json(r)  BY <4>1 DEF CH!Json, CH!Ok
      <4>3. QED BY <1>4, <2>3, <3>1, <4>2, Spoken
    <3>4. QED BY <1>5, <2>3, <3>1, <3>2, <3>3, Spoken
  <2>4. CASE at = "health" /\ condition # "refusing"
    <3>1. /\ CH!Json(r) /\ r.ok \in {"true", "absent"}
          /\ r.accounts \in {<<"1", "'1'", "0">>, <<"1", "absent", "1">>} \/ (r.accounts = <<>> /\ r.user = TRUE)
      BY <1>7, <2>4, DeezerDocument
    <3>2. "'1'" \notin zeros /\ "1" \notin zeros  BY <1>2 DEF CH!NumberZeros, CH!numAttrZeros
    <3>3. r.accounts # <<>> => ~CH!Exhausted(r.accounts, zeros)
      <4>1. CASE r.accounts = <<"1", "'1'", "0">>
        <5>1. r.accounts[2] = "'1'"  BY <4>1
        <5>2. QED BY <3>2, <5>1 DEF CH!Exhausted
      <4>2. CASE r.accounts = <<"1", "absent", "1">>
        <5>1. r.accounts[3] = "1"  BY <4>2
        <5>2. QED BY <3>2, <5>1 DEF CH!Exhausted
      <4>3. QED BY <3>1, <4>1, <4>2
    <3>4. r.accounts = <<>> => r.user = TRUE  BY <3>1
    <3>5. n \in CH!Capability(r)  BY <1>2, <2>4, <3>1, <3>3, <3>4 DEF CH!DeezerVerdict
    <3>6. QED BY <1>1, <2>1, <2>4, <3>5, CapabilitySound
  <2>5. QED BY <1>1, <2>2, <2>3, <2>4
<1>8. Heard(r, fl) => \/ r \in CH!FailedAnswers /\ fl = failed \cup CH!Lost(r)
                      \/ r \in CH!InstanceAnswers(source, condition) /\ fl = failed
  BY <1>1 DEF Heard, CH!Answers
<1>9. QED BY <1>6, <1>7, <1>8

\* The right check is made of every kind of source, by both servers.
LEMMA AnyAnswer ==
    ASSUME CheckInv, at \notin {"done", "scrape"}, NEW r, NEW fl, Heard(r, fl),
           source = "amazon" => r \in CH!Answers(source, at, condition) /\ fl = failed,
           NEW n \in IF server = "ts" THEN CH!runCheck(source, at, r, premium) ELSE CH!RunCheck(source, at, r, premium)
    PROVE  Sound(n.at, n.premium, n.verdict, fl)
<1>1. source \in CH!Instances \cup CH!Logins /\ server \in {"ts", "go"}  BY CheckConstants DEF CheckInv
<1>2. CASE source = "api"  BY <1>1, <1>2, ApiSound DEF CH!runCheck, CH!RunCheck
<1>3. CASE source = "amazonInstance"  BY <1>1, <1>3, AmazonInstanceSound DEF CH!runCheck, CH!RunCheck
<1>4. CASE source = "deezerInstance"  BY <1>1, <1>4, DeezerInstanceSound DEF CH!runCheck, CH!RunCheck
<1>5. CASE source = "tidal"
  <2>1. \/ server = "ts" /\ n = CH!checkTidalAccount(at, r, premium)
        \/ server = "go" /\ n = CH!GoTidalAccount(at, r, premium)
    BY <1>1, <1>5 DEF CH!runCheck, CH!RunCheck
  <2>2. QED BY <1>5, <2>1, TidalSound
<1>6. CASE source = "qobuz"
  <2>1. \/ server = "ts" /\ n = CH!checkQobuzAccount(at, r, premium)
        \/ server = "go" /\ n = CH!GoQobuzAccount(at, r, premium)
    BY <1>1, <1>6 DEF CH!runCheck, CH!RunCheck
  <2>2. QED BY <1>6, <2>1, QobuzSound
<1>7. CASE source = "deezer"
  <2>1. n = CH!checkDeezerAccount(r) \/ n = CH!GoDeezerAccount(r)
    BY <1>1, <1>7 DEF CH!runCheck, CH!RunCheck
  <2>2. QED BY <1>7, <2>1, DeezerSound
<1>8. CASE source = "apple"
  <2>1. \/ server = "ts" /\ n = CH!checkAppleMusicAccount(at, r)
        \/ server = "go" /\ n = CH!GoAppleMusicAccount(at, r)
    BY <1>1, <1>8 DEF CH!runCheck, CH!RunCheck
  <2>2. QED BY <1>8, <2>1, AppleSound
<1>9. CASE source = "amazon"
  <2>1. n = CH!checkAmazonMusicAccount(r) \/ n = CH!GoAmazonMusicAccount(r)
    BY <1>1, <1>9 DEF CH!runCheck, CH!RunCheck
  <2>2. QED BY <1>9, <2>1, AmazonSound
<1>10. QED BY <1>1, <1>2, <1>3, <1>4, <1>5, <1>6, <1>7, <1>8, <1>9 DEF CH!Instances, CH!Logins

LEMMA CheckInit ==
    "apple" \notin Sources \/ "expired" \notin DevTokens => (CH!Init => CheckInv)
<1> SUFFICES ASSUME "apple" \notin Sources \/ "expired" \notin DevTokens, CH!Init
             PROVE  CheckInv
  OBVIOUS
<1>1. source \in CH!Instances \cup CH!Logins  BY CheckConstants DEF CH!Init
<1>2. at \in Asked(source)  BY <1>1 DEF CH!Init, CH!First, Asked, CH!Instances, CH!Logins
<1>3. at \notin {"subscription", "secret", "heal", "secret2", "song1", "song2"}
  BY <1>1 DEF CH!Init, CH!First, CH!Instances, CH!Logins
<1>4. Sound(at, premium, verdict, failed)  BY <1>2, <1>3 DEF CH!Init, Sound, Backed, Earned
<1>5. QED BY <1>4 DEF CH!Init, CheckInv

LEMMA CheckNext == CheckInv /\ [CH!Next]_(CH!vars) => CheckInv'
<1> SUFFICES ASSUME CheckInv, [CH!Next]_(CH!vars) PROVE CheckInv'
  OBVIOUS
<1>1. CASE CH!Answer
  <2>1. PICK r \in CH!Answers(source, at, condition) :
            CH!Proceed(IF source = "apple" /\ devToken = "expired" THEN [http |-> 401] ELSE r)
    BY <1>1 DEF CH!Answer
  <2>2. CH!Proceed(r)  BY <2>1 DEF CheckInv
  <2>3. PICK n \in IF server = "ts" THEN CH!runCheck(source, at, r, premium)
                   ELSE CH!RunCheck(source, at, r, premium) :
            at' = n.at /\ premium' = n.premium /\ verdict' = n.verdict
    BY <2>2 DEF CH!Proceed
  <2>4. Heard(r, failed) /\ at \notin {"done", "scrape"}  BY <1>1, <2>1 DEF Heard, CH!Answer
  <2>5. Sound(n.at, n.premium, n.verdict, failed)  BY <2>1, <2>3, <2>4, AnyAnswer
  <2>6. QED BY <1>1, <2>3, <2>5 DEF CH!Answer, CheckInv, Sound, Backed, Earned, Asked, CH!Aside
<1>2. CASE CH!TransitFails
  <2>1. PICK r \in CH!FailedAnswers : failed' = failed \cup CH!Lost(r) /\ CH!Proceed(r)
    BY <1>2 DEF CH!TransitFails
  <2>2. PICK n \in IF server = "ts" THEN CH!runCheck(source, at, r, premium)
                   ELSE CH!RunCheck(source, at, r, premium) :
            at' = n.at /\ premium' = n.premium /\ verdict' = n.verdict
    BY <2>1 DEF CH!Proceed
  <2>3. Heard(r, failed \cup CH!Lost(r)) /\ at \notin {"done", "scrape"} /\ source # "amazon"
    BY <1>2, <2>1 DEF Heard, CH!TransitFails
  <2>4. Sound(n.at, n.premium, n.verdict, failed \cup CH!Lost(r))  BY <2>2, <2>3, AnyAnswer
  <2>5. QED BY <1>2, <2>1, <2>2, <2>4 DEF CH!TransitFails, CheckInv, Sound, Backed, Earned, Asked, CH!Aside
<1>3. CASE CH!ampDevToken
  <2>1. PICK r \in {[token |-> devToken' # "none"]} :
            \E n \in IF server = "ts" THEN CH!runCheck(source, at, r, premium)
                     ELSE CH!RunCheck(source, at, r, premium) :
                at' = n.at /\ premium' = n.premium /\ verdict' = n.verdict
    BY <1>3 DEF CH!ampDevToken, CH!Proceed
  <2>2. /\ at = "scrape" /\ UNCHANGED <<server, source, condition, seen>>
        /\ devToken' \in {devToken, "good"}
    BY <1>3 DEF CH!ampDevToken
  <2>3. source = "apple" /\ "account" \in Asked(source)
    <3>1. source \in CH!Instances \cup CH!Logins  BY CheckConstants DEF CheckInv
    <3>2. at \in Asked(source)  BY <2>2 DEF CheckInv, Sound
    <3>3. source = "apple"  BY <2>2, <3>1, <3>2 DEF Asked, CH!Instances, CH!Logins
    <3>4. QED BY <3>3 DEF Asked, CH!Instances
  <2>4. PICK n : /\ at' = n.at /\ premium' = n.premium /\ verdict' = n.verdict
                 /\ n = CH!Ask("account", FALSE) \/ n = CH!Say("pending")
    BY <2>1, <2>2, <2>3 DEF CH!runCheck, CH!RunCheck, CH!checkAppleMusicAccount, CH!GoAppleMusicAccount
  <2>5. /\ at' \in {"account", "done"} /\ premium' = FALSE /\ verdict' \in {"none", "pending"}
        /\ verdict' # "none" => at' = "done"
    BY <2>4 DEF CH!Ask, CH!Say
  <2>6. QED BY <2>2, <2>3, <2>5 DEF CheckInv, Sound, Backed, Earned, Asked, CH!Instances
<1>4. CASE CH!ConditionChanges
  <2>1. /\ UNCHANGED <<server, source, failed, at, premium, devToken, verdict>>
        /\ condition' \in CH!Conditions(source) /\ seen' = seen \cup {condition'}
    BY <1>4 DEF CH!ConditionChanges
  <2>2. Backed(at, premium, failed)'  BY <2>1 DEF CheckInv, Sound, Backed
  <2>3. Earned(verdict, failed)'  BY <2>1 DEF CheckInv, Sound, Earned, CH!Aside
  <2>4. QED BY <2>1, <2>2, <2>3 DEF CheckInv, Sound, Asked, CH!Conditions
<1>5. CASE UNCHANGED CH!vars
  BY <1>5 DEF CheckInv, CH!vars, Sound, Backed, Earned, Asked, CH!Aside
<1>6. QED BY <1>1, <1>2, <1>3, <1>4, <1>5 DEF CH!Next

\* A check's verdict is earned on both servers, for every kind of source, however its condition
\* changes between two requests and whichever requests fail: a source is found dead only if it
\* refused or left the judging request unanswered, alive or lossy only if it was.  An expired
\* Apple developer token that is kept because no page could be fetched is the exception (it is
\* refuted for it): the premise says that there is none.
THEOREM VerdictsAreEarned ==
    ASSUME "apple" \notin Sources \/ "expired" \notin DevTokens
    PROVE  ServicesSpec => []VerdictIsEarned
<1>1. ServicesInit => CheckInv  BY CheckInit DEF ServicesInit
<1>2. CheckInv /\ [ServicesNext]_all => CheckInv'  BY CheckNext, PartsStep
<1>3. CheckInv => VerdictIsEarned
  BY DEF CheckInv, Sound, Earned, VerdictIsEarned, CH!VerdictIsEarned, CH!DeadIsEarned, CH!StandingIsEarned
<1>4. QED BY <1>1, <1>2, <1>3, PTL DEF ServicesSpec

----------------------------------------------------------------------------

(* The rate limiters (RateLimiter). *)

\* Times up to t, in their order.
Ascends(h, t) ==
    /\ h \in Seq(Nat)
    /\ \A k \in DOMAIN h : h[k] <= t
    /\ \A j, k \in DOMAIN h : j <= k => h[j] <= h[k]

\* The hits h of a bucket are the end of what it granted, g; what is no hit any more is out
\* of the window at the time t.
Tailed(g, h, t, limit, window) ==
    /\ g \in Seq(Nat) /\ h \in Seq(Nat) /\ Len(h) <= Len(g) /\ Len(h) <= limit
    /\ \A k \in DOMAIN h : h[k] = g[k + (Len(g) - Len(h))]
    /\ \A j \in DOMAIN g : j + Len(h) <= Len(g) => t - g[j] >= window
    /\ RL!AtMost(limit, g, window)

\* What the counter n of a window that began at start says of what was granted, g: the last n
\* of it, up to the limit, are in the window, what is before is older than the window, and
\* what is before the last limit of that is older by a window still.
Counts(g, start, n, t, limit, window) ==
    /\ g \in Seq(Nat) /\ start \in 0..t /\ n \in 0..(limit + 1)
    /\ LET c == IF n <= limit THEN n ELSE limit
       IN /\ c <= Len(g)
          /\ \A j \in DOMAIN g : j + c <= Len(g) => g[j] < start
          /\ \A j \in DOMAIN g : j + c + limit <= Len(g) => g[j] + window < start
    /\ \A j \in DOMAIN g : g[j] <= t /\ g[j] <= start + window
    /\ n = 0 => g = <<>>
    /\ RL!AtMost(2 * limit, g, window)

LimitTyped ==
    /\ clock \in Nat
    /\ hits \in [Ids -> Seq(Nat)] /\ granted \in [Ids -> Seq(Nat)]
    /\ rows \in [Ids -> [start: Nat, n: Nat]] /\ dbGranted \in [Ids -> Seq(Nat)]

LimitInv ==
    /\ LimitTyped
    /\ \A i \in Ids : Ascends(hits[i], clock)
    /\ \A i \in Ids \ evicted : Tailed(granted[i], hits[i], clock, RequestLimit[i], Window[i])
    \* A bucket that was never dropped is in the map once it has granted anything.
    /\ \A i \in Ids \ evicted : i \in RL!ToSet(inserted) \/ granted[i] = <<>>
    /\ \A i \in Ids : Counts(dbGranted[i], rows[i].start, rows[i].n, clock, RequestLimit[i], Window[i])

LEMMA LimitConstants ==
    \A i \in Ids : /\ RequestLimit[i] \in Nat /\ RequestLimit[i] >= 1
                   /\ Window[i] \in Nat /\ Window[i] >= 1
  BY LimiterAssumption DEF RL!RateLimiterConstants

\* The hits within a window begin somewhere.
LEMMA WindowBegins ==
    ASSUME NEW t \in Nat, NEW h, Ascends(h, t), NEW window \in Nat
    PROVE  \E f \in 1..Len(h) + 1 : \A k \in DOMAIN h : k >= f <=> t - h[k] < window
<1> DEFINE Out == {k \in 1..Len(h) : t - h[k] >= window}
<1>1. h \in Seq(Nat) /\ Len(h) \in Nat /\ DOMAIN h = 1..Len(h) /\ \A k \in DOMAIN h : h[k] \in Nat
  BY DEF Ascends
<1>2. CASE Out = {}
  <2>1. \A k \in DOMAIN h : k >= 1 <=> t - h[k] < window  BY <1>1, <1>2
  <2>2. 1 \in 1..Len(h) + 1  BY <1>1
  <2>3. QED BY <2>1, <2>2
<1>3. CASE Out # {}
  <2>1. Out \subseteq 1..Len(h) /\ Out \subseteq Nat  BY <1>1
  <2>2. IsFiniteSet(Out)
    <3> HIDE DEF Out
    <3>1. IsFiniteSet(1..Len(h))  BY <1>1, FS_Interval
    <3>2. QED BY <2>1, <3>1, FS_Subset
  <2>3. PICK m \in Out : \A k \in Out : k <= m
    <3> DEFINE key == [k \in Out |-> k]
    <3> HIDE DEF Out
    <3>1. key \in [Out -> Int] /\ \A k \in Out : key[k] = k  BY <2>1
    <3> HIDE DEF key
    <3>2. PICK m \in Out : \A k \in Out : key[k] <= key[m]  BY <1>3, <2>2, <3>1, HasGreatest
    <3>3. QED BY <3>1, <3>2
  <2>4. m \in 1..Len(h) /\ t - h[m] >= window /\ m + 1 \in 1..Len(h) + 1  BY <1>1, <2>3
  <2>5. ASSUME NEW k \in DOMAIN h PROVE k >= m + 1 <=> t - h[k] < window
    <3>1. CASE k >= m + 1
      <4>1. k \notin Out  BY <1>1, <2>3, <2>4, <3>1
      <4>2. QED BY <1>1, <2>4, <3>1, <4>1
    <3>2. CASE ~(k >= m + 1)
      <4>1. k <= m  BY <1>1, <2>4, <3>2
      <4>2. h[k] <= h[m]  BY <1>1, <2>4, <4>1 DEF Ascends
      <4>3. QED BY <1>1, <2>4, <3>2, <4>2
    <3>3. QED BY <3>1, <3>2
  <2>6. QED BY <2>4, <2>5
<1>4. QED BY <1>2, <1>3

\* Pruning takes what is out of the window from the front.
LEMMA PrunedTail ==
    ASSUME LimitInv, NEW i \in Ids
    PROVE  /\ Ascends(RL!Pruned(i), clock) /\ Len(RL!Pruned(i)) <= Len(hits[i])
           /\ \A k \in DOMAIN RL!Pruned(i) : RL!Pruned(i)[k] = hits[i][k + (Len(hits[i]) - Len(RL!Pruned(i)))]
           /\ \A k \in DOMAIN hits[i] : k + Len(RL!Pruned(i)) <= Len(hits[i]) => clock - hits[i][k] >= Window[i]
<1> DEFINE h == hits[i]
           f == CHOOSE f \in 1..Len(h) + 1 : \A k \in DOMAIN h : k >= f <=> clock - h[k] < Window[i]
           p == SubSeq(h, f, Len(h))
<1>1. RL!Pruned(i) = p  BY DEF RL!Pruned
<1>2. clock \in Nat /\ Ascends(h, clock) /\ Window[i] \in Nat  BY LimitConstants DEF LimitInv, LimitTyped
<1> HIDE DEF h
<1>3. f \in 1..Len(h) + 1 /\ \A k \in DOMAIN h : k >= f <=> clock - h[k] < Window[i]
  BY <1>2, WindowBegins
<1> HIDE DEF f
<1>4. h \in Seq(Nat) /\ Len(h) \in Nat /\ DOMAIN h = 1..Len(h) /\ \A k \in DOMAIN h : h[k] \in Nat
  BY <1>2 DEF Ascends
<1>5. f \in Nat /\ f >= 1 /\ f <= Len(h) + 1  BY <1>3, <1>4
<1>6. /\ p \in Seq(Nat) /\ Len(p) = Len(h) - f + 1 /\ DOMAIN p = 1..Len(p)
      /\ \A k \in 1..Len(p) : p[k] = h[k + f - 1]
  BY <1>4, <1>5
<1> HIDE DEF p
<1>7. Len(p) \in Nat /\ Len(p) <= Len(h) /\ Len(h) - Len(p) = f - 1  BY <1>4, <1>5, <1>6
<1>8. ASSUME NEW k \in DOMAIN p PROVE k \in Nat /\ k + f - 1 \in DOMAIN h /\ p[k] = h[k + f - 1]
  <2>1. k \in 1..Len(p) /\ k \in Nat /\ k <= Len(p) /\ k >= 1  BY <1>6, <1>7, <1>8
  <2>2. k + f - 1 \in Nat /\ k + f - 1 >= 1 /\ k + f - 1 <= Len(h)  BY <1>4, <1>5, <1>7, <2>1
  <2>3. QED BY <1>4, <1>6, <2>1, <2>2
<1>9. \A k \in DOMAIN p : k + f - 1 = k + (Len(h) - Len(p))  BY <1>7, <1>8
<1>10. \A k \in DOMAIN p : p[k] = h[k + (Len(h) - Len(p))]  BY <1>8, <1>9
<1>11. Ascends(p, clock)
  <2>1. \A k \in DOMAIN p : p[k] <= clock  BY <1>2, <1>8 DEF Ascends
  <2>2. ASSUME NEW j \in DOMAIN p, NEW k \in DOMAIN p, j <= k PROVE p[j] <= p[k]
    <3>1. j + f - 1 <= k + f - 1  BY <1>5, <1>8, <2>2
    <3>2. QED BY <1>2, <1>8, <3>1 DEF Ascends
  <2>3. QED BY <1>6, <2>1, <2>2 DEF Ascends
<1>12. ASSUME NEW k \in DOMAIN h, k + Len(p) <= Len(h) PROVE clock - h[k] >= Window[i]
  <2>1. ~(k >= f)  BY <1>4, <1>5, <1>7, <1>12
  <2>2. QED BY <1>2, <1>3, <1>4, <2>1
<1>13. QED BY <1>1, <1>7, <1>10, <1>11, <1>12 DEF h

LEMMA TailOfTail ==
    ASSUME NEW g, NEW h, NEW p, NEW t \in Nat, NEW limit \in Nat, NEW window \in Nat,
           Tailed(g, h, t, limit, window), p \in Seq(Nat), Len(p) <= Len(h),
           \A k \in DOMAIN p : p[k] = h[k + (Len(h) - Len(p))],
           \A k \in DOMAIN h : k + Len(p) <= Len(h) => t - h[k] >= window
    PROVE  Tailed(g, p, t, limit, window)
<1>1. /\ Len(g) \in Nat /\ Len(h) \in Nat /\ Len(p) \in Nat /\ DOMAIN g = 1..Len(g) /\ DOMAIN h = 1..Len(h)
      /\ DOMAIN p = 1..Len(p) /\ Len(h) <= Len(g) /\ Len(h) <= limit
  BY DEF Tailed
<1>2. ASSUME NEW k \in DOMAIN p PROVE p[k] = g[k + (Len(g) - Len(p))]
  <2>1. k + (Len(h) - Len(p)) \in DOMAIN h  BY <1>1, <1>2
  <2>2. h[k + (Len(h) - Len(p))] = g[k + (Len(h) - Len(p)) + (Len(g) - Len(h))]  BY <2>1 DEF Tailed
  <2>3. k + (Len(h) - Len(p)) + (Len(g) - Len(h)) = k + (Len(g) - Len(p))  BY <1>1, <1>2
  <2>4. QED BY <1>2, <2>2, <2>3
<1>3. ASSUME NEW j \in DOMAIN g, j + Len(p) <= Len(g) PROVE t - g[j] >= window
  <2>1. CASE j + Len(h) <= Len(g)  BY <1>3, <2>1 DEF Tailed
  <2>2. CASE ~(j + Len(h) <= Len(g))
    <3> DEFINE k == j - (Len(g) - Len(h))
    <3>1. k \in DOMAIN h /\ k + Len(p) <= Len(h) /\ k + (Len(g) - Len(h)) = j  BY <1>1, <1>3, <2>2
    <3> HIDE DEF k
    <3>2. h[k] = g[j]  BY <3>1 DEF Tailed
    <3>3. QED BY <3>1, <3>2
  <2>3. QED BY <2>1, <2>2
<1>4. QED BY <1>1, <1>2, <1>3 DEF Tailed

LEMMA TailGrows ==
    ASSUME NEW g, NEW p, NEW t \in Nat, NEW limit \in Nat, NEW window \in Nat,
           Tailed(g, p, t, limit, window), Len(p) < limit
    PROVE  Tailed(Append(g, t), Append(p, t), t, limit, window)
<1> DEFINE G == Append(g, t)
           P == Append(p, t)
<1>1. /\ g \in Seq(Nat) /\ p \in Seq(Nat) /\ Len(g) \in Nat /\ Len(p) \in Nat /\ DOMAIN g = 1..Len(g)
      /\ DOMAIN p = 1..Len(p) /\ Len(p) <= Len(g)
  BY DEF Tailed
<1>2. /\ G \in Seq(Nat) /\ Len(G) = Len(g) + 1 /\ DOMAIN G = 1..Len(g) + 1
      /\ \A j \in 1..Len(g) : G[j] = g[j]
      /\ G[Len(g) + 1] = t
  BY <1>1
<1>3. /\ P \in Seq(Nat) /\ Len(P) = Len(p) + 1 /\ DOMAIN P = 1..Len(p) + 1
      /\ \A j \in 1..Len(p) : P[j] = p[j]
      /\ P[Len(p) + 1] = t
  BY <1>1
<1> HIDE DEF G, P
<1>4. Len(P) <= Len(G) /\ Len(P) <= limit  BY <1>1, <1>2, <1>3
<1>5. ASSUME NEW k \in DOMAIN P PROVE P[k] = G[k + (Len(G) - Len(P))]
  <2>1. CASE k \in 1..Len(p)
    <3>1. p[k] = g[k + (Len(g) - Len(p))]  BY <1>1, <2>1 DEF Tailed
    <3>a. k \in Nat /\ k >= 1 /\ k <= Len(p)  BY <1>1, <2>1
    <3>b. Len(G) - Len(P) = Len(g) - Len(p)  BY <1>1, <1>2, <1>3
    <3>c. k + (Len(g) - Len(p)) \in 1..Len(g)  BY <1>1, <3>a
    <3>2. k + (Len(g) - Len(p)) \in 1..Len(g) /\ k + (Len(G) - Len(P)) = k + (Len(g) - Len(p))
      BY <3>b, <3>c
    <3>3. QED BY <1>2, <1>3, <2>1, <3>1, <3>2
  <2>2. CASE k = Len(p) + 1
    <3>1. k + (Len(G) - Len(P)) = Len(g) + 1  BY <1>1, <1>2, <1>3, <2>2
    <3>2. QED BY <1>2, <1>3, <2>2, <3>1
  <2>3. QED BY <1>1, <1>3, <2>1, <2>2
<1>6. ASSUME NEW j \in DOMAIN G, j + Len(P) <= Len(G) PROVE t - G[j] >= window
  <2>a. j \in Nat /\ j >= 1  BY <1>1, <1>2, <1>6
  <2>b. j + (Len(p) + 1) <= Len(g) + 1  BY <1>2, <1>3, <1>6
  <2>1. j \in 1..Len(g) /\ j + Len(p) <= Len(g)  BY <1>1, <2>a, <2>b
  <2>2. t - g[j] >= window  BY <1>1, <2>1 DEF Tailed
  <2>3. QED BY <1>2, <2>1, <2>2
<1>7. ASSUME NEW j \in DOMAIN G, j + limit \in DOMAIN G PROVE G[j + limit] - G[j] >= window
  <2>1. CASE j + limit \in 1..Len(g)
    <3>1. j \in 1..Len(g)  BY <1>1, <1>2, <1>7, <2>1
    <3>2. g[j + limit] - g[j] >= window  BY <1>1, <2>1, <3>1 DEF Tailed, RL!AtMost
    <3>3. QED BY <1>2, <2>1, <3>1, <3>2
  <2>2. CASE j + limit = Len(g) + 1
    <3>1. j + Len(P) <= Len(G)  BY <1>1, <1>2, <1>3, <1>7, <2>2
    <3>2. QED BY <1>2, <1>6, <1>7, <2>2, <3>1
  <2>3. QED BY <1>1, <1>2, <1>7, <2>1, <2>2
<1>8. Tailed(G, P, t, limit, window)  BY <1>2, <1>3, <1>4, <1>5, <1>6, <1>7 DEF Tailed, RL!AtMost
<1>9. QED BY <1>8 DEF G, P

LEMMA TailAges ==
    ASSUME NEW g, NEW h, NEW t \in Nat, NEW limit \in Nat, NEW window \in Nat,
           Tailed(g, h, t, limit, window)
    PROVE  Tailed(g, h, t + 1, limit, window)
<1>1. g \in Seq(Nat) /\ DOMAIN g = 1..Len(g) /\ \A j \in DOMAIN g : g[j] \in Nat  BY DEF Tailed
<1>2. ASSUME NEW j \in DOMAIN g, j + Len(h) <= Len(g) PROVE t + 1 - g[j] >= window
  <2>1. t - g[j] >= window /\ g[j] \in Nat  BY <1>1, <1>2 DEF Tailed
  <2>2. QED BY <2>1
<1>3. QED BY <1>2 DEF Tailed

LEMMA AscentAges ==
    ASSUME NEW h, NEW t \in Nat, Ascends(h, t)
    PROVE  Ascends(h, t + 1)
<1>1. h \in Seq(Nat) /\ \A k \in DOMAIN h : h[k] \in Nat  BY DEF Ascends
<1>2. ASSUME NEW k \in DOMAIN h PROVE h[k] <= t + 1
  <2>1. h[k] \in Nat /\ h[k] <= t  BY <1>1, <1>2 DEF Ascends
  <2>2. QED BY <2>1
<1>3. QED BY <1>2 DEF Ascends

LEMMA AscentGrows ==
    ASSUME NEW h, NEW t \in Nat, Ascends(h, t)
    PROVE  Ascends(Append(h, t), t)
<1> DEFINE H == Append(h, t)
<1>1. /\ h \in Seq(Nat) /\ Len(h) \in Nat /\ DOMAIN h = 1..Len(h)
      /\ \A k \in 1..Len(h) : h[k] \in Nat /\ h[k] <= t
      /\ \A j, k \in 1..Len(h) : j <= k => h[j] <= h[k]
  BY DEF Ascends
<1>2. /\ H \in Seq(Nat) /\ DOMAIN H = 1..Len(h) + 1 /\ H[Len(h) + 1] = t
      /\ \A k \in 1..Len(h) : H[k] = h[k]
  BY <1>1
<1> HIDE DEF H
<1>3. \A k \in DOMAIN H : k \in 1..Len(h) \/ k = Len(h) + 1  BY <1>1, <1>2
<1>4. ASSUME NEW k \in DOMAIN H PROVE H[k] <= t
  <2>1. CASE k \in 1..Len(h)  BY <1>1, <1>2, <2>1
  <2>2. CASE k = Len(h) + 1  BY <1>2, <2>2
  <2>3. QED BY <1>3, <2>1, <2>2
<1>5. ASSUME NEW j \in DOMAIN H, NEW k \in DOMAIN H, j <= k PROVE H[j] <= H[k]
  <2>1. CASE k = Len(h) + 1  BY <1>2, <1>4, <2>1
  <2>2. CASE k \in 1..Len(h)
    <3>1. j # Len(h) + 1  BY <1>1, <1>5, <2>2
    <3>2. j \in 1..Len(h)  BY <1>3, <3>1
    <3>3. QED BY <1>1, <1>2, <1>5, <2>2, <3>2
  <2>3. QED BY <1>3, <2>1, <2>2
<1>6. Ascends(H, t)  BY <1>2, <1>4, <1>5 DEF Ascends
<1>7. QED BY <1>6 DEF H

LEMMA NothingGranted ==
    ASSUME NEW t \in Nat, NEW limit \in Nat, NEW window \in Nat
    PROVE  /\ Ascends(<<>>, t) /\ Tailed(<<>>, <<>>, t, limit, window)
           /\ Counts(<<>>, 0, 0, t, limit, window)
  BY DEF Ascends, Tailed, Counts, RL!AtMost

LEMMA CountAges ==
    ASSUME NEW g, NEW start \in Nat, NEW n \in Nat, NEW t \in Nat, NEW limit \in Nat, NEW window \in Nat,
           Counts(g, start, n, t, limit, window)
    PROVE  Counts(g, start, n, t + 1, limit, window)
<1>1. g \in Seq(Nat) /\ start <= t /\ \A j \in DOMAIN g : g[j] \in Nat /\ g[j] <= t  BY DEF Counts
<1>2. start \in 0..t + 1 /\ \A j \in DOMAIN g : g[j] <= t + 1
  <2>1. start \in 0..t + 1  BY <1>1
  <2>2. ASSUME NEW j \in DOMAIN g PROVE g[j] <= t + 1
    <3>1. g[j] \in Nat /\ g[j] <= t  BY <1>1
    <3>2. QED BY <3>1
  <2>3. QED BY <2>1, <2>2
<1>3. QED BY <1>2 DEF Counts

\* A request that is granted within the window that has begun.
LEMMA CountGoesOn ==
    ASSUME NEW g, NEW start \in Nat, NEW n \in Nat, NEW t \in Nat, NEW limit \in Nat, NEW window \in Nat,
           Counts(g, start, n, t, limit, window), ~(start < t - window), n + 1 <= limit
    PROVE  Counts(Append(g, t), start, n + 1, t, limit, window)
<1> DEFINE G == Append(g, t)
<1>1. /\ g \in Seq(Nat) /\ Len(g) \in Nat /\ DOMAIN g = 1..Len(g) /\ n <= Len(g) /\ start <= t
      /\ \A j \in 1..Len(g) : g[j] \in Nat /\ g[j] <= t /\ g[j] <= start + window
      /\ \A j \in 1..Len(g) : j + n <= Len(g) => g[j] < start
      /\ \A j \in 1..Len(g) : j + n + limit <= Len(g) => g[j] + window < start
      /\ \A j \in 1..Len(g) : j + 2 * limit \in 1..Len(g) => g[j + 2 * limit] - g[j] >= window
  <2>1. g \in Seq(Nat) /\ Len(g) \in Nat /\ DOMAIN g = 1..Len(g) /\ start <= t  BY DEF Counts
  <2>2. n <= limit  OBVIOUS
  <2>3. /\ n <= Len(g)
        /\ \A j \in DOMAIN g : j + n <= Len(g) => g[j] < start
        /\ \A j \in DOMAIN g : j + n + limit <= Len(g) => g[j] + window < start
    BY <2>2 DEF Counts
  <2>4. \A j \in DOMAIN g : g[j] <= t /\ g[j] <= start + window  BY DEF Counts
  <2>5. \A j \in DOMAIN g : j + 2 * limit \in DOMAIN g => g[j + 2 * limit] - g[j] >= window
    BY DEF Counts, RL!AtMost
  <2>6. \A j \in 1..Len(g) : g[j] \in Nat  BY <2>1
  <2>7. QED BY <2>1, <2>3, <2>4, <2>5, <2>6
<1>2. /\ G \in Seq(Nat) /\ Len(G) = Len(g) + 1 /\ DOMAIN G = 1..Len(g) + 1 /\ G[Len(g) + 1] = t
      /\ \A j \in 1..Len(g) : G[j] = g[j]
  BY <1>1
<1> HIDE DEF G
<1>3. ASSUME NEW j \in DOMAIN G PROVE j \in Nat /\ j >= 1 /\ (j \in 1..Len(g) \/ j = Len(g) + 1)
  BY <1>1, <1>2
<1>4. ASSUME NEW j \in DOMAIN G PROVE G[j] <= t /\ G[j] <= start + window
  <2>1. CASE j \in 1..Len(g)  BY <1>1, <1>2, <2>1
  <2>2. CASE j = Len(g) + 1
    <3>1. t <= start + window  OBVIOUS
    <3>2. QED BY <1>2, <2>2, <3>1
  <2>3. QED BY <1>3, <2>1, <2>2
<1>5. ASSUME NEW j \in DOMAIN G, j + (n + 1) <= Len(G) PROVE G[j] < start
  <2>a. j + (n + 1) <= Len(g) + 1  BY <1>2, <1>5
  <2>b. j \in Nat /\ j >= 1 /\ Len(g) \in Nat  BY <1>1, <1>3
  <2>1. j \in 1..Len(g) /\ j + n <= Len(g)  BY <2>a, <2>b
  <2>2. QED BY <1>1, <1>2, <2>1
<1>6. ASSUME NEW j \in DOMAIN G, j + (n + 1) + limit <= Len(G) PROVE G[j] + window < start
  <2>a. j + (n + 1) + limit <= Len(g) + 1  BY <1>2, <1>6
  <2>b. j \in Nat /\ j >= 1 /\ Len(g) \in Nat  BY <1>1, <1>3
  <2>1. j \in 1..Len(g) /\ j + n + limit <= Len(g)  BY <2>a, <2>b
  <2>2. QED BY <1>1, <1>2, <2>1
<1>7. ASSUME NEW j \in DOMAIN G, j + 2 * limit \in DOMAIN G PROVE G[j + 2 * limit] - G[j] >= window
  <2>1. CASE j + 2 * limit \in 1..Len(g)
    <3>1. j \in 1..Len(g)  BY <1>1, <1>3, <2>1
    <3>2. QED BY <1>1, <1>2, <2>1, <3>1
  <2>2. CASE j + 2 * limit = Len(g) + 1
    <3>1. j + (n + 1) + limit <= Len(G)  BY <1>2, <1>3, <2>2
    <3>2. G[j] + window < start  BY <1>6, <3>1
    <3>3. j \in 1..Len(g)  BY <1>1, <1>3, <2>2
    <3>4. G[j] \in Nat  BY <1>1, <1>2, <3>3
    <3>5. start <= t /\ G[j + 2 * limit] = t  BY <1>1, <1>2, <2>2
    <3>6. t - G[j] >= window  BY <3>2, <3>4, <3>5
    <3>7. QED BY <3>5, <3>6
  <2>3. QED BY <1>3, <1>7, <2>1, <2>2
<1>8. G # <<>> /\ n + 1 # 0 /\ n + 1 <= Len(G) /\ n + 1 \in 0..limit + 1 /\ start \in 0..t
  BY <1>1, <1>2
<1>9. Counts(G, start, n + 1, t, limit, window)
  BY <1>2, <1>4, <1>5, <1>6, <1>7, <1>8 DEF Counts, RL!AtMost
<1>10. QED BY <1>9 DEF G

\* A request beyond the limit is counted once.
LEMMA CountStops ==
    ASSUME NEW g, NEW start \in Nat, NEW n \in Nat, NEW t \in Nat, NEW limit \in Nat, NEW window \in Nat,
           Counts(g, start, n, t, limit, window), n + 1 <= limit + 1, ~(n + 1 <= limit)
    PROVE  Counts(g, start, n + 1, t, limit, window)
<1>1. n = limit  OBVIOUS
<1>2. QED BY <1>1 DEF Counts

\* A request after the window: the counter starts again.
LEMMA CountStartsAgain ==
    ASSUME NEW g, NEW start \in Nat, NEW n \in Nat, NEW t \in Nat, NEW limit \in Nat, NEW window \in Nat,
           Counts(g, start, n, t, limit, window), limit >= 1, n = 0 \/ start < t - window
    PROVE  Counts(Append(g, t), t, 1, t, limit, window)
<1> DEFINE G == Append(g, t)
<1>1. /\ g \in Seq(Nat) /\ Len(g) \in Nat /\ DOMAIN g = 1..Len(g) /\ start <= t
      /\ \A j \in 1..Len(g) : g[j] \in Nat /\ g[j] <= t /\ g[j] <= start + window
      /\ \A j \in 1..Len(g) : j + limit <= Len(g) => g[j] < start
      /\ \A j \in 1..Len(g) : j + 2 * limit \in 1..Len(g) => g[j + 2 * limit] - g[j] >= window
      /\ n = 0 => Len(g) = 0
  <2>1. g \in Seq(Nat) /\ Len(g) \in Nat /\ DOMAIN g = 1..Len(g) /\ start <= t  BY DEF Counts
  <2>2. PICK c \in 0..limit : \A j \in DOMAIN g : j + c <= Len(g) => g[j] < start
    <3>1. CASE n <= limit
      <4>1. \A j \in DOMAIN g : j + n <= Len(g) => g[j] < start  BY <3>1 DEF Counts
      <4>2. n \in 0..limit  BY <3>1
      <4>3. QED BY <4>1, <4>2
    <3>2. CASE ~(n <= limit)
      <4>1. \A j \in DOMAIN g : j + limit <= Len(g) => g[j] < start  BY <3>2 DEF Counts
      <4>2. limit \in 0..limit  OBVIOUS
      <4>3. QED BY <4>1, <4>2
    <3>3. QED BY <3>1, <3>2
  <2>3. ASSUME NEW j \in 1..Len(g), j + limit <= Len(g) PROVE g[j] < start
    <3>1. j + c <= Len(g)  BY <2>1, <2>2, <2>3
    <3>2. QED BY <2>1, <2>2, <3>1
  <2>4. \A j \in DOMAIN g : g[j] <= t /\ g[j] <= start + window  BY DEF Counts
  <2>5. \A j \in DOMAIN g : j + 2 * limit \in DOMAIN g => g[j + 2 * limit] - g[j] >= window
    BY DEF Counts, RL!AtMost
  <2>6. \A j \in 1..Len(g) : g[j] \in Nat  BY <2>1
  <2>7. n = 0 => Len(g) = 0  BY DEF Counts
  <2>8. QED BY <2>1, <2>3, <2>4, <2>5, <2>6, <2>7
<1>2. /\ G \in Seq(Nat) /\ Len(G) = Len(g) + 1 /\ DOMAIN G = 1..Len(g) + 1 /\ G[Len(g) + 1] = t
      /\ \A j \in 1..Len(g) : G[j] = g[j]
  BY <1>1
<1> HIDE DEF G
<1>3. ASSUME NEW j \in DOMAIN G PROVE j \in Nat /\ j >= 1 /\ (j \in 1..Len(g) \/ j = Len(g) + 1)
  BY <1>1, <1>2
<1>4. ASSUME NEW j \in DOMAIN G PROVE G[j] \in Nat /\ G[j] <= t /\ G[j] <= t + window
  <2>1. G[j] \in Nat /\ G[j] <= t
    <3>1. CASE j \in 1..Len(g)  BY <1>1, <1>2, <3>1
    <3>2. CASE j = Len(g) + 1  BY <1>2, <3>2
    <3>3. QED BY <1>3, <3>1, <3>2
  <2>2. QED BY <2>1
<1>5. ASSUME NEW j \in DOMAIN G, j + 1 <= Len(G) PROVE G[j] < t
  <2>1. j \in 1..Len(g)  BY <1>1, <1>2, <1>3, <1>5
  <2>2. Len(g) # 0  BY <1>1, <2>1
  <2>3. start < t - window /\ g[j] \in Nat /\ g[j] <= start + window  BY <1>1, <2>1, <2>2
  <2>4. QED BY <1>2, <2>1, <2>3
<1>6. ASSUME NEW j \in DOMAIN G, j + 1 + limit <= Len(G) PROVE G[j] + window < t
  <2>a. j + 1 + limit <= Len(g) + 1  BY <1>2, <1>6
  <2>b. j \in Nat /\ j >= 1 /\ Len(g) \in Nat  BY <1>1, <1>3
  <2>1. j \in 1..Len(g) /\ j + limit <= Len(g)  BY <2>a, <2>b
  <2>2. Len(g) # 0  BY <1>1, <2>1
  <2>3. start < t - window /\ g[j] \in Nat /\ g[j] < start  BY <1>1, <2>1, <2>2
  <2>4. g[j] + window < t  BY <2>3
  <2>5. QED BY <1>2, <2>1, <2>4
<1>7. ASSUME NEW j \in DOMAIN G, j + 2 * limit \in DOMAIN G PROVE G[j + 2 * limit] - G[j] >= window
  <2>1. CASE j + 2 * limit \in 1..Len(g)
    <3>1. j \in 1..Len(g)  BY <1>1, <1>3, <2>1
    <3>2. QED BY <1>1, <1>2, <2>1, <3>1
  <2>2. CASE j + 2 * limit = Len(g) + 1
    <3>1. j + 1 + limit <= Len(G)  BY <1>2, <1>3, <2>2
    <3>2. G[j] + window < t /\ G[j] \in Nat  BY <1>4, <1>6, <3>1
    <3>3. G[j + 2 * limit] = t  BY <1>2, <2>2
    <3>4. t - G[j] >= window  BY <3>2
    <3>5. QED BY <3>3, <3>4
  <2>3. QED BY <1>3, <1>7, <2>1, <2>2
<1>8. G # <<>> /\ 1 <= Len(G) /\ 1 \in 0..limit + 1 /\ t \in 0..t  BY <1>1, <1>2
<1>9. Counts(G, t, 1, t, limit, window)
  BY <1>2, <1>4, <1>5, <1>6, <1>7, <1>8 DEF Counts, RL!AtMost
<1>10. QED BY <1>9 DEF G

LEMMA LimitInit == RL!Init => LimitInv
<1> SUFFICES ASSUME RL!Init PROVE LimitInv
  OBVIOUS
<1>1. LimitTyped  BY DEF RL!Init, LimitTyped
<1>2. ASSUME NEW i \in Ids
      PROVE  /\ Ascends(hits[i], clock) /\ Tailed(granted[i], hits[i], clock, RequestLimit[i], Window[i])
             /\ granted[i] = <<>>
             /\ Counts(dbGranted[i], rows[i].start, rows[i].n, clock, RequestLimit[i], Window[i])
  <2>1. /\ hits[i] = <<>> /\ granted[i] = <<>> /\ dbGranted[i] = <<>> /\ clock = 0
        /\ rows[i].start = 0 /\ rows[i].n = 0
    BY DEF RL!Init
  <2>2. RequestLimit[i] \in Nat /\ Window[i] \in Nat /\ clock \in Nat  BY <2>1, LimitConstants
  <2>3. QED BY <2>1, <2>2, NothingGranted
<1>3. QED BY <1>1, <1>2 DEF LimitInv

\* A request that the map's limiter takes: of what stays in the map only its bucket changes.
LEMMA MapStep ==
    ASSUME LimitInv, NEW id \in Ids, RL!RateLimit(id)
    PROVE  LimitInv'
<1> DEFINE kept == RL!Pruned(id)
           limit == RequestLimit[id]
           window == Window[id]
           keys == IF id \in RL!ToSet(inserted) THEN inserted ELSE Append(inserted, id)
           after == [hits EXCEPT ![id] = Append(kept, clock)]
           left == RL!Evict(keys, after, window)
<1>1. UNCHANGED <<limiter, clock, rows, dbGranted>>  BY DEF RL!RateLimit
<1>2. IF Len(kept) >= limit
      THEN hits' = [hits EXCEPT ![id] = kept] /\ UNCHANGED <<inserted, granted, evicted>>
      ELSE /\ inserted' = left
           /\ hits' = [i \in Ids |-> IF i \in RL!ToSet(inserted') THEN after[i] ELSE <<>>]
           /\ granted' = [granted EXCEPT ![id] = Append(@, clock)]
           /\ evicted' = evicted \cup ((RL!ToSet(inserted) \cup {id}) \ RL!ToSet(inserted'))
  BY DEF RL!RateLimit
<1>3. /\ Ascends(kept, clock) /\ Len(kept) <= Len(hits[id])
      /\ \A k \in DOMAIN kept : kept[k] = hits[id][k + (Len(hits[id]) - Len(kept))]
      /\ \A k \in DOMAIN hits[id] : k + Len(kept) <= Len(hits[id]) => clock - hits[id][k] >= window
  BY PrunedTail
<1> HIDE DEF kept, left
<1>4. limit \in Nat /\ limit >= 1 /\ window \in Nat /\ clock \in Nat  BY LimitConstants DEF LimitInv, LimitTyped
<1>5. kept \in Seq(Nat) /\ Len(kept) \in Nat  BY <1>3 DEF Ascends
<1>6. id \notin evicted => Tailed(granted[id], kept, clock, limit, window)
  BY <1>3, <1>4, <1>5, TailOfTail DEF LimitInv
<1>7. hits \in [Ids -> Seq(Nat)] /\ granted \in [Ids -> Seq(Nat)]  BY DEF LimitInv, LimitTyped
<1>8. CASE Len(kept) >= limit
  <2>1. hits' = [hits EXCEPT ![id] = kept] /\ UNCHANGED <<inserted, granted, evicted>>  BY <1>2, <1>8
  <2>2. hits' \in [Ids -> Seq(Nat)] /\ \A i \in Ids : hits'[i] = IF i = id THEN kept ELSE hits[i]
    BY <1>5, <1>7, <2>1
  <2>3. LimitTyped'  BY <1>1, <2>1, <2>2 DEF LimitInv, LimitTyped
  <2>4. \A i \in Ids : Ascends(hits'[i], clock)  BY <1>3, <2>2 DEF LimitInv
  <2>5. \A i \in Ids \ evicted : Tailed(granted[i], hits'[i], clock, RequestLimit[i], Window[i])
    BY <1>6, <2>2 DEF LimitInv
  <2>6. QED BY <1>1, <2>1, <2>3, <2>4, <2>5 DEF LimitInv
<1>9. CASE ~(Len(kept) >= limit)
  <2>1. /\ hits' = [i \in Ids |-> IF i \in RL!ToSet(inserted') THEN after[i] ELSE <<>>]
        /\ granted' = [granted EXCEPT ![id] = Append(@, clock)]
        /\ evicted' = evicted \cup ((RL!ToSet(inserted) \cup {id}) \ RL!ToSet(inserted'))
    BY <1>2, <1>9
  <2> DEFINE more == Append(kept, clock)
  <2>2. more \in Seq(Nat)  BY <1>4, <1>5
  <2>3. Ascends(more, clock)  BY <1>3, <1>4, AscentGrows
  <2> HIDE DEF more
  <2>4. \A i \in Ids : after[i] = IF i = id THEN more ELSE hits[i]  BY <1>7 DEF more
  <2>5. \A i \in Ids : hits'[i] = IF i \notin RL!ToSet(inserted') THEN <<>> ELSE IF i = id THEN more ELSE hits[i]
    BY <2>1, <2>4
  <2>6. hits' \in [Ids -> Seq(Nat)]
    <3>1. \A i \in Ids : after[i] \in Seq(Nat)  BY <1>7, <2>2, <2>4
    <3>2. <<>> \in Seq(Nat)  OBVIOUS
    <3> HIDE DEF after
    <3>3. QED BY <2>1, <3>1, <3>2
  <2>7. \A i \in Ids : granted'[i] = IF i = id THEN Append(granted[id], clock) ELSE granted[i]
    BY <1>7, <2>1
  <2>8. granted' \in [Ids -> Seq(Nat)]
    <3>1. Append(granted[id], clock) \in Seq(Nat)  BY <1>4, <1>7
    <3>2. QED BY <1>7, <2>1, <3>1
  <2>9. LimitTyped'  BY <1>1, <2>6, <2>8 DEF LimitInv, LimitTyped
  <2>10. \A i \in Ids : Ascends(hits'[i], clock)
    BY <1>4, <2>3, <2>5, NothingGranted, LimitConstants DEF LimitInv
  <2>11. id \notin evicted => Tailed(Append(granted[id], clock), more, clock, limit, window)
    <3>1. Len(kept) < limit  BY <1>4, <1>5, <1>9
    <3>2. QED BY <1>4, <1>6, <3>1, TailGrows DEF more
  <2>12. ASSUME NEW i \in Ids \ evicted'
         PROVE  /\ Tailed(granted'[i], hits'[i], clock, RequestLimit[i], Window[i])
                /\ i \in RL!ToSet(inserted') \/ granted'[i] = <<>>
    <3>1. i \notin evicted /\ (i \in RL!ToSet(inserted) \cup {id} => i \in RL!ToSet(inserted'))  BY <2>1, <2>12
    <3>2. CASE i = id  BY <2>5, <2>7, <2>11, <3>1, <3>2
    <3>3. CASE i # id /\ i \in RL!ToSet(inserted')
      BY <2>5, <2>7, <3>1, <3>3 DEF LimitInv
    <3>4. CASE i # id /\ i \notin RL!ToSet(inserted')
      <4>1. granted[i] = <<>>  BY <3>1, <3>4 DEF LimitInv
      <4>2. granted'[i] = <<>> /\ hits'[i] = <<>>  BY <2>5, <2>7, <3>4, <4>1
      <4>3. RequestLimit[i] \in Nat /\ Window[i] \in Nat  BY LimitConstants
      <4>4. Tailed(<<>>, <<>>, clock, RequestLimit[i], Window[i])  BY <1>4, <4>3, NothingGranted
      <4>5. QED BY <4>2, <4>4
    <3>5. QED BY <3>2, <3>3, <3>4
  <2>13. QED BY <1>1, <2>9, <2>10, <2>12 DEF LimitInv
<1>10. QED BY <1>8, <1>9

\* A request that the shared counters take.
LEMMA RowStep ==
    ASSUME LimitInv, NEW id \in Ids, RL!DbRateLimit(id)
    PROVE  LimitInv'
<1> DEFINE r == rows[id]
           row == RL!Counted(rows[id], Window[id])
           limit == RequestLimit[id]
           window == Window[id]
           g == dbGranted[id]
           G == IF row.n <= limit THEN Append(g, clock) ELSE g
<1>1. /\ UNCHANGED <<limiter, clock, inserted, hits, granted, evicted>>
      /\ row.n <= limit + 1
      /\ rows' = [rows EXCEPT ![id] = row]
      /\ dbGranted' = (IF row.n <= limit THEN [dbGranted EXCEPT ![id] = Append(@, clock)] ELSE dbGranted)
  BY DEF RL!DbRateLimit
<1>2. /\ limit \in Nat /\ limit >= 1 /\ window \in Nat /\ clock \in Nat
      /\ rows \in [Ids -> [start: Nat, n: Nat]] /\ dbGranted \in [Ids -> Seq(Nat)]
      /\ Counts(g, r.start, r.n, clock, limit, window)
  BY LimitConstants DEF LimitInv, LimitTyped
<1>3. r.start \in Nat /\ r.n \in Nat /\ r \in [start: Nat, n: Nat]  BY <1>2
<1>4. row \in [start: Nat, n: Nat] /\ Counts(G, row.start, row.n, clock, limit, window)
  <2>1. CASE r.n = 0 \/ r.start < clock - window
    <3>1. row = [start |-> clock, n |-> 1]  BY <2>1 DEF RL!Counted
    <3>2. row \in [start: Nat, n: Nat] /\ row.start = clock /\ row.n = 1  BY <1>2, <3>1
    <3>3. G = Append(g, clock)  BY <1>2, <3>2
    <3> HIDE DEF r, row, g, G
    <3>4. Counts(Append(g, clock), clock, 1, clock, limit, window)  BY <1>2, <1>3, <2>1, CountStartsAgain
    <3>5. QED BY <3>2, <3>3, <3>4
  <2>2. CASE ~(r.n = 0 \/ r.start < clock - window)
    <3>1. row = [r EXCEPT !.n = @ + 1]  BY <2>2 DEF RL!Counted
    <3>2. row.start = r.start /\ row.n = r.n + 1 /\ row \in [start: Nat, n: Nat]
      <4> DEFINE m == r.n + 1
      <4>1. m \in Nat  BY <1>3
      <4>2. row = [r EXCEPT !.n = m]  BY <3>1
      <4> HIDE DEF m, row, r
      <4>3. row.start = r.start /\ row.n = m /\ row \in [start: Nat, n: Nat]  BY <1>3, <4>1, <4>2
      <4>4. QED BY <4>3 DEF m
    <3>3. CASE row.n <= limit
      <4>1. G = Append(g, clock)  BY <3>3
      <4> HIDE DEF r, row, g, G
      <4>2. r.n + 1 <= limit  BY <3>2, <3>3
      <4>3. Counts(Append(g, clock), r.start, r.n + 1, clock, limit, window)
        BY <1>2, <1>3, <2>2, <4>2, CountGoesOn
      <4>4. QED BY <3>2, <4>1, <4>3
    <3>4. CASE ~(row.n <= limit)
      <4>1. G = g  BY <3>4
      <4> HIDE DEF r, row, g, G
      <4>2. ~(r.n + 1 <= limit) /\ r.n + 1 <= limit + 1  BY <1>1, <3>2, <3>4
      <4>3. Counts(g, r.start, r.n + 1, clock, limit, window)  BY <1>2, <1>3, <4>2, CountStops
      <4>4. QED BY <3>2, <4>1, <4>3
    <3>5. QED BY <3>3, <3>4
  <2>3. QED BY <2>1, <2>2
<1> HIDE DEF row
<1>5. \A i \in Ids : /\ rows'[i] = IF i = id THEN row ELSE rows[i]
                     /\ dbGranted'[i] = IF i = id THEN G ELSE dbGranted[i]
  BY <1>1, <1>2
<1>6. rows' \in [Ids -> [start: Nat, n: Nat]]  BY <1>1, <1>2, <1>4
<1>7. dbGranted' \in [Ids -> Seq(Nat)]
  <2>1. Append(g, clock) \in Seq(Nat)  BY <1>2
  <2>2. QED BY <1>1, <1>2, <2>1
<1>8. LimitTyped'  BY <1>1, <1>6, <1>7 DEF LimitInv, LimitTyped
<1> HIDE DEF G
<1>9. \A i \in Ids : Counts(dbGranted'[i], rows'[i].start, rows'[i].n, clock, RequestLimit[i], Window[i])
  BY <1>4, <1>5 DEF LimitInv
<1>10. QED BY <1>1, <1>8, <1>9 DEF LimitInv

LEMMA LimitNext == LimitInv /\ [RL!Next]_(RL!vars) => LimitInv'
<1> SUFFICES ASSUME LimitInv, [RL!Next]_(RL!vars) PROVE LimitInv'
  OBVIOUS
<1>1. CASE RL!Tick
  <2>1. clock' = clock + 1 /\ UNCHANGED <<limiter, inserted, hits, rows, granted, dbGranted, evicted>>
    BY <1>1 DEF RL!Tick
  <2>2. clock \in Nat /\ LimitTyped'  BY <2>1 DEF LimitInv, LimitTyped
  <2>3. ASSUME NEW i \in Ids
        PROVE  /\ Ascends(hits[i], clock + 1)
               /\ Counts(dbGranted[i], rows[i].start, rows[i].n, clock + 1, RequestLimit[i], Window[i])
               /\ i \notin evicted => Tailed(granted[i], hits[i], clock + 1, RequestLimit[i], Window[i])
    <3>1. RequestLimit[i] \in Nat /\ Window[i] \in Nat /\ rows[i].start \in Nat /\ rows[i].n \in Nat
      BY LimitConstants DEF LimitInv, LimitTyped
    <3>2. Ascends(hits[i], clock + 1)  BY <2>2, AscentAges DEF LimitInv
    <3>3. Counts(dbGranted[i], rows[i].start, rows[i].n, clock + 1, RequestLimit[i], Window[i])
      BY <2>2, <3>1, CountAges DEF LimitInv
    <3>4. i \notin evicted => Tailed(granted[i], hits[i], clock + 1, RequestLimit[i], Window[i])
      BY <2>2, <3>1, TailAges DEF LimitInv
    <3>5. QED BY <3>2, <3>3, <3>4
  <2>4. QED BY <2>1, <2>2, <2>3 DEF LimitInv
<1>2. CASE UNCHANGED RL!vars  BY <1>2 DEF RL!vars, LimitInv, LimitTyped
<1>3. QED BY <1>1, <1>2, MapStep, RowStep DEF RL!Next

\* However requests and time interleave and whatever the map drops besides, no window of a
\* bucket's length has more requests than its limit, and none more than twice that of a shared counter.
THEOREM WindowsHold == ServicesSpec => []WindowHolds
<1>1. ServicesInit => LimitInv  BY LimitInit DEF ServicesInit
<1>2. LimitInv /\ [ServicesNext]_all => LimitInv'  BY LimitNext, PartsStep
<1>3. LimitInv => WindowHolds
  BY DEF LimitInv, Tailed, Counts, WindowHolds, RL!WindowHolds
<1>4. QED BY <1>1, <1>2, <1>3, PTL DEF ServicesSpec
=============================================================================
