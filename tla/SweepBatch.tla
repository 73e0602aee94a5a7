------------------------------ MODULE SweepBatch ------------------------------
(***************************************************************************)
(* The batched health sweep.  A scheduler outside the server (the workflow *)
(* health-cron.yml) calls /api/cron/health until it answers done, passing  *)
(* each answer's cursor to the next call.  A call (runHealthSweep in       *)
(* lib/health-sweep.ts) sorts the stale rows, drops those up to the cursor *)
(* and lets a few workers pull the rest under a limit on verdicts, a limit *)
(* on rows and, on a metered host, a budget of outbound fetches of which   *)
(* every row reserves its ceiling (lib/cf-env.ts).                         *)
(*                                                                         *)
(* Abstracted: lastCheckedAt is a row's place in the order of the rows by  *)
(* it (ties by id), so that a cursor is a rank and the rows at or before   *)
(* it in that order; a call's queue is the set of its rows, which Ahead    *)
(* orders; a check is a number of fetches and what it returns.  Rows are   *)
(* not added or removed, and none grows stale, while a sweep is under way. *)
(***************************************************************************)
EXTENDS Naturals, FiniteSets

CONSTANTS Rows,          \* entry ids, from 1
          Workers,       \* BATCH_CONCURRENCY of them
          Parkers,       \* rows whose check may answer "pending" (Apple, Deezer)
          Limit,         \* ?batch=
          AttemptMax,    \* rows a call may start
          FetchBudget, PerEntryFetchMax,
          MaxPasses,     \* calls the scheduler makes before it gives up
          MaxOutside     \* bound: failed statements, reports and single checks in all

VARIABLES metered,        \* the host counts outbound fetches
          order,          \* each row's place by lastCheckedAt, stalest first
          pending, stale, \* rows with status pending; rows past STALE_AFTER_MS
          driver,         \* the scheduler: phase, cursor, calls made
          call,           \* the call: its queue and the rows as it read them
          spent, reserved,
          worker,         \* what each worker of the call does
          owed,           \* history: rows stale when the sweep began and not seen to yet
          outside         \* how many of those there were

rowVars == <<order, pending, stale>>
vars == <<metered, order, pending, stale, driver, call, spent, reserved, worker, owed, outside>>

Start == [rank |-> 1, behind |-> {}]     \* SWEEP_START_CURSOR
Cursors == [rank: {0, 1}, behind: SUBSET Rows]
NoRow == 0
Out == [at |-> "out", row |-> NoRow, left |-> 0, refused |-> FALSE]

SweepTypeOK ==
    /\ metered \in BOOLEAN
    /\ order \in [Rows -> 1..Cardinality(Rows)]
    /\ pending \subseteq Rows /\ stale \subseteq Rows /\ owed \subseteq Rows
    /\ driver \in [phase: {"idle", "call", "answer", "done"}, cursor: Cursors, first: BOOLEAN,
                   pass: 0..MaxPasses]
    /\ call.queue \subseteq Rows /\ call.started \subseteq call.queue /\ call.finished \subseteq call.started
    /\ call.checked \in 0..Cardinality(call.finished)
    /\ spent \in 0..FetchBudget /\ reserved \in Nat
    /\ worker \in [Workers -> [at: {"out", "pull", "check"}, row: Rows \cup {NoRow},
                               left: 0..PerEntryFetchMax, refused: BOOLEAN]]
    /\ outside \in 0..MaxOutside

NoCall == [queue |-> {}, order |-> [r \in Rows |-> 0], pending |-> {}, moved |-> {}, started |-> {},
           checked |-> 0, finished |-> {}, budgetHit |-> FALSE, headroomHit |-> FALSE, failed |-> FALSE]

Init ==
    /\ metered \in BOOLEAN
    /\ order = [r \in Rows |-> Cardinality({q \in Rows : q <= r})]
    /\ pending = {} /\ stale = {} /\ owed = {}
    /\ driver = [phase |-> "idle", cursor |-> Start, first |-> TRUE, pass |-> 0]
    /\ call = NoCall
    /\ spent = 0 /\ reserved = 0 /\ outside = 0
    /\ worker = [w \in Workers |-> Out]

----------------------------------------------------------------------------
(* The scheduler. *)

\* Six hours have passed: every verdict is stale.
BeginSweep ==
    /\ driver.phase \in {"idle", "done"}
    /\ stale' = Rows /\ owed' = Rows
    /\ driver' = [phase |-> "call", cursor |-> Start, first |-> TRUE, pass |-> 0]
    /\ UNCHANGED <<metered, order, pending, call, spent, reserved, worker, outside>>

\* Mutant: the cursor is ignored.
WholeQueue(c) == stale \cup pending

\* parseCursor, afterCursor: strictly after the cursor in the order of the queue.
After(r, c) ==
    LET rank == IF r \in pending THEN 1 ELSE 0
    IN  rank < c.rank \/ (rank = c.rank /\ r \notin c.behind)

\* The stale and the parked rows; only what lies after the cursor.
Queue(c) == {r \in stale \cup pending : After(r, c)}

BeginCall ==
    /\ driver.phase = "call"
    /\ driver' = [driver EXCEPT !.phase = "answer", !.pass = @ + 1]
    /\ call' = [NoCall EXCEPT !.queue = Queue(driver.cursor), !.order = order, !.pending = pending]
    /\ worker' = [w \in Workers |-> [Out EXCEPT !.at = "pull"]]
    /\ spent' = 0 /\ reserved' = 0
    /\ UNCHANGED <<metered, rowVars, owed, outside>>

\* The queue's order, of the rows as the call read them: parked rows first, then the stalest.
Ahead(q, r) ==
    LET parked(x) == x \in call.pending
    IN  \/ parked(q) /\ ~parked(r)
        \/ parked(q) = parked(r) /\ call.order[q] < call.order[r]
FirstOf(S) == CHOOSE r \in S : \A q \in S : q = r \/ Ahead(r, q)
LastOf(S) == CHOOSE r \in S : \A q \in S : q = r \/ Ahead(q, r)

\* Mutant: all up to the last row that finished, whatever is unfinished before it.
ConsumedToLast == {r \in call.queue : \E f \in call.finished : f = r \/ Ahead(r, f)}

\* The rows consumed: the cursor ends before the first whose check never returned.
Consumed == {r \in call.queue : \A q \in call.queue : (q = r \/ Ahead(q, r)) => q \in call.finished}

\* formatCursor: the key is the row's as the call read it; a row that was checked
\* since has a later lastCheckedAt and so does not lie behind it any more.
CursorAt(r) ==
    [rank |-> IF r \in call.pending THEN 1 ELSE 0,
     behind |-> {q \in Rows : call.order[q] <= call.order[r]} \ call.moved]

\* The scheduler gives up when a call made no progress and does not blame its budget.
Stuck(cursor) == ~driver.first /\ cursor = driver.cursor /\ ~(call.budgetHit \/ call.headroomHit)

Answer ==
    LET cursor == IF Consumed = {} THEN driver.cursor ELSE CursorAt(LastOf(Consumed))
    IN  /\ driver.phase = "answer"
        /\ \A w \in Workers : worker[w].at = "out"
        /\ driver' = [driver EXCEPT
              !.phase = IF call.failed THEN "idle"
                        ELSE IF Consumed = call.queue THEN "done"
                        ELSE IF Stuck(cursor) \/ driver.pass = MaxPasses THEN "idle" ELSE "call",
              !.cursor = cursor, !.first = FALSE]
        /\ call' = NoCall
        /\ spent' = 0 /\ reserved' = 0
        /\ UNCHANGED <<metered, rowVars, worker, owed, outside>>

----------------------------------------------------------------------------
(* The workers of a call. *)

Busy == {w \in Workers : worker[w].at = "check"}
\* fetchHeadroom: what neither spent nor reserved fetches have taken.
Fits == metered => spent + reserved + PerEntryFetchMax <= FetchBudget

\* One synchronous stretch: the loop's condition, the head-room and the reservation.
Pull(w) ==
    LET more == /\ ~call.budgetHit
                /\ call.started # call.queue
                /\ call.checked + Cardinality(Busy) < Limit
                /\ Cardinality(call.started) < AttemptMax
        row == FirstOf(call.queue \ call.started)
    IN  /\ worker[w].at = "pull"
        /\ IF more /\ Fits
           THEN /\ worker' = [worker EXCEPT ![w] = [at |-> "check", row |-> row,
                                                    left |-> PerEntryFetchMax, refused |-> FALSE]]
                /\ reserved' = reserved + PerEntryFetchMax
                /\ call' = [call EXCEPT !.started = @ \cup {row}]
           ELSE /\ worker' = [worker EXCEPT ![w] = Out]
                /\ call' = [call EXCEPT !.headroomHit = @ \/ more]
                /\ UNCHANGED reserved
        /\ UNCHANGED <<metered, rowVars, driver, spent, owed, outside>>

\* chargeFetch. A fetch that is refused throws, and the check turns that into a result.
Fetch(w) ==
    /\ metered /\ worker[w].at = "check" /\ ~worker[w].refused
    /\ IF spent >= FetchBudget \/ worker[w].left = 0
       THEN worker' = [worker EXCEPT ![w].refused = TRUE] /\ UNCHANGED <<spent, reserved>>
       ELSE /\ worker' = [worker EXCEPT ![w].left = @ - 1]
            /\ spent' = spent + 1 /\ reserved' = reserved - 1
    /\ UNCHANGED <<metered, rowVars, driver, call, owed, outside>>

\* The check is over; its ceiling's rest is released and the worker pulls again.
Leave(w, c) ==
    /\ call' = c
    /\ worker' = [worker EXCEPT ![w] = [Out EXCEPT !.at = "pull"]]
    /\ reserved' = reserved - worker[w].left
    /\ owed' = IF worker[w].row \in c.finished THEN owed \ {worker[w].row} ELSE owed
    /\ UNCHANGED <<metered, driver, spent, outside>>

Finished(w) == [call EXCEPT !.finished = @ \cup {worker[w].row}]
\* Mutant: only the request's budget is looked at.
SpendLooksFine(w) == metered => spent < FetchBudget

\* Neither the request's budget nor the row's ceiling is used up.
Reliable(w) == metered => spent < FetchBudget /\ worker[w].left > 0

\* The request's budget is gone: nothing is kept, and the next call starts at this row.
GiveUp(w) ==
    /\ worker[w].at = "check" /\ metered /\ spent >= FetchBudget
    /\ Leave(w, [call EXCEPT !.budgetHit = TRUE])
    /\ UNCHANGED rowVars

\* The row used up its ceiling: no verdict, but consumed.
Starve(w) ==
    /\ worker[w].at = "check" /\ metered /\ spent < FetchBudget /\ worker[w].left = 0
    /\ Leave(w, Finished(w))
    /\ UNCHANGED rowVars

\* Refresh cooling, or the refresh claim was lost: nothing is written.
Skip(w) ==
    /\ worker[w].at = "check" /\ Reliable(w)
    /\ Leave(w, Finished(w))
    /\ UNCHANGED rowVars

MoveLast(r) == [q \in Rows |-> IF q = r THEN Cardinality(Rows)
                               ELSE IF order[q] > order[r] THEN order[q] - 1 ELSE order[q]]
Written(r, parked) ==
    /\ order' = MoveLast(r)
    /\ pending' = IF parked THEN pending \cup {r} ELSE pending \ {r}
    /\ stale' = stale \ {r}

Persist(w) ==
    LET r == worker[w].row
    IN  /\ worker[w].at = "check" /\ Reliable(w)
        /\ \E parked \in {FALSE} \cup {TRUE : x \in Parkers \cap {r}} : Written(r, parked)
        /\ Leave(w, [Finished(w) EXCEPT !.checked = @ + 1, !.moved = @ \cup {r}])

Outside == outside < MaxOutside /\ outside' = outside + 1

\* A statement of the row fails: the call answers 500.
Fail(w) ==
    /\ worker[w].at = "check" /\ Outside
    /\ call' = [call EXCEPT !.failed = TRUE]
    /\ worker' = [worker EXCEPT ![w] = Out]
    /\ reserved' = reserved - worker[w].left
    /\ UNCHANGED <<metered, rowVars, driver, spent, owed>>

----------------------------------------------------------------------------
(* What others do to the rows meanwhile. *)

\* A report parks a row: it leads the next sweep.
Park(r) ==
    /\ r \notin pending /\ driver.phase \in {"call", "answer"} /\ Outside
    /\ pending' = pending \cup {r} /\ owed' = owed \ {r}
    /\ UNCHANGED <<metered, order, stale, driver, call, spent, reserved, worker>>

\* A single check gives it a verdict.
CheckOne(r) ==
    /\ r \in stale \cup pending /\ driver.phase \in {"call", "answer"} /\ Outside
    /\ Written(r, FALSE)
    /\ owed' = owed \ {r}
    /\ call' = IF driver.phase = "answer" THEN [call EXCEPT !.moved = @ \cup {r}] ELSE call
    /\ UNCHANGED <<metered, driver, spent, reserved, worker>>

WorkerNext(w) ==
    Pull(w) \/ Fetch(w) \/ GiveUp(w) \/ Starve(w) \/ Skip(w) \/ Persist(w)
Next ==
    \/ BeginSweep \/ BeginCall \/ Answer
    \/ \E w \in Workers : WorkerNext(w) \/ Fail(w)
    \/ \E r \in Rows : Park(r) \/ CheckOne(r)
Spec == Init /\ [][Next]_vars

\* The scheduler keeps calling, and a check ends: every probe has a timeout.
Fairness == /\ WF_vars(BeginSweep \/ BeginCall \/ Answer)
            /\ \A w \in Workers : WF_vars(WorkerNext(w))
FairSpec == Spec /\ Fairness

----------------------------------------------------------------------------
\* A refused fetch is not the provider's answer: no verdict is written from a check
\* that had one refused, though the check itself reports it as a dead source.
NoTaintedVerdict ==
    [][\A w \in Workers : Persist(w) => ~worker[w].refused]_vars

\* "Concurrent starts can never oversubscribe the remaining head-room" (lib/cf-env.ts): what is
\* reserved is what the checks under way may still fetch, and the budget has room for all of it,
\* so no check is cut off because of another.
Outstanding == {p \in Busy \X (1..PerEntryFetchMax) : p[2] <= worker[p[1]].left}
NotOversubscribed ==
    /\ reserved = Cardinality(Outstanding)
    /\ metered => spent + reserved <= FetchBudget

\* The workers of a call share its queue between them: no row is checked by two of them, nor
\* again once its check has returned.
CheckedOnce ==
    \A w \in Busy : /\ worker[w].row \notin call.finished
                    /\ \A v \in Busy \ {w} : worker[v].row # worker[w].row

\* Done means done: when the scheduler hears it, every row that was stale when the sweep
\* began was checked, skipped or starved in it, or parked or checked by someone else,
\* whatever the budget cut off and in whatever order the workers finished.
DoneMeansAll == driver.phase = "done" => owed = {}

\* No prefix of rows starves the tail: each row that is due is seen to, in this sweep
\* or in a later one.
TailIsReached == \A r \in Rows : r \in owed ~> r \notin owed
=============================================================================
