------------------------------ MODULE ConnPool ------------------------------
(***************************************************************************)
(* The Postgres connection pool of the Go server (internal/db/db.go):      *)
(* goroutines that take a connection, dial one, or queue for one, use it   *)
(* for a statement or a transaction and give it back, with deadlines that  *)
(* run out anywhere, connections that break, and a pool that is closed     *)
(* under its users.  One action per critical section of d.mu or per        *)
(* exchange with the database between two of them.                         *)
(*                                                                         *)
(* Which of the idle connections is reused, the moment one went idle and   *)
(* the rows a statement returns are left out.                              *)
(***************************************************************************)
EXTENDS Naturals, Sequences, FiniteSets

CONSTANTS Callers,   \* goroutines that query
          Conns,     \* identities a socket may have; one more than MaxConns is enough
          MaxConns,  \* d.maxConns
          None       \* no connection

ASSUME PoolAssumption ==
    /\ IsFiniteSet(Callers) /\ IsFiniteSet(Conns)
    /\ None \notin Conns
    /\ MaxConns \in Nat \ {0}

VARIABLES idle,     \* connections waiting for a user
          open,     \* d.open: slots of maxConns that are taken
          waiters,  \* d.waiters: who queued, oldest first
          closed,   \* d.closed
          pc,       \* where each caller is
          conn,     \* the connection a caller owns
          broken,   \* connections whose Broken() is true
          inTx      \* connections the server holds a transaction open on

vars == <<idle, open, waiters, closed, pc, conn, broken, inTx>>

Places == {"out", "loop", "probing", "dialing", "queued", "woken",
           "query", "begin", "fn", "commit", "rollback", "release"}
Owning == {"probing", "query", "begin", "fn", "commit", "rollback", "release"}

Init ==
    /\ idle = {} /\ open = 0 /\ waiters = <<>> /\ closed = FALSE
    /\ pc = [p \in Callers |-> "out"]
    /\ conn = [p \in Callers |-> None]
    /\ broken = {} /\ inTx = {}
-----------------------------------------------------------------------------
(* The helpers that run under d.mu. *)

\* Sequence s without its i-th element.
Without(s, i) == [j \in 1 .. Len(s) - 1 |-> IF j < i THEN s[j] ELSE s[j + 1]]

\* The waiter wakeLocked pops.  Mutant: the youngest first.
WakeYoungest(s) == Len(s)
WakeIndex(s) == 1

\* p moves on; wakeLocked: one waiter, if there is one, leaves the queue and is signalled.
WakeLocked(p, to) ==
    IF waiters = <<>>
    THEN pc' = [pc EXCEPT ![p] = to] /\ UNCHANGED waiters
    ELSE /\ pc' = [pc EXCEPT ![p] = to, ![waiters[WakeIndex(waiters)]] = "woken"]
         /\ waiters' = Without(waiters, WakeIndex(waiters))

\* p's connection is closed: its slot is free, and the server forgets its transaction.
\* Mutants: the slot is kept; nobody is told.
ForgetKeepingSlot(p, to) ==
    /\ UNCHANGED open
    /\ conn' = [conn EXCEPT ![p] = None]
    /\ broken' = broken \ {conn[p]} /\ inTx' = inTx \ {conn[p]}
    /\ WakeLocked(p, to)
Forget(p, to) ==
    /\ open' = open - 1
    /\ conn' = [conn EXCEPT ![p] = None]
    /\ broken' = broken \ {conn[p]} /\ inTx' = inTx \ {conn[p]}
    /\ WakeLocked(p, to)
-----------------------------------------------------------------------------
(* acquire. *)

\* A goroutine calls Query, Exec or Tx.
Call(p) ==
    /\ pc[p] = "out"
    /\ pc' = [pc EXCEPT ![p] = "loop"]
    /\ UNCHANGED <<idle, open, waiters, closed, conn, broken, inTx>>

Refuse(p) ==
    /\ pc[p] = "loop" /\ closed
    /\ pc' = [pc EXCEPT ![p] = "out"]
    /\ UNCHANGED <<idle, open, waiters, closed, conn, broken, inTx>>

\* Mutant of TakeIdle: the connection stays in the idle list.
PeekIdle(p) == \E c \in idle :
    /\ pc[p] = "loop" /\ ~closed
    /\ conn' = [conn EXCEPT ![p] = c]
    /\ pc' = [pc EXCEPT ![p] = "probing"]
    /\ UNCHANGED <<idle, open, waiters, closed, broken, inTx>>
TakeIdle(p) == \E c \in idle :
    /\ pc[p] = "loop" /\ ~closed
    /\ idle' = idle \ {c}
    /\ conn' = [conn EXCEPT ![p] = c]
    /\ pc' = [pc EXCEPT ![p] = "probing"]
    /\ UNCHANGED <<open, waiters, closed, broken, inTx>>

\* stillAlive: recent, taken on trust once the deadline has passed, or it answers the probe.
ProbeAlive(p) == \E use \in {"query", "begin"} :
    /\ pc[p] = "probing" /\ conn[p] \notin broken
    /\ pc' = [pc EXCEPT ![p] = use]
    /\ UNCHANGED <<idle, open, waiters, closed, conn, broken, inTx>>

\* It was dropped while idle: close it and go round the loop again.
ProbeDead(p) ==
    /\ pc[p] = "probing"
    /\ Forget(p, "loop")
    /\ UNCHANGED <<idle, closed>>

\* Mutant of HasRoom: one connection too many.
HasRoomAndOne == open <= MaxConns
HasRoom == open < MaxConns

\* Reserve a slot, then dial outside the lock.
Reserve(p) ==
    /\ pc[p] = "loop" /\ ~closed /\ idle = {} /\ HasRoom
    /\ open' = open + 1
    /\ pc' = [pc EXCEPT ![p] = "dialing"]
    /\ UNCHANGED <<idle, waiters, closed, conn, broken, inTx>>

\* Connections that exist.
Live == idle \cup {conn[p] : p \in {q \in Callers : pc[q] \in Owning}}

DialOK(p) == \E c \in Conns \ Live, use \in {"query", "begin"} :
    /\ pc[p] = "dialing"
    /\ conn' = [conn EXCEPT ![p] = c]
    /\ pc' = [pc EXCEPT ![p] = use]
    /\ UNCHANGED <<idle, open, waiters, closed, broken, inTx>>

\* The dial fails or the deadline passes: the slot is given up and the error returned.
DialFails(p) ==
    /\ pc[p] = "dialing"
    /\ Forget(p, "out")
    /\ UNCHANGED <<idle, closed>>

\* Queue under the lock hold that saw the pool exhausted.
Enqueue(p) ==
    /\ pc[p] = "loop" /\ ~closed /\ idle = {} /\ ~HasRoom
    /\ waiters' = Append(waiters, p)
    /\ pc' = [pc EXCEPT ![p] = "queued"]
    /\ UNCHANGED <<idle, open, closed, conn, broken, inTx>>

\* A signalled waiter goes round the loop again: it has been promised nothing.
Resume(p) ==
    /\ pc[p] = "woken"
    /\ pc' = [pc EXCEPT ![p] = "loop"]
    /\ UNCHANGED <<idle, open, waiters, closed, conn, broken, inTx>>

\* The deadline passes first.  Still queued: dropWaiterLocked takes it out of the queue.
LeaveQueue(p) == \E i \in DOMAIN waiters :
    /\ pc[p] = "queued" /\ waiters[i] = p
    /\ waiters' = Without(waiters, i)
    /\ pc' = [pc EXCEPT ![p] = "out"]
    /\ UNCHANGED <<idle, open, closed, conn, broken, inTx>>

\* Already signalled: the wake-up is passed on.  Mutant: it leaves with this caller.
KeepWake(p) ==
    /\ pc[p] = "woken"
    /\ pc' = [pc EXCEPT ![p] = "out"]
    /\ UNCHANGED <<idle, open, waiters, closed, conn, broken, inTx>>
PassOn(p) ==
    /\ pc[p] = "woken"
    /\ WakeLocked(p, "out")
    /\ UNCHANGED <<idle, open, closed, conn, broken, inTx>>
-----------------------------------------------------------------------------
(* Use. *)

\* A statement fails: refused by the server, or the stream is lost (I/O error, deadline).
Fails(p) == broken' \in {broken, broken \cup {conn[p]}}

\* Query, Exec: one statement, and the connection goes back whatever came of it.
Query(p) ==
    /\ pc[p] = "query"
    /\ Fails(p)
    /\ pc' = [pc EXCEPT ![p] = "release"]
    /\ UNCHANGED <<idle, open, waiters, closed, conn, inTx>>

\* Tx: BEGIN, whose answer may be lost after the server obeyed.
Begin(p) ==
    /\ pc[p] = "begin"
    /\ \/ /\ inTx' = inTx \cup {conn[p]} /\ UNCHANGED broken
          /\ pc' = [pc EXCEPT ![p] = "fn"]
       \/ /\ inTx' \in {inTx, inTx \cup {conn[p]}} /\ Fails(p)
          /\ pc' = [pc EXCEPT ![p] = "rollback"]
    /\ UNCHANGED <<idle, open, waiters, closed, conn>>

\* fn runs its statements on the transaction's connection and returns an error or none (a panic
\* unwinds like an error).
Fn(p) ==
    /\ pc[p] = "fn"
    /\ \/ pc' = [pc EXCEPT ![p] = "commit"] /\ UNCHANGED broken
       \/ pc' = [pc EXCEPT ![p] = "rollback"] /\ Fails(p)
    /\ UNCHANGED <<idle, open, waiters, closed, conn, inTx>>

Commit(p) ==
    /\ pc[p] = "commit"
    /\ \/ /\ inTx' = inTx \ {conn[p]} /\ UNCHANGED broken
          /\ pc' = [pc EXCEPT ![p] = "release"]
       \/ /\ inTx' \in {inTx, inTx \ {conn[p]}} /\ Fails(p)
          /\ pc' = [pc EXCEPT ![p] = "rollback"]
    /\ UNCHANGED <<idle, open, waiters, closed, conn>>

\* The deferred ROLLBACK; a connection that refuses it is marked broken.  Mutant: it is not.
RollbackUnmarked(p) ==
    /\ pc[p] = "rollback"
    /\ pc' = [pc EXCEPT ![p] = "release"]
    /\ UNCHANGED broken /\ inTx' \in {inTx, inTx \ {conn[p]}}
    /\ UNCHANGED <<idle, open, waiters, closed, conn>>
Rollback(p) ==
    /\ pc[p] = "rollback"
    /\ pc' = [pc EXCEPT ![p] = "release"]
    /\ \/ inTx' = inTx \ {conn[p]} /\ UNCHANGED broken
       \/ broken' = broken \cup {conn[p]} /\ UNCHANGED inTx
    /\ UNCHANGED <<idle, open, waiters, closed, conn>>
-----------------------------------------------------------------------------
(* release and Close. *)

ReleaseBroken(p) ==
    /\ pc[p] = "release" /\ conn[p] \in broken
    /\ Forget(p, "out")
    /\ UNCHANGED <<idle, closed>>

\* After Close the connection is closed; the slot count no longer matters and nobody is woken.
ReleaseClosed(p) ==
    /\ pc[p] = "release" /\ conn[p] \notin broken /\ closed
    /\ conn' = [conn EXCEPT ![p] = None]
    /\ inTx' = inTx \ {conn[p]}
    /\ pc' = [pc EXCEPT ![p] = "out"]
    /\ UNCHANGED <<idle, open, waiters, closed, broken>>

\* When a connection goes back to the idle list.  Mutant: whether or not the pool is closed.
KeepsEver == TRUE
Keeps == ~closed

ReleaseIdle(p) ==
    /\ pc[p] = "release" /\ conn[p] \notin broken /\ Keeps
    /\ idle' = idle \cup {conn[p]}
    /\ conn' = [conn EXCEPT ![p] = None]
    /\ WakeLocked(p, "out")
    /\ UNCHANGED <<open, closed, broken, inTx>>

\* Close drains the idle list and leaves the rest to their users.
Close ==
    /\ ~closed
    /\ closed' = TRUE
    /\ inTx' = inTx \ idle /\ broken' = broken \ idle
    /\ idle' = {}
    /\ UNCHANGED <<open, waiters, pc, conn>>

Acquire(p) ==
    \/ Call(p) \/ Refuse(p) \/ TakeIdle(p) \/ ProbeAlive(p) \/ ProbeDead(p)
    \/ Reserve(p) \/ DialOK(p) \/ DialFails(p) \/ Enqueue(p)
    \/ Resume(p) \/ LeaveQueue(p) \/ PassOn(p)
Use(p) == Query(p) \/ Begin(p) \/ Fn(p) \/ Commit(p) \/ Rollback(p)
Release(p) == ReleaseBroken(p) \/ ReleaseClosed(p) \/ ReleaseIdle(p)

Next == Close \/ \E p \in Callers : Acquire(p) \/ Use(p) \/ Release(p)

Spec == Init /\ [][Next]_vars

\* A caller that is not queued keeps going: the mutex is fair, dials and probes carry deadlines, and
\* every statement ends.  No deadline is assumed for a queued caller.
Working(p) ==
    \/ Refuse(p) \/ TakeIdle(p) \/ ProbeAlive(p) \/ ProbeDead(p) \/ Reserve(p) \/ DialOK(p)
    \/ DialFails(p) \/ Enqueue(p) \/ Resume(p) \/ PassOn(p) \/ Use(p) \/ Release(p)

FairSpec == Spec /\ \A p \in Callers : WF_vars(Working(p))
-----------------------------------------------------------------------------
(* Properties. *)

\* Every variable stays in its range; open never passes maxConns.
TypeOK ==
    /\ idle \in SUBSET Conns
    /\ open \in 0 .. MaxConns
    /\ waiters \in Seq(Callers)
    /\ closed \in BOOLEAN
    /\ pc \in [Callers -> Places]
    /\ conn \in [Callers -> Conns \cup {None}]
    /\ broken \in SUBSET Conns /\ inTx \in SUBSET Conns

\* The callers that occupy one of the slots.
Holders == {p \in Callers : pc[p] \in Owning \cup {"dialing"}}

\* Until the pool is closed open counts exactly the idle connections and the callers that hold or
\* dial one, over every path acquire and release can take; after that it is an upper bound.
SlotsAccounted ==
    /\ Cardinality(idle) + Cardinality(Holders) <= open
    /\ ~closed => open = Cardinality(idle) + Cardinality(Holders)

\* No connection has two users, nor a user while it is listed idle.
OneOwner ==
    /\ \A p \in Callers : pc[p] \in Owning <=> conn[p] # None
    /\ \A p, q \in Callers : conn[p] # None /\ conn[p] = conn[q] => p = q
    /\ \A p \in Callers : conn[p] \notin idle

\* A connection is handed on with no transaction open on it and its stream in step, however the
\* last user's transaction ended (the deferred ROLLBACK of Tx, MarkBroken, Broken).
IdleIsClean == idle \cap (inTx \cup broken) = {}

\* The queue is the callers that wait in it, each once.
QueueOK ==
    /\ \A p \in Callers : pc[p] = "queued" <=> \E i \in DOMAIN waiters : waiters[i] = p
    /\ \A i, j \in DOMAIN waiters : waiters[i] = waiters[j] => i = j

\* The callers that are about to look for a connection.
Coming == {p \in Callers : pc[p] \in {"loop", "woken"}}

\* "a release() in between would otherwise wake nobody, and this caller would sleep beside an idle
\* connection until its deadline": while anyone is queued, every free slot and idle connection has
\* a caller of its own on the way to it.
NoLostWakeup ==
    waiters # <<>> /\ ~closed => Cardinality(idle) + (MaxConns - open) <= Cardinality(Coming)

\* "Close drains the idle connections. In-flight connections are closed on release."
ClosedDrains == closed => idle = {}

\* A queued caller is signalled, however late its deadline, unless the pool is closed.
QueuedIsWoken == \A p \in Callers : pc[p] = "queued" ~> pc[p] # "queued" \/ closed
=============================================================================
