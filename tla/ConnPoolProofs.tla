--------------------------- MODULE ConnPoolProofs ---------------------------
(***************************************************************************)
(* Proofs about the connection pool, for any number of callers and         *)
(* connections.                                                            *)
(***************************************************************************)
EXTENDS ConnPool, FiniteSetTheorems, SequenceTheorems, TLAPS

\* The types, without the range of open, which rests on the accounting.
Typed ==
    /\ idle \in SUBSET Conns /\ open \in Int
    /\ waiters \in Seq(Callers)
    /\ closed \in BOOLEAN
    /\ pc \in [Callers -> Places]
    /\ conn \in [Callers -> Conns \cup {None}]
    /\ broken \in SUBSET Conns /\ inTx \in SUBSET Conns

\* Why idle connections are clean: marks sit on connections in use, a connection that still takes
\* its first statement has none, and one that goes back unbroken has no transaction.
MarksOK ==
    /\ \A c \in broken \cup inTx : \E p \in Callers : conn[p] = c
    /\ \A p \in Callers :
          /\ pc[p] \in {"probing", "query", "begin"} => conn[p] \notin broken \cup inTx
          /\ pc[p] = "release" => conn[p] \in broken \/ conn[p] \notin inTx

\* The steps that end in wakeLocked with p going elsewhere than to the queue.
Wakes(p) == pc[p] # "queued" /\ (WakeLocked(p, "out") \/ WakeLocked(p, "loop"))

\* The steps that leave the queue alone.
Moves(p) ==
    /\ pc[p] # "queued" /\ waiters' = waiters
    /\ \E to \in Places \ {"queued"} : pc' = [pc EXCEPT ![p] = to]

\* What a waking step does to the callers: p moves, and the oldest waiter, if any, is signalled.
Signals(p) ==
    /\ pc'[p] \in {"out", "loop"}
    /\ \/ /\ waiters = <<>> /\ waiters' = <<>>
          /\ \A q \in Callers \ {p} : pc'[q] = pc[q]
       \/ \E w \in Callers \ {p} :
             /\ waiters # <<>> /\ pc[w] = "queued" /\ pc'[w] = "woken"
             /\ \A q \in Callers \ {p, w} : pc'[q] = pc[q]

-----------------------------------------------------------------------------
(* Sequences. *)

\* Dropping one element of a sequence without repetitions removes it and nothing else.
LEMMA WithoutDrops ==
    ASSUME NEW S, NEW s \in Seq(S), NEW i \in DOMAIN s,
           \A j, k \in DOMAIN s : s[j] = s[k] => j = k
    PROVE  /\ Without(s, i) \in Seq(S)
           /\ DOMAIN Without(s, i) = 1 .. Len(s) - 1
           /\ \A j, k \in DOMAIN Without(s, i) : Without(s, i)[j] = Without(s, i)[k] => j = k
           /\ \A x : (\E j \in DOMAIN Without(s, i) : Without(s, i)[j] = x)
                     <=> x # s[i] /\ \E j \in DOMAIN s : s[j] = x
<1>1. Len(s) \in Nat /\ DOMAIN s = 1 .. Len(s) /\ \A j \in 1 .. Len(s) : s[j] \in S
  BY LenProperties, ElementOfSeq
<1>2. i \in 1 .. Len(s) /\ Len(s) - 1 \in Nat  BY <1>1
<1> DEFINE t == Without(s, i)
<1>3. t \in [1 .. Len(s) - 1 -> S]  BY <1>1, <1>2 DEF Without
<1>4. t \in Seq(S)  BY <1>2, <1>3, SeqDef
<1>5. \A j \in 1 .. Len(s) - 1 : t[j] = IF j < i THEN s[j] ELSE s[j + 1]  BY DEF Without
<1>6. DOMAIN t = 1 .. Len(s) - 1  BY <1>3
<1>7. \A j, k \in DOMAIN t : t[j] = t[k] => j = k
  BY <1>1, <1>2, <1>5, <1>6
<1>8. ASSUME NEW x, NEW j \in DOMAIN t, t[j] = x
      PROVE  x # s[i] /\ \E k \in DOMAIN s : s[k] = x
  BY <1>1, <1>2, <1>5, <1>6, <1>8
<1>9. ASSUME NEW x, x # s[i], NEW j \in DOMAIN s, s[j] = x
      PROVE  \E k \in DOMAIN t : t[k] = x
  <2>1. CASE j < i
    <3>1. j \in DOMAIN t /\ t[j] = x  BY <1>1, <1>2, <1>5, <1>6, <1>9, <2>1
    <3>2. QED BY <3>1
  <2>2. CASE j > i
    <3>1. j - 1 \in DOMAIN t /\ t[j - 1] = x  BY <1>1, <1>2, <1>5, <1>6, <1>9, <2>2
    <3>2. QED BY <3>1
  <2>3. j # i  BY <1>9
  <2>4. QED BY <1>1, <1>2, <2>1, <2>2, <2>3
<1>10. QED BY <1>4, <1>6, <1>7, <1>8, <1>9

-----------------------------------------------------------------------------
(* Types and the queue. *)

\* wakeLocked signals the caller at the head of the queue and nobody else.
LEMMA WakeSignals ==
    ASSUME Typed, QueueOK, NEW p \in Callers, Wakes(p)
    PROVE  /\ pc' \in [Callers -> Places] /\ waiters' \in Seq(Callers)
           /\ QueueOK' /\ Signals(p)
<1>1. pc \in [Callers -> Places] /\ waiters \in Seq(Callers)  BY DEF Typed
<1>2. PICK to \in {"out", "loop"} : WakeLocked(p, to)  BY DEF Wakes
<1>3. pc[p] # "queued"  BY DEF Wakes
<1>4. CASE waiters = <<>>
  <2>1. pc' = [pc EXCEPT ![p] = to] /\ waiters' = waiters  BY <1>2, <1>4 DEF WakeLocked
  <2>2. pc'[p] = to /\ \A q \in Callers \ {p} : pc'[q] = pc[q]  BY <1>1, <2>1
  <2>3. pc' \in [Callers -> Places]  BY <1>1, <2>1 DEF Places
  <2>4. QueueOK'  BY <1>3, <2>1, <2>2 DEF QueueOK
  <2>5. QED BY <1>1, <1>4, <2>1, <2>2, <2>3, <2>4 DEF Signals
<1>5. CASE waiters # <<>>
  <2> DEFINE w == waiters[1]
  <2>1. 1 \in DOMAIN waiters /\ w \in Callers
    BY <1>1, <1>5, EmptySeq, LenProperties, ElementOfSeq
  <2>2. pc' = [pc EXCEPT ![p] = to, ![w] = "woken"] /\ waiters' = Without(waiters, 1)
    BY <1>2, <1>5 DEF WakeLocked, WakeIndex
  <2>a. waiters' = Without(waiters, 1) /\ waiters[1] = w  BY <2>2
  <2> HIDE DEF w
  <2>3. pc[w] = "queued" /\ w # p  BY <1>3, <2>1, <2>a DEF QueueOK
  <2>4. pc'[p] = to /\ pc'[w] = "woken" /\ \A q \in Callers \ {p, w} : pc'[q] = pc[q]
    BY <1>1, <2>1, <2>2, <2>3
  <2>5. pc' \in [Callers -> Places]  BY <1>1, <2>2 DEF Places
  <2>6. \A j, k \in DOMAIN waiters : waiters[j] = waiters[k] => j = k  BY DEF QueueOK
  <2>b. LET t == Without(waiters, 1) IN
        /\ t \in Seq(Callers)
        /\ \A j, k \in DOMAIN t : t[j] = t[k] => j = k
        /\ \A q : (\E j \in DOMAIN t : t[j] = q)
                  <=> q # waiters[1] /\ \E j \in DOMAIN waiters : waiters[j] = q
    BY <1>1, <2>1, <2>6, WithoutDrops
  <2>7. /\ waiters' \in Seq(Callers)
        /\ \A j, k \in DOMAIN waiters' : waiters'[j] = waiters'[k] => j = k
        /\ \A q : (\E j \in DOMAIN waiters' : waiters'[j] = q)
                  <=> q # w /\ \E j \in DOMAIN waiters : waiters[j] = q
    BY <2>a, <2>b
  <2>8. \A q \in Callers : pc'[q] = "queued" <=> pc[q] = "queued" /\ q # w
    BY <1>3, <2>3, <2>4
  <2>9. QueueOK'  BY <2>7, <2>8 DEF QueueOK
  <2>10. QED BY <1>5, <2>1, <2>3, <2>4, <2>5, <2>7, <2>9 DEF Signals
<1>6. QED BY <1>4, <1>5

LEMMA MoveKeepsQueue ==
    ASSUME Typed, QueueOK, NEW p \in Callers, Moves(p)
    PROVE  pc' \in [Callers -> Places] /\ waiters' \in Seq(Callers) /\ QueueOK'
<1>1. pc \in [Callers -> Places] /\ waiters \in Seq(Callers)  BY DEF Typed
<1>2. PICK to \in Places \ {"queued"} : pc' = [pc EXCEPT ![p] = to]  BY DEF Moves
<1>3. pc[p] # "queued" /\ waiters' = waiters  BY DEF Moves
<1>4. \A q \in Callers : pc'[q] = "queued" <=> pc[q] = "queued"  BY <1>1, <1>2, <1>3
<1>5. QED BY <1>1, <1>2, <1>3, <1>4 DEF QueueOK

\* Every step moves one caller, wakes, queues or leaves the queue.
LEMMA StepShapes ==
    ASSUME NEW p \in Callers, Acquire(p) \/ Use(p) \/ Release(p)
    PROVE  Moves(p) \/ Wakes(p) \/ Enqueue(p) \/ LeaveQueue(p)
<1>1. CASE Call(p) \/ Refuse(p) \/ TakeIdle(p) \/ ProbeAlive(p)
  BY <1>1 DEF Call, Refuse, TakeIdle, ProbeAlive, Moves, Places
<1>2. CASE Reserve(p) \/ DialOK(p) \/ Resume(p)
  BY <1>2 DEF Reserve, DialOK, Resume, Moves, Places
<1>3. CASE ProbeDead(p) \/ DialFails(p) \/ PassOn(p)
  BY <1>3 DEF ProbeDead, DialFails, PassOn, Forget, Wakes
<1>4. CASE Use(p)
  BY <1>4 DEF Use, Query, Begin, Fn, Commit, Rollback, Moves, Places
<1>5. CASE Release(p)
  BY <1>5 DEF Release, ReleaseBroken, ReleaseClosed, ReleaseIdle, Forget, Wakes, Moves, Places
<1>6. QED BY <1>1, <1>2, <1>3, <1>4, <1>5 DEF Acquire

\* The types and the queue are kept by every step.
LEMMA TypedNext ==
    ASSUME Typed, QueueOK, OneOwner, [Next]_vars
    PROVE  Typed' /\ QueueOK'
<1>1. ASSUME NEW p \in Callers, Acquire(p) \/ Use(p) \/ Release(p)
      PROVE  /\ idle' \in SUBSET Conns /\ open' \in Int /\ closed' \in BOOLEAN
             /\ conn' \in [Callers -> Conns \cup {None}]
             /\ broken' \in SUBSET Conns /\ inTx' \in SUBSET Conns
  <2>a. conn[p] \in Conns \cup {None} /\ (pc[p] \in Owning => conn[p] \in Conns)
    BY DEF Typed, OneOwner
  <2>1. idle' \in SUBSET Conns
    BY <1>1, <2>a DEF Acquire, Call, Refuse, TakeIdle, ProbeAlive, ProbeDead, Reserve, DialOK,
                DialFails, Enqueue, Resume, LeaveQueue, PassOn, Use, Query, Begin, Fn, Commit,
                Rollback, Release, ReleaseBroken, ReleaseClosed, ReleaseIdle, Typed, Owning
  <2>2. open' \in Int /\ closed' \in BOOLEAN
    BY <1>1 DEF Acquire, Call, Refuse, TakeIdle, ProbeAlive, ProbeDead, Reserve, DialOK,
                DialFails, Enqueue, Resume, LeaveQueue, PassOn, Use, Query, Begin, Fn, Commit,
                Rollback, Release, ReleaseBroken, ReleaseClosed, ReleaseIdle, Forget, Typed
  <2>3. conn' \in [Callers -> Conns \cup {None}]
    <3>1. conn \in [Callers -> Conns \cup {None}] /\ idle \in SUBSET Conns  BY DEF Typed
    <3>2. conn' = conn \/ \E c \in Conns \cup {None} : conn' = [conn EXCEPT ![p] = c]
      BY <1>1, <3>1 DEF Acquire, Call, Refuse, TakeIdle, ProbeAlive, ProbeDead, Reserve, DialOK,
                DialFails, Enqueue, Resume, LeaveQueue, PassOn, Use, Query, Begin, Fn, Commit,
                Rollback, Release, ReleaseBroken, ReleaseClosed, ReleaseIdle, Forget
    <3>3. QED BY <3>1, <3>2
  <2>4. broken' \in SUBSET Conns /\ inTx' \in SUBSET Conns
    <3>1. CASE Use(p)
      BY <2>a, <3>1 DEF Use, Query, Begin, Fn, Commit, Rollback, Fails, Typed, Owning
    <3>2. CASE Acquire(p) \/ Release(p)
      BY <3>2 DEF Acquire, Call, Refuse, TakeIdle, ProbeAlive, ProbeDead, Reserve, DialOK,
                DialFails, Enqueue, Resume, LeaveQueue, PassOn, Release, ReleaseBroken,
                ReleaseClosed, ReleaseIdle, Forget, Typed
    <3>3. QED BY <1>1, <3>1, <3>2
  <2>5. QED BY <2>1, <2>2, <2>3, <2>4
<1>2. ASSUME NEW p \in Callers, Acquire(p) \/ Use(p) \/ Release(p)
      PROVE  pc' \in [Callers -> Places] /\ waiters' \in Seq(Callers) /\ QueueOK'
  <2>a. pc \in [Callers -> Places] /\ waiters \in Seq(Callers)  BY DEF Typed
  <2>1. CASE Enqueue(p)
    <3>1. waiters' = Append(waiters, p) /\ pc' = [pc EXCEPT ![p] = "queued"] /\ pc[p] = "loop"
      BY <2>1 DEF Enqueue
    <3>2. \A i \in DOMAIN waiters : waiters[i] # p  BY <3>1 DEF QueueOK
    <3>3. /\ waiters' \in Seq(Callers) /\ Len(waiters) \in Nat
          /\ DOMAIN waiters = 1 .. Len(waiters)
          /\ DOMAIN waiters' = 1 .. Len(waiters) + 1
          /\ waiters'[Len(waiters) + 1] = p
          /\ \A i \in DOMAIN waiters : waiters'[i] = waiters[i]
      BY <2>a, <3>1, AppendProperties, LenProperties
    <3>4. \A q \in Callers \ {p} : pc'[q] = pc[q]  BY <2>a, <3>1
    <3>5. pc'[p] = "queued" /\ pc' \in [Callers -> Places]  BY <2>a, <3>1 DEF Places
    <3>6. \A q : (\E i \in DOMAIN waiters' : waiters'[i] = q)
                <=> q = p \/ \E i \in DOMAIN waiters : waiters[i] = q
      BY <3>3
    <3>7. \A i, j \in DOMAIN waiters' : waiters'[i] = waiters'[j] => i = j
      BY <3>2, <3>3 DEF QueueOK
    <3>8. QED BY <3>3, <3>4, <3>5, <3>6, <3>7 DEF QueueOK
  <2>2. CASE LeaveQueue(p)
    <3>1. PICK i \in DOMAIN waiters : waiters[i] = p /\ waiters' = Without(waiters, i)
      BY <2>2 DEF LeaveQueue
    <3>2. pc' = [pc EXCEPT ![p] = "out"] /\ pc[p] = "queued"  BY <2>2 DEF LeaveQueue
    <3>3. \A j, k \in DOMAIN waiters : waiters[j] = waiters[k] => j = k  BY DEF QueueOK
    <3>4. LET t == Without(waiters, i) IN
          /\ t \in Seq(Callers)
          /\ \A j, k \in DOMAIN t : t[j] = t[k] => j = k
          /\ \A q : (\E j \in DOMAIN t : t[j] = q)
                    <=> q # waiters[i] /\ \E j \in DOMAIN waiters : waiters[j] = q
      BY <2>a, <3>3, WithoutDrops
    <3>5. pc' \in [Callers -> Places] /\ \A q \in Callers :
            pc'[q] = "queued" <=> pc[q] = "queued" /\ q # p
      BY <2>a, <3>2 DEF Places
    <3>6. QED BY <3>1, <3>4, <3>5 DEF QueueOK
  <2>3. QED BY <1>2, <2>1, <2>2, StepShapes, WakeSignals, MoveKeepsQueue
<1>3. CASE Close
  BY <1>3 DEF Close, Typed, QueueOK
<1>4. CASE UNCHANGED vars
  BY <1>4 DEF vars, Typed, QueueOK
<1>5. QED BY <1>1, <1>2, <1>3, <1>4 DEF Next, Typed
-----------------------------------------------------------------------------
(* Owners. *)

\* A step of p leaves everyone else's connection alone, and moves at most a queued caller.
LEMMA OthersStand ==
    ASSUME Typed, QueueOK, NEW p \in Callers, Acquire(p) \/ Use(p) \/ Release(p),
           NEW q \in Callers \ {p}
    PROVE  /\ conn'[q] = conn[q]
           /\ pc'[q] = pc[q] \/ (pc[q] = "queued" /\ pc'[q] = "woken")
<1>1. conn'[q] = conn[q]
  BY DEF Acquire, Call, Refuse, TakeIdle, ProbeAlive, ProbeDead, Reserve, DialOK,
         DialFails, Enqueue, Resume, LeaveQueue, PassOn, Use, Query, Begin, Fn, Commit,
         Rollback, Release, ReleaseBroken, ReleaseClosed, ReleaseIdle, Forget, Typed
<1>2. CASE Moves(p)
  BY <1>1, <1>2 DEF Moves, Typed
<1>3. CASE Wakes(p)
  BY <1>1, <1>3, WakeSignals DEF Signals
<1>4. CASE Enqueue(p) \/ LeaveQueue(p)
  BY <1>1, <1>4 DEF Enqueue, LeaveQueue, Typed
<1>5. QED BY <1>2, <1>3, <1>4, StepShapes

\* What becomes of the stepping caller's own place and connection.
LEMMA OwnMove ==
    ASSUME Typed, QueueOK, OneOwner, NEW p \in Callers, Acquire(p) \/ Use(p) \/ Release(p)
    PROVE  \/ /\ conn'[p] = conn[p] /\ (pc'[p] \in Owning <=> pc[p] \in Owning)
              /\ idle' = idle
           \/ /\ conn'[p] \in Conns \ Live /\ pc'[p] \in Owning /\ idle' = idle
           \/ /\ conn'[p] \in idle /\ idle' = idle \ {conn'[p]} /\ pc'[p] \in Owning
           \/ /\ conn'[p] = None /\ pc'[p] \notin Owning
              /\ idle' = idle \/ (idle' = idle \cup {conn[p]} /\ pc[p] \in Owning)
<1>a. pc \in [Callers -> Places] /\ conn \in [Callers -> Conns \cup {None}]  BY DEF Typed
<1>1. CASE Call(p) \/ Refuse(p) \/ ProbeAlive(p) \/ Reserve(p) \/ Enqueue(p) \/ Resume(p)
           \/ LeaveQueue(p) \/ Use(p)
  BY <1>a, <1>1 DEF Call, Refuse, ProbeAlive, Reserve, Enqueue, Resume, LeaveQueue,
                    Use, Query, Begin, Fn, Commit, Rollback, Owning
<1>2. CASE PassOn(p)
  <2>1. Wakes(p) /\ pc[p] = "woken" /\ conn' = conn /\ idle' = idle
    BY <1>2 DEF PassOn, Wakes
  <2>2. QED BY <2>1, WakeSignals DEF Signals, Owning
<1>3. CASE TakeIdle(p)
  BY <1>a, <1>3 DEF TakeIdle, Owning
<1>4. CASE DialOK(p)
  BY <1>a, <1>4 DEF DialOK, Owning
<1>5. CASE ProbeDead(p) \/ DialFails(p) \/ ReleaseBroken(p)
  <2>1. Wakes(p) /\ conn' = [conn EXCEPT ![p] = None] /\ idle' = idle
    BY <1>5 DEF ProbeDead, DialFails, ReleaseBroken, Forget, Wakes
  <2>2. QED BY <1>a, <2>1, WakeSignals DEF Signals, Owning
<1>6. CASE ReleaseIdle(p)
  <2>1. Wakes(p) /\ conn' = [conn EXCEPT ![p] = None] /\ idle' = idle \cup {conn[p]}
        /\ pc[p] = "release"
    BY <1>6 DEF ReleaseIdle, Wakes
  <2>2. QED BY <1>a, <2>1, WakeSignals DEF Signals, Owning
<1>7. CASE ReleaseClosed(p)
  BY <1>a, <1>7 DEF ReleaseClosed, Owning
<1>8. QED BY <1>1, <1>2, <1>3, <1>4, <1>5, <1>6, <1>7 DEF Acquire, Release

\* One owner per connection, through every step.
LEMMA OwnerNext ==
    ASSUME Typed, QueueOK, OneOwner, [Next]_vars
    PROVE  OneOwner'
<1>1. ASSUME NEW p \in Callers, Acquire(p) \/ Use(p) \/ Release(p)
      PROVE  OneOwner'
  <2>1. \A q \in Callers \ {p} :
          /\ conn'[q] = conn[q] /\ (pc'[q] \in Owning <=> pc[q] \in Owning)
    BY <1>1, OthersStand DEF Owning
  <2>2. \A q \in Callers : (pc[q] \in Owning => conn[q] \in Live) /\ conn[q] \notin idle
    BY DEF Live, OneOwner
  <2>3. None \notin Conns /\ idle \subseteq Conns  BY PoolAssumption DEF Typed
  <2>4. CASE conn'[p] = conn[p] /\ (pc'[p] \in Owning <=> pc[p] \in Owning) /\ idle' = idle
    BY <2>1, <2>4 DEF OneOwner
  <2>5. CASE conn'[p] \in Conns \ Live /\ pc'[p] \in Owning /\ idle' = idle
    <3>1. \A q \in Callers \ {p} : conn'[q] # conn'[p]
      BY <2>1, <2>2, <2>3, <2>5 DEF OneOwner
    <3>2. conn'[p] \notin idle'  BY <2>5 DEF Live
    <3>3. QED BY <2>1, <2>3, <2>5, <3>1, <3>2 DEF OneOwner
  <2>6. CASE conn'[p] \in idle /\ idle' = idle \ {conn'[p]} /\ pc'[p] \in Owning
    BY <2>1, <2>2, <2>3, <2>6 DEF OneOwner
  <2>7. CASE /\ conn'[p] = None /\ pc'[p] \notin Owning
             /\ idle' = idle \/ (idle' = idle \cup {conn[p]} /\ pc[p] \in Owning)
    <3>1. None \notin idle'  BY <2>3, <2>7 DEF OneOwner, Typed
    <3>2. \A q \in Callers \ {p} : conn'[q] \notin idle'
      BY <2>1, <2>7 DEF OneOwner
    <3>3. QED BY <2>1, <2>7, <3>1, <3>2 DEF OneOwner
  <2>8. QED BY <1>1, <2>4, <2>5, <2>6, <2>7, OwnMove
<1>2. CASE Close \/ UNCHANGED vars
  BY <1>2 DEF Close, vars, OneOwner
<1>3. QED BY <1>1, <1>2 DEF Next

\* A mark sits on a connection somebody owns, and never survives into the idle list.
LEMMA MarksNext ==
    ASSUME Typed, QueueOK, OneOwner, MarksOK, [Next]_vars
    PROVE  MarksOK'
<1>1. ASSUME NEW p \in Callers, Acquire(p) \/ Use(p) \/ Release(p)
      PROVE  MarksOK'
  <2>a. pc \in [Callers -> Places] /\ conn \in [Callers -> Conns \cup {None}]
        /\ broken \cup inTx \subseteq Conns /\ None \notin Conns
    BY PoolAssumption DEF Typed
  <2>b. \A q \in Callers \ {p} :
          /\ conn'[q] = conn[q]
          /\ pc'[q] = pc[q] \/ (pc[q] = "queued" /\ pc'[q] = "woken")
    BY <1>1, OthersStand
  <2>c. ASSUME broken' \subseteq broken, inTx' \subseteq inTx,
               \A q \in Callers : pc[q] = "release" /\ conn[q] \in broken /\ q # p
                                  => conn[q] \in broken',
               conn'[p] = conn[p] \/ conn[p] \notin broken' \cup inTx',
               pc'[p] \in {"probing", "query", "begin"} => conn'[p] \notin broken' \cup inTx',
               pc'[p] # "release"
        PROVE  MarksOK'
    <3>1. \A c \in broken' \cup inTx' : \E q \in Callers : conn'[q] = c
      <4>1. TAKE c \in broken' \cup inTx'
      <4>2. PICK q \in Callers : conn[q] = c  BY <2>c DEF MarksOK
      <4>3. conn'[q] = c  BY <2>b, <2>c, <4>2
      <4>4. QED BY <4>3
    <3>2. ASSUME NEW q \in Callers \ {p}
          PROVE  /\ pc'[q] \in {"probing", "query", "begin"} => conn'[q] \notin broken' \cup inTx'
                 /\ pc'[q] = "release" => conn'[q] \in broken' \/ conn'[q] \notin inTx'
      BY <2>b, <2>c DEF MarksOK
    <3>3. QED BY <2>c, <3>1, <3>2 DEF MarksOK
  <2>1. CASE Call(p) \/ Refuse(p) \/ ProbeAlive(p) \/ Reserve(p) \/ Enqueue(p) \/ Resume(p)
             \/ LeaveQueue(p)
    <3>1. broken' = broken /\ inTx' = inTx /\ conn' = conn
      BY <2>1 DEF Call, Refuse, ProbeAlive, Reserve, Enqueue, Resume, LeaveQueue
    <3>2. pc'[p] \in {"loop", "out", "dialing", "queued"}
          \/ (pc[p] = "probing" /\ pc'[p] \in {"query", "begin"})
      BY <2>a, <2>1 DEF Call, Refuse, ProbeAlive, Reserve, Enqueue, Resume, LeaveQueue
    <3>3. QED BY <2>c, <3>1, <3>2 DEF MarksOK
  <2>2. CASE PassOn(p)
    <3>1. Wakes(p) /\ broken' = broken /\ inTx' = inTx /\ conn' = conn
      BY <2>2 DEF PassOn, Wakes
    <3>2. pc'[p] \in {"loop", "out"}  BY <3>1, WakeSignals DEF Signals
    <3>3. QED BY <2>c, <3>1, <3>2
  <2>3. CASE TakeIdle(p)
    <3>1. PICK c \in idle : conn' = [conn EXCEPT ![p] = c]  BY <2>3 DEF TakeIdle
    <3>2. pc'[p] = "probing" /\ conn'[p] = c /\ broken' = broken /\ inTx' = inTx
          /\ pc[p] = "loop"
      BY <2>a, <2>3, <3>1 DEF TakeIdle
    <3>3. c \notin broken \cup inTx  BY DEF MarksOK, OneOwner
    <3>4. conn[p] = None  BY <3>2 DEF OneOwner, Owning
    <3>5. QED BY <2>a, <2>c, <3>2, <3>3, <3>4
  <2>4. CASE DialOK(p)
    <3>1. PICK c \in Conns \ Live : conn' = [conn EXCEPT ![p] = c]  BY <2>4 DEF DialOK
    <3>2. pc'[p] \in {"query", "begin"} /\ conn'[p] = c /\ broken' = broken /\ inTx' = inTx
          /\ pc[p] = "dialing"
      BY <2>a, <2>4, <3>1 DEF DialOK
    <3>3. \A q \in Callers : conn[q] # c  BY <2>a, <3>1 DEF OneOwner, Live
    <3>4. c \notin broken \cup inTx  BY <3>3 DEF MarksOK
    <3>5. conn[p] = None  BY <3>2 DEF OneOwner, Owning
    <3>6. QED BY <2>a, <2>c, <3>2, <3>4, <3>5
  <2>5. CASE ProbeDead(p) \/ DialFails(p) \/ ReleaseBroken(p)
    <3>1. Wakes(p) /\ broken' = broken \ {conn[p]} /\ inTx' = inTx \ {conn[p]}
      BY <2>5 DEF ProbeDead, DialFails, ReleaseBroken, Forget, Wakes
    <3>2. pc'[p] \in {"loop", "out"}  BY <3>1, WakeSignals DEF Signals
    <3>3. \A q \in Callers \ {p} : conn[q] \in broken => conn[q] \in broken'
      BY <2>a, <3>1 DEF OneOwner
    <3>4. QED BY <2>c, <3>1, <3>2, <3>3
  <2>6. CASE ReleaseIdle(p) \/ ReleaseClosed(p)
    <3>1. pc[p] = "release" /\ conn[p] \notin broken /\ broken' = broken
          /\ inTx' \subseteq inTx
      BY <2>6 DEF ReleaseIdle, ReleaseClosed
    <3>2. pc'[p] = "out"
      <4>1. CASE ReleaseIdle(p)
        <5>1. WakeLocked(p, "out") /\ Wakes(p)  BY <4>1 DEF ReleaseIdle, Wakes
        <5>2. CASE waiters = <<>>  BY <2>a, <5>1, <5>2 DEF WakeLocked
        <5>3. CASE waiters # <<>>
          <6>1. 1 \in DOMAIN waiters  BY <5>3, EmptySeq, LenProperties DEF Typed
          <6>2. waiters[1] # p  BY <3>1, <6>1 DEF QueueOK
          <6>3. QED BY <2>a, <5>1, <5>3, <6>2 DEF WakeLocked, WakeIndex
        <5>4. QED BY <5>2, <5>3
      <4>2. CASE ReleaseClosed(p)  BY <2>a, <4>2 DEF ReleaseClosed
      <4>3. QED BY <2>6, <4>1, <4>2
    <3>3. conn[p] \notin broken \cup inTx  BY <3>1 DEF MarksOK
    <3>4. QED BY <2>c, <3>1, <3>2, <3>3
  <2>7. CASE Use(p)
    <3>1. conn' = conn /\ conn[p] \in Conns
      BY <2>a, <2>7 DEF Use, Query, Begin, Fn, Commit, Rollback, OneOwner, Owning
    <3>2. broken \subseteq broken' /\ broken' \subseteq broken \cup {conn[p]}
          /\ inTx' \subseteq inTx \cup {conn[p]}
      BY <2>7 DEF Use, Query, Begin, Fn, Commit, Rollback, Fails
    <3>3. /\ pc'[p] \in {"fn", "commit", "rollback", "release"}
          /\ pc'[p] = "release" => conn[p] \in broken' \/ conn[p] \notin inTx'
      BY <2>a, <2>7 DEF Use, Query, Begin, Fn, Commit, Rollback, MarksOK
    <3>4. \A c \in broken' \cup inTx' : \E q \in Callers : conn'[q] = c
      BY <3>1, <3>2 DEF MarksOK
    <3>5. ASSUME NEW q \in Callers \ {p}
          PROVE  /\ pc'[q] \in {"probing", "query", "begin"} => conn'[q] \notin broken' \cup inTx'
                 /\ pc'[q] = "release" => conn'[q] \in broken' \/ conn'[q] \notin inTx'
      <4>1. conn[q] # conn[p]  BY <2>a, <3>1 DEF OneOwner
      <4>2. QED BY <2>b, <3>1, <3>2, <4>1 DEF MarksOK
    <3>6. QED BY <3>1, <3>3, <3>4, <3>5 DEF MarksOK
  <2>8. QED BY <1>1, <2>1, <2>2, <2>3, <2>4, <2>5, <2>6, <2>7 DEF Acquire, Release
<1>2. CASE Close
  <2>1. \A p \in Callers : conn[p] \notin idle  BY DEF OneOwner
  <2>2. QED BY <1>2, <2>1 DEF Close, MarksOK
<1>3. CASE UNCHANGED vars
  BY <1>3 DEF vars, MarksOK
<1>4. QED BY <1>1, <1>2, <1>3 DEF Next

\* No idle connection carries a mark.
LEMMA MarksKeepIdleClean == MarksOK /\ OneOwner => IdleIsClean
BY DEF MarksOK, OneOwner, IdleIsClean

LEMMA OwnersInit == Init => Typed /\ QueueOK /\ OneOwner /\ MarksOK
<1>1. ASSUME Init  PROVE Typed
  <2>1. waiters \in Seq(Callers)  BY <1>1, EmptySeq DEF Init
  <2>2. pc \in [Callers -> Places] /\ conn \in [Callers -> Conns \cup {None}]
    BY <1>1 DEF Init, Places
  <2>3. idle \in SUBSET Conns /\ broken \in SUBSET Conns /\ inTx \in SUBSET Conns  BY <1>1 DEF Init
  <2>4. open \in Int  BY <1>1 DEF Init
  <2>c. closed \in BOOLEAN  BY <1>1 DEF Init
  <2>5. QED BY <2>1, <2>2, <2>3, <2>4, <2>c DEF Typed
<1>2. Init => QueueOK
  BY DEF Init, QueueOK
<1>3. Init => OneOwner /\ MarksOK
  BY DEF Init, OneOwner, MarksOK, Owning
<1>4. QED BY <1>1, <1>2, <1>3

\* No connection has two users, nor a user while it is listed idle.
THEOREM OneOwnerAlways == Spec => []OneOwner
<1>1. Typed /\ QueueOK /\ OneOwner /\ [Next]_vars => Typed' /\ QueueOK' /\ OneOwner'
  BY TypedNext, OwnerNext
<1>2. QED BY <1>1, OwnersInit, PTL DEF Spec

\* A connection is handed on with no transaction open on it and its stream in step.
THEOREM IdleConnectionsAreClean == Spec => []IdleIsClean
<1>1. Typed /\ QueueOK /\ OneOwner /\ MarksOK /\ [Next]_vars
      => Typed' /\ QueueOK' /\ OneOwner' /\ MarksOK'
  BY TypedNext, OwnerNext, MarksNext
<1>2. QED BY <1>1, OwnersInit, MarksKeepIdleClean, PTL DEF Spec
-----------------------------------------------------------------------------
(* Slots. *)

Holding == Owning \cup {"dialing"}

\* A step of p can only put p among the holders or take it out.
LEMMA HoldersMove ==
    ASSUME Typed, QueueOK, NEW p \in Callers, Acquire(p) \/ Use(p) \/ Release(p)
    PROVE  /\ pc'[p] \in Holding => Holders' = Holders \cup {p}
           /\ pc'[p] \notin Holding => Holders' = Holders \ {p}
<1>1. \A q \in Callers \ {p} : pc'[q] \in Holding <=> pc[q] \in Holding
  BY OthersStand DEF Holding, Owning
<1>2. QED BY <1>1 DEF Holders, Holding

LEMMA CountsAreNumbers ==
    ASSUME Typed
    PROVE  /\ IsFiniteSet(idle) /\ Cardinality(idle) \in Nat
           /\ IsFiniteSet(Holders) /\ Cardinality(Holders) \in Nat
           /\ IsFiniteSet(Coming) /\ Cardinality(Coming) \in Nat
<1>1. idle \in SUBSET Conns /\ Holders \in SUBSET Callers /\ Coming \in SUBSET Callers
  BY DEF Typed, Holders, Coming
<1>2. QED BY <1>1, PoolAssumption, FS_Subset, FS_CardinalityType

\* Where the stepping caller ends up when its step ends in wakeLocked.
LEMMA WakeTarget ==
    ASSUME Typed, QueueOK, NEW p \in Callers, NEW to \in {"out", "loop"},
           pc[p] # "queued", WakeLocked(p, to)
    PROVE  pc'[p] = to
<1>1. pc \in [Callers -> Places]  BY DEF Typed
<1>2. CASE waiters = <<>>  BY <1>1, <1>2 DEF WakeLocked
<1>3. CASE waiters # <<>>
  <2>1. 1 \in DOMAIN waiters  BY <1>3, EmptySeq, LenProperties DEF Typed
  <2>2. waiters[1] # p  BY <2>1 DEF QueueOK
  <2>3. QED BY <1>1, <1>3, <2>2 DEF WakeLocked, WakeIndex
<1>4. QED BY <1>2, <1>3

\* Every path through acquire and release keeps the slot account.
LEMMA SlotsNext ==
    ASSUME Typed, QueueOK, OneOwner, SlotsAccounted, open <= MaxConns, [Next]_vars
    PROVE  SlotsAccounted' /\ open' <= MaxConns
<1>a. /\ Cardinality(idle) \in Nat /\ Cardinality(Holders) \in Nat /\ open \in Int
      /\ MaxConns \in Nat
  BY CountsAreNumbers, PoolAssumption DEF Typed
<1>b. pc \in [Callers -> Places]  BY DEF Typed
<1>1. ASSUME NEW p \in Callers, Acquire(p) \/ Use(p) \/ Release(p)
      PROVE  SlotsAccounted' /\ open' <= MaxConns
  <2>a. /\ Cardinality(Holders \cup {p}) = IF p \in Holders THEN Cardinality(Holders)
                                            ELSE Cardinality(Holders) + 1
        /\ Cardinality(Holders \ {p}) = IF p \in Holders THEN Cardinality(Holders) - 1
                                        ELSE Cardinality(Holders)
    BY CountsAreNumbers, FS_AddElement, FS_RemoveElement
  <2>1. CASE Call(p) \/ Refuse(p) \/ ProbeAlive(p) \/ DialOK(p) \/ Enqueue(p) \/ Resume(p)
             \/ LeaveQueue(p) \/ PassOn(p) \/ Use(p)
    <3>1. p \in Holders <=> pc'[p] \in Holding
      <4>1. CASE PassOn(p)
        BY <4>1, WakeTarget DEF PassOn, Holders, Holding, Owning
      <4>2. CASE Call(p) \/ Refuse(p) \/ ProbeAlive(p) \/ DialOK(p) \/ Enqueue(p) \/ Resume(p)
                 \/ LeaveQueue(p)
        BY <1>b, <4>2 DEF Call, Refuse, ProbeAlive, DialOK, Enqueue, Resume, LeaveQueue,
                          Holders, Holding, Owning
      <4>3. CASE Use(p)
        BY <1>b, <4>3 DEF Use, Query, Begin, Fn, Commit, Rollback, Holders, Holding, Owning
      <4>4. QED BY <2>1, <4>1, <4>2, <4>3
    <3>2. Holders' = Holders  BY <1>1, <3>1, HoldersMove
    <3>3. idle' = idle /\ open' = open /\ closed' = closed
      BY <2>1 DEF Call, Refuse, ProbeAlive, DialOK, Enqueue, Resume, LeaveQueue, PassOn,
                  Use, Query, Begin, Fn, Commit, Rollback
    <3>4. QED BY <3>2, <3>3 DEF SlotsAccounted
  <2>2. CASE TakeIdle(p)
    <3>1. PICK c \in idle : idle' = idle \ {c}  BY <2>2 DEF TakeIdle
    <3>2. Cardinality(idle') = Cardinality(idle) - 1
      BY <3>1, CountsAreNumbers, FS_RemoveElement
    <3>3. p \notin Holders /\ pc'[p] \in Holding
      BY <1>b, <2>2 DEF TakeIdle, Holders, Holding, Owning
    <3>4. Cardinality(Holders') = Cardinality(Holders) + 1
      BY <1>1, <2>a, <3>3, HoldersMove
    <3>5. open' = open /\ closed' = closed  BY <2>2 DEF TakeIdle
    <3>6. QED BY <1>a, <3>2, <3>4, <3>5 DEF SlotsAccounted
  <2>3. CASE Reserve(p)
    <3>1. p \notin Holders /\ pc'[p] \in Holding
      BY <1>b, <2>3 DEF Reserve, Holders, Holding, Owning
    <3>2. Cardinality(Holders') = Cardinality(Holders) + 1
      BY <1>1, <2>a, <3>1, HoldersMove
    <3>3. open' = open + 1 /\ open < MaxConns /\ idle' = idle /\ closed' = closed
      BY <2>3 DEF Reserve, HasRoom
    <3>4. QED BY <1>a, <3>2, <3>3 DEF SlotsAccounted
  <2>4. CASE ProbeDead(p) \/ DialFails(p) \/ ReleaseBroken(p)
    <3>1. PICK to \in {"out", "loop"} : WakeLocked(p, to)
      BY <2>4 DEF ProbeDead, DialFails, ReleaseBroken, Forget
    <3>2. p \in Holders /\ pc[p] # "queued"
      BY <2>4 DEF ProbeDead, DialFails, ReleaseBroken, Holders, Owning
    <3>3. pc'[p] \notin Holding  BY <3>1, <3>2, WakeTarget DEF Holding, Owning
    <3>4. Cardinality(Holders') = Cardinality(Holders) - 1
      BY <1>1, <2>a, <3>2, <3>3, HoldersMove
    <3>5. open' = open - 1 /\ idle' = idle /\ closed' = closed
      BY <2>4 DEF ProbeDead, DialFails, ReleaseBroken, Forget
    <3>6. QED BY <1>a, <3>4, <3>5 DEF SlotsAccounted
  <2>5. CASE ReleaseIdle(p)
    <3>1. p \in Holders /\ pc[p] # "queued" /\ WakeLocked(p, "out")
      BY <2>5 DEF ReleaseIdle, Holders, Owning
    <3>2. pc'[p] \notin Holding  BY <3>1, WakeTarget DEF Holding, Owning
    <3>3. Cardinality(Holders') = Cardinality(Holders) - 1
      BY <1>1, <2>a, <3>1, <3>2, HoldersMove
    <3>4. conn[p] \notin idle /\ idle' = idle \cup {conn[p]}
      BY <2>5 DEF ReleaseIdle, OneOwner
    <3>5. Cardinality(idle') = Cardinality(idle) + 1
      BY <3>4, CountsAreNumbers, FS_AddElement
    <3>6. open' = open /\ closed' = closed  BY <2>5 DEF ReleaseIdle
    <3>7. QED BY <1>a, <3>3, <3>5, <3>6 DEF SlotsAccounted
  <2>6. CASE ReleaseClosed(p)
    <3>1. p \in Holders /\ pc'[p] \notin Holding
      BY <1>b, <2>6 DEF ReleaseClosed, Holders, Holding, Owning
    <3>2. Cardinality(Holders') = Cardinality(Holders) - 1
      BY <1>1, <2>a, <3>1, HoldersMove
    <3>3. open' = open /\ idle' = idle /\ closed /\ closed' = closed
      BY <2>6 DEF ReleaseClosed
    <3>4. QED BY <1>a, <3>2, <3>3 DEF SlotsAccounted
  <2>7. QED BY <1>1, <2>1, <2>2, <2>3, <2>4, <2>5, <2>6 DEF Acquire, Release
<1>2. CASE Close
  <2>1. idle' = {} /\ closed' = TRUE /\ open' = open /\ Holders' = Holders
    BY <1>2 DEF Close, Holders
  <2>2. Cardinality(idle') = 0  BY <2>1, FS_EmptySet
  <2>3. Cardinality(Holders') <= open'  BY <1>a, <2>1 DEF SlotsAccounted
  <2>4. QED BY <1>a, <2>1, <2>2, <2>3 DEF SlotsAccounted
<1>3. CASE UNCHANGED vars
  BY <1>3 DEF vars, SlotsAccounted, Holders
<1>4. QED BY <1>1, <1>2, <1>3 DEF Next
-----------------------------------------------------------------------------
(* Wake-ups. *)

\* A step of p adds or removes p among the callers on the way, and may add a signalled waiter.
LEMMA ComingMove ==
    ASSUME Typed, QueueOK, NEW p \in Callers, Acquire(p) \/ Use(p) \/ Release(p)
    PROVE  /\ pc'[p] \in {"loop", "woken"} => Coming \cup {p} \subseteq Coming'
           /\ Coming \ {p} \subseteq Coming'
<1>1. \A q \in Callers \ {p} : pc[q] \in {"loop", "woken"} => pc'[q] \in {"loop", "woken"}
  BY OthersStand
<1>2. QED BY <1>1 DEF Coming

\* Sizes of the sets of callers on the way.
LEMMA ComingSizes ==
    ASSUME Typed, Typed', NEW S \in SUBSET Coming'
    PROVE  IsFiniteSet(S) /\ Cardinality(S) <= Cardinality(Coming') /\ Cardinality(Coming') \in Nat
<1>1. Coming' \in SUBSET Callers  BY DEF Coming
<1>2. IsFiniteSet(Coming')  BY <1>1, PoolAssumption, FS_Subset
<1>3. QED BY <1>2, FS_Subset, FS_CardinalityType

\* What wakeLocked adds when the queue is not empty: one more caller on the way.
LEMMA WakeAdds ==
    ASSUME Typed, Typed', QueueOK, NEW p \in Callers, Acquire(p) \/ Use(p) \/ Release(p), Wakes(p),
           waiters # <<>>
    PROVE  Cardinality(Coming') >= Cardinality(Coming \ {p}) + 1
<1>1. PICK w \in Callers \ {p} : pc[w] = "queued" /\ pc'[w] = "woken"
  BY WakeSignals DEF Signals
<1>2. (Coming \ {p}) \cup {w} \subseteq Coming'  BY <1>1, ComingMove DEF Coming
<1>3. w \notin Coming \ {p}  BY <1>1 DEF Coming
<1>4. IsFiniteSet(Coming \ {p})  BY CountsAreNumbers, FS_RemoveElement
<1>5. Cardinality((Coming \ {p}) \cup {w}) = Cardinality(Coming \ {p}) + 1
  BY <1>3, <1>4, FS_AddElement
<1>6. Cardinality((Coming \ {p}) \cup {w}) <= Cardinality(Coming')  BY <1>2, ComingSizes
<1>7. Cardinality(Coming') \in Nat /\ Cardinality(Coming \ {p}) \in Nat
  BY <1>2, <1>4, ComingSizes, FS_CardinalityType
<1>8. QED BY <1>5, <1>6, <1>7

\* While anyone is queued, every free slot has a caller on the way to it, through every step.
LEMMA WakeupNext ==
    ASSUME Typed, Typed', QueueOK, OneOwner, SlotsAccounted, open <= MaxConns, NoLostWakeup,
           [Next]_vars
    PROVE  NoLostWakeup'
<1>a. /\ Cardinality(idle) \in Nat /\ Cardinality(Coming) \in Nat /\ open \in Int
      /\ MaxConns \in Nat /\ IsFiniteSet(Coming) /\ IsFiniteSet(idle)
  BY CountsAreNumbers, PoolAssumption DEF Typed
<1>b. pc \in [Callers -> Places]  BY DEF Typed
<1>c. Cardinality(Coming') \in Nat  BY ComingSizes
<1>1. ASSUME NEW p \in Callers, Acquire(p) \/ Use(p) \/ Release(p)
      PROVE  NoLostWakeup'
  <2>a. Cardinality(Coming \ {p}) = IF p \in Coming THEN Cardinality(Coming) - 1
                                    ELSE Cardinality(Coming)
    BY <1>a, FS_RemoveElement
  <2>b. Cardinality(Coming \ {p}) <= Cardinality(Coming')  BY <1>1, ComingMove, ComingSizes
  <2>1. CASE Call(p) \/ ProbeAlive(p) \/ DialOK(p) \/ Resume(p) \/ LeaveQueue(p) \/ Use(p)
    <3>1. Coming \subseteq Coming'
      <4>1. CASE Call(p) \/ Resume(p)
        <5>1. pc'[p] = "loop"  BY <1>b, <4>1 DEF Call, Resume
        <5>2. QED BY <1>1, <5>1, ComingMove
      <4>2. CASE ProbeAlive(p) \/ DialOK(p) \/ LeaveQueue(p) \/ Use(p)
        <5>1. p \notin Coming
          BY <4>2 DEF ProbeAlive, DialOK, LeaveQueue, Use, Query, Begin, Fn, Commit, Rollback, Coming
        <5>2. QED BY <1>1, <5>1, ComingMove
      <4>3. QED BY <2>1, <4>1, <4>2
    <3>2. Cardinality(Coming) <= Cardinality(Coming')  BY <3>1, ComingSizes
    <3>3. idle' = idle /\ open' = open /\ closed' = closed
      BY <2>1 DEF Call, ProbeAlive, DialOK, Resume, LeaveQueue, Use, Query, Begin, Fn, Commit,
                  Rollback
    <3>4. waiters' # <<>> => waiters # <<>>
      BY <2>1, EmptySeq DEF Call, ProbeAlive, DialOK, Resume, LeaveQueue, Use, Query, Begin, Fn, Commit,
                  Rollback
    <3>5. QED BY <1>a, <1>c, <3>2, <3>3, <3>4 DEF NoLostWakeup
  <2>2. CASE TakeIdle(p)
    <3>1. PICK c \in idle : idle' = idle \ {c}  BY <2>2 DEF TakeIdle
    <3>2. Cardinality(idle') = Cardinality(idle) - 1  BY <1>a, <3>1, FS_RemoveElement
    <3>3. p \in Coming /\ open' = open /\ closed' = closed /\ waiters' = waiters
      BY <2>2 DEF TakeIdle, Coming
    <3>4. QED BY <1>a, <1>c, <2>a, <2>b, <3>2, <3>3 DEF NoLostWakeup
  <2>3. CASE Reserve(p)
    <3>1. p \in Coming /\ open' = open + 1 /\ closed' = closed /\ waiters' = waiters
          /\ idle' = idle
      BY <2>3 DEF Reserve, Coming
    <3>2. QED BY <1>a, <1>c, <2>a, <2>b, <3>1 DEF NoLostWakeup
  <2>4. CASE Enqueue(p)
    <3>1. idle' = {} /\ open' = open /\ open >= MaxConns
      BY <1>a, <2>4 DEF Enqueue, HasRoom
    <3>2. Cardinality(idle') = 0  BY <3>1, FS_EmptySet
    <3>3. QED BY <1>a, <1>c, <3>1, <3>2 DEF NoLostWakeup
  <2>5. CASE Refuse(p) \/ ReleaseClosed(p)
    BY <2>5 DEF Refuse, ReleaseClosed, NoLostWakeup
  <2>6. CASE PassOn(p) \/ ProbeDead(p) \/ DialFails(p) \/ ReleaseBroken(p) \/ ReleaseIdle(p)
    <3>1. Wakes(p)
      BY <2>6 DEF PassOn, ProbeDead, DialFails, ReleaseBroken, ReleaseIdle, Forget, Wakes
    <3>2. CASE waiters = <<>>
      <4>1. waiters' = <<>>  BY <3>1, <3>2, WakeSignals DEF Signals
      <4>2. QED BY <4>1 DEF NoLostWakeup
    <3>3. CASE waiters # <<>>
      <4>1. Cardinality(Coming') >= Cardinality(Coming \ {p}) + 1
        BY <1>1, <3>1, <3>3, WakeAdds
      <4>2. CASE PassOn(p)
        <5>1. p \in Coming /\ idle' = idle /\ open' = open /\ closed' = closed
          BY <4>2 DEF PassOn, Coming
        <5>2. QED BY <1>a, <1>c, <2>a, <3>3, <4>1, <5>1 DEF NoLostWakeup
      <4>3. CASE ProbeDead(p) \/ DialFails(p) \/ ReleaseBroken(p)
        <5>1. p \notin Coming /\ idle' = idle /\ open' = open - 1 /\ closed' = closed
          BY <4>3 DEF ProbeDead, DialFails, ReleaseBroken, Forget, Coming
        <5>2. QED BY <1>a, <1>c, <2>a, <3>3, <4>1, <5>1 DEF NoLostWakeup
      <4>4. CASE ReleaseIdle(p)
        <5>1. p \notin Coming /\ idle' = idle \cup {conn[p]} /\ open' = open /\ closed' = closed
          BY <4>4 DEF ReleaseIdle, Coming
        <5>2. conn[p] \notin idle  BY DEF OneOwner
        <5>3. Cardinality(idle') = Cardinality(idle) + 1  BY <1>a, <5>1, <5>2, FS_AddElement
        <5>4. QED BY <1>a, <1>c, <2>a, <3>3, <4>1, <5>1, <5>3 DEF NoLostWakeup
      <4>5. QED BY <2>6, <4>2, <4>3, <4>4
    <3>4. QED BY <3>2, <3>3
  <2>7. QED BY <1>1, <2>1, <2>2, <2>3, <2>4, <2>5, <2>6 DEF Acquire, Release
<1>2. CASE Close
  BY <1>2 DEF Close, NoLostWakeup
<1>3. CASE UNCHANGED vars
  BY <1>3 DEF vars, NoLostWakeup, Coming
<1>4. QED BY <1>1, <1>2, <1>3 DEF Next

\* The inductive invariant of the pool.
PoolInv ==
    Typed /\ QueueOK /\ OneOwner /\ SlotsAccounted /\ open <= MaxConns /\ NoLostWakeup

LEMMA PoolInit == Init => PoolInv
<1>1. ASSUME Init  PROVE SlotsAccounted /\ open <= MaxConns /\ NoLostWakeup
  <2>1. idle = {} /\ open = 0 /\ waiters = <<>>  BY <1>1 DEF Init
  <2>2. Holders = {}  BY <1>1 DEF Init, Holders, Owning
  <2>3. Cardinality(idle) = 0 /\ Cardinality(Holders) = 0  BY <2>1, <2>2, FS_EmptySet
  <2>4. QED BY <2>1, <2>3, PoolAssumption DEF SlotsAccounted, NoLostWakeup
<1>2. QED BY <1>1, OwnersInit DEF PoolInv

LEMMA PoolNext == PoolInv /\ [Next]_vars => PoolInv'
<1>1. ASSUME PoolInv, [Next]_vars  PROVE Typed' /\ QueueOK' /\ OneOwner'
  BY <1>1, TypedNext, OwnerNext DEF PoolInv
<1>2. ASSUME PoolInv, [Next]_vars  PROVE SlotsAccounted' /\ open' <= MaxConns
  BY <1>2, SlotsNext DEF PoolInv
<1>3. ASSUME PoolInv, [Next]_vars  PROVE NoLostWakeup'
  BY <1>1, <1>3, WakeupNext DEF PoolInv
<1>4. QED BY <1>1, <1>2, <1>3 DEF PoolInv

\* Every variable stays in its range; open stays between 0 and maxConns.
THEOREM PoolTypeCorrect == Spec => []TypeOK
<1>1. ASSUME PoolInv  PROVE TypeOK
  <2>1. Cardinality(idle) \in Nat /\ Cardinality(Holders) \in Nat
    BY <1>1, CountsAreNumbers DEF PoolInv
  <2>2. open \in 0 .. MaxConns
    BY <1>1, <2>1, PoolAssumption DEF PoolInv, SlotsAccounted, Typed
  <2>3. QED BY <1>1, <2>2 DEF PoolInv, Typed, TypeOK
<1>2. QED BY <1>1, PoolInit, PoolNext, PTL DEF Spec

\* Until the pool is closed open counts exactly the connections that exist or are being dialled.
THEOREM SlotsAreAccounted == Spec => []SlotsAccounted
<1>1. PoolInv => SlotsAccounted  BY DEF PoolInv
<1>2. QED BY <1>1, PoolInit, PoolNext, PTL DEF Spec

\* No wake-up is lost: nobody sleeps beside a free slot or an idle connection.
THEOREM NoWakeupIsLost == Spec => []NoLostWakeup
<1>1. PoolInv => NoLostWakeup  BY DEF PoolInv
<1>2. QED BY <1>1, PoolInit, PoolNext, PTL DEF Spec

\* After Close no connection is listed idle again.
THEOREM ClosedPoolDrains == Spec => []ClosedDrains
<1>1. Init => ClosedDrains  BY DEF Init, ClosedDrains
<1>2. ASSUME ClosedDrains, [Next]_vars  PROVE ClosedDrains'
  <2>1. CASE Close \/ UNCHANGED vars
    BY <1>2, <2>1 DEF Close, vars, ClosedDrains
  <2>2. ASSUME NEW p \in Callers, Acquire(p) \/ Use(p)
        PROVE  closed' = closed /\ idle' \subseteq idle
    BY <2>2 DEF Acquire, Call, Refuse, TakeIdle, ProbeAlive, ProbeDead, Reserve, DialOK,
                DialFails, Enqueue, Resume, LeaveQueue, PassOn, Use, Query, Begin, Fn, Commit,
                Rollback
  <2>3. ASSUME NEW p \in Callers, Release(p)
        PROVE  closed' = closed /\ (idle' = idle \/ ~closed)
    BY <2>3 DEF Release, ReleaseBroken, ReleaseClosed, ReleaseIdle, Keeps
  <2>4. QED BY <1>2, <2>1, <2>2, <2>3 DEF Next, ClosedDrains
<1>3. QED BY <1>1, <1>2, PTL DEF Spec
=============================================================================
