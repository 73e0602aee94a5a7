----------------------------- MODULE RateLimiter -----------------------------
(***************************************************************************)
(* The rate limiters: sliding windows in one process's memory, capped in   *)
(* number (lib/rate-limit.ts rateLimit, ratelimit.go), and the shared      *)
(* counters in the database (dbRateLimit).  Buckets of every route share   *)
(* one map, each call with its own limit and window.                       *)
(***************************************************************************)
EXTENDS Naturals, Sequences, FiniteSets, SequencesExt

CONSTANTS Ids,         \* buckets
          Limit,       \* requests allowed per window, by bucket
          Window,      \* length of the window, by bucket
          MaxBuckets,  \* MAX_BUCKETS
          MaxTime,     \* bound: the clock
          MaxGrants    \* bound: requests allowed per bucket

RateLimiterConstants ==
    /\ IsFiniteSet(Ids) /\ Limit \in [Ids -> Nat \ {0}] /\ Window \in [Ids -> Nat \ {0}]
    /\ MaxBuckets \in Nat \ {0}

VARIABLES limiter,   \* the limiter the route uses: "memory" or "rows"
          now,
          inserted,  \* the map's keys, in order of insertion
          hits,      \* the hits of each bucket; none of one that is not in the map
          rows,      \* rate_limit_buckets: [start, n] by bucket; n = 0 is no row
          granted,   \* history: when requests were allowed by the map, by bucket
          dbGranted, \* history: when requests were allowed by the rows
          evicted    \* history: buckets that were dropped before

vars == <<limiter, now, inserted, hits, rows, granted, dbGranted, evicted>>

Init ==
    /\ limiter \in {"memory", "rows"} /\ now = 0
    /\ inserted = <<>> /\ hits = [i \in Ids |-> <<>>] /\ evicted = {}
    /\ rows = [i \in Ids |-> [start |-> 0, n |-> 0]]
    /\ granted = [i \in Ids |-> <<>>] /\ dbGranted = [i \in Ids |-> <<>>]

\* Mutant: all go when the first does.
StartsOver(id) == IF hits[id] # <<>> /\ now - hits[id][1] >= Window[id] THEN <<>> ELSE hits[id]

\* The hits within the window: they are in the order of time, so what stays is the end of them.
Pruned(id) ==
    LET first == CHOOSE f \in 1..Len(hits[id]) + 1 :
                     \A k \in DOMAIN hits[id] : k >= f <=> now - hits[id][k] < Window[id]
    IN  SubSeq(hits[id], first, Len(hits[id]))

\* Beyond the cap: first the buckets without a hit in the caller's window, whatever their own,
\* then the oldest.
Stale(h, window) == h = <<>> \/ now - Last(h) >= window
Evict(keys, h, window) ==
    IF Len(keys) <= MaxBuckets THEN keys
    ELSE LET fresh == SelectSeq(keys, LAMBDA i : ~Stale(h[i], window))
         IN IF Len(fresh) <= MaxBuckets THEN fresh
            ELSE SubSeq(fresh, Len(fresh) - MaxBuckets + 1, Len(fresh))

\* rateLimit.  A key that is in the map keeps its place; one that is refused is in it.
RateLimit(id) ==
    /\ limiter = "memory" /\ Len(granted[id]) < MaxGrants
    /\ LET kept == Pruned(id)
           keys == IF id \in ToSet(inserted) THEN inserted ELSE Append(inserted, id)
           after == [hits EXCEPT ![id] = Append(kept, now)]
       IN IF Len(kept) >= Limit[id]
          THEN hits' = [hits EXCEPT ![id] = kept] /\ UNCHANGED <<inserted, granted, evicted>>
          ELSE /\ inserted' = Evict(keys, after, Window[id])
               /\ hits' = [i \in Ids |-> IF i \in ToSet(inserted') THEN after[i] ELSE <<>>]
               /\ granted' = [granted EXCEPT ![id] = Append(@, now)]
               /\ evicted' = evicted \cup ((ToSet(inserted) \cup {id}) \ ToSet(inserted'))
    /\ UNCHANGED <<limiter, now, rows, dbGranted>>

\* The upsert: a window that is over starts again.
Counted(row, window) == IF row.n = 0 \/ row.start < now - window THEN [start |-> now, n |-> 1]
                        ELSE [row EXCEPT !.n = @ + 1]
\* dbRateLimit; a limiter that fails denies.
DbRateLimit(id) ==
    /\ limiter = "rows" /\ Len(dbGranted[id]) < MaxGrants
    /\ LET row == Counted(rows[id], Window[id])
       IN /\ row.n <= Limit[id] + 1
          /\ rows' = [rows EXCEPT ![id] = row]
          /\ dbGranted' = (IF row.n <= Limit[id] THEN [dbGranted EXCEPT ![id] = Append(@, now)] ELSE dbGranted)
    /\ UNCHANGED <<limiter, now, inserted, hits, granted, evicted>>

Tick == now < MaxTime /\ now' = now + 1 /\ UNCHANGED <<limiter, inserted, hits, rows, granted, dbGranted, evicted>>

Next == Tick \/ \E id \in Ids : RateLimit(id) \/ DbRateLimit(id)
Spec == Init /\ [][Next]_vars

----------------------------------------------------------------------------
\* At most n of the grants g lie within one window.
AtMost(n, g, window) == \A i \in DOMAIN g : i + n \in DOMAIN g => g[i + n] - g[i] >= window

\* No window of a bucket, wherever it starts, has more requests than its limit, unless the map
\* dropped the bucket; the shared counters, whose windows are fixed, allow twice that.
WindowHolds ==
    \A id \in Ids : /\ id \notin evicted => AtMost(Limit[id], granted[id], Window[id])
                    /\ AtMost(2 * Limit[id], dbGranted[id], Window[id])

\* "dropping entries whose window is fully expired, then the oldest by insertion order": a
\* bucket whose window is not over is dropped only when more such buckets than the cap are there.
OwnWindowOver(i) == Stale(hits[i], Window[i])
DroppedWhenOver ==
    [][\A i \in ToSet(inserted) :
          (i \notin ToSet(inserted') /\ ~OwnWindowOver(i))
             => Cardinality({j \in ToSet(inserted) : ~OwnWindowOver(j)}) >= MaxBuckets]_vars
=============================================================================
