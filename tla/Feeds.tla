-------------------------------- MODULE Feeds --------------------------------
(***************************************************************************)
(* The instance feed: GET /api/instances and its aliases answer from the   *)
(* published snapshot or, without one, from the database, each behind a    *)
(* read-through cache of the process (lib/ttl-cache.ts, cache/ttl.go).     *)
(* Sweeps and syncs change the pool, publish a snapshot of it to one blob  *)
(* (lib/edge-snapshot.ts, blob/snapshot.go) and drop the cached copies.    *)
(*                                                                         *)
(* Abstracted: one service; the feed's contents are the version of the     *)
(* pool they were read from.  Time passes in steps that a request or a     *)
(* publication does not outlast (a minute against five and more).          *)
(***************************************************************************)
EXTENDS Naturals, Sequences, FiniteSets

CONSTANTS Readers, Publishers,
          CacheTTL,       \* DISCOVERY_TTL_MS
          SnapshotTTL,    \* SNAPSHOT_TTL_MS
          Undated,        \* whether the store may answer without a usable last-modified
          MaxVersion, MaxClock,
          Empty, NoOne

\* What the constants must be.
FeedsConstants == CacheTTL \in Nat \ {0} /\ SnapshotTTL \in Nat /\ Empty \notin Nat

VARIABLES now,
          replaced,    \* history: when each version of the pool was replaced
          answer,      \* the answer given last
          store,       \* the blob: the version in it and when it was put there
          configured,  \* there is a blob store
          cache,       \* per key: a value and when it expires
          flight,      \* per key: the reader whose load the others wait for
          reader, publisher

Keys == {"snapshot", "discovery"}
current == Len(replaced) + 1
Versions == Nat \ {0}
\* A loaded value: a version, or Empty for "no usable snapshot".
Values == Versions \cup {Empty}
NoEntry == [value |-> Empty, expires |-> 0]

FeedsTypeOK ==
    /\ now \in Nat /\ replaced \in Seq(Nat) /\ answer \in Values
    /\ store \in [version: Values, at: Nat]
    /\ configured \in BOOLEAN
    /\ cache \in [Keys -> [value: Values, expires: Nat]]
    /\ flight \in [Keys -> Readers \cup {NoOne}]
    /\ reader \in [Readers -> [at: {"idle", "look", "load", "store", "wait"}, key: Keys, value: Values]]
    /\ publisher \in [Publishers -> [at: {"idle", "read", "put", "drop"}, value: Values, keys: SUBSET Keys]]

vars == <<now, replaced, answer, store, configured, cache, flight, reader, publisher>>

Idle == [at |-> "idle", key |-> "snapshot", value |-> Empty]
Init ==
    /\ now = 0 /\ replaced = <<>> /\ answer = Empty
    /\ store = [version |-> Empty, at |-> 0]
    /\ configured \in BOOLEAN
    /\ cache = [k \in Keys |-> NoEntry]
    /\ flight = [k \in Keys |-> NoOne]
    /\ reader = [r \in Readers |-> Idle]
    /\ publisher = [p \in Publishers |-> [at |-> "idle", value |-> Empty, keys |-> {}]]

----------------------------------------------------------------------------
(* A reader.  The lookup is cached() or Cache.load. *)

Arrive(r) ==
    /\ reader[r].at = "idle"
    /\ reader' = [reader EXCEPT ![r].at = "look"]
    /\ UNCHANGED <<now, replaced, answer, store, configured, cache, flight, publisher>>

\* A reader with a value: no snapshot means the cached database read, anything else is the answer.
Got(rd, value) ==
    IF rd.key = "snapshot" /\ value = Empty THEN [rd EXCEPT !.at = "look", !.key = "discovery"] ELSE Idle
Answers(rd, value) == rd.key = "discovery" \/ value # Empty

\* Mutant: the expiry is not looked at.
Kept(k) == cache[k] # NoEntry
Hit(k) == cache[k].expires > now

TakeHit(r) ==
    LET rd == reader[r] IN
    /\ rd.at = "look" /\ Hit(rd.key)
    /\ reader' = [reader EXCEPT ![r] = Got(rd, cache[rd.key].value)]
    /\ answer' = IF Answers(rd, cache[rd.key].value) THEN cache[rd.key].value ELSE answer
    /\ UNCHANGED <<now, replaced, store, configured, cache, flight, publisher>>

Join(r) ==
    LET k == reader[r].key IN
    /\ reader[r].at = "look" /\ ~Hit(k) /\ flight[k] # NoOne
    /\ reader' = [reader EXCEPT ![r].at = "wait"]
    /\ UNCHANGED <<now, replaced, answer, store, configured, cache, flight, publisher>>

Lead(r) ==
    LET k == reader[r].key IN
    /\ reader[r].at = "look" /\ ~Hit(k) /\ flight[k] = NoOne
    /\ flight' = [flight EXCEPT ![k] = r]
    /\ reader' = [reader EXCEPT ![r].at = "load"]
    /\ UNCHANGED <<now, replaced, answer, store, configured, cache, publisher>>

\* Mutant: the age of the copy is not looked at.
AnyAge == Undated \/ TRUE

\* The store's own freshness signal: savedAt, uploadedAt, or last-modified if it parses.
WithinTTL == Undated \/ store.at + SnapshotTTL >= now

\* readInstanceSnapshot: every failure is the same null.
SnapshotValues == {Empty} \cup (IF configured /\ WithinTTL THEN {store.version} ELSE {})

Load(r) ==
    /\ reader[r].at = "load"
    /\ \E v \in IF reader[r].key = "snapshot" THEN SnapshotValues ELSE {current} :
          reader' = [reader EXCEPT ![r].at = "store", ![r].value = v]
    /\ UNCHANGED <<now, replaced, answer, store, configured, cache, flight, publisher>>

Waiting(k) == {r \in Readers : reader[r].at = "wait" /\ reader[r].key = k}

\* The value is stored whatever was invalidated since the load began, and everyone who
\* waited for it gets it.
Store(r) ==
    LET k == reader[r].key
        v == reader[r].value
    IN  /\ reader[r].at = "store"
        /\ cache' = [cache EXCEPT ![k] = [value |-> v, expires |-> now + CacheTTL]]
        /\ flight' = [flight EXCEPT ![k] = NoOne]
        /\ reader' = [q \in Readers |->
              IF q \in Waiting(k) \cup {r} THEN Got([reader[q] EXCEPT !.value = Empty], v) ELSE reader[q]]
        /\ answer' = IF Answers(reader[r], v) THEN v ELSE answer
        /\ UNCHANGED <<now, replaced, store, configured, publisher>>

\* Mutant: a load that panics leaves its flight behind.
LeaveFlight(r) ==
    /\ reader[r].at = "load" /\ reader[r].key = "discovery"
    /\ reader' = [reader EXCEPT ![r] = Idle]
    /\ answer' = Empty
    /\ UNCHANGED <<now, replaced, store, configured, cache, flight, publisher>>

\* The load fails or panics, or its reader's request is cancelled: nothing is stored, and
\* the reader and all who wait for it answer with the empty feed.
LoadFails(r) ==
    LET k == reader[r].key
    IN  /\ reader[r].at = "load" /\ k = "discovery"
        /\ flight' = [flight EXCEPT ![k] = NoOne]
        /\ reader' = [q \in Readers |-> IF q \in Waiting(k) \cup {r} THEN Idle ELSE reader[q]]
        /\ answer' = Empty
        /\ UNCHANGED <<now, replaced, store, configured, cache, publisher>>

----------------------------------------------------------------------------
(* Those who change the pool. *)

\* A report, a check or a submission: the feed is left to its TTLs.
Change ==
    /\ current < MaxVersion
    /\ replaced' = Append(replaced, now)
    /\ UNCHANGED <<now, answer, store, configured, cache, flight, reader, publisher>>

\* A sweep or a sync ends and publishes; the TypeScript health cron drops only the
\* snapshot lookups.
Publish(p) ==
    /\ publisher[p].at = "idle" /\ current < MaxVersion
    /\ replaced' = Append(replaced, now)
    /\ \E keys \in {{"snapshot"}, Keys} :
          publisher' = [publisher EXCEPT ![p] = [at |-> "read", value |-> Empty, keys |-> keys]]
    /\ UNCHANGED <<now, answer, store, configured, cache, flight, reader>>

\* Without a store, or when the read fails, there is nothing to put.
ReadPool(p) ==
    /\ publisher[p].at = "read"
    /\ \/ configured /\ publisher' = [publisher EXCEPT ![p].at = "put", ![p].value = current]
       \/ publisher' = [publisher EXCEPT ![p].at = "drop"]
    /\ UNCHANGED <<now, replaced, answer, store, configured, cache, flight, reader>>

\* The put lands, or fails unnoticed; of two, the later one stays.
PutSnapshot(p) ==
    /\ publisher[p].at = "put"
    /\ store' \in {store, [version |-> publisher[p].value, at |-> now]}
    /\ publisher' = [publisher EXCEPT ![p].at = "drop", ![p].value = Empty]
    /\ UNCHANGED <<now, replaced, answer, configured, cache, flight, reader>>

\* invalidate: what is in flight is not touched.
Invalidate(p) ==
    /\ publisher[p].at = "drop"
    /\ cache' = [k \in Keys |-> IF k \in publisher[p].keys THEN NoEntry ELSE cache[k]]
    /\ publisher' = [publisher EXCEPT ![p].at = "idle", ![p].keys = {}]
    /\ UNCHANGED <<now, replaced, answer, store, configured, flight, reader>>

\* A process starts with an empty cache.
Restart ==
    /\ cache # [k \in Keys |-> NoEntry] /\ \A r \in Readers : reader[r].at = "idle"
    /\ cache' = [k \in Keys |-> NoEntry]
    /\ UNCHANGED <<now, replaced, answer, store, configured, flight, reader, publisher>>

Tick ==
    /\ now < MaxClock
    /\ \A r \in Readers : reader[r].at = "idle"
    /\ \A p \in Publishers : publisher[p].at = "idle"
    /\ now' = now + 1
    /\ UNCHANGED <<replaced, answer, store, configured, cache, flight, reader, publisher>>

ReaderNext(r) == TakeHit(r) \/ Join(r) \/ Lead(r) \/ Load(r) \/ Store(r) \/ LoadFails(r)
PublisherNext(p) == ReadPool(p) \/ PutSnapshot(p) \/ Invalidate(p)
Next ==
    \/ \E r \in Readers : Arrive(r) \/ ReaderNext(r)
    \/ \E p \in Publishers : Publish(p) \/ PublisherNext(p)
    \/ Change \/ Restart \/ Tick
Spec == Init /\ [][Next]_vars

----------------------------------------------------------------------------
\* However lookups, loads, publications and invalidations interleave, nobody is given a
\* list that was out of date for longer than the snapshot's and the cache's TTLs together
\* (CacheTTL - 1, as an entry is no longer used at its expiry).
Feed == INSTANCE BoundedFeed WITH Bound <- SnapshotTTL + CacheTTL - 1
FeedIsBounded == Feed!Spec

\* Nobody waits for a load that is not under way: whoever waits for an answer waits for a
\* reader that will store one or fail, however many loads fail or panic.
NoWaiterStranded ==
    \A r \in Readers : reader[r].at = "wait" =>
        \E q \in Readers : /\ flight[reader[r].key] = q
                           /\ reader[q].key = reader[r].key /\ reader[q].at \in {"load", "store"}
=============================================================================
