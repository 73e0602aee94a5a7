------------------------------ MODULE FeedsProofs ------------------------------
(***************************************************************************)
(* Theorems about the instance feed, for any number of readers and         *)
(* publications, any TTLs and any bounds: Feeds implements BoundedFeed,    *)
(* and no reader waits for a load that is gone.                            *)
(***************************************************************************)
EXTENDS Feeds, TLAPS

\* What the deployed stores do, and what the constants are.
Dated == FeedsConstants /\ Undated = FALSE /\ NoOne \notin Readers

\* Version v was current at time t, or at most slack before it.
CurrentAt(v, t, slack) == v \in 1..current /\ (v < current => replaced[v] + slack >= t)

\* The blob holds what was current when it was put.
StoreInv == store.version # Empty => CurrentAt(store.version, store.at, 0) /\ store.at <= now

\* A cached list was out of date by no more than a snapshot may be when it was stored.
CacheInv ==
    \A k \in Keys : /\ cache[k].expires <= now + CacheTTL
                    /\ cache[k].value # Empty => CurrentAt(cache[k].value, cache[k].expires, SnapshotTTL + CacheTTL)

\* So was a loaded one; what is about to be published is current.
LoadInv == \A r \in Readers : reader[r].at = "store" /\ reader[r].value # Empty =>
                                  CurrentAt(reader[r].value, now, SnapshotTTL)
PutInv == \A p \in Publishers : publisher[p].at = "put" => CurrentAt(publisher[p].value, now, 0)

AgeInv == FeedsTypeOK /\ StoreInv /\ CacheInv /\ LoadInv /\ PutInv

LEMMA CurrentTyped ==
    ASSUME FeedsTypeOK PROVE current \in Nat \ {0} /\ current = Len(replaced) + 1 /\ current \in Versions
  BY DEF FeedsTypeOK, current, Versions

LEMMA NowIsCurrent == ASSUME FeedsTypeOK, NEW t, NEW s PROVE CurrentAt(current, t, s)
  BY CurrentTyped DEF CurrentAt

\* While the pool does not change, nothing does.
LEMMA StillCurrent ==
    ASSUME UNCHANGED replaced, NEW v, NEW t, NEW s, CurrentAt(v, t, s)
    PROVE  CurrentAt(v, t, s)'
  BY DEF CurrentAt, current

\* When it changes, the version it replaces was current until now.
LEMMA ReplacedNow ==
    ASSUME FeedsTypeOK, replaced' = Append(replaced, now), NEW v, NEW t \in Nat, NEW s \in Nat,
           CurrentAt(v, t, s), t <= now + s
    PROVE  CurrentAt(v, t, s)'
<1>1. replaced \in Seq(Nat) /\ now \in Nat  BY DEF FeedsTypeOK
<1>2. /\ Len(replaced') = Len(replaced) + 1 /\ replaced'[Len(replaced) + 1] = now
      /\ \A i \in 1..Len(replaced) : replaced'[i] = replaced[i]
  BY <1>1
<1>3. current' = current + 1 /\ current = Len(replaced) + 1 /\ current \in Nat
  BY <1>1, <1>2 DEF current
<1>4. v \in 1..current /\ v \in 1..current'  BY <1>3 DEF CurrentAt
<1>5. CASE v < current
  <2>1. v \in 1..Len(replaced)  BY <1>3, <1>4, <1>5
  <2>2. replaced'[v] = replaced[v]  BY <1>2, <2>1
  <2>3. QED BY <1>4, <1>5, <2>2 DEF CurrentAt
<1>6. CASE ~(v < current)
  <2>1. v = Len(replaced) + 1  BY <1>3, <1>4, <1>6
  <2>2. replaced'[v] = now  BY <1>2, <2>1
  <2>3. QED BY <1>1, <1>4, <2>2 DEF CurrentAt
<1>7. QED BY <1>5, <1>6
-----------------------------------------------------------------------------
LEMMA AgeInit == ASSUME Dated PROVE Init => AgeInv
<1> SUFFICES ASSUME Init  PROVE AgeInv
  OBVIOUS
<1>1. FeedsTypeOK
  BY DEF Init, FeedsTypeOK, Dated, FeedsConstants, Values, NoEntry, Idle, Keys
<1>2. StoreInv /\ CacheInv /\ LoadInv /\ PutInv
  BY DEF Init, StoreInv, CacheInv, LoadInv, PutInv, NoEntry, Idle, Dated, FeedsConstants, Keys
<1>3. QED BY <1>1, <1>2 DEF AgeInv

ReaderStates == [at: {"idle", "look", "load", "store", "wait"}, key: Keys, value: Values]

\* A reader that goes to another place than "store" brings no value with it.
LEMMA ReaderMoves ==
    ASSUME FeedsTypeOK, NEW r \in Readers, NEW rd \in ReaderStates, rd.at # "store",
           reader' = [reader EXCEPT ![r] = rd]
    PROVE  /\ reader' \in [Readers -> ReaderStates]
           /\ \A q \in Readers : reader'[q].at = "store" => reader'[q] = reader[q]
<1>1. reader \in [Readers -> ReaderStates]  BY DEF FeedsTypeOK, ReaderStates
<1>2. QED BY <1>1

\* Nor does one that has got its value.
LEMMA GotTyped ==
    ASSUME FeedsTypeOK, NEW q \in Readers, NEW v \in Values
    PROVE  /\ Got([reader[q] EXCEPT !.value = Empty], v) \in ReaderStates
           /\ Got([reader[q] EXCEPT !.value = Empty], v).at # "store"
<1>1. [reader[q] EXCEPT !.value = Empty] \in ReaderStates
  <2>1. reader[q] \in ReaderStates /\ Empty \in Values  BY DEF FeedsTypeOK, ReaderStates, Values
  <2>2. QED BY <2>1 DEF ReaderStates
<1>2. Idle \in ReaderStates /\ Idle.at # "store"  BY DEF Idle, ReaderStates, Keys, Values
<1>3. \A rd \in ReaderStates :
         /\ [rd EXCEPT !.at = "look", !.key = "discovery"] \in ReaderStates
         /\ [rd EXCEPT !.at = "look", !.key = "discovery"].at # "store"
  BY DEF ReaderStates, Keys
<1>4. QED BY <1>1, <1>2, <1>3 DEF Got

PublisherStates == [at: {"idle", "read", "put", "drop"}, value: Values, keys: SUBSET Keys]

\* A publication that goes elsewhere than to its put leaves what is to be put alone.
LEMMA PublisherMoves ==
    ASSUME FeedsTypeOK, NEW p \in Publishers, NEW pub \in PublisherStates,
           publisher' = [publisher EXCEPT ![p] = pub]
    PROVE  /\ publisher' \in [Publishers -> PublisherStates]
           /\ publisher'[p] = pub
           /\ \A q \in Publishers \ {p} : publisher'[q] = publisher[q]
<1>1. publisher \in [Publishers -> PublisherStates]  BY DEF FeedsTypeOK, PublisherStates
<1>2. QED BY <1>1

\* A reader's steps between arriving and loading.
LEMMA LookupKeeps ==
    ASSUME Dated, AgeInv, NEW r \in Readers, Arrive(r) \/ TakeHit(r) \/ Join(r) \/ Lead(r)
    PROVE  AgeInv'
<1>a. FeedsTypeOK  BY DEF AgeInv
<1>b. UNCHANGED <<now, replaced, store, configured, cache, publisher>>
  BY DEF Arrive, TakeHit, Join, Lead
<1>1. /\ answer' \in Values /\ (flight \in [Keys -> Readers \cup {NoOne}])'
      /\ reader' \in [Readers -> [at: {"idle", "look", "load", "store", "wait"}, key: Keys, value: Values]]
      /\ \A q \in Readers : reader'[q].at = "store" => reader'[q] = reader[q]
  <2>0. reader[r] \in ReaderStates /\ reader[r].key \in Keys  BY <1>a DEF FeedsTypeOK, ReaderStates
  <2>1. CASE Arrive(r)
    <3>1. reader' = [reader EXCEPT ![r] = [reader[r] EXCEPT !.at = "look"]] /\ UNCHANGED <<answer, flight>>
      BY <2>1 DEF Arrive
    <3>2. [reader[r] EXCEPT !.at = "look"] \in ReaderStates /\ [reader[r] EXCEPT !.at = "look"].at # "store"
      BY <2>0 DEF ReaderStates
    <3>3. QED BY <3>1, <3>2, <1>a, ReaderMoves DEF FeedsTypeOK, ReaderStates
  <2>2. CASE TakeHit(r)
    <3>1. cache[reader[r].key].value \in Values  BY <2>0, <1>a DEF FeedsTypeOK
    <3>2. LET g == Got(reader[r], cache[reader[r].key].value)
          IN  g \in ReaderStates /\ g.at # "store" /\ reader' = [reader EXCEPT ![r] = g]
      BY <2>0, <2>2, <3>1 DEF TakeHit, Got, Idle, ReaderStates, Keys, Values
    <3>3. answer' \in Values /\ UNCHANGED flight  BY <2>2, <3>1, <1>a DEF TakeHit, FeedsTypeOK
    <3>4. QED BY <3>2, <3>3, <1>a, ReaderMoves DEF FeedsTypeOK, ReaderStates
  <2>3. CASE Join(r)
    <3>1. reader' = [reader EXCEPT ![r] = [reader[r] EXCEPT !.at = "wait"]] /\ UNCHANGED <<answer, flight>>
      BY <2>3 DEF Join
    <3>2. [reader[r] EXCEPT !.at = "wait"] \in ReaderStates /\ [reader[r] EXCEPT !.at = "wait"].at # "store"
      BY <2>0 DEF ReaderStates
    <3>3. QED BY <3>1, <3>2, <1>a, ReaderMoves DEF FeedsTypeOK, ReaderStates
  <2>4. CASE Lead(r)
    <3>1. reader' = [reader EXCEPT ![r] = [reader[r] EXCEPT !.at = "load"]] /\ UNCHANGED answer
      BY <2>4 DEF Lead
    <3>2. [reader[r] EXCEPT !.at = "load"] \in ReaderStates /\ [reader[r] EXCEPT !.at = "load"].at # "store"
      BY <2>0 DEF ReaderStates
    <3>3. (flight \in [Keys -> Readers \cup {NoOne}])'  BY <2>4, <1>a DEF Lead, FeedsTypeOK
    <3>4. QED BY <3>1, <3>2, <3>3, <1>a, ReaderMoves DEF FeedsTypeOK, ReaderStates
  <2>5. QED BY <2>1, <2>2, <2>3, <2>4
<1>2. FeedsTypeOK'  BY <1>a, <1>b, <1>1 DEF FeedsTypeOK
<1>3. StoreInv' /\ CacheInv' /\ PutInv'
  BY <1>b, StillCurrent DEF AgeInv, StoreInv, CacheInv, PutInv
<1>4. LoadInv'  BY <1>b, <1>1, StillCurrent DEF AgeInv, LoadInv
<1>5. QED BY <1>2, <1>3, <1>4 DEF AgeInv

\* A loaded value is current, or what a snapshot within its TTL holds.
LEMMA LoadKeeps ==
    ASSUME Dated, AgeInv, NEW r \in Readers, Load(r)
    PROVE  AgeInv'
<1>a. FeedsTypeOK  BY DEF AgeInv
<1>b. UNCHANGED <<now, replaced, answer, store, configured, cache, flight, publisher>>
  BY DEF Load
<1>1. PICK v \in IF reader[r].key = "snapshot" THEN SnapshotValues ELSE {current} :
          reader' = [reader EXCEPT ![r].at = "store", ![r].value = v]
  BY DEF Load
<1>2. v \in Values  BY <1>1, <1>a, CurrentTyped DEF SnapshotValues, Values, FeedsTypeOK
<1>3. v # Empty => CurrentAt(v, now, SnapshotTTL)
  <2>1. CASE v = current  BY <2>1, <1>a, NowIsCurrent
  <2>2. CASE v # current /\ v # Empty
    <3>1. v = store.version /\ store.at + SnapshotTTL >= now
      BY <2>2, <1>1 DEF SnapshotValues, WithinTTL, Dated
    <3>2. CurrentAt(v, store.at, 0)  BY <3>1, <2>2 DEF AgeInv, StoreInv
    <3>3. replaced \in Seq(Nat) /\ store.at \in Nat /\ now \in Nat /\ SnapshotTTL \in Nat
      BY <1>a DEF FeedsTypeOK, Dated, FeedsConstants
    <3>4. v < current => replaced[v] \in Nat
      BY <3>2, <3>3 DEF CurrentAt, current
    <3>5. QED BY <3>1, <3>2, <3>3, <3>4 DEF CurrentAt
  <2>3. QED BY <2>1, <2>2
<1>4. /\ reader' \in [Readers -> [at: {"idle", "look", "load", "store", "wait"}, key: Keys, value: Values]]
      /\ reader'[r].value = v /\ \A q \in Readers \ {r} : reader'[q] = reader[q]
  BY <1>1, <1>2, <1>a DEF FeedsTypeOK
<1>5. FeedsTypeOK'  BY <1>a, <1>b, <1>4 DEF FeedsTypeOK
<1>6. StoreInv' /\ CacheInv' /\ PutInv'
  BY <1>b, StillCurrent DEF AgeInv, StoreInv, CacheInv, PutInv
<1>7. LoadInv'
  <2>1. ASSUME NEW q \in Readers, reader'[q].at = "store", reader'[q].value # Empty
        PROVE  CurrentAt(reader'[q].value, now, SnapshotTTL)
    BY <2>1, <1>3, <1>4 DEF AgeInv, LoadInv
  <2>2. QED BY <2>1, <1>b, StillCurrent DEF LoadInv
<1>8. QED BY <1>5, <1>6, <1>7 DEF AgeInv

\* Storing a value gives it another CacheTTL, whatever was invalidated meanwhile.
LEMMA StoreKeeps ==
    ASSUME Dated, AgeInv, NEW r \in Readers, Store(r) \/ LoadFails(r)
    PROVE  AgeInv'
<1>a. FeedsTypeOK /\ CacheTTL \in Nat /\ SnapshotTTL \in Nat  BY DEF AgeInv, Dated, FeedsConstants
<1>b. UNCHANGED <<now, replaced, store, configured, publisher>>
  BY DEF Store, LoadFails
<1>c. reader[r].key \in Keys /\ reader[r].value \in Values /\ now \in Nat  BY <1>a DEF FeedsTypeOK
<1>1. /\ answer' \in Values /\ (flight \in [Keys -> Readers \cup {NoOne}])'
      /\ reader' \in [Readers -> [at: {"idle", "look", "load", "store", "wait"}, key: Keys, value: Values]]
      /\ \A q \in Readers : reader'[q].at = "store" => reader'[q] = reader[q]
  <2>1. CASE Store(r)
    <3>1. answer' \in Values /\ (flight \in [Keys -> Readers \cup {NoOne}])'
      BY <2>1, <1>a, <1>c DEF Store, FeedsTypeOK
    <3>2. ASSUME NEW q \in Readers, NEW v \in Values
          PROVE  /\ Got([reader[q] EXCEPT !.value = Empty], v) \in ReaderStates
                 /\ Got([reader[q] EXCEPT !.value = Empty], v).at # "store"
      BY GotTyped, <1>a
    <3>3. \A q \in Readers : reader[q] \in ReaderStates  BY <1>a DEF FeedsTypeOK, ReaderStates
    <3>4. QED BY <2>1, <3>1, <3>2, <3>3, <1>c DEF Store, ReaderStates
  <2>2. CASE LoadFails(r)
    BY <2>2, <1>a, <1>c DEF LoadFails, Idle, Keys, Values, FeedsTypeOK
  <2>3. QED BY <2>1, <2>2
<1>2. /\ cache' \in [Keys -> [value: Values, expires: Nat]]
      /\ \A k \in Keys : \/ cache'[k] = cache[k]
                         \/ /\ cache'[k] = [value |-> reader[r].value, expires |-> now + CacheTTL]
                            /\ reader[r].at = "store"
  <2>1. cache \in [Keys -> [value: Values, expires: Nat]]  BY <1>a DEF FeedsTypeOK
  <2>2. [value |-> reader[r].value, expires |-> now + CacheTTL] \in [value: Values, expires: Nat]
    BY <1>a, <1>c
  <2>3. CASE Store(r)  BY <2>1, <2>2, <2>3, <1>c DEF Store
  <2>4. CASE LoadFails(r)  BY <2>1, <2>4 DEF LoadFails
  <2>5. QED BY <2>3, <2>4
<1>3. FeedsTypeOK'  BY <1>a, <1>b, <1>1, <1>2 DEF FeedsTypeOK
<1>4. StoreInv' /\ PutInv'  BY <1>b, StillCurrent DEF AgeInv, StoreInv, PutInv
<1>5. LoadInv'  BY <1>b, <1>1, StillCurrent DEF AgeInv, LoadInv
<1>6. CacheInv'
  <2>1. ASSUME NEW k \in Keys
        PROVE  /\ cache'[k].expires <= now + CacheTTL
               /\ cache'[k].value # Empty => CurrentAt(cache'[k].value, cache'[k].expires, SnapshotTTL + CacheTTL)
    <3>1. CASE cache'[k] = cache[k]  BY <3>1 DEF AgeInv, CacheInv
    <3>2. CASE /\ cache'[k] = [value |-> reader[r].value, expires |-> now + CacheTTL]
               /\ reader[r].at = "store"
      <4>1. reader[r].value # Empty => CurrentAt(reader[r].value, now, SnapshotTTL)
        BY <3>2 DEF AgeInv, LoadInv
      <4>2. replaced \in Seq(Nat)  BY <1>a DEF FeedsTypeOK
      <4>3. \A v : CurrentAt(v, now, SnapshotTTL) => CurrentAt(v, now + CacheTTL, SnapshotTTL + CacheTTL)
        BY <1>a, <1>c, <4>2 DEF CurrentAt, current
      <4>4. cache'[k].value = reader[r].value /\ cache'[k].expires = now + CacheTTL  BY <3>2
      <4>5. QED BY <4>1, <4>3, <4>4, <1>a, <1>c
    <3>3. QED BY <3>1, <3>2, <1>2
  <2>2. QED BY <2>1, <1>b, StillCurrent DEF CacheInv
<1>7. QED BY <1>3, <1>4, <1>5, <1>6 DEF AgeInv

\* The pool changes; what was current until now is still young enough everywhere.
LEMMA ChangeKeeps ==
    ASSUME Dated, AgeInv, replaced' = Append(replaced, now),
           UNCHANGED <<now, answer, store, configured, cache, flight, reader>>,
           publisher' \in [Publishers -> [at: {"idle", "read", "put", "drop"}, value: Values, keys: SUBSET Keys]],
           \A p \in Publishers : publisher'[p].at = "put" => publisher'[p] = publisher[p]
    PROVE  AgeInv'
<1>a. FeedsTypeOK /\ CacheTTL \in Nat /\ SnapshotTTL \in Nat /\ now \in Nat
  BY DEF AgeInv, Dated, FeedsConstants, FeedsTypeOK
<1>1. FeedsTypeOK'  BY <1>a DEF FeedsTypeOK
<1>2. StoreInv'
  <2>1. store.at \in Nat  BY <1>a DEF FeedsTypeOK
  <2>2. QED BY <1>a, <2>1, ReplacedNow DEF AgeInv, StoreInv
<1>3. CacheInv'
  <2>1. ASSUME NEW k \in Keys, cache[k].value # Empty
        PROVE  CurrentAt(cache[k].value, cache[k].expires, SnapshotTTL + CacheTTL)'
    <3>1. cache[k].expires \in Nat  BY <1>a DEF FeedsTypeOK
    <3>2. CurrentAt(cache[k].value, cache[k].expires, SnapshotTTL + CacheTTL)
          /\ cache[k].expires <= now + CacheTTL
      BY <2>1 DEF AgeInv, CacheInv
    <3>3. SnapshotTTL + CacheTTL \in Nat /\ cache[k].expires <= now + (SnapshotTTL + CacheTTL)
      BY <1>a, <3>1, <3>2
    <3>4. UNCHANGED cache  OBVIOUS
    <3>5. QED BY <1>a, <3>1, <3>2, <3>3, <3>4, ReplacedNow
  <2>2. QED BY <2>1 DEF AgeInv, CacheInv
<1>4. LoadInv'  BY <1>a, ReplacedNow DEF AgeInv, LoadInv
<1>5. PutInv'  BY <1>a, ReplacedNow DEF AgeInv, PutInv
<1>6. QED BY <1>1, <1>2, <1>3, <1>4, <1>5 DEF AgeInv

\* A publication's steps after the change.
LEMMA PublisherKeeps ==
    ASSUME Dated, AgeInv, NEW p \in Publishers, PublisherNext(p)
    PROVE  AgeInv'
<1>a. FeedsTypeOK /\ now \in Nat /\ CacheTTL \in Nat  BY DEF AgeInv, Dated, FeedsConstants, FeedsTypeOK
<1>1. CASE ReadPool(p)
  <2>1. UNCHANGED <<now, replaced, answer, store, configured, cache, flight, reader>>  BY <1>1 DEF ReadPool
  <2>0. PICK pub \in PublisherStates : /\ publisher' = [publisher EXCEPT ![p] = pub]
                                       /\ pub.at = "put" => pub.value = current
    <3>1. publisher[p] \in PublisherStates /\ current \in Values
      BY <1>a, CurrentTyped DEF FeedsTypeOK, PublisherStates, Values
    <3>2. /\ [publisher[p] EXCEPT !.at = "put", !.value = current] \in PublisherStates
          /\ [publisher[p] EXCEPT !.at = "put", !.value = current].value = current
          /\ [publisher[p] EXCEPT !.at = "drop"] \in PublisherStates
          /\ [publisher[p] EXCEPT !.at = "drop"].at # "put"
      BY <3>1 DEF PublisherStates
    <3>3. \/ publisher' = [publisher EXCEPT ![p] = [publisher[p] EXCEPT !.at = "put", !.value = current]]
          \/ publisher' = [publisher EXCEPT ![p] = [publisher[p] EXCEPT !.at = "drop"]]
      BY <1>1 DEF ReadPool
    <3>4. QED BY <3>2, <3>3
  <2>2. FeedsTypeOK'  BY <2>0, <2>1, <1>a, PublisherMoves DEF PublisherStates, FeedsTypeOK
  <2>3. StoreInv' /\ CacheInv' /\ LoadInv'
    BY <2>1, StillCurrent DEF AgeInv, StoreInv, CacheInv, LoadInv
  <2>4. PutInv'
    <3>1. \A q \in Publishers \ {p} : publisher'[q] = publisher[q]
      BY <2>0, <1>a, PublisherMoves
    <3>2. publisher'[p].at = "put" => publisher'[p].value = current
      BY <2>0, <1>a, PublisherMoves
    <3>3. ASSUME NEW q \in Publishers, publisher'[q].at = "put"
          PROVE  CurrentAt(publisher'[q].value, now, 0)
      <4>1. CASE q = p  BY <4>1, <3>2, <3>3, <1>a, NowIsCurrent
      <4>2. CASE q # p  BY <4>2, <3>1, <3>3 DEF AgeInv, PutInv
      <4>3. QED BY <4>1, <4>2
    <3>4. QED BY <3>3, <2>1, StillCurrent DEF PutInv
  <2>5. QED BY <2>2, <2>3, <2>4 DEF AgeInv
<1>2. CASE PutSnapshot(p)
  <2>1. UNCHANGED <<now, replaced, answer, configured, cache, flight, reader>>  BY <1>2 DEF PutSnapshot
  <2>2. /\ \/ store' = store
           \/ /\ store' = [version |-> publisher[p].value, at |-> now]
              /\ CurrentAt(publisher[p].value, now, 0)
        /\ publisher[p].value \in Values
    BY <1>2, <1>a DEF PutSnapshot, AgeInv, PutInv, FeedsTypeOK
  <2>0. PICK pub \in PublisherStates : publisher' = [publisher EXCEPT ![p] = pub] /\ pub.at # "put"
    <3>1. publisher[p] \in PublisherStates /\ Empty \in Values
      BY <1>a DEF FeedsTypeOK, PublisherStates, Values
    <3>2. /\ [publisher[p] EXCEPT !.at = "drop", !.value = Empty] \in PublisherStates
          /\ [publisher[p] EXCEPT !.at = "drop", !.value = Empty].at # "put"
      BY <3>1 DEF PublisherStates
    <3>3. QED BY <1>2, <3>2 DEF PutSnapshot
  <2>3. FeedsTypeOK'
    <3>1. (store \in [version: Values, at: Nat])'  BY <2>2, <1>a DEF FeedsTypeOK
    <3>2. QED BY <2>0, <2>1, <3>1, <1>a, PublisherMoves DEF PublisherStates, FeedsTypeOK
  <2>4. CacheInv' /\ LoadInv'  BY <2>1, StillCurrent DEF AgeInv, CacheInv, LoadInv
  <2>5. PutInv'
    <3>1. \A q \in Publishers : publisher'[q].at = "put" => publisher'[q] = publisher[q]
      BY <2>0, <1>a, PublisherMoves
    <3>2. QED BY <3>1, <2>1, StillCurrent DEF AgeInv, PutInv
  <2>6. StoreInv'
    <3>1. CASE store' = store  BY <3>1, <2>1, StillCurrent DEF AgeInv, StoreInv
    <3>2. CASE /\ store' = [version |-> publisher[p].value, at |-> now]
               /\ CurrentAt(publisher[p].value, now, 0)
      <4>1. store'.version = publisher[p].value /\ store'.at = now  BY <3>2
      <4>2. current' = current /\ replaced' = replaced /\ now' = now  BY <2>1 DEF current
      <4>3. QED BY <3>2, <4>1, <4>2, <1>a DEF StoreInv, CurrentAt
    <3>3. QED BY <2>2, <3>1, <3>2
  <2>7. QED BY <2>3, <2>4, <2>5, <2>6 DEF AgeInv
<1>3. CASE Invalidate(p)
  <2>1. UNCHANGED <<now, replaced, answer, store, configured, flight, reader>>  BY <1>3 DEF Invalidate
  <2>2. \A k \in Keys : cache'[k] = cache[k] \/ cache'[k] = NoEntry  BY <1>3 DEF Invalidate
  <2>0. PICK pub \in PublisherStates : publisher' = [publisher EXCEPT ![p] = pub] /\ pub.at # "put"
    <3>1. publisher[p] \in PublisherStates  BY <1>a DEF FeedsTypeOK, PublisherStates
    <3>2. /\ [publisher[p] EXCEPT !.at = "idle", !.keys = {}] \in PublisherStates
          /\ [publisher[p] EXCEPT !.at = "idle", !.keys = {}].at # "put"
      BY <3>1 DEF PublisherStates
    <3>3. QED BY <1>3, <3>2 DEF Invalidate
  <2>3. FeedsTypeOK'
    <3>1. (cache \in [Keys -> [value: Values, expires: Nat]])'
      BY <1>3, <1>a DEF Invalidate, FeedsTypeOK, NoEntry, Values
    <3>2. QED BY <2>0, <2>1, <3>1, <1>a, PublisherMoves DEF PublisherStates, FeedsTypeOK
  <2>4. StoreInv' /\ LoadInv'  BY <2>1, StillCurrent DEF AgeInv, StoreInv, LoadInv
  <2>5. PutInv'
    <3>1. \A q \in Publishers : publisher'[q].at = "put" => publisher'[q] = publisher[q]
      BY <2>0, <1>a, PublisherMoves
    <3>2. QED BY <3>1, <2>1, StillCurrent DEF AgeInv, PutInv
  <2>6. CacheInv'
    BY <2>1, <2>2, <1>a, StillCurrent DEF AgeInv, CacheInv, NoEntry
  <2>7. QED BY <2>3, <2>4, <2>5, <2>6 DEF AgeInv
<1>4. QED BY <1>1, <1>2, <1>3 DEF PublisherNext

\* Every step keeps the invariant.
LEMMA AgeNext == ASSUME Dated PROVE AgeInv /\ [Next]_vars => AgeInv'
<1> SUFFICES ASSUME AgeInv, [Next]_vars  PROVE AgeInv'
  OBVIOUS
<1>a. FeedsTypeOK /\ now \in Nat /\ CacheTTL \in Nat  BY DEF AgeInv, Dated, FeedsConstants, FeedsTypeOK
<1>1. ASSUME NEW r \in Readers, Arrive(r) \/ ReaderNext(r)  PROVE AgeInv'
  BY <1>1, LookupKeeps, LoadKeeps, StoreKeeps DEF ReaderNext
<1>2. ASSUME NEW p \in Publishers, Publish(p)  PROVE AgeInv'
  <2>1. PICK keys \in {{"snapshot"}, Keys} :
          publisher' = [publisher EXCEPT ![p] = [at |-> "read", value |-> Empty, keys |-> keys]]
    BY <1>2 DEF Publish
  <2>2. /\ publisher' \in [Publishers -> [at: {"idle", "read", "put", "drop"}, value: Values, keys: SUBSET Keys]]
        /\ \A q \in Publishers : publisher'[q].at = "put" => publisher'[q] = publisher[q]
    BY <2>1, <1>a DEF FeedsTypeOK, Values, Keys
  <2>3. QED BY <1>2, <2>2, ChangeKeeps DEF Publish
<1>3. ASSUME NEW p \in Publishers, PublisherNext(p)  PROVE AgeInv'
  BY <1>3, PublisherKeeps
<1>4. CASE Change
  BY <1>4, <1>a, ChangeKeeps DEF Change, FeedsTypeOK
<1>5. CASE Restart
  <2>1. UNCHANGED <<now, replaced, answer, store, configured, flight, reader, publisher>>  BY <1>5 DEF Restart
  <2>2. FeedsTypeOK'  BY <1>5, <1>a DEF Restart, FeedsTypeOK, NoEntry, Values
  <2>3. StoreInv' /\ LoadInv' /\ PutInv'  BY <2>1, StillCurrent DEF AgeInv, StoreInv, LoadInv, PutInv
  <2>4. CacheInv'  BY <1>5, <1>a DEF Restart, CacheInv, NoEntry
  <2>5. QED BY <2>2, <2>3, <2>4 DEF AgeInv
<1>6. CASE Tick
  <2>1. /\ UNCHANGED <<replaced, answer, store, configured, cache, flight, reader, publisher>>
        /\ now' = now + 1
        /\ \A r \in Readers : reader[r].at = "idle"
        /\ \A p \in Publishers : publisher[p].at = "idle"
    BY <1>6 DEF Tick
  <2>2. FeedsTypeOK'  BY <2>1, <1>a DEF FeedsTypeOK
  <2>3. LoadInv' /\ PutInv'  BY <2>1 DEF LoadInv, PutInv
  <2>4. StoreInv'
    <3>1. store.at \in Nat  BY <1>a DEF FeedsTypeOK
    <3>2. QED BY <3>1, <2>1, <1>a, StillCurrent DEF AgeInv, StoreInv
  <2>5. CacheInv'
    <3>1. \A k \in Keys : cache[k].expires \in Nat  BY <1>a DEF FeedsTypeOK
    <3>2. QED BY <3>1, <2>1, <1>a, StillCurrent DEF AgeInv, CacheInv
  <2>6. QED BY <2>2, <2>3, <2>4, <2>5 DEF AgeInv
<1>7. CASE UNCHANGED vars
  BY <1>7, StillCurrent DEF vars, AgeInv, FeedsTypeOK, StoreInv, CacheInv, LoadInv, PutInv
<1>8. QED BY <1>1, <1>2, <1>3, <1>4, <1>5, <1>6, <1>7 DEF Next
-----------------------------------------------------------------------------
(* Feeds implements BoundedFeed. *)

\* An answer within its bound is one the abstract feed may serve.
LEMMA ServesFresh ==
    ASSUME UNCHANGED <<now, replaced>>,
           answer' = answer \/ answer' = Empty \/ CurrentAt(answer', now, SnapshotTTL + CacheTTL - 1)
    PROVE  [Feed!Next]_(<<now, replaced, answer>>)
  BY DEF Feed!Next, Feed!Serve, Feed!Fresh, Feed!current, CurrentAt, current

LEMMA StepIsBounded == ASSUME Dated PROVE AgeInv /\ [Next]_vars => [Feed!Next]_(<<now, replaced, answer>>)
<1> SUFFICES ASSUME AgeInv, [Next]_vars  PROVE [Feed!Next]_(<<now, replaced, answer>>)
  OBVIOUS
<1>a. /\ FeedsTypeOK /\ now \in Nat /\ CacheTTL \in Nat \ {0} /\ SnapshotTTL \in Nat
      /\ replaced \in Seq(Nat)
  BY DEF AgeInv, Dated, FeedsConstants, FeedsTypeOK
<1>1. ASSUME NEW r \in Readers, TakeHit(r)  PROVE [Feed!Next]_(<<now, replaced, answer>>)
  <2>1. reader[r].key \in Keys  BY <1>a DEF FeedsTypeOK
  <2>2. PICK k \in Keys : cache[k].expires > now /\ (answer' = cache[k].value \/ answer' = answer)
    BY <1>1, <2>1 DEF TakeHit, Hit
  <2>3. cache[k].expires \in Nat  BY <1>a DEF FeedsTypeOK
  <2>4. ASSUME NEW v, CurrentAt(v, cache[k].expires, SnapshotTTL + CacheTTL)
        PROVE  CurrentAt(v, now, SnapshotTTL + CacheTTL - 1)
    <3>1. v < current => replaced[v] \in Nat  BY <2>4, <1>a DEF CurrentAt, current
    <3>2. QED BY <2>2, <2>3, <2>4, <3>1, <1>a DEF CurrentAt
  <2>5. cache[k].value = Empty \/ CurrentAt(cache[k].value, now, SnapshotTTL + CacheTTL - 1)
    BY <2>4 DEF AgeInv, CacheInv
  <2>6. UNCHANGED <<now, replaced>>  BY <1>1 DEF TakeHit
  <2>7. QED BY <2>2, <2>5, <2>6, ServesFresh
<1>2. ASSUME NEW r \in Readers, Store(r)  PROVE [Feed!Next]_(<<now, replaced, answer>>)
  <2>1. UNCHANGED <<now, replaced>> /\ (answer' = answer \/ answer' = reader[r].value) /\ reader[r].at = "store"
    BY <1>2 DEF Store
  <2>2. ASSUME NEW v, CurrentAt(v, now, SnapshotTTL)
        PROVE  CurrentAt(v, now, SnapshotTTL + CacheTTL - 1)
    <3>1. v < current => replaced[v] \in Nat  BY <2>2, <1>a DEF CurrentAt, current
    <3>2. QED BY <2>2, <3>1, <1>a DEF CurrentAt
  <2>3. reader[r].value = Empty \/ CurrentAt(reader[r].value, now, SnapshotTTL + CacheTTL - 1)
    BY <2>1, <2>2 DEF AgeInv, LoadInv
  <2>4. QED BY <2>1, <2>3, ServesFresh
<1>3. ASSUME NEW r \in Readers, LoadFails(r)  PROVE [Feed!Next]_(<<now, replaced, answer>>)
  <2>1. UNCHANGED <<now, replaced>> /\ answer' = Empty  BY <1>3 DEF LoadFails
  <2>2. QED BY <2>1, ServesFresh
<1>4. ASSUME NEW r \in Readers, Arrive(r) \/ Join(r) \/ Lead(r) \/ Load(r)
      PROVE  UNCHANGED <<now, replaced, answer>>
  BY <1>4 DEF Arrive, Join, Lead, Load
<1>5. ASSUME Change \/ \E p \in Publishers : Publish(p)
      PROVE  [Feed!Next]_(<<now, replaced, answer>>)
  BY <1>5 DEF Change, Publish, Feed!Next, Feed!Change
<1>6. ASSUME NEW p \in Publishers, PublisherNext(p)  PROVE UNCHANGED <<now, replaced, answer>>
  BY <1>6 DEF PublisherNext, ReadPool, PutSnapshot, Invalidate
<1>7. CASE Restart  BY <1>7 DEF Restart
<1>8. CASE Tick  BY <1>8 DEF Tick, Feed!Next, Feed!Tick
<1>9. CASE UNCHANGED vars  BY <1>9 DEF vars
<1>10. QED
  BY <1>1, <1>2, <1>3, <1>4, <1>5, <1>6, <1>7, <1>8, <1>9 DEF Next, ReaderNext

\* Whatever a sweep's invalidation races with, and for any TTLs, readers and publications: if the
\* store says when a snapshot was put there, every answer is the empty feed or a list that was
\* current at most SnapshotTTL + CacheTTL - 1 ago.
THEOREM FeedImplementsBound == ASSUME Dated PROVE Spec => FeedIsBounded
<1>1. Init => Feed!Init  BY DEF Init, Feed!Init
<1>2. QED BY <1>1, AgeInit, AgeNext, StepIsBounded, PTL DEF Spec, FeedIsBounded, Feed!Spec
-----------------------------------------------------------------------------
(* Waiting readers. *)

\* A flight belongs to a reader that is loading or storing under its key, such a reader's key
\* has its flight, and whoever waits has one to wait for.
FlightInv ==
    /\ \A r \in Readers : reader[r].at \in {"load", "store"} => flight[reader[r].key] = r
    /\ \A k \in Keys : flight[k] # NoOne =>
          reader[flight[k]].at \in {"load", "store"} /\ reader[flight[k]].key = k
    /\ \A r \in Readers : reader[r].at = "wait" => flight[reader[r].key] # NoOne

LEMMA FlightSuffices == ASSUME FeedsTypeOK, FlightInv PROVE NoWaiterStranded
<1>1. \A k \in Keys : flight[k] # NoOne => flight[k] \in Readers  BY DEF FeedsTypeOK
<1>2. \A r \in Readers : reader[r].key \in Keys  BY DEF FeedsTypeOK
<1>3. QED BY <1>1, <1>2 DEF FlightInv, NoWaiterStranded

LEMMA FlightInit == ASSUME Dated PROVE Init => FlightInv
  BY DEF Init, FlightInv, Idle, Keys, Dated

\* Where a reader goes when it has got its value.
LEMMA GotGoes ==
    ASSUME NEW rd \in ReaderStates, NEW v PROVE Got(rd, v).at \in {"look", "idle"}
  BY DEF Got, Idle, ReaderStates

\* A reader that leads nothing and waits for nothing may go to "look" or "idle"; one whose key
\* has a flight may wait; a loading one may store.
LEMMA StepAside ==
    ASSUME Dated, FeedsTypeOK, FlightInv, NEW r \in Readers, UNCHANGED flight,
           \A q \in Readers \ {r} : reader'[q] = reader[q],
           \/ reader[r].at \in {"idle", "look"} /\ reader'[r].at \in {"look", "idle"}
           \/ /\ reader[r].at = "look" /\ reader'[r].at = "wait" /\ reader'[r].key = reader[r].key
              /\ flight[reader[r].key] # NoOne
           \/ reader[r].at = "load" /\ reader'[r].at = "store" /\ reader'[r].key = reader[r].key
    PROVE  FlightInv'
<1>1. \A k \in Keys : flight[k] \in Readers \cup {NoOne}  BY DEF FeedsTypeOK
<1>2. \A q \in Readers : reader'[q].at \in {"load", "store"} => flight'[reader'[q].key] = q
  BY DEF FlightInv
<1>3. \A k \in Keys : flight'[k] # NoOne =>
         reader'[flight'[k]].at \in {"load", "store"} /\ reader'[flight'[k]].key = k
  BY <1>1 DEF FlightInv
<1>4. \A q \in Readers : reader'[q].at = "wait" => flight'[reader'[q].key] # NoOne
  BY DEF FlightInv
<1>5. QED BY <1>2, <1>3, <1>4 DEF FlightInv

\* The flight of k is over, and all who waited under k have left with its reader.
LEMMA FlightEnds ==
    ASSUME Dated, FeedsTypeOK, FlightInv, NEW r \in Readers, reader[r].at \in {"load", "store"},
           flight' = [flight EXCEPT ![reader[r].key] = NoOne],
           \A q \in Readers : IF q \in Waiting(reader[r].key) \cup {r}
                              THEN reader'[q].at \in {"look", "idle"} ELSE reader'[q] = reader[q]
    PROVE  FlightInv'
<1>1. /\ \A k \in Keys : flight[k] \in Readers \cup {NoOne}
      /\ \A q \in Readers : reader[q].key \in Keys
      /\ flight \in [Keys -> Readers \cup {NoOne}]
  BY DEF FeedsTypeOK
<1>2. flight[reader[r].key] = r  BY DEF FlightInv
<1>3. /\ flight'[reader[r].key] = NoOne
      /\ \A k \in Keys \ {reader[r].key} : flight'[k] = flight[k] /\ flight[k] # r
  BY <1>1, <1>2 DEF FlightInv, Dated
<1>4. ASSUME NEW q \in Readers, reader'[q].at \in {"load", "store"}  PROVE flight'[reader'[q].key] = q
  <2>1. reader'[q] = reader[q] /\ q # r  BY <1>4
  <2>2. flight[reader[q].key] = q  BY <1>4, <2>1 DEF FlightInv
  <2>3. reader[q].key # reader[r].key  BY <2>1, <2>2, <1>2
  <2>4. QED BY <1>1, <1>3, <2>1, <2>2, <2>3
<1>5. ASSUME NEW k \in Keys, flight'[k] # NoOne
      PROVE  reader'[flight'[k]].at \in {"load", "store"} /\ reader'[flight'[k]].key = k
  <2>1. k # reader[r].key /\ flight'[k] = flight[k] /\ flight[k] \in Readers \ {r}
    BY <1>1, <1>3, <1>5
  <2>2. reader[flight[k]].at \in {"load", "store"} /\ reader[flight[k]].key = k
    BY <1>5, <2>1 DEF FlightInv
  <2>3. reader'[flight[k]] = reader[flight[k]]  BY <2>1, <2>2 DEF Waiting
  <2>4. QED BY <2>1, <2>2, <2>3
<1>6. ASSUME NEW q \in Readers, reader'[q].at = "wait"  PROVE flight'[reader'[q].key] # NoOne
  <2>1. reader'[q] = reader[q] /\ q \notin Waiting(reader[r].key)  BY <1>6
  <2>2. reader[q].key # reader[r].key  BY <1>6, <2>1 DEF Waiting
  <2>3. QED BY <1>1, <1>3, <1>6, <2>1, <2>2 DEF FlightInv
<1>7. QED BY <1>4, <1>5, <1>6 DEF FlightInv

LEMMA FlightNext == ASSUME Dated, FeedsTypeOK PROVE FlightInv /\ [Next]_vars => FlightInv'
<1> SUFFICES ASSUME FlightInv, [Next]_vars  PROVE FlightInv'
  OBVIOUS
<1>a. \A r \in Readers : reader[r] \in ReaderStates /\ reader[r].key \in Keys
  BY DEF FeedsTypeOK, ReaderStates
<1>b. reader \in [Readers -> ReaderStates] /\ flight \in [Keys -> Readers \cup {NoOne}]
  BY DEF FeedsTypeOK, ReaderStates
<1>1. ASSUME NEW r \in Readers, Arrive(r)  PROVE FlightInv'
  <2>1. reader'[r].at = "look" /\ \A q \in Readers \ {r} : reader'[q] = reader[q]
    BY <1>1, <1>a, <1>b DEF Arrive, ReaderStates
  <2>2. QED BY <1>1, <2>1, StepAside DEF Arrive
<1>2. ASSUME NEW r \in Readers, TakeHit(r)  PROVE FlightInv'
  <2>1. reader'[r].at \in {"look", "idle"} /\ \A q \in Readers \ {r} : reader'[q] = reader[q]
    BY <1>2, <1>a, <1>b, GotGoes DEF TakeHit
  <2>2. QED BY <1>2, <2>1, StepAside DEF TakeHit
<1>3. ASSUME NEW r \in Readers, Join(r)  PROVE FlightInv'
  <2>1. /\ reader'[r].at = "wait" /\ reader'[r].key = reader[r].key
        /\ \A q \in Readers \ {r} : reader'[q] = reader[q]
    BY <1>3, <1>a, <1>b DEF Join, ReaderStates
  <2>2. QED BY <1>3, <2>1, StepAside DEF Join
<1>4. ASSUME NEW r \in Readers, Load(r)  PROVE FlightInv'
  <2>1. PICK v : reader' = [reader EXCEPT ![r].at = "store", ![r].value = v]  BY <1>4 DEF Load
  <2>2. /\ reader'[r].at = "store" /\ reader'[r].key = reader[r].key
        /\ \A q \in Readers \ {r} : reader'[q] = reader[q]
    BY <2>1, <1>a, <1>b DEF ReaderStates
  <2>3. QED BY <1>4, <2>2, StepAside DEF Load
<1>5. ASSUME NEW r \in Readers, Lead(r)  PROVE FlightInv'
  <2>1. /\ reader'[r].at = "load" /\ reader'[r].key = reader[r].key
        /\ \A q \in Readers \ {r} : reader'[q] = reader[q]
    BY <1>5, <1>a, <1>b DEF Lead, ReaderStates
  <2>2. /\ flight'[reader[r].key] = r /\ flight[reader[r].key] = NoOne
        /\ \A k \in Keys \ {reader[r].key} : flight'[k] = flight[k]
        /\ reader[r].at = "look"
    BY <1>5, <1>a, <1>b DEF Lead
  <2>3. \A q \in Readers : reader'[q].at \in {"load", "store"} => flight'[reader'[q].key] = q
    BY <2>1, <2>2, <1>a, <1>b DEF FlightInv, Dated
  <2>4. ASSUME NEW k \in Keys, flight'[k] # NoOne
        PROVE  reader'[flight'[k]].at \in {"load", "store"} /\ reader'[flight'[k]].key = k
    <3>1. CASE k = reader[r].key  BY <3>1, <2>1, <2>2
    <3>2. CASE k # reader[r].key
      <4>1. flight'[k] = flight[k] /\ flight[k] \in Readers  BY <3>2, <2>2, <2>4, <1>b
      <4>2. reader[flight[k]].at \in {"load", "store"} /\ reader[flight[k]].key = k
        BY <4>1, <2>4 DEF FlightInv
      <4>3. flight[k] # r  BY <4>2, <2>2
      <4>4. QED BY <4>1, <4>2, <4>3, <2>1
    <3>3. QED BY <3>1, <3>2
  <2>5. \A q \in Readers : reader'[q].at = "wait" => flight'[reader'[q].key] # NoOne
    BY <2>1, <2>2, <1>a DEF FlightInv, Dated
  <2>6. QED BY <2>3, <2>4, <2>5 DEF FlightInv
<1>6. ASSUME NEW r \in Readers, Store(r)  PROVE FlightInv'
  <2>1. reader[r].at = "store" /\ flight' = [flight EXCEPT ![reader[r].key] = NoOne]
    BY <1>6 DEF Store
  <2>2. \A q \in Readers : [reader[q] EXCEPT !.value = Empty] \in ReaderStates
    BY <1>a DEF ReaderStates, Values
  <2>3. \A q \in Readers : IF q \in Waiting(reader[r].key) \cup {r}
                           THEN reader'[q].at \in {"look", "idle"} ELSE reader'[q] = reader[q]
    BY <1>6, <2>2, GotGoes DEF Store
  <2>4. QED BY <2>1, <2>3, FlightEnds
<1>7. ASSUME NEW r \in Readers, LoadFails(r)  PROVE FlightInv'
  <2>1. /\ reader[r].at = "load" /\ flight' = [flight EXCEPT ![reader[r].key] = NoOne]
        /\ \A q \in Readers : IF q \in Waiting(reader[r].key) \cup {r}
                              THEN reader'[q].at \in {"look", "idle"} ELSE reader'[q] = reader[q]
    BY <1>7 DEF LoadFails, Idle
  <2>2. QED BY <2>1, FlightEnds
<1>8. ASSUME UNCHANGED <<flight, reader>>  PROVE FlightInv'
  BY <1>8 DEF FlightInv
<1>9. ASSUME \/ Change \/ Restart \/ Tick \/ UNCHANGED vars
             \/ \E p \in Publishers : Publish(p) \/ PublisherNext(p)
      PROVE  UNCHANGED <<flight, reader>>
  BY <1>9 DEF Change, Restart, Tick, vars, Publish, PublisherNext, ReadPool, PutSnapshot, Invalidate
<1>10. QED
  BY <1>1, <1>2, <1>3, <1>4, <1>5, <1>6, <1>7, <1>8, <1>9 DEF Next, ReaderNext

\* Whoever waits for a load waits for a reader that will store or fail, however many readers
\* join it and however many loads fail.
THEOREM WaitersAreServed == ASSUME Dated PROVE Spec => []NoWaiterStranded
<1>1. AgeInv => FeedsTypeOK  BY DEF AgeInv
<1>2. QED BY <1>1, AgeInit, AgeNext, FlightInit, FlightNext, FlightSuffices, PTL DEF Spec

\* Readers, publishers, the store, the cache and the flights stay of their types: the answer, a
\* snapshot or a cached list is a version or nothing, and a flight is some reader's or nobody's.
THEOREM FeedsTypeCorrect == ASSUME Dated PROVE Spec => []FeedsTypeOK
<1>1. AgeInv => FeedsTypeOK  BY DEF AgeInv
<1>2. QED BY <1>1, AgeInit, AgeNext, PTL DEF Spec
=============================================================================
