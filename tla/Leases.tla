------------------------------- MODULE Leases -------------------------------
(***************************************************************************)
(* Leasing of pool entries.  GET /api/accounts hands a read key a few      *)
(* accounts of a service: those it holds already, then premium ones, then  *)
(* the least recently leased (lib/queries.ts, pool/leases.go).  A report   *)
(* releases the reported lease and, if there was one, earns a replacement. *)
(* GET /api/sources also hands out instances, which no key holds.          *)
(*                                                                         *)
(* Abstracted: one service; last_leased_at is the order of the entries by  *)
(* it; a key's lease row is the days it has left, Expired when the row is  *)
(* still there but past its TTL, Absent when there is none; what           *)
(* ensureFreshTidalToken does (TidalRefresh) is its outcome.               *)
(***************************************************************************)
EXTENDS Integers, Sequences, SequencesExt, FiniteSets

CONSTANTS Accounts, Instances,     \* entry ids
          Premium,                 \* the premium ones of both
          Keys, NoKey,             \* read keys with a row, and the keys without one
          Requests,
          PerCategory, LeaseTTL,   \* entries a lease hands out; days a lease row counts
          MaxExpired, MaxFaults, MaxOverlaps   \* bounds

VARIABLES tidal,        \* the service is Tidal, whose tokens expire within the hour, on the TypeScript server
          servable,     \* entries accountServableWhere or instanceServableWhere selects
          expired,      \* accounts whose stored access token has expired
          lru,          \* per table: the entries, least recently leased first
          lease,        \* api_key_leases
          req,
          credit,       \* history: how often an account was handed to a key, less its releases
          faults, overlaps

vars == <<tidal, servable, expired, lru, lease, req, credit, faults, overlaps>>

Entries == Accounts \cup Instances
Absent == -1
Expired == 0
MaxCredit == Cardinality(Requests)   \* no more can be released before another is handed out
Idle == [at |-> "idle", key |-> NoKey, picked |-> <<>>, reported |-> 0]

LeasesTypeOK ==
    /\ tidal \in BOOLEAN
    /\ servable \subseteq Entries /\ expired \subseteq Accounts
    /\ ToSet(lru.account) = Accounts /\ ToSet(lru.instance) = Instances
    /\ lease \in [Keys -> [Accounts -> Absent..LeaseTTL]]
    /\ credit \in [Keys -> [Accounts -> 0..MaxCredit]]
    /\ \A r \in Requests :
          /\ req[r].at \in {"idle", "refresh", "stamp", "record", "pick"}
          /\ req[r].key \in Keys \cup {NoKey} /\ ToSet(req[r].picked) \subseteq Entries
    /\ faults \in 0..MaxFaults /\ overlaps \in 0..MaxOverlaps

Init ==
    /\ tidal \in BOOLEAN
    /\ servable = Entries /\ expired = {}
    /\ lru = [account |-> SetToSortSeq(Accounts, <), instance |-> SetToSortSeq(Instances, <)]
    /\ lease = [k \in Keys |-> [e \in Accounts |-> Absent]]
    /\ req = [r \in Requests |-> Idle]
    /\ credit = [k \in Keys |-> [e \in Accounts |-> 0]]
    /\ faults = 0 /\ overlaps = 0

----------------------------------------------------------------------------
(* Choosing. *)

\* The lease rows of a key that still count.
Held(k) == IF k = NoKey THEN {} ELSE {e \in Accounts : lease[k][e] > Expired}

Pick(s, n) == SubSeq(s, 1, IF Len(s) < n THEN Len(s) ELSE n)

\* Mutant: the most recently leased first.
NewestFirst(s, k) ==
    LET rows(held, premium) ==
            SelectSeq(Reverse(s), LAMBDA e : /\ e \in servable /\ (e \in Held(k)) = held
                                             /\ (e \in Premium) = premium)
    IN  rows(TRUE, TRUE) \o rows(TRUE, FALSE) \o rows(FALSE, TRUE) \o rows(FALSE, FALSE)

\* The lease queries' ORDER BY: held by the key, premium, least recently leased.
Ordered(s, k) ==
    LET rows(held, premium) ==
            SelectSeq(s, LAMBDA e : /\ e \in servable /\ (e \in Held(k)) = held
                                    /\ (e \in Premium) = premium)
    IN  rows(TRUE, TRUE) \o rows(TRUE, FALSE) \o rows(FALSE, TRUE) \o rows(FALSE, FALSE)

\* A handed-out account is one more the key may report.
Credited(k, picked) ==
    IF k = NoKey THEN credit
    ELSE [credit EXCEPT ![k] = [e \in Accounts |->
             IF e \in ToSet(picked) /\ @[e] < MaxCredit THEN @[e] + 1 ELSE @[e]]]

Alone(r) == \A q \in Requests \ {r} : req[q].at = "idle"
Overlap(r) == IF Alone(r) THEN UNCHANGED overlaps
              ELSE overlaps < MaxOverlaps /\ overlaps' = overlaps + 1
Fault == faults < MaxFaults /\ faults' = faults + 1

\* The TypeScript server, for Tidal: only these candidates are looked at.
BeginTidalLease(r, k) ==
    /\ tidal /\ req[r].at = "idle" /\ Overlap(r)
    /\ req' = [req EXCEPT ![r] = [Idle EXCEPT !.at = "refresh", !.key = k,
                                     !.picked = Pick(Ordered(lru.account, k), 2 * PerCategory)]]
    /\ UNCHANGED <<tidal, servable, expired, lru, lease, credit, faults>>

\* Of the candidates whose token has expired some are refreshed; the rest are not served.
RefreshCandidates(r) ==
    /\ req[r].at = "refresh"
    /\ \E refreshed \in SUBSET (ToSet(req[r].picked) \cap expired) :
          LET fresh(e) == e \notin expired \ refreshed
              picked == Pick(SelectSeq(req[r].picked, fresh), PerCategory)
          IN  /\ expired' = expired \ refreshed
              /\ req' = [req EXCEPT ![r].at = "stamp", ![r].picked = picked]
              /\ credit' = Credited(req[r].key, picked)
    /\ UNCHANGED <<tidal, servable, lru, lease, faults, overlaps>>

\* Every other service, and the Go server for all of them: no token is looked at.
BeginLease(r, k) ==
    LET picked == Pick(Ordered(lru.account, k), PerCategory)
    IN  /\ ~tidal /\ req[r].at = "idle" /\ Overlap(r)
        /\ req' = [req EXCEPT ![r] = [Idle EXCEPT !.at = "stamp", !.key = k, !.picked = picked]]
        /\ credit' = Credited(k, picked)
        /\ UNCHANGED <<tidal, servable, expired, lru, lease, faults>>

LeaseInstances(r) ==
    /\ Instances # {} /\ req[r].at = "idle" /\ Overlap(r)
    /\ req' = [req EXCEPT ![r] = [Idle EXCEPT !.at = "stamp",
                                     !.picked = Pick(Ordered(lru.instance, NoKey), PerCategory)]]
    /\ UNCHANGED <<tidal, servable, expired, lru, lease, credit, faults>>

----------------------------------------------------------------------------
(* Booking: errors are swallowed, and the answer goes out all the same. *)

MoveLast(s, picked) == SelectSeq(s, LAMBDA e : e \notin ToSet(picked)) \o picked
Stamped(picked) ==
    IF ToSet(picked) \subseteq Instances THEN [lru EXCEPT !.instance = MoveLast(@, picked)]
    ELSE [lru EXCEPT !.account = MoveLast(@, picked)]

\* Distinct timestamps, in the order they were picked.
StampLeases(r) ==
    /\ req[r].at = "stamp"
    /\ \/ lru' = Stamped(req[r].picked) /\ UNCHANGED faults
       \/ req[r].picked # <<>> /\ Fault /\ UNCHANGED lru
    /\ req' = [req EXCEPT ![r].at = "record"]
    /\ UNCHANGED <<tidal, servable, expired, lease, credit, overlaps>>

RecordKeyLeases(r) ==
    LET k == req[r].key
    IN  /\ req[r].at = "record"
        /\ IF k = NoKey \/ req[r].picked = <<>> THEN UNCHANGED <<lease, faults>>
           ELSE \/ /\ lease' = [lease EXCEPT ![k] = [e \in Accounts |->
                                  IF e \in ToSet(req[r].picked) THEN LeaseTTL ELSE @[e]]]
                   /\ UNCHANGED faults
                \/ Fault /\ UNCHANGED lease
        /\ req' = [req EXCEPT ![r] = Idle]
        /\ UNCHANGED <<tidal, servable, expired, lru, credit, overlaps>>

----------------------------------------------------------------------------
(* A report by a key with a row; what it does to the entry is EntryHealth's. *)

\* The report's answer needs a replacement: k had the reported account leased.
Owes(r, k, e) ==
    /\ req[r].at = "idle" /\ lease[k][e] # Absent /\ Overlap(r)
    /\ credit' = [credit EXCEPT ![k][e] = IF @ > 0 THEN @ - 1 ELSE 0]
    /\ req' = [req EXCEPT ![r] = [Idle EXCEPT !.at = "pick", !.key = k, !.reported = e]]

\* Mutant: the row is looked for, and left to age.
SeeLease(r, k, e) == Owes(r, k, e) /\ UNCHANGED <<tidal, servable, expired, lru, lease, faults>>

\* One DELETE ... RETURNING, whatever the row's age; an error reads as no lease.
ReleaseLease(r, k, e) ==
    /\ Owes(r, k, e)
    /\ lease' = [lease EXCEPT ![k][e] = Absent]
    /\ UNCHANGED <<tidal, servable, expired, lru, faults>>

\* Turned away at the hourly cap, or as a caller that cannot be encrypted for: the
\* released lease is gone all the same.
DenyReplacement(r) ==
    /\ req[r].at = "pick"
    /\ req' = [req EXCEPT ![r] = Idle]
    /\ UNCHANGED <<tidal, servable, expired, lru, lease, credit, faults, overlaps>>

LeaseReplacement(r) ==
    LET k == req[r].key
        other == SelectSeq(Ordered(lru.account, NoKey), LAMBDA e : e # req[r].reported /\ e \notin Held(k))
        picked == Pick(other, 1)
    IN  /\ req[r].at = "pick"
        /\ req' = [req EXCEPT ![r] = IF picked = <<>> THEN Idle
                                     ELSE [@ EXCEPT !.at = "stamp", !.picked = picked]]
        /\ credit' = Credited(k, picked)
        /\ UNCHANGED <<tidal, servable, expired, lru, lease, faults, overlaps>>

----------------------------------------------------------------------------
(* What goes on around the leases. *)

\* A check, a report or the administrator takes an entry out, or a check brings it back.
ServableChanges(e) ==
    /\ \/ e \in servable /\ Fault /\ servable' = servable \ {e}
       \/ e \notin servable /\ servable' = servable \cup {e} /\ UNCHANGED faults
    /\ UNCHANGED <<tidal, expired, lru, lease, req, credit, overlaps>>

TokenExpires(e) ==
    /\ tidal /\ e \notin expired /\ Cardinality(expired) < MaxExpired
    /\ expired' = expired \cup {e}
    /\ UNCHANGED <<tidal, servable, lru, lease, req, credit, faults, overlaps>>

\* No request outlasts a day.
Day ==
    /\ \A r \in Requests : req[r].at = "idle"
    /\ lease' = [k \in Keys |-> [e \in Accounts |-> IF lease[k][e] > Expired THEN lease[k][e] - 1 ELSE lease[k][e]]]
    /\ UNCHANGED <<tidal, servable, expired, lru, req, credit, faults, overlaps>>

\* The answer goes out once the lease is booked.
HandsOut(r, e) == RecordKeyLeases(r) /\ e \in ToSet(req[r].picked)

LeaseBegins(r, k) == BeginLease(r, k) \/ BeginTidalLease(r, k)
RequestNext(r) ==
    \/ RefreshCandidates(r) \/ StampLeases(r) \/ RecordKeyLeases(r)
    \/ DenyReplacement(r) \/ LeaseReplacement(r)
Next ==
    \/ \E r \in Requests :
          \/ \E k \in Keys \cup {NoKey} : LeaseBegins(r, k)
          \/ \E k \in Keys, e \in Accounts : ReleaseLease(r, k, e)
          \/ LeaseInstances(r) \/ RequestNext(r)
    \/ \E e \in Entries : ServableChanges(e)
    \/ \E e \in Accounts : TokenExpires(e)
    \/ Day
Spec == Init /\ [][Next]_vars

\* Requests end, apps whose keys have no row keep asking for accounts, old builds for
\* instances, those with a key keep refreshing, and days pass between the requests.
FairSpec ==
    /\ Spec /\ \A r \in Requests : WF_vars(RequestNext(r))
    /\ \A k \in Keys \cup {NoKey} : SF_vars(\E r \in Requests : LeaseBegins(r, k))
    /\ SF_vars(\E r \in Requests : LeaseInstances(r))
    /\ SF_vars(Day)

----------------------------------------------------------------------------
\* However leases and reports of one key overlap and whatever bookkeeping fails, a key is
\* given no more replacements for an account than the pool handed it that account: a lease
\* row that can be released stands for a hand-out that was not reported yet.
ReplacementIsEarned == \A k \in Keys, e \in Accounts : lease[k][e] # Absent => credit[k][e] > 0

\* The rotation reaches everyone: a premium entry that stays servable, with a token that
\* stays good, is handed out again and again, although bookkeeping fails now and then and
\* entries whose refresh keeps failing stay at the head of the order.
RotationReachesAll ==
    \A e \in Premium :
        <>[](e \in servable \ expired) => []<><<\E r \in Requests : HandsOut(r, e)>>_vars

\* A key that came to hold more than one lease's worth of accounts is back to that number
\* some day, as the excess rows age out.
ExcessAgesOut == \A k \in Keys : []<>(Cardinality(Held(k)) <= PerCategory)
=============================================================================
