------------------------------- MODULE Accounts -------------------------------
(***************************************************************************)
(* Accounts, read keys and key requests: the tables users, api_keys,       *)
(* api_key_requests and github_claims under everything that writes them.   *)
(* A user asks for a key, an administrator decides, the user claims it     *)
(* (lib/api-keys.ts; the Go server's own version in auth/keys.go); and a   *)
(* legacy account is absorbed into a GitHub account, by proof of one of    *)
(* its keys or by review (lib/claim-transfer.ts, lib/github-auth.ts).      *)
(*                                                                         *)
(* Transactions run at READ COMMITTED: a step is one statement, it sees    *)
(* what is committed, and a row lock (FOR UPDATE) lasts until the          *)
(* transaction ends.  What a transaction writes is applied in its last     *)
(* step, the first that others can see.  An UPDATE locks its row, then its *)
(* foreign keys: reviewed_by shares the row of the administrator who       *)
(* signs, and that share waits for a FOR UPDATE.                           *)
(*                                                                         *)
(* Abstracted: names, hashes, notes and scopes; the limits per device and  *)
(* per address; changes of roles; the audit log; keys an administrator     *)
(* creates, which have no owner; the rows that a statement which changes   *)
(* several keeps while it waits for the rest.  users.disabled is claimedBy *)
(* # NoOne: nothing else sets it.  A session is the user id it carries.    *)
(***************************************************************************)
EXTENDS Naturals, FiniteSets

CONSTANTS Users,       \* account ids
          Github,      \* the accounts that belong to a GitHub identity
          Admins,      \* the accounts with the role admin
          Keys, Requests, Claims,
          Workers,     \* requests under way, whatever they do
          MaxKeys,     \* MAX_KEYS_PER_USER
          NoOne

\* Ids of different tables are different rows, and none of them is no row.
ASSUME AccountsConstants ==
    /\ Github \subseteq Users /\ Admins \subseteq Users
    /\ Users \cap Requests = {} /\ Users \cap Keys = {} /\ Users \cap Claims = {}
    /\ Requests \cap Keys = {} /\ Requests \cap Claims = {} /\ Keys \cap Claims = {}
    /\ NoOne \notin Users \cup Requests \cup Keys \cup Claims \cup Workers

\* users.id is a serial column: numbers, which the locks are ordered by, of 32 bits.
ASSUME UserIds == Users \subseteq Nat /\ IsFiniteSet(Users)

VARIABLES exists, claimedBy,   \* users
          key,                 \* api_keys: owner, state, the request it came from
          request,             \* api_key_requests: owner, status, resulting_key_id
          claim,               \* github_claims: filing account, target, status
          lock,                \* who holds the lock of a row
          pc, job              \* where each process is and what it works on

tables == <<exists, claimedBy, key, request, claim>>
vars == <<exists, claimedBy, key, request, claim, lock, pc, job>>

Rows == Users \cup Requests \cup Keys \cup Claims
NoJob == [server |-> "ts", user |-> NoOne, target |-> NoOne, item |-> NoOne, admin |-> NoOne]

TypeOK ==
    /\ exists \in [Users -> BOOLEAN]
    /\ claimedBy \in [Users -> Users \cup {NoOne}]
    /\ key \in [Keys -> [owner: Users \cup {NoOne}, state: {"unminted", "active", "revoked", "gone"},
                         from: Requests \cup {NoOne}]]
    /\ request \in [Requests -> [owner: Users \cup {NoOne},
                                 status: {"none", "pending", "approved", "rejected"},
                                 key: Keys \cup {NoOne}]]
    /\ claim \in [Claims -> [by: Users \cup {NoOne}, target: Users \cup {NoOne},
                             status: {"none", "pending", "approved", "rejected"}]]
    /\ lock \in [Rows -> Workers \cup {NoOne}]
    /\ pc \in [Workers -> {"idle", "ask", "user", "request", "count", "mint",
                             "first", "second", "check", "move", "stamp",
                             "approve", "reject", "refuse"}]
    /\ job \in [Workers -> [server: {"ts", "go"}, user: Users \cup {NoOne},
                              target: Users \cup {NoOne}, item: Requests \cup Keys \cup Claims \cup {NoOne},
                              admin: Users \cup {NoOne}]]

\* Legacy accounts, of which one may hold a key; the GitHub accounts are still to come.
Init ==
    /\ exists = [u \in Users |-> u \notin Github]
    /\ claimedBy = [u \in Users |-> NoOne]
    /\ \E K \in SUBSET Keys, u \in Users \ Github :
          /\ Cardinality(K) <= 1
          /\ key = [k \in Keys |-> IF k \in K THEN [owner |-> u, state |-> "active", from |-> NoOne]
                                   ELSE [owner |-> NoOne, state |-> "unminted", from |-> NoOne]]
    /\ request = [r \in Requests |-> [owner |-> NoOne, status |-> "none", key |-> NoOne]]
    /\ \/ claim = [c \in Claims |-> [by |-> NoOne, target |-> NoOne, status |-> "none"]]
       \/ \E c \in Claims, g \in Github, u \in Users \ Github :   \* filed before g had an account
             claim = [d \in Claims |-> IF d = c THEN [by |-> g, target |-> u, status |-> "pending"]
                                       ELSE [by |-> NoOne, target |-> NoOne, status |-> "none"]]
    /\ lock = [row \in Rows |-> NoOne]
    /\ pc = [p \in Workers |-> "idle"]
    /\ job = [p \in Workers |-> NoJob]

\* isSessionUserLive.
Live(u) == exists[u] /\ claimedBy[u] = NoOne
Active(u) == {k \in Keys : key[k].owner = u /\ key[k].state = "active"}
Free(row, p) == lock[row] \in {NoOne, p}

BeginBy(a, p, server, at, u, v, i) ==
    /\ pc[p] = "idle"
    /\ pc' = [pc EXCEPT ![p] = at]
    /\ job' = [job EXCEPT ![p] = [server |-> server, user |-> u, target |-> v, item |-> i, admin |-> a]]
Begin(p, server, at, u, v, i) == BeginBy(NoOne, p, server, at, u, v, i)
Goto(p, at) == pc' = [pc EXCEPT ![p] = at] /\ UNCHANGED job

\* The transaction is over, by COMMIT or ROLLBACK: its locks go.
End(p) ==
    /\ pc' = [pc EXCEPT ![p] = "idle"]
    /\ job' = [job EXCEPT ![p] = NoJob]
    /\ lock' = [row \in Rows |-> IF lock[row] = p THEN NoOne ELSE lock[row]]

----------------------------------------------------------------------------
(* Asking for a key: POST /api/keys. *)

UnderLimit(u) == Cardinality(Active(u)) < MaxKeys

BeginAsk(t, u) ==
    /\ Live(u)
    /\ UnderLimit(u)
    /\ Begin(t, "ts", "ask", u, NoOne, NoOne)
    /\ UNCHANGED <<tables, lock>>

\* The Go server knows the session by its signature alone; the rest is the same.
GoBeginAsk(t, u) ==
    /\ exists[u]
    /\ UnderLimit(u)
    /\ Begin(t, "ts", "ask", u, NoOne, NoOne)
    /\ UNCHANGED <<tables, lock>>

\* The insert waits for the owner's row: its foreign key takes a share lock there.
CreateKeyRequest(t) ==
    /\ pc[t] = "ask" /\ Free(job[t].user, t)
    /\ \E r \in Requests :
          /\ request[r].status = "none"
          /\ request' = [request EXCEPT ![r] = [owner |-> job[t].user, status |-> "pending", key |-> NoOne]]
    /\ End(t)
    /\ UNCHANGED <<exists, claimedBy, key, claim>>

(* Deciding: a SELECT that must find the request pending, then an UPDATE by id. *)

\* The UPDATE locks its row.  Unsigned (the shared token is nobody's) it is one step;
\* if an administrator signs, it keeps that row and waits for theirs, for resolveAdmin
\* looked at the session only when the request came in.
Signed(w) == IF job[w].admin = NoOne THEN Free(job[w].item, w) ELSE Free(job[w].admin, w)

BeginReview(w, r) ==
    /\ request[r].status = "pending"
    /\ \E decision \in {"approve", "reject"} : Begin(w, "ts", decision, NoOne, NoOne, r)
    /\ UNCHANGED <<tables, lock>>

Sign(w) ==
    /\ pc[w] \in {"approve", "reject", "stamp"} /\ job[w].admin = NoOne /\ Free(job[w].item, w)
    /\ \E a \in Admins : exists[a] /\ job' = [job EXCEPT ![w].admin = a]
    /\ lock' = [lock EXCEPT ![job[w].item] = w]
    /\ UNCHANGED <<tables, pc>>

Decide(w, decision, status) ==
    /\ pc[w] = decision /\ Signed(w)
    /\ request' = [request EXCEPT ![job[w].item].status = status]
    /\ End(w)
    /\ UNCHANGED <<exists, claimedBy, key, claim>>

ApproveKeyRequest(w) == Decide(w, "approve", "approved")
RejectKeyRequest(w) == Decide(w, "reject", "rejected")

----------------------------------------------------------------------------
(* Claiming the key of an approved request: claimApprovedKey. *)

\* Any id will do, also of a request that nobody has made yet.
BeginClaim(t, u, r) ==
    /\ Live(u)
    /\ Begin(t, "ts", "user", u, NoOne, r)
    /\ UNCHANGED <<tables, lock>>

\* The Go server starts with the request and locks no user: that statement is here,
\* for before it, and when it finds nothing to claim, nothing is held or changed.
GoBeginClaim(t, u, r) ==
    /\ exists[u]
    /\ request[r] = [owner |-> u, status |-> "approved", key |-> NoOne] /\ Free(r, t)
    /\ Begin(t, "go", "count", u, NoOne, r)
    /\ lock' = [lock EXCEPT ![r] = t]
    /\ UNCHANGED tables

LockUser(t) ==
    /\ pc[t] = "user" /\ Free(job[t].user, t)
    /\ lock' = [lock EXCEPT ![job[t].user] = t]
    /\ Goto(t, "request")
    /\ UNCHANGED tables

\* Mutant: the SELECT has no FOR UPDATE.
SeeRequest(t) ==
    /\ pc[t] = "request"
    /\ IF request[job[t].item] = [owner |-> job[t].user, status |-> "approved", key |-> NoOne]
       THEN Goto(t, "count") /\ UNCHANGED lock
       ELSE End(t)
    /\ UNCHANGED tables

\* The SELECT names the owner, so it does not wait for a request that is not its own.
LockRequest(t) ==
    LET r == job[t].item IN
    /\ pc[t] = "request"
    /\ request[r].owner = job[t].user => Free(r, t)
    /\ IF request[r] = [owner |-> job[t].user, status |-> "approved", key |-> NoOne]
       THEN lock' = [lock EXCEPT ![r] = t] /\ Goto(t, "count")
       ELSE End(t)       \* not_found, not_approved, already_claimed
    /\ UNCHANGED tables

CountKeys(t) ==
    /\ pc[t] = "count"
    /\ IF UnderLimit(job[t].user) THEN Goto(t, "mint") /\ UNCHANGED lock ELSE End(t)
    /\ UNCHANGED tables

\* INSERT (whose foreign key waits for the owner's row), UPDATE, COMMIT.
Mint(t) ==
    LET r == job[t].item IN
    /\ pc[t] = "mint" /\ Free(job[t].user, t)
    /\ \E k \in Keys :
          /\ key[k].state = "unminted"
          /\ key' = [key EXCEPT ![k] = [owner |-> job[t].user, state |-> "active", from |-> r]]
          /\ request' = [request EXCEPT ![r].key = k]
    /\ End(t)
    /\ UNCHANGED <<exists, claimedBy, claim>>

(* What owners and administrators do to keys, a statement each. *)

SetRevoked(k, revoked) ==
    /\ lock[k] = NoOne
    /\ key[k].state = IF revoked THEN "active" ELSE "revoked"
    /\ key' = [key EXCEPT ![k].state = IF revoked THEN "revoked" ELSE "active"]
    /\ UNCHANGED <<exists, claimedBy, request, claim, lock, pc, job>>

\* ON DELETE SET NULL: the request of the key forgets it.
DeleteKey(k) ==
    /\ lock[k] = NoOne
    /\ \A r \in Requests : request[r].key = k => lock[r] = NoOne
    /\ key[k].state \in {"active", "revoked"}
    /\ key' = [key EXCEPT ![k].state = "gone", ![k].owner = NoOne]
    /\ request' = [r \in Requests |-> [request[r] EXCEPT !.key = IF @ = k THEN NoOne ELSE @]]
    /\ UNCHANGED <<exists, claimedBy, claim, lock, pc, job>>

UserKeyUpdate(u, k) ==
    /\ Live(u) /\ key[k].owner = u
    /\ DeleteKey(k) \/ \E revoked \in BOOLEAN : SetRevoked(k, revoked)

GoUserKeyUpdate(u, k) ==
    /\ exists[u] /\ key[k].owner = u
    /\ DeleteKey(k) \/ \E revoked \in BOOLEAN : SetRevoked(k, revoked)

AdminKeyUpdate(k) == DeleteKey(k) \/ \E revoked \in BOOLEAN : SetRevoked(k, revoked)

----------------------------------------------------------------------------
(* The legacy claim: runLegacyClaimTransfer and approveGithubClaim. *)

\* Mutant: the marker does not ask whether the account is claimed already.
ClaimableAgain(u) == exists[u] /\ u \notin Github

Claimable(u) == exists[u] /\ claimedBy[u] = NoOne /\ u \notin Github
\* Mutant: the claimer's row is locked first.
AsGiven(u, v) == <<u, v>>

InOrder(u, v) == IF u < v THEN <<u, v>> ELSE <<v, u>>

FirstSignIn(u) ==
    /\ u \in Github /\ ~exists[u] /\ lock[u] = NoOne
    /\ exists' = [exists EXCEPT ![u] = TRUE]
    /\ UNCHANGED <<claimedBy, key, request, claim, lock, pc, job>>

Filed(u, v, c) == claim' = [claim EXCEPT ![c] = [by |-> u, target |-> v, status |-> "pending"]]
FreeClaims == {c \in Claims : claim[c].status = "none"}

FileReviewClaim(u, v) ==
    /\ Live(u) /\ u \in Github /\ Claimable(v) /\ u # v
    /\ \E c \in FreeClaims : Filed(u, v, c)
    /\ UNCHANGED <<exists, claimedBy, key, request, lock, pc, job>>

\* claimDecision found that k is an active key of v.
BeginTransfer(m, u, v, k) ==
    /\ Live(u) /\ Claimable(v) /\ u # v
    /\ key[k].owner = v /\ key[k].state = "active"
    /\ Begin(m, "ts", "first", u, v, k)
    /\ UNCHANGED <<tables, lock>>

\* A claim may name a GitHub identity with no account: the transaction inserts it.
BeginApproval(m, c) ==
    LET u == claim[c].by IN
    /\ claim[c].status = "pending" /\ Free(u, m)
    /\ Begin(m, "ts", "first", u, claim[c].target, c)
    /\ lock' = IF exists[u] THEN lock ELSE [lock EXCEPT ![u] = m]
    /\ UNCHANGED tables

LockInOrder(m, at, next, row) ==
    /\ pc[m] = at /\ Free(row, m)
    /\ lock' = [lock EXCEPT ![row] = m]
    /\ Goto(m, next)
    /\ UNCHANGED tables

LockFirst(m) == LockInOrder(m, "first", "second", InOrder(job[m].user, job[m].target)[1])
LockSecond(m) == LockInOrder(m, "second", "check", InOrder(job[m].user, job[m].target)[2])

\* The account the approval inserted is committed with whatever it returns.
Return(m) == End(m) /\ exists' = [exists EXCEPT ![job[m].user] = TRUE]

\* Mutant: the claimer is not looked at again under its lock.
ClaimerWasLive(m) == TRUE

ClaimerIsLive(m) == claimedBy[job[m].user] = NoOne

\* Mutant: the first look at the proof is trusted.
TrustProof(m) ==
    /\ pc[m] = "check" /\ job[m].item \in Keys
    /\ IF ClaimerIsLive(m) THEN Goto(m, "move") /\ UNCHANGED <<exists, lock>> ELSE Return(m)
    /\ UNCHANGED <<claimedBy, key, request, claim>>

\* The claimer, and the proof under a lock of its own.
CheckProof(m) ==
    LET k == job[m].item IN
    /\ pc[m] = "check" /\ k \in Keys /\ Free(k, m)
    /\ IF ClaimerIsLive(m) /\ key[k].owner = job[m].target /\ key[k].state = "active"
       THEN lock' = [lock EXCEPT ![k] = m] /\ Goto(m, "move") /\ UNCHANGED tables
       ELSE /\ Return(m)
            /\ IF /\ ClaimerIsLive(m) /\ job[m].user \in Github /\ FreeClaims # {}
                  /\ key[k].owner = job[m].target /\ key[k].state = "revoked"
               THEN \E c \in FreeClaims : Filed(job[m].user, job[m].target, c)   \* proof_revoked
               ELSE UNCHANGED claim
            /\ UNCHANGED <<claimedBy, key, request>>

CheckClaimer(m) ==
    /\ pc[m] = "check" /\ job[m].item \in Claims
    /\ IF ClaimerIsLive(m) THEN Goto(m, "move") /\ UNCHANGED <<exists, lock>> ELSE Return(m)
    /\ UNCHANGED <<claimedBy, key, request, claim>>

RowsOf(u) == {k \in Keys : key[k].owner = u} \cup {r \in Requests : request[r].owner = u}
\* Mutant: only the rows of api_key_requests move.
RepointRequest(row, u, v) == [row EXCEPT !.owner = IF @ = v /\ "status" \in DOMAIN row THEN u ELSE @]

Repoint(row, u, v) == [row EXCEPT !.owner = IF @ = v THEN u ELSE @]

\* The marker's predicate and the moves; a review has its claim's own row still to lock.
MoveRows(m) ==
    /\ pc[m] = "move" /\ job[m].item \in Claims
    /\ IF Claimable(job[m].target)
       THEN /\ \A row \in RowsOf(job[m].target) : Free(row, m)
            /\ lock' = [row \in Rows |-> IF row \in RowsOf(job[m].target) THEN m ELSE lock[row]]
            /\ Goto(m, "stamp")
            /\ UNCHANGED exists
       ELSE Return(m)
    /\ UNCHANGED <<claimedBy, key, request, claim>>

\* By proof, the marker and the moves; by review, the claim's status with them, for
\* the locks have kept what the marker saw.
Transfer(m) ==
    LET u == job[m].user
        v == job[m].target
    IN  /\ \/ pc[m] = "move" /\ job[m].item \in Keys
           \/ pc[m] = "stamp" /\ Signed(m)
        /\ \A row \in RowsOf(v) : Free(row, m)
        /\ IF Claimable(v)
           THEN /\ claimedBy' = [claimedBy EXCEPT ![v] = u]
                /\ key' = [k \in Keys |-> Repoint(key[k], u, v)]
                /\ request' = [r \in Requests |-> Repoint(request[r], u, v)]
                /\ claim' = [c \in Claims |-> [claim[c] EXCEPT
                                !.status = IF c = job[m].item THEN "approved" ELSE @]]
           ELSE UNCHANGED <<claimedBy, key, request, claim>>
        /\ Return(m)

\* rejectGithubClaim is one UPDATE, which looks again when it has waited.
RejectByToken(c) ==
    /\ claim[c].status = "pending" /\ lock[c] = NoOne
    /\ claim' = [claim EXCEPT ![c].status = "rejected"]
    /\ UNCHANGED <<exists, claimedBy, key, request, lock, pc, job>>

SignRefusal(w, c) ==
    /\ claim[c].status = "pending" /\ Free(c, w)
    /\ \E a \in Admins : exists[a] /\ BeginBy(a, w, "ts", "refuse", NoOne, NoOne, c)
    /\ lock' = [lock EXCEPT ![c] = w]
    /\ UNCHANGED tables

RejectGithubClaim(w) ==
    /\ pc[w] = "refuse" /\ Signed(w)
    /\ claim' = [claim EXCEPT ![job[w].item].status = "rejected"]
    /\ End(w)
    /\ UNCHANGED <<exists, claimedBy, key, request>>

\* A lost connection, or the victim of a deadlock: everything is rolled back.
Abort(p) == pc[p] # "idle" /\ End(p) /\ UNCHANGED tables

----------------------------------------------------------------------------
KeyNext(t) ==
    \/ \E u \in Users : BeginAsk(t, u) \/ GoBeginAsk(t, u)
    \/ \E u \in Users, r \in Requests : BeginClaim(t, u, r) \/ GoBeginClaim(t, u, r)
    \/ CreateKeyRequest(t) \/ LockUser(t) \/ LockRequest(t) \/ CountKeys(t) \/ Mint(t)
    \/ (\E r \in Requests : BeginReview(t, r))
    \/ Sign(t) \/ ApproveKeyRequest(t) \/ RejectKeyRequest(t)
TransferNext(m) ==
    \/ \E u, v \in Users, k \in Keys : BeginTransfer(m, u, v, k)
    \/ \E c \in Claims : BeginApproval(m, c) \/ SignRefusal(m, c)
    \/ LockFirst(m) \/ LockSecond(m) \/ CheckProof(m) \/ CheckClaimer(m) \/ MoveRows(m) \/ Transfer(m)
    \/ RejectGithubClaim(m)
RowNext ==
    \/ \E u \in Users, k \in Keys : UserKeyUpdate(u, k) \/ GoUserKeyUpdate(u, k)
    \/ \E k \in Keys : AdminKeyUpdate(k)
    \/ \E u \in Users : FirstSignIn(u)
    \/ \E u, v \in Users : FileReviewClaim(u, v)
    \/ \E c \in Claims : RejectByToken(c)
Next == RowNext \/ \E p \in Workers : KeyNext(p) \/ TransferNext(p) \/ Abort(p)
Spec == Init /\ [][Next]_vars

----------------------------------------------------------------------------
\* No key is orphaned: of two tabs that claim one request only one gets a key, and
\* a key that came from a request is the one its request points to
\* (claimApprovedKey: "so two tabs cannot both claim it and orphan a key").
NoOrphanKey ==
    \A k \in Keys : key[k].from # NoOne /\ key[k].state # "gone" => request[key[k].from].key = k

\* Accounts that claim each other do not wipe each other out: from a claimed account
\* the claimed_by links lead to an account that can still sign in.
ClaimsEndInLiveAccount ==
    \A S \in SUBSET {u \in Users : claimedBy[u] # NoOne} :
        S # {} => \E u \in S : claimedBy[u] \notin S

\* A review that says approved is what happened: the account went to the claim's own
\* identity, whatever transfers and other reviews ran against it.
ApprovedClaimMoved ==
    \A c \in Claims : claim[c].status = "approved" => claimedBy[claim[c].target] = claim[c].by

\* A transfer leaves no key behind, whatever is minted while it runs: a key that an
\* absorbed account holds is for a request in its name, too, which came afterwards
\* since a transfer moves the requests with the keys.
NoKeyLeftBehind ==
    \A k \in Keys : key[k].owner \in Users /\ claimedBy[key[k].owner] # NoOne =>
        key[k].from \in Requests /\ request[key[k].from].owner = key[k].owner

\* The rows a process waits for.
Wants(p) ==
    CASE pc[p] \in {"ask", "user", "mint"} -> {job[p].user}
      [] pc[p] = "request" -> IF request[job[p].item].owner = job[p].user THEN {job[p].item} ELSE {}
      [] pc[p] \in {"approve", "reject", "refuse", "stamp"} ->
            {IF job[p].admin = NoOne THEN job[p].item ELSE job[p].admin}
      [] pc[p] = "first" -> {InOrder(job[p].user, job[p].target)[1]}
      [] pc[p] = "second" -> {InOrder(job[p].user, job[p].target)[2]}
      [] pc[p] = "check" -> {job[p].item} \cap Keys
      [] pc[p] = "move" -> RowsOf(job[p].target)
      [] OTHER -> {}
WaitsFor(p, q) == p # q /\ \E row \in Wants(p) : lock[row] = q

\* Two kinds of process ask for an account while they hold another row: the Go server's
\* claim, which does not lock the account first, and a review that an administrator signs.
OutOfOrder(p) == job[p].admin # NoOne \/ (pc[p] = "mint" /\ job[p].server = "go")

\* The lock order (accounts ascending, then requests, keys and claims) keeps all others
\* out of each other's way: whatever processes of both servers wait in a circle, one of
\* them is a Go claim or a signed review that waits out of order.
NoLockCycle ==
    \A S \in SUBSET Workers :
        S # {} => \E p \in S : OutOfOrder(p) \/ \A q \in S : ~WaitsFor(p, q)

\* "Every transaction that needs locks on both a user row and its request/key rows uses
\* this same convention (users ascending first, then request/key rows)"
\* (lib/claim-transfer.ts:31): so none of them wait in a circle.
NoCircle ==
    \A S \in SUBSET Workers : S # {} => \E p \in S : \A q \in S : ~WaitsFor(p, q)

\* A key revoked, deleted or moved after the transfer's first look at it proves
\* nothing: when the account moves on a proof, the proof still holds.
ProofHoldsAtTransfer ==
    [][\A m \in Workers : Transfer(m) /\ claimedBy' # claimedBy /\ job[m].item \in Keys =>
          key[job[m].item].owner = job[m].target /\ key[job[m].item].state = "active"]_vars

\* On either server a key is minted for a request that is approved, unanswered and the
\* claimer's own at that moment, whatever reviews, transfers and claims ran since the look.
MintsForApproved ==
    [][\A t \in Workers : Mint(t) =>
          request[job[t].item] = [owner |-> job[t].user, status |-> "approved", key |-> NoOne]]_vars

\* "There is no second reveal": a request is answered with one key, ever.
NoSecondReveal ==
    \A j, k \in Keys : key[j].from # NoOne /\ key[j].from = key[k].from => j = k

\* MAX_KEYS_PER_USER caps the active keys an account holds.
ActiveKeysCapped == \A u \in Users : Cardinality(Active(u)) <= MaxKeys
=============================================================================
