---------------------------- MODULE AccountsProofs ----------------------------
(***************************************************************************)
(* Theorems about accounts and read keys, for any number of accounts,      *)
(* keys, requests, claims and processes: no key is orphaned or left        *)
(* behind, an account moves on a proof only while the proof holds, a key   *)
(* is minted for an approved request only, and every circle of waiting     *)
(* processes has one in it that locks out of order.                        *)
(***************************************************************************)
EXTENDS Accounts, FiniteSetTheorems, WellFoundedInduction, TLAPS

KeyRows == [owner: Users \cup {NoOne}, state: {"unminted", "active", "revoked", "gone"},
            from: Requests \cup {NoOne}]
RequestRows == [owner: Users \cup {NoOne}, status: {"none", "pending", "approved", "rejected"},
                key: Keys \cup {NoOne}]
ClaimRows == [by: Users \cup {NoOne}, target: Users \cup {NoOne},
              status: {"none", "pending", "approved", "rejected"}]
Places == {"idle", "ask", "user", "request", "count", "mint",
           "first", "second", "check", "move", "stamp", "approve", "reject", "refuse"}
JobRows == [server: {"ts", "go"}, user: Users \cup {NoOne}, target: Users \cup {NoOne},
            item: Requests \cup Keys \cup Claims \cup {NoOne}, admin: Users \cup {NoOne}]

\* The two halves of the type invariant: what the tables hold, what the processes are.
TablesOK ==
    /\ exists \in [Users -> BOOLEAN] /\ claimedBy \in [Users -> Users \cup {NoOne}]
    /\ key \in [Keys -> KeyRows] /\ request \in [Requests -> RequestRows]
    /\ claim \in [Claims -> ClaimRows]
ProcsOK == lock \in [Rows -> Workers \cup {NoOne}] /\ pc \in [Workers -> Places] /\ job \in [Workers -> JobRows]

\* A claim to be decided names accounts; a request nobody made has no key.
ClaimInv == \A c \in Claims : claim[c].status = "pending" => claim[c].by \in Users /\ claim[c].target \in Users
NoneInv == \A r \in Requests : request[r].status = "none" => request[r].key = NoOne

\* What a process works on is what its place calls for.
JobOK(p) ==
    /\ pc[p] = "ask" => job[p].user \in Users
    /\ pc[p] \in {"user", "request", "count", "mint"} => job[p].user \in Users /\ job[p].item \in Requests
    /\ pc[p] \in {"approve", "reject"} => job[p].item \in Requests
    /\ pc[p] \in {"first", "second", "check", "move", "stamp"} =>
          job[p].user \in Users /\ job[p].target \in Users /\ job[p].item \in Keys \cup Claims
    /\ pc[p] \in {"stamp", "refuse"} => job[p].item \in Claims

\* A claim past its look at the request holds it, and the request still has no key.
MintOK(p) ==
    pc[p] \in {"count", "mint"} =>
        /\ lock[job[p].item] = p
        /\ request[job[p].item].status # "none" /\ request[job[p].item].key = NoOne

\* A transfer past its look at the proof holds it, and it still proves.
ProofOK(p) ==
    pc[p] = "move" /\ job[p].item \in Keys =>
        /\ lock[job[p].item] = p
        /\ key[job[p].item].owner = job[p].target /\ key[job[p].item].state = "active"

ProcInv(p) == JobOK(p) /\ MintOK(p) /\ ProofOK(p)
TableInv == TablesOK /\ ClaimInv /\ NoneInv /\ NoOrphanKey
AccountsInv == TableInv /\ ProcsOK /\ \A p \in Workers : ProcInv(p)

\* A step leaves the other processes where they are, with the locks they hold,
\* and a locked row to its holder.
Elsewhere(p) ==
    \A q \in Workers \ {p} : /\ pc'[q] = pc[q] /\ job'[q] = job[q]
                             /\ \A row \in Rows : lock[row] = q => lock'[row] = q
RowsRespected(p) ==
    \A q \in Workers \ {p} :
        /\ \A r \in Requests : lock[r] = q /\ request[r].status # "none" /\ request[r].key = NoOne =>
              request'[r].status # "none" /\ request'[r].key = NoOne
        /\ \A k \in Keys : lock[k] = q /\ key[k].state = "active" =>
              key'[k].owner = key[k].owner /\ key'[k].state = "active"

LEMMA TypeSplit == TypeOK <=> TablesOK /\ ProcsOK
  BY DEF TypeOK, TablesOK, ProcsOK, KeyRows, RequestRows, ClaimRows, Places, JobRows

LEMMA OthersKeep ==
    ASSUME NEW p, \A q \in Workers : ProcInv(q), Elsewhere(p), RowsRespected(p)
    PROVE  \A q \in Workers \ {p} : ProcInv(q)'
<1> SUFFICES ASSUME NEW q \in Workers \ {p}  PROVE ProcInv(q)'
  OBVIOUS
<1>1. pc'[q] = pc[q] /\ job'[q] = job[q] /\ ProcInv(q)  BY DEF Elsewhere
<1>2. JobOK(q)'  BY <1>1 DEF ProcInv, JobOK
<1>3. MintOK(q)'
  <2> SUFFICES ASSUME pc[q] \in {"count", "mint"}
               PROVE  LET r == job[q].item IN lock'[r] = q /\ request'[r].status # "none" /\ request'[r].key = NoOne
    BY <1>1 DEF MintOK
  <2>1. job[q].item \in Requests /\ MintOK(q)  BY <1>1 DEF ProcInv, JobOK
  <2>2. QED BY <2>1 DEF MintOK, Elsewhere, RowsRespected, Rows
<1>4. ProofOK(q)'  BY <1>1 DEF ProcInv, ProofOK, Elsewhere, RowsRespected, Rows
<1>5. QED BY <1>2, <1>3, <1>4 DEF ProcInv

LEMMA SameTables ==
    ASSUME TableInv, UNCHANGED tables
    PROVE  TableInv' /\ \A p : RowsRespected(p)
  BY DEF TableInv, TablesOK, ClaimInv, NoneInv, NoOrphanKey, tables, RowsRespected

\* What BEGIN, a step inside a transaction and its end do to the processes.
LEMMA Begins ==
    ASSUME ProcsOK, NEW p \in Workers, NEW server \in {"ts", "go"}, NEW at \in Places,
           NEW u \in Users \cup {NoOne}, NEW v \in Users \cup {NoOne},
           NEW i \in Requests \cup Keys \cup Claims \cup {NoOne}, NEW a \in Users \cup {NoOne},
           BeginBy(a, p, server, at, u, v, i)
    PROVE  /\ pc' \in [Workers -> Places] /\ job' \in [Workers -> JobRows]
           /\ pc'[p] = at /\ job'[p].user = u /\ job'[p].target = v /\ job'[p].item = i
           /\ \A q \in Workers \ {p} : pc'[q] = pc[q] /\ job'[q] = job[q]
<1>1. [server |-> server, user |-> u, target |-> v, item |-> i, admin |-> a] \in JobRows  BY DEF JobRows
<1>2. QED BY <1>1 DEF ProcsOK, BeginBy

LEMMA Goes ==
    ASSUME ProcsOK, NEW p \in Workers, NEW at \in Places, Goto(p, at)
    PROVE  /\ pc' \in [Workers -> Places] /\ job' \in [Workers -> JobRows]
           /\ pc'[p] = at /\ job'[p] = job[p]
           /\ \A q \in Workers \ {p} : pc'[q] = pc[q] /\ job'[q] = job[q]
  BY DEF ProcsOK, Goto

LEMMA Ends ==
    ASSUME ProcsOK, NEW p \in Workers, End(p)
    PROVE  ProcsOK' /\ ProcInv(p)' /\ Elsewhere(p)
<1>1. NoJob \in JobRows  BY DEF NoJob, JobRows
<1>2. ProcsOK'  BY <1>1 DEF ProcsOK, End, Places
<1>3. pc'[p] = "idle"  BY DEF ProcsOK, End
<1>4. ProcInv(p)'  BY <1>3 DEF ProcInv, JobOK, MintOK, ProofOK
<1>5. Elsewhere(p)  BY DEF ProcsOK, End, Elsewhere
<1>6. QED BY <1>2, <1>4, <1>5

\* A lock is taken of a row that is free or the process's own.
LEMMA Locks ==
    ASSUME ProcsOK, AccountsConstants, NEW p \in Workers, NEW row \in Rows, Free(row, p),
           lock' = [lock EXCEPT ![row] = p]
    PROVE  /\ lock' \in [Rows -> Workers \cup {NoOne}] /\ lock'[row] = p
           /\ \A q \in Workers \ {p}, s \in Rows : lock[s] = q => lock'[s] = q
  BY DEF ProcsOK, Free, AccountsConstants

-----------------------------------------------------------------------------
LEMMA AccountsInit == Init => AccountsInv
<1> SUFFICES ASSUME Init  PROVE AccountsInv
  OBVIOUS
<1>1. key \in [Keys -> KeyRows] /\ \A k \in Keys : key[k].from = NoOne
  BY DEF Init, KeyRows
<1>2. claim \in [Claims -> ClaimRows] /\ ClaimInv
  <2>1. CASE claim = [c \in Claims |-> [by |-> NoOne, target |-> NoOne, status |-> "none"]]
    BY <2>1 DEF ClaimRows, ClaimInv
  <2>2. CASE \E c \in Claims, g \in Github, u \in Users \ Github :
                claim = [d \in Claims |-> IF d = c THEN [by |-> g, target |-> u, status |-> "pending"]
                                          ELSE [by |-> NoOne, target |-> NoOne, status |-> "none"]]
    BY <2>2, AccountsConstants DEF ClaimRows, ClaimInv
  <2>3. QED BY <2>1, <2>2 DEF Init
<1>3. TableInv
  BY <1>1, <1>2 DEF Init, TableInv, TablesOK, NoneInv, NoOrphanKey, RequestRows
<1>4. ProcsOK /\ \A p \in Workers : ProcInv(p)
  BY DEF Init, ProcsOK, ProcInv, JobOK, MintOK, ProofOK, NoJob, JobRows, Places
<1>5. QED BY <1>3, <1>4 DEF AccountsInv
-----------------------------------------------------------------------------
\* A step of p that leaves the tables alone.
LEMMA NoWrite ==
    ASSUME AccountsInv, NEW p \in Workers, UNCHANGED tables, ProcsOK', Elsewhere(p), ProcInv(p)'
    PROVE  AccountsInv'
<1>1. TableInv' /\ RowsRespected(p)  BY SameTables DEF AccountsInv
<1>2. \A q \in Workers \ {p} : ProcInv(q)'  BY <1>1, OthersKeep DEF AccountsInv
<1>3. QED BY <1>1, <1>2 DEF AccountsInv

LEMMA Quits ==
    ASSUME AccountsInv, NEW p \in Workers, End(p), UNCHANGED tables  PROVE AccountsInv'
  BY Ends, NoWrite DEF AccountsInv

\* A step that ends p's transaction with a write.
LEMMA Writes ==
    ASSUME AccountsInv, NEW p \in Workers, End(p), TableInv', RowsRespected(p)  PROVE AccountsInv'
<1>1. ProcsOK' /\ ProcInv(p)' /\ Elsewhere(p)  BY Ends DEF AccountsInv
<1>2. \A q \in Workers \ {p} : ProcInv(q)'  BY <1>1, OthersKeep DEF AccountsInv
<1>3. QED BY <1>1, <1>2 DEF AccountsInv

\* A step that begins a transaction without a lock.
LEMMA BeginsFree ==
    ASSUME AccountsInv, NEW p \in Workers, NEW server \in {"ts", "go"},
           NEW at \in Places \ {"count", "mint", "move", "stamp", "refuse"},
           NEW u \in Users \cup {NoOne}, NEW v \in Users \cup {NoOne},
           NEW i \in Requests \cup Keys \cup Claims \cup {NoOne},
           Begin(p, server, at, u, v, i), UNCHANGED <<tables, lock>>,
           at = "ask" => u \in Users,
           at \in {"user", "request"} => u \in Users /\ i \in Requests,
           at \in {"approve", "reject"} => i \in Requests,
           at \in {"first", "second", "check"} => u \in Users /\ v \in Users /\ i \in Keys \cup Claims
    PROVE  AccountsInv'
<1>1. /\ pc' \in [Workers -> Places] /\ job' \in [Workers -> JobRows]
      /\ pc'[p] = at /\ job'[p].user = u /\ job'[p].target = v /\ job'[p].item = i
      /\ \A q \in Workers \ {p} : pc'[q] = pc[q] /\ job'[q] = job[q]
  BY Begins DEF AccountsInv, Begin
<1>2. ProcsOK' /\ Elsewhere(p)  BY <1>1 DEF AccountsInv, ProcsOK, Elsewhere
<1>3. JobOK(p)'  BY <1>1 DEF JobOK
<1>4. MintOK(p)' /\ ProofOK(p)'  BY <1>1 DEF MintOK, ProofOK
<1>5. QED BY <1>2, <1>3, <1>4, NoWrite DEF ProcInv, tables

\* A step that goes on, perhaps with one more lock.
LEMMA GoesOn ==
    ASSUME AccountsInv, NEW p \in Workers, NEW at \in Places, Goto(p, at), UNCHANGED tables,
           \/ UNCHANGED lock
           \/ \E row \in Rows : Free(row, p) /\ lock' = [lock EXCEPT ![row] = p],
           JobOK(p)', MintOK(p)', ProofOK(p)'
    PROVE  AccountsInv'
<1>1. /\ pc' \in [Workers -> Places] /\ job' \in [Workers -> JobRows]
      /\ \A q \in Workers \ {p} : pc'[q] = pc[q] /\ job'[q] = job[q]
  BY Goes DEF AccountsInv
<1>2. /\ lock' \in [Rows -> Workers \cup {NoOne}]
      /\ \A q \in Workers \ {p}, s \in Rows : lock[s] = q => lock'[s] = q
  BY AccountsConstants, Locks DEF AccountsInv, ProcsOK
<1>3. QED BY <1>1, <1>2, NoWrite DEF ProcsOK, Elsewhere, ProcInv
-----------------------------------------------------------------------------
(* Asking, deciding and claiming. *)

LEMMA ClaimBegins ==
    ASSUME AccountsInv, NEW p \in Workers, NEW u \in Users, NEW r \in Requests,
           BeginClaim(p, u, r) \/ GoBeginClaim(p, u, r)
    PROVE  AccountsInv'
<1>1. CASE BeginClaim(p, u, r)  BY <1>1, BeginsFree DEF BeginClaim, Places
<1>2. CASE GoBeginClaim(p, u, r)
  <2>1. /\ Begin(p, "go", "count", u, NoOne, r) /\ UNCHANGED tables /\ ProcsOK
        /\ r \in Rows /\ Free(r, p) /\ lock' = [lock EXCEPT ![r] = p]
        /\ request[r].status = "approved" /\ request[r].key = NoOne
    BY <1>2 DEF GoBeginClaim, AccountsInv, Rows
  <2>0. BeginBy(NoOne, p, "go", "count", u, NoOne, r) /\ "count" \in Places  BY <2>1 DEF Begin, Places
  <2>2. /\ pc' \in [Workers -> Places] /\ job' \in [Workers -> JobRows]
        /\ pc'[p] = "count" /\ job'[p].user = u /\ job'[p].item = r
        /\ \A q \in Workers \ {p} : pc'[q] = pc[q] /\ job'[q] = job[q]
    BY <2>0, <2>1, Begins
  <2>3. /\ lock' \in [Rows -> Workers \cup {NoOne}] /\ lock'[r] = p
        /\ \A q \in Workers \ {p}, s \in Rows : lock[s] = q => lock'[s] = q
    BY <2>1, Locks, AccountsConstants
  <2>4. ProcsOK' /\ Elsewhere(p)  BY <2>2, <2>3 DEF ProcsOK, Elsewhere
  <2>5. JobOK(p)' /\ MintOK(p)' /\ ProofOK(p)'
    BY <2>1, <2>2, <2>3 DEF JobOK, MintOK, ProofOK, tables
  <2>6. QED BY <2>1, <2>4, <2>5, NoWrite DEF ProcInv
<1>3. QED BY <1>1, <1>2

LEMMA ReviewBegins ==
    ASSUME AccountsInv, NEW p \in Workers, NEW r \in Requests, BeginReview(p, r)  PROVE AccountsInv'
<1>1. PICK d \in {"approve", "reject"} : Begin(p, "ts", d, NoOne, NoOne, r)  BY DEF BeginReview
<1>2. QED BY <1>1, BeginsFree DEF BeginReview, Places

\* An administrator signs: the process stays where it is and locks its row.
LEMMA Signs ==
    ASSUME AccountsInv, NEW p \in Workers, Sign(p)
    PROVE  /\ pc[p] \in {"approve", "reject", "stamp"} /\ job[p].item \in Rows
           /\ UNCHANGED <<tables, pc>> /\ Free(job[p].item, p) /\ job' \in [Workers -> JobRows]
           /\ lock' = [lock EXCEPT ![job[p].item] = p]
           /\ job'[p].admin \in Users /\ job'[p].server = job[p].server /\ job'[p].user = job[p].user
           /\ job'[p].target = job[p].target /\ job'[p].item = job[p].item
           /\ \A q \in Workers \ {p} : job'[q] = job[q]
<1>1. PICK a \in Admins : job' = [job EXCEPT ![p].admin = a]  BY DEF Sign
<1>2. /\ pc[p] \in {"approve", "reject", "stamp"} /\ UNCHANGED <<tables, pc>> /\ Free(job[p].item, p)
      /\ lock' = [lock EXCEPT ![job[p].item] = p]
  BY DEF Sign
<1>3. JobOK(p) /\ job \in [Workers -> JobRows] /\ a \in Users
  BY AccountsConstants DEF AccountsInv, ProcsOK, ProcInv
<1>4. job[p].item \in Rows  BY <1>2, <1>3 DEF JobOK, Rows
<1>5. [job[p] EXCEPT !.admin = a] \in JobRows  BY <1>3 DEF JobRows
<1>6. job' \in [Workers -> JobRows] /\ \A q \in Workers \ {p} : job'[q] = job[q]
  BY <1>1, <1>3, <1>5
<1>7. /\ job'[p].admin \in Users /\ job'[p].server = job[p].server /\ job'[p].user = job[p].user
      /\ job'[p].target = job[p].target /\ job'[p].item = job[p].item
  BY <1>1, <1>3 DEF JobRows
<1>8. QED BY <1>2, <1>4, <1>6, <1>7

LEMMA SignKeeps == ASSUME AccountsInv, NEW p \in Workers, Sign(p)  PROVE AccountsInv'
<1>1. ProcsOK /\ JobOK(p)  BY DEF AccountsInv, ProcInv
<1>2. /\ lock' \in [Rows -> Workers \cup {NoOne}]
      /\ \A q \in Workers \ {p}, s \in Rows : lock[s] = q => lock'[s] = q
  BY <1>1, Signs, Locks, AccountsConstants
<1>3. ProcsOK' /\ Elsewhere(p)  BY <1>1, <1>2, Signs DEF ProcsOK, Elsewhere
<1>4. JobOK(p)' /\ MintOK(p)' /\ ProofOK(p)'  BY <1>1, Signs DEF JobOK, MintOK, ProofOK
<1>5. QED BY <1>3, <1>4, Signs, NoWrite DEF ProcInv

LEMMA RefusalBegins ==
    ASSUME AccountsInv, NEW p \in Workers, NEW c \in Claims, SignRefusal(p, c)  PROVE AccountsInv'
<1>1. PICK a \in Users : BeginBy(a, p, "ts", "refuse", NoOne, NoOne, c)
  BY AccountsConstants DEF SignRefusal
<1>2. /\ ProcsOK /\ c \in Rows /\ Free(c, p) /\ lock' = [lock EXCEPT ![c] = p] /\ UNCHANGED tables
  BY DEF AccountsInv, SignRefusal, Rows
<1>3. /\ pc' \in [Workers -> Places] /\ job' \in [Workers -> JobRows]
      /\ pc'[p] = "refuse" /\ job'[p].item = c
      /\ \A q \in Workers \ {p} : pc'[q] = pc[q] /\ job'[q] = job[q]
  <2>1. "refuse" \in Places  BY DEF Places
  <2>2. [server |-> "ts", user |-> NoOne, target |-> NoOne, item |-> c, admin |-> a] \in JobRows
    BY DEF JobRows
  <2>3. QED BY <1>1, <1>2, <2>1, <2>2 DEF BeginBy, ProcsOK
<1>4. /\ lock' \in [Rows -> Workers \cup {NoOne}]
      /\ \A q \in Workers \ {p}, s \in Rows : lock[s] = q => lock'[s] = q
  BY <1>2, Locks, AccountsConstants
<1>5. ProcsOK' /\ Elsewhere(p)  BY <1>3, <1>4 DEF ProcsOK, Elsewhere
<1>6. JobOK(p)' /\ MintOK(p)' /\ ProofOK(p)'  BY <1>3 DEF JobOK, MintOK, ProofOK
<1>7. QED BY <1>2, <1>5, <1>6, NoWrite DEF ProcInv

LEMMA CreateKeeps ==
    ASSUME AccountsInv, NEW p \in Workers, CreateKeyRequest(p)  PROVE AccountsInv'
<1>1. PICK r \in Requests :
         /\ request[r].status = "none"
         /\ request' = [request EXCEPT ![r] = [owner |-> job[p].user, status |-> "pending", key |-> NoOne]]
  BY DEF CreateKeyRequest
<1>2. /\ TableInv /\ End(p) /\ job[p].user \in Users
      /\ UNCHANGED <<exists, claimedBy, key, claim>>
  BY DEF AccountsInv, ProcInv, JobOK, CreateKeyRequest
<1>3. [owner |-> job[p].user, status |-> "pending", key |-> NoOne] \in RequestRows
  BY <1>2 DEF RequestRows
<1>4. /\ request' \in [Requests -> RequestRows]
      /\ request'[r].status = "pending" /\ request'[r].key = request[r].key
      /\ \A s \in Requests \ {r} : request'[s] = request[s]
  BY <1>1, <1>2, <1>3 DEF TableInv, TablesOK, NoneInv
<1>5. TablesOK' /\ ClaimInv' /\ NoneInv'
  BY <1>2, <1>4 DEF TableInv, TablesOK, ClaimInv, NoneInv
<1>6. NoOrphanKey'
  <2>1. \A s \in Requests : request'[s].key = request[s].key  BY <1>4
  <2>2. \A k \in Keys : key[k].from \in Requests \cup {NoOne}  BY <1>2 DEF TableInv, TablesOK, KeyRows
  <2>3. QED BY <1>2, <2>1, <2>2 DEF TableInv, NoOrphanKey
<1>7. RowsRespected(p)  BY <1>1, <1>2, <1>4 DEF RowsRespected
<1>8. QED BY <1>2, <1>5, <1>6, <1>7, Writes DEF TableInv

LEMMA DecideKeeps ==
    ASSUME AccountsInv, NEW p \in Workers, ApproveKeyRequest(p) \/ RejectKeyRequest(p)  PROVE AccountsInv'
<1>1. PICK d \in {"approve", "reject"}, status \in {"approved", "rejected"} : Decide(p, d, status)
  BY DEF ApproveKeyRequest, RejectKeyRequest
<1> DEFINE r == job[p].item
<1>2. /\ TableInv /\ End(p) /\ r \in Requests
      /\ request' = [request EXCEPT ![r].status = status]
      /\ UNCHANGED <<exists, claimedBy, key, claim>>
  BY <1>1 DEF AccountsInv, ProcInv, JobOK, Decide
<1>3. [request[r] EXCEPT !.status = status] \in RequestRows
  BY <1>2 DEF TableInv, TablesOK, RequestRows
<1>4. /\ request' \in [Requests -> RequestRows]
      /\ request'[r].status = status
      /\ \A s \in Requests : request'[s].key = request[s].key
      /\ \A s \in Requests \ {r} : request'[s] = request[s]
  BY <1>2, <1>3 DEF TableInv, TablesOK, RequestRows
<1>5. TablesOK' /\ ClaimInv' /\ NoneInv'
  BY <1>2, <1>4 DEF TableInv, TablesOK, ClaimInv, NoneInv
<1>6. NoOrphanKey'
  <2>1. \A k \in Keys : key[k].from \in Requests \cup {NoOne}  BY <1>2 DEF TableInv, TablesOK, KeyRows
  <2>2. QED BY <1>2, <1>4, <2>1 DEF TableInv, NoOrphanKey
<1>7. RowsRespected(p)  BY <1>2, <1>4 DEF RowsRespected
<1>8. QED BY <1>2, <1>5, <1>6, <1>7, Writes DEF TableInv

LEMMA ClaimSteps ==
    ASSUME AccountsInv, NEW p \in Workers, LockUser(p) \/ LockRequest(p) \/ CountKeys(p)  PROVE AccountsInv'
<1>0. ProcsOK /\ ProcInv(p) /\ TableInv  BY DEF AccountsInv
<1>1. CASE LockUser(p)
  <2>1. job[p].user \in Users /\ job[p].user \in Rows /\ job[p].item \in Requests
    BY <1>0, <1>1 DEF ProcInv, JobOK, LockUser, Rows
  <2>2. pc'[p] = "request" /\ job' = job  BY <1>0, <1>1 DEF LockUser, Goto, ProcsOK
  <2>3. JobOK(p)' /\ MintOK(p)' /\ ProofOK(p)'  BY <2>1, <2>2 DEF JobOK, MintOK, ProofOK
  <2>4. QED BY <1>1, <2>1, <2>3, GoesOn DEF LockUser, Places
<1>2. CASE LockRequest(p)
  <2> DEFINE r == job[p].item
  <2>1. r \in Requests /\ r \in Rows /\ job[p].user \in Users
    BY <1>0, <1>2 DEF ProcInv, JobOK, LockRequest, Rows
  <2>2. CASE request[r] = [owner |-> job[p].user, status |-> "approved", key |-> NoOne]
    <3>1. lock' = [lock EXCEPT ![r] = p] /\ Goto(p, "count") /\ Free(r, p) /\ UNCHANGED tables
      BY <1>2, <2>2 DEF LockRequest
    <3>2. pc'[p] = "count" /\ job' = job /\ lock'[r] = p
      BY <1>0, <2>1, <3>1 DEF Goto, ProcsOK
    <3>3. JobOK(p)' /\ MintOK(p)' /\ ProofOK(p)'
      BY <2>1, <2>2, <3>1, <3>2 DEF JobOK, MintOK, ProofOK, tables
    <3>4. QED BY <2>1, <3>1, <3>3, GoesOn DEF Places
  <2>3. QED BY <1>2, <2>2, Quits DEF LockRequest
<1>3. CASE CountKeys(p)
  <2>1. CASE UnderLimit(job[p].user)
    <3>1. pc'[p] = "mint" /\ job' = job /\ UNCHANGED <<tables, lock>>
      BY <1>0, <1>3, <2>1 DEF CountKeys, Goto, ProcsOK
    <3>2. JobOK(p)' /\ MintOK(p)' /\ ProofOK(p)'
      BY <1>0, <1>3, <3>1 DEF CountKeys, ProcInv, JobOK, MintOK, ProofOK, tables
    <3>3. QED BY <1>3, <2>1, <3>2, GoesOn DEF CountKeys, Places
  <2>2. QED BY <1>3, <2>1, Quits DEF CountKeys
<1>4. QED BY <1>1, <1>2, <1>3

LEMMA MintKeeps == ASSUME AccountsInv, NEW p \in Workers, Mint(p)  PROVE AccountsInv'
<1> DEFINE r == job[p].item
<1>1. PICK k \in Keys :
         /\ key[k].state = "unminted"
         /\ key' = [key EXCEPT ![k] = [owner |-> job[p].user, state |-> "active", from |-> r]]
         /\ request' = [request EXCEPT ![r].key = k]
  BY DEF Mint
<1>2. /\ TableInv /\ ProcsOK /\ End(p) /\ r \in Requests /\ job[p].user \in Users
      /\ lock[r] = p /\ request[r].status # "none" /\ request[r].key = NoOne
      /\ UNCHANGED <<exists, claimedBy, claim>>
  BY DEF AccountsInv, ProcInv, JobOK, MintOK, Mint
<1>3. /\ [owner |-> job[p].user, state |-> "active", from |-> r] \in KeyRows
      /\ [request[r] EXCEPT !.key = k] \in RequestRows
  BY <1>2 DEF TableInv, TablesOK, KeyRows, RequestRows
<1>4. /\ request' \in [Requests -> RequestRows]
      /\ request'[r].status = request[r].status /\ request'[r].key = k
      /\ \A s \in Requests \ {r} : request'[s] = request[s]
  BY <1>1, <1>2, <1>3 DEF TableInv, TablesOK, RequestRows
<1>5. /\ key' \in [Keys -> KeyRows] /\ key'[k].from = r /\ key[k].state = "unminted"
      /\ \A j \in Keys \ {k} : key'[j] = key[j]
  BY <1>1, <1>2, <1>3 DEF TableInv, TablesOK
<1>6. TablesOK' /\ ClaimInv' /\ NoneInv'
  BY <1>2, <1>4, <1>5 DEF TableInv, TablesOK, ClaimInv, NoneInv
<1>7. NoOrphanKey'
  <2> SUFFICES ASSUME NEW j \in Keys, key'[j].from # NoOne, key'[j].state # "gone"
               PROVE  request'[key'[j].from].key = j
    BY DEF NoOrphanKey
  <2>1. CASE j = k  BY <1>4, <1>5, <2>1
  <2>2. CASE j # k
    <3>1. key'[j] = key[j] /\ key[j].from \in Requests /\ request[key[j].from].key = j
      BY <1>2, <1>5, <2>2 DEF TableInv, TablesOK, NoOrphanKey, KeyRows
    <3>2. key[j].from # r  BY <1>2, <3>1, AccountsConstants
    <3>3. QED BY <1>4, <3>1, <3>2
  <2>3. QED BY <2>1, <2>2
<1>8. RowsRespected(p)  BY <1>2, <1>4, <1>5 DEF RowsRespected
<1>9. QED BY <1>2, <1>6, <1>7, <1>8, Writes DEF TableInv
-----------------------------------------------------------------------------
(* Legacy claims. *)

LEMMA TransferBegins ==
    ASSUME AccountsInv, NEW p \in Workers, NEW u \in Users, NEW v \in Users, NEW k \in Keys,
           BeginTransfer(p, u, v, k)
    PROVE  AccountsInv'
  BY BeginsFree DEF BeginTransfer, Places

LEMMA ApprovalBegins ==
    ASSUME AccountsInv, NEW p \in Workers, NEW c \in Claims, BeginApproval(p, c)  PROVE AccountsInv'
<1> DEFINE u == claim[c].by
           v == claim[c].target
<1>1. ProcsOK /\ u \in Users /\ v \in Users /\ u \in Rows
  BY DEF AccountsInv, TableInv, ClaimInv, BeginApproval, Rows
<1>2. /\ pc' \in [Workers -> Places] /\ job' \in [Workers -> JobRows]
      /\ pc'[p] = "first" /\ job'[p].user = u /\ job'[p].target = v /\ job'[p].item = c
      /\ \A q \in Workers \ {p} : pc'[q] = pc[q] /\ job'[q] = job[q]
  BY <1>1, Begins DEF BeginApproval, Begin, Places
<1>3. /\ lock' \in [Rows -> Workers \cup {NoOne}]
      /\ \A q \in Workers \ {p}, s \in Rows : lock[s] = q => lock'[s] = q
  <2>1. CASE exists[u]  BY <1>1, <2>1 DEF BeginApproval, ProcsOK
  <2>2. CASE ~exists[u]
    <3>1. lock' = [lock EXCEPT ![u] = p] /\ Free(u, p)  BY <2>2 DEF BeginApproval
    <3>2. QED BY <1>1, <3>1, AccountsConstants, Locks
  <2>3. QED BY <2>1, <2>2
<1>4. ProcsOK' /\ Elsewhere(p)  BY <1>2, <1>3 DEF ProcsOK, Elsewhere
<1>5. JobOK(p)'  BY <1>1, <1>2 DEF JobOK
<1>6. MintOK(p)' /\ ProofOK(p)'  BY <1>2 DEF MintOK, ProofOK
<1>7. QED BY <1>4, <1>5, <1>6, NoWrite DEF ProcInv, BeginApproval

LEMMA InOrderUsers ==
    ASSUME NEW u \in Users, NEW v \in Users
    PROVE  InOrder(u, v)[1] \in Users /\ InOrder(u, v)[2] \in Users
<1>1. CASE u < v  BY <1>1 DEF InOrder
<1>2. CASE ~(u < v)  BY <1>2 DEF InOrder
<1>3. QED BY <1>1, <1>2

LEMMA OrderKeeps ==
    ASSUME AccountsInv, NEW p \in Workers, LockFirst(p) \/ LockSecond(p)  PROVE AccountsInv'
<1> DEFINE row1 == InOrder(job[p].user, job[p].target)[1]
           row2 == InOrder(job[p].user, job[p].target)[2]
<1>1. ProcsOK /\ pc[p] \in {"first", "second"} /\ JobOK(p)
  BY DEF AccountsInv, ProcInv, LockFirst, LockSecond, LockInOrder
<1>2. job[p].user \in Users /\ job[p].target \in Users /\ job[p].item \in Keys \cup Claims
  BY <1>1 DEF JobOK
<1>3. row1 \in Rows /\ row2 \in Rows  BY <1>2, InOrderUsers DEF Rows
<1>4. ASSUME NEW at \in {"second", "check"}, NEW row \in Rows, Free(row, p),
             lock' = [lock EXCEPT ![row] = p], Goto(p, at), UNCHANGED tables
      PROVE  AccountsInv'
  <2>1. pc'[p] = at /\ job' = job  BY <1>1, <1>4 DEF Goto, ProcsOK
  <2>2. JobOK(p)' /\ MintOK(p)' /\ ProofOK(p)'  BY <1>2, <1>4, <2>1 DEF JobOK, MintOK, ProofOK
  <2>3. QED BY <1>4, <2>2, GoesOn DEF Places
<1>5. CASE LockFirst(p)  BY <1>3, <1>4, <1>5 DEF LockFirst, LockInOrder
<1>6. CASE LockSecond(p)  BY <1>3, <1>4, <1>6 DEF LockSecond, LockInOrder
<1>7. QED BY <1>5, <1>6

\* A transfer that stops keeps nothing but the account it inserted.
LEMMA Returns ==
    ASSUME AccountsInv, NEW p \in Workers, Return(p), UNCHANGED <<claimedBy, key, request>>,
           claim' \in [Claims -> ClaimRows], ClaimInv'
    PROVE  AccountsInv'
<1>1. End(p) /\ exists' = [exists EXCEPT ![job[p].user] = TRUE] /\ TableInv  BY DEF Return, AccountsInv
<1>2. TablesOK'  BY <1>1 DEF TableInv, TablesOK
<1>3. NoneInv' /\ NoOrphanKey'  BY <1>1 DEF TableInv, NoneInv, NoOrphanKey
<1>4. RowsRespected(p)  BY DEF RowsRespected
<1>5. QED BY <1>1, <1>2, <1>3, <1>4, Writes DEF TableInv

LEMMA FiledTyped ==
    ASSUME TablesOK, ClaimInv, NEW u \in Users, NEW v \in Users, NEW c \in Claims, Filed(u, v, c)
    PROVE  claim' \in [Claims -> ClaimRows] /\ ClaimInv'
<1>1. [by |-> u, target |-> v, status |-> "pending"] \in ClaimRows  BY DEF ClaimRows
<1>2. QED BY <1>1 DEF Filed, TablesOK, ClaimInv

LEMMA CheckProofKeeps ==
    ASSUME AccountsInv, NEW p \in Workers, CheckProof(p)  PROVE AccountsInv'
<1> DEFINE k == job[p].item
<1>1. /\ TableInv /\ ProcsOK /\ pc[p] = "check" /\ k \in Keys /\ k \in Rows /\ Free(k, p)
      /\ job[p].user \in Users /\ job[p].target \in Users
  BY DEF AccountsInv, ProcInv, JobOK, CheckProof, Rows
<1>2. CASE ClaimerIsLive(p) /\ key[k].owner = job[p].target /\ key[k].state = "active"
  <2>1. lock' = [lock EXCEPT ![k] = p] /\ Goto(p, "move") /\ UNCHANGED tables
    BY <1>2 DEF CheckProof
  <2>2. pc'[p] = "move" /\ job' = job /\ lock'[k] = p  BY <1>1, <2>1 DEF Goto, ProcsOK
  <2>3. JobOK(p)' /\ MintOK(p)' /\ ProofOK(p)'
    BY <1>1, <1>2, <2>1, <2>2 DEF JobOK, MintOK, ProofOK, tables
  <2>4. QED BY <1>1, <2>1, <2>3, GoesOn DEF Places
<1>3. CASE ~(ClaimerIsLive(p) /\ key[k].owner = job[p].target /\ key[k].state = "active")
  <2>1. Return(p) /\ UNCHANGED <<claimedBy, key, request>>  BY <1>3 DEF CheckProof
  <2>2. claim' \in [Claims -> ClaimRows] /\ ClaimInv'
    <3>1. CASE UNCHANGED claim  BY <1>1, <3>1 DEF TableInv, TablesOK, ClaimInv
    <3>2. CASE \E c \in FreeClaims : Filed(job[p].user, job[p].target, c)
      BY <1>1, <3>2, FiledTyped DEF FreeClaims, TableInv
    <3>3. QED BY <1>3, <3>1, <3>2 DEF CheckProof
  <2>3. QED BY <2>1, <2>2, Returns
<1>4. QED BY <1>2, <1>3

LEMMA CheckClaimerKeeps ==
    ASSUME AccountsInv, NEW p \in Workers, CheckClaimer(p)  PROVE AccountsInv'
<1>1. /\ TableInv /\ ProcsOK /\ pc[p] = "check" /\ job[p].item \in Claims /\ job[p].item \notin Keys
      /\ job[p].user \in Users /\ job[p].target \in Users
  BY AccountsConstants DEF AccountsInv, ProcInv, JobOK, CheckClaimer
<1>2. CASE ClaimerIsLive(p)
  <2>1. Goto(p, "move") /\ UNCHANGED <<tables, lock>>  BY <1>2 DEF CheckClaimer, tables
  <2>2. pc'[p] = "move" /\ job' = job  BY <1>1, <2>1 DEF Goto, ProcsOK
  <2>3. JobOK(p)' /\ MintOK(p)' /\ ProofOK(p)'  BY <1>1, <2>2 DEF JobOK, MintOK, ProofOK
  <2>4. QED BY <2>1, <2>3, GoesOn DEF Places
<1>3. CASE ~ClaimerIsLive(p)
  <2>1. claim' \in [Claims -> ClaimRows] /\ ClaimInv'
    BY <1>1 DEF CheckClaimer, TableInv, TablesOK, ClaimInv
  <2>2. QED BY <1>3, <2>1, Returns DEF CheckClaimer
<1>4. QED BY <1>2, <1>3

LEMMA MoveKeeps == ASSUME AccountsInv, NEW p \in Workers, MoveRows(p)  PROVE AccountsInv'
<1> DEFINE v == job[p].target
<1>1. /\ TableInv /\ ProcsOK /\ pc[p] = "move" /\ job[p].item \in Claims
      /\ job[p].user \in Users /\ v \in Users
  BY DEF AccountsInv, ProcInv, JobOK, MoveRows
<1>2. CASE Claimable(v)
  <2>1. /\ \A row \in RowsOf(v) : Free(row, p)
        /\ lock' = [row \in Rows |-> IF row \in RowsOf(v) THEN p ELSE lock[row]]
        /\ Goto(p, "stamp") /\ UNCHANGED tables
    BY <1>2 DEF MoveRows, tables
  <2>2. /\ pc' \in [Workers -> Places] /\ job' \in [Workers -> JobRows]
        /\ pc'[p] = "stamp" /\ job'[p] = job[p]
        /\ \A q \in Workers \ {p} : pc'[q] = pc[q] /\ job'[q] = job[q]
    BY <1>1, <2>1, Goes DEF Places
  <2>3. lock' \in [Rows -> Workers \cup {NoOne}]  BY <1>1, <2>1 DEF ProcsOK
  <2>4. \A q \in Workers \ {p}, s \in Rows : lock[s] = q => lock'[s] = q
    BY <2>1, AccountsConstants DEF Free
  <2>5. ProcsOK' /\ Elsewhere(p)  BY <2>2, <2>3, <2>4 DEF ProcsOK, Elsewhere
  <2>6. JobOK(p)' /\ MintOK(p)' /\ ProofOK(p)'  BY <1>1, <2>2 DEF JobOK, MintOK, ProofOK
  <2>7. QED BY <2>1, <2>5, <2>6, NoWrite DEF ProcInv
<1>3. CASE ~Claimable(v)
  <2>1. Return(p) /\ UNCHANGED <<claimedBy, key, request, claim>>  BY <1>3 DEF MoveRows
  <2>2. claim' \in [Claims -> ClaimRows] /\ ClaimInv'  BY <1>1, <2>1 DEF TableInv, TablesOK, ClaimInv
  <2>3. QED BY <2>1, <2>2, Returns
<1>4. QED BY <1>2, <1>3

LEMMA RepointTyped ==
    ASSUME NEW u \in Users, NEW v \in Users
    PROVE  /\ \A row \in KeyRows : /\ Repoint(row, u, v) \in KeyRows
                                   /\ Repoint(row, u, v).state = row.state /\ Repoint(row, u, v).from = row.from
                                   /\ row.owner # v => Repoint(row, u, v).owner = row.owner
           /\ \A row \in RequestRows : /\ Repoint(row, u, v) \in RequestRows
                                       /\ Repoint(row, u, v).status = row.status /\ Repoint(row, u, v).key = row.key
  BY DEF Repoint, KeyRows, RequestRows

LEMMA TransferKeeps == ASSUME AccountsInv, NEW p \in Workers, Transfer(p)  PROVE AccountsInv'
<1> DEFINE u == job[p].user
           v == job[p].target
<1>1. /\ TableInv /\ TablesOK /\ ProcsOK /\ Return(p) /\ u \in Users /\ v \in Users
      /\ \A row \in RowsOf(v) : Free(row, p)
  BY DEF AccountsInv, TableInv, ProcInv, JobOK, Transfer
<1>2. CASE Claimable(v)
  <2>1. /\ claimedBy' = [claimedBy EXCEPT ![v] = u]
        /\ key' = [k \in Keys |-> Repoint(key[k], u, v)]
        /\ request' = [r \in Requests |-> Repoint(request[r], u, v)]
        /\ claim' = [c \in Claims |-> [claim[c] EXCEPT !.status = IF c = job[p].item THEN "approved" ELSE @]]
    BY <1>2 DEF Transfer
  <2>2. /\ key' \in [Keys -> KeyRows]
        /\ \A k \in Keys : /\ key'[k].state = key[k].state /\ key'[k].from = key[k].from
                           /\ key[k].owner # v => key'[k].owner = key[k].owner
    BY <1>1, <2>1, RepointTyped DEF TablesOK
  <2>3. /\ request' \in [Requests -> RequestRows]
        /\ \A r \in Requests : request'[r].status = request[r].status /\ request'[r].key = request[r].key
    BY <1>1, <2>1, RepointTyped DEF TablesOK
  <2>4. claim' \in [Claims -> ClaimRows] /\ ClaimInv'
    <3> DEFINE row(c) == [claim[c] EXCEPT !.status = IF c = job[p].item THEN "approved" ELSE @]
    <3>1. \A c \in Claims : row(c) \in ClaimRows /\ row(c).by = claim[c].by /\ row(c).target = claim[c].target
      BY <1>1 DEF TablesOK, ClaimRows
    <3>2. \A c \in Claims : c # job[p].item => row(c).status = claim[c].status
      BY <1>1 DEF TablesOK, ClaimRows
    <3>3. \A c \in Claims : c = job[p].item => row(c).status = "approved"
      BY <1>1 DEF TablesOK, ClaimRows
    <3>4. QED BY <1>1, <2>1, <3>1, <3>2, <3>3 DEF TableInv, ClaimInv
  <2>5. TablesOK'  BY <1>1, <2>1, <2>2, <2>3, <2>4 DEF Return, TablesOK
  <2>6. NoneInv' /\ NoOrphanKey'
    <3>1. \A k \in Keys : key[k].from \in Requests \cup {NoOne}  BY <1>1 DEF TablesOK, KeyRows
    <3>2. QED BY <1>1, <2>2, <2>3, <3>1 DEF TableInv, NoneInv, NoOrphanKey
  <2>7. RowsRespected(p)
    <3>1. \A q \in Workers \ {p}, k \in Keys : lock[k] = q => key[k].owner # v
      BY <1>1, AccountsConstants DEF RowsOf, Free
    <3>2. QED BY <2>2, <2>3, <3>1 DEF RowsRespected
  <2>8. QED BY <1>1, <2>4, <2>5, <2>6, <2>7, Writes DEF Return, TableInv
<1>3. CASE ~Claimable(v)
  <2>1. UNCHANGED <<claimedBy, key, request, claim>>  BY <1>3 DEF Transfer
  <2>2. claim' \in [Claims -> ClaimRows] /\ ClaimInv'  BY <1>1, <2>1 DEF TableInv, TablesOK, ClaimInv
  <2>3. QED BY <1>1, <2>1, <2>2, Returns
<1>4. QED BY <1>2, <1>3
-----------------------------------------------------------------------------
(* Single statements, by nobody's process. *)

LEMMA Statements ==
    ASSUME AccountsInv, UNCHANGED <<lock, pc, job>>, TableInv', RowsRespected(NoOne)
    PROVE  AccountsInv'
<1>1. ProcsOK' /\ Elsewhere(NoOne)  BY DEF AccountsInv, ProcsOK, Elsewhere
<1>2. \A q \in Workers \ {NoOne} : ProcInv(q)'  BY <1>1, OthersKeep DEF AccountsInv
<1>3. QED BY <1>1, <1>2, AccountsConstants DEF AccountsInv

LEMMA RevokeKeeps ==
    ASSUME AccountsInv, NEW k \in Keys, NEW revoked \in BOOLEAN, SetRevoked(k, revoked)  PROVE AccountsInv'
<1> DEFINE state == IF revoked THEN "revoked" ELSE "active"
<1>1. /\ TableInv /\ TablesOK /\ lock[k] = NoOne /\ key[k].state \in {"active", "revoked"}
      /\ key' = [key EXCEPT ![k].state = state]
      /\ UNCHANGED <<exists, claimedBy, request, claim, lock, pc, job>>
  BY DEF AccountsInv, TableInv, SetRevoked
<1>2. [key[k] EXCEPT !.state = state] \in KeyRows  BY <1>1 DEF TablesOK, KeyRows
<1>3. /\ key' \in [Keys -> KeyRows] /\ key'[k].from = key[k].from
      /\ \A j \in Keys \ {k} : key'[j] = key[j]
  BY <1>1, <1>2 DEF TablesOK, KeyRows
<1>4. TablesOK' /\ ClaimInv' /\ NoneInv' /\ NoOrphanKey'
  BY <1>1, <1>3 DEF TableInv, TablesOK, ClaimInv, NoneInv, NoOrphanKey
<1>5. RowsRespected(NoOne)  BY <1>1, <1>3, AccountsConstants DEF RowsRespected
<1>6. QED BY <1>1, <1>4, <1>5, Statements DEF TableInv

LEMMA DeleteKeeps == ASSUME AccountsInv, NEW k \in Keys, DeleteKey(k)  PROVE AccountsInv'
<1>1. /\ TableInv /\ TablesOK /\ lock[k] = NoOne
      /\ key' = [key EXCEPT ![k].state = "gone", ![k].owner = NoOne]
      /\ request' = [r \in Requests |-> [request[r] EXCEPT !.key = IF @ = k THEN NoOne ELSE @]]
      /\ UNCHANGED <<exists, claimedBy, claim, lock, pc, job>>
  BY DEF AccountsInv, TableInv, DeleteKey
<1>2. [[key[k] EXCEPT !.state = "gone"] EXCEPT !.owner = NoOne] \in KeyRows  BY <1>1 DEF TablesOK, KeyRows
<1>3. /\ key' \in [Keys -> KeyRows] /\ key'[k].state = "gone"
      /\ \A j \in Keys \ {k} : key'[j] = key[j]
  BY <1>1, <1>2 DEF TablesOK, KeyRows
<1>4. /\ request' \in [Requests -> RequestRows]
      /\ \A r \in Requests : /\ request'[r].status = request[r].status
                             /\ request'[r].key = IF request[r].key = k THEN NoOne ELSE request[r].key
  <2>1. \A row \in RequestRows :
           LET new == [row EXCEPT !.key = IF @ = k THEN NoOne ELSE @]
           IN  new \in RequestRows /\ new.status = row.status /\ new.key = IF row.key = k THEN NoOne ELSE row.key
    BY DEF RequestRows
  <2>2. QED BY <1>1, <2>1 DEF TablesOK
<1>5. TablesOK' /\ ClaimInv' /\ NoneInv'  BY <1>1, <1>3, <1>4 DEF TableInv, TablesOK, ClaimInv, NoneInv
<1>6. NoOrphanKey'
  <2>1. \A j \in Keys : key[j].from \in Requests \cup {NoOne}  BY <1>1 DEF TablesOK, KeyRows
  <2>2. QED BY <1>1, <1>3, <1>4, <2>1 DEF TableInv, NoOrphanKey
<1>7. RowsRespected(NoOne)  BY <1>1, <1>3, <1>4, AccountsConstants DEF RowsRespected
<1>8. QED BY <1>1, <1>5, <1>6, <1>7, Statements DEF TableInv

LEMMA SignInKeeps == ASSUME AccountsInv, NEW u \in Users, FirstSignIn(u)  PROVE AccountsInv'
<1>1. TableInv' /\ RowsRespected(NoOne)
  BY DEF AccountsInv, FirstSignIn, TableInv, TablesOK, ClaimInv, NoneInv, NoOrphanKey, RowsRespected
<1>2. QED BY <1>1, Statements DEF FirstSignIn

LEMMA FileKeeps ==
    ASSUME AccountsInv, NEW u \in Users, NEW v \in Users, FileReviewClaim(u, v)  PROVE AccountsInv'
<1>1. claim' \in [Claims -> ClaimRows] /\ ClaimInv'
  BY FiledTyped DEF AccountsInv, TableInv, FileReviewClaim, FreeClaims
<1>2. TableInv' /\ RowsRespected(NoOne)
  BY <1>1 DEF AccountsInv, FileReviewClaim, TableInv, TablesOK, NoneInv, NoOrphanKey, RowsRespected
<1>3. QED BY <1>2, Statements DEF FileReviewClaim

\* A refusal changes the status of one claim, from the pending one.
LEMMA RefusedTyped ==
    ASSUME TablesOK, ClaimInv, NEW c \in Claims, claim' = [claim EXCEPT ![c].status = "rejected"]
    PROVE  /\ claim' \in [Claims -> ClaimRows] /\ ClaimInv'
           /\ claim'[c].status = "rejected" /\ claim'[c].by = claim[c].by /\ claim'[c].target = claim[c].target
           /\ \A d \in Claims \ {c} : claim'[d] = claim[d]
<1>1. [claim[c] EXCEPT !.status = "rejected"] \in ClaimRows  BY DEF TablesOK, ClaimRows
<1>2. QED BY <1>1 DEF TablesOK, ClaimRows, ClaimInv

LEMMA RejectKeeps ==
    ASSUME AccountsInv, NEW c \in Claims, RejectByToken(c)  PROVE AccountsInv'
<1>1. claim' \in [Claims -> ClaimRows] /\ ClaimInv'
  BY RefusedTyped DEF AccountsInv, TableInv, RejectByToken
<1>2. TableInv' /\ RowsRespected(NoOne)
  BY <1>1 DEF AccountsInv, RejectByToken, TableInv, TablesOK, NoneInv, NoOrphanKey, RowsRespected
<1>3. QED BY <1>2, Statements DEF RejectByToken

LEMMA RefusalKeeps ==
    ASSUME AccountsInv, NEW p \in Workers, RejectGithubClaim(p)  PROVE AccountsInv'
<1>1. job[p].item \in Claims  BY DEF AccountsInv, ProcInv, JobOK, RejectGithubClaim
<1>2. claim' \in [Claims -> ClaimRows] /\ ClaimInv'
  BY <1>1, RefusedTyped DEF AccountsInv, TableInv, RejectGithubClaim
<1>3. TableInv' /\ RowsRespected(p)
  BY <1>2 DEF AccountsInv, RejectGithubClaim, TableInv, TablesOK, NoneInv, NoOrphanKey, RowsRespected
<1>4. QED BY <1>3, Writes DEF RejectGithubClaim
-----------------------------------------------------------------------------
LEMMA AccountsNext == AccountsInv /\ [Next]_vars => AccountsInv'
<1> SUFFICES ASSUME AccountsInv, [Next]_vars  PROVE AccountsInv'
  OBVIOUS
<1>1. ASSUME NEW p \in Workers, KeyNext(p)  PROVE AccountsInv'
  <2>1. ASSUME NEW u \in Users, BeginAsk(p, u) \/ GoBeginAsk(p, u)  PROVE AccountsInv'
    <3>1. CASE BeginAsk(p, u)  BY <3>1, BeginsFree DEF BeginAsk, Places
    <3>2. CASE GoBeginAsk(p, u)  BY <3>2, BeginsFree DEF GoBeginAsk, Places
    <3>3. QED BY <2>1, <3>1, <3>2
  <2>2. ASSUME NEW u \in Users, NEW r \in Requests, BeginClaim(p, u, r) \/ GoBeginClaim(p, u, r)
        PROVE  AccountsInv'
    BY <2>2, ClaimBegins
  <2>3. ASSUME NEW r \in Requests, BeginReview(p, r)  PROVE AccountsInv'
    BY <2>3, ReviewBegins
  <2>4. CASE CreateKeyRequest(p)  BY <2>4, CreateKeeps
  <2>5. CASE ApproveKeyRequest(p) \/ RejectKeyRequest(p)  BY <2>5, DecideKeeps
  <2>6. CASE LockUser(p) \/ LockRequest(p) \/ CountKeys(p)  BY <2>6, ClaimSteps
  <2>7. CASE Mint(p)  BY <2>7, MintKeeps
  <2>8. CASE Sign(p)  BY <2>8, SignKeeps
  <2>9. QED BY <1>1, <2>1, <2>2, <2>3, <2>4, <2>5, <2>6, <2>7, <2>8 DEF KeyNext
<1>2. ASSUME NEW p \in Workers, TransferNext(p)  PROVE AccountsInv'
  BY <1>2, TransferBegins, ApprovalBegins, OrderKeeps, CheckProofKeeps, CheckClaimerKeeps, MoveKeeps,
     TransferKeeps, RefusalBegins, RefusalKeeps
  DEF TransferNext
<1>3. ASSUME NEW p \in Workers, Abort(p)  PROVE AccountsInv'
  BY <1>3, Quits DEF Abort
<1>4. CASE RowNext
  <2>1. ASSUME NEW k \in Keys, DeleteKey(k) \/ \E revoked \in BOOLEAN : SetRevoked(k, revoked)
        PROVE  AccountsInv'
    BY <2>1, RevokeKeeps, DeleteKeeps
  <2>2. QED BY <1>4, <2>1, SignInKeeps, FileKeeps, RejectKeeps
            DEF RowNext, UserKeyUpdate, GoUserKeyUpdate, AdminKeyUpdate
<1>5. CASE UNCHANGED vars
  <2>1. UNCHANGED <<tables, lock, pc, job>>  BY <1>5 DEF vars, tables
  <2>2. TableInv' /\ RowsRespected(NoOne)  BY <2>1, SameTables DEF AccountsInv
  <2>3. QED BY <2>1, <2>2, Statements
<1>6. QED BY <1>1, <1>2, <1>3, <1>4, <1>5 DEF Next

-----------------------------------------------------------------------------
(* What the row locks protect: who is claimed by whom, and whose a minted key is. *)

\* A transfer under way is of two accounts, those its claim names; past the locks it
\* holds both, and past its check the claimer is alive.  What is refused was filed.
\* A review that an administrator signs holds what it decides.
TransferOK(p) ==
    /\ pc[p] \in {"first", "second", "check", "move", "stamp"} =>
          /\ job[p].user # job[p].target
          /\ job[p].item \in Claims => /\ claim[job[p].item].status # "none"
                                       /\ claim[job[p].item].by = job[p].user
                                       /\ claim[job[p].item].target = job[p].target
    /\ pc[p] = "second" => lock[InOrder(job[p].user, job[p].target)[1]] = p
    /\ pc[p] \in {"check", "move", "stamp"} => lock[job[p].user] = p /\ lock[job[p].target] = p
    /\ pc[p] \in {"move", "stamp"} => claimedBy[job[p].user] = NoOne
    /\ pc[p] = "refuse" => claim[job[p].item].status # "none"
    /\ pc[p] \in {"first", "second", "check", "move"} => job[p].admin = NoOne
    /\ pc[p] \in {"approve", "reject", "refuse", "stamp"} /\ job[p].admin # NoOne =>
          lock[job[p].item] = p

\* On either server a claim past its look at the request works on an approved request of
\* its own; on the TypeScript server it holds the account, too.
ClaimingOK(p) ==
    /\ pc[p] \in {"count", "mint"} =>
          request[job[p].item].status = "approved" /\ request[job[p].item].owner = job[p].user
    /\ job[p].server = "ts" /\ pc[p] \in {"request", "count", "mint"} => lock[job[p].user] = p

FiledInv == \A c \in Claims : claim[c].status # "none" =>
                claim[c].by \in Users /\ claim[c].target \in Users /\ claim[c].by # claim[c].target
UnmadeInv == \A r \in Requests : request[r].status = "none" => request[r].owner = NoOne
LinksTables == FiledInv /\ UnmadeInv /\ ClaimsEndInLiveAccount /\ ApprovedClaimMoved /\ NoKeyLeftBehind
LinksInv == LinksTables /\ \A p \in Workers : TransferOK(p) /\ ClaimingOK(p)

\* What a step of p may not do to the rows others rely on.
LinksRespected(p) ==
    /\ \A c \in Claims : claim[c].status # "none" =>
          claim'[c].status # "none" /\ claim'[c].by = claim[c].by /\ claim'[c].target = claim[c].target
    /\ \A u \in Users : exists[u] => exists'[u]
    /\ \A q \in Workers \ {p}, u \in Users : lock[u] = q => claimedBy'[u] = claimedBy[u]
    /\ \A q \in Workers \ {p}, r \in Requests : lock[r] = q /\ request[r].status # "none" =>
          request'[r].status = request[r].status /\ request'[r].owner = request[r].owner

LEMMA OthersLinked ==
    ASSUME NEW p, AccountsInv, LinksInv, Elsewhere(p), LinksRespected(p)
    PROVE  \A q \in Workers \ {p} : TransferOK(q)' /\ ClaimingOK(q)'
<1> SUFFICES ASSUME NEW q \in Workers \ {p}  PROVE TransferOK(q)' /\ ClaimingOK(q)'
  OBVIOUS
<1>1. /\ pc'[q] = pc[q] /\ job'[q] = job[q] /\ JobOK(q) /\ MintOK(q) /\ TransferOK(q) /\ ClaimingOK(q)
      /\ \A row \in Rows : lock[row] = q => lock'[row] = q
  BY DEF Elsewhere, AccountsInv, ProcInv, LinksInv
<1>2. TransferOK(q)'
  <2>5. pc[q] \in {"approve", "reject", "refuse", "stamp"} => job[q].item \in Rows
    BY <1>1 DEF JobOK, Rows
  <2>6. pc[q] \in {"approve", "reject", "refuse", "stamp"} /\ job[q].admin # NoOne =>
           lock'[job[q].item] = q
    BY <1>1, <2>5 DEF TransferOK
  <2> SUFFICES ASSUME pc[q] \in {"first", "second", "check", "move", "stamp"}  PROVE TransferOK(q)'
    BY <1>1, <2>6 DEF TransferOK, JobOK, LinksRespected
  <2>1. job[q].user \in Users /\ job[q].target \in Users  BY <1>1 DEF JobOK
  <2>2. InOrder(job[q].user, job[q].target)[1] \in Rows /\ job[q].user \in Rows /\ job[q].target \in Rows
    BY <2>1, InOrderUsers DEF Rows
  <2>3. InOrder(job'[q].user, job'[q].target)[1] = InOrder(job[q].user, job[q].target)[1]  BY <1>1
  <2>4. QED BY <1>1, <2>1, <2>2, <2>3, <2>6 DEF TransferOK, LinksRespected
<1>3. ClaimingOK(q)'
  <2> SUFFICES ASSUME pc[q] \in {"request", "count", "mint"}  PROVE ClaimingOK(q)'
    BY <1>1 DEF ClaimingOK
  <2>1. job[q].user \in Users /\ job[q].item \in Requests /\ job[q].user \in Rows /\ job[q].item \in Rows
    BY <1>1 DEF JobOK, Rows
  <2>2. job[q].server = "ts" => lock'[job[q].user] = q  BY <1>1, <2>1 DEF ClaimingOK
  <2>3. pc[q] \in {"count", "mint"} =>
           request'[job[q].item].status = "approved" /\ request'[job[q].item].owner = job[q].user
    BY <1>1, <2>1 DEF ClaimingOK, MintOK, LinksRespected
  <2>4. QED BY <1>1, <2>2, <2>3 DEF ClaimingOK
<1>4. QED BY <1>2, <1>3

LEMMA LinksInit == Init => LinksInv
<1> SUFFICES ASSUME Init  PROVE LinksInv
  OBVIOUS
<1>1. FiledInv /\ ApprovedClaimMoved
  <2>1. CASE claim = [c \in Claims |-> [by |-> NoOne, target |-> NoOne, status |-> "none"]]
    BY <2>1 DEF FiledInv, ApprovedClaimMoved
  <2>2. CASE \E c \in Claims, g \in Github, u \in Users \ Github :
                claim = [d \in Claims |-> IF d = c THEN [by |-> g, target |-> u, status |-> "pending"]
                                          ELSE [by |-> NoOne, target |-> NoOne, status |-> "none"]]
    BY <2>2, AccountsConstants DEF FiledInv, ApprovedClaimMoved
  <2>3. QED BY <2>1, <2>2 DEF Init
<1>2. ClaimsEndInLiveAccount  BY DEF Init, ClaimsEndInLiveAccount
<1>3. UnmadeInv /\ NoKeyLeftBehind  BY AccountsConstants DEF Init, UnmadeInv, NoKeyLeftBehind
<1>4. \A p \in Workers : TransferOK(p) /\ ClaimingOK(p)  BY DEF Init, TransferOK, ClaimingOK
<1>5. QED BY <1>1, <1>2, <1>3, <1>4 DEF LinksInv, LinksTables

LEMMA SameLinks ==
    ASSUME LinksTables, UNCHANGED tables
    PROVE  LinksTables' /\ \A p : LinksRespected(p)
  BY DEF LinksTables, FiledInv, UnmadeInv, ClaimsEndInLiveAccount, ApprovedClaimMoved, NoKeyLeftBehind,
         tables, LinksRespected

LEMMA LinkedNoWrite ==
    ASSUME NEW p \in Workers, AccountsInv, LinksInv, UNCHANGED tables, Elsewhere(p), TransferOK(p)', ClaimingOK(p)'
    PROVE  LinksInv'
<1>1. LinksTables' /\ LinksRespected(p)  BY SameLinks DEF LinksInv
<1>2. \A q \in Workers \ {p} : TransferOK(q)' /\ ClaimingOK(q)'  BY <1>1, OthersLinked
<1>3. QED BY <1>1, <1>2 DEF LinksInv

LEMMA LinkedEnd ==
    ASSUME NEW p \in Workers, AccountsInv, LinksInv, End(p), LinksTables', LinksRespected(p)
    PROVE  LinksInv'
<1>1. Elsewhere(p)  BY Ends DEF AccountsInv
<1>2. pc'[p] = "idle"  BY DEF AccountsInv, ProcsOK, End
<1>3. TransferOK(p)' /\ ClaimingOK(p)'  BY <1>2 DEF TransferOK, ClaimingOK
<1>4. \A q \in Workers \ {p} : TransferOK(q)' /\ ClaimingOK(q)'  BY <1>1, OthersLinked
<1>5. QED BY <1>3, <1>4 DEF LinksInv

LEMMA LinkedQuit ==
    ASSUME NEW p \in Workers, AccountsInv, LinksInv, End(p), UNCHANGED tables  PROVE LinksInv'
  BY LinkedEnd, SameLinks DEF LinksInv

LEMMA LinkedStatement ==
    ASSUME AccountsInv, LinksInv, UNCHANGED <<lock, pc, job>>, LinksTables', LinksRespected(NoOne)
    PROVE  LinksInv'
<1>1. Elsewhere(NoOne)  BY DEF Elsewhere
<1>2. \A q \in Workers \ {NoOne} : TransferOK(q)' /\ ClaimingOK(q)'  BY <1>1, OthersLinked
<1>3. QED BY <1>2, AccountsConstants DEF LinksInv

\* A step of p between two places of its transaction, perhaps with one more lock.
LEMMA Onward ==
    ASSUME NEW p \in Workers, AccountsInv, NEW at \in Places, Goto(p, at),
           \/ UNCHANGED lock
           \/ \E row \in Rows : Free(row, p) /\ lock' = [lock EXCEPT ![row] = p]
    PROVE  /\ Elsewhere(p) /\ pc'[p] = at /\ job'[p] = job[p]
           /\ \A row \in Rows : lock[row] = p => lock'[row] = p
<1>1. /\ pc'[p] = at /\ job'[p] = job[p]
      /\ \A q \in Workers \ {p} : pc'[q] = pc[q] /\ job'[q] = job[q]
  BY Goes DEF AccountsInv
<1>2. \A q \in Workers, s \in Rows : lock[s] = q => lock'[s] = q
  BY AccountsConstants DEF AccountsInv, ProcsOK, Free
<1>3. QED BY <1>1, <1>2 DEF Elsewhere

\* And its first step.
TakesOne(p) == UNCHANGED lock \/ \E row \in Rows : Free(row, p) /\ lock' = [lock EXCEPT ![row] = p]
LEMMA Beginning ==
    ASSUME NEW p \in Workers, AccountsInv, NEW server, NEW at, NEW u, NEW v, NEW i, NEW a,
           BeginBy(a, p, server, at, u, v, i), TakesOne(p)
    PROVE  /\ Elsewhere(p) /\ pc'[p] = at
           /\ job'[p] = [server |-> server, user |-> u, target |-> v, item |-> i, admin |-> a]
<1>1. /\ pc'[p] = at /\ job'[p] = [server |-> server, user |-> u, target |-> v, item |-> i, admin |-> a]
      /\ \A q \in Workers \ {p} : pc'[q] = pc[q] /\ job'[q] = job[q]
  BY DEF AccountsInv, ProcsOK, BeginBy
<1>2. \A q \in Workers \ {p}, s \in Rows : lock[s] = q => lock'[s] = q
  BY AccountsConstants DEF AccountsInv, ProcsOK, Free, TakesOne
<1>3. QED BY <1>1, <1>2 DEF Elsewhere
-----------------------------------------------------------------------------
LEMMA AskLinked ==
    ASSUME NEW p \in Workers, AccountsInv, LinksInv, NEW u \in Users, BeginAsk(p, u) \/ GoBeginAsk(p, u)
    PROVE  LinksInv'
<1>0. BeginBy(NoOne, p, "ts", "ask", u, NoOne, NoOne) /\ TakesOne(p) /\ UNCHANGED tables
  BY DEF BeginAsk, GoBeginAsk, Begin, TakesOne
<1>1. Elsewhere(p) /\ pc'[p] = "ask" /\ UNCHANGED tables  BY <1>0, Beginning
<1>2. TransferOK(p)' /\ ClaimingOK(p)'  BY <1>1 DEF TransferOK, ClaimingOK
<1>3. QED BY <1>1, <1>2, LinkedNoWrite

LEMMA KeyBeginsLinked ==
    ASSUME NEW p \in Workers, AccountsInv, LinksInv, NEW u \in Users, NEW r \in Requests,
           BeginClaim(p, u, r) \/ GoBeginClaim(p, u, r)
    PROVE  LinksInv'
<1>1. CASE BeginClaim(p, u, r)
  <2>0. BeginBy(NoOne, p, "ts", "user", u, NoOne, r) /\ TakesOne(p) /\ UNCHANGED tables
    BY <1>1 DEF BeginClaim, Begin, TakesOne
  <2>1. Elsewhere(p) /\ pc'[p] = "user" /\ UNCHANGED tables  BY <2>0, Beginning
  <2>2. TransferOK(p)' /\ ClaimingOK(p)'  BY <2>1 DEF TransferOK, ClaimingOK
  <2>3. QED BY <2>1, <2>2, LinkedNoWrite
<1>2. CASE GoBeginClaim(p, u, r)
  <2>1. /\ BeginBy(NoOne, p, "go", "count", u, NoOne, r) /\ UNCHANGED tables
        /\ r \in Rows /\ Free(r, p) /\ lock' = [lock EXCEPT ![r] = p]
        /\ request[r].status = "approved" /\ request[r].owner = u
    BY <1>2 DEF GoBeginClaim, Begin, Rows
  <2>5. TakesOne(p)  BY <2>1 DEF TakesOne
  <2>6. BeginBy(NoOne, p, "go", "count", u, NoOne, r)  BY <2>1
  <2>2. /\ Elsewhere(p) /\ pc'[p] = "count"
        /\ job'[p] = [server |-> "go", user |-> u, target |-> NoOne, item |-> r, admin |-> NoOne]
    BY <2>5, <2>6, Beginning
  <2>3. TransferOK(p)' /\ ClaimingOK(p)'  BY <2>1, <2>2 DEF TransferOK, ClaimingOK, tables
  <2>4. QED BY <2>1, <2>2, <2>3, LinkedNoWrite
<1>3. QED BY <1>1, <1>2

LEMMA ReviewLinked ==
    ASSUME NEW p \in Workers, AccountsInv, LinksInv, NEW r \in Requests,
           BeginReview(p, r)
    PROVE  LinksInv'
<1>1. PICK d \in {"approve", "reject"} : Begin(p, "ts", d, NoOne, NoOne, r)  BY DEF BeginReview
<1>2. BeginBy(NoOne, p, "ts", d, NoOne, NoOne, r) /\ TakesOne(p) /\ UNCHANGED tables
  BY <1>1 DEF BeginReview, Begin, TakesOne
<1>3. /\ Elsewhere(p) /\ pc'[p] = d
      /\ job'[p] = [server |-> "ts", user |-> NoOne, target |-> NoOne, item |-> r, admin |-> NoOne]
  BY <1>2, Beginning
<1>4. QED BY <1>2, <1>3, LinkedNoWrite DEF TransferOK, ClaimingOK

LEMMA SignLinked ==
    ASSUME NEW p \in Workers, AccountsInv, LinksInv, Sign(p)  PROVE LinksInv'
<1>0. ProcsOK /\ JobOK(p) /\ TransferOK(p)  BY DEF AccountsInv, ProcInv, LinksInv
<1>1. \A q \in Workers, s \in Rows : lock[s] = q => lock'[s] = q
  BY <1>0, Signs, AccountsConstants DEF ProcsOK, Free
<1>2. Elsewhere(p) /\ UNCHANGED tables  BY <1>1, Signs DEF Elsewhere
<1>3. pc[p] = "stamp" => job[p].user \in Rows /\ job[p].target \in Rows  BY <1>0 DEF JobOK, Rows
<1>4. /\ pc'[p] = pc[p] /\ pc[p] \in {"approve", "reject", "stamp"}
      /\ job'[p].item = job[p].item /\ lock'[job[p].item] = p
  BY <1>0, Signs DEF ProcsOK
<1>5. TransferOK(p)'
  <2>1. CASE pc[p] = "stamp"
    <3>1. claimedBy' = claimedBy /\ claim' = claim  BY <1>2 DEF tables
    <3>2. QED BY <1>0, <1>1, <1>3, <1>4, <2>1, <3>1, Signs DEF TransferOK
  <2>2. CASE pc[p] # "stamp"  BY <1>4, <2>2 DEF TransferOK
  <2>3. QED BY <2>1, <2>2
<1>6. ClaimingOK(p)'  BY <1>4 DEF ClaimingOK
<1>7. QED BY <1>2, <1>5, <1>6, LinkedNoWrite

LEMMA RefusalLinked ==
    ASSUME NEW p \in Workers, AccountsInv, LinksInv, NEW c \in Claims, SignRefusal(p, c)  PROVE LinksInv'
<1>1. PICK a \in Admins : BeginBy(a, p, "ts", "refuse", NoOne, NoOne, c)  BY DEF SignRefusal
<1>2. c \in Rows /\ Free(c, p) /\ lock' = [lock EXCEPT ![c] = p] /\ UNCHANGED tables
  BY DEF SignRefusal, Rows
<1>3. Elsewhere(p) /\ pc'[p] = "refuse"
  <2>1. TakesOne(p)  BY <1>2 DEF TakesOne
  <2>2. QED BY <1>1, <2>1, Beginning
<1>4. job'[p].item = c /\ claim' = claim /\ claim[c].status = "pending" /\ lock'[c] = p
  BY <1>1, <1>2 DEF SignRefusal, tables, BeginBy, AccountsInv, ProcsOK
<1>5. TransferOK(p)' /\ ClaimingOK(p)'  BY <1>3, <1>4 DEF TransferOK, ClaimingOK
<1>6. QED BY <1>2, <1>3, <1>5, LinkedNoWrite

LEMMA TransferBeginsLinked ==
    ASSUME NEW p \in Workers, AccountsInv, LinksInv, NEW u \in Users, NEW v \in Users, NEW k \in Keys,
           BeginTransfer(p, u, v, k)
    PROVE  LinksInv'
<1>1. /\ Elsewhere(p) /\ pc'[p] = "first" /\ UNCHANGED tables /\ u # v /\ k \notin Claims
      /\ job'[p] = [server |-> "ts", user |-> u, target |-> v, item |-> k, admin |-> NoOne]
  <2>1. BeginBy(NoOne, p, "ts", "first", u, v, k) /\ TakesOne(p) /\ UNCHANGED tables /\ u # v
    BY DEF BeginTransfer, Begin, TakesOne
  <2>2. QED BY <2>1, AccountsConstants, Beginning
<1>2. TransferOK(p)' /\ ClaimingOK(p)'  BY <1>1 DEF TransferOK, ClaimingOK
<1>3. QED BY <1>1, <1>2, LinkedNoWrite

LEMMA ApprovalBeginsLinked ==
    ASSUME NEW p \in Workers, AccountsInv, LinksInv, NEW c \in Claims,
           BeginApproval(p, c)
    PROVE  LinksInv'
<1>1. /\ claim[c].status # "none" /\ claim[c].by \in Rows /\ claim[c].by # claim[c].target
      /\ UNCHANGED tables
  BY DEF BeginApproval, LinksInv, LinksTables, FiledInv, Rows
<1>2. /\ Elsewhere(p) /\ pc'[p] = "first"
      /\ job'[p] = [server |-> "ts", user |-> claim[c].by, target |-> claim[c].target, item |-> c,
                    admin |-> NoOne]
  <2>1. BeginBy(NoOne, p, "ts", "first", claim[c].by, claim[c].target, c)  BY DEF BeginApproval, Begin
  <2>2. TakesOne(p)  BY <1>1 DEF BeginApproval, TakesOne
  <2>3. QED BY <2>1, <2>2, Beginning
<1>3. TransferOK(p)'  BY <1>1, <1>2 DEF TransferOK, tables
<1>4. ClaimingOK(p)'  BY <1>2 DEF ClaimingOK
<1>5. QED BY <1>1, <1>2, <1>3, <1>4, LinkedNoWrite

\* What CreateKeyRequest, the decisions, Mint and DeleteKey do to a request: its owner
\* stays, unless nobody had made it.  A key keeps its owner, loses it, or gets the owner
\* of its request.
LEMMA RequestsLinked ==
    ASSUME NEW p, AccountsInv, LinksInv, UNCHANGED <<exists, claimedBy, claim>>,
           \A r \in Requests : request[r].status # "none" =>
               request'[r].status # "none" /\ request'[r].owner = request[r].owner,
           \A r \in Requests : request'[r].status = "none" => request'[r].owner = request[r].owner,
           \A q \in Workers \ {p}, r \in Requests : lock[r] = q /\ request[r].status # "none" =>
               request'[r].status = request[r].status,
           \A k \in Keys : \/ key'[k].owner = key[k].owner /\ key'[k].from = key[k].from
                           \/ key'[k].owner = NoOne
                           \/ key'[k].from \in Requests /\ request'[key'[k].from].owner = key'[k].owner
    PROVE  LinksTables' /\ LinksRespected(p)
<1>1. UnmadeInv'  BY DEF LinksInv, LinksTables, UnmadeInv
<1>2. FiledInv' /\ ClaimsEndInLiveAccount' /\ ApprovedClaimMoved'
  BY DEF LinksInv, LinksTables, FiledInv, ClaimsEndInLiveAccount, ApprovedClaimMoved
<1>3. NoKeyLeftBehind'
  <2> SUFFICES ASSUME NEW k \in Keys, key'[k].owner \in Users, claimedBy[key'[k].owner] # NoOne
               PROVE  key'[k].from \in Requests /\ request'[key'[k].from].owner = key'[k].owner
    BY DEF NoKeyLeftBehind
  <2>1. CASE key'[k].owner = key[k].owner /\ key'[k].from = key[k].from
    <3>1. key[k].from \in Requests /\ request[key[k].from].owner = key[k].owner
      BY <2>1 DEF LinksInv, LinksTables, NoKeyLeftBehind
    <3>2. request[key[k].from].status # "none"
      BY <2>1, <3>1, AccountsConstants DEF LinksInv, LinksTables, UnmadeInv
    <3>3. QED BY <2>1, <3>1, <3>2
  <2>2. QED BY <2>1, AccountsConstants
<1>4. LinksRespected(p)  BY DEF LinksRespected
<1>5. QED BY <1>1, <1>2, <1>3, <1>4 DEF LinksTables

LEMMA WritesLinked ==
    ASSUME NEW p \in Workers, AccountsInv, LinksInv,
           CreateKeyRequest(p) \/ ApproveKeyRequest(p) \/ RejectKeyRequest(p) \/ Mint(p)
    PROVE  LinksInv'
<1>0. TablesOK /\ ProcInv(p) /\ TransferOK(p) /\ ClaimingOK(p)  BY DEF AccountsInv, TableInv, LinksInv
<1>1. CASE CreateKeyRequest(p)
  <2>1. PICK r \in Requests :
           /\ request[r].status = "none"
           /\ request' = [request EXCEPT ![r] = [owner |-> job[p].user, status |-> "pending", key |-> NoOne]]
    BY <1>1 DEF CreateKeyRequest
  <2>2. /\ request'[r].status = "pending"
        /\ \A s \in Requests \ {r} : request'[s] = request[s]
    BY <1>0, <2>1 DEF TablesOK
  <2>3. LinksTables' /\ LinksRespected(p)
    BY <1>1, <2>1, <2>2, RequestsLinked DEF CreateKeyRequest
  <2>4. QED BY <1>1, <2>3, LinkedEnd DEF CreateKeyRequest
<1>2. CASE ApproveKeyRequest(p) \/ RejectKeyRequest(p)
  <2>1. PICK d \in {"approve", "reject"}, status \in {"approved", "rejected"} : Decide(p, d, status)
    BY <1>2 DEF ApproveKeyRequest, RejectKeyRequest
  <2> DEFINE r == job[p].item
  <2>2. r \in Requests /\ lock[r] \in {NoOne, p}
    BY <1>0, <2>1 DEF ProcInv, JobOK, TransferOK, Decide, Signed, Free
  <2>3. /\ request'[r].status = status /\ request'[r].owner = request[r].owner
        /\ \A s \in Requests \ {r} : request'[s] = request[s]
    BY <1>0, <2>1, <2>2 DEF TablesOK, RequestRows, Decide
  <2>4. LinksTables' /\ LinksRespected(p)
    <3>1. \A q \in Workers \ {p} : lock[r] # q  BY <2>2, AccountsConstants
    <3>2. QED BY <2>1, <2>3, <3>1, RequestsLinked DEF Decide
  <2>5. QED BY <2>1, <2>4, LinkedEnd DEF Decide
<1>3. CASE Mint(p)
  <2> DEFINE r == job[p].item
  <2>1. PICK k \in Keys : /\ request' = [request EXCEPT ![r].key = k]
                          /\ key' = [key EXCEPT ![k] = [owner |-> job[p].user, state |-> "active", from |-> r]]
    BY <1>3 DEF Mint
  <2>2. \A s \in Requests : request'[s].status = request[s].status /\ request'[s].owner = request[s].owner
    BY <1>0, <2>1 DEF TablesOK, RequestRows
  <2>3. /\ key'[k].owner = job[p].user /\ key'[k].from = r
        /\ \A j \in Keys \ {k} : key'[j] = key[j]
    BY <1>0, <2>1 DEF TablesOK
  <2>4. r \in Requests /\ request[r].owner = job[p].user
    BY <1>0, <1>3 DEF Mint, ProcInv, JobOK, ClaimingOK
  <2>5. LinksTables' /\ LinksRespected(p)
    BY <1>3, <2>2, <2>3, <2>4, RequestsLinked DEF Mint
  <2>6. QED BY <1>3, <2>5, LinkedEnd DEF Mint
<1>4. QED BY <1>1, <1>2, <1>3

LEMMA ClaimingLinked ==
    ASSUME NEW p \in Workers, AccountsInv, LinksInv, LockUser(p) \/ LockRequest(p) \/ CountKeys(p)
    PROVE  LinksInv'
<1>0. ProcsOK /\ JobOK(p) /\ ClaimingOK(p)  BY DEF AccountsInv, ProcInv, LinksInv
<1>1. CASE LockUser(p)
  <2> DEFINE u == job[p].user
  <2>1. /\ u \in Users /\ u \in Rows /\ Free(u, p) /\ lock' = [lock EXCEPT ![u] = p]
        /\ Goto(p, "request") /\ UNCHANGED tables /\ pc[p] = "user"
    BY <1>0, <1>1 DEF LockUser, JobOK, Rows
  <2>2. Elsewhere(p) /\ pc'[p] = "request" /\ job'[p] = job[p]  BY <2>1, Onward DEF Places
  <2>3. lock'[u] = p  BY <1>0, <2>1 DEF ProcsOK
  <2>4. TransferOK(p)' /\ ClaimingOK(p)'
    BY <1>0, <2>1, <2>2, <2>3 DEF TransferOK, ClaimingOK, tables
  <2>5. QED BY <2>1, <2>2, <2>4, LinkedNoWrite
<1>2. CASE LockRequest(p)
  <2> DEFINE r == job[p].item
  <2>1. CASE request[r] = [owner |-> job[p].user, status |-> "approved", key |-> NoOne]
    <3>1. /\ r \in Rows /\ Free(r, p) /\ lock' = [lock EXCEPT ![r] = p] /\ job[p].user \in Rows
          /\ Goto(p, "count") /\ UNCHANGED tables /\ pc[p] = "request"
      BY <1>0, <1>2, <2>1 DEF LockRequest, JobOK, Rows
    <3>2. /\ Elsewhere(p) /\ pc'[p] = "count" /\ job'[p] = job[p]
          /\ \A row \in Rows : lock[row] = p => lock'[row] = p
      BY <3>1, Onward DEF Places
    <3>3. TransferOK(p)' /\ ClaimingOK(p)'
      BY <1>0, <2>1, <3>1, <3>2 DEF TransferOK, ClaimingOK, tables
    <3>4. QED BY <3>1, <3>2, <3>3, LinkedNoWrite
  <2>2. QED BY <1>2, <2>1, LinkedQuit DEF LockRequest
<1>3. CASE CountKeys(p)
  <2>1. CASE UnderLimit(job[p].user)
    <3>1. Goto(p, "mint") /\ UNCHANGED <<tables, lock>> /\ pc[p] = "count" /\ job[p].user \in Rows
      BY <1>0, <1>3, <2>1 DEF CountKeys, JobOK, Rows
    <3>2. Elsewhere(p) /\ pc'[p] = "mint" /\ job'[p] = job[p]  BY <3>1, Onward DEF Places
    <3>3. TransferOK(p)' /\ ClaimingOK(p)'
      BY <1>0, <3>1, <3>2 DEF TransferOK, ClaimingOK, tables
    <3>4. QED BY <3>1, <3>2, <3>3, LinkedNoWrite
  <2>2. QED BY <1>3, <2>1, LinkedQuit DEF CountKeys
<1>4. QED BY <1>1, <1>2, <1>3

LEMMA OrderLinked ==
    ASSUME NEW p \in Workers, AccountsInv, LinksInv, LockFirst(p) \/ LockSecond(p)
    PROVE  LinksInv'
<1> DEFINE u == job[p].user
           v == job[p].target
           row1 == InOrder(u, v)[1]
           row2 == InOrder(u, v)[2]
<1>0. ProcsOK /\ JobOK(p) /\ TransferOK(p)  BY DEF AccountsInv, ProcInv, LinksInv
<1>1. pc[p] \in {"first", "second"} /\ u \in Users /\ v \in Users
  BY <1>0 DEF LockFirst, LockSecond, LockInOrder, JobOK
<1>2. row1 \in Rows /\ row2 \in Rows  BY <1>1, InOrderUsers DEF Rows
<1>3. {row1, row2} = {u, v}
  <2>1. CASE u < v  BY <2>1 DEF InOrder
  <2>2. CASE ~(u < v)  BY <2>2 DEF InOrder
  <2>3. QED BY <2>1, <2>2
<1>4. CASE LockFirst(p)
  <2>1. Goto(p, "second") /\ Free(row1, p) /\ lock' = [lock EXCEPT ![row1] = p] /\ UNCHANGED tables
    BY <1>4 DEF LockFirst, LockInOrder
  <2>2. Elsewhere(p) /\ pc'[p] = "second" /\ job'[p] = job[p]  BY <1>2, <2>1, Onward DEF Places
  <2>3. lock'[row1] = p  BY <1>0, <1>2, <2>1 DEF ProcsOK
  <2>4. TransferOK(p)'
    BY <1>0, <1>1, <2>1, <2>2, <2>3 DEF TransferOK, tables
  <2>5. ClaimingOK(p)'  BY <2>2 DEF ClaimingOK
  <2>6. QED BY <2>1, <2>2, <2>4, <2>5, LinkedNoWrite
<1>5. CASE LockSecond(p)
  <2>1. /\ Goto(p, "check") /\ Free(row2, p) /\ lock' = [lock EXCEPT ![row2] = p]
        /\ UNCHANGED tables /\ pc[p] = "second"
    BY <1>5 DEF LockSecond, LockInOrder
  <2>2. /\ Elsewhere(p) /\ pc'[p] = "check" /\ job'[p] = job[p]
        /\ \A row \in Rows : lock[row] = p => lock'[row] = p
    BY <1>2, <2>1, Onward DEF Places
  <2>3. lock'[row1] = p /\ lock'[row2] = p  BY <1>0, <1>2, <2>1, <2>2 DEF ProcsOK, TransferOK
  <2>4. lock'[u] = p /\ lock'[v] = p  BY <1>3, <2>3
  <2>5. TransferOK(p)'  BY <1>0, <2>1, <2>2, <2>4 DEF TransferOK, tables
  <2>6. ClaimingOK(p)'  BY <2>2 DEF ClaimingOK
  <2>7. QED BY <2>1, <2>2, <2>5, <2>6, LinkedNoWrite
<1>6. QED BY <1>4, <1>5

LEMMA FiledLinked ==
    ASSUME TablesOK, FiledInv, ApprovedClaimMoved, UNCHANGED claimedBy,
           NEW u \in Users, NEW v \in Users, u # v,
           UNCHANGED claim \/ \E c \in FreeClaims : Filed(u, v, c)
    PROVE  /\ FiledInv' /\ ApprovedClaimMoved'
           /\ \A c \in Claims : claim[c].status # "none" => claim'[c] = claim[c]
<1>1. CASE UNCHANGED claim  BY <1>1 DEF FiledInv, ApprovedClaimMoved
<1>2. CASE \E c \in FreeClaims : Filed(u, v, c)
  <2>1. PICK c \in FreeClaims : Filed(u, v, c)  BY <1>2
  <2>2. /\ c \in Claims /\ claim[c].status = "none"
        /\ claim'[c] = [by |-> u, target |-> v, status |-> "pending"]
        /\ \A d \in Claims \ {c} : claim'[d] = claim[d]
    BY <2>1 DEF FreeClaims, Filed, TablesOK
  <2>3. QED BY <2>2 DEF FiledInv, ApprovedClaimMoved
<1>3. QED BY <1>1, <1>2

\* A transfer that stops.
LEMMA ReturnLinked ==
    ASSUME NEW p \in Workers, AccountsInv, LinksInv, Return(p), UNCHANGED <<claimedBy, key, request>>,
           FiledInv', ApprovedClaimMoved',
           \A c \in Claims : claim[c].status # "none" => claim'[c] = claim[c]
    PROVE  LinksInv'
<1>1. \A u \in Users : exists[u] => exists'[u]  BY DEF AccountsInv, TableInv, TablesOK, Return
<1>2. LinksTables'  BY DEF LinksInv, LinksTables, UnmadeInv, ClaimsEndInLiveAccount, NoKeyLeftBehind
<1>3. LinksRespected(p)  BY <1>1 DEF LinksRespected
<1>4. QED BY <1>2, <1>3, LinkedEnd DEF Return

LEMMA CheckLinked ==
    ASSUME NEW p \in Workers, AccountsInv, LinksInv, CheckProof(p) \/ CheckClaimer(p)
    PROVE  LinksInv'
<1> DEFINE u == job[p].user
           v == job[p].target
           k == job[p].item
<1>0. TablesOK /\ ProcsOK /\ JobOK(p) /\ TransferOK(p) /\ FiledInv /\ ApprovedClaimMoved
  BY DEF AccountsInv, TableInv, ProcInv, LinksInv, LinksTables
<1>1. pc[p] = "check" /\ u \in Users /\ v \in Users /\ u \in Rows /\ v \in Rows /\ u # v
  BY <1>0 DEF CheckProof, CheckClaimer, JobOK, TransferOK, Rows
<1>2. CASE /\ Goto(p, "move") /\ UNCHANGED tables /\ ClaimerIsLive(p)
           /\ UNCHANGED lock \/ (k \in Keys /\ Free(k, p) /\ lock' = [lock EXCEPT ![k] = p])
  <2>1. UNCHANGED lock \/ \E row \in Rows : Free(row, p) /\ lock' = [lock EXCEPT ![row] = p]
    BY <1>2 DEF Rows
  <2>2. /\ Elsewhere(p) /\ pc'[p] = "move" /\ job'[p] = job[p]
        /\ \A row \in Rows : lock[row] = p => lock'[row] = p
    BY <1>2, <2>1, Onward DEF Places
  <2>3. claimedBy'[u] = NoOne /\ claim' = claim  BY <1>2 DEF ClaimerIsLive, tables
  <2>4. TransferOK(p)'  BY <1>0, <1>1, <2>2, <2>3 DEF TransferOK
  <2>5. ClaimingOK(p)'  BY <2>2 DEF ClaimingOK
  <2>6. QED BY <1>2, <2>2, <2>4, <2>5, LinkedNoWrite
<1>3. CASE /\ Return(p) /\ UNCHANGED <<claimedBy, key, request>>
           /\ UNCHANGED claim \/ \E c \in FreeClaims : Filed(u, v, c)
  BY <1>0, <1>1, <1>3, FiledLinked, ReturnLinked
<1>4. CASE CheckProof(p)
  <2>1. CASE ClaimerIsLive(p) /\ key[k].owner = v /\ key[k].state = "active"
    BY <1>2, <1>4, <2>1 DEF CheckProof
  <2>2. CASE ~(ClaimerIsLive(p) /\ key[k].owner = v /\ key[k].state = "active")
    BY <1>3, <1>4, <2>2 DEF CheckProof
  <2>3. QED BY <2>1, <2>2
<1>5. CASE CheckClaimer(p)
  <2>1. CASE ClaimerIsLive(p)
    <3>1. Goto(p, "move") /\ UNCHANGED tables /\ UNCHANGED lock  BY <1>5, <2>1 DEF CheckClaimer, tables
    <3>2. QED BY <1>2, <2>1, <3>1
  <2>2. CASE ~ClaimerIsLive(p)  BY <1>3, <1>5, <2>2 DEF CheckClaimer
  <2>3. QED BY <2>1, <2>2
<1>6. QED BY <1>4, <1>5

LEMMA MoveLinked == ASSUME NEW p \in Workers, AccountsInv, LinksInv, MoveRows(p)  PROVE LinksInv'
<1> DEFINE v == job[p].target
<1>0. /\ ProcsOK /\ JobOK(p) /\ TransferOK(p) /\ LinksTables /\ pc[p] = "move"
      /\ job[p].user \in Rows /\ v \in Rows
  BY DEF AccountsInv, ProcInv, JobOK, LinksInv, MoveRows, Rows
<1>1. CASE Claimable(v)
  <2>1. /\ \A row \in RowsOf(v) : Free(row, p)
        /\ lock' = [row \in Rows |-> IF row \in RowsOf(v) THEN p ELSE lock[row]]
        /\ Goto(p, "stamp") /\ UNCHANGED tables
    BY <1>1 DEF MoveRows, tables
  <2>2. /\ pc'[p] = "stamp" /\ job'[p] = job[p]
        /\ \A q \in Workers \ {p} : pc'[q] = pc[q] /\ job'[q] = job[q]
    BY <1>0, <2>1, Goes DEF Places
  <2>3. \A q \in Workers, s \in Rows : lock[s] = q => lock'[s] = q
    BY <2>1, AccountsConstants DEF Free
  <2>4. Elsewhere(p)  BY <2>2, <2>3 DEF Elsewhere
  <2>5. claimedBy' = claimedBy /\ claim' = claim  BY <2>1 DEF tables
  <2>6. TransferOK(p)'  BY <1>0, <2>2, <2>3, <2>5 DEF TransferOK
  <2>7. ClaimingOK(p)'  BY <2>2 DEF ClaimingOK
  <2>8. QED BY <2>1, <2>4, <2>6, <2>7, LinkedNoWrite
<1>2. CASE ~Claimable(v)
  <2>1. Return(p) /\ UNCHANGED <<claimedBy, key, request, claim>>  BY <1>2 DEF MoveRows
  <2>2. FiledInv' /\ ApprovedClaimMoved'
    BY <1>0, <2>1 DEF LinksTables, FiledInv, ApprovedClaimMoved
  <2>3. QED BY <2>1, <2>2, ReturnLinked
<1>3. QED BY <1>1, <1>2

LEMMA TransferLinked ==
    ASSUME NEW p \in Workers, AccountsInv, LinksInv, Transfer(p)
    PROVE  LinksInv'
<1> DEFINE u == job[p].user
           v == job[p].target
           i == job[p].item
<1>0. /\ TablesOK /\ ProcsOK /\ JobOK(p) /\ TransferOK(p) /\ LinksTables
      /\ pc[p] \in {"move", "stamp"} /\ Return(p) /\ \A row \in RowsOf(v) : Free(row, p)
  BY DEF AccountsInv, TableInv, ProcInv, LinksInv, Transfer
<1>1. /\ u \in Users /\ v \in Users /\ u # v /\ claimedBy[u] = NoOne
      /\ lock[u] = p /\ lock[v] = p
      /\ i \in Claims => claim[i].status # "none" /\ claim[i].by = u /\ claim[i].target = v
  BY <1>0 DEF JobOK, TransferOK
<1>2. CASE Claimable(v)
  <2>1. /\ claimedBy' = [claimedBy EXCEPT ![v] = u]
        /\ request' = [r \in Requests |-> Repoint(request[r], u, v)]
        /\ claim' = [c \in Claims |-> [claim[c] EXCEPT !.status = IF c = i THEN "approved" ELSE @]]
    BY <1>2 DEF Transfer
  <2>2. /\ claimedBy[v] = NoOne /\ claimedBy'[v] = u /\ claimedBy'[u] = NoOne
        /\ \A w \in Users \ {v} : claimedBy'[w] = claimedBy[w]
    BY <1>0, <1>1, <1>2, <2>1 DEF Claimable, TablesOK
  <2>3. \A c \in Claims : /\ claim'[c].by = claim[c].by /\ claim'[c].target = claim[c].target
                          /\ claim'[c].status = IF c = i THEN "approved" ELSE claim[c].status
    BY <1>0, <2>1 DEF TablesOK, ClaimRows
  <2>4. \A r \in Requests : /\ request'[r].status = request[r].status
                            /\ request'[r].owner = IF request[r].owner = v THEN u ELSE request[r].owner
    BY <1>0, <2>1 DEF TablesOK, RequestRows, Repoint
  <2>11. \A k \in Keys : /\ key'[k].from = key[k].from
                          /\ key'[k].owner = IF key[k].owner = v THEN u ELSE key[k].owner
    BY <1>0, <1>2 DEF Transfer, TablesOK, KeyRows, Repoint
  <2>12. NoKeyLeftBehind'
    <3> SUFFICES ASSUME NEW k \in Keys, key'[k].owner \in Users, claimedBy'[key'[k].owner] # NoOne
                 PROVE  key'[k].from \in Requests /\ request'[key'[k].from].owner = key'[k].owner
      BY DEF NoKeyLeftBehind
    <3>1. key[k].owner # v /\ key'[k].owner = key[k].owner  BY <2>2, <2>11
    <3>2. claimedBy[key[k].owner] # NoOne  BY <2>2, <3>1
    <3>3. key[k].from \in Requests /\ request[key[k].from].owner = key[k].owner
      BY <1>0, <3>1, <3>2 DEF LinksTables, NoKeyLeftBehind
    <3>4. QED BY <2>4, <2>11, <3>1, <3>3
  <2>5. FiledInv'  BY <1>0, <1>1, <2>3 DEF LinksTables, FiledInv
  <2>6. UnmadeInv'  BY <1>0, <1>1, <2>4, AccountsConstants DEF LinksTables, UnmadeInv
  <2>7. ClaimsEndInLiveAccount'
    <3> SUFFICES ASSUME NEW S \in SUBSET {w \in Users : claimedBy'[w] # NoOne}, S # {}
                 PROVE  \E w \in S : claimedBy'[w] \notin S
      BY DEF ClaimsEndInLiveAccount
    <3>0. \A w \in S : w \in Users /\ claimedBy'[w] # NoOne  OBVIOUS
    <3>1. CASE v \in S
      <4>1. u \notin S  BY <2>2, <3>0
      <4>2. claimedBy'[v] \notin S  BY <2>2, <4>1
      <4>3. QED BY <3>1, <4>2
    <3>2. CASE v \notin S
      <4>1. \A w \in S : w \in Users /\ claimedBy'[w] = claimedBy[w]  BY <2>2, <3>2
      <4>2. S \in SUBSET {w \in Users : claimedBy[w] # NoOne}  BY <4>1
      <4>3. QED BY <1>0, <4>1, <4>2 DEF LinksTables, ClaimsEndInLiveAccount
    <3>3. QED BY <3>1, <3>2
  <2>8. ApprovedClaimMoved'
    <3> SUFFICES ASSUME NEW c \in Claims, claim'[c].status = "approved"
                 PROVE  claimedBy'[claim'[c].target] = claim'[c].by
      BY DEF ApprovedClaimMoved
    <3>1. CASE c = i  BY <1>1, <2>2, <2>3, <3>1
    <3>2. CASE c # i
      <4>1. claim[c].status = "approved" /\ claimedBy[claim[c].target] = claim[c].by
        BY <1>0, <2>3, <3>2 DEF LinksTables, ApprovedClaimMoved
      <4>2. claim[c].by \in Users /\ claim[c].target \in Users
        BY <1>0, <4>1 DEF LinksTables, FiledInv
      <4>3. claim[c].target # v  BY <2>2, <4>1, <4>2, AccountsConstants
      <4>4. QED BY <2>2, <2>3, <4>1, <4>2, <4>3
    <3>3. QED BY <3>1, <3>2
  <2>9. LinksRespected(p)
    <3>1. \A w \in Users : exists[w] => exists'[w]  BY <1>0 DEF TablesOK, Return
    <3>2. \A c \in Claims : claim[c].status # "none" => claim'[c].status # "none"  BY <2>3
    <3>3. \A q \in Workers \ {p}, w \in Users : lock[w] = q => claimedBy'[w] = claimedBy[w]
      BY <1>1, <2>2
    <3>4. \A q \in Workers \ {p}, r \in Requests : lock[r] = q => request[r].owner # v
      BY <1>0, AccountsConstants DEF RowsOf, Free
    <3>5. QED BY <2>3, <2>4, <3>1, <3>2, <3>3, <3>4 DEF LinksRespected
  <2>10. QED BY <1>0, <2>5, <2>6, <2>7, <2>8, <2>9, <2>12, LinkedEnd DEF Return, LinksTables
<1>3. CASE ~Claimable(v)
  <2>1. UNCHANGED <<claimedBy, key, request, claim>>  BY <1>3 DEF Transfer
  <2>2. FiledInv' /\ ApprovedClaimMoved'
    BY <1>0, <2>1 DEF LinksTables, FiledInv, ApprovedClaimMoved
  <2>3. QED BY <1>0, <2>1, <2>2, ReturnLinked
<1>4. QED BY <1>2, <1>3

LEMMA RefusedLinked ==
    ASSUME NEW p, AccountsInv, LinksInv, NEW c \in Claims, claim[c].status # "none",
           claim' = [claim EXCEPT ![c].status = "rejected"], UNCHANGED <<exists, claimedBy, key, request>>
    PROVE  LinksTables' /\ LinksRespected(p)
<1>1. /\ claim'[c].status = "rejected" /\ claim'[c].by = claim[c].by /\ claim'[c].target = claim[c].target
      /\ \A d \in Claims \ {c} : claim'[d] = claim[d]
  BY RefusedTyped DEF AccountsInv, TableInv
<1>2. LinksTables'
  BY <1>1
  DEF LinksInv, LinksTables, FiledInv, UnmadeInv, ClaimsEndInLiveAccount, ApprovedClaimMoved, NoKeyLeftBehind
<1>3. LinksRespected(p)  BY <1>1 DEF LinksRespected
<1>4. QED BY <1>2, <1>3

LEMMA RefusedByLinked ==
    ASSUME NEW p \in Workers, AccountsInv, LinksInv, RejectGithubClaim(p)  PROVE LinksInv'
<1>1. job[p].item \in Claims /\ claim[job[p].item].status # "none"
  BY DEF AccountsInv, ProcInv, JobOK, LinksInv, TransferOK, RejectGithubClaim
<1>2. LinksTables' /\ LinksRespected(p)  BY <1>1, RefusedLinked DEF RejectGithubClaim
<1>3. QED BY <1>2, LinkedEnd DEF RejectGithubClaim

LEMMA RowsLinked ==
    ASSUME AccountsInv, LinksInv, RowNext
    PROVE  LinksInv'
<1>0. TablesOK /\ LinksTables  BY DEF AccountsInv, TableInv, LinksInv
<1>1. ASSUME NEW k \in Keys, DeleteKey(k)  PROVE LinksInv'
  <2>1. \A r \in Requests : request'[r].status = request[r].status /\ request'[r].owner = request[r].owner
    BY <1>0, <1>1 DEF DeleteKey, TablesOK, RequestRows
  <2>2. \A j \in Keys : \/ key'[j].owner = key[j].owner /\ key'[j].from = key[j].from
                        \/ key'[j].owner = NoOne
    BY <1>0, <1>1 DEF DeleteKey, TablesOK, KeyRows
  <2>3. LinksTables' /\ LinksRespected(NoOne)  BY <1>1, <2>1, <2>2, RequestsLinked DEF DeleteKey
  <2>4. QED BY <1>1, <2>3, LinkedStatement DEF DeleteKey
<1>2. ASSUME NEW k \in Keys, NEW revoked \in BOOLEAN, SetRevoked(k, revoked)  PROVE LinksInv'
  <2>1. \A j \in Keys : key'[j].owner = key[j].owner /\ key'[j].from = key[j].from
    BY <1>0, <1>2 DEF SetRevoked, TablesOK, KeyRows
  <2>2. LinksTables' /\ LinksRespected(NoOne)  BY <1>2, <2>1, RequestsLinked DEF SetRevoked
  <2>3. QED BY <1>2, <2>2, LinkedStatement DEF SetRevoked
<1>3. ASSUME NEW u \in Users, FirstSignIn(u)  PROVE LinksInv'
  <2>1. \A w \in Users : exists[w] => exists'[w]  BY <1>0, <1>3 DEF FirstSignIn, TablesOK
  <2>2. LinksTables'
    BY <1>0, <1>3
    DEF FirstSignIn, LinksTables, FiledInv, UnmadeInv, ClaimsEndInLiveAccount, ApprovedClaimMoved, NoKeyLeftBehind
  <2>3. LinksRespected(NoOne)  BY <1>3, <2>1 DEF FirstSignIn, LinksRespected
  <2>4. QED BY <1>3, <2>2, <2>3, LinkedStatement DEF FirstSignIn
<1>4. ASSUME NEW u \in Users, NEW v \in Users, FileReviewClaim(u, v)  PROVE LinksInv'
  <2>1. /\ FiledInv' /\ ApprovedClaimMoved'
        /\ \A c \in Claims : claim[c].status # "none" => claim'[c] = claim[c]
    BY <1>0, <1>4, FiledLinked DEF FileReviewClaim, LinksTables
  <2>2. LinksTables'
    BY <1>0, <1>4, <2>1 DEF FileReviewClaim, LinksTables, UnmadeInv, ClaimsEndInLiveAccount, NoKeyLeftBehind
  <2>3. LinksRespected(NoOne)  BY <1>4, <2>1 DEF FileReviewClaim, LinksRespected
  <2>4. QED BY <1>4, <2>2, <2>3, LinkedStatement DEF FileReviewClaim
<1>5. ASSUME NEW c \in Claims, RejectByToken(c)  PROVE LinksInv'
  <2>1. LinksTables' /\ LinksRespected(NoOne)
    BY <1>5, RefusedLinked DEF RejectByToken
  <2>2. QED BY <1>5, <2>1, LinkedStatement DEF RejectByToken
<1>6. QED BY <1>1, <1>2, <1>3, <1>4, <1>5 DEF RowNext, UserKeyUpdate, GoUserKeyUpdate, AdminKeyUpdate

LEMMA LinksNext == AccountsInv /\ LinksInv /\ [Next]_vars => LinksInv'
<1> SUFFICES ASSUME AccountsInv, LinksInv, [Next]_vars  PROVE LinksInv'
  OBVIOUS
<1>1. ASSUME NEW p \in Workers, KeyNext(p)  PROVE LinksInv'
  BY <1>1, AskLinked, KeyBeginsLinked, ReviewLinked, SignLinked, WritesLinked, ClaimingLinked DEF KeyNext
<1>2. ASSUME NEW p \in Workers, TransferNext(p)  PROVE LinksInv'
  BY <1>2, TransferBeginsLinked, ApprovalBeginsLinked, OrderLinked, CheckLinked, MoveLinked, TransferLinked,
     RefusalLinked, RefusedByLinked
  DEF TransferNext
<1>3. ASSUME NEW p \in Workers, Abort(p)  PROVE LinksInv'
  BY <1>3, LinkedQuit DEF Abort
<1>4. CASE RowNext  BY <1>4, RowsLinked
<1>5. CASE UNCHANGED vars
  <2>1. UNCHANGED <<tables, lock, pc, job>>  BY <1>5 DEF vars, tables
  <2>2. LinksTables' /\ LinksRespected(NoOne)  BY <2>1, SameLinks DEF LinksInv
  <2>3. QED BY <2>1, <2>2, LinkedStatement
<1>6. QED BY <1>1, <1>2, <1>3, <1>4, <1>5 DEF Next
-----------------------------------------------------------------------------
(* The lock order: which rows a process may hold, and which rows it knows to be there. *)

Low(p) == InOrder(job[p].user, job[p].target)[1]
High(p) == InOrder(job[p].user, job[p].target)[2]

\* A process holds no row but those its place has locked, or the account it inserted.
HeldOK(p) ==
    \A row \in Rows : lock[row] = p =>
        \/ row = job[p].user /\ pc[p] \in {"request", "count", "mint", "first", "second", "check", "move", "stamp"}
        \/ row = job[p].item /\ row \in Requests \cup Keys /\ pc[p] \in {"count", "mint", "move"}
        \/ row = job[p].item /\ job[p].admin # NoOne /\ pc[p] \in {"approve", "reject", "refuse", "stamp"}
        \/ row = job[p].target /\ pc[p] \in {"check", "move", "stamp"}
        \/ row = Low(p) /\ pc[p] = "second"
        \/ row \in Requests \cup Keys /\ pc[p] = "stamp"

\* An account held before the lock order asks for it is one nobody else can see.
InsertOK(p) ==
    /\ pc[p] = "first" /\ lock[job[p].user] = p => ~exists[job[p].user]
    /\ pc[p] = "second" /\ lock[job[p].user] = p => job[p].user = Low(p) \/ ~exists[job[p].user]

\* Whatever account a process names is there, unless the process inserted it.
KnownOK(p) ==
    /\ pc[p] \in {"ask", "user"} => exists[job[p].user]
    /\ pc[p] \in {"first", "second", "check", "move", "stamp"} =>
          exists[job[p].target] /\ (exists[job[p].user] \/ lock[job[p].user] = p)

OrderOK(p) == HeldOK(p) /\ InsertOK(p) /\ KnownOK(p)
NamedInv == \A c \in Claims : claim[c].status # "none" => exists[claim[c].target]
OrderInv == NamedInv /\ \A p \in Workers : OrderOK(p)

\* A step of p takes no lock for others, and shows no account that another holds.
Untaken(p) == \A q \in Workers \ {p}, row \in Rows : lock'[row] = q => lock[row] = q
AccountsSeen(p) ==
    /\ \A u \in Users : exists[u] => exists'[u]
    /\ \A q \in Workers \ {p}, u \in Users : lock[u] = q /\ exists'[u] => exists[u]

LEMMA OthersOrdered ==
    ASSUME NEW p, AccountsInv, OrderInv, Elsewhere(p), Untaken(p), AccountsSeen(p)
    PROVE  \A q \in Workers \ {p} : OrderOK(q)'
<1> SUFFICES ASSUME NEW q \in Workers \ {p}  PROVE OrderOK(q)'
  OBVIOUS
<1>1. /\ pc'[q] = pc[q] /\ job'[q] = job[q] /\ JobOK(q) /\ HeldOK(q) /\ InsertOK(q) /\ KnownOK(q)
      /\ \A row \in Rows : lock[row] = q <=> lock'[row] = q
  BY DEF Elsewhere, Untaken, AccountsInv, ProcInv, OrderInv, OrderOK
<1>2. HeldOK(q)'  BY <1>1 DEF HeldOK, Low
<1>3. /\ pc[q] \in {"ask", "user", "first", "second", "check", "move", "stamp"} =>
            job[q].user \in Users /\ job[q].user \in Rows
      /\ pc[q] \in {"first", "second", "check", "move", "stamp"} => job[q].target \in Users
  BY <1>1 DEF JobOK, Rows
<1>4. InsertOK(q)'  BY <1>1, <1>3 DEF InsertOK, Low, AccountsSeen
<1>5. KnownOK(q)'  BY <1>1, <1>3 DEF KnownOK, AccountsSeen
<1>6. QED BY <1>2, <1>4, <1>5 DEF OrderOK

LEMMA OrderInit == Init => OrderInv
<1> SUFFICES ASSUME Init  PROVE OrderInv
  OBVIOUS
<1>1. NamedInv
  <2>1. CASE claim = [c \in Claims |-> [by |-> NoOne, target |-> NoOne, status |-> "none"]]
    BY <2>1 DEF NamedInv
  <2>2. CASE \E c \in Claims, g \in Github, u \in Users \ Github :
                claim = [d \in Claims |-> IF d = c THEN [by |-> g, target |-> u, status |-> "pending"]
                                          ELSE [by |-> NoOne, target |-> NoOne, status |-> "none"]]
    <3>1. PICK c \in Claims, g \in Github, u \in Users \ Github :
             claim = [d \in Claims |-> IF d = c THEN [by |-> g, target |-> u, status |-> "pending"]
                                       ELSE [by |-> NoOne, target |-> NoOne, status |-> "none"]]
      BY <2>2
    <3>2. \A d \in Claims : claim[d].status # "none" => claim[d].target = u  BY <3>1
    <3>3. exists[u]  BY DEF Init
    <3>4. QED BY <3>2, <3>3 DEF NamedInv
  <2>3. QED BY <2>1, <2>2 DEF Init
<1>2. ASSUME NEW p \in Workers  PROVE OrderOK(p)
  <2>1. pc[p] = "idle" /\ \A row \in Rows : lock[row] # p  BY AccountsConstants DEF Init
  <2>2. QED BY <2>1 DEF OrderOK, HeldOK, InsertOK, KnownOK
<1>3. QED BY <1>1, <1>2 DEF OrderInv

LEMMA SameAccounts ==
    ASSUME OrderInv, UNCHANGED <<exists, claim>>  PROVE NamedInv' /\ \A p : AccountsSeen(p)
  BY DEF OrderInv, NamedInv, AccountsSeen

LEMMA OrderedNoWrite ==
    ASSUME NEW p \in Workers, AccountsInv, OrderInv, UNCHANGED <<exists, claim>>,
           Elsewhere(p), Untaken(p), OrderOK(p)'
    PROVE  OrderInv'
<1>1. NamedInv' /\ AccountsSeen(p)  BY SameAccounts
<1>2. \A q \in Workers \ {p} : OrderOK(q)'  BY <1>1, OthersOrdered
<1>3. QED BY <1>1, <1>2 DEF OrderInv

LEMMA OrderedEnd ==
    ASSUME NEW p \in Workers, AccountsInv, OrderInv, End(p), NamedInv', AccountsSeen(p)  PROVE OrderInv'
<1>1. Elsewhere(p)  BY Ends DEF AccountsInv
<1>2. pc'[p] = "idle" /\ Untaken(p) /\ \A row \in Rows : lock'[row] # p
  BY AccountsConstants DEF AccountsInv, ProcsOK, End, Untaken
<1>3. OrderOK(p)'  BY <1>2 DEF OrderOK, HeldOK, InsertOK, KnownOK
<1>4. \A q \in Workers \ {p} : OrderOK(q)'  BY <1>1, <1>2, OthersOrdered
<1>5. QED BY <1>3, <1>4 DEF OrderInv

LEMMA OrderedQuit ==
    ASSUME NEW p \in Workers, AccountsInv, OrderInv, End(p), UNCHANGED <<exists, claim>>  PROVE OrderInv'
  BY OrderedEnd, SameAccounts

LEMMA OrderedStatement ==
    ASSUME AccountsInv, OrderInv, UNCHANGED <<lock, pc, job>>, NamedInv', AccountsSeen(NoOne)
    PROVE  OrderInv'
<1>1. Elsewhere(NoOne) /\ Untaken(NoOne)  BY DEF Elsewhere, Untaken
<1>2. \A q \in Workers \ {NoOne} : OrderOK(q)'  BY <1>1, OthersOrdered
<1>3. QED BY <1>2, AccountsConstants DEF OrderInv

\* The first step of a transaction that locks nothing: an idle process holds nothing.
LEMMA BeginsOrdered ==
    ASSUME NEW p \in Workers, AccountsInv, OrderInv, UNCHANGED <<exists, claim, lock>>,
           NEW server, NEW at, NEW u, NEW v, NEW i, Begin(p, server, at, u, v, i),
           at \in {"ask", "user"} => exists[u],
           at \in {"first", "second", "check", "move", "stamp"} => u \in Users /\ exists[u] /\ exists[v]
    PROVE  OrderInv'
<1>1. /\ Elsewhere(p) /\ pc'[p] = at
      /\ job'[p] = [server |-> server, user |-> u, target |-> v, item |-> i, admin |-> NoOne]
  BY Beginning DEF Begin, TakesOne
<1>2. Untaken(p)  BY DEF Untaken
<1>3. \A row \in Rows : lock'[row] # p  BY DEF Begin, BeginBy, OrderInv, OrderOK, HeldOK
<1>4. HeldOK(p)'  BY <1>3 DEF HeldOK
<1>5. InsertOK(p)'  BY <1>1, <1>3 DEF InsertOK, Rows
<1>6. KnownOK(p)'  BY <1>1 DEF KnownOK
<1>7. QED BY <1>1, <1>2, <1>4, <1>5, <1>6, OrderedNoWrite DEF OrderOK

\* A step between two places that locks one more row.
LEMMA OnwardOrdered ==
    ASSUME NEW p \in Workers, AccountsInv, NEW at \in Places, Goto(p, at), NEW row \in Rows, Free(row, p),
           lock' = [lock EXCEPT ![row] = p]
    PROVE  /\ Elsewhere(p) /\ Untaken(p) /\ pc'[p] = at /\ job'[p] = job[p]
           /\ \A s \in Rows : lock'[s] = p <=> lock[s] = p \/ s = row
<1>1. /\ Elsewhere(p) /\ pc'[p] = at /\ job'[p] = job[p]  BY Onward
<1>2. /\ lock'[row] = p /\ \A s \in Rows \ {row} : lock'[s] = lock[s]  BY DEF AccountsInv, ProcsOK
<1>3. QED BY <1>1, <1>2 DEF Untaken
-----------------------------------------------------------------------------
\* The first step of a Go claim or of a signed refusal, which locks its row.
LEMMA FirstRowOrdered ==
    ASSUME NEW p \in Workers, AccountsInv, OrderInv, UNCHANGED <<exists, claim>>,
           NEW server, NEW at, NEW u, NEW i \in Rows, NEW a,
           BeginBy(a, p, server, at, u, NoOne, i),
           \/ at = "count" /\ i \in Requests
           \/ at = "refuse" /\ a # NoOne,
           Free(i, p), lock' = [lock EXCEPT ![i] = p]
    PROVE  OrderInv'
<1>0. TakesOne(p)  BY DEF TakesOne
<1>1. /\ Elsewhere(p) /\ pc'[p] = at
      /\ job'[p] = [server |-> server, user |-> u, target |-> NoOne, item |-> i, admin |-> a]
  BY <1>0, Beginning
<1>2. \A s \in Rows : lock[s] # p  BY DEF BeginBy, OrderInv, OrderOK, HeldOK
<1>3. lock'[i] = p /\ \A s \in Rows \ {i} : lock'[s] = lock[s]  BY DEF AccountsInv, ProcsOK
<1>4. Untaken(p)  BY <1>3 DEF Untaken
<1>5. HeldOK(p)'  BY <1>1, <1>2, <1>3 DEF HeldOK
<1>6. InsertOK(p)' /\ KnownOK(p)'  BY <1>1 DEF InsertOK, KnownOK
<1>7. QED BY <1>1, <1>4, <1>5, <1>6, OrderedNoWrite DEF OrderOK

LEMMA SignOrdered ==
    ASSUME NEW p \in Workers, AccountsInv, OrderInv, Sign(p)  PROVE OrderInv'
<1> DEFINE i == job[p].item
<1>0. ProcsOK /\ JobOK(p) /\ OrderOK(p)  BY DEF AccountsInv, ProcInv, OrderInv
<1>1. /\ pc' = pc /\ pc[p] \in {"approve", "reject", "stamp"} /\ UNCHANGED <<exists, claim>> /\ i \in Rows
      /\ Free(i, p) /\ lock' = [lock EXCEPT ![i] = p]
      /\ job'[p].admin # NoOne /\ job'[p].user = job[p].user /\ job'[p].target = job[p].target
      /\ job'[p].item = i /\ \A q \in Workers \ {p} : job'[q] = job[q]
  BY Signs, AccountsConstants DEF tables
<1>2. lock'[i] = p /\ \A s \in Rows \ {i} : lock'[s] = lock[s]  BY <1>0, <1>1 DEF ProcsOK
<1>3. \A q \in Workers \ {p}, s \in Rows : lock[s] = q => lock'[s] = q
  BY <1>1, <1>2, AccountsConstants DEF Free
<1>4. Elsewhere(p) /\ Untaken(p)  BY <1>1, <1>2, <1>3 DEF Elsewhere, Untaken
<1>5. HeldOK(p)'
  <2> SUFFICES ASSUME NEW s \in Rows, lock'[s] = p
               PROVE  \/ s = job'[p].user /\ pc[p] = "stamp"
                      \/ s = job'[p].item
                      \/ s = job'[p].target /\ pc[p] = "stamp"
                      \/ s \in Requests \cup Keys /\ pc[p] = "stamp"
    BY <1>1 DEF HeldOK
  <2>1. CASE s = i  BY <1>1, <2>1
  <2>2. CASE s # i  BY <1>0, <1>1, <1>2, <2>2 DEF OrderOK, HeldOK
  <2>3. QED BY <2>1, <2>2
<1>6. InsertOK(p)'  BY <1>1 DEF InsertOK
<1>7. KnownOK(p)'
  <2>1. CASE pc[p] = "stamp"
    <3>1. job[p].user \in Rows  BY <1>0, <2>1 DEF JobOK, Rows
    <3>2. lock[job[p].user] = p => lock'[job[p].user] = p  BY <1>2, <3>1
    <3>3. QED BY <1>0, <1>1, <2>1, <3>2 DEF OrderOK, KnownOK
  <2>2. CASE pc[p] # "stamp"  BY <1>1, <2>2 DEF KnownOK
  <2>3. QED BY <2>1, <2>2
<1>8. QED BY <1>1, <1>4, <1>5, <1>6, <1>7, OrderedNoWrite DEF OrderOK

LEMMA KeyStepsOrdered ==
    ASSUME NEW p \in Workers, AccountsInv, OrderInv, KeyNext(p)  PROVE OrderInv'
<1>0. ProcsOK /\ JobOK(p) /\ OrderOK(p) /\ HeldOK(p)  BY DEF AccountsInv, ProcInv, OrderInv, OrderOK
<1>1. ASSUME NEW u \in Users, BeginAsk(p, u) \/ GoBeginAsk(p, u)  PROVE OrderInv'
  <2>1. Begin(p, "ts", "ask", u, NoOne, NoOne)
    BY <1>1 DEF BeginAsk, GoBeginAsk
  <2>2. exists[u] /\ UNCHANGED <<exists, claim, lock>>  BY <1>1 DEF BeginAsk, GoBeginAsk, Live, tables
  <2>3. QED BY <2>1, <2>2, BeginsOrdered
<1>2. ASSUME NEW u \in Users, NEW r \in Requests, BeginClaim(p, u, r)  PROVE OrderInv'
  <2>1. Begin(p, "ts", "user", u, NoOne, r) /\ exists[u] /\ UNCHANGED <<exists, claim, lock>>
    BY <1>2 DEF BeginClaim, Live, tables
  <2>2. QED BY <2>1, BeginsOrdered
<1>3. ASSUME NEW u \in Users, NEW r \in Requests, GoBeginClaim(p, u, r)  PROVE OrderInv'
  <2>1. /\ BeginBy(NoOne, p, "go", "count", u, NoOne, r) /\ UNCHANGED <<exists, claim>>
        /\ r \in Rows /\ Free(r, p) /\ lock' = [lock EXCEPT ![r] = p]
    BY <1>3 DEF GoBeginClaim, Begin, Rows, tables
  <2>2. QED BY <2>1, FirstRowOrdered
<1>4. ASSUME NEW r \in Requests, BeginReview(p, r)  PROVE OrderInv'
  <2>1. PICK d \in {"approve", "reject"} : Begin(p, "ts", d, NoOne, NoOne, r)  BY <1>4 DEF BeginReview
  <2>2. UNCHANGED <<exists, claim, lock>>  BY <1>4 DEF BeginReview, tables
  <2>3. QED BY <2>1, <2>2, BeginsOrdered
<1>10. CASE Sign(p)  BY <1>10, SignOrdered
<1>5. CASE CreateKeyRequest(p) \/ ApproveKeyRequest(p) \/ RejectKeyRequest(p) \/ Mint(p)
  BY <1>5, OrderedQuit DEF CreateKeyRequest, ApproveKeyRequest, RejectKeyRequest, Decide, Mint
<1>6. CASE LockUser(p)
  <2> DEFINE u == job[p].user
  <2>1. /\ u \in Rows /\ Free(u, p) /\ lock' = [lock EXCEPT ![u] = p] /\ Goto(p, "request")
        /\ UNCHANGED <<exists, claim>> /\ pc[p] = "user"
    BY <1>0, <1>6 DEF LockUser, JobOK, Rows, tables
  <2>2. /\ Elsewhere(p) /\ Untaken(p) /\ pc'[p] = "request" /\ job'[p] = job[p]
        /\ \A s \in Rows : lock'[s] = p <=> lock[s] = p \/ s = u
    <3> HIDE DEF u
    <3> QED BY <2>1, OnwardOrdered DEF Places
  <2>3. OrderOK(p)'  BY <1>0, <2>1, <2>2 DEF OrderOK, HeldOK, InsertOK, KnownOK
  <2>4. QED BY <2>1, <2>2, <2>3, OrderedNoWrite
<1>7. CASE LockRequest(p)
  <2> DEFINE r == job[p].item
  <2>1. CASE request[r] = [owner |-> job[p].user, status |-> "approved", key |-> NoOne]
    <3>1. /\ r \in Rows /\ Free(r, p) /\ lock' = [lock EXCEPT ![r] = p] /\ Goto(p, "count")
          /\ UNCHANGED <<exists, claim>> /\ pc[p] = "request"
      BY <1>0, <1>7, <2>1 DEF LockRequest, JobOK, Rows, tables
    <3>2. /\ Elsewhere(p) /\ Untaken(p) /\ pc'[p] = "count" /\ job'[p] = job[p]
          /\ \A s \in Rows : lock'[s] = p <=> lock[s] = p \/ s = r
      <4> HIDE DEF r
      <4> QED BY <3>1, OnwardOrdered DEF Places
    <3>5. r \in Requests  BY <1>0, <3>1 DEF JobOK
    <3>3. OrderOK(p)'  BY <1>0, <3>1, <3>2, <3>5 DEF OrderOK, HeldOK, InsertOK, KnownOK
    <3>4. QED BY <3>1, <3>2, <3>3, OrderedNoWrite
  <2>2. QED BY <1>7, <2>1, OrderedQuit DEF LockRequest, tables
<1>8. CASE CountKeys(p)
  <2>1. CASE UnderLimit(job[p].user)
    <3>1. Goto(p, "mint") /\ UNCHANGED lock /\ UNCHANGED <<exists, claim>> /\ pc[p] = "count"
      BY <1>8, <2>1 DEF CountKeys, tables
    <3>2. Elsewhere(p) /\ pc'[p] = "mint" /\ job'[p] = job[p]  BY <3>1, Onward DEF Places
    <3>3. Untaken(p)  BY <3>1 DEF Untaken
    <3>4. OrderOK(p)'  BY <1>0, <3>1, <3>2 DEF OrderOK, HeldOK, InsertOK, KnownOK
    <3>5. QED BY <3>1, <3>2, <3>3, <3>4, OrderedNoWrite
  <2>2. QED BY <1>8, <2>1, OrderedQuit DEF CountKeys, tables
<1>9. QED BY <1>1, <1>2, <1>3, <1>4, <1>5, <1>6, <1>7, <1>8, <1>10 DEF KeyNext

LEMMA ApprovalOrdered ==
    ASSUME NEW p \in Workers, AccountsInv, OrderInv, NEW c \in Claims, BeginApproval(p, c)
    PROVE  OrderInv'
<1> DEFINE u == claim[c].by
           v == claim[c].target
<1>1. /\ u \in Users /\ v \in Users /\ u \in Rows /\ exists[v] /\ Free(u, p)
      /\ Begin(p, "ts", "first", u, v, c) /\ UNCHANGED <<exists, claim>>
      /\ BeginBy(NoOne, p, "ts", "first", u, v, c)
  BY DEF Begin, BeginApproval, AccountsInv, TableInv, ClaimInv, OrderInv, NamedInv, Rows, tables
<1>2. CASE exists[u]
  <2>1. UNCHANGED lock  BY <1>2 DEF BeginApproval
  <2>2. QED BY <1>1, <1>2, <2>1, BeginsOrdered
<1>3. CASE ~exists[u]
  <2>1. lock' = [lock EXCEPT ![u] = p]  BY <1>3 DEF BeginApproval
  <2>2. /\ Elsewhere(p) /\ pc'[p] = "first"
        /\ job'[p] = [server |-> "ts", user |-> u, target |-> v, item |-> c, admin |-> NoOne]
    <3>1. TakesOne(p)  BY <1>1, <2>1 DEF TakesOne
    <3>2. QED BY <1>1, <3>1, Beginning
  <2>3. \A s \in Rows : lock[s] # p  BY <1>1 DEF BeginBy, OrderInv, OrderOK, HeldOK
  <2>4. lock'[u] = p /\ \A s \in Rows \ {u} : lock'[s] = lock[s]
    BY <1>1, <2>1 DEF AccountsInv, ProcsOK
  <2>5. Untaken(p)  BY <2>4 DEF Untaken
  <2>6. OrderOK(p)'
    <3>1. HeldOK(p)'  BY <2>2, <2>3, <2>4 DEF HeldOK
    <3>2. InsertOK(p)' /\ KnownOK(p)'  BY <1>1, <1>3, <2>2, <2>4 DEF InsertOK, KnownOK
    <3>3. QED BY <3>1, <3>2 DEF OrderOK
  <2>7. QED BY <1>1, <2>2, <2>5, <2>6, OrderedNoWrite
<1>4. QED BY <1>2, <1>3

LEMMA LocksOrdered ==
    ASSUME NEW p \in Workers, AccountsInv, OrderInv, LockFirst(p) \/ LockSecond(p)
    PROVE  OrderInv'
<1>0. ProcsOK /\ JobOK(p) /\ HeldOK(p) /\ InsertOK(p) /\ KnownOK(p)
  BY DEF AccountsInv, ProcInv, OrderInv, OrderOK
<1>1. /\ pc[p] \in {"first", "second"} /\ job[p].user \in Users /\ job[p].target \in Users
      /\ job[p].user \in Rows
  BY <1>0 DEF LockFirst, LockSecond, LockInOrder, JobOK, Rows
<1>2. Low(p) \in Rows /\ High(p) \in Rows  BY <1>1, InOrderUsers DEF Rows, Low, High
<1>3. {Low(p), High(p)} = {job[p].user, job[p].target}
  <2>1. CASE job[p].user < job[p].target  BY <2>1 DEF InOrder, Low, High
  <2>2. CASE ~(job[p].user < job[p].target)  BY <2>2 DEF InOrder, Low, High
  <2>3. QED BY <2>1, <2>2
<1>4. CASE LockFirst(p)
  <2>1. /\ Free(Low(p), p) /\ lock' = [lock EXCEPT ![Low(p)] = p] /\ Goto(p, "second")
        /\ UNCHANGED <<exists, claim>> /\ pc[p] = "first"
    BY <1>4 DEF LockFirst, LockInOrder, Low, tables
  <2>2. /\ Elsewhere(p) /\ Untaken(p) /\ pc'[p] = "second" /\ job'[p] = job[p]
        /\ \A s \in Rows : lock'[s] = p <=> lock[s] = p \/ s = Low(p)
    BY <1>2, <2>1, OnwardOrdered DEF Places
  <2>3. InOrder(job'[p].user, job'[p].target) = InOrder(job[p].user, job[p].target)  BY <2>2
  <2>4. HeldOK(p)'  BY <1>0, <2>1, <2>2, <2>3 DEF HeldOK, Low
  <2>5. InsertOK(p)' /\ KnownOK(p)'
    BY <1>0, <1>1, <2>1, <2>2, <2>3 DEF InsertOK, KnownOK, Low
  <2>6. QED BY <2>1, <2>2, <2>4, <2>5, OrderedNoWrite DEF OrderOK
<1>5. CASE LockSecond(p)
  <2>1. /\ Free(High(p), p) /\ lock' = [lock EXCEPT ![High(p)] = p] /\ Goto(p, "check")
        /\ UNCHANGED <<exists, claim>> /\ pc[p] = "second"
    BY <1>5 DEF LockSecond, LockInOrder, High, tables
  <2>2. /\ Elsewhere(p) /\ Untaken(p) /\ pc'[p] = "check" /\ job'[p] = job[p]
        /\ \A s \in Rows : lock'[s] = p <=> lock[s] = p \/ s = High(p)
    BY <1>2, <2>1, OnwardOrdered DEF Places
  <2>3. HeldOK(p)'
    <3>1. \A s \in Rows : lock'[s] = p => s = job[p].user \/ s = Low(p) \/ s = High(p)
      BY <1>0, <2>1, <2>2 DEF HeldOK
    <3>2. \A s \in Rows : lock'[s] = p => s = job[p].user \/ s = job[p].target  BY <1>3, <3>1
    <3>3. QED BY <2>2, <3>2 DEF HeldOK
  <2>4. InsertOK(p)' /\ KnownOK(p)'  BY <1>0, <1>1, <2>1, <2>2 DEF InsertOK, KnownOK
  <2>5. QED BY <2>1, <2>2, <2>3, <2>4, OrderedNoWrite DEF OrderOK
<1>6. QED BY <1>4, <1>5

\* A transfer that ends shows the account it inserted, which it holds.
LEMMA ReturnOrdered ==
    ASSUME NEW p \in Workers, AccountsInv, LinksInv, OrderInv, pc[p] \in {"check", "move", "stamp"}, Return(p),
           \A c \in Claims : claim'[c].status # "none" =>
               \/ claim[c].status # "none" /\ claim'[c].target = claim[c].target
               \/ claim'[c].target = job[p].target
    PROVE  OrderInv'
<1>1. /\ End(p) /\ exists' = [exists EXCEPT ![job[p].user] = TRUE]
      /\ job[p].user \in Users /\ job[p].target \in Users
      /\ lock[job[p].user] = p /\ exists[job[p].target] /\ TablesOK
  BY DEF Return, AccountsInv, ProcInv, TableInv, JobOK, LinksInv, TransferOK, OrderInv, OrderOK, KnownOK
<1>2. exists'[job[p].user] /\ \A u \in Users \ {job[p].user} : exists'[u] = exists[u]
  BY <1>1 DEF TablesOK
<1>3. \A u \in Users : exists[u] => exists'[u]  BY <1>2
<1>4. AccountsSeen(p)  BY <1>1, <1>2, <1>3 DEF AccountsSeen
<1>5. NamedInv'
  <2>1. \A c \in Claims : claim[c].status # "none" => claim[c].target \in Users /\ exists[claim[c].target]
    BY DEF LinksInv, LinksTables, FiledInv, OrderInv, NamedInv
  <2>2. QED BY <1>1, <1>3, <2>1 DEF NamedInv
<1>6. QED BY <1>1, <1>4, <1>5, OrderedEnd

LEMMA ChecksOrdered ==
    ASSUME NEW p \in Workers, AccountsInv, LinksInv, OrderInv, CheckProof(p) \/ CheckClaimer(p)
    PROVE  OrderInv'
<1> DEFINE u == job[p].user
           v == job[p].target
           k == job[p].item
<1>0. TablesOK /\ ProcsOK /\ OrderOK(p) /\ pc[p] = "check"
  BY DEF AccountsInv, TableInv, OrderInv, CheckProof, CheckClaimer
<1>1. CASE /\ Goto(p, "move") /\ UNCHANGED tables /\ k \in Keys /\ Free(k, p)
           /\ lock' = [lock EXCEPT ![k] = p]
  <2>1. k \in Rows /\ UNCHANGED <<exists, claim>>  BY <1>1 DEF Rows, tables
  <2>2. /\ Elsewhere(p) /\ Untaken(p) /\ pc'[p] = "move" /\ job'[p] = job[p]
        /\ \A s \in Rows : lock'[s] = p <=> lock[s] = p \/ s = k
    <3> HIDE DEF k
    <3> QED BY <1>1, <2>1, OnwardOrdered DEF Places
  <2>3. \A s \in Rows : lock[s] = p => lock'[s] = p  BY <2>2
  <2>4. HeldOK(p)'  BY <1>0, <1>1, <2>2 DEF OrderOK, HeldOK
  <2>5. InsertOK(p)'  BY <2>2 DEF InsertOK
  <2>6. KnownOK(p)'
    <3>1. u \in Rows  BY <1>0 DEF AccountsInv, ProcInv, JobOK, Rows
    <3>2. QED BY <1>0, <2>1, <2>2, <2>3, <3>1 DEF OrderOK, KnownOK
  <2>7. QED BY <2>1, <2>2, <2>4, <2>5, <2>6, OrderedNoWrite DEF OrderOK
<1>2. CASE Goto(p, "move") /\ UNCHANGED <<exists, claim>> /\ UNCHANGED lock
  <2>1. Elsewhere(p) /\ pc'[p] = "move" /\ job'[p] = job[p]  BY <1>2, Onward DEF Places
  <2>2. Untaken(p)  BY <1>2 DEF Untaken
  <2>3. HeldOK(p)' /\ InsertOK(p)' /\ KnownOK(p)'
    BY <1>0, <1>2, <2>1 DEF OrderOK, HeldOK, InsertOK, KnownOK
  <2>4. QED BY <1>2, <2>1, <2>2, <2>3, OrderedNoWrite DEF OrderOK
<1>3. CASE Return(p) /\ (UNCHANGED claim \/ \E c \in FreeClaims : Filed(u, v, c))
  <2>1. \A c \in Claims : claim'[c].status # "none" =>
            \/ claim[c].status # "none" /\ claim'[c].target = claim[c].target
            \/ claim'[c].target = v
    <3>1. CASE UNCHANGED claim  BY <3>1
    <3>2. CASE \E c \in FreeClaims : Filed(u, v, c)  BY <1>0, <3>2 DEF Filed, FreeClaims, TablesOK
    <3>3. QED BY <1>3, <3>1, <3>2
  <2>2. QED BY <1>0, <1>3, <2>1, ReturnOrdered
<1>4. CASE CheckProof(p)
  <2>1. CASE ClaimerIsLive(p) /\ key[k].owner = v /\ key[k].state = "active"
    BY <1>1, <1>4, <2>1 DEF CheckProof
  <2>2. CASE ~(ClaimerIsLive(p) /\ key[k].owner = v /\ key[k].state = "active")
    BY <1>3, <1>4, <2>2 DEF CheckProof
  <2>3. QED BY <2>1, <2>2
<1>5. CASE CheckClaimer(p)
  <2>1. CASE ClaimerIsLive(p)  BY <1>2, <1>5, <2>1 DEF CheckClaimer
  <2>2. CASE ~ClaimerIsLive(p)  BY <1>3, <1>5, <2>2 DEF CheckClaimer
  <2>3. QED BY <2>1, <2>2
<1>6. QED BY <1>4, <1>5

LEMMA RefusedSeen ==
    ASSUME AccountsInv, OrderInv, NEW c \in Claims, claim[c].status # "none",
           claim' = [claim EXCEPT ![c].status = "rejected"], UNCHANGED exists
    PROVE  NamedInv' /\ \A p : AccountsSeen(p)
<1>1. /\ claim'[c].target = claim[c].target /\ \A d \in Claims \ {c} : claim'[d] = claim[d]
  BY RefusedTyped DEF AccountsInv, TableInv
<1>2. QED BY <1>1 DEF OrderInv, NamedInv, AccountsSeen

LEMMA MoveOrdered ==
    ASSUME NEW p \in Workers, AccountsInv, LinksInv, OrderInv, MoveRows(p)  PROVE OrderInv'
<1> DEFINE v == job[p].target
<1>0. /\ ProcsOK /\ JobOK(p) /\ HeldOK(p) /\ KnownOK(p) /\ pc[p] = "move" /\ job[p].item \in Claims
      /\ job[p].user \in Rows
  BY DEF AccountsInv, ProcInv, JobOK, OrderInv, OrderOK, MoveRows, Rows
<1>1. CASE Claimable(v)
  <2>1. /\ \A row \in RowsOf(v) : Free(row, p)
        /\ lock' = [row \in Rows |-> IF row \in RowsOf(v) THEN p ELSE lock[row]]
        /\ Goto(p, "stamp") /\ UNCHANGED <<exists, claim>>
    BY <1>1 DEF MoveRows
  <2>2. /\ pc'[p] = "stamp" /\ job'[p] = job[p]
        /\ \A q \in Workers \ {p} : pc'[q] = pc[q] /\ job'[q] = job[q]
    BY <1>0, <2>1, Goes DEF Places
  <2>3. \A q \in Workers, s \in Rows : lock[s] = q => lock'[s] = q
    BY <2>1, AccountsConstants DEF Free
  <2>4. Elsewhere(p) /\ Untaken(p)  BY <2>1, <2>2, <2>3 DEF Elsewhere, Untaken
  <2>5. \A s \in RowsOf(v) : s \in Requests \cup Keys  BY DEF RowsOf
  <2>6. job[p].item \notin Requests \cup Keys  BY <1>0, AccountsConstants
  <2>7. HeldOK(p)'
    <3> SUFFICES ASSUME NEW s \in Rows, lock'[s] = p
                 PROVE  s = job[p].user \/ s = job[p].target \/ s \in Requests \cup Keys
      BY <2>2 DEF HeldOK
    <3>1. CASE s \in RowsOf(v)  BY <2>5, <3>1
    <3>2. CASE s \notin RowsOf(v)
      <4>1. lock[s] = p  BY <2>1, <3>2
      <4>2. QED BY <1>0, <4>1 DEF HeldOK
    <3>3. QED BY <3>1, <3>2
  <2>8. InsertOK(p)' /\ KnownOK(p)'  BY <1>0, <2>1, <2>2, <2>3 DEF InsertOK, KnownOK
  <2>9. QED BY <2>1, <2>4, <2>7, <2>8, OrderedNoWrite DEF OrderOK
<1>2. CASE ~Claimable(v)
  <2>1. Return(p) /\ UNCHANGED claim  BY <1>2 DEF MoveRows
  <2>2. QED BY <1>0, <2>1, ReturnOrdered
<1>3. QED BY <1>1, <1>2

LEMMA TransferStepsOrdered ==
    ASSUME NEW p \in Workers, AccountsInv, LinksInv, OrderInv, TransferNext(p)  PROVE OrderInv'
<1>1. ASSUME NEW u \in Users, NEW v \in Users, NEW k \in Keys, BeginTransfer(p, u, v, k)  PROVE OrderInv'
  <2>1. /\ Begin(p, "ts", "first", u, v, k) /\ exists[u] /\ exists[v]
        /\ UNCHANGED <<exists, claim, lock>>
    BY <1>1 DEF BeginTransfer, Live, Claimable, tables
  <2>2. QED BY <2>1, BeginsOrdered
<1>2. CASE Transfer(p)
  <2>1. Return(p) /\ pc[p] \in {"move", "stamp"}  BY <1>2 DEF Transfer
  <2>2. \A c \in Claims : claim'[c].status # "none" =>
            claim[c].status # "none" /\ claim'[c].target = claim[c].target
    <3>1. CASE Claimable(job[p].target)
      <4>1. \A c \in Claims : /\ claim'[c].target = claim[c].target
                              /\ claim'[c].status = IF c = job[p].item THEN "approved" ELSE claim[c].status
        BY <1>2, <3>1 DEF Transfer, AccountsInv, TableInv, TablesOK, ClaimRows
      <4>2. job[p].item \in Claims => claim[job[p].item].status # "none"
        BY <2>1 DEF LinksInv, TransferOK
      <4>3. QED BY <4>1, <4>2
    <3>2. QED BY <1>2, <3>1 DEF Transfer
  <2>3. QED BY <2>1, <2>2, ReturnOrdered
<1>3. ASSUME NEW c \in Claims, SignRefusal(p, c)  PROVE OrderInv'
  <2>1. PICK a \in Admins : BeginBy(a, p, "ts", "refuse", NoOne, NoOne, c)  BY <1>3 DEF SignRefusal
  <2>2. /\ c \in Rows /\ Free(c, p) /\ lock' = [lock EXCEPT ![c] = p] /\ UNCHANGED <<exists, claim>>
        /\ a # NoOne
    BY <1>3, AccountsConstants DEF SignRefusal, Rows, tables
  <2>3. QED BY <2>1, <2>2, FirstRowOrdered
<1>4. CASE RejectGithubClaim(p)
  <2>1. job[p].item \in Claims /\ claim[job[p].item].status # "none"
    BY <1>4 DEF AccountsInv, ProcInv, JobOK, LinksInv, TransferOK, RejectGithubClaim
  <2>2. End(p) /\ UNCHANGED exists  BY <1>4 DEF RejectGithubClaim
  <2>3. NamedInv' /\ AccountsSeen(p)
    BY <1>4, <2>1, RefusedSeen DEF RejectGithubClaim
  <2>4. QED BY <2>2, <2>3, OrderedEnd
<1>5. QED BY <1>1, <1>2, <1>3, <1>4, ApprovalOrdered, LocksOrdered, ChecksOrdered, MoveOrdered DEF TransferNext

LEMMA RowsOrdered == ASSUME AccountsInv, OrderInv, RowNext  PROVE OrderInv'
<1>0. TablesOK /\ NamedInv  BY DEF AccountsInv, TableInv, OrderInv
<1>1. CASE UNCHANGED <<exists, claim, lock, pc, job>>
  BY <1>1, SameAccounts, OrderedStatement
<1>2. ASSUME NEW u \in Users, FirstSignIn(u)  PROVE OrderInv'
  <2>1. /\ lock[u] = NoOne /\ exists'[u] /\ \A w \in Users \ {u} : exists'[w] = exists[w]
        /\ UNCHANGED <<claim, lock, pc, job>>
    BY <1>0, <1>2 DEF FirstSignIn, TablesOK
  <2>2. AccountsSeen(NoOne)  BY <2>1 DEF AccountsSeen
  <2>3. \A w : w \in Users /\ exists[w] => exists'[w]  BY <2>1
  <2>4. NamedInv'
    <3>1. ASSUME NEW c \in Claims, claim[c].status # "none"  PROVE exists'[claim[c].target]
      BY <1>0, <1>2, <3>1 DEF NamedInv, FirstSignIn, TablesOK
    <3>2. QED BY <2>1, <3>1 DEF NamedInv
  <2>5. QED BY <2>1, <2>2, <2>4, OrderedStatement
<1>3. ASSUME NEW u \in Users, NEW v \in Users, FileReviewClaim(u, v)  PROVE OrderInv'
  <2>1. PICK c \in FreeClaims : Filed(u, v, c)  BY <1>3 DEF FileReviewClaim
  <2>2. /\ claim'[c].target = v /\ \A d \in Claims \ {c} : claim'[d] = claim[d]
        /\ exists[v] /\ UNCHANGED <<exists, lock, pc, job>>
    BY <1>0, <1>3, <2>1 DEF FileReviewClaim, Filed, FreeClaims, Claimable, TablesOK
  <2>3. NamedInv' /\ AccountsSeen(NoOne)  BY <1>0, <2>2 DEF NamedInv, AccountsSeen
  <2>4. QED BY <2>2, <2>3, OrderedStatement
<1>4. ASSUME NEW c \in Claims, RejectByToken(c)  PROVE OrderInv'
  <2>1. NamedInv' /\ AccountsSeen(NoOne)  BY <1>4, RefusedSeen DEF RejectByToken
  <2>2. QED BY <1>4, <2>1, OrderedStatement DEF RejectByToken
<1>5. QED BY <1>1, <1>2, <1>3, <1>4
          DEF RowNext, UserKeyUpdate, GoUserKeyUpdate, AdminKeyUpdate, DeleteKey, SetRevoked

LEMMA OrderNext == AccountsInv /\ LinksInv /\ OrderInv /\ [Next]_vars => OrderInv'
<1> SUFFICES ASSUME AccountsInv, LinksInv, OrderInv, [Next]_vars  PROVE OrderInv'
  OBVIOUS
<1>1. ASSUME NEW p \in Workers, Abort(p)  PROVE OrderInv'
  BY <1>1, OrderedQuit DEF Abort, tables
<1>2. CASE UNCHANGED vars
  <2>1. UNCHANGED <<exists, claim, lock, pc, job>>  BY <1>2 DEF vars
  <2>2. QED BY <2>1, SameAccounts, OrderedStatement
<1>3. QED BY <1>1, <1>2, KeyStepsOrdered, TransferStepsOrdered, RowsOrdered DEF Next
-----------------------------------------------------------------------------
(* None of them wait in a circle: every wait leads to a row further up the order. *)

\* A finite set of numbers has a greatest member.
LEMMA Greatest ==
    ASSUME NEW T \in SUBSET Nat, IsFiniteSet(T), T # {}
    PROVE  \E x \in T : \A y \in T : ~(x < y)
<1> DEFINE Above(x) == {y \in T : x < y}
           F == {Above(x) : x \in T}
<1>1. FiniteSubsetsOf(T) = SUBSET T  BY FS_FiniteSubsetsOfFinite
<1>2. F \subseteq SUBSET T /\ F # {}
  <2>1. \A x \in T : Above(x) \in SUBSET T  OBVIOUS
  <2>2. F \subseteq SUBSET T  BY <2>1
  <2>3. PICK t \in T : TRUE  OBVIOUS
  <2>4. Above(t) \in F  OBVIOUS
  <2>5. QED BY <2>2, <2>4
<1>3. PICK A \in F : \A B \in F : <<B, A>> \notin StrictSubsetOrdering(T)
  <2> HIDE DEF F
  <2>1. IsWellFoundedOn(StrictSubsetOrdering(T), SUBSET T)  BY <1>1, FS_StrictSubsetOrderingWellFounded
  <2>2. QED BY <1>2, <2>1, WFMin
<1>4. PICK x \in T : A = Above(x)  BY <1>3
<1>5. ASSUME NEW y \in T, x < y  PROVE FALSE
  <2>1. \A z \in T : z \in Int  OBVIOUS
  <2>2. \A z \in T : y < z => x < z  BY <1>5, <2>1
  <2>3. ~(y < y)  BY <1>5, <2>1
  <2>4. Above(y) \subseteq Above(x) /\ y \in Above(x) /\ y \notin Above(y)  BY <1>5, <2>2, <2>3
  <2>5. <<Above(y), A>> \in StrictSubsetOrdering(T)  BY <1>4, <2>4 DEF StrictSubsetOrdering
  <2>6. Above(y) \in F  OBVIOUS
  <2>7. QED BY <1>3, <2>5, <2>6
<1>6. QED BY <1>5

\* Who holds a row is at one of these places, or its administrator signs.
LEMMA HoldersPlace ==
    ASSUME OrderInv, NEW q \in Workers, NEW row \in Rows, lock[row] = q, job[q].admin = NoOne
    PROVE  pc[q] \in {"request", "count", "mint", "first", "second", "check", "move", "stamp"}
  BY DEF OrderInv, OrderOK, HeldOK

\* A request is held by a claim about to count or to mint, or by a review.
LEMMA RequestHolder ==
    ASSUME AccountsInv, OrderInv, NEW q \in Workers, NEW r \in Requests, lock[r] = q, job[q].admin = NoOne
    PROVE  pc[q] \in {"count", "mint", "stamp"}
<1>1. JobOK(q) /\ HeldOK(q) /\ r \in Rows  BY DEF AccountsInv, ProcInv, OrderInv, OrderOK, Rows
<1>2. r \notin Users /\ r \notin Keys \cup Claims  BY AccountsConstants
<1>3. pc[q] = "second" => Low(q) \in Users  BY <1>1, InOrderUsers DEF JobOK, Low
<1>4. QED BY <1>1, <1>2, <1>3 DEF HeldOK, JobOK

\* A key is held by a transfer that moves its owner's rows.
LEMMA KeyHolder ==
    ASSUME AccountsInv, OrderInv, NEW q \in Workers, NEW k \in Keys, lock[k] = q, job[q].admin = NoOne
    PROVE  pc[q] = "stamp" \/ (pc[q] = "move" /\ key[k].owner = job[q].target)
<1>1. JobOK(q) /\ ProofOK(q) /\ HeldOK(q) /\ k \in Rows  BY DEF AccountsInv, ProcInv, OrderInv, OrderOK, Rows
<1>2. k \notin Users /\ k \notin Requests  BY AccountsConstants
<1>3. pc[q] = "second" => Low(q) \in Users  BY <1>1, InOrderUsers DEF JobOK, Low
<1>4. pc[q] = "stamp" \/ (pc[q] = "move" /\ k = job[q].item)  BY <1>1, <1>2, <1>3 DEF HeldOK, JobOK
<1>5. QED BY <1>1, <1>4 DEF ProofOK

\* A claim is held by a review that an administrator signs.
LEMMA ClaimHolder ==
    ASSUME AccountsInv, OrderInv, NEW q \in Workers, NEW c \in Claims, lock[c] = q
    PROVE  job[q].admin # NoOne
<1>1. JobOK(q) /\ HeldOK(q) /\ c \in Rows  BY DEF AccountsInv, ProcInv, OrderInv, OrderOK, Rows
<1>2. c \notin Users /\ c \notin Requests \cup Keys  BY AccountsConstants
<1>3. pc[q] = "second" => Low(q) \in Users  BY <1>1, InOrderUsers DEF JobOK, Low
<1>4. QED BY <1>1, <1>2, <1>3 DEF HeldOK, JobOK

\* The rows of the lock order are two accounts in ascending order.
LEMMA OrderAscends ==
    ASSUME AccountsInv, LinksInv, NEW p \in Workers, pc[p] \in {"first", "second"}
    PROVE  /\ Low(p) \in Users /\ High(p) \in Users /\ Low(p) < High(p)
           /\ {Low(p), High(p)} = {job[p].user, job[p].target}
<1>1. job[p].user \in Users /\ job[p].target \in Users /\ job[p].user # job[p].target
  BY DEF AccountsInv, ProcInv, JobOK, LinksInv, TransferOK
<1>2. job[p].user \in Nat /\ job[p].target \in Nat  BY <1>1, UserIds
<1>3. CASE job[p].user < job[p].target  BY <1>1, <1>3 DEF Low, High, InOrder
<1>4. CASE ~(job[p].user < job[p].target)
  <2>1. job[p].target < job[p].user  BY <1>1, <1>2, <1>4
  <2>2. QED BY <1>1, <1>4, <2>1 DEF Low, High, InOrder
<1>5. QED BY <1>3, <1>4

\* An account that others know to be there is held, of the processes at the lock order, by
\* one that waits for its second row, and as its first.
LEMMA AccountHolder ==
    ASSUME OrderInv, NEW q \in Workers, NEW u \in Users, lock[u] = q, exists[u],
           pc[q] \in {"first", "second"}
    PROVE  pc[q] = "second" /\ u = Low(q)
<1>1. HeldOK(q) /\ InsertOK(q) /\ u \in Rows  BY DEF OrderInv, OrderOK, Rows
<1>2. QED BY <1>1 DEF HeldOK, InsertOK

\* How far a wait leads, of processes that ask for their rows in order.
LEMMA OneWait ==
    ASSUME AccountsInv, LinksInv, OrderInv, NEW p \in Workers, NEW q \in Workers,
           ~OutOfOrder(p), ~OutOfOrder(q), WaitsFor(p, q)
    PROVE  /\ pc[p] \notin {"idle", "count", "mint", "stamp", "refuse"}
           /\ pc[p] \in {"request", "approve", "reject", "move"} => pc[q] \in {"count", "mint", "stamp"}
           /\ pc[p] = "check" => pc[q] \in {"move", "stamp"}
           /\ pc[p] \in {"ask", "user", "first", "second"} =>
                 /\ pc[q] \in {"request", "count", "mint", "second", "check", "move", "stamp"}
                 /\ pc[q] = "second" => \E u \in Wants(p) : u = Low(q)
<1>1. PICK row \in Wants(p) : lock[row] = q /\ p # q  BY DEF WaitsFor
<1>2. /\ JobOK(p) /\ KnownOK(p) /\ ClaimingOK(p) /\ TransferOK(p) /\ pc[p] \in Places
  BY DEF AccountsInv, ProcsOK, ProcInv, LinksInv, OrderInv, OrderOK
<1>0. job[p].admin = NoOne /\ job[q].admin = NoOne /\ (pc[p] = "mint" => job[p].server # "go")
  BY DEF OutOfOrder
<1>3. pc[p] \notin {"idle", "count", "mint", "stamp", "refuse"}
  <2>1. pc[p] \notin {"stamp", "refuse"}
    <3> SUFFICES ASSUME pc[p] \in {"stamp", "refuse"}  PROVE FALSE
      OBVIOUS
    <3>1. row \in Claims  BY <1>0, <1>1, <1>2 DEF Wants, JobOK
    <3>2. QED BY <1>0, <1>1, <3>1, ClaimHolder
  <2>2. pc[p] \notin {"idle", "count"}  BY <1>1 DEF Wants
  <2>3. pc[p] # "mint"
    <3> SUFFICES ASSUME pc[p] = "mint"  PROVE FALSE
      OBVIOUS
    <3>1. job[p].server = "ts"
      BY <1>0 DEF AccountsInv, ProcsOK, JobRows
    <3>2. QED BY <1>1, <1>2, <3>1 DEF Wants, ClaimingOK
  <2>4. QED BY <2>1, <2>2, <2>3
<1>4. CASE pc[p] \in {"request", "approve", "reject"}
  <2>1. row \in Requests  BY <1>0, <1>1, <1>2, <1>4 DEF Wants, JobOK
  <2>2. QED BY <1>0, <1>1, <1>4, <2>1, RequestHolder
<1>5. CASE pc[p] = "move"
  <2>1. row \in Keys \cup Requests /\ (row \in Keys => key[row].owner = job[p].target)
    BY <1>1, <1>5, AccountsConstants DEF Wants, RowsOf
  <2>2. row \in Keys => pc[q] = "stamp"
    <3> SUFFICES ASSUME row \in Keys, pc[q] # "stamp"  PROVE FALSE
      OBVIOUS
    <3>1. pc[q] = "move" /\ job[q].target = job[p].target  BY <1>0, <1>1, <2>1, KeyHolder
    <3>2. lock[job[p].target] = p /\ lock[job[q].target] = q  BY <1>5, <3>1 DEF LinksInv, TransferOK
    <3>3. QED BY <1>1, <3>1, <3>2
  <2>3. QED BY <1>0, <1>1, <1>5, <2>1, <2>2, RequestHolder
<1>6. CASE pc[p] = "check"
  <2>1. row \in Keys  BY <1>1, <1>6 DEF Wants
  <2>2. QED BY <1>0, <1>1, <1>6, <2>1, KeyHolder
<1>7. CASE pc[p] \in {"ask", "user", "first", "second"}
  <2>1. row \in Users /\ exists[row]
    <3>1. CASE pc[p] \in {"ask", "user"}  BY <1>1, <1>2, <3>1 DEF Wants, JobOK, KnownOK
    <3>2. CASE pc[p] \in {"first", "second"}
      <4>1. row \in {Low(p), High(p)}  BY <1>1, <3>2 DEF Wants, Low, High
      <4>2. row \in {job[p].user, job[p].target}  BY <3>2, <4>1, OrderAscends
      <4>3. exists[job[p].target] /\ (exists[job[p].user] \/ lock[job[p].user] = p)
        BY <1>2, <3>2 DEF KnownOK
      <4>4. QED BY <1>1, <1>2, <3>2, <4>2, <4>3 DEF JobOK
    <3>3. QED BY <1>7, <3>1, <3>2
  <2>2. pc[q] \in {"request", "count", "mint", "first", "second", "check", "move", "stamp"}
    BY <1>0, <1>1, <2>1, HoldersPlace DEF Rows
  <2>3. pc[q] \in {"first", "second"} => pc[q] = "second" /\ row = Low(q)
    BY <1>1, <2>1, AccountHolder
  <2>4. QED BY <1>1, <1>7, <2>2, <2>3
<1>8. QED BY <1>2, <1>3, <1>4, <1>5, <1>6, <1>7 DEF Places

LEMMA OrderHasNoCircle == AccountsInv /\ LinksInv /\ OrderInv => NoLockCycle
<1> SUFFICES ASSUME AccountsInv, LinksInv, OrderInv,
                    NEW S \in SUBSET Workers, S # {},
                    \A p \in S : ~OutOfOrder(p) /\ \E q \in S : WaitsFor(p, q)
             PROVE  FALSE
  BY DEF NoLockCycle
<1> DEFINE Wait(p, q) ==
              /\ pc[p] \notin {"idle", "count", "mint", "stamp", "refuse"}
              /\ pc[p] \in {"request", "approve", "reject", "move"} => pc[q] \in {"count", "mint", "stamp"}
              /\ pc[p] = "check" => pc[q] \in {"move", "stamp"}
              /\ pc[p] \in {"ask", "user", "first", "second"} =>
                    /\ pc[q] \in {"request", "count", "mint", "second", "check", "move", "stamp"}
                    /\ pc[q] = "second" => \E u \in Wants(p) : u = Low(q)
<1>1. \A p \in S : p \in Workers /\ pc[p] \in Places /\ \E q \in S : Wait(p, q)
  BY OneWait DEF AccountsInv, ProcsOK
<1>2. \A p \in S : pc[p] \notin {"idle", "count", "mint", "stamp", "refuse"}  BY <1>1
<1>3. \A p \in S : pc[p] \notin {"request", "approve", "reject", "move"}  BY <1>1, <1>2
<1>4. \A p \in S : pc[p] # "check"  BY <1>1, <1>2, <1>3
<1>5. \A p \in S : pc[p] \in {"ask", "user", "first", "second"}  BY <1>1, <1>2, <1>3, <1>4 DEF Places
<1>6. \A p \in S : \E q \in S : pc[q] = "second" /\ \E u \in Wants(p) : u = Low(q)
  BY <1>1, <1>2, <1>3, <1>4, <1>5
<1> HIDE DEF Wait
<1> DEFINE Z == {p \in S : pc[p] = "second"}
           T == {High(p) : p \in Z}
<1>7. Z # {}  BY <1>6
<1>8. \A p \in Z : /\ Low(p) \in Users /\ High(p) \in Users /\ Low(p) < High(p)
                   /\ Wants(p) = {High(p)}
  BY <1>1, OrderAscends DEF Wants, High
<1>9. ASSUME NEW p \in Z  PROVE \E q \in Z : High(p) < High(q)
  <2>1. PICK q \in Z : High(p) = Low(q)  BY <1>6, <1>8
  <2>2. QED BY <1>8, <2>1
<1>10. T \in SUBSET Users /\ T # {}  BY <1>7, <1>8
<1>11. PICK x \in T : \A y \in T : ~(x < y)
  <2> HIDE DEF T
  <2>1. T \in SUBSET Nat /\ IsFiniteSet(T)  BY <1>10, UserIds, FS_Subset
  <2>2. QED BY <1>10, <2>1, Greatest
<1>12. PICK p \in Z : x = High(p)  BY <1>11
<1>13. PICK q \in Z : High(p) < High(q)  BY <1>9
<1>14. High(q) \in T  OBVIOUS
<1>15. QED BY <1>11, <1>12, <1>13, <1>14
-----------------------------------------------------------------------------
\* The tables, the row locks and the processes keep their types.
THEOREM AccountsTypeCorrect == Spec => []TypeOK
<1>1. AccountsInv => TypeOK  BY TypeSplit DEF AccountsInv, TableInv
<1>2. QED BY <1>1, AccountsInit, AccountsNext, PTL DEF Spec

\* No key is orphaned, with any number of tabs on either server claiming one request while
\* administrators decide it again, owners delete keys and accounts absorb each other.
THEOREM NoKeyIsOrphaned == Spec => []NoOrphanKey
<1>1. AccountsInv => NoOrphanKey  BY DEF AccountsInv, TableInv
<1>2. QED BY <1>1, AccountsInit, AccountsNext, PTL DEF Spec

\* Whatever revokes, deletes or moves the key between a transfer's first look and its
\* writes, an account moves on a proof only while the proof holds.
THEOREM ProofsHold == Spec => ProofHoldsAtTransfer
<1> DEFINE Holds == \A m \in Workers : Transfer(m) /\ claimedBy' # claimedBy /\ job[m].item \in Keys =>
                       key[job[m].item].owner = job[m].target /\ key[job[m].item].state = "active"
<1>1. AccountsInv => Holds  BY AccountsConstants DEF AccountsInv, ProcInv, JobOK, ProofOK, Transfer
<1>2. AccountsInv /\ [Next]_vars => [Holds]_vars  BY <1>1
<1>3. QED BY <1>2, AccountsInit, AccountsNext, PTL DEF Spec, ProofHoldsAtTransfer

\* However accounts absorb each other, by proof or by review, none is lost in a circle of
\* claims: claimed_by leads to an account that can sign in.
THEOREM ClaimsEnd == Spec => []ClaimsEndInLiveAccount
<1>1. LinksInv => ClaimsEndInLiveAccount  BY DEF LinksInv, LinksTables
<1>2. QED BY <1>1, AccountsInit, AccountsNext, LinksInit, LinksNext, PTL DEF Spec

\* An approved review is what became of the account, whatever ran against it.
THEOREM ApprovalsAreMoves == Spec => []ApprovedClaimMoved
<1>1. LinksInv => ApprovedClaimMoved  BY DEF LinksInv, LinksTables
<1>2. QED BY <1>1, AccountsInit, AccountsNext, LinksInit, LinksNext, PTL DEF Spec

\* However many claims mint while accounts absorb each other, a transfer leaves no key
\* behind: what an absorbed account holds was made for a request that came afterwards.
THEOREM KeysAreNotLeftBehind == Spec => []NoKeyLeftBehind
<1>1. LinksInv => NoKeyLeftBehind  BY DEF LinksInv, LinksTables
<1>2. QED BY <1>1, AccountsInit, AccountsNext, LinksInit, LinksNext, PTL DEF Spec

\* Whatever reviews, transfers and other claims run between a claim's look at its request
\* and its mint, on either server, the request is still approved, unanswered and its own.
THEOREM MintsAreApproved == Spec => MintsForApproved
<1> DEFINE Approved == \A t \in Workers : Mint(t) =>
              request[job[t].item] = [owner |-> job[t].user, status |-> "approved", key |-> NoOne]
<1>1. AccountsInv /\ LinksInv => Approved
  <2> SUFFICES ASSUME AccountsInv, LinksInv, NEW t \in Workers, Mint(t)
               PROVE  request[job[t].item] = [owner |-> job[t].user, status |-> "approved", key |-> NoOne]
    OBVIOUS
  <2> DEFINE row == request[job[t].item]
  <2>1. pc[t] = "mint" /\ JobOK(t) /\ MintOK(t) /\ ClaimingOK(t) /\ TablesOK
    BY DEF Mint, AccountsInv, TableInv, ProcInv, LinksInv
  <2>2. row \in RequestRows  BY <2>1 DEF JobOK, TablesOK
  <2>3. row.owner = job[t].user /\ row.status = "approved" /\ row.key = NoOne
    BY <2>1 DEF MintOK, ClaimingOK
  <2>4. QED BY <2>2, <2>3 DEF RequestRows
<1>2. AccountsInv /\ LinksInv /\ [Next]_vars => [Approved]_vars  BY <1>1
<1>3. QED BY <1>2, AccountsInit, AccountsNext, LinksInit, LinksNext, PTL DEF Spec, MintsForApproved

\* However users, administrators and legacy claims meet on both servers, a circle of them
\* that wait for each other has a Go claim or a signed review in it, waiting for an account
\* with another row in hand: the rest lock accounts in ascending order, requests, keys and
\* claims after them, and an account one of them inserts is one nobody else can name.
THEOREM LocksAreOrdered == Spec => []NoLockCycle
  BY AccountsInit, AccountsNext, LinksInit, LinksNext, OrderInit, OrderNext, OrderHasNoCircle, PTL DEF Spec
=============================================================================
