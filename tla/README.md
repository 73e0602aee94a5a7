# ArchivePool: TLA+ models and proofs

ArchivePool keeps a shared pool of music-service credentials ("accounts") and API instances: people
submit entries, the site health-checks them, and apps lease the surviving ones. The repository holds
two implementations over one Postgres schema: the Next.js app (`lib/`, `app/api/`) and a Go server
(`server/`). Both may run at once, in several instances. What makes the system hard is that almost
every operation reads a row, waits for a provider or another service, and then writes the row, while
others do the same.

1. [Inventory](#inventory)
2. [How the project is split](#how-the-project-is-split)
3. [The modules](#the-modules)
4. [Runs, bounds and fairness](#runs-bounds-and-fairness)
5. [Disagreements between code and documentation](#disagreements-between-code-and-documentation)
6. [Proofs](#proofs)
7. [What is only model-checked](#what-is-only-model-checked)
8. [Not modelled](#not-modelled)

Paths below are relative to the repository's root.

## Inventory

| Component | State | Operations | Interacts with | Hard behaviour | Correct when |
| --- | --- | --- | --- | --- | --- |
| Entry health, TypeScript (`lib/health-sweep.ts`, `app/api/report/route.ts`, `lib/ingest.ts`, `lib/instance-sync.ts`) | one row per entry: status, premium, consecutive_failures, disabled, removed, last_checked_at, last_ok_at, verify_lease_until | sweep, single check, dead / not_premium report, submission, instance sync, remove, purge | refresh, leases, caches | every writer awaits the provider between its read and its write; a probe's commit may be lost | every write is the policy applied to the current row; what is served is premium; a fresh success outranks a report; a parked entry is re-verified |
| Entry health, Go (`server/internal/health`, `httpapi/report.go`) | the same row, without last_ok_at and the verify lease | the same, computed from a copy of the row | job lease | lost updates, three-statement park | sweeps under the lease apply the policy; what is served is premium |
| Provider checks (`lib/health.ts`, `server/internal/health/health.go`) | what a check has seen so far | one request after another to the source | refresh, renewal | requests fail, the source changes under the check | the verdict is something the source said |
| Tidal credential refresh (`lib/health.ts`) | payload, refresh_in_flight_until, refresh_cooldown_until, refresh_backoff_ms, `pool_state` | gate, claim, POST, finish, backoff | entry checks, leases, provider | refresh tokens rotate; answers and writes are lost; claims lapse | one POST at a time; the token spent is the current one; a stored credential never goes back; a lapsed claim heals |
| Credential renewal (`lib/health.ts`, `lib/ingest.ts`) | payload and fingerprint of a Qobuz or Deezer account, the app secret | re-login, heal, cookie rotation, resubmission | checks, ingestion | the fingerprint rows are found by is swapped; older payloads are written back | a lapsed login is renewed in the end; what is saved works |
| Sweep batching (`lib/health-sweep.ts`, `lib/cf-env.ts`, `app/api/cron/health`) | cursor, fetch budget | next batch, workers | entry health | rows change between batches, a budget cuts checks off | done means every due row was seen to; the tail is reached |
| Job lease (`server/internal/db/joblock.go`) | `job_locks` rows | claim, release, expiry | sweep, sync | crash, late release, lost answer | guarded runs exclude each other inside the TTL; the job is never locked out |
| Connection pool (`server/internal/db/db.go`) | idle list, open count, waiter queue, closed flag | acquire, dial, probe, release, wake, cancel, Close, Tx | every query | wake-ups, deadlines, broken connections, close | slots accounted for; one user per connection; no lost wake-up; no leftover transaction |
| Read-through cache (`server/internal/cache/ttl.go`, `lib/ttl-cache.ts`) | store, in-flight loads | load, join, invalidate | sweep, sync, feeds | invalidation during a load, a load that fails or panics | what is served is recent; nobody waits for a load that is gone |
| Blob snapshot and discovery (`server/internal/blob`, `lib/edge-snapshot.ts`) | one published object | write, read with TTL | sync, sweep | writers out of order, missing timestamps | a reader gets a snapshot inside its TTL or the database |
| Credential leases (`server/internal/pool/leases.go`, `lib/queries.ts`) | last_leased_at, `api_key_leases` | lease accounts / instances, release, replacement | report, feeds, refresh | concurrent requests of one key, swallowed bookkeeping errors | a replacement only for a lease that existed; the rotation reaches everyone |
| Read keys and requests (`server/internal/auth/keys.go`, `lib/api-keys.ts`) | `api_keys`, `api_key_requests` | request, approve, reject, claim, revoke, restore, delete | users, legacy claim | two tabs, two servers, row locks | no key is orphaned; a key is minted for the living |
| Users and legacy claim (`lib/users.ts`, `lib/claim-transfer.ts`, `lib/github-auth.ts`) | `users`, `github_claims` | claim by proof, claim by review, transfer | keys | transfers race each other, reviews, revocation | proofs hold when used; claims end in a live account; approvals are what happened |
| Sign-in and sessions (`app/api/auth`, `lib/users.ts`, `lib/sessions.ts`, `server/internal/auth`) | `users`, cookies | GitHub redirect and callback, sign-up, login, logout, resolving a session | legacy claim | tabs of one browser share cookies; an insert's conflict is ambiguous | whoever GitHub says has come gets their own account or a reason |
| Tidal device sign-in (`components/tidal-connect.tsx`, `lib/tidal-oauth.ts`, `oauth/tidal.go`) | the page's phase, code and timer; the provider's code | start, poll, answer, leave | ingestion | lost polls and answers, timers of an earlier code | a page that shows a code polls it and no other |
| Rate limiter (`server/internal/ratelimit`, `lib/rate-limit.ts`) | buckets of hit times, counters in the database | hit, prune, evict | every guarded route | eviction at the cap, windows that start over | at most the limit per window |
| Purge (`app/api/cron/purge-dead`, `app/api/admin/purge-dead`) | removed | one UPDATE | entry health | | see [Not modelled](#not-modelled) |

The rest (wire protocol client, cryptography, schema, routing, user interface) is left aside; the
reasons are under [Not modelled](#not-modelled).

## How the project is split

One module per component, an MC module where the constants of its instances need definitions, `.cfg`
files, and a proof module where there are theorems. What composes what:

- `EntryHealth` and `EntryHealthGo` both implement the abstract `EntryPolicy` (identity mapping of
  the row), checked as a property and proved.
- `Feeds` composes the cache, the blob store and the publishers, and implements the abstract
  `BoundedFeed`, whose `Bound` is the sum of the TTLs: checked and proved.
- `Accounts` composes keys, requests, legacy claims and reviews of both servers over one set of rows
  and row locks.
- `Leases` composes leasing with reports; `Renewal` composes checks, submissions and healers over one
  stored credential; `TidalRefresh` composes leases and checks over one.
- `Services` (which `MCServices` gives an instance) and `MCBackground` put several modules, each with
  constants of its own, beside each other. `part` chooses which of them runs, so that one run checks the
  safety (or the liveness) of all of them and one proof module proves it; they share no variable but
  `server`, and no state.

The models were written in the order of what depends on them: the row everything is about
(`EntryPolicy`, `EntryHealth`, `EntryHealthGo`), what every query and sweep of the Go server goes
through (`ConnPool`, `JobLease`), the credentials (`TidalRefresh`, `Renewal`, `Checks`), people
(`Accounts`, `SignIn`, `DeviceLogin`), and what is handed out (`Leases`, `Feeds`, `RateLimiter`,
`SweepBatch`). All of the plan is written, and every invariant a passing run checks is proved as well.
What a further version could add: the liveness of the device page (`WaitingEnds` is stated but not run).

## The modules

### EntryPolicy and EntryHealth

`EntryPolicy` is the abstract specification: one row, no processes, no time. Its seven actions are
what a verdict, a report, a submission, the sync or an administrator may do to the row *as it stands*.

`EntryHealth` is the TypeScript pipeline. The policy columns keep their names. `lastOk` is
`last_ok_at` in stamps of the database's `now()`; `age` is `last_checked_at` as the code tells it
apart (inside the report cooldown, between, past the stale window); `verifyLease` names who holds
`verify_lease_until`. Records `chk` and `rep` hold what a check or a report remembers across an
await, so the actions are the stretches between awaits:

| Action | Code |
| --- | --- |
| `StartSweep`, `StartCall`, `Answer`, `GiveUp`, `Commit` | `runHealthSweep`, `checkEntryById`, `ingestSource`, `checkAndUpsert`: select; probe; the writing UPDATE |
| `Arrive`, `Lookup`, `ClaimLease`, `Reread`, `ProbeAnswer`, `ProbeCommit`, `Park`, `Dismiss`, `Die` | the `POST` handler of `app/api/report/route.ts` from its `now()` to the guarded park |
| `Moderate`, `Age`, `LeaseLapse` | the administrator and the purges; time |

The stamp of a success is taken when its transaction begins and written when it commits, because
Postgres' `now()` is the transaction's start. A commit's acknowledgement may be lost, in which case
the report's probe appears to have thrown. The variable `overtaken` is history.

### EntryHealthGo

The Go server's writers. A check keeps a copy of the count and flag it read (`seenFailures`,
`seenDisabled`) and writes both back, as `nextConsecutive` and `nextDisabled` do; the park of a dead
report is three statements (`Park`, `ReadCount`, `Disable`); the sweep claims the `health-sweep`
lease first, skips if it is taken and goes on unguarded if the claim fails (`ClaimCanFail`).

The Go comment on `accountServableSQL` (`server/internal/pool/leases.go:25-26`) says that `preview`
counts as servable. It does in the SQL and in the model's `Servable`; but every writer that stores
`preview` also disables the row (`RowClean`), so that clause never serves anything.

### ConnPool

`server/internal/db/db.go`, one action per critical section of `d.mu` or exchange with the database
between two of them: `Acquire` (take an idle connection and probe it, dial within `maxConns`, or
queue), `Use` (a statement, or begin / body / commit / rollback), `Release` (idle, broken, closed),
and `Close`. Deadlines run out anywhere; a caller that was signalled and gives up passes the signal on.

### JobLease

`server/internal/db/joblock.go` and its use in `sweep.go` and `sync.go`: the claim's conditional
upsert, the owner-checked release, expiry by a ticking clock, crashes, claims whose answer is lost
after the row was written, and runs that continue unguarded.

### TidalRefresh

`lib/health.ts` from `ensureFreshTidalToken` to `checkTidalAccount`, for one account and many callers.
The row's columns are `token`, `refresh` (its payload), `claim` and `live` (whose deadline
`refresh_in_flight_until` is, and whether it lies ahead), `cooling` and `backoff`. Credentials are
numbered by the grant that issued them, so "older" is a comparison of numbers.

| Action | Code |
| --- | --- |
| `Start`, `Migrate` | the caller's select; a health check's payload write (`health-sweep.ts:204`, `:373`) |
| `TurnAway`, `Gate`, `Claim`, `LoseClaim`, `PollAgain`, `PollEnds` | `ensureFreshTidalToken`, `gateRefresh`, `claimRefresh` |
| `Granted`, `AnswerLost`, `NotGranted`, `ReadBackoff` | the POST in `tryRefreshTidalToken` and how its outcomes are told apart |
| `Finish` | `finishRefresh`: one UPDATE guarded by the claim, whose failure is swallowed |
| `Lapse`, `CooldownEnds`, `Crash` | time; a request that dies, or a claim whose answer is lost |

`lost` is history: a rotated refresh token that will never reach the row because a request died, an
answer or a write was lost, or a lapsed claim was taken over before its owner stored what it had been
granted. The pool-wide hold that `recordTidalAbuse` raises is an input (`TurnAway`).

### Renewal

How checks and submissions rewrite the stored credential of a Qobuz or Deezer account. `cred`, `print`
and `secret` are the row's payload and fingerprint; `accepted` is what the provider takes at the
moment. A caller remembers in `hand` what it read. Actions: the claim on the fingerprint, the login,
the guarded `Finish` that swaps payload and fingerprint, the rotation of a Deezer cookie, the heal of
a rotated app secret, the sweep's payload migration, and a submission's check and `Save`, with
callers that die, claims that lapse and sessions that end. Credentials are numbers, reused when
nobody holds them any more, so that the model stays finite while accounts are renewed for ever.

### Checks

`runCheck` and `RunCheck`: for each kind of source, the requests of a check in their order, what each
answer leads to on either server, and the verdict. `seen` and `failed` are history: the conditions the
source was in at the check's requests, and the requests that got no usable answer. The properties say
that a verdict is explained by these two.

### SweepBatch

The scheduler's loop over `/api/cron/health`, a call's selection of stale rows by the cursor, its
workers, its limits on rows and verdicts, and the fetch budget of a metered host with its reservations
(`lib/cf-env.ts`). `order` is each row's place by `last_checked_at`; a call's `queue` is the set of rows it
selected, which `Ahead` orders as the code sorts them, by the places and the status the call read; the
index into the sorted array is the set `started`, and `finished` the array of that name. A cursor is the
rank of the last consumed row and the rows at or before it. `owed` is history: the rows that were stale
when the sweep began and that nobody has seen to.

### Feeds and BoundedFeed

`GET /api/instances` behind the read-through cache, the published snapshot and the database. A reader
is a request (`Arrive`, `TakeHit`, `Join`, `Lead`, `Load`, `Store`, `Fail`...), a publisher a sweep or
sync that reads the pool, puts the snapshot and invalidates key by key. A list is the version of the
pool it was read from; `replaced` records when each version was superseded, so `BoundedFeed` can say
that an answer was current at most `Bound` ago.

### Leases

`GET /api/accounts` and `/api/sources` with their choice (held by the key, premium, least recently
leased), stamping, the best-effort lease rows, the TypeScript server's token refresh at lease time, and
a report's release and replacement. `lru` is the order of the entries by `last_leased_at`; a lease row
is the days it has left; `credit` is history: hand-outs not yet reported.

### Accounts

`users`, `api_keys`, `api_key_requests` and `github_claims` under everything that writes them, at READ
COMMITTED: a step is a statement, `lock` says who holds the row lock of a user, request or key, and what
a transaction writes is applied in its last step. `Workers` are requests under way on either server;
`job` is what each works on. An UPDATE locks its row first and its foreign keys then: who signs a decision is
`reviewed_by`, which shares the row of that account (`lib/db/ensure.ts:35`, `:155`) and waits for a `FOR
UPDATE` on it (`Sign`, `SignRefusal`; a decision by the shared token is nobody's and takes one step).

| Action | Code |
| --- | --- |
| `BeginAsk`, `CreateKeyRequest`, `BeginReview`, `Sign`, `ApproveKeyRequest`, `RejectKeyRequest` | asking and deciding |
| `BeginClaim` (any id, also of a request not made yet), `GoBeginClaim`, `LockUser`, `LockRequest`, `CountKeys`, `Mint` | `claimApprovedKey`, `ClaimApprovedKey` |
| `UserKeyUpdate`, `GoUserKeyUpdate`, `AdminKeyUpdate` | revoke, restore, delete |
| `FileReviewClaim`, `BeginTransfer`, `BeginApproval`, `LockFirst`, `LockSecond`, `CheckProof`, `CheckClaimer`, `MoveRows`, `Transfer`, `RejectByToken`, `SignRefusal`, `RejectGithubClaim` | `runLegacyClaimTransfer`, `approveGithubClaim` and what leads to them |
| `Abort` | a lost connection, or the victim of a deadlock |

`GoBeginClaim` is the Go server's claim up to its first lock: before it, and when it finds nothing to
claim, nothing is held or changed. A review of a GitHub claim locks the rows it moves (`MoveRows`) and
then its own (`Sign`), and its writes become visible together (`Transfer`).

### SignIn

GitHub's redirect and callback, the account made on the spot with the first free name, password sign-up
and login, logout, and how both servers resolve a session. Tabs of a browser share its cookies; each
statement is a step.

### DeviceLogin

The contribute page's code, timers and polls, the server's poll handler and Tidal's answers. A request
or its answer may be lost, and a page may be left, whose start and polls go on without it.

### RateLimiter

The in-memory sliding windows (one map for all routes, pruned and capped) and the fixed-window counters
in the database. The map is its keys in order of insertion (`inserted`) and the `hits` of each; a bucket's
hits are in the order of time, so the filter that prunes them drops a prefix. `granted`, `dbGranted` and
`evicted` are history.

## Runs, bounds and fairness

| Run | Instance | Shows |
| --- | --- | --- |
| `entry_writers` | API instance; sweep, caller (check, submission or sync), report, administrator | `ServableIsPremium`; the row implements `EntryPolicy` |
| `entry_reports` | account; two reports, a sweep | thresholds disable, one probing report, a fresh success outranks |
| `entry_live` | account; sweep, caller, report | a parked entry is re-verified |
| `go_sweeps` | account; two Go sweeps, crashes, administrator | the lease keeps copies current, so sweeps implement `EntryPolicy` |
| `go_mixed` | API instance; sweep that may run unguarded, caller, report | `ServableIsPremium` in spite of copies; a parked entry is re-verified through orphaned leases |
| `pool` | four callers, two slots | slots, ownership, cleanliness, wake-ups; a queued caller is signalled without its own deadline |
| `tidal_leases` | two leasing requests; no check (`RequestsSpec`; checks are in `services`) | what is spent is current; credentials and backoff never go back; the account is refreshed again and again |
| `accounts` | three accounts of which one is GitHub's, two keys, a request, a claim, two processes on either server | `NoOrphanKey`, `ProofHoldsAtTransfer`, `ApprovedClaimMoved`, `ClaimsEndInLiveAccount`, `NoKeyLeftBehind`, `MintsForApproved`, and `NoLockCycle` but for the processes it names |
| `services` | `Feeds`, `Leases`, `TidalRefresh` with a check, `Checks`, `SignIn`, `DeviceLogin`, `SweepBatch`, `RateLimiter` | the safety of each (below) |
| `background` | `JobLease`, `SweepBatch`, `Leases`, `Renewal` (two checks; a check and a healer; a cookie's resubmission) | the liveness of each; two runs of a job overlap only past the lease |
| `go_recovery`, `resubmission` | | the [disagreements](#disagreements-between-code-and-documentation) |

`services` checks `FeedIsBounded` (refinement of `BoundedFeed`) and `NoWaiterStranded`;
`ReplacementIsEarned`; `SingleFlight`; `VerdictIsEarned`; `OwnAccountOrCause`; `WaitingIsPolled`;
`DoneMeansAll` and `NoTaintedVerdict`; `WindowHolds`. `background` checks `RunsExclude`,
`JobIsGrantedAgain`, `TailIsReached`, `RotationReachesAll` and `RevivedAgain`.

Every property of a passing run is also checked against a deliberately wrong variant of one
definition (marked "Mutant" beside it), and fails there. Type invariants are not part of the runs: they are proved, except for
`LeasesTypeOK` and `RenewalTypeOK` (see [below](#what-is-only-model-checked)).

**Bounds.** The failure thresholds are 2 (reports) and 3 (checks) for the code's 3 and 5: what
matters is that the first is smaller and that each takes several writers to reach; `MaxFailures`
saturates at the larger, where nothing distinguishes counts any more. `MaxClock` gives a report, a
success before it, one during it and one after it stamps of their own; a report starts only while two
stamps are left, so saturation cannot make a success look older than it is. One sweeper, one caller
and one or two reporters meet every pair of writers, and properties about two reports have two. Two
slots and four callers give the pool a caller that holds, one that dials, one queued and one signalled
at once; a socket that broke lends its name to the next one dialled. A TTL of 3 ticks separates
"inside", "at the end" and "after". For the refresh, two callers are a claimant whose claim lapses and
the one that overtakes it; two grants let a rotation be rotated again; three backoff steps tell doubling
from restarting; two polls are one that waits and one that gives up. Bounded grants do not stop the
model: other answers remain.

For accounts, two processes are every pair of transactions, three accounts are a circle that two
transfers could close, with a third account besides, and one key of two exists already: proof for a
transfer and, with a limit of one, what fills an account. The theorems hold for any number of each. The
feed's clock runs until both TTLs have run out once, with two readers (one loads, one waits) and a
publication that overtakes a load. Two requests of one key and one lease per category are what a double
replacement takes; `MaxFaults` and `MaxOverlaps` count swallowed bookkeeping errors and overlapping
leases. A sweep's three rows with two workers and a limit of two need a second call; a budget of 4 is
used up by two rows of 2, one of 3 in `background` by one and a half. Two tabs of one browser and two
GitHub logins that derive the same names, one of them taken, give every conflict of the insert. The
device page asks for a code twice. The limiter's windows of 1 and 3 share a map with room for one
bucket. A harm bound (`MaxHarm`) counts the deaths, suspensions and ended sessions of `Renewal`.

**Deadlock** is checked wherever processes start over. `services`, `background` and the configurations
of `Checks`, `RateLimiter` and `SignIn` switch it off: a check ends with its verdict, and clocks, versions
and sign-ins are bounded.

**Fairness.** Each liveness run states what it assumes next to `FairSpec`.

- Sweeps: the cron route and the Go ticker fire for ever, so a due row is taken (WF on `StartSweep`,
  SF where a run may find the lease taken), every check ends because fetches carry timeouts, and a
  provider asked over and over answers some time (SF on `Answer`, `Commit`, `SweepWrite`). Nothing is
  assumed of reports, callers or administrators. In batches: the scheduler calls again, workers go on.
- Pool: whoever is not queued proceeds: `sync.Mutex` is starvation-free, dials and probes carry
  deadlines, statements end. No deadline of a queued caller is assumed, so the run shows signalling.
- Job lease and refresh: time passes (WF on `Tick`, `Lapse`, `CooldownEnds`), calls end, and of the
  attempts that keep coming not every one errs or dies (SF on the claim and the steps before it).
  Crashes are never fair and never excluded.
- Leases: requests end, days pass, and apps keep asking, with a key of their own, without one and for
  instances (SF on the beginning of a request, which may find all requests busy).
- Renewal: the cron job's checks keep coming, and of the logins and the updates that store a token not
  every one fails (SF). Harm is bounded, not excluded.

`background` conjoins these conditions, or weaker ones (days: WF), one per role: since exactly one part runs, a condition over the
disjunction of the parts' actions is the condition of that part.

## Disagreements between code and documentation

Two are runs whose property quotes the text and is violated by what the code does:

- `go_recovery`, `ReenabledByRecovery`: entries are re-enabled "if they recover"; a failing Go check
  that read the row before a disable writes the old flag back (`server/internal/health/sweep.go:183`).
- `resubmission`, `SavedWorks`: "only WORKING + PREMIUM sources are stored" (`lib/ingest.ts:64`). The
  check of a resubmitted Deezer cookie rotates it, stores the new one in the row it finds by the
  fingerprint, and ends the submitted one; then the submitted payload is saved over it.

The others have a property and a configuration of their own, which TLC refutes as well. They are kept
beside the runs and are not among those `PROJECT.json` lists:

| Configuration | Property | What is said, and what happens |
| --- | --- | --- |
| `EntryHealth_sync.cfg` | `FreshSuccessOutranksReport` | "a fresh success always outranks a report"; the sync's working-but-lossy branch records a success without `last_ok_at`, so a report parks over it |
| `EntryHealth_noop.cfg` | `FreshDeadReportIsNoOp` | a comment calls the park of a recent dead verdict a no-op (`app/api/report/route.ts:33`); each report that does not probe still counts a failure, and can disable |
| `EntryHealth_stamps.cfg` | `SuccessSinceReportOutranksIt` | the guarded park "does nothing when a check that succeeded after the report began already landed" (`docs/REPORT_ENDPOINT.md:28-29`); stamps are transaction starts and commits may land out of order, so `last_ok_at` can run backwards under the guard |
| `EntryHealthGo_outranks.cfg` | `SuccessOutranksReport` | the same sentence, against the Go park, which has no guard at all |
| `TidalRefresh_clobber.cfg` | `RotationIsKept` | a health check migrates the payload before it checks so as not to overwrite a rotated credential (`lib/health-sweep.ts:203`); a lease request can rotate between the check's read and that write, and the write puts the consumed refresh token back. For the sweep, which reads all rows first, that window lasts until it reaches the row |
| `Accounts_reveal.cfg` | `NoSecondReveal` | "There is no second reveal": once the key of a request is deleted, the foreign key sets `resulting_key_id` to null and the request can be claimed again |
| `Accounts_cap.cfg` | `ActiveKeysCapped` | `MAX_KEYS_PER_USER`: restoring a revoked key and absorbing an account do not count; nor do two claims at once on the Go server, which locks the request only |
| `Accounts_circle.cfg` | `NoCircle` | "Every transaction that needs locks on both a user row and its request/key rows uses this same convention (users ascending first, then request/key rows)" (`lib/claim-transfer.ts:31-33`). Two do not: the Go claim holds its request when the key's foreign key asks for the owner's row, and a signed review holds its request or claim when `reviewed_by` asks for the signer's. Either closes a circle with a transfer of that account, which Postgres ends by aborting one of them |
| `SweepBatch_starve.cfg` | `TailIsReached` | with as many rows that keep answering "pending" as a batch has room for, every batch begins with them and the rows behind are never reached |
| `Leases_excess.cfg` | `ExcessAgesOut` | rows that overlapping leases added beyond a lease's worth are expected to age out; a key that leases more often than its rows expire is given the rows it holds in turn, least recently leased first, so each is renewed and none ages out |
| `Checks_expired.cfg` | `DeadIsEarned` | a transient failure must not wipe healthy entries; with an expired developer token in the cache, Apple's refusal of the token is taken for a refusal of the account |
| `SignIn_closed.cfg`, its property replaced by `INVARIANTS SignupsCapped` | `SignupsCapped` | "at most 5 accounts per IP+UA per 24h": the count and the insert are two statements, so sign-ups at once pass it together |
| `SignIn_closed.cfg` | `ClosedLoseSessions` | a claimed account "loses every outstanding session the instant the row changes" (`lib/sessions.ts`); the Go server knows a session by its signature and does not look at `claimed_by` |
| `RateLimiter_evict.cfg` | `DroppedWhenOver` | buckets are dropped when "fully expired, then the oldest by insertion order"; the pruning judges every bucket by the window of the route that triggers it, so a short-window route drops long windows that still run |

Smaller observations without a property: a pool of zero instances counts as alive when the probe
answers a total of 0 in some types (`lib/health.ts:283`); the device page shows "expired" or an error
when the answer that saved the account is lost; a reported lease is released before the replacement is
looked for, so a key may be left without one (`app/api/report/route.ts:345`); approve and reject both
find the request pending and the last writer wins; a report whose probe committed and whose
acknowledgement was lost takes the null for a check that could not run, and counts the failure that the
probe recorded a second time (`app/api/report/route.ts:260-267`); an account that was absorbed can still
be given a key, when the request is filed in its name afterwards (the Go server knows a session by its
signature, and an ask or a claim on its way is not looked at again: `lib/api-keys.ts:255`, `:366`); the
Tidal check promises to keep its optimistic answer when the subscription page says nothing, but a good
status without the expected words makes the account `preview`, which disables it (`lib/health.ts:874-876`);
a Tidal payload whose only credential is `token` loses it when a grant that did not rotate is stored
(`lib/health.ts:670`, `:762-767`); a store that answers without a usable `last-modified`
(`Undated` in `Feeds`) would be served however old, which breaks `FeedIsBounded`: the deployed stores
always send it, so the run has `Undated` off and the theorem assumes it.

## Proofs

All proofs are checked by TLAPS with SMT (Z3), Zenon and the PTL decision procedure. They hold for
every value of the constants allowed by the modules' `ASSUME`s: process sets are finite or not as
stated there, thresholds positive with the report threshold at most the check threshold, names of
"nobody" distinct from processes, ids of different tables distinct. Further assumptions are in the
theorem's `ASSUME`.

**EntryHealthProofs.** The inductive invariant is `TypeOK` with `WorkOK` (a report's probe writes only
verdicts; only instances are synced), to which each result adds what it needs:

- `HealthImplementsPolicy`: initial states map to initial states and each action to one policy action
  or a stutter, under the identity mapping. `WorkOK` is needed to know that a probe's commit is one of
  the policy's three verdicts.
- `DisableIsSticky` follows step by step.
- `ServedEntriesArePremium` rests on `RowClean`: `alive` implies premium and no failures, `preview`
  implies disabled.
- `ThresholdsAreEnforced` is inductive together with `TypeOK`: each writer counts in place, compares
  the count it writes and never lifts a flag while the count stays.
- `OneReportProbes` rests on `LeaseHeld`: whoever verifies is the one the lease names, since the lease
  lapses only when nobody verifies under it.
- `FreshSuccessesOutrankReports`, for accounts: a success that landed since the report read its verdict
  shows in the row's `last_ok_at` (`OutrankedSeen`), because the successes still to land bear stamps that
  neither the row nor any report has seen (`LandingsOK`). For API entries it is false, as `EntryHealth_sync.cfg`
  shows: the sync records a success without a stamp. Stamps are told apart up to the clock's bound, and reports
  begin below it.

**EntryHealthGoProofs.** `TypeCorrect` and `ServedEntriesArePremium` for any mixture of writers
(`RowClean` again: flags come from old copies, but status, premium and count are written together).
`SweepsExclude` and `SweepsImplementPolicy` assume that sweeps are the only checks and that claims are
answered; then `LeaseExcludes` is inductive, the copy equals the row, and the write is a policy step.
`go_recovery` shows that the assumption cannot be dropped.

**ConnPoolProofs.** The invariant is the conjunction of type correctness, the shape of the queue
(`QueueOK`), `OneOwner`, `SlotsAccounted` and `NoLostWakeup`, with `IdleIsClean` and `ClosedDrains`
resting on which callers may have marked connections. It is inductive only as a whole: a wake-up is not lost
because slots are accounted for, which needs single owners. Cardinalities change by lemmas about
adding and removing one element.

**JobLeaseProofs.** `LeaseKept` (until its time is over a guarded run owns the row, and the time left is
the TTL minus the time it ran) with `TokensDiffer` (identities are not shared); `RunsExclude` follows.

**TidalRefreshProofs.** `PostingOwns`: whoever talks to the provider owns a live claim and no cooldown is
in force. It yields `OnePostAtATime` and `CooldownsAreRespected`, for leases and checks alike. The
rotation results assume that no caller is a health check (`NoChecks`); `TidalRefresh_clobber.cfg` shows
why. Their invariant says where the refresh token that the provider accepts is: in the row, in the hands
of the one claimant whose write will store it, or lost (`Kept`), with `SpendsStored`, `StoresLatest` and
`InOrder`. `RotationNeverTurns` and `CredentialsNeverGoBack` follow. The theorems assume, as `Lapse`
does, that `REFRESH_CLAIM_SECS` (60 s) outlasts two POSTs of 12 s each; the mutant of `Lapse` shows
what happens otherwise. `AbuseHoldsAreKept` needs no assumption on the callers: `HoldInv` says that what
a claimant is about to store is newer than every token anybody could write (`GrantIsNew`) and that the hold
it is about to store is the next after the row's (`HoldIsNext`), which the claim protects.

**AccountsProofs.** Three layers. `AccountsInv` says what each transaction holds: a claim past its look at
the request holds its lock and the request has no key yet (`MintOK`), a transfer past its look at the
proof holds the key's lock and the key still proves (`ProofOK`). With it `NoKeyIsOrphaned` and
`ProofsHold`. Each action is shown to respect the rows others have locked (`RowsRespected`), and one
lemma (`OthersKeep`) then carries every other process's part over the step. `LinksInv` adds what the
locks on accounts protect: a transfer past its locks holds both accounts, its claimer is alive and a
signed review holds what it decides (`TransferOK`); a claim past its look at the request works on an
approved one of its own (`ClaimingOK`). `ClaimsEnd` follows because the account a transfer links to is unclaimed while it is
locked, so no set of claimed accounts is closed under the links; `ApprovalsAreMoves` because a claimed
account is never claimable again, and a review keeps what the marker saw while it waits for its signer.
The lock on the claimer's row is what all of these need, and the mutants drop it.

`MintsAreApproved` is what `MintOK` and `ClaimingOK` say of the place before the mint: the lock on the
request keeps both.
`KeysAreNotLeftBehind` is inductive with the layers above: a claim of either server holds a request in the
claimer's name, so a mint for an absorbed account is for a request filed after the transfer, which would
have moved it; and a transfer moves every row its target has at that moment. That such keys are not ruled
out altogether is among the observations above.

`LocksAreOrdered` takes a third layer, `OrderInv`: a process holds only the rows its place has locked
(`HeldOK`), and an account that it holds out of order is one it inserted itself, which no other process can
name (`InsertOK`, `KnownOK`). In a circle of waiting processes with nobody `OutOfOrder`, that is without a
Go claim at its mint and without a signed review, there would be a greatest row held, and its holder waits
for a greater one. The exception cannot be dropped: `Accounts_circle.cfg`. The theorem uses that account
ids are numbers (`UserIds`, the `serial` primary key) and that a finite set of numbers has a greatest
member.

**FeedsProofs.** `FeedImplementsBound`: every step of `Feeds` is a step of `BoundedFeed` or a stutter. The
invariant `AgeInv` bounds the age of a version wherever it is kept: in the blob it was current when it was
put, in a reader's hands it was current at most `SnapshotTTL` ago, in the cache at most the sum of the TTLs
before the entry expires. A new version costs nothing: the one it replaces was current until now
(`ReplacedNow`). `WaitersAreServed` rests on `FlightInv`: the flight of a key names the one reader that
leads it. Both assume that the store dates its answers (`Dated`).

**ServicesProofs.** The parts of `Services` have separate variables, so a step of the system is a step of
each part or leaves it alone (`PartsStep`); each result needs the inductive invariant of its part only.

- `WaitingPagePolls` (`PageInv`): whatever is lost, the code on show has exactly one timer or poll, and no
  other code has any.
- `RefreshesFlySingly`: the part's `TidalRefresh` satisfies the assumptions of `TidalRefreshProofs`, whose
  theorem is used as it stands, leases and checks together.
- `SweepEndsWithAll` (`SweepInv`): a row still owed lies ahead of the cursor, and while a call is under way it
  is in the queue, at the status the call read, with its check not returned (`OwedIsAhead`). A row that is
  written moves behind all others, so nothing that is owed falls behind a cursor. `VerdictsAreUntainted` from
  the same invariant: a refused fetch means that the budget or the ceiling stays used up (`RefusedIsSpent`).
- `BudgetIsNotOversubscribed` (`BudgetInv`): what is reserved is the number of fetches that the checks under
  way may still make, counted as units of their ceilings, and together with what was spent it lies within the
  budget: a fetch moves one unit from one to the other, the end of a check releases its own units and nobody
  else's. `RowsAreCheckedOnce` (`OnceInv`): whoever checks has a row that is started, not finished, and
  nobody else's. `SweepTypeCorrect` adds the bounds on calls (`CountsInv`). No run lists these three; TLC
  found no violation of them on instances of `SweepBatch` before they were proved.
- `ReplacementsAreEarned` (`LeaseInv`): the releases that may still come of an account by a key, one for each
  answer on its way and one for a lease row, are counted and covered by hand-outs (`Covered`). `lease # Absent`
  implies `credit > 0` is not inductive by itself: an overlapping request could write the row after the credit
  was spent.
- `SignInsAreOwn` (`SignInv`): where a tab is tells why it got there (`TabKnows`): the names it passed over
  are taken, and an insert that brought no row means that the name or the identity has an account. Accounts
  are added and closed but never change their name or identity, so what a tab knows stays true.
- `VerdictsAreEarned` (`CheckInv`): at each request of a check, what was concluded so far has its reason in
  what the source said (`Backed`), for every service and both servers. It assumes that no developer
  token in the cache has expired or that there is no Apple entry; `Checks_expired.cfg` refutes it otherwise.
- `WindowsHold` (`LimitInv`): a bucket's hits are the last of its grants, all older ones out of the window
  (`Tailed`); a counter says how many of the last grants lie in the window that has begun, and that the
  limit's worth before it is older by a window (`Counts`), whence twice the limit and no more.

The constants' assumptions are in `Services`: sets of requests, rows, workers, legacy accounts and buckets are finite,
the placeholders for nobody and no key lie outside the sets of processes and keys, TTLs, limits and windows
are positive.

## What is only model-checked

- All liveness: `ParkedIsReverified`, `QueuedIsWoken`, `RefreshIsRetried`, `JobIsGrantedAgain`,
  `TailIsReached`, `RotationReachesAll`, `RevivedAgain`: the prover has neither fairness nor `ENABLED`.
- The violations, and the properties of the configurations kept beside the runs.
- Two type invariants: `LeasesTypeOK`, whose queues are sorted lists (their induction is beyond the prover;
  the parts the results need are in `LeaseTyped`), and `RenewalTypeOK`, of a module with liveness only. TLC
  found both to hold on the instances of `background`.

Every safety property of a passing run has a theorem; the premises of those that have one are named above.

## Not modelled

Of the modelled components:

- Entries: deletion of rows (`admin/purge-entry`), the health log, and the counters nothing reads. The
  purges are `Moderate`, which removes in any state: their predicate, a week of the health log, is not
  modelled, since the log is append-only and nothing else reads it.
- `EntryHealthGo`: the sync's own lease (syncs may overlap there), payload migration.
- `ConnPool` and `JobLease`: `EnsureSchema`, which runs before every statement; which idle connection is
  reused.
- `TidalRefresh`: the pool-wide hold, an input; resubmission or deletion of the row; payloads whose only credential is
  `token`; refreshes of an entry
  whose row has vanished, which post without a claim; the Go server's refresh, which takes no claim at all.
- `Feeds`: the cache's bound on the number of keys and the callers' contexts.
- `Accounts`, `SignIn`: keys without an owner, the use counter, passwords, the audit log, the callback's
  redirect when the database fails. Roles do not change; who signs a decision is any account that is an
  administrator's, absorbed meanwhile or not. A statement that changes several rows takes their locks at
  once: that it keeps some while it waits for the rest is left out.

Not modelled at all:

- Schema and migrations (`lib/db/ensure.ts`, `server/internal/schema`): data definitions, which the
  models take as they are, and idempotent start-up statements. The one-time copy of the old tables is
  run again at each start and skips what is there; `setval` on the shared sequence may race with inserts
  of another instance. Both would need the old deployment's tables, which nothing else in the code
  describes.
- The wire protocol client (`server/internal/pgwire`): sequential, one user per connection; what it
  reports is an input of `ConnPool`.
- Cryptography and key derivation: pure functions over byte strings, out of TLC's reach.
- Routing, request parsing and rendering, and the rest of the user interface: they keep no shared state of
  their own.
