---------------------------- MODULE TidalRefresh ----------------------------
(***************************************************************************)
(* How the app refreshes the credential of one Tidal account (lib/health.ts*)
(* ensureFreshTidalToken, gateRefresh, tryRefreshTidalToken, finishRefresh)*)
(* while several requests find its access token expired.  The provider may *)
(* rotate the refresh token with every grant, after which it rejects the   *)
(* old one; so one request claims the row, spends the refresh token and    *)
(* stores the new credential in the update that releases the claim, and    *)
(* the others wait for that.  Requests die, answers and writes are lost,   *)
(* and a claim that nobody releases lapses.                                *)
(*                                                                         *)
(* Credentials are numbered by the grant that issued them.  Abstracted:    *)
(* which token is expired and the pool-wide hold that other accounts'      *)
(* rejections raise (a caller may turn away at the gate at any time);      *)
(* resubmission and deletion of the row.  A payload whose only credential  *)
(* is `token`, which serves as its refresh token too, is left out: storing *)
(* a grant that did not rotate replaces it by the access token.            *)
(***************************************************************************)
EXTENDS Integers

CONSTANTS Leases,      \* requests that lease accounts and refresh what they are about to serve
          Checks,      \* health checks, which write the payload they read before they probe
          NoOne,       \* no claim on the row
          LoserTries,  \* REFRESH_LOSER_TRIES
          MaxBackoff,  \* doublings from the shortest abuse cooldown to the longest, plus one
          MaxGrants    \* bound: grants the provider makes

Callers == Leases \cup Checks

ASSUME CallersAssumption == NoOne \notin Callers
ASSUME BoundsAssumption == LoserTries \in Nat /\ MaxBackoff \in Nat \ {0} /\ MaxGrants \in Nat

VARIABLES token,     \* the row's access token
          refresh,   \* the row's refresh token
          claim,     \* whose deadline refresh_in_flight_until is
          live,      \* that deadline is in the future
          cooling,   \* refresh_cooldown_until is in the future
          backoff,   \* refresh_backoff_ms: 0 is null, n the n-th step from 15 minutes to 6 hours
          grants,    \* provider: grants made
          honoured,  \* provider: the refresh token it accepts
          lost,      \* history: a rotated refresh token was issued and will never be stored
          pc,        \* where each caller is
          known,     \* the access token of the payload it read
          cred,      \* the refresh token of that payload, then of the claim, then of the grant
          got,       \* the access token it was granted
          hold,      \* the abuse backoff it is about to store
          tries      \* polls it has made

row == <<token, refresh, claim, live, cooling, backoff>>
provider == <<grants, honoured>>
hands == <<known, cred, got, hold, tries>>
vars == <<token, refresh, claim, live, cooling, backoff, grants, honoured, lost,
          pc, known, cred, got, hold, tries>>

Init ==
    /\ token = 0 /\ refresh = 0
    /\ claim = NoOne /\ live = FALSE /\ cooling = FALSE /\ backoff = 0
    /\ grants = 0 /\ honoured = 0 /\ lost = FALSE
    /\ pc = [p \in Callers |-> "out"]
    /\ known = [p \in Callers |-> 0] /\ cred = [p \in Callers |-> 0]
    /\ got = [p \in Callers |-> 0] /\ hold = [p \in Callers |-> 0]
    /\ tries = [p \in Callers |-> 0]
-----------------------------------------------------------------------------
(* Helpers. *)

Goto(p, place) == pc' = [pc EXCEPT ![p] = place]

\* The caller is done with the credential, for better or worse.
Leave(p) ==
    /\ Goto(p, "out")
    /\ known' = [known EXCEPT ![p] = 0] /\ cred' = [cred EXCEPT ![p] = 0]
    /\ got' = [got EXCEPT ![p] = 0] /\ hold' = [hold EXCEPT ![p] = 0]
    /\ tries' = [tries EXCEPT ![p] = 0]

\* nextAbuseCooldown: the stored step doubles up to the cap.  Mutant: without the cap.
NextBackoffUncapped(b) == b + 1
NextBackoff(b) == IF b < MaxBackoff THEN b + 1 ELSE b

\* p holds the only copy of the refresh token the provider accepts.
Unstored(p) == pc[p] = "store" /\ cred[p] = honoured /\ refresh # honoured

\* claimRefresh's WHERE.  Mutants: the cooldown is left to the gate's earlier read; a lapsed
\* claim still excludes.
ClaimableByClaim == claim = NoOne \/ ~live
ClaimableIfReleased == claim = NoOne /\ ~cooling
Claimable == (claim = NoOne \/ ~live) /\ ~cooling
-----------------------------------------------------------------------------
(* On the way to the claim. *)

\* The row is read: the sweep's and the single check's select, the lease's candidate rows.
Start(p) ==
    /\ pc[p] = "out"
    /\ Goto(p, IF p \in Checks THEN "migrate" ELSE "gate")
    /\ known' = [known EXCEPT ![p] = token] /\ cred' = [cred EXCEPT ![p] = refresh]
    /\ UNCHANGED <<row, provider, lost, got, hold, tries>>

\* A check writes back, encrypted anew, the payload it read.
Migrate(p) ==
    /\ pc[p] = "migrate"
    /\ token' = known[p] /\ refresh' = cred[p]
    /\ Goto(p, "gate")
    /\ UNCHANGED <<claim, live, cooling, backoff, provider, lost, hands>>

\* The access token still works, the row is cooling, or the pool-wide hold is on.
TurnAway(p) == pc[p] = "gate" /\ Leave(p) /\ UNCHANGED <<row, provider, lost>>

\* gateRefresh's read of the row finds no cooldown.
Gate(p) == pc[p] = "gate" /\ ~cooling /\ Goto(p, "claim") /\ UNCHANGED <<row, provider, lost, hands>>

\* The claim is won: its RETURNING replaces the payload read before.  A rotated credential that
\* a lapsed claim's owner still has to store will then find its claim gone.  Mutant: the caller
\* goes on with the payload it read before.
ClaimWith(p, c) ==
    /\ pc[p] = "claim" /\ Claimable
    /\ claim' = p /\ live' = TRUE
    /\ lost' = (lost \/ \E q \in Callers : q = claim /\ Unstored(q))
    /\ cred' = [cred EXCEPT ![p] = c]
    /\ Goto(p, "post")
    /\ UNCHANGED <<token, refresh, cooling, backoff, provider, known, got, hold, tries>>
ClaimStale(p) == ClaimWith(p, cred[p])
Claim(p) == ClaimWith(p, refresh)

\* The claim is lost: wait for the claimant.
LoseClaim(p) == pc[p] = "claim" /\ ~Claimable /\ Goto(p, "wait") /\ UNCHANGED <<row, provider, lost, hands>>

\* A poll finds the claim live and the budget of polls not spent.
PollAgain(p) ==
    /\ pc[p] = "wait" /\ claim # NoOne /\ live /\ tries[p] + 1 < LoserTries
    /\ tries' = [tries EXCEPT ![p] = @ + 1]
    /\ UNCHANGED <<row, provider, lost, pc, known, cred, got, hold>>

\* The last poll, or one that finds the claim resolved: the caller serves the token another
\* refresh stored, or skips.  A poll that fails skips as well.
PollEnds(p) == pc[p] = "wait" /\ Leave(p) /\ UNCHANGED <<row, provider, lost>>
-----------------------------------------------------------------------------
(* With the claim: the POST, then the write that ends the claim. *)

\* What the provider does with a refresh token it accepts: a new access token, and perhaps a
\* new refresh token in place of the old one.
Grant(p, r) ==
    /\ cred[p] = honoured /\ grants < MaxGrants
    /\ r \in {honoured, grants + 1}
    /\ grants' = grants + 1 /\ honoured' = r

\* The answer arrives with the new credential.
Granted(p) == \E r \in 0 .. MaxGrants :
    /\ pc[p] = "post" /\ Grant(p, r)
    /\ got' = [got EXCEPT ![p] = grants + 1] /\ cred' = [cred EXCEPT ![p] = r]
    /\ Goto(p, "store")
    /\ UNCHANGED <<row, lost, known, hold, tries>>

\* The grant is made and its answer is lost: the fetch throws.
AnswerLost(p) == \E r \in 0 .. MaxGrants :
    /\ pc[p] = "post" /\ Grant(p, r)
    /\ lost' = (lost \/ r # honoured)
    /\ Goto(p, "cool")
    /\ UNCHANGED <<row, hands>>

\* No grant: a 5xx or a fetch that throws ("cool"); 429 or abuse ("abuse"); a rejected token, a
\* retired client, no access token, an exhausted fetch budget ("free").
NotGranted(p) == \E place \in {"cool", "abuse", "free"} :
    /\ pc[p] = "post"
    /\ Goto(p, place)
    /\ UNCHANGED <<row, provider, lost, hands>>

\* After an abuse answer the stored backoff is read again; a read that fails starts it over.
ReadBackoff(p) == \E b \in {NextBackoff(backoff), 1} :
    /\ pc[p] = "abuse"
    /\ hold' = [hold EXCEPT ![p] = b]
    /\ Goto(p, "hold")
    /\ UNCHANGED <<row, provider, lost, known, cred, got, tries>>

\* finishRefresh's SET: the new credential clears cooldown and backoff, a failure cools, an
\* abuse answer cools and stores the longer hold, anything else only releases.
Outcome(p) ==
    /\ claim' = NoOne /\ live' = FALSE
    /\ IF pc[p] = "store"
       THEN token' = got[p] /\ refresh' = cred[p] /\ cooling' = FALSE /\ backoff' = 0
       ELSE /\ UNCHANGED <<token, refresh>>
            /\ cooling' = (cooling \/ pc[p] \in {"cool", "hold"})
            /\ backoff' = IF pc[p] = "hold" THEN hold[p] ELSE backoff

\* finishRefresh: the write happens if the claim is still this caller's, and a write that fails
\* is swallowed.  A check whose new token does not open a session tries once more with the
\* payload it read.  Mutant: whoever's claim it is.
FinishIf(p, mine) ==
    /\ pc[p] \in {"store", "cool", "hold", "free"}
    /\ \/ mine /\ Outcome(p) /\ UNCHANGED lost
       \/ UNCHANGED row /\ lost' = (lost \/ Unstored(p))
    /\ \/ Leave(p)
       \/ p \in Checks /\ pc[p] = "store" /\ Goto(p, "gate") /\ UNCHANGED hands
    /\ UNCHANGED provider
FinishAnyones(p) == FinishIf(p, TRUE)
Finish(p) == FinishIf(p, claim = p)
-----------------------------------------------------------------------------
(* Time and failures. *)

\* REFRESH_CLAIM_SECS outlasts every POST, but not every write after it.  Mutant: it does not.
LapseMidPost ==
    /\ live /\ live' = FALSE
    /\ UNCHANGED <<token, refresh, claim, cooling, backoff, provider, lost, pc, hands>>
Lapse ==
    /\ live /\ \A p \in Callers : p = claim => pc[p] # "post"
    /\ live' = FALSE
    /\ UNCHANGED <<token, refresh, claim, cooling, backoff, provider, lost, pc, hands>>

CooldownEnds ==
    /\ cooling /\ cooling' = FALSE
    /\ UNCHANGED <<token, refresh, claim, live, backoff, provider, lost, pc, hands>>

\* The request dies, or a statement's answer never arrives; a claim it made stays behind.
Crash(p) ==
    /\ pc[p] # "out"
    /\ lost' = (lost \/ Unstored(p))
    /\ Leave(p)
    /\ UNCHANGED <<row, provider>>

Post(p) == Granted(p) \/ AnswerLost(p) \/ NotGranted(p)

Next ==
    \/ Lapse \/ CooldownEnds
    \/ \E p \in Callers :
          \/ Start(p) \/ Migrate(p) \/ TurnAway(p) \/ Gate(p)
          \/ Claim(p) \/ LoseClaim(p) \/ PollAgain(p) \/ PollEnds(p)
          \/ Post(p) \/ ReadBackoff(p) \/ Finish(p) \/ Crash(p)

Spec == Init /\ [][Next]_vars

\* Time passes; calls end, with an answer, an error or the death of the request; and of all the
\* requests that find the token expired, not every one gives up before its claim.
Fairness ==
    /\ WF_vars(Lapse) /\ WF_vars(CooldownEnds)
    /\ \A p \in Callers :
          /\ SF_vars(Start(p)) /\ SF_vars(Migrate(p)) /\ SF_vars(Gate(p)) /\ SF_vars(Claim(p))
          /\ WF_vars(LoseClaim(p) \/ PollAgain(p) \/ Post(p) \/ ReadBackoff(p) \/ Finish(p))
          /\ WF_vars(PollEnds(p))
FairSpec == Spec /\ Fairness

\* What requests do between the health checks: Next without the write only a check makes.
RequestsNext ==
    \/ Lapse \/ CooldownEnds
    \/ \E p \in Leases :
          \/ Start(p) \/ TurnAway(p) \/ Gate(p)
          \/ Claim(p) \/ LoseClaim(p) \/ PollAgain(p) \/ PollEnds(p)
          \/ Post(p) \/ ReadBackoff(p) \/ Finish(p) \/ Crash(p)
RequestsSpec == Init /\ [][RequestsNext]_vars /\ Fairness
-----------------------------------------------------------------------------
(* Properties. *)

\* Every variable stays in its range.
TypeOK ==
    /\ token \in 0 .. MaxGrants /\ refresh \in 0 .. MaxGrants
    /\ claim \in Callers \cup {NoOne}
    /\ live \in BOOLEAN /\ cooling \in BOOLEAN /\ lost \in BOOLEAN
    /\ backoff \in 0 .. MaxBackoff
    /\ grants \in 0 .. MaxGrants /\ honoured \in 0 .. MaxGrants
    /\ pc \in [Callers -> {"out", "migrate", "gate", "claim", "wait", "post", "abuse",
                           "store", "cool", "hold", "free"}]
    /\ known \in [Callers -> 0 .. MaxGrants] /\ cred \in [Callers -> 0 .. MaxGrants]
    /\ got \in [Callers -> 0 .. MaxGrants] /\ hold \in [Callers -> 0 .. MaxBackoff]
    /\ tries \in [Callers -> 0 .. LoserTries]

\* "whoever wins the conditional UPDATE refreshes; everyone else waits": no two callers have a
\* POST to the token endpoint under way for one account.
SingleFlight == \A p, q \in Callers : pc[p] = "post" /\ pc[q] = "post" => p = q

\* "a cooldown written between the caller's earlier read and this claim cannot be slipped past":
\* nobody talks to the token endpoint while the account's cooldown is in force.
CooldownRespected == \A p \in Callers : pc[p] = "post" => ~cooling

\* Rotation never turns against the pool: what a caller spends is the token the provider
\* accepts, unless a rotated one was already lost with a request, an answer or a write.
PostsHonoured == \A p \in Callers : pc[p] = "post" => cred[p] = honoured \/ lost

\* "migrating afterwards could overwrite the newly issued credential": a stored refresh token is
\* never replaced by one issued before it.
RotationIsKept == [][refresh' >= refresh]_vars

\* The abuse hold "survives the cooldown itself expiring": it falls only with a newly stored
\* credential, or to the first step when reading it failed, and it grows one step at a time.
BackoffIsKept ==
    [][backoff' # backoff =>
          \/ backoff' = 0 /\ token' > token
          \/ backoff' \in {1, NextBackoff(backoff)}]_vars

\* "a lapsed claim self-heals": the account is refreshed again and again, although any request
\* may die or lose its write while it holds the claim.
RefreshIsRetried == []<>(\E p \in Callers : pc[p] = "post")
=============================================================================
