------------------------------- MODULE Renewal -------------------------------
(***************************************************************************)
(* How checks and submissions rewrite the stored credential of a Qobuz or  *)
(* Deezer account (lib/health.ts, lib/ingest.ts).  A rejected Qobuz token  *)
(* is renewed by a login with the stored password, which swaps the row's   *)
(* fingerprint with the token; a rotated app secret is scraped and written *)
(* into every row that has the old one; a working Deezer cookie is rotated *)
(* for a new one.  All of them write the whole payload, most without       *)
(* looking whether it changed since they read it.                          *)
(*                                                                         *)
(* Credentials are numbers, reused once nobody holds them.  Abstracted:    *)
(* the cooldown, the poll of a caller that lost the claim, and a payload's *)
(* other fields.                                                           *)
(***************************************************************************)
EXTENDS Naturals, FiniteSets

CONSTANTS Services,     \* of "qobuz" and "deezer"
          Checks,       \* sweeps and single checks of the account
          Submits,      \* resubmissions of it
          Healers,      \* checks of other accounts of the app, which find its secret rotated
          MaxRotations, \* bound: rotations of the app secret
          MaxHarm       \* bound: sessions ended, callers that die or are suspended

Callers == Checks \cup Submits \cup Healers
Unclaimed == 0
RenewalConstants == Services \subseteq {"qobuz", "deezer"} /\ Unclaimed \notin Callers

VARIABLES service,
          cred, print, secret,   \* the row: token or cookie, whose fingerprint it has, app secret
          claim, live,           \* refresh_in_flight_until: whose it is, and whether it is in the future
          accepted,              \* provider: the credentials it accepts
          appSecret,             \* provider: the current app secret
          pc, hand,
          harm                   \* how often either has happened

rowVars == <<cred, print, secret, claim, live>>
vars == <<service, cred, print, secret, claim, live, accepted, appSecret, pc, hand, harm>>

\* What a caller goes by: the credential, the fingerprint it works for (of a submission, the
\* submitted credential), the app secret it read, that of the payload it will write, what it
\* was issued, and whether it has the claim.
NoHand == [cred |-> 0, print |-> 0, secret |-> 0, base |-> 0, next |-> 0, claimed |-> FALSE]
Creds == 0 .. (2 + 3 * Cardinality(Callers))

RenewalTypeOK ==
    /\ cred \in Creds /\ print \in Creds /\ secret \in 0..MaxRotations
    /\ claim \in Callers \cup {Unclaimed} /\ live \in BOOLEAN
    /\ accepted \subseteq Creds /\ appSecret \in 0..MaxRotations /\ harm \in 0..MaxHarm
    /\ pc \in [Callers -> {"out", "migrate", "probe", "gate", "login", "rotate", "finish",
                           "secret", "heal", "rewrite", "save"}]
    /\ hand \in [Callers -> [cred : Creds, print : Creds, secret : 0..MaxRotations,
                             base : 0..MaxRotations, next : Creds, claimed : BOOLEAN]]

Init ==
    /\ service \in Services
    /\ cred = 1 /\ print = 1 /\ secret = 0
    /\ claim = Unclaimed /\ live = FALSE
    /\ accepted = {1} /\ appSecret = 0
    /\ pc = [p \in Callers |-> "out"] /\ hand = [p \in Callers |-> NoHand]
    /\ harm = 0

Goto(p, place) == pc' = [pc EXCEPT ![p] = place]
Leave(p) == Goto(p, "out") /\ hand' = [hand EXCEPT ![p] = NoHand]
\* A submission saves what it was given; a check is over.
Passed(p) == IF p \in Submits THEN Goto(p, "save") /\ UNCHANGED hand ELSE Leave(p)

\* Credentials anyone still knows, and one that nobody does.
Held == {cred, print} \cup UNION {{hand[p].cred, hand[p].print, hand[p].next} : p \in Callers}
Fresh == CHOOSE n \in Creds \ (Held \cup {0}) : \A o \in Creds \ (Held \cup {0}) : n <= o

----------------------------------------------------------------------------
(* The check up to the provider's word on the credential. *)

\* The row is read by a check; a contributor submits a credential that works.
Start(p) ==
    /\ pc[p] = "out" /\ p \notin Healers
    /\ IF p \in Checks
       THEN /\ Goto(p, "migrate")
            /\ hand' = [hand EXCEPT ![p] = [NoHand EXCEPT !.cred = cred, !.print = print,
                                                     !.secret = secret, !.base = secret]]
       ELSE /\ Goto(p, "probe")
            /\ \E c \in accepted \cap Held :
                  hand' = [hand EXCEPT ![p] = [NoHand EXCEPT !.cred = c, !.print = c,
                                                              !.secret = appSecret, !.base = appSecret]]
    /\ UNCHANGED <<service, rowVars, accepted, appSecret>>

\* The payload that was read is written back, encrypted anew.
Migrate(p) ==
    /\ pc[p] = "migrate"
    /\ cred' = hand[p].cred /\ secret' = hand[p].secret
    /\ Goto(p, "probe")
    /\ UNCHANGED <<service, print, claim, live, accepted, appSecret, hand>>

\* user/get or getUserData: a rejected cookie is dead, a rejected token may be renewed.
Probe(p) ==
    /\ pc[p] = "probe"
    /\ IF hand[p].cred \in accepted
       THEN Goto(p, IF service = "qobuz" THEN "secret" ELSE "gate") /\ UNCHANGED hand
       ELSE IF service = "qobuz" THEN Goto(p, "gate") /\ UNCHANGED hand
       ELSE Leave(p)
    /\ UNCHANGED <<service, rowVars, accepted, appSecret>>

----------------------------------------------------------------------------
(* Renewal and rotation. *)

Busy(p) == IF service = "qobuz" THEN "login" ELSE "rotate"
Claimable == claim = Unclaimed \/ ~live

\* claimRefresh: the claim's RETURNING replaces the payload read before.
Claim(p) ==
    /\ pc[p] = "gate" /\ print = hand[p].print /\ Claimable
    /\ claim' = p /\ live' = TRUE
    /\ hand' = [hand EXCEPT ![p].cred = cred, ![p].base = secret, ![p].claimed = TRUE]
    /\ Goto(p, Busy(p))
    /\ UNCHANGED <<service, cred, print, secret, accepted, appSecret>>

\* gateRefresh finds no row under the fingerprint, as another check renewed it meanwhile: the
\* login is made without a claim.
GateWithoutRow(p) ==
    /\ pc[p] = "gate" /\ service = "qobuz" /\ print # hand[p].print
    /\ Goto(p, "login")
    /\ UNCHANGED <<service, rowVars, accepted, appSecret, hand>>

\* The claim is held elsewhere: a renewal is skipped, a rotation left to the other.
LoseClaim(p) ==
    /\ pc[p] = "gate"
    /\ \/ print = hand[p].print /\ ~Claimable
       \/ service = "deezer" /\ print # hand[p].print
    /\ IF service = "qobuz" THEN Leave(p) ELSE Passed(p)
    /\ UNCHANGED <<service, rowVars, accepted, appSecret>>

\* qobuzLogin: a new token, or none.
Login(p) ==
    /\ pc[p] = "login"
    /\ Goto(p, "finish")
    /\ \/ /\ accepted' = (accepted \cap Held) \cup {Fresh}
          /\ hand' = [hand EXCEPT ![p].next = Fresh]
       \/ UNCHANGED <<accepted, hand>>
    /\ UNCHANGED <<service, rowVars, appSecret>>

\* rotateDeezerArl: getUserData and getArl; the old cookie is dead from then on.
Rotate(p) ==
    /\ pc[p] = "rotate"
    /\ Goto(p, "finish")
    /\ \/ /\ hand[p].cred \in accepted
          /\ accepted' = {Fresh}
          /\ hand' = [hand EXCEPT ![p].next = Fresh]
       \/ UNCHANGED <<accepted, hand>>
    /\ UNCHANGED <<service, rowVars, appSecret>>

\* The update is looked for under the fingerprint; a claimed one also by its claim.  Mutant: by
\* the new one.
ByNewPrint(p) == print = hand[p].next /\ (hand[p].claimed => claim = p)
MyRow(p) == print = hand[p].print /\ (hand[p].claimed => claim = p)

\* finishRefresh: the new credential and the release in one update, or the release alone.  An
\* update that fails is forgotten.
Finish(p) ==
    /\ pc[p] = "finish"
    /\ LET h == hand[p]
           token == h.next # 0
       IN \/ /\ MyRow(p)
             /\ claim' = (IF h.claimed THEN Unclaimed ELSE claim) /\ live' = (live /\ ~h.claimed)
             /\ cred' = (IF token THEN h.next ELSE cred)
             /\ secret' = (IF token THEN h.base ELSE secret)
             /\ print' = (IF token /\ service = "qobuz" THEN h.next ELSE print)
          \/ UNCHANGED rowVars
    /\ IF service = "deezer" THEN Passed(p)
       ELSE IF hand[p].next \in accepted THEN Goto(p, "secret") /\ UNCHANGED hand ELSE Leave(p)
    /\ UNCHANGED <<service, accepted, appSecret>>

----------------------------------------------------------------------------
(* The app secret. *)

\* checkQobuzAppSecret with the secret of the payload.
Secret(p) ==
    /\ pc[p] = "secret"
    /\ IF hand[p].secret = appSecret THEN Passed(p)
       ELSE Goto(p, "heal") /\ UNCHANGED hand
    /\ UNCHANGED <<service, rowVars, accepted, appSecret>>

HealerStarts(p) ==
    /\ p \in Healers /\ pc[p] = "out" /\ service = "qobuz" /\ appSecret > 0
    /\ Goto(p, "heal") /\ hand' = [hand EXCEPT ![p].secret = appSecret - 1]
    /\ UNCHANGED <<service, rowVars, accepted, appSecret>>

\* scrapeQobuzAppSecret finds the new secret, and the rows that carry the stale one are read;
\* or it finds nothing, and the check fails.
HealRead(p) ==
    /\ pc[p] = "heal"
    /\ \/ /\ secret = hand[p].secret
          /\ Goto(p, "rewrite")
          /\ hand' = [hand EXCEPT ![p].next = cred, ![p].base = appSecret]
       \/ secret # hand[p].secret /\ Passed(p)
       \/ Leave(p)
    /\ UNCHANGED <<service, rowVars, accepted, appSecret>>

\* healQobuzAppSecret rewrites each row by its id, with the payload it read.
HealWrite(p) ==
    /\ pc[p] = "rewrite"
    /\ \/ cred' = hand[p].next /\ secret' = hand[p].base
       \/ UNCHANGED <<cred, secret>>
    /\ Passed(p)
    /\ UNCHANGED <<service, print, claim, live, accepted, appSecret>>

----------------------------------------------------------------------------
\* ingestSource's upsert: the payload as submitted, whatever its check renewed.  Under another
\* fingerprint it is another row.
Save(p) ==
    /\ pc[p] = "save"
    /\ IF print = hand[p].print THEN cred' = hand[p].print /\ secret' = hand[p].secret
       ELSE UNCHANGED <<cred, secret>>
    /\ Leave(p)
    /\ UNCHANGED <<service, print, claim, live, accepted, appSecret>>

\* The provider ends every session of the account, or rotates the app's secret.
Revoke ==
    /\ service = "qobuz" /\ accepted # {} /\ harm < MaxHarm
    /\ accepted' = {}
    /\ harm' = harm + 1
    /\ UNCHANGED <<service, rowVars, appSecret, pc, hand>>
RotateSecret ==
    /\ service = "qobuz" /\ appSecret < MaxRotations
    /\ appSecret' = appSecret + 1
    /\ UNCHANGED <<service, rowVars, accepted, pc, hand>>

\* A claim outlasts every request made under it; one that lapses while its owner is at work (a
\* process that was suspended) is counted as harm.
AtWork == claim # Unclaimed /\ pc[claim] \in {"login", "rotate", "finish"} /\ hand[claim].claimed
Lapse ==
    /\ live /\ (AtWork => harm < MaxHarm)
    /\ live' = FALSE /\ harm' = (IF AtWork THEN harm + 1 ELSE harm)
    /\ UNCHANGED <<service, cred, print, secret, claim, accepted, appSecret, pc, hand>>
Crash(p) ==
    /\ pc[p] # "out" /\ harm < MaxHarm
    /\ harm' = harm + 1 /\ Leave(p)
    /\ UNCHANGED <<service, rowVars, accepted, appSecret>>

CallerNext(p) ==
    \/ Migrate(p) \/ Probe(p) \/ Claim(p) \/ GateWithoutRow(p) \/ LoseClaim(p) \/ Login(p) \/ Rotate(p)
    \/ Finish(p) \/ Secret(p) \/ HealRead(p) \/ HealWrite(p) \/ Save(p)
Next ==
    \/ /\ UNCHANGED harm
       /\ RotateSecret \/ \E p \in Callers : Start(p) \/ HealerStarts(p) \/ CallerNext(p)
    \/ Lapse \/ Revoke \/ \E p \in Callers : Crash(p)
Spec == Init /\ [][Next]_vars

\* The cron job keeps checking; of the logins and of the updates that store a token, not every
\* one fails.
Step(p) == (Start(p) \/ CallerNext(p)) /\ UNCHANGED harm
Issues(p) == Login(p) /\ hand'[p].next # 0 /\ UNCHANGED harm
Stores(p) == Finish(p) /\ cred' = hand[p].next /\ UNCHANGED harm
Fairness ==
    /\ WF_vars(Lapse)
    /\ \A p \in Checks : WF_vars(Step(p)) /\ SF_vars(Issues(p)) /\ SF_vars(Stores(p))
FairSpec == Spec /\ Fairness

----------------------------------------------------------------------------
\* A Qobuz account with a stored password gets a token that works again, however often it lost
\* one: sessions end at any time, callers die holding the claim, older payloads are written back
\* over a renewed token, and fingerprints are swapped under those at work.
RevivedAgain == service = "qobuz" => []<>(cred \in accepted)

\* "only WORKING + PREMIUM sources are stored": the credential a submission saves is one that
\* the provider accepts.
SavedWorks == [][\A p \in Submits : Save(p) /\ print = hand[p].print => cred' \in accepted]_vars
=============================================================================
