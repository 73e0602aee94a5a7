-------------------------------- MODULE Checks --------------------------------
(***************************************************************************)
(* The health checks of the two servers (runCheck in lib/health.ts,        *)
(* RunCheck in health/health.go): what a check asks a source, request by   *)
(* request, and the verdict it forms.  The source's condition may change   *)
(* between two requests, and any request may fail in transit.              *)
(*                                                                         *)
(* Abstracted: an answer is its HTTP status (503 for every 5xx, 404 for    *)
(* every other one, none when the request throws) and what the check reads *)
(* in its body.  What a credential refresh does to the row is              *)
(* TidalRefresh's and Renewal's; here it is a request that yields a token, *)
(* is refused, or is skipped.                                              *)
(***************************************************************************)
EXTENDS Naturals, FiniteSets

CONSTANTS Sources,     \* of Instances \cup Logins: what is checked
          Zeros,       \* JSON values an exhausted Deezer pool may give for its counts
          DevTokens    \* the cached Apple developer token when a check begins

Instances == {"api", "amazonInstance", "deezerInstance"}
Logins == {"tidal", "qobuz", "deezer", "apple", "amazon"}
JsonNumbers == {"absent", "0", "1", "'0'", "'1'", "''", "false"}

ChecksConstants ==
    /\ Sources \subseteq Instances \cup Logins
    /\ Zeros \subseteq JsonNumbers
    /\ DevTokens \subseteq {"none", "good", "expired"}

VARIABLES server, source,
          condition,   \* what the source would do now
          seen,        \* history: the conditions it was in during the check
          failed,      \* history: the requests that failed in transit or were skipped, and "page"
          at,          \* the request the check makes next
          premium,     \* what it knows of the entitlement
          devToken,    \* the developer token of the process
          verdict

vars == <<server, source, condition, seen, failed, at, premium, devToken, verdict>>

\* lossless and lossy sources serve; an expired one would after its token is renewed, a
\* rotated one (Qobuz) after its app secret is; one that ended (Apple) only looks alive.
Conditions(s) ==
    {"lossless", "lossy", "refusing"}
    \cup (IF s \in {"tidal", "qobuz"} THEN {"expired"} ELSE {})
    \cup (IF s = "qobuz" THEN {"rotated"} ELSE {})
    \cup (IF s = "apple" THEN {"ended"} ELSE {})

----------------------------------------------------------------------------
(* What a source answers. *)

None == [http |-> 0]
\* Requests that fail in transit: no answer, a server or rate-limit error, or another page.
Garbage == {None, [http |-> 503], [http |-> 429], [http |-> 200, doc |-> "text"]}

HiRes(c) == c \in {"lossless", "expired", "rotated"}

InstanceAnswers(s, c) ==
    IF s = "amazonInstance"
    THEN IF c = "refusing" THEN {[http |-> 200, doc |-> "json", status |-> "error", hires |-> FALSE], [http |-> 404]}
         ELSE {[http |-> 200, doc |-> "json", status |-> "named", hires |-> HiRes(c)]}
    ELSE LET doc(ok, accounts, user) ==
                 [http |-> 200, doc |-> "json", ok |-> ok, accounts |-> accounts, user |-> user, hires |-> HiRes(c)]
         IN  IF c = "refusing"
             THEN {doc("false", <<>>, FALSE), [http |-> 503]}
                  \cup {doc(ok, <<"1", a, b>>, FALSE) : ok \in {"true", "absent"}, a \in Zeros, b \in Zeros}
             ELSE {doc("true", <<>>, TRUE), doc("absent", <<>>, TRUE)}
                  \cup {doc("true", <<"1", "'1'", "0">>, FALSE), doc("absent", <<"1", "absent", "1">>, FALSE)}

\* The answers of s in condition c to the request e.
Answers(s, e, c) ==
    IF s = "api" THEN {[http |-> IF c = "refusing" THEN 404 ELSE 200, doc |-> "text", hires |-> c = "lossless"]}
    ELSE IF s \in Instances THEN InstanceAnswers(s, c)
    ELSE IF e \in {"exchange", "refresh", "renew"} THEN {[http |-> 200, token |-> c # "refusing"]}
    ELSE IF e = "scrape" THEN {[http |-> 200, token |-> TRUE]}
    ELSE IF e \in {"secret", "secret2"} THEN {[http |-> 200, signed |-> c # "rotated" \/ e = "secret2"]}
    ELSE IF e = "heal" THEN {[http |-> 200, token |-> "rotated" \in seen]}    \* another secret than the entry's
    ELSE IF c = "expired" /\ e \in {"session", "user"} THEN {[http |-> 401]}
    ELSE IF c = "refusing"
    THEN IF s \in {"deezer", "amazon"} THEN {[http |-> 200, user |-> FALSE, hires |-> FALSE]}
         ELSE {[http |-> 401], [http |-> 403]}
    ELSE IF s # "apple" THEN {[http |-> 200, user |-> TRUE, hires |-> HiRes(c)]}
    ELSE IF e = "account" THEN {[http |-> 200, active |-> c # "lossy"]}
    ELSE IF c = "ended" THEN {[http |-> 200, ended |-> TRUE, kbps |-> 0]}
    ELSE {[http |-> 200, ended |-> FALSE, kbps |-> k] : k \in {IF HiRes(c) THEN 1411 ELSE 256, 0}}

Ok(r) == r.http \in 200..299
Has(r, field) == field \in DOMAIN r

----------------------------------------------------------------------------
(* How a check goes on after an answer: the next request, or the verdict. *)

Say(v) == [at |-> "done", premium |-> FALSE, verdict |-> v]
Ask(e, p) == [at |-> e, premium |-> p, verdict |-> "none"]
classify(p) == Say(IF p THEN "alive" ELSE "preview")

\* Any answer below 500 will do; hi-res markers are looked for in a second one.
checkApi(e, r) ==
    IF e = "health" THEN IF r = None \/ r.http >= 500 THEN Say("dead") ELSE Ask("probe", FALSE)
    ELSE classify(Has(r, "hires") /\ r.hires)

\* checkApi in health.go, whose body may fail to be read after its header came.
checkAPI(e, r) == checkApi(e, r)

Json(r) == Ok(r) /\ Has(r, "doc") /\ r.doc = "json"
\* The contributor's probeUrl, when there is one, replaces the health document.
Capability(r) == {Ask("probe", FALSE), classify(r.hires)}

checkAmazonMusicInstance(e, r) ==
    IF e = "probe" THEN {classify(Has(r, "hires") /\ r.hires)}
    ELSE IF ~Json(r) \/ r.status = "error" THEN {Say("dead")}
    ELSE Capability(r)

GoAmazonMusicInstance(e, r) ==
    IF e = "probe" THEN {classify(Has(r, "hires") /\ r.hires)}
    ELSE IF Json(r) /\ r.status # "error" THEN Capability(r)
    ELSE {Say("dead")}

\* What Number(value ?? 0) takes for zero: a blank string and false, too.
NumberZeros == {"absent", "0", "'0'", "''", "false"}
\* numAttr's zeros: what is neither a number nor a numeric string is NaN.
numAttrZeros == {"absent", "0", "'0'"}
Exhausted(accounts, zeros) == accounts[1] \in {"1", "'1'"} /\ accounts[2] \in zeros /\ accounts[3] \in zeros

DeezerVerdict(e, r, zeros) ==
    IF e = "probe" THEN {classify(Has(r, "hires") /\ r.hires)}
    ELSE IF \/ ~Json(r) \/ r.ok = "false"
            \/ r.accounts # <<>> /\ Exhausted(r.accounts, zeros)
            \/ r.accounts = <<>> /\ ~r.user /\ r.ok # "true"
    THEN {Say("dead")}
    ELSE Capability(r)
checkDeezerInstance(e, r) == DeezerVerdict(e, r, NumberZeros)
GoDeezerInstance(e, r) == DeezerVerdict(e, r, numAttrZeros)

\* A token that is a refresh token is exchanged first; a 401 is worth one refresh.  The
\* subscription's body is judged when its status is good, whatever page it is.
checkTidalAccount(e, r, p) ==
    CASE e \in {"session", "session2"} ->
            IF e = "session" /\ r.http = 401 THEN Ask("refresh", FALSE)
            ELSE IF ~Ok(r) THEN Say("dead")
            ELSE IF Has(r, "user") THEN Ask("subscription", TRUE) ELSE Say("alive")
      [] e \in {"exchange", "refresh"} ->
            IF ~Has(r, "token") THEN Say("pending")
            ELSE IF r.token THEN Ask(IF e = "exchange" THEN "session" ELSE "session2", FALSE)
            ELSE Say("dead")
      [] e = "subscription" -> classify(IF Ok(r) THEN Has(r, "hires") /\ r.hires ELSE p)

\* A refresh that yields no token, for whatever reason, leaves the 401; the subscription's
\* body is judged whatever its status.
GoTidalAccount(e, r, p) ==
    CASE e \in {"session", "session2"} ->
            IF e = "session" /\ r.http = 401 THEN Ask("refresh", FALSE)
            ELSE IF ~Ok(r) THEN Say("dead")
            ELSE IF Has(r, "user") THEN Ask("subscription", TRUE) ELSE Say("alive")
      [] e \in {"exchange", "refresh"} ->
            IF Has(r, "token") /\ r.token
            THEN Ask(IF e = "exchange" THEN "session" ELSE "session2", FALSE)
            ELSE Say("dead")
      [] e = "subscription" -> classify(IF r = None THEN p ELSE Has(r, "hires") /\ r.hires)

\* Everything but a signature error means that the secret is good; a throw does not.
checkQobuzAppSecret(r) == r # None /\ (Has(r, "signed") => r.signed)
GoQobuzAppSecret(r) == r # None /\ (Has(r, "signed") => r.signed)

checkQobuzAccount(e, r, p) ==
    CASE e \in {"user", "user2"} ->
            IF e = "user" /\ r.http \in {401, 403} THEN Ask("renew", FALSE)
            ELSE IF Ok(r) /\ Has(r, "user") THEN Ask("secret", r.hires) ELSE Say("dead")
      [] e = "renew" -> IF ~Has(r, "token") THEN Say("pending")
                        ELSE IF r.token THEN Ask("user2", FALSE) ELSE Say("dead")
      [] e = "secret" -> IF checkQobuzAppSecret(r) THEN classify(p) ELSE Ask("heal", p)
      [] e = "heal" -> IF Has(r, "token") /\ r.token THEN Ask("secret2", p) ELSE Say("dead")
      [] e = "secret2" -> IF checkQobuzAppSecret(r) THEN classify(p) ELSE Say("dead")

GoQobuzAccount(e, r, p) ==
    IF e = "user" THEN IF Ok(r) /\ Has(r, "user") THEN Ask("secret", r.hires) ELSE Say("dead")
    ELSE IF GoQobuzAppSecret(r) THEN classify(p) ELSE Say("dead")

\* An invalid ARL is answered with user 0.
checkDeezerAccount(r) == IF Ok(r) /\ Has(r, "user") /\ r.user THEN classify(r.hires) ELSE Say("dead")
GoDeezerAccount(r) == IF Ok(r) /\ Has(r, "user") /\ r.user THEN classify(r.hires) ELSE Say("dead")

\* Mutant: a server error on a song is an answer.
PlaybackFails(e, r) ==
    IF r # None /\ ~Ok(r) THEN Say("dead")
    ELSE IF r = None THEN Say("pending")
    ELSE IF Has(r, "kbps") /\ r.kbps > 0 THEN classify(r.kbps >= 321)
    ELSE IF Has(r, "ended") /\ r.ended THEN Say("dead")
    ELSE IF e = "song1" THEN Ask("song2", TRUE) ELSE Say("alive")

\* Only Apple's own "session has ended" is dead; a song it does not offer, or a server error,
\* leads to the second song and then to the subscription's verdict.
probeAppleWebPlayback(e, r) ==
    IF r = None THEN Say("pending")
    ELSE IF ~Ok(r) /\ r.http # 429 /\ r.http < 500 THEN Say("dead")
    ELSE IF Has(r, "kbps") /\ r.kbps > 0 THEN classify(r.kbps >= 321)
    ELSE IF Has(r, "ended") /\ r.ended THEN Say("dead")
    ELSE IF e = "song1" THEN Ask("song2", TRUE) ELSE Say("alive")

checkAppleMusicAccount(e, r) ==
    CASE e = "scrape" -> IF r.token THEN Ask("account", FALSE) ELSE Say("pending")
      [] e = "account" -> IF r = None THEN Say("pending")
                          ELSE IF ~Ok(r) THEN Say("dead")
                          ELSE IF ~Has(r, "active") THEN Say("pending")
                          ELSE IF r.active THEN Ask("song1", TRUE) ELSE Say("preview")
      [] OTHER -> probeAppleWebPlayback(e, r)

\* appleSubscriptionVerdict: no stream is asked for.
appleSubscriptionVerdict(r) == IF Has(r, "active") THEN classify(r.active) ELSE Say("pending")
GoAppleMusicAccount(e, r) ==
    CASE e = "scrape" -> IF r.token THEN Ask("account", FALSE) ELSE Say("pending")
      [] e = "account" -> IF r = None THEN Say("pending")
                          ELSE IF ~Ok(r) \/ r = [http |-> 200, doc |-> "text"] THEN Say("dead")
                          ELSE appleSubscriptionVerdict(r)

\* Amazon is not asked: a session artifact that looks whole will do.
checkAmazonMusicAccount(r) == Say(IF r.user THEN "alive" ELSE "dead")
GoAmazonMusicAccount(r) == Say(IF r.user THEN "alive" ELSE "dead")

----------------------------------------------------------------------------
(* The two dispatchers. *)

runCheck(s, e, r, p) ==
    CASE s = "api" -> {checkApi(e, r)}
      [] s = "amazonInstance" -> checkAmazonMusicInstance(e, r)
      [] s = "deezerInstance" -> checkDeezerInstance(e, r)
      [] s = "tidal" -> {checkTidalAccount(e, r, p)}
      [] s = "qobuz" -> {checkQobuzAccount(e, r, p)}
      [] s = "deezer" -> {checkDeezerAccount(r)}
      [] s = "apple" -> {checkAppleMusicAccount(e, r)}
      [] s = "amazon" -> {checkAmazonMusicAccount(r)}
RunCheck(s, e, r, p) ==
    CASE s = "api" -> {checkAPI(e, r)}
      [] s = "amazonInstance" -> GoAmazonMusicInstance(e, r)
      [] s = "deezerInstance" -> GoDeezerInstance(e, r)
      [] s = "tidal" -> {GoTidalAccount(e, r, p)}
      [] s = "qobuz" -> {GoQobuzAccount(e, r, p)}
      [] s = "deezer" -> {GoDeezerAccount(r)}
      [] s = "apple" -> {GoAppleMusicAccount(e, r)}
      [] s = "amazon" -> {GoAmazonMusicAccount(r)}

First(s) == CASE s \in Instances -> {"health"} [] s = "tidal" -> {"session", "exchange"}
              [] s = "apple" -> {"scrape"} [] OTHER -> {"user"}

Init ==
    /\ server \in {"ts", "go"} /\ source \in Sources
    /\ condition \in Conditions(source) /\ seen = {condition}
    /\ failed = {} /\ at \in First(source) /\ premium = FALSE
    /\ devToken \in DevTokens
    /\ verdict = "none"

Proceed(r) ==
    \E next \in IF server = "ts" THEN runCheck(source, at, r, premium) ELSE RunCheck(source, at, r, premium) :
        /\ at' = next.at /\ premium' = next.premium /\ verdict' = next.verdict

\* With an expired developer token Apple answers 401 to anyone.
Answer ==
    /\ at \notin {"done", "scrape"}
    /\ \E r \in Answers(source, at, condition) :
          Proceed(IF source = "apple" /\ devToken = "expired" THEN [http |-> 401] ELSE r)
    /\ UNCHANGED <<server, source, condition, seen, failed, devToken>>

\* A refresh that fails in transit, or is not made because of a cooldown or another's claim,
\* has no verdict; the others are answered with garbage.
FailedAnswers ==
    IF at \in {"exchange", "refresh", "renew", "heal"} THEN {None} ELSE Garbage
\* Some other page, with a good status, is a failure the check may not notice.
Lost(r) == {at} \cup (IF Ok(r) THEN {"page"} ELSE {})
TransitFails ==
    /\ at \notin {"done", "scrape"} /\ source # "amazon"
    /\ \E r \in FailedAnswers : failed' = failed \cup Lost(r) /\ Proceed(r)
    /\ UNCHANGED <<server, source, condition, seen, devToken>>

\* ampDevToken: a usable token is kept; otherwise two pages are fetched and searched, and
\* when that fails the old one serves.
ampDevToken ==
    /\ at = "scrape"
    /\ \/ devToken = "good" /\ UNCHANGED <<devToken, failed>>
       \/ devToken # "good" /\ devToken' = "good" /\ UNCHANGED failed
       \/ devToken # "good" /\ failed' = failed \cup {at} /\ UNCHANGED devToken
    /\ Proceed([token |-> devToken' # "none"])
    /\ UNCHANGED <<server, source, condition, seen>>

\* The source changes while it is being checked.
ConditionChanges ==
    /\ at # "done"
    /\ condition' \in Conditions(source)
    /\ seen' = seen \cup {condition'}
    /\ UNCHANGED <<server, source, failed, at, premium, devToken, verdict>>

Next == Answer \/ TransitFails \/ ampDevToken \/ ConditionChanges
Spec == Init /\ [][Next]_vars

----------------------------------------------------------------------------
\* Requests on the side, whose failure is no word on the source.
Aside == {"scrape", "subscription", "song1", "song2", "page"}
         \cup (IF server = "ts" THEN {"exchange", "refresh", "renew"} ELSE {})

\* "report pending rather than dead so a transient ... failure does not wipe healthy entries",
\* "the provider's rate limiter is not a verdict": a source is found dead only if it refused
\* at some moment of the check, or failed to answer the very request that judges it.  The Go
\* server neither renews a Qobuz login nor its secret, and takes a Tidal refresh that failed
\* for a refusal.
DeadIsEarned ==
    verdict = "dead" =>
        \/ seen \cap {"refusing", "ended"} # {}
        \/ failed \ Aside # {}
        \/ server = "go" /\ seen \cap {"expired", "rotated"} # {}

\* Whatever changes or fails meanwhile, a source is found alive only if it was lossless at
\* some moment of the check, or the request that shows its plan got no answer; and it is
\* found lossy, which takes it out of the pool at once, only if it was, or if an instance's
\* probe was not answered, or if another page came for Tidal's subscription (on the Go
\* server: if that request failed in any way).  (Amazon is not asked, and the Go server
\* does not ask Apple for a stream.)
StandingIsEarned ==
    /\ verdict = "alive" /\ source # "amazon" =>
          \/ seen \cap {"lossless", "expired", "rotated"} # {}
          \/ source = "tidal" /\ (failed # {} \/ "refusing" \in seen)
          \/ source = "apple" /\ (failed \cap {"song1", "song2"} # {} \/ "ended" \in seen)
    /\ verdict = "preview" =>
          \/ "lossy" \in seen
          \/ source \in Instances /\ (failed # {} \/ "refusing" \in seen)
          \/ source = "tidal" /\ {"subscription", "page"} \subseteq failed
          \/ server = "go" /\ source = "tidal" /\ ("subscription" \in failed \/ "refusing" \in seen)

\* A check's verdict is earned, whatever fails or changes while it runs.
VerdictIsEarned == DeadIsEarned /\ StandingIsEarned
=============================================================================
