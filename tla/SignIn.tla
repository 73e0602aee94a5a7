------------------------------- MODULE SignIn -------------------------------
(***************************************************************************)
(* Signing in: GitHub's redirect and the account made on the spot          *)
(* (app/api/auth/github, lib/users.ts), password sign-up and login, and    *)
(* the session cookie that both servers resolve (lib/sessions.ts,          *)
(* auth/sessions.go).  Each statement to the database is a step of its     *)
(* own: tabs race each other, a legacy claim (Accounts) closes accounts    *)
(* meanwhile.                                                              *)
(*                                                                         *)
(* Cookies are what was signed into them; a forged one never verifies.     *)
(* All accounts are made within a day, from one address and user agent.    *)
(* Abstracted: the login limiter (RateLimiter), last-login bookkeeping.    *)
(***************************************************************************)
EXTENDS Naturals, Sequences, FiniteSets, Functions

CONSTANTS Tabs,         \* browser tabs
          BrowserOf,    \* the browser each is of: cookies are per browser
          Identities,   \* GitHub's numeric ids
          Candidates,   \* the usernames derived from an identity's login, in order
          Names,        \* all usernames
          Legacy,       \* those with a password account from before
          Servers,      \* of "ts" and "go"
          SignupLimit,  \* accounts per device and day
          MaxStarts     \* bound: sign-ins begun

NoId == 0
SignInConstants ==
    /\ BrowserOf \in [Tabs -> Range(BrowserOf)]
    /\ Candidates \in [Identities -> Seq(Names)] /\ NoId \notin Identities
    /\ Legacy \subseteq Names /\ SignupLimit \in Nat

VARIABLES server,   \* which of the two answers
          users,    \* the accounts, by id
          oauth,    \* per browser: the state of its OAuth cookie, or none
          session,  \* per browser: the account its session cookie names, or none
          starts,
          pc, hand, \* per tab
          acted     \* whom the last request with a session was answered as

tabVars == <<pc, hand>>
vars == <<server, users, oauth, session, starts, pc, hand, acted>>

NoHand == [state |-> 0, id |-> NoId, n |-> 0, name |-> "", known |-> FALSE]
Idle == "idle"
Live(u) == u \in DOMAIN users /\ ~users[u].closed
ByGithub(g) == {u \in DOMAIN users : users[u].github = g}
ByName(n) == {u \in DOMAIN users : users[u].name = n}

Init ==
    /\ server \in Servers
    /\ \E order \in [1..Cardinality(Legacy) -> Legacy] :
          /\ IsInjective(order)
          /\ users = [i \in DOMAIN order |-> [name |-> order[i], github |-> NoId, closed |-> FALSE, device |-> FALSE]]
    /\ oauth = [b \in Range(BrowserOf) |-> 0]
    /\ session = [b \in Range(BrowserOf) |-> NoId]
    /\ starts = 0
    /\ pc = [t \in Tabs |-> Idle] /\ hand = [t \in Tabs |-> NoHand]
    /\ acted = NoId

Goto(t, place) == pc' = [pc EXCEPT ![t] = place]
Fail(t) == Goto(t, Idle) /\ hand' = [hand EXCEPT ![t] = NoHand] /\ UNCHANGED <<session, oauth>>
\* The session cookie replaces the browser's; GitHub's sign-in clears its own.
SignedIn(t, u) ==
    /\ session' = [session EXCEPT ![BrowserOf[t]] = u]
    /\ oauth' = (IF hand[t].id = NoId THEN oauth ELSE [oauth EXCEPT ![BrowserOf[t]] = 0])
    /\ Goto(t, Idle) /\ hand' = [hand EXCEPT ![t] = NoHand]
NewUser(name, github, device) ==
    users' = Append(users, [name |-> name, github |-> github, closed |-> FALSE, device |-> device])

----------------------------------------------------------------------------
(* GitHub. *)

\* GET /api/auth/github/start: a fresh state, in the cookie and in the redirect.
Begin(t) ==
    /\ pc[t] = Idle /\ server = "ts" /\ starts < MaxStarts
    /\ starts' = starts + 1
    /\ oauth' = [oauth EXCEPT ![BrowserOf[t]] = starts + 1]
    /\ hand' = [hand EXCEPT ![t] = [NoHand EXCEPT !.state = starts + 1]] /\ Goto(t, "away")
    /\ UNCHANGED <<server, users, session, acted>>

\* GitHub redirects back, as whoever is signed in there: the state must be the cookie's, and
\* the code be exchanged for an identity.
Callback(t) ==
    /\ pc[t] = "away"
    /\ \/ /\ oauth[BrowserOf[t]] = hand[t].state
          /\ \E g \in Identities : hand' = [hand EXCEPT ![t].id = g]
          /\ Goto(t, "lookup") /\ UNCHANGED <<session, oauth>>
       \/ Fail(t)
    /\ UNCHANGED <<server, users, starts, acted>>

\* A known account is signed in, a closed one turned away, an unknown one made.
Lookup(t) ==
    /\ pc[t] = "lookup"
    /\ LET known == ByGithub(hand[t].id)
       IN \/ \E u \in known : IF Live(u) THEN SignedIn(t, u) ELSE Fail(t)
          \/ known = {} /\ Goto(t, "insert") /\ hand' = [hand EXCEPT ![t].n = 1] /\ UNCHANGED <<session, oauth>>
    /\ UNCHANGED <<server, users, starts, acted>>

\* createGithubUser: INSERT .. ON CONFLICT DO NOTHING of the next candidate; after the last, it
\* throws.  Mutant: the name's owner is signed in.
TakeByName(t) ==
    /\ pc[t] = "insert"
    /\ LET g == hand[t].id  name == Candidates[g][hand[t].n]
       IN IF ByName(name) # {} THEN (\E u \in ByName(name) : SignedIn(t, u)) /\ UNCHANGED users
          ELSE NewUser(name, g, TRUE) /\ SignedIn(t, Len(users) + 1)
    /\ UNCHANGED <<server, starts, acted>>
InsertCandidate(t) ==
    /\ pc[t] = "insert"
    /\ LET g == hand[t].id
       IN IF hand[t].n > Len(Candidates[g]) THEN Fail(t) /\ UNCHANGED users
          ELSE LET name == Candidates[g][hand[t].n]
               IN IF ByName(name) = {} /\ ByGithub(g) = {}
                  THEN NewUser(name, g, TRUE) /\ SignedIn(t, Len(users) + 1)
                  ELSE Goto(t, "winner") /\ UNCHANGED <<users, session, oauth, hand>>
    /\ UNCHANGED <<server, starts, acted>>

\* No row came back: the identity has an account by now, or the name was taken.  Mutant: the
\* name was never the reason.
AlwaysRaced(t) ==
    /\ pc[t] = "winner" /\ Goto(t, "again")
    /\ UNCHANGED <<server, users, oauth, session, starts, hand, acted>>
Winner(t) ==
    /\ pc[t] = "winner"
    /\ IF ByGithub(hand[t].id) # {} THEN Goto(t, "again") /\ UNCHANGED hand
       ELSE Goto(t, "insert") /\ hand' = [hand EXCEPT ![t].n = @ + 1]
    /\ UNCHANGED <<server, users, oauth, session, starts, acted>>

\* The callback looks the winner up once more.
Again(t) ==
    /\ pc[t] = "again"
    /\ \/ \E u \in ByGithub(hand[t].id) : Live(u) /\ SignedIn(t, u)
       \/ ~(\E u \in ByGithub(hand[t].id) : Live(u)) /\ Fail(t)
    /\ UNCHANGED <<server, users, starts, acted>>

----------------------------------------------------------------------------
(* Passwords, on the Go server and on the TypeScript one off Workers. *)

\* POST /api/auth/signup: a name that is free; the device is counted if its headers are there.
Signup(t) ==
    /\ pc[t] = Idle /\ starts < MaxStarts /\ starts' = starts + 1
    /\ \E n \in Names, known \in BOOLEAN :
          /\ ByName(n) = {}
          /\ hand' = [hand EXCEPT ![t] = [NoHand EXCEPT !.name = n, !.known = known]]
    /\ Goto(t, "count")
    /\ UNCHANGED <<server, users, oauth, session, acted>>
CountDevice(t) ==
    /\ pc[t] = "count"
    /\ IF hand[t].known /\ Cardinality({u \in DOMAIN users : users[u].device}) >= SignupLimit
       THEN Fail(t)
       ELSE Goto(t, "create") /\ UNCHANGED <<hand, session, oauth>>
    /\ UNCHANGED <<server, users, starts, acted>>
\* The insert fails if the name was taken meanwhile.
CreateUser(t) ==
    /\ pc[t] = "create"
    /\ IF ByName(hand[t].name) = {}
       THEN NewUser(hand[t].name, NoId, hand[t].known) /\ SignedIn(t, Len(users) + 1)
       ELSE Fail(t) /\ UNCHANGED users
    /\ UNCHANGED <<server, starts, acted>>

\* POST /api/auth/login with the right password: of the row read, then its session.
Login(t) ==
    /\ pc[t] = Idle /\ starts < MaxStarts /\ starts' = starts + 1
    /\ \E u \in DOMAIN users :
          /\ users[u].github = NoId /\ Live(u)
          /\ hand' = [hand EXCEPT ![t] = [NoHand EXCEPT !.n = u]]
    /\ Goto(t, "verify")
    /\ UNCHANGED <<server, users, oauth, session, acted>>
Verified(t) ==
    /\ pc[t] = "verify" /\ SignedIn(t, hand[t].n)
    /\ UNCHANGED <<server, users, starts, acted>>

Logout(t) ==
    /\ pc[t] = Idle /\ session[BrowserOf[t]] # NoId
    /\ session' = [session EXCEPT ![BrowserOf[t]] = NoId]
    /\ UNCHANGED <<server, users, oauth, starts, tabVars, acted>>

\* getSessionUserId asks whether the account lives; SessionUserID takes the cookie's word.
Me(t) ==
    /\ pc[t] = Idle
    /\ LET u == session[BrowserOf[t]]
       IN u # NoId /\ (server = "ts" => Live(u)) /\ acted' = u
    /\ UNCHANGED <<server, users, oauth, session, starts, tabVars>>

\* A claim absorbs a legacy account and closes it (Accounts), or an operator disables one.
Close ==
    /\ \E u \in DOMAIN users : Live(u) /\ users' = [users EXCEPT ![u].closed = TRUE]
    /\ UNCHANGED <<server, oauth, session, starts, tabVars, acted>>

Next ==
    \/ \E t \in Tabs :
          \/ Begin(t) \/ Callback(t) \/ Lookup(t) \/ InsertCandidate(t) \/ Winner(t) \/ Again(t)
          \/ Signup(t) \/ CountDevice(t) \/ CreateUser(t) \/ Login(t) \/ Verified(t) \/ Logout(t) \/ Me(t)
    \/ Close
Spec == Init /\ [][Next]_vars

----------------------------------------------------------------------------
\* A GitHub sign-in opens the account of that identity and never another's, although the names
\* it would like are taken and a second tab may be making the same account.
SignedInAsSelf ==
    [][\A t \in Tabs : hand[t].id # NoId /\ session'[BrowserOf[t]] # session[BrowserOf[t]] /\ pc'[t] # pc[t]
          => users'[session'[BrowserOf[t]]].github = hand[t].id]_vars

\* A sign-in that got an identity from GitHub is turned away for a reason: its account is
\* closed, or others have every name derived from its login.
TurnedAwayForCause ==
    [][\A t \in Tabs : hand[t].id # NoId /\ pc[t] # Idle /\ pc'[t] = Idle /\ session' = session
          => \/ \E u \in ByGithub(hand[t].id) : u = session[BrowserOf[t]] \/ ~Live(u)
             \/ \A i \in DOMAIN Candidates[hand[t].id] : ByName(Candidates[hand[t].id][i]) # {}]_vars

\* Whoever GitHub says has come gets their own account, or a reason.
OwnAccountOrCause == SignedInAsSelf /\ TurnedAwayForCause

\* "at most 5 accounts per IP+UA per 24h" (api/auth/signup, handleSignup).
SignupsCapped == Cardinality({u \in DOMAIN users : users[u].device /\ users[u].github = NoId}) <= SignupLimit

\* "a deleted, disabled or claimed legacy account loses every outstanding session the instant
\* the row changes" (lib/sessions.ts).
ClosedLoseSessions == [][\A t \in Tabs : acted' # acted => Live(acted')]_vars
=============================================================================
