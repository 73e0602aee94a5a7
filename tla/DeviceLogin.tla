----------------------------- MODULE DeviceLogin -----------------------------
(***************************************************************************)
(* Contributing a Tidal account by signing in on another device: the       *)
(* browser asks the server for a code, shows it and polls; the server asks *)
(* Tidal once per poll, and when the user has authorized, adds the account *)
(* to the pool (components/tidal-connect.tsx, app/api/tidal/device,        *)
(* lib/tidal-oauth.ts; oauth/tidal.go, httpapi/credentials.go).            *)
(*                                                                         *)
(* A poll travels as one request.  Its answer, or the request itself, may  *)
(* be lost; the server goes on with a request whose browser has gone.      *)
(* Abstracted: the intervals, the countdown, the result's wording.         *)
(***************************************************************************)
EXTENDS Naturals, FiniteSets

CONSTANT MaxCodes   \* bound: codes asked for

NoCode == 0
Codes == 1..MaxCodes

VARIABLES mounted,   \* whether the page is open
          phase,     \* what it shows
          device,    \* the code it shows
          timers,    \* polls to be sent: a set of codes
          polls,     \* requests under way, by code, and where each is
          handle,    \* pollRef: the timer that clearTimers would stop
          tidal,     \* what Tidal knows of a code
          pool,      \* the codes whose account was saved
          asked

vars == <<mounted, phase, device, timers, polls, handle, tidal, pool, asked>>
page == <<mounted, phase, device, asked>>

Init ==
    /\ mounted = TRUE /\ phase = "idle" /\ device = NoCode
    /\ timers = {} /\ polls = [c \in Codes |-> "none"] /\ handle = NoCode
    /\ tidal = [c \in Codes |-> "unknown"] /\ pool = {} /\ asked = 0

Polled(c) == c \in timers \/ polls[c] # "none"
Answer(c, answer) == polls' = [polls EXCEPT ![c] = answer]

\* clearTimers stops the timer it has the handle of.
ClearTimers == timers' = timers \ {handle} /\ handle' = NoCode
\* poll: a timer, whose handle replaces the one before.
Poll(c) == timers' = timers \cup {c} /\ handle' = c

----------------------------------------------------------------------------
(* The page. *)

\* start: the button is there in every phase but "waiting", and disabled while starting.
Start ==
    /\ mounted /\ phase \notin {"waiting", "starting"} /\ asked < MaxCodes
    /\ ClearTimers
    /\ phase' = "starting" /\ asked' = asked + 1
    /\ UNCHANGED <<mounted, device, polls, tidal, pool>>

\* /api/tidal/device/start: a new code, or none.  A page left meanwhile still sends its first poll.
Started ==
    /\ phase = "starting"
    /\ \/ /\ phase' = "waiting" /\ device' = asked
          /\ tidal' = [tidal EXCEPT ![asked] = "pending"]
          /\ Poll(asked)
       \/ phase' = "error" /\ UNCHANGED <<device, tidal, timers, handle>>
    /\ UNCHANGED <<mounted, asked, polls, pool>>

\* A timer fires and the request is sent.
Fire(c) ==
    /\ c \in timers
    /\ timers' = timers \ {c} /\ Answer(c, "sent")
    /\ UNCHANGED <<page, handle, tidal, pool>>

Leave ==
    /\ mounted /\ mounted' = FALSE
    /\ ClearTimers
    /\ UNCHANGED <<phase, device, asked, polls, tidal, pool>>

\* What the page does with an answer.  An unmounted page still goes on polling.
Delivered(c) ==
    /\ polls[c] \in {"pending", "slow_down", "expired", "error", "saved", "unsaved"}
    /\ Answer(c, "none")
    /\ CASE polls[c] \in {"pending", "slow_down"} -> Poll(c) /\ UNCHANGED phase
         [] polls[c] = "saved"   -> ClearTimers /\ phase' = "success"
         [] polls[c] = "expired" -> ClearTimers /\ phase' = "expired"
         [] OTHER                -> ClearTimers /\ phase' = "error"
    /\ UNCHANGED <<mounted, device, asked, tidal, pool>>

\* What a server that lost its browser still does.
GoesOn(c) ==
    \/ UNCHANGED <<tidal, pool>>
    \/ /\ polls[c] = "ingest" \/ (polls[c] = "sent" /\ tidal[c] = "approved")
       /\ tidal' = [tidal EXCEPT ![c] = "used"] /\ pool' \in {pool, pool \cup {c}}

\* fetch throws, of the request or of its answer: "keep trying".  Mutant: not.
Forget(c) ==
    /\ polls[c] # "none" /\ Answer(c, "none") /\ GoesOn(c)
    /\ UNCHANGED <<page, timers, handle>>
Lose(c) ==
    /\ polls[c] # "none" /\ Answer(c, "none") /\ GoesOn(c)
    /\ Poll(c)
    /\ UNCHANGED page

----------------------------------------------------------------------------
(* The server and Tidal. *)

\* pollDeviceToken: one question.  An approved code is worth its tokens once.
PollDeviceToken(c) ==
    /\ polls[c] = "sent"
    /\ \/ /\ tidal[c] = "pending"
          /\ \E a \in {"pending", "slow_down"} : Answer(c, a)
          /\ UNCHANGED tidal
       \/ tidal[c] = "expired" /\ Answer(c, "expired") /\ UNCHANGED tidal
       \/ Answer(c, "error") /\ UNCHANGED tidal
       \/ tidal[c] = "approved" /\ Answer(c, "ingest") /\ tidal' = [tidal EXCEPT ![c] = "used"]
    /\ UNCHANGED <<page, timers, handle, pool>>

\* ingestSource: checked and saved, refused, or the database fails.
Ingest(c) ==
    /\ polls[c] = "ingest"
    /\ \/ pool' = pool \cup {c} /\ Answer(c, "saved")
       \/ UNCHANGED pool /\ Answer(c, "unsaved")
    /\ UNCHANGED <<page, timers, handle, tidal>>

Approve(c) ==
    /\ tidal[c] = "pending" /\ tidal' = [tidal EXCEPT ![c] = "approved"]
    /\ UNCHANGED <<page, timers, polls, handle, pool>>
Expire(c) ==
    /\ tidal[c] \in {"pending", "approved"} /\ tidal' = [tidal EXCEPT ![c] = "expired"]
    /\ UNCHANGED <<page, timers, polls, handle, pool>>

CodeNext(c) == Fire(c) \/ Delivered(c) \/ Lose(c) \/ PollDeviceToken(c) \/ Ingest(c)
Next ==
    \/ Start \/ Started \/ Leave
    \/ \E c \in Codes : CodeNext(c) \/ Approve(c) \/ Expire(c)
Spec == Init /\ [][Next]_vars

\* Timers fire, requests are answered, not every answer is lost, and Tidal's codes expire.
Fairness ==
    /\ WF_vars(Started)
    /\ \A c \in Codes : WF_vars(CodeNext(c)) /\ SF_vars(PollDeviceToken(c)) /\ SF_vars(Delivered(c)) /\ WF_vars(Expire(c))
FairSpec == Spec /\ Fairness

----------------------------------------------------------------------------
\* A page that shows a code polls it, and no other: no answer of an earlier code can end the
\* wait, and clearTimers stops what there is to stop.
WaitingIsPolled ==
    mounted => /\ phase = "waiting" => Polled(device)
               /\ \A c \in Codes : Polled(c) => phase = "waiting" /\ c = device
               /\ timers \subseteq {handle}

\* A page does not show its code for ever.
WaitingEnds == phase = "waiting" ~> (phase # "waiting" \/ ~mounted)
=============================================================================
