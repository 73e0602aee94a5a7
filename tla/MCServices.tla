------------------------------ MODULE MCServices ------------------------------
(* An instance of Services for TLC: each part on a small instance of its own. *)
EXTENDS Services

\* Two readers and one publication, until every TTL has run out.
MCReaders == {"r1", "r2"}
MCPublishers == {"p1"}

\* Two tabs of one browser, two GitHub logins that derive the same names, of which one is taken.
MCTabs == 1..2
MCBrowserOf == <<1, 1>>
MCCandidates == [g \in Identities |-> <<"octo", "gh_octo", "octo_2">>]

\* Three rows, of which a budget of four fetches, two for each, checks two.
MCRows == 1..3

\* A login's window of 3 with two requests, a feed's of 1 with one.
MCRequestLimit == [feed |-> 1, login |-> 2]
MCWindow == [feed |-> 1, login |-> 3]
=============================================================================
