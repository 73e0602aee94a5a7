---------------------------- MODULE MCRateLimiter ----------------------------
(* An instance of RateLimiter for TLC: a feed's buckets, and a login's with a longer window. *)
EXTENDS RateLimiter
MCIds == {"feed", "login"}
MCThree == {"feed", "feed2", "login"}
MCLimit == [i \in Ids |-> IF i = "login" THEN 2 ELSE 1]
MCWindow == [i \in Ids |-> IF i = "login" THEN 3 ELSE 1]
=============================================================================
