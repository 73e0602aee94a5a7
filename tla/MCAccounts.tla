------------------------------ MODULE MCAccounts ------------------------------
(* Accounts on small instances. *)
EXTENDS Accounts, TLC

CONSTANTS k1, k2, k3, r1, q1, w1, w2

MCUsers == 1..3
MCGithub == {2}
MCAdmins == {1}
MCKeys == {k1, k2}
MCKeys3 == {k1, k2, k3}
MCRequest == {r1}
MCClaims == {q1}
MCWorker == {w1}
MCWorkers == {w1, w2}
MCSymmetry == Permutations({k1, k2}) \cup Permutations({w1, w2})
=============================================================================
