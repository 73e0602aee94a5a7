---------------------------- MODULE MCEntryHealth ----------------------------
(* EntryHealth on small instances: who runs, and which processes are alike. *)
EXTENDS EntryHealth, TLC

CONSTANTS a1, s1, c1, r1, r2

MCSweepers == {s1}
MCCallers == {c1}
MCReporters1 == {r1}
MCReporters2 == {r1, r2}
MCAdmins == {a1}
Nobody == {}
MCSymmetry == Permutations({r1, r2})
=============================================================================
