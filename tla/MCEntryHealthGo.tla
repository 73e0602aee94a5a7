--------------------------- MODULE MCEntryHealthGo ---------------------------
(* EntryHealthGo on small instances: who runs, and which processes are alike. *)
EXTENDS EntryHealthGo, TLC

CONSTANTS a1, s1, s2, c1, r1

MCSweeper == {s1}
MCSweepers == {s1, s2}
MCCallers == {c1}
MCReporters == {r1}
MCAdmins == {a1}
Nobody == {}
MCSymmetry == Permutations({s1, s2})
=============================================================================
