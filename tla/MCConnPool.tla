------------------------------ MODULE MCConnPool -----------------------------
(* ConnPool on small instances: more callers than connections. *)
EXTENDS ConnPool

CONSTANTS p1, p2, p3, p4, c1, c2

MCCallers == {p1, p2, p3, p4}
MCConns == {c1, c2}
=============================================================================
