----------------------------- MODULE BoundedFeed -----------------------------
(***************************************************************************)
(* What a reader of the instance feed is promised.  The pool goes through  *)
(* versions; an answer is a version that was current at most Bound ago, or *)
(* the empty feed, which is what every failure degrades to.                *)
(***************************************************************************)
EXTENDS Naturals, Sequences

CONSTANTS Bound, Empty

VARIABLES now,
          replaced,   \* replaced[v]: when version v was replaced by version v + 1
          answer      \* the answer given last

current == Len(replaced) + 1
Fresh(v) == v \in 1..current /\ (v < current => replaced[v] + Bound >= now)

Init == now = 0 /\ replaced = <<>> /\ answer = Empty
Change == replaced' = Append(replaced, now) /\ UNCHANGED <<now, answer>>
Tick == now' = now + 1 /\ UNCHANGED <<replaced, answer>>
Serve == \E a \in {Empty} \cup {v \in 1..current : Fresh(v)} : answer' = a /\ UNCHANGED <<now, replaced>>

Next == Change \/ Tick \/ Serve
Spec == Init /\ [][Next]_<<now, replaced, answer>>
=============================================================================
