----------------------------- MODULE EntryPolicy -----------------------------
(***************************************************************************)
(* What the health pipeline promises about one pool entry, with no         *)
(* processes and no time: every verdict is applied to the row as it stands *)
(* when the verdict lands, never to a copy read earlier.  The policy is    *)
(* the one lib/health-sweep.ts, lib/instance-sync.ts, lib/ingest.ts and    *)
(* app/api/report/route.ts share; EntryHealth, which models their          *)
(* interleaving, is shown to implement this module.                        *)
(***************************************************************************)
EXTENDS Naturals

CONSTANTS AutoDisableAfter,     \* failed checks in a row that disable an entry
          DisableAfterReports,  \* failures at which a dead report disables it
          MaxFailures           \* bound: the failure count saturates here, at or above both

VARIABLES status,    \* the last check's outcome, or "pending" once a report parked it
          premium,   \* whether the last check saw a premium entitlement
          failures,  \* consecutive_failures
          disabled,  \* withheld by policy
          removed    \* withheld by an administrator

row == <<status, premium, failures, disabled, removed>>

Status == {"alive", "preview", "dead", "pending"}

\* One more failure.
Bump(n) == IF n < MaxFailures THEN n + 1 ELSE n

Servable == ~removed /\ ~disabled /\ status \in {"alive", "preview"}

Init ==
    /\ status = "alive" /\ premium = TRUE /\ failures = 0
    /\ disabled = FALSE /\ removed = FALSE

\* A check that worked and found a premium plan clears everything held against the entry.
Passed ==
    /\ status' = "alive" /\ premium' = TRUE /\ failures' = 0 /\ disabled' = FALSE
    /\ UNCHANGED removed

\* A check that worked without a premium plan: the pool serves premium sources only.
\* The instance sync leaves the failure count alone, every other check resets it.
Lossy ==
    /\ status' = "preview" /\ premium' = FALSE /\ disabled' = TRUE
    /\ failures' \in {0, failures}
    /\ UNCHANGED removed

\* A failed check adds one failure and can only add to the disabled state.
Failed ==
    /\ status' = "dead" /\ premium' = FALSE /\ failures' = Bump(failures)
    /\ disabled' \in {disabled, disabled \/ failures' >= AutoDisableAfter}
    /\ UNCHANGED removed

\* A dead report parks the entry until the next check, with or without counting a failure.
Parked ==
    /\ status' = "pending" /\ failures' \in {failures, Bump(failures)}
    /\ disabled' = (disabled \/ failures' >= DisableAfterReports)
    /\ UNCHANGED <<premium, removed>>

\* A fresh submission of the same credential revives the entry; it does not lift a disable.
Resubmitted ==
    /\ status' = "alive" /\ premium' = TRUE /\ failures' = 0 /\ removed' = FALSE
    /\ UNCHANGED disabled

\* The instance sync found a listed URL working and premium: every hold is lifted.
Relisted ==
    /\ status' = "alive" /\ premium' = TRUE /\ failures' = 0
    /\ disabled' = FALSE /\ removed' = FALSE

\* An administrator hides or restores the entry.
Moderated ==
    /\ removed' \in BOOLEAN
    /\ UNCHANGED <<status, premium, failures, disabled>>

Next == Passed \/ Lossy \/ Failed \/ Parked \/ Resubmitted \/ Relisted \/ Moderated

Spec == Init /\ [][Next]_row
=============================================================================
