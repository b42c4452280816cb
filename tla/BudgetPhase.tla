---------------------------- MODULE BudgetPhase ----------------------------
(* What a request budget promises to the code that asks it: a one-way walk   *)
(* through the phases, with answers that fit the phase.  RequestBudget       *)
(* (decision/budget.py) implements this specification; the modules that use  *)
(* a budget (RequestAudit, DisclosureSync) keep only the phase.              *)
EXTENDS PhaseOrder

VARIABLES
    phase,      \* the phase of the request
    granted     \* what the latest question to the budget was answered with

vars == <<phase, granted>>

Init == phase = "open" /\ granted = "nothing"

Next ==
    \E p \in MayBecome(phase) :
        /\ phase' = p
        /\ granted' \in Permits(p)

Spec == Init /\ [][Next]_vars
=============================================================================
