------------------------- MODULE MCDocumentRefresh -------------------------
(* Instance of DocumentRefresh for TLC: two quarterly reports of which the   *)
(* second is the newer, and a contract.  One process synchronises, another   *)
(* classifies and asks for the current classification.  A command that has   *)
(* answered returns at once: it no longer looks at anything.                 *)
EXTENDS DocumentRefresh, TLC

CONSTANTS q1, q2, contract, body, p1, p2

Kinds == (q1 :> "quarterly_report") @@ (q2 :> "quarterly_report") @@ (contract :> "fund_contract")
PublishedAt == (q1 :> 1) @@ (q2 :> 2) @@ (contract :> 1)
PeriodEnds == (q1 :> 1) @@ (q2 :> 2) @@ (contract :> 0)
Facts == (q1 :> {"duration"}) @@ (q2 :> {"duration"}) @@ (contract :> {"mandate"})
DueAt == (q1 :> 1) @@ (q2 :> 1) @@ (contract :> MaxTime + 1)
Found == {{}, {q1, q2, contract}}

CONSTANTS Syncs, Readers

MCNext ==
    /\ \/ Tick
       \/ ExternalChange
       \/ \E p \in Syncs : Sync(p)
       \/ \E p \in Readers : Classify(p)
       \/ \E p \in Procs : Return(p) \/ Stop(p)
    /\ \A p \in Procs : call[p].pc = "done" => call'[p].pc = "idle"

MCSpec == Init /\ [][MCNext]_vars

=============================================================================
