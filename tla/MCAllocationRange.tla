------------------------- MODULE MCAllocationRange -------------------------
(* Instance of AllocationRange for TLC: a profile that an obligation blocks  *)
(* after instant 1, and for which a range exists up to instant 1.            *)
EXTENDS AllocationRange, TLC

CONSTANTS p1, p2, owner

DueAt1 == [payload \in Payloads |-> 1]

(* A command that has answered returns at once: it no longer looks at        *)
(* anything.  Of two commands one at least is not a status query: a status   *)
(* query writes nothing that another could see.                              *)
StatusQueries == {"status", "range status"}

MCNext ==
    /\ Next
    /\ \A p \in Procs : call[p].pc = "done" => call'[p].pc = "idle"
    /\ \E p \in Procs : call'[p].command \notin StatusQueries

MCSpec == Init /\ [][MCNext]_vars

ProcSymmetry == Permutations(Procs)

=============================================================================
