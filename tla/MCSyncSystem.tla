---------------------------- MODULE MCSyncSystem ----------------------------
(* Two requests of the same group with one section, at once or one after the *)
(* other, each from a command line or a brief.  A cooldown that one of them  *)
(* asks for ends while the other may run.  A budget has no cleanup reserve,  *)
(* and time passes for it where a process waits for a worker or records what *)
(* it answered.                                                              *)
EXTENDS SyncSystem, TLC

CONSTANTS g1, s1, field, profile

CONSTANT StartTimes

MCFieldOf == (g1 :> field)
MCSectionsOf == (g1 :> {s1})
MCPlan == <<g1>>
MCStages == <<[name |-> profile, groups |-> <<g1>>]>>

MCNext ==
    \/ Tick /\ Unbriefed /\ UNCHANGED handler
    \/ \E r \in Runs :
        \/ now \in StartTimes /\ Begin(r, "rapid", FALSE)
        \/ CommandStep(r)
        \/ /\ proc[r].pc \in {"fetch", "record"}
           /\ CommandBudgetPasses(r)
           /\ budget'[r] = "closed"

MCSpec == SystemInit /\ [][MCNext]_systemVars

Symmetric == Permutations(Runs)
=============================================================================
