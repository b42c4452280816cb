---------------------------- MODULE MCBriefSync ----------------------------
(* Two stages of one group each: the first, like identity_profile, has a     *)
(* name that is not its audit field; the second, like holdings_industries,   *)
(* has its field's name.                                                     *)
EXTENDS BriefSync, TLC

CONSTANTS g1, g2, s1, s2, s3, field, profile, holdings, nav

CONSTANT StartTimes

TwoFieldOf == (g1 :> field) @@ (g2 :> holdings)
TwoSectionsOf == (g1 :> {s1}) @@ (g2 :> {s2, s3})
TwoStages ==
    <<[name |-> profile, groups |-> <<g1>>], [name |-> holdings, groups |-> <<g2>>]>>

OneFieldOf == (g1 :> field)
OneSectionsOf == (g1 :> {s1})
OneStage == <<[name |-> profile, groups |-> <<g1>>]>>

MCNext ==
    \/ Tick /\ UNCHANGED <<briefLocals, briefs>>
    \/ \E r \in Runs :
        \/ now \in StartTimes /\ StartBrief(r, "rapid")
        \/ BriefStep(r)
        \/ Disrupt(r) /\ UNCHANGED <<briefLocals, briefs>>
        \/ BudgetPasses(r) /\ UNCHANGED <<briefLocals, briefs>>
        \/ HandlerInterrupted(r)
        \/ HandlerFails(r)
        \/ BriefCut(r)

MCSpec == BriefInit /\ [][MCNext]_briefVars
=============================================================================
