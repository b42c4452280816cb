----------------------------- MODULE MCCliSync -----------------------------
(* One invocation of CliSync over two groups of one section each; groups of  *)
(* several sections are in MCBriefSync.  An ordinary request is rapid and a  *)
(* forced one deep, which is all the engine tells apart.  Before it, r0 may  *)
(* have ended a request of its own, which reached the first group only.      *)
EXTENDS CliSync, TLC

CONSTANTS r0, g1, g2, s1, s2, f1, f2

CONSTANTS
    Earlier,      \* how the request of r0 ended, "none" if there was none
    Forces        \* whether requests may be forced

ASSUME EarlierAssumption == Earlier \subseteq {"none", "success", "transient_failure"}

TwoFieldOf == (g1 :> f1) @@ (g2 :> f2)
TwoSectionsOf == (g1 :> {s1}) @@ (g2 :> {s2})
TwoPlan == <<g1, g2>>

EarlierAttempt(how) ==
    [run |-> r0, ref |-> g1, number |-> 1, outcome |-> how, started |-> 0, finished |-> 0,
     cooldown |-> IF how = "success" THEN NoTime ELSE Cooldown, auth |-> "none"]

(* SyncInit, with what r0 left behind. *)
MCInit ==
    \E how \in Earlier :
        /\ runs = [r \in Runs |->
                     IF r = r0 /\ how # "none"
                     THEN [status |-> "partial", mode |-> "rapid", started |-> 0,
                           finished |-> 0, omitted |-> FieldIds]
                     ELSE [status |-> "absent", mode |-> "rapid", started |-> 0,
                           finished |-> NoTime, omitted |-> {}]]
        /\ attempts = IF how = "none" THEN {} ELSE {EarlierAttempt(how)}
        /\ cache = [s \in Sections |->
                      IF s = s1 /\ how # "none"
                      THEN [run |-> r0, ref |-> g1, number |-> 1, ok |-> how = "success"]
                      ELSE NoEntry]
        /\ budget = [r \in Runs |-> "open"]
        /\ proc = [r \in Runs |->
                     [pc |-> IF r # r0 THEN "idle" ELSE IF how = "none" THEN "dead" ELSE "ended",
                      plan |-> <<>>, force |-> FALSE, number |-> 1, started |-> NoTime, seen |-> Unseen,
                      until |-> NoTime, omitted |-> {}, why |-> "none", ret |-> "none"]]
        /\ auths = {} /\ snapshots = {} /\ now = 0 /\ contacts = {}

MCStart(r) ==
    /\ now = 0
    /\ \E force \in Forces : StartRequest(r, IF force THEN "deep" ELSE "rapid", force)

MCNext ==
    \/ Tick
    \/ \E r \in Runs \ {r0} :
        \/ MCStart(r)
        \/ CliStep(r)
        \/ CliDisrupt(r)
        \/ BudgetPasses(r)

MCSpec == MCInit /\ [][MCNext]_syncVars /\ \A r \in Runs \ {r0} : WF_syncVars(CliStep(r))
=============================================================================
