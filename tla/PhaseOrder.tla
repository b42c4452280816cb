----------------------------- MODULE PhaseOrder -----------------------------
(* The phases of a request budget (decision/budget.py) and their order.      *)
(*   open      worker_seconds() > 0: workers may be started                  *)
(*   draining  only the cleanup reserve is left: nothing may be started, a   *)
(*             result may still be published                                 *)
(*   closed    the deadline has passed or the request has been cancelled     *)

Phases == {"open", "draining", "closed"}
Grants == {"nothing", "work", "publication"}

(* The phases a request may be found in after being in phase p. *)
MayBecome(p) ==
    {q \in Phases : (p = "closed" => q = "closed") /\ (p = "draining" => q # "open")}

(* The answers a budget may give in phase p. *)
Permits(p) ==
    {g \in Grants : (g = "work" => p = "open") /\ (g = "publication" => p # "closed")}
=============================================================================
