----------------------------- MODULE WorkerCall -----------------------------
(* What one call of a worker promises to its caller: the worker runs only    *)
(* while the request is not cancelled, a result comes only after the worker  *)
(* has stopped, and the caller can tell from the request alone whether a     *)
(* failure concerns one source (it goes on) or the request (it stops).       *)
(* FramedWorker (decision/worker.py) implements this specification;          *)
(* DisclosureSync and BriefSync rely on it.                                  *)

VARIABLES
    worker,      \* "none", "running", "stopped"
    cancelled,   \* the request has been cancelled
    verdict      \* "pending", then how the call ended

vars == <<worker, cancelled, verdict>>

Init == worker = "none" /\ cancelled \in BOOLEAN /\ verdict = "pending"

Launch ==
    /\ verdict = "pending" /\ ~cancelled
    /\ worker = "none" /\ worker' = "running"
    /\ UNCHANGED <<cancelled, verdict>>

Stop ==
    /\ worker = "running" /\ worker' = "stopped"
    /\ UNCHANGED <<cancelled, verdict>>

Cancel ==
    /\ verdict = "pending"
    /\ cancelled' = TRUE
    /\ UNCHANGED <<worker, verdict>>

Return ==
    /\ verdict = "pending"
    /\ \/ verdict' = "result" /\ worker = "stopped" /\ ~cancelled /\ ~cancelled'
       \/ verdict' = "source_failed" /\ worker # "running" /\ ~cancelled /\ ~cancelled'
       \/ verdict' = "request_over" /\ worker # "running" /\ cancelled'
       \/ verdict' = "unclean" /\ cancelled'
       \/ verdict' = "raised" /\ cancelled' \in BOOLEAN
    /\ cancelled => cancelled'
    /\ UNCHANGED worker

Next == Launch \/ Stop \/ Cancel \/ Return

Spec == Init /\ [][Next]_vars
=============================================================================
