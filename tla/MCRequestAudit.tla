--------------------------- MODULE MCRequestAudit ---------------------------
(* One deep or rapid request over two source fields.  The lifetime is one or *)
(* two instants long, so that reservations, attempts and the end of the      *)
(* request can lie before, at and after the deadline.  Outcomes the store    *)
(* treats alike are represented by one of them.                              *)
EXTENDS RequestAudit

CONSTANTS r1, a, b, fa, fb

MCFieldOf == [x \in Refs |-> IF x = a THEN fa ELSE fb]

(* Renaming the two fields together with their ids changes nothing. *)
Swap ==
    {[x \in {a, b, fa, fb} |->
        CASE x = a -> b [] x = b -> a [] x = fa -> fb [] x = fb -> fa]}

(* A failed attempt that may be retried, and any other. The cooldown of the  *)
(* first lies after the deadline.                                            *)
MCAttempts ==
    {x \in [run : Runs, ref : Refs, number : {1, 2},
            outcome : {"success", "transient_failure"},
            started : Times, finished : Times, cooldown : {NoTime, 2},
            auth : WorkKinds \union {"none"}] :
        AttemptWellFormed(x)}

MCNext ==
    \E r \in Runs :
        \/ \E mode \in Modes : BeginRequest(r, mode, 0)
        \/ BudgetAdvance(r)
        \/ \E group \in (SUBSET Refs) \ {{}}, t \in Times : ReserveForceGroup(r, group, t)
        \/ \E ref \in Refs, t \in Times : ReserveRetry(r, ref, t)
        \/ \E x \in MCAttempts : RecordSourceAttempt(x)
        \/ \E status \in {"complete", "failed"}, t \in Times, omitted \in SUBSET FieldIds :
              FinalizeRequest(r, status, t, omitted)
        \/ \E created \in Times, completeAt \in Times \union {NoTime} :
              SaveDecisionSnapshot(r, created, completeAt)
        \/ \E created, t \in Times, status \in {"complete", "failed"},
              omitted \in SUBSET FieldIds :
              SaveAndFinalize(r, created, status, t, omitted)

MCSpec == Init /\ [][MCNext]_vars
=============================================================================
