------------------------ MODULE RequestBudgetProofs ------------------------
(* Proofs about RequestBudget for every clock, every start and every length *)
(* of the lifetime.                                                         *)
EXTENDS RequestBudget, TLAPS

(* The inductive invariant.  RefusalIsFinal alone is not inductive: it needs *)
(* that a refusal is remembered by the state the next question looks at,     *)
(* that is by _cancelled or by _last_monotonic.                              *)
RefusalIsRemembered == refused => Closed
GrantIsCurrent ==
    /\ granted = "publication" => ~Closed
    /\ granted = "work" => ~cancelled /\ last < Deadline - CleanupReserve
BudgetInv == TypeOK /\ RefusalIsRemembered /\ GrantIsCurrent

(* The invariant holds before the first question is asked. *)
LEMMA InitBudgetInv == Init => BudgetInv
  BY BudgetAssumption
  DEF Init, BudgetInv, TypeOK, AllReasons, Answers, RefusalIsRemembered,
      GrantIsCurrent, Closed, Deadline

(* A reading the budget accepts never lies before the one it remembers. *)
LEMMA ReadingsGrow ==
  ASSUME TypeOK, NEW v \in Readings \union {NoReading}, Accepts(v)
  PROVE  v \in Int /\ v >= last
  BY BudgetAssumption DEF TypeOK, Accepts

(* Every question and every cancellation preserves the invariant. *)
LEMMA NextBudgetInv == BudgetInv /\ [Next]_vars => BudgetInv'
<1> SUFFICES ASSUME BudgetInv, [Next]_vars
             PROVE  BudgetInv'
  OBVIOUS
<1> USE BudgetAssumption DEF BudgetInv, Answers, Deadline
<1>1. ASSUME NEW v \in Readings \union {NoReading}, WorkerSeconds(v)
      PROVE  BudgetInv'
  <2>1. CASE ~Accepts(v)
    <3>1. cancelled' = TRUE /\ last' = last /\ granted' = "nothing" /\ refused' = refused
      BY <1>1, <2>1 DEF WorkerSeconds, CancelWith
    <3>2. reason' \in AllReasons
      BY <1>1, <2>1 DEF WorkerSeconds, CancelWith, ClockFault, AllReasons, TypeOK
    <3> QED
      BY <3>1, <3>2 DEF TypeOK, RefusalIsRemembered, GrantIsCurrent, Closed
  <2>2. CASE Accepts(v)
    <3>1. v \in Int /\ v >= last
      BY <2>2, ReadingsGrow
    <3>2. /\ last' = v /\ cancelled' = cancelled /\ reason' = reason
          /\ refused' = refused /\ cancelled = FALSE
          /\ granted' = IF SecondsForWork(v) > 0 THEN "work" ELSE "nothing"
      BY <1>1, <2>2 DEF WorkerSeconds, TypeOK
    <3> QED
      BY <3>1, <3>2
      DEF TypeOK, RefusalIsRemembered, GrantIsCurrent, Closed, SecondsForWork
  <2> QED
    BY <2>1, <2>2
<1>2. ASSUME NEW v \in Readings \union {NoReading}, RequirePublishable(v)
      PROVE  BudgetInv'
  <2>1. CASE ~Accepts(v)
    <3>1. cancelled' = TRUE /\ last' = last /\ granted' = "nothing" /\ refused' = TRUE
      BY <1>2, <2>1 DEF RequirePublishable, CancelWith
    <3>2. reason' \in AllReasons
      BY <1>2, <2>1 DEF RequirePublishable, CancelWith, ClockFault, AllReasons, TypeOK
    <3> QED
      BY <3>1, <3>2 DEF TypeOK, RefusalIsRemembered, GrantIsCurrent, Closed
  <2>2. CASE Accepts(v)
    <3>1. v \in Int /\ v >= last
      BY <2>2, ReadingsGrow
    <3>2. /\ last' = v /\ cancelled' = cancelled /\ reason' = reason /\ cancelled = FALSE
          /\ granted' = IF v >= Deadline THEN "nothing" ELSE "publication"
          /\ refused' = (refused \/ v >= Deadline)
      BY <1>2, <2>2 DEF RequirePublishable, TypeOK
    <3> QED
      BY <3>1, <3>2 DEF TypeOK, RefusalIsRemembered, GrantIsCurrent, Closed
  <2> QED
    BY <2>1, <2>2
<1>3. CASE WorkerSecondsCancelled
  BY <1>3 DEF WorkerSecondsCancelled, TypeOK, RefusalIsRemembered, GrantIsCurrent, Closed
<1>4. CASE RequirePublishableCancelled
  BY <1>4 DEF RequirePublishableCancelled, TypeOK, RefusalIsRemembered, GrantIsCurrent, Closed
<1>5. ASSUME NEW why \in Reasons, Cancel(why)
      PROVE  BudgetInv'
  <2>1. cancelled' = TRUE /\ last' = last /\ granted' = "nothing" /\ refused' = refused
    BY <1>5 DEF Cancel, CancelWith
  <2>2. reason' \in AllReasons
    BY <1>5 DEF Cancel, CancelWith, AllReasons, TypeOK
  <2> QED
    BY <2>1, <2>2 DEF TypeOK, RefusalIsRemembered, GrantIsCurrent, Closed
<1>6. CASE UNCHANGED vars
  BY <1>6 DEF vars, TypeOK, RefusalIsRemembered, GrantIsCurrent, Closed
<1> QED
  BY <1>1, <1>2, <1>3, <1>4, <1>5, <1>6 DEF Next

THEOREM BudgetInvariance == Spec => []BudgetInv
  BY InitBudgetInv, NextBudgetInv, PTL DEF Spec

(* Once a result has been refused as late or cancelled, nothing is granted   *)
(* again: RequestBudget never answers a later question of the same request   *)
(* with work or with publication, whatever the monotonic clock returns.      *)
THEOREM RefusalIsFinalTheorem == Spec => []RefusalIsFinal
<1>1. BudgetInv => RefusalIsFinal
  BY BudgetAssumption
  DEF BudgetInv, TypeOK, Answers, RefusalIsRemembered, GrantIsCurrent, RefusalIsFinal,
      Closed, Deadline
<1> QED
  BY <1>1, BudgetInvariance, PTL

(* The recorded cause of a cancellation never changes. *)
THEOREM FirstReasonWinsTheorem == Spec => FirstReasonWins
<1>1. [Next]_vars => [cancelled => cancelled' /\ reason' = reason]_vars
  BY DEF Next, vars, WorkerSeconds, WorkerSecondsCancelled, RequirePublishable,
         RequirePublishableCancelled, Cancel, CancelWith
<1> QED
  BY <1>1, PTL DEF Spec, FirstReasonWins

-----------------------------------------------------------------------------

(* RequestBudget implements BudgetPhase. *)

LEMMA InitPhase == Init => Phase!Init
  BY BudgetAssumption DEF Init, Phase!Init, PhaseOf, Closed, Deadline

(* A step of the budget never leads back to an earlier phase. *)
LEMMA PhaseWalksForward ==
  ASSUME BudgetInv, BudgetInv', cancelled => cancelled', last' >= last
  PROVE  PhaseOf' \in Phase!MayBecome(PhaseOf)
  BY BudgetAssumption
  DEF BudgetInv, TypeOK, PhaseOf, Closed, Deadline, Phase!MayBecome, Phase!Phases

(* What a step answers is what the phase it ends in permits. *)
LEMMA AnswersFitPhase ==
  ASSUME BudgetInv'
  PROVE  granted' \in Phase!Permits(PhaseOf')
  BY BudgetAssumption
  DEF BudgetInv, TypeOK, Answers, GrantIsCurrent, PhaseOf, Closed, Deadline,
      Phase!Permits, Phase!Grants

LEMMA StepsMoveForward ==
  ASSUME BudgetInv, Next
  PROVE  (cancelled => cancelled') /\ last' >= last
<1> USE BudgetAssumption DEF BudgetInv, TypeOK
<1>1. ASSUME NEW v \in Readings \union {NoReading}, WorkerSeconds(v) \/ RequirePublishable(v)
      PROVE  (cancelled => cancelled') /\ last' >= last
  <2>1. CASE Accepts(v)
    <3>1. last' = v \/ last' = last
      BY <1>1, <2>1 DEF WorkerSeconds, RequirePublishable
    <3>2. cancelled = FALSE
      BY <1>1 DEF WorkerSeconds, RequirePublishable
    <3> QED
      BY <3>1, <3>2, <2>1, ReadingsGrow
  <2>2. CASE ~Accepts(v)
    BY <1>1, <2>2 DEF WorkerSeconds, RequirePublishable, CancelWith
  <2> QED
    BY <2>1, <2>2
<1> QED
  BY <1>1 DEF Next, WorkerSecondsCancelled, RequirePublishableCancelled, Cancel, CancelWith

(* The whole behaviour of the budget, seen through PhaseOf, is a behaviour   *)
(* of BudgetPhase: no work is granted inside the cleanup reserve and nothing *)
(* after the end of the lifetime.                                            *)
THEOREM Refinement == Spec => ImplementsBudgetPhase
<1>1. BudgetInv /\ BudgetInv' /\ [Next]_vars => [Phase!Next]_(Phase!vars)
  <2> SUFFICES ASSUME BudgetInv, BudgetInv', [Next]_vars
               PROVE  [Phase!Next]_(Phase!vars)
    OBVIOUS
  <2>1. CASE UNCHANGED vars
    BY <2>1 DEF vars, Phase!vars, PhaseOf, Closed, Deadline
  <2>2. CASE Next
    <3>1. PhaseOf' \in Phase!MayBecome(PhaseOf)
      BY <2>2, StepsMoveForward, PhaseWalksForward
    <3>2. granted' \in Phase!Permits(PhaseOf')
      BY AnswersFitPhase
    <3> QED
      BY <3>1, <3>2 DEF Phase!Next
  <2> QED
    BY <2>1, <2>2
<1> QED
  BY <1>1, InitPhase, BudgetInvariance, PTL DEF Spec, ImplementsBudgetPhase, Phase!Spec
=============================================================================
