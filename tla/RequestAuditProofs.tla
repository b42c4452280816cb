------------------------- MODULE RequestAuditProofs -------------------------
(* Proofs about RequestAudit for any set of requests, source fields and      *)
(* instants: the type invariant, the inductive invariant and the properties  *)
(* of the audit that follow from it.                                         *)
EXTENDS RequestAudit, TLAPS

(* The whole inductive invariant. *)
IInv ==
    /\ AuditInv
    /\ ForceExcludesOrdinary
    /\ TerminalAccountsForReservations
    /\ TerminalClosesHistory

-----------------------------------------------------------------------------
(* Shapes of the rows.                                                       *)

LEMMA TimesFact == NoTime \notin Times /\ Times \subseteq Nat
  BY AuditAssumption DEF Times, NoTime

LEMMA PhaseStays == ASSUME NEW p \in Phases PROVE MayBecome(p) \subseteq Phases
  BY DEF MayBecome, Phases

LEMMA DeadlineNat ==
  ASSUME TypeOK, NEW r \in Runs
  PROVE  Deadline(r) \in Nat /\ runs[r].started \in Times /\ runs[r].started < Deadline(r)
  BY AuditAssumption DEF TypeOK, RunRow, Times, Deadline

(* Whatever instant and status a request ends with, its row stays a row. *)
LEMMA FinishedTyped ==
  ASSUME TypeOK, NEW r \in Runs, NEW status \in TerminalStatuses, NEW t \in Nat,
         NEW omitted \in SUBSET FieldIds
  PROVE  /\ Finished(r, status, t, omitted) \in [Runs -> RunRow]
         /\ Finished(r, status, t, omitted)[r].status = status
         /\ Finished(r, status, t, omitted)[r].finished = t
         /\ Finished(r, status, t, omitted)[r].omitted = omitted
         /\ \A q \in Runs : q # r => Finished(r, status, t, omitted)[q] = runs[q]
<1>1. runs \in [Runs -> RunRow]
  BY DEF TypeOK
<1>2. runs[r] \in RunRow
  BY <1>1
<1>3. [runs[r] EXCEPT !.status = status, !.finished = t, !.omitted = omitted] \in RunRow
  BY <1>2 DEF RunRow, Statuses
<1>4. Finished(r, status, t, omitted) =
      [runs EXCEPT ![r] = [runs[r] EXCEPT !.status = status, !.finished = t,
                                          !.omitted = omitted]]
  BY <1>1, <1>2 DEF Finished, RunRow
<1> QED
  BY <1>1, <1>2, <1>3, <1>4 DEF RunRow

-----------------------------------------------------------------------------
(* The operations, one lemma each.                                           *)

LEMMA InitIInv == Init => IInv
  BY AuditAssumption
  DEF Init, IInv, AuditInv, TypeOK, RunRow, AttemptRow, AuthorizationRow, SnapshotRow,
      Statuses, TerminalStatuses, Modes, Times, Phases, AttemptsKeyed,
      AuthorizationSpentOnce, AttemptsAuthorized, RetriesHaveParents,
      ForceExcludesOrdinary, TerminalAccountsForReservations, TerminalClosesHistory,
      Terminal

(* A step that leaves the rows and the statuses of the runs alone.           *)
LEMMA SameTables ==
  ASSUME IInv, UNCHANGED tables, budget' \in [Runs -> Phases]
  PROVE  IInv'
  BY DEF IInv, AuditInv, tables, TypeOK, AttemptsKeyed, AuthorizationSpentOnce,
         AttemptsAuthorized, RetriesHaveParents, RetriableAttempt, ForceExcludesOrdinary,
         TerminalAccountsForReservations, TerminalClosesHistory, Terminal, PendingOf, Consumed

LEMMA BudgetAdvanceStep ==
  ASSUME IInv, NEW r \in Runs, BudgetAdvance(r)
  PROVE  IInv'
<1>1. PICK p \in MayBecome(budget[r]) : budget' = [budget EXCEPT ![r] = p]
  BY DEF BudgetAdvance
<1>2. p \in Phases
  BY <1>1 DEF MayBecome
<1>3. budget' \in [Runs -> Phases]
  BY <1>1, <1>2 DEF IInv, AuditInv, TypeOK
<1> QED
  BY <1>3, SameTables DEF BudgetAdvance

LEMMA BeginStep ==
  ASSUME IInv, NEW r \in Runs, NEW mode \in Modes, NEW t \in Times, BeginRequest(r, mode, t)
  PROVE  IInv'
<1> DEFINE row == [status |-> "running", mode |-> mode, started |-> t,
                   finished |-> NoTime, omitted |-> {}]
<1>1. row \in RunRow
  BY DEF RunRow, Statuses
<1>2. /\ runs' = [runs EXCEPT ![r] = row]
      /\ attempts' = attempts /\ auths' = auths /\ snapshots' = snapshots /\ budget' = budget
  BY DEF BeginRequest
<1>3. runs \in [Runs -> RunRow]
  BY DEF IInv, AuditInv, TypeOK
<1>4. TypeOK'
  BY <1>1, <1>2, <1>3 DEF IInv, AuditInv, TypeOK
<1>5. \A q \in Runs : Terminal(q)' => Terminal(q) /\ runs'[q] = runs[q]
  BY <1>1, <1>2, <1>3 DEF Terminal, TerminalStatuses
<1>6. AuditInv'
  BY <1>2, <1>4 DEF IInv, AuditInv, AttemptsKeyed, AuthorizationSpentOnce,
     AttemptsAuthorized, RetriesHaveParents, RetriableAttempt
<1>7. ForceExcludesOrdinary'
  BY <1>2 DEF IInv, ForceExcludesOrdinary
<1>8. TerminalAccountsForReservations'
  BY <1>2, <1>5 DEF IInv, TerminalAccountsForReservations, PendingOf, Consumed
<1>9. TerminalClosesHistory'
  BY <1>2, <1>5 DEF IInv, TerminalClosesHistory
<1> QED
  BY <1>6, <1>7, <1>8, <1>9 DEF IInv

(* A new authorization belongs to a running request, so it leaves what the   *)
(* terminal requests account for alone.                                      *)
LEMMA NewAuthorizations ==
  ASSUME IInv, NEW r \in Runs, Running(r), NEW new \in SUBSET AuthorizationRow,
         \A w \in new : w.run = r,
         auths' = auths \union new,
         UNCHANGED <<runs, attempts, snapshots, budget>>
  PROVE  /\ TypeOK' /\ AttemptsKeyed' /\ AuthorizationSpentOnce' /\ AttemptsAuthorized'
         /\ TerminalAccountsForReservations' /\ TerminalClosesHistory'
<1>1. TypeOK'
  BY DEF IInv, AuditInv, TypeOK
<1>2. AttemptsKeyed' /\ AuthorizationSpentOnce' /\ AttemptsAuthorized' /\ TerminalClosesHistory'
  BY DEF IInv, AuditInv, AttemptsKeyed, AuthorizationSpentOnce, AttemptsAuthorized,
         TerminalClosesHistory, Terminal
<1>3. ~Terminal(r)
  BY DEF Running, Terminal, TerminalStatuses
<1>4. ASSUME NEW q \in Runs, Terminal(q)' PROVE PendingOf(q)' = PendingOf(q)
  BY <1>3, <1>4 DEF PendingOf, Consumed, Terminal
<1>5. TerminalAccountsForReservations'
  BY <1>4 DEF IInv, TerminalAccountsForReservations, Terminal
<1> QED
  BY <1>1, <1>2, <1>5

LEMMA ReserveForceStep ==
  ASSUME IInv, NEW r \in Runs, NEW group \in SUBSET Refs, NEW t \in Times,
         ReserveForceGroup(r, group, t)
  PROVE  IInv'
<1> DEFINE new == {[run |-> r, ref |-> ref, kind |-> "force", reserved |-> t] : ref \in group}
<1>1. /\ new \in SUBSET AuthorizationRow
      /\ \A w \in new : w.run = r /\ w.kind = "force" /\ w.ref \in group
  BY DEF AuthorizationRow, WorkKinds
<1>2. /\ Running(r)
      /\ \A ref \in group : ~HasAttempt(r, ref, 1)
      /\ auths' = auths \union new
      /\ UNCHANGED <<runs, attempts, snapshots, budget>>
  BY DEF ReserveForceGroup, ForceAdmissible
<1> HIDE DEF new
<1>3. /\ TypeOK' /\ AttemptsKeyed' /\ AuthorizationSpentOnce' /\ AttemptsAuthorized'
      /\ TerminalAccountsForReservations' /\ TerminalClosesHistory'
  BY <1>1, <1>2, NewAuthorizations
<1>4. RetriesHaveParents'
  BY <1>1, <1>2 DEF IInv, AuditInv, RetriesHaveParents, RetriableAttempt
<1>5. ForceExcludesOrdinary'
  <2> SUFFICES ASSUME NEW w \in auths', NEW x \in attempts,
                      w.kind = "force", w.run = x.run, w.ref = x.ref, x.number = 1
               PROVE  x.auth = "force"
    BY <1>2 DEF ForceExcludesOrdinary
  <2>1. CASE w \in auths
    BY <2>1 DEF IInv, ForceExcludesOrdinary
  <2>2. CASE w \in new
    BY <1>1, <1>2, <2>2 DEF HasAttempt, AttemptsOf
  <2> QED
    BY <1>2, <2>1, <2>2
<1> QED
  BY <1>3, <1>4, <1>5 DEF IInv, AuditInv

LEMMA ReserveRetryStep ==
  ASSUME IInv, NEW r \in Runs, NEW ref \in Refs, NEW t \in Times, ReserveRetry(r, ref, t)
  PROVE  IInv'
<1> DEFINE w0 == [run |-> r, ref |-> ref, kind |-> "retry", reserved |-> t]
<1>1. /\ {w0} \in SUBSET AuthorizationRow
      /\ w0.run = r /\ w0.ref = ref /\ w0.kind = "retry" /\ w0.reserved = t
  BY DEF AuthorizationRow, WorkKinds
<1>2. /\ Running(r)
      /\ \E p \in attempts : RetriableAttempt(p, r, ref, t)
      /\ auths' = auths \union {w0}
      /\ UNCHANGED <<runs, attempts, snapshots, budget>>
  BY DEF ReserveRetry, RetryAdmissible
<1> HIDE DEF w0
<1>3. /\ TypeOK' /\ AttemptsKeyed' /\ AuthorizationSpentOnce' /\ AttemptsAuthorized'
      /\ TerminalAccountsForReservations' /\ TerminalClosesHistory'
  BY <1>1, <1>2, NewAuthorizations
<1>4. RetriesHaveParents'
  BY <1>1, <1>2 DEF IInv, AuditInv, RetriesHaveParents, RetriableAttempt
<1>5. ForceExcludesOrdinary'
  BY <1>1, <1>2 DEF IInv, ForceExcludesOrdinary
<1> QED
  BY <1>3, <1>4, <1>5 DEF IInv, AuditInv

LEMMA RecordStep ==
  ASSUME IInv, NEW a \in AttemptRow, RecordSourceAttempt(a)
  PROVE  IInv'
<1>1. /\ AttemptAdmissible(a)
      /\ attempts' = attempts \union {a}
      /\ UNCHANGED <<runs, auths, snapshots, budget>>
  BY DEF RecordSourceAttempt
<1>2. a.run \in Runs /\ Running(a.run) /\ ~Terminal(a.run)
  BY <1>1 DEF AttemptAdmissible, AttemptRow, Running, Terminal, TerminalStatuses
<1>3. a.number \in {1, 2} /\ a.auth \in {"none", "force", "retry"}
  BY DEF AttemptRow, WorkKinds
<1>4. \A x \in attempts :
        x.run = a.run /\ x.ref = a.ref => x.number # a.number
  <2>1. CASE a.number = 1
    BY <1>1, <2>1 DEF AttemptAdmissible, NextInSequence, AttemptsOf
  <2>2. CASE a.number = 2
    BY <1>1, <2>2 DEF AttemptAdmissible, NextInSequence, AttemptsOf, HasAttempt
  <2> QED
    BY <1>3, <2>1, <2>2
<1>5. /\ a.auth = "none" => a.number = 1
      /\ a.auth # "none" =>
           /\ a.number = IF a.auth = "force" THEN 1 ELSE 2
           /\ \E w \in auths : /\ w.run = a.run /\ w.ref = a.ref /\ w.kind = a.auth
                               /\ w.reserved <= a.started
  BY <1>1 DEF AttemptAdmissible, AuthorizationFits
<1>6. TypeOK'
  BY <1>1 DEF IInv, AuditInv, TypeOK
<1>7. AttemptsKeyed'
  BY <1>1, <1>4 DEF IInv, AuditInv, AttemptsKeyed
<1>8. AttemptsAuthorized'
  BY <1>1, <1>5 DEF IInv, AuditInv, AttemptsAuthorized
<1>9. AuthorizationSpentOnce'
  <2>1. ASSUME NEW x \in attempts', NEW y \in attempts',
               x.run = y.run, x.ref = y.ref, x.auth = y.auth, x.auth # "none"
        PROVE  x.number = y.number
    BY <1>8, <2>1 DEF AttemptsAuthorized
  <2> QED
    BY <1>7, <2>1 DEF AttemptsKeyed, AuthorizationSpentOnce
<1>10. RetriesHaveParents'
  BY <1>1 DEF IInv, AuditInv, RetriesHaveParents, RetriableAttempt
<1>11. ForceExcludesOrdinary'
  <2> SUFFICES ASSUME NEW w \in auths, NEW x \in attempts',
                      w.kind = "force", w.run = x.run, w.ref = x.ref, x.number = 1
               PROVE  x.auth = "force"
    BY <1>1 DEF ForceExcludesOrdinary
  <2>1. CASE x \in attempts
    BY <2>1 DEF IInv, ForceExcludesOrdinary
  <2>2. CASE x = a
    <3>1. AttemptsOf(a.run, a.ref) = {}
      BY <1>1, <2>2 DEF AttemptAdmissible, NextInSequence
    <3>2. ~Consumed(w)
      BY <3>1, <2>2 DEF Consumed, AttemptsOf
    <3>3. w \in PendingOf(a.run)
      BY <3>2, <2>2 DEF PendingOf
    <3>4. a.auth # "none"
      BY <1>1, <3>3, <2>2 DEF AttemptAdmissible, AuthorizationFits
    <3> QED
      BY <1>3, <1>5, <2>2, <3>4
  <2> QED
    BY <1>1, <2>1, <2>2
<1>12. TerminalAccountsForReservations'
  <2>1. ASSUME NEW q \in Runs, Terminal(q)' PROVE PendingOf(q)' \subseteq PendingOf(q)
    BY <1>1 DEF PendingOf, Consumed
  <2> QED
    BY <1>1, <2>1 DEF IInv, TerminalAccountsForReservations, Terminal
<1>13. TerminalClosesHistory'
  BY <1>1, <1>2 DEF IInv, TerminalClosesHistory, Terminal
<1> QED
  BY <1>6, <1>7, <1>8, <1>9, <1>10, <1>11, <1>12, <1>13 DEF IInv, AuditInv

(* The end of a request: with the snapshots of the transaction, the row of   *)
(* the run is the only one that changes.                                     *)
LEMMA FinishStep ==
  ASSUME IInv, NEW r \in Runs, NEW status \in TerminalStatuses, NEW t \in Nat,
         NEW omitted \in SUBSET FieldIds,
         FinishAdmissible(r, status, t, omitted, snapshots'),
         snapshots' \in SUBSET SnapshotRow,
         \A s \in snapshots' : s \in snapshots \/ s.run = r,
         runs' = Finished(r, status, t, omitted),
         UNCHANGED <<attempts, auths, budget>>
  PROVE  IInv'
<1>1. TypeOK
  BY DEF IInv, AuditInv
<1>2. /\ runs' \in [Runs -> RunRow]
      /\ runs'[r].status = status
      /\ runs'[r].finished = t
      /\ runs'[r].omitted = omitted
      /\ \A q \in Runs : q # r => runs'[q] = runs[q]
  BY <1>1, FinishedTyped
<1>3. TypeOK'
  BY <1>1, <1>2 DEF TypeOK
<1>4. AuditInv' /\ ForceExcludesOrdinary'
  BY <1>3 DEF IInv, AuditInv, AttemptsKeyed, AuthorizationSpentOnce, AttemptsAuthorized,
     RetriesHaveParents, RetriableAttempt, ForceExcludesOrdinary
<1>5. \A q : PendingOf(q)' = PendingOf(q)
  BY DEF PendingOf, Consumed
<1>6. TerminalAccountsForReservations'
  <2> SUFFICES ASSUME NEW q \in Runs, Terminal(q)', NEW w \in PendingOf(q)
               PROVE  runs'[q].status # "complete" /\ FieldOf[w.ref] \in runs'[q].omitted
    BY <1>5 DEF TerminalAccountsForReservations
  <2>1. CASE q = r
    BY <1>2, <2>1 DEF FinishAdmissible
  <2>2. CASE q # r
    BY <1>2, <2>2 DEF IInv, TerminalAccountsForReservations, Terminal
  <2> QED
    BY <2>1, <2>2
<1>7. TerminalClosesHistory'
  <2> SUFFICES ASSUME NEW q \in Runs, Terminal(q)'
               PROVE  /\ \A a \in attempts : a.run = q => a.finished <= runs'[q].finished
                      /\ \A s \in snapshots' : s.run = q => s.created <= runs'[q].finished
    BY DEF TerminalClosesHistory
  <2>1. CASE q = r
    BY <1>2, <2>1 DEF FinishAdmissible
  <2>2. CASE q # r
    BY <1>2, <2>2 DEF IInv, TerminalClosesHistory, Terminal
  <2> QED
    BY <2>1, <2>2
<1> QED
  BY <1>4, <1>6, <1>7 DEF IInv

LEMMA FinalizeStep ==
  ASSUME IInv, NEW r \in Runs, NEW status \in TerminalStatuses, NEW t \in Nat,
         NEW omitted \in SUBSET FieldIds, FinalizeRequest(r, status, t, omitted)
  PROVE  IInv'
<1>1. snapshots' = snapshots /\ snapshots \in SUBSET SnapshotRow
  BY DEF FinalizeRequest, IInv, AuditInv, TypeOK
<1> QED
  BY <1>1, FinishStep DEF FinalizeRequest

LEMMA SnapshotStep ==
  ASSUME IInv, NEW r \in Runs, NEW created \in Times, NEW completeAt \in Times \union {NoTime},
         SaveDecisionSnapshot(r, created, completeAt)
  PROVE  IInv'
<1> DEFINE s0 == [run |-> r, created |-> created]
<1>1. /\ s0 \in SnapshotRow /\ s0.run = r
      /\ snapshots' = snapshots \union {s0}
      /\ UNCHANGED <<attempts, auths, budget>>
  BY DEF SnapshotRow, SaveDecisionSnapshot, SnapshotsWith
<1> HIDE DEF s0
<1>2. /\ snapshots' \in SUBSET SnapshotRow
      /\ \A s \in snapshots' : s \in snapshots \/ s.run = r
  BY <1>1 DEF IInv, AuditInv, TypeOK
<1>3. CASE completeAt # NoTime
  <2>1. /\ FinishAdmissible(r, "complete", completeAt, {}, snapshots')
        /\ runs' = Finished(r, "complete", completeAt, {})
    BY <1>3 DEF SaveDecisionSnapshot
  <2>2. "complete" \in TerminalStatuses /\ completeAt \in Nat /\ {} \in SUBSET FieldIds
    BY <1>3, TimesFact DEF TerminalStatuses
  <2> QED
    BY <1>1, <1>2, <2>1, <2>2, FinishStep
<1>4. CASE completeAt = NoTime
  <2>1. runs' = runs /\ Running(r)
    BY <1>4 DEF SaveDecisionSnapshot, SnapshotAdmissible
  <2>2. ~Terminal(r)
    BY <2>1 DEF Running, Terminal, TerminalStatuses
  <2>3. TypeOK'
    BY <1>1, <1>2, <2>1 DEF IInv, AuditInv, TypeOK
  <2>4. AuditInv' /\ ForceExcludesOrdinary' /\ TerminalAccountsForReservations'
    BY <1>1, <2>1, <2>3 DEF IInv, AuditInv, AttemptsKeyed, AuthorizationSpentOnce,
       AttemptsAuthorized, RetriesHaveParents, RetriableAttempt, ForceExcludesOrdinary,
       TerminalAccountsForReservations, Terminal, PendingOf, Consumed
  <2>5. TerminalClosesHistory'
    BY <1>1, <1>2, <2>1, <2>2 DEF IInv, TerminalClosesHistory, Terminal
  <2> QED
    BY <2>4, <2>5 DEF IInv
<1> QED
  BY <1>3, <1>4

LEMMA SaveAndFinalizeStep ==
  ASSUME IInv, NEW r \in Runs, NEW created \in Times, NEW t \in Times,
         NEW status \in TerminalStatuses, NEW omitted \in SUBSET FieldIds,
         SaveAndFinalize(r, created, status, t, omitted)
  PROVE  IInv'
<1>1. snapshots \in SUBSET SnapshotRow /\ t \in Nat
  BY TimesFact DEF IInv, AuditInv, TypeOK
<1>2. /\ snapshots' \in SUBSET SnapshotRow
      /\ \A s \in snapshots' : s \in snapshots \/ s.run = r
  BY <1>1 DEF SaveAndFinalize, SnapshotsWith, SnapshotRow
<1> QED
  BY <1>1, <1>2, FinishStep DEF SaveAndFinalize

-----------------------------------------------------------------------------

LEMMA NextIInv == IInv /\ [Next]_vars => IInv'
<1> SUFFICES ASSUME IInv, [Next]_vars PROVE IInv'
  OBVIOUS
<1>1. CASE UNCHANGED vars
  BY <1>1, SameTables DEF vars, tables, IInv, AuditInv, TypeOK
<1>2. CASE Next
  <2>1. PICK r \in Runs :
           \/ \E mode \in Modes, t \in Times : BeginRequest(r, mode, t)
           \/ BudgetAdvance(r)
           \/ \E group \in (SUBSET Refs) \ {{}}, t \in Times : ReserveForceGroup(r, group, t)
           \/ \E ref \in Refs, t \in Times : ReserveRetry(r, ref, t)
           \/ \E a \in AttemptRow : a.run = r /\ RecordSourceAttempt(a)
           \/ \E status \in TerminalStatuses, t \in Times \union {Deadline(r)},
                 omitted \in SUBSET FieldIds : FinalizeRequest(r, status, t, omitted)
           \/ \E created \in Times, completeAt \in Times \union {NoTime} :
                 SaveDecisionSnapshot(r, created, completeAt)
           \/ \E created, t \in Times, status \in TerminalStatuses,
                 omitted \in SUBSET FieldIds : SaveAndFinalize(r, created, status, t, omitted)
    BY <1>2 DEF Next
  <2>2. Times \union {Deadline(r)} \subseteq Nat
    BY DeadlineNat, TimesFact DEF IInv, AuditInv
  <2> QED
    BY <2>1, <2>2, BeginStep, BudgetAdvanceStep, ReserveForceStep, ReserveRetryStep, RecordStep,
       FinalizeStep, SnapshotStep, SaveAndFinalizeStep
<1> QED
  BY <1>1, <1>2

(* The audit is consistent in every reachable state: rows of the right type, *)
(* unique keys, one attempt per authorization, and every attempt covered by  *)
(* the authorization its number needs.                                       *)
THEOREM AuditInvariance == Spec => [](AuditInv /\ IInv)
<1>1. IInv => AuditInv
  BY DEF IInv
<1> QED
  BY <1>1, InitIInv, NextIInv, PTL DEF Spec

(* A second attempt always follows a transient failure and a reservation     *)
(* made between the two.                                                     *)
THEOREM RetryTheorem == Spec => []RetryFollowsTransientFailure
<1>1. IInv => RetryFollowsTransientFailure
  <2> SUFFICES ASSUME IInv, NEW a \in attempts, a.number = 2
               PROVE  \E p \in attempts, w \in auths :
                        /\ w.run = a.run /\ w.ref = a.ref /\ w.kind = "retry"
                        /\ RetriableAttempt(p, a.run, a.ref, w.reserved)
                        /\ w.reserved <= a.started
    BY DEF RetryFollowsTransientFailure
  <2>1. a.auth = "retry"
    BY DEF IInv, AuditInv, TypeOK, AttemptsAuthorized, AttemptRow, WorkKinds
  <2>2. PICK w \in auths : /\ w.run = a.run /\ w.ref = a.ref /\ w.kind = "retry"
                           /\ w.reserved <= a.started
    BY <2>1 DEF IInv, AuditInv, AttemptsAuthorized
  <2>3. PICK p \in attempts : RetriableAttempt(p, w.run, w.ref, w.reserved)
    BY <2>2 DEF IInv, AuditInv, RetriesHaveParents
  <2> QED
    BY <2>2, <2>3
<1> QED
  BY <1>1, AuditInvariance, PTL

(* The force path and the ordinary path to one source exclude each other.    *)
THEOREM ForceTheorem == Spec => []ForceExcludesOrdinary
<1>1. IInv => ForceExcludesOrdinary
  BY DEF IInv
<1> QED
  BY <1>1, AuditInvariance, PTL

(* A complete request has no open authorization; any other terminal request  *)
(* names the field of each open one.                                         *)
THEOREM AccountingTheorem == Spec => []TerminalAccountsForReservations
<1>1. IInv => TerminalAccountsForReservations
  BY DEF IInv
<1> QED
  BY <1>1, AuditInvariance, PTL

(* Nothing on the record of a terminal request ends after the request.       *)
THEOREM HistoryTheorem == Spec => []TerminalClosesHistory
<1>1. IInv => TerminalClosesHistory
  BY DEF IInv
<1> QED
  BY <1>1, AuditInvariance, PTL

(* The record of a terminal request is never touched again, by any operation *)
(* of any caller.                                                            *)
THEOREM FrozenTheorem == Spec => TerminalIsFrozen
<1>1. IInv /\ [Next]_vars => [\A r \in Runs : Terminal(r) => RecordOf(r)' = RecordOf(r)]_vars
  <2> SUFFICES ASSUME IInv, Next, NEW q \in Runs, Terminal(q)
               PROVE  RecordOf(q)' = RecordOf(q)
    BY DEF vars
  <2>1. ~Running(q) /\ runs[q].status # "absent"
    BY DEF Terminal, Running, TerminalStatuses
  <2>2. PICK r \in Runs :
           \/ \E mode \in Modes, t \in Times : BeginRequest(r, mode, t)
           \/ BudgetAdvance(r)
           \/ \E group \in (SUBSET Refs) \ {{}}, t \in Times : ReserveForceGroup(r, group, t)
           \/ \E ref \in Refs, t \in Times : ReserveRetry(r, ref, t)
           \/ \E a \in AttemptRow : a.run = r /\ RecordSourceAttempt(a)
           \/ \E status \in TerminalStatuses, t \in Times \union {Deadline(r)},
                 omitted \in SUBSET FieldIds : FinalizeRequest(r, status, t, omitted)
           \/ \E created \in Times, completeAt \in Times \union {NoTime} :
                 SaveDecisionSnapshot(r, created, completeAt)
           \/ \E created, t \in Times, status \in TerminalStatuses,
                 omitted \in SUBSET FieldIds : SaveAndFinalize(r, created, status, t, omitted)
    BY DEF Next
  <2>3. r # q
    BY <2>1, <2>2 DEF BeginRequest, BudgetAdvance, ReserveForceGroup, ForceAdmissible,
       ReserveRetry, RetryAdmissible, RecordSourceAttempt, AttemptAdmissible,
       FinalizeRequest, FinishAdmissible, SaveDecisionSnapshot, SnapshotAdmissible,
       SaveAndFinalize
  <2>4. runs \in [Runs -> RunRow]
    BY DEF IInv, AuditInv, TypeOK
  <2>5. runs'[q] = runs[q]
    BY <2>2, <2>3, <2>4 DEF BeginRequest, BudgetAdvance, ReserveForceGroup, ReserveRetry,
       RecordSourceAttempt, FinalizeRequest, SaveDecisionSnapshot, SaveAndFinalize,
       Finished, tables
  <2>6. {a \in attempts : a.run = q}' = {a \in attempts : a.run = q}
    BY <2>2, <2>3 DEF BeginRequest, BudgetAdvance, ReserveForceGroup, ReserveRetry,
       RecordSourceAttempt, FinalizeRequest, SaveDecisionSnapshot, SaveAndFinalize, tables
  <2>7. {w \in auths : w.run = q}' = {w \in auths : w.run = q}
    BY <2>2, <2>3 DEF BeginRequest, BudgetAdvance, ReserveForceGroup, ReserveRetry,
       RecordSourceAttempt, FinalizeRequest, SaveDecisionSnapshot, SaveAndFinalize, tables
  <2>8. {s \in snapshots : s.run = q}' = {s \in snapshots : s.run = q}
    BY <2>2, <2>3 DEF BeginRequest, BudgetAdvance, ReserveForceGroup, ReserveRetry,
       RecordSourceAttempt, FinalizeRequest, SaveDecisionSnapshot, SaveAndFinalize,
       SnapshotsWith, tables
  <2> QED
    BY <2>5, <2>6, <2>7, <2>8 DEF RecordOf
<1> QED
  BY <1>1, AuditInvariance, PTL DEF Spec, TerminalIsFrozen
=============================================================================
