---------------------------- MODULE RequestAudit ----------------------------
(* decision/store.py over the tables and triggers of schema V14 and V15: the *)
(* append-only audit of requests, source attempts, one-time authorizations   *)
(* and decision snapshots.                                                   *)
(*                                                                           *)
(* Every operation of DecisionAuditStore is one BEGIN IMMEDIATE transaction, *)
(* so it is one action here.  The callers are the environment: they pass any *)
(* instants, in any order, from several processes; an operation whose checks *)
(* fail raises and changes nothing, so it is not enabled.  A row key that    *)
(* AUTOINCREMENT chooses is replaced by what identifies the row: a request   *)
(* run by its request, an attempt by run, source field and number, an        *)
(* authorization by run, source field and kind.  Subject and source are part *)
(* of the source field reference; registry and policy checksums, which bind  *)
(* a row to constants of the release, are left out.                          *)
EXTENDS Integers, PhaseOrder

CONSTANTS
    Runs,       \* request ids
    Refs,       \* source field references: source, field and subject
    FieldIds,   \* field ids, the names omitted work is given by
    FieldOf,    \* the field id of a reference
    MaxTime,    \* bound on the wall clock
    RapidSpan,  \* total seconds of a rapid request
    DeepSpan    \* total seconds of a deep request

ASSUME AuditAssumption ==
    /\ FieldOf \in [Refs -> FieldIds]
    /\ MaxTime \in Nat
    /\ RapidSpan \in Nat \ {0}
    /\ DeepSpan \in Nat \ {0}

Times == 0..MaxTime
NoTime == -1

Modes == {"rapid", "deep"}
TerminalStatuses == {"complete", "partial", "failed", "cancelled", "expired"}
Statuses == {"absent", "running"} \union TerminalStatuses
Outcomes ==
    {"success", "transient_failure", "unavailable", "unsupported", "cancelled",
     "expired", "cache_hit", "skipped_cooldown"}
WorkKinds == {"force", "retry"}

RunRow ==
    [status : Statuses, mode : Modes, started : Times,
     finished : Nat \union {NoTime}, omitted : SUBSET FieldIds]

AttemptRow ==
    [run : Runs, ref : Refs, number : {1, 2}, outcome : Outcomes,
     started : Times, finished : Times, cooldown : Nat \union {NoTime},
     auth : WorkKinds \union {"none"}]

AuthorizationRow ==
    [run : Runs, ref : Refs, kind : WorkKinds, reserved : Times]

SnapshotRow == [run : Runs, created : Times]

VARIABLES
    runs,       \* request_runs
    attempts,   \* source_attempts
    auths,      \* source_work_authorizations
    snapshots,  \* decision_snapshots
    budget      \* phase of the RequestBudget of each request

tables == <<runs, attempts, auths, snapshots>>
vars == <<runs, attempts, auths, snapshots, budget>>

TypeOK ==
    /\ runs \in [Runs -> RunRow]
    /\ attempts \subseteq AttemptRow
    /\ auths \subseteq AuthorizationRow
    /\ snapshots \subseteq SnapshotRow
    /\ budget \in [Runs -> Phases]

Init ==
    /\ runs \in [Runs -> {[status |-> "absent", mode |-> "rapid", started |-> 0,
                           finished |-> NoTime, omitted |-> {}]}]
    /\ attempts = {}
    /\ auths = {}
    /\ snapshots = {}
    /\ budget \in [Runs -> {"open"}]

-----------------------------------------------------------------------------

Deadline(r) ==
    runs[r].started + IF runs[r].mode = "deep" THEN DeepSpan ELSE RapidSpan

WithinLifetime(r, t) == runs[r].started <= t /\ t <= Deadline(r)

FailedMayGoOn(r) == runs[r].status \in {"running", "failed"}   \* a failed run is reopened
Running(r) == runs[r].status = "running"
Terminal(r) == runs[r].status \in TerminalStatuses

AttemptsOf(r, ref) == {a \in attempts : a.run = r /\ a.ref = ref}

HasAttempt(r, ref, n) == \E a \in AttemptsOf(r, ref) : a.number = n

Authorized(r, ref, kind) ==
    \E w \in auths : w.run = r /\ w.ref = ref /\ w.kind = kind

(* An authorization is consumed by the attempt that carries its id. *)
Consumed(w) ==
    \E a \in attempts : a.run = w.run /\ a.ref = w.ref /\ a.auth = w.kind

PendingOf(r) == {w \in auths : w.run = r /\ ~Consumed(w)}

(* The parent a retry names: attempt 1 of the same field, ended by a         *)
(* transient failure, before the reservation.                                *)
RetriableAttempt(p, r, ref, t) ==
    /\ p.run = r /\ p.ref = ref /\ p.number = 1
    /\ p.outcome = "transient_failure"
    /\ p.finished <= t

-----------------------------------------------------------------------------

(* begin_request: a new row, never one that replaces another. *)
BeginRequest(r, mode, t) ==
    /\ runs[r].status = "absent"
    /\ runs' = [runs EXCEPT ![r] = [status |-> "running", mode |-> mode, started |-> t,
                                    finished |-> NoTime, omitted |-> {}]]
    /\ UNCHANGED <<attempts, auths, snapshots, budget>>

(* The budget of a request moves on between any two operations. *)
BudgetAdvance(r) ==
    /\ Running(r)
    /\ \E p \in MayBecome(budget[r]) : budget' = [budget EXCEPT ![r] = p]
    /\ UNCHANGED tables

(* reserve_force_group: one authorization for each reference of the group,   *)
(* or none at all.                                                           *)
ForceAdmissible(r, group, t) ==
    /\ Running(r)
    /\ budget[r] # "closed"
    /\ WithinLifetime(r, t)
    /\ runs[r].mode = "deep"
    /\ \A ref \in group : ~HasAttempt(r, ref, 1) /\ ~Authorized(r, ref, "force")

ReserveForceGroup(r, group, t) ==
    /\ ForceAdmissible(r, group, t)
    /\ auths' = auths \union
                {[run |-> r, ref |-> ref, kind |-> "force", reserved |-> t] : ref \in group}
    /\ UNCHANGED <<runs, attempts, snapshots, budget>>

(* reserve_retry. The minimum of worker seconds leaves the choice open while *)
(* the budget is open: the caller may have less than it asks for.            *)
AnyTransientParent(r, ref, t) ==                  \* without "parent.finished_at <= reserved_at"
    /\ Running(r) /\ budget[r] = "open" /\ WithinLifetime(r, t)
    /\ \E p \in attempts : RetriableAttempt(p, r, ref, MaxTime)
    /\ ~HasAttempt(r, ref, 2) /\ ~Authorized(r, ref, "retry")
RetryAdmissible(r, ref, t) ==
    /\ Running(r)
    /\ budget[r] = "open"
    /\ WithinLifetime(r, t)
    /\ \E p \in attempts : RetriableAttempt(p, r, ref, t)
    /\ ~HasAttempt(r, ref, 2)
    /\ ~Authorized(r, ref, "retry")

ReserveRetry(r, ref, t) ==
    /\ RetryAdmissible(r, ref, t)
    /\ auths' = auths \union {[run |-> r, ref |-> ref, kind |-> "retry", reserved |-> t]}
    /\ UNCHANGED <<runs, attempts, snapshots, budget>>

(* SourceAttempt.validate and the CHECKs of source_attempts. *)
AttemptWellFormed(a) ==
    /\ a.started <= a.finished
    /\ IF a.outcome \in {"transient_failure", "skipped_cooldown"}
       THEN a.cooldown > a.finished
       ELSE a.cooldown = NoTime
    /\ a.auth = "force" => a.outcome \notin {"cache_hit", "skipped_cooldown"}

(* _validate_attempt_authorization and source_attempt_authorization_guard. *)
ForceIgnored(a) ==                                \* an ordinary attempt may pass a force
    /\ a.auth = "none" => a.number = 1
    /\ a.auth # "none" =>
         /\ a.number = IF a.auth = "force" THEN 1 ELSE 2
         /\ \E w \in auths : /\ w.run = a.run /\ w.ref = a.ref /\ w.kind = a.auth
                             /\ w.reserved <= a.started
AuthorizationFits(a) ==
    /\ a.auth = "none" =>
         /\ a.number = 1
         /\ \A w \in PendingOf(a.run) : ~(w.ref = a.ref /\ w.kind = "force")
    /\ a.auth # "none" =>
         /\ a.number = IF a.auth = "force" THEN 1 ELSE 2
         /\ \E w \in auths : /\ w.run = a.run /\ w.ref = a.ref /\ w.kind = a.auth
                             /\ w.reserved <= a.started

(* The attempts of a field are numbered 1 and 2, without a gap. *)
AnyNumber(a) == a.number = 1 => ~HasAttempt(a.run, a.ref, 2)   \* a second first attempt
NextInSequence(a) ==
    IF a.number = 1
    THEN AttemptsOf(a.run, a.ref) = {}
    ELSE HasAttempt(a.run, a.ref, 1) /\ ~HasAttempt(a.run, a.ref, 2)

(* record_source_attempt. *)
AttemptAdmissible(a) ==
    /\ AttemptWellFormed(a)
    /\ Running(a.run)
    /\ a.auth = "force" => runs[a.run].mode = "deep"
    /\ runs[a.run].started <= a.started
    /\ a.finished <= Deadline(a.run)
    /\ NextInSequence(a)
    /\ AuthorizationFits(a)

RecordSourceAttempt(a) ==
    /\ AttemptAdmissible(a)
    /\ attempts' = attempts \union {a}
    /\ UNCHANGED <<runs, auths, snapshots, budget>>

(* _finalize_request_in_transaction, over the snapshots the transaction has  *)
(* written so far.                                                           *)
PendingForgotten(r, status, t, omitted, snaps) == \* without the pending authorizations
    /\ Running(r) /\ runs[r].started <= t
    /\ \A a \in attempts : a.run = r => a.finished <= t
    /\ \A s \in snaps : s.run = r => s.created <= t
SnapshotForgotten(r, status, t, omitted, snaps) == \* without the snapshot's instant
    /\ Running(r) /\ runs[r].started <= t
    /\ PendingOf(r) # {} =>
         status # "complete" /\ \A w \in PendingOf(r) : FieldOf[w.ref] \in omitted
    /\ \A a \in attempts : a.run = r => a.finished <= t
FinishAdmissible(r, status, t, omitted, snaps) ==
    /\ Running(r)
    /\ runs[r].started <= t
    /\ PendingOf(r) # {} =>
         /\ status # "complete"
         /\ \A w \in PendingOf(r) : FieldOf[w.ref] \in omitted
    /\ \A a \in attempts : a.run = r => a.finished <= t
    /\ \A s \in snaps : s.run = r => s.created <= t

Finished(r, status, t, omitted) ==
    [runs EXCEPT ![r].status = status, ![r].finished = t, ![r].omitted = omitted]

(* finalize_request. A caller that passes its budget is refused when it is   *)
(* closed; the callers that end a failed request pass none, and may name the *)
(* deadline before the wall clock has reached it.                            *)
FinalizeRequest(r, status, t, omitted) ==
    /\ FinishAdmissible(r, status, t, omitted, snapshots)
    /\ runs' = Finished(r, status, t, omitted)
    /\ UNCHANGED <<attempts, auths, snapshots, budget>>

(* save_decision_snapshot: one snapshot per run, inside its lifetime and     *)
(* while its budget is publishable; with complete_request_at the request is  *)
(* completed by the same transaction.                                        *)
SnapshotAdmissible(r, created) ==
    /\ Running(r)
    /\ budget[r] # "closed"
    /\ WithinLifetime(r, created)
    /\ \A s \in snapshots : s.run # r

SnapshotsWith(r, created) == snapshots \union {[run |-> r, created |-> created]}

SaveDecisionSnapshot(r, created, completeAt) ==
    /\ SnapshotAdmissible(r, created)
    /\ snapshots' = SnapshotsWith(r, created)
    /\ \/ /\ completeAt = NoTime
          /\ UNCHANGED runs
       \/ /\ completeAt # NoTime
          /\ created <= completeAt
          /\ completeAt <= Deadline(r)
          /\ FinishAdmissible(r, "complete", completeAt, {}, snapshots')
          /\ runs' = Finished(r, "complete", completeAt, {})
    /\ UNCHANGED <<attempts, auths, budget>>

(* Both operations join the transaction of a caller that passes its          *)
(* connection: the snapshot and the end of the request, or neither.          *)
SaveAndFinalize(r, created, status, t, omitted) ==
    /\ SnapshotAdmissible(r, created)
    /\ snapshots' = SnapshotsWith(r, created)
    /\ FinishAdmissible(r, status, t, omitted, snapshots')
    /\ runs' = Finished(r, status, t, omitted)
    /\ UNCHANGED <<attempts, auths, budget>>

Next ==
    \E r \in Runs :
        \/ \E mode \in Modes, t \in Times : BeginRequest(r, mode, t)
        \/ BudgetAdvance(r)
        \/ \E group \in (SUBSET Refs) \ {{}}, t \in Times : ReserveForceGroup(r, group, t)
        \/ \E ref \in Refs, t \in Times : ReserveRetry(r, ref, t)
        \/ \E a \in AttemptRow : a.run = r /\ RecordSourceAttempt(a)
        \/ \E status \in TerminalStatuses, t \in Times \union {Deadline(r)},
              omitted \in SUBSET FieldIds :
              FinalizeRequest(r, status, t, omitted)
        \/ \E created \in Times, completeAt \in Times \union {NoTime} :
              SaveDecisionSnapshot(r, created, completeAt)
        \/ \E created, t \in Times, status \in TerminalStatuses,
              omitted \in SUBSET FieldIds :
              SaveAndFinalize(r, created, status, t, omitted)

Spec == Init /\ [][Next]_vars

-----------------------------------------------------------------------------

(* The audit of one source field is a chain: a second attempt exists only    *)
(* after a first one that failed transiently, and the reservation that       *)
(* allowed it lies between the end of the first and the start of the second. *)
RetryFollowsTransientFailure ==
    \A a \in attempts : a.number = 2 =>
        \E p \in attempts, w \in auths :
            /\ w.run = a.run /\ w.ref = a.ref /\ w.kind = "retry"
            /\ RetriableAttempt(p, a.run, a.ref, w.reserved)
            /\ w.reserved <= a.started

(* A force authorization and an ordinary first attempt of the same field     *)
(* never coexist, in whatever order two callers reserve and record: the      *)
(* source is contacted once, under one of the two.                           *)
ForceExcludesOrdinary ==
    \A w \in auths, a \in attempts :
        w.kind = "force" /\ w.run = a.run /\ w.ref = a.ref /\ a.number = 1
        => a.auth = "force"

(* What a terminal request says is complete: no authorization is left open   *)
(* in a complete request, and any other terminal request names the field of  *)
(* each one in its omitted work.                                             *)
TerminalAccountsForReservations ==
    \A r \in Runs : Terminal(r) =>
        \A w \in PendingOf(r) :
            runs[r].status # "complete" /\ FieldOf[w.ref] \in runs[r].omitted

(* No attempt and no snapshot of a terminal request ends after the request:  *)
(* a late result was not slipped in before or after finalization.            *)
TerminalClosesHistory ==
    \A r \in Runs : Terminal(r) =>
        /\ \A a \in attempts : a.run = r => a.finished <= runs[r].finished
        /\ \A s \in snapshots : s.run = r => s.created <= runs[r].finished

(* The rows are keyed as the UNIQUE constraints and indexes say although the *)
(* operations only compare what they read: attempts by run, field and        *)
(* number, spent authorizations by the attempt that carries them; and every  *)
(* authorization was reserved for something that can still be retried or     *)
(* forced.  Together with the parts above this is inductive.                 *)
AttemptsKeyed ==
    \A x, y \in attempts :
        x.run = y.run /\ x.ref = y.ref /\ x.number = y.number => x = y

AuthorizationSpentOnce ==
    \A x, y \in attempts :
        x.run = y.run /\ x.ref = y.ref /\ x.auth = y.auth /\ x.auth # "none" => x = y

AttemptsAuthorized ==
    \A x \in attempts :
        /\ x.auth = "none" => x.number = 1
        /\ x.auth # "none" =>
             /\ x.number = IF x.auth = "force" THEN 1 ELSE 2
             /\ \E w \in auths : /\ w.run = x.run /\ w.ref = x.ref /\ w.kind = x.auth
                                 /\ w.reserved <= x.started

RetriesHaveParents ==
    \A w \in auths : w.kind = "retry" =>
        \E p \in attempts : RetriableAttempt(p, w.run, w.ref, w.reserved)

AuditInv ==
    /\ TypeOK
    /\ AttemptsKeyed
    /\ AuthorizationSpentOnce
    /\ AttemptsAuthorized
    /\ RetriesHaveParents

(* What a request has on record, and what is settled once it is terminal:    *)
(* its row, its attempts, its authorizations and its snapshot are never      *)
(* touched again by any operation of any caller.                             *)
RecordOf(r) ==
    <<runs[r], {a \in attempts : a.run = r}, {w \in auths : w.run = r},
      {s \in snapshots : s.run = r}>>
TerminalIsFrozen ==
    [][\A r \in Runs : Terminal(r) => RecordOf(r)' = RecordOf(r)]_vars
=============================================================================
