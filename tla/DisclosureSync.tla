--------------------------- MODULE DisclosureSync ---------------------------
(* funds/service.py, the bounded synchronisation of a fund's disclosure      *)
(* sections (_sync_bounded and what it calls), with the parts of             *)
(* decision/health.py, decision/worker.py and funds/store.py it relies on.   *)
(*                                                                           *)
(* A process serves one request; it is named by its run.  It works through   *)
(* the groups of its plan (the sections that share an audit field), asks the *)
(* audit store whether a group may be polled, lets a worker fetch each       *)
(* section, and commits the sections and the source attempt of a group in    *)
(* one transaction.  Processes share the database (the tables of             *)
(* RequestAudit and the section cache) and the wall clock; a budget follows  *)
(* the monotonic clock, which the code never ties to the wall clock.  What   *)
(* the engine returns or raises is left in ret for the caller, CliSync or    *)
(* BriefSync.                                                                *)
EXTENDS RequestAudit, Sequences

CONSTANTS
    Sections,     \* the sections of one fund
    SectionsOf,   \* the sections of a group
    NoEntry,      \* what the cache holds of a section that was never synchronised
    Cooldown,     \* INITIAL_COOLDOWN
    Answers,      \* how a source may answer, among Polled
    Disruptions   \* what may go wrong besides the source: the kinds below

(* How a section fares in the current attempt. "unavailable" stands for      *)
(* unsupported too, "carried" for one that attempt 1 left unavailable.       *)
Polled == {"parsed", "unpublishable", "transient", "unavailable"}
SeenValues == Polled \union {"none", "todo", "carried", "expired", "cancelled"}

ASSUME SyncAssumption ==
    /\ SectionsOf \in [Refs -> (SUBSET Sections) \ {{}}]
    /\ \A x, y \in Refs : x # y => SectionsOf[x] \intersect SectionsOf[y] = {}
    /\ Cooldown \in Nat \ {0}
    /\ Answers \subseteq Polled
    /\ Disruptions \subseteq {"interrupt", "fault", "crash", "abort"}

VARIABLES
    now,        \* the wall clock
    cache,      \* fund_section_syncs: what each section holds and who wrote it
    contacts,   \* history: the worker runs that reached a source
    proc        \* the processes

syncVars == <<vars, now, cache, contacts, proc>>

Pcs ==
    {"idle", "choose", "group", "hit", "skip", "attempt", "fetch", "record",
     "retry", "left", "ended", "cut", "dead"}

(* A process is over: it came to its end, it was cut off before it had       *)
(* finalized its request, or it was killed.                                  *)
Over == {"ended", "cut", "dead"}

Unseen == [s \in Sections |-> "none"]

Process ==
    [pc : Pcs, plan : Seq(Refs), force : BOOLEAN, number : {1, 2},
     started : Times \union {NoTime}, seen : [Sections -> SeenValues],
     until : Nat \union {NoTime}, omitted : SUBSET FieldIds,
     why : {"none", "expiry", "other"},
     ret : {"none", "ok", "budget", "error", "interrupt"}]

Entry == [run : Runs, ref : Refs, number : {1, 2}, ok : BOOLEAN]
ASSUME NoEntryAssumption == NoEntry \notin Entry
Contact == [run : Runs, ref : Refs, at : Times]

SyncTypeOK ==
    /\ TypeOK
    /\ now \in Times
    /\ cache \in [Sections -> Entry \union {NoEntry}]
    /\ contacts \subseteq Contact
    /\ proc \in [Runs -> Process]

SyncInit ==
    /\ Init
    /\ now = 0
    /\ cache = [s \in Sections |-> NoEntry]
    /\ contacts = {}
    /\ proc = [r \in Runs |->
                 [pc |-> "idle", plan |-> <<>>, force |-> FALSE, number |-> 1,
                  started |-> NoTime, seen |-> Unseen, until |-> NoTime,
                  omitted |-> {}, why |-> "none", ret |-> "none"]]

-----------------------------------------------------------------------------

Ref(r) == Head(proc[r].plan)
At(r, pc) == proc[r].pc = pc
Names(refs) == {FieldOf[ref] : ref \in refs}
PlannedRefs(r) == {proc[r].plan[i] : i \in DOMAIN proc[r].plan}

Go(r, pc) == proc' = [proc EXCEPT ![r].pc = pc]

(* The engine is done with a group, with or without omitting its field. *)
GroupOver(r, omit) ==
    proc' = [proc EXCEPT ![r] = [proc[r] EXCEPT
                !.pc = "choose", !.plan = Tail(proc[r].plan), !.number = 1,
                !.started = NoTime, !.seen = Unseen, !.until = NoTime,
                !.omitted = proc[r].omitted \union omit]]

(* The engine returns or raises; an interruption carries the fields that     *)
(* _sync_bounded has not finished.                                           *)
Leave(r, how) ==
    proc' = [proc EXCEPT ![r] = [proc[r] EXCEPT
                !.pc = "left", !.ret = how, !.number = 1, !.started = NoTime,
                !.seen = Unseen, !.until = NoTime,
                !.omitted = proc[r].omitted \union
                               IF how = "interrupt" THEN Names(PlannedRefs(r)) ELSE {}]]

(* budget.cancel keeps the first reason; what is told apart is whether it is *)
(* one of the expiry reasons.                                                *)
Reason(r, why) == IF proc[r].why = "none" THEN why ELSE proc[r].why
Close(r) == budget' = [budget EXCEPT ![r] = "closed"]

(* _audit_now and _audit_now_or_deadline. *)
InLifetime(r) == WithinLifetime(r, now)
NowOrDeadline(r) == IF InLifetime(r) THEN now ELSE Deadline(r)

(* The history of a field as authenticated_source_attempt_histories loads    *)
(* it, newest first, without the outcomes that say nothing of the source.    *)
EveryOutcome(ref) ==                               \* with the outcomes left out below
    {a \in attempts : a.ref = ref /\ a.finished <= now}
Informative(a) == a.outcome \notin {"cancelled", "expired", "skipped_cooldown"}
History(ref) ==
    {a \in attempts : a.ref = ref /\ a.finished <= now /\ Informative(a)}

Later(a, b) ==
    \/ a.finished > b.finished
    \/ a.finished = b.finished /\ a.run = b.run /\ a.number > b.number

Latest(ref) == {a \in History(ref) : \A b \in History(ref) : ~Later(b, a)}

CacheUsable(ref) ==
    /\ \E a \in History(ref) : a.outcome \in {"success", "cache_hit"}
    /\ \A s \in SectionsOf[ref] : cache[s] # NoEntry /\ cache[s].ok

-----------------------------------------------------------------------------

(* The loop of _sync_bounded. *)
ReturnResult(r) ==
    /\ At(r, "choose")
    /\ proc[r].plan = <<>>
    /\ Leave(r, "ok")
    /\ UNCHANGED <<vars, now, cache, contacts>>

EnterGroup(r) ==
    /\ At(r, "choose")
    /\ proc[r].plan # <<>>
    /\ budget[r] = "open"
    /\ Go(r, "group")
    /\ UNCHANGED <<vars, now, cache, contacts>>

OmitGroup(r) ==
    /\ At(r, "choose")
    /\ proc[r].plan # <<>>
    /\ budget[r] # "open"
    /\ proc' = [proc EXCEPT ![r] = [proc[r] EXCEPT
                   !.plan = Tail(proc[r].plan), !.why = Reason(r, "expiry"),
                   !.omitted = proc[r].omitted \union {FieldOf[Ref(r)]}]]
    /\ Close(r)
    /\ UNCHANGED <<tables, now, cache, contacts>>

(* A budget or a wall clock that _trusted_context, force_authorization or    *)
(* retry_allowed refuses: BudgetExpired from the first, ValueError from the  *)
(* second.                                                                   *)
Untrusted(r) ==
    \/ At(r, "group")
    \/ At(r, "retry") /\ budget[r] = "open"
AskTooLate(r) ==
    /\ Untrusted(r)
    /\ \/ budget[r] = "closed" /\ Leave(r, "budget")
       \/ budget[r] # "closed" /\ ~InLifetime(r) /\ Leave(r, "error")
    /\ UNCHANGED <<vars, now, cache, contacts>>

(* _sync_bounded_group of a forced request. *)
ForceGroup(r) ==
    /\ At(r, "group")
    /\ proc[r].force
    /\ budget[r] # "closed" /\ InLifetime(r)
    /\ ReserveForceGroup(r, {Ref(r)}, now)
    /\ Go(r, "attempt")
    /\ UNCHANGED <<now, cache, contacts>>

(* _sync_bounded_group of an ordinary request. Whether usable data is still  *)
(* fresh depends on the calendar, so either answer is possible.              *)
ReadHealth(r) ==
    /\ At(r, "group")
    /\ ~proc[r].force
    /\ budget[r] # "closed" /\ InLifetime(r)
    /\ LET cooling == {a \in Latest(Ref(r)) : a.cooldown > now} IN
       \/ \E a \in cooling :
             proc' = [proc EXCEPT ![r] = [proc[r] EXCEPT !.pc = "skip", !.until = a.cooldown]]
       \/ /\ cooling = {} \/ cooling # Latest(Ref(r))
          /\ Go(r, "attempt") \/ (CacheUsable(Ref(r)) /\ Go(r, "hit"))
    /\ UNCHANGED <<vars, now, cache, contacts>>

(* A row of the audit for the current group of a process. *)
FirstKind(r) == IF proc[r].force THEN "force" ELSE "none"   \* a retry without its authorization
Kind(r) ==
    IF proc[r].number = 2 THEN "retry" ELSE IF proc[r].force THEN "force" ELSE "none"

Row(r, outcome, started, finished, cooldown) ==
    [run |-> r, ref |-> Ref(r), number |-> proc[r].number, outcome |-> outcome,
     started |-> started, finished |-> finished, cooldown |-> cooldown, auth |-> Kind(r)]

(* The group was answered from the cache, or left alone during a cooldown:   *)
(* an instant read after the health was, and _audit_now may refuse it.       *)
RecordCacheHit(r) ==
    /\ At(r, "hit")
    /\ IF InLifetime(r)
       THEN /\ RecordSourceAttempt(Row(r, "cache_hit", now, now, NoTime))
            /\ GroupOver(r, {})
       ELSE Leave(r, "budget") /\ UNCHANGED vars
    /\ UNCHANGED <<now, cache, contacts>>

(* SourceAttempt.validate refuses a cooldown that is over by now. *)
RecordCooldownSkip(r) ==
    /\ At(r, "skip")
    /\ \/ /\ InLifetime(r)
          /\ proc[r].until > now
          /\ RecordSourceAttempt(Row(r, "skipped_cooldown", now, now, proc[r].until))
          /\ GroupOver(r, {FieldOf[Ref(r)]})
       \/ /\ InLifetime(r)
          /\ proc[r].until <= now
          /\ Leave(r, "error")
          /\ UNCHANGED vars
       \/ /\ ~InLifetime(r)
          /\ Leave(r, "budget")
          /\ UNCHANGED vars
    /\ UNCHANGED <<now, cache, contacts>>

(* _execute_bounded_attempt, from its first line: outside the lifetime it    *)
(* raises before anything is on record, a reserved authorization included.   *)
ToFetch(r) ==
    IF proc[r].number = 1 THEN SectionsOf[Ref(r)]
    ELSE {s \in Sections : proc[r].seen[s] = "transient"}

Carried(r) == {s \in Sections : proc[r].seen[s] = "unavailable"}

BeginAttempt(r) ==
    /\ At(r, "attempt")
    /\ IF InLifetime(r)
       THEN proc' = [proc EXCEPT ![r] = [proc[r] EXCEPT
                       !.pc = "fetch", !.started = now,
                       !.seen = [s \in Sections |->
                                   IF s \in ToFetch(r) THEN "todo"
                                   ELSE IF s \in Carried(r) THEN "carried" ELSE "none"]]]
       ELSE Leave(r, "budget")
    /\ UNCHANGED <<vars, now, cache, contacts>>

(* The sections of a group are tried in a fixed order. *)
Todo(r) == {s \in Sections : proc[r].seen[s] = "todo"}
NextSection(r) == CHOOSE s \in Todo(r) : TRUE
See(r, s, how) == proc' = [proc EXCEPT ![r].seen[s] = how]

(* A worker runs only while the budget is open, and its answer is used only  *)
(* while the budget is not closed.                                           *)
Contacted(r) ==
    contacts \union {[run |-> r, ref |-> Ref(r), at |-> proc[r].started]}

FetchSection(r, how) ==
    /\ At(r, "fetch")
    /\ Todo(r) # {}
    /\ budget[r] = "open"
    /\ contacts' = Contacted(r)
    /\ See(r, NextSection(r), how)
    /\ UNCHANGED <<vars, now, cache>>

(* The budget is closed before, during or after the exchange: the request is *)
(* cancelled and the sections left are not tried.                            *)
StopFetching(r, why, how) ==
    /\ Todo(r) # {}
    /\ proc' = [proc EXCEPT ![r] = [proc[r] EXCEPT
                   !.pc = "record", !.why = Reason(r, why),
                   !.omitted = proc[r].omitted \union {FieldOf[Ref(r)]},
                   !.seen = [s \in Sections |->
                               IF s = NextSection(r) THEN how
                               ELSE IF s \in Todo(r) THEN "none" ELSE proc[r].seen[s]]]]
    /\ Close(r)
    /\ UNCHANGED <<tables, now, cache>>

FetchTooLate(r) ==
    /\ At(r, "fetch")
    /\ StopFetching(r, "expiry", "expired")
    /\ contacts' \in {contacts} \union (IF budget[r] = "open" THEN {Contacted(r)} ELSE {})

FetchInterrupted(r) ==
    /\ "interrupt" \in Disruptions
    /\ At(r, "fetch")
    /\ StopFetching(r, "other", "cancelled")
    /\ contacts' \in {contacts} \union (IF budget[r] = "open" THEN {Contacted(r)} ELSE {})

FetchDone(r) ==
    /\ At(r, "fetch")
    /\ Todo(r) = {}
    /\ Go(r, "record")
    /\ UNCHANGED <<vars, now, cache, contacts>>

-----------------------------------------------------------------------------

(* _group_outcome. *)
GroupOutcome(seen) ==
    LET some(how) == \E s \in Sections : seen[s] = how IN
    IF some("cancelled") THEN "cancelled"
    ELSE IF some("expired") THEN "expired"
    ELSE IF some("transient") THEN "transient_failure"
    ELSE IF some("unavailable") \/ some("carried") THEN "unavailable"
    ELSE "success"

TooLate == {"cancelled", "expired"}

Fetched(r) == {s \in Sections : proc[r].seen[s] \in Polled}

AttemptRowOf(r) ==
    LET outcome == GroupOutcome(proc[r].seen) IN
    Row(r, outcome, proc[r].started, NowOrDeadline(r),
        IF outcome = "transient_failure" THEN NowOrDeadline(r) + Cooldown ELSE NoTime)

(* _require_budget of funds/store.py: worker seconds are left. *)
MayCommitLate(r) == TRUE                           \* without _require_budget
MayCommit(r) == budget[r] = "open"

AfterAttempt(r, outcome) ==
    CASE outcome = "success" -> GroupOver(r, {})
      [] outcome = "transient_failure" /\ proc[r].number = 1 -> Go(r, "retry")
      [] OTHER -> GroupOver(r, {FieldOf[Ref(r)]})

WrittenBy(r) ==
    [s \in Sections |->
        IF s \in Fetched(r)
        THEN [run |-> r, ref |-> Ref(r), number |-> proc[r].number,
              ok |-> proc[r].seen[s] = "parsed"]
        ELSE cache[s]]

(* _record_attempt with its mutations: every section fetched and the attempt *)
(* in one transaction, which asks the budget before it commits.              *)
Attempted(r) ==
    /\ At(r, "record")
    /\ GroupOutcome(proc[r].seen) \notin TooLate

SectionsFirst(r) ==                                \* the sections in a transaction of their own
    /\ Attempted(r) /\ MayCommit(r)
    /\ \A s \in Sections : proc[r].seen[s] # "unpublishable"
    /\ cache' = WrittenBy(r)
    /\ IF cache = cache' THEN /\ RecordSourceAttempt(AttemptRowOf(r))
                             /\ AfterAttempt(r, GroupOutcome(proc[r].seen))
                        ELSE UNCHANGED <<vars, proc>>
    /\ UNCHANGED <<now, contacts>>
CommitAttempt(r) ==
    /\ Attempted(r)
    /\ \A s \in Sections : proc[r].seen[s] # "unpublishable"
    /\ MayCommit(r)
    /\ RecordSourceAttempt(AttemptRowOf(r))
    /\ cache' = WrittenBy(r)
    /\ AfterAttempt(r, GroupOutcome(proc[r].seen))
    /\ UNCHANGED <<now, contacts>>

(* The transaction found the budget exhausted and was rolled back: the       *)
(* attempt will be recorded as expired, without its sections.                *)
CommitTooLate(r) ==
    /\ Attempted(r)
    /\ ~MayCommit(r)
    /\ proc' = [proc EXCEPT ![r] = [proc[r] EXCEPT
                   !.why = Reason(r, "expiry"),
                   !.seen = [s \in Sections |->
                               IF s \in Fetched(r) THEN "expired" ELSE proc[r].seen[s]]]]
    /\ Close(r)
    /\ UNCHANGED <<tables, now, cache, contacts>>

(* publish_section takes "success" and "not_disclosed" only: a parse in any  *)
(* other state raises out of _record_attempt and out of the group.           *)
CommitUnpublishable(r) ==
    /\ Attempted(r)
    /\ \E s \in Sections : proc[r].seen[s] = "unpublishable"
    /\ MayCommit(r)
    /\ Leave(r, "error")
    /\ UNCHANGED <<vars, now, cache, contacts>>

(* An attempt that ended too late is recorded alone, whatever the budget. *)
RecordTooLate(r) ==
    /\ At(r, "record")
    /\ GroupOutcome(proc[r].seen) \in TooLate
    /\ RecordSourceAttempt(AttemptRowOf(r))
    /\ IF GroupOutcome(proc[r].seen) = "cancelled"
       THEN Leave(r, "interrupt")
       ELSE GroupOver(r, {FieldOf[Ref(r)]})
    /\ UNCHANGED <<now, cache, contacts>>

(* retry_allowed: a budget that has not the seconds the retry asks for, or a *)
(* reservation for it.                                                       *)
RetryDenied(r) ==
    /\ At(r, "retry")
    /\ GroupOver(r, {FieldOf[Ref(r)]})
    /\ UNCHANGED <<vars, now, cache, contacts>>

RetryGranted(r) ==
    /\ At(r, "retry")
    /\ ReserveRetry(r, Ref(r), now)
    /\ proc' = [proc EXCEPT ![r] = [proc[r] EXCEPT !.pc = "attempt", !.number = 2]]
    /\ UNCHANGED <<now, cache, contacts>>

-----------------------------------------------------------------------------

Working(r) == proc[r].pc \notin Over \union {"idle", "left"}

(* Ctrl-C anywhere else in the engine: _sync_bounded cancels the request and *)
(* raises FundDisclosureSyncInterrupted with the fields it has not finished. *)
Interrupt(r) ==
    /\ "interrupt" \in Disruptions
    /\ Working(r)
    /\ proc' = [proc EXCEPT ![r] = [proc[r] EXCEPT
                   !.pc = "left", !.ret = "interrupt", !.why = Reason(r, "other"),
                   !.number = 1, !.started = NoTime, !.seen = Unseen, !.until = NoTime,
                   !.omitted = proc[r].omitted \union Names(PlannedRefs(r))]]
    /\ Close(r)
    /\ UNCHANGED <<tables, now, cache, contacts>>

(* An exception no handler of the engine expects: the database is locked,    *)
(* a stored bundle does not authenticate.                                    *)
Fault(r) ==
    /\ "fault" \in Disruptions
    /\ proc[r].pc \in {"group", "hit", "skip", "fetch", "record", "retry"}
    /\ Leave(r, "error")
    /\ UNCHANGED <<vars, now, cache, contacts>>

(* The budget is cancelled for another reason: a monotonic clock that fails  *)
(* when it is read, a worker that cannot be cleaned up.  In the loop of      *)
(* _sync_bounded the BudgetExpired of the reading is not caught.             *)
Abort(r) ==
    /\ "abort" \in Disruptions
    /\ \/ /\ At(r, "choose") /\ proc[r].plan # <<>>
          /\ proc' = [proc EXCEPT ![r].pc = "left", ![r].ret = "budget",
                                  ![r].why = Reason(r, "other")]
          /\ UNCHANGED contacts
       \/ /\ proc[r].pc \in {"group", "record", "retry"} \/ (At(r, "fetch") /\ Todo(r) # {})
          /\ proc' = [proc EXCEPT ![r].why = Reason(r, "other")]
          /\ contacts' \in {contacts} \union
                (IF At(r, "fetch") /\ budget[r] = "open" THEN {Contacted(r)} ELSE {})
    /\ Close(r)
    /\ UNCHANGED <<tables, now, cache>>

(* An exception leaves the command outside the try statement of its handler, *)
(* or out of the handler, and nobody finalizes the request any more.  Where  *)
(* that may happen CliSync and BriefSync say.                                *)
Uncaught == Disruptions \intersect {"interrupt", "fault"} # {}
CutOff(r) ==
    /\ proc[r].pc \in {"choose", "left"}
    /\ Go(r, "cut")
    /\ UNCHANGED <<vars, now, cache, contacts>>

(* The process is killed. *)
Crash(r) ==
    /\ "crash" \in Disruptions
    /\ proc[r].pc \notin Over \union {"idle"}
    /\ Go(r, "dead")
    /\ UNCHANGED <<vars, now, cache, contacts>>

Tick ==
    /\ now < MaxTime
    /\ now' = now + 1
    /\ UNCHANGED <<vars, cache, contacts, proc>>

(* Time passes for a request that is being served. *)
BudgetPasses(r) ==
    /\ proc[r].pc \notin Over \union {"idle"}
    /\ BudgetAdvance(r)
    /\ budget[r] # budget'[r]
    /\ UNCHANGED <<now, cache, contacts, proc>>

(* One step of the engine. *)
EngineStep(r) ==
    \/ ReturnResult(r)
    \/ EnterGroup(r)
    \/ OmitGroup(r)
    \/ AskTooLate(r)
    \/ ForceGroup(r)
    \/ ReadHealth(r)
    \/ RecordCacheHit(r)
    \/ RecordCooldownSkip(r)
    \/ BeginAttempt(r)
    \/ \E how \in Answers : FetchSection(r, how)
    \/ FetchTooLate(r)
    \/ FetchDone(r)
    \/ CommitAttempt(r)
    \/ CommitTooLate(r)
    \/ CommitUnpublishable(r)
    \/ RecordTooLate(r)
    \/ RetryDenied(r)
    \/ RetryGranted(r)

Disrupt(r) ==
    \/ FetchInterrupted(r)
    \/ Interrupt(r)
    \/ Fault(r)
    \/ Abort(r)
    \/ Crash(r)
=============================================================================
