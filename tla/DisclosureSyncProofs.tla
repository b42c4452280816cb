------------------------ MODULE DisclosureSyncProofs ------------------------
(* Theorems of DisclosureSync and CliSync, for any number of requests,       *)
(* groups, sections and instants.  The engine is proved once, whoever runs   *)
(* it: each of its steps is one of a few moves, and the invariants are       *)
(* proved of the moves.                                                      *)
EXTENDS CliSync, RequestAuditProofs

-----------------------------------------------------------------------------
(* The inductive invariant of the engine.                                    *)

Stopped == {"idle", "ended", "cut", "dead"}
InGroup == {"group", "hit", "skip", "attempt", "fetch", "record", "retry"}
InAttempt == {"fetch", "record", "retry"}
FirstOnly == {"idle", "choose", "group", "hit", "skip", "retry", "left"}

Distinct(plan) == \A i, j \in DOMAIN plan : plan[i] = plan[j] => i = j

(* A process serves a request that is running, and was begun in the past. *)
Lives(r) ==
    /\ At(r, "idle") => runs[r].status = "absent"
    /\ proc[r].pc \notin Stopped => Running(r)
    /\ runs[r].status # "absent" => runs[r].started <= now

(* What a process carries where it is. *)
Carries(r) ==
    /\ proc[r].pc \in InGroup => proc[r].plan # <<>>
    /\ proc[r].pc \in FirstOnly => proc[r].number = 1
    /\ At(r, "idle") => ~proc[r].force /\ proc[r].ret = "none"
    /\ At(r, "left") /\ proc[r].ret = "ok" => proc[r].plan = <<>>
    /\ \A s \in Sections : proc[r].seen[s] # "none" /\ proc[r].pc \notin {"cut", "dead"} =>
          /\ proc[r].pc \in InAttempt \union {"attempt"}
          /\ s \in SectionsOf[Ref(r)]
    /\ proc[r].pc \in InAttempt =>
          /\ proc[r].started \in Times
          /\ runs[r].started <= proc[r].started /\ proc[r].started <= now

(* The groups of the plan are different, and none has been attempted except  *)
(* the first of them, once the process has entered it.                       *)
Fresh(r) ==
    /\ Distinct(proc[r].plan)
    /\ proc[r].pc \in InGroup \union {"choose"} =>
          \A ref \in PlannedRefs(r) : AttemptsOf(r, ref) # {} =>
              ref = Ref(r) /\ proc[r].pc \notin {"choose", "group"}

(* At t the cooldown that the last answer of a source asked for was over,    *)
(* as far as SequentialRequestsHonourCooldown speaks of it.                  *)
CooledFor(r, ref, t) ==
    \A a \in attempts :
        /\ a.ref = ref /\ a.run # r
        /\ EndedBefore(a.run, r)
        /\ a.outcome = "transient_failure"
        /\ LastAnswer(a, r, t)
        => t >= a.cooldown

Cooled(r) ==
    ~proc[r].force =>
        /\ At(r, "attempt") => CooledFor(r, Ref(r), now)
        /\ proc[r].pc \in InAttempt => CooledFor(r, Ref(r), proc[r].started)

ProcessInv(r) == Lives(r) /\ Carries(r) /\ Fresh(r) /\ Cooled(r)

(* The rows on record are those of requests that were begun, and lie in      *)
(* their lifetime and in the past.                                           *)
OnRecord ==
    /\ \A a \in attempts :
          /\ runs[a.run].status # "absent"
          /\ a.finished <= now /\ a.finished <= Deadline(a.run)
    /\ \A w \in auths :
          /\ runs[w.run].status # "absent"
          /\ w.kind = "force" => proc[w.run].force
    /\ \A c \in contacts : runs[c.run].status # "absent"

EngineInv ==
    /\ SyncTypeOK
    /\ IInv
    /\ OnRecord
    /\ PublishedWithAudit
    /\ SequentialRequestsHonourCooldown
    /\ \A r \in Runs : ProcessInv(r)

-----------------------------------------------------------------------------
(* What a request has done of the work S it was asked for.                   *)

Audited(r, ref) == \E a \in AttemptsOf(r, ref) : a.outcome \in {"success", "cache_hit"}

(* Whatever is no longer planned was audited, unless something was omitted. *)
AtWork(r) ==
    \/ proc[r].pc \in InGroup \union {"choose"}
    \/ At(r, "left") /\ proc[r].ret = "ok"

Progress(r, S) ==
    AtWork(r) =>
        /\ PlannedRefs(r) \subseteq S
        /\ proc[r].omitted = {} => \A ref \in S \ PlannedRefs(r) : Audited(r, ref)

(* An open reservation for this work is the one the process is about to use, *)
(* or the engine was left before it could be.                                *)
InUse(r, w) ==
    /\ proc[r].pc \in {"attempt", "fetch", "record"}
    /\ w.ref = Ref(r) /\ w.kind = Kind(r)

LeftOpen(r, w) ==
    /\ At(r, "left")
    /\ proc[r].ret # "ok"
    /\ proc[r].ret = "interrupt" => FieldOf[w.ref] \in proc[r].omitted

Reserved(r, S) ==
    proc[r].pc \notin Stopped =>
        \A w \in PendingOf(r) : w.ref \in S => InUse(r, w) \/ LeftOpen(r, w)

(* The invariant of a process that runs the command line. *)
CliProcess(r) ==
    /\ Progress(r, PlanRefs)
    /\ Reserved(r, PlanRefs)
    /\ At(r, "left") => proc[r].ret # "none"
    /\ \A w \in auths : w.run = r => w.ref \in PlanRefs
    /\ \A s \in snapshots : s.run # r
    /\ At(r, "ended") => Terminal(r)
    /\ Terminal(r) /\ runs[r].finished >= Deadline(r) => runs[r].status = "expired"
    /\ runs[r].status = "complete" => \A ref \in PlanRefs : Audited(r, ref)

CliInv == EngineInv /\ \A r \in Runs : CliProcess(r)

-----------------------------------------------------------------------------
(* The moves: what a step of the engine, a disruption or the passing of the  *)
(* budget does to the process, with the rows it adds.                        *)

(* What each of them leaves alone, and what it never takes back. *)
Alone(r) ==
    /\ UNCHANGED <<runs, snapshots, now>>
    /\ proc' \in [Runs -> Process]
    /\ \A q \in Runs \ {r} : proc'[q] = proc[q]
    /\ proc'[r].force = proc[r].force
    /\ proc[r].omitted \subseteq proc'[r].omitted
    /\ cache' \in [Sections -> Entry \union {NoEntry}]
    /\ cache' = cache \/ PublishedWithAudit'

SameGroup(r) ==
    /\ proc'[r].plan = proc[r].plan
    /\ proc'[r].number = proc[r].number
    /\ proc'[r].started = proc[r].started
    /\ proc'[r].ret = proc[r].ret

NoRow == UNCHANGED <<attempts, auths>>
AddsAttempt(r, a) ==
    /\ attempts' = attempts \union {a}
    /\ a.run = r /\ a.ref = Ref(r) /\ a.auth = Kind(r)
    /\ a.finished <= now /\ a.finished <= Deadline(r)
    /\ UNCHANGED <<auths, contacts>>
AddsAuth(r, kind) ==
    /\ auths' = auths \union {[run |-> r, ref |-> Ref(r), kind |-> kind, reserved |-> now]}
    /\ UNCHANGED <<attempts, contacts>>

Sees(r, s) == proc[r].seen[s] # "none"

MovesOn(r) ==
    /\ SameGroup(r) /\ NoRow
    /\ \/ proc'[r].pc = proc[r].pc
       \/ At(r, "choose") /\ proc[r].plan # <<>> /\ proc'[r].pc = "group"
       \/ At(r, "group") /\ proc'[r].pc \in {"hit", "skip"}
       \/ At(r, "fetch") /\ proc'[r].pc = "record"
    /\ \A s \in Sections : Sees(r, s)' => Sees(r, s)
    /\ \/ contacts' = contacts
       \/ At(r, "fetch") /\ contacts' = Contacted(r)

Attempts(r) ==
    /\ At(r, "group") /\ proc'[r].pc = "attempt"
    /\ SameGroup(r)
    /\ proc'[r].seen = proc[r].seen
    /\ IF proc[r].force
       THEN AddsAuth(r, "force")
       ELSE NoRow /\ contacts' = contacts /\ CooledFor(r, Ref(r), now)

Repeats(r) ==
    /\ At(r, "retry") /\ proc'[r].pc = "attempt"
    /\ proc'[r].plan = proc[r].plan /\ proc'[r].number = 2
    /\ proc'[r].seen = proc[r].seen
    /\ AddsAuth(r, "retry")

Begins(r) ==
    /\ At(r, "attempt") /\ proc'[r].pc = "fetch"
    /\ proc'[r].plan = proc[r].plan /\ proc'[r].number = proc[r].number
    /\ proc'[r].started = now
    /\ \A s \in Sections : Sees(r, s)' => s \in SectionsOf[Ref(r)]
    /\ NoRow /\ contacts' = contacts

Fails(r) ==
    /\ At(r, "record") /\ proc'[r].pc = "retry"
    /\ proc[r].number = 1
    /\ SameGroup(r)
    /\ proc'[r].seen = proc[r].seen
    /\ \E a \in AttemptRow : AddsAttempt(r, a)

Finishes(r) ==
    /\ proc[r].plan # <<>> /\ proc'[r].pc = "choose"
    /\ proc'[r].plan = Tail(proc[r].plan) /\ proc'[r].number = 1
    /\ \A s \in Sections : ~Sees(r, s)'
    /\ \/ /\ proc[r].pc \in {"choose", "retry"}
          /\ NoRow /\ contacts' = contacts
          /\ FieldOf[Ref(r)] \in proc'[r].omitted
       \/ /\ proc[r].pc \in {"hit", "skip", "record"}
          /\ \E a \in AttemptRow :
                /\ AddsAttempt(r, a)
                /\ \/ a.outcome \in {"success", "cache_hit"}
                   \/ FieldOf[Ref(r)] \in proc'[r].omitted

Leaves(r) ==
    /\ proc[r].pc \in InGroup \union {"choose"}
    /\ proc'[r].pc = "left"
    /\ proc'[r].plan = proc[r].plan /\ proc'[r].number = 1
    /\ \A s \in Sections : ~Sees(r, s)'
    /\ proc'[r].ret # "none"
    /\ proc'[r].ret = "ok" =>
          At(r, "choose") /\ proc[r].plan = <<>> /\ proc'[r].omitted = proc[r].omitted
    /\ proc'[r].ret = "interrupt" => Names(PlannedRefs(r)) \subseteq proc'[r].omitted
    /\ contacts' = contacts
    /\ \/ NoRow
       \/ At(r, "record") /\ \E a \in AttemptRow : AddsAttempt(r, a)

Dies(r) ==
    /\ SameGroup(r) /\ NoRow
    /\ proc[r].pc \notin Stopped /\ proc'[r].pc \in {"cut", "dead"}
    /\ contacts' = contacts

Move(r) ==
    \/ MovesOn(r)
    \/ Attempts(r)
    \/ Repeats(r)
    \/ Begins(r)
    \/ Fails(r)
    \/ Finishes(r)
    \/ Leaves(r)
    \/ Dies(r)

Serves(r) == EngineStep(r) \/ Disrupt(r) \/ CutOff(r) \/ BudgetPasses(r)

-----------------------------------------------------------------------------
(* The process after each way of writing it.                                 *)

LEMMA ProcessFields ==
  ASSUME SyncTypeOK, NEW r \in Runs
  PROVE  /\ proc[r] \in Process
         /\ proc[r].pc \in Pcs /\ proc[r].plan \in Seq(Refs) /\ proc[r].force \in BOOLEAN
         /\ proc[r].number \in {1, 2} /\ proc[r].started \in Times \union {NoTime}
         /\ proc[r].seen \in [Sections -> SeenValues] /\ proc[r].until \in Nat \union {NoTime}
         /\ proc[r].omitted \in SUBSET FieldIds /\ proc[r].why \in {"none", "expiry", "other"}
         /\ proc[r].ret \in {"none", "ok", "budget", "error", "interrupt"}
  BY DEF SyncTypeOK, Process

LEMMA PlanFields ==
  ASSUME SyncTypeOK, NEW r \in Runs
  PROVE  /\ PlannedRefs(r) \subseteq Refs
         /\ Names(PlannedRefs(r)) \subseteq FieldIds
         /\ proc[r].plan # <<>> =>
               /\ Ref(r) \in Refs /\ FieldOf[Ref(r)] \in FieldIds
               /\ Tail(proc[r].plan) \in Seq(Refs)
<1>1. proc[r].plan \in Seq(Refs)
  BY ProcessFields
<1>2. PlannedRefs(r) \subseteq Refs
  BY <1>1 DEF PlannedRefs
<1>3. FieldOf \in [Refs -> FieldIds]
  BY AuditAssumption
<1>4. Names(PlannedRefs(r)) \subseteq FieldIds
  BY <1>2, <1>3 DEF Names
<1>5. proc[r].plan # <<>> => Ref(r) \in Refs /\ Tail(proc[r].plan) \in Seq(Refs)
  BY <1>1 DEF Ref
<1> QED
  BY <1>2, <1>3, <1>4, <1>5

LEMMA UnseenTyped == Unseen \in [Sections -> SeenValues] /\ \A s \in Sections : Unseen[s] = "none"
  BY DEF Unseen, SeenValues

LEMMA GoFields ==
  ASSUME SyncTypeOK, NEW r \in Runs, NEW pc \in Pcs, Go(r, pc)
  PROVE  /\ proc' \in [Runs -> Process]
         /\ \A q \in Runs \ {r} : proc'[q] = proc[q]
         /\ proc'[r].pc = pc
         /\ SameGroup(r)
         /\ proc'[r].force = proc[r].force /\ proc'[r].seen = proc[r].seen
         /\ proc'[r].omitted = proc[r].omitted
<1>1. proc \in [Runs -> Process] /\ proc[r] \in Process
  BY DEF SyncTypeOK
<1>2. proc' = [proc EXCEPT ![r] = [proc[r] EXCEPT !.pc = pc]]
  BY <1>1 DEF Go
<1>3. [proc[r] EXCEPT !.pc = pc] \in Process
  BY <1>1 DEF Process
<1>4. proc'[r] = [proc[r] EXCEPT !.pc = pc]
  BY <1>1, <1>2
<1> QED
  BY <1>1, <1>2, <1>3, <1>4 DEF Process, SameGroup

LEMMA GroupOverFields ==
  ASSUME SyncTypeOK, NEW r \in Runs, proc[r].plan # <<>>, NEW omit \in SUBSET FieldIds,
         GroupOver(r, omit)
  PROVE  /\ proc' \in [Runs -> Process]
         /\ \A q \in Runs \ {r} : proc'[q] = proc[q]
         /\ proc'[r].pc = "choose"
         /\ proc'[r].plan = Tail(proc[r].plan)
         /\ proc'[r].number = 1
         /\ \A s \in Sections : ~Sees(r, s)'
         /\ proc'[r].force = proc[r].force
         /\ proc'[r].omitted = proc[r].omitted \union omit
<1> DEFINE new == [proc[r] EXCEPT !.pc = "choose", !.plan = Tail(proc[r].plan),
                      !.number = 1, !.started = NoTime, !.seen = Unseen, !.until = NoTime,
                      !.omitted = proc[r].omitted \union omit]
<1>1. proc \in [Runs -> Process] /\ proc[r] \in Process
  BY DEF SyncTypeOK
<1>2. proc' = [proc EXCEPT ![r] = new]
  BY DEF GroupOver
<1>3. new \in Process
  BY <1>1, PlanFields, UnseenTyped DEF Process, Pcs
<1>4. proc'[r] = new
  BY <1>1, <1>2
<1>5. /\ new.pc = "choose" /\ new.plan = Tail(proc[r].plan) /\ new.number = 1
      /\ new.seen = Unseen /\ new.force = proc[r].force
      /\ new.omitted = proc[r].omitted \union omit
  BY <1>1 DEF Process
<1> HIDE DEF new
<1> QED
  BY <1>1, <1>2, <1>3, <1>4, <1>5, UnseenTyped DEF Sees

LEMMA LeaveFields ==
  ASSUME SyncTypeOK, NEW r \in Runs, NEW how \in {"ok", "budget", "error", "interrupt"},
         Leave(r, how)
  PROVE  /\ proc' \in [Runs -> Process]
         /\ \A q \in Runs \ {r} : proc'[q] = proc[q]
         /\ proc'[r].pc = "left" /\ proc'[r].ret = how
         /\ proc'[r].plan = proc[r].plan
         /\ proc'[r].number = 1
         /\ \A s \in Sections : ~Sees(r, s)'
         /\ proc'[r].force = proc[r].force
         /\ proc'[r].omitted = proc[r].omitted \union
                                  IF how = "interrupt" THEN Names(PlannedRefs(r)) ELSE {}
<1> DEFINE omit == IF how = "interrupt" THEN Names(PlannedRefs(r)) ELSE {}
           new == [proc[r] EXCEPT !.pc = "left", !.ret = how, !.number = 1,
                      !.started = NoTime, !.seen = Unseen, !.until = NoTime,
                      !.omitted = proc[r].omitted \union omit]
<1>1. proc \in [Runs -> Process] /\ proc[r] \in Process
  BY DEF SyncTypeOK
<1>2. proc' = [proc EXCEPT ![r] = new]
  BY DEF Leave
<1>3. new \in Process
  BY <1>1, PlanFields, UnseenTyped DEF Process, Pcs
<1>4. proc'[r] = new
  BY <1>1, <1>2
<1>5. /\ new.pc = "left" /\ new.ret = how /\ new.plan = proc[r].plan /\ new.number = 1
      /\ new.seen = Unseen /\ new.force = proc[r].force
      /\ new.omitted = proc[r].omitted \union omit
  BY <1>1 DEF Process
<1> HIDE DEF new
<1> QED
  BY <1>1, <1>2, <1>3, <1>4, <1>5, UnseenTyped DEF Sees

-----------------------------------------------------------------------------
(* Every step is a move, adds rows the audit store accepts, and keeps the    *)
(* cache backed by the audit.                                                *)

Charted(r) == Alone(r) /\ Move(r) /\ [Next]_vars

LEMMA Standing ==
  ASSUME EngineInv, NEW r \in Runs
  PROVE  /\ SyncTypeOK /\ TypeOK
         /\ Lives(r) /\ Carries(r) /\ Fresh(r) /\ Cooled(r)
         /\ now \in Times /\ Times \subseteq Nat
         /\ Deadline(r) \in Nat /\ runs[r].started \in Times
  BY TimesFact, DeadlineNat DEF EngineInv, SyncTypeOK, ProcessInv

LEMMA AttemptFields ==
  ASSUME TypeOK, NEW a \in attempts
  PROVE  /\ a \in AttemptRow /\ a.run \in Runs /\ a.ref \in Refs /\ a.outcome \in Outcomes
         /\ a.cooldown \in Int /\ a.finished \in Int /\ a.number \in Int
<1>1. a \in AttemptRow
  BY DEF TypeOK
<1>2. /\ a.run \in Runs /\ a.ref \in Refs /\ a.outcome \in Outcomes /\ a.number \in {1, 2}
      /\ a.cooldown \in Nat \union {NoTime} /\ a.finished \in Times
  BY <1>1 DEF AttemptRow
<1>3. a.cooldown \in Int
  BY <1>2 DEF NoTime
<1>4. a.finished \in Nat
  BY <1>2, TimesFact
<1> QED
  BY <1>1, <1>2, <1>3, <1>4

(* Closing a budget is a move of the budget that the audit store allows. *)
LEMMA CloseIsNext ==
  ASSUME EngineInv, NEW r \in Runs, Running(r), Close(r), UNCHANGED tables
  PROVE  Next
<1>1. "closed" \in MayBecome(budget[r])
  BY DEF MayBecome, EngineInv, SyncTypeOK, TypeOK, Phases
<1>2. BudgetAdvance(r)
  BY <1>1 DEF BudgetAdvance, Close
<1> QED
  BY <1>2 DEF Next

LEMMA RecordIsNext ==
  ASSUME NEW a \in AttemptRow, RecordSourceAttempt(a)
  PROVE  Next
<1>1. a.run \in Runs
  BY DEF AttemptRow
<1> QED
  BY <1>1 DEF Next

LEMMA LeaveMoves ==
  ASSUME EngineInv, NEW r \in Runs, NEW how \in {"ok", "budget", "error", "interrupt"},
         proc[r].pc \in InGroup \union {"choose"},
         how = "ok" => At(r, "choose") /\ proc[r].plan = <<>>,
         Leave(r, how),
         UNCHANGED <<vars, now, cache, contacts>>
  PROVE  Charted(r)
<1>1. SyncTypeOK
  BY DEF EngineInv
<1>2. /\ proc' \in [Runs -> Process]
      /\ \A q \in Runs \ {r} : proc'[q] = proc[q]
      /\ proc'[r].pc = "left" /\ proc'[r].ret = how
      /\ proc'[r].plan = proc[r].plan
      /\ proc'[r].number = 1
      /\ \A s \in Sections : ~Sees(r, s)'
      /\ proc'[r].force = proc[r].force
      /\ proc'[r].omitted = proc[r].omitted \union
                               IF how = "interrupt" THEN Names(PlannedRefs(r)) ELSE {}
  BY <1>1, LeaveFields
<1>3. Alone(r)
  BY <1>1, <1>2 DEF Alone, vars, SyncTypeOK
<1>4. Leaves(r)
  BY <1>2 DEF Leaves, NoRow, vars
<1> QED
  BY <1>3, <1>4 DEF Charted, Move

LEMMA GoMoves ==
  ASSUME EngineInv, NEW r \in Runs, NEW pc \in Pcs, Go(r, pc),
         \/ At(r, "choose") /\ proc[r].plan # <<>> /\ pc = "group"
         \/ At(r, "group") /\ pc \in {"hit", "skip"}
         \/ At(r, "fetch") /\ pc = "record",
         UNCHANGED <<vars, now, cache, contacts>>
  PROVE  Charted(r)
<1>1. SyncTypeOK
  BY DEF EngineInv
<1>2. /\ proc' \in [Runs -> Process]
      /\ \A q \in Runs \ {r} : proc'[q] = proc[q]
      /\ proc'[r].pc = pc
      /\ SameGroup(r)
      /\ proc'[r].force = proc[r].force /\ proc'[r].seen = proc[r].seen
      /\ proc'[r].omitted = proc[r].omitted
  BY <1>1, GoFields
<1>3. Alone(r)
  BY <1>1, <1>2 DEF Alone, vars, SyncTypeOK
<1>4. MovesOn(r)
  BY <1>2 DEF MovesOn, NoRow, vars, Sees
<1> QED
  BY <1>3, <1>4 DEF Charted, Move

(* The row of an attempt of the group at work. *)
LEMMA RowTyped ==
  ASSUME EngineInv, NEW r \in Runs, proc[r].plan # <<>>,
         NEW outcome \in Outcomes, NEW started \in Times, NEW finished \in Times,
         NEW cooldown \in Nat \union {NoTime}
  PROVE  LET a == Row(r, outcome, started, finished, cooldown) IN
         /\ a \in AttemptRow
         /\ a.run = r /\ a.ref = Ref(r) /\ a.auth = Kind(r) /\ a.number = proc[r].number
         /\ a.outcome = outcome /\ a.started = started /\ a.finished = finished
<1>1. Ref(r) \in Refs /\ proc[r].number \in {1, 2}
  BY ProcessFields, PlanFields DEF EngineInv
<1>2. Kind(r) \in WorkKinds \union {"none"}
  BY DEF Kind, WorkKinds
<1> QED
  BY <1>1, <1>2 DEF Row, AttemptRow

LEMMA RecordedMoves ==
  ASSUME EngineInv, NEW r \in Runs, proc[r].plan # <<>>,
         proc[r].pc \in {"hit", "skip", "record"},
         NEW a \in AttemptRow, RecordSourceAttempt(a),
         a.run = r, a.ref = Ref(r), a.auth = Kind(r),
         a.finished <= now, a.finished <= Deadline(r),
         NEW omit \in SUBSET FieldIds, GroupOver(r, omit),
         a.outcome \in {"success", "cache_hit"} \/ omit = {FieldOf[Ref(r)]},
         cache' \in [Sections -> Entry \union {NoEntry}],
         cache' = cache \/ PublishedWithAudit',
         UNCHANGED <<now, contacts>>
  PROVE  Charted(r)
<1>1. SyncTypeOK
  BY DEF EngineInv
<1>2. /\ proc' \in [Runs -> Process]
      /\ \A q \in Runs \ {r} : proc'[q] = proc[q]
      /\ proc'[r].pc = "choose"
      /\ proc'[r].plan = Tail(proc[r].plan)
      /\ proc'[r].number = 1
      /\ \A s \in Sections : ~Sees(r, s)'
      /\ proc'[r].force = proc[r].force
      /\ proc'[r].omitted = proc[r].omitted \union omit
  BY <1>1, GroupOverFields
<1>3. /\ attempts' = attempts \union {a}
      /\ UNCHANGED <<runs, auths, snapshots, budget>>
  BY DEF RecordSourceAttempt
<1>4. Alone(r)
  BY <1>2, <1>3 DEF Alone
<1>5. AddsAttempt(r, a)
  BY <1>3 DEF AddsAttempt
<1>6. Finishes(r)
  BY <1>2, <1>5 DEF Finishes
<1> QED
  BY <1>4, <1>6, RecordIsNext DEF Charted, Move

-----------------------------------------------------------------------------
(* The steps of the engine, one lemma each, but for those above.             *)

LEMMA LeavingStep ==
  ASSUME EngineInv, NEW r \in Runs,
         ReturnResult(r) \/ AskTooLate(r) \/ CommitUnpublishable(r) \/ Fault(r)
  PROVE  Charted(r)
<1>1. PICK how \in {"ok", "budget", "error", "interrupt"} :
         /\ Leave(r, how)
         /\ how = "ok" => At(r, "choose") /\ proc[r].plan = <<>>
         /\ proc[r].pc \in InGroup \union {"choose"}
         /\ UNCHANGED <<vars, now, cache, contacts>>
  BY DEF ReturnResult, AskTooLate, Untrusted, CommitUnpublishable, Attempted, Fault, At, InGroup
<1> QED
  BY <1>1, LeaveMoves

LEMMA GoingStep ==
  ASSUME EngineInv, NEW r \in Runs, EnterGroup(r) \/ FetchDone(r)
  PROVE  Charted(r)
<1>1. CASE EnterGroup(r)
  BY <1>1, GoMoves DEF EnterGroup, Pcs
<1>2. CASE FetchDone(r)
  BY <1>2, GoMoves DEF FetchDone, Pcs
<1> QED
  BY <1>1, <1>2

LEMMA OmitGroupStep ==
  ASSUME EngineInv, NEW r \in Runs, OmitGroup(r)
  PROVE  Charted(r)
<1> DEFINE new == [proc[r] EXCEPT !.plan = Tail(proc[r].plan), !.why = Reason(r, "expiry"),
                                  !.omitted = proc[r].omitted \union {FieldOf[Ref(r)]}]
<1>1. /\ At(r, "choose") /\ proc[r].plan # <<>> /\ Close(r)
      /\ proc' = [proc EXCEPT ![r] = new]
      /\ UNCHANGED <<tables, now, cache, contacts>>
  BY DEF OmitGroup
<1>2. SyncTypeOK /\ proc \in [Runs -> Process] /\ proc[r] \in Process /\ Running(r)
      /\ proc[r].number = 1 /\ \A s \in Sections : ~Sees(r, s)
  BY <1>1, Standing DEF SyncTypeOK, Lives, Carries, At, Stopped, FirstOnly, InAttempt, Sees
<1>3. Tail(proc[r].plan) \in Seq(Refs) /\ FieldOf[Ref(r)] \in FieldIds
  BY <1>1, <1>2, PlanFields
<1>4. Reason(r, "expiry") \in {"none", "expiry", "other"}
  BY <1>2 DEF Reason, Process
<1>5. new \in Process
  BY <1>2, <1>3, <1>4 DEF Process
<1>6. /\ new.plan = Tail(proc[r].plan) /\ new.pc = proc[r].pc /\ new.number = proc[r].number
      /\ new.seen = proc[r].seen /\ new.force = proc[r].force
      /\ new.omitted = proc[r].omitted \union {FieldOf[Ref(r)]}
  BY <1>2 DEF Process
<1> HIDE DEF new
<1>7. proc' \in [Runs -> Process] /\ proc'[r] = new /\ \A q \in Runs \ {r} : proc'[q] = proc[q]
  BY <1>1, <1>2, <1>5
<1>8. Alone(r)
  BY <1>1, <1>2, <1>6, <1>7 DEF Alone, tables, SyncTypeOK
<1>9. Finishes(r)
  BY <1>1, <1>2, <1>6, <1>7 DEF Finishes, NoRow, tables, Sees, At
<1> QED
  BY <1>1, <1>2, <1>8, <1>9, CloseIsNext DEF Charted, Move

LEMMA ForceGroupStep ==
  ASSUME EngineInv, NEW r \in Runs, ForceGroup(r)
  PROVE  Charted(r)
<1>1. /\ At(r, "group") /\ proc[r].force
      /\ ReserveForceGroup(r, {Ref(r)}, now)
      /\ Go(r, "attempt")
      /\ UNCHANGED <<now, cache, contacts>>
  BY DEF ForceGroup
<1>2. SyncTypeOK /\ Ref(r) \in Refs /\ now \in Times
  BY <1>1, Standing, PlanFields DEF Carries, At, InGroup
<1>3. /\ auths' = auths \union
           {[run |-> r, ref |-> ref, kind |-> "force", reserved |-> now] : ref \in {Ref(r)}}
      /\ UNCHANGED <<runs, attempts, snapshots, budget>>
  BY <1>1 DEF ReserveForceGroup
<1>4. AddsAuth(r, "force")
  BY <1>1, <1>3 DEF AddsAuth
<1>5. "attempt" \in Pcs
  BY DEF Pcs
<1>6. /\ proc' \in [Runs -> Process]
      /\ \A q \in Runs \ {r} : proc'[q] = proc[q]
      /\ proc'[r].pc = "attempt"
      /\ SameGroup(r)
      /\ proc'[r].force = proc[r].force /\ proc'[r].seen = proc[r].seen
      /\ proc'[r].omitted = proc[r].omitted
  BY <1>1, <1>2, <1>5, GoFields
<1>7. Alone(r)
  BY <1>1, <1>2, <1>3, <1>6 DEF Alone, SyncTypeOK
<1>8. Attempts(r)
  BY <1>1, <1>4, <1>6 DEF Attempts
<1>9. Next
  <2>1. {Ref(r)} \in (SUBSET Refs) \ {{}}
    BY <1>2
  <2> QED
    BY <1>1, <1>2, <2>1 DEF Next
<1> QED
  BY <1>7, <1>8, <1>9 DEF Charted, Move

(* A source whose last answer asks for a cooldown is not polled before it is *)
(* over: what the health of an ordinary request comes down to.               *)
LEMMA HealthHonoursCooldown ==
  ASSUME EngineInv, NEW r \in Runs, At(r, "group"),
         LET cooling == {a \in Latest(Ref(r)) : a.cooldown > now}
         IN  cooling = {} \/ cooling # Latest(Ref(r))
  PROVE  CooledFor(r, Ref(r), now)
<1> SUFFICES ASSUME NEW a \in attempts,
                    a.ref = Ref(r), a.run # r, a.outcome = "transient_failure",
                    LastAnswer(a, r, now), ~(now >= a.cooldown)
             PROVE  FALSE
  BY DEF CooledFor
<1>1. AttemptsOf(r, Ref(r)) = {}
  <2>1. proc[r].plan \in Seq(Refs) /\ proc[r].plan # <<>>
    BY Standing, ProcessFields DEF Carries, At, InGroup
  <2>2. Ref(r) \in PlannedRefs(r)
    BY <2>1 DEF Ref, PlannedRefs
  <2> QED
    BY <2>2, Standing DEF Fresh, At, InGroup
<1>2. /\ attempts \subseteq AttemptRow
      /\ now \in Nat
      /\ \A b \in attempts : b.finished <= now
  BY Standing DEF EngineInv, SyncTypeOK, TypeOK, OnRecord
<1>3. \A b \in attempts : b.cooldown \in Int /\ b.finished \in Int /\ b.number \in Int
  BY Standing, AttemptFields
<1>4. a \in History(Ref(r))
  BY <1>2 DEF History, Informative
<1>5. \A b \in History(Ref(r)) : b # a => b.run # r /\ Later(a, b)
  BY <1>1, <1>2 DEF History, LastAnswer, AttemptsOf
<1>6. \A b \in History(Ref(r)) : ~Later(b, a)
  <2> SUFFICES ASSUME NEW b \in History(Ref(r)), Later(b, a) PROVE FALSE
    OBVIOUS
  <2>1. b \in attempts
    BY DEF History
  <2>2. CASE b = a
    BY <1>3, <2>2 DEF Later
  <2>3. CASE b # a
    BY <1>3, <1>5, <2>1, <2>3 DEF Later
  <2> QED
    BY <2>2, <2>3
<1>7. Latest(Ref(r)) = {a}
  BY <1>4, <1>5, <1>6 DEF Latest
<1>8. a.cooldown > now
  BY <1>2, <1>3
<1> QED
  BY <1>7, <1>8

LEMMA ReadHealthStep ==
  ASSUME EngineInv, NEW r \in Runs, ReadHealth(r)
  PROVE  Charted(r)
<1> DEFINE cooling == {a \in Latest(Ref(r)) : a.cooldown > now}
<1>1. /\ At(r, "group") /\ ~proc[r].force
      /\ UNCHANGED <<vars, now, cache, contacts>>
      /\ \/ \E a \in cooling :
              proc' = [proc EXCEPT ![r] = [proc[r] EXCEPT !.pc = "skip", !.until = a.cooldown]]
         \/ /\ cooling = {} \/ cooling # Latest(Ref(r))
            /\ Go(r, "attempt") \/ Go(r, "hit")
  BY DEF ReadHealth
<1> HIDE DEF cooling
<1>2. SyncTypeOK /\ proc \in [Runs -> Process] /\ proc[r] \in Process
  BY DEF EngineInv, SyncTypeOK
<1>3. CASE Go(r, "hit")
  <2>1. "hit" \in Pcs
    BY DEF Pcs
  <2> QED
    BY <1>1, <1>3, <2>1, GoMoves
<1>4. CASE (cooling = {} \/ cooling # Latest(Ref(r))) /\ Go(r, "attempt")
  <2>1. CooledFor(r, Ref(r), now)
    BY <1>1, <1>4, HealthHonoursCooldown DEF cooling
  <2>2. "attempt" \in Pcs
    BY DEF Pcs
  <2>3. /\ proc' \in [Runs -> Process]
        /\ \A q \in Runs \ {r} : proc'[q] = proc[q]
        /\ proc'[r].pc = "attempt"
        /\ SameGroup(r)
        /\ proc'[r].force = proc[r].force /\ proc'[r].seen = proc[r].seen
        /\ proc'[r].omitted = proc[r].omitted
    BY <1>2, <1>4, <2>2, GoFields
  <2>4. Alone(r)
    BY <1>1, <1>2, <2>3 DEF Alone, vars, SyncTypeOK
  <2>5. Attempts(r)
    BY <1>1, <2>1, <2>3 DEF Attempts, NoRow, vars
  <2> QED
    BY <1>1, <2>4, <2>5 DEF Charted, Move, vars
<1>5. ASSUME NEW a \in cooling,
             proc' = [proc EXCEPT ![r] = [proc[r] EXCEPT !.pc = "skip", !.until = a.cooldown]]
      PROVE  Charted(r)
  <2> DEFINE new == [proc[r] EXCEPT !.pc = "skip", !.until = a.cooldown]
  <2>1. a.cooldown \in Nat \union {NoTime}
    BY <1>2 DEF cooling, Latest, History, SyncTypeOK, TypeOK, AttemptRow
  <2>2. new \in Process
    BY <1>2, <2>1 DEF Process, Pcs
  <2>3. /\ new.pc = "skip" /\ new.plan = proc[r].plan /\ new.number = proc[r].number
        /\ new.started = proc[r].started /\ new.ret = proc[r].ret
        /\ new.seen = proc[r].seen /\ new.force = proc[r].force
        /\ new.omitted = proc[r].omitted
    BY <1>2 DEF Process
  <2> HIDE DEF new
  <2>4. proc' \in [Runs -> Process] /\ proc'[r] = new /\ \A q \in Runs \ {r} : proc'[q] = proc[q]
    BY <1>2, <1>5, <2>2 DEF new
  <2>5. Alone(r)
    BY <1>1, <1>2, <2>3, <2>4 DEF Alone, vars, SyncTypeOK
  <2>6. MovesOn(r)
    BY <1>1, <2>3, <2>4 DEF MovesOn, SameGroup, NoRow, vars, Sees
  <2> QED
    BY <1>1, <2>5, <2>6 DEF Charted, Move
<1> QED
  BY <1>1, <1>3, <1>4, <1>5

LEMMA CacheHitStep ==
  ASSUME EngineInv, NEW r \in Runs, RecordCacheHit(r)
  PROVE  Charted(r)
<1> DEFINE a == Row(r, "cache_hit", now, now, NoTime)
<1>1. /\ At(r, "hit") /\ UNCHANGED <<now, cache, contacts>>
      /\ proc[r].plan # <<>>
      /\ SyncTypeOK /\ now \in Times /\ cache \in [Sections -> Entry \union {NoEntry}]
  BY Standing DEF RecordCacheHit, Carries, At, InGroup, SyncTypeOK
<1>2. CASE InLifetime(r)
  <2>1. RecordSourceAttempt(a) /\ GroupOver(r, {})
    BY <1>2 DEF RecordCacheHit
  <2>2. "cache_hit" \in Outcomes
    BY DEF Outcomes
  <2>3. /\ a \in AttemptRow /\ a.run = r /\ a.ref = Ref(r) /\ a.auth = Kind(r)
        /\ a.outcome = "cache_hit" /\ a.finished = now
    BY <1>1, <2>2, RowTyped
  <2>4. now <= now /\ now <= Deadline(r)
    BY <1>1, <1>2, Standing DEF InLifetime, WithinLifetime
  <2> HIDE DEF a
  <2> QED
    BY <1>1, <2>1, <2>3, <2>4, RecordedMoves DEF At
<1>3. CASE ~InLifetime(r)
  BY <1>1, <1>3, LeaveMoves DEF RecordCacheHit, At, InGroup
<1> QED
  BY <1>2, <1>3

LEMMA CooldownSkipStep ==
  ASSUME EngineInv, NEW r \in Runs, RecordCooldownSkip(r)
  PROVE  Charted(r)
<1> DEFINE a == Row(r, "skipped_cooldown", now, now, proc[r].until)
<1>1. /\ At(r, "skip") /\ UNCHANGED <<now, cache, contacts>>
      /\ proc[r].plan # <<>>
      /\ SyncTypeOK /\ now \in Times /\ cache \in [Sections -> Entry \union {NoEntry}]
      /\ proc[r].until \in Nat \union {NoTime}
  BY Standing, ProcessFields DEF RecordCooldownSkip, Carries, At, InGroup, SyncTypeOK
<1>2. CASE /\ InLifetime(r)
           /\ RecordSourceAttempt(a)
           /\ GroupOver(r, {FieldOf[Ref(r)]})
  <2>1. "skipped_cooldown" \in Outcomes
    BY DEF Outcomes
  <2>2. a \in AttemptRow /\ a.run = r /\ a.ref = Ref(r) /\ a.auth = Kind(r) /\ a.finished = now
    BY <1>1, <2>1, RowTyped
  <2>3. now <= now /\ now <= Deadline(r)
    BY <1>1, <1>2, Standing DEF InLifetime, WithinLifetime
  <2>4. {FieldOf[Ref(r)]} \in SUBSET FieldIds
    BY <1>1, PlanFields
  <2> HIDE DEF a
  <2> QED
    BY <1>1, <1>2, <2>2, <2>3, <2>4, RecordedMoves DEF At
<1>3. CASE (Leave(r, "error") \/ Leave(r, "budget")) /\ UNCHANGED vars
  <2>1. PICK how \in {"budget", "error"} : Leave(r, how)
    BY <1>3
  <2> QED
    BY <1>1, <1>3, <2>1, LeaveMoves DEF At, InGroup
<1> QED
  BY <1>2, <1>3 DEF RecordCooldownSkip

LEMMA BeginAttemptStep ==
  ASSUME EngineInv, NEW r \in Runs, BeginAttempt(r)
  PROVE  Charted(r)
<1> DEFINE sees == [s \in Sections |->
                      IF s \in ToFetch(r) THEN "todo"
                      ELSE IF s \in Carried(r) THEN "carried" ELSE "none"]
           new == [proc[r] EXCEPT !.pc = "fetch", !.started = now, !.seen = sees]
<1>1. /\ At(r, "attempt") /\ UNCHANGED <<vars, now, cache, contacts>>
      /\ SyncTypeOK /\ proc \in [Runs -> Process] /\ proc[r] \in Process
  BY DEF BeginAttempt, EngineInv, SyncTypeOK
<1>2. CASE ~InLifetime(r)
  BY <1>1, <1>2, LeaveMoves DEF BeginAttempt, At, InGroup
<1>3. CASE InLifetime(r)
  <2>1. proc' = [proc EXCEPT ![r] = new]
    BY <1>3 DEF BeginAttempt
  <2>2. sees \in [Sections -> SeenValues]
    BY DEF SeenValues
  <2>3. now \in Times
    BY <1>1 DEF SyncTypeOK
  <2>4. \A s \in Sections : sees[s] # "none" => s \in SectionsOf[Ref(r)]
    <3> SUFFICES ASSUME NEW s \in Sections, s \in ToFetch(r) \/ s \in Carried(r)
                 PROVE  s \in SectionsOf[Ref(r)]
      OBVIOUS
    <3>1. proc[r].seen[s] # "none" => s \in SectionsOf[Ref(r)]
      BY <1>1, Standing DEF Carries, At
    <3>2. CASE s \in ToFetch(r)
      BY <3>1, <3>2 DEF ToFetch
    <3>3. CASE s \in Carried(r)
      BY <3>1, <3>3 DEF Carried
    <3> QED
      BY <3>2, <3>3
  <2> HIDE DEF sees
  <2>5. new \in Process
    BY <1>1, <2>2, <2>3 DEF Process, Pcs
  <2>6. /\ new.pc = "fetch" /\ new.plan = proc[r].plan /\ new.number = proc[r].number
        /\ new.started = now /\ new.seen = sees /\ new.force = proc[r].force
        /\ new.omitted = proc[r].omitted
    BY <1>1 DEF Process
  <2> HIDE DEF new
  <2>7. proc' \in [Runs -> Process] /\ proc'[r] = new /\ \A q \in Runs \ {r} : proc'[q] = proc[q]
    BY <1>1, <2>1, <2>5
  <2>8. Alone(r)
    BY <1>1, <2>6, <2>7 DEF Alone, vars, SyncTypeOK
  <2>9. Begins(r)
    BY <1>1, <2>4, <2>6, <2>7 DEF Begins, NoRow, vars, Sees
  <2> QED
    BY <1>1, <2>8, <2>9 DEF Charted, Move
<1> QED
  BY <1>2, <1>3

(* A step that writes how the sections fare, and stays with the group. *)
LEMMA SeesMoves ==
  ASSUME EngineInv, NEW r \in Runs, NEW pc \in Pcs, NEW seen \in [Sections -> SeenValues],
         NEW why \in {"none", "expiry", "other"}, NEW omit \in SUBSET FieldIds,
         proc' = [proc EXCEPT ![r] = [proc[r] EXCEPT
                    !.pc = pc, !.why = why, !.omitted = proc[r].omitted \union omit,
                    !.seen = seen]],
         pc = proc[r].pc \/ (At(r, "fetch") /\ pc = "record"),
         \A s \in Sections : seen[s] # "none" => Sees(r, s),
         UNCHANGED <<tables, now, cache>>,
         contacts' = contacts \/ (At(r, "fetch") /\ contacts' = Contacted(r)),
         UNCHANGED vars \/ (Running(r) /\ Close(r)) \/ BudgetAdvance(r)
  PROVE  Charted(r)
<1> DEFINE new == [proc[r] EXCEPT !.pc = pc, !.why = why,
                     !.omitted = proc[r].omitted \union omit, !.seen = seen]
<1>1. SyncTypeOK /\ proc \in [Runs -> Process] /\ proc[r] \in Process
  BY DEF EngineInv, SyncTypeOK
<1>2. new \in Process
  BY <1>1 DEF Process
<1>3. /\ new.pc = pc /\ new.plan = proc[r].plan /\ new.number = proc[r].number
      /\ new.started = proc[r].started /\ new.seen = seen /\ new.force = proc[r].force
      /\ new.ret = proc[r].ret /\ new.omitted = proc[r].omitted \union omit
  BY <1>1 DEF Process
<1> HIDE DEF new
<1>4. proc' \in [Runs -> Process] /\ proc'[r] = new /\ \A q \in Runs \ {r} : proc'[q] = proc[q]
  BY <1>1, <1>2 DEF new
<1>5. Alone(r)
  BY <1>1, <1>3, <1>4 DEF Alone, tables, SyncTypeOK
<1>6. MovesOn(r)
  BY <1>3, <1>4 DEF MovesOn, SameGroup, NoRow, tables, Sees
<1>7. [Next]_vars
  BY CloseIsNext DEF Next
<1> QED
  BY <1>5, <1>6, <1>7 DEF Charted, Move

LEMMA ReasonTyped ==
  ASSUME SyncTypeOK, NEW r \in Runs, NEW why \in {"expiry", "other"}
  PROVE  Reason(r, why) \in {"none", "expiry", "other"}
  BY ProcessFields DEF Reason

LEMMA NextSectionIsTodo ==
  ASSUME NEW r \in Runs, Todo(r) # {}
  PROVE  NextSection(r) \in Sections /\ proc[r].seen[NextSection(r)] = "todo"
<1>1. NextSection(r) \in Todo(r)
  BY DEF NextSection
<1> QED
  BY <1>1 DEF Todo

LEMMA FetchSectionStep ==
  ASSUME EngineInv, NEW r \in Runs, NEW how \in Answers, FetchSection(r, how)
  PROVE  Charted(r)
<1> DEFINE n == NextSection(r)
           seen == [proc[r].seen EXCEPT ![n] = how]
<1>1. SyncTypeOK /\ proc \in [Runs -> Process] /\ proc[r] \in Process
  BY DEF EngineInv, SyncTypeOK
<1>2. n \in Sections /\ proc[r].seen[n] = "todo"
  BY NextSectionIsTodo DEF FetchSection
<1>3. how \in SeenValues
  BY SyncAssumption DEF SeenValues
<1>4. proc' = [proc EXCEPT ![r].seen[n] = how]
  BY DEF FetchSection, See
<1> HIDE DEF n
<1>5. proc[r].seen \in [Sections -> SeenValues] /\ proc[r].pc \in Pcs
      /\ proc[r].why \in {"none", "expiry", "other"}
  BY <1>1, ProcessFields
<1>6. /\ seen \in [Sections -> SeenValues]
      /\ \A s \in Sections : seen[s] # "none" => Sees(r, s)
  BY <1>2, <1>3, <1>5 DEF Sees
<1>7. [proc[r] EXCEPT !.seen = seen] =
      [proc[r] EXCEPT !.pc = proc[r].pc, !.why = proc[r].why,
          !.omitted = proc[r].omitted \union {}, !.seen = seen]
  BY <1>1 DEF Process
<1>8. proc' = [proc EXCEPT ![r] = [proc[r] EXCEPT
                 !.pc = proc[r].pc, !.why = proc[r].why,
                 !.omitted = proc[r].omitted \union {}, !.seen = seen]]
  BY <1>1, <1>4, <1>7 DEF Process
<1> HIDE DEF seen
<1>9. At(r, "fetch") /\ contacts' = Contacted(r) /\ UNCHANGED <<vars, now, cache>>
  BY DEF FetchSection
<1>10. UNCHANGED <<tables, now, cache>>
  BY <1>9 DEF vars, tables
<1>11. {} \in SUBSET FieldIds
  OBVIOUS
<1> QED
  BY <1>5, <1>6, <1>8, <1>9, <1>10, <1>11, SeesMoves

LEMMA StopFetchingStep ==
  ASSUME EngineInv, NEW r \in Runs, At(r, "fetch"), NEW why \in {"expiry", "other"},
         NEW how \in {"expired", "cancelled"}, StopFetching(r, why, how),
         contacts' \in {contacts} \union (IF budget[r] = "open" THEN {Contacted(r)} ELSE {})
  PROVE  Charted(r)
<1> DEFINE n == NextSection(r)
           seen == [s \in Sections |->
                      IF s = n THEN how
                      ELSE IF s \in Todo(r) THEN "none" ELSE proc[r].seen[s]]
<1>1. SyncTypeOK /\ proc \in [Runs -> Process] /\ proc[r] \in Process
  BY DEF EngineInv, SyncTypeOK
<1>2. n \in Sections /\ proc[r].seen[n] = "todo"
  BY NextSectionIsTodo DEF StopFetching
<1>3. proc[r].seen \in [Sections -> SeenValues]
  BY <1>1, ProcessFields
<1>4. proc' = [proc EXCEPT ![r] = [proc[r] EXCEPT
                 !.pc = "record", !.why = Reason(r, why),
                 !.omitted = proc[r].omitted \union {FieldOf[Ref(r)]}, !.seen = seen]]
  BY DEF StopFetching
<1> HIDE DEF n
<1>5. /\ seen \in [Sections -> SeenValues]
      /\ \A s \in Sections : seen[s] # "none" => Sees(r, s)
  BY <1>2, <1>3 DEF Sees, SeenValues
<1> HIDE DEF seen
<1>6. {FieldOf[Ref(r)]} \in SUBSET FieldIds /\ Running(r)
  BY Standing, PlanFields DEF Carries, Lives, At, InGroup, Stopped
<1>7. UNCHANGED <<tables, now, cache>> /\ Close(r)
  BY DEF StopFetching
<1>8. contacts' = contacts \/ contacts' = Contacted(r)
  OBVIOUS
<1>9. Reason(r, why) \in {"none", "expiry", "other"} /\ "record" \in Pcs
  BY <1>1, ReasonTyped DEF Pcs
<1> QED
  BY <1>4, <1>5, <1>6, <1>7, <1>8, <1>9, SeesMoves

LEMMA CommitTooLateStep ==
  ASSUME EngineInv, NEW r \in Runs, CommitTooLate(r)
  PROVE  Charted(r)
<1> DEFINE seen == [s \in Sections |-> IF s \in Fetched(r) THEN "expired" ELSE proc[r].seen[s]]
<1>1. SyncTypeOK /\ proc \in [Runs -> Process] /\ proc[r] \in Process
  BY DEF EngineInv, SyncTypeOK
<1>2. proc[r].seen \in [Sections -> SeenValues] /\ proc[r].pc \in Pcs
  BY <1>1, ProcessFields
<1>3. proc' = [proc EXCEPT ![r] = [proc[r] EXCEPT
                 !.why = Reason(r, "expiry"), !.seen = seen]]
  BY DEF CommitTooLate
<1>4. /\ seen \in [Sections -> SeenValues]
      /\ \A s \in Sections : seen[s] # "none" => Sees(r, s)
  BY <1>2 DEF Sees, SeenValues, Fetched, Polled
<1> HIDE DEF seen
<1>5. [proc[r] EXCEPT !.why = Reason(r, "expiry"), !.seen = seen] =
      [proc[r] EXCEPT !.pc = proc[r].pc, !.why = Reason(r, "expiry"),
          !.omitted = proc[r].omitted \union {}, !.seen = seen]
  BY <1>1 DEF Process
<1>6. proc' = [proc EXCEPT ![r] = [proc[r] EXCEPT
                 !.pc = proc[r].pc, !.why = Reason(r, "expiry"),
                 !.omitted = proc[r].omitted \union {}, !.seen = seen]]
  BY <1>3, <1>5
<1>7. Running(r) /\ Close(r) /\ UNCHANGED <<tables, now, cache, contacts>>
  BY Standing DEF CommitTooLate, Attempted, Lives, At, Stopped
<1>8. Reason(r, "expiry") \in {"none", "expiry", "other"} /\ {} \in SUBSET FieldIds
  BY <1>1, ReasonTyped
<1> QED
  BY <1>2, <1>4, <1>6, <1>7, <1>8, SeesMoves

Verdicts == {"cancelled", "expired", "transient_failure", "unavailable", "success"}

LEMMA GroupOutcomeTyped ==
  ASSUME NEW seen
  PROVE  GroupOutcome(seen) \in Verdicts
  BY DEF GroupOutcome, Verdicts

(* The row that ends an attempt. *)
LEMMA AttemptRowFields ==
  ASSUME EngineInv, NEW r \in Runs, At(r, "record")
  PROVE  /\ AttemptRowOf(r) \in AttemptRow
         /\ AttemptRowOf(r).run = r /\ AttemptRowOf(r).ref = Ref(r)
         /\ AttemptRowOf(r).auth = Kind(r) /\ AttemptRowOf(r).number = proc[r].number
         /\ AttemptRowOf(r).outcome = GroupOutcome(proc[r].seen)
         /\ AttemptRowOf(r).finished <= now /\ AttemptRowOf(r).finished <= Deadline(r)
<1> DEFINE outcome == GroupOutcome(proc[r].seen)
           cooldown == IF outcome = "transient_failure" THEN NowOrDeadline(r) + Cooldown ELSE NoTime
           started == proc[r].started
           finished == NowOrDeadline(r)
<1>1. /\ Running(r) /\ proc[r].plan # <<>> /\ proc[r].started \in Times
      /\ runs[r].started <= now /\ runs[r].started \in Nat
      /\ now \in Nat /\ now \in Times /\ Deadline(r) \in Nat
  BY Standing DEF Lives, Carries, At, Stopped, InGroup, InAttempt, Running
<1>2. /\ NowOrDeadline(r) \in Times /\ NowOrDeadline(r) \in Nat
      /\ NowOrDeadline(r) <= now /\ NowOrDeadline(r) <= Deadline(r)
  BY <1>1, AuditAssumption DEF NowOrDeadline, InLifetime, WithinLifetime, Times
<1>3. outcome \in Outcomes
  BY GroupOutcomeTyped DEF Verdicts, Outcomes
<1>4. cooldown \in Nat \union {NoTime}
  <2> HIDE DEF outcome
  <2> QED
    BY <1>2, SyncAssumption
<1>5. AttemptRowOf(r) = Row(r, outcome, started, finished, cooldown)
  BY DEF AttemptRowOf
<1>6. /\ started \in Times /\ finished \in Times
      /\ finished <= now /\ finished <= Deadline(r)
      /\ proc[r].plan # <<>>
  BY <1>1, <1>2
<1>7. outcome = GroupOutcome(proc[r].seen)
  OBVIOUS
<1> HIDE DEF outcome, cooldown, started, finished
<1>8. LET a == Row(r, outcome, started, finished, cooldown) IN
      /\ a \in AttemptRow
      /\ a.run = r /\ a.ref = Ref(r) /\ a.auth = Kind(r) /\ a.number = proc[r].number
      /\ a.outcome = outcome /\ a.started = started /\ a.finished = finished
  BY <1>3, <1>4, <1>6, RowTyped
<1> QED
  BY <1>5, <1>6, <1>7, <1>8

(* The sections of an attempt are committed with it. *)
LEMMA WrittenIsBacked ==
  ASSUME EngineInv, NEW r \in Runs, At(r, "record"),
         GroupOutcome(proc[r].seen) \notin TooLate,
         attempts' = attempts \union {AttemptRowOf(r)},
         cache' = WrittenBy(r)
  PROVE  cache' \in [Sections -> Entry \union {NoEntry}] /\ PublishedWithAudit'
<1> DEFINE a == AttemptRowOf(r)
           entry(s) == [run |-> r, ref |-> Ref(r), number |-> proc[r].number,
                        ok |-> proc[r].seen[s] = "parsed"]
<1>1. SyncTypeOK /\ cache \in [Sections -> Entry \union {NoEntry}] /\ PublishedWithAudit
  BY DEF EngineInv, SyncTypeOK
<1>2. Ref(r) \in Refs /\ proc[r].number \in {1, 2}
  BY <1>1, Standing, PlanFields, ProcessFields DEF Carries, At, InGroup
<1>3. \A s \in Sections : cache'[s] = IF s \in Fetched(r) THEN entry(s) ELSE cache[s]
  BY DEF WrittenBy
<1>4. \A s \in Sections : entry(s) \in Entry /\ entry(s).run = r /\ entry(s).ref = Ref(r)
                          /\ entry(s).number = proc[r].number
  BY <1>2 DEF Entry
<1>5. cache' = [s \in Sections |-> IF s \in Fetched(r) THEN entry(s) ELSE cache[s]]
  BY DEF WrittenBy
<1>6. a.run = r /\ a.ref = Ref(r) /\ a.number = proc[r].number
      /\ a.outcome \in {"success", "transient_failure", "unavailable"}
  BY AttemptRowFields, GroupOutcomeTyped DEF Verdicts, TooLate
<1> HIDE DEF a, entry
<1>7. cache' \in [Sections -> Entry \union {NoEntry}]
  BY <1>1, <1>4, <1>5
<1>8. ASSUME NEW s \in Sections, cache'[s] # NoEntry
      PROVE  \E b \in attempts' :
               /\ b.run = cache'[s].run /\ b.ref = cache'[s].ref
               /\ b.number = cache'[s].number
               /\ s \in SectionsOf[b.ref]
               /\ b.outcome \in {"success", "transient_failure", "unavailable"}
  <2>1. CASE s \in Fetched(r)
    <3>1. s \in SectionsOf[Ref(r)]
      BY <2>1, Standing DEF Carries, Fetched, Polled, At
    <3>2. a \in attempts'
      BY DEF a
    <3> QED
      BY <1>3, <1>4, <1>6, <2>1, <3>1, <3>2
  <2>2. CASE s \notin Fetched(r)
    <3>1. cache'[s] = cache[s]
      BY <1>3, <2>2
    <3> QED
      BY <1>1, <1>8, <3>1 DEF PublishedWithAudit, AttemptsOf
  <2> QED
    BY <2>1, <2>2
<1>9. PublishedWithAudit'
  BY <1>8 DEF PublishedWithAudit, AttemptsOf
<1> QED
  BY <1>7, <1>9

LEMMA CommitAttemptStep ==
  ASSUME EngineInv, NEW r \in Runs, CommitAttempt(r)
  PROVE  Charted(r)
<1> DEFINE a == AttemptRowOf(r)
           outcome == GroupOutcome(proc[r].seen)
<1>1. /\ At(r, "record") /\ outcome \notin TooLate
      /\ RecordSourceAttempt(a)
      /\ cache' = WrittenBy(r)
      /\ AfterAttempt(r, outcome)
      /\ UNCHANGED <<now, contacts>>
  BY DEF CommitAttempt, Attempted
<1>2. /\ attempts' = attempts \union {a}
      /\ UNCHANGED <<runs, auths, snapshots, budget>>
  BY <1>1 DEF RecordSourceAttempt
<1>3. cache' \in [Sections -> Entry \union {NoEntry}] /\ PublishedWithAudit'
  BY <1>1, <1>2, WrittenIsBacked
<1>4. /\ a \in AttemptRow /\ a.run = r /\ a.ref = Ref(r) /\ a.auth = Kind(r)
      /\ a.outcome = outcome
      /\ a.finished <= now /\ a.finished <= Deadline(r)
  BY <1>1, AttemptRowFields
<1>5. SyncTypeOK /\ proc[r].plan # <<>> /\ {FieldOf[Ref(r)]} \in SUBSET FieldIds
  BY <1>1, Standing, PlanFields DEF Carries, At, InGroup
<1> HIDE DEF a, outcome
<1>6. CASE \/ outcome = "success" /\ GroupOver(r, {})
           \/ GroupOver(r, {FieldOf[Ref(r)]})
  <2>1. PICK omit \in SUBSET FieldIds :
           /\ GroupOver(r, omit)
           /\ outcome \in {"success", "cache_hit"} \/ omit = {FieldOf[Ref(r)]}
    BY <1>5, <1>6
  <2> QED
    BY <1>1, <1>3, <1>4, <1>5, <2>1, RecordedMoves DEF At
<1>7. CASE proc[r].number = 1 /\ Go(r, "retry")
  <2>1. "retry" \in Pcs
    BY DEF Pcs
  <2>2. /\ proc' \in [Runs -> Process]
        /\ \A q \in Runs \ {r} : proc'[q] = proc[q]
        /\ proc'[r].pc = "retry"
        /\ SameGroup(r)
        /\ proc'[r].force = proc[r].force /\ proc'[r].seen = proc[r].seen
        /\ proc'[r].omitted = proc[r].omitted
    BY <1>5, <1>7, <2>1, GoFields
  <2>3. Alone(r)
    BY <1>1, <1>2, <1>3, <2>2 DEF Alone
  <2>4. AddsAttempt(r, a)
    BY <1>1, <1>2, <1>4 DEF AddsAttempt
  <2>5. Fails(r)
    BY <1>1, <1>4, <1>7, <2>2, <2>4 DEF Fails
  <2> QED
    BY <1>1, <1>4, <2>3, <2>5, RecordIsNext DEF Charted, Move
<1> QED
  BY <1>1, <1>6, <1>7 DEF AfterAttempt

LEMMA RecordTooLateStep ==
  ASSUME EngineInv, NEW r \in Runs, RecordTooLate(r)
  PROVE  Charted(r)
<1> DEFINE a == AttemptRowOf(r)
<1>1. /\ At(r, "record")
      /\ RecordSourceAttempt(a)
      /\ Leave(r, "interrupt") \/ GroupOver(r, {FieldOf[Ref(r)]})
      /\ UNCHANGED <<now, cache, contacts>>
  BY DEF RecordTooLate
<1>2. /\ attempts' = attempts \union {a}
      /\ UNCHANGED <<runs, auths, snapshots, budget>>
  BY <1>1 DEF RecordSourceAttempt
<1>3. /\ a \in AttemptRow /\ a.run = r /\ a.ref = Ref(r) /\ a.auth = Kind(r)
      /\ a.finished <= now /\ a.finished <= Deadline(r)
  BY <1>1, AttemptRowFields
<1>4. /\ SyncTypeOK /\ cache \in [Sections -> Entry \union {NoEntry}]
      /\ proc[r].plan # <<>> /\ {FieldOf[Ref(r)]} \in SUBSET FieldIds
  BY <1>1, Standing, PlanFields DEF Carries, At, InGroup, SyncTypeOK
<1> HIDE DEF a
<1>5. CASE GroupOver(r, {FieldOf[Ref(r)]})
  BY <1>1, <1>3, <1>4, <1>5, RecordedMoves DEF At
<1>6. CASE Leave(r, "interrupt")
  <2>1. /\ proc' \in [Runs -> Process]
        /\ \A q \in Runs \ {r} : proc'[q] = proc[q]
        /\ proc'[r].pc = "left" /\ proc'[r].ret = "interrupt"
        /\ proc'[r].plan = proc[r].plan
        /\ proc'[r].number = 1
        /\ \A s \in Sections : ~Sees(r, s)'
        /\ proc'[r].force = proc[r].force
        /\ proc'[r].omitted = proc[r].omitted \union Names(PlannedRefs(r))
    BY <1>4, <1>6, LeaveFields
  <2>2. Alone(r)
    BY <1>1, <1>2, <1>4, <2>1 DEF Alone
  <2>3. AddsAttempt(r, a)
    BY <1>1, <1>2, <1>3 DEF AddsAttempt
  <2>4. Leaves(r)
    BY <1>1, <1>3, <2>1, <2>3 DEF Leaves, InGroup, At
  <2> QED
    BY <1>1, <1>3, <2>2, <2>4, RecordIsNext DEF Charted, Move
<1> QED
  BY <1>1, <1>5, <1>6

LEMMA RetryDeniedStep ==
  ASSUME EngineInv, NEW r \in Runs, RetryDenied(r)
  PROVE  Charted(r)
<1>1. /\ At(r, "retry") /\ GroupOver(r, {FieldOf[Ref(r)]})
      /\ UNCHANGED <<vars, now, cache, contacts>>
  BY DEF RetryDenied
<1>2. SyncTypeOK /\ proc[r].plan # <<>> /\ {FieldOf[Ref(r)]} \in SUBSET FieldIds
  BY <1>1, Standing, PlanFields DEF Carries, At, InGroup
<1>3. /\ proc' \in [Runs -> Process]
      /\ \A q \in Runs \ {r} : proc'[q] = proc[q]
      /\ proc'[r].pc = "choose"
      /\ proc'[r].plan = Tail(proc[r].plan)
      /\ proc'[r].number = 1
      /\ \A s \in Sections : ~Sees(r, s)'
      /\ proc'[r].force = proc[r].force
      /\ proc'[r].omitted = proc[r].omitted \union {FieldOf[Ref(r)]}
  BY <1>1, <1>2, GroupOverFields
<1>4. Alone(r)
  BY <1>1, <1>2, <1>3 DEF Alone, vars, SyncTypeOK
<1>5. Finishes(r)
  BY <1>1, <1>2, <1>3 DEF Finishes, NoRow, vars, At
<1> QED
  BY <1>1, <1>4, <1>5 DEF Charted, Move

LEMMA RetryGrantedStep ==
  ASSUME EngineInv, NEW r \in Runs, RetryGranted(r)
  PROVE  Charted(r)
<1> DEFINE new == [proc[r] EXCEPT !.pc = "attempt", !.number = 2]
<1>1. /\ At(r, "retry") /\ ReserveRetry(r, Ref(r), now)
      /\ proc' = [proc EXCEPT ![r] = new]
      /\ UNCHANGED <<now, cache, contacts>>
  BY DEF RetryGranted
<1>2. SyncTypeOK /\ proc \in [Runs -> Process] /\ proc[r] \in Process
      /\ Ref(r) \in Refs /\ now \in Times
  BY <1>1, Standing, PlanFields DEF Carries, At, InGroup, SyncTypeOK
<1>3. new \in Process
  BY <1>2 DEF Process, Pcs
<1>4. /\ new.pc = "attempt" /\ new.plan = proc[r].plan /\ new.number = 2
      /\ new.seen = proc[r].seen /\ new.force = proc[r].force
      /\ new.omitted = proc[r].omitted
  BY <1>2 DEF Process
<1> HIDE DEF new
<1>5. proc' \in [Runs -> Process] /\ proc'[r] = new /\ \A q \in Runs \ {r} : proc'[q] = proc[q]
  BY <1>1, <1>2, <1>3
<1>6. /\ auths' = auths \union
           {[run |-> r, ref |-> Ref(r), kind |-> "retry", reserved |-> now]}
      /\ UNCHANGED <<runs, attempts, snapshots, budget>>
  BY <1>1 DEF ReserveRetry
<1>7. Alone(r)
  BY <1>1, <1>2, <1>4, <1>5, <1>6 DEF Alone, SyncTypeOK
<1>8. Repeats(r)
  BY <1>1, <1>4, <1>5, <1>6 DEF Repeats, AddsAuth
<1>9. Next
  BY <1>1, <1>2 DEF Next
<1> QED
  BY <1>7, <1>8, <1>9 DEF Charted, Move

-----------------------------------------------------------------------------
(* The disruptions and the budget.                                           *)

LEMMA InterruptStep ==
  ASSUME EngineInv, NEW r \in Runs, Interrupt(r)
  PROVE  Charted(r)
<1> DEFINE new == [proc[r] EXCEPT
                     !.pc = "left", !.ret = "interrupt", !.why = Reason(r, "other"),
                     !.number = 1, !.started = NoTime, !.seen = Unseen, !.until = NoTime,
                     !.omitted = proc[r].omitted \union Names(PlannedRefs(r))]
<1>1. /\ Working(r) /\ Close(r)
      /\ proc' = [proc EXCEPT ![r] = new]
      /\ UNCHANGED <<tables, now, cache, contacts>>
  BY DEF Interrupt
<1>2. SyncTypeOK /\ proc \in [Runs -> Process] /\ proc[r] \in Process /\ proc[r].pc \in Pcs
  BY ProcessFields DEF EngineInv, SyncTypeOK
<1>3. proc[r].pc \in InGroup \union {"choose"} /\ Running(r)
  BY <1>1, <1>2, Standing DEF Working, Over, InGroup, Pcs, Lives, Stopped
<1>4. Names(PlannedRefs(r)) \in SUBSET FieldIds
  BY <1>2, PlanFields
<1>5. Reason(r, "other") \in {"none", "expiry", "other"}
  BY <1>2, ReasonTyped
<1>6. new \in Process
  BY <1>2, <1>4, <1>5, UnseenTyped DEF Process, Pcs
<1>7. /\ new.pc = "left" /\ new.ret = "interrupt" /\ new.plan = proc[r].plan
      /\ new.number = 1 /\ new.seen = Unseen /\ new.force = proc[r].force
      /\ new.omitted = proc[r].omitted \union Names(PlannedRefs(r))
  BY <1>2 DEF Process
<1> HIDE DEF new
<1>8. proc' \in [Runs -> Process] /\ proc'[r] = new /\ \A q \in Runs \ {r} : proc'[q] = proc[q]
  BY <1>1, <1>2, <1>6
<1>9. Alone(r)
  BY <1>1, <1>2, <1>7, <1>8 DEF Alone, tables, SyncTypeOK
<1>10. Leaves(r)
  BY <1>1, <1>3, <1>7, <1>8, UnseenTyped DEF Leaves, NoRow, tables, Sees
<1> QED
  BY <1>1, <1>3, <1>9, <1>10, CloseIsNext DEF Charted, Move

LEMMA AbortStep ==
  ASSUME EngineInv, NEW r \in Runs, Abort(r)
  PROVE  Charted(r)
<1>1. Close(r) /\ UNCHANGED <<tables, now, cache>>
  BY DEF Abort
<1>2. SyncTypeOK /\ proc \in [Runs -> Process] /\ proc[r] \in Process /\ proc[r].pc \in Pcs
      /\ proc[r].seen \in [Sections -> SeenValues]
  BY ProcessFields DEF EngineInv, SyncTypeOK
<1>3. Reason(r, "other") \in {"none", "expiry", "other"}
  BY <1>2, ReasonTyped
<1>4. CASE /\ At(r, "choose") /\ proc[r].plan # <<>>
           /\ proc' = [proc EXCEPT ![r].pc = "left", ![r].ret = "budget",
                                   ![r].why = Reason(r, "other")]
           /\ UNCHANGED contacts
  <2> DEFINE new == [proc[r] EXCEPT !.pc = "left", !.ret = "budget", !.why = Reason(r, "other")]
  <2>1. proc' = [proc EXCEPT ![r] = new]
    BY <1>2, <1>4
  <2>2. new \in Process
    BY <1>2, <1>3 DEF Process, Pcs
  <2>3. /\ new.pc = "left" /\ new.ret = "budget" /\ new.plan = proc[r].plan
        /\ new.number = proc[r].number /\ new.seen = proc[r].seen
        /\ new.force = proc[r].force /\ new.omitted = proc[r].omitted
    BY <1>2 DEF Process
  <2> HIDE DEF new
  <2>4. proc' \in [Runs -> Process] /\ proc'[r] = new /\ \A q \in Runs \ {r} : proc'[q] = proc[q]
    BY <1>2, <2>1, <2>2
  <2>5. Running(r) /\ proc[r].number = 1 /\ \A s \in Sections : ~Sees(r, s)
    BY <1>4, Standing DEF Lives, Carries, At, Stopped, FirstOnly, InAttempt, Sees
  <2>6. Alone(r)
    BY <1>1, <1>2, <2>3, <2>4 DEF Alone, tables, SyncTypeOK
  <2>7. Leaves(r)
    BY <1>1, <1>4, <2>3, <2>4, <2>5 DEF Leaves, NoRow, tables, Sees, At
  <2> QED
    BY <1>1, <2>5, <2>6, <2>7, CloseIsNext DEF Charted, Move
<1>5. CASE /\ proc[r].pc \in {"group", "record", "retry"} \/ At(r, "fetch")
           /\ proc' = [proc EXCEPT ![r].why = Reason(r, "other")]
           /\ contacts' \in {contacts} \union
                 (IF At(r, "fetch") /\ budget[r] = "open" THEN {Contacted(r)} ELSE {})
  <2>1. proc' = [proc EXCEPT ![r] = [proc[r] EXCEPT !.why = Reason(r, "other")]]
    BY <1>2, <1>5 DEF Process
  <2>2. [proc[r] EXCEPT !.why = Reason(r, "other")] =
        [proc[r] EXCEPT !.pc = proc[r].pc, !.why = Reason(r, "other"),
            !.omitted = proc[r].omitted \union {}, !.seen = proc[r].seen]
    BY <1>2 DEF Process
  <2>3. proc' = [proc EXCEPT ![r] = [proc[r] EXCEPT
                   !.pc = proc[r].pc, !.why = Reason(r, "other"),
                   !.omitted = proc[r].omitted \union {}, !.seen = proc[r].seen]]
    BY <2>1, <2>2
  <2>4. Running(r)
    BY <1>5, Standing DEF Lives, At, Stopped
  <2>5. contacts' = contacts \/ (At(r, "fetch") /\ contacts' = Contacted(r))
    BY <1>5
  <2>6. {} \in SUBSET FieldIds /\ \A s \in Sections : proc[r].seen[s] # "none" => Sees(r, s)
    BY DEF Sees
  <2> QED
    BY <1>1, <1>2, <1>3, <2>3, <2>4, <2>5, <2>6, SeesMoves
<1> QED
  BY <1>4, <1>5 DEF Abort

LEMMA DyingStep ==
  ASSUME EngineInv, NEW r \in Runs, Crash(r) \/ CutOff(r)
  PROVE  Charted(r)
<1>1. PICK pc \in {"cut", "dead"} : Go(r, pc)
  BY DEF Crash, CutOff
<1>2. UNCHANGED <<vars, now, cache, contacts>> /\ proc[r].pc \notin Stopped
  BY DEF Crash, CutOff, Over, Stopped
<1>3. SyncTypeOK /\ pc \in Pcs
  BY DEF EngineInv, Pcs
<1>4. /\ proc' \in [Runs -> Process]
      /\ \A q \in Runs \ {r} : proc'[q] = proc[q]
      /\ proc'[r].pc = pc
      /\ SameGroup(r)
      /\ proc'[r].force = proc[r].force /\ proc'[r].seen = proc[r].seen
      /\ proc'[r].omitted = proc[r].omitted
  BY <1>1, <1>3, GoFields
<1>5. Alone(r)
  BY <1>2, <1>3, <1>4 DEF Alone, vars, SyncTypeOK
<1>6. Dies(r)
  BY <1>2, <1>4 DEF Dies, NoRow, vars
<1> QED
  BY <1>2, <1>5, <1>6 DEF Charted, Move

LEMMA BudgetPassesStep ==
  ASSUME EngineInv, NEW r \in Runs, BudgetPasses(r)
  PROVE  Charted(r)
<1>1. BudgetAdvance(r) /\ UNCHANGED <<now, cache, contacts, proc>>
  BY DEF BudgetPasses
<1>2. UNCHANGED tables
  BY <1>1 DEF BudgetAdvance
<1>3. SyncTypeOK
  BY DEF EngineInv
<1>4. Alone(r)
  BY <1>1, <1>2, <1>3 DEF Alone, tables, SyncTypeOK
<1>5. MovesOn(r)
  BY <1>1, <1>2 DEF MovesOn, SameGroup, NoRow, tables, Sees
<1> QED
  BY <1>1, <1>4, <1>5 DEF Charted, Move, Next

LEMMA EngineCharted ==
  ASSUME EngineInv, NEW r \in Runs, EngineStep(r)
  PROVE  Charted(r)
<1>1. \/ ReturnResult(r) \/ AskTooLate(r) \/ CommitUnpublishable(r)
      \/ EnterGroup(r) \/ FetchDone(r)
      \/ OmitGroup(r)
      \/ ForceGroup(r)
      \/ ReadHealth(r)
      \/ RecordCacheHit(r)
      \/ RecordCooldownSkip(r)
      \/ BeginAttempt(r)
      \/ \E how \in Answers : FetchSection(r, how)
      \/ FetchTooLate(r)
      \/ CommitAttempt(r)
      \/ CommitTooLate(r)
      \/ RecordTooLate(r)
      \/ RetryDenied(r)
      \/ RetryGranted(r)
  BY DEF EngineStep
<1>2. CASE FetchTooLate(r)
  BY <1>2, StopFetchingStep DEF FetchTooLate
<1> QED
  BY <1>1, <1>2, LeavingStep, GoingStep, OmitGroupStep, ForceGroupStep, ReadHealthStep,
     CacheHitStep, CooldownSkipStep, BeginAttemptStep, FetchSectionStep, CommitAttemptStep,
     CommitTooLateStep, RecordTooLateStep, RetryDeniedStep, RetryGrantedStep

(* Every step of the engine, every disruption, the end of a process that is  *)
(* cut off, and every tick of the budget.                                    *)
LEMMA ServesCharted ==
  ASSUME EngineInv, NEW r \in Runs, Serves(r)
  PROVE  Charted(r)
<1>1. CASE FetchInterrupted(r)
  BY <1>1, StopFetchingStep DEF FetchInterrupted
<1> QED
  BY <1>1, EngineCharted, InterruptStep, LeavingStep, AbortStep, DyingStep, BudgetPassesStep
  DEF Serves, Disrupt

-----------------------------------------------------------------------------
(* What the steps of one process leave true for everyone.                    *)

(* The rows a step adds are rows of a running request, about the group it    *)
(* works on.                                                                 *)
Adds(r) ==
    /\ attempts \subseteq attempts' /\ auths \subseteq auths' /\ contacts \subseteq contacts'
    /\ \A a \in attempts' \ attempts :
          /\ a.run = r /\ a.ref = Ref(r) /\ a.auth = Kind(r)
          /\ Running(r) /\ a.finished <= now /\ a.finished <= Deadline(r)
    /\ \A w \in auths' \ auths :
          /\ w.run = r /\ w.ref = Ref(r) /\ Running(r)
          /\ w.kind = "force" => proc[r].force
    /\ \A c \in contacts' \ contacts :
          /\ c = [run |-> r, ref |-> Ref(r), at |-> proc[r].started]
          /\ At(r, "fetch") /\ attempts' = attempts

LEMMA MoveAdds ==
  ASSUME EngineInv, NEW r \in Runs, Charted(r)
  PROVE  Adds(r)
<1>1. proc[r].pc \in InGroup => Running(r)
  BY Standing DEF Lives, InGroup, Stopped
<1>2. CASE MovesOn(r)
  BY <1>2 DEF MovesOn, NoRow, Contacted, Adds
<1>3. CASE Attempts(r)
  BY <1>1, <1>3 DEF Attempts, NoRow, AddsAuth, Adds, At, InGroup
<1>4. CASE Repeats(r)
  BY <1>1, <1>4 DEF Repeats, AddsAuth, Adds, At, InGroup
<1>5. CASE Begins(r) \/ Dies(r)
  BY <1>5 DEF Begins, Dies, NoRow, Adds
<1>6. CASE Fails(r)
  BY <1>1, <1>6 DEF Fails, AddsAttempt, Adds, At, InGroup
<1>7. CASE Finishes(r)
  BY <1>1, <1>7 DEF Finishes, NoRow, AddsAttempt, Adds, InGroup
<1>8. CASE Leaves(r)
  BY <1>1, <1>8 DEF Leaves, NoRow, AddsAttempt, Adds, At, InGroup
<1> QED
  BY <1>2, <1>3, <1>4, <1>5, <1>6, <1>7, <1>8 DEF Charted, Move

LEMMA CooledForLater ==
  ASSUME TypeOK, NEW r, NEW ref, NEW t \in Int, NEW u \in Int, t <= u, CooledFor(r, ref, t)
  PROVE  CooledFor(r, ref, u)
<1> SUFFICES ASSUME NEW a \in attempts,
                    a.ref = ref, a.run # r, EndedBefore(a.run, r),
                    a.outcome = "transient_failure", LastAnswer(a, r, u)
             PROVE  u >= a.cooldown
  BY DEF CooledFor
<1>1. LastAnswer(a, r, t)
  <2> SUFFICES ASSUME NEW b \in attempts \ {a}, b.ref = a.ref, b.run # r, b.finished <= t,
                      Informative(b)
               PROVE  Later(a, b)
    BY DEF LastAnswer
  <2>1. b.finished \in Int
    BY AttemptFields
  <2>2. b.finished <= u
    BY <2>1
  <2> QED
    BY <2>2 DEF LastAnswer
<1>2. t >= a.cooldown
  BY <1>1 DEF CooledFor
<1>3. a.cooldown \in Int
  BY AttemptFields
<1> QED
  BY <1>2, <1>3

(* A source stays cooled for a request while nobody else ends before it.     *)
LEMMA CooledForStays ==
  ASSUME NEW r, NEW ref, NEW t, CooledFor(r, ref, t),
         attempts \subseteq attempts',
         \A a \in attempts' : EndedBefore(a.run, r)' => a \in attempts /\ EndedBefore(a.run, r)
  PROVE  \A a \in attempts' :
            /\ a.ref = ref /\ a.run # r
            /\ EndedBefore(a.run, r)'
            /\ a.outcome = "transient_failure"
            /\ LastAnswer(a, r, t)'
            => t >= a.cooldown
<1> SUFFICES ASSUME NEW a \in attempts',
                    a.ref = ref, a.run # r, EndedBefore(a.run, r)',
                    a.outcome = "transient_failure", LastAnswer(a, r, t)'
             PROVE  t >= a.cooldown
  OBVIOUS
<1>1. a \in attempts /\ EndedBefore(a.run, r)
  OBVIOUS
<1>2. LastAnswer(a, r, t)
  BY DEF LastAnswer, Informative, Later
<1> QED
  BY <1>1, <1>2 DEF CooledFor

LEMMA HonouredIsCooled ==
  SequentialRequestsHonourCooldown <=>
     \A c \in contacts : ~proc[c.run].force => CooledFor(c.run, c.ref, c.at)
<1>1. ASSUME NEW c \in contacts, NEW a \in attempts
      PROVE  (c.run # a.run /\ c.ref = a.ref) <=> (a.ref = c.ref /\ a.run # c.run)
  OBVIOUS
<1> QED
  BY DEF SequentialRequestsHonourCooldown, CooledFor

-----------------------------------------------------------------------------
(* The invariant after a step of the engine.                                 *)

(* The runs stay as they are, so nobody ends, and a new row is one of a      *)
(* request that has not ended.                                               *)
LEMMA NobodyEnds ==
  ASSUME EngineInv, NEW r \in Runs, Alone(r), Adds(r)
  PROVE  /\ \A q : Running(q)' = Running(q) /\ Terminal(q)' = Terminal(q) /\ Deadline(q)' = Deadline(q)
         /\ \A q, p : EndedBefore(q, p)' = EndedBefore(q, p)
         /\ \A p, a : a \in attempts' /\ EndedBefore(a.run, p) => a \in attempts
<1>1. runs' = runs
  BY DEF Alone
<1>2. \A q : Running(q)' = Running(q) /\ Terminal(q)' = Terminal(q) /\ Deadline(q)' = Deadline(q)
  BY <1>1 DEF Running, Terminal, Deadline
<1>3. \A q, p : EndedBefore(q, p)' = EndedBefore(q, p)
  BY <1>1 DEF EndedBefore, Terminal, Deadline
<1>4. \A a \in attempts' \ attempts : ~Terminal(a.run)
  BY DEF Adds, Running, Terminal, TerminalStatuses
<1> QED
  BY <1>2, <1>3, <1>4 DEF EndedBefore

LEMMA ServesRows ==
  ASSUME EngineInv, NEW r \in Runs, Charted(r)
  PROVE  SyncTypeOK' /\ IInv' /\ OnRecord' /\ PublishedWithAudit'
<1>1. Alone(r) /\ Adds(r) /\ [Next]_vars
  BY MoveAdds DEF Charted
<1>2. IInv'
  BY <1>1, NextIInv DEF EngineInv
<1>3. contacts' \subseteq Contact
  <2>1. contacts \subseteq Contact
    BY DEF EngineInv, SyncTypeOK
  <2>2. ASSUME NEW c \in contacts' \ contacts
        PROVE  c \in Contact
    <3>1. c = [run |-> r, ref |-> Ref(r), at |-> proc[r].started] /\ At(r, "fetch")
      BY <1>1, <2>2 DEF Adds
    <3>2. proc[r].started \in Times /\ proc[r].plan # <<>>
      BY <3>1, Standing DEF Carries, At, InGroup, InAttempt
    <3>3. Ref(r) \in Refs
      BY <3>2, Standing, PlanFields
    <3> QED
      BY <3>1, <3>2, <3>3 DEF Contact
  <2> QED
    BY <2>1, <2>2
<1>4. SyncTypeOK'
  BY <1>1, <1>2, <1>3 DEF SyncTypeOK, IInv, AuditInv, Alone, EngineInv
<1>5. runs' = runs /\ now' = now /\ \A q \in Runs : proc'[q].force = proc[q].force
  BY <1>1 DEF Alone
<1>6. \A a \in attempts' : runs'[a.run].status # "absent" /\ a.finished <= now'
                            /\ a.finished <= Deadline(a.run)'
  BY <1>1, <1>5, NobodyEnds DEF OnRecord, EngineInv, Adds, Running
<1>7. \A w \in auths' : runs'[w.run].status # "absent" /\ (w.kind = "force" => proc'[w.run].force)
  <2>1. \A w \in auths : w.run \in Runs
    BY DEF EngineInv, SyncTypeOK, TypeOK, AuthorizationRow
  <2> QED
    BY <1>1, <1>5, <2>1 DEF OnRecord, EngineInv, Adds, Running
<1>8. \A c \in contacts' : runs'[c.run].status # "absent"
  <2>1. At(r, "fetch") => Running(r)
    BY Standing DEF Lives, At, Stopped
  <2> QED
    BY <1>1, <1>5, <2>1 DEF OnRecord, EngineInv, Adds, Running
<1>9. OnRecord'
  BY <1>6, <1>7, <1>8 DEF OnRecord
<1>10. PublishedWithAudit'
  <2>1. CASE cache' = cache
    <3> SUFFICES ASSUME NEW s \in Sections, cache[s] # NoEntry
                 PROVE  \E a \in attempts' :
                          /\ a.run = cache[s].run /\ a.ref = cache[s].ref
                          /\ a.number = cache[s].number
                          /\ s \in SectionsOf[a.ref]
                          /\ a.outcome \in {"success", "transient_failure", "unavailable"}
      BY <2>1 DEF PublishedWithAudit, AttemptsOf
    <3> QED
      BY <1>1 DEF EngineInv, PublishedWithAudit, AttemptsOf, Adds
  <2> QED
    BY <1>1, <2>1 DEF Alone
<1> QED
  BY <1>2, <1>4, <1>9, <1>10

LEMMA ServesHonours ==
  ASSUME EngineInv, NEW r \in Runs, Charted(r)
  PROVE  SequentialRequestsHonourCooldown'
<1>1. Alone(r) /\ Adds(r) /\ \A q \in Runs : proc'[q].force = proc[q].force
  BY MoveAdds DEF Charted, Alone
<1> SUFFICES ASSUME NEW c \in contacts', NEW a \in attempts',
                    c.run # a.run, c.ref = a.ref, ~proc'[c.run].force,
                    EndedBefore(a.run, c.run)', a.outcome = "transient_failure",
                    LastAnswer(a, c.run, c.at)'
             PROVE  c.at >= a.cooldown
  BY DEF SequentialRequestsHonourCooldown
<1>2. c.run \in Runs
  BY ServesRows DEF SyncTypeOK, Contact
<1>3. CooledFor(c.run, c.ref, c.at)
  <2>1. CASE c \in contacts
    BY <1>1, <1>2, <2>1, HonouredIsCooled DEF EngineInv
  <2>2. CASE c \notin contacts
    <3>1. c.run = r /\ c.ref = Ref(r) /\ c.at = proc[r].started /\ At(r, "fetch")
      BY <1>1, <2>2 DEF Adds
    <3> QED
      BY <1>1, <1>2, <3>1, Standing DEF Cooled, At, InAttempt
  <2> QED
    BY <2>1, <2>2
<1>4. \A b \in attempts' : EndedBefore(b.run, c.run)' => b \in attempts /\ EndedBefore(b.run, c.run)
  BY <1>1, NobodyEnds
<1>5. attempts \subseteq attempts'
  BY <1>1 DEF Adds
<1> HIDE DEF EndedBefore
<1> QED
  BY <1>3, <1>4, <1>5, CooledForStays

(* Cooled, of a process that a step leaves where it is, in a group that is   *)
(* still the same.                                                           *)
LEMMA CooledStays ==
  ASSUME EngineInv, NEW r \in Runs, Alone(r), Adds(r), NEW q \in Runs,
         proc'[q].force = proc[q].force,
         proc'[q].plan = proc[q].plan,
         At(q, "attempt")' => At(q, "attempt"),
         proc'[q].pc \in InAttempt => proc[q].pc \in InAttempt /\ proc'[q].started = proc[q].started
  PROVE  Cooled(q)'
<1>1. now' = now /\ attempts \subseteq attempts'
  BY DEF Alone, Adds
<1>2. \A a \in attempts' : EndedBefore(a.run, q)' => a \in attempts /\ EndedBefore(a.run, q)
  BY NobodyEnds
<1>3. Ref(q)' = Ref(q)
  BY DEF Ref
<1>4. Cooled(q)
  BY Standing
<1>5. ASSUME ~proc[q].force, At(q, "attempt")
      PROVE  CooledFor(q, Ref(q), now)'
  <2>1. CooledFor(q, Ref(q), now)
    BY <1>4, <1>5 DEF Cooled
  <2> QED
    BY <1>1, <1>2, <1>3, <2>1, CooledForStays DEF CooledFor
<1>6. ASSUME ~proc[q].force, proc[q].pc \in InAttempt, proc'[q].started = proc[q].started
      PROVE  CooledFor(q, Ref(q), proc[q].started)'
  <2>1. CooledFor(q, Ref(q), proc[q].started)
    BY <1>4, <1>6 DEF Cooled
  <2> QED
    BY <1>1, <1>2, <1>3, <1>6, <2>1, CooledForStays DEF CooledFor
<1> QED
  BY <1>5, <1>6 DEF Cooled, At

(* The others: nothing of theirs is written. *)
LEMMA ServesOthers ==
  ASSUME EngineInv, NEW r \in Runs, Charted(r), NEW q \in Runs \ {r}
  PROVE  ProcessInv(q)'
<1>1. /\ Alone(r) /\ Adds(r)
      /\ runs' = runs /\ now' = now /\ proc'[q] = proc[q]
  BY MoveAdds DEF Charted, Alone
<1>2. Lives(q) /\ Carries(q) /\ Fresh(q)
  BY Standing
<1>3. \A ref : AttemptsOf(q, ref)' = AttemptsOf(q, ref)
  BY <1>1 DEF Adds, AttemptsOf
<1>4. Lives(q)'
  BY <1>1, <1>2 DEF Lives, At, Running
<1>5. Carries(q)'
  BY <1>1, <1>2 DEF Carries, At, Ref
<1>6. Fresh(q)'
  BY <1>1, <1>2, <1>3 DEF Fresh, PlannedRefs, Ref
<1>7. Cooled(q)'
  BY <1>1, CooledStays DEF At
<1> QED
  BY <1>4, <1>5, <1>6, <1>7 DEF ProcessInv

LEMMA ServesLives ==
  ASSUME EngineInv, NEW r \in Runs, Charted(r)
  PROVE  Lives(r)'
<1>1. Lives(r) /\ runs' = runs /\ now' = now
  BY Standing DEF Charted, Alone
<1>2. At(r, "idle")' => At(r, "idle")
  BY DEF Charted, Move, MovesOn, Attempts, Repeats, Begins, Fails, Finishes, Leaves, Dies, At
<1>3. proc'[r].pc \notin Stopped => proc[r].pc \notin Stopped
  <2>1. MovesOn(r) => (proc'[r].pc \notin Stopped => proc[r].pc \notin Stopped)
    BY DEF MovesOn, At, Stopped
  <2>2. Finishes(r) \/ Leaves(r) => proc[r].pc \notin Stopped
    BY DEF Finishes, Leaves, InGroup, Stopped
  <2>3. Attempts(r) \/ Repeats(r) \/ Begins(r) \/ Fails(r) => proc[r].pc \notin Stopped
    BY DEF Attempts, Repeats, Begins, Fails, At, Stopped
  <2>4. Dies(r) => proc'[r].pc \in Stopped
    BY DEF Dies, Stopped
  <2> QED
    BY <2>1, <2>2, <2>3, <2>4 DEF Charted, Move
<1> QED
  BY <1>1, <1>2, <1>3 DEF Lives, At, Running

LEMMA ServesCarries ==
  ASSUME EngineInv, NEW r \in Runs, Charted(r)
  PROVE  Carries(r)'
<1>1. /\ Carries(r) /\ Lives(r)
      /\ runs' = runs /\ now' = now /\ now \in Times /\ now \in Nat
      /\ proc'[r].force = proc[r].force
      /\ proc[r].plan \in Seq(Refs)
  BY Standing, ProcessFields DEF Charted, Alone
<1>2. proc[r].plan # <<>> => Ref(r)' = Ref(r) \/ proc'[r].plan # proc[r].plan
  BY DEF Ref
<1>3. CASE MovesOn(r)
  <2>1. /\ proc'[r].plan = proc[r].plan /\ proc'[r].number = proc[r].number
        /\ proc'[r].started = proc[r].started /\ proc'[r].ret = proc[r].ret
        /\ \A s \in Sections : Sees(r, s)' => Sees(r, s)
        /\ Ref(r)' = Ref(r)
    BY <1>3 DEF MovesOn, SameGroup, Ref
  <2>2. CASE proc'[r].pc = proc[r].pc
    BY <1>1, <2>1, <2>2 DEF Carries, At, Sees
  <2>3. CASE At(r, "choose") /\ proc[r].plan # <<>> /\ proc'[r].pc = "group"
    BY <1>1, <2>1, <2>3 DEF Carries, At, Sees, InGroup, InAttempt, FirstOnly
  <2>4. CASE At(r, "group") /\ proc'[r].pc \in {"hit", "skip"}
    BY <1>1, <2>1, <2>4 DEF Carries, At, Sees, InGroup, InAttempt, FirstOnly
  <2>5. CASE At(r, "fetch") /\ proc'[r].pc = "record"
    BY <1>1, <2>1, <2>5 DEF Carries, At, Sees, InGroup, InAttempt, FirstOnly
  <2> QED
    BY <1>3, <2>2, <2>3, <2>4, <2>5 DEF MovesOn
<1>4. CASE Attempts(r)
  BY <1>1, <1>4 DEF Attempts, SameGroup, Carries, At, InGroup, InAttempt, FirstOnly, Ref
<1>5. CASE Repeats(r)
  BY <1>1, <1>5 DEF Repeats, Carries, At, InGroup, InAttempt, FirstOnly, Ref
<1>6. CASE Begins(r)
  <2>1. /\ At(r, "attempt") /\ proc'[r].pc = "fetch"
        /\ proc'[r].plan = proc[r].plan /\ Ref(r)' = Ref(r)
        /\ proc'[r].started = now
        /\ \A s \in Sections : Sees(r, s)' => s \in SectionsOf[Ref(r)]
    BY <1>6 DEF Begins, Ref
  <2>2. runs[r].started <= now /\ proc[r].plan # <<>>
    BY <1>1, <2>1 DEF Lives, Carries, At, Stopped, Running, InGroup
  <2> QED
    BY <1>1, <2>1, <2>2 DEF Carries, At, Sees, InGroup, InAttempt, FirstOnly
<1>7. CASE Fails(r)
  BY <1>1, <1>7 DEF Fails, SameGroup, Carries, At, InGroup, InAttempt, FirstOnly, Ref
<1>8. CASE Finishes(r)
  BY <1>1, <1>8 DEF Finishes, Carries, At, InGroup, InAttempt, FirstOnly, Sees
<1>9. CASE Leaves(r)
  BY <1>1, <1>9 DEF Leaves, Carries, At, InGroup, InAttempt, FirstOnly, Sees
<1>10. CASE Dies(r)
  BY <1>1, <1>10 DEF Dies, SameGroup, Carries, At, InGroup, InAttempt, FirstOnly
<1> QED
  BY <1>3, <1>4, <1>5, <1>6, <1>7, <1>8, <1>9, <1>10 DEF Charted, Move

(* The groups behind the first are the others of the plan. *)
LEMMA TailOfPlan ==
  ASSUME NEW plan \in Seq(Refs), plan # <<>>, Distinct(plan)
  PROVE  /\ Distinct(Tail(plan))
         /\ \A i \in DOMAIN Tail(plan) : Tail(plan)[i] # Head(plan)
         /\ \A i \in DOMAIN Tail(plan) : \E j \in DOMAIN plan : Tail(plan)[i] = plan[j]
         /\ \A j \in DOMAIN plan : plan[j] # Head(plan) =>
               \E i \in DOMAIN Tail(plan) : Tail(plan)[i] = plan[j]
<1> DEFINE n == Len(plan) - 1
           rest == Tail(plan)
<1>1. /\ Len(plan) \in Nat \ {0} /\ DOMAIN plan = 1..Len(plan)
      /\ n \in Nat /\ DOMAIN rest = 1..n
      /\ Head(plan) = plan[1]
      /\ \A i \in 1..n : rest[i] = plan[i + 1]
  OBVIOUS
<1>2. \A i \in 1..n : i + 1 \in DOMAIN plan /\ i + 1 # 1
  BY <1>1
<1>3. 1 \in DOMAIN plan
  BY <1>1
<1> HIDE DEF rest
<1>4. Distinct(rest)
  <2> SUFFICES ASSUME NEW i \in 1..n, NEW j \in 1..n, rest[i] = rest[j]
               PROVE  i = j
    BY <1>1 DEF Distinct
  <2>1. plan[i + 1] = plan[j + 1]
    BY <1>1
  <2>2. i + 1 = j + 1
    BY <1>2, <2>1 DEF Distinct
  <2> QED
    BY <2>2
<1>5. \A i \in 1..n : rest[i] # Head(plan)
  BY <1>1, <1>2, <1>3 DEF Distinct
<1>6. \A i \in 1..n : \E j \in DOMAIN plan : rest[i] = plan[j]
  BY <1>1, <1>2
<1>7. ASSUME NEW j \in DOMAIN plan, plan[j] # Head(plan)
      PROVE  \E i \in 1..n : rest[i] = plan[j]
  <2>1. j - 1 \in 1..n /\ (j - 1) + 1 = j
    BY <1>1, <1>7
  <2> QED
    BY <1>1, <2>1
<1> QED
  BY <1>1, <1>4, <1>5, <1>6, <1>7 DEF rest

LEMMA ServesFresh ==
  ASSUME EngineInv, NEW r \in Runs, Charted(r)
  PROVE  Fresh(r)'
<1>1. Fresh(r) /\ Carries(r) /\ Adds(r) /\ proc[r].plan \in Seq(Refs)
  BY Standing, MoveAdds, ProcessFields
<1>2. \A ref : AttemptsOf(r, ref)' # {} => AttemptsOf(r, ref) # {} \/ ref = Ref(r)
  BY <1>1 DEF Adds, AttemptsOf
<1>3. attempts' = attempts => \A ref : AttemptsOf(r, ref)' = AttemptsOf(r, ref)
  BY DEF AttemptsOf
<1>4. proc'[r].plan = proc[r].plan => Ref(r)' = Ref(r) /\ PlannedRefs(r)' = PlannedRefs(r)
  BY DEF Ref, PlannedRefs
<1>5. CASE MovesOn(r)
  BY <1>1, <1>3, <1>4, <1>5 DEF MovesOn, NoRow, SameGroup, Fresh, At, InGroup
<1>6. CASE Attempts(r) \/ Repeats(r) \/ Begins(r)
  BY <1>1, <1>3, <1>4, <1>6
  DEF Attempts, Repeats, Begins, AddsAuth, NoRow, SameGroup, Fresh, At, InGroup
<1>7. CASE Fails(r)
  BY <1>1, <1>2, <1>4, <1>7 DEF Fails, SameGroup, Fresh, At, InGroup
<1>8. CASE Finishes(r)
  <2>1. /\ proc[r].plan # <<>> /\ proc'[r].pc = "choose"
        /\ proc'[r].plan = Tail(proc[r].plan)
        /\ proc[r].pc \in InGroup \union {"choose"}
    BY <1>8 DEF Finishes, InGroup
  <2>2. /\ Distinct(Tail(proc[r].plan))
        /\ PlannedRefs(r)' \subseteq PlannedRefs(r) /\ Ref(r) \notin PlannedRefs(r)'
    BY <1>1, <2>1, TailOfPlan DEF PlannedRefs, Fresh, Ref
  <2>3. \A ref \in PlannedRefs(r)' : AttemptsOf(r, ref)' = {}
    BY <1>1, <1>2, <2>1, <2>2 DEF Fresh
  <2> QED
    BY <2>1, <2>2, <2>3 DEF Fresh
<1>9. CASE Leaves(r) \/ Dies(r)
  BY <1>1, <1>9 DEF Leaves, Dies, SameGroup, Fresh, InGroup
<1> QED
  BY <1>5, <1>6, <1>7, <1>8, <1>9 DEF Charted, Move

LEMMA ServesCooled ==
  ASSUME EngineInv, NEW r \in Runs, Charted(r)
  PROVE  Cooled(r)'
<1>1. /\ Alone(r) /\ Adds(r) /\ Cooled(r) /\ Carries(r) /\ TypeOK
      /\ now' = now /\ now \in Int
      /\ proc'[r].force = proc[r].force
  BY Standing, MoveAdds DEF Charted, Alone
<1>2. CASE MovesOn(r) \/ Fails(r)
  <2>1. /\ proc'[r].plan = proc[r].plan
        /\ At(r, "attempt")' => At(r, "attempt")
        /\ proc'[r].pc \in InAttempt => proc[r].pc \in InAttempt /\ proc'[r].started = proc[r].started
    BY <1>2 DEF MovesOn, Fails, SameGroup, At, InAttempt
  <2> QED
    BY <1>1, <2>1, CooledStays
<1>3. ASSUME ~proc[r].force, NEW t, t = now, CooledFor(r, Ref(r), t), proc'[r].plan = proc[r].plan,
             proc'[r].pc \in {"attempt", "fetch"}, proc'[r].pc = "fetch" => proc'[r].started = t
      PROVE  Cooled(r)'
  <2>1. \A a \in attempts' : EndedBefore(a.run, r)' => a \in attempts /\ EndedBefore(a.run, r)
    BY <1>1, NobodyEnds
  <2>2. Ref(r)' = Ref(r) /\ attempts \subseteq attempts'
    BY <1>1, <1>3 DEF Ref, Adds
  <2>3. CooledFor(r, Ref(r), now)'
    BY <1>1, <1>3, <2>1, <2>2, CooledForStays DEF CooledFor
  <2> QED
    BY <1>1, <1>3, <2>3 DEF Cooled, At, InAttempt
<1>4. CASE Attempts(r)
  BY <1>1, <1>3, <1>4 DEF Attempts, SameGroup, Cooled, At, InAttempt
<1>5. CASE Repeats(r)
  <2>1. /\ At(r, "retry") /\ proc'[r].pc = "attempt" /\ proc'[r].plan = proc[r].plan
    BY <1>5 DEF Repeats
  <2>2. proc[r].started \in Int /\ proc[r].started <= now
    <3>1. proc[r].started \in Times /\ proc[r].started <= now
      BY <1>1, <2>1 DEF Carries, At, InAttempt
    <3>2. proc[r].started \in Nat
      BY <3>1, TimesFact, Zenon
    <3> QED
      BY <3>1, <3>2
  <2>3. ~proc[r].force => CooledFor(r, Ref(r), now)
    BY <1>1, <2>1, <2>2, CooledForLater DEF Cooled, At, InAttempt
  <2> QED
    BY <1>1, <1>3, <2>1, <2>3 DEF Cooled
<1>6. CASE Begins(r)
  BY <1>1, <1>3, <1>6 DEF Begins, Cooled, At
<1>7. CASE Finishes(r) \/ Leaves(r) \/ Dies(r)
  BY <1>7 DEF Finishes, Leaves, Dies, Cooled, At, InAttempt
<1> QED
  BY <1>2, <1>4, <1>5, <1>6, <1>7 DEF Charted, Move

LEMMA ServesInv ==
  ASSUME EngineInv, NEW r \in Runs, Serves(r)
  PROVE  EngineInv'
<1>1. Charted(r)
  BY ServesCharted
<1>2. SyncTypeOK' /\ IInv' /\ OnRecord' /\ PublishedWithAudit' /\ SequentialRequestsHonourCooldown'
  BY <1>1, ServesRows, ServesHonours
<1>3. ProcessInv(r)'
  BY <1>1, ServesLives, ServesCarries, ServesFresh, ServesCooled DEF ProcessInv
<1>4. \A q \in Runs : ProcessInv(q)'
  BY <1>1, <1>3, ServesOthers
<1> QED
  BY <1>2, <1>4 DEF EngineInv

-----------------------------------------------------------------------------
(* The clock, and what the callers of the engine do.                         *)

(* The wall clock moves on, or nothing happens at all. *)
ClockOnly ==
    /\ UNCHANGED <<runs, attempts, auths, snapshots, budget, cache, contacts, proc>>
    /\ now' \in Times /\ now <= now'

LEMMA TickIsClock ==
  ASSUME EngineInv, Tick \/ UNCHANGED syncVars
  PROVE  ClockOnly
<1>1. now \in 0..MaxTime /\ MaxTime \in Nat
  BY AuditAssumption DEF EngineInv, SyncTypeOK, Times
<1>2. CASE Tick
  BY <1>1, <1>2 DEF Tick, ClockOnly, Times, vars
<1>3. CASE UNCHANGED syncVars
  BY <1>1, <1>3 DEF syncVars, ClockOnly, Times, vars
<1> QED
  BY <1>2, <1>3

LEMMA ClockInv ==
  ASSUME EngineInv, ClockOnly
  PROVE  EngineInv'
<1>1. /\ UNCHANGED <<runs, attempts, auths, snapshots, budget, cache, contacts, proc>>
      /\ now' \in Times /\ now <= now'
      /\ SyncTypeOK /\ IInv
  BY DEF EngineInv, ClockOnly
<1>2. IInv'
  BY <1>1, NextIInv DEF vars
<1>3. now' \in Times /\ now <= now' /\ now \in Int /\ now' \in Int
  <2>1. now \in Nat /\ now' \in Nat
    BY <1>1, TimesFact DEF SyncTypeOK
  <2> QED
    BY <1>1, <2>1
<1>4. SyncTypeOK'
  BY <1>1, <1>2, <1>3 DEF SyncTypeOK, IInv, AuditInv
<1>5. /\ \A q : Running(q)' = Running(q) /\ Deadline(q)' = Deadline(q)
      /\ \A q, p : EndedBefore(q, p)' = EndedBefore(q, p)
  BY <1>1 DEF Running, Deadline, EndedBefore, Terminal
<1>6. \A t \in Int : t <= now => t <= now'
  BY <1>3
<1>7. OnRecord'
  <2>1. \A a \in attempts : a.finished \in Int
    BY <1>1, AttemptFields DEF SyncTypeOK
  <2> QED
    BY <1>1, <1>5, <1>6, <2>1 DEF OnRecord, EngineInv
<1>8. PublishedWithAudit'
  BY <1>1 DEF EngineInv, PublishedWithAudit, AttemptsOf
<1>9. SequentialRequestsHonourCooldown'
  BY <1>1, <1>5
  DEF EngineInv, SequentialRequestsHonourCooldown, LastAnswer, Informative, Later
<1>10. ASSUME NEW q \in Runs
       PROVE  ProcessInv(q)'
  <2>1. Lives(q) /\ Carries(q) /\ Fresh(q) /\ Cooled(q) /\ TypeOK
    BY Standing
  <2>2. Lives(q)'
    <3>1. runs[q].started \in Nat
      BY Standing, Zenon
    <3>2. runs[q].started \in Int
      BY <3>1
    <3> QED
      BY <1>1, <1>6, <2>1, <3>2 DEF Lives, At, Running
  <2>3. Carries(q)'
    <3>1. ASSUME proc[q].pc \in InAttempt
          PROVE  proc[q].started <= now'
      <4>1. proc[q].started \in Times /\ proc[q].started <= now
        BY <2>1, <3>1 DEF Carries
      <4>2. proc[q].started \in Nat
        BY <4>1, TimesFact, Zenon
      <4> QED
        BY <1>6, <4>1, <4>2
    <3> QED
      BY <1>1, <2>1, <3>1 DEF Carries, At, Ref
  <2>4. Fresh(q)'
    BY <1>1, <2>1 DEF Fresh, PlannedRefs, AttemptsOf, Ref
  <2>5. Cooled(q)'
    <3>1. \A ref, t : CooledFor(q, ref, t) =>
             \A a \in attempts : a.ref = ref /\ a.run # q /\ EndedBefore(a.run, q)'
               /\ a.outcome = "transient_failure" /\ LastAnswer(a, q, t)' => t >= a.cooldown
      BY <1>1, <1>5 DEF CooledFor, LastAnswer, Informative, Later
    <3>2. ASSUME ~proc[q].force, At(q, "attempt")
          PROVE  CooledFor(q, Ref(q), now')
      BY <1>3, <2>1, <3>2, CooledForLater DEF Cooled
    <3>3. ASSUME ~proc[q].force, At(q, "attempt")
          PROVE  CooledFor(q, Ref(q), now)'
      BY <1>1, <3>1, <3>2, <3>3 DEF CooledFor, Ref
    <3>4. ASSUME ~proc[q].force, proc[q].pc \in InAttempt
          PROVE  CooledFor(q, Ref(q), proc[q].started)'
      BY <1>1, <2>1, <3>1, <3>4 DEF Cooled, CooledFor, Ref
    <3> QED
      BY <1>1, <3>3, <3>4 DEF Cooled, At
  <2> QED
    BY <2>2, <2>3, <2>4, <2>5 DEF ProcessInv
<1> QED
  BY <1>2, <1>4, <1>7, <1>8, <1>9, <1>10 DEF EngineInv

(* A handler begins a request, goes on between two runs of the engine or     *)
(* ends the request, and touches no row of an attempt and no section.        *)
BeginsRun(r) ==
    /\ At(r, "idle")
    /\ runs'[r].status = "running" /\ runs'[r].started = now
    /\ proc'[r].pc \in {"choose", "left"} /\ proc'[r].ret = "none"

EndsRun(r) ==
    /\ proc'[r].pc = "ended"
    /\ runs'[r].status \in TerminalStatuses
    /\ runs'[r].started = runs[r].started /\ runs'[r].mode = runs[r].mode
    /\ runs'[r].finished = now \/ runs'[r].finished = Deadline(r)

Handles(r) ==
    /\ [Next]_vars
    /\ UNCHANGED <<attempts, auths, now, cache, contacts>>
    /\ \A s : s.run # r => (s \in snapshots' <=> s \in snapshots)
    /\ proc' \in [Runs -> Process]
    /\ \A q \in Runs \ {r} : proc'[q] = proc[q] /\ runs'[q] = runs[q]
    /\ proc'[r].pc \in {"choose", "left", "ended"}
    /\ proc'[r].number = 1
    /\ \A s \in Sections : ~Sees(r, s)'
    /\ Distinct(proc'[r].plan)
    /\ proc'[r].pc = "choose" => \A ref \in PlannedRefs(r)' : AttemptsOf(r, ref) = {}
    /\ proc'[r].pc = "left" /\ proc'[r].ret = "ok" => proc'[r].plan = <<>>
    /\ \/ BeginsRun(r)
       \/ /\ At(r, "left") /\ proc'[r].force = proc[r].force
          /\ runs'[r] = runs[r] \/ EndsRun(r)

LEMMA HandlesNobodyEnds ==
  ASSUME EngineInv, NEW r \in Runs, Handles(r),
         NEW q \in Runs, NEW p \in Runs, p # r \/ At(r, "left"),
         runs[p].status # "absent",
         EndedBefore(q, p)'
  PROVE  EndedBefore(q, p)
<1>1. runs[p].started <= now /\ runs[p].started \in Int /\ now \in Int /\ Deadline(r) \in Int
  <2>1. runs[p].started \in Nat /\ now \in Nat /\ Deadline(r) \in Nat
    BY Standing
  <2> QED
    BY <2>1, Standing DEF Lives
<1>2. runs'[p].started = runs[p].started
  BY DEF Handles, BeginsRun, EndsRun, At
<1>3. CASE runs'[q] = runs[q]
  BY <1>2, <1>3 DEF EndedBefore, Terminal, Deadline
<1>4. CASE q = r /\ BeginsRun(r)
  BY <1>4 DEF BeginsRun, EndedBefore, Terminal, TerminalStatuses
<1>5. CASE q = r /\ EndsRun(r)
  <2>1. Deadline(r)' = Deadline(r)
    BY <1>5 DEF EndsRun, Deadline
  <2>2. runs'[r].finished < Deadline(r) /\ runs'[r].finished < runs[p].started
    BY <1>2, <1>5, <2>1 DEF EndedBefore
  <2> QED
    BY <1>1, <1>5, <2>2 DEF EndsRun
<1> QED
  BY <1>3, <1>4, <1>5 DEF Handles

LEMMA HandlesRows ==
  ASSUME EngineInv, NEW r \in Runs, Handles(r)
  PROVE  /\ SyncTypeOK' /\ IInv' /\ OnRecord' /\ PublishedWithAudit'
         /\ SequentialRequestsHonourCooldown'
<1>1. /\ [Next]_vars
      /\ UNCHANGED <<attempts, auths, now, cache, contacts>>
      /\ proc' \in [Runs -> Process]
      /\ \A q \in Runs \ {r} : proc'[q] = proc[q] /\ runs'[q] = runs[q]
  BY DEF Handles
<1>2. IInv'
  BY <1>1, NextIInv DEF EngineInv
<1>3. SyncTypeOK'
  BY <1>1, <1>2 DEF SyncTypeOK, IInv, AuditInv, EngineInv
<1>4. runs[r].status # "absent" => At(r, "left") /\ proc'[r].force = proc[r].force
  <2>1. At(r, "idle") => runs[r].status = "absent"
    BY Standing DEF Lives
  <2> QED
    BY <2>1 DEF Handles, BeginsRun
<1>5. \A q \in Runs : runs[q].status # "absent" =>
         /\ runs'[q].status # "absent" /\ Deadline(q)' = Deadline(q)
         /\ proc'[q].force = proc[q].force
  BY <1>1, <1>4 DEF Handles, BeginsRun, EndsRun, Deadline, At, TerminalStatuses
<1>6. /\ \A a \in attempts : a.run \in Runs
      /\ \A w \in auths : w.run \in Runs
      /\ \A c \in contacts : c.run \in Runs
  BY DEF EngineInv, SyncTypeOK, TypeOK, AttemptRow, AuthorizationRow, Contact
<1>7. OnRecord'
  BY <1>1, <1>5, <1>6 DEF OnRecord, EngineInv
<1>8. PublishedWithAudit'
  BY <1>1 DEF EngineInv, PublishedWithAudit, AttemptsOf
<1>9. SequentialRequestsHonourCooldown'
  <2> SUFFICES ASSUME NEW c \in contacts, NEW a \in attempts,
                      c.run # a.run, c.ref = a.ref, ~proc'[c.run].force,
                      EndedBefore(a.run, c.run)', a.outcome = "transient_failure",
                      LastAnswer(a, c.run, c.at)
               PROVE  c.at >= a.cooldown
    BY <1>1 DEF SequentialRequestsHonourCooldown, LastAnswer, Informative, Later
  <2>1. runs[c.run].status # "absent"
    BY DEF EngineInv, OnRecord
  <2>2. ~proc[c.run].force /\ (c.run # r \/ At(r, "left"))
    BY <1>4, <1>5, <1>6, <2>1
  <2>3. EndedBefore(a.run, c.run)
    BY <1>6, <2>1, <2>2, HandlesNobodyEnds
  <2> QED
    BY <2>2, <2>3 DEF EngineInv, SequentialRequestsHonourCooldown
<1> QED
  BY <1>2, <1>3, <1>7, <1>8, <1>9

LEMMA HandlesProcess ==
  ASSUME EngineInv, NEW r \in Runs, Handles(r)
  PROVE  ProcessInv(r)'
<1>1. /\ Lives(r) /\ now' = now /\ now \in Nat
      /\ attempts' = attempts
      /\ proc'[r].pc \in {"choose", "left", "ended"}
  BY Standing DEF Handles
<1>2. Lives(r)'
  <2>1. CASE BeginsRun(r)
    BY <1>1, <2>1 DEF BeginsRun, Lives, At, Running, Stopped
  <2>2. CASE At(r, "left") /\ runs'[r] = runs[r]
    BY <1>1, <2>2 DEF Lives, At, Running, Stopped
  <2>3. CASE At(r, "left") /\ EndsRun(r)
    BY <1>1, <2>3 DEF EndsRun, Lives, At, Running, Stopped
  <2> QED
    BY <2>1, <2>2, <2>3 DEF Handles
<1>3. Carries(r)'
  BY <1>1 DEF Handles, Carries, At, InGroup, InAttempt, FirstOnly, Sees
<1>4. Fresh(r)'
  BY <1>1 DEF Handles, Fresh, AttemptsOf, InGroup
<1>5. Cooled(r)'
  BY <1>1 DEF Cooled, At, InAttempt
<1> QED
  BY <1>2, <1>3, <1>4, <1>5 DEF ProcessInv

LEMMA HandlesOthers ==
  ASSUME EngineInv, NEW r \in Runs, Handles(r), NEW q \in Runs \ {r}
  PROVE  ProcessInv(q)'
<1>1. /\ proc'[q] = proc[q] /\ runs'[q] = runs[q]
      /\ UNCHANGED <<attempts, now>>
  BY DEF Handles
<1>2. Lives(q) /\ Carries(q) /\ Fresh(q) /\ Cooled(q)
  BY Standing
<1>3. Lives(q)' /\ Carries(q)' /\ Fresh(q)'
  <2>1. Lives(q)'
    BY <1>1, <1>2 DEF Lives, At, Running
  <2>2. Carries(q)'
    BY <1>1, <1>2 DEF Carries, At, Ref
  <2>3. Fresh(q)'
    BY <1>1, <1>2 DEF Fresh, PlannedRefs, AttemptsOf, Ref
  <2> QED
    BY <2>1, <2>2, <2>3
<1>4. ASSUME proc[q].pc \notin Stopped, NEW ref, NEW t, CooledFor(q, ref, t)
      PROVE  \A a \in attempts' :
                a.ref = ref /\ a.run # q /\ EndedBefore(a.run, q)'
                /\ a.outcome = "transient_failure" /\ LastAnswer(a, q, t)' => t >= a.cooldown
  <2>1. runs[q].status # "absent"
    BY <1>2, <1>4 DEF Lives, Running
  <2>2. \A a \in attempts' : EndedBefore(a.run, q)' => a \in attempts /\ EndedBefore(a.run, q)
    <3>1. \A a \in attempts : a.run \in Runs
      BY DEF EngineInv, SyncTypeOK, TypeOK, AttemptRow
    <3> QED
      BY <1>1, <2>1, <3>1, HandlesNobodyEnds
  <2>3. attempts \subseteq attempts'
    BY <1>1
  <2> HIDE DEF EndedBefore
  <2> QED
    BY <1>4, <2>2, <2>3, CooledForStays
<1>5. ASSUME ~proc[q].force, At(q, "attempt")
      PROVE  CooledFor(q, Ref(q), now)'
  BY <1>1, <1>2, <1>4, <1>5 DEF Cooled, CooledFor, Ref, At, Stopped
<1>6. ASSUME ~proc[q].force, proc[q].pc \in InAttempt
      PROVE  CooledFor(q, Ref(q), proc[q].started)'
  BY <1>1, <1>2, <1>4, <1>6 DEF Cooled, CooledFor, Ref, InAttempt, Stopped
<1>7. Cooled(q)'
  BY <1>1, <1>5, <1>6 DEF Cooled, At
<1> QED
  BY <1>3, <1>7 DEF ProcessInv

LEMMA HandlesInv ==
  ASSUME EngineInv, NEW r \in Runs, Handles(r)
  PROVE  EngineInv'
<1>1. \A q \in Runs : ProcessInv(q)'
  BY HandlesProcess, HandlesOthers
<1> QED
  BY <1>1, HandlesRows DEF EngineInv

LEMMA SyncInitInv == SyncInit => EngineInv
<1> SUFFICES ASSUME SyncInit PROVE EngineInv
  OBVIOUS
<1> DEFINE p0 == [pc |-> "idle", plan |-> <<>>, force |-> FALSE, number |-> 1,
                  started |-> NoTime, seen |-> Unseen, until |-> NoTime,
                  omitted |-> {}, why |-> "none", ret |-> "none"]
<1>1. /\ Init /\ now = 0 /\ contacts = {}
      /\ cache = [s \in Sections |-> NoEntry]
      /\ proc = [r \in Runs |-> p0]
  BY DEF SyncInit
<1>2. IInv
  BY <1>1, InitIInv
<1>3. p0 \in Process /\ p0.pc = "idle" /\ p0.plan = <<>> /\ p0.force = FALSE /\ p0.number = 1
      /\ p0.seen = Unseen /\ p0.ret = "none"
  BY UnseenTyped DEF Process, Pcs
<1> HIDE DEF p0
<1>4. \A r \in Runs : proc[r] = p0
  BY <1>1
<1>5. \A r \in Runs : runs[r].status = "absent"
  BY <1>1 DEF Init
<1>6. SyncTypeOK
  <2>1. now \in Times
    BY <1>1, AuditAssumption DEF Times
  <2> QED
    BY <1>1, <1>2, <1>3, <2>1 DEF SyncTypeOK, IInv, AuditInv
<1>7. attempts = {} /\ auths = {}
  BY <1>1 DEF Init
<1>8. OnRecord /\ SequentialRequestsHonourCooldown
  BY <1>1, <1>7 DEF OnRecord, SequentialRequestsHonourCooldown
<1>9. PublishedWithAudit
  BY <1>1 DEF PublishedWithAudit
<1>10. ASSUME NEW r \in Runs PROVE ProcessInv(r)
  <2>1. Lives(r)
    BY <1>3, <1>4, <1>5 DEF Lives, At, Stopped
  <2>2. Carries(r)
    BY <1>3, <1>4, UnseenTyped DEF Carries, At, InGroup, FirstOnly, InAttempt
  <2>3. Fresh(r)
    BY <1>3, <1>4 DEF Fresh, Distinct, InGroup
  <2>4. Cooled(r)
    BY <1>3, <1>4 DEF Cooled, At, InAttempt
  <2> QED
    BY <2>1, <2>2, <2>3, <2>4 DEF ProcessInv
<1> QED
  BY <1>2, <1>6, <1>8, <1>9, <1>10 DEF EngineInv

-----------------------------------------------------------------------------
(* The work of a process: what the steps of the engine keep of Progress and  *)
(* Reserved, for whatever groups S its caller asked for.                     *)

LEMMA PendingAfter ==
  ASSUME EngineInv, NEW r \in Runs, Charted(r)
  PROVE  /\ PendingOf(r)' \subseteq PendingOf(r) \union (auths' \ auths)
         /\ \A ref : Audited(r, ref) => Audited(r, ref)'
<1>1. Adds(r)
  BY MoveAdds
<1>2. \A w : Consumed(w) => Consumed(w)'
  BY <1>1 DEF Consumed, Adds
<1>3. PendingOf(r)' \subseteq PendingOf(r) \union (auths' \ auths)
  BY <1>2 DEF PendingOf
<1>4. \A ref : Audited(r, ref) => Audited(r, ref)'
  BY <1>1 DEF Audited, AttemptsOf, Adds
<1> QED
  BY <1>3, <1>4

LEMMA ServesProgress ==
  ASSUME EngineInv, NEW r \in Runs, Charted(r), NEW S, Progress(r, S)
  PROVE  Progress(r, S)'
<1> SUFFICES ASSUME AtWork(r)'
             PROVE  /\ PlannedRefs(r)' \subseteq S
                    /\ proc'[r].omitted = {} =>
                          \A ref \in S \ PlannedRefs(r)' : Audited(r, ref)'
  BY DEF Progress
<1>1. /\ proc[r].omitted \subseteq proc'[r].omitted
      /\ Fresh(r) /\ proc[r].plan \in Seq(Refs)
      /\ \A ref : Audited(r, ref) => Audited(r, ref)'
  BY Standing, ProcessFields, PendingAfter DEF Charted, Alone
<1>2. proc'[r].plan = proc[r].plan => PlannedRefs(r)' = PlannedRefs(r)
  BY DEF PlannedRefs
<1>3. ASSUME AtWork(r), proc'[r].plan = proc[r].plan
      PROVE  /\ PlannedRefs(r)' \subseteq S
             /\ proc'[r].omitted = {} =>
                   \A ref \in S \ PlannedRefs(r)' : Audited(r, ref)'
  BY <1>1, <1>2, <1>3 DEF Progress
<1>4. CASE MovesOn(r)
  BY <1>3, <1>4 DEF MovesOn, SameGroup, AtWork, At, InGroup
<1>5. CASE Attempts(r) \/ Repeats(r) \/ Begins(r) \/ Fails(r)
  BY <1>3, <1>5 DEF Attempts, Repeats, Begins, Fails, SameGroup, AtWork, At, InGroup
<1>6. CASE Leaves(r)
  BY <1>3, <1>6 DEF Leaves, AtWork, At, InGroup
<1>7. CASE Dies(r)
  BY <1>7 DEF Dies, AtWork, At, InGroup
<1>8. CASE Finishes(r)
  <2>1. /\ AtWork(r)
        /\ proc[r].plan # <<>>
        /\ proc'[r].plan = Tail(proc[r].plan)
    BY <1>8 DEF Finishes, AtWork, InGroup
  <2>3. proc'[r].omitted = {} => \A ref : ref = Ref(r) => Audited(r, ref)'
    <3> SUFFICES ASSUME proc'[r].omitted = {}
                 PROVE  \A ref : ref = Ref(r) => Audited(r, ref)'
      OBVIOUS
    <3>1. PICK a \in AttemptRow : AddsAttempt(r, a) /\ a.outcome \in {"success", "cache_hit"}
      BY <1>8 DEF Finishes
    <3>2. a \in attempts' /\ a.run = r /\ a.ref = Ref(r)
      BY <3>1 DEF AddsAttempt
    <3> QED
      BY <3>1, <3>2 DEF Audited, AttemptsOf
  <2>2. PlannedRefs(r)' \subseteq PlannedRefs(r) /\ PlannedRefs(r) \subseteq PlannedRefs(r)' \union {Ref(r)}
    BY <1>1, <2>1, TailOfPlan DEF PlannedRefs, Fresh, Ref
  <2> QED
    BY <1>1, <2>1, <2>2, <2>3 DEF Progress
<1> QED
  BY <1>4, <1>5, <1>6, <1>7, <1>8 DEF Charted, Move

LEMMA ServesReserved ==
  ASSUME EngineInv, NEW r \in Runs, Charted(r), NEW S, Reserved(r, S)
  PROVE  Reserved(r, S)'
<1> SUFFICES ASSUME proc'[r].pc \notin Stopped, NEW w \in PendingOf(r)', w.ref \in S
             PROVE  InUse(r, w)' \/ LeftOpen(r, w)'
  BY DEF Reserved
<1>1. /\ w \in PendingOf(r) \/ w \in auths' \ auths
      /\ w \in PendingOf(r) /\ proc[r].pc \notin Stopped => InUse(r, w) \/ LeftOpen(r, w)
  BY PendingAfter DEF Reserved
<1>2. /\ proc'[r].force = proc[r].force /\ proc[r].omitted \subseteq proc'[r].omitted
      /\ Carries(r)
  BY Standing DEF Charted, Alone
<1>3. w \in PendingOf(r) /\ proc[r].pc \in InGroup \union {"choose"} =>
         /\ proc[r].pc \in {"attempt", "fetch", "record"}
         /\ w.ref = Ref(r) /\ w.kind = Kind(r) /\ w.run = r
  BY <1>1 DEF InUse, LeftOpen, At, InGroup, Stopped, PendingOf
<1>4. proc'[r].plan = proc[r].plan /\ proc'[r].number = proc[r].number =>
         Ref(r)' = Ref(r) /\ Kind(r)' = Kind(r)
  BY <1>2 DEF Ref, Kind
<1>5. ASSUME NEW a \in AttemptRow, AddsAttempt(r, a), proc[r].pc \in InGroup \union {"choose"}
      PROVE  FALSE
  <2>1. w \in PendingOf(r)
    BY <1>1, <1>5 DEF AddsAttempt
  <2>2. a \in attempts' /\ a.run = w.run /\ a.ref = w.ref /\ a.auth = w.kind
    BY <1>3, <1>5, <2>1 DEF AddsAttempt
  <2>3. Consumed(w)'
    BY <2>2 DEF Consumed
  <2> QED
    BY <2>3 DEF PendingOf
<1>6. CASE MovesOn(r)
  <2>1. /\ w \in PendingOf(r)
        /\ proc'[r].plan = proc[r].plan /\ proc'[r].number = proc[r].number
        /\ proc'[r].ret = proc[r].ret
    BY <1>1, <1>6 DEF MovesOn, SameGroup, NoRow
  <2>2. CASE proc'[r].pc = proc[r].pc
    BY <1>1, <1>2, <1>4, <2>1, <2>2 DEF InUse, LeftOpen, At
  <2>3. CASE proc[r].pc \in {"choose", "group"}
    BY <1>3, <2>1, <2>3 DEF InGroup
  <2>4. CASE At(r, "fetch") /\ proc'[r].pc = "record"
    BY <1>3, <1>4, <2>1, <2>4 DEF InUse, At, InGroup
  <2> QED
    BY <1>6, <2>2, <2>3, <2>4 DEF MovesOn, At
<1>7. CASE Attempts(r)
  <2>1. /\ At(r, "group") /\ proc'[r].pc = "attempt"
        /\ proc'[r].plan = proc[r].plan /\ proc'[r].number = proc[r].number
    BY <1>7 DEF Attempts, SameGroup
  <2>2. w \in auths' \ auths
    BY <1>1, <1>3, <2>1 DEF At, InGroup
  <2>3. proc[r].force /\ w = [run |-> r, ref |-> Ref(r), kind |-> "force", reserved |-> now]
    BY <1>7, <2>2 DEF Attempts, AddsAuth, NoRow
  <2>4. proc[r].number = 1
    BY <1>2, <2>1 DEF Carries, At, FirstOnly
  <2> QED
    BY <1>4, <2>1, <2>3, <2>4 DEF InUse, At, Kind
<1>8. CASE Repeats(r)
  <2>1. /\ At(r, "retry") /\ proc'[r].pc = "attempt"
        /\ proc'[r].plan = proc[r].plan /\ proc'[r].number = 2
    BY <1>8 DEF Repeats
  <2>2. w \in auths' \ auths
    BY <1>1, <1>3, <2>1 DEF At, InGroup
  <2>3. w = [run |-> r, ref |-> Ref(r), kind |-> "retry", reserved |-> now]
    BY <1>8, <2>2 DEF Repeats, AddsAuth
  <2>4. Ref(r)' = Ref(r)
    BY <2>1 DEF Ref
  <2> QED
    BY <2>1, <2>3, <2>4 DEF InUse, At, Kind
<1>9. CASE Begins(r)
  <2>1. /\ At(r, "attempt") /\ proc'[r].pc = "fetch" /\ w \in PendingOf(r)
        /\ proc'[r].plan = proc[r].plan /\ proc'[r].number = proc[r].number
    BY <1>1, <1>9 DEF Begins, NoRow
  <2> QED
    BY <1>3, <1>4, <2>1 DEF InUse, At, InGroup
<1>10. CASE Fails(r)
  BY <1>5, <1>10 DEF Fails, At, InGroup
<1>11. CASE Finishes(r)
  <2>1. CASE NoRow /\ proc[r].pc \in {"choose", "retry"}
    BY <1>1, <1>3, <2>1 DEF NoRow, InGroup
  <2> QED
    BY <1>5, <1>11, <2>1 DEF Finishes, InGroup
<1>12. CASE Leaves(r)
  <2>1. /\ proc[r].pc \in InGroup \union {"choose"}
        /\ proc'[r].pc = "left"
        /\ proc'[r].ret = "ok" => At(r, "choose")
        /\ proc'[r].ret = "interrupt" => Names(PlannedRefs(r)) \subseteq proc'[r].omitted
    BY <1>12 DEF Leaves
  <2>2. w \in PendingOf(r)
    BY <1>1, <1>5, <1>12, <2>1 DEF Leaves, NoRow
  <2>3. proc[r].pc \in InGroup /\ w.ref = Ref(r) /\ ~At(r, "choose")
    BY <1>3, <2>1, <2>2 DEF At, InGroup
  <2>4. Ref(r) \in PlannedRefs(r)
    <3>1. proc[r].plan \in Seq(Refs) /\ proc[r].plan # <<>>
      BY <1>2, <2>3, Standing, ProcessFields DEF Carries
    <3> QED
      BY <3>1 DEF Ref, PlannedRefs
  <2>5. FieldOf[w.ref] \in Names(PlannedRefs(r))
    BY <2>3, <2>4 DEF Names
  <2> QED
    BY <2>1, <2>3, <2>5 DEF LeftOpen, At
<1>13. CASE Dies(r)
  BY <1>13 DEF Dies, Stopped
<1> QED
  BY <1>6, <1>7, <1>8, <1>9, <1>10, <1>11, <1>12, <1>13 DEF Charted, Move

(* Rows are added only for the group at work. *)
LEMMA WorkAdds ==
  ASSUME EngineInv, NEW r \in Runs, Charted(r), attempts' # attempts \/ auths' # auths
  PROVE  AtWork(r) /\ proc[r].pc \in InGroup /\ Ref(r) \in PlannedRefs(r)
<1>1. proc[r].pc \in InGroup
  BY DEF Charted, Move, MovesOn, NoRow, Attempts, AddsAuth, Repeats, Begins, Fails,
         AddsAttempt, Finishes, Leaves, Dies, At, InGroup
<1>2. proc[r].plan \in Seq(Refs) /\ proc[r].plan # <<>>
  BY <1>1, Standing, ProcessFields DEF Carries
<1> QED
  BY <1>1, <1>2 DEF AtWork, Ref, PlannedRefs

(* Where a process may go in one move. *)
LEMMA MoveGoes ==
  ASSUME NEW r \in Runs, Charted(r)
  PROVE  /\ At(r, "ended")' => At(r, "ended")
         /\ At(r, "idle")' <=> At(r, "idle")
         /\ AtWork(r)' => AtWork(r)
         /\ At(r, "left")' => proc'[r].ret # "none" \/ (At(r, "left") /\ proc[r].ret = "none")
<1>1. MovesOn(r) \/ Attempts(r) \/ Repeats(r) \/ Begins(r) \/ Fails(r) \/ Finishes(r)
      \/ Leaves(r) \/ Dies(r)
  BY DEF Charted, Move
<1>2. CASE MovesOn(r)
  BY <1>2 DEF MovesOn, SameGroup, AtWork, At, InGroup
<1>3. CASE Attempts(r) \/ Repeats(r) \/ Begins(r) \/ Fails(r) \/ Finishes(r)
  BY <1>3 DEF Attempts, Repeats, Begins, Fails, Finishes, AtWork, At, InGroup
<1>4. CASE Leaves(r)
  BY <1>4 DEF Leaves, AtWork, At, InGroup
<1>5. CASE Dies(r)
  BY <1>5 DEF Dies, AtWork, At, InGroup, Stopped
<1> QED
  BY <1>1, <1>2, <1>3, <1>4, <1>5

(* Nothing of a request is written: its process, its run and its rows stay   *)
(* as they are.                                                              *)
Untouched(q) ==
    /\ proc'[q] = proc[q] /\ runs'[q] = runs[q]
    /\ \A a : a.run = q => (a \in attempts' <=> a \in attempts)
    /\ \A w : w.run = q => (w \in auths' <=> w \in auths)
    /\ \A s : s.run = q => (s \in snapshots' <=> s \in snapshots)

LEMMA OthersUntouched ==
  ASSUME NEW r \in Runs, (Charted(r) /\ Adds(r)) \/ Handles(r), NEW q \in Runs \ {r}
  PROVE  Untouched(q)
<1>1. CASE Charted(r) /\ Adds(r)
  BY <1>1 DEF Charted, Alone, Adds, Untouched
<1>2. CASE Handles(r)
  BY <1>2 DEF Handles, Untouched
<1> QED
  BY <1>1, <1>2

LEMMA ClockUntouched ==
  ASSUME ClockOnly, NEW q \in Runs
  PROVE  Untouched(q)
  BY DEF ClockOnly, Untouched

LEMMA UntouchedWork ==
  ASSUME NEW q \in Runs, Untouched(q)
  PROVE  /\ PendingOf(q)' = PendingOf(q)
         /\ \A ref : Audited(q, ref)' = Audited(q, ref)
         /\ \A S : Progress(q, S)' = Progress(q, S) /\ Reserved(q, S)' = Reserved(q, S)
         /\ Terminal(q)' = Terminal(q) /\ Running(q)' = Running(q) /\ Deadline(q)' = Deadline(q)
<1>1. PendingOf(q)' = PendingOf(q)
  <2>1. \A w : w.run = q => Consumed(w)' = Consumed(w)
    BY DEF Consumed, Untouched
  <2> QED
    BY <2>1 DEF PendingOf, Untouched
<1>2. \A ref : Audited(q, ref)' = Audited(q, ref)
  BY DEF Audited, AttemptsOf, Untouched
<1>3. PlannedRefs(q)' = PlannedRefs(q) /\ AtWork(q)' = AtWork(q) /\ proc'[q] = proc[q]
  BY DEF PlannedRefs, AtWork, At, Untouched
<1>4. \A w : InUse(q, w)' = InUse(q, w) /\ LeftOpen(q, w)' = LeftOpen(q, w)
  BY DEF InUse, LeftOpen, At, Ref, Kind, Untouched
<1>5. ASSUME NEW S PROVE Progress(q, S)' = Progress(q, S)
  BY <1>2, <1>3 DEF Progress
<1>6. ASSUME NEW S PROVE Reserved(q, S)' = Reserved(q, S)
  BY <1>1, <1>3, <1>4 DEF Reserved
<1>7. Terminal(q)' = Terminal(q) /\ Running(q)' = Running(q) /\ Deadline(q)' = Deadline(q)
  BY DEF Terminal, Running, Deadline, Untouched
<1> QED
  BY <1>1, <1>2, <1>5, <1>6, <1>7

(* What a request that was not begun has on record. *)
LEMMA NothingYet ==
  ASSUME EngineInv, NEW r \in Runs, runs[r].status = "absent"
  PROVE  /\ \A ref : AttemptsOf(r, ref) = {}
         /\ PendingOf(r) = {}
         /\ \A a \in attempts : a.run # r
         /\ \A w \in auths : w.run # r
<1>1. \A a \in attempts : a.run # r
  BY DEF EngineInv, OnRecord
<1>2. \A w \in auths : w.run # r
  BY DEF EngineInv, OnRecord
<1> QED
  BY <1>1, <1>2 DEF AttemptsOf, PendingOf

-----------------------------------------------------------------------------
(* The command line.                                                         *)

LEMMA CliUntouched ==
  ASSUME NEW q \in Runs, CliProcess(q), Untouched(q)
  PROVE  CliProcess(q)'
  BY UntouchedWork DEF CliProcess, Untouched, At

LEMMA CliServes ==
  ASSUME EngineInv, NEW r \in Runs, CliProcess(r), Charted(r)
  PROVE  CliProcess(r)'
<1>1. Adds(r)
  BY MoveAdds
<1>2. runs' = runs /\ snapshots' = snapshots
  BY DEF Charted, Alone
<1>3. /\ Terminal(r)' = Terminal(r) /\ Deadline(r)' = Deadline(r)
      /\ \A ref : Audited(r, ref) => Audited(r, ref)'
  BY <1>2, PendingAfter DEF Terminal, Deadline
<1>4. Progress(r, PlanRefs)' /\ Reserved(r, PlanRefs)'
  BY ServesProgress, ServesReserved DEF CliProcess
<1>5. \A w \in auths' : w.run = r => w.ref \in PlanRefs
  <2> SUFFICES ASSUME NEW w \in auths' \ auths PROVE w.ref \in PlanRefs
    BY DEF CliProcess
  <2>1. w.ref = Ref(r)
    BY <1>1 DEF Adds
  <2>2. AtWork(r) /\ Ref(r) \in PlannedRefs(r)
    BY WorkAdds
  <2> QED
    BY <2>1, <2>2 DEF CliProcess, Progress
<1> QED
  BY <1>2, <1>3, <1>4, <1>5, MoveGoes DEF CliProcess

LEMMA StartRequestStep ==
  ASSUME EngineInv, NEW r \in Runs, NEW mode \in Modes, NEW force \in BOOLEAN,
         StartRequest(r, mode, force)
  PROVE  /\ Handles(r)
         /\ (\A s \in snapshots : s.run # r) => CliProcess(r)'
<1> DEFINE new == [proc[r] EXCEPT !.pc = "choose", !.plan = Plan, !.force = force]
           row == [status |-> "running", mode |-> mode, started |-> now,
                   finished |-> NoTime, omitted |-> {}]
<1>1. /\ At(r, "idle")
      /\ BeginRequest(r, mode, now)
      /\ proc' = [proc EXCEPT ![r] = new]
      /\ UNCHANGED <<now, cache, contacts>>
  BY DEF StartRequest
<1>2. /\ proc \in [Runs -> Process] /\ proc[r] \in Process
      /\ runs \in [Runs -> RunRow] /\ now \in Times
      /\ runs[r].status = "absent"
      /\ proc[r].number = 1 /\ proc[r].ret = "none" /\ \A s \in Sections : ~Sees(r, s)
  BY <1>1, Standing
  DEF SyncTypeOK, TypeOK, Lives, Carries, At, FirstOnly, InAttempt, Sees
<1>3. new \in Process
  BY <1>2, PlanAssumption DEF Process, Pcs
<1>4. /\ new.pc = "choose" /\ new.plan = Plan /\ new.number = 1 /\ new.ret = "none"
      /\ new.seen = proc[r].seen
  BY <1>2 DEF Process
<1> HIDE DEF new
<1>5. proc' \in [Runs -> Process] /\ proc'[r] = new /\ \A q \in Runs \ {r} : proc'[q] = proc[q]
  BY <1>1, <1>2, <1>3
<1>6. /\ UNCHANGED <<attempts, auths, snapshots, budget>>
      /\ runs'[r] = row /\ \A q \in Runs \ {r} : runs'[q] = runs[q]
      /\ row.status = "running" /\ row.started = now
  BY <1>1, <1>2 DEF BeginRequest
<1> HIDE DEF row
<1>7. Next
  BY <1>1, <1>2 DEF Next
<1>8. /\ \A ref : AttemptsOf(r, ref) = {}
      /\ PendingOf(r) = {}
      /\ \A w \in auths : w.run # r
  BY <1>1, <1>2, NothingYet
<1>9. PlannedRefs(r)' = PlanRefs
  BY <1>4, <1>5 DEF PlannedRefs, PlanRefs
<1>10. Distinct(Plan)
  BY PlanAssumption DEF Distinct
<1>11. BeginsRun(r)
  BY <1>1, <1>4, <1>5, <1>6 DEF BeginsRun
<1>12. Handles(r)
  BY <1>1, <1>2, <1>4, <1>5, <1>6, <1>7, <1>8, <1>10, <1>11 DEF Handles, Sees
<1>13. ASSUME \A s \in snapshots : s.run # r
       PROVE  CliProcess(r)'
  <2>1. PendingOf(r)' = {}
    BY <1>6, <1>8 DEF PendingOf, Consumed
  <2>2. Progress(r, PlanRefs)'
    BY <1>9 DEF Progress
  <2>3. Reserved(r, PlanRefs)'
    BY <2>1 DEF Reserved
  <2>4. \A s \in snapshots' : s.run # r
    BY <1>6, <1>13
  <2> QED
    BY <1>4, <1>5, <1>6, <1>8, <2>2, <2>3, <2>4 DEF CliProcess, At, Terminal, TerminalStatuses
<1> QED
  BY <1>12, <1>13

LEMMA FinalTyped ==
  ASSUME EngineInv, NEW r \in Runs
  PROVE  /\ FinalStatus(r) \in TerminalStatuses /\ FinalOmitted(r) \in SUBSET FieldIds
         /\ \A i \in DOMAIN Plan : FieldOf[Plan[i]] \in Names(PlanRefs)
<1>1. proc[r].omitted \in SUBSET FieldIds
  BY ProcessFields DEF EngineInv
<1>2. PlanRefs \subseteq Refs
  BY PlanAssumption DEF PlanRefs
<1>3. Names(PlanRefs) \in SUBSET FieldIds
  BY <1>2, AuditAssumption DEF Names
<1>4. FinalStatus(r) \in TerminalStatuses
  BY DEF FinalStatus, OutcomeStatus, ResultStatus, TerminalStatuses
<1> QED
  BY <1>1, <1>3, <1>4 DEF FinalOmitted, Names, PlanRefs

(* The store accepts what the command line asks for at the end: each         *)
(* reservation it leaves open is among the omitted work, and then the        *)
(* request is not reported complete.                                         *)
LEMMA ConclusionAccepted ==
  ASSUME EngineInv, NEW r \in Runs, CliProcess(r), At(r, "left")
  PROVE  FinishAdmissible(r, FinalStatus(r), now, FinalOmitted(r), snapshots)
<1>1. EngineInv /\ CliProcess(r)
  OBVIOUS
<1>2. Running(r) /\ runs[r].started <= now
  BY <1>1, Standing DEF Lives, At, Stopped, Running
<1>3. ASSUME NEW w \in PendingOf(r)
      PROVE  FinalStatus(r) # "complete" /\ FieldOf[w.ref] \in FinalOmitted(r)
  <2>1. w \in auths /\ w.run = r
    BY DEF PendingOf
  <2>2. w.ref \in PlanRefs
    BY <1>1, <2>1 DEF CliProcess
  <2>3. LeftOpen(r, w)
    BY <1>1, <2>2 DEF CliProcess, Reserved, InUse, At, Stopped
  <2>4. proc[r].ret \in {"budget", "error", "interrupt"}
    BY <1>1, <2>3, ProcessFields DEF LeftOpen, CliProcess, EngineInv
  <2>5. FinalStatus(r) # "complete"
    BY <2>4 DEF FinalStatus, OutcomeStatus
  <2>6. FieldOf[w.ref] \in Names(PlanRefs)
    BY <2>2 DEF Names
  <2> QED
    BY <2>3, <2>4, <2>5, <2>6 DEF LeftOpen, FinalOmitted
<1>4. \A a \in attempts : a.run = r => a.finished <= now
  BY <1>1 DEF EngineInv, OnRecord
<1>5. \A s \in snapshots : s.run = r => s.created <= now
  BY <1>1 DEF CliProcess
<1> QED
  BY <1>2, <1>3, <1>4, <1>5 DEF FinishAdmissible

LEMMA ConcludeStep ==
  ASSUME EngineInv, NEW r \in Runs, CliProcess(r), Conclude(r)
  PROVE  Handles(r) /\ CliProcess(r)'
<1> DEFINE status == FinalStatus(r)
           omitted == FinalOmitted(r)
<1>1. /\ At(r, "left") /\ Go(r, "ended")
      /\ UNCHANGED <<attempts, auths, snapshots, budget, now, cache, contacts>>
  BY DEF Conclude
<1>2. FinishAdmissible(r, status, now, omitted, snapshots)
  BY <1>1, ConclusionAccepted
<1>3. runs' = Finished(r, status, now, omitted)
  BY <1>2 DEF Conclude
<1>4. status \in TerminalStatuses /\ omitted \in SUBSET FieldIds
  BY FinalTyped
<1>5. status = "complete" => \A ref \in PlanRefs : Audited(r, ref)
  <2>1. ASSUME status = "complete" PROVE proc[r].ret = "ok" /\ proc[r].omitted = {}
    BY <2>1 DEF FinalStatus, OutcomeStatus, ResultStatus
  <2>2. ASSUME proc[r].ret = "ok" PROVE PlannedRefs(r) = {}
    <3>1. proc[r].plan = <<>>
      BY <1>1, <2>2, Standing DEF Carries
    <3> QED
      BY <3>1 DEF PlannedRefs
  <2> QED
    BY <1>1, <2>1, <2>2 DEF CliProcess, Progress, AtWork
<1>6. now >= Deadline(r) => status = "expired"
  BY DEF FinalStatus
<1> HIDE DEF status, omitted
<1>7. FinalizeRequest(r, status, now, omitted)
  BY <1>1, <1>2, <1>3 DEF FinalizeRequest
<1>8. now \in Times /\ SyncTypeOK /\ TypeOK /\ now \in Nat
  BY <1>1, Standing
<1>9. Next
  BY <1>4, <1>7, <1>8 DEF Next
<1>10. /\ runs'[r].status = status /\ runs'[r].finished = now
       /\ \A q \in Runs : q # r => runs'[q] = runs[q]
  BY <1>3, <1>4, <1>8, FinishedTyped
<1>11. runs'[r].started = runs[r].started /\ runs'[r].mode = runs[r].mode
  BY <1>3, <1>8 DEF Finished, TypeOK, RunRow
<1>12. /\ proc' \in [Runs -> Process]
       /\ \A q \in Runs \ {r} : proc'[q] = proc[q]
       /\ proc'[r].pc = "ended"
       /\ SameGroup(r)
       /\ proc'[r].force = proc[r].force /\ proc'[r].seen = proc[r].seen
  BY <1>1, <1>8, GoFields DEF Pcs
<1>13. /\ Carries(r) /\ Fresh(r)
  BY <1>1, Standing
<1>14. Handles(r)
  <2>1. EndsRun(r)
    BY <1>4, <1>10, <1>11, <1>12 DEF EndsRun
  <2>2. proc'[r].number = 1 /\ Distinct(proc'[r].plan) /\ \A s \in Sections : ~Sees(r, s)'
    BY <1>1, <1>12, <1>13 DEF SameGroup, Carries, Fresh, At, FirstOnly, Sees, InAttempt
  <2> QED
    BY <1>1, <1>9, <1>10, <1>12, <2>1, <2>2 DEF Handles
<1>15. CliProcess(r)'
  <2>1. Deadline(r)' = Deadline(r) /\ Terminal(r)'
    BY <1>4, <1>10, <1>11 DEF Deadline, Terminal
  <2>2. \A ref : Audited(r, ref)' = Audited(r, ref)
    BY <1>1 DEF Audited, AttemptsOf
  <2>3. Progress(r, PlanRefs)' /\ Reserved(r, PlanRefs)'
    BY <1>12 DEF Progress, AtWork, Reserved, At, InGroup, Stopped
  <2> QED
    BY <1>1, <1>5, <1>6, <1>10, <1>12, <2>1, <2>2, <2>3 DEF CliProcess, At
<1> QED
  BY <1>14, <1>15

LEMMA OutcomeInterruptedStep ==
  ASSUME EngineInv, NEW r \in Runs, CliProcess(r), OutcomeInterrupted(r)
  PROVE  Handles(r) /\ CliProcess(r)'
<1> DEFINE new == [proc[r] EXCEPT !.ret = "interrupt", !.why = Reason(r, "other"),
                                  !.omitted = Names(PlanRefs)]
<1>1. /\ At(r, "left") /\ proc[r].ret = "ok" /\ Close(r)
      /\ proc' = [proc EXCEPT ![r] = new]
      /\ UNCHANGED <<tables, now, cache, contacts>>
  BY DEF OutcomeInterrupted
<1>2. SyncTypeOK /\ proc \in [Runs -> Process] /\ proc[r] \in Process
  BY DEF EngineInv, SyncTypeOK
<1>3. Reason(r, "other") \in {"none", "expiry", "other"}
  BY <1>2, ReasonTyped
<1>4. Names(PlanRefs) \in SUBSET FieldIds
  BY PlanAssumption, AuditAssumption DEF Names, PlanRefs
<1>5. new \in Process
  BY <1>2, <1>3, <1>4 DEF Process
<1>6. /\ new.pc = "left" /\ new.ret = "interrupt" /\ new.plan = proc[r].plan
      /\ new.number = proc[r].number /\ new.seen = proc[r].seen /\ new.force = proc[r].force
      /\ new.omitted = Names(PlanRefs)
  BY <1>1, <1>2 DEF Process, At
<1> HIDE DEF new
<1>7. proc' \in [Runs -> Process] /\ proc'[r] = new /\ \A q \in Runs \ {r} : proc'[q] = proc[q]
  BY <1>1, <1>2, <1>5
<1>8. Running(r) /\ Carries(r) /\ Fresh(r)
  BY <1>1, Standing DEF Lives, At, Stopped
<1>9. Next
  BY <1>1, <1>8, CloseIsNext
<1>10. Handles(r)
  <2>1. proc'[r].number = 1 /\ Distinct(proc'[r].plan) /\ \A s \in Sections : ~Sees(r, s)'
    BY <1>1, <1>6, <1>7, <1>8 DEF Carries, Fresh, At, FirstOnly, Sees, InAttempt
  <2> QED
    BY <1>1, <1>6, <1>7, <1>9, <2>1 DEF Handles, tables
<1>11. CliProcess(r)'
  <2>1. \A ref : Audited(r, ref)' = Audited(r, ref)
    BY <1>1 DEF Audited, AttemptsOf, tables
  <2>2. Progress(r, PlanRefs)'
    BY <1>1, <1>6, <1>7 DEF Progress, AtWork, At, InGroup
  <2>3. Reserved(r, PlanRefs)'
    <3>1. \A ref \in PlanRefs : FieldOf[ref] \in Names(PlanRefs)
      BY DEF Names
    <3> QED
      BY <1>1, <1>6, <1>7, <3>1 DEF Reserved, LeftOpen, PendingOf, Consumed, At, tables
  <2>4. Terminal(r)' = Terminal(r) /\ Deadline(r)' = Deadline(r)
    BY <1>1 DEF Terminal, Deadline, tables
  <2> QED
    BY <1>1, <1>6, <1>7, <2>1, <2>2, <2>3, <2>4 DEF CliProcess, At, tables
<1> QED
  BY <1>10, <1>11

LEMMA CliInitInv == SyncInit => CliInv
<1> SUFFICES ASSUME SyncInit PROVE CliInv
  OBVIOUS
<1>1. EngineInv
  BY SyncInitInv
<1>2. ASSUME NEW r \in Runs PROVE CliProcess(r)
  <2>1. /\ runs[r].status = "absent" /\ auths = {} /\ snapshots = {}
        /\ proc[r].pc = "idle"
    BY DEF SyncInit, Init
  <2> QED
    BY <2>1 DEF CliProcess, Progress, Reserved, AtWork, At, InGroup, Stopped, Terminal,
                TerminalStatuses
<1> QED
  BY <1>1, <1>2 DEF CliInv

LEMMA CliNextInv == CliInv /\ [CliNext]_syncVars => CliInv' /\ [Next]_vars
<1> SUFFICES ASSUME CliInv, [CliNext]_syncVars PROVE CliInv' /\ [Next]_vars
  OBVIOUS
<1>1. EngineInv /\ \A q \in Runs : CliProcess(q)
  BY DEF CliInv
<1>2. CASE Tick \/ UNCHANGED syncVars
  <2>1. ClockOnly
    BY <1>1, <1>2, TickIsClock
  <2>2. EngineInv' /\ \A q \in Runs : CliProcess(q)'
    BY <1>1, <2>1, ClockInv, ClockUntouched, CliUntouched
  <2> QED
    BY <2>1, <2>2 DEF CliInv, ClockOnly, vars
<1>3. ASSUME NEW r \in Runs, Serves(r)
      PROVE  CliInv' /\ [Next]_vars
  <2>1. Charted(r) /\ Adds(r) /\ EngineInv'
    BY <1>1, <1>3, ServesCharted, MoveAdds, ServesInv
  <2>2. CliProcess(r)' /\ \A q \in Runs \ {r} : CliProcess(q)'
    BY <1>1, <2>1, CliServes, OthersUntouched, CliUntouched
  <2> QED
    BY <2>1, <2>2 DEF CliInv, Charted
<1>4. ASSUME NEW r \in Runs, Handles(r), CliProcess(r)'
      PROVE  CliInv' /\ [Next]_vars
  <2>1. EngineInv' /\ [Next]_vars
    BY <1>1, <1>4, HandlesInv DEF Handles
  <2>2. \A q \in Runs \ {r} : CliProcess(q)'
    BY <1>1, <1>4, OthersUntouched, CliUntouched
  <2> QED
    BY <1>4, <2>1, <2>2 DEF CliInv
<1>5. ASSUME NEW r \in Runs, NEW mode \in Modes, NEW force \in BOOLEAN,
             StartRequest(r, mode, force)
      PROVE  CliInv' /\ [Next]_vars
  BY <1>1, <1>4, <1>5, StartRequestStep DEF CliProcess
<1>6. ASSUME NEW r \in Runs, Conclude(r)
      PROVE  CliInv' /\ [Next]_vars
  BY <1>1, <1>4, <1>6, ConcludeStep
<1>7. ASSUME NEW r \in Runs, OutcomeInterrupted(r)
      PROVE  CliInv' /\ [Next]_vars
  BY <1>1, <1>4, <1>7, OutcomeInterruptedStep
<1>8. CASE CliNext
  BY <1>2, <1>3, <1>5, <1>6, <1>7, <1>8 DEF CliNext, CliStep, CliDisrupt, CommandCut, Serves
<1> QED
  BY <1>2, <1>8

-----------------------------------------------------------------------------
(* The theorems of the command line.                                         *)

(* The invariant of CliSpec: the audit store, the engine and the command.    *)
THEOREM CliInvariance == CliSpec => []CliInv
  BY CliInitInv, CliNextInv, PTL DEF CliSpec

(* The command only uses the audit store as its operations allow: every      *)
(* behaviour of CliSpec is one of RequestAudit, whose theorems hold of it.   *)
THEOREM CliUsesAudit == CliSpec => Spec
<1>1. SyncInit => Init
  BY DEF SyncInit
<1> QED
  BY <1>1, CliInitInv, CliNextInv, PTL DEF CliSpec, Spec

(* The store accepts the finalization the command asks for, however the      *)
(* engine returned or raised, whatever it left reserved and however late it  *)
(* is: a command that comes to its end has ended its request.  One that is   *)
(* killed, or cut off by an exception that meets the finalization itself,    *)
(* does not come to its end, and leaves the request running.                 *)
THEOREM CliEndsTerminal == CliSpec => []EndedIsTerminal
<1>1. CliInv => EndedIsTerminal
  BY DEF CliInv, CliProcess, EndedIsTerminal
<1> QED
  BY <1>1, CliInvariance, PTL

(* A request reported complete has an audited answer of its own for every    *)
(* field it was asked for.                                                   *)
THEOREM CliCompleteIsAudited == CliSpec => []CompleteMeansAudited
<1>1. CliInv => CompleteMeansAudited
  BY DEF CliInv, CliProcess, CompleteMeansAudited, Audited
<1> QED
  BY <1>1, CliInvariance, PTL

(* A request that ends at its deadline or later is reported expired.         *)
THEOREM CliLateIsExpired == CliSpec => []LateMeansExpired
<1>1. CliInv => LateMeansExpired
  BY DEF CliInv, CliProcess, LateMeansExpired
<1> QED
  BY <1>1, CliInvariance, PTL

(* What the section cache holds was committed with the attempt that fetched  *)
(* it, and never with one that came too late.                                *)
THEOREM CliPublishedWithAudit == CliSpec => []PublishedWithAudit
<1>1. CliInv => PublishedWithAudit
  BY DEF CliInv, EngineInv
<1> QED
  BY <1>1, CliInvariance, PTL

(* An ordinary request begun after another had ended leaves a source alone   *)
(* until the cooldown its last answer asked for is over.                     *)
THEOREM CliHonoursCooldown == CliSpec => []SequentialRequestsHonourCooldown
<1>1. CliInv => SequentialRequestsHonourCooldown
  BY DEF CliInv, EngineInv
<1> QED
  BY <1>1, CliInvariance, PTL

(* Only the transaction of a group writes sections.                          *)
LEMMA OnlyCommitsPublish ==
  ASSUME NEW r \in Runs, Serves(r), cache' # cache
  PROVE  CommitAttempt(r)
<1>1. ~Disrupt(r)
  BY DEF Disrupt, FetchInterrupted, StopFetching, Interrupt, Fault, Abort, Crash
<1>2. ~BudgetPasses(r) /\ ~CutOff(r)
  BY DEF BudgetPasses, CutOff
<1>3. EngineStep(r)
  BY <1>1, <1>2 DEF Serves
<1> QED
  BY <1>3
  DEF EngineStep, ReturnResult, EnterGroup, OmitGroup, AskTooLate, ForceGroup, ReadHealth,
      RecordCacheHit, RecordCooldownSkip, BeginAttempt, FetchSection, FetchTooLate,
      StopFetching, FetchDone, CommitTooLate, CommitUnpublishable, RecordTooLate,
      RetryDenied, RetryGranted

LEMMA CommitPublishesOpen ==
  ASSUME EngineInv, NEW r \in Runs, CommitAttempt(r), NEW s \in Sections, cache'[s] # cache[s]
  PROVE  budget[cache'[s].run] = "open" /\ Running(cache'[s].run)
<1>1. cache' = WrittenBy(r) /\ MayCommit(r) /\ At(r, "record")
  BY DEF CommitAttempt, Attempted
<1>2. cache'[s].run = r
  BY <1>1 DEF WrittenBy
<1>3. Running(r)
  BY <1>1, Standing DEF Lives, At, Stopped
<1> QED
  BY <1>1, <1>2, <1>3 DEF MayCommit

(* Once the budget of a request is closed, or the request has ended, it      *)
(* writes no section any more.                                               *)
THEOREM CliClosedPublishesNothing == CliSpec => NothingPublishedAfterClose
<1>1. CliInv /\ [CliNext]_syncVars =>
        [\A s \in Sections : cache'[s] # cache[s] =>
            budget[cache'[s].run] = "open" /\ Running(cache'[s].run)]_syncVars
  <2> SUFFICES ASSUME CliInv, CliNext, NEW s \in Sections, cache'[s] # cache[s]
               PROVE  budget[cache'[s].run] = "open" /\ Running(cache'[s].run)
    OBVIOUS
  <2>1. PICK r \in Runs : Serves(r)
    BY DEF CliNext, Tick, StartRequest, CliStep, Conclude, CliDisrupt, OutcomeInterrupted,
           CommandCut, Serves
  <2> QED
    BY <2>1, OnlyCommitsPublish, CommitPublishesOpen DEF CliInv
<1> QED
  BY <1>1, CliInvariance, PTL DEF CliSpec, NothingPublishedAfterClose
=============================================================================
