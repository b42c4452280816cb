# A TLA+ model of Kunjin

Kunjin is a local research assistant for public funds. One Python process per
command reads a SQLite database shared by all commands, fetches public
disclosures through short-lived worker processes, and writes what it found
together with an append-only audit of every attempt. This directory models the
part of it where ordering, deadlines, interruptions and partial failure matter:
the life of a *request*, from its budget through the audit of its attempts and
the worker processes that make them to the brief it publishes; the personal
*ledger*, where several commands share files and tables; and the two places
where a result must rest on something that other commands replace while it is
computed: *assessments* of the owner's profile, and *classifications* of a fund
by its official documents.

## 1. The system

| part | state | operations | hard because of |
|---|---|---|---|
| Request budget (`decision/budget.py`) | last monotonic reading, cancelled, reason | `worker_seconds`, `require_publishable`, `cancel` | clocks that go back or fail, repeated cancellation, boundaries |
| Decision audit store (`decision/store.py`, schema V14, V15) | `request_runs`, `source_attempts`, `source_work_authorizations`, `decision_snapshots` | begin, record attempt, reserve force group, reserve retry, save snapshot, finalize | callers in any order, several processes, late calls, one-time authorizations |
| Source health (`decision/health.py`) | none; reads the audit | state of a field, cooldown, force and retry permission | what is read may be stale when it is used |
| Disclosure service (`funds/service.py`, `funds/store.py`) | the section cache | bounded synchronisation of groups of sections | deadline and Ctrl-C at every step, partial failure, atomic publication |
| Worker parent (`decision/worker.py`) | one child process per exchange | frames, deadline, process-group clean-up | a child that survives, an answer that races the deadline |
| `fund sync-*` commands (`cli.py`) | one request | begin, run the engine, decide status, finalize | every way the engine may end |
| Held fund brief (`brief/service.py`, `brief/store.py`) | stages completed, omitted work, `fund_brief_snapshots` | stages, publication, finalization without a brief | interruption between stages, overlapping briefs |
| Portfolio sync (`services/sync.py`, `brief/portfolio.py`, `storage/repository.py`) | `sync_runs`, snapshots, observations | begin, commit, fail, latest | overlapping synchronisations |
| Ledger (`ledger/`) | managed image files and the tables of documents, drafts, transactions | import, confirm, delete | files and database are two stores; what a command read before its transaction may have changed |
| Suitability (`suitability/`) | versions of the profile, one of them active; assessments bound to one | confirm, invalidate, assess, status, authenticated snapshot | a profile that is replaced, or expires, while it is assessed; clocks read before the transaction |
| Allocation (`allocation/`) | ranges bound to an assessment | ranges, status, history | two snapshots of another service around each answer |
| Fund risk documents (`funds/risk/service.py`, `store.py`, `selection.py`) | document refreshes, their selection and candidate runs, artifacts, classifications | sync documents, classify, current classification | evidence that is read piece by piece while other commands write it; a refresh that never completes |
| Intelligence, deep review (`intelligence/`, `holding_review/`) | append-only items, transitions, adjudications, reviews | publish, adjudicate, expire | stale references, append-only histories |
| Routing and policy (`decision/routing.py`, `decision/service.py`, `decision/policy.py`) | none | pure decisions | exhaustive combinations |
| Schema migration (`storage/`) | recorded version | migrate | many versions, in one transaction |

How they interact: a command creates a budget and a row of `request_runs`, and
hands both to the engine as a `SourceRequestContext`. The engine asks source
health (which reads the audit of *all* requests) whether a field may be polled,
has a worker fetch each section while the budget grants seconds, and commits the
sections of a field and the attempt that fetched them in one transaction that
asks the budget a last time. The command turns what came back, or what was
raised, into a terminal status and the list of omitted work, and the audit store
refuses a terminal row that contradicts the history.

`assess` reads a clock, loads the active profile and stores a row only if that
profile is still the active one; `ranges` loads an authenticated snapshot from
the suitability service, evaluates it, stores a range under bindings checked in
the same transaction, and loads the snapshot again before it answers. `classify`
collects its evidence (the newest refresh, the disclosure sections, the NAV
history) several times: before anything, before the insert, after it and before it
answers; nothing but the comparison of the collections protects it from the
commands that write the sources.

What makes the parts correct, and where it is stated:

* a budget never grants anything after it refused a publication, and keeps its
  first reason (`RefusalIsFinal`, `FirstReasonWins`, `ImplementsBudgetPhase`);
* authorizations are spent once and in order, forced and ordinary work exclude
  each other, a terminal request is settled (`AuditInv`,
  `RetryFollowsTransientFailure`, `ForceExcludesOrdinary`,
  `TerminalAccountsForReservations`, `TerminalClosesHistory`, `TerminalIsFrozen`);
* nothing is cached without its audit, nor after the deadline
  (`PublishedWithAudit`, `NothingPublishedAfterClose`);
* a command asks for an end of its request that the store accepts, with a status
  that does not claim more than was done, and returns (`EndedIsTerminal`,
  `RequestEnds`, `CompleteMeansAudited`, `LateMeansExpired`);
* a call of a worker leaves no process behind without saying so, unless Ctrl-C
  falls where the code has no guard, uses an answer
  only once the worker is gone and the budget agrees, tells failures of a source
  from failures of the request, and ends (`NothingLeftBehind`,
  `ResultAfterReap`, `ImplementsWorkerCall`, `CallEnds`);
* a source that asked to be left alone is (`SequentialRequestsHonourCooldown`);
* a brief, its snapshot and the end of its request are one event, and briefs
  appear in the order of their facts (`BriefEndsItsRequest`,
  `CompleteBriefHasEveryField`, `BriefsInOrder`);
* seen from outside, whatever runs at once and however it is disrupted, requests
  only begin, try their own fields at most twice with what a try brings to the
  cache, and end, complete only with every answer (`ImplementsPromise`);
* a draft of the ledger is booked once and as it was confirmed, what is booked
  stays, and documents and their private copies agree
  (`OneTransactionPerDraft`, `BookedAsConfirmed`, `ConfirmedIsFinal`,
  `CopyIsAccountedFor`, `ActiveHasCopy`);
* no answer is called fresh after its profile was replaced, and what is stored
  can be authenticated ever after (`FreshMeansUndisturbed`,
  `RangesStayAuthentic`, `OneRowPerFingerprint`, `OnlyEarlyRowsAreRefused`);
* a classification rests on evidence that existed at one instant and is answered
  only if nothing of it changed, and a refresh says truly how it ended
  (`EvidenceIsNeverMixed`, `AnswersAreUndisturbed`, `OutcomeAccountsForRuns`,
  `CompletedIsReadable`).

## 2. The modules

    PhaseOrder      the order of the phases of a budget: open, draining, closed
    BudgetPhase     abstract: a budget is a one-way walk through the phases
    RequestBudget   decision/budget.py; implements BudgetPhase
    RequestAudit    decision/store.py with the triggers and constraints of its tables
    WorkerCall      abstract: what a call of a worker promises to its caller
    FramedWorker    EXTENDS RequestBudget: the parent in decision/worker.py;
                    implements WorkerCall
    DisclosureSync  EXTENDS RequestAudit: the engine of funds/service.py
    CliSync         EXTENDS DisclosureSync: fund sync-profile and sync-holdings
    BriefSync       EXTENDS DisclosureSync: brief_outcome and the publication of a brief
    RequestPromise  abstract: what requests promise to whoever reads the database
    SyncSystem      EXTENDS CliSync, BriefSync: any mix of both over one database;
                    implements RequestPromise
    Ledger          ledger/service.py over ledger/store.py
    ProfileAssessment  suitability/service.py over suitability/store.py
    AllocationRange EXTENDS ProfileAssessment: allocation/service.py, allocation/store.py
    DocumentRefresh funds/risk/service.py over funds/risk/store.py and selection.py
    *Proofs         the theorems of RequestBudget, RequestAudit, FramedWorker, Ledger,
                    AllocationRange, DocumentRefresh; DisclosureSyncProofs of the
                    engine and CliSync, SyncSystemProofs of BriefSync and SyncSystem
    MC*             instances for TLC

**RequestBudget.** The variables are the fields of `RequestBudget`; `granted`
and `refused` are history. Each action is one call with the reading the
monotonic clock returns to it, which may be any member of `Readings` or
`NoReading` (an exception, a NaN). Seconds are whole numbers.

**FramedWorker.** `pc` is where the parent is in `_run_framed_worker`; `child` is
the worker, the rest of its process group and its pipe. Every question to the
budget is one of RequestBudget's, asked at the monotonic clock `now`, which
passes at any moment, or answered by a broken clock (`Faulty`). A broken clock
is one that can be told to be broken: it fails, or reads before the start. The
worker writes a good, a bad, another request's or an oversized frame, forks,
ignores SIGTERM and exits as it likes; the frames themselves and the program of
the worker are not modelled. A system call may fail and an exception may be
raised at every step of the parent. A process that leaves
its group (`setsid`) is out of the parent's reach and of the model's.
`WorkerState` and `Verdict` map the detailed state to that of WorkerCall.
Where the code has no guard, Ctrl-C leaves the call at once (`RaiseInGap`), and
`gap` says where that was: between the return of `Popen` and the `try`
(`exchange`), in the handlers after the exchange or between the two `try`
statements, `worker.py:450-470` (`close`), between the guarded calls of
`_finalize_process_group` or in one of its handlers (`term`, `kill`, `reap`),
and after it (`verdict`). `NothingLeftBehind` says what may be left in each:
anything before the group was sent SIGKILL, afterwards at most a worker nobody
has reaped, and nothing once it is, unless the report of a failed clean-up is
what was interrupted. An exception during the cancellation that follows a
failed clean-up (`cancel`) is caught, but leaves the request open, which
`ImplementsWorkerCall` allows for.

**RequestAudit.** One set or function per table. Every operation of the store is
one `BEGIN IMMEDIATE` transaction, hence one action; a call whose checks raise
changes nothing, hence is not enabled. A check that the code makes and a
trigger repeats appears once. Ids that SQLite chooses are replaced by the natural
key of a row. Checksums of the registry and of the policy, which bind rows to
constants of a release, are left out. `budget` is the phase of the request's
budget as `BudgetPhase` describes it; it follows the monotonic clock, while the
instants of the rows come from the wall clock, and nothing in the code ties the
two together, so the model does not either. A failed request may be finalized at
its deadline before the wall clock is there (`FinalizeRequest` at `Deadline(r)`),
so `finished` is no instant of the clock. The snapshot and the end of a request
that a brief writes on one connection are one action, `SaveAndFinalize`.

**DisclosureSync.** `proc[r]` holds the local variables of the process that
serves request `r`; its `pc` is a point between two reads or writes of something
shared (the database, a clock, the budget, a worker). `choose` is the loop of
`_sync_bounded`; `group` the start of `_sync_bounded_group`; `hit` and `skip`
the answers of source health that need another reading of the clock; `attempt`,
`fetch` and `record` are `_execute_bounded_attempt`; `retry` is `retry_allowed`.
`left` is where the engine has returned or raised (`ret`), and the caller takes
over. What a source answers is a choice among what the service distinguishes:
parsed, a parse the store refuses, a transient failure, unavailable (unsupported
is treated alike). Whether cached data is still fresh depends on the calendar
and is left open. `Disruptions` switches Ctrl-C, unexpected exceptions and
crashes on, each at every step of the engine; what they do outside it the two
callers say. A process ends in one of three ways: `ended`, it finalized its
request or was refused; `dead`, it was killed; `cut`, an exception met the
finalization itself, or Ctrl-C a line outside the `try` statement, so that the
request stays `running` and nothing finalizes it later (`CutOff`).

**CliSync** adds `_sync_disclosure` around the engine: the start, the status each
outcome calls for, and a finalization that the store may refuse (`Conclude`).
`finalize` catches whatever `finalize_request` raises and raises again, the run
still `running` (`cli.py:1736`): a refusal of the store's checks is part of
`Conclude`, any other failure (a locked database, Ctrl-C) is `CommandCut`, which
also stands for Ctrl-C in a handler, and before and after the `try` statement.
Ctrl-C between the return of the engine and `finalize` is handled and makes all
work omitted (`OutcomeInterrupted`).
A request may follow an earlier one, `r0`, that left a success or a transient
failure with a cooldown in the audit. **BriefSync** adds `brief_outcome`: the stages, the three
handlers, and `publish`; an exception between the stages and the publication
(`HandlerFails`), and a finalization that fails or is interrupted
(`brief/service.py:1008`, `BriefCut`), are actions. A latest brief that cannot be
read is not compared with the new one (`brief/store.py:433`); no operation
writes such a row, and the model has none. The portfolio and NAV stages and the evaluation are
abstracted to what they may add to the omitted work (`OtherWork`). The stages
are the constants of `brief/service.py`: a group belongs to one stage, and a
field that has a stage's name is one of that stage (`StagesAssumption`); the groups
of a command are the keys of a dict, hence different (`PlanAssumption`).
**SyncSystem** lets each process run either command. To `RequestPromise` it shows
the status of each run, the fields its command asked for, the attempts with
their numbers, which of them are answers, and which attempt each section of the
cache came with; the budgets, the clocks, the reservations, the processes and
the briefs are hidden.

**Ledger.** One image: documents of different digests share nothing. `files` are
the managed copies of the image by suffix, `document` its row, `drafts` and
`booked` the two tables of the owner's money; a transaction stands under the
draft it was made from. A command is a process of its own, and nothing but
SQLite keeps two commands apart. Python's `sqlite3` begins a transaction at the
first write, so a SELECT before it is an action of its own (`SelectDocument`,
`Reread`) and the writes after it are another (`CommitImport`, `Book`), where
the conditions of the UPDATE statements and the constraint on the digest decide.
`Stop` is Ctrl-C or a kill: `import_image` handles `Exception`, not
`KeyboardInterrupt`, so neither removes a copy. Every failure of a file or of
the database is a disjunct of the step it may hit. Four history variables name
the circumstances the properties except: commands that overlapped on the image,
copies whose import was stopped, a deletion that has removed the copy and not
yet marked the row, and drafts that two commands confirmed at once. Left out
are manual transactions (one INSERT), the staging file, which has a name nobody
else uses (a kill leaves it behind), a copy whose bytes no longer match its name
(`ledger/service.py:332`), and two operations of the store that the
service does not call (`add_document`, `add_draft`).

**ProfileAssessment and AllocationRange.** A fingerprint covers the profile and
the instant, so the rows hold those two. The engine of either service is a
function of payload and instant, of which only the last instant at which it is
satisfied matters (`due`, `horizon`). Every SELECT on a connection of its own is
a step, and every transaction that writes is one step with the checks it makes.
The editor reads its clock before its transaction, so that a profile may be
confirmed at any earlier instant. `disturbed` is history: the active profile
changed since this command first loaded it. The two loads of a snapshot inside
`ranges` and `range status` go through the same actions (`SnapshotLoad`,
`ReadLatest`, `ConfirmLoaded`) with `first` telling the second from the first.
Encryption, key loss and policy versions are left out.

**DocumentRefresh.** One fund. A document stands for its URL with its kind, title
and publication; its content may differ from fetch to fetch. Discovery and the
publication of the selection are one action, and so are fetching a candidate and
publishing its run, since the network is all there is before the transaction and
nothing shared is read. Candidates are taken in one fixed order and ties between
newest documents of a kind that is not periodic are broken arbitrarily: no
property depends on either. The sources beside the refresh are versions that only
grow; that is what the code relies on, since every write stamps its rows with a
new `retrieved_at`, which is part of the compared evidence, so that no content
returns. Loading the NAV history takes several SELECTs; a torn read is a version
that no second collection reproduces, and is not modelled on its own. `together`
and `disturbed` are history: the combinations of newest refresh and versions that
were ever current, and whether a source changed between two looks of a command
at it. Parsers, their provenance and failures inside one (which publish a failed
run like any other) are the choice of an outcome.

## 3. The runs

| run | what it asks | bounds |
|---|---|---|
| `request_budget` | the three properties of a budget | deadline 10, reserve 2, readings 0 to 12 in any order and an invalid one: before the start, every boundary, after the deadline |
| `framed_worker` | one call of a worker: safety, refinement of WorkerCall, termination | a lifetime from 1 to 4 with a reserve of 1, entered at any instant from the start to after the deadline: room for two readings with seconds left, one in the reserve, the deadline and one after it; readings 0 to 5, broken readings 0 and an invalid one; a request that an earlier call may have cancelled |
| `request_audit` | the audit under callers that call anything, in any order, with any instants | one request of either mode, two fields, instants 0 to 2 with a deadline at 1, so that everything may come before, at and after it; operations of different requests touch disjoint rows |
| `cli_sync` | one command: safety, and that it returns | two groups of one section each, after an earlier request or none, forced or not, all answers, interruption, fault and crash at every step, the finalization included; deadline at 1 of 2 |
| `cli_unpublishable` | violation: see findings | the same, undisturbed |
| `brief_sync` | one brief | two stages, one of a group of two sections, one named like its field and one not, and everything that may go wrong, the finalization included |
| `brief_stuck` | violation: see findings | one stage, only Ctrl-C |
| `sync_system` | two commands or briefs, at once or in sequence: safety, and the refinement of RequestPromise | one group with one section; start instants 0 and 1, a cooldown that ends while the second may run; a budget without reserve, which closes where a process waits for a worker or records its answer |
| `ledger` | the ledger with overlapping commands | two processes of three commands each, two suffixes, two drafts, two complete values and an incomplete one |
| `allocation_range` | assess, ranges and both status queries while the owner edits | two commands, not both status queries (these write nothing); two versions of the profile, two assessments, two ranges; instants 0 to 2, an assessment valid for one and a profile for two; a block and the end of the range after instant 1 |
| `documents` | a synchronisation, stopped anywhere, beside a reader | two refreshes of two quarterly reports and a contract; two other sources of two versions each; two instants, documents that become stale at the second; one stored classification, which a repeated one finds |
| `document_reuse` | violation: see findings | one process that nothing disturbs |

Two groups suffice for `cli_sync` because a group only affects a later one
through the budget, the omitted work and the clock; a group of two sections is
needed for a group that succeeds in part, and is in `brief_sync`. Two requests suffice for the
properties of `sync_system`, which relate two requests each. Instants are
compared, never added except for the deadline and the cooldown, so that one
instant before, at and after each of them covers the cases. For `ledger`, three
commands are what it takes for one process to import, delete and import again
while another confirms or imports; what a step does to a draft or to the image
depends on at most one other command. For `allocation_range`, the terms are so
short that the end of an assessment never needs to be clamped to the end of its
profile; the theorems cover it. For `documents`, a reader meets at most a
complete refresh, the beginning and the filling of another, and a change of each
other source, in any order with its looks at them.

A run of TLC keeps a bound of its own in the MC module where the specification
allows more: in `allocation_range` and `documents` a command that has answered
returns before anything else happens.

The larger runs have 190,293 (`framed_worker`), 366,764 (`cli_sync`) and 969,361
(`brief_sync`) distinct states.

`CHECK_DEADLOCK FALSE` is set where the system does stop: requests end, clocks
reach their bound.

**Fairness.** `RequestEnds` assumes weak fairness of the steps of a process that
has started (`CliStep`): the code is sequential, waits only for a worker, and
that wait is bounded by the budget (`_exchange_frames`), so that a step that
stays enabled is taken. Nothing is assumed of the clock, of the owner or of the
sources. `RequestEnds` says that the request reaches a terminal status, except
where its process was killed (`dead`) or cut off (`cut`): of these the code does
leave requests running. `CallEnds` assumes weak
fairness of the parent, for the same reason, and of the clock: without time
nothing ends a `select`. Nothing is assumed of the worker, which may stay silent
for ever.

**Mutants.** Next to some definitions stands a variant with one plausible error
(a missing check, an off-by-one, a swapped order). Each property of a passing
run fails with one of them in place of the original, which shows that the bounds
let it fail.

## 4. Findings

* **A brief can leave its request running** (`brief_stuck`). `retry_allowed` has
  reserved a retry and its attempt never gets on record: Ctrl-C falls in between
  (the engine raises `FundDisclosureSyncInterrupted` with the fields it has not
  finished, and `brief_outcome` ignores them), the wall clock passes the deadline
  before `_audit_now` reads it for the attempt, or an exception leaves the attempt.
  The handlers report the names of the stages; the store refuses a terminal row
  that does not name the field of a pending authorization, so the run stays
  `running`. `StuckOnlyByUnusedRetry` shows that this is the only finalization of a
  brief the store refuses, and only of a field that is no stage's name; were every
  field named like a stage, it would refuse none (theorem `NamedFieldsEndBriefs`).
  `_sync_disclosure` passes the fields on and is never refused (`EndedIsTerminal`).
  Both commands do leave the request running when the finalization itself fails or
  is interrupted; the code has a branch for it that only reports, and no finding
  is made of it.
* **An unchanged document stops the synchronisation of a fund** (`document_reuse`).
  `_ensure_artifact` compares the stored row of a document and content with the
  new fetch in every field, `retrieved_at` included, which every fetch stamps. A
  second `sync_documents` that finds a document unchanged at a later instant ends
  with a storage error; its refresh has no completion and, being the newest,
  leaves the fund without usable evidence.
* **A partial parse fails a bounded request** (`cli_unpublishable`). The legacy
  path stores a parse in state `partial` as `success` with a warning; the bounded
  path passes the state on, `publish_section` raises, and the group's other
  sections and its attempt are lost with it.

Two behaviours of the ledger are worth knowing, though no document of the
repository promises otherwise; they are why its properties have exceptions. TLC
finds each at once when its exception is removed.

* `confirm_draft` of the store reads the draft before its transaction begins. A
  correction by another command in between is kept in the draft while the
  transaction has the older values; and of two commands that confirm one draft at
  once, the one that succeeds may book the corrections of the one that fails.
* An import that overlaps another import, or a deletion, of the same image may
  remove the copy the other has adopted (an active document without a copy), or
  leave a copy that no document names (it survives `ledger document delete`).

One of the same kind concerns assessments. `assess` reads its clock before it loads
the profile (`suitability/service.py:286`). A profile confirmed in between is
assessed at an instant before its confirmation; the answer is fresh, and the row
is refused by every later authentication. `OnlyEarlyRowsAreRefused` shows that
nothing else makes a stored assessment unreadable, and `RangesStayAuthentic` that
no range is ever built on such a row.

## 5. Theorems

Proved by TLAPS for every value of the constants under `BudgetAssumption` and
`AuditAssumption`, or the assumptions named below:

* `RequestBudgetProofs`: type correctness with the history invariant, that a
  refusal is final, that the first reason wins, and the refinement: the budget
  implements `BudgetPhase`. The invariant says that a refusal closes the
  budget, which is what makes it final: `last` never decreases, so that the phase
  computed from it never goes back.
* `RequestAuditProofs`: `AuditInv` and the four safety properties and the frozen
  record of a terminal request. The inductive invariant adds to the stated parts
  that rows belong to requests that have begun and that the chain from an attempt
  through its authorization to its parent is complete; without the last, "spent
  once" is not inductive, since the operations only compare the rows they read.
* `FramedWorkerProofs`: the two safety properties, the first with the exceptions
  that `gap` names, and the refinement of `WorkerCall`, for every worker, clock, lifetime and set of reasons under
  `BudgetAssumption` and `WorkerAssumption`. The inductive invariant says at each
  point of the parent what has been done to the group and what is remembered of
  errors; it is needed because the verdict is drawn at the end from `primary`,
  `closing`, `cleanup` and the budget alone.
* `LedgerProofs`: the three properties of drafts and transactions, for any number
  of commands, drafts, values and suffixes under `LedgerAssumption`. The
  inductive invariant adds what a command carries at each of its steps, that two
  commands on one draft are known to contend, and that the row of a draft without
  contention is what its command wrote; the last two make "as confirmed"
  inductive across the gap between reading a draft and booking it.
  The two properties of the managed copies have an invariant of their own. As
  long as commands on the image do not overlap there is one of them at most
  (`OneOnImage`), and its point in the code says what it may rely on
  (`Stands`): its copy is there, the document it selected has not changed, a copy
  it made stands for no active document unless a deletion was left unfinished.
  Without that last fact, removing the copy of a failed import could not be shown
  to leave an active document alone.
* `AllocationRangeProofs`: all four properties, for any number of commands,
  profiles, payloads and instants and any terms of validity, under
  `ProfileAssumption` and `AllocationAssumption`. The inductive invariant says
  what a command carries at each point, above all that a profile which a command
  has loaded stays as it was except for its status, and that a disturbed command
  holds a profile that is no longer confirmed; since no version becomes active
  twice, the last comparison of a disturbed command must fail.
* `DocumentRefreshProofs`: all four properties, for any number of commands,
  documents, sources and refreshes, under `DocumentAssumption`. The argument for
  the evidence is that of a double collection: versions only grow, so that every
  part of the evidence is at most what is current. If all parts of a later
  collection equal those of the former, nothing changed between the end of the
  former and the beginning of the later one, hence the evidence was current at
  that moment (`Remembered`, `Unmixed`). Otherwise the collection in progress is
  `Doomed`: some source it has read, or has yet to read, is beyond its token.
  That a change seen by nobody yet makes the last comparison fail (`Behind`) is
  the same argument.
* `DisclosureSyncProofs`: all safety properties of the command, for any number of
  commands, groups, sections and instants, under `AuditAssumption`,
  `SyncAssumption`, `NoEntryAssumption` and `PlanAssumption`, and that every
  behaviour is one of RequestAudit, so that what is proved of the audit holds of
  its caller. The engine is proved once for both commands: each of its steps, a
  disruption or a tick of the budget included, is one of eight moves (`Move`: it
  goes on in a group, enters it with or without a reservation, begins an attempt,
  fails, repeats, finishes the group, leaves, dies), and the invariants are proved
  of the moves. `EngineInv` says what a
  process carries at each point, that no group still planned has been attempted,
  and that the cooldown was over when it decided to ask a source. That makes the
  cooldown inductive across the steps between reading the health of a field and
  the exchange: an earlier request that has ended adds nothing any more
  (`NobodyEnds`). `Progress` (what is no longer planned was answered, or something
  was omitted) and `Reserved` (an open reservation is the one about to be used, or
  the engine was left and reports its field) are what a complete status and an
  accepted finalization rest on. A caller takes over by `Handles`, whose proof is
  shared by both commands.
* `SyncSystemProofs`: all safety properties of the brief, and of any number and mix of
  commands and briefs, under `StagesAssumption` besides. `BriefInv` relates the
  stage at work to what is on record: rows belong to stages the brief has reached,
  a reservation left open by an earlier stage has the name of that stage among the
  omissions, and the stages behind have their answers or something was omitted.
  From that follows which reservation may be left unnamed at the end
  (`RefusedIsStuck`). What is proved of an end of a command or brief is of one that
  comes to its end, neither killed nor cut off. `SystemInv` gives each request the invariant of the command
  that serves it; a step of one request leaves every row of the others alone
  (`Untouched`). The refinement of RequestPromise maps each step of the engine
  that records an attempt to a try, by cases on whether its transaction also
  writes sections: that a second try finds its field unanswered follows from the chain
  of the audit (its reservation has a parent that failed, and there is no other
  first attempt), that the field is one of the request's from `Progress`, and
  that a complete end has every answer from the invariant of its command.

Model-checked only: `RequestEnds` and `CallEnds`, since liveness under fairness is out
of the prover's reach. No module uses recursion.

## 6. Not modelled, and why

Formats, parsers and report texts are data; decimal statistics are out of TLC's
reach; adapters and the keychain are I/O. A migration applies all versions in one
transaction that is rolled back as a whole (`storage/repository.py:1284`), so that
there is no state between versions to model. A wall clock that is set back is
listed as a hazard and not modelled: every property of the request assumes that
it moves forward, and `EndedIsTerminal` would fail without. A process that contacts a source while
another is about to (both read before either wrote) is a behaviour of the model,
and no property forbids it because the code promises nothing there.

## 7. Plan

Done: the request (budget, audit, worker, engine, command, brief, system), the
ledger, the assessments and the classifications, with the proofs of their safety
properties and of the three refinements. Next, in this order:

1. `PortfolioSync`: overlapping synchronisations, the latest snapshot; with the
   portfolio stage of the brief (`storage/repository.py:1546`).
2. `SourceDecisions`: field states, alternatives and routing as operators,
   compared with reference definitions over all small inputs.
3. A wall clock that is set back during a request (`funds/service.py:1090`).
4. Theorems of the modules above, as they are written. Those of the modules so far
   state every safety property the runs check.
