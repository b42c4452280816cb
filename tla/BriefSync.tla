----------------------------- MODULE BriefSync -----------------------------
(* brief/service.py brief_outcome over the engine of DisclosureSync, and     *)
(* brief/store.py publish.  One request runs the engine once per stage,      *)
(* remembers which stages it completed and what they omitted, and ends by    *)
(* publishing the brief, its decision snapshot and the terminal status of    *)
(* the request in one transaction, or by finalizing the request without a    *)
(* brief.  All requests are about one fund.                                  *)
(*                                                                           *)
(* Only the disclosure stages are modelled step by step.  The others (the    *)
(* portfolio, the NAV, facts, relationships, evaluation) reserve nothing in  *)
(* the audit store; what they may add to the omitted work is OtherWork.      *)
EXTENDS DisclosureSync

CONSTANTS
    Stages,       \* the disclosure stages: name and groups of each, in order
    OtherWork     \* the names the other stages may omit

(* Each group belongs to one stage, and a field that has the name of a stage *)
(* is one of that stage.                                                     *)
ASSUME StagesAssumption ==
    /\ Stages \in Seq([name : FieldIds, groups : Seq(Refs)])
    /\ OtherWork \subseteq FieldIds
    /\ \A i, j \in DOMAIN Stages :
         /\ Stages[i].name = Stages[j].name => i = j
         /\ \A k \in DOMAIN Stages[i].groups :
              /\ FieldOf[Stages[i].groups[k]] = Stages[j].name => i = j
              /\ \A l \in DOMAIN Stages[j].groups :
                   Stages[i].groups[k] = Stages[j].groups[l] => i = j /\ k = l

VARIABLES
    stage,        \* the stage a request is at
    completed,    \* the stages it has completed
    omissions,    \* omitted, of the brief (the engine has a list of its own)
    asOf,         \* when its facts were taken
    briefs        \* fund_brief_snapshots, in the order of publication

briefLocals == <<stage, completed, omissions, asOf>>
briefVars == <<syncVars, briefLocals, briefs>>

StageNames == {Stages[i].name : i \in DOMAIN Stages}
StageRefs(i) == {Stages[i].groups[j] : j \in DOMAIN Stages[i].groups}
StageSections(i) == UNION {SectionsOf[ref] : ref \in StageRefs(i)}
BriefRefs == UNION {StageRefs(i) : i \in DOMAIN Stages}

BriefInit ==
    /\ SyncInit
    /\ stage = [r \in Runs |-> 1]
    /\ completed = [r \in Runs |-> {}]
    /\ omissions = [r \in Runs |-> {}]
    /\ asOf = [r \in Runs |-> NoTime]
    /\ briefs = <<>>

-----------------------------------------------------------------------------

(* The handler runs while the engine does not: pc "left", with ret "none"    *)
(* between two stages.                                                       *)
Between(r) == At(r, "left") /\ proc[r].ret = "none"
Returned(r, how) == At(r, "left") /\ proc[r].ret = how
Answer(r, how) == proc' = [proc EXCEPT ![r].ret = how]
StagesDone(r) == stage[r] > Len(Stages)

StartBrief(r, mode) ==
    /\ At(r, "idle")
    /\ BeginRequest(r, mode, now)
    /\ Go(r, "left")
    /\ UNCHANGED <<now, cache, contacts, briefLocals, briefs>>

(* What a stage that did not succeed adds to the omitted work. *)
NothingOmitted(r) == {}                               \* without _add_omitted
OmittedStage(r) == {Stages[stage[r]].name}

(* _run_source, up to the call of the disclosure service. *)
NextStage(r) ==
    /\ Between(r) /\ ~StagesDone(r)
    /\ IF budget[r] = "closed"
       THEN Answer(r, "budget")
       ELSE proc' = [proc EXCEPT ![r] = [proc[r] EXCEPT
                       !.pc = "choose", !.plan = Stages[stage[r]].groups, !.omitted = {}]]
    /\ UNCHANGED <<vars, now, cache, contacts, briefLocals, briefs>>

(* ... and what it makes of the result: a stage counts as completed only if  *)
(* the budget is still publishable, and is omitted when one of its sections  *)
(* holds no usable data.                                                     *)
StageReturned(r) ==
    /\ Returned(r, "ok")
    /\ IF budget[r] = "closed"
       THEN Answer(r, "budget") /\ UNCHANGED briefLocals
       ELSE /\ Answer(r, "none")
            /\ completed' = [completed EXCEPT ![r] = @ \union {Stages[stage[r]].name}]
            /\ omissions' = [omissions EXCEPT ![r] =
                 @ \union proc[r].omitted
                   \union (IF \E s \in StageSections(stage[r]) : cache[s] = NoEntry \/ ~cache[s].ok
                           THEN OmittedStage(r) ELSE {})]
            /\ stage' = [stage EXCEPT ![r] = @ + 1]
            /\ UNCHANGED asOf
    /\ UNCHANGED <<vars, now, cache, contacts, briefs>>

(* An exception other than BudgetExpired omits the stage by its name. *)
StageFailed(r) ==
    /\ Returned(r, "error") /\ ~StagesDone(r)
    /\ Answer(r, IF budget[r] = "closed" THEN "budget" ELSE "none")
    /\ omissions' = [omissions EXCEPT ![r] = @ \union OmittedStage(r)]
    /\ stage' = [stage EXCEPT ![r] = @ + 1]
    /\ UNCHANGED <<vars, now, cache, contacts, completed, asOf, briefs>>

(* The other stages, and the instant the facts are taken at. *)
TakeFacts(r, others) ==
    /\ Between(r) /\ StagesDone(r) /\ asOf[r] = NoTime
    /\ IF budget[r] = "closed" \/ ~InLifetime(r)
       THEN Answer(r, "budget") /\ UNCHANGED briefLocals
       ELSE /\ asOf' = [asOf EXCEPT ![r] = now]
            /\ omissions' = [omissions EXCEPT ![r] = @ \union others]
            /\ UNCHANGED <<proc, stage, completed>>
    /\ UNCHANGED <<vars, now, cache, contacts, briefs>>

(* publish: the snapshot, the brief and the end of the request, or nothing. *)
BriefStatus(r) == IF omissions[r] = {} THEN "complete" ELSE "partial"

(* No operation writes a brief that cannot be read back, which would not be  *)
(* compared.                                                                 *)
AnyOrder(r) == TRUE                                   \* without the publication order
InOrder(r) == \A i \in DOMAIN briefs : briefs[i].created <= asOf[r]

Publishable(r) ==
    /\ SnapshotAdmissible(r, asOf[r])
    /\ InOrder(r)
    /\ FinishAdmissible(r, BriefStatus(r), now, omissions[r], SnapshotsWith(r, asOf[r]))

Ready(r) == Between(r) /\ asOf[r] # NoTime

PublishThenFinish(r) ==                               \* the request is ended afterwards
    /\ Ready(r) /\ budget[r] # "closed" /\ InLifetime(r) /\ Publishable(r)
    /\ snapshots' = SnapshotsWith(r, asOf[r])
    /\ briefs' = Append(briefs, [run |-> r, created |-> asOf[r], status |-> BriefStatus(r)])
    /\ Answer(r, "error")
    /\ UNCHANGED <<runs, attempts, auths, budget, now, cache, contacts, briefLocals>>
PublishBrief(r) ==
    /\ Ready(r)
    /\ budget[r] # "closed" /\ InLifetime(r)
    /\ InOrder(r)
    /\ SaveAndFinalize(r, asOf[r], BriefStatus(r), now, omissions[r])
    /\ briefs' = Append(briefs, [run |-> r, created |-> asOf[r], status |-> BriefStatus(r)])
    /\ Go(r, "ended")
    /\ UNCHANGED <<now, cache, contacts, briefLocals>>

PublicationFails(r) ==
    /\ Ready(r)
    /\ \/ (budget[r] = "closed" \/ ~InLifetime(r)) /\ Answer(r, "budget")
       \/ budget[r] # "closed" /\ InLifetime(r) /\ ~Publishable(r) /\ Answer(r, "error")
    /\ UNCHANGED <<vars, now, cache, contacts, briefLocals, briefs>>

(* Ctrl-C outside the engine, or a clock that fails. *)
HandlerInterrupted(r) ==
    /\ At(r, "left") /\ proc[r].ret \in {"none", "ok"}
    /\ \E how \in {"interrupt", "budget"} :
          /\ (IF how = "budget" THEN "abort" ELSE how) \in Disruptions
          /\ proc' = [proc EXCEPT ![r] = [proc[r] EXCEPT !.ret = how, !.why = Reason(r, "other")]]
    /\ Close(r)
    /\ UNCHANGED <<tables, now, cache, contacts, briefLocals, briefs>>

(* An exception of the work after the stages, or of the publication, which   *)
(* is rolled back.                                                           *)
HandlerFails(r) ==
    /\ "fault" \in Disruptions
    /\ Between(r) /\ StagesDone(r)
    /\ Answer(r, "error")
    /\ UNCHANGED <<vars, now, cache, contacts, briefLocals, briefs>>

(* The three handlers of brief_outcome: _budget_terminal_status,             *)
(* _remaining_omissions and _finalize_unpublished.  The fields an            *)
(* interruption carries are not read.                                        *)
Unpublished(r) ==
    \/ Returned(r, "budget")
    \/ Returned(r, "interrupt")
    \/ Returned(r, "error") /\ StagesDone(r)

UnpublishedStatus(r) ==
    IF proc[r].ret = "error" THEN "failed"
    ELSE IF proc[r].why = "other" THEN "cancelled" ELSE "expired"

EndAtStart(r) == runs[r].started                      \* the instant of a failed clock
UnpublishedAt(r) ==
    IF UnpublishedStatus(r) # "expired" /\ now < Deadline(r) THEN now ELSE Deadline(r)

RemainingOmissions(r) == omissions[r] \union (StageNames \ completed[r]) \union OtherWork

FinalizeUnpublished(r) ==
    /\ Unpublished(r)
    /\ FinalizeRequest(r, UnpublishedStatus(r), UnpublishedAt(r), RemainingOmissions(r))
    /\ Go(r, "ended")
    /\ UNCHANGED <<now, cache, contacts, briefLocals, briefs>>

(* The store refuses what the handler asks for. *)
FinalizationRefused(r) ==
    /\ Unpublished(r)
    /\ ~FinishAdmissible(r, UnpublishedStatus(r), UnpublishedAt(r), RemainingOmissions(r),
                         snapshots)
    /\ Go(r, "ended")
    /\ UNCHANGED <<vars, now, cache, contacts, briefLocals, briefs>>

(* The finalization itself fails, the database is locked or Ctrl-C comes     *)
(* again; or Ctrl-C comes between begin_request and the try statement.       *)
BriefCut(r) ==
    /\ \/ Unpublished(r) /\ Uncaught
       \/ Between(r) /\ stage[r] = 1 /\ "interrupt" \in Disruptions
    /\ CutOff(r)
    /\ UNCHANGED <<briefLocals, briefs>>

BriefStep(r) ==
    \/ EngineStep(r) /\ UNCHANGED <<briefLocals, briefs>>
    \/ NextStage(r)
    \/ StageReturned(r)
    \/ StageFailed(r)
    \/ \E others \in SUBSET OtherWork : TakeFacts(r, others)
    \/ PublishBrief(r)
    \/ PublicationFails(r)
    \/ FinalizeUnpublished(r)
    \/ FinalizationRefused(r)

BriefNext ==
    \/ Tick /\ UNCHANGED <<briefLocals, briefs>>
    \/ \E r \in Runs :
        \/ \E mode \in Modes : StartBrief(r, mode)
        \/ BriefStep(r)
        \/ Disrupt(r) /\ UNCHANGED <<briefLocals, briefs>>
        \/ BudgetPasses(r) /\ UNCHANGED <<briefLocals, briefs>>
        \/ HandlerInterrupted(r)
        \/ HandlerFails(r)
        \/ BriefCut(r)

BriefSpec == BriefInit /\ [][BriefNext]_briefVars

-----------------------------------------------------------------------------

BriefOf(r) == {i \in DOMAIN briefs : briefs[i].run = r}

(* The brief, its snapshot and the end of its request appear together: a     *)
(* request is complete or partial exactly when it has its one brief, with    *)
(* that status, taken inside its lifetime.                                   *)
BriefEndsItsRequest ==
    \A r \in Runs :
        /\ runs[r].status \in {"complete", "partial"} <=> BriefOf(r) # {}
        /\ (\E s \in snapshots : s.run = r) <=> BriefOf(r) # {}
        /\ \A i \in BriefOf(r) :
              /\ BriefOf(r) = {i}
              /\ briefs[i].status = runs[r].status
              /\ WithinLifetime(r, briefs[i].created)
              /\ WithinLifetime(r, runs[r].finished)

(* A complete brief rests on its own request: every field of every stage has *)
(* an audited success or cache hit of that request.                          *)
CompleteBriefHasEveryField ==
    \A r \in Runs : runs[r].status = "complete" =>
        \A ref \in BriefRefs :
            \E a \in AttemptsOf(r, ref) : a.outcome \in {"success", "cache_hit"}

(* The briefs of a fund are published in the order of their facts, whatever  *)
(* the order in which the requests began: an old brief never becomes the     *)
(* latest one.                                                               *)
BriefsInOrder ==
    \A i, j \in DOMAIN briefs : i < j => briefs[i].created <= briefs[j].created

(* The one finalization of a brief that the store refuses, whose request is  *)
(* then left running though nothing disturbed the finalization: a retry was  *)
(* reserved and never used, and its field is not the name of a stage, the    *)
(* only names the handler gives to work it has not completed.  A brief that  *)
(* was killed or cut off in its handler has not come to its end.             *)
StuckOnlyByUnusedRetry ==
    \A r \in Runs : At(r, "ended") /\ Running(r) =>
        \E w \in PendingOf(r) : w.kind = "retry" /\ FieldOf[w.ref] \notin StageNames

(* What the documents promise instead: a brief returns a terminal result. *)
BriefEndsTerminal == \A r \in Runs : At(r, "ended") => Terminal(r)
=============================================================================
