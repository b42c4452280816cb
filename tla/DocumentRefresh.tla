-------------------------- MODULE DocumentRefresh --------------------------
(* funds/risk/service.py over funds/risk/store.py: refreshes of the official *)
(* documents of one fund, and the classifications made of them.  Every call  *)
(* of the store is a transaction of its own and one step; another command    *)
(* may commit between any two.                                               *)
(*                                                                           *)
(* A classification rests on the newest refresh and on sources that other    *)
(* commands write: the disclosure sections and the NAV history.  The service *)
(* holds no lock over them; it collects all of them several times and        *)
(* compares.  A source counts its versions: every write stamps the rows with *)
(* a new retrieval, so that no version returns.  Checksums and the policy,   *)
(* which is a constant of a release, are left out.                           *)
EXTENDS Naturals, Sequences, FiniteSets

CONSTANTS
    Procs,         \* commands that may run at the same time
    Docs,          \* official documents: a URL with its kind, title and publication
    Contents,      \* the contents a document may be fetched with
    Discoverable,  \* the sets of candidates a discovery may return
    kindOf,        \* document -> kind
    published,     \* document -> instant of its publication
    periodEnd,     \* document -> end of its report period, 0 if it names none
    factsIn,       \* document -> kinds of facts its parser finds
    due,           \* document -> first instant at which it is stale
    Parts,         \* number of sources read beside the refresh
    MayStop,       \* whether a command may be killed or meet a storage failure
    MaxTime, MaxRefreshes, MaxVersion, MaxClassifications  \* bounds

ASSUME DocumentAssumption ==
    /\ published \in [Docs -> Nat]
    /\ periodEnd \in [Docs -> Nat]
    /\ due \in [Docs -> Nat]
    /\ Discoverable \subseteq SUBSET Docs
    /\ Parts \in Nat \ {0}
    /\ MayStop \in BOOLEAN
    /\ MaxTime \in Nat
    /\ MaxRefreshes \in Nat
    /\ MaxVersion \in Nat
    /\ MaxClassifications \in Nat

VARIABLES
    now,             \* the wall clock
    refreshes,       \* fund_document_refresh_runs with their completion, selection and candidate runs
    artifacts,       \* fund_document_artifacts: by document and content, when it was retrieved
    external,        \* version of each other source
    classifications, \* fund_risk_classifications, by id
    call,            \* the local variables of the processes
    together,        \* history: newest refresh and versions that were current at one instant
    disturbed        \* history: something changed between two looks of this call at it

tables == <<refreshes, artifacts, external, classifications>>
vars == <<now, tables, call, together, disturbed>>

PeriodicKinds == {"quarterly_report", "semiannual_report", "annual_report"}
Readable == {"success", "partial"}
NoTime == MaxTime + 1

-----------------------------------------------------------------------------
(* funds/risk/selection.py.                                                  *)

OfKind(docs, kind) == {d \in docs : kindOf[d] = kind}

NewestIn(docs) == {d \in docs : \A e \in docs : published[e] <= published[d]}

(* The one newest report of a kind; none is selected if several are newest.  *)
Selected(docs, kind) ==
    LET newest == NewestIn(OfKind(docs, kind))
    IN IF Cardinality(newest) = 1 THEN newest ELSE {}

(* Mutant of Attempted: every candidate is attempted.                        *)
AttemptEverything(docs) == docs

Attempted(docs) ==
    {d \in docs : kindOf[d] \in PeriodicKinds => d \in Selected(docs, kindOf[d])}

Periodic(docs) == {d \in docs : kindOf[d] \in PeriodicKinds}

(* Newest per kind; an update takes the place of the prospectus.             *)
CurrentNonperiodic(docs) ==
    LET others == docs \ Periodic(docs)
        newest == {CHOOSE d \in NewestIn(OfKind(others, k)) : TRUE : k \in {kindOf[d] : d \in others}}
    IN {d \in newest :
           kindOf[d] = "prospectus" => OfKind(newest, "prospectus_update") = {}}

NotAfter(d, e) ==
    \/ periodEnd[d] < periodEnd[e]
    \/ periodEnd[d] = periodEnd[e] /\ published[d] <= published[e]

NewestReport(docs) == CHOOSE d \in docs : \A e \in docs : NotAfter(e, d)

(* The reports that are the newest to speak of some fact; the newest of all  *)
(* when they state no fact.                                                  *)
CurrentReports(docs) ==
    LET kinds == UNION {factsIn[d] : d \in docs}
    IN IF docs = {} THEN {}
       ELSE IF kinds = {} THEN {NewestReport(docs)}
       ELSE {NewestReport({d \in docs : k \in factsIn[d]}) : k \in kinds}

Projection(docs) == CurrentNonperiodic(docs) \union CurrentReports(Periodic(docs))

-----------------------------------------------------------------------------
(* The tables.                                                               *)

NewRefresh ==
    [candidates |-> {}, selection |-> "none", runs |-> [d \in Docs |-> "none"], outcome |-> "none"]

Newest == Len(refreshes)

RunsOf(r) == {d \in Docs : refreshes[r].runs[d] # "none"}
Successes(r) == {d \in Docs : refreshes[r].runs[d] = "success"}

(* _document_selection_snapshot and _authenticate_selection_candidate_runs:  *)
(* of every periodic kind, exactly the selected candidate was run.           *)
SelectionAuthentic(r) ==
    /\ refreshes[r].selection = "published"
    /\ \A k \in PeriodicKinds :
           OfKind(RunsOf(r), k) = Selected(refreshes[r].candidates, k)

Evidence(r) == Projection(Successes(r))

(* The freshness of each document of the evidence, at an instant.            *)
FreshAt(r, at) == {d \in Docs : d \in Evidence(r) /\ at < due[d]}

(* The newest classification, or no element.                                 *)
NewestClassification ==
    {i \in DOMAIN classifications : \A j \in DOMAIN classifications :
        \/ classifications[j].at < classifications[i].at
        \/ classifications[j].at = classifications[i].at /\ j <= i}

-----------------------------------------------------------------------------
(* The processes.  refresh, todo and statuses are those of sync_documents;   *)
(* newest and parts are what the current collection has read so far, in this *)
(* order; token is the evidence an answer is compared with.                  *)

NoToken == [refresh |-> 0, parts |-> <<>>, fresh |-> {}]

Idle ==
    [command |-> "none", pc |-> "idle", at |-> 0, refresh |-> 0, todo |-> {}, statuses |-> {},
     newest |-> 0, parts |-> <<>>, token |-> NoToken, outcome |-> "none"]

SetCall(p, c) == call' = [call EXCEPT ![p] = c]

Reply(p, outcome) == SetCall(p, [Idle EXCEPT !.pc = "done", !.outcome = outcome])

Return(p) ==
    /\ call[p].pc = "done"
    /\ SetCall(p, Idle)
    /\ UNCHANGED <<now, tables, together, disturbed>>

(* The collections of classify and of current_classification, named for      *)
(* their checkpoints.                                                        *)
FirstRounds == {"initial", "current"}
LastRounds == {"before_return", "current_before_return"}
Rounds == {"initial", "before_insert", "after_commit", "before_return",
           "current", "current_before_return"}

After ==
    [initial |-> "before_insert", before_insert |-> "save",
     after_commit |-> "before_return", before_return |-> "fresh",
     current |-> "current_before_return", current_before_return |-> "latest"]

(* The current collection has read the refresh (0) or another source.        *)
Looked(c, i) == IF i = 0 THEN c.newest # 0 ELSE Len(c.parts) >= i

(* A call has looked at a source, and will look at it again.                 *)
Watching(c, i) ==
    /\ c.pc \in Rounds \union {"save"}
    /\ c.pc \in FirstRounds => Looked(c, i)
    /\ c.pc \in LastRounds => ~Looked(c, i)

Disturb(i) == disturbed' = [p \in Procs |-> disturbed[p] \/ Watching(call[p], i)]

(* Remembers what is current after this step, if a classification could      *)
(* rest on it.                                                               *)
Remember ==
    LET r == Len(refreshes') IN
    together' = together \union
        (IF r > 0 /\ refreshes'[r].outcome \in Readable THEN {<<r, external'>>} ELSE {})

-----------------------------------------------------------------------------
(* sync_documents.                                                           *)

(* begin_document_refresh: from here on no older refresh is evidence.        *)
BeginSync(p) ==
    /\ call[p].pc = "idle"
    /\ Len(refreshes) < MaxRefreshes
    /\ refreshes' = Append(refreshes, NewRefresh)
    /\ SetCall(p, [Idle EXCEPT !.command = "sync", !.pc = "discover", !.refresh = Newest + 1])
    /\ Disturb(0)
    /\ UNCHANGED <<now, artifacts, external, classifications, together>>

Finish(p, outcome, answer) ==
    /\ refreshes' = [refreshes EXCEPT ![call[p].refresh].outcome = outcome]
    /\ Reply(p, answer)
    /\ UNCHANGED <<now, artifacts, external, classifications, disturbed>>
    /\ Remember

(* Discovery fails, or what it found cannot be selected from.                *)
DiscoveryFails(p) ==
    /\ call[p].pc = "discover"
    /\ Finish(p, "failed", "failed")

(* Discovery, select_current_candidates and publish_document_selection: the  *)
(* network is all there is before the transaction.                           *)
PublishSelection(p) ==
    /\ call[p].pc = "discover"
    /\ \E found \in Discoverable :
        /\ refreshes' = [refreshes EXCEPT ![call[p].refresh].candidates = Periodic(found),
                                          ![call[p].refresh].selection = "published"]
        /\ SetCall(p, [call[p] EXCEPT !.pc = "candidate", !.todo = Attempted(found)])
    /\ UNCHANGED <<now, artifacts, external, classifications, together, disturbed>>

(* The candidate whose turn it is, in the fixed order of the selection.      *)
Attempts(p) ==
    IF call[p].pc = "candidate" /\ call[p].todo # {}
    THEN {CHOOSE d \in call[p].todo : TRUE} ELSE {}

(* The candidate has its run; the item stays in the memory of the command.   *)
RecordCandidate(p, d, outcome) ==
    /\ refreshes' = [refreshes EXCEPT ![call[p].refresh].runs[d] = outcome]
    /\ SetCall(p, [call[p] EXCEPT !.todo = @ \ {d}, !.statuses = @ \union {outcome}])
    /\ UNCHANGED <<now, external, classifications, together, disturbed>>

(* publish_candidate_failure: nothing was retrieved.                         *)
CandidateUnavailable(p) ==
    \E d \in Attempts(p) : RecordCandidate(p, d, "failed") /\ UNCHANGED artifacts

(* _ensure_artifact: the row of a document and content must be the same in   *)
(* every field, the instant of its retrieval included, which a fetch stamps. *)
ArtifactAgrees(d, content) == artifacts[<<d, content>>] \in {NoTime, now}

(* Fetch and parse, then publish_candidate_success or, if the parse failed,  *)
(* publish_candidate_parse_failure.                                          *)
CandidateRetrieved(p) ==
    \E d \in Attempts(p), content \in Contents, outcome \in {"success", "failed"} :
        /\ ArtifactAgrees(d, content)
        /\ artifacts' = [artifacts EXCEPT ![<<d, content>>] = now]
        /\ RecordCandidate(p, d, outcome)

(* The transaction is rolled back and the error leaves sync_documents: the   *)
(* refresh keeps no completion.                                              *)
ArtifactConflict(p) ==
    /\ \E d \in Attempts(p), content \in Contents : ~ArtifactAgrees(d, content)
    /\ Reply(p, "storage failed")
    /\ UNCHANGED <<now, tables, together, disturbed>>

(* Mutant of OutcomeOf: one success is a success.                            *)
AnySuccess(statuses) ==
    IF statuses = {} THEN "empty" ELSE IF "success" \in statuses THEN "success" ELSE "failed"

OutcomeOf(statuses) ==
    IF statuses = {} THEN "empty"
    ELSE IF statuses = {"success"} THEN "success"
    ELSE IF statuses = {"failed"} THEN "failed"
    ELSE "partial"

CompleteSync(p) ==
    /\ call[p].pc = "candidate"
    /\ call[p].todo = {}
    /\ Finish(p, OutcomeOf(call[p].statuses), "synced")

-----------------------------------------------------------------------------
(* classify and current_classification.                                      *)

(* classify reads its clock once.                                            *)
BeginClassify(p) ==
    /\ call[p].pc = "idle"
    /\ SetCall(p, [Idle EXCEPT !.command = "classify", !.pc = "initial", !.at = now])
    /\ UNCHANGED <<now, tables, together, disturbed>>

BeginQuery(p) ==
    /\ call[p].pc = "idle"
    /\ \/ classifications = <<>> /\ Reply(p, "missing")
       \/ \E i \in NewestClassification :
              SetCall(p, [Idle EXCEPT !.command = "query", !.pc = "clock",
                                      !.token = classifications[i].token])
    /\ UNCHANGED <<now, tables, together, disturbed>>

QueryClock(p) ==
    /\ call[p].pc = "clock"
    /\ SetCall(p, [call[p] EXCEPT !.pc = "current", !.at = now])
    /\ UNCHANGED <<now, tables, together, disturbed>>

(* current_document_selection_snapshot, in one transaction: the newest       *)
(* refresh, if it was completed with documents.                              *)
Snapshot(p) ==
    /\ call[p].pc \in Rounds
    /\ call[p].newest = 0
    /\ IF Newest = 0 \/ (Newest > 0 /\ refreshes[Newest].outcome \notin Readable)
       THEN Reply(p, "unavailable")
       ELSE IF ~SelectionAuthentic(Newest) THEN Reply(p, "storage failed")
       ELSE IF Evidence(Newest) = {} THEN Reply(p, "unavailable")
       ELSE SetCall(p, [call[p] EXCEPT !.newest = Newest])
    /\ disturbed' = [disturbed EXCEPT ![p] = @ /\ call[p].pc \notin FirstRounds]
    /\ UNCHANGED <<now, tables, together>>

(* Mutant of TokenRead: the last source is left out of the manifest.         *)
TokenWithoutNav(c, parts) ==
    [refresh |-> c.newest, parts |-> [parts EXCEPT ![Parts] = 0],
     fresh |-> FreshAt(c.newest, c.at)]

(* _evidence_token.                                                          *)
TokenRead(c, parts) ==
    [refresh |-> c.newest, parts |-> parts, fresh |-> FreshAt(c.newest, c.at)]

(* Mutant of TokenAgrees: only the refresh is compared.                      *)
RefreshAgrees(c, token) == c.pc = "initial" \/ token.refresh = c.token.refresh

TokenAgrees(c, token) == c.pc = "initial" \/ token = c.token

(* Another source is read; the last one completes the evidence, which must   *)
(* be that of the collections before.                                        *)
ReadPart(p) ==
    LET c == call[p]
        parts == Append(c.parts, external[Len(c.parts) + 1])
        token == TokenRead(c, parts)
    IN /\ c.pc \in Rounds
       /\ c.newest # 0
       /\ IF Len(parts) < Parts THEN SetCall(p, [c EXCEPT !.parts = parts])
          ELSE IF ~TokenAgrees(c, token) THEN Reply(p, "changed")
          ELSE IF After[c.pc] = "fresh" THEN Reply(p, "fresh")
          ELSE SetCall(p, [c EXCEPT !.pc = After[c.pc], !.newest = 0, !.parts = <<>>,
                                    !.token = token])
       /\ UNCHANGED <<now, tables, together, disturbed>>

(* save_classification: the refresh must be the newest still.  The row of a  *)
(* fingerprint, which covers the evidence and the instant, is kept.          *)
SaveClassification(p) ==
    LET c == call[p]
        row == [token |-> c.token, at |-> c.at]
        current == /\ Newest = c.token.refresh
                   /\ refreshes[c.token.refresh].outcome \in Readable
                   /\ SelectionAuthentic(c.token.refresh)
        known == \E i \in DOMAIN classifications : classifications[i] = row
    IN /\ c.pc = "save"
       /\ known \/ Len(classifications) < MaxClassifications
       /\ \/ /\ ~current
             /\ Reply(p, "storage failed")
             /\ UNCHANGED classifications
          \/ /\ current
             /\ SetCall(p, [c EXCEPT !.pc = "after_commit"])
             /\ classifications' =
                    IF known THEN classifications ELSE Append(classifications, row)
       /\ UNCHANGED <<now, refreshes, artifacts, external, together, disturbed>>

(* The newest classification, loaded once more, must have the same evidence. *)
QueryLatest(p) ==
    /\ call[p].pc = "latest"
    /\ \E i \in NewestClassification :
           Reply(p, IF classifications[i].token = call[p].token THEN "fresh" ELSE "changed")
    /\ UNCHANGED <<now, tables, together, disturbed>>

-----------------------------------------------------------------------------
(* The world around the commands.                                            *)

(* Another command publishes a section of the disclosures or a NAV.          *)
ExternalChange ==
    /\ \E i \in 1 .. Parts :
           /\ external[i] < MaxVersion
           /\ external' = [external EXCEPT ![i] = @ + 1]
           /\ Disturb(i)
    /\ UNCHANGED <<now, refreshes, artifacts, classifications, call>>
    /\ Remember

(* The process is killed, or a transaction meets a storage failure.          *)
Stop(p) ==
    /\ MayStop
    /\ call[p].pc \notin {"idle", "done"}
    /\ SetCall(p, Idle)
    /\ UNCHANGED <<now, tables, together, disturbed>>

Tick ==
    /\ now < MaxTime
    /\ now' = now + 1
    /\ UNCHANGED <<tables, call, together, disturbed>>

Init ==
    /\ now = 0
    /\ refreshes = <<>>
    /\ artifacts = [x \in Docs \X Contents |-> NoTime]
    /\ external = [i \in 1 .. Parts |-> 0]
    /\ classifications = <<>>
    /\ call = [p \in Procs |-> Idle]
    /\ together = {}
    /\ disturbed = [p \in Procs |-> FALSE]

Sync(p) ==
    \/ BeginSync(p) \/ DiscoveryFails(p) \/ PublishSelection(p)
    \/ CandidateUnavailable(p) \/ CandidateRetrieved(p) \/ ArtifactConflict(p)
    \/ CompleteSync(p)

Classify(p) ==
    \/ BeginClassify(p) \/ BeginQuery(p) \/ QueryClock(p)
    \/ Snapshot(p) \/ ReadPart(p) \/ SaveClassification(p) \/ QueryLatest(p)

Next ==
    \/ Tick
    \/ ExternalChange
    \/ \E p \in Procs : Sync(p) \/ Classify(p) \/ Return(p) \/ Stop(p)

Spec == Init /\ [][Next]_vars

-----------------------------------------------------------------------------
Outcomes == {"none", "success", "partial", "failed", "empty"}

RefreshType ==
    [candidates : SUBSET Docs, selection : {"none", "published"},
     runs : [Docs -> {"none", "success", "failed"}], outcome : Outcomes]
TokenType == [refresh : Nat, parts : Seq(Nat), fresh : SUBSET Docs]

TypeOK ==
    /\ now \in Nat
    /\ refreshes \in Seq(RefreshType)
    /\ artifacts \in [Docs \X Contents -> Nat]
    /\ external \in [1 .. Parts -> Nat]
    /\ classifications \in Seq([token : TokenType, at : Nat])
    /\ disturbed \in [Procs -> BOOLEAN]

(* Phase D.1 design, 847-849: "Concurrent document sync and classification   *)
(* serialize without mixed evidence."  The refresh, the disclosures and the  *)
(* NAV history a stored classification rests on were all current at one      *)
(* instant, though classify read them one after the other.                   *)
EvidenceIsNeverMixed ==
    \A i \in DOMAIN classifications :
        <<classifications[i].token.refresh, classifications[i].token.parts>> \in together

(* Ibid.: "Evidence switch before insert, after commit, and before return    *)
(* never returns a falsely current result."  Nothing an answer rests on      *)
(* changed between the first and the last time the command looked at it.     *)
AnswersAreUndisturbed ==
    [][\A p \in Procs :
           (call[p].pc # "done" /\ call'[p].pc = "done" /\ call'[p].outcome = "fresh")
               => ~disturbed[p]]_vars

(* sync_documents derives the outcome from the items it holds in memory: the *)
(* completion agrees with the candidate runs in the database.                *)
OutcomeAccountsForRuns ==
    \A r \in DOMAIN refreshes :
        /\ refreshes[r].outcome = "success" => RunsOf(r) = Successes(r) /\ RunsOf(r) # {}
        /\ refreshes[r].outcome = "partial" => Successes(r) \notin {{}, RunsOf(r)}
        /\ refreshes[r].outcome \in {"failed", "empty"} => Successes(r) = {}
        /\ refreshes[r].outcome = "empty" => RunsOf(r) = {}

(* A refresh that ends with documents can be read by classify: it has the    *)
(* runs its selection asks for and no others.                                *)
CompletedIsReadable ==
    \A r \in DOMAIN refreshes : refreshes[r].outcome \in Readable => SelectionAuthentic(r)

(* README.md:649-652: for stale or missing evidence, sync and classify again.*)
(* A sync that answers, because nobody stopped it and the storage did not    *)
(* fail, has completed the refresh it began.                                 *)
SyncEndsItsRefresh ==
    [][\A p \in Procs :
           (call[p].command = "sync" /\ call'[p].pc = "done")
               => refreshes'[call[p].refresh].outcome # "none"]_vars

=============================================================================
