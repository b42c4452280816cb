-------------------------- MODULE SyncSystemProofs --------------------------
(* Theorems of BriefSync and of SyncSystem, on top of those of the engine.   *)
EXTENDS SyncSystem, DisclosureSyncProofs

-----------------------------------------------------------------------------
(* The inductive invariant of a brief.                                       *)

Brief == [run : Runs, created : Times, status : {"complete", "partial"}]

BriefTypeOK ==
    /\ stage \in [Runs -> 1..(Len(Stages) + 1)]
    /\ completed \in [Runs -> SUBSET FieldIds]
    /\ omissions \in [Runs -> SUBSET FieldIds]
    /\ asOf \in [Runs -> Times \union {NoTime}]
    /\ briefs \in Seq(Brief)

(* A stage whose groups a brief may have begun to work on. *)
Reached(r, i) == i < stage[r] \/ (i = stage[r] /\ ~Between(r))

(* Where a brief stands among its stages. *)
AtStage(r) ==
    /\ ~proc[r].force
    /\ AtWork(r) => ~StagesDone(r)
    /\ asOf[r] # NoTime => StagesDone(r)
    /\ At(r, "idle") => asOf[r] = NoTime /\ completed[r] = {}
    /\ \A x \in completed[r] : \E i \in DOMAIN Stages : i < stage[r] /\ x = Stages[i].name

(* What it has on record belongs to the stages it has reached, and a         *)
(* reservation left open by an earlier stage is covered by the name of that  *)
(* stage.                                                                    *)
OfStages(r) ==
    /\ \A a \in attempts : a.run = r =>
          \E i \in DOMAIN Stages : Reached(r, i) /\ a.ref \in StageRefs(i)
    /\ \A w \in PendingOf(r) :
          \E i \in DOMAIN Stages :
              /\ Reached(r, i) /\ w.ref \in StageRefs(i)
              /\ i < stage[r] => Stages[i].name \in omissions[r]

(* A brief that has omitted nothing has an answer for every field of the     *)
(* stages behind it, and the stage at work is making progress.               *)
StageProgress(r) ==
    /\ ~StagesDone(r) =>
          Progress(r, StageRefs(stage[r])) /\ Reserved(r, StageRefs(stage[r]))
    /\ omissions[r] = {} =>
          \A i \in DOMAIN Stages : i < stage[r] =>
              \A ref \in StageRefs(i) : Audited(r, ref)

(* The brief and the end of its request. *)
Bound(r, i) ==
    /\ BriefOf(r) = {i}
    /\ briefs[i].status = runs[r].status
    /\ WithinLifetime(r, briefs[i].created)
    /\ WithinLifetime(r, runs[r].finished)

StuckByRetry(r) == \E w \in PendingOf(r) : w.kind = "retry" /\ FieldOf[w.ref] \notin StageNames

OneEnd(r) ==
    /\ runs[r].status \in {"complete", "partial"} <=> BriefOf(r) # {}
    /\ (\E s \in snapshots : s.run = r) <=> BriefOf(r) # {}
    /\ \A i \in BriefOf(r) : Bound(r, i)
    /\ runs[r].status = "complete" => \A ref \in BriefRefs : Audited(r, ref)
    /\ At(r, "ended") => Terminal(r) \/ StuckByRetry(r)

BriefProcess(r) == AtStage(r) /\ OfStages(r) /\ StageProgress(r) /\ OneEnd(r)

BriefInv ==
    /\ EngineInv
    /\ BriefTypeOK
    /\ BriefsInOrder
    /\ \A r \in Runs : BriefProcess(r)

-----------------------------------------------------------------------------
(* The stages.                                                               *)

LEMMA ElementOfSeq ==
  ASSUME NEW T, NEW seq \in Seq(T), NEW i \in DOMAIN seq
  PROVE  seq[i] \in T
  OBVIOUS

LEMMA StageFields ==
  ASSUME NEW i \in DOMAIN Stages
  PROVE  /\ i \in 1..Len(Stages) /\ i \in Nat
         /\ Stages[i].name \in FieldIds /\ Stages[i].name \in StageNames
         /\ Stages[i].groups \in Seq(Refs) /\ Distinct(Stages[i].groups)
         /\ StageRefs(i) \subseteq BriefRefs
<1>1. Stages \in Seq([name : FieldIds, groups : Seq(Refs)])
  BY StagesAssumption
<1>2. i \in 1..Len(Stages) /\ Len(Stages) \in Nat
  BY <1>1
<1>3. Stages[i] \in [name : FieldIds, groups : Seq(Refs)]
  BY <1>1, ElementOfSeq
<1>4. Distinct(Stages[i].groups)
  BY StagesAssumption DEF Distinct
<1>5. Stages[i].name \in StageNames
  BY DEF StageNames
<1>6. StageRefs(i) \subseteq BriefRefs
  BY DEF BriefRefs
<1> QED
  BY <1>2, <1>3, <1>4, <1>5, <1>6

LEMMA BriefRefsTyped == BriefRefs \subseteq Refs
<1> SUFFICES ASSUME NEW i \in DOMAIN Stages PROVE StageRefs(i) \subseteq Refs
  BY DEF BriefRefs
<1>1. Stages[i].groups \in Seq(Refs)
  BY StageFields
<1> QED
  BY <1>1 DEF StageRefs

LEMMA StageNamesTyped == StageNames \subseteq FieldIds
  BY StageFields DEF StageNames

LEMMA OneStagePerGroup ==
  ASSUME NEW i \in DOMAIN Stages, NEW j \in DOMAIN Stages, NEW ref \in StageRefs(i),
         ref \in StageRefs(j)
  PROVE  i = j
  BY StagesAssumption DEF StageRefs

LEMMA OneStagePerName ==
  ASSUME NEW i \in DOMAIN Stages, NEW j \in DOMAIN Stages, NEW ref \in StageRefs(i),
         FieldOf[ref] = Stages[j].name
  PROVE  i = j
  BY StagesAssumption DEF StageRefs

LEMMA StageAt ==
  ASSUME BriefTypeOK, NEW r \in Runs
  PROVE  /\ stage[r] \in Nat /\ Len(Stages) \in Nat
         /\ stage[r] <= Len(Stages) + 1 /\ 1 <= stage[r]
         /\ DOMAIN Stages = 1..Len(Stages)
         /\ ~StagesDone(r) => stage[r] \in DOMAIN Stages
<1>1. Len(Stages) \in Nat /\ DOMAIN Stages = 1..Len(Stages)
  BY StagesAssumption
<1>2. stage[r] \in 1..(Len(Stages) + 1)
  BY DEF BriefTypeOK
<1> QED
  BY <1>1, <1>2 DEF StagesDone

(* Between two runs of the engine no reservation of the stage ahead is open. *)
LEMMA NoneOpen ==
  ASSUME EngineInv, BriefTypeOK, NEW r \in Runs, BriefProcess(r), ~StagesDone(r),
         At(r, "left"), proc[r].ret \in {"none", "ok"}
  PROVE  \A w \in PendingOf(r) : w.ref \notin StageRefs(stage[r])
<1> SUFFICES ASSUME NEW w \in PendingOf(r), w.ref \in StageRefs(stage[r]) PROVE FALSE
  OBVIOUS
<1>1. stage[r] \in DOMAIN Stages
  BY StageAt
<1>2. CASE proc[r].ret = "ok"
  BY <1>2 DEF BriefProcess, StageProgress, Reserved, InUse, LeftOpen, At, Stopped
<1>3. CASE proc[r].ret = "none"
  <2>1. PICK i \in DOMAIN Stages : Reached(r, i) /\ w.ref \in StageRefs(i)
    BY DEF BriefProcess, OfStages
  <2>2. i = stage[r]
    BY <1>1, <2>1, OneStagePerGroup
  <2>3. Between(r)
    BY <1>3 DEF Between
  <2> QED
    BY <2>1, <2>2, <2>3, StageAt DEF Reached
<1> QED
  BY <1>2, <1>3

-----------------------------------------------------------------------------
(* A request of which nothing is written, its brief included.                *)

Unbriefly(q) ==
    /\ Untouched(q)
    /\ stage'[q] = stage[q] /\ completed'[q] = completed[q]
    /\ omissions'[q] = omissions[q] /\ asOf'[q] = asOf[q]
    /\ BriefOf(q)' = BriefOf(q) /\ \A i \in BriefOf(q) : briefs'[i] = briefs[i]

LEMMA BriefUntouched ==
  ASSUME NEW q \in Runs, BriefProcess(q), Unbriefly(q)
  PROVE  BriefProcess(q)'
<1>1. /\ PendingOf(q)' = PendingOf(q)
      /\ \A ref : Audited(q, ref)' = Audited(q, ref)
      /\ \A S : Progress(q, S)' = Progress(q, S) /\ Reserved(q, S)' = Reserved(q, S)
      /\ Terminal(q)' = Terminal(q) /\ Deadline(q)' = Deadline(q)
  BY UntouchedWork DEF Unbriefly
<1>2. /\ proc'[q] = proc[q] /\ runs'[q] = runs[q]
      /\ stage'[q] = stage[q] /\ completed'[q] = completed[q]
      /\ omissions'[q] = omissions[q] /\ asOf'[q] = asOf[q]
      /\ BriefOf(q)' = BriefOf(q) /\ \A i \in BriefOf(q) : briefs'[i] = briefs[i]
  BY DEF Unbriefly, Untouched
<1>3. /\ AtWork(q)' = AtWork(q) /\ StagesDone(q)' = StagesDone(q)
      /\ \A i : Reached(q, i)' = Reached(q, i)
  BY <1>2 DEF AtWork, At, StagesDone, Reached, Between
<1>4. AtStage(q)'
  BY <1>2, <1>3 DEF BriefProcess, AtStage, At
<1>5. OfStages(q)'
  BY <1>1, <1>2, <1>3 DEF BriefProcess, OfStages, Unbriefly, Untouched
<1>6. StageProgress(q)'
  <2>1. \A S : S = StageRefs(stage[q]) => StageRefs(stage[q])' = S
    BY <1>2 DEF StageRefs
  <2> QED
    BY <1>1, <1>2, <1>3, <2>1 DEF BriefProcess, StageProgress, Progress, Reserved
<1>7. OneEnd(q)'
  <2>1. StuckByRetry(q)' = StuckByRetry(q)
    BY <1>1 DEF StuckByRetry
  <2>2. ASSUME NEW i \in BriefOf(q) PROVE Bound(q, i)'
    BY <1>1, <1>2, <2>2 DEF BriefProcess, OneEnd, Bound, WithinLifetime
  <2>3. (\E s \in snapshots' : s.run = q) <=> (\E s \in snapshots : s.run = q)
    BY DEF Unbriefly, Untouched
  <2> QED
    BY <1>1, <1>2, <2>1, <2>2, <2>3 DEF BriefProcess, OneEnd, At
<1> QED
  BY <1>4, <1>5, <1>6, <1>7 DEF BriefProcess

-----------------------------------------------------------------------------
(* A step of the engine in a brief.                                          *)

LEMMA BriefServes ==
  ASSUME EngineInv, BriefTypeOK, NEW r \in Runs, BriefProcess(r), Charted(r),
         UNCHANGED <<stage, completed, omissions, asOf, briefs>>
  PROVE  BriefProcess(r)'
<1>1. /\ Adds(r) /\ runs' = runs /\ snapshots' = snapshots /\ proc'[r].force = proc[r].force
      /\ PendingOf(r)' \subseteq PendingOf(r) \union (auths' \ auths)
      /\ \A ref : Audited(r, ref) => Audited(r, ref)'
  BY MoveAdds, PendingAfter DEF Charted, Alone
<1>2. /\ At(r, "idle")' => At(r, "idle")
      /\ At(r, "ended")' => At(r, "ended")
      /\ AtWork(r)' => AtWork(r)
      /\ Between(r)' => Between(r)
  BY MoveGoes DEF Between, At
<1>3. StagesDone(r)' = StagesDone(r) /\ \A i : Reached(r, i) => Reached(r, i)'
  BY <1>2 DEF StagesDone, Reached
<1>4. attempts' # attempts \/ auths' # auths =>
         /\ stage[r] \in DOMAIN Stages /\ Ref(r) \in StageRefs(stage[r])
         /\ Reached(r, stage[r])
  <2> SUFFICES ASSUME attempts' # attempts \/ auths' # auths
               PROVE  /\ stage[r] \in DOMAIN Stages /\ Ref(r) \in StageRefs(stage[r])
                      /\ Reached(r, stage[r])
    OBVIOUS
  <2>1. AtWork(r) /\ proc[r].pc \in InGroup /\ Ref(r) \in PlannedRefs(r)
    BY WorkAdds
  <2>2. ~StagesDone(r) /\ ~Between(r)
    BY <2>1 DEF BriefProcess, AtStage, Between, At, InGroup
  <2> QED
    BY <2>1, <2>2, StageAt DEF BriefProcess, StageProgress, Progress, Reached
<1>5. AtStage(r)'
  BY <1>1, <1>2, <1>3 DEF BriefProcess, AtStage
<1>6. OfStages(r)'
  <2>1. ASSUME NEW a \in attempts', a.run = r
        PROVE  \E i \in DOMAIN Stages : Reached(r, i)' /\ a.ref \in StageRefs(i)
    <3>1. CASE a \in attempts
      BY <1>3, <2>1, <3>1 DEF BriefProcess, OfStages
    <3>2. CASE a \notin attempts
      <4>1. a.ref = Ref(r)
        BY <1>1, <3>2 DEF Adds
      <4> QED
        BY <1>3, <1>4, <3>2, <4>1
    <3> QED
      BY <3>1, <3>2
  <2>2. ASSUME NEW w \in PendingOf(r)'
        PROVE  \E i \in DOMAIN Stages :
                  /\ Reached(r, i)' /\ w.ref \in StageRefs(i)
                  /\ i < stage[r] => Stages[i].name \in omissions[r]
    <3>1. CASE w \in PendingOf(r)
      BY <1>3, <3>1 DEF BriefProcess, OfStages
    <3>2. CASE w \in auths' \ auths
      <4>1. w.ref = Ref(r)
        BY <1>1, <3>2 DEF Adds
      <4> QED
        BY <1>3, <1>4, <3>2, <4>1, StageAt
    <3> QED
      BY <1>1, <3>1, <3>2
  <2> QED
    BY <2>1, <2>2 DEF OfStages
<1>7. StageProgress(r)'
  <2>1. ASSUME ~StagesDone(r)
        PROVE  Progress(r, StageRefs(stage[r]))' /\ Reserved(r, StageRefs(stage[r]))'
    <3> DEFINE S == StageRefs(stage[r])
    <3>1. Progress(r, S) /\ Reserved(r, S)
      BY <2>1 DEF BriefProcess, StageProgress
    <3>2. S' = S
      BY DEF StageRefs
    <3> HIDE DEF S
    <3>3. \A X : X = S => Progress(r, X)' /\ Reserved(r, X)'
      BY <3>1, ServesProgress, ServesReserved
    <3>4. Progress(r, S)' /\ Reserved(r, S)'
      BY <3>2, <3>3 DEF Progress, Reserved
    <3> QED
      BY <3>4 DEF S
  <2> QED
    BY <1>1, <1>3, <2>1 DEF BriefProcess, StageProgress
<1>8. OneEnd(r)'
  <2>1. At(r, "ended") => PendingOf(r)' = PendingOf(r)
    <3>1. At(r, "ended") => attempts' = attempts /\ auths' = auths
      BY WorkAdds DEF At, InGroup
    <3> QED
      BY <3>1 DEF PendingOf, Consumed
  <2>2. At(r, "ended")' => Terminal(r)' \/ StuckByRetry(r)'
    BY <1>1, <1>2, <2>1 DEF BriefProcess, OneEnd, StuckByRetry, Terminal
  <2>3. ASSUME NEW i \in BriefOf(r) PROVE Bound(r, i)'
    BY <1>1, <2>3 DEF BriefProcess, OneEnd, Bound, BriefOf, WithinLifetime, Deadline
  <2>4. BriefOf(r)' = BriefOf(r)
    BY DEF BriefOf
  <2> QED
    BY <1>1, <2>2, <2>3, <2>4 DEF BriefProcess, OneEnd
<1> QED
  BY <1>5, <1>6, <1>7, <1>8 DEF BriefProcess

-----------------------------------------------------------------------------
(* The handler of a brief: it answers for the engine or for itself while the *)
(* process is at "left".                                                     *)

Replies(r) ==
    /\ At(r, "left") /\ At(r, "left")'
    /\ UNCHANGED <<runs, attempts, auths, snapshots, now, cache, contacts, briefs>>
    /\ [Next]_vars
    /\ proc' \in [Runs -> Process]
    /\ \A q \in Runs \ {r} : proc'[q] = proc[q]
    /\ proc'[r].plan = proc[r].plan /\ proc'[r].number = proc[r].number
    /\ proc'[r].force = proc[r].force /\ proc'[r].seen = proc[r].seen
    /\ proc'[r].ret # "ok"

LEMMA RepliesHandles ==
  ASSUME EngineInv, NEW r \in Runs, Replies(r)
  PROVE  Handles(r)
<1>1. Carries(r) /\ Fresh(r)
  BY Standing
<1> QED
  BY <1>1 DEF Replies, Handles, Carries, Fresh, At, FirstOnly, InAttempt, Sees

LEMMA AnswerReplies ==
  ASSUME EngineInv, NEW r \in Runs, At(r, "left"),
         NEW how \in {"none", "budget", "error"}, Answer(r, how),
         UNCHANGED <<vars, now, cache, contacts, briefs>>
  PROVE  Replies(r) /\ proc'[r].ret = how
<1> DEFINE new == [proc[r] EXCEPT !.ret = how]
<1>1. proc \in [Runs -> Process] /\ proc[r] \in Process
  BY DEF EngineInv, SyncTypeOK
<1>2. proc' = [proc EXCEPT ![r] = new]
  BY <1>1 DEF Answer
<1>3. new \in Process
  BY <1>1 DEF Process
<1>4. /\ new.pc = proc[r].pc /\ new.plan = proc[r].plan /\ new.number = proc[r].number
      /\ new.force = proc[r].force /\ new.seen = proc[r].seen /\ new.ret = how
  BY <1>1 DEF Process
<1> HIDE DEF new
<1>5. proc' \in [Runs -> Process] /\ proc'[r] = new /\ \A q \in Runs \ {r} : proc'[q] = proc[q]
  BY <1>1, <1>2, <1>3
<1> QED
  BY <1>4, <1>5 DEF Replies, At, vars

(* The request fails where it stands. *)
LEMMA FailureKeeps ==
  ASSUME EngineInv, BriefTypeOK, NEW r \in Runs, BriefProcess(r), Replies(r),
         UNCHANGED <<stage, completed, omissions, asOf, briefs>>,
         proc[r].ret \in {"none", "ok"},
         proc'[r].ret \in {"budget", "error", "interrupt"}
  PROVE  BriefProcess(r)'
<1>1. /\ At(r, "left") /\ At(r, "left")'
      /\ UNCHANGED <<runs, attempts, auths, snapshots>>
      /\ proc'[r].force = proc[r].force
      /\ ~AtWork(r)' /\ ~Between(r)'
      /\ PendingOf(r)' = PendingOf(r) /\ \A ref : Audited(r, ref)' = Audited(r, ref)
  BY DEF Replies, AtWork, Between, At, InGroup, PendingOf, Consumed, Audited, AttemptsOf
<1>2. \A i : Reached(r, i) => Reached(r, i)'
  BY <1>1 DEF Reached
<1>3. StagesDone(r)' = StagesDone(r)
  BY DEF StagesDone
<1>4. AtStage(r)'
  BY <1>1, <1>3 DEF BriefProcess, AtStage, At
<1>5. OfStages(r)'
  BY <1>1, <1>2 DEF BriefProcess, OfStages
<1>6. StageProgress(r)'
  <2>1. ~StagesDone(r) => \A w \in PendingOf(r)' : w.ref \notin StageRefs(stage[r])'
    BY <1>1, NoneOpen DEF StageRefs
  <2> QED
    BY <1>1, <1>3, <2>1 DEF BriefProcess, StageProgress, Progress, Reserved
<1>7. OneEnd(r)'
  <2>1. BriefOf(r)' = BriefOf(r) /\ \A i \in BriefOf(r) : Bound(r, i)'
    BY <1>1 DEF BriefProcess, OneEnd, Bound, BriefOf, WithinLifetime, Deadline
  <2> QED
    BY <1>1, <2>1 DEF BriefProcess, OneEnd, At
<1> QED
  BY <1>4, <1>5, <1>6, <1>7 DEF BriefProcess

(* What a step of the handler keeps, of its own brief and of the others. *)
Handled(r) ==
    /\ Handles(r)
    /\ BriefTypeOK' /\ BriefsInOrder' /\ BriefProcess(r)'
    /\ \A q \in Runs \ {r} : Unbriefly(q)

LEMMA QuietlyHandled ==
  ASSUME BriefTypeOK, BriefsInOrder, NEW r \in Runs, Handles(r), BriefProcess(r)',
         stage' \in [Runs -> 1..(Len(Stages) + 1)],
         completed' \in [Runs -> SUBSET FieldIds], omissions' \in [Runs -> SUBSET FieldIds],
         asOf' \in [Runs -> Times \union {NoTime}],
         briefs' = briefs,
         \A q \in Runs \ {r} :
            /\ stage'[q] = stage[q] /\ completed'[q] = completed[q]
            /\ omissions'[q] = omissions[q] /\ asOf'[q] = asOf[q]
  PROVE  Handled(r)
<1>1. BriefTypeOK'
  BY DEF BriefTypeOK
<1>2. BriefsInOrder'
  BY DEF BriefsInOrder
<1>3. \A q \in Runs \ {r} : Unbriefly(q)
  BY OthersUntouched DEF Unbriefly, BriefOf
<1> QED
  BY <1>1, <1>2, <1>3 DEF Handled

(* The request fails where it stands, or is closed by an interruption. *)
LEMMA FailureHandled ==
  ASSUME EngineInv, BriefTypeOK, BriefsInOrder, NEW r \in Runs, BriefProcess(r), Replies(r),
         UNCHANGED briefLocals,
         proc[r].ret \in {"none", "ok"},
         proc'[r].ret \in {"budget", "error", "interrupt"}
  PROVE  Handled(r)
<1>1. UNCHANGED <<stage, completed, omissions, asOf, briefs>>
  BY DEF briefLocals, Replies
<1>2. BriefProcess(r)' /\ Handles(r)
  BY <1>1, FailureKeeps, RepliesHandles
<1> QED
  BY <1>1, <1>2, QuietlyHandled DEF BriefTypeOK

(* A stage is behind, completed or not. *)
LEMMA StageBehind ==
  ASSUME EngineInv, BriefTypeOK, NEW r \in Runs, BriefProcess(r), Replies(r),
         proc'[r].ret \in {"none", "budget"},
         ~StagesDone(r), ~Between(r),
         stage'[r] = stage[r] + 1, asOf'[r] = asOf[r],
         completed'[r] \subseteq completed[r] \union {Stages[stage[r]].name},
         omissions[r] \subseteq omissions'[r],
         \A w \in PendingOf(r) : w.ref \in StageRefs(stage[r]) =>
            Stages[stage[r]].name \in omissions'[r],
         omissions'[r] = {} => \A ref \in StageRefs(stage[r]) : Audited(r, ref)
  PROVE  BriefProcess(r)'
<1>1. /\ At(r, "left") /\ At(r, "left")'
      /\ UNCHANGED <<runs, attempts, auths, snapshots, briefs>>
      /\ proc'[r].force = proc[r].force
      /\ ~AtWork(r)'
      /\ PendingOf(r)' = PendingOf(r) /\ \A ref : Audited(r, ref)' = Audited(r, ref)
  BY DEF Replies, AtWork, At, InGroup, PendingOf, Consumed, Audited, AttemptsOf
<1>2. stage[r] \in DOMAIN Stages /\ stage[r] \in Nat /\ DOMAIN Stages \subseteq Nat
  BY StageAt
<1>3. \A i \in DOMAIN Stages : Reached(r, i) => i < stage[r] + 1
  BY <1>2 DEF Reached
<1>4. \A i \in DOMAIN Stages : Reached(r, i) => Reached(r, i)'
  BY <1>3 DEF Reached
<1>5. \A i \in DOMAIN Stages : i < stage[r] + 1 => i < stage[r] \/ i = stage[r]
  BY <1>2
<1>6. AtStage(r)'
  <2>1. asOf[r] = NoTime
    BY DEF BriefProcess, AtStage
  <2>2. \A x \in completed'[r] : \E i \in DOMAIN Stages : i < stage'[r] /\ x = Stages[i].name
    <3>1. \A i \in DOMAIN Stages : i < stage[r] => i < stage[r] + 1
      BY <1>2
    <3>2. stage[r] < stage[r] + 1
      BY <1>2
    <3> QED
      BY <1>2, <3>1, <3>2 DEF BriefProcess, AtStage
  <2> QED
    BY <1>1, <2>1, <2>2 DEF BriefProcess, AtStage, At
<1>7. OfStages(r)'
  <2>1. \A a \in attempts : a.run = r =>
           \E i \in DOMAIN Stages : Reached(r, i)' /\ a.ref \in StageRefs(i)
    BY <1>4 DEF BriefProcess, OfStages
  <2>2. ASSUME NEW w \in PendingOf(r)
        PROVE  \E i \in DOMAIN Stages :
                  /\ Reached(r, i)' /\ w.ref \in StageRefs(i)
                  /\ i < stage[r] + 1 => Stages[i].name \in omissions'[r]
    <3>1. PICK i \in DOMAIN Stages :
             /\ Reached(r, i) /\ w.ref \in StageRefs(i)
             /\ i < stage[r] => Stages[i].name \in omissions[r]
      BY DEF BriefProcess, OfStages
    <3>2. Stages[i].name \in omissions'[r]
      BY <1>3, <1>5, <3>1
    <3> QED
      BY <1>4, <3>1, <3>2
  <2> QED
    BY <1>1, <2>1, <2>2 DEF OfStages, StageRefs
<1>8. StageProgress(r)'
  <2>1. Progress(r, StageRefs(stage[r]))' /\ Reserved(r, StageRefs(stage[r]))'
    BY <1>1 DEF Progress, Reserved, LeftOpen, At
  <2>2. omissions'[r] = {} =>
           \A i \in DOMAIN Stages : i < stage[r] + 1 => \A ref \in StageRefs(i) : Audited(r, ref)
    BY <1>5 DEF BriefProcess, StageProgress
  <2> QED
    BY <1>1, <2>1, <2>2 DEF StageProgress, StageRefs
<1>9. OneEnd(r)'
  <2>1. BriefOf(r)' = BriefOf(r) /\ \A i \in BriefOf(r) : Bound(r, i)'
    BY <1>1 DEF BriefProcess, OneEnd, Bound, BriefOf, WithinLifetime, Deadline
  <2> QED
    BY <1>1, <2>1 DEF BriefProcess, OneEnd, At
<1> QED
  BY <1>6, <1>7, <1>8, <1>9 DEF BriefProcess

-----------------------------------------------------------------------------
(* The steps of the handler.                                                 *)

LEMMA StartBriefStep ==
  ASSUME EngineInv, BriefTypeOK, BriefsInOrder, NEW r \in Runs, BriefProcess(r),
         NEW mode \in Modes, StartBrief(r, mode)
  PROVE  Handled(r)
<1> DEFINE row == [status |-> "running", mode |-> mode, started |-> now,
                   finished |-> NoTime, omitted |-> {}]
<1>1. /\ At(r, "idle")
      /\ BeginRequest(r, mode, now)
      /\ Go(r, "left")
      /\ UNCHANGED <<now, cache, contacts, briefs>>
      /\ UNCHANGED <<stage, completed, omissions, asOf>>
  BY DEF StartBrief, briefLocals
<1>2. /\ proc \in [Runs -> Process]
      /\ runs \in [Runs -> RunRow] /\ now \in Times
      /\ runs[r].status = "absent"
      /\ Carries(r) /\ Fresh(r)
  BY <1>1, Standing DEF SyncTypeOK, TypeOK, Lives
<1>3. /\ proc' \in [Runs -> Process]
      /\ \A q \in Runs \ {r} : proc'[q] = proc[q]
      /\ proc'[r].pc = "left"
      /\ SameGroup(r)
      /\ proc'[r].force = proc[r].force /\ proc'[r].seen = proc[r].seen
  BY <1>1, <1>2, Standing, GoFields DEF Pcs
<1>4. /\ UNCHANGED <<attempts, auths, snapshots, budget>>
      /\ runs'[r] = row /\ \A q \in Runs \ {r} : runs'[q] = runs[q]
      /\ row.status = "running" /\ row.started = now
  BY <1>1, <1>2 DEF BeginRequest
<1> HIDE DEF row
<1>5. Next
  BY <1>1, <1>2 DEF Next
<1>6. /\ PendingOf(r) = {} /\ \A a \in attempts : a.run # r
  BY <1>2, NothingYet
<1>7. /\ proc'[r].ret = "none" /\ proc'[r].number = 1
      /\ \A s \in Sections : ~Sees(r, s)'
      /\ Distinct(proc'[r].plan)
  BY <1>1, <1>2, <1>3 DEF SameGroup, Carries, Fresh, At, FirstOnly, InAttempt, Sees
<1>8. Handles(r)
  BY <1>1, <1>3, <1>4, <1>5, <1>7 DEF Handles, BeginsRun
<1>9. /\ ~AtWork(r)' /\ At(r, "left")'
      /\ PendingOf(r)' = {} /\ \A ref : Audited(r, ref)' = Audited(r, ref)
  BY <1>3, <1>4, <1>6, <1>7 DEF AtWork, At, InGroup, PendingOf, Consumed, Audited, AttemptsOf
<1>10. AtStage(r)'
  BY <1>1, <1>3, <1>9 DEF BriefProcess, AtStage, At
<1>11. OfStages(r)'
  BY <1>4, <1>6, <1>9 DEF OfStages
<1>12. StageProgress(r)'
  BY <1>1, <1>9 DEF BriefProcess, StageProgress, Progress, Reserved, StageRefs
<1>13. OneEnd(r)'
  <2>1. BriefOf(r) = {} /\ ~(\E s \in snapshots : s.run = r)
    BY <1>2 DEF BriefProcess, OneEnd
  <2> QED
    BY <1>1, <1>3, <1>4, <2>1 DEF OneEnd, BriefOf, At
<1> QED
  BY <1>1, <1>8, <1>10, <1>11, <1>12, <1>13, QuietlyHandled DEF BriefProcess, BriefTypeOK

LEMMA NextStageStep ==
  ASSUME EngineInv, BriefTypeOK, BriefsInOrder, NEW r \in Runs, BriefProcess(r), NextStage(r)
  PROVE  Handled(r)
<1>1. /\ At(r, "left") /\ proc[r].ret = "none" /\ ~StagesDone(r) /\ Between(r)
      /\ UNCHANGED <<vars, now, cache, contacts, briefs>>
      /\ UNCHANGED briefLocals
      /\ UNCHANGED <<stage, completed, omissions, asOf>>
  BY DEF NextStage, Between, briefLocals
<1>2. CASE Answer(r, "budget")
  BY <1>1, <1>2, AnswerReplies, FailureHandled
<1> DEFINE S == StageRefs(stage[r])
           new == [proc[r] EXCEPT !.pc = "choose", !.plan = Stages[stage[r]].groups,
                                  !.omitted = {}]
<1>3. CASE proc' = [proc EXCEPT ![r] = new]
  <2>1. /\ proc \in [Runs -> Process] /\ proc[r] \in Process
        /\ Carries(r)
    BY Standing DEF SyncTypeOK
  <2>2. stage[r] \in DOMAIN Stages
    BY <1>1, StageAt
  <2>3. /\ Stages[stage[r]].groups \in Seq(Refs) /\ Distinct(Stages[stage[r]].groups)
        /\ {} \in SUBSET FieldIds
    BY <2>2, StageFields
  <2>4. new \in Process
    BY <2>1, <2>3 DEF Process, Pcs
  <2>5. /\ new.pc = "choose" /\ new.plan = Stages[stage[r]].groups /\ new.omitted = {}
        /\ new.number = proc[r].number /\ new.seen = proc[r].seen
        /\ new.force = proc[r].force
    BY <2>1 DEF Process
  <2> HIDE DEF new
  <2>6. proc' \in [Runs -> Process] /\ proc'[r] = new /\ \A q \in Runs \ {r} : proc'[q] = proc[q]
    BY <1>3, <2>1, <2>4
  <2>7. PlannedRefs(r)' = S
    BY <2>5, <2>6 DEF PlannedRefs, StageRefs
  <2>8. \A ref \in S : AttemptsOf(r, ref) = {}
    <3> SUFFICES ASSUME NEW a \in attempts, a.run = r, a.ref \in S PROVE FALSE
      BY DEF AttemptsOf
    <3>1. PICK i \in DOMAIN Stages : Reached(r, i) /\ a.ref \in StageRefs(i)
      BY DEF BriefProcess, OfStages
    <3>2. i = stage[r]
      BY <2>2, <3>1, OneStagePerGroup
    <3> QED
      BY <1>1, <3>1, <3>2, StageAt DEF Reached
  <2>9. /\ UNCHANGED <<runs, attempts, auths, snapshots, budget, now, cache, contacts>>
    BY <1>1 DEF vars
  <2>10. proc'[r].number = 1 /\ \A s \in Sections : ~Sees(r, s)'
    BY <1>1, <2>1, <2>5, <2>6 DEF Carries, At, FirstOnly, InAttempt, Sees
  <2>11. Handles(r)
    BY <1>1, <2>3, <2>5, <2>6, <2>7, <2>8, <2>9, <2>10 DEF Handles
  <2>12. /\ PendingOf(r)' = PendingOf(r) /\ \A ref : Audited(r, ref)' = Audited(r, ref)
         /\ StagesDone(r)' = StagesDone(r)
         /\ ~At(r, "idle")' /\ ~At(r, "ended")'
    BY <1>1, <2>5, <2>6, <2>9
    DEF PendingOf, Consumed, Audited, AttemptsOf, StagesDone, At
  <2>13. \A i : Reached(r, i) => Reached(r, i)'
    BY <1>1 DEF Reached
  <2>14. AtStage(r)'
    BY <1>1, <2>5, <2>6, <2>12 DEF BriefProcess, AtStage
  <2>15. OfStages(r)'
    BY <1>1, <2>9, <2>12, <2>13 DEF BriefProcess, OfStages
  <2>16. StageProgress(r)'
    <3>1. \A w \in PendingOf(r) : w.ref \notin S
      BY <1>1, NoneOpen
    <3>2. Progress(r, S)' /\ Reserved(r, S)'
      <4>1. S' = S
        BY <1>1 DEF StageRefs
      <4> HIDE DEF S
      <4> QED
        BY <2>7, <2>12, <3>1, <4>1 DEF Progress, Reserved
    <3> QED
      BY <1>1, <2>12, <3>2 DEF BriefProcess, StageProgress, StageRefs
  <2>17. OneEnd(r)'
    <3>1. BriefOf(r)' = BriefOf(r) /\ \A i \in BriefOf(r) : Bound(r, i)'
      BY <1>1, <2>9 DEF BriefProcess, OneEnd, Bound, BriefOf, WithinLifetime, Deadline
    <3> QED
      BY <1>1, <2>9, <2>12, <3>1 DEF BriefProcess, OneEnd
  <2> QED
    BY <1>1, <2>11, <2>14, <2>15, <2>16, <2>17, QuietlyHandled DEF BriefProcess, BriefTypeOK
<1> QED
  BY <1>2, <1>3 DEF NextStage

LEMMA StageReturnedStep ==
  ASSUME EngineInv, BriefTypeOK, BriefsInOrder, NEW r \in Runs, BriefProcess(r),
         StageReturned(r)
  PROVE  Handled(r)
<1>1. /\ At(r, "left") /\ proc[r].ret = "ok" /\ ~StagesDone(r) /\ ~Between(r)
      /\ UNCHANGED <<vars, now, cache, contacts, briefs>>
  BY DEF StageReturned, Returned, BriefProcess, AtStage, AtWork, Between
<1>2. CASE Answer(r, "budget") /\ UNCHANGED briefLocals
  BY <1>1, <1>2, AnswerReplies, FailureHandled
<1>3. CASE ~(Answer(r, "budget") /\ UNCHANGED briefLocals)
  <2> DEFINE name == Stages[stage[r]].name
             poor == IF \E s \in StageSections(stage[r]) : cache[s] = NoEntry \/ ~cache[s].ok
                     THEN OmittedStage(r) ELSE {}
  <2>1. /\ Answer(r, "none")
        /\ completed' = [completed EXCEPT ![r] = @ \union {name}]
        /\ omissions' = [omissions EXCEPT ![r] = @ \union proc[r].omitted \union poor]
        /\ stage' = [stage EXCEPT ![r] = @ + 1]
        /\ UNCHANGED asOf
    BY <1>3 DEF StageReturned
  <2>2. Replies(r) /\ proc'[r].ret = "none"
    BY <1>1, <2>1, AnswerReplies
  <2>3. stage[r] \in DOMAIN Stages /\ stage[r] \in Nat /\ Len(Stages) \in Nat
        /\ stage[r] + 1 \in 1..(Len(Stages) + 1)
    BY <1>1, StageAt
  <2>4. name \in FieldIds /\ poor \subseteq {name}
    BY <2>3, StageFields DEF OmittedStage
  <2>5. proc[r].omitted \in SUBSET FieldIds
    BY ProcessFields DEF EngineInv
  <2> HIDE DEF name, poor
  <2>6. /\ stage' \in [Runs -> 1..(Len(Stages) + 1)]
        /\ completed' \in [Runs -> SUBSET FieldIds] /\ omissions' \in [Runs -> SUBSET FieldIds]
        /\ asOf' \in [Runs -> Times \union {NoTime}]
    BY <2>1, <2>3, <2>4, <2>5 DEF BriefTypeOK
  <2>7. /\ stage'[r] = stage[r] + 1 /\ asOf' = asOf
        /\ completed'[r] = completed[r] \union {name}
        /\ omissions'[r] = omissions[r] \union proc[r].omitted \union poor
        /\ \A q \in Runs \ {r} : stage'[q] = stage[q] /\ completed'[q] = completed[q]
                                 /\ omissions'[q] = omissions[q]
    BY <2>1 DEF BriefTypeOK
  <2>8. \A w \in PendingOf(r) : w.ref \notin StageRefs(stage[r])
    BY <1>1, NoneOpen
  <2>9. ASSUME omissions'[r] = {}, NEW ref \in StageRefs(stage[r])
        PROVE  Audited(r, ref)
    <3>1. proc[r].omitted = {}
      BY <2>7, <2>9
    <3>2. proc[r].plan = <<>>
      BY <1>1, Standing DEF Carries
    <3>3. PlannedRefs(r) = {}
      BY <3>2 DEF PlannedRefs
    <3> QED
      BY <1>1, <2>9, <3>1, <3>3 DEF BriefProcess, StageProgress, Progress, AtWork
  <2>10. BriefProcess(r)'
    BY <1>1, <2>2, <2>7, <2>8, <2>9, StageBehind DEF name
  <2> QED
    BY <1>1, <2>2, <2>6, <2>7, <2>10, RepliesHandles, QuietlyHandled
<1> QED
  BY <1>2, <1>3

LEMMA StageFailedStep ==
  ASSUME EngineInv, BriefTypeOK, BriefsInOrder, NEW r \in Runs, BriefProcess(r),
         StageFailed(r)
  PROVE  Handled(r)
<1> DEFINE name == Stages[stage[r]].name
<1>1. /\ At(r, "left") /\ ~StagesDone(r) /\ ~Between(r)
      /\ UNCHANGED <<vars, now, cache, contacts, completed, asOf, briefs>>
      /\ omissions' = [omissions EXCEPT ![r] = @ \union {name}]
      /\ stage' = [stage EXCEPT ![r] = @ + 1]
  BY DEF StageFailed, Returned, Between, OmittedStage
<1>2. Answer(r, "budget") \/ Answer(r, "none")
  BY DEF StageFailed
<1>3. Replies(r) /\ proc'[r].ret \in {"none", "budget"}
  BY <1>1, <1>2, AnswerReplies
<1>4. stage[r] \in DOMAIN Stages /\ stage[r] \in Nat /\ Len(Stages) \in Nat
      /\ stage[r] + 1 \in 1..(Len(Stages) + 1)
  BY <1>1, StageAt
<1>5. name \in FieldIds
  BY <1>4, StageFields
<1> HIDE DEF name
<1>6. /\ stage' \in [Runs -> 1..(Len(Stages) + 1)]
      /\ omissions' \in [Runs -> SUBSET FieldIds]
      /\ stage'[r] = stage[r] + 1
      /\ omissions'[r] = omissions[r] \union {name}
      /\ \A q \in Runs \ {r} : stage'[q] = stage[q] /\ omissions'[q] = omissions[q]
  BY <1>1, <1>4, <1>5 DEF BriefTypeOK
<1>7. BriefProcess(r)'
  BY <1>1, <1>3, <1>6, StageBehind DEF name
<1> QED
  BY <1>1, <1>3, <1>6, <1>7, RepliesHandles, QuietlyHandled DEF BriefTypeOK

LEMMA TakeFactsStep ==
  ASSUME EngineInv, BriefTypeOK, BriefsInOrder, NEW r \in Runs, BriefProcess(r),
         NEW others \in SUBSET OtherWork, TakeFacts(r, others)
  PROVE  Handled(r)
<1>1. /\ At(r, "left") /\ proc[r].ret = "none" /\ Between(r) /\ StagesDone(r)
      /\ UNCHANGED <<vars, now, cache, contacts, briefs>>
  BY DEF TakeFacts, Between
<1>2. CASE Answer(r, "budget") /\ UNCHANGED briefLocals
  BY <1>1, <1>2, AnswerReplies, FailureHandled
<1>3. CASE ~(Answer(r, "budget") /\ UNCHANGED briefLocals)
  <2>1. /\ asOf' = [asOf EXCEPT ![r] = now]
        /\ omissions' = [omissions EXCEPT ![r] = @ \union others]
        /\ UNCHANGED <<proc, stage, completed>>
    BY <1>3 DEF TakeFacts
  <2>2. proc \in [Runs -> Process] /\ now \in Times
    BY Standing DEF SyncTypeOK
  <2>3. others \in SUBSET FieldIds
    BY StagesAssumption
  <2>4. /\ omissions' \in [Runs -> SUBSET FieldIds]
        /\ asOf' \in [Runs -> Times \union {NoTime}]
        /\ omissions'[r] = omissions[r] \union others
        /\ \A q \in Runs \ {r} : omissions'[q] = omissions[q] /\ asOf'[q] = asOf[q]
    BY <2>1, <2>2, <2>3 DEF BriefTypeOK
  <2>5. Handles(r)
    <3>1. Replies(r)
      BY <1>1, <2>1, <2>2 DEF Replies, At, vars
    <3> QED
      BY <3>1, RepliesHandles
  <2>6. UNCHANGED <<runs, attempts, auths, snapshots, proc, stage, completed, briefs>>
    BY <1>1, <2>1 DEF vars
  <2>7. /\ PendingOf(r)' = PendingOf(r) /\ \A ref : Audited(r, ref)' = Audited(r, ref)
        /\ StagesDone(r)' /\ ~At(r, "idle")' /\ ~At(r, "ended")'
        /\ AtWork(r)' = AtWork(r) /\ \A i : Reached(r, i)' = Reached(r, i)
    BY <1>1, <2>6
    DEF PendingOf, Consumed, Audited, AttemptsOf, StagesDone, At, AtWork, Reached, Between
  <2>8. AtStage(r)'
    BY <1>1, <2>6, <2>7 DEF BriefProcess, AtStage
  <2>9. OfStages(r)'
    BY <2>4, <2>6, <2>7 DEF BriefProcess, OfStages, StageRefs
  <2>10. StageProgress(r)'
    BY <2>4, <2>6, <2>7 DEF BriefProcess, StageProgress, StageRefs
  <2>11. OneEnd(r)'
    <3>1. BriefOf(r)' = BriefOf(r) /\ \A i \in BriefOf(r) : Bound(r, i)'
      BY <2>6 DEF BriefProcess, OneEnd, Bound, BriefOf, WithinLifetime, Deadline
    <3> QED
      BY <2>6, <2>7, <3>1 DEF BriefProcess, OneEnd
  <2>12. BriefProcess(r)'
    BY <2>8, <2>9, <2>10, <2>11 DEF BriefProcess
  <2> QED
    BY <2>4, <2>5, <2>6, <2>12, QuietlyHandled DEF BriefTypeOK
<1> QED
  BY <1>2, <1>3

LEMMA PublicationFailsStep ==
  ASSUME EngineInv, BriefTypeOK, BriefsInOrder, NEW r \in Runs, BriefProcess(r),
         PublicationFails(r)
  PROVE  Handled(r)
<1>1. /\ At(r, "left") /\ proc[r].ret = "none"
      /\ UNCHANGED <<vars, now, cache, contacts, briefs>> /\ UNCHANGED briefLocals
      /\ Answer(r, "budget") \/ Answer(r, "error")
  BY DEF PublicationFails, Ready, Between
<1>2. Replies(r) /\ proc'[r].ret \in {"budget", "error"}
  BY <1>1, AnswerReplies
<1> QED
  BY <1>1, <1>2, FailureHandled

LEMMA HandlerFailsStep ==
  ASSUME EngineInv, BriefTypeOK, BriefsInOrder, NEW r \in Runs, BriefProcess(r),
         HandlerFails(r)
  PROVE  Handled(r)
<1>1. /\ At(r, "left") /\ proc[r].ret = "none" /\ Answer(r, "error")
      /\ UNCHANGED <<vars, now, cache, contacts, briefs>> /\ UNCHANGED briefLocals
  BY DEF HandlerFails, Between
<1>2. Replies(r) /\ proc'[r].ret = "error"
  BY <1>1, AnswerReplies
<1> QED
  BY <1>1, <1>2, FailureHandled

LEMMA HandlerInterruptedStep ==
  ASSUME EngineInv, BriefTypeOK, BriefsInOrder, NEW r \in Runs, BriefProcess(r),
         HandlerInterrupted(r)
  PROVE  Handled(r)
<1>1. PICK how \in {"interrupt", "budget"} :
         proc' = [proc EXCEPT ![r] = [proc[r] EXCEPT !.ret = how, !.why = Reason(r, "other")]]
  BY DEF HandlerInterrupted
<1>2. /\ At(r, "left") /\ proc[r].ret \in {"none", "ok"} /\ Close(r)
      /\ UNCHANGED <<tables, now, cache, contacts, briefs>> /\ UNCHANGED briefLocals
  BY DEF HandlerInterrupted
<1> DEFINE new == [proc[r] EXCEPT !.ret = how, !.why = Reason(r, "other")]
<1>3. /\ proc \in [Runs -> Process] /\ proc[r] \in Process /\ Running(r)
      /\ TypeOK
  BY <1>2, Standing DEF SyncTypeOK, Lives, At, Stopped
<1>4. Reason(r, "other") \in {"none", "expiry", "other"}
  BY Standing, ReasonTyped
<1>5. new \in Process
  BY <1>3, <1>4 DEF Process
<1>6. /\ new.pc = proc[r].pc /\ new.plan = proc[r].plan /\ new.number = proc[r].number
      /\ new.force = proc[r].force /\ new.seen = proc[r].seen /\ new.ret = how
  BY <1>3 DEF Process
<1> HIDE DEF new
<1>7. proc' \in [Runs -> Process] /\ proc'[r] = new /\ \A q \in Runs \ {r} : proc'[q] = proc[q]
  BY <1>1, <1>3, <1>5 DEF new
<1>8. [Next]_vars
  BY <1>2, <1>3, CloseIsNext
<1>9. Replies(r)
  BY <1>2, <1>6, <1>7, <1>8 DEF Replies, At, tables
<1> QED
  BY <1>2, <1>6, <1>7, <1>9, FailureHandled

(* The request has ended, or is given up: what is left is its end. *)
LEMMA OverKeeps ==
  ASSUME NEW r \in Runs, BriefProcess(r), At(r, "left"),
         proc'[r].pc = "ended", proc'[r].force = proc[r].force,
         UNCHANGED <<attempts, auths, stage, completed, omissions, asOf>>,
         OneEnd(r)'
  PROVE  BriefProcess(r)'
<1>1. /\ ~AtWork(r)' /\ ~At(r, "idle")' /\ ~Between(r)' /\ StagesDone(r)' = StagesDone(r)
      /\ proc'[r].pc \in Stopped
      /\ PendingOf(r)' = PendingOf(r) /\ \A ref : Audited(r, ref)' = Audited(r, ref)
  BY DEF AtWork, Between, StagesDone, Stopped, At, InGroup, PendingOf, Consumed, Audited,
         AttemptsOf
<1>2. \A i : Reached(r, i) => Reached(r, i)'
  BY <1>1 DEF Reached
<1>3. AtStage(r)'
  BY <1>1 DEF BriefProcess, AtStage
<1>4. OfStages(r)'
  BY <1>1, <1>2 DEF BriefProcess, OfStages, StageRefs
<1>5. StageProgress(r)'
  BY <1>1 DEF BriefProcess, StageProgress, Progress, Reserved, StageRefs
<1> QED
  BY <1>3, <1>4, <1>5 DEF BriefProcess

(* The steps that end a request: what they share. *)
Ends(r) ==
    /\ At(r, "left") /\ Go(r, "ended")
    /\ UNCHANGED <<attempts, auths, budget, now, cache, contacts>>
    /\ UNCHANGED briefLocals

LEMMA EndsFields ==
  ASSUME EngineInv, BriefTypeOK, NEW r \in Runs, BriefProcess(r), Ends(r)
  PROVE  /\ proc' \in [Runs -> Process] /\ \A q \in Runs \ {r} : proc'[q] = proc[q]
         /\ proc'[r].pc = "ended" /\ proc'[r].number = 1 /\ proc'[r].force = proc[r].force
         /\ \A s \in Sections : ~Sees(r, s)'
         /\ Distinct(proc'[r].plan)
         /\ UNCHANGED <<stage, completed, omissions, asOf>>
         /\ Running(r) /\ BriefOf(r) = {} /\ \A s \in snapshots : s.run # r
<1>1. SyncTypeOK /\ Lives(r) /\ Carries(r) /\ Fresh(r)
  BY Standing
<1>2. Running(r)
  BY <1>1 DEF Ends, Lives, At, Stopped
<1>3. BriefOf(r) = {} /\ \A s \in snapshots : s.run # r
  BY <1>2 DEF BriefProcess, OneEnd, Running
<1>4. /\ proc' \in [Runs -> Process]
      /\ \A q \in Runs \ {r} : proc'[q] = proc[q]
      /\ proc'[r].pc = "ended"
      /\ SameGroup(r)
      /\ proc'[r].force = proc[r].force /\ proc'[r].seen = proc[r].seen
  BY <1>1, GoFields DEF Pcs, Ends
<1>5. proc'[r].number = 1 /\ Distinct(proc'[r].plan) /\ \A s \in Sections : ~Sees(r, s)'
  BY <1>1, <1>4 DEF Ends, SameGroup, Carries, Fresh, At, FirstOnly, Sees, InAttempt
<1> QED
  BY <1>2, <1>3, <1>4, <1>5 DEF Ends, briefLocals

LEMMA UnpublishedTyped ==
  ASSUME EngineInv, BriefTypeOK, NEW r \in Runs
  PROVE  /\ UnpublishedStatus(r) \in {"failed", "cancelled", "expired"}
         /\ UnpublishedAt(r) \in Times \union {Deadline(r)}
         /\ UnpublishedAt(r) = now \/ UnpublishedAt(r) = Deadline(r)
         /\ RemainingOmissions(r) \in SUBSET FieldIds
<1>1. now \in Times
  BY Standing
<1>2. omissions[r] \in SUBSET FieldIds
  BY DEF BriefTypeOK
<1>3. RemainingOmissions(r) \in SUBSET FieldIds
  BY <1>2, StageNamesTyped, StagesAssumption DEF RemainingOmissions
<1> QED
  BY <1>1, <1>3 DEF UnpublishedStatus, UnpublishedAt

LEMMA FinalizeUnpublishedStep ==
  ASSUME EngineInv, BriefTypeOK, BriefsInOrder, NEW r \in Runs, BriefProcess(r),
         FinalizeUnpublished(r)
  PROVE  Handled(r)
<1> DEFINE status == UnpublishedStatus(r)
           t == UnpublishedAt(r)
           omitted == RemainingOmissions(r)
<1>1. /\ FinalizeRequest(r, status, t, omitted)
      /\ Ends(r) /\ UNCHANGED <<snapshots, briefs>>
  BY DEF FinalizeUnpublished, Unpublished, Returned, Ends, FinalizeRequest
<1>2. /\ status \in {"failed", "cancelled", "expired"} /\ t \in Times \union {Deadline(r)}
      /\ t = now \/ t = Deadline(r)
      /\ omitted \in SUBSET FieldIds
  BY UnpublishedTyped
<1> HIDE DEF status, t, omitted
<1>3. status \in TerminalStatuses /\ TypeOK
  BY <1>2, Standing DEF TerminalStatuses
<1>4. Next
  BY <1>1, <1>2, <1>3 DEF Next
<1>5. runs' = Finished(r, status, t, omitted)
  BY <1>1 DEF FinalizeRequest
<1>6. /\ runs'[r].status = status /\ runs'[r].finished = t
      /\ \A q \in Runs : q # r => runs'[q] = runs[q]
      /\ runs'[r].started = runs[r].started /\ runs'[r].mode = runs[r].mode
  BY <1>3, <1>5 DEF Finished, TypeOK, RunRow
<1>7. /\ proc' \in [Runs -> Process] /\ \A q \in Runs \ {r} : proc'[q] = proc[q]
      /\ proc'[r].pc = "ended" /\ proc'[r].number = 1 /\ proc'[r].force = proc[r].force
      /\ \A s \in Sections : ~Sees(r, s)'
      /\ Distinct(proc'[r].plan)
      /\ UNCHANGED <<stage, completed, omissions, asOf>>
      /\ BriefOf(r) = {} /\ \A s \in snapshots : s.run # r
  BY <1>1, EndsFields
<1>8. EndsRun(r)
  BY <1>2, <1>3, <1>6, <1>7 DEF EndsRun
<1>9. Handles(r)
  BY <1>1, <1>4, <1>6, <1>7, <1>8 DEF Handles, Ends
<1>10. OneEnd(r)'
  BY <1>1, <1>2, <1>3, <1>6, <1>7 DEF OneEnd, BriefOf, Terminal
<1>11. BriefProcess(r)'
  BY <1>1, <1>7, <1>10, OverKeeps DEF Ends
<1> QED
  BY <1>1, <1>7, <1>9, <1>11, QuietlyHandled DEF BriefTypeOK

(* What the store refuses at the end of a brief without publication is a     *)
(* retry that was reserved and never used, and that no name covers.          *)
LEMMA RefusedIsStuck ==
  ASSUME EngineInv, BriefTypeOK, NEW r \in Runs, BriefProcess(r), Running(r),
         \A s \in snapshots : s.run # r,
         ~FinishAdmissible(r, UnpublishedStatus(r), UnpublishedAt(r), RemainingOmissions(r),
                           snapshots)
  PROVE  StuckByRetry(r)
<1>1. /\ UnpublishedStatus(r) # "complete"
      /\ UnpublishedAt(r) = now \/ UnpublishedAt(r) = Deadline(r)
  BY UnpublishedTyped
<1>2. runs[r].started <= now /\ runs[r].started <= Deadline(r)
  <2>1. runs[r].started <= now
    BY Standing DEF Lives, Running
  <2>2. runs[r].started \in Nat
    BY Standing, Zenon
  <2>3. runs[r].started <= Deadline(r)
    BY <2>2, AuditAssumption DEF Deadline
  <2> QED
    BY <2>1, <2>3
<1>3. \A a \in attempts : a.run = r => a.finished <= now /\ a.finished <= Deadline(r)
  BY DEF EngineInv, OnRecord
<1>4. PICK w \in PendingOf(r) : FieldOf[w.ref] \notin RemainingOmissions(r)
  BY <1>1, <1>2, <1>3 DEF FinishAdmissible
<1>5. w.kind = "retry"
  <2>1. w \in auths /\ w.run = r
    BY DEF PendingOf
  <2>2. w.kind \in {"force", "retry"}
    BY <2>1, Standing DEF TypeOK, AuthorizationRow, WorkKinds
  <2>3. w.kind # "force"
    BY <2>1 DEF EngineInv, OnRecord, BriefProcess, AtStage
  <2> QED
    BY <2>2, <2>3
<1>6. ASSUME FieldOf[w.ref] \in StageNames PROVE FALSE
  <2>1. PICK i \in DOMAIN Stages :
           /\ w.ref \in StageRefs(i)
           /\ i < stage[r] => Stages[i].name \in omissions[r]
    BY DEF BriefProcess, OfStages
  <2>2. PICK j \in DOMAIN Stages : FieldOf[w.ref] = Stages[j].name
    BY <1>6 DEF StageNames
  <2>3. FieldOf[w.ref] = Stages[i].name
    BY <2>1, <2>2, OneStagePerName
  <2>4. Stages[i].name \in completed[r] /\ Stages[i].name \notin omissions[r]
    BY <1>4, <1>6, <2>3 DEF RemainingOmissions
  <2>5. PICK k \in DOMAIN Stages : k < stage[r] /\ Stages[i].name = Stages[k].name
    BY <2>4 DEF BriefProcess, AtStage
  <2>6. k = i
    BY <2>5, StagesAssumption
  <2> QED
    BY <2>1, <2>4, <2>5, <2>6
<1> QED
  BY <1>4, <1>5, <1>6 DEF StuckByRetry

LEMMA FinalizationRefusedStep ==
  ASSUME EngineInv, BriefTypeOK, BriefsInOrder, NEW r \in Runs, BriefProcess(r),
         FinalizationRefused(r)
  PROVE  Handled(r)
<1>1. /\ ~FinishAdmissible(r, UnpublishedStatus(r), UnpublishedAt(r), RemainingOmissions(r),
                           snapshots)
      /\ Ends(r) /\ UNCHANGED vars /\ UNCHANGED <<snapshots, runs, briefs, attempts, auths>>
  BY DEF FinalizationRefused, Unpublished, Returned, Ends, vars
<1>2. /\ proc' \in [Runs -> Process] /\ \A q \in Runs \ {r} : proc'[q] = proc[q]
      /\ proc'[r].pc = "ended" /\ proc'[r].number = 1 /\ proc'[r].force = proc[r].force
      /\ \A s \in Sections : ~Sees(r, s)'
      /\ Distinct(proc'[r].plan)
      /\ UNCHANGED <<stage, completed, omissions, asOf>>
      /\ Running(r) /\ BriefOf(r) = {} /\ \A s \in snapshots : s.run # r
  BY <1>1, EndsFields
<1>3. Handles(r)
  BY <1>1, <1>2 DEF Handles, Ends
<1>4. StuckByRetry(r)
  BY <1>1, <1>2, RefusedIsStuck
<1>5. OneEnd(r)'
  <2>1. StuckByRetry(r)'
    BY <1>1, <1>4 DEF StuckByRetry, PendingOf, Consumed
  <2> QED
    BY <1>1, <1>2, <2>1 DEF OneEnd, BriefOf, Running, Terminal
<1>6. BriefProcess(r)'
  BY <1>1, <1>2, <1>5, OverKeeps DEF Ends
<1> QED
  BY <1>1, <1>2, <1>3, <1>6, QuietlyHandled DEF BriefTypeOK

LEMMA AppendedBrief ==
  ASSUME NEW seq \in Seq(Brief), NEW b \in Brief
  PROVE  /\ Append(seq, b) \in Seq(Brief)
         /\ DOMAIN Append(seq, b) = DOMAIN seq \union {Len(seq) + 1}
         /\ Append(seq, b)[Len(seq) + 1] = b
         /\ \A i \in DOMAIN seq : Append(seq, b)[i] = seq[i] /\ i < Len(seq) + 1 /\ i \in Int
  OBVIOUS

LEMMA PublishBriefStep ==
  ASSUME EngineInv, BriefTypeOK, BriefsInOrder, NEW r \in Runs, BriefProcess(r),
         PublishBrief(r)
  PROVE  Handled(r)
<1> DEFINE status == BriefStatus(r)
           b == [run |-> r, created |-> asOf[r], status |-> status]
<1>1. /\ SaveAndFinalize(r, asOf[r], status, now, omissions[r])
      /\ Ends(r) /\ briefs' = Append(briefs, b)
      /\ asOf[r] # NoTime /\ InOrder(r) /\ InLifetime(r)
  BY DEF PublishBrief, Ready, Between, Ends, SaveAndFinalize
<1>2. /\ status \in {"complete", "partial"} /\ status \in TerminalStatuses
      /\ status = "complete" => omissions[r] = {}
      /\ asOf[r] \in Times /\ omissions[r] \in SUBSET FieldIds
      /\ now \in Times /\ TypeOK
      /\ briefs \in Seq(Brief)
  BY <1>1, Standing DEF BriefStatus, TerminalStatuses, BriefTypeOK
<1>3. b \in Brief /\ b.run = r /\ b.created = asOf[r] /\ b.status = status
  BY <1>2 DEF Brief
<1> HIDE DEF status, b
<1>4. Next
  BY <1>1, <1>2 DEF Next
<1>5. /\ SnapshotAdmissible(r, asOf[r])
      /\ snapshots' = SnapshotsWith(r, asOf[r])
      /\ runs' = Finished(r, status, now, omissions[r])
  BY <1>1 DEF SaveAndFinalize
<1>6. /\ runs'[r].status = status /\ runs'[r].finished = now
      /\ \A q \in Runs : q # r => runs'[q] = runs[q]
      /\ runs'[r].started = runs[r].started /\ runs'[r].mode = runs[r].mode
  BY <1>2, <1>5 DEF Finished, TypeOK, RunRow
<1>7. /\ proc' \in [Runs -> Process] /\ \A q \in Runs \ {r} : proc'[q] = proc[q]
      /\ proc'[r].pc = "ended" /\ proc'[r].number = 1 /\ proc'[r].force = proc[r].force
      /\ \A s \in Sections : ~Sees(r, s)'
      /\ Distinct(proc'[r].plan)
      /\ UNCHANGED <<stage, completed, omissions, asOf>>
      /\ BriefOf(r) = {}
  BY <1>1, EndsFields
<1>8. EndsRun(r)
  BY <1>2, <1>6, <1>7 DEF EndsRun
<1>9. /\ \A s : s.run # r => (s \in snapshots' <=> s \in snapshots)
      /\ \E s \in snapshots' : s.run = r
  <2> DEFINE taken == [run |-> r, created |-> asOf[r]]
  <2>1. snapshots' = snapshots \union {taken} /\ taken.run = r
    BY <1>5 DEF SnapshotsWith
  <2> QED
    BY <2>1
<1>10. Handles(r)
  BY <1>1, <1>4, <1>6, <1>7, <1>8, <1>9 DEF Handles, Ends
<1>11. PICK n \in Int :
       /\ briefs' \in Seq(Brief)
       /\ DOMAIN briefs' = DOMAIN briefs \union {n} /\ briefs'[n] = b
       /\ \A i \in DOMAIN briefs : briefs'[i] = briefs[i] /\ i < n /\ i \in Int
  <2>1. Len(briefs) + 1 \in Int
    BY <1>2
  <2> QED
    BY <1>1, <1>2, <1>3, <2>1, AppendedBrief
<1>12. BriefTypeOK'
  BY <1>7, <1>11 DEF BriefTypeOK
<1>13. BriefsInOrder'
  <2> SUFFICES ASSUME NEW i \in DOMAIN briefs', NEW j \in DOMAIN briefs', i < j
               PROVE  briefs'[i].created <= briefs'[j].created
    BY DEF BriefsInOrder
  <2>1. i \in DOMAIN briefs
    BY <1>11
  <2>2. CASE j \in DOMAIN briefs
    BY <1>11, <2>1, <2>2 DEF BriefsInOrder
  <2>3. CASE j = n
    BY <1>1, <1>3, <1>11, <2>1, <2>3 DEF InOrder
  <2> QED
    BY <1>11, <2>2, <2>3
<1>14. BriefOf(r)' = {n} /\ \A q \in Runs \ {r} : BriefOf(q)' = BriefOf(q)
  BY <1>3, <1>7, <1>11 DEF BriefOf
<1>15. ASSUME NEW q \in Runs \ {r} PROVE Unbriefly(q)
  <2>1. Untouched(q)
    BY <1>10, OthersUntouched
  <2>2. \A i \in BriefOf(q) : briefs'[i] = briefs[i]
    BY <1>11 DEF BriefOf
  <2> QED
    BY <1>7, <1>14, <2>1, <2>2 DEF Unbriefly
<1>16. OneEnd(r)'
  <2>1. Bound(r, n)'
    <3>1. WithinLifetime(r, asOf[r]) /\ WithinLifetime(r, now)
      BY <1>1, <1>5 DEF SnapshotAdmissible, InLifetime
    <3>2. \A t : WithinLifetime(r, t) => WithinLifetime(r, t)'
      BY <1>6 DEF WithinLifetime, Deadline
    <3>3. briefs'[n].status = runs'[r].status /\ briefs'[n].created = asOf[r]
          /\ runs'[r].finished = now
      BY <1>3, <1>6, <1>11
    <3>4. WithinLifetime(r, asOf[r])' /\ WithinLifetime(r, now)'
      <4>1. asOf' = asOf /\ now' = now
        BY <1>1, <1>7 DEF Ends
      <4> QED
        BY <3>1, <3>2, <4>1 DEF WithinLifetime
    <3>5. BriefOf(r)' = {n}
      BY <1>14
    <3>6. asOf' = asOf /\ now' = now
      BY <1>1, <1>7 DEF Ends
    <3> QED
      BY <3>3, <3>4, <3>5, <3>6 DEF Bound, WithinLifetime
  <2>2. ASSUME status = "complete", NEW ref \in BriefRefs PROVE Audited(r, ref)'
    <3>1. omissions[r] = {} /\ StagesDone(r)
      BY <1>1, <1>2, <2>2 DEF BriefProcess, AtStage
    <3>2. PICK i \in DOMAIN Stages : ref \in StageRefs(i)
      BY <2>2 DEF BriefRefs
    <3>3. i < stage[r]
      BY <3>1, StageAt DEF StagesDone
    <3>4. Audited(r, ref)
      BY <3>1, <3>2, <3>3 DEF BriefProcess, StageProgress
    <3> QED
      BY <1>1, <3>4 DEF Audited, AttemptsOf, Ends
  <2>3. Terminal(r)'
    BY <1>2, <1>6 DEF Terminal
  <2>4. runs'[r].status \in {"complete", "partial"}
    BY <1>2, <1>6
  <2> QED
    BY <1>6, <1>9, <1>14, <2>1, <2>2, <2>3, <2>4 DEF OneEnd
<1>17. BriefProcess(r)'
  BY <1>1, <1>7, <1>16, OverKeeps DEF Ends
<1> QED
  BY <1>10, <1>12, <1>13, <1>15, <1>17 DEF Handled

(* All the steps of the handler. *)
OnDuty(r) ==
    \/ \E mode \in Modes : StartBrief(r, mode)
    \/ NextStage(r)
    \/ StageReturned(r)
    \/ StageFailed(r)
    \/ \E others \in SUBSET OtherWork : TakeFacts(r, others)
    \/ PublishBrief(r)
    \/ PublicationFails(r)
    \/ HandlerInterrupted(r)
    \/ HandlerFails(r)
    \/ FinalizeUnpublished(r)
    \/ FinalizationRefused(r)

LEMMA OnDutyHandled ==
  ASSUME EngineInv, BriefTypeOK, BriefsInOrder, NEW r \in Runs, BriefProcess(r), OnDuty(r)
  PROVE  Handled(r)
<1>1. CASE \E mode \in Modes : StartBrief(r, mode)
  BY <1>1, StartBriefStep
<1>2. CASE NextStage(r) \/ StageReturned(r) \/ StageFailed(r)
  BY <1>2, NextStageStep, StageReturnedStep, StageFailedStep
<1>3. CASE \E others \in SUBSET OtherWork : TakeFacts(r, others)
  BY <1>3, TakeFactsStep
<1>4. CASE \/ PublishBrief(r) \/ PublicationFails(r)
           \/ HandlerInterrupted(r) \/ HandlerFails(r)
  BY <1>4, PublishBriefStep, PublicationFailsStep, HandlerInterruptedStep, HandlerFailsStep
<1>5. CASE FinalizeUnpublished(r) \/ FinalizationRefused(r)
  BY <1>5, FinalizeUnpublishedStep, FinalizationRefusedStep
<1> QED
  BY <1>1, <1>2, <1>3, <1>4, <1>5 DEF OnDuty

(* What a step that concerns r alone keeps, besides the invariant of r. *)
Keeps(r) ==
    /\ EngineInv' /\ BriefTypeOK' /\ BriefsInOrder' /\ [Next]_vars
    /\ \A q \in Runs \ {r} : Unbriefly(q)

LEMMA HandledKeeps ==
  ASSUME EngineInv, NEW r \in Runs, Handled(r)
  PROVE  Keeps(r) /\ BriefProcess(r)'
<1>1. Handles(r)
  BY DEF Handled
<1> QED
  BY <1>1, HandlesInv DEF Handled, Keeps, Handles

LEMMA LocalsKept ==
  ASSUME BriefTypeOK, BriefsInOrder, UNCHANGED <<briefLocals, briefs>>
  PROVE  /\ BriefTypeOK' /\ BriefsInOrder'
         /\ \A q \in Runs : Untouched(q) => Unbriefly(q)
<1>1. UNCHANGED <<stage, completed, omissions, asOf, briefs>>
  BY DEF briefLocals
<1>2. BriefTypeOK'
  BY <1>1 DEF BriefTypeOK
<1>3. BriefsInOrder'
  BY <1>1 DEF BriefsInOrder
<1> QED
  BY <1>1, <1>2, <1>3 DEF Unbriefly, BriefOf

LEMMA ServesKeeps ==
  ASSUME EngineInv, BriefTypeOK, BriefsInOrder, NEW r \in Runs, Serves(r),
         UNCHANGED <<briefLocals, briefs>>
  PROVE  Keeps(r) /\ (BriefProcess(r) => BriefProcess(r)')
<1>1. Charted(r) /\ Adds(r) /\ EngineInv'
  BY ServesCharted, MoveAdds, ServesInv
<1>2. \A q \in Runs \ {r} : Untouched(q)
  BY <1>1, OthersUntouched
<1>3. BriefProcess(r) => BriefProcess(r)'
  <2>1. UNCHANGED <<stage, completed, omissions, asOf, briefs>>
    BY DEF briefLocals
  <2> QED
    BY <1>1, <2>1, BriefServes
<1> QED
  BY <1>1, <1>2, <1>3, LocalsKept DEF Keeps, Charted

LEMMA BriefStepCases ==
  ASSUME NEW r \in Runs, BriefStep(r)
  PROVE  (Serves(r) /\ UNCHANGED <<briefLocals, briefs>>) \/ OnDuty(r)
  BY DEF BriefStep, Serves, OnDuty

-----------------------------------------------------------------------------
(* The theorems of a brief.                                                  *)

LEMMA IdleBrief ==
  ASSUME BriefInit
  PROVE  EngineInv /\ BriefTypeOK /\ BriefsInOrder /\ \A r \in Runs : BriefProcess(r)
<1>1. EngineInv
  BY SyncInitInv DEF BriefInit
<1>2. BriefTypeOK
  <2>1. Len(Stages) \in Nat
    BY StagesAssumption
  <2>2. 1 \in 1..(Len(Stages) + 1) /\ <<>> \in Seq(Brief)
    BY <2>1
  <2> QED
    BY <2>2 DEF BriefInit, BriefTypeOK
<1>3. BriefsInOrder
  BY DEF BriefInit, BriefsInOrder
<1>4. ASSUME NEW r \in Runs PROVE BriefProcess(r)
  <2>1. /\ runs[r].status = "absent" /\ attempts = {} /\ auths = {} /\ snapshots = {}
        /\ proc[r].pc = "idle" /\ ~proc[r].force
        /\ stage[r] = 1 /\ completed[r] = {} /\ asOf[r] = NoTime /\ briefs = <<>>
    BY DEF BriefInit, SyncInit, Init
  <2>2. AtStage(r)
    BY <2>1 DEF AtStage, AtWork, At, InGroup
  <2>3. OfStages(r)
    BY <2>1 DEF OfStages, PendingOf
  <2>4. StageProgress(r)
    <3>1. \A i \in DOMAIN Stages : ~(i < 1)
      BY StagesAssumption
    <3> QED
      BY <2>1, <3>1 DEF StageProgress, Progress, Reserved, AtWork, At, InGroup, PendingOf
  <2>5. OneEnd(r)
    BY <2>1 DEF OneEnd, BriefOf, At
  <2> QED
    BY <2>2, <2>3, <2>4, <2>5 DEF BriefProcess
<1> QED
  BY <1>1, <1>2, <1>3, <1>4

LEMMA ClockKeeps ==
  ASSUME EngineInv, BriefTypeOK, BriefsInOrder, Tick \/ UNCHANGED syncVars,
         UNCHANGED <<briefLocals, briefs>>
  PROVE  /\ EngineInv' /\ BriefTypeOK' /\ BriefsInOrder' /\ [Next]_vars
         /\ \A q \in Runs : Unbriefly(q)
<1>1. ClockOnly
  BY TickIsClock
<1>2. EngineInv' /\ \A q \in Runs : Untouched(q)
  BY <1>1, ClockInv, ClockUntouched
<1> QED
  BY <1>1, <1>2, LocalsKept DEF ClockOnly, vars

LEMMA BriefNextInv == BriefInv /\ [BriefNext]_briefVars => BriefInv' /\ [Next]_vars
<1> SUFFICES ASSUME BriefInv, [BriefNext]_briefVars PROVE BriefInv' /\ [Next]_vars
  OBVIOUS
<1>1. EngineInv /\ BriefTypeOK /\ BriefsInOrder /\ \A q \in Runs : BriefProcess(q)
  BY DEF BriefInv
<1>2. CASE (Tick \/ UNCHANGED syncVars) /\ UNCHANGED <<briefLocals, briefs>>
  BY <1>1, <1>2, ClockKeeps, BriefUntouched DEF BriefInv
<1>3. ASSUME NEW r \in Runs, Keeps(r), BriefProcess(r)'
      PROVE  BriefInv' /\ [Next]_vars
  <2>1. \A q \in Runs \ {r} : BriefProcess(q)'
    BY <1>1, <1>3, BriefUntouched DEF Keeps
  <2> QED
    BY <1>3, <2>1 DEF Keeps, BriefInv
<1>4. ASSUME NEW r \in Runs, Serves(r), UNCHANGED <<briefLocals, briefs>>
      PROVE  BriefInv' /\ [Next]_vars
  BY <1>1, <1>3, <1>4, ServesKeeps
<1>5. ASSUME NEW r \in Runs, OnDuty(r)
      PROVE  BriefInv' /\ [Next]_vars
  BY <1>1, <1>3, <1>5, OnDutyHandled, HandledKeeps
<1>6. CASE BriefNext
  <2>1. CASE Tick /\ UNCHANGED <<briefLocals, briefs>>
    BY <1>2, <2>1
  <2>2. ASSUME NEW r \in Runs,
               \/ \E mode \in Modes : StartBrief(r, mode)
               \/ BriefStep(r)
               \/ Disrupt(r) /\ UNCHANGED <<briefLocals, briefs>>
               \/ BudgetPasses(r) /\ UNCHANGED <<briefLocals, briefs>>
               \/ HandlerInterrupted(r) \/ HandlerFails(r) \/ BriefCut(r)
        PROVE  (Serves(r) /\ UNCHANGED <<briefLocals, briefs>>) \/ OnDuty(r)
    BY <2>2, BriefStepCases DEF Serves, OnDuty, BriefCut
  <2> QED
    BY <1>4, <1>5, <1>6, <2>1, <2>2 DEF BriefNext
<1> QED
  BY <1>2, <1>6 DEF briefVars

(* The invariant of BriefSpec: the audit store, the engine, and where the    *)
(* brief stands among its stages.                                            *)
THEOREM BriefInvariance == BriefSpec => []BriefInv
<1>1. BriefInit => BriefInv
  BY IdleBrief DEF BriefInv
<1> QED
  BY <1>1, BriefNextInv, PTL DEF BriefSpec

(* A brief only uses the audit store as its operations allow: the snapshot   *)
(* and the end of the request are one of them, and every theorem of          *)
(* RequestAudit holds of a brief.                                            *)
THEOREM BriefUsesAudit == BriefSpec => Spec
<1>1. BriefInit => Init /\ BriefInv
  BY IdleBrief DEF BriefInit, SyncInit, BriefInv
<1> QED
  BY <1>1, BriefNextInv, PTL DEF BriefSpec, Spec

(* The brief, its snapshot and the terminal status of its request appear     *)
(* together, once, and inside the lifetime of the request.                   *)
THEOREM BriefEndsRequest == BriefSpec => []BriefEndsItsRequest
<1>1. BriefInv => BriefEndsItsRequest
  BY DEF BriefInv, BriefProcess, OneEnd, Bound, BriefEndsItsRequest
<1> QED
  BY <1>1, BriefInvariance, PTL

(* A complete brief has, of its own request, an audited answer for every     *)
(* field of every stage.                                                     *)
THEOREM CompleteBriefIsAudited == BriefSpec => []CompleteBriefHasEveryField
<1>1. BriefInv => CompleteBriefHasEveryField
  BY DEF BriefInv, BriefProcess, OneEnd, Audited, CompleteBriefHasEveryField
<1> QED
  BY <1>1, BriefInvariance, PTL

(* The store refuses one finalization of a brief only: a brief that comes to *)
(* its end with its request still running was stopped, or came to its        *)
(* deadline, between the reservation of a retry and its attempt, in a stage  *)
(* whose name is not the field's.  One that is killed, or cut off by an      *)
(* exception that meets its finalization, does not come to its end.          *)
THEOREM BriefStuckOnlyByRetry == BriefSpec => []StuckOnlyByUnusedRetry
<1>1. BriefInv => StuckOnlyByUnusedRetry
  BY DEF BriefInv, BriefProcess, OneEnd, StuckByRetry, StuckOnlyByUnusedRetry, Running,
         Terminal, TerminalStatuses
<1> QED
  BY <1>1, BriefInvariance, PTL

(* Once every field is the name of a stage, the store refuses no             *)
(* finalization of a brief: one that comes to its end has ended its request. *)
(* The names are all that is wrong with what the handler asks for; what the  *)
(* documents promise still fails of a brief that is killed, or whose         *)
(* finalization meets an exception of its own.                               *)
THEOREM NamedFieldsEndBriefs ==
  (\A ref \in BriefRefs : FieldOf[ref] \in StageNames) => (BriefSpec => []BriefEndsTerminal)
<1> SUFFICES ASSUME \A ref \in BriefRefs : FieldOf[ref] \in StageNames
             PROVE  BriefSpec => []BriefEndsTerminal
  OBVIOUS
<1>1. BriefInv => BriefEndsTerminal
  <2> SUFFICES ASSUME BriefInv, NEW r \in Runs, At(r, "ended"), ~Terminal(r) PROVE FALSE
    BY DEF BriefEndsTerminal
  <2>1. BriefProcess(r)
    BY DEF BriefInv
  <2>2. PICK w \in PendingOf(r) : FieldOf[w.ref] \notin StageNames
    BY <2>1 DEF BriefProcess, OneEnd, StuckByRetry
  <2>3. PICK i \in DOMAIN Stages : w.ref \in StageRefs(i)
    BY <2>1 DEF BriefProcess, OfStages
  <2> QED
    BY <2>2, <2>3, StageFields
<1> QED
  BY <1>1, BriefInvariance, PTL

(* The briefs of a fund are published in the order of their facts.           *)
THEOREM BriefsPublishedInOrder == BriefSpec => []BriefsInOrder
<1>1. BriefInv => BriefsInOrder
  BY DEF BriefInv
<1> QED
  BY <1>1, BriefInvariance, PTL

-----------------------------------------------------------------------------
(* Commands and briefs at once: each keeps its own invariant whatever the    *)
(* others do, since they share no row.                                       *)

Handlers == {"none", "cli", "brief"}

SystemProcess(r) ==
    /\ At(r, "idle") <=> handler[r] = "none"
    /\ handler[r] # "brief" => CliProcess(r) /\ BriefOf(r) = {}
    /\ handler[r] # "cli" => BriefProcess(r)

SystemInv ==
    /\ EngineInv
    /\ BriefTypeOK
    /\ BriefsInOrder
    /\ handler \in [Runs -> Handlers]
    /\ \A r \in Runs : SystemProcess(r)

LEMMA SystemUntouched ==
  ASSUME NEW q \in Runs, SystemProcess(q), Unbriefly(q), handler'[q] = handler[q]
  PROVE  SystemProcess(q)'
<1>1. Untouched(q) /\ BriefOf(q)' = BriefOf(q) /\ proc'[q] = proc[q]
  BY DEF Unbriefly, Untouched
<1>2. CliProcess(q) => CliProcess(q)'
  BY <1>1, CliUntouched
<1>3. BriefProcess(q) => BriefProcess(q)'
  BY BriefUntouched
<1> QED
  BY <1>1, <1>2, <1>3 DEF SystemProcess, At

LEMMA SystemInitInv == SystemInit => SystemInv
<1> SUFFICES ASSUME SystemInit PROVE SystemInv
  OBVIOUS
<1>1. BriefInit /\ handler = [r \in Runs |-> "none"]
  BY DEF SystemInit
<1>2. EngineInv /\ BriefTypeOK /\ BriefsInOrder /\ \A r \in Runs : BriefProcess(r) /\ At(r, "idle")
  BY <1>1, IdleBrief DEF BriefInit, SyncInit, At
<1>3. \A r \in Runs : CliProcess(r) /\ BriefOf(r) = {}
  BY <1>1, CliInitInv DEF BriefInit, CliInv, BriefOf
<1>4. handler \in [Runs -> Handlers] /\ \A r \in Runs : handler[r] = "none"
  BY <1>1 DEF Handlers
<1> QED
  BY <1>2, <1>3, <1>4 DEF SystemInv, SystemProcess

(* The step of one process, given what it keeps of its own.                  *)
LEMMA OneStep ==
  ASSUME SystemInv, NEW r \in Runs, Keeps(r), SystemProcess(r)',
         NEW h \in Handlers, handler' = [handler EXCEPT ![r] = h]
  PROVE  SystemInv' /\ [Next]_vars
<1>1. handler' \in [Runs -> Handlers] /\ \A q \in Runs \ {r} : handler'[q] = handler[q]
  BY DEF SystemInv
<1>2. \A q \in Runs \ {r} : SystemProcess(q)'
  BY <1>1, SystemUntouched DEF SystemInv, Keeps
<1> QED
  BY <1>1, <1>2 DEF SystemInv, Keeps

LEMMA SystemServes ==
  ASSUME SystemInv, NEW r \in Runs, Serves(r), Unbriefed, UNCHANGED handler
  PROVE  SystemInv' /\ [Next]_vars
<1>1. /\ EngineInv /\ BriefTypeOK /\ BriefsInOrder /\ SystemProcess(r)
      /\ handler[r] \in Handlers /\ handler' = [handler EXCEPT ![r] = handler[r]]
  BY DEF SystemInv
<1>2. Keeps(r) /\ (BriefProcess(r) => BriefProcess(r)')
  BY <1>1, ServesKeeps DEF Unbriefed
<1>3. Charted(r) /\ (CliProcess(r) => CliProcess(r)')
  BY <1>1, ServesCharted, CliServes
<1>4. BriefOf(r)' = BriefOf(r) /\ handler' = handler
  BY DEF Unbriefed, BriefOf
<1>5. At(r, "idle")' <=> At(r, "idle")
  BY <1>3, MoveGoes
<1>6. SystemProcess(r)'
  BY <1>1, <1>2, <1>3, <1>4, <1>5 DEF SystemProcess
<1> QED
  BY <1>1, <1>2, <1>6, OneStep

LEMMA SystemBriefDuty ==
  ASSUME SystemInv, NEW r \in Runs, handler[r] # "cli", OnDuty(r),
         handler' = [handler EXCEPT ![r] = "brief"]
  PROVE  SystemInv' /\ [Next]_vars
<1>1. EngineInv /\ BriefTypeOK /\ BriefsInOrder /\ BriefProcess(r)
  BY DEF SystemInv, SystemProcess
<1>2. Handled(r) /\ Keeps(r) /\ BriefProcess(r)'
  BY <1>1, OnDutyHandled, HandledKeeps
<1>3. ~At(r, "idle")'
  BY <1>2 DEF Handled, Handles, At
<1>4. handler'[r] = "brief" /\ "brief" \in Handlers
  BY DEF SystemInv, Handlers
<1>5. SystemProcess(r)'
  BY <1>2, <1>3, <1>4 DEF SystemProcess
<1> QED
  BY <1>2, <1>4, <1>5, OneStep

LEMMA SystemCliDuty ==
  ASSUME SystemInv, NEW r \in Runs, handler[r] # "brief", Handles(r), CliProcess(r)', Unbriefed,
         handler' = [handler EXCEPT ![r] = "cli"]
  PROVE  SystemInv' /\ [Next]_vars
<1>1. EngineInv /\ BriefTypeOK /\ BriefsInOrder /\ BriefOf(r) = {}
  BY DEF SystemInv, SystemProcess
<1>2. EngineInv' /\ [Next]_vars /\ \A q \in Runs \ {r} : Untouched(q)
  BY <1>1, HandlesInv, OthersUntouched DEF Handles
<1>3. Keeps(r)
  BY <1>1, <1>2, LocalsKept DEF Keeps, Unbriefed
<1>4. ~At(r, "idle")' /\ BriefOf(r)' = {}
  BY <1>1 DEF Handles, At, Unbriefed, BriefOf
<1>5. handler'[r] = "cli" /\ "cli" \in Handlers
  BY DEF SystemInv, Handlers
<1>6. SystemProcess(r)'
  BY <1>4, <1>5 DEF SystemProcess
<1> QED
  BY <1>3, <1>5, <1>6, OneStep

LEMMA SystemNextInv == SystemInv /\ [SystemNext]_systemVars => SystemInv' /\ [Next]_vars
<1> SUFFICES ASSUME SystemInv, [SystemNext]_systemVars PROVE SystemInv' /\ [Next]_vars
  OBVIOUS
<1>1. /\ EngineInv /\ BriefTypeOK /\ BriefsInOrder /\ \A q \in Runs : SystemProcess(q)
      /\ handler \in [Runs -> Handlers]
  BY DEF SystemInv
<1>2. CASE (Tick \/ UNCHANGED syncVars) /\ Unbriefed /\ UNCHANGED handler
  <2>1. /\ EngineInv' /\ BriefTypeOK' /\ BriefsInOrder' /\ [Next]_vars
        /\ \A q \in Runs : Unbriefly(q)
    BY <1>1, <1>2, ClockKeeps DEF Unbriefed
  <2>2. \A q \in Runs : SystemProcess(q)'
    BY <1>1, <1>2, <2>1, SystemUntouched
  <2> QED
    BY <1>1, <1>2, <2>1, <2>2 DEF SystemInv
<1>3. ASSUME NEW r \in Runs, NEW mode \in Modes, NEW force \in BOOLEAN, Begin(r, mode, force)
      PROVE  SystemInv' /\ [Next]_vars
  <2>1. CASE /\ StartRequest(r, mode, force) /\ Unbriefed
             /\ handler' = [handler EXCEPT ![r] = "cli"]
    <3>1. handler[r] = "none" /\ CliProcess(r)
      BY <1>1, <2>1 DEF StartRequest, SystemProcess
    <3>2. Handles(r) /\ CliProcess(r)'
      BY <1>1, <2>1, <3>1, StartRequestStep DEF CliProcess
    <3> QED
      BY <2>1, <3>1, <3>2, SystemCliDuty
  <2>2. CASE StartBrief(r, mode) /\ handler' = [handler EXCEPT ![r] = "brief"]
    <3>1. handler[r] = "none" /\ OnDuty(r)
      BY <1>1, <2>2 DEF StartBrief, SystemProcess, OnDuty
    <3> QED
      BY <2>2, <3>1, SystemBriefDuty
  <2> QED
    BY <1>3, <2>1, <2>2 DEF Begin
<1>4. ASSUME NEW r \in Runs, UNCHANGED handler
      PROVE  /\ handler' = [handler EXCEPT ![r] = handler[r]]
             /\ Serves(r) /\ Unbriefed => SystemInv' /\ [Next]_vars
             /\ handler[r] = "brief" /\ OnDuty(r) => SystemInv' /\ [Next]_vars
             /\ handler[r] = "cli" /\ (Conclude(r) \/ OutcomeInterrupted(r)) /\ Unbriefed
                   => SystemInv' /\ [Next]_vars
  <2>1. handler' = [handler EXCEPT ![r] = handler[r]]
    BY <1>1, <1>4
  <2>2. Serves(r) /\ Unbriefed => SystemInv' /\ [Next]_vars
    BY <1>4, SystemServes
  <2>3. handler[r] = "brief" /\ OnDuty(r) => SystemInv' /\ [Next]_vars
    BY <2>1, SystemBriefDuty
  <2>4. handler[r] = "cli" /\ (Conclude(r) \/ OutcomeInterrupted(r)) /\ Unbriefed
          => SystemInv' /\ [Next]_vars
    BY <1>1, <2>1, ConcludeStep, OutcomeInterruptedStep, SystemCliDuty DEF SystemProcess
  <2> QED
    BY <2>1, <2>2, <2>3, <2>4
<1>5. ASSUME NEW r \in Runs, CommandStep(r)
      PROVE  SystemInv' /\ [Next]_vars
  <2>1. CASE handler[r] = "cli" /\ CliStep(r) /\ Unbriefed
    BY <1>4, <1>5, <2>1 DEF CommandStep, CliStep, Serves
  <2>2. CASE handler[r] = "brief" /\ BriefStep(r)
    BY <1>4, <1>5, <2>2, BriefStepCases DEF CommandStep, Unbriefed
  <2> QED
    BY <1>5, <2>1, <2>2 DEF CommandStep
<1>6. ASSUME NEW r \in Runs, DisruptCommand(r) \/ CommandBudgetPasses(r)
      PROVE  SystemInv' /\ [Next]_vars
  <2>1. CASE (Disrupt(r) \/ BudgetPasses(r)) /\ Unbriefed /\ UNCHANGED handler
    BY <1>4, <2>1 DEF Serves
  <2>2. CASE handler[r] = "brief" /\ (HandlerInterrupted(r) \/ HandlerFails(r))
             /\ UNCHANGED handler
    BY <1>4, <2>2 DEF OnDuty
  <2>3. CASE handler[r] = "cli" /\ OutcomeInterrupted(r) /\ Unbriefed /\ UNCHANGED handler
    BY <1>4, <2>3
  <2>4. CASE ((CommandCut(r) /\ Unbriefed) \/ BriefCut(r)) /\ UNCHANGED handler
    BY <1>4, <2>4 DEF CommandCut, BriefCut, Serves, Unbriefed
  <2> QED
    BY <1>6, <2>1, <2>2, <2>3, <2>4 DEF DisruptCommand, CommandBudgetPasses
<1>7. CASE UNCHANGED systemVars
  BY <1>2, <1>7 DEF systemVars, briefVars, Unbriefed
<1> QED
  BY <1>2, <1>3, <1>5, <1>6, <1>7 DEF SystemNext

(* The invariant of the whole synchronisation.                               *)
THEOREM SystemInvariance == SystemSpec => []SystemInv
  BY SystemInitInv, SystemNextInv, PTL DEF SystemSpec

(* Commands and briefs together only use the audit store as its operations   *)
(* allow.                                                                    *)
THEOREM SystemUsesAudit == SystemSpec => Spec
<1>1. SystemInit => Init
  BY DEF SystemInit, BriefInit, SyncInit
<1> QED
  BY <1>1, SystemInitInv, SystemNextInv, PTL DEF SystemSpec, Spec

(* What the section cache holds was committed with its attempt, whichever of *)
(* the commands running at once fetched it.                                  *)
THEOREM SystemPublishedWithAudit == SystemSpec => []PublishedWithAudit
<1>1. SystemInv => PublishedWithAudit
  BY DEF SystemInv, EngineInv
<1> QED
  BY <1>1, SystemInvariance, PTL

(* Between two requests of the system, of a command or of a brief, the       *)
(* cooldown of a source is honoured unless the owner forces the second.      *)
THEOREM SystemHonoursCooldown == SystemSpec => []SequentialRequestsHonourCooldown
<1>1. SystemInv => SequentialRequestsHonourCooldown
  BY DEF SystemInv, EngineInv
<1> QED
  BY <1>1, SystemInvariance, PTL

(* The briefs of a fund are published in the order of their facts, with any  *)
(* number of briefs and commands at once.                                    *)
THEOREM SystemBriefsInOrder == SystemSpec => []BriefsInOrder
<1>1. SystemInv => BriefsInOrder
  BY DEF SystemInv
<1> QED
  BY <1>1, SystemInvariance, PTL

(* A command keeps its promises next to briefs and other commands: coming to *)
(* its end, neither killed nor cut off in its finalization, it has ended its *)
(* request; a request ended late is expired, a complete one has every        *)
(* answer.                                                                   *)
CommandsKeepPromises ==
    \A r \in Runs : handler[r] = "cli" =>
        /\ At(r, "ended") => Terminal(r)
        /\ Terminal(r) /\ runs[r].finished >= Deadline(r) => runs[r].status = "expired"
        /\ runs[r].status = "complete" => \A ref \in PlanRefs : Audited(r, ref)
        /\ \A s \in snapshots : s.run # r

THEOREM SystemCommands == SystemSpec => []CommandsKeepPromises
<1>1. SystemInv => CommandsKeepPromises
  BY DEF SystemInv, SystemProcess, CliProcess, CommandsKeepPromises
<1> QED
  BY <1>1, SystemInvariance, PTL

(* A brief keeps its promises next to commands and other briefs: it is       *)
(* published with its snapshot and the end of its request or not at all, a   *)
(* complete one has every answer, and one that comes to its end leaves its   *)
(* request running only by an unused retry.                                  *)
BriefsKeepPromises == \A r \in Runs : handler[r] = "brief" => OneEnd(r)

THEOREM SystemBriefs == SystemSpec => []BriefsKeepPromises
<1>1. SystemInv => BriefsKeepPromises
  BY DEF SystemInv, SystemProcess, BriefProcess, BriefsKeepPromises
<1> QED
  BY <1>1, SystemInvariance, PTL

(* A brief or a command whose budget is closed, or whose request has ended,  *)
(* writes no section any more.                                               *)
LEMMA OnlyTheEnginePublishes ==
  ASSUME NEW r \in Runs, OnDuty(r)
  PROVE  cache' = cache
  BY DEF OnDuty, StartBrief, NextStage, StageReturned, StageFailed, TakeFacts, PublishBrief,
         PublicationFails, HandlerInterrupted, HandlerFails, FinalizeUnpublished,
         FinalizationRefused

THEOREM SystemClosedPublishesNothing == SystemSpec => NothingPublishedAfterClose
<1>1. SystemInv /\ [SystemNext]_systemVars =>
        [\A s \in Sections : cache'[s] # cache[s] =>
            budget[cache'[s].run] = "open" /\ Running(cache'[s].run)]_syncVars
  <2> SUFFICES ASSUME SystemInv, SystemNext, NEW s \in Sections, cache'[s] # cache[s]
               PROVE  budget[cache'[s].run] = "open" /\ Running(cache'[s].run)
    BY DEF systemVars, briefVars, syncVars
  <2>1. PICK r \in Runs : \/ \E mode \in Modes, force \in BOOLEAN : Begin(r, mode, force)
                          \/ CommandStep(r)
                          \/ DisruptCommand(r)
                          \/ CommandBudgetPasses(r)
    BY DEF SystemNext, Tick
  <2>2. ~OnDuty(r)
    BY OnlyTheEnginePublishes
  <2>3. \A mode \in Modes, force \in BOOLEAN : ~Begin(r, mode, force)
    BY <2>2 DEF Begin, StartRequest, OnDuty
  <2>4. Serves(r)
    BY <2>1, <2>2, <2>3, BriefStepCases
    DEF CommandStep, CliStep, Conclude, DisruptCommand, OutcomeInterrupted, CommandCut, BriefCut,
        CommandBudgetPasses, Serves, OnDuty
  <2> QED
    BY <2>4, OnlyCommitsPublish, CommitPublishesOpen DEF SystemInv
<1> QED
  BY <1>1, SystemInvariance, PTL DEF SystemSpec, NothingPublishedAfterClose

-----------------------------------------------------------------------------
(* The refinement: a step of one process, seen as RequestPromise sees it.    *)

Seen == <<Life, Work, Tries, Answered, Shown>>

(* The field at work is one the request was asked for. *)
LEMMA WorkIsAsked ==
  ASSUME SystemInv, NEW r \in Runs, Charted(r), attempts' # attempts
  PROVE  Ref(r) \in WorkOf(r) /\ Running(r) /\ Ref(r) \in Refs
<1>1. /\ EngineInv /\ SystemProcess(r) /\ BriefTypeOK /\ handler[r] \in Handlers
      /\ proc[r].plan \in Seq(Refs)
  BY Standing, ProcessFields DEF SystemInv
<1>2. AtWork(r) /\ proc[r].pc \in InGroup /\ Ref(r) \in PlannedRefs(r)
  BY <1>1, WorkAdds
<1>3. handler[r] \in {"cli", "brief"}
  BY <1>1, <1>2 DEF SystemProcess, At, InGroup, Handlers
<1>4. Running(r) /\ Ref(r) \in Refs
  BY <1>1, <1>2, Standing, PlanFields DEF Lives, Carries, InGroup, Stopped
<1>5. CASE handler[r] = "cli"
  BY <1>1, <1>2, <1>4, <1>5 DEF SystemProcess, CliProcess, Progress, WorkOf
<1>6. CASE handler[r] = "brief"
  <2>1. stage[r] \in DOMAIN Stages /\ Ref(r) \in StageRefs(stage[r])
    BY <1>1, <1>2, <1>6, StageAt
    DEF SystemProcess, BriefProcess, AtStage, StageProgress, Progress
  <2> QED
    BY <1>4, <1>6, <2>1, StageFields DEF WorkOf
<1> QED
  BY <1>3, <1>4, <1>5, <1>6

(* The attempt a second one follows left its field without an answer. *)
LEMMA SecondIsUnanswered ==
  ASSUME EngineInv, NEW a \in AttemptRow, RecordSourceAttempt(a), a.number = 2
  PROVE  /\ \E p \in attempts : p.run = a.run /\ p.ref = a.ref /\ p.number = 1
         /\ \A b \in attempts : b.run = a.run /\ b.ref = a.ref =>
               b.outcome \notin {"success", "cache_hit"}
<1>1. /\ AttemptsKeyed /\ RetriesHaveParents /\ TypeOK
      /\ NextInSequence(a) /\ AuthorizationFits(a)
  BY DEF EngineInv, IInv, AuditInv, RecordSourceAttempt, AttemptAdmissible
<1>2. a.auth = "retry"
  BY <1>1 DEF AuthorizationFits, AttemptRow, WorkKinds
<1>3. PICK w \in auths : w.run = a.run /\ w.ref = a.ref /\ w.kind = "retry"
  BY <1>1, <1>2 DEF AuthorizationFits
<1>4. PICK p \in attempts : p.run = a.run /\ p.ref = a.ref /\ p.number = 1
                            /\ p.outcome = "transient_failure"
  BY <1>1, <1>3 DEF RetriesHaveParents, RetriableAttempt
<1>5. ASSUME NEW b \in attempts, b.run = a.run, b.ref = a.ref
      PROVE  b = p
  <2>1. b.number \in {1, 2}
    BY <1>1 DEF TypeOK, AttemptRow
  <2>2. b.number # 2
    BY <1>1, <1>5 DEF NextInSequence, HasAttempt, AttemptsOf
  <2> QED
    BY <1>1, <1>4, <1>5, <2>1, <2>2 DEF AttemptsKeyed
<1> QED
  BY <1>4, <1>5

(* An attempt with the sections it brought is a try. *)
LEMMA AttemptIsTry ==
  ASSUME EngineInv, NEW r \in Runs, Running(r),
         NEW a \in AttemptRow, RecordSourceAttempt(a), a.run = r, a.ref \in WorkOf(r),
         NEW news \in SUBSET SectionsOf[a.ref],
         Shown' = [s \in Sections |-> IF s \in news THEN <<r, a.ref, a.number>> ELSE Shown[s]],
         Life' = Life, Work' = Work
  PROVE  Promise!Try(r, a.ref, a.number)
<1>1. attempts' = attempts \union {a} /\ NextInSequence(a) /\ a.number \in {1, 2}
  BY DEF RecordSourceAttempt, AttemptAdmissible, AttemptRow
<1>2. Life[r] = "running" /\ a.ref \in Work[r]
  BY DEF Life, Work, Running
<1>3. <<r, a.ref, a.number>> \notin Tries
  BY <1>1 DEF Tries, NextInSequence, HasAttempt, AttemptsOf
<1>4. a.number = 2 => <<r, a.ref, 1>> \in Tries /\ <<r, a.ref>> \notin Answered
  BY SecondIsUnanswered DEF Tries, Answered
<1>5. Tries' = Tries \union {<<r, a.ref, a.number>>}
  BY <1>1 DEF Tries
<1>6. Answered' \in {Answered, Answered \union {<<r, a.ref>>}}
  <2>1. CASE a.outcome \in {"success", "cache_hit"}
    BY <1>1, <2>1 DEF Answered
  <2>2. CASE a.outcome \notin {"success", "cache_hit"}
    BY <1>1, <2>2 DEF Answered
  <2> QED
    BY <2>1, <2>2
<1> QED
  BY <1>2, <1>3, <1>4, <1>5, <1>6 DEF Promise!Try

(* What a commit shows: the sections it fetched, as its attempt brought them. *)
LEMMA CommitShows ==
  ASSUME EngineInv, NEW r \in Runs, CommitAttempt(r)
  PROVE  /\ Fetched(r) \in SUBSET SectionsOf[Ref(r)]
         /\ Shown' = [s \in Sections |->
                         IF s \in Fetched(r) THEN <<r, Ref(r), proc[r].number>> ELSE Shown[s]]
<1>1. /\ At(r, "record") /\ cache' = WrittenBy(r) /\ Carries(r)
      /\ proc[r].plan \in Seq(Refs) /\ proc[r].plan # <<>> /\ proc[r].number \in {1, 2}
  BY Standing, ProcessFields DEF CommitAttempt, Attempted, Carries, At, InGroup
<1>2. Fetched(r) \in SUBSET SectionsOf[Ref(r)]
  BY <1>1 DEF Fetched, Carries, Polled, At
<1>3. Ref(r) \in Refs
  BY <1>1, PlanFields DEF Ref
<1>4. ASSUME NEW s \in Fetched(r)
      PROVE  /\ cache'[s] # NoEntry /\ cache'[s].run = r
             /\ cache'[s].ref = Ref(r) /\ cache'[s].number = proc[r].number
  <2>1. s \in Sections
    BY DEF Fetched
  <2>2. cache'[s] = [run |-> r, ref |-> Ref(r), number |-> proc[r].number,
                     ok |-> proc[r].seen[s] = "parsed"]
    BY <1>1, <2>1 DEF WrittenBy
  <2>3. cache'[s] \in Entry
    BY <1>1, <1>3, <2>2 DEF Entry
  <2> QED
    BY <2>2, <2>3, NoEntryAssumption
<1>5. \A s \in Sections \ Fetched(r) : cache'[s] = cache[s]
  BY <1>1 DEF WrittenBy
<1> QED
  BY <1>2, <1>4, <1>5 DEF Shown

(* A step of the engine, a disruption or the passing of time is a try of the *)
(* field at work, or is not seen.                                            *)
LEMMA ServesPromised ==
  ASSUME SystemInv, NEW r \in Runs, Serves(r), UNCHANGED handler
  PROVE  (\E field \in Refs, n \in {1, 2} : Promise!Try(r, field, n)) \/ UNCHANGED Seen
<1>1. EngineInv /\ Charted(r) /\ Adds(r)
  BY ServesCharted, MoveAdds DEF SystemInv
<1>2. Life' = Life /\ Work' = Work
  BY <1>1 DEF Charted, Alone, Life, Work, WorkOf
<1>3. CASE attempts' = attempts
  <2>1. ~CommitAttempt(r)
    <3> SUFFICES ASSUME CommitAttempt(r) PROVE FALSE
      OBVIOUS
    <3>1. At(r, "record") /\ RecordSourceAttempt(AttemptRowOf(r))
      BY DEF CommitAttempt, Attempted
    <3>2. AttemptRowOf(r) \in attempts /\ AttemptRowOf(r) \in AttemptRow
      BY <1>1, <1>3, <3>1, AttemptRowFields DEF RecordSourceAttempt
    <3> QED
      BY <3>1, <3>2
      DEF RecordSourceAttempt, AttemptAdmissible, NextInSequence, HasAttempt, AttemptsOf,
          AttemptRow
  <2>2. cache' = cache
    BY <2>1, OnlyCommitsPublish
  <2> QED
    BY <1>2, <1>3, <2>2 DEF Seen, Tries, Answered, Shown
<1>4. CASE attempts' # attempts
  <2>1. Ref(r) \in WorkOf(r) /\ Running(r) /\ Ref(r) \in Refs
    BY <1>1, <1>4, WorkIsAsked
  <2>2. CASE CommitAttempt(r)
    <3> DEFINE a == AttemptRowOf(r)
    <3>1. /\ a \in AttemptRow /\ RecordSourceAttempt(a)
          /\ a.run = r /\ a.ref = Ref(r) /\ a.number = proc[r].number
      BY <1>1, <2>2, AttemptRowFields DEF CommitAttempt, Attempted
    <3>2. a.number \in {1, 2}
      BY <3>1 DEF AttemptRow
    <3>3. /\ Fetched(r) \in SUBSET SectionsOf[Ref(r)]
          /\ Shown' = [s \in Sections |->
                          IF s \in Fetched(r) THEN <<r, Ref(r), proc[r].number>> ELSE Shown[s]]
      BY <1>1, <2>2, CommitShows
    <3> HIDE DEF a
    <3>4. Promise!Try(r, a.ref, a.number)
      BY <1>1, <1>2, <2>1, <3>1, <3>3, AttemptIsTry
    <3> QED
      BY <2>1, <3>1, <3>2, <3>4
  <2>3. CASE ~CommitAttempt(r)
    <3>1. cache' = cache
      BY <2>3, OnlyCommitsPublish
    <3>2. PICK a \in AttemptRow : RecordSourceAttempt(a)
      BY <1>1, <1>4
      DEF Charted, Next, vars, BeginRequest, BudgetAdvance, tables, ReserveForceGroup,
          ReserveRetry, FinalizeRequest, SaveDecisionSnapshot, SaveAndFinalize
    <3>3. a.run = r /\ a.ref = Ref(r)
      <4>1. a \in attempts' \ attempts
        BY <1>4, <3>2 DEF RecordSourceAttempt
      <4> QED
        BY <1>1, <4>1 DEF Adds
    <3>4. Shown' = [s \in Sections |-> IF s \in {} THEN <<r, a.ref, a.number>> ELSE Shown[s]]
      BY <3>1 DEF Shown
    <3> DEFINE none == {}
    <3>5. none \in SUBSET SectionsOf[a.ref] /\ a.ref \in WorkOf(r)
      BY <2>1, <3>3
    <3>7. Shown' = [s \in Sections |-> IF s \in none THEN <<r, a.ref, a.number>> ELSE Shown[s]]
      BY <3>4
    <3> HIDE DEF none
    <3>8. Promise!Try(r, a.ref, a.number)
      BY <1>1, <1>2, <2>1, <3>2, <3>3, <3>5, <3>7, AttemptIsTry
    <3>6. a.number \in {1, 2}
      BY DEF AttemptRow
    <3> QED
      BY <2>1, <3>3, <3>6, <3>8
  <2> QED
    BY <2>2, <2>3
<1> QED
  BY <1>3, <1>4

(* A step of a handler begins a request, ends it, or is not seen. *)
LEMMA HandlesPromised ==
  ASSUME SystemInv, SystemInv', NEW r \in Runs, Handles(r),
         NEW h \in Handlers, handler' = [handler EXCEPT ![r] = h],
         At(r, "idle") \/ h = handler[r]
  PROVE  Promise!Begin(r) \/ Promise!End(r) \/ UNCHANGED Seen
<1>1. /\ EngineInv /\ SystemProcess(r) /\ SystemProcess(r)'
      /\ handler \in [Runs -> Handlers] /\ runs \in [Runs -> RunRow] /\ runs' \in [Runs -> RunRow]
  BY DEF SystemInv, EngineInv, SyncTypeOK, TypeOK
<1>2. /\ UNCHANGED <<attempts, cache>>
      /\ \A q \in Runs \ {r} : runs'[q] = runs[q]
      /\ BeginsRun(r) \/ (At(r, "left") /\ (runs'[r] = runs[r] \/ EndsRun(r)))
  BY DEF Handles
<1>3. Tries' = Tries /\ Answered' = Answered /\ Shown' = Shown
  BY <1>2 DEF Tries, Answered, Shown
<1>4. /\ Life' = [Life EXCEPT ![r] = runs'[r].status]
      /\ Work' = [Work EXCEPT ![r] = WorkOf(r)']
      /\ Life[r] = runs[r].status
  <2>1. \A q \in Runs \ {r} : WorkOf(q)' = WorkOf(q)
    BY <1>1 DEF WorkOf
  <2> QED
    BY <1>2, <2>1 DEF Life, Work
<1>5. CASE BeginsRun(r)
  <2>1. Life[r] = "absent" /\ runs'[r].status = "running"
    BY <1>1, <1>4, <1>5, Standing DEF BeginsRun, Lives
  <2>2. WorkOf(r)' \in SUBSET Refs
    BY PlanAssumption, BriefRefsTyped DEF WorkOf, PlanRefs
  <2> QED
    BY <1>3, <1>4, <2>1, <2>2 DEF Promise!Begin
<1>6. CASE At(r, "left")
  <2>1. handler'[r] = handler[r] /\ handler[r] \in {"cli", "brief"} /\ Running(r)
    BY <1>1, <1>6, Standing DEF SystemProcess, At, Handlers, Lives, Stopped
  <2>2. Work' = Work
    BY <1>4, <2>1 DEF Work, WorkOf
  <2>3. CASE runs'[r] = runs[r]
    BY <1>3, <1>4, <2>2, <2>3 DEF Seen, Life
  <2>4. CASE EndsRun(r)
    <3> DEFINE how == runs'[r].status
    <3>1. how \in Promise!Endings
      BY <2>4 DEF EndsRun, TerminalStatuses, Promise!Endings
    <3>2. ASSUME how = "complete", NEW field \in Work[r]
          PROVE  <<r, field>> \in Answered
      <4>1. field \in WorkOf(r)
        BY <3>2 DEF Work
      <4>2. Audited(r, field)'
        BY <1>1, <2>1, <3>2, <4>1
        DEF SystemProcess, CliProcess, BriefProcess, OneEnd, WorkOf
      <4> QED
        BY <1>2, <4>2 DEF Audited, AttemptsOf, Answered
    <3> QED
      BY <1>3, <1>4, <2>1, <2>2, <3>1, <3>2 DEF Promise!End, Running
  <2> QED
    BY <1>2, <1>6, <2>3, <2>4 DEF BeginsRun, At
<1> QED
  BY <1>2, <1>5, <1>6

LEMMA SystemPromised ==
  SystemInv /\ SystemInv' /\ [SystemNext]_systemVars => [Promise!Next]_Seen
<1> SUFFICES ASSUME SystemInv, SystemInv', [SystemNext]_systemVars, ~UNCHANGED Seen
             PROVE  Promise!Next
  OBVIOUS
<1>1. /\ EngineInv /\ BriefTypeOK /\ BriefsInOrder /\ \A q \in Runs : SystemProcess(q)
      /\ handler \in [Runs -> Handlers]
  BY DEF SystemInv
<1>2. SystemNext /\ ~(Tick /\ UNCHANGED handler)
  BY DEF systemVars, briefVars, syncVars, vars, Tick, Seen, Life, Work, WorkOf, Tries, Answered, Shown
<1>3. PICK r \in Runs : \/ \E mode \in Modes, force \in BOOLEAN : Begin(r, mode, force)
                        \/ CommandStep(r)
                        \/ DisruptCommand(r)
                        \/ CommandBudgetPasses(r)
  BY <1>2 DEF SystemNext
<1>4. ASSUME Serves(r), UNCHANGED handler
      PROVE  Promise!Next
  BY <1>4, ServesPromised DEF Promise!Next
<1>5. ASSUME Handles(r), NEW h \in Handlers, handler' = [handler EXCEPT ![r] = h],
             At(r, "idle") \/ h = handler[r]
      PROVE  Promise!Next
  BY <1>5, HandlesPromised DEF Promise!Next
<1>6. ASSUME Handles(r), UNCHANGED handler
      PROVE  Promise!Next
  <2>1. handler[r] \in Handlers /\ handler' = [handler EXCEPT ![r] = handler[r]]
    BY <1>1, <1>6
  <2> QED
    BY <1>5, <1>6, <2>1
<1>7. handler[r] # "cli" /\ OnDuty(r) => Handles(r)
  BY <1>1, OnDutyHandled DEF SystemProcess, Handled
<1>8. ASSUME NEW mode \in Modes, NEW force \in BOOLEAN, Begin(r, mode, force)
      PROVE  Promise!Next
  <2>1. At(r, "idle") /\ handler[r] = "none" /\ {"cli", "brief"} \subseteq Handlers
    BY <1>1, <1>8 DEF Begin, StartRequest, StartBrief, SystemProcess, Handlers
  <2>2. CASE StartRequest(r, mode, force) /\ handler' = [handler EXCEPT ![r] = "cli"]
    BY <1>1, <1>5, <2>1, <2>2, StartRequestStep
  <2>3. CASE StartBrief(r, mode) /\ handler' = [handler EXCEPT ![r] = "brief"]
    BY <1>5, <1>7, <2>1, <2>3 DEF OnDuty
  <2> QED
    BY <1>8, <2>2, <2>3 DEF Begin
<1>9. CASE CommandStep(r)
  <2>1. CASE handler[r] = "cli" /\ CliStep(r) /\ UNCHANGED handler
    <3>1. Conclude(r) => Handles(r)
      BY <1>1, <2>1, ConcludeStep DEF SystemProcess
    <3> QED
      BY <1>4, <1>6, <2>1, <3>1 DEF CliStep, Serves
  <2>2. CASE handler[r] = "brief" /\ BriefStep(r) /\ UNCHANGED handler
    BY <1>4, <1>6, <1>7, <2>2, BriefStepCases
  <2> QED
    BY <1>9, <2>1, <2>2 DEF CommandStep
<1>10. CASE DisruptCommand(r) \/ CommandBudgetPasses(r)
  <2>1. CASE (Disrupt(r) \/ BudgetPasses(r)) /\ UNCHANGED handler
    BY <1>4, <2>1 DEF Serves
  <2>2. CASE handler[r] = "brief" /\ (HandlerInterrupted(r) \/ HandlerFails(r))
             /\ UNCHANGED handler
    BY <1>6, <1>7, <2>2 DEF OnDuty
  <2>3. CASE handler[r] = "cli" /\ OutcomeInterrupted(r) /\ UNCHANGED handler
    BY <1>1, <1>6, <2>3, OutcomeInterruptedStep DEF SystemProcess
  <2>4. CASE (CommandCut(r) \/ BriefCut(r)) /\ UNCHANGED handler
    BY <1>4, <2>4 DEF CommandCut, BriefCut, Serves
  <2> QED
    BY <1>10, <2>1, <2>2, <2>3, <2>4 DEF DisruptCommand, CommandBudgetPasses
<1> QED
  BY <1>3, <1>8, <1>9, <1>10

LEMMA PromiseInit == SystemInit => Promise!Init
<1> SUFFICES ASSUME SystemInit PROVE Promise!Init
  OBVIOUS
<1>1. /\ Init /\ cache = [s \in Sections |-> NoEntry]
      /\ handler = [r \in Runs |-> "none"]
  BY DEF SystemInit, BriefInit, SyncInit
<1>2. \A r \in Runs : runs[r].status = "absent" /\ WorkOf(r) = {}
  BY <1>1 DEF Init, WorkOf
<1>3. attempts = {} /\ Tries = {} /\ Answered = {}
  BY <1>1 DEF Init, Tries, Answered
<1>4. Shown = [s \in Sections |-> <<>>]
  BY <1>1 DEF Shown
<1> QED
  BY <1>2, <1>3, <1>4 DEF Promise!Init, Life, Work

(* Whatever commands and briefs run over the database at once, and however   *)
(* they are disrupted, the database keeps the promises of RequestPromise.    *)
THEOREM SystemRefinement == SystemSpec => ImplementsPromise
<1>1. SystemInv /\ SystemInv' /\ [SystemNext]_systemVars => [Promise!Next]_(Promise!vars)
  BY SystemPromised DEF Promise!vars, Seen
<1> QED
  BY <1>1, PromiseInit, SystemInvariance, PTL DEF SystemSpec, ImplementsPromise, Promise!Spec
=============================================================================
