------------------------- MODULE ProfileAssessment -------------------------
(* suitability/service.py and suitability/store.py: versions of the owner's  *)
(* financial profile, and the assessments made of them.  Each command is a   *)
(* process; a store operation that writes runs under BEGIN IMMEDIATE and is  *)
(* one step, and so is every SELECT that runs on a connection of its own.    *)
(* Between two of them any other command may commit.                         *)
(*                                                                           *)
(* Encryption, keys and the fixed policy are left out: a fingerprint stands  *)
(* for (profile, instant), which the rows hold, and the engine is a function *)
(* of the payload and the instant.                                           *)
EXTENDS Naturals, Sequences, FiniteSets

CONSTANTS
    Procs,          \* commands that may run at the same time
    Payloads,       \* what a profile may say
    due,            \* payload -> last instant at which no hard block applies
    ProfileTerm,    \* ticks a confirmed profile stays valid (90 days)
    AssessmentTerm, \* ticks an assessment stays valid (24 hours)
    MaxTime,        \* bound: the clock
    MaxProfiles,    \* bound: profile versions
    MaxAssessments  \* bound: rows of suitability_assessments

ASSUME ProfileAssumption ==
    /\ due \in [Payloads -> Nat]
    /\ ProfileTerm \in Nat \ {0}
    /\ AssessmentTerm \in Nat \ {0}
    /\ MaxTime \in Nat
    /\ MaxProfiles \in Nat
    /\ MaxAssessments \in Nat

VARIABLES
    now,         \* the wall clock
    profiles,    \* financial_profile_versions, by id and version
    assessments, \* suitability_assessments, by id
    call,        \* the local variables of the processes
    disturbed    \* history: the active profile changed since this call loaded it

profileVars == <<now, profiles, assessments>>
suitVars == <<profileVars, call, disturbed>>

None == 0

ProfileType ==
    [payload : Payloads, status : {"confirmed", "superseded", "invalidated"},
     confirmedAt : Nat, validUntil : Nat]
AssessmentType ==
    [profile : Nat \ {0}, status : {"blocked", "ready"},
     assessedAt : Nat, validUntil : Nat]

(* The commands that go through the two services.  "ranges" and "range       *)
(* status" are AllocationRange's, which loads authenticated snapshots here.  *)
Commands == {"assess", "status", "ranges", "range status"}
SuitabilityPoints == {"load", "why", "store", "verify", "history"}
SnapshotPoints == {"snapshot", "latest", "confirm", "loaded", "refused"}
RangePoints == {"bind", "fetch", "range history"}
Points == {"idle", "done"} \union SuitabilityPoints \union SnapshotPoints \union RangePoints
Outcomes == {"none", "missing", "invalidated", "stale", "fresh", "blocked",
             "unavailable", "unauthenticated", "changed"}

(* at: current time as the command read it; current: as the snapshot read    *)
(* it; profile, assessment: the rows loaded; first: the assessment of a      *)
(* command's first snapshot; row: its allocation; outcome: what it replies.  *)
CallType ==
    [command : Commands \union {"none"}, pc : Points, at : Nat, current : Nat,
     profile : Nat, assessment : Nat, first : Nat, row : Nat, outcome : Outcomes]

Idle == [command |-> "none", pc |-> "idle", at |-> 0, current |-> 0, profile |-> None,
         assessment |-> None, first |-> None, row |-> None, outcome |-> "none"]

Least(a, b) == IF a <= b THEN a ELSE b

-----------------------------------------------------------------------------
(* The tables.                                                               *)

Confirmed == {i \in DOMAIN profiles : profiles[i].status = "confirmed"}

Active ==
    IF Confirmed = {} THEN None
    ELSE CHOOSE i \in Confirmed : \A j \in Confirmed : j <= i

(* Mutant of Usable: a profile is still good at the instant it expires.      *)
UsableAtEnd(at) == Active # None /\ at <= profiles[Active].validUntil

(* There is an active profile, and it is valid at this instant.              *)
Usable(at) == Active # None /\ at < profiles[Active].validUntil

RowsOf(i) == {a \in DOMAIN assessments : assessments[a].profile = i}

NotAfter(b, a) ==
    \/ assessments[b].assessedAt < assessments[a].assessedAt
    \/ assessments[b].assessedAt = assessments[a].assessedAt /\ b <= a

(* The newest assessment of a profile, or None, as the only element.         *)
LatestFor(i) ==
    IF RowsOf(i) = {} THEN {None}
    ELSE {a \in RowsOf(i) : \A b \in RowsOf(i) : NotAfter(b, a)}

Evaluate(payload, at) == IF at <= due[payload] THEN "ready" ELSE "blocked"

(* _validate_assessment_timing, without the current time.                    *)
TimingHolds(i, row) ==
    /\ profiles[i].confirmedAt <= row.assessedAt
    /\ row.assessedAt < profiles[i].validUntil
    /\ row.validUntil = Least(row.assessedAt + AssessmentTerm, profiles[i].validUntil)

(* Whether load_authenticated_snapshot_by_ids accepts the row: history asks  *)
(* it of every row of the table.                                             *)
Authentic(row) ==
    /\ row.profile \in DOMAIN profiles
    /\ TimingHolds(row.profile, row)
    /\ row.status = Evaluate(profiles[row.profile].payload, row.assessedAt)

-----------------------------------------------------------------------------
(* Steps of a process.                                                       *)

SetCall(p, c) == call' = [call EXCEPT ![p] = c]

(* A load of the active profile begins the span the reply answers for.       *)
Undisturb(p) == disturbed' = [disturbed EXCEPT ![p] = FALSE]

Reply(p, outcome) ==
    /\ SetCall(p, [Idle EXCEPT !.pc = "done", !.outcome = outcome])
    /\ Undisturb(p)

(* Goes on to a step that needs nothing but the answer found so far.         *)
Onward(p, pc, outcome) ==
    SetCall(p, [Idle EXCEPT !.command = call[p].command, !.pc = pc, !.outcome = outcome])

(* A snapshot that fails leaves its caller with the error alone.             *)
Refuse(p, outcome) ==
    SetCall(p, [Idle EXCEPT !.command = call[p].command, !.first = call[p].first,
                !.pc = "refused", !.outcome = outcome])

Running(command) == {p \in Procs : call[p].command = command}

Begin(p, command) ==
    /\ call[p].pc = "idle"
    /\ SetCall(p, [Idle EXCEPT !.command = command, !.at = now,
           !.pc = IF command \in {"assess", "status"} THEN "load" ELSE "snapshot"])
    /\ UNCHANGED <<profileVars, disturbed>>

BeginAssess(p) ==
    /\ Len(assessments) + Cardinality(Running("assess")) < MaxAssessments
    /\ Begin(p, "assess")

BeginStatus(p) == Begin(p, "status")

Return(p) ==
    /\ call[p].pc = "done"
    /\ SetCall(p, Idle)
    /\ UNCHANGED <<profileVars, disturbed>>

(* assess reads the clock, then the active profile, and evaluates it.        *)
AssessLoad(p) ==
    /\ call[p].command = "assess" /\ call[p].pc = "load"
    /\ Undisturb(p)
    /\ \/ /\ Active = None
          /\ Onward(p, "why", "none")
       \/ /\ Active # None
          /\ ~Usable(call[p].at)
          /\ Reply(p, "stale")
       \/ /\ Usable(call[p].at)
          /\ SetCall(p, [call[p] EXCEPT !.pc = "store", !.profile = Active])
    /\ UNCHANGED profileVars

(* With no active profile, a second SELECT of the newest version says why.   *)
AssessWhy(p) ==
    /\ call[p].pc = "why"
    /\ Reply(p, IF Len(profiles) > 0 /\ profiles[Len(profiles)].status = "invalidated"
                THEN "invalidated" ELSE "missing")
    /\ UNCHANGED profileVars

NewAssessment(i, at) ==
    [profile |-> i, status |-> Evaluate(profiles[i].payload, at), assessedAt |-> at,
     validUntil |-> Least(at + AssessmentTerm, profiles[i].validUntil)]

(* SuitabilityAssessmentStore.insert: one transaction, which looks whether   *)
(* the profile is still the active one.                                      *)
AssessStore(p) ==
    /\ call[p].command = "assess" /\ call[p].pc = "store"
    /\ \/ /\ Confirmed = {call[p].profile}
          /\ assessments' = Append(assessments, NewAssessment(call[p].profile, call[p].at))
          /\ SetCall(p, [Idle EXCEPT !.command = "assess", !.pc = "verify",
                                     !.profile = call[p].profile])
          /\ UNCHANGED disturbed
       \/ /\ Confirmed # {call[p].profile}
          /\ Reply(p, "stale")
          /\ UNCHANGED assessments
    /\ UNCHANGED <<now, profiles>>

(* The last look at the active profile before assess calls its answer fresh. *)
AssessVerify(p) ==
    /\ call[p].command = "assess" /\ call[p].pc = "verify"
    /\ Reply(p, IF Active = call[p].profile THEN "fresh" ELSE "stale")
    /\ UNCHANGED profileVars

-----------------------------------------------------------------------------
(* status, and load_authenticated_snapshot on behalf of the allocation.      *)

StatusLoad(p) ==
    /\ call[p].command = "status" /\ call[p].pc = "load"
    /\ \/ /\ Usable(call[p].at)
          /\ SetCall(p, [call[p] EXCEPT !.pc = "latest", !.profile = Active])
       \/ /\ ~Usable(call[p].at)
          /\ Onward(p, "history", IF Active = None THEN "missing" ELSE "stale")
    /\ Undisturb(p)
    /\ UNCHANGED profileVars

(* _stale_history_or_missing: the newest assessment of any profile, as stale.*)
StatusHistory(p) ==
    /\ call[p].pc = "history"
    /\ Reply(p, IF Len(assessments) > 0 THEN "stale" ELSE call[p].outcome)
    /\ UNCHANGED profileVars

(* The snapshot reads a clock of its own, then the active profile.  The span *)
(* a reply answers for begins with the command's first snapshot.             *)
SnapshotLoad(p) ==
    /\ call[p].pc = "snapshot"
    /\ \/ /\ Usable(now)
          /\ SetCall(p, [call[p] EXCEPT !.pc = "latest", !.profile = Active, !.current = now])
       \/ /\ ~Usable(now)
          /\ Refuse(p, "unavailable")
    /\ IF call[p].first = None THEN Undisturb(p) ELSE UNCHANGED disturbed
    /\ UNCHANGED profileVars

(* What the newest assessment of the loaded profile is found to be.  status  *)
(* checks its timing before its expiry, the snapshot after it.               *)
StatusFinds(c, a) ==
    IF a = None THEN "missing"
    ELSE IF \/ ~TimingHolds(c.profile, assessments[a])
            \/ assessments[a].assessedAt > c.at THEN "unauthenticated"
    ELSE IF \/ c.at >= assessments[a].validUntil
            \/ ~Authentic(assessments[a]) THEN "stale"
    ELSE "none"

SnapshotFinds(c, a) ==
    IF a = None THEN "unavailable"
    ELSE IF c.current >= assessments[a].validUntil THEN "unavailable"
    ELSE IF \/ ~Authentic(assessments[a])
            \/ assessments[a].assessedAt > c.current THEN "unauthenticated"
    ELSE "none"

ReadLatest(p) ==
    /\ call[p].pc = "latest"
    /\ \E a \in LatestFor(call[p].profile) :
        LET c == [call[p] EXCEPT !.assessment = a]
            found == IF c.command = "status" THEN StatusFinds(c, a) ELSE SnapshotFinds(c, a)
        IN IF found = "none"
           THEN SetCall(p, [c EXCEPT !.pc = "confirm", !.current = 0]) /\ UNCHANGED disturbed
           ELSE IF c.command # "status" THEN Refuse(p, found) /\ UNCHANGED disturbed
           ELSE IF found = "missing" THEN Onward(p, "history", found) /\ UNCHANGED disturbed
           ELSE Reply(p, found)
    /\ UNCHANGED profileVars

(* Mutant of ConfirmLoaded: the second load is not compared with the first.  *)
ConfirmUncompared(p) ==
    /\ call[p].pc = "confirm"
    /\ \/ call[p].command = "status" /\ Reply(p, "fresh")
       \/ /\ call[p].command # "status"
          /\ SetCall(p, [call[p] EXCEPT !.pc = "loaded"])
          /\ UNCHANGED disturbed
    /\ UNCHANGED profileVars

(* The profile is loaded once more: its identity must not have changed.      *)
ConfirmLoaded(p) ==
    LET same == Active = call[p].profile IN
    /\ call[p].pc = "confirm"
    /\ \/ /\ call[p].command = "status"
          /\ Reply(p, IF same THEN "fresh" ELSE "stale")
       \/ /\ call[p].command # "status"
          /\ IF same THEN SetCall(p, [call[p] EXCEPT !.pc = "loaded"])
             ELSE Refuse(p, "changed")
          /\ UNCHANGED disturbed
    /\ UNCHANGED profileVars

-----------------------------------------------------------------------------
(* The owner's editor, which confirms and invalidates profiles.  It reads    *)
(* the clock before its transaction, at any earlier instant.                 *)

(* A command has yet to look at the profile for the last time.               *)
Looking(c) == c.pc \notin {"idle", "done"} /\ ~(c.pc = "loaded" /\ c.first # None)

Touch == disturbed' = [p \in Procs |-> disturbed[p] \/ Looking(call[p])]

ConfirmProfile ==
    /\ Len(profiles) < MaxProfiles
    /\ \E payload \in Payloads, at \in 0 .. now :
           profiles' = Append(
               [i \in DOMAIN profiles |->
                   IF i \in Confirmed THEN [profiles[i] EXCEPT !.status = "superseded"]
                   ELSE profiles[i]],
               [payload |-> payload, status |-> "confirmed", confirmedAt |-> at,
                validUntil |-> at + ProfileTerm])
    /\ Touch
    /\ UNCHANGED <<now, assessments, call>>

InvalidateProfile ==
    /\ Active # None
    /\ profiles' = [profiles EXCEPT ![Active].status = "invalidated"]
    /\ Touch
    /\ UNCHANGED <<now, assessments, call>>

Tick ==
    /\ now < MaxTime
    /\ now' = now + 1
    /\ UNCHANGED <<profiles, assessments, call, disturbed>>

-----------------------------------------------------------------------------
ProfileInit ==
    /\ now = 0
    /\ profiles = <<>>
    /\ assessments = <<>>
    /\ call = [p \in Procs |-> Idle]
    /\ disturbed = [p \in Procs |-> FALSE]

Suitability(p) ==
    \/ BeginAssess(p) \/ BeginStatus(p) \/ Return(p)
    \/ AssessLoad(p) \/ AssessWhy(p) \/ AssessStore(p) \/ AssessVerify(p)
    \/ StatusLoad(p) \/ StatusHistory(p) \/ SnapshotLoad(p) \/ ReadLatest(p) \/ ConfirmLoaded(p)

Editor == ConfirmProfile \/ InvalidateProfile

=============================================================================
