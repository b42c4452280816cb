-------------------------- MODULE AllocationRange --------------------------
(* allocation/service.py and allocation/store.py: the ranges computed from   *)
(* an authenticated snapshot of the suitability service, and what is later   *)
(* said of the stored ones.  A command loads the snapshot, works, and loads  *)
(* it again before it answers; the insert checks every binding once more in  *)
(* its own transaction.                                                      *)
EXTENDS ProfileAssessment

CONSTANTS
    horizon,       \* payload -> last instant at which a range exists
    MaxAllocations \* bound: rows of allocation_assessments

ASSUME AllocationAssumption ==
    /\ horizon \in [Payloads -> Nat]
    /\ MaxAllocations \in Nat

VARIABLE allocations \* allocation_assessments, by id

vars == <<suitVars, allocations>>

AllocationType ==
    [profile : Nat \ {0}, assessment : Nat \ {0}, assessedAt : Nat, validUntil : Nat]

RangeAvailable(payload, at) == at <= horizon[payload]

(* The shorter of 24 hours, the profile and the assessment.                  *)
RangeEnd(a, at) ==
    Least(at + AssessmentTerm,
          Least(profiles[assessments[a].profile].validUntil, assessments[a].validUntil))

(* The input fingerprint covers the assessment, its profile and the instant. *)
SameFingerprint(x, y) ==
    /\ x.assessment = y.assessment
    /\ x.profile = y.profile
    /\ x.assessedAt = y.assessedAt

(* _authenticate_historical: what history and every later answer demand of a *)
(* stored range.                                                             *)
RangeAuthentic(x) ==
    /\ x.assessment \in DOMAIN assessments
    /\ assessments[x.assessment].profile = x.profile
    /\ Authentic(assessments[x.assessment])
    /\ assessments[x.assessment].status # "blocked"
    /\ profiles[x.profile].confirmedAt <= x.assessedAt
    /\ x.assessedAt < profiles[x.profile].validUntil
    /\ assessments[x.assessment].assessedAt <= x.assessedAt
    /\ x.assessedAt < assessments[x.assessment].validUntil
    /\ x.validUntil = RangeEnd(x.assessment, x.assessedAt)
    /\ RangeAvailable(profiles[x.profile].payload, x.assessedAt)

-----------------------------------------------------------------------------
(* ranges.                                                                   *)

BeginRanges(p) ==
    /\ Len(allocations) + Cardinality(Running("ranges")) < MaxAllocations
    /\ Begin(p, "ranges")
    /\ UNCHANGED allocations

(* The first snapshot is evaluated, at the instant read before it.           *)
RangesEvaluate(p) ==
    LET c == call[p]
        a == assessments[c.assessment]
    IN /\ c.command = "ranges" /\ c.pc = "loaded" /\ c.first = None
       /\ IF \/ a.status = "blocked"
             \/ ~RangeAvailable(profiles[c.profile].payload, c.at)
          THEN Reply(p, "blocked")
          ELSE /\ SetCall(p, [c EXCEPT !.pc = "bind", !.first = c.assessment])
               /\ UNCHANGED disturbed
       /\ UNCHANGED <<profileVars, allocations>>

(* Mutant of BindingsHold: the assessment may be later than the range.       *)
BindingsOfAnyInstant(c) ==
    /\ Confirmed = {c.profile}
    /\ c.at < profiles[c.profile].validUntil
    /\ assessments[c.first].status # "blocked"
    /\ c.first \in LatestFor(c.profile)
    /\ c.at < assessments[c.first].validUntil

(* _assert_bindings, of AllocationAssessmentStore.insert.                    *)
BindingsHold(c) ==
    /\ Confirmed = {c.profile}
    /\ profiles[c.profile].confirmedAt <= c.at
    /\ c.at < profiles[c.profile].validUntil
    /\ assessments[c.first].profile = c.profile
    /\ assessments[c.first].status # "blocked"
    /\ c.first \in LatestFor(c.profile)
    /\ assessments[c.first].assessedAt <= c.at
    /\ c.at < assessments[c.first].validUntil

NewAllocation(c) ==
    [profile |-> c.profile, assessment |-> c.first, assessedAt |-> c.at,
     validUntil |-> RangeEnd(c.first, c.at)]

(* Mutant of Stored: the row of a fingerprint is not looked up.              *)
StoredUnseen(x) == {}

Stored(x) == {r \in DOMAIN allocations : SameFingerprint(allocations[r], x)}

(* One transaction: the bindings, then the row that has the fingerprint, or  *)
(* a new one.  The second snapshot follows.                                  *)
RangesBind(p) ==
    LET c == call[p]
        x == NewAllocation(c)
    IN /\ c.pc = "bind"
       /\ \/ /\ ~BindingsHold(c)
             /\ Reply(p, "changed")
             /\ UNCHANGED allocations
          \/ /\ BindingsHold(c)
             /\ Stored(x) # {}
             /\ SetCall(p, [c EXCEPT !.pc = "snapshot", !.row = CHOOSE r \in Stored(x) : TRUE])
             /\ UNCHANGED <<allocations, disturbed>>
          \/ /\ BindingsHold(c)
             /\ Stored(x) = {}
             /\ allocations' = Append(allocations, x)
             /\ SetCall(p, [c EXCEPT !.pc = "snapshot", !.row = Len(allocations) + 1])
             /\ UNCHANGED disturbed
       /\ UNCHANGED profileVars

(* The stored range must still be what the second snapshot supports.         *)
CurrentRange(c) ==
    LET x == allocations[c.row] IN
    /\ x.assessedAt <= c.at /\ c.at < x.validUntil
    /\ RangeAuthentic(x)
    /\ x.assessment = c.assessment

RangesAnswer(p) ==
    LET c == call[p] IN
    /\ c.command = "ranges" /\ c.pc = "loaded" /\ c.first # None
    /\ Reply(p, IF c.assessment # c.first THEN "changed"
                ELSE IF CurrentRange(c) THEN "fresh"
                ELSE "unauthenticated")
    /\ UNCHANGED <<profileVars, allocations>>

-----------------------------------------------------------------------------
(* status of the allocation.                                                 *)

BeginRangeStatus(p) == Begin(p, "range status") /\ UNCHANGED allocations

RangesOf(a) == {r \in DOMAIN allocations : allocations[r].assessment = a}

NewestOf(rows) ==
    CHOOSE r \in rows : \A s \in rows :
        \/ allocations[s].assessedAt < allocations[r].assessedAt
        \/ allocations[s].assessedAt = allocations[r].assessedAt /\ s <= r

(* The newest range of the first snapshot's assessment, authenticated.       *)
RangeStatusFetch(p) ==
    LET c == call[p]
        rows == RangesOf(c.assessment)
        r == NewestOf(rows)
    IN /\ c.command = "range status" /\ c.pc = "loaded" /\ c.first = None
       /\ IF assessments[c.assessment].status = "blocked" \/ rows = {}
          THEN Onward(p, "range history", "none") /\ UNCHANGED disturbed
          ELSE IF ~RangeAuthentic(allocations[r]) THEN Reply(p, "unauthenticated")
          ELSE IF c.at >= allocations[r].validUntil THEN Reply(p, "stale")
          ELSE IF ~CurrentRange([c EXCEPT !.row = r]) THEN Reply(p, "unauthenticated")
          ELSE /\ SetCall(p, [Idle EXCEPT !.command = c.command, !.pc = "snapshot",
                                          !.first = c.assessment])
               /\ UNCHANGED disturbed
       /\ UNCHANGED <<profileVars, allocations>>

(* The second snapshot names the same assessment, or the answer is stale.    *)
RangeStatusAnswer(p) ==
    LET c == call[p] IN
    /\ c.command = "range status" /\ c.pc = "loaded" /\ c.first # None
    /\ Reply(p, IF c.assessment = c.first THEN "fresh" ELSE "stale")
    /\ UNCHANGED <<profileVars, allocations>>

(* A snapshot that is refused ends the command: status answers for one that  *)
(* is merely unavailable out of its history, or as stale the second time.    *)
SnapshotRefused(p) ==
    LET c == call[p] IN
    /\ c.pc = "refused"
    /\ IF c.command = "range status" /\ c.outcome = "unavailable"
       THEN IF c.first = None
            THEN Onward(p, "range history", "none") /\ UNCHANGED disturbed
            ELSE Reply(p, "stale")
       ELSE Reply(p, c.outcome)
    /\ UNCHANGED <<profileVars, allocations>>

RangeStatusHistory(p) ==
    LET rows == DOMAIN allocations IN
    /\ call[p].pc = "range history"
    /\ Reply(p, IF rows = {} THEN "missing"
                ELSE IF RangeAuthentic(allocations[NewestOf(rows)]) THEN "stale"
                ELSE "unauthenticated")
    /\ UNCHANGED <<profileVars, allocations>>

-----------------------------------------------------------------------------
Init == ProfileInit /\ allocations = <<>>

Allocation(p) ==
    \/ BeginRanges(p) \/ BeginRangeStatus(p)
    \/ RangesEvaluate(p) \/ RangesBind(p) \/ RangesAnswer(p)
    \/ RangeStatusFetch(p) \/ RangeStatusAnswer(p)
    \/ SnapshotRefused(p) \/ RangeStatusHistory(p)

Next ==
    \/ (\E p \in Procs : Suitability(p)) /\ UNCHANGED allocations
    \/ Editor /\ UNCHANGED allocations
    \/ Tick /\ UNCHANGED allocations
    \/ \E p \in Procs : Allocation(p)

Spec == Init /\ [][Next]_vars

-----------------------------------------------------------------------------
TypeOK ==
    /\ now \in Nat
    /\ profiles \in Seq(ProfileType)
    /\ assessments \in Seq(AssessmentType)
    /\ allocations \in Seq(AllocationType)
    /\ call \in [Procs -> CallType]
    /\ disturbed \in [Procs -> BOOLEAN]

(* README.md:494-495: a changed, replaced or expired profile cannot reuse an *)
(* earlier result.  Whatever answers "fresh", from assess to the status of a *)
(* range, saw one profile stay the active one from its first look at it.     *)
FreshMeansUndisturbed ==
    [][\A p \in Procs :
           (call[p].pc # "done" /\ call'[p].pc = "done" /\ call'[p].outcome = "fresh")
               => ~disturbed[p]]_vars

(* README.md, Phase C: ranges "retain immutable authenticated history".  No  *)
(* interleaving of assess, ranges and the editor stores a range that the     *)
(* history would later refuse.                                               *)
RangesStayAuthentic == \A r \in DOMAIN allocations : RangeAuthentic(allocations[r])

(* Two commands that compute the same range at one instant share its row.    *)
OneRowPerFingerprint ==
    \A r, s \in DOMAIN allocations :
        SameFingerprint(allocations[r], allocations[s]) => r = s

(* load_authenticated_snapshot_by_ids, which history calls for every row:    *)
(* what assess stored can be authenticated again, unless the profile was     *)
(* confirmed between the reading of assess's clock and its load of the       *)
(* profile.  Such a row is answered as fresh, and refused ever after.        *)
OnlyEarlyRowsAreRefused ==
    \A a \in DOMAIN assessments :
        \/ Authentic(assessments[a])
        \/ assessments[a].assessedAt < profiles[assessments[a].profile].confirmedAt

=============================================================================
