----------------------- MODULE AllocationRangeProofs -----------------------
(* Theorems of AllocationRange, for any number of commands and versions, any *)
(* terms of profiles and assessments, and every rule of the two engines.     *)
EXTENDS AllocationRange, TLAPS

-----------------------------------------------------------------------------
(* The inductive invariant.                                                  *)

(* Only the newest version of the profile may be the active one.             *)
NewestIsActive == Confirmed \subseteq {Len(profiles)}

(* What AssessStore writes: authentic but for a profile confirmed too late.  *)
Made(row) ==
    /\ row.profile \in DOMAIN profiles
    /\ row.assessedAt < profiles[row.profile].validUntil
    /\ row.validUntil = Least(row.assessedAt + AssessmentTerm, profiles[row.profile].validUntil)
    /\ row.status = Evaluate(profiles[row.profile].payload, row.assessedAt)

EveryRowMade == \A a \in DOMAIN assessments : Made(assessments[a])

(* A command whose profile changed has in hand what its last look refuses.   *)
Outdated(c) ==
    /\ c.pc \in {"store", "verify", "bind"} => c.profile \notin Confirmed
    /\ c.pc \in {"latest", "confirm"} =>
          \/ c.profile \notin Confirmed
          \/ c.first # None /\ assessments[c.first].profile # c.profile
    /\ c.pc = "snapshot" /\ c.first # None => assessments[c.first].profile \notin Confirmed
    /\ c.pc = "loaded" /\ c.first = None => c.profile \notin Confirmed
    /\ c.pc = "loaded" /\ c.first # None => c.assessment # c.first

(* What a command carries at each of its steps.                              *)
Holds(c) ==
    /\ c.pc \in {"store", "verify", "latest", "confirm", "loaded", "bind"} =>
          c.profile \in DOMAIN profiles
    /\ c.pc = "store" => c.at < profiles[c.profile].validUntil
    /\ c.pc \in {"confirm", "loaded"} /\ c.command # "status" =>
          /\ c.assessment \in DOMAIN assessments
          /\ assessments[c.assessment].profile = c.profile
          /\ Authentic(assessments[c.assessment])
    /\ c.first # None => c.first \in DOMAIN assessments /\ Authentic(assessments[c.first])
    /\ c.pc = "bind" =>
          /\ c.first # None
          /\ assessments[c.first].profile = c.profile
          /\ RangeAvailable(profiles[c.profile].payload, c.at)

Local(c, d) ==
    /\ c \in CallType
    /\ c.pc # "done" => c.outcome # "fresh"
    /\ c.pc = "loaded" => c.command # "status"
    /\ c.command = "status" => c.first = None
    /\ Holds(c)
    /\ d => Outdated(c)

Locals == \A p \in Procs : Local(call[p], disturbed[p])

RangeInv ==
    /\ TypeOK /\ NewestIsActive /\ EveryRowMade
    /\ RangesStayAuthentic /\ OneRowPerFingerprint /\ Locals

-----------------------------------------------------------------------------
(* A process at rest, and one that has replied.                              *)

LEMMA IdleFields ==
    /\ Idle \in CallType
    /\ Idle.pc = "idle" /\ Idle.outcome = "none" /\ Idle.first = None /\ Idle.command = "none"
    /\ Idle.profile = None
  BY DEF Idle, CallType, Points, Outcomes, None

LEMMA RestingLocal ==
  ASSUME NEW c \in CallType, NEW d \in BOOLEAN, c.first = None,
         c.pc \in {"idle", "load", "why", "history", "range history", "snapshot"},
         c.outcome # "fresh"
  PROVE  Local(c, d)
  BY DEF Local, Holds, Outdated

LEMMA DoneLocal ==
  ASSUME NEW c \in CallType, c.pc = "done", c.first = None
  PROVE  Local(c, FALSE)
  BY DEF Local, Holds

(* Before the first command: no profile, no row, every command at rest.      *)
THEOREM InitRange == Init => RangeInv
  <1> SUFFICES ASSUME Init PROVE RangeInv
    OBVIOUS
  <1>1. TypeOK
    BY IdleFields, ProfileAssumption DEF Init, ProfileInit, TypeOK
  <1>2. NewestIsActive /\ EveryRowMade /\ RangesStayAuthentic /\ OneRowPerFingerprint
    BY DEF Init, ProfileInit, NewestIsActive, Confirmed, EveryRowMade, RangesStayAuthentic,
           OneRowPerFingerprint
  <1>3. Locals
    BY IdleFields, RestingLocal DEF Init, ProfileInit, Locals
  <1> QED  BY <1>1, <1>2, <1>3 DEF RangeInv

-----------------------------------------------------------------------------
(* The active profile.                                                       *)

LEMMA ActiveIs ==
  ASSUME RangeInv
  PROVE  \/ Active = None /\ Confirmed = {}
         \/ Active \in DOMAIN profiles /\ Confirmed = {Active} /\ Active # None
  <1>1. CASE Confirmed = {}
    BY <1>1 DEF Active
  <1>2. CASE Confirmed # {}
    <2>1. Confirmed = {Len(profiles)} /\ Len(profiles) \in DOMAIN profiles
      BY <1>2 DEF RangeInv, NewestIsActive, Confirmed
    <2>2. Len(profiles) \in Nat \ {0}
      BY <2>1 DEF RangeInv, TypeOK
    <2>3. Active = Len(profiles)
      BY <2>1, <2>2 DEF Active
    <2> QED  BY <2>1, <2>2, <2>3 DEF None
  <1> QED  BY <1>1, <1>2

-----------------------------------------------------------------------------
(* Steps that change no table, and their effect on one process.              *)

Moves(p, c, d) ==
    /\ call' = [call EXCEPT ![p] = c]
    /\ disturbed' = [disturbed EXCEPT ![p] = d]

LEMMA MovesKeepLocals ==
  ASSUME RangeInv, NEW p \in Procs, NEW c, NEW d \in BOOLEAN,
         Moves(p, c, d), Local(c, d), UNCHANGED <<profiles, assessments>>
  PROVE  /\ call' \in [Procs -> CallType] /\ disturbed' \in [Procs -> BOOLEAN]
         /\ Locals'
  <1>1. call \in [Procs -> CallType] /\ disturbed \in [Procs -> BOOLEAN] /\ c \in CallType
    BY DEF RangeInv, TypeOK, Local
  <1>2. call' \in [Procs -> CallType] /\ disturbed' \in [Procs -> BOOLEAN]
    BY <1>1 DEF Moves
  <1>3. ASSUME NEW q \in Procs PROVE Local(call[q], disturbed[q])'
    <2>1. Local(call'[q], disturbed'[q])
      BY <1>1 DEF RangeInv, Locals, Moves
    <2>2. Holds(call[q])'
      BY <2>1 DEF Local, Holds, Authentic, TimingHolds
    <2>3. Outdated(call'[q]) => Outdated(call[q])'
      BY DEF Outdated, Confirmed
    <2> QED  BY <2>1, <2>2, <2>3 DEF Local
  <1> QED  BY <1>2, <1>3 DEF Locals

LEMMA MovesPreserve ==
  ASSUME RangeInv, NEW p \in Procs, NEW c, NEW d \in BOOLEAN,
         Moves(p, c, d), Local(c, d), UNCHANGED <<profileVars, allocations>>
  PROVE  RangeInv'
  <1> USE DEF profileVars
  <1>1. /\ call' \in [Procs -> CallType] /\ disturbed' \in [Procs -> BOOLEAN] /\ Locals'
    BY MovesKeepLocals
  <1>2. TypeOK'
    BY <1>1 DEF RangeInv, TypeOK
  <1>3. NewestIsActive' /\ EveryRowMade'
    BY DEF RangeInv, NewestIsActive, Confirmed, EveryRowMade, Made
  <1>4. RangesStayAuthentic' /\ OneRowPerFingerprint'
    BY DEF RangeInv, RangesStayAuthentic, OneRowPerFingerprint, RangeAuthentic, Authentic,
           TimingHolds, RangeEnd
  <1> QED  BY <1>1, <1>2, <1>3, <1>4 DEF RangeInv

LEMMA CallMoves ==
  ASSUME RangeInv, NEW p \in Procs, NEW c, SetCall(p, c), UNCHANGED disturbed
  PROVE  Moves(p, c, disturbed[p])
  BY DEF RangeInv, TypeOK, SetCall, Moves

LEMMA ReplyPreserves ==
  ASSUME RangeInv, NEW p \in Procs, NEW outcome \in Outcomes, Reply(p, outcome),
         UNCHANGED <<profileVars, allocations>>
  PROVE  RangeInv'
  <1> DEFINE c == [Idle EXCEPT !.pc = "done", !.outcome = outcome]
  <1>1. c \in CallType /\ c.pc = "done" /\ c.first = None
    BY IdleFields DEF CallType, Points
  <1>2. Moves(p, c, FALSE)
    BY DEF Reply, SetCall, Undisturb, Moves
  <1> HIDE DEF c
  <1> QED  BY <1>1, <1>2, DoneLocal, MovesPreserve

LEMMA OnwardPreserves ==
  ASSUME RangeInv, NEW p \in Procs, NEW pc \in {"why", "history", "range history"},
         NEW outcome \in Outcomes \ {"fresh"}, Onward(p, pc, outcome),
         UNCHANGED disturbed \/ Undisturb(p), UNCHANGED <<profileVars, allocations>>
  PROVE  RangeInv'
  <1> DEFINE c == [Idle EXCEPT !.command = call[p].command, !.pc = pc, !.outcome = outcome]
  <1>0. call[p] \in CallType /\ disturbed \in [Procs -> BOOLEAN]
    BY DEF RangeInv, TypeOK
  <1>1. c \in CallType /\ c.pc = pc /\ c.first = None /\ c.outcome = outcome
    BY <1>0, IdleFields DEF CallType, Points, SuitabilityPoints, RangePoints
  <1>2. \E d \in BOOLEAN : Moves(p, c, d)
    BY <1>0 DEF Onward, SetCall, Undisturb, Moves
  <1> HIDE DEF c
  <1> QED  BY <1>1, <1>2, RestingLocal, MovesPreserve

LEMMA RefusePreserves ==
  ASSUME RangeInv, NEW p \in Procs, NEW outcome \in Outcomes \ {"fresh"}, Refuse(p, outcome),
         UNCHANGED disturbed \/ Undisturb(p), UNCHANGED <<profileVars, allocations>>
  PROVE  RangeInv'
  <1> DEFINE c == [Idle EXCEPT !.command = call[p].command, !.first = call[p].first,
                   !.pc = "refused", !.outcome = outcome]
  <1>0. call[p] \in CallType /\ disturbed \in [Procs -> BOOLEAN] /\ Local(call[p], disturbed[p])
    BY DEF RangeInv, TypeOK, Locals
  <1>1. /\ c \in CallType /\ c.pc = "refused" /\ c.first = call[p].first
        /\ c.outcome = outcome /\ c.command = call[p].command
    BY <1>0, IdleFields DEF CallType, Points, SnapshotPoints
  <1>2. PICK d \in BOOLEAN : Moves(p, c, d)
    BY <1>0 DEF Refuse, SetCall, Undisturb, Moves
  <1> HIDE DEF c
  <1>3. Local(c, d)
    BY <1>0, <1>1 DEF Local, Holds, Outdated
  <1> QED  BY <1>2, <1>3, MovesPreserve

-----------------------------------------------------------------------------
(* The commands of the suitability service.                                  *)

LEMMA BeginPreserves ==
  ASSUME RangeInv, NEW p \in Procs, NEW command \in Commands, Begin(p, command),
         UNCHANGED allocations
  PROVE  RangeInv'
  <1> DEFINE pc == IF command \in {"assess", "status"} THEN "load" ELSE "snapshot"
             c == [Idle EXCEPT !.command = command, !.at = now, !.pc = pc]
  <1>0. now \in Nat /\ disturbed \in [Procs -> BOOLEAN] /\ pc \in {"load", "snapshot"}
    BY DEF RangeInv, TypeOK
  <1>1. Moves(p, c, disturbed[p])
    BY CallMoves DEF Begin
  <1> HIDE DEF pc
  <1>2. c \in CallType /\ c.pc = pc /\ c.first = None /\ c.outcome = "none"
    BY <1>0, IdleFields DEF CallType, Points, SuitabilityPoints, SnapshotPoints
  <1> HIDE DEF c
  <1>3. Local(c, disturbed[p])
    BY <1>0, <1>2, RestingLocal
  <1> QED  BY <1>0, <1>1, <1>3, MovesPreserve DEF Begin

LEMMA ReturnPreserves ==
  ASSUME RangeInv, NEW p \in Procs, Return(p), UNCHANGED allocations
  PROVE  RangeInv'
  <1>1. Moves(p, Idle, disturbed[p]) /\ disturbed[p] \in BOOLEAN
    BY CallMoves DEF Return, RangeInv, TypeOK
  <1>2. Local(Idle, disturbed[p])
    BY <1>1, IdleFields, RestingLocal
  <1> QED  BY <1>1, <1>2, MovesPreserve DEF Return

LEMMA AssessLoadPreserves ==
  ASSUME RangeInv, NEW p \in Procs, AssessLoad(p), UNCHANGED allocations
  PROVE  RangeInv'
  <1>1. CASE Onward(p, "why", "none")
    BY <1>1, OnwardPreserves DEF AssessLoad, Outcomes
  <1>2. CASE Reply(p, "stale")
    BY <1>2, ReplyPreserves DEF AssessLoad, Outcomes
  <1>3. CASE Usable(call[p].at) /\ SetCall(p, [call[p] EXCEPT !.pc = "store", !.profile = Active])
    <2> DEFINE c == [call[p] EXCEPT !.pc = "store", !.profile = Active]
    <2>1. call[p] \in CallType /\ Local(call[p], disturbed[p])
      BY DEF RangeInv, TypeOK, Locals
    <2>2. Active \in DOMAIN profiles /\ call[p].at < profiles[Active].validUntil
      BY <1>3, ActiveIs DEF Usable
    <2>3. Active \in Nat
      BY <2>2 DEF RangeInv, TypeOK
    <2>4. c \in CallType
      BY <2>1, <2>3 DEF CallType, Points, SuitabilityPoints
    <2>5. Local(c, FALSE)
      BY <1>3, <2>1, <2>2, <2>4 DEF Local, Holds, AssessLoad, CallType
    <2>6. Moves(p, c, FALSE)
      BY <1>3 DEF AssessLoad, Undisturb, SetCall, Moves
    <2> HIDE DEF c
    <2> QED  BY <2>5, <2>6, MovesPreserve DEF AssessLoad
  <1> QED  BY <1>1, <1>2, <1>3 DEF AssessLoad

(* A new assessment is made of a profile that was good at its instant.       *)
LEMMA AssessStorePreserves ==
  ASSUME RangeInv, NEW p \in Procs, AssessStore(p), UNCHANGED allocations
  PROVE  RangeInv'
  <1> DEFINE i == call[p].profile
             row == NewAssessment(i, call[p].at)
             c == [Idle EXCEPT !.command = "assess", !.pc = "verify", !.profile = i]
  <1>1. CASE Reply(p, "stale") /\ UNCHANGED assessments
    BY <1>1, ReplyPreserves DEF AssessStore, Outcomes, profileVars
  <1>2. CASE /\ Confirmed = {i} /\ assessments' = Append(assessments, row)
             /\ SetCall(p, c) /\ UNCHANGED disturbed
    <2>0. /\ call \in [Procs -> CallType] /\ disturbed \in [Procs -> BOOLEAN]
          /\ profiles \in Seq(ProfileType) /\ assessments \in Seq(AssessmentType)
          /\ UNCHANGED <<now, profiles>>
          /\ Local(call[p], disturbed[p]) /\ call[p].pc = "store"
      BY DEF RangeInv, TypeOK, AssessStore, Locals
    <2>1. i \in DOMAIN profiles /\ call[p].at < profiles[i].validUntil /\ i \in Nat \ {0}
          /\ call[p].at \in Nat /\ profiles[i] \in ProfileType
      BY <2>0 DEF Local, Holds, CallType
    <2>2. row \in AssessmentType
      BY <2>1, ProfileAssumption DEF NewAssessment, AssessmentType, Least, Evaluate, ProfileType
    <2>3. /\ assessments' \in Seq(AssessmentType)
          /\ DOMAIN assessments \subseteq DOMAIN assessments'
          /\ \A a \in DOMAIN assessments : assessments'[a] = assessments[a]
          /\ \A a \in DOMAIN assessments' :
                a \in DOMAIN assessments \/ assessments'[a] = row
      BY <1>2, <2>0, <2>2
    <2>4. c \in CallType /\ c.pc = "verify" /\ c.profile = i /\ c.first = None /\ c.outcome = "none"
      BY <2>1, IdleFields DEF CallType, Commands, Points, SuitabilityPoints
    <2>5. /\ call' = [call EXCEPT ![p] = c] /\ disturbed' = disturbed
      BY <1>2 DEF SetCall
    <2> HIDE DEF row, c
    <2>6. TypeOK'
      BY <2>0, <2>3, <2>4, <2>5 DEF RangeInv, TypeOK
    <2>7. Made(row)
      BY <2>1 DEF Made, NewAssessment, row
    <2>8. NewestIsActive' /\ EveryRowMade'
      BY <2>0, <2>3, <2>7 DEF RangeInv, NewestIsActive, Confirmed, EveryRowMade, Made
    <2>9. RangesStayAuthentic' /\ OneRowPerFingerprint'
      BY <2>0, <2>3 DEF RangeInv, RangesStayAuthentic, OneRowPerFingerprint, RangeAuthentic,
             Authentic, TimingHolds, RangeEnd
    <2>10. ASSUME NEW q \in Procs PROVE Local(call[q], disturbed[q])'
      <3>1. CASE q = p
        <4>1. call'[q] = c /\ disturbed'[q] = disturbed[p]
          BY <2>0, <2>5, <3>1
        <4>2. ~disturbed[p]
          BY <1>2, <2>0 DEF Local, Outdated
        <4> QED  BY <2>0, <2>1, <2>4, <4>1, <4>2 DEF Local, Holds
      <3>2. CASE q # p
        <4>1. Local(call[q], disturbed[q]) /\ call'[q] = call[q] /\ disturbed'[q] = disturbed[q]
          BY <2>0, <2>5, <3>2 DEF RangeInv, Locals
        <4>2. Holds(call[q])'
          <5>1. \A a \in DOMAIN assessments :
                   Authentic(assessments[a]) => Authentic(assessments[a])'
            BY <2>0, <2>3 DEF Authentic, TimingHolds
          <5> QED  BY <2>0, <2>3, <4>1, <5>1 DEF Local, Holds
        <4>3. disturbed[q] => Outdated(call[q])'
          BY <2>0, <2>3, <4>1 DEF Local, Holds, Outdated, Confirmed
        <4> QED  BY <4>1, <4>2, <4>3 DEF Local
      <3> QED  BY <3>1, <3>2
    <2> QED  BY <2>6, <2>8, <2>9, <2>10 DEF RangeInv, Locals
  <1> QED  BY <1>1, <1>2 DEF AssessStore

LEMMA StatusLoadPreserves ==
  ASSUME RangeInv, NEW p \in Procs, StatusLoad(p), UNCHANGED allocations
  PROVE  RangeInv'
  <1>1. CASE Usable(call[p].at) /\ SetCall(p, [call[p] EXCEPT !.pc = "latest", !.profile = Active])
    <2> DEFINE c == [call[p] EXCEPT !.pc = "latest", !.profile = Active]
    <2>1. call[p] \in CallType /\ Local(call[p], disturbed[p])
      BY DEF RangeInv, TypeOK, Locals
    <2>2. Active \in DOMAIN profiles
      BY <1>1, ActiveIs DEF Usable
    <2>3. Active \in Nat
      BY <2>2 DEF RangeInv, TypeOK
    <2>4. c \in CallType
      BY <2>1, <2>3 DEF CallType, Points, SnapshotPoints
    <2>5. Local(c, FALSE)
      BY <2>1, <2>2, <2>4 DEF Local, Holds, StatusLoad, CallType
    <2>6. Moves(p, c, FALSE)
      BY <1>1 DEF StatusLoad, Undisturb, SetCall, Moves
    <2> HIDE DEF c
    <2> QED  BY <2>5, <2>6, MovesPreserve DEF StatusLoad
  <1>2. CASE Onward(p, "history", IF Active = None THEN "missing" ELSE "stale")
    <2>1. (IF Active = None THEN "missing" ELSE "stale") \in Outcomes \ {"fresh"}
      BY DEF Outcomes
    <2> QED  BY <1>2, <2>1, OnwardPreserves DEF StatusLoad
  <1> QED  BY <1>1, <1>2 DEF StatusLoad

LEMMA SnapshotLoadPreserves ==
  ASSUME RangeInv, NEW p \in Procs, SnapshotLoad(p), UNCHANGED allocations
  PROVE  RangeInv'
  <1>1. CASE Usable(now)
             /\ SetCall(p, [call[p] EXCEPT !.pc = "latest", !.profile = Active, !.current = now])
    <2> DEFINE c == [call[p] EXCEPT !.pc = "latest", !.profile = Active, !.current = now]
               d == call[p].first # None /\ disturbed[p]
    <2>1. call[p] \in CallType /\ Local(call[p], disturbed[p]) /\ now \in Nat
          /\ disturbed \in [Procs -> BOOLEAN] /\ call[p].pc = "snapshot"
      BY DEF RangeInv, TypeOK, Locals, SnapshotLoad
    <2>2. Active \in DOMAIN profiles /\ Confirmed = {Active}
      BY <1>1, ActiveIs DEF Usable
    <2>3. Active \in Nat
      BY <2>2 DEF RangeInv, TypeOK
    <2>4. c \in CallType
      BY <2>1, <2>3 DEF CallType, Points, SnapshotPoints
    <2>5. Holds(c)
      BY <2>1, <2>2 DEF Local, Holds, CallType
    <2>6. d => Outdated(c)
      BY <2>1, <2>2 DEF Local, Outdated, CallType
    <2>7. Moves(p, c, d) /\ d \in BOOLEAN
      BY <1>1, <2>1 DEF SnapshotLoad, Undisturb, SetCall, Moves
    <2>8. c.outcome # "fresh" /\ c.pc # "loaded" /\ (c.command = "status" => c.first = None)
      BY <2>1 DEF Local, CallType
    <2> HIDE DEF c, d
    <2>9. Local(c, d)
      BY <2>4, <2>5, <2>6, <2>8 DEF Local
    <2> QED  BY <2>7, <2>9, MovesPreserve DEF SnapshotLoad
  <1>2. CASE Refuse(p, "unavailable")
    BY <1>2, RefusePreserves DEF SnapshotLoad, Outcomes
  <1> QED  BY <1>1, <1>2 DEF SnapshotLoad

LEMMA ReadLatestPreserves ==
  ASSUME RangeInv, NEW p \in Procs, ReadLatest(p), UNCHANGED allocations
  PROVE  RangeInv'
  <1>1. PICK a \in LatestFor(call[p].profile) :
          LET c == [call[p] EXCEPT !.assessment = a]
              found == IF c.command = "status" THEN StatusFinds(c, a) ELSE SnapshotFinds(c, a)
          IN IF found = "none"
             THEN SetCall(p, [c EXCEPT !.pc = "confirm", !.current = 0]) /\ UNCHANGED disturbed
             ELSE IF c.command # "status" THEN Refuse(p, found) /\ UNCHANGED disturbed
             ELSE IF found = "missing" THEN Onward(p, "history", found) /\ UNCHANGED disturbed
             ELSE Reply(p, found)
    BY DEF ReadLatest
  <1> DEFINE c == [call[p] EXCEPT !.assessment = a]
             found == IF c.command = "status" THEN StatusFinds(c, a) ELSE SnapshotFinds(c, a)
             e == [c EXCEPT !.pc = "confirm", !.current = 0]
  <1>2. call[p] \in CallType /\ Local(call[p], disturbed[p]) /\ disturbed[p] \in BOOLEAN
        /\ call[p].pc = "latest"
    BY DEF RangeInv, TypeOK, Locals, ReadLatest
  <1>3. /\ c.command = call[p].command /\ c.profile = call[p].profile
        /\ c.first = call[p].first /\ c.outcome = call[p].outcome
    BY <1>2 DEF CallType
  <1>4. found \in Outcomes \ {"fresh"}
    BY DEF StatusFinds, SnapshotFinds, Outcomes
  <1>5. CASE found = "none"
    <2>1. a # None
      BY <1>5 DEF StatusFinds, SnapshotFinds
    <2>2. a \in RowsOf(call[p].profile)
      BY <2>1 DEF LatestFor
    <2>3. a \in DOMAIN assessments /\ assessments[a].profile = call[p].profile /\ a \in Nat
      BY <2>2 DEF RowsOf, RangeInv, TypeOK
    <2>4. call[p].command # "status" => Authentic(assessments[a])
      BY <1>3, <1>5 DEF SnapshotFinds
    <2>5. e \in CallType
      BY <1>2, <2>3 DEF CallType, Points, SnapshotPoints
    <2>6. /\ e.pc = "confirm" /\ e.assessment = a /\ e.command = call[p].command
          /\ e.profile = call[p].profile /\ e.first = call[p].first /\ e.outcome = call[p].outcome
      BY <1>2 DEF CallType
    <2>7. SetCall(p, e) /\ UNCHANGED disturbed
      BY <1>1, <1>5
    <2> HIDE DEF e
    <2>8. Local(e, disturbed[p])
      BY <1>2, <2>3, <2>4, <2>5, <2>6 DEF Local, Holds, Outdated
    <2> QED  BY <1>2, <2>7, <2>8, CallMoves, MovesPreserve DEF ReadLatest
  <1>6. CASE Refuse(p, found) /\ UNCHANGED disturbed
    <2> HIDE DEF found
    <2> QED  BY <1>4, <1>6, RefusePreserves DEF ReadLatest
  <1>7. CASE Onward(p, "history", found) /\ UNCHANGED disturbed
    <2> HIDE DEF found
    <2> QED  BY <1>4, <1>7, OnwardPreserves DEF ReadLatest
  <1>8. CASE Reply(p, found)
    <2> HIDE DEF found
    <2> QED  BY <1>4, <1>8, ReplyPreserves DEF ReadLatest
  <1> QED  BY <1>1, <1>5, <1>6, <1>7, <1>8

LEMMA ConfirmLoadedPreserves ==
  ASSUME RangeInv, NEW p \in Procs, ConfirmLoaded(p), UNCHANGED allocations
  PROVE  RangeInv'
  <1>1. CASE Reply(p, IF Active = call[p].profile THEN "fresh" ELSE "stale")
    <2>1. (IF Active = call[p].profile THEN "fresh" ELSE "stale") \in Outcomes
      BY DEF Outcomes
    <2> QED  BY <1>1, <2>1, ReplyPreserves DEF ConfirmLoaded
  <1>2. CASE /\ call[p].command # "status" /\ Active = call[p].profile
             /\ SetCall(p, [call[p] EXCEPT !.pc = "loaded"]) /\ UNCHANGED disturbed
    <2> DEFINE c == [call[p] EXCEPT !.pc = "loaded"]
    <2>1. call[p] \in CallType /\ Local(call[p], disturbed[p]) /\ disturbed[p] \in BOOLEAN
          /\ call[p].pc = "confirm"
      BY DEF RangeInv, TypeOK, Locals, ConfirmLoaded
    <2>2. c \in CallType
      BY <2>1 DEF CallType, Points, SnapshotPoints
    <2>3. call[p].profile \in Confirmed
      <3>1. call[p].profile \in DOMAIN profiles /\ call[p].profile # None
        BY <2>1 DEF Local, Holds, RangeInv, TypeOK, None
      <3> QED  BY <1>2, <3>1, ActiveIs
    <2>4. Local(c, disturbed[p])
      BY <1>2, <2>1, <2>2, <2>3 DEF Local, Holds, Outdated, CallType
    <2>5. Moves(p, c, disturbed[p])
      BY <1>2, CallMoves
    <2> HIDE DEF c
    <2> QED  BY <2>1, <2>4, <2>5, MovesPreserve DEF ConfirmLoaded
  <1>3. CASE Refuse(p, "changed") /\ UNCHANGED disturbed
    BY <1>3, RefusePreserves DEF ConfirmLoaded, Outcomes
  <1> QED  BY <1>1, <1>2, <1>3 DEF ConfirmLoaded

LEMMA SuitabilityPreserves ==
  ASSUME RangeInv, NEW p \in Procs, Suitability(p), UNCHANGED allocations
  PROVE  RangeInv'
  <1>1. CASE BeginAssess(p) \/ BeginStatus(p)
    BY <1>1, BeginPreserves DEF BeginAssess, BeginStatus, Commands
  <1>2. CASE AssessWhy(p)
    <2>1. (IF Len(profiles) > 0 /\ profiles[Len(profiles)].status = "invalidated"
           THEN "invalidated" ELSE "missing") \in Outcomes
      BY DEF Outcomes
    <2> QED  BY <1>2, <2>1, ReplyPreserves DEF AssessWhy
  <1>3. CASE AssessVerify(p)
    <2>1. (IF Active = call[p].profile THEN "fresh" ELSE "stale") \in Outcomes
      BY DEF Outcomes
    <2> QED  BY <1>3, <2>1, ReplyPreserves DEF AssessVerify
  <1>4. CASE StatusHistory(p)
    <2>1. (IF Len(assessments) > 0 THEN "stale" ELSE call[p].outcome) \in Outcomes
      BY DEF Outcomes, RangeInv, TypeOK, CallType
    <2> QED  BY <1>4, <2>1, ReplyPreserves DEF StatusHistory
  <1> QED
    BY <1>1, <1>2, <1>3, <1>4, ReturnPreserves, AssessLoadPreserves, AssessStorePreserves,
       StatusLoadPreserves, SnapshotLoadPreserves, ReadLatestPreserves, ConfirmLoadedPreserves
    DEF Suitability

-----------------------------------------------------------------------------
(* The commands of the allocation service.                                   *)

LEMMA RangesEvaluatePreserves ==
  ASSUME RangeInv, NEW p \in Procs, RangesEvaluate(p)
  PROVE  RangeInv'
  <1>1. CASE Reply(p, "blocked")
    BY <1>1, ReplyPreserves DEF RangesEvaluate, Outcomes
  <1>2. CASE /\ RangeAvailable(profiles[call[p].profile].payload, call[p].at)
             /\ SetCall(p, [call[p] EXCEPT !.pc = "bind", !.first = call[p].assessment])
             /\ UNCHANGED disturbed
    <2> DEFINE c == [call[p] EXCEPT !.pc = "bind", !.first = call[p].assessment]
    <2>1. call[p] \in CallType /\ Local(call[p], disturbed[p]) /\ disturbed[p] \in BOOLEAN
          /\ call[p].pc = "loaded" /\ call[p].first = None
      BY DEF RangeInv, TypeOK, Locals, RangesEvaluate
    <2>2. c \in CallType /\ c.pc = "bind" /\ c.first = call[p].assessment
          /\ c.profile = call[p].profile /\ c.at = call[p].at /\ c.outcome = call[p].outcome
          /\ c.command = "ranges"
      BY <2>1 DEF CallType, Points, RangePoints, RangesEvaluate
    <2>3. c.first \in DOMAIN assessments /\ c.first # None
      BY <2>1, <2>2 DEF Local, Holds, RangeInv, TypeOK, None
    <2>4. Moves(p, c, disturbed[p])
      BY <1>2, CallMoves
    <2> HIDE DEF c
    <2>5. Local(c, disturbed[p])
      BY <1>2, <2>1, <2>2, <2>3 DEF Local, Holds, Outdated
    <2> QED  BY <2>1, <2>4, <2>5, MovesPreserve DEF RangesEvaluate
  <1> QED  BY <1>1, <1>2 DEF RangesEvaluate

(* A stored range has every binding of its insert: it can be authenticated.  *)
LEMMA BoundIsAuthentic ==
  ASSUME RangeInv, NEW p \in Procs, call[p].pc = "bind", BindingsHold(call[p])
  PROVE  /\ NewAllocation(call[p]) \in AllocationType
         /\ RangeAuthentic(NewAllocation(call[p]))
         /\ ~disturbed[p]
  <1> DEFINE c == call[p]
  <1>1. /\ c \in CallType /\ Local(c, disturbed[p]) /\ c.pc = "bind"
        /\ profiles \in Seq(ProfileType) /\ assessments \in Seq(AssessmentType)
    BY DEF RangeInv, TypeOK, Locals
  <1>2. /\ c.first \in DOMAIN assessments /\ Authentic(assessments[c.first])
        /\ c.profile \in DOMAIN profiles
        /\ assessments[c.first].profile = c.profile
        /\ RangeAvailable(profiles[c.profile].payload, c.at)
    BY <1>1 DEF Local, Holds
  <1>3. c.first \in Nat \ {0} /\ c.profile \in Nat \ {0} /\ c.at \in Nat
        /\ assessments[c.first] \in AssessmentType /\ profiles[c.profile] \in ProfileType
    BY <1>1, <1>2 DEF CallType
  <1>4. RangeEnd(c.first, c.at) \in Nat
    BY <1>2, <1>3, ProfileAssumption DEF RangeEnd, Least, AssessmentType, ProfileType
  <1>5. ~disturbed[p]
    BY <1>1 DEF Local, Outdated, BindingsHold
  <1>6. RangeAuthentic(NewAllocation(c))
    BY <1>2 DEF RangeAuthentic, NewAllocation, BindingsHold
  <1> QED  BY <1>3, <1>4, <1>5, <1>6 DEF NewAllocation, AllocationType

LEMMA RangesBindPreserves ==
  ASSUME RangeInv, NEW p \in Procs, RangesBind(p)
  PROVE  RangeInv'
  <1> DEFINE x == NewAllocation(call[p])
  <1>0. /\ call[p] \in CallType /\ Local(call[p], disturbed[p]) /\ disturbed[p] \in BOOLEAN
        /\ call[p].pc = "bind" /\ allocations \in Seq(AllocationType)
        /\ UNCHANGED profileVars
    BY DEF RangeInv, TypeOK, Locals, RangesBind
  <1>1. CASE Reply(p, "changed") /\ UNCHANGED allocations
    BY <1>0, <1>1, ReplyPreserves DEF Outcomes
  <1>2. ASSUME BindingsHold(call[p]), NEW r \in Nat,
               SetCall(p, [call[p] EXCEPT !.pc = "snapshot", !.row = r])
        PROVE  \E c : SetCall(p, c) /\ Local(c, disturbed[p])
    <2> DEFINE c == [call[p] EXCEPT !.pc = "snapshot", !.row = r]
    <2>1. c \in CallType /\ c.pc = "snapshot" /\ c.first = call[p].first
          /\ c.outcome = call[p].outcome /\ c.command = call[p].command
      BY <1>0 DEF CallType, Points, SnapshotPoints
    <2> HIDE DEF c
    <2>2. Local(c, disturbed[p])
      BY <1>0, <1>2, <2>1, BoundIsAuthentic DEF Local, Holds
    <2> QED  BY <1>2, <2>2 DEF c
  <1>3. CASE /\ BindingsHold(call[p]) /\ Stored(x) # {}
             /\ SetCall(p, [call[p] EXCEPT !.pc = "snapshot", !.row = CHOOSE r \in Stored(x) : TRUE])
             /\ UNCHANGED <<allocations, disturbed>>
    <2>1. (CHOOSE r \in Stored(x) : TRUE) \in DOMAIN allocations
      BY <1>3 DEF Stored
    <2>2. (CHOOSE r \in Stored(x) : TRUE) \in Nat
      BY <1>0, <2>1
    <2>3. PICK c : SetCall(p, c) /\ Local(c, disturbed[p])
      BY <1>2, <1>3, <2>2
    <2> QED  BY <1>0, <1>3, <2>3, CallMoves, MovesPreserve
  <1>4. CASE /\ BindingsHold(call[p]) /\ Stored(x) = {}
             /\ allocations' = Append(allocations, x)
             /\ SetCall(p, [call[p] EXCEPT !.pc = "snapshot", !.row = Len(allocations) + 1])
             /\ UNCHANGED disturbed
    <2>1. x \in AllocationType /\ RangeAuthentic(x)
      BY <1>0, <1>4, BoundIsAuthentic
    <2>0. Len(allocations) + 1 \in Nat
      BY <1>0
    <2>2. PICK c : SetCall(p, c) /\ Local(c, disturbed[p])
      BY <1>2, <1>4, <2>0
    <2> HIDE DEF x
    <2>3. /\ allocations' \in Seq(AllocationType)
          /\ DOMAIN allocations' = DOMAIN allocations \union {Len(allocations) + 1}
          /\ \A r \in DOMAIN allocations : allocations'[r] = allocations[r]
          /\ allocations'[Len(allocations) + 1] = x
      BY <1>0, <1>4, <2>1
    <2>4. call' \in [Procs -> CallType] /\ disturbed' \in [Procs -> BOOLEAN] /\ Locals'
      BY <1>0, <1>4, <2>2, CallMoves, MovesKeepLocals DEF profileVars
    <2>5. TypeOK'
      BY <1>0, <2>3, <2>4 DEF RangeInv, TypeOK, profileVars
    <2>6. NewestIsActive' /\ EveryRowMade'
      BY <1>0 DEF RangeInv, NewestIsActive, Confirmed, EveryRowMade, Made, profileVars
    <2>7. ASSUME NEW r \in DOMAIN allocations' PROVE RangeAuthentic(allocations[r])'
      <3>1. RangeAuthentic(allocations'[r])
        BY <2>1, <2>3 DEF RangeInv, RangesStayAuthentic
      <3> QED
        BY <1>0, <3>1 DEF RangeAuthentic, Authentic, TimingHolds, RangeEnd, profileVars
    <2>8. \A r \in DOMAIN allocations : ~SameFingerprint(allocations[r], x)
      BY <1>4 DEF Stored
    <2>9. OneRowPerFingerprint'
      BY <2>3, <2>8 DEF RangeInv, OneRowPerFingerprint, SameFingerprint
    <2> QED  BY <2>4, <2>5, <2>6, <2>7, <2>9 DEF RangeInv, RangesStayAuthentic
  <1> QED  BY <1>1, <1>3, <1>4 DEF RangesBind

LEMMA RangeStatusFetchPreserves ==
  ASSUME RangeInv, NEW p \in Procs, RangeStatusFetch(p)
  PROVE  RangeInv'
  <1>1. CASE Onward(p, "range history", "none") /\ UNCHANGED disturbed
    BY <1>1, OnwardPreserves DEF RangeStatusFetch, Outcomes
  <1>2. CASE Reply(p, "unauthenticated") \/ Reply(p, "stale")
    BY <1>2, ReplyPreserves DEF RangeStatusFetch, Outcomes
  <1>3. CASE /\ SetCall(p, [Idle EXCEPT !.command = call[p].command, !.pc = "snapshot",
                                        !.first = call[p].assessment])
             /\ UNCHANGED disturbed
    <2> DEFINE c == [Idle EXCEPT !.command = call[p].command, !.pc = "snapshot",
                                 !.first = call[p].assessment]
    <2>1. call[p] \in CallType /\ Local(call[p], disturbed[p]) /\ disturbed[p] \in BOOLEAN
          /\ call[p].pc = "loaded" /\ call[p].first = None
      BY DEF RangeInv, TypeOK, Locals, RangeStatusFetch
    <2>2. c \in CallType /\ c.pc = "snapshot" /\ c.first = call[p].assessment
          /\ c.outcome = "none" /\ c.command = "range status"
      BY <2>1, IdleFields DEF CallType, Points, SnapshotPoints, RangeStatusFetch
    <2>3. Moves(p, c, disturbed[p])
      BY <1>3, CallMoves
    <2> HIDE DEF c
    <2>4. Local(c, disturbed[p])
      BY <2>1, <2>2 DEF Local, Holds, Outdated
    <2> QED  BY <2>1, <2>3, <2>4, MovesPreserve DEF RangeStatusFetch
  <1> QED  BY <1>1, <1>2, <1>3 DEF RangeStatusFetch

LEMMA SnapshotRefusedPreserves ==
  ASSUME RangeInv, NEW p \in Procs, SnapshotRefused(p)
  PROVE  RangeInv'
  <1>1. call[p].outcome \in Outcomes
    BY DEF RangeInv, TypeOK, CallType
  <1>2. CASE Onward(p, "range history", "none") /\ UNCHANGED disturbed
    BY <1>2, OnwardPreserves DEF SnapshotRefused, Outcomes
  <1>3. CASE Reply(p, "stale") \/ Reply(p, call[p].outcome)
    BY <1>1, <1>3, ReplyPreserves DEF SnapshotRefused, Outcomes
  <1> QED  BY <1>2, <1>3 DEF SnapshotRefused

LEMMA AllocationPreserves ==
  ASSUME RangeInv, NEW p \in Procs, Allocation(p)
  PROVE  RangeInv'
  <1>1. CASE BeginRanges(p) \/ BeginRangeStatus(p)
    BY <1>1, BeginPreserves DEF BeginRanges, BeginRangeStatus, Commands
  <1>2. CASE RangesAnswer(p) \/ RangeStatusAnswer(p) \/ RangeStatusHistory(p)
    <2>1. PICK outcome \in Outcomes : Reply(p, outcome)
      BY <1>2 DEF RangesAnswer, RangeStatusAnswer, RangeStatusHistory, Outcomes
    <2> QED  BY <1>2, <2>1, ReplyPreserves DEF RangesAnswer, RangeStatusAnswer, RangeStatusHistory
  <1> QED
    BY <1>1, <1>2, RangesEvaluatePreserves, RangesBindPreserves, RangeStatusFetchPreserves,
       SnapshotRefusedPreserves DEF Allocation

-----------------------------------------------------------------------------
(* The editor: what was confirmed before its step is not active after it.    *)

LEMMA EditorMoves ==
  ASSUME RangeInv, Editor
  PROVE  /\ profiles' \in Seq(ProfileType)
         /\ DOMAIN profiles \subseteq DOMAIN profiles'
         /\ \A i \in DOMAIN profiles :
               /\ profiles'[i].payload = profiles[i].payload
               /\ profiles'[i].confirmedAt = profiles[i].confirmedAt
               /\ profiles'[i].validUntil = profiles[i].validUntil
               /\ profiles'[i].status # "confirmed"
         /\ NewestIsActive'
  <1>0. profiles \in Seq(ProfileType) /\ now \in Nat
    BY DEF RangeInv, TypeOK
  <1>1. CASE ConfirmProfile
    <2> DEFINE older == [i \in DOMAIN profiles |->
                   IF i \in Confirmed THEN [profiles[i] EXCEPT !.status = "superseded"]
                   ELSE profiles[i]]
    <2>1. PICK payload \in Payloads, at \in 0 .. now :
             profiles' = Append(older, [payload |-> payload, status |-> "confirmed",
                                        confirmedAt |-> at, validUntil |-> at + ProfileTerm])
      BY <1>1 DEF ConfirmProfile
    <2> DEFINE row == [payload |-> payload, status |-> "confirmed",
                       confirmedAt |-> at, validUntil |-> at + ProfileTerm]
    <2>2. row \in ProfileType
      BY <1>0, ProfileAssumption DEF ProfileType
    <2>3. \A i \in DOMAIN profiles :
             /\ older[i] \in ProfileType
             /\ older[i].payload = profiles[i].payload
             /\ older[i].confirmedAt = profiles[i].confirmedAt
             /\ older[i].validUntil = profiles[i].validUntil
             /\ older[i].status # "confirmed"
      <3> SUFFICES ASSUME NEW i \in DOMAIN profiles
                   PROVE  /\ older[i] \in ProfileType
                          /\ older[i].payload = profiles[i].payload
                          /\ older[i].confirmedAt = profiles[i].confirmedAt
                          /\ older[i].validUntil = profiles[i].validUntil
                          /\ older[i].status # "confirmed"
        OBVIOUS
      <3>1. profiles[i] \in ProfileType
        BY <1>0
      <3>2. CASE i \in Confirmed
        <4>1. older[i] = [profiles[i] EXCEPT !.status = "superseded"]
          BY <3>2
        <4> QED  BY <3>1, <4>1 DEF ProfileType
      <3>3. CASE i \notin Confirmed
        <4>1. older[i] = profiles[i]
          BY <3>3
        <4> QED  BY <3>1, <3>3, <4>1 DEF Confirmed
      <3> QED  BY <3>2, <3>3
    <2>4. older \in Seq(ProfileType) /\ Len(older) = Len(profiles)
          /\ DOMAIN older = DOMAIN profiles
      <3>1. DOMAIN profiles = 1 .. Len(profiles) /\ Len(profiles) \in Nat
        BY <1>0
      <3>2. older \in [1 .. Len(profiles) -> ProfileType]
        BY <2>3, <3>1
      <3> HIDE DEF older
      <3> QED  BY <3>1, <3>2
    <2> HIDE DEF older, row
    <2>5. /\ profiles' \in Seq(ProfileType)
          /\ Len(profiles') = Len(profiles) + 1
          /\ DOMAIN profiles' = DOMAIN profiles \union {Len(profiles) + 1}
          /\ \A i \in DOMAIN profiles : profiles'[i] = older[i]
      BY <2>1, <2>2, <2>4 DEF row
    <2> QED  BY <2>3, <2>5 DEF NewestIsActive, Confirmed
  <1>2. CASE InvalidateProfile
    <2>1. /\ Active \in DOMAIN profiles /\ Confirmed = {Active}
          /\ profiles' = [profiles EXCEPT ![Active].status = "invalidated"]
      BY <1>2, ActiveIs DEF InvalidateProfile
    <2>2. \A i \in DOMAIN profiles :
             /\ profiles'[i] \in ProfileType
             /\ profiles'[i].payload = profiles[i].payload
             /\ profiles'[i].confirmedAt = profiles[i].confirmedAt
             /\ profiles'[i].validUntil = profiles[i].validUntil
             /\ profiles'[i].status # "confirmed"
      <3> SUFFICES ASSUME NEW i \in DOMAIN profiles
                   PROVE  /\ profiles'[i] \in ProfileType
                          /\ profiles'[i].payload = profiles[i].payload
                          /\ profiles'[i].confirmedAt = profiles[i].confirmedAt
                          /\ profiles'[i].validUntil = profiles[i].validUntil
                          /\ profiles'[i].status # "confirmed"
        OBVIOUS
      <3>1. profiles[i] \in ProfileType
        BY <1>0
      <3>2. CASE i = Active
        <4>1. profiles'[i] = [profiles[i] EXCEPT !.status = "invalidated"]
          BY <2>1, <3>2
        <4> QED  BY <3>1, <4>1 DEF ProfileType
      <3>3. CASE i # Active
        <4>1. profiles'[i] = profiles[i]
          BY <2>1, <3>3
        <4> QED  BY <2>1, <3>1, <3>3, <4>1 DEF Confirmed
      <3> QED  BY <3>2, <3>3
    <2>3. DOMAIN profiles' = DOMAIN profiles /\ profiles' \in Seq(ProfileType)
      BY <1>0, <2>1, <2>2
    <2> QED  BY <2>2, <2>3 DEF NewestIsActive, Confirmed
  <1> QED  BY <1>1, <1>2 DEF Editor

LEMMA EditorPreserves ==
  ASSUME RangeInv, Editor, UNCHANGED allocations
  PROVE  RangeInv'
  <1>0. /\ disturbed' = [p \in Procs |-> disturbed[p] \/ Looking(call[p])]
        /\ UNCHANGED <<now, assessments, call>>
    BY DEF Editor, ConfirmProfile, InvalidateProfile, Touch
  <1>1. TypeOK'
    BY <1>0, EditorMoves DEF RangeInv, TypeOK
  <1>2. EveryRowMade'
    BY <1>0, EditorMoves DEF RangeInv, EveryRowMade, Made
  <1>3. RangesStayAuthentic'
    BY <1>0, EditorMoves
    DEF RangeInv, RangesStayAuthentic, RangeAuthentic, Authentic, TimingHolds, RangeEnd
  <1>4. OneRowPerFingerprint'
    BY DEF RangeInv, OneRowPerFingerprint
  <1>5. ASSUME NEW p \in Procs PROVE Local(call[p], disturbed[p])'
    <2>1. /\ Local(call[p], disturbed[p]) /\ call'[p] = call[p]
          /\ disturbed'[p] = (disturbed[p] \/ Looking(call[p]))
      BY <1>0 DEF RangeInv, Locals
    <2>2. Holds(call[p])'
      BY <1>0, <2>1, EditorMoves DEF Local, Holds, Authentic, TimingHolds
    <2>3. \A i \in DOMAIN profiles : i \notin Confirmed'
      BY EditorMoves DEF Confirmed
    <2>4. \A a \in DOMAIN assessments : assessments[a].profile \in DOMAIN profiles
      BY DEF RangeInv, EveryRowMade, Made
    <2>5. disturbed'[p] => Outdated(call[p])'
      BY <1>0, <2>1, <2>3, <2>4 DEF Local, Holds, Outdated, Looking
    <2> QED  BY <2>1, <2>2, <2>5 DEF Local
  <1> QED  BY <1>1, <1>2, <1>3, <1>4, <1>5, EditorMoves DEF RangeInv, Locals

-----------------------------------------------------------------------------
(* Every step of a command, of the owner and of the clock keeps the          *)
(* invariant.                                                                *)
THEOREM StepRange == RangeInv /\ [Next]_vars => RangeInv'
  <1> SUFFICES ASSUME RangeInv, [Next]_vars PROVE RangeInv'
    OBVIOUS
  <1>1. ASSUME NEW p \in Procs, Suitability(p), UNCHANGED allocations PROVE RangeInv'
    BY <1>1, SuitabilityPreserves
  <1>2. CASE Editor /\ UNCHANGED allocations
    BY <1>2, EditorPreserves
  <1>3. CASE (Tick \/ UNCHANGED vars) /\ UNCHANGED allocations
    <2>1. /\ now' \in Nat /\ UNCHANGED <<profiles, assessments, call, disturbed, allocations>>
      BY <1>3 DEF Tick, vars, suitVars, profileVars, RangeInv, TypeOK
    <2>2. TypeOK' /\ NewestIsActive' /\ EveryRowMade'
      BY <2>1 DEF RangeInv, TypeOK, NewestIsActive, Confirmed, EveryRowMade, Made
    <2>3. RangesStayAuthentic' /\ OneRowPerFingerprint'
      BY <2>1 DEF RangeInv, RangesStayAuthentic, OneRowPerFingerprint, RangeAuthentic, Authentic,
             TimingHolds, RangeEnd
    <2>4. ASSUME NEW p \in Procs PROVE Local(call[p], disturbed[p])'
      <3>1. Local(call[p], disturbed[p]) /\ call' = call /\ disturbed' = disturbed
        BY <2>1 DEF RangeInv, Locals
      <3>2. Holds(call[p])'
        BY <2>1, <3>1 DEF Local, Holds, Authentic, TimingHolds
      <3>3. Outdated(call[p]) => Outdated(call[p])'
        BY <2>1 DEF Outdated, Confirmed
      <3> QED  BY <3>1, <3>2, <3>3 DEF Local
    <2> QED  BY <2>2, <2>3, <2>4 DEF RangeInv, Locals
  <1>4. ASSUME NEW p \in Procs, Allocation(p) PROVE RangeInv'
    BY <1>4, AllocationPreserves
  <1> QED  BY <1>1, <1>2, <1>3, <1>4 DEF Next, vars

(* The invariant holds of every reachable state: types included, for any     *)
(* number of commands, profiles and assessments.                             *)
THEOREM RangeInvariance == Spec => []RangeInv
  BY InitRange, StepRange, PTL DEF Spec

(* No interleaving of assess, ranges and the editor stores a range that      *)
(* history refuses: _assert_bindings is what the insert needs.               *)
THEOREM RangesStayAuthenticTheorem == Spec => []RangesStayAuthentic
  <1>1. RangeInv => RangesStayAuthentic
    BY DEF RangeInv
  <1> QED  BY <1>1, RangeInvariance, PTL

(* Two commands that compute the same range at one instant share its row.    *)
THEOREM OneRowTheorem == Spec => []OneRowPerFingerprint
  <1>1. RangeInv => OneRowPerFingerprint
    BY DEF RangeInv
  <1> QED  BY <1>1, RangeInvariance, PTL

(* The only assessments that cannot be authenticated again are those made at *)
(* an instant before their profile was confirmed.                            *)
THEOREM OnlyEarlyTheorem == Spec => []OnlyEarlyRowsAreRefused
  <1>1. RangeInv => OnlyEarlyRowsAreRefused
    <2> SUFFICES ASSUME RangeInv, NEW a \in DOMAIN assessments,
                        ~(assessments[a].assessedAt < profiles[assessments[a].profile].confirmedAt)
                 PROVE  Authentic(assessments[a])
      BY DEF OnlyEarlyRowsAreRefused
    <2> DEFINE row == assessments[a]
    <2>1. Made(row) /\ row \in AssessmentType
      BY DEF RangeInv, EveryRowMade, TypeOK
    <2>2. profiles[row.profile] \in ProfileType
      BY <2>1 DEF Made, RangeInv, TypeOK
    <2>3. profiles[row.profile].confirmedAt <= row.assessedAt
      BY <2>1, <2>2 DEF AssessmentType, ProfileType
    <2> QED  BY <2>1, <2>3 DEF Made, Authentic, TimingHolds
  <1> QED  BY <1>1, RangeInvariance, PTL

-----------------------------------------------------------------------------
(* Fresh answers.  A step of one command leaves the calls of the others.     *)

LEMMA OwnCall ==
  ASSUME NEW q, Suitability(q) \/ Allocation(q)
  PROVE  \E c : call' = [call EXCEPT ![q] = c]
  <1>1. CASE \E c : SetCall(q, c)
    BY <1>1 DEF SetCall
  <1>2. CASE Suitability(q)
    BY <1>1, <1>2
    DEF Suitability, BeginAssess, BeginStatus, Begin, Return, AssessLoad, AssessWhy, AssessStore,
        AssessVerify, StatusLoad, StatusHistory, SnapshotLoad, ReadLatest, ConfirmLoaded, Reply,
        Onward, Refuse
  <1>3. CASE Allocation(q)
    BY <1>1, <1>3
    DEF Allocation, BeginRanges, BeginRangeStatus, Begin, RangesEvaluate, RangesBind, RangesAnswer,
        RangeStatusFetch, RangeStatusAnswer, SnapshotRefused, RangeStatusHistory, Reply, Onward
  <1> QED  BY <1>2, <1>3

Answers(p, outcome) == call'[p].pc = "done" /\ call'[p].outcome = outcome

LEMMA SetIs ==
  ASSUME RangeInv, NEW p \in Procs, NEW c, SetCall(p, c)
  PROVE  call'[p] = c
  BY DEF RangeInv, TypeOK, SetCall

LEMMA ReplyIs ==
  ASSUME RangeInv, NEW p \in Procs, NEW outcome, Reply(p, outcome)
  PROVE  call'[p].outcome = outcome
  <1> DEFINE c == [Idle EXCEPT !.pc = "done", !.outcome = outcome]
  <1>1. call'[p] = c
    BY SetIs DEF Reply
  <1>2. c.outcome = outcome
    BY IdleFields DEF CallType
  <1> QED  BY <1>1, <1>2

LEMMA OnwardIs ==
  ASSUME RangeInv, NEW p \in Procs, NEW pc, NEW outcome, Onward(p, pc, outcome)
  PROVE  call'[p].pc = pc
  <1> DEFINE c == [Idle EXCEPT !.command = call[p].command, !.pc = pc, !.outcome = outcome]
  <1>1. call'[p] = c
    BY SetIs DEF Onward
  <1>2. c.pc = pc
    BY IdleFields DEF CallType
  <1> QED  BY <1>1, <1>2

LEMMA RefuseIs ==
  ASSUME RangeInv, NEW p \in Procs, NEW outcome, Refuse(p, outcome)
  PROVE  call'[p].pc = "refused"
  <1> DEFINE c == [Idle EXCEPT !.command = call[p].command, !.first = call[p].first,
                   !.pc = "refused", !.outcome = outcome]
  <1>1. call'[p] = c
    BY SetIs DEF Refuse
  <1>2. c.pc = "refused"
    BY IdleFields DEF CallType
  <1> QED  BY <1>1, <1>2

(* Only four steps answer "fresh", each after a comparison.                  *)
LEMMA FreshSuitability ==
  ASSUME RangeInv, NEW p \in Procs, Suitability(p), call[p].pc # "done", Answers(p, "fresh")
  PROVE  /\ Active = call[p].profile
         /\ \/ call[p].pc = "verify"
            \/ call[p].pc = "confirm" /\ call[p].command = "status"
  <1>0. call \in [Procs -> CallType] /\ Local(call[p], disturbed[p])
    BY DEF RangeInv, TypeOK, Locals
  <1> USE DEF Answers
  <1>1. CASE BeginAssess(p) \/ BeginStatus(p)
    <2>1. PICK command \in Commands : Begin(p, command)
      BY <1>1 DEF BeginAssess, BeginStatus, Commands
    <2> DEFINE c == [Idle EXCEPT !.command = command, !.at = now,
           !.pc = IF command \in {"assess", "status"} THEN "load" ELSE "snapshot"]
    <2>2. call'[p] = c
      BY <2>1, SetIs DEF Begin
    <2>3. c.pc # "done"
      BY IdleFields DEF CallType
    <2> QED  BY <2>2, <2>3
  <1>2. CASE AssessLoad(p)
    <2>1. CASE SetCall(p, [call[p] EXCEPT !.pc = "store", !.profile = Active])
      BY <1>0, <2>1, SetIs DEF CallType
    <2> QED  BY <1>2, <2>1, OnwardIs, ReplyIs DEF AssessLoad
  <1>3. CASE AssessWhy(p)
    BY <1>3, ReplyIs DEF AssessWhy
  <1>4. CASE AssessStore(p)
    <2>1. CASE SetCall(p, [Idle EXCEPT !.command = "assess", !.pc = "verify",
                                       !.profile = call[p].profile])
      BY <2>1, SetIs, IdleFields DEF CallType
    <2> QED  BY <1>4, <2>1, ReplyIs DEF AssessStore
  <1>5. CASE AssessVerify(p)
    BY <1>5, ReplyIs DEF AssessVerify
  <1>6. CASE StatusLoad(p)
    <2>1. CASE SetCall(p, [call[p] EXCEPT !.pc = "latest", !.profile = Active])
      BY <1>0, <2>1, SetIs DEF CallType
    <2> QED  BY <1>6, <2>1, OnwardIs DEF StatusLoad
  <1>7. CASE StatusHistory(p)
    <2>1. call[p].outcome # "fresh"
      BY <1>0 DEF Local
    <2> QED  BY <1>7, <2>1, ReplyIs DEF StatusHistory
  <1>8. CASE SnapshotLoad(p)
    <2>1. CASE SetCall(p, [call[p] EXCEPT !.pc = "latest", !.profile = Active, !.current = now])
      BY <1>0, <2>1, SetIs DEF CallType
    <2> QED  BY <1>8, <2>1, RefuseIs DEF SnapshotLoad
  <1>9. CASE ReadLatest(p)
    <2>1. PICK a \in LatestFor(call[p].profile) :
            LET c == [call[p] EXCEPT !.assessment = a]
                found == IF c.command = "status" THEN StatusFinds(c, a) ELSE SnapshotFinds(c, a)
            IN IF found = "none"
               THEN SetCall(p, [c EXCEPT !.pc = "confirm", !.current = 0]) /\ UNCHANGED disturbed
               ELSE IF c.command # "status" THEN Refuse(p, found) /\ UNCHANGED disturbed
               ELSE IF found = "missing" THEN Onward(p, "history", found) /\ UNCHANGED disturbed
               ELSE Reply(p, found)
      BY <1>9 DEF ReadLatest
    <2> DEFINE c == [call[p] EXCEPT !.assessment = a]
               found == IF c.command = "status" THEN StatusFinds(c, a) ELSE SnapshotFinds(c, a)
    <2>2. CASE SetCall(p, [c EXCEPT !.pc = "confirm", !.current = 0])
      BY <1>0, <2>2, SetIs DEF CallType
    <2>3. found # "fresh"
      BY DEF StatusFinds, SnapshotFinds
    <2>4. CASE Refuse(p, found)
      BY <2>4, RefuseIs
    <2>5. CASE Onward(p, "history", found)
      BY <2>5, OnwardIs
    <2>6. CASE Reply(p, found)
      <3> HIDE DEF found
      <3> QED  BY <2>3, <2>6, ReplyIs
    <2> QED  BY <2>1, <2>2, <2>4, <2>5, <2>6
  <1>10. CASE ConfirmLoaded(p)
    <2>1. CASE SetCall(p, [call[p] EXCEPT !.pc = "loaded"])
      BY <1>0, <2>1, SetIs DEF CallType
    <2> QED  BY <1>10, <2>1, RefuseIs, ReplyIs DEF ConfirmLoaded
  <1>11. ~Return(p)
    BY DEF Return
  <1> QED
    BY <1>1, <1>2, <1>3, <1>4, <1>5, <1>6, <1>7, <1>8, <1>9, <1>10, <1>11 DEF Suitability

LEMMA FreshAllocation ==
  ASSUME RangeInv, NEW p \in Procs, Allocation(p), call[p].pc # "done", Answers(p, "fresh")
  PROVE  call[p].pc = "loaded" /\ call[p].first # None /\ call[p].assessment = call[p].first
  <1>0. call \in [Procs -> CallType] /\ Local(call[p], disturbed[p])
    BY DEF RangeInv, TypeOK, Locals
  <1> USE DEF Answers
  <1>1. CASE BeginRanges(p) \/ BeginRangeStatus(p)
    <2>1. PICK command \in Commands : Begin(p, command)
      BY <1>1 DEF BeginRanges, BeginRangeStatus, Commands
    <2> DEFINE c == [Idle EXCEPT !.command = command, !.at = now,
           !.pc = IF command \in {"assess", "status"} THEN "load" ELSE "snapshot"]
    <2>2. call'[p] = c
      BY <2>1, SetIs DEF Begin
    <2>3. c.pc # "done"
      BY IdleFields DEF CallType
    <2> QED  BY <2>2, <2>3
  <1>2. CASE RangesEvaluate(p)
    <2>1. CASE SetCall(p, [call[p] EXCEPT !.pc = "bind", !.first = call[p].assessment])
      BY <1>0, <2>1, SetIs DEF CallType
    <2> QED  BY <1>2, <2>1, ReplyIs DEF RangesEvaluate
  <1>3. CASE RangesBind(p)
    <2>1. ASSUME NEW r, SetCall(p, [call[p] EXCEPT !.pc = "snapshot", !.row = r]) PROVE FALSE
      BY <1>0, <2>1, SetIs DEF CallType
    <2> QED  BY <1>3, <2>1, ReplyIs DEF RangesBind
  <1>4. CASE RangesAnswer(p)
    BY <1>4, ReplyIs DEF RangesAnswer
  <1>5. CASE RangeStatusFetch(p)
    <2>1. CASE SetCall(p, [Idle EXCEPT !.command = call[p].command, !.pc = "snapshot",
                                       !.first = call[p].assessment])
      BY <2>1, SetIs, IdleFields DEF CallType
    <2> QED  BY <1>5, <2>1, OnwardIs, ReplyIs DEF RangeStatusFetch
  <1>6. CASE RangeStatusAnswer(p)
    BY <1>6, ReplyIs DEF RangeStatusAnswer
  <1>7. CASE SnapshotRefused(p)
    <2>1. call[p].outcome # "fresh"
      BY <1>0 DEF Local
    <2> QED  BY <1>7, <2>1, OnwardIs, ReplyIs DEF SnapshotRefused
  <1>8. CASE RangeStatusHistory(p)
    BY <1>8, ReplyIs DEF RangeStatusHistory
  <1> QED  BY <1>1, <1>2, <1>3, <1>4, <1>5, <1>6, <1>7, <1>8 DEF Allocation

(* What answers "fresh" saw one profile stay active from its first look on:  *)
(* once it is disturbed, its last comparison must fail.                      *)
THEOREM FreshMeansUndisturbedTheorem == Spec => FreshMeansUndisturbed
  <1> DEFINE Fresh == \A p \in Procs :
        (call[p].pc # "done" /\ call'[p].pc = "done" /\ call'[p].outcome = "fresh")
            => ~disturbed[p]
  <1>1. RangeInv /\ [Next]_vars => [Fresh]_vars
    <2> SUFFICES ASSUME RangeInv, Next, NEW p \in Procs,
                        call[p].pc # "done", Answers(p, "fresh")
                 PROVE  ~disturbed[p]
      BY DEF Answers
    <2>0. Local(call[p], disturbed[p]) /\ call \in [Procs -> CallType]
      BY DEF RangeInv, Locals, TypeOK
    <2>1. PICK q \in Procs : Suitability(q) \/ Allocation(q)
      <3>1. call' # call
        BY DEF Answers
      <3> QED
        BY <3>1 DEF Next, Editor, ConfirmProfile, InvalidateProfile, Tick
    <2>2. q = p
      BY <2>0, <2>1, OwnCall DEF Answers
    <2>3. CASE Suitability(p)
      <3>1. Active = call[p].profile /\ call[p].profile \in DOMAIN profiles
        BY <2>0, <2>3, FreshSuitability DEF Local, Holds
      <3>2. call[p].profile \in Confirmed
        BY <3>1, ActiveIs DEF RangeInv, TypeOK, None
      <3>3. CASE call[p].pc = "verify"
        BY <2>0, <3>2, <3>3 DEF Local, Outdated
      <3>4. CASE call[p].pc = "confirm" /\ call[p].command = "status"
        BY <2>0, <3>2, <3>4 DEF Local, Holds, Outdated
      <3> QED  BY <2>3, <3>3, <3>4, FreshSuitability
    <2>4. CASE Allocation(p)
      BY <2>0, <2>4, FreshAllocation DEF Local, Outdated
    <2> QED  BY <2>1, <2>2, <2>3, <2>4
  <1> QED  BY <1>1, RangeInvariance, PTL DEF Spec, FreshMeansUndisturbed

=============================================================================
