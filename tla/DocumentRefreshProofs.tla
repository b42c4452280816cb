----------------------- MODULE DocumentRefreshProofs -----------------------
(* Theorems of DocumentRefresh, for any number of commands, documents,       *)
(* sources and refreshes, and any ordering of the documents.                 *)
EXTENDS DocumentRefresh, TLAPS

-----------------------------------------------------------------------------
(* Types.                                                                    *)

SyncPoints == {"discover", "candidate"}
Points == {"idle", "done", "clock", "latest", "save"} \union SyncPoints \union Rounds
Statuses == {"success", "failed"}
Answers == {"none", "synced", "failed", "storage failed", "missing", "unavailable",
            "changed", "fresh"}

CallType ==
    [command : {"none", "sync", "classify", "query"}, pc : Points, at : Nat, refresh : Nat,
     todo : SUBSET Docs, statuses : SUBSET Statuses, newest : Nat, parts : Seq(Nat),
     token : TokenType, outcome : Answers]

Types == TypeOK /\ call \in [Procs -> CallType]

(* The sources, the refresh first: what is current, what a collection has    *)
(* read, what the token says.                                                *)
Sources == 0 .. Parts
cur == [i \in Sources |-> IF i = 0 THEN Newest ELSE external[i]]
Read(c, i) == IF i = 0 THEN c.newest ELSE c.parts[i]
Tok(c, i) == IF i = 0 THEN c.token.refresh ELSE c.token.parts[i]

readable == {r \in DOMAIN refreshes : refreshes[r].outcome \in Readable}

-----------------------------------------------------------------------------
(* What a reader carries, given what is current and what was.                *)

WithToken == {"before_insert", "save", "after_commit", "before_return",
              "current_before_return", "latest"}

(* A collection in progress is no newer than what is current.                *)
Collects(top, good, c) ==
    /\ c.pc \in {"clock", "save"} => c.newest = 0 /\ c.parts = <<>>
    /\ c.pc \in Rounds =>
          /\ Len(c.parts) < Parts
          /\ c.newest = 0 => c.parts = <<>>
          /\ c.newest # 0 => c.newest \in good
          /\ \A i \in Sources : Looked(c, i) => Read(c, i) <= top[i]

Compares(top, good, c) ==
    c.pc \in WithToken =>
        /\ c.token.refresh \in good
        /\ Len(c.token.parts) = Parts
        /\ \A i \in Sources : Tok(c, i) <= top[i]

(* The collection in progress will differ from the token.                    *)
Doomed(top, c) ==
    \E i \in Sources : Tok(c, i) < (IF Looked(c, i) THEN Read(c, i) ELSE top[i])

(* The evidence of the first collection was current when it ended, or the    *)
(* second will find that it was not.                                         *)
Unmixed(top, past, c) ==
    /\ c.pc = "before_insert" =>
          Doomed(top, c) \/ <<c.token.refresh, c.token.parts>> \in past
    /\ c.pc = "save" => <<c.token.refresh, c.token.parts>> \in past

(* A source that changed after the first look at it is behind.               *)
Behind(top, c) ==
    /\ c.pc \in FirstRounds => \E i \in Sources : Looked(c, i) /\ Read(c, i) < top[i]
    /\ c.pc \in {"before_insert", "save", "after_commit"} => \E i \in Sources : Tok(c, i) < top[i]
    /\ c.pc \in LastRounds => Doomed(top, c)
    /\ c.pc # "latest"

Reader(top, good, past, c, d) ==
    /\ Collects(top, good, c)
    /\ Compares(top, good, c)
    /\ Unmixed(top, past, c)
    /\ d /\ (c.pc \in FirstRounds => c.newest # 0) => Behind(top, c)

Readers == \A p \in Procs : Reader(cur, readable, together, call[p], disturbed[p])

-----------------------------------------------------------------------------
(* What a synchronisation has recorded in its refresh.                       *)

Ran(row) == {d \in Docs : row.runs[d] # "none"}
Succeeded(row) == {d \in Docs : row.runs[d] = "success"}

Syncing(row, c) ==
    /\ row.outcome = "none"
    /\ c.pc = "discover" => Ran(row) = {} /\ c.statuses = {}
    /\ c.pc = "candidate" =>
          /\ row.selection = "published"
          /\ c.todo \intersect Ran(row) = {}
          /\ c.statuses = {row.runs[d] : d \in Ran(row)}
          /\ \E found \in SUBSET Docs :
                row.candidates = Periodic(found) /\ Ran(row) \union c.todo = Attempted(found)

Syncs == \A p \in Procs : call[p].pc \in SyncPoints =>
    /\ call[p].refresh \in DOMAIN refreshes
    /\ Syncing(refreshes[call[p].refresh], call[p])

(* No two commands fill one refresh.                                         *)
OwnRefresh == \A p, q \in Procs :
    call[p].pc \in SyncPoints /\ call[q].pc \in SyncPoints /\ call[p].refresh = call[q].refresh
        => p = q

Accounted(row) ==
    /\ row.outcome = "success" => Ran(row) = Succeeded(row) /\ Ran(row) # {}
    /\ row.outcome = "partial" => Succeeded(row) \notin {{}, Ran(row)}
    /\ row.outcome \in {"failed", "empty"} => Succeeded(row) = {}
    /\ row.outcome = "empty" => Ran(row) = {}
    /\ row.outcome \in Readable =>
          /\ row.selection = "published"
          /\ \A k \in PeriodicKinds : OfKind(Ran(row), k) = Selected(row.candidates, k)

Records == \A r \in DOMAIN refreshes : Accounted(refreshes[r])

(* What is current now is remembered.                                        *)
Remembered == Newest \in readable => <<Newest, external>> \in together

DocumentInv ==
    /\ Types /\ Syncs /\ OwnRefresh /\ Records
    /\ Remembered /\ EvidenceIsNeverMixed /\ Readers

-----------------------------------------------------------------------------
(* A process at rest.                                                        *)

LEMMA IdleFields ==
    /\ Idle \in CallType
    /\ Idle.pc = "idle" /\ Idle.newest = 0 /\ Idle.parts = <<>> /\ Idle.todo = {}
    /\ Idle.statuses = {}
  <1>1. NoToken \in TokenType
    BY DEF NoToken, TokenType
  <1> QED  BY <1>1 DEF Idle, CallType, Points, Answers

LEMMA PointsApart ==
    /\ Rounds \intersect SyncPoints = {}
    /\ WithToken \intersect SyncPoints = {}
    /\ FirstRounds \subseteq Rounds /\ LastRounds \subseteq Rounds
    /\ LastRounds \subseteq WithToken
    /\ {"save", "latest", "clock", "idle", "done"} \intersect (Rounds \union SyncPoints) = {}
  BY DEF Rounds, SyncPoints, WithToken, FirstRounds, LastRounds

(* A command that does not read evidence.                                    *)
LEMMA Elsewhere ==
  ASSUME NEW top, NEW good, NEW past, NEW c, NEW d \in BOOLEAN,
         c.pc \in {"idle", "done", "clock"} \union SyncPoints,
         c.pc = "clock" => c.newest = 0 /\ c.parts = <<>>
  PROVE  Reader(top, good, past, c, d)
  BY DEF Reader, Collects, Compares, Unmixed, Behind, Rounds, WithToken, FirstRounds, LastRounds,
         SyncPoints

LEMMA CurType ==
  ASSUME TypeOK
  PROVE  cur \in [Sources -> Nat] /\ Newest \in Nat
  BY DEF TypeOK, cur, Sources, Newest

LEMMA ElementIs ==
  ASSUME NEW S, NEW s \in Seq(S), NEW i \in 1 .. Len(s)
  PROVE  s[i] \in S
  OBVIOUS

(* What is current only grows: a reader keeps what it carries, and if one of *)
(* the sources it watches has moved, it is behind.                           *)
LEMMA ReaderGrows ==
  ASSUME NEW top \in [Sources -> Nat], NEW high \in [Sources -> Nat],
         \A i \in Sources : top[i] <= high[i],
         NEW good, NEW better, good \subseteq better,
         NEW past, NEW longer, past \subseteq longer,
         NEW c \in CallType, NEW d \in BOOLEAN, NEW e \in BOOLEAN,
         e => d \/ \E i \in Sources : top[i] < high[i] /\ Watching(c, i),
         Reader(top, good, past, c, d)
  PROVE  Reader(high, better, longer, c, e)
  <1>1. /\ \A i \in Sources : Looked(c, i) => Read(c, i) \in Nat
        /\ c.pc \in WithToken => Len(c.token.parts) = Parts
    <2>1. c.newest \in Nat /\ c.parts \in Seq(Nat)
      BY DEF CallType
    <2> QED  BY <2>1 DEF Read, Looked, Sources, Reader, Compares
  <1>2. c.pc \in WithToken => \A i \in Sources : Tok(c, i) \in Nat
    <2>1. c.token.refresh \in Nat /\ c.token.parts \in Seq(Nat)
      BY DEF CallType, TokenType
    <2>2. ASSUME c.pc \in WithToken, NEW i \in Sources, i # 0 PROVE c.token.parts[i] \in Nat
      <3>1. Len(c.token.parts) = Parts
        BY <1>1, <2>2
      <3>2. i \in 1 .. Parts
        BY <2>2, DocumentAssumption DEF Sources
      <3>3. i \in 1 .. Len(c.token.parts)
        BY <3>1, <3>2
      <3> QED  BY <2>1, <3>3, ElementIs
    <2> QED  BY <2>1, <2>2 DEF Tok
  <1>3. Collects(high, better, c)
    BY <1>1 DEF Reader, Collects
  <1>4. Compares(high, better, c)
    BY <1>2 DEF Reader, Compares
  <1>5. c.pc \in WithToken /\ Doomed(top, c) => Doomed(high, c)
    BY <1>1, <1>2 DEF Doomed
  <1>6. Unmixed(high, longer, c)
    BY <1>5 DEF Reader, Unmixed, WithToken
  <1>7. ASSUME e, c.pc \in FirstRounds => c.newest # 0 PROVE Behind(high, c)
    <2>1. CASE d
      <3>1. Behind(top, c)
        BY <1>7, <2>1 DEF Reader
      <3>2. c.pc \in FirstRounds => \E i \in Sources : Looked(c, i) /\ Read(c, i) < high[i]
        BY <1>1, <3>1 DEF Behind
      <3>3. c.pc \in {"before_insert", "save", "after_commit"} =>
               \E i \in Sources : Tok(c, i) < high[i]
        BY <1>2, <3>1 DEF Behind, WithToken
      <3>4. c.pc \in LastRounds => Doomed(high, c)
        BY <1>5, <3>1, PointsApart DEF Behind
      <3> QED  BY <3>1, <3>2, <3>3, <3>4 DEF Behind
    <2>2. ASSUME NEW i \in Sources, top[i] < high[i], Watching(c, i) PROVE Behind(high, c)
      <3>1. c.pc \in Rounds \union {"save"}
        BY <2>2 DEF Watching
      <3>2. c.pc \in FirstRounds => Looked(c, i) /\ Read(c, i) < high[i]
        <4>1. c.pc \in FirstRounds => Looked(c, i) /\ Read(c, i) <= top[i]
          BY <2>2, PointsApart DEF Watching, Reader, Collects
        <4> QED  BY <1>1, <2>2, <4>1
      <3>3. c.pc \in WithToken => Tok(c, i) < high[i]
        BY <1>2, <2>2 DEF Reader, Compares
      <3>4. c.pc \in LastRounds => Doomed(high, c)
        BY <2>2, <3>3, PointsApart DEF Doomed, Watching
      <3> QED
        BY <3>1, <3>2, <3>3, <3>4, PointsApart DEF Behind, WithToken
    <2> QED  BY <1>7, <2>1, <2>2
  <1> QED  BY <1>3, <1>4, <1>6, <1>7 DEF Reader

-----------------------------------------------------------------------------
(* Before the first command: nothing to remember, every command at rest.    *)
THEOREM InitDocuments == Init => DocumentInv
  <1> SUFFICES ASSUME Init PROVE DocumentInv
    OBVIOUS
  <1>1. Types
    BY IdleFields, DocumentAssumption DEF Init, Types, TypeOK, NoTime
  <1>2. Syncs /\ OwnRefresh
    BY IdleFields, PointsApart DEF Init, Syncs, OwnRefresh
  <1>3. Records /\ Remembered /\ EvidenceIsNeverMixed
    BY DEF Init, Records, Remembered, readable, Newest, EvidenceIsNeverMixed
  <1>4. Readers
    BY IdleFields, Elsewhere DEF Init, Readers
  <1> QED  BY <1>1, <1>2, <1>3, <1>4 DEF DocumentInv

-----------------------------------------------------------------------------
(* Steps of one command that leave the tables alone, a new classification    *)
(* apart.                                                                    *)

Moves(p, c, d) ==
    /\ call' = [call EXCEPT ![p] = c]
    /\ disturbed' = [disturbed EXCEPT ![p] = d]

LEMMA MovesKeepReaders ==
  ASSUME DocumentInv, NEW p \in Procs, NEW c \in CallType, NEW d \in BOOLEAN, Moves(p, c, d),
         Reader(cur, readable, together, c, d), UNCHANGED <<refreshes, external, together>>
  PROVE  Readers'
  <1>1. cur' = cur /\ readable' = readable
    BY DEF cur, Newest, readable
  <1>2. call \in [Procs -> CallType] /\ disturbed \in [Procs -> BOOLEAN]
    BY DEF DocumentInv, Types, TypeOK
  <1>3. ASSUME NEW q \in Procs PROVE Reader(cur', readable', together', call'[q], disturbed'[q])
    <2>1. CASE q = p
      BY <1>1, <1>2, <2>1 DEF Moves
    <2>2. CASE q # p
      BY <1>1, <1>2, <2>2 DEF Moves, DocumentInv, Readers
    <2> QED  BY <2>1, <2>2
  <1> QED  BY <1>3 DEF Readers

LEMMA MovesPreserve ==
  ASSUME DocumentInv, NEW p \in Procs, NEW c \in CallType, NEW d \in BOOLEAN, Moves(p, c, d),
         c.pc \notin SyncPoints, Reader(cur, readable, together, c, d),
         UNCHANGED <<refreshes, external, together>>,
         now' \in Nat, artifacts' \in [Docs \X Contents -> Nat],
         classifications' \in Seq([token : TokenType, at : Nat]), EvidenceIsNeverMixed'
  PROVE  DocumentInv'
  <1>1. Types'
    BY DEF DocumentInv, Types, TypeOK, Moves
  <1>2. Syncs' /\ OwnRefresh'
    BY DEF DocumentInv, Types, Syncs, OwnRefresh, Moves
  <1>3. Records' /\ Remembered'
    BY DEF DocumentInv, Records, Remembered, readable, Newest
  <1> QED  BY <1>1, <1>2, <1>3, MovesKeepReaders DEF DocumentInv

(* The same, for a step that changes no table at all.                        *)
LEMMA QuietPreserves ==
  ASSUME DocumentInv, NEW p \in Procs, NEW c \in CallType, NEW d \in BOOLEAN, Moves(p, c, d),
         c.pc \notin SyncPoints, Reader(cur, readable, together, c, d),
         UNCHANGED <<now, tables, together>>
  PROVE  DocumentInv'
  <1>1. /\ now' \in Nat /\ artifacts' \in [Docs \X Contents -> Nat]
        /\ classifications' \in Seq([token : TokenType, at : Nat])
    BY DEF DocumentInv, Types, TypeOK, tables
  <1>2. EvidenceIsNeverMixed'
    BY DEF DocumentInv, EvidenceIsNeverMixed, tables
  <1> QED  BY <1>1, <1>2, MovesPreserve DEF tables

LEMMA StillMoves ==
  ASSUME DocumentInv, NEW p \in Procs, NEW c, SetCall(p, c), UNCHANGED disturbed
  PROVE  Moves(p, c, disturbed[p]) /\ disturbed[p] \in BOOLEAN
  BY DEF DocumentInv, Types, TypeOK, SetCall, Moves

LEMMA ReplyMoves ==
  ASSUME DocumentInv, NEW p \in Procs, NEW outcome \in Answers, Reply(p, outcome)
  PROVE  \E c \in CallType : SetCall(p, c) /\ c.pc = "done" /\ c.outcome = outcome
  <1> DEFINE c == [Idle EXCEPT !.pc = "done", !.outcome = outcome]
  <1>1. c \in CallType /\ c.pc = "done" /\ c.outcome = outcome
    BY IdleFields DEF CallType, Points
  <1> QED  BY <1>1 DEF Reply

LEMMA ReplyPreserves ==
  ASSUME DocumentInv, NEW p \in Procs, NEW outcome \in Answers, Reply(p, outcome),
         NEW d \in BOOLEAN, disturbed' = [disturbed EXCEPT ![p] = d],
         UNCHANGED <<now, tables, together>>
  PROVE  DocumentInv'
  <1>1. PICK c \in CallType : SetCall(p, c) /\ c.pc = "done"
    BY ReplyMoves
  <1>2. Reader(cur, readable, together, c, d) /\ c.pc \notin SyncPoints
    BY <1>1, Elsewhere, PointsApart
  <1> QED  BY <1>1, <1>2, QuietPreserves DEF Moves, SetCall

LEMMA SameDisturbed ==
  ASSUME DocumentInv, NEW p \in Procs, UNCHANGED disturbed
  PROVE  disturbed' = [disturbed EXCEPT ![p] = disturbed[p]] /\ disturbed[p] \in BOOLEAN
  BY DEF DocumentInv, Types, TypeOK

(* A command that goes on to a step without evidence.                        *)
LEMMA ElsewherePreserves ==
  ASSUME DocumentInv, NEW p \in Procs, NEW c \in CallType, SetCall(p, c),
         c.pc \in {"idle", "clock"}, c.newest = 0, c.parts = <<>>,
         UNCHANGED <<now, tables, together, disturbed>>
  PROVE  DocumentInv'
  <1>1. Moves(p, c, disturbed[p]) /\ disturbed[p] \in BOOLEAN
    BY StillMoves
  <1>2. Reader(cur, readable, together, c, disturbed[p]) /\ c.pc \notin SyncPoints
    BY <1>1, Elsewhere, PointsApart
  <1> QED  BY <1>1, <1>2, QuietPreserves

(* A command that begins its first collection.                               *)
LEMMA FirstRoundPreserves ==
  ASSUME DocumentInv, NEW p \in Procs, NEW c \in CallType, SetCall(p, c),
         c.pc \in FirstRounds, c.newest = 0, c.parts = <<>>,
         UNCHANGED <<now, tables, together, disturbed>>
  PROVE  DocumentInv'
  <1>1. Moves(p, c, disturbed[p]) /\ disturbed[p] \in BOOLEAN
    BY StillMoves
  <1>2. \A i \in Sources : ~Looked(c, i)
    BY DocumentAssumption DEF Looked, Sources
  <1>3. Reader(cur, readable, together, c, disturbed[p])
    <2>1. Collects(cur, readable, c)
      BY <1>2, DocumentAssumption DEF Collects, FirstRounds
    <2>2. c.pc \notin WithToken /\ c.pc \notin {"before_insert", "save"}
      BY DEF FirstRounds, WithToken
    <2> QED  BY <2>1, <2>2 DEF Reader, Compares, Unmixed
  <1> QED  BY <1>1, <1>3, QuietPreserves, PointsApart

LEMMA StoredToken ==
  ASSUME DocumentInv, NEW i \in NewestClassification
  PROVE  classifications[i].token \in TokenType
  <1> DEFINE Rows == [token : TokenType, at : Nat]
  <1>1. classifications \in Seq(Rows)
    BY DEF DocumentInv, Types, TypeOK
  <1>2. i \in DOMAIN classifications
    BY DEF NewestClassification
  <1>3. \A row \in Rows : row.token \in TokenType
    OBVIOUS
  <1> HIDE DEF Rows
  <1>4. classifications[i] \in Rows
    BY <1>1, <1>2
  <1> QED  BY <1>3, <1>4

LEMMA BeginReaderPreserves ==
  ASSUME DocumentInv, NEW p \in Procs, BeginClassify(p) \/ BeginQuery(p) \/ QueryClock(p)
  PROVE  DocumentInv'
  <1>0. now \in Nat /\ classifications \in Seq([token : TokenType, at : Nat])
        /\ call[p] \in CallType /\ Reader(cur, readable, together, call[p], disturbed[p])
    BY DEF DocumentInv, Types, TypeOK, Readers
  <1>1. CASE BeginClassify(p)
    <2> DEFINE c == [Idle EXCEPT !.command = "classify", !.pc = "initial", !.at = now]
    <2>1. c \in CallType /\ c.pc \in FirstRounds /\ c.newest = 0 /\ c.parts = <<>>
      BY <1>0, IdleFields DEF CallType, Points, Rounds, FirstRounds
    <2>2. SetCall(p, c) /\ UNCHANGED <<now, tables, together, disturbed>>
      BY <1>1 DEF BeginClassify
    <2> HIDE DEF c
    <2> QED  BY <2>1, <2>2, FirstRoundPreserves
  <1>2. CASE Reply(p, "missing") /\ UNCHANGED <<now, tables, together, disturbed>>
    BY <1>2, SameDisturbed, ReplyPreserves DEF Answers
  <1>3. ASSUME NEW i \in NewestClassification,
               SetCall(p, [Idle EXCEPT !.command = "query", !.pc = "clock",
                                       !.token = classifications[i].token]),
               UNCHANGED <<now, tables, together, disturbed>>
        PROVE  DocumentInv'
    <2> DEFINE c == [Idle EXCEPT !.command = "query", !.pc = "clock",
                                 !.token = classifications[i].token]
    <2>1. classifications[i].token \in TokenType
      BY <1>3, StoredToken
    <2>2. c \in CallType /\ c.pc = "clock" /\ c.newest = 0 /\ c.parts = <<>>
      BY <2>1, IdleFields DEF CallType, Points
    <2> HIDE DEF c
    <2> QED  BY <1>3, <2>2, ElsewherePreserves DEF c
  <1>4. CASE QueryClock(p)
    <2> DEFINE c == [call[p] EXCEPT !.pc = "current", !.at = now]
    <2>1. call[p].newest = 0 /\ call[p].parts = <<>>
      BY <1>0, <1>4 DEF QueryClock, Reader, Collects
    <2>2. c \in CallType /\ c.pc \in FirstRounds /\ c.newest = 0 /\ c.parts = <<>>
      BY <1>0, <2>1 DEF CallType, Points, Rounds, FirstRounds
    <2>3. SetCall(p, c) /\ UNCHANGED <<now, tables, together, disturbed>>
      BY <1>4 DEF QueryClock
    <2> HIDE DEF c
    <2> QED  BY <2>2, <2>3, FirstRoundPreserves
  <1> QED  BY <1>1, <1>2, <1>3, <1>4 DEF BeginQuery

LEMMA EndPreserves ==
  ASSUME DocumentInv, NEW p \in Procs,
         Return(p) \/ Stop(p) \/ QueryLatest(p) \/ ArtifactConflict(p)
  PROVE  DocumentInv'
  <1>1. CASE Return(p) \/ Stop(p)
    BY <1>1, IdleFields, ElsewherePreserves DEF Return, Stop
  <1>2. CASE QueryLatest(p) \/ ArtifactConflict(p)
    <2>1. PICK outcome \in Answers : Reply(p, outcome)
      BY <1>2 DEF QueryLatest, ArtifactConflict, Answers
    <2> QED  BY <1>2, <2>1, SameDisturbed, ReplyPreserves DEF QueryLatest, ArtifactConflict
  <1> QED  BY <1>1, <1>2

(* The refresh read is the newest, which is readable.                        *)
LEMMA SnapshotPreserves ==
  ASSUME DocumentInv, NEW p \in Procs, Snapshot(p)
  PROVE  DocumentInv'
  <1> DEFINE b == call[p]
             c == [b EXCEPT !.newest = Newest]
             d == disturbed[p] /\ b.pc \notin FirstRounds
  <1>0. /\ b \in CallType /\ b.pc \in Rounds /\ b.newest = 0
        /\ Reader(cur, readable, together, b, disturbed[p])
        /\ d \in BOOLEAN /\ disturbed' = [disturbed EXCEPT ![p] = d]
        /\ UNCHANGED <<now, tables, together>>
    BY DEF DocumentInv, Types, TypeOK, Readers, Snapshot
  <1>1. CASE Reply(p, "unavailable") \/ Reply(p, "storage failed")
    BY <1>0, <1>1, ReplyPreserves DEF Answers
  <1>2. CASE SetCall(p, c) /\ Newest # 0 /\ refreshes[Newest].outcome \in Readable
    <2>1. Newest \in readable /\ Newest \in Nat \ {0} /\ cur[0] = Newest
      BY <1>2, DocumentAssumption
      DEF readable, Newest, DocumentInv, Types, TypeOK, cur, Sources
    <2>2. b.parts = <<>> /\ 0 < Parts /\ Parts \in Nat
      BY <1>0, DocumentAssumption DEF Reader, Collects
    <2>3. c \in CallType /\ c.pc = b.pc /\ c.parts = <<>> /\ c.newest = Newest /\ c.token = b.token
      BY <1>0, <2>1, <2>2 DEF CallType
    <2> HIDE DEF c
    <2>4. \A i \in Sources : /\ Looked(c, i) <=> i = 0
                             /\ ~Looked(b, i)
                             /\ Tok(c, i) = Tok(b, i)
      BY <1>0, <2>1, <2>2, <2>3 DEF Looked, Sources, Tok
    <2>5. Read(c, 0) = Newest
      BY <2>3 DEF Read
    <2>6. Collects(cur, readable, c)
      <3>1. c.pc \notin {"clock", "save"}
        BY <1>0, <2>3, PointsApart
      <3>2. \A i \in Sources : Looked(c, i) => Read(c, i) <= cur[i]
        BY <2>1, <2>4, <2>5
      <3> QED  BY <2>1, <2>2, <2>3, <3>1, <3>2 DEF Collects
    <2>7. Compares(cur, readable, c)
      BY <1>0, <2>3, <2>4 DEF Reader, Compares
    <2>8. Doomed(cur, b) => Doomed(cur, c)
      BY <2>1, <2>4, <2>5 DEF Doomed
    <2>9. Unmixed(cur, together, c)
      BY <1>0, <2>3, <2>8 DEF Reader, Unmixed
    <2>10. d => Behind(cur, c)
      BY <1>0, <2>3, <2>4, <2>8 DEF Reader, Behind
    <2>11. Moves(p, c, d)
      BY <1>0, <1>2 DEF SetCall, Moves
    <2> HIDE DEF d
    <2>12. Reader(cur, readable, together, c, d)
      BY <2>6, <2>7, <2>9, <2>10 DEF Reader
    <2> QED  BY <1>0, <2>3, <2>11, <2>12, QuietPreserves, PointsApart
  <1>3. Newest = 0 \/ Newest > 0
    BY DEF DocumentInv, Types, TypeOK, Newest
  <1> HIDE DEF c
  <1> QED  BY <1>1, <1>2, <1>3 DEF Snapshot, c

-----------------------------------------------------------------------------
(* Reading one source more.                                                  *)

More(p) == Append(call[p].parts, external[Len(call[p].parts) + 1])
Value(p, i) == IF i = 0 THEN call[p].newest ELSE More(p)[i]

Reading(p) == call[p].pc \in Rounds /\ call[p].newest # 0

LEMMA ReadingFacts ==
  ASSUME DocumentInv, NEW p \in Procs, Reading(p)
  PROVE  /\ call[p] \in CallType /\ call[p].newest \in readable
         /\ Reader(cur, readable, together, call[p], disturbed[p])
         /\ More(p) \in Seq(Nat) /\ Len(More(p)) = Len(call[p].parts) + 1
         /\ Len(More(p)) <= Parts
         /\ \A i \in Sources :
               /\ i <= Len(More(p)) => Value(p, i) \in Nat /\ Value(p, i) <= cur[i]
               /\ Looked(call[p], i) => i <= Len(More(p)) /\ Read(call[p], i) = Value(p, i)
               /\ ~Looked(call[p], i) /\ i <= Len(More(p)) => Value(p, i) = cur[i]
  <1> DEFINE b == call[p]
             old == b.parts
             parts == More(p)
  <1>1. b \in CallType /\ Reader(cur, readable, together, b, disturbed[p])
    BY DEF DocumentInv, Types, Readers
  <1>2. b.newest \in readable /\ old \in Seq(Nat) /\ Len(old) < Parts /\ b.newest \in Nat
    BY <1>1 DEF Reading, Reader, Collects, CallType
  <1>3. external \in [1 .. Parts -> Nat] /\ Parts \in Nat
    BY DocumentAssumption DEF DocumentInv, Types, TypeOK
  <1>4. external[Len(old) + 1] \in Nat
    BY <1>2, <1>3
  <1>5. parts \in Seq(Nat) /\ Len(parts) = Len(old) + 1
    BY <1>2, <1>4 DEF More
  <1>6. \A i \in 1 .. Len(old) : parts[i] = old[i]
    BY <1>2, <1>4 DEF More
  <1>7. parts[Len(old) + 1] = external[Len(old) + 1]
    BY <1>2, <1>4 DEF More
  <1>8. ASSUME NEW i \in Sources
        PROVE  /\ i <= Len(parts) => Value(p, i) \in Nat /\ Value(p, i) <= cur[i]
               /\ Looked(b, i) => i <= Len(parts) /\ Read(b, i) = Value(p, i)
               /\ ~Looked(b, i) /\ i <= Len(parts) => Value(p, i) = cur[i]
    <2>1. i \in Nat /\ i <= Parts
      BY <1>3 DEF Sources
    <2>2. CASE i = 0
      <3>1. Looked(b, i) /\ Read(b, i) = b.newest /\ Value(p, i) = b.newest
        BY <2>2 DEF Looked, Read, Value, Reading
      <3>2. Read(b, i) <= cur[i]
        BY <1>1, <3>1 DEF Reading, Reader, Collects
      <3> QED  BY <1>2, <1>5, <2>2, <3>1, <3>2
    <2>3. CASE i # 0 /\ i <= Len(old)
      <3>0. i \in 1 .. Len(old) /\ i \in 1 .. Len(parts)
        BY <1>2, <1>5, <2>1, <2>3
      <3>1. parts[i] = old[i] /\ parts[i] \in Nat
        BY <1>5, <1>6, <3>0, ElementIs
      <3>2. Looked(b, i) /\ Read(b, i) = Value(p, i)
        BY <3>1, <2>3, <2>1 DEF Looked, Read, Value
      <3>3. Read(b, i) <= cur[i]
        BY <1>1, <3>2 DEF Reading, Reader, Collects
      <3> QED  BY <3>1, <3>2, <3>3, <1>2, <1>5, <2>1, <2>3 DEF Value
    <2>4. CASE i # 0 /\ i > Len(old)
      <3>1. ~Looked(b, i)
        BY <1>2, <2>1, <2>4 DEF Looked
      <3>2. cur[i] = external[i] /\ external[i] \in Nat
        BY <1>3, <2>1, <2>4 DEF cur, Sources
      <3>3. i <= Len(parts) => i = Len(old) + 1
        BY <1>2, <1>5, <2>1, <2>4
      <3>4. i <= Len(parts) => Value(p, i) = cur[i]
        BY <1>7, <3>2, <3>3, <2>4 DEF Value
      <3> QED  BY <3>1, <3>2, <3>4
    <2> QED  BY <1>2, <2>1, <2>2, <2>3, <2>4
  <1>9. Len(parts) <= Parts
    BY <1>2, <1>3, <1>5
  <1> QED  BY <1>1, <1>2, <1>5, <1>8, <1>9

(* A source that is not the last.                                            *)
LEMMA PartPreserves ==
  ASSUME DocumentInv, NEW p \in Procs, Reading(p), Len(More(p)) < Parts,
         SetCall(p, [call[p] EXCEPT !.parts = More(p)]),
         UNCHANGED <<now, tables, together, disturbed>>
  PROVE  DocumentInv'
  <1> DEFINE b == call[p]
             c == [b EXCEPT !.parts = More(p)]
             d == disturbed[p]
  <1>1. /\ c \in CallType /\ c.pc = b.pc /\ c.newest = b.newest /\ c.parts = More(p)
        /\ c.token = b.token
    BY ReadingFacts DEF CallType
  <1>2. SetCall(p, c)
    OBVIOUS
  <1> HIDE DEF c
  <1>3. ASSUME NEW i \in Sources
        PROVE  /\ Looked(c, i) <=> i <= Len(More(p))
               /\ Read(c, i) = Value(p, i) /\ Tok(c, i) = Tok(b, i)
    BY <1>1, ReadingFacts DEF Looked, Read, Value, Tok, Reading
  <1>4. Collects(cur, readable, c)
    <2>1. c.pc \notin {"clock", "save"} /\ c.newest # 0 /\ c.newest \in readable
      BY <1>1, ReadingFacts, PointsApart DEF Reading
    <2> QED  BY <1>1, <1>3, <2>1, ReadingFacts DEF Collects
  <1>5. Compares(cur, readable, c)
    BY <1>1, <1>3, ReadingFacts DEF Reader, Compares
  <1>6. Doomed(cur, b) => Doomed(cur, c)
    BY <1>3, ReadingFacts DEF Doomed
  <1>7. Unmixed(cur, together, c)
    BY <1>1, <1>6, ReadingFacts DEF Reader, Unmixed
  <1>8. d => Behind(cur, c)
    <2>1. d => Behind(cur, b)
      BY ReadingFacts DEF Reader, Reading
    <2>2. ASSUME d, c.pc \in FirstRounds
          PROVE  \E i \in Sources : Looked(c, i) /\ Read(c, i) < cur[i]
      BY <1>1, <1>3, <2>1, <2>2, ReadingFacts DEF Behind
    <2>3. ASSUME d, c.pc \in {"before_insert", "save", "after_commit"}
          PROVE  \E i \in Sources : Tok(c, i) < cur[i]
      BY <1>1, <1>3, <2>1, <2>3 DEF Behind
    <2>4. d /\ c.pc \in LastRounds => Doomed(cur, c)
      BY <1>1, <1>6, <2>1 DEF Behind
    <2> QED  BY <1>1, <2>1, <2>2, <2>3, <2>4 DEF Behind
  <1>9. Moves(p, c, d) /\ d \in BOOLEAN
    BY <1>2, StillMoves
  <1>10. Reader(cur, readable, together, c, d) /\ c.pc \notin SyncPoints
    BY <1>1, <1>4, <1>5, <1>7, <1>8, PointsApart DEF Reader, Reading
  <1> QED  BY <1>1, <1>9, <1>10, QuietPreserves

(* A complete collection that is the token shows that nothing has changed.   *)
LEMMA CompleteAgrees ==
  ASSUME DocumentInv, NEW p \in Procs, Reading(p), Len(More(p)) = Parts,
         call[p].token.refresh = call[p].newest, call[p].token.parts = More(p)
  PROVE  ~Doomed(cur, call[p])
  <1>1. \A i \in Sources : Tok(call[p], i) = Value(p, i)
    BY DEF Tok, Value
  <1>2. \A i \in Sources : Value(p, i) \in Nat /\ (Looked(call[p], i) => Read(call[p], i) = Value(p, i))
                           /\ (~Looked(call[p], i) => cur[i] = Value(p, i))
    <2>1. \A i \in Sources : i <= Len(More(p))
      BY DocumentAssumption DEF Sources
    <2> QED  BY <2>1, ReadingFacts
  <1> QED  BY <1>1, <1>2 DEF Doomed

(* The last source: the command goes on with the evidence it has collected.  *)
LEMMA CompletePreserves ==
  ASSUME DocumentInv, NEW p \in Procs, Reading(p), Len(More(p)) = Parts,
         NEW token \in TokenType, token.refresh = call[p].newest, token.parts = More(p),
         call[p].pc = "initial" \/ token = call[p].token,
         After[call[p].pc] # "fresh",
         SetCall(p, [call[p] EXCEPT !.pc = After[call[p].pc], !.newest = 0, !.parts = <<>>,
                                    !.token = token]),
         UNCHANGED <<now, tables, together, disturbed>>
  PROVE  DocumentInv'
  <1> DEFINE b == call[p]
             n == [b EXCEPT !.pc = After[b.pc], !.newest = 0, !.parts = <<>>, !.token = token]
             d == disturbed[p]
  <1>1. /\ b.pc = "initial" => After[b.pc] = "before_insert"
        /\ b.pc = "before_insert" => After[b.pc] = "save"
        /\ b.pc = "after_commit" => After[b.pc] = "before_return"
        /\ b.pc = "current" => After[b.pc] = "current_before_return"
        /\ b.pc = "current_before_return" => After[b.pc] = "latest"
        /\ b.pc \in {"initial", "before_insert", "after_commit", "current", "current_before_return"}
    BY DEF After, Reading, Rounds
  <1>2. /\ n \in CallType /\ n.pc = After[b.pc] /\ n.newest = 0 /\ n.parts = <<>>
        /\ n.token = token
    <2>1. After[b.pc] \in Points
      BY <1>1 DEF Points, Rounds
    <2>2. <<>> \in Seq(Nat) /\ 0 \in Nat /\ b \in CallType
      BY ReadingFacts
    <2> QED  BY <2>1, <2>2 DEF CallType
  <1>3. SetCall(p, n)
    OBVIOUS
  <1> HIDE DEF n
  <1>4. \A i \in Sources :
           /\ Tok(n, i) = Value(p, i) /\ Value(p, i) \in Nat /\ Value(p, i) <= cur[i]
           /\ Looked(b, i) => Read(b, i) = Value(p, i)
           /\ b.pc # "initial" => Tok(b, i) = Value(p, i)
           /\ ~Looked(n, i)
    <2>1. \A i \in Sources : i <= Len(More(p)) /\ i \in Nat
      BY DocumentAssumption DEF Sources
    <2>2. \A i \in Sources : ~Looked(n, i)
      BY <1>2, <2>1 DEF Looked
    <2>3. \A i \in Sources : Tok(n, i) = Value(p, i) /\ (b.pc # "initial" => Tok(b, i) = Value(p, i))
      BY <1>2 DEF Tok, Value
    <2> QED  BY <2>1, <2>2, <2>3, ReadingFacts
  <1>5. Collects(cur, readable, n)
    BY <1>2, <1>4, DocumentAssumption DEF Collects
  <1>6. Compares(cur, readable, n)
    BY <1>2, <1>4, ReadingFacts DEF Compares
  <1>7. b.pc # "initial" => ~Doomed(cur, b)
    BY CompleteAgrees
  <1>8. Doomed(cur, n) <=> \E i \in Sources : Value(p, i) < cur[i]
    BY <1>4 DEF Doomed
  <1>9. Unmixed(cur, together, n)
    <2>1. ASSUME n.pc = "before_insert", ~Doomed(cur, n)
          PROVE  <<n.token.refresh, n.token.parts>> \in together
      <3>1. \A i \in Sources : Value(p, i) = cur[i]
        BY <1>4, <1>8, <2>1, CurType DEF DocumentInv, Types
      <3>2. 0 \in Sources /\ (1 .. Parts) \subseteq Sources /\ 0 \notin 1 .. Parts
        BY DocumentAssumption DEF Sources
      <3>3. b.newest = Newest
        BY <3>1, <3>2 DEF Value, cur
      <3>4. More(p) = external
        <4>1. DOMAIN external = 1 .. Parts /\ external \in [1 .. Parts -> Nat]
          BY DEF DocumentInv, Types, TypeOK
        <4>2. DOMAIN More(p) = 1 .. Parts /\ More(p) \in [1 .. Parts -> Nat]
          BY ReadingFacts
        <4>3. \A i \in 1 .. Parts : More(p)[i] = external[i]
          BY <3>1, <3>2 DEF Value, cur
        <4> QED  BY <4>1, <4>2, <4>3
      <3> QED
        BY <1>2, <3>3, <3>4, ReadingFacts DEF DocumentInv, Remembered
    <2>2. ASSUME n.pc = "save" PROVE <<n.token.refresh, n.token.parts>> \in together
      <3>1. b.pc = "before_insert" /\ token = b.token
        BY <1>1, <1>2, <2>2
      <3> QED  BY <1>2, <1>7, <3>1, ReadingFacts DEF Reader, Unmixed
    <2> QED  BY <2>1, <2>2 DEF Unmixed
  <1>10. d => Behind(cur, n)
    <2> SUFFICES ASSUME d PROVE Behind(cur, n)
      OBVIOUS
    <2>1. Behind(cur, b)
      BY ReadingFacts DEF Reader, Reading
    <2>2. b.pc # "current_before_return"
      BY <1>7, <2>1 DEF Behind, LastRounds
    <2>3. \E i \in Sources : Value(p, i) < cur[i]
      <3>1. CASE b.pc \in FirstRounds
        BY <1>4, <2>1, <3>1 DEF Behind
      <3>2. CASE b.pc \in {"before_insert", "after_commit"}
        BY <1>4, <2>1, <3>2 DEF Behind
      <3> QED  BY <1>1, <2>2, <3>1, <3>2 DEF FirstRounds
    <2>4. n.pc \in {"before_insert", "save", "before_return", "current_before_return"}
      BY <1>1, <1>2, <2>2
    <2>5. \E i \in Sources : Tok(n, i) < cur[i]
      BY <1>4, <2>3
    <2> QED  BY <1>8, <2>3, <2>4, <2>5 DEF Behind, FirstRounds, LastRounds
  <1>11. Moves(p, n, d) /\ d \in BOOLEAN
    BY <1>3, StillMoves
  <1>12. Reader(cur, readable, together, n, d) /\ n.pc \notin SyncPoints
    BY <1>1, <1>2, <1>5, <1>6, <1>9, <1>10 DEF Reader, SyncPoints
  <1> QED  BY <1>2, <1>11, <1>12, QuietPreserves

LEMMA ReadPartPreserves ==
  ASSUME DocumentInv, NEW p \in Procs, ReadPart(p)
  PROVE  DocumentInv'
  <1> DEFINE b == call[p]
             token == TokenRead(b, More(p))
  <1>1. Reading(p) /\ UNCHANGED <<now, tables, together, disturbed>>
    BY DEF ReadPart, Reading
  <1>2. CASE Reply(p, "changed") \/ Reply(p, "fresh")
    BY <1>1, <1>2, SameDisturbed, ReplyPreserves DEF Answers
  <1>3. CASE Len(More(p)) < Parts
    BY <1>1, <1>3, PartPreserves DEF ReadPart, More
  <1>4. CASE ~(Len(More(p)) < Parts)
    <2>1. Len(More(p)) = Parts /\ call[p].newest \in Nat
      BY <1>1, <1>4, ReadingFacts, DocumentAssumption DEF CallType
    <2>2. token \in TokenType /\ token.refresh = b.newest /\ token.parts = More(p)
      BY <1>1, <2>1, ReadingFacts DEF TokenRead, TokenType, FreshAt
    <2>3. \/ Reply(p, "changed") \/ Reply(p, "fresh")
          \/ /\ TokenAgrees(b, token) /\ After[b.pc] # "fresh"
             /\ SetCall(p, [b EXCEPT !.pc = After[b.pc], !.newest = 0, !.parts = <<>>,
                                     !.token = token])
      BY <1>4 DEF ReadPart, More
    <2> HIDE DEF token
    <2> QED  BY <1>1, <1>2, <2>1, <2>2, <2>3, CompletePreserves DEF TokenAgrees
  <1> QED  BY <1>3, <1>4

(* The evidence of the row that is stored was current at one instant.        *)
LEMMA SavePreserves ==
  ASSUME DocumentInv, NEW p \in Procs, SaveClassification(p)
  PROVE  DocumentInv'
  <1> DEFINE b == call[p]
             c == [b EXCEPT !.pc = "after_commit"]
             d == disturbed[p]
             row == [token |-> b.token, at |-> b.at]
             Rows == [token : TokenType, at : Nat]
  <1>1. /\ b \in CallType /\ b.pc = "save" /\ Reader(cur, readable, together, b, d)
        /\ UNCHANGED <<now, refreshes, artifacts, external, together, disturbed>>
    BY DEF DocumentInv, Types, Readers, SaveClassification
  <1>2. CASE Reply(p, "storage failed") /\ UNCHANGED classifications
    BY <1>1, <1>2, SameDisturbed, ReplyPreserves DEF Answers, tables
  <1>3. CASE /\ SetCall(p, c)
             /\ \/ classifications' = classifications
                \/ classifications' = Append(classifications, row)
    <2>1. b.newest = 0 /\ b.parts = <<>> /\ <<b.token.refresh, b.token.parts>> \in together
      BY <1>1 DEF Reader, Collects, Unmixed
    <2>2. /\ c \in CallType /\ c.pc = "after_commit" /\ c.newest = 0 /\ c.parts = <<>>
          /\ c.token = b.token
      BY <1>1, <2>1 DEF CallType, Points, Rounds
    <2>3. row \in Rows /\ row.token = b.token
      BY <1>1 DEF CallType
    <2>4. classifications \in Seq(Rows)
      BY DEF DocumentInv, Types, TypeOK
    <2>5. Moves(p, c, d) /\ d \in BOOLEAN
      BY <1>1, <1>3, StillMoves
    <2> HIDE DEF c
    <2>6. \A i \in Sources : ~Looked(c, i) /\ Tok(c, i) = Tok(b, i)
      BY <2>2, DocumentAssumption DEF Looked, Tok, Sources
    <2>7. Collects(cur, readable, c)
      BY <2>2, <2>6, DocumentAssumption DEF Collects
    <2>8. Compares(cur, readable, c)
      BY <1>1, <2>2, <2>6 DEF Reader, Compares, WithToken
    <2>9. Unmixed(cur, together, c)
      BY <2>2 DEF Unmixed
    <2>10. d => Behind(cur, c)
      <3>1. d => Behind(cur, b)
        BY <1>1 DEF Reader, FirstRounds
      <3> QED  BY <1>1, <2>2, <2>6, <3>1 DEF Behind, FirstRounds, LastRounds
    <2>11. Reader(cur, readable, together, c, d) /\ c.pc \notin SyncPoints
      BY <2>2, <2>7, <2>8, <2>9, <2>10 DEF Reader, SyncPoints
    <2> HIDE DEF row, Rows
    <2>12. classifications' \in Seq(Rows)
      BY <1>3, <2>3, <2>4
    <2>13. EvidenceIsNeverMixed'
      <3>1. EvidenceIsNeverMixed
        BY DEF DocumentInv
      <3>2. ASSUME NEW i \in DOMAIN classifications',
                   classifications' = Append(classifications, row)
            PROVE  \/ i \in DOMAIN classifications /\ classifications'[i] = classifications[i]
                   \/ classifications'[i] = row
        BY <2>3, <2>4, <3>2
      <3> QED  BY <1>1, <1>3, <2>1, <2>3, <3>1, <3>2 DEF EvidenceIsNeverMixed
    <2>14. now' \in Nat /\ artifacts' \in [Docs \X Contents -> Nat]
      BY <1>1 DEF DocumentInv, Types, TypeOK
    <2> QED  BY <1>1, <2>2, <2>5, <2>11, <2>12, <2>13, <2>14, MovesPreserve DEF Rows
  <1> HIDE DEF c, row
  <1> QED  BY <1>2, <1>3 DEF SaveClassification, c, row

-----------------------------------------------------------------------------
(* Steps of a synchronisation.                                               *)

(* A command that the step leaves where it is.                               *)
LEMMA ReaderKeeps ==
  ASSUME DocumentInv, TypeOK', NEW q \in Procs,
         \A i \in Sources : cur[i] <= cur'[i],
         readable \subseteq readable', together \subseteq together',
         disturbed'[q] => disturbed[q] \/ \E i \in Sources : cur[i] < cur'[i] /\ Watching(call[q], i)
  PROVE  Reader(cur', readable', together', call[q], disturbed'[q])
  <1> DEFINE top == cur
             high == cur'
             good == readable
             better == readable'
             past == together
             longer == together'
             d == disturbed[q]
             e == disturbed'[q]
             c == call[q]
  <1>1. top \in [Sources -> Nat]
    BY CurType DEF DocumentInv, Types
  <1>2. high \in [Sources -> Nat]
    <2>1. cur' = [i \in Sources |-> IF i = 0 THEN Len(refreshes') ELSE external'[i]]
      BY DEF cur, Newest
    <2>2. \A i \in Sources : i = 0 \/ i \in 1 .. Parts
      BY DocumentAssumption DEF Sources
    <2> QED  BY <2>1, <2>2 DEF TypeOK
  <1>3. /\ \A i \in Sources : top[i] <= high[i]
        /\ good \subseteq better /\ past \subseteq longer
        /\ c \in CallType /\ d \in BOOLEAN /\ e \in BOOLEAN
        /\ e => d \/ \E i \in Sources : top[i] < high[i] /\ Watching(c, i)
        /\ Reader(top, good, past, c, d)
    BY DEF DocumentInv, Types, TypeOK, Readers
  <1> HIDE DEF top, high, good, better, past, longer, d, e, c
  <1>4. Reader(high, better, longer, c, e)
    BY ONLY <1>1, <1>2, <1>3, ReaderGrows
  <1> QED  BY <1>4 DEF high, better, longer, e, c

(* A synchronisation that begins its refresh, or fills it.                   *)
LEMMA SyncKeepsReaders ==
  ASSUME DocumentInv, TypeOK', NEW p \in Procs, NEW c \in CallType,
         SetCall(p, c), c.pc \in {"done"} \union SyncPoints,
         readable \subseteq readable', external' = external, together \subseteq together',
         \/ Len(refreshes') = Len(refreshes) /\ disturbed' = disturbed
         \/ Len(refreshes') = Len(refreshes) + 1 /\ Disturb(0)
  PROVE  Readers'
  <1>1. /\ \A i \in Sources : cur[i] <= cur'[i]
        /\ Len(refreshes') = Len(refreshes) + 1 => 0 \in Sources /\ cur[0] < cur'[0]
    <2>1. Len(refreshes) \in Nat /\ \A i \in Sources \ {0} : external[i] \in Nat
      BY DocumentAssumption DEF DocumentInv, Types, TypeOK, Sources
    <2>2. cur' = [i \in Sources |-> IF i = 0 THEN Len(refreshes') ELSE external'[i]]
      BY DEF cur, Newest
    <2>3. cur = [i \in Sources |-> IF i = 0 THEN Len(refreshes) ELSE external[i]]
      BY DEF cur, Newest
    <2>4. 0 \in Sources
      BY DocumentAssumption DEF Sources
    <2> QED  BY <2>1, <2>2, <2>3, <2>4
  <1>2. /\ call \in [Procs -> CallType] /\ disturbed \in [Procs -> BOOLEAN]
        /\ disturbed' \in [Procs -> BOOLEAN]
    BY DEF DocumentInv, Types, TypeOK
  <1>3. ASSUME NEW q \in Procs PROVE Reader(cur', readable', together', call'[q], disturbed'[q])
    <2>1. CASE q = p
      <3>1. call'[q] = c /\ disturbed'[q] \in BOOLEAN
        BY <1>2, <2>1 DEF SetCall
      <3>2. c.pc \in {"idle", "done", "clock"} \union SyncPoints /\ c.pc # "clock"
        BY DEF SyncPoints
      <3> QED  BY <3>1, <3>2, Elsewhere
    <2>2. CASE q # p
      <3>1. call'[q] = call[q]
        BY <1>2, <2>2 DEF SetCall
      <3>2. disturbed'[q] =>
               disturbed[q] \/ \E i \in Sources : cur[i] < cur'[i] /\ Watching(call[q], i)
        <4>1. CASE disturbed' = disturbed
          BY <4>1
        <4>2. CASE Len(refreshes') = Len(refreshes) + 1 /\ Disturb(0)
          BY <1>1, <4>2 DEF Disturb
        <4> QED  BY <4>1, <4>2
      <3>3. Reader(cur', readable', together', call[q], disturbed'[q])
        BY <1>1, <3>2, ReaderKeeps
      <3> QED  BY <3>1, <3>3
    <2> QED  BY <2>1, <2>2
  <1> QED  BY <1>3 DEF Readers

(* A synchronisation that fills its own refresh.                             *)
LEMMA FillPreserves ==
  ASSUME DocumentInv, NEW p \in Procs, NEW c \in CallType, NEW row \in RefreshType,
         call[p].pc \in SyncPoints, SetCall(p, c), c.pc \in {"done"} \union SyncPoints,
         refreshes' = [refreshes EXCEPT ![call[p].refresh] = row],
         c.pc \in SyncPoints => c.refresh = call[p].refresh /\ Syncing(row, c),
         Accounted(row),
         UNCHANGED <<now, external, classifications, disturbed>>,
         artifacts' \in [Docs \X Contents -> Nat],
         (row.outcome \notin Readable /\ together' = together) \/ Remember
  PROVE  DocumentInv'
  <1> DEFINE r == call[p].refresh
  <1>1. r \in DOMAIN refreshes /\ refreshes[r].outcome = "none"
    BY DEF DocumentInv, Syncs, Syncing
  <1>2. refreshes \in Seq(RefreshType) /\ refreshes' \in Seq(RefreshType)
    BY <1>1 DEF DocumentInv, Types, TypeOK
  <1>3. /\ DOMAIN refreshes' = DOMAIN refreshes /\ Len(refreshes') = Len(refreshes)
        /\ refreshes'[r] = row
        /\ \A s \in DOMAIN refreshes : s # r => refreshes'[s] = refreshes[s]
    BY <1>1, <1>2
  <1>4. together \subseteq together'
    BY DEF Remember
  <1>5. readable \subseteq readable'
    BY <1>1, <1>3 DEF readable, Readable
  <1>6. Types'
    <2>1. call' \in [Procs -> CallType]
      BY DEF DocumentInv, Types, SetCall
    <2> QED  BY <1>2, <2>1 DEF DocumentInv, Types, TypeOK
  <1>7. \A q \in Procs : call'[q] = (IF q = p THEN c ELSE call[q])
    BY DEF DocumentInv, Types, SetCall
  <1>8. \A q \in Procs : q # p /\ call[q].pc \in SyncPoints => call[q].refresh # r
    BY DEF DocumentInv, OwnRefresh
  <1>9. Syncs'
    <2>1. ASSUME NEW q \in Procs, call'[q].pc \in SyncPoints
          PROVE  /\ call'[q].refresh \in DOMAIN refreshes'
                 /\ Syncing(refreshes'[call'[q].refresh], call'[q])
      <3>1. CASE q = p
        BY <1>1, <1>3, <1>7, <2>1, <3>1
      <3>2. CASE q # p
        BY <1>3, <1>7, <1>8, <2>1, <3>2 DEF DocumentInv, Syncs
      <3> QED  BY <3>1, <3>2
    <2> QED  BY <2>1 DEF Syncs
  <1>10. OwnRefresh'
    BY <1>7 DEF DocumentInv, OwnRefresh
  <1>11. Records'
    BY <1>3 DEF DocumentInv, Records
  <1>12. Remembered'
    <2>1. CASE row.outcome \notin Readable /\ together' = together
      <3>1. readable' \subseteq readable
        BY <1>3, <2>1 DEF readable
      <3> QED  BY <1>3, <2>1, <3>1 DEF DocumentInv, Remembered, Newest
    <2>2. CASE Remember
      <3>1. Newest' \in readable' => Len(refreshes') > 0 /\ refreshes'[Len(refreshes')].outcome \in Readable
        BY <1>2 DEF readable, Newest
      <3> QED  BY <2>2, <3>1 DEF Remember, Remembered, Newest
    <2> QED  BY <2>1, <2>2
  <1>13. EvidenceIsNeverMixed'
    BY <1>4 DEF DocumentInv, EvidenceIsNeverMixed
  <1>14. Readers'
    BY <1>3, <1>4, <1>5, <1>6, SyncKeepsReaders DEF Types
  <1> QED  BY <1>6, <1>9, <1>10, <1>11, <1>12, <1>13, <1>14 DEF DocumentInv

(* Of each periodic kind the selected report is attempted, and no other.     *)
LEMMA AttemptedOfKind ==
  ASSUME NEW found \in SUBSET Docs, NEW k \in PeriodicKinds
  PROVE  OfKind(Attempted(found), k) = Selected(Periodic(found), k)
  <1>1. OfKind(Periodic(found), k) = OfKind(found, k)
    BY DEF OfKind, Periodic
  <1>2. Selected(Periodic(found), k) = Selected(found, k)
    BY <1>1 DEF Selected
  <1>3. Selected(found, k) \subseteq OfKind(found, k)
    BY DEF Selected, NewestIn
  <1>4. OfKind(Attempted(found), k) = {d \in OfKind(found, k) : d \in Selected(found, k)}
    BY DEF OfKind, Attempted
  <1> QED  BY <1>2, <1>3, <1>4

(* The state of a synchronisation.                                           *)
LEMMA SyncFacts ==
  ASSUME DocumentInv, NEW p \in Procs, call[p].pc \in SyncPoints
  PROVE  /\ call[p] \in CallType /\ call[p].refresh \in DOMAIN refreshes
         /\ refreshes[call[p].refresh] \in RefreshType
         /\ Syncing(refreshes[call[p].refresh], call[p])
         /\ now \in Nat /\ artifacts \in [Docs \X Contents -> Nat]
  <1>1. call[p].refresh \in DOMAIN refreshes /\ refreshes \in Seq(RefreshType)
    BY DEF DocumentInv, Types, TypeOK, Syncs
  <1>2. refreshes[call[p].refresh] \in RefreshType
    BY <1>1
  <1> QED  BY <1>1, <1>2 DEF DocumentInv, Types, TypeOK, Syncs

(* The synchronisation ends with an outcome that accounts for its runs.      *)
LEMMA FinishPreserves ==
  ASSUME DocumentInv, NEW p \in Procs, call[p].pc \in SyncPoints,
         NEW outcome \in Outcomes, NEW answer \in Answers, Finish(p, outcome, answer),
         Accounted([refreshes[call[p].refresh] EXCEPT !.outcome = outcome])
  PROVE  DocumentInv'
  <1> DEFINE r == call[p].refresh
             row == [refreshes[r] EXCEPT !.outcome = outcome]
  <1>1. row \in RefreshType
    BY SyncFacts DEF RefreshType
  <1>2. refreshes' = [refreshes EXCEPT ![r] = row]
    BY DEF Finish
  <1>3. PICK c \in CallType : SetCall(p, c) /\ c.pc = "done"
    BY ReplyMoves DEF Finish
  <1>4. c.pc \in {"done"} \union SyncPoints /\ c.pc \notin SyncPoints
    BY <1>3 DEF SyncPoints
  <1>5. Accounted(row)
    OBVIOUS
  <1>6. /\ UNCHANGED <<now, external, classifications, disturbed>>
        /\ artifacts' \in [Docs \X Contents -> Nat] /\ Remember
    BY SyncFacts DEF Finish
  <1> HIDE DEF row
  <1> QED  BY <1>1, <1>2, <1>3, <1>4, <1>5, <1>6, FillPreserves

LEMMA DiscoveryFailsPreserves ==
  ASSUME DocumentInv, NEW p \in Procs, DiscoveryFails(p)
  PROVE  DocumentInv'
  <1> DEFINE row == [refreshes[call[p].refresh] EXCEPT !.outcome = "failed"]
  <1>1. call[p].pc = "discover" /\ call[p].pc \in SyncPoints
    BY DEF DiscoveryFails, SyncPoints
  <1>2. Ran(refreshes[call[p].refresh]) = {}
    BY <1>1, SyncFacts DEF Syncing
  <1>3. row.outcome = "failed" /\ row.runs = refreshes[call[p].refresh].runs
    BY <1>1, SyncFacts DEF RefreshType
  <1>4. Succeeded(row) = {}
    BY <1>2, <1>3 DEF Succeeded, Ran
  <1>5. Accounted(row)
    BY <1>3, <1>4 DEF Accounted, Readable
  <1> QED  BY <1>1, <1>5, FinishPreserves DEF DiscoveryFails, Outcomes, Answers

LEMMA CompletePreservesSync ==
  ASSUME DocumentInv, NEW p \in Procs, CompleteSync(p)
  PROVE  DocumentInv'
  <1> DEFINE old == refreshes[call[p].refresh]
             statuses == call[p].statuses
             row == [old EXCEPT !.outcome = OutcomeOf(statuses)]
  <1>1. call[p].pc = "candidate" /\ call[p].pc \in SyncPoints /\ call[p].todo = {}
    BY DEF CompleteSync, SyncPoints
  <1>2. /\ old \in RefreshType /\ old.selection = "published"
        /\ statuses = {old.runs[d] : d \in Ran(old)} /\ statuses \subseteq {"success", "failed"}
    <2>1. old \in RefreshType /\ call[p] \in CallType /\ Syncing(old, call[p])
      BY <1>1, SyncFacts
    <2>2. statuses \subseteq {"success", "failed"}
      BY <2>1 DEF CallType, Statuses
    <2> HIDE DEF old, statuses
    <2> QED  BY <1>1, <2>1, <2>2 DEF Syncing, statuses
  <1>3. PICK found \in SUBSET Docs :
           old.candidates = Periodic(found) /\ Ran(old) = Attempted(found)
    BY <1>1, SyncFacts DEF Syncing
  <1>4. OutcomeOf(statuses) \in Outcomes
    BY DEF OutcomeOf, Outcomes
  <1>5. /\ row.outcome = OutcomeOf(statuses) /\ row.selection = "published"
        /\ row.candidates = old.candidates /\ Ran(row) = Ran(old)
        /\ Succeeded(row) = Succeeded(old)
    BY <1>2, <1>4 DEF RefreshType, Ran, Succeeded
  <1>6. Succeeded(old) \subseteq Ran(old)
    BY DEF Ran, Succeeded
  <1>7. \A k \in PeriodicKinds : OfKind(Ran(row), k) = Selected(row.candidates, k)
    BY <1>3, <1>5, AttemptedOfKind
  <1>8. Accounted(row)
    <2> HIDE DEF row, old, statuses
    <2>1. CASE statuses = {}
      <3>1. Ran(old) = {} /\ row.outcome = "empty"
        BY <1>2, <1>5, <2>1 DEF OutcomeOf
      <3>2. Succeeded(row) = {} /\ Ran(row) = {}
        BY <1>5, <1>6, <3>1
      <3> QED  BY <3>1, <3>2 DEF Accounted, Readable
    <2>2. CASE statuses = {"success"}
      <3>1. Ran(old) # {} /\ Ran(old) = Succeeded(old) /\ row.outcome = "success"
        <4>1. statuses # {}
          BY <2>2
        <4>2. row.outcome = "success"
          BY <1>5, <2>2, <4>1 DEF OutcomeOf
        <4>3. Ran(old) # {}
          BY <1>2, <4>1
        <4>4. \A d \in Ran(old) : old.runs[d] = "success" /\ d \in Docs
          BY <1>2, <2>2 DEF Ran
        <4>5. Ran(old) = Succeeded(old)
          BY <1>6, <4>4 DEF Succeeded
        <4> QED  BY <4>2, <4>3, <4>5
      <3>2. Ran(row) # {} /\ Ran(row) = Succeeded(row) /\ row.outcome = "success"
        BY <1>5, <3>1
      <3> QED  BY <1>5, <1>7, <3>2 DEF Accounted, Readable
    <2>3. CASE statuses = {"failed"}
      <3>1. row.outcome = "failed"
        BY <1>5, <2>3 DEF OutcomeOf
      <3>2. Succeeded(old) = {}
        BY <1>2, <2>3 DEF Succeeded, Ran
      <3> QED  BY <1>5, <3>1, <3>2 DEF Accounted, Readable
    <2>4. CASE statuses \notin {{}, {"success"}, {"failed"}}
      <3>1. row.outcome = "partial"
        BY <1>5, <2>4 DEF OutcomeOf
      <3>2. "success" \in statuses /\ "failed" \in statuses
        BY <1>2, <2>4
      <3>3. Succeeded(old) # {} /\ Succeeded(old) # Ran(old)
        BY <1>2, <3>2 DEF Succeeded, Ran
      <3> QED  BY <1>5, <1>7, <3>1, <3>3 DEF Accounted, Readable
    <2> QED  BY <2>1, <2>2, <2>3, <2>4
  <1> QED  BY <1>1, <1>4, <1>8, FinishPreserves DEF CompleteSync, Answers

LEMMA PublishSelectionPreserves ==
  ASSUME DocumentInv, NEW p \in Procs, PublishSelection(p)
  PROVE  DocumentInv'
  <1>1. call[p].pc = "discover" /\ call[p].pc \in SyncPoints
        /\ UNCHANGED <<now, artifacts, external, classifications, together, disturbed>>
    BY DEF PublishSelection, SyncPoints
  <1>2. PICK found \in SUBSET Docs :
           /\ refreshes' = [refreshes EXCEPT ![call[p].refresh].candidates = Periodic(found),
                                             ![call[p].refresh].selection = "published"]
           /\ SetCall(p, [call[p] EXCEPT !.pc = "candidate", !.todo = Attempted(found)])
    BY DocumentAssumption DEF PublishSelection
  <1> DEFINE r == call[p].refresh
             old == refreshes[r]
             row == [old EXCEPT !.candidates = Periodic(found), !.selection = "published"]
             c == [call[p] EXCEPT !.pc = "candidate", !.todo = Attempted(found)]
  <1>3. r \in DOMAIN refreshes /\ old \in RefreshType /\ call[p] \in CallType
        /\ old.outcome = "none" /\ Ran(old) = {} /\ call[p].statuses = {}
    BY <1>1, SyncFacts DEF Syncing
  <1>4. Periodic(found) \subseteq Docs /\ Attempted(found) \subseteq Docs
    BY DEF Periodic, Attempted
  <1>5. /\ row \in RefreshType /\ row.outcome = "none" /\ row.selection = "published"
        /\ row.candidates = Periodic(found) /\ row.runs = old.runs
    BY <1>3, <1>4 DEF RefreshType
  <1>6. /\ c \in CallType /\ c.pc = "candidate" /\ c.todo = Attempted(found) /\ c.statuses = {}
        /\ c.refresh = r
    BY <1>3, <1>4 DEF CallType, Points, SyncPoints
  <1>7. refreshes' = [refreshes EXCEPT ![r] = row]
    <2>1. refreshes \in Seq(RefreshType)
      BY DEF DocumentInv, Types, TypeOK
    <2> QED  BY <1>2, <1>3, <2>1
  <1>8. SetCall(p, c)
    BY <1>2
  <1> HIDE DEF row, c
  <1>9. Ran(row) = {}
    BY <1>3, <1>5 DEF Ran
  <1>10. Syncing(row, c)
    <2>1. c.statuses = {row.runs[d] : d \in Ran(row)} /\ c.todo \intersect Ran(row) = {}
      BY <1>6, <1>9
    <2>2. Ran(row) \union c.todo = Attempted(found)
      BY <1>6, <1>9
    <2> QED  BY <1>5, <1>6, <2>1, <2>2 DEF Syncing
  <1>11. Accounted(row)
    BY <1>5 DEF Accounted, Readable
  <1>12. c.pc \in SyncPoints /\ row.outcome \notin Readable
         /\ artifacts' \in [Docs \X Contents -> Nat]
    BY <1>1, <1>5, <1>6, SyncFacts DEF SyncPoints, Readable
  <1> QED  BY <1>1, <1>5, <1>6, <1>7, <1>8, <1>10, <1>11, <1>12, FillPreserves

LEMMA RecordPreserves ==
  ASSUME DocumentInv, NEW p \in Procs, NEW d \in Attempts(p), NEW outcome \in Statuses,
         RecordCandidate(p, d, outcome), artifacts' \in [Docs \X Contents -> Nat]
  PROVE  DocumentInv'
  <1> DEFINE r == call[p].refresh
             old == refreshes[r]
             row == [old EXCEPT !.runs = [old.runs EXCEPT ![d] = outcome]]
             c == [call[p] EXCEPT !.todo = @ \ {d}, !.statuses = @ \union {outcome}]
  <1>1. call[p].pc = "candidate" /\ call[p].pc \in SyncPoints
    BY DEF Attempts, SyncPoints
  <1>2. /\ r \in DOMAIN refreshes /\ old \in RefreshType /\ call[p] \in CallType
        /\ old.outcome = "none" /\ old.selection = "published"
        /\ call[p].todo \intersect Ran(old) = {}
        /\ call[p].statuses = {old.runs[e] : e \in Ran(old)}
    BY <1>1, SyncFacts DEF Syncing
  <1>3. PICK found \in SUBSET Docs :
           old.candidates = Periodic(found) /\ Ran(old) \union call[p].todo = Attempted(found)
    BY <1>1, SyncFacts DEF Syncing
  <1>4. d \in call[p].todo /\ d \in Docs
    BY <1>1, <1>2 DEF Attempts, CallType
  <1>5. /\ old.runs \in [Docs -> {"none", "success", "failed"}]
        /\ [old.runs EXCEPT ![d] = outcome] \in [Docs -> {"none", "success", "failed"}]
    BY <1>2, <1>4 DEF RefreshType, Statuses
  <1>6. /\ row \in RefreshType /\ row.outcome = "none" /\ row.selection = "published"
        /\ row.candidates = old.candidates /\ row.runs = [old.runs EXCEPT ![d] = outcome]
    <2> DEFINE runs == [old.runs EXCEPT ![d] = outcome]
    <2>1. runs \in [Docs -> {"none", "success", "failed"}]
      BY <1>5
    <2> HIDE DEF runs
    <2>2. [old EXCEPT !.runs = runs] \in RefreshType
      BY <1>2, <2>1 DEF RefreshType
    <2>3. LET w == [old EXCEPT !.runs = runs]
          IN /\ w.outcome = old.outcome /\ w.selection = old.selection
             /\ w.candidates = old.candidates /\ w.runs = runs
      BY <1>2 DEF RefreshType
    <2> QED  BY <1>2, <2>2, <2>3 DEF runs
  <1>7. /\ c \in CallType /\ c.pc = "candidate" /\ c.refresh = r
        /\ c.todo = call[p].todo \ {d} /\ c.statuses = call[p].statuses \union {outcome}
    BY <1>1, <1>2 DEF CallType, Statuses
  <1>8. refreshes' = [refreshes EXCEPT ![r] = row]
    BY DEF RecordCandidate
  <1>9. SetCall(p, c)
    BY DEF RecordCandidate
  <1> HIDE DEF row, c
  <1>10. Ran(row) = Ran(old) \union {d}
    BY <1>4, <1>5, <1>6 DEF Ran, Statuses
  <1>11. {row.runs[e] : e \in Ran(row)} = {old.runs[e] : e \in Ran(old)} \union {outcome}
    <2>1. \A e \in Ran(old) : row.runs[e] = old.runs[e]
      BY <1>2, <1>4, <1>5, <1>6 DEF Ran
    <2>2. row.runs[d] = outcome
      BY <1>4, <1>5, <1>6
    <2> QED  BY <1>10, <2>1, <2>2
  <1>12. Syncing(row, c)
    <2>1. c.todo \intersect Ran(row) = {} /\ Ran(row) \union c.todo = Attempted(found)
      BY <1>2, <1>3, <1>4, <1>7, <1>10
    <2>2. c.statuses = {row.runs[e] : e \in Ran(row)}
      BY <1>2, <1>7, <1>11
    <2> QED  BY <1>3, <1>6, <1>7, <2>1, <2>2 DEF Syncing
  <1>13. Accounted(row)
    BY <1>6 DEF Accounted, Readable
  <1>14. c.pc \in {"done"} \union SyncPoints /\ row.outcome \notin Readable
    BY <1>6, <1>7 DEF SyncPoints, Readable
  <1>15. UNCHANGED <<now, external, classifications, disturbed>> /\ together' = together
    BY DEF RecordCandidate
  <1> QED  BY <1>1, <1>6, <1>7, <1>8, <1>9, <1>12, <1>13, <1>14, <1>15, FillPreserves

LEMMA BeginSyncPreserves ==
  ASSUME DocumentInv, NEW p \in Procs, BeginSync(p)
  PROVE  DocumentInv'
  <1> DEFINE n == Newest + 1
             c == [Idle EXCEPT !.command = "sync", !.pc = "discover", !.refresh = n]
  <1>1. refreshes \in Seq(RefreshType) /\ Newest \in Nat /\ Newest = Len(refreshes)
    BY DEF DocumentInv, Types, TypeOK, Newest
  <1>2. /\ NewRefresh \in RefreshType /\ NewRefresh.outcome = "none" /\ Ran(NewRefresh) = {}
    BY DEF NewRefresh, RefreshType, Ran, Outcomes
  <1>3. /\ c \in CallType /\ c.pc = "discover" /\ c.refresh = n /\ c.statuses = {}
    <2>1. n \in Nat /\ "discover" \in Points
      BY <1>1 DEF Points, SyncPoints
    <2> HIDE DEF n
    <2> QED  BY <2>1, IdleFields DEF CallType
  <1>4. SetCall(p, c) /\ refreshes' = Append(refreshes, NewRefresh) /\ Disturb(0)
        /\ UNCHANGED <<now, artifacts, external, classifications, together>>
    BY DEF BeginSync
  <1> HIDE DEF c
  <1>5. /\ refreshes' \in Seq(RefreshType) /\ Len(refreshes') = n
        /\ DOMAIN refreshes' = DOMAIN refreshes \union {n} /\ n \notin DOMAIN refreshes
        /\ refreshes'[n] = NewRefresh
        /\ \A r \in DOMAIN refreshes : refreshes'[r] = refreshes[r]
    BY <1>1, <1>2, <1>4
  <1>6. readable' = readable
    BY <1>2, <1>5 DEF readable, Readable
  <1>7. \A q \in Procs : call'[q] = (IF q = p THEN c ELSE call[q])
    BY <1>4 DEF DocumentInv, Types, SetCall
  <1>8. Types'
    <2>1. call' \in [Procs -> CallType]
      BY <1>3, <1>4 DEF DocumentInv, Types, SetCall
    <2>2. disturbed' \in [Procs -> BOOLEAN]
      BY <1>4 DEF Disturb, Watching
    <2> QED  BY <1>4, <1>5, <2>1, <2>2 DEF DocumentInv, Types, TypeOK
  <1>9. Syncs'
    <2>1. Syncing(NewRefresh, c)
      BY <1>2, <1>3 DEF Syncing
    <2>2. ASSUME NEW q \in Procs, call'[q].pc \in SyncPoints
          PROVE  /\ call'[q].refresh \in DOMAIN refreshes'
                 /\ Syncing(refreshes'[call'[q].refresh], call'[q])
      <3>1. CASE q = p
        BY <1>3, <1>5, <1>7, <2>1, <3>1
      <3>2. CASE q # p
        BY <1>5, <1>7, <2>2, <3>2 DEF DocumentInv, Syncs
      <3> QED  BY <3>1, <3>2
    <2> QED  BY <2>2 DEF Syncs
  <1>10. OwnRefresh'
    <2>1. \A q \in Procs : call[q].pc \in SyncPoints => call[q].refresh # n
      BY <1>5 DEF DocumentInv, Syncs
    <2> QED  BY <1>3, <1>7, <2>1 DEF DocumentInv, OwnRefresh
  <1>11. Records'
    <2>1. Accounted(NewRefresh)
      BY <1>2 DEF Accounted, Readable
    <2> QED  BY <1>5, <2>1 DEF DocumentInv, Records
  <1>12. Remembered'
    <2>1. Newest' = n /\ n \notin readable
      BY <1>5 DEF Newest, readable
    <2> QED  BY <1>6, <2>1 DEF Remembered
  <1>13. EvidenceIsNeverMixed'
    BY <1>4 DEF DocumentInv, EvidenceIsNeverMixed
  <1>14. Readers'
    <2>1. c.pc \in {"done"} \union SyncPoints /\ Len(refreshes') = Len(refreshes) + 1
      BY <1>1, <1>3, <1>5 DEF SyncPoints
    <2> QED  BY <1>3, <1>4, <1>6, <1>8, <2>1, SyncKeepsReaders DEF Types
  <1> QED  BY <1>8, <1>9, <1>10, <1>11, <1>12, <1>13, <1>14 DEF DocumentInv

LEMMA SyncPreserves ==
  ASSUME DocumentInv, NEW p \in Procs, Sync(p)
  PROVE  DocumentInv'
  <1>1. CASE CandidateUnavailable(p)
    <2>1. PICK d \in Attempts(p) : RecordCandidate(p, d, "failed")
      BY <1>1 DEF CandidateUnavailable
    <2>2. artifacts' \in [Docs \X Contents -> Nat]
      BY <1>1 DEF CandidateUnavailable, DocumentInv, Types, TypeOK
    <2> QED  BY <2>1, <2>2, RecordPreserves DEF Statuses
  <1>2. CASE CandidateRetrieved(p)
    <2>1. PICK d \in Attempts(p), content \in Contents, outcome \in Statuses :
             RecordCandidate(p, d, outcome) /\ artifacts' = [artifacts EXCEPT ![<<d, content>>] = now]
      BY <1>2 DEF CandidateRetrieved, Statuses
    <2>2. artifacts' \in [Docs \X Contents -> Nat]
      BY <2>1 DEF DocumentInv, Types, TypeOK
    <2> QED  BY <2>1, <2>2, RecordPreserves
  <1> QED
    BY <1>1, <1>2, BeginSyncPreserves, DiscoveryFailsPreserves, PublishSelectionPreserves,
       CompletePreservesSync, EndPreserves DEF Sync

-----------------------------------------------------------------------------
(* The world around the commands.                                            *)

LEMMA ExternalPreserves ==
  ASSUME DocumentInv, ExternalChange
  PROVE  DocumentInv'
  <1>1. PICK i \in 1 .. Parts : external' = [external EXCEPT ![i] = @ + 1] /\ Disturb(i)
    BY DEF ExternalChange
  <1>2. UNCHANGED <<now, refreshes, artifacts, classifications, call>> /\ Remember
    BY DEF ExternalChange
  <1>3. external \in [1 .. Parts -> Nat] /\ external' \in [1 .. Parts -> Nat]
    <2>1. external \in [1 .. Parts -> Nat]
      BY DEF DocumentInv, Types, TypeOK
    <2>2. external[i] + 1 \in Nat
      BY <2>1
    <2> QED  BY <1>1, <2>1, <2>2
  <1>4. disturbed' \in [Procs -> BOOLEAN]
    BY <1>1 DEF Disturb, Watching
  <1>5. Types'
    BY <1>2, <1>3, <1>4 DEF DocumentInv, Types, TypeOK
  <1>6. Syncs' /\ OwnRefresh' /\ Records'
    BY <1>2 DEF DocumentInv, Syncs, OwnRefresh, Records
  <1>7. together \subseteq together' /\ readable' = readable
    BY <1>2 DEF Remember, readable
  <1>8. Remembered'
    <2>1. Newest' \in readable' => Len(refreshes') > 0 /\ refreshes'[Len(refreshes')].outcome \in Readable
      <3>1. Len(refreshes') \in Nat
        BY <1>5 DEF Types, TypeOK
      <3> QED  BY <3>1 DEF readable, Newest
    <2> QED  BY <1>2, <2>1 DEF Remember, Remembered, Newest
  <1>9. EvidenceIsNeverMixed'
    BY <1>2, <1>7 DEF DocumentInv, EvidenceIsNeverMixed
  <1>10. /\ \A j \in Sources : cur[j] <= cur'[j]
         /\ i \in Sources /\ cur[i] < cur'[i]
    <2>1. cur = [j \in Sources |-> IF j = 0 THEN Newest ELSE external[j]]
      BY DEF cur
    <2>2. cur' = [j \in Sources |-> IF j = 0 THEN Newest ELSE external'[j]]
      BY <1>2 DEF cur, Newest
    <2>3. /\ \A j \in Sources : j = 0 \/ j \in 1 .. Parts
          /\ i \in Sources /\ i # 0
      BY DocumentAssumption DEF Sources
    <2>4. Newest \in Nat
      BY DEF DocumentInv, Types, TypeOK, Newest
    <2> QED  BY <1>1, <1>3, <2>1, <2>2, <2>3, <2>4
  <1>11. Readers'
    <2>1. ASSUME NEW q \in Procs PROVE Reader(cur', readable', together', call'[q], disturbed'[q])
      <3>1. disturbed'[q] => disturbed[q] \/ \E j \in Sources : cur[j] < cur'[j] /\ Watching(call[q], j)
        BY <1>1, <1>10 DEF Disturb
      <3>2. Reader(cur', readable', together', call[q], disturbed'[q])
        BY <1>5, <1>7, <1>10, <3>1, ReaderKeeps DEF Types
      <3> QED  BY <1>2, <3>2
    <2> QED  BY <2>1 DEF Readers
  <1> QED  BY <1>5, <1>6, <1>8, <1>9, <1>11 DEF DocumentInv

LEMMA QuietStepPreserves ==
  ASSUME DocumentInv, now' \in Nat, UNCHANGED <<tables, call, together, disturbed>>
  PROVE  DocumentInv'
  <1>1. UNCHANGED <<refreshes, artifacts, external, classifications, call, together, disturbed>>
    BY DEF tables
  <1>2. Types' /\ Syncs' /\ OwnRefresh' /\ Records' /\ EvidenceIsNeverMixed'
    BY <1>1 DEF DocumentInv, Types, TypeOK, Syncs, OwnRefresh, Records, EvidenceIsNeverMixed
  <1>3. cur' = cur /\ readable' = readable
    BY <1>1 DEF cur, readable, Newest
  <1>4. Remembered' /\ Readers'
    BY <1>1, <1>3 DEF DocumentInv, Remembered, Readers, Newest
  <1> QED  BY <1>2, <1>4 DEF DocumentInv

(* Every step of a command, of the sources and of the clock keeps the        *)
(* invariant.                                                                *)
THEOREM StepDocuments == DocumentInv /\ [Next]_vars => DocumentInv'
  <1> SUFFICES ASSUME DocumentInv, [Next]_vars PROVE DocumentInv'
    OBVIOUS
  <1>1. now \in Nat
    BY DEF DocumentInv, Types, TypeOK
  <1>2. CASE UNCHANGED vars
    BY <1>1, <1>2, QuietStepPreserves DEF vars
  <1>3. CASE Tick
    BY <1>1, <1>3, QuietStepPreserves DEF Tick
  <1>4. CASE ExternalChange
    BY <1>4, ExternalPreserves
  <1>5. ASSUME NEW p \in Procs, Sync(p) PROVE DocumentInv'
    BY <1>5, SyncPreserves
  <1>6. ASSUME NEW p \in Procs, Classify(p) PROVE DocumentInv'
    BY <1>6, BeginReaderPreserves, SnapshotPreserves, ReadPartPreserves, SavePreserves,
       EndPreserves DEF Classify
  <1>7. ASSUME NEW p \in Procs, Return(p) \/ Stop(p) PROVE DocumentInv'
    BY <1>7, EndPreserves
  <1> QED  BY <1>2, <1>3, <1>4, <1>5, <1>6, <1>7 DEF Next

-----------------------------------------------------------------------------
(* What a step makes of the call it belongs to.                              *)

LEMMA OwnCall ==
  ASSUME NEW q, Sync(q) \/ Classify(q) \/ Return(q) \/ Stop(q)
  PROVE  \E c : call' = [call EXCEPT ![q] = c]
  <1>1. CASE \E c : SetCall(q, c)
    BY <1>1 DEF SetCall
  <1>2. CASE Sync(q)
    BY <1>1, <1>2
    DEF Sync, BeginSync, DiscoveryFails, PublishSelection, CandidateUnavailable,
        CandidateRetrieved, ArtifactConflict, CompleteSync, Finish, RecordCandidate, Reply
  <1>3. CASE Classify(q)
    BY <1>1, <1>3
    DEF Classify, BeginClassify, BeginQuery, QueryClock, Snapshot, ReadPart, SaveClassification,
        QueryLatest, Reply
  <1> QED  BY <1>1, <1>2, <1>3 DEF Return, Stop

LEMMA SetIs ==
  ASSUME DocumentInv, NEW p \in Procs, NEW c, SetCall(p, c)
  PROVE  call'[p] = c
  BY DEF DocumentInv, Types, SetCall

LEMMA ReplyIs ==
  ASSUME DocumentInv, NEW p \in Procs, NEW outcome, Reply(p, outcome)
  PROVE  call'[p].outcome = outcome
  <1> DEFINE c == [Idle EXCEPT !.pc = "done", !.outcome = outcome]
  <1>1. c.outcome = outcome
    BY IdleFields DEF CallType
  <1>2. call'[p] = c
    BY SetIs DEF Reply
  <1> QED  BY <1>1, <1>2

FreshAnswer(p) == call'[p].pc = "done" /\ call'[p].outcome = "fresh"

(* No step of a synchronisation is an answer of classify.                    *)
LEMMA NoFreshSync ==
  ASSUME DocumentInv, NEW p \in Procs, Sync(p)
  PROVE  ~FreshAnswer(p)
  <1>1. CASE \E outcome \in {"failed", "storage failed", "synced"} : Reply(p, outcome)
    BY <1>1, ReplyIs DEF FreshAnswer
  <1>2. CASE DiscoveryFails(p) \/ ArtifactConflict(p) \/ CompleteSync(p)
    BY <1>1, <1>2 DEF DiscoveryFails, ArtifactConflict, CompleteSync, Finish
  <1>3. CASE BeginSync(p)
    <2> DEFINE c == [Idle EXCEPT !.command = "sync", !.pc = "discover", !.refresh = Newest + 1]
    <2>1. c.pc = "discover"
      BY IdleFields DEF CallType
    <2>2. call'[p] = c
      BY <1>3, SetIs DEF BeginSync
    <2> QED  BY <2>1, <2>2 DEF FreshAnswer
  <1>4. CASE PublishSelection(p)
    <2>1. PICK found : SetCall(p, [call[p] EXCEPT !.pc = "candidate", !.todo = Attempted(found)])
      BY <1>4 DEF PublishSelection
    <2>2. call'[p].pc = "candidate"
      BY <2>1, SetIs DEF DocumentInv, Types, CallType
    <2> QED  BY <2>2 DEF FreshAnswer
  <1>5. ASSUME NEW d \in Attempts(p), NEW outcome, RecordCandidate(p, d, outcome)
        PROVE  ~FreshAnswer(p)
    <2>1. call[p].pc = "candidate" /\ call[p] \in CallType
      BY DEF Attempts, DocumentInv, Types
    <2>2. call'[p] = [call[p] EXCEPT !.todo = @ \ {d}, !.statuses = @ \union {outcome}]
      BY <1>5, SetIs DEF RecordCandidate
    <2>3. call'[p].pc = "candidate"
      BY <2>1, <2>2 DEF CallType
    <2> QED  BY <2>3 DEF FreshAnswer
  <1> QED  BY <1>2, <1>3, <1>4, <1>5 DEF Sync, CandidateUnavailable, CandidateRetrieved

(* A command whose evidence was disturbed does not answer that it is fresh.  *)
LEMMA FreshIsUndisturbed ==
  ASSUME DocumentInv, NEW p \in Procs, Classify(p), FreshAnswer(p), call[p].pc # "done"
  PROVE  ~disturbed[p]
  <1>0. /\ call[p] \in CallType /\ Reader(cur, readable, together, call[p], disturbed[p])
        /\ Idle.pc = "idle"
    BY IdleFields DEF DocumentInv, Types, Readers
  <1>1. ASSUME NEW outcome \in {"missing", "unavailable", "storage failed", "changed"},
               Reply(p, outcome)
        PROVE  FALSE
    BY <1>1, ReplyIs DEF FreshAnswer
  <1>2. ASSUME NEW c, c.pc # "done", SetCall(p, c) PROVE FALSE
    BY <1>2, SetIs DEF FreshAnswer
  <1>3. CASE BeginClassify(p)
    <2> DEFINE c == [Idle EXCEPT !.command = "classify", !.pc = "initial", !.at = now]
    <2>1. c.pc = "initial"
      BY IdleFields DEF CallType
    <2> QED  BY <1>2, <1>3, <2>1 DEF BeginClassify
  <1>4. CASE BeginQuery(p)
    <2>1. ASSUME NEW i, SetCall(p, [Idle EXCEPT !.command = "query", !.pc = "clock",
                                                !.token = classifications[i].token])
          PROVE  FALSE
      <3> DEFINE c == [Idle EXCEPT !.command = "query", !.pc = "clock",
                                   !.token = classifications[i].token]
      <3>1. c.pc = "clock"
        BY IdleFields DEF CallType
      <3> QED  BY <1>2, <2>1, <3>1
    <2> QED  BY <1>1, <1>4, <2>1 DEF BeginQuery
  <1>5. CASE QueryClock(p)
    <2>1. [call[p] EXCEPT !.pc = "current", !.at = now].pc = "current"
      BY <1>0 DEF CallType
    <2> QED  BY <1>2, <1>5, <2>1 DEF QueryClock
  <1>6. CASE Snapshot(p)
    <2>1. [call[p] EXCEPT !.newest = Newest].pc = call[p].pc
      BY <1>0 DEF CallType
    <2> QED  BY <1>1, <1>2, <1>6, <2>1 DEF Snapshot
  <1>7. CASE SaveClassification(p)
    <2>1. [call[p] EXCEPT !.pc = "after_commit"].pc = "after_commit"
      BY <1>0 DEF CallType
    <2> QED  BY <1>1, <1>2, <1>7, <2>1 DEF SaveClassification
  <1>8. CASE QueryLatest(p)
    BY <1>0, <1>8 DEF QueryLatest, Reader, Behind, FirstRounds
  <1>9. CASE ReadPart(p)
    <2> DEFINE token == TokenRead(call[p], More(p))
               onward == [call[p] EXCEPT !.pc = After[call[p].pc], !.newest = 0, !.parts = <<>>,
                                         !.token = token]
    <2>1. Reading(p)
      BY <1>9 DEF ReadPart, Reading
    <2>2. [call[p] EXCEPT !.parts = More(p)].pc # "done"
      BY <1>0, <2>1, PointsApart DEF CallType, Reading
    <2>3. After[call[p].pc] # "done"
      BY <2>1 DEF After, Reading, Rounds
    <2>4. onward.pc # "done"
      BY <1>0, <2>3 DEF CallType
    <2>5. token.refresh = call[p].newest /\ token.parts = More(p)
      BY DEF TokenRead
    <2> HIDE DEF token, onward
    <2>6. ~(Len(More(p)) < Parts) /\ TokenAgrees(call[p], token) /\ After[call[p].pc] = "fresh"
      <3>1. ~(Len(More(p)) < Parts)
        BY <1>2, <1>9, <2>2 DEF ReadPart, More
      <3> QED  BY <1>1, <1>2, <1>9, <2>4, <3>1 DEF ReadPart, More, token, onward
    <2>7. call[p].pc = "before_return"
      BY <2>1, <2>6 DEF After, Reading, Rounds
    <2>8. Len(More(p)) = Parts
      BY <2>1, <2>6, ReadingFacts, DocumentAssumption
    <2>9. ~Doomed(cur, call[p])
      BY <2>1, <2>5, <2>6, <2>7, <2>8, CompleteAgrees DEF TokenAgrees
    <2> QED  BY <1>0, <2>7, <2>9 DEF Reader, Behind, FirstRounds, LastRounds
  <1> QED  BY <1>3, <1>4, <1>5, <1>6, <1>7, <1>8, <1>9 DEF Classify

-----------------------------------------------------------------------------
(* The results.                                                              *)

(* The types, what each command carries and what is remembered, in every     *)
(* state.                                                                    *)
THEOREM DocumentInvariance == Spec => []DocumentInv
  BY InitDocuments, StepDocuments, PTL DEF Spec

(* Whatever synchronisations and other commands commit between two reads of  *)
(* classify, a classification that is stored rests on evidence that was      *)
(* current at one instant.                                                   *)
THEOREM EvidenceIsNeverMixedTheorem == Spec => []EvidenceIsNeverMixed
  <1>1. DocumentInv => EvidenceIsNeverMixed
    BY DEF DocumentInv
  <1> QED  BY <1>1, DocumentInvariance, PTL

(* The outcome of a synchronisation agrees with the runs it stored, however  *)
(* its candidates fail and whatever else commits.                            *)
THEOREM OutcomeAccountsTheorem == Spec => []OutcomeAccountsForRuns
  <1>1. DocumentInv => OutcomeAccountsForRuns
    <2> SUFFICES ASSUME DocumentInv, NEW r \in DOMAIN refreshes
                 PROVE  /\ refreshes[r].outcome = "success" => RunsOf(r) = Successes(r) /\ RunsOf(r) # {}
                        /\ refreshes[r].outcome = "partial" => Successes(r) \notin {{}, RunsOf(r)}
                        /\ refreshes[r].outcome \in {"failed", "empty"} => Successes(r) = {}
                        /\ refreshes[r].outcome = "empty" => RunsOf(r) = {}
      BY DEF OutcomeAccountsForRuns
    <2>1. Accounted(refreshes[r]) /\ RunsOf(r) = Ran(refreshes[r])
          /\ Successes(r) = Succeeded(refreshes[r])
      BY DEF DocumentInv, Records, RunsOf, Successes, Ran, Succeeded
    <2> QED  BY <2>1 DEF Accounted
  <1> QED  BY <1>1, DocumentInvariance, PTL

(* A refresh that ends with documents passes the authentication of its       *)
(* selection.                                                                *)
THEOREM CompletedIsReadableTheorem == Spec => []CompletedIsReadable
  <1>1. DocumentInv => CompletedIsReadable
    <2> SUFFICES ASSUME DocumentInv, NEW r \in DOMAIN refreshes, refreshes[r].outcome \in Readable
                 PROVE  SelectionAuthentic(r)
      BY DEF CompletedIsReadable
    <2>1. Accounted(refreshes[r]) /\ RunsOf(r) = Ran(refreshes[r])
      BY DEF DocumentInv, Records, RunsOf, Ran
    <2> QED  BY <2>1 DEF Accounted, SelectionAuthentic
  <1> QED  BY <1>1, DocumentInvariance, PTL

(* What classify and risk-classification-query answer as current was not     *)
(* changed between their first and their last look at any source.            *)
THEOREM AnswersAreUndisturbedTheorem == Spec => AnswersAreUndisturbed
  <1> DEFINE Fresh == \A p \in Procs :
        (call[p].pc # "done" /\ call'[p].pc = "done" /\ call'[p].outcome = "fresh")
            => ~disturbed[p]
  <1>1. DocumentInv /\ [Next]_vars => [Fresh]_vars
    <2> SUFFICES ASSUME DocumentInv, Next, NEW p \in Procs,
                        call[p].pc # "done", FreshAnswer(p)
                 PROVE  ~disturbed[p]
      BY DEF FreshAnswer
    <2>1. call \in [Procs -> CallType]
      BY DEF DocumentInv, Types
    <2>2. call' # call
      BY DEF FreshAnswer
    <2>3. PICK q \in Procs : Sync(q) \/ Classify(q) \/ Return(q) \/ Stop(q)
      BY <2>2 DEF Next, Tick, ExternalChange
    <2>4. q = p
      <3>1. PICK c : call' = [call EXCEPT ![q] = c]
        BY <2>3, OwnCall
      <3> QED  BY <2>1, <3>1 DEF FreshAnswer
    <2>5. CASE Return(p) \/ Stop(p)
      <3>1. call'[p] = Idle
        BY <2>5, SetIs DEF Return, Stop
      <3> QED  BY <3>1, IdleFields DEF FreshAnswer
    <2> QED  BY <2>3, <2>4, <2>5, NoFreshSync, FreshIsUndisturbed
  <1> QED  BY <1>1, DocumentInvariance, PTL DEF Spec, AnswersAreUndisturbed

=============================================================================
