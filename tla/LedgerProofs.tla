---------------------------- MODULE LedgerProofs ----------------------------
(* Theorems of Ledger, for any number of commands, drafts and values.        *)
EXTENDS Ledger, FiniteSetTheorems, TLAPS

-----------------------------------------------------------------------------
(* The inductive invariant.  What a command carries depends on where it is.  *)

(* A command on the image has the path of a copy, one on a draft has the     *)
(* draft, what to confirm and, once read again, the row to book.             *)
Carries ==
    \A p \in Procs :
        /\ proc[p].pc \in ImagePoints => proc[p].path \in Suffixes
        /\ proc[p].pc \in DraftPoints <=> proc[p].draft # NoDraft
        /\ proc[p].pc \in DraftPoints =>
              proc[p].value \in Values /\ drafts[proc[p].draft].status # "none"
        /\ proc[p].pc = "book" => proc[p].row \in Values

ActiveHasPath == document.status = "active" => document.path \in Suffixes

(* Two commands on one draft are known to contend. *)
Contention ==
    \A p, q \in Procs :
        p # q /\ proc[p].draft = proc[q].draft /\ proc[p].draft # NoDraft =>
            proc[p].draft \in contended

(* Nobody else on the draft: the row keeps what this command wrote.          *)
Undisturbed ==
    \A p \in Procs :
        proc[p].draft \notin contended =>
            /\ proc[p].pc \in {"reread", "book"} =>
                  drafts[proc[p].draft].value = proc[p].value
            /\ proc[p].pc = "book" => proc[p].row = proc[p].value

LedgerInv ==
    /\ TypeOK /\ Carries /\ ActiveHasPath
    /\ OneTransactionPerDraft /\ Contention /\ Undisturbed

-----------------------------------------------------------------------------
(* A process at rest. *)

LEMMA IdleFields ==
    /\ Idle \in ProcType
    /\ Idle.pc = "idle" /\ Idle.draft = NoDraft
  BY DEF Idle, ProcType

LEMMA Points == ImagePoints \intersect DraftPoints = {} /\ "idle" \notin ImagePoints \union DraftPoints
  BY DEF ImagePoints, DraftPoints

THEOREM InitLedger == Init => LedgerInv
  <1> SUFFICES ASSUME Init PROVE LedgerInv
    OBVIOUS
  <1>1. TypeOK
    <2>1. proc \in [Procs -> ProcType]
      BY IdleFields DEF Init
    <2>2. booked \in [Drafts -> Seq(Values)]
      BY DEF Init
    <2>3. commands \in [Procs -> 0..MaxCommands]
      BY LedgerAssumption DEF Init
    <2> QED  BY <2>1, <2>2, <2>3 DEF Init, TypeOK
  <1>2. Carries
    BY IdleFields, Points DEF Init, Carries
  <1>3. ActiveHasPath /\ OneTransactionPerDraft
    BY DEF Init, ActiveHasPath, OneTransactionPerDraft
  <1>4. Contention /\ Undisturbed
    BY IdleFields DEF Init, Contention, Undisturbed
  <1> QED  BY <1>1, <1>2, <1>3, <1>4 DEF LedgerInv

-----------------------------------------------------------------------------
(* What the steps of a command on the image have in common: they move their  *)
(* own process and, the commit of an import apart, leave the drafts alone.   *)

Moves(p, record) ==
    /\ record \in ProcType
    /\ record.pc \in ImagePoints \/ record.pc = "idle"
    /\ record.pc \in ImagePoints => record.path \in Suffixes
    /\ record.draft = NoDraft
    /\ proc' = [proc EXCEPT ![p] = record]

LEMMA IdleMove ==
  ASSUME NEW p, End(p)
  PROVE  \E record : Moves(p, record)
  BY IdleFields, Points DEF End, Moves

LEMMA GotoMove ==
  ASSUME LedgerInv, NEW p \in Procs, OnImage(p),
         NEW point \in ImagePoints, Goto(p, point)
  PROVE  \E record : Moves(p, record)
  <1> DEFINE record == [proc[p] EXCEPT !.pc = point]
  <1>1. proc[p] \in ProcType /\ proc[p].path \in Suffixes
    BY DEF LedgerInv, TypeOK, Carries, OnImage
  <1>2. proc[p].draft = NoDraft
    BY Points DEF LedgerInv, Carries, OnImage
  <1>3. Moves(p, record)
    BY <1>1, <1>2 DEF Moves, Goto, ProcType
  <1> QED  BY <1>3

LEMMA FailMove ==
  ASSUME LedgerInv, NEW p \in Procs, OnImage(p), Fail(p)
  PROVE  \E record : Moves(p, record)
  BY IdleMove, GotoMove DEF Fail, ImagePoints

LEMMA BeginMove ==
  ASSUME NEW p \in Procs, NEW point \in ImagePoints, NEW s \in Suffixes,
         proc' = [proc EXCEPT ![p] = [Idle EXCEPT !.pc = point, !.path = s]]
  PROVE  \E record : Moves(p, record)
  <1> DEFINE record == [Idle EXCEPT !.pc = point, !.path = s]
  <1>1. Moves(p, record)
    BY IdleFields DEF Moves, ProcType
  <1> QED  BY <1>1

(* The variables of the image, apart from the process. *)
ImageType ==
    /\ files \subseteq Suffixes
    /\ document \in [status : {"none", "active", "deleted"},
                     path : Suffixes \union {None}]
    /\ commands \in [Procs -> 0..MaxCommands]
    /\ overlapped \in BOOLEAN
    /\ abandoned \subseteq Suffixes
    /\ unlinked \in BOOLEAN
    /\ ActiveHasPath

LEMMA MovesKeepTheRest ==
  ASSUME LedgerInv, NEW p \in Procs, NEW record, Moves(p, record),
         UNCHANGED <<drafts, booked, contended>>
  PROVE  /\ proc' \in [Procs -> ProcType]
         /\ Carries' /\ Contention' /\ Undisturbed' /\ OneTransactionPerDraft'
  <1>0. proc \in [Procs -> ProcType]
    BY DEF LedgerInv, TypeOK
  <1>1. proc' \in [Procs -> ProcType]
    BY <1>0 DEF Moves
  <1>2. Carries'
    BY <1>0, Points DEF LedgerInv, Carries, Moves, DraftPoints, ImagePoints
  <1>3. Contention'
    BY <1>0 DEF LedgerInv, Contention, Moves
  <1>4. Undisturbed'
    BY <1>0 DEF LedgerInv, Undisturbed, Moves, ImagePoints
  <1>5. OneTransactionPerDraft'
    BY DEF LedgerInv, OneTransactionPerDraft
  <1> QED  BY <1>1, <1>2, <1>3, <1>4, <1>5

LEMMA MovesPreserve ==
  ASSUME LedgerInv, NEW p \in Procs, \E record : Moves(p, record),
         UNCHANGED <<drafts, booked, contended>>, ImageType'
  PROVE  LedgerInv'
  <1>1. PICK record : Moves(p, record)
    OBVIOUS
  <1>2. /\ proc' \in [Procs -> ProcType]
        /\ Carries' /\ Contention' /\ Undisturbed' /\ OneTransactionPerDraft'
    BY <1>1, MovesKeepTheRest
  <1>3. TypeOK'
    BY <1>2 DEF LedgerInv, TypeOK, ImageType
  <1> QED  BY <1>2, <1>3 DEF LedgerInv, ImageType

LEMMA BeginCounts ==
  ASSUME commands \in [Procs -> 0..MaxCommands], NEW p \in Procs, Begin(p)
  PROVE  commands' \in [Procs -> 0..MaxCommands]
  BY LedgerAssumption DEF Begin

(* Every step of a command on the image, but for the commit of an import. *)
LEMMA ImageStep ==
  ASSUME LedgerInv, NEW p \in Procs,
         \/ \E s \in Suffixes : Import(p, s)
         \/ ReuseCopy(p) \/ NoCopy(p) \/ PlaceCopy(p) \/ VerifyCopy(p)
         \/ Recognize(p) \/ Clean(p) \/ SelectDocument(p) \/ ImportRefused(p)
         \/ Delete(p) \/ Unlink(p) \/ Tombstone(p) \/ Stop(p)
  PROVE  LedgerInv'
  <1> USE DEF draftVars, imageVars, Keep
  <1>0. /\ ImageType /\ proc[p] \in ProcType
        /\ OnImage(p) => proc[p].path \in Suffixes /\ proc[p].draft = NoDraft
    BY Points DEF LedgerInv, TypeOK, ImageType, Carries, OnImage
  <1>1. ASSUME NEW s \in Suffixes, Import(p, s) PROVE LedgerInv'
    <2>1. \E record : Moves(p, record)
      BY <1>1, BeginMove DEF Import, ImagePoints
    <2>2. ImageType'
      BY <1>0, <1>1, BeginCounts DEF Import, BeginOnImage, ImageType, ActiveHasPath
    <2> QED  BY <1>1, <2>1, <2>2, MovesPreserve DEF Import
  <1>2. CASE ReuseCopy(p)
    <2>1. PICK s \in files : proc' = [proc EXCEPT ![p].pc = "verify", ![p].path = s]
      BY <1>2 DEF ReuseCopy
    <2> DEFINE record == [proc[p] EXCEPT !.pc = "verify", !.path = s]
    <2>2. proc[p].draft = NoDraft
      BY <1>0, <1>2 DEF ReuseCopy, At, OnImage, ImagePoints
    <2>3. Moves(p, record)
      BY <1>0, <2>1, <2>2 DEF Moves, ProcType, ImageType, ImagePoints
    <2>4. ImageType'
      BY <1>0, <1>2 DEF ReuseCopy, ImageType, ActiveHasPath
    <2> QED  BY <1>2, <2>3, <2>4, MovesPreserve DEF ReuseCopy
  <1>3. CASE NoCopy(p)
    <2>1. \E record : Moves(p, record)
      BY <1>3, GotoMove DEF NoCopy, At, OnImage, ImagePoints
    <2>2. ImageType'
      BY <1>0, <1>3 DEF NoCopy, ImageType, ActiveHasPath
    <2> QED  BY <1>3, <2>1, <2>2, MovesPreserve DEF NoCopy
  <1>4. CASE PlaceCopy(p)
    <2> DEFINE record == [proc[p] EXCEPT !.pc = "verify", !.created = TRUE]
    <2>1. OnImage(p)
      BY <1>4 DEF PlaceCopy, At, OnImage, ImagePoints
    <2>2. Moves(p, record)
      BY <1>0, <1>4, <2>1 DEF PlaceCopy, Moves, ProcType, ImagePoints
    <2>3. ImageType'
      BY <1>0, <1>4, <2>1 DEF PlaceCopy, ImageType, ActiveHasPath
    <2> QED  BY <1>4, <2>2, <2>3, MovesPreserve DEF PlaceCopy
  <1>5. CASE VerifyCopy(p)
    <2>1. OnImage(p)
      BY <1>5 DEF VerifyCopy, At, OnImage, ImagePoints
    <2>2. \E record : Moves(p, record)
      BY <1>5, <2>1, IdleMove, GotoMove DEF VerifyCopy, ImagePoints
    <2>3. ImageType'
      BY <1>0, <1>5, <2>1 DEF VerifyCopy, LeaveCopy, ImageType, ActiveHasPath
    <2> QED  BY <1>5, <2>2, <2>3, MovesPreserve DEF VerifyCopy
  <1>6. CASE Recognize(p) \/ ImportRefused(p) \/ Clean(p)
    <2>1. OnImage(p)
      BY <1>6 DEF Recognize, ImportRefused, Clean, At, OnImage, ImagePoints
    <2>2. \E record : Moves(p, record)
      BY <1>6, <2>1, IdleMove, GotoMove, FailMove
         DEF Recognize, ImportRefused, Clean, ImagePoints
    <2>3. ImageType'
      BY <1>0, <1>6, <2>1
         DEF Recognize, ImportRefused, Clean, LeaveCopy, ImageType, ActiveHasPath
    <2> QED  BY <1>6, <2>2, <2>3, MovesPreserve DEF Recognize, ImportRefused, Clean
  <1>7. CASE SelectDocument(p)
    <2> DEFINE record == [proc[p] EXCEPT !.pc = "import", !.seen = document.status]
    <2>1. OnImage(p)
      BY <1>7 DEF SelectDocument, At, OnImage, ImagePoints
    <2>2. Moves(p, record)
      BY <1>0, <1>7, <2>1 DEF SelectDocument, Moves, ProcType, ImageType, ImagePoints
    <2>3. ImageType'
      BY <1>0, <1>7 DEF SelectDocument, ImageType, ActiveHasPath
    <2> QED  BY <1>7, <2>2, <2>3, MovesPreserve DEF SelectDocument
  <1>8. CASE Delete(p)
    <2>1. \E record : Moves(p, record)
      BY <1>0, <1>8, BeginMove DEF Delete, ImageType, ActiveHasPath, ImagePoints
    <2>2. ImageType'
      BY <1>0, <1>8, BeginCounts DEF Delete, BeginOnImage, ImageType, ActiveHasPath
    <2> QED  BY <1>8, <2>1, <2>2, MovesPreserve DEF Delete
  <1>9. CASE Unlink(p)
    <2>1. OnImage(p)
      BY <1>9 DEF Unlink, At, OnImage, ImagePoints
    <2>2. \E record : Moves(p, record)
      BY <1>9, <2>1, IdleMove, GotoMove DEF Unlink, ImagePoints
    <2>3. unlinked' \in BOOLEAN
      BY <1>0, <1>9 DEF Unlink, ImageType
    <2>4. ImageType'
      BY <1>0, <1>9, <2>3 DEF Unlink, ImageType, ActiveHasPath
    <2> QED  BY <1>9, <2>2, <2>4, MovesPreserve DEF Unlink
  <1>10. CASE Tombstone(p)
    <2>1. OnImage(p)
      BY <1>10 DEF Tombstone, At, OnImage, ImagePoints
    <2>2. \E record : Moves(p, record)
      BY <1>10, <2>1, IdleMove, GotoMove DEF Tombstone, ImagePoints
    <2>3. unlinked' \in BOOLEAN
      BY <1>0, <1>10 DEF Tombstone, ImageType
    <2>4. ImageType'
      BY <1>0, <1>10, <2>3 DEF Tombstone, ImageType, ActiveHasPath
    <2> QED  BY <1>10, <2>2, <2>4, MovesPreserve DEF Tombstone
  <1>11. CASE Stop(p)
    <2>1. \E record : Moves(p, record)
      BY <1>11, IdleMove DEF Stop
    <2>2. abandoned' \subseteq Suffixes
      BY <1>0, <1>11 DEF Stop, LeaveCopy, ImageType
    <2>3. ImageType'
      BY <1>0, <1>11, <2>2 DEF Stop, ImageType, ActiveHasPath
    <2> QED  BY <1>11, <2>1, <2>3, MovesPreserve DEF Stop
  <1> QED  BY <1>1, <1>2, <1>3, <1>4, <1>5, <1>6, <1>7, <1>8, <1>9, <1>10, <1>11

-----------------------------------------------------------------------------
(* The commit of an import adds a draft that nobody is at work on.           *)

LEMMA CommitStep ==
  ASSUME LedgerInv, NEW p \in Procs, NEW d \in Drafts, NEW v \in Values,
         CommitImport(p, d, v)
  PROVE  LedgerInv'
  <1>0. /\ proc \in [Procs -> ProcType] /\ ImageType
        /\ proc[p].path \in Suffixes /\ proc[p].pc \in ImagePoints
    BY DEF LedgerInv, TypeOK, ImageType, Carries, CommitImport, At, ImagePoints
  <1>1. /\ proc' = [proc EXCEPT ![p] = Idle]
        /\ drafts[d].status = "none"
        /\ drafts' = [drafts EXCEPT ![d] = [status |-> "pending", value |-> v]]
        /\ UNCHANGED <<files, booked, contended, commands, overlapped>>
    BY DEF CommitImport, FirstUnused, End, Keep
  <1>2. ImageType'
    <2>1. document' = document \/ document' = [status |-> "active", path |-> proc[p].path]
      BY DEF CommitImport, ImportedRow
    <2>2. document' \in [status : {"none", "active", "deleted"},
                         path : Suffixes \union {None}] /\ ActiveHasPath'
      BY <1>0, <2>1 DEF ImageType, ActiveHasPath
    <2>3. abandoned' \subseteq Suffixes
      BY <1>0 DEF CommitImport, ImageType
    <2>4. unlinked' \in BOOLEAN
      BY DEF CommitImport
    <2> QED  BY <1>0, <1>1, <2>2, <2>3, <2>4 DEF ImageType
  <1>3. TypeOK'
    <2>1. proc' \in [Procs -> ProcType]
      BY <1>0, <1>1, IdleFields
    <2>2. drafts' \in [Drafts -> [status : {"none", "pending", "confirmed"},
                                  value : Values \union {None}]]
      BY <1>1 DEF LedgerInv, TypeOK
    <2> QED  BY <1>1, <1>2, <2>1, <2>2 DEF LedgerInv, TypeOK, ImageType
  <1>4. Carries' /\ Contention'
    BY <1>0, <1>1, IdleFields, Points DEF LedgerInv, TypeOK, Carries, Contention
  <1>5. OneTransactionPerDraft'
    BY <1>1 DEF LedgerInv, TypeOK, OneTransactionPerDraft
  <1>6. Undisturbed'
    <2> SUFFICES ASSUME NEW q \in Procs, proc'[q].draft \notin contended'
                 PROVE  /\ proc'[q].pc \in {"reread", "book"} =>
                              drafts'[proc'[q].draft].value = proc'[q].value
                        /\ proc'[q].pc = "book" => proc'[q].row = proc'[q].value
      BY DEF Undisturbed
    <2>1. CASE q = p
      BY <2>1, <1>0, <1>1, IdleFields
    <2>2. CASE q # p
      <3>1. proc'[q] = proc[q]
        BY <2>2, <1>0, <1>1
      <3>2. proc[q].pc \in DraftPoints => proc[q].draft # d
        BY <1>1 DEF LedgerInv, Carries
      <3> QED  BY <3>1, <3>2, <1>1 DEF LedgerInv, Undisturbed, TypeOK, DraftPoints
    <2> QED  BY <2>1, <2>2
  <1> QED  BY <1>2, <1>3, <1>4, <1>5, <1>6 DEF LedgerInv, ImageType

-----------------------------------------------------------------------------
(* The steps of a confirmation.                                              *)

LEMMA DraftType ==
  ASSUME LedgerInv, NEW p \in Procs, proc[p].pc \in DraftPoints
  PROVE  /\ proc[p] \in ProcType /\ proc[p].draft \in Drafts
         /\ proc[p].draft # NoDraft /\ proc[p].value \in Values
         /\ drafts[proc[p].draft].status # "none"
  BY DEF LedgerInv, TypeOK, Carries, ProcType

(* Whoever is on the draft of an undisturbed command is that command. *)
LEMMA Alone ==
  ASSUME LedgerInv, NEW p \in Procs, NEW q \in Procs, q # p,
         proc[p].pc \in DraftPoints, proc[q].pc \in DraftPoints,
         proc[q].draft \notin contended
  PROVE  proc[p].draft # proc[q].draft
  BY DraftType DEF LedgerInv, Contention

LEMMA ConfirmStep ==
  ASSUME LedgerInv, NEW p \in Procs, NEW d \in Drafts, NEW v \in Values, Confirm(p, d, v)
  PROVE  LedgerInv'
  <1> DEFINE record == [Idle EXCEPT !.pc = "correct", !.draft = d, !.value = v]
  <1>0. /\ proc \in [Procs -> ProcType] /\ d # NoDraft /\ d \in Drafts
        /\ drafts[d].status = "pending"
    BY LedgerAssumption DEF LedgerInv, TypeOK, NoDraft, Confirm
  <1>1. /\ proc' = [proc EXCEPT ![p] = record]
        /\ UNCHANGED <<files, document, abandoned, unlinked, drafts, booked, overlapped>>
        /\ contended' = IF \E q \in Procs : proc[q].draft = d
                        THEN contended \union {d} ELSE contended
    BY DEF Confirm, imageVars
  <1>2. /\ record \in ProcType /\ record.pc = "correct" /\ record.draft = d
        /\ record.value = v
    BY IdleFields, <1>0 DEF ProcType, DraftPoints
  <1>3. TypeOK'
    <2>1. commands' \in [Procs -> 0..MaxCommands]
      BY BeginCounts DEF Confirm, LedgerInv, TypeOK
    <2>2. proc' \in [Procs -> ProcType]
      BY <1>0, <1>1, <1>2
    <2>3. contended' \subseteq Drafts
      BY <1>1 DEF LedgerInv, TypeOK
    <2> HIDE DEF record
    <2> QED  BY <1>1, <2>1, <2>2, <2>3 DEF LedgerInv, TypeOK
  <1>4. Carries'
    BY <1>0, <1>1, <1>2 DEF LedgerInv, Carries, DraftPoints, ImagePoints
  <1>5. Contention'
    BY <1>0, <1>1, <1>2 DEF LedgerInv, Contention
  <1>6. Undisturbed'
    BY <1>0, <1>1, <1>2 DEF LedgerInv, Undisturbed
  <1>7. OneTransactionPerDraft' /\ ActiveHasPath'
    BY <1>1 DEF LedgerInv, OneTransactionPerDraft, ActiveHasPath
  <1> QED  BY <1>3, <1>4, <1>5, <1>6, <1>7 DEF LedgerInv

(* A confirmation that ends without a change leaves its draft to the others. *)
LEMMA EndStep ==
  ASSUME LedgerInv, NEW p \in Procs, End(p), UNCHANGED <<imageVars, draftVars>>, Keep
  PROVE  LedgerInv'
  <1>1. \E record : Moves(p, record)
    BY IdleMove
  <1>2. ImageType'
    BY DEF LedgerInv, TypeOK, ImageType, ActiveHasPath, imageVars, Keep
  <1> QED  BY <1>1, <1>2, MovesPreserve DEF draftVars

LEMMA CorrectStep ==
  ASSUME LedgerInv, NEW p \in Procs, Correct(p)
  PROVE  LedgerInv'
  <1> DEFINE d == proc[p].draft
             record == [proc[p] EXCEPT !.pc = "reread"]
  <1>0. /\ proc \in [Procs -> ProcType] /\ proc[p].pc = "correct"
        /\ proc[p].pc \in DraftPoints
    BY DEF LedgerInv, TypeOK, Correct, At, DraftPoints
  <1>1. CASE End(p) /\ UNCHANGED drafts
    BY <1>1, EndStep DEF Correct, draftVars
  <1>2. CASE /\ drafts[d].status = "pending"
             /\ drafts' = [drafts EXCEPT ![d].value = proc[p].value]
             /\ Goto(p, "reread")
    <2>1. /\ proc[p] \in ProcType /\ d \in Drafts /\ d # NoDraft
          /\ proc[p].value \in Values
      BY <1>0, DraftType
    <2>2. /\ proc' = [proc EXCEPT ![p] = record]
          /\ UNCHANGED <<files, document, abandoned, unlinked, booked, contended,
                         commands, overlapped>>
      BY <1>2, <2>1 DEF Correct, Goto, imageVars, Keep
    <2>3. /\ record \in ProcType /\ record.pc = "reread" /\ record.draft = d
          /\ record.value = proc[p].value
      BY <2>1 DEF ProcType, DraftPoints
    <2>4. /\ drafts' \in [Drafts -> [status : {"none", "pending", "confirmed"},
                                     value : Values \union {None}]]
          /\ \A e \in Drafts : drafts'[e].status = drafts[e].status
          /\ drafts'[d].value = proc[p].value
          /\ \A e \in Drafts \ {d} : drafts'[e] = drafts[e]
      <3>1. drafts \in [Drafts -> [status : {"none", "pending", "confirmed"},
                                  value : Values \union {None}]]
        BY DEF LedgerInv, TypeOK
      <3>2. drafts' = [drafts EXCEPT ![d] = [drafts[d] EXCEPT !.value = proc[p].value]]
        BY <1>2
      <3>3. drafts'[d] = [drafts[d] EXCEPT !.value = proc[p].value]
        BY <3>1, <3>2, <2>1
      <3>4. \A e \in Drafts \ {d} : drafts'[e] = drafts[e]
        BY <3>1, <3>2, <2>1
      <3>5. /\ drafts'[d] \in [status : {"none", "pending", "confirmed"},
                               value : Values \union {None}]
            /\ drafts'[d].status = drafts[d].status /\ drafts'[d].value = proc[p].value
        BY <3>1, <3>3, <2>1
      <3>6. DOMAIN drafts' = Drafts /\ drafts' = [e \in Drafts |-> drafts'[e]]
        BY <3>1, <3>2
      <3> QED  BY <3>1, <3>4, <3>5, <3>6
    <2>5. proc' \in [Procs -> ProcType]
      BY <1>0, <2>2, <2>3
    <2>6. TypeOK'
      BY <2>2, <2>4, <2>5 DEF LedgerInv, TypeOK
    <2>7. \A q \in Procs : q # p => proc'[q] = proc[q]
      BY <1>0, <2>2
    <2>8. proc'[p] = record
      BY <1>0, <2>2
    <2> HIDE DEF record
    <2>9. Carries'
      BY <1>0, <2>1, <2>3, <2>4, <2>7, <2>8, DraftType
         DEF LedgerInv, Carries, DraftPoints, ImagePoints
    <2>10. Contention'
      BY <2>2, <2>3, <2>7, <2>8 DEF LedgerInv, Contention
    <2>11. Undisturbed'
      <3> SUFFICES ASSUME NEW q \in Procs, proc'[q].draft \notin contended'
                   PROVE  /\ proc'[q].pc \in {"reread", "book"} =>
                                drafts'[proc'[q].draft].value = proc'[q].value
                          /\ proc'[q].pc = "book" => proc'[q].row = proc'[q].value
        BY DEF Undisturbed
      <3>1. CASE q = p
        BY <3>1, <2>3, <2>4, <2>8
      <3>2. CASE q # p
        <4>1. proc[q].pc \in DraftPoints => proc[q].draft # d /\ proc[q].draft \in Drafts
          BY <1>0, <3>2, <2>2, <2>7, Alone, DraftType
        <4> QED  BY <3>2, <4>1, <2>2, <2>4, <2>7 DEF LedgerInv, Undisturbed, DraftPoints
      <3> QED  BY <3>1, <3>2
    <2>12. OneTransactionPerDraft' /\ ActiveHasPath'
      BY <2>2, <2>4 DEF LedgerInv, OneTransactionPerDraft, ActiveHasPath
    <2> QED  BY <2>6, <2>9, <2>10, <2>11, <2>12 DEF LedgerInv
  <1> QED  BY <1>1, <1>2 DEF Correct

LEMMA RereadStep ==
  ASSUME LedgerInv, NEW p \in Procs, Reread(p)
  PROVE  LedgerInv'
  <1> DEFINE d == proc[p].draft
             record == [proc[p] EXCEPT !.pc = "book", !.row = drafts[d].value]
  <1>0. /\ proc \in [Procs -> ProcType] /\ proc[p].pc = "reread"
        /\ proc[p].pc \in DraftPoints
    BY DEF LedgerInv, TypeOK, Reread, At, DraftPoints
  <1>1. CASE End(p)
    BY <1>1, EndStep DEF Reread
  <1>2. CASE /\ drafts[d].value \in Complete
             /\ proc' = [proc EXCEPT ![p].pc = "book", ![p].row = drafts[d].value]
    <2>1. /\ proc[p] \in ProcType /\ d \in Drafts /\ d # NoDraft
          /\ proc[p].value \in Values /\ drafts[d].value \in Values
      BY <1>0, <1>2, DraftType DEF Complete
    <2>2. /\ proc' = [proc EXCEPT ![p] = record]
          /\ UNCHANGED <<files, document, abandoned, unlinked, drafts, booked, contended,
                         commands, overlapped>>
      BY <1>2, <2>1 DEF Reread, imageVars, draftVars, Keep
    <2>3. /\ record \in ProcType /\ record.pc = "book" /\ record.draft = d
          /\ record.value = proc[p].value /\ record.row = drafts[d].value
      BY <2>1 DEF ProcType, DraftPoints
    <2>4. proc' \in [Procs -> ProcType]
      BY <1>0, <2>2, <2>3
    <2>5. \A q \in Procs : proc'[q] = IF q = p THEN record ELSE proc[q]
      BY <1>0, <2>2
    <2> HIDE DEF record
    <2>6. TypeOK'
      BY <2>2, <2>4 DEF LedgerInv, TypeOK
    <2>7. Carries'
      BY <1>0, <2>1, <2>2, <2>3, <2>5 DEF LedgerInv, Carries, DraftPoints, ImagePoints
    <2>8. Contention'
      BY <2>2, <2>3, <2>5 DEF LedgerInv, Contention
    <2>9. Undisturbed'
      BY <1>0, <2>2, <2>3, <2>5 DEF LedgerInv, Undisturbed
    <2>10. OneTransactionPerDraft' /\ ActiveHasPath'
      BY <2>2 DEF LedgerInv, OneTransactionPerDraft, ActiveHasPath
    <2> QED  BY <2>6, <2>7, <2>8, <2>9, <2>10 DEF LedgerInv
  <1> QED  BY <1>1, <1>2 DEF Reread

(* What a successful booking does. *)
LEMMA Booking ==
  ASSUME LedgerInv, NEW p \in Procs, Book(p),
         drafts[proc[p].draft].status = "pending",
         booked' = [booked EXCEPT ![proc[p].draft] = Append(@, proc[p].row)]
  PROVE  /\ proc[p].draft \in Drafts
         /\ booked[proc[p].draft] = <<>>
         /\ booked'[proc[p].draft] = <<proc[p].row>>
         /\ proc[p].row \in Values
  <1> DEFINE d == proc[p].draft
  <1>1. /\ d \in Drafts /\ proc[p].row \in Values
        /\ booked \in [Drafts -> Seq(Values)]
    BY DraftType DEF LedgerInv, TypeOK, Carries, Book, At, DraftPoints
  <1>2. Len(booked[d]) = 0
    BY <1>1 DEF LedgerInv, OneTransactionPerDraft
  <1>3. booked[d] = <<>>
    BY <1>1, <1>2
  <1>4. booked'[d] = Append(<<>>, proc[p].row)
    BY <1>1, <1>3
  <1> QED  BY <1>1, <1>3, <1>4

LEMMA BookStep ==
  ASSUME LedgerInv, NEW p \in Procs, Book(p)
  PROVE  LedgerInv'
  <1> DEFINE d == proc[p].draft
  <1>0. /\ proc \in [Procs -> ProcType] /\ proc[p].pc = "book"
        /\ proc[p].pc \in DraftPoints
    BY DEF LedgerInv, TypeOK, Book, At, DraftPoints
  <1>1. CASE UNCHANGED <<booked, drafts>>
    BY <1>1, EndStep DEF Book, draftVars
  <1>2. CASE /\ drafts[d].status = "pending"
             /\ booked' = [booked EXCEPT ![d] = Append(@, proc[p].row)]
             /\ drafts' = [drafts EXCEPT ![d].status = "confirmed"]
    <2>1. /\ d \in Drafts /\ booked'[d] = <<proc[p].row>> /\ proc[p].row \in Values
      BY <1>2, Booking
    <2>2. /\ proc' = [proc EXCEPT ![p] = Idle]
          /\ UNCHANGED <<files, document, abandoned, unlinked, contended,
                         commands, overlapped>>
      BY DEF Book, End, imageVars, Keep
    <2>3. /\ drafts' \in [Drafts -> [status : {"none", "pending", "confirmed"},
                                     value : Values \union {None}]]
          /\ drafts'[d].status = "confirmed"
          /\ \A e \in Drafts : drafts'[e].value = drafts[e].value
          /\ \A e \in Drafts \ {d} : drafts'[e] = drafts[e]
      BY <1>2, <2>1 DEF LedgerInv, TypeOK
    <2>4. booked' \in [Drafts -> Seq(Values)]
      BY <1>2, <2>1 DEF LedgerInv, TypeOK
    <2>5. proc' \in [Procs -> ProcType]
      BY <1>0, <2>2, IdleFields
    <2>6. \A q \in Procs : proc'[q] = IF q = p THEN Idle ELSE proc[q]
      BY <1>0, <2>2
    <2>7. TypeOK'
      BY <2>2, <2>3, <2>4, <2>5 DEF LedgerInv, TypeOK
    <2>8. Carries'
      BY <2>3, <2>6, IdleFields, Points, DraftType DEF LedgerInv, Carries
    <2>9. Contention'
      BY <2>2, <2>6, IdleFields DEF LedgerInv, Contention
    <2>10. Undisturbed'
      <3> SUFFICES ASSUME NEW q \in Procs, proc'[q].draft \notin contended'
                   PROVE  /\ proc'[q].pc \in {"reread", "book"} =>
                                drafts'[proc'[q].draft].value = proc'[q].value
                          /\ proc'[q].pc = "book" => proc'[q].row = proc'[q].value
        BY DEF Undisturbed
      <3>1. proc[q].pc \in DraftPoints => proc[q].draft \in Drafts
        BY DraftType
      <3> QED  BY <3>1, <2>2, <2>3, <2>6, IdleFields DEF LedgerInv, Undisturbed, DraftPoints
    <2>11. OneTransactionPerDraft'
      <3> SUFFICES ASSUME NEW e \in Drafts
                   PROVE  Len(booked'[e]) = IF drafts'[e].status = "confirmed" THEN 1 ELSE 0
        BY DEF OneTransactionPerDraft
      <3>1. CASE e = d
        BY <3>1, <2>1, <2>3
      <3>2. CASE e # d
        BY <3>2, <1>2, <2>3 DEF LedgerInv, TypeOK, OneTransactionPerDraft
      <3> QED  BY <3>1, <3>2
    <2>12. ActiveHasPath'
      BY <2>2 DEF LedgerInv, ActiveHasPath
    <2> QED  BY <2>7, <2>8, <2>9, <2>10, <2>11, <2>12 DEF LedgerInv
  <1> QED  BY <1>1, <1>2 DEF Book

-----------------------------------------------------------------------------
(* The theorems.                                                             *)

LEMMA Stutter ==
  ASSUME LedgerInv, UNCHANGED vars
  PROVE  LedgerInv'
  BY DEF LedgerInv, vars, imageVars, draftVars, TypeOK, Carries, ActiveHasPath,
         OneTransactionPerDraft, Contention, Undisturbed

LEMMA NextLedger == LedgerInv /\ [Next]_vars => LedgerInv'
  <1> SUFFICES ASSUME LedgerInv, [Next]_vars PROVE LedgerInv'
    OBVIOUS
  <1>1. CASE UNCHANGED vars
    BY <1>1, Stutter
  <1>2. ASSUME NEW p \in Procs, ImageCommand(p) PROVE LedgerInv'
    BY <1>2, ImageStep, CommitStep DEF ImageCommand
  <1>3. ASSUME NEW p \in Procs, DraftCommand(p) PROVE LedgerInv'
    BY <1>3, ConfirmStep, CorrectStep, RereadStep, BookStep DEF DraftCommand
  <1>4. ASSUME NEW p \in Procs, Stop(p) PROVE LedgerInv'
    BY <1>4, ImageStep
  <1> QED  BY <1>1, <1>2, <1>3, <1>4 DEF Next

(* The invariant holds of every behaviour of the ledger. *)
THEOREM LedgerInvariance == Spec => []LedgerInv
  BY InitLedger, NextLedger, PTL DEF Spec

LEMMA OnlyBookBooks ==
  ASSUME Next, booked' # booked
  PROVE  \E q \in Procs : Book(q)
  <1>1. PICK q \in Procs : ImageCommand(q) \/ DraftCommand(q) \/ Stop(q)
    BY DEF Next
  <1>2. ~ImageCommand(q)
    BY DEF ImageCommand, draftVars, Import, ReuseCopy, NoCopy, PlaceCopy, VerifyCopy,
           Recognize, Clean, SelectDocument, CommitImport, ImportRefused, Delete, Unlink,
           Tombstone
  <1>3. ~Stop(q)
    BY DEF Stop, draftVars
  <1>4. DraftCommand(q) => Book(q)
    BY DEF DraftCommand, draftVars, Confirm, Correct, Reread
  <1> QED  BY <1>1, <1>2, <1>3, <1>4

(* A draft is booked once, exactly when it is confirmed, for any number of   *)
(* commands that confirm it (confirm_draft of the store).                    *)
THEOREM OneTransactionTheorem == Spec => []OneTransactionPerDraft
  <1>1. LedgerInv => OneTransactionPerDraft
    BY DEF LedgerInv
  <1> QED  BY <1>1, LedgerInvariance, PTL

(* A confirmed draft and its transaction never change (the conditions on the *)
(* status in the updates of the store).                                      *)
THEOREM FinalTheorem == Spec => ConfirmedIsFinal
  <1> DEFINE Final == \A d \in Drafts :
                drafts[d].status = "confirmed" =>
                    drafts'[d] = drafts[d] /\ booked'[d] = booked[d]
  <1>1. LedgerInv /\ [Next]_vars => [Final]_vars
    <2> SUFFICES ASSUME LedgerInv, Next PROVE Final
      OBVIOUS
    <2>1. SUFFICES ASSUME NEW d \in Drafts, drafts[d].status = "confirmed",
                          NEW p \in Procs,
                          ImageCommand(p) \/ DraftCommand(p) \/ Stop(p)
                   PROVE  drafts'[d] = drafts[d] /\ booked'[d] = booked[d]
      BY DEF Next
    <2>2. CASE UNCHANGED <<drafts, booked>>
      BY <2>2
    <2>3. ASSUME NEW e \in Drafts, NEW v \in Values, CommitImport(p, e, v)
          PROVE  drafts'[d] = drafts[d] /\ booked'[d] = booked[d]
      BY <2>1, <2>3 DEF CommitImport, FirstUnused, LedgerInv, TypeOK
    <2>4. CASE Correct(p) /\ ~UNCHANGED drafts
      BY <2>1, <2>4 DEF Correct, LedgerInv, TypeOK
    <2>5. CASE Book(p) /\ ~UNCHANGED <<drafts, booked>>
      BY <2>1, <2>5 DEF Book, LedgerInv, TypeOK
    <2> QED  BY <2>1, <2>2, <2>3, <2>4, <2>5
           DEF ImageCommand, DraftCommand, imageVars, draftVars, Import, ReuseCopy, NoCopy,
               PlaceCopy, VerifyCopy, Recognize, Clean, SelectDocument, ImportRefused,
               Delete, Unlink, Tombstone, Confirm, Correct, Reread, Book, Stop
  <1>2. []LedgerInv /\ [][Next]_vars => [][Final]_vars
    BY <1>1, PTL
  <1> QED  BY <1>2, LedgerInvariance, PTL DEF Spec, ConfirmedIsFinal

(* A transaction says what its command confirmed, and so does the draft,     *)
(* unless another command was confirming the draft at the same time.         *)
THEOREM BookedAsConfirmedTheorem == Spec => BookedAsConfirmed
  <1> DEFINE AsConfirmed == \A p \in Procs :
                LET d == proc[p].draft IN
                At(p, "book") /\ d \notin contended /\ booked'[d] # booked[d] =>
                    /\ booked'[d] = <<proc[p].value>>
                    /\ drafts'[d].value = proc[p].value
  <1>1. LedgerInv /\ [Next]_vars => [AsConfirmed]_vars
    <2> SUFFICES ASSUME LedgerInv, Next,
                        NEW p \in Procs, At(p, "book"), proc[p].draft \notin contended,
                        booked'[proc[p].draft] # booked[proc[p].draft]
                 PROVE  /\ booked'[proc[p].draft] = <<proc[p].value>>
                        /\ drafts'[proc[p].draft].value = proc[p].value
      BY DEF At
    <2>1. PICK q \in Procs : Book(q) /\ ~UNCHANGED booked
      BY OnlyBookBooks
    <2>2. /\ drafts[proc[q].draft].status = "pending"
          /\ booked' = [booked EXCEPT ![proc[q].draft] = Append(@, proc[q].row)]
          /\ drafts' = [drafts EXCEPT ![proc[q].draft].status = "confirmed"]
      BY <2>1 DEF Book
    <2>3. /\ proc[p].pc \in DraftPoints /\ proc[p].draft \in Drafts
          /\ proc[q].pc \in DraftPoints /\ proc[q].draft \in Drafts
      BY <2>1, DraftType DEF Book, At, DraftPoints
    <2>4. proc[q].draft = proc[p].draft
      BY <2>2, <2>3 DEF LedgerInv, TypeOK
    <2>5. q = p
      BY <2>3, <2>4, Alone
    <2>6. proc[p].row = proc[p].value /\ drafts[proc[p].draft].value = proc[p].value
      BY DEF LedgerInv, Undisturbed, At
    <2>7. booked'[proc[p].draft] = <<proc[p].row>>
      BY <2>1, <2>2, <2>5, Booking
    <2>8. drafts'[proc[p].draft].value = drafts[proc[p].draft].value
      BY <2>2, <2>3, <2>4 DEF LedgerInv, TypeOK
    <2> QED  BY <2>6, <2>7, <2>8
  <1>2. []LedgerInv /\ [][Next]_vars => [][AsConfirmed]_vars
    BY <1>1, PTL
  <1> QED  BY <1>2, LedgerInvariance, PTL DEF Spec, BookedAsConfirmed

-----------------------------------------------------------------------------
(* The managed copies of an image, for any number of suffixes: as long as no *)
(* two commands were at work on the image at once, but with any number of    *)
(* them stopped at any step.  First the inductive invariant.                 *)

CopyPoints == {"verify", "recognize", "select", "import", "clean"}

(* A command that is not on the image has no copy to answer for. *)
AtRest(p) == proc[p].pc \notin ImagePoints /\ ~proc[p].created

(* What the one command on the image knows of the copies where it is.        *)
Stands(p) ==
    /\ proc[p].pc = "place" => files = {}
    /\ proc[p].pc \in CopyPoints => proc[p].path \in files
    /\ proc[p].created =>
          /\ proc[p].pc \in CopyPoints
          /\ document.status = "active" => unlinked
    /\ proc[p].pc = "clean" => proc[p].created
    /\ proc[p].pc = "import" => proc[p].seen = document.status
    /\ proc[p].pc \in {"unlink", "tombstone"} =>
          document = [status |-> "active", path |-> proc[p].path]
    /\ proc[p].pc = "tombstone" => proc[p].path \notin files

OneOnImage == \A p, q \in Procs : OnImage(p) /\ OnImage(q) => p = q
OneCopy == \A s, t \in files : s = t
DocumentHasCopy == document.status = "active" => unlinked \/ document.path \in files
Accounted ==
    \A s \in files \ abandoned :
        \/ document = [status |-> "active", path |-> s]
        \/ \E p \in Procs : proc[p].created /\ proc[p].path = s

CopyInv ==
    ~overlapped =>
        /\ \A p \in Procs : Stands(p)
        /\ OneOnImage /\ OneCopy /\ DocumentHasCopy /\ Accounted

THEOREM InitCopies == Init => CopyInv
  BY DEF Init, CopyInv, Stands, OneOnImage, OneCopy, DocumentHasCopy, Accounted,
         OnImage, Idle, CopyPoints, ImagePoints

-----------------------------------------------------------------------------
(* A step of one command: the others rest, so that only its own place, and   *)
(* what it leaves of the copies and the document, has to be shown.           *)

(* Accounted, when p is the only command that may have made a copy.          *)
AccountedBy(p) ==
    \A s \in files \ abandoned :
        \/ document = [status |-> "active", path |-> s]
        \/ proc[p].created /\ proc[p].path = s

OthersAtRest(p) == \A q \in Procs \ {p} : AtRest(q)

LEMMA OthersRest ==
  ASSUME CopyInv, ~overlapped, NEW p \in Procs, OnImage(p)
  PROVE  /\ OthersAtRest(p) /\ Stands(p) /\ OneCopy /\ DocumentHasCopy /\ AccountedBy(p)
  <1>1. Stands(p) /\ OneOnImage /\ OneCopy /\ DocumentHasCopy /\ Accounted
    BY DEF CopyInv
  <1>2. ASSUME NEW q \in Procs \ {p} PROVE AtRest(q)
    <2>1. ~OnImage(q)
      BY <1>1 DEF OneOnImage
    <2>2. Stands(q)
      BY DEF CopyInv
    <2> QED  BY <2>1, <2>2 DEF OnImage, Stands, AtRest, CopyPoints, ImagePoints
  <1>3. AccountedBy(p)
    BY <1>1, <1>2 DEF Accounted, AccountedBy, AtRest
  <1> QED  BY <1>1, <1>2, <1>3 DEF OthersAtRest

LEMMA NobodyOnImage ==
  ASSUME CopyInv, ~overlapped, \A q \in Procs : ~OnImage(q)
  PROVE  /\ \A q \in Procs : AtRest(q)
         /\ OneCopy /\ DocumentHasCopy
         /\ \A p \in Procs : AccountedBy(p)
  <1>1. OneCopy /\ DocumentHasCopy /\ Accounted
    BY DEF CopyInv
  <1>2. ASSUME NEW q \in Procs PROVE AtRest(q)
    BY DEF CopyInv, OnImage, Stands, AtRest, CopyPoints, ImagePoints
  <1>3. ASSUME NEW p \in Procs PROVE AccountedBy(p)
    BY <1>1, <1>2 DEF Accounted, AccountedBy, AtRest
  <1> QED  BY <1>1, <1>2, <1>3

LEMMA StepOfOne ==
  ASSUME NEW p \in Procs, NEW record, proc \in [Procs -> ProcType], OthersAtRest(p),
         proc' = [proc EXCEPT ![p] = record],
         Stands(p)', OneCopy', DocumentHasCopy', AccountedBy(p)'
  PROVE  CopyInv'
  <1>1. ASSUME NEW q \in Procs \ {p}
        PROVE  proc'[q] = proc[q] /\ ~OnImage(q)' /\ Stands(q)'
    <2>1. proc'[q] = proc[q] /\ AtRest(q)
      BY DEF OthersAtRest
    <2> QED  BY <2>1 DEF OnImage, Stands, AtRest, CopyPoints, ImagePoints
  <1>2. OneOnImage'
    BY <1>1 DEF OneOnImage
  <1>3. Accounted'
    BY DEF Accounted, AccountedBy
  <1>4. \A q \in Procs : Stands(q)'
    BY <1>1
  <1> QED  BY <1>2, <1>3, <1>4 DEF CopyInv

(* A command that was at work on the image stops, as an import may: a copy   *)
(* it made stays behind.                                                     *)
LEMMA LeavingKeeps ==
  ASSUME LedgerInv, CopyInv, ~overlapped, NEW p \in Procs, OnImage(p),
         End(p), LeaveCopy(p), UNCHANGED <<files, document, unlinked>>
  PROVE  CopyInv'
  <1>1. /\ OthersAtRest(p) /\ OneCopy /\ DocumentHasCopy /\ AccountedBy(p)
        /\ proc \in [Procs -> ProcType]
    BY OthersRest DEF LedgerInv, TypeOK
  <1>2. proc' = [proc EXCEPT ![p] = Idle] /\ proc'[p] = Idle
    BY <1>1 DEF End
  <1>3. Stands(p)'
    BY <1>2 DEF Stands, Idle, CopyPoints
  <1>4. OneCopy' /\ DocumentHasCopy'
    BY <1>1 DEF OneCopy, DocumentHasCopy
  <1>5. AccountedBy(p)'
    BY <1>1 DEF AccountedBy, LeaveCopy
  <1> QED  BY <1>1, <1>2, <1>3, <1>4, <1>5, StepOfOne

(* A command ends that has no copy of its own. *)
LEMMA EndingKeeps ==
  ASSUME LedgerInv, CopyInv, ~overlapped, NEW p \in Procs, OnImage(p),
         ~proc[p].created, End(p), UNCHANGED imageVars
  PROVE  CopyInv'
  BY LeavingKeeps DEF LeaveCopy, imageVars

LEMMA FailKeeps ==
  ASSUME LedgerInv, CopyInv, ~overlapped, NEW p \in Procs, OnImage(p),
         Fail(p), UNCHANGED imageVars
  PROVE  CopyInv'
  <1>1. CASE ~proc[p].created
    BY <1>1, EndingKeeps DEF Fail
  <1>2. CASE proc[p].created
    <2> DEFINE record == [proc[p] EXCEPT !.pc = "clean"]
    <2>1. /\ OthersAtRest(p) /\ Stands(p) /\ OneCopy /\ DocumentHasCopy /\ AccountedBy(p)
          /\ proc \in [Procs -> ProcType] /\ proc[p] \in ProcType
      BY OthersRest DEF LedgerInv, TypeOK
    <2>2. proc' = [proc EXCEPT ![p] = record] /\ proc'[p] = record
      BY <1>2, <2>1 DEF Fail, Goto
    <2>3. Stands(p)'
      BY <1>2, <2>1, <2>2 DEF Stands, ProcType, CopyPoints, imageVars
    <2>4. OneCopy' /\ DocumentHasCopy' /\ AccountedBy(p)'
      BY <2>1, <2>2 DEF OneCopy, DocumentHasCopy, AccountedBy, ProcType, imageVars
    <2> QED  BY <2>1, <2>2, <2>3, <2>4, StepOfOne
  <1> QED  BY <1>1, <1>2

-----------------------------------------------------------------------------
(* The commands on the image, step by step.                                  *)

LEMMA ImportCopies ==
  ASSUME LedgerInv, CopyInv, NEW p \in Procs, NEW s \in Suffixes, Import(p, s)
  PROVE  CopyInv'
  <1> SUFFICES ASSUME ~overlapped' PROVE CopyInv'
    BY DEF CopyInv
  <1>1. ~overlapped /\ \A q \in Procs : ~OnImage(q)
    BY DEF Import, BeginOnImage
  <1>2. /\ OthersAtRest(p) /\ OneCopy /\ DocumentHasCopy /\ AccountedBy(p) /\ AtRest(p)
        /\ proc \in [Procs -> ProcType]
    BY <1>1, NobodyOnImage DEF OthersAtRest, LedgerInv, TypeOK
  <1> DEFINE record == [Idle EXCEPT !.pc = "scan", !.path = s]
  <1>3. proc' = [proc EXCEPT ![p] = record] /\ proc'[p] = record
    BY <1>2 DEF Import
  <1>4. Stands(p)'
    <2>1. record.pc = "scan" /\ ~record.created
      BY DEF Idle
    <2> HIDE DEF record
    <2> QED  BY <1>3, <2>1 DEF Stands, CopyPoints
  <1>5. OneCopy' /\ DocumentHasCopy' /\ AccountedBy(p)'
    BY <1>2, <1>3 DEF OneCopy, DocumentHasCopy, AccountedBy, AtRest, Import, imageVars
  <1> QED  BY <1>2, <1>3, <1>4, <1>5, StepOfOne

LEMMA DeleteCopies ==
  ASSUME LedgerInv, CopyInv, NEW p \in Procs, Delete(p)
  PROVE  CopyInv'
  <1> SUFFICES ASSUME ~overlapped' PROVE CopyInv'
    BY DEF CopyInv
  <1>1. ~overlapped /\ \A q \in Procs : ~OnImage(q)
    BY DEF Delete, BeginOnImage
  <1>2. /\ OthersAtRest(p) /\ OneCopy /\ DocumentHasCopy /\ AccountedBy(p) /\ AtRest(p)
        /\ proc \in [Procs -> ProcType]
        /\ document \in [status : {"none", "active", "deleted"},
                         path : Suffixes \union {None}]
    BY <1>1, NobodyOnImage DEF OthersAtRest, LedgerInv, TypeOK
  <1> DEFINE record == [Idle EXCEPT !.pc = "unlink", !.path = document.path]
  <1>3. proc' = [proc EXCEPT ![p] = record] /\ proc'[p] = record
    BY <1>2 DEF Delete
  <1>4. document = [status |-> "active", path |-> document.path]
    BY <1>2 DEF Delete
  <1>5. Stands(p)'
    BY <1>3, <1>4 DEF Stands, Idle, CopyPoints, Delete, imageVars
  <1>6. OneCopy' /\ DocumentHasCopy' /\ AccountedBy(p)'
    BY <1>2, <1>3 DEF OneCopy, DocumentHasCopy, AccountedBy, AtRest, Delete, imageVars
  <1> QED  BY <1>2, <1>3, <1>5, <1>6, StepOfOne

(* The steps after the first: the command is the only one on the image.      *)
LEMMA CopyStep ==
  ASSUME LedgerInv, CopyInv, NEW p \in Procs,
         \/ ReuseCopy(p) \/ NoCopy(p) \/ PlaceCopy(p) \/ VerifyCopy(p)
         \/ Recognize(p) \/ Clean(p) \/ SelectDocument(p) \/ ImportRefused(p)
         \/ Unlink(p) \/ Tombstone(p)
         \/ \E d \in Drafts, v \in Values : CommitImport(p, d, v)
  PROVE  CopyInv'
  <1> USE DEF imageVars, Keep
  <1> SUFFICES ASSUME ~overlapped' PROVE CopyInv'
    BY DEF CopyInv
  <1>0. ~overlapped /\ OnImage(p)
    BY DEF ReuseCopy, NoCopy, PlaceCopy, VerifyCopy, Recognize, Clean, SelectDocument,
           ImportRefused, Unlink, Tombstone, CommitImport, At, OnImage, ImagePoints
  <1>a. /\ OthersAtRest(p) /\ Stands(p) /\ OneCopy /\ DocumentHasCopy /\ AccountedBy(p)
        /\ proc \in [Procs -> ProcType] /\ proc[p] \in ProcType
        /\ document \in [status : {"none", "active", "deleted"},
                         path : Suffixes \union {None}]
        /\ None \notin Suffixes /\ proc[p].path \in Suffixes
    BY <1>0, OthersRest, LedgerAssumption DEF LedgerInv, TypeOK, Carries, OnImage
  <1>1. CASE ReuseCopy(p)
    <2>1. PICK s \in files : proc' = [proc EXCEPT ![p].pc = "verify", ![p].path = s]
      BY <1>1 DEF ReuseCopy
    <2> DEFINE record == [proc[p] EXCEPT !.pc = "verify", !.path = s]
    <2>2. proc' = [proc EXCEPT ![p] = record] /\ proc'[p] = record
      BY <1>a, <2>1
    <2>3. ~proc[p].created
      BY <1>1, <1>a DEF ReuseCopy, At, Stands, CopyPoints
    <2>4. Stands(p)'
      BY <1>1, <1>a, <2>2, <2>3 DEF Stands, ReuseCopy, CopyPoints, ProcType
    <2>5. OneCopy' /\ DocumentHasCopy' /\ AccountedBy(p)'
      BY <1>1, <1>a, <2>2, <2>3
         DEF OneCopy, DocumentHasCopy, AccountedBy, ReuseCopy, ProcType
    <2> QED  BY <1>a, <2>2, <2>4, <2>5, StepOfOne
  <1>2. CASE NoCopy(p)
    <2> DEFINE record == [proc[p] EXCEPT !.pc = "place"]
    <2>1. proc' = [proc EXCEPT ![p] = record] /\ proc'[p] = record
      BY <1>2, <1>a DEF NoCopy, Goto
    <2>2. Stands(p)'
      BY <1>2, <1>a, <2>1 DEF Stands, NoCopy, At, CopyPoints, ProcType
    <2>3. OneCopy' /\ DocumentHasCopy' /\ AccountedBy(p)'
      BY <1>2, <1>a, <2>1 DEF OneCopy, DocumentHasCopy, AccountedBy, NoCopy, ProcType
    <2> QED  BY <1>a, <2>1, <2>2, <2>3, StepOfOne
  <1>3. CASE PlaceCopy(p)
    <2> DEFINE record == [proc[p] EXCEPT !.pc = "verify", !.created = TRUE]
    <2>1. proc' = [proc EXCEPT ![p] = record] /\ proc'[p] = record
      BY <1>3, <1>a DEF PlaceCopy
    <2>2. files = {} /\ files' = {proc[p].path}
      BY <1>3, <1>a DEF PlaceCopy, At, Stands
    <2>3. Stands(p)'
      BY <1>3, <1>a, <2>1, <2>2
         DEF Stands, PlaceCopy, CopyPoints, ProcType, DocumentHasCopy
    <2>4. OneCopy' /\ DocumentHasCopy' /\ AccountedBy(p)'
      BY <1>3, <1>a, <2>1, <2>2
         DEF OneCopy, DocumentHasCopy, AccountedBy, PlaceCopy, ProcType
    <2> QED  BY <1>a, <2>1, <2>3, <2>4, StepOfOne
  <1>4. CASE VerifyCopy(p)
    <2>1. CASE Goto(p, "recognize") /\ UNCHANGED abandoned
      <3> DEFINE record == [proc[p] EXCEPT !.pc = "recognize"]
      <3>1. proc' = [proc EXCEPT ![p] = record] /\ proc'[p] = record
        BY <2>1, <1>a DEF Goto
      <3>2. Stands(p)'
        BY <1>4, <1>a, <2>1, <3>1 DEF Stands, VerifyCopy, At, CopyPoints, ProcType
      <3>3. OneCopy' /\ DocumentHasCopy' /\ AccountedBy(p)'
        BY <1>4, <1>a, <2>1, <3>1
           DEF OneCopy, DocumentHasCopy, AccountedBy, VerifyCopy, ProcType
      <3> QED  BY <1>a, <3>1, <3>2, <3>3, StepOfOne
    <2>2. CASE End(p) /\ LeaveCopy(p)
      BY <1>0, <1>4, <2>2, LeavingKeeps DEF VerifyCopy
    <2> QED  BY <1>4, <2>1, <2>2 DEF VerifyCopy
  <1>5. CASE Recognize(p)
    <2>1. CASE Goto(p, "select")
      <3> DEFINE record == [proc[p] EXCEPT !.pc = "select"]
      <3>1. proc' = [proc EXCEPT ![p] = record] /\ proc'[p] = record
        BY <2>1, <1>a DEF Goto
      <3>2. Stands(p)'
        BY <1>5, <1>a, <3>1 DEF Stands, Recognize, At, CopyPoints, ProcType
      <3>3. OneCopy' /\ DocumentHasCopy' /\ AccountedBy(p)'
        BY <1>5, <1>a, <3>1
           DEF OneCopy, DocumentHasCopy, AccountedBy, Recognize, ProcType
      <3> QED  BY <1>a, <3>1, <3>2, <3>3, StepOfOne
    <2>2. CASE Fail(p)
      BY <1>0, <1>5, <2>2, FailKeeps DEF Recognize
    <2> QED  BY <1>5, <2>1, <2>2 DEF Recognize
  <1>6. CASE ImportRefused(p)
    BY <1>0, <1>6, FailKeeps DEF ImportRefused
  <1>7. CASE Clean(p)
    <2>1. CASE files' = files \ {proc[p].path} /\ abandoned' = abandoned \ {proc[p].path}
      <3>1. proc' = [proc EXCEPT ![p] = Idle] /\ proc'[p] = Idle
        BY <1>7, <1>a DEF Clean, End
      <3>2. files' = {} /\ (document.status = "active" => unlinked)
        BY <1>7, <2>1, <1>a DEF Clean, At, Stands, OneCopy, CopyPoints
      <3>3. Stands(p)'
        BY <3>1 DEF Stands, Idle, CopyPoints
      <3>4. OneCopy' /\ DocumentHasCopy' /\ AccountedBy(p)'
        BY <1>7, <3>2 DEF OneCopy, DocumentHasCopy, AccountedBy, Clean
      <3> QED  BY <1>a, <3>1, <3>3, <3>4, StepOfOne
    <2>2. CASE LeaveCopy(p) /\ UNCHANGED files
      BY <1>0, <1>7, <2>2, LeavingKeeps DEF Clean
    <2> QED  BY <1>7, <2>1, <2>2 DEF Clean
  <1>8. CASE SelectDocument(p)
    <2> DEFINE record == [proc[p] EXCEPT !.pc = "import", !.seen = document.status]
    <2>1. proc' = [proc EXCEPT ![p] = record] /\ proc'[p] = record
      BY <1>8, <1>a DEF SelectDocument
    <2>2. Stands(p)'
      BY <1>8, <1>a, <2>1 DEF Stands, SelectDocument, At, CopyPoints, ProcType
    <2>3. OneCopy' /\ DocumentHasCopy' /\ AccountedBy(p)'
      BY <1>8, <1>a, <2>1
         DEF OneCopy, DocumentHasCopy, AccountedBy, SelectDocument, ProcType
    <2> QED  BY <1>a, <2>1, <2>2, <2>3, StepOfOne
  <1>9. ASSUME NEW d \in Drafts, NEW v \in Values, CommitImport(p, d, v)
        PROVE  CopyInv'
    <2>1. proc' = [proc EXCEPT ![p] = Idle] /\ proc'[p] = Idle
      BY <1>9, <1>a DEF CommitImport, End
    <2>2. proc[p].path \in files /\ proc[p].seen = document.status
      BY <1>9, <1>a DEF CommitImport, At, Stands, CopyPoints
    <2>3. document' = [status |-> "active", path |-> proc[p].path]
      BY <1>9, <2>2 DEF CommitImport, ImportedRow
    <2>4. Stands(p)'
      BY <2>1 DEF Stands, Idle, CopyPoints
    <2>5. OneCopy' /\ DocumentHasCopy' /\ AccountedBy(p)'
      BY <1>9, <1>a, <2>2, <2>3 DEF OneCopy, DocumentHasCopy, AccountedBy, CommitImport
    <2> QED  BY <1>a, <2>1, <2>4, <2>5, StepOfOne
  <1>10. CASE Unlink(p)
    <2>0. document = [status |-> "active", path |-> proc[p].path] /\ ~proc[p].created
      BY <1>10, <1>a DEF Unlink, At, Stands, CopyPoints
    <2>1. CASE /\ files' = files \ {proc[p].path}
               /\ abandoned' = abandoned \ {proc[p].path}
               /\ unlinked' = TRUE
               /\ Goto(p, "tombstone")
      <3> DEFINE record == [proc[p] EXCEPT !.pc = "tombstone"]
      <3>1. proc' = [proc EXCEPT ![p] = record] /\ proc'[p] = record
        BY <2>1, <1>a DEF Goto
      <3>2. Stands(p)'
        BY <1>10, <1>a, <2>0, <2>1, <3>1 DEF Stands, Unlink, CopyPoints, ProcType
      <3>3. OneCopy' /\ DocumentHasCopy' /\ AccountedBy(p)'
        BY <1>10, <1>a, <2>0, <2>1, <3>1
           DEF OneCopy, DocumentHasCopy, AccountedBy, Unlink, ProcType
      <3> QED  BY <1>a, <3>1, <3>2, <3>3, StepOfOne
    <2>2. CASE End(p) /\ UNCHANGED <<files, abandoned, unlinked>>
      BY <1>0, <1>10, <2>0, <2>2, EndingKeeps DEF Unlink
    <2> QED  BY <1>10, <2>1, <2>2 DEF Unlink
  <1>11. CASE Tombstone(p)
    <2>0. /\ document = [status |-> "active", path |-> proc[p].path]
          /\ ~proc[p].created /\ proc[p].path \notin files
      BY <1>11, <1>a DEF Tombstone, At, Stands, CopyPoints
    <2>1. CASE document' = [status |-> "deleted", path |-> None]
      <3>1. proc' = [proc EXCEPT ![p] = Idle] /\ proc'[p] = Idle
        BY <1>11, <1>a DEF Tombstone, End
      <3>2. Stands(p)'
        BY <3>1 DEF Stands, Idle, CopyPoints
      <3>3. OneCopy' /\ DocumentHasCopy' /\ AccountedBy(p)'
        BY <1>11, <1>a, <2>0, <2>1
           DEF OneCopy, DocumentHasCopy, AccountedBy, Tombstone
      <3> QED  BY <1>a, <3>1, <3>2, <3>3, StepOfOne
    <2>2. CASE UNCHANGED <<document, unlinked>>
      BY <1>0, <1>11, <2>0, <2>2, EndingKeeps DEF Tombstone
    <2> QED  BY <1>11, <2>1, <2>2 DEF Tombstone
  <1> QED  BY <1>1, <1>2, <1>3, <1>4, <1>5, <1>6, <1>7, <1>8, <1>9, <1>10, <1>11

-----------------------------------------------------------------------------
(* The commands on the drafts leave the copies alone.                        *)

LEMMA ElsewhereCopies ==
  ASSUME LedgerInv, CopyInv, NEW p \in Procs, ~OnImage(p),
         NEW record, record.pc \notin ImagePoints, ~proc[p].created => ~record.created,
         proc' = [proc EXCEPT ![p] = record], UNCHANGED <<imageVars, overlapped>>
  PROVE  CopyInv'
  <1> SUFFICES ASSUME ~overlapped PROVE CopyInv'
    BY DEF CopyInv
  <1>1. proc \in [Procs -> ProcType] /\ ~proc[p].created
    BY DEF CopyInv, Stands, LedgerInv, TypeOK, OnImage, CopyPoints, ImagePoints
  <1>2. \A q \in Procs : proc'[q] = IF q = p THEN record ELSE proc[q]
    BY <1>1
  <1>3. \A q \in Procs : Stands(q)'
    BY <1>1, <1>2 DEF CopyInv, Stands, CopyPoints, ImagePoints, imageVars
  <1>4. OneOnImage'
    BY <1>2 DEF CopyInv, OneOnImage, OnImage
  <1>5. OneCopy' /\ DocumentHasCopy'
    BY DEF CopyInv, OneCopy, DocumentHasCopy, imageVars
  <1>6. Accounted'
    BY <1>1, <1>2 DEF CopyInv, Accounted, imageVars
  <1> QED  BY <1>3, <1>4, <1>5, <1>6 DEF CopyInv

LEMMA DraftCopies ==
  ASSUME LedgerInv, CopyInv, NEW p \in Procs, DraftCommand(p)
  PROVE  CopyInv'
  <1> USE DEF Keep
  <1>1. proc \in [Procs -> ProcType] /\ proc[p] \in ProcType
    BY DEF LedgerInv, TypeOK
  <1>2. ~OnImage(p) /\ UNCHANGED <<imageVars, overlapped>>
    BY DEF DraftCommand, Confirm, Correct, Reread, Book, Begin, At, OnImage, ImagePoints
  <1>3. ASSUME End(p) PROVE CopyInv'
    BY <1>2, <1>3, ElsewhereCopies, IdleFields, Points DEF End, Idle
  <1>4. ASSUME NEW d \in Drafts, NEW v \in Values, Confirm(p, d, v) PROVE CopyInv'
    <2> DEFINE record == [Idle EXCEPT !.pc = "correct", !.draft = d, !.value = v]
    <2>1. record.pc \notin ImagePoints /\ ~record.created
      BY DEF Idle, ImagePoints
    <2>2. proc' = [proc EXCEPT ![p] = record]
      BY <1>4 DEF Confirm
    <2> QED  BY <1>2, <2>1, <2>2, ElsewhereCopies
  <1>5. ASSUME Correct(p), ~End(p) PROVE CopyInv'
    <2> DEFINE record == [proc[p] EXCEPT !.pc = "reread"]
    <2>1. record.pc \notin ImagePoints /\ (~proc[p].created => ~record.created)
      BY <1>1 DEF ProcType, ImagePoints
    <2>2. proc' = [proc EXCEPT ![p] = record]
      BY <1>5, <1>1 DEF Correct, Goto
    <2> QED  BY <1>2, <2>1, <2>2, ElsewhereCopies
  <1>6. ASSUME Reread(p), ~End(p) PROVE CopyInv'
    <2> DEFINE record == [proc[p] EXCEPT !.pc = "book",
                                         !.row = drafts[proc[p].draft].value]
    <2>1. record.pc \notin ImagePoints /\ (~proc[p].created => ~record.created)
      BY <1>1 DEF ProcType, ImagePoints
    <2>2. proc' = [proc EXCEPT ![p] = record]
      BY <1>6, <1>1 DEF Reread
    <2> QED  BY <1>2, <2>1, <2>2, ElsewhereCopies
  <1> QED  BY <1>3, <1>4, <1>5, <1>6 DEF DraftCommand, Book

LEMMA StopCopies ==
  ASSUME LedgerInv, CopyInv, NEW p \in Procs, Stop(p)
  PROVE  CopyInv'
  <1> SUFFICES ASSUME ~overlapped PROVE CopyInv'
    BY DEF CopyInv, Stop, Keep
  <1>1. CASE OnImage(p)
    BY <1>1, LeavingKeeps DEF Stop
  <1>2. CASE ~OnImage(p)
    <2>1. ~proc[p].created
      BY <1>2 DEF CopyInv, Stands, OnImage, CopyPoints, ImagePoints
    <2> QED  BY <1>2, <2>1, ElsewhereCopies, IdleFields, Points
             DEF Stop, End, LeaveCopy, imageVars, Keep, Idle
  <1> QED  BY <1>1, <1>2

-----------------------------------------------------------------------------
(* The theorems.                                                             *)

LEMMA NextCopies == LedgerInv /\ CopyInv /\ [Next]_vars => CopyInv'
  <1> SUFFICES ASSUME LedgerInv, CopyInv, [Next]_vars PROVE CopyInv'
    OBVIOUS
  <1>1. CASE UNCHANGED vars
    BY <1>1 DEF vars, imageVars, CopyInv, Stands, OneOnImage, OneCopy, DocumentHasCopy,
                Accounted, OnImage
  <1>2. ASSUME NEW p \in Procs, ImageCommand(p) PROVE CopyInv'
    BY <1>2, ImportCopies, DeleteCopies, CopyStep DEF ImageCommand
  <1>3. ASSUME NEW p \in Procs, DraftCommand(p) \/ Stop(p) PROVE CopyInv'
    BY <1>3, DraftCopies, StopCopies
  <1> QED  BY <1>1, <1>2, <1>3 DEF Next

(* The invariant of the copies holds of every behaviour of the ledger. *)
THEOREM CopyInvariance == Spec => []CopyInv
  BY InitCopies, NextCopies, LedgerInvariance, PTL DEF Spec

(* As long as commands on an image do not overlap, it has one copy at most,  *)
(* and that copy is the one of its active document, of the import at work,   *)
(* or of an import that was stopped or could not clean up (import_image).    *)
THEOREM CopyIsAccountedForTheorem == Spec => []CopyIsAccountedFor
  <1>1. CopyInv => CopyIsAccountedFor
    <2> SUFFICES ASSUME CopyInv, ~overlapped
                 PROVE  /\ Cardinality(files) <= 1
                        /\ \A s \in files \ abandoned :
                              \/ document = [status |-> "active", path |-> s]
                              \/ \E p \in Procs : proc[p].created /\ proc[p].path = s
      BY DEF CopyIsAccountedFor
    <2>1. OneCopy /\ Accounted
      BY DEF CopyInv
    <2>2. files = {} \/ \E s : files = {s}
      BY <2>1 DEF OneCopy
    <2>3. Cardinality(files) = 0 \/ Cardinality(files) = 1
      BY <2>2, FS_EmptySet, FS_Singleton, Zenon
    <2>4. Cardinality(files) <= 1
      BY <2>3
    <2> QED  BY <2>1, <2>4 DEF Accounted
  <1> QED  BY <1>1, CopyInvariance, PTL

(* As long as commands on an image do not overlap, its active document has   *)
(* its copy, or a deletion removed it and did not finish (delete_document),  *)
(* wherever imports of the image fail or are stopped.                        *)
THEOREM ActiveHasCopyTheorem == Spec => []ActiveHasCopy
  <1>1. CopyInv => ActiveHasCopy
    BY DEF CopyInv, DocumentHasCopy, ActiveHasCopy
  <1> QED  BY <1>1, CopyInvariance, PTL
=============================================================================
