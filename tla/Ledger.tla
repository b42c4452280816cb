------------------------------- MODULE Ledger -------------------------------
(* ledger/service.py and ledger/store.py: payment screenshots, the drafts    *)
(* read from them and the transactions the owner confirms.  Each command is  *)
(* a process of its own, with no lock between them but SQLite's.  Python's   *)
(* sqlite3 opens a transaction at the first write, so that a SELECT before   *)
(* it is a step of its own: what it read may have changed at the write.      *)
(*                                                                           *)
(* Documents of different images share nothing; this is one image, stored    *)
(* under its digest with one of several suffixes.  The private staging file  *)
(* is left out: it has a name nobody else uses.                              *)
EXTENDS Naturals, Sequences, FiniteSets

CONSTANTS
    Procs,       \* the commands that may run at the same time
    Suffixes,    \* the suffixes of image files
    Drafts,      \* bound: ids of drafts, 1..n
    Values,      \* what the fields of a draft may say
    Incomplete,  \* those values that lack the code of the fund
    None,        \* no copy, no value
    MaxCommands, \* bound: commands each process runs
    MayStop      \* whether a command may be interrupted or killed

ASSUME LedgerAssumption ==
    /\ Incomplete \subseteq Values
    /\ None \notin Suffixes
    /\ Drafts \subseteq Nat \ {0}
    /\ MaxCommands \in Nat
    /\ MayStop \in BOOLEAN

VARIABLES
    files,        \* managed copies of the image, by suffix
    document,     \* its row of imported_documents
    drafts,       \* transaction_drafts
    booked,       \* transactions, under the draft each was made from
    proc,         \* the local variables of the processes
    commands,     \* how many commands each process has begun
    overlapped,   \* history: two commands were at work on the image at once
    abandoned,    \* history: copies whose import was stopped, or could not clean up
    unlinked,     \* history: a deletion has removed the copy and not yet the row
    contended     \* history: drafts that two commands confirmed at once

imageVars == <<files, document, abandoned, unlinked>>
draftVars == <<drafts, booked, contended>>
vars == <<imageVars, draftVars, proc, commands, overlapped>>

Complete == Values \ Incomplete
NoDraft == 0

ImagePoints == {"scan", "place", "verify", "recognize", "clean", "select", "import",
                "unlink", "tombstone"}
DraftPoints == {"correct", "reread", "book"}

(* path: the managed copy; created: whether this import made it; seen: the   *)
(* status commit_import selected; value: the draft as it is being confirmed; *)
(* row: the draft as confirm_draft of the store read it again.               *)
ProcType ==
    [pc : {"idle"} \union ImagePoints \union DraftPoints,
     path : Suffixes \union {None}, created : BOOLEAN,
     seen : {"none", "active", "deleted"},
     draft : Drafts \union {NoDraft}, value : Values \union {None},
     row : Values \union {None}]

Idle ==
    [pc |-> "idle", path |-> None, created |-> FALSE, seen |-> "none",
     draft |-> NoDraft, value |-> None, row |-> None]

(* Types of the state. *)
TypeOK ==
    /\ files \subseteq Suffixes
    /\ document \in [status : {"none", "active", "deleted"},
                     path : Suffixes \union {None}]
    /\ drafts \in [Drafts -> [status : {"none", "pending", "confirmed"},
                              value : Values \union {None}]]
    /\ booked \in [Drafts -> Seq(Values)]
    /\ proc \in [Procs -> ProcType]
    /\ commands \in [Procs -> 0..MaxCommands]
    /\ overlapped \in BOOLEAN
    /\ abandoned \subseteq Suffixes
    /\ unlinked \in BOOLEAN
    /\ contended \subseteq Drafts

Init ==
    /\ files = {}
    /\ document = [status |-> "none", path |-> None]
    /\ drafts = [d \in Drafts |-> [status |-> "none", value |-> None]]
    /\ booked = [d \in Drafts |-> <<>>]
    /\ proc = [p \in Procs |-> Idle]
    /\ commands = [p \in Procs |-> 0]
    /\ overlapped = FALSE /\ abandoned = {} /\ unlinked = FALSE /\ contended = {}

-----------------------------------------------------------------------------

At(p, point) == proc[p].pc = point
Goto(p, point) == proc' = [proc EXCEPT ![p].pc = point]
End(p) == proc' = [proc EXCEPT ![p] = Idle]
OnImage(p) == proc[p].pc \in ImagePoints
Keep == UNCHANGED <<commands, overlapped>>

Begin(p) ==
    /\ At(p, "idle") /\ commands[p] < MaxCommands
    /\ commands' = [commands EXCEPT ![p] = @ + 1]

BeginOnImage(p) ==
    /\ Begin(p)
    /\ overlapped' = (overlapped \/ \E q \in Procs : OnImage(q))

(* An import ends without its document: what it copied stays behind. *)
LeaveCopy(p) ==
    abandoned' = IF proc[p].created /\ proc[p].path \in files
                 THEN abandoned \union {proc[p].path} ELSE abandoned

(* import_image: the image has been copied to a staging file and hashed. *)
Import(p, s) ==
    /\ BeginOnImage(p)
    /\ proc' = [proc EXCEPT ![p] = [Idle EXCEPT !.pc = "scan", !.path = s]]
    /\ UNCHANGED <<imageVars, draftVars>>

(* _select_managed_target: a copy of the same image is used again, the one   *)
(* with the same suffix if there is one.                                     *)
ReuseCopy(p) ==
    /\ At(p, "scan")
    /\ \E s \in files :
        /\ proc[p].path \in files => s = proc[p].path
        /\ proc' = [proc EXCEPT ![p].pc = "verify", ![p].path = s]
    /\ UNCHANGED <<imageVars, draftVars>> /\ Keep

NoCopyOfThatName(p) ==               \* without the other suffixes
    /\ At(p, "scan") /\ proc[p].path \notin files
    /\ Goto(p, "place")
    /\ UNCHANGED <<imageVars, draftVars>> /\ Keep

NoCopy(p) ==
    /\ At(p, "scan") /\ files = {}
    /\ Goto(p, "place")
    /\ UNCHANGED <<imageVars, draftVars>> /\ Keep

(* os.replace, which overwrites a copy that appeared since the scan. *)
PlaceCopy(p) ==
    /\ At(p, "place")
    /\ files' = files \union {proc[p].path}
    /\ proc' = [proc EXCEPT ![p].pc = "verify", ![p].created = TRUE]
    /\ UNCHANGED <<document, abandoned, unlinked, draftVars>> /\ Keep

(* _hash_managed_file.  When the copy cannot be read the import ends, and    *)
(* does not remove a copy of its own.  (A copy that holds something else     *)
(* than what was written would be; nothing in the program rewrites one.)     *)
VerifyCopy(p) ==
    /\ At(p, "verify")
    /\ \/ /\ proc[p].path \in files
          /\ Goto(p, "recognize")
          /\ UNCHANGED abandoned
       \/ End(p) /\ LeaveCopy(p)
    /\ UNCHANGED <<files, document, unlinked, draftVars>> /\ Keep

AlwaysClean(p) == Goto(p, "clean")   \* without the check of created

(* _cleanup_new_managed_file: only a copy this import made is removed. *)
Fail(p) == IF proc[p].created THEN Goto(p, "clean") ELSE End(p)

(* OCR and the parser; both may refuse the image. *)
Recognize(p) ==
    /\ At(p, "recognize")
    /\ \/ proc[p].path \in files /\ Goto(p, "select")
       \/ Fail(p)
    /\ UNCHANGED <<imageVars, draftVars>> /\ Keep

Clean(p) ==
    /\ At(p, "clean")
    /\ End(p)
    /\ \/ /\ files' = files \ {proc[p].path}
          /\ abandoned' = abandoned \ {proc[p].path}
       \/ LeaveCopy(p) /\ UNCHANGED files
    /\ UNCHANGED <<document, unlinked, draftVars>> /\ Keep

(* commit_import, up to its first write. *)
SelectDocument(p) ==
    /\ At(p, "select")
    /\ proc' = [proc EXCEPT ![p].pc = "import", ![p].seen = document.status]
    /\ UNCHANGED <<imageVars, draftVars>> /\ Keep

(* The row commit_import leaves: inserted, restored, or only used again if   *)
(* it is still active.                                                       *)
ImportedRow(p) ==
    IF proc[p].seen = "active" /\ document.status # "active" THEN document
    ELSE [status |-> "active", path |-> proc[p].path]

FirstUnused(d) ==
    /\ drafts[d].status = "none"
    /\ \A e \in Drafts : e < d => drafts[e].status # "none"

(* commit_import, its transaction: document, OCR fields and draft. *)
CommitImport(p, d, v) ==
    /\ At(p, "import") /\ FirstUnused(d)
    /\ proc[p].seen = "none" => document.status = "none"
    /\ document' = ImportedRow(p)
    /\ abandoned' = abandoned \ {document'.path}
    /\ unlinked' = (unlinked /\ document' = document)
    /\ drafts' = [drafts EXCEPT ![d] = [status |-> "pending", value |-> v]]
    /\ End(p)
    /\ UNCHANGED <<files, booked, contended>> /\ Keep

(* The database refuses, for one because another import inserted the row. *)
ImportRefused(p) ==
    /\ At(p, "import")
    /\ Fail(p)
    /\ UNCHANGED <<imageVars, draftVars>> /\ Keep

-----------------------------------------------------------------------------

(* delete_document: the path of an active document is read. *)
Delete(p) ==
    /\ BeginOnImage(p)
    /\ document.status = "active"
    /\ proc' = [proc EXCEPT ![p] = [Idle EXCEPT !.pc = "unlink", !.path = document.path]]
    /\ UNCHANGED <<imageVars, draftVars>>

(* _safe_unlink_managed; a missing copy is as good as a removed one, any     *)
(* other error ends the command.                                             *)
Unlink(p) ==
    /\ At(p, "unlink")
    /\ \/ /\ files' = files \ {proc[p].path}
          /\ abandoned' = abandoned \ {proc[p].path}
          /\ unlinked' = TRUE
          /\ Goto(p, "tombstone")
       \/ End(p) /\ UNCHANGED <<files, abandoned, unlinked>>
    /\ UNCHANGED <<document, draftVars>> /\ Keep

(* mark_document_deleted; nothing if the row is not active, or the database  *)
(* fails.                                                                    *)
Tombstone(p) ==
    /\ At(p, "tombstone")
    /\ \/ /\ document.status = "active"
          /\ document' = [status |-> "deleted", path |-> None]
          /\ unlinked' = FALSE
       \/ UNCHANGED <<document, unlinked>>
    /\ End(p)
    /\ UNCHANGED <<files, abandoned, draftVars>> /\ Keep

-----------------------------------------------------------------------------

(* confirm_draft of the service: the draft is read and corrected by what the *)
(* owner says, which must leave it complete.                                 *)
Confirm(p, d, v) ==
    /\ Begin(p) /\ UNCHANGED overlapped
    /\ drafts[d].status = "pending"
    /\ v \in Complete
    /\ proc' = [proc EXCEPT ![p] = [Idle EXCEPT !.pc = "correct", !.draft = d, !.value = v]]
    /\ contended' = IF \E q \in Procs : proc[q].draft = d
                    THEN contended \union {d} ELSE contended
    /\ UNCHANGED <<imageVars, drafts, booked>>

CorrectAnyDraft(p) ==                \* UPDATE without AND status = 'pending'
    LET d == proc[p].draft IN
    /\ At(p, "correct")
    /\ drafts' = [drafts EXCEPT ![d].value = proc[p].value]
    /\ Goto(p, "reread")
    /\ UNCHANGED <<imageVars, booked, contended>> /\ Keep

CorrectInMemory(p) ==                \* without replace_pending_draft
    /\ At(p, "correct")
    /\ Goto(p, "reread")
    /\ UNCHANGED <<imageVars, draftVars>> /\ Keep

(* replace_pending_draft: the whole row, also the fields not corrected. *)
Correct(p) ==
    LET d == proc[p].draft IN
    /\ At(p, "correct")
    /\ \/ /\ drafts[d].status = "pending"
          /\ drafts' = [drafts EXCEPT ![d].value = proc[p].value]
          /\ Goto(p, "reread")
       \/ End(p) /\ UNCHANGED drafts
    /\ UNCHANGED <<imageVars, booked, contended>> /\ Keep

(* confirm_draft of the store, up to its first write. *)
Reread(p) ==
    LET d == proc[p].draft IN
    /\ At(p, "reread")
    /\ \/ /\ drafts[d].status = "pending" /\ drafts[d].value \in Complete
          /\ proc' = [proc EXCEPT ![p].pc = "book", ![p].row = drafts[d].value]
       \/ End(p)
    /\ UNCHANGED <<imageVars, draftVars>> /\ Keep

BookAnyDraft(p) ==                   \* without the check of rowcount
    LET d == proc[p].draft IN
    /\ At(p, "book")
    /\ booked' = [booked EXCEPT ![d] = Append(@, proc[p].row)]
    /\ drafts' = [drafts EXCEPT ![d].status = "confirmed"]
    /\ End(p)
    /\ UNCHANGED <<imageVars, contended>> /\ Keep

(* Its transaction: the transaction is inserted and the draft confirmed,     *)
(* and both are undone when the draft was no longer pending.                 *)
Book(p) ==
    LET d == proc[p].draft IN
    /\ At(p, "book")
    /\ \/ /\ drafts[d].status = "pending"
          /\ booked' = [booked EXCEPT ![d] = Append(@, proc[p].row)]
          /\ drafts' = [drafts EXCEPT ![d].status = "confirmed"]
       \/ UNCHANGED <<booked, drafts>>
    /\ End(p)
    /\ UNCHANGED <<imageVars, contended>> /\ Keep

-----------------------------------------------------------------------------

(* Ctrl-C or the end of the process, at any step: no handler runs that       *)
(* would remove a copy, and SQLite undoes an open transaction.               *)
Stop(p) ==
    /\ MayStop /\ ~At(p, "idle")
    /\ End(p)
    /\ LeaveCopy(p)
    /\ UNCHANGED <<files, document, unlinked, draftVars>> /\ Keep

ImageCommand(p) ==
    \/ \E s \in Suffixes : Import(p, s)
    \/ ReuseCopy(p) \/ NoCopy(p) \/ PlaceCopy(p) \/ VerifyCopy(p)
    \/ Recognize(p) \/ Clean(p) \/ SelectDocument(p)
    \/ \E d \in Drafts, v \in Values : CommitImport(p, d, v)
    \/ ImportRefused(p)
    \/ Delete(p) \/ Unlink(p) \/ Tombstone(p)

DraftCommand(p) ==
    \/ \E d \in Drafts, v \in Values : Confirm(p, d, v)
    \/ Correct(p) \/ Reread(p) \/ Book(p)

Next == \E p \in Procs : ImageCommand(p) \/ DraftCommand(p) \/ Stop(p)

Spec == Init /\ [][Next]_vars

-----------------------------------------------------------------------------

(* A transaction is booked when its draft is confirmed, once, whoever else   *)
(* confirms the draft at the same time.                                      *)
OneTransactionPerDraft ==
    \A d \in Drafts :
        Len(booked[d]) = IF drafts[d].status = "confirmed" THEN 1 ELSE 0

(* A confirmed draft and its transaction never change: a correction that     *)
(* comes late is refused (replace_pending_draft).                            *)
ConfirmedIsFinal ==
    [][\A d \in Drafts :
        drafts[d].status = "confirmed" =>
            drafts'[d] = drafts[d] /\ booked'[d] = booked[d]]_vars

(* The transaction says what the owner confirmed, and so does the draft,     *)
(* whatever happened between reading the draft and booking it, except when   *)
(* another command confirmed the same draft at the same time.                *)
BookedAsConfirmed ==
    [][\A p \in Procs :
        LET d == proc[p].draft IN
        At(p, "book") /\ d \notin contended /\ booked'[d] # booked[d] =>
            /\ booked'[d] = <<proc[p].value>>
            /\ drafts'[d].value = proc[p].value]_vars

(* An import that fails leaves no copy (import_image, stage by stage), and   *)
(* an image has one copy: the one of its active document, of an import under *)
(* way, or of an import that was stopped.                                    *)
CopyIsAccountedFor ==
    ~overlapped =>
        /\ Cardinality(files) <= 1
        /\ \A s \in files \ abandoned :
            \/ document = [status |-> "active", path |-> s]
            \/ \E p \in Procs : proc[p].created /\ proc[p].path = s

(* An active document has its copy, unless a deletion has removed it and is  *)
(* not finished; no failed import takes away the copy it found.              *)
ActiveHasCopy ==
    ~overlapped /\ document.status = "active" => unlinked \/ document.path \in files
=============================================================================
