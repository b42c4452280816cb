\* Two processes of three commands each, in any interleaving and stopped anywhere;
\* two suffixes, so that a copy may be found under the other one.
SPECIFICATION Spec
CONSTANTS
    p1 = p1
    p2 = p2
    noCode = noCode
    code1 = code1
    code2 = code2
    None = None
    Procs = {p1, p2}
    Suffixes = {".jpg", ".png"}
    Drafts = {1, 2}
    Values = {noCode, code1, code2}
    Incomplete = {noCode}
    MaxCommands = 3
    MayStop = TRUE
INVARIANTS
    OneTransactionPerDraft
    CopyIsAccountedFor
    ActiveHasCopy
PROPERTIES
    ConfirmedIsFinal
    BookedAsConfirmed
SYMMETRY ProcSymmetry
CHECK_DEADLOCK FALSE
