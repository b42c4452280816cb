--------------------------- MODULE RequestPromise ---------------------------
(* What the requests of a database promise to whoever reads it, whichever    *)
(* commands serve them and however they are interrupted: a request works     *)
(* only on the fields it was asked for, tries a field at most twice and a    *)
(* second time only if the first left it without an answer, shows data only  *)
(* together with the try that brought it, and is called complete only with   *)
(* an answer of its own for every field.  SyncSystem implements this.        *)
EXTENDS Naturals

CONSTANTS Requests, Fields, Sections, SectionsOf

VARIABLES
    life,       \* of each request: "absent", "running" or how it ended
    work,       \* the fields it was asked for
    tries,      \* request, field and number of each try
    answers,    \* request and field of each answer
    shown       \* the try that brought what each section shows, or <<>>

vars == <<life, work, tries, answers, shown>>

Endings == {"complete", "partial", "failed", "cancelled", "expired"}

Init ==
    /\ life = [r \in Requests |-> "absent"]
    /\ work = [r \in Requests |-> {}]
    /\ tries = {}
    /\ answers = {}
    /\ shown = [s \in Sections |-> <<>>]

Begin(r) ==
    /\ life[r] = "absent"
    /\ life' = [life EXCEPT ![r] = "running"]
    /\ \E fields \in SUBSET Fields : work' = [work EXCEPT ![r] = fields]
    /\ UNCHANGED <<tries, answers, shown>>

Try(r, field, n) ==
    /\ life[r] = "running"
    /\ field \in work[r]
    /\ <<r, field, n>> \notin tries
    /\ n = 2 => <<r, field, 1>> \in tries /\ <<r, field>> \notin answers
    /\ tries' = tries \union {<<r, field, n>>}
    /\ answers' \in {answers, answers \union {<<r, field>>}}
    /\ \E news \in SUBSET SectionsOf[field] :
          shown' = [s \in Sections |-> IF s \in news THEN <<r, field, n>> ELSE shown[s]]
    /\ UNCHANGED <<life, work>>

End(r) ==
    /\ life[r] = "running"
    /\ \E how \in Endings :
          /\ how = "complete" => \A field \in work[r] : <<r, field>> \in answers
          /\ life' = [life EXCEPT ![r] = how]
    /\ UNCHANGED <<work, tries, answers, shown>>

Next ==
    \E r \in Requests :
        \/ Begin(r)
        \/ \E field \in Fields, n \in {1, 2} : Try(r, field, n)
        \/ End(r)

Spec == Init /\ [][Next]_vars
=============================================================================
