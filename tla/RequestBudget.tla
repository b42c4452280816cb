--------------------------- MODULE RequestBudget ---------------------------
(* decision/budget.py: the lifetime of one request.  A RequestBudget is read *)
(* by one thread; every question reads the monotonic clock, and a reading    *)
(* that is not a finite float or that is smaller than the last one cancels   *)
(* the request for good.                                                     *)
(*                                                                           *)
(* The clock is the environment: each read returns any member of Readings    *)
(* or NoReading (an exception, a NaN, a value of another type).  Seconds are *)
(* whole numbers here; the last ulp of the represented deadline, which the   *)
(* constructor rounds down, makes no difference to the comparisons below.    *)
EXTENDS Integers

CONSTANTS
    Start,           \* monotonic_start
    Total,           \* total_seconds: 90 for a rapid request, 480 for a deep one
    CleanupReserve,  \* cleanup_reserve_seconds
    Readings,        \* what the monotonic clock can return
    NoReading,       \* a reading _validate_monotonic_time refuses
    Reasons          \* the reasons callers pass to cancel()

ASSUME BudgetAssumption ==
    /\ Start \in Int
    /\ Total \in Int
    /\ CleanupReserve \in Int
    /\ 0 < CleanupReserve
    /\ CleanupReserve < Total
    /\ Readings \subseteq Int
    /\ NoReading \notin Readings

VARIABLES
    last,        \* _last_monotonic
    cancelled,   \* _cancelled
    reason,      \* _cancel_reason, "none" while it is None
    granted,     \* what the latest question was answered with
    refused      \* history: require_publishable has raised BudgetExpired once

vars == <<last, cancelled, reason, granted, refused>>

Deadline == Start + Total

AllReasons ==
    Reasons \union {"none", "monotonic_clock_invalid", "monotonic_clock_regressed"}

Answers == {"nothing", "work", "publication"}

TypeOK ==
    /\ last \in Int
    /\ cancelled \in BOOLEAN
    /\ reason \in AllReasons
    /\ granted \in Answers
    /\ refused \in BOOLEAN

Init ==
    /\ last = Start
    /\ cancelled = FALSE
    /\ reason = "none"
    /\ granted = "nothing"
    /\ refused = FALSE

-----------------------------------------------------------------------------

(* _cancel: the first reason is kept. *)
CancelAgain(why) == cancelled' = TRUE /\ reason' = why    \* without the early return
CancelWith(why) ==
    /\ cancelled' = TRUE
    /\ reason' = IF cancelled THEN reason ELSE why

(* _read_monotonic: the readings it accepts, and the reason it cancels with *)
(* for the others.                                                          *)
AcceptsAnyNumber(v) == v # NoReading                       \* without the regression test
Accepts(v) == v # NoReading /\ v >= last

ClockFault(v) ==
    IF v = NoReading THEN "monotonic_clock_invalid" ELSE "monotonic_clock_regressed"

(* worker_seconds: 0.0 for a cancelled request, otherwise what is left of   *)
(* the lifetime minus the cleanup reserve.                                  *)
SecondsToDeadline(v) == Deadline - v                       \* without the reserve
SecondsForWork(v) == Deadline - v - CleanupReserve

WorkerSeconds(v) ==
    /\ ~cancelled
    /\ \/ /\ ~Accepts(v)
          /\ CancelWith(ClockFault(v))
          /\ granted' = "nothing"
          /\ UNCHANGED last
       \/ /\ Accepts(v)
          /\ last' = v
          /\ granted' = IF SecondsForWork(v) > 0 THEN "work" ELSE "nothing"
          /\ UNCHANGED <<cancelled, reason>>
    /\ UNCHANGED refused

WorkerSecondsCancelled ==
    /\ cancelled
    /\ granted' = "nothing"
    /\ UNCHANGED <<last, cancelled, reason, refused>>

(* require_publishable: it raises on a cancelled request, on a faulty clock *)
(* and from the deadline on, and it does not cancel in the last case.       *)
RequirePublishable(v) ==
    /\ ~cancelled
    /\ \/ /\ ~Accepts(v)
          /\ CancelWith(ClockFault(v))
          /\ granted' = "nothing"
          /\ refused' = TRUE
          /\ UNCHANGED last
       \/ /\ Accepts(v)
          /\ last' = v
          /\ granted' = IF v >= Deadline THEN "nothing" ELSE "publication"
          /\ refused' = (refused \/ v >= Deadline)
          /\ UNCHANGED <<cancelled, reason>>

RequirePublishableCancelled ==
    /\ cancelled
    /\ granted' = "nothing"
    /\ refused' = TRUE
    /\ UNCHANGED <<last, cancelled, reason>>

(* cancel, called by the owner of the request (Ctrl-C, the worker parent,   *)
(* the disclosure loop).                                                    *)
Cancel(why) ==
    /\ CancelWith(why)
    /\ granted' = "nothing"
    /\ UNCHANGED <<last, refused>>

Next ==
    \/ \E v \in Readings \union {NoReading} : WorkerSeconds(v)
    \/ \E v \in Readings \union {NoReading} : RequirePublishable(v)
    \/ WorkerSecondsCancelled
    \/ RequirePublishableCancelled
    \/ \E why \in Reasons : Cancel(why)

Spec == Init /\ [][Next]_vars

-----------------------------------------------------------------------------

(* Once require_publishable has raised, no later question is answered with   *)
(* work or with publication: a result refused as late cannot become on time  *)
(* because the clock went back (_read_monotonic keeps _last_monotonic).      *)
RefusalIsFinal == refused => granted = "nothing"

(* The recorded cause of a cancellation is the first one: the terminal       *)
(* status (expired or cancelled) the callers derive from cancel_reason does  *)
(* not change while they clean up.                                           *)
FirstReasonWins == [][cancelled => cancelled' /\ reason' = reason]_vars

(* The phase the callers see. *)
Closed == cancelled \/ last >= Deadline
PhaseOf ==
    IF Closed THEN "closed"
    ELSE IF last < Deadline - CleanupReserve THEN "open"
    ELSE "draining"

Phase == INSTANCE BudgetPhase WITH phase <- PhaseOf

(* Every behaviour of the budget is the one-way walk of BudgetPhase: no work *)
(* is granted inside the cleanup reserve, nothing is granted after the end.  *)
ImplementsBudgetPhase == Phase!Spec
=============================================================================
